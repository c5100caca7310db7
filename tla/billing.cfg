SPECIFICATION Spec
CONSTANTS
    TicksPerSecond = 2
    UnitSeconds <- MCUnitSeconds
    MonthStarts <- MCMonthStarts
    Horizon = 40
CHECK_DEADLOCK FALSE
INVARIANT PlanButForPartSeconds
INVARIANT CalendarMonths
PROPERTY MeterRunsForward
