-------------------------------- MODULE Billing --------------------------------
(***************************************************************************)
(* services/billing.py: what a lease costs, in billing units, if it ends   *)
(* at a given time.  Time is counted in ticks, the resolution of the       *)
(* timestamps (a microsecond in the code), TicksPerSecond to the second.   *)
(*                                                                         *)
(* The state machine is a lease that runs on: started never changes, now   *)
(* is the time at which it might be ended.  compute_billing is a function  *)
(* of the two; the properties relate it to what the billing rules say.     *)
(***************************************************************************)
EXTENDS Integers, FiniteSets

CONSTANTS
    TicksPerSecond,  \* resolution of datetime
    UnitSeconds,     \* _UNIT_SECONDS: length of each unit but the month
    MonthStarts,     \* ticks at which a month begins in the billing time zone
    Horizon          \* last tick looked at

SecondUnits == DOMAIN UnitSeconds
Units == SecondUnits \cup {"month"}

ASSUME BillingAssumption ==
    /\ TicksPerSecond \in Nat \ {0}
    /\ \A u \in SecondUnits : UnitSeconds[u] \in Nat \ {0}
    /\ "month" \notin SecondUnits
    /\ Horizon \in Nat
    /\ MonthStarts \subseteq 0 .. Horizon

VARIABLES started, now, unit

vars == <<started, now, unit>>

TypeOK ==
    /\ started \in 0 .. Horizon
    /\ now \in 0 .. Horizon
    /\ unit \in Units

-----------------------------------------------------------------------------

AtLeastOne(n) == IF n < 1 THEN 1 ELSE n

\* Mutant: the rounding is one short.
FloorDiv(numerator, denominator) == numerator \div denominator

\* _ceil_div
CeilDiv(numerator, denominator) == (numerator + denominator - 1) \div denominator

\* Mutant: timedelta.seconds, which wraps at a day (here at ten seconds).
WholeSecondsModulo(start, end) == ((end - start) \div TicksPerSecond) % 10

\* int((ended_at - started_at).total_seconds()): part seconds are cut off.
WholeSeconds(start, end) == (end - start) \div TicksPerSecond

\* year * 12 + month of a time, up to a constant.
MonthIndex(t) == Cardinality({b \in MonthStarts : b <= t})

\* Mutant: the interval is closed, a whole month counts as two.
MonthsOfClosed(start, end) == AtLeastOne(MonthIndex(end) - MonthIndex(start) + 1)

\* Calendar months of the half-open interval [start, end).
MonthsOf(start, end) == AtLeastOne(MonthIndex(end - 1) - MonthIndex(start) + 1)

\* compute_billing(...).billed_units
BilledUnits(start, end, u) ==
    CASE end < start -> 0
      [] end >= start /\ u \in SecondUnits ->
            AtLeastOne(CeilDiv(WholeSeconds(start, end), UnitSeconds[u]))
      [] end >= start /\ u = "month" -> MonthsOf(start, end)

-----------------------------------------------------------------------------

\* ended_at may be taken before started_at: see ReleaseLookup of ControlPlane.
Init ==
    /\ started \in 0 .. Horizon
    /\ now = 0
    /\ unit \in Units

\* The lease runs on.
Tick ==
    /\ now < Horizon
    /\ now' = now + 1
    /\ UNCHANGED <<started, unit>>

Spec == Init /\ [][Tick]_vars

-----------------------------------------------------------------------------
(* Properties                                                              *)

\* The bill of a lease in a unit of seconds against the rule of the plan,
\* max(1, ceil(duration / unit_seconds)) of the exact duration
\* (IMPLEMENTATION_PLAN.md:81-82), whose value is m.  compute_billing cuts off
\* part seconds before it rounds up, and so departs from the rule in one case
\* only: a further unit of which less than a second was used is not charged.
PlanButForPartSeconds ==
    unit \in SecondUnits /\ now >= started =>
        LET duration == now - started
            length == UnitSeconds[unit] * TicksPerSecond
        IN  \E m \in 1 .. (duration + 1) :
                /\ duration <= m * length
                /\ m > 1 => (m - 1) * length < duration
                /\ BilledUnits(started, now, unit) =
                      IF m > 1 /\ duration < (m - 1) * length + TicksPerSecond
                      THEN m - 1 ELSE m

\* The bill of a monthly lease counts the calendar months that [started, now)
\* touches, and one if it is empty: neither a whole month nor one that ends at
\* midnight of the first is counted twice.
CalendarMonths ==
    unit = "month" /\ now >= started =>
        BilledUnits(started, now, unit) =
            AtLeastOne(Cardinality({MonthIndex(t) : t \in started .. (now - 1)}))

\* The meter only runs forward: ending a lease a tick later never costs less,
\* and at most one unit more.
MeterRunsForward ==
    [][BilledUnits(started, now', unit) - BilledUnits(started, now, unit) \in {0, 1}]_now

=============================================================================
