SPECIFICATION Spec
CONSTANTS
    None = None
    Peers = {p1, p2}
    Objects = {o1, o2}
    Tokens = {t1}
    Screens = {0}
    Primary = 0
    Kinds <- MixedKinds
    Monitor = FALSE
    MaxDisplays = 2
    MaxStarts = 2
    MaxStops = 1
SYMMETRY Symmetry
INVARIANT TypeOK
INVARIANT CaptureCounted
INVARIANT SessionIsWatched
INVARIANT DisplaysAccounted
INVARIANT OnlyInFlightOutlives
CHECK_DEADLOCK FALSE
