SPECIFICATION FairSpec
CONSTANTS
    None = None
    Socks = {s1, s2, s3, s4, s5, s6}
    MaxInits = 2
    Reserve = 3
INVARIANT TypeOK
INVARIANT NeverStranded
INVARIANT HelloBeforeHeartbeat
PROPERTY Heals
CHECK_DEADLOCK FALSE
