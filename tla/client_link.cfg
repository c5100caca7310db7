SPECIFICATION FairSpec
CONSTANTS
    None = None
    Socks = {s1, s2, s3, s4, s5}
    Reserve = 3
    MaxInits = 2
    MaxCalls = 2
INVARIANT TypeOK
INVARIANT StrandedOnlyBy
PROPERTY LogoutIsKept
PROPERTY Heals
CHECK_DEADLOCK FALSE
