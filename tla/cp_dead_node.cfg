SPECIFICATION FairSpec
CONSTANTS
    None = None
    Nodes = {n1}
    Leases = {l1}
    Users = {u1}
    Keys = {}
    Conns = {c1, c2}
    Requests = {r1}
    MaxCount = 1
    HttpOps = {"rent", "set_disabled"}
PROPERTY DeadNodeIsSettled
