SPECIFICATION SerialSpec
CONSTANTS
    None = None
    Nodes = {n1}
    Leases = {l1}
    Users = {u1}
    Keys = {}
    Conns = {c1}
    Requests = {r1}
    MaxCount = 1
    HttpOps = {"rent", "release"}
INVARIANT EndedStaysEnded
