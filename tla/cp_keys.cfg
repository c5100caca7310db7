SPECIFICATION Spec
CONSTANTS
    None = None
    Nodes = {n1}
    Leases = {l1}
    Users = {u1, u2}
    Keys = {k1}
    Conns = {c1}
    Requests = {r1, r2}
    MaxCount = 1
    HttpOps = {"rent", "release", "force_node", "delete"}
SYMMETRY Symmetry
INVARIANT KeysAnswerOwnLeases
INVARIANT BilledOnce
PROPERTY FollowsLife
