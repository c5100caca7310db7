------------------------------- MODULE NodePool --------------------------------
(***************************************************************************)
(* What the scheduler promises about the pool of nodes: a lease is let     *)
(* once, on one node, and a node is let only while it is vacant.  What a   *)
(* lease has once given up it never gets back, and no lease moves to       *)
(* another node.                                                           *)
(***************************************************************************)
CONSTANTS Nodes, Leases

VARIABLES
    tenants,   \* per node: the leases that run on it
    handed     \* the leases ever handed out

vars == <<tenants, handed>>

Init ==
    /\ tenants = [d \in Nodes |-> {}]
    /\ handed = {}

\* One rent: a new lease for each of several vacant nodes, l -> on[l].
Let(L, on) ==
    /\ L \cap handed = {}
    /\ \A l \in L : tenants[on[l]] = {}
    /\ \A l, m \in L : on[l] = on[m] => l = m
    /\ tenants' = [d \in Nodes |-> tenants[d] \cup {l \in L : on[l] = d}]
    /\ handed' = handed \cup L

\* Any leases end: a release, a node that is lost, a forced release.
Vacate ==
    /\ tenants' \in [Nodes -> SUBSET Leases]
    /\ \A d \in Nodes : tenants'[d] \subseteq tenants[d]
    /\ UNCHANGED handed

Next ==
    \/ \E L \in SUBSET Leases : \E on \in [L -> Nodes] : Let(L, on)
    \/ Vacate

Spec == Init /\ [][Next]_vars

=============================================================================
