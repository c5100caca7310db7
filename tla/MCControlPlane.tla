---------------------------- MODULE MCControlPlane ----------------------------
(* Instances of ControlPlane for TLC. *)
EXTENDS ControlPlane, TLC

\* Lease, connection and request identities are interchangeable.
Symmetry == Permutations(Leases) \cup Permutations(Conns)
                \cup Permutations(Requests) \cup Permutations(Users)

=============================================================================
