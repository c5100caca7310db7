------------------------------ MODULE MCNodeAgent ------------------------------
(* Instances of NodeAgent for TLC. *)
EXTENDS NodeAgent, TLC

\* Shared captures of screen 0, with a display made up for it, and an exclusive
\* start on the same screen, whose display takes over the entry.
MixedKinds == {<<"default", 0>>, <<"occupy", 0>>}

Symmetry == Permutations(Peers) \cup Permutations(Objects)

=============================================================================
