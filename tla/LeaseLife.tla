------------------------------- MODULE LeaseLife -------------------------------
(***************************************************************************)
(* What the control plane promises about the life of one lease, whatever   *)
(* interleaves in the back end:                                            *)
(*                                                                         *)
(*     none -> open -> metered -> charged                                  *)
(*               |        |                                                *)
(*               +--------+-----> waived          any of these -> deleted  *)
(*                                                                         *)
(* A lease is rented once, starts to cost money at most once, is closed    *)
(* with one verdict that no later step revises, and is charged only if it  *)
(* was metered.  One step of the program may move several leases (a rental *)
(* of two nodes, a node that goes offline), each along an edge.            *)
(***************************************************************************)
CONSTANT Leases

VARIABLE phase   \* the phase of every lease

Phases == {"none", "open", "metered", "charged", "waived", "deleted"}

\* An open lease that is "waived" was closed with zero billed units.
Edges ==
    {<<"none", "open">>, <<"open", "metered">>,
     <<"metered", "charged">>, <<"open", "waived">>, <<"metered", "waived">>}
        \cup ({"open", "metered", "charged", "waived"} \X {"deleted"})

Init == phase = [l \in Leases |-> "none"]

\* Every lease stays where it is or moves along an edge.
Next ==
    /\ phase' \in [Leases -> Phases]
    /\ \A l \in Leases : phase'[l] = phase[l] \/ <<phase[l], phase'[l]>> \in Edges

Spec == Init /\ [][Next]_phase

=============================================================================
