-------------------------- MODULE SettlementProofs --------------------------
(***************************************************************************)
(* Settlement, and stored responses: what holds whatever interleaves.      *)
(***************************************************************************)
EXTENDS ControlPlaneProofs

-----------------------------------------------------------------------------
(* Settlement                                                              *)

SettleInv == SettledIffBilled /\ ChargedOnlyIfReady

\* SettleInv holds of the empty database.
LEMMA SettleInit == Init => SettleInv
  BY DEF Init, SettleInv, SettledIffBilled, ChargedOnlyIfReady, Unrented, LeaseExists

\* SettleInv is inductive relative to TypeInv: the seven cases of LeaseStep.
LEMMA SettleNext == TypeInv /\ SettleInv /\ [Next]_vars => SettleInv'
  <1> SUFFICES ASSUME TypeInv, SettleInv, [Next]_vars PROVE SettleInv'
    OBVIOUS
  <1>1. CASE Next
    <2> SUFFICES ASSUME NEW l \in Leases
                 PROVE  /\ lease'[l].status \notin {"NONE", "GONE"} =>
                              /\ lease'[l].ended <=> lease'[l].bills > 0
                              /\ lease'[l].status = "ENDED" => lease'[l].ended
                        /\ lease'[l].billed = "units" => lease'[l].started
      BY DEF SettleInv, SettledIffBilled, ChargedOnlyIfReady, LeaseExists
    <2> DEFINE Goal == /\ lease'[l].status \notin {"NONE", "GONE"} =>
                              /\ lease'[l].ended <=> lease'[l].bills > 0
                              /\ lease'[l].status = "ENDED" => lease'[l].ended
                       /\ lease'[l].billed = "units" => lease'[l].started
    <2>0. /\ LeaseStep(l) /\ lease[l] \in LeaseRow
          /\ LeaseExists(l) =>
                /\ lease[l].ended <=> lease[l].bills > 0
                /\ lease[l].status = "ENDED" => lease[l].ended
          /\ lease[l].billed = "units" => lease[l].started
      BY <1>1, LeaseRows DEF TypeInv, TypeOK, SettleInv, SettledIffBilled, ChargedOnlyIfReady
    <2>1. CASE lease'[l] = lease[l]
      BY <2>0, <2>1 DEF LeaseExists
    <2>2. ASSUME NEW u \in Users, NEW d \in FreeNodes, lease'[l] = NewLease(u, d) PROVE Goal
      <3>1. d \in Nodes
        BY DEF FreeNodes
      <3> QED  BY <2>2, <3>1, NewLeaseRow
    <2>3. CASE LeaseExists(l) /\ lease'[l] = [lease[l] EXCEPT !.told = TRUE]
      BY <2>0, <2>3 DEF LeaseRow
    <2>4. CASE /\ lease[l].status \in ActiveStatus
               /\ lease'[l] = [lease[l] EXCEPT !.started = TRUE, !.status = "READY"]
      BY <2>0, <2>4 DEF LeaseRow, LeaseExists, ActiveStatus
    <2>5. CASE LeaseExists(l) /\ lease'[l] = [lease[l] EXCEPT !.status = "ACTIVE"]
      BY <2>0, <2>5 DEF LeaseRow
    <2>6. ASSUME NEW s \in BOOLEAN, s => lease[l].started, lease'[l] = Settle(lease[l], s)
          PROVE  Goal
      <3>1. /\ lease'[l].ended
            /\ lease'[l].started = lease[l].started
            /\ lease'[l].billed = IF s THEN "units" ELSE "zero"
            /\ lease'[l].bills = lease[l].bills + 1
        BY <2>0, <2>6, SettleRow
      <3>2. lease[l].bills \in Nat
        BY <2>0 DEF LeaseRow
      <3>3. lease'[l].ended <=> lease'[l].bills > 0
        BY <3>1, <3>2
      <3>4. lease'[l].billed = "units" => lease'[l].started
        BY <2>6, <3>1
      <3> QED  BY <3>1, <3>3, <3>4
    <2>7. CASE lease'[l] = [Unrented("GONE") EXCEPT !.user = lease[l].user]
      <3>1. lease[l].user \in Users \cup {None}
        BY <2>0 DEF LeaseRow
      <3> QED  BY <2>7, <3>1, GoneRow
    <2> QED  BY <2>0, <2>1, <2>2, <2>3, <2>4, <2>5, <2>6, <2>7 DEF LeaseStep
  <1>2. CASE UNCHANGED vars
    BY <1>2 DEF vars, SettleInv, SettledIffBilled, ChargedOnlyIfReady, LeaseExists
  <1> QED  BY <1>1, <1>2

\* Both are invariants.
LEMMA SettleAlways == Spec => [](TypeInv /\ SettleInv)
  BY TypeInit, TypeNext, SettleInit, SettleNext, PTL DEF Spec

\* Whatever interleaves, a lease has a billing record exactly if its ended_at
\* is set.
THEOREM SettlementCorrect == Spec => []SettledIffBilled
  BY SettleAlways, PTL DEF SettleInv

\* Nobody pays for a lease whose node never reported it ready.
THEOREM ChargedCorrect == Spec => []ChargedOnlyIfReady
  BY SettleAlways, PTL DEF SettleInv

\* A row without ended_at has one of the statuses that the status__in queries
\* select.
LEMMA OpenIsActive ==
    TypeInv /\ SettleInv => \A l \in Leases : Open(l) => lease[l].status \in ActiveStatus
  BY DEF TypeInv, TypeOK, LeaseRow, LeaseStatus, SettleInv, SettledIffBilled, Open,
     LeaseExists, ActiveStatus

\* A lease with a record has ended, and end_lease returns early for it.
LEMMA BilledOnceNext ==
    ASSUME "force_lease" \notin HttpOps
    PROVE  TypeInv /\ SettleInv /\ BilledOnce /\ [Next]_vars => BilledOnce'
  <1> SUFFICES ASSUME TypeInv, SettleInv, BilledOnce, [Next]_vars PROVE BilledOnce'
    OBVIOUS
  <1>1. CASE Next
    <2> SUFFICES ASSUME NEW l \in Leases PROVE lease'[l].bills <= 1
      BY DEF BilledOnce
    <2>0. /\ LeaseStep(l) /\ lease[l] \in LeaseRow /\ lease[l].bills \in Nat
          /\ LeaseExists(l) => (lease[l].ended <=> lease[l].bills > 0)
          /\ lease[l].bills <= 1
      BY <1>1, LeaseRows DEF TypeInv, TypeOK, LeaseRow, SettleInv, SettledIffBilled, BilledOnce
    <2>1. CASE lease'[l].bills = lease[l].bills
      BY <2>0, <2>1
    <2>2. ASSUME NEW u \in Users, NEW d \in FreeNodes, lease'[l] = NewLease(u, d)
          PROVE  lease'[l].bills <= 1
      <3>1. d \in Nodes
        BY DEF FreeNodes
      <3> QED  BY <2>2, <3>1, NewLeaseRow
    <2>3. ASSUME NEW s \in BOOLEAN, LeaseExists(l), ~lease[l].ended,
                 lease'[l] = Settle(lease[l], s)
          PROVE  lease'[l].bills <= 1
      <3>1. lease'[l].bills = lease[l].bills + 1
        BY <2>0, <2>3, SettleRow
      <3>2. lease[l].bills = 0
        BY <2>0, <2>3
      <3> QED  BY <3>1, <3>2
    <2>4. CASE lease'[l] = [Unrented("GONE") EXCEPT !.user = lease[l].user]
      <3>1. lease[l].user \in Users \cup {None}
        BY <2>0 DEF LeaseRow
      <3> QED  BY <2>4, <3>1, GoneRow
    <2>5. CASE \/ lease'[l] = lease[l]
               \/ lease'[l] = [lease[l] EXCEPT !.told = TRUE]
               \/ lease'[l] = [lease[l] EXCEPT !.started = TRUE, !.status = "READY"]
               \/ lease'[l] = [lease[l] EXCEPT !.status = "ACTIVE"]
      BY <2>0, <2>1, <2>5 DEF LeaseRow
    <2> QED  BY <2>0, <2>2, <2>3, <2>4, <2>5 DEF LeaseStep
  <1>2. CASE UNCHANGED vars
    BY <1>2 DEF vars, BilledOnce
  <1> QED  BY <1>1, <1>2

\* Without the forced release of a single lease, whose transaction works on a
\* copy read before, no lease is ever settled twice.
THEOREM SettledOnce ==
    ASSUME "force_lease" \notin HttpOps
    PROVE  Spec => []BilledOnce
  <1>1. Init => BilledOnce
    BY DEF Init, BilledOnce, Unrented
  <1>2. TypeInv /\ SettleInv /\ BilledOnce /\ [Next]_vars => BilledOnce'
    BY BilledOnceNext
  <1> QED  BY <1>1, <1>2, SettleAlways, PTL DEF Spec

-----------------------------------------------------------------------------
(* Revived leases                                                          *)

\* A remote-control request in flight holds a lease of its user that the node
\* has reported ready, unless the lease was deleted since.
FlightInv ==
    /\ \A l \in Leases : lease[l].status = "READY" => lease[l].started
    /\ \A u \in Users, l \in Leases : stream[u] = l =>
          \/ lease[l].status = "GONE"
          \/ LeaseExists(l) /\ lease[l].user = u /\ lease[l].started

\* Only _set_lease_active turns ENDED into an active status.
LEMMA RevivalStep ==
    ASSUME TypeInv, Next, NEW l \in Leases,
           lease[l].status = "ENDED", lease'[l].status \in ActiveStatus
    PROVE  \E u \in Users : SetLeaseActive(u) /\ stream[u] = l
  <1>0. lease \in [Leases -> LeaseRow]
    BY DEF TypeInv, TypeOK
  <1>1. CASE UNCHANGED lease
    BY <1>1 DEF ActiveStatus
  <1>2. ASSUME NEW L \in SUBSET Leases, NEW S \in SUBSET Leases, lease' = EndLeases(L, S)
        PROVE  FALSE
    <2>1. lease'[l] = lease[l] \/ lease'[l].status = "ENDED"
      BY <1>2, EndLeasesRows DEF TypeInv
    <2> QED  BY <2>1 DEF ActiveStatus
  <1>3. Started \in SUBSET Leases /\ \A d : ActiveOn(d) \in SUBSET Leases
    BY DEF Started, ActiveOn
  <1>4. ASSUME NEW d, MarkOffline(d) PROVE FALSE
    BY <1>1, <1>2, <1>3, <1>4 DEF MarkOffline, ActiveStatus
  <1>5. ASSUME NEW c \in Conns, NEW m \in Leases, MarkLeaseReady(c, m) PROVE FALSE
    BY <1>0, <1>5 DEF MarkLeaseReady, ActiveStatus
  <1>6. ASSUME NEW u \in Users, SetLeaseActive(u) PROVE stream[u] = l
    BY <1>0, <1>6 DEF SetLeaseActive, ActiveStatus
  <1>7. ASSUME NEW r \in Requests, NEW L \in SUBSET Leases, NEW dev \in [L -> Nodes],
               RentAllocate(r, L, dev)
        PROVE  FALSE
    BY <1>0, <1>7 DEF RentAllocate, ActiveStatus
  <1>8. ASSUME NEW r \in Requests, RentNotify(r) PROVE FALSE
    BY <1>0, <1>8 DEF RentNotify, LeaseRow, ActiveStatus
  <1>9. ASSUME NEW r \in Requests,
               ReleaseEnd(r) \/ \E done \in SUBSET Leases : ReleaseNotFound(r, done)
        PROVE  FALSE
    <2>1. req[r].leases \in SUBSET Leases /\ req[r].started \in SUBSET Leases
      BY DEF TypeInv, TypeOK, Request
    <2> QED  BY <1>2, <1>9, <2>1 DEF ReleaseEnd, ReleaseNotFound, ReleaseLoop
  <1>10. ASSUME NEW r \in Requests, NEW m \in Leases, ForceLeaseEnd(r, m) PROVE FALSE
    <2>1. CASE lease'[l] = lease[l]
      BY <2>1 DEF ActiveStatus
    <2>2. CASE lease'[l] = Settle(lease[l], l \in req[r].started)
      <3>1. ASSUME NEW s \in BOOLEAN PROVE Settle(lease[l], s).status = "ENDED"
        BY <1>0, SettleRow
      <3>2. (l \in req[r].started) \in BOOLEAN
        OBVIOUS
      <3>3. lease'[l].status = "ENDED"
        BY <2>2, <3>1, <3>2
      <3> QED  BY <3>3 DEF ActiveStatus
    <2> QED  BY <1>0, <1>10, <2>1, <2>2 DEF ForceLeaseEnd
  <1>11. ASSUME NEW r \in Requests, NEW d \in Nodes, ForceNode(r, d) PROVE FALSE
    BY <1>2, <1>3, <1>11 DEF ForceNode
  <1>12. ASSUME NEW r \in Requests, DeleteLeases(r) PROVE FALSE
    <2>1. lease[l].user \in Users \cup {None}
      BY <1>0 DEF LeaseRow
    <2>2. \/ lease'[l] = lease[l]
          \/ lease'[l] = [Unrented("GONE") EXCEPT !.user = lease[l].user]
      BY <1>12 DEF DeleteLeases
    <2> QED  BY <2>1, <2>2, GoneRow DEF ActiveStatus
  <1> QED
    BY <1>1, <1>4, <1>5, <1>6, <1>7, <1>8, <1>9, <1>10, <1>11, <1>12, LeaseWriters
       DEF LeaseWrite

\* What a step does to the requests in flight.
LEMMA StreamSteps ==
    ASSUME TypeInv, Next, NEW u \in Users
    PROVE  \/ stream'[u] = stream[u]
           \/ stream'[u] = None
           \/ \E l \in Leases : AuthorizeLeaseStream(u, l) /\ stream'[u] = l
  <1>0. stream \in [Users -> Leases \cup {None}]
    BY DEF TypeInv, TypeOK
  <1>1. ASSUME NEW v \in Users, StreamStep(v)
        PROVE  \/ stream'[u] = stream[u]
               \/ stream'[u] = None
               \/ \E l \in Leases : AuthorizeLeaseStream(u, l) /\ stream'[u] = l
    BY <1>0, <1>1 DEF StreamStep, AuthorizeLeaseStream, SetLeaseActive
  <1>2. CASE ServerRestart
    BY <1>2 DEF ServerRestart
  <1>3. CASE \/ WsStep
             \/ \E c \in Conns : SocketStep(c)
             \/ \E d \in Nodes : DeviceToken(d) \/ HeartbeatOverdue(d)
             \/ CheckerStep
    BY <1>3 DEF WsStep, NodeConnectedCheck, NodeHelloCheck, NodeConnectedSave, NodeHelloSave,
       WsCheck, WsSave, SocketStep, Connect, NodeConnectedRead, NodeHelloRead, WsRead,
       Heartbeat, SocketLost, NodeDisconnected, MarkLeaseReady, DeviceToken,
       HeartbeatOverdue, CheckerStep, CheckStaleNodes, MarkStaleNode
  <1>4. CASE \E r \in Requests : RequestArrives(r)
    BY <1>4 DEF RequestArrives, RentLookup, ReleaseLookup, ForceLeaseRead, ForceNode,
       DeleteCheck, SetStateRead
  <1>5. CASE \E r \in Requests : RequestStep(r)
    BY <1>5 DEF RequestStep, RentAllocate, RentNoCapacity, RentNotify, RentStoreKey,
       ReleaseEnd, ReleaseNotify, ReleaseStoreKey, StoreKey, ReleaseNotFound, ForceLeaseEnd,
       ForceLeaseFail, ForceNotify, SetStateSave, DeleteLeases, DeleteNode
  <1> QED  BY <1>1, <1>2, <1>3, <1>4, <1>5 DEF Next

\* FlightInv is inductive relative to TypeInv.
LEMMA FlightNext == TypeInv /\ FlightInv /\ [Next]_vars => FlightInv'
  <1> SUFFICES ASSUME TypeInv, FlightInv, [Next]_vars PROVE FlightInv'
    OBVIOUS
  <1>1. CASE Next
    <2>0. ASSUME NEW l \in Leases PROVE LeaseStep(l) /\ lease[l] \in LeaseRow
      BY <1>1, LeaseRows DEF TypeInv, TypeOK
    <2>1. ASSUME NEW l \in Leases, lease'[l].status = "READY" PROVE lease'[l].started
      <3>1. LeaseStep(l) /\ lease[l] \in LeaseRow
            /\ (lease[l].status = "READY" => lease[l].started)
        BY <2>0 DEF FlightInv
      <3>2. ASSUME NEW u \in Users, NEW d \in FreeNodes, lease'[l] = NewLease(u, d) PROVE FALSE
        <4>1. d \in Nodes
          BY DEF FreeNodes
        <4> QED  BY <2>1, <3>2, <4>1, NewLeaseRow
      <3>3. ASSUME NEW s \in BOOLEAN, lease'[l] = Settle(lease[l], s) PROVE FALSE
        BY <2>1, <3>1, <3>3, SettleRow
      <3>4. CASE lease'[l] = [Unrented("GONE") EXCEPT !.user = lease[l].user]
        <4>1. lease[l].user \in Users \cup {None}
          BY <3>1 DEF LeaseRow
        <4> QED  BY <2>1, <3>4, <4>1, GoneRow
      <3>5. CASE \/ lease'[l] = lease[l]
                 \/ lease'[l] = [lease[l] EXCEPT !.told = TRUE]
                 \/ lease'[l] = [lease[l] EXCEPT !.started = TRUE, !.status = "READY"]
                 \/ lease'[l] = [lease[l] EXCEPT !.status = "ACTIVE"]
        BY <2>1, <3>1, <3>5 DEF LeaseRow
      <3> QED  BY <3>1, <3>2, <3>3, <3>4, <3>5 DEF LeaseStep
    <2>2. ASSUME NEW u \in Users, NEW l \in Leases, stream'[u] = l
          PROVE  \/ lease'[l].status = "GONE"
                 \/ LeaseExists(l)' /\ lease'[l].user = u /\ lease'[l].started
      <3>1. CASE stream[u] = l
        <4>1. \/ lease[l].status = "GONE"
              \/ LeaseExists(l) /\ lease[l].user = u /\ lease[l].started
          BY <3>1 DEF FlightInv
        <4> QED  BY <2>0, <4>1, LeaseStepFacts DEF LeaseExists
      <3>2. CASE AuthorizeLeaseStream(u, l)
        <4>1. lease' = lease /\ lease[l].user = u /\ lease[l].status = "READY"
          BY <3>2 DEF AuthorizeLeaseStream
        <4> QED  BY <4>1 DEF FlightInv, LeaseExists
      <3> QED  BY <1>1, <2>2, <3>1, <3>2, StreamSteps, ConstantsAssumption
    <2> QED  BY <2>1, <2>2 DEF FlightInv
  <1>2. CASE UNCHANGED vars
    BY <1>2 DEF vars, FlightInv, LeaseExists
  <1> QED  BY <1>1, <1>2

\* Whatever interleaves, a lease that has ended shows an active status again
\* only when a remote-control request of its renter, authorised before, ends.
THEOREM RevivalNeedsFlight == Spec => RevivedOnlyInFlight
  <1>1. Init => FlightInv
    BY ConstantsAssumption DEF Init, FlightInv, Unrented
  <1>2. TypeInv /\ FlightInv /\ [Next]_vars =>
            [\A l \in Leases :
                lease[l].status = "ENDED" /\ lease'[l].status \in ActiveStatus =>
                    /\ lease[l].started
                    /\ stream[lease[l].user] = l
                    /\ stream'[lease[l].user] = None]_vars
    <2> SUFFICES ASSUME TypeInv, FlightInv, Next, NEW l \in Leases,
                        lease[l].status = "ENDED", lease'[l].status \in ActiveStatus
                 PROVE  /\ lease[l].started
                        /\ stream[lease[l].user] = l
                        /\ stream'[lease[l].user] = None
      OBVIOUS
    <2>1. PICK u \in Users : SetLeaseActive(u) /\ stream[u] = l
      BY RevivalStep
    <2>2. lease[l].user = u /\ lease[l].started
      BY <2>1 DEF FlightInv
    <2>3. stream'[u] = None
      BY <2>1 DEF SetLeaseActive, TypeInv, TypeOK
    <2> QED  BY <2>1, <2>2, <2>3
  <1> QED  BY <1>1, <1>2, FlightNext, TypeAlways, PTL DEF Spec, RevivedOnlyInFlight

-----------------------------------------------------------------------------
(* The life of a lease                                                     *)

\* What PhaseOf gives for the rows of a lease that exists and that does not.
LEMMA PhaseOfRow ==
    ASSUME NEW row \in LeaseRow
    PROVE  /\ row.status = "NONE" => PhaseOf(row) = "none"
           /\ row.status = "GONE" => PhaseOf(row) = "deleted"
           /\ row.status \notin {"NONE", "GONE"} =>
                 PhaseOf(row) = IF row.ended
                                THEN IF row.billed = "units" THEN "charged" ELSE "waived"
                                ELSE IF row.started THEN "metered" ELSE "open"
           /\ PhaseOf(row) \in Life!Phases
  <1>1. CASE row.status = "NONE"
    BY <1>1 DEF PhaseOf, Life!Phases
  <1>2. CASE row.status = "GONE"
    BY <1>2 DEF PhaseOf, Life!Phases
  <1>3. CASE row.status \notin {"NONE", "GONE"}
    <2>1. CASE row.ended
      BY <1>3, <2>1 DEF PhaseOf, Life!Phases
    <2>2. CASE ~row.ended
      BY <1>3, <2>2 DEF PhaseOf, Life!Phases
    <2> QED  BY <2>1, <2>2
  <1> QED  BY <1>1, <1>2, <1>3

\* Every case of LeaseStep is an edge of the abstract life, or none at all.
LEMMA PhaseStep ==
    ASSUME "force_lease" \notin HttpOps, TypeInv, SettleInv, NEW l \in Leases, LeaseStep(l)
    PROVE  \/ PhaseOf(lease'[l]) = PhaseOf(lease[l])
           \/ <<PhaseOf(lease[l]), PhaseOf(lease'[l])>> \in Life!Edges
  <1> DEFINE Goal == \/ PhaseOf(lease'[l]) = PhaseOf(lease[l])
                     \/ <<PhaseOf(lease[l]), PhaseOf(lease'[l])>> \in Life!Edges
  <1>0. lease[l] \in LeaseRow /\ lease'[l] \in LeaseRow
    BY LeaseStepFacts DEF TypeInv, TypeOK
  <1>1. CASE lease'[l] = lease[l]
    BY <1>1
  <1>2. ASSUME lease[l].status = "NONE", NEW u \in Users, NEW d \in FreeNodes,
               lease'[l] = NewLease(u, d)
        PROVE  Goal
    <2>1. /\ lease'[l].status = "ASSIGNED" /\ ~lease'[l].ended /\ ~lease'[l].started
      BY <1>2, NewLeaseRow DEF FreeNodes
    <2>2. PhaseOf(lease[l]) = "none" /\ PhaseOf(lease'[l]) = "open"
      BY <1>0, <1>2, <2>1, PhaseOfRow
    <2> QED  BY <2>2 DEF Life!Edges
  <1>3. CASE LeaseExists(l) /\ lease'[l] = [lease[l] EXCEPT !.told = TRUE]
    <2>1. /\ lease'[l].status = lease[l].status /\ (lease'[l].ended <=> lease[l].ended)
          /\ (lease'[l].started <=> lease[l].started) /\ lease'[l].billed = lease[l].billed
      BY <1>0, <1>3 DEF LeaseRow
    <2> QED  BY <2>1 DEF PhaseOf
  <1>4. CASE /\ lease[l].status \in ActiveStatus
             /\ lease'[l] = [lease[l] EXCEPT !.started = TRUE, !.status = "READY"]
    <2>1. /\ lease'[l].status = "READY" /\ (lease'[l].ended <=> lease[l].ended)
          /\ lease'[l].started /\ lease'[l].billed = lease[l].billed
          /\ lease[l].status \notin {"NONE", "GONE"}
      BY <1>0, <1>4 DEF LeaseRow, ActiveStatus
    <2>2. CASE lease[l].ended
      BY <1>0, <2>1, <2>2, PhaseOfRow
    <2>3. CASE ~lease[l].ended
      <3>1. PhaseOf(lease[l]) \in {"open", "metered"} /\ PhaseOf(lease'[l]) = "metered"
        BY <1>0, <2>1, <2>3, PhaseOfRow
      <3> QED  BY <3>1 DEF Life!Edges
    <2> QED  BY <2>2, <2>3
  <1>5. CASE LeaseExists(l) /\ lease'[l] = [lease[l] EXCEPT !.status = "ACTIVE"]
    <2>1. /\ lease'[l].status = "ACTIVE" /\ (lease'[l].ended <=> lease[l].ended)
          /\ (lease'[l].started <=> lease[l].started) /\ lease'[l].billed = lease[l].billed
      BY <1>0, <1>5 DEF LeaseRow
    <2> QED  BY <1>0, <1>5, <2>1, PhaseOfRow DEF LeaseExists
  <1>6. ASSUME NEW s \in BOOLEAN, LeaseExists(l), ~lease[l].ended, s => lease[l].started,
               lease'[l] = Settle(lease[l], s)
        PROVE  Goal
    <2>1. /\ lease'[l].status = "ENDED" /\ lease'[l].ended
          /\ lease'[l].billed = IF s THEN "units" ELSE "zero"
      BY <1>0, <1>6, SettleRow
    <2>2. PhaseOf(lease'[l]) = IF s THEN "charged" ELSE "waived"
      BY <1>0, <2>1, PhaseOfRow
    <2>3. PhaseOf(lease[l]) = IF lease[l].started THEN "metered" ELSE "open"
      BY <1>0, <1>6, PhaseOfRow DEF LeaseExists
    <2> QED  BY <1>6, <2>2, <2>3 DEF Life!Edges
  <1>7. CASE LeaseExists(l) /\ lease'[l] = [Unrented("GONE") EXCEPT !.user = lease[l].user]
    <2>1. lease[l].user \in Users \cup {None}
      BY <1>0 DEF LeaseRow
    <2>2. lease'[l].status = "GONE"
      BY <1>7, <2>1, GoneRow
    <2>3. /\ PhaseOf(lease'[l]) = "deleted"
          /\ PhaseOf(lease[l]) \in {"open", "metered", "charged", "waived"}
      BY <1>0, <1>7, <2>2, PhaseOfRow DEF LeaseExists
    <2> QED  BY <2>3 DEF Life!Edges
  <1> QED  BY <1>1, <1>2, <1>3, <1>4, <1>5, <1>6, <1>7 DEF LeaseStep

\* The back end implements the abstract life of a lease, unless the forced
\* release of a single lease settles it from a copy read before.
THEOREM ImplementsLife ==
    ASSUME "force_lease" \notin HttpOps
    PROVE  Spec => FollowsLife
  <1>1. Init => Life!Init
    <2> SUFFICES ASSUME Init PROVE Phase = [l \in Leases |-> "none"]
      BY DEF Life!Init
    <2>1. \A l \in Leases : PhaseOf(lease[l]) = "none"
      BY DEF Init, Unrented, PhaseOf
    <2> QED  BY <2>1 DEF Phase
  <1>2. TypeInv /\ SettleInv /\ [Next]_vars => [Life!Next]_Phase
    <2> SUFFICES ASSUME TypeInv, SettleInv, [Next]_vars PROVE [Life!Next]_Phase
      OBVIOUS
    <2>1. CASE Next
      <3>1. \A l \in Leases : LeaseStep(l)
        BY <2>1, LeaseRows
      <3>2. \A l \in Leases : PhaseOf(lease'[l]) \in Life!Phases
        BY <3>1, LeaseStepFacts, PhaseOfRow
      <3>3. Phase' \in [Leases -> Life!Phases]
        BY <3>2 DEF Phase
      <3>4. \A l \in Leases : \/ Phase'[l] = Phase[l]
                               \/ <<Phase[l], Phase'[l]>> \in Life!Edges
        BY <3>1, PhaseStep DEF Phase
      <3> QED  BY <3>3, <3>4 DEF Life!Next
    <2>2. CASE UNCHANGED vars
      BY <2>2 DEF vars, Phase
    <2> QED  BY <2>1, <2>2
  <1> QED  BY <1>1, <1>2, SettleAlways, PTL DEF Spec, FollowsLife, Life!Spec

-----------------------------------------------------------------------------
(* Stored responses                                                        *)

Answering == {"rent_notify", "rent_key", "release_notify", "release_key"}

\* The leases a view will put into a stored response are its user's.
KeysInv ==
    /\ \A i \in idem : \A l \in i.leases :
          lease[l].status # "NONE" /\ lease[l].user = i.user
    /\ \A r \in Requests : req[r].pc \in Answering =>
          \A l \in req[r].leases : lease[l].status # "NONE" /\ lease[l].user = req[r].user

\* A view comes to answer by allocating or by ending leases.
LEMMA AnswerSteps ==
    ASSUME TypeInv, Next
    PROVE  \A r \in Requests : req'[r].pc \in Answering =>
              \/ /\ req[r].pc \in Answering
                 /\ req'[r].leases = req[r].leases /\ req'[r].user = req[r].user
              \/ ReleaseEnd(r)
              \/ \E L \in SUBSET Leases : \E dev \in [L -> Nodes] : RentAllocate(r, L, dev)
  <1> DEFINE Fine(r) == req'[r].pc \in Answering =>
              \/ /\ req[r].pc \in Answering
                 /\ req'[r].leases = req[r].leases /\ req'[r].user = req[r].user
              \/ ReleaseEnd(r)
              \/ \E L \in SUBSET Leases : \E dev \in [L -> Nodes] : RentAllocate(r, L, dev)
  <1>0. req \in [Requests -> Request]
    BY DEF TypeInv, TypeOK
  <1>1. ASSUME NEW r \in Requests, \A x \in Requests \ {r} : req'[x] = req[x], Fine(r)
        PROVE  \A x \in Requests : Fine(x)
    BY <1>1
  <1>2. ASSUME NEW r \in Requests, RequestArrives(r) PROVE \A x \in Requests : Fine(x)
    <2> DEFINE Other == /\ req'[r].pc \notin Answering
                        /\ \A x \in Requests \ {r} : req'[x] = req[x]
    <2>1. ASSUME NEW u \in Users, NEW k \in Keys \cup {None}, NEW n \in 1 .. MaxCount,
                 RentLookup(r, u, k, n)
          PROVE  Other
      BY <1>0, <2>1 DEF RentLookup, NoReq, Answering
    <2>2. ASSUME NEW u \in Users, NEW k \in Keys \cup {None}, NEW L \in SUBSET Leases,
                 ReleaseLookup(r, u, k, L)
          PROVE  Other
      BY <1>0, <2>2 DEF ReleaseLookup, NoReq, Answering
    <2>3. ASSUME NEW l \in Leases, ForceLeaseRead(r, l) PROVE Other
      BY <1>0, <2>3 DEF ForceLeaseRead, NoReq, Answering
    <2>4. ASSUME NEW d \in Nodes, ForceNode(r, d) \/ DeleteCheck(r, d) PROVE Other
      BY <1>0, <2>4 DEF ForceNode, DeleteCheck, NoReq, Answering
    <2>5. ASSUME NEW d \in Nodes, NEW op \in {"set_disabled", "set_maintenance", "set_free"},
                 SetStateRead(r, d, op)
          PROVE  Other
      BY <1>0, <2>5 DEF SetStateRead, NoReq, Answering
    <2>6. Other
      BY <1>2, <2>1, <2>2, <2>3, <2>4, <2>5 DEF RequestArrives
    <2> QED  BY <1>1, <2>6
  <1>3. ASSUME NEW r \in Requests, RequestStep(r) PROVE \A x \in Requests : Fine(x)
    <2>1. CASE ReleaseEnd(r) \/ \E L \in SUBSET Leases : \E dev \in [L -> Nodes] :
                                   RentAllocate(r, L, dev)
      <3>1. \A x \in Requests \ {r} : req'[x] = req[x]
        BY <1>0, <2>1 DEF ReleaseEnd, RentAllocate
      <3> QED  BY <1>1, <2>1, <3>1
    <2>2. CASE RentNotify(r) \/ ReleaseNotify(r)
      <3>1. \A x \in Requests \ {r} : req'[x] = req[x]
        BY <1>0, <2>2 DEF RentNotify, ReleaseNotify
      <3>2. CASE req[r].key = None
        <4>1. req'[r].pc = "idle"
          BY <1>0, <2>2, <3>2 DEF RentNotify, ReleaseNotify, NoReq
        <4> QED  BY <1>1, <3>1, <4>1 DEF Answering
      <3>3. CASE req[r].key # None
        <4>1. /\ req[r].pc \in Answering
              /\ req'[r].leases = req[r].leases /\ req'[r].user = req[r].user
          BY <1>0, <2>2, <3>3 DEF RentNotify, ReleaseNotify, Request, Answering
        <4> QED  BY <1>1, <3>1, <4>1
      <3> QED  BY <3>2, <3>3
    <2>3. CASE \/ RentNoCapacity(r) \/ RentStoreKey(r) \/ ReleaseStoreKey(r)
               \/ \E done \in SUBSET Leases : ReleaseNotFound(r, done)
               \/ ForceLeaseFail(r) \/ ForceNotify(r) \/ SetStateSave(r) \/ DeleteNode(r)
      <3>1. req' = [req EXCEPT ![r] = NoReq]
        BY <2>3 DEF RentNoCapacity, RentStoreKey, ReleaseStoreKey, StoreKey, ReleaseNotFound,
           ForceLeaseFail, ForceNotify, SetStateSave, DeleteNode
      <3> QED  BY <1>0, <1>1, <3>1 DEF NoReq, Answering
    <2>4. CASE DeleteLeases(r) \/ \E l \in Leases : ForceLeaseEnd(r, l)
      <3>1. /\ \A x \in Requests \ {r} : req'[x] = req[x]
            /\ req'[r].pc \notin Answering
        BY <1>0, <2>4 DEF DeleteLeases, ForceLeaseEnd, Request, Answering
      <3> QED  BY <1>1, <3>1
    <2> QED  BY <1>3, <2>1, <2>2, <2>3, <2>4 DEF RequestStep
  <1>4. CASE ServerRestart
    BY <1>4 DEF ServerRestart, NoReq, Answering
  <1>5. CASE \/ WsStep
             \/ \E c \in Conns : SocketStep(c)
             \/ \E u \in Users : StreamStep(u)
             \/ \E d \in Nodes : DeviceToken(d) \/ HeartbeatOverdue(d)
             \/ CheckerStep
    <2>1. UNCHANGED req
      BY <1>5 DEF WsStep, NodeConnectedCheck, NodeHelloCheck, NodeConnectedSave,
         NodeHelloSave, WsCheck, WsSave, SocketStep, Connect, NodeConnectedRead,
         NodeHelloRead, WsRead, Heartbeat, SocketLost, NodeDisconnected, MarkLeaseReady,
         StreamStep, AuthorizeLeaseStream, SetLeaseActive, DeviceToken, HeartbeatOverdue,
         CheckerStep, CheckStaleNodes, MarkStaleNode
    <2> QED  BY <2>1
  <1> QED  BY <1>2, <1>3, <1>4, <1>5 DEF Next

\* idem only grows, by the response of a view that is answering.
LEMMA IdemSteps ==
    ASSUME Next
    PROVE  \A i \in idem' : \/ i \in idem
                            \/ \E r \in Requests : /\ req[r].pc \in Answering
                                                   /\ i.leases = req[r].leases
                                                   /\ i.user = req[r].user
  <1>1. CASE UNCHANGED idem
    BY <1>1
  <1>2. ASSUME NEW r \in Requests, RentStoreKey(r) \/ ReleaseStoreKey(r)
        PROVE  \A i \in idem' : \/ i \in idem
                                \/ /\ req[r].pc \in Answering
                                   /\ i.leases = req[r].leases
                                   /\ i.user = req[r].user
    BY <1>2 DEF RentStoreKey, ReleaseStoreKey, StoreKey, Answering
  <1>3. CASE \/ WsStep
             \/ \E c \in Conns : SocketStep(c)
             \/ \E u \in Users : StreamStep(u)
             \/ \E d \in Nodes : DeviceToken(d) \/ HeartbeatOverdue(d)
             \/ CheckerStep
             \/ ServerRestart
    <2>1. UNCHANGED idem
      BY <1>3 DEF WsStep, NodeConnectedCheck, NodeHelloCheck, NodeConnectedSave,
         NodeHelloSave, WsCheck, WsSave, SocketStep, Connect, NodeConnectedRead,
         NodeHelloRead, WsRead, Heartbeat, SocketLost, NodeDisconnected, MarkLeaseReady,
         StreamStep, AuthorizeLeaseStream, SetLeaseActive, DeviceToken, HeartbeatOverdue,
         CheckerStep, CheckStaleNodes, MarkStaleNode, ServerRestart
    <2> QED  BY <1>1, <2>1
  <1>4. ASSUME NEW r \in Requests, RequestArrives(r) PROVE UNCHANGED idem
    BY <1>4 DEF RequestArrives, RentLookup, ReleaseLookup, ForceLeaseRead, ForceNode,
       DeleteCheck, SetStateRead
  <1>5. ASSUME NEW r \in Requests, RequestStep(r)
        PROVE  UNCHANGED idem \/ RentStoreKey(r) \/ ReleaseStoreKey(r)
    BY <1>5 DEF RequestStep, RentAllocate, RentNoCapacity, RentNotify,
       ReleaseEnd, ReleaseNotify, ReleaseNotFound, ForceLeaseEnd,
       ForceLeaseFail, ForceNotify, SetStateSave, DeleteLeases, DeleteNode
  <1> QED  BY <1>1, <1>2, <1>3, <1>4, <1>5 DEF Next

\* KeysInv is inductive relative to TypeInv.
LEMMA KeysNext == TypeInv /\ KeysInv /\ [Next]_vars => KeysInv'
  <1> SUFFICES ASSUME TypeInv, KeysInv, [Next]_vars PROVE KeysInv'
    OBVIOUS
  <1>1. CASE Next
    <2>1. \A l \in Leases : lease[l].status # "NONE" =>
             lease'[l].status # "NONE" /\ lease'[l].user = lease[l].user
      BY <1>1, LeaseRows, LeaseStepFacts
    <2>2. (\A i \in idem : i.leases \subseteq Leases)
          /\ \A r \in Requests : req[r].leases \subseteq Leases
      BY DEF TypeInv, TypeOK, IdemRow, Request
    <2>3. ASSUME NEW i \in idem', NEW l \in i.leases
          PROVE  lease'[l].status # "NONE" /\ lease'[l].user = i.user
      BY <1>1, <2>1, <2>2, <2>3, IdemSteps DEF KeysInv
    <2>4. ASSUME NEW r \in Requests, req'[r].pc \in Answering, NEW l \in req'[r].leases
          PROVE  lease'[l].status # "NONE" /\ lease'[l].user = req'[r].user
      <3>1. CASE /\ req[r].pc \in Answering
                 /\ req'[r].leases = req[r].leases /\ req'[r].user = req[r].user
        BY <2>1, <2>2, <2>4, <3>1 DEF KeysInv
      <3>2. CASE ReleaseEnd(r)
        <4>1. req'[r].leases = req[r].leases /\ req'[r].user = req[r].user
          BY <3>2 DEF ReleaseEnd, TypeInv, TypeOK, Request
        <4>2. lease[l].status # "NONE" /\ lease[l].user = req[r].user
          BY <2>4, <3>2, <4>1 DEF ReleaseEnd, Found, LeaseExists
        <4> QED  BY <2>1, <2>2, <2>4, <4>1, <4>2
      <3>3. ASSUME NEW L \in SUBSET Leases, NEW dev \in [L -> Nodes], RentAllocate(r, L, dev)
            PROVE  lease'[l].status # "NONE" /\ lease'[l].user = req'[r].user
        <4>1. req'[r].leases = L /\ req'[r].user = req[r].user
          BY <3>3 DEF RentAllocate, TypeInv, TypeOK, Request
        <4>2. l \in L /\ dev[l] \in Nodes /\ req[r].user \in Users
          BY <2>4, <3>3, <4>1 DEF RentAllocate, TypeInv, ReqRefs, ReqOK
        <4>3. lease'[l] = NewLease(req[r].user, dev[l])
          BY <3>3, <4>2 DEF RentAllocate
        <4> QED  BY <4>1, <4>2, <4>3, NewLeaseRow
      <3> QED  BY <1>1, <2>4, <3>1, <3>2, <3>3, AnswerSteps
    <2> QED  BY <2>3, <2>4 DEF KeysInv
  <1>2. CASE UNCHANGED vars
    BY <1>2 DEF vars, KeysInv
  <1> QED  BY <1>1, <1>2

\* A stored response never shows a user the leases of another one.
THEOREM KeysAreOwn == Spec => []KeysAnswerOwnLeases
  <1>1. Init => KeysInv
    BY DEF Init, KeysInv, NoReq, Answering
  <1>2. KeysInv => KeysAnswerOwnLeases
    BY DEF KeysInv, KeysAnswerOwnLeases
  <1> QED  BY <1>1, <1>2, KeysNext, TypeAlways, PTL DEF Spec

=============================================================================
