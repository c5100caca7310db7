------------------------- MODULE ControlPlaneProofs -------------------------
(***************************************************************************)
(* ControlPlane, for every number of nodes, leases, users, sockets and     *)
(* concurrent requests: the type invariant, and LeaseStep, the list of     *)
(* everything a step may do to a lease row.  SettlementProofs and          *)
(* ExclusiveProofs build on both.                                          *)
(***************************************************************************)
EXTENDS ControlPlane, TLAPS

-----------------------------------------------------------------------------
(* Types.  TypeOK is not inductive: a function that is inside of its        *)
(* handler has a device, a user or a key, not None, and a lease row's       *)
(* device is a node that exists.                                            *)

WsRefs == ws.pc # "idle" =>
            /\ ws.dev \in Nodes /\ ws.conn \in Conns /\ ws.status \in NodeStatus
            /\ sock[ws.conn].dev = ws.dev /\ sock[ws.conn].st # "closed"

SockRefs == \A c \in Conns : sock[c].st # "closed" => sock[c].dev \in Nodes

LeaseRefs == \A l \in Leases : LeaseExists(l) =>
                lease[l].dev \in Nodes /\ lease[l].user \in Users

\* What a request in flight holds, by its program counter.
ReqOK(q) ==
    /\ q.pc \in {"rent_allocate", "rent_notify", "rent_key", "release_end",
                 "release_notify", "release_key"} => q.user \in Users
    /\ q.pc \in {"rent_key", "release_key"} => q.key \in Keys
    /\ q.pc \in {"state_save", "delete_leases", "delete_node", "force_end"} => q.dev \in Nodes
    /\ q.pc \in {"state_save", "force_end"} => q.status \in NodeStatus
    /\ q.pc = "force_end" => "force_lease" \in HttpOps

ReqRefs == \A r \in Requests : ReqOK(req[r])

\* A view that saw started_at set: the lease is still started, or deleted.
CopyIsOld ==
    \A r \in Requests : \A l \in req[r].started :
        lease[l].status = "GONE" \/ (LeaseExists(l) /\ lease[l].started)

TypeInv == /\ TypeOK /\ WsRefs /\ SockRefs /\ LeaseRefs /\ LeaseHasNode
           /\ ReqRefs /\ CopyIsOld

\* end_lease keeps the shape of a lease row and touches nothing but the
\* settlement fields.
LEMMA SettleRow ==
    ASSUME NEW row \in LeaseRow, NEW started \in BOOLEAN
    PROVE  /\ Settle(row, started) \in LeaseRow
           /\ Settle(row, started).status = "ENDED"
           /\ Settle(row, started).ended
           /\ Settle(row, started).dev = row.dev
           /\ Settle(row, started).user = row.user
           /\ Settle(row, started).started = row.started
           /\ Settle(row, started).bills = row.bills + 1
           /\ Settle(row, started).billed = IF started THEN "units" ELSE "zero"
  <1>1. ASSUME NEW n \in Nat, NEW x \in {"no", "zero", "units"}
        PROVE  [row EXCEPT !.status = "ENDED", !.ended = TRUE,
                           !.billed = x, !.bills = n] \in LeaseRow
    BY DEF LeaseRow, LeaseStatus
  <1>2. row.bills + 1 \in Nat
    BY DEF LeaseRow
  <1>3. (IF started THEN "units" ELSE "zero") \in {"no", "zero", "units"}
    OBVIOUS
  <1>4. Settle(row, started) \in LeaseRow
    BY <1>1, <1>2, <1>3 DEF Settle
  <1>5. /\ Settle(row, started).status = "ENDED"
        /\ Settle(row, started).ended
        /\ Settle(row, started).dev = row.dev
        /\ Settle(row, started).user = row.user
        /\ Settle(row, started).bills = row.bills + 1
    BY DEF Settle, LeaseRow, LeaseStatus
  <1>6. Settle(row, started).started = row.started
    BY DEF Settle, LeaseRow, LeaseStatus
  <1>7. Settle(row, started).billed = IF started THEN "units" ELSE "zero"
    BY DEF Settle, LeaseRow, LeaseStatus
  <1> QED  BY <1>4, <1>5, <1>6, <1>7

\* The same for the leases that one transaction ends: those of L that are
\* still open are settled, the other rows stay as they are.
LEMMA EndLeasesRows ==
    ASSUME TypeOK, NEW L \in SUBSET Leases, NEW S \in SUBSET Leases
    PROVE  /\ EndLeases(L, S) \in [Leases -> LeaseRow]
           /\ \A l \in Leases :
                 LET e == EndLeases(L, S)[l]
                 IN  /\ e.dev = lease[l].dev
                     /\ e.user = lease[l].user
                     /\ e.started = lease[l].started
                     /\ l \notin L \/ lease[l].ended => e = lease[l]
                     /\ l \in L /\ ~lease[l].ended =>
                           /\ e.status = "ENDED"
                           /\ e.ended
                           /\ e.bills = lease[l].bills + 1
                           /\ e.billed = IF l \in S THEN "units" ELSE "zero"
  <1>1. lease \in [Leases -> LeaseRow]
    BY DEF TypeOK
  <1>2. ASSUME NEW l \in Leases
        PROVE  LET e == EndLeases(L, S)[l]
               IN  /\ e \in LeaseRow
                   /\ e.dev = lease[l].dev
                   /\ e.user = lease[l].user
                   /\ e.started = lease[l].started
                   /\ l \notin L \/ lease[l].ended => e = lease[l]
                   /\ l \in L /\ ~lease[l].ended =>
                         /\ e.status = "ENDED"
                         /\ e.ended
                         /\ e.bills = lease[l].bills + 1
                         /\ e.billed = IF l \in S THEN "units" ELSE "zero"
    <2>1. (l \in S) \in BOOLEAN /\ lease[l] \in LeaseRow
      BY <1>1
    <2>2. CASE l \in L /\ ~lease[l].ended
      <3>1. EndLeases(L, S)[l] = Settle(lease[l], l \in S)
        BY <2>2 DEF EndLeases, EndLease
      <3>2. LET e == Settle(lease[l], l \in S)
            IN  /\ e \in LeaseRow
                /\ e.status = "ENDED"
                /\ e.ended
                /\ e.dev = lease[l].dev
                /\ e.user = lease[l].user
                /\ e.started = lease[l].started
                /\ e.bills = lease[l].bills + 1
                /\ e.billed = IF l \in S THEN "units" ELSE "zero"
        BY <2>1, SettleRow, Zenon
      <3> QED  BY <2>2, <3>1, <3>2
    <2>3. CASE ~(l \in L /\ ~lease[l].ended)
      <3>1. EndLeases(L, S)[l] = lease[l]
        BY <2>3 DEF EndLeases, EndLease
      <3> QED  BY <2>1, <2>3, <3>1
    <2> QED  BY <2>2, <2>3
  <1>3. EndLeases(L, S) = [l \in Leases |-> EndLeases(L, S)[l]]
    BY DEF EndLeases
  <1>4. EndLeases(L, S) \in [Leases -> LeaseRow]
    BY <1>2, <1>3
  <1> QED  BY <1>2, <1>4

-----------------------------------------------------------------------------
(* What a step may do to a lease row: seven kinds of write, whoever the     *)
(* writer is.                                                               *)

LeaseStep(l) ==
    \/ lease'[l] = lease[l]
    \/ /\ lease[l].status = "NONE"
       /\ \E u \in Users, d \in FreeNodes : lease'[l] = NewLease(u, d)
    \/ LeaseExists(l) /\ lease'[l] = [lease[l] EXCEPT !.told = TRUE]
    \/ /\ lease[l].status \in ActiveStatus
       /\ lease'[l] = [lease[l] EXCEPT !.started = TRUE, !.status = "READY"]
    \/ LeaseExists(l) /\ lease'[l] = [lease[l] EXCEPT !.status = "ACTIVE"]
    \/ /\ LeaseExists(l)
       /\ ~lease[l].ended \/ "force_lease" \in HttpOps
       /\ \/ lease'[l] = Settle(lease[l], FALSE)
          \/ lease[l].started /\ lease'[l] = Settle(lease[l], TRUE)
    \/ LeaseExists(l) /\ lease'[l] = [Unrented("GONE") EXCEPT !.user = lease[l].user]

\* A transaction that ends leases it has found settles the open ones.
LEMMA EndLeasesStep ==
    ASSUME NEW L \in SUBSET Leases, NEW S \in SUBSET Leases,
           \A l \in L : LeaseExists(l) /\ (l \in S => lease[l].started),
           lease' = EndLeases(L, S)
    PROVE  \A l \in Leases : LeaseStep(l)
  <1> SUFFICES ASSUME NEW l \in Leases PROVE LeaseStep(l)
    OBVIOUS
  <1>1. CASE l \in L /\ ~lease[l].ended
    <2>1. lease'[l] = Settle(lease[l], l \in S)
      BY <1>1 DEF EndLeases, EndLease
    <2>2. CASE l \in S
      <3>1. lease'[l] = Settle(lease[l], TRUE)
        BY <2>1, <2>2 DEF Settle
      <3> QED  BY <1>1, <2>2, <3>1 DEF LeaseStep
    <2>3. CASE l \notin S
      <3>1. lease'[l] = Settle(lease[l], FALSE)
        BY <2>1, <2>3 DEF Settle
      <3> QED  BY <1>1, <3>1 DEF LeaseStep
    <2> QED  BY <2>2, <2>3
  <1>2. CASE ~(l \in L /\ ~lease[l].ended)
    BY <1>2 DEF EndLeases, EndLease, LeaseStep
  <1> QED  BY <1>1, <1>2

\* mark_node_offline_and_end_leases ends the active leases of one node.
LEMMA MarkOfflineStep ==
    ASSUME TypeInv, NEW d \in Nodes, MarkOffline(d)
    PROVE  \A l \in Leases : LeaseStep(l)
  <1>1. CASE NodeExists(d)
    <2>1. /\ ActiveOn(d) \in SUBSET Leases /\ Started \in SUBSET Leases
          /\ \A l \in ActiveOn(d) : LeaseExists(l) /\ (l \in Started => lease[l].started)
      BY DEF ActiveOn, ActiveStatus, Started, LeaseExists
    <2>2. lease' = EndLeases(ActiveOn(d), Started)
      BY <1>1 DEF MarkOffline
    <2> QED  BY <2>1, <2>2, EndLeasesStep
  <1>2. CASE ~NodeExists(d)
    BY <1>2 DEF MarkOffline, LeaseStep
  <1> QED  BY <1>1, <1>2

\* The loop of ReleaseLeaseView ends leases it has found.
LEMMA ReleaseLoopStep ==
    ASSUME TypeInv, NEW r \in Requests, NEW L \in SUBSET Found(r),
           ReleaseLoop(L, req[r].started)
    PROVE  \A l \in Leases : LeaseStep(l)
  <1>1. L \in SUBSET Leases /\ req[r].started \in SUBSET Leases
    BY DEF TypeInv, TypeOK, Request, Found
  <1>2. \A l \in L : LeaseExists(l) /\ (l \in req[r].started => lease[l].started)
    BY DEF TypeInv, CopyIsOld, Found, LeaseExists
  <1>3. lease' = EndLeases(L, req[r].started)
    BY DEF ReleaseLoop
  <1> QED  BY <1>1, <1>2, <1>3, EndLeasesStep

\* The actions that write lease rows.
LeaseWrite ==
    \/ \E c \in Conns : sock[c].st # "closed" /\ MarkOffline(sock[c].dev)
    \/ \E d \in Nodes : MarkOffline(d)
    \/ \E c \in Conns, l \in Leases : MarkLeaseReady(c, l)
    \/ \E u \in Users : SetLeaseActive(u)
    \/ \E r \in Requests :
          \/ \E L \in SUBSET Leases : \E dev \in [L -> Nodes] : RentAllocate(r, L, dev)
          \/ RentNotify(r)
          \/ ReleaseEnd(r)
          \/ \E done \in SUBSET Leases : ReleaseNotFound(r, done)
          \/ \E l \in Leases : ForceLeaseEnd(r, l)
          \/ \E d \in Nodes : ForceNode(r, d)
          \/ DeleteLeases(r)

\* Every other action leaves the lease rows alone.
LEMMA LeaseWriters == Next => LeaseWrite \/ UNCHANGED lease
  <1> SUFFICES ASSUME Next PROVE LeaseWrite \/ UNCHANGED lease
    OBVIOUS
  <1>1. CASE WsStep
    BY <1>1 DEF WsStep, NodeConnectedCheck, NodeHelloCheck, NodeConnectedSave,
                NodeHelloSave, WsCheck, WsSave
  <1>2. ASSUME NEW c \in Conns, SocketStep(c) PROVE LeaseWrite \/ UNCHANGED lease
    BY <1>2 DEF SocketStep, Connect, NodeConnectedRead, NodeHelloRead, WsRead, Heartbeat,
                SocketLost, NodeDisconnected, LeaseWrite
  <1>3. ASSUME NEW u \in Users, StreamStep(u) PROVE LeaseWrite \/ UNCHANGED lease
    BY <1>3 DEF StreamStep, AuthorizeLeaseStream, LeaseWrite
  <1>4. ASSUME NEW r \in Requests, RequestArrives(r) PROVE LeaseWrite \/ UNCHANGED lease
    BY <1>4 DEF RequestArrives, RentLookup, ReleaseLookup, ForceLeaseRead, DeleteCheck,
                SetStateRead, LeaseWrite
  <1>5. ASSUME NEW r \in Requests, RequestStep(r) PROVE LeaseWrite \/ UNCHANGED lease
    BY <1>5 DEF RequestStep, RentNoCapacity, RentStoreKey, ReleaseNotify, ReleaseStoreKey,
                StoreKey, ForceLeaseFail, ForceNotify, SetStateSave, DeleteNode, LeaseWrite
  <1>6. ASSUME NEW d \in Nodes, DeviceToken(d) \/ HeartbeatOverdue(d)
        PROVE  UNCHANGED lease
    BY <1>6 DEF DeviceToken, HeartbeatOverdue
  <1>7. CASE CheckerStep
    BY <1>7 DEF CheckerStep, CheckStaleNodes, MarkStaleNode, LeaseWrite
  <1>8. CASE ServerRestart
    BY <1>8 DEF ServerRestart
  <1> QED  BY <1>1, <1>2, <1>3, <1>4, <1>5, <1>6, <1>7, <1>8 DEF Next

\* Every step writes lease rows in one of the ways of LeaseStep.
LEMMA LeaseRows ==
    ASSUME TypeInv, Next
    PROVE  /\ lease' = [l \in Leases |-> lease'[l]]
           /\ \A l \in Leases : LeaseStep(l)
  <1> DEFINE Goal == /\ lease' = [l \in Leases |-> lease'[l]]
                     /\ \A l \in Leases : LeaseStep(l)
  <1>0. lease \in [Leases -> LeaseRow] /\ lease = [l \in Leases |-> lease[l]]
    BY DEF TypeInv, TypeOK
  <1>1. CASE UNCHANGED lease
    BY <1>0, <1>1 DEF LeaseStep
  <1>2. ASSUME NEW d \in Nodes, MarkOffline(d) PROVE Goal
    <2>1. \A l \in Leases : LeaseStep(l)
      BY <1>2, MarkOfflineStep
    <2>2. lease' = [l \in Leases |-> lease'[l]]
      BY <1>0, <1>2 DEF MarkOffline, EndLeases
    <2> QED  BY <2>1, <2>2
  <1>3. ASSUME NEW c \in Conns, sock[c].st # "closed", MarkOffline(sock[c].dev) PROVE Goal
    <2>1. sock[c].dev \in Nodes
      BY <1>3 DEF TypeInv, SockRefs
    <2> QED  BY <1>2, <1>3, <2>1
  <1>4. ASSUME NEW c \in Conns, NEW l \in Leases, MarkLeaseReady(c, l) PROVE Goal
    BY <1>0, <1>4 DEF MarkLeaseReady, LeaseStep
  <1>5. ASSUME NEW u \in Users, SetLeaseActive(u) PROVE Goal
    BY <1>0, <1>5 DEF SetLeaseActive, LeaseStep
  <1>6. ASSUME NEW r \in Requests, NEW L \in SUBSET Leases, NEW dev \in [L -> Nodes],
               RentAllocate(r, L, dev)
        PROVE  Goal
    <2>1. req[r].user \in Users
      BY <1>6 DEF TypeInv, ReqRefs, ReqOK, RentAllocate
    <2> QED  BY <1>0, <1>6, <2>1 DEF RentAllocate, LeaseStep
  <1>7. ASSUME NEW r \in Requests, RentNotify(r) PROVE Goal
    BY <1>0, <1>7 DEF RentNotify, LeaseStep
  <1>8. ASSUME NEW r \in Requests, NEW L \in SUBSET Found(r),
               ReleaseLoop(L, req[r].started)
        PROVE  Goal
    <2>1. \A l \in Leases : LeaseStep(l)
      BY <1>8, ReleaseLoopStep
    <2>2. lease' = [l \in Leases |-> lease'[l]]
      BY <1>0, <1>8 DEF ReleaseLoop, EndLeases
    <2> QED  BY <2>1, <2>2
  <1>9. ASSUME NEW r \in Requests, ReleaseEnd(r) PROVE Goal
    BY <1>8, <1>9 DEF ReleaseEnd
  <1>10. ASSUME NEW r \in Requests, NEW done \in SUBSET Leases, ReleaseNotFound(r, done)
         PROVE  Goal
    BY <1>8, <1>10 DEF ReleaseNotFound
  <1>11. ASSUME NEW r \in Requests, NEW l \in Leases, ForceLeaseEnd(r, l) PROVE Goal
    <2>1. CASE req[r].ended
      BY <1>1, <1>11, <2>1 DEF ForceLeaseEnd
    <2>2. CASE ~req[r].ended
      <3>1. LeaseExists(l) /\ "force_lease" \in HttpOps
        BY <1>11, <2>2 DEF ForceLeaseEnd, TypeInv, ReqRefs, ReqOK
      <3>2. l \in req[r].started => lease[l].started
        BY <3>1 DEF TypeInv, CopyIsOld, LeaseExists
      <3>3. lease' = [lease EXCEPT ![l] = Settle(lease[l], l \in req[r].started)]
        BY <1>11, <2>2 DEF ForceLeaseEnd
      <3>4. CASE l \in req[r].started
        <4>1. Settle(lease[l], l \in req[r].started) = Settle(lease[l], TRUE)
          BY <3>4 DEF Settle
        <4> QED  BY <1>0, <3>1, <3>2, <3>3, <3>4, <4>1 DEF LeaseStep
      <3>5. CASE l \notin req[r].started
        <4>1. Settle(lease[l], l \in req[r].started) = Settle(lease[l], FALSE)
          BY <3>5 DEF Settle
        <4> QED  BY <1>0, <3>1, <3>3, <4>1 DEF LeaseStep
      <3> QED  BY <3>4, <3>5
    <2> QED  BY <2>1, <2>2
  <1>12. ASSUME NEW r \in Requests, NEW d \in Nodes, ForceNode(r, d) PROVE Goal
    <2>1. /\ ActiveOn(d) \in SUBSET Leases /\ Started \in SUBSET Leases
          /\ \A l \in ActiveOn(d) : LeaseExists(l) /\ (l \in Started => lease[l].started)
      BY DEF ActiveOn, ActiveStatus, Started, LeaseExists
    <2>2. lease' = EndLeases(ActiveOn(d), Started)
      BY <1>12 DEF ForceNode
    <2>3. \A l \in Leases : LeaseStep(l)
      BY <2>1, <2>2, EndLeasesStep
    <2>4. lease' = [l \in Leases |-> lease'[l]]
      BY <1>0, <2>2 DEF EndLeases
    <2> QED  BY <2>3, <2>4
  <1>13. ASSUME NEW r \in Requests, DeleteLeases(r) PROVE Goal
    BY <1>0, <1>13 DEF DeleteLeases, LeaseStep
  <1> QED
    BY <1>1, <1>2, <1>3, <1>4, <1>5, <1>6, <1>7, <1>9, <1>10, <1>11, <1>12, <1>13,
       LeaseWriters DEF LeaseWrite

\* The row that RentLeaseView creates.
LEMMA NewLeaseRow ==
    ASSUME NEW u \in Users, NEW d \in Nodes
    PROVE  /\ NewLease(u, d) \in LeaseRow
           /\ NewLease(u, d).status = "ASSIGNED"
           /\ NewLease(u, d).user = u
           /\ NewLease(u, d).dev = d
           /\ ~NewLease(u, d).started /\ ~NewLease(u, d).ended
           /\ NewLease(u, d).billed = "no" /\ NewLease(u, d).bills = 0
  <1>1. Unrented("ASSIGNED") \in LeaseRow
    BY DEF Unrented, LeaseRow, LeaseStatus
  <1>2. NewLease(u, d) \in LeaseRow
    BY <1>1 DEF NewLease, LeaseRow
  <1> QED  BY <1>2 DEF NewLease, Unrented

\* What stands for a deleted row.
LEMMA GoneRow ==
    ASSUME NEW u \in Users \cup {None}
    PROVE  LET row == [Unrented("GONE") EXCEPT !.user = u]
           IN  /\ row \in LeaseRow
               /\ row.status = "GONE" /\ row.user = u /\ row.bills = 0 /\ row.billed = "no"
  <1>1. Unrented("GONE") \in LeaseRow
    BY DEF Unrented, LeaseRow
  <1>2. [Unrented("GONE") EXCEPT !.user = u] \in LeaseRow
    BY <1>1 DEF LeaseRow
  <1> QED  BY <1>2 DEF Unrented

\* Consequences of LeaseStep that the invariants need.
LEMMA LeaseStepFacts ==
    ASSUME TypeInv, NEW l \in Leases, LeaseStep(l)
    PROVE  /\ lease'[l] \in LeaseRow
           /\ lease[l].status # "NONE" => lease'[l].status # "NONE"
           /\ lease[l].status = "GONE" => lease'[l].status = "GONE"
           /\ lease[l].status # "NONE" => lease'[l].user = lease[l].user
           /\ lease'[l].status \notin {"NONE", "GONE"} =>
                 \/ /\ LeaseExists(l)
                    /\ lease'[l].dev = lease[l].dev
                    /\ lease'[l].user = lease[l].user
                    /\ lease[l].started => lease'[l].started
                 \/ /\ lease[l].status = "NONE"
                    /\ lease'[l].dev \in FreeNodes
                    /\ lease'[l].user \in Users
  <1> DEFINE Goal ==
           /\ lease'[l] \in LeaseRow
           /\ lease[l].status # "NONE" => lease'[l].status # "NONE"
           /\ lease[l].status = "GONE" => lease'[l].status = "GONE"
           /\ lease[l].status # "NONE" => lease'[l].user = lease[l].user
           /\ lease'[l].status \notin {"NONE", "GONE"} =>
                 \/ /\ LeaseExists(l)
                    /\ lease'[l].dev = lease[l].dev
                    /\ lease'[l].user = lease[l].user
                    /\ lease[l].started => lease'[l].started
                 \/ /\ lease[l].status = "NONE"
                    /\ lease'[l].dev \in FreeNodes
                    /\ lease'[l].user \in Users
  <1>0. lease[l] \in LeaseRow
    BY DEF TypeInv, TypeOK
  <1>1. CASE lease'[l] = lease[l]
    BY <1>0, <1>1 DEF LeaseExists
  <1>2. ASSUME lease[l].status = "NONE", NEW u \in Users, NEW d \in FreeNodes,
               lease'[l] = NewLease(u, d)
        PROVE  Goal
    BY <1>0, <1>2, NewLeaseRow DEF FreeNodes
  <1>3. CASE LeaseExists(l) /\ lease'[l] = [lease[l] EXCEPT !.told = TRUE]
    BY <1>0, <1>3 DEF LeaseRow, LeaseExists
  <1>4. CASE /\ lease[l].status \in ActiveStatus
             /\ lease'[l] = [lease[l] EXCEPT !.started = TRUE, !.status = "READY"]
    BY <1>0, <1>4 DEF LeaseRow, LeaseStatus, LeaseExists, ActiveStatus
  <1>5. CASE LeaseExists(l) /\ lease'[l] = [lease[l] EXCEPT !.status = "ACTIVE"]
    BY <1>0, <1>5 DEF LeaseRow, LeaseStatus, LeaseExists
  <1>6. ASSUME LeaseExists(l), NEW s \in BOOLEAN, lease'[l] = Settle(lease[l], s)
        PROVE  Goal
    BY <1>0, <1>6, SettleRow DEF LeaseExists
  <1>7. CASE LeaseExists(l) /\ lease'[l] = [Unrented("GONE") EXCEPT !.user = lease[l].user]
    <2>1. lease[l].user \in Users \cup {None}
      BY <1>0 DEF LeaseRow
    <2> QED  BY <1>7, <2>1, GoneRow DEF LeaseExists
  <1> QED  BY <1>1, <1>2, <1>3, <1>4, <1>5, <1>6, <1>7 DEF LeaseStep

-----------------------------------------------------------------------------
(* Requests                                                                *)

\* An idle request slot has the type of a request.
LEMMA NoReqType == NoReq \in Request
  BY ConstantsAssumption DEF NoReq, Request, RequestPc

\* A request keeps its type; what it claims to have read it read before, or
\* reads in this step.
LEMMA ReqTypes ==
    ASSUME TypeInv, Next
    PROVE  /\ req' \in [Requests -> Request]
           /\ ReqRefs'
           /\ \A r \in Requests : \A l \in req'[r].started :
                 \/ l \in req[r].started
                 \/ UNCHANGED lease /\ lease[l].started /\ lease[l].status # "NONE"
  <1> DEFINE Goal ==
           /\ req' \in [Requests -> Request]
           /\ ReqRefs'
           /\ \A r \in Requests : \A l \in req'[r].started :
                 \/ l \in req[r].started
                 \/ UNCHANGED lease /\ lease[l].started /\ lease[l].status # "NONE"
  <1>0. req \in [Requests -> Request] /\ ReqRefs /\ NoReq \in Request
    BY NoReqType DEF TypeInv, TypeOK
  <1>1. CASE UNCHANGED req
    BY <1>0, <1>1 DEF ReqRefs
  <1>2. ASSUME NEW r \in Requests, NEW q \in Request, req' = [req EXCEPT ![r] = q],
               ReqOK(q),
               \A l \in q.started :
                  \/ l \in req[r].started
                  \/ UNCHANGED lease /\ lease[l].started /\ lease[l].status # "NONE"
        PROVE  Goal
    BY <1>0, <1>2 DEF ReqRefs
  <1>3. ASSUME NEW r \in Requests, req' = [req EXCEPT ![r] = NoReq] PROVE Goal
    <2>1. ReqOK(NoReq) /\ NoReq.started = {}
      BY DEF ReqOK, NoReq
    <2> QED  BY <1>0, <1>2, <1>3, <2>1
  <1>4. ASSUME NEW r \in Requests, NEW pc \in RequestPc,
               req' = [req EXCEPT ![r].pc = pc],
               ReqOK([req[r] EXCEPT !.pc = pc])
        PROVE  Goal
    <2>1. [req[r] EXCEPT !.pc = pc] \in Request
      BY <1>0 DEF Request
    <2>2. [req[r] EXCEPT !.pc = pc].started = req[r].started
      BY <1>0 DEF Request
    <2>3. req' = [req EXCEPT ![r] = [req[r] EXCEPT !.pc = pc]]
      BY <1>0, <1>4
    <2> QED  BY <1>2, <1>4, <2>1, <2>2, <2>3
  <1>5. ASSUME NEW r \in Requests, NEW u \in Users, NEW k \in Keys \cup {None},
               NEW n \in 1 .. MaxCount, RentLookup(r, u, k, n)
        PROVE  Goal
    <2>1. n \in 0 .. MaxCount
      BY ConstantsAssumption
    <2>2. ASSUME NEW m \in 0 .. MaxCount
          PROVE  LET q == [NoReq EXCEPT !.pc = "rent_allocate", !.user = u, !.key = k,
                                        !.count = m]
                 IN  q \in Request /\ ReqOK(q) /\ q.started = {}
      <3>1. [NoReq EXCEPT !.pc = "rent_allocate", !.user = u, !.key = k, !.count = m]
               \in Request
        BY <1>0 DEF Request, RequestPc
      <3> QED  BY <3>1 DEF NoReq, ReqOK
    <2>3. req' = [req EXCEPT ![r] = [NoReq EXCEPT !.pc = "rent_allocate", !.user = u,
                                                  !.key = k, !.count = n]]
      BY <1>5 DEF RentLookup
    <2> QED  BY <1>2, <2>1, <2>2, <2>3
  <1>6. ASSUME NEW r \in Requests, NEW u \in Users, NEW k \in Keys \cup {None},
               NEW L \in SUBSET Leases, ReleaseLookup(r, u, k, L)
        PROVE  Goal
    <2> DEFINE q == [NoReq EXCEPT !.pc = "release_end", !.user = u, !.key = k,
                                  !.leases = L, !.started = L \cap Started]
    <2>1. q \in Request
      BY <1>0 DEF Request, RequestPc
    <2>2. ReqOK(q) /\ q.started = L \cap Started
      BY DEF NoReq, ReqOK
    <2>3. /\ req' = [req EXCEPT ![r] = q]
          /\ UNCHANGED lease
          /\ \A l \in L \cap Started : lease[l].started /\ lease[l].status # "NONE"
      BY <1>6 DEF ReleaseLookup, Started
    <2> HIDE DEF q
    <2> QED  BY <1>2, <2>1, <2>2, <2>3
  <1>7. ASSUME NEW r \in Requests, NEW l \in Leases, ForceLeaseRead(r, l) PROVE Goal
    <2> DEFINE q == [NoReq EXCEPT !.pc = "force_end", !.leases = {l}, !.dev = lease[l].dev,
                                  !.status = node[lease[l].dev].status,
                                  !.started = {l} \cap Started, !.ended = lease[l].ended]
    <2>1. /\ lease[l].dev \in Nodes /\ lease[l].ended \in BOOLEAN
          /\ node[lease[l].dev].status \in NodeStatus
          /\ "force_lease" \in HttpOps
      BY <1>7 DEF ForceLeaseRead, TypeInv, TypeOK, LeaseRefs, LeaseHasNode, NodeRow, LeaseRow,
                  NodeExists
    <2>2. q \in Request
      BY <1>0, <2>1 DEF Request, RequestPc
    <2>3. ReqOK(q) /\ q.started = {l} \cap Started
      BY <2>1 DEF NoReq, ReqOK
    <2>4. /\ req' = [req EXCEPT ![r] = q]
          /\ UNCHANGED lease
          /\ \A m \in {l} \cap Started : lease[m].started /\ lease[m].status # "NONE"
      BY <1>7 DEF ForceLeaseRead, Started, LeaseExists
    <2> HIDE DEF q
    <2> QED  BY <1>2, <2>2, <2>3, <2>4
  <1>8. ASSUME NEW r \in Requests, NEW d \in Nodes, ForceNode(r, d) PROVE Goal
    <2> DEFINE q == [NoReq EXCEPT !.pc = "force_notify", !.leases = ActiveOn(d)]
    <2>1. q \in Request
      BY <1>0 DEF Request, RequestPc, ActiveOn
    <2>2. ReqOK(q) /\ q.started = {}
      BY DEF NoReq, ReqOK
    <2>3. req' = [req EXCEPT ![r] = q]
      BY <1>8 DEF ForceNode
    <2> HIDE DEF q
    <2> QED  BY <1>2, <2>1, <2>2, <2>3
  <1>9. ASSUME NEW r \in Requests, NEW d \in Nodes, DeleteCheck(r, d) PROVE Goal
    <2> DEFINE q == [NoReq EXCEPT !.pc = "delete_leases", !.dev = d]
    <2>1. q \in Request
      BY <1>0 DEF Request, RequestPc
    <2>2. ReqOK(q) /\ q.started = {}
      BY DEF NoReq, ReqOK
    <2>3. req' = [req EXCEPT ![r] = q]
      BY <1>9 DEF DeleteCheck
    <2> HIDE DEF q
    <2> QED  BY <1>2, <2>1, <2>2, <2>3
  <1>10. ASSUME NEW r \in Requests, NEW d \in Nodes,
                NEW op \in {"set_disabled", "set_maintenance", "set_free"},
                SetStateRead(r, d, op)
         PROVE  Goal
    <2> DEFINE st == IF op = "set_free" /\ node[d].conn = None
                     THEN "OFFLINE" ELSE StateOf(op)
    <2> DEFINE q == [NoReq EXCEPT !.pc = "state_save", !.dev = d, !.status = st]
    <2>1. st \in NodeStatus
      BY DEF StateOf, NodeStatus
    <2>2. req' = [req EXCEPT ![r] = q]
      BY <1>10 DEF SetStateRead
    <2> HIDE DEF st
    <2>3. q \in Request
      BY <1>0, <2>1 DEF Request, RequestPc
    <2>4. ReqOK(q) /\ q.started = {}
      BY <2>1 DEF NoReq, ReqOK
    <2> HIDE DEF q
    <2> QED  BY <1>2, <2>2, <2>3, <2>4
  <1>11. ASSUME NEW r \in Requests, NEW L \in SUBSET Leases, NEW dev \in [L -> Nodes],
                RentAllocate(r, L, dev)
         PROVE  Goal
    <2> DEFINE q == [req[r] EXCEPT !.pc = "rent_notify", !.leases = L]
    <2>1. q \in Request
      BY <1>0 DEF Request, RequestPc
    <2>2. ReqOK(q) /\ q.started = req[r].started
      BY <1>0, <1>11 DEF RentAllocate, ReqRefs, ReqOK, Request
    <2>3. req' = [req EXCEPT ![r] = q]
      BY <1>0, <1>11 DEF RentAllocate
    <2> HIDE DEF q
    <2> QED  BY <1>2, <2>1, <2>2, <2>3
  <1>12. ASSUME NEW r \in Requests, RentNotify(r) PROVE Goal
    <2>1. CASE req[r].key = None
      BY <1>3, <1>12, <2>1 DEF RentNotify
    <2>2. CASE req[r].key # None
      <3>1. ReqOK([req[r] EXCEPT !.pc = "rent_key"])
        BY <1>0, <1>12, <2>2 DEF RentNotify, ReqRefs, ReqOK, Request
      <3> QED  BY <1>4, <1>12, <2>2, <3>1 DEF RentNotify, RequestPc
    <2> QED  BY <2>1, <2>2
  <1>13. ASSUME NEW r \in Requests, ReleaseNotify(r) PROVE Goal
    <2>1. CASE req[r].key = None
      BY <1>3, <1>13, <2>1 DEF ReleaseNotify
    <2>2. CASE req[r].key # None
      <3>1. ReqOK([req[r] EXCEPT !.pc = "release_key"])
        BY <1>0, <1>13, <2>2 DEF ReleaseNotify, ReqRefs, ReqOK, Request
      <3> QED  BY <1>4, <1>13, <2>2, <3>1 DEF ReleaseNotify, RequestPc
    <2> QED  BY <2>1, <2>2
  <1>14. ASSUME NEW r \in Requests, ReleaseEnd(r) PROVE Goal
    <2>1. ReqOK([req[r] EXCEPT !.pc = "release_notify"])
      BY <1>0, <1>14 DEF ReleaseEnd, ReqRefs, ReqOK, Request
    <2> QED  BY <1>4, <1>14, <2>1 DEF ReleaseEnd, RequestPc
  <1>15. ASSUME NEW r \in Requests, NEW l \in Leases, ForceLeaseEnd(r, l) PROVE Goal
    <2>1. ReqOK([req[r] EXCEPT !.pc = "force_notify"])
      BY <1>0 DEF ReqOK, Request
    <2> QED  BY <1>4, <1>15, <2>1 DEF ForceLeaseEnd, RequestPc
  <1>16. ASSUME NEW r \in Requests, DeleteLeases(r) PROVE Goal
    <2>1. ReqOK([req[r] EXCEPT !.pc = "delete_node"])
      BY <1>0, <1>16 DEF DeleteLeases, ReqRefs, ReqOK, Request
    <2> QED  BY <1>4, <1>16, <2>1 DEF DeleteLeases, RequestPc
  <1>17. CASE ServerRestart
    BY <1>0, <1>17 DEF ServerRestart, ReqRefs, ReqOK, NoReq
  <1>18. ASSUME NEW r \in Requests, RequestArrives(r) PROVE Goal
    BY <1>18, <1>5, <1>6, <1>7, <1>8, <1>9, <1>10 DEF RequestArrives
  <1>19. ASSUME NEW r \in Requests, RequestStep(r) PROVE Goal
    <2>1. CASE \/ RentNoCapacity(r) \/ RentStoreKey(r) \/ ReleaseStoreKey(r)
               \/ \E done \in SUBSET Leases : ReleaseNotFound(r, done)
               \/ ForceLeaseFail(r) \/ ForceNotify(r) \/ SetStateSave(r) \/ DeleteNode(r)
      BY <1>3, <2>1 DEF RentNoCapacity, RentStoreKey, ReleaseStoreKey, StoreKey,
         ReleaseNotFound, ForceLeaseFail, ForceNotify, SetStateSave, DeleteNode
    <2> QED  BY <1>19, <2>1, <1>11, <1>12, <1>13, <1>14, <1>15, <1>16 DEF RequestStep
  <1>20. CASE \/ WsStep
              \/ \E c \in Conns : SocketStep(c)
              \/ \E u \in Users : StreamStep(u)
              \/ \E d \in Nodes : DeviceToken(d) \/ HeartbeatOverdue(d)
              \/ CheckerStep
    <2>1. UNCHANGED req
      BY <1>20 DEF WsStep, NodeConnectedCheck, NodeHelloCheck, NodeConnectedSave,
         NodeHelloSave, WsCheck, WsSave, SocketStep, Connect, NodeConnectedRead,
         NodeHelloRead, WsRead, Heartbeat, SocketLost, NodeDisconnected, MarkLeaseReady,
         StreamStep, AuthorizeLeaseStream, SetLeaseActive, DeviceToken, HeartbeatOverdue,
         CheckerStep, CheckStaleNodes, MarkStaleNode
    <2> QED  BY <1>1, <2>1
  <1> QED  BY <1>17, <1>18, <1>19, <1>20 DEF Next

-----------------------------------------------------------------------------
(* Nodes                                                                   *)

\* A node row keeps its type, and disappears only while no lease needs it.
LEMMA NodeTypes ==
    ASSUME TypeInv, Next
    PROVE  /\ node' \in [Nodes -> NodeRow]
           /\ \A d \in Nodes : node'[d].status = "ABSENT" =>
                 \/ node[d].status = "ABSENT"
                 \/ /\ UNCHANGED lease
                    /\ \A l \in Leases : ~(LeaseExists(l) /\ lease[l].dev = d)
  <1> DEFINE Goal ==
           /\ node' \in [Nodes -> NodeRow]
           /\ \A d \in Nodes : node'[d].status = "ABSENT" =>
                 \/ node[d].status = "ABSENT"
                 \/ /\ UNCHANGED lease
                    /\ \A l \in Leases : ~(LeaseExists(l) /\ lease[l].dev = d)
  <1>0. /\ node \in [Nodes -> NodeRow] /\ NewNode \in NodeRow /\ NoNode \in NodeRow
        /\ NewNode.status # "ABSENT"
    BY DEF TypeInv, TypeOK, NewNode, NoNode, NodeRow, NodeStatus
  <1>1. CASE UNCHANGED node
    BY <1>0, <1>1
  <1>2. ASSUME NEW d \in Nodes, NEW row \in NodeRow, row.status # "ABSENT",
               node' = [node EXCEPT ![d] = row]
        PROVE  Goal
    BY <1>0, <1>2
  <1>3. ASSUME NEW d \in Nodes, NEW st \in NodeStatus, node' = [node EXCEPT ![d].status = st]
        PROVE  Goal
    BY <1>0, <1>3 DEF NodeRow, NodeStatus
  <1>4. ASSUME NEW d \in Nodes, NEW s \in {"fresh", "stale"}, NodeExists(d),
               node' = [node EXCEPT ![d].seen = s]
        PROVE  Goal
    BY <1>0, <1>4 DEF NodeRow, NodeExists
  <1>5. ASSUME NEW d \in Nodes, MarkOffline(d) PROVE Goal
    BY <1>0, <1>1, <1>2, <1>5 DEF MarkOffline
  <1>6. ASSUME NEW c \in Conns, NodeConnectedRead(c) \/ NodeHelloRead(c) PROVE Goal
    <2>1. sock[c].dev \in Nodes
      BY <1>6 DEF TypeInv, SockRefs, NodeConnectedRead, NodeHelloRead, WsRead
    <2> DEFINE row == IF NodeExists(sock[c].dev) THEN node[sock[c].dev] ELSE NewNode
    <2>2. row \in NodeRow /\ row.status # "ABSENT"
      BY <1>0, <2>1 DEF NodeExists
    <2>3. node' = [node EXCEPT ![sock[c].dev] = row]
      BY <1>6 DEF NodeConnectedRead, NodeHelloRead, WsRead
    <2> HIDE DEF row
    <2> QED  BY <1>2, <2>1, <2>2, <2>3
  <1>7. ASSUME NodeConnectedSave \/ NodeHelloSave PROVE Goal
    <2>1. ws.dev \in Nodes /\ ws.status \in NodeStatus /\ ws.conn \in Conns
      BY <1>7 DEF TypeInv, WsRefs, NodeConnectedSave, NodeHelloSave, WsSave
    <2>2. ASSUME NEW x \in Conns \cup {None},
                 node' = [node EXCEPT ![ws.dev] = [status |-> ws.status, conn |-> x,
                                                   seen |-> "fresh"]]
          PROVE  Goal
      <3>1. /\ [status |-> ws.status, conn |-> x, seen |-> "fresh"] \in NodeRow
            /\ ws.status # "ABSENT"
        BY <2>1 DEF NodeRow, NodeStatus
      <3> QED  BY <1>2, <2>1, <2>2, <3>1
    <2>3. node[ws.dev].conn \in Conns \cup {None}
      BY <1>0, <2>1 DEF NodeRow
    <2> QED  BY <1>1, <1>7, <2>1, <2>2, <2>3 DEF NodeConnectedSave, NodeHelloSave, WsSave
  <1>8. ASSUME NEW c \in Conns, SocketStep(c) PROVE Goal
    <2>1. CASE NodeDisconnected(c)
      BY <1>5, <2>1 DEF NodeDisconnected, TypeInv, SockRefs
    <2>2. CASE Heartbeat(c)
      BY <1>4, <2>2 DEF Heartbeat, TypeInv, SockRefs
    <2>3. ASSUME NEW l \in Leases, MarkLeaseReady(c, l) PROVE Goal
      <3>1. sock[c].dev \in Nodes
        BY <2>3 DEF MarkLeaseReady, TypeInv, SockRefs
      <3>2. CASE node[sock[c].dev].status \in Held \cup {"ABSENT"}
        BY <1>1, <2>3, <3>2 DEF MarkLeaseReady
      <3>3. CASE node[sock[c].dev].status \notin Held \cup {"ABSENT"}
        <4> DEFINE row == [node[sock[c].dev] EXCEPT !.status = "IN_USE", !.seen = "fresh"]
        <4>1. row \in NodeRow /\ row.status # "ABSENT"
          BY <1>0, <3>1 DEF NodeRow, NodeStatus
        <4>2. node' = [node EXCEPT ![sock[c].dev] = row]
          BY <1>0, <2>3, <3>1, <3>3 DEF MarkLeaseReady
        <4> HIDE DEF row
        <4> QED  BY <1>2, <3>1, <4>1, <4>2
      <3> QED  BY <3>2, <3>3
    <2>4. CASE (\E d \in Nodes : Connect(c, d)) \/ SocketLost(c)
      BY <1>1, <2>4 DEF Connect, SocketLost
    <2> QED  BY <1>6, <1>8, <2>1, <2>2, <2>3, <2>4 DEF SocketStep
  <1>9. ASSUME NEW r \in Requests, NEW L \in SUBSET Leases, NEW dev \in [L -> Nodes],
               RentAllocate(r, L, dev)
        PROVE  Goal
    <2>1. \A d \in Nodes : [node[d] EXCEPT !.status = "ASSIGNED"] \in NodeRow
      BY <1>0 DEF NodeRow, NodeStatus
    <2>2. \A d \in Nodes : node'[d] = [node[d] EXCEPT !.status = "ASSIGNED"]
                           \/ node'[d] = node[d]
      BY <1>9 DEF RentAllocate
    <2>3. node' = [d \in Nodes |-> node'[d]]
      BY <1>9 DEF RentAllocate
    <2>4. node' \in [Nodes -> NodeRow]
      BY <1>0, <2>1, <2>2, <2>3
    <2> QED  BY <1>0, <2>2, <2>4 DEF NodeRow
  <1>10. ASSUME NEW L, NEW S, ReleaseLoop(L, S) PROVE Goal
    <2>1. \A d \in Nodes : [node[d] EXCEPT !.status = "RELEASING"] \in NodeRow
      BY <1>0 DEF NodeRow, NodeStatus
    <2>2. \A d \in Nodes : node'[d] = [node[d] EXCEPT !.status = "RELEASING"]
                           \/ node'[d] = node[d]
      BY <1>10 DEF ReleaseLoop
    <2>3. node' = [d \in Nodes |-> node'[d]]
      BY <1>10 DEF ReleaseLoop
    <2>4. node' \in [Nodes -> NodeRow]
      BY <1>0, <2>1, <2>2, <2>3
    <2> QED  BY <1>0, <2>2, <2>4 DEF NodeRow
  <1>11. ASSUME NEW r \in Requests, NEW l \in Leases, ForceLeaseEnd(r, l) PROVE Goal
    BY <1>1, <1>3, <1>11 DEF ForceLeaseEnd, TypeInv, ReqRefs, ReqOK, NodeStatus
  <1>12. ASSUME NEW r \in Requests, NEW d \in Nodes, ForceNode(r, d) PROVE Goal
    <2>1. (IF node[d].conn # None THEN "FREE" ELSE "OFFLINE") \in NodeStatus
      BY DEF NodeStatus
    <2> QED  BY <1>1, <1>3, <1>12, <2>1 DEF ForceNode
  <1>13. ASSUME NEW r \in Requests, SetStateSave(r) PROVE Goal
    BY <1>1, <1>3, <1>13 DEF SetStateSave, TypeInv, ReqRefs, ReqOK
  <1>14. ASSUME NEW r \in Requests, DeleteNode(r) PROVE Goal
    BY <1>0, <1>1, <1>14 DEF DeleteNode, TypeInv, ReqRefs, ReqOK
  <1>15. ASSUME NEW r \in Requests, RequestArrives(r) PROVE Goal
    <2>1. CASE ~\E d \in Nodes : ForceNode(r, d)
      BY <1>1, <1>15, <2>1 DEF RequestArrives, RentLookup, ReleaseLookup, ForceLeaseRead,
         DeleteCheck, SetStateRead
    <2> QED  BY <1>12, <2>1
  <1>16. ASSUME NEW r \in Requests, RequestStep(r) PROVE Goal
    <2>1. CASE \/ RentNoCapacity(r) \/ RentNotify(r) \/ RentStoreKey(r) \/ ReleaseNotify(r)
               \/ ReleaseStoreKey(r) \/ ForceLeaseFail(r) \/ ForceNotify(r) \/ DeleteLeases(r)
      BY <1>1, <2>1 DEF RentNoCapacity, RentNotify, RentStoreKey, ReleaseNotify,
         ReleaseStoreKey, StoreKey, ForceLeaseFail, ForceNotify, DeleteLeases
    <2>2. CASE ReleaseEnd(r) \/ \E done \in SUBSET Leases : ReleaseNotFound(r, done)
      BY <1>10, <2>2 DEF ReleaseEnd, ReleaseNotFound
    <2> QED  BY <1>16, <2>1, <2>2, <1>9, <1>11, <1>13, <1>14 DEF RequestStep
  <1>17. ASSUME NEW d \in Nodes, DeviceToken(d) \/ HeartbeatOverdue(d) PROVE Goal
    BY <1>0, <1>2, <1>4, <1>17 DEF DeviceToken, HeartbeatOverdue
  <1>18. CASE CheckerStep
    BY <1>1, <1>5, <1>18 DEF CheckerStep, CheckStaleNodes, MarkStaleNode
  <1>19. CASE WsStep
    BY <1>1, <1>7, <1>19 DEF WsStep, NodeConnectedCheck, NodeHelloCheck, WsCheck
  <1>20. CASE ServerRestart \/ \E u \in Users : StreamStep(u)
    BY <1>1, <1>20 DEF ServerRestart, StreamStep, AuthorizeLeaseStream, SetLeaseActive
  <1> QED  BY <1>8, <1>15, <1>16, <1>17, <1>18, <1>19, <1>20 DEF Next

-----------------------------------------------------------------------------
(* Sockets, the worker thread, and the rest                                *)

\* Sockets and the worker thread keep their types and name their device.
LEMMA SockTypes ==
    ASSUME TypeInv, Next
    PROVE  /\ sock' \in [Conns -> Sock] /\ SockRefs'
           /\ ws' \in WsCall /\ WsRefs'
  <1> DEFINE Goal == /\ sock' \in [Conns -> Sock] /\ SockRefs'
                     /\ ws' \in WsCall /\ WsRefs'
  <1>0. /\ sock \in [Conns -> Sock] /\ ws \in WsCall /\ SockRefs /\ WsRefs
        /\ NoSock \in Sock /\ NoSock.st = "closed" /\ NoCall \in WsCall /\ NoCall.pc = "idle"
        /\ node \in [Nodes -> NodeRow]
    BY DEF TypeInv, TypeOK, NoSock, Sock, NoCall, WsCall
  <1>1. CASE UNCHANGED <<sock, ws>>
    BY <1>0, <1>1 DEF SockRefs, WsRefs
  <1>2. ASSUME NEW c \in Conns, NEW d \in Nodes, Connect(c, d) PROVE Goal
    <2>1. [st |-> "accepted", dev |-> d] \in Sock
      BY DEF Sock
    <2>2. sock' \in [Conns -> Sock] /\ SockRefs'
      BY <1>0, <1>2, <2>1 DEF Connect, SockRefs
    <2>3. WsRefs'
      BY <1>0, <1>2 DEF Connect, WsRefs
    <2> QED  BY <1>0, <1>2, <2>2, <2>3 DEF Connect
  <1>3. ASSUME NEW c \in Conns, NodeConnectedRead(c) \/ NodeHelloRead(c) PROVE Goal
    BY <1>0, <1>3 DEF NodeConnectedRead, NodeHelloRead, WsRead, SockRefs, WsRefs, WsCall,
       NodeExists, NodeRow, NewNode, NodeStatus
  <1>4. CASE NodeConnectedCheck \/ NodeHelloCheck
    BY <1>0, <1>4 DEF NodeConnectedCheck, NodeHelloCheck, WsCheck, SockRefs, WsRefs, WsCall,
       NodeStatus
  <1>5. CASE NodeConnectedSave \/ NodeHelloSave
    <2>1. ws.conn \in Conns /\ ws.dev \in Nodes /\ sock[ws.conn].dev = ws.dev
      BY <1>5 DEF NodeConnectedSave, NodeHelloSave, WsSave, TypeInv, WsRefs
    <2>2. ASSUME NEW st \in {"open", "greeted"}
          PROVE  [sock[ws.conn] EXCEPT !.st = st] \in Sock
      BY <1>0, <2>1 DEF Sock
    <2>3. sock' \in [Conns -> Sock]
      BY <1>0, <1>5, <2>1, <2>2 DEF NodeConnectedSave, NodeHelloSave, WsSave
    <2>4. SockRefs'
      BY <1>0, <1>5, <2>1 DEF NodeConnectedSave, NodeHelloSave, WsSave, SockRefs, Sock
    <2>5. ws' = NoCall
      BY <1>5 DEF NodeConnectedSave, NodeHelloSave, WsSave
    <2> QED  BY <1>0, <2>3, <2>4, <2>5 DEF WsRefs
  <1>6. ASSUME NEW c \in Conns, SocketLost(c) PROVE Goal
    BY <1>0, <1>6 DEF SocketLost, SockRefs, WsRefs, Sock
  <1>7. ASSUME NEW c \in Conns, NodeDisconnected(c) PROVE Goal
    BY <1>0, <1>7 DEF NodeDisconnected, SockRefs, WsRefs
  <1>8. CASE ServerRestart
    BY <1>0, <1>8 DEF ServerRestart, SockRefs, WsRefs
  <1>9. CASE WsStep
    BY <1>4, <1>5, <1>9 DEF WsStep
  <1>10. ASSUME NEW c \in Conns, SocketStep(c) PROVE Goal
    BY <1>1, <1>2, <1>3, <1>6, <1>7, <1>10 DEF SocketStep, Heartbeat, MarkLeaseReady
  <1>11. ASSUME NEW u \in Users, StreamStep(u) PROVE Goal
    BY <1>1, <1>11 DEF StreamStep, AuthorizeLeaseStream, SetLeaseActive
  <1>12. ASSUME NEW r \in Requests, RequestArrives(r) PROVE Goal
    BY <1>1, <1>12 DEF RequestArrives, RentLookup, ReleaseLookup, ForceLeaseRead, ForceNode,
       DeleteCheck, SetStateRead
  <1>13. ASSUME NEW r \in Requests, RequestStep(r) PROVE Goal
    BY <1>1, <1>13 DEF RequestStep, RentAllocate, RentNoCapacity, RentNotify, RentStoreKey,
       ReleaseEnd, ReleaseNotify, ReleaseStoreKey, StoreKey, ReleaseNotFound, ForceLeaseEnd,
       ForceLeaseFail, ForceNotify, SetStateSave, DeleteLeases, DeleteNode
  <1>14. ASSUME NEW d \in Nodes, DeviceToken(d) \/ HeartbeatOverdue(d) PROVE Goal
    BY <1>1, <1>14 DEF DeviceToken, HeartbeatOverdue
  <1>15. CASE CheckerStep
    BY <1>1, <1>15 DEF CheckerStep, CheckStaleNodes, MarkStaleNode
  <1> QED  BY <1>8, <1>9, <1>10, <1>11, <1>12, <1>13, <1>14, <1>15 DEF Next

\* So do stored keys, remote-control requests and the checker's list.
LEMMA OtherTypes ==
    ASSUME TypeInv, Next
    PROVE  idem' \subseteq IdemRow /\ stream' \in [Users -> Leases \cup {None}]
           /\ stale' \subseteq Nodes
  <1> DEFINE Goal == idem' \subseteq IdemRow /\ stream' \in [Users -> Leases \cup {None}]
                     /\ stale' \subseteq Nodes
  <1>0. idem \subseteq IdemRow /\ stream \in [Users -> Leases \cup {None}] /\ stale \subseteq Nodes
    BY DEF TypeInv, TypeOK
  <1>1. CASE UNCHANGED <<idem, stream, stale>>
    BY <1>0, <1>1
  <1>2. ASSUME NEW r \in Requests, RentStoreKey(r) \/ ReleaseStoreKey(r) PROVE Goal
    <2>1. req[r].user \in Users /\ req[r].key \in Keys /\ req[r].leases \in SUBSET Leases
      BY <1>2 DEF RentStoreKey, ReleaseStoreKey, StoreKey, TypeInv, TypeOK, ReqRefs, ReqOK,
         Request
    <2>2. \A scope \in {"rent", "release"} :
             [scope |-> scope, user |-> req[r].user, key |-> req[r].key,
              leases |-> req[r].leases] \in IdemRow
      BY <2>1 DEF IdemRow
    <2> QED  BY <1>0, <1>2, <2>2 DEF RentStoreKey, ReleaseStoreKey, StoreKey
  <1>3. ASSUME NEW u \in Users, StreamStep(u) PROVE Goal
    BY <1>0, <1>3 DEF StreamStep, AuthorizeLeaseStream, SetLeaseActive
  <1>4. CASE CheckerStep \/ ServerRestart
    BY <1>0, <1>4 DEF CheckerStep, CheckStaleNodes, MarkStaleNode, ServerRestart
  <1>5. CASE WsStep
    BY <1>1, <1>5 DEF WsStep, NodeConnectedCheck, NodeHelloCheck, NodeConnectedSave,
       NodeHelloSave, WsCheck, WsSave
  <1>6. ASSUME NEW c \in Conns, SocketStep(c) PROVE Goal
    BY <1>1, <1>6 DEF SocketStep, Connect, NodeConnectedRead, NodeHelloRead, WsRead, Heartbeat,
       SocketLost, NodeDisconnected, MarkLeaseReady
  <1>7. ASSUME NEW r \in Requests, RequestArrives(r) PROVE Goal
    BY <1>1, <1>7 DEF RequestArrives, RentLookup, ReleaseLookup, ForceLeaseRead, ForceNode,
       DeleteCheck, SetStateRead
  <1>8. ASSUME NEW r \in Requests, RequestStep(r) PROVE Goal
    BY <1>1, <1>2, <1>8 DEF RequestStep, RentAllocate, RentNoCapacity, RentNotify,
       ReleaseEnd, ReleaseNotify, ReleaseNotFound, ForceLeaseEnd,
       ForceLeaseFail, ForceNotify, SetStateSave, DeleteLeases, DeleteNode
  <1>9. ASSUME NEW d \in Nodes, DeviceToken(d) \/ HeartbeatOverdue(d) PROVE Goal
    BY <1>1, <1>9 DEF DeviceToken, HeartbeatOverdue
  <1> QED  BY <1>3, <1>4, <1>5, <1>6, <1>7, <1>8, <1>9 DEF Next

-----------------------------------------------------------------------------
(* The type invariant                                                      *)

\* TypeInv holds of the empty database.
LEMMA TypeInit == Init => TypeInv
  BY ConstantsAssumption DEF Init, TypeInv, TypeOK, WsRefs, SockRefs, LeaseRefs, LeaseHasNode,
     ReqRefs, ReqOK, CopyIsOld, NoNode, NodeRow, NodeStatus, Unrented, LeaseRow, LeaseStatus,
     NoSock, Sock, NoCall, WsCall, NoReq, Request, RequestPc, LeaseExists

\* TypeInv is inductive.
LEMMA TypeNext == TypeInv /\ [Next]_vars => TypeInv'
  <1> SUFFICES ASSUME TypeInv, [Next]_vars PROVE TypeInv'
    OBVIOUS
  <1>1. CASE Next
    <2>1. /\ lease' = [l \in Leases |-> lease'[l]]
          /\ \A l \in Leases : LeaseStep(l)
      BY <1>1, LeaseRows
    <2>2. \A l \in Leases : lease'[l] \in LeaseRow
      BY <2>1, LeaseStepFacts
    <2>3. TypeOK'
      BY <1>1, <2>1, <2>2, NodeTypes, ReqTypes, SockTypes, OtherTypes DEF TypeOK
    <2>4. LeaseRefs'
      BY <2>1, LeaseStepFacts DEF TypeInv, LeaseRefs, LeaseExists, FreeNodes
    <2>5. LeaseHasNode'
      <3> SUFFICES ASSUME NEW l \in Leases, lease'[l].status \notin {"NONE", "GONE"},
                          node'[lease'[l].dev].status = "ABSENT"
                   PROVE  FALSE
        BY DEF LeaseHasNode, LeaseExists, NodeExists
      <3> DEFINE d == lease'[l].dev
      <3>1. d \in Nodes
        BY <2>4 DEF LeaseRefs, LeaseExists
      <3>2. CASE LeaseExists(l) /\ d = lease[l].dev
        BY <1>1, <3>1, <3>2, NodeTypes DEF TypeInv, LeaseHasNode, NodeExists
      <3>3. CASE lease[l].status = "NONE" /\ d \in FreeNodes
        BY <1>1, <3>1, <3>3, NodeTypes DEF FreeNodes
      <3> QED  BY <2>1, <3>2, <3>3, LeaseStepFacts
    <2>6. CopyIsOld'
      <3> SUFFICES ASSUME NEW r \in Requests, NEW l \in req'[r].started
                   PROVE  \/ lease'[l].status = "GONE"
                          \/ lease'[l].status \notin {"NONE", "GONE"} /\ lease'[l].started
        BY DEF CopyIsOld, LeaseExists
      <3>1. l \in Leases
        BY <2>3 DEF TypeOK, Request
      <3>2. CASE l \in req[r].started
        BY <2>1, <3>1, <3>2, LeaseStepFacts DEF TypeInv, CopyIsOld, LeaseExists
      <3>3. CASE UNCHANGED lease /\ lease[l].started /\ lease[l].status # "NONE"
        BY <3>3
      <3> QED  BY <1>1, <3>2, <3>3, ReqTypes
    <2> QED  BY <1>1, <2>3, <2>4, <2>5, <2>6, SockTypes, ReqTypes DEF TypeInv
  <1>2. CASE UNCHANGED vars
    BY <1>2 DEF vars, TypeInv, TypeOK, WsRefs, SockRefs, LeaseRefs, LeaseHasNode, ReqRefs,
       ReqOK, CopyIsOld, LeaseExists, NodeExists
  <1> QED  BY <1>1, <1>2

\* TypeInv is an invariant.
LEMMA TypeAlways == Spec => []TypeInv
  BY TypeInit, TypeNext, PTL DEF Spec

\* The rows, sockets and requests always have their types.
THEOREM TypeCorrect == Spec => []TypeOK
  <1>1. TypeInv => TypeOK
    BY DEF TypeInv
  <1> QED  BY <1>1, TypeAlways, PTL

\* Deleting a node never leaves a lease without its device, although the
\* check, the deletion of the leases and that of the node are three statements.
THEOREM NoDanglingDevice == Spec => []LeaseHasNode
  <1>1. TypeInv => LeaseHasNode
    BY DEF TypeInv
  <1> QED  BY <1>1, TypeAlways, PTL

=============================================================================
