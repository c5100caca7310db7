-------------------------- MODULE ExclusiveProofs ---------------------------
(***************************************************************************)
(* Exclusive use of a node, the refinement of NodePool, and capacity that  *)
(* is not lost, if nobody writes between the read and the save of a        *)
(* function of the WebSocket worker thread.  Exclusive use also needs that *)
(* no administrator sets a node FREE, capacity that none is deleted.       *)
(***************************************************************************)
EXTENDS SettlementProofs

-----------------------------------------------------------------------------
(* Open leases                                                             *)

\* Only a rent opens a lease; a lease that is open stays on its node.
OpenShrinks ==
    \A l \in Leases : Open(l)' => Open(l) /\ lease'[l].dev = lease[l].dev

\* Ending all open leases of a node leaves it without one.
LEMMA EndLeasesShrinks ==
    ASSUME TypeInv, NEW L \in SUBSET Leases, NEW S \in SUBSET Leases,
           \A l \in L : LeaseExists(l),
           lease' = EndLeases(L, S)
    PROVE  OpenShrinks /\ \A l \in L : ~Open(l)'
  <1>1. ASSUME NEW l \in Leases
        PROVE  \/ lease'[l] = lease[l] /\ (l \in L => lease[l].ended)
               \/ lease'[l].ended
    BY EndLeasesRows DEF TypeInv
  <1>2. OpenShrinks
    BY <1>1 DEF OpenShrinks, Open, LeaseExists
  <1>3. \A l \in L : ~Open(l)'
    BY <1>1 DEF Open
  <1> QED  BY <1>2, <1>3

\* mark_node_offline_and_end_leases leaves its node without an open lease.
LEMMA MarkOfflineShrinks ==
    ASSUME TypeInv, SettleInv, NEW d \in Nodes, MarkOffline(d)
    PROVE  OpenShrinks /\ (node[d].status # "ABSENT" => OpenOn(d)' = {})
  <1>1. CASE NodeExists(d)
    <2>1. /\ ActiveOn(d) \in SUBSET Leases /\ Started \in SUBSET Leases
          /\ \A l \in ActiveOn(d) : LeaseExists(l)
          /\ lease' = EndLeases(ActiveOn(d), Started)
      BY <1>1 DEF ActiveOn, ActiveStatus, Started, LeaseExists, MarkOffline
    <2>2. OpenShrinks /\ \A l \in ActiveOn(d) : ~Open(l)'
      BY <2>1, EndLeasesShrinks
    <2>3. \A l \in OpenOn(d) : l \in ActiveOn(d)
      BY OpenIsActive DEF OpenOn, ActiveOn
    <2> QED  BY <2>2, <2>3 DEF OpenShrinks, OpenOn
  <1>2. CASE ~NodeExists(d)
    BY <1>2 DEF MarkOffline, OpenShrinks, Open, LeaseExists, NodeExists
  <1> QED  BY <1>1, <1>2

\* So does the forced release of a node.
LEMMA ForceNodeShrinks ==
    ASSUME TypeInv, SettleInv, NEW r \in Requests, NEW d \in Nodes, ForceNode(r, d)
    PROVE  OpenShrinks /\ OpenOn(d)' = {}
  <1>1. /\ ActiveOn(d) \in SUBSET Leases /\ Started \in SUBSET Leases
        /\ \A l \in ActiveOn(d) : LeaseExists(l)
        /\ lease' = EndLeases(ActiveOn(d), Started)
    BY DEF ActiveOn, ActiveStatus, Started, LeaseExists, ForceNode
  <1>2. OpenShrinks /\ \A l \in ActiveOn(d) : ~Open(l)'
    BY <1>1, EndLeasesShrinks
  <1>3. \A l \in OpenOn(d) : l \in ActiveOn(d)
    BY OpenIsActive DEF OpenOn, ActiveOn
  <1> QED  BY <1>2, <1>3 DEF OpenShrinks, OpenOn

\* Every step but the allocation of RentLeaseView satisfies OpenShrinks.
LEMMA OpenedByRent ==
    ASSUME TypeInv, SettleInv, Next
    PROVE  \/ OpenShrinks
           \/ \E r \in Requests, L \in SUBSET Leases : \E dev \in [L -> Nodes] :
                 RentAllocate(r, L, dev)
  <1>0. lease \in [Leases -> LeaseRow]
    BY DEF TypeInv, TypeOK
  <1>1. CASE UNCHANGED lease
    BY <1>1 DEF OpenShrinks, Open, LeaseExists
  <1>2. ASSUME NEW d \in Nodes, MarkOffline(d) PROVE OpenShrinks
    BY <1>2, MarkOfflineShrinks
  <1>3. ASSUME NEW c \in Conns, sock[c].st # "closed", MarkOffline(sock[c].dev)
        PROVE  OpenShrinks
    BY <1>2, <1>3 DEF TypeInv, SockRefs
  <1>4. ASSUME NEW c \in Conns, NEW l \in Leases, MarkLeaseReady(c, l) PROVE OpenShrinks
    BY <1>0, <1>4 DEF MarkLeaseReady, OpenShrinks, Open, LeaseExists, LeaseRow, ActiveStatus
  <1>5. ASSUME NEW u \in Users, SetLeaseActive(u) PROVE OpenShrinks
    BY <1>0, <1>5 DEF SetLeaseActive, OpenShrinks, Open, LeaseExists, LeaseRow
  <1>6. ASSUME NEW r \in Requests, RentNotify(r) PROVE OpenShrinks
    BY <1>0, <1>6 DEF RentNotify, OpenShrinks, Open, LeaseExists, LeaseRow
  <1>7. ASSUME NEW r \in Requests, NEW L \in SUBSET Found(r),
               ReleaseLoop(L, req[r].started)
        PROVE  OpenShrinks
    <2>1. /\ L \in SUBSET Leases /\ req[r].started \in SUBSET Leases
          /\ \A l \in L : LeaseExists(l)
          /\ lease' = EndLeases(L, req[r].started)
      BY <1>7 DEF TypeInv, TypeOK, Request, Found, ReleaseLoop
    <2> QED  BY <2>1, EndLeasesShrinks
  <1>8. ASSUME NEW r \in Requests, ReleaseEnd(r) PROVE OpenShrinks
    BY <1>7, <1>8 DEF ReleaseEnd
  <1>9. ASSUME NEW r \in Requests, NEW done \in SUBSET Leases, ReleaseNotFound(r, done)
        PROVE  OpenShrinks
    BY <1>7, <1>9 DEF ReleaseNotFound
  <1>10. ASSUME NEW r \in Requests, NEW l \in Leases, ForceLeaseEnd(r, l)
         PROVE  OpenShrinks
    <2>1. CASE req[r].ended
      <3>1. lease' = lease
        BY <1>10, <2>1 DEF ForceLeaseEnd
      <3> QED  BY <3>1 DEF OpenShrinks, Open, LeaseExists
    <2>2. CASE ~req[r].ended
      <3>1. ASSUME NEW s \in BOOLEAN PROVE Settle(lease[l], s).ended
        BY <1>0, SettleRow
      <3>2. Settle(lease[l], l \in req[r].started).ended
        <4>1. (l \in req[r].started) \in BOOLEAN
          OBVIOUS
        <4> QED  BY <3>1, <4>1, Zenon
      <3>3. lease' = [lease EXCEPT ![l] = Settle(lease[l], l \in req[r].started)]
        BY <1>10, <2>2 DEF ForceLeaseEnd
      <3> QED  BY <1>0, <3>2, <3>3 DEF OpenShrinks, Open, LeaseExists
    <2> QED  BY <2>1, <2>2
  <1>11. ASSUME NEW r \in Requests, NEW d \in Nodes, ForceNode(r, d) PROVE OpenShrinks
    BY <1>11, ForceNodeShrinks
  <1>12. ASSUME NEW r \in Requests, DeleteLeases(r) PROVE OpenShrinks
    <2>1. \A l \in Leases : lease'[l] = lease[l] \/ lease'[l].status = "GONE"
      BY <1>12 DEF DeleteLeases, Unrented
    <2> QED  BY <2>1 DEF OpenShrinks, Open, LeaseExists
  <1> QED
    BY <1>1, <1>2, <1>3, <1>4, <1>5, <1>6, <1>8, <1>9, <1>10, <1>11, <1>12, LeaseWriters
       DEF LeaseWrite

\* A node that is or will be shown as unused has no running lease.
IdleStatus == {"FREE", "OFFLINE"}

WsSeesIdle == ws.pc # "idle" /\ ws.status \in IdleStatus => OpenOn(ws.dev) = {}

HeldOnly == \A r \in Requests : req[r].pc = "state_save" => req[r].status \in Held

ExclusiveInv == OneOpenLeasePerNode /\ OfflineIsSettled /\ WsSeesIdle /\ HeldOnly

\* Without set_free, AdminSetNodeStateView only saves held statuses.
LEMMA HeldOnlyNext ==
    ASSUME "set_free" \notin HttpOps, TypeInv, HeldOnly, Next
    PROVE  HeldOnly'
  <1>0. req \in [Requests -> Request]
    BY DEF TypeInv, TypeOK
  <1>1. ASSUME NEW r \in Requests, RequestArrives(r) PROVE HeldOnly'
    <2>1. ASSUME NEW d \in Nodes, NEW op \in {"set_disabled", "set_maintenance", "set_free"},
                 SetStateRead(r, d, op)
          PROVE  HeldOnly'
      <3>1. op # "set_free" /\ StateOf(op) \in Held
        BY <2>1 DEF SetStateRead, StateOf, Held
      <3>2. req' = [req EXCEPT ![r] = [NoReq EXCEPT !.pc = "state_save", !.dev = d,
                                                    !.status = StateOf(op)]]
        BY <2>1, <3>1 DEF SetStateRead
      <3>3. [NoReq EXCEPT !.pc = "state_save", !.dev = d, !.status = StateOf(op)].status
               = StateOf(op)
        BY DEF NoReq
      <3> QED  BY <1>0, <3>1, <3>2, <3>3 DEF HeldOnly
    <2>2. CASE ~\E d \in Nodes : \E op \in {"set_disabled", "set_maintenance", "set_free"} :
                    SetStateRead(r, d, op)
      <3> DEFINE Other == /\ req'[r].pc # "state_save"
                          /\ \A x \in Requests \ {r} : req'[x] = req[x]
      <3>1. Other => HeldOnly'
        BY DEF HeldOnly
      <3>2. ASSUME NEW u \in Users, NEW k \in Keys \cup {None}, NEW n \in 1 .. MaxCount,
                   RentLookup(r, u, k, n)
            PROVE  Other
        BY <1>0, <3>2 DEF RentLookup, NoReq
      <3>3. ASSUME NEW u \in Users, NEW k \in Keys \cup {None}, NEW L \in SUBSET Leases,
                   ReleaseLookup(r, u, k, L)
            PROVE  Other
        BY <1>0, <3>3 DEF ReleaseLookup, NoReq
      <3>4. ASSUME NEW l \in Leases, ForceLeaseRead(r, l) PROVE Other
        BY <1>0, <3>4 DEF ForceLeaseRead, NoReq
      <3>5. ASSUME NEW d \in Nodes, ForceNode(r, d) \/ DeleteCheck(r, d) PROVE Other
        BY <1>0, <3>5 DEF ForceNode, DeleteCheck, NoReq
      <3> QED  BY <1>1, <2>2, <3>1, <3>2, <3>3, <3>4, <3>5 DEF RequestArrives
    <2> QED  BY <2>1, <2>2
  <1>2. ASSUME NEW r \in Requests, RequestStep(r) PROVE HeldOnly'
    <2>1. \/ req' = [req EXCEPT ![r] = NoReq]
          \/ \E pc \in RequestPc \ {"state_save"} : req' = [req EXCEPT ![r].pc = pc]
          \/ \E L \in SUBSET Leases :
                req' = [req EXCEPT ![r].pc = "rent_notify", ![r].leases = L]
      BY <1>2 DEF RequestStep, RentAllocate, RentNoCapacity, RentNotify, RentStoreKey,
         ReleaseEnd, ReleaseNotify, ReleaseStoreKey, StoreKey, ReleaseNotFound, ForceLeaseEnd,
         ForceLeaseFail, ForceNotify, SetStateSave, DeleteLeases, DeleteNode, RequestPc
    <2> QED  BY <1>0, <2>1 DEF HeldOnly, NoReq, Request
  <1>3. CASE ServerRestart
    BY <1>3 DEF ServerRestart, HeldOnly, NoReq
  <1>4. CASE UNCHANGED req
    BY <1>4 DEF HeldOnly
  <1>5. CASE \/ WsStep
             \/ \E c \in Conns : SocketStep(c)
             \/ \E u \in Users : StreamStep(u)
             \/ \E d \in Nodes : DeviceToken(d) \/ HeartbeatOverdue(d)
             \/ CheckerStep
    BY <1>4, <1>5 DEF WsStep, NodeConnectedCheck, NodeHelloCheck, NodeConnectedSave,
       NodeHelloSave, WsCheck, WsSave, SocketStep, Connect, NodeConnectedRead,
       NodeHelloRead, WsRead, Heartbeat, SocketLost, NodeDisconnected, MarkLeaseReady,
       StreamStep, AuthorizeLeaseStream, SetLeaseActive, DeviceToken, HeartbeatOverdue,
       CheckerStep, CheckStaleNodes, MarkStaleNode
  <1> QED  BY <1>1, <1>2, <1>3, <1>5 DEF Next

\* A rent takes FREE nodes, different ones, and they are not FREE afterwards.
LEMMA RentIsExclusive ==
    ASSUME TypeInv, ExclusiveInv,
           NEW r \in Requests, NEW L \in SUBSET Leases, NEW dev \in [L -> Nodes],
           RentAllocate(r, L, dev)
    PROVE  OneOpenLeasePerNode' /\ OfflineIsSettled'
  <1>0. /\ node \in [Nodes -> NodeRow]
        /\ req[r].user \in Users
    BY DEF TypeInv, TypeOK, ReqRefs, ReqOK, RentAllocate
  <1>1. \A l \in L : /\ lease'[l].dev = dev[l] /\ dev[l] \in Nodes
                     /\ node[dev[l]].status = "FREE"
                     /\ node'[dev[l]].status = "ASSIGNED"
    <2> SUFFICES ASSUME NEW l \in L
                 PROVE  /\ lease'[l].dev = dev[l] /\ dev[l] \in Nodes
                        /\ node[dev[l]].status = "FREE"
                        /\ node'[dev[l]].status = "ASSIGNED"
      OBVIOUS
    <2>1. dev[l] \in Nodes /\ node[dev[l]].status = "FREE"
      BY DEF RentAllocate, FreeNodes
    <2>2. lease'[l].dev = dev[l]
      BY <1>0, <2>1, NewLeaseRow DEF RentAllocate
    <2>3. node'[dev[l]].status = "ASSIGNED"
      BY <1>0, <2>1 DEF RentAllocate, NodeRow
    <2> QED  BY <2>1, <2>2, <2>3
  <1>2. \A l \in Leases \ L : lease'[l] = lease[l]
    BY DEF RentAllocate
  <1>3. \A d \in Nodes : node'[d].status = node[d].status \/ \E l \in L : dev[l] = d
    BY <1>0 DEF RentAllocate
  <1>4. \A d \in Nodes : node'[d].status \in IdleStatus =>
            node[d].status \in IdleStatus /\ \A l \in L : dev[l] # d
    BY <1>1, <1>3 DEF IdleStatus
  <1>5. \A d \in Nodes : node[d].status \in IdleStatus => OpenOn(d) = {}
    BY DEF ExclusiveInv, OneOpenLeasePerNode, OfflineIsSettled, IdleStatus
  <1>6. ASSUME NEW d \in Nodes, node'[d].status \in IdleStatus PROVE OpenOn(d)' = {}
    BY <1>1, <1>2, <1>4, <1>5, <1>6 DEF OpenOn, Open, LeaseExists
  <1>7. ASSUME NEW d \in Nodes, NEW l \in OpenOn(d)', NEW m \in OpenOn(d)' PROVE l = m
    <2>1. l \in Leases /\ m \in Leases /\ lease'[l].dev = d /\ lease'[m].dev = d
      BY <1>7 DEF OpenOn
    <2>2. CASE l \in L /\ m \in L
      <3>1. \A x, y \in L : dev[x] = dev[y] => x = y
        BY DEF RentAllocate
      <3> QED  BY <1>1, <2>1, <2>2, <3>1
    <2>3. CASE l \notin L /\ m \notin L
      <3>1. l \in OpenOn(d) /\ m \in OpenOn(d)
        BY <1>2, <1>7, <2>1, <2>3 DEF OpenOn, Open, LeaseExists
      <3> QED  BY <3>1 DEF ExclusiveInv, OneOpenLeasePerNode
    <2>4. ASSUME NEW x \in L, NEW y \in Leases \ L, x \in OpenOn(d)', y \in OpenOn(d)'
          PROVE  FALSE
      <3>1. lease'[x].dev = d /\ y \in OpenOn(d)
        BY <1>2, <2>4 DEF OpenOn, Open, LeaseExists
      <3>2. node[d].status = "FREE"
        BY <1>1, <3>1
      <3> QED  BY <1>5, <3>1, <3>2 DEF IdleStatus
    <2> QED  BY <1>7, <2>1, <2>2, <2>3, <2>4
  <1> QED  BY <1>6, <1>7 DEF OneOpenLeasePerNode, OfflineIsSettled, IdleStatus

\* No other step makes a node FREE or OFFLINE while a lease runs on it.
LEMMA IdleStaysUnused ==
    ASSUME TypeInv, SettleInv, ExclusiveInv, Next, OpenShrinks
    PROVE  \A d \in Nodes : node'[d].status \in IdleStatus =>
              \/ node[d].status \in IdleStatus
              \/ OpenOn(d) = {}
              \/ OpenOn(d)' = {}
              \/ \E r \in Requests, L \in SUBSET Leases : \E dev \in [L -> Nodes] :
                    RentAllocate(r, L, dev)
  <1> DEFINE Fine(d) == node'[d].status \in IdleStatus =>
                           \/ node[d].status \in IdleStatus
                           \/ OpenOn(d) = {}
                           \/ OpenOn(d)' = {}
  <1> DEFINE Goal == \A d \in Nodes : Fine(d)
  <1>0. node \in [Nodes -> NodeRow]
    BY DEF TypeInv, TypeOK
  <1>1. CASE UNCHANGED node
    BY <1>1
  <1>2. ASSUME NEW d \in Nodes, \A e \in Nodes \ {d} : node'[e] = node[e], Fine(d)
        PROVE  Goal
    BY <1>2
  <1>3. ASSUME NEW d \in Nodes, ~NodeExists(d) PROVE OpenOn(d) = {}
    BY <1>3 DEF TypeInv, LeaseHasNode, OpenOn, Open
  <1>4. ASSUME NEW d \in Nodes, MarkOffline(d) PROVE Goal
    <2>1. CASE NodeExists(d)
      <3>1. \A e \in Nodes \ {d} : node'[e] = node[e]
        BY <1>0, <1>4, <2>1 DEF MarkOffline
      <3>2. OpenOn(d)' = {}
        BY <1>4, <2>1, MarkOfflineShrinks DEF NodeExists
      <3> QED  BY <1>2, <3>1, <3>2
    <2>2. CASE ~NodeExists(d)
      BY <1>1, <1>4, <2>2 DEF MarkOffline
    <2> QED  BY <2>1, <2>2
  <1>5. ASSUME NEW c \in Conns, NodeConnectedRead(c) \/ NodeHelloRead(c) PROVE Goal
    <2>1. sock[c].dev \in Nodes
      BY <1>5 DEF TypeInv, SockRefs, NodeConnectedRead, NodeHelloRead, WsRead
    <2>2. PICK d \in Nodes : d = sock[c].dev
      BY <2>1
    <2>3. /\ \A e \in Nodes \ {d} : node'[e] = node[e]
          /\ NodeExists(d) => node'[d] = node[d]
      BY <1>0, <1>5, <2>2 DEF NodeConnectedRead, NodeHelloRead, WsRead
    <2>4. Fine(d)
      BY <1>3, <2>3
    <2> QED  BY <1>2, <2>3, <2>4
  <1>6. CASE NodeConnectedSave \/ NodeHelloSave
    <2>1. ws.dev \in Nodes /\ ws.pc # "idle"
      BY <1>6 DEF TypeInv, WsRefs, NodeConnectedSave, NodeHelloSave, WsSave
    <2>2. PICK d \in Nodes : d = ws.dev
      BY <2>1
    <2>3. /\ \A e \in Nodes \ {d} : node'[e] = node[e]
          /\ node'[d].status = ws.status \/ node'[d] = node[d]
      BY <1>0, <1>6, <2>2 DEF NodeConnectedSave, NodeHelloSave, WsSave
    <2>4. Fine(d)
      BY <2>1, <2>2, <2>3 DEF ExclusiveInv, WsSeesIdle
    <2> QED  BY <1>2, <2>3, <2>4
  <1>7. ASSUME NEW c \in Conns, SocketStep(c) PROVE Goal
    <2>1. CASE NodeDisconnected(c)
      <3>1. PICK d \in Nodes : d = sock[c].dev
        BY <2>1 DEF NodeDisconnected, TypeInv, SockRefs
      <3>2. MarkOffline(d)
        BY <2>1, <3>1 DEF NodeDisconnected
      <3> QED  BY <1>4, <3>2
    <2>2. CASE Heartbeat(c)
      <3>1. \A d \in Nodes : node'[d].status = node[d].status
        BY <1>0, <2>2 DEF Heartbeat, NodeRow
      <3> QED  BY <3>1
    <2>3. ASSUME NEW l \in Leases, MarkLeaseReady(c, l) PROVE Goal
      <3>1. \A d \in Nodes : node'[d].status \in {node[d].status, "IN_USE"}
        BY <1>0, <2>3 DEF MarkLeaseReady, NodeRow
      <3> QED  BY <3>1 DEF IdleStatus
    <2>4. CASE (\E d \in Nodes : Connect(c, d)) \/ SocketLost(c)
      BY <1>1, <2>4 DEF Connect, SocketLost
    <2> QED  BY <1>5, <1>7, <2>1, <2>2, <2>3, <2>4 DEF SocketStep
  <1>8. ASSUME NEW r \in Requests, RequestArrives(r) PROVE Goal
    <2>1. ASSUME NEW d \in Nodes, ForceNode(r, d) PROVE Goal
      <3>1. \A e \in Nodes \ {d} : node'[e] = node[e]
        BY <1>0, <2>1 DEF ForceNode
      <3>2. OpenOn(d)' = {}
        BY <2>1, ForceNodeShrinks
      <3> QED  BY <1>2, <3>1, <3>2
    <2>2. CASE ~\E d \in Nodes : ForceNode(r, d)
      BY <1>1, <1>8, <2>2 DEF RequestArrives, RentLookup, ReleaseLookup, ForceLeaseRead,
         DeleteCheck, SetStateRead
    <2> QED  BY <2>1, <2>2
  <1>9. ASSUME NEW r \in Requests, RequestStep(r),
               ~\E L \in SUBSET Leases : \E dev \in [L -> Nodes] : RentAllocate(r, L, dev)
        PROVE  Goal
    <2>1. CASE ReleaseEnd(r) \/ \E done \in SUBSET Leases : ReleaseNotFound(r, done)
      <3>1. \A d \in Nodes : node'[d].status \in {node[d].status, "RELEASING"}
        BY <1>0, <2>1 DEF ReleaseEnd, ReleaseNotFound, ReleaseLoop, NodeRow
      <3> QED  BY <3>1 DEF IdleStatus
    <2>2. ASSUME NEW l \in Leases, ForceLeaseEnd(r, l) PROVE Goal
      <3>1. \A d \in Nodes : node'[d].status \in {node[d].status, "RELEASING"}
        BY <1>0, <2>2 DEF ForceLeaseEnd, NodeRow
      <3> QED  BY <3>1 DEF IdleStatus
    <2>3. CASE SetStateSave(r)
      <3>1. \A d \in Nodes : node'[d].status \in {node[d].status} \cup Held
        BY <1>0, <2>3 DEF SetStateSave, NodeRow, ExclusiveInv, HeldOnly
      <3> QED  BY <3>1 DEF IdleStatus, Held
    <2>4. CASE DeleteNode(r)
      <3>1. \A d \in Nodes : node'[d].status \in {node[d].status, "ABSENT"}
        BY <1>0, <2>4 DEF DeleteNode, NoNode
      <3> QED  BY <3>1 DEF IdleStatus
    <2>5. CASE \/ RentNoCapacity(r) \/ RentNotify(r) \/ RentStoreKey(r) \/ ReleaseNotify(r)
               \/ ReleaseStoreKey(r) \/ ForceLeaseFail(r) \/ ForceNotify(r) \/ DeleteLeases(r)
      BY <1>1, <2>5 DEF RentNoCapacity, RentNotify, RentStoreKey, ReleaseNotify,
         ReleaseStoreKey, StoreKey, ForceLeaseFail, ForceNotify, DeleteLeases
    <2> QED  BY <1>9, <2>1, <2>2, <2>3, <2>4, <2>5 DEF RequestStep
  <1>10. ASSUME NEW d \in Nodes, DeviceToken(d) PROVE Goal
    <2>1. OpenOn(d) = {} /\ \A e \in Nodes \ {d} : node'[e] = node[e]
      BY <1>0, <1>3, <1>10 DEF DeviceToken
    <2> QED  BY <1>2, <2>1
  <1>11. ASSUME NEW d \in Nodes, HeartbeatOverdue(d) PROVE Goal
    <2>1. \A e \in Nodes : node'[e].status = node[e].status
      BY <1>0, <1>11 DEF HeartbeatOverdue, NodeRow
    <2> QED  BY <2>1
  <1>12. CASE CheckerStep
    BY <1>1, <1>4, <1>12 DEF CheckerStep, CheckStaleNodes, MarkStaleNode
  <1>13. CASE WsStep
    BY <1>1, <1>6, <1>13 DEF WsStep, NodeConnectedCheck, NodeHelloCheck, WsCheck
  <1>14. CASE ServerRestart \/ \E u \in Users : StreamStep(u)
    BY <1>1, <1>14 DEF ServerRestart, StreamStep, AuthorizeLeaseStream, SetLeaseActive
  <1>15. Goal \/ \E r \in Requests, L \in SUBSET Leases : \E dev \in [L -> Nodes] :
                    RentAllocate(r, L, dev)
    BY <1>7, <1>8, <1>9, <1>10, <1>11, <1>12, <1>13, <1>14 DEF Next
  <1> QED  BY <1>15

\* What the worker thread has seen idle is still unused when it saves.
LEMMA WsSeesIdleNext ==
    ASSUME TypeInv, SettleInv, ExclusiveInv, Next, WsUndisturbed
    PROVE  WsSeesIdle'
  <1>0. /\ ws \in WsCall /\ node \in [Nodes -> NodeRow]
        /\ \A d \in Nodes : node[d].status \in IdleStatus => OpenOn(d) = {}
        /\ \A d \in Nodes : ~NodeExists(d) => OpenOn(d) = {}
        /\ \A d \in Nodes : OpenOn(d) \subseteq ActiveOn(d)
    BY OpenIsActive DEF TypeInv, TypeOK, ExclusiveInv, OneOpenLeasePerNode, OfflineIsSettled,
       IdleStatus, LeaseHasNode, OpenOn, Open, ActiveOn
  <1>1. CASE ws.pc = "idle" /\ ws' = ws
    BY <1>1 DEF WsSeesIdle
  <1>2. CASE ws' = NoCall
    BY <1>2 DEF WsSeesIdle, NoCall
  <1>3. ASSUME NEW c \in Conns, NodeConnectedRead(c) \/ NodeHelloRead(c) PROVE WsSeesIdle'
    <2>1. sock[c].dev \in Nodes
      BY <1>3 DEF TypeInv, SockRefs, NodeConnectedRead, NodeHelloRead, WsRead
    <2>2. PICK d \in Nodes : d = sock[c].dev
      BY <2>1
    <2>3. /\ UNCHANGED lease /\ ws'.dev = d
          /\ ws'.status = (IF NodeExists(d) THEN node[d] ELSE NewNode).status
      BY <1>3, <2>2 DEF NodeConnectedRead, NodeHelloRead, WsRead
    <2>4. ws'.status \in IdleStatus => OpenOn(d) = {}
      BY <1>0, <2>3
    <2> QED  BY <2>3, <2>4 DEF WsSeesIdle, OpenOn, Open, LeaseExists
  <1>4. CASE NodeConnectedCheck \/ NodeHelloCheck
    <2>1. ws.dev \in Nodes /\ ws.pc # "idle"
      BY <1>4 DEF TypeInv, WsRefs, NodeConnectedCheck, NodeHelloCheck, WsCheck
    <2>2. /\ UNCHANGED lease /\ ws'.dev = ws.dev
          /\ ActiveOn(ws.dev) = {} \/ ws'.status = ws.status
      BY <1>0, <1>4 DEF NodeConnectedCheck, NodeHelloCheck, WsCheck, WsCall
    <2>3. ws'.status \in IdleStatus => OpenOn(ws.dev) = {}
      BY <1>0, <2>1, <2>2 DEF ExclusiveInv, WsSeesIdle
    <2> QED  BY <2>2, <2>3 DEF WsSeesIdle, OpenOn, Open, LeaseExists
  <1>5. CASE NodeConnectedSave \/ NodeHelloSave \/ ServerRestart
    BY <1>2, <1>5 DEF NodeConnectedSave, NodeHelloSave, WsSave, ServerRestart
  <1>6. CASE ws' = ws
    BY <1>1, <1>6 DEF WsUndisturbed
  <1>7. ASSUME NEW c \in Conns, SocketStep(c) PROVE WsSeesIdle'
    BY <1>3, <1>6, <1>7 DEF SocketStep, Connect, Heartbeat, SocketLost, NodeDisconnected,
       MarkLeaseReady
  <1>8. ASSUME NEW u \in Users, StreamStep(u) PROVE WsSeesIdle'
    BY <1>6, <1>8 DEF StreamStep, AuthorizeLeaseStream, SetLeaseActive
  <1>9. ASSUME NEW r \in Requests, RequestArrives(r) PROVE WsSeesIdle'
    BY <1>6, <1>9 DEF RequestArrives, RentLookup, ReleaseLookup, ForceLeaseRead, ForceNode,
       DeleteCheck, SetStateRead
  <1>10. ASSUME NEW r \in Requests, RequestStep(r) PROVE WsSeesIdle'
    BY <1>6, <1>10 DEF RequestStep, RentAllocate, RentNoCapacity, RentNotify, RentStoreKey,
       ReleaseEnd, ReleaseNotify, ReleaseStoreKey, StoreKey, ReleaseNotFound, ForceLeaseEnd,
       ForceLeaseFail, ForceNotify, SetStateSave, DeleteLeases, DeleteNode
  <1>11. ASSUME NEW d \in Nodes, DeviceToken(d) \/ HeartbeatOverdue(d) PROVE WsSeesIdle'
    BY <1>6, <1>11 DEF DeviceToken, HeartbeatOverdue
  <1>12. CASE CheckerStep
    BY <1>6, <1>12 DEF CheckerStep, CheckStaleNodes, MarkStaleNode
  <1>13. CASE WsStep
    BY <1>4, <1>5, <1>13 DEF WsStep
  <1> QED  BY <1>5, <1>7, <1>8, <1>9, <1>10, <1>11, <1>12, <1>13 DEF Next

\* ExclusiveInv is inductive relative to TypeInv and SettleInv.
LEMMA ExclusiveNext ==
    ASSUME "set_free" \notin HttpOps
    PROVE  TypeInv /\ SettleInv /\ ExclusiveInv /\ [Next /\ WsUndisturbed]_vars
              => ExclusiveInv'
  <1> SUFFICES ASSUME TypeInv, SettleInv, ExclusiveInv, [Next /\ WsUndisturbed]_vars
               PROVE  ExclusiveInv'
    OBVIOUS
  <1>1. CASE Next /\ WsUndisturbed
    <2>1. WsSeesIdle' /\ HeldOnly'
      BY <1>1, WsSeesIdleNext, HeldOnlyNext DEF ExclusiveInv
    <2>2. ASSUME NEW r \in Requests, NEW L \in SUBSET Leases, NEW dev \in [L -> Nodes],
                 RentAllocate(r, L, dev)
          PROVE  OneOpenLeasePerNode' /\ OfflineIsSettled'
      BY <2>2, RentIsExclusive
    <2>3. CASE /\ OpenShrinks
               /\ ~\E r \in Requests, L \in SUBSET Leases : \E dev \in [L -> Nodes] :
                      RentAllocate(r, L, dev)
      <3>1. \A d \in Nodes : \A l \in OpenOn(d)' : l \in OpenOn(d)
        BY <2>3 DEF OpenShrinks, OpenOn
      <3>2. \A d \in Nodes : node[d].status \in IdleStatus => OpenOn(d) = {}
        BY DEF ExclusiveInv, OneOpenLeasePerNode, OfflineIsSettled, IdleStatus
      <3>3. \A d \in Nodes : node'[d].status \in IdleStatus =>
               node[d].status \in IdleStatus \/ OpenOn(d) = {} \/ OpenOn(d)' = {}
        BY <1>1, <2>3, IdleStaysUnused
      <3>4. \A d \in Nodes : node'[d].status \in IdleStatus => OpenOn(d)' = {}
        BY <3>1, <3>2, <3>3
      <3>5. \A d \in Nodes : \A l, m \in OpenOn(d)' : l = m
        BY <3>1 DEF ExclusiveInv, OneOpenLeasePerNode
      <3> QED  BY <2>1, <3>4, <3>5 DEF ExclusiveInv, OneOpenLeasePerNode, OfflineIsSettled,
                  IdleStatus
    <2> QED  BY <1>1, <2>1, <2>2, <2>3, OpenedByRent DEF ExclusiveInv
  <1>2. CASE UNCHANGED vars
    BY <1>2 DEF vars, ExclusiveInv, OneOpenLeasePerNode, OfflineIsSettled, WsSeesIdle, HeldOnly,
       OpenOn, Open, LeaseExists
  <1> QED  BY <1>1, <1>2

\* ExclusiveInv is an invariant of the serial specification.
LEMMA ExclusiveAlways ==
    ASSUME "set_free" \notin HttpOps
    PROVE  SerialSpec => []ExclusiveInv
  <1>1. Init => ExclusiveInv
    BY DEF Init, ExclusiveInv, OneOpenLeasePerNode, OfflineIsSettled, WsSeesIdle, HeldOnly,
       OpenOn, Open, LeaseExists, Unrented, NoNode, NoCall, NoReq
  <1>2. TypeInv /\ SettleInv /\ ExclusiveInv /\ [Next /\ WsUndisturbed]_vars => ExclusiveInv'
    BY ExclusiveNext
  <1>3. [Next /\ WsUndisturbed]_vars => [Next]_vars
    OBVIOUS
  <1>4. SerialSpec => Spec
    BY <1>3, PTL DEF SerialSpec, Spec
  <1> QED  BY <1>1, <1>2, <1>4, SettleAlways, PTL DEF SerialSpec

\* If the worker thread's functions are not interrupted by other writers and
\* no administrator declares a rented node FREE, then a node is rented to one
\* lease at a time, and a FREE node to none.
THEOREM ExclusiveUse ==
    ASSUME "set_free" \notin HttpOps
    PROVE  SerialSpec => []OneOpenLeasePerNode
  <1>1. ExclusiveInv => OneOpenLeasePerNode
    BY DEF ExclusiveInv
  <1> QED  BY <1>1, ExclusiveAlways, PTL

\* Under the same conditions an OFFLINE node has no running lease.
THEOREM OfflineCorrect ==
    ASSUME "set_free" \notin HttpOps
    PROVE  SerialSpec => []OfflineIsSettled
  <1>1. ExclusiveInv => OfflineIsSettled
    BY DEF ExclusiveInv
  <1> QED  BY <1>1, ExclusiveAlways, PTL

-----------------------------------------------------------------------------
(* The pool                                                                *)

\* A rent lets new leases on vacant nodes.
LEMMA RentIsLet ==
    ASSUME TypeInv, ExclusiveInv,
           NEW r \in Requests, NEW L \in SUBSET Leases, NEW dev \in [L -> Nodes],
           RentAllocate(r, L, dev)
    PROVE  Pool!Let(L, dev)
  <1>1. req[r].user \in Users
    BY DEF TypeInv, ReqRefs, ReqOK, RentAllocate
  <1>2. \A l \in L : /\ lease'[l].dev = dev[l] /\ Open(l)' /\ lease'[l].status # "NONE"
                     /\ lease[l].status = "NONE" /\ ~Open(l)
    <2> SUFFICES ASSUME NEW l \in L
                 PROVE  /\ lease'[l].dev = dev[l] /\ Open(l)' /\ lease'[l].status # "NONE"
                        /\ lease[l].status = "NONE" /\ ~Open(l)
      OBVIOUS
    <2>1. lease'[l] = NewLease(req[r].user, dev[l])
      BY DEF RentAllocate
    <2>2. lease'[l].status = "ASSIGNED" /\ lease'[l].dev = dev[l] /\ ~lease'[l].ended
      BY <1>1, <2>1, NewLeaseRow
    <2>3. lease[l].status = "NONE"
      BY DEF RentAllocate
    <2> QED  BY <2>2, <2>3 DEF Open, LeaseExists
  <1>3. \A l \in Leases \ L : lease'[l] = lease[l]
    BY DEF RentAllocate
  <1>4. L \cap Handed = {} /\ Handed' = Handed \cup L
    BY <1>2, <1>3 DEF Handed
  <1>5. ASSUME NEW l \in L PROVE Tenants[dev[l]] = {}
    <2>1. dev[l] \in Nodes /\ node[dev[l]].status = "FREE"
      BY DEF RentAllocate, FreeNodes
    <2> QED  BY <2>1 DEF ExclusiveInv, OneOpenLeasePerNode, Tenants
  <1>6. ASSUME NEW d \in Nodes PROVE OpenOn(d)' = OpenOn(d) \cup {l \in L : dev[l] = d}
    BY <1>2, <1>3 DEF OpenOn, Open, LeaseExists
  <1>7. Tenants' = [d \in Nodes |-> Tenants[d] \cup {l \in L : dev[l] = d}]
    BY <1>6 DEF Tenants
  <1>8. \A l, m \in L : dev[l] = dev[m] => l = m
    BY DEF RentAllocate
  <1> QED  BY <1>4, <1>5, <1>7, <1>8 DEF Pool!Let

\* Every other step only ends leases.
LEMMA OthersVacate ==
    ASSUME TypeInv, Next, OpenShrinks
    PROVE  Pool!Vacate
  <1>1. \A d \in Nodes : OpenOn(d)' \subseteq OpenOn(d)
    BY DEF OpenShrinks, OpenOn
  <1>2. /\ Tenants' \in [Nodes -> SUBSET Leases]
        /\ \A d \in Nodes : Tenants'[d] \subseteq Tenants[d]
    BY <1>1 DEF Tenants, OpenOn
  <1>3. ASSUME NEW l \in Leases PROVE lease'[l].status = "NONE" <=> lease[l].status = "NONE"
    <2>1. LeaseStep(l)
      BY LeaseRows
    <2>2. lease[l].status # "NONE" => lease'[l].status # "NONE"
      BY <2>1, LeaseStepFacts
    <2>3. ASSUME NEW u \in Users, NEW d \in FreeNodes, lease[l].status = "NONE",
                 lease'[l] = NewLease(u, d)
          PROVE  FALSE
      <3>1. lease'[l].status = "ASSIGNED" /\ ~lease'[l].ended
        BY <2>3, NewLeaseRow DEF FreeNodes
      <3>2. Open(l)' /\ ~Open(l)
        BY <2>3, <3>1 DEF Open, LeaseExists
      <3> QED  BY <3>2 DEF OpenShrinks
    <2>4. lease[l].status = "NONE" => lease'[l].status = "NONE"
      BY <2>1, <2>3 DEF LeaseStep, LeaseExists, ActiveStatus
    <2> QED  BY <2>2, <2>4
  <1>4. Handed' = Handed
    BY <1>3 DEF Handed
  <1> QED  BY <1>2, <1>4 DEF Pool!Vacate

\* Under the conditions of ExclusiveUse the back end implements NodePool: only
\* RentLeaseView puts a lease on a node, a new lease on a vacant node, and what
\* has ended never runs again, here or on another node.
THEOREM ImplementsPool ==
    ASSUME "set_free" \notin HttpOps
    PROVE  SerialSpec => FollowsPool
  <1>1. Init => Pool!Init
    BY DEF Init, Unrented, Pool!Init, Tenants, Handed, OpenOn, Open, LeaseExists
  <1>2. TypeInv /\ SettleInv /\ ExclusiveInv /\ [Next /\ WsUndisturbed]_vars
           => [Pool!Next]_(Pool!vars)
    <2> SUFFICES ASSUME TypeInv, SettleInv, ExclusiveInv, [Next /\ WsUndisturbed]_vars
                 PROVE  [Pool!Next]_(Pool!vars)
      OBVIOUS
    <2>1. CASE Next
      <3>1. ASSUME NEW r \in Requests, NEW L \in SUBSET Leases, NEW dev \in [L -> Nodes],
                   RentAllocate(r, L, dev)
            PROVE  Pool!Next
        BY <3>1, RentIsLet DEF Pool!Next
      <3>2. CASE OpenShrinks
        BY <2>1, <3>2, OthersVacate DEF Pool!Next
      <3> QED  BY <2>1, <3>1, <3>2, OpenedByRent
    <2>2. CASE UNCHANGED vars
      BY <2>2 DEF vars, Pool!vars, Tenants, Handed, OpenOn, Open, LeaseExists
    <2> QED  BY <2>1, <2>2
  <1>3. [Next /\ WsUndisturbed]_vars => [Next]_vars
    OBVIOUS
  <1>4. SerialSpec => Spec
    BY <1>3, PTL DEF SerialSpec, Spec
  <1> QED
    BY <1>1, <1>2, <1>4, ExclusiveAlways, SettleAlways, PTL
       DEF SerialSpec, FollowsPool, Pool!Spec

-----------------------------------------------------------------------------
(* Capacity is not lost                                                    *)

Busy == {"ASSIGNED", "IN_USE"}

Deleting == {"delete_leases", "delete_node"}

\* The requests that have read, or computed, a status to save or to look at.
HoldsStatus == {"state_save", "force_end"}

NoHolds == "set_disabled" \notin HttpOps /\ "set_maintenance" \notin HttpOps

\* How a request comes to delete, or to hold a status it has read or computed.
RequestFrom(r) ==
    \/ req'[r] = req[r]
    \/ req'[r].pc \notin Deleting \cup HoldsStatus
    \/ req'[r].pc \in Deleting /\ (req[r].pc \in Deleting \/ "delete" \in HttpOps)
    \/ /\ req'[r].pc = "force_end" /\ UNCHANGED lease
       /\ \E l \in Leases : /\ LeaseExists(l)
                            /\ req'[r].leases = {l}
                            /\ req'[r].dev = lease[l].dev
                            /\ req'[r].status = node[lease[l].dev].status
    \/ /\ req'[r].pc = "state_save"
       /\ req'[r].status \in {"FREE", "OFFLINE"} \/ (req'[r].status \in Held /\ ~NoHolds)

LEMMA RequestOrigin ==
    ASSUME TypeInv, Next, NEW r \in Requests
    PROVE  RequestFrom(r)
  <1>0. req \in [Requests -> Request]
    BY DEF TypeInv, TypeOK
  <1>1. CASE req'[r] = req[r]
    BY <1>1 DEF RequestFrom
  <1>2. CASE req'[r].pc \notin Deleting \cup HoldsStatus
    BY <1>2 DEF RequestFrom
  <1>3. ASSUME NEW x \in Requests, RequestArrives(x) PROVE RequestFrom(r)
    <2>1. CASE r # x
      <3>1. req'[r] = req[r]
        BY <1>0, <1>3, <2>1 DEF RequestArrives, RentLookup, ReleaseLookup, ForceLeaseRead,
           ForceNode, DeleteCheck, SetStateRead
      <3> QED  BY <1>1, <3>1
    <2>2. CASE r = x
      <3>1. ASSUME NEW u \in Users, NEW k \in Keys \cup {None},
                   \/ \E n \in 1 .. MaxCount : RentLookup(r, u, k, n)
                   \/ \E L \in SUBSET Leases : ReleaseLookup(r, u, k, L)
            PROVE  RequestFrom(r)
        <4>1. req'[r].pc \in {"rent_allocate", "release_end"}
          BY <1>0, <3>1 DEF RentLookup, ReleaseLookup, NoReq
        <4> QED  BY <1>2, <4>1 DEF Deleting, HoldsStatus
      <3>2. ASSUME NEW l \in Leases, ForceLeaseRead(r, l) PROVE RequestFrom(r)
        <4>1. /\ req'[r].pc = "force_end" /\ req'[r].leases = {l}
              /\ req'[r].dev = lease[l].dev /\ req'[r].status = node[lease[l].dev].status
              /\ UNCHANGED lease /\ LeaseExists(l)
          BY <1>0, <3>2 DEF ForceLeaseRead, NoReq
        <4> QED  BY <4>1 DEF RequestFrom
      <3>3. ASSUME NEW d \in Nodes, ForceNode(r, d) PROVE RequestFrom(r)
        <4>1. req'[r].pc = "force_notify"
          BY <1>0, <3>3 DEF ForceNode, NoReq
        <4> QED  BY <1>2, <4>1 DEF Deleting, HoldsStatus
      <3>4. ASSUME NEW d \in Nodes, DeleteCheck(r, d) PROVE RequestFrom(r)
        <4>1. req'[r].pc = "delete_leases" /\ "delete" \in HttpOps
          BY <1>0, <3>4 DEF DeleteCheck, NoReq
        <4> QED  BY <4>1 DEF RequestFrom, Deleting
      <3>5. ASSUME NEW d \in Nodes, NEW op \in {"set_disabled", "set_maintenance", "set_free"},
                   SetStateRead(r, d, op)
            PROVE  RequestFrom(r)
        <4>1. /\ req'[r].pc = "state_save" /\ op \in HttpOps
              /\ op = "set_free" => req'[r].status \in {"OFFLINE", "FREE"}
              /\ op # "set_free" => req'[r].status \in Held
          BY <1>0, <3>5 DEF SetStateRead, NoReq, StateOf, Held
        <4> QED  BY <4>1 DEF RequestFrom, NoHolds
      <3> QED  BY <1>3, <2>2, <3>1, <3>2, <3>3, <3>4, <3>5 DEF RequestArrives
    <2> QED  BY <2>1, <2>2
  <1>4. ASSUME NEW x \in Requests, RequestStep(x) PROVE RequestFrom(r)
    <2>1. \/ req' = [req EXCEPT ![x] = NoReq]
          \/ \E pc \in RequestPc \ (Deleting \cup HoldsStatus) : req' = [req EXCEPT ![x].pc = pc]
          \/ req[x].pc = "delete_leases" /\ req' = [req EXCEPT ![x].pc = "delete_node"]
          \/ \E L \in SUBSET Leases :
                req' = [req EXCEPT ![x].pc = "rent_notify", ![x].leases = L]
      BY <1>4 DEF RequestStep, RentAllocate, RentNoCapacity, RentNotify, RentStoreKey,
         ReleaseEnd, ReleaseNotify, ReleaseStoreKey, StoreKey, ReleaseNotFound, ForceLeaseEnd,
         ForceLeaseFail, ForceNotify, SetStateSave, DeleteLeases, DeleteNode, RequestPc,
         Deleting, HoldsStatus
    <2>2. \/ req'[r] = req[r]
          \/ req'[r].pc \notin Deleting \cup HoldsStatus
          \/ req'[r].pc \in Deleting /\ req[r].pc \in Deleting
      BY <1>0, <2>1 DEF NoReq, Request, Deleting, HoldsStatus
    <2> QED  BY <2>2 DEF RequestFrom
  <1>5. CASE ServerRestart
    <2>1. req'[r].pc = "idle"
      BY <1>5 DEF ServerRestart, NoReq
    <2> QED  BY <1>2, <2>1 DEF Deleting, HoldsStatus
  <1>6. CASE \/ WsStep
             \/ \E c \in Conns : SocketStep(c)
             \/ \E u \in Users : StreamStep(u)
             \/ \E d \in Nodes : DeviceToken(d) \/ HeartbeatOverdue(d)
             \/ CheckerStep
    <2>1. UNCHANGED req
      BY <1>6 DEF WsStep, NodeConnectedCheck, NodeHelloCheck, NodeConnectedSave,
         NodeHelloSave, WsCheck, WsSave, SocketStep, Connect, NodeConnectedRead,
         NodeHelloRead, WsRead, Heartbeat, SocketLost, NodeDisconnected, MarkLeaseReady,
         StreamStep, AuthorizeLeaseStream, SetLeaseActive, DeviceToken, HeartbeatOverdue,
         CheckerStep, CheckStaleNodes, MarkStaleNode
    <2> QED  BY <1>1, <2>1
  <1> QED  BY <1>3, <1>4, <1>5, <1>6 DEF Next

\* Where the status in the memory of the worker thread comes from.
WsFrom ==
    \/ ws' = ws
    \/ ws'.pc = "idle"
    \/ UNCHANGED lease /\ \E d \in Nodes : /\ ws'.dev = d
                                           /\ ws'.status \in {node[d].status, "OFFLINE"}
    \/ UNCHANGED lease /\ ws.pc # "idle" /\ ws'.dev = ws.dev /\ ws'.status \in {ws.status, "FREE"}

LEMMA WsOrigin == TypeInv /\ Next => WsFrom
  <1> SUFFICES ASSUME TypeInv, Next PROVE WsFrom
    OBVIOUS
  <1>0. ws \in WsCall
    BY DEF TypeInv, TypeOK
  <1>1. CASE UNCHANGED ws
    BY <1>1 DEF WsFrom
  <1>2. CASE ws' = NoCall
    BY <1>2 DEF WsFrom, NoCall
  <1>3. ASSUME NEW c \in Conns, NodeConnectedRead(c) \/ NodeHelloRead(c) PROVE WsFrom
    <2>1. PICK d \in Nodes : d = sock[c].dev
      BY <1>3 DEF TypeInv, SockRefs, NodeConnectedRead, NodeHelloRead, WsRead
    <2>2. /\ UNCHANGED lease /\ ws'.dev = d
          /\ ws'.status \in {node[d].status, "OFFLINE"}
      BY <1>3, <2>1 DEF NodeConnectedRead, NodeHelloRead, WsRead, NewNode
    <2> QED  BY <2>2 DEF WsFrom
  <1>4. CASE NodeConnectedCheck \/ NodeHelloCheck
    <2>1. /\ UNCHANGED lease /\ ws.pc # "idle" /\ ws'.dev = ws.dev
          /\ ws'.status \in {ws.status, "FREE"}
      BY <1>0, <1>4 DEF NodeConnectedCheck, NodeHelloCheck, WsCheck, WsCall
    <2> QED  BY <2>1 DEF WsFrom
  <1>5. CASE WsStep
    BY <1>2, <1>4, <1>5 DEF WsStep, NodeConnectedSave, NodeHelloSave, WsSave
  <1>6. ASSUME NEW c \in Conns, SocketStep(c) PROVE WsFrom
    BY <1>1, <1>3, <1>6 DEF SocketStep, Connect, Heartbeat, SocketLost, NodeDisconnected,
       MarkLeaseReady
  <1>7. ASSUME NEW u \in Users, StreamStep(u) PROVE WsFrom
    BY <1>1, <1>7 DEF StreamStep, AuthorizeLeaseStream, SetLeaseActive
  <1>8. ASSUME NEW r \in Requests, RequestArrives(r) PROVE WsFrom
    BY <1>1, <1>8 DEF RequestArrives, RentLookup, ReleaseLookup, ForceLeaseRead, ForceNode,
       DeleteCheck, SetStateRead
  <1>9. ASSUME NEW r \in Requests, RequestStep(r) PROVE WsFrom
    BY <1>1, <1>9 DEF RequestStep, RentAllocate, RentNoCapacity, RentNotify, RentStoreKey,
       ReleaseEnd, ReleaseNotify, ReleaseStoreKey, StoreKey, ReleaseNotFound, ForceLeaseEnd,
       ForceLeaseFail, ForceNotify, SetStateSave, DeleteLeases, DeleteNode
  <1>10. ASSUME NEW d \in Nodes, DeviceToken(d) \/ HeartbeatOverdue(d) PROVE WsFrom
    BY <1>1, <1>10 DEF DeviceToken, HeartbeatOverdue
  <1>11. CASE CheckerStep \/ ServerRestart
    BY <1>1, <1>2, <1>11 DEF CheckerStep, CheckStaleNodes, MarkStaleNode, ServerRestart
  <1> QED  BY <1>5, <1>6, <1>7, <1>8, <1>9, <1>10, <1>11 DEF Next

\* How a step may change the status of a node; what the two writers that save a
\* status from memory have in it is left open.
LEMMA NodeStatuses ==
    ASSUME TypeInv, Next, NEW d \in Nodes
    PROVE  \/ node'[d].status \in {node[d].status, "ABSENT", "FREE", "OFFLINE", "RELEASING"}
           \/ ws.pc # "idle" /\ ws.dev = d /\ node'[d].status = ws.status /\ UNCHANGED lease
           \/ \E r \in Requests : req[r].pc = "state_save" /\ node'[d].status = req[r].status
           \/ \E c \in Conns, l \in Leases : MarkLeaseReady(c, l) /\ lease[l].dev = d
                                             /\ node'[d].status = "IN_USE"
           \/ \E r \in Requests, L \in SUBSET Leases : \E dev \in [L -> Nodes] :
                 /\ RentAllocate(r, L, dev) /\ node'[d].status = "ASSIGNED"
                 /\ \E l \in L : dev[l] = d
  <1> DEFINE Plain == node'[d].status \in {node[d].status, "ABSENT", "FREE", "OFFLINE", "RELEASING"}
  <1>0. node \in [Nodes -> NodeRow]
    BY DEF TypeInv, TypeOK
  <1>1. CASE UNCHANGED node
    BY <1>1
  <1>2. ASSUME NEW e, MarkOffline(e) PROVE Plain
    BY <1>0, <1>2 DEF MarkOffline, NewNode
  <1>3. ASSUME NEW c \in Conns, NodeConnectedRead(c) \/ NodeHelloRead(c) PROVE Plain
    BY <1>0, <1>3 DEF NodeConnectedRead, NodeHelloRead, WsRead, NewNode
  <1>4. CASE NodeConnectedSave \/ NodeHelloSave
    <2>1. \/ node'[d] = node[d]
          \/ ws.pc # "idle" /\ ws.dev = d /\ node'[d].status = ws.status /\ UNCHANGED lease
      BY <1>0, <1>4 DEF NodeConnectedSave, NodeHelloSave, WsSave
    <2> QED  BY <2>1
  <1>5. ASSUME NEW c \in Conns, NEW l \in Leases, MarkLeaseReady(c, l)
        PROVE  Plain \/ (lease[l].dev = d /\ node'[d].status = "IN_USE")
    BY <1>0, <1>5 DEF MarkLeaseReady, NodeRow
  <1>6. ASSUME NEW c \in Conns, SocketStep(c)
        PROVE  \/ Plain
               \/ \E l \in Leases : MarkLeaseReady(c, l) /\ lease[l].dev = d
                                    /\ node'[d].status = "IN_USE"
    <2>1. CASE NodeDisconnected(c)
      BY <1>2, <2>1 DEF NodeDisconnected
    <2>2. CASE Heartbeat(c)
      BY <1>0, <2>2 DEF Heartbeat, NodeRow
    <2>3. CASE (\E e \in Nodes : Connect(c, e)) \/ SocketLost(c)
      BY <1>1, <2>3 DEF Connect, SocketLost
    <2> QED  BY <1>3, <1>5, <1>6, <2>1, <2>2, <2>3 DEF SocketStep
  <1>7. ASSUME NEW r \in Requests, RequestArrives(r) PROVE Plain
    <2>1. ASSUME NEW e \in Nodes, ForceNode(r, e) PROVE Plain
      BY <1>0, <2>1 DEF ForceNode, NodeRow
    <2>2. CASE ~\E e \in Nodes : ForceNode(r, e)
      BY <1>1, <1>7, <2>2 DEF RequestArrives, RentLookup, ReleaseLookup, ForceLeaseRead,
         DeleteCheck, SetStateRead
    <2> QED  BY <2>1, <2>2
  <1>8. ASSUME NEW r \in Requests, NEW L \in SUBSET Leases, NEW dev \in [L -> Nodes],
               RentAllocate(r, L, dev)
        PROVE  Plain \/ (node'[d].status = "ASSIGNED" /\ \E l \in L : dev[l] = d)
    BY <1>0, <1>8 DEF RentAllocate, NodeRow
  <1>9. ASSUME NEW r \in Requests, RequestStep(r),
               ~\E L \in SUBSET Leases : \E dev \in [L -> Nodes] : RentAllocate(r, L, dev)
        PROVE  Plain \/ (req[r].pc = "state_save" /\ node'[d].status = req[r].status)
    <2>1. CASE ReleaseEnd(r) \/ \E done \in SUBSET Leases : ReleaseNotFound(r, done)
      BY <1>0, <2>1 DEF ReleaseEnd, ReleaseNotFound, ReleaseLoop, NodeRow
    <2>2. ASSUME NEW l \in Leases, ForceLeaseEnd(r, l) PROVE Plain
      BY <1>0, <2>2 DEF ForceLeaseEnd, NodeRow
    <2>3. CASE SetStateSave(r)
      BY <1>0, <2>3 DEF SetStateSave, NodeRow
    <2>4. CASE DeleteNode(r)
      BY <1>0, <2>4 DEF DeleteNode, NoNode
    <2>5. CASE \/ RentNoCapacity(r) \/ RentNotify(r) \/ RentStoreKey(r) \/ ReleaseNotify(r)
               \/ ReleaseStoreKey(r) \/ ForceLeaseFail(r) \/ ForceNotify(r) \/ DeleteLeases(r)
      BY <1>1, <2>5 DEF RentNoCapacity, RentNotify, RentStoreKey, ReleaseNotify,
         ReleaseStoreKey, StoreKey, ForceLeaseFail, ForceNotify, DeleteLeases
    <2> QED  BY <1>9, <2>1, <2>2, <2>3, <2>4, <2>5 DEF RequestStep
  <1>10. ASSUME NEW e \in Nodes, DeviceToken(e) \/ HeartbeatOverdue(e) PROVE Plain
    BY <1>0, <1>10 DEF DeviceToken, HeartbeatOverdue, NewNode, NodeRow
  <1>11. CASE CheckerStep
    BY <1>1, <1>2, <1>11 DEF CheckerStep, CheckStaleNodes, MarkStaleNode
  <1>12. CASE WsStep
    BY <1>1, <1>4, <1>12 DEF WsStep, NodeConnectedCheck, NodeHelloCheck, WsCheck
  <1>13. CASE ServerRestart \/ \E u \in Users : StreamStep(u)
    BY <1>1, <1>13 DEF ServerRestart, StreamStep, AuthorizeLeaseStream, SetLeaseActive
  <1>14. CASE \E r \in Requests : RequestStep(r)
    <2>1. PICK r \in Requests : RequestStep(r)
      BY <1>14
    <2>2. CASE \E L \in SUBSET Leases : \E dev \in [L -> Nodes] : RentAllocate(r, L, dev)
      BY <1>8, <2>2
    <2>3. CASE ~\E L \in SUBSET Leases : \E dev \in [L -> Nodes] : RentAllocate(r, L, dev)
      BY <1>9, <2>1, <2>3
    <2> QED  BY <2>2, <2>3
  <1> QED
    BY <1>6, <1>7, <1>10, <1>11, <1>12, <1>13, <1>14 DEF Next

\* The worker thread is about to save a busy status only for a rented node.
WsSeesBusy ==
    ws.pc # "idle" =>
        /\ ws.status \in Busy => ActiveOn(ws.dev) # {}
        /\ ws.status = "ASSIGNED" => OpenOn(ws.dev) # {}

\* A busy node has a lease that shows an active status, an ASSIGNED one a lease
\* that is open.  BusyNodeHasLease follows: an active lease is open or revived.
BusyIsActive == \A d \in Nodes : node[d].status \in Busy => ActiveOn(d) # {}

AssignedIsOpen == \A d \in Nodes : node[d].status = "ASSIGNED" => OpenOn(d) # {}

\* No node is being deleted, and AdminSetNodeStateView never saves a busy status.
NoDeletion == \A r \in Requests : req[r].pc \notin Deleting

SavesIdle == \A r \in Requests : req[r].pc = "state_save" => req[r].status \notin Busy

\* The copy of AdminForceReleaseLeaseView names the device of its lease.
ForceCopy ==
    \A r \in Requests : req[r].pc = "force_end" =>
        \A l \in req[r].leases :
            lease[l].status = "GONE" \/ (LeaseExists(l) /\ lease[l].dev = req[r].dev)

\* Without set_disabled and set_maintenance no held status is ever seen.
Unheld ==
    NoHolds => /\ \A d \in Nodes : node[d].status \notin Held
               /\ ws.pc # "idle" => ws.status \notin Held
               /\ \A r \in Requests : req[r].pc \in HoldsStatus => req[r].status \notin Held

BusyInv == /\ BusyIsActive /\ AssignedIsOpen /\ WsSeesBusy
           /\ NoDeletion /\ SavesIdle /\ ForceCopy /\ Unheld

\* A step that ends a lease takes the node out of the busy statuses.
LEMMA ActiveKept ==
    ASSUME "force_lease" \in HttpOps => NoHolds,
           TypeInv, BusyInv, Next,
           NEW d \in Nodes, node'[d].status \in Busy, NEW l \in ActiveOn(d)
    PROVE  l \in ActiveOn(d)'
  <1> DEFINE Kept == lease'[l].dev = lease[l].dev /\ lease'[l].status \in ActiveStatus
  <1>0. /\ node \in [Nodes -> NodeRow] /\ lease \in [Leases -> LeaseRow]
        /\ l \in Leases /\ lease[l].dev = d /\ lease[l].status \in ActiveStatus
        /\ LeaseExists(l)
    BY DEF TypeInv, TypeOK, ActiveOn, ActiveStatus, LeaseExists
  <1>1. CASE lease'[l] = lease[l]
    BY <1>0, <1>1 DEF ActiveOn
  <1>2. Kept => l \in ActiveOn(d)'
    BY <1>0 DEF ActiveOn
  <1>3. ASSUME NEW L \in SUBSET Leases, NEW S \in SUBSET Leases,
               lease' = EndLeases(L, S), l \notin L
        PROVE  lease'[l] = lease[l]
    BY <1>0, <1>3 DEF EndLeases
  <1>4. ASSUME NEW e \in Nodes, ActiveOn(e) \in SUBSET Leases, Started \in SUBSET Leases,
               lease' = EndLeases(ActiveOn(e), Started), e # d
        PROVE  l \in ActiveOn(d)'
    <2>1. l \notin ActiveOn(e)
      BY <1>0, <1>4 DEF ActiveOn
    <2> QED  BY <1>1, <1>3, <1>4, <2>1
  <1>5. Started \in SUBSET Leases /\ \A e \in Nodes : ActiveOn(e) \in SUBSET Leases
    BY DEF Started, ActiveOn
  <1>6. ASSUME NEW e \in Nodes, MarkOffline(e) PROVE l \in ActiveOn(d)'
    <2>1. CASE ~NodeExists(e)
      BY <1>1, <1>6, <2>1 DEF MarkOffline
    <2>2. CASE NodeExists(e)
      <3>1. e # d
        BY <1>0, <1>6, <2>2 DEF MarkOffline, NewNode, Busy
      <3> QED  BY <1>4, <1>5, <1>6, <2>2, <3>1 DEF MarkOffline
    <2> QED  BY <2>1, <2>2
  <1>7. ASSUME NEW c \in Conns, sock[c].st # "closed", MarkOffline(sock[c].dev)
        PROVE  l \in ActiveOn(d)'
    BY <1>6, <1>7 DEF TypeInv, SockRefs
  <1>8. ASSUME NEW c \in Conns, NEW m \in Leases, MarkLeaseReady(c, m) PROVE l \in ActiveOn(d)'
    BY <1>0, <1>2, <1>8 DEF MarkLeaseReady, LeaseRow, ActiveStatus
  <1>9. ASSUME NEW u \in Users, SetLeaseActive(u) PROVE l \in ActiveOn(d)'
    BY <1>0, <1>2, <1>9 DEF SetLeaseActive, LeaseRow, ActiveStatus
  <1>10. ASSUME NEW r \in Requests, NEW L \in SUBSET Leases, NEW dev \in [L -> Nodes],
                RentAllocate(r, L, dev)
         PROVE  l \in ActiveOn(d)'
    <2>1. l \notin L
      BY <1>0, <1>10 DEF RentAllocate, LeaseExists
    <2> QED  BY <1>0, <1>1, <1>10, <2>1 DEF RentAllocate
  <1>11. ASSUME NEW r \in Requests, RentNotify(r) PROVE l \in ActiveOn(d)'
    BY <1>0, <1>2, <1>11 DEF RentNotify, LeaseRow
  <1>12. ASSUME NEW r \in Requests, NEW L \in SUBSET Found(r), ReleaseLoop(L, req[r].started)
         PROVE  l \in ActiveOn(d)'
    <2>1. L \in SUBSET Leases /\ req[r].started \in SUBSET Leases
      BY DEF TypeInv, TypeOK, Request, Found
    <2>2. l \notin L
      <3> SUFFICES ASSUME l \in L PROVE FALSE
        OBVIOUS
      <3>1. \E m \in L : lease[m].dev = d
        BY <1>0
      <3>2. node'[d].status = "RELEASING" \/ node'[d].status \in Held
        BY <1>0, <1>12, <3>1 DEF ReleaseLoop, NodeRow
      <3> QED  BY <3>2 DEF Busy, Held
    <2> QED  BY <1>1, <1>3, <1>12, <2>1, <2>2 DEF ReleaseLoop
  <1>13. ASSUME NEW r \in Requests, ReleaseEnd(r) PROVE l \in ActiveOn(d)'
    BY <1>12, <1>13 DEF ReleaseEnd
  <1>14. ASSUME NEW r \in Requests, NEW done \in SUBSET Leases, ReleaseNotFound(r, done)
         PROVE  l \in ActiveOn(d)'
    BY <1>12, <1>14 DEF ReleaseNotFound
  <1>15. ASSUME NEW r \in Requests, NEW m \in Leases, ForceLeaseEnd(r, m)
         PROVE  l \in ActiveOn(d)'
    <2>1. CASE req[r].ended \/ m # l
      BY <1>0, <1>1, <1>15, <2>1 DEF ForceLeaseEnd
    <2>2. CASE ~req[r].ended /\ m = l
      <3>1. req[r].pc = "force_end" /\ l \in req[r].leases
        BY <1>15, <2>2 DEF ForceLeaseEnd
      <3>2. req[r].dev = d
        BY <1>0, <3>1 DEF BusyInv, ForceCopy, LeaseExists
      <3>3. req[r].status \notin Held
        BY <3>1 DEF BusyInv, Unheld, HoldsStatus, TypeInv, ReqRefs, ReqOK
      <3>4. node' = [node EXCEPT ![d].status = "RELEASING"]
        BY <1>15, <3>2, <3>3 DEF ForceLeaseEnd
      <3> QED  BY <1>0, <3>4 DEF Busy, NodeRow
    <2> QED  BY <2>1, <2>2
  <1>16. ASSUME NEW r \in Requests, NEW e \in Nodes, ForceNode(r, e) PROVE l \in ActiveOn(d)'
    <2>1. e # d
      BY <1>0, <1>16 DEF ForceNode, Busy, Held, NodeRow
    <2> QED  BY <1>4, <1>5, <1>16, <2>1 DEF ForceNode
  <1>17. ASSUME NEW r \in Requests, DeleteLeases(r) PROVE FALSE
    BY <1>17 DEF DeleteLeases, BusyInv, NoDeletion, Deleting
  <1>18. CASE UNCHANGED lease
    BY <1>1, <1>18
  <1> QED
    BY <1>6, <1>7, <1>8, <1>9, <1>10, <1>11, <1>13, <1>14, <1>15, <1>16, <1>17, <1>18,
       LeaseWriters DEF LeaseWrite

\* Such a step keeps an open lease open.
LEMMA OpenKept ==
    ASSUME "force_lease" \in HttpOps => NoHolds,
           TypeInv, SettleInv, BusyInv, Next,
           NEW d \in Nodes, node'[d].status \in Busy, NEW l \in OpenOn(d)
    PROVE  l \in OpenOn(d)'
  <1>0. l \in Leases /\ lease[l] \in LeaseRow /\ Open(l) /\ l \in ActiveOn(d)
    BY OpenIsActive DEF TypeInv, TypeOK, OpenOn, ActiveOn
  <1>1. lease'[l].dev = d /\ lease'[l].status \in ActiveStatus
    BY <1>0, ActiveKept DEF ActiveOn
  <1>2. LeaseStep(l)
    BY <1>0, LeaseRows
  <1>3. lease[l].status # "NONE" /\ ~lease[l].ended
    BY <1>0 DEF Open, LeaseExists
  <1>4. ~lease'[l].ended
    <2>1. ASSUME NEW s \in BOOLEAN, lease'[l] = Settle(lease[l], s) PROVE FALSE
      BY <1>0, <1>1, <2>1, SettleRow DEF ActiveStatus
    <2>2. CASE lease'[l] = [Unrented("GONE") EXCEPT !.user = lease[l].user]
      <3>1. lease[l].user \in Users \cup {None}
        BY <1>0 DEF LeaseRow
      <3> QED  BY <1>1, <2>2, <3>1, GoneRow DEF ActiveStatus
    <2>3. CASE \/ lease'[l] = lease[l]
               \/ lease'[l] = [lease[l] EXCEPT !.told = TRUE]
               \/ lease'[l] = [lease[l] EXCEPT !.started = TRUE, !.status = "READY"]
               \/ lease'[l] = [lease[l] EXCEPT !.status = "ACTIVE"]
      BY <1>0, <1>3, <2>3 DEF LeaseRow
    <2> QED  BY <1>2, <1>3, <2>1, <2>2, <2>3 DEF LeaseStep
  <1> QED  BY <1>0, <1>1, <1>4 DEF OpenOn, Open, LeaseExists, ActiveStatus

\* A node becomes busy by a rent, by lease_ready of its lease, or by a save of
\* what the worker thread has seen.
LEMMA BusyStep ==
    ASSUME "force_lease" \in HttpOps => NoHolds, TypeInv, SettleInv, BusyInv, Next
    PROVE  BusyIsActive' /\ AssignedIsOpen'
  <1> SUFFICES ASSUME NEW d \in Nodes, node'[d].status \in Busy
               PROVE  /\ ActiveOn(d)' # {}
                      /\ node'[d].status = "ASSIGNED" => OpenOn(d)' # {}
    BY DEF BusyIsActive, AssignedIsOpen, Busy
  <1> DEFINE Goal == /\ ActiveOn(d)' # {}
                     /\ node'[d].status = "ASSIGNED" => OpenOn(d)' # {}
  <1>0. lease \in [Leases -> LeaseRow]
    BY DEF TypeInv, TypeOK
  <1>1. ASSUME node'[d].status \in {node[d].status, "ABSENT", "FREE", "OFFLINE", "RELEASING"}
        PROVE  Goal
    <2>1. node[d].status \in Busy /\ node'[d].status = node[d].status
      BY <1>1 DEF Busy
    <2>2. PICK l \in ActiveOn(d) : TRUE
      BY <2>1 DEF BusyInv, BusyIsActive
    <2>3. l \in ActiveOn(d)'
      BY <2>2, ActiveKept
    <2>4. ASSUME node'[d].status = "ASSIGNED" PROVE OpenOn(d)' # {}
      <3>1. PICK m \in OpenOn(d) : TRUE
        BY <2>1, <2>4 DEF BusyInv, AssignedIsOpen
      <3> QED  BY <3>1, OpenKept
    <2> QED  BY <2>3, <2>4
  <1>2. ASSUME ws.pc # "idle", ws.dev = d, node'[d].status = ws.status, UNCHANGED lease
        PROVE  Goal
    BY <1>2 DEF BusyInv, WsSeesBusy, ActiveOn, OpenOn, Open, LeaseExists
  <1>3. ASSUME NEW r \in Requests, req[r].pc = "state_save", node'[d].status = req[r].status
        PROVE  FALSE
    BY <1>3 DEF BusyInv, SavesIdle
  <1>4. ASSUME NEW c \in Conns, NEW l \in Leases, MarkLeaseReady(c, l), lease[l].dev = d,
               node'[d].status = "IN_USE"
        PROVE  Goal
    <2>1. lease'[l].dev = d /\ lease'[l].status = "READY"
      BY <1>0, <1>4 DEF MarkLeaseReady, LeaseRow
    <2>2. l \in ActiveOn(d)'
      BY <2>1 DEF ActiveOn, ActiveStatus
    <2> QED  BY <1>4, <2>2
  <1>5. ASSUME NEW r \in Requests, NEW L \in SUBSET Leases, NEW dev \in [L -> Nodes],
               RentAllocate(r, L, dev), NEW l \in L, dev[l] = d
        PROVE  Goal
    <2>1. req[r].user \in Users
      BY <1>5 DEF TypeInv, ReqRefs, ReqOK, RentAllocate
    <2>2. lease'[l] = NewLease(req[r].user, d)
      BY <1>5 DEF RentAllocate
    <2>3. lease'[l].dev = d /\ lease'[l].status = "ASSIGNED" /\ ~lease'[l].ended
      BY <2>1, <2>2, NewLeaseRow
    <2>4. l \in ActiveOn(d)' /\ l \in OpenOn(d)'
      BY <2>3 DEF ActiveOn, ActiveStatus, OpenOn, Open, LeaseExists
    <2> QED  BY <2>4
  <1>6. Goal
    <2> HIDE DEF Goal
    <2> QED  BY <1>1, <1>2, <1>3, <1>4, <1>5, NodeStatuses
  <1> QED  BY <1>6

\* BusyInv is inductive relative to TypeInv and SettleInv.
LEMMA BusyNext ==
    ASSUME "delete" \notin HttpOps, "force_lease" \in HttpOps => NoHolds
    PROVE  TypeInv /\ SettleInv /\ BusyInv /\ [Next /\ WsUndisturbed]_vars => BusyInv'
  <1> SUFFICES ASSUME TypeInv, SettleInv, BusyInv, [Next /\ WsUndisturbed]_vars PROVE BusyInv'
    OBVIOUS
  <1>1. CASE Next /\ WsUndisturbed
    <2>0. /\ req \in [Requests -> Request] /\ lease \in [Leases -> LeaseRow]
          /\ ws \in WsCall /\ WsFrom
          /\ \A r \in Requests : RequestFrom(r)
          /\ \A l \in Leases : LeaseStep(l)
      BY <1>1, RequestOrigin, WsOrigin, LeaseRows DEF TypeInv, TypeOK
    <2>1. BusyIsActive' /\ AssignedIsOpen'
      BY <1>1, BusyStep
    <2>2. WsSeesBusy'
      <3> SUFFICES ASSUME ws'.pc # "idle"
                   PROVE  /\ ws'.status \in Busy => ActiveOn(ws.dev)' # {}
                          /\ ws'.status = "ASSIGNED" => OpenOn(ws.dev)' # {}
        BY DEF WsSeesBusy
      <3>1. CASE UNCHANGED lease /\ \E d \in Nodes : /\ ws'.dev = d
                                                     /\ ws'.status \in {node[d].status, "OFFLINE"}
        BY <3>1 DEF BusyInv, BusyIsActive, AssignedIsOpen, Busy, ActiveOn, OpenOn, Open,
           LeaseExists
      <3>2. CASE /\ UNCHANGED lease /\ ws.pc # "idle" /\ ws'.dev = ws.dev
                 /\ ws'.status \in {ws.status, "FREE"}
        BY <3>2 DEF BusyInv, WsSeesBusy, Busy, ActiveOn, OpenOn, Open, LeaseExists
      <3>3. ws' # ws
        BY <1>1 DEF WsUndisturbed
      <3> QED  BY <2>0, <3>1, <3>2, <3>3 DEF WsFrom
    <2>3. NoDeletion'
      BY <2>0 DEF BusyInv, NoDeletion, RequestFrom, Deleting, HoldsStatus
    <2>4. SavesIdle'
      BY <2>0 DEF BusyInv, SavesIdle, RequestFrom, Deleting, HoldsStatus, Busy, Held
    <2>5. ForceCopy'
      <3> SUFFICES ASSUME NEW r \in Requests, req'[r].pc = "force_end", NEW l \in req'[r].leases
                   PROVE  lease'[l].status = "GONE"
                             \/ (LeaseExists(l)' /\ lease'[l].dev = req'[r].dev)
        BY DEF ForceCopy
      <3>1. CASE req'[r] = req[r]
        <4>1. l \in Leases
          BY <2>0, <3>1 DEF Request
        <4>2. lease[l].status = "GONE" \/ (LeaseExists(l) /\ lease[l].dev = req[r].dev)
          BY <3>1 DEF BusyInv, ForceCopy
        <4>3. /\ lease[l].status # "NONE" => lease'[l].status # "NONE"
              /\ lease[l].status = "GONE" => lease'[l].status = "GONE"
              /\ lease'[l].status \notin {"NONE", "GONE"} =>
                    \/ LeaseExists(l) /\ lease'[l].dev = lease[l].dev
                    \/ lease[l].status = "NONE"
          BY <2>0, <4>1, LeaseStepFacts
        <4> QED  BY <3>1, <4>2, <4>3 DEF LeaseExists
      <3>2. CASE /\ UNCHANGED lease
                 /\ \E m \in Leases : /\ LeaseExists(m)
                                      /\ req'[r].leases = {m}
                                      /\ req'[r].dev = lease[m].dev
        BY <3>2 DEF LeaseExists
      <3> QED  BY <2>0, <3>1, <3>2 DEF RequestFrom, Deleting, HoldsStatus
    <2>6. Unheld'
      <3> SUFFICES ASSUME NoHolds
                   PROVE  /\ \A d \in Nodes : node'[d].status \notin Held
                          /\ ws'.pc # "idle" => ws'.status \notin Held
                          /\ \A r \in Requests : req'[r].pc \in HoldsStatus =>
                                req'[r].status \notin Held
        BY DEF Unheld, NoHolds
      <3>0. /\ \A d \in Nodes : node[d].status \notin Held
            /\ ws.pc # "idle" => ws.status \notin Held
            /\ \A r \in Requests : req[r].pc \in HoldsStatus => req[r].status \notin Held
        BY DEF BusyInv, Unheld
      <3>1. ASSUME NEW d \in Nodes PROVE node'[d].status \notin Held
        <4>1. \A r \in Requests : req[r].pc = "state_save" => req[r].status \notin Held
          BY <3>0 DEF HoldsStatus
        <4>2. \/ node'[d].status \in {node[d].status, "ABSENT", "FREE", "OFFLINE", "RELEASING",
                                      "IN_USE", "ASSIGNED"}
              \/ ws.pc # "idle" /\ node'[d].status = ws.status
              \/ \E r \in Requests : req[r].pc = "state_save" /\ node'[d].status = req[r].status
          BY <1>1, NodeStatuses
        <4> QED  BY <3>0, <4>1, <4>2 DEF Held
      <3>2. ws'.pc # "idle" => ws'.status \notin Held
        BY <2>0, <3>0 DEF WsFrom, Held
      <3>3. ASSUME NEW r \in Requests, req'[r].pc \in HoldsStatus PROVE req'[r].status \notin Held
        <4>1. CASE \E l \in Leases : /\ LeaseExists(l)
                                     /\ req'[r].status = node[lease[l].dev].status
          BY <3>0, <4>1 DEF TypeInv, LeaseRefs
        <4>2. CASE req'[r] = req[r]
          BY <3>0, <3>3, <4>2
        <4>3. CASE req'[r].status \in {"FREE", "OFFLINE"}
          BY <4>3 DEF Held
        <4> QED  BY <2>0, <3>3, <4>1, <4>2, <4>3 DEF RequestFrom, Deleting, HoldsStatus
      <3> QED  BY <3>1, <3>2, <3>3
    <2> QED  BY <2>1, <2>2, <2>3, <2>4, <2>5, <2>6 DEF BusyInv
  <1>2. CASE UNCHANGED vars
    BY <1>2 DEF vars, BusyInv, BusyIsActive, AssignedIsOpen, WsSeesBusy, NoDeletion,
       SavesIdle, ForceCopy, Unheld, ActiveOn, OpenOn, Open, LeaseExists
  <1> QED  BY <1>1, <1>2

\* If the worker thread's functions are not interrupted by other writers, no
\* node is deleted, and AdminForceReleaseLeaseView never works on a copy that
\* shows a held node, then an ASSIGNED node has a running lease, and an IN_USE
\* node a running lease or one that was revived after its end.
THEOREM CapacityKept ==
    ASSUME "delete" \notin HttpOps,
           "force_lease" \in HttpOps =>
               "set_disabled" \notin HttpOps /\ "set_maintenance" \notin HttpOps
    PROVE  SerialSpec => []BusyNodeHasLease
  <1>1. Init => BusyInv
    BY DEF Init, BusyInv, BusyIsActive, AssignedIsOpen, WsSeesBusy, NoDeletion, SavesIdle,
       ForceCopy, Unheld, NoNode, NoCall, NoReq, Busy, Deleting, HoldsStatus, Held
  <1>2. TypeInv /\ SettleInv /\ BusyInv /\ [Next /\ WsUndisturbed]_vars => BusyInv'
    BY BusyNext DEF NoHolds
  <1>3. [Next /\ WsUndisturbed]_vars => [Next]_vars
    OBVIOUS
  <1>4. SerialSpec => Spec
    BY <1>3, PTL DEF SerialSpec, Spec
  <1>5. BusyInv => BusyNodeHasLease
    BY DEF BusyInv, BusyIsActive, AssignedIsOpen, BusyNodeHasLease, Revived, ActiveOn,
       ActiveStatus, OpenOn, Open, LeaseExists, Busy
  <1> QED  BY <1>1, <1>2, <1>4, <1>5, SettleAlways, PTL DEF SerialSpec

=============================================================================
