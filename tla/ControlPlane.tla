----------------------------- MODULE ControlPlane -----------------------------
(***************************************************************************)
(* The rental control plane of backend/control_plane: the rows of Node,    *)
(* Lease, BillingRecord and IdempotencyKey, and everything that writes     *)
(* them.  Three kinds of writers run at the same time:                     *)
(*                                                                         *)
(*   - HTTP views (views.py), one thread per request.  Each request is a   *)
(*     slot of Requests whose record req[r] holds what the view has read   *)
(*     and not yet written back.                                           *)
(*   - the WebSocket consumer (consumers.py).  All database_sync_to_async  *)
(*     functions share one worker thread, so they exclude one another but  *)
(*     not the HTTP threads; ws is the function that thread is inside of.  *)
(*   - the heartbeat checker, a process of its own, whose list of stale    *)
(*     nodes is the variable stale.                                        *)
(*                                                                         *)
(* A transaction.atomic() block is one step: SQLite either serialises it   *)
(* or aborts it.  Outside such a block every ORM statement commits alone,  *)
(* so a value read in one step may be saved in a later one.                *)
(***************************************************************************)
EXTENDS Naturals, FiniteSets

CONSTANTS
    Nodes,     \* device ids
    Leases,    \* lease ids (uuid4): none is used twice
    Users,     \* renting users
    Keys,      \* client_request_id values
    Conns,     \* connection ids of device sockets (uuid4)
    Requests,  \* HTTP requests that may be in flight at once
    HttpOps,   \* the endpoints that clients call
    MaxCount,  \* largest "count" of a rent request
    None       \* Python's None

AllHttpOps == {"rent", "release", "force_lease", "force_node",
               "set_disabled", "set_maintenance", "set_free",
               "delete", "device_token"}

ASSUME ConstantsAssumption ==
    /\ None \notin Nodes \cup Leases \cup Users \cup Keys \cup Conns
    /\ HttpOps \subseteq AllHttpOps
    /\ MaxCount \in Nat \ {0}

VARIABLES
    node,    \* Node rows
    lease,   \* Lease rows, each with its BillingRecords
    idem,    \* IdempotencyKey rows
    sock,    \* device sockets: the consumers' self.meta and their progress
    ws,      \* the sync function the WebSocket worker thread is inside of
    stream,  \* per user: the lease a remote-control request is activating
    req,     \* HTTP requests in flight
    stale    \* nodes the heartbeat checker has listed and not yet marked

vars == <<node, lease, idem, sock, ws, stream, req, stale>>

-----------------------------------------------------------------------------
(* Rows.  "ABSENT", "NONE" and "GONE" stand for rows that are not there:   *)
(* NONE is an id not handed out yet, GONE a deleted lease.                 *)

NodeStatus  == {"OFFLINE", "FREE", "ASSIGNED", "IN_USE", "RELEASING",
                "DISABLED", "MAINTENANCE"}
LeaseStatus == {"ASSIGNED", "READY", "ACTIVE", "ENDED"}

\* Statuses that every status writer but mark_offline leaves alone.
Held == {"DISABLED", "MAINTENANCE"}

\* The status__in filters of the lease queries (no code path of the back end
\* ever writes PENDING or RELEASING to a lease).
ActiveStatus == {"ASSIGNED", "READY", "ACTIVE"}

NodeRow == [status : NodeStatus \cup {"ABSENT"},
            conn   : Conns \cup {None},        \* connection_id
            seen   : {"fresh", "stale"}]       \* last_seen against the timeout

LeaseRow == [status  : LeaseStatus \cup {"NONE", "GONE"},
             user    : Users \cup {None},
             dev     : Nodes \cup {None},
             started : BOOLEAN,                \* started_at is set
             ended   : BOOLEAN,                \* ended_at is set
             billed  : {"no", "zero", "units"},\* billed_units: null, 0, > 0
             bills   : Nat,                    \* BillingRecord rows
             told    : BOOLEAN]                \* lease_assigned was sent

IdemRow == [scope : {"rent", "release"}, user : Users, key : Keys,
            leases : SUBSET Leases]

Sock == [st  : {"closed", "accepted", "open", "greeted", "closing"},
         dev : Nodes \cup {None}]

WsCall == [pc     : {"idle", "connected_check", "connected_save",
                     "hello_check", "hello_save"},
           dev    : Nodes \cup {None},
           conn   : Conns \cup {None},
           status : NodeStatus \cup {None}]

RequestPc == {"idle", "rent_allocate", "rent_notify", "rent_key",
              "release_end", "release_notify", "release_key",
              "force_end", "force_notify", "state_save",
              "delete_leases", "delete_node"}

Request == [pc      : RequestPc,
            user    : Users \cup {None},
            key     : Keys \cup {None},
            count   : 0 .. MaxCount,
            leases  : SUBSET Leases,
            dev     : Nodes \cup {None},
            status  : NodeStatus \cup {None},  \* node.status as read or to save
            started : SUBSET Leases,           \* leases with started_at as read
            ended   : BOOLEAN]                 \* lease.ended_at as read

NoNode  == [status |-> "ABSENT", conn |-> None, seen |-> "fresh"]
NewNode == [status |-> "OFFLINE", conn |-> None, seen |-> "fresh"]

Unrented(st) == [status |-> st, user |-> None, dev |-> None,
                 started |-> FALSE, ended |-> FALSE,
                 billed |-> "no", bills |-> 0, told |-> FALSE]

\* Mutant: the status is left at the model's default.
NewLeasePending(u, d) == [Unrented("PENDING") EXCEPT !.user = u, !.dev = d]

NewLease(u, d) == [Unrented("ASSIGNED") EXCEPT !.user = u, !.dev = d]

NoSock == [st |-> "closed", dev |-> None]
NoCall == [pc |-> "idle", dev |-> None, conn |-> None, status |-> None]
NoReq  == [pc |-> "idle", user |-> None, key |-> None, count |-> 0,
           leases |-> {}, dev |-> None, status |-> None,
           started |-> {}, ended |-> FALSE]

TypeOK ==
    /\ node \in [Nodes -> NodeRow]
    /\ lease \in [Leases -> LeaseRow]
    /\ idem \subseteq IdemRow
    /\ sock \in [Conns -> Sock]
    /\ ws \in WsCall
    /\ stream \in [Users -> Leases \cup {None}]
    /\ req \in [Requests -> Request]
    /\ stale \subseteq Nodes

Init ==
    /\ node = [d \in Nodes |-> NoNode]
    /\ lease = [l \in Leases |-> Unrented("NONE")]
    /\ idem = {}
    /\ sock = [c \in Conns |-> NoSock]
    /\ ws = NoCall
    /\ stream = [u \in Users |-> None]
    /\ req = [r \in Requests |-> NoReq]
    /\ stale = {}

-----------------------------------------------------------------------------
(* Queries and the shared services of services/lease_lifecycle.py          *)

NodeExists(d)  == node[d].status # "ABSENT"
LeaseExists(l) == lease[l].status \notin {"NONE", "GONE"}
ActiveOn(d)    == {l \in Leases : lease[l].dev = d /\ lease[l].status \in ActiveStatus}

\* Mutant: the query asks for a connection instead of the status.
ConnectedNodes == {d \in Nodes : node[d].conn # None}

FreeNodes      == {d \in Nodes : node[d].status = "FREE"}

Started        == {l \in Leases : lease[l].started}

\* The sockets in the channel-layer group node_<d>.
GroupOf(d) == {c \in Conns : sock[c].dev = d /\ sock[c].st \in {"accepted", "open", "greeted"}}

\* Mutants of end_lease: the BillingRecord, the started_at test or the early
\* return is forgotten.
SettleWithoutRecord(row, started) ==
    [row EXCEPT !.status = "ENDED", !.ended = TRUE,
                !.billed = IF started THEN "units" ELSE "zero"]
SettleAlwaysCharges(row, started) ==
    [row EXCEPT !.status = "ENDED", !.ended = TRUE, !.billed = "units",
                !.bills = @ + 1]

\* end_lease: the saved fields and the new BillingRecord.  compute_billing gives
\* at least one unit if started_at is set and not after ended_at, else none.
Settle(row, started) ==
    [row EXCEPT !.status = "ENDED", !.ended = TRUE,
                !.billed = IF started THEN "units" ELSE "zero",
                !.bills = @ + 1]

\* Mutant: no early return for a lease that has ended.
EndLeaseAgain(row, started) == Settle(row, started)

\* end_lease on a lease object that was read in the same transaction.
EndLease(row, started) == IF row.ended THEN row ELSE Settle(row, started)

\* The leases of L are ended; those in S had started at the time ended_at.
EndLeases(L, S) ==
    [l \in Leases |-> IF l \in L THEN EndLease(lease[l], l \in S) ELSE lease[l]]

\* Mutant: the node goes OFFLINE and its leases run on.
MarkOfflineOnly(d) ==
    /\ node' = IF NodeExists(d) THEN [node EXCEPT ![d] = NewNode] ELSE node
    /\ UNCHANGED lease

\* mark_node_offline_and_end_leases: whatever the status was, held ones too.
MarkOffline(d) ==
    IF NodeExists(d)
    THEN /\ node' = [node EXCEPT ![d] = NewNode]
         /\ lease' = EndLeases(ActiveOn(d), Started)
    ELSE UNCHANGED <<node, lease>>

-----------------------------------------------------------------------------
(* Device sockets: connect, node_hello, node_heartbeat, disconnect         *)

\* connect(): the device token is checked, the socket is accepted and joins
\* the group of its device.  Nothing looks for an older socket of the device.
Connect(c, d) ==
    /\ sock[c].st = "closed"
    /\ \A e \in Nodes : node[e].conn # c
    /\ sock' = [sock EXCEPT ![c] = [st |-> "accepted", dev |-> d]]
    /\ UNCHANGED <<node, lease, idem, ws, stream, req, stale>>

\* _node_connected and _update_node_hello: get_or_create, and the status the
\* function now holds in memory.
WsRead(c, from, check, save, checked) ==
    LET d == sock[c].dev
        row == IF NodeExists(d) THEN node[d] ELSE NewNode
    IN  /\ sock[c].st = from
        /\ ws.pc = "idle"
        /\ node' = [node EXCEPT ![d] = row]
        /\ ws' = [pc |-> IF row.status \in checked THEN check ELSE save,
                  dev |-> d, conn |-> c, status |-> row.status]
        /\ UNCHANGED <<lease, idem, sock, stream, req, stale>>

NodeConnectedRead(c) ==
    WsRead(c, "accepted", "connected_check", "connected_save", NodeStatus \ Held)

NodeHelloRead(c) ==
    WsRead(c, "open", "hello_check", "hello_save", {"OFFLINE", "RELEASING"})

\* Mutant: FREE without asking for active leases.
WsCheckNothing(from, to) ==
    /\ ws.pc = from
    /\ ws' = [ws EXCEPT !.pc = to, !.status = "FREE"]
    /\ UNCHANGED <<node, lease, idem, sock, stream, req, stale>>

\* The exists() query on active leases: without one the node will be FREE.
WsCheck(from, to) ==
    /\ ws.pc = from
    /\ ws' = [ws EXCEPT !.pc = to,
                        !.status = IF ActiveOn(ws.dev) = {} THEN "FREE" ELSE @]
    /\ UNCHANGED <<node, lease, idem, sock, stream, req, stale>>

NodeConnectedCheck == WsCheck("connected_check", "connected_save")
NodeHelloCheck     == WsCheck("hello_check", "hello_save")

\* node.save(update_fields=[...]): the status in memory overwrites the row.
\* If the row was deleted meanwhile the save raises and the consumer dies
\* without running disconnect().
WsSave(from, to, conn) ==
    LET d == ws.dev
    IN  /\ ws.pc = from
        /\ IF NodeExists(d)
           THEN /\ node' = [node EXCEPT ![d] = [status |-> ws.status, conn |-> conn,
                                                seen |-> "fresh"]]
                /\ sock' = [sock EXCEPT ![ws.conn].st = to]
           ELSE /\ sock' = [sock EXCEPT ![ws.conn] = NoSock]
                /\ UNCHANGED node
        /\ ws' = NoCall
        /\ UNCHANGED <<lease, idem, stream, req, stale>>

NodeConnectedSave == WsSave("connected_save", "open", ws.conn)
NodeHelloSave     == WsSave("hello_save", "greeted", node[ws.dev].conn)

\* _node_touch_last_seen, for node_heartbeat and a node's updateDeviceInfo.
Heartbeat(c) ==
    LET d == sock[c].dev
    IN  /\ sock[c].st = "greeted"
        /\ ws.pc = "idle"
        /\ NodeExists(d)
        /\ node' = [node EXCEPT ![d].seen = "fresh"]
        /\ UNCHANGED <<lease, idem, sock, ws, stream, req, stale>>

\* disconnect(), first half: the consumer leaves the registry and the group.
SocketLost(c) ==
    /\ sock[c].st \in {"open", "greeted"}
    /\ ws.conn # c
    /\ sock' = [sock EXCEPT ![c].st = "closing"]
    /\ UNCHANGED <<node, lease, idem, ws, stream, req, stale>>

\* disconnect(), second half: keyed by the device, not by the connection.
NodeDisconnected(c) ==
    /\ sock[c].st = "closing"
    /\ ws.pc = "idle"
    /\ MarkOffline(sock[c].dev)
    /\ sock' = [sock EXCEPT ![c] = NoSock]
    /\ UNCHANGED <<idem, ws, stream, req, stale>>

-----------------------------------------------------------------------------
(* lease_ready from the node, requestRemoteControlLease from the user      *)

\* Mutant: get() without status__in, so a lease that has ended is ready again.
MarkLeaseReadyAnyStatus(c, l) ==
    /\ sock[c].st = "greeted"
    /\ ws.pc = "idle"
    /\ lease[l].told
    /\ lease[l].dev = sock[c].dev
    /\ LeaseExists(l)
    /\ lease' = [lease EXCEPT ![l].started = TRUE, ![l].status = "READY"]
    /\ UNCHANGED <<node, idem, sock, ws, stream, req, stale>>

\* _mark_lease_ready, one transaction.
MarkLeaseReady(c, l) ==
    LET d == sock[c].dev
    IN  /\ sock[c].st = "greeted"
        /\ ws.pc = "idle"
        /\ lease[l].told
        /\ lease[l].dev = d
        /\ lease[l].status \in ActiveStatus
        /\ lease' = [lease EXCEPT ![l].started = TRUE, ![l].status = "READY"]
        /\ node' = IF node[d].status \in Held \cup {"ABSENT"}
                   THEN node
                   ELSE [node EXCEPT ![d].status = "IN_USE", ![d].seen = "fresh"]
        /\ UNCHANGED <<idem, sock, ws, stream, req, stale>>

\* _authorize_lease_stream found the user's READY lease on a node with a
\* connection_id; the handler will activate it after the next await.
AuthorizeLeaseStream(u, l) ==
    /\ ws.pc = "idle"
    /\ stream[u] = None
    /\ lease[l].user = u
    /\ lease[l].status = "READY"
    /\ node[lease[l].dev].conn # None
    /\ stream' = [stream EXCEPT ![u] = l]
    /\ UNCHANGED <<node, lease, idem, sock, ws, req, stale>>

\* _set_lease_active: the lease is fetched again, its status is not looked at.
SetLeaseActive(u) ==
    LET l == stream[u]
    IN  /\ ws.pc = "idle"
        /\ l # None
        /\ lease' = IF LeaseExists(l)
                    THEN [lease EXCEPT ![l].status = "ACTIVE"]
                    ELSE lease
        /\ stream' = [stream EXCEPT ![u] = None]
        /\ UNCHANGED <<node, idem, sock, ws, req, stale>>

-----------------------------------------------------------------------------
(* POST /lease/rent                                                        *)

IdemHit(scope, u, k) == \E i \in idem : i.scope = scope /\ i.user = u /\ i.key = k

\* The view up to the transaction.  A key that is already stored answers the
\* request from the stored response and changes nothing.
RentLookup(r, u, k, n) ==
    /\ "rent" \in HttpOps
    /\ req[r].pc = "idle"
    /\ ~IdemHit("rent", u, k)
    /\ req' = [req EXCEPT ![r] = [NoReq EXCEPT !.pc = "rent_allocate", !.user = u,
                                               !.key = k, !.count = n]]
    /\ UNCHANGED <<node, lease, idem, sock, ws, stream, stale>>

\* The transaction: one new lease for each of `count` FREE nodes, L -> dev[L].
RentAllocate(r, L, dev) ==
    /\ req[r].pc = "rent_allocate"
    /\ Cardinality(L) = req[r].count
    /\ \A l \in L : lease[l].status = "NONE"
    /\ \A l \in L : dev[l] \in FreeNodes
    /\ \A l, m \in L : dev[l] = dev[m] => l = m
    /\ lease' = [l \in Leases |-> IF l \in L THEN NewLease(req[r].user, dev[l])
                                             ELSE lease[l]]
    /\ node' = [d \in Nodes |-> IF \E l \in L : dev[l] = d
                                THEN [node[d] EXCEPT !.status = "ASSIGNED"]
                                ELSE node[d]]
    /\ req' = [req EXCEPT ![r].pc = "rent_notify", ![r].leases = L]
    /\ UNCHANGED <<idem, sock, ws, stream, stale>>

RentNoCapacity(r) ==
    /\ req[r].pc = "rent_allocate"
    /\ Cardinality(FreeNodes) < req[r].count
    /\ req' = [req EXCEPT ![r] = NoReq]
    /\ UNCHANGED <<node, lease, idem, sock, ws, stream, stale>>

\* After the commit: lease_assigned to the group of each node.  It reaches the
\* node only through a socket that is in the group now, and is not sent again.
RentNotify(r) ==
    /\ req[r].pc = "rent_notify"
    /\ lease' = [l \in Leases |-> IF /\ l \in req[r].leases
                                     /\ LeaseExists(l)
                                     /\ GroupOf(lease[l].dev) # {}
                                  THEN [lease[l] EXCEPT !.told = TRUE]
                                  ELSE lease[l]]
    /\ req' = IF req[r].key = None THEN [req EXCEPT ![r] = NoReq]
                                   ELSE [req EXCEPT ![r].pc = "rent_key"]
    /\ UNCHANGED <<node, idem, sock, ws, stream, stale>>

\* IdempotencyKey.objects.create, last of all; the unique constraint turns a
\* second row into an IntegrityError.
StoreKey(r, from, scope) ==
    /\ req[r].pc = from
    /\ idem' = IF IdemHit(scope, req[r].user, req[r].key)
               THEN idem
               ELSE idem \cup {[scope |-> scope, user |-> req[r].user,
                                key |-> req[r].key, leases |-> req[r].leases]}
    /\ req' = [req EXCEPT ![r] = NoReq]
    /\ UNCHANGED <<node, lease, sock, ws, stream, stale>>

RentStoreKey(r) == StoreKey(r, "rent_key", "rent")

-----------------------------------------------------------------------------
(* POST /lease/release                                                     *)

\* The ids in the body are not checked yet: some may be another user's, or of
\* leases deleted since.  ended_at is taken here, so a lease_ready from now on
\* gives a started_at after it.
ReleaseLookup(r, u, k, L) ==
    /\ "release" \in HttpOps
    /\ req[r].pc = "idle"
    /\ L # {}
    /\ \A l \in L : lease[l].status # "NONE"
    /\ ~IdemHit("release", u, k)
    /\ req' = [req EXCEPT ![r] = [NoReq EXCEPT !.pc = "release_end", !.user = u,
                                               !.key = k, !.leases = L,
                                               !.started = L \cap Started]]
    /\ UNCHANGED <<node, lease, idem, sock, ws, stream, stale>>

\* Mutant: the node keeps its status.
ReleaseLoopKeepsNode(L, S) == lease' = EndLeases(L, S) /\ UNCHANGED node

\* The loop of the transaction over the leases in L: each lease is ended, and
\* its node becomes RELEASING whether or not the lease had ended before.
ReleaseLoop(L, S) ==
    /\ lease' = EndLeases(L, S)
    /\ node' = [d \in Nodes |-> IF /\ \E l \in L : lease[l].dev = d
                                   /\ node[d].status \notin Held
                                THEN [node[d] EXCEPT !.status = "RELEASING"]
                                ELSE node[d]]

\* Mutant: get(lease_id=...) without the user.
FoundAnybodys(r) == {l \in req[r].leases : LeaseExists(l)}

\* Lease.objects.get(lease_id=..., user=user), for each id of the body.
Found(r) == {l \in req[r].leases : LeaseExists(l) /\ lease[l].user = req[r].user}

ReleaseEnd(r) ==
    /\ req[r].pc = "release_end"
    /\ Found(r) = req[r].leases
    /\ ReleaseLoop(req[r].leases, req[r].started)
    /\ req' = [req EXCEPT ![r].pc = "release_notify"]
    /\ UNCHANGED <<idem, sock, ws, stream, stale>>

\* A lease that is not found: `return` leaves the transaction normally, so the
\* leases before it in the list stay ended; no node and no user is notified.
ReleaseNotFound(r, done) ==
    /\ req[r].pc = "release_end"
    /\ Found(r) # req[r].leases
    /\ done \subseteq Found(r)
    /\ ReleaseLoop(done, req[r].started)
    /\ req' = [req EXCEPT ![r] = NoReq]
    /\ UNCHANGED <<idem, sock, ws, stream, stale>>

\* lease_release to each node, lease_update to the user.
ReleaseNotify(r) ==
    /\ req[r].pc = "release_notify"
    /\ req' = IF req[r].key = None THEN [req EXCEPT ![r] = NoReq]
                                   ELSE [req EXCEPT ![r].pc = "release_key"]
    /\ UNCHANGED <<node, lease, idem, sock, ws, stream, stale>>

ReleaseStoreKey(r) == StoreKey(r, "release_key", "release")

-----------------------------------------------------------------------------
(* Administration                                                          *)

\* AdminForceReleaseLeaseView: the lease and its node are read before the
\* transaction begins ...
ForceLeaseRead(r, l) ==
    /\ "force_lease" \in HttpOps
    /\ req[r].pc = "idle"
    /\ LeaseExists(l)
    /\ req' = [req EXCEPT ![r] =
                 [NoReq EXCEPT !.pc = "force_end", !.leases = {l}, !.dev = lease[l].dev,
                               !.status = node[lease[l].dev].status,
                               !.started = {l} \cap Started, !.ended = lease[l].ended]]
    /\ UNCHANGED <<node, lease, idem, sock, ws, stream, stale>>

\* ... and end_lease works on that copy.
ForceLeaseEnd(r, l) ==
    LET d == req[r].dev
    IN  /\ req[r].pc = "force_end"
        /\ l \in req[r].leases
        /\ req[r].ended \/ LeaseExists(l)
        /\ req[r].status \in Held \/ NodeExists(d)
        /\ lease' = IF req[r].ended
                    THEN lease
                    ELSE [lease EXCEPT ![l] = Settle(@, l \in req[r].started)]
        /\ node' = IF req[r].status \in Held
                   THEN node
                   ELSE [node EXCEPT ![d].status = "RELEASING"]
        /\ req' = [req EXCEPT ![r].pc = "force_notify"]
        /\ UNCHANGED <<idem, sock, ws, stream, stale>>

\* A row to save was deleted in between: the save raises and rolls back.
ForceLeaseFail(r) ==
    /\ req[r].pc = "force_end"
    /\ \/ ~req[r].ended /\ \E l \in req[r].leases : ~LeaseExists(l)
       \/ req[r].status \notin Held /\ ~NodeExists(req[r].dev)
    /\ req' = [req EXCEPT ![r] = NoReq]
    /\ UNCHANGED <<node, lease, idem, sock, ws, stream, stale>>

\* AdminForceReleaseNodeView, one transaction.
ForceNode(r, d) ==
    /\ "force_node" \in HttpOps
    /\ req[r].pc = "idle"
    /\ NodeExists(d)
    /\ lease' = EndLeases(ActiveOn(d), Started)
    /\ node' = IF node[d].status \in Held
               THEN node
               ELSE [node EXCEPT ![d].status =
                        IF node[d].conn # None THEN "FREE" ELSE "OFFLINE"]
    /\ req' = [req EXCEPT ![r] = [NoReq EXCEPT !.pc = "force_notify",
                                               !.leases = ActiveOn(d)]]
    /\ UNCHANGED <<idem, sock, ws, stream, stale>>

\* lease_release to the nodes after either kind of forced release.
ForceNotify(r) ==
    /\ req[r].pc = "force_notify"
    /\ req' = [req EXCEPT ![r] = NoReq]
    /\ UNCHANGED <<node, lease, idem, sock, ws, stream, stale>>

\* AdminSetNodeStateView: the new status is computed from the row read here.
StateOf(op) == CASE op = "set_disabled" -> "DISABLED"
                 [] op = "set_maintenance" -> "MAINTENANCE"
                 [] op = "set_free" -> "FREE"

SetStateRead(r, d, op) ==
    /\ op \in HttpOps
    /\ req[r].pc = "idle"
    /\ NodeExists(d)
    /\ req' = [req EXCEPT ![r] =
                 [NoReq EXCEPT !.pc = "state_save", !.dev = d,
                               !.status = IF op = "set_free" /\ node[d].conn = None
                                          THEN "OFFLINE" ELSE StateOf(op)]]
    /\ UNCHANGED <<node, lease, idem, sock, ws, stream, stale>>

SetStateSave(r) ==
    LET d == req[r].dev
    IN  /\ req[r].pc = "state_save"
        /\ node' = IF NodeExists(d)
                   THEN [node EXCEPT ![d].status = req[r].status]
                   ELSE node
        /\ req' = [req EXCEPT ![r] = NoReq]
        /\ UNCHANGED <<lease, idem, sock, ws, stream, stale>>

\* AdminDeleteNodeView: refuse while a lease is active ...
DeleteCheck(r, d) ==
    /\ "delete" \in HttpOps
    /\ req[r].pc = "idle"
    /\ NodeExists(d)
    /\ ActiveOn(d) = {}
    /\ req' = [req EXCEPT ![r] = [NoReq EXCEPT !.pc = "delete_leases", !.dev = d]]
    /\ UNCHANGED <<node, lease, idem, sock, ws, stream, stale>>

\* ... then delete every lease of the node with its billing records ...
DeleteLeases(r) ==
    /\ req[r].pc = "delete_leases"
    /\ lease' = [l \in Leases |->
                   IF LeaseExists(l) /\ lease[l].dev = req[r].dev
                   THEN [Unrented("GONE") EXCEPT !.user = lease[l].user]
                   ELSE lease[l]]
    /\ req' = [req EXCEPT ![r].pc = "delete_node"]
    /\ UNCHANGED <<node, idem, sock, ws, stream, stale>>

\* Mutant: without on_delete=PROTECT.
DeleteNodeUnprotected(r) ==
    /\ req[r].pc = "delete_node"
    /\ node' = [node EXCEPT ![req[r].dev] = NoNode]
    /\ req' = [req EXCEPT ![r] = NoReq]
    /\ UNCHANGED <<lease, idem, sock, ws, stream, stale>>

\* ... then the node, which on_delete=PROTECT refuses if a lease appeared.
DeleteNode(r) ==
    LET d == req[r].dev
    IN  /\ req[r].pc = "delete_node"
        /\ node' = IF \E l \in Leases : LeaseExists(l) /\ lease[l].dev = d
                   THEN node
                   ELSE [node EXCEPT ![d] = NoNode]
        /\ req' = [req EXCEPT ![r] = NoReq]
        /\ UNCHANGED <<lease, idem, sock, ws, stream, stale>>

\* DeviceTokenView: a device that asks for a token is registered.  For a known
\* device only the secret changes.
DeviceToken(d) ==
    /\ "device_token" \in HttpOps
    /\ ~NodeExists(d)
    /\ node' = [node EXCEPT ![d] = NewNode]
    /\ UNCHANGED <<lease, idem, sock, ws, stream, req, stale>>

-----------------------------------------------------------------------------
(* The heartbeat checker, time, and a restart of the server process        *)

\* No heartbeat for longer than the timeout.
HeartbeatOverdue(d) ==
    /\ NodeExists(d)
    /\ node[d].seen = "fresh"
    /\ node' = [node EXCEPT ![d].seen = "stale"]
    /\ UNCHANGED <<lease, idem, sock, ws, stream, req, stale>>

\* Mutant: only idle nodes are looked at.
CheckStaleFreeNodes ==
    /\ stale = {}
    /\ stale' = {d \in Nodes : node[d].seen = "stale" /\ node[d].status = "FREE"}
    /\ stale' # {}
    /\ UNCHANGED <<node, lease, idem, sock, ws, stream, req>>

\* _check_stale_nodes: the query.
CheckStaleNodes ==
    /\ stale = {}
    /\ stale' = {d \in Nodes : /\ NodeExists(d)
                               /\ node[d].seen = "stale"
                               /\ node[d].status # "OFFLINE"}
    /\ stale' # {}
    /\ UNCHANGED <<node, lease, idem, sock, ws, stream, req>>

\* _check_stale_nodes: the loop body, which does not look at last_seen again.
MarkStaleNode(d) ==
    /\ d \in stale
    /\ MarkOffline(d)
    /\ stale' = stale \ {d}
    /\ UNCHANGED <<idem, sock, ws, stream, req>>

\* The ASGI process dies and starts again: sockets and requests in flight are
\* lost, no disconnect() runs, the rows stay as they are.
ServerRestart ==
    /\ sock' = [c \in Conns |-> NoSock]
    /\ ws' = NoCall
    /\ stream' = [u \in Users |-> None]
    /\ req' = [r \in Requests |-> NoReq]
    /\ UNCHANGED <<node, lease, idem, stale>>

-----------------------------------------------------------------------------

\* Steps inside a function of the WebSocket worker thread.
WsStep == \/ NodeConnectedCheck \/ NodeHelloCheck
          \/ NodeConnectedSave \/ NodeHelloSave

SocketStep(c) ==
    \/ \E d \in Nodes : Connect(c, d)
    \/ NodeConnectedRead(c) \/ NodeHelloRead(c) \/ Heartbeat(c)
    \/ SocketLost(c) \/ NodeDisconnected(c)
    \/ \E l \in Leases : MarkLeaseReady(c, l)

StreamStep(u) ==
    \/ \E l \in Leases : AuthorizeLeaseStream(u, l)
    \/ SetLeaseActive(u)

\* A request arrives ...
RequestArrives(r) ==
    \/ \E u \in Users, k \in Keys \cup {None} :
          \/ \E n \in 1 .. MaxCount : RentLookup(r, u, k, n)
          \/ \E L \in SUBSET Leases : ReleaseLookup(r, u, k, L)
    \/ \E l \in Leases : ForceLeaseRead(r, l)
    \/ \E d \in Nodes : \/ ForceNode(r, d)
                        \/ DeleteCheck(r, d)
                        \/ \E op \in {"set_disabled", "set_maintenance", "set_free"} :
                              SetStateRead(r, d, op)

\* ... and its view goes on.
RequestStep(r) ==
    \/ \E L \in SUBSET Leases : \E dev \in [L -> Nodes] : RentAllocate(r, L, dev)
    \/ RentNoCapacity(r) \/ RentNotify(r) \/ RentStoreKey(r)
    \/ ReleaseEnd(r) \/ ReleaseNotify(r) \/ ReleaseStoreKey(r)
    \/ \E done \in SUBSET Leases : ReleaseNotFound(r, done)
    \/ \E l \in Leases : ForceLeaseEnd(r, l)
    \/ ForceLeaseFail(r) \/ ForceNotify(r)
    \/ SetStateSave(r) \/ DeleteLeases(r) \/ DeleteNode(r)

CheckerStep == CheckStaleNodes \/ \E d \in Nodes : MarkStaleNode(d)

Next ==
    \/ WsStep
    \/ \E c \in Conns : SocketStep(c)
    \/ \E u \in Users : StreamStep(u)
    \/ \E r \in Requests : RequestArrives(r) \/ RequestStep(r)
    \/ \E d \in Nodes : DeviceToken(d) \/ HeartbeatOverdue(d)
    \/ CheckerStep
    \/ ServerRestart

Spec == Init /\ [][Next]_vars

\* What the runtime guarantees.  The worker thread and the HTTP threads finish
\* what they began; asyncio and the worker's FIFO queue serve every waiting
\* handler, so a handler that is ready again and again gets the thread (SF).
\* The checker is a daemon loop, and without a socket last_seen grows old.
Fairness ==
    /\ WF_vars(WsStep)
    /\ \A c \in Conns : /\ SF_vars(NodeConnectedRead(c))
                         /\ SF_vars(NodeHelloRead(c))
                         /\ SF_vars(NodeDisconnected(c))
    /\ \A u \in Users : SF_vars(SetLeaseActive(u))
    /\ \A r \in Requests : WF_vars(RequestStep(r))
    /\ \A d \in Nodes : /\ WF_vars(GroupOf(d) = {} /\ HeartbeatOverdue(d))
                         /\ WF_vars(MarkStaleNode(d))
    /\ WF_vars(CheckStaleNodes)

FairSpec == Spec /\ Fairness

\* Environment assumption: no other writer gets between the read and the save
\* of a function of the WebSocket worker thread.
WsUndisturbed == ws.pc = "idle" \/ ws' # ws

SerialSpec == Init /\ [][Next /\ WsUndisturbed]_vars

-----------------------------------------------------------------------------
(* Properties                                                              *)

\* A lease that is still running: created, and end_lease has not stamped it.
Open(l) == LeaseExists(l) /\ ~lease[l].ended

OpenOn(d) == {l \in Leases : lease[l].dev = d /\ Open(l)}

\* Settlement is exact about time: a lease has a BillingRecord if and only if
\* its ended_at is set, and ENDED is never shown without ended_at.  end_lease
\* writes both; stale copies, re-activation and deletions must not part them.
SettledIffBilled ==
    \A l \in Leases : LeaseExists(l) =>
        /\ lease[l].ended <=> lease[l].bills > 0
        /\ lease[l].status = "ENDED" => lease[l].ended

\* Nobody pays for a lease its node never reported ready: billed_units > 0
\* only if started_at is set (end_lease bills 0 without started_at).
ChargedOnlyIfReady ==
    \A l \in Leases : lease[l].billed = "units" => lease[l].started

\* A lease that has ended comes back only by the race in consumers.py:491: its
\* own renter had a remote-control request authorised, for a lease the node had
\* reported ready, and that request now finishes.  No late lease_ready, stale
\* copy, repeated release or later request shows it active again.
RevivedOnlyInFlight ==
    [][\A l \in Leases :
          lease[l].status = "ENDED" /\ lease'[l].status \in ActiveStatus =>
              /\ lease[l].started
              /\ stream[lease[l].user] = l
              /\ stream'[lease[l].user] = None]_vars

\* Lease.device is never dangling, although AdminDeleteNodeView checks, deletes
\* the leases and deletes the node in separate statements.
LeaseHasNode ==
    \A l \in Leases : LeaseExists(l) => NodeExists(lease[l].dev)

\* A node that the pool shows OFFLINE accrues nothing: all its leases ended.
OfflineIsSettled ==
    \A d \in Nodes : node[d].status = "OFFLINE" => OpenOn(d) = {}

\* The scheduler's promise: a node is rented to one lease at a time, and a
\* FREE node to none.
OneOpenLeasePerNode ==
    \A d \in Nodes :
        /\ node[d].status = "FREE" => OpenOn(d) = {}
        /\ \A l, m \in OpenOn(d) : l = m

\* Leases with ended_at set that show an active status again, because
\* _set_lease_active wrote over the release.
Revived(d) == {l \in ActiveOn(d) : lease[l].ended}

\* Capacity is not lost: a node that is ASSIGNED, and so not offered to anyone,
\* has a lease that is still running.  So has one that is IN_USE, except where
\* an activation wrote over a release: then the lease that holds the node shows
\* an active status but end_lease returns early for it.
BusyNodeHasLease ==
    \A d \in Nodes :
        /\ node[d].status = "ASSIGNED" => OpenOn(d) # {}
        /\ node[d].status = "IN_USE" => OpenOn(d) # {} \/ Revived(d) # {}

\* A closed lease stays closed: once ended_at is set the status is ENDED.
EndedStaysEnded ==
    \A l \in Leases : LeaseExists(l) /\ lease[l].ended => lease[l].status = "ENDED"

\* A lease is settled once.
BilledOnce == \A l \in Leases : lease[l].bills <= 1

\* The phase of a lease's life, as LeaseLife.tla names it: ended_at and the
\* billed units give the verdict, started_at the meter, the row the rest.
PhaseOf(row) ==
    IF row.status = "NONE" THEN "none"
    ELSE IF row.status = "GONE" THEN "deleted"
    ELSE IF row.ended THEN IF row.billed = "units" THEN "charged" ELSE "waived"
    ELSE IF row.started THEN "metered" ELSE "open"

Phase == [l \in Leases |-> PhaseOf(lease[l])]

Life == INSTANCE LeaseLife WITH phase <- Phase

\* The back end implements LeaseLife: views, consumer and checker together
\* move a lease only along the edges of its life.  A closed lease is never
\* metered or judged again, even if its status is set to ACTIVE afterwards.
FollowsLife == Life!Spec

\* The leases running on each node, and those the scheduler has handed out.
Tenants == [d \in Nodes |-> OpenOn(d)]

Handed == {l \in Leases : lease[l].status # "NONE"}

Pool == INSTANCE NodePool WITH tenants <- Tenants, handed <- Handed

\* The back end implements NodePool: only RentLeaseView puts a lease on a node,
\* a new lease on a vacant node; no repeated release, late lease_ready, stream
\* activation or stale save makes a lease run again or changes its node.
FollowsPool == Pool!Spec

\* A stored response is replayed verbatim, so it must never show a user the
\* leases of another one, whatever ids a release request names.
KeysAnswerOwnLeases ==
    \A i \in idem : \A l \in i.leases : lease[l].user = i.user

\* The lease of a node that has no socket is settled, or the node comes back:
\* disconnect(), or after a crash the heartbeat checker, sees to it.
DeadNodeIsSettled ==
    \A l \in Leases :
        (Open(l) /\ GroupOf(lease[l].dev) = {}) ~>
            (~Open(l) \/ GroupOf(lease[l].dev) # {})

\* RELEASING is the end of a node's own lease: a release that is repeated
\* after the node was rented again must not touch the new lease's node.
ReleasingIsIdle ==
    \A d \in Nodes : node[d].status = "RELEASING" => OpenOn(d) = {}

=============================================================================
