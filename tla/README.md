# GPU rental service: TLA+ models and proofs

The repository is a GPU-node rental service. A Django back end
(`backend/control_plane`) keeps a pool of nodes, leases them to users, meters
and settles the leases; a Flutter program (`lib/`) is both the user's client
and, in node mode, the agent on a rented machine; the two ends then stream
over WebRTC, signalled through the back end's WebSocket. Everything under
`plugins/`, `nginx-1.24.0/` and `data/` is vendored or generated.

This directory models the part that carries the money (the control plane and
its billing arithmetic), the program on the rented machine (node agent and
streaming host), and the two WebSocket services that everything else relies on.
It holds the models, the TLC configurations and the TLAPS proofs.

## Inventory

| Part | State | Operations | Hard behaviour |
|---|---|---|---|
| control plane (`views.py`, `consumers.py`, `models.py`, `services/lease_lifecycle.py`) | rows of Node, Lease, BillingRecord, IdempotencyKey; `self.meta` of each device socket | rent, release, force-release a lease / a node, set state, delete, device token; connect, `node_hello`, `node_heartbeat`, `lease_ready`, `requestRemoteControlLease`, disconnect | read in one statement and saved in a later one; copies read before a transaction; disconnects keyed by device; notifications after commit |
| heartbeat checker (`check_node_heartbeats.py`) | the list of one scan | scan, mark offline | a separate process; its list is old when used |
| billing (`services/billing.py`) | none | `compute_billing` | rounding at boundaries, month boundaries |
| push and relay (`consumers.py`, `services/ws.py`) | channel-layer groups | pool, device and lease pushes, relay of signalling messages | delivered only to sockets in the group at that moment |
| node agent (`node_agent_service.dart`, `headless_node_agent.dart`) | socket, lease credentials, connectability | lease_assigned, lease_release, reconnect | handlers interleave at awaits, old sockets are not closed |
| streaming host and sessions (`streamed_manager.dart`, `session.dart`, `streaming_manager.dart`) | sessions under a lock, virtual displays, peer connection | start/stop, offer/answer/candidate, ping, close | messages before registration, close against timeouts |
| client WebSocket (`websocket_service.dart`) and lease table (`control_plane_controller.dart`) | connection state, leases shown | reconnect, token refresh, apply responses and pushes | late responses overwrite newer pushes |
| accounts, downloads, user interface, settings | user table, files, widgets | request/response | none that a protocol model would add to |

How they interact: the client calls the HTTP views; a view writes rows in
`transaction.atomic()` and after the commit sends to channel-layer groups
(`node_<device>`, `user_<id>`); a node's socket consumer forwards them. The
node answers with `lease_ready`, which starts the meter. Release, forced
release, disconnect and the heartbeat checker all end leases through
`end_lease`, which settles them.

What makes each part correct: a node is rented to one lease at a time; a lease
is settled once, exactly when it ends, and charged only for time after
`lease_ready`; no running lease is overlooked when its node goes away; the bill
is the least number of units covering the duration, to the second. On the node, nobody but
the holder of the running lease is let in, captures and displays are released
when their last session is gone, and no session is left that nobody would stop.
A WebSocket service whose connection is lost gets it back.

### Who runs at the same time

* Every HTTP request has a thread of its own. Outside `atomic()` each ORM
  statement commits alone (autocommit).
* All `database_sync_to_async` functions share one worker thread: they exclude
  one another, not the HTTP threads. The async consumer code between two such
  calls interleaves with everything.
* The heartbeat checker is a process of its own.
* The database is SQLite, so an `atomic()` block is one step: it is serialised
  with other writers or fails as a whole (`select_for_update` is a no-op there,
  and is not needed).
* The ASGI process may stop at any time; then no `disconnect()` runs.
* A Dart program is one isolate: code between two `await`s runs alone, handlers
  of messages, sockets and timers interleave at their awaits. Only
  `StreamedManager` and each `StreamingSession` have a lock (a FIFO one that is
  taken at once when it is free).

## Modules

| Module | What it is |
|---|---|
| `ControlPlane` | the control plane as a state machine; properties at the end |
| `MCControlPlane` | instance for TLC: symmetry of interchangeable identities |
| `LeaseLife` | abstract: the life of a lease; `ControlPlane` implements it (`FollowsLife`) |
| `NodePool` | abstract: a pool of nodes that are let while vacant; `ControlPlane` implements it (`FollowsPool`) |
| `Billing` | `compute_billing` as operators, driven by a lease that runs on |
| `MCBilling` | short units and months of unequal length for TLC |
| `StreamedManager` | the streaming host: starts, stops and sessions; no `Next` of its own |
| `NodeAgent` | the agent's lease messages, composed with the streaming host |
| `MCNodeAgent` | the stream modes of the instance, symmetry |
| `NodeLink`, `MCNodeLink` | the agent's WebSocket and its reconnection |
| `ClientSocket`, `MCClientSocket` | the client's WebSocket service |
| `ControlPlaneProofs` | type invariant; `LeaseStep`, all that a step may do to a lease row |
| `SettlementProofs` | settlement, single settlement, revived leases, stored responses |
| `ExclusiveProofs` | exclusive use of nodes, the refinement of `NodePool`, no lost capacity |
| `BillingProofs` | the plan's ceiling, calendar months and monotonicity of the bill |
| `NodeLinkProofs` | the agent always has something to wait for; hello before heartbeats |
| `NodeAgentProofs` | no session of the host is left alone or outlives its lease unnoticed |
| `CaptureProofs` | shared captures and virtual displays of the host; types |
| `ClientSocketProofs` | when the client gives up; a logout is kept |

### ControlPlane: state and code

| Variable | In the code |
|---|---|
| `node[d]` | the Node row: `status`, `connection_id`, whether `last_seen` is older than the timeout; `ABSENT` means there is no row |
| `lease[l]` | the Lease row and the number of its BillingRecords; `NONE` is an id not handed out yet, `GONE` a deleted row. `started`, `ended`: whether the timestamps are set; `billed`: null, 0 or more; `told`: `lease_assigned` reached some socket of the node |
| `idem` | IdempotencyKey rows with the leases of the stored response |
| `sock[c]` | a device consumer: accepted, `_node_connected` done (`open`), `node_hello` done (`greeted`), `disconnect()` begun (`closing`) |
| `ws` | the function the worker thread is inside of: `_node_connected` or `_update_node_hello`, between its read, its `exists()` query and its `save()`, with the status it holds |
| `stream[u]` | a remote-control request between `_authorize_lease_stream` and `_set_lease_active` |
| `req[r]` | an HTTP request in flight: the view, its progress, and what it has read and not yet written |
| `stale` | the nodes the checker has listed and not yet marked |

One action per database statement or transaction, with the notifications that
follow it as a step of their own. `RentLookup` → `RentAllocate` or
`RentNoCapacity` → `RentNotify` → `RentStoreKey` is `RentLeaseView.post`;
`ReleaseLookup` → `ReleaseEnd` or `ReleaseNotFound` → `ReleaseNotify` →
`ReleaseStoreKey` is `ReleaseLeaseView.post`; `ForceLeaseRead` →
`ForceLeaseEnd` or `ForceLeaseFail` → `ForceNotify` is the forced release of a
lease, whose view reads the lease before its transaction; and so on down the
file. `PROJECT.json` maps every definition to its lines.

`HttpOps` is the set of endpoints that clients use in an instance. It is how
an instance is kept small, and how a theorem says that it needs an endpoint to
be unused.

`SerialSpec` adds one environment assumption to `Spec`: while the worker
thread is between a read and its save, nobody else writes. The code does not
guarantee it; without it `OneOpenLeasePerNode` fails (`find_double_assignment`).
With it, and with `set_free` unused (an administrator may set a rented node
FREE), there is no double assignment: these are the only two ways to one.

Abstractions: one region and one tier, so every FREE node matches a rent; the
user has one socket; a node sends `lease_ready` only after its `node_hello`, and
only for a lease of its own that it was told of, as the node agent does
(`_mark_lease_ready`, `consumers.py:353-371`, checks neither), and the time that
it reads at `:364` is part of its transaction's step; `end_reason`, prices, messages' wording and pool pushes are left out.
`timezone.now()` before the transaction of `mark_node_offline_and_end_leases`
and `AdminForceReleaseNodeView` is part of the transaction's step; that of
`ReleaseLeaseView` is kept apart (`req[r].started` are the leases that had
started by then), since a `lease_ready` may fall in between and the bill is
then zero. `HeartbeatOverdue` is time passing. Edits through the Django admin
site are not modelled.

### Billing

`started` and `now` are ticks, `TicksPerSecond` to the second (microseconds in
the code). `MonthStarts` are the ticks at which a month begins in the billing
time zone, so `MonthIndex` is `year * 12 + month` up to a constant, whatever
the lengths of months and the shifts of daylight saving time are.

### LeaseLife, NodePool and their refinements

`LeaseLife` says what the back end promises about one lease: it is opened once,
metered at most once, closed with one verdict (charged or waived), and possibly
deleted. `ControlPlane` maps a row to its phase with `PhaseOf` (`ended_at` and
`billed_units` give the verdict, `started_at` the meter, the row itself the
rest) and instantiates `LeaseLife` with it. The mapping leaves out `status`:
status does go backwards (`find_revived_lease`), what the user pays does not.
Only the forced release of a lease breaks it, since it settles twice.

`NodePool` says what the scheduler promises about the pool: new leases go to
vacant nodes, one each, and leases end. Nothing else happens, so a lease never
runs a second time and never moves. `ControlPlane` maps a node to the leases
that run on it (`Tenants`) and the lease ids to those handed out (`Handed`).
Every step is a `Let`, a `Vacate` or a stutter. Node statuses are left out of
the mapping: the abstract `Let` asks for a node without a running lease, the
code for a node with the status FREE, and that these agree is what
`_update_node_hello` endangers. `FollowsPool` therefore holds of `SerialSpec`.

### StreamedManager and NodeAgent: state and code

| Variable | In the code |
|---|---|
| `hash`, `connectable` | `StreamingSettings.connectPasswordHash` (the token it hashes) and `ApplicationInfo.connectable` |
| `calls` | `startStreaming` calls that await their first log message |
| `lock` | the queue of `StreamedManager._lock`; its head holds it |
| `start` | how far the holder has come in `startStreaming`: creating a display, capturing, accepting, registering |
| `sessions` | `StreamedManager.sessions`, by peer |
| `sess[o]` | a `StreamingSession` object: its `connectionState` (`phase`), its peer and settings, whether `acceptRequest` still holds its lock, whether the peer is connected (`linked`), its ping timer, `isClosing_` |
| `count`, `streams` | `localVideoStreamsCount`, `localVideoStreams` |
| `vd`, `live`, `lost` | `virtualDisplayIds`; the displays that exist; history: those among them whose id no entry holds any more |
| `offers` | offers that have not been answered |
| `headless`, `leaseToken`, `applying` | `NodeAgentConfig.isHeadless`, `_activeLeaseToken`, `lease_assigned` handlers that await the preferences |
| `assigned`, `over`, `late` | history: leases the node has had, leases whose credentials were cleared, starts that were in the lock at that time |

An action runs from one `await` to the next; awaits between which nothing else
can make a difference (log messages, preferences) are merged. `StartStreaming`,
`Validate`, `StartEnter`, `CreateDisplay`, `Capture` or `ShareCapture`, `Accept`,
`Register` are `startStreaming`; `CreateDisplayFails` and `CaptureFails` are its
early returns and exceptions, with the `finally` clause. `StopStreaming` is
`stopStreaming`, called by `TimerFires`, `PeerCloses`, `LeaseRelease` and
`ConnectionLost`; `StopRuns` is the body of one that had to wait, and
`StopFinishes` is `stop()` once it has the session's lock.

Abstractions: a password is a token, compared as a whole (hashes do not
collide); the machine runs Windows, has a physical display (`Monitor`) or none,
and all virtual displays are the host's own; exclusive mode is requested for
screen 0 only, as the client's user interface does; candidates, input, audio,
cursor and clipboard are left out. A token names a lease, and is assigned once.
A request without any password is refused and changes nothing, so it is not
made. An answer to an offer of an older session of the same peer is dropped: the
peer connection refuses it. `_removeVirtualDisplay` may fail (`refused` in
`RemoveDisplays`: the driver says no, or the call raises), and its entry goes all
the same; that it is not awaited where a stop or a timeout calls it
(`streamed_manager.dart:764`, `:565`) is abstracted, the display goes or stays at
once. Displays that the user adds or removes by hand on the display page are left
out. The retry loop in `_createVirtualDisplay`, which
never ends if the driver keeps refusing, is a display that is never created.

### NodeLink and ClientSocket: state and code

Both services keep their connection in a few fields (`_socket`, `_wsOpen` or
`connectionState`, timers) that the handlers of every socket ever made write.
`sock[s]` is the state of the `SimpleWebSocket` object `s`, `inits` the number
of `init()` calls that await a token, `socket` the object the field `_socket`
names. In `NodeLink`, `closing` counts the `onClose` handlers that await
`_clearLeaseState`, and `greeted` are the sockets on which `node_hello` went
out. In `ClientSocket`, `listening` says that the device page is shown,
`known` that `connection_info` has come once, and `calls` bounds what the user
and the application do (open, refresh, log out). `healthy` is the moment from
which the network and the server work; before it anything may fail.

## Runs

| Run | Instance | Shows |
|---|---|---|
| `cp_settlement` | 1 node, 1 lease, 2 requests; rent, release, force_lease, delete, device_token | `TypeOK`, `SettledIffBilled`, `ChargedOnlyIfReady`, `RevivedOnlyInFlight`, `LeaseHasNode` under every interleaving |
| `cp_keys` | 2 users, 1 key, 2 requests, 1 lease; rent, release, force_node, delete | `KeysAnswerOwnLeases`; `BilledOnce` and `FollowsLife` when force_lease is not used |
| `cp_exclusive` | 1 node, 2 leases, 2 requests; rent, release, force_node; `SerialSpec` | `OneOpenLeasePerNode`, `OfflineIsSettled`, `BusyNodeHasLease`, `FollowsPool` |
| `cp_dead_node` | 1 node, 1 lease, 2 sockets; rent, set_disabled; `FairSpec` | `DeadNodeIsSettled`, liveness |
| `billing` | 2 units and months, 41 ticks | `PlanButForPartSeconds`, `CalendarMonths`, `MeterRunsForward` |
| `node_host` | 2 controllers, 2 session objects, 1 lease, 1 screen, shared and exclusive starts on it, no monitor, 2 displays, 2 starts at once | `TypeOK`, `CaptureCounted`, `SessionIsWatched`, `DisplaysAccounted`, `OnlyInFlightOutlives` |
| `node_link` | 6 sockets, 3 of them for the healthy network, 2 calls of `init()` at once; `FairSpec` | `TypeOK`, `NeverStranded`, `HelloBeforeHeartbeat`, `Heals` (liveness) |
| `client_link` | 5 sockets, 2 calls of `init()` at once, 2 calls by the user; `FairSpec` | `TypeOK`, `StrandedOnlyBy`, `LogoutIsKept`, `Heals` (liveness) |
| `find_double_assignment` | 1 node, 2 leases, 1 request; rent | violates `OneOpenLeasePerNode` |
| `find_release_again` | 1 node, 2 leases, 1 request; rent, release; `SerialSpec` | violates `ReleasingIsIdle` |
| `find_revived_lease` | 1 node, 1 lease, 1 request; rent, release; `SerialSpec` | violates `EndedStaysEnded` |
| `find_double_billing` | 1 node, 1 lease, 2 requests; rent, release, force_lease; `SerialSpec` | violates `BilledOnce` |

The bounds in the control plane: one lease is enough where the property is about one lease and its
writers, and two concurrent requests give every pair of views; two leases are
needed where a node is rented again; two sockets where a node reconnects before
its old socket is gone. The proofs below remove the bounds for all but the
liveness property; `ExclusiveUse` also covers disabling, which the run leaves
out to stay small. Deadlock is checked except in `billing`, which stops at its horizon, and
in the runs of the Dart programs, which may rest when nobody asks for anything.

The bounds on the node: two controllers and two session objects give a share of
one capture, a stop that overtakes a start, and a second session of a peer whose
first one is still stopping; one token is enough for a lease that ends and is
remembered by requests in flight; no monitor makes default mode create a
display, and an exclusive start on the same screen (`MixedKinds`) makes a second
one and takes over the entry of the first. What differs from screen to screen is
indexed by the screen; `CaptureProofs` proves the properties for any number of
screens.
`MaxStarts` bounds the starts under way, `MaxStops` the stops that wait when the
agent adds more, `MaxDisplays` what the driver can hold. In `NodeLink`, `Socks`
bounds the sockets that exist at once and `MaxInits` the calls of `init()` in
flight. `Reserve` of the sockets are kept for the healthy network: by `InTime`
(below) only the calls in flight at that moment and one more make a socket there,
so with `Reserve > MaxInits` the sockets never run out, and no run ends because
of the bound. In `ClientSocket`, `Reserve` keeps objects for the healthy network, which needs a
third one when a socket under way at that moment, the current one and its
successor coexist.

Fairness (`FairSpec`, used by `cp_dead_node`): the worker thread and the HTTP
threads finish what they have begun (WF); a waiting consumer gets the worker
thread, whose queue is first-in first-out, although others get it in between
(SF); the checker's loop goes on (WF); `last_seen` of a node without a socket
grows old (WF). Nothing is assumed of nodes, users or administrators: no
heartbeat, connection, `lease_ready` or release need ever happen.

Fairness (`NodeLink`, `ClientSocket`): a request for a token is answered or
times out, an attempt to connect succeeds or fails, a socket that is closed
ends, and the isolate runs its timers and the rest of its handlers (WF each).
`Heal` itself is not fair: `Heals` speaks of behaviours in which it happens.
Where the network is healthy, both also assume that a request and a connection
take less time than the timers that would interrupt them (`InTime`: ten seconds
in `ClientSocket`, the 30 seconds of the reconnection timer in `NodeLink`). The
code does not guarantee it: a client on a slow but healthy network may cancel its
own attempts for ever, and so may an agent, whose timer calls `init()` while a
socket is still connecting; the new socket clears `_wsOpen`, and the next tick
may come before it opens (`node_agent_service.dart:194`, `:221-229`).

### Disagreements between code and documents

Four are checked as runs and listed under `findings` in `PROJECT.json`: double
assignment through `_update_node_hello`, a repeated release that takes the node
of a newer lease, a settled lease set ACTIVE again, and a second settlement by
the forced release of a lease. The same model shows more, which have no run:

* `disconnect()` is keyed by the device, not the connection. When an old
  socket's `disconnect()` runs after the new socket's `_node_connected`, the
  node goes OFFLINE with a live socket; heartbeats do not bring it back, and
  `node_hello` can make it FREE with no `connection_id`
  (`IMPLEMENTATION_PLAN.md:68-69`).
* `DISABLED` and `MAINTENANCE` are overwritten by OFFLINE when the node's socket
  closes, and the next connection makes the node FREE
  (`IMPLEMENTATION_PLAN.md:73`).
* RELEASING is left only through a new connection, and the node agent does not
  reboot on `lease_release` (`IMPLEMENTATION_PLAN.md:190`).
* Two requests with one `client_request_id` may both pass the lookup and both
  rent; the second ends in an IntegrityError (`contracts/openapi.yaml:503`).
* A forced release that read the lease before `lease_ready` settles it with no
  units (`contracts/ws-schema.md:60`).
* `AdminSetNodeStateView` makes a rented node FREE without looking at its
  leases, and from the row it read earlier it may make a node FREE, or OFFLINE
  with a running lease that the checker then skips, after its connection changed
  (`views.py:488`).
* A node may be ASSIGNED or IN_USE without a running lease, so that nobody is offered it
  until its socket closes or an administrator steps in. The check of
  `AdminDeleteNodeView` and its deletion of the leases are two statements: a rent
  in between loses its lease, and the node stays busy until the third statement
  deletes it, or for good if the server stops first (`views.py:797-818`). And a
  forced release of a lease that read the node while it was DISABLED leaves the
  status alone, although the node may have become FREE and busy again by then
  (`views.py:648-653`). `CapacityKept` excludes these two. A third way is part of
  it: when an activation has written over a release (`consumers.py:491`) and the
  node then reports that lease ready again, the node is IN_USE for a lease that
  has ended. `end_lease` returns early for such a lease (`lease_lifecycle.py:35`),
  so releasing it bills nothing, though it does set the node to RELEASING.
  `BusyNodeHasLease` names it (`Revived`), and only for IN_USE;
  `RevivedOnlyInFlight` says that the activation is the only step that revives a
  lease.
* On the node, `stopAllSessions` misses a start that is in the lock, so a
  session of a lease that is over may still begin (`contracts/ws-schema.md:90`
  asks the node to disconnect); in headless mode nothing is stopped at all.
  `OnlyInFlightOutlives` says that nothing else escapes.
* `lease_release` clears the credentials of the current lease, whichever lease
  it names (`node_agent_service.dart:310`).
* An agent may end up deaf: an older socket opens after a newer one has failed,
  `isConnected` is true, `_socket` is null, nothing is sent and no timer tries
  again (`Deaf` in `NodeLink`; without it `Heals` is violated). An agent whose
  first token request fails never tries again.
* A client may strand: after a reconnect without a token; after a connection
  that failed before the first `connection_info` while the device page is
  shown, because `onClose` reads `late` fields that are not set; on a phone,
  connected without a socket (`StrandedOnlyBy` in `ClientSocket`). A logout
  does not stop an `init()` in flight from connecting.
* Part seconds are cut off before rounding up (`billing.py:48`), so 60.5 s are one
  minute, where `IMPLEMENTATION_PLAN.md:81-82` asks for
  `max(1, ceil(duration / unit_seconds))`, two. `PlanButForPartSeconds` shows that
  this is all there is to it: the bill is the plan's, or one unit less exactly
  if more than one unit is due and less than a second of the last was used.
* A virtual display may outlive the sessions it was made for: an extended or
  exclusive start overwrites the entry of its screen
  (`streamed_manager.dart:347`), also that of a display which the host made up
  for a shared session, and the entry of a display that the driver refuses to
  remove is dropped. `DisplaysAccounted` says that every other display is on
  record, and that a made-up one on record is in use.

## Proofs

The theorems about `ControlPlane` hold for arbitrary sets of nodes, leases,
users, keys, sockets and requests, and any `MaxCount`, under
`ConstantsAssumption`: `None` is none of the identities, `HttpOps` are endpoints
that exist, `MaxCount` is positive. Those about the two links hold for any
finite set of sockets and any bounds (`LinkAssumption`, `ClientAssumption`);
those about the agent and the host for any peers, session objects, leases and
screens and any bounds (`HostAssumption`), finite or not: that the sessions and
displays at one time are finitely many is part of the invariant.

| Theorem | Says | From |
|---|---|---|
| `TypeCorrect` | `Spec => []TypeOK` | |
| `NoDanglingDevice` | `Spec => []LeaseHasNode` | |
| `SettlementCorrect` | `Spec => []SettledIffBilled` | |
| `ChargedCorrect` | `Spec => []ChargedOnlyIfReady` | |
| `ImplementsLife` | `Spec => FollowsLife`: the refinement of `LeaseLife` | force_lease unused |
| `RevivalNeedsFlight` | `Spec => RevivedOnlyInFlight` | |
| `SettledOnce` | `Spec => []BilledOnce` | force_lease unused |
| `KeysAreOwn` | `Spec => []KeysAnswerOwnLeases` | |
| `ExclusiveUse` | `SerialSpec => []OneOpenLeasePerNode` | set_free unused |
| `OfflineCorrect` | `SerialSpec => []OfflineIsSettled` | set_free unused |
| `ImplementsPool` | `SerialSpec => FollowsPool`: the refinement of `NodePool` | set_free unused |
| `CapacityKept` | `SerialSpec => []BusyNodeHasLease` | delete unused; force_lease only without set_disabled and set_maintenance |
| `BillIsPlanned` | `Spec => []PlanButForPartSeconds` (Billing) | `BillingAssumption` |
| `MonthsAreCalendarMonths` | `Spec => []CalendarMonths` (Billing) | `BillingAssumption` |
| `MeterIsMonotone` | `Spec => MeterRunsForward` (Billing) | `BillingAssumption` |
| `LinkTypeCorrect` | `Spec => []TypeOK` (NodeLink) | `LinkAssumption` |
| `NeverStrandedCorrect` | `Spec => []NeverStranded` (NodeLink) | `LinkAssumption` |
| `HelloCorrect` | `Spec => []HelloBeforeHeartbeat` (NodeLink) | `LinkAssumption` |
| `ClientTypeCorrect` | `Spec => []TypeOK` (ClientSocket) | `ClientAssumption` |
| `StrandedCorrect` | `Spec => []StrandedOnlyBy` (ClientSocket) | `ClientAssumption` |
| `LogoutCorrect` | `Spec => LogoutIsKept` (ClientSocket) | `ClientAssumption` |
| `WatchedCorrect` | `Spec => []SessionIsWatched` (NodeAgent) | `HostAssumption` |
| `OutlivesCorrect` | `Spec => []OnlyInFlightOutlives` (NodeAgent) | `HostAssumption` |
| `SharedCaptureCorrect` | `Spec => []CaptureCounted` (NodeAgent) | `HostAssumption` |
| `DisplaysCorrect` | `Spec => []DisplaysAccounted` (NodeAgent) | `HostAssumption` |
| `AgentTypeCorrect` | `Spec => []TypeOK` (NodeAgent) | `HostAssumption` |

The argument:

1. `TypeOK` is not inductive. `TypeInv` adds what the code takes for granted: a
   function that is under way has a device, a user, a key (`WsRefs`, `SockRefs`,
   `ReqRefs`); the row of a lease names a node that exists (`LeaseHasNode`,
   needed because the forced release copies the node's status); and a
   `started_at` that some view has read is still set, or the lease is deleted
   (`CopyIsOld`).
2. `LeaseStep(l)` lists the seven ways in which a step may write the row of
   lease `l`; `LeaseRows` shows that `Next` has no other. The invariants about
   leases then need seven cases instead of forty actions.
3. `SettleInv` is inductive relative to `TypeInv`. `CopyIsOld` is what keeps a
   stale copy from charging a lease that never started.
4. `BilledOnce` follows since a row with a record has `ended` set and
   `end_lease` returns early for it; only the forced release of a lease tests a
   copy instead of the row.
5. `KeysInv` follows the leases of a response from the transaction to the
   stored row: owners never change, and deleted leases keep theirs.
6. `ExclusiveInv` adds to the two properties that a status FREE or OFFLINE which
   the worker thread is about to save is still true (`WsSeesIdle`, the point at
   which `WsUndisturbed` is used), and that `AdminSetNodeStateView` saves held
   statuses only. `OpenedByRent` shows that only a rent opens a lease.
7. For the bill, `DivBounds` is the one fact about integer division, and
   `BillCovers` says what the bill covers, up to a second less than the duration;
   comparing it with the plan's ceiling gives the exact difference. The month
   index grows by at most one a tick because a tick is at most one month's
   start.

8. `FollowsLife` follows from `LeaseStep` too: each of the seven ways to write
   a row moves its phase along an edge of `LeaseLife` or not at all. Without the
   forced release of a lease, a row whose `ended_at` is set is not settled again.
9. In `NodeLink`, `TypeOK` needs that nothing is under way before the
   application calls `init()` (`Idle`). `NeverStranded` and
   `HelloBeforeHeartbeat` are then inductive.
10. In `ClientSocket`, `LogoutIsKept` rests on no timer running after a logout
   (`NoTimerAfterLogout`), and `StrandedOnlyBy` on two facts: a desktop that is
   connected sends pings or has a call of `init()` under way
   (`BeatsIfConnected`), and "connecting", at which `init()` returns at once, is
   about a socket that is still connecting, unless an `onClose` has thrown
   (`ConnectingIsTrue`).
11. For the host, the inductive invariant `HostInv` says how far the holder of
    the lock has come and what it may rely on (`StartFits`: its peer has no
    session, its object is its peer's), that every registered object is its
    peer's (`Owned`), and that a live object is registered or about to be and has
    a running timer on which `close()` still works, or a stop in the lock
    (`Watched`). The last is stronger than `SessionIsWatched`: a timer whose
    object is closing already would fire without effect. `WatchedCorrect` follows.
12. `OutlivesCorrect` speaks of the leases that are over, a set that only
    `_clearLeaseState` changes. Each step of the host is shown to keep
    `LeaseInv(V)` for every set V of tokens that the current credentials are not
    in (`Kept`): starts in the lock and registered sessions with such a token
    were marked when the lease ended, or a stop for them waits. `ClearLease`
    shows that the end of a lease makes it true for the larger set, because the
    credentials go first and the stops queue behind the starts.

13. For the captures, `Counted` adds to `CaptureCounted` that the registered
    sessions are finitely many, and that a start that registers has an object of
    its own screen; the rest is arithmetic on cardinalities, one session or one
    stop of many at a time. `StartFits` of `HostInv` is what makes the object of a
    start a new one, so that registering it raises the count of its screen by one.
14. For the displays, `Displayed` says that an automatic display which nobody
    uses yet belongs to the start that made it (`start.auto`, the local that its
    `finally` clause tests), and that the displays that exist are the entries and
    the lost ones (`RemovalCounts` for a removal of which the driver refuses some,
    `DisplayCounts` for an entry that is overwritten). With it `TypeOK` follows, in particular that the counter and the
    number of displays are never decremented at zero.
15. `CalendarMonths` is a fact about every interval of ticks. It is proved as an
    invariant of the lease that runs on (`MonthsTouched`): the months of
    `[started, now)` are all from the first to the last, and a tick adds the last
    one again or the next. The cardinality of an interval then gives the bill.
16. `ImplementsPool` rests on `ExclusiveInv`: a FREE node is vacant, so
    `RentAllocate` is a `Let` (`RentIsLet`). Every other step satisfies
    `OpenShrinks`, so it only ends leases (`OthersVacate`); that it hands out
    none follows from `LeaseStep`.
17. `CapacityKept` needs the opposite of exclusive use: not that a lease has a
    node to itself, but that a busy node is left when its lease ends.
    `NodeStatuses` lists the ways in which a step may change the status of a
    node. `BusyInv` says that the worker thread saves a busy status only for a
    rented node (`WsSeesBusy`), that `AdminSetNodeStateView` saves none
    (`SavesIdle`), that an ASSIGNED node has a running lease and an IN_USE one a
    lease with an active status (`AssignedIsOpen`, `BusyIsActive`), and that the copy of a forced release names the device of its
    lease and shows no held status (`ForceCopy`, `Unheld`). `ActiveKept` then goes
    through the writers of leases: whoever ends the lease of a node also writes
    the node's status; `OpenKept` does the same for the leases of an ASSIGNED node. The two conditions are needed, see above.
18. `RevivalNeedsFlight` follows a remote-control request from its authorisation:
    `FlightInv` says that the lease of a request in flight is its renter's and
    has started, unless it was deleted, and `RevivalStep` goes through the writers
    of leases for the one way from ENDED to an active status.

Only model-checked: the liveness properties `DeadNodeIsSettled` and the two
`Heals`, since liveness under fairness, and ENABLED, are beyond the prover.

## Plan

1. Done: `ControlPlane`, `Billing`, `LeaseLife` and its refinement;
   `StreamedManager` with `NodeAgent`; `NodeLink`; `ClientSocket`; their runs and
   the theorems above.
2. Done, proofs: every invariant, action property and refinement that a run
   checks. Next: the lemmas for the composition below, and weaker conditions for
   `ExclusiveUse` (`set_free` on nodes that are not rented).
3. Open: the controller's half of `StreamingSession` and `StreamingManager`; the
   client's lease table under late responses and pushes; the composition of
   `NodeAgent` with `ControlPlane`, so that `told` and `lease_ready` become
   messages that may be lost or overtaken.

Not modelled: accounts and login (request/response over Django's user table),
downloads and logs (file I/O), the user interface and input smoothing, the power
reset through IPMI, vendored code (most of the repository's C and C++: nginx and
the Flutter plugins).
