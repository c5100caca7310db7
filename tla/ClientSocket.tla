------------------------------ MODULE ClientSocket ------------------------------
(***************************************************************************)
(* How the client keeps its WebSocket to the server                        *)
(* (services/websocket_service.dart, utils/websocket.dart).                *)
(*                                                                         *)
(* The class is static: the handlers of every socket ever made write the   *)
(* same fields.  The user, the application's life cycle, a periodic timer  *)
(* and, on a desktop, a missing pong call init(), reconnect() and          *)
(* disconnect(), which overlap because init() awaits the token store.      *)
(***************************************************************************)
EXTENDS Naturals, FiniteSets

CONSTANTS
    Socks,    \* SimpleWebSocket objects that can exist at once
    Reserve,  \* objects that only a healthy network may use
    MaxInits, \* calls of init() that may be suspended at once
    MaxCalls, \* calls by the user and the application
    None

ASSUME ClientAssumption ==
    /\ IsFiniteSet(Socks)
    /\ Reserve \in Nat /\ Reserve < Cardinality(Socks)
    /\ MaxInits \in Nat \ {0}
    /\ MaxCalls \in Nat
    /\ None \notin Socks

VARIABLES
    desktop,         \* AppPlatform.isDeskTop
    listening,       \* onDeviceListchanged is set: the device page is shown
    should_be_connected,
    connectionState,
    sock,            \* the sockets: none, connecting, open or closing
    socket,          \* _socket
    timer,           \* _reconnectTimer is running
    beating,         \* _heartbeatTimer is running
    awaitingPong,    \* _pongTimeoutTimer is running
    inits,           \* calls of init() that await the token
    known,           \* ApplicationInfo.user and thisDevice are initialised
    calls,           \* calls made so far by the user and the application
    tokenFailed,     \* history: an init() ended without a token
    swallowed,       \* history: an onClose threw before it did anything
    healthy          \* from here on the network and the server work

fields == <<connectionState, sock, socket, timer, beating, awaitingPong>>
vars == <<desktop, listening, should_be_connected, fields, inits, known, calls,
          tokenFailed, swallowed, healthy>>

TypeOK ==
    /\ desktop \in BOOLEAN
    /\ listening \in BOOLEAN
    /\ should_be_connected \in BOOLEAN
    /\ connectionState \in {"none", "connecting", "connected", "disconnected"}
    /\ sock \in [Socks -> {"none", "connecting", "open", "closing"}]
    /\ socket \in Socks \cup {None}
    /\ timer \in BOOLEAN
    /\ beating \in BOOLEAN
    /\ awaitingPong \in BOOLEAN
    /\ inits \in 0 .. MaxInits
    /\ known \in BOOLEAN
    /\ calls \in 0 .. MaxCalls
    /\ tokenFailed \in BOOLEAN
    /\ swallowed \in BOOLEAN
    /\ healthy \in BOOLEAN

Init ==
    /\ desktop \in BOOLEAN
    /\ listening \in BOOLEAN
    /\ should_be_connected = FALSE
    /\ connectionState = "none"
    /\ sock = [s \in Socks |-> "none"]
    /\ socket = None
    /\ timer = FALSE
    /\ beating = FALSE
    /\ awaitingPong = FALSE
    /\ inits = 0
    /\ known = FALSE
    /\ calls = 0
    /\ tokenFailed = FALSE
    /\ swallowed = FALSE
    /\ healthy = FALSE

Free == {s \in Socks : sock[s] = "none"}

\* Nothing is under way.  Where the network is healthy this is so whenever one
\* of the timers fires: they take 30 seconds, five minutes and ten seconds.
Quiet == inits = 0 /\ \A s \in Socks : sock[s] \notin {"connecting", "closing"}

InTime == healthy => Quiet

SocketOpen == socket # None /\ sock[socket] = "open"

-----------------------------------------------------------------------------
(* init(), reconnect() and disconnect()                                    *)

\* init() up to its first await; it returns at once while connecting.
Begin ==
    /\ should_be_connected' = TRUE
    /\ IF connectionState = "connecting" THEN UNCHANGED inits
                                         ELSE inits < MaxInits /\ inits' = inits + 1

\* _socket?.close() and _socket = null; the timers stop.  A socket that is not
\* open yet ignores close().
Abandon ==
    /\ sock' = IF SocketOpen THEN [sock EXCEPT ![socket] = "closing"] ELSE sock
    /\ socket' = None
    /\ timer' = FALSE
    /\ beating' = FALSE
    /\ awaitingPong' = FALSE
    /\ UNCHANGED connectionState

Reconnect == Abandon /\ Begin

Call == calls < MaxCalls /\ calls' = calls + 1

\* The main page, or a request to connect.
CallInit ==
    /\ Call
    /\ Begin
    /\ UNCHANGED <<desktop, listening, fields, known, tokenFailed, swallowed, healthy>>

\* The refresh button, or a mobile application that is resumed.
CallReconnect ==
    /\ Call
    /\ Reconnect
    /\ UNCHANGED <<desktop, listening, known, tokenFailed, swallowed, healthy>>

\* Logout.
CallDisconnect ==
    /\ Call
    /\ Abandon
    /\ should_be_connected' = FALSE
    /\ UNCHANGED <<desktop, listening, inits, known, tokenFailed, swallowed, healthy>>

\* Mutant: there need not be a call.
TokenFailsAnyway ==
    /\ ~healthy
    /\ inits' = inits - 1
    /\ tokenFailed' = TRUE
    /\ UNCHANGED <<desktop, listening, should_be_connected, fields, known, calls, swallowed,
                   healthy>>

\* No token, or no answer to the refresh: init() returns, and that is all.
TokenFails ==
    /\ ~healthy
    /\ inits > 0
    /\ inits' = inits - 1
    /\ tokenFailed' = TRUE
    /\ UNCHANGED <<desktop, listening, should_be_connected, fields, known, calls, swallowed,
                   healthy>>

\* A new socket replaces _socket, whatever has been called meanwhile.
TokenOk(s) ==
    /\ inits > 0
    /\ s \in Free
    /\ healthy \/ Cardinality(Free) > Reserve
    /\ inits' = inits - 1
    /\ sock' = [sock EXCEPT ![s] = "connecting"]
    /\ socket' = s
    /\ connectionState' = "connecting"
    /\ UNCHANGED <<desktop, listening, should_be_connected, timer, beating, awaitingPong,
                   known, calls, tokenFailed, swallowed, healthy>>

-----------------------------------------------------------------------------
(* The handlers of a socket                                                *)

\* onOpen of s.  (On a healthy network a socket that is being closed is closed
\* before a new one is open.)
Opens(s) ==
    /\ sock[s] = "connecting"
    /\ healthy => \A r \in Socks : sock[r] # "closing"
    /\ sock' = [sock EXCEPT ![s] = "open"]
    /\ connectionState' = "connected"
    /\ beating' = (beating \/ desktop)
    /\ awaitingPong' = (awaitingPong /\ ~desktop)
    /\ UNCHANGED <<desktop, listening, should_be_connected, socket, timer, inits, known,
                   calls, tokenFailed, swallowed, healthy>>

\* connection_info, the first message of the server.
Info(s) ==
    /\ sock[s] = "open"
    /\ ~known
    /\ known' = TRUE
    /\ UNCHANGED <<desktop, listening, should_be_connected, fields, inits, calls,
                   tokenFailed, swallowed, healthy>>

\* Mutant: a socket that is not the current one arms no timer.
ClosedIfCurrent(s) ==
    /\ sock[s] = "closing" \/ (~healthy /\ sock[s] # "none")
    /\ sock' = [sock EXCEPT ![s] = "none"]
    /\ IF listening /\ ~known
       THEN UNCHANGED <<connectionState, timer, beating, awaitingPong>>
       ELSE /\ connectionState' = "disconnected"
            /\ beating' = FALSE
            /\ awaitingPong' = FALSE
            /\ timer' = (timer \/ (should_be_connected /\ socket = s))
    /\ swallowed' = (swallowed \/ (listening /\ ~known))
    /\ UNCHANGED <<desktop, listening, should_be_connected, socket, inits, known, calls,
                   tokenFailed, healthy>>

\* Mutant: the timer is armed after a logout too.
ClosedAlwaysArms(s) ==
    /\ sock[s] = "closing" \/ (~healthy /\ sock[s] # "none")
    /\ sock' = [sock EXCEPT ![s] = "none"]
    /\ IF listening /\ ~known
       THEN UNCHANGED <<connectionState, timer, beating, awaitingPong>>
       ELSE /\ connectionState' = "disconnected"
            /\ beating' = FALSE
            /\ awaitingPong' = FALSE
            /\ timer' = TRUE
    /\ swallowed' = (swallowed \/ (listening /\ ~known))
    /\ UNCHANGED <<desktop, listening, should_be_connected, socket, inits, known, calls,
                   tokenFailed, healthy>>

\* onClose of s: it was closed, lost its connection or never had one.  The
\* handler first tells the device page, reading the user's late fields: before
\* the first connection_info that throws, and the rest does not run.
Closed(s) ==
    /\ sock[s] = "closing" \/ (~healthy /\ sock[s] # "none")
    /\ sock' = [sock EXCEPT ![s] = "none"]
    /\ IF listening /\ ~known
       THEN UNCHANGED <<connectionState, timer, beating, awaitingPong>>
       ELSE /\ connectionState' = "disconnected"
            /\ beating' = FALSE
            /\ awaitingPong' = FALSE
            /\ timer' = (timer \/ should_be_connected)
    /\ swallowed' = (swallowed \/ (listening /\ ~known))
    /\ UNCHANGED <<desktop, listening, should_be_connected, socket, inits, known, calls,
                   tokenFailed, healthy>>

-----------------------------------------------------------------------------
(* Timers                                                                  *)

\* The reconnection timer.
Tick ==
    /\ timer
    /\ InTime
    /\ IF connectionState = "connected"
       THEN /\ timer' = FALSE
            /\ UNCHANGED <<should_be_connected, connectionState, sock, socket, beating,
                           awaitingPong, inits>>
       ELSE Reconnect
    /\ UNCHANGED <<desktop, listening, known, calls, tokenFailed, swallowed, healthy>>

\* Every five minutes: a ping through _socket, which may be null.
Ping ==
    /\ beating
    /\ InTime
    /\ connectionState = "connected"
    /\ awaitingPong' = TRUE
    /\ UNCHANGED <<desktop, listening, should_be_connected, connectionState, sock, socket,
                   timer, beating, inits, known, calls, tokenFailed, swallowed, healthy>>

Pong ==
    /\ awaitingPong
    /\ SocketOpen
    /\ awaitingPong' = FALSE
    /\ UNCHANGED <<desktop, listening, should_be_connected, connectionState, sock, socket,
                   timer, beating, inits, known, calls, tokenFailed, swallowed, healthy>>

\* Mutant: only the timer is stopped.
PongTimeoutGivesUp ==
    /\ awaitingPong
    /\ InTime
    /\ ~(healthy /\ SocketOpen)
    /\ awaitingPong' = FALSE
    /\ UNCHANGED <<desktop, listening, should_be_connected, connectionState, sock, socket,
                   timer, beating, inits, known, calls, tokenFailed, swallowed, healthy>>

\* No pong in ten seconds; on a healthy network that takes a missing socket.
PongTimeout ==
    /\ awaitingPong
    /\ InTime
    /\ ~(healthy /\ SocketOpen)
    /\ IF connectionState = "connected" /\ desktop
       THEN Reconnect
       ELSE /\ awaitingPong' = FALSE
            /\ UNCHANGED <<should_be_connected, connectionState, sock, socket, timer,
                           beating, inits>>
    /\ UNCHANGED <<desktop, listening, known, calls, tokenFailed, swallowed, healthy>>

\* The environment stops failing.
Heal ==
    /\ ~healthy
    /\ healthy' = TRUE
    /\ UNCHANGED <<desktop, listening, should_be_connected, fields, inits, known, calls,
                   tokenFailed, swallowed>>

-----------------------------------------------------------------------------

Token == TokenFails \/ \E s \in Socks : TokenOk(s)

Next ==
    \/ CallInit \/ CallReconnect \/ CallDisconnect
    \/ Token
    \/ \E s \in Socks : Opens(s) \/ Info(s) \/ Closed(s)
    \/ Tick \/ Ping \/ Pong \/ PongTimeout \/ Heal

Spec == Init /\ [][Next]_vars

\* The token store and the refresh answer or time out, an attempt to connect
\* succeeds or fails, a socket that is closed ends, and timers run.
Fairness ==
    /\ WF_vars(Token)
    /\ \A s \in Socks :
          /\ WF_vars(Opens(s) \/ (sock[s] = "connecting" /\ Closed(s)))
          /\ WF_vars(sock[s] = "closing" /\ Closed(s))
    /\ WF_vars(Tick)
    /\ WF_vars(Ping)
    /\ WF_vars(Pong \/ PongTimeout)

FairSpec == Spec /\ Fairness

-----------------------------------------------------------------------------
(* Properties                                                              *)

\* What the client sends reaches the server.
Usable == connectionState = "connected" /\ SocketOpen

\* The client wants a connection, has none, and nothing that is under way will
\* make one.
Stranded ==
    /\ should_be_connected
    /\ ~Usable
    /\ Quiet /\ ~timer
    /\ ~(connectionState = "connected" /\ (beating \/ awaitingPong))

\* A client gives up in three cases only: an attempt ended without a token; a
\* connection failed before the process had ever been told who it is, while the
\* device page was shown; or a device without heartbeats holds a connected
\* state and no socket.
StrandedOnlyBy ==
    Stranded => \/ tokenFailed
                \/ swallowed
                \/ ~desktop /\ connectionState = "connected"

\* After a logout no timer logs the client in again by itself.  Only a socket
\* that was under way at the time of the logout can do that, on a desktop, when
\* its ping is not answered.
LogoutIsKept ==
    [][should_be_connected' /\ ~should_be_connected => calls' # calls \/ PongTimeout]_vars

\* When the network heals, a client that is not logged out ends up connected
\* for good, or it is stranded.
Heals == <>healthy => <>[](Usable \/ Stranded \/ ~should_be_connected)

=============================================================================
