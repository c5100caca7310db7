-------------------------------- MODULE NodeLink --------------------------------
(***************************************************************************)
(* How the node agent keeps its WebSocket to the server                    *)
(* (services/node_agent_service.dart, utils/websocket.dart).               *)
(*                                                                         *)
(* init() fetches a device token and opens a socket; the socket's onClose  *)
(* arms a periodic timer, which calls init() until the agent is connected. *)
(* Nothing keeps two calls of init() apart: each makes its own socket, the *)
(* last one made is _socket, and the handlers of all sockets write the     *)
(* same fields.  disconnect() has no caller and is left out.               *)
(***************************************************************************)
EXTENDS Naturals, FiniteSets

CONSTANTS
    Socks,    \* SimpleWebSocket objects that can exist at once
    MaxInits, \* calls of init() that may be suspended at once
    Reserve,  \* objects that only a healthy network may use
    None

ASSUME LinkAssumption ==
    /\ IsFiniteSet(Socks)
    /\ MaxInits \in Nat \ {0}
    /\ Reserve \in Nat /\ Reserve > MaxInits /\ Reserve < Cardinality(Socks)
    /\ None \notin Socks

VARIABLES
    headless, \* NodeAgentConfig.isHeadless
    started,  \* the application has called init(): should_be_connected
    sock,     \* the sockets: none, connecting or open
    socket,   \* _socket
    wsOpen,   \* _wsOpen, which is isConnected
    timer,    \* _reconnectTimer is running
    beating,  \* _nodeHeartbeatTimer is running
    inits,    \* calls of init() that await the preferences or the token
    closing,  \* onClose handlers that await the preferences
    greeted,  \* sockets on which node_hello went out
    tried,    \* history: a socket has been made
    healthy   \* from here on the network and the server work

vars == <<headless, started, sock, socket, wsOpen, timer, beating, inits, closing,
          greeted, tried, healthy>>

TypeOK ==
    /\ headless \in BOOLEAN
    /\ started \in BOOLEAN
    /\ sock \in [Socks -> {"none", "connecting", "open"}]
    /\ socket \in Socks \cup {None}
    /\ wsOpen \in BOOLEAN
    /\ timer \in BOOLEAN
    /\ beating \in BOOLEAN
    /\ inits \in 0 .. MaxInits
    /\ closing \in 0 .. Cardinality(Socks)
    /\ greeted \subseteq Socks
    /\ tried \in BOOLEAN
    /\ healthy \in BOOLEAN

Init ==
    /\ headless \in BOOLEAN
    /\ started = FALSE
    /\ sock = [s \in Socks |-> "none"]
    /\ socket = None
    /\ wsOpen = FALSE
    /\ timer = FALSE
    /\ beating = FALSE
    /\ inits = 0
    /\ closing = 0
    /\ greeted = {}
    /\ tried = FALSE
    /\ healthy = FALSE

Free == {s \in Socks : sock[s] = "none"}

Connecting == {s \in Socks : sock[s] = "connecting"}

\* On a healthy network a token request and a connection together take less
\* than the 30 seconds of the timer, so it never fires while they are under
\* way.  Without this each tick could replace the socket of the one before.
InTime == healthy => inits = 0 /\ Connecting = {}

-----------------------------------------------------------------------------
(* init()                                                                  *)

\* main.dart or the headless agent calls init(), once.
Start ==
    /\ ~started
    /\ started' = TRUE
    /\ inits' = inits + 1
    /\ UNCHANGED <<headless, sock, socket, wsOpen, timer, beating, closing, greeted,
                   tried, healthy>>

\* No device token: init() returns, and that is all.
FetchFails ==
    /\ ~healthy
    /\ inits > 0
    /\ inits' = inits - 1
    /\ UNCHANGED <<headless, started, sock, socket, wsOpen, timer, beating, closing,
                   greeted, tried, healthy>>

\* A new socket replaces _socket, which is not closed, whatever its state.
\* (Bound: Reserve objects are kept for the time when the network is healthy.
\* By InTime the calls suspended at that moment and one more are the last that
\* make a socket, so that with Reserve > MaxInits the objects never run out.)
FetchOk(s) ==
    /\ inits > 0
    /\ s \in Free
    /\ healthy \/ Cardinality(Free) > Reserve
    /\ inits' = inits - 1
    /\ sock' = [sock EXCEPT ![s] = "connecting"]
    /\ socket' = s
    /\ wsOpen' = FALSE
    /\ tried' = TRUE
    /\ UNCHANGED <<headless, started, timer, beating, closing, greeted, healthy>>

-----------------------------------------------------------------------------
(* The handlers of a socket                                                *)

\* Mutant: only the first socket is greeted.
OpensGreetsOnce(s) ==
    /\ sock[s] = "connecting"
    /\ sock' = [sock EXCEPT ![s] = "open"]
    /\ wsOpen' = TRUE
    /\ beating' = TRUE
    /\ greeted' = IF greeted = {} THEN greeted \cup ({socket} \cap {s}) ELSE greeted
    /\ UNCHANGED <<headless, started, socket, timer, inits, closing, tried, healthy>>

\* onOpen of s: the agent greets the server through _socket, which need not be
\* s.  SimpleWebSocket drops what is sent before it is open.
Opens(s) ==
    /\ sock[s] = "connecting"
    /\ sock' = [sock EXCEPT ![s] = "open"]
    /\ wsOpen' = TRUE
    /\ beating' = TRUE
    /\ greeted' = greeted \cup {r \in Socks : r = socket /\ sock'[r] = "open"}
    /\ UNCHANGED <<headless, started, socket, timer, inits, closing, tried, healthy>>

\* What onClose of s does up to its await.
Drop(s) ==
    /\ ~healthy
    /\ sock[s] # "none"
    /\ sock' = [sock EXCEPT ![s] = "none"]
    /\ greeted' = greeted \ {s}
    /\ wsOpen' = FALSE
    /\ socket' = None
    /\ beating' = FALSE
    /\ UNCHANGED <<headless, started, inits, tried, healthy>>

\* Mutant: the timer is not armed in headless mode.
DownKeepsTimer(s) ==
    /\ Drop(s)
    /\ UNCHANGED timer
    /\ closing' = IF headless THEN closing ELSE closing + 1

\* onClose of s, which lost its connection or never had one.  It arms the
\* timer; in GUI mode it first waits for _clearLeaseState.
Down(s) ==
    /\ Drop(s)
    /\ IF headless THEN timer' = TRUE /\ UNCHANGED closing
                   ELSE closing < Cardinality(Socks) /\ closing' = closing + 1 /\ UNCHANGED timer

\* Mutant: there need not be a handler.
CloseResumesAnyway ==
    /\ closing' = closing - 1
    /\ timer' = TRUE
    /\ UNCHANGED <<headless, started, sock, socket, wsOpen, beating, inits, greeted,
                   tried, healthy>>

\* The rest of onClose, whatever has happened meanwhile.
CloseResumes ==
    /\ closing > 0
    /\ closing' = closing - 1
    /\ timer' = TRUE
    /\ UNCHANGED <<headless, started, sock, socket, wsOpen, beating, inits, greeted,
                   tried, healthy>>

\* Mutant: the timer runs once.
TickOnce ==
    /\ timer
    /\ InTime
    /\ timer' = FALSE
    /\ IF wsOpen THEN UNCHANGED inits ELSE inits < MaxInits /\ inits' = inits + 1
    /\ UNCHANGED <<headless, started, sock, socket, wsOpen, beating, closing, greeted,
                   tried, healthy>>

\* The periodic timer: it stops once the agent is connected, and calls init()
\* until then, without waiting for the call before.
Tick ==
    /\ timer
    /\ InTime
    /\ IF wsOpen THEN timer' = FALSE /\ UNCHANGED inits
                 ELSE inits < MaxInits /\ inits' = inits + 1 /\ UNCHANGED timer
    /\ UNCHANGED <<headless, started, sock, socket, wsOpen, beating, closing, greeted,
                   tried, healthy>>

\* The environment stops failing.
Heal ==
    /\ ~healthy
    /\ healthy' = TRUE
    /\ UNCHANGED <<headless, started, sock, socket, wsOpen, timer, beating, inits,
                   closing, greeted, tried>>

-----------------------------------------------------------------------------

Fetch == FetchFails \/ \E s \in Socks : FetchOk(s)

Next ==
    \/ Start
    \/ Fetch
    \/ \E s \in Socks : Opens(s) \/ Down(s)
    \/ CloseResumes \/ Tick \/ Heal

\* A request that is out is answered or times out, an attempt to connect
\* succeeds or fails, and the isolate runs its timers and continuations.
Fairness ==
    /\ WF_vars(Fetch)
    /\ \A s \in Socks : WF_vars(Opens(s) \/ (sock[s] = "connecting" /\ Down(s)))
    /\ WF_vars(CloseResumes)
    /\ WF_vars(Tick)

Spec == Init /\ [][Next]_vars

FairSpec == Spec /\ Fairness

-----------------------------------------------------------------------------
(* Properties                                                              *)

\* What the agent sends reaches the server, which knows the node.
Usable == wsOpen /\ socket \in greeted

\* An older socket has opened after a newer one failed: isConnected is true,
\* nothing can be sent, and no timer will try again.
Deaf == wsOpen /\ socket = None

\* Once a socket has been made, an agent that is not connected always has
\* something to wait for.  (A first token request that fails is not repeated.)
NeverStranded ==
    tried /\ ~wsOpen => timer \/ closing > 0 \/ Connecting # {}

\* A socket that carries heartbeats has carried the hello that makes the server
\* register the node, however the openings of several sockets interleave.
HelloBeforeHeartbeat ==
    \A s \in Socks : (beating /\ wsOpen /\ socket = s /\ sock[s] = "open") => s \in greeted

\* When the network heals, the agent ends up connected for good, or deaf.
Heals == <>(healthy /\ tried) => <>[](Usable \/ Deaf)

=============================================================================
