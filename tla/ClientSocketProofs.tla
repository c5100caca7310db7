--------------------------- MODULE ClientSocketProofs ---------------------------
(* Proofs about the client's connection. *)
EXTENDS ClientSocket, TLAPS

LEMMA ClientTypeInit == Init => TypeOK
<1> SUFFICES ASSUME Init PROVE TypeOK
  OBVIOUS
<1>1. inits \in 0 .. MaxInits /\ calls \in 0 .. MaxCalls
  BY ClientAssumption DEF Init
<1>2. sock \in [Socks -> {"none", "connecting", "open", "closing"}]
  BY DEF Init
<1> QED
  BY <1>1, <1>2, Zenon DEF Init, TypeOK

\* What reconnect() and disconnect() leave behind.
LEMMA AbandonType ==
  ASSUME TypeOK, Abandon
  PROVE  /\ sock' \in [Socks -> {"none", "connecting", "open", "closing"}]
         /\ socket' \in Socks \cup {None}
         /\ timer' \in BOOLEAN /\ beating' \in BOOLEAN /\ awaitingPong' \in BOOLEAN
         /\ UNCHANGED connectionState
<1>1. sock' \in [Socks -> {"none", "connecting", "open", "closing"}]
  BY DEF TypeOK, Abandon, SocketOpen
<1> QED
  BY <1>1, Zenon DEF Abandon

LEMMA BeginType ==
  ASSUME TypeOK, Begin
  PROVE  inits' \in 0 .. MaxInits /\ should_be_connected' \in BOOLEAN
<1>1. inits' = inits \/ (inits < MaxInits /\ inits' = inits + 1)
  BY Zenon DEF Begin
<1>2. inits' \in 0 .. MaxInits
  BY <1>1, ClientAssumption DEF TypeOK
<1> QED
  BY <1>2, Zenon DEF Begin

LEMMA CallType ==
  ASSUME TypeOK, Call
  PROVE  calls' \in 0 .. MaxCalls
  BY ClientAssumption DEF TypeOK, Call

LEMMA ClientTypeStep ==
  ASSUME TypeOK, [Next]_vars
  PROVE  TypeOK'
<1> USE ClientAssumption DEF TypeOK, fields
<1>1. CASE CallInit
  BY <1>1 DEF CallInit, Call, Begin
<1>2. CASE CallReconnect
  BY <1>2, CallType, AbandonType, BeginType, Zenon DEF CallReconnect, Reconnect
<1>3. CASE CallDisconnect
  BY <1>3, CallType, AbandonType, Zenon DEF CallDisconnect
<1>4. CASE TokenFails
  BY <1>4 DEF TokenFails
<1>5. ASSUME NEW s \in Socks, TokenOk(s)
      PROVE  TypeOK'
  BY <1>5 DEF TokenOk, Free
<1>6. ASSUME NEW s \in Socks, Opens(s)
      PROVE  TypeOK'
  BY <1>6 DEF Opens
<1>7. ASSUME NEW s \in Socks, Info(s)
      PROVE  TypeOK'
  BY <1>7 DEF Info
<1>8. ASSUME NEW s \in Socks, Closed(s)
      PROVE  TypeOK'
  BY <1>8 DEF Closed
<1>9. CASE Tick
  <2>1. CASE connectionState = "connected"
    BY <1>9, <2>1, Zenon DEF Tick
  <2>2. CASE connectionState # "connected"
    BY <1>9, <2>2, AbandonType, BeginType, Zenon DEF Tick, Reconnect
  <2> QED
    BY <2>1, <2>2
<1>10. CASE Ping
  BY <1>10 DEF Ping
<1>11. CASE Pong
  BY <1>11 DEF Pong
<1>12. CASE PongTimeout
  <2>1. CASE connectionState = "connected" /\ desktop
    BY <1>12, <2>1, AbandonType, BeginType, Zenon DEF PongTimeout, Reconnect
  <2>2. CASE ~(connectionState = "connected" /\ desktop)
    BY <1>12, <2>2, Zenon DEF PongTimeout
  <2> QED
    BY <2>1, <2>2
<1>13. CASE Heal
  BY <1>13 DEF Heal
<1>14. CASE UNCHANGED vars
  BY <1>14 DEF vars
<1> QED
  BY <1>1, <1>2, <1>3, <1>4, <1>5, <1>6, <1>7, <1>8, <1>9, <1>10, <1>11, <1>12, <1>13, <1>14 DEF Next, Token

\* The variables keep their types (every handler of websocket_service.dart).
THEOREM ClientTypeCorrect == Spec => []TypeOK
  BY ClientTypeInit, ClientTypeStep, PTL DEF Spec

-----------------------------------------------------------------------------

\* After a logout the reconnection timer is off.
NoTimerAfterLogout == ~should_be_connected => ~timer

LEMMA NoTimerStep ==
  ASSUME TypeOK, NoTimerAfterLogout, [Next]_vars
  PROVE  NoTimerAfterLogout'
<1> USE DEF TypeOK, NoTimerAfterLogout, fields
<1>1. CASE CallInit
  BY <1>1 DEF CallInit, Call, Begin
<1>2. CASE CallReconnect
  BY <1>2 DEF CallReconnect, Call, Reconnect, Abandon, Begin, SocketOpen
<1>3. CASE CallDisconnect
  BY <1>3 DEF CallDisconnect, Call, Abandon, SocketOpen
<1>4. CASE TokenFails
  BY <1>4 DEF TokenFails
<1>5. ASSUME NEW s \in Socks, TokenOk(s)
      PROVE  NoTimerAfterLogout'
  BY <1>5 DEF TokenOk, Free
<1>6. ASSUME NEW s \in Socks, Opens(s)
      PROVE  NoTimerAfterLogout'
  BY <1>6 DEF Opens
<1>7. ASSUME NEW s \in Socks, Info(s)
      PROVE  NoTimerAfterLogout'
  BY <1>7 DEF Info
<1>8. ASSUME NEW s \in Socks, Closed(s)
      PROVE  NoTimerAfterLogout'
  BY <1>8 DEF Closed
<1>9. CASE Tick
  BY <1>9 DEF Tick, Reconnect, Abandon, Begin, SocketOpen
<1>10. CASE Ping
  BY <1>10 DEF Ping
<1>11. CASE Pong
  BY <1>11 DEF Pong
<1>12. CASE PongTimeout
  <2>1. CASE connectionState = "connected" /\ desktop
    BY <1>12, <2>1 DEF PongTimeout, Reconnect, Abandon, Begin, SocketOpen
  <2>2. CASE ~(connectionState = "connected" /\ desktop)
    BY <1>12, <2>2, Zenon DEF PongTimeout
  <2> QED
    BY <2>1, <2>2
<1>13. CASE Heal
  BY <1>13 DEF Heal
<1>14. CASE UNCHANGED vars
  BY <1>14 DEF vars
<1> QED
  BY <1>1, <1>2, <1>3, <1>4, <1>5, <1>6, <1>7, <1>8, <1>9, <1>10, <1>11, <1>12, <1>13, <1>14 DEF Next, Token

LEMMA LogoutStep ==
  ASSUME TypeOK, NoTimerAfterLogout, [Next]_vars,
         should_be_connected', ~should_be_connected
  PROVE  calls' # calls \/ PongTimeout
<1> USE DEF TypeOK, NoTimerAfterLogout, fields
<1>1. ASSUME Call PROVE calls' # calls
  BY <1>1, ClientAssumption DEF Call
<1>2. CASE CallInit \/ CallReconnect \/ CallDisconnect
  BY <1>1, <1>2 DEF CallInit, CallReconnect, CallDisconnect
<1>3. CASE PongTimeout
  BY <1>3
<1>4. ASSUME NEW s \in Socks, TokenOk(s) \/ Opens(s) \/ Info(s) \/ Closed(s)
      PROVE  FALSE
  BY <1>4 DEF TokenOk, Opens, Info, Closed
<1>5. CASE TokenFails \/ Ping \/ Pong \/ Heal \/ UNCHANGED vars
  BY <1>5 DEF TokenFails, Ping, Pong, Heal, vars
<1>6. CASE Tick
  BY <1>6 DEF Tick
<1> QED
  BY <1>2, <1>3, <1>4, <1>5, <1>6 DEF Next, Token

\* After a logout only the user, the application or an unanswered ping makes
\* the client connect again: no reconnection timer survives it (disconnect()
\* and the guard in onClose).
THEOREM LogoutCorrect == Spec => LogoutIsKept
<1>1. Init => NoTimerAfterLogout
  BY DEF Init, NoTimerAfterLogout
<1>2. TypeOK /\ NoTimerAfterLogout /\ [Next]_vars
      => [should_be_connected' /\ ~should_be_connected => calls' # calls \/ PongTimeout]_vars
  BY LogoutStep
<1>3. TypeOK /\ NoTimerAfterLogout /\ [Next]_vars => NoTimerAfterLogout'
  BY NoTimerStep
<1> QED
  BY <1>1, <1>2, <1>3, ClientTypeCorrect, PTL DEF Spec, LogoutIsKept

-----------------------------------------------------------------------------

Pending(state) == \E s \in Socks : sock[s] = state

\* A desktop that is connected has a heartbeat or is about to make a socket.
BeatsIfConnected ==
    connectionState = "connected" /\ desktop /\ should_be_connected /\ ~tokenFailed
      => beating \/ inits # 0

\* "connecting", which makes init() return at once, is about some socket.
ConnectingIsTrue ==
    connectionState = "connecting" /\ ~swallowed => Pending("connecting")

LEMMA BeatsStep ==
  ASSUME TypeOK, BeatsIfConnected, [Next]_vars
  PROVE  BeatsIfConnected'
<1> USE DEF TypeOK, BeatsIfConnected, fields
<1>1. CASE CallInit
  BY <1>1 DEF CallInit, Call, Begin
<1>2. CASE CallReconnect
  BY <1>2 DEF CallReconnect, Call, Reconnect, Abandon, Begin, SocketOpen
<1>3. CASE CallDisconnect
  BY <1>3 DEF CallDisconnect, Call, Abandon, SocketOpen
<1>4. CASE TokenFails
  BY <1>4 DEF TokenFails
<1>5. ASSUME NEW s \in Socks, TokenOk(s)
      PROVE  BeatsIfConnected'
  BY <1>5 DEF TokenOk, Free
<1>6. ASSUME NEW s \in Socks, Opens(s)
      PROVE  BeatsIfConnected'
  BY <1>6 DEF Opens
<1>7. ASSUME NEW s \in Socks, Info(s)
      PROVE  BeatsIfConnected'
  BY <1>7 DEF Info
<1>8. ASSUME NEW s \in Socks, Closed(s)
      PROVE  BeatsIfConnected'
  BY <1>8 DEF Closed
<1>9. CASE Tick
  BY <1>9 DEF Tick, Reconnect, Abandon, Begin, SocketOpen
<1>10. CASE Ping
  BY <1>10 DEF Ping
<1>11. CASE Pong
  BY <1>11 DEF Pong
<1>12. CASE PongTimeout
  <2>1. CASE connectionState = "connected" /\ desktop
    BY <1>12, <2>1 DEF PongTimeout, Reconnect, Abandon, Begin, SocketOpen
  <2>2. CASE ~(connectionState = "connected" /\ desktop)
    BY <1>12, <2>2, Zenon DEF PongTimeout
  <2> QED
    BY <2>1, <2>2
<1>13. CASE Heal
  BY <1>13 DEF Heal
<1>14. CASE UNCHANGED vars
  BY <1>14 DEF vars
<1> QED
  BY <1>1, <1>2, <1>3, <1>4, <1>5, <1>6, <1>7, <1>8, <1>9, <1>10, <1>11, <1>12, <1>13, <1>14 DEF Next, Token

LEMMA ConnectingStep ==
  ASSUME TypeOK, ConnectingIsTrue, [Next]_vars
  PROVE  ConnectingIsTrue'
<1> USE DEF TypeOK, ConnectingIsTrue, Pending, fields
<1>1. CASE CallInit
  BY <1>1 DEF CallInit, Call, Begin
<1>2. CASE CallReconnect
  BY <1>2 DEF CallReconnect, Call, Reconnect, Abandon, Begin, SocketOpen
<1>3. CASE CallDisconnect
  BY <1>3 DEF CallDisconnect, Call, Abandon, SocketOpen
<1>4. CASE TokenFails
  BY <1>4 DEF TokenFails
<1>5. ASSUME NEW s \in Socks, TokenOk(s)
      PROVE  ConnectingIsTrue'
  BY <1>5 DEF TokenOk, Free
<1>6. ASSUME NEW s \in Socks, Opens(s)
      PROVE  ConnectingIsTrue'
  BY <1>6 DEF Opens
<1>7. ASSUME NEW s \in Socks, Info(s)
      PROVE  ConnectingIsTrue'
  BY <1>7 DEF Info
<1>8. ASSUME NEW s \in Socks, Closed(s)
      PROVE  ConnectingIsTrue'
  BY <1>8 DEF Closed
<1>9. CASE Tick
  BY <1>9 DEF Tick, Reconnect, Abandon, Begin, SocketOpen
<1>10. CASE Ping
  BY <1>10 DEF Ping
<1>11. CASE Pong
  BY <1>11 DEF Pong
<1>12. CASE PongTimeout
  <2>1. CASE connectionState = "connected" /\ desktop
    BY <1>12, <2>1 DEF PongTimeout, Reconnect, Abandon, Begin, SocketOpen
  <2>2. CASE ~(connectionState = "connected" /\ desktop)
    BY <1>12, <2>2, Zenon DEF PongTimeout
  <2> QED
    BY <2>1, <2>2
<1>13. CASE Heal
  BY <1>13 DEF Heal
<1>14. CASE UNCHANGED vars
  BY <1>14 DEF vars
<1> QED
  BY <1>1, <1>2, <1>3, <1>4, <1>5, <1>6, <1>7, <1>8, <1>9, <1>10, <1>11, <1>12, <1>13, <1>14 DEF Next, Token

LEMMA StrandedStep ==
  ASSUME TypeOK, BeatsIfConnected, ConnectingIsTrue, StrandedOnlyBy, [Next]_vars
  PROVE  StrandedOnlyBy'
<1> USE DEF TypeOK, BeatsIfConnected, ConnectingIsTrue, Pending, StrandedOnlyBy, Stranded, Usable, Quiet, fields
<1>1. CASE CallInit
  BY <1>1 DEF CallInit, Call, Begin
<1>2. CASE CallReconnect
  BY <1>2 DEF CallReconnect, Call, Reconnect, Abandon, Begin, SocketOpen
<1>3. CASE CallDisconnect
  BY <1>3 DEF CallDisconnect, Call, Abandon, SocketOpen
<1>4. CASE TokenFails
  BY <1>4 DEF TokenFails
<1>5. ASSUME NEW s \in Socks, TokenOk(s)
      PROVE  StrandedOnlyBy'
  BY <1>5 DEF TokenOk, Free
<1>6. ASSUME NEW s \in Socks, Opens(s)
      PROVE  StrandedOnlyBy'
  BY <1>6 DEF Opens
<1>7. ASSUME NEW s \in Socks, Info(s)
      PROVE  StrandedOnlyBy'
  BY <1>7 DEF Info
<1>8. ASSUME NEW s \in Socks, Closed(s)
      PROVE  StrandedOnlyBy'
  BY <1>8 DEF Closed
<1>9. CASE Tick
  <2>1. CASE connectionState = "connected"
    BY <1>9, <2>1 DEF Tick, SocketOpen
  <2>2. CASE connectionState # "connected"
    BY <1>9, <2>2 DEF Tick, Reconnect, Abandon, Begin, SocketOpen
  <2> QED
    BY <2>1, <2>2
<1>10. CASE Ping
  BY <1>10 DEF Ping
<1>11. CASE Pong
  BY <1>11 DEF Pong
<1>12. CASE PongTimeout
  <2>1. CASE connectionState = "connected" /\ desktop
    BY <1>12, <2>1 DEF PongTimeout, Reconnect, Abandon, Begin, SocketOpen
  <2>2. CASE ~(connectionState = "connected" /\ desktop)
    BY <1>12, <2>2, Zenon DEF PongTimeout
  <2> QED
    BY <2>1, <2>2
<1>13. CASE Heal
  BY <1>13 DEF Heal
<1>14. CASE UNCHANGED vars
  BY <1>14 DEF vars
<1> QED
  BY <1>1, <1>2, <1>3, <1>4, <1>5, <1>6, <1>7, <1>8, <1>9, <1>10, <1>11, <1>12, <1>13, <1>14 DEF Next, Token

\* The client never waits for nothing, with three exceptions (onClose, the
\* timers and the early return of init(), lines 51 to 150 and 263 to 318 of
\* websocket_service.dart), for any number of overlapping calls.
THEOREM StrandedCorrect == Spec => []StrandedOnlyBy
<1> DEFINE Inv == TypeOK /\ BeatsIfConnected /\ ConnectingIsTrue /\ StrandedOnlyBy
<1>1. Init => Inv
  <2> SUFFICES ASSUME Init PROVE Inv
    OBVIOUS
  <2>1. connectionState = "none" /\ ~should_be_connected
    BY DEF Init
  <2> QED
    BY <2>1, ClientTypeInit DEF BeatsIfConnected, ConnectingIsTrue, StrandedOnlyBy, Stranded
<1>2. Inv /\ [Next]_vars => Inv'
  BY ClientTypeStep, BeatsStep, ConnectingStep, StrandedStep
<1> QED
  BY <1>1, <1>2, PTL DEF Spec

=============================================================================
