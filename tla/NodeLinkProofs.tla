----------------------------- MODULE NodeLinkProofs -----------------------------
(* Proofs about the node agent's connection. *)
EXTENDS NodeLink, FiniteSetTheorems, TLAPS

\* Nothing happens before the application calls init().
Idle ==
    ~started => /\ inits = 0 /\ closing = 0 /\ ~timer
                /\ \A s \in Socks : sock[s] = "none"

LinkInv == TypeOK /\ Idle

LEMMA SockCount == Cardinality(Socks) \in Nat
  BY LinkAssumption, FS_CardinalityType DEF LinkAssumption

LEMMA LinkInit == Init => LinkInv
<1> SUFFICES ASSUME Init PROVE LinkInv
  OBVIOUS
<1>1. 0 \in 0 .. MaxInits /\ 0 \in 0 .. Cardinality(Socks)
  BY SockCount, LinkAssumption
<1>2. sock \in [Socks -> {"none", "connecting", "open"}] /\ \A s \in Socks : sock[s] = "none"
  BY DEF Init
<1>3. TypeOK
  BY <1>1, <1>2, Zenon DEF Init, TypeOK
<1> QED
  BY <1>2, <1>3, Zenon DEF Init, LinkInv, Idle

LEMMA LinkStep ==
  ASSUME LinkInv, [Next]_vars
  PROVE  LinkInv'
<1> USE LinkAssumption, SockCount DEF LinkAssumption, LinkInv, TypeOK, Idle
<1>1. CASE Start
  BY <1>1 DEF Start
<1>2. CASE FetchFails
  BY <1>2 DEF FetchFails
<1>3. ASSUME NEW s \in Socks, FetchOk(s)
      PROVE  LinkInv'
  <2>1. inits' \in 0 .. MaxInits /\ started
    BY <1>3 DEF FetchOk
  <2>2. sock' \in [Socks -> {"none", "connecting", "open"}]
    BY <1>3 DEF FetchOk
  <2> QED
    BY <1>3, <2>1, <2>2, Zenon DEF FetchOk
<1>4. ASSUME NEW s \in Socks, Opens(s)
      PROVE  LinkInv'
  BY <1>4 DEF Opens
<1>5. ASSUME NEW s \in Socks, Down(s)
      PROVE  LinkInv'
  <2>1. started
    BY <1>5 DEF Down, Drop
  <2>2. closing' \in 0 .. Cardinality(Socks)
    BY <1>5 DEF Down, Drop
  <2>3. sock' \in [Socks -> {"none", "connecting", "open"}]
    BY <1>5 DEF Down, Drop
  <2>4. timer' \in BOOLEAN
    BY <1>5, Zenon DEF Down, Drop
  <2> QED
    BY <1>5, <2>1, <2>2, <2>3, <2>4, Zenon DEF Down, Drop
<1>6. CASE CloseResumes
  BY <1>6 DEF CloseResumes
<1>7. CASE Tick
  <2>1. inits' \in 0 .. MaxInits
    <3>1. inits' = inits \/ (inits < MaxInits /\ inits' = inits + 1)
      BY <1>7, Zenon DEF Tick
    <3> QED
      BY <3>1
  <2>2. started
    BY <1>7 DEF Tick
  <2>3. timer' = FALSE \/ timer' = timer
    <3>1. CASE wsOpen
      BY <1>7, <3>1, Zenon DEF Tick
    <3>2. CASE ~wsOpen
      BY <1>7, <3>2, Zenon DEF Tick
    <3> QED
      BY <3>1, <3>2
  <2>4. UNCHANGED <<headless, started, sock, socket, wsOpen, beating, closing, greeted,
                    tried, healthy>>
    BY <1>7 DEF Tick
  <2> QED
    BY <2>1, <2>2, <2>3, <2>4, Zenon
<1>8. CASE Heal
  BY <1>8 DEF Heal
<1>9. CASE UNCHANGED vars
  BY <1>9 DEF vars
<1> QED
  BY <1>1, <1>2, <1>3, <1>4, <1>5, <1>6, <1>7, <1>8, <1>9 DEF Next, Fetch

LEMMA LinkAlways == Spec => []LinkInv
  BY LinkInit, LinkStep, PTL DEF Spec

\* The variables keep their types, and at most as many calls are suspended as
\* the bounds allow (every handler of node_agent_service.dart).
THEOREM LinkTypeCorrect == Spec => []TypeOK
  BY LinkAlways, PTL DEF LinkInv

LEMMA StrandedStep ==
  ASSUME LinkInv, NeverStranded, [Next]_vars
  PROVE  NeverStranded'
<1> USE DEF NeverStranded, LinkInv, TypeOK, Connecting
<1>1. CASE Start
  BY <1>1 DEF Start
<1>2. CASE FetchFails
  BY <1>2 DEF FetchFails
<1>3. ASSUME NEW s \in Socks, FetchOk(s)
      PROVE  NeverStranded'
  BY <1>3 DEF FetchOk
<1>4. ASSUME NEW s \in Socks, Opens(s)
      PROVE  NeverStranded'
  BY <1>4 DEF Opens
<1>5. ASSUME NEW s \in Socks, Down(s)
      PROVE  NeverStranded'
  BY <1>5, SockCount DEF Down, Drop
<1>6. CASE CloseResumes
  BY <1>6 DEF CloseResumes
<1>7. CASE Tick
  BY <1>7 DEF Tick
<1>8. CASE Heal
  BY <1>8 DEF Heal
<1>9. CASE UNCHANGED vars
  BY <1>9 DEF vars
<1> QED
  BY <1>1, <1>2, <1>3, <1>4, <1>5, <1>6, <1>7, <1>8, <1>9 DEF Next, Fetch

\* An agent whose connection is gone never waits for nothing: a timer runs, an
\* onClose handler will arm one, or a socket is being connected (lines 207 to
\* 231 of node_agent_service.dart), for any number of overlapping init().
THEOREM NeverStrandedCorrect == Spec => []NeverStranded
<1>1. Init => NeverStranded
  BY DEF Init, NeverStranded
<1> QED
  BY <1>1, LinkAlways, StrandedStep, PTL DEF Spec

LEMMA HelloStep ==
  ASSUME LinkInv, HelloBeforeHeartbeat, [Next]_vars
  PROVE  HelloBeforeHeartbeat'
<1> USE LinkAssumption DEF LinkAssumption, HelloBeforeHeartbeat, LinkInv, TypeOK
<1>1. CASE Start
  BY <1>1 DEF Start
<1>2. CASE FetchFails
  BY <1>2 DEF FetchFails
<1>3. ASSUME NEW s \in Socks, FetchOk(s)
      PROVE  HelloBeforeHeartbeat'
  BY <1>3 DEF FetchOk
<1>4. ASSUME NEW s \in Socks, Opens(s)
      PROVE  HelloBeforeHeartbeat'
  BY <1>4 DEF Opens
<1>5. ASSUME NEW s \in Socks, Down(s)
      PROVE  HelloBeforeHeartbeat'
  BY <1>5 DEF Down, Drop
<1>6. CASE CloseResumes
  BY <1>6 DEF CloseResumes
<1>7. CASE Tick
  BY <1>7 DEF Tick
<1>8. CASE Heal
  BY <1>8 DEF Heal
<1>9. CASE UNCHANGED vars
  BY <1>9 DEF vars
<1> QED
  BY <1>1, <1>2, <1>3, <1>4, <1>5, <1>6, <1>7, <1>8, <1>9 DEF Next, Fetch

\* Heartbeats go out only on a socket that carried node_hello, whichever order
\* the sockets of overlapping init() open in (onOpen and _startNodeHeartbeat).
THEOREM HelloCorrect == Spec => []HelloBeforeHeartbeat
<1>1. Init => HelloBeforeHeartbeat
  BY DEF Init, HelloBeforeHeartbeat
<1> QED
  BY <1>1, LinkAlways, HelloStep, PTL DEF Spec

=============================================================================
