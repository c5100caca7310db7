---------------------------- MODULE NodeAgentProofs ----------------------------
(* Proofs about the streaming host and the node agent. *)
EXTENDS NodeAgent, TLAPS

-----------------------------------------------------------------------------
(* The lock                                                                *)

StopPending(p) == \E i \in Waiting("stop") : p \in lock[i].peers

LEMMA AppendLock ==
  ASSUME NEW q \in Seq(Entry), NEW e \in Entry
  PROVE  /\ Append(q, e) \in Seq(Entry)
         /\ Append(q, e) # <<>>
         /\ q # <<>> => Head(Append(q, e)) = Head(q)
<1>1. Append(q, e) \in Seq(Entry)
  OBVIOUS
<1>2. Len(Append(q, e)) = Len(q) + 1 /\ Len(q) \in Nat
  OBVIOUS
<1>3. Append(q, e) # <<>>
  <2>1. Len(Append(q, e)) # 0 /\ Len(<<>>) = 0
    BY <1>2
  <2> QED
    BY <2>1, Zenon
<1>4. ASSUME q # <<>> PROVE Head(Append(q, e)) = Head(q)
  <2>1. 1 \in 1 .. Len(q)
    BY <1>4
  <2>2. Append(q, e)[1] = q[1]
    BY <2>1
  <2>3. Head(q) = q[1]
    BY <1>4
  <2>4. Head(Append(q, e)) = Append(q, e)[1]
    BY <1>1, <1>3
  <2> QED
    BY <2>2, <2>3, <2>4
<1> QED
  BY <1>1, <1>3, <1>4

LEMMA TailLock ==
  ASSUME NEW q \in Seq(Entry), q # <<>>
  PROVE  Tail(q) \in Seq(Entry) /\ Head(q) \in Entry
  OBVIOUS

LEMMA AppendPending ==
  ASSUME lock \in Seq(Entry), NEW e \in Entry, lock' = Append(lock, e), NEW p
  PROVE  /\ StopPending(p) => StopPending(p)'
         /\ e.op = "stop" /\ p \in e.peers => StopPending(p)'
<1>1. /\ Len(lock') = Len(lock) + 1
      /\ lock'[Len(lock) + 1] = e
      /\ \A i \in 1 .. Len(lock) : lock'[i] = lock[i]
      /\ DOMAIN lock = 1 .. Len(lock) /\ DOMAIN lock' = 1 .. Len(lock')
  OBVIOUS
<1>2. ASSUME StopPending(p) PROVE StopPending(p)'
  <2>1. PICK i \in Waiting("stop") : p \in lock[i].peers
    BY <1>2 DEF StopPending
  <2>2. i \in Waiting("stop")' /\ lock'[i] = lock[i]
    BY <1>1, <2>1 DEF Waiting
  <2> QED
    BY <2>1, <2>2 DEF StopPending
<1>3. ASSUME e.op = "stop", p \in e.peers PROVE StopPending(p)'
  <2>1. Len(lock) + 1 \in Waiting("stop")'
    BY <1>1, <1>3 DEF Waiting
  <2> QED
    BY <1>1, <1>3, <2>1 DEF StopPending
<1> QED
  BY <1>2, <1>3

\* What leaves the lock is its head: a stop for p that was not the head still
\* waits.
LEMMA TailPending ==
  ASSUME lock \in Seq(Entry), lock # <<>>, lock' = Tail(lock), NEW p, StopPending(p),
         Head(lock).op = "start" \/ p \notin Head(lock).peers
  PROVE  StopPending(p)'
<1>1. PICK i \in Waiting("stop") : p \in lock[i].peers
  BY DEF StopPending
<1>2. i # 1
  <2>1. Head(lock) = lock[1]
    OBVIOUS
  <2> QED
    BY <1>1, <2>1 DEF Waiting
<1>3. /\ Len(lock') = Len(lock) - 1
      /\ DOMAIN lock = 1 .. Len(lock) /\ DOMAIN lock' = 1 .. Len(lock')
      /\ \A j \in 1 .. Len(lock') : lock'[j] = lock[j + 1]
  OBVIOUS
<1>4. i - 1 \in DOMAIN lock' /\ lock'[i - 1] = lock[i]
  BY <1>1, <1>2, <1>3 DEF Waiting
<1>5. i - 1 \in Waiting("stop")'
  BY <1>1, <1>4 DEF Waiting
<1> QED
  BY <1>1, <1>4, <1>5 DEF StopPending

\* The end of a lease changes the history flags in the lock, nothing else.
LEMMA MarkLateLock ==
  ASSUME NEW q \in Seq(Entry)
  PROVE  /\ MarkLate(q) \in Seq(Entry)
         /\ DOMAIN MarkLate(q) = DOMAIN q
         /\ \A i \in DOMAIN q :
              /\ MarkLate(q)[i].op = q[i].op
              /\ q[i].op = "stop" => MarkLate(q)[i] = q[i]
              /\ q[i].op = "start" =>
                   /\ MarkLate(q)[i].call.late
                   /\ MarkLate(q)[i].call.peer = q[i].call.peer
                   /\ MarkLate(q)[i].call.token = q[i].call.token
         /\ q # <<>> => /\ MarkLate(q) # <<>>
                        /\ Head(MarkLate(q)) = MarkLate(q)[1]
                        /\ Head(q) = q[1] /\ 1 \in DOMAIN q
<1>1. \A i \in DOMAIN q : q[i] \in Entry
  OBVIOUS
<1>2. \A x \in Entry : x.op \in {"start", "stop"}
  BY DEF Entry
<1>3. \A x \in Entry : x.op = "start" => /\ x.call \in Call
                                         /\ x = [op |-> "start", call |-> x.call]
  BY DEF Entry
<1>4. \A c \in Call : /\ [c EXCEPT !.late = TRUE] \in Call
                      /\ [c EXCEPT !.late = TRUE].late
                      /\ [c EXCEPT !.late = TRUE].peer = c.peer
                      /\ [c EXCEPT !.late = TRUE].token = c.token
  BY DEF Call
<1>5. \A x \in Entry : x.op = "start" =>
         /\ [x EXCEPT !.call.late = TRUE] \in Entry
         /\ [x EXCEPT !.call.late = TRUE].op = "start"
         /\ [x EXCEPT !.call.late = TRUE].call = [x.call EXCEPT !.late = TRUE]
  BY <1>3, <1>4 DEF Entry
<1>6. \A i \in DOMAIN q : MarkLate(q)[i] = IF q[i].op = "start" THEN [q[i] EXCEPT !.call.late = TRUE]
                                                                ELSE q[i]
  BY DEF MarkLate
<1>7. DOMAIN MarkLate(q) = DOMAIN q
  BY DEF MarkLate
<1>8. \A i \in DOMAIN q : MarkLate(q)[i] \in Entry
  BY <1>1, <1>5, <1>6
<1>9. MarkLate(q) \in Seq(Entry)
  <2>1. Len(q) \in Nat /\ DOMAIN q = 1 .. Len(q)
    OBVIOUS
  <2>2. MarkLate(q) = [i \in 1 .. Len(q) |-> MarkLate(q)[i]]
    BY <2>1 DEF MarkLate
  <2> QED
    BY <1>8, <2>1, <2>2
<1>10. ASSUME q # <<>> PROVE /\ MarkLate(q) # <<>>
                             /\ Head(MarkLate(q)) = MarkLate(q)[1]
                             /\ Head(q) = q[1] /\ 1 \in DOMAIN q
  <2>1. Head(q) = q[1] /\ 1 \in DOMAIN q
    BY <1>10
  <2>2. MarkLate(q) # <<>>
    BY <1>7, <1>9, <2>1
  <2> QED
    BY <1>9, <2>1, <2>2
<1>11. \A i \in DOMAIN q :
         /\ MarkLate(q)[i].op = q[i].op
         /\ q[i].op = "stop" => MarkLate(q)[i] = q[i]
  BY <1>1, <1>5, <1>6
<1>12. \A i \in DOMAIN q : q[i].op = "start" =>
         /\ MarkLate(q)[i].call.late
         /\ MarkLate(q)[i].call.peer = q[i].call.peer
         /\ MarkLate(q)[i].call.token = q[i].call.token
  <2> SUFFICES ASSUME NEW i \in DOMAIN q, q[i].op = "start"
               PROVE  /\ MarkLate(q)[i].call.late
                      /\ MarkLate(q)[i].call.peer = q[i].call.peer
                      /\ MarkLate(q)[i].call.token = q[i].call.token
    OBVIOUS
  <2>1. q[i] \in Entry /\ q[i].call \in Call
    BY <1>1, <1>3
  <2>2. MarkLate(q)[i].call = [q[i].call EXCEPT !.late = TRUE]
    BY <2>1, <1>5, <1>6
  <2> QED
    BY <2>1, <2>2, <1>4
<1> QED
  BY <1>7, <1>9, <1>10, <1>11, <1>12

LEMMA MarkLatePending ==
  ASSUME lock \in Seq(Entry), lock' = MarkLate(lock), NEW p, StopPending(p)
  PROVE  StopPending(p)'
<1>1. PICK i \in Waiting("stop") : p \in lock[i].peers
  BY DEF StopPending
<1>2. i \in Waiting("stop")' /\ lock'[i] = lock[i]
  BY <1>1, MarkLateLock DEF Waiting
<1> QED
  BY <1>1, <1>2 DEF StopPending

-----------------------------------------------------------------------------
(* The host's inductive invariant                                          *)

HostShape ==
    /\ calls \subseteq Call
    /\ lock \in Seq(Entry)
    /\ start \in Start
    /\ sessions \in [Peers -> Objects \cup {None}]
    /\ sess \in [Objects -> Session]
    /\ offers \subseteq Objects

\* A start that has begun holds the lock, its peer has no session, and the
\* object it has made is its peer's.
StartFits ==
    /\ start.at # "register" => start.obj = None
    /\ start.at # "idle" => /\ lock # <<>>
                            /\ Head(lock).op = "start"
                            /\ sessions[Holder.peer] = None
    /\ start.at = "register" => /\ start.obj \in Objects
                                /\ sess[start.obj].phase = "live"
                                /\ sess[start.obj].peer = Holder.peer

Owned ==
    /\ \A p \in Peers : sessions[p] # None =>
          sess[sessions[p]].phase = "live" /\ sess[sessions[p]].peer = p
    /\ \A o \in Objects :
          /\ sess[o].phase # "unused" => sess[o].peer \in Peers
          /\ sess[o].timer \/ sess[o].accepting => sess[o].phase # "unused"

Ticking(x) == x.timer /\ ~x.closing

Watched ==
    \A o \in Objects : sess[o].phase = "live" =>
        /\ sessions[sess[o].peer] = o \/ start.obj = o
        /\ Ticking(sess[o]) \/ StopPending(sess[o].peer)

HostInv == HostShape /\ StartFits /\ Owned /\ Watched

\* y is x after a step that neither makes a session nor ends a live one.
Same(x, y) ==
    /\ y.phase = "live" <=> x.phase = "live"
    /\ y.phase # "unused" => x.phase # "unused" /\ y.peer = x.peer
    /\ y.timer \/ y.accepting => y.phase # "unused"
    /\ y.phase = "live" => y.token = x.token /\ y.late = x.late

\* The objects in ss are those of sess; no ping timer is lost but of sessions
\* of the peers in P.
Similar(ss, P) ==
    /\ ss \in [Objects -> Session]
    /\ \A o \in Objects :
          /\ Same(sess[o], ss[o])
          /\ ss[o].phase = "live" /\ Ticking(sess[o]) => Ticking(ss[o]) \/ ss[o].peer \in P

\* A start that was in the lock before the leases with the tokens in V ended is
\* marked, or is for another lease.
Fresh(e, V) == e.op = "start" => e.call.token \notin V \/ e.call.late

\* No session has a token in V but those of marked starts and those that a stop
\* in the lock will end.
LeaseInv(V) ==
    /\ \A i \in DOMAIN lock : Fresh(lock[i], V)
    /\ start.at = "register" => sess[start.obj].token = Holder.token
    /\ \A p \in Registered : \/ sess[sessions[p]].token \notin V
                              \/ sess[sessions[p]].late
                              \/ StopPending(p)

\* What every step of the host keeps, whatever leases are over.
Kept == HostInv' /\ \A V : hash \notin V /\ LeaseInv(V) => LeaseInv(V)'

LEMMA AppendFresh ==
  ASSUME NEW q \in Seq(Entry), NEW e \in Entry, NEW V,
         \A i \in DOMAIN q : Fresh(q[i], V), Fresh(e, V)
  PROVE  \A i \in DOMAIN Append(q, e) : Fresh(Append(q, e)[i], V)
<1>1. /\ Append(q, e)[Len(q) + 1] = e
      /\ \A i \in 1 .. Len(q) : Append(q, e)[i] = q[i]
      /\ DOMAIN q = 1 .. Len(q) /\ DOMAIN Append(q, e) = 1 .. Len(q) + 1
      /\ Len(q) \in Nat
  OBVIOUS
<1> QED
  BY <1>1

LEMMA TailFresh ==
  ASSUME NEW q \in Seq(Entry), q # <<>>, NEW V, \A i \in DOMAIN q : Fresh(q[i], V)
  PROVE  /\ \A i \in DOMAIN Tail(q) : Fresh(Tail(q)[i], V)
         /\ Fresh(Head(q), V)
<1>1. /\ DOMAIN q = 1 .. Len(q) /\ DOMAIN Tail(q) = 1 .. Len(q) - 1
      /\ \A j \in 1 .. Len(q) - 1 : Tail(q)[j] = q[j + 1]
      /\ Head(q) = q[1] /\ 1 \in 1 .. Len(q)
      /\ Len(q) \in Nat
  OBVIOUS
<1> QED
  BY <1>1

\* A step that changes objects only.
LEMMA ObjectStep ==
  ASSUME HostInv, UNCHANGED <<calls, lock, start, sessions>>, offers' \subseteq Objects,
         Similar(sess', {})
  PROVE  Kept
<1>1. HostShape'
  BY DEF HostInv, HostShape, Similar
<1>2. StartFits'
  BY DEF HostInv, StartFits, Similar, Same, Holder
<1>3. Owned'
  BY DEF HostInv, HostShape, Owned, Similar, Same
<1>4. \A p : StopPending(p) => StopPending(p)'
  BY DEF StopPending, Waiting
<1>5. Watched'
  BY <1>4 DEF HostInv, Watched, Similar, Same, Ticking
<1>6. ASSUME NEW V, LeaseInv(V)
      PROVE  LeaseInv(V)'
  <2>1. \A i \in DOMAIN lock' : Fresh(lock'[i], V)
    BY <1>6 DEF LeaseInv
  <2>2. start'.at = "register" => sess'[start'.obj].token = Holder'.token
    BY <1>6 DEF LeaseInv, HostInv, StartFits, Similar, Same, Holder
  <2>3. \A p \in Registered' : sess'[sessions'[p]].token = sess[sessions[p]].token
                             /\ sess'[sessions'[p]].late = sess[sessions[p]].late
    BY DEF HostInv, HostShape, Owned, Registered, Similar, Same
  <2>4. Registered' = Registered
    BY DEF Registered
  <2>5. \A p \in Registered' : \/ sess'[sessions'[p]].token \notin V
                               \/ sess'[sessions'[p]].late
                               \/ StopPending(p)'
    BY <1>4, <1>6, <2>3, <2>4 DEF LeaseInv
  <2> QED
    BY <2>1, <2>2, <2>5 DEF LeaseInv
<1> QED
  BY <1>1, <1>2, <1>3, <1>5, <1>6 DEF HostInv, Kept

\* stopStreaming's body, for the peers in P.
LEMMA BodyStep ==
  ASSUME HostInv, start.at = "idle", NEW P, NEW ss, Similar(ss, P),
         StopBody(P, ss), UNCHANGED <<calls, start, offers>>,
         lock' = lock \/ (lock # <<>> /\ lock' = Tail(lock)),
         \A p \in Peers \ P : StopPending(p) => StopPending(p)'
  PROVE  Kept
<1> USE DEF HostInv
<1>0. lock \in Seq(Entry) /\ lock' \in Seq(Entry)
  BY TailLock DEF HostShape
<1>1. sessions' = [p \in Peers |-> IF p \in P \cap Registered THEN None ELSE sessions[p]]
  BY DEF StopBody
<1>2. \A o \in Objects : sess'[o] = IF \E p \in P \cap Registered : sessions[p] = o
                                    THEN Stopping(ss[o]) ELSE ss[o]
  BY DEF StopBody
<1>3. \A o \in Objects : /\ ss[o] \in Session
                         /\ Stopping(ss[o]) \in Session
                         /\ Stopping(ss[o]).phase = "stopping"
                         /\ Stopping(ss[o]).peer = ss[o].peer
                         /\ ~Stopping(ss[o]).timer
  BY DEF Similar, Session, Stopping
<1>4. start.obj = None
  BY DEF StartFits
<1>5. HostShape'
  <2>1. sessions' \in [Peers -> Objects \cup {None}]
    BY <1>1 DEF HostShape
  <2>2. sess' = [o \in Objects |-> IF \E p \in P \cap Registered : sessions[p] = o
                                   THEN Stopping(ss[o]) ELSE ss[o]]
    BY DEF StopBody
  <2>3. sess' \in [Objects -> Session]
    BY <2>2, <1>3
  <2> QED
    BY <1>0, <2>1, <2>3 DEF HostShape
<1>6. StartFits'
  BY <1>4 DEF StartFits
<1>7. ASSUME NEW p \in Peers, sessions'[p] # None
      PROVE  /\ sessions'[p] = sessions[p] /\ p \notin P
             /\ sessions[p] \in Objects
             /\ sess'[sessions[p]] = ss[sessions[p]]
  <2>1. p \notin P \cap Registered /\ sessions'[p] = sessions[p]
    BY <1>1, <1>7
  <2>2. p \in Registered /\ sessions[p] \in Objects
    BY <2>1, <1>7 DEF Registered, HostShape
  <2>3. \A r \in Registered : sessions[r] = sessions[p] => r = p
    BY <2>2 DEF Owned, Registered
  <2> QED
    BY <1>2, <2>1, <2>2, <2>3
<1>8. Owned'
  <2>1. \A p \in Peers : sessions'[p] # None =>
            sess'[sessions'[p]].phase = "live" /\ sess'[sessions'[p]].peer = p
    BY <1>7 DEF Owned, Similar, Same
  <2>2. ASSUME NEW o \in Objects
        PROVE  /\ sess'[o].phase # "unused" => sess'[o].peer \in Peers
               /\ sess'[o].timer \/ sess'[o].accepting => sess'[o].phase # "unused"
    <3>1. /\ ss[o].phase # "unused" => ss[o].peer \in Peers
          /\ ss[o].timer \/ ss[o].accepting => ss[o].phase # "unused"
      BY DEF Owned, Similar, Same
    <3>2. CASE sess'[o] = ss[o]
      BY <3>1, <3>2
    <3>3. CASE sess'[o] # ss[o]
      <4>1. PICK p \in P \cap Registered : sessions[p] = o
        BY <3>3, <1>2
      <4>2. sess[o].phase = "live"
        BY <4>1 DEF Owned, Registered
      <4>3. ss[o].phase = "live"
        BY <4>2 DEF Similar, Same
      <4>4. sess'[o] = Stopping(ss[o])
        BY <4>1, <1>2
      <4> QED
        BY <3>1, <4>3, <4>4, <1>3
    <3> QED
      BY <3>2, <3>3
  <2> QED
    BY <2>1, <2>2 DEF Owned
<1>9. Watched'
  <2> SUFFICES ASSUME NEW o \in Objects, sess'[o].phase = "live"
               PROVE  /\ sessions'[sess'[o].peer] = o \/ start'.obj = o
                      /\ Ticking(sess'[o]) \/ StopPending(sess[o].peer)'
    BY DEF Watched
  <2>1. sess'[o] = ss[o] /\ ~ \E p \in P \cap Registered : sessions[p] = o
    BY <1>2, <1>3
  <2>2. sess[o].phase = "live" /\ ss[o].peer = sess[o].peer /\ sess[o].peer \in Peers
    BY <2>1 DEF Similar, Same, Owned
  <2>3. o # None
    BY HostAssumption DEF HostAssumption
  <2>4. PICK p \in Peers : p = sess[o].peer
    BY <2>2
  <2>5. sessions[p] = o
    BY <2>2, <2>3, <2>4, <1>4 DEF Watched
  <2>6. p \in Registered /\ p \notin P /\ sess'[o].peer = p
    BY <2>1, <2>2, <2>3, <2>4, <2>5 DEF Registered
  <2>7. sessions'[p] = o
    BY <1>1, <2>5, <2>6
  <2>8. Ticking(ss[o]) \/ StopPending(p)
    BY <2>1, <2>2, <2>4, <2>6 DEF Watched, Similar
  <2>9. Ticking(ss[o]) \/ StopPending(p)'
    BY <2>6, <2>8
  <2>10. StopPending(p)' => StopPending(sess[o].peer)'
    BY <2>6 DEF StopPending
  <2> QED
    BY <2>1, <2>6, <2>7, <2>9, <2>10
<1>10. ASSUME NEW V, LeaseInv(V)
       PROVE  LeaseInv(V)'
  <2>1. \A i \in DOMAIN lock' : Fresh(lock'[i], V)
    <3>1. \A i \in DOMAIN lock : Fresh(lock[i], V)
      BY <1>10 DEF LeaseInv
    <3> QED
      BY <3>1, <1>0, TailFresh
  <2>2. start'.at # "register"
    OBVIOUS
  <2>3. ASSUME NEW p \in Registered'
        PROVE  \/ sess'[sessions'[p]].token \notin V
               \/ sess'[sessions'[p]].late
               \/ StopPending(p)'
    <3>1. p \in Peers /\ sessions'[p] # None
      BY <2>3 DEF Registered
    <3>2. /\ sessions'[p] = sessions[p] /\ p \notin P /\ sessions[p] \in Objects
          /\ sess'[sessions[p]] = ss[sessions[p]]
      BY <3>1, <1>7
    <3>3. p \in Registered /\ sess[sessions[p]].phase = "live"
      BY <3>1, <3>2 DEF Registered, Owned
    <3>4. /\ ss[sessions[p]].token = sess[sessions[p]].token
          /\ ss[sessions[p]].late = sess[sessions[p]].late
      BY <3>2, <3>3 DEF Similar, Same
    <3>5. StopPending(p) => StopPending(p)'
      BY <3>1, <3>2
    <3> QED
      BY <3>2, <3>3, <3>4, <3>5, <1>10 DEF LeaseInv
  <2> QED
    BY <2>1, <2>2, <2>3 DEF LeaseInv
<1> QED
  BY <1>5, <1>6, <1>8, <1>9, <1>10 DEF Kept

\* stopStreaming, at once or later.
LEMMA StopStep ==
  ASSUME HostInv, NEW P \in SUBSET Peers, NEW ss, Similar(ss, P),
         StopStreaming(P, ss), UNCHANGED <<calls, start, offers>>
  PROVE  Kept
<1>1. CASE lock = <<>> /\ StopBody(P, ss) /\ UNCHANGED lock
  <2>1. start.at = "idle"
    BY <1>1 DEF HostInv, StartFits
  <2>2. lock' = lock
    BY <1>1
  <2>3. \A p : StopPending(p) => StopPending(p)'
    BY <1>1 DEF StopPending, Waiting
  <2> QED
    BY <1>1, <2>1, <2>2, <2>3, BodyStep
<1>2. CASE /\ lock # <<>>
           /\ lock' = Append(lock, [op |-> "stop", peers |-> P])
           /\ sess' = ss
           /\ UNCHANGED <<sessions, count, streams, vd, live, lost>>
  <2> DEFINE e == [op |-> "stop", peers |-> P]
  <2>1. e \in Entry /\ e.op = "stop" /\ e.peers = P
    BY DEF Entry
  <2>2. lock \in Seq(Entry) /\ lock' = Append(lock, e)
    BY <1>2 DEF HostInv, HostShape
  <2>3. lock' \in Seq(Entry) /\ lock' # <<>> /\ Head(lock') = Head(lock)
    BY <1>2, <2>1, <2>2, AppendLock
  <2>4. \A p : /\ StopPending(p) => StopPending(p)'
               /\ p \in P => StopPending(p)'
    <3> HIDE DEF e
    <3> SUFFICES ASSUME NEW p
                 PROVE  /\ StopPending(p) => StopPending(p)'
                        /\ p \in P => StopPending(p)'
      OBVIOUS
    <3> QED
      BY <2>1, <2>2, AppendPending
  <2> HIDE DEF e
  <2>5. HostShape'
    BY <1>2, <2>3 DEF HostInv, HostShape, Similar
  <2>6. StartFits'
    BY <1>2, <2>3 DEF HostInv, StartFits, Similar, Same, Holder
  <2>7. Owned'
    BY <1>2 DEF HostInv, HostShape, Owned, Similar, Same
  <2>8. Watched'
    BY <1>2, <2>4 DEF HostInv, Watched, Similar, Same, Ticking
  <2>9. ASSUME NEW V, LeaseInv(V)
        PROVE  LeaseInv(V)'
    <3>1. Fresh(e, V)
      BY <2>1 DEF Fresh
    <3>2. \A i \in DOMAIN lock : Fresh(lock[i], V)
      BY <2>9 DEF LeaseInv
    <3>3. \A i \in DOMAIN lock' : Fresh(lock'[i], V)
      BY <2>1, <2>2, <3>1, <3>2, AppendFresh
    <3>4. start'.at = "register" => sess'[start'.obj].token = Holder'.token
      BY <1>2, <2>3, <2>9 DEF LeaseInv, HostInv, StartFits, Similar, Same, Holder
    <3>5. \A p \in Registered' : sess'[sessions'[p]].token = sess[sessions[p]].token
                               /\ sess'[sessions'[p]].late = sess[sessions[p]].late
      BY <1>2 DEF HostInv, HostShape, Owned, Registered, Similar, Same
    <3>6. Registered' = Registered
      BY <1>2 DEF Registered
    <3>7. \A p \in Registered' : \/ sess'[sessions'[p]].token \notin V
                                 \/ sess'[sessions'[p]].late
                                 \/ StopPending(p)'
      BY <2>4, <2>9, <3>5, <3>6 DEF LeaseInv
    <3> QED
      BY <3>3, <3>4, <3>7 DEF LeaseInv
  <2> QED
    BY <2>5, <2>6, <2>7, <2>8, <2>9 DEF HostInv, Kept
<1> QED
  BY <1>1, <1>2 DEF StopStreaming

-----------------------------------------------------------------------------
(* The steps of startStreaming                                             *)

LEMMA HolderIsCall ==
  ASSUME HostInv, lock # <<>>, Head(lock).op = "start"
  PROVE  Holder \in Call
<1>1. Head(lock) \in Entry
  BY TailLock DEF HostInv, HostShape
<1> QED
  BY <1>1 DEF Entry, Holder

\* The holder of the lock goes on, without an object yet.
LEMMA HolderGoesOn ==
  ASSUME HostInv, lock # <<>>, Head(lock).op = "start", sessions[Holder.peer] = None,
         start.at # "register", start' \in Start, start'.obj = None,
         start'.at # "register", UNCHANGED <<calls, lock, sessions, sess, offers>>
  PROVE  Kept
<1>1. start.obj = None
  BY DEF HostInv, StartFits
<1>2. HostShape' /\ Owned'
  BY DEF HostInv, HostShape, Owned
<1>3. StartFits'
  BY DEF StartFits, Holder
<1>4. \A p : StopPending(p) => StopPending(p)'
  BY DEF StopPending, Waiting
<1>5. Watched'
  BY <1>1, <1>4 DEF HostInv, Watched
<1>6. ASSUME NEW V, LeaseInv(V)
      PROVE  LeaseInv(V)'
  BY <1>4, <1>6 DEF LeaseInv, Registered
<1> QED
  BY <1>2, <1>3, <1>5, <1>6 DEF HostInv, Kept

\* The holder of the lock gives it back without a session.
LEMMA HolderLeaves ==
  ASSUME HostInv, lock # <<>>, Head(lock).op = "start", start.at # "register", Unlock,
         UNCHANGED <<calls, sessions, sess, offers>>
  PROVE  Kept
<1>1. start.obj = None /\ lock \in Seq(Entry)
  BY DEF HostInv, StartFits, HostShape
<1>2. lock' = Tail(lock) /\ start' = NoStart /\ Tail(lock) \in Seq(Entry)
  BY <1>1, TailLock DEF Unlock
<1>3. NoStart \in Start /\ NoStart.at = "idle" /\ NoStart.obj = None
  BY DEF NoStart, Start
<1>4. HostShape' /\ Owned'
  BY <1>2, <1>3 DEF HostInv, HostShape, Owned
<1>5. StartFits'
  BY <1>2, <1>3 DEF StartFits
<1>6. \A p : StopPending(p) => StopPending(p)'
  BY <1>1, <1>2, TailPending
<1>7. Watched'
  BY <1>1, <1>2, <1>3, <1>6 DEF HostInv, Watched
<1>8. ASSUME NEW V, LeaseInv(V)
      PROVE  LeaseInv(V)'
  <2>1. \A i \in DOMAIN lock' : Fresh(lock'[i], V)
    BY <1>1, <1>2, <1>8, TailFresh DEF LeaseInv
  <2> QED
    BY <2>1, <1>2, <1>3, <1>6, <1>8 DEF LeaseInv, Registered
<1> QED
  BY <1>4, <1>5, <1>7, <1>8 DEF HostInv, Kept

LEMMA EnterStep == HostInv /\ StartEnter => Kept
<1> SUFFICES ASSUME HostInv, StartEnter PROVE Kept
  OBVIOUS
<1>1. /\ lock # <<>> /\ Head(lock).op = "start" /\ start.at = "idle"
      /\ UNCHANGED <<calls, sessions, sess, offers>>
  BY DEF StartEnter, StartAt
<1>2. Holder \in Call
  BY <1>1, HolderIsCall
<1>3. CASE Holder.peer \in Registered
  BY <1>1, <1>3, HolderLeaves DEF StartEnter
<1>4. CASE Holder.peer \notin Registered
  <2>1. UNCHANGED lock /\ sessions[Holder.peer] = None
    BY <1>2, <1>4 DEF StartEnter, Registered, Call
  <2>2. PICK at \in {"display", "capture"} :
          start' = [NoStart EXCEPT !.at = at, !.screen = Holder.screen]
    BY <1>4 DEF StartEnter
  <2>3. start' \in Start /\ start'.obj = None /\ start'.at # "register"
    BY <1>2, <2>2 DEF NoStart, Start, Call
  <2> QED
    BY <1>1, <2>1, <2>3, HolderGoesOn
<1> QED
  BY <1>3, <1>4

LEMMA CaptureStep ==
  HostInv /\ (CreateDisplay \/ ShareCapture \/ Capture) => Kept
<1> SUFFICES ASSUME HostInv, CreateDisplay \/ ShareCapture \/ Capture PROVE Kept
  OBVIOUS
<1>1. /\ lock # <<>> /\ Head(lock).op = "start" /\ start.at \in {"display", "capture"}
      /\ UNCHANGED <<calls, lock, sessions, sess, offers>>
  BY DEF CreateDisplay, ShareCapture, Capture, StartAt
<1>2. sessions[Holder.peer] = None /\ start.obj = None /\ start \in Start
  BY <1>1 DEF HostInv, StartFits, HostShape
<1>3. start' \in Start /\ start'.obj = None /\ start'.at # "register"
  <2>1. CASE CreateDisplay
    <3>1. PICK b \in BOOLEAN : start' = [start EXCEPT !.at = "capture", !.auto = b]
      BY <2>1 DEF CreateDisplay
    <3> QED
      BY <3>1, <1>2 DEF Start
  <2>2. CASE ShareCapture \/ Capture
    <3>1. start' = [start EXCEPT !.at = "accept"]
      BY <2>2 DEF ShareCapture, Capture
    <3> QED
      BY <3>1, <1>2 DEF Start
  <2> QED
    BY <2>1, <2>2
<1> QED
  BY <1>1, <1>2, <1>3, HolderGoesOn

LEMMA FailureStep ==
  HostInv /\ (CreateDisplayFails \/ \E removed \in BOOLEAN : CaptureFails(removed)) => Kept
<1> SUFFICES ASSUME HostInv, CreateDisplayFails \/ \E removed \in BOOLEAN : CaptureFails(removed)
             PROVE  Kept
  OBVIOUS
<1>1. /\ lock # <<>> /\ Head(lock).op = "start" /\ start.at \in {"display", "capture"}
      /\ Unlock /\ UNCHANGED <<calls, sessions, sess, offers>>
  BY DEF CreateDisplayFails, CaptureFails, StartAt
<1> QED
  BY <1>1, HolderLeaves

LEMMA AcceptStep ==
  ASSUME HostInv, NEW o \in Objects, Accept(o)
  PROVE  Kept
<1> DEFINE r == [NoSession EXCEPT !.phase = "live", !.peer = Holder.peer, !.screen = start.screen,
                                  !.token = Holder.token, !.accepting = TRUE, !.timer = TRUE]
<1>1. /\ lock # <<>> /\ Head(lock).op = "start" /\ start.at = "accept"
      /\ sess[o].phase = "unused"
      /\ sess' = [sess EXCEPT ![o] = r]
      /\ start' = [start EXCEPT !.at = "register", !.obj = o]
      /\ UNCHANGED <<calls, lock, sessions, offers>>
  BY DEF Accept, StartAt
<1>2. Holder \in Call
  BY <1>1, HolderIsCall
<1>3. start \in Start /\ sessions[Holder.peer] = None /\ start.obj = None
  BY <1>1 DEF HostInv, HostShape, StartFits
<1>4. /\ r \in Session /\ r.phase = "live" /\ r.peer = Holder.peer
      /\ r.timer /\ ~r.closing /\ r.token = Holder.token
  BY <1>2, <1>3 DEF NoSession, Session, Start, Call
<1> HIDE DEF r
<1>5. start' \in Start /\ start'.at = "register" /\ start'.obj = o
  BY <1>1, <1>3 DEF Start
<1>6. /\ sess'[o] = r
      /\ \A x \in Objects : x # o => sess'[x] = sess[x]
      /\ sess' \in [Objects -> Session]
  BY <1>1, <1>4 DEF HostInv, HostShape
<1>7. HostShape'
  BY <1>1, <1>5, <1>6 DEF HostInv, HostShape
<1>8. StartFits'
  BY <1>1, <1>3, <1>4, <1>5, <1>6 DEF StartFits, Holder
<1>9. \A p \in Peers : sessions[p] # o
  <2>1. o # None
    BY HostAssumption DEF HostAssumption
  <2> QED
    BY <1>1, <2>1 DEF HostInv, Owned
<1>10. Holder.peer \in Peers
  BY <1>2 DEF Call
<1>11. Owned'
  BY <1>1, <1>4, <1>6, <1>9, <1>10 DEF HostInv, HostShape, Owned
<1>12. \A p : StopPending(p) => StopPending(p)'
  BY <1>1 DEF StopPending, Waiting
<1>13. Watched'
  <2> SUFFICES ASSUME NEW x \in Objects, sess'[x].phase = "live"
               PROVE  /\ sessions'[sess'[x].peer] = x \/ start'.obj = x
                      /\ Ticking(sess'[x]) \/ StopPending(sess[x].peer)'
    BY DEF Watched
  <2>1. CASE x = o
    BY <2>1, <1>4, <1>5, <1>6 DEF Ticking
  <2>2. CASE x # o
    <3>1. sess'[x] = sess[x]
      BY <2>2, <1>6
    <3>2. sessions[sess[x].peer] = x /\ (Ticking(sess[x]) \/ StopPending(sess[x].peer))
      <4>1. x # None
        BY HostAssumption DEF HostAssumption
      <4> QED
        BY <3>1, <4>1, <1>3 DEF HostInv, Watched
    <3>3. StopPending(sess[x].peer) => StopPending(sess[x].peer)'
      BY <1>1, <3>1 DEF StopPending, Waiting
    <3> QED
      BY <1>1, <3>1, <3>2, <3>3
  <2> QED
    BY <2>1, <2>2
<1>14. ASSUME NEW V, LeaseInv(V)
       PROVE  LeaseInv(V)'
  <2>1. start'.at = "register" => sess'[start'.obj].token = Holder'.token
    BY <1>1, <1>4, <1>5, <1>6 DEF Holder
  <2>2. ASSUME NEW p \in Registered'
        PROVE  /\ p \in Registered /\ sess'[sessions'[p]] = sess[sessions[p]]
    <3>1. p \in Registered /\ sessions[p] \in Objects /\ sessions[p] # o
      BY <1>1, <1>9, <2>2 DEF Registered, HostInv, HostShape
    <3> QED
      BY <3>1, <1>1, <1>6
  <2> QED
    BY <2>1, <2>2, <1>1, <1>12, <1>14 DEF LeaseInv
<1> QED
  BY <1>7, <1>8, <1>11, <1>13, <1>14 DEF HostInv, Kept

LEMMA RegisterStep ==
  ASSUME HostInv, Register
  PROVE  Kept
<1> DEFINE o == start.obj
           r == [sess[o] EXCEPT !.late = Holder.late]
<1>1. /\ lock # <<>> /\ Head(lock).op = "start" /\ start.at = "register"
      /\ sessions' = [sessions EXCEPT ![Holder.peer] = o]
      /\ sess' = [sess EXCEPT ![o].late = Holder.late]
      /\ lock' = Tail(lock) /\ start' = NoStart
      /\ UNCHANGED <<calls, offers>>
  BY DEF Register, StartAt, Unlock
<1>2. /\ o \in Objects /\ sess[o].phase = "live" /\ sess[o].peer = Holder.peer
      /\ sessions[Holder.peer] = None
      /\ lock \in Seq(Entry)
      /\ sess \in [Objects -> Session]
  BY <1>1 DEF HostInv, HostShape, StartFits
<1>3. Holder \in Call /\ Holder.peer \in Peers
  BY <1>1, HolderIsCall DEF Call
<1>4. /\ r \in Session /\ r.phase = sess[o].phase /\ r.peer = sess[o].peer
      /\ r.timer = sess[o].timer /\ r.closing = sess[o].closing
      /\ r.accepting = sess[o].accepting
      /\ r.token = sess[o].token /\ r.late = Holder.late
  BY <1>2, <1>3 DEF Session, Call
<1>5. /\ sess' = [sess EXCEPT ![o] = r]
      /\ sess'[o] = r
      /\ \A x \in Objects : x # o => sess'[x] = sess[x]
      /\ sess' \in [Objects -> Session]
  BY <1>1, <1>2, <1>4
<1> HIDE DEF r
<1>6. /\ \A x \in Objects : /\ sess'[x].phase = sess[x].phase /\ sess'[x].peer = sess[x].peer
                            /\ sess'[x].timer = sess[x].timer
                            /\ sess'[x].closing = sess[x].closing
                            /\ sess'[x].accepting = sess[x].accepting
  BY <1>4, <1>5
<1>7. /\ sessions' \in [Peers -> Objects \cup {None}]
      /\ sessions'[Holder.peer] = o
      /\ \A p \in Peers : p # Holder.peer => sessions'[p] = sessions[p]
  BY <1>1, <1>2, <1>3 DEF HostInv, HostShape
<1>8. NoStart \in Start /\ NoStart.at = "idle" /\ NoStart.obj = None
  BY DEF NoStart, Start
<1>9. HostShape'
  <2>1. lock' \in Seq(Entry)
    BY <1>1, <1>2, TailLock
  <2> QED
    BY <1>1, <1>5, <1>7, <1>8, <2>1 DEF HostInv, HostShape
<1>10. StartFits'
  BY <1>1, <1>8 DEF StartFits
<1>11. Owned'
  BY <1>2, <1>6, <1>7 DEF HostInv, HostShape, Owned
<1>12. \A p : StopPending(p) => StopPending(p)'
  BY <1>1, <1>2, TailPending
<1>13. Watched'
  <2> SUFFICES ASSUME NEW x \in Objects, sess'[x].phase = "live"
               PROVE  /\ sessions'[sess'[x].peer] = x
                      /\ Ticking(sess'[x]) \/ StopPending(sess[x].peer)'
    BY DEF Watched
  <2>1. sess[x].phase = "live" /\ sess'[x].peer = sess[x].peer
    BY <1>6
  <2>2. PICK p \in Peers : p = sess[x].peer
    BY <2>1 DEF HostInv, Owned
  <2>3. sessions[p] = x \/ x = o
    BY <2>1, <2>2 DEF HostInv, Watched
  <2>4. sessions'[p] = x
    <3>1. x # None
      BY HostAssumption DEF HostAssumption
    <3> QED
      BY <2>2, <2>3, <3>1, <1>2, <1>7
  <2>5. Ticking(sess[x]) \/ StopPending(p)
    BY <2>1, <2>2 DEF HostInv, Watched
  <2>6. Ticking(sess'[x]) \/ StopPending(p)'
    BY <2>5, <1>6, <1>12 DEF Ticking
  <2>7. StopPending(p)' => StopPending(sess[x].peer)'
    BY <2>1, <2>2 DEF StopPending
  <2> QED
    BY <2>1, <2>2, <2>4, <2>6, <2>7
<1>14. ASSUME NEW V, LeaseInv(V)
       PROVE  LeaseInv(V)'
  <2>1. \A i \in DOMAIN lock : Fresh(lock[i], V)
    BY <1>14 DEF LeaseInv
  <2>2. /\ \A i \in DOMAIN lock' : Fresh(lock'[i], V)
        /\ Fresh(Head(lock), V)
    BY <1>1, <1>2, <2>1, TailFresh
  <2>3. r.token \notin V \/ r.late
    BY <1>1, <1>4, <1>14, <2>2 DEF LeaseInv, Fresh, Holder
  <2>4. ASSUME NEW p \in Registered'
        PROVE  \/ sess'[sessions'[p]].token \notin V
               \/ sess'[sessions'[p]].late
               \/ StopPending(p)'
    <3>1. p \in Peers /\ sessions'[p] # None
      BY <2>4 DEF Registered
    <3>2. CASE p = Holder.peer
      BY <3>2, <2>3, <1>5, <1>7
    <3>3. CASE p # Holder.peer
      <4>1. sessions'[p] = sessions[p] /\ p \in Registered /\ sessions[p] \in Objects
        BY <3>1, <3>3, <1>7 DEF Registered, HostInv, HostShape
      <4>2. sessions[p] # o
        BY <3>1, <3>3, <4>1, <1>2 DEF HostInv, Owned, Registered
      <4>3. sess'[sessions'[p]] = sess[sessions[p]]
        BY <4>1, <4>2, <1>5
      <4> QED
        BY <4>1, <4>3, <1>12, <1>14 DEF LeaseInv
    <3> QED
      BY <3>2, <3>3
  <2> QED
    BY <1>1, <1>8, <2>2, <2>4 DEF LeaseInv
<1> QED
  BY <1>9, <1>10, <1>11, <1>13, <1>14 DEF HostInv, Kept

-----------------------------------------------------------------------------
(* Stops, and the steps of a session                                       *)

LEMMA SimilarSelf ==
  ASSUME HostInv, NEW P
  PROVE  Similar(sess, P)
  BY DEF HostInv, HostShape, Owned, Similar, Same, Ticking

LEMMA RunsStep == HostInv /\ StopRuns => Kept
<1> SUFFICES ASSUME HostInv, StopRuns PROVE Kept
  OBVIOUS
<1> DEFINE P == Head(lock).peers
<1>1. /\ lock # <<>> /\ Head(lock).op = "stop" /\ StopBody(P, sess)
      /\ lock' = Tail(lock) /\ UNCHANGED <<calls, start, offers>>
  BY DEF StopRuns
<1>2. lock \in Seq(Entry) /\ start.at = "idle"
  BY <1>1 DEF HostInv, HostShape, StartFits
<1>3. \A p \in Peers \ P : StopPending(p) => StopPending(p)'
  BY <1>1, <1>2, TailPending
<1>4. Similar(sess, P)
  BY SimilarSelf
<1> HIDE DEF P
<1> QED
  BY <1>1, <1>2, <1>3, <1>4, BodyStep

\* The record of one object is replaced.
LEMMA OneSimilar ==
  ASSUME HostInv, NEW o \in Objects, NEW r \in Session, NEW P, Same(sess[o], r),
         r.phase = "live" /\ Ticking(sess[o]) => Ticking(r) \/ r.peer \in P
  PROVE  Similar([sess EXCEPT ![o] = r], P)
<1> DEFINE ss == [sess EXCEPT ![o] = r]
<1>1. ss \in [Objects -> Session] /\ ss[o] = r /\ \A x \in Objects : x # o => ss[x] = sess[x]
  BY DEF HostInv, HostShape
<1>2. Similar(sess, P)
  BY SimilarSelf
<1> HIDE DEF ss
<1>3. Similar(ss, P)
  BY <1>1, <1>2 DEF Similar
<1> QED
  BY <1>3 DEF ss

LEMMA OfferStep ==
  ASSUME HostInv, NEW o \in Objects, NEW sent \in BOOLEAN, OfferSent(o, sent)
  PROVE  Kept
<1> DEFINE r == [sess[o] EXCEPT !.accepting = FALSE]
<1>1. sess[o] \in Session /\ offers \subseteq Objects
  BY DEF HostInv, HostShape
<1>2. r \in Session /\ Same(sess[o], r) /\ (Ticking(sess[o]) => Ticking(r))
  BY <1>1 DEF Session, Same, Ticking, HostInv, Owned
<1>3. sess' = [sess EXCEPT ![o] = r]
  BY DEF OfferSent
<1> HIDE DEF r
<1>4. Similar(sess', {})
  BY <1>2, <1>3, OneSimilar
<1>5. UNCHANGED <<calls, lock, start, sessions>> /\ offers' \subseteq Objects
  BY <1>1 DEF OfferSent
<1> QED
  BY <1>4, <1>5, ObjectStep

LEMMA AnswerStep ==
  ASSUME HostInv, NEW o \in Objects, AnswerReceived(o)
  PROVE  Kept
<1> DEFINE r == [sess[o] EXCEPT !.linked = TRUE]
<1>1. sess[o] \in Session /\ offers \subseteq Objects
  BY DEF HostInv, HostShape
<1>2. r \in Session /\ Same(sess[o], r) /\ (Ticking(sess[o]) => Ticking(r))
  BY <1>1 DEF Session, Same, Ticking, HostInv, Owned
<1>3. sess' = sess \/ sess' = [sess EXCEPT ![o] = r]
  BY DEF AnswerReceived
<1> HIDE DEF r
<1>4. Similar(sess', {})
  BY <1>2, <1>3, OneSimilar, SimilarSelf
<1>5. UNCHANGED <<calls, lock, start, sessions>> /\ offers' \subseteq Objects
  BY <1>1 DEF AnswerReceived
<1> QED
  BY <1>4, <1>5, ObjectStep

LEMMA PingStep ==
  ASSUME HostInv, NEW o \in Objects, Ping(o)
  PROVE  Kept
<1> DEFINE r == [sess[o] EXCEPT !.timer = TRUE]
<1>1. sess[o] \in Session /\ offers \subseteq Objects /\ sess[o].phase \in {"live", "stopping"}
  BY DEF HostInv, HostShape, Ping
<1>2. r \in Session /\ Same(sess[o], r) /\ (Ticking(sess[o]) => Ticking(r))
  BY <1>1 DEF Session, Same, Ticking, HostInv, Owned
<1>3. sess' = [sess EXCEPT ![o] = r]
  BY DEF Ping
<1> HIDE DEF r
<1>4. Similar(sess', {})
  BY <1>2, <1>3, OneSimilar
<1>5. UNCHANGED <<calls, lock, start, sessions>> /\ offers' \subseteq Objects
  BY <1>1 DEF Ping
<1> QED
  BY <1>4, <1>5, ObjectStep

LEMMA FinishStep ==
  ASSUME HostInv, NEW o \in Objects, StopFinishes(o)
  PROVE  Kept
<1> DEFINE r == IF sess[o].timer THEN [sess[o] EXCEPT !.phase = "stopped", !.linked = FALSE]
                                 ELSE NoSession
<1>1. sess[o] \in Session /\ offers \subseteq Objects /\ sess[o].phase = "stopping"
  BY DEF HostInv, HostShape, StopFinishes
<1>2. NoSession \in Session /\ NoSession.phase = "unused" /\ ~NoSession.timer /\ ~NoSession.accepting
  BY DEF NoSession, Session
<1>3. r \in Session /\ Same(sess[o], r) /\ r.phase # "live"
  BY <1>1, <1>2 DEF Session, Same
<1>4. sess' = [sess EXCEPT ![o] = r]
  BY DEF StopFinishes
<1> HIDE DEF r
<1>5. Similar(sess', {})
  BY <1>3, <1>4, OneSimilar
<1>6. UNCHANGED <<calls, lock, start, sessions>> /\ offers' \subseteq Objects
  BY <1>1 DEF StopFinishes
<1> QED
  BY <1>5, <1>6, ObjectStep

\* close(): either it has been called before, or the peer's session is stopped.
LEMMA CloseStep ==
  ASSUME HostInv, NEW o \in Objects, NEW r \in Session, Same(sess[o], r),
         sess[o].phase # "unused", r.phase = "live" => r.closing, Close(o, r),
         UNCHANGED <<calls, start, offers>>
  PROVE  Kept
<1>1. CASE sess[o].closing
  <2>1. ~Ticking(sess[o])
    BY <1>1 DEF Ticking
  <2>2. Similar(sess', {})
    BY <1>1, <2>1, OneSimilar DEF Close
  <2>3. UNCHANGED <<lock, sessions>> /\ offers' \subseteq Objects
    BY <1>1 DEF Close, HostInv, HostShape
  <2> QED
    BY <2>2, <2>3, ObjectStep
<1>2. CASE ~sess[o].closing
  <2> DEFINE P == {sess[o].peer}
             ss == [sess EXCEPT ![o] = r]
  <2>1. P \in SUBSET Peers
    BY DEF HostInv, Owned
  <2>2. r.phase = "live" => r.peer \in P
    BY DEF Same
  <2>3. Similar(ss, P)
    BY <2>2, OneSimilar
  <2>4. StopStreaming(P, ss)
    BY <1>2 DEF Close
  <2> HIDE DEF P, ss
  <2> QED
    BY <2>1, <2>3, <2>4, StopStep
<1> QED
  BY <1>1, <1>2

LEMMA TimerStep ==
  ASSUME HostInv, NEW o \in Objects, TimerFires(o)
  PROVE  Kept
<1> DEFINE r == Fired(o)
<1>1. sess[o] \in Session /\ sess[o].timer /\ sess[o].phase # "unused"
  BY DEF HostInv, HostShape, Owned, TimerFires
<1>2. NoSession \in Session /\ NoSession.phase = "unused" /\ ~NoSession.timer /\ ~NoSession.accepting
  BY DEF NoSession, Session
<1>3. r \in Session /\ Same(sess[o], r) /\ (r.phase = "live" => r.closing)
  BY <1>1, <1>2 DEF Fired, Session, Same
<1>4. Close(o, r) /\ UNCHANGED <<calls, start, offers>>
  BY DEF TimerFires
<1> HIDE DEF r
<1> QED
  BY <1>1, <1>3, <1>4, CloseStep

LEMMA PeerStep ==
  ASSUME HostInv, NEW o \in Objects, PeerCloses(o)
  PROVE  Kept
<1> DEFINE r == [sess[o] EXCEPT !.closing = TRUE]
<1>1. sess[o] \in Session /\ sess[o].phase # "unused"
  BY DEF HostInv, HostShape, PeerCloses
<1>2. r \in Session /\ Same(sess[o], r) /\ r.closing
  BY <1>1 DEF Session, Same
<1>3. Close(o, r) /\ UNCHANGED <<calls, start, offers>>
  BY DEF PeerCloses
<1> HIDE DEF r
<1> QED
  BY <1>1, <1>2, <1>3, CloseStep

LEMMA SessionsStep ==
  ASSUME HostInv, NEW o \in Objects, SessionStep(o)
  PROVE  Kept
  BY OfferStep, AnswerStep, PingStep, FinishStep, TimerStep, PeerStep DEF SessionStep, SessionRuns

-----------------------------------------------------------------------------
(* The steps of the agent                                                  *)

\* A call waits for the lock, or is refused.
LEMMA ValidateStep ==
  ASSUME HostInv, NEW c \in calls, Validate(c)
  PROVE  Kept
<1> DEFINE e == [op |-> "start", call |-> c]
<1>1. c \in Call /\ lock \in Seq(Entry) /\ calls' \subseteq Call
  BY DEF HostInv, HostShape, Validate
<1>2. e \in Entry /\ UNCHANGED <<start, sessions, sess, offers>>
  BY <1>1 DEF Entry, Validate
<1>3. lock' = lock \/ lock' = Append(lock, e)
  BY DEF Validate
<1> HIDE DEF e
<1>4. /\ lock' \in Seq(Entry)
      /\ lock # <<>> => lock' # <<>> /\ Head(lock') = Head(lock)
  BY <1>1, <1>2, <1>3, AppendLock
<1>5. \A p : StopPending(p) => StopPending(p)'
  <2>1. CASE lock' = lock
    BY <2>1 DEF StopPending, Waiting
  <2>2. CASE lock' = Append(lock, e)
    BY <2>2, <1>1, <1>2, AppendPending
  <2> QED
    BY <1>3, <2>1, <2>2
<1>6. HostShape' /\ Owned'
  BY <1>1, <1>2, <1>4 DEF HostInv, HostShape, Owned
<1>7. StartFits'
  BY <1>2, <1>4 DEF HostInv, StartFits, Holder
<1>8. Watched'
  BY <1>2, <1>5 DEF HostInv, Watched
<1>9. ASSUME NEW V, hash \notin V, LeaseInv(V)
      PROVE  LeaseInv(V)'
  <2>1. \A i \in DOMAIN lock' : Fresh(lock'[i], V)
    <3>1. CASE lock' = lock
      BY <3>1, <1>9 DEF LeaseInv
    <3>2. CASE lock' # lock
      <4>1. c.token = hash /\ lock' = Append(lock, e)
        BY <3>2, <1>3 DEF Validate
      <4>2. Fresh(e, V)
        BY <4>1, <1>9 DEF Fresh, e
      <4> QED
        BY <4>1, <4>2, <1>1, <1>2, <1>9, AppendFresh DEF LeaseInv
    <3> QED
      BY <3>1, <3>2
  <2>2. start'.at = "register" => sess'[start'.obj].token = Holder'.token
    BY <1>2, <1>4, <1>9 DEF LeaseInv, HostInv, StartFits, Holder
  <2> QED
    BY <2>1, <2>2, <1>2, <1>5, <1>9 DEF LeaseInv, Registered
<1> QED
  BY <1>6, <1>7, <1>8, <1>9 DEF HostInv, Kept

LEMMA ClearStep ==
  ASSUME HostInv, ClearLeaseState, UNCHANGED <<calls, start, offers>>
  PROVE  HostInv'
<1>0. Registered \in SUBSET Peers /\ lock \in Seq(Entry)
  BY DEF Registered, HostInv, HostShape
<1>1. CASE lock = <<>> /\ StopBody(Registered, sess) /\ UNCHANGED lock
  <2>1. start.at = "idle" /\ lock' = lock
    BY <1>1 DEF HostInv, StartFits
  <2>2. \A p : StopPending(p) => StopPending(p)'
    BY <1>1 DEF StopPending, Waiting
  <2>3. Similar(sess, Registered)
    BY SimilarSelf
  <2> QED
    BY <1>1, <2>1, <2>2, <2>3, BodyStep DEF Kept
<1>2. CASE /\ lock # <<>>
           /\ lock' = IF Registered = {} THEN MarkLate(lock)
                      ELSE Append(MarkLate(lock), [op |-> "stop", peers |-> Registered])
           /\ UNCHANGED <<sessions, sess, count, streams, vd, live, lost>>
  <2> DEFINE m == MarkLate(lock)
             e == [op |-> "stop", peers |-> Registered]
  <2>1. e \in Entry /\ e.op = "stop"
    BY <1>0 DEF Entry
  <2>2. /\ m \in Seq(Entry) /\ m # <<>> /\ DOMAIN m = DOMAIN lock
        /\ Head(m).op = Head(lock).op
        /\ Head(lock).op = "start" => Head(m).call.peer = Head(lock).call.peer
        /\ \A i \in DOMAIN lock : lock[i].op = "stop" => m[i] = lock[i]
    BY <1>0, <1>2, MarkLateLock
  <2>3. lock' = m \/ lock' = Append(m, e)
    BY <1>2
  <2> HIDE DEF m, e
  <2>4. lock' \in Seq(Entry) /\ lock' # <<>> /\ Head(lock') = Head(m)
    BY <2>1, <2>2, <2>3, AppendLock
  <2>5. \A i \in DOMAIN m : i \in DOMAIN lock' /\ lock'[i] = m[i]
    BY <2>1, <2>2, <2>3
  <2>6. \A p : StopPending(p) => StopPending(p)'
    BY <2>2, <2>5 DEF StopPending, Waiting
  <2>7. HostShape' /\ Owned'
    BY <1>2, <2>4 DEF HostInv, HostShape, Owned
  <2>8. StartFits'
    BY <1>2, <2>2, <2>4 DEF HostInv, StartFits, Holder
  <2>9. Watched'
    BY <1>2, <2>6 DEF HostInv, Watched
  <2> QED
    BY <2>7, <2>8, <2>9 DEF HostInv
<1> QED
  BY <1>1, <1>2 DEF ClearLeaseState

LEMMA QuietStep ==
  ASSUME HostInv, UNCHANGED <<lock, start, sessions, sess, offers>>, calls' \subseteq Call
  PROVE  Kept
<1>1. \A p : StopPending(p) => StopPending(p)'
  BY DEF StopPending, Waiting
<1>2. HostShape' /\ Owned'
  BY DEF HostInv, HostShape, Owned
<1>3. StartFits'
  BY DEF HostInv, StartFits, Holder
<1>4. Watched'
  BY <1>1 DEF HostInv, Watched
<1>5. ASSUME NEW V, LeaseInv(V)
      PROVE  LeaseInv(V)'
  BY <1>1, <1>5 DEF LeaseInv, Registered, Holder
<1> QED
  BY <1>2, <1>3, <1>4, <1>5 DEF HostInv, Kept

\* The tokens that the agent knows.
TokensFit ==
    /\ hash \in Tokens \cup {None}
    /\ leaseToken \in Tokens \cup {None}
    /\ assigned \subseteq Tokens
    /\ over \subseteq assigned

\* Nothing is started for a lease that is over.
LeaseOver == hash \notin over /\ LeaseInv(over)

\* The host does not touch the credentials.
LEMMA HostSteady == HostStep => UNCHANGED hash
  BY DEF HostStep, Validate, LockStep, StopRuns, StartStep, StartEnter, CreateDisplay,
     CreateDisplayFails, ShareCapture, Capture, CaptureFails, Accept, Register, SessionStep,
     SessionRuns, OfferSent, StopFinishes, AnswerReceived, Ping, TimerFires, PeerCloses

\* What is said of every set of leases holds for those that are over.
LEMMA KeptOver ==
  ASSUME Kept, LeaseOver, UNCHANGED over
  PROVE  HostInv' /\ LeaseInv(over)'
  BY DEF Kept, LeaseOver, LeaseInv

\* The end of a lease leaves no session of it but those that a stop in the lock
\* will end, and marks the starts in the lock.
LEMMA ClearLease ==
  ASSUME HostInv, TokensFit, LeaseOver, ClearLeaseState, UNCHANGED <<calls, start, offers>>
  PROVE  LeaseOver'
<1>1. hash' \notin over'
  BY HostAssumption DEF ClearLeaseState, TokensFit, HostAssumption
<1>2. CASE lock = <<>> /\ StopBody(Registered, sess) /\ UNCHANGED lock
  <2>1. start'.at = "idle" /\ lock' = <<>>
    BY <1>2 DEF HostInv, StartFits
  <2>2. Registered' = {}
    BY <1>2 DEF StopBody, Registered
  <2> QED
    BY <1>1, <2>1, <2>2 DEF LeaseOver, LeaseInv
<1>3. CASE /\ lock # <<>>
           /\ lock' = IF Registered = {} THEN MarkLate(lock)
                      ELSE Append(MarkLate(lock), [op |-> "stop", peers |-> Registered])
           /\ UNCHANGED <<sessions, sess, count, streams, vd, live, lost>>
  <2> DEFINE m == MarkLate(lock)
             e == [op |-> "stop", peers |-> Registered]
  <2>1. e \in Entry /\ e.op = "stop" /\ e.peers = Registered
    BY DEF Entry, Registered
  <2>2. /\ m \in Seq(Entry) /\ m # <<>> /\ DOMAIN m = DOMAIN lock
        /\ Head(lock).op = "start" => Head(m).call.token = Head(lock).call.token
        /\ \A i \in DOMAIN m : m[i].op = "start" => m[i].call.late
    <3>1. lock \in Seq(Entry)
      BY DEF HostInv, HostShape
    <3>2. /\ m \in Seq(Entry) /\ m # <<>> /\ DOMAIN m = DOMAIN lock
          /\ Head(m) = m[1] /\ Head(lock) = lock[1] /\ 1 \in DOMAIN lock
      BY <1>3, <3>1, MarkLateLock
    <3>3. \A i \in DOMAIN lock : /\ m[i].op = lock[i].op
                                 /\ lock[i].op = "start" => /\ m[i].call.late
                                                            /\ m[i].call.token = lock[i].call.token
      BY <3>1, MarkLateLock
    <3> HIDE DEF m
    <3> QED
      BY <3>2, <3>3
  <2>3. lock' = IF Registered = {} THEN m ELSE Append(m, e)
    BY <1>3
  <2> HIDE DEF m, e
  <2>4. Head(lock') = Head(m)
    BY <2>1, <2>2, <2>3, AppendLock
  <2>5. \A i \in DOMAIN lock' : Fresh(lock'[i], over')
    <3>1. \A i \in DOMAIN m : Fresh(m[i], over')
      BY <2>2 DEF Fresh
    <3>2. Fresh(e, over')
      BY <2>1 DEF Fresh
    <3> QED
      BY <2>1, <2>2, <2>3, <3>1, <3>2, AppendFresh
  <2>6. start'.at = "register" => sess'[start'.obj].token = Holder'.token
    <3> SUFFICES ASSUME start.at = "register"
                 PROVE  sess[start.obj].token = Holder'.token
      BY <1>3
    <3>1. Head(lock).op = "start" /\ sess[start.obj].token = Holder.token
      BY DEF HostInv, StartFits, LeaseOver, LeaseInv
    <3> QED
      BY <2>2, <2>4, <3>1 DEF Holder
  <2>7. \A p \in Registered' : StopPending(p)'
    <3> SUFFICES ASSUME NEW p \in Registered PROVE StopPending(p)'
      BY <1>3 DEF Registered
    <3>1. lock' = Append(m, e)
      BY <2>3
    <3>2. Len(m) + 1 \in DOMAIN lock' /\ lock'[Len(m) + 1] = e
      BY <2>1, <2>2, <3>1
    <3> QED
      BY <2>1, <3>2 DEF StopPending, Waiting
  <2> QED
    BY <1>1, <2>5, <2>6, <2>7 DEF LeaseOver, LeaseInv
<1> QED
  BY <1>2, <1>3 DEF ClearLeaseState

LEMMA AgentStep ==
  ASSUME HostInv, TokensFit, LeaseOver, [Next]_vars
  PROVE  HostInv' /\ LeaseOver'
<1>1. CASE HostStep /\ UNCHANGED avars
  <2>1. ASSUME \E c \in calls : Validate(c) PROVE Kept
    BY <2>1, ValidateStep
  <2>2. ASSUME LockStep PROVE Kept
    BY <2>2, RunsStep, EnterStep, CaptureStep, FailureStep, AcceptStep, RegisterStep
       DEF LockStep, StartStep
  <2>3. ASSUME \E o \in Objects : SessionStep(o) PROVE Kept
    BY <2>3, SessionsStep
  <2>4. Kept
    BY <1>1, <2>1, <2>2, <2>3 DEF HostStep
  <2>5. UNCHANGED <<hash, over>>
    BY <1>1, HostSteady DEF avars
  <2> QED
    BY <2>4, <2>5, KeptOver DEF LeaseOver
<1>2. ASSUME NEW t \in Tokens, LeaseAssigned(t) \/ CredentialsSaved(t)
      PROVE  HostInv' /\ LeaseOver'
  <2>1. UNCHANGED <<mvars, over>> /\ hash' \notin over
    BY <1>2 DEF LeaseAssigned, CredentialsSaved, TokensFit, LeaseOver
  <2>2. Kept
    BY <2>1, QuietStep DEF mvars, HostInv, HostShape
  <2> QED
    BY <2>1, <2>2, KeptOver DEF LeaseOver
<1>3. ASSUME NEW t \in Tokens, LeaseRelease(t)
      PROVE  HostInv' /\ LeaseOver'
  <2>1. CASE headless
    <3>1. UNCHANGED <<mvars, hash, over>>
      BY <1>3, <2>1 DEF LeaseRelease
    <3>2. Kept
      BY <3>1, QuietStep DEF mvars, HostInv, HostShape
    <3> QED
      BY <3>1, <3>2, KeptOver DEF LeaseOver
  <2>2. CASE ~headless
    BY <1>3, <2>2, ClearStep, ClearLease DEF LeaseRelease
  <2> QED
    BY <2>1, <2>2
<1>4. CASE ConnectionLost
  BY <1>4, ClearStep, ClearLease DEF ConnectionLost
<1>5. ASSUME NEW p \in Peers, NEW kind \in Kinds, NEW password \in assigned \cup {None},
             RemoteSessionRequested(p, kind, password)
      PROVE  HostInv' /\ LeaseOver'
  <2> DEFINE token == IF password = None THEN leaseToken ELSE password
  <2>1. token \in Tokens /\ kind[1] \in Modes /\ kind[2] \in Screens
    BY <1>5, HostAssumption DEF RemoteSessionRequested, TokensFit, HostAssumption
  <2> DEFINE c == [peer |-> p, mode |-> kind[1], screen |-> kind[2],
                   token |-> token, late |-> FALSE]
  <2>2. calls' = calls \cup {c}
    BY <1>5 DEF RemoteSessionRequested, StartStreaming
  <2> HIDE DEF token
  <2>3. c \in Call
    BY <2>1 DEF Call
  <2> HIDE DEF c
  <2>5. calls' \subseteq Call
    BY <2>2, <2>3 DEF HostInv, HostShape
  <2>4. UNCHANGED <<lock, start, sessions, sess, offers, hash, over>>
    BY <1>5 DEF RemoteSessionRequested, avars
  <2>6. Kept
    BY <2>4, <2>5, QuietStep
  <2> QED
    BY <2>4, <2>6, KeptOver DEF LeaseOver
<1>6. CASE UNCHANGED vars
  <2>1. UNCHANGED <<mvars, hash, over>>
    BY <1>6 DEF vars, avars
  <2>2. Kept
    BY <2>1, QuietStep DEF mvars, HostInv, HostShape
  <2> QED
    BY <2>1, <2>2, KeptOver DEF LeaseOver
<1> QED
  BY <1>1, <1>2, <1>3, <1>4, <1>5, <1>6 DEF Next

\* Before a lease is assigned nobody knows its token; afterwards it is one of
\* those that have been assigned.
LEMMA TokensStep ==
  ASSUME TokensFit, [Next]_vars
  PROVE  TokensFit'
<1>1. CASE HostStep /\ UNCHANGED avars
  <2>1. UNCHANGED hash
    BY <1>1, HostSteady
  <2> QED
    BY <1>1, <2>1 DEF avars, TokensFit
<1>2. ASSUME NEW t \in Tokens, LeaseAssigned(t) \/ CredentialsSaved(t)
      PROVE  TokensFit'
  BY <1>2 DEF LeaseAssigned, CredentialsSaved, TokensFit
<1>3. ASSUME NEW t \in Tokens, LeaseRelease(t)
      PROVE  TokensFit'
  BY <1>3 DEF LeaseRelease, ClearLeaseState, TokensFit
<1>4. CASE ConnectionLost
  BY <1>4 DEF ConnectionLost, ClearLeaseState, TokensFit
<1>5. ASSUME NEW p \in Peers, NEW kind \in Kinds, NEW password \in assigned \cup {None},
             RemoteSessionRequested(p, kind, password)
      PROVE  TokensFit'
  BY <1>5 DEF RemoteSessionRequested, avars, TokensFit
<1>6. CASE UNCHANGED vars
  BY <1>6 DEF vars, avars, TokensFit
<1> QED
  BY <1>1, <1>2, <1>3, <1>4, <1>5, <1>6 DEF Next

LEMMA AgentInit == Init => HostInv /\ TokensFit /\ LeaseOver
<1> SUFFICES ASSUME Init PROVE HostInv /\ TokensFit /\ LeaseOver
  OBVIOUS
<1>1. NoStart \in Start /\ NoStart.at = "idle" /\ NoStart.obj = None
  BY DEF NoStart, Start
<1>2. /\ NoSession \in Session /\ NoSession.phase = "unused"
      /\ ~NoSession.timer /\ ~NoSession.accepting
  BY DEF NoSession, Session
<1>3. HostShape
  BY <1>1, <1>2 DEF Init, HostInit, HostShape
<1>4. StartFits /\ Owned /\ Watched
  BY <1>1, <1>2 DEF Init, HostInit, StartFits, Owned, Watched
<1>5. TokensFit
  BY DEF Init, HostInit, TokensFit
<1>6. LeaseOver
  BY <1>1 DEF Init, HostInit, LeaseOver, LeaseInv, Fresh, Registered
<1> QED
  BY <1>3, <1>4, <1>5, <1>6 DEF HostInv

LEMMA AgentInv == Spec => [](HostInv /\ TokensFit /\ LeaseOver)
<1>1. HostInv /\ TokensFit /\ LeaseOver /\ [Next]_vars => (HostInv /\ TokensFit /\ LeaseOver)'
  BY AgentStep, TokensStep
<1> QED
  BY <1>1, AgentInit, PTL DEF Spec

\* No session of the host is left alone: it is registered for its peer or about
\* to be, and its ping timer or a stop that waits in the lock will end it when
\* its peer falls silent.  The timers of old objects of the same peer, stops
\* that come before the registration and starts that fail do not change that.
THEOREM WatchedCorrect == Spec => []SessionIsWatched
<1>1. HostInv => SessionIsWatched
  BY DEF HostInv, Watched, Ticking, StopPending, SessionIsWatched
<1> QED
  BY <1>1, AgentInv, PTL

\* A session outlives its lease only if its start was in the lock already when
\* _clearLeaseState ran: the handler drops the credentials before it stops the
\* sessions, so that no later start passes the checks of startStreaming, and a
\* start that holds the lock makes its session before the stop behind it runs.
THEOREM OutlivesCorrect == Spec => []OnlyInFlightOutlives
<1>1. LeaseOver => OnlyInFlightOutlives
  BY DEF LeaseOver, LeaseInv, StopPending, OnlyInFlightOutlives
<1> QED
  BY <1>1, AgentInv, PTL

=============================================================================
