----------------------------- MODULE CaptureProofs -----------------------------
(* What the streaming host holds: shared captures and virtual displays.    *)
EXTENDS NodeAgentProofs, FiniteSetTheorems

-----------------------------------------------------------------------------
(* Sets                                                                    *)

\* A finite set is split by another one.
LEMMA SplitSet ==
  ASSUME NEW S, IsFiniteSet(S), NEW Q
  PROVE  /\ IsFiniteSet(S \ Q) /\ IsFiniteSet(S \cap Q)
         /\ Cardinality(S \ Q) \in Nat /\ Cardinality(S \cap Q) \in Nat
         /\ Cardinality(S) \in Nat
         /\ Cardinality(S \ Q) = Cardinality(S) - Cardinality(S \cap Q)
<1> DEFINE A == S \ Q
           B == S \cap Q
<1>1. A \in SUBSET S /\ B \in SUBSET S /\ A \cup B = S /\ A \cap B = {}
  OBVIOUS
<1> HIDE DEF A, B
<1>2. IsFiniteSet(A) /\ IsFiniteSet(B)
  BY <1>1, FS_Subset
<1>3. Cardinality(A) \in Nat /\ Cardinality(B) \in Nat /\ Cardinality(S) \in Nat
  BY <1>2, FS_CardinalityType
<1>4. Cardinality(S) = Cardinality(A) + Cardinality(B) - Cardinality(A \cap B)
  BY <1>1, <1>2, FS_Union
<1>5. Cardinality(A \cap B) = 0
  BY <1>1, FS_EmptySet
<1>6. Cardinality(A) = Cardinality(S) - Cardinality(B)
  BY <1>3, <1>4, <1>5
<1> QED
  BY <1>2, <1>3, <1>6 DEF A, B

\* A natural number that counts a finite set is 0 for the empty one only.
LEMMA CountZero ==
  ASSUME NEW S, IsFiniteSet(S)
  PROVE  Cardinality(S) \in Nat /\ (Cardinality(S) = 0 <=> S = {})
  BY FS_CardinalityType, FS_EmptySet

-----------------------------------------------------------------------------
(* The inductive invariant                                                 *)

\* The screens that have a virtual display.
Shown == {s \in Screens : vd[s] # "none"}

\* 1 for the screen of a start that has been counted and has registered nothing.
Coming(s) == IF start.at \in {"accept", "register"} /\ start.screen = s THEN 1 ELSE 0

Counted ==
    /\ IsFiniteSet(Registered)
    /\ count \in [Screens -> Nat]
    /\ streams \subseteq Screens
    /\ start.at # "idle" => start.screen \in Screens
    /\ start.at = "register" => sess[start.obj].screen = start.screen
    /\ CaptureCounted

\* Every display that exists but the lost ones has its entry, and an automatic
\* one that has its entry is in use or will be removed by the finally clause of
\* its start.
Displayed ==
    /\ vd \in [Screens -> {"none", "auto", "asked"}]
    /\ live \in 0 .. MaxDisplays
    /\ IsFiniteSet(Shown)
    /\ lost \in Nat
    /\ live = Cardinality(Shown) + lost
    /\ start.at = "capture" /\ start.auto => vd[start.screen] = "auto"
    /\ \A s \in Screens : vd[s] = "auto" =>
          count[s] > 0 \/ (start.at = "capture" /\ start.screen = s /\ start.auto)

CaptureInv == Counted /\ Displayed

\* No live session has another screen in ss.
Shows(ss) == \A o \in Objects : sess[o].phase = "live" => ss[o].screen = sess[o].screen

LEMMA CountedOn ==
  ASSUME Counted, NEW s \in Screens
  PROVE  /\ IsFiniteSet(On(s)) /\ Cardinality(On(s)) \in Nat
         /\ Cardinality(On(s)) = 0 <=> On(s) = {}
         /\ count[s] = Cardinality(On(s)) + Coming(s)
         /\ s \in streams <=> count[s] > 0
         /\ count[s] \in Nat
<1>1. On(s) \in SUBSET Registered /\ IsFiniteSet(Registered)
  BY DEF On, Counted
<1>2. IsFiniteSet(On(s))
  BY <1>1, FS_Subset
<1> QED
  BY <1>2, CountZero DEF Counted, CaptureCounted, Coming

\* What CaptureCounted says, once the sessions on every screen are known.
LEMMA CountsAre ==
  ASSUME count' \in [Screens -> Nat],
         \A s \in Screens : /\ count'[s] = Cardinality(On(s)') + Coming(s)'
                            /\ s \in streams' <=> count'[s] > 0
  PROVE  CaptureCounted'
  BY DEF CaptureCounted, Coming

-----------------------------------------------------------------------------
(* Stops                                                                   *)

\* The entries of the screens in Z go, and with each of them a display or, if the
\* driver refuses, the knowledge of one.
LEMMA RemovalCounts ==
  ASSUME Displayed, NEW Z, Z \subseteq Screens, RemoveDisplays(Z)
  PROVE  /\ vd' = [s \in Screens |-> IF s \in Z THEN "none" ELSE vd[s]]
         /\ vd' \in [Screens -> {"none", "auto", "asked"}]
         /\ live' \in 0 .. MaxDisplays
         /\ IsFiniteSet(Shown')
         /\ lost' \in Nat
         /\ live' = Cardinality(Shown') + lost'
<1> DEFINE D == {s \in Z : vd[s] # "none"}
<1>1. PICK refused \in SUBSET D :
        /\ vd' = [s \in Screens |-> IF s \in Z THEN "none" ELSE vd[s]]
        /\ live' = live - Cardinality(D \ refused)
        /\ lost' = lost + Cardinality(refused)
  BY DEF RemoveDisplays
<1>2. D = Shown \cap Z /\ Shown' = Shown \ Z
  BY <1>1 DEF Shown
<1>3. /\ vd \in [Screens -> {"none", "auto", "asked"}] /\ IsFiniteSet(Shown)
      /\ live \in 0 .. MaxDisplays /\ lost \in Nat /\ live = Cardinality(Shown) + lost
      /\ MaxDisplays \in Nat
  BY HostAssumption DEF Displayed, HostAssumption
<1> HIDE DEF D
<1>4. /\ IsFiniteSet(Shown \ Z) /\ IsFiniteSet(Shown \cap Z)
      /\ Cardinality(Shown \ Z) \in Nat /\ Cardinality(Shown \cap Z) \in Nat
      /\ Cardinality(Shown) \in Nat
      /\ Cardinality(Shown \ Z) = Cardinality(Shown) - Cardinality(Shown \cap Z)
  BY <1>3, SplitSet
<1>5. IsFiniteSet(D) /\ Cardinality(D) = Cardinality(Shown \cap Z)
  BY <1>2, <1>4, Zenon
<1>6. /\ Cardinality(D \ refused) \in Nat /\ Cardinality(D \cap refused) \in Nat
      /\ Cardinality(D \ refused) = Cardinality(D) - Cardinality(D \cap refused)
  BY <1>5, SplitSet
<1>7. D \cap refused = refused
  OBVIOUS
<1>8. Cardinality(D \cap refused) = Cardinality(refused)
  BY <1>7, Zenon
<1>9. Cardinality(Shown') = Cardinality(Shown \ Z) /\ IsFiniteSet(Shown')
  BY <1>2, <1>4, Zenon
<1>10. lost' \in Nat /\ live' = Cardinality(Shown') + lost' /\ live' \in 0 .. MaxDisplays
  BY <1>1, <1>3, <1>4, <1>5, <1>6, <1>8, <1>9
<1>11. vd' \in [Screens -> {"none", "auto", "asked"}]
  BY <1>1, <1>3
<1> QED
  BY <1>1, <1>9, <1>10, <1>11

\* stopStreaming: the count of a screen goes down by the sessions it loses, and
\* capture and display go with the last of them.
LEMMA BodyCounts ==
  ASSUME HostInv, CaptureInv, start.at = "idle", NEW P, NEW ss, Shows(ss),
         StopBody(P, ss), UNCHANGED start
  PROVE  CaptureInv'
<1> DEFINE Q == P \cap Registered
           Z == Emptied(Q)
<1>1. /\ sessions' = [p \in Peers |-> IF p \in Q THEN None ELSE sessions[p]]
      /\ \A o \in Objects : (\A p \in Q : sessions[p] # o) => sess'[o] = ss[o]
      /\ count' = [s \in Screens |-> count[s] - Cardinality(On(s) \cap Q)]
      /\ streams' = streams \ Z
      /\ RemoveDisplays(Z)
  BY DEF StopBody
<1>2. Q \subseteq Registered
  OBVIOUS
<1>3. \A s : s \in Z <=> s \in Screens /\ On(s) # {} /\ On(s) \subseteq Q
                           /\ count[s] = Cardinality(On(s))
  BY DEF Emptied
<1> HIDE DEF Q, Z
<1>4. Registered' = Registered \ Q
  BY <1>1 DEF Registered
<1>5. ASSUME NEW p \in Registered \ Q
      PROVE  sessions'[p] = sessions[p] /\ sess'[sessions[p]].screen = sess[sessions[p]].screen
  <2>1. /\ p \in Peers /\ sessions[p] \in Objects
        /\ sess[sessions[p]].phase = "live" /\ sess[sessions[p]].peer = p
    BY DEF Registered, HostInv, HostShape, Owned
  <2>2. \A q \in Q : sessions[q] # sessions[p]
    BY <1>2, <2>1 DEF Registered, HostInv, Owned
  <2>3. sess'[sessions[p]] = ss[sessions[p]]
    BY <1>1, <2>1, <2>2
  <2> QED
    BY <1>1, <2>1, <2>3 DEF Shows
<1>6. \A s : On(s)' = On(s) \ Q
  BY <1>4, <1>5 DEF On
<1>7. \A s \in Screens : Coming(s) = 0 /\ Coming(s)' = 0
  BY DEF Coming
<1>8. ASSUME NEW s \in Screens
      PROVE  /\ count[s] \in Nat /\ count[s] = Cardinality(On(s))
             /\ count'[s] = Cardinality(On(s)') /\ count'[s] \in Nat
             /\ count[s] > 0 <=> On(s) # {}
             /\ count'[s] > 0 <=> On(s)' # {}
             /\ s \in Z <=> On(s) # {} /\ On(s)' = {}
             /\ s \in streams <=> count[s] > 0
  <2>1. /\ IsFiniteSet(On(s)) /\ Cardinality(On(s)) = count[s] /\ count[s] \in Nat
        /\ Cardinality(On(s)) = 0 <=> On(s) = {}
        /\ s \in streams <=> count[s] > 0
    BY <1>7, CountedOn DEF CaptureInv
  <2>2. /\ IsFiniteSet(On(s) \ Q) /\ Cardinality(On(s) \ Q) \in Nat
        /\ Cardinality(On(s) \ Q) = Cardinality(On(s)) - Cardinality(On(s) \cap Q)
    BY <2>1, SplitSet
  <2>3. count'[s] = Cardinality(On(s) \ Q)
    BY <1>1, <2>1, <2>2
  <2>4. Cardinality(On(s) \ Q) = 0 <=> On(s) \ Q = {}
    BY <2>2, CountZero
  <2>5. On(s)' = On(s) \ Q
    BY <1>6
  <2>6. On(s) \subseteq Q <=> On(s) \ Q = {}
    OBVIOUS
  <2>7. s \in Z <=> On(s) # {} /\ On(s) \subseteq Q
    BY <1>3, <2>1
  <2> QED
    BY <2>1, <2>2, <2>3, <2>4, <2>5, <2>6, <2>7
<1>9. Counted'
  <2>1. IsFiniteSet(Registered')
    BY <1>4, SplitSet DEF CaptureInv, Counted
  <2>2. count' \in [Screens -> Nat] /\ streams' \subseteq Screens
    BY <1>1, <1>8 DEF CaptureInv, Counted
  <2>3. \A s \in Screens : s \in streams' <=> count'[s] > 0
    BY <1>1, <1>8
  <2>4. CaptureCounted'
    BY <1>7, <1>8, <2>2, <2>3, CountsAre
  <2> QED
    BY <2>1, <2>2, <2>4 DEF Counted
<1>10. Displayed'
  <2>1. Z \subseteq Screens
    BY <1>3
  <2>2. /\ vd' = [s \in Screens |-> IF s \in Z THEN "none" ELSE vd[s]]
        /\ vd' \in [Screens -> {"none", "auto", "asked"}]
        /\ live' \in 0 .. MaxDisplays /\ IsFiniteSet(Shown')
        /\ lost' \in Nat /\ live' = Cardinality(Shown') + lost'
    BY <1>1, <2>1, RemovalCounts DEF CaptureInv
  <2>3. ASSUME NEW s \in Screens, vd'[s] = "auto" PROVE count'[s] > 0
    <3>1. s \notin Z /\ vd[s] = "auto"
      BY <2>2, <2>3
    <3>2. count[s] > 0
      BY <3>1 DEF CaptureInv, Displayed
    <3> QED
      BY <1>8, <3>1, <3>2
  <2> QED
    BY <2>2, <2>3 DEF Displayed
<1> QED
  BY <1>9, <1>10 DEF CaptureInv

\* Nothing that is counted changes.
LEMMA SameCounts ==
  ASSUME HostInv, CaptureInv, NEW ss, Shows(ss), sess' = ss,
         UNCHANGED <<start, sessions, count, streams, vd, live, lost>>
  PROVE  CaptureInv'
<1>1. Registered' = Registered
  BY DEF Registered
<1>2. \A p \in Registered : sess'[sessions[p]].screen = sess[sessions[p]].screen
  BY DEF Registered, HostInv, HostShape, Owned, Shows
<1>3. \A s : On(s)' = On(s)
  BY <1>1, <1>2 DEF On
<1>4. start.at = "register" => sess'[start.obj].screen = sess[start.obj].screen
  BY DEF HostInv, StartFits, Shows
<1>5. Counted'
  BY <1>1, <1>3, <1>4 DEF CaptureInv, Counted, CaptureCounted
<1>6. Displayed'
  BY DEF CaptureInv, Displayed, Shown
<1> QED
  BY <1>5, <1>6 DEF CaptureInv

\* Nothing at all changes in the host but the lock and what waits for it.
LEMMA QuietCounts ==
  ASSUME HostInv, CaptureInv, UNCHANGED <<start, sessions, sess, count, streams, vd, live, lost>>
  PROVE  CaptureInv'
<1>1. Shows(sess)
  BY DEF Shows
<1> QED
  BY <1>1, SameCounts

LEMMA StopRunsCounts == HostInv /\ CaptureInv /\ StopRuns => CaptureInv'
<1> SUFFICES ASSUME HostInv, CaptureInv, StopRuns PROVE CaptureInv'
  OBVIOUS
<1>1. start.at = "idle" /\ UNCHANGED start /\ StopBody(Head(lock).peers, sess)
  BY DEF StopRuns, HostInv, StartFits
<1>2. Shows(sess)
  BY DEF Shows
<1> QED
  BY <1>1, <1>2, BodyCounts

LEMMA ClearCounts ==
  ASSUME HostInv, CaptureInv, ClearLeaseState, UNCHANGED start
  PROVE  CaptureInv'
<1>1. CASE lock = <<>> /\ StopBody(Registered, sess)
  <2>1. start.at = "idle" /\ Shows(sess)
    BY <1>1 DEF HostInv, StartFits, Shows
  <2> QED
    BY <1>1, <2>1, BodyCounts
<1>2. CASE UNCHANGED <<sessions, sess, count, streams, vd, live, lost>>
  BY <1>2, QuietCounts
<1> QED
  BY <1>1, <1>2 DEF ClearLeaseState

\* The tails of acceptRequest and stop(), answers, pings, timers and closes.
LEMMA SessionCounts ==
  ASSUME HostInv, CaptureInv, NEW o \in Objects, SessionStep(o)
  PROVE  CaptureInv'
<1>0. sess \in [Objects -> Session] /\ UNCHANGED start
  BY DEF HostInv, HostShape, SessionStep, SessionRuns, OfferSent, StopFinishes,
     AnswerReceived, Ping, TimerFires, PeerCloses
<1>1. ASSUME NEW r, sess[o].phase = "live" => r.screen = sess[o].screen
      PROVE  Shows([sess EXCEPT ![o] = r])
  BY <1>0, <1>1 DEF Shows
<1>2. ASSUME NEW r, sess[o].phase = "live" => r.screen = sess[o].screen, Close(o, r)
      PROVE  CaptureInv'
  <2> DEFINE ss == [sess EXCEPT ![o] = r]
  <2>1. Shows(ss)
    BY <1>1, <1>2
  <2> HIDE DEF ss
  <2>2. \/ lock = <<>> /\ StopBody({sess[o].peer}, ss)
        \/ sess' = ss /\ UNCHANGED <<sessions, count, streams, vd, live, lost>>
    BY <1>2 DEF Close, StopStreaming, ss
  <2>3. lock = <<>> => start.at = "idle"
    BY DEF HostInv, StartFits
  <2> QED
    BY <1>0, <2>1, <2>2, <2>3, BodyCounts, SameCounts
<1>3. ASSUME UNCHANGED <<sessions, count, streams, vd, live, lost>>,
             NEW r, sess[o].phase = "live" => r.screen = sess[o].screen,
             sess' = [sess EXCEPT ![o] = r]
      PROVE  CaptureInv'
  BY <1>0, <1>1, <1>3, SameCounts
<1>4. \A x \in Session : /\ [x EXCEPT !.accepting = FALSE].screen = x.screen
                         /\ [x EXCEPT !.linked = TRUE].screen = x.screen
                         /\ [x EXCEPT !.timer = TRUE].screen = x.screen
                         /\ [x EXCEPT !.closing = TRUE].screen = x.screen
                         /\ [x EXCEPT !.timer = FALSE, !.closing = TRUE].screen = x.screen
  BY DEF Session
<1>5. sess[o] \in Session
  BY <1>0
<1>6. ASSUME NEW sent \in BOOLEAN, OfferSent(o, sent) PROVE CaptureInv'
  <2>1. sess' = [sess EXCEPT ![o] = [sess[o] EXCEPT !.accepting = FALSE]]
    BY <1>6 DEF OfferSent
  <2> QED
    BY <1>3, <1>4, <1>5, <1>6, <2>1 DEF OfferSent
<1>7. CASE AnswerReceived(o)
  <2>1. CASE sessions[sess[o].peer] = o
    <3>1. sess' = [sess EXCEPT ![o] = [sess[o] EXCEPT !.linked = TRUE]]
      BY <1>7, <2>1 DEF AnswerReceived
    <3> QED
      BY <1>3, <1>4, <1>5, <1>7, <3>1 DEF AnswerReceived
  <2>2. CASE sessions[sess[o].peer] # o
    BY <1>0, <1>7, <2>2, QuietCounts DEF AnswerReceived
  <2> QED
    BY <2>1, <2>2
<1>8. CASE Ping(o)
  <2>1. sess' = [sess EXCEPT ![o] = [sess[o] EXCEPT !.timer = TRUE]]
    BY <1>8 DEF Ping
  <2> QED
    BY <1>3, <1>4, <1>5, <1>8, <2>1 DEF Ping
<1>9. CASE TimerFires(o)
  <2>1. sess[o].phase = "live" => Fired(o).screen = sess[o].screen
    BY <1>4, <1>5 DEF Fired
  <2> QED
    BY <1>2, <1>9, <2>1 DEF TimerFires
<1>10. CASE PeerCloses(o)
  BY <1>2, <1>4, <1>5, <1>10 DEF PeerCloses
<1>11. CASE StopFinishes(o)
  <2>1. sess[o].phase # "live"
    BY <1>11 DEF StopFinishes
  <2>2. \E r : sess' = [sess EXCEPT ![o] = r]
    BY <1>11 DEF StopFinishes
  <2> QED
    BY <1>3, <1>11, <2>1, <2>2 DEF StopFinishes
<1> QED
  BY <1>6, <1>7, <1>8, <1>9, <1>10, <1>11 DEF SessionStep, SessionRuns

-----------------------------------------------------------------------------
(* The steps of startStreaming                                             *)

\* A start that gives the lock back, or takes it, before it has counted anything.
LEMMA NothingCounted ==
  ASSUME CaptureInv, start.at \in {"idle", "display"},
         start'.at \in {"idle", "display", "capture"}, start'.at # "idle" => start'.screen \in Screens,
         start'.auto = FALSE, UNCHANGED <<sessions, sess, count, streams, vd, live, lost>>
  PROVE  CaptureInv'
<1>1. Registered' = Registered /\ \A s : On(s)' = On(s)
  BY DEF Registered, On
<1>2. Counted'
  BY <1>1 DEF CaptureInv, Counted, CaptureCounted
<1>3. Displayed'
  BY DEF CaptureInv, Displayed, Shown
<1> QED
  BY <1>2, <1>3 DEF CaptureInv

LEMMA EnterCounts == HostInv /\ CaptureInv /\ StartEnter => CaptureInv'
<1> SUFFICES ASSUME HostInv, CaptureInv, StartEnter PROVE CaptureInv'
  OBVIOUS
<1>1. /\ start.at = "idle" /\ Holder.screen \in Screens
      /\ UNCHANGED <<sessions, sess, count, streams, vd, live, lost>>
  BY HolderIsCall DEF StartEnter, StartAt, Call
<1>2. CASE start' = NoStart
  BY <1>1, <1>2, NothingCounted DEF NoStart
<1>3. CASE \E at \in {"display", "capture"} :
             start' = [NoStart EXCEPT !.at = at, !.screen = Holder.screen]
  BY <1>1, <1>3, NothingCounted DEF NoStart
<1> QED
  BY <1>2, <1>3 DEF StartEnter, Unlock

\* A display is created, in place of the one that the screen may have had.
LEMMA DisplayCounts ==
  ASSUME HostInv, CaptureInv, CreateDisplay \/ CreateDisplayFails
  PROVE  CaptureInv'
<1>1. CASE CreateDisplayFails
  <2>1. /\ start.at = "display" /\ start' = NoStart
        /\ start'.at = "idle" /\ start'.auto = FALSE
        /\ UNCHANGED <<sessions, sess, count, streams, vd>>
    BY <1>1 DEF CreateDisplayFails, StartAt, Unlock, NoStart
  <2>2. CASE UNCHANGED <<live, lost>>
    BY <2>1, <2>2, NothingCounted
  <2>3. CASE live < MaxDisplays /\ live' = live + 1 /\ lost' = lost + 1
    <3>1. Registered' = Registered /\ (\A s : On(s)' = On(s)) /\ Shown' = Shown
      BY <2>1 DEF Registered, On, Shown
    <3>2. Counted'
      BY <2>1, <3>1 DEF CaptureInv, Counted, CaptureCounted
    <3>3. /\ IsFiniteSet(Shown) /\ Cardinality(Shown) \in Nat /\ lost \in Nat
          /\ live = Cardinality(Shown) + lost /\ MaxDisplays \in Nat
      BY HostAssumption, FS_CardinalityType DEF CaptureInv, Displayed, HostAssumption
    <3>4. live' \in 0 .. MaxDisplays /\ lost' \in Nat /\ live' = Cardinality(Shown') + lost'
      BY <2>3, <3>1, <3>3
    <3> QED
      BY <2>1, <3>1, <3>2, <3>4 DEF CaptureInv, Displayed
  <2> QED
    BY <1>1, <2>2, <2>3 DEF CreateDisplayFails
<1>2. CASE CreateDisplay
  <2> DEFINE x == start.screen
             auto == Holder.mode = "default"
  <2>1. /\ start \in Start /\ start.at = "display" /\ x \in Screens
        /\ live < MaxDisplays /\ live' = live + 1
        /\ lost' = IF vd[x] = "none" THEN lost ELSE lost + 1
        /\ vd' = [vd EXCEPT ![x] = IF auto THEN "auto" ELSE "asked"]
        /\ start' = [start EXCEPT !.at = "capture", !.auto = auto]
        /\ UNCHANGED <<sessions, sess, count, streams>>
    BY <1>2 DEF CreateDisplay, StartAt, CaptureInv, Counted, HostInv, HostShape
  <2> HIDE DEF auto
  <2>2. start'.at = "capture" /\ start'.screen = x /\ start'.auto = auto
    BY <2>1 DEF Start
  <2>3. Registered' = Registered /\ \A s : On(s)' = On(s)
    BY <2>1 DEF Registered, On
  <2>4. Counted'
    BY <2>1, <2>2, <2>3 DEF CaptureInv, Counted, CaptureCounted
  <2>5. vd' \in [Screens -> {"none", "auto", "asked"}]
    BY <2>1 DEF CaptureInv, Displayed
  <2>6. Shown' = Shown \cup {x}
    BY <2>1, <2>5 DEF CaptureInv, Displayed, Shown
  <2>7. /\ IsFiniteSet(Shown) /\ Cardinality(Shown) \in Nat /\ lost \in Nat
        /\ live = Cardinality(Shown) + lost /\ MaxDisplays \in Nat
        /\ x \in Shown <=> vd[x] # "none"
    BY <2>1, HostAssumption, FS_CardinalityType DEF CaptureInv, Displayed, HostAssumption, Shown
  <2>8. /\ IsFiniteSet(Shown \cup {x})
        /\ Cardinality(Shown \cup {x}) = IF x \in Shown THEN Cardinality(Shown)
                                                        ELSE Cardinality(Shown) + 1
    BY <2>7, FS_AddElement
  <2>9. /\ live' \in 0 .. MaxDisplays /\ IsFiniteSet(Shown')
        /\ lost' \in Nat /\ live' = Cardinality(Shown') + lost'
    BY <2>1, <2>6, <2>7, <2>8
  <2>10. start'.auto => vd'[x] = "auto"
    BY <2>1, <2>2 DEF CaptureInv, Displayed
  <2>11. ASSUME NEW s \in Screens, vd'[s] = "auto"
         PROVE  count'[s] > 0 \/ (start'.at = "capture" /\ start'.screen = s /\ start'.auto)
    <3>1. CASE s = x
      BY <2>1, <2>2, <2>11, <3>1 DEF CaptureInv, Displayed
    <3>2. CASE s # x
      BY <2>1, <2>11, <3>2 DEF CaptureInv, Displayed
    <3> QED
      BY <3>1, <3>2
  <2> QED
    BY <2>2, <2>4, <2>5, <2>9, <2>10, <2>11 DEF CaptureInv, Displayed
<1> QED
  BY <1>1, <1>2

\* The capture of the screen is shared or begins; the start is counted.
LEMMA CaptureCounts ==
  ASSUME HostInv, CaptureInv, ShareCapture \/ Capture
  PROVE  CaptureInv'
<1> DEFINE x == start.screen
<1>1. /\ start \in Start /\ start.at = "capture" /\ x \in Screens
      /\ start' = [start EXCEPT !.at = "accept"]
      /\ UNCHANGED <<sessions, sess, vd, live, lost>>
  BY DEF ShareCapture, Capture, StartAt, CaptureInv, Counted, HostInv, HostShape
<1>2. start'.at = "accept" /\ start'.screen = x
  BY <1>1 DEF Start
<1>3. \A s \in Screens : /\ Coming(s) = 0 /\ Coming(s)' = IF s = x THEN 1 ELSE 0
                         /\ On(s)' = On(s)
  BY <1>1, <1>2 DEF Coming, On, Registered
<1>4. /\ count \in [Screens -> Nat] /\ streams \subseteq Screens
      /\ count[x] \in Nat /\ (x \in streams <=> count[x] > 0)
  BY <1>1, CountedOn DEF CaptureInv, Counted
<1>5. count' = [count EXCEPT ![x] = count[x] + 1] /\ streams' = streams \cup {x}
  <2>1. CASE ShareCapture
    BY <2>1 DEF ShareCapture
  <2>2. CASE Capture
    <3>1. x \notin streams /\ count' = [count EXCEPT ![x] = 1] /\ streams' = streams \cup {x}
      BY <2>2 DEF Capture
    <3>2. count[x] = 0
      BY <1>4, <3>1
    <3> QED
      BY <3>1, <3>2
  <2> QED
    BY <2>1, <2>2
<1>6. count' \in [Screens -> Nat] /\ streams' \subseteq Screens
  BY <1>1, <1>4, <1>5
<1>7. \A s \in Screens : count'[s] = IF s = x THEN count[s] + 1 ELSE count[s]
  BY <1>4, <1>5
<1>8. ASSUME NEW s \in Screens
      PROVE  count'[s] = Cardinality(On(s)') + Coming(s)' /\ (s \in streams' <=> count'[s] > 0)
  <2>1. /\ Cardinality(On(s)) \in Nat /\ count[s] = Cardinality(On(s)) + Coming(s)
        /\ s \in streams <=> count[s] > 0
    BY CountedOn DEF CaptureInv
  <2> QED
    BY <1>3, <1>5, <1>7, <2>1
<1>9. CaptureCounted'
  BY <1>6, <1>8, CountsAre
<1>10. Counted'
  BY <1>1, <1>2, <1>6, <1>9 DEF CaptureInv, Counted, Registered
<1>11. Displayed'
  <2>1. \A s \in Screens : vd'[s] = "auto" => count'[s] > 0
    BY <1>1, <1>4, <1>7 DEF CaptureInv, Displayed
  <2>2. Shown' = Shown
    BY <1>1 DEF Shown
  <2> QED
    BY <1>1, <1>2, <2>1, <2>2 DEF CaptureInv, Displayed
<1> QED
  BY <1>10, <1>11 DEF CaptureInv

\* A start that fails on the way takes its automatic display with it.
LEMMA FailCounts ==
  ASSUME HostInv, CaptureInv, NEW removed \in BOOLEAN, CaptureFails(removed)
  PROVE  CaptureInv'
<1> DEFINE x == start.screen
<1>1. /\ start.at = "capture" /\ x \in Screens /\ x \notin streams /\ start' = NoStart
      /\ start'.at = "idle"
      /\ UNCHANGED <<sessions, sess, count, streams>>
  BY DEF CaptureFails, StartAt, CaptureInv, Counted, Unlock, NoStart
<1>2. Registered' = Registered /\ \A s : On(s)' = On(s)
  BY <1>1 DEF Registered, On
<1>3. Counted'
  BY <1>1, <1>2 DEF CaptureInv, Counted, CaptureCounted
<1>4. CASE start.auto \/ removed
  <2>1. RemoveDisplays({x})
    BY <1>4 DEF CaptureFails
  <2>2. /\ vd' = [s \in Screens |-> IF s \in {x} THEN "none" ELSE vd[s]]
        /\ vd' \in [Screens -> {"none", "auto", "asked"}]
        /\ live' \in 0 .. MaxDisplays /\ IsFiniteSet(Shown')
        /\ lost' \in Nat /\ live' = Cardinality(Shown') + lost'
    BY <1>1, <2>1, RemovalCounts DEF CaptureInv
  <2>3. \A s \in Screens : vd'[s] = "auto" => count'[s] > 0
    BY <1>1, <2>2 DEF CaptureInv, Displayed
  <2> QED
    BY <1>1, <1>3, <2>2, <2>3 DEF CaptureInv, Displayed
<1>5. CASE ~start.auto /\ ~removed
  <2>1. UNCHANGED <<vd, live, lost>>
    BY <1>5 DEF CaptureFails
  <2>2. Shown' = Shown
    BY <2>1 DEF Shown
  <2>3. \A s \in Screens : vd'[s] = "auto" => count'[s] > 0
    BY <1>1, <1>5, <2>1 DEF CaptureInv, Displayed
  <2> QED
    BY <1>1, <1>3, <2>1, <2>2, <2>3 DEF CaptureInv, Displayed
<1> QED
  BY <1>4, <1>5

\* The new object is not registered yet: the start is still counted by itself.
LEMMA AcceptCounts ==
  ASSUME HostInv, CaptureInv, NEW o \in Objects, Accept(o)
  PROVE  CaptureInv'
<1>1. /\ start \in Start /\ sess \in [Objects -> Session]
      /\ start.at = "accept" /\ start.screen \in Screens /\ sess[o].phase = "unused"
      /\ start' = [start EXCEPT !.at = "register", !.obj = o]
      /\ UNCHANGED <<sessions, count, streams, vd, live, lost>>
  BY DEF Accept, StartAt, CaptureInv, Counted, HostInv, HostShape
<1>2. start'.at = "register" /\ start'.screen = start.screen /\ start'.obj = o
  BY <1>1 DEF Start
<1>3. sess'[o].screen = start.screen /\ \A x \in Objects \ {o} : sess'[x] = sess[x]
  BY <1>1 DEF Accept, NoSession
<1>4. Registered' = Registered
  BY <1>1 DEF Registered
<1>5. \A p \in Registered : sess'[sessions[p]] = sess[sessions[p]]
  BY <1>1, <1>3 DEF Registered, HostInv, HostShape, Owned
<1>6. \A s : On(s)' = On(s)
  BY <1>1, <1>4, <1>5 DEF On
<1>7. Counted'
  BY <1>1, <1>2, <1>3, <1>4, <1>6 DEF CaptureInv, Counted, CaptureCounted
<1>8. Displayed'
  BY <1>1, <1>2 DEF CaptureInv, Displayed, Shown
<1> QED
  BY <1>7, <1>8 DEF CaptureInv

\* The session takes over the count of its start.
LEMMA RegisterCounts == HostInv /\ CaptureInv /\ Register => CaptureInv'
<1> SUFFICES ASSUME HostInv, CaptureInv, Register PROVE CaptureInv'
  OBVIOUS
<1> DEFINE x == start.screen
           h == Holder.peer
<1>1. /\ sessions \in [Peers -> Objects \cup {None}] /\ sess \in [Objects -> Session]
      /\ start.at = "register" /\ start.obj \in Objects /\ x \in Screens
      /\ sess[start.obj].screen = x /\ sess[start.obj].phase = "live"
      /\ sessions[h] = None /\ h \in Peers /\ start.obj # None
  BY HolderIsCall, HostAssumption DEF Register, StartAt, CaptureInv, Counted, HostInv,
     HostShape, StartFits, Call, HostAssumption
<1>2. /\ sessions' = [sessions EXCEPT ![h] = start.obj]
      /\ sess' = [sess EXCEPT ![start.obj].late = Holder.late]
      /\ start' = NoStart /\ start'.at = "idle"
      /\ UNCHANGED <<count, streams, vd, live, lost>>
  BY DEF Register, Unlock, NoStart
<1>3. \A o \in Objects : sess'[o].screen = sess[o].screen
  BY <1>1, <1>2 DEF Session
<1> HIDE DEF h
<1>4. Registered' = Registered \cup {h} /\ h \notin Registered
  BY <1>1, <1>2 DEF Registered
<1>5. /\ \A p \in Registered : sessions'[p] = sessions[p] /\ sessions[p] \in Objects
      /\ sessions'[h] = start.obj
  BY <1>1, <1>2, <1>4 DEF Registered
<1>6. ASSUME NEW s
      PROVE  On(s)' = (IF s = x THEN On(s) \cup {h} ELSE On(s)) /\ h \notin On(s)
  <2>1. \A p \in Registered : sess'[sessions'[p]].screen = sess[sessions[p]].screen
    BY <1>3, <1>5
  <2>2. sess'[sessions'[h]].screen = x
    BY <1>1, <1>3, <1>5
  <2> QED
    BY <1>4, <2>1, <2>2 DEF On
<1>7. ASSUME NEW s \in Screens
      PROVE  count'[s] = Cardinality(On(s)') + Coming(s)' /\ (s \in streams' <=> count'[s] > 0)
  <2>1. /\ IsFiniteSet(On(s)) /\ Cardinality(On(s)) \in Nat
        /\ count[s] = Cardinality(On(s)) + Coming(s)
        /\ s \in streams <=> count[s] > 0
    BY CountedOn DEF CaptureInv
  <2>2. Coming(s)' = 0 /\ Coming(s) = IF s = x THEN 1 ELSE 0
    BY <1>1, <1>2 DEF Coming
  <2>3. CASE s = x
    <3>1. Cardinality(On(s)') = Cardinality(On(s)) + 1
      BY <1>6, <2>1, <2>3, FS_AddElement
    <3> QED
      BY <1>2, <2>1, <2>2, <2>3, <3>1
  <2>4. CASE s # x
    <3>1. On(s)' = On(s)
      BY <1>6, <2>4
    <3> QED
      BY <1>2, <2>1, <2>2, <2>4, <3>1
  <2> QED
    BY <2>3, <2>4
<1>8. count' \in [Screens -> Nat] /\ streams' \subseteq Screens
  BY <1>2 DEF CaptureInv, Counted
<1>9. CaptureCounted'
  BY <1>7, <1>8, CountsAre
<1>10. IsFiniteSet(Registered')
  BY <1>4, FS_AddElement DEF CaptureInv, Counted
<1>11. Counted'
  BY <1>2, <1>8, <1>9, <1>10 DEF Counted
<1>12. Displayed'
  BY <1>1, <1>2 DEF CaptureInv, Displayed, Shown
<1> QED
  BY <1>11, <1>12 DEF CaptureInv

-----------------------------------------------------------------------------
(* The theorems                                                            *)

LEMMA CaptureInvStep ==
  ASSUME HostInv, CaptureInv, [Next]_vars
  PROVE  CaptureInv'
<1>1. CASE HostStep
  <2>1. CASE \E c \in calls : Validate(c)
    BY <2>1, QuietCounts DEF Validate
  <2>2. CASE LockStep
    BY <2>2, StopRunsCounts, EnterCounts, DisplayCounts, CaptureCounts, FailCounts,
       AcceptCounts, RegisterCounts DEF LockStep, StartStep
  <2>3. CASE \E o \in Objects : SessionStep(o)
    BY <2>3, SessionCounts
  <2> QED
    BY <1>1, <2>1, <2>2, <2>3 DEF HostStep
<1>2. ASSUME NEW t \in Tokens, LeaseAssigned(t) \/ CredentialsSaved(t)
      PROVE  CaptureInv'
  BY <1>2, QuietCounts DEF LeaseAssigned, CredentialsSaved, mvars
<1>3. ASSUME NEW t \in Tokens, LeaseRelease(t)
      PROVE  CaptureInv'
  BY <1>3, QuietCounts, ClearCounts DEF LeaseRelease, mvars
<1>4. CASE ConnectionLost
  BY <1>4, ClearCounts DEF ConnectionLost
<1>5. ASSUME NEW p \in Peers, NEW kind \in Kinds, NEW password \in assigned \cup {None},
             RemoteSessionRequested(p, kind, password)
      PROVE  CaptureInv'
  BY <1>5, QuietCounts DEF RemoteSessionRequested
<1>6. CASE UNCHANGED vars
  BY <1>6, QuietCounts DEF vars, mvars
<1> QED
  BY <1>1, <1>2, <1>3, <1>4, <1>5, <1>6 DEF Next

LEMMA CaptureInit == Init => CaptureInv
<1> SUFFICES ASSUME Init PROVE CaptureInv
  OBVIOUS
<1>1. Registered = {} /\ Shown = {} /\ \A s : On(s) = {}
  BY DEF Init, HostInit, Registered, Shown, On
<1>2. start.at = "idle" /\ start.auto = FALSE
  BY DEF Init, HostInit, NoStart
<1>3. IsFiniteSet({}) /\ Cardinality({}) = 0
  BY FS_EmptySet
<1>4. Counted
  <2>1. \A s : Cardinality(On(s)) = 0
    BY <1>1, <1>3, Zenon
  <2>2. \A s \in Screens : count[s] = 0 /\ s \notin streams
    BY DEF Init, HostInit
  <2>3. CaptureCounted
    BY <1>2, <2>1, <2>2 DEF CaptureCounted
  <2> QED
    BY <1>1, <1>2, <1>3, <2>3 DEF Init, HostInit, Counted
<1>5. Displayed
  <2>1. MaxDisplays \in Nat /\ live = 0 /\ lost = 0 /\ Cardinality(Shown) = 0
    BY <1>1, <1>3, HostAssumption DEF Init, HostInit, HostAssumption
  <2> QED
    BY <1>1, <1>2, <1>3, <2>1 DEF Init, HostInit, Displayed
<1> QED
  BY <1>4, <1>5 DEF CaptureInv

LEMMA CaptureAlways == Spec => []CaptureInv
<1>1. HostInv /\ CaptureInv /\ [Next]_vars => CaptureInv'
  BY CaptureInvStep
<1> QED
  BY <1>1, AgentInv, CaptureInit, PTL DEF Spec

\* The count of a screen's capture is the number of its registered sessions and
\* of the start that is about to register one, and the capture exists exactly as
\* long.
THEOREM SharedCaptureCorrect == Spec => []CaptureCounted
<1>1. CaptureInv => CaptureCounted
  BY DEF CaptureInv, Counted
<1> QED
  BY <1>1, CaptureAlways, PTL

\* Every virtual display has its entry or is lost, and one that the host made up
\* and whose entry nobody has overwritten is in use or belongs to the start that
\* made it, whose finally clause removes it.  Of a lost one nothing is promised.
THEOREM DisplaysCorrect == Spec => []DisplaysAccounted
<1>1. CaptureInv => DisplaysAccounted
  BY DEF CaptureInv, Displayed, DisplaysAccounted, Shown
<1> QED
  BY <1>1, CaptureAlways, PTL

\* What the agent and the host keep has its type; among it, the number of
\* displays never falls below zero although entries are overwritten.
THEOREM AgentTypeCorrect == Spec => []TypeOK
<1> DEFINE AgentTypes == /\ connectable \in BOOLEAN /\ headless \in BOOLEAN
                         /\ applying \subseteq Tokens
<1>1. Init => AgentTypes
  BY DEF Init, HostInit
<1>2. AgentTypes /\ [Next]_vars => AgentTypes'
  BY DEF Next, vars, avars, LeaseAssigned, CredentialsSaved, LeaseRelease, ConnectionLost,
     ClearLeaseState, RemoteSessionRequested, HostStep, Validate, LockStep, StopRuns, StartStep,
     StartEnter, CreateDisplay, CreateDisplayFails, ShareCapture, Capture, CaptureFails, Accept,
     Register, SessionStep, SessionRuns, OfferSent, StopFinishes, AnswerReceived, Ping,
     TimerFires, PeerCloses
<1>3. HostInv /\ TokensFit /\ CaptureInv /\ AgentTypes => TypeOK
  <2> SUFFICES ASSUME HostInv, TokensFit, CaptureInv, AgentTypes PROVE TypeOK
    OBVIOUS
  <2>1. Cardinality(Shown) \in Nat /\ live = Cardinality(Shown) + lost /\ lost \in Nat
    BY FS_CardinalityType DEF CaptureInv, Displayed
  <2>2. lost \in 0 .. live
    BY <2>1
  <2> QED
    BY <2>2 DEF HostInv, HostShape, TokensFit, CaptureInv, Counted, Displayed, TypeOK, HostTypeOK
<1> QED
  BY <1>1, <1>2, <1>3, AgentInv, CaptureAlways, PTL DEF Spec

=============================================================================
