---------------------------- MODULE StreamedManager ----------------------------
(***************************************************************************)
(* The streaming host: StreamedManager (services/streamed_manager.dart)    *)
(* and the host's half of StreamingSession (entities/session.dart).        *)
(*                                                                         *)
(* A controller's request runs startStreaming, which awaits between its    *)
(* steps; stopStreaming is called by ping timers, by peers that disconnect *)
(* and by the end of a lease.  Both queue on one FIFO lock.  Sessions that *)
(* watch the same screen share one capture, counted by screen, and a       *)
(* screen may be a virtual display that the host created.                  *)
(*                                                                         *)
(* Dart runs one isolate: a step here is what runs between two awaits.     *)
(* Signalling and data-channel messages of the peers are inputs.           *)
(***************************************************************************)
EXTENDS Naturals, Sequences, FiniteSets

CONSTANTS
    Peers,       \* websocket session ids of controllers
    Objects,     \* StreamingSession objects alive at once
    Tokens,      \* lease tokens, which serve as connect passwords
    Screens,     \* screen ids
    Primary,     \* screen id 0
    Kinds,       \* the <<streamMode, targetScreenId>> that controllers ask for
    Monitor,     \* TRUE iff a physical display is attached
    MaxDisplays, \* virtual displays the driver can hold
    MaxStarts,   \* startStreaming calls that may be under way at once
    MaxStops,    \* stops that may wait before the node agent adds more
    None

Modes == {"default", "extend", "occupy"}

ASSUME HostAssumption ==
    /\ Primary \in Screens
    /\ Kinds \subseteq Modes \X Screens
    /\ \A k \in Kinds : k[1] = "occupy" => k[2] = Primary  \* device_tile_page.dart:1031
    /\ Monitor \in BOOLEAN
    /\ MaxDisplays \in Nat \ {0}
    /\ MaxStarts \in Nat \ {0}
    /\ MaxStops \in Nat \ {0}
    /\ None \notin Peers \cup Objects \cup Tokens

VARIABLES
    hash,        \* the token whose hash is connectPasswordHash, None for ''
    connectable, \* ApplicationInfo.connectable
    calls,       \* startStreaming calls before their validation
    lock,        \* StreamedManager._lock: the head holds it, the rest wait
    start,       \* how far the startStreaming that holds the lock has come
    sessions,    \* StreamedManager.sessions
    sess,        \* the StreamingSession objects
    count,       \* localVideoStreamsCount, 0 for no entry
    streams,     \* the screens in localVideoStreams
    vd,          \* virtualDisplayIds: who asked for the display of a screen
    live,        \* virtual displays that exist
    lost,        \* history: the displays among them whose id is forgotten
    offers       \* objects whose offer is out and not yet answered

mvars == <<calls, lock, start, sessions, sess, count, streams, vd, live, lost, offers>>

-----------------------------------------------------------------------------
(* Records                                                                 *)

\* late is a history flag: the lease ended while this call was in the lock.
Call == [peer : Peers, mode : Modes, screen : Screens, token : Tokens, late : BOOLEAN]

Entry == [op : {"start"}, call : Call] \cup [op : {"stop"}, peers : SUBSET Peers]

Start == [at     : {"idle", "display", "capture", "accept", "register"},
          screen : Screens \cup {None},
          auto   : BOOLEAN,                 \* autoVirtualDisplayId is set
          obj    : Objects \cup {None}]

Session == [phase     : {"unused", "live", "stopping", "stopped"},
            peer      : Peers \cup {None},
            screen    : Screens \cup {None},
            token     : Tokens \cup {None},
            accepting : BOOLEAN,            \* acceptRequest holds the session lock
            linked    : BOOLEAN,            \* the answer is applied
            timer     : BOOLEAN,            \* _pingTimeoutTimer is running
            closing   : BOOLEAN,            \* isClosing_
            late      : BOOLEAN]

NoStart   == [at |-> "idle", screen |-> None, auto |-> FALSE, obj |-> None]
NoSession == [phase |-> "unused", peer |-> None, screen |-> None, token |-> None,
              accepting |-> FALSE, linked |-> FALSE, timer |-> FALSE,
              closing |-> FALSE, late |-> FALSE]

HostTypeOK ==
    /\ hash \in Tokens \cup {None}
    /\ connectable \in BOOLEAN
    /\ calls \subseteq Call
    /\ lock \in Seq(Entry)
    /\ start \in Start
    /\ sessions \in [Peers -> Objects \cup {None}]
    /\ sess \in [Objects -> Session]
    /\ count \in [Screens -> Nat]
    /\ streams \subseteq Screens
    /\ vd \in [Screens -> {"none", "auto", "asked"}]
    /\ live \in 0 .. MaxDisplays
    /\ lost \in 0 .. live
    /\ offers \subseteq Objects

HostInit ==
    /\ hash = None
    /\ connectable = FALSE
    /\ calls = {}
    /\ lock = <<>>
    /\ start = NoStart
    /\ sessions = [p \in Peers |-> None]
    /\ sess = [o \in Objects |-> NoSession]
    /\ count = [s \in Screens |-> 0]
    /\ streams = {}
    /\ vd = [s \in Screens |-> "none"]
    /\ live = 0
    /\ lost = 0
    /\ offers = {}

Registered == {p \in Peers : sessions[p] # None}

\* The registered sessions that show screen s.
On(s) == {p \in Registered : sess[sessions[p]].screen = s}

Waiting(op) == {i \in DOMAIN lock : lock[i].op = op}

-----------------------------------------------------------------------------
(* stopStreaming and stopAllSessions                                       *)

\* The screens whose last session is among Q.
Emptied(Q) == {s \in Screens : On(s) # {} /\ On(s) \subseteq Q /\ count[s] = Cardinality(On(s))}

\* A session x on which stop() is called.  What it shows, and for whom, is not
\* read again.
Stopping(x) == [x EXCEPT !.phase = "stopping", !.timer = FALSE,
                         !.screen = None, !.token = None, !.late = FALSE]

\* _removeVirtualDisplay for the entries of the screens in Z.  The driver may
\* refuse, or the call raise (refused): the entry goes all the same.
RemoveDisplays(Z) ==
    \E refused \in SUBSET {s \in Z : vd[s] # "none"} :
        /\ vd' = [s \in Screens |-> IF s \in Z THEN "none" ELSE vd[s]]
        /\ live' = live - Cardinality({s \in Z : vd[s] # "none"} \ refused)
        /\ lost' = lost + Cardinality(refused)

\* Mutant: the count is left as it is.
StopBodyKeepsCount(P, ss) ==
    LET Q == P \cap Registered
    IN  /\ sessions' = [p \in Peers |-> IF p \in Q THEN None ELSE sessions[p]]
        /\ sess' = [o \in Objects |-> IF \E p \in Q : sessions[p] = o THEN Stopping(ss[o]) ELSE ss[o]]
        /\ UNCHANGED <<count, streams, vd, live, lost>>

\* Mutant: the display of an emptied screen is left in place.
StopBodyKeepsDisplay(P, ss) ==
    LET Q == P \cap Registered
    IN  /\ sessions' = [p \in Peers |-> IF p \in Q THEN None ELSE sessions[p]]
        /\ sess' = [o \in Objects |-> IF \E p \in Q : sessions[p] = o THEN Stopping(ss[o]) ELSE ss[o]]
        /\ count' = [s \in Screens |-> count[s] - Cardinality(On(s) \cap Q)]
        /\ streams' = streams \ Emptied(Q)
        /\ UNCHANGED <<vd, live, lost>>

\* The body of stopStreaming for the peers in P, up to the point where each
\* session's stop() waits for its own lock.  ss are the session objects.
StopBody(P, ss) ==
    LET Q == P \cap Registered
        Z == Emptied(Q)
    IN  /\ sessions' = [p \in Peers |-> IF p \in Q THEN None ELSE sessions[p]]
        /\ sess' = [o \in Objects |-> IF \E p \in Q : sessions[p] = o THEN Stopping(ss[o]) ELSE ss[o]]
        /\ count' = [s \in Screens |-> count[s] - Cardinality(On(s) \cap Q)]
        /\ streams' = streams \ Z
        /\ RemoveDisplays(Z)

\* Mutant: the body does not wait for the lock.
StopStreamingUnlocked(P, ss) == StopBody(P, ss) /\ UNCHANGED lock

\* _lock.synchronized runs the body at once if the lock is free and queues it
\* otherwise.
StopStreaming(P, ss) ==
    \/ /\ lock = <<>>
       /\ StopBody(P, ss)
       /\ UNCHANGED lock
    \/ /\ lock # <<>>
       /\ lock' = Append(lock, [op |-> "stop", peers |-> P])
       /\ sess' = ss
       /\ UNCHANGED <<sessions, count, streams, vd, live, lost>>

\* A stop that waited has the lock.
StopRuns ==
    /\ lock # <<>>
    /\ Head(lock).op = "stop"
    /\ StopBody(Head(lock).peers, sess)
    /\ lock' = Tail(lock)
    /\ UNCHANGED <<hash, connectable, calls, start, offers>>

-----------------------------------------------------------------------------
(* startStreaming                                                          *)

\* The call of a peer whose request has arrived, up to its first await.
StartStreaming(p, kind, token) ==
    /\ Cardinality(calls) + Cardinality(Waiting("start")) < MaxStarts
    /\ calls' = calls \cup {[peer |-> p, mode |-> kind[1], screen |-> kind[2],
                             token |-> token, late |-> FALSE]}

\* Mutant: the credentials were checked before the await.
ValidateNothing(c) ==
    /\ c \in calls
    /\ calls' = calls \ {c}
    /\ lock' = Append(lock, [op |-> "start", call |-> c])
    /\ UNCHANGED <<hash, connectable, start, sessions, sess, count, streams, vd, live, lost,
                   offers>>

\* The checks after the await; a call that passes waits for the lock.
Validate(c) ==
    /\ c \in calls
    /\ calls' = calls \ {c}
    /\ lock' = IF connectable /\ c.token = hash THEN Append(lock, [op |-> "start", call |-> c])
                                               ELSE lock
    /\ UNCHANGED <<hash, connectable, start, sessions, sess, count, streams, vd, live, lost,
                   offers>>

Holder == Head(lock).call

StartAt(at) == lock # <<>> /\ Head(lock).op = "start" /\ start.at = at

\* The end of the synchronized block.
Unlock == lock' = Tail(lock) /\ start' = NoStart

\* The lock is acquired; a peer that has a session keeps it.
StartEnter ==
    /\ StartAt("idle")
    /\ IF Holder.peer \in Registered
       THEN Unlock
       ELSE /\ start' = [NoStart EXCEPT !.at = IF Holder.mode # "default" \/ (~Monitor /\ live = 0)
                                               THEN "display" ELSE "capture",
                                        !.screen = Holder.screen]
            /\ UNCHANGED lock
    /\ UNCHANGED <<hash, connectable, calls, sessions, sess, count, streams, vd, live, lost,
                   offers>>

\* _createVirtualDisplay, asked for by the mode or, in default mode, because
\* the machine has no display.  An entry that the screen had is overwritten,
\* and the display it named is never removed.
CreateDisplay ==
    /\ StartAt("display")
    /\ live < MaxDisplays
    /\ live' = live + 1
    /\ lost' = IF vd[start.screen] = "none" THEN lost ELSE lost + 1
    /\ vd' = [vd EXCEPT ![start.screen] = IF Holder.mode = "default" THEN "auto" ELSE "asked"]
    /\ start' = [start EXCEPT !.at = "capture", !.auto = (Holder.mode = "default")]
    /\ UNCHANGED <<hash, connectable, calls, lock, sessions, sess, count, streams, offers>>

\* It returns null: there is no driver, it holds as many displays as it can, or
\* a call after createDisplay() raises, which leaves a display behind.
CreateDisplayFails ==
    /\ StartAt("display")
    /\ \/ UNCHANGED <<live, lost>>
       \/ /\ live < MaxDisplays
          /\ live' = live + 1
          /\ lost' = lost + 1
    /\ Unlock
    /\ UNCHANGED <<hash, connectable, calls, sessions, sess, count, streams, vd, offers>>

\* The screen is captured already.
ShareCapture ==
    /\ StartAt("capture")
    /\ start.screen \in streams
    /\ count' = [count EXCEPT ![start.screen] = @ + 1]
    /\ start' = [start EXCEPT !.at = "accept"]
    /\ UNCHANGED <<hash, connectable, calls, lock, sessions, sess, streams, vd, live, lost,
                   offers>>

\* getSources and getDisplayMedia.  Exclusive mode turns the screen into the
\* primary one, which by HostAssumption it asked for in the first place.
Capture ==
    /\ StartAt("capture")
    /\ start.screen \notin streams
    /\ streams' = streams \cup {start.screen}
    /\ count' = [count EXCEPT ![start.screen] = 1]
    /\ start' = [start EXCEPT !.at = "accept"]
    /\ UNCHANGED <<hash, connectable, calls, lock, sessions, sess, vd, live, lost, offers>>

\* Mutant: no finally clause.
CaptureFailsKeepsDisplay(removed) ==
    /\ StartAt("capture")
    /\ start.screen \notin streams
    /\ Unlock
    /\ UNCHANGED <<hash, connectable, calls, sessions, sess, count, streams, vd, live, lost,
                   offers>>

\* Mutant: the finally clause removes a display that the start did not make.
CaptureFailsAlwaysRemoves(removed) ==
    /\ StartAt("capture")
    /\ start.screen \notin streams
    /\ vd' = [vd EXCEPT ![start.screen] = "none"]
    /\ live' = live - 1
    /\ Unlock
    /\ UNCHANGED <<hash, connectable, calls, sessions, sess, count, streams, lost, offers>>

\* Any of the failures on the way.  The finally clause removes an automatic
\* display; one that the mode asked for is removed only by the wait for it
\* timing out (removed), and otherwise stays.
CaptureFails(removed) ==
    /\ StartAt("capture")
    /\ start.screen \notin streams
    /\ removed => Holder.mode # "default" /\ vd[start.screen] # "none"
    /\ IF start.auto \/ removed
       THEN RemoveDisplays({start.screen})
       ELSE UNCHANGED <<vd, live, lost>>
    /\ Unlock
    /\ UNCHANGED <<hash, connectable, calls, sessions, sess, count, streams, offers>>

\* The session object; acceptRequest runs up to its first await and goes on
\* by itself, holding the session's own lock.
Accept(o) ==
    /\ StartAt("accept")
    /\ sess[o].phase = "unused"
    /\ sess' = [sess EXCEPT ![o] = [NoSession EXCEPT
                  !.phase = "live", !.peer = Holder.peer, !.screen = start.screen,
                  !.token = Holder.token, !.accepting = TRUE, !.timer = TRUE]]
    /\ start' = [start EXCEPT !.at = "register", !.obj = o]
    /\ UNCHANGED <<hash, connectable, calls, lock, sessions, count, streams, vd, live, lost, offers>>

\* After one more await the session is registered and the lock released.
Register ==
    /\ StartAt("register")
    /\ sessions' = [sessions EXCEPT ![Holder.peer] = start.obj]
    /\ sess' = [sess EXCEPT ![start.obj].late = Holder.late]
    /\ Unlock
    /\ UNCHANGED <<hash, connectable, calls, count, streams, vd, live, lost, offers>>

-----------------------------------------------------------------------------
(* The host's half of a session                                            *)

\* acceptRequest ends: the offer is on its way, unless it failed.
OfferSent(o, sent) ==
    /\ sess[o].accepting
    /\ sess' = [sess EXCEPT ![o].accepting = FALSE]
    /\ offers' = IF sent THEN offers \cup {o} ELSE offers
    /\ UNCHANGED <<hash, connectable, calls, lock, start, sessions, count, streams, vd,
                   live, lost>>

\* The answer to o's offer arrives: it goes to the session that is registered
\* for the peer, and to nobody if there is none (yet).
AnswerReceived(o) ==
    /\ o \in offers
    /\ offers' = offers \ {o}
    /\ sess' = IF sessions[sess[o].peer] = o THEN [sess EXCEPT ![o].linked = TRUE] ELSE sess
    /\ UNCHANGED <<hash, connectable, calls, lock, start, sessions, count, streams, vd,
                   live, lost>>

\* A ping, or the peer connection reports itself connected: the timer starts
\* again, whatever the state of the session, until its channel is closed.
Ping(o) ==
    /\ sess[o].linked
    /\ sess[o].phase \in {"live", "stopping"}
    /\ sess' = [sess EXCEPT ![o].timer = TRUE]
    /\ UNCHANGED <<hash, connectable, calls, lock, start, sessions, count, streams, vd,
                   live, lost, offers>>

\* o after its timer has fired; a stopped object had nothing else to hold it.
Fired(o) == IF sess[o].phase = "stopped" THEN NoSession
            ELSE [sess[o] EXCEPT !.timer = FALSE, !.closing = TRUE]

\* close() of o, which becomes r: the peer's session, which need not be o, is
\* stopped.
Close(o, r) ==
    IF sess[o].closing
    THEN /\ sess' = [sess EXCEPT ![o] = r]
         /\ UNCHANGED <<lock, sessions, count, streams, vd, live, lost>>
    ELSE StopStreaming({sess[o].peer}, [sess EXCEPT ![o] = r])

\* Mutant: the timer of an object that is not registered (yet) does nothing.
TimerFiresIfRegistered(o) ==
    /\ sess[o].timer
    /\ IF sessions[sess[o].peer] = o
       THEN Close(o, Fired(o))
       ELSE /\ sess' = [sess EXCEPT ![o] = [Fired(o) EXCEPT !.closing = @]]
            /\ UNCHANGED <<lock, sessions, count, streams, vd, live, lost>>
    /\ UNCHANGED <<hash, connectable, calls, start, offers>>

\* No ping for the whole period of the timer.
TimerFires(o) ==
    /\ sess[o].timer
    /\ Close(o, Fired(o))
    /\ UNCHANGED <<hash, connectable, calls, start, offers>>

\* LP_DISCONNECT from the peer, or the peer connection has failed.
PeerCloses(o) ==
    /\ sess[o].linked
    /\ sess[o].phase \in {"live", "stopping"}
    /\ ~sess[o].closing
    /\ Close(o, [sess[o] EXCEPT !.closing = TRUE])
    /\ UNCHANGED <<hash, connectable, calls, start, offers>>

\* stop() gets the session's lock: channels and peer connection are closed.
\* The object is garbage, unless a timer that was started again holds it.
StopFinishes(o) ==
    /\ sess[o].phase = "stopping"
    /\ ~sess[o].accepting
    /\ sess' = [sess EXCEPT ![o] = IF @.timer THEN [@ EXCEPT !.phase = "stopped", !.linked = FALSE]
                                             ELSE NoSession]
    /\ offers' = offers \ {o}
    /\ UNCHANGED <<hash, connectable, calls, lock, start, sessions, count, streams, vd,
                   live, lost>>

-----------------------------------------------------------------------------

StartStep ==
    \/ StartEnter \/ CreateDisplay \/ CreateDisplayFails
    \/ ShareCapture \/ Capture
    \/ \E removed \in BOOLEAN : CaptureFails(removed)
    \/ \E o \in Objects : Accept(o)
    \/ Register

LockStep == StopRuns \/ StartStep

\* What runs without being asked: the tails of acceptRequest and of stop().
SessionRuns(o) ==
    \/ \E sent \in BOOLEAN : OfferSent(o, sent)
    \/ StopFinishes(o)

SessionStep(o) ==
    \/ SessionRuns(o)
    \/ AnswerReceived(o) \/ Ping(o) \/ TimerFires(o) \/ PeerCloses(o)

HostStep ==
    \/ \E c \in calls : Validate(c)
    \/ LockStep
    \/ \E o \in Objects : SessionStep(o)

-----------------------------------------------------------------------------
(* Properties                                                              *)

\* The capture of a screen is shared exactly: it is counted once for every
\* registered session that shows it and for the start that is about to
\* register one, and it exists as long as somebody is counted.
CaptureCounted ==
    \A s \in Screens :
        /\ count[s] = Cardinality(On(s))
                         + IF start.at \in {"accept", "register"} /\ start.screen = s
                           THEN 1 ELSE 0
        /\ s \in streams <=> count[s] > 0

\* No session object lives on its own.  It is the one registered for its peer
\* or about to be, and somebody will stop it if its peer falls silent: its
\* ping timer runs, or a stop for its peer waits in the lock.  The timer may
\* fire before the session is registered; then the stop waits behind the start
\* that registers it.
SessionIsWatched ==
    \A o \in Objects : sess[o].phase = "live" =>
        /\ sessions[sess[o].peer] = o \/ start.obj = o
        /\ \/ sess[o].timer
           \/ \E i \in Waiting("stop") : sess[o].peer \in lock[i].peers

\* Every virtual display that exists is on record, to be removed with the last
\* session on its screen, or lost for good: its entry was overwritten by an
\* extended or exclusive start on the same screen, or the driver failed after
\* it was made or refused to remove it.  One that the host made up because
\* there was none, and that is still on record, has sessions or is being
\* started on.  A lost one outlives its sessions, whoever asked for it.
DisplaysAccounted ==
    /\ live = Cardinality({s \in Screens : vd[s] # "none"}) + lost
    /\ \A s \in Screens : vd[s] = "auto" =>
          count[s] > 0 \/ (start.at = "capture" /\ start.screen = s)

=============================================================================
