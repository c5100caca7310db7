------------------------------- MODULE NodeAgent -------------------------------
(***************************************************************************)
(* The node agent's message handlers (services/node_agent_service.dart)    *)
(* over the streaming host.  lease_assigned opens the host with the lease  *)
(* token as connect password; lease_release, and in GUI mode the loss of   *)
(* the server connection, clear the credentials and stop the sessions.     *)
(* Handlers are asynchronous and not serialised: a handler that awaits the *)
(* preferences store is overtaken by the next message.                     *)
(***************************************************************************)
EXTENDS StreamedManager

VARIABLES
    headless,   \* NodeAgentConfig.isHeadless
    leaseToken, \* _activeLeaseToken
    applying,   \* lease_assigned handlers that await the preferences store
    assigned,   \* history: the leases assigned so far
    over        \* history: the leases whose credentials were cleared

avars == <<headless, leaseToken, applying, assigned, over>>
vars  == <<hash, connectable, mvars, avars>>

TypeOK ==
    /\ HostTypeOK
    /\ headless \in BOOLEAN
    /\ leaseToken \in Tokens \cup {None}
    /\ applying \subseteq Tokens
    /\ assigned \subseteq Tokens
    /\ over \subseteq assigned

Init ==
    /\ HostInit
    /\ headless \in BOOLEAN
    /\ leaseToken = None
    /\ applying = {}
    /\ assigned = {}
    /\ over = {}

\* History: a start that is in the lock when the lease ends.
MarkLate(q) == [i \in DOMAIN q |-> IF q[i].op = "start" THEN [q[i] EXCEPT !.call.late = TRUE]
                                                        ELSE q[i]]

\* Mutant: the sessions are left running.
ClearKeepsSessions ==
    /\ hash' = None
    /\ connectable' = FALSE
    /\ over' = assigned
    /\ lock' = MarkLate(lock)
    /\ UNCHANGED <<sessions, sess, count, streams, vd, live, lost>>

\* _clearLeaseState: stopAllSessions queues a stop for every session that is
\* registered now; a start in the lock is not among them.
ClearLeaseState ==
    /\ hash' = None
    /\ connectable' = FALSE
    /\ over' = assigned
    /\ \/ /\ lock = <<>>
          /\ StopBody(Registered, sess)
          /\ UNCHANGED lock
       \/ /\ lock # <<>>
          /\ lock' = IF Registered = {} THEN MarkLate(lock)
                     ELSE Append(MarkLate(lock), [op |-> "stop", peers |-> Registered])
          /\ UNCHANGED <<sessions, sess, count, streams, vd, live, lost>>

-----------------------------------------------------------------------------
(* Messages of the server                                                  *)

\* lease_assigned, up to the await in _applyLeaseCredentials, which headless
\* mode skips.
LeaseAssigned(t) ==
    /\ t \notin assigned
    /\ assigned' = assigned \cup {t}
    /\ leaseToken' = t
    /\ hash' = t
    /\ IF headless THEN connectable' = TRUE /\ UNCHANGED applying
                   ELSE applying' = applying \cup {t} /\ UNCHANGED connectable
    /\ UNCHANGED <<headless, over, mvars>>

\* _applyLeaseCredentials goes on, whatever has happened meanwhile; then
\* lease_ready is sent.
CredentialsSaved(t) ==
    /\ t \in applying
    /\ applying' = applying \ {t}
    /\ connectable' = TRUE
    /\ UNCHANGED <<hash, headless, leaseToken, assigned, over, mvars>>

\* lease_release of any lease the node has had: the lease id is compared only
\* for _activeLeaseId, which nothing else reads.
LeaseRelease(t) ==
    /\ t \in assigned
    /\ Cardinality(Waiting("stop")) < MaxStops
    /\ leaseToken' = None
    /\ IF headless
       THEN UNCHANGED <<hash, connectable, over, mvars>>
       ELSE ClearLeaseState /\ UNCHANGED <<calls, start, offers>>
    /\ UNCHANGED <<headless, applying, assigned>>

\* onClose, and init() of the next attempt: the token is kept.
ConnectionLost ==
    /\ ~headless
    /\ Cardinality(Waiting("stop")) < MaxStops
    /\ ClearLeaseState
    /\ UNCHANGED <<calls, start, offers, headless, leaseToken, applying, assigned>>

\* remoteSessionRequested: an empty password is filled with the lease token.  A
\* request that has none even so is refused, and changes nothing.
RemoteSessionRequested(p, kind, password) ==
    /\ password # None \/ leaseToken # None
    /\ StartStreaming(p, kind, IF password = None THEN leaseToken ELSE password)
    /\ UNCHANGED <<hash, connectable, lock, start, sessions, sess, count, streams, vd, live, lost,
                   offers, avars>>

Next ==
    \/ HostStep /\ UNCHANGED avars
    \/ \E t \in Tokens : LeaseAssigned(t) \/ CredentialsSaved(t) \/ LeaseRelease(t)
    \/ ConnectionLost
    \/ \E p \in Peers, kind \in Kinds, password \in assigned \cup {None} :
          RemoteSessionRequested(p, kind, password)

Spec == Init /\ [][Next]_vars

-----------------------------------------------------------------------------
(* Properties                                                              *)

\* In GUI mode a session outlives its lease only if its start was already in
\* the lock when the lease ended: every other session of a lease that is over
\* is on its way out, and none is started with its token any more.
OnlyInFlightOutlives ==
    ~headless => \A p \in Registered :
        \/ sess[sessions[p]].token \notin over
        \/ sess[sessions[p]].late
        \/ \E i \in Waiting("stop") : p \in lock[i].peers

=============================================================================
