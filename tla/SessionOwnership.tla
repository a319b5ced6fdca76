-------------------------- MODULE SessionOwnership --------------------------
(***************************************************************************)
(* The durable half of the hosted runtime: the rows of MySQL that decide   *)
(* which server process may execute an account and which live session it   *)
(* executes.  Every action is one transaction of SessionRepository; each   *)
(* of them starts by locking the account's row of streamer_accounts, so it *)
(* is atomic.  A transaction that returns an error changes nothing and is  *)
(* a stuttering step; a transaction that commits although its caller reads *)
(* an error (a lost reply) is an unanswered claim here.                    *)
(*                                                                         *)
(* The callers are as liberal as the interface permits: any fence that was *)
(* ever answered may be presented at any time, in any order, and a session *)
(* may be started with reconciliation or without.                          *)
(* What this module guarantees therefore holds for every caller, however   *)
(* its own threads interleave.  AccountRuntime models the real caller.     *)
(***************************************************************************)
EXTENDS Naturals

CONSTANTS
  Accounts,     \* rows of streamer_accounts
  Tokens,       \* one OwnerToken per server process
  LegacyToken,  \* the derived token of the bootstrap rows of migration 0007
  SessionIds,   \* values of live_sessions.id
  MaxEpoch,     \* the largest fencing_epoch: math.MaxUint64 in the code
  MaxEvents,    \* bound: events committed into one session
  NoSession,    \* no row of runtime_active_session_guards
  NoFence,      \* a session id that is not used yet
  NotEnded,     \* ended_at IS NULL
  Reconciled    \* ended by ReconcileSession, on behalf of a lost owner

ASSUME OwnershipAssumption ==
  /\ LegacyToken \notin Tokens
  /\ NoSession \notin SessionIds
  /\ MaxEpoch \in Nat \ {0}
  /\ MaxEvents \in Nat

Epochs == 1 .. MaxEpoch
AllTokens == Tokens \cup {LegacyToken}
Fences == [account : Accounts, token : AllTokens, epoch : Epochs]

ASSUME SentinelAssumption ==
  /\ NoFence \notin Fences
  /\ NotEnded \notin Fences \cup {Reconciled}
  /\ Reconciled \notin Fences

VARIABLES
  enabled,  \* [Accounts -> BOOLEAN]: disabled_at IS NULL
  owner,    \* runtime_account_owners; epoch 0 stands for a missing row and
            \* live for expires_at > UTC_TIMESTAMP(6)
  guard,    \* runtime_active_session_guards, keyed by account
  opener,   \* live_sessions: the fence that inserted the row, or NoFence
  endedBy,  \* live_sessions.ended_at: NotEnded, or who set it
  events,   \* events committed into the session's aggregate
  issued    \* the fences ClaimOwnership has answered

vars == <<enabled, owner, guard, opener, endedBy, events, issued>>

Fence(a, t, e) == [account |-> a, token |-> t, epoch |-> e]
OwnerRow(t, e, l) == [token |-> t, epoch |-> e, live |-> l]
OwnerRows == [token : AllTokens, epoch : Epochs, live : BOOLEAN]
NoOwner == OwnerRow(LegacyToken, 0, FALSE)
LegacyFence(a) == Fence(a, LegacyToken, 1)

Exists(s) == opener[s] # NoFence
OpenSessions(a) ==
  {s \in SessionIds : Exists(s) /\ opener[s].account = a /\ endedBy[s] = NotEnded}

\* validateOwnerFence: the exact row, and not expired.
Holds(f) ==
  /\ owner[f.account].token = f.token
  /\ owner[f.account].epoch = f.epoch
  /\ owner[f.account].live

-----------------------------------------------------------------------------
(***************************************************************************)
(* Sessions that were open before fencing existed are given an expired     *)
(* bootstrap row, so that their first claimant takes over and reconciles.  *)
(***************************************************************************)
Init ==
  \E legacy \in [Accounts -> SessionIds \cup {NoSession}] :
    /\ \A a, b \in Accounts : legacy[a] = legacy[b] => a = b \/ legacy[a] = NoSession
    /\ enabled = [a \in Accounts |-> TRUE]
    /\ guard = legacy
    /\ owner = [a \in Accounts |->
                  IF legacy[a] = NoSession THEN NoOwner ELSE OwnerRow(LegacyToken, 1, FALSE)]
    /\ opener = [s \in SessionIds |->
                   IF \E a \in Accounts : legacy[a] = s
                   THEN LegacyFence(CHOOSE a \in Accounts : legacy[a] = s)
                   ELSE NoFence]
    /\ endedBy = [s \in SessionIds |-> NotEnded]
    /\ events = [s \in SessionIds |-> 0]
    /\ issued = {}

-----------------------------------------------------------------------------
(***************************************************************************)
(* Ownership.  answered is FALSE when COMMIT succeeds and its reply is     *)
(* lost: ClaimOwnership then returns ErrUnavailable and nobody learns the  *)
(* fence.                                                                  *)
(***************************************************************************)
Answer(f, answered) == issued' = IF answered THEN issued \cup {f} ELSE issued

\* OwnerClaim.Reconcile of a claim made now.
ClaimReconciles(a) == owner[a].epoch # 0 /\ ~owner[a].live

\* No row yet: epoch 1.
FirstClaim(a, t, answered) ==
  /\ enabled[a]
  /\ owner[a].epoch = 0
  /\ owner' = [owner EXCEPT ![a] = OwnerRow(t, 1, TRUE)]
  /\ Answer(Fence(a, t, 1), answered)
  /\ UNCHANGED <<enabled, guard, opener, endedBy, events>>

\* The caller already holds the account: same epoch, nothing to reconcile.
\* Another token's unexpired row is ErrOwnershipConflict and no step.
ClaimAgain(a, t, answered) ==
  /\ enabled[a]
  /\ owner[a].live
  /\ owner[a].token = t
  /\ Answer(Fence(a, t, owner[a].epoch), answered)
  /\ UNCHANGED <<enabled, owner, guard, opener, endedBy, events>>

\* Mutant of Takeover: the epoch does not advance.
TakeoverTo(a, t, answered, e) ==
  /\ enabled[a]
  /\ owner[a].epoch # 0
  /\ ~owner[a].live
  /\ owner' = [owner EXCEPT ![a] = OwnerRow(t, e, TRUE)]
  /\ Answer(Fence(a, t, e), answered)
  /\ UNCHANGED <<enabled, guard, opener, endedBy, events>>

TakeoverKeepsEpoch(a, t, answered) == TakeoverTo(a, t, answered, owner[a].epoch)

\* An expired row, whoever left it: a new epoch, which the caller must
\* reconcile.
Takeover(a, t, answered) ==
  /\ enabled[a]
  /\ owner[a].epoch # 0
  /\ ~owner[a].live
  /\ owner[a].epoch < MaxEpoch
  /\ owner' = [owner EXCEPT ![a] = OwnerRow(t, owner[a].epoch + 1, TRUE)]
  /\ Answer(Fence(a, t, owner[a].epoch + 1), answered)
  /\ UNCHANGED <<enabled, guard, opener, endedBy, events>>

ClaimOwnership(a, t, answered) ==
  \/ FirstClaim(a, t, answered)
  \/ ClaimAgain(a, t, answered)
  \/ Takeover(a, t, answered)

\* Mutant of RenewOwnership: expiry is not looked at.
RenewExpired(f) ==
  /\ enabled[f.account]
  /\ owner[f.account].token = f.token /\ owner[f.account].epoch = f.epoch
  /\ owner' = [owner EXCEPT ![f.account].live = TRUE]
  /\ UNCHANGED <<enabled, guard, opener, endedBy, events, issued>>

\* Moves expires_at of a fence that is still held.
RenewOwnership(f) ==
  /\ enabled[f.account]
  /\ Holds(f)
  /\ owner' = [owner EXCEPT ![f.account].live = TRUE]
  /\ UNCHANGED <<enabled, guard, opener, endedBy, events, issued>>

\* Expires the row now.  Neither the account's state nor expiry matters.
ReleaseOwnership(f) ==
  /\ owner[f.account].token = f.token
  /\ owner[f.account].epoch = f.epoch
  /\ owner' = [owner EXCEPT ![f.account].live = FALSE]
  /\ UNCHANGED <<enabled, guard, opener, endedBy, events, issued>>

\* Time passes: expires_at is reached.
Expire(a) ==
  /\ owner[a].live
  /\ owner' = [owner EXCEPT ![a].live = FALSE]
  /\ UNCHANGED <<enabled, guard, opener, endedBy, events, issued>>

-----------------------------------------------------------------------------
(***************************************************************************)
(* Sessions.                                                               *)
(***************************************************************************)

\* Mutant of ReconcileOpen: only the guard is replaced.
ReconcileNothing(f) == endedBy

\* What reconcileOpenSession leaves of endedBy: the account's open session,
\* if there is one, is ended under fence f.
ReconcileOpen(f) ==
  [r \in SessionIds |-> IF r \in OpenSessions(f.account) THEN f ELSE endedBy[r]]

\* The insert of a second guard violates the primary key: without
\* reconciliation a leftover guard makes StartSession fail.
StartSession(f, reconcile, s) ==
  LET a == f.account IN
  /\ enabled[a]
  /\ Holds(f)
  /\ ~Exists(s)
  /\ guard[a] # NoSession => reconcile
  /\ endedBy' = IF reconcile THEN ReconcileOpen(f) ELSE endedBy
  /\ opener' = [opener EXCEPT ![s] = f]
  /\ guard' = [guard EXCEPT ![a] = s]
  /\ UNCHANGED <<enabled, owner, events, issued>>

EndSession(f, s) ==
  /\ Holds(f)
  /\ guard[f.account] = s
  /\ endedBy[s] = NotEnded
  /\ guard' = [guard EXCEPT ![f.account] = NoSession]
  /\ endedBy' = [endedBy EXCEPT ![s] = f]
  /\ UNCHANGED <<enabled, owner, opener, events, issued>>

\* Mutant of ReconcileSession: the opener may still hold its fence.
ReconcileHeld(s) ==
  LET a == opener[s].account IN
  /\ opener[s] \in issued
  /\ endedBy[s] = NotEnded /\ guard[a] = s
  /\ guard' = [guard EXCEPT ![a] = NoSession]
  /\ endedBy' = [endedBy EXCEPT ![s] = Reconciled]
  /\ UNCHANGED <<enabled, owner, opener, events, issued>>

\* For a session whose opener was fenced off; repeating it changes nothing.
ReconcileSession(s) ==
  LET a == opener[s].account IN
  /\ opener[s] \in issued
  /\ ~Holds(opener[s])
  /\ endedBy[s] = NotEnded => guard[a] = s
  /\ guard' = IF guard[a] = s THEN [guard EXCEPT ![a] = NoSession] ELSE guard
  /\ endedBy' = IF endedBy[s] = NotEnded THEN [endedBy EXCEPT ![s] = Reconciled]
                                         ELSE endedBy
  /\ UNCHANGED <<enabled, owner, opener, events, issued>>

\* Mutant of CommitRuntimeEvent: the fence is checked, the session is not.
CommitLate(f, s) ==
  /\ enabled[f.account]
  /\ Holds(f)
  /\ opener[s] = f
  /\ events[s] < MaxEvents
  /\ events' = [events EXCEPT ![s] = @ + 1]
  /\ UNCHANGED <<enabled, owner, guard, opener, endedBy, issued>>

\* The write of one gift event: fence, enabled account and open session are
\* all checked in the transaction.
CommitRuntimeEvent(f, s) ==
  /\ enabled[f.account]
  /\ Holds(f)
  /\ guard[f.account] = s
  /\ endedBy[s] = NotEnded
  /\ events[s] < MaxEvents
  /\ events' = [events EXCEPT ![s] = @ + 1]
  /\ UNCHANGED <<enabled, owner, guard, opener, endedBy, issued>>

-----------------------------------------------------------------------------
(***************************************************************************)
(* The administrator's switch (identity/admin.go); it touches no runtime   *)
(* row.                                                                    *)
(***************************************************************************)
DisableAccount(a) ==
  /\ enabled[a]
  /\ enabled' = [enabled EXCEPT ![a] = FALSE]
  /\ UNCHANGED <<owner, guard, opener, endedBy, events, issued>>

EnableAccount(a) ==
  /\ ~enabled[a]
  /\ enabled' = [enabled EXCEPT ![a] = TRUE]
  /\ UNCHANGED <<owner, guard, opener, endedBy, events, issued>>

Next ==
  \/ \E a \in Accounts, t \in Tokens, answered \in BOOLEAN : ClaimOwnership(a, t, answered)
  \/ \E f \in issued : RenewOwnership(f) \/ ReleaseOwnership(f)
  \/ \E a \in Accounts : Expire(a) \/ DisableAccount(a) \/ EnableAccount(a)
  \/ \E f \in issued, s \in SessionIds :
       \/ \E reconcile \in BOOLEAN : StartSession(f, reconcile, s)
       \/ EndSession(f, s)
       \/ CommitRuntimeEvent(f, s)
  \/ \E s \in SessionIds : ReconcileSession(s)

Spec == Init /\ [][Next]_vars

-----------------------------------------------------------------------------
TypeOK ==
  /\ enabled \in [Accounts -> BOOLEAN]
  /\ owner \in [Accounts -> OwnerRows \cup {NoOwner}]
  /\ guard \in [Accounts -> SessionIds \cup {NoSession}]
  /\ opener \in [SessionIds -> Fences \cup {NoFence}]
  /\ endedBy \in [SessionIds -> Fences \cup {NotEnded, Reconciled}]
  /\ events \in [SessionIds -> 0 .. MaxEvents]
  /\ issued \subseteq Fences

\* The guard row of an account names its open session, and there is no other:
\* an account never has two open sessions, and never an open one that the
\* guard (hence StartSession's key check and CommitRuntimeEvent) does not see.
GuardNamesTheOpenSession ==
  \A a \in Accounts : OpenSessions(a) = IF guard[a] = NoSession THEN {} ELSE {guard[a]}

\* No issued fence is ahead of the account's row, and one that carries the
\* row's epoch carries its token: what makes OneHolderPerEpoch inductive.
FencesBehindRow ==
  \A f \in issued :
    /\ f.epoch <= owner[f.account].epoch
    /\ f.epoch = owner[f.account].epoch => f.token = owner[f.account].token

\* An epoch of an account is given to one process only, however claims,
\* lost replies, expiries and releases interleave: a fence names its holder.
OneHolderPerEpoch ==
  \A f, g \in issued : f.account = g.account /\ f.epoch = g.epoch => f.token = g.token

\* A fence that was refused once is refused for ever.  The runtime relies on it
\* when it sets needsReconcile and never presents the fence again.
LostFencesStayLost ==
  [][\A f \in issued : ~Holds(f) => ~Holds(f)']_vars

\* While the process that opened a session holds its fence nobody else ends the
\* session: whoever ends it holds the account the session belongs to, or ends
\* it for an opener that holds nothing any more.
OnlyTheHolderEndsASession ==
  [][\A s \in SessionIds :
       Exists(s) /\ endedBy[s] = NotEnded /\ endedBy'[s] # NotEnded =>
         IF endedBy'[s] = Reconciled
         THEN ~Holds(opener[s])
         ELSE endedBy'[s].account = opener[s].account /\ Holds(endedBy'[s])]_vars

\* Once a session is ended, its aggregate and its end are final: a worker that
\* was fenced off, or is late, adds nothing to it.
EndedSessionsAreFrozen ==
  [][\A s \in SessionIds :
       endedBy[s] # NotEnded => events'[s] = events[s] /\ endedBy'[s] = endedBy[s]]_vars

\* What a reader of the tables may rely on: one open session per account, named
\* by its guard, and one process per epoch.
OwnershipIsUnambiguous == GuardNamesTheOpenSession /\ OneHolderPerEpoch

\* What is decided stays decided: a lost fence, and who ended a session, how,
\* and with what in it.
FencingIsFinal == LostFencesStayLost /\ OnlyTheHolderEndsASession /\ EndedSessionsAreFrozen
=============================================================================
