--------------------------- MODULE AccountRuntime ---------------------------
(***************************************************************************)
(* One account inside one server process (runtime/manager.go and the       *)
(* lifecycle half of runtime/session.go), running against the durable rows *)
(* of SessionOwnership.                                                    *)
(*                                                                         *)
(* The threads are the outbox consumer (which starts and stops executions  *)
(* as the room goes live and offline), MutateRoom, the disable hook and    *)
(* its drain, the stale-ownership cleanup, the heartbeat, the event worker *)
(* and Shutdown.  All but the last three of them hold the account's gate   *)
(* (opGate) for the whole of an operation: gate says which operation is    *)
(* running and before which of its steps it stands.  OperationGate shows   *)
(* that the gate is a FIFO lock; here it is just free or taken.            *)
(*                                                                         *)
(* A step is one database transaction or one section under account.mu.  A  *)
(* transaction may fail without effect (CallFails), and it may commit and  *)
(* lose its reply: the two look the same to the caller.                    *)
(***************************************************************************)
EXTENDS SessionOwnership

CONSTANTS
  Account,    \* the account
  Me,         \* this process's OwnerToken; other tokens are other processes
  RoomEvents, \* the kinds of outbox event that occur
  Clients     \* who else acts: "rooms" (MutateRoom), "administrator",
              \* "processes" (the other servers), "shutdown"

ASSUME RuntimeAssumption ==
  /\ Account \in Accounts
  /\ Me \in Tokens
  /\ RoomEvents \subseteq {"live", "offline", "join", "leave"}
  /\ Clients \subseteq {"rooms", "administrator", "processes", "shutdown"}

VARIABLES
  account,   \* accountRuntime
  exec,      \* activeSession, by session id
  gate,      \* who holds opGate and where it is
  room,      \* roomTransition of the account's room, and its next event
  beat,      \* the renewal in flight: its fence and its stage
  hook,      \* AccountDisabled's goroutine waits for the gate
  forgets,   \* forgetTransitionAccount calls that wait for transitionGate
  shutdown   \* running, closing, queued (at the gate), closed (heartbeat
             \* stopped), done

memory == <<account, exec, gate, room, beat, hook, forgets, shutdown>>
database == vars
all == <<database, memory>>

None == NoFence  \* the invalid OwnerFence{}

FreeGate == [op |-> "none", at |-> "none", then |-> "none",
             session |-> NoSession, fence |-> None, claim |-> None]
GateFor(op, at) == [FreeGate EXCEPT !.op = op, !.at = at]
Free == gate.op = "none"
At(op, at) == gate.op = op /\ gate.at = at
Goto(at) == [gate EXCEPT !.at = at]

\* account.current, else account.transitionPending.
Attached == IF account.current # NoSession THEN account.current ELSE account.pending

\* cleanupFence, else the fence the session was started under.
UsingFence(s) == IF exec[s].fence # None THEN exec[s].fence ELSE opener[s]

\* The phases before cleanupPhaseEnded: the session admits events, its event
\* channel is closed, its worker and its processor are done.
Running == {"started", "closing", "drained"}

NewSession == [phase |-> "started", fence |-> None, lost |-> FALSE]

RuntimeInit ==
  /\ Init
  /\ account = [owner |-> None, reconcile |-> FALSE, current |-> NoSession,
                pending |-> NoSession, stale |-> FALSE, target |-> NoSession,
                staleRelease |-> None, disabled |-> FALSE, draining |-> FALSE,
                shutting |-> FALSE, operation |-> FALSE]
  /\ exec = [s \in SessionIds |-> [NewSession EXCEPT !.phase = "none"]]
  /\ gate = FreeGate
  /\ room = [live |-> FALSE, member |-> TRUE, active |-> FALSE, owner |-> None,
             event |-> "none", applying |-> FALSE]
  /\ beat = [stage |-> "idle", fence |-> None]
  /\ hook = FALSE
  /\ forgets = {}
  /\ shutdown = "running"

-----------------------------------------------------------------------------
(***************************************************************************)
(* Sections under account.mu that several threads run.                     *)
(***************************************************************************)

\* account.owner and account.reconcile are reset if the owner is still f.
DropOwner(acc, f) ==
  IF acc.owner = f THEN [acc EXCEPT !.owner = None, !.reconcile = FALSE] ELSE acc

Detach(acc, s) ==
  [acc EXCEPT !.current = IF @ = s THEN NoSession ELSE @,
              !.pending = IF @ = s THEN NoSession ELSE @]

\* beginStaleCleanup: the process may no longer use its fence.  A second loss
\* only adds a fence to release, if there was none.
BeginStale(target, release) ==
  IF account.stale
  THEN /\ account' = [account EXCEPT !.staleRelease = IF @ = None THEN release ELSE @]
       /\ UNCHANGED exec
  ELSE /\ account' = [account EXCEPT !.stale = TRUE, !.target = target,
                                     !.staleRelease = release]
       /\ exec' = [s \in SessionIds |->
                     IF s = target
                     THEN [exec[s] EXCEPT !.fence = release, !.lost = release = None]
                     ELSE exec[s]]

\* Mutant of MarkDisabled: the drain is not started.
MarkOnly(acc) == [acc EXCEPT !.disabled = TRUE]

\* Under a stale cleanup there is no drain, and one that waits to be repeated
\* finds closeDone replaced.
MarkDisabled(acc) ==
  [acc EXCEPT !.disabled = TRUE,
              !.draining = ~acc.stale /\ (acc.disabled => @)]

\* An operation that gives up: the consumer keeps its event, the loops of
\* stale cleanup and Shutdown go round again without leaving the gate, and a
\* drain is retried unless the process is closing.
Abandon ==
  /\ gate' = IF gate.op \in {"stale", "shutdown"} THEN [Goto("look") EXCEPT !.session = NoSession]
             ELSE IF gate.then = "return" THEN Goto("done") ELSE FreeGate
  /\ room' = [room EXCEPT !.applying = @ /\ gate.op \notin {"start", "stop"}]
  /\ account' = [account EXCEPT !.draining = @ /\ ~(gate.op = "drain" /\ account.shutting)]

\* releaseOwner, and where to go after it.
ReleaseThen(f, then) == [gate EXCEPT !.at = "release", !.fence = f, !.then = then,
                                     !.session = NoSession]

\* The entry of advanceSessionCleanup: a release fence replaces the session's,
\* unless it is the one that is known to be lost.  claim is what the operation
\* has to remember for afterwards.
Enter(s, f, then, claim) ==
  /\ exec' = IF f # None /\ (~exec[s].lost \/ f # opener[s])
             THEN [exec EXCEPT ![s].fence = f, ![s].lost = FALSE]
             ELSE exec
  /\ gate' = [gate EXCEPT !.session = s, !.then = then, !.claim = claim,
                          !.at = CASE exec[s].phase \in Running -> "drain"
                                   [] exec[s].phase = "ended" -> "settle"
                                   [] OTHER -> "done"]

-----------------------------------------------------------------------------
(***************************************************************************)
(* The outbox consumer.  The head of the outbox is applied again and again *)
(* until ApplyRoomEvent succeeds; applying is transitionGate.  Everything  *)
(* behind the head waits, so one event is enough, and any event that makes *)
(* sense after the one before it may come next.                            *)
(***************************************************************************)
Announce(e) ==
  /\ room.event = "none"
  /\ CASE e = "live" -> ~room.live
       [] e = "offline" -> room.live
       [] e = "join" -> ~room.member
       [] e = "leave" -> room.member
  /\ room' = [room EXCEPT !.event = e]
  /\ UNCHANGED <<database, account, exec, gate, beat, hook, forgets, shutdown>>

\* accounts that are not in activeAccounts, and the other way round
WantsStart ==
  /\ ~room.active
  /\ \/ room.event = "live" /\ room.member
     \/ room.event = "join" /\ room.live

WantsStop ==
  \/ room.event = "leave" /\ room.active
  \/ room.event = "offline" /\ (room.active \/ room.owner # None)

BeginEvent ==
  /\ shutdown = "running"
  /\ room.event # "none"
  /\ ~room.applying
  /\ room' = [room EXCEPT !.applying = TRUE]
  /\ UNCHANGED <<database, account, exec, gate, beat, hook, forgets, shutdown>>

\* The context of the consumer is cancelled before it has the gate.
InterruptEvent ==
  /\ room.applying
  /\ shutdown # "running"
  /\ gate.op \notin {"start", "stop"}
  /\ room' = [room EXCEPT !.applying = FALSE]
  /\ UNCHANGED <<database, account, exec, gate, beat, hook, forgets, shutdown>>

\* There is a published session and its events are not closed.
Admitting == account.current # NoSession /\ exec[account.current].phase = "started"

\* Every account is where it should be.  setTransitionAdmission refuses a live
\* event while an active account does not admit events.
Applied == room.applying /\ ~WantsStart /\ ~WantsStop /\ gate.op \notin {"start", "stop"}

FinishEvent ==
  /\ Applied
  /\ room.event = "live" /\ room.active => Admitting
  /\ room' = [room EXCEPT !.applying = FALSE, !.event = "none",
                          !.live = IF room.event = "live" THEN TRUE
                                   ELSE @ /\ room.event # "offline",
                          !.member = IF room.event = "join" THEN TRUE
                                     ELSE @ /\ room.event # "leave"]
  /\ UNCHANGED <<database, account, exec, gate, beat, hook, forgets, shutdown>>

RefuseAdmission ==
  /\ Applied
  /\ room.event = "live" /\ room.active
  /\ Admitting => gate.at = "drain" /\ gate.session = account.current
  /\ room' = [room EXCEPT !.applying = FALSE]
  /\ UNCHANGED <<database, account, exec, gate, beat, hook, forgets, shutdown>>

-----------------------------------------------------------------------------
(***************************************************************************)
(* startTransitionAccount and startRoom.                                   *)
(***************************************************************************)
AcquireStart ==
  /\ room.applying /\ WantsStart
  /\ Free
  /\ gate' = GateFor("start", "look")
  /\ UNCHANGED <<database, account, exec, room, beat, hook, forgets, shutdown>>

Blocked == account.stale \/ account.shutting \/ account.disabled

\* A session that an earlier attempt left unpublished.
StartCleansUp ==
  /\ At("start", "look")
  /\ account.pending # NoSession
  /\ Enter(account.pending, opener[account.pending], "restart", None)
  /\ UNCHANGED <<database, account, room, beat, hook, forgets, shutdown>>

StartFindsIt ==
  /\ At("start", "look")
  /\ account.pending = NoSession
  /\ account.current # NoSession
  /\ room' = [room EXCEPT !.active = TRUE]
  /\ gate' = FreeGate
  /\ UNCHANGED <<database, account, exec, beat, hook, forgets, shutdown>>

\* The claim of an earlier attempt goes first, even if the account is blocked.
StartRenounces ==
  /\ At("start", "look")
  /\ Attached = NoSession
  /\ room.owner # None
  /\ gate' = ReleaseThen(room.owner, IF Blocked THEN "refuse" ELSE "claim")
  /\ UNCHANGED <<database, account, exec, room, beat, hook, forgets, shutdown>>

StartProceeds ==
  /\ At("start", "look")
  /\ Attached = NoSession
  /\ room.owner = None
  /\ IF Blocked
     THEN Abandon
     ELSE gate' = Goto("claim") /\ UNCHANGED <<account, room>>
  /\ UNCHANGED <<database, exec, beat, hook, forgets, shutdown>>

\* Mutant of StartClaims: a claim whose reply is lost is taken for granted.
StartAssumes(answered) ==
  /\ At("start", "claim")
  /\ ClaimOwnership(Account, Me, answered)
  /\ LET f == Fence(Account, Me, owner'[Account].epoch) IN
     /\ account' = [account EXCEPT !.owner = f, !.reconcile = ClaimReconciles(Account)]
     /\ room' = [room EXCEPT !.owner = f]
     /\ gate' = [Goto("admit") EXCEPT !.claim = f]
  /\ UNCHANGED <<exec, beat, hook, forgets, shutdown>>

StartClaims(answered) ==
  /\ At("start", "claim")
  /\ ClaimOwnership(Account, Me, answered)
  /\ IF answered
     THEN LET f == Fence(Account, Me, owner'[Account].epoch) IN
          /\ account' = [account EXCEPT !.owner = f, !.reconcile = ClaimReconciles(Account)]
          /\ room' = [room EXCEPT !.owner = f]
          /\ gate' = [Goto("admit") EXCEPT !.claim = f]
     ELSE Abandon
  /\ UNCHANGED <<exec, beat, hook, forgets, shutdown>>

\* PendingMigration and its application.
StartAdmits(admitted) ==
  /\ At("start", "admit")
  /\ gate' = IF admitted THEN Goto("open") ELSE ReleaseThen(gate.claim, "undo")
  /\ UNCHANGED <<database, account, exec, room, beat, hook, forgets, shutdown>>

\* The session row and the activeSession that is attached as pending; without
\* a reply the row stays behind and the process knows nothing of it.
StartOpens(s, answered) ==
  /\ At("start", "open")
  /\ account.owner # None
  /\ StartSession(account.owner, account.reconcile, s)
  /\ IF answered
     THEN /\ exec' = [exec EXCEPT ![s] = NewSession]
          /\ account' = [account EXCEPT !.pending = s]
          /\ gate' = Goto("publish")
     ELSE gate' = Goto("undo") /\ UNCHANGED <<account, exec>>
  /\ UNCHANGED <<room, beat, hook, forgets, shutdown>>

\* No configuration, no subscription, StartSession refused, no processor.
StartFails ==
  /\ gate.op = "start" /\ gate.at \in {"open", "publish"}
  /\ gate' = Goto("undo")
  /\ UNCHANGED <<database, account, exec, room, beat, hook, forgets, shutdown>>

StartPublishes ==
  /\ At("start", "publish")
  /\ IF Blocked \/ account.owner # gate.claim
     THEN gate' = Goto("undo") /\ UNCHANGED <<account, room>>
     ELSE /\ account' = [account EXCEPT !.current = account.pending,
                                        !.pending = NoSession, !.reconcile = FALSE]
          /\ room' = [room EXCEPT !.active = TRUE]
          /\ gate' = FreeGate
  /\ UNCHANGED <<database, exec, beat, hook, forgets, shutdown>>

\* stopTransitionAccountLocked after a failed start.
StartUndoes ==
  /\ At("start", "undo")
  /\ IF Attached # NoSession
     THEN Enter(Attached, gate.claim, "undo", gate.claim)
     ELSE gate' = ReleaseThen(gate.claim, "undo") /\ UNCHANGED exec
  /\ UNCHANGED <<database, account, room, beat, hook, forgets, shutdown>>

-----------------------------------------------------------------------------
(***************************************************************************)
(* stopTransitionAccount: the event says that the account must not run.    *)
(***************************************************************************)
AcquireStop ==
  /\ room.applying /\ WantsStop
  /\ Free
  /\ gate' = GateFor("stop", "look")
  /\ UNCHANGED <<database, account, exec, room, beat, hook, forgets, shutdown>>

StopLooks ==
  /\ At("stop", "look")
  /\ \/ Attached # NoSession /\ Enter(Attached, room.owner, "stop", None)
     \/ /\ Attached = NoSession
        /\ gate' = IF room.owner # None THEN ReleaseThen(room.owner, "stop")
                                        ELSE [Goto("done") EXCEPT !.then = "stop"]
        /\ UNCHANGED exec
  /\ UNCHANGED <<database, account, room, beat, hook, forgets, shutdown>>

-----------------------------------------------------------------------------
(***************************************************************************)
(* advanceSessionCleanup, for whichever operation holds the gate: drain the *)
(* worker, end the session (or reconcile it, if its fence is lost), release *)
(* the fence.                                                              *)
(***************************************************************************)
Drained ==
  /\ gate.at = "drain"
  /\ exec' = [exec EXCEPT ![gate.session].phase = "drained"]
  /\ gate' = IF exec[gate.session].lost
             THEN Goto("reconcile")
             ELSE [Goto("end") EXCEPT !.fence = UsingFence(gate.session)]
  /\ UNCHANGED <<database, account, room, beat, hook, forgets, shutdown>>

\* It times out, before or after the events are closed.
DrainFails ==
  /\ gate.at = "drain"
  /\ \E phase \in {"started", "closing"} :
       /\ exec[gate.session].phase \in {"started", phase}
       /\ exec' = [exec EXCEPT ![gate.session].phase = phase]
  /\ Abandon
  /\ UNCHANGED <<database, beat, hook, forgets, shutdown>>

\* The reply of a transaction that the database has committed.
Replied(answered, at) ==
  IF answered THEN gate' = Goto(at) /\ UNCHANGED <<account, room>> ELSE Abandon

Ends(answered) ==
  /\ gate.at = "end"
  /\ EndSession(gate.fence, gate.session)
  /\ Replied(answered, "settle")
  /\ UNCHANGED <<exec, beat, hook, forgets, shutdown>>

\* verifyEndedSession: this process ended it before, with the same ended_at.
EndsAgain ==
  /\ gate.at = "end"
  /\ Holds(gate.fence)
  /\ guard[Account] # gate.session
  /\ endedBy[gate.session] \in {Reconciled} \cup {f \in issued : f.token = Me}
  /\ gate' = Goto("settle")
  /\ UNCHANGED <<database, account, exec, room, beat, hook, forgets, shutdown>>

\* Mutants of EndConflicts: the session is taken for ended, or the conflict for
\* an error like any other (CallFails).
EndConflictsSettles ==
  /\ gate.at = "end"
  /\ ~Holds(gate.fence)
  /\ gate' = Goto("settle")
  /\ UNCHANGED <<database, account, exec, room, beat, hook, forgets, shutdown>>

EndConflictsUnnoticed == FALSE

EndConflicts ==
  /\ gate.at = "end"
  /\ ~Holds(gate.fence)
  /\ exec' = [exec EXCEPT ![gate.session].lost = TRUE, ![gate.session].fence = None]
  /\ gate' = Goto("reconcile")
  /\ UNCHANGED <<database, account, room, beat, hook, forgets, shutdown>>

Reconciles(answered) ==
  /\ gate.at = "reconcile"
  /\ ReconcileSession(gate.session)
  /\ Replied(answered, "settle")
  /\ UNCHANGED <<exec, beat, hook, forgets, shutdown>>

\* cleanupPhaseEnded and cleanupPhaseFinalized.  A lost fence is not released,
\* only forgotten.
Settle ==
  /\ gate.at = "settle"
  /\ exec' = [exec EXCEPT ![gate.session].phase = "ended"]
  /\ gate' = IF exec[gate.session].lost
             THEN [Goto("drop") EXCEPT !.fence = opener[gate.session]]
             ELSE [Goto("release") EXCEPT !.fence = UsingFence(gate.session)]
  /\ UNCHANGED <<database, account, room, beat, hook, forgets, shutdown>>

Releases(answered) ==
  /\ gate.at = "release"
  /\ ReleaseOwnership(gate.fence)
  /\ Replied(answered, "drop")
  /\ UNCHANGED <<exec, beat, hook, forgets, shutdown>>

\* Mutant of ReleaseConflicts: an error like any other (CallFails).
ReleaseConflictsUnnoticed == FALSE

\* Somebody else's row by now: as good as released.
ReleaseConflicts ==
  /\ gate.at = "release"
  /\ owner[Account].token # gate.fence.token \/ owner[Account].epoch # gate.fence.epoch
  /\ gate' = Goto("drop")
  /\ UNCHANGED <<database, account, exec, room, beat, hook, forgets, shutdown>>

Drops ==
  /\ gate.at = "drop"
  /\ account' = DropOwner(account, gate.fence)
  /\ exec' = [s \in SessionIds |-> IF s = gate.session THEN [exec[s] EXCEPT !.phase = "released"]
                                                       ELSE exec[s]]
  /\ gate' = Goto("done")
  /\ UNCHANGED <<database, room, beat, hook, forgets, shutdown>>

\* Mutant of CallFails: the error of a release is ignored.
ReleaseFailsUnnoticed ==
  /\ gate.at \in {"end", "reconcile", "release", "claim"}
  /\ IF gate.at = "release" THEN gate' = Goto("drop") /\ UNCHANGED <<account, room>>
                             ELSE Abandon
  /\ UNCHANGED <<database, exec, beat, hook, forgets, shutdown>>

\* A transaction fails or times out.
CallFails ==
  /\ gate.at \in {"end", "reconcile", "release", "claim"}
  /\ Abandon
  /\ UNCHANGED <<database, exec, beat, hook, forgets, shutdown>>

-----------------------------------------------------------------------------
(***************************************************************************)
(* After the cleanup or the release, whoever asked for it goes on.         *)
(***************************************************************************)
DoneFor(then) == gate.at = "done" /\ gate.then = then

\* clearTransitionOwner
ClearOwner(f) == [room EXCEPT !.owner = IF @ = f THEN None ELSE @]

Restarted ==
  /\ DoneFor("restart")
  /\ account' = Detach(account, gate.session)
  /\ room' = ClearOwner(opener[gate.session])
  /\ gate' = GateFor("start", "look")
  /\ UNCHANGED <<database, exec, beat, hook, forgets, shutdown>>

Renounced ==
  /\ DoneFor("claim")
  /\ room' = ClearOwner(gate.fence)
  /\ gate' = GateFor("start", "claim")
  /\ UNCHANGED <<database, account, exec, beat, hook, forgets, shutdown>>

\* A start that ends in an error: refused, or undone.
StartFailed ==
  /\ DoneFor("refuse") \/ DoneFor("undo")
  /\ account' = Detach(account, gate.session)
  /\ room' = [ClearOwner(IF gate.then = "undo" THEN gate.claim ELSE gate.fence)
                EXCEPT !.applying = FALSE]
  /\ gate' = FreeGate
  /\ UNCHANGED <<database, exec, beat, hook, forgets, shutdown>>

Stopped ==
  /\ DoneFor("stop")
  /\ account' = Detach(account, gate.session)
  /\ room' = [room EXCEPT !.owner = None, !.active = FALSE]
  /\ gate' = FreeGate
  /\ UNCHANGED <<database, exec, beat, hook, forgets, shutdown>>

-----------------------------------------------------------------------------
(***************************************************************************)
(* MutateRoom.                                                             *)
(***************************************************************************)
AcquireMutate ==
  /\ "rooms" \in Clients
  /\ shutdown = "running"
  /\ Free
  /\ ~account.stale /\ ~account.shutting
  /\ gate' = GateFor("mutate", "claim")
  /\ UNCHANGED <<database, account, exec, room, beat, hook, forgets, shutdown>>

\* mutateDisabledTargetRoom, or a claim that is refused with
\* ErrAccountDisabled.
MutateDisabled ==
  /\ At("mutate", "claim")
  /\ ~enabled[Account]
  /\ account' = MarkDisabled(account)
  /\ gate' = FreeGate
  /\ UNCHANGED <<database, exec, room, beat, hook, forgets, shutdown>>

\* The account is another process's.
MutateConflicts ==
  /\ At("mutate", "claim")
  /\ enabled[Account]
  /\ owner[Account].live /\ owner[Account].token # Me
  /\ gate' = FreeGate
  /\ IF Attached # NoSession THEN BeginStale(Attached, None) ELSE UNCHANGED <<account, exec>>
  /\ UNCHANGED <<database, room, beat, hook, forgets, shutdown>>

\* Mutant of Superseded: the session is taken to run under the new fence.
SupersededNever(f) == FALSE

\* A claim that answers another fence than the session's: the session lost its
\* own, and is ended under the new one.
Superseded(f) == Attached # NoSession /\ opener[Attached] # f

MutateClaims(answered) ==
  /\ At("mutate", "claim")
  /\ ClaimOwnership(Account, Me, answered)
  /\ LET f == Fence(Account, Me, owner'[Account].epoch)
         claimed == [account EXCEPT !.owner = f, !.reconcile = ClaimReconciles(Account)]
     IN  CASE ~answered ->
                gate' = FreeGate /\ UNCHANGED <<account, exec>>
           [] answered /\ Superseded(f) ->
                gate' = FreeGate /\ BeginStale(Attached, f)
           [] answered /\ ~Superseded(f) /\ account.stale ->
                /\ gate' = FreeGate
                /\ account' = [claimed EXCEPT !.staleRelease = IF @ = None THEN f ELSE @]
                /\ UNCHANGED exec
           [] OTHER ->
                /\ gate' = [Goto("write") EXCEPT !.claim = f]
                /\ account' = [claimed EXCEPT !.disabled = FALSE, !.draining = FALSE,
                                              !.operation = TRUE]
                /\ UNCHANGED exec
  /\ UNCHANGED <<room, beat, hook, forgets, shutdown>>

\* The claim was only for the write if no session is attached.
Written == IF Attached = NoSession
           THEN ReleaseThen(gate.claim, "return")
           ELSE [Goto("done") EXCEPT !.then = "return"]

\* MutateTargetRoom, or anything before it that fails.
MutateWrites ==
  /\ At("mutate", "write")
  /\ gate' = Written
  /\ UNCHANGED <<database, account, exec, room, beat, hook, forgets, shutdown>>

MutateLoses ==
  /\ At("mutate", "write")
  /\ ~Holds(gate.claim)
  /\ BeginStale(Attached, None)
  /\ gate' = Written
  /\ UNCHANGED <<database, room, beat, hook, forgets, shutdown>>

MutateReturns ==
  /\ DoneFor("return")
  /\ account' = [account EXCEPT !.operation = FALSE]
  /\ gate' = FreeGate
  /\ UNCHANGED <<database, exec, room, beat, hook, forgets, shutdown>>

-----------------------------------------------------------------------------
(***************************************************************************)
(* Disabling: the hook that follows the administrator's commit, and the    *)
(* drain it starts, which is repeated until it succeeds.                   *)
(***************************************************************************)

\* The switch is thrown in this process (and the hook called) or in another.
AdministratorDisables(here) ==
  /\ "administrator" \in Clients
  /\ DisableAccount(Account)
  /\ hook' = (hook \/ (here /\ shutdown = "running"))
  /\ UNCHANGED <<account, exec, gate, room, beat, forgets, shutdown>>

AdministratorEnables ==
  /\ EnableAccount(Account)
  /\ UNCHANGED memory

HookMarks ==
  /\ hook /\ Free
  /\ hook' = FALSE
  /\ account' = MarkDisabled(account)
  /\ UNCHANGED <<database, exec, gate, room, beat, forgets, shutdown>>

AcquireDrain ==
  /\ account.draining /\ account.disabled
  /\ shutdown = "running"
  /\ Free
  /\ gate' = GateFor("drain", "look")
  /\ UNCHANGED <<database, account, exec, room, beat, hook, forgets, shutdown>>

\* Without a session closeCurrentTerminal has nothing to do; the projection
\* forgets the fence either way.
DrainLooks ==
  /\ At("drain", "look")
  /\ \/ Attached # NoSession /\ Enter(Attached, None, "drain", opener[Attached])
     \/ /\ Attached = NoSession
        /\ gate' = [Goto("done") EXCEPT !.then = "drain", !.claim = account.owner]
        /\ UNCHANGED exec
  /\ UNCHANGED <<database, account, room, beat, hook, forgets, shutdown>>

\* Mutant of DrainReturns: the projection keeps the drained account.
DrainForgetsNothing ==
  /\ DoneFor("drain")
  /\ account' = [Detach(account, gate.session) EXCEPT !.draining = FALSE]
  /\ gate' = FreeGate
  /\ UNCHANGED <<database, exec, room, beat, hook, forgets, shutdown>>

DrainReturns ==
  /\ DoneFor("drain")
  /\ account' = [Detach(account, gate.session) EXCEPT !.draining = FALSE]
  /\ forgets' = forgets \cup ({gate.claim} \ {None})
  /\ gate' = FreeGate
  /\ UNCHANGED <<database, exec, room, beat, hook, shutdown>>

\* forgetTransitionAccount; a fence that the room does not wait for any more is
\* ignored.
Forget(f) ==
  /\ f \in forgets
  /\ ~room.applying
  /\ shutdown # "done"
  /\ forgets' = forgets \ {f}
  /\ room' = IF room.owner = f THEN [room EXCEPT !.owner = None, !.active = FALSE] ELSE room
  /\ UNCHANGED <<database, account, exec, gate, beat, hook, shutdown>>

-----------------------------------------------------------------------------
(***************************************************************************)
(* finishStaleCleanup: one goroutine per loss, until the session that was  *)
(* attached is reconciled and detached.                                    *)
(***************************************************************************)
AcquireStale ==
  /\ account.stale
  /\ Free
  /\ gate' = GateFor("stale", "look")
  /\ UNCHANGED <<database, account, exec, room, beat, hook, forgets, shutdown>>

\* A round of the loop, with the staleRelease it finds.
StaleLooks ==
  /\ At("stale", "look")
  /\ LET f == account.staleRelease IN
     \/ account.target # NoSession /\ Enter(account.target, f, "stale", f)
     \/ /\ account.target = NoSession
        /\ gate' = IF f # None THEN [ReleaseThen(f, "stale") EXCEPT !.claim = f]
                               ELSE [Goto("done") EXCEPT !.then = "stale"]
        /\ UNCHANGED exec
  /\ UNCHANGED <<database, account, room, beat, hook, forgets, shutdown>>

StaleFinishes ==
  /\ DoneFor("stale")
  /\ LET s == account.target
         forgotten == IF s # NoSession
                      THEN account.owner = opener[s] \/ exec[s].lost
                      ELSE gate.claim = None
     IN  /\ account' = [DropOwner(Detach(account, s), IF forgotten THEN account.owner ELSE None)
                          EXCEPT !.stale = FALSE, !.staleRelease = None, !.target = NoSession]
         /\ forgets' = IF s # NoSession THEN forgets \cup {opener[s]} ELSE forgets
  /\ gate' = FreeGate
  /\ UNCHANGED <<database, exec, room, beat, hook, shutdown>>

-----------------------------------------------------------------------------
(***************************************************************************)
(* The heartbeat and the worker: the threads that learn that a fence is    *)
(* lost while somebody else may hold the gate.                             *)
(***************************************************************************)
BeatStarts ==
  /\ beat.stage = "idle"
  /\ shutdown \in {"running", "closing", "queued"}
  /\ account.owner # None
  /\ \/ account.shutting \/ account.disabled \/ account.operation
     \/ Attached # NoSession
  /\ beat' = [stage |-> "renew", fence |-> account.owner]
  /\ UNCHANGED <<database, account, exec, gate, room, hook, forgets, shutdown>>

BeatIdles == beat' = [stage |-> "idle", fence |-> None]

BeatRenews ==
  /\ beat.stage = "renew"
  /\ RenewOwnership(beat.fence)
  /\ BeatIdles
  /\ UNCHANGED <<account, exec, gate, room, hook, forgets, shutdown>>

\* Mutant of BeatLoses: the fence may be an earlier one than the account's.
BeatLosesLate ==
  /\ beat.stage = "renew"
  /\ enabled[Account] /\ ~Holds(beat.fence)
  /\ BeginStale(Attached, None)
  /\ BeatIdles
  /\ UNCHANGED <<database, gate, room, hook, forgets, shutdown>>

BeatLoses ==
  /\ beat.stage = "renew"
  /\ enabled[Account] /\ ~Holds(beat.fence)
  /\ IF account.owner = beat.fence THEN BeginStale(Attached, None) ELSE UNCHANGED <<account, exec>>
  /\ BeatIdles
  /\ UNCHANGED <<database, gate, room, hook, forgets, shutdown>>

BeatRefused ==
  /\ beat.stage = "renew"
  /\ ~enabled[Account]
  /\ beat' = [beat EXCEPT !.stage = "disabled"]
  /\ UNCHANGED <<database, account, exec, gate, room, hook, forgets, shutdown>>

\* The mark is made when the gate is free, however late that is.
BeatMarks ==
  /\ beat.stage = "disabled"
  /\ Free
  /\ account' = IF account.owner = beat.fence THEN MarkDisabled(account) ELSE account
  /\ BeatIdles
  /\ UNCHANGED <<database, exec, gate, room, hook, forgets, shutdown>>

\* Any other error, or the gate is not free in time.
BeatFails ==
  /\ beat.stage # "idle"
  /\ BeatIdles
  /\ UNCHANGED <<database, account, exec, gate, room, hook, forgets, shutdown>>

\* handleProcessOwnershipConflict: a commit of the worker met the lost fence.
\* The worker runs until the drain of its session is over.
WorkerLoses ==
  LET s == account.current IN
  /\ s # NoSession
  /\ ~account.stale
  /\ exec[s].phase \in {"started", "closing"}
  /\ ~Holds(opener[s])
  /\ BeginStale(s, IF account.owner # opener[s] THEN account.owner ELSE None)
  /\ UNCHANGED <<database, gate, room, beat, hook, forgets, shutdown>>

-----------------------------------------------------------------------------
(***************************************************************************)
(* Shutdown.                                                               *)
(***************************************************************************)
Close ==
  /\ "shutdown" \in Clients
  /\ shutdown = "running"
  /\ shutdown' = "closing"
  /\ hook' = FALSE
  /\ account' = [account EXCEPT !.shutting = TRUE, !.draining = @ /\ gate.op = "drain"]
  /\ UNCHANGED <<database, exec, gate, room, beat, forgets>>

\* waitStaleCleanup, and then a place in the queue of the gate: the account may
\* be stale again when it is granted.
ShutdownQueues ==
  /\ shutdown = "closing"
  /\ ~account.stale
  /\ shutdown' = "queued"
  /\ UNCHANGED <<database, account, exec, gate, room, beat, hook, forgets>>

AcquireShutdown ==
  /\ shutdown = "queued"
  /\ Free
  /\ gate' = GateFor("shutdown", "look")
  /\ UNCHANGED <<database, account, exec, room, beat, hook, forgets, shutdown>>

\* Mutant of ShutdownLooks: a session that is not published is overlooked.
ShutdownOverlooks ==
  /\ At("shutdown", "look")
  /\ \/ account.current # NoSession /\ Enter(account.current, None, "shutdown", None)
     \/ /\ account.current = NoSession
        /\ gate' = IF account.owner # None
                   THEN ReleaseThen(account.owner, "shutdown")
                   ELSE [Goto("done") EXCEPT !.then = "shutdown"]
        /\ UNCHANGED exec
  /\ UNCHANGED <<database, account, room, beat, hook, forgets, shutdown>>

\* First the session, with its fence; then whatever fence is left.
ShutdownLooks ==
  /\ At("shutdown", "look")
  /\ \/ Attached # NoSession /\ Enter(Attached, None, "shutdown", None)
     \/ /\ Attached = NoSession
        /\ gate' = IF account.owner # None
                   THEN ReleaseThen(account.owner, "shutdown")
                   ELSE [Goto("done") EXCEPT !.then = "shutdown"]
        /\ UNCHANGED exec
  /\ UNCHANGED <<database, account, room, beat, hook, forgets, shutdown>>

ShutdownDetaches ==
  /\ DoneFor("shutdown")
  /\ gate.session # NoSession
  /\ account' = Detach(account, gate.session)
  /\ gate' = GateFor("shutdown", "look")
  /\ UNCHANGED <<database, exec, room, beat, hook, forgets, shutdown>>

ShutdownLeaves ==
  /\ DoneFor("shutdown")
  /\ gate.session = NoSession
  /\ gate' = FreeGate
  /\ shutdown' = "closed"
  /\ UNCHANGED <<database, account, exec, room, beat, hook, forgets>>

ShutdownReturns ==
  /\ shutdown = "closed"
  /\ beat.stage = "idle"
  /\ ~account.stale
  /\ shutdown' = "done"
  /\ UNCHANGED <<database, account, exec, gate, room, beat, hook, forgets>>

-----------------------------------------------------------------------------
(***************************************************************************)
(* Other processes, and time.                                              *)
(***************************************************************************)
OtherProcess ==
  /\ "processes" \in Clients
  /\ \/ \E t \in Tokens \ {Me} : ClaimOwnership(Account, t, TRUE)
     \/ \E f \in issued :
          /\ f.token # Me
          /\ \/ ReleaseOwnership(f)
             \/ \E s \in SessionIds, reconcile \in BOOLEAN : StartSession(f, reconcile, s)
             \/ \E s \in SessionIds : EndSession(f, s)
     \/ \E s \in SessionIds :
          Exists(s) /\ opener[s].token # Me /\ ReconcileSession(s)
  /\ UNCHANGED memory

Expires == Expire(Account) /\ UNCHANGED memory

-----------------------------------------------------------------------------
\* What the consumer's goroutine does outside the gate.
Consume ==
  \/ BeginEvent \/ InterruptEvent \/ FinishEvent \/ RefuseAdmission
  \/ AcquireStart \/ AcquireStop

\* What the holder of the gate does next.
Succeed ==
  \/ StartCleansUp \/ StartFindsIt \/ StartRenounces \/ StartProceeds
  \/ StartClaims(TRUE) \/ StartAdmits(TRUE) \/ \E s \in SessionIds : StartOpens(s, TRUE)
  \/ StartPublishes \/ StartUndoes \/ StopLooks
  \/ Drained \/ Ends(TRUE) \/ EndsAgain \/ EndConflicts \/ Reconciles(TRUE)
  \/ Settle \/ Releases(TRUE) \/ ReleaseConflicts \/ Drops
  \/ Restarted \/ Renounced \/ StartFailed \/ Stopped
  \/ MutateDisabled \/ MutateConflicts \/ MutateWrites \/ MutateLoses \/ MutateReturns
  \/ \E answered \in BOOLEAN : MutateClaims(answered)
  \/ DrainLooks \/ DrainReturns \/ StaleLooks \/ StaleFinishes
  \/ ShutdownLooks \/ ShutdownDetaches \/ ShutdownLeaves

\* What a fault makes of it; CallFails and StartFails are also what a call that
\* is refused, or can never succeed, comes to.
Fail ==
  \/ StartClaims(FALSE) \/ StartAdmits(FALSE) \/ \E s \in SessionIds : StartOpens(s, FALSE)
  \/ Ends(FALSE) \/ Reconciles(FALSE) \/ Releases(FALSE)
  \/ DrainFails \/ CallFails \/ StartFails

Operate == Succeed \/ Fail

Beat == BeatRenews \/ BeatLoses \/ BeatRefused \/ BeatMarks \/ BeatFails

RuntimeNext ==
  \/ \E e \in RoomEvents : Announce(e)
  \/ Consume \/ Operate
  \/ AcquireMutate \/ AcquireDrain \/ AcquireStale \/ AcquireShutdown
  \/ \E here \in BOOLEAN : AdministratorDisables(here)
  \/ AdministratorEnables \/ HookMarks
  \/ \E f \in forgets : Forget(f)
  \/ BeatStarts \/ Beat \/ WorkerLoses
  \/ Close \/ ShutdownQueues \/ ShutdownReturns
  \/ OtherProcess \/ Expires

RuntimeSpec == RuntimeInit /\ [][RuntimeNext]_all

-----------------------------------------------------------------------------
(***************************************************************************)
(* Fairness.  Whoever holds the gate goes on, and the gate is FIFO, so who *)
(* waits for it gets it (OperationGate!EveryCallReturns).  The database,   *)
(* the drain of a worker and a start may fail any number of times, but not *)
(* for ever; what is refused for a reason stays refused.  A fence that     *)
(* this process does not renew expires.                                    *)
(***************************************************************************)
\* A call that could have succeeded.
Failure == Fail /\ ENABLED Succeed

ExpiresUnrenewed ==
  /\ Fence(Account, owner[Account].token, owner[Account].epoch) # account.owner
  /\ Expires

GateIsFifo ==
  /\ WF_all(AcquireStart) /\ WF_all(HookMarks)
  /\ SF_all(AcquireStop) /\ SF_all(AcquireDrain)
  /\ SF_all(AcquireStale) /\ SF_all(AcquireShutdown)

ThreadsRun ==
  /\ WF_all(Operate) /\ WF_all(Beat) /\ WF_all(BeginEvent) /\ WF_all(FinishEvent)
  /\ WF_all(ShutdownQueues \/ ShutdownReturns) /\ WF_all(ExpiresUnrenewed)

FairSpec == RuntimeSpec /\ <>[][~Failure]_all /\ GateIsFifo /\ ThreadsRun

-----------------------------------------------------------------------------
Operations == {"none", "start", "stop", "mutate", "drain", "stale", "shutdown"}
Places == {"none", "look", "claim", "admit", "open", "publish", "undo", "write",
           "drain", "end", "reconcile", "settle", "release", "drop", "done"}
Purposes == {"none", "restart", "claim", "refuse", "undo", "stop", "return", "drain",
             "stale", "shutdown"}

\* What memory holds, with fences of F and sessions of S.
AccountStates(F, S) ==
  [owner : F, reconcile : BOOLEAN, current : S, pending : S, stale : BOOLEAN, target : S,
   staleRelease : F, disabled : BOOLEAN, draining : BOOLEAN, shutting : BOOLEAN,
   operation : BOOLEAN]
ExecStates(F) == [phase : {"none", "ended", "released"} \cup Running, fence : F, lost : BOOLEAN]
GateStates(F, S) ==
  [op : Operations, at : Places, then : Purposes, session : S, fence : F, claim : F]
RoomStates(F) ==
  [live : BOOLEAN, member : BOOLEAN, active : BOOLEAN, owner : F,
   event : RoomEvents \cup {"none"}, applying : BOOLEAN]
BeatStates(F) == [stage : {"idle", "renew", "disabled"}, fence : F]

FenceOrNone == Fences \cup {None}
SessionOrNone == SessionIds \cup {NoSession}

RuntimeTypeOK ==
  /\ TypeOK
  /\ account \in AccountStates(FenceOrNone, SessionOrNone)
  /\ exec \in [SessionIds -> ExecStates(FenceOrNone)]
  /\ gate \in GateStates(FenceOrNone, SessionOrNone)
  /\ room \in RoomStates(FenceOrNone)
  /\ beat \in BeatStates(FenceOrNone)
  /\ hook \in BOOLEAN
  /\ forgets \subseteq Fences
  /\ shutdown \in {"running", "closing", "queued", "closed", "done"}

\* Whatever its threads do, the process presents to the database only fences it
\* was answered: its behaviours are behaviours of SessionOwnership, and what is
\* proved there holds here.
ImplementsOwnership == Spec

\* Durable cleanup work is never forgotten (the comments on beginStaleCleanupLocked
\* and registerTransitionOwner): a session this process opened stays attached to the
\* account until its row is ended, whatever is lost on the way; and as long as the
\* fence under which it was opened is held, it is remembered where some cleanup will
\* find and release it, since no process could run the account until it expires.
CleanupIsNeverForgotten ==
  \A s \in SessionIds : exec[s].phase # "none" =>
    /\ endedBy[s] = NotEnded => s \in {account.current, account.pending}
    /\ Holds(opener[s]) => opener[s] \in {account.owner, room.owner}

\* The heartbeat and the sessions agree on the fence.  A session is only reconciled,
\* and its fence only abandoned, when the fence really is lost: otherwise
\* ReconcileSession would refuse for ever.  And the session that runs is the one whose
\* fence the heartbeat renews, until its cleanup begins.
HeartbeatKnowsTheSession ==
  /\ \A s \in SessionIds : exec[s].phase # "none" /\ exec[s].lost => ~Holds(opener[s])
  /\ LET s == account.current IN
     s # NoSession /\ exec[s].phase = "started" /\ ~account.stale => account.owner = opener[s]

\* An account that the projection takes for running under a fence is running,
\* or is about to be taken out of the projection: otherwise every later live
\* event of the room would be refused (setTransitionAdmission).
ProjectionIsNotPhantom ==
  room.active /\ room.owner # None /\ shutdown = "running" =>
    Attached # NoSession \/ room.owner \in forgets

\* Once the room is offline nothing of it runs, except what a cleanup is about
\* to end (registerTransitionOwner: "cannot lose the exact fence that offline
\* must release").
OfflineLeavesNothingRunning ==
  room.event = "none" /\ ~room.live /\ shutdown = "running" =>
    Attached = NoSession \/ account.stale \/ account.draining

\* When Shutdown returns, no session that this process opened is left open for
\* a later takeover to reconcile, and no thread can open another.
ShutdownEndsTheSessions ==
  shutdown = "done" =>
    \A s \in SessionIds : exec[s].phase # "none" => endedBy[s] # NotEnded

\* A loss is cleaned up in the end: the cleanup that keeps the account from running
\* does not wait for anything that will never happen.  And an event that takes the
\* account out of the room is applied in the end, whatever failed on the way: it does
\* not block the outbox for ever, unless the process is shut down first.
LossesAndStopsAreServed ==
  /\ account.stale ~> ~account.stale
  /\ room.event \in {"offline", "leave"} ~>
       room.event \notin {"offline", "leave"} \/ shutdown # "running"

\* A disabled account stops running: the drain, or the cleanup it leaves the
\* session to, gets to the end.
DisabledAccountStops ==
  account.disabled ~> Attached = NoSession \/ ~account.disabled

\* Shutdown returns, whichever operation, loss or failure it meets.
ShutdownFinishes == shutdown = "closing" ~> shutdown = "done"

\* An account that the administrator enables again is admitted again: it is not
\* refused for ever while the outbox waits behind it
\* (TestAccountDisabledHookRejectsLeasesUntilAdministratorReenablesAccount).
ReenabledAccountIsAdmitted ==
  ~<>[](enabled[Account] /\ account.disabled /\ room.event # "none" /\ shutdown = "running")
=============================================================================
