------------------------ MODULE AccountRuntimeProofs ------------------------
(***************************************************************************)
(* Proofs about AccountRuntime: every behaviour of a process is one of     *)
(* SessionOwnership, so that the theorems about the rows hold whatever the *)
(* threads of the process do.                                              *)
(*                                                                         *)
(* The argument is that memory only holds fences that were answered and    *)
(* sessions that were opened under such a fence (Grounded); and wherever   *)
(* the holder of the gate is about to use a fence or a session, there is   *)
(* one (Ready).                                                            *)
(***************************************************************************)
EXTENDS AccountRuntime, SessionOwnershipProofs

\* The fences this process was answered, and the sessions opened under them.
Known == {f \in issued : f.account = Account /\ f.token = Me} \cup {None}
Begun == {s \in SessionIds : opener[s] \in Known \ {None}} \cup {NoSession}

MemoryIn(F, S) ==
  /\ account \in AccountStates(F, S)
  /\ exec \in [SessionIds -> ExecStates(F)]
  /\ gate \in GateStates(F, S)
  /\ room \in RoomStates(F)
  /\ beat \in BeatStates(F)
  /\ hook \in BOOLEAN
  /\ forgets \subseteq F \ {None}
  /\ shutdown \in {"running", "closing", "queued", "closed", "done"}

Grounded == MemoryIn(Known, Begun)

Ready ==
  /\ gate.at \in {"end", "release"} => gate.fence # None
  /\ gate.at \in {"admit", "open", "publish", "undo", "write"} => gate.claim # None
  /\ gate.at \in {"drain", "end", "reconcile", "settle"} => gate.session # NoSession
  /\ beat.stage # "idle" => beat.fence # None

RuntimeInv == TypeOK /\ Grounded /\ Ready

\* The sessions of S were opened under fences of F.
Rooted(F, S) ==
  /\ None \in F
  /\ NoSession \in S
  /\ \A s \in S \ {NoSession} : s \in SessionIds /\ opener[s] \in F \ {None}

-----------------------------------------------------------------------------
(* What the shared sections do to the state, for any fences and sessions.  *)

LEMMA DropOwnerType ==
  ASSUME NEW F, NEW S, None \in F, NEW acc \in AccountStates(F, S), NEW f
  PROVE  DropOwner(acc, f) \in AccountStates(F, S)
BY DEF DropOwner, AccountStates

LEMMA DetachType ==
  ASSUME NEW F, NEW S, NoSession \in S, NEW acc \in AccountStates(F, S), NEW s
  PROVE  Detach(acc, s) \in AccountStates(F, S)
BY DEF Detach, AccountStates

LEMMA MarkDisabledType ==
  ASSUME NEW F, NEW S, NEW acc \in AccountStates(F, S)
  PROVE  MarkDisabled(acc) \in AccountStates(F, S)
BY DEF MarkDisabled, AccountStates

LEMMA BeginStaleType ==
  ASSUME NEW F, NEW S, account \in AccountStates(F, S), exec \in [SessionIds -> ExecStates(F)],
         NEW target \in S, NEW release \in F, BeginStale(target, release)
  PROVE  /\ account' \in AccountStates(F, S)
         /\ exec' \in [SessionIds -> ExecStates(F)]
<1>1. account' \in AccountStates(F, S)
  BY DEF BeginStale, AccountStates
<1>2. CASE account.stale
  BY <1>1, <1>2 DEF BeginStale
<1>3. CASE ~account.stale
  <2> DEFINE lost == release = None
  <2>1. lost \in BOOLEAN
    BY Zenon
  <2>2. exec' = [s \in SessionIds |->
                   IF s = target THEN [exec[s] EXCEPT !.fence = release, !.lost = lost] ELSE exec[s]]
    BY <1>3 DEF BeginStale
  <2> HIDE DEF lost
  <2>3. exec' \in [SessionIds -> ExecStates(F)]
    BY <2>1, <2>2 DEF ExecStates
  <2> QED BY <1>1, <2>3
<1> QED BY <1>2, <1>3

LEMMA ReleaseThenType ==
  ASSUME NEW F, NEW S, NoSession \in S, gate \in GateStates(F, S),
         NEW f \in F, NEW then \in Purposes
  PROVE  /\ ReleaseThen(f, then) \in GateStates(F, S)
         /\ ReleaseThen(f, then).at = "release"
         /\ ReleaseThen(f, then).fence = f
BY DEF ReleaseThen, GateStates, Places

LEMMA EnterType ==
  ASSUME NEW F, NEW S, gate \in GateStates(F, S), exec \in [SessionIds -> ExecStates(F)],
         NEW s \in S \cap SessionIds, NEW f \in F, NEW then \in Purposes, NEW claim \in F,
         Enter(s, f, then, claim)
  PROVE  /\ exec' \in [SessionIds -> ExecStates(F)]
         /\ gate' \in GateStates(F, S)
         /\ gate'.at \in {"drain", "settle", "done"}
         /\ gate'.session = s
<1>1. exec' \in [SessionIds -> ExecStates(F)]
  BY DEF Enter, ExecStates
<1>2. gate' \in GateStates(F, S) /\ gate'.at \in {"drain", "settle", "done"} /\ gate'.session = s
  BY DEF Enter, GateStates, Places
<1> QED BY <1>1, <1>2

LEMMA AbandonType ==
  ASSUME NEW F, NEW S, NoSession \in S, None \in F, account \in AccountStates(F, S),
         gate \in GateStates(F, S), room \in RoomStates(F), Abandon
  PROVE  /\ account' \in AccountStates(F, S)
         /\ gate' \in GateStates(F, S)
         /\ gate'.at \in {"none", "look", "done"}
         /\ room' \in RoomStates(F)
<1>1. account' \in AccountStates(F, S)
  BY DEF Abandon, AccountStates
<1>2. gate' \in GateStates(F, S) /\ gate'.at \in {"none", "look", "done"}
  BY DEF Abandon, Goto, FreeGate, GateStates, Places, Operations, Purposes
<1>3. room' \in RoomStates(F)
  BY DEF Abandon, RoomStates
<1> QED BY <1>1, <1>2, <1>3

-----------------------------------------------------------------------------
(* Every step keeps memory in F and S: here the steps that leave the        *)
(* database alone, and those that use it but not what it answers.          *)

LEMMA AttachedIn ==
  ASSUME NEW F, NEW S, account \in AccountStates(F, S)
  PROVE  Attached \in S
BY DEF Attached, AccountStates

LEMMA UsingFenceIn ==
  ASSUME NEW F, NEW S, Rooted(F, S), exec \in [SessionIds -> ExecStates(F)],
         NEW s \in S \ {NoSession}
  PROVE  UsingFence(s) \in F \ {None}
BY DEF UsingFence, Rooted, ExecStates

\* A gate that is free, or taken by an operation that knows nothing yet.
LEMMA GatesIn ==
  ASSUME NEW F, NEW S, Rooted(F, S)
  PROVE  /\ FreeGate \in GateStates(F, S) /\ FreeGate.at = "none"
         /\ \A op \in Operations, at \in {"look", "claim"} :
              GateFor(op, at) \in GateStates(F, S) /\ GateFor(op, at).at = at
BY DEF Rooted, FreeGate, GateFor, GateStates, Operations, Places, Purposes

LEMMA RoomSteps ==
  ASSUME NEW F, NEW S, Rooted(F, S), MemoryIn(F, S), Ready,
         (\E e \in RoomEvents : Announce(e)) \/ Consume
  PROVE  MemoryIn(F, S)' /\ Ready'
<1>1. ASSUME NEW e \in RoomEvents, Announce(e)
      PROVE  MemoryIn(F, S)' /\ Ready'
  BY <1>1 DEF Announce, MemoryIn, Ready, RoomStates
<1>2. CASE BeginEvent \/ InterruptEvent \/ FinishEvent \/ RefuseAdmission
  <2>1. room' \in RoomStates(F)
    BY <1>2 DEF BeginEvent, InterruptEvent, FinishEvent, RefuseAdmission, MemoryIn, RoomStates
  <2> QED
    BY <1>2, <2>1 DEF BeginEvent, InterruptEvent, FinishEvent, RefuseAdmission, MemoryIn, Ready
<1>3. CASE AcquireStart \/ AcquireStop
  BY <1>3, GatesIn DEF AcquireStart, AcquireStop, MemoryIn, Ready, Operations
<1> QED BY <1>1, <1>2, <1>3 DEF Consume

\* The steps at which the gate is granted.
LEMMA AcquireSteps ==
  ASSUME NEW F, NEW S, Rooted(F, S), MemoryIn(F, S), Ready,
         AcquireMutate \/ AcquireDrain \/ AcquireStale \/ AcquireShutdown
  PROVE  MemoryIn(F, S)' /\ Ready'
BY GatesIn
DEF AcquireMutate, AcquireDrain, AcquireStale, AcquireShutdown, MemoryIn, Ready, Operations

\* The steps of a start but for its two transactions.
LEMMA StartSteps ==
  ASSUME NEW F, NEW S, Rooted(F, S), MemoryIn(F, S), Ready,
         \/ StartCleansUp \/ StartFindsIt \/ StartRenounces \/ StartProceeds
         \/ StartAdmits(TRUE) \/ StartAdmits(FALSE) \/ StartFails \/ StartPublishes \/ StartUndoes
  PROVE  MemoryIn(F, S)' /\ Ready'
<1> USE DEF MemoryIn
<1>1. CASE StartCleansUp
  <2>1. account.pending \in S \cap SessionIds /\ opener[account.pending] \in F
    BY <1>1 DEF StartCleansUp, AccountStates, Rooted
  <2>2. "restart" \in Purposes /\ None \in F
    BY DEF Purposes, Rooted
  <2> QED BY <1>1, <2>1, <2>2, EnterType DEF StartCleansUp, Ready
<1>2. CASE StartFindsIt
  BY <1>2, GatesIn DEF StartFindsIt, Ready, RoomStates
<1>3. CASE StartRenounces
  <2>1. room.owner \in F /\ NoSession \in S /\ {"refuse", "claim"} \subseteq Purposes
    BY DEF RoomStates, Rooted, Purposes
  <2> QED BY <1>3, <2>1, ReleaseThenType DEF StartRenounces, Ready
<1>4. CASE StartProceeds
  <2>1. CASE Blocked
    BY <1>4, <2>1, AbandonType DEF StartProceeds, Ready, Rooted
  <2>2. CASE ~Blocked
    BY <1>4, <2>2 DEF StartProceeds, Ready, Goto, GateStates, Places
  <2> QED BY <2>1, <2>2
<1>5. ASSUME NEW admitted \in BOOLEAN, StartAdmits(admitted)
      PROVE  MemoryIn(F, S)' /\ Ready'
  <2>1. gate.claim \in F /\ gate.claim # None /\ NoSession \in S /\ "undo" \in Purposes
    BY <1>5 DEF StartAdmits, At, Ready, GateStates, Rooted, Purposes
  <2>2. CASE admitted
    BY <1>5, <2>1, <2>2 DEF StartAdmits, Ready, Goto, GateStates, Places
  <2>3. CASE ~admitted
    BY <1>5, <2>1, <2>3, ReleaseThenType DEF StartAdmits, Ready
  <2> QED BY <2>2, <2>3
<1>6. CASE StartFails
  BY <1>6 DEF StartFails, Ready, Goto, GateStates, Places
<1>7. CASE StartPublishes
  <2>1. CASE Blocked \/ account.owner # gate.claim
    BY <1>7, <2>1 DEF StartPublishes, At, Ready, Goto, GateStates, Places
  <2>2. CASE ~(Blocked \/ account.owner # gate.claim)
    <3>1. account' \in AccountStates(F, S)
      BY <1>7, <2>2 DEF StartPublishes, AccountStates, Rooted
    <3>2. room' \in RoomStates(F)
      BY <1>7, <2>2 DEF StartPublishes, RoomStates
    <3>3. gate' \in GateStates(F, S) /\ gate'.at = "none"
      BY <1>7, <2>2, GatesIn DEF StartPublishes
    <3> QED BY <1>7, <3>1, <3>2, <3>3 DEF StartPublishes, Ready
  <2> QED BY <2>1, <2>2
<1>8. CASE StartUndoes
  <2>1. gate.claim \in F /\ gate.claim # None /\ NoSession \in S /\ "undo" \in Purposes
    BY <1>8 DEF StartUndoes, At, Ready, GateStates, Rooted, Purposes
  <2>2. CASE Attached # NoSession
    <3>1. Attached \in S \cap SessionIds
      BY <2>2, AttachedIn DEF Rooted
    <3> QED BY <1>8, <2>1, <2>2, <3>1, EnterType DEF StartUndoes, Ready
  <2>3. CASE Attached = NoSession
    BY <1>8, <2>1, <2>3, ReleaseThenType DEF StartUndoes, Ready
  <2> QED BY <2>2, <2>3
<1> QED BY <1>1, <1>2, <1>3, <1>4, <1>5, <1>6, <1>7, <1>8

\* advanceSessionCleanup, whatever its transactions answer.
LEMMA CleanupSteps ==
  ASSUME NEW F, NEW S, Rooted(F, S), MemoryIn(F, S), Ready,
         \/ StopLooks \/ Drained \/ DrainFails \/ EndsAgain \/ EndConflicts \/ Settle
         \/ ReleaseConflicts \/ Drops \/ CallFails
         \/ \E answered \in BOOLEAN : Ends(answered) \/ Reconciles(answered) \/ Releases(answered)
  PROVE  MemoryIn(F, S)' /\ Ready'
<1> USE DEF MemoryIn
<1>1. CASE StopLooks
  <2>1. room.owner \in F /\ None \in F /\ NoSession \in S /\ "stop" \in Purposes
    BY DEF RoomStates, Rooted, Purposes
  <2>2. CASE Attached # NoSession /\ Enter(Attached, room.owner, "stop", None)
    <3>1. Attached \in S \cap SessionIds
      BY <2>2, AttachedIn DEF Rooted
    <3> QED BY <1>1, <2>1, <2>2, <3>1, EnterType DEF StopLooks, Ready
  <2>3. CASE room.owner # None /\ gate' = ReleaseThen(room.owner, "stop") /\ UNCHANGED exec
    BY <1>1, <2>1, <2>3, ReleaseThenType DEF StopLooks, Ready
  <2>4. CASE gate' = [Goto("done") EXCEPT !.then = "stop"] /\ UNCHANGED exec
    BY <1>1, <2>4 DEF StopLooks, Ready, Goto, GateStates, Places, Purposes
  <2> QED BY <1>1, <2>2, <2>3, <2>4 DEF StopLooks
<1>2. CASE Drained
  <2>1. gate.session \in S \ {NoSession}
    BY <1>2 DEF Drained, Ready, GateStates
  <2>2. exec' \in [SessionIds -> ExecStates(F)]
    BY <1>2 DEF Drained, ExecStates, Running
  <2>3. UsingFence(gate.session) \in F \ {None}
    BY <2>1, UsingFenceIn
  <2>4. gate' \in GateStates(F, S) /\ Ready'
    BY <1>2, <2>1, <2>3 DEF Drained, Ready, Goto, GateStates, Places
  <2> QED BY <1>2, <2>2, <2>4 DEF Drained
<1>3. CASE DrainFails
  <2>1. PICK phase \in {"started", "closing"} : exec' = [exec EXCEPT ![gate.session].phase = phase]
    BY <1>3 DEF DrainFails
  <2>2. exec' \in [SessionIds -> ExecStates(F)]
    BY <2>1 DEF ExecStates, Running
  <2> QED BY <1>3, <2>2, AbandonType DEF DrainFails, Ready, Rooted
<1>4. CASE EndsAgain \/ ReleaseConflicts
  BY <1>4 DEF EndsAgain, ReleaseConflicts, Ready, Goto, GateStates, Places
<1>5. CASE EndConflicts
  <2>1. exec' \in [SessionIds -> ExecStates(F)]
    BY <1>5 DEF EndConflicts, ExecStates, Rooted
  <2> QED BY <1>5, <2>1 DEF EndConflicts, Ready, Goto, GateStates, Places
<1>6. CASE Settle
  <2>1. gate.session \in S \ {NoSession}
    BY <1>6 DEF Settle, Ready, GateStates
  <2>2. exec' \in [SessionIds -> ExecStates(F)]
    BY <1>6 DEF Settle, ExecStates
  <2>3. UsingFence(gate.session) \in F \ {None} /\ opener[gate.session] \in F
    BY <2>1, UsingFenceIn DEF Rooted
  <2>4. gate' \in GateStates(F, S) /\ Ready'
    BY <1>6, <2>1, <2>3 DEF Settle, Ready, Goto, GateStates, Places
  <2> QED BY <1>6, <2>2, <2>4 DEF Settle
<1>7. CASE Drops
  <2>1. account' \in AccountStates(F, S)
    BY <1>7, DropOwnerType DEF Drops, Rooted
  <2>2. exec' \in [SessionIds -> ExecStates(F)]
    BY <1>7 DEF Drops, ExecStates
  <2> QED BY <1>7, <2>1, <2>2 DEF Drops, Ready, Goto, GateStates, Places
<1>8. CASE CallFails
  BY <1>8, AbandonType DEF CallFails, Ready, Rooted
<1>9. ASSUME NEW answered \in BOOLEAN, Ends(answered) \/ Reconciles(answered) \/ Releases(answered)
      PROVE  MemoryIn(F, S)' /\ Ready'
  <2>1. UNCHANGED <<exec, beat, hook, forgets, shutdown>>
    BY <1>9 DEF Ends, Reconciles, Releases
  <2>2. CASE answered
    <3>1. UNCHANGED <<account, room>> /\ \/ gate.at \in {"end", "reconcile"} /\ gate' = Goto("settle")
                                         \/ gate' = Goto("drop")
      BY <1>9, <2>2 DEF Ends, Reconciles, Releases, Replied
    <3> QED BY <2>1, <3>1 DEF Ready, Goto, GateStates, Places
  <2>3. CASE ~answered
    BY <1>9, <2>1, <2>3, AbandonType DEF Ends, Reconciles, Releases, Replied, Ready, Rooted
  <2> QED BY <2>2, <2>3
<1> QED BY <1>1, <1>2, <1>3, <1>4, <1>5, <1>6, <1>7, <1>8, <1>9

LEMMA ClearOwnerType ==
  ASSUME NEW F, None \in F, room \in RoomStates(F), NEW f
  PROVE  ClearOwner(f) \in RoomStates(F)
BY DEF ClearOwner, RoomStates

\* What a start or a stop does when its cleanup is over.
LEMMA AfterCleanupSteps ==
  ASSUME NEW F, NEW S, Rooted(F, S), MemoryIn(F, S), Ready,
         Restarted \/ Renounced \/ StartFailed \/ Stopped
  PROVE  MemoryIn(F, S)' /\ Ready'
<1> USE DEF MemoryIn
<1>1. account' \in AccountStates(F, S)
  BY DetachType DEF Restarted, Renounced, StartFailed, Stopped, Rooted
<1>2. room' \in RoomStates(F)
  <2>1. CASE StartFailed
    <3>1. PICK f : room' = [ClearOwner(f) EXCEPT !.applying = FALSE]
      BY <2>1 DEF StartFailed
    <3> QED BY <3>1, ClearOwnerType DEF Rooted, RoomStates
  <2>2. CASE Stopped
    BY <2>2 DEF Stopped, Rooted, RoomStates
  <2> QED BY <2>1, <2>2, ClearOwnerType DEF Restarted, Renounced, Rooted
<1>3. gate' \in GateStates(F, S) /\ gate'.at \in {"none", "look", "claim"}
  BY GatesIn DEF Restarted, Renounced, StartFailed, Stopped, Operations
<1> QED BY <1>1, <1>2, <1>3 DEF Restarted, Renounced, StartFailed, Stopped, Ready

\* MutateRoom but for its claim.
LEMMA MutateSteps ==
  ASSUME NEW F, NEW S, Rooted(F, S), MemoryIn(F, S), Ready,
         MutateDisabled \/ MutateConflicts \/ MutateWrites \/ MutateLoses \/ MutateReturns
  PROVE  MemoryIn(F, S)' /\ Ready'
<1> USE DEF MemoryIn
<1> Attached \in S /\ None \in F /\ NoSession \in S
  BY AttachedIn DEF Rooted
<1>1. CASE MutateDisabled
  BY <1>1, MarkDisabledType, GatesIn DEF MutateDisabled, Ready
<1>2. CASE MutateConflicts
  BY <1>2, BeginStaleType, GatesIn DEF MutateConflicts, Ready
<1>3. CASE MutateWrites \/ MutateLoses
  <2>1. gate' = Written /\ gate.claim \in F \ {None} /\ "return" \in Purposes
    BY <1>3 DEF MutateWrites, MutateLoses, At, Ready, GateStates, Purposes
  <2>2. /\ gate' \in GateStates(F, S)
        /\ gate'.at \in {"done", "release"}
        /\ gate'.at = "release" => gate'.fence # None
    <3>1. CASE Attached = NoSession
      BY <2>1, <3>1, ReleaseThenType DEF Written
    <3>2. CASE Attached # NoSession
      BY <2>1, <3>2 DEF Written, Goto, GateStates, Places
    <3> QED BY <3>1, <3>2
  <2>3. account' \in AccountStates(F, S) /\ exec' \in [SessionIds -> ExecStates(F)]
    BY <1>3, BeginStaleType DEF MutateWrites, MutateLoses
  <2>4. UNCHANGED <<room, beat, hook, forgets, shutdown>>
    BY <1>3 DEF MutateWrites, MutateLoses
  <2> QED BY <2>2, <2>3, <2>4 DEF Ready
<1>4. CASE MutateReturns
  <2>1. account' \in AccountStates(F, S)
    BY <1>4 DEF MutateReturns, AccountStates
  <2> QED BY <1>4, <2>1, GatesIn DEF MutateReturns, Ready
<1> QED BY <1>1, <1>2, <1>3, <1>4

\* The disable hook, its drain, and what the projection forgets.
LEMMA DisableSteps ==
  ASSUME NEW F, NEW S, Rooted(F, S), MemoryIn(F, S), Ready,
         \/ \E here \in BOOLEAN : AdministratorDisables(here)
         \/ AdministratorEnables \/ HookMarks \/ DrainLooks \/ DrainReturns
         \/ \E f \in forgets : Forget(f)
  PROVE  MemoryIn(F, S)' /\ Ready'
<1> USE DEF MemoryIn
<1>1. ASSUME NEW here \in BOOLEAN, AdministratorDisables(here)
      PROVE  MemoryIn(F, S)' /\ Ready'
  <2>1. hook' \in BOOLEAN
    BY <1>1, Zenon DEF AdministratorDisables
  <2> QED BY <1>1, <2>1 DEF AdministratorDisables, Ready
<1>2. CASE AdministratorEnables
  BY <1>2 DEF AdministratorEnables, memory, Ready
<1>3. CASE HookMarks
  BY <1>3, MarkDisabledType DEF HookMarks, Ready
<1>4. CASE DrainLooks
  <2>1. None \in F /\ NoSession \in S /\ "drain" \in Purposes /\ account.owner \in F
    BY DEF Rooted, Purposes, AccountStates
  <2>2. CASE Attached # NoSession /\ Enter(Attached, None, "drain", opener[Attached])
    <3>1. Attached \in S \cap SessionIds /\ opener[Attached] \in F
      BY <2>2, AttachedIn DEF Rooted
    <3> QED BY <1>4, <2>1, <2>2, <3>1, EnterType DEF DrainLooks, Ready
  <2>3. CASE /\ gate' = [Goto("done") EXCEPT !.then = "drain", !.claim = account.owner]
             /\ UNCHANGED exec
    BY <1>4, <2>1, <2>3 DEF DrainLooks, Ready, Goto, GateStates, Places
  <2> QED BY <1>4, <2>2, <2>3 DEF DrainLooks
<1>5. CASE DrainReturns
  <2>1. Detach(account, gate.session) \in AccountStates(F, S)
    BY DetachType DEF Rooted
  <2>2. account' \in AccountStates(F, S)
    BY <1>5, <2>1 DEF DrainReturns, AccountStates
  <2>3. gate.claim \in F
    BY DEF GateStates
  <2> QED BY <1>5, <2>2, <2>3, GatesIn DEF DrainReturns, Ready
<1>6. ASSUME NEW f \in forgets, Forget(f)
      PROVE  MemoryIn(F, S)' /\ Ready'
  <2>1. room' \in RoomStates(F)
    BY <1>6 DEF Forget, Rooted, RoomStates
  <2> QED BY <1>6, <2>1 DEF Forget, Ready
<1> QED BY <1>1, <1>2, <1>3, <1>4, <1>5, <1>6

\* finishStaleCleanup.
LEMMA StaleSteps ==
  ASSUME NEW F, NEW S, Rooted(F, S), MemoryIn(F, S), Ready, StaleLooks \/ StaleFinishes
  PROVE  MemoryIn(F, S)' /\ Ready'
<1> USE DEF MemoryIn
<1>1. CASE StaleLooks
  <2> DEFINE f == account.staleRelease
  <2>1. f \in F /\ account.target \in S /\ NoSession \in S /\ "stale" \in Purposes
    BY DEF Rooted, AccountStates, Purposes
  <2>2. CASE account.target # NoSession /\ Enter(account.target, f, "stale", f)
    <3>1. account.target \in S \cap SessionIds
      BY <2>1, <2>2 DEF Rooted
    <3> QED BY <1>1, <2>1, <2>2, <3>1, EnterType DEF StaleLooks, Ready
  <2>3. CASE f # None /\ gate' = [ReleaseThen(f, "stale") EXCEPT !.claim = f] /\ UNCHANGED exec
    <3>1. /\ ReleaseThen(f, "stale") \in GateStates(F, S)
          /\ ReleaseThen(f, "stale").at = "release"
          /\ ReleaseThen(f, "stale").fence = f
      BY <2>1, ReleaseThenType
    <3>2. gate' \in GateStates(F, S) /\ gate'.at = "release" /\ gate'.fence = f
      BY <2>1, <2>3, <3>1 DEF GateStates
    <3> QED BY <1>1, <2>3, <3>2 DEF StaleLooks, Ready
  <2>4. CASE gate' = [Goto("done") EXCEPT !.then = "stale"] /\ UNCHANGED exec
    BY <1>1, <2>1, <2>4 DEF StaleLooks, Ready, Goto, GateStates, Places
  <2> QED BY <1>1, <2>2, <2>3, <2>4 DEF StaleLooks
<1>2. CASE StaleFinishes
  <2>1. None \in F /\ NoSession \in S
    BY DEF Rooted
  <2>2. PICK f : account' = [DropOwner(Detach(account, account.target), f)
                               EXCEPT !.stale = FALSE, !.staleRelease = None, !.target = NoSession]
    BY <1>2 DEF StaleFinishes
  <2>3. DropOwner(Detach(account, account.target), f) \in AccountStates(F, S)
    BY <2>1, DetachType, DropOwnerType
  <2>4. account' \in AccountStates(F, S)
    BY <2>1, <2>2, <2>3 DEF AccountStates
  <2>5. account.target # NoSession => opener[account.target] \in F \ {None}
    BY DEF Rooted, AccountStates
  <2> QED BY <1>2, <2>4, <2>5, GatesIn DEF StaleFinishes, Ready
<1> QED BY <1>1, <1>2

\* The heartbeat and the worker.
LEMMA LossSteps ==
  ASSUME NEW F, NEW S, Rooted(F, S), MemoryIn(F, S), Ready, BeatStarts \/ Beat \/ WorkerLoses
  PROVE  MemoryIn(F, S)' /\ Ready'
<1> USE DEF MemoryIn
<1> None \in F /\ NoSession \in S /\ Attached \in S /\ account.owner \in F /\ account.current \in S
  BY AttachedIn DEF Rooted, AccountStates
<1>1. CASE BeatStarts
  BY <1>1 DEF BeatStarts, BeatStates, Ready
<1>2. CASE BeatRenews \/ BeatFails
  BY <1>2 DEF BeatRenews, BeatFails, BeatIdles, BeatStates, Ready
<1>3. CASE BeatLoses
  <2>1. account' \in AccountStates(F, S) /\ exec' \in [SessionIds -> ExecStates(F)]
    BY <1>3, BeginStaleType DEF BeatLoses
  <2> QED BY <1>3, <2>1 DEF BeatLoses, BeatIdles, BeatStates, Ready
<1>4. CASE BeatRefused
  BY <1>4 DEF BeatRefused, BeatStates, Ready
<1>5. CASE BeatMarks
  <2>1. account' \in AccountStates(F, S)
    BY <1>5, MarkDisabledType DEF BeatMarks
  <2> QED BY <1>5, <2>1 DEF BeatMarks, BeatIdles, BeatStates, Ready
<1>6. CASE WorkerLoses
  <2>1. account' \in AccountStates(F, S) /\ exec' \in [SessionIds -> ExecStates(F)]
    BY <1>6, BeginStaleType DEF WorkerLoses
  <2> QED BY <1>6, <2>1 DEF WorkerLoses, Ready
<1> QED BY <1>1, <1>2, <1>3, <1>4, <1>5, <1>6 DEF Beat

LEMMA ShutdownSteps ==
  ASSUME NEW F, NEW S, Rooted(F, S), MemoryIn(F, S), Ready,
         \/ Close \/ ShutdownQueues \/ ShutdownReturns
         \/ ShutdownLooks \/ ShutdownDetaches \/ ShutdownLeaves
  PROVE  MemoryIn(F, S)' /\ Ready'
<1> USE DEF MemoryIn
<1>1. CASE Close
  <2>1. account' \in AccountStates(F, S)
    BY <1>1 DEF Close, AccountStates
  <2> QED BY <1>1, <2>1 DEF Close, Ready
<1>2. CASE ShutdownQueues \/ ShutdownReturns
  BY <1>2 DEF ShutdownQueues, ShutdownReturns, Ready
<1>3. CASE ShutdownLooks
  <2>1. None \in F /\ NoSession \in S /\ "shutdown" \in Purposes /\ account.owner \in F
    BY DEF Rooted, Purposes, AccountStates
  <2>2. CASE Attached # NoSession /\ Enter(Attached, None, "shutdown", None)
    <3>1. Attached \in S \cap SessionIds
      BY <2>2, AttachedIn DEF Rooted
    <3> QED BY <1>3, <2>1, <2>2, <3>1, EnterType DEF ShutdownLooks, Ready
  <2>3. CASE account.owner # None /\ gate' = ReleaseThen(account.owner, "shutdown") /\ UNCHANGED exec
    BY <1>3, <2>1, <2>3, ReleaseThenType DEF ShutdownLooks, Ready
  <2>4. CASE gate' = [Goto("done") EXCEPT !.then = "shutdown"] /\ UNCHANGED exec
    BY <1>3, <2>1, <2>4 DEF ShutdownLooks, Ready, Goto, GateStates, Places
  <2> QED BY <1>3, <2>2, <2>3, <2>4 DEF ShutdownLooks
<1>4. CASE ShutdownDetaches
  BY <1>4, DetachType, GatesIn DEF ShutdownDetaches, Rooted, Ready, Operations
<1>5. CASE ShutdownLeaves
  BY <1>5, GatesIn DEF ShutdownLeaves, Ready
<1> QED BY <1>1, <1>2, <1>3, <1>4, <1>5

-----------------------------------------------------------------------------
(* The transactions that answer something: a claim, and the id of a session. *)

LEMMA ClaimIssues ==
  ASSUME TypeOK, NEW a \in Accounts, NEW t \in Tokens, ClaimOwnership(a, t, TRUE)
  PROVE  Fence(a, t, owner'[a].epoch) \in issued'
<1>1. owner \in [Accounts -> OwnerRows \cup {NoOwner}]
  BY DEF TypeOK
<1>2. CASE FirstClaim(a, t, TRUE)
  BY <1>1, <1>2 DEF FirstClaim, Answer, OwnerRow
<1>3. CASE ClaimAgain(a, t, TRUE)
  BY <1>3 DEF ClaimAgain, Answer
<1>4. CASE Takeover(a, t, TRUE)
  BY <1>1, <1>4 DEF Takeover, Answer, OwnerRow
<1> QED BY <1>2, <1>3, <1>4 DEF ClaimOwnership

LEMMA ClaimSteps ==
  ASSUME NEW F, NEW S, Rooted(F, S), MemoryIn(F, S), Ready,
         NEW answered \in BOOLEAN, StartClaims(answered) \/ MutateClaims(answered),
         answered => Fence(Account, Me, owner'[Account].epoch) \in F \ {None},
         ClaimReconciles(Account) \in BOOLEAN
  PROVE  MemoryIn(F, S)' /\ Ready'
<1> USE DEF MemoryIn
<1> DEFINE f == Fence(Account, Me, owner'[Account].epoch)
           claimed == [account EXCEPT !.owner = f, !.reconcile = ClaimReconciles(Account)]
<1>1. answered => f \in F \ {None} /\ claimed \in AccountStates(F, S)
  BY DEF AccountStates
<1>2. Attached \in S /\ None \in F /\ NoSession \in S
  BY AttachedIn DEF Rooted
<1>3. CASE StartClaims(answered)
  <2>1. CASE answered
    <3>1. account' = claimed /\ room' = [room EXCEPT !.owner = f]
             /\ gate' = [Goto("admit") EXCEPT !.claim = f]
             /\ UNCHANGED <<exec, beat, hook, forgets, shutdown>>
      BY <1>3, <2>1 DEF StartClaims
    <3> HIDE DEF f, claimed
    <3>2. room' \in RoomStates(F)
      BY <1>1, <2>1, <3>1 DEF RoomStates
    <3>3. gate' \in GateStates(F, S) /\ gate'.at = "admit" /\ gate'.claim = f
      BY <1>1, <2>1, <3>1 DEF Goto, GateStates, Places
    <3> QED BY <1>1, <2>1, <3>1, <3>2, <3>3 DEF Ready
  <2>2. CASE ~answered
    BY <1>2, <1>3, <2>2, AbandonType DEF StartClaims, Ready
  <2> QED BY <2>1, <2>2
<1>4. CASE MutateClaims(answered)
  <2> DEFINE written == [claimed EXCEPT !.disabled = FALSE, !.draining = FALSE, !.operation = TRUE]
             kept == [claimed EXCEPT !.staleRelease = IF @ = None THEN f ELSE @]
  <2>1. UNCHANGED <<room, beat, hook, forgets, shutdown>>
    BY <1>4 DEF MutateClaims
  <2>2. \/ gate' = FreeGate /\ UNCHANGED <<account, exec>>
        \/ answered /\ gate' = FreeGate /\ BeginStale(Attached, f)
        \/ answered /\ gate' = FreeGate /\ account' = kept /\ UNCHANGED exec
        \/ answered /\ gate' = [Goto("write") EXCEPT !.claim = f] /\ account' = written
             /\ UNCHANGED exec
    BY <1>4 DEF MutateClaims
  <2>3. answered => written \in AccountStates(F, S) /\ kept \in AccountStates(F, S)
    <3> HIDE DEF f, claimed
    <3> QED BY <1>1 DEF AccountStates
  <2> HIDE DEF f, claimed, written, kept
  <2>4. account' \in AccountStates(F, S) /\ exec' \in [SessionIds -> ExecStates(F)]
    BY <1>1, <1>2, <2>2, <2>3, BeginStaleType
  <2>5. gate' = FreeGate \/ (answered /\ gate' = [Goto("write") EXCEPT !.claim = f])
    BY <2>2
  <2>6. /\ gate' \in GateStates(F, S)
        /\ gate'.at \in {"none", "write"}
        /\ gate'.at = "write" => gate'.claim # None
    <3>1. CASE gate' = FreeGate
      BY <3>1, GatesIn
    <3>2. CASE answered /\ gate' = [Goto("write") EXCEPT !.claim = f]
      BY <1>1, <3>2 DEF Goto, GateStates, Places
    <3> QED BY <2>5, <3>1, <3>2
  <2> QED BY <2>1, <2>4, <2>6 DEF Ready
<1> QED BY <1>3, <1>4

LEMMA OpenSteps ==
  ASSUME NEW F, NEW S, MemoryIn(F, S), Ready, None \in F,
         NEW s \in S, NEW answered \in BOOLEAN, StartOpens(s, answered)
  PROVE  MemoryIn(F, S)' /\ Ready'
<1> USE DEF MemoryIn
<1>1. UNCHANGED <<room, beat, hook, forgets, shutdown>> /\ gate.at = "open"
  BY DEF StartOpens, At
<1>2. gate' \in GateStates(F, S) /\ gate'.at \in {"publish", "undo"} /\ gate'.claim # None
  BY <1>1 DEF StartOpens, Ready, Goto, GateStates, Places
<1>3. account' \in AccountStates(F, S)
  BY DEF StartOpens, AccountStates
<1>4. exec' \in [SessionIds -> ExecStates(F)]
  <2>1. NewSession \in ExecStates(F)
    BY DEF NewSession, ExecStates, Running
  <2> QED BY <2>1 DEF StartOpens
<1> QED BY <1>1, <1>2, <1>3, <1>4 DEF Ready

-----------------------------------------------------------------------------
(* Known fences and begun sessions only grow.                              *)

LEMMA KnownRooted == TypeOK => Rooted(Known, Begun)
BY SentinelAssumption DEF SentinelAssumption, TypeOK, Rooted, Known, Begun, None

LEMMA MemoryGrows ==
  ASSUME NEW F, NEW S, MemoryIn(F, S)', F \subseteq Known', S \subseteq Begun'
  PROVE  Grounded'
BY DEF Grounded, MemoryIn, AccountStates, ExecStates, GateStates, RoomStates, BeatStates

LEMMA DatabaseGrows ==
  ASSUME TypeOK, [Next]_vars
  PROVE  Known \subseteq Known' /\ Begun \subseteq Begun'
<1>1. issued \subseteq issued'
  BY DEF Next, vars, ClaimOwnership, FirstClaim, ClaimAgain, Takeover, Answer, RenewOwnership,
         ReleaseOwnership, Expire, DisableAccount, EnableAccount, StartSession, EndSession,
         CommitRuntimeEvent, ReconcileSession
<1>2. ASSUME NEW r \in SessionIds, opener[r] \in issued
      PROVE  opener'[r] = opener[r]
  <2>1. opener[r] # NoFence
    BY <1>2, SentinelAssumption DEF SentinelAssumption, TypeOK
  <2>2. ASSUME NEW f, NEW reconcile, NEW s, StartSession(f, reconcile, s)
        PROVE  opener'[r] = opener[r]
    BY <2>1, <2>2 DEF StartSession, Exists, TypeOK
  <2> QED
    BY <2>2 DEF Next, vars, ClaimOwnership, FirstClaim, ClaimAgain, Takeover, RenewOwnership,
         ReleaseOwnership, Expire, DisableAccount, EnableAccount, EndSession,
         CommitRuntimeEvent, ReconcileSession
<1> QED BY <1>1, <1>2 DEF Known, Begun

-----------------------------------------------------------------------------
(* The refinement: a step of the process is a transaction of               *)
(* SessionOwnership, with a fence that was issued, or none at all.         *)

LEMMA ClaimImplements ==
  ASSUME NEW t \in Tokens, NEW answered \in BOOLEAN, ClaimOwnership(Account, t, answered)
  PROVE  Next
BY RuntimeAssumption DEF RuntimeAssumption, Next

LEMMA StepImplements == RuntimeInv /\ [RuntimeNext]_all => [Next]_vars
<1> SUFFICES ASSUME RuntimeInv, [RuntimeNext]_all
             PROVE  [Next]_vars
  OBVIOUS
<1> USE RuntimeAssumption DEF RuntimeAssumption
<1> DEFINE Idle == UNCHANGED database
<1>1. /\ account.owner \in Known
      /\ gate.fence \in Known
      /\ gate.session \in Begun
      /\ beat.fence \in Known
  BY DEF RuntimeInv, Grounded, MemoryIn, AccountStates, GateStates, BeatStates
<1>2. \A f \in Known : f # None => f \in issued
  BY DEF Known
<1>3. \A s \in Begun : s # NoSession => s \in SessionIds
  BY DEF Begun
<1>4. Ready
  BY DEF RuntimeInv
<1>5. ASSUME NEW answered \in BOOLEAN, StartClaims(answered) \/ MutateClaims(answered)
      PROVE  Next
  BY <1>5, ClaimImplements DEF StartClaims, MutateClaims
<1>6. ASSUME NEW s \in SessionIds, NEW answered \in BOOLEAN, StartOpens(s, answered)
      PROVE  Next
  <2>1. account.reconcile \in BOOLEAN /\ account.owner \in issued
    BY <1>1, <1>2, <1>6 DEF RuntimeInv, Grounded, MemoryIn, AccountStates, StartOpens
  <2> QED BY <1>6, <2>1 DEF StartOpens, Next
<1>7. ASSUME NEW answered \in BOOLEAN, Ends(answered) \/ Reconciles(answered) \/ Releases(answered)
      PROVE  Next
  BY <1>1, <1>2, <1>3, <1>4, <1>7 DEF Ends, Reconciles, Releases, Ready, Next
<1>8. CASE BeatRenews
  BY <1>1, <1>2, <1>4, <1>8 DEF BeatRenews, Ready, Next
<1>9. CASE AdministratorEnables \/ \E here \in BOOLEAN : AdministratorDisables(here)
  BY <1>9 DEF AdministratorEnables, AdministratorDisables, Next
<1>10. CASE OtherProcess
  <2>1. CASE \E t \in Tokens \ {Me} : ClaimOwnership(Account, t, TRUE)
    BY <2>1, ClaimImplements
  <2> QED BY <1>10, <2>1 DEF OtherProcess, Next
<1>11. CASE Expires
  BY <1>11 DEF Expires, Next
<1>12. ASSUME Consume \/ (\E e \in RoomEvents : Announce(e))
       PROVE  Idle
  BY <1>12 DEF Consume, BeginEvent, InterruptEvent, FinishEvent, RefuseAdmission, AcquireStart,
              AcquireStop, Announce
<1>13. ASSUME \/ StartCleansUp \/ StartFindsIt \/ StartRenounces \/ StartProceeds
              \/ StartAdmits(TRUE) \/ StartAdmits(FALSE) \/ StartFails \/ StartPublishes
              \/ StartUndoes \/ StopLooks
       PROVE  Idle
  BY <1>13 DEF StartCleansUp, StartFindsIt, StartRenounces, StartProceeds, StartAdmits, StartFails,
              StartPublishes, StartUndoes, StopLooks
<1>14. ASSUME \/ Drained \/ DrainFails \/ EndsAgain \/ EndConflicts \/ Settle \/ ReleaseConflicts
              \/ Drops \/ CallFails \/ Restarted \/ Renounced \/ StartFailed \/ Stopped
       PROVE  Idle
  BY <1>14 DEF Drained, DrainFails, EndsAgain, EndConflicts, Settle, ReleaseConflicts, Drops,
              CallFails, Restarted, Renounced, StartFailed, Stopped
<1>15. ASSUME \/ MutateDisabled \/ MutateConflicts \/ MutateWrites \/ MutateLoses \/ MutateReturns
              \/ HookMarks \/ DrainLooks \/ DrainReturns \/ (\E f \in forgets : Forget(f))
              \/ StaleLooks \/ StaleFinishes
       PROVE  Idle
  BY <1>15 DEF MutateDisabled, MutateConflicts, MutateWrites, MutateLoses, MutateReturns,
              HookMarks, DrainLooks, DrainReturns, Forget, StaleLooks, StaleFinishes
<1>16. ASSUME \/ BeatStarts \/ BeatLoses \/ BeatRefused \/ BeatMarks \/ BeatFails \/ WorkerLoses
              \/ Close \/ ShutdownQueues \/ ShutdownReturns \/ ShutdownLooks \/ ShutdownDetaches
              \/ ShutdownLeaves \/ AcquireMutate \/ AcquireDrain \/ AcquireStale \/ AcquireShutdown
       PROVE  Idle
  BY <1>16 DEF BeatStarts, BeatLoses, BeatRefused, BeatMarks, BeatFails, WorkerLoses, Close,
              ShutdownQueues, ShutdownReturns, ShutdownLooks, ShutdownDetaches, ShutdownLeaves,
              AcquireMutate, AcquireDrain, AcquireStale, AcquireShutdown
<1>17. CASE UNCHANGED all
  BY <1>17 DEF all, database
<1>18. Idle => [Next]_vars
  BY DEF database
<1> HIDE DEF Idle
<1> QED
  BY <1>5, <1>6, <1>7, <1>8, <1>9, <1>10, <1>11, <1>12, <1>13, <1>14, <1>15, <1>16, <1>17, <1>18
  DEF RuntimeNext, Operate, Succeed, Fail, Beat

-----------------------------------------------------------------------------
(* RuntimeInv is inductive.                                                *)

LEMMA RuntimeInitInv == RuntimeInit => RuntimeInv
<1> SUFFICES ASSUME RuntimeInit PROVE RuntimeInv
  OBVIOUS
<1>1. TypeOK
  BY InitTyped DEF RuntimeInit
<1>2. account \in AccountStates(Known, Begun)
  BY DEF RuntimeInit, AccountStates, Known, Begun
<1>3. exec \in [SessionIds -> ExecStates(Known)]
  BY DEF RuntimeInit, NewSession, ExecStates, Known
<1>4. gate \in GateStates(Known, Begun) /\ room \in RoomStates(Known) /\ beat \in BeatStates(Known)
  BY DEF RuntimeInit, FreeGate, GateStates, RoomStates, BeatStates, Operations, Places, Purposes,
         Known, Begun
<1>5. Ready
  BY DEF RuntimeInit, FreeGate, Ready
<1> QED BY <1>1, <1>2, <1>3, <1>4, <1>5 DEF RuntimeInit, RuntimeInv, Grounded, MemoryIn

LEMMA RuntimeStep == RuntimeInv /\ [RuntimeNext]_all => RuntimeInv'
<1> SUFFICES ASSUME RuntimeInv, [RuntimeNext]_all PROVE RuntimeInv'
  OBVIOUS
<1>1. TypeOK /\ Grounded /\ Ready
  BY DEF RuntimeInv
<1>2. [Next]_vars
  BY StepImplements
<1>3. TypeOK' /\ Known \subseteq Known' /\ Begun \subseteq Begun'
  BY <1>1, <1>2, StepTyped, DatabaseGrows
<1>4. PICK F, S : F = Known /\ S = Begun
  OBVIOUS
<1>5. Rooted(F, S) /\ MemoryIn(F, S)
  BY <1>1, <1>4, KnownRooted DEF Grounded
<1>6. CASE MemoryIn(F, S)' /\ Ready'
  BY <1>3, <1>4, <1>6, MemoryGrows DEF RuntimeInv
<1>7. ASSUME NEW answered \in BOOLEAN, StartClaims(answered) \/ MutateClaims(answered)
      PROVE  RuntimeInv'
  <2>1. PICK G : G = Known'
    OBVIOUS
  <2>2. F \subseteq G
    BY <1>3, <1>4, <2>1
  <2>3. Rooted(G, S) /\ MemoryIn(G, S)
    BY <1>5, <2>2
    DEF Rooted, MemoryIn, AccountStates, ExecStates, GateStates, RoomStates, BeatStates
  <2>4. answered => Fence(Account, Me, owner'[Account].epoch) \in G \ {None}
    <3>1. Account \in Accounts /\ Me \in Tokens
      BY RuntimeAssumption DEF RuntimeAssumption
    <3>2. answered => Fence(Account, Me, owner'[Account].epoch) \in issued'
      BY <1>1, <1>7, <3>1, ClaimIssues DEF StartClaims, MutateClaims
    <3>3. None \notin issued'
      BY <1>3, SentinelAssumption DEF SentinelAssumption, TypeOK, None
    <3> QED BY <2>1, <3>2, <3>3 DEF Known, Fence
  <2>5. ClaimReconciles(Account) \in BOOLEAN
    BY Zenon DEF ClaimReconciles
  <2>6. MemoryIn(G, S)' /\ Ready'
    BY <1>1, <1>7, <2>3, <2>4, <2>5, ClaimSteps
  <2> QED BY <1>3, <1>4, <2>1, <2>6, MemoryGrows DEF RuntimeInv
<1>8. ASSUME NEW s \in SessionIds, NEW answered \in BOOLEAN, StartOpens(s, answered)
      PROVE  RuntimeInv'
  <2>1. PICK T : T = Begun'
    OBVIOUS
  <2>2. MemoryIn(F, T)
    BY <1>3, <1>4, <1>5, <2>1 DEF MemoryIn, AccountStates, GateStates
  <2>3. s \in T /\ None \in F
    <3>1. account.owner \in Known \ {None} /\ issued' = issued /\ opener'[s] = account.owner
      BY <1>1, <1>8
      DEF StartOpens, StartSession, Grounded, MemoryIn, AccountStates, TypeOK, None
    <3>2. Known' = Known /\ None \in Known
      BY <3>1 DEF Known
    <3> QED BY <1>4, <2>1, <3>1, <3>2 DEF Begun
  <2>4. MemoryIn(F, T)' /\ Ready'
    BY <1>1, <1>8, <2>2, <2>3, OpenSteps
  <2> QED BY <1>3, <1>4, <2>1, <2>4, MemoryGrows DEF RuntimeInv
<1>9. CASE UNCHANGED memory
  BY <1>1, <1>5, <1>6, <1>9 DEF memory, MemoryIn, Ready
<1>10. CASE \/ \E e \in RoomEvents : Announce(e)
            \/ Consume \/ AcquireMutate \/ AcquireDrain \/ AcquireStale \/ AcquireShutdown
  BY <1>1, <1>5, <1>6, <1>10, RoomSteps, AcquireSteps
<1>11. CASE Operate
  <2> USE DEF Operate, Succeed, Fail
  <2>1. CASE \/ StartCleansUp \/ StartFindsIt \/ StartRenounces \/ StartProceeds
             \/ StartAdmits(TRUE) \/ StartAdmits(FALSE) \/ StartFails \/ StartPublishes
             \/ StartUndoes
    BY <1>1, <1>5, <1>6, <2>1, StartSteps
  <2>2. CASE \/ StopLooks \/ Drained \/ DrainFails \/ EndsAgain \/ EndConflicts \/ Settle
             \/ ReleaseConflicts \/ Drops \/ CallFails
             \/ \E answered \in BOOLEAN :
                  Ends(answered) \/ Reconciles(answered) \/ Releases(answered)
    BY <1>1, <1>5, <1>6, <2>2, CleanupSteps
  <2>3. CASE Restarted \/ Renounced \/ StartFailed \/ Stopped
    BY <1>1, <1>5, <1>6, <2>3, AfterCleanupSteps
  <2>4. CASE MutateDisabled \/ MutateConflicts \/ MutateWrites \/ MutateLoses \/ MutateReturns
    BY <1>1, <1>5, <1>6, <2>4, MutateSteps
  <2>5. CASE DrainLooks \/ DrainReturns
    BY <1>1, <1>5, <1>6, <2>5, DisableSteps
  <2>6. CASE StaleLooks \/ StaleFinishes
    BY <1>1, <1>5, <1>6, <2>6, StaleSteps
  <2>7. CASE ShutdownLooks \/ ShutdownDetaches \/ ShutdownLeaves
    BY <1>1, <1>5, <1>6, <2>7, ShutdownSteps
  <2> QED BY <1>7, <1>8, <1>11, <2>1, <2>2, <2>3, <2>4, <2>5, <2>6, <2>7
<1>12. CASE \/ \E here \in BOOLEAN : AdministratorDisables(here)
            \/ AdministratorEnables \/ HookMarks
            \/ \E f \in forgets : Forget(f)
  BY <1>1, <1>5, <1>6, <1>12, DisableSteps
<1>13. CASE BeatStarts \/ Beat \/ WorkerLoses
  BY <1>1, <1>5, <1>6, <1>13, LossSteps
<1>14. CASE Close \/ ShutdownQueues \/ ShutdownReturns
  BY <1>1, <1>5, <1>6, <1>14, ShutdownSteps
<1>15. CASE OtherProcess \/ Expires \/ UNCHANGED all
  BY <1>9, <1>15 DEF OtherProcess, Expires, all
<1> QED BY <1>10, <1>11, <1>12, <1>13, <1>14, <1>15 DEF RuntimeNext

LEMMA RuntimeInvariant == RuntimeSpec => []RuntimeInv
BY RuntimeInitInv, RuntimeStep, PTL DEF RuntimeSpec

\* What a process remembers, in any number of sessions and whatever its threads
\* do, is well-formed: its steps never leave the states the code can represent.
THEOREM RuntimeTypes == RuntimeSpec => []RuntimeTypeOK
<1>1. RuntimeInv => RuntimeTypeOK
  BY DEF RuntimeInv, Grounded, MemoryIn, RuntimeTypeOK, TypeOK, Known, Begun, FenceOrNone,
         SessionOrNone, AccountStates, ExecStates, GateStates, RoomStates, BeatStates
<1> QED BY <1>1, RuntimeInvariant, PTL

\* The threads of runtime/manager.go and runtime/session.go, as modelled here,
\* present to the repository only fences that ClaimOwnership answered and only
\* sessions opened under them: the theorems about SessionOwnership hold of
\* every process that runs this code.
THEOREM RuntimeImplements == RuntimeSpec => ImplementsOwnership
<1>1. RuntimeInit => Init
  BY DEF RuntimeInit
<1> QED BY <1>1, StepImplements, RuntimeInvariant, PTL DEF RuntimeSpec, Spec, ImplementsOwnership

\* What the process does to the database never leaves an account with two open
\* sessions, or with one that its guard row does not name.
COROLLARY RuntimeGuardCorrect == RuntimeSpec => []GuardNamesTheOpenSession
BY RuntimeImplements, GuardCorrect, PTL DEF ImplementsOwnership

\* However this process loses, cleans up and claims again, nobody ends the
\* session of a process that holds the account.
COROLLARY RuntimeHolderEnds == RuntimeSpec => OnlyTheHolderEndsASession
BY RuntimeImplements, HolderEnds, PTL DEF ImplementsOwnership

(***************************************************************************)
(* The sessions a process opened and the operation that holds the gate.    *)
(* Shutdown leaves none open.                                              *)
(*                                                                         *)
(* AttachInv says what the gate protects: what the holder may be doing     *)
(* (GateShape), that every session opened and not yet released is the one  *)
(* attached to the account (Sessions), how far the cleanup in progress has *)
(* brought its session (Stage) and which session that is (Holder), and     *)
(* that nothing is attached again once Shutdown has passed (Closed).  No   *)
(* part is inductive alone: a session is only detached when it is          *)
(* released, which is known from Stage, of the session that Holder names.  *)
(***************************************************************************)

\* The steps of advanceSessionCleanup and releaseOwner.
Cleaning == {"drain", "end", "reconcile", "settle", "release", "drop", "done"}

\* A cleanup goes back to the operation that asked for it.
Serves ==
  \/ gate.op = "start" /\ gate.then \in {"restart", "claim", "refuse", "undo"}
  \/ gate.op = "mutate" /\ gate.then = "return"
  \/ gate.op \in {"stop", "drain", "stale", "shutdown"} /\ gate.then = gate.op

GateShape ==
  /\ gate.op = "none" <=> gate.at = "none"
  /\ gate.at \in {"admit", "open", "publish", "undo"} => gate.op = "start"
  /\ gate.at = "claim" => gate.op \in {"start", "mutate"}
  /\ gate.at = "write" => gate.op = "mutate"
  /\ gate.at \in Cleaning => Serves
  /\ gate.at \notin Cleaning => /\ gate.session = NoSession
                              /\ gate.then \in {"none", "stale", "shutdown"}
  /\ gate.then \in {"claim", "refuse", "return"} => gate.session = NoSession
  /\ gate.op \in {"start", "stop"} => room.applying
  /\ gate.op = "shutdown" => shutdown # "running"

\* At most one session is attached, and every session that was opened and is not
\* released is that one.
Sessions ==
  /\ account.current = NoSession \/ account.pending = NoSession
  /\ \A s \in SessionIds :
       /\ exec[s].phase \in {"ended", "released"} => endedBy[s] # NotEnded
       /\ exec[s].phase \notin {"none", "released"} => s = Attached
       /\ exec[s].phase # "none" => opener[s] \in Known \ {None}
  /\ Attached # NoSession => exec[Attached].phase # "none"
  /\ account.target # NoSession => exec[account.target].phase # "none"
  /\ gate.session # NoSession => exec[gate.session].phase # "none"

\* How far the session is of which the holder of the gate takes care.
Stage ==
  gate.session # NoSession =>
    /\ gate.at = "drain" => exec[gate.session].phase \in Running
    /\ gate.at \in {"end", "reconcile"} => exec[gate.session].phase = "drained"
    /\ gate.at = "settle" => /\ exec[gate.session].phase \in {"drained", "ended"}
                             /\ endedBy[gate.session] # NotEnded
    /\ gate.at \in {"release", "drop"} => exec[gate.session].phase = "ended"
    /\ gate.at = "done" => exec[gate.session].phase = "released"

\* Which session that is.
Holder ==
  /\ gate.at \in Cleaning /\ gate.op \in {"start", "stop", "drain", "shutdown"} =>
       gate.session = Attached
  /\ gate.at \in {"release", "drop"} /\ gate.op = "mutate" => Attached = NoSession
  /\ gate.op = "stale" => account.stale
  /\ gate.at \in Cleaning /\ gate.op = "stale" => gate.session = account.target
  /\ gate.at \in {"claim", "admit", "open"} /\ gate.op = "start" => Attached = NoSession
  /\ gate.at = "publish" => account.current = NoSession /\ account.pending # NoSession

Closed ==
  /\ shutdown # "running" => account.shutting
  /\ shutdown \in {"closed", "done"} =>
       /\ Attached = NoSession
       /\ gate.op = "start" => gate.at \notin {"claim", "admit", "open", "publish"}
                               /\ gate.then # "claim"

AttachInv == GateShape /\ Sessions /\ Stage /\ Holder /\ Closed

\* What no step takes back: the end of a session, and the fence that opened it.
Keeps ==
  \A s \in SessionIds :
    /\ endedBy[s] # NotEnded => endedBy'[s] # NotEnded
    /\ opener[s] \in Known \ {None} => opener'[s] = opener[s] /\ opener'[s] \in Known' \ {None}

MemoryTypes ==
  /\ account \in AccountStates(Known, Begun)
  /\ exec \in [SessionIds -> ExecStates(Known)]
  /\ gate \in GateStates(Known, Begun)
  /\ room \in RoomStates(Known)

LEMMA TypesOfMemory ==
  ASSUME RuntimeInv
  PROVE  /\ MemoryTypes
         /\ Begun \subseteq SessionIds \cup {NoSession}
         /\ NoSession \notin SessionIds
BY OwnershipAssumption
DEF OwnershipAssumption, RuntimeInv, Grounded, MemoryIn, MemoryTypes, Begun

LEMMA StepKeeps ==
  ASSUME RuntimeInv, [Next]_vars
  PROVE  Keeps
<1>1. TypeOK
  BY DEF RuntimeInv
<1>2. ASSUME NEW s \in SessionIds, endedBy[s] # NotEnded
      PROVE  endedBy'[s] # NotEnded
  <2>1. \A f \in Fences : f # NotEnded
    BY SentinelAssumption DEF SentinelAssumption
  <2>2. Reconciled # NotEnded /\ issued \subseteq Fences
    BY <1>1, SentinelAssumption DEF SentinelAssumption, TypeOK
  <2>3. ASSUME NEW f \in issued, NEW reconcile, NEW r \in SessionIds,
               StartSession(f, reconcile, r) \/ EndSession(f, r)
        PROVE  endedBy'[s] # NotEnded
    BY <1>1, <1>2, <2>1, <2>2, <2>3 DEF StartSession, EndSession, ReconcileOpen, OpenSessions, TypeOK
  <2>4. ASSUME NEW r \in SessionIds, ReconcileSession(r)
        PROVE  endedBy'[s] # NotEnded
    BY <1>1, <1>2, <2>2, <2>4 DEF ReconcileSession, TypeOK
  <2> QED
    BY <1>2, <2>3, <2>4
    DEF Next, vars, ClaimOwnership, FirstClaim, ClaimAgain, Takeover, RenewOwnership,
        ReleaseOwnership, Expire, DisableAccount, EnableAccount, CommitRuntimeEvent
<1>3. ASSUME NEW s \in SessionIds, opener[s] \in Known \ {None}
      PROVE  opener'[s] = opener[s] /\ opener'[s] \in Known' \ {None}
  <2>1. opener[s] # NoFence /\ opener[s] \in Known'
    BY <1>1, <1>3, DatabaseGrows DEF None
  <2>2. ASSUME NEW f, NEW reconcile, NEW r, StartSession(f, reconcile, r)
        PROVE  opener'[s] = opener[s]
    BY <1>1, <2>1, <2>2 DEF StartSession, Exists, TypeOK
  <2>3. opener'[s] = opener[s]
    BY <2>2
    DEF Next, vars, ClaimOwnership, FirstClaim, ClaimAgain, Takeover, RenewOwnership,
         ReleaseOwnership, Expire, DisableAccount, EnableAccount, EndSession,
         CommitRuntimeEvent, ReconcileSession
  <2> QED BY <1>3, <2>1, <2>3
<1> QED BY <1>2, <1>3 DEF Keeps

-----------------------------------------------------------------------------
\* A step that changes no phase, and detaches at most a released session.
LEMMA SessionsKept ==
  ASSUME Sessions, Keeps, NoSession \notin SessionIds,
         account'.current = NoSession \/ account'.pending = NoSession,
         \A s \in SessionIds : \/ exec'[s].phase = exec[s].phase
                               \/ exec'[s].phase \in Running /\ exec[s].phase \in Running,
         \A s \in {Attached, account.target, gate.session} : s \in SessionIds \cup {NoSession},
         \/ Attached' = Attached
         \/ Attached' = NoSession /\ (Attached # NoSession => exec[Attached].phase = "released"),
         account'.target \in {NoSession, account.target, Attached},
         gate'.session \in {NoSession, gate.session, account.target, Attached}
  PROVE  Sessions'
BY DEF Sessions, Keeps, Running

\* The steps of the consumer outside the gate, and those at which the gate is granted.
LEMMA AcquireAttach ==
  ASSUME RuntimeInv, AttachInv, Keeps,
         \/ \E e \in RoomEvents : Announce(e)
         \/ Consume \/ AcquireMutate \/ AcquireDrain \/ AcquireStale \/ AcquireShutdown
  PROVE  AttachInv'
<1>1. UNCHANGED <<account, exec, shutdown>> /\ Attached' = Attached
  BY DEF Announce, Consume, BeginEvent, InterruptEvent, FinishEvent, RefuseAdmission,
         AcquireStart, AcquireStop, AcquireMutate, AcquireDrain, AcquireStale, AcquireShutdown, Attached
<1>2. MemoryTypes /\ NoSession \notin SessionIds /\ Begun \subseteq SessionIds \cup {NoSession}
  BY TypesOfMemory
<1>3. \/ UNCHANGED gate /\ (gate.op \in {"start", "stop"} /\ room.applying => room'.applying)
      \/ \E op \in Operations \ {"none"}, at \in {"look", "claim"} :
            /\ gate' = GateFor(op, at)
            /\ UNCHANGED room
            /\ op \in {"start", "stop"} => room.applying
            /\ op = "shutdown" => shutdown # "running"
            /\ op = "stale" => account.stale
            /\ at = "claim" => op = "mutate"
  <2>1. CASE \E e \in RoomEvents : Announce(e)
    BY <1>2, <2>1 DEF Announce, MemoryTypes, RoomStates
  <2>2. CASE BeginEvent \/ InterruptEvent \/ FinishEvent \/ RefuseAdmission
    BY <1>2, <2>2 DEF BeginEvent, InterruptEvent, FinishEvent, RefuseAdmission, Applied, MemoryTypes, RoomStates
  <2>3. CASE AcquireStart \/ AcquireStop
    BY <2>3 DEF AcquireStart, AcquireStop, Operations
  <2>4. CASE AcquireMutate \/ AcquireDrain \/ AcquireStale \/ AcquireShutdown
    BY <2>4 DEF AcquireMutate, AcquireDrain, AcquireStale, AcquireShutdown, Operations
  <2> QED BY <2>1, <2>2, <2>3, <2>4 DEF Consume
<1>4. Sessions'
  <2>1. gate'.session \in {NoSession, gate.session}
    BY <1>3 DEF GateFor, FreeGate
  <2>2. \A s \in {Attached, account.target, gate.session} : s \in SessionIds \cup {NoSession}
    BY <1>2 DEF MemoryTypes, AccountStates, GateStates, Attached
  <2>3. Sessions /\ (account.current = NoSession \/ account.pending = NoSession)
    BY DEF AttachInv, Sessions
  <2>4. /\ \A s \in SessionIds : \/ exec'[s].phase = exec[s].phase
                                 \/ exec'[s].phase \in Running /\ exec[s].phase \in Running
        /\ account'.current = NoSession \/ account'.pending = NoSession
        /\ account'.target \in {NoSession, account.target, Attached}
        /\ gate'.session \in {NoSession, gate.session, account.target, Attached}
    BY <1>1, <2>1, <2>3
  <2>5. NoSession \notin SessionIds /\ Attached' = Attached
    BY <1>1, <1>2
  <2> QED BY <2>2, <2>3, <2>4, <2>5, SessionsKept
<1>5. CASE UNCHANGED gate /\ (gate.op \in {"start", "stop"} /\ room.applying => room'.applying)
  <2>1. GateShape'
    BY <1>1, <1>5 DEF AttachInv, GateShape, Serves
  <2>2. Stage'
    BY <1>1, <1>2, <1>5 DEF AttachInv, Stage, Keeps, MemoryTypes, GateStates
  <2>3. Holder' /\ Closed'
    BY <1>1, <1>5 DEF AttachInv, Holder, Closed
  <2> QED BY <1>4, <2>1, <2>2, <2>3 DEF AttachInv
<1>6. ASSUME NEW op \in Operations \ {"none"}, NEW at \in {"look", "claim"},
            /\ gate' = GateFor(op, at)
            /\ UNCHANGED room
            /\ op \in {"start", "stop"} => room.applying
            /\ op = "shutdown" => shutdown # "running"
            /\ op = "stale" => account.stale
            /\ at = "claim" => op = "mutate"
      PROVE AttachInv'
  <2>1. gate'.op = op /\ gate'.at = at /\ gate'.session = NoSession /\ gate'.then = "none"
    BY <1>6 DEF GateFor, FreeGate
  <2> QED BY <1>1, <1>4, <1>6, <2>1 DEF AttachInv, GateShape, Serves, Stage, Holder, Closed, Cleaning, Operations
<1> QED BY <1>3, <1>5, <1>6

\* Steps that leave the sessions where they are, whatever they do to the gate; at
\* most a cleanup of the attached one begins.
SameAccount ==
  /\ account'.current = account.current
  /\ account'.pending = account.pending
  /\ account'.shutting = account.shutting
  /\ account.stale => account'.stale
  /\ \/ account'.target = account.target
     \/ ~account.stale /\ account'.target \in {NoSession, Attached}

LEMMA Regated ==
  ASSUME RuntimeInv, AttachInv, Keeps, SameAccount, UNCHANGED shutdown,
         \A s \in SessionIds : \/ exec'[s].phase = exec[s].phase
                               \/ exec'[s].phase \in Running /\ exec[s].phase \in Running,
         gate'.session \in {NoSession, gate.session, account.target, Attached},
         GateShape', Stage', Holder',
         shutdown \in {"closed", "done"} /\ gate'.op = "start" =>
            /\ gate'.at \notin {"claim", "admit", "open", "publish"}
            /\ gate'.then # "claim"
  PROVE  AttachInv'
<1>1. NoSession \notin SessionIds
      /\ \A s \in {Attached, account.target, gate.session} : s \in SessionIds \cup {NoSession}
  BY TypesOfMemory DEF MemoryTypes, AccountStates, GateStates, Attached
<1>2. Attached' = Attached
  BY DEF SameAccount, Attached
<1>3. Sessions'
  <2>1. Sessions /\ (account'.current = NoSession \/ account'.pending = NoSession)
    BY DEF AttachInv, Sessions, SameAccount
  <2>2. account'.target \in {NoSession, account.target, Attached}
    BY DEF SameAccount
  <2> QED BY <1>1, <1>2, <2>1, <2>2, SessionsKept
<1>4. Closed'
  BY <1>2 DEF AttachInv, Closed, SameAccount
<1> QED BY <1>3, <1>4 DEF AttachInv

\* What the entry of a cleanup does, for a session that was opened.
LEMMA EnterGives ==
  ASSUME RuntimeInv, Sessions, Keeps, NEW s \in SessionIds, exec[s].phase # "none",
         NEW f, NEW then, NEW claim, Enter(s, f, then, claim)
  PROVE  /\ gate'.op = gate.op
         /\ gate'.then = then
         /\ gate'.session = s
         /\ gate'.fence = gate.fence
         /\ gate'.claim = claim
         /\ gate'.at \in {"drain", "settle", "done"}
         /\ \A r \in SessionIds : exec'[r].phase = exec[r].phase
         /\ Stage'
<1>1. MemoryTypes
  BY TypesOfMemory
<1>2. \A r \in SessionIds : exec'[r].phase = exec[r].phase
  BY <1>1 DEF MemoryTypes, ExecStates, Enter
<1>3. /\ gate'.op = gate.op
      /\ gate'.then = then
      /\ gate'.session = s
      /\ gate'.fence = gate.fence
      /\ gate'.claim = claim
      /\ gate'.at = CASE exec[s].phase \in Running -> "drain"
                      [] exec[s].phase = "ended" -> "settle"
                      [] OTHER -> "done"
  BY <1>1 DEF MemoryTypes, GateStates, Enter
<1>4. exec[s].phase \in {"none", "ended", "released"} \cup Running
  BY <1>1 DEF MemoryTypes, ExecStates
<1>5. Stage'
  BY <1>2, <1>3, <1>4 DEF Stage, Sessions, Keeps, Running
<1> QED BY <1>2, <1>3, <1>5

LEMMA AbandonGives ==
  ASSUME RuntimeInv, AttachInv, Abandon
  PROVE  /\ SameAccount
         /\ account'.owner = account.owner
         /\ account'.staleRelease = account.staleRelease
         /\ gate'.session = NoSession
         /\ room'.owner = room.owner
         /\ room'.active = room.active
         /\ gate.op \notin {"start", "stop"} => room'.applying = room.applying
         /\ \/ gate.op \in {"stale", "shutdown"} /\ gate'.op = gate.op /\ gate'.at = "look"
                 /\ gate'.then \in {"none", "stale", "shutdown"}
            \/ gate.op = "mutate" /\ gate'.op = "mutate" /\ gate'.at = "done" /\ gate'.then = "return"
            \/ gate'.op = "none" /\ gate'.at = "none" /\ gate'.then = "none"
         /\ gate'.fence = gate.fence \/ gate' = FreeGate
<1>1. MemoryTypes
  BY TypesOfMemory
<1>2. /\ SameAccount
      /\ account'.owner = account.owner
      /\ account'.staleRelease = account.staleRelease
  BY <1>1 DEF Abandon, MemoryTypes, AccountStates, SameAccount
<1>3. /\ room'.owner = room.owner
      /\ room'.active = room.active
      /\ gate.op \notin {"start", "stop"} => room'.applying = room.applying
  BY <1>1 DEF Abandon, MemoryTypes, RoomStates
<1>4. CASE gate.op \in {"stale", "shutdown"}
  <2>1. gate.then # "return"
    BY <1>1, <1>4 DEF AttachInv, GateShape, Serves, MemoryTypes, GateStates
  <2>2. gate'.op = gate.op /\ gate'.at = "look" /\ gate'.then = gate.then /\ gate'.session = NoSession
        /\ gate'.fence = gate.fence
    BY <1>1, <1>4, <2>1 DEF Abandon, Goto, MemoryTypes, GateStates
  <2> QED BY <1>1, <1>2, <1>3, <1>4, <2>2 DEF AttachInv, GateShape, Serves, Cleaning
<1>5. CASE gate.op \notin {"stale", "shutdown"} /\ gate.then = "return"
  <2>1. gate' = Goto("done") /\ gate.session = NoSession /\ gate.op = "mutate"
    BY <1>5 DEF Abandon, AttachInv, GateShape, Serves
  <2> QED BY <1>1, <1>2, <1>3, <1>5, <2>1 DEF Goto, MemoryTypes, GateStates
<1>6. CASE gate.op \notin {"stale", "shutdown"} /\ gate.then # "return"
  <2>1. gate' = FreeGate
    BY <1>6 DEF Abandon
  <2> QED BY <1>2, <1>3, <2>1 DEF FreeGate
<1> QED BY <1>4, <1>5, <1>6

LEMMA AbandonAttach ==
  ASSUME RuntimeInv, AttachInv, Keeps, Abandon, UNCHANGED shutdown,
         \A s \in SessionIds : \/ exec'[s].phase = exec[s].phase
                               \/ exec'[s].phase \in Running /\ exec[s].phase \in Running
  PROVE  AttachInv'
<1>1. GateShape'
  BY AbandonGives DEF AttachInv, GateShape, Serves, Cleaning
<1>2. Stage' /\ Holder'
  BY AbandonGives DEF AttachInv, Holder, Stage, SameAccount, Cleaning
<1> QED BY <1>1, <1>2, AbandonGives, Regated

\* A holder that lets the gate go.
LEMMA FreeAttach ==
  ASSUME RuntimeInv, AttachInv, Keeps, SameAccount, UNCHANGED <<exec, shutdown>>, gate' = FreeGate
  PROVE  AttachInv'
<1>1. gate'.op = "none" /\ gate'.at = "none" /\ gate'.then = "none" /\ gate'.session = NoSession
  BY DEF FreeGate
<1>2. GateShape' /\ Stage' /\ Holder'
  BY <1>1 DEF GateShape, Stage, Holder, Cleaning
<1> QED BY <1>1, <1>2, Regated

\* The session that the holder has to clean up.
OfHolder == IF gate.op = "stale" THEN account.target ELSE Attached

\* The entry of a cleanup.
LEMMA EnterAttach ==
  ASSUME RuntimeInv, AttachInv, Keeps, UNCHANGED <<account, room, shutdown>>,
         NEW s, s = OfHolder, s # NoSession, NEW f, NEW then, NEW claim,
         \/ gate.op = "start" /\ then \in {"restart", "undo"}
         \/ gate.op \in {"stop", "drain", "stale", "shutdown"} /\ then = gate.op,
         Enter(s, f, then, claim)
  PROVE  AttachInv'
<1>1. s \in SessionIds /\ exec[s].phase # "none"
  BY TypesOfMemory
  DEF AttachInv, Sessions, MemoryTypes, AccountStates, Attached, OfHolder
<1>2. /\ gate'.op = gate.op
      /\ gate'.then = then
      /\ gate'.session = s
      /\ gate'.at \in {"drain", "settle", "done"}
      /\ \A r \in SessionIds : exec'[r].phase = exec[r].phase
      /\ Stage'
  BY <1>1, EnterGives DEF AttachInv
<1>3. SameAccount /\ Attached' = Attached
  BY DEF SameAccount, Attached
<1>4. GateShape'
  BY <1>2 DEF AttachInv, GateShape, Serves, Cleaning
<1>5. Holder'
  BY <1>2, <1>3 DEF AttachInv, Holder, Cleaning, OfHolder
<1> QED BY <1>2, <1>3, <1>4, <1>5, Regated DEF OfHolder

\* A cleanup without a session: only a fence is released, or nothing at all.
LEMMA ReleaseAttach ==
  ASSUME RuntimeInv, AttachInv, Keeps, SameAccount,
         UNCHANGED <<exec, room, shutdown>>,
         gate'.op = gate.op, gate'.session = NoSession,
         gate'.at \in {"release", "done"},
         \/ OfHolder = NoSession
         \/ gate.op = "mutate" /\ gate'.at = "done",
         \/ gate.op = "start" /\ gate'.then \in {"refuse", "undo"}
         \/ gate.op = "start" /\ gate'.then = "claim" /\ ~account.shutting
         \/ gate.op = "mutate" /\ gate'.then = "return"
         \/ gate.op \in {"stop", "drain", "stale", "shutdown"} /\ gate'.then = gate.op
  PROVE  AttachInv'
<1>1. Attached' = Attached
  BY DEF SameAccount, Attached
<1>2. GateShape'
  BY DEF AttachInv, GateShape, Serves, Cleaning
<1>3. Stage' /\ Holder'
  BY <1>1 DEF AttachInv, Stage, Holder, Cleaning, OfHolder, SameAccount
<1>4. gate'.op = "start" /\ gate'.then = "claim" => shutdown = "running"
  BY DEF AttachInv, Closed
<1> QED BY <1>2, <1>3, <1>4, Regated

\* A start that goes on.
LEMMA ForwardAttach ==
  ASSUME RuntimeInv, AttachInv, Keeps, SameAccount, UNCHANGED <<exec, shutdown>>,
         room'.applying = room.applying,
         gate.op = "start", gate.at \notin Cleaning,
         NEW at \in {"claim", "admit", "open", "undo"},
         gate'.op = gate.op, gate'.at = at, gate'.then = gate.then, gate'.session = NoSession,
         at # "undo" => Attached = NoSession,
         \/ at = "undo"
         \/ at = "claim" /\ ~account.shutting
         \/ gate.at \in {"claim", "admit", "open", "publish"}
  PROVE  AttachInv'
<1>1. Attached' = Attached
  BY DEF SameAccount, Attached
<1>2. GateShape'
  BY DEF AttachInv, GateShape, Serves, Cleaning
<1>3. Stage' /\ Holder'
  BY <1>1 DEF AttachInv, Stage, Holder, Cleaning
<1>4. shutdown \in {"closed", "done"} =>
            /\ gate'.at \notin {"claim", "admit", "open", "publish"}
            /\ gate'.then # "claim"
  BY DEF AttachInv, Closed
<1> QED BY <1>2, <1>3, <1>4, Regated

-----------------------------------------------------------------------------
\* A start, but for the opening and the publishing of its session.
LEMMA StartAttach ==
  ASSUME RuntimeInv, AttachInv, Keeps,
         \/ StartCleansUp \/ StartFindsIt \/ StartRenounces \/ StartProceeds
         \/ StartClaims(TRUE) \/ StartClaims(FALSE) \/ StartAdmits(TRUE) \/ StartAdmits(FALSE)
         \/ StartFails \/ StartUndoes
  PROVE  AttachInv'
<1>1. /\ MemoryTypes
      /\ gate.op # "stale" => OfHolder = Attached
      /\ account.current = NoSession \/ account.pending = NoSession
  BY TypesOfMemory DEF AttachInv, Sessions, OfHolder
<1>2. ASSUME UNCHANGED account PROVE SameAccount
  BY <1>2 DEF SameAccount
<1>3. CASE StartCleansUp
  BY <1>1, <1>3, EnterAttach DEF StartCleansUp, At, Attached
<1>4. CASE StartFindsIt
  BY <1>2, <1>4, FreeAttach DEF StartFindsIt
<1>5. CASE StartRenounces
  <2>1. /\ gate'.op = gate.op /\ gate'.session = NoSession /\ gate'.at = "release"
        /\ gate'.then = IF Blocked THEN "refuse" ELSE "claim"
    BY <1>1, <1>5 DEF StartRenounces, ReleaseThen, MemoryTypes, GateStates
  <2> QED BY <1>1, <1>2, <1>5, <2>1, ReleaseAttach DEF StartRenounces, At, Blocked
<1>6. CASE StartProceeds
  <2>1. CASE Blocked
    BY <1>6, <2>1, AbandonAttach DEF StartProceeds
  <2>2. CASE ~Blocked
    <3>1. gate' = Goto("claim") /\ UNCHANGED <<account, exec, room, shutdown>> /\ At("start", "look")
          /\ Attached = NoSession
      BY <1>6, <2>2 DEF StartProceeds
    <3>2. gate'.op = gate.op /\ gate'.at = "claim" /\ gate'.then = gate.then
          /\ gate'.session = NoSession
      BY <1>1, <3>1 DEF Goto, MemoryTypes, GateStates, AttachInv, GateShape, At, Cleaning
    <3> QED BY <1>2, <2>2, <3>1, <3>2, ForwardAttach DEF At, Blocked, Cleaning
  <2> QED BY <2>1, <2>2
<1>7. CASE StartClaims(TRUE)
  <2>1. PICK f : /\ account' = [account EXCEPT !.owner = f, !.reconcile = ClaimReconciles(Account)]
                 /\ room' = [room EXCEPT !.owner = f]
                 /\ gate' = [Goto("admit") EXCEPT !.claim = f]
    BY <1>7 DEF StartClaims
  <2>2. SameAccount /\ room'.applying = room.applying
    BY <1>1, <2>1 DEF SameAccount, MemoryTypes, AccountStates, RoomStates
  <2>3. gate'.op = gate.op /\ gate'.at = "admit" /\ gate'.then = gate.then
        /\ gate'.session = NoSession
    BY <1>1, <1>7, <2>1
    DEF StartClaims, Goto, MemoryTypes, GateStates, AttachInv, GateShape, At, Cleaning
  <2>4. Attached = NoSession
    BY <1>7 DEF StartClaims, At, AttachInv, Holder
  <2> QED BY <1>7, <2>2, <2>3, <2>4, ForwardAttach DEF StartClaims, At, Cleaning
<1>8. CASE StartClaims(FALSE)
  BY <1>8, AbandonAttach DEF StartClaims
<1>9. CASE StartAdmits(TRUE) \/ StartFails
  <2>1. PICK at \in {"open", "undo"} :
          /\ gate' = Goto(at) /\ UNCHANGED <<account, exec, room, shutdown>>
          /\ gate.op = "start" /\ gate.at \in {"admit", "open", "publish"}
          /\ at = "open" => gate.at = "admit"
    BY <1>9 DEF StartAdmits, StartFails, At
  <2>2. gate'.op = gate.op /\ gate'.at = at /\ gate'.then = gate.then
        /\ gate'.session = NoSession
    BY <1>1, <2>1 DEF Goto, MemoryTypes, GateStates, AttachInv, GateShape, Cleaning
  <2>3. gate.at \in {"admit", "open"} => Attached = NoSession
    BY <2>1 DEF AttachInv, Holder
  <2> QED BY <1>2, <2>1, <2>2, <2>3, ForwardAttach DEF Cleaning
<1>10. CASE StartAdmits(FALSE)
  <2>1. /\ gate'.op = gate.op /\ gate'.session = NoSession /\ gate'.at = "release"
        /\ gate'.then = "undo"
    BY <1>1, <1>10 DEF StartAdmits, ReleaseThen, MemoryTypes, GateStates
  <2>2. Attached = NoSession
    BY <1>10 DEF StartAdmits, At, AttachInv, Holder
  <2> QED BY <1>1, <1>2, <1>10, <2>1, <2>2, ReleaseAttach DEF StartAdmits, At
<1>11. CASE StartUndoes
  <2>1. CASE Attached # NoSession
    BY <1>1, <1>11, <2>1, EnterAttach DEF StartUndoes, At
  <2>2. CASE Attached = NoSession
    <3>1. /\ gate'.op = gate.op /\ gate'.session = NoSession /\ gate'.at = "release"
          /\ gate'.then = "undo"
      BY <1>1, <1>11, <2>2 DEF StartUndoes, ReleaseThen, MemoryTypes, GateStates
    <3> QED BY <1>1, <1>2, <1>11, <2>2, <3>1, ReleaseAttach DEF StartUndoes, At
  <2> QED BY <2>1, <2>2
<1> QED BY <1>3, <1>4, <1>5, <1>6, <1>7, <1>8, <1>9, <1>10, <1>11

LEMMA OpenAttach ==
  ASSUME RuntimeInv, AttachInv, Keeps, NEW s \in SessionIds, NEW answered \in BOOLEAN,
         StartOpens(s, answered), MemoryTypes'
  PROVE  AttachInv'
<1>1. /\ MemoryTypes
      /\ NoSession \notin SessionIds
      /\ Begun \subseteq SessionIds \cup {NoSession}
  BY TypesOfMemory
<1>2. /\ gate.op = "start" /\ gate.at = "open" /\ UNCHANGED <<room, shutdown>>
      /\ Attached = NoSession
      /\ gate.session = NoSession
  BY DEF StartOpens, At, AttachInv, Holder, GateShape, Cleaning
<1>3. CASE answered
  <2>1. /\ exec' = [exec EXCEPT ![s] = NewSession]
        /\ account' = [account EXCEPT !.pending = s]
        /\ gate' = Goto("publish")
    BY <1>3 DEF StartOpens
  <2>2. /\ account'.current = NoSession /\ account'.pending = s /\ Attached' = s
        /\ account'.target = account.target
        /\ account'.stale = account.stale
        /\ account'.shutting = account.shutting
    BY <1>1, <1>2, <2>1 DEF MemoryTypes, AccountStates, Attached
  <2>3. gate'.op = "start" /\ gate'.at = "publish" /\ gate'.then = gate.then
        /\ gate'.session = NoSession
    BY <1>1, <1>2, <2>1 DEF Goto, MemoryTypes, GateStates
  <2>4. \A r \in SessionIds : exec'[r].phase = IF r = s THEN "started" ELSE exec[r].phase
    BY <1>1, <2>1 DEF MemoryTypes, NewSession
  <2>5. opener'[s] \in Known' \ {None}
    <3>1. account.owner \in Known \ {None} /\ opener'[s] = account.owner /\ issued' = issued
      BY <1>1 DEF StartOpens, StartSession, RuntimeInv, TypeOK, MemoryTypes, AccountStates, None
    <3>2. Known' = Known
      BY <3>1 DEF Known
    <3> QED BY <3>1, <3>2
  <2>6. Sessions'
    <3>1. \A r \in SessionIds :
             /\ exec'[r].phase \in {"ended", "released"} => endedBy'[r] # NotEnded
             /\ exec'[r].phase \notin {"none", "released"} => r = Attached'
             /\ exec'[r].phase # "none" => opener'[r] \in Known' \ {None}
      BY <1>1, <1>2, <2>2, <2>4, <2>5 DEF AttachInv, Sessions, Keeps
    <3>2. account.target # NoSession => account.target \in SessionIds
      BY <1>1 DEF MemoryTypes, AccountStates
    <3> QED BY <1>1, <2>2, <2>3, <2>4, <3>1, <3>2 DEF AttachInv, Sessions
  <2>7. GateShape' /\ Stage' /\ Holder' /\ Closed'
    BY <1>1, <1>2, <2>2, <2>3 DEF AttachInv, GateShape, Stage, Holder, Closed, Cleaning
  <2> QED BY <2>6, <2>7 DEF AttachInv
<1>4. CASE ~answered
  <2>1. gate' = Goto("undo") /\ UNCHANGED <<account, exec>>
    BY <1>4 DEF StartOpens
  <2>2. gate'.op = gate.op /\ gate'.at = "undo" /\ gate'.then = gate.then
        /\ gate'.session = NoSession
    BY <1>1, <1>2, <2>1 DEF Goto, MemoryTypes, GateStates
  <2> QED BY <1>2, <2>1, <2>2, ForwardAttach DEF SameAccount, Cleaning
<1> QED BY <1>3, <1>4

LEMMA PublishAttach ==
  ASSUME RuntimeInv, AttachInv, Keeps, StartPublishes
  PROVE  AttachInv'
<1>1. /\ MemoryTypes
      /\ NoSession \notin SessionIds
      /\ Begun \subseteq SessionIds \cup {NoSession}
  BY TypesOfMemory
<1>2. /\ gate.op = "start" /\ gate.at = "publish" /\ UNCHANGED <<exec, shutdown>>
      /\ account.current = NoSession /\ account.pending # NoSession
      /\ gate.session = NoSession
  BY DEF StartPublishes, At, AttachInv, Holder, GateShape, Cleaning
<1>3. CASE Blocked \/ account.owner # gate.claim
  <2>1. gate' = Goto("undo") /\ UNCHANGED <<account, room>>
    BY <1>3 DEF StartPublishes
  <2>2. gate'.op = gate.op /\ gate'.at = "undo" /\ gate'.then = gate.then
        /\ gate'.session = NoSession
    BY <1>1, <1>2, <2>1 DEF Goto, MemoryTypes, GateStates
  <2> QED BY <1>2, <2>1, <2>2, ForwardAttach DEF SameAccount, Cleaning
<1>4. CASE ~(Blocked \/ account.owner # gate.claim)
  <2>1. /\ account' = [account EXCEPT !.current = account.pending,
                                      !.pending = NoSession, !.reconcile = FALSE]
        /\ gate' = FreeGate
    BY <1>4 DEF StartPublishes
  <2>2. /\ account'.pending = NoSession /\ Attached' = Attached
        /\ account'.target = account.target
        /\ account'.shutting = account.shutting
    BY <1>1, <1>2, <2>1 DEF MemoryTypes, AccountStates, Attached
  <2>3. gate'.op = "none" /\ gate'.at = "none" /\ gate'.then = "none" /\ gate'.session = NoSession
    BY <2>1 DEF FreeGate
  <2>4. /\ \A s \in {Attached, account.target, gate.session} : s \in SessionIds \cup {NoSession}
        /\ Sessions
    BY <1>1 DEF AttachInv, MemoryTypes, AccountStates, GateStates, Attached
  <2>5. Sessions'
    BY <1>1, <1>2, <2>2, <2>3, <2>4, SessionsKept
  <2>6. GateShape' /\ Stage' /\ Holder' /\ Closed'
    BY <1>2, <2>2, <2>3 DEF AttachInv, GateShape, Stage, Holder, Closed, Cleaning
  <2> QED BY <2>5, <2>6 DEF AttachInv
<1> QED BY <1>3, <1>4

-----------------------------------------------------------------------------
\* The steps of a cleanup that change no phase.
LEMMA CleanAttach ==
  ASSUME RuntimeInv, AttachInv, Keeps,
         \/ EndsAgain \/ EndConflicts \/ ReleaseConflicts \/ CallFails \/ DrainFails
         \/ \E answered \in BOOLEAN : Ends(answered) \/ Reconciles(answered) \/ Releases(answered)
  PROVE  AttachInv'
<1>1. MemoryTypes /\ TypeOK /\ gate.session \in SessionIds \cup {NoSession}
  BY TypesOfMemory DEF MemoryTypes, GateStates, RuntimeInv
<1>2. UNCHANGED shutdown
  BY DEF EndsAgain, EndConflicts, ReleaseConflicts, CallFails, DrainFails, Ends, Reconciles, Releases
<1>3. ASSUME NEW at \in {"reconcile", "settle", "drop"}, gate' = Goto(at),
             UNCHANGED <<account, room>>,
             \A s \in SessionIds : exec'[s].phase = exec[s].phase,
             \/ gate.at = "end" /\ at = "reconcile"
             \/ gate.at \in {"end", "reconcile"} /\ at = "settle" /\ endedBy'[gate.session] # NotEnded
             \/ gate.at = "release" /\ at = "drop"
      PROVE  AttachInv'
  <2>1. gate'.op = gate.op /\ gate'.at = at /\ gate'.then = gate.then
        /\ gate'.session = gate.session
    BY <1>1, <1>3 DEF Goto, MemoryTypes, GateStates
  <2>2. SameAccount /\ Attached' = Attached
    BY <1>3 DEF SameAccount, Attached
  <2>3. GateShape'
    BY <1>2, <1>3, <2>1 DEF AttachInv, GateShape, Serves, Cleaning
  <2>4. Stage'
    BY <1>1, <1>3, <2>1 DEF AttachInv, Stage, Sessions, Keeps
  <2>5. Holder'
    BY <1>3, <2>1, <2>2 DEF AttachInv, Holder, Cleaning, SameAccount
  <2> QED BY <1>2, <1>3, <2>1, <2>2, <2>3, <2>4, <2>5, Regated DEF AttachInv, Closed
<1>4. CASE EndsAgain
  <2>1. endedBy[gate.session] # NotEnded
    <3>1. issued \subseteq Fences
      BY <1>1 DEF TypeOK
    <3> QED BY <1>4, <3>1, SentinelAssumption DEF EndsAgain, SentinelAssumption
  <2>2. gate.session \in SessionIds
    BY <1>1, <1>4 DEF EndsAgain, RuntimeInv, Ready
  <2> QED BY <1>3, <1>4, <2>1, <2>2 DEF EndsAgain, Keeps
<1>5. CASE EndConflicts
  <2>1. \A s \in SessionIds : exec'[s].phase = exec[s].phase
    BY <1>1, <1>5 DEF EndConflicts, MemoryTypes, ExecStates
  <2> QED BY <1>3, <1>5, <2>1 DEF EndConflicts
<1>6. CASE ReleaseConflicts
  BY <1>3, <1>6 DEF ReleaseConflicts
<1>7. CASE CallFails
  BY <1>2, <1>7, AbandonAttach DEF CallFails
<1>8. CASE DrainFails
  <2>1. PICK phase \in {"started", "closing"} :
          /\ exec[gate.session].phase \in {"started", phase}
          /\ exec' = [exec EXCEPT ![gate.session].phase = phase]
    BY <1>8 DEF DrainFails
  <2>2. \A s \in SessionIds : \/ exec'[s].phase = exec[s].phase
                              \/ exec'[s].phase \in Running /\ exec[s].phase \in Running
    BY <1>1, <2>1 DEF MemoryTypes, ExecStates, Running
  <2> QED BY <1>2, <1>8, <2>2, AbandonAttach DEF DrainFails
<1>9. ASSUME NEW answered \in BOOLEAN, Ends(answered) \/ Reconciles(answered) \/ Releases(answered)
      PROVE  AttachInv'
  <2>1. UNCHANGED exec
    BY <1>9 DEF Ends, Reconciles, Releases
  <2>2. CASE ~answered
    BY <1>2, <1>9, <2>1, <2>2, AbandonAttach DEF Ends, Reconciles, Releases, Replied
  <2>3. CASE answered /\ Ends(answered)
    <3>1. gate.session \in SessionIds /\ gate.fence \in issued
      BY <1>1, <2>3 DEF Ends, RuntimeInv, Ready, MemoryTypes, GateStates, Known
    <3>2. endedBy'[gate.session] # NotEnded
      BY <1>1, <2>3, <3>1, SentinelAssumption DEF SentinelAssumption, Ends, EndSession, TypeOK
    <3> QED BY <1>3, <2>1, <2>3, <3>2 DEF Ends, Replied
  <2>4. CASE answered /\ Reconciles(answered)
    <3>1. gate.session \in SessionIds
      BY <1>1, <2>4 DEF Reconciles, RuntimeInv, Ready
    <3>2. endedBy'[gate.session] # NotEnded
      BY <1>1, <2>4, <3>1, SentinelAssumption
      DEF SentinelAssumption, Reconciles, ReconcileSession, TypeOK
    <3> QED BY <1>3, <2>1, <2>4, <3>2 DEF Reconciles, Replied
  <2>5. CASE answered /\ Releases(answered)
    BY <1>3, <2>1, <2>5 DEF Releases, Replied
  <2> QED BY <1>9, <2>2, <2>3, <2>4, <2>5
<1> QED BY <1>4, <1>5, <1>6, <1>7, <1>8, <1>9

\* The steps of a cleanup that do.
LEMMA AdvanceAttach ==
  ASSUME RuntimeInv, AttachInv, Keeps, Drained \/ Settle \/ Drops
  PROVE  AttachInv'
<1>1. /\ MemoryTypes
      /\ NoSession \notin SessionIds
      /\ gate.session \in SessionIds \cup {NoSession}
      /\ gate.at # "drop" => gate.session # NoSession
  BY TypesOfMemory DEF MemoryTypes, GateStates, RuntimeInv, Ready, Drained, Settle, Drops
<1>2. /\ SameAccount /\ Attached' = Attached
      /\ UNCHANGED <<room, shutdown>>
  <2>1. \/ UNCHANGED account
        \/ account' = [account EXCEPT !.owner = None, !.reconcile = FALSE]
    BY DEF Drained, Settle, Drops, DropOwner
  <2>2. SameAccount
    BY <1>1, <2>1 DEF SameAccount, MemoryTypes, AccountStates
  <2> QED BY <2>2 DEF Drained, Settle, Drops, SameAccount, Attached
<1>3. /\ gate'.op = gate.op /\ gate'.then = gate.then /\ gate'.session = gate.session
      /\ \/ gate.at = "drain" /\ gate'.at \in {"end", "reconcile"}
         \/ gate.at = "settle" /\ gate'.at \in {"drop", "release"}
         \/ gate.at = "drop" /\ gate'.at = "done"
  BY <1>1 DEF Drained, Settle, Drops, Goto, MemoryTypes, GateStates
<1>4. \A s \in SessionIds :
        exec'[s].phase = IF s # gate.session THEN exec[s].phase
                         ELSE CASE gate.at = "drain" -> "drained"
                                [] gate.at = "settle" -> "ended"
                                [] OTHER -> "released"
  BY <1>1 DEF Drained, Settle, Drops, MemoryTypes, ExecStates
<1>5. GateShape'
  BY <1>2, <1>3 DEF AttachInv, GateShape, Serves, Cleaning
<1>6. Holder'
  <2>1. gate.op = "mutate" => gate.at = "drop"
    BY <1>1, <1>3 DEF AttachInv, GateShape, Serves, Cleaning
  <2> QED BY <1>2, <1>3, <2>1 DEF AttachInv, Holder, Cleaning, SameAccount
<1>7. Stage'
  BY <1>1, <1>3, <1>4 DEF AttachInv, Stage, Keeps, Running
<1>8. Sessions'
  <2>1. \A s \in SessionIds :
          /\ exec'[s].phase \in {"ended", "released"} => endedBy'[s] # NotEnded
          /\ exec'[s].phase \notin {"none", "released"} => s = Attached'
          /\ exec'[s].phase # "none" => opener'[s] \in Known' \ {None}
    BY <1>1, <1>2, <1>3, <1>4 DEF AttachInv, Sessions, Stage, Keeps, Running
  <2>2. \A s \in {Attached, account.target, gate.session} :
          s # NoSession => s \in SessionIds /\ exec'[s].phase # "none"
    BY <1>1, <1>4, TypesOfMemory
    DEF AttachInv, Sessions, MemoryTypes, AccountStates, Attached
  <2> QED BY <1>2, <1>3, <2>1, <2>2 DEF AttachInv, Sessions, SameAccount
<1>9. Closed'
  BY <1>2, <1>3 DEF AttachInv, Closed, SameAccount
<1> QED BY <1>5, <1>6, <1>7, <1>8, <1>9 DEF AttachInv

-----------------------------------------------------------------------------
\* The session of a cleanup is released when it is detached.
LEMMA DetachAttach ==
  ASSUME RuntimeInv, AttachInv, Keeps, UNCHANGED <<exec, shutdown>>,
         NEW s, s # NoSession => s \in SessionIds /\ exec[s].phase = "released",
         account'.current = Detach(account, s).current,
         account'.pending = Detach(account, s).pending,
         account'.target \in {NoSession, account.target},
         account'.shutting = account.shutting,
         gate'.session = NoSession,
         \/ gate'.op = "none" /\ gate'.at = "none" /\ gate'.then = "none"
         \/ /\ gate.op \in {"start", "shutdown"} /\ gate'.op = gate.op
            /\ gate'.at = "look" /\ gate'.then = "none"
            /\ room'.applying = room.applying
  PROVE  AttachInv'
<1>1. /\ MemoryTypes
      /\ NoSession \notin SessionIds
      /\ Begun \subseteq SessionIds \cup {NoSession}
  BY TypesOfMemory
<1>2. /\ account'.current = IF account.current = s THEN NoSession ELSE account.current
      /\ account'.pending = IF account.pending = s THEN NoSession ELSE account.pending
  BY <1>1 DEF Detach, MemoryTypes, AccountStates
<1>3. /\ \A r \in {Attached, account.target, gate.session} : r \in SessionIds \cup {NoSession}
      /\ Sessions
  BY <1>1 DEF AttachInv, MemoryTypes, AccountStates, GateStates, Attached
<1>4. /\ account'.current = NoSession \/ account'.pending = NoSession
      /\ \/ Attached' = Attached
         \/ Attached' = NoSession /\ (Attached # NoSession => exec[Attached].phase = "released")
  BY <1>2 DEF AttachInv, Sessions, Attached
<1>5. Sessions'
  BY <1>1, <1>3, <1>4, SessionsKept
<1>6. GateShape' /\ Stage' /\ Holder' /\ Closed'
  BY <1>4 DEF AttachInv, GateShape, Stage, Holder, Closed, Cleaning
<1> QED BY <1>5, <1>6 DEF AttachInv

\* Whoever asked for the cleanup goes on.
LEMMA DoneAttach ==
  ASSUME RuntimeInv, AttachInv, Keeps,
         \/ Restarted \/ Renounced \/ StartFailed \/ Stopped \/ DrainReturns \/ StaleFinishes
         \/ ShutdownDetaches \/ ShutdownLeaves
  PROVE  AttachInv'
<1>1. /\ MemoryTypes
      /\ gate.session \in SessionIds \cup {NoSession}
      /\ account.target \in SessionIds \cup {NoSession}
  BY TypesOfMemory DEF MemoryTypes, GateStates, AccountStates
<1>2. /\ gate.at = "done"
      /\ gate.session # NoSession => gate.session \in SessionIds /\ exec[gate.session].phase = "released"
      /\ UNCHANGED exec
  BY <1>1 DEF AttachInv, Stage, Restarted, Renounced, StartFailed, Stopped, DrainReturns, StaleFinishes,
              ShutdownDetaches, ShutdownLeaves, DoneFor
<1>3. FreeGate.session = NoSession /\ FreeGate.op = "none" /\ FreeGate.at = "none"
      /\ FreeGate.then = "none"
  BY DEF FreeGate
<1>4. ASSUME NEW op, NEW at
      PROVE  /\ GateFor(op, at).op = op /\ GateFor(op, at).at = at
             /\ GateFor(op, at).then = "none" /\ GateFor(op, at).session = NoSession
  BY DEF GateFor, FreeGate
<1>5. ASSUME NEW s
      PROVE  /\ Detach(account, s).target = account.target
             /\ Detach(account, s).shutting = account.shutting
  BY <1>1 DEF Detach, MemoryTypes, AccountStates
<1>6. CASE Restarted
  <2>1. gate.op = "start" /\ room'.applying = room.applying
    BY <1>1, <1>2, <1>6
    DEF Restarted, DoneFor, ClearOwner, MemoryTypes, RoomStates, AttachInv, GateShape, Serves, Cleaning
  <2> QED BY <1>2, <1>4, <1>5, <1>6, <2>1, DetachAttach DEF Restarted
<1>7. CASE Renounced
  <2>1. gate.op = "start" /\ room'.applying = room.applying /\ gate.session = NoSession
    BY <1>1, <1>2, <1>7
    DEF Renounced, DoneFor, ClearOwner, MemoryTypes, RoomStates, AttachInv, GateShape, Serves, Cleaning
  <2>2. gate'.op = "start" /\ gate'.at = "claim" /\ gate'.then = "none" /\ gate'.session = NoSession
    BY <1>4, <1>7 DEF Renounced
  <2>3. Attached = NoSession
    BY <1>2, <2>1 DEF AttachInv, Holder, Cleaning
  <2>4. shutdown \notin {"closed", "done"}
    BY <1>2, <1>7, <2>1 DEF Renounced, DoneFor, AttachInv, Closed
  <2>5. SameAccount /\ Attached' = Attached
    BY <1>7 DEF Renounced, SameAccount, Attached
  <2>6. GateShape' /\ Stage' /\ Holder'
    BY <2>1, <2>2, <2>3, <2>5 DEF AttachInv, GateShape, Stage, Holder, Cleaning
  <2> QED BY <1>2, <1>7, <2>2, <2>4, <2>5, <2>6, Regated DEF Renounced
<1>8. CASE StartFailed \/ Stopped
  BY <1>2, <1>3, <1>5, <1>8, DetachAttach DEF StartFailed, Stopped
<1>9. CASE DrainReturns
  <2>1. account' = [Detach(account, gate.session) EXCEPT !.draining = FALSE]
    BY <1>9 DEF DrainReturns
  <2>2. Detach(account, gate.session) \in AccountStates(Known, Begun)
    BY <1>1, DetachType DEF MemoryTypes, Begun
  <2>3. /\ account'.current = Detach(account, gate.session).current
        /\ account'.pending = Detach(account, gate.session).pending
        /\ account'.target = Detach(account, gate.session).target
        /\ account'.shutting = Detach(account, gate.session).shutting
    BY <2>1, <2>2 DEF AccountStates
  <2> QED BY <1>2, <1>3, <1>5, <1>9, <2>3, DetachAttach DEF DrainReturns
<1>10. CASE StaleFinishes
  <2>1. gate.session = account.target
    BY <1>2, <1>10 DEF StaleFinishes, DoneFor, AttachInv, GateShape, Serves, Holder, Cleaning
  <2>2. PICK f : account' = [DropOwner(Detach(account, gate.session), f)
                               EXCEPT !.stale = FALSE, !.staleRelease = None, !.target = NoSession]
    BY <1>10, <2>1 DEF StaleFinishes
  <2>3. Detach(account, gate.session) \in AccountStates(Known, Begun)
    BY <1>1, DetachType DEF MemoryTypes, Begun
  <2>4. /\ account'.current = Detach(account, gate.session).current
        /\ account'.pending = Detach(account, gate.session).pending
        /\ account'.target = NoSession
        /\ account'.shutting = Detach(account, gate.session).shutting
    BY <2>2, <2>3 DEF DropOwner, AccountStates
  <2> QED BY <1>2, <1>3, <1>5, <1>10, <2>4, DetachAttach DEF StaleFinishes
<1>11. CASE ShutdownDetaches
  <2>1. gate.op = "shutdown"
    BY <1>2, <1>11 DEF ShutdownDetaches, DoneFor, AttachInv, GateShape, Serves, Cleaning
  <2> QED BY <1>2, <1>4, <1>5, <1>11, <2>1, DetachAttach DEF ShutdownDetaches
<1>12. CASE ShutdownLeaves
  <2>1. gate.op = "shutdown"
    BY <1>2, <1>12 DEF ShutdownLeaves, DoneFor, AttachInv, GateShape, Serves, Cleaning
  <2>2. Attached = NoSession /\ account.shutting
    BY <1>2, <1>12, <2>1 DEF ShutdownLeaves, AttachInv, Holder, GateShape, Closed, Cleaning
  <2>3. UNCHANGED account /\ gate' = FreeGate /\ shutdown' = "closed"
    BY <1>12 DEF ShutdownLeaves
  <2>4. SameAccount /\ Attached' = Attached
    BY <2>3 DEF SameAccount, Attached
  <2>5. Sessions'
    <3>1. /\ \A r \in {Attached, account.target, gate.session} : r \in SessionIds \cup {NoSession}
          /\ Sessions /\ NoSession \notin SessionIds
      BY <1>1, TypesOfMemory DEF AttachInv, MemoryTypes, AccountStates, GateStates, Attached
    <3>2. account'.current = NoSession \/ account'.pending = NoSession
      BY <2>3, <3>1 DEF Sessions
    <3> QED BY <1>2, <1>3, <2>3, <2>4, <3>1, <3>2, SessionsKept
  <2>6. GateShape' /\ Stage' /\ Holder' /\ Closed'
    BY <1>3, <2>2, <2>3, <2>4 DEF GateShape, Stage, Holder, Closed, Cleaning
  <2> QED BY <2>5, <2>6 DEF AttachInv
<1> QED BY <1>6, <1>7, <1>8, <1>9, <1>10, <1>11, <1>12

\* The holder looks for what there is to clean up.
LEMMA LookAttach ==
  ASSUME RuntimeInv, AttachInv, Keeps, StopLooks \/ DrainLooks \/ StaleLooks \/ ShutdownLooks
  PROVE  AttachInv'
<1>1. /\ MemoryTypes
      /\ gate.op \in {"stop", "drain", "stale", "shutdown"}
      /\ UNCHANGED <<account, room, shutdown>>
      /\ gate.session = NoSession
  BY TypesOfMemory
  DEF StopLooks, DrainLooks, StaleLooks, ShutdownLooks, At, AttachInv, GateShape, Cleaning
<1>2. SameAccount
  BY <1>1 DEF SameAccount
<1>3. CASE StopLooks
  <2>1. gate.op = "stop" /\ OfHolder = Attached
    BY <1>3 DEF StopLooks, OfHolder, At
  <2>2. CASE Attached # NoSession
    BY <1>1, <1>3, <2>1, <2>2, EnterAttach DEF StopLooks
  <2>3. CASE Attached = NoSession
    <3>1. /\ gate'.op = gate.op /\ gate'.session = NoSession /\ gate'.then = "stop"
          /\ gate'.at \in {"release", "done"} /\ UNCHANGED exec
      BY <1>1, <1>3, <2>3 DEF StopLooks, ReleaseThen, Goto, MemoryTypes, GateStates
    <3> QED BY <1>1, <1>2, <2>1, <2>3, <3>1, ReleaseAttach
  <2> QED BY <2>2, <2>3
<1>4. CASE DrainLooks
  <2>1. gate.op = "drain" /\ OfHolder = Attached
    BY <1>4 DEF DrainLooks, OfHolder, At
  <2>2. CASE Attached # NoSession
    BY <1>1, <1>4, <2>1, <2>2, EnterAttach DEF DrainLooks
  <2>3. CASE Attached = NoSession
    <3>1. /\ gate'.op = gate.op /\ gate'.session = NoSession /\ gate'.then = "drain"
          /\ gate'.at \in {"release", "done"} /\ UNCHANGED exec
      BY <1>1, <1>4, <2>3 DEF DrainLooks, ReleaseThen, Goto, MemoryTypes, GateStates
    <3> QED BY <1>1, <1>2, <2>1, <2>3, <3>1, ReleaseAttach
  <2> QED BY <2>2, <2>3
<1>5. CASE StaleLooks
  <2>1. gate.op = "stale" /\ OfHolder = account.target
    BY <1>5 DEF StaleLooks, OfHolder, At
  <2>2. CASE account.target # NoSession
    BY <1>1, <1>5, <2>1, <2>2, EnterAttach DEF StaleLooks
  <2>3. CASE account.target = NoSession
    <3>1. /\ gate'.op = gate.op /\ gate'.session = NoSession /\ gate'.then = "stale"
          /\ gate'.at \in {"release", "done"} /\ UNCHANGED exec
      BY <1>1, <1>5, <2>3 DEF StaleLooks, ReleaseThen, Goto, MemoryTypes, GateStates
    <3> QED BY <1>1, <1>2, <2>1, <2>3, <3>1, ReleaseAttach
  <2> QED BY <2>2, <2>3
<1>6. CASE ShutdownLooks
  <2>1. gate.op = "shutdown" /\ OfHolder = Attached
    BY <1>6 DEF ShutdownLooks, OfHolder, At
  <2>2. CASE Attached # NoSession
    BY <1>1, <1>6, <2>1, <2>2, EnterAttach DEF ShutdownLooks
  <2>3. CASE Attached = NoSession
    <3>1. /\ gate'.op = gate.op /\ gate'.session = NoSession /\ gate'.then = "shutdown"
          /\ gate'.at \in {"release", "done"} /\ UNCHANGED exec
      BY <1>1, <1>6, <2>3 DEF ShutdownLooks, ReleaseThen, Goto, MemoryTypes, GateStates
    <3> QED BY <1>1, <1>2, <2>1, <2>3, <3>1, ReleaseAttach
  <2> QED BY <2>2, <2>3
<1> QED BY <1>3, <1>4, <1>5, <1>6

-----------------------------------------------------------------------------
LEMMA BeginStaleGives ==
  ASSUME RuntimeInv, NEW target, target \in {NoSession, Attached}, NEW release,
         BeginStale(target, release)
  PROVE  /\ SameAccount
         /\ account'.stale
         /\ account'.owner = account.owner
         /\ \A s \in SessionIds : exec'[s].phase = exec[s].phase
<1>1. MemoryTypes
  BY TypesOfMemory
<1>2. CASE account.stale
  BY <1>1, <1>2 DEF BeginStale, SameAccount, MemoryTypes, AccountStates
<1>3. CASE ~account.stale
  <2>1. account' = [account EXCEPT !.stale = TRUE, !.target = target, !.staleRelease = release]
    BY <1>3 DEF BeginStale
  <2>2. SameAccount /\ account'.stale /\ account'.owner = account.owner
    BY <1>1, <1>3, <2>1 DEF SameAccount, MemoryTypes, AccountStates
  <2>3. \A s \in SessionIds : exec'[s].phase = exec[s].phase
    BY <1>1, <1>3 DEF BeginStale, MemoryTypes, ExecStates
  <2> QED BY <2>2, <2>3
<1> QED BY <1>2, <1>3

\* The holder, if any, is not disturbed.
LEMMA BesideAttach ==
  ASSUME RuntimeInv, AttachInv, Keeps, SameAccount, UNCHANGED <<gate, shutdown>>,
         \A s \in SessionIds : exec'[s].phase = exec[s].phase,
         room'.applying = room.applying
  PROVE  AttachInv'
<1>1. Attached' = Attached /\ gate.session \in SessionIds \cup {NoSession}
  BY TypesOfMemory DEF SameAccount, Attached, MemoryTypes, GateStates
<1>2. GateShape'
  BY DEF AttachInv, GateShape, Serves
<1>3. Stage'
  BY <1>1 DEF AttachInv, Stage, Keeps
<1>4. Holder'
  BY <1>1 DEF AttachInv, Holder, SameAccount
<1> QED BY <1>2, <1>3, <1>4, Regated DEF AttachInv, Closed

\* MutateRoom.
LEMMA MutateAttach ==
  ASSUME RuntimeInv, AttachInv, Keeps,
         \/ MutateDisabled \/ MutateConflicts \/ MutateWrites \/ MutateLoses \/ MutateReturns
         \/ \E answered \in BOOLEAN : MutateClaims(answered)
  PROVE  AttachInv'
<1>1. /\ MemoryTypes
      /\ UNCHANGED <<room, shutdown>>
  BY TypesOfMemory
  DEF MutateDisabled, MutateConflicts, MutateWrites, MutateLoses, MutateReturns, MutateClaims
<1>2. ASSUME SameAccount, \A s \in SessionIds : exec'[s].phase = exec[s].phase,
             gate' = FreeGate
      PROVE  AttachInv'
  <2>1. gate'.op = "none" /\ gate'.at = "none" /\ gate'.then = "none" /\ gate'.session = NoSession
    BY <1>2 DEF FreeGate
  <2>2. GateShape' /\ Stage' /\ Holder'
    BY <2>1 DEF GateShape, Stage, Holder, Cleaning
  <2> QED BY <1>1, <1>2, <2>1, <2>2, Regated
<1>3. ASSUME At("mutate", "write"), SameAccount,
             \A s \in SessionIds : exec'[s].phase = exec[s].phase, gate' = Written
      PROVE  AttachInv'
  <2>1. gate.session = NoSession
    BY <1>3 DEF At, AttachInv, GateShape, Cleaning
  <2>2. /\ gate'.op = "mutate" /\ gate'.session = NoSession /\ gate'.then = "return"
        /\ gate'.at = IF Attached = NoSession THEN "release" ELSE "done"
    BY <1>1, <1>3, <2>1 DEF Written, ReleaseThen, Goto, At, MemoryTypes, GateStates
  <2>3. Attached' = Attached
    BY <1>3 DEF SameAccount, Attached
  <2>4. GateShape' /\ Stage' /\ Holder'
    BY <2>2, <2>3 DEF GateShape, Serves, Stage, Holder, Cleaning
  <2> QED BY <1>1, <1>3, <2>2, <2>4, Regated
<1>4. CASE MutateDisabled \/ MutateReturns
  <2>1. SameAccount /\ UNCHANGED exec /\ gate' = FreeGate
    BY <1>1, <1>4 DEF MutateDisabled, MutateReturns, MarkDisabled, SameAccount, MemoryTypes, AccountStates
  <2> QED BY <1>2, <2>1
<1>5. CASE MutateConflicts
  <2>1. gate' = FreeGate /\ (BeginStale(Attached, None) \/ UNCHANGED <<account, exec>>)
    BY <1>5 DEF MutateConflicts
  <2>2. SameAccount /\ \A s \in SessionIds : exec'[s].phase = exec[s].phase
    BY <2>1, BeginStaleGives DEF SameAccount
  <2> QED BY <1>2, <2>1, <2>2
<1>6. CASE MutateWrites
  <2>1. SameAccount
    BY <1>6 DEF MutateWrites, SameAccount
  <2> QED BY <1>3, <1>6, <2>1 DEF MutateWrites
<1>7. CASE MutateLoses
  <2>1. SameAccount /\ \A s \in SessionIds : exec'[s].phase = exec[s].phase
    BY <1>7, BeginStaleGives DEF MutateLoses
  <2> QED BY <1>3, <1>7, <2>1 DEF MutateLoses
<1>8. ASSUME NEW answered \in BOOLEAN, MutateClaims(answered)
      PROVE  AttachInv'
  <2> DEFINE f == Fence(Account, Me, owner'[Account].epoch)
             claimed == [account EXCEPT !.owner = f, !.reconcile = ClaimReconciles(Account)]
             written == [claimed EXCEPT !.disabled = FALSE, !.draining = FALSE, !.operation = TRUE]
             kept == [claimed EXCEPT !.staleRelease = IF @ = None THEN f ELSE @]
  <2>1. \/ gate' = FreeGate /\ UNCHANGED <<account, exec>>
        \/ gate' = FreeGate /\ BeginStale(Attached, f)
        \/ gate' = FreeGate /\ account' = kept /\ UNCHANGED exec
        \/ gate' = [Goto("write") EXCEPT !.claim = f] /\ account' = written /\ UNCHANGED exec
    BY <1>8 DEF MutateClaims
  <2>2. gate.session = NoSession /\ gate.op = "mutate" /\ gate.then \in {"none", "stale", "shutdown"}
    BY <1>8 DEF MutateClaims, At, AttachInv, GateShape, Cleaning
  <2> HIDE DEF f
  <2>3. ASSUME account' = kept \/ account' = written
        PROVE  SameAccount
    <3>1. /\ account'.current = account.current
          /\ account'.pending = account.pending
          /\ account'.shutting = account.shutting
          /\ account'.stale = account.stale
          /\ account'.target = account.target
      BY <1>1, <2>3 DEF MemoryTypes, AccountStates
    <3> QED BY <3>1 DEF SameAccount
  <2> HIDE DEF kept, written
  <2>4. SameAccount /\ \A s \in SessionIds : exec'[s].phase = exec[s].phase
    BY <2>1, <2>3, BeginStaleGives DEF SameAccount
  <2>5. CASE gate' = [Goto("write") EXCEPT !.claim = f]
    <3>1. gate'.op = "mutate" /\ gate'.at = "write" /\ gate'.session = NoSession
          /\ gate'.then = gate.then
      BY <1>1, <2>2, <2>5 DEF Goto, MemoryTypes, GateStates
    <3>2. GateShape' /\ Stage' /\ Holder'
      BY <2>2, <3>1 DEF GateShape, Stage, Holder, Cleaning
    <3> QED BY <1>1, <2>4, <3>1, <3>2, Regated
  <2> QED BY <1>2, <2>1, <2>4, <2>5
<1> QED BY <1>4, <1>5, <1>6, <1>7, <1>8

\* The threads that do not hold the gate.
LEMMA ThreadsAttach ==
  ASSUME RuntimeInv, AttachInv, Keeps,
         \/ \E here \in BOOLEAN : AdministratorDisables(here)
         \/ AdministratorEnables \/ HookMarks
         \/ \E f \in forgets : Forget(f)
         \/ BeatStarts \/ Beat \/ WorkerLoses
         \/ OtherProcess \/ Expires \/ UNCHANGED memory
  PROVE  AttachInv'
<1>1. MemoryTypes
  BY TypesOfMemory
<1>2. UNCHANGED <<gate, shutdown>>
  BY DEF AdministratorDisables, AdministratorEnables, HookMarks, Forget, BeatStarts, Beat, BeatRenews,
         BeatLoses, BeatRefused, BeatMarks, BeatFails, WorkerLoses, OtherProcess, Expires, memory
<1>3. room'.applying = room.applying
  BY <1>1
  DEF AdministratorDisables, AdministratorEnables, HookMarks, Forget, BeatStarts, Beat, BeatRenews,
      BeatLoses, BeatRefused, BeatMarks, BeatFails, WorkerLoses, OtherProcess, Expires, memory,
      MemoryTypes, RoomStates
<1>4. SameAccount /\ \A s \in SessionIds : exec'[s].phase = exec[s].phase
  <2>1. CASE UNCHANGED <<account, exec>>
    BY <2>1 DEF SameAccount
  <2>2. CASE UNCHANGED exec /\ account' = MarkDisabled(account)
    BY <1>1, <2>2 DEF MarkDisabled, SameAccount, MemoryTypes, AccountStates
  <2>3. CASE \E release : BeginStale(Attached, release)
    BY <2>3, BeginStaleGives
  <2>4. CASE WorkerLoses
    <3>1. account.current = Attached
      BY <2>4 DEF WorkerLoses, Attached
    <3> QED BY <2>3, <2>4, <3>1 DEF WorkerLoses
  <2> QED
    BY <2>1, <2>2, <2>3, <2>4
    DEF AdministratorDisables, AdministratorEnables, HookMarks, Forget, BeatStarts, Beat, BeatRenews,
        BeatLoses, BeatRefused, BeatMarks, BeatFails, OtherProcess, Expires, memory
<1> QED BY <1>2, <1>3, <1>4, BesideAttach

LEMMA CloseAttach ==
  ASSUME RuntimeInv, AttachInv, Keeps, Close \/ ShutdownQueues \/ ShutdownReturns
  PROVE  AttachInv'
<1>1. MemoryTypes /\ NoSession \notin SessionIds /\ UNCHANGED <<exec, gate, room>>
  BY TypesOfMemory DEF Close, ShutdownQueues, ShutdownReturns
<1>2. /\ account'.current = account.current /\ account'.pending = account.pending
      /\ account'.target = account.target /\ account'.stale = account.stale
      /\ account'.shutting = (account.shutting \/ Close)
  BY <1>1 DEF Close, ShutdownQueues, ShutdownReturns, MemoryTypes, AccountStates
<1>3. Attached' = Attached
  BY <1>2 DEF Attached
<1>4. Sessions'
  <2>1. /\ \A r \in {Attached, account.target, gate.session} : r \in SessionIds \cup {NoSession}
        /\ Sessions
    BY <1>1, TypesOfMemory DEF AttachInv, MemoryTypes, AccountStates, GateStates, Attached
  <2>2. account'.current = NoSession \/ account'.pending = NoSession
    BY <1>2, <2>1 DEF Sessions
  <2> QED BY <1>1, <1>2, <1>3, <2>1, <2>2, SessionsKept
<1>5. Stage'
  BY <1>1, TypesOfMemory DEF AttachInv, Stage, Keeps, MemoryTypes, GateStates
<1>6. Holder'
  BY <1>1, <1>2, <1>3 DEF AttachInv, Holder
<1>7. GateShape'
  BY <1>1 DEF AttachInv, GateShape, Serves, Close, ShutdownQueues, ShutdownReturns
<1>8. Closed'
  BY <1>1, <1>2, <1>3 DEF AttachInv, Closed, Close, ShutdownQueues, ShutdownReturns
<1> QED BY <1>4, <1>5, <1>6, <1>7, <1>8 DEF AttachInv

-----------------------------------------------------------------------------
LEMMA AttachInit == RuntimeInit => AttachInv
<1> SUFFICES ASSUME RuntimeInit PROVE AttachInv
  OBVIOUS
<1>1. /\ account.current = NoSession /\ account.pending = NoSession /\ account.target = NoSession
      /\ ~account.stale
      /\ \A s \in SessionIds : exec[s].phase = "none"
      /\ gate.op = "none" /\ gate.at = "none" /\ gate.then = "none" /\ gate.session = NoSession
      /\ shutdown = "running"
  BY DEF RuntimeInit, FreeGate, NewSession
<1> QED
  BY <1>1 DEF AttachInv, GateShape, Sessions, Stage, Holder, Closed, Cleaning, Attached

LEMMA AttachStep ==
  ASSUME RuntimeInv, AttachInv, [RuntimeNext]_all
  PROVE  AttachInv'
<1>1. Keeps /\ MemoryTypes'
  <2>1. RuntimeInv'
    BY RuntimeStep
  <2>2. MemoryTypes'
    BY <2>1 DEF RuntimeInv, Grounded, MemoryIn, MemoryTypes
  <2> QED BY <2>2, StepImplements, StepKeeps
<1>2. CASE \/ \E e \in RoomEvents : Announce(e)
           \/ Consume \/ AcquireMutate \/ AcquireDrain \/ AcquireStale \/ AcquireShutdown
  BY <1>1, <1>2, AcquireAttach
<1>3. CASE Operate
  <2> USE DEF Operate, Succeed, Fail
  <2>1. CASE \/ StartCleansUp \/ StartFindsIt \/ StartRenounces \/ StartProceeds
             \/ StartClaims(TRUE) \/ StartClaims(FALSE) \/ StartAdmits(TRUE) \/ StartAdmits(FALSE)
             \/ StartFails \/ StartUndoes
    BY <1>1, <2>1, StartAttach
  <2>2. CASE \E s \in SessionIds, answered \in BOOLEAN : StartOpens(s, answered)
    BY <1>1, <2>2, OpenAttach
  <2>3. CASE StartPublishes
    BY <1>1, <2>3, PublishAttach
  <2>4. CASE \/ EndsAgain \/ EndConflicts \/ ReleaseConflicts \/ CallFails \/ DrainFails
             \/ \E answered \in BOOLEAN :
                  Ends(answered) \/ Reconciles(answered) \/ Releases(answered)
    BY <1>1, <2>4, CleanAttach
  <2>5. CASE Drained \/ Settle \/ Drops
    BY <1>1, <2>5, AdvanceAttach
  <2>6. CASE \/ Restarted \/ Renounced \/ StartFailed \/ Stopped \/ DrainReturns \/ StaleFinishes
             \/ ShutdownDetaches \/ ShutdownLeaves
    BY <1>1, <2>6, DoneAttach
  <2>7. CASE StopLooks \/ DrainLooks \/ StaleLooks \/ ShutdownLooks
    BY <1>1, <2>7, LookAttach
  <2>8. CASE \/ MutateDisabled \/ MutateConflicts \/ MutateWrites \/ MutateLoses \/ MutateReturns
             \/ \E answered \in BOOLEAN : MutateClaims(answered)
    BY <1>1, <2>8, MutateAttach
  <2> QED BY <1>3, <2>1, <2>2, <2>3, <2>4, <2>5, <2>6, <2>7, <2>8
<1>4. CASE \/ \E here \in BOOLEAN : AdministratorDisables(here)
           \/ AdministratorEnables \/ HookMarks
           \/ \E f \in forgets : Forget(f)
           \/ BeatStarts \/ Beat \/ WorkerLoses
           \/ OtherProcess \/ Expires \/ UNCHANGED memory
  BY <1>1, <1>4, ThreadsAttach
<1>5. CASE Close \/ ShutdownQueues \/ ShutdownReturns
  BY <1>1, <1>5, CloseAttach
<1> QED BY <1>2, <1>3, <1>4, <1>5 DEF RuntimeNext, all

LEMMA AttachInvariant == RuntimeSpec => [](RuntimeInv /\ AttachInv)
<1>1. RuntimeInit => RuntimeInv /\ AttachInv
  BY RuntimeInitInv, AttachInit
<1>2. RuntimeInv /\ AttachInv /\ [RuntimeNext]_all => (RuntimeInv /\ AttachInv)'
  BY RuntimeStep, AttachStep
<1> QED BY <1>1, <1>2, PTL DEF RuntimeSpec

\* When Shutdown has returned, every session that this process ever opened is
\* ended, in any number of sessions and fences: whatever was lost, failed or
\* started in the meantime, none is left for a later takeover.
THEOREM ShutdownEnds == RuntimeSpec => []ShutdownEndsTheSessions
<1>1. RuntimeInv /\ AttachInv => ShutdownEndsTheSessions
  <2> SUFFICES ASSUME RuntimeInv, AttachInv, shutdown = "done",
                      NEW s \in SessionIds, exec[s].phase # "none"
               PROVE  endedBy[s] # NotEnded
    BY DEF ShutdownEndsTheSessions
  <2>1. Attached = NoSession /\ NoSession \notin SessionIds
    BY TypesOfMemory DEF AttachInv, Closed
  <2>2. exec[s].phase \in {"ended", "released"}
    BY <2>1, TypesOfMemory DEF AttachInv, Sessions, MemoryTypes, ExecStates
  <2> QED BY <2>2 DEF AttachInv, Sessions
<1> QED BY <1>1, AttachInvariant, PTL
=============================================================================
