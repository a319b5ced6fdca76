------------------------ MODULE AccountRuntimeFences ------------------------
(***************************************************************************)
(* Proofs about AccountRuntime, continued: the fences a process holds, and *)
(* where it remembers them.  No cleanup is forgotten, the heartbeat renews *)
(* the right fence, and the projection keeps no phantom.                   *)
(*                                                                         *)
(* A fence that is lost stays lost (LostStays), so the invariant only ever *)
(* has to say of a fence that it is Gone or where it is.  FenceInv says    *)
(* that a session marked lost, superseded or released has lost its fence   *)
(* (Marked), which fences the account, the room, a stale cleanup and the   *)
(* requests to forget may hold beside the attached session's (Remembered), *)
(* and which fences the holder of the gate works with between two of its   *)
(* steps (Handled).                                                        *)
(***************************************************************************)
EXTENDS AccountRuntimeProofs

\* The fences that are lost.
Gone == {f \in Fences : ~Holds(f)}

\* What is marked as lost, or taken over by another fence, or released, is lost.
Marked ==
  \A s \in SessionIds : exec[s].phase # "none" =>
    /\ exec[s].lost => opener[s] \in Gone
    /\ exec[s].fence \notin {None, opener[s]} => opener[s] \in Gone
    /\ exec[s].phase = "released" => opener[s] \in Gone

\* The fences that the account, its room and its cleanup remember, and the attached
\* session's.
Remembered ==
  /\ \A g \in forgets : g \notin Gone => account.owner \in {None, g}
  /\ Attached # NoSession =>
       /\ opener[Attached] \notin Gone => account.owner \in {None, opener[Attached]}
       /\ room.owner # None => room.owner = opener[Attached]
  /\ account.current # NoSession =>
       /\ opener[account.current] \notin Gone => account.owner = opener[account.current]
       /\ exec[account.current].phase = "started" /\ ~account.stale =>
            account.owner = opener[account.current]
  /\ account.stale =>
       /\ account.current \in {NoSession, account.target}
       /\ account.pending # NoSession => account.target \in {NoSession, account.pending}
       /\ account.target # NoSession =>
            \/ account.staleRelease \in {None, opener[account.target]}
            \/ opener[account.target] \in Gone
  /\ LET s == account.pending IN
     /\ s # NoSession
     /\ account.owner = None \/ (account.stale /\ s # account.target)
     /\ opener[s] \notin Gone
     => room.owner = opener[s] /\ opener[s] \notin forgets

\* The fences that the holder of the gate has in its hands.
Handled ==
  /\ gate.session # NoSession /\ gate.at \in {"end", "release", "drop"} =>
       gate.fence = opener[gate.session] \/ opener[gate.session] \in Gone
  /\ gate.at = "drop" => gate.fence \in Gone
  /\ gate.at \in {"admit", "open", "publish"} =>
       account.owner = gate.claim /\ room.owner = gate.claim
  /\ gate.at \in {"publish", "undo", "write"} /\ Attached # NoSession =>
       opener[Attached] = gate.claim
  /\ gate.at \in {"release", "drop"} => gate.op # "drain" \/ gate.session # NoSession
  /\ gate.at \in Cleaning /\ gate.op = "drain" =>
       gate.claim = IF gate.session = NoSession THEN account.owner ELSE opener[gate.session]
  /\ account.stale /\ gate.op = "start" =>
       /\ gate.at = "claim" \/ gate.then = "claim" =>
            account.target = NoSession /\ forgets \subseteq Gone
       /\ gate.at \in {"admit", "open"} =>
            account.target = NoSession /\ (gate.claim \in Gone \/ gate.claim \notin forgets)

FenceInv == Marked /\ Remembered /\ Handled

\* No step gives this process a fence back.
Fades == \A f \in Known \ {None} : f \in Gone => f \in Gone'

Invs == EpochInv /\ RuntimeInv /\ AttachInv /\ FenceInv
Steady == Keeps /\ Fades

LEMMA StepFacts ==
  ASSUME Invs, Steady
  PROVE  /\ MemoryTypes
         /\ NoSession \notin SessionIds
         /\ forgets \subseteq Known \ {None}
         /\ \A s \in SessionIds :
              exec[s].phase # "none" => opener'[s] = opener[s] /\ opener[s] \in Known \ {None}
         /\ \A s \in {Attached, account.current, account.pending, account.target, gate.session} :
              s # NoSession => /\ s \in SessionIds
                               /\ exec[s].phase # "none"
                               /\ opener'[s] = opener[s]
                               /\ opener[s] \in Known \ {None}
         /\ account.current # NoSession => account.pending = NoSession /\ Attached = account.current
         /\ account.pending # NoSession => account.current = NoSession /\ Attached = account.pending
<1>1. /\ MemoryTypes
      /\ NoSession \notin SessionIds
      /\ forgets \subseteq Known \ {None}
  BY TypesOfMemory DEF Invs, RuntimeInv, Grounded, MemoryIn
<1>2. \A s \in SessionIds :
        exec[s].phase # "none" => opener'[s] = opener[s] /\ opener[s] \in Known \ {None}
  BY DEF Invs, AttachInv, Sessions, Steady, Keeps
<1>3. /\ account.current # NoSession => account.pending = NoSession /\ Attached = account.current
      /\ account.pending # NoSession => account.current = NoSession /\ Attached = account.pending
  BY DEF Invs, AttachInv, Sessions, Attached
<1>4. \A s \in {Attached, account.target, gate.session} :
        s # NoSession => s \in SessionIds /\ exec[s].phase # "none"
  BY <1>1, TypesOfMemory
  DEF Invs, AttachInv, Sessions, Attached, MemoryTypes, AccountStates, GateStates
<1> QED BY <1>1, <1>2, <1>3, <1>4

LEMMA FencesFade ==
  ASSUME EpochInv, RuntimeInv, [Next]_vars
  PROVE  Fades
<1> SUFFICES ASSUME NEW f \in Known \ {None}, f \in Gone PROVE f \in Gone'
  BY DEF Fades
<1>1. f \in issued /\ f \in Fences /\ ~Holds(f)
  BY IssuedType DEF Known, Gone, EpochInv, TypeOK
<1>2. ~Holds(f)'
  BY <1>1, LostStays
<1> QED BY <1>1, <1>2 DEF Gone

\* Two fences of this process that are held are one.
LEMMA OneIsHeld ==
  ASSUME RuntimeInv, NEW f \in Known \ {None}, NEW g \in Known \ {None}, f \notin Gone, g \notin Gone
  PROVE  f = g
<1>1. f \in Fences /\ g \in Fences /\ f.account = Account /\ g.account = Account
  BY DEF Known, RuntimeInv, TypeOK
<1>2. Holds(f) /\ Holds(g)
  BY <1>1 DEF Gone
<1> QED BY <1>1, <1>2 DEF Holds, Fences

\* A claim that is answered leaves this process that fence and no other.
LEMMA ClaimIsHeld ==
  ASSUME RuntimeInv, RuntimeInv', ClaimOwnership(Account, Me, TRUE)
  PROVE  LET f == Fence(Account, Me, owner'[Account].epoch) IN
         /\ f \in Known' \ {None}
         /\ \A g \in Known' \ {None} : g \notin Gone' => g = f
<1> DEFINE f == Fence(Account, Me, owner'[Account].epoch)
<1>1. Account \in Accounts /\ Me \in Tokens /\ TypeOK /\ TypeOK'
  BY RuntimeAssumption DEF RuntimeAssumption, RuntimeInv
<1>2. f \in issued'
  BY <1>1, ClaimIssues
<1>3. f # None /\ f.account = Account /\ f.token = Me
  BY <1>1, <1>2, SentinelAssumption DEF SentinelAssumption, TypeOK, None, Fence
<1>4. owner'[Account].token = Me /\ owner'[Account].live
  <2>1. CASE ClaimAgain(Account, Me, TRUE)
    BY <2>1 DEF ClaimAgain
  <2>2. CASE FirstClaim(Account, Me, TRUE) \/ Takeover(Account, Me, TRUE)
    <3>1. PICK e : owner' = [owner EXCEPT ![Account] = OwnerRow(Me, e, TRUE)]
      BY <2>2 DEF FirstClaim, Takeover
    <3> QED BY <1>1, <3>1 DEF OwnerRow, TypeOK
  <2> QED BY <2>1, <2>2 DEF ClaimOwnership
<1>5. f \in Fences
  BY <1>1, <1>2 DEF TypeOK
<1>6. ASSUME NEW g \in Known' \ {None}, g \notin Gone'
      PROVE  g = f
  <2>1. g \in Fences /\ g.account = Account /\ g.token = Me
    BY <1>1, <1>6 DEF Known, TypeOK
  <2>2. g.epoch = owner'[Account].epoch
    BY <1>6, <2>1 DEF Gone, Holds
  <2> QED BY <2>1, <2>2 DEF Fence, Fences
<1> QED BY <1>2, <1>3, <1>6 DEF Known

-----------------------------------------------------------------------------
\* A step marks as lost only what is lost, and starts no session.
ExecFine ==
  \A s \in SessionIds : exec'[s].phase # "none" =>
    /\ exec[s].phase # "none"
    /\ exec'[s].phase = "started" => exec[s].phase = "started"
    /\ exec'[s].lost => opener[s] \in Gone'
    /\ exec'[s].fence \notin {None, opener[s]} => opener[s] \in Gone'
    /\ exec'[s].phase = "released" => opener[s] \in Gone'

LEMMA MarkedKept ==
  ASSUME Invs, Steady, ExecFine
  PROVE  Marked'
BY StepFacts DEF ExecFine, Marked

LEMMA ExecKept ==
  ASSUME Invs, Steady,
         \A s \in SessionIds :
           /\ exec'[s].lost = exec[s].lost
           /\ exec'[s].fence = exec[s].fence
           /\ \/ exec'[s].phase = exec[s].phase
              \/ /\ exec[s].phase # "none"
                 /\ exec'[s].phase = "started" => exec[s].phase = "started"
                 /\ exec'[s].phase = "released" => opener[s] \in Gone'
  PROVE  ExecFine
BY StepFacts DEF ExecFine, Invs, FenceInv, Marked, Steady, Fades

SameMemory ==
  /\ account'.owner = account.owner
  /\ account'.current = account.current
  /\ account'.pending = account.pending
  /\ account'.stale = account.stale
  /\ account'.target = account.target
  /\ account'.staleRelease = account.staleRelease
  /\ room'.owner = room.owner
  /\ forgets' = forgets

LEMMA RememberedKept ==
  ASSUME Invs, Steady, ExecFine, SameMemory
  PROVE  Remembered'
<1>1. Attached' = Attached
  BY DEF SameMemory, Attached
<1>2. \A f \in Known \ {None} : f \notin Gone' => f \notin Gone
  BY DEF Steady, Fades
<1>3. \A g \in forgets' : g \notin Gone' => account'.owner \in {None, g}
  BY <1>2, StepFacts DEF SameMemory, Invs, FenceInv, Remembered
<1>4. Attached' # NoSession =>
        /\ opener'[Attached'] \notin Gone' => account'.owner \in {None, opener'[Attached']}
        /\ room'.owner # None => room'.owner = opener'[Attached']
  BY <1>1, <1>2, StepFacts DEF SameMemory, Invs, FenceInv, Remembered
<1>5. account'.current # NoSession =>
        /\ opener'[account'.current] \notin Gone' => account'.owner = opener'[account'.current]
        /\ exec'[account'.current].phase = "started" /\ ~account'.stale =>
             account'.owner = opener'[account'.current]
  BY <1>2, StepFacts DEF SameMemory, Invs, FenceInv, Remembered, ExecFine
<1>6. account'.stale =>
        /\ account'.current \in {NoSession, account'.target}
        /\ account'.pending # NoSession => account'.target \in {NoSession, account'.pending}
        /\ account'.target # NoSession =>
             \/ account'.staleRelease \in {None, opener'[account'.target]}
             \/ opener'[account'.target] \in Gone'
  BY <1>2, StepFacts DEF SameMemory, Invs, FenceInv, Remembered
<1>7. LET s == account'.pending IN
      /\ s # NoSession
      /\ account'.owner = None \/ (account'.stale /\ s # account'.target)
      /\ opener'[s] \notin Gone'
      => room'.owner = opener'[s] /\ opener'[s] \notin forgets'
  BY <1>2, StepFacts DEF SameMemory, Invs, FenceInv, Remembered
<1> QED BY <1>3, <1>4, <1>5, <1>6, <1>7 DEF Remembered

\* The holder holds no fence, but for the one that a drain remembers.
HandsEmpty ==
  /\ gate'.at \notin {"end", "release", "drop", "admit", "open", "publish", "undo", "write"}
  /\ gate'.op = "start" => gate'.at # "claim" /\ gate'.then # "claim"
  /\ gate'.at \in Cleaning /\ gate'.op = "drain" =>
       gate'.claim = IF gate'.session = NoSession THEN account'.owner ELSE opener'[gate'.session]

LEMMA EmptyHandled ==
  ASSUME HandsEmpty
  PROVE  Handled'
BY DEF HandsEmpty, Handled

LEMMA HandledKept ==
  ASSUME Invs, Steady, SameMemory, UNCHANGED gate
  PROVE  Handled'
<1>1. Attached' = Attached
  BY DEF SameMemory, Attached
<1>2. \A f \in Known \ {None} : f \in Gone => f \in Gone'
  BY DEF Steady, Fades
<1>3. gate.at = "drop" \/ gate.at \in {"admit", "open"} => gate.fence \in Known /\ gate.claim \in Known
  BY StepFacts DEF MemoryTypes, GateStates
<1>4. gate.at \in {"admit", "open"} => gate.claim # None
  BY DEF Invs, RuntimeInv, Ready
<1>5. None \notin Gone
  BY SentinelAssumption DEF SentinelAssumption, Gone, None
<1>6. /\ gate.session # NoSession /\ gate.at \in {"end", "release", "drop"} =>
           gate'.fence = opener'[gate'.session] \/ opener'[gate'.session] \in Gone'
      /\ gate.at = "drop" => gate.fence \in Gone'
  BY <1>2, <1>3, <1>5, StepFacts DEF Invs, FenceInv, Handled
<1>7. /\ gate.at \in {"admit", "open", "publish"} =>
           account'.owner = gate.claim /\ room'.owner = gate.claim
      /\ gate.at \in {"release", "drop"} => gate.op # "drain" \/ gate.session # NoSession
      /\ gate.at \in {"publish", "undo", "write"} /\ Attached # NoSession =>
           opener'[Attached] = gate.claim
      /\ gate.at \in Cleaning /\ gate.op = "drain" =>
           gate.claim = IF gate.session = NoSession THEN account'.owner ELSE opener'[gate.session]
  BY StepFacts DEF SameMemory, Invs, FenceInv, Handled
<1>8. account'.stale /\ gate.op = "start" =>
       /\ gate.at = "claim" \/ gate.then = "claim" =>
            account'.target = NoSession /\ forgets' \subseteq Gone'
       /\ gate.at \in {"admit", "open"} =>
            account'.target = NoSession /\ (gate.claim \in Gone' \/ gate.claim \notin forgets')
  BY <1>2, <1>3, <1>4, StepFacts DEF SameMemory, Invs, FenceInv, Handled
<1> QED BY <1>1, <1>6, <1>7, <1>8 DEF Handled

\* A step that changes no fence in memory.
LEMMA QuietFences ==
  ASSUME Invs, Steady, ExecFine, SameMemory, UNCHANGED gate \/ HandsEmpty \/ Handled'
  PROVE  FenceInv'
BY MarkedKept, RememberedKept, EmptyHandled, HandledKept DEF FenceInv

-----------------------------------------------------------------------------
\* The steps outside the gate, and those at which it is granted.
LEMMA AcquireFences ==
  ASSUME Invs, Steady,
         \/ \E e \in RoomEvents : Announce(e)
         \/ Consume \/ AcquireMutate \/ AcquireDrain \/ AcquireStale \/ AcquireShutdown
         \/ \E here \in BOOLEAN : AdministratorDisables(here)
         \/ AdministratorEnables \/ HookMarks
         \/ BeatStarts \/ BeatRenews \/ BeatRefused \/ BeatMarks \/ BeatFails
         \/ Close \/ ShutdownQueues \/ ShutdownReturns
         \/ OtherProcess \/ Expires \/ UNCHANGED memory
  PROVE  FenceInv'
<1>1. MemoryTypes
  BY StepFacts
<1>2. ExecFine
  <2>1. UNCHANGED exec
    BY DEF Announce, Consume, BeginEvent, InterruptEvent, FinishEvent, RefuseAdmission,
           AcquireStart, AcquireStop, AcquireMutate, AcquireDrain, AcquireStale, AcquireShutdown,
           AdministratorDisables, AdministratorEnables, HookMarks, BeatStarts, BeatRenews, BeatRefused,
           BeatMarks, BeatFails, Close, ShutdownQueues, ShutdownReturns, OtherProcess, Expires, memory
  <2> QED BY <2>1, ExecKept
<1>3. SameMemory
  <2>1. UNCHANGED forgets /\ room'.owner = room.owner
    BY <1>1
    DEF Announce, Consume, BeginEvent, InterruptEvent, FinishEvent, RefuseAdmission,
        AcquireStart, AcquireStop, AcquireMutate, AcquireDrain, AcquireStale, AcquireShutdown,
        AdministratorDisables, AdministratorEnables, HookMarks, BeatStarts, BeatRenews, BeatRefused,
        BeatMarks, BeatFails, Close, ShutdownQueues, ShutdownReturns, OtherProcess, Expires, memory,
        MemoryTypes, RoomStates
  <2>2. \/ UNCHANGED account
        \/ account' = MarkDisabled(account)
        \/ \E d : account' = [account EXCEPT !.shutting = TRUE, !.draining = d]
    BY DEF Announce, Consume, BeginEvent, InterruptEvent, FinishEvent, RefuseAdmission,
           AcquireStart, AcquireStop, AcquireMutate, AcquireDrain, AcquireStale, AcquireShutdown,
           AdministratorDisables, AdministratorEnables, HookMarks, BeatStarts, BeatRenews, BeatRefused,
           BeatMarks, BeatFails, Close, ShutdownQueues, ShutdownReturns, OtherProcess, Expires, memory
  <2>3. CASE UNCHANGED account
    BY <2>1, <2>3 DEF SameMemory
  <2>4. CASE account' = MarkDisabled(account)
    BY <1>1, <2>1, <2>4 DEF SameMemory, MarkDisabled, MemoryTypes, AccountStates
  <2>5. CASE \E d : account' = [account EXCEPT !.shutting = TRUE, !.draining = d]
    BY <1>1, <2>1, <2>5 DEF SameMemory, MemoryTypes, AccountStates
  <2> QED BY <2>2, <2>3, <2>4, <2>5
<1>4. UNCHANGED gate \/ HandsEmpty
  <2>1. \/ UNCHANGED gate
        \/ gate' = GateFor("start", "look")
        \/ \E op \in {"stop", "drain", "stale", "shutdown"} : gate' = GateFor(op, "look")
        \/ gate' = GateFor("mutate", "claim")
    BY DEF Announce, Consume, BeginEvent, InterruptEvent, FinishEvent, RefuseAdmission,
           AcquireStart, AcquireStop, AcquireMutate, AcquireDrain, AcquireStale, AcquireShutdown,
           AdministratorDisables, AdministratorEnables, HookMarks, BeatStarts, BeatRenews, BeatRefused,
           BeatMarks, BeatFails, Close, ShutdownQueues, ShutdownReturns, OtherProcess, Expires, memory
  <2>2. ASSUME NEW op, NEW at
        PROVE  GateFor(op, at).op = op /\ GateFor(op, at).at = at /\ GateFor(op, at).then = "none"
    BY DEF GateFor, FreeGate
  <2> QED BY <2>1, <2>2 DEF HandsEmpty, Cleaning
<1> QED BY <1>2, <1>3, <1>4, QuietFences

\* An operation that gives up.
LEMMA AbandonFences ==
  ASSUME Invs, Steady, ExecFine, Abandon, UNCHANGED forgets
  PROVE  FenceInv'
<1>1. MemoryTypes
  BY StepFacts
<1>2. SameMemory
  BY <1>1 DEF Abandon, SameMemory, MemoryTypes, AccountStates, RoomStates
<1>3. HandsEmpty
  BY AbandonGives DEF Invs, HandsEmpty, Cleaning
<1> QED BY <1>2, <1>3, QuietFences

LEMMA FreeFences ==
  ASSUME Invs, Steady, ExecFine, SameMemory, gate' = FreeGate
  PROVE  FenceInv'
<1>1. HandsEmpty
  BY DEF FreeGate, HandsEmpty, Cleaning
<1> QED BY <1>1, QuietFences

\* The entry of a cleanup under the fence f.
LEMMA EnterFences ==
  ASSUME Invs, Steady, UNCHANGED <<account, room, forgets>>,
         NEW s \in SessionIds, exec[s].phase # "none",
         NEW f \in Known, f \notin {None, opener[s]} => opener[s] \in Gone,
         NEW then, then # "claim", NEW claim, gate.op = "drain" => claim = opener[s],
         Enter(s, f, then, claim)
  PROVE  FenceInv'
<1>1. MemoryTypes
  BY StepFacts
<1>2. /\ gate'.op = gate.op /\ gate'.then = then /\ gate'.session = s /\ gate'.claim = claim
      /\ gate'.at \in {"drain", "settle", "done"}
      /\ \A r \in SessionIds : exec'[r].phase = exec[r].phase
  BY EnterGives DEF Invs, AttachInv, Steady
<1>3. \A r \in SessionIds : \/ exec'[r].lost = exec[r].lost /\ exec'[r].fence = exec[r].fence
                            \/ r = s /\ f # None /\ exec'[r].fence = f /\ ~exec'[r].lost
  BY <1>1 DEF Enter, MemoryTypes, ExecStates
<1>4. ExecFine
  BY <1>2, <1>3, StepFacts DEF ExecFine, Invs, FenceInv, Marked, Steady, Fades
<1>5. HandsEmpty
  BY <1>2, StepFacts DEF HandsEmpty, Cleaning
<1>6. SameMemory
  BY DEF SameMemory
<1> QED BY <1>4, <1>5, <1>6, QuietFences

\* The release of a fence without a session, or nothing to release.
LEMMA ReleaseFences ==
  ASSUME Invs, Steady, UNCHANGED <<account, exec, room, forgets>>,
         gate'.op = gate.op, gate.op # "drain", gate'.session = NoSession,
         gate'.at \in {"release", "done"},
         gate'.op = "start" /\ gate'.then = "claim" => ~account.stale
  PROVE  FenceInv'
<1>1. ExecFine
  BY ExecKept
<1>2. SameMemory
  BY DEF SameMemory
<1>3. Handled'
  BY DEF Handled
<1> QED BY <1>1, <1>2, <1>3, QuietFences

LEMMA LookFences ==
  ASSUME Invs, Steady,
         StartCleansUp \/ StartUndoes \/ StopLooks \/ DrainLooks \/ StaleLooks \/ ShutdownLooks
  PROVE  FenceInv'
<1>1. MemoryTypes /\ UNCHANGED <<account, room, forgets>>
  BY StepFacts DEF StartCleansUp, StartUndoes, StopLooks, DrainLooks, StaleLooks, ShutdownLooks
<1>2. /\ Attached # NoSession => Attached \in SessionIds /\ exec[Attached].phase # "none"
                                 /\ opener[Attached] \in Known
      /\ account.target # NoSession => account.target \in SessionIds /\ exec[account.target].phase # "none"
  BY StepFacts
<1>3. account.owner \in Known /\ account.staleRelease \in Known /\ room.owner \in Known
      /\ gate.claim \in Known /\ None \in Known
  BY <1>1 DEF MemoryTypes, AccountStates, RoomStates, GateStates, Known
<1>4. ASSUME NEW f, NEW then
      PROVE  /\ ReleaseThen(f, then).op = gate.op
             /\ ReleaseThen(f, then).at = "release"
             /\ ReleaseThen(f, then).then = then
             /\ ReleaseThen(f, then).session = NoSession
             /\ [ReleaseThen(f, then) EXCEPT !.claim = f].op = gate.op
             /\ [ReleaseThen(f, then) EXCEPT !.claim = f].at = "release"
             /\ [ReleaseThen(f, then) EXCEPT !.claim = f].then = then
             /\ [ReleaseThen(f, then) EXCEPT !.claim = f].session = NoSession
  BY <1>1 DEF ReleaseThen, MemoryTypes, GateStates
<1>5. ASSUME NEW then
      PROVE  /\ [Goto("done") EXCEPT !.then = then].op = gate.op
             /\ [Goto("done") EXCEPT !.then = then].at = "done"
             /\ [Goto("done") EXCEPT !.then = then].then = then
             /\ [Goto("done") EXCEPT !.then = then].session = gate.session
  BY <1>1 DEF Goto, MemoryTypes, GateStates
<1>6. gate.at = "look" => gate.session = NoSession
  BY DEF Invs, AttachInv, GateShape, Cleaning
<1>7. CASE StartCleansUp
  <2>1. account.pending # NoSession /\ Attached = account.pending
    BY <1>7, StepFacts DEF StartCleansUp
  <2>2. Enter(account.pending, opener[account.pending], "restart", None) /\ gate.op = "start"
    BY <1>7 DEF StartCleansUp, At
  <2> QED BY <1>1, <1>2, <2>1, <2>2, EnterFences
<1>8. CASE StartUndoes
  <2>1. gate.op = "start" /\ gate.at = "undo"
    BY <1>8 DEF StartUndoes, At
  <2>2. CASE Attached # NoSession
    <3>1. opener[Attached] = gate.claim
      BY <2>1, <2>2 DEF Invs, FenceInv, Handled
    <3>2. Enter(Attached, gate.claim, "undo", gate.claim)
      BY <1>8, <2>2 DEF StartUndoes
    <3> QED BY <1>1, <1>2, <1>3, <2>1, <2>2, <3>1, <3>2, EnterFences
  <2>3. CASE Attached = NoSession
    <3>1. gate' = ReleaseThen(gate.claim, "undo") /\ UNCHANGED exec
      BY <1>8, <2>3 DEF StartUndoes
    <3> QED BY <1>1, <1>4, <2>1, <3>1, ReleaseFences
  <2> QED BY <2>2, <2>3
<1>9. CASE StopLooks
  <2>1. gate.op = "stop" /\ gate.at = "look"
    BY <1>9 DEF StopLooks, At
  <2>2. CASE Attached # NoSession
    <3>1. room.owner # None => room.owner = opener[Attached]
      BY <2>2 DEF Invs, FenceInv, Remembered
    <3>2. Enter(Attached, room.owner, "stop", None)
      BY <1>9, <2>2 DEF StopLooks
    <3> QED BY <1>1, <1>2, <1>3, <2>1, <2>2, <3>1, <3>2, EnterFences
  <2>3. CASE Attached = NoSession
    <3>1. /\ UNCHANGED exec
          /\ gate' = ReleaseThen(room.owner, "stop") \/ gate' = [Goto("done") EXCEPT !.then = "stop"]
      BY <1>9, <2>3 DEF StopLooks
    <3>2. gate.session = NoSession
      BY <1>6, <2>1
    <3>3. gate'.op = gate.op /\ gate'.at \in {"release", "done"} /\ gate'.session = NoSession
      BY <1>1, <3>1, <3>2 DEF ReleaseThen, Goto, MemoryTypes, GateStates
    <3>4. gate.op # "drain" /\ gate'.op # "start"
      BY <2>1, <3>3
    <3> QED BY <1>1, <3>1, <3>3, <3>4, ReleaseFences
  <2> QED BY <2>2, <2>3
<1>10. CASE DrainLooks
  <2>1. gate.op = "drain" /\ gate.at = "look"
    BY <1>10 DEF DrainLooks, At
  <2>2. CASE Attached # NoSession
    <3>1. Enter(Attached, None, "drain", opener[Attached])
      BY <1>10, <2>2 DEF DrainLooks
    <3> QED BY <1>1, <1>2, <1>3, <2>1, <2>2, <3>1, EnterFences
  <2>3. CASE Attached = NoSession
    <3>1. gate' = [Goto("done") EXCEPT !.then = "drain", !.claim = account.owner] /\ UNCHANGED exec
      BY <1>10, <2>3 DEF DrainLooks
    <3>2. gate'.op = "drain" /\ gate'.at = "done" /\ gate'.session = NoSession /\ gate'.claim = account.owner
      BY <1>1, <1>6, <2>1, <3>1 DEF Goto, MemoryTypes, GateStates
    <3>3. HandsEmpty
      BY <1>1, <3>2 DEF HandsEmpty
    <3>4. ExecFine
      BY <3>1, ExecKept
    <3>5. SameMemory
      BY <1>1 DEF SameMemory
    <3> QED BY <3>3, <3>4, <3>5, QuietFences
  <2> QED BY <2>2, <2>3
<1>11. CASE StaleLooks
  <2>1. gate.op = "stale" /\ gate.at = "look"
    BY <1>11 DEF StaleLooks, At
  <2>2. account.stale
    BY <2>1 DEF Invs, AttachInv, Holder
  <2>3. CASE account.target # NoSession
    <3>1. \/ account.staleRelease \in {None, opener[account.target]}
          \/ opener[account.target] \in Gone
      BY <2>2, <2>3 DEF Invs, FenceInv, Remembered
    <3>2. Enter(account.target, account.staleRelease, "stale", account.staleRelease)
      BY <1>11, <2>3 DEF StaleLooks
    <3> QED BY <1>1, <1>2, <1>3, <2>1, <2>3, <3>1, <3>2, EnterFences
  <2>4. CASE account.target = NoSession
    <3>1. /\ UNCHANGED exec
          /\ \/ gate' = [ReleaseThen(account.staleRelease, "stale") EXCEPT !.claim = account.staleRelease]
             \/ gate' = [Goto("done") EXCEPT !.then = "stale"]
      BY <1>11, <2>4 DEF StaleLooks
    <3>2. gate.session = NoSession
      BY <1>6, <2>1
    <3>3. gate'.op = gate.op /\ gate'.at \in {"release", "done"} /\ gate'.session = NoSession
      BY <1>1, <3>1, <3>2 DEF ReleaseThen, Goto, MemoryTypes, GateStates
    <3>4. gate.op # "drain" /\ gate'.op # "start"
      BY <2>1, <3>3
    <3> QED BY <1>1, <3>1, <3>3, <3>4, ReleaseFences
  <2> QED BY <2>3, <2>4
<1>12. CASE ShutdownLooks
  <2>1. gate.op = "shutdown" /\ gate.at = "look"
    BY <1>12 DEF ShutdownLooks, At
  <2>2. CASE Attached # NoSession
    <3>1. Enter(Attached, None, "shutdown", None)
      BY <1>12, <2>2 DEF ShutdownLooks
    <3> QED BY <1>1, <1>2, <1>3, <2>1, <2>2, <3>1, EnterFences
  <2>3. CASE Attached = NoSession
    <3>1. /\ UNCHANGED exec
          /\ \/ gate' = ReleaseThen(account.owner, "shutdown")
             \/ gate' = [Goto("done") EXCEPT !.then = "shutdown"]
      BY <1>12, <2>3 DEF ShutdownLooks
    <3>2. gate.session = NoSession
      BY <1>6, <2>1
    <3>3. gate'.op = gate.op /\ gate'.at \in {"release", "done"} /\ gate'.session = NoSession
      BY <1>1, <3>1, <3>2 DEF ReleaseThen, Goto, MemoryTypes, GateStates
    <3>4. gate.op # "drain" /\ gate'.op # "start"
      BY <2>1, <3>3
    <3> QED BY <1>1, <3>1, <3>3, <3>4, ReleaseFences
  <2> QED BY <2>2, <2>3
<1> QED BY <1>7, <1>8, <1>9, <1>10, <1>11, <1>12

-----------------------------------------------------------------------------
\* The holder of the gate goes on and memory stays.
LEMMA ForwardFences ==
  ASSUME Invs, Steady, UNCHANGED <<account, exec, room, forgets>>, Handled'
  PROVE  FenceInv'
<1>1. ExecFine
  BY ExecKept
<1>2. SameMemory
  BY DEF SameMemory
<1> QED BY <1>1, <1>2, QuietFences

LEMMA GotoFields ==
  ASSUME MemoryTypes, NEW at
  PROVE  /\ Goto(at).op = gate.op /\ Goto(at).at = at /\ Goto(at).then = gate.then
         /\ Goto(at).session = gate.session /\ Goto(at).fence = gate.fence
         /\ Goto(at).claim = gate.claim
BY DEF Goto, MemoryTypes, GateStates

LEMMA StartFences ==
  ASSUME Invs, Steady,
         StartRenounces \/ StartProceeds \/ StartAdmits(TRUE) \/ StartAdmits(FALSE) \/ StartFails
  PROVE  FenceInv'
<1>1. MemoryTypes
  BY StepFacts
<1>2. ASSUME NEW f, NEW then
      PROVE  /\ ReleaseThen(f, then).op = gate.op
             /\ ReleaseThen(f, then).at = "release"
             /\ ReleaseThen(f, then).then = then
             /\ ReleaseThen(f, then).session = NoSession
  BY <1>1 DEF ReleaseThen, MemoryTypes, GateStates
<1>3. gate.op = "start" /\ UNCHANGED <<exec, forgets>>
  BY DEF StartRenounces, StartProceeds, StartAdmits, StartFails, At
<1>4. CASE StartRenounces
  <2> DEFINE then == IF Blocked THEN "refuse" ELSE "claim"
  <2>1. gate' = ReleaseThen(room.owner, then) /\ UNCHANGED <<account, room>>
    BY <1>4 DEF StartRenounces
  <2>2. then = "claim" => ~account.stale
    BY DEF Blocked
  <2> HIDE DEF then
  <2>3. gate'.op = gate.op /\ gate'.at = "release" /\ gate'.then = then /\ gate'.session = NoSession
    BY <1>2, <2>1
  <2> QED BY <1>3, <2>1, <2>2, <2>3, ReleaseFences
<1>5. CASE StartProceeds
  <2>1. CASE Blocked
    BY <1>3, <1>5, <2>1, ExecKept, AbandonFences DEF StartProceeds
  <2>2. CASE ~Blocked
    <3>1. ~account.stale /\ gate' = Goto("claim") /\ UNCHANGED <<account, room>>
      BY <1>5, <2>2 DEF StartProceeds, Blocked
    <3>2. gate'.op = "start" /\ gate'.at = "claim"
      BY <1>1, <1>3, <3>1, GotoFields
    <3>3. Handled'
      BY <3>1, <3>2 DEF Handled, Cleaning
    <3> QED BY <1>3, <3>1, <3>3, ForwardFences
  <2> QED BY <2>1, <2>2
<1>6. CASE StartAdmits(TRUE)
  <2>1. gate.at = "admit" /\ gate' = Goto("open") /\ UNCHANGED <<account, room>>
    BY <1>6 DEF StartAdmits, At
  <2>2. gate'.op = "start" /\ gate'.at = "open" /\ gate'.then = gate.then /\ gate'.claim = gate.claim
    BY <1>1, <1>3, <2>1, GotoFields
  <2>3. gate.then # "claim"
    BY <2>1 DEF Invs, AttachInv, GateShape, Cleaning
  <2>4. gate.claim \in Known \ {None}
    BY <1>1, <2>1 DEF MemoryTypes, GateStates, Invs, RuntimeInv, Ready
  <2>5. account.owner = gate.claim /\ room.owner = gate.claim
    BY <2>1 DEF Invs, FenceInv, Handled
  <2>6. account.stale => account.target = NoSession /\ (gate.claim \in Gone \/ gate.claim \notin forgets)
    BY <1>3, <2>1 DEF Invs, FenceInv, Handled
  <2>7. gate.claim \in Gone => gate.claim \in Gone'
    BY <2>4 DEF Steady, Fades
  <2>8. Handled'
    BY <1>3, <2>1, <2>2, <2>3, <2>5, <2>6, <2>7 DEF Handled, Cleaning
  <2> QED BY <1>3, <2>1, <2>8, ForwardFences
<1>7. CASE StartAdmits(FALSE)
  <2>1. gate' = ReleaseThen(gate.claim, "undo") /\ UNCHANGED <<account, room>>
    BY <1>7 DEF StartAdmits
  <2> QED BY <1>2, <1>3, <2>1, ReleaseFences
<1>8. CASE StartFails
  <2>1. gate.at \in {"open", "publish"} /\ gate' = Goto("undo") /\ UNCHANGED <<account, room>>
    BY <1>8 DEF StartFails
  <2>2. gate'.op = "start" /\ gate'.at = "undo" /\ gate'.then = gate.then /\ gate'.claim = gate.claim
    BY <1>1, <1>3, <2>1, GotoFields
  <2>3. gate.then # "claim"
    BY <2>1 DEF Invs, AttachInv, GateShape, Cleaning
  <2>4. Attached' # NoSession => opener'[Attached'] = gate.claim
    <3>1. gate.at = "open" => Attached = NoSession
      BY <1>3 DEF Invs, AttachInv, Holder
    <3>2. gate.at = "publish" /\ Attached # NoSession => opener[Attached] = gate.claim
      BY DEF Invs, FenceInv, Handled
    <3>3. Attached' = Attached
      BY <2>1 DEF Attached
    <3> QED BY <2>1, <3>1, <3>2, <3>3, StepFacts
  <2>5. Handled'
    BY <2>2, <2>3, <2>4 DEF Handled, Cleaning
  <2> QED BY <1>3, <2>1, <2>5, ForwardFences
<1> QED BY <1>4, <1>5, <1>6, <1>7, <1>8

\* An answered claim.
LEMMA ClaimFences ==
  ASSUME Invs, Steady, RuntimeInv', StartClaims(TRUE)
  PROVE  FenceInv'
<1> DEFINE f == Fence(Account, Me, owner'[Account].epoch)
           reconcile == ClaimReconciles(Account)
<1>1. MemoryTypes
  BY StepFacts
<1>2. /\ gate.op = "start" /\ gate.at = "claim" /\ Attached = NoSession
      /\ UNCHANGED <<exec, forgets>>
      /\ gate.then # "claim" /\ gate.session = NoSession
  BY DEF StartClaims, At, Invs, AttachInv, Holder, GateShape, Cleaning
<1>3. /\ f \in Known' \ {None}
      /\ \A g \in Known' \ {None} : g \notin Gone' => g = f
  BY ClaimIsHeld DEF StartClaims, Invs
<1>4. /\ account' = [account EXCEPT !.owner = f, !.reconcile = reconcile]
      /\ room' = [room EXCEPT !.owner = f]
      /\ gate' = [Goto("admit") EXCEPT !.claim = f]
  BY DEF StartClaims
<1> HIDE DEF f, reconcile
<1>5. /\ account'.owner = f
      /\ account'.current = account.current
      /\ account'.pending = account.pending
      /\ account'.stale = account.stale
      /\ account'.target = account.target
      /\ room'.owner = f
      /\ Attached' = Attached
  BY <1>1, <1>4 DEF MemoryTypes, AccountStates, RoomStates, Attached
<1>6. gate'.op = "start" /\ gate'.at = "admit" /\ gate'.claim = f /\ gate'.then = gate.then
  BY <1>1, <1>2, <1>4 DEF Goto, MemoryTypes, GateStates
<1>7. account.current = NoSession /\ account.pending = NoSession
  BY <1>2, StepFacts
<1>8. account.stale => account.target = NoSession /\ forgets \subseteq Gone
  BY <1>2 DEF Invs, FenceInv, Handled
<1>9. forgets \subseteq Known' \ {None}
  BY <1>2 DEF RuntimeInv, Grounded, MemoryIn
<1>10. Marked'
  BY <1>2, ExecKept, MarkedKept
<1>11. Remembered'
  BY <1>2, <1>3, <1>5, <1>7, <1>8, <1>9 DEF Remembered
<1>12. f \in forgets /\ account.stale => f \in Gone'
  BY <1>8, StepFacts DEF Steady, Fades
<1>13. Handled'
  BY <1>2, <1>5, <1>6, <1>8, <1>12 DEF Handled, Cleaning
<1> QED BY <1>10, <1>11, <1>13 DEF FenceInv

\* The session that a start opens.
LEMMA OpenFences ==
  ASSUME Invs, Steady, NEW s \in SessionIds, NEW answered \in BOOLEAN, StartOpens(s, answered)
  PROVE  FenceInv'
<1>1. MemoryTypes /\ NoSession \notin SessionIds
  BY StepFacts
<1>2. /\ gate.op = "start" /\ gate.at = "open" /\ Attached = NoSession
      /\ UNCHANGED <<room, forgets>>
      /\ gate.then # "claim" /\ gate.session = NoSession
  BY DEF StartOpens, At, Invs, AttachInv, Holder, GateShape, Cleaning
<1>3. account.owner = gate.claim /\ room.owner = gate.claim /\ gate.claim \in Known \ {None}
  BY <1>1, <1>2 DEF Invs, FenceInv, Handled, RuntimeInv, Ready, MemoryTypes, GateStates
<1>4. CASE answered
  <2>1. /\ exec' = [exec EXCEPT ![s] = NewSession]
        /\ account' = [account EXCEPT !.pending = s]
        /\ gate' = Goto("publish")
    BY <1>4 DEF StartOpens
  <2>2. /\ account'.owner = gate.claim /\ account'.current = NoSession /\ account'.pending = s
        /\ Attached' = s
        /\ account'.target = account.target
        /\ account'.stale = account.stale
    BY <1>1, <1>2, <1>3, <2>1 DEF MemoryTypes, AccountStates, Attached
  <2>3. gate'.op = "start" /\ gate'.at = "publish" /\ gate'.then = gate.then /\ gate'.claim = gate.claim
    BY <1>1, <1>2, <2>1, GotoFields
  <2>4. opener'[s] = gate.claim
    BY <1>3 DEF StartOpens, StartSession, Invs, RuntimeInv, TypeOK
  <2>5. Marked'
    <3>1. \A r \in SessionIds : r # s => exec'[r] = exec[r]
      BY <1>1, <2>1 DEF MemoryTypes
    <3>2. exec'[s].phase = "started" /\ exec'[s].fence = None /\ ~exec'[s].lost
      BY <1>1, <2>1 DEF MemoryTypes, NewSession
    <3>3. \A r \in SessionIds : r # s /\ exec'[r].phase # "none" =>
             /\ exec'[r].lost => opener'[r] \in Gone'
             /\ exec'[r].fence \notin {None, opener'[r]} => opener'[r] \in Gone'
             /\ exec'[r].phase = "released" => opener'[r] \in Gone'
      BY <3>1, StepFacts DEF Invs, FenceInv, Marked, Steady, Fades
    <3> QED BY <3>2, <3>3 DEF Marked
  <2>6. account.stale => account.target = NoSession /\ (gate.claim \in Gone \/ gate.claim \notin forgets)
    BY <1>2 DEF Invs, FenceInv, Handled
  <2>7. \A f \in Known \ {None} : f \in Gone => f \in Gone'
    BY DEF Steady, Fades
  <2>8. \A g \in forgets : g \notin Gone' => account.owner \in {None, g}
    BY <2>7, StepFacts DEF Invs, FenceInv, Remembered
  <2>9. Remembered'
    BY <1>1, <1>2, <1>3, <2>2, <2>4, <2>6, <2>7, <2>8 DEF Remembered
  <2>10. Handled'
    BY <1>2, <1>3, <2>2, <2>3, <2>4 DEF Handled, Cleaning
  <2> QED BY <2>5, <2>9, <2>10 DEF FenceInv
<1>5. CASE ~answered
  <2>1. gate' = Goto("undo") /\ UNCHANGED <<account, exec>>
    BY <1>5 DEF StartOpens
  <2>2. gate'.op = "start" /\ gate'.at = "undo" /\ gate'.then = gate.then /\ Attached' = NoSession
    BY <1>1, <1>2, <2>1, GotoFields DEF Attached
  <2>3. Handled'
    BY <1>2, <2>2 DEF Handled, Cleaning
  <2> QED BY <1>2, <2>1, <2>3, ForwardFences
<1> QED BY <1>4, <1>5

LEMMA PublishFences ==
  ASSUME Invs, Steady, StartPublishes
  PROVE  FenceInv'
<1>1. MemoryTypes /\ NoSession \notin SessionIds
  BY StepFacts
<1>2. /\ gate.op = "start" /\ gate.at = "publish" /\ UNCHANGED <<exec, forgets>>
      /\ account.current = NoSession /\ account.pending # NoSession
      /\ gate.then # "claim"
  BY DEF StartPublishes, At, Invs, AttachInv, Holder, GateShape, Cleaning
<1>3. /\ Attached = account.pending
      /\ account.pending \in SessionIds
      /\ opener'[account.pending] = opener[account.pending]
  BY <1>2, StepFacts
<1>4. opener[account.pending] = gate.claim
  BY <1>2, <1>3 DEF Invs, FenceInv, Handled
<1>5. CASE Blocked \/ account.owner # gate.claim
  <2>1. gate' = Goto("undo") /\ UNCHANGED <<account, room>>
    BY <1>5 DEF StartPublishes
  <2>2. gate'.op = "start" /\ gate'.at = "undo" /\ gate'.then = gate.then /\ gate'.claim = gate.claim
        /\ Attached' = account.pending
    BY <1>1, <1>2, <1>3, <2>1, GotoFields DEF Attached
  <2>3. Handled'
    BY <1>2, <1>3, <1>4, <2>2 DEF Handled, Cleaning
  <2> QED BY <1>2, <2>1, <2>3, ForwardFences
<1>6. CASE ~Blocked /\ account.owner = gate.claim
  <2>1. /\ account' = [account EXCEPT !.current = account.pending, !.pending = NoSession,
                                      !.reconcile = FALSE]
        /\ room' = [room EXCEPT !.active = TRUE]
        /\ gate' = FreeGate
    BY <1>6 DEF StartPublishes
  <2>2. /\ account'.owner = gate.claim /\ account'.current = account.pending
        /\ account'.pending = NoSession /\ ~account'.stale
        /\ Attached' = account.pending /\ room'.owner = room.owner
    BY <1>1, <1>2, <1>6, <2>1 DEF MemoryTypes, AccountStates, RoomStates, Attached, Blocked
  <2>3. Marked'
    BY <1>2, ExecKept, MarkedKept
  <2>4. room.owner # None => room.owner = gate.claim
    BY <1>2 DEF Invs, FenceInv, Handled
  <2>5. \A g \in forgets : g \notin Gone' => account.owner \in {None, g}
    BY StepFacts DEF Invs, FenceInv, Remembered, Steady, Fades
  <2>6. Remembered'
    BY <1>2, <1>3, <1>4, <1>6, <2>2, <2>4, <2>5 DEF Remembered
  <2>7. Handled'
    BY <2>1, EmptyHandled DEF FreeGate, HandsEmpty, Cleaning
  <2> QED BY <2>3, <2>6, <2>7 DEF FenceInv
<1> QED BY <1>5, <1>6

-----------------------------------------------------------------------------
\* The transactions of a cleanup, and what the holder makes of their answers.
LEMMA TransactionFences ==
  ASSUME Invs, Steady,
         \/ EndsAgain \/ ReleaseConflicts \/ CallFails \/ StartClaims(FALSE) \/ DrainFails
         \/ \E answered \in BOOLEAN : Ends(answered) \/ Reconciles(answered) \/ Releases(answered)
  PROVE  FenceInv'
<1>1. MemoryTypes
  BY StepFacts
<1>2. gate.at \in {"end", "release"} => gate.fence \in Known \ {None} /\ gate.fence \in Fences
  BY <1>1, IssuedType DEF Invs, RuntimeInv, Ready, MemoryTypes, GateStates, Known
<1>3. CASE Abandon /\ UNCHANGED <<exec, forgets>>
  BY <1>3, ExecKept, AbandonFences
<1>4. CASE DrainFails
  <2>1. /\ gate.at = "drain" /\ Abandon /\ UNCHANGED forgets
        /\ \E phase \in {"started", "closing"} :
             /\ exec[gate.session].phase \in {"started", phase}
             /\ exec' = [exec EXCEPT ![gate.session].phase = phase]
    BY <1>4 DEF DrainFails
  <2>2. gate.session \in SessionIds
    BY <2>1, StepFacts DEF Invs, RuntimeInv, Ready
  <2>3. \A s \in SessionIds :
           /\ exec'[s].lost = exec[s].lost
           /\ exec'[s].fence = exec[s].fence
           /\ \/ exec'[s].phase = exec[s].phase
              \/ /\ exec[s].phase # "none"
                 /\ exec'[s].phase = "started" => exec[s].phase = "started"
                 /\ exec'[s].phase = "released" => opener[s] \in Gone'
    BY <1>1, <2>1, <2>2 DEF MemoryTypes, ExecStates
  <2> QED BY <2>1, <2>3, ExecKept, AbandonFences
<1>5. ASSUME gate.at \in {"end", "reconcile"}, gate' = Goto("settle"),
             UNCHANGED <<account, exec, room, forgets>>
      PROVE  FenceInv'
  <2>1. /\ gate'.op = gate.op /\ gate'.at = "settle" /\ gate'.then = gate.then
        /\ gate'.session = gate.session /\ gate'.claim = gate.claim
    BY <1>1, <1>5, GotoFields
  <2>2. gate.session # NoSession /\ gate.then # "claim"
    BY <1>5 DEF Invs, RuntimeInv, Ready, AttachInv, GateShape
  <2>3. gate.op = "drain" => gate.claim = opener[gate.session]
    BY <1>5, <2>2 DEF Invs, FenceInv, Handled, Cleaning
  <2>4. Handled'
    BY <2>1, <2>2, <2>3, StepFacts DEF Handled
  <2> QED BY <1>5, <2>4, ForwardFences
<1>6. ASSUME gate.at = "release", gate' = Goto("drop"), UNCHANGED <<account, exec, room, forgets>>,
             gate.fence \in Gone'
      PROVE  FenceInv'
  <2>1. /\ gate'.op = gate.op /\ gate'.at = "drop" /\ gate'.then = gate.then /\ gate'.fence = gate.fence
        /\ gate'.session = gate.session /\ gate'.claim = gate.claim
    BY <1>1, <1>6, GotoFields
  <2>2. gate.session # NoSession =>
           gate.fence = opener'[gate.session] \/ opener'[gate.session] \in Gone'
    BY <1>6, StepFacts DEF Invs, FenceInv, Handled, Steady, Fades
  <2>3. gate.op = "drain" => gate.session # NoSession /\ gate.claim = opener'[gate.session]
    BY <1>6, StepFacts DEF Invs, FenceInv, Handled, Cleaning
  <2>4. account.stale /\ gate.op = "start" /\ gate.then = "claim" =>
           account.target = NoSession /\ forgets \subseteq Gone'
    BY StepFacts DEF Invs, FenceInv, Handled, Steady, Fades
  <2>5. Handled'
    BY <1>6, <2>1, <2>2, <2>3, <2>4 DEF Handled
  <2> QED BY <1>6, <2>5, ForwardFences
<1>7. CASE EndsAgain
  BY <1>5, <1>7 DEF EndsAgain
<1>8. CASE ReleaseConflicts
  <2>1. gate.fence \in Gone
    BY <1>2, <1>8 DEF ReleaseConflicts, Gone, Holds, Known
  <2>2. gate.fence \in Gone'
    BY <1>2, <1>8, <2>1 DEF ReleaseConflicts, Steady, Fades
  <2> QED BY <1>6, <1>8, <2>2 DEF ReleaseConflicts
<1>9. CASE CallFails
  BY <1>3, <1>9 DEF CallFails
<1>10. CASE StartClaims(FALSE)
  BY <1>3, <1>10 DEF StartClaims
<1>11. CASE \E answered \in BOOLEAN : Ends(answered) \/ Reconciles(answered)
  BY <1>3, <1>5, <1>11 DEF Ends, Reconciles, Replied
<1>12. CASE \E answered \in BOOLEAN : Releases(answered)
  <2>1. gate.at = "release" /\ ReleaseOwnership(gate.fence) /\ UNCHANGED <<exec, forgets>>
    BY <1>12 DEF Releases
  <2>2. gate.fence \in Gone'
    <3>1. gate.fence.account = Account /\ Account \in Accounts /\ owner \in [Accounts -> OwnerRows \cup {NoOwner}]
      BY <1>2, <2>1, RuntimeAssumption DEF RuntimeAssumption, Known, Invs, RuntimeInv, TypeOK
    <3>2. ~owner'[gate.fence.account].live
      <4>1. owner' = [owner EXCEPT ![Account].live = FALSE]
        BY <2>1, <3>1 DEF ReleaseOwnership
      <4> QED BY <3>1, <4>1 DEF OwnerRows, OwnerRow, NoOwner
    <3> QED BY <1>2, <2>1, <3>2 DEF Gone, Holds
  <2>3. \/ gate' = Goto("drop") /\ UNCHANGED <<account, room>>
        \/ Abandon
    BY <1>12 DEF Releases, Replied
  <2> QED BY <1>3, <1>6, <2>1, <2>2, <2>3
<1> QED BY <1>4, <1>7, <1>8, <1>9, <1>10, <1>11, <1>12

LEMMA AdvanceFences ==
  ASSUME Invs, Steady, Drained \/ EndConflicts \/ Settle
  PROVE  FenceInv'
<1>1. MemoryTypes
  BY StepFacts
<1>2. UNCHANGED <<account, room, forgets>> /\ SameMemory
  BY DEF Drained, EndConflicts, Settle, SameMemory
<1>3. /\ gate.at \in {"drain", "end", "settle"}
      /\ gate.session \in SessionIds /\ exec[gate.session].phase # "none"
      /\ opener'[gate.session] = opener[gate.session] /\ opener[gate.session] \in Known \ {None}
      /\ gate.session # NoSession
      /\ gate.then # "claim"
  <2>1. gate.at \in {"drain", "end", "settle"}
    BY DEF Drained, EndConflicts, Settle
  <2>2. gate.session # NoSession
    BY <2>1 DEF Invs, RuntimeInv, Ready
  <2> QED BY <2>1, <2>2, StepFacts DEF Invs, AttachInv, GateShape
<1>4. gate.op = "drain" => gate.claim = opener[gate.session]
  BY <1>3 DEF Invs, FenceInv, Handled, Cleaning
<1>5. opener[gate.session] \in Gone => opener[gate.session] \in Gone'
  BY <1>3 DEF Steady, Fades
<1>6. ASSUME gate'.op = gate.op, gate'.at \in {"end", "reconcile", "release", "drop"},
             gate'.then = gate.then, gate'.session = gate.session, gate'.claim = gate.claim,
             gate'.at # "reconcile" =>
               gate'.fence = opener[gate.session] \/ opener[gate.session] \in Gone',
             gate'.at = "drop" => gate'.fence \in Gone'
      PROVE  Handled'
  BY <1>3, <1>4, <1>6 DEF Handled
<1>7. /\ exec[gate.session].lost => opener[gate.session] \in Gone
      /\ UsingFence(gate.session) = opener[gate.session] \/ opener[gate.session] \in Gone
  BY <1>3 DEF UsingFence, Invs, FenceInv, Marked
<1>8. CASE Drained
  <2>1. /\ exec' = [exec EXCEPT ![gate.session].phase = "drained"]
        /\ gate' = IF exec[gate.session].lost
                   THEN Goto("reconcile")
                   ELSE [Goto("end") EXCEPT !.fence = UsingFence(gate.session)]
    BY <1>8 DEF Drained
  <2>2. ExecFine
    <3>1. \A r \in SessionIds :
           /\ exec'[r].lost = exec[r].lost
           /\ exec'[r].fence = exec[r].fence
           /\ \/ exec'[r].phase = exec[r].phase
              \/ exec[r].phase # "none" /\ exec'[r].phase = "drained"
      BY <1>1, <1>3, <2>1 DEF MemoryTypes, ExecStates
    <3> QED BY <3>1, ExecKept
  <2>3. /\ gate'.op = gate.op /\ gate'.then = gate.then
        /\ gate'.session = gate.session /\ gate'.claim = gate.claim
        /\ \/ gate'.at = "reconcile"
           \/ gate'.at = "end" /\ gate'.fence = UsingFence(gate.session)
    BY <1>1, <2>1 DEF Goto, MemoryTypes, GateStates
  <2>4. Handled'
    BY <1>5, <1>6, <1>7, <2>3
  <2> QED BY <1>2, <2>2, <2>4, QuietFences
<1>9. CASE EndConflicts
  <2>1. /\ gate.at = "end" /\ ~Holds(gate.fence)
        /\ exec' = [exec EXCEPT ![gate.session].lost = TRUE, ![gate.session].fence = None]
        /\ gate' = Goto("reconcile")
    BY <1>9 DEF EndConflicts
  <2>2. opener[gate.session] \in Gone
    <3>1. gate.fence \in Fences
      BY <1>1, <2>1, IssuedType DEF Invs, RuntimeInv, Ready, MemoryTypes, GateStates, Known
    <3>2. gate.fence = opener[gate.session] \/ opener[gate.session] \in Gone
      BY <1>3, <2>1 DEF Invs, FenceInv, Handled
    <3> QED BY <2>1, <3>1, <3>2 DEF Gone
  <2>3. ExecFine
    <3>1. \A r \in SessionIds :
            /\ exec'[r].phase = exec[r].phase
            /\ \/ exec'[r].lost = exec[r].lost /\ exec'[r].fence = exec[r].fence
               \/ r = gate.session /\ exec'[r].fence = None
      BY <1>1, <1>3, <2>1 DEF MemoryTypes, ExecStates
    <3> QED BY <1>3, <1>5, <2>2, <3>1, StepFacts DEF ExecFine, Invs, FenceInv, Marked, Steady, Fades
  <2>4. /\ gate'.op = gate.op /\ gate'.then = gate.then /\ gate'.at = "reconcile"
        /\ gate'.session = gate.session /\ gate'.claim = gate.claim
    BY <1>1, <2>1, GotoFields
  <2>5. Handled'
    BY <1>6, <2>4
  <2> QED BY <1>2, <2>3, <2>5, QuietFences
<1>10. CASE Settle
  <2>1. /\ exec' = [exec EXCEPT ![gate.session].phase = "ended"]
        /\ gate' = IF exec[gate.session].lost
                   THEN [Goto("drop") EXCEPT !.fence = opener[gate.session]]
                   ELSE [Goto("release") EXCEPT !.fence = UsingFence(gate.session)]
    BY <1>10 DEF Settle
  <2>2. ExecFine
    <3>1. \A r \in SessionIds :
           /\ exec'[r].lost = exec[r].lost
           /\ exec'[r].fence = exec[r].fence
           /\ \/ exec'[r].phase = exec[r].phase
              \/ exec[r].phase # "none" /\ exec'[r].phase = "ended"
      BY <1>1, <1>3, <2>1 DEF MemoryTypes, ExecStates
    <3> QED BY <3>1, ExecKept
  <2>3. /\ gate'.op = gate.op /\ gate'.then = gate.then
        /\ gate'.session = gate.session /\ gate'.claim = gate.claim
        /\ \/ gate'.at = "drop" /\ exec[gate.session].lost /\ gate'.fence = opener[gate.session]
           \/ gate'.at = "release" /\ gate'.fence = UsingFence(gate.session)
    BY <1>1, <2>1 DEF Goto, MemoryTypes, GateStates
  <2>4. Handled'
    BY <1>5, <1>6, <1>7, <2>3
  <2> QED BY <1>2, <2>2, <2>4, QuietFences
<1> QED BY <1>8, <1>9, <1>10

\* The fence that is lost or released is forgotten, and its session released.
LEMMA DropFences ==
  ASSUME Invs, Steady, Drops
  PROVE  FenceInv'
<1>1. MemoryTypes
  BY StepFacts
<1>2. /\ gate.at = "drop"
      /\ account' = DropOwner(account, gate.fence)
      /\ exec' = [s \in SessionIds |-> IF s = gate.session THEN [exec[s] EXCEPT !.phase = "released"]
                                                           ELSE exec[s]]
      /\ gate' = Goto("done")
      /\ UNCHANGED <<room, forgets>>
  BY DEF Drops
<1>3. gate.fence \in Gone
  BY <1>2 DEF Invs, FenceInv, Handled
<1>4. gate.session # NoSession => /\ opener[gate.session] \in Gone
                                  /\ opener[gate.session] \in Gone'
                                  /\ exec[gate.session].phase # "none"
  BY <1>2, <1>3, StepFacts DEF Invs, FenceInv, Handled, Steady, Fades
<1>5. /\ account'.owner = IF account.owner = gate.fence THEN None ELSE account.owner
      /\ account'.current = account.current
      /\ account'.pending = account.pending
      /\ account'.stale = account.stale
      /\ account'.target = account.target
      /\ account'.staleRelease = account.staleRelease
      /\ Attached' = Attached
  BY <1>1, <1>2 DEF DropOwner, MemoryTypes, AccountStates, Attached
<1>6. /\ gate'.op = gate.op /\ gate'.at = "done" /\ gate'.then = gate.then
      /\ gate'.session = gate.session /\ gate'.claim = gate.claim
  BY <1>1, <1>2, GotoFields
<1>7. \A s \in SessionIds : /\ exec'[s].lost = exec[s].lost
                            /\ exec'[s].fence = exec[s].fence
                            /\ exec'[s].phase = IF s = gate.session THEN "released" ELSE exec[s].phase
  BY <1>1, <1>2 DEF MemoryTypes, ExecStates
<1>8. ExecFine
  <2>1. NoSession \notin SessionIds
    BY StepFacts
  <2> QED BY <1>4, <1>7, <2>1, ExecKept
<1>9. \A f \in Known \ {None} : f \notin Gone' => f \notin Gone
  BY DEF Steady, Fades
\* Whose session it is.
<1>10. \/ gate.session = Attached
       \/ Attached = NoSession
       \/ account.stale /\ gate.session = account.target
  <2>1. gate.op \in {"start", "stop", "mutate", "drain", "stale", "shutdown"}
    <3>1. gate.op \in Operations /\ gate.op # "none"
      BY <1>1, <1>2 DEF MemoryTypes, GateStates, Invs, AttachInv, GateShape
    <3> QED BY <3>1 DEF Operations
  <2>2. CASE gate.op \in {"start", "stop", "drain", "shutdown"}
    BY <1>2, <2>2 DEF Invs, AttachInv, Holder, Cleaning
  <2>3. CASE gate.op = "mutate"
    BY <1>2, <2>3 DEF Invs, AttachInv, Holder
  <2>4. CASE gate.op = "stale"
    BY <1>2, <2>4 DEF Invs, AttachInv, Holder, Cleaning
  <2> QED BY <2>1, <2>2, <2>3, <2>4
<1>11. \A g \in forgets' : g \notin Gone' => account'.owner \in {None, g}
  BY <1>2, <1>5, <1>9, StepFacts DEF Invs, FenceInv, Remembered
<1>12. Attached' # NoSession =>
        /\ opener'[Attached'] \notin Gone' => account'.owner \in {None, opener'[Attached']}
        /\ room'.owner # None => room'.owner = opener'[Attached']
  BY <1>2, <1>5, <1>9, StepFacts DEF Invs, FenceInv, Remembered
<1>13. account'.current # NoSession =>
        /\ opener'[account'.current] \notin Gone' => account'.owner = opener'[account'.current]
        /\ exec'[account'.current].phase = "started" /\ ~account'.stale =>
             account'.owner = opener'[account'.current]
  <2> SUFFICES ASSUME account.current # NoSession
               PROVE  /\ opener[account.current] \notin Gone' => account'.owner = opener[account.current]
                      /\ exec'[account.current].phase = "started" /\ ~account.stale =>
                           account'.owner = opener[account.current]
    BY <1>5, StepFacts
  <2>1. /\ Attached = account.current
        /\ opener[account.current] \in Known \ {None}
        /\ account.current \in SessionIds
    BY StepFacts
  <2>2. /\ opener[account.current] \notin Gone => account.owner = opener[account.current]
        /\ exec[account.current].phase = "started" /\ ~account.stale =>
             account.owner = opener[account.current]
    BY DEF Invs, FenceInv, Remembered
  <2>3. opener[account.current] \notin Gone' => account'.owner = opener[account.current]
    BY <1>3, <1>5, <1>9, <2>1, <2>2
  <2>4. ASSUME exec'[account.current].phase = "started", ~account.stale
        PROVE  account'.owner = opener[account.current]
    <3>1. account.current # gate.session
      BY <1>7, <2>1, <2>4
    <3> QED BY <1>10, <2>1, <2>4, <3>1
  <2> QED BY <2>3, <2>4
<1>14. account'.stale =>
        /\ account'.current \in {NoSession, account'.target}
        /\ account'.pending # NoSession => account'.target \in {NoSession, account'.pending}
        /\ account'.target # NoSession =>
             \/ account'.staleRelease \in {None, opener'[account'.target]}
             \/ opener'[account'.target] \in Gone'
  BY <1>5, <1>9, StepFacts DEF Invs, FenceInv, Remembered
<1>15. LET s == account'.pending IN
      /\ s # NoSession
      /\ account'.owner = None \/ (account'.stale /\ s # account'.target)
      /\ opener'[s] \notin Gone'
      => room'.owner = opener'[s] /\ opener'[s] \notin forgets'
  <2> SUFFICES ASSUME account.pending # NoSession,
                      account'.owner = None \/ (account.stale /\ account.pending # account.target),
                      opener[account.pending] \notin Gone'
               PROVE  room.owner = opener[account.pending] /\ opener[account.pending] \notin forgets
    BY <1>2, <1>5, StepFacts
  <2>1. Attached = account.pending /\ opener[account.pending] \in Known \ {None}
    BY StepFacts
  <2>2. opener[account.pending] \notin Gone
    BY <1>9, <2>1
  <2>3. gate.session # account.pending
    BY <1>4, <2>2
  <2>4. account.stale /\ account.pending # account.target
    BY <1>10, <2>1, <2>3
  <2> QED BY <2>2, <2>4 DEF Invs, FenceInv, Remembered
<1>16. Remembered'
  BY <1>11, <1>12, <1>13, <1>14, <1>15 DEF Remembered
<1>17. Handled'
  <2>1. gate.op = "drain" => gate.session # NoSession /\ gate.claim = opener'[gate.session]
    BY <1>2, StepFacts DEF Invs, FenceInv, Handled, Cleaning
  <2>2. account.stale /\ gate.op = "start" /\ gate.then = "claim" =>
           account.target = NoSession /\ forgets \subseteq Gone'
    BY StepFacts DEF Invs, FenceInv, Handled, Steady, Fades
  <2> QED BY <1>2, <1>5, <1>6, <2>1, <2>2 DEF Handled
<1> QED BY <1>8, <1>16, <1>17, MarkedKept DEF FenceInv

-----------------------------------------------------------------------------
\* A released session is detached, and then nothing is attached.
LEMMA DetachFences ==
  ASSUME Invs, Steady, UNCHANGED exec, Handled',
         account'.current = NoSession, account'.pending = NoSession,
         account'.owner \in {None, account.owner},
         ~account'.stale \/ /\ account.stale
                            /\ account'.target = account.target
                            /\ account'.staleRelease = account.staleRelease,
         \A g \in forgets' : g \in forgets \/ g \in Gone' \/ account'.owner \in {None, g}
  PROVE  FenceInv'
<1>1. Marked'
  BY ExecKept, MarkedKept
<1>2. Attached' = NoSession
  BY DEF Attached
<1>3. \A g \in forgets' : g \notin Gone' => account'.owner \in {None, g}
  BY StepFacts DEF Invs, FenceInv, Remembered, Steady, Fades
<1>4. account'.stale /\ account'.target # NoSession =>
        \/ account'.staleRelease \in {None, opener'[account'.target]}
        \/ opener'[account'.target] \in Gone'
  BY StepFacts DEF Invs, FenceInv, Remembered, Steady, Fades
<1>5. Remembered'
  BY <1>2, <1>3, <1>4 DEF Remembered
<1> QED BY <1>1, <1>5 DEF FenceInv

LEMMA DetachFields ==
  ASSUME Invs, Steady, gate.session = Attached
  PROVE  LET acc == Detach(account, gate.session) IN
         /\ acc.current = NoSession /\ acc.pending = NoSession
         /\ acc.owner = account.owner /\ acc.stale = account.stale
         /\ acc.target = account.target /\ acc.staleRelease = account.staleRelease
<1>1. MemoryTypes
  BY StepFacts
<1>2. /\ account.current # NoSession => gate.session = account.current
      /\ account.pending # NoSession => gate.session = account.pending
  BY StepFacts
<1> QED BY <1>1, <1>2 DEF Detach, MemoryTypes, AccountStates

LEMMA DoneFences ==
  ASSUME Invs, Steady,
         \/ Restarted \/ Renounced \/ StartFailed \/ Stopped
         \/ DrainReturns \/ ShutdownDetaches \/ ShutdownLeaves
  PROVE  FenceInv'
<1>1. MemoryTypes
  BY StepFacts
<1>2. /\ gate.at = "done" /\ UNCHANGED exec
      /\ gate.then \in {"restart", "claim", "refuse", "undo", "stop", "drain", "shutdown"}
  BY DEF Restarted, Renounced, StartFailed, Stopped, DrainReturns, ShutdownDetaches,
         ShutdownLeaves, DoneFor
<1>3. gate.op \in {"start", "stop", "drain", "shutdown"}
  BY <1>2 DEF Invs, AttachInv, GateShape, Serves, Cleaning
<1>4. gate.session = Attached
  BY <1>2, <1>3 DEF Invs, AttachInv, Holder, Cleaning
<1>5. CASE Restarted
  <2>1. account' = Detach(account, gate.session) /\ gate' = GateFor("start", "look") /\ UNCHANGED forgets
    BY <1>5 DEF Restarted
  <2>2. Handled'
    <3>1. HandsEmpty
      BY <2>1 DEF GateFor, FreeGate, HandsEmpty, Cleaning
    <3> QED BY <3>1, EmptyHandled
  <2> QED BY <1>2, <1>4, <2>1, <2>2, DetachFields, DetachFences
<1>6. CASE Renounced
  <2>1. gate.then = "claim" /\ gate' = GateFor("start", "claim") /\ UNCHANGED <<account, forgets>>
    BY <1>6 DEF Renounced, DoneFor
  <2>2. gate.session = NoSession /\ gate.op = "start"
    BY <1>2, <2>1 DEF Invs, AttachInv, GateShape, Serves, Cleaning
  <2>3. account.current = NoSession /\ account.pending = NoSession
    BY <1>4, <2>2, StepFacts
  <2>4. account.stale => account.target = NoSession /\ forgets \subseteq Gone'
    BY <2>1, <2>2, StepFacts DEF Invs, FenceInv, Handled, Steady, Fades
  <2>5. gate'.op = "start" /\ gate'.at = "claim"
    BY <2>1 DEF GateFor, FreeGate
  <2>6. Handled'
    BY <2>1, <2>4, <2>5 DEF Handled, Cleaning
  <2> QED BY <1>2, <2>1, <2>3, <2>6, DetachFences
<1>7. CASE StartFailed \/ Stopped
  <2>1. account' = Detach(account, gate.session) /\ gate' = FreeGate /\ UNCHANGED forgets
    BY <1>7 DEF StartFailed, Stopped
  <2>2. Handled'
    BY <2>1, EmptyHandled DEF FreeGate, HandsEmpty, Cleaning
  <2> QED BY <1>2, <1>4, <2>1, <2>2, DetachFields, DetachFences
<1>8. CASE DrainReturns
  <2>1. /\ account' = [Detach(account, gate.session) EXCEPT !.draining = FALSE]
        /\ forgets' = forgets \cup ({gate.claim} \ {None})
        /\ gate' = FreeGate
        /\ gate.then = "drain"
    BY <1>8 DEF DrainReturns, DoneFor
  <2>2. /\ account'.current = NoSession /\ account'.pending = NoSession
        /\ account'.owner = account.owner /\ account'.stale = account.stale
        /\ account'.target = account.target /\ account'.staleRelease = account.staleRelease
    <3>1. Detach(account, gate.session) \in AccountStates(Known, Begun)
      BY <1>1, DetachType DEF MemoryTypes, Begun
    <3> QED BY <1>4, <2>1, <3>1, DetachFields DEF AccountStates
  <2>3. gate.claim \in Gone' \/ account.owner = gate.claim
    <3>1. gate.op = "drain"
      BY <1>2, <2>1 DEF Invs, AttachInv, GateShape, Serves, Cleaning
    <3>2. gate.claim = IF gate.session = NoSession THEN account.owner ELSE opener[gate.session]
      BY <1>2, <3>1 DEF Invs, FenceInv, Handled, Cleaning
    <3>3. gate.session # NoSession => opener[gate.session] \in Gone'
      <4>1. gate.session # NoSession => exec[gate.session].phase = "released"
        BY <1>2 DEF Invs, AttachInv, Stage
      <4> QED BY <4>1, StepFacts DEF Invs, FenceInv, Marked, Steady, Fades
    <3> QED BY <3>2, <3>3
  <2>4. Handled'
    BY <2>1, EmptyHandled DEF FreeGate, HandsEmpty, Cleaning
  <2> QED BY <1>2, <2>1, <2>2, <2>3, <2>4, DetachFences
<1>9. CASE ShutdownDetaches
  <2>1. account' = Detach(account, gate.session) /\ gate' = GateFor("shutdown", "look") /\ UNCHANGED forgets
    BY <1>9 DEF ShutdownDetaches
  <2>2. Handled'
    <3>1. HandsEmpty
      BY <2>1 DEF GateFor, FreeGate, HandsEmpty, Cleaning
    <3> QED BY <3>1, EmptyHandled
  <2> QED BY <1>2, <1>4, <2>1, <2>2, DetachFields, DetachFences
<1>10. CASE ShutdownLeaves
  <2>1. gate' = FreeGate /\ UNCHANGED <<account, room, forgets>>
    BY <1>10 DEF ShutdownLeaves
  <2> QED BY <1>2, <2>1, ExecKept, FreeFences DEF SameMemory
<1> QED BY <1>5, <1>6, <1>7, <1>8, <1>9, <1>10

\* The end of a stale cleanup.
LEMMA StaleFences ==
  ASSUME Invs, Steady, StaleFinishes
  PROVE  FenceInv'
<1> DEFINE forgotten == IF account.target # NoSession
                        THEN account.owner = opener[account.target] \/ exec[account.target].lost
                        ELSE gate.claim = None
           dropped == IF forgotten THEN account.owner ELSE None
<1>1. MemoryTypes
  BY StepFacts
<1>2. /\ gate.at = "done" /\ gate.then = "stale" /\ UNCHANGED <<exec, room>> /\ gate' = FreeGate
      /\ account' = [DropOwner(Detach(account, account.target), dropped)
                       EXCEPT !.stale = FALSE, !.staleRelease = None, !.target = NoSession]
      /\ forgets' = IF account.target # NoSession THEN forgets \cup {opener[account.target]} ELSE forgets
  BY DEF StaleFinishes, DoneFor
<1> HIDE DEF dropped
<1>3. gate.op = "stale" /\ account.stale /\ gate.session = account.target
  BY <1>2 DEF Invs, AttachInv, GateShape, Serves, Holder, Cleaning
<1>4. Handled'
  BY <1>2, EmptyHandled DEF FreeGate, HandsEmpty, Cleaning
<1>5. /\ account'.owner \in {None, account.owner}
      /\ ~account'.stale
      /\ account'.current = IF account.current = account.target THEN NoSession ELSE account.current
      /\ account'.pending = IF account.pending = account.target THEN NoSession ELSE account.pending
  <2> DEFINE acc == Detach(account, account.target)
  <2>1. acc \in AccountStates(Known, Begun)
    BY <1>1, DetachType DEF MemoryTypes, Begun
  <2>2. /\ acc.owner = account.owner
        /\ acc.current = IF account.current = account.target THEN NoSession ELSE account.current
        /\ acc.pending = IF account.pending = account.target THEN NoSession ELSE account.pending
    BY <1>1 DEF Detach, MemoryTypes, AccountStates
  <2> HIDE DEF acc
  <2> DEFINE acd == DropOwner(acc, dropped)
  <2>3. acd \in AccountStates(Known, Begun)
    BY <2>1, DropOwnerType DEF Known
  <2>4. acd.owner \in {None, acc.owner} /\ acd.current = acc.current /\ acd.pending = acc.pending
    BY <2>1 DEF DropOwner, AccountStates
  <2>5. account' = [acd EXCEPT !.stale = FALSE, !.staleRelease = None, !.target = NoSession]
    BY <1>2 DEF acc
  <2> HIDE DEF acd
  <2>6. /\ account'.owner = acd.owner /\ account'.current = acd.current
        /\ account'.pending = acd.pending /\ account'.stale = FALSE
    BY <2>3, <2>5 DEF AccountStates
  <2> QED BY <2>2, <2>4, <2>6
<1>6. /\ account.current \in {NoSession, account.target}
      /\ account.pending # NoSession => account.target \in {NoSession, account.pending}
  BY <1>3 DEF Invs, FenceInv, Remembered
<1>7. CASE account.target # NoSession
  <2>1. account'.current = NoSession /\ account'.pending = NoSession
    BY <1>5, <1>6, <1>7
  <2>2. opener[account.target] \in Gone'
    <3>1. exec[account.target].phase = "released"
      BY <1>2, <1>3, <1>7 DEF Invs, AttachInv, Stage
    <3> QED BY <1>7, <3>1, StepFacts DEF Invs, FenceInv, Marked, Steady, Fades
  <2> QED BY <1>2, <1>4, <1>5, <1>7, <2>1, <2>2, DetachFences
<1>8. CASE account.target = NoSession
  <2>1. /\ account'.current = NoSession /\ account.current = NoSession
        /\ account'.pending = account.pending
        /\ Attached' = account.pending
        /\ forgets' = forgets
    BY <1>2, <1>5, <1>6, <1>8 DEF Attached
  <2>2. Marked'
    BY <1>2, ExecKept, MarkedKept
  <2>3. \A f \in Known \ {None} : f \notin Gone' => f \notin Gone
    BY DEF Steady, Fades
  <2>4. \A g \in forgets' : g \notin Gone' => account'.owner \in {None, g}
    BY <1>5, <2>1, <2>3, StepFacts DEF Invs, FenceInv, Remembered
  <2>5. account.pending # NoSession =>
           /\ opener'[account.pending] = opener[account.pending]
           /\ opener[account.pending] \notin Gone' => account'.owner \in {None, opener[account.pending]}
           /\ room.owner # None => room.owner = opener[account.pending]
           /\ opener[account.pending] \notin Gone' =>
                room.owner = opener[account.pending] /\ opener[account.pending] \notin forgets
    BY <1>3, <1>5, <1>8, <2>3, StepFacts DEF Invs, FenceInv, Remembered
  <2>6. Remembered'
    BY <1>2, <1>5, <2>1, <2>4, <2>5 DEF Remembered
  <2> QED BY <1>4, <2>2, <2>6 DEF FenceInv
<1> QED BY <1>7, <1>8

-----------------------------------------------------------------------------
\* The loss of the attached session's fence is noticed.
LEMMA BeginStaleFences ==
  ASSUME Invs, Steady, UNCHANGED <<room, forgets>>, NEW release,
         BeginStale(Attached, release), Handled',
         ~account.stale /\ Attached # NoSession =>
            release = opener[Attached] \/ opener[Attached] \in Gone',
         account.stale /\ account.target # NoSession /\ release # None =>
            release = opener[account.target] \/ opener[account.target] \in Gone'
  PROVE  FenceInv'
<1>1. MemoryTypes
  BY StepFacts
<1>2. \A f \in Known \ {None} : f \notin Gone' => f \notin Gone
  BY DEF Steady, Fades
<1>3. /\ account'.owner = account.owner
      /\ account'.current = account.current
      /\ account'.pending = account.pending
      /\ account'.stale
      /\ account'.target = IF account.stale THEN account.target ELSE Attached
      /\ account'.staleRelease = IF account.stale /\ account.staleRelease # None
                                 THEN account.staleRelease ELSE release
      /\ Attached' = Attached
  <2>1. CASE account.stale
    BY <1>1, <2>1 DEF BeginStale, MemoryTypes, AccountStates, Attached
  <2>2. CASE ~account.stale
    BY <1>1, <2>2 DEF BeginStale, MemoryTypes, AccountStates, Attached
  <2> QED BY <2>1, <2>2
<1>4. ExecFine
  <2>1. CASE account.stale
    BY <2>1, ExecKept DEF BeginStale
  <2>2. CASE ~account.stale
    <3> DEFINE lost == release = None
    <3>1. exec' = [s \in SessionIds |->
                     IF s = Attached THEN [exec[s] EXCEPT !.fence = release, !.lost = lost] ELSE exec[s]]
      BY <2>2 DEF BeginStale
    <3>2. lost => release = None
      OBVIOUS
    <3> HIDE DEF lost
    <3>3. \A s \in SessionIds :
            /\ exec'[s].phase = exec[s].phase
            /\ \/ exec'[s].lost = exec[s].lost /\ exec'[s].fence = exec[s].fence
               \/ s = Attached /\ exec'[s].fence = release /\ exec'[s].lost = lost
      BY <1>1, <3>1 DEF MemoryTypes, ExecStates
    <3>4. NoSession \notin SessionIds
      BY StepFacts
    <3>5. Attached \in SessionIds /\ exec[Attached].phase # "none" => opener[Attached] \in Known \ {None}
      BY StepFacts
    <3> QED
      BY <2>2, <3>2, <3>3, <3>4, <3>5, StepFacts DEF ExecFine, Invs, FenceInv, Marked, Steady, Fades
  <2> QED BY <2>1, <2>2
<1>5. \A g \in forgets' : g \notin Gone' => account'.owner \in {None, g}
  BY <1>2, <1>3, StepFacts DEF Invs, FenceInv, Remembered
<1>6. Attached' # NoSession =>
        /\ opener'[Attached'] \notin Gone' => account'.owner \in {None, opener'[Attached']}
        /\ room'.owner # None => room'.owner = opener'[Attached']
  BY <1>2, <1>3, StepFacts DEF Invs, FenceInv, Remembered
<1>7. account'.current # NoSession /\ opener'[account'.current] \notin Gone' =>
        account'.owner = opener'[account'.current]
  BY <1>2, <1>3, StepFacts DEF Invs, FenceInv, Remembered
<1>8. /\ account'.current \in {NoSession, account'.target}
      /\ account'.pending # NoSession => account'.target \in {NoSession, account'.pending}
  BY <1>3, StepFacts DEF Invs, FenceInv, Remembered
<1>9. account'.target # NoSession =>
        \/ account'.staleRelease \in {None, opener'[account'.target]}
        \/ opener'[account'.target] \in Gone'
  <2>1. CASE account.stale
    BY <1>2, <1>3, <2>1, StepFacts DEF Invs, FenceInv, Remembered
  <2>2. CASE ~account.stale
    BY <1>3, <2>2, StepFacts
  <2> QED BY <2>1, <2>2
<1>10. LET s == account'.pending IN
      /\ s # NoSession
      /\ account'.owner = None \/ (account'.stale /\ s # account'.target)
      /\ opener'[s] \notin Gone'
      => room'.owner = opener'[s] /\ opener'[s] \notin forgets'
  BY <1>2, <1>3, StepFacts DEF Invs, FenceInv, Remembered
<1>11. Remembered'
  BY <1>3, <1>5, <1>6, <1>7, <1>8, <1>9, <1>10 DEF Remembered
<1> QED BY <1>4, <1>11, MarkedKept DEF FenceInv

\* The heartbeat and the worker notice a loss beside the holder of the gate, and a
\* request to forget a fence is granted.
LEMMA BesideFences ==
  ASSUME Invs, Steady, BeatLoses \/ WorkerLoses \/ \E f \in forgets : Forget(f)
  PROVE  FenceInv'
<1>1. MemoryTypes /\ None \in Known
  BY StepFacts DEF Known
<1>2. \A f \in Known \ {None} : f \notin Gone' => f \notin Gone
  BY DEF Steady, Fades
<1>3. ASSUME UNCHANGED <<gate, room, forgets>>, BeginStale(Attached, None) \/ Attached # NoSession,
             SameAccount, account'.owner = account.owner, account'.stale,
             ~account.stale => account'.target = Attached,
             Attached = NoSession => account.owner \in Gone /\ account.owner # None
      PROVE  Handled'
  <2>1. /\ gate.session # NoSession /\ gate.at \in {"end", "release", "drop"} =>
             gate.fence = opener'[gate.session] \/ opener'[gate.session] \in Gone'
        /\ gate.at = "drop" => gate.fence \in Gone'
        /\ gate.at \in {"release", "drop"} => gate.op # "drain" \/ gate.session # NoSession
    <3>1. gate.fence \in Known
      BY <1>1 DEF MemoryTypes, GateStates
    <3>2. None \notin Gone
      BY SentinelAssumption DEF SentinelAssumption, Gone, None
    <3> QED BY <1>2, <3>1, <3>2, StepFacts DEF Invs, FenceInv, Handled
  <2>2. /\ gate.at \in {"admit", "open", "publish"} =>
             account'.owner = gate.claim /\ room'.owner = gate.claim
        /\ gate.at \in Cleaning /\ gate.op = "drain" =>
             gate.claim = IF gate.session = NoSession THEN account'.owner ELSE opener'[gate.session]
    BY <1>3, StepFacts DEF Invs, FenceInv, Handled
  <2>3. gate.at \in {"publish", "undo", "write"} /\ Attached' # NoSession =>
           opener'[Attached'] = gate.claim
    <3>1. Attached' = Attached
      BY <1>3 DEF SameAccount, Attached
    <3> QED BY <3>1, StepFacts DEF Invs, FenceInv, Handled
  <2>4. account'.stale /\ gate.op = "start" =>
       /\ gate.at = "claim" \/ gate.then = "claim" =>
            account'.target = NoSession /\ forgets \subseteq Gone'
       /\ gate.at \in {"admit", "open"} =>
            account'.target = NoSession /\ (gate.claim \in Gone' \/ gate.claim \notin forgets)
    <3>1. CASE account.stale
      <4>1. account'.target = account.target
        BY <1>3, <3>1 DEF SameAccount
      <4>2. gate.at \in {"admit", "open"} => gate.claim \in Known \ {None}
        BY <1>1 DEF MemoryTypes, GateStates, Invs, RuntimeInv, Ready
      <4> QED BY <1>2, <3>1, <4>1, <4>2, StepFacts DEF Invs, FenceInv, Handled
    <3>2. CASE ~account.stale
      <4> SUFFICES ASSUME gate.op = "start",
                          gate.at \in {"claim", "admit", "open"} \/ gate.then = "claim"
                   PROVE  /\ account'.target = NoSession
                          /\ forgets \subseteq Gone'
                          /\ gate.at \in {"admit", "open"} => gate.claim \in Gone'
        OBVIOUS
      <4>1. Attached = NoSession
        <5>1. CASE gate.at \in {"claim", "admit", "open"}
          BY <5>1 DEF Invs, AttachInv, Holder
        <5>2. CASE gate.then = "claim"
          <6>1. gate.at \in Cleaning /\ gate.session = NoSession
            BY <5>2 DEF Invs, AttachInv, GateShape
          <6> QED BY <6>1 DEF Invs, AttachInv, Holder
        <5> QED BY <5>1, <5>2
      <4>2. account.owner \in Gone /\ account.owner # None /\ account.owner \in Known
        BY <1>1, <1>3, <4>1 DEF MemoryTypes, AccountStates
      <4>3. forgets \subseteq Gone'
        BY <1>2, <4>2, StepFacts DEF Invs, FenceInv, Remembered
      <4>4. gate.at \in {"admit", "open"} => gate.claim \in Gone'
        BY <1>2, <4>2 DEF Invs, FenceInv, Handled
      <4> QED BY <1>3, <3>2, <4>1, <4>3, <4>4
    <3> QED BY <3>1, <3>2
  <2> QED BY <1>3, <2>1, <2>2, <2>3, <2>4 DEF Handled
<1>4. CASE BeatLoses
  <2>1. /\ UNCHANGED <<gate, room, forgets>>
        /\ beat.fence # None /\ ~Holds(beat.fence)
        /\ IF account.owner = beat.fence THEN BeginStale(Attached, None) ELSE UNCHANGED <<account, exec>>
    BY <1>4 DEF BeatLoses, Invs, RuntimeInv, Ready
  <2>2. CASE account.owner # beat.fence
    BY <2>1, <2>2, ExecKept, QuietFences DEF SameMemory
  <2>3. CASE account.owner = beat.fence
    <3>1. BeginStale(Attached, None) /\ account.owner # None
      BY <2>1, <2>3
    <3>2. account.owner \in Gone
      BY <1>1, <2>1, <2>3, IssuedType
      DEF MemoryTypes, AccountStates, Known, Gone, Invs, RuntimeInv, None
    <3>3. SameAccount /\ account'.stale /\ account'.owner = account.owner
      BY <1>1, <3>1, BeginStaleGives DEF Invs
    <3>4. ~account.stale => account'.target = Attached
      BY <1>1, <3>1 DEF BeginStale, MemoryTypes, AccountStates
    <3>5. Handled'
      BY <1>3, <2>1, <3>1, <3>2, <3>3, <3>4
    <3>6. Attached # NoSession => opener[Attached] \in Gone'
      BY <1>2, <3>1, <3>2, StepFacts DEF Invs, FenceInv, Remembered
    <3> QED BY <1>1, <2>1, <3>1, <3>5, <3>6, BeginStaleFences
  <2> QED BY <2>2, <2>3
<1>5. CASE WorkerLoses
  <2> DEFINE release == IF account.owner # opener[account.current] THEN account.owner ELSE None
  <2>1. /\ UNCHANGED <<gate, room, forgets>>
        /\ account.current # NoSession /\ ~account.stale
        /\ ~Holds(opener[account.current])
        /\ BeginStale(account.current, release)
    BY <1>5 DEF WorkerLoses
  <2>2. Attached = account.current /\ opener[Attached] \in Known \ {None} /\ Attached # NoSession
    BY <2>1, StepFacts
  <2>3. opener[Attached] \in Gone
    BY <2>1, <2>2, IssuedType DEF Gone, Known, Invs, RuntimeInv
  <2>4. release \in Known
    BY <1>1 DEF MemoryTypes, AccountStates
  <2> HIDE DEF release
  <2>5. BeginStale(Attached, release)
    BY <2>1, <2>2
  <2>6. SameAccount /\ account'.stale /\ account'.owner = account.owner
    BY <2>5, BeginStaleGives DEF Invs
  <2>7. account'.target = Attached
    BY <1>1, <2>1, <2>5 DEF BeginStale, MemoryTypes, AccountStates
  <2>8. Handled'
    BY <1>3, <2>1, <2>2, <2>6, <2>7
  <2> QED BY <1>2, <2>1, <2>2, <2>3, <2>4, <2>5, <2>8, BeginStaleFences
<1>6. ASSUME NEW f \in forgets, Forget(f)
      PROVE  FenceInv'
  <2>1. /\ ~room.applying /\ forgets' = forgets \ {f}
        /\ room' = IF room.owner = f THEN [room EXCEPT !.owner = None, !.active = FALSE] ELSE room
        /\ UNCHANGED <<account, exec, gate>>
    BY <1>6 DEF Forget
  <2>2. room'.owner = IF room.owner = f THEN None ELSE room.owner
    BY <1>1, <2>1 DEF MemoryTypes, RoomStates
  <2>3. gate.op # "start" /\ gate.at \notin {"admit", "open", "publish"}
    BY <2>1 DEF Invs, AttachInv, GateShape
  <2>4. Marked'
    BY <2>1, ExecKept, MarkedKept
  <2>5. Attached' = Attached
    BY <2>1 DEF Attached
  <2>6. \A g \in forgets' : g \notin Gone' => account.owner \in {None, g}
    BY <1>2, <2>1, StepFacts DEF Invs, FenceInv, Remembered
  <2>7. Attached # NoSession =>
          /\ opener'[Attached] \notin Gone' => account.owner \in {None, opener'[Attached]}
          /\ room'.owner # None => room'.owner = opener'[Attached]
    BY <1>2, <2>2, StepFacts DEF Invs, FenceInv, Remembered
  <2>8. account.current # NoSession =>
          /\ opener'[account.current] \notin Gone' => account.owner = opener'[account.current]
          /\ exec[account.current].phase = "started" /\ ~account.stale =>
               account.owner = opener'[account.current]
    BY <1>2, StepFacts DEF Invs, FenceInv, Remembered
  <2>9. account.stale =>
          /\ account.current \in {NoSession, account.target}
          /\ account.pending # NoSession => account.target \in {NoSession, account.pending}
          /\ account.target # NoSession =>
               \/ account.staleRelease \in {None, opener'[account.target]}
               \/ opener'[account.target] \in Gone'
    BY <1>2, StepFacts DEF Invs, FenceInv, Remembered
  <2>10. LET s == account.pending IN
         /\ s # NoSession
         /\ account.owner = None \/ (account.stale /\ s # account.target)
         /\ opener'[s] \notin Gone'
         => room'.owner = opener'[s] /\ opener'[s] \notin forgets'
    BY <1>2, <2>1, <2>2, StepFacts DEF Invs, FenceInv, Remembered
  <2>11. Remembered'
    BY <2>1, <2>5, <2>6, <2>7, <2>8, <2>9, <2>10 DEF Remembered
  <2>12. Handled'
    <3>1. /\ gate.session # NoSession /\ gate.at \in {"end", "release", "drop"} =>
               gate.fence = opener'[gate.session] \/ opener'[gate.session] \in Gone'
          /\ gate.at = "drop" => gate.fence \in Gone'
      <4>1. gate.fence \in Known
        BY <1>1 DEF MemoryTypes, GateStates
      <4>2. None \notin Gone
        BY SentinelAssumption DEF SentinelAssumption, Gone, None
      <4> QED BY <1>2, <4>1, <4>2, StepFacts DEF Invs, FenceInv, Handled
    <3>2. /\ gate.at \in {"undo", "write"} /\ Attached # NoSession => opener'[Attached] = gate.claim
          /\ gate.at \in {"release", "drop"} => gate.op # "drain" \/ gate.session # NoSession
          /\ gate.at \in Cleaning /\ gate.op = "drain" =>
               gate.claim = IF gate.session = NoSession THEN account.owner ELSE opener'[gate.session]
      BY StepFacts DEF Invs, FenceInv, Handled
    <3> QED BY <2>1, <2>3, <2>5, <3>1, <3>2 DEF Handled
  <2> QED BY <2>4, <2>11, <2>12 DEF FenceInv
<1> QED BY <1>4, <1>5, <1>6

\* MutateRoom.
LEMMA MutateFences ==
  ASSUME Invs, Steady, RuntimeInv',
         \/ MutateDisabled \/ MutateConflicts \/ MutateWrites \/ MutateLoses \/ MutateReturns
         \/ \E answered \in BOOLEAN : MutateClaims(answered)
  PROVE  FenceInv'
<1>1. MemoryTypes
  BY StepFacts
<1>2. \A f \in Known \ {None} : f \notin Gone' => f \notin Gone
  BY DEF Steady, Fades
<1>3. gate' = FreeGate => Handled'
  BY EmptyHandled DEF FreeGate, HandsEmpty, Cleaning
<1>4. ASSUME At("mutate", "write"), gate' = Written
      PROVE  /\ gate'.op = gate.op /\ gate.op = "mutate" /\ gate'.session = NoSession
             /\ gate'.at \in {"release", "done"}
             /\ Handled'
  <2>1. gate.session = NoSession
    BY <1>4 DEF At, Invs, AttachInv, GateShape, Cleaning
  <2>2. /\ gate'.op = "mutate" /\ gate'.session = NoSession
        /\ gate'.at \in {"release", "done"}
    BY <1>1, <1>4, <2>1 DEF Written, ReleaseThen, Goto, At, MemoryTypes, GateStates
  <2>3. Handled'
    BY <2>2 DEF Handled
  <2> QED BY <1>4, <2>2, <2>3 DEF At
<1>5. CASE MutateDisabled \/ MutateReturns
  <2>1. SameMemory /\ UNCHANGED exec /\ gate' = FreeGate
    BY <1>1, <1>5 DEF MutateDisabled, MutateReturns, MarkDisabled, SameMemory, MemoryTypes, AccountStates
  <2> QED BY <2>1, ExecKept, FreeFences
<1>6. CASE MutateConflicts
  <2>1. /\ gate' = FreeGate /\ UNCHANGED <<room, forgets, owner>>
        /\ owner[Account].token # Me
        /\ BeginStale(Attached, None) \/ UNCHANGED <<account, exec>>
    BY <1>6 DEF MutateConflicts, database, vars
  <2>2. \A f \in Known \ {None} : f \in Gone'
    <3>1. \A f \in Known \ {None} : f \in Fences /\ f.account = Account /\ f.token = Me
      BY IssuedType DEF Invs, RuntimeInv, Known
    <3> QED BY <2>1, <3>1 DEF Gone, Holds
  <2>3. Attached # NoSession => opener[Attached] \in Gone'
    BY <2>2, StepFacts
  <2>4. CASE BeginStale(Attached, None)
    BY <1>3, <2>1, <2>3, <2>4, BeginStaleFences
  <2>5. CASE UNCHANGED <<account, exec>>
    BY <2>1, <2>5, ExecKept, FreeFences DEF SameMemory
  <2> QED BY <2>1, <2>4, <2>5
<1>7. CASE MutateWrites
  <2>1. At("mutate", "write") /\ gate' = Written /\ UNCHANGED <<account, exec, room, forgets>>
    BY <1>7 DEF MutateWrites
  <2> QED BY <1>4, <2>1, ForwardFences
<1>8. CASE MutateLoses
  <2>1. /\ At("mutate", "write") /\ gate' = Written /\ UNCHANGED <<room, forgets>>
        /\ ~Holds(gate.claim) /\ BeginStale(Attached, None)
    BY <1>8 DEF MutateLoses
  <2>2. Attached # NoSession => opener[Attached] \in Gone'
    <3>1. Attached # NoSession => opener[Attached] = gate.claim
      BY <2>1 DEF At, Invs, FenceInv, Handled
    <3>2. Attached # NoSession => opener[Attached] \in Fences /\ opener[Attached] \in Known \ {None}
      BY StepFacts, IssuedType DEF Invs, RuntimeInv, Known
    <3> QED BY <1>2, <2>1, <3>1, <3>2 DEF Gone
  <2> QED BY <1>4, <2>1, <2>2, BeginStaleFences
<1>9. ASSUME NEW answered \in BOOLEAN, MutateClaims(answered)
      PROVE  FenceInv'
  <2> DEFINE f == Fence(Account, Me, owner'[Account].epoch)
             reconciles == ClaimReconciles(Account)
             claimed == [account EXCEPT !.owner = f, !.reconcile = reconciles]
             written == [claimed EXCEPT !.disabled = FALSE, !.draining = FALSE, !.operation = TRUE]
             kept == [claimed EXCEPT !.staleRelease = IF @ = None THEN f ELSE @]
  <2>1. /\ gate.op = "mutate" /\ gate.at = "claim" /\ UNCHANGED <<room, forgets>>
        /\ \/ gate' = FreeGate /\ UNCHANGED <<account, exec>>
           \/ answered /\ Superseded(f) /\ gate' = FreeGate /\ BeginStale(Attached, f)
           \/ /\ answered /\ ~Superseded(f) /\ account.stale
              /\ gate' = FreeGate /\ account' = kept /\ UNCHANGED exec
           \/ /\ answered /\ ~Superseded(f) /\ ~account.stale
              /\ gate' = [Goto("write") EXCEPT !.claim = f] /\ account' = written /\ UNCHANGED exec
    BY <1>9 DEF MutateClaims, At
  <2>2. answered =>
          /\ f \in Known' \ {None}
          /\ \A g \in Known' \ {None} : g \notin Gone' => g = f
    BY <1>9, ClaimIsHeld DEF MutateClaims, Invs
  <2> HIDE DEF f, reconciles
  <2>3. forgets \subseteq Known' \ {None}
    BY <2>1 DEF RuntimeInv, Grounded, MemoryIn
  <2>4. \A s \in {Attached, account.target} : answered /\ s # NoSession =>
           opener[s] \in Gone' \/ opener[s] = f
    <3>1. \A s \in {Attached, account.target} : s # NoSession => opener[s] \in Known' \ {None}
      BY StepFacts DEF Steady, Keeps
    <3> QED BY <2>2, <3>1
  <2>5. CASE gate' = FreeGate /\ UNCHANGED <<account, exec>>
    BY <2>1, <2>5, ExecKept, FreeFences DEF SameMemory
  <2>6. CASE answered /\ Superseded(f) /\ gate' = FreeGate /\ BeginStale(Attached, f)
    <3>1. Attached # NoSession => opener[Attached] \in Gone'
      BY <2>4, <2>6 DEF Superseded
    <3>2. account.target # NoSession => f = opener[account.target] \/ opener[account.target] \in Gone'
      BY <2>4, <2>6
    <3> QED BY <1>3, <2>1, <2>6, <3>1, <3>2, BeginStaleFences
  <2>7. ASSUME answered, ~Superseded(f), UNCHANGED exec,
               (account' = kept /\ account.stale) \/ (account' = written /\ ~account.stale),
               Handled'
        PROVE  FenceInv'
    <3>1. /\ account'.owner = f
          /\ account'.current = account.current
          /\ account'.pending = account.pending
          /\ account'.stale = account.stale
          /\ account'.target = account.target
          /\ account'.stale => account'.staleRelease =
               IF account.staleRelease = None THEN f ELSE account.staleRelease
          /\ Attached' = Attached
      <4>1. CASE account' = kept /\ account.stale
        BY <1>1, <4>1 DEF MemoryTypes, AccountStates, Attached
      <4>2. CASE account' = written /\ ~account.stale
        BY <1>1, <4>2 DEF MemoryTypes, AccountStates, Attached
      <4> QED BY <2>7, <4>1, <4>2
    <3>2. Marked'
      BY <2>7, ExecKept, MarkedKept
    <3>3. Attached # NoSession => opener[Attached] = f
      BY <2>7 DEF Superseded
    <3>4. \A g \in forgets' : g \notin Gone' => account'.owner \in {None, g}
      BY <2>1, <2>2, <2>3, <2>7, <3>1
    <3>5. Attached' # NoSession =>
            /\ opener'[Attached'] \notin Gone' => account'.owner \in {None, opener'[Attached']}
            /\ room'.owner # None => room'.owner = opener'[Attached']
      BY <2>1, <3>1, <3>3, StepFacts DEF Invs, FenceInv, Remembered
    <3>6. account'.current # NoSession => account'.owner = opener'[account'.current]
      BY <3>1, <3>3, StepFacts
    <3>7. account'.stale =>
            /\ account'.current \in {NoSession, account'.target}
            /\ account'.pending # NoSession => account'.target \in {NoSession, account'.pending}
            /\ account'.target # NoSession =>
                 \/ account'.staleRelease \in {None, opener'[account'.target]}
                 \/ opener'[account'.target] \in Gone'
      BY <1>2, <2>4, <2>7, <3>1, StepFacts DEF Invs, FenceInv, Remembered
    <3>8. LET s == account'.pending IN
            /\ s # NoSession
            /\ account'.owner = None \/ (account'.stale /\ s # account'.target)
            /\ opener'[s] \notin Gone'
            => room'.owner = opener'[s] /\ opener'[s] \notin forgets'
      BY <1>2, <2>1, <2>2, <2>7, <3>1, StepFacts DEF Invs, FenceInv, Remembered
    <3>9. Remembered'
      BY <3>1, <3>4, <3>5, <3>6, <3>7, <3>8 DEF Remembered
    <3> QED BY <2>7, <3>2, <3>9 DEF FenceInv
  <2>8. CASE /\ answered /\ ~Superseded(f) /\ account.stale
             /\ gate' = FreeGate /\ account' = kept /\ UNCHANGED exec
    <3>1. Handled'
      BY <1>3, <2>8
    <3> HIDE DEF kept, written
    <3>2. (account' = kept /\ account.stale) \/ (account' = written /\ ~account.stale)
      BY <2>8, Zenon
    <3>3. answered /\ ~Superseded(f) /\ UNCHANGED exec
      BY <2>8, Zenon
    <3> QED BY <2>7, <3>1, <3>2, <3>3, Zenon
  <2>9. CASE /\ answered /\ ~Superseded(f) /\ ~account.stale
             /\ gate' = [Goto("write") EXCEPT !.claim = f] /\ account' = written /\ UNCHANGED exec
    <3>1. gate'.op = "mutate" /\ gate'.at = "write" /\ gate'.claim = f
      BY <1>1, <2>1, <2>9 DEF Goto, MemoryTypes, GateStates
    <3>2. Attached' = Attached
      BY <1>1, <2>9 DEF MemoryTypes, AccountStates, Attached
    <3>3. Attached # NoSession => opener'[Attached] = f
      BY <2>9, StepFacts DEF Superseded
    <3>4. Handled'
      BY <3>1, <3>2, <3>3 DEF Handled, Cleaning
    <3> QED BY <2>7, <2>9, <3>4
  <2> QED BY <2>1, <2>5, <2>6, <2>8, <2>9
<1> QED BY <1>5, <1>6, <1>7, <1>8, <1>9

-----------------------------------------------------------------------------
LEMMA FenceInit == RuntimeInit => FenceInv
<1> SUFFICES ASSUME RuntimeInit PROVE FenceInv
  OBVIOUS
<1>1. /\ account.current = NoSession /\ account.pending = NoSession /\ ~account.stale
      /\ forgets = {}
      /\ \A s \in SessionIds : exec[s].phase = "none"
      /\ gate.op = "none" /\ gate.at = "none" /\ gate.then = "none"
  BY DEF RuntimeInit, FreeGate, NewSession
<1> QED BY <1>1 DEF FenceInv, Marked, Remembered, Handled, Cleaning, Attached

LEMMA FenceStep ==
  ASSUME Invs, [RuntimeNext]_all
  PROVE  FenceInv'
<1>1. Steady /\ RuntimeInv'
  <2>1. [Next]_vars
    BY StepImplements DEF Invs
  <2> QED BY <2>1, RuntimeStep, StepKeeps, FencesFade DEF Invs, Steady
<1>2. CASE Operate
  <2> USE DEF Operate, Succeed, Fail
  <2>1. CASE \/ StartCleansUp \/ StartUndoes \/ StopLooks \/ DrainLooks \/ StaleLooks
             \/ ShutdownLooks
    BY <1>1, <2>1, LookFences
  <2>2. CASE \/ StartRenounces \/ StartProceeds \/ StartAdmits(TRUE) \/ StartAdmits(FALSE)
             \/ StartFails
    BY <1>1, <2>2, StartFences
  <2>3. CASE StartFindsIt
    <3>1. /\ room' = [room EXCEPT !.active = TRUE] /\ gate' = FreeGate
          /\ UNCHANGED <<account, exec, forgets>>
      BY <2>3 DEF StartFindsIt
    <3>2. room'.owner = room.owner
      BY <1>1, <3>1, StepFacts DEF MemoryTypes, RoomStates
    <3> QED BY <1>1, <3>1, <3>2, ExecKept, FreeFences DEF SameMemory
  <2>4. CASE StartClaims(TRUE)
    BY <1>1, <2>4, ClaimFences
  <2>5. CASE \E s \in SessionIds, answered \in BOOLEAN : StartOpens(s, answered)
    BY <1>1, <2>5, OpenFences
  <2>6. CASE StartPublishes
    BY <1>1, <2>6, PublishFences
  <2>7. CASE \/ EndsAgain \/ ReleaseConflicts \/ CallFails \/ StartClaims(FALSE) \/ DrainFails
             \/ \E answered \in BOOLEAN :
                  Ends(answered) \/ Reconciles(answered) \/ Releases(answered)
    BY <1>1, <2>7, TransactionFences
  <2>8. CASE Drained \/ EndConflicts \/ Settle
    BY <1>1, <2>8, AdvanceFences
  <2>9. CASE Drops
    BY <1>1, <2>9, DropFences
  <2>10. CASE \/ Restarted \/ Renounced \/ StartFailed \/ Stopped
              \/ DrainReturns \/ ShutdownDetaches \/ ShutdownLeaves
    BY <1>1, <2>10, DoneFences
  <2>11. CASE StaleFinishes
    BY <1>1, <2>11, StaleFences
  <2>12. CASE \/ MutateDisabled \/ MutateConflicts \/ MutateWrites \/ MutateLoses \/ MutateReturns
              \/ \E answered \in BOOLEAN : MutateClaims(answered)
    BY <1>1, <2>12, MutateFences
  <2> QED BY <1>2, <2>1, <2>2, <2>3, <2>4, <2>5, <2>6, <2>7, <2>8, <2>9, <2>10, <2>11, <2>12
<1>3. CASE \/ \E e \in RoomEvents : Announce(e)
           \/ Consume \/ AcquireMutate \/ AcquireDrain \/ AcquireStale \/ AcquireShutdown
           \/ \E here \in BOOLEAN : AdministratorDisables(here)
           \/ AdministratorEnables \/ HookMarks
           \/ BeatStarts \/ BeatRenews \/ BeatRefused \/ BeatMarks \/ BeatFails
           \/ Close \/ ShutdownQueues \/ ShutdownReturns
           \/ OtherProcess \/ Expires \/ UNCHANGED memory
  BY <1>1, <1>3, AcquireFences
<1>4. CASE BeatLoses \/ WorkerLoses \/ \E f \in forgets : Forget(f)
  BY <1>1, <1>4, BesideFences
<1> QED BY <1>2, <1>3, <1>4 DEF RuntimeNext, Beat, all

LEMMA FenceInvariant == RuntimeSpec => []Invs
<1>1. RuntimeSpec => []EpochInv
  BY RuntimeImplements, EpochInvariant, PTL DEF ImplementsOwnership
<1>2. EpochInv /\ RuntimeInv /\ AttachInv /\ FenceInv /\ [RuntimeNext]_all => FenceInv'
  BY FenceStep DEF Invs
<1>3. RuntimeSpec => []FenceInv
  BY <1>1, <1>2, AttachInvariant, FenceInit, PTL DEF RuntimeSpec
<1> QED BY <1>1, <1>3, AttachInvariant, PTL DEF Invs

\* However many sessions, fences, losses, retries and threads there are, a session
\* that this process opened stays attached until its row is ended, and a fence of
\* such a session that is still held is remembered where a cleanup finds it: no fence
\* is leaked that would keep every process from running the account.
THEOREM NothingIsForgotten == RuntimeSpec => []CleanupIsNeverForgotten
<1>1. Invs => CleanupIsNeverForgotten
  <2> SUFFICES ASSUME Invs, NEW s \in SessionIds, exec[s].phase # "none"
               PROVE  /\ endedBy[s] = NotEnded => s \in {account.current, account.pending}
                      /\ Holds(opener[s]) => opener[s] \in {account.owner, room.owner}
    BY DEF CleanupIsNeverForgotten
  <2>1. /\ exec[s].phase \notin {"none", "released"} => s = Attached
        /\ exec[s].phase = "released" => endedBy[s] # NotEnded
        /\ opener[s] \in Known \ {None}
    BY DEF Invs, AttachInv, Sessions
  <2>2. endedBy[s] = NotEnded => s \in {account.current, account.pending}
    BY <2>1 DEF Attached
  <2>3. ASSUME Holds(opener[s])
        PROVE  opener[s] \in {account.owner, room.owner}
    <3>1. opener[s] \notin Gone
      BY <2>3 DEF Gone
    <3>2. s = Attached /\ s # NoSession
      BY <2>1, <3>1, OwnershipAssumption DEF OwnershipAssumption, Invs, FenceInv, Marked
    <3>3. CASE account.current = s
      BY <3>1, <3>2, <3>3 DEF Invs, FenceInv, Remembered
    <3>4. CASE account.pending = s
      BY <3>1, <3>2, <3>4 DEF Invs, FenceInv, Remembered
    <3> QED BY <3>2, <3>3, <3>4 DEF Attached
  <2> QED BY <2>2, <2>3
<1> QED BY <1>1, FenceInvariant, PTL

\* A session is only taken for lost, and reconciled instead of ended, when its fence
\* really is lost; and the fence the heartbeat renews is the one of the session that
\* runs, whichever threads noticed a loss, claimed again or dropped a fence.
THEOREM HeartbeatRenewsTheSession == RuntimeSpec => []HeartbeatKnowsTheSession
<1>1. Invs => HeartbeatKnowsTheSession
  BY DEF Invs, FenceInv, Marked, Remembered, Gone, HeartbeatKnowsTheSession
<1> QED BY <1>1, FenceInvariant, PTL

-----------------------------------------------------------------------------
\* The projection.  A start only runs for an account that is not in it.
Projection ==
  /\ gate.op = "start" => ~room.active
  /\ ProjectionIsNotPhantom

LEMMA ProjectionKept ==
  ASSUME Projection,
         gate'.op = "start" => gate.op = "start" \/ ~room.active,
         room'.active => room.active,
         room'.active /\ room'.owner # None => room'.owner = room.owner,
         shutdown' = "running" => shutdown = "running",
         room'.active /\ room.owner # None /\ shutdown = "running" =>
           /\ Attached # NoSession /\ Attached' = NoSession => room.owner \in forgets'
           /\ room.owner \in forgets /\ room'.owner = room.owner => room.owner \in forgets'
  PROVE  Projection'
BY DEF Projection, ProjectionIsNotPhantom

\* A holder keeps the gate for its operation, or lets it go.
LEMMA GateStays ==
  ASSUME RuntimeInv, AttachInv, Operate
  PROVE  gate'.op \in {gate.op, "none"}
<1>1. MemoryTypes
  BY TypesOfMemory
<1>2. Abandon => gate'.op \in {gate.op, "none"}
  BY AbandonGives
<1>0. FreeGate.op = "none" /\ \A op, at : GateFor(op, at).op = op
  BY DEF FreeGate, GateFor
<1>3. CASE StartCleansUp \/ StartUndoes
  BY <1>1, <1>3 DEF StartCleansUp, StartUndoes, Enter, ReleaseThen, MemoryTypes, GateStates
<1>4. CASE StopLooks \/ DrainLooks
  BY <1>1, <1>4 DEF StopLooks, DrainLooks, Enter, ReleaseThen, Goto, MemoryTypes, GateStates
<1>5. CASE StaleLooks \/ ShutdownLooks
  BY <1>1, <1>5 DEF StaleLooks, ShutdownLooks, Enter, ReleaseThen, Goto, MemoryTypes, GateStates
<1>6. CASE StartFindsIt \/ StartRenounces \/ StartProceeds
  BY <1>0, <1>1, <1>2, <1>6
  DEF StartFindsIt, StartRenounces, StartProceeds, ReleaseThen, Goto, MemoryTypes, GateStates
<1>7. CASE \E answered \in BOOLEAN : StartAdmits(answered) \/ StartClaims(answered)
  BY <1>1, <1>2, <1>7 DEF StartAdmits, StartClaims, ReleaseThen, Goto, MemoryTypes, GateStates
<1>8. CASE \/ \E s \in SessionIds, answered \in BOOLEAN : StartOpens(s, answered)
           \/ StartFails \/ StartPublishes
  BY <1>1, <1>8 DEF StartOpens, StartFails, StartPublishes, Goto, FreeGate, MemoryTypes, GateStates
<1>9. CASE Drained \/ DrainFails \/ EndsAgain \/ EndConflicts \/ Settle
  BY <1>1, <1>2, <1>9
  DEF Drained, DrainFails, EndsAgain, EndConflicts, Settle, Goto, MemoryTypes, GateStates
<1>10. CASE \/ ReleaseConflicts \/ Drops \/ CallFails
            \/ \E answered \in BOOLEAN :
                 Ends(answered) \/ Reconciles(answered) \/ Releases(answered)
  BY <1>1, <1>2, <1>10
  DEF ReleaseConflicts, Drops, CallFails, Ends, Reconciles, Releases, Replied, Goto, MemoryTypes,
      GateStates
<1>11. CASE \/ Restarted \/ Renounced \/ StartFailed \/ Stopped \/ DrainReturns \/ StaleFinishes
            \/ ShutdownDetaches \/ ShutdownLeaves
  <2>1. /\ Restarted \/ Renounced => gate.op = "start"
        /\ ShutdownDetaches => gate.op = "shutdown"
    BY DEF Restarted, Renounced, ShutdownDetaches, DoneFor, AttachInv, GateShape, Serves, Cleaning
  <2> QED BY <1>0, <1>11, <2>1
          DEF Restarted, Renounced, StartFailed, Stopped, DrainReturns, StaleFinishes,
              ShutdownDetaches, ShutdownLeaves
<1>12. CASE MutateDisabled \/ MutateConflicts \/ MutateReturns
  BY <1>12 DEF MutateDisabled, MutateConflicts, MutateReturns, FreeGate
<1>13. CASE MutateWrites \/ MutateLoses
  BY <1>1, <1>13 DEF MutateWrites, MutateLoses, Written, ReleaseThen, Goto, MemoryTypes, GateStates
<1>14. ASSUME NEW answered \in BOOLEAN, MutateClaims(answered)
       PROVE  gate'.op \in {gate.op, "none"}
  <2> DEFINE f == Fence(Account, Me, owner'[Account].epoch)
  <2>1. gate' = FreeGate \/ gate' = [Goto("write") EXCEPT !.claim = f]
    BY <1>14 DEF MutateClaims
  <2> HIDE DEF f
  <2> QED BY <1>0, <1>1, <2>1 DEF Goto, MemoryTypes, GateStates
<1> QED
  BY <1>3, <1>4, <1>5, <1>6, <1>7, <1>8, <1>9, <1>10, <1>11, <1>12, <1>13, <1>14
  DEF Operate, Succeed, Fail

\* The steps of a holder that attach, detach and project no session.
LEMMA OperateProjects ==
  ASSUME Invs, Projection, Operate, Attached' = Attached, UNCHANGED forgets,
         room'.active => room.active, room'.owner # None => room'.owner = room.owner,
         shutdown' = "running" => shutdown = "running"
  PROVE  Projection'
BY GateStays, ProjectionKept DEF Invs

LEMMA ProjectionStep ==
  ASSUME Invs, Projection, [RuntimeNext]_all
  PROVE  Projection'
<1>1. Steady /\ MemoryTypes
  <2>1. [Next]_vars
    BY StepImplements DEF Invs
  <2>2. Steady
    BY <2>1, StepKeeps, FencesFade DEF Invs, Steady
  <2> QED BY <2>2, StepFacts
<1>0. FreeGate.op = "none" /\ \A op, at : GateFor(op, at).op = op
  BY DEF FreeGate, GateFor
<1>2. ASSUME \/ StartCleansUp \/ StartUndoes \/ StopLooks \/ DrainLooks \/ StaleLooks \/ ShutdownLooks
             \/ StartRenounces \/ StartAdmits(TRUE) \/ StartAdmits(FALSE) \/ StartFails
             \/ Drained \/ EndsAgain \/ EndConflicts \/ Settle \/ ReleaseConflicts
             \/ MutateWrites
      PROVE  Projection'
  <2>1. UNCHANGED <<account, room, forgets, shutdown>> /\ Operate
    BY <1>2
    DEF StartCleansUp, StartUndoes, StopLooks, DrainLooks, StaleLooks, ShutdownLooks, StartRenounces,
        StartAdmits, StartFails, Drained, EndsAgain, EndConflicts, Settle, ReleaseConflicts, MutateWrites,
        Operate, Succeed, Fail
  <2> QED BY <2>1, OperateProjects DEF Attached
<1>3. ASSUME Operate, Abandon, UNCHANGED <<forgets, shutdown>>
      PROVE  Projection'
  <2>1. Attached' = Attached /\ room'.active = room.active /\ room'.owner = room.owner
    BY <1>3, AbandonGives DEF Invs, SameAccount, Attached
  <2> QED BY <1>3, <2>1, OperateProjects
<1>4. ASSUME Operate, SameAccount, UNCHANGED <<room, forgets, shutdown>>
      PROVE  Projection'
  BY <1>4, OperateProjects DEF SameAccount, Attached
<1>5. ASSUME Operate, UNCHANGED <<account, room, forgets, shutdown>>
      PROVE  Projection'
  BY <1>5, OperateProjects DEF Attached
<1>6. CASE \/ StartProceeds \/ DrainFails \/ CallFails
           \/ \E answered \in BOOLEAN : Ends(answered) \/ Reconciles(answered) \/ Releases(answered)
  <2>1. Operate
    BY <1>6 DEF Operate, Succeed, Fail
  <2>2. /\ UNCHANGED <<forgets, shutdown>>
        /\ Abandon \/ UNCHANGED <<account, room>>
    BY <1>6 DEF StartProceeds, DrainFails, CallFails, Ends, Reconciles, Releases, Replied
  <2> QED BY <1>3, <1>5, <2>1, <2>2
<1>7. CASE StartFindsIt
  <2>1. room' = [room EXCEPT !.active = TRUE] /\ gate' = FreeGate /\ UNCHANGED <<account, forgets, shutdown>>
        /\ Attached # NoSession
    BY <1>7, OwnershipAssumption DEF StartFindsIt, Attached
  <2>2. gate'.op = "none" /\ Attached' # NoSession
    BY <2>1 DEF FreeGate, Attached
  <2> QED BY <2>2 DEF Projection, ProjectionIsNotPhantom
<1>8. CASE StartPublishes
  <2>1. account.pending # NoSession /\ gate.op = "start" /\ gate.at = "publish"
    BY <1>8 DEF StartPublishes, At, Invs, AttachInv, Holder
  <2>2. CASE Blocked \/ account.owner # gate.claim
    <3>1. UNCHANGED <<account, room, forgets, shutdown>> /\ Operate
      BY <1>8, <2>2 DEF StartPublishes, Operate, Succeed
    <3> QED BY <1>5, <3>1
  <2>3. CASE ~(Blocked \/ account.owner # gate.claim)
    <3>1. /\ account' = [account EXCEPT !.current = account.pending, !.pending = NoSession,
                                        !.reconcile = FALSE]
          /\ gate' = FreeGate
      BY <1>8, <2>3 DEF StartPublishes
    <3>2. account'.current = account.pending /\ gate'.op = "none"
      BY <1>1, <3>1 DEF MemoryTypes, AccountStates, FreeGate
    <3> QED BY <2>1, <3>2 DEF Projection, ProjectionIsNotPhantom, Attached
  <2> QED BY <2>2, <2>3
<1>9. ASSUME NEW answered \in BOOLEAN, StartClaims(answered) \/ \E s \in SessionIds : StartOpens(s, answered)
      PROVE  Projection'
  <2>1. gate.op = "start" /\ ~room.active
    BY <1>9 DEF StartClaims, StartOpens, At, Projection
  <2>2. Operate
    BY <1>9 DEF Operate, Succeed, Fail
  <2>3. ~room'.active
    <3>1. CASE Abandon
      BY <2>1, <3>1, AbandonGives DEF Invs
    <3>2. CASE UNCHANGED room
      BY <2>1, <3>2
    <3>3. CASE \E f : room' = [room EXCEPT !.owner = f]
      BY <1>1, <2>1, <3>3 DEF MemoryTypes, RoomStates
    <3> QED BY <1>9, <3>1, <3>2, <3>3 DEF StartClaims, StartOpens
  <2>4. gate'.op \in {"start", "none"}
    BY <2>1, <2>2, GateStays DEF Invs
  <2> QED BY <2>3 DEF Projection, ProjectionIsNotPhantom
<1>10. CASE Drops
  <2>1. SameAccount
    BY <1>1, <1>10 DEF Drops, DropOwner, SameAccount, MemoryTypes, AccountStates
  <2> QED BY <1>4, <1>10, <2>1 DEF Drops, Operate, Succeed
<1>11. CASE Restarted \/ Renounced \/ StartFailed
  <2>1. gate.op = "start"
    BY <1>11 DEF Restarted, Renounced, StartFailed, DoneFor, Invs, AttachInv, GateShape, Serves, Cleaning
  <2>2. room'.active = room.active
    BY <1>1, <1>11 DEF Restarted, Renounced, StartFailed, ClearOwner, MemoryTypes, RoomStates
  <2> QED BY <2>1, <2>2 DEF Projection, ProjectionIsNotPhantom
<1>12. CASE Stopped
  <2>1. room' = [room EXCEPT !.owner = None, !.active = FALSE]
    BY <1>12 DEF Stopped
  <2>2. ~room'.active
    BY <1>1, <2>1 DEF MemoryTypes, RoomStates
  <2> QED BY <2>2 DEF Projection, ProjectionIsNotPhantom
<1>13. CASE DrainReturns
  <2>1. /\ forgets' = forgets \cup ({gate.claim} \ {None})
        /\ gate' = FreeGate /\ UNCHANGED <<room, shutdown>>
        /\ gate.at = "done" /\ gate.then = "drain"
    BY <1>13 DEF DrainReturns, DoneFor
  <2>2. gate.op = "drain" /\ gate.session = Attached
    BY <2>1 DEF Invs, AttachInv, GateShape, Serves, Holder, Cleaning
  <2>3. Attached # NoSession => gate.claim = opener[Attached] /\ gate.claim # None
    <3>1. gate.session # NoSession => gate.claim = opener[gate.session]
      BY <2>1, <2>2 DEF Invs, FenceInv, Handled, Cleaning
    <3> QED BY <1>1, <2>2, <3>1, StepFacts
  <2>4. Attached # NoSession /\ room.owner # None => room.owner \in forgets'
    BY <2>1, <2>3 DEF Invs, FenceInv, Remembered
  <2>5. gate'.op = "none"
    BY <2>1 DEF FreeGate
  <2> QED BY <2>1, <2>4, <2>5, ProjectionKept
<1>14. CASE StaleFinishes
  <2>1. /\ forgets' = IF account.target # NoSession THEN forgets \cup {opener[account.target]} ELSE forgets
        /\ gate' = FreeGate /\ UNCHANGED <<room, shutdown>>
        /\ gate.at = "done" /\ gate.then = "stale"
    BY <1>14 DEF StaleFinishes, DoneFor
  <2>2. account.stale
    BY <2>1 DEF Invs, AttachInv, GateShape, Serves, Holder, Cleaning
  <2>3. ASSUME Attached # NoSession, Attached' = NoSession
        PROVE  account.target = Attached
    <3>1. account.current \in {NoSession, account.target}
      BY <2>2 DEF Invs, FenceInv, Remembered
    <3>2. account.pending # NoSession => account'.pending = NoSession
      BY <2>3 DEF Attached
    <3>3. account.pending # NoSession => account.pending = account.target
      <4> DEFINE dropped == IF IF account.target # NoSession
                               THEN account.owner = opener[account.target] \/ exec[account.target].lost
                               ELSE gate.claim = None
                            THEN account.owner ELSE None
                 acc == Detach(account, account.target)
      <4>1. account' = [DropOwner(acc, dropped)
                          EXCEPT !.stale = FALSE, !.staleRelease = None, !.target = NoSession]
        BY <1>14 DEF StaleFinishes
      <4> HIDE DEF dropped
      <4>2. acc \in AccountStates(Known, Begun)
        BY <1>1, DetachType DEF MemoryTypes, Begun
      <4>3. acc.pending = IF account.pending = account.target THEN NoSession ELSE account.pending
        BY <1>1 DEF Detach, MemoryTypes, AccountStates
      <4> HIDE DEF acc
      <4>4. account'.pending = acc.pending
        BY <4>1, <4>2 DEF DropOwner, AccountStates
      <4> QED BY <3>2, <4>3, <4>4
    <3> QED BY <2>3, <3>1, <3>3 DEF Attached
  <2>4. Attached # NoSession /\ Attached' = NoSession /\ room.owner # None => room.owner \in forgets'
    BY <2>1, <2>3 DEF Invs, FenceInv, Remembered
  <2>5. gate'.op = "none"
    BY <2>1 DEF FreeGate
  <2> QED BY <2>1, <2>4, <2>5, ProjectionKept
<1>15. CASE ShutdownDetaches \/ ShutdownLeaves
  <2>1. UNCHANGED room /\ gate'.op # "start" /\ shutdown' # "running"
    <3>1. shutdown # "running"
      BY <1>15 DEF ShutdownDetaches, ShutdownLeaves, DoneFor, Invs, AttachInv, GateShape, Serves, Cleaning
    <3> QED BY <1>0, <1>15, <3>1 DEF ShutdownDetaches, ShutdownLeaves
  <2> QED BY <2>1 DEF Projection, ProjectionIsNotPhantom
<1>16. CASE \/ MutateDisabled \/ MutateConflicts \/ MutateLoses \/ MutateReturns
            \/ \E answered \in BOOLEAN : MutateClaims(answered)
  <2>1. Operate /\ UNCHANGED <<room, forgets, shutdown>>
    BY <1>16 DEF MutateDisabled, MutateConflicts, MutateLoses, MutateReturns, MutateClaims, Operate, Succeed
  <2>2. SameAccount
    <3>1. CASE MutateDisabled \/ MutateReturns
      BY <1>1, <3>1 DEF MutateDisabled, MutateReturns, MarkDisabled, SameAccount, MemoryTypes, AccountStates
    <3>2. CASE MutateConflicts \/ MutateLoses
      BY <3>2, BeginStaleGives DEF MutateConflicts, MutateLoses, SameAccount, Invs
    <3>3. ASSUME NEW answered \in BOOLEAN, MutateClaims(answered)
          PROVE  SameAccount
      <4> DEFINE f == Fence(Account, Me, owner'[Account].epoch)
                 reconciles == ClaimReconciles(Account)
                 claimed == [account EXCEPT !.owner = f, !.reconcile = reconciles]
                 written == [claimed EXCEPT !.disabled = FALSE, !.draining = FALSE, !.operation = TRUE]
                 kept == [claimed EXCEPT !.staleRelease = IF @ = None THEN f ELSE @]
      <4>1. UNCHANGED account \/ BeginStale(Attached, f) \/ account' = kept \/ account' = written
        BY <3>3 DEF MutateClaims
      <4> HIDE DEF f, reconciles
      <4>2. account' = kept \/ account' = written => SameAccount
        BY <1>1 DEF SameAccount, MemoryTypes, AccountStates
      <4> QED BY <4>1, <4>2, BeginStaleGives DEF SameAccount, Invs
    <3> QED BY <1>16, <3>1, <3>2, <3>3
  <2> QED BY <1>4, <2>1, <2>2
<1>17. ASSUME UNCHANGED <<gate, room, forgets>>, SameAccount, shutdown' = "running" => shutdown = "running"
       PROVE  Projection'
  BY <1>17, ProjectionKept DEF SameAccount, Attached, Projection
<1>18. CASE \/ \E e \in RoomEvents : Announce(e)
            \/ BeginEvent \/ InterruptEvent \/ FinishEvent \/ RefuseAdmission
  <2>1. UNCHANGED <<gate, account, forgets, shutdown>> /\ Attached' = Attached
    BY <1>18 DEF Announce, BeginEvent, InterruptEvent, FinishEvent, RefuseAdmission, Attached
  <2>2. room'.active = room.active /\ room'.owner = room.owner
    BY <1>1, <1>18
    DEF Announce, BeginEvent, InterruptEvent, FinishEvent, RefuseAdmission, MemoryTypes, RoomStates
  <2> QED BY <2>1, <2>2, ProjectionKept DEF Projection
<1>19. CASE AcquireStart \/ AcquireStop \/ AcquireMutate \/ AcquireDrain \/ AcquireStale \/ AcquireShutdown
  <2>1. /\ UNCHANGED <<account, room, forgets, shutdown>> /\ Attached' = Attached
        /\ gate'.op = "start" => ~room.active
    BY <1>0, <1>19
    DEF AcquireStart, WantsStart, AcquireStop, AcquireMutate, AcquireDrain, AcquireStale, AcquireShutdown,
        Attached
  <2> QED BY <2>1, ProjectionKept DEF Projection
<1>20. CASE \/ \E here \in BOOLEAN : AdministratorDisables(here)
            \/ AdministratorEnables \/ HookMarks \/ Close
            \/ BeatStarts \/ BeatRenews \/ BeatRefused \/ BeatMarks \/ BeatFails
            \/ ShutdownQueues \/ ShutdownReturns
            \/ OtherProcess \/ Expires \/ UNCHANGED memory
  <2>1. UNCHANGED <<gate, room, forgets>> /\ (shutdown' = "running" => shutdown = "running")
    BY <1>20
    DEF AdministratorDisables, AdministratorEnables, HookMarks, Close, BeatStarts, BeatRenews, BeatRefused,
        BeatMarks, BeatFails, ShutdownQueues, ShutdownReturns, OtherProcess, Expires, memory
  <2>2. \/ UNCHANGED account
        \/ account' = MarkDisabled(account)
        \/ \E d : account' = [account EXCEPT !.shutting = TRUE, !.draining = d]
    BY <1>20
    DEF AdministratorDisables, AdministratorEnables, HookMarks, Close, BeatStarts, BeatRenews, BeatRefused,
        BeatMarks, BeatFails, ShutdownQueues, ShutdownReturns, OtherProcess, Expires, memory
  <2>3. Attached' = Attached
    <3>1. CASE UNCHANGED account
      BY <3>1 DEF Attached
    <3>2. CASE account' = MarkDisabled(account)
      BY <1>1, <3>2 DEF MarkDisabled, Attached, MemoryTypes, AccountStates
    <3>3. CASE \E d : account' = [account EXCEPT !.shutting = TRUE, !.draining = d]
      BY <1>1, <3>3 DEF Attached, MemoryTypes, AccountStates
    <3> QED BY <2>2, <3>1, <3>2, <3>3
  <2> QED BY <2>1, <2>3, ProjectionKept DEF Projection
<1>21. CASE BeatLoses \/ WorkerLoses
  <2>1. UNCHANGED <<gate, room, forgets, shutdown>>
    BY <1>21 DEF BeatLoses, WorkerLoses
  <2>2. SameAccount
    <3>1. account.current # NoSession => account.current = Attached
      BY <1>1, StepFacts
    <3> QED BY <1>21, <3>1, BeginStaleGives DEF BeatLoses, WorkerLoses, SameAccount, Invs
  <2> QED BY <1>17, <2>1, <2>2
<1>22. ASSUME NEW f \in forgets, Forget(f)
       PROVE  Projection'
  <2>1. /\ forgets' = forgets \ {f} /\ UNCHANGED <<account, gate, shutdown>> /\ Attached' = Attached
        /\ room' = IF room.owner = f THEN [room EXCEPT !.owner = None, !.active = FALSE] ELSE room
    BY <1>22 DEF Forget, Attached
  <2>2. IF room.owner = f THEN ~room'.active ELSE room' = room
    BY <1>1, <2>1 DEF MemoryTypes, RoomStates
  <2> QED BY <2>1, <2>2 DEF Projection, ProjectionIsNotPhantom
<1> QED
  BY <1>2, <1>6, <1>7, <1>8, <1>9, <1>10, <1>11, <1>12, <1>13, <1>14, <1>15, <1>16, <1>18, <1>19,
     <1>20, <1>21, <1>22
  DEF RuntimeNext, Consume, Operate, Succeed, Fail, Beat, all

\* While the process runs, an account that the room's projection takes for running
\* under a fence has a session attached, or the request that takes it out of the
\* projection is under way: after any drain, loss or failed start, a live event of the
\* room is not refused for ever on its account.
THEOREM NoPhantoms == RuntimeSpec => []ProjectionIsNotPhantom
<1>1. RuntimeInit => Projection
  BY DEF RuntimeInit, FreeGate, Projection, ProjectionIsNotPhantom
<1>2. Invs /\ Projection /\ [RuntimeNext]_all => Projection'
  BY ProjectionStep
<1>3. Projection => ProjectionIsNotPhantom
  BY DEF Projection
<1> QED BY <1>1, <1>2, <1>3, FenceInvariant, PTL DEF RuntimeSpec
=============================================================================
