--------------------------- MODULE StreamsProofs ---------------------------
(***************************************************************************)
(* Proofs about the queues and streams of the programs: the gate of the    *)
(* operations (OperationGate), for any number of goroutines and any width  *)
(* of the generation counter, with its refinement of FifoLock; the panel's *)
(* animations (PanelRuntime); the shared connection of a room (RoomSource);*)
(* and the runtime state of an account (EventProcessor).                   *)
(*                                                                         *)
(* The invariant of the gate ties the three places where the turn is       *)
(* recorded to one another: held and owner in the gate, granted in the     *)
(* waiter, and where the call itself is.                                   *)
(***************************************************************************)
EXTENDS OperationGate, PanelRuntime, RoomSource, EventProcessor, SequenceTheorems, FiniteSetTheorems, TLAPS


-----------------------------------------------------------------------------
(* Sequences: the queue after an arrival, a grant and a departure. *)

LEMMA AppendFacts ==
  ASSUME NEW S, NEW s \in Seq(S), NEW e \in S
  PROVE  /\ Append(s, e) \in Seq(S)
         /\ Len(Append(s, e)) = Len(s) + 1
         /\ \A i \in 1 .. Len(s) : Append(s, e)[i] = s[i]
         /\ Append(s, e)[Len(s) + 1] = e
OBVIOUS

LEMMA TailFacts ==
  ASSUME NEW S, NEW s \in Seq(S), s # <<>>
  PROVE  /\ Head(s) \in S /\ Head(s) = s[1]
         /\ Tail(s) \in Seq(S)
         /\ Len(s) \in Nat \ {0}
         /\ Len(Tail(s)) = Len(s) - 1
         /\ \A i \in 1 .. Len(Tail(s)) : Tail(s)[i] = s[i + 1]
OBVIOUS

LEMMA RemoveFacts ==
  ASSUME NEW S, NEW s \in Seq(S), NEW i \in 1 .. Len(s), NEW r,
         r = [j \in 1 .. Len(s) - 1 |-> IF j < i THEN s[j] ELSE s[j + 1]]
  PROVE  /\ r \in Seq(S)
         /\ Len(r) = Len(s) - 1
         /\ \A j \in 1 .. Len(r) : r[j] = IF j < i THEN s[j] ELSE s[j + 1]
<1>1. Len(s) \in Nat /\ \A j \in 1 .. Len(s) : s[j] \in S
  OBVIOUS
<1>2. Len(s) - 1 \in Nat
  BY <1>1
<1>3. r \in [1 .. Len(s) - 1 -> S]
  BY <1>1
<1> QED BY <1>2, <1>3

-----------------------------------------------------------------------------
(* The inductive invariant. *)

\* A grant is for a call that is still in select, or gave up.
GrantedCallsWait == \A t \in Threads : granted[t] => pc[t] \in {"waiting", "leaving"}

GateInv ==
  TypeOK /\ OneTurn /\ NoLostTurn /\ ReleaseIsAccepted /\ QueueIsTheWaiters /\ GrantedCallsWait

LEMMA ZeroIsAGeneration == 0 \in Generations
BY GateAssumption DEF GateAssumption, Generations

LEMMA GateInit == Init => GateInv
<1> SUFFICES ASSUME Init PROVE GateInv
  OBVIOUS
<1>1. waiters \in Seq(Threads) /\ Len(waiters) = 0
  BY DEF Init
<1>2. TypeOK
  <2>1. held \in BOOLEAN /\ generation \in Generations /\ owner \in Generations
    BY ZeroIsAGeneration DEF Init
  <2>2. granted \in [Threads -> BOOLEAN] /\ cancelled \in [Threads -> BOOLEAN]
    BY DEF Init
  <2>3. turn \in [Threads -> Generations]
    BY ZeroIsAGeneration DEF Init
  <2>4. pc \in [Threads -> Places]
    BY DEF Init, Places
  <2>5. waiters \in Seq(Threads)
    BY <1>1
  <2> QED BY <2>1, <2>2, <2>3, <2>4, <2>5, Zenon DEF TypeOK
<1>3. \A t \in Threads : ~HasTurn(t) /\ ~Waiting(t)
  <2>1. \A t \in Threads : ~HasTurn(t)
    BY DEF Init, HasTurn
  <2>2. \A t \in Threads : ~Waiting(t)
    BY <1>1 DEF Waiting
  <2> QED BY <2>1, <2>2
<1>4. OneTurn /\ NoLostTurn /\ ReleaseIsAccepted /\ GrantedCallsWait
  BY <1>3 DEF Init, OneTurn, NoLostTurn, ReleaseIsAccepted, GrantedCallsWait
<1>5. QueueIsTheWaiters
  BY <1>1, <1>3 DEF Init, QueueIsTheWaiters
<1> QED BY <1>2, <1>4, <1>5 DEF GateInv

LEMMA FollowingType == \A g \in Generations : Following(g) \in Generations
BY GateAssumption DEF GateAssumption, Generations, Following

\* A step of one call that moves neither the turn nor the queue.
LEMMA LocalStep ==
  ASSUME GateInv, TypeOK', GrantedCallsWait',
         UNCHANGED <<held, generation, owner, waiters, turn>>,
         \A t \in Threads : HasTurn(t)' <=> HasTurn(t),
         \A t \in Threads : (pc'[t] \in {"waiting", "leaving"} /\ ~granted'[t])
                              <=> (pc[t] \in {"waiting", "leaving"} /\ ~granted[t])
  PROVE  GateInv'
<1>1. OneTurn'
  BY DEF GateInv, OneTurn
<1>2. NoLostTurn'
  BY DEF GateInv, NoLostTurn
<1>3. ReleaseIsAccepted'
  BY DEF GateInv, ReleaseIsAccepted, Accepts
<1>4. QueueIsTheWaiters'
  BY DEF GateInv, QueueIsTheWaiters, Waiting
<1> QED BY <1>1, <1>2, <1>3, <1>4 DEF GateInv

LEMMA CallAndWaitSteps ==
  ASSUME GateInv, NEW t \in Threads,
         Call(t) \/ Cancel(t) \/ Wake(t) \/ GiveUp(t) \/ Keep(t)
  PROVE  GateInv'
<1>1. TypeOK'
  BY DEF GateInv, TypeOK, Call, Cancel, Wake, GiveUp, Keep, Places
<1>2. UNCHANGED <<held, generation, owner, waiters, turn>>
  BY DEF Call, Cancel, Wake, GiveUp, Keep
<1>3. GrantedCallsWait'
  BY DEF GateInv, GrantedCallsWait, TypeOK, Call, Cancel, Wake, GiveUp, Keep
<1>4. \A u \in Threads : HasTurn(u)' <=> HasTurn(u)
  BY DEF GateInv, GrantedCallsWait, TypeOK, HasTurn, Call, Cancel, Wake, GiveUp, Keep
<1>5. \A u \in Threads : (pc'[u] \in {"waiting", "leaving"} /\ ~granted'[u])
                           <=> (pc[u] \in {"waiting", "leaving"} /\ ~granted[u])
  BY DEF GateInv, GrantedCallsWait, TypeOK, Call, Cancel, Wake, GiveUp, Keep
<1> QED BY <1>1, <1>2, <1>3, <1>4, <1>5, LocalStep

LEMMA TakeFreeStep ==
  ASSUME GateInv, NEW t \in Threads, TakeFree(t)
  PROVE  GateInv'
<1>1. TypeOK'
  BY FollowingType DEF GateInv, TypeOK, TakeFree, Places
<1>2. \A u \in Threads : ~HasTurn(u)
  BY DEF GateInv, NoLostTurn, TakeFree
<1>3. \A u \in Threads : HasTurn(u)' <=> u = t
  BY <1>2 DEF GateInv, TypeOK, TakeFree, HasTurn
<1>4. OneTurn'
  BY <1>3 DEF OneTurn
<1>5. NoLostTurn'
  BY <1>3 DEF NoLostTurn, TakeFree
<1>6. ReleaseIsAccepted'
  BY <1>3 DEF GateInv, TypeOK, ReleaseIsAccepted, Accepts, TakeFree
<1>7. QueueIsTheWaiters'
  BY <1>2 DEF GateInv, TypeOK, QueueIsTheWaiters, Waiting, TakeFree
<1>8. GrantedCallsWait'
  BY <1>2 DEF GateInv, TypeOK, GrantedCallsWait, TakeFree, HasTurn
<1> QED BY <1>1, <1>4, <1>5, <1>6, <1>7, <1>8 DEF GateInv

LEMMA EnqueueStep ==
  ASSUME GateInv, NEW t \in Threads, Enqueue(t)
  PROVE  GateInv'
<1>1. /\ waiters \in Seq(Threads) /\ waiters' = Append(waiters, t)
      /\ ~Waiting(t) /\ ~granted[t]
  BY DEF GateInv, TypeOK, QueueIsTheWaiters, GrantedCallsWait, Enqueue
<1>2. /\ waiters' \in Seq(Threads)
      /\ Len(waiters') = Len(waiters) + 1 /\ Len(waiters) \in Nat
      /\ \A i \in 1 .. Len(waiters) : waiters'[i] = waiters[i]
      /\ waiters'[Len(waiters) + 1] = t
  BY <1>1, AppendFacts
<1>3. TypeOK'
  BY <1>2 DEF GateInv, TypeOK, Enqueue, Places
<1>4. \A u \in Threads : HasTurn(u)' <=> HasTurn(u)
  BY DEF GateInv, TypeOK, Enqueue, HasTurn
<1>5. held
  BY DEF GateInv, NoLostTurn, Enqueue
<1>6. OneTurn' /\ NoLostTurn' /\ ReleaseIsAccepted'
  BY <1>4, <1>5 DEF GateInv, OneTurn, NoLostTurn, ReleaseIsAccepted, Accepts, Enqueue
<1>7. \A u \in Threads : Waiting(u)' <=> Waiting(u) \/ u = t
  BY <1>2 DEF Waiting
<1>8. QueueIsTheWaiters'
  <2>1. \A u \in Threads : Waiting(u)' <=> pc'[u] \in {"waiting", "leaving"} /\ ~granted'[u]
    BY <1>1, <1>7 DEF GateInv, TypeOK, QueueIsTheWaiters, Enqueue
  <2>2. ASSUME NEW i \in 1 .. Len(waiters'), NEW j \in 1 .. Len(waiters'),
               waiters'[i] = waiters'[j]
        PROVE  i = j
    BY <1>1, <1>2, <2>2 DEF GateInv, QueueIsTheWaiters, Waiting
  <2> QED BY <2>1, <2>2 DEF QueueIsTheWaiters
<1>9. GrantedCallsWait'
  BY DEF GateInv, TypeOK, GrantedCallsWait, Enqueue
<1> QED BY <1>3, <1>6, <1>8, <1>9 DEF GateInv

\* The three ways to hand the turn on.
LEMMA HandoverStep ==
  ASSUME GateInv, NEW t \in Threads, HasTurn(t), Handover(t)
  PROVE  GateInv'
<1>1. \A u \in Threads : HasTurn(u) <=> u = t
  BY DEF GateInv, OneTurn
<1>2. waiters \in Seq(Threads) /\ Len(waiters) \in Nat
  BY DEF GateInv, TypeOK
<1>3. ~Waiting(t)
  BY DEF GateInv, QueueIsTheWaiters, HasTurn
<1>4. CASE waiters = <<>>
  <2>1. TypeOK'
    BY <1>4, ZeroIsAGeneration DEF GateInv, TypeOK, Handover, Places
  <2>2. \A u \in Threads : ~HasTurn(u)'
    BY <1>1, <1>4 DEF GateInv, TypeOK, Handover, HasTurn
  <2>3. OneTurn' /\ NoLostTurn' /\ ReleaseIsAccepted'
    BY <2>2, <1>4 DEF OneTurn, NoLostTurn, ReleaseIsAccepted, Handover
  <2>4. QueueIsTheWaiters'
    BY <1>1, <1>3, <1>4 DEF GateInv, TypeOK, QueueIsTheWaiters, Waiting, Handover
  <2>5. GrantedCallsWait'
    BY <1>1, <1>4 DEF GateInv, TypeOK, GrantedCallsWait, Handover, HasTurn
  <2> QED BY <2>1, <2>3, <2>4, <2>5 DEF GateInv
<1>5. CASE waiters # <<>>
  <2> DEFINE h == Head(waiters)
  <2>1. /\ h \in Threads /\ h = waiters[1]
        /\ waiters' = Tail(waiters) /\ waiters' \in Seq(Threads)
        /\ Len(waiters) \in Nat \ {0} /\ Len(waiters') = Len(waiters) - 1
        /\ \A i \in 1 .. Len(waiters') : waiters'[i] = waiters[i + 1]
    <3>1. waiters' = Tail(waiters)
      BY <1>5 DEF Handover
    <3>2. /\ h \in Threads /\ h = waiters[1] /\ Tail(waiters) \in Seq(Threads)
          /\ Len(waiters) \in Nat \ {0} /\ Len(Tail(waiters)) = Len(waiters) - 1
          /\ \A i \in 1 .. Len(Tail(waiters)) : Tail(waiters)[i] = waiters[i + 1]
      BY <1>2, <1>5, TailFacts
    <3> QED BY <3>1, <3>2
  <2>2. Waiting(h) /\ h # t
    BY <1>3, <2>1 DEF Waiting
  <2>3. pc[h] \in {"waiting", "leaving"} /\ ~granted[h]
    BY <2>1, <2>2 DEF GateInv, QueueIsTheWaiters
  <2>4. /\ generation' = Following(generation) /\ owner' = generation' /\ held' = held /\ held
        /\ granted' = [granted EXCEPT ![t] = FALSE, ![h] = TRUE]
        /\ turn' = [turn EXCEPT ![h] = generation']
        /\ pc' = [pc EXCEPT ![t] = "idle"]
        /\ cancelled' = cancelled
    BY <1>5 DEF Handover, Accepts
  <2> HIDE DEF h
  <2>5. TypeOK'
    BY <2>1, <2>4, FollowingType DEF GateInv, TypeOK, Places
  <2>6. \A u \in Threads : HasTurn(u)' <=> u = h
    BY <1>1, <2>1, <2>2, <2>3, <2>4 DEF GateInv, TypeOK, HasTurn
  <2>7. OneTurn' /\ NoLostTurn'
    BY <2>1, <2>4, <2>6 DEF OneTurn, NoLostTurn
  <2>8. ReleaseIsAccepted'
    BY <2>1, <2>4, <2>6 DEF GateInv, TypeOK, ReleaseIsAccepted, Accepts
  <2>9. \A u \in Threads : Waiting(u)' <=> Waiting(u) /\ u # h
    <3>1. \A i, j \in 1 .. Len(waiters) : waiters[i] = waiters[j] => i = j
      BY DEF GateInv, QueueIsTheWaiters
    <3>2. ASSUME NEW i \in 1 .. Len(waiters')
          PROVE  i + 1 \in 1 .. Len(waiters) /\ waiters'[i] = waiters[i + 1] /\ waiters[i + 1] # h
      BY <2>1, <3>1
    <3>3. ASSUME NEW i \in 1 .. Len(waiters), waiters[i] # h
          PROVE  i - 1 \in 1 .. Len(waiters') /\ waiters'[i - 1] = waiters[i]
      BY <2>1, <3>3
    <3> QED BY <3>2, <3>3 DEF Waiting
  <2>10. QueueIsTheWaiters'
    <3>1. \A u \in Threads : Waiting(u)' <=> pc'[u] \in {"waiting", "leaving"} /\ ~granted'[u]
      BY <1>1, <1>3, <2>1, <2>2, <2>3, <2>4, <2>9 DEF GateInv, TypeOK, QueueIsTheWaiters
    <3>2. ASSUME NEW i \in 1 .. Len(waiters'), NEW j \in 1 .. Len(waiters'),
                 waiters'[i] = waiters'[j]
          PROVE  i = j
      BY <2>1, <3>2 DEF GateInv, QueueIsTheWaiters
    <3> QED BY <3>1, <3>2 DEF QueueIsTheWaiters
  <2>11. GrantedCallsWait'
    BY <1>1, <2>1, <2>2, <2>3, <2>4 DEF GateInv, TypeOK, GrantedCallsWait, HasTurn
  <2> QED BY <2>5, <2>7, <2>8, <2>10, <2>11 DEF GateInv
<1> QED BY <1>4, <1>5

LEMMA LeaveQueueStep ==
  ASSUME GateInv, NEW t \in Threads, LeaveQueue(t)
  PROVE  GateInv'
<1>1. PICK k \in 1 .. Len(waiters) :
        /\ waiters[k] = t
        /\ waiters' = [j \in 1 .. Len(waiters) - 1 |->
                         IF j < k THEN waiters[j] ELSE waiters[j + 1]]
  BY DEF LeaveQueue
<1>2. /\ waiters \in Seq(Threads) /\ Len(waiters) \in Nat \ {0}
      /\ waiters' \in Seq(Threads) /\ Len(waiters') = Len(waiters) - 1
      /\ \A j \in 1 .. Len(waiters') : waiters'[j] = IF j < k THEN waiters[j] ELSE waiters[j + 1]
  <2>1. waiters \in Seq(Threads) /\ Len(waiters) \in Nat \ {0}
    BY <1>1 DEF GateInv, TypeOK
  <2> QED BY <1>1, <2>1, RemoveFacts
<1>3. TypeOK'
  BY <1>2 DEF GateInv, TypeOK, LeaveQueue, Places
<1>4. \A u \in Threads : HasTurn(u)' <=> HasTurn(u)
  BY DEF GateInv, TypeOK, LeaveQueue, HasTurn
<1>5. held
  BY <1>2 DEF GateInv, NoLostTurn
<1>6. OneTurn' /\ NoLostTurn' /\ ReleaseIsAccepted'
  BY <1>4, <1>5 DEF GateInv, OneTurn, NoLostTurn, ReleaseIsAccepted, Accepts, LeaveQueue
<1>7. \A i, j \in 1 .. Len(waiters) : waiters[i] = waiters[j] => i = j
  BY DEF GateInv, QueueIsTheWaiters
<1>8. \A u \in Threads : Waiting(u)' <=> Waiting(u) /\ u # t
  <2>1. ASSUME NEW i \in 1 .. Len(waiters')
        PROVE  waiters'[i] # t /\ \E j \in 1 .. Len(waiters) : waiters[j] = waiters'[i]
    <3>1. CASE i < k
      BY <1>1, <1>2, <1>7, <3>1
    <3>2. CASE ~(i < k)
      <4>1. i + 1 \in 1 .. Len(waiters) /\ waiters'[i] = waiters[i + 1] /\ i + 1 # k
        BY <1>1, <1>2, <3>2
      <4> QED BY <1>1, <1>7, <4>1
    <3> QED BY <3>1, <3>2
  <2>2. ASSUME NEW i \in 1 .. Len(waiters), waiters[i] # t
        PROVE  \E j \in 1 .. Len(waiters') : waiters'[j] = waiters[i]
    <3>1. CASE i < k
      BY <1>1, <1>2, <3>1
    <3>2. CASE ~(i < k)
      <4>1. i - 1 \in 1 .. Len(waiters') /\ ~(i - 1 < k) /\ (i - 1) + 1 = i
        BY <1>1, <1>2, <2>2, <3>2
      <4> QED BY <1>2, <4>1
    <3> QED BY <3>1, <3>2
  <2> QED BY <2>1, <2>2 DEF Waiting
<1>9. QueueIsTheWaiters'
  <2>1. \A u \in Threads : Waiting(u)' <=> pc'[u] \in {"waiting", "leaving"} /\ ~granted'[u]
    BY <1>8 DEF GateInv, TypeOK, QueueIsTheWaiters, LeaveQueue
  <2>2. ASSUME NEW i \in 1 .. Len(waiters'), NEW j \in 1 .. Len(waiters'),
               waiters'[i] = waiters'[j]
        PROVE  i = j
    <3> DEFINE Old(m) == IF m < k THEN m ELSE m + 1
    <3>1. Old(i) \in 1 .. Len(waiters) /\ Old(j) \in 1 .. Len(waiters)
      BY <1>2
    <3>2. waiters'[i] = waiters[Old(i)] /\ waiters'[j] = waiters[Old(j)]
      BY <1>2
    <3>3. Old(i) = Old(j)
      BY <1>7, <2>2, <3>1, <3>2
    <3> QED BY <1>2, <3>3
  <2> QED BY <2>1, <2>2 DEF QueueIsTheWaiters
<1>10. GrantedCallsWait'
  BY DEF GateInv, TypeOK, GrantedCallsWait, LeaveQueue
<1> QED BY <1>3, <1>6, <1>9, <1>10 DEF GateInv

LEMMA GateStep ==
  ASSUME GateInv, [Next]_vars
  PROVE  GateInv'
<1>1. ASSUME NEW t \in Threads, Release(t) \/ Drop(t) \/ HandOn(t)
      PROVE  GateInv'
  <2>1. HasTurn(t) /\ Handover(t)
    BY <1>1 DEF Release, Drop, HandOn, HasTurn
  <2> QED BY <2>1, HandoverStep
<1>2. CASE UNCHANGED vars
  BY <1>2
  DEF vars, GateInv, TypeOK, OneTurn, NoLostTurn, ReleaseIsAccepted, QueueIsTheWaiters,
      GrantedCallsWait, HasTurn, Accepts, Waiting
<1> QED
  BY <1>1, <1>2, CallAndWaitSteps, TakeFreeStep, EnqueueStep, LeaveQueueStep
  DEF Next, Progress

LEMMA GateInvariant == Spec => []GateInv
BY GateInit, GateStep, PTL DEF Spec

\* The gate's variables keep their types; a generation never leaves uint64.
THEOREM GateTypes == Spec => []TypeOK
BY GateInvariant, PTL DEF GateInv

\* Two operations of an account never run at once, whatever is cancelled when.
THEOREM GateExcludes == Spec => []OneTurn
BY GateInvariant, PTL DEF GateInv

\* No cancellation loses the turn: the gate is held only while a call that
\* will release it has it, and nobody queues in front of a free gate.
THEOREM GateKeepsTheTurn == Spec => []NoLostTurn
BY GateInvariant, PTL DEF GateInv

\* A release is never refused, so mustReleaseOperationPermit never panics.
THEOREM GateAcceptsReleases == Spec => []ReleaseIsAccepted
BY GateInvariant, PTL DEF GateInv

\* The queue holds exactly the calls that wait, each once.
THEOREM GateQueue == Spec => []QueueIsTheWaiters
BY GateInvariant, PTL DEF GateInv

-----------------------------------------------------------------------------
(* Refinement.  The holder of the abstract lock is the call that has the   *)
(* turn, from its grant until its release.                                 *)

Holder == IF held THEN CHOOSE t \in Threads : HasTurn(t) ELSE Nobody

LEMMA HolderFacts ==
  ASSUME GateInv, NEW t \in Threads
  PROVE  /\ HasTurn(t) <=> Holder = t
         /\ Holder = Nobody <=> ~held
         /\ held => Holder \in Threads
<1>1. Nobody \notin Threads
  BY GateAssumption DEF GateAssumption
<1>2. CASE held
  <2>1. \E u \in Threads : HasTurn(u)
    BY <1>2 DEF GateInv, NoLostTurn
  <2>2. PICK u : u = (CHOOSE v \in Threads : HasTurn(v))
    OBVIOUS
  <2>3. u \in Threads /\ HasTurn(u) /\ Holder = u
    BY <1>2, <2>1, <2>2 DEF Holder
  <2> QED BY <1>1, <1>2, <2>3 DEF GateInv, OneTurn
<1>3. CASE ~held
  BY <1>1, <1>3 DEF GateInv, NoLostTurn, Holder
<1> QED BY <1>2, <1>3

\* The same of the next state.
LEMMA HolderFactsNext ==
  ASSUME GateInv', NEW t \in Threads
  PROVE  /\ HasTurn(t)' <=> Holder' = t
         /\ Holder' = Nobody <=> ~held'
<1>1. Nobody \notin Threads
  BY GateAssumption DEF GateAssumption
<1>2. CASE held'
  <2>1. \E u \in Threads : HasTurn(u)'
    BY <1>2 DEF GateInv, NoLostTurn
  <2>2. PICK u : u = (CHOOSE v \in Threads : HasTurn(v)')
    OBVIOUS
  <2>3. u \in Threads /\ HasTurn(u)' /\ Holder' = u
    BY <1>2, <2>1, <2>2 DEF Holder
  <2> QED BY <1>1, <1>2, <2>3 DEF GateInv, OneTurn
<1>3. CASE ~held'
  BY <1>1, <1>3 DEF GateInv, NoLostTurn, Holder
<1> QED BY <1>2, <1>3

\* Steps that do not move the turn do not move the holder.
LEMMA HolderFrame ==
  ASSUME GateInv, GateInv', held' = held,
         \A t \in Threads : HasTurn(t)' <=> HasTurn(t)
  PROVE  Holder' = Holder
<1>1. CASE held
  <2>1. Holder \in Threads
    <3>1. PICK t \in Threads : HasTurn(t)
      BY <1>1 DEF GateInv, NoLostTurn
    <3> QED BY <1>1, <3>1, HolderFacts
  <2>2. HasTurn(Holder)
    BY <2>1, HolderFacts
  <2> QED BY <2>1, <2>2, HolderFactsNext
<1>2. CASE ~held
  BY <1>2 DEF Holder
<1> QED BY <1>1, <1>2

\* Every step of the gate is a step of the lock, or none.
LEMMA GateRefinesStep ==
  ASSUME GateInv, GateInv', [Next]_vars
  PROVE  [Lock!LockNext]_(Lock!lockVars)
<1> DEFINE Unmoved == Holder' = Holder /\ waiters' = waiters
<1>1. ASSUME NEW t \in Threads, Call(t) \/ Cancel(t) \/ Wake(t) \/ GiveUp(t) \/ Keep(t)
      PROVE  Unmoved
  <2>1. waiters' = waiters /\ held' = held
    BY <1>1 DEF Call, Cancel, Wake, GiveUp, Keep
  <2>2. \A u \in Threads : HasTurn(u)' <=> HasTurn(u)
    BY <1>1 DEF GateInv, GrantedCallsWait, TypeOK, HasTurn, Call, Cancel, Wake, GiveUp, Keep
  <2> QED BY <2>1, <2>2, HolderFrame
<1>2. ASSUME NEW t \in Threads, TakeFree(t)
      PROVE  Lock!Take(t)
  <2>1. Holder = Nobody /\ waiters = <<>> /\ waiters' = waiters
    BY <1>2 DEF TakeFree, Holder
  <2>2. HasTurn(t)'
    BY <1>2 DEF GateInv, TypeOK, TakeFree, HasTurn
  <2>3. Holder' = t
    BY <2>2, HolderFactsNext
  <2> QED BY <2>1, <2>3 DEF Lock!Take, Lock!FreeLock, Holder
<1>3. ASSUME NEW t \in Threads, Enqueue(t)
      PROVE  Lock!Join(t)
  <2>1. held /\ held' = held /\ waiters' = Append(waiters, t) /\ ~Waiting(t) /\ ~HasTurn(t)
    BY <1>3
    DEF GateInv, NoLostTurn, Enqueue, QueueIsTheWaiters, GrantedCallsWait, HasTurn
  <2>2. \A u \in Threads : HasTurn(u)' <=> HasTurn(u)
    BY <1>3 DEF GateInv, TypeOK, Enqueue, HasTurn
  <2>3. Holder' = Holder /\ Holder # Nobody /\ Holder # t
    BY <2>1, <2>2, HolderFrame, HolderFacts
  <2> QED BY <2>1, <2>3 DEF Lock!Join, Lock!Queued, Waiting, Holder
<1>4. ASSUME NEW t \in Threads, LeaveQueue(t)
      PROVE  Lock!WalkAway(t)
  <2>1. held' = held /\ \A u \in Threads : HasTurn(u)' <=> HasTurn(u)
    BY <1>4 DEF GateInv, TypeOK, LeaveQueue, HasTurn
  <2>2. Holder' = Holder
    BY <2>1, HolderFrame
  <2> QED BY <1>4, <2>2 DEF LeaveQueue, Lock!WalkAway, Holder
<1>5. ASSUME NEW t \in Threads, Release(t) \/ Drop(t) \/ HandOn(t)
      PROVE  Lock!PassOn(t)
  <2>1. HasTurn(t) /\ Handover(t)
    BY <1>5 DEF Release, Drop, HandOn, HasTurn
  <2>2. Holder = t
    BY <2>1, HolderFacts
  <2>3. CASE waiters = <<>>
    <3>1. ~held' /\ waiters' = waiters
      BY <2>1, <2>3 DEF Handover
    <3> QED BY <2>2, <2>3, <3>1 DEF Lock!PassOn, Holder
  <2>4. CASE waiters # <<>>
    <3>1. Head(waiters) \in Threads
      BY <2>4, TailFacts DEF GateInv, TypeOK
    <3>2. granted'[Head(waiters)] /\ waiters' = Tail(waiters)
      BY <2>1, <2>4, <3>1 DEF Handover, GateInv, TypeOK
    <3>3. Holder' = Head(waiters)
      BY <3>1, <3>2, HolderFactsNext DEF HasTurn
    <3> QED BY <2>2, <2>4, <3>2, <3>3 DEF Lock!PassOn, Holder
  <2> QED BY <2>3, <2>4
<1>6. CASE UNCHANGED vars
  BY <1>6 DEF vars, Lock!lockVars, HasTurn
<1> QED
  BY <1>1, <1>2, <1>3, <1>4, <1>5, <1>6
  DEF Next, Progress, Lock!LockNext, Lock!lockVars, Holder

\* The gate implements the FIFO lock: no interleaving of arrivals, grants and
\* cancellations overtakes a waiter or gives the lock to two callers.
THEOREM GateImplementsLock == Spec => Lock!LockSafety
<1>1. Init => Lock!FreeLock
  BY DEF Init, Lock!FreeLock
<1>2. GateInv /\ GateInv' /\ [Next]_vars => [Lock!LockNext]_(Lock!lockVars)
  BY GateRefinesStep
<1> QED BY <1>1, <1>2, GateInvariant, PTL DEF Spec, Lock!LockSafety

-----------------------------------------------------------------------------
(***************************************************************************)
(* The local program's consumer of gifts (PanelRuntime).  While it works   *)
(* on a record nobody prepares another room, so what it has read of the    *)
(* file of the animations still holds when it writes.                      *)
(***************************************************************************)
OfGift(g) == <<g, "gift">>
OfAnimation(g) == <<g, "animation">>
IsQueued(m) == \E i \in DOMAIN inbox : inbox[i] = m
Consumers == [at : {"next", "settle", "file", "ack"}, room : Rooms \cup {NoRoom},
              matched : BOOLEAN, fresh : BOOLEAN, attached : BOOLEAN]
Loops == [at : {"off", "read", "idle", "wait", "prepare", "keys", "start", "running", "stopping"},
          room : Rooms \cup {NoRoom}]

PanelTypes ==
  /\ loop \in Loops
  /\ room \in Rooms \cup {NoRoom} /\ waiting \in SUBSET Presents /\ sent \in SUBSET Messages
  /\ inbox \in Seq(Messages) /\ applied \in SUBSET sent /\ consumer \in Consumers
  /\ receipts \in [Presents -> {"none", "plain", "animated"}]
  /\ settled \in [Messages -> Nat] /\ epoch \in Nat

\* Records come once, and only the first can have been applied.
InboxInv ==
  /\ \A i \in DOMAIN inbox : inbox[i] \in sent /\ (inbox[i] \in applied => i = 1)
  /\ \A i, j \in DOMAIN inbox : inbox[i] = inbox[j] => i = j
  /\ \A m \in Messages : settled[m] # 0 => m \in applied
  /\ \A m \in Messages : settled[m] <= epoch

\* What the consumer knows of the record it works on.
ConsumerInv ==
  /\ loop.at = "keys" => mutex = "loop"
  /\ consumer.at # "next" =>
       /\ mutex = "consumer" /\ inbox # <<>>
       /\ consumer.room = NoRoom \/ prepared = consumer.room
       /\ consumer.matched => Current[2] = "gift"
  /\ consumer.at \in {"settle", "file"} =>
       (Current[2] = "gift" /\ Matches => (consumer.matched <=> Gift \in waiting))
  /\ consumer.at = "settle" => ~consumer.fresh
  /\ consumer.at \in {"file", "ack"} => Current \in applied
  /\ consumer.at = "file" /\ consumer.fresh /\ Current[2] = "animation" =>
       /\ consumer.attached => OfGift(Gift) \in applied
       /\ settled[Current] # 0 => (consumer.attached <=> receipts[Gift] # "none")
  /\ consumer.at = "ack" /\ Matches =>
       /\ Current[2] = "gift" => Gift \notin waiting
       /\ Current[2] = "animation" /\ OfGift(Gift) \notin applied => Gift \in waiting

\* A gift and its animation.
PairInv(g) ==
  /\ g \in waiting => OfAnimation(g) \in applied /\ RoomOf[g] = prepared
  /\ receipts[g] # "none" => OfGift(g) \in applied
  /\ settled[OfGift(g)] # 0 => receipts[g] # "none"
  /\ settled[OfGift(g)] # 0 /\ settled[OfGift(g)] = settled[OfAnimation(g)] => receipts[g] = "animated"
  /\ (settled[OfAnimation(g)] # 0 /\ settled[OfAnimation(g)] = epoch /\ ~IsQueued(OfAnimation(g)) /\ OfGift(g) \notin applied)
       => g \in waiting
  /\ settled[OfGift(g)] # 0 /\ ~IsQueued(OfGift(g)) /\ settled[OfAnimation(g)] = settled[OfGift(g)] => g \notin waiting

PanelInv == PanelTypes /\ InboxInv /\ ConsumerInv /\ \A g \in Presents : PairInv(g)

LEMMA MessagesAreParts ==
  /\ \A g \in Presents : OfGift(g) \in Messages /\ OfAnimation(g) \in Messages /\ OfGift(g) # OfAnimation(g)
  /\ \A m \in Messages : /\ m[1] \in Presents /\ m[2] \in {"gift", "animation"}
                         /\ m[2] = "gift" => m = OfGift(m[1])
                         /\ m[2] = "animation" => m = OfAnimation(m[1])
  /\ \A g, h \in Presents : (OfGift(g) = OfGift(h) => g = h) /\ (OfAnimation(g) = OfAnimation(h) => g = h)
                            /\ OfGift(g) # OfAnimation(h)
  /\ \A g \in Presents : OfGift(g)[1] = g /\ OfGift(g)[2] = "gift" /\ OfAnimation(g)[1] = g /\ OfAnimation(g)[2] = "animation"
BY DEF Messages, Parts, OfGift, OfAnimation

LEMMA CurrentRecord ==
  ASSUME PanelTypes, InboxInv, inbox # <<>>
  PROVE  /\ Current \in Messages /\ Gift \in Presents /\ Current[1] = Gift /\ IsQueued(Current) /\ 1 \in DOMAIN inbox
         /\ Current = inbox[1] /\ Current \in sent
         /\ \A m \in applied : IsQueued(m) => m = Current
<1>1. inbox \in Seq(Messages) /\ Len(inbox) \in Nat /\ Len(inbox) # 0 /\ DOMAIN inbox = 1..Len(inbox)
  BY DEF PanelTypes
<1>2. 1 \in DOMAIN inbox /\ Current = inbox[1] /\ inbox[1] \in Messages
  BY <1>1 DEF Current
<1>3. Gift \in Presents /\ Gift = Current[1]
  BY <1>2, MessagesAreParts DEF Gift
<1> QED
  BY <1>2, <1>3 DEF InboxInv, IsQueued

\* The receipts stay, or are emptied because one room follows another.
Emptied ==
  receipts' = [g \in Presents |-> "none"] /\ settled' = [m \in Messages |-> 0]

\* What concerns a gift and its animation stays as it is, or its receipt is gone.
LEMMA PairsStay ==
  ASSUME PanelInv, UNCHANGED <<prepared, waiting, inbox, applied, epoch>>,
         UNCHANGED <<receipts, settled>> \/ Emptied
  PROVE  \A g \in Presents : PairInv(g)'
<1>1. CASE UNCHANGED <<receipts, settled>>
  BY <1>1 DEF PanelInv, PairInv, IsQueued
<1>2. CASE Emptied
  <2> SUFFICES ASSUME NEW g \in Presents PROVE PairInv(g)'
    OBVIOUS
  <2>1. receipts'[g] = "none" /\ settled'[OfGift(g)] = 0 /\ settled'[OfAnimation(g)] = 0
    BY <1>2, MessagesAreParts DEF Emptied
  <2>2. g \in waiting => OfAnimation(g) \in applied /\ RoomOf[g] = prepared
    BY DEF PanelInv, PairInv
  <2> QED
    BY <2>1, <2>2 DEF PairInv
<1> QED
  BY <1>1, <1>2

LEMMA QuietSteps ==
  ASSUME PanelInv, room' \in Rooms \cup {NoRoom}, loop'.at = "keys" => mutex' = "loop",
         UNCHANGED <<prepared, waiting, sent, inbox, applied, epoch>>,
         UNCHANGED <<receipts, settled>> \/ Emptied,
         consumer' = Resting \/ (UNCHANGED consumer /\ (consumer.at # "next" => UNCHANGED mutex)), loop' \in Loops
  PROVE  PanelInv'
<1>1. Resting \in Consumers /\ Resting.at = "next"
  BY DEF Resting, Consumers
<1>2. /\ receipts' \in [Presents -> {"none", "plain", "animated"}] /\ settled' \in [Messages -> Nat]
      /\ \A m \in Messages : settled'[m] = settled[m] \/ settled'[m] = 0
  BY DEF PanelInv, PanelTypes, Emptied
<1>3. PanelTypes'
  BY <1>1, <1>2 DEF PanelInv, PanelTypes
<1>4. InboxInv'
  <2>1. \A m \in Messages : (settled'[m] # 0 => m \in applied) /\ settled'[m] <= epoch
    BY <1>2 DEF PanelInv, PanelTypes, InboxInv
  <2> QED
    BY <2>1 DEF PanelInv, InboxInv
<1>5. CASE consumer' = Resting
  <2>1. ConsumerInv'
    BY <1>1, <1>5 DEF ConsumerInv
  <2> QED
    BY <1>3, <1>4, <2>1, PairsStay DEF PanelInv
<1>6. CASE UNCHANGED consumer /\ (consumer.at # "next" => UNCHANGED mutex)
  <2>1. UNCHANGED <<Current, Gift, Matches>>
    BY <1>6 DEF Current, Gift, Matches
  <2>2. consumer.at = "file" => Current \in Messages
    BY CurrentRecord DEF PanelInv, ConsumerInv
  <2>3. consumer.at = "file" => settled'[Current] = 0 \/ UNCHANGED <<receipts, settled>>
    BY <2>2 DEF Emptied
  <2>4. ConsumerInv'
    BY <1>6, <2>1, <2>3 DEF PanelInv, ConsumerInv
  <2> QED
    BY <1>3, <1>4, <2>4, PairsStay DEF PanelInv
<1> QED
  BY <1>5, <1>6

LEMMA Preparing ==
  ASSUME PanelInv, WritePrepared
  PROVE  PanelInv'
<1>1. loop.at = "keys" /\ mutex = "loop" /\ consumer.at = "next" /\ mutex' = "free"
      /\ UNCHANGED <<room, sent, inbox, consumer, applied, receipts, settled>>
  BY DEF WritePrepared, PanelInv, ConsumerInv, ledger, settings
<1>2. loop'.at # "keys" /\ loop' \in Loops
  <2>1. loop \in Loops /\ (LoopAt("start") \/ LoopAt("wait"))
    BY DEF PanelInv, PanelTypes, WritePrepared
  <2> QED
    BY <2>1 DEF LoopAt, Loops
<1>3. CASE UNCHANGED <<prepared, waiting, epoch>>
  BY <1>1, <1>2, <1>3, QuietSteps DEF PanelInv, PanelTypes
<1>4. CASE epoch' = epoch + 1 /\ waiting' = {g \in waiting : prepared # NoRoom /\ RoomOf[g] # prepared}
  <2>1. waiting' = {}
    BY <1>4 DEF PanelInv, PairInv, PanelTypes
  <2>2. PanelTypes' /\ ConsumerInv'
    BY <1>1, <1>2, <1>4, <2>1 DEF PanelInv, PanelTypes, ConsumerInv
  <2>3. InboxInv'
    BY <1>1, <1>4 DEF PanelInv, PanelTypes, InboxInv
  <2>4. ASSUME NEW g \in Presents PROVE PairInv(g)'
    <3>1. settled[OfAnimation(g)] # epoch + 1
      BY MessagesAreParts DEF PanelInv, PanelTypes, InboxInv
    <3> QED
      BY <1>1, <1>4, <2>1, <3>1 DEF PanelInv, PairInv, IsQueued
  <2> QED
    BY <2>2, <2>3, <2>4 DEF PanelInv
<1> QED
  BY <1>3, <1>4 DEF WritePrepared

LEMMA Accepting ==
  ASSUME PanelInv, NEW m \in Messages, AcceptMessage(m)
  PROVE  PanelInv'
<1>1. /\ m \notin sent /\ m \notin applied /\ sent' = sent \cup {m} /\ inbox' = Append(inbox, m)
      /\ UNCHANGED <<room, loop, mutex, prepared, waiting, consumer, applied, receipts, settled, epoch>>
  BY DEF AcceptMessage, connection, PanelInv, PanelTypes, settings
<1>2. /\ inbox \in Seq(Messages) /\ Len(inbox) \in Nat /\ DOMAIN inbox = 1..Len(inbox)
      /\ inbox' \in Seq(Messages) /\ DOMAIN inbox' = 1..(Len(inbox) + 1) /\ inbox'[Len(inbox) + 1] = m
      /\ \A i \in DOMAIN inbox : inbox'[i] = inbox[i]
  BY <1>1 DEF PanelInv, PanelTypes
<1>3. \A i \in DOMAIN inbox' : i \in DOMAIN inbox \/ i = Len(inbox) + 1
  BY <1>2
<1>4. \A i \in DOMAIN inbox : i \in DOMAIN inbox'
  BY <1>2
<1>5. PanelTypes'
  BY <1>1, <1>2 DEF PanelInv, PanelTypes
<1>6. InboxInv'
  <2>1. \A i \in DOMAIN inbox' : inbox'[i] \in sent' /\ (inbox'[i] \in applied => i = 1)
    BY <1>1, <1>2, <1>3 DEF PanelInv, InboxInv
  <2>2. \A i, j \in DOMAIN inbox' : inbox'[i] = inbox'[j] => i = j
    BY <1>1, <1>2, <1>3 DEF PanelInv, InboxInv
  <2>3. \A n \in Messages : settled[n] # 0 => n \in applied /\ settled[n] <= epoch
    BY DEF PanelInv, InboxInv
  <2> QED
    BY <1>1, <2>1, <2>2 DEF PanelInv, InboxInv
<1>7. \A n \in applied : IsQueued(n)' <=> IsQueued(n)
  BY <1>1, <1>2, <1>3, <1>4 DEF IsQueued
<1>8. \A g \in Presents : PairInv(g)'
  BY <1>1, <1>7, MessagesAreParts DEF PanelInv, PairInv, InboxInv
<1>9. ConsumerInv'
  <2>1. CASE consumer.at = "next"
    BY <1>1, <2>1 DEF PanelInv, ConsumerInv
  <2>2. CASE consumer.at # "next"
    <3>1. inbox # <<>>
      BY <2>2 DEF PanelInv, ConsumerInv
    <3>2. 1 \in DOMAIN inbox /\ inbox' # <<>>
      BY <1>2, <3>1, CurrentRecord DEF PanelInv
    <3>3. Head(inbox') = Head(inbox)
      BY <1>2, <3>1, <3>2
    <3>4. UNCHANGED <<Current, Gift, Matches>>
      BY <1>1, <3>3 DEF Current, Gift, Matches
    <3> QED
      BY <1>1, <3>2, <3>4 DEF PanelInv, ConsumerInv
  <2> QED
    BY <2>1, <2>2
<1> QED
  BY <1>5, <1>6, <1>8, <1>9 DEF PanelInv

LEMMA Claiming ==
  ASSUME PanelInv, Claim
  PROVE  PanelInv'
<1>1. /\ consumer.at = "next" /\ inbox # <<>> /\ mutex = "free" /\ mutex' = "consumer" /\ loop.at # "keys"
      /\ room = NoRoom \/ prepared = room
      /\ consumer' = [Resting EXCEPT !.at = "settle", !.room = room,
                        !.matched = RoomOf[Gift] = room /\ Current[2] = "gift" /\ Gift \in waiting]
      /\ UNCHANGED <<room, loop, prepared, waiting, sent, inbox, applied, receipts, settled, epoch>>
  BY DEF Claim, connection, PanelInv, ConsumerInv, settings
<1>2. PICK matched \in BOOLEAN : matched = (RoomOf[Gift] = room /\ Current[2] = "gift" /\ Gift \in waiting)
  OBVIOUS
<1>3. consumer' = [Resting EXCEPT !.at = "settle", !.room = room, !.matched = matched] /\ room \in Rooms \cup {NoRoom}
  BY <1>1, <1>2 DEF PanelInv, PanelTypes
<1>4. /\ consumer' \in Consumers /\ consumer'.at = "settle" /\ consumer'.room = room /\ consumer'.matched = matched
      /\ ~consumer'.fresh
  BY <1>3 DEF Consumers, Resting
<1>5. PanelTypes' /\ InboxInv'
  BY <1>1, <1>4 DEF PanelInv, PanelTypes, InboxInv
<1>6. Current' = Current /\ Gift' = Gift /\ (Matches' <=> RoomOf[Gift] = room)
  BY <1>1, <1>4 DEF Current, Gift, Matches
<1>7. ConsumerInv'
  BY <1>1, <1>2, <1>4, <1>6 DEF ConsumerInv
<1>8. \A g \in Presents : PairInv(g)'
  BY <1>1, PairsStay
<1> QED
  BY <1>5, <1>7, <1>8 DEF PanelInv

LEMMA Settling ==
  ASSUME PanelInv, Settle
  PROVE  PanelInv'
<1>1. /\ consumer.at = "settle" /\ inbox # <<>> /\ mutex = "consumer" /\ loop.at # "keys"
      /\ UNCHANGED <<room, loop, prepared, waiting, sent, inbox, epoch>>
      /\ PanelTypes /\ InboxInv /\ ConsumerInv /\ \A g \in Presents : PairInv(g)
  BY DEF Settle, PanelInv, ConsumerInv, connection, settings
<1>2. /\ Current \in Messages /\ Gift \in Presents /\ Current[1] = Gift /\ IsQueued(Current) /\ 1 \in DOMAIN inbox
      /\ Current = inbox[1] /\ Current \in sent
      /\ \A m \in applied : IsQueued(m) => m = Current
  BY <1>1, CurrentRecord
<1>0. PICK h \in Presents : h = Gift
  BY <1>2
<1>3. consumer \in Consumers /\ ~consumer.fresh
  BY <1>1 DEF PanelTypes, ConsumerInv
<1>4. CASE room # consumer.room /\ Current \notin applied
  BY <1>1, <1>4, QuietSteps DEF Settle, Released, PanelTypes
<1>5. CASE Current \in applied
  <2>1. consumer' = [consumer EXCEPT !.at = "file"] /\ UNCHANGED <<mutex, applied, receipts, settled>>
    BY <1>5 DEF Settle
  <2>2. /\ consumer' \in Consumers /\ consumer'.at = "file" /\ consumer'.room = consumer.room
        /\ consumer'.matched = consumer.matched /\ ~consumer'.fresh
    BY <1>3, <2>1 DEF Consumers
  <2>3. UNCHANGED <<Current, Gift, Matches>>
    BY <1>1, <2>2 DEF Current, Gift, Matches
  <2>4. PanelTypes' /\ InboxInv'
    BY <1>1, <2>1, <2>2 DEF PanelTypes, InboxInv
  <2>5. ConsumerInv'
    BY <1>1, <1>5, <2>1, <2>2, <2>3 DEF ConsumerInv
  <2> QED
    BY <1>1, <2>1, <2>4, <2>5, PairsStay DEF PanelInv
<1>6. CASE room = consumer.room /\ Current \notin applied
  <2>1. /\ applied' = applied \cup {Current} /\ UNCHANGED mutex
        /\ consumer' = [consumer EXCEPT !.at = "file", !.fresh = TRUE, !.attached = Attaches]
        /\ receipts' = IF Matches /\ Current[2] = "gift"
                       THEN [receipts EXCEPT ![Gift] = IF consumer.matched THEN "animated" ELSE "plain"]
                       ELSE IF Matches /\ Attaches THEN [receipts EXCEPT ![Gift] = "animated"] ELSE receipts
        /\ settled' = IF Matches THEN [settled EXCEPT ![Current] = epoch] ELSE settled
    BY <1>6 DEF Settle, SettleAnew
  <2>2. PICK attached \in BOOLEAN : attached = Attaches
    BY DEF Attaches
  <2>3. /\ consumer' \in Consumers /\ consumer'.at = "file" /\ consumer'.room = consumer.room
        /\ consumer'.matched = consumer.matched /\ consumer'.fresh /\ consumer'.attached = attached
    BY <1>3, <2>1, <2>2 DEF Consumers
  <2>4. UNCHANGED <<Current, Gift, Matches>>
    BY <1>1, <2>3 DEF Current, Gift, Matches
  <2>5. /\ receipts \in [Presents -> {"none", "plain", "animated"}] /\ settled \in [Messages -> Nat] /\ epoch \in Nat
        /\ receipts' \in [Presents -> {"none", "plain", "animated"}] /\ settled' \in [Messages -> Nat]
    BY <1>1, <1>2, <2>1 DEF PanelTypes
  <2>6. /\ \A g \in Presents \ {Gift} : receipts'[g] = receipts[g]
        /\ \A m \in Messages \ {Current} : settled'[m] = settled[m]
        /\ settled[Current] = 0
        /\ settled'[Current] = IF Matches THEN epoch ELSE 0
    BY <1>1, <1>2, <1>6, <2>1, <2>5 DEF InboxInv
  <2>7. PanelTypes'
    BY <1>1, <1>2, <2>1, <2>3, <2>5 DEF PanelTypes
  <2>8. InboxInv'
    <3>1. \A i \in DOMAIN inbox : inbox[i] \in sent /\ (inbox[i] \in applied' => i = 1)
      BY <1>1, <1>2, <2>1 DEF InboxInv
    <3>2. \A m \in Messages : settled'[m] # 0 => m \in applied'
      BY <1>1, <2>1, <2>6 DEF InboxInv
    <3>3. \A m \in Messages : settled'[m] <= epoch
      BY <1>1, <2>5, <2>6 DEF InboxInv
    <3> QED
      BY <1>1, <3>1, <3>2, <3>3 DEF InboxInv
  <2>9. Matches /\ Current[2] = "gift" => (consumer.matched <=> Gift \in waiting)
    BY <1>1 DEF ConsumerInv
  <2>10. \A m \in Messages : IsQueued(m)' <=> IsQueued(m)
    BY <1>1 DEF IsQueued
  <2>11. ASSUME NEW g \in Presents \ {Gift} PROVE PairInv(g)'
    <3>1. OfGift(g) # Current /\ OfAnimation(g) # Current /\ OfGift(g) \in Messages /\ OfAnimation(g) \in Messages
      BY <1>2, MessagesAreParts
    <3>2. (OfGift(g) \in applied' <=> OfGift(g) \in applied) /\ (OfAnimation(g) \in applied' <=> OfAnimation(g) \in applied)
      BY <2>1, <3>1
    <3> QED
      BY <1>1, <2>5, <2>6, <2>10, <3>1, <3>2 DEF PairInv
  <2>12. CASE Current[2] = "gift"
    <3>1. Current = OfGift(Gift) /\ OfAnimation(Gift) \in Messages /\ OfAnimation(Gift) # Current
      BY <1>2, <2>12, MessagesAreParts
    <3>2. OfGift(Gift) \in applied' /\ (OfAnimation(Gift) \in applied' <=> OfAnimation(Gift) \in applied)
      BY <2>1, <3>1
    <3>3. settled[OfAnimation(Gift)] # 0 => OfAnimation(Gift) \in applied /\ ~IsQueued(OfAnimation(Gift))
      BY <1>1, <1>2, <3>1 DEF InboxInv
    <3>4. settled[OfAnimation(Gift)] # 0 /\ settled[OfAnimation(Gift)] = epoch => Gift \in waiting
      BY <1>1, <1>2, <1>6, <3>1, <3>3 DEF PairInv
    <3>5. receipts'[Gift] = IF Matches THEN IF consumer.matched THEN "animated" ELSE "plain" ELSE receipts[Gift]
      BY <1>2, <2>1, <2>5, <2>12 DEF Attaches
    <3>6. PairInv(h)'
      <4>1. settled'[OfAnimation(h)] = settled[OfAnimation(h)] /\ settled'[OfGift(h)] = IF Matches THEN epoch ELSE 0
        BY <1>0, <2>6, <3>1
      <4>2. OfGift(h) \in applied' /\ (OfAnimation(h) \in applied' <=> OfAnimation(h) \in applied) /\ IsQueued(OfGift(h))'
        BY <1>0, <1>2, <2>10, <3>1, <3>2
      <4>3. settled'[OfGift(h)] # 0 => receipts'[h] # "none"
        BY <1>0, <3>5, <4>1
      <4>4. settled'[OfGift(h)] # 0 /\ settled'[OfGift(h)] = settled'[OfAnimation(h)] => receipts'[h] = "animated"
        BY <1>0, <2>9, <2>12, <3>4, <3>5, <4>1
      <4>5. h \in waiting => OfAnimation(h) \in applied /\ RoomOf[h] = prepared
        BY <1>1 DEF PairInv
      <4> QED
        BY <1>1, <4>2, <4>3, <4>4, <4>5 DEF PairInv
    <3>7. ConsumerInv'
      BY <1>1, <2>1, <2>3, <2>4, <2>9, <2>12 DEF ConsumerInv
    <3> QED
      BY <1>0, <2>7, <2>8, <2>11, <3>6, <3>7 DEF PanelInv
  <2>13. CASE Current[2] = "animation"
    <3>1. Current = OfAnimation(Gift) /\ OfGift(Gift) \in Messages /\ OfGift(Gift) # Current
      BY <1>2, <2>13, MessagesAreParts
    <3>2. OfAnimation(Gift) \in applied' /\ (OfGift(Gift) \in applied' <=> OfGift(Gift) \in applied)
      BY <2>1, <3>1
    <3>3. attached <=> receipts[Gift] # "none"
      BY <2>2, <2>13 DEF Attaches
    <3>4. receipts'[Gift] = IF Matches /\ receipts[Gift] # "none" THEN "animated" ELSE receipts[Gift]
      BY <1>2, <2>1, <2>5, <2>13 DEF Attaches
    <3>5. Gift \notin waiting
      BY <1>1, <1>2, <1>6, <3>1 DEF PairInv
    <3>6. PairInv(h)'
      BY <1>0, <1>1, <1>2, <2>5, <2>6, <2>10, <3>1, <3>2, <3>4, <3>5 DEF PairInv
    <3>7. ConsumerInv'
      <4>1. /\ consumer'.attached <=> receipts'[Gift] # "none"
            /\ consumer'.attached => OfGift(Gift) \in applied'
        BY <1>1, <1>2, <2>1, <2>3, <3>3, <3>4 DEF PairInv
      <4>2. ~consumer.matched
        BY <1>1, <2>13 DEF ConsumerInv
      <4> QED
        BY <1>1, <2>1, <2>3, <2>4, <2>13, <4>1, <4>2 DEF ConsumerInv
    <3> QED
      BY <1>0, <2>7, <2>8, <2>11, <3>6, <3>7 DEF PanelInv
  <2> QED
    BY <1>2, <2>12, <2>13, MessagesAreParts
<1> QED
  BY <1>4, <1>5, <1>6

LEMMA WritingAnimations ==
  ASSUME PanelInv, WriteAnimations
  PROVE  PanelInv'
<1>1. /\ consumer.at = "file" /\ inbox # <<>> /\ mutex = "consumer" /\ loop.at # "keys" /\ Current \in applied
      /\ UNCHANGED <<room, loop, mutex, prepared, sent, inbox, applied, receipts, settled, epoch>>
      /\ PanelTypes /\ InboxInv /\ ConsumerInv /\ \A g \in Presents : PairInv(g)
      /\ consumer' = [consumer EXCEPT !.at = "ack"]
  BY DEF WriteAnimations, PanelInv, ConsumerInv, connection, settings
<1>2. /\ Current \in Messages /\ Gift \in Presents /\ Current[1] = Gift /\ IsQueued(Current)
  BY <1>1, CurrentRecord
<1>0. PICK h \in Presents : h = Gift
  BY <1>2
<1>3. consumer \in Consumers
  BY <1>1 DEF PanelTypes
<1>4. /\ consumer' \in Consumers /\ consumer'.at = "ack" /\ consumer'.room = consumer.room
      /\ consumer'.matched = consumer.matched
  BY <1>1, <1>3 DEF Consumers
<1>5. UNCHANGED <<Current, Gift, Matches>>
  BY <1>1, <1>4 DEF Current, Gift, Matches
<1>6. waiting' = IF Matches /\ Current[2] = "animation" /\ ~IsAttached THEN waiting \cup {Gift}
                 ELSE IF consumer.matched THEN waiting \ {Gift} ELSE waiting
  BY DEF WriteAnimations
<1>7. PanelTypes' /\ InboxInv' /\ \A g \in Presents \ {Gift} : g \in waiting' <=> g \in waiting
  BY <1>1, <1>2, <1>4, <1>6 DEF PanelTypes, InboxInv
<1>8. \A g \in Presents \ {Gift} : PairInv(g)'
  BY <1>1, <1>7 DEF PairInv, IsQueued
<1>9. CASE Current[2] = "gift"
  <2>1. Current = OfGift(Gift)
    BY <1>2, <1>9, MessagesAreParts
  <2>2. waiting' = IF consumer.matched THEN waiting \ {Gift} ELSE waiting
    BY <1>6, <1>9
  <2>3. Matches => Gift \notin waiting'
    BY <1>1, <1>9, <2>2 DEF ConsumerInv
  <2>4. ConsumerInv'
    BY <1>1, <1>4, <1>5, <1>9, <2>3 DEF ConsumerInv
  <2>5. PairInv(h)'
    BY <1>0, <1>1, <1>2, <2>1, <2>2 DEF PairInv, IsQueued
  <2> QED
    BY <1>0, <1>7, <1>8, <2>4, <2>5 DEF PanelInv
<1>10. CASE Current[2] = "animation"
  <2>1. Current = OfAnimation(Gift) /\ ~consumer.matched
    BY <1>1, <1>2, <1>10, MessagesAreParts DEF ConsumerInv
  <2>2. waiting' = IF Matches /\ ~IsAttached THEN waiting \cup {Gift} ELSE waiting
    BY <1>6, <1>10, <2>1
  <2>3. settled[Current] # 0 /\ receipts[Gift] = "animated" => IsAttached
    BY <1>1, <1>10 DEF ConsumerInv, IsAttached
  <2>4. OfGift(Gift) \notin applied => ~IsAttached
    BY <1>1, <1>2, <1>10 DEF ConsumerInv, IsAttached, PairInv
  <2>5. Matches => RoomOf[Gift] = prepared
    BY <1>1, <1>2, RuntimeAssumption DEF ConsumerInv, Matches
  <2>6. ConsumerInv'
    <3>1. Matches /\ OfGift(Gift) \notin applied => Gift \in waiting'
      BY <2>2, <2>4
    <3> QED
      BY <1>1, <1>4, <1>5, <1>10, <3>1 DEF ConsumerInv
  <2>7. PairInv(h)'
    BY <1>0, <1>1, <1>2, <2>1, <2>2, <2>3, <2>5 DEF PairInv, IsQueued
  <2> QED
    BY <1>0, <1>7, <1>8, <2>6, <2>7 DEF PanelInv
<1> QED
  BY <1>2, <1>9, <1>10, MessagesAreParts

LEMMA Acknowledging ==
  ASSUME PanelInv, Acknowledge
  PROVE  PanelInv'
<1>1. /\ consumer.at = "ack" /\ inbox # <<>> /\ mutex' = "free" /\ loop.at # "keys" /\ Current \in applied
      /\ inbox' = Tail(inbox) /\ consumer' = Resting
      /\ settled' = [settled EXCEPT ![Current] = IF Matches THEN @ ELSE 0]
      /\ UNCHANGED <<room, loop, prepared, waiting, sent, applied, receipts, epoch>>
      /\ PanelTypes /\ InboxInv /\ ConsumerInv /\ \A g \in Presents : PairInv(g)
  BY DEF Acknowledge, PanelInv, ConsumerInv, connection, Released, settings
<1>2. /\ Current \in Messages /\ Gift \in Presents /\ Current[1] = Gift /\ IsQueued(Current)
      /\ Current = inbox[1] /\ 1 \in DOMAIN inbox
  BY <1>1, CurrentRecord
<1>0. PICK h \in Presents : h = Gift
  BY <1>2
<1>3. /\ inbox \in Seq(Messages) /\ Len(inbox) \in Nat /\ Len(inbox) # 0 /\ DOMAIN inbox = 1..Len(inbox)
      /\ inbox' \in Seq(Messages) /\ DOMAIN inbox' = 1..(Len(inbox) - 1)
      /\ \A i \in DOMAIN inbox' : inbox'[i] = inbox[i + 1] /\ i + 1 \in DOMAIN inbox /\ i + 1 # 1
  BY <1>1 DEF PanelTypes
<1>4. \A i \in DOMAIN inbox : i # 1 => i - 1 \in DOMAIN inbox' /\ inbox'[i - 1] = inbox[i]
  BY <1>3
<1>5. /\ settled \in [Messages -> Nat] /\ settled' \in [Messages -> Nat]
      /\ \A m \in Messages \ {Current} : settled'[m] = settled[m]
      /\ settled'[Current] = IF Matches THEN settled[Current] ELSE 0
  BY <1>1, <1>2 DEF PanelTypes
<1>6. Resting \in Consumers /\ Resting.at = "next"
  BY DEF Resting, Consumers
<1>7. PanelTypes' /\ ConsumerInv'
  BY <1>1, <1>3, <1>5, <1>6 DEF PanelTypes, ConsumerInv
<1>8. InboxInv'
  <2>1. \A i \in DOMAIN inbox' : inbox'[i] \in sent /\ inbox'[i] \notin applied
    BY <1>1, <1>3 DEF InboxInv
  <2>2. \A i, j \in DOMAIN inbox' : inbox'[i] = inbox'[j] => i = j
    <3>1. \A i, j \in DOMAIN inbox' : inbox'[i] = inbox'[j] => i + 1 = j + 1
      BY <1>1, <1>3 DEF InboxInv
    <3>2. \A i, j \in DOMAIN inbox' : i + 1 = j + 1 => i = j
      BY <1>3
    <3> QED
      BY <3>1, <3>2
  <2>3. \A m \in Messages : (settled'[m] # 0 => m \in applied) /\ settled'[m] <= epoch
    BY <1>1, <1>5 DEF InboxInv, PanelTypes
  <2> QED
    BY <1>1, <2>1, <2>2, <2>3 DEF InboxInv
<1>9. \A m \in Messages \ {Current} : IsQueued(m)' <=> IsQueued(m)
  <2> SUFFICES ASSUME NEW m \in Messages, m # Current PROVE IsQueued(m)' <=> IsQueued(m)
    OBVIOUS
  <2>1. ASSUME NEW i \in DOMAIN inbox', inbox'[i] = m PROVE IsQueued(m)
    BY <1>3, <2>1 DEF IsQueued
  <2>2. ASSUME NEW i \in DOMAIN inbox, inbox[i] = m PROVE IsQueued(m)'
    <3>1. i - 1 \in DOMAIN inbox' /\ inbox'[i - 1] = m
      BY <1>2, <1>4, <2>2
    <3> QED
      BY <3>1 DEF IsQueued
  <2> QED
    BY <2>1, <2>2 DEF IsQueued
<1>10. ASSUME NEW g \in Presents \ {Gift} PROVE PairInv(g)'
  <2>1. OfGift(g) # Current /\ OfAnimation(g) # Current /\ OfGift(g) \in Messages /\ OfAnimation(g) \in Messages
    BY <1>2, MessagesAreParts
  <2> QED
    BY <1>1, <1>5, <1>9, <2>1 DEF PairInv
<1>11. CASE Current[2] = "gift"
  <2>1. Current = OfGift(Gift) /\ OfAnimation(Gift) \in Messages /\ OfAnimation(Gift) # Current
    BY <1>2, <1>11, MessagesAreParts
  <2>2. Matches => Gift \notin waiting
    BY <1>1, <1>11 DEF ConsumerInv
  <2>3. PairInv(h)'
    BY <1>0, <1>1, <1>2, <1>5, <1>9, <2>1, <2>2 DEF PairInv
  <2> QED
    BY <1>0, <1>7, <1>8, <1>10, <2>3 DEF PanelInv
<1>12. CASE Current[2] = "animation"
  <2>1. Current = OfAnimation(Gift) /\ OfGift(Gift) \in Messages /\ OfGift(Gift) # Current
    BY <1>2, <1>12, MessagesAreParts
  <2>2. Matches /\ OfGift(Gift) \notin applied => Gift \in waiting
    BY <1>1, <1>12 DEF ConsumerInv
  <2>3. settled[OfGift(Gift)] # 0 => OfGift(Gift) \in applied
    BY <1>1, <2>1 DEF InboxInv
  <2>4. PairInv(h)'
    BY <1>0, <1>1, <1>2, <1>5, <1>9, <2>1, <2>2, <2>3 DEF PairInv
  <2> QED
    BY <1>0, <1>7, <1>8, <1>10, <2>4 DEF PanelInv
<1> QED
  BY <1>2, <1>11, <1>12, MessagesAreParts

LEMMA LoopGoesOn ==
  ASSUME PanelTypes
  PROVE  \A place \in {"off", "read", "idle", "wait", "prepare", "keys", "start", "running", "stopping"} :
           /\ LoopAt(place) => loop' \in Loops /\ loop'.at = place
           /\ \A r \in Rooms \cup {NoRoom} : loop' = [at |-> place, room |-> r] => loop' \in Loops /\ loop'.at = place
BY DEF PanelTypes, Loops, LoopAt

LEMMA PanelInvInit == PanelInit => PanelInv
<1> SUFFICES ASSUME PanelInit PROVE PanelInv
  OBVIOUS
<1>1. Resting \in Consumers /\ Resting.at = "next" /\ [at |-> "off", room |-> NoRoom] \in Loops
  BY DEF Resting, Consumers, Loops
<1>2. inbox = <<>> /\ <<>> \in Seq(Messages) /\ DOMAIN inbox = {}
  BY DEF PanelInit
<1>3. /\ receipts \in [Presents -> {"none", "plain", "animated"}] /\ settled \in [Messages -> Nat]
      /\ \A m \in Messages : settled[m] = 0
  BY DEF PanelInit
<1>4. PanelTypes
  BY <1>1, <1>2, <1>3 DEF PanelInit, PanelTypes
<1>5. InboxInv /\ ConsumerInv
  BY <1>1, <1>2, <1>3 DEF PanelInit, InboxInv, ConsumerInv
<1>6. \A g \in Presents : PairInv(g)
  BY <1>3, MessagesAreParts DEF PanelInit, PairInv
<1> QED
  BY <1>4, <1>5, <1>6 DEF PanelInv

LEMMA PanelInvNext == PanelInv /\ [PanelNext]_panelVars => PanelInv'
<1> SUFFICES ASSUME PanelInv, [PanelNext]_panelVars PROVE PanelInv'
  OBVIOUS
<1> DEFINE Same == UNCHANGED <<prepared, waiting, sent, inbox, applied, receipts, settled, epoch>>
<1>1. PanelTypes /\ loop \in Loops /\ room \in Rooms \cup {NoRoom} /\ (loop.at = "keys" => mutex = "loop")
      /\ (consumer.at # "next" => mutex = "consumer")
  BY DEF PanelInv, PanelTypes, ConsumerInv
<1>2. ASSUME Same, UNCHANGED <<room, mutex, consumer>>, loop' \in Loops, loop'.at # "keys" \/ loop' = loop PROVE PanelInv'
  BY <1>1, <1>2, QuietSteps
<1>3. CASE UNCHANGED panelVars
  BY <1>1, <1>2, <1>3 DEF panelVars, settings, connection, ledger
<1>4. ASSUME NEW r \in Rooms \cup {NoRoom}, ChangeRoom(r) PROVE PanelInv'
  <2>1. /\ UNCHANGED <<prepared, waiting, sent, inbox, applied, epoch, loop, mutex, consumer>>
        /\ room' \in Rooms \cup {NoRoom} /\ (UNCHANGED <<receipts, settled>> \/ Emptied)
    BY <1>1, <1>4 DEF ChangeRoom, Enters, Emptied, connection
  <2> QED
    BY <1>1, <2>1, QuietSteps
<1>5. ASSUME NEW r \in Rooms \cup {NoRoom}, Recover(r) PROVE PanelInv'
  <2>1. /\ UNCHANGED <<prepared, waiting, sent, inbox, applied, epoch, loop, mutex, consumer>>
        /\ room' \in Rooms \cup {NoRoom} /\ (UNCHANGED <<receipts, settled>> \/ Emptied)
    BY <1>1, <1>5 DEF Recover, Enters, Emptied, connection
  <2> QED
    BY <1>1, <2>1, QuietSteps
<1>6. CASE Announce \/ RecoveryFails
  BY <1>1, <1>2, <1>6 DEF Announce, RecoveryFails, connection, ledger
<1>7. CASE Launch \/ ReadRoom
  BY <1>1, <1>2, <1>7, LoopGoesOn DEF Launch, ReadRoom, settings, ledger
<1>8. CASE WakeLoop \/ Start \/ CancelConnection \/ FeedEnds
  BY <1>1, <1>2, <1>8, LoopGoesOn DEF WakeLoop, Start, CancelConnection, FeedEnds, settings, ledger
<1>9. CASE FeedConnects \/ FeedFails \/ ReconnectFeed
  BY <1>1, <1>2, <1>9 DEF FeedConnects, FeedFails, ReconnectFeed, settings, ledger
<1>10. CASE Prepare
  <2>1. mutex = "free" /\ UNCHANGED <<room, consumer>> /\ Same
    BY <1>10 DEF Prepare, settings, ledger
  <2>2. CASE LoopAt("keys") /\ mutex' = "loop"
    BY <1>1, <2>1, <2>2, LoopGoesOn, QuietSteps
  <2>3. CASE (LoopAt("start") \/ LoopAt("wait")) /\ UNCHANGED mutex
    BY <1>1, <1>2, <2>1, <2>3, LoopGoesOn
  <2> QED
    BY <1>10, <2>2, <2>3 DEF Prepare
<1>11. CASE ConsumerFails
  BY <1>1, <1>11, QuietSteps DEF ConsumerFails, Released, settings, connection
<1>12. CASE Crash
  BY <1>1, <1>12, LoopGoesOn, QuietSteps DEF Crash
<1>13. CASE \E m \in Messages : AcceptMessage(m)
  BY <1>13, Accepting
<1> QED
  BY <1>3, <1>4, <1>5, <1>6, <1>7, <1>8, <1>9, <1>10, <1>11, <1>12, <1>13, Preparing, Claiming, Settling, WritingAnimations, Acknowledging
     DEF PanelNext

\* A gift and its animation come together in the receipt whichever message is first and
\* whichever write fails, and over every crash between them, unless the receipts were
\* emptied because another room was configured.
THEOREM AnimationsAlwaysMeet == PanelSpec => []AnimationsMeetTheirGifts
<1>1. PanelInv => AnimationsMeetTheirGifts
  <2> SUFFICES ASSUME PanelInv, NEW g \in Presents, Done(OfGift(g)), Done(OfAnimation(g)),
                      settled[OfGift(g)] = settled[OfAnimation(g)]
               PROVE  receipts[g] = "animated" /\ g \notin waiting
    BY DEF AnimationsMeetTheirGifts, OfGift, OfAnimation
  <2>1. OfGift(g) \in Messages /\ settled[OfGift(g)] # 0 /\ OfGift(g) \in applied
    BY MessagesAreParts DEF PanelInv, InboxInv, Done
  <2>2. ~IsQueued(OfGift(g))
    <3>1. CASE inbox = <<>>
      BY <3>1 DEF IsQueued
    <3>2. CASE inbox # <<>>
      BY <2>1, <3>2, CurrentRecord DEF PanelInv, Done, Current
    <3> QED
      BY <3>1, <3>2
  <2> QED
    BY <2>1, <2>2 DEF PanelInv, PairInv
<1> QED
  BY <1>1, PanelInvInit, PanelInvNext, PTL DEF PanelSpec

-----------------------------------------------------------------------------
(***************************************************************************)
(* The shared connection of a room (RoomSource).  A source is closed once, *)
(* and loses its subscribers with that; its connection is the newest one   *)
(* or none; and generations tell its attempts apart.                       *)
(***************************************************************************)
Sources == [closed : BOOLEAN, generation : Nat, subs : SUBSET Subscribers, connection : Nat,
            ready : BOOLEAN, failed : BOOLEAN, first : Nat]
Connections == [state : {"opening", "open", "failed", "ended", "closed"}, generation : Nat]
Channels == [at : {"out", "joining", "in", "stopped"}, events : Seq(Nat)]

SourceTypes ==
  /\ source \in Sources /\ connections \in Seq(Connections) /\ subscriber \in [Subscribers -> Channels]
  /\ opener \in {"none", "starting", "opening", "connected", "backoff", "done"}
  /\ closer \in {"none", "waiting", "removing"}

\* A source, its goroutine, and the one that closes it.
LifeInv ==
  /\ opener = "none" => source = NoSource /\ closer = "none"
  /\ opener # "none" /\ source.closed => source.generation > 0 /\ closer # "none" /\ source.subs = {}
  /\ opener # "none" /\ ~source.closed => closer = "none" /\ source.subs # {} /\ ~source.failed
  /\ opener = "done" => source.closed
  /\ closer = "removing" => opener = "done" /\ source.connection = 0

\* Who is subscribed, or about to be.
Subscribed == \A s \in Subscribers : subscriber[s].at \in {"joining", "in"} <=> s \in source.subs

\* Its connection.
ConnectionInv ==
  /\ source.connection <= Newest /\ source.first <= Newest
  /\ opener \in {"starting", "opening", "backoff"} => source.connection = 0
  /\ opener = "connected" => source.connection = Newest
  /\ opener \in {"opening", "connected"} => source.first < Newest
  /\ \A c \in 1..Newest : connections[c].state = "open" => source.connection = c

\* The generations of its attempts.
GenerationInv ==
  ~source.closed =>
    /\ \A c \in 1..Newest : source.first < c => connections[c].generation <= source.generation
    /\ \A c, d \in 1..Newest : source.first < c /\ c < d => connections[c].generation < connections[d].generation
    /\ source.first < Newest /\ source.generation = Generation =>
         opener \in {"opening", "connected"} /\ connections[Newest].state # "failed"
    /\ opener = "opening" => source.generation = Generation

SourceInv == SourceTypes /\ LifeInv /\ Subscribed /\ ConnectionInv /\ GenerationInv

\* What a change of one field of a source leaves alone, and what Closing changes.
LEMMA SubscribersSet ==
  ASSUME NEW src \in Sources, NEW S \in SUBSET Subscribers, NEW new, new = [src EXCEPT !.subs = S]
  PROVE  /\ new \in Sources /\ new.subs = S
         /\ new.closed = src.closed /\ new.generation = src.generation /\ new.connection = src.connection
         /\ new.ready = src.ready /\ new.failed = src.failed /\ new.first = src.first
  BY DEF Sources

LEMMA ConnectionSet ==
  ASSUME NEW src \in Sources, NEW c \in Nat, NEW new, new = [src EXCEPT !.connection = c]
  PROVE  /\ new \in Sources /\ new.connection = c
         /\ new.closed = src.closed /\ new.generation = src.generation /\ new.subs = src.subs
         /\ new.ready = src.ready /\ new.failed = src.failed /\ new.first = src.first
  BY DEF Sources

LEMMA GenerationSet ==
  ASSUME NEW src \in Sources, NEW g \in Nat, NEW new, new = [src EXCEPT !.generation = g]
  PROVE  /\ new \in Sources /\ new.generation = g
         /\ new.closed = src.closed /\ new.subs = src.subs /\ new.connection = src.connection
         /\ new.ready = src.ready /\ new.failed = src.failed /\ new.first = src.first
  BY DEF Sources

LEMMA ReadySet ==
  ASSUME NEW src \in Sources, NEW new, new = [src EXCEPT !.ready = TRUE]
  PROVE  /\ new \in Sources /\ new.ready = TRUE
         /\ new.closed = src.closed /\ new.generation = src.generation /\ new.subs = src.subs
         /\ new.connection = src.connection /\ new.failed = src.failed /\ new.first = src.first
  BY DEF Sources

LEMMA FailedSet ==
  ASSUME NEW src \in Sources, NEW new, new = [src EXCEPT !.failed = TRUE]
  PROVE  /\ new \in Sources /\ new.failed = TRUE
         /\ new.closed = src.closed /\ new.generation = src.generation /\ new.subs = src.subs
         /\ new.connection = src.connection /\ new.ready = src.ready /\ new.first = src.first
  BY DEF Sources

LEMMA SourceCloses ==
  ASSUME NEW src \in Sources, NEW new, new = Closing(src)
  PROVE  /\ new \in Sources /\ new.closed /\ new.subs = src.subs
         /\ new.connection = src.connection /\ new.first = src.first
         /\ new.ready = src.ready /\ new.failed = src.failed
         /\ new.generation = IF src.closed THEN src.generation ELSE src.generation + 1
<1>1. CASE src.closed
  BY <1>1 DEF Closing, Sources
<1>2. CASE ~src.closed
  <2>1. PICK shut \in Sources : shut = [src EXCEPT !.closed = TRUE]
    BY DEF Sources
  <2>2. shut.closed /\ shut.generation = src.generation /\ shut.subs = src.subs /\ shut.connection = src.connection
        /\ shut.first = src.first /\ shut.ready = src.ready /\ shut.failed = src.failed
    BY <2>1 DEF Sources
  <2>3. src.generation + 1 \in Nat
    BY DEF Sources
  <2>4. Closing(src) = [shut EXCEPT !.generation = src.generation + 1]
    BY <1>2, <2>1 DEF Closing, Sources
  <2>5. \A g \in Nat : /\ [shut EXCEPT !.generation = g] \in Sources /\ [shut EXCEPT !.generation = g].generation = g
                       /\ [shut EXCEPT !.generation = g].closed = shut.closed
                       /\ [shut EXCEPT !.generation = g].subs = shut.subs
                       /\ [shut EXCEPT !.generation = g].connection = shut.connection
                       /\ [shut EXCEPT !.generation = g].first = shut.first
                       /\ [shut EXCEPT !.generation = g].ready = shut.ready
                       /\ [shut EXCEPT !.generation = g].failed = shut.failed
    BY DEF Sources
  <2>6. /\ Closing(src) \in Sources /\ Closing(src).closed /\ Closing(src).subs = src.subs
        /\ Closing(src).connection = src.connection /\ Closing(src).first = src.first
        /\ Closing(src).ready = src.ready /\ Closing(src).failed = src.failed
        /\ Closing(src).generation = src.generation + 1
    BY <2>2, <2>3, <2>4, <2>5
  <2> QED
    BY <1>2, <2>6 DEF Sources
<1> QED
  BY <1>1, <1>2 DEF Sources

LEMMA StoppedChannels ==
  ASSUME subscriber \in [Subscribers -> Channels], NEW S \in SUBSET Subscribers
  PROVE  /\ Stopped(S) \in [Subscribers -> Channels]
         /\ \A s \in Subscribers : /\ Stopped(S)[s].at \in {"joining", "in"} <=> subscriber[s].at \in {"joining", "in"} /\ s \notin S
                                   /\ Stopped(S)[s].events \in {subscriber[s].events, <<>>}
<1>1. <<>> \in Seq(Nat)
  OBVIOUS
<1>2. [at |-> "stopped", events |-> <<>>] \in Channels
  BY <1>1 DEF Channels
<1> QED
  BY <1>2 DEF Stopped

LEMMA NewestBecomes ==
  ASSUME connections \in Seq(Connections), Newest > 0, NEW state \in {"opening", "open", "failed", "ended", "closed"},
         Outcome(state)
  PROVE  /\ connections' \in Seq(Connections) /\ Newest' = Newest /\ connections'[Newest].state = state
         /\ \A c \in 1..Newest : connections'[c].generation = connections[c].generation
                                 /\ (c # Newest => connections'[c] = connections[c])
         /\ Newest \in Nat /\ Newest \in 1..Newest
<1>1. Newest \in Nat /\ Newest \in 1..Newest /\ connections[Newest] \in Connections
  BY DEF Newest
<1>2. PICK last \in Connections : last = connections[Newest]
  BY <1>1
<1>3. [last EXCEPT !.state = state] \in Connections /\ [last EXCEPT !.state = state].state = state
      /\ [last EXCEPT !.state = state].generation = last.generation
  BY DEF Connections
<1>4. connections' = [connections EXCEPT ![Newest] = [last EXCEPT !.state = state]]
  BY <1>2 DEF Outcome
<1>5. connections' \in Seq(Connections) /\ Len(connections') = Len(connections)
  BY <1>1, <1>3, <1>4 DEF Newest
<1> QED
  BY <1>1, <1>2, <1>3, <1>4, <1>5 DEF Newest

LEMMA TheSource ==
  ASSUME SourceInv
  PROVE  /\ source \in Sources /\ connections \in Seq(Connections) /\ subscriber \in [Subscribers -> Channels]
         /\ Newest \in Nat /\ source.subs \in SUBSET Subscribers /\ source.generation \in Nat /\ source.connection \in Nat
         /\ source.first \in Nat /\ source.closed \in BOOLEAN
         /\ \A c \in 1..Newest : connections[c] \in Connections /\ connections[c].generation \in Nat
         /\ opener # "none" <=> Registered
<1>1. source \in Sources /\ connections \in Seq(Connections) /\ subscriber \in [Subscribers -> Channels]
  BY DEF SourceInv, SourceTypes
<1>2. Newest \in Nat /\ \A c \in 1..Newest : connections[c] \in Connections
  BY <1>1 DEF Newest
<1>3. NoSource.closed /\ NoSource.generation = 0
  BY DEF NoSource
<1>4. opener # "none" <=> Registered
  BY <1>3 DEF SourceInv, LifeInv, Registered
<1> QED
  BY <1>1, <1>2, <1>4 DEF Sources, Connections

\* The steps of a subscriber that leave the source alone.
LEMMA SubscriberSteps ==
  ASSUME SourceInv, NEW s \in Subscribers, SubscribeReturns(s) \/ SubscriptionEnds(s) \/ Deliver(s)
  PROVE  SourceInv'
<1>1. UNCHANGED <<source, opener, closer, connections>>
  BY DEF SubscribeReturns, SubscriptionEnds, Deliver
<1>2. source \in Sources /\ subscriber \in [Subscribers -> Channels]
  BY TheSource
<1>3. PICK channel \in Channels : channel = subscriber[s]
  BY <1>2
<1>4. /\ subscriber' \in [Subscribers -> Channels]
      /\ \A r \in Subscribers : subscriber'[r].at \in {"joining", "in"} <=> subscriber[r].at \in {"joining", "in"}
  <2>1. CASE SubscribeReturns(s)
    <3>1. s \in source.subs
      BY <2>1 DEF SourceInv, Subscribed, SubscribeReturns
    <3>2. ~source.failed
      BY <3>1 DEF NoSource, SourceInv, LifeInv
    <3>3. subscriber' = [subscriber EXCEPT ![s] = [channel EXCEPT !.at = "in"]]
      BY <1>2, <1>3, <2>1, <3>2 DEF SubscribeReturns
    <3>4. [channel EXCEPT !.at = "in"] \in Channels /\ [channel EXCEPT !.at = "in"].at = "in"
      BY DEF Channels
    <3> QED
      BY <1>2, <2>1, <3>3, <3>4 DEF SubscribeReturns
  <2>2. CASE SubscriptionEnds(s)
    <3>1. subscriber' = [subscriber EXCEPT ![s] = [channel EXCEPT !.at = "out"]] /\ subscriber[s].at = "stopped"
      BY <1>2, <1>3, <2>2 DEF SubscriptionEnds
    <3>2. [channel EXCEPT !.at = "out"] \in Channels /\ [channel EXCEPT !.at = "out"].at = "out"
      BY DEF Channels
    <3> QED
      BY <1>2, <3>1, <3>2
  <2>3. CASE Deliver(s)
    <3>1. subscriber' = [subscriber EXCEPT ![s] = [channel EXCEPT !.events = Tail(channel.events)]] /\ channel.events # <<>>
      BY <1>2, <1>3, <2>3 DEF Deliver
    <3>2. Tail(channel.events) \in Seq(Nat)
      BY <3>1 DEF Channels
    <3>3. [channel EXCEPT !.events = Tail(channel.events)] \in Channels
          /\ [channel EXCEPT !.events = Tail(channel.events)].at = channel.at
      BY <3>2 DEF Channels
    <3> QED
      BY <1>2, <1>3, <3>1, <3>3
  <2> QED
    BY <2>1, <2>2, <2>3
<1>5. SourceTypes' /\ Subscribed'
  BY <1>1, <1>4 DEF SourceInv, SourceTypes, Subscribed
<1>6. LifeInv' /\ ConnectionInv' /\ GenerationInv'
  BY <1>1 DEF SourceInv, LifeInv, ConnectionInv, GenerationInv, Newest, Generation
<1> QED
  BY <1>5, <1>6 DEF SourceInv

\* A source that changes only by being closed, or by who subscribes to it.
LEMMA SubscriptionsChange ==
  ASSUME SourceInv, opener # "none", UNCHANGED <<opener, connections>>, source' \in Sources,
         subscriber' \in [Subscribers -> Channels], Subscribed',
         source'.connection = source.connection, source'.first = source.first,
         source.closed => UNCHANGED <<source, closer>> ,
         ~source.closed /\ ~source'.closed => /\ source'.generation = source.generation /\ source'.subs # {}
                                              /\ ~source'.failed /\ closer' = closer,
         ~source.closed /\ source'.closed => /\ source'.subs = {} /\ closer' = "waiting"
                                             /\ source'.generation = source.generation + 1
  PROVE  SourceInv'
<1>1. /\ source \in Sources /\ source.generation \in Nat /\ source.closed \in BOOLEAN
      /\ source.connection \in Nat /\ source.first \in Nat
  BY TheSource
<1>2. SourceTypes'
  BY DEF SourceInv, SourceTypes
<1>3. LifeInv'
  BY <1>1 DEF SourceInv, LifeInv
<1>4. ConnectionInv'
  BY DEF SourceInv, ConnectionInv, Newest
<1>5. GenerationInv'
  BY DEF SourceInv, GenerationInv, Newest, Generation
<1> QED
  BY <1>2, <1>3, <1>4, <1>5 DEF SourceInv

LEMMA NewSources ==
  ASSUME Newest \in Nat, NEW s \in Subscribers
  PROVE  /\ NoSource \in Sources /\ NewSource(s) \in Sources /\ NewSource(s) # NoSource
         /\ NoSource.closed /\ NoSource.subs = {} /\ NoSource.connection = 0 /\ NoSource.first = 0
         /\ ~NewSource(s).closed /\ NewSource(s).generation = 0 /\ NewSource(s).subs = {s}
         /\ NewSource(s).connection = 0 /\ NewSource(s).first = Newest /\ ~NewSource(s).failed
<1>1. NoSource \in Sources
  BY DEF NoSource, Sources
<1>2. PICK one \in Sources : one = [NoSource EXCEPT !.closed = FALSE]
  BY <1>1 DEF Sources
<1>3. one.closed = FALSE /\ one.generation = 0 /\ one.connection = 0 /\ one.failed = FALSE
  <2>1. PICK zero \in Sources : zero = NoSource
    BY <1>1
  <2>2. zero.generation = 0 /\ zero.connection = 0 /\ zero.failed = FALSE
    BY <2>1 DEF NoSource
  <2>3. one = [zero EXCEPT !.closed = FALSE]
    BY <1>2, <2>1
  <2> QED
    BY <2>2, <2>3 DEF Sources
<1>4. PICK two \in Sources : two = [one EXCEPT !.subs = {s}]
  BY <1>2 DEF Sources
<1>41. two.subs = {s} /\ two.closed = FALSE /\ two.generation = 0 /\ two.connection = 0 /\ two.failed = FALSE
  BY <1>3, <1>4 DEF Sources
<1>5. NewSource(s) = [two EXCEPT !.first = Newest]
  BY <1>2, <1>4 DEF NewSource
<1>6. [two EXCEPT !.first = Newest] \in Sources
      /\ [two EXCEPT !.first = Newest].first = Newest /\ [two EXCEPT !.first = Newest].subs = two.subs
      /\ [two EXCEPT !.first = Newest].closed = two.closed /\ [two EXCEPT !.first = Newest].failed = two.failed
      /\ [two EXCEPT !.first = Newest].generation = two.generation
      /\ [two EXCEPT !.first = Newest].connection = two.connection
  BY DEF Sources
<1>7. /\ NewSource(s) \in Sources /\ ~NewSource(s).closed /\ NewSource(s).generation = 0 /\ NewSource(s).subs = {s}
      /\ NewSource(s).connection = 0 /\ NewSource(s).first = Newest /\ ~NewSource(s).failed
  BY <1>4, <1>41, <1>5, <1>6
<1>8. NoSource.closed /\ NoSource.subs = {} /\ NoSource.connection = 0 /\ NoSource.first = 0
  BY DEF NoSource
<1> QED
  BY <1>1, <1>7, <1>8

LEMMA JoiningKept ==
  ASSUME SourceInv, NEW s \in Subscribers, Subscribe(s)
  PROVE  SourceInv'
<1>1. /\ source \in Sources /\ subscriber \in [Subscribers -> Channels] /\ Newest \in Nat
      /\ source.subs \in SUBSET Subscribers /\ (opener # "none" <=> Registered)
  BY TheSource
<1>2. PICK channel \in Channels : channel = subscriber[s]
  BY <1>1
<1>3. [channel EXCEPT !.at = "joining"] \in Channels /\ [channel EXCEPT !.at = "joining"].at = "joining"
  BY DEF Channels
<1>4. subscriber' = [subscriber EXCEPT ![s] = [channel EXCEPT !.at = "joining"]]
  BY <1>1, <1>2 DEF Subscribe
<1>5. subscriber' \in [Subscribers -> Channels] /\ subscriber'[s].at = "joining"
      /\ \A r \in Subscribers \ {s} : subscriber'[r] = subscriber[r]
  BY <1>1, <1>3, <1>4
<1>6. CASE Registered
  <2>1. PICK S \in SUBSET Subscribers : S = source.subs \cup {s}
    BY <1>1
  <2>2. source' = [source EXCEPT !.subs = S] /\ UNCHANGED <<opener, closer, connections>> /\ ~source.closed
    BY <1>6, <2>1 DEF Subscribe
  <2>3. /\ source' \in Sources /\ source'.subs = S /\ source'.closed = source.closed
        /\ source'.generation = source.generation /\ source'.connection = source.connection
        /\ source'.first = source.first /\ source'.failed = source.failed
    BY <1>1, <2>2, SubscribersSet
  <2>4. Subscribed'
    BY <1>5, <2>1, <2>3 DEF SourceInv, Subscribed
  <2>5. opener # "none" /\ ~source.failed
    BY <1>1, <1>6, <2>2 DEF SourceInv, LifeInv
  <2> QED
    BY <1>5, <2>1, <2>2, <2>3, <2>4, <2>5, SubscriptionsChange
<1>7. CASE ~Registered
  <2>1. source = NoSource /\ closer = "none" /\ opener = "none"
    BY <1>1, <1>7 DEF SourceInv, LifeInv
  <2>2. source' = NewSource(s) /\ opener' = "starting" /\ UNCHANGED <<closer, connections>>
    BY <1>7 DEF Subscribe
  <2>3. \A r \in Subscribers : subscriber[r].at \notin {"joining", "in"}
    BY <1>1, <2>1, NewSources DEF SourceInv, Subscribed
  <2>31. /\ source' \in Sources /\ ~source'.closed /\ source'.subs = {s} /\ ~source'.failed
         /\ opener' = "starting" /\ closer' = "none"
    BY <1>1, <2>1, <2>2, NewSources
  <2>32. SourceTypes'
    BY <1>5, <2>2, <2>31 DEF SourceInv, SourceTypes
  <2>33. LifeInv'
    BY <2>31 DEF LifeInv
  <2>34. Subscribed'
    BY <1>5, <2>3, <2>31 DEF Subscribed
  <2>4. SourceTypes' /\ LifeInv' /\ Subscribed'
    BY <2>32, <2>33, <2>34
  <2>5. \A c \in 1..Newest : connections[c].state # "open"
    BY <1>1, <2>1, NewSources DEF SourceInv, ConnectionInv
  <2>6. Newest' = Newest
    BY <2>2 DEF Newest
  <2>7. ConnectionInv'
    BY <1>1, <2>2, <2>5, <2>6, NewSources DEF ConnectionInv
  <2>8. GenerationInv'
    BY <1>1, <2>2, <2>6, NewSources DEF GenerationInv
  <2> QED
    BY <2>4, <2>7, <2>8 DEF SourceInv
<1> QED
  BY <1>6, <1>7

\* A source loses subscribers, and is closed with the last one.
LEMMA LeavingKept ==
  ASSUME SourceInv, opener # "none", NEW S \in SUBSET Subscribers, UNCHANGED <<opener, connections>>,
         source' = IF S = {} THEN Closing([source EXCEPT !.subs = S]) ELSE [source EXCEPT !.subs = S],
         closer' = CloserAfter(source'), S \subseteq source.subs,
         subscriber' \in [Subscribers -> Channels], Subscribed'
  PROVE  SourceInv'
<1>1. source \in Sources /\ source.subs \in SUBSET Subscribers /\ source.closed \in BOOLEAN
  BY TheSource
<1>2. PICK rest \in Sources : rest = [source EXCEPT !.subs = S]
  BY <1>1, SubscribersSet
<1>3. /\ rest.subs = S /\ rest.closed = source.closed /\ rest.generation = source.generation
      /\ rest.connection = source.connection /\ rest.first = source.first /\ rest.failed = source.failed
  BY <1>1, <1>2, SubscribersSet
<1>4. source' = IF S = {} THEN Closing(rest) ELSE rest
  BY <1>2
<1>5. source' \in Sources /\ source'.connection = source.connection /\ source'.first = source.first
  BY <1>3, <1>4, SourceCloses
<1>6. CASE source.closed
  <2>1. source.subs = {} /\ closer # "none"
    BY <1>6 DEF SourceInv, LifeInv
  <2>2. rest = source
    BY <1>1, <1>2, <2>1 DEF Sources
  <2>3. source' = source
    BY <1>4, <1>6, <2>2 DEF Closing
  <2>4. closer' = closer
    BY <1>6, <2>1, <2>3 DEF CloserAfter
  <2> QED
    BY <1>5, <1>6, <2>3, <2>4, SubscriptionsChange
<1>7. CASE ~source.closed /\ S # {}
  <2>1. source' = rest /\ ~source'.closed /\ closer' = closer
    BY <1>3, <1>4, <1>7 DEF CloserAfter
  <2>2. ~source.failed
    BY <1>7 DEF SourceInv, LifeInv
  <2> QED
    BY <1>3, <1>5, <1>7, <2>1, <2>2, SubscriptionsChange
<1>8. CASE ~source.closed /\ S = {}
  <2>0. source' = Closing(rest)
    BY <1>4, <1>8
  <2>01. rest.closed = FALSE /\ rest.subs = {} /\ rest.generation = source.generation
    BY <1>1, <1>3, <1>8
  <2>02. source'.closed /\ source'.subs = rest.subs
         /\ source'.generation = IF rest.closed THEN rest.generation ELSE rest.generation + 1
    BY <2>0, SourceCloses
  <2>1. source'.closed /\ source'.subs = {} /\ source'.generation = source.generation + 1
    BY <2>01, <2>02
  <2>2. closer = "none"
    BY <1>8 DEF SourceInv, LifeInv
  <2>3. closer' = "waiting"
    BY <2>1, <2>2 DEF CloserAfter
  <2> QED
    BY <1>5, <1>8, <2>1, <2>3, SubscriptionsChange
<1> QED
  BY <1>1, <1>6, <1>7, <1>8

LEMMA CancelKept ==
  ASSUME SourceInv, NEW s \in Subscribers, CancelSubscription(s)
  PROVE  SourceInv'
<1>1. source \in Sources /\ subscriber \in [Subscribers -> Channels] /\ source.subs \in SUBSET Subscribers
      /\ (opener # "none" <=> Registered)
  BY TheSource
<1>2. s \in source.subs
  BY DEF SourceInv, Subscribed, CancelSubscription
<1>3. opener # "none"
  BY <1>2 DEF SourceInv, LifeInv, NoSource
<1>4. PICK S \in SUBSET Subscribers : S = source.subs \ {s}
  BY <1>1
<1>5. [source EXCEPT !.subs = @ \ {s}] = [source EXCEPT !.subs = S] /\ [source EXCEPT !.subs = S].subs = S
  BY <1>1, <1>4, SubscribersSet
<1>6. source' = (IF S = {} THEN Closing([source EXCEPT !.subs = S]) ELSE [source EXCEPT !.subs = S])
      /\ closer' = CloserAfter(source') /\ UNCHANGED <<opener, connections>> /\ subscriber' = Stopped({s})
  BY <1>5 DEF CancelSubscription
<1>7. /\ subscriber' \in [Subscribers -> Channels]
      /\ \A r \in Subscribers : subscriber'[r].at \in {"joining", "in"} <=> subscriber[r].at \in {"joining", "in"} /\ r \notin {s}
  BY <1>1, <1>6, StoppedChannels
<1>8. source'.subs = S
  <2>1. [source EXCEPT !.subs = S] \in Sources
    BY <1>1, SubscribersSet
  <2> QED
    BY <1>5, <1>6, <2>1, SourceCloses
<1>9. Subscribed'
  BY <1>4, <1>7, <1>8 DEF SourceInv, Subscribed
<1> QED
  BY <1>3, <1>4, <1>6, <1>7, <1>9, LeavingKept

LEMMA CloseKept ==
  ASSUME SourceInv, CloseManager
  PROVE  SourceInv'
<1>1. source \in Sources /\ subscriber \in [Subscribers -> Channels] /\ source.subs \in SUBSET Subscribers
      /\ (opener # "none" <=> Registered)
  BY TheSource
<1>2. CASE ~Registered
  <2>1. UNCHANGED <<source, subscriber, closer, opener, connections>>
    BY <1>2 DEF CloseManager
  <2> QED
    BY <2>1 DEF SourceInv, SourceTypes, LifeInv, Subscribed, ConnectionInv, GenerationInv, Newest, Generation
<1>3. CASE Registered
  <2>1. source' = Closing([source EXCEPT !.subs = {}]) /\ closer' = CloserAfter(source')
        /\ UNCHANGED <<opener, connections>> /\ subscriber' = Stopped(source.subs)
    BY <1>3 DEF CloseManager
  <2>2. /\ subscriber' \in [Subscribers -> Channels]
        /\ \A r \in Subscribers : subscriber'[r].at \in {"joining", "in"}
              <=> subscriber[r].at \in {"joining", "in"} /\ r \notin source.subs
    BY <1>1, <2>1, StoppedChannels
  <2>3. [source EXCEPT !.subs = {}] \in Sources /\ [source EXCEPT !.subs = {}].subs = {}
    BY <1>1, SubscribersSet
  <2>4. source'.subs = {}
    BY <2>1, <2>3, SourceCloses
  <2>5. Subscribed'
    BY <2>2, <2>4 DEF SourceInv, Subscribed
  <2>6. opener # "none"
    BY <1>1, <1>3
  <2>7. \A S \in SUBSET Subscribers : S = {} =>
          /\ source' = IF S = {} THEN Closing([source EXCEPT !.subs = S]) ELSE [source EXCEPT !.subs = S]
          /\ S \subseteq source.subs
    BY <2>1
  <2>8. PICK S \in SUBSET Subscribers : S = {}
    OBVIOUS
  <2> QED
    BY <2>1, <2>2, <2>5, <2>6, <2>7, <2>8, LeavingKept
<1> QED
  BY <1>2, <1>3

LEMMA CallbackKept ==
  ASSUME SourceInv, NEW c \in 1..Newest, Callback(c)
  PROVE  SourceInv'
<1>1. source \in Sources /\ subscriber \in [Subscribers -> Channels] /\ source.subs \in SUBSET Subscribers
      /\ Newest \in Nat
  BY TheSource
<1>2. CASE ~Admits(c)
  <2>1. UNCHANGED <<source, subscriber, closer, opener, connections>>
    BY <1>2 DEF Callback
  <2> QED
    BY <2>1 DEF SourceInv, SourceTypes, LifeInv, Subscribed, ConnectionInv, GenerationInv, Newest, Generation
<1>3. CASE Admits(c)
  <2>1. PICK full \in SUBSET Subscribers : full = {s \in source.subs : Len(subscriber[s].events) >= Capacity}
    BY <1>1
  <2>2. PICK S \in SUBSET Subscribers : S = source.subs \ full
    BY <1>1
  <2>3. [source EXCEPT !.subs = @ \ full] = [source EXCEPT !.subs = S] /\ [source EXCEPT !.subs = S].subs = S
    BY <1>1, <2>2, SubscribersSet
  <2>4. /\ source' = IF S = {} THEN Closing([source EXCEPT !.subs = S]) ELSE [source EXCEPT !.subs = S]
        /\ closer' = CloserAfter(source') /\ UNCHANGED <<opener, connections>>
        /\ subscriber' = [s \in Subscribers |->
              IF s \in S THEN [subscriber[s] EXCEPT !.events = Append(@, c)] ELSE Stopped(full)[s]]
    BY <1>3, <2>1, <2>3 DEF Callback
  <2>5. opener # "none"
    BY <1>3, NewSources, <1>1 DEF SourceInv, LifeInv, NoSource, Admits
  <2>6. /\ Stopped(full) \in [Subscribers -> Channels]
        /\ \A r \in Subscribers : Stopped(full)[r].at \in {"joining", "in"}
              <=> subscriber[r].at \in {"joining", "in"} /\ r \notin full
    BY <1>1, StoppedChannels
  <2>7. \A s \in Subscribers : [subscriber[s] EXCEPT !.events = Append(@, c)] \in Channels
                               /\ [subscriber[s] EXCEPT !.events = Append(@, c)].at = subscriber[s].at
    <3> TAKE s \in Subscribers
    <3>1. PICK channel \in Channels : channel = subscriber[s]
      BY <1>1
    <3>2. c \in Nat /\ channel.events \in Seq(Nat)
      BY <1>1 DEF Channels
    <3>3. Append(channel.events, c) \in Seq(Nat)
      BY <3>2
    <3>4. [channel EXCEPT !.events = Append(channel.events, c)] \in Channels
          /\ [channel EXCEPT !.events = Append(channel.events, c)].at = channel.at
      BY <3>3 DEF Channels
    <3> QED
      BY <3>1, <3>4
  <2>8. subscriber' \in [Subscribers -> Channels]
    BY <2>4, <2>6, <2>7
  <2>9. source'.subs = S
    <3>1. [source EXCEPT !.subs = S] \in Sources
      BY <1>1, SubscribersSet
    <3> QED
      BY <2>3, <2>4, <3>1, SourceCloses
  <2>10. Subscribed'
    <3> SUFFICES ASSUME NEW r \in Subscribers
                 PROVE  subscriber'[r].at \in {"joining", "in"} <=> r \in source'.subs
      BY DEF Subscribed
    <3>1. subscriber[r].at \in {"joining", "in"} <=> r \in source.subs
      BY DEF SourceInv, Subscribed
    <3>2. CASE r \in S
      BY <2>2, <2>4, <2>7, <2>9, <3>1, <3>2
    <3>3. CASE r \notin S
      BY <2>2, <2>4, <2>6, <2>9, <3>1, <3>3
    <3> QED
      BY <3>2, <3>3
  <2> QED
    BY <2>2, <2>4, <2>5, <2>8, <2>10, LeavingKept
<1> QED
  BY <1>2, <1>3

\* A connection is begun: the newest, and of a generation of its own.
LEMMA BeginKept ==
  ASSUME SourceInv, CanOpen, opener \in {"starting", "backoff"}, BeginOpen, opener' = "opening",
         UNCHANGED <<closer, subscriber>>
  PROVE  SourceInv'
<1>1. /\ source \in Sources /\ connections \in Seq(Connections) /\ subscriber \in [Subscribers -> Channels]
      /\ Newest \in Nat /\ source.generation \in Nat /\ source.connection \in Nat /\ source.first \in Nat
      /\ \A c \in 1..Newest : connections[c] \in Connections /\ connections[c].generation \in Nat
  BY TheSource
<1>2. PICK g \in Nat : g = source.generation + 1
  BY <1>1
<1>3. source' = [source EXCEPT !.generation = g]
  BY <1>1, <1>2 DEF BeginOpen, Sources
<1>4. /\ source' \in Sources /\ source'.generation = g /\ source'.closed = source.closed /\ source'.subs = source.subs
      /\ source'.connection = source.connection /\ source'.first = source.first /\ source'.failed = source.failed
  BY <1>1, <1>3, GenerationSet
<1>5. PICK new \in Connections : new = [state |-> "opening", generation |-> g]
  BY DEF Connections
<1>6. connections' = Append(connections, new) /\ new.state = "opening" /\ new.generation = g
  BY <1>4, <1>5 DEF BeginOpen
<1>7. /\ connections' \in Seq(Connections) /\ Newest' = Newest + 1 /\ connections'[Newest + 1] = new
      /\ \A c \in 1..Newest : connections'[c] = connections[c]
  BY <1>1, <1>6 DEF Newest
<1>8. SourceTypes'
  BY <1>4, <1>7 DEF SourceInv, SourceTypes
<1>9. LifeInv' /\ Subscribed'
  BY <1>4 DEF SourceInv, LifeInv, Subscribed, CanOpen
<1>10. ConnectionInv'
  <2>1. source'.connection = 0
    BY <1>4 DEF SourceInv, ConnectionInv
  <2>2. \A c \in 1..Newest' : connections'[c].state # "open"
    <3> SUFFICES ASSUME NEW c \in 1..Newest' PROVE connections'[c].state # "open"
      OBVIOUS
    <3>1. CASE c \in 1..Newest
      BY <1>4, <1>7, <2>1, <3>1 DEF SourceInv, ConnectionInv
    <3>2. CASE c = Newest + 1
      BY <1>6, <1>7, <3>2
    <3> QED
      BY <1>1, <1>7, <3>1, <3>2
  <2> QED
    BY <1>1, <1>4, <1>7, <2>1, <2>2 DEF SourceInv, ConnectionInv
<1>11. GenerationInv'
  <2>1. /\ \A c \in 1..Newest : source.first < c => connections[c].generation <= source.generation
        /\ \A c, d \in 1..Newest : source.first < c /\ c < d => connections[c].generation < connections[d].generation
    BY DEF SourceInv, GenerationInv, CanOpen
  <2>2. \A c \in 1..Newest' : source.first < c => connections'[c].generation <= g
    <3> SUFFICES ASSUME NEW c \in 1..Newest', source.first < c PROVE connections'[c].generation <= g
      OBVIOUS
    <3>1. CASE c \in 1..Newest
      <4>1. connections'[c] = connections[c] /\ connections[c].generation \in Nat
        BY <1>1, <1>7, <3>1
      <4>2. connections[c].generation <= source.generation
        BY <2>1, <3>1
      <4> QED
        BY <1>1, <1>2, <4>1, <4>2
    <3>2. CASE c = Newest + 1
      <4>1. connections'[c].generation = g
        BY <1>6, <1>7, <3>2
      <4> QED
        BY <4>1
    <3> QED
      BY <1>1, <1>7, <3>1, <3>2
  <2>3. \A c, d \in 1..Newest' : source.first < c /\ c < d => connections'[c].generation < connections'[d].generation
    <3> SUFFICES ASSUME NEW c \in 1..Newest', NEW d \in 1..Newest', source.first < c, c < d
                 PROVE connections'[c].generation < connections'[d].generation
      OBVIOUS
    <3>0. c \in 1..Newest
      BY <1>1, <1>7
    <3>1. CASE d \in 1..Newest
      BY <1>7, <2>1, <3>0, <3>1
    <3>2. CASE d = Newest + 1
      <4>1. connections'[d].generation = g
        BY <1>6, <1>7, <3>2
      <4>2. connections'[c] = connections[c] /\ connections[c].generation \in Nat
        BY <1>1, <1>7, <3>0
      <4>3. connections[c].generation <= source.generation
        BY <2>1, <3>0
      <4> QED
        BY <1>1, <1>2, <4>1, <4>2, <4>3
    <3> QED
      BY <1>1, <1>7, <3>1, <3>2
  <2>4. Generation' = g /\ connections'[Newest'].state = "opening"
    BY <1>6, <1>7 DEF Generation
  <2> QED
    BY <1>4, <2>2, <2>3, <2>4 DEF GenerationInv
<1> QED
  BY <1>8, <1>9, <1>10, <1>11 DEF SourceInv

\* The goroutine of a source that is closed ends.
LEMMA OpenerEnds ==
  ASSUME SourceInv, source.closed, opener # "none", opener' = "done", UNCHANGED <<connections, closer, subscriber>>,
         source' \in Sources, source'.closed, source'.generation = source.generation, source'.subs = source.subs,
         source'.connection = source.connection, source'.first = source.first
  PROVE  SourceInv'
<1>1. SourceTypes'
  BY DEF SourceInv, SourceTypes
<1>2. LifeInv' /\ Subscribed'
  BY DEF SourceInv, LifeInv, Subscribed
<1>3. ConnectionInv' /\ GenerationInv'
  BY DEF SourceInv, ConnectionInv, GenerationInv, Newest
<1> QED
  BY <1>1, <1>2, <1>3 DEF SourceInv

LEMMA OpenInitialKept ==
  ASSUME SourceInv, OpenInitial
  PROVE  SourceInv'
<1>1. source \in Sources
  BY TheSource
<1>2. CASE CanOpen
  BY <1>2, BeginKept DEF OpenInitial
<1>3. CASE ~CanOpen
  <2>1. source.closed
    BY <1>3 DEF SourceInv, LifeInv, OpenInitial, CanOpen
  <2>2. PICK one \in Sources : one = [source EXCEPT !.ready = TRUE]
    BY <1>1 DEF Sources
  <2>3. source' = [one EXCEPT !.failed = TRUE] /\ opener' = "done" /\ UNCHANGED <<connections, closer, subscriber>>
    BY <1>1, <1>3, <2>2 DEF OpenInitial, Sources
  <2>4. /\ one.closed = source.closed /\ one.generation = source.generation /\ one.subs = source.subs
        /\ one.connection = source.connection /\ one.first = source.first
    BY <1>1, <2>2, ReadySet
  <2>5. /\ source' \in Sources /\ source'.closed = one.closed /\ source'.generation = one.generation
        /\ source'.subs = one.subs /\ source'.connection = one.connection /\ source'.first = one.first
    BY <2>2, <2>3, FailedSet
  <2> QED
    BY <2>1, <2>3, <2>4, <2>5, OpenerEnds DEF OpenInitial
<1> QED
  BY <1>2, <1>3

LEMMA ReconnectKept ==
  ASSUME SourceInv, Reconnect
  PROVE  SourceInv'
<1>1. source \in Sources
  BY TheSource
<1>2. CASE CanOpen
  BY <1>2, BeginKept DEF Reconnect
<1>3. CASE ~CanOpen
  <2>1. source.closed
    BY <1>3 DEF SourceInv, LifeInv, Reconnect, CanOpen
  <2> QED
    BY <1>1, <1>3, <2>1, OpenerEnds DEF Reconnect
<1> QED
  BY <1>2, <1>3

LEMMA StopsKept ==
  ASSUME SourceInv, SuperviseStops
  PROVE  SourceInv'
<1>1. source \in Sources
  BY TheSource
<1> QED
  BY <1>1, OpenerEnds DEF SuperviseStops

\* The connection of an attempt comes, in time or too late.
LEMMA OpenKept ==
  ASSUME SourceInv, opener = "opening", Outcome("open"), UNCHANGED <<closer, subscriber>>,
         source' \in Sources, source'.connection = Newest, source'.closed = source.closed,
         source'.generation = source.generation, source'.subs = source.subs, source'.first = source.first,
         ~source.closed => ~source'.failed,
         opener' = IF source.closed THEN "done" ELSE "connected"
  PROVE  SourceInv'
<1>1. /\ connections \in Seq(Connections) /\ Newest \in Nat /\ source.first \in Nat /\ source.first < Newest
      /\ source.closed \in BOOLEAN /\ source.connection = 0 /\ source.generation \in Nat
      /\ \A c \in 1..Newest : connections[c].generation \in Nat
  BY TheSource DEF SourceInv, ConnectionInv
<1>2. Newest > 0
  BY <1>1
<1>3. /\ connections' \in Seq(Connections) /\ Newest' = Newest /\ connections'[Newest].state = "open"
      /\ \A c \in 1..Newest : connections'[c].generation = connections[c].generation
                              /\ (c # Newest => connections'[c] = connections[c])
      /\ Newest \in 1..Newest
  BY <1>1, <1>2, NewestBecomes
<1>4. SourceTypes'
  BY <1>3 DEF SourceInv, SourceTypes
<1>5. closer # "removing"
  BY DEF SourceInv, LifeInv
<1>6. LifeInv' /\ Subscribed'
  BY <1>1, <1>5 DEF SourceInv, LifeInv, Subscribed
<1>7. ConnectionInv'
  BY <1>1, <1>3 DEF SourceInv, ConnectionInv
<1>8. GenerationInv'
  <2>1. Generation' = Generation
    BY <1>3 DEF Generation
  <2>2. CASE source.closed
    BY <2>2 DEF GenerationInv
  <2>3. CASE ~source.closed
    <3>1. /\ \A c \in 1..Newest : source.first < c => connections[c].generation <= source.generation
          /\ source.generation = Generation
      BY <2>3 DEF SourceInv, GenerationInv
    <3>2. \A c, d \in 1..Newest : source.first < c /\ c < d => connections[c].generation < connections[d].generation
      BY <2>3 DEF SourceInv, GenerationInv
    <3>3. \A c \in 1..Newest : source.first < c => connections'[c].generation <= source.generation
      BY <1>3, <3>1
    <3>4. \A c, d \in 1..Newest : source.first < c /\ c < d => connections'[c].generation < connections'[d].generation
      BY <1>3, <3>2
    <3>5. opener' = "connected" /\ connections'[Newest].state # "failed"
      BY <1>3, <2>3
    <3> QED
      BY <1>3, <2>3, <3>3, <3>4, <3>5 DEF GenerationInv
  <2> QED
    BY <1>1, <2>2, <2>3
<1> QED
  BY <1>4, <1>6, <1>7, <1>8 DEF SourceInv

LEMMA InitialOpensKept ==
  ASSUME SourceInv, InitialOpens
  PROVE  SourceInv'
<1>1. source \in Sources /\ Newest \in Nat /\ source.closed \in BOOLEAN
  BY TheSource
<1>2. PICK late \in Sources : late = [source EXCEPT !.connection = Newest]
  BY <1>1 DEF Sources
<1>3. /\ late.connection = Newest /\ late.closed = source.closed /\ late.generation = source.generation
      /\ late.subs = source.subs /\ late.first = source.first /\ late.failed = source.failed
  BY <1>1, <1>2, ConnectionSet
<1>4. PICK told \in Sources : told = [late EXCEPT !.ready = TRUE]
  BY <1>2 DEF Sources
<1>5. /\ told.connection = late.connection /\ told.closed = late.closed /\ told.generation = late.generation
      /\ told.subs = late.subs /\ told.first = late.first /\ told.failed = late.failed
  BY <1>4, ReadySet
<1>6. CASE source.closed
  <2>1. source' = [told EXCEPT !.failed = TRUE] /\ opener' = "done" /\ UNCHANGED <<closer, subscriber>>
        /\ opener = "opening" /\ Outcome("open")
    BY <1>2, <1>4, <1>6 DEF InitialOpens, Late
  <2>2. /\ source' \in Sources /\ source'.closed = told.closed /\ source'.generation = told.generation
        /\ source'.subs = told.subs /\ source'.connection = told.connection /\ source'.first = told.first
    BY <1>4, <2>1, FailedSet
  <2> QED
    BY <1>3, <1>5, <1>6, <2>1, <2>2, OpenKept
<1>7. CASE ~source.closed
  <2>1. source' = told /\ opener' = "connected" /\ UNCHANGED <<closer, subscriber>> /\ opener = "opening" /\ Outcome("open")
    BY <1>1, <1>2, <1>4, <1>7 DEF InitialOpens, Sources
  <2>2. source.failed = FALSE
    BY <1>1, <1>7, <2>1 DEF SourceInv, LifeInv, Sources
  <2> QED
    BY <1>3, <1>4, <1>5, <1>7, <2>1, <2>2, OpenKept
<1> QED
  BY <1>6, <1>7

LEMMA ReconnectOpensKept ==
  ASSUME SourceInv, ReconnectOpens
  PROVE  SourceInv'
<1>1. source \in Sources /\ Newest \in Nat /\ source.closed \in BOOLEAN
  BY TheSource
<1>2. source' = [source EXCEPT !.connection = Newest] /\ UNCHANGED <<closer, subscriber>> /\ opener = "opening"
      /\ Outcome("open")
  BY DEF ReconnectOpens, Late
<1>3. /\ source' \in Sources /\ source'.connection = Newest /\ source'.closed = source.closed
      /\ source'.generation = source.generation /\ source'.subs = source.subs /\ source'.first = source.first
      /\ source'.failed = source.failed
  BY <1>1, <1>2, ConnectionSet
<1>4. ~source.closed => source.failed = FALSE /\ source.subs # {} /\ source.generation = Generation
  BY <1>1, <1>2 DEF SourceInv, LifeInv, GenerationInv, Sources
<1>5. opener' = IF source.closed THEN "done" ELSE "connected"
  BY <1>1, <1>4 DEF ReconnectOpens, CanOpen
<1> QED
  BY <1>2, <1>3, <1>4, <1>5, OpenKept

\* The attempt's generation is over.
LEMMA SourceSuperseded ==
  ASSUME SourceInv, Newest > 0, NEW src, src = Superseded(source)
  PROVE  /\ src \in Sources /\ src.closed = source.closed /\ src.subs = source.subs /\ src.connection = source.connection
         /\ src.first = source.first /\ src.failed = source.failed
         /\ src.generation = IF source.generation = Generation THEN source.generation + 1 ELSE source.generation
<1>1. source \in Sources /\ source.generation \in Nat
  BY TheSource
<1>2. PICK g \in Nat : g = IF source.generation = Generation THEN source.generation + 1 ELSE source.generation
  BY <1>1
<1>3. src = [source EXCEPT !.generation = g]
  BY <1>1, <1>2 DEF Superseded, Sources
<1> QED
  BY <1>1, <1>2, <1>3, GenerationSet

LEMMA InitialFailsKept ==
  ASSUME SourceInv, InitialFails
  PROVE  SourceInv'
<1>1. /\ source \in Sources /\ connections \in Seq(Connections) /\ subscriber \in [Subscribers -> Channels]
      /\ Newest \in Nat /\ source.first \in Nat /\ source.first < Newest /\ source.closed \in BOOLEAN
      /\ source.generation \in Nat /\ source.subs \in SUBSET Subscribers /\ source.connection = 0
  BY TheSource DEF SourceInv, ConnectionInv, InitialFails
<1>2. Newest > 0
  BY <1>1
<1>3. Outcome("failed") /\ opener' = "done" /\ opener = "opening"
      /\ subscriber' = Stopped(source.subs) /\ closer' = CloserAfter(source')
      /\ source' = [Closing(Superseded(source)) EXCEPT !.ready = TRUE, !.failed = TRUE, !.subs = {}]
  BY DEF InitialFails
<1>4. /\ connections' \in Seq(Connections) /\ Newest' = Newest /\ connections'[Newest].state = "failed"
      /\ \A c \in 1..Newest : connections'[c].generation = connections[c].generation
                              /\ (c # Newest => connections'[c] = connections[c])
  BY <1>1, <1>2, <1>3, NewestBecomes
<1>5. PICK over \in Sources : over = Superseded(source)
  BY <1>2, SourceSuperseded
<1>6. /\ over.closed = source.closed /\ over.connection = source.connection /\ over.first = source.first
      /\ over.generation = IF source.generation = Generation THEN source.generation + 1 ELSE source.generation
  BY <1>2, <1>5, SourceSuperseded
<1>7. PICK shut \in Sources : shut = Closing(over)
  BY <1>5, SourceCloses
<1>8. /\ shut.closed /\ shut.connection = over.connection /\ shut.first = over.first
      /\ shut.generation = IF over.closed THEN over.generation ELSE over.generation + 1
  BY <1>5, <1>7, SourceCloses
<1>9. PICK told \in Sources : told = [shut EXCEPT !.ready = TRUE]
  BY <1>7 DEF Sources
<1>10. /\ told.closed /\ told.connection = shut.connection /\ told.first = shut.first /\ told.generation = shut.generation
  BY <1>7, <1>8, <1>9 DEF Sources
<1>11. PICK bad \in Sources : bad = [told EXCEPT !.failed = TRUE]
  BY <1>9 DEF Sources
<1>12. /\ bad.closed /\ bad.connection = told.connection /\ bad.first = told.first /\ bad.generation = told.generation
  BY <1>9, <1>10, <1>11 DEF Sources
<1>13. source' = [bad EXCEPT !.subs = {}]
  BY <1>3, <1>5, <1>7, <1>9, <1>11
<1>14. /\ source' \in Sources /\ source'.closed /\ source'.subs = {} /\ source'.connection = 0
       /\ source'.first = source.first /\ source'.generation = shut.generation
  BY <1>1, <1>6, <1>8, <1>10, <1>11, <1>12, <1>13 DEF Sources
<1>15. shut.generation > 0
  BY <1>1, <1>3, <1>6, <1>8 DEF SourceInv, LifeInv
<1>16. closer' \in {"waiting", "removing"}
       /\ closer' # "removing"
  BY <1>1, <1>3, <1>14 DEF SourceInv, SourceTypes, LifeInv, CloserAfter
<1>17. /\ subscriber' \in [Subscribers -> Channels]
       /\ \A r \in Subscribers : subscriber'[r].at \in {"joining", "in"}
             <=> subscriber[r].at \in {"joining", "in"} /\ r \notin source.subs
  BY <1>1, <1>3, StoppedChannels
<1>18. SourceTypes'
  BY <1>3, <1>4, <1>14, <1>16, <1>17 DEF SourceTypes
<1>19. LifeInv'
  BY <1>3, <1>14, <1>15, <1>16 DEF LifeInv
<1>20. Subscribed'
  BY <1>14, <1>17 DEF SourceInv, Subscribed
<1>21. ConnectionInv'
  BY <1>1, <1>3, <1>4, <1>14 DEF SourceInv, ConnectionInv
<1>22. GenerationInv'
  BY <1>14 DEF GenerationInv
<1> QED
  BY <1>18, <1>19, <1>20, <1>21, <1>22 DEF SourceInv

LEMMA ReconnectFailsKept ==
  ASSUME SourceInv, ReconnectFails
  PROVE  SourceInv'
<1>1. /\ source \in Sources /\ connections \in Seq(Connections) /\ subscriber \in [Subscribers -> Channels]
      /\ Newest \in Nat /\ source.first \in Nat /\ source.first < Newest /\ source.closed \in BOOLEAN
      /\ source.generation \in Nat /\ source.connection = 0
      /\ \A c \in 1..Newest : connections[c].generation \in Nat
  BY TheSource DEF SourceInv, ConnectionInv, ReconnectFails
<1>2. Newest > 0
  BY <1>1
<1>3. Outcome("failed") /\ opener = "opening" /\ source' = Superseded(source)
      /\ opener' = (IF source.closed THEN "done" ELSE "backoff") /\ UNCHANGED <<closer, subscriber>>
  BY DEF ReconnectFails
<1>4. /\ connections' \in Seq(Connections) /\ Newest' = Newest /\ connections'[Newest].state = "failed"
      /\ \A c \in 1..Newest : connections'[c].generation = connections[c].generation
                              /\ (c # Newest => connections'[c] = connections[c])
      /\ Newest \in 1..Newest
  BY <1>1, <1>2, <1>3, NewestBecomes
<1>5. /\ source' \in Sources /\ source'.closed = source.closed /\ source'.subs = source.subs
      /\ source'.connection = source.connection /\ source'.first = source.first /\ source'.failed = source.failed
      /\ source'.generation = IF source.generation = Generation THEN source.generation + 1 ELSE source.generation
  BY <1>2, <1>3, SourceSuperseded
<1>6. SourceTypes'
  BY <1>3, <1>4, <1>5 DEF SourceInv, SourceTypes
<1>7. LifeInv' /\ Subscribed'
  BY <1>1, <1>3, <1>5 DEF SourceInv, LifeInv, Subscribed
<1>8. ConnectionInv'
  BY <1>1, <1>3, <1>4, <1>5 DEF SourceInv, ConnectionInv
<1>9. CASE source.closed
  <2>1. GenerationInv'
    BY <1>5, <1>9 DEF GenerationInv
  <2> QED
    BY <1>6, <1>7, <1>8, <2>1 DEF SourceInv
<1>10. CASE ~source.closed
  <2>1. \A c \in 1..Newest : source.first < c => connections[c].generation <= source.generation
    BY <1>10 DEF SourceInv, GenerationInv
  <2>2. \A c, d \in 1..Newest : source.first < c /\ c < d => connections[c].generation < connections[d].generation
    BY <1>10 DEF SourceInv, GenerationInv
  <2>3. source.generation = Generation
    BY <1>3, <1>10 DEF SourceInv, GenerationInv
  <2>4. source'.generation = source.generation + 1 /\ opener' = "backoff"
    BY <1>3, <1>5, <1>10, <2>3
  <2>5. \A c \in 1..Newest : source.first < c => connections'[c].generation <= source'.generation
    BY <1>1, <1>4, <2>1, <2>4
  <2>6. \A c, d \in 1..Newest : source.first < c /\ c < d => connections'[c].generation < connections'[d].generation
    BY <1>4, <2>2
  <2>7. Generation' = Generation
    BY <1>4 DEF Generation
  <2>8. GenerationInv'
    BY <1>1, <1>4, <1>5, <2>3, <2>4, <2>5, <2>6, <2>7 DEF GenerationInv
  <2> QED
    BY <1>6, <1>7, <1>8, <2>8 DEF SourceInv
<1> QED
  BY <1>1, <1>9, <1>10

LEMMA EndKept ==
  ASSUME SourceInv, ConnectionEnds
  PROVE  SourceInv'
<1>1. connections \in Seq(Connections) /\ Newest \in Nat /\ Outcome("ended") /\ Newest > 0
      /\ UNCHANGED <<source, opener, closer, subscriber>>
  BY TheSource DEF ConnectionEnds
<1>2. /\ connections' \in Seq(Connections) /\ Newest' = Newest /\ connections'[Newest].state = "ended"
      /\ \A c \in 1..Newest : connections'[c].generation = connections[c].generation
                              /\ (c # Newest => connections'[c] = connections[c])
      /\ Newest \in 1..Newest
  BY <1>1, NewestBecomes
<1>3. SourceTypes' /\ LifeInv' /\ Subscribed'
  BY <1>1, <1>2 DEF SourceInv, SourceTypes, LifeInv, Subscribed
<1>4. ConnectionInv'
  BY <1>1, <1>2 DEF SourceInv, ConnectionInv
<1>5. Generation' = Generation
  BY <1>2 DEF Generation
<1>6. GenerationInv'
  <2>1. CASE source.closed
    BY <1>1, <2>1 DEF GenerationInv
  <2>2. CASE ~source.closed
    <3>1. /\ \A c \in 1..Newest : source.first < c => connections[c].generation <= source.generation
          /\ source.first < Newest /\ source.generation = Generation => opener \in {"opening", "connected"}
          /\ opener = "opening" => source.generation = Generation
      BY <2>2 DEF SourceInv, GenerationInv
    <3>2. \A c, d \in 1..Newest : source.first < c /\ c < d => connections[c].generation < connections[d].generation
      BY <2>2 DEF SourceInv, GenerationInv
    <3>3. \A c \in 1..Newest : source.first < c => connections'[c].generation <= source.generation
      BY <1>2, <3>1
    <3>4. \A c, d \in 1..Newest : source.first < c /\ c < d => connections'[c].generation < connections'[d].generation
      BY <1>2, <3>2
    <3> QED
      BY <1>1, <1>2, <1>5, <3>1, <3>3, <3>4 DEF GenerationInv
  <2>3. source.closed \in BOOLEAN
    BY TheSource
  <2> QED
    BY <2>1, <2>2, <2>3
<1> QED
  BY <1>3, <1>4, <1>6 DEF SourceInv

LEMMA SuperviseKept ==
  ASSUME SourceInv, SuperviseReconnects
  PROVE  SourceInv'
<1>1. /\ source \in Sources /\ source.generation \in Nat /\ Newest \in Nat /\ source.first \in Nat
      /\ connections \in Seq(Connections) /\ \A c \in 1..Newest : connections[c].generation \in Nat
  BY TheSource
<1>2. CASE CanOpen
  <2>1. PICK g \in Nat : g = source.generation + 1
    BY <1>1
  <2>2. PICK none \in Sources : none = [source EXCEPT !.connection = 0]
    BY <1>1 DEF Sources
  <2>3. /\ none.connection = 0 /\ none.closed = source.closed /\ none.subs = source.subs
        /\ none.generation = source.generation /\ none.first = source.first /\ none.failed = source.failed
    BY <1>1, <2>2 DEF Sources
  <2>4. source' = [none EXCEPT !.generation = g]
    BY <1>1, <1>2, <2>1, <2>2 DEF SuperviseReconnects, Sources
  <2>5. /\ source' \in Sources /\ source'.connection = 0 /\ source'.closed = source.closed /\ source'.subs = source.subs
        /\ source'.generation = g /\ source'.first = source.first /\ source'.failed = source.failed
    <3>1. /\ source' \in Sources /\ source'.connection = none.connection /\ source'.closed = none.closed
          /\ source'.subs = none.subs /\ source'.generation = g /\ source'.first = none.first
          /\ source'.failed = none.failed
      BY <2>1, <2>2, <2>4 DEF Sources
    <3> QED
      BY <2>3, <3>1
  <2>6. opener = "connected" /\ opener' = "backoff" /\ connections[Newest].state = "ended"
        /\ UNCHANGED <<closer, connections, subscriber>> /\ ~source.closed
    BY <1>2 DEF SuperviseReconnects, CanOpen
  <2>7. SourceTypes' /\ LifeInv' /\ Subscribed'
    BY <2>5, <2>6 DEF SourceInv, SourceTypes, LifeInv, Subscribed
  <2>8. Newest' = Newest /\ Generation' = Generation /\ source.first < Newest /\ source.connection = Newest
    BY <2>6 DEF Newest, Generation, SourceInv, ConnectionInv
  <2>9. \A c \in 1..Newest : connections[c].state # "open"
    BY <2>6, <2>8 DEF SourceInv, ConnectionInv
  <2>10. ConnectionInv'
    BY <1>1, <2>5, <2>6, <2>8, <2>9 DEF ConnectionInv
  <2>11. /\ \A c \in 1..Newest : source.first < c => connections[c].generation <= source.generation
         /\ \A c, d \in 1..Newest : source.first < c /\ c < d => connections[c].generation < connections[d].generation
    BY <2>6 DEF SourceInv, GenerationInv
  <2>12. Newest \in 1..Newest /\ Generation = connections[Newest].generation
    BY <1>1, <2>8 DEF Generation
  <2>13. Generation < g
    BY <1>1, <2>1, <2>8, <2>11, <2>12
  <2>14. \A c \in 1..Newest : source.first < c => connections[c].generation <= g
    BY <1>1, <2>1, <2>11
  <2>15. GenerationInv'
    BY <2>5, <2>6, <2>8, <2>11, <2>13, <2>14 DEF GenerationInv
  <2> QED
    BY <2>7, <2>10, <2>15 DEF SourceInv
<1>3. CASE ~CanOpen
  <2>1. source.closed
    BY <1>3 DEF SourceInv, LifeInv, SuperviseReconnects, CanOpen
  <2> QED
    BY <1>1, <1>3, <2>1, OpenerEnds DEF SuperviseReconnects
<1> QED
  BY <1>2, <1>3

LEMMA CloserKept ==
  ASSUME SourceInv, CloserCloses \/ CloserRemoves
  PROVE  SourceInv'
<1>1. /\ source \in Sources /\ source.connection \in Nat /\ Newest \in Nat /\ source.first \in Nat
      /\ connections \in Seq(Connections) /\ \A c \in 1..Newest : connections[c] \in Connections
  BY TheSource
<1>2. CASE CloserCloses
  <2>1. source' = [source EXCEPT !.connection = 0] /\ opener = "done" /\ closer' = "removing" /\ UNCHANGED <<opener, subscriber>>
    BY <1>2 DEF CloserCloses
  <2>2. /\ source' \in Sources /\ source'.connection = 0 /\ source'.closed = source.closed /\ source'.subs = source.subs
        /\ source'.generation = source.generation /\ source'.first = source.first
    BY <1>1, <2>1 DEF Sources
  <2>3. /\ connections' \in Seq(Connections) /\ Newest' = Newest
        /\ \A c \in 1..Newest : connections'[c].state # "open"
    <3>1. CASE source.connection = 0
      BY <1>1, <1>2, <3>1 DEF CloserCloses, Newest, SourceInv, ConnectionInv
    <3>2. CASE source.connection # 0
      <4>1. source.connection \in 1..Newest
        BY <1>1, <3>2 DEF SourceInv, ConnectionInv
      <4>2. PICK last \in Connections : last = connections[source.connection]
        BY <1>1, <4>1
      <4>3. [last EXCEPT !.state = "closed"] \in Connections /\ [last EXCEPT !.state = "closed"].state = "closed"
        BY DEF Connections
      <4>4. connections' = [connections EXCEPT ![source.connection] = [last EXCEPT !.state = "closed"]]
        BY <1>2, <3>2, <4>2 DEF CloserCloses
      <4>5. /\ connections' \in Seq(Connections) /\ Len(connections') = Len(connections)
            /\ connections'[source.connection].state = "closed"
            /\ \A c \in 1..Newest : c # source.connection => connections'[c] = connections[c]
        BY <1>1, <4>1, <4>3, <4>4 DEF Newest
      <4> QED
        BY <4>1, <4>5 DEF Newest, SourceInv, ConnectionInv
    <3> QED
      BY <3>1, <3>2
  <2>4. source.closed
    BY <2>1 DEF SourceInv, LifeInv
  <2>5. SourceTypes' /\ LifeInv' /\ Subscribed'
    BY <2>1, <2>2, <2>3, <2>4 DEF SourceInv, SourceTypes, LifeInv, Subscribed
  <2>6. ConnectionInv' /\ GenerationInv'
    BY <1>1, <2>1, <2>2, <2>3, <2>4 DEF SourceInv, ConnectionInv, GenerationInv
  <2> QED
    BY <2>5, <2>6 DEF SourceInv
<1>3. CASE CloserRemoves
  <2>1. source' = NoSource /\ opener' = "none" /\ closer' = "none" /\ UNCHANGED <<connections, subscriber>>
        /\ closer = "removing"
    BY <1>3 DEF CloserRemoves
  <2>2. source.connection = 0 /\ source.subs = {}
    BY <2>1 DEF SourceInv, LifeInv
  <2>3. NoSource \in Sources /\ NoSource.closed /\ NoSource.subs = {} /\ NoSource.connection = 0 /\ NoSource.first = 0
    BY DEF NoSource, Sources
  <2>4. SourceTypes' /\ LifeInv' /\ Subscribed'
    BY <2>1, <2>2, <2>3 DEF SourceInv, SourceTypes, LifeInv, Subscribed
  <2>5. ConnectionInv' /\ GenerationInv'
    BY <1>1, <2>1, <2>2, <2>3 DEF SourceInv, ConnectionInv, GenerationInv, Newest
  <2> QED
    BY <2>4, <2>5 DEF SourceInv
<1> QED
  BY <1>2, <1>3

LEMMA SourceInitially ==
  ASSUME SourceInit
  PROVE  SourceInv
<1>1. NoSource \in Sources /\ NoSource.closed /\ NoSource.subs = {} /\ NoSource.connection = 0 /\ NoSource.first = 0
  BY DEF NoSource, Sources
<1>2. <<>> \in Seq(Nat) /\ connections \in Seq(Connections) /\ Len(connections) = 0
  BY DEF SourceInit
<1>3. subscriber \in [Subscribers -> Channels] /\ \A s \in Subscribers : subscriber[s].at = "out"
  <2>1. [at |-> "out", events |-> <<>>] \in Channels
    BY <1>2 DEF Channels
  <2> QED
    BY <2>1 DEF SourceInit
<1>4. source = NoSource /\ opener = "none" /\ closer = "none"
  BY DEF SourceInit
<1>5. SourceTypes /\ LifeInv /\ Subscribed
  BY <1>1, <1>2, <1>3, <1>4 DEF SourceTypes, LifeInv, Subscribed
<1>6. ConnectionInv /\ GenerationInv
  BY <1>1, <1>2, <1>4 DEF ConnectionInv, GenerationInv, Newest
<1> QED
  BY <1>5, <1>6 DEF SourceInv

LEMMA SourceKept == SourceInv /\ [SourceNext]_sourceVars => SourceInv'
<1> SUFFICES ASSUME SourceInv, [SourceNext]_sourceVars PROVE SourceInv'
  OBVIOUS
<1>1. CASE \E s \in Subscribers : \/ Subscribe(s) \/ SubscribeReturns(s) \/ CancelSubscription(s)
                                  \/ SubscriptionEnds(s) \/ Deliver(s)
  BY <1>1, JoiningKept, SubscriberSteps, CancelKept
<1>2. CASE CloseManager
  BY <1>2, CloseKept
<1>3. CASE \E c \in 1..Newest : Callback(c)
  BY <1>3, CallbackKept
<1>4. CASE OpenInitial \/ InitialOpens \/ InitialFails \/ ConnectionEnds
  BY <1>4, OpenInitialKept, InitialOpensKept, InitialFailsKept, EndKept
<1>5. CASE SuperviseReconnects \/ SuperviseStops \/ Reconnect \/ ReconnectOpens \/ ReconnectFails
  BY <1>5, SuperviseKept, StopsKept, ReconnectKept, ReconnectOpensKept, ReconnectFailsKept
<1>6. CASE CloserCloses \/ CloserRemoves
  BY <1>6, CloserKept
<1>7. CASE UNCHANGED sourceVars
  BY <1>7 DEF sourceVars, SourceInv, SourceTypes, LifeInv, Subscribed, ConnectionInv, GenerationInv, Newest, Generation
<1> QED
  BY <1>1, <1>2, <1>3, <1>4, <1>5, <1>6, <1>7 DEF SourceNext

LEMMA OpenAreOwned == SourceInv => OpenConnectionsAreOwned
<1> SUFFICES ASSUME SourceInv, NEW c \in 1..Newest, connections[c].state = "open"
             PROVE  source.connection = c /\ (source.closed => closer # "none")
  BY DEF OpenConnectionsAreOwned
<1>1. source.connection = c
  BY DEF SourceInv, ConnectionInv
<1>2. opener # "none"
  BY <1>1, TheSource DEF SourceInv, LifeInv, NoSource
<1> QED
  BY <1>1, <1>2 DEF SourceInv, LifeInv

\* A callback that is admitted is of the newest connection.
LEMMA AdmittedAreNewest ==
  ASSUME SourceInv, NEW c \in 1..Newest, Admits(c)
  PROVE  c = Newest /\ connections[Newest].state # "failed" /\ opener \in {"opening", "connected"}
<1>1. /\ Newest \in Nat /\ source.generation \in Nat /\ source.first \in Nat
      /\ \A d \in 1..Newest : connections[d].generation \in Nat
  BY TheSource
<1>2. ~source.closed /\ source.first < c /\ source.generation = connections[c].generation
  BY <1>1 DEF Admits
<1>3. /\ \A d \in 1..Newest : source.first < d => connections[d].generation <= source.generation
      /\ source.first < Newest /\ source.generation = Generation =>
           opener \in {"opening", "connected"} /\ connections[Newest].state # "failed"
  BY <1>2 DEF SourceInv, GenerationInv
<1>4. \A d, e \in 1..Newest : source.first < d /\ d < e => connections[d].generation < connections[e].generation
  BY <1>2 DEF SourceInv, GenerationInv
<1>5. Newest \in 1..Newest /\ source.first < Newest
  BY <1>1, <1>2
<1>6. c = Newest
  <2> SUFFICES ASSUME c # Newest PROVE FALSE
    OBVIOUS
  <2>1. c < Newest
    BY <1>1
  <2>2. connections[c].generation < connections[Newest].generation
    BY <1>2, <1>4, <1>5, <2>1
  <2>3. connections[Newest].generation <= source.generation
    BY <1>3, <1>5
  <2> QED
    BY <1>1, <1>2, <1>5, <2>2, <2>3
<1> QED
  BY <1>2, <1>3, <1>5, <1>6 DEF Generation

\* Only such a callback is delivered.
LEMMA EventsAreOfTheNewest ==
  ASSUME SourceInv, [SourceNext]_sourceVars, NEW s \in Subscribers, Len(subscriber'[s].events) > Len(subscriber[s].events)
  PROVE  /\ Last(subscriber'[s].events) = Newest
         /\ connections[Newest].state # "failed" /\ opener \in {"opening", "connected"}
<1>1. subscriber \in [Subscribers -> Channels] /\ source.subs \in SUBSET Subscribers
  BY TheSource
<1>2. PICK channel \in Channels : channel = subscriber[s]
  BY <1>1
<1>3. channel.events \in Seq(Nat) /\ Len(channel.events) \in Nat /\ Len(<<>>) = 0
  BY DEF Channels
<1>4. \A S \in SUBSET Subscribers : ~(Len(Stopped(S)[s].events) > Len(channel.events))
  BY <1>1, <1>2, <1>3, StoppedChannels
<1>5. CASE UNCHANGED subscriber
  BY <1>2, <1>3, <1>5
<1>6. CASE \E r \in Subscribers : Subscribe(r) \/ SubscriptionEnds(r) \/ SubscribeReturns(r)
  <2>1. PICK r \in Subscribers : \/ subscriber' = [subscriber EXCEPT ![r].at = "joining"]
                                 \/ subscriber' = [subscriber EXCEPT ![r].at = "out"]
                                 \/ subscriber' = [subscriber EXCEPT ![r].at = "in"]
                                 \/ subscriber' = Stopped({r})
    BY <1>6 DEF Subscribe, SubscriptionEnds, SubscribeReturns
  <2>2. CASE subscriber' = Stopped({r})
    BY <1>2, <1>4, <2>2
  <2>3. CASE subscriber'[s].events = subscriber[s].events
    BY <1>2, <1>3, <2>3
  <2>4. PICK other \in Channels : other = subscriber[r]
    BY <1>1
  <2>5. \A place : [other EXCEPT !.at = place].events = other.events
    BY DEF Channels
  <2>6. (\E place : subscriber' = [subscriber EXCEPT ![r] = [other EXCEPT !.at = place]])
        => subscriber'[s].events = subscriber[s].events
    BY <1>1, <2>4, <2>5
  <2> QED
    BY <2>1, <2>2, <2>3, <2>4, <2>6
<1>7. CASE \E r \in Subscribers : CancelSubscription(r)
  BY <1>2, <1>4, <1>7 DEF CancelSubscription
<1>8. CASE \E r \in Subscribers : Deliver(r)
  <2>1. PICK r \in Subscribers : Deliver(r)
    BY <1>8
  <2>2. PICK other \in Channels : other = subscriber[r]
    BY <1>1
  <2>3. subscriber' = [subscriber EXCEPT ![r] = [other EXCEPT !.events = Tail(other.events)]] /\ other.events # <<>>
    BY <1>1, <2>1, <2>2 DEF Deliver
  <2>4. Len(Tail(other.events)) < Len(other.events) /\ other.events \in Seq(Nat)
    BY <2>3 DEF Channels
  <2>5. [other EXCEPT !.events = Tail(other.events)].events = Tail(other.events)
    BY DEF Channels
  <2>6. CASE r = s
    BY <1>1, <1>2, <1>3, <2>2, <2>3, <2>4, <2>5, <2>6
  <2>7. CASE r # s
    BY <1>1, <1>2, <1>3, <2>3, <2>7
  <2> QED
    BY <2>6, <2>7
<1>9. CASE CloseManager
  BY <1>1, <1>2, <1>3, <1>4, <1>9 DEF CloseManager
<1>10. CASE InitialFails
  BY <1>1, <1>2, <1>4, <1>10 DEF InitialFails
<1>11. CASE \E c \in 1..Newest : Callback(c)
  <2>1. PICK c \in 1..Newest : Callback(c)
    BY <1>11
  <2>2. Admits(c)
    BY <1>2, <1>3, <2>1 DEF Callback
  <2>3. PICK full \in SUBSET Subscribers : full = {r \in source.subs : Len(subscriber[r].events) >= Capacity}
    BY <1>1
  <2>4. subscriber'[s].events = Append(channel.events, c) \/ subscriber'[s].events = Stopped(full)[s].events
    <3>1. \E S : subscriber' = [r \in Subscribers |->
                   IF r \in S THEN [subscriber[r] EXCEPT !.events = Append(@, c)] ELSE Stopped(full)[r]]
      BY <2>1, <2>2, <2>3 DEF Callback
    <3>2. [channel EXCEPT !.events = Append(channel.events, c)].events = Append(channel.events, c)
      BY DEF Channels
    <3> QED
      BY <1>2, <3>1, <3>2
  <2>5. subscriber'[s].events = Append(channel.events, c)
    BY <1>2, <1>4, <2>4
  <2>6. Last(subscriber'[s].events) = c
    BY <1>3, <2>5 DEF Last
  <2> QED
    BY <2>2, <2>6, AdmittedAreNewest
<1> QED
  BY <1>5, <1>6, <1>7, <1>8, <1>9, <1>10, <1>11
     DEF SourceNext, sourceVars, OpenInitial, InitialOpens, ConnectionEnds, SuperviseReconnects, SuperviseStops,
         Reconnect, ReconnectOpens, ReconnectFails, CloserCloses, CloserRemoves

\* A room has one connection, which its source owns until finishClosing has closed it,
\* and its subscribers are given the events of the newest one only (SubscribeCanonical,
\* openInitial, supervise, reconnect, accept and finishClosing in roomsource).
THEOREM RoomsAlwaysHaveOneConnection == SourceSpec => RoomsHaveOneConnection
<1>1. SourceInit => SourceInv
  BY SourceInitially
<1>2. SourceInv /\ [SourceNext]_sourceVars => SourceInv'
  BY SourceKept
<1>3. SourceInv => OpenConnectionsAreOwned
  BY OpenAreOwned
<1>4. SourceInv /\ [SourceNext]_sourceVars =>
        [\A s \in Subscribers : Len(subscriber'[s].events) > Len(subscriber[s].events) =>
            /\ Last(subscriber'[s].events) = Newest
            /\ connections[Newest].state # "failed"
            /\ opener \in {"opening", "connected"}]_sourceVars
  BY EventsAreOfTheNewest
<1> QED
  BY <1>1, <1>2, <1>3, <1>4, PTL DEF SourceSpec, RoomsHaveOneConnection
-----------------------------------------------------------------------------
(***************************************************************************)
(* The gifts of an account (EventProcessor).  The processor and an edit    *)
(* each work on a copy of the runtime state; a copy with the stored        *)
(* revision is the stored state, since every commit raises the revision.   *)
(***************************************************************************)
Entries == [session : Nat, gift : Nat]
Stores == [config : Nat, revision : Nat, runtime : Seq(Entries), receipts : SUBSET Gifts, holds : BOOLEAN]
Processors ==
  [revision : Nat, runtime : Seq(Entries), buffer : Seq(Gifts), expired : BOOLEAN, retrying : BOOLEAN,
   seen : SUBSET Gifts, degraded : BOOLEAN, rejecting : BOOLEAN, terminal : BOOLEAN, closing : BOOLEAN,
   drained : BOOLEAN, cancelled : BOOLEAN]
Sessions ==
  [id : Nat, config : Nat, at : {"open", "closing", "waiting", "dropping", "closed", "final"}, stopped : BOOLEAN]
Editors == [at : {"idle", "loaded"}, config : Nat, revision : Nat, runtime : Seq(Entries)]

\* A copy of the runtime state is of an earlier revision, or up to date.
Behind(copy, store) ==
  /\ copy.revision <= store.revision
  /\ copy.revision = store.revision => copy.runtime = store.runtime

\* A transaction leaves everything, or raises the revision and adds to the state.
Raises(old, new) ==
  \/ new.revision = old.revision /\ new.runtime = old.runtime
  \/ new.revision > old.revision /\ IsPrefix(old.runtime, new.runtime)

GiftInv ==
  /\ stored \in Stores /\ processor \in Processors /\ editor \in Editors
  /\ session \in Sessions
  /\ Behind(processor, stored) /\ Behind(editor, stored)

LEMMA PrefixOfItself ==
  ASSUME NEW S, NEW s \in Seq(S)
  PROVE  IsPrefix(s, s)
BY DEF IsPrefix

LEMMA PrefixOfAppend ==
  ASSUME NEW S, NEW s \in Seq(S), NEW e \in S
  PROVE  IsPrefix(s, Append(s, e)) /\ Append(s, e) \in Seq(S)
<1>1. Len(s) \in Nat /\ Len(Append(s, e)) = Len(s) + 1 /\ Append(s, e) \in Seq(S)
  BY AppendProperties, LenProperties
<1>2. \A i \in 1..Len(s) : Append(s, e)[i] = s[i]
  BY AppendProperties
<1>3. SubSeq(s, 1, Len(s)) = [i \in 1..Len(s) |-> s[i]]
  BY <1>1
<1>4. SubSeq(Append(s, e), 1, Len(s)) = [i \in 1..Len(s) |-> Append(s, e)[i]]
  BY <1>1
<1> QED
  BY <1>1, <1>2, <1>3, <1>4 DEF IsPrefix

LEMMA RaisesKeeps ==
  ASSUME NEW copy, NEW old \in Stores, NEW new \in Stores, copy.revision \in Nat, Behind(copy, old), Raises(old, new)
  PROVE  Behind(copy, new)
<1>1. old.revision \in Nat /\ new.revision \in Nat
  BY DEF Stores
<1> QED
  BY <1>1 DEF Behind, Raises

LEMMA UnchangedRaises ==
  ASSUME NEW old \in Stores
  PROVE  Raises(old, old)
BY DEF Raises

\* A processor that differs in something else is as much behind.
Same(p, q) == p.revision = q.revision /\ p.runtime = q.runtime

LEMMA ProcessorMoves ==
  ASSUME NEW p \in Processors
  PROVE  /\ Terminated(p) \in Processors /\ Same(Terminated(p), p)
         /\ Scheduled(p) \in Processors /\ Same(Scheduled(p), p)
         /\ Recovered(p) \in Processors /\ Same(Recovered(p), p)
<1>1. PICK d \in BOOLEAN : d = (p.drained \/ p.closing)
  BY DEF Processors
<1>2. <<>> \in Seq(Gifts)
  OBVIOUS
<1>3. Terminated(p) = [p EXCEPT !.buffer = <<>>, !.expired = FALSE, !.degraded = TRUE, !.rejecting = TRUE,
                                !.terminal = TRUE, !.drained = d]
  BY <1>1 DEF Terminated
<1>4. Recovered(p) = [p EXCEPT !.degraded = FALSE, !.rejecting = FALSE, !.drained = d]
  BY <1>1 DEF Recovered
<1>5. Terminated(p) \in Processors /\ Same(Terminated(p), p)
  BY <1>2, <1>3 DEF Processors, Same
<1>6. Recovered(p) \in Processors /\ Same(Recovered(p), p)
  BY <1>4 DEF Processors, Same
<1>7. Scheduled(p) \in Processors /\ Same(Scheduled(p), p)
  BY DEF Scheduled, Processors, Same
<1> QED
  BY <1>5, <1>6, <1>7

LEMMA BufferMoves ==
  ASSUME NEW p \in Processors, NEW g \in Gifts
  PROVE  /\ [p EXCEPT !.buffer = Append(@, g)] \in Processors /\ Same([p EXCEPT !.buffer = Append(@, g)], p)
         /\ [p EXCEPT !.buffer = Append(@, g), !.degraded = TRUE] \in Processors
         /\ Same([p EXCEPT !.buffer = Append(@, g), !.degraded = TRUE], p)
         /\ p.buffer # <<>> => /\ Head(p.buffer) \in Gifts /\ [p EXCEPT !.buffer = Tail(@)] \in Processors
                               /\ Same([p EXCEPT !.buffer = Tail(@)], p)
<1>1. p.buffer \in Seq(Gifts)
  BY DEF Processors
<1>2. PICK b \in Seq(Gifts) : b = Append(p.buffer, g)
  BY <1>1, AppendProperties
<1>3. /\ [p EXCEPT !.buffer = b] \in Processors /\ Same([p EXCEPT !.buffer = b], p)
      /\ [p EXCEPT !.buffer = b, !.degraded = TRUE] \in Processors
      /\ Same([p EXCEPT !.buffer = b, !.degraded = TRUE], p)
  BY <1>2 DEF Processors, Same
<1>4. ASSUME p.buffer # <<>>
      PROVE  /\ Head(p.buffer) \in Gifts /\ [p EXCEPT !.buffer = Tail(@)] \in Processors
             /\ Same([p EXCEPT !.buffer = Tail(@)], p)
  <2>1. Head(p.buffer) \in Gifts /\ Tail(p.buffer) \in Seq(Gifts)
    BY <1>1, <1>4, HeadTailProperties
  <2>2. PICK b2 \in Seq(Gifts) : b2 = Tail(p.buffer)
    BY <2>1
  <2>3. [p EXCEPT !.buffer = b2] \in Processors /\ Same([p EXCEPT !.buffer = b2], p)
    BY <2>2 DEF Processors, Same
  <2> QED
    BY <2>1, <2>2, <2>3
<1> QED
  BY <1>2, <1>3, <1>4

\* One attempt to commit a gift: the processor's copy stays a copy.
LEMMA AttemptKeeps ==
  ASSUME GiftInv, NEW g \in Gifts, NEW outcome, NEW next, Attempt(g, outcome, next)
  PROVE  stored' \in Stores /\ Raises(stored, stored') /\ next \in Processors /\ Behind(next, stored')
<1>1. stored \in Stores /\ processor \in Processors /\ session.id \in Nat /\ Behind(processor, stored)
  BY DEF GiftInv, Sessions
<1>2. g \in Nat /\ Entry(g) \in Entries
  BY <1>1, GiftAssumption DEF GiftAssumption, Entry, Entries
<1>3. /\ stored.revision \in Nat /\ stored.runtime \in Seq(Entries)
      /\ processor.revision \in Nat /\ processor.runtime \in Seq(Entries)
  BY <1>1 DEF Stores, Processors
<1>4. CASE UNCHANGED stored /\ next = processor
  BY <1>1, <1>4, UnchangedRaises
<1>5. CASE UNCHANGED stored /\ next = Reloaded
  <2>1. PICK n \in Nat : n = stored.revision
    BY <1>3
  <2>2. PICK r \in Seq(Entries) : r = stored.runtime
    BY <1>3
  <2>3. next = [processor EXCEPT !.revision = n, !.runtime = r]
    BY <1>5, <2>1, <2>2 DEF Reloaded
  <2>4. next \in Processors /\ next.revision = n /\ next.runtime = r
    BY <1>1, <2>3 DEF Processors
  <2> QED
    BY <1>1, <1>5, <2>1, <2>2, <2>4, UnchangedRaises DEF Behind
<1>6. CASE Refusal(g) = "none" /\ CommitRuntimeEvent(g) /\ (next = Recorded(g) \/ next = processor)
  <2>1. stored.revision = processor.revision /\ stored.runtime = processor.runtime
    BY <1>1, <1>6 DEF Refusal, Behind
  <2>2. PICK n \in Nat : n = stored.revision + 1
    BY <1>3
  <2>3. PICK r \in Seq(Entries) : r = Append(stored.runtime, Entry(g)) /\ IsPrefix(stored.runtime, r)
    BY <1>2, <1>3, PrefixOfAppend
  <2>4. stored' \in Stores /\ stored'.revision = n /\ stored'.runtime = r
    <3>1. PICK s \in SUBSET Gifts : s = IF g \in Identified THEN stored.receipts \cup {g} ELSE stored.receipts
      BY <1>1 DEF Stores
    <3>2. stored' = [stored EXCEPT !.revision = n, !.runtime = r, !.receipts = s]
      BY <1>6, <2>1, <2>2, <2>3, <3>1 DEF CommitRuntimeEvent
    <3> QED
      BY <1>1, <3>2 DEF Stores
  <2>5. Raises(stored, stored')
    BY <1>3, <2>2, <2>3, <2>4 DEF Raises
  <2>6. CASE next = Recorded(g)
    <3>1. PICK s \in SUBSET Gifts : s = IF g \in Identified THEN processor.seen ELSE processor.seen \cup {g}
      BY <1>1 DEF Processors
    <3>2. next = [processor EXCEPT !.revision = n, !.runtime = r, !.seen = s]
      BY <2>1, <2>2, <2>3, <2>6, <3>1 DEF Recorded
    <3>3. next \in Processors /\ next.revision = n /\ next.runtime = r
      BY <1>1, <3>2 DEF Processors
    <3> QED
      BY <2>4, <2>5, <3>3 DEF Behind
  <2>7. CASE next = processor
    BY <1>1, <1>3, <2>4, <2>5, <2>7, RaisesKeeps
  <2> QED
    BY <1>6, <2>6, <2>7
<1> QED
  BY <1>4, <1>5, <1>6 DEF Attempt

\* What a step owes: the stored state, and a copy of it for the processor.
Keeps(p) == stored' \in Stores /\ Raises(stored, stored') /\ p \in Processors /\ Behind(p, stored')

LEMMA AcceptKeeps ==
  ASSUME GiftInv, NEW g \in Gifts, Accept(g)
  PROVE  Keeps(processor') /\ editor' = editor /\ session' = session
<1> SUFFICES Keeps(processor')
  BY DEF Accept
<1>1. stored \in Stores /\ processor \in Processors /\ Behind(processor, stored)
  BY DEF GiftInv
<1>2. CASE stored' = stored /\ processor' = processor
  BY <1>1, <1>2, UnchangedRaises DEF Keeps
<1>3. CASE Queue(g)
  <2>1. stored' = stored /\ processor' \in {[processor EXCEPT !.rejecting = TRUE], [processor EXCEPT !.buffer = Append(@, g)]}
    BY <1>3 DEF Queue
  <2>2. [processor EXCEPT !.rejecting = TRUE] \in Processors /\ Same([processor EXCEPT !.rejecting = TRUE], processor)
    BY <1>1 DEF Processors, Same
  <2>3. processor' \in Processors /\ Same(processor', processor)
    BY <1>1, <2>1, <2>2, BufferMoves
  <2> QED
    BY <1>1, <2>1, <2>3, UnchangedRaises DEF Keeps, Behind, Same
<1>4. CASE Apply(g)
  <2>1. PICK outcome \in Outcomes, next \in Nexts(g) :
          /\ Attempt(g, outcome, next)
          /\ \/ processor' = next
             \/ processor' = Scheduled([next EXCEPT !.buffer = Append(@, g), !.degraded = TRUE])
             \/ processor' = Terminated(next)
    BY <1>4 DEF Apply, Outcomes
  <2>2. Keeps(next)
    BY <2>1, AttemptKeeps DEF Keeps
  <2>3. processor' \in Processors /\ Same(processor', next)
    <3>1. PICK p \in Processors : p = [next EXCEPT !.buffer = Append(@, g), !.degraded = TRUE] /\ Same(p, next)
      BY <2>2, BufferMoves DEF Keeps
    <3>2. Scheduled(p) \in Processors /\ Same(Scheduled(p), p) /\ Terminated(next) \in Processors /\ Same(Terminated(next), next)
      BY <2>2, ProcessorMoves DEF Keeps
    <3>3. Same(next, next)
      BY DEF Same
    <3> QED
      BY <2>1, <2>2, <3>1, <3>2, <3>3 DEF Keeps, Same
  <2> QED
    BY <2>2, <2>3 DEF Keeps, Behind, Same
<1> QED
  BY <1>2, <1>3, <1>4 DEF Accept

LEMMA RetryKeeps ==
  ASSUME GiftInv, RetryRound
  PROVE  Keeps(processor') /\ editor' = editor /\ session' = session
<1> SUFFICES Keeps(processor')
  BY DEF RetryRound
<1>1. stored \in Stores /\ processor \in Processors /\ Behind(processor, stored)
  BY DEF GiftInv
<1>2. Awake \in Processors /\ Same(Awake, processor) /\ Awake.retrying \in BOOLEAN
  BY <1>1 DEF Awake, Processors, Same
<1>3. CASE NothingBuffered \/ HeadExpired
  <2>1. stored' = stored /\ (processor' = Recovered(Awake) \/ processor' = Terminated(Awake))
    BY <1>3 DEF NothingBuffered, HeadExpired
  <2>2. processor' \in Processors /\ Same(processor', Awake)
    BY <1>2, <2>1, ProcessorMoves
  <2> QED
    BY <1>1, <1>2, <2>1, <2>2, UnchangedRaises DEF Keeps, Behind, Same
<1>4. CASE RetryHead
  <2>1. processor.buffer # <<>> /\ processor.buffer \in Seq(Gifts)
    BY <1>1, <1>4 DEF RetryHead, Processors
  <2>2. PICK g \in Gifts : g = Head(processor.buffer)
    BY <2>1, HeadTailProperties
  <2>3. PICK outcome \in Outcomes, next \in Nexts(g) :
          /\ Attempt(g, outcome, next)
          /\ LET p == [next EXCEPT !.retrying = Awake.retrying] IN
             \/ processor' \in {Recovered([p EXCEPT !.buffer = Tail(@)]), [p EXCEPT !.buffer = Tail(@)]}
             \/ processor' = Scheduled(p)
             \/ processor' = Terminated(p)
    BY <1>4, <2>2 DEF RetryHead, Outcomes
  <2> DEFINE p == [next EXCEPT !.retrying = Awake.retrying]
  <2>4. Keeps(next)
    BY <2>2, <2>3, AttemptKeeps DEF Keeps
  <2>5. p \in Processors /\ Same(p, next)
    BY <1>2, <2>4 DEF Keeps, Processors, Same
  <2>6. p.buffer # <<>>
    <3>1. next.buffer = processor.buffer
      BY <1>1, <2>3 DEF Nexts, Recorded, Reloaded, Processors
    <3> QED
      BY <2>1, <2>4, <3>1 DEF Keeps, Processors
  <2>9. \/ processor' \in {Recovered([p EXCEPT !.buffer = Tail(@)]), [p EXCEPT !.buffer = Tail(@)]}
        \/ processor' = Scheduled(p)
        \/ processor' = Terminated(p)
    BY <2>3
  <2> HIDE DEF p
  <2>7. PICK popped \in Processors : popped = [p EXCEPT !.buffer = Tail(@)] /\ Same(popped, p)
    BY <2>2, <2>5, <2>6, BufferMoves
  <2>8. /\ Recovered(popped) \in Processors /\ Same(Recovered(popped), popped)
        /\ Scheduled(p) \in Processors /\ Same(Scheduled(p), p)
        /\ Terminated(p) \in Processors /\ Same(Terminated(p), p)
    BY <2>5, ProcessorMoves
  <2>10. processor' \in Processors /\ Same(processor', next)
    BY <2>5, <2>7, <2>8, <2>9 DEF Same
  <2> QED
    BY <2>4, <2>10 DEF Keeps, Behind, Same
<1> QED
  BY <1>3, <1>4 DEF RetryRound

\* The steps that leave the stored state and the copies of it.
LEMMA QuietKeeps ==
  ASSUME GiftInv,
         \/ Ages \/ TimerFires \/ TimerStops \/ CloseBegins \/ CloseDrained \/ CloseExpires \/ CloseDrops
         \/ CloseReturns \/ FinalizeSession \/ NextSession \/ FenceLost \/ UNCHANGED giftVars
  PROVE  Keeps(processor') /\ editor' = editor /\ session' \in Sessions
<1>1. stored \in Stores /\ processor \in Processors /\ Behind(processor, stored) /\ session \in Sessions
  BY DEF GiftInv
<1>2. [stored EXCEPT !.holds = TRUE] \in Stores /\ Raises(stored, [stored EXCEPT !.holds = TRUE])
  BY <1>1 DEF Stores, Raises
<1>3. [stored EXCEPT !.holds = FALSE] \in Stores /\ Raises(stored, [stored EXCEPT !.holds = FALSE])
  BY <1>1 DEF Stores, Raises
<1>4. stored' \in Stores /\ Raises(stored, stored') /\ stored'.revision = stored.revision /\ stored'.runtime = stored.runtime
  <2>1. stored' \in {stored, [stored EXCEPT !.holds = TRUE], [stored EXCEPT !.holds = FALSE]}
    BY DEF Ages, TimerFires, TimerStops, CloseBegins, CloseDrained, CloseExpires, CloseDrops, CloseReturns,
           FinalizeSession, NextSession, FenceLost, giftVars
  <2>2. \A s \in {[stored EXCEPT !.holds = TRUE], [stored EXCEPT !.holds = FALSE]} :
          s.revision = stored.revision /\ s.runtime = stored.runtime
    BY <1>1 DEF Stores
  <2> QED
    BY <1>1, <1>2, <1>3, <2>1, <2>2, UnchangedRaises
<1>5. CASE NextSession
  <2>1. processor' = NewProcessor /\ editor' = editor /\ session' \in Sessions
    BY <1>1, <1>5 DEF NextSession, Sessions, Stores
  <2>2. NewProcessor \in Processors /\ NewProcessor.revision = stored.revision /\ NewProcessor.runtime = stored.runtime
    <3>1. <<>> \in Seq(Gifts) /\ stored.revision \in Nat /\ stored.runtime \in Seq(Entries)
      BY <1>1 DEF Stores
    <3> QED
      BY <3>1 DEF NewProcessor, Processors
  <2> QED
    BY <1>1, <1>4, <2>1, <2>2 DEF Keeps, Behind, Stores
<1>6. ASSUME ~NextSession
      PROVE  processor' \in Processors /\ Same(processor', processor) /\ editor' = editor /\ session' \in Sessions
  <2>1. CASE Ages
    BY <1>1, <2>1 DEF Ages, Processors, Same
  <2>2. CASE TimerFires \/ TimerStops \/ FenceLost \/ CloseReturns \/ FinalizeSession \/ UNCHANGED giftVars
    <3>1. processor' = processor /\ editor' = editor
      BY <2>2 DEF TimerFires, TimerStops, FenceLost, CloseReturns, FinalizeSession, giftVars
    <3>2. session' \in Sessions
      BY <1>1, <2>2 DEF TimerFires, TimerStops, FenceLost, CloseReturns, FinalizeSession, giftVars, Sessions
    <3> QED
      BY <1>1, <3>1, <3>2 DEF Same
  <2>3. CASE CloseBegins
    <3>1. PICK d \in BOOLEAN : d = (processor.buffer = <<>>)
      OBVIOUS
    <3>2. processor' = [processor EXCEPT !.closing = TRUE, !.drained = d]
      BY <2>3, <3>1 DEF CloseBegins
    <3>3. processor' \in Processors /\ Same(processor', processor)
      BY <1>1, <3>2 DEF Processors, Same
    <3> QED
      BY <1>1, <2>3, <3>3 DEF CloseBegins, Sessions
  <2>4. CASE CloseDrained \/ CloseExpires
    BY <1>1, <2>4 DEF CloseDrained, CloseExpires, Processors, Same, Sessions
  <2>5. CASE CloseDrops
    <3>1. processor' \in Processors /\ Same(processor', processor)
      BY <1>1, <2>5, ProcessorMoves DEF CloseDrops
    <3> QED
      BY <1>1, <2>5, <3>1 DEF CloseDrops, Sessions
  <2> QED
    BY <1>6, <2>1, <2>2, <2>3, <2>4, <2>5
<1> QED
  BY <1>1, <1>4, <1>5, <1>6 DEF Keeps, Behind, Same

\* The edits: what is saved is put behind the copy that was loaded.
LEMMA EditKeeps ==
  ASSUME GiftInv, LoadActive \/ SaveState \/ SaveDefinition
  PROVE  /\ stored' \in Stores /\ Raises(stored, stored') /\ editor' \in Editors /\ Behind(editor', stored')
         /\ processor' = processor /\ session' = session
<1>1. stored \in Stores /\ editor \in Editors /\ Behind(editor, stored)
  BY DEF GiftInv
<1>2. /\ stored.revision \in Nat /\ stored.config \in Nat /\ stored.runtime \in Seq(Entries)
      /\ editor.revision \in Nat /\ Edit \in Entries
  BY <1>1 DEF Stores, Editors, Edit, Entries
<1>3. CASE LoadActive
  <2>1. editor' = [at |-> "loaded", config |-> stored.config, revision |-> stored.revision, runtime |-> stored.runtime]
        /\ stored' = stored /\ processor' = processor /\ session' = session
    BY <1>3 DEF LoadActive
  <2> QED
    BY <1>1, <1>2, <2>1, UnchangedRaises DEF Editors, Behind
<1>4. CASE SaveState \/ SaveDefinition
  <2>1. editor' \in Editors /\ editor'.revision = editor.revision /\ editor'.runtime = editor.runtime
        /\ processor' = processor /\ session' = session
    BY <1>1, <1>4 DEF SaveState, SaveDefinition, Editors
  <2>2. PICK n \in Nat : n = stored.revision + 1
    BY <1>2
  <2>3. PICK c \in Nat : c = stored.config + 1
    BY <1>2
  <2>4. PICK r \in Seq(Entries) : r = Append(stored.runtime, Edit) /\ IsPrefix(stored.runtime, r)
    BY <1>2, PrefixOfAppend
  <2>5. \/ stored' = stored
        \/ stored' = [stored EXCEPT !.revision = n, !.runtime = r]
        \/ stored' = [stored EXCEPT !.revision = n, !.config = c, !.runtime = r]
    BY <1>1, <1>4, <2>2, <2>3, <2>4 DEF SaveState, SaveDefinition, Behind
  <2>6. stored' = stored \/ (stored' \in Stores /\ stored'.revision = n /\ stored'.runtime = r)
    BY <1>1, <2>5 DEF Stores
  <2>7. stored' \in Stores /\ Raises(stored, stored')
    <3>1. CASE stored' = stored
      BY <1>1, <3>1, UnchangedRaises
    <3>2. CASE stored' # stored
      <4>1. stored' \in Stores /\ stored'.revision = n /\ stored'.runtime = r
        BY <2>6, <3>2
      <4>2. n > stored.revision
        BY <1>2, <2>2
      <4> QED
        BY <2>4, <4>1, <4>2 DEF Raises
    <3> QED
      BY <3>1, <3>2
  <2>8. Behind(editor', stored')
    <3>1. Behind(editor, stored')
      BY <1>1, <1>2, <2>7, RaisesKeeps
    <3> QED
      BY <2>1, <3>1 DEF Behind
  <2> QED
    BY <2>1, <2>7, <2>8
<1> QED
  BY <1>3, <1>4

LEMMA GiftKept ==
  ASSUME GiftInv, [GiftNext]_giftVars
  PROVE  GiftInv' /\ Raises(stored, stored')
<1>1. stored \in Stores /\ editor \in Editors /\ Behind(editor, stored) /\ processor \in Processors
      /\ Behind(processor, stored) /\ session \in Sessions
  BY DEF GiftInv
<1>2. editor.revision \in Nat /\ processor.revision \in Nat
  BY <1>1 DEF Editors, Processors
<1>3. CASE LoadActive \/ SaveState \/ SaveDefinition
  <2>1. /\ stored' \in Stores /\ Raises(stored, stored') /\ editor' \in Editors /\ Behind(editor', stored')
        /\ processor' = processor /\ session' = session
    BY <1>3, EditKeeps
  <2>2. Behind(processor, stored')
    BY <1>1, <1>2, <2>1, RaisesKeeps
  <2> QED
    BY <1>1, <2>1, <2>2 DEF GiftInv
<1>4. CASE Keeps(processor') /\ editor' = editor /\ session' \in Sessions
  <2>1. stored' \in Stores /\ Raises(stored, stored') /\ processor' \in Processors /\ Behind(processor', stored')
    BY <1>4 DEF Keeps
  <2>2. Behind(editor, stored')
    BY <1>1, <1>2, <2>1, RaisesKeeps
  <2> QED
    BY <1>1, <1>4, <2>1, <2>2 DEF GiftInv
<1>5. CASE (\E g \in Gifts : Accept(g)) \/ RetryRound
  <2>1. Keeps(processor') /\ editor' = editor /\ session' = session
    BY <1>5, AcceptKeeps, RetryKeeps
  <2> QED
    BY <1>1, <1>4, <2>1
<1> QED
  BY <1>3, <1>4, <1>5, QuietKeeps DEF GiftNext

LEMMA GiftInvInit ==
  ASSUME GiftInit
  PROVE  GiftInv
<1>1. <<>> \in Seq(Entries) /\ <<>> \in Seq(Gifts)
  OBVIOUS
<1>2. /\ stored = [config |-> 1, revision |-> 1, runtime |-> <<>>, receipts |-> {}, holds |-> TRUE]
      /\ processor = NewProcessor /\ session = [id |-> 1, config |-> 1, at |-> "open", stopped |-> FALSE]
      /\ editor = [at |-> "idle", config |-> 0, revision |-> 0, runtime |-> <<>>]
  BY DEF GiftInit
<1>3. stored \in Stores /\ editor \in Editors /\ Behind(editor, stored)
  BY <1>1, <1>2 DEF Stores, Editors, Behind
<1>4. NewProcessor \in Processors /\ Behind(NewProcessor, stored)
  BY <1>1, <1>2 DEF NewProcessor, Processors, Behind
<1>5. session \in Sessions
  BY <1>2 DEF Sessions
<1> QED
  BY <1>2, <1>3, <1>4, <1>5 DEF GiftInv

-----------------------------------------------------------------------------
(* What comes first in a sequence that grows at its end and shrinks at its head. *)

LEMMA ToSetAppend ==
  ASSUME NEW S, NEW s \in Seq(S), NEW e \in S
  PROVE  ToSet(Append(s, e)) = ToSet(s) \cup {e}
<1>1. Len(s) \in Nat /\ DOMAIN s = 1..Len(s) /\ DOMAIN Append(s, e) = 1..Len(s) + 1
  OBVIOUS
<1>2. Append(s, e)[Len(s) + 1] = e /\ \A i \in 1..Len(s) : Append(s, e)[i] = s[i]
  BY AppendFacts
<1> QED
  BY <1>1, <1>2 DEF ToSet

LEMMA ToSetTail ==
  ASSUME NEW S, NEW s \in Seq(S), s # <<>>
  PROVE  ToSet(s) = {Head(s)} \cup ToSet(Tail(s))
<1>1. Len(s) \in Nat \ {0} /\ DOMAIN s = 1..Len(s) /\ DOMAIN Tail(s) = 1..Len(s) - 1 /\ Head(s) = s[1]
  BY TailFacts
<1>2. \A i \in 1..Len(s) - 1 : Tail(s)[i] = s[i + 1]
  BY TailFacts
<1>3. ASSUME NEW x \in ToSet(s), x # Head(s)
      PROVE  x \in ToSet(Tail(s))
  <2>1. PICK i \in 1..Len(s) : s[i] = x
    BY <1>1, <1>3 DEF ToSet
  <2>2. i - 1 \in 1..Len(s) - 1 /\ i = (i - 1) + 1
    BY <1>1, <1>3, <2>1
  <2> QED
    BY <1>1, <1>2, <2>1, <2>2 DEF ToSet
<1>4. ASSUME NEW x \in ToSet(Tail(s))
      PROVE  x \in ToSet(s)
  <2>1. PICK i \in 1..Len(s) - 1 : Tail(s)[i] = x
    BY <1>1, <1>4 DEF ToSet
  <2>2. i + 1 \in 1..Len(s)
    BY <1>1, <2>1
  <2> QED
    BY <1>1, <1>2, <2>1, <2>2 DEF ToSet
<1>5. Head(s) \in ToSet(s)
  BY <1>1 DEF ToSet
<1> QED
  BY <1>3, <1>4, <1>5

LEMMA FirstFacts ==
  ASSUME NEW S, NEW s \in Seq(S), NEW x, NEW y, ComesFirst(s, x, y)
  PROVE  x \in ToSet(s) /\ x # y /\ Head(s) # y
<1>1. PICK i \in DOMAIN s : s[i] = x /\ \A j \in 1..i : s[j] # y
  BY DEF ComesFirst
<1>2. i \in 1..i /\ 1 \in 1..i /\ DOMAIN s = 1..Len(s) /\ s # <<>>
  BY <1>1
<1>3. Head(s) = s[1]
  BY <1>2, TailFacts
<1> QED
  BY <1>1, <1>2, <1>3 DEF ToSet

LEMMA FirstInLonger ==
  ASSUME NEW S, NEW s \in Seq(S), NEW e \in S, NEW x, NEW y
  PROVE  /\ ComesFirst(s, x, y) => ComesFirst(Append(s, e), x, y)
         /\ x \in ToSet(s) /\ y \notin ToSet(s) => ComesFirst(Append(s, e), x, y)
         /\ y \in ToSet(s) /\ ComesFirst(Append(s, e), x, y) => ComesFirst(s, x, y)
         /\ x \notin ToSet(s) /\ ComesFirst(Append(s, e), x, y) => y \notin ToSet(Append(s, e))
<1>1. Len(s) \in Nat /\ DOMAIN s = 1..Len(s) /\ DOMAIN Append(s, e) = 1..Len(s) + 1
  OBVIOUS
<1>2. Append(s, e)[Len(s) + 1] = e /\ \A i \in 1..Len(s) : Append(s, e)[i] = s[i]
  BY AppendFacts
<1>3. ASSUME NEW i \in 1..Len(s), s[i] = x, \A j \in 1..i : s[j] # y
      PROVE  ComesFirst(Append(s, e), x, y)
  <2>1. i \in DOMAIN Append(s, e) /\ \A j \in 1..i : Append(s, e)[j] = s[j]
    BY <1>1, <1>2
  <2> QED
    BY <1>1, <1>3, <2>1 DEF ComesFirst
<1>4. ComesFirst(s, x, y) => ComesFirst(Append(s, e), x, y)
  BY <1>1, <1>3 DEF ComesFirst
<1>5. ASSUME x \in ToSet(s), y \notin ToSet(s)
      PROVE  ComesFirst(Append(s, e), x, y)
  <2>1. PICK i \in 1..Len(s) : s[i] = x
    BY <1>1, <1>5 DEF ToSet
  <2>2. \A j \in 1..i : s[j] # y
    BY <1>1, <1>5 DEF ToSet
  <2> QED
    BY <1>3, <2>1, <2>2
<1>6. ASSUME ComesFirst(Append(s, e), x, y), y \in ToSet(s)
      PROVE  ComesFirst(s, x, y)
  <2>1. PICK i \in 1..Len(s) + 1 : Append(s, e)[i] = x /\ \A j \in 1..i : Append(s, e)[j] # y
    BY <1>1, <1>6 DEF ComesFirst
  <2>2. PICK k \in 1..Len(s) : s[k] = y
    BY <1>1, <1>6 DEF ToSet
  <2>3. ~ k \in 1..i
    BY <1>2, <2>1, <2>2
  <2>4. i \in 1..Len(s)
    BY <1>1, <2>1, <2>2, <2>3
  <2>5. s[i] = x /\ \A j \in 1..i : s[j] # y
    BY <1>1, <1>2, <2>1, <2>4
  <2> QED
    BY <1>1, <2>4, <2>5 DEF ComesFirst
<1>7. ASSUME ComesFirst(Append(s, e), x, y), x \notin ToSet(s)
      PROVE  y \notin ToSet(Append(s, e))
  <2>1. PICK i \in 1..Len(s) + 1 : Append(s, e)[i] = x /\ \A j \in 1..i : Append(s, e)[j] # y
    BY <1>1, <1>7 DEF ComesFirst
  <2>2. i = Len(s) + 1
    <3>1. ASSUME i \in 1..Len(s) PROVE FALSE
      BY <1>1, <1>2, <1>7, <2>1, <3>1 DEF ToSet
    <3> QED
      BY <1>1, <2>1, <3>1
  <2> QED
    BY <1>1, <2>1, <2>2 DEF ToSet
<1> QED
  BY <1>4, <1>5, <1>6, <1>7

LEMMA FirstInTail ==
  ASSUME NEW S, NEW s \in Seq(S), s # <<>>, NEW x, NEW y, x # Head(s), ComesFirst(s, x, y)
  PROVE  ComesFirst(Tail(s), x, y)
<1>1. /\ Len(s) \in Nat \ {0} /\ DOMAIN s = 1..Len(s) /\ DOMAIN Tail(s) = 1..Len(s) - 1 /\ Head(s) = s[1]
      /\ \A i \in 1..Len(s) - 1 : Tail(s)[i] = s[i + 1]
  BY TailFacts
<1>2. PICK i \in 1..Len(s) : s[i] = x /\ \A j \in 1..i : s[j] # y
  BY <1>1 DEF ComesFirst
<1>3. i - 1 \in 1..Len(s) - 1 /\ i = (i - 1) + 1
  BY <1>1, <1>2
<1>4. Tail(s)[i - 1] = x
  BY <1>1, <1>2, <1>3
<1>5. ASSUME NEW j \in 1..i - 1
      PROVE  Tail(s)[j] # y
  <2>1. j \in 1..Len(s) - 1 /\ j + 1 \in 1..i
    BY <1>1, <1>2
  <2> QED
    BY <1>1, <1>2, <2>1
<1> QED
  BY <1>1, <1>3, <1>4, <1>5 DEF ComesFirst

-----------------------------------------------------------------------------
(* The order of the gifts, as a relation of what is stored, accepted and buffered. *)
EntryOf(n, g) == [session |-> n, gift |-> g]
Has(rt, n, g) == EntryOf(n, g) \in ToSet(rt)
EarlierIn(n, rt, g) == g \in Identified /\ \E m \in 1..n - 1 : Has(rt, m, g)
Owes(n, rt, acc, g) == g \in ToSet(acc) /\ ~EarlierIn(n, rt, g)
Remains(n, rt, acc, g) == Owes(n, rt, acc, g) /\ ~Has(rt, n, g)

OnceIn(n, rt, acc) ==
  \A i \in DOMAIN rt : rt[i].session = n =>
    /\ Owes(n, rt, acc, rt[i].gift)
    /\ \A j \in DOMAIN rt \ {i} : rt[j] # rt[i]
TurnOf(n, rt, acc, g, h) ==
  Owes(n, rt, acc, g) /\ Owes(n, rt, acc, h) /\ ComesFirst(acc, g, h) /\ Has(rt, n, h) =>
    Has(rt, n, g) /\ ComesFirst(rt, EntryOf(n, g), EntryOf(n, h))
ByTurnIn(n, rt, acc) == \A g, h \in Gifts : TurnOf(n, rt, acc, g, h)
WaitsFor(n, rt, acc, buf, g, h) ==
  Remains(n, rt, acc, g) /\ Remains(n, rt, acc, h) /\ ComesFirst(acc, g, h) => ComesFirst(buf, g, h)
RestIn(n, rt, acc, buf) ==
  /\ \A g \in Gifts : Remains(n, rt, acc, g) => g \in ToSet(buf)
  /\ ToSet(buf) \subseteq ToSet(acc)
  /\ \A g, h \in Gifts : WaitsFor(n, rt, acc, buf, g, h)
Served(n, rt, acc) == OnceIn(n, rt, acc) /\ ByTurnIn(n, rt, acc)

\* A gift is accepted and put behind those that wait.
LEMMA GiftQueued ==
  ASSUME NEW n \in Nat, NEW rt \in Seq(Entries), NEW acc \in Seq(Gifts), NEW buf \in Seq(Gifts), NEW g \in Gifts,
         Served(n, rt, acc), RestIn(n, rt, acc, buf)
  PROVE  Served(n, rt, Append(acc, g)) /\ RestIn(n, rt, Append(acc, g), Append(buf, g))
<1> DEFINE acc2 == Append(acc, g)
           buf2 == Append(buf, g)
<1>1. ToSet(acc2) = ToSet(acc) \cup {g} /\ ToSet(buf2) = ToSet(buf) \cup {g}
  BY ToSetAppend
<1>2. \A x : Owes(n, rt, acc, x) => Owes(n, rt, acc2, x)
  BY <1>1 DEF Owes
<1>3. OnceIn(n, rt, acc2)
  BY <1>2 DEF OnceIn, Served
<1>4. ASSUME NEW x \in Gifts, Has(rt, n, x)
      PROVE  x \in ToSet(acc)
  <2>1. PICK i \in DOMAIN rt : rt[i] = EntryOf(n, x)
    BY <1>4 DEF Has, ToSet
  <2>2. rt[i].session = n /\ rt[i].gift = x
    BY <2>1 DEF EntryOf
  <2> QED
    BY <2>2 DEF Served, OnceIn, Owes
<1>5. ASSUME NEW x \in Gifts, NEW y \in Gifts
      PROVE  TurnOf(n, rt, acc2, x, y)
  <2>1. SUFFICES ASSUME Owes(n, rt, acc2, x), Owes(n, rt, acc2, y), ComesFirst(acc2, x, y), Has(rt, n, y)
                 PROVE  Has(rt, n, x) /\ ComesFirst(rt, EntryOf(n, x), EntryOf(n, y))
    BY DEF TurnOf
  <2>2. y \in ToSet(acc)
    BY <1>4, <2>1
  <2>3. ComesFirst(acc, x, y)
    BY <2>1, <2>2, FirstInLonger
  <2>4. Owes(n, rt, acc, x) /\ Owes(n, rt, acc, y)
    BY <2>1, <2>2, <2>3, FirstFacts DEF Owes
  <2> QED
    BY <2>1, <2>3, <2>4 DEF Served, ByTurnIn, TurnOf
<1>6. ASSUME NEW x \in Gifts, NEW y \in Gifts
      PROVE  WaitsFor(n, rt, acc2, buf2, x, y)
  <2>1. SUFFICES ASSUME Remains(n, rt, acc2, x), Remains(n, rt, acc2, y), ComesFirst(acc2, x, y)
                 PROVE  ComesFirst(buf2, x, y)
    BY DEF WaitsFor
  <2>2. x \in ToSet(acc)
    BY <2>1, FirstInLonger DEF Remains, Owes
  <2>3. Remains(n, rt, acc, x)
    BY <2>1, <2>2 DEF Remains, Owes
  <2>4. CASE y \in ToSet(acc)
    <3>1. Remains(n, rt, acc, y)
      BY <2>1, <2>4 DEF Remains, Owes
    <3>2. ComesFirst(acc, x, y)
      BY <2>1, <2>4, FirstInLonger
    <3> QED
      BY <2>3, <3>1, <3>2, FirstInLonger DEF RestIn, WaitsFor
  <2>5. CASE y \notin ToSet(acc)
    <3>1. x \in ToSet(buf) /\ y \notin ToSet(buf)
      BY <2>3, <2>5 DEF RestIn
    <3> QED
      BY <3>1, FirstInLonger
  <2> QED
    BY <2>4, <2>5
<1>7. ASSUME NEW x \in Gifts, Remains(n, rt, acc2, x)
      PROVE  x \in ToSet(buf2)
  BY <1>1, <1>7 DEF Remains, Owes, RestIn
<1>8. ToSet(buf2) \subseteq ToSet(acc2)
  BY <1>1 DEF RestIn
<1> QED
  BY <1>3, <1>5, <1>6, <1>7, <1>8 DEF Served, ByTurnIn, RestIn

\* A gift that is accepted and counted leaves the buffer.
LEMMA GiftPopped ==
  ASSUME NEW n \in Nat, NEW rt \in Seq(Entries), NEW acc \in Seq(Gifts), NEW buf \in Seq(Gifts), buf # <<>>,
         RestIn(n, rt, acc, buf), ~Remains(n, rt, acc, Head(buf))
  PROVE  RestIn(n, rt, acc, Tail(buf))
<1>1. ToSet(buf) = {Head(buf)} \cup ToSet(Tail(buf))
  BY ToSetTail
<1>2. \A x \in Gifts : Remains(n, rt, acc, x) => x \in ToSet(Tail(buf))
  BY <1>1 DEF RestIn
<1>3. ASSUME NEW x \in Gifts, NEW y \in Gifts
      PROVE  WaitsFor(n, rt, acc, Tail(buf), x, y)
  BY FirstInTail DEF WaitsFor, RestIn
<1> QED
  BY <1>1, <1>2, <1>3 DEF RestIn

\* What is put behind the state.
LEMMA HasAppend ==
  ASSUME NEW rt \in Seq(Entries), NEW e \in Entries, NEW n, NEW g
  PROVE  Has(Append(rt, e), n, g) <=> Has(rt, n, g) \/ e = EntryOf(n, g)
BY ToSetAppend DEF Has

LEMMA OneEntry ==
  ASSUME NEW n, NEW m, NEW g, NEW h, EntryOf(n, g) = EntryOf(m, h)
  PROVE  n = m /\ g = h
BY DEF EntryOf

\* An entry that is not of this session changes nothing in it.
LEMMA OthersCount ==
  ASSUME NEW n \in Nat, NEW rt \in Seq(Entries), NEW acc \in Seq(Gifts), NEW buf \in Seq(Gifts),
         NEW e \in Entries, e.session = 0, n >= 1, Served(n, rt, acc)
  PROVE  /\ Served(n, Append(rt, e), acc)
         /\ RestIn(n, rt, acc, buf) => RestIn(n, Append(rt, e), acc, buf)
         /\ \A m \in 1..n : \A g : Has(Append(rt, e), m, g) <=> Has(rt, m, g)
<1> DEFINE rt2 == Append(rt, e)
<1>1. ASSUME NEW m \in 1..n, NEW g
      PROVE  Has(rt2, m, g) <=> Has(rt, m, g)
  <2>1. e # EntryOf(m, g)
    BY DEF EntryOf
  <2> QED
    BY <2>1, HasAppend
<1>2. n \in 1..n /\ 1..n - 1 \subseteq 1..n
  OBVIOUS
<1>3. \A g : EarlierIn(n, rt2, g) <=> EarlierIn(n, rt, g)
  BY <1>1, <1>2 DEF EarlierIn
<1>4. \A g : (Owes(n, rt2, acc, g) <=> Owes(n, rt, acc, g)) /\ (Has(rt2, n, g) <=> Has(rt, n, g))
  BY <1>1, <1>2, <1>3 DEF Owes
<1>5. \A g : Remains(n, rt2, acc, g) <=> Remains(n, rt, acc, g)
  BY <1>4 DEF Remains
<1>6. Len(rt) \in Nat /\ DOMAIN rt = 1..Len(rt) /\ DOMAIN rt2 = 1..Len(rt) + 1
  OBVIOUS
<1>7. rt2[Len(rt) + 1] = e /\ \A i \in 1..Len(rt) : rt2[i] = rt[i]
  BY AppendFacts
<1>8. OnceIn(n, rt2, acc)
  <2>1. SUFFICES ASSUME NEW i \in DOMAIN rt2, rt2[i].session = n
                 PROVE  Owes(n, rt2, acc, rt2[i].gift) /\ \A j \in DOMAIN rt2 \ {i} : rt2[j] # rt2[i]
    BY DEF OnceIn
  <2>2. i \in DOMAIN rt /\ rt2[i] = rt[i]
    BY <1>6, <1>7, <2>1
  <2>3. Owes(n, rt, acc, rt[i].gift) /\ \A j \in DOMAIN rt \ {i} : rt[j] # rt[i]
    BY <2>1, <2>2 DEF Served, OnceIn
  <2>4. rt2[Len(rt) + 1] # rt2[i]
    BY <1>7, <2>1
  <2> QED
    BY <1>4, <1>6, <1>7, <2>2, <2>3, <2>4
<1>9. ASSUME NEW x \in Gifts, NEW y \in Gifts
      PROVE  TurnOf(n, rt2, acc, x, y)
  <2>1. TurnOf(n, rt, acc, x, y)
    BY DEF Served, ByTurnIn
  <2>2. ComesFirst(rt, EntryOf(n, x), EntryOf(n, y)) => ComesFirst(rt2, EntryOf(n, x), EntryOf(n, y))
    BY FirstInLonger
  <2> QED
    BY <1>4, <2>1, <2>2 DEF TurnOf
<1>10. RestIn(n, rt, acc, buf) => RestIn(n, rt2, acc, buf)
  BY <1>5 DEF RestIn, WaitsFor
<1> QED
  BY <1>1, <1>8, <1>9, <1>10 DEF Served, ByTurnIn

\* The gift at the head of the buffer is counted.
LEMMA HeadCounted ==
  ASSUME NEW n \in Nat, NEW rt \in Seq(Entries), NEW acc \in Seq(Gifts), NEW buf \in Seq(Gifts), NEW g \in Gifts,
         n >= 1, EntryOf(n, g) \in Entries, buf # <<>>, g = Head(buf),
         Served(n, rt, acc), RestIn(n, rt, acc, buf), ~Has(rt, n, g), ~EarlierIn(n, rt, g)
  PROVE  Served(n, Append(rt, EntryOf(n, g)), acc) /\ RestIn(n, Append(rt, EntryOf(n, g)), acc, buf)
<1> DEFINE e == EntryOf(n, g)
           rt2 == Append(rt, e)
<1>1. ASSUME NEW m, NEW x
      PROVE  Has(rt2, m, x) <=> Has(rt, m, x) \/ (m = n /\ x = g)
  BY HasAppend, OneEntry
<1>2. \A x : EarlierIn(n, rt2, x) <=> EarlierIn(n, rt, x)
  <2>1. \A m \in 1..n - 1 : m # n
    OBVIOUS
  <2> QED
    BY <1>1, <2>1 DEF EarlierIn
<1>3. \A x : Owes(n, rt2, acc, x) <=> Owes(n, rt, acc, x)
  BY <1>2 DEF Owes
<1>4. Owes(n, rt, acc, g)
  <2>1. g \in ToSet(buf)
    BY ToSetTail
  <2> QED
    BY <2>1 DEF RestIn, Owes
<1>5. Len(rt) \in Nat /\ DOMAIN rt = 1..Len(rt) /\ DOMAIN rt2 = 1..Len(rt) + 1
  OBVIOUS
<1>6. rt2[Len(rt) + 1] = e /\ \A i \in 1..Len(rt) : rt2[i] = rt[i]
  BY AppendFacts
<1>7. \A i \in 1..Len(rt) : rt[i] # e
  BY <1>5 DEF Has, ToSet
<1>8. OnceIn(n, rt2, acc)
  <2>1. SUFFICES ASSUME NEW i \in DOMAIN rt2, rt2[i].session = n
                 PROVE  Owes(n, rt2, acc, rt2[i].gift) /\ \A j \in DOMAIN rt2 \ {i} : rt2[j] # rt2[i]
    BY DEF OnceIn
  <2>2. CASE i \in DOMAIN rt
    <3>1. Owes(n, rt, acc, rt[i].gift) /\ \A j \in DOMAIN rt \ {i} : rt[j] # rt[i]
      BY <1>5, <1>6, <2>1, <2>2 DEF Served, OnceIn
    <3> QED
      BY <1>3, <1>5, <1>6, <1>7, <2>2, <3>1
  <2>3. CASE i = Len(rt) + 1
    <3>1. rt2[i] = e /\ e.gift = g
      BY <1>6, <2>3 DEF EntryOf
    <3>2. \A j \in DOMAIN rt2 \ {i} : rt2[j] # e
      BY <1>5, <1>6, <1>7, <2>3
    <3> QED
      BY <1>3, <1>4, <3>1, <3>2
  <2> QED
    BY <1>5, <2>1, <2>2, <2>3
<1>9. ASSUME NEW x \in Gifts, NEW y \in Gifts
      PROVE  TurnOf(n, rt2, acc, x, y)
  <2>1. SUFFICES ASSUME Owes(n, rt, acc, x), Owes(n, rt, acc, y), ComesFirst(acc, x, y), Has(rt2, n, y)
                 PROVE  Has(rt2, n, x) /\ ComesFirst(rt2, EntryOf(n, x), EntryOf(n, y))
    BY <1>3 DEF TurnOf
  <2>2. CASE Has(rt, n, y)
    <3>1. Has(rt, n, x) /\ ComesFirst(rt, EntryOf(n, x), EntryOf(n, y))
      BY <2>1, <2>2 DEF Served, ByTurnIn, TurnOf
    <3> QED
      BY <1>1, <3>1, FirstInLonger
  <2>3. CASE ~Has(rt, n, y)
    <3>1. y = g
      BY <1>1, <2>1, <2>3
    <3>2. ~ComesFirst(buf, x, y)
      BY <3>1, FirstFacts
    <3>3. Has(rt, n, x)
      <4>1. WaitsFor(n, rt, acc, buf, x, y)
        BY DEF RestIn
      <4> QED
        BY <2>1, <2>3, <3>2, <4>1 DEF WaitsFor, Remains
    <3>4. EntryOf(n, x) \in ToSet(rt) /\ EntryOf(n, y) \notin ToSet(rt)
      BY <2>3, <3>3 DEF Has
    <3> QED
      BY <1>1, <3>3, <3>4, FirstInLonger
  <2> QED
    BY <2>2, <2>3
<1>10. \A x : Remains(n, rt2, acc, x) => Remains(n, rt, acc, x)
  BY <1>1, <1>3 DEF Remains
<1>11. RestIn(n, rt2, acc, buf)
  BY <1>10 DEF RestIn, WaitsFor
<1> QED
  BY <1>8, <1>9, <1>11 DEF Served, ByTurnIn

\* A session that has not begun to count.
LEMMA NothingServed ==
  ASSUME NEW n \in Nat, NEW rt \in Seq(Entries), \A i \in DOMAIN rt : rt[i].session # n
  PROVE  Served(n, rt, <<>>) /\ RestIn(n, rt, <<>>, <<>>) /\ \A g : ~Has(rt, n, g)
<1>1. ToSet(<<>>) = {}
  BY DEF ToSet
<1>2. \A g : ~Owes(n, rt, <<>>, g) /\ ~Remains(n, rt, <<>>, g)
  BY <1>1 DEF Owes, Remains
<1>3. ASSUME NEW g PROVE ~Has(rt, n, g)
  BY DEF Has, ToSet, EntryOf
<1> QED
  BY <1>1, <1>2, <1>3 DEF Served, OnceIn, ByTurnIn, TurnOf, RestIn, WaitsFor

-----------------------------------------------------------------------------
(* The inductive invariant.  A gift without an ID that was counted is seen, or it is  *)
(* the head of the buffer and its commit has put the stored state ahead of the copy:  *)
(* its reply was lost, and the next attempt ends the processor.                       *)
ReceiptsIn(n, rt, rc) == \A g \in Identified : g \in rc <=> \E m \in 1..n : Has(rt, m, g)
SeenAreCounted(n, rt, seen) == \A g \in seen : g \notin Identified /\ Has(rt, n, g)
CountedAreSeen(n, rt, seen) == \A g \in Gifts \ Identified : Has(rt, n, g) => g \in seen
LostReply(n, rt, seen, ahead, h) == \A g \in Gifts \ Identified : Has(rt, n, g) => g \in seen \/ (ahead /\ g = h)
Bounded(n, rt) == \A i \in DOMAIN rt : rt[i].session <= n

SeenIn(n, rt, p, rev) ==
  /\ SeenAreCounted(n, rt, p.seen)
  /\ ~p.terminal =>
       \/ CountedAreSeen(n, rt, p.seen)
       \/ p.buffer # <<>> /\ LostReply(n, rt, p.seen, rev > p.revision, Head(p.buffer))

\* What an attempt to count the head of buf leaves.
Attempted(g, acc, buf, outcome, next) ==
  LET n == session.id IN
  /\ Bounded(n, stored'.runtime) /\ ReceiptsIn(n, stored'.runtime, stored'.receipts)
  /\ Served(n, stored'.runtime, acc) /\ RestIn(n, stored'.runtime, acc, buf)
  /\ SeenAreCounted(n, stored'.runtime, next.seen)
  /\ outcome = "done" => ~Remains(n, stored'.runtime, acc, g) /\ CountedAreSeen(n, stored'.runtime, next.seen)
  /\ LostReply(n, stored'.runtime, next.seen, stored'.revision > next.revision, g)
  /\ next.buffer = processor.buffer /\ next.terminal = processor.terminal

LEMMA AttemptCounts ==
  ASSUME GiftInv, session.id >= 1, Bounded(session.id, stored.runtime),
         ReceiptsIn(session.id, stored.runtime, stored.receipts),
         NEW g \in Gifts, NEW acc \in Seq(Gifts), NEW buf \in Seq(Gifts), buf # <<>>, g = Head(buf),
         Served(session.id, stored.runtime, acc), RestIn(session.id, stored.runtime, acc, buf),
         SeenAreCounted(session.id, stored.runtime, processor.seen),
         LostReply(session.id, stored.runtime, processor.seen, stored.revision > processor.revision, g),
         NEW outcome, NEW next, Attempt(g, outcome, next)
  PROVE  Attempted(g, acc, buf, outcome, next)
<1> DEFINE n == session.id
           rt == stored.runtime
<1>1. stored \in Stores /\ processor \in Processors /\ n \in Nat /\ Behind(processor, stored)
  BY DEF GiftInv, Sessions
<1>2. g \in Nat /\ Entry(g) \in Entries /\ Entry(g) = EntryOf(n, g)
  BY <1>1, GiftAssumption DEF GiftAssumption, Entry, EntryOf, Entries
<1>3. /\ stored.revision \in Nat /\ rt \in Seq(Entries)
      /\ processor.revision \in Nat /\ processor.runtime \in Seq(Entries)
  BY <1>1 DEF Stores, Processors
<1>4. CASE UNCHANGED stored /\ next = processor /\ outcome # "done"
  BY <1>4 DEF Attempted
<1>5. CASE UNCHANGED stored /\ next = processor /\ outcome = "done" /\ g \notin Identified /\ g \in processor.seen
  <2>1. Has(rt, n, g)
    BY <1>5 DEF SeenAreCounted
  <2>2. ~Remains(n, rt, acc, g) /\ CountedAreSeen(n, rt, processor.seen)
    BY <1>5, <2>1 DEF Remains, CountedAreSeen, LostReply
  <2> QED
    BY <1>5, <2>2 DEF Attempted
<1>6. CASE UNCHANGED stored /\ next \in {processor, Reloaded} /\ outcome = "done" /\ Refusal(g) = "duplicate"
  <2>1. g \in Identified /\ g \in stored.receipts
    BY <1>6 DEF Refusal
  <2>2. PICK m \in 1..n : Has(rt, m, g)
    BY <2>1 DEF ReceiptsIn
  <2>3. ~Remains(n, rt, acc, g)
    <3>1. m = n \/ m \in 1..n - 1
      BY <1>1
    <3> QED
      BY <2>1, <2>2, <3>1 DEF Remains, Owes, EarlierIn
  <2>4. CountedAreSeen(n, rt, processor.seen)
    BY <2>1 DEF CountedAreSeen, LostReply
  <2>5. next.seen = processor.seen /\ next.buffer = processor.buffer /\ next.terminal = processor.terminal
    BY <1>1, <1>6 DEF Reloaded, Processors
  <2>6. LostReply(n, rt, processor.seen, stored'.revision > next.revision, g)
    BY <2>4 DEF CountedAreSeen, LostReply
  <2> QED
    BY <1>6, <2>3, <2>4, <2>5, <2>6 DEF Attempted
<1>7. CASE /\ g \in Identified \/ g \notin processor.seen
           /\ Refusal(g) = "none" /\ CommitRuntimeEvent(g)
           /\ (outcome = "done" /\ next = Recorded(g)) \/ (outcome = "transient" /\ next = processor)
  <2>1. stored.revision = processor.revision /\ rt = processor.runtime /\ g \notin Identified \cap stored.receipts
    BY <1>1, <1>7 DEF Refusal, Behind
  <2>2. ~Has(rt, n, g)
    <3>1. CASE g \in Identified
      <4>1. n \in 1..n
        BY <1>1
      <4> QED
        BY <2>1, <3>1, <4>1 DEF ReceiptsIn
    <3>2. CASE g \notin Identified
      BY <1>3, <1>7, <2>1, <3>2 DEF LostReply
    <3> QED
      BY <3>1, <3>2
  <2>3. ~EarlierIn(n, rt, g)
    <3>1. 1..n - 1 \subseteq 1..n
      BY <1>1
    <3> QED
      BY <2>1, <3>1 DEF ReceiptsIn, EarlierIn
  <2>4. PICK rt2 \in Seq(Entries) : rt2 = Append(rt, EntryOf(n, g))
    BY <1>2, <1>3, AppendProperties
  <2>5. PICK k \in Nat : k = stored.revision + 1
    BY <1>3
  <2>6. PICK rc \in SUBSET Gifts : rc = IF g \in Identified THEN stored.receipts \cup {g} ELSE stored.receipts
    BY <1>1 DEF Stores
  <2>7. stored'.runtime = rt2 /\ stored'.revision = k /\ stored'.receipts = rc
    <3>1. stored' = [stored EXCEPT !.revision = k, !.runtime = rt2, !.receipts = rc]
      BY <1>2, <1>7, <2>1, <2>4, <2>5, <2>6 DEF CommitRuntimeEvent
    <3> QED
      BY <1>1, <3>1 DEF Stores
  <2>8. Served(n, rt2, acc) /\ RestIn(n, rt2, acc, buf)
    BY <1>1, <1>2, <1>3, <2>2, <2>3, <2>4, HeadCounted
  <2>9. ASSUME NEW m, NEW x
        PROVE  Has(rt2, m, x) <=> Has(rt, m, x) \/ (m = n /\ x = g)
    BY <1>2, <1>3, <2>4, HasAppend, OneEntry
  <2>10. Bounded(n, rt2)
    <3>1. Len(rt) \in Nat /\ DOMAIN rt = 1..Len(rt) /\ DOMAIN rt2 = 1..Len(rt) + 1
      BY <1>2, <1>3, <2>4
    <3>2. rt2[Len(rt) + 1] = EntryOf(n, g) /\ \A i \in 1..Len(rt) : rt2[i] = rt[i]
      BY <1>2, <1>3, <2>4, AppendFacts
    <3>3. EntryOf(n, g).session <= n
      BY <1>1 DEF EntryOf
    <3>4. \A i \in 1..Len(rt) : rt[i].session <= n
      BY <3>1 DEF Bounded
    <3>5. SUFFICES ASSUME NEW i \in DOMAIN rt2 PROVE rt2[i].session <= n
      BY DEF Bounded
    <3>6. i = Len(rt) + 1 \/ i \in 1..Len(rt)
      BY <3>1
    <3> QED
      BY <3>2, <3>3, <3>4, <3>6
  <2>11. ReceiptsIn(n, rt2, rc)
    <3>1. n \in 1..n
      BY <1>1
    <3>2. SUFFICES ASSUME NEW x \in Identified PROVE x \in rc <=> \E m \in 1..n : Has(rt2, m, x)
      BY DEF ReceiptsIn
    <3>3. x \in stored.receipts <=> \E m \in 1..n : Has(rt, m, x)
      BY DEF ReceiptsIn
    <3> QED
      BY <2>6, <2>9, <3>1, <3>3
  <2>12. next.buffer = processor.buffer /\ next.terminal = processor.terminal
    BY <1>1, <1>7 DEF Recorded, Processors
  <2>13. CASE outcome = "done" /\ next = Recorded(g)
    <3>1. next.seen = IF g \in Identified THEN processor.seen ELSE processor.seen \cup {g}
      BY <1>1, <2>13 DEF Recorded, Processors
    <3>2. SeenAreCounted(n, rt2, next.seen)
      BY <2>9, <3>1 DEF SeenAreCounted
    <3>3. CountedAreSeen(n, rt2, next.seen)
      <4>1. ASSUME NEW x \in Gifts \ Identified, Has(rt, n, x)
            PROVE  x \in processor.seen
        BY <1>3, <2>1, <4>1 DEF LostReply
      <4> QED
        BY <2>9, <3>1, <4>1 DEF CountedAreSeen
    <3>4. ~Remains(n, rt2, acc, g)
      BY <2>9 DEF Remains
    <3>5. LostReply(n, rt2, next.seen, stored'.revision > next.revision, g)
      BY <3>3 DEF CountedAreSeen, LostReply
    <3> QED
      BY <2>7, <2>8, <2>10, <2>11, <2>12, <3>2, <3>3, <3>4, <3>5 DEF Attempted
  <2>14. CASE outcome = "transient" /\ next = processor
    <3>1. SeenAreCounted(n, rt2, next.seen)
      BY <2>9, <2>14 DEF SeenAreCounted
    <3>2. stored'.revision > next.revision
      BY <1>3, <2>1, <2>5, <2>7, <2>14
    <3>3. LostReply(n, rt2, next.seen, stored'.revision > next.revision, g)
      BY <2>9, <2>14, <3>2 DEF LostReply
    <3> QED
      BY <2>7, <2>8, <2>10, <2>11, <2>12, <2>14, <3>1, <3>3 DEF Attempted
  <2> QED
    BY <1>7, <2>13, <2>14
<1> QED
  BY <1>4, <1>5, <1>6, <1>7 DEF Attempt

\* The parts of the invariant that GiftKept does not give.
OrderInv ==
  /\ accepted \in Seq(Gifts) /\ session.id >= 1
  /\ Bounded(session.id, stored.runtime)
  /\ ReceiptsIn(session.id, stored.runtime, stored.receipts)
  /\ processor.terminal => processor.buffer = <<>>
  /\ SeenIn(session.id, stored.runtime, processor, stored.revision)
  /\ Served(session.id, stored.runtime, accepted)
  /\ ~processor.terminal => RestIn(session.id, stored.runtime, accepted, processor.buffer)

\* The processor that an attempt leaves behind, in its three outcomes.
LEMMA HeadSettled ==
  ASSUME NEW g \in Gifts, NEW acc \in Seq(Gifts), NEW buf \in Seq(Gifts), buf # <<>>, g = Head(buf), NEW next,
         session' = session, session.id \in Nat, session.id >= 1, stored'.runtime \in Seq(Entries),
         Attempted(g, acc, buf, "done", next), ~processor.terminal,
         accepted' = acc, processor'.seen = next.seen, processor'.buffer = Tail(buf), processor'.terminal = next.terminal
  PROVE  OrderInv'
<1> DEFINE n == session.id
           rt == stored'.runtime
<1>1. RestIn(n, rt, acc, Tail(buf))
  BY GiftPopped DEF Attempted
<1>2. SeenIn(n, rt, processor', stored'.revision)
  BY DEF Attempted, SeenIn
<1> QED
  BY <1>1, <1>2 DEF Attempted, OrderInv

LEMMA HeadWaits ==
  ASSUME NEW g \in Gifts, NEW acc \in Seq(Gifts), NEW buf \in Seq(Gifts), buf # <<>>, g = Head(buf), NEW outcome, NEW next,
         session' = session, session.id \in Nat, session.id >= 1, stored'.runtime \in Seq(Entries),
         Attempted(g, acc, buf, outcome, next), ~processor.terminal,
         accepted' = acc, processor'.seen = next.seen, processor'.revision = next.revision,
         processor'.buffer = buf, processor'.terminal = next.terminal
  PROVE  OrderInv'
<1> DEFINE n == session.id
           rt == stored'.runtime
<1>1. SeenIn(n, rt, processor', stored'.revision)
  BY DEF Attempted, SeenIn
<1> QED
  BY <1>1 DEF Attempted, OrderInv

LEMMA GivenUp ==
  ASSUME OrderInv, session' = session, accepted' = accepted, stored' = stored,
         processor'.seen = processor.seen, processor'.buffer = <<>>, processor'.terminal = TRUE
  PROVE  OrderInv'
<1>1. SeenIn(session.id, stored.runtime, processor', stored.revision)
  BY DEF OrderInv, SeenIn
<1> QED
  BY <1>1 DEF OrderInv

LEMMA OrderFrame ==
  ASSUME OrderInv, session'.id = session.id, accepted' = accepted, stored'.runtime = stored.runtime,
         stored'.revision = stored.revision, stored'.receipts = stored.receipts,
         processor'.seen = processor.seen, processor'.buffer = processor.buffer,
         processor'.terminal = processor.terminal, processor'.revision = processor.revision
  PROVE  OrderInv'
<1>1. SeenIn(session.id, stored.runtime, processor', stored.revision)
  BY DEF OrderInv, SeenIn
<1> QED
  BY <1>1 DEF OrderInv

\* Refused attempts leave the stored state and the processor.
LEMMA RefusedLeaves ==
  ASSUME NEW g, NEW outcome, NEW next, Attempt(g, outcome, next), outcome \notin {"done", "transient"}
  PROVE  stored' = stored /\ next = processor
BY DEF Attempt

LEMMA AcceptCounts ==
  ASSUME GiftInv, OrderInv, NEW g \in Gifts, Accept(g)
  PROVE  OrderInv'
<1> DEFINE n == session.id
           rt == stored.runtime
<1>1. stored \in Stores /\ processor \in Processors /\ n \in Nat /\ n >= 1 /\ accepted \in Seq(Gifts) /\ session' = session
  BY DEF GiftInv, OrderInv, Sessions, Accept
<1>2. rt \in Seq(Entries) /\ processor.buffer \in Seq(Gifts)
  BY <1>1 DEF Stores, Processors
<1>3. CASE processor.terminal
  BY <1>1, <1>3, OrderFrame DEF Accept
<1>4. ASSUME ~processor.terminal
      PROVE  /\ Served(n, rt, Append(accepted, g)) /\ Append(accepted, g) \in Seq(Gifts)
             /\ RestIn(n, rt, Append(accepted, g), Append(processor.buffer, g)) /\ Append(processor.buffer, g) \in Seq(Gifts)
  BY <1>1, <1>2, <1>4, GiftQueued, AppendFacts DEF OrderInv
<1>5. CASE ~processor.terminal /\ Queue(g)
  <2>1. stored' = stored
    BY <1>5 DEF Queue
  <2>2. CASE processor' = [processor EXCEPT !.rejecting = TRUE] /\ UNCHANGED accepted
    <3>1. /\ processor'.seen = processor.seen /\ processor'.buffer = processor.buffer
          /\ processor'.terminal = processor.terminal /\ processor'.revision = processor.revision
      BY <1>1, <2>2 DEF Processors
    <3> QED
      BY <1>1, <2>1, <2>2, <3>1, OrderFrame
  <2>3. CASE processor' = [processor EXCEPT !.buffer = Append(@, g)] /\ accepted' = Append(accepted, g)
    <3>1. /\ processor'.seen = processor.seen /\ processor'.buffer = Append(processor.buffer, g)
          /\ processor'.terminal = processor.terminal /\ processor'.revision = processor.revision
      BY <1>1, <2>3 DEF Processors
    <3>2. processor.buffer # <<>>
      BY <1>5 DEF Queue, Queues
    <3>3. processor'.buffer # <<>> /\ Head(processor'.buffer) = Head(processor.buffer)
      BY <1>2, <1>4, <1>5, <3>1, <3>2, TailFacts, AppendFacts
    <3>4. SeenIn(n, rt, processor', stored.revision)
      BY <3>1, <3>2, <3>3 DEF OrderInv, SeenIn
    <3> QED
      BY <1>1, <1>4, <1>5, <2>1, <2>3, <3>1, <3>4 DEF OrderInv
  <2> QED
    BY <1>5, <2>2, <2>3 DEF Queue
<1>6. CASE ~processor.terminal /\ Apply(g)
  <2> DEFINE acc == Append(accepted, g)
             buf == Append(processor.buffer, g)
  <2>1. processor.buffer = <<>>
    BY <1>6 DEF Apply, Queues
  <2>2. buf # <<>> /\ g = Head(buf) /\ Tail(buf) = <<>> /\ buf \in Seq(Gifts) /\ acc \in Seq(Gifts)
    BY <1>4, <1>6, <2>1
  <2>3. PICK outcome \in Outcomes, next \in Nexts(g) :
          /\ Attempt(g, outcome, next)
          /\ CASE outcome = "done" ->
                    processor' = next /\ accepted' = Append(accepted, g) /\ UNCHANGED workers
               [] outcome = "transient" ->
                    LET p == [next EXCEPT !.buffer = Append(@, g), !.degraded = TRUE] IN
                    /\ processor' = Scheduled(p)
                    /\ workers' = [workers EXCEPT !.timers = @ + NewTimers(p)]
                    /\ accepted' = Append(accepted, g)
               [] OTHER ->
                    processor' = Terminated(next) /\ UNCHANGED <<workers, accepted>>
    BY <1>6 DEF Apply
  <2>4. SeenAreCounted(n, rt, processor.seen) /\ LostReply(n, rt, processor.seen, stored.revision > processor.revision, g)
    BY <1>6, <2>1 DEF OrderInv, SeenIn, CountedAreSeen, LostReply
  <2>5. Attempted(g, acc, buf, outcome, next)
    <3>1. Bounded(n, rt) /\ ReceiptsIn(n, rt, stored.receipts)
      BY DEF OrderInv
    <3> HIDE DEF acc, buf
    <3> QED
      BY <1>1, <1>4, <1>6, <2>2, <2>3, <2>4, <3>1, AttemptCounts DEF acc, buf
  <2>6. next \in Processors /\ stored' \in Stores /\ stored'.runtime \in Seq(Entries)
    BY <2>3, AttemptKeeps DEF Stores
  <2>7. next.buffer = <<>> /\ next.terminal = processor.terminal
    BY <2>1, <2>5 DEF Attempted
  <2>8. CASE outcome = "done"
    <3>1. processor' = next /\ accepted' = acc
      BY <2>3, <2>8
    <3> HIDE DEF acc, buf
    <3> QED
      BY <1>1, <1>6, <2>2, <2>5, <2>6, <2>7, <2>8, <3>1, HeadSettled
  <2>9. CASE outcome = "transient"
    <3>1. processor' = Scheduled([next EXCEPT !.buffer = Append(@, g), !.degraded = TRUE]) /\ accepted' = acc
      BY <2>3, <2>9
    <3>2. PICK b \in Seq(Gifts) : b = Append(next.buffer, g) /\ b = buf
      BY <2>1, <2>2, <2>7
    <3>3. processor' = Scheduled([next EXCEPT !.buffer = b, !.degraded = TRUE])
      BY <2>6, <3>1, <3>2
    <3>4. /\ processor'.seen = next.seen /\ processor'.buffer = buf
          /\ processor'.terminal = next.terminal /\ processor'.revision = next.revision
      BY <2>6, <3>2, <3>3 DEF Scheduled, Processors
    <3> HIDE DEF acc, buf
    <3> QED
      BY <1>1, <1>6, <2>2, <2>5, <2>6, <3>1, <3>4, HeadWaits
  <2>10. CASE outcome \notin {"done", "transient"}
    <3>1. processor' = Terminated(next) /\ accepted' = accepted
      BY <2>3, <2>10
    <3>2. stored' = stored /\ next = processor
      BY <2>3, <2>10, RefusedLeaves
    <3>3. processor'.seen = processor.seen /\ processor'.buffer = <<>> /\ processor'.terminal = TRUE
      BY <1>1, <3>1, <3>2 DEF Terminated, Processors
    <3> QED
      BY <1>1, <3>1, <3>2, <3>3, GivenUp
  <2> QED
    BY <2>8, <2>9, <2>10
<1> QED
  BY <1>3, <1>5, <1>6 DEF Accept

LEMMA RetryCounts ==
  ASSUME GiftInv, OrderInv, RetryRound
  PROVE  OrderInv'
<1> DEFINE n == session.id
           rt == stored.runtime
<1>1. /\ stored \in Stores /\ processor \in Processors /\ n \in Nat /\ n >= 1 /\ accepted \in Seq(Gifts)
      /\ session' = session /\ accepted' = accepted
  BY DEF GiftInv, OrderInv, Sessions, RetryRound
<1>2. rt \in Seq(Entries) /\ processor.buffer \in Seq(Gifts)
  BY <1>1 DEF Stores, Processors
<1>3. CASE NothingBuffered
  <2>1. stored' = stored /\ processor' = Recovered(Awake)
    BY <1>3 DEF NothingBuffered
  <2>2. /\ processor'.seen = processor.seen /\ processor'.buffer = processor.buffer
        /\ processor'.terminal = processor.terminal /\ processor'.revision = processor.revision
    BY <1>1, <2>1 DEF Recovered, Awake, Processors
  <2> QED
    BY <1>1, <2>1, <2>2, OrderFrame
<1>4. CASE HeadExpired
  <2>1. stored' = stored /\ processor' = Terminated(Awake)
    BY <1>4 DEF HeadExpired
  <2>2. processor'.seen = processor.seen /\ processor'.buffer = <<>> /\ processor'.terminal = TRUE
    BY <1>1, <2>1 DEF Terminated, Awake, Processors
  <2> QED
    BY <1>1, <2>1, <2>2, GivenUp
<1>5. CASE RetryHead
  <2> DEFINE buf == processor.buffer
             acc == accepted
  <2>1. buf # <<>> /\ ~processor.terminal
    BY <1>5 DEF RetryHead, OrderInv
  <2>2. PICK g \in Gifts : g = Head(buf)
    BY <1>2, <2>1, TailFacts
  <2>3. PICK outcome \in Outcomes, next \in Nexts(g) :
          /\ Attempt(g, outcome, next)
          /\ LET p == [next EXCEPT !.retrying = Awake.retrying] IN
             CASE outcome = "done" ->
                    LET popped == [p EXCEPT !.buffer = Tail(@)] IN
                    /\ processor' = IF popped.buffer = <<>> THEN Recovered(popped) ELSE popped
                    /\ UNCHANGED workers
               [] outcome = "transient" ->
                    /\ processor' = Scheduled(p)
                    /\ workers' = [timers |-> workers.timers + NewTimers(p),
                                   loops |-> workers.loops - 1]
               [] OTHER -> processor' = Terminated(p) /\ WorkerEnds
    BY <1>5, <2>2 DEF RetryHead
  <2>4. SeenAreCounted(n, rt, processor.seen) /\ LostReply(n, rt, processor.seen, stored.revision > processor.revision, g)
    BY <2>1, <2>2 DEF OrderInv, SeenIn, CountedAreSeen, LostReply
  <2>5. Attempted(g, acc, buf, outcome, next)
    <3>1. Bounded(n, rt) /\ ReceiptsIn(n, rt, stored.receipts) /\ Served(n, rt, acc) /\ RestIn(n, rt, acc, buf)
      BY <2>1 DEF OrderInv
    <3> QED
      BY <1>1, <1>2, <2>1, <2>2, <2>3, <2>4, <3>1, AttemptCounts
  <2>6. next \in Processors /\ stored' \in Stores /\ stored'.runtime \in Seq(Entries)
    BY <2>3, AttemptKeeps DEF Stores
  <2>7. next.buffer = buf /\ next.terminal = processor.terminal
    BY <2>5 DEF Attempted
  <2> DEFINE p == [next EXCEPT !.retrying = Awake.retrying]
  <2>8. /\ p \in Processors /\ p.seen = next.seen /\ p.buffer = buf /\ p.terminal = next.terminal
        /\ p.revision = next.revision
    <3>1. Awake.retrying \in BOOLEAN
      BY <1>1 DEF Awake, Processors
    <3> QED
      BY <2>6, <2>7, <3>1 DEF Processors
  <2>9. CASE outcome = "done"
    <3> DEFINE popped == [p EXCEPT !.buffer = Tail(@)]
    <3>1. processor' = IF popped.buffer = <<>> THEN Recovered(popped) ELSE popped
      BY <2>3, <2>9
    <3> HIDE DEF p
    <3>2. PICK b \in Seq(Gifts) : b = Tail(buf)
      BY <1>2, <2>1, TailFacts
    <3>3. popped = [p EXCEPT !.buffer = b]
      BY <2>8, <3>2
    <3>4. popped.seen = next.seen /\ popped.buffer = b /\ popped.terminal = next.terminal /\ popped \in Processors
      BY <2>8, <3>2, <3>3 DEF Processors
    <3> HIDE DEF popped
    <3>5. processor'.seen = next.seen /\ processor'.buffer = Tail(buf) /\ processor'.terminal = next.terminal
      BY <3>1, <3>2, <3>4 DEF Recovered, Processors
    <3> QED
      BY <1>1, <1>2, <2>1, <2>2, <2>5, <2>6, <2>9, <3>5, HeadSettled
  <2>10. CASE outcome = "transient"
    <3>1. processor' = Scheduled(p)
      BY <2>3, <2>10
    <3> HIDE DEF p
    <3>2. /\ processor'.seen = next.seen /\ processor'.buffer = buf
          /\ processor'.terminal = next.terminal /\ processor'.revision = next.revision
      BY <2>8, <3>1 DEF Scheduled, Processors
    <3> QED
      BY <1>1, <1>2, <2>1, <2>2, <2>5, <2>6, <3>2, HeadWaits
  <2>11. CASE outcome \notin {"done", "transient"}
    <3>1. processor' = Terminated(p)
      BY <2>3, <2>11
    <3>2. stored' = stored /\ next = processor
      BY <2>3, <2>11, RefusedLeaves
    <3> HIDE DEF p
    <3>3. processor'.seen = processor.seen /\ processor'.buffer = <<>> /\ processor'.terminal = TRUE
      BY <1>1, <2>8, <3>1, <3>2 DEF Terminated, Processors
    <3> QED
      BY <1>1, <3>1, <3>2, <3>3, GivenUp
  <2> QED
    BY <2>9, <2>10, <2>11
<1> QED
  BY <1>3, <1>4, <1>5 DEF RetryRound

\* A session begins: it has counted nothing, and sees the receipts of all before it.
LEMMA NextSessionCounts ==
  ASSUME GiftInv, OrderInv, NextSession
  PROVE  OrderInv'
<1> DEFINE n == session.id
           rt == stored.runtime
<1>1. stored \in Stores /\ n \in Nat /\ n >= 1 /\ session \in Sessions
  BY DEF GiftInv, OrderInv, Sessions
<1>2. rt \in Seq(Entries)
  BY <1>1 DEF Stores
<1>3. stored'.runtime = rt /\ stored'.receipts = stored.receipts /\ stored'.revision = stored.revision
  BY <1>1 DEF NextSession, Stores
<1>4. session'.id = n + 1 /\ accepted' = <<>> /\ accepted' \in Seq(Gifts)
  BY DEF NextSession
<1>5. processor'.seen = {} /\ processor'.buffer = <<>> /\ processor'.terminal = FALSE
  BY DEF NextSession, NewProcessor
<1>6. ASSUME NEW i \in DOMAIN rt
      PROVE  rt[i].session \in Nat /\ rt[i].session <= n
  <2>1. rt[i] \in Entries
    BY <1>2
  <2> QED
    BY <2>1 DEF OrderInv, Bounded, Entries
<1>7. Bounded(n + 1, rt) /\ \A i \in DOMAIN rt : rt[i].session # n + 1
  BY <1>1, <1>6 DEF Bounded
<1>8. Served(n + 1, rt, <<>>) /\ RestIn(n + 1, rt, <<>>, <<>>) /\ \A g : ~Has(rt, n + 1, g)
  <2>1. n + 1 \in Nat
    BY <1>1
  <2>2. PICK k \in Nat : k = n + 1
    BY <2>1
  <2> QED
    BY <1>2, <1>7, <2>2, NothingServed
<1>9. ReceiptsIn(n + 1, rt, stored.receipts)
  <2>1. SUFFICES ASSUME NEW g \in Identified
                 PROVE  g \in stored.receipts <=> \E m \in 1..n + 1 : Has(rt, m, g)
    BY DEF ReceiptsIn
  <2>2. g \in stored.receipts <=> \E m \in 1..n : Has(rt, m, g)
    BY DEF OrderInv, ReceiptsIn
  <2>3. \A m \in 1..n + 1 : m \in 1..n \/ m = n + 1
    BY <1>1
  <2>4. 1..n \subseteq 1..n + 1
    BY <1>1
  <2> QED
    BY <1>8, <2>2, <2>3, <2>4
<1>10. SeenIn(n + 1, rt, processor', stored'.revision)
  BY <1>5, <1>8 DEF SeenIn, SeenAreCounted, CountedAreSeen
<1> QED
  BY <1>1, <1>3, <1>4, <1>5, <1>7, <1>8, <1>9, <1>10 DEF OrderInv

LEMMA QuietCounts ==
  ASSUME GiftInv, OrderInv,
         \/ Ages \/ TimerFires \/ TimerStops \/ CloseBegins \/ CloseDrained \/ CloseExpires \/ CloseDrops
         \/ CloseReturns \/ FinalizeSession \/ FenceLost \/ LoadActive \/ UNCHANGED giftVars
  PROVE  OrderInv'
<1>1. stored \in Stores /\ processor \in Processors /\ session \in Sessions
  BY DEF GiftInv
<1>2. CASE CloseDrops
  <2>1. processor'.seen = processor.seen /\ processor'.buffer = <<>> /\ processor'.terminal = TRUE
    BY <1>1, <1>2 DEF CloseDrops, Terminated, Processors
  <2>2. session'.id = session.id /\ stored' = stored /\ accepted' = accepted
    BY <1>1, <1>2 DEF CloseDrops, Sessions
  <2>3. SeenIn(session.id, stored.runtime, processor', stored.revision)
    BY <2>1 DEF OrderInv, SeenIn
  <2> QED
    BY <2>1, <2>2, <2>3 DEF OrderInv
<1>3. CASE FenceLost
  <2>1. /\ stored'.runtime = stored.runtime /\ stored'.receipts = stored.receipts
        /\ stored'.revision = stored.revision /\ processor' = processor /\ session' = session /\ accepted' = accepted
    BY <1>1, <1>3 DEF FenceLost, Stores
  <2> QED
    BY <2>1, OrderFrame
<1>4. CASE \/ Ages \/ TimerFires \/ TimerStops \/ CloseBegins \/ CloseDrained \/ CloseExpires
           \/ CloseReturns \/ FinalizeSession \/ LoadActive \/ UNCHANGED giftVars
  <2>1. stored' = stored /\ accepted' = accepted
    BY <1>4 DEF Ages, TimerFires, TimerStops, CloseBegins, CloseDrained, CloseExpires, CloseReturns,
                FinalizeSession, LoadActive, giftVars
  <2>2. session'.id = session.id
    BY <1>1, <1>4 DEF Ages, TimerFires, TimerStops, CloseBegins, CloseDrained, CloseExpires, CloseReturns,
                FinalizeSession, LoadActive, giftVars, Sessions
  <2>3. /\ processor'.seen = processor.seen /\ processor'.buffer = processor.buffer
        /\ processor'.terminal = processor.terminal /\ processor'.revision = processor.revision
    BY <1>1, <1>4 DEF Ages, TimerFires, TimerStops, CloseBegins, CloseDrained, CloseExpires, CloseReturns,
                FinalizeSession, LoadActive, giftVars, Processors
  <2> QED
    BY <2>1, <2>2, <2>3, OrderFrame
<1> QED
  BY <1>2, <1>3, <1>4

\* An edit raises the revision: the copy of the processor stays behind.
LEMMA EditCounts ==
  ASSUME GiftInv, OrderInv, SaveState \/ SaveDefinition
  PROVE  OrderInv'
<1> DEFINE n == session.id
           rt == stored.runtime
<1>1. /\ stored \in Stores /\ editor \in Editors /\ Behind(editor, stored) /\ processor \in Processors
      /\ Behind(processor, stored) /\ n \in Nat /\ n >= 1
      /\ processor' = processor /\ session' = session /\ accepted' = accepted
  BY DEF GiftInv, OrderInv, Sessions, SaveState, SaveDefinition
<1>2. /\ stored.revision \in Nat /\ stored.config \in Nat /\ rt \in Seq(Entries) /\ processor.revision \in Nat
      /\ Edit \in Entries /\ Edit.session = 0 /\ accepted \in Seq(Gifts) /\ processor.buffer \in Seq(Gifts)
  BY <1>1 DEF Stores, Processors, Edit, Entries, OrderInv
<1>3. PICK rt2 \in Seq(Entries) : rt2 = Append(rt, Edit)
  BY <1>2, AppendProperties
<1>4. PICK k \in Nat : k = stored.revision + 1
  BY <1>2
<1>5. PICK c \in Nat : c = stored.config + 1
  BY <1>2
<1>6. CASE stored' = stored
  BY <1>1, <1>6, OrderFrame
<1>7. CASE stored'.runtime = rt2 /\ stored'.revision = k /\ stored'.receipts = stored.receipts
  <2>1. /\ Served(n, rt2, accepted)
        /\ RestIn(n, rt, accepted, processor.buffer) => RestIn(n, rt2, accepted, processor.buffer)
    BY <1>1, <1>2, <1>3, OthersCount DEF OrderInv
  <2>2. \A m \in 1..n : \A g : Has(rt2, m, g) <=> Has(rt, m, g)
    BY <1>1, <1>2, <1>3, OthersCount DEF OrderInv
  <2>3. n \in 1..n
    BY <1>1
  <2>4. ReceiptsIn(n, rt2, stored.receipts)
    BY <2>2 DEF OrderInv, ReceiptsIn
  <2>5. Bounded(n, rt2)
    <3>1. Len(rt) \in Nat /\ DOMAIN rt = 1..Len(rt) /\ DOMAIN rt2 = 1..Len(rt) + 1
      BY <1>2, <1>3
    <3>2. rt2[Len(rt) + 1] = Edit /\ \A i \in 1..Len(rt) : rt2[i] = rt[i]
      BY <1>2, <1>3, AppendFacts
    <3>3. Edit.session <= n /\ \A i \in 1..Len(rt) : rt[i].session <= n
      BY <1>1, <1>2, <3>1 DEF OrderInv, Bounded
    <3>4. SUFFICES ASSUME NEW i \in DOMAIN rt2 PROVE rt2[i].session <= n
      BY DEF Bounded
    <3>5. i = Len(rt) + 1 \/ i \in 1..Len(rt)
      BY <3>1
    <3> QED
      BY <3>2, <3>3, <3>5
  <2>6. stored.revision > processor.revision => k > processor.revision
    BY <1>2, <1>4
  <2>7. SeenIn(n, rt2, processor, k)
    BY <2>2, <2>3, <2>6 DEF OrderInv, SeenIn, SeenAreCounted, CountedAreSeen, LostReply
  <2> QED
    BY <1>1, <1>7, <2>1, <2>4, <2>5, <2>7 DEF OrderInv
<1>8. \/ stored' = stored
      \/ stored'.runtime = rt2 /\ stored'.revision = k /\ stored'.receipts = stored.receipts
  <2>1. \/ stored' = stored
        \/ stored' = [stored EXCEPT !.revision = k, !.runtime = rt2]
        \/ stored' = [stored EXCEPT !.revision = k, !.config = c, !.runtime = rt2]
    BY <1>1, <1>3, <1>4, <1>5 DEF SaveState, SaveDefinition, Behind
  <2> QED
    BY <1>1, <2>1 DEF Stores
<1> QED
  BY <1>6, <1>7, <1>8

LEMMA OrderKept ==
  ASSUME GiftInv, OrderInv, [GiftNext]_giftVars
  PROVE  OrderInv'
BY AcceptCounts, RetryCounts, NextSessionCounts, QuietCounts, EditCounts DEF GiftNext

LEMMA OrderInit ==
  ASSUME GiftInit
  PROVE  OrderInv
<1>1. /\ stored.runtime = <<>> /\ stored.receipts = {} /\ session.id = 1 /\ accepted = <<>>
      /\ processor.seen = {} /\ processor.buffer = <<>> /\ processor.terminal = FALSE
  BY DEF GiftInit, NewProcessor
<1>2. <<>> \in Seq(Gifts) /\ <<>> \in Seq(Entries) /\ DOMAIN <<>> = {}
  OBVIOUS
<1>3. Served(1, <<>>, <<>>) /\ RestIn(1, <<>>, <<>>, <<>>) /\ \A g : ~Has(<<>>, 1, g)
  BY <1>2, NothingServed
<1>4. ReceiptsIn(1, <<>>, {})
  BY <1>2 DEF ReceiptsIn, Has, ToSet
<1>5. SeenIn(1, <<>>, processor, stored.revision)
  BY <1>1, <1>3 DEF SeenIn, SeenAreCounted, CountedAreSeen
<1>6. Bounded(1, <<>>)
  BY <1>2 DEF Bounded
<1> QED
  BY <1>1, <1>2, <1>3, <1>4, <1>5, <1>6 DEF OrderInv

\* The invariant says what the property says.
LEMMA OrderIsCounted ==
  ASSUME GiftInv, OrderInv
  PROVE  CountedInOrder
<1> DEFINE n == session.id
           rt == stored.runtime
<1>1. \A g : (g \in Counted) <=> g \in Gifts /\ Has(rt, n, g)
  BY DEF Counted, Has, Entry, EntryOf
<1>2. \A g : (g \in CountedBefore) <=> EarlierIn(n, rt, g)
  BY DEF CountedBefore, EarlierIn, Has, EntryOf
<1>3. \A g : (g \in Due) <=> Owes(n, rt, accepted, g)
  BY <1>2 DEF Due, Owes
<1>4. \A g \in Due : g \in Gifts
  BY <1>3 DEF Owes, ToSet, OrderInv
<1>5. CountedOnce
  BY <1>3 DEF CountedOnce, OrderInv, Served, OnceIn
<1>6. CountedByTurn
  <2>1. SUFFICES ASSUME NEW g \in Due, NEW h \in Due, ComesFirst(accepted, g, h), h \in Counted
                 PROVE  g \in Counted /\ ComesFirst(rt, Entry(g), Entry(h))
    BY DEF CountedByTurn
  <2>2. TurnOf(n, rt, accepted, g, h)
    BY <1>4 DEF OrderInv, Served, ByTurnIn
  <2>3. Entry(g) = EntryOf(n, g) /\ Entry(h) = EntryOf(n, h)
    BY DEF Entry, EntryOf
  <2> QED
    BY <1>1, <1>3, <1>4, <2>1, <2>2, <2>3 DEF TurnOf
<1>7. ASSUME ~processor.terminal
      PROVE  RestWaits
  <2>1. RestIn(n, rt, accepted, processor.buffer)
    BY <1>7 DEF OrderInv
  <2>2. \A g \in Due \ Counted : g \in Gifts /\ Remains(n, rt, accepted, g)
    BY <1>1, <1>3, <1>4 DEF Remains
  <2> QED
    BY <2>1, <2>2 DEF RestWaits, RestIn, WaitsFor
<1> QED
  BY <1>5, <1>6, <1>7 DEF CountedInOrder

\* The processor's own copy, an edit that was loaded long ago and a new configuration:
\* nothing that is written to the runtime state overwrites what its writer has not seen,
\* for any number of gifts, sessions, edits, lost replies and retries.
THEOREM StateOnlyGrows == GiftSpec => NothingIsOverwritten
<1>1. GiftInv /\ [GiftNext]_giftVars => [IsPrefix(stored.runtime, stored'.runtime)]_giftVars
  <2>1. SUFFICES ASSUME GiftInv, [GiftNext]_giftVars PROVE IsPrefix(stored.runtime, stored'.runtime)
    OBVIOUS
  <2>2. Raises(stored, stored') /\ stored.runtime \in Seq(Entries)
    BY <2>1, GiftKept DEF GiftInv, Stores
  <2> QED
    BY <2>2, PrefixOfItself DEF Raises
<1> QED
  BY <1>1, GiftInvInit, GiftKept, PTL DEF GiftSpec, NothingIsOverwritten

\* What Accept has answered with nil is counted once, in the order it was accepted, or
\* waits in that order, unless the processor has ended; and no writer of the runtime state
\* overwrites what it has not seen: for any number of gifts, sessions, edits, lost
\* replies and retries, and any capacity of the buffer.
THEOREM GiftsAlwaysCountedInOrder == GiftSpec => AcceptedGiftsAreCountedInOrder
<1>1. GiftInit => GiftInv /\ OrderInv
  BY GiftInvInit, OrderInit
<1>2. GiftInv /\ OrderInv /\ [GiftNext]_giftVars => GiftInv' /\ OrderInv'
  BY GiftKept, OrderKept
<1>3. GiftInv /\ OrderInv => CountedInOrder
  BY OrderIsCounted
<1>4. GiftSpec => NothingIsOverwritten
  BY StateOnlyGrows
<1> QED
  BY <1>1, <1>2, <1>3, <1>4, PTL DEF GiftSpec, AcceptedGiftsAreCountedInOrder
=============================================================================
