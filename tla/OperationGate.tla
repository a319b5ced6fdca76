---------------------------- MODULE OperationGate ----------------------------
(***************************************************************************)
(* operationGate of the hosted runtime (runtime/operation_gate.go): the    *)
(* context-aware FIFO mutex that serialises the operations of an account   *)
(* (opGate), room transitions (transitionGate) and shutdown.               *)
(*                                                                         *)
(* A step is a section under gate.mu, a look at the context, or the choice *)
(* of select between a granted turn and a cancelled context: when both are *)
(* ready Go takes either.  The hard case is a waiter that gives up while   *)
(* its turn is being granted: it must hand the turn on.                    *)
(***************************************************************************)
EXTENDS Naturals, Sequences

CONSTANTS
  Threads,       \* goroutines that call Acquire
  Nobody,        \* no holder, in the abstract lock
  MaxGeneration  \* math.MaxUint64: the generation after it is 0

ASSUME GateAssumption ==
  /\ MaxGeneration \in Nat
  /\ Nobody \notin Threads

Generations == 0 .. MaxGeneration

VARIABLES
  held, generation, owner, waiters,  \* operationGate; waiters by thread
  granted,    \* operationGateWaiter.granted of the thread's call
  turn,       \* generation of the thread's waiter or permit
  pc,         \* where the thread's call of Acquire is
  cancelled   \* ctx.Err() # nil

vars == <<held, generation, owner, waiters, granted, turn, pc, cancelled>>

\* idle: no call; entering: the context was fine, gate.mu comes next; waiting:
\* in select; leaving: select took ctx.Done; checking: a permit, the context is
\* looked at again; holding: Acquire returned the permit.
Places == {"idle", "entering", "waiting", "leaving", "checking", "holding"}

Following(g) == IF g = MaxGeneration THEN 0 ELSE g + 1

Waiting(t) == \E i \in 1 .. Len(waiters) : waiters[i] = t

\* The turn is t's, whether or not t has seen it yet.
HasTurn(t) == granted[t] \/ pc[t] \in {"checking", "holding"}

Init ==
  /\ held = FALSE
  /\ generation = 0
  /\ owner = 0
  /\ waiters = <<>>
  /\ granted = [t \in Threads |-> FALSE]
  /\ turn = [t \in Threads |-> 0]
  /\ pc = [t \in Threads |-> "idle"]
  /\ cancelled = [t \in Threads |-> FALSE]

\* Acquire with a context that is not cancelled yet.
Call(t) ==
  /\ pc[t] = "idle"
  /\ pc' = [pc EXCEPT ![t] = "entering"]
  /\ cancelled' = [cancelled EXCEPT ![t] = FALSE]
  /\ UNCHANGED <<held, generation, owner, waiters, granted, turn>>

Cancel(t) ==
  /\ pc[t] # "idle"
  /\ ~cancelled[t]
  /\ cancelled' = [cancelled EXCEPT ![t] = TRUE]
  /\ UNCHANGED <<held, generation, owner, waiters, granted, turn, pc>>

TakeFree(t) ==
  /\ pc[t] = "entering"
  /\ ~held /\ waiters = <<>>
  /\ generation' = Following(generation)
  /\ held' = TRUE
  /\ owner' = generation'
  /\ turn' = [turn EXCEPT ![t] = generation']
  /\ pc' = [pc EXCEPT ![t] = "checking"]
  /\ UNCHANGED <<waiters, granted, cancelled>>

\* Mutant of Enqueue: last in, first out.
EnqueueFirst(t) ==
  /\ pc[t] = "entering"
  /\ held \/ waiters # <<>>
  /\ waiters' = <<t>> \o waiters
  /\ pc' = [pc EXCEPT ![t] = "waiting"]
  /\ UNCHANGED <<held, generation, owner, granted, turn, cancelled>>

Enqueue(t) ==
  /\ pc[t] = "entering"
  /\ held \/ waiters # <<>>
  /\ waiters' = Append(waiters, t)
  /\ pc' = [pc EXCEPT ![t] = "waiting"]
  /\ UNCHANGED <<held, generation, owner, granted, turn, cancelled>>

\* select: <-waiter.ready
Wake(t) ==
  /\ pc[t] = "waiting"
  /\ granted[t]
  /\ granted' = [granted EXCEPT ![t] = FALSE]
  /\ pc' = [pc EXCEPT ![t] = "checking"]
  /\ UNCHANGED <<held, generation, owner, waiters, turn, cancelled>>

\* select: <-ctx.Done()
GiveUp(t) ==
  /\ pc[t] = "waiting"
  /\ cancelled[t]
  /\ pc' = [pc EXCEPT ![t] = "leaving"]
  /\ UNCHANGED <<held, generation, owner, waiters, granted, turn, cancelled>>

Keep(t) ==
  /\ pc[t] = "checking"
  /\ ~cancelled[t]
  /\ pc' = [pc EXCEPT ![t] = "holding"]
  /\ UNCHANGED <<held, generation, owner, waiters, granted, turn, cancelled>>

\* permit.Release.  The guard that fails is ErrUnavailable for a caller and a
\* panic in mustReleaseOperationPermit.
Accepts(t) == held /\ owner = turn[t]

Handover(t) ==
  /\ Accepts(t)
  /\ pc' = [pc EXCEPT ![t] = "idle"]
  /\ IF waiters = <<>>
     THEN /\ held' = FALSE
          /\ owner' = 0
          /\ granted' = [granted EXCEPT ![t] = FALSE]
          /\ UNCHANGED <<generation, waiters, turn>>
     ELSE /\ waiters' = Tail(waiters)
          /\ generation' = Following(generation)
          /\ owner' = generation'
          /\ granted' = [granted EXCEPT ![t] = FALSE, ![Head(waiters)] = TRUE]
          /\ turn' = [turn EXCEPT ![Head(waiters)] = generation']
          /\ UNCHANGED held
  /\ UNCHANGED cancelled

Release(t) == pc[t] = "holding" /\ Handover(t)

\* Cancelled between the grant and the second look at the context.
Drop(t) == pc[t] = "checking" /\ cancelled[t] /\ Handover(t)

\* Mutant of HandOn: the context's error is returned and the turn is kept.
HandOnNothing(t) ==
  /\ pc[t] = "leaving" /\ granted[t]
  /\ granted' = [granted EXCEPT ![t] = FALSE]
  /\ pc' = [pc EXCEPT ![t] = "idle"]
  /\ UNCHANGED <<held, generation, owner, waiters, turn, cancelled>>

\* Gave up, and was granted the turn before it could leave the queue.
HandOn(t) == pc[t] = "leaving" /\ granted[t] /\ Handover(t)

LeaveQueue(t) ==
  /\ pc[t] = "leaving"
  /\ ~granted[t]
  /\ \E i \in 1 .. Len(waiters) :
       /\ waiters[i] = t
       /\ waiters' = [j \in 1 .. Len(waiters) - 1 |->
                        IF j < i THEN waiters[j] ELSE waiters[j + 1]]
  /\ pc' = [pc EXCEPT ![t] = "idle"]
  /\ UNCHANGED <<held, generation, owner, granted, turn, cancelled>>

\* What Acquire does once it is called, and what its caller does in the end.
Progress(t) ==
  \/ TakeFree(t) \/ Enqueue(t) \/ Wake(t) \/ GiveUp(t) \/ Keep(t)
  \/ Drop(t) \/ HandOn(t) \/ LeaveQueue(t) \/ Release(t)

Next == \E t \in Threads : Call(t) \/ Cancel(t) \/ Progress(t)

\* Goroutines that can run do run, and whoever holds a permit releases it.
Spec == Init /\ [][Next]_vars /\ \A t \in Threads : WF_vars(Progress(t))

-----------------------------------------------------------------------------
TypeOK ==
  /\ held \in BOOLEAN
  /\ generation \in Generations
  /\ owner \in Generations
  /\ waiters \in Seq(Threads)
  /\ granted \in [Threads -> BOOLEAN]
  /\ turn \in [Threads -> Generations]
  /\ pc \in [Threads -> Places]
  /\ cancelled \in [Threads -> BOOLEAN]

\* At most one call has the turn, counting the one that was granted it and has
\* not woken up, or has given up and not noticed yet.
OneTurn == \A t, u \in Threads : HasTurn(t) /\ HasTurn(u) => t = u

\* The turn is never lost: a held gate is somebody's, and a gate that is free
\* has nobody queued.  A waiter cancelled during its grant could break both.
NoLostTurn ==
  /\ held <=> \E t \in Threads : HasTurn(t)
  /\ ~held => waiters = <<>>

\* Whoever is about to release owns the gate: no caller reads ErrUnavailable
\* and mustReleaseOperationPermit does not panic.
ReleaseIsAccepted == \A t \in Threads : HasTurn(t) => Accepts(t)

\* The queue and the calls agree, so that a cancelled waiter finds itself.
QueueIsTheWaiters ==
  /\ \A t \in Threads : Waiting(t) <=> pc[t] \in {"waiting", "leaving"} /\ ~granted[t]
  /\ \A i, j \in 1 .. Len(waiters) : waiters[i] = waiters[j] => i = j

\* The gate is a FIFO lock.
Lock == INSTANCE FifoLock WITH
  holder <- IF held THEN CHOOSE t \in Threads : HasTurn(t) ELSE Nobody,
  queue <- waiters

IsFifoLock == Lock!LockSpec

\* Every call of Acquire comes to an end: the permit, or the context's error.
EveryCallReturns ==
  \A t \in Threads : pc[t] \notin {"idle", "holding"} ~> pc[t] \in {"idle", "holding"}
==============================================================================
