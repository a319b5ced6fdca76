------------------------------ MODULE FifoLock ------------------------------
(***************************************************************************)
(* What a gate of the hosted runtime promises its callers: a lock with one *)
(* holder that is handed on in the order of arrival.  Whoever waits may    *)
(* walk away; whoever holds the lock passes it on.                         *)
(***************************************************************************)
EXTENDS Naturals, Sequences

CONSTANTS Threads, Nobody

VARIABLES holder, queue

lockVars == <<holder, queue>>

Queued(t) == \E i \in 1 .. Len(queue) : queue[i] = t

FreeLock == holder = Nobody /\ queue = <<>>

\* Nobody is ahead: the lock is taken at once.
Take(t) ==
  /\ FreeLock
  /\ holder' = t
  /\ UNCHANGED queue

Join(t) ==
  /\ holder # Nobody
  /\ holder # t
  /\ ~Queued(t)
  /\ queue' = Append(queue, t)
  /\ UNCHANGED holder

\* The others keep their order.
WalkAway(t) ==
  /\ \E i \in 1 .. Len(queue) :
       /\ queue[i] = t
       /\ queue' = [j \in 1 .. Len(queue) - 1 |-> IF j < i THEN queue[j] ELSE queue[j + 1]]
  /\ UNCHANGED holder

PassOn(t) ==
  /\ holder = t
  /\ IF queue = <<>>
     THEN holder' = Nobody /\ UNCHANGED queue
     ELSE holder' = Head(queue) /\ queue' = Tail(queue)

LockNext == \E t \in Threads : Take(t) \/ Join(t) \/ WalkAway(t) \/ PassOn(t)

LockSafety == FreeLock /\ [][LockNext]_lockVars

LockSpec == LockSafety /\ \A t \in Threads : WF_lockVars(PassOn(t))
=============================================================================
