---------------------------- MODULE EventProcessor ----------------------------
(***************************************************************************)
(* The gifts of one account: the processor of a live session               *)
(* (runtime/processor.go), the transaction that counts a gift              *)
(* (configuration/repository.go CommitRuntimeEvent), the published snapshot *)
(* (runtime/publisher.go), and the two writers that share the account's    *)
(* runtime state with it (SaveState and SaveDefinition of                  *)
(* configuration/service.go).                                              *)
(*                                                                         *)
(* Accept and each round of retryBuffered hold processor.mu from the first *)
(* look at the buffer to the last, the transaction included; so each is one*)
(* step.  The runtime state is the sequence of what was done to it: a gift *)
(* of a session, or an edit.                                               *)
(***************************************************************************)
EXTENDS Integers, Sequences, SequencesExt, FiniteSets

CONSTANTS
  Gifts,        \* gift events of the room, by number
  Identified,   \* those that carry an ID
  MaxSessions,  \* bound of the sessions
  MaxBuffered,  \* maxBufferedEvents
  GiftFaults,   \* bound of the transactions that go wrong
  MaxArrivals,  \* bound of the deliveries of gifts, repeated ones included
  MaxEdits      \* bound of the edits

ASSUME GiftAssumption ==
  /\ Gifts \subseteq Nat \ {0} /\ IsFiniteSet(Gifts) /\ Identified \subseteq Gifts
  /\ MaxSessions \in Nat /\ MaxBuffered \in Nat \ {0}
  /\ GiftFaults \in Nat /\ MaxArrivals \in Nat /\ MaxEdits \in Nat

VARIABLES
  stored,    \* account_runtime_state, account_active_config, the dedup receipts
             \* and whether the session's fence is still the account's
  processor, \* Processor
  workers,   \* its retry goroutines: waiting for a timer, and in retryBuffered
  session,   \* the session and how far its end has come
  latest,    \* Publisher.latest
  editor,    \* a request that has loaded the state and not yet saved it
  accepted,  \* history: the gifts of the session that Accept answered with nil
  giftFaults, \* the transactions that may still go wrong
  stimuli    \* the arrivals and edits that may still occur

giftVars == <<stored, processor, workers, session, latest, editor, accepted, giftFaults, stimuli>>

Edit == [session |-> 0, gift |-> 0]
NoSnapshot == [session |-> 0, revision |-> 0, runtime |-> <<>>]

\* NewProcessor: it starts from the state LoadActive reads.
NewProcessor ==
  [revision |-> stored.revision, runtime |-> stored.runtime, buffer |-> <<>>, expired |-> FALSE,
   retrying |-> FALSE, seen |-> {}, degraded |-> FALSE, rejecting |-> FALSE, terminal |-> FALSE,
   closing |-> FALSE, drained |-> FALSE, cancelled |-> FALSE]

GiftInit ==
  /\ stored = [config |-> 1, revision |-> 1, runtime |-> <<>>, receipts |-> {}, holds |-> TRUE]
  /\ processor = NewProcessor
  /\ workers = [timers |-> 0, loops |-> 0]
  /\ session = [id |-> 1, config |-> 1, at |-> "open", stopped |-> FALSE]
  /\ latest = NoSnapshot
  /\ editor = [at |-> "idle", config |-> 0, revision |-> 0, runtime |-> <<>>]
  /\ accepted = <<>>
  /\ giftFaults = GiftFaults
  /\ stimuli = [arrivals |-> MaxArrivals, edits |-> MaxEdits]

Spend(what) == stimuli[what] > 0 /\ stimuli' = [stimuli EXCEPT ![what] = @ - 1]
GoesWrong == giftFaults > 0 /\ giftFaults' = giftFaults - 1

-----------------------------------------------------------------------------
(***************************************************************************)
(* CommitRuntimeEvent and applyLocked                                      *)
(***************************************************************************)
Entry(g) == [session |-> session.id, gift |-> g]

\* Mutant: an event is committed on top of whatever the state is.
RefusalIgnoresRevision(g) ==
  IF ~stored.holds THEN "ownership"
  ELSE IF stored.config # session.config THEN "conflict"
  ELSE IF g \in Identified \cap stored.receipts THEN "duplicate" ELSE "none"

\* Why the transaction does not count the gift, in the order of its checks.
Refusal(g) ==
  IF ~stored.holds THEN "ownership"
  ELSE IF stored.config # session.config THEN "conflict"
  ELSE IF g \in Identified \cap stored.receipts THEN "duplicate"
  ELSE IF stored.revision # processor.revision THEN "conflict" ELSE "none"

CommitRuntimeEvent(g) ==
  stored' = [stored EXCEPT !.revision = @ + 1,
                           !.runtime = Append(processor.runtime, Entry(g)),
                           !.receipts = IF g \in Identified THEN @ \cup {g} ELSE @]

\* The state and revision the processor goes on with after a counted gift.
Recorded(g) ==
  [processor EXCEPT !.revision = @ + 1,
                    !.runtime = Append(@, Entry(g)),
                    !.seen = IF g \in Identified THEN @ ELSE @ \cup {g}]

\* reloadCanonicalStateLocked
Reloaded == [processor EXCEPT !.revision = stored.revision, !.runtime = stored.runtime]

Outcomes == {"done", "transient", "ownership", "conflict"}
Nexts(g) == {processor, Recorded(g), Reloaded}

\* applyLocked: what may come of one attempt, and the processor after it.  After a
\* lost reply verifyCommittedRuntimeEvent could not confirm the commit.
Attempt(g, outcome, next) ==
  \/ /\ g \notin Identified /\ g \in processor.seen
     /\ outcome = "done" /\ next = processor
     /\ UNCHANGED <<stored, latest, giftFaults>>
  \/ /\ g \in Identified \/ g \notin processor.seen
     /\ \/ /\ ~processor.cancelled /\ Refusal(g) = "none"
           /\ CommitRuntimeEvent(g)
           /\ \/ /\ outcome = "done" /\ next = Recorded(g)
                 /\ latest' = [session |-> session.id, revision |-> next.revision,
                               runtime |-> next.runtime]
                 /\ UNCHANGED giftFaults
              \/ /\ GoesWrong
                 /\ outcome = "transient" /\ next = processor
                 /\ UNCHANGED latest
        \/ /\ ~processor.cancelled /\ Refusal(g) = "duplicate"
           /\ outcome = "done"
           /\ next = IF stored.revision > processor.revision THEN Reloaded ELSE processor
           /\ UNCHANGED <<stored, latest, giftFaults>>
        \/ /\ ~processor.cancelled /\ Refusal(g) \in {"ownership", "conflict"}
           /\ outcome = Refusal(g) /\ next = processor
           /\ UNCHANGED <<stored, latest, giftFaults>>
        \/ /\ IF processor.cancelled THEN UNCHANGED giftFaults ELSE GoesWrong
           /\ outcome = "transient" /\ next = processor
           /\ UNCHANGED <<stored, latest>>

-----------------------------------------------------------------------------
(***************************************************************************)
(* Accept and retryBuffered                                                *)
(***************************************************************************)
\* The buffer is given up: every later gift is refused.
Terminated(p) ==
  [p EXCEPT !.buffer = <<>>, !.expired = FALSE, !.degraded = TRUE, !.rejecting = TRUE,
            !.terminal = TRUE, !.drained = @ \/ p.closing]

\* scheduleRetryLocked, which starts no second timer while one is known.
Scheduled(p) == [p EXCEPT !.retrying = TRUE]
NewTimers(p) == IF p.retrying \/ p.buffer = <<>> THEN 0 ELSE 1

\* Mutant: a gift does not wait for those that are buffered.
QueuesNever == FALSE

\* A gift queues behind those that wait.
Queues == processor.buffer # <<>>

Full == Len(processor.buffer) >= MaxBuffered \/ processor.expired

Queue(g) ==
  /\ Queues
  /\ IF Full
     THEN processor' = [processor EXCEPT !.rejecting = TRUE] /\ UNCHANGED accepted
     ELSE /\ processor' = [processor EXCEPT !.buffer = Append(@, g)]
          /\ accepted' = Append(accepted, g)
  /\ UNCHANGED <<stored, workers, latest, giftFaults>>

Apply(g) ==
  /\ ~Queues
  /\ \E outcome \in Outcomes : \E next \in Nexts(g) :
       /\ Attempt(g, outcome, next)
       /\ CASE outcome = "done" ->
                 processor' = next /\ accepted' = Append(accepted, g) /\ UNCHANGED workers
            [] outcome = "transient" ->
                 LET p == [next EXCEPT !.buffer = Append(@, g), !.degraded = TRUE] IN
                 /\ processor' = Scheduled(p)
                 /\ workers' = [workers EXCEPT !.timers = @ + NewTimers(p)]
                 /\ accepted' = Append(accepted, g)
            [] OTHER ->
                 processor' = Terminated(next) /\ UNCHANGED <<workers, accepted>>

\* The worker of the session hands the processor a gift: any gift of the room, any
\* number of times (a room that was reconnected may send one again).
Accept(g) ==
  /\ session.at = "open" /\ ~processor.closing
  /\ Spend("arrivals")
  /\ IF processor.terminal
     THEN UNCHANGED <<stored, processor, workers, latest, accepted, giftFaults>>
     ELSE Queue(g) \/ Apply(g)
  /\ UNCHANGED <<session, editor>>

\* maxBufferedAge has passed since the head of the buffer was queued.
Ages ==
  /\ processor.buffer # <<>> /\ ~processor.expired
  /\ processor' = [processor EXCEPT !.expired = TRUE]
  /\ UNCHANGED <<stored, workers, session, latest, editor, accepted, giftFaults, stimuli>>

TimerFires ==
  /\ workers.timers > 0
  /\ workers' = [timers |-> workers.timers - 1, loops |-> workers.loops + 1]
  /\ UNCHANGED <<stored, processor, session, latest, editor, accepted, giftFaults, stimuli>>

\* retryStop is closed.
TimerStops ==
  /\ workers.timers > 0 /\ session.stopped
  /\ workers' = [workers EXCEPT !.timers = @ - 1]
  /\ UNCHANGED <<stored, processor, session, latest, editor, accepted, giftFaults, stimuli>>

\* Mutant: the round does not note that its timer is gone.
StillRetrying == processor

\* A round begins.
Awake == [processor EXCEPT !.retrying = FALSE]

WorkerEnds == workers' = [workers EXCEPT !.loops = @ - 1]

\* degraded and rejecting are withdrawn when the buffer is empty, by a worker that
\* finds it so as well as by the one that emptied it.
Recovered(p) ==
  [p EXCEPT !.degraded = FALSE, !.rejecting = FALSE, !.drained = @ \/ p.closing]

NothingBuffered ==
  /\ processor.buffer = <<>>
  /\ processor' = Recovered(Awake)
  /\ WorkerEnds
  /\ UNCHANGED <<stored, latest, giftFaults>>

HeadExpired ==
  /\ processor.buffer # <<>> /\ processor.expired
  /\ processor' = Terminated(Awake)
  /\ WorkerEnds
  /\ UNCHANGED <<stored, latest, giftFaults>>

RetryHead ==
  /\ processor.buffer # <<>> /\ ~processor.expired
  /\ \E outcome \in Outcomes : \E next \in Nexts(Head(processor.buffer)) :
       /\ Attempt(Head(processor.buffer), outcome, next)
       /\ LET p == [next EXCEPT !.retrying = Awake.retrying] IN
          CASE outcome = "done" ->
                 LET popped == [p EXCEPT !.buffer = Tail(@)] IN
                 /\ processor' = IF popped.buffer = <<>> THEN Recovered(popped) ELSE popped
                 /\ UNCHANGED workers
            [] outcome = "transient" ->
                 /\ processor' = Scheduled(p)
                 /\ workers' = [timers |-> workers.timers + NewTimers(p),
                                loops |-> workers.loops - 1]
            [] OTHER -> processor' = Terminated(p) /\ WorkerEnds

\* One round of retryBuffered.
RetryRound ==
  /\ workers.loops > 0
  /\ NothingBuffered \/ HeadExpired \/ RetryHead
  /\ UNCHANGED <<session, editor, accepted, stimuli>>

-----------------------------------------------------------------------------
(***************************************************************************)
(* The session ends: Close, perhaps more than once, EndSession,            *)
(* FinalizeSession; and the next one begins.                               *)
(***************************************************************************)
CloseBegins ==
  /\ session.at = "open"
  /\ session' = [session EXCEPT !.at = "closing"]
  /\ processor' = [processor EXCEPT !.closing = TRUE, !.drained = processor.buffer = <<>>]
  /\ UNCHANGED <<stored, workers, latest, editor, accepted, giftFaults, stimuli>>

CloseDrained ==
  /\ session.at = "closing" /\ processor.drained
  /\ session' = [session EXCEPT !.at = "waiting"]
  /\ processor' = [processor EXCEPT !.cancelled = TRUE]
  /\ UNCHANGED <<stored, workers, latest, editor, accepted, giftFaults, stimuli>>

\* The caller's deadline passes.
CloseExpires ==
  /\ session.at = "closing"
  /\ session' = [session EXCEPT !.at = "dropping", !.stopped = TRUE]
  /\ processor' = [processor EXCEPT !.cancelled = TRUE]
  /\ UNCHANGED <<stored, workers, latest, editor, accepted, giftFaults, stimuli>>

\* retryWorkers.Wait
WorkersDone == workers.timers = 0 /\ workers.loops = 0

\* Close answers ctx.Err, and the cleanup calls it again.
CloseDrops ==
  /\ session.at = "dropping" /\ WorkersDone
  /\ session' = [session EXCEPT !.at = "closing"]
  /\ processor' = Terminated(processor)
  /\ UNCHANGED <<stored, workers, latest, editor, accepted, giftFaults, stimuli>>

CloseReturns ==
  /\ session.at = "waiting" /\ WorkersDone
  /\ session' = [session EXCEPT !.at = "closed"]
  /\ UNCHANGED <<stored, processor, workers, latest, editor, accepted, giftFaults, stimuli>>

\* After EndSession: Publisher.Clear
FinalizeSession ==
  /\ session.at = "closed"
  /\ session' = [session EXCEPT !.at = "final"]
  /\ latest' = IF latest.session = session.id THEN NoSnapshot ELSE latest
  /\ UNCHANGED <<stored, processor, workers, editor, accepted, giftFaults, stimuli>>

NextSession ==
  /\ session.at = "final" /\ session.id < MaxSessions
  /\ stored' = [stored EXCEPT !.holds = TRUE]
  /\ processor' = NewProcessor
  /\ workers' = [timers |-> 0, loops |-> 0]
  /\ session' = [id |-> session.id + 1, config |-> stored.config, at |-> "open", stopped |-> FALSE]
  /\ accepted' = <<>>
  /\ UNCHANGED <<latest, editor, giftFaults, stimuli>>

-----------------------------------------------------------------------------
(***************************************************************************)
(* The other writers                                                       *)
(***************************************************************************)
\* The account is taken over, or its fence expires.
FenceLost ==
  /\ stored.holds /\ GoesWrong
  /\ stored' = [stored EXCEPT !.holds = FALSE]
  /\ UNCHANGED <<processor, workers, session, latest, editor, accepted, stimuli>>

LoadActive ==
  /\ editor.at = "idle" /\ Spend("edits")
  /\ editor' = [at |-> "loaded", config |-> stored.config, revision |-> stored.revision,
                runtime |-> stored.runtime]
  /\ UNCHANGED <<stored, processor, workers, session, latest, accepted, giftFaults>>

\* CompareAndSwapState: the revision the caller has seen is still the stored one.
SaveState ==
  /\ editor.at = "loaded"
  /\ stored' = IF stored.revision = editor.revision
               THEN [stored EXCEPT !.revision = @ + 1, !.runtime = Append(editor.runtime, Edit)]
               ELSE stored
  /\ editor' = [editor EXCEPT !.at = "idle"]
  /\ UNCHANGED <<processor, workers, session, latest, accepted, giftFaults, stimuli>>

\* Activate: a new version of the configuration, under the same runtime state.
SaveDefinition ==
  /\ editor.at = "loaded"
  /\ stored' = IF stored.revision = editor.revision /\ stored.config = editor.config
               THEN [stored EXCEPT !.revision = @ + 1, !.config = @ + 1,
                                   !.runtime = Append(editor.runtime, Edit)]
               ELSE stored
  /\ editor' = [editor EXCEPT !.at = "idle"]
  /\ UNCHANGED <<processor, workers, session, latest, accepted, giftFaults, stimuli>>

GiftNext ==
  \/ \E g \in Gifts : Accept(g)
  \/ Ages \/ TimerFires \/ TimerStops \/ RetryRound
  \/ CloseBegins \/ CloseDrained \/ CloseExpires \/ CloseDrops \/ CloseReturns
  \/ FinalizeSession \/ NextSession
  \/ FenceLost \/ LoadActive \/ SaveState \/ SaveDefinition

\* Timers fire, goroutines run, time passes; each call of Close has a deadline of
\* its own, so one of them finds the processor drained.
GiftFairness ==
  /\ WF_giftVars(Ages) /\ WF_giftVars(TimerFires) /\ WF_giftVars(RetryRound)
  /\ SF_giftVars(CloseDrained) /\ WF_giftVars(CloseDrops) /\ WF_giftVars(CloseReturns)

GiftSpec == GiftInit /\ [][GiftNext]_giftVars /\ GiftFairness

-----------------------------------------------------------------------------
(***************************************************************************)
(* Properties                                                              *)
(***************************************************************************)
\* What the session counts, or counted before its end.
Counted == {g \in Gifts : Entry(g) \in ToSet(stored.runtime)}

\* A gift with an ID that an earlier session counted is not counted again.
CountedBefore ==
  {g \in Identified : \E n \in 1..session.id - 1 : [session |-> n, gift |-> g] \in ToSet(stored.runtime)}

\* What this session is to count.
Due == ToSet(accepted) \ CountedBefore

\* s has x, and none of y before it.
ComesFirst(s, x, y) == \E i \in DOMAIN s : s[i] = x /\ \A j \in 1..i : s[j] # y

CountedOnce ==
  \A i \in DOMAIN stored.runtime : stored.runtime[i].session = session.id =>
    /\ stored.runtime[i].gift \in Due
    /\ \A j \in DOMAIN stored.runtime \ {i} : stored.runtime[j] # stored.runtime[i]

CountedByTurn ==
  \A g, h \in Due : ComesFirst(accepted, g, h) /\ h \in Counted =>
    g \in Counted /\ ComesFirst(stored.runtime, Entry(g), Entry(h))

\* What is due and not counted waits in the buffer, in the same order.
RestWaits ==
  /\ Due \ Counted \subseteq ToSet(processor.buffer)
  /\ ToSet(processor.buffer) \subseteq ToSet(accepted)
  /\ \A g, h \in Due \ Counted : ComesFirst(accepted, g, h) => ComesFirst(processor.buffer, g, h)

\* What Accept has answered with nil is counted once and in the order it was first
\* accepted; what of it is not counted yet is still buffered, in that order, unless
\* the processor has become terminal: although commits fail, their replies are lost,
\* gifts are repeated, with and without an ID, and the state is edited meanwhile.
CountedInOrder == CountedOnce /\ CountedByTurn /\ (~processor.terminal => RestWaits)

\* No writer of the runtime state overwrites what it has not seen: neither the
\* processor, which keeps its own copy, nor an edit, nor a new configuration.
NothingIsOverwritten == [][IsPrefix(stored.runtime, stored'.runtime)]_giftVars

\* Gifts are counted in order, and stay counted.
AcceptedGiftsAreCountedInOrder == []CountedInOrder /\ NothingIsOverwritten

\* A buffered gift does not wait for ever: it is counted, refused or given up, and
\* the end of a session is not held up by it.
BufferedGiftsAreSettled ==
  /\ (processor.buffer # <<>>) ~> (processor.buffer = <<>>)
  /\ (session.at = "closing") ~> (session.at = "closed")
=============================================================================
