----------------------------- MODULE RoomSource -----------------------------
(***************************************************************************)
(* The shared connection of a room (roomsource/manager.go, reconnect.go):  *)
(* subscribers join it, one goroutine opens, supervises and reopens it,    *)
(* another one closes it when nobody is left, and the room's entry remains *)
(* as a tombstone until that has ended.  A step is a section under         *)
(* manager.mu; OpenRoom runs outside it, and a connection calls back       *)
(* whenever it likes, before OpenRoom returns and after its end.           *)
(***************************************************************************)
EXTENDS Integers, Sequences, SequencesExt, FiniteSets

CONSTANTS
  Subscribers,
  Capacity,        \* of a subscriber's channel
  MaxConnections,  \* bound of the connections
  MaxCallbacks     \* bound of the events of the gateway

ASSUME SourceAssumption ==
  /\ IsFiniteSet(Subscribers) /\ Capacity \in Nat \ {0}
  /\ MaxConnections \in Nat /\ MaxCallbacks \in Nat

VARIABLES
  source,      \* Manager.rooms: the room's roomSource
  opener,      \* its goroutine: openInitial, supervise and reconnect
  closer,      \* finishClosing
  connections, \* the connections of the gateway, in the order of OpenRoom
  subscriber,  \* of each subscriber, and its channel: connections, by number
  closing,     \* Manager.Close was called
  callbacks    \* the events that may still occur

sourceVars == <<source, opener, closer, connections, subscriber, closing, callbacks>>

Newest == Len(connections)

\* first: the connections up to that one are of the room's earlier sources.
NoSource == [closed |-> TRUE, generation |-> 0, subs |-> {}, connection |-> 0,
             ready |-> FALSE, failed |-> FALSE, first |-> 0]
NewSource(s) == [NoSource EXCEPT !.closed = FALSE, !.subs = {s}, !.first = Newest]

SourceInit ==
  /\ source = NoSource
  /\ opener = "none" /\ closer = "none"
  /\ connections = <<>>
  /\ subscriber = [s \in Subscribers |-> [at |-> "out", events |-> <<>>]]
  /\ closing = FALSE
  /\ callbacks = MaxCallbacks

Registered == source # NoSource

\* startClosingLocked
Closing(src) ==
  IF src.closed THEN src ELSE [src EXCEPT !.closed = TRUE, !.generation = @ + 1]
CloserAfter(src) == IF src.closed /\ closer = "none" THEN "waiting" ELSE closer

\* subscriber.stop: its goroutine delivers nothing more.
Stopped(S) ==
  [s \in Subscribers |-> IF s \in S /\ subscriber[s].at \in {"joining", "in"}
                         THEN [at |-> "stopped", events |-> <<>>] ELSE subscriber[s]]

-----------------------------------------------------------------------------
(***************************************************************************)
(* SubscribeCanonical, Cancel, Close                                       *)
(***************************************************************************)

\* A closed source is waited for: the subscriber joins an open one or its own.
Subscribe(s) ==
  /\ subscriber[s].at = "out" /\ ~closing
  /\ Registered => ~source.closed
  /\ IF Registered
     THEN source' = [source EXCEPT !.subs = @ \cup {s}] /\ UNCHANGED opener
     ELSE source' = NewSource(s) /\ opener' = "starting"
  /\ subscriber' = [subscriber EXCEPT ![s].at = "joining"]
  /\ UNCHANGED <<closer, connections, closing, callbacks>>

\* ready is closed: the subscription is answered, or stopped with openErr.
SubscribeReturns(s) ==
  /\ subscriber[s].at = "joining" /\ source.ready
  /\ IF source.failed
     THEN subscriber' = Stopped({s})
     ELSE subscriber' = [subscriber EXCEPT ![s].at = "in"]
  /\ UNCHANGED <<source, opener, closer, connections, closing, callbacks>>

\* Cancel, also by the end of the context of Subscribe.
CancelSubscription(s) ==
  /\ subscriber[s].at \in {"joining", "in"}
  /\ LET rest == [source EXCEPT !.subs = @ \ {s}] IN
     source' = IF rest.subs = {} THEN Closing(rest) ELSE rest
  /\ closer' = CloserAfter(source')
  /\ subscriber' = Stopped({s})
  /\ UNCHANGED <<opener, connections, closing, callbacks>>

\* The worker and the error callback have ended; the account may subscribe again.
SubscriptionEnds(s) ==
  /\ subscriber[s].at = "stopped"
  /\ subscriber' = [subscriber EXCEPT ![s].at = "out"]
  /\ UNCHANGED <<source, opener, closer, connections, closing, callbacks>>

Deliver(s) ==
  /\ subscriber[s].at \in {"joining", "in"} /\ subscriber[s].events # <<>>
  /\ subscriber' = [subscriber EXCEPT ![s].events = Tail(@)]
  /\ UNCHANGED <<source, opener, closer, connections, closing, callbacks>>

CloseManager ==
  /\ ~closing /\ closing' = TRUE
  /\ IF Registered
     THEN /\ source' = Closing([source EXCEPT !.subs = {}])
          /\ subscriber' = Stopped(source.subs)
          /\ closer' = CloserAfter(source')
     ELSE UNCHANGED <<source, subscriber, closer>>
  /\ UNCHANGED <<opener, connections, callbacks>>

-----------------------------------------------------------------------------
(***************************************************************************)
(* openInitial, supervise, reconnect                                       *)
(***************************************************************************)
CanOpen == ~source.closed /\ source.subs # {}

BeginOpen ==
  /\ source' = [source EXCEPT !.generation = @ + 1]
  /\ connections' = Append(connections,
       [state |-> "opening", generation |-> source'.generation])

\* Under way: the connection that OpenRoom is opening.
Outcome(state) == connections' = [connections EXCEPT ![Newest].state = state]
Generation == connections[Newest].generation

OpenInitial ==
  /\ opener = "starting"
  /\ IF CanOpen
     THEN Newest < MaxConnections /\ BeginOpen /\ opener' = "opening"
     ELSE /\ source' = [source EXCEPT !.ready = TRUE, !.failed = TRUE]
          /\ opener' = "done"
          /\ UNCHANGED connections
  /\ UNCHANGED <<closer, subscriber, closing, callbacks>>

\* Mutant: a connection that comes too late is forgotten.
LateIsForgotten == source

\* A connection that comes too late is kept for finishClosing.
Late == [source EXCEPT !.connection = Newest]

InitialOpens ==
  /\ opener = "opening" /\ ~source.ready
  /\ Outcome("open")
  /\ IF source.closed
     THEN source' = [Late EXCEPT !.ready = TRUE, !.failed = TRUE] /\ opener' = "done"
     ELSE source' = [source EXCEPT !.connection = Newest, !.ready = TRUE] /\ opener' = "connected"
  /\ UNCHANGED <<closer, subscriber, closing, callbacks>>

\* The attempt's generation is over: its callbacks are not of this source any more.
Superseded(src) ==
  [src EXCEPT !.generation = IF @ = Generation THEN @ + 1 ELSE @]

InitialFails ==
  /\ opener = "opening" /\ ~source.ready
  /\ Outcome("failed")
  /\ source' = [Closing(Superseded(source)) EXCEPT !.ready = TRUE, !.failed = TRUE, !.subs = {}]
  /\ subscriber' = Stopped(source.subs)
  /\ closer' = CloserAfter(source')
  /\ opener' = "done"
  /\ UNCHANGED <<closing, callbacks>>

\* The gateway reports the end of the connection.
ConnectionEnds ==
  /\ Newest > 0 /\ connections[Newest].state = "open"
  /\ Outcome("ended")
  /\ UNCHANGED <<source, opener, closer, subscriber, closing, callbacks>>

SuperviseReconnects ==
  /\ opener = "connected" /\ connections[Newest].state = "ended"
  /\ IF CanOpen
     THEN /\ source' = [source EXCEPT !.connection = 0, !.generation = @ + 1]
          /\ opener' = "backoff"
     ELSE opener' = "done" /\ UNCHANGED source
  /\ UNCHANGED <<closer, connections, subscriber, closing, callbacks>>

\* Mutant: the supervisor only waits for the end of its connection.
SuperviseIgnoresContext ==
  /\ opener = "backoff" /\ source.closed
  /\ opener' = "done"
  /\ UNCHANGED <<source, closer, connections, subscriber, closing, callbacks>>

\* The source's context is cancelled.
SuperviseStops ==
  /\ opener \in {"connected", "backoff"} /\ source.closed
  /\ opener' = "done"
  /\ UNCHANGED <<source, closer, connections, subscriber, closing, callbacks>>

\* The backoff is over and the egress is not blocked.
Reconnect ==
  /\ opener = "backoff"
  /\ IF CanOpen
     THEN Newest < MaxConnections /\ BeginOpen /\ opener' = "opening"
     ELSE opener' = "done" /\ UNCHANGED <<source, connections>>
  /\ UNCHANGED <<closer, subscriber, closing, callbacks>>

ReconnectOpens ==
  /\ opener = "opening" /\ source.ready
  /\ Outcome("open")
  /\ source' = Late
  /\ opener' = IF CanOpen /\ source.generation = Generation THEN "connected" ELSE "done"
  /\ UNCHANGED <<closer, subscriber, closing, callbacks>>

ReconnectFails ==
  /\ opener = "opening" /\ source.ready
  /\ Outcome("failed")
  /\ source' = Superseded(source)
  /\ opener' = IF source.closed THEN "done" ELSE "backoff"
  /\ UNCHANGED <<closer, subscriber, closing, callbacks>>

-----------------------------------------------------------------------------
(***************************************************************************)
(* accept, finishClosing                                                   *)
(***************************************************************************)

\* Mutant: any callback of a source that is open is taken.
AdmitsAny(c) == ~source.closed /\ c > source.first

\* Of this source, which is open, and of the generation of its last beginOpen.
Admits(c) ==
  /\ ~source.closed /\ c > source.first
  /\ source.generation = connections[c].generation

\* Event of connection c: a subscriber whose channel is full is removed.
Callback(c) ==
  /\ callbacks > 0 /\ callbacks' = callbacks - 1
  /\ IF Admits(c)
     THEN LET full == {s \in source.subs : Len(subscriber[s].events) >= Capacity}
              rest == [source EXCEPT !.subs = @ \ full]
          IN /\ source' = IF rest.subs = {} THEN Closing(rest) ELSE rest
             /\ closer' = CloserAfter(source')
             /\ subscriber' = [s \in Subscribers |->
                  IF s \in rest.subs
                  THEN [subscriber[s] EXCEPT !.events = Append(@, c)] ELSE Stopped(full)[s]]
     ELSE UNCHANGED <<source, closer, subscriber>>
  /\ UNCHANGED <<opener, connections, closing>>

\* opens.Wait and workers.Wait, then the connection is closed.
CloserCloses ==
  /\ closer = "waiting" /\ opener = "done"
  /\ closer' = "removing"
  /\ IF source.connection = 0 THEN UNCHANGED connections
     ELSE connections' = [connections EXCEPT ![source.connection].state = "closed"]
  /\ source' = [source EXCEPT !.connection = 0]
  /\ UNCHANGED <<opener, subscriber, closing, callbacks>>

\* The tombstone goes.  (A subscriber that still waits for ready has seen it.)
CloserRemoves ==
  /\ closer = "removing"
  /\ \A s \in Subscribers : subscriber[s].at # "joining"
  /\ closer' = "none" /\ opener' = "none"
  /\ source' = NoSource
  /\ UNCHANGED <<connections, subscriber, closing, callbacks>>

SourceNext ==
  \/ \E s \in Subscribers :
       \/ Subscribe(s) \/ SubscribeReturns(s) \/ CancelSubscription(s) \/ SubscriptionEnds(s) \/ Deliver(s)
  \/ CloseManager
  \/ OpenInitial \/ InitialOpens \/ InitialFails \/ ConnectionEnds
  \/ SuperviseReconnects \/ SuperviseStops \/ Reconnect \/ ReconnectOpens \/ ReconnectFails
  \/ \E c \in 1..Newest : Callback(c)
  \/ CloserCloses \/ CloserRemoves

\* Goroutines are scheduled, and OpenRoom returns.
SourceFairness ==
  /\ WF_sourceVars(OpenInitial) /\ WF_sourceVars(InitialOpens \/ InitialFails)
  /\ WF_sourceVars(SuperviseStops) /\ WF_sourceVars(ReconnectOpens \/ ReconnectFails)
  /\ WF_sourceVars(CloserCloses) /\ WF_sourceVars(CloserRemoves)
  /\ \A s \in Subscribers : WF_sourceVars(SubscribeReturns(s))

SourceSpec == SourceInit /\ [][SourceNext]_sourceVars /\ SourceFairness

-----------------------------------------------------------------------------
(***************************************************************************)
(* Properties                                                              *)
(***************************************************************************)

\* A connection that is open is the one of the room's source, so the room has at
\* most one and finishClosing finds it, however the end of the last subscription, a
\* reconnect and OpenRoom overlap; a source that has gone leaves none.
OpenConnectionsAreOwned ==
  \A c \in 1..Newest :
    connections[c].state = "open" => source.connection = c /\ (source.closed => closer # "none")

\* A room has one connection, and a subscriber is given events of the newest one only,
\* never one that the source has given up, although old connections go on calling back.
RoomsHaveOneConnection ==
  /\ []OpenConnectionsAreOwned
  /\ [][\A s \in Subscribers : Len(subscriber'[s].events) > Len(subscriber[s].events) =>
          /\ Last(subscriber'[s].events) = Newest
          /\ connections[Newest].state # "failed"
          /\ opener \in {"opening", "connected"}]_sourceVars

\* A source whose last subscriber has gone disappears, so that a new one can be
\* opened: nothing it waits for (an OpenRoom under way, the supervisor, a backoff)
\* outlives its context.
ClosedSourcesDisappear == (Registered /\ source.closed) ~> ~Registered
=============================================================================
