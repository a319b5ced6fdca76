---------------------------- MODULE RoomMonitor ----------------------------
(***************************************************************************)
(* The room watcher (roomwatcher/manager.go, poll.go, state.go), its       *)
(* tables and outbox (roomwatcher/repository.go), the loops that drive it  *)
(* (RoomRuntime in app/app.go), and the room-level half of the runtime     *)
(* manager that applies the outbox (runtime/manager.go).                   *)
(*                                                                         *)
(* Two threads probe rooms: the cadence poll and SetReferences, which      *)
(* polls the rooms it has just added.  A third one replays the outbox.  A  *)
(* step is one transaction or one section under manager.mu; a probe runs   *)
(* outside that lock.  Any transaction may fail, and its COMMIT may succeed*)
(* without the caller learning it.                                         *)
(***************************************************************************)
EXTENDS Integers, Sequences, FiniteSets

CONSTANTS
  Rooms,        \* room numbers
  People,       \* accounts
  NoRoom,       \* the room of an account that is disabled or has none
  MaxSequence,  \* bound of the outbox
  MaxFaults,    \* bound of the faults: probes, transactions, callers, crashes
  MaxChanges    \* bound of the changes of accounts

ASSUME RoomAssumption ==
  /\ Rooms \subseteq Nat \ {0} /\ IsFiniteSet(Rooms)
  /\ NoRoom \notin Rooms
  /\ MaxSequence \in Nat /\ MaxFaults \in Nat /\ MaxChanges \in Nat

VARIABLES
  enabled,    \* streamer_accounts JOIN account_runtime_rooms
  references, \* room_monitor_references, by room
  row,        \* room_monitor_states
  broadcast,  \* broadcast_sessions: the room's last one, and is it open
  outbox,     \* room_monitor_transitions, by sequence
  watcher,    \* Manager.watchers: the state of each machine
  elapsed,    \* rooms whose grace_until has passed
  poll,       \* the poll of each probing thread
  refresh,    \* RefreshReferences and SetReferences
  wake,       \* a notification is buffered in Manager.events
  announced,  \* history: the sequences notified
  consumer,   \* RoomRuntime.consumeLoop
  cursor,     \* RoomRuntime.cursor and runtime Manager.lastSequence
  projection, \* runtime Manager.roomTransitions
  up,         \* the process runs
  left        \* the faults and changes that may still occur

tables == <<references, row, broadcast, outbox>>
watching == <<watcher, elapsed>>
notified == <<wake, announced>>
consuming == <<consumer, cursor, projection>>
vars == <<enabled, tables, watching, poll, refresh, notified, consuming, up, left>>

States == {"offline", "live", "grace"}
Threads == {"cadence", "added"}

IdlePoll == [at |-> "idle", todo |-> {}, room |-> 0, held |-> FALSE,
             result |-> {}, began |-> 0]
IdleRefresh == [at |-> "idle", refs |-> [r \in Rooms |-> {}], added |-> {}]
Waiting == [at |-> "waiting", upto |-> 0, resolved |-> FALSE]
Unprojected == [state |-> "offline", epoch |-> 0, broadcast |-> 0,
                accounts |-> {}, active |-> {}]

\* What LoadEnabledRoomReferences reads, by room.
EnabledReferences == [r \in Rooms |-> {p \in People : enabled[p] = r}]

Watched == {r \in Rooms : watcher[r] # "none"}
Sequence == Len(outbox)

RoomInit ==
  /\ enabled \in [People -> Rooms \cup {NoRoom}]
  /\ references = [r \in Rooms |-> {}]
  /\ row = [r \in Rooms |-> [state |-> "offline", epoch |-> 1, broadcast |-> 0]]
  /\ broadcast = [r \in Rooms |-> [last |-> 0, open |-> FALSE]]
  /\ outbox = <<>>
  /\ watcher = [r \in Rooms |-> "none"]
  /\ elapsed = {}
  /\ poll = [t \in Threads |-> IdlePoll]
  /\ refresh = IdleRefresh
  /\ wake = FALSE /\ announced = {}
  /\ consumer = Waiting /\ cursor = 0
  /\ projection = [r \in Rooms |-> Unprojected]
  /\ up = TRUE
  /\ left = [faults |-> MaxFaults, changes |-> MaxChanges]

Fault == left.faults > 0 /\ left' = [left EXCEPT !.faults = @ - 1]

-----------------------------------------------------------------------------
(***************************************************************************)
(* Transactions on the tables.                                             *)
(***************************************************************************)

\* "fails": rolled back.  "lost": committed, but the caller gets an error.
Answers == {"ok", "fails", "lost"}

\* Mutant: the stored state is not compared.
RecordableFromAny(r, from, to) ==
  CASE to = "offline" -> from # "offline" [] OTHER -> TRUE

\* recordTransition accepts the boundary: the stored state is its From, and
\* uq_broadcast_sessions_open_room allows one open broadcast.
Recordable(r, from, to) ==
  /\ row[r].state = from
  /\ CASE to = "live" -> (from = "offline" /\ ~broadcast[r].open) \/ from = "grace"
       [] to = "grace" -> from = "live"
       [] to = "offline" -> from # "offline" /\ broadcast[r].open
       [] OTHER -> FALSE

NewRow(r, from, to) ==
  [state |-> to, epoch |-> row[r].epoch + 1,
   broadcast |-> CASE to = "offline" -> 0
                   [] from = "offline" -> broadcast[r].last + 1
                   [] OTHER -> row[r].broadcast]

NewBroadcast(r, from, to) ==
  CASE to = "offline" -> [broadcast[r] EXCEPT !.open = FALSE]
    [] from = "offline" -> [last |-> broadcast[r].last + 1, open |-> TRUE]
    [] OTHER -> broadcast[r]

StateEvent(r, from, to) ==
  [kind |-> "state", room |-> r, from |-> from, to |-> to,
   epoch |-> row[r].epoch + 1, new |-> from = "offline"]

\* RecordTransition: the row, the broadcast and the outbox in one transaction.
RecordTransition(r, from, to) ==
  /\ Sequence < MaxSequence
  /\ row' = [row EXCEPT ![r] = NewRow(r, from, to)]
  /\ broadcast' = [broadcast EXCEPT ![r] = NewBroadcast(r, from, to)]
  /\ outbox' = Append(outbox, StateEvent(r, from, to))
  /\ UNCHANGED references

\* changedReferenceSnapshots: rooms that lose an account before the others.
Changed(refs) == {r \in Rooms : refs[r] # references[r]}
Losing(refs) == {r \in Rooms : references[r] \ refs[r] # {}}

\* A set of rooms, by their numbers.
InOrder(S) == {order \in [1..Cardinality(S) -> S] :
                 \A i, j \in 1..Cardinality(S) : i < j => order[i] < order[j]}

Snapshots(refs, order) ==
  [i \in DOMAIN order |-> [kind |-> "refs", room |-> order[i], accounts |-> refs[order[i]]]]
Closings(order) == [i \in DOMAIN order |-> StateEvent(order[i], watcher[order[i]], "offline")]

ReferenceEvents(refs, losing, others, closing) ==
  Snapshots(refs, losing) \o Snapshots(refs, others) \o Closings(closing)

\* SyncReferences: the snapshot and the terminal transitions of the rooms that
\* nobody refers to any more.
SyncReferences(refs, terminal) ==
  /\ references' = refs
  /\ row' = [r \in Rooms |-> IF r \in terminal THEN NewRow(r, watcher[r], "offline") ELSE row[r]]
  /\ broadcast' = [r \in Rooms |-> IF r \in terminal THEN [broadcast[r] EXCEPT !.open = FALSE]
                                   ELSE broadcast[r]]
  /\ \E losing \in InOrder(Losing(refs)), others \in InOrder(Changed(refs) \ Losing(refs)),
        closing \in InOrder(terminal) :
       outbox' = outbox \o ReferenceEvents(refs, losing, others, closing)
  /\ Len(outbox') <= MaxSequence

\* notifyLocked: a full buffer already carries a wake-up.
Notify ==
  IF outbox' = outbox THEN UNCHANGED notified
  ELSE wake' = TRUE /\ announced' = announced \cup Sequence + 1 .. Len(outbox')

-----------------------------------------------------------------------------
(***************************************************************************)
(* Manager.poll                                                            *)
(***************************************************************************)

Polling(t) == poll[t].at \in {"next", "probing", "second"}
\* manager.mu is held between the two transitions of one observation.
Unlocked == up /\ \A t \in Threads : poll[t].at # "second"

Selected(t) == IF t = "added" THEN refresh.added ELSE Watched

\* The rooms one poll probes are those watched when it begins.  nextRoom and
\* pollRemaining, which rotate through them within the probe budget, are
\* abstracted: a poll takes its rooms in any order and may return before the last.
PollBegins(t) ==
  /\ Unlocked /\ \A u \in Threads : ~Polling(u)
  /\ poll[t].at = "idle" /\ (t = "added" => refresh.at = "polling")
  /\ poll' = [poll EXCEPT ![t].at = "next", ![t].todo = Watched \cap Selected(t)]
  /\ UNCHANGED <<enabled, tables, watching, refresh, notified, consuming, up, left>>

\* SetReferences takes back the rooms it added when their first poll fails.
Fails(t, result) ==
  t = "added" /\ result # {} /\ result \cap {"budget", "cancelled"} = {}

PollEnds(t, result) ==
  /\ poll' = [poll EXCEPT ![t] = IdlePoll]
  /\ refresh' = IF Fails(t, result) THEN [refresh EXCEPT !.at = "failed"]
                ELSE IF t = "added" THEN IdleRefresh ELSE refresh

PollReturns(t) ==
  /\ Unlocked /\ poll[t].at = "next"
  /\ PollEnds(t, poll[t].result)
  /\ UNCHANGED <<enabled, tables, watching, notified, consuming, up, left>>

\* The caller's context ends, between two rooms or before the poll's turn.
PollCancelled(t) ==
  /\ Fault /\ Unlocked
  /\ \/ poll[t].at = "next" /\ poll[t].todo # {}
     \/ t = "added" /\ refresh.at = "polling" /\ poll[t].at = "idle"
  /\ PollEnds(t, poll[t].result \cup {"cancelled"})
  /\ UNCHANGED <<enabled, tables, watching, notified, consuming, up>>

\* Mutant of StillReferenced: the watcher is looked up by the room alone.
SomeWatcher(t) == watcher[poll[t].room] # "none"

\* The room still has the watcher that the probe was begun for.
StillReferenced(t) == poll[t].held

\* The loop goes on with the next room.
Onward(t, result) ==
  poll' = [poll EXCEPT ![t] = [at |-> "next", todo |-> poll[t].todo, room |-> 0, held |-> FALSE,
                               result |-> poll[t].result \cup result, began |-> 0]]

\* The watcher's pointer is read; a room that has gone is passed over.
ProbeBegins(t, r) ==
  /\ Unlocked /\ poll[t].at = "next" /\ r \in poll[t].todo
  /\ poll' = [poll EXCEPT ![t].todo = @ \ {r},
       ![t].at = IF r \in Watched \cap Selected(t) THEN "probing" ELSE "next",
       ![t].room = IF r \in Watched \cap Selected(t) THEN r ELSE 0,
       ![t].held = r \in Watched \cap Selected(t),
       ![t].began = IF r \in Watched \cap Selected(t) THEN Sequence ELSE 0]
  /\ UNCHANGED <<enabled, tables, watching, refresh, notified, consuming, up, left>>

\* The probe answers for a watcher that is no longer the room's.
ProbeIsStale(t) ==
  /\ Unlocked /\ poll[t].at = "probing" /\ ~StillReferenced(t)
  /\ Onward(t, {})
  /\ UNCHANGED <<enabled, tables, watching, refresh, notified, consuming, up, left>>

ProbeFails(t) ==
  /\ Fault
  /\ Unlocked /\ poll[t].at = "probing" /\ StillReferenced(t)
  /\ Onward(t, {"error"})
  /\ UNCHANGED <<enabled, tables, watching, refresh, notified, consuming, up>>

\* ErrProbeBudgetExhausted: the poll stops; what it has done stays.
ProbeExhausted(t) ==
  /\ Unlocked /\ poll[t].at = "probing" /\ StillReferenced(t)
  /\ PollEnds(t, poll[t].result \cup {"budget"})
  /\ UNCHANGED <<enabled, tables, watching, notified, consuming, up, left>>

\* Mutant: a late live answer continues the broadcast whose grace is over.
BoundaryResumes(r, observed) ==
  CASE watcher[r] = "grace" /\ observed = "live" -> "live"
    [] watcher[r] = "grace" /\ r \in elapsed /\ observed # "live" -> "offline"
    [] watcher[r] = "offline" /\ observed = "live" -> "live"
    [] watcher[r] = "live" /\ observed = "offline" -> "grace"
    [] OTHER -> "none"

\* StateMachine.Observe: the transition the machine makes first, and whether
\* another one follows it (a live answer after the grace period is over).
Boundary(r, observed) ==
  CASE watcher[r] = "grace" /\ r \in elapsed -> "offline"
    [] watcher[r] = "grace" /\ r \notin elapsed /\ observed = "live" -> "live"
    [] watcher[r] = "offline" /\ observed = "live" -> "live"
    [] watcher[r] = "live" /\ observed = "offline" -> "grace"
    [] OTHER -> "none"

\* persistLocked and applyDurableTransition: the machine moves only when the
\* repository has answered.
Persist(t, r, to, second) ==
  \E answer \in Answers \cup {"conflict"} :
    /\ answer # "conflict" <=> Recordable(r, watcher[r], to)
    /\ IF answer \in {"fails", "lost"} THEN Fault ELSE UNCHANGED left
    /\ IF answer \in {"ok", "lost"}
       THEN RecordTransition(r, watcher[r], to)
       ELSE UNCHANGED tables
    /\ elapsed' = IF answer \in {"ok", "lost"} /\ to = "grace" THEN elapsed \ {r} ELSE elapsed
    /\ IF answer = "ok"
       THEN Notify /\ watcher' = [watcher EXCEPT ![r] = to]
       ELSE UNCHANGED <<notified, watcher>>
    /\ IF answer = "ok" /\ second
       THEN poll' = [poll EXCEPT ![t].at = "second"]
       ELSE Onward(t, IF answer = "ok" THEN {} ELSE {"error"})

ProbeAnswers(t, observed) ==
  LET r == poll[t].room
      to == Boundary(r, observed)
  IN /\ Unlocked /\ poll[t].at = "probing" /\ StillReferenced(t)
     /\ IF to = "none"
        THEN Onward(t, {}) /\ UNCHANGED <<tables, watcher, elapsed, notified, left>>
        ELSE Persist(t, r, to, to = "offline" /\ observed = "live")
     /\ UNCHANGED <<enabled, refresh, consuming, up>>

\* The second transition of the same observation.
ProbeOpens(t) ==
  /\ up /\ poll[t].at = "second"
  /\ Persist(t, poll[t].room, "live", FALSE)
  /\ UNCHANGED <<enabled, refresh, consuming, up>>

-----------------------------------------------------------------------------
(***************************************************************************)
(* RoomRuntime.RefreshReferences and Manager.SetReferences.  referenceMu   *)
(* lets one refresh run at a time; the references it has read may be old   *)
(* when SetReferences gets manager.mu.                                     *)
(***************************************************************************)
Load ==
  /\ up /\ refresh.at = "idle"
  /\ refresh' = [refresh EXCEPT !.at = "loaded", !.refs = EnabledReferences]
  /\ UNCHANGED <<enabled, tables, watching, poll, notified, consuming, up, left>>

Removed == {r \in Watched : refresh.refs[r] = {}}
Terminal == {r \in Removed : watcher[r] # "offline"}
Added == {r \in Rooms \ Watched : refresh.refs[r] # {}}

\* The machines after the snapshot is stored; a new room starts offline.
Rewatched == [r \in Rooms |-> IF r \in Removed THEN "none"
                              ELSE IF r \in Added THEN "offline" ELSE watcher[r]]

\* Who polls notices that its watcher is gone.
Outdated(gone) == [t \in Threads |-> [poll[t] EXCEPT !.held = @ /\ poll[t].room \notin gone]]

SetReferences ==
  /\ Unlocked /\ refresh.at = "loaded"
  /\ \A r \in Terminal : Recordable(r, watcher[r], "offline")
  /\ SyncReferences(refresh.refs, Terminal)
  /\ Notify
  /\ watcher' = Rewatched
  /\ poll' = Outdated(Removed)
  /\ refresh' = IF Added = {} THEN IdleRefresh
                ELSE [refresh EXCEPT !.at = "polling", !.added = Added]
  /\ UNCHANGED <<enabled, elapsed, consuming, up, left>>

\* SyncReferences answers with an error: nothing changes in memory.
SetReferencesFails ==
  /\ Unlocked /\ refresh.at = "loaded"
  /\ \/ /\ \/ Fault
           \/ (\E r \in Terminal : ~Recordable(r, watcher[r], "offline")) /\ UNCHANGED left
        /\ UNCHANGED tables
     \/ /\ Fault
        /\ \A r \in Terminal : Recordable(r, watcher[r], "offline")
        /\ SyncReferences(refresh.refs, Terminal)
  /\ refresh' = IdleRefresh
  /\ UNCHANGED <<enabled, watching, poll, notified, consuming, up>>

\* The first poll of the added rooms failed: they are removed again, also those
\* that a poll has recorded as live.
TakeBack ==
  /\ Unlocked /\ refresh.at = "failed"
  /\ watcher' = [r \in Rooms |-> IF r \in refresh.added THEN "none" ELSE watcher[r]]
  /\ poll' = Outdated(refresh.added)
  /\ refresh' = IdleRefresh
  /\ UNCHANGED <<enabled, tables, elapsed, notified, consuming, up, left>>

-----------------------------------------------------------------------------
(***************************************************************************)
(* RoomRuntime.consumeLoop and replay, Manager.ApplyRoomEvent              *)
(***************************************************************************)
Wake ==
  /\ up /\ consumer.at = "waiting" /\ wake
  /\ wake' = FALSE
  /\ consumer' = [consumer EXCEPT !.at = "reading"]
  /\ UNCHANGED <<enabled, tables, watching, poll, refresh, announced, cursor, projection, up, left>>

\* ReplayEvents, at first or again after an event could not be applied.
Replay ==
  /\ up /\ consumer.at \in {"reading", "applying"}
  /\ consumer' = [at |-> "applying", upto |-> Sequence, resolved |-> FALSE]
  /\ UNCHANGED <<enabled, tables, watching, poll, refresh, notified, cursor, projection, up, left>>

\* Mutant: what was announced meanwhile is taken for replayed.
ReplayEndsDeaf ==
  /\ up /\ consumer.at = "applying" /\ cursor = consumer.upto
  /\ consumer' = Waiting
  /\ wake' = FALSE
  /\ UNCHANGED <<enabled, tables, watching, poll, refresh, announced, cursor, projection, up, left>>

ReplayEnds ==
  /\ up /\ consumer.at = "applying" /\ cursor = consumer.upto
  /\ consumer' = Waiting
  /\ UNCHANGED <<enabled, tables, watching, poll, refresh, notified, cursor, projection, up, left>>

Applying == up /\ consumer.at = "applying" /\ cursor < consumer.upto
Event == outbox[cursor + 1]

\* applyRoomStateChanged: a live event finds the broadcast that is open now.
Unresolved ==
  /\ Event.kind = "state" /\ Event.to = "live" /\ ~consumer.resolved
  /\ Event.from = "offline" \/ projection[Event.room].broadcast = 0

OpenBroadcastSession ==
  /\ Applying /\ Unresolved
  /\ broadcast[Event.room].open
  /\ projection' = [projection EXCEPT ![Event.room].broadcast = broadcast[Event.room].last]
  /\ consumer' = [consumer EXCEPT !.resolved = TRUE]
  /\ UNCHANGED <<enabled, tables, watching, poll, refresh, notified, cursor, up, left>>

\* The accounts the event stops, and those it starts once they have stopped.
ToStop ==
  LET p == projection[Event.room] IN
  CASE Event.kind = "refs" -> p.active \ Event.accounts
    [] Event.kind = "state" /\ Event.to = "offline" -> p.active
    [] OTHER -> {}

ToStart ==
  LET p == projection[Event.room] IN
  CASE Event.kind = "refs" -> IF p.state = "live" THEN Event.accounts \ p.active ELSE {}
    [] Event.kind = "state" /\ Event.to = "live" -> p.accounts \ p.active
    [] OTHER -> {}

StopAccount(a) ==
  /\ Applying /\ a \in ToStop
  /\ projection' = [projection EXCEPT ![Event.room].active = @ \ {a}]
  /\ UNCHANGED <<enabled, tables, watching, poll, refresh, notified, consumer, cursor, up, left>>

\* Mutant: the other rooms keep the account.
KeptElsewhere(a) == {}

\* The other rooms that run an account.
Elsewhere(a) == {r \in Rooms \ {Event.room} : a \in projection[r].active}

Starting(a) == Applying /\ ToStop = {} /\ ~Unresolved /\ a \in ToStart

\* stopTransitionAccountInOtherRooms: each other room loses the account, and stays
\* without it when what follows fails: the event is then applied again (Replay).
LeaveRoom(a, r) ==
  /\ Starting(a) /\ r \in Elsewhere(a)
  /\ projection' = [projection EXCEPT ![r].active = @ \ {a}, ![r].accounts = @ \ {a}]
  /\ UNCHANGED <<enabled, tables, watching, poll, refresh, notified, consumer, cursor, up, left>>

\* startTransitionAccount answers without an error.  When it fails, the projection
\* has not changed: what it may leave of the account is AccountRuntime's.
StartAccount(a) ==
  /\ Starting(a) /\ Elsewhere(a) = {}
  /\ projection' = [projection EXCEPT ![Event.room].active = @ \cup {a}]
  /\ UNCHANGED <<enabled, tables, watching, poll, refresh, notified, consumer, cursor, up, left>>

Projected ==
  LET p == projection[Event.room] IN
  IF Event.kind = "refs" THEN [p EXCEPT !.accounts = Event.accounts]
  ELSE [p EXCEPT !.state = Event.to, !.epoch = Event.epoch,
                 !.broadcast = IF Event.to = "offline" THEN 0 ELSE @]

\* recordApplied.
PassesEvent ==
  /\ cursor' = cursor + 1
  /\ consumer' = [consumer EXCEPT !.resolved = FALSE]

\* Everything is done: lastSequence and the cursor pass the event.
ApplyRoomEvent ==
  /\ Applying /\ ~Unresolved /\ ToStop = {} /\ ToStart = {}
  /\ Event.kind = "state" => Event.epoch > projection[Event.room].epoch
  /\ projection' = [projection EXCEPT ![Event.room] = Projected]
  /\ PassesEvent
  /\ UNCHANGED <<enabled, tables, watching, poll, refresh, notified, up, left>>

-----------------------------------------------------------------------------
(***************************************************************************)
(* The process stops and starts, accounts change, time passes.             *)
(***************************************************************************)
Crash ==
  /\ Fault /\ up
  /\ up' = FALSE
  /\ watcher' = [r \in Rooms |-> "none"]
  /\ poll' = [t \in Threads |-> IdlePoll]
  /\ refresh' = IdleRefresh
  /\ wake' = FALSE /\ announced' = {}
  /\ consumer' = Waiting /\ cursor' = 0
  /\ projection' = [r \in Rooms |-> Unprojected]
  /\ UNCHANGED <<enabled, tables, elapsed>>

\* LoadBootstrap: one snapshot of the tail, the rooms and their references.
Bootstrapped == {r \in Rooms : references[r] # {} \/ row[r].state # "offline"}

\* validWatcherBootstrap refuses a room without references.
Loadable == \A r \in Bootstrapped : references[r] # {}

\* StartRoomRuntime up to its first Poll: BootstrapRoomProjection and
\* RestoreBootstrap from the snapshot, and the cursor behind it.
StartRoomRuntime ==
  /\ ~up /\ Loadable
  /\ up' = TRUE
  /\ projection' = [r \in Rooms |->
       IF r \notin Bootstrapped THEN Unprojected
       ELSE [state |-> row[r].state, epoch |-> row[r].epoch, broadcast |-> row[r].broadcast,
             accounts |-> references[r],
             active |-> IF row[r].state = "live" THEN references[r] ELSE {}]]
  /\ watcher' = [r \in Rooms |-> IF r \in Bootstrapped THEN row[r].state ELSE "none"]
  /\ cursor' = Sequence
  /\ UNCHANGED <<enabled, tables, elapsed, poll, refresh, notified, consumer, left>>

\* An administrator disables or enables an account, or its room changes.
Rebind(p, r) ==
  /\ enabled[p] # r
  /\ left.changes > 0 /\ left' = [left EXCEPT !.changes = @ - 1]
  /\ enabled' = [enabled EXCEPT ![p] = r]
  /\ UNCHANGED <<tables, watching, poll, refresh, notified, consuming, up>>

GraceElapses(r) ==
  /\ row[r].state = "grace" /\ r \notin elapsed
  /\ elapsed' = elapsed \cup {r}
  /\ UNCHANGED <<enabled, tables, watcher, poll, refresh, notified, consuming, up, left>>

RoomNext ==
  \/ \E t \in Threads : PollBegins(t) \/ PollReturns(t) \/ PollCancelled(t)
  \/ \E t \in Threads : (\E r \in Rooms : ProbeBegins(t, r)) \/ ProbeIsStale(t) \/ ProbeFails(t) \/ ProbeExhausted(t)
  \/ \E t \in Threads, o \in {"live", "offline"} : ProbeAnswers(t, o)
  \/ \E t \in Threads : ProbeOpens(t)
  \/ Load \/ SetReferences \/ SetReferencesFails \/ TakeBack
  \/ Wake \/ Replay \/ ReplayEnds \/ OpenBroadcastSession \/ ApplyRoomEvent
  \/ \E a \in People : StopAccount(a) \/ (\E r \in Rooms : LeaveRoom(a, r)) \/ StartAccount(a)
  \/ Crash \/ StartRoomRuntime
  \/ \E p \in People, r \in Rooms \cup {NoRoom} : Rebind(p, r)
  \/ \E r \in Rooms : GraceElapses(r)

RoomSpec == RoomInit /\ [][RoomNext]_vars

-----------------------------------------------------------------------------
(***************************************************************************)
(* Properties                                                              *)
(***************************************************************************)
Events ==
  [kind : {"state"}, room : Rooms, from : States, to : States, epoch : Nat, new : BOOLEAN]
  \cup [kind : {"refs"}, room : Rooms, accounts : SUBSET People]

\* The variables have their types; a room's row names a broadcast while it is
\* live or in grace and at no other time (the shape LoadBootstrap checks).
RoomsTypeOK ==
  /\ enabled \in [People -> Rooms \cup {NoRoom}]
  /\ references \in [Rooms -> SUBSET People]
  /\ row \in [Rooms -> [state : States, epoch : Nat, broadcast : Nat]]
  /\ \A r \in Rooms : row[r].state = "offline" <=> row[r].broadcast = 0
  /\ broadcast \in [Rooms -> [last : Nat, open : BOOLEAN]]
  /\ outbox \in Seq(Events)
  /\ watcher \in [Rooms -> States \cup {"none"}]
  /\ elapsed \subseteq Rooms
  /\ poll \in [Threads -> [at : {"idle", "next", "probing", "second"},
                           todo : SUBSET Rooms, room : Rooms \cup {0},
                           held : BOOLEAN, began : Nat,
                           result : SUBSET {"error", "budget", "cancelled"}]]
  /\ refresh \in [at : {"idle", "loaded", "polling", "failed"},
                  refs : [Rooms -> SUBSET People], added : SUBSET Rooms]
  /\ left \in [faults : Nat, changes : Nat]
  /\ wake \in BOOLEAN /\ announced \subseteq 1..Sequence /\ cursor \in Nat /\ up \in BOOLEAN
  /\ consumer \in [at : {"waiting", "reading", "applying"}, upto : Nat, resolved : BOOLEAN]
  /\ projection \in [Rooms -> [state : States, epoch : Nat, broadcast : Nat,
                               accounts : SUBSET People, active : SUBSET People]]

\* What the first n events say of a room.
Said(r, kind, n) == {i \in 1..n : outbox[i].kind = kind /\ outbox[i].room = r}
Latest(S) == CHOOSE i \in S : \A j \in S : j <= i
StateAt(r, n) == LET S == Said(r, "state", n) IN
  IF S = {} THEN "offline" ELSE outbox[Latest(S)].to
EpochAt(r, n) == 1 + Cardinality(Said(r, "state", n))
AccountsAt(r, n) == LET S == Said(r, "refs", n) IN
  IF S = {} THEN {} ELSE outbox[Latest(S)].accounts

\* The outbox alone tells what the tables hold: each transition starts from the
\* state and the epoch the one before it left, the last one is the row's, every
\* broadcast has one event that opens it, and one is open exactly while the room is
\* live or in grace.  Commits whose reply was lost, watchers that have fallen
\* behind their row and terminal transitions of SyncReferences included.
OutboxTellsTheRooms ==
  /\ \A i \in 1..Sequence : outbox[i].kind = "state" =>
       /\ outbox[i].from = StateAt(outbox[i].room, i - 1)
       /\ outbox[i].epoch = EpochAt(outbox[i].room, i)
  /\ \A r \in Rooms :
       /\ row[r].state = StateAt(r, Sequence) /\ row[r].epoch = EpochAt(r, Sequence)
       /\ references[r] = AccountsAt(r, Sequence)
       /\ broadcast[r].open <=> row[r].state # "offline"
       /\ broadcast[r].last = Cardinality({i \in Said(r, "state", Sequence) : outbox[i].new})

\* The consumer's projection is what the outbox says up to its cursor, whether it
\* got there event by event or from a bootstrap snapshot in the middle of the
\* stream; an account runs in at most one room, and a room knows every account of
\* its last snapshot but those that already run in another one or that the event
\* under way is moving there (they have left the room also when the start failed).
ProjectionFollowsTheOutbox ==
  up => \A r \in Rooms : LET p == projection[r] IN
    /\ p.state = StateAt(r, cursor)
    /\ p.epoch # 0 => p.epoch = EpochAt(r, cursor)
    /\ p.accounts \subseteq AccountsAt(r, cursor)
    /\ \A a \in AccountsAt(r, cursor) \ p.accounts :
         \/ \E s \in Rooms \ {r} : a \in projection[s].active
         \/ Applying /\ Event.room # r /\ a \in ToStart
    /\ \A s \in Rooms \ {r} : p.active \cap projection[s].active = {}
    /\ consumer.at = "waiting" =>
         p.active = CASE p.state = "live" -> p.accounts
                      [] p.state = "offline" -> {}
                      [] OTHER -> p.active \cap p.accounts

\* notifyLocked drops a wake-up when one is buffered, and the consumer takes it
\* before it reads: whenever the consumer rests, every event that was announced
\* has been applied or a wake-up is waiting for it.
CoalescedWakeUpsLoseNothing ==
  up /\ consumer.at = "waiting" /\ ~wake => \A i \in announced : i <= cursor

\* A room goes live or into grace only on an observation that was begun after the
\* room was last removed: a probe that was under way while the room was removed
\* and added again changes nothing.  (A removal whose COMMIT reply was lost does
\* not count: the watcher has not learnt of it.)
ObservationsAreOfThisReference ==
  [][\A i \in Sequence + 1 .. Len(outbox') :
       outbox'[i].kind = "state" /\ outbox'[i].to # "offline" =>
         \E t \in Threads :
           /\ poll[t].at \in {"probing", "second"}
           /\ \A j \in announced : j > poll[t].began =>
                ~(outbox[j].kind = "refs" /\ outbox[j].room = outbox'[i].room
                  /\ outbox[j].accounts = {})]_vars

\* A broadcast whose grace period is over is not continued: whatever is recorded
\* of the room next ends it, also when a late answer says live.
ExpiredGraceEndsTheBroadcast ==
  [][\A r \in elapsed : row[r].state = "grace" /\ row'[r] # row[r]
       => row'[r].state = "offline"]_vars

\* repository.go:43: when the last reference of a room disappears, its terminal
\* event is part of the same transaction, so a room without references is offline.
UnreferencedRoomsAreOffline ==
  \A r \in Rooms : references[r] = {} => row[r].state = "offline"
=============================================================================
