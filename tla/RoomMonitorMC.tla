--------------------------- MODULE RoomMonitorMC ---------------------------
(***************************************************************************)
(* RoomMonitor for TLC.                                                    *)
(***************************************************************************)
EXTENDS RoomMonitor, TLC

CONSTANTS u1, u2

Refs(r, accounts) == [kind |-> "refs", room |-> r, accounts |-> accounts]
Live(r) ==
  [kind |-> "state", room |-> r, from |-> "offline", to |-> "live", epoch |-> 2, new |-> TRUE]

\* The process crashed after it had stored its first references, u1 in room 1 and
\* u2 in room 2, and had recorded room 1 live, and while it was down the two accounts
\* swapped their rooms, or u2 was disabled; or it crashed when u2 had come from room 1,
\* or had left its room for a while (states RoomSpec reaches; the run starts here to see
\* the longer histories).
MCCrashed ==
  /\ \/ /\ outbox = <<Refs(1, {u1}), Refs(2, {u2}), Live(1)>>
        /\ references = <<{u1}, {u2}>>
        /\ enabled \in {u1 :> 2 @@ u2 :> 1, u1 :> 1 @@ u2 :> NoRoom}
        /\ left = [faults |-> 0, changes |-> MaxChanges - 1]
     \/ /\ outbox = <<Refs(1, {u1, u2}), Refs(1, {u1}), Refs(2, {u2}), Live(1)>>
        /\ references = <<{u1}, {u2}>>
        /\ enabled = (u1 :> 1 @@ u2 :> 2)
        /\ left = [faults |-> MaxFaults, changes |-> MaxChanges - MaxFaults]
     \/ /\ outbox = <<Refs(1, {u1}), Refs(2, {u2}), Live(1), Refs(2, {})>>
        /\ references = <<{u1}, {}>>
        /\ enabled = (u1 :> 1 @@ u2 :> 2)
        /\ left = [faults |-> MaxFaults, changes |-> 0]
  /\ row = <<[state |-> "live", epoch |-> 2, broadcast |-> 1],
            [state |-> "offline", epoch |-> 1, broadcast |-> 0]>>
  /\ broadcast = <<[last |-> 1, open |-> TRUE], [last |-> 0, open |-> FALSE]>>
  /\ watcher = [r \in Rooms |-> "none"]
  /\ elapsed = {}
  /\ poll = [t \in Threads |-> IdlePoll]
  /\ refresh = IdleRefresh
  /\ wake = FALSE /\ announced = {}
  /\ consumer = Waiting /\ cursor = 0
  /\ projection = [r \in Rooms |-> Unprojected]
  /\ up = FALSE
MCSpec == MCCrashed /\ [][RoomNext]_vars
=============================================================================
