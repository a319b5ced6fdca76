------------------------------ MODULE PanelRuntime ------------------------------
(***************************************************************************)
(* The background runtime of the local program: the loop that keeps a      *)
(* connection to the configured room (background_runtime.go), the          *)
(* supervisor that reconnects it (connection_supervisor.go), its source   *)
(* (bilibili_source.go) and the consumer of the gift inbox, which brings   *)
(* the animation of a gift, a message of its own, to the gift's receipt.   *)
(*                                                                         *)
(* The state file and the file of the pending animations are written one   *)
(* after the other: the program can die between them, and either write can *)
(* fail.  A save of the state may also be published and yet answered with  *)
(* an error: the next one to read the state finds it done.  How a journal  *)
(* and the inbox themselves survive a crash is GiftLedger.                 *)
(* The gaps and the phases of the connection are only shown, and left out. *)
(***************************************************************************)
EXTENDS Integers, Sequences, FiniteSets

CONSTANTS
  Rooms,      \* the rooms that may be configured
  NoRoom,     \* not a room
  Presents,      \* gifts that are sent once, each with an animation of its own
  RoomOf,     \* the room of a gift
  MaxTroubles \* bound of what happens to it: changes of the configured room, crashes, failing
              \* reads and writes, and failing connections

ASSUME RuntimeAssumption ==
  NoRoom \notin Rooms /\ RoomOf \in [Presents -> Rooms] /\ MaxTroubles \in Nat

VARIABLES
  room,      \* state.RoomID, as reads of the state answer it
  published, \* the room of a save that was published but answered with an error
  blocked,   \* mutationBlockKind: no, again (the next read tries again) or restart
  announcing, \* the handlers that have saved another room and not yet notified it
  reload,    \* the channel of NotifyConfigChanged
  loop,      \* runConnectionLoop: at, and its room; off while the program is not running
  feed,    \* the source that the supervisor runs
  status,    \* the room that Status reports
  prepared,  \* preparedRoomId of the animations file
  waiting,   \* the animations in that file
  mutex,     \* the holder of animationMu
  sent,      \* the messages that the room sent
  inbox,     \* the gift inbox, durable
  consumer,  \* at, and what it has read of the state and the file
  applied,   \* the ingestions that a transaction of the state has applied
  receipts,  \* of each gift: none, plain or animated
  settled,   \* history: the preparation in which a message was settled; 0 without one, when the
             \* room had changed before it was acknowledged, or the receipts were emptied since
  silent,    \* history: the room has changed without a notification, and was not read since
  epoch,     \* history: the preparations so far
  troubles

settings == <<room, published, blocked, announcing, silent>>
connection == <<reload, loop, feed, status>>
ledger == <<inbox, consumer, applied, receipts, settled>>
panelVars == <<settings, connection, prepared, waiting, mutex, sent, ledger, epoch, troubles>>

Parts == {"gift", "animation"}
Messages == Presents \X Parts
Resting == [at |-> "next", room |-> NoRoom, matched |-> FALSE, fresh |-> FALSE, attached |-> FALSE]

PanelInit ==
  /\ room \in Rooms \cup {NoRoom} /\ published = {} /\ blocked = "no" /\ announcing = 0 /\ silent = FALSE
  /\ reload = FALSE
  /\ loop = [at |-> "off", room |-> NoRoom] /\ feed = "none" /\ status = NoRoom
  /\ prepared = NoRoom /\ waiting = {} /\ mutex = "free"
  /\ sent = {} /\ inbox = <<>> /\ consumer = Resting /\ applied = {}
  /\ receipts = [g \in Presents |-> "none"]
  /\ settled = [m \in Messages |-> 0] /\ epoch = 0
  /\ troubles = MaxTroubles

Trouble == troubles > 0 /\ troubles' = troubles - 1
Shown == status' = loop.room

-----------------------------------------------------------------------------
(***************************************************************************)
(* configStore: the configured room, read and saved                        *)
(***************************************************************************)
\* A journal that was published is recovered before a read or a change goes on.
Readable == published = {} \/ blocked = "restart"
Writable == published = {} /\ blocked = "no"

\* ensureMutationsAllowedLocked refuses, or a file cannot be read or written.
Refused == (blocked # "no" /\ UNCHANGED troubles) \/ Trouble

\* clearRoomScopedRecords empties the receipts when one room follows another.
Enters(r) ==
  /\ room' = r
  /\ IF NoRoom \in {room, r} THEN UNCHANGED <<receipts, settled>>
     ELSE receipts' = [g \in Presents |-> "none"] /\ settled' = [m \in Messages |-> 0]

\* handlePut or handlePatch saves another room, or its save is published and then fails.
ChangeRoom(r) ==
  /\ loop.at # "off" /\ Writable /\ r # room
  /\ Trouble
  /\ \/ Enters(r) /\ announcing' = announcing + 1 /\ UNCHANGED published
     \/ published' = {r} /\ UNCHANGED <<room, announcing, receipts, settled>>
  /\ UNCHANGED <<blocked, silent, connection, prepared, waiting, mutex, sent, inbox, consumer, applied, epoch>>

\* notifyStateChanges, after a save that was answered without an error.
Announce ==
  /\ announcing > 0 /\ announcing' = announcing - 1
  /\ reload' = TRUE
  /\ UNCHANGED <<room, published, blocked, silent, loop, feed, status, prepared, waiting, mutex, sent,
                 ledger, epoch, troubles>>

\* recoverPendingStateTransactionLocked, at the next read or change: nobody notifies it.
Recover(r) ==
  /\ r \in published /\ blocked # "restart"
  /\ Enters(r)
  /\ published' = {} /\ blocked' = "no" /\ silent' = (loop.at # "off")
  /\ UNCHANGED <<announcing, connection, prepared, waiting, mutex, sent, inbox, consumer, applied, epoch,
                 troubles>>

\* The journal cannot be read, or not be published again.
RecoveryFails ==
  /\ Trouble /\ blocked # "restart"
  /\ blocked' = "restart" \/ (published # {} /\ blocked' = "again")
  /\ UNCHANGED <<room, published, announcing, silent, connection, prepared, waiting, mutex, sent, ledger,
                 epoch>>

-----------------------------------------------------------------------------
(***************************************************************************)
(* runConnectionLoop                                                       *)
(***************************************************************************)
Launch ==
  /\ loop.at = "off" /\ (published = {} \/ blocked # "no")
  /\ loop' = [at |-> "read", room |-> NoRoom]
  /\ UNCHANGED <<settings, reload, feed, status, prepared, waiting, mutex, sent, ledger, epoch, troubles>>

LoopAt(at) == loop' = [loop EXCEPT !.at = at]

ReadRoom ==
  /\ loop.at = "read"
  /\ \/ /\ Writable
        /\ IF room = NoRoom
           THEN loop' = [at |-> "idle", room |-> NoRoom] /\ status' = NoRoom
           ELSE loop' = [at |-> "prepare", room |-> room] /\ UNCHANGED status
        /\ silent' = FALSE /\ UNCHANGED troubles
     \/ /\ Refused
        /\ loop' = [at |-> "wait", room |-> NoRoom] /\ status' = NoRoom
        /\ UNCHANGED silent
  /\ UNCHANGED <<room, published, blocked, announcing, reload, feed, prepared, waiting, mutex, sent, ledger,
                 epoch>>

\* wait, and the select without a room: the reload is taken, or the timer ends.
WakeLoop ==
  /\ loop.at \in {"idle", "wait"}
  /\ IF reload THEN reload' = FALSE ELSE loop.at = "wait" /\ UNCHANGED reload
  /\ LoopAt("read")
  /\ UNCHANGED <<settings, feed, status, prepared, waiting, mutex, sent, ledger, epoch, troubles>>

\* prepareRoomConnectionForGeneration takes animationMu; the keys of the former room's
\* messages are cleared in the state first, then the file is written.
Prepare ==
  /\ loop.at = "prepare" /\ mutex = "free"
  /\ IF prepared = loop.room THEN LoopAt("start") /\ UNCHANGED <<mutex, status, troubles>>
     ELSE \/ Writable /\ LoopAt("keys") /\ mutex' = "loop" /\ UNCHANGED <<status, troubles>>
          \/ Refused /\ LoopAt("wait") /\ Shown /\ UNCHANGED mutex
  /\ UNCHANGED <<settings, reload, feed, prepared, waiting, sent, ledger, epoch>>

\* The animations of the room that was prepared are dropped.
WritePrepared ==
  /\ loop.at = "keys" /\ mutex' = "free"
  /\ \/ /\ prepared' = loop.room /\ epoch' = epoch + 1 /\ LoopAt("start")
        /\ waiting' = {g \in waiting : prepared # NoRoom /\ RoomOf[g] # prepared}
        /\ UNCHANGED <<status, troubles>>
     \/ Trouble /\ LoopAt("wait") /\ Shown /\ UNCHANGED <<prepared, waiting, epoch>>
  /\ UNCHANGED <<settings, reload, feed, sent, ledger>>

\* Mutant of Start: a reload that came in during the preparation is dropped.
StartAnew ==
  /\ loop.at = "start"
  /\ LoopAt("running") /\ feed' = "dialing" /\ Shown /\ reload' = FALSE
  /\ UNCHANGED <<settings, prepared, waiting, mutex, sent, ledger, epoch, troubles>>

Start ==
  /\ loop.at = "start"
  /\ LoopAt("running") /\ feed' = "dialing" /\ Shown
  /\ UNCHANGED <<settings, reload, prepared, waiting, mutex, sent, ledger, epoch, troubles>>

\* The connection's context is cancelled; the loop goes on when the source has ended.
CancelConnection ==
  /\ loop.at = "running" /\ reload
  /\ reload' = FALSE /\ LoopAt("stopping")
  /\ UNCHANGED <<settings, feed, status, prepared, waiting, mutex, sent, ledger, epoch, troubles>>

FeedEnds ==
  /\ loop.at = "stopping"
  /\ feed' = "none" /\ LoopAt("read")
  /\ UNCHANGED <<settings, reload, status, prepared, waiting, mutex, sent, ledger, epoch, troubles>>

-----------------------------------------------------------------------------
(***************************************************************************)
(* connectionSupervisor.Run and bilibiliGiftSource.Run                     *)
(***************************************************************************)
\* The server's answer to the authentication, also while the source is cancelled.
FeedConnects ==
  /\ feed = "dialing" /\ loop.at \in {"running", "stopping"}
  /\ feed' = "connected" /\ Shown
  /\ UNCHANGED <<settings, reload, loop, prepared, waiting, mutex, sent, ledger, epoch, troubles>>

\* A request, the authentication, a heartbeat or a read fails; a cancelled source ends
\* with FeedEnds instead.
FeedFails ==
  /\ feed \in {"dialing", "connected"} /\ loop.at = "running" /\ Trouble
  /\ feed' = "delayed" /\ Shown
  /\ UNCHANGED <<settings, reload, loop, prepared, waiting, mutex, sent, ledger, epoch>>

ReconnectFeed ==
  /\ feed = "delayed" /\ loop.at = "running"
  /\ feed' = "dialing" /\ Shown
  /\ UNCHANGED <<settings, reload, loop, prepared, waiting, mutex, sent, ledger, epoch, troubles>>

\* acceptGiftForGeneration, of a message of the connected room; a cancelled context or
\* blocked changes refuse it.
AcceptMessage(m) ==
  /\ blocked = "no"
  /\ feed = "connected" /\ loop.at = "running" /\ RoomOf[m[1]] = loop.room
  /\ m \notin sent /\ sent' = sent \cup {m}
  /\ inbox' = Append(inbox, m)
  /\ UNCHANGED <<settings, connection, prepared, waiting, mutex, consumer, applied, receipts, settled,
                 epoch, troubles>>

-----------------------------------------------------------------------------
(***************************************************************************)
(* runGiftLoop: one record at a time, under animationMu                    *)
(***************************************************************************)
Current == Head(inbox)
Gift == Current[1]
Matches == RoomOf[Gift] = consumer.room

\* A record that is not acknowledged is released, and claimed again.
Released == consumer' = Resting /\ mutex' = "free"

\* Next and processInboxRecordLocked up to the transaction: it needs the preparation of
\* the configured room.  The sender's profile may be asked for before the transaction.
Claim ==
  /\ loop.at # "off" /\ consumer.at = "next" /\ inbox # <<>> /\ mutex = "free" /\ Writable
  /\ room = NoRoom \/ prepared = room
  /\ consumer' = [Resting EXCEPT !.at = "settle", !.room = room,
                    !.matched = RoomOf[Gift] = room /\ Current[2] = "gift" /\ Gift \in waiting]
  /\ mutex' = "consumer"
  /\ UNCHANGED <<settings, connection, prepared, waiting, sent, inbox, applied, receipts, settled, epoch,
                 troubles>>

Attaches == Current[2] = "animation" /\ receipts[Gift] # "none"

\* settleGiftInStateWithFreeze, in the room that is configured still.
SettleAnew ==
  /\ applied' = applied \cup {Current}
  /\ consumer' = [consumer EXCEPT !.at = "file", !.fresh = TRUE, !.attached = Attaches]
  /\ receipts' = IF Matches /\ Current[2] = "gift"
                 THEN [receipts EXCEPT ![Gift] = IF consumer.matched THEN "animated" ELSE "plain"]
                 ELSE IF Matches /\ Attaches THEN [receipts EXCEPT ![Gift] = "animated"] ELSE receipts
  /\ settled' = IF Matches THEN [settled EXCEPT ![Current] = epoch] ELSE settled
  /\ UNCHANGED mutex

\* updateStateForIngestion: once for a record, whatever room is configured then.
Settle ==
  /\ consumer.at = "settle" /\ Writable
  /\ IF Current \in applied
     THEN consumer' = [consumer EXCEPT !.at = "file"] /\ UNCHANGED <<mutex, applied, receipts, settled>>
     ELSE IF room = consumer.room THEN SettleAnew
     ELSE Released /\ UNCHANGED <<applied, receipts, settled>>
  /\ UNCHANGED <<settings, connection, prepared, waiting, sent, inbox, epoch, troubles>>

\* Mutant of IsAttached: what a transaction before a restart has attached is forgotten.
AttachedThisTime == consumer.attached

\* A record that was applied before is looked up in the receipts.
IsAttached == IF consumer.fresh THEN consumer.attached ELSE receipts[Gift] = "animated"

\* An animation without its gift waits in the file; one that its gift has got leaves it.
WriteAnimations ==
  /\ consumer.at = "file"
  /\ Current[2] = "animation" /\ ~consumer.fresh => Readable
  /\ waiting' = IF Matches /\ Current[2] = "animation" /\ ~IsAttached THEN waiting \cup {Gift}
                ELSE IF consumer.matched THEN waiting \ {Gift} ELSE waiting
  /\ consumer' = [consumer EXCEPT !.at = "ack"]
  /\ UNCHANGED <<settings, connection, prepared, mutex, sent, inbox, applied, receipts, settled, epoch, troubles>>

Acknowledge ==
  /\ consumer.at = "ack"
  /\ inbox' = Tail(inbox) /\ Released
  /\ settled' = [settled EXCEPT ![Current] = IF Matches THEN @ ELSE 0]
  /\ UNCHANGED <<settings, connection, prepared, waiting, sent, applied, receipts, epoch, troubles>>

\* A read, the transaction, the file or the acknowledgement fails.
ConsumerFails ==
  /\ consumer.at # "next" /\ Refused /\ Released
  /\ UNCHANGED <<settings, connection, prepared, waiting, sent, inbox, applied, receipts, settled, epoch>>

-----------------------------------------------------------------------------
\* A journal that was not durable may be lost with the power.
Crash ==
  /\ Trouble
  /\ loop.at # "off"
  /\ published' \in {published, {}} /\ blocked' = "no" /\ announcing' = 0 /\ silent' = FALSE
  /\ reload' = FALSE /\ loop' = [at |-> "off", room |-> NoRoom] /\ feed' = "none"
  /\ status' = NoRoom /\ mutex' = "free" /\ consumer' = Resting
  /\ UNCHANGED <<room, prepared, waiting, sent, inbox, applied, receipts, settled, epoch>>

PanelNext ==
  \/ Launch \/ (\E r \in Rooms \cup {NoRoom} : ChangeRoom(r) \/ Recover(r)) \/ Announce \/ RecoveryFails
  \/ ReadRoom \/ WakeLoop \/ Prepare \/ WritePrepared \/ Start \/ CancelConnection \/ FeedEnds
  \/ FeedConnects \/ FeedFails \/ ReconnectFeed \/ \E m \in Messages : AcceptMessage(m)
  \/ Claim \/ Settle \/ WriteAnimations \/ Acknowledge \/ ConsumerFails \/ Crash

\* The loop, a source that was cancelled or waits to reconnect, a handler and the consumer go on;
\* a connection need not succeed.  (One step of the loop, or of the consumer, is enabled at a time.)
PanelFairness ==
  /\ WF_panelVars(Announce) /\ WF_panelVars(ReconnectFeed) /\ SF_panelVars(Prepare)
  /\ WF_panelVars(ReadRoom \/ WakeLoop \/ WritePrepared \/ Start \/ CancelConnection \/ FeedEnds)
  /\ WF_panelVars(Claim \/ Settle \/ WriteAnimations \/ Acknowledge)

PanelSpec == PanelInit /\ [][PanelNext]_panelVars /\ PanelFairness

-----------------------------------------------------------------------------
Done(m) == settled[m] # 0 /\ (inbox = <<>> \/ Head(inbox) # m)

\* A gift and its animation that were settled while the room stayed, and since the
\* receipts were emptied for another one, come together in the receipt, in either
\* order of the two messages and whichever write failed or crash came between; and
\* the animation does not stay in the file, where a later gift would get it.
AnimationsMeetTheirGifts ==
  \A g \in Presents :
    /\ Done(<<g, "gift">>) /\ Done(<<g, "animation">>)
    /\ settled[<<g, "gift">>] = settled[<<g, "animation">>]
    => receipts[g] = "animated" /\ g \notin waiting

\* What the loop is not told: a save that was answered with an error and yet took
\* effect, while it is there to be recovered and until the loop reads the room again.
Untold == silent \/ published # {} \/ blocked # "no"

\* The runtime gets to the room that is configured, again and again: a change that
\* comes while the loop reads, prepares, connects, waits or stops is not missed, when
\* its save was answered.
TheConfiguredRoomIsShown == []<>(loop.at = "off" \/ status = room \/ Untold)
=============================================================================
