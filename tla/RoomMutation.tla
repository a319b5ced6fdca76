---------------------------- MODULE RoomMutation ----------------------------
(***************************************************************************)
(* The change of an account's room, from the request to its audit event:    *)
(* the receipts of runtime/session.go, the administrator's adapter in      *)
(* cmd/hosted/main.go, RefreshReferences of app/app.go and the console's   *)
(* UpdateRoom in adminconsole/service.go.  A streamer's own request stops  *)
(* after the first transaction.  AccountRuntime has what a change does to  *)
(* the session and its fence, RoomMonitor what the references lead to.     *)
(***************************************************************************)
EXTENDS Integers, Sequences, SequencesExt

CONSTANTS
  Administrators, \* their requests to the console
  Streamers,      \* the account's own requests
  Cadence,        \* the poll loop, that refreshes the references too
  Targets,        \* canonical room ids
  NoTarget,
  MaxReceipts,    \* bound of the changes
  MaxSetbacks     \* bound of failing transactions, crashes, disablings

ASSUME MutationAssumption ==
  /\ Administrators \cap Streamers = {} /\ Cadence \notin Administrators \cup Streamers
  /\ NoTarget \notin Targets /\ MaxReceipts \in Nat /\ MaxSetbacks \in Nat

VARIABLES
  streamer,   \* the account: streamer_accounts.disabled_at and account_runtime_rooms
  receipts,   \* room_mutation_receipts, by id
  trail,      \* audit_events: admin_room_updated
  watched,    \* room_monitor_references: the room of the account
  refreshing, \* each caller of RefreshReferences: has it the lock, what did it read
  change,     \* each request: how far, for what room, its receipt
  setbacks

mutationVars == <<streamer, receipts, trail, watched, refreshing, change, setbacks>>

Changers == Administrators \cup Streamers
NoChange == [at |-> "idle", desired |-> NoTarget, enabled |-> FALSE, receipt |-> 0]
NoRefresh == [held |-> FALSE, read |-> NoTarget]

MutationInit ==
  /\ streamer \in [enabled : BOOLEAN, target : Targets \cup {NoTarget}]
  /\ receipts = <<>> /\ trail = <<>>
  /\ watched = IF streamer.enabled THEN streamer.target ELSE NoTarget
  /\ refreshing = [t \in Administrators \cup {Cadence} |-> NoRefresh]
  /\ change = [x \in Changers |-> NoChange]
  /\ setbacks = 0

Rank == [target_persisted |-> 1, references_synced |-> 2, audited |-> 3]

SetBack == setbacks < MaxSetbacks /\ setbacks' = setbacks + 1
Goes(x, to) == change' = [change EXCEPT ![x].at = to]
Leaves(x) == change' = [change EXCEPT ![x] = NoChange]

\* A statement of the request fails, or its COMMIT does and its receipt is not found.
RequestFails(x) ==
  /\ change[x].at \notin {"idle", "refused"} /\ SetBack /\ Leaves(x)
  /\ refreshing' = [t \in DOMAIN refreshing |-> IF t = x THEN NoRefresh ELSE refreshing[t]]
  /\ UNCHANGED <<streamer, receipts, trail, watched>>

\* A COMMIT whose reply is lost: the receipt is read again and the request goes on,
\* or that fails too and it has an error.
Committed(x, to) ==
  \/ Goes(x, to) /\ UNCHANGED setbacks
  \/ Leaves(x) /\ SetBack

-----------------------------------------------------------------------------
(***************************************************************************)
(* MutateRoom                                                              *)
(***************************************************************************)
\* roomMutationLock: the console serves an account's requests one by one.
ConsoleIsFree == \A x \in Administrators : change[x].at = "idle"

\* mutateDisabledTargetRoom looks whether the account is disabled, Resolve follows.
\* The session of a disabled account is not authenticated.
AsksForRoom(x) ==
  /\ change[x].at = "idle"
  /\ IF x \in Administrators THEN ConsoleIsFree ELSE streamer.enabled
  /\ \E room \in Targets :
       change' = [change EXCEPT ![x] = [NoChange EXCEPT
                    !.at = "persists", !.desired = room, !.enabled = streamer.enabled]]
  /\ UNCHANGED <<streamer, receipts, trail, watched, refreshing, setbacks>>

Underway == receipts # <<>> /\ Last(receipts).phase # "audited"

\* persistRoomMutation answers the receipt of the room that the account has.
Repeats(x) ==
  /\ receipts # <<>>
  /\ streamer.target = change[x].desired /\ Last(receipts).new = change[x].desired

NewReceipt(x) == [old |-> streamer.target, new |-> change[x].desired, phase |-> "target_persisted"]

\* A streamer has his answer; the administrator's adapter goes on by the phase.
AfterReceipt(x, receipt) ==
  IF x \in Streamers THEN "answered"
  ELSE IF receipt.phase = "target_persisted" THEN "refreshes" ELSE "audits"

\* MutateTargetRoom of an enabled account, PersistDisabledTargetRoom of a disabled one.
PersistsTarget(x) ==
  /\ change[x].at = "persists" /\ streamer.enabled = change[x].enabled
  /\ ~Repeats(x) /\ ~Underway /\ Len(receipts) < MaxReceipts
  /\ streamer' = [streamer EXCEPT !.target = change[x].desired]
  /\ receipts' = Append(receipts, NewReceipt(x))
  /\ \/ /\ change' = [change EXCEPT ![x].at = AfterReceipt(x, NewReceipt(x)),
                                    ![x].receipt = Len(receipts')]
        /\ UNCHANGED setbacks
     \/ Leaves(x) /\ SetBack
  /\ UNCHANGED <<trail, watched, refreshing>>

AnswersReceipt(x) ==
  /\ change[x].at = "persists" /\ streamer.enabled = change[x].enabled /\ Repeats(x)
  /\ change' = [change EXCEPT ![x].at = AfterReceipt(x, Last(receipts)),
                              ![x].receipt = Len(receipts)]
  /\ UNCHANGED <<streamer, receipts, trail, watched, refreshing, setbacks>>

\* Another change has not been audited yet.
RefusesChange(x) ==
  /\ change[x].at = "persists" /\ streamer.enabled = change[x].enabled
  /\ ~Repeats(x) /\ Underway
  /\ Goes(x, "refused")
  /\ UNCHANGED <<streamer, receipts, trail, watched, refreshing, setbacks>>

\* The account was disabled or enabled meanwhile.
FindsAccountChanged(x) ==
  /\ change[x].at = "persists" /\ streamer.enabled # change[x].enabled /\ Leaves(x)
  /\ UNCHANGED <<streamer, receipts, trail, watched, refreshing, setbacks>>

HasAnswer(x) ==
  /\ change[x].at \in {"answered", "refused"} /\ Leaves(x)
  /\ UNCHANGED <<streamer, receipts, trail, watched, refreshing, setbacks>>

-----------------------------------------------------------------------------
(***************************************************************************)
(* RefreshReferences                                                       *)
(***************************************************************************)
\* Mutant: the lock only covers SetReferences.
ReferencesAreNotLocked == TRUE

\* referenceMu, from the read of the database to the end of SetReferences.
ReferencesAreFree == \A t \in DOMAIN refreshing : ~refreshing[t].held

ReadsReferences(t) ==
  /\ t # Cadence => change[t].at = "refreshes"
  /\ ReferencesAreFree /\ ~refreshing[t].held
  /\ refreshing' = [refreshing EXCEPT ![t] =
       [held |-> TRUE, read |-> IF streamer.enabled THEN streamer.target ELSE NoTarget]]
  /\ UNCHANGED <<streamer, receipts, trail, watched, change, setbacks>>

\* SyncReferences, and the first poll of the rooms it adds, that may fail.
SyncsReferences(t) ==
  /\ refreshing[t].held
  /\ watched' = refreshing[t].read
  /\ refreshing' = [refreshing EXCEPT ![t] = NoRefresh]
  /\ IF t = Cadence THEN UNCHANGED <<change, setbacks>> ELSE Committed(t, "advances")
  /\ UNCHANGED <<streamer, receipts, trail>>

CadenceRefreshFails ==
  /\ refreshing[Cadence].held
  /\ refreshing' = [refreshing EXCEPT ![Cadence] = NoRefresh]
  /\ UNCHANGED <<streamer, receipts, trail, watched, change, setbacks>>

-----------------------------------------------------------------------------
(***************************************************************************)
(* AdvanceRoomMutation, auditRoomMutation                                  *)
(***************************************************************************)
Receipt(x) == receipts[change[x].receipt]

\* A receipt that is there already is answered as it is.
AdvancesReceipt(x) ==
  /\ change[x].at = "advances"
  /\ receipts' = IF Rank[Receipt(x).phase] >= Rank.references_synced THEN receipts
                 ELSE [receipts EXCEPT ![change[x].receipt].phase = "references_synced"]
  /\ Committed(x, "audits")
  /\ UNCHANGED <<streamer, trail, watched, refreshing>>

\* The event and the last phase, in one transaction, unless they are there.
Audited(x) ==
  IF Receipt(x).phase = "audited" THEN UNCHANGED <<trail, receipts>>
  ELSE /\ Receipt(x).phase = "references_synced"
       /\ trail' = Append(trail, [old |-> Receipt(x).old, new |-> Receipt(x).new])
       /\ receipts' = [receipts EXCEPT ![change[x].receipt].phase = "audited"]

AuditsChange(x) ==
  /\ change[x].at = "audits" /\ Audited(x)
  /\ Committed(x, "answered")
  /\ UNCHANGED <<streamer, watched, refreshing>>

-----------------------------------------------------------------------------
(***************************************************************************)
(* The account, the process                                                *)
(***************************************************************************)
TogglesAccount ==
  /\ streamer' = [streamer EXCEPT !.enabled = ~@] /\ SetBack
  /\ UNCHANGED <<receipts, trail, watched, refreshing, change>>

ServerStops ==
  /\ SetBack
  /\ change' = [x \in Changers |-> NoChange]
  /\ refreshing' = [t \in DOMAIN refreshing |-> NoRefresh]
  /\ UNCHANGED <<streamer, receipts, trail, watched>>

MutationNext ==
  \/ \E x \in Changers :
       \/ AsksForRoom(x) \/ PersistsTarget(x) \/ AnswersReceipt(x) \/ RefusesChange(x)
       \/ FindsAccountChanged(x) \/ HasAnswer(x) \/ RequestFails(x)
  \/ \E x \in Administrators : AdvancesReceipt(x) \/ AuditsChange(x)
  \/ \E t \in DOMAIN refreshing : ReadsReferences(t) \/ SyncsReferences(t)
  \/ CadenceRefreshFails \/ TogglesAccount \/ ServerStops

MutationSpec == MutationInit /\ [][MutationNext]_mutationVars

-----------------------------------------------------------------------------
(***************************************************************************)
(* Properties                                                              *)
(***************************************************************************)
\* Each change begins where the one before ended, and only the last may be unaudited.
ChangesFollowEachOther ==
  \A i \in DOMAIN receipts :
    IF i = Len(receipts) THEN receipts[i].new = streamer.target
    ELSE receipts[i].phase = "audited" /\ receipts[i].new = receipts[i + 1].old

\* The audit events are the changes in their order, each once.
TrailIsComplete ==
  /\ Len(trail) = Len(receipts) - (IF Underway THEN 1 ELSE 0)
  /\ \A i \in DOMAIN trail : trail[i] = [old |-> receipts[i].old, new |-> receipts[i].new]

\* From references_synced on, the watcher has left the old room, whatever the
\* refresh of the poll loop had read before.
OldRoomsAreLeft ==
  receipts # <<>> /\ Rank[Last(receipts).phase] >= Rank.references_synced
    => watched \in {streamer.target, NoTarget}

\* However requests, retries, lost replies, the poll loop's refresh and restarts
\* interleave, the audit trail is the history of the account's room, and what it
\* tells is what the room watcher watches (session.go:249-283, 338-387,
\* app.go:302-321, adminconsole/service.go:188-256).
ChangesAreAudited == ChangesFollowEachOther /\ TrailIsComplete /\ OldRoomsAreLeft

\* The streamer may enter any valid room number (hosted-online-service-design.md:155):
\* where nothing has failed and nobody else is at it, his request is not refused.
StreamersChooseTheirRoom ==
  \A x \in Streamers :
    change[x].at = "refused" =>
      setbacks > 0 \/ \E y \in Changers \ {x} : change[y].at # "idle"
==============================================================================
