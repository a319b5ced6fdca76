----------------------------- MODULE GiftLedger -----------------------------
(***************************************************************************)
(* The gifts of the local program: the durable inbox (gift_inbox.go), the  *)
(* configuration store with its write-ahead transaction (config_store.go,  *)
(* state_transaction.go, state_shards.go) and the reset of both            *)
(* (background_runtime.go).  A step is one operation on a file; the power  *)
(* may fail between any two of them.                                       *)
(*                                                                         *)
(* A file's content is what is visible; it survives the power only after   *)
(* its directory was synchronized.  A write or removal therefore "fails",  *)
(* is "visible" but reported as an error, or is "durable".                 *)
(***************************************************************************)
EXTENDS Integers, Sequences, SequencesExt, FiniteSets

CONSTANTS
  MaxGifts,    \* bound of the gifts that arrive
  MaxChanges,    \* bound of the changes by the client
  MaxResets,   \* bound of the resets asked for
  MaxFailures, \* bound of the operations that fail
  MaxCrashes   \* bound of the power failures

ASSUME LedgerAssumption ==
  /\ MaxGifts \in Nat /\ MaxChanges \in Nat /\ MaxResets \in Nat
  /\ MaxFailures \in Nat /\ MaxCrashes \in Nat

VARIABLES
  disk,     \* the files of the store, as they are visible
  stable,   \* and as they would be after a power failure
  pending,  \* the records of the inbox that are visible
  kept,     \* and those that a power failure leaves
  store,    \* configStore: what it is doing under its lock, and what it remembers
  consumer, \* the record that is claimed, and how far it is
  reset,    \* the step of backgroundRuntime.reset, which holds resetGate
  answers,  \* what was promised: gifts accepted and edits made, gifts erased
  budget    \* what may still happen

ledgerVars == <<disk, stable, pending, kept, store, consumer, reset, answers, budget>>

NoTransaction == [gifts |-> <<>>, edits |-> -1]
\* The shards in the order in which a transaction is applied and is reset.
Shards == <<"events", "history", "config">>

\* resetStateArtifacts: the marker of the reset goes last.
Retired == <<"config", "history", "events", "transaction", "intent">>

\* A default store: a shard that is missing reads as its default.
Blank(file) ==
  CASE file \in {"events", "history"} -> <<>>
    [] file = "config" -> 0
    [] file = "transaction" -> NoTransaction
    [] file = "intent" -> FALSE
Files == {"events", "history", "config", "transaction", "intent"}
BlankDisk == [file \in Files |-> Blank(file)]

\* No task; endorsed: committedTransactionState; block: mutationBlockKind.
Idle == [at |-> "idle", task |-> "none", shard |-> 0, recovering |-> FALSE,
         endorsed |-> FALSE, block |-> "none", intent |-> "none", broken |-> FALSE]
NoClaim == [at |-> "idle", gift |-> 0]

LedgerInit ==
  /\ disk = BlankDisk /\ stable = BlankDisk
  /\ pending = {} /\ kept = {}
  /\ store = Idle /\ consumer = NoClaim /\ reset = "none"
  /\ answers = [accepted |-> {}, edits |-> 0, erased |-> {}]
  /\ budget = [gifts |-> 0, edits |-> MaxChanges, resets |-> MaxResets,
               failures |-> MaxFailures, crashes |-> MaxCrashes]

-----------------------------------------------------------------------------
(***************************************************************************)
(* Files                                                                   *)
(***************************************************************************)
Results == {"fails", "visible", "durable"}

Pays(result) ==
  IF result = "durable" THEN UNCHANGED budget
  ELSE budget.failures > 0 /\ budget' = [budget EXCEPT !.failures = @ - 1]

\* writeFileAtomicallyOutcome, or a removal: a synchronization keeps the directory.
Put(file, content, result) ==
  /\ Pays(result)
  /\ disk' = IF result = "fails" THEN disk ELSE [disk EXCEPT ![file] = content]
  /\ stable' = IF result = "durable" THEN disk' ELSE stable

\* The state that counts, and the one that the shards hold.
Written(d) == [gifts |-> d["history"], edits |-> d["config"]]
Authoritative(d) == IF d["transaction"] = NoTransaction THEN Written(d) ELSE d["transaction"]
Content(state, file) == IF file = "config" THEN state.edits ELSE state.gifts

-----------------------------------------------------------------------------
(***************************************************************************)
(* A call of the store: updateStateForIngestion, patchClientState, a read, *)
(* or the read of beginResetIntent.  It recovers first.                    *)
(***************************************************************************)
Released == [store EXCEPT !.at = "idle", !.task = "none", !.recovering = FALSE]

\* Mutant: the record of a gift is acknowledged although its call failed.
FailsSettled(after) ==
  /\ store' = IF store.task = "reset" THEN [after EXCEPT !.at = "marker", !.task = "reset"]
              ELSE after
  /\ consumer' = IF store.task = "gift" THEN [consumer EXCEPT !.at = "settled"] ELSE consumer
  /\ UNCHANGED answers

\* The call returns an error: the claim is released; a reset goes on to its marker.
Fails(after) ==
  /\ store' = IF store.task = "reset" THEN [after EXCEPT !.at = "marker", !.task = "reset"]
              ELSE after
  /\ consumer' = IF store.task = "gift" THEN NoClaim ELSE consumer
  /\ UNCHANGED answers

Succeeds(after) ==
  /\ store' = after
  /\ consumer' = IF store.task = "gift" THEN [consumer EXCEPT !.at = "settled"] ELSE consumer
  /\ answers' = IF store.task = "edit" THEN [answers EXCEPT !.edits = @ + 1] ELSE answers

\* Read or unreadable: transaction_recovery is left by a recovery that is allowed.
Blocked(task) ==
  IF task \in {"read", "reset"} THEN store.block \notin {"none", "endorsement"} \/ store.intent # "none"
  ELSE store.block \notin {"none", "endorsement"}

CallStore(task) ==
  /\ store.at = "idle" /\ ~Blocked(task)
  /\ store' = [store EXCEPT !.at = "recover", !.task = task]
  /\ UNCHANGED <<disk, stable, pending, kept, reset, answers>>

CallGift ==
  /\ consumer.at = "claimed"
  /\ CallStore("gift")
  /\ UNCHANGED <<consumer, budget>>
CallEdit ==
  /\ budget.edits > 0
  /\ CallStore("edit")
  /\ budget' = [budget EXCEPT !.edits = @ - 1] /\ UNCHANGED consumer
CallRead ==
  /\ disk["transaction"] # NoTransaction
  /\ CallStore("read")
  /\ UNCHANGED <<consumer, budget>>

\* recoverPendingStateTransactionLocked reads the transaction.
ReadTransaction ==
  /\ store.at = "recover"
  /\ store' = IF disk["transaction"] = NoTransaction
              THEN [store EXCEPT !.at = "prepare", !.endorsed = FALSE, !.block = "none"]
              ELSE [store EXCEPT !.at = "endorse"]
  /\ UNCHANGED <<disk, stable, pending, kept, consumer, reset, answers, budget>>

\* It cannot be read: the store is blocked unless it remembers an endorsed one.
ReadTransactionFails ==
  /\ store.at = "recover" /\ Pays("fails")
  /\ Fails([Released EXCEPT !.block = IF store.endorsed THEN @ ELSE "unreadable"])
  /\ UNCHANGED <<disk, stable, pending, kept, reset>>

\* A transaction that was read is authoritative once it was written again durably.
Endorses(result) == result = "durable"

Endorse(result) ==
  /\ store.at = "endorse"
  /\ Put("transaction", disk["transaction"], result)
  /\ IF Endorses(result)
     THEN /\ store' = [store EXCEPT !.at = "apply", !.shard = 1, !.recovering = TRUE,
                                    !.endorsed = TRUE, !.block = "none"]
          /\ UNCHANGED <<consumer, answers>>
     ELSE Fails([Released EXCEPT !.endorsed = FALSE, !.block = "endorsement"])
  /\ UNCHANGED <<pending, kept, reset>>

\* Mutant: the identifiers of the gifts that were applied are not looked at.
IsAppliedNever == FALSE

\* AppliedIngressIDs: the claimed record was counted already.
IsApplied == Contains(Written(disk).gifts, consumer.gift)

Changed ==
  IF store.task = "gift" THEN [Written(disk) EXCEPT !.gifts = Append(@, consumer.gift)]
  ELSE [Written(disk) EXCEPT !.edits = @ + 1]

\* Recovered: a read returns, a reset goes on to its marker, a counted gift is done.
StoreRecovered ==
  /\ store.at = "prepare"
  /\ CASE store.task = "read" -> Succeeds(Released)
       [] store.task = "reset" -> Fails(Released)
       [] store.task = "gift" -> IsApplied /\ Succeeds(Released)
       [] OTHER -> FALSE
  /\ UNCHANGED <<disk, stable, pending, kept, reset, budget>>

Prepared(result) == result = "durable"

\* persistPreparedStateWithOutcomeLocked: the transaction is published.
Prepare(result) ==
  /\ store.at = "prepare"
  /\ store.task = "edit" \/ (store.task = "gift" /\ ~IsApplied)
  /\ Put("transaction", Changed, result)
  /\ IF Prepared(result)
     THEN /\ store' = [store EXCEPT !.at = "apply", !.shard = 1]
          /\ UNCHANGED <<consumer, answers>>
     ELSE Fails(Released)
  /\ UNCHANGED <<pending, kept, reset>>

NextShard ==
  IF store.shard < Len(Shards) THEN [store EXCEPT !.shard = @ + 1]
  ELSE [store EXCEPT !.at = "remove", !.shard = 0]
PutShard(result) ==
  LET file == Shards[store.shard] IN Put(file, Content(disk["transaction"], file), result)

ApplyShard(result) ==
  /\ store.at = "apply"
  /\ PutShard(result)
  /\ IF result # "durable" THEN Fails(Released)
     ELSE store' = NextShard /\ UNCHANGED <<consumer, answers>>
  /\ UNCHANGED <<pending, kept, reset>>

\* A recovery goes on with its call; a removal that is not durable is an error too.
RemoveTransaction(result) ==
  /\ store.at = "remove"
  /\ Put("transaction", NoTransaction, result)
  /\ IF result # "durable" THEN Fails(Released)
     ELSE IF store.recovering
     THEN /\ store' = [store EXCEPT !.at = "prepare", !.recovering = FALSE, !.endorsed = FALSE]
          /\ UNCHANGED <<consumer, answers>>
     ELSE Succeeds(Released)
  /\ UNCHANGED <<pending, kept, reset>>

-----------------------------------------------------------------------------
(***************************************************************************)
(* The inbox                                                               *)
(***************************************************************************)

\* acceptGift: a record that is visible is kept, and reported as a warning.
AcceptRecord(result) ==
  /\ budget.gifts < MaxGifts /\ reset = "none" /\ store.block = "none"
  /\ LET gift == budget.gifts + 1 IN
     /\ IF result = "durable" THEN budget' = [budget EXCEPT !.gifts = gift]
        ELSE /\ budget.failures > 0
             /\ budget' = [budget EXCEPT !.gifts = gift, !.failures = @ - 1]
     /\ pending' = IF result = "fails" THEN pending ELSE pending \cup {gift}
     /\ kept' = IF result = "durable" THEN pending' ELSE kept
     /\ answers' = IF result = "durable" THEN [answers EXCEPT !.accepted = @ \cup {gift}]
                   ELSE answers
  /\ UNCHANGED <<disk, stable, store, consumer, reset>>

\* Next: the oldest record is claimed.
Claim ==
  /\ consumer = NoClaim /\ reset = "none" /\ store.block = "none" /\ pending # {}
  /\ \E gift \in pending :
       (\A g \in pending : gift <= g) /\ consumer' = [at |-> "claimed", gift |-> gift]
  /\ UNCHANGED <<disk, stable, pending, kept, store, reset, answers, budget>>

\* The store was blocked meanwhile: the claim is released.
ReleaseRecord ==
  /\ consumer.at = "claimed" /\ store.at = "idle" /\ Blocked("gift")
  /\ consumer' = NoClaim
  /\ UNCHANGED <<disk, stable, pending, kept, store, reset, answers, budget>>

\* The record is removed; nothing synchronizes its directory.
Acknowledge ==
  /\ consumer.at = "settled"
  /\ pending' = pending \ {consumer.gift}
  /\ consumer' = NoClaim
  /\ UNCHANGED <<disk, stable, kept, store, reset, answers, budget>>

AcknowledgeFails ==
  /\ consumer.at = "settled" /\ Pays("fails")
  /\ consumer' = NoClaim
  /\ UNCHANGED <<disk, stable, pending, kept, store, reset, answers>>

-----------------------------------------------------------------------------
(***************************************************************************)
(* The reset                                                               *)
(***************************************************************************)

\* resetGate: nothing is claimed.  A marker that is durable is not written again.
Reset ==
  /\ budget.resets > 0 \/ store.intent # "none"
  /\ reset = "none" /\ consumer = NoClaim /\ store.at = "idle"
  /\ budget' = IF store.intent = "none" THEN [budget EXCEPT !.resets = @ - 1] ELSE budget
  /\ IF store.intent = "durable" THEN reset' = "inbox" /\ UNCHANGED store
     ELSE /\ reset' = "marker"
          /\ store' = [store EXCEPT !.at = IF Blocked("reset") THEN "marker" ELSE "recover",
                                    !.task = "reset"]
  /\ UNCHANGED <<disk, stable, pending, kept, consumer, answers>>

\* beginResetIntent writes its marker: from here on nothing is promised.
WriteMarker(result) ==
  /\ store.at = "marker"
  /\ Put("intent", TRUE, result)
  /\ store' = [Released EXCEPT !.intent = CASE result = "fails" -> @
                                            [] result = "visible" -> "valid"
                                            [] result = "durable" -> "durable",
                              !.block = IF result = "durable" THEN "reset" ELSE "reset failed"]
  /\ reset' = IF result = "durable" THEN "inbox" ELSE "none"
  /\ answers' = IF result = "fails" THEN answers ELSE [answers EXCEPT !.accepted = {}, !.edits = 0]
  /\ UNCHANGED <<pending, kept, consumer>>

ResetFails ==
  /\ reset' = "none"
  /\ store' = [Released EXCEPT !.block = "reset failed", !.broken = FALSE, !.shard = 0]

\* giftInbox.Reset retires the records one by one, each durably, and synchronizes.
RetireRecord(result) ==
  /\ reset = "inbox" /\ pending # {} /\ Pays(result)
  /\ \E gift \in pending :
       /\ pending' = IF result = "fails" THEN pending ELSE pending \ {gift}
       /\ kept' = IF result = "durable" THEN pending' ELSE kept
  /\ IF result = "durable" THEN UNCHANGED <<store, reset>> ELSE ResetFails
  /\ UNCHANGED <<disk, stable, consumer, answers>>

\* Mutant: an inbox without records is not synchronized.
SynchronizeNothing(result) ==
  /\ reset = "inbox" /\ pending = {} /\ store.at = "idle" /\ result = "durable"
  /\ reset' = "artifacts"
  /\ store' = [store EXCEPT !.at = "retire", !.task = "reset", !.shard = 1]
  /\ UNCHANGED <<disk, stable, pending, kept, consumer, answers, budget>>

SynchronizeInbox(result) ==
  /\ reset = "inbox" /\ pending = {} /\ store.at = "idle" /\ Pays(result)
  /\ IF result = "durable"
     THEN /\ kept' = {} /\ reset' = "artifacts"
          /\ store' = [store EXCEPT !.at = "retire", !.task = "reset", !.shard = 1]
     ELSE ResetFails /\ UNCHANGED kept
  /\ UNCHANGED <<disk, stable, pending, consumer, answers>>

\* resetStateArtifacts: what is missing already is skipped; the shards are all tried,
\* and the transaction and the marker stay unless all of them are retired.
RetireArtifact(result) ==
  /\ store.at = "retire"
  /\ LET file == Retired[store.shard]
         broken == store.broken \/ result # "durable"
     IN
     /\ IF disk[file] = Blank(file) /\ stable[file] = Blank(file)
        THEN result = "durable" /\ UNCHANGED <<disk, stable, budget>>
        ELSE Put(file, Blank(file), result)
     /\ IF broken /\ store.shard >= Len(Shards) THEN ResetFails /\ UNCHANGED answers
        ELSE IF store.shard < Len(Retired)
        THEN /\ store' = [store EXCEPT !.shard = @ + 1, !.broken = broken]
             /\ UNCHANGED <<reset, answers>>
        ELSE /\ store' = Idle /\ reset' = "none"
             /\ answers' = [answers EXCEPT !.erased = 1..budget.gifts]
  /\ UNCHANGED <<pending, kept, consumer>>

-----------------------------------------------------------------------------
\* The power fails, or the process: each directory entry is new or old.  The next
\* process looks for the marker of a reset.
Crash ==
  /\ budget.crashes > 0 /\ budget' = [budget EXCEPT !.crashes = @ - 1]
  /\ \E lost \in SUBSET {file \in Files : disk[file] # stable[file]} :
       disk' = [file \in Files |-> IF file \in lost THEN stable[file] ELSE disk[file]]
  /\ stable' = disk'
  /\ \E back \in SUBSET (kept \ pending), gone \in SUBSET (pending \ kept) :
       pending' = (pending \cup back) \ gone
  /\ kept' = pending'
  /\ store' = IF disk'["intent"] THEN [Idle EXCEPT !.intent = "valid", !.block = "reset"] ELSE Idle
  /\ consumer' = NoClaim /\ reset' = "none"
  /\ UNCHANGED answers

LedgerNext ==
  \/ CallGift \/ CallEdit \/ CallRead \/ ReadTransaction \/ ReadTransactionFails \/ StoreRecovered
  \/ \E result \in Results :
       \/ Endorse(result) \/ Prepare(result) \/ ApplyShard(result) \/ RemoveTransaction(result)
       \/ AcceptRecord(result)
       \/ WriteMarker(result) \/ RetireRecord(result) \/ SynchronizeInbox(result)
       \/ RetireArtifact(result)
  \/ Claim \/ ReleaseRecord \/ Acknowledge \/ AcknowledgeFails
  \/ Reset \/ Crash

LedgerSpec == LedgerInit /\ [][LedgerNext]_ledgerVars

-----------------------------------------------------------------------------
(***************************************************************************)
(* Properties                                                              *)
(***************************************************************************)
CountedGifts == Authoritative(disk).gifts

\* What was answered as done survives everything but a reset, and is done once: a gift
\* that was accepted is in the inbox or counted, an edit is in the configuration, also
\* when a transaction was published but is not durable, or is half applied; and no gift
\* is counted twice, although its record is read again after an error of the store, a
\* lost removal or a power failure.
AnswersHoldOnce ==
  /\ answers.accepted \subseteq pending \cup ToSet(CountedGifts)
  /\ answers.edits <= Authoritative(disk).edits
  /\ IsInjective(CountedGifts)

\* A reset that succeeded is for good: none of the earlier gifts is counted or waits in
\* the inbox again, whichever of its removals a power failure undoes.
ResetErases ==
  answers.erased \cap (pending \cup ToSet(CountedGifts)) = {}
=============================================================================
