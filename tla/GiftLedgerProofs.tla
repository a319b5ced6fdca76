--------------------------- MODULE GiftLedgerProofs ---------------------------
(***************************************************************************)
(* The gifts of the local program (GiftLedger), for any number of gifts,   *)
(* edits, resets, failures and power failures: what was answered holds,    *)
(* once, and what a reset has erased stays erased.  And the play that the  *)
(* gifts drive (Activities), at the end of the module.                     *)
(*                                                                         *)
(* After a power failure each file is as it was visible or as it was       *)
(* synchronized.  The invariant says that the journal makes the choice     *)
(* immaterial (Journal): either the same transaction counts in both, or    *)
(* the shards agree, and whichever transaction is found tells what they    *)
(* tell, or more.  The state that counts in the worst case (Sure) then     *)
(* only grows.                                                             *)
(***************************************************************************)
EXTENDS GiftLedger, Activities, WellFoundedInduction, TLAPS

States == [gifts : Seq(Nat), edits : Nat]

\* What each file holds.
Kind(file) ==
  CASE file \in {"events", "history"} -> Seq(Nat)
    [] file = "config" -> Nat
    [] file = "transaction" -> States \cup {NoTransaction}
    [] file = "intent" -> BOOLEAN

FilesFine(d) ==
  /\ d = [file \in Files |-> d[file]]
  /\ \A file \in Files : d[file] \in Kind(file)

Stores ==
  [at : {"idle", "recover", "endorse", "prepare", "apply", "remove", "marker", "retire"},
   task : {"none", "gift", "edit", "read", "reset"}, shard : Nat,
   recovering : BOOLEAN, endorsed : BOOLEAN,
   block : {"none", "endorsement", "unreadable", "reset", "reset failed"},
   intent : {"none", "valid", "durable"}, broken : BOOLEAN]
Claims == [at : {"idle", "claimed", "settled"}, gift : Nat]
Promises == [accepted : SUBSET Nat, edits : Nat, erased : SUBSET Nat]
Budgets == [gifts : Nat, edits : Nat, resets : Nat, failures : Nat, crashes : Nat]

LedgerTypes ==
  /\ FilesFine(disk) /\ FilesFine(stable)
  /\ pending \subseteq Nat /\ kept \subseteq Nat
  /\ store \in Stores /\ consumer \in Claims
  /\ reset \in {"none", "marker", "inbox", "artifacts"}
  /\ answers \in Promises /\ budget \in Budgets

\* Nothing tells of a gift.
Empty(d) ==
  d["events"] = <<>> /\ d["history"] = <<>> /\ d["config"] = 0 /\ d["transaction"] = NoTransaction

Extends(t, w) == ToSet(w.gifts) \subseteq ToSet(t.gifts) /\ w.edits <= t.edits

Agreed == disk["transaction"] # NoTransaction /\ stable["transaction"] = disk["transaction"]

Journal ==
  \/ Agreed
  \/ /\ disk["history"] = stable["history"] /\ disk["config"] = stable["config"]
     /\ stable["transaction"] \in {NoTransaction, Written(disk)}
     /\ disk["transaction"] # NoTransaction => Extends(disk["transaction"], Written(disk))

\* The marker is visible, or would be after a power failure; or both.
Marked == disk["intent"] \/ stable["intent"]
MarkedForGood == disk["intent"] /\ stable["intent"]

\* What counts in the worst case.
Sure == IF Agreed THEN disk["transaction"] ELSE Written(disk)

Operating == store.at \in {"recover", "endorse", "prepare", "apply", "remove"}

\* A transaction that is being applied is durable, and so is what was applied of it.
Stages ==
  /\ store.at = "endorse" => disk["transaction"] # NoTransaction
  /\ store.at = "prepare" => disk["transaction"] = NoTransaction
  /\ store.at \in {"apply", "remove"} => Agreed /\ stable = disk
  /\ store.at = "apply" => store.shard \in 1..3
  /\ store.at = "apply" /\ store.shard >= 3 => disk["history"] = disk["transaction"].gifts
  /\ store.at = "remove" => Written(disk) = disk["transaction"]
  /\ store.at \in {"apply", "remove"} /\ ~store.recovering =>
       /\ store.task \in {"gift", "edit"}
       /\ store.task = "gift" => consumer.gift \in ToSet(disk["transaction"].gifts)
       /\ store.task = "edit" => answers.edits < disk["transaction"].edits

\* Who is in a call of the store.
Calls ==
  /\ store.at = "idle" <=> store.task = "none"
  /\ store.at # "idle" /\ store.task = "gift" => consumer.at = "claimed"
  /\ store.at \in {"marker", "retire"} => store.task = "reset"
  /\ reset # "none" => consumer = NoClaim
  /\ reset = "marker" <=> store.task = "reset" /\ store.at # "retire"
  /\ reset = "artifacts" <=> store.at = "retire"
  /\ reset = "inbox" => store.at = "idle"
  /\ consumer.at # "idle" => consumer.gift \in pending
  /\ consumer.at = "settled" => consumer.gift \in ToSet(Sure.gifts)
  /\ consumer.at = "idle" <=> consumer = NoClaim

\* The marker stops everything but the reset, which needs a durable one.
Markers ==
  /\ ~MarkedForGood => Journal
  /\ Marked =>
       /\ store.block \notin {"none", "endorsement"} /\ ~Operating
       /\ answers.accepted = {} /\ answers.edits = 0
  /\ store.intent = "durable" =>
       stable["intent"] /\ (disk["intent"] \/ (Empty(disk) /\ Empty(stable) /\ pending = {} /\ kept = {}))
  /\ reset \in {"inbox", "artifacts"} => store.intent = "durable"
  /\ store.intent # "none" => Marked

Retires ==
  store.at = "retire" =>
    /\ pending = {} /\ kept = {}
    /\ store.shard \in 1..5
    /\ store.shard > 3 => ~store.broken
    /\ ~store.broken => \A i \in 1 .. store.shard - 1 :
         disk[Retired[i]] = Blank(Retired[i]) /\ stable[Retired[i]] = Blank(Retired[i])

\* Every gift that is stored anywhere.
StoredIn(d) == ToSet(d["events"]) \cup ToSet(d["history"]) \cup ToSet(d["transaction"].gifts)
Stored == pending \cup kept \cup StoredIn(disk) \cup StoredIn(stable)

OnceEach(d) == IsInjective(d["events"]) /\ IsInjective(d["history"]) /\ IsInjective(d["transaction"].gifts)

Gifts ==
  /\ OnceEach(disk) /\ OnceEach(stable)
  /\ Stored \cup answers.erased \subseteq 1..budget.gifts
  /\ answers.erased \cap Stored = {}

Answered ==
  /\ answers.accepted \subseteq (pending \cap kept) \cup ToSet(Sure.gifts)
  /\ answers.edits <= Sure.edits

LedgerInv == LedgerTypes /\ Stages /\ Calls /\ Markers /\ Retires /\ Gifts /\ Answered

-----------------------------------------------------------------------------
(* Files. *)

LEMMA FileFacts ==
  ASSUME NEW d, FilesFine(d)
  PROVE  /\ d["events"] \in Seq(Nat) /\ d["history"] \in Seq(Nat) /\ d["config"] \in Nat
         /\ d["transaction"] \in States \cup {NoTransaction} /\ d["intent"] \in BOOLEAN
         /\ Written(d) \in States /\ Written(d).gifts = d["history"] /\ Written(d).edits = d["config"]
         /\ Written(d) # NoTransaction
         /\ d["transaction"].gifts \in Seq(Nat)
<1>1. /\ d["events"] \in Seq(Nat) /\ d["history"] \in Seq(Nat) /\ d["config"] \in Nat
      /\ d["transaction"] \in States \cup {NoTransaction} /\ d["intent"] \in BOOLEAN
  BY DEF FilesFine, Files, Kind
<1>2. Written(d) \in States /\ Written(d).gifts = d["history"] /\ Written(d).edits = d["config"]
  BY <1>1 DEF Written, States
<1>3. Written(d) # NoTransaction
  BY <1>2 DEF NoTransaction, States
<1>4. d["transaction"].gifts \in Seq(Nat)
  <2>1. NoTransaction.gifts = <<>> /\ <<>> \in Seq(Nat)
    BY DEF NoTransaction
  <2>2. \A t \in States : t.gifts \in Seq(Nat)
    BY DEF States
  <2> QED BY <1>1, <2>1, <2>2
<1> QED BY <1>1, <1>2, <1>3, <1>4

LEMMA PutFacts ==
  ASSUME FilesFine(disk), FilesFine(stable), budget \in Budgets,
         NEW file \in Files, NEW content \in Kind(file), NEW result \in Results,
         Put(file, content, result)
  PROVE  /\ FilesFine(disk') /\ FilesFine(stable')
         /\ \A f \in Files \ {file} : disk'[f] = disk[f]
         /\ disk'[file] = IF result = "fails" THEN disk[file] ELSE content
         /\ result = "fails" => disk' = disk
         /\ result = "durable" => stable' = disk'
         /\ result # "durable" => stable' = stable
         /\ budget' \in Budgets
         /\ budget'.gifts = budget.gifts
<1>1. /\ disk' = IF result = "fails" THEN disk ELSE [disk EXCEPT ![file] = content]
      /\ stable' = IF result = "durable" THEN disk' ELSE stable
      /\ Pays(result)
  BY DEF Put
<1>2. DOMAIN disk = Files
  BY DEF FilesFine
<1>3. /\ \A f \in Files \ {file} : disk'[f] = disk[f]
      /\ disk'[file] = IF result = "fails" THEN disk[file] ELSE content
      /\ disk' = [f \in Files |-> disk'[f]]
  BY <1>1, <1>2 DEF FilesFine
<1>4. FilesFine(disk')
  BY <1>3 DEF FilesFine
<1>5. FilesFine(stable')
  BY <1>1, <1>4
<1>6. /\ budget' \in Budgets
      /\ budget'.gifts = budget.gifts
  BY <1>1 DEF Pays, Budgets
<1> QED BY <1>1, <1>3, <1>4, <1>5, <1>6 DEF Results

-----------------------------------------------------------------------------
(* Types. *)

LEMMA RestTypes ==
  /\ Idle \in Stores /\ NoClaim \in Claims
  /\ store \in Stores => Released \in Stores
  /\ \A f \in Files : Blank(f) \in Kind(f)
<1>1. Idle \in Stores /\ NoClaim \in Claims
  BY DEF Idle, Stores, NoClaim, Claims
<1>2. store \in Stores => Released \in Stores
  BY DEF Released, Stores
<1>3. \A f \in Files : Blank(f) \in Kind(f)
  <2>1. <<>> \in Seq(Nat)
    OBVIOUS
  <2> QED BY <2>1 DEF Files, Blank, Kind
<1> QED BY <1>1, <1>2, <1>3

LEMMA CountTypes ==
  /\ store \in Stores => \A broken \in BOOLEAN :
       /\ [store EXCEPT !.shard = @ + 1] \in Stores
       /\ [store EXCEPT !.shard = @ + 1, !.broken = broken] \in Stores
  /\ budget \in Budgets /\ budget.failures > 0 =>
       [budget EXCEPT !.gifts = @ + 1, !.failures = @ - 1] \in Budgets
<1>1. ASSUME store \in Stores, NEW broken \in BOOLEAN
      PROVE  /\ [store EXCEPT !.shard = @ + 1] \in Stores
             /\ [store EXCEPT !.shard = @ + 1, !.broken = broken] \in Stores
  <2>1. store.shard \in Nat
    BY <1>1 DEF Stores
  <2>2. PICK n \in Nat : n = store.shard + 1
    BY <2>1
  <2>3. [store EXCEPT !.shard = n] \in Stores /\ [store EXCEPT !.shard = n, !.broken = broken] \in Stores
    BY <1>1 DEF Stores
  <2> QED BY <2>2, <2>3
<1>2. ASSUME budget \in Budgets, budget.failures > 0
      PROVE  [budget EXCEPT !.gifts = @ + 1, !.failures = @ - 1] \in Budgets
  <2>1. PICK n \in Nat, m \in Nat : n = budget.gifts + 1 /\ m = budget.failures - 1
    BY <1>2 DEF Budgets
  <2>2. [budget EXCEPT !.gifts = n, !.failures = m] \in Budgets
    BY <1>2 DEF Budgets
  <2> QED BY <2>1, <2>2
<1> QED BY <1>1, <1>2

LEMMA OutcomeTypes ==
  ASSUME store \in Stores, consumer \in Claims, answers \in Promises, NEW after \in Stores,
         Fails(after) \/ FailsSettled(after) \/ Succeeds(after)
  PROVE  store' \in Stores /\ consumer' \in Claims /\ answers' \in Promises
<1>1. store' \in Stores
  BY DEF Fails, FailsSettled, Succeeds, Stores
<1>2. consumer' \in Claims
  BY RestTypes DEF Fails, FailsSettled, Succeeds, Claims
<1>3. answers' \in Promises
  BY DEF Fails, FailsSettled, Succeeds, Promises
<1> QED BY <1>1, <1>2, <1>3

LEMMA ChangedType ==
  ASSUME FilesFine(disk), consumer \in Claims
  PROVE  /\ Changed \in States
         /\ store.task # "gift" => Changed.gifts = disk["history"] /\ Changed.edits = disk["config"] + 1
         /\ store.task = "gift" => Changed.gifts = Append(disk["history"], consumer.gift) /\ Changed.edits = disk["config"]
<1>1. Written(disk) \in States /\ Written(disk).gifts = disk["history"] /\ Written(disk).edits = disk["config"]
  BY FileFacts
<1>2. consumer.gift \in Nat
  BY DEF Claims
<1>3. CASE store.task = "gift"
  <2>1. Changed = [Written(disk) EXCEPT !.gifts = Append(@, consumer.gift)]
    BY <1>3 DEF Changed
  <2>2. Append(disk["history"], consumer.gift) \in Seq(Nat)
    BY <1>1, <1>2 DEF States
  <2> QED BY <1>1, <1>3, <2>1, <2>2 DEF States
<1>4. CASE store.task # "gift"
  <2>1. Changed = [Written(disk) EXCEPT !.edits = @ + 1]
    BY <1>4 DEF Changed
  <2> QED BY <1>1, <1>4, <2>1 DEF States
<1> QED BY <1>3, <1>4

LEMMA ShardFacts ==
  ASSUME LedgerTypes, Stages, store.at = "apply"
  PROVE  /\ Shards[store.shard] \in {"events", "history", "config"}
         /\ Shards[store.shard] = IF store.shard = 1 THEN "events" ELSE IF store.shard = 2 THEN "history" ELSE "config"
         /\ Content(disk["transaction"], Shards[store.shard]) \in Kind(Shards[store.shard])
         /\ disk["transaction"] \in States
         /\ Len(Shards) = 3
<1>1. store.shard \in 1..3 /\ disk["transaction"] \in States
  <2>1. disk["transaction"] \in States \cup {NoTransaction}
    BY FileFacts DEF LedgerTypes
  <2> QED BY <2>1 DEF Stages, Agreed
<1>2. Shards[store.shard] = IF store.shard = 1 THEN "events" ELSE IF store.shard = 2 THEN "history" ELSE "config"
  BY <1>1 DEF Shards
<1>3. disk["transaction"].gifts \in Seq(Nat) /\ disk["transaction"].edits \in Nat
  BY <1>1 DEF States
<1>4. Len(Shards) = 3
  BY DEF Shards
<1> QED BY <1>1, <1>2, <1>3, <1>4 DEF Content, Kind

LEMMA RetiredFacts ==
  ASSUME NEW n \in 1..5
  PROVE  /\ Retired[n] \in Files
         /\ Retired[n] = IF n = 1 THEN "config" ELSE IF n = 2 THEN "history" ELSE IF n = 3 THEN "events"
                         ELSE IF n = 4 THEN "transaction" ELSE "intent"
         /\ Len(Retired) = 5 /\ Len(Shards) = 3
BY DEF Retired, Files, Shards

LEMMA LedgerTypesStep ==
  ASSUME LedgerTypes, Stages, Retires, [LedgerNext]_ledgerVars
  PROVE  LedgerTypes'
<1>1. /\ FilesFine(disk) /\ FilesFine(stable)
      /\ pending \subseteq Nat /\ kept \subseteq Nat
      /\ store \in Stores /\ consumer \in Claims
      /\ reset \in {"none", "marker", "inbox", "artifacts"}
      /\ answers \in Promises /\ budget \in Budgets
  BY DEF LedgerTypes
<1>2. Idle \in Stores /\ NoClaim \in Claims /\ Released \in Stores
  BY <1>1, RestTypes
<1>3. CASE UNCHANGED ledgerVars
  BY <1>3, <1>1 DEF ledgerVars, LedgerTypes
<1>4. ASSUME NEW task \in {"gift", "edit", "read"}, CallStore(task), UNCHANGED consumer,
             budget' = budget \/ (budget' = [budget EXCEPT !.edits = @ - 1] /\ budget.edits > 0)
      PROVE  LedgerTypes'
  <2>1. store' \in Stores
    BY <1>1, <1>4 DEF CallStore, Stores
  <2>2. budget' \in Budgets
    BY <1>1, <1>4 DEF Budgets
  <2> QED BY <1>1, <1>4, <2>1, <2>2 DEF CallStore, LedgerTypes
<1>5. CASE CallGift \/ CallEdit \/ CallRead
  <2>1. CASE CallGift
    BY <1>4, <2>1 DEF CallGift
  <2>2. CASE CallEdit
    BY <1>4, <2>2 DEF CallEdit
  <2>3. CASE CallRead
    BY <1>4, <2>3 DEF CallRead
  <2> QED BY <1>5, <2>1, <2>2, <2>3
<1>6. CASE ReadTransaction
  <2>1. store' \in Stores
    BY <1>1, <1>6 DEF ReadTransaction, Stores
  <2> QED BY <1>1, <1>6, <2>1 DEF ReadTransaction, LedgerTypes
<1>7. CASE ReadTransactionFails
  <2>1. [Released EXCEPT !.block = IF store.endorsed THEN @ ELSE "unreadable"] \in Stores
    BY <1>2 DEF Stores
  <2>2. store' \in Stores /\ consumer' \in Claims /\ answers' \in Promises
    BY <1>1, <1>7, <2>1, OutcomeTypes DEF ReadTransactionFails
  <2>3. budget' \in Budgets
    BY <1>1, <1>7 DEF ReadTransactionFails, Pays, Budgets
  <2> QED BY <1>1, <1>7, <2>2, <2>3 DEF ReadTransactionFails, LedgerTypes
<1>8. CASE StoreRecovered
  <2>1. Fails(Released) \/ Succeeds(Released)
    BY <1>8 DEF StoreRecovered
  <2>2. store' \in Stores /\ consumer' \in Claims /\ answers' \in Promises
    BY <1>1, <1>2, <2>1, OutcomeTypes
  <2> QED BY <1>1, <1>8, <2>2 DEF StoreRecovered, LedgerTypes
<1>9. ASSUME NEW result \in Results, Endorse(result) PROVE LedgerTypes'
  <2>1. Put("transaction", disk["transaction"], result) /\ disk["transaction"] \in Kind("transaction") /\ "transaction" \in Files
    BY <1>1, <1>9 DEF Endorse, FilesFine, Files
  <2>2. FilesFine(disk') /\ FilesFine(stable') /\ budget' \in Budgets
    BY <1>1, <2>1, PutFacts
  <2>3. [Released EXCEPT !.endorsed = FALSE, !.block = "endorsement"] \in Stores
    BY <1>2 DEF Stores
  <2>4. store' \in Stores /\ consumer' \in Claims /\ answers' \in Promises
    <3>1. CASE Endorses(result)
      <4>1. store' = [store EXCEPT !.at = "apply", !.shard = 1, !.recovering = TRUE,
                                   !.endorsed = TRUE, !.block = "none"]
            /\ UNCHANGED <<consumer, answers>>
        BY <1>9, <3>1 DEF Endorse
      <4> QED BY <1>1, <4>1 DEF Stores
    <3>2. CASE ~Endorses(result)
      BY <1>1, <1>9, <2>3, <3>2, OutcomeTypes DEF Endorse
    <3> QED BY <3>1, <3>2
  <2> QED BY <1>1, <1>9, <2>2, <2>4 DEF Endorse, LedgerTypes
<1>10. ASSUME NEW result \in Results, Prepare(result) PROVE LedgerTypes'
  <2>1. Put("transaction", Changed, result) /\ Changed \in Kind("transaction") /\ "transaction" \in Files
    BY <1>1, <1>10, ChangedType DEF Prepare, Kind, Files
  <2>2. FilesFine(disk') /\ FilesFine(stable') /\ budget' \in Budgets
    BY <1>1, <2>1, PutFacts
  <2>3. store' \in Stores /\ consumer' \in Claims /\ answers' \in Promises
    <3>1. CASE Prepared(result)
      <4>1. store' = [store EXCEPT !.at = "apply", !.shard = 1] /\ UNCHANGED <<consumer, answers>>
        BY <1>10, <3>1 DEF Prepare
      <4> QED BY <1>1, <4>1 DEF Stores
    <3>2. CASE ~Prepared(result)
      BY <1>1, <1>2, <1>10, <3>2, OutcomeTypes DEF Prepare
    <3> QED BY <3>1, <3>2
  <2> QED BY <1>1, <1>10, <2>2, <2>3 DEF Prepare, LedgerTypes
<1>11. ASSUME NEW result \in Results, ApplyShard(result) PROVE LedgerTypes'
  <2>1. Put(Shards[store.shard], Content(disk["transaction"], Shards[store.shard]), result) /\ store.at = "apply"
    BY <1>11 DEF ApplyShard, PutShard
  <2>2. Shards[store.shard] \in Files /\ Content(disk["transaction"], Shards[store.shard]) \in Kind(Shards[store.shard])
    BY <2>1, ShardFacts DEF Files
  <2>3. FilesFine(disk') /\ FilesFine(stable') /\ budget' \in Budgets
    BY <1>1, <2>1, <2>2, PutFacts
  <2>4. store' \in Stores /\ consumer' \in Claims /\ answers' \in Promises
    <3>1. CASE result = "durable"
      <4>1. store' = NextShard /\ UNCHANGED <<consumer, answers>>
        BY <1>11, <3>1 DEF ApplyShard
      <4>2. NextShard \in Stores
        <5>1. [store EXCEPT !.shard = @ + 1] \in Stores
          BY <1>1, CountTypes
        <5>2. [store EXCEPT !.at = "remove", !.shard = 0] \in Stores
          BY <1>1 DEF Stores
        <5> QED BY <5>1, <5>2 DEF NextShard
      <4> QED BY <1>1, <4>1, <4>2
    <3>2. CASE result # "durable"
      BY <1>1, <1>2, <1>11, <3>2, OutcomeTypes DEF ApplyShard
    <3> QED BY <3>1, <3>2
  <2> QED BY <1>1, <1>11, <2>3, <2>4 DEF ApplyShard, LedgerTypes
<1>12. ASSUME NEW result \in Results, RemoveTransaction(result) PROVE LedgerTypes'
  <2>1. Put("transaction", NoTransaction, result) /\ NoTransaction \in Kind("transaction") /\ "transaction" \in Files
    BY <1>12 DEF RemoveTransaction, Kind, Files
  <2>2. FilesFine(disk') /\ FilesFine(stable') /\ budget' \in Budgets
    BY <1>1, <2>1, PutFacts
  <2>3. store' \in Stores /\ consumer' \in Claims /\ answers' \in Promises
    <3>1. CASE result = "durable" /\ store.recovering
      BY <1>1, <1>12, <3>1 DEF RemoveTransaction, Stores
    <3>2. CASE ~(result = "durable" /\ store.recovering)
      BY <1>1, <1>2, <1>12, <3>2, OutcomeTypes DEF RemoveTransaction
    <3> QED BY <3>1, <3>2
  <2> QED BY <1>1, <1>12, <2>2, <2>3 DEF RemoveTransaction, LedgerTypes
<1>13. ASSUME NEW result \in Results, AcceptRecord(result) PROVE LedgerTypes'
  <2> DEFINE gift == budget.gifts + 1
  <2>1. gift \in Nat
    BY <1>1 DEF Budgets
  <2>2. pending' \subseteq Nat /\ kept' \subseteq Nat
    BY <1>1, <1>13, <2>1 DEF AcceptRecord
  <2>3. budget' \in Budgets
    <3>1. \/ budget' = [budget EXCEPT !.gifts = budget.gifts + 1]
          \/ budget.failures > 0 /\ budget' = [budget EXCEPT !.gifts = budget.gifts + 1, !.failures = @ - 1]
      BY <1>13 DEF AcceptRecord
    <3>2. CASE budget' = [budget EXCEPT !.gifts = budget.gifts + 1]
      BY <1>1, <3>2 DEF Budgets
    <3>3. CASE budget.failures > 0 /\ budget' = [budget EXCEPT !.gifts = budget.gifts + 1, !.failures = @ - 1]
      BY <1>1, <3>3, CountTypes
    <3> QED BY <3>1, <3>2, <3>3
  <2>4. answers' \in Promises
    BY <1>1, <1>13, <2>1 DEF AcceptRecord, Promises
  <2> QED BY <1>1, <1>13, <2>2, <2>3, <2>4 DEF AcceptRecord, LedgerTypes
<1>14. CASE Claim
  <2>1. consumer' \in Claims
    BY <1>1, <1>14 DEF Claim, Claims
  <2> QED BY <1>1, <1>14, <2>1 DEF Claim, LedgerTypes
<1>15. CASE ReleaseRecord \/ Acknowledge \/ AcknowledgeFails
  <2>1. pending' \subseteq pending /\ consumer' = NoClaim /\ UNCHANGED <<disk, stable, kept, store, reset, answers>>
    BY <1>15 DEF ReleaseRecord, Acknowledge, AcknowledgeFails
  <2>2. budget' \in Budgets
    BY <1>1, <1>15 DEF ReleaseRecord, Acknowledge, AcknowledgeFails, Pays, Budgets
  <2> QED BY <1>1, <1>2, <2>1, <2>2 DEF LedgerTypes
<1>16. CASE Reset
  <2>1. store' \in Stores /\ reset' \in {"none", "marker", "inbox", "artifacts"}
    BY <1>1, <1>16 DEF Reset, Stores
  <2>2. budget' \in Budgets
    BY <1>1, <1>16 DEF Reset, Budgets
  <2> QED BY <1>1, <1>16, <2>1, <2>2 DEF Reset, LedgerTypes
<1>17. ASSUME NEW result \in Results, WriteMarker(result) PROVE LedgerTypes'
  <2>1. Put("intent", TRUE, result) /\ TRUE \in Kind("intent") /\ "intent" \in Files
    BY <1>17 DEF WriteMarker, Kind, Files
  <2>2. FilesFine(disk') /\ FilesFine(stable') /\ budget' \in Budgets
    BY <1>1, <2>1, PutFacts
  <2>3. store' \in Stores /\ reset' \in {"none", "marker", "inbox", "artifacts"}
    <3>1. PICK i \in {"none", "valid", "durable"}, b \in {"reset", "reset failed"} :
            store' = [Released EXCEPT !.intent = i, !.block = b]
      <4>1. Released.intent \in {"none", "valid", "durable"}
        BY <1>2 DEF Stores
      <4> QED BY <1>17, <4>1 DEF WriteMarker, Results
    <3>2. store' \in Stores
      BY <1>2, <3>1 DEF Stores
    <3> QED BY <1>17, <3>2 DEF WriteMarker
  <2>4. answers' \in Promises
    BY <1>1, <1>17 DEF WriteMarker, Promises
  <2> QED BY <1>1, <1>17, <2>2, <2>3, <2>4 DEF WriteMarker, LedgerTypes
<1>18. ResetFails => store' \in Stores /\ reset' = "none"
  <2> SUFFICES ASSUME ResetFails PROVE store' \in Stores /\ reset' = "none"
    OBVIOUS
  <2>1. store' = [Released EXCEPT !.block = "reset failed", !.broken = FALSE, !.shard = 0] /\ reset' = "none"
    BY DEF ResetFails
  <2>2. store' \in Stores
    BY <1>2, <2>1 DEF Stores
  <2> QED BY <2>1, <2>2
<1>19. ASSUME NEW result \in Results, RetireRecord(result) \/ SynchronizeInbox(result) PROVE LedgerTypes'
  <2>1. store' \in Stores /\ reset' \in {"none", "marker", "inbox", "artifacts"}
    <3>1. [store EXCEPT !.at = "retire", !.task = "reset", !.shard = 1] \in Stores
      BY <1>1 DEF Stores
    <3> QED BY <1>1, <1>18, <1>19, <3>1 DEF RetireRecord, SynchronizeInbox
  <2>2. budget' \in Budgets
    BY <1>1, <1>19 DEF RetireRecord, SynchronizeInbox, Pays, Budgets
  <2>3. pending' \subseteq Nat /\ kept' \subseteq Nat
    BY <1>1, <1>19 DEF RetireRecord, SynchronizeInbox
  <2> QED BY <1>1, <1>19, <2>1, <2>2, <2>3 DEF RetireRecord, SynchronizeInbox, LedgerTypes
<1>20. ASSUME NEW result \in Results, RetireArtifact(result) PROVE LedgerTypes'
  <2> DEFINE file == Retired[store.shard]
  <2>1. file \in Files /\ Blank(file) \in Kind(file)
    BY <1>20, RetiredFacts, RestTypes DEF RetireArtifact, Retires
  <2>2. FilesFine(disk') /\ FilesFine(stable') /\ budget' \in Budgets
    <3>1. CASE disk[file] = Blank(file) /\ stable[file] = Blank(file)
      BY <1>1, <1>20, <3>1 DEF RetireArtifact
    <3>2. CASE ~(disk[file] = Blank(file) /\ stable[file] = Blank(file))
      <4>1. Put(file, Blank(file), result)
        BY <1>20, <3>2 DEF RetireArtifact
      <4> HIDE DEF file
      <4> QED BY <1>1, <2>1, <4>1, PutFacts
    <3> QED BY <3>1, <3>2
  <2>3. store' \in Stores /\ reset' \in {"none", "marker", "inbox", "artifacts"}
    <3>1. \A broken \in BOOLEAN : [store EXCEPT !.shard = @ + 1, !.broken = broken] \in Stores
      BY <1>1, CountTypes
    <3>2. (store.broken \/ result # "durable") \in BOOLEAN
      OBVIOUS
    <3>3. \/ ResetFails
          \/ store' = [store EXCEPT !.shard = @ + 1, !.broken = store.broken \/ result # "durable"] /\ UNCHANGED reset
          \/ store' = Idle /\ reset' = "none"
      BY <1>20 DEF RetireArtifact
    <3> QED BY <1>1, <1>2, <1>18, <3>1, <3>2, <3>3
  <2>4. answers' \in Promises
    BY <1>1, <1>20 DEF RetireArtifact, Promises, Budgets
  <2> QED BY <1>1, <1>20, <2>2, <2>3, <2>4 DEF RetireArtifact, LedgerTypes
<1>21. CASE Crash
  <2>1. FilesFine(disk') /\ FilesFine(stable')
    BY <1>1, <1>21 DEF Crash, FilesFine
  <2>2. pending' \subseteq Nat /\ kept' \subseteq Nat
    BY <1>1, <1>21 DEF Crash
  <2>3. store' \in Stores
    BY <1>2, <1>21 DEF Crash, Stores
  <2>4. budget' \in Budgets
    BY <1>1, <1>21 DEF Crash, Budgets
  <2> QED BY <1>1, <1>2, <1>21, <2>1, <2>2, <2>3, <2>4 DEF Crash, LedgerTypes
<1> QED BY <1>3, <1>5, <1>6, <1>7, <1>8, <1>9, <1>10, <1>11, <1>12, <1>13, <1>14, <1>15, <1>16, <1>17,
          <1>19, <1>20, <1>21 DEF LedgerNext

-----------------------------------------------------------------------------
(* What every step of a call of the store keeps. *)

LEMMA StoreFacts ==
  ASSUME LedgerTypes
  PROVE  /\ FilesFine(disk) /\ FilesFine(stable)
         /\ store \in Stores /\ Released \in Stores
         /\ consumer \in Claims /\ consumer.gift \in Nat
         /\ answers.edits \in Nat /\ budget.gifts \in Nat
         /\ Released.at = "idle" /\ Released.task = "none"
         /\ Released.block = store.block /\ Released.intent = store.intent
         /\ Sure \in States
<1>1. FilesFine(disk) /\ FilesFine(stable) /\ store \in Stores /\ consumer \in Claims
  BY DEF LedgerTypes
<1>2. answers.edits \in Nat /\ budget.gifts \in Nat
  BY DEF LedgerTypes, Promises, Budgets
<1>3. consumer.gift \in Nat
  BY <1>1 DEF Claims
<1>4. /\ Released.at = "idle" /\ Released.task = "none"
      /\ Released.block = store.block /\ Released.intent = store.intent
  BY <1>1 DEF Released, Stores
<1>5. Sure \in States
  BY <1>1, FileFacts DEF Sure, Agreed
<1> QED BY <1>1, <1>2, <1>3, <1>4, <1>5, RestTypes

LEMMA LaterTypes ==
  ASSUME LedgerTypes'
  PROVE  /\ FilesFine(disk') /\ FilesFine(stable')
         /\ Sure' \in States
<1>1. FilesFine(disk') /\ FilesFine(stable')
  BY DEF LedgerTypes
<1>2. /\ Written(disk') \in States
      /\ disk'["transaction"] \in States \cup {NoTransaction}
  BY <1>1, FileFacts
<1> QED BY <1>1, <1>2 DEF Sure, Agreed, Written

LEMMA JournalCovers ==
  ASSUME LedgerTypes, Journal
  PROVE  Extends(Authoritative(disk), Sure)
<1>1. /\ Written(disk) \in States /\ Written(disk) # NoTransaction
      /\ disk["transaction"] \in States \cup {NoTransaction}
  BY StoreFacts, FileFacts
<1>2. CASE Agreed
  BY <1>1, <1>2 DEF Agreed, Authoritative, Sure, Extends, States
<1>3. CASE ~Agreed
  BY <1>1, <1>3 DEF Journal, Authoritative, Sure, Extends, States
<1> QED BY <1>2, <1>3

LEMMA GiftsKept ==
  ASSUME LedgerTypes, LedgerTypes', Gifts, Stored' \subseteq Stored, OnceEach(disk)', OnceEach(stable)',
         budget'.gifts >= budget.gifts, answers'.erased = answers.erased
  PROVE  Gifts'
<1>1. 1..budget.gifts \subseteq 1..budget'.gifts
  BY StoreFacts DEF LedgerTypes, Budgets
<1> QED BY <1>1 DEF Gifts

LEMMA SameFiles ==
  ASSUME UNCHANGED <<disk, stable>>
  PROVE  /\ Sure' = Sure /\ (Journal <=> Journal') /\ (Agreed <=> Agreed') /\ (Marked <=> Marked')
         /\ (MarkedForGood <=> MarkedForGood')
         /\ Written(disk)' = Written(disk)
         /\ (OnceEach(disk) => OnceEach(disk)') /\ (OnceEach(stable) => OnceEach(stable)')
         /\ UNCHANGED <<StoredIn(disk), StoredIn(stable)>>
         /\ Empty(disk)' = Empty(disk) /\ Empty(stable)' = Empty(stable)
BY DEF Sure, Journal, Agreed, Marked, MarkedForGood, Written, OnceEach, StoredIn, Empty

LEMMA QuietLedger ==
  ASSUME LedgerInv, LedgerTypes', UNCHANGED <<disk, stable, pending, kept, answers>>, budget'.gifts = budget.gifts
  PROVE  Gifts' /\ Answered'
<1>1. Gifts'
  BY SameFiles DEF LedgerInv, Gifts, Stored
<1>2. Answered'
  BY SameFiles DEF LedgerInv, Answered
<1> QED BY <1>1, <1>2

LEMMA OperatingMarkers ==
  ASSUME LedgerInv, Operating, ~Marked', Journal', UNCHANGED reset, store'.intent = store.intent
  PROVE  Markers'
<1>1. ~Marked /\ reset \in {"none", "marker"} /\ store.intent = "none"
  BY DEF LedgerInv, Markers, Calls, Operating, LedgerTypes, Stores
<1> QED BY <1>1 DEF Markers

LEMMA OutcomeCalls ==
  ASSUME LedgerInv, LedgerTypes', Operating, UNCHANGED <<pending, reset>>,
         ToSet(Sure.gifts) \subseteq ToSet(Sure.gifts)',
         \/ /\ store'.task = store.task /\ consumer' = consumer
            /\ store'.at \in {"recover", "endorse", "prepare", "apply", "remove"}
         \/ \E after \in Stores :
              /\ after.at = "idle" /\ after.task = "none"
              /\ \/ Fails(after)
                 \/ /\ Succeeds(after) /\ store.task # "reset"
                    /\ store.task = "gift" => consumer.gift \in ToSet(Sure.gifts)'
  PROVE  Calls'
<1>1. /\ Calls /\ store \in Stores /\ consumer \in Claims
      /\ store.at \in {"recover", "endorse", "prepare", "apply", "remove"}
      /\ NoClaim.at = "idle"
  BY DEF LedgerInv, LedgerTypes, Operating, NoClaim
<1>2. CASE /\ store'.task = store.task /\ consumer' = consumer
           /\ store'.at \in {"recover", "endorse", "prepare", "apply", "remove"}
  BY <1>1, <1>2 DEF Calls
<1>3. ASSUME NEW after \in Stores, after.at = "idle", after.task = "none", Fails(after)
      PROVE  Calls'
  <2>1. CASE store.task = "reset"
    <3>1. store'.at = "marker" /\ store'.task = "reset" /\ consumer' = consumer
      BY <1>3, <2>1 DEF Fails, Stores
    <3> QED BY <1>1, <2>1, <3>1 DEF Calls
  <2>2. CASE store.task # "reset"
    <3>1. store'.at = "idle" /\ store'.task = "none"
      BY <1>3, <2>2 DEF Fails
    <3>2. consumer' = NoClaim \/ (store.task # "gift" /\ consumer' = consumer)
      BY <1>3 DEF Fails
    <3> QED BY <1>1, <2>2, <3>1, <3>2 DEF Calls
  <2> QED BY <2>1, <2>2
<1>4. ASSUME NEW after \in Stores, after.at = "idle", after.task = "none", Succeeds(after), store.task # "reset",
             store.task = "gift" => consumer.gift \in ToSet(Sure.gifts)'
      PROVE  Calls'
  <2>1. store'.at = "idle" /\ store'.task = "none"
    BY <1>4 DEF Succeeds
  <2>2. CASE store.task = "gift"
    <3>1. consumer'.at = "settled" /\ consumer'.gift = consumer.gift /\ consumer.at = "claimed"
      BY <1>1, <1>4, <2>2 DEF Succeeds, Claims, Calls
    <3>2. consumer' # NoClaim /\ reset = "none"
      BY <1>1, <2>2, <3>1 DEF Calls, LedgerInv, LedgerTypes
    <3> QED BY <1>1, <1>4, <2>1, <2>2, <3>1, <3>2 DEF Calls
  <2>3. CASE store.task # "gift"
    <3>1. consumer' = consumer
      BY <1>4, <2>3 DEF Succeeds
    <3> QED BY <1>1, <1>4, <2>1, <2>3, <3>1 DEF Calls
  <2> QED BY <2>2, <2>3
<1> QED BY <1>2, <1>3, <1>4

LEMMA OutcomeStages ==
  ASSUME NEW after \in Stores, after.at = "idle", Fails(after) \/ Succeeds(after)
  PROVE  /\ Stages' /\ Retires' /\ store'.intent = after.intent
<1>1. store'.at \in {"idle", "marker"} /\ store'.intent = after.intent
  BY DEF Fails, Succeeds, Stores
<1> QED BY <1>1 DEF Stages, Retires

-----------------------------------------------------------------------------
(* The steps of a call of the store. *)

LEMMA CallLedger ==
  ASSUME LedgerInv, LedgerTypes', NEW task \in {"gift", "edit", "read"}, CallStore(task), UNCHANGED consumer,
         task = "gift" => consumer.at = "claimed", budget'.gifts = budget.gifts
  PROVE  LedgerInv'
<1>1. /\ store.at = "idle" /\ store \in Stores /\ ~Blocked(task)
      /\ UNCHANGED <<disk, stable, pending, kept, reset, answers>>
      /\ store'.at = "recover" /\ store'.task = task /\ store'.intent = store.intent /\ store'.block = store.block
  <2>1. /\ store.at = "idle" /\ store \in Stores /\ ~Blocked(task)
        /\ UNCHANGED <<disk, stable, pending, kept, reset, answers>>
        /\ store' = [store EXCEPT !.at = "recover", !.task = task]
    BY DEF CallStore, LedgerInv, LedgerTypes
  <2>2. store'.at = "recover" /\ store'.task = task /\ store'.intent = store.intent /\ store'.block = store.block
    BY <2>1 DEF Stores
  <2> QED BY <2>1, <2>2
<1>2. store.block \in {"none", "endorsement"} /\ ~Marked
  BY <1>1 DEF Blocked, LedgerInv, Markers
<1>3. Gifts' /\ Answered'
  BY <1>1, QuietLedger
<1>4. Stages' /\ Retires'
  BY <1>1 DEF Stages, Retires
<1>5. Calls'
  <2>1. Calls /\ reset \in {"none", "inbox"} /\ (reset = "inbox" => Marked)
    BY <1>1 DEF LedgerInv, Calls, Markers, Marked, LedgerTypes
  <2> QED BY <1>1, <1>2, <2>1, SameFiles DEF Calls
<1>6. Markers'
  <2>1. reset \notin {"inbox", "artifacts"}
    BY <1>1, <1>2 DEF LedgerInv, Markers, Marked
  <2> QED BY <1>1, <1>2, <2>1, SameFiles DEF LedgerInv, Markers
<1> QED BY <1>3, <1>4, <1>5, <1>6 DEF LedgerInv

LEMMA ReadLedger ==
  ASSUME LedgerInv, LedgerTypes', ReadTransaction \/ ReadTransactionFails \/ StoreRecovered
  PROVE  LedgerInv'
<1>1. /\ store \in Stores /\ Released \in Stores /\ Operating /\ ~Marked /\ Journal
      /\ UNCHANGED <<disk, stable, pending, kept, reset, answers>> /\ budget'.gifts = budget.gifts
  <2>1. Operating
    BY DEF ReadTransaction, ReadTransactionFails, StoreRecovered, Operating
  <2>2. store.task = "edit" => ~StoreRecovered
    BY DEF StoreRecovered
  <2>3. UNCHANGED <<disk, stable, pending, kept, reset, answers>>
    BY <2>2 DEF ReadTransaction, ReadTransactionFails, StoreRecovered, Fails, Succeeds
  <2>4. budget'.gifts = budget.gifts
    BY DEF ReadTransaction, ReadTransactionFails, StoreRecovered, Pays, LedgerInv, LedgerTypes, Budgets
  <2> QED BY <2>1, <2>3, <2>4, StoreFacts DEF LedgerInv, Markers, Marked, MarkedForGood
<1>2. Gifts' /\ Answered'
  BY <1>1, QuietLedger
<1>3. ~Marked' /\ Journal' /\ ToSet(Sure.gifts) \subseteq ToSet(Sure.gifts)'
  BY <1>1, SameFiles
<1>4. CASE ReadTransaction
  <2>1. /\ store'.task = store.task /\ store'.intent = store.intent /\ consumer' = consumer
        /\ \/ disk["transaction"] = NoTransaction /\ store'.at = "prepare"
           \/ disk["transaction"] # NoTransaction /\ store'.at = "endorse"
    BY <1>1, <1>4 DEF ReadTransaction, Stores
  <2>2. Calls' /\ Markers'
    BY <1>1, <1>3, <2>1, OutcomeCalls, OperatingMarkers
  <2>3. Stages' /\ Retires'
    BY <1>1, <2>1 DEF Stages, Retires
  <2> QED BY <1>2, <2>2, <2>3 DEF LedgerInv
<1>5. CASE ReadTransactionFails
  <2> DEFINE after == [Released EXCEPT !.block = IF store.endorsed THEN @ ELSE "unreadable"]
  <2>1. after \in Stores /\ after.at = "idle" /\ after.task = "none" /\ after.intent = store.intent
    BY <1>1, StoreFacts DEF LedgerInv, Stores
  <2>2. Fails(after)
    BY <1>5 DEF ReadTransactionFails
  <2> HIDE DEF after
  <2>3. Calls'
    BY <1>1, <1>3, <2>1, <2>2, OutcomeCalls
  <2>4. Stages' /\ Retires' /\ store'.intent = store.intent
    BY <2>1, <2>2, OutcomeStages
  <2>5. Markers'
    BY <1>1, <1>3, <2>4, OperatingMarkers
  <2> QED BY <1>2, <2>3, <2>4, <2>5 DEF LedgerInv
<1>6. CASE StoreRecovered
  <2>1. /\ Released.at = "idle" /\ Released.task = "none" /\ Released.intent = store.intent
        /\ disk["transaction"] = NoTransaction
    BY <1>6, StoreFacts DEF LedgerInv, Stages, StoreRecovered
  <2>2. \/ Fails(Released)
        \/ Succeeds(Released) /\ store.task # "reset" /\ (store.task = "gift" => IsApplied)
    BY <1>6 DEF StoreRecovered
  <2>3. IsApplied => consumer.gift \in ToSet(Sure.gifts)'
    <3>1. Sure' = Written(disk)
      BY <1>1, <2>1, SameFiles DEF Sure, Agreed
    <3>2. disk["history"] \in Seq(Nat) /\ Written(disk).gifts = disk["history"]
      BY StoreFacts, FileFacts DEF LedgerInv
    <3> QED BY <3>1, <3>2 DEF IsApplied, Contains, ToSet
  <2>4. Calls'
    BY <1>1, <1>3, <2>1, <2>2, <2>3, OutcomeCalls
  <2>5. Stages' /\ Retires' /\ store'.intent = store.intent
    BY <1>1, <2>1, <2>2, OutcomeStages
  <2>6. Markers'
    BY <1>1, <1>3, <2>5, OperatingMarkers
  <2> QED BY <1>2, <2>4, <2>5, <2>6 DEF LedgerInv
<1> QED BY <1>4, <1>5, <1>6

\* A step of a call that writes a file: what was sure stays so.
LEMMA WritingLedger ==
  ASSUME LedgerInv, LedgerTypes', Operating, UNCHANGED <<pending, kept, reset>>,
         ~Marked', Journal', Gifts', ToSet(Sure.gifts) \subseteq ToSet(Sure.gifts)', Sure.edits <= Sure'.edits,
         \/ /\ store'.task = store.task /\ store'.intent = store.intent /\ UNCHANGED <<consumer, answers>>
            /\ store'.at \in {"recover", "endorse", "prepare", "apply", "remove"} /\ Stages'
         \/ \E after \in Stores :
              /\ after.at = "idle" /\ after.task = "none" /\ after.intent = store.intent
              /\ \/ Fails(after)
                 \/ /\ Succeeds(after) /\ store.task # "reset"
                    /\ store.task = "gift" => consumer.gift \in ToSet(Sure.gifts)'
                    /\ store.task = "edit" => answers.edits < Sure'.edits
  PROVE  LedgerInv'
<1>1. Calls'
  BY OutcomeCalls
<1>2. Stages' /\ Retires' /\ store'.intent = store.intent
  BY OutcomeStages DEF Retires
<1>3. Markers'
  BY <1>2, OperatingMarkers
<1>4. Answered'
  <2>1. Answered /\ answers.edits \in Nat /\ Sure \in States /\ answers \in Promises
    BY StoreFacts DEF LedgerInv, LedgerTypes
  <2>2. Sure' \in States
    BY LaterTypes
  <2>3. answers'.accepted = answers.accepted
    BY <2>1 DEF Fails, Succeeds, Promises
  <2>4. answers'.edits <= Sure'.edits
    <3>1. answers'.edits = answers.edits \/ (answers'.edits = answers.edits + 1 /\ answers.edits < Sure'.edits)
      BY <2>1 DEF Fails, Succeeds, Promises
    <3>2. answers.edits <= Sure.edits
      BY <2>1 DEF Answered
    <3> QED BY <2>1, <2>2, <3>1, <3>2 DEF States
  <2> QED BY <2>1, <2>3, <2>4 DEF Answered
<1> QED BY <1>1, <1>2, <1>3, <1>4 DEF LedgerInv

LEMMA EndorseLedger ==
  ASSUME LedgerInv, LedgerTypes', NEW result \in Results, Endorse(result)
  PROVE  LedgerInv'
<1> DEFINE T == disk["transaction"]
<1>1. /\ store \in Stores /\ Released \in Stores /\ FilesFine(disk) /\ FilesFine(stable)
      /\ Operating /\ ~Marked /\ Journal /\ store.at = "endorse"
      /\ T \in States /\ T # NoTransaction
  <2>1. store.at = "endorse" /\ Operating
    BY DEF Endorse, Operating
  <2>2. FilesFine(disk) /\ FilesFine(stable) /\ store \in Stores /\ Released \in Stores
    BY StoreFacts DEF LedgerInv
  <2>3. T \in States /\ T # NoTransaction
    BY <2>1, <2>2, FileFacts DEF LedgerInv, Stages
  <2> QED BY <2>1, <2>2, <2>3 DEF LedgerInv, Markers, Marked, MarkedForGood
<1>2. /\ UNCHANGED <<pending, kept, reset>>
      /\ Put("transaction", T, result) /\ T \in Kind("transaction") /\ "transaction" \in Files
  BY <1>1 DEF Endorse, FilesFine, Files
<1>3. /\ disk' = disk /\ stable' = IF result = "durable" THEN disk ELSE stable
      /\ budget'.gifts = budget.gifts
  <2>1. /\ FilesFine(disk') /\ \A f \in Files \ {"transaction"} : disk'[f] = disk[f]
        /\ disk'["transaction"] = T
        /\ result = "durable" => stable' = disk'
        /\ result # "durable" => stable' = stable
        /\ budget'.gifts = budget.gifts
    BY <1>1, <1>2, PutFacts DEF LedgerInv, LedgerTypes
  <2>2. disk' = disk
    <3>1. \A f \in Files : disk'[f] = disk[f]
      BY <2>1
    <3>2. disk = [f \in Files |-> disk[f]] /\ disk' = [f \in Files |-> disk'[f]]
      BY <1>1, <2>1 DEF FilesFine
    <3>3. [f \in Files |-> disk[f]] = [f \in Files |-> disk'[f]]
      BY <3>1
    <3> QED BY <3>2, <3>3
  <2> QED BY <2>1, <2>2
<1>4. ~Marked'
  BY <1>1, <1>3 DEF Marked
<1>5. CASE result = "durable"
  <2>1. /\ store' = [store EXCEPT !.at = "apply", !.shard = 1, !.recovering = TRUE,
                                  !.endorsed = TRUE, !.block = "none"]
        /\ UNCHANGED <<consumer, answers>>
    BY <1>5 DEF Endorse, Endorses
  <2>2. store'.at = "apply" /\ store'.shard = 1 /\ store'.recovering /\ store'.task = store.task /\ store'.intent = store.intent
    BY <1>1, <2>1 DEF Stores
  <2>3. Agreed' /\ stable' = disk' /\ Sure' = T
    BY <1>1, <1>3, <1>5 DEF Agreed, Sure
  <2>4. Stages'
    BY <2>2, <2>3 DEF Stages
  <2>5. ToSet(Sure.gifts) \subseteq ToSet(Sure.gifts)' /\ Sure.edits <= Sure'.edits
    <3>1. CASE Agreed
      BY <1>1, <2>3, <3>1 DEF Sure, States
    <3>2. CASE ~Agreed
      BY <1>1, <2>3, <3>2 DEF Sure, Journal, Extends
    <3> QED BY <3>1, <3>2
  <2>6. Gifts'
    <3>1. OnceEach(disk)' /\ OnceEach(stable)' /\ Stored' \subseteq Stored
      BY <1>2, <1>3, <1>5 DEF LedgerInv, Gifts, OnceEach, Stored, StoredIn
    <3> QED BY <1>3, <2>1, <3>1, GiftsKept, StoreFacts DEF LedgerInv
  <2> QED BY <1>1, <1>2, <1>4, <2>1, <2>2, <2>3, <2>4, <2>5, <2>6, WritingLedger DEF Journal
<1>6. CASE result # "durable"
  <2> DEFINE after == [Released EXCEPT !.endorsed = FALSE, !.block = "endorsement"]
  <2>1. after \in Stores /\ after.at = "idle" /\ after.task = "none" /\ after.intent = store.intent
    BY <1>1, StoreFacts DEF LedgerInv, Stores
  <2>2. Fails(after)
    BY <1>6 DEF Endorse, Endorses
  <2> HIDE DEF after
  <2>3. UNCHANGED <<disk, stable, answers>>
    BY <1>3, <1>6, <2>2 DEF Fails
  <2>4. Gifts' /\ Journal' /\ Sure' = Sure
    BY <1>1, <1>2, <1>3, <2>3, QuietLedger, SameFiles
  <2>5. Sure \in States
    BY StoreFacts DEF LedgerInv
  <2>6. Sure.edits <= Sure'.edits
    BY <2>4, <2>5 DEF States
  <2> QED BY <1>1, <1>2, <1>4, <2>1, <2>2, <2>4, <2>6, WritingLedger
<1> QED BY <1>5, <1>6

LEMMA AppendGift ==
  ASSUME NEW s \in Seq(Nat), NEW g \in Nat, IsInjective(s), \A i \in 1..Len(s) : s[i] # g
  PROVE  ToSet(Append(s, g)) = ToSet(s) \cup {g} /\ IsInjective(Append(s, g))
<1>1. /\ DOMAIN s = 1..Len(s) /\ DOMAIN Append(s, g) = 1 .. Len(s) + 1 /\ Len(s) \in Nat
      /\ \A i \in 1..Len(s) : Append(s, g)[i] = s[i]
      /\ Append(s, g)[Len(s) + 1] = g
  OBVIOUS
<1>2. ToSet(Append(s, g)) = ToSet(s) \cup {g}
  BY <1>1 DEF ToSet
<1>3. IsInjective(Append(s, g))
  BY <1>1 DEF IsInjective
<1> QED BY <1>2, <1>3

LEMMA PrepareLedger ==
  ASSUME LedgerInv, LedgerTypes', NEW result \in Results, Prepare(result)
  PROVE  LedgerInv'
<1> DEFINE W == Written(disk)
<1>1. /\ store \in Stores /\ Released \in Stores /\ FilesFine(disk) /\ FilesFine(stable)
      /\ Operating /\ ~Marked /\ Journal /\ store.at = "prepare"
      /\ disk["transaction"] = NoTransaction /\ W \in States
      /\ W.gifts = disk["history"] /\ W.edits = disk["config"]
      /\ disk["history"] \in Seq(Nat) /\ disk["config"] \in Nat
  <2>1. store.at = "prepare" /\ Operating
    BY DEF Prepare, Operating
  <2>2. FilesFine(disk) /\ FilesFine(stable) /\ store \in Stores /\ Released \in Stores
    BY StoreFacts DEF LedgerInv
  <2>3. disk["transaction"] = NoTransaction
    BY <2>1 DEF LedgerInv, Stages
  <2> QED BY <2>1, <2>2, <2>3, FileFacts DEF LedgerInv, Markers, Marked, MarkedForGood
<1>2. /\ UNCHANGED <<pending, kept, reset>>
      /\ store.task = "edit" \/ (store.task = "gift" /\ ~IsApplied)
      /\ Put("transaction", Changed, result) /\ Changed \in States
      /\ Changed \in Kind("transaction") /\ "transaction" \in Files
  BY <1>1, ChangedType, StoreFacts DEF Prepare, Files, Kind, LedgerInv
<1>3. /\ disk'["history"] = disk["history"] /\ disk'["config"] = disk["config"] /\ disk'["intent"] = disk["intent"]
      /\ disk'["events"] = disk["events"]
      /\ disk'["transaction"] = IF result = "fails" THEN NoTransaction ELSE Changed
      /\ result = "durable" => stable' = disk'
      /\ result # "durable" => stable' = stable
      /\ budget'.gifts = budget.gifts /\ Written(disk') = W
  <2>1. /\ \A f \in Files \ {"transaction"} : disk'[f] = disk[f]
        /\ disk'["transaction"] = IF result = "fails" THEN disk["transaction"] ELSE Changed
        /\ result = "durable" => stable' = disk'
        /\ result # "durable" => stable' = stable
        /\ budget'.gifts = budget.gifts
    BY <1>1, <1>2, PutFacts DEF LedgerInv, LedgerTypes
  <2> QED BY <1>1, <2>1 DEF Files, Written
<1>4. /\ Changed # NoTransaction /\ Extends(Changed, W) /\ IsInjective(Changed.gifts)
      /\ ToSet(Changed.gifts) \subseteq Stored
      /\ store.task = "gift" => consumer.gift \in ToSet(Changed.gifts)
      /\ store.task = "edit" => disk["config"] < Changed.edits
  <2>1. Changed # NoTransaction
    BY <1>2 DEF States, NoTransaction
  <2>2. IsInjective(disk["history"]) /\ ToSet(disk["history"]) \subseteq Stored
    BY DEF LedgerInv, Gifts, OnceEach, Stored, StoredIn
  <2>3. CASE store.task = "edit"
    <3>1. Changed.gifts = disk["history"] /\ Changed.edits = disk["config"] + 1
      BY <1>1, <2>3, ChangedType, StoreFacts DEF LedgerInv
    <3> QED BY <1>1, <2>1, <2>2, <2>3, <3>1 DEF Extends
  <2>4. CASE store.task = "gift" /\ ~IsApplied
    <3>1. Changed.gifts = Append(disk["history"], consumer.gift) /\ Changed.edits = disk["config"] /\ consumer.gift \in Nat
      BY <1>1, <2>4, ChangedType, StoreFacts DEF LedgerInv
    <3>2. \A i \in 1..Len(disk["history"]) : disk["history"][i] # consumer.gift
      BY <1>1, <2>4 DEF IsApplied, Contains
    <3>3. ToSet(Changed.gifts) = ToSet(disk["history"]) \cup {consumer.gift} /\ IsInjective(Changed.gifts)
      BY <1>1, <2>2, <3>1, <3>2, AppendGift
    <3>4. consumer.gift \in Stored
      BY <1>1, <2>4 DEF LedgerInv, Calls, Stored
    <3> QED BY <1>1, <2>1, <2>2, <2>4, <3>1, <3>3, <3>4 DEF Extends
  <2> QED BY <1>2, <2>3, <2>4
<1>5. ~Agreed /\ Sure = W /\ disk["history"] = stable["history"] /\ disk["config"] = stable["config"]
      /\ stable["transaction"] \in {NoTransaction, W}
  BY <1>1 DEF Journal, Agreed, Sure
<1>6. ~Marked'
  BY <1>1, <1>3 DEF Marked
<1>7. Journal'
  BY <1>3, <1>4, <1>5 DEF Journal, Agreed, Written
<1>8. ToSet(Sure.gifts) \subseteq ToSet(Sure.gifts)' /\ Sure.edits <= Sure'.edits
  <2>1. Sure' \in {W, Changed}
    BY <1>3 DEF Sure, Agreed, Written
  <2> QED BY <1>1, <1>4, <1>5, <2>1 DEF Extends, States
<1>9. answers'.erased = answers.erased
  BY DEF Prepare, Fails
<1>10. Gifts'
  <2>1. OnceEach(disk)' /\ StoredIn(disk)' \subseteq Stored
    <3>1. IsInjective(NoTransaction.gifts) /\ ToSet(NoTransaction.gifts) = {}
      BY DEF NoTransaction, IsInjective, ToSet
    <3> QED BY <1>3, <1>4, <3>1 DEF LedgerInv, Gifts, OnceEach, Stored, StoredIn
  <2>2. OnceEach(stable)' /\ StoredIn(stable)' \subseteq Stored
    BY <1>3, <2>1 DEF LedgerInv, Gifts, OnceEach, Stored, StoredIn, Results
  <2>3. Stored' \subseteq Stored
    BY <1>2, <2>1, <2>2 DEF Stored
  <2> QED BY <1>3, <1>9, <2>1, <2>2, <2>3, GiftsKept, StoreFacts DEF LedgerInv
<1>11. CASE result = "durable"
  <2>1. store' = [store EXCEPT !.at = "apply", !.shard = 1] /\ UNCHANGED <<consumer, answers>>
    BY <1>11 DEF Prepare, Prepared
  <2>2. store'.at = "apply" /\ store'.shard = 1 /\ store'.task = store.task /\ store'.intent = store.intent
    BY <1>1, <2>1 DEF Stores
  <2>3. Agreed' /\ stable' = disk' /\ disk'["transaction"] = Changed
    BY <1>3, <1>4, <1>11 DEF Agreed
  <2>4. answers.edits <= disk["config"]
    BY <1>1, <1>5 DEF LedgerInv, Answered
  <2>5. store.task = "edit" => answers.edits < Changed.edits
    BY <1>1, <1>2, <1>4, <2>4, StoreFacts DEF LedgerInv, States
  <2>6. Stages'
    BY <1>2, <1>4, <2>1, <2>2, <2>3, <2>5 DEF Stages
  <2> QED BY <1>1, <1>2, <1>6, <1>7, <1>8, <1>10, <2>1, <2>2, <2>6, WritingLedger
<1>12. CASE result # "durable"
  <2>1. Fails(Released) /\ Released.at = "idle" /\ Released.task = "none" /\ Released.intent = store.intent
    BY <1>12, StoreFacts DEF Prepare, Prepared, LedgerInv
  <2> QED BY <1>1, <1>2, <1>6, <1>7, <1>8, <1>10, <2>1, WritingLedger
<1> QED BY <1>11, <1>12

LEMMA ApplyLedger ==
  ASSUME LedgerInv, LedgerTypes', NEW result \in Results, ApplyShard(result)
  PROVE  LedgerInv'
<1> DEFINE T == disk["transaction"]
           file == Shards[store.shard]
<1>1. /\ store \in Stores /\ Released \in Stores /\ FilesFine(disk) /\ FilesFine(stable)
      /\ Operating /\ ~Marked /\ Agreed /\ stable = disk /\ store.at = "apply" /\ store.shard \in 1..3
      /\ store.shard >= 3 => disk["history"] = T.gifts
      /\ T \in States /\ T # NoTransaction /\ Sure = T
  <2>1. store.at = "apply" /\ Operating
    BY DEF ApplyShard, Operating
  <2>2. FilesFine(disk) /\ FilesFine(stable) /\ store \in Stores /\ Released \in Stores
    BY StoreFacts DEF LedgerInv
  <2>3. T \in States
    BY <2>1, ShardFacts DEF LedgerInv
  <2> QED BY <2>1, <2>2, <2>3 DEF LedgerInv, Markers, Stages, Agreed, Sure
<1>2. /\ UNCHANGED <<pending, kept, reset>>
      /\ Put(file, Content(T, file), result) /\ file \in Files /\ Content(T, file) \in Kind(file)
      /\ file = IF store.shard = 1 THEN "events" ELSE IF store.shard = 2 THEN "history" ELSE "config"
      /\ Len(Shards) = 3
  BY <1>1, ShardFacts DEF ApplyShard, PutShard, Files, LedgerInv
<1>3. /\ \A f \in Files \ {file} : disk'[f] = disk[f]
      /\ disk'[file] = IF result = "fails" THEN disk[file] ELSE Content(T, file)
      /\ result = "durable" => stable' = disk'
      /\ result # "durable" => stable' = stable
      /\ budget'.gifts = budget.gifts
  <2> HIDE DEF file
  <2> QED BY <1>1, <1>2, PutFacts DEF LedgerInv, LedgerTypes
<1>4. /\ disk'["transaction"] = T /\ disk'["intent"] = disk["intent"]
      /\ disk'["events"] \in {disk["events"], T.gifts}
      /\ disk'["history"] \in {disk["history"], T.gifts}
      /\ store.shard = 2 /\ result = "durable" => disk'["history"] = T.gifts
      /\ store.shard = 3 => disk'["history"] = disk["history"]
      /\ store.shard = 3 /\ result = "durable" => disk'["config"] = T.edits
  BY <1>1, <1>2, <1>3 DEF Files, Content
<1>5. stable'["transaction"] = T /\ stable'["intent"] = disk["intent"] /\ stable' \in {disk, disk'}
  BY <1>1, <1>3, <1>4, <1>2 DEF Results
<1>6. ~Marked' /\ Agreed' /\ Journal' /\ Sure' = T
  BY <1>1, <1>4, <1>5 DEF Marked, Agreed, Journal, Sure
<1>7. answers' = answers
  BY DEF ApplyShard, Fails
<1>8. Gifts'
  <2>1. OnceEach(disk) /\ StoredIn(disk) \subseteq Stored
    BY DEF LedgerInv, Gifts, Stored
  <2>2. OnceEach(disk)' /\ StoredIn(disk)' \subseteq Stored
    BY <1>4, <2>1 DEF OnceEach, StoredIn
  <2>3. OnceEach(stable)' /\ StoredIn(stable)' \subseteq Stored
    BY <1>5, <2>1, <2>2 DEF OnceEach, StoredIn
  <2>4. Stored' \subseteq Stored
    BY <1>2, <2>2, <2>3 DEF Stored
  <2> QED BY <1>3, <1>7, <2>2, <2>3, <2>4, GiftsKept, StoreFacts DEF LedgerInv
<1>9. ToSet(Sure.gifts) \subseteq ToSet(Sure.gifts)' /\ Sure.edits <= Sure'.edits
  BY <1>1, <1>6 DEF States
<1>10. CASE result = "durable"
  <2>1. store' = NextShard /\ UNCHANGED <<consumer, answers>>
    BY <1>10 DEF ApplyShard
  <2>2. /\ store'.task = store.task /\ store'.intent = store.intent /\ store'.recovering = store.recovering
        /\ \/ store.shard < 3 /\ store'.at = "apply" /\ store'.shard = store.shard + 1
           \/ store.shard = 3 /\ store'.at = "remove"
    <3>1. CASE store.shard < 3
      <4>1. store' = [store EXCEPT !.shard = store.shard + 1]
        BY <1>2, <2>1, <3>1 DEF NextShard
      <4> QED BY <1>1, <3>1, <4>1 DEF Stores
    <3>2. CASE store.shard = 3
      <4>1. store' = [store EXCEPT !.at = "remove", !.shard = 0]
        BY <1>2, <2>1, <3>2 DEF NextShard
      <4> QED BY <1>1, <3>2, <4>1 DEF Stores
    <3> QED BY <1>1, <3>1, <3>2
  <2>3. stable' = disk'
    BY <1>3, <1>10
  <2>4. store'.at = "apply" => store'.shard \in 1..3 /\ (store'.shard >= 3 => disk'["history"] = T.gifts)
    BY <1>1, <1>4, <1>10, <2>2
  <2>5. store'.at = "remove" => Written(disk)' = T
    <3>1. store'.at = "remove" => disk'["history"] = T.gifts /\ disk'["config"] = T.edits
      BY <1>1, <1>4, <1>10, <2>2
    <3>2. [gifts |-> T.gifts, edits |-> T.edits] = T
      BY <1>1 DEF States
    <3> QED BY <3>1, <3>2 DEF Written
  <2>6. Stages'
    BY <1>1, <1>4, <1>6, <2>1, <2>2, <2>3, <2>4, <2>5 DEF LedgerInv, Stages
  <2> QED BY <1>1, <1>2, <1>6, <1>8, <1>9, <2>1, <2>2, <2>6, WritingLedger
<1>11. CASE result # "durable"
  <2>1. Fails(Released) /\ Released.at = "idle" /\ Released.task = "none" /\ Released.intent = store.intent
    BY <1>11, StoreFacts DEF ApplyShard, LedgerInv
  <2> QED BY <1>1, <1>2, <1>6, <1>8, <1>9, <2>1, WritingLedger
<1> QED BY <1>10, <1>11

LEMMA RemoveLedger ==
  ASSUME LedgerInv, LedgerTypes', NEW result \in Results, RemoveTransaction(result)
  PROVE  LedgerInv'
<1> DEFINE T == disk["transaction"]
<1>1. /\ store \in Stores /\ Released \in Stores /\ FilesFine(disk) /\ FilesFine(stable)
      /\ Operating /\ ~Marked /\ Agreed /\ stable = disk /\ store.at = "remove"
      /\ T \in States /\ T # NoTransaction /\ Sure = T /\ Written(disk) = T
  <2>1. store.at = "remove" /\ Operating
    BY DEF RemoveTransaction, Operating
  <2>2. FilesFine(disk) /\ FilesFine(stable) /\ store \in Stores /\ Released \in Stores
    BY StoreFacts DEF LedgerInv
  <2>3. Written(disk) = T /\ Written(disk) \in States
    BY <2>1, <2>2, FileFacts DEF LedgerInv, Stages
  <2> QED BY <2>1, <2>2, <2>3 DEF LedgerInv, Markers, Stages, Agreed, Sure
<1>2. /\ UNCHANGED <<pending, kept, reset>>
      /\ Put("transaction", NoTransaction, result) /\ "transaction" \in Files /\ NoTransaction \in Kind("transaction")
  BY DEF RemoveTransaction, Files, Kind
<1>3. /\ disk'["history"] = disk["history"] /\ disk'["config"] = disk["config"] /\ disk'["intent"] = disk["intent"]
      /\ disk'["events"] = disk["events"]
      /\ disk'["transaction"] = IF result = "fails" THEN T ELSE NoTransaction
      /\ result = "durable" => stable' = disk'
      /\ result # "durable" => stable' = disk
      /\ budget'.gifts = budget.gifts /\ Written(disk') = T
  <2>1. /\ \A f \in Files \ {"transaction"} : disk'[f] = disk[f]
        /\ disk'["transaction"] = IF result = "fails" THEN T ELSE NoTransaction
        /\ result = "durable" => stable' = disk'
        /\ result # "durable" => stable' = stable
        /\ budget'.gifts = budget.gifts
    BY <1>1, <1>2, PutFacts DEF LedgerInv, LedgerTypes
  <2> QED BY <1>1, <2>1 DEF Files, Written
<1>4. stable' \in {disk, disk'}
  BY <1>3
<1>5. ~Marked' /\ Sure' = T
  BY <1>1, <1>3, <1>4 DEF Marked, Agreed, Sure, Written
<1>6. Journal'
  BY <1>1, <1>3, <1>4 DEF Journal, Agreed, Written
<1>7. answers'.erased = answers.erased
  BY DEF RemoveTransaction, Fails, Succeeds, LedgerInv, LedgerTypes, Promises
<1>8. Gifts'
  <2>1. OnceEach(disk) /\ StoredIn(disk) \subseteq Stored
    BY DEF LedgerInv, Gifts, Stored
  <2>2. OnceEach(disk)' /\ StoredIn(disk)' \subseteq Stored
    <3>1. IsInjective(NoTransaction.gifts) /\ ToSet(NoTransaction.gifts) = {}
      BY DEF NoTransaction, IsInjective, ToSet
    <3> QED BY <1>3, <2>1, <3>1 DEF OnceEach, StoredIn
  <2>3. OnceEach(stable)' /\ StoredIn(stable)' \subseteq Stored
    BY <1>4, <2>1, <2>2 DEF OnceEach, StoredIn
  <2>4. Stored' \subseteq Stored
    BY <1>2, <2>2, <2>3 DEF Stored
  <2> QED BY <1>3, <1>7, <2>2, <2>3, <2>4, GiftsKept, StoreFacts DEF LedgerInv
<1>9. ToSet(Sure.gifts) \subseteq ToSet(Sure.gifts)' /\ Sure.edits <= Sure'.edits
  BY <1>1, <1>5 DEF States
<1>10. Released.at = "idle" /\ Released.task = "none" /\ Released.intent = store.intent
  BY StoreFacts DEF LedgerInv
<1>11. CASE result # "durable"
  <2>1. Fails(Released)
    BY <1>11 DEF RemoveTransaction
  <2> QED BY <1>1, <1>2, <1>5, <1>6, <1>8, <1>9, <1>10, <2>1, WritingLedger
<1>12. CASE result = "durable" /\ store.recovering
  <2>1. /\ store' = [store EXCEPT !.at = "prepare", !.recovering = FALSE, !.endorsed = FALSE]
        /\ UNCHANGED <<consumer, answers>>
    BY <1>12 DEF RemoveTransaction
  <2>2. store'.at = "prepare" /\ store'.task = store.task /\ store'.intent = store.intent
    BY <1>1, <2>1 DEF Stores
  <2>3. Stages'
    BY <1>3, <1>12, <2>2 DEF Stages
  <2> QED BY <1>1, <1>2, <1>5, <1>6, <1>8, <1>9, <2>1, <2>2, <2>3, WritingLedger
<1>13. CASE result = "durable" /\ ~store.recovering
  <2>1. Succeeds(Released)
    BY <1>13 DEF RemoveTransaction
  <2>2. /\ store.task # "reset"
        /\ store.task = "gift" => consumer.gift \in ToSet(T.gifts)
        /\ store.task = "edit" => answers.edits < T.edits
    BY <1>1, <1>13 DEF LedgerInv, Stages
  <2> QED BY <1>1, <1>2, <1>5, <1>6, <1>8, <1>9, <1>10, <2>1, <2>2, WritingLedger
<1> QED BY <1>11, <1>12, <1>13

-----------------------------------------------------------------------------
(* The inbox. *)

LEMMA AcceptLedger ==
  ASSUME LedgerInv, LedgerTypes', NEW result \in Results, AcceptRecord(result)
  PROVE  LedgerInv'
<1> DEFINE gift == budget.gifts + 1
<1>1. /\ UNCHANGED <<disk, stable, store, consumer, reset>> /\ ~Marked /\ reset = "none" /\ budget.gifts \in Nat
      /\ budget \in Budgets /\ answers \in Promises
  BY StoreFacts DEF AcceptRecord, LedgerInv, Markers, LedgerTypes
<1>2. /\ budget'.gifts = gift
      /\ pending' \in {pending, pending \cup {gift}}
      /\ kept' \in {kept, pending'}
      /\ \/ answers'.accepted = answers.accepted /\ kept' = kept
         \/ answers'.accepted = answers.accepted \cup {gift} /\ kept' = pending' /\ pending' = pending \cup {gift}
      /\ answers'.edits = answers.edits /\ answers'.erased = answers.erased
  <2>1. budget'.gifts = gift
    BY <1>1 DEF AcceptRecord, Budgets
  <2>2. /\ pending' = IF result = "fails" THEN pending ELSE pending \cup {gift}
        /\ kept' = IF result = "durable" THEN pending' ELSE kept
        /\ answers' = IF result = "durable" THEN [answers EXCEPT !.accepted = @ \cup {gift}] ELSE answers
    BY DEF AcceptRecord
  <2> QED BY <1>1, <2>1, <2>2 DEF Promises
<1>3. Sure' = Sure /\ ~Marked' /\ (Journal => Journal') /\ (MarkedForGood' <=> MarkedForGood)
  BY <1>1, SameFiles
<1>4. Stages'
  <2>1. answers'.edits = answers.edits
    BY <1>2
  <2> QED BY <1>1, <2>1 DEF LedgerInv, Stages, Agreed, Written
<1>5. Calls'
  <2>1. pending \subseteq pending'
    BY <1>2
  <2> QED BY <1>1, <1>3, <2>1 DEF LedgerInv, Calls
<1>6. Markers'
  <2>1. store.intent = "none" /\ store.block = "none"
    BY <1>1 DEF AcceptRecord, LedgerInv, Markers, LedgerTypes, Stores
  <2> QED BY <1>1, <1>3, <2>1 DEF LedgerInv, Markers
<1>7. Retires'
  <2>1. store.at # "retire"
    BY <1>1 DEF LedgerInv, Calls
  <2> QED BY <1>1, <2>1 DEF Retires
<1>8. Gifts'
  <2>1. Gifts
    BY DEF LedgerInv
  <2>2. Stored' \subseteq Stored \cup {gift}
    BY <1>1, <1>2 DEF Stored, StoredIn
  <2>3. 1..budget.gifts \cup {gift} = 1..budget'.gifts /\ gift \notin 1..budget.gifts
    BY <1>1, <1>2
  <2> QED BY <1>1, <1>2, <2>1, <2>2, <2>3, SameFiles DEF Gifts
<1>9. Answered'
  BY <1>2, <1>3 DEF LedgerInv, Answered
<1> QED BY <1>4, <1>5, <1>6, <1>7, <1>8, <1>9 DEF LedgerInv

\* A record is claimed, released or removed.
LEMMA ClaimLedger ==
  ASSUME LedgerInv, LedgerTypes', Claim \/ ReleaseRecord \/ Acknowledge \/ AcknowledgeFails
  PROVE  LedgerInv'
<1>1. /\ UNCHANGED <<disk, stable, kept, store, reset, answers>> /\ budget'.gifts = budget.gifts
      /\ reset = "none" \/ consumer' = NoClaim
      /\ pending' \subseteq pending
      /\ pending \ pending' \subseteq ToSet(Sure.gifts)
      /\ NoClaim.at = "idle"
      /\ budget \in Budgets /\ consumer \in Claims
  <2>1. budget \in Budgets /\ Calls /\ consumer \in Claims
    BY DEF LedgerInv, LedgerTypes
  <2>2. CASE Claim \/ ReleaseRecord
    BY <2>1, <2>2 DEF Claim, ReleaseRecord, NoClaim
  <2>3. CASE Acknowledge \/ AcknowledgeFails
    BY <2>1, <2>3 DEF Acknowledge, AcknowledgeFails, Pays, Budgets, Calls, NoClaim
  <2> QED BY <2>1, <2>2, <2>3
<1>2. /\ Sure' = Sure /\ (Marked' <=> Marked) /\ (Journal => Journal') /\ (MarkedForGood' <=> MarkedForGood)
      /\ Empty(disk)' = Empty(disk) /\ Empty(stable)' = Empty(stable)
  BY <1>1, SameFiles
<1>3. store.at # "idle" /\ store.task = "gift" => consumer' = consumer
  BY DEF Claim, ReleaseRecord, Acknowledge, AcknowledgeFails, LedgerInv, Calls, NoClaim
<1>4. Stages'
  BY <1>1, <1>3 DEF LedgerInv, Stages, Agreed, Written
<1>5. Calls'
  <2>1. \/ consumer' = NoClaim
        \/ consumer'.at = "claimed" /\ consumer'.gift \in pending' /\ reset = "none"
    BY <1>1 DEF Claim, ReleaseRecord, Acknowledge, AcknowledgeFails
  <2>2. NoClaim.at = "idle"
    BY DEF NoClaim
  <2> QED BY <1>1, <1>2, <1>3, <2>1, <2>2 DEF LedgerInv, Calls
<1>6. Markers'
  <2>1. (Operating' <=> Operating) /\ (pending = {} => pending' = {})
    BY <1>1 DEF Operating
  <2> QED BY <1>1, <1>2, <2>1 DEF LedgerInv, Markers
<1>7. Retires'
  <2>1. pending = {} => pending' = {}
    BY <1>1
  <2> QED BY <1>1, <2>1 DEF LedgerInv, Retires
<1>8. Gifts'
  <2>1. Stored' \subseteq Stored /\ OnceEach(disk)' /\ OnceEach(stable)'
    BY <1>1 DEF Stored, StoredIn, LedgerInv, Gifts, OnceEach
  <2> QED BY <1>1, <2>1, GiftsKept, StoreFacts DEF LedgerInv
<1>9. Answered'
  BY <1>1, <1>2 DEF LedgerInv, Answered
<1> QED BY <1>4, <1>5, <1>6, <1>7, <1>8, <1>9 DEF LedgerInv

-----------------------------------------------------------------------------
(* The reset. *)

LEMMA ResetLedger ==
  ASSUME LedgerInv, LedgerTypes', Reset
  PROVE  LedgerInv'
<1>1. /\ UNCHANGED <<disk, stable, pending, kept, consumer, answers>> /\ budget'.gifts = budget.gifts
      /\ reset = "none" /\ consumer = NoClaim /\ store.at = "idle" /\ store \in Stores
  BY DEF Reset, LedgerInv, LedgerTypes, Budgets
<1>2. Gifts' /\ Answered'
  BY <1>1, QuietLedger
<1>3. /\ Sure' = Sure /\ (Marked' <=> Marked) /\ (Journal => Journal') /\ (MarkedForGood' <=> MarkedForGood)
      /\ Empty(disk)' = Empty(disk) /\ Empty(stable)' = Empty(stable)
  BY <1>1, SameFiles
<1>4. CASE store.intent = "durable"
  <2>1. reset' = "inbox" /\ UNCHANGED store
    BY <1>4 DEF Reset
  <2>2. Stages' /\ Retires'
    BY <1>1, <2>1 DEF Stages, Retires
  <2>3. Calls'
    BY <1>1, <2>1, <1>3 DEF LedgerInv, Calls
  <2>4. Markers'
    BY <1>1, <1>3, <1>4, <2>1 DEF LedgerInv, Markers, Operating
  <2> QED BY <1>2, <2>2, <2>3, <2>4 DEF LedgerInv
<1>5. CASE store.intent # "durable"
  <2>1. /\ reset' = "marker" /\ store'.task = "reset" /\ store'.intent = store.intent /\ store'.block = store.block
        /\ store'.at \in {"recover", "marker"}
        /\ store'.at = "recover" => ~Blocked("reset")
    BY <1>1, <1>5 DEF Reset, Stores
  <2>2. Stages' /\ Retires'
    BY <2>1 DEF Stages, Retires
  <2>3. Calls'
    BY <1>1, <1>3, <2>1 DEF LedgerInv, Calls
  <2>4. store'.at = "recover" => ~Marked
    BY <2>1 DEF Blocked, LedgerInv, Markers
  <2>5. Markers'
    BY <1>1, <1>3, <1>5, <2>1, <2>4 DEF LedgerInv, Markers, Operating
  <2> QED BY <1>2, <2>2, <2>3, <2>5 DEF LedgerInv
<1> QED BY <1>4, <1>5

LEMMA MarkerLedger ==
  ASSUME LedgerInv, LedgerTypes', NEW result \in Results, WriteMarker(result)
  PROVE  LedgerInv'
<1>1. /\ store \in Stores /\ Released \in Stores /\ FilesFine(disk) /\ FilesFine(stable)
      /\ store.at = "marker" /\ consumer = NoClaim /\ UNCHANGED <<pending, kept, consumer>>
      /\ answers \in Promises
  BY StoreFacts DEF WriteMarker, LedgerInv, LedgerTypes, Calls
<1>2. Put("intent", TRUE, result) /\ TRUE \in Kind("intent") /\ "intent" \in Files
  BY DEF WriteMarker, Kind, Files
<1>3. /\ \A f \in Files \ {"intent"} : disk'[f] = disk[f]
      /\ disk'["intent"] = IF result = "fails" THEN disk["intent"] ELSE TRUE
      /\ result = "durable" => stable' = disk'
      /\ result # "durable" => stable' = stable
      /\ result = "fails" => disk' = disk
      /\ budget'.gifts = budget.gifts
  BY <1>1, <1>2, PutFacts DEF LedgerInv, LedgerTypes
<1>4. /\ disk'["transaction"] = disk["transaction"] /\ disk'["history"] = disk["history"]
      /\ disk'["config"] = disk["config"] /\ disk'["events"] = disk["events"]
  BY <1>3 DEF Files
<1>5. /\ store'.at = "idle" /\ store'.task = "none" /\ store'.block \in {"reset", "reset failed"}
      /\ store'.intent = IF result = "fails" THEN store.intent ELSE IF result = "visible" THEN "valid" ELSE "durable"
      /\ reset' = IF result = "durable" THEN "inbox" ELSE "none"
  <2>1. PICK i \in {"none", "valid", "durable"}, b \in {"reset", "reset failed"} :
          /\ store' = [Released EXCEPT !.intent = i, !.block = b]
          /\ i = IF result = "fails" THEN Released.intent ELSE IF result = "visible" THEN "valid" ELSE "durable"
    <3>1. Released.intent \in {"none", "valid", "durable"}
      BY <1>1 DEF Stores
    <3> QED BY <3>1 DEF WriteMarker, Results
  <2>2. /\ Released.at = "idle" /\ Released.task = "none" /\ Released.intent = store.intent
    BY StoreFacts DEF LedgerInv
  <2> QED BY <1>1, <2>1, <2>2 DEF Stores, WriteMarker
<1>6. answers'.erased = answers.erased
      /\ \/ result = "fails" /\ answers' = answers
         \/ result # "fails" /\ answers'.accepted = {} /\ answers'.edits = 0
  BY <1>1 DEF WriteMarker, Promises
<1>7. Stages' /\ Retires'
  BY <1>5 DEF Stages, Retires
<1>8. Calls'
  BY <1>1, <1>5 DEF Calls, NoClaim
<1>9. Gifts'
  <2>1. OnceEach(disk) /\ StoredIn(disk) \subseteq Stored
    BY DEF LedgerInv, Gifts, Stored
  <2>2. OnceEach(disk)' /\ StoredIn(disk)' \subseteq Stored
    BY <1>4, <2>1 DEF OnceEach, StoredIn
  <2>3. OnceEach(stable)' /\ StoredIn(stable)' \subseteq Stored
    BY <1>3, <2>2 DEF OnceEach, StoredIn, LedgerInv, Gifts, Stored
  <2>4. Stored' \subseteq Stored
    BY <1>1, <2>2, <2>3 DEF Stored
  <2> QED BY <1>3, <1>6, <2>2, <2>3, <2>4, GiftsKept, StoreFacts DEF LedgerInv
<1>10. CASE result = "fails"
  <2>1. UNCHANGED <<disk, stable, answers>>
    BY <1>3, <1>6, <1>10
  <2>2. Answered'
    BY <1>1, <2>1, SameFiles DEF LedgerInv, Answered
  <2>3. Markers'
    <3>1. /\ (Marked' <=> Marked) /\ (Journal => Journal') /\ (MarkedForGood' <=> MarkedForGood)
          /\ Empty(disk)' = Empty(disk) /\ Empty(stable)' = Empty(stable) /\ ~Operating'
      BY <1>5, <2>1, SameFiles DEF Operating
    <3> QED BY <1>1, <1>5, <1>10, <2>1, <3>1 DEF LedgerInv, Markers
  <2> QED BY <1>7, <1>8, <1>9, <2>2, <2>3 DEF LedgerInv
<1>11. CASE result # "fails"
  <2>1. Answered'
    <3>1. Sure'.edits \in Nat
      BY LaterTypes DEF States
    <3> QED BY <1>6, <1>11, <3>1 DEF Answered
  <2>2. ~MarkedForGood' => Journal'
    <3>1. CASE result = "durable"
      BY <1>3, <3>1 DEF MarkedForGood
    <3>2. CASE result # "durable"
      <4>1. stable' = stable /\ disk'["intent"]
        BY <1>3, <1>11, <3>2
      <4>2. ~MarkedForGood' => Journal
        BY <4>1 DEF MarkedForGood, LedgerInv, Markers
      <4> QED BY <1>4, <4>1, <4>2 DEF Journal, Agreed, Written
    <3> QED BY <3>1, <3>2
  <2>3. Markers'
    <3>1. disk'["intent"] /\ (result = "durable" => stable'["intent"]) /\ ~Operating'
      BY <1>3, <1>5, <1>11 DEF Operating
    <3> QED BY <1>5, <1>6, <1>11, <2>2, <3>1 DEF Markers, Marked, Results
  <2> QED BY <1>7, <1>8, <1>9, <2>1, <2>3 DEF LedgerInv
<1> QED BY <1>10, <1>11

LEMMA FailedReset ==
  ASSUME LedgerTypes, ResetFails
  PROVE  /\ store'.at = "idle" /\ store'.task = "none" /\ store'.block = "reset failed"
         /\ store'.intent = store.intent /\ reset' = "none"
<1>1. store' = [Released EXCEPT !.block = "reset failed", !.broken = FALSE, !.shard = 0] /\ reset' = "none"
  BY DEF ResetFails
<1>2. /\ Released \in Stores /\ Released.at = "idle" /\ Released.task = "none" /\ Released.intent = store.intent
  BY StoreFacts
<1> QED BY <1>1, <1>2 DEF Stores

LEMMA InboxLedger ==
  ASSUME LedgerInv, LedgerTypes', NEW result \in Results, RetireRecord(result) \/ SynchronizeInbox(result)
  PROVE  LedgerInv'
<1>1. /\ UNCHANGED <<disk, stable, consumer, answers>> /\ budget'.gifts = budget.gifts
      /\ reset = "inbox" /\ store.at = "idle" /\ store.task = "none" /\ consumer = NoClaim
      /\ store.intent = "durable" /\ stable["intent"] /\ Marked
      /\ store.block \notin {"none", "endorsement"} /\ answers.accepted = {} /\ answers.edits = 0
      /\ store \in Stores
  <2>1. /\ UNCHANGED <<disk, stable, consumer, answers>> /\ reset = "inbox"
        /\ store \in Stores
    BY DEF RetireRecord, SynchronizeInbox, LedgerInv, LedgerTypes
  <2>2. budget'.gifts = budget.gifts
    BY DEF RetireRecord, SynchronizeInbox, Pays, LedgerInv, LedgerTypes, Budgets
  <2>3. store.intent = "durable" /\ stable["intent"] /\ Marked
    BY <2>1 DEF LedgerInv, Markers, Marked
  <2> QED BY <2>1, <2>2, <2>3 DEF LedgerInv, Markers, Calls
<1>2. /\ pending' \subseteq pending /\ kept' \subseteq kept \cup pending
      /\ pending = {} /\ kept = {} => pending' = {} /\ kept' = {}
  BY DEF RetireRecord, SynchronizeInbox
<1>3. \/ UNCHANGED <<store, reset>>
      \/ /\ store'.at = "idle" /\ store'.task = "none" /\ store'.block = "reset failed"
         /\ store'.intent = store.intent /\ reset' = "none"
      \/ /\ store'.at = "retire" /\ store'.task = "reset" /\ store'.shard = 1 /\ store'.block = store.block
         /\ store'.intent = store.intent /\ reset' = "artifacts" /\ pending' = {} /\ kept' = {}
  <2>1. \/ UNCHANGED <<store, reset>>
        \/ ResetFails
        \/ /\ store' = [store EXCEPT !.at = "retire", !.task = "reset", !.shard = 1]
           /\ reset' = "artifacts" /\ pending' = {} /\ kept' = {}
    BY DEF RetireRecord, SynchronizeInbox
  <2> QED BY <1>1, <2>1, FailedReset DEF Stores, LedgerInv
<1>4. /\ (Marked' <=> Marked) /\ (Journal => Journal') /\ (MarkedForGood' <=> MarkedForGood)
      /\ Empty(disk)' = Empty(disk) /\ Empty(stable)' = Empty(stable)
  BY <1>1, SameFiles
<1>5. Stages'
  BY <1>1, <1>3 DEF Stages
<1>6. Retires'
  BY <1>1, <1>3 DEF Retires
<1>7. Calls'
  BY <1>1, <1>3 DEF Calls, NoClaim
<1>8. Markers'
  <2>1. ~Operating'
    BY <1>1, <1>3 DEF Operating
  <2>2. disk["intent"] \/ (Empty(disk) /\ Empty(stable) /\ pending = {} /\ kept = {})
    BY <1>1 DEF LedgerInv, Markers
  <2>3. store'.intent = "durable" /\ store'.block \notin {"none", "endorsement"}
    BY <1>1, <1>3
  <2> QED BY <1>1, <1>2, <1>4, <2>1, <2>2, <2>3 DEF LedgerInv, Markers
<1>9. Gifts'
  <2>1. Stored' \subseteq Stored /\ OnceEach(disk)' /\ OnceEach(stable)'
    BY <1>1, <1>2 DEF Stored, StoredIn, LedgerInv, Gifts, OnceEach
  <2> QED BY <1>1, <2>1, GiftsKept, StoreFacts DEF LedgerInv
<1>10. Answered'
  <2>1. Sure'.edits \in Nat
    BY LaterTypes DEF States
  <2> QED BY <1>1, <2>1 DEF Answered
<1> QED BY <1>5, <1>6, <1>7, <1>8, <1>9, <1>10 DEF LedgerInv

\* A file is retired: what was blank stays so, and the marker goes when all is.
LEMMA RetiringLedger ==
  ASSUME LedgerInv, LedgerTypes', NEW result \in Results, RetireArtifact(result)
  PROVE  LedgerInv'
<1> DEFINE file == Retired[store.shard]
<1>1. /\ store \in Stores /\ FilesFine(disk) /\ FilesFine(stable) /\ store.at = "retire" /\ store.task = "reset"
      /\ reset = "artifacts" /\ consumer = NoClaim /\ UNCHANGED <<pending, kept, consumer>>
      /\ pending = {} /\ kept = {} /\ store.shard \in 1..5 /\ store.intent = "durable"
      /\ store.shard > 3 => ~store.broken
      /\ stable["intent"] /\ Marked /\ answers.accepted = {} /\ answers.edits = 0 /\ answers \in Promises
      /\ store.block \notin {"none", "endorsement"}
      /\ disk["intent"] \/ (Empty(disk) /\ Empty(stable))
  <2>1. store.at = "retire" /\ UNCHANGED <<pending, kept, consumer>>
    BY DEF RetireArtifact
  <2>2. /\ store \in Stores /\ FilesFine(disk) /\ FilesFine(stable) /\ answers \in Promises
    BY DEF LedgerInv, LedgerTypes
  <2>3. /\ reset = "artifacts" /\ consumer = NoClaim /\ store.task = "reset"
    BY <2>1 DEF LedgerInv, Calls
  <2>4. /\ pending = {} /\ kept = {} /\ store.shard \in 1..5 /\ (store.shard > 3 => ~store.broken)
    BY <2>1 DEF LedgerInv, Retires
  <2>5. /\ store.intent = "durable" /\ stable["intent"] /\ Marked
        /\ disk["intent"] \/ (Empty(disk) /\ Empty(stable))
    BY <2>3 DEF LedgerInv, Markers, Marked
  <2>6. answers.accepted = {} /\ answers.edits = 0 /\ store.block \notin {"none", "endorsement"}
    BY <2>5 DEF LedgerInv, Markers
  <2> QED BY <2>1, <2>2, <2>3, <2>4, <2>5, <2>6
<1>2. /\ file \in Files /\ Blank(file) \in Kind(file)
      /\ file = IF store.shard = 1 THEN "config" ELSE IF store.shard = 2 THEN "history"
                ELSE IF store.shard = 3 THEN "events" ELSE IF store.shard = 4 THEN "transaction" ELSE "intent"
      /\ Len(Retired) = 5 /\ Len(Shards) = 3
  BY <1>1, RetiredFacts, RestTypes
<1>3. /\ \A f \in Files \ {file} : disk'[f] = disk[f]
      /\ \A f \in Files \ {file} : stable'[f] \in {stable[f], disk[f]}
      /\ disk'[file] \in {disk[file], Blank(file)}
      /\ stable'[file] \in {stable[file], Blank(file)}
      /\ result = "durable" => disk'[file] = Blank(file) /\ stable'[file] = Blank(file)
      /\ result # "durable" => stable' = stable
      /\ disk[file] = Blank(file) /\ stable[file] = Blank(file) => UNCHANGED <<disk, stable>>
      /\ budget'.gifts = budget.gifts
  <2>1. CASE disk[file] = Blank(file) /\ stable[file] = Blank(file)
    <3>1. result = "durable" /\ UNCHANGED <<disk, stable, budget>>
      BY <2>1 DEF RetireArtifact
    <3> HIDE DEF file
    <3> QED BY <2>1, <3>1
  <2>2. CASE ~(disk[file] = Blank(file) /\ stable[file] = Blank(file))
    <3>1. Put(file, Blank(file), result)
      BY <2>2 DEF RetireArtifact
    <3> HIDE DEF file
    <3>2. /\ \A f \in Files \ {file} : disk'[f] = disk[f]
          /\ disk'[file] = IF result = "fails" THEN disk[file] ELSE Blank(file)
          /\ result = "durable" => stable' = disk'
          /\ result # "durable" => stable' = stable
          /\ budget'.gifts = budget.gifts
      BY <1>1, <1>2, <3>1, PutFacts DEF LedgerInv, LedgerTypes
    <3> QED BY <1>2, <2>2, <3>2
  <2> QED BY <2>1, <2>2
<1>4. \/ /\ store'.at = "idle" /\ store'.task = "none" /\ store'.block = "reset failed"
         /\ store'.intent = "durable" /\ reset' = "none" /\ answers' = answers
         /\ store.shard = 5 => result # "durable"
      \/ /\ store'.at = "retire" /\ store'.task = "reset" /\ store'.block = store.block /\ store'.intent = "durable"
         /\ store.shard < 5 /\ store'.shard = store.shard + 1 /\ UNCHANGED <<reset, answers>>
         /\ store'.broken <=> (store.broken \/ result # "durable")
         /\ store.shard >= 3 => ~store'.broken
      \/ /\ store.shard = 5 /\ store' = Idle /\ reset' = "none" /\ result = "durable" /\ ~store.broken
         /\ answers' = [answers EXCEPT !.erased = 1..budget.gifts]
  <2> DEFINE broken == store.broken \/ result # "durable"
  <2>1. CASE broken /\ store.shard >= 3
    <3>1. ResetFails /\ UNCHANGED answers
      BY <1>2, <2>1 DEF RetireArtifact
    <3>2. store.shard = 5 => result # "durable"
      BY <1>1, <2>1
    <3> QED BY <1>1, <3>1, <3>2, FailedReset DEF LedgerInv
  <2>2. CASE ~(broken /\ store.shard >= 3) /\ store.shard < 5
    <3>1. store' = [store EXCEPT !.shard = @ + 1, !.broken = broken] /\ UNCHANGED <<reset, answers>>
      BY <1>2, <2>2 DEF RetireArtifact
    <3>2. /\ store'.at = "retire" /\ store'.task = "reset" /\ store'.block = store.block /\ store'.intent = "durable"
          /\ store'.shard = store.shard + 1
      BY <1>1, <3>1 DEF Stores
    <3>3. store'.broken <=> broken
      BY <1>1, <3>1 DEF Stores
    <3> QED BY <1>1, <2>2, <3>1, <3>2, <3>3
  <2>3. CASE ~(broken /\ store.shard >= 3) /\ ~(store.shard < 5)
    <3>1. store' = Idle /\ reset' = "none" /\ answers' = [answers EXCEPT !.erased = 1..budget.gifts]
      BY <1>2, <2>3 DEF RetireArtifact
    <3>2. store.shard = 5
      BY <1>1, <2>3
    <3>3. ~broken
      BY <2>3, <3>2
    <3> QED BY <3>1, <3>2, <3>3
  <2> QED BY <2>1, <2>2, <2>3
<1>5. Idle.at = "idle" /\ Idle.task = "none" /\ Idle.intent = "none" /\ Idle.block = "none"
  BY DEF Idle
<1>6. Stages'
  BY <1>4, <1>5 DEF Stages
<1>7. Calls'
  BY <1>1, <1>4, <1>5 DEF Calls, NoClaim
<1>8. Answered'
  <2>1. Sure'.edits \in Nat
    BY LaterTypes DEF States
  <2>2. answers'.accepted = {} /\ answers'.edits = 0
    BY <1>1, <1>4 DEF Promises
  <2> QED BY <2>1, <2>2 DEF Answered
<1>9. ASSUME NEW f \in Files, disk[f] = Blank(f), stable[f] = Blank(f)
      PROVE  disk'[f] = Blank(f) /\ stable'[f] = Blank(f)
  <2> HIDE DEF file
  <2> QED BY <1>3, <1>9
<1>10. ~store'.broken /\ store'.at = "retire" => \A i \in 1 .. store'.shard - 1 :
         disk'[Retired[i]] = Blank(Retired[i]) /\ stable'[Retired[i]] = Blank(Retired[i])
  <2> SUFFICES ASSUME ~store'.broken, store'.at = "retire", NEW i \in 1 .. store'.shard - 1
               PROVE  disk'[Retired[i]] = Blank(Retired[i]) /\ stable'[Retired[i]] = Blank(Retired[i])
    OBVIOUS
  <2>1. /\ store'.shard = store.shard + 1 /\ ~store.broken /\ result = "durable" /\ store.shard \in 1..5 /\ store.shard < 5
        /\ i \in 1..store.shard /\ i \in 1..5
    BY <1>1, <1>4, <1>5
  <2>2. Retired[i] \in Files
    BY <2>1, RetiredFacts
  <2>3. CASE i = store.shard
    BY <1>3, <2>1, <2>3
  <2>4. CASE i # store.shard
    <3>1. i \in 1 .. store.shard - 1
      BY <2>1, <2>4
    <3>2. disk[Retired[i]] = Blank(Retired[i]) /\ stable[Retired[i]] = Blank(Retired[i])
      BY <1>1, <2>1, <3>1 DEF LedgerInv, Retires
    <3> QED BY <1>9, <2>2, <3>2
  <2> QED BY <2>3, <2>4
<1>11. Retires'
  BY <1>1, <1>4, <1>5, <1>10 DEF Retires
<1>12. \A f \in Files : Blank(f) = IF f \in {"events", "history"} THEN <<>> ELSE IF f = "config" THEN 0
                                  ELSE IF f = "transaction" THEN NoTransaction ELSE FALSE
  BY DEF Files, Blank
<1>13. Empty(disk) /\ Empty(stable) => Empty(disk)' /\ Empty(stable)'
  BY <1>9, <1>12 DEF Empty, Files
<1>14. store.shard = 5 => Empty(disk) /\ Empty(stable)
  <2> SUFFICES ASSUME store.shard = 5 PROVE Empty(disk) /\ Empty(stable)
    OBVIOUS
  <2>1. \A i \in 1..4 : disk[Retired[i]] = Blank(Retired[i]) /\ stable[Retired[i]] = Blank(Retired[i])
    BY <1>1 DEF LedgerInv, Retires
  <2>2. Retired[1] = "config" /\ Retired[2] = "history" /\ Retired[3] = "events" /\ Retired[4] = "transaction"
    BY DEF Retired
  <2> QED BY <1>12, <2>1, <2>2 DEF Empty, Files
<1>15. store.shard < 5 => disk'["intent"] = disk["intent"] /\ stable'["intent"]
  <2> SUFFICES ASSUME store.shard < 5 PROVE disk'["intent"] = disk["intent"] /\ stable'["intent"]
    OBVIOUS
  <2>1. file # "intent" /\ "intent" \in Files
    BY <1>1, <1>2 DEF Files
  <2>2. CASE disk["intent"]
    <3> HIDE DEF file
    <3> QED BY <1>1, <1>3, <2>1, <2>2
  <2>3. CASE ~disk["intent"]
    <3>1. Empty(disk) /\ Empty(stable)
      BY <1>1, <2>3
    <3>2. disk[file] = Blank(file) /\ stable[file] = Blank(file)
      <4> HIDE DEF file
      <4> QED BY <1>2, <1>12, <2>1, <3>1 DEF Empty, Files
    <3> QED BY <1>1, <1>3, <3>2
  <2> QED BY <2>2, <2>3
<1>16. Gifts'
  <2>1. \A f \in {"events", "history", "transaction"} : disk'[f] \in {disk[f], Blank(f)} /\ stable'[f] \in {stable[f], disk[f], Blank(f)}
    <3> HIDE DEF file
    <3> QED BY <1>3 DEF Files
  <2>2. /\ IsInjective(<<>>) /\ ToSet(<<>>) = {}
        /\ IsInjective(NoTransaction.gifts) /\ ToSet(NoTransaction.gifts) = {}
    BY DEF NoTransaction, IsInjective, ToSet
  <2>3. OnceEach(disk) /\ OnceEach(stable) /\ StoredIn(disk) \cup StoredIn(stable) \subseteq Stored
    BY DEF LedgerInv, Gifts, Stored
  <2>4. OnceEach(disk)' /\ StoredIn(disk)' \subseteq Stored
    BY <1>12, <2>1, <2>2, <2>3 DEF OnceEach, StoredIn, Files
  <2>5. OnceEach(stable)' /\ StoredIn(stable)' \subseteq Stored
    BY <1>12, <2>1, <2>2, <2>3 DEF OnceEach, StoredIn, Files
  <2>6. Stored' \subseteq Stored
    BY <1>1, <2>4, <2>5 DEF Stored
  <2>7. CASE answers'.erased = answers.erased
    BY <1>3, <2>4, <2>5, <2>6, <2>7, GiftsKept, StoreFacts DEF LedgerInv
  <2>8. CASE answers'.erased # answers.erased
    <3>1. store.shard = 5 /\ answers'.erased = 1..budget.gifts
      BY <1>1, <1>4, <2>8 DEF Promises
    <3>2. Empty(disk)' /\ Empty(stable)'
      BY <1>13, <1>14, <3>1
    <3>3. StoredIn(disk)' = {} /\ StoredIn(stable)' = {}
      BY <2>2, <3>2 DEF Empty, StoredIn
    <3>4. Stored' = {}
      BY <1>1, <3>3 DEF Stored
    <3> QED BY <1>3, <2>4, <2>5, <3>1, <3>4 DEF Gifts
  <2> QED BY <2>7, <2>8
<1>17. ~MarkedForGood' => Journal'
  <2>1. CASE Empty(disk) /\ Empty(stable)
    BY <1>13, <2>1 DEF Empty, Journal
  <2>2. CASE ~(Empty(disk) /\ Empty(stable))
    BY <1>1, <1>14, <1>15, <2>2 DEF MarkedForGood
  <2> QED BY <2>1, <2>2
<1>18. Markers'
  <2>1. ~Operating'
    BY <1>4, <1>5 DEF Operating
  <2>2. answers'.accepted = {} /\ answers'.edits = 0
    BY <1>1, <1>4 DEF Promises
  <2>3. CASE store' = Idle
    <3>1. file = "intent" /\ Blank(file) = FALSE /\ result = "durable"
      <4>1. store.shard = 5 /\ result = "durable"
        BY <1>4, <1>5, <2>3
      <4>2. file = "intent"
        BY <1>2, <4>1
      <4> HIDE DEF file
      <4> QED BY <1>12, <4>1, <4>2 DEF Files
    <3>2. ~Marked'
      BY <1>3, <3>1 DEF Marked
    <3> QED BY <1>4, <1>5, <1>17, <2>3, <3>2 DEF Markers
  <2>4. CASE store' # Idle
    <3>1. stable'["intent"]
      <4>1. CASE store.shard < 5
        BY <1>15, <4>1
      <4>2. CASE ~(store.shard < 5)
        <5>1. store.shard = 5
          BY <1>1, <4>2
        <5>2. result # "durable"
          BY ONLY <1>4, <2>4, <4>2, <5>1, Zenon
        <5>3. stable' = stable
          BY <1>3, <5>2
        <5> QED BY <1>1, <5>3
      <4> QED BY <4>1, <4>2
    <3>2. disk'["intent"] \/ (Empty(disk)' /\ Empty(stable)')
      BY <1>1, <1>13, <1>14, <1>15
    <3>3. store'.block \notin {"none", "endorsement"} /\ store'.intent = "durable"
      BY <1>1, <1>4, <2>4
    <3> QED BY <1>1, <1>17, <2>1, <2>2, <3>1, <3>2, <3>3 DEF Markers, Marked
  <2> QED BY <2>3, <2>4
<1> QED BY <1>6, <1>7, <1>8, <1>11, <1>16, <1>18 DEF LedgerInv

\* The power fails: each file is one of the two, and the journal covers the choice.
LEMMA CrashLedger ==
  ASSUME LedgerInv, LedgerTypes', Crash
  PROVE  LedgerInv'
<1>1. /\ stable' = disk' /\ kept' = pending' /\ consumer' = NoClaim /\ reset' = "none" /\ answers' = answers
      /\ budget'.gifts = budget.gifts
      /\ \A f \in Files : disk'[f] \in {disk[f], stable[f]}
      /\ pending \cap kept \subseteq pending' /\ pending' \subseteq pending \cup kept
  BY DEF Crash, LedgerInv, LedgerTypes, Budgets
<1>2. /\ disk'["history"] \in {disk["history"], stable["history"]}
      /\ disk'["config"] \in {disk["config"], stable["config"]}
      /\ disk'["events"] \in {disk["events"], stable["events"]}
      /\ disk'["transaction"] \in {disk["transaction"], stable["transaction"]}
      /\ disk'["intent"] \in {disk["intent"], stable["intent"]}
  BY <1>1 DEF Files
<1>3. /\ store'.at = "idle" /\ store'.task = "none"
      /\ \/ disk'["intent"] /\ store'.intent = "valid" /\ store'.block = "reset"
         \/ ~disk'["intent"] /\ store'.intent = "none"
  BY DEF Crash, Idle
<1>4. /\ FilesFine(disk) /\ FilesFine(stable) /\ FilesFine(disk') /\ Sure \in States /\ answers \in Promises
  BY StoreFacts DEF LedgerInv, LedgerTypes
<1>5. Stages' /\ Retires'
  BY <1>3 DEF Stages, Retires
<1>6. Calls'
  BY <1>1, <1>3 DEF Calls, NoClaim
<1>7. Journal => Journal' /\ Extends(Sure', Sure)
  <2> SUFFICES ASSUME Journal PROVE Journal' /\ Extends(Sure', Sure)
    OBVIOUS
  <2>1. CASE Agreed
    <3>1. Agreed' /\ Sure' = Sure
      BY <1>1, <1>2, <2>1 DEF Agreed, Sure
    <3> QED BY <1>4, <3>1 DEF Journal, Extends, States
  <2>2. CASE ~Agreed
    <3>1. /\ disk'["history"] = disk["history"] /\ disk'["config"] = disk["config"]
          /\ Written(disk)' = Written(disk) /\ Sure = Written(disk)
      BY <1>2, <2>2 DEF Journal, Sure, Written
    <3>2. disk'["transaction"] = NoTransaction \/ Extends(disk'["transaction"], Written(disk))
      <4>1. Extends(Written(disk), Written(disk))
        BY <1>4, <3>1 DEF Extends, States
      <4> QED BY <1>2, <2>2, <4>1 DEF Journal
    <3>3. CASE disk'["transaction"] = NoTransaction
      BY <1>1, <1>4, <3>1, <3>3 DEF Journal, Agreed, Sure, Extends, States
    <3>4. CASE disk'["transaction"] # NoTransaction
      BY <1>1, <3>1, <3>2, <3>4 DEF Journal, Agreed, Sure
    <3> QED BY <3>3, <3>4
  <2> QED BY <2>1, <2>2
<1>8. Marked' => Marked
  BY <1>1, <1>2 DEF Marked
<1>9. Markers'
  <2>1. ~MarkedForGood' => Journal'
    BY <1>1, <1>2, <1>7 DEF MarkedForGood, LedgerInv, Markers
  <2>2. ~Operating'
    BY <1>3 DEF Operating
  <2>3. Marked' <=> disk'["intent"]
    BY <1>1 DEF Marked
  <2>4. Marked' => answers'.accepted = {} /\ answers'.edits = 0
    BY <1>1, <1>8 DEF LedgerInv, Markers
  <2> QED BY <1>1, <1>3, <2>1, <2>2, <2>3, <2>4 DEF Markers
<1>10. Gifts'
  <2>1. /\ OnceEach(disk) /\ OnceEach(stable)
        /\ StoredIn(disk) \subseteq Stored /\ StoredIn(stable) \subseteq Stored
        /\ pending \cup kept \subseteq Stored
    BY DEF LedgerInv, Gifts, Stored
  <2>2. OnceEach(disk)' /\ StoredIn(disk)' \subseteq Stored
    BY <1>2, <2>1 DEF OnceEach, StoredIn
  <2>3. OnceEach(stable)' /\ StoredIn(stable)' \subseteq Stored
    BY <1>1, <2>2 DEF OnceEach, StoredIn
  <2>4. Stored' \subseteq Stored
    BY <1>1, <2>1, <2>2, <2>3 DEF Stored
  <2> QED BY <1>1, <2>2, <2>3, <2>4, GiftsKept, StoreFacts DEF LedgerInv
<1>11. Answered'
  <2>1. Sure' \in States
    BY LaterTypes
  <2>2. CASE Marked
    <3>1. answers'.accepted = {} /\ answers'.edits = 0
      BY <1>1, <2>2 DEF LedgerInv, Markers
    <3> QED BY <2>1, <3>1 DEF Answered, States
  <2>3. CASE ~Marked
    <3>1. Extends(Sure', Sure)
      BY <1>7, <2>3 DEF LedgerInv, Markers, Marked, MarkedForGood
    <3>2. answers.accepted \subseteq (pending \cap kept) \cup ToSet(Sure.gifts) /\ answers.edits <= Sure.edits
      BY DEF LedgerInv, Answered
    <3>3. answers'.edits <= Sure'.edits
      BY <1>1, <1>4, <2>1, <3>1, <3>2 DEF Extends, States, Promises
    <3>4. answers'.accepted \subseteq (pending' \cap kept') \cup ToSet(Sure'.gifts)
      BY <1>1, <3>1, <3>2 DEF Extends
    <3> QED BY <3>3, <3>4 DEF Answered
  <2> QED BY <2>2, <2>3
<1> QED BY <1>5, <1>6, <1>9, <1>10, <1>11 DEF LedgerInv

-----------------------------------------------------------------------------
(* The invariant, and what it is for. *)

LEMMA LedgerStarts == ASSUME LedgerInit PROVE LedgerInv
<1>1. /\ disk = BlankDisk /\ stable = BlankDisk /\ pending = {} /\ kept = {}
      /\ store = Idle /\ consumer = NoClaim /\ reset = "none"
      /\ answers = [accepted |-> {}, edits |-> 0, erased |-> {}]
      /\ budget = [gifts |-> 0, edits |-> MaxChanges, resets |-> MaxResets,
                   failures |-> MaxFailures, crashes |-> MaxCrashes]
  BY DEF LedgerInit
<1>2. /\ disk["events"] = <<>> /\ disk["history"] = <<>> /\ disk["config"] = 0
      /\ disk["transaction"] = NoTransaction /\ disk["intent"] = FALSE
  BY <1>1 DEF BlankDisk, Blank, Files
<1>3. FilesFine(disk) /\ FilesFine(stable)
  <2>1. disk = [file \in Files |-> disk[file]]
    BY <1>1 DEF BlankDisk
  <2>2. \A file \in Files : disk[file] \in Kind(file)
    BY <1>1, RestTypes DEF BlankDisk
  <2> QED BY <1>1, <2>1, <2>2 DEF FilesFine
<1>4. LedgerTypes
  <2>1. answers \in Promises /\ budget \in Budgets
    BY <1>1, LedgerAssumption DEF Promises, Budgets
  <2> QED BY <1>1, <1>3, <2>1, RestTypes DEF LedgerTypes
<1>5. /\ store.at = "idle" /\ store.task = "none" /\ store.block = "none" /\ store.intent = "none"
      /\ consumer.at = "idle"
  BY <1>1 DEF Idle, NoClaim
<1>6. Stages /\ Calls /\ Retires
  BY <1>1, <1>5 DEF Stages, Calls, Retires
<1>7. Markers
  BY <1>1, <1>2, <1>5 DEF Markers, Journal, Marked, Operating
<1>8. Gifts /\ Answered
  <2>1. /\ IsInjective(<<>>) /\ ToSet(<<>>) = {}
        /\ IsInjective(NoTransaction.gifts) /\ ToSet(NoTransaction.gifts) = {}
    BY DEF NoTransaction, IsInjective, ToSet
  <2>2. OnceEach(disk) /\ OnceEach(stable) /\ Stored = {}
    BY <1>1, <1>2, <2>1 DEF OnceEach, Stored, StoredIn
  <2>3. Gifts
    BY <1>1, <2>2 DEF Gifts
  <2>4. Sure.edits = 0
    BY <1>2 DEF Sure, Agreed, Written
  <2> QED BY <1>1, <2>3, <2>4 DEF Answered
<1> QED BY <1>4, <1>6, <1>7, <1>8 DEF LedgerInv

LEMMA LedgerStep == ASSUME LedgerInv, [LedgerNext]_ledgerVars PROVE LedgerInv'
<1>1. LedgerTypes'
  BY LedgerTypesStep DEF LedgerInv
<1>2. CASE UNCHANGED ledgerVars
  <2>1. UNCHANGED <<disk, stable, pending, kept, store, consumer, reset, answers, budget>>
    BY <1>2 DEF ledgerVars
  <2>2. Gifts' /\ Answered'
    BY <1>1, <2>1, QuietLedger
  <2>3. Calls' /\ Markers'
    <3>1. /\ Sure' = Sure /\ (Marked' <=> Marked) /\ (Journal => Journal') /\ (MarkedForGood' <=> MarkedForGood)
          /\ Empty(disk)' = Empty(disk) /\ Empty(stable)' = Empty(stable) /\ (Operating' <=> Operating)
      BY <2>1, SameFiles DEF Operating
    <3> QED BY <2>1, <3>1 DEF LedgerInv, Calls, Markers
  <2>4. Stages' /\ Retires'
    BY <2>1 DEF LedgerInv, Stages, Retires, Agreed, Written
  <2> QED BY <1>1, <2>2, <2>3, <2>4 DEF LedgerInv
<1>3. CASE CallGift \/ CallEdit \/ CallRead
  <2>1. CASE CallGift
    BY <1>1, <2>1, CallLedger DEF CallGift
  <2>2. CASE CallEdit
    <3>1. budget'.gifts = budget.gifts
      BY <2>2 DEF CallEdit, LedgerInv, LedgerTypes, Budgets
    <3> QED BY <1>1, <2>2, <3>1, CallLedger DEF CallEdit
  <2>3. CASE CallRead
    BY <1>1, <2>3, CallLedger DEF CallRead
  <2> QED BY <1>3, <2>1, <2>2, <2>3
<1>4. CASE ReadTransaction \/ ReadTransactionFails \/ StoreRecovered
  BY <1>1, <1>4, ReadLedger
<1>5. ASSUME NEW result \in Results,
             \/ Endorse(result) \/ Prepare(result) \/ ApplyShard(result) \/ RemoveTransaction(result)
             \/ AcceptRecord(result)
             \/ WriteMarker(result) \/ RetireRecord(result) \/ SynchronizeInbox(result)
             \/ RetireArtifact(result)
      PROVE  LedgerInv'
  <2>1. CASE Endorse(result) \/ Prepare(result)
    BY <1>1, <2>1, EndorseLedger, PrepareLedger
  <2>2. CASE ApplyShard(result) \/ RemoveTransaction(result)
    BY <1>1, <2>2, ApplyLedger, RemoveLedger
  <2>3. CASE AcceptRecord(result) \/ WriteMarker(result)
    BY <1>1, <2>3, AcceptLedger, MarkerLedger
  <2>4. CASE RetireRecord(result) \/ SynchronizeInbox(result)
    BY <1>1, <2>4, InboxLedger
  <2>5. CASE RetireArtifact(result)
    BY <1>1, <2>5, RetiringLedger
  <2> QED BY <1>5, <2>1, <2>2, <2>3, <2>4, <2>5
<1>6. CASE Claim \/ ReleaseRecord \/ Acknowledge \/ AcknowledgeFails
  BY <1>1, <1>6, ClaimLedger
<1>7. CASE Reset
  BY <1>1, <1>7, ResetLedger
<1>8. CASE Crash
  BY <1>1, <1>8, CrashLedger
<1> QED BY <1>2, <1>3, <1>4, <1>5, <1>6, <1>7, <1>8 DEF LedgerNext

LEMMA LedgerInvariant == LedgerSpec => []LedgerInv
BY LedgerStarts, LedgerStep, PTL DEF LedgerSpec

\* What was answered holds, once: every gift that was accepted waits in the inbox or is
\* counted, every edit that was answered is in the configuration that counts, and no gift
\* is counted twice (gift_inbox.go, config_store.go, state_transaction.go), whichever
\* writes fail, are left half done or are undone by a power failure.
THEOREM AnswersAlwaysHold == LedgerSpec => []AnswersHoldOnce
<1>1. ASSUME LedgerInv PROVE AnswersHoldOnce
  <2>1. /\ FilesFine(disk) /\ answers \in Promises /\ Sure \in States
        /\ OnceEach(disk) /\ Markers /\ Answered /\ LedgerTypes
    BY <1>1, StoreFacts DEF LedgerInv, LedgerTypes, Gifts
  <2>2. /\ Written(disk) \in States /\ Written(disk).gifts = disk["history"]
        /\ disk["transaction"] \in States \cup {NoTransaction}
    BY <2>1, FileFacts
  <2>3. Authoritative(disk) \in States /\ IsInjective(CountedGifts)
    BY <2>1, <2>2 DEF Authoritative, CountedGifts, OnceEach
  <2>4. CASE MarkedForGood
    <3>1. answers.accepted = {} /\ answers.edits = 0
      BY <2>1, <2>4 DEF Markers, Marked, MarkedForGood
    <3> QED BY <2>3, <3>1 DEF AnswersHoldOnce, States
  <2>5. CASE ~MarkedForGood
    <3>1. Extends(Authoritative(disk), Sure)
      BY <2>1, <2>5, JournalCovers DEF Markers
    <3>2. answers.edits <= Authoritative(disk).edits
      BY <2>1, <2>3, <3>1 DEF Answered, Extends, States, Promises
    <3>3. answers.accepted \subseteq pending \cup ToSet(CountedGifts)
      BY <2>1, <3>1 DEF Answered, Extends, CountedGifts
    <3> QED BY <2>3, <3>2, <3>3 DEF AnswersHoldOnce
  <2> QED BY <2>4, <2>5
<1> QED BY <1>1, LedgerInvariant, PTL

\* A reset that succeeded is for good: no file, visible or synchronized, and no record
\* tells of a gift that it erased (background_runtime.go, state_shards.go), so that none
\* is counted or waits in the inbox again.
THEOREM ErasedForGood == LedgerSpec => []ResetErases
<1>1. ASSUME LedgerInv PROVE ResetErases
  <2>1. FilesFine(disk) /\ answers.erased \cap Stored = {}
    BY <1>1 DEF LedgerInv, LedgerTypes, Gifts
  <2>2. Written(disk).gifts = disk["history"]
    BY <2>1, FileFacts
  <2>3. pending \cup ToSet(CountedGifts) \subseteq Stored
    BY <2>2 DEF CountedGifts, Authoritative, Stored, StoredIn
  <2> QED BY <2>1, <2>3 DEF ResetErases
<1> QED BY <1>1, LedgerInvariant, PTL

-----------------------------------------------------------------------------
(***************************************************************************)
(* The play of the panel (Activities).  Rules change only the attributes   *)
(* they may, however they follow each other; the deadline of an activity   *)
(* that runs is the end of its window; what is counted for a date is what  *)
(* was applied on it.                                                      *)
(***************************************************************************)

LEMMA LeastNumber ==
  ASSUME NEW S \in SUBSET Nat, S # {}
  PROVE  \E m \in S : \A j \in S : m <= j
<1> DEFINE R == OpToRel(<, Nat)
<1>1. IsWellFoundedOn(R, Nat)
  BY NatLessThanWellFounded
<1>2. \A x, y \in Nat : x < y => <<x, y>> \in R
  BY DEF OpToRel
<1> HIDE DEF R
<1>3. PICK x \in S : \A y \in S : ~(<<y, x>> \in R)
  BY <1>1, WFMin
<1>4. \A y \in S : ~(y < x)
  BY <1>2, <1>3
<1>5. \A y \in S : x <= y
  BY <1>4
<1> QED
  BY <1>5

\* Induction up to a bound, as a fact about sets.
LEMMA CountUp ==
  ASSUME NEW N \in Nat, NEW T, 0 \in T, \A k \in 0..N : k \in T /\ k < N => k + 1 \in T
  PROVE  \A k \in 0..N : k \in T
<1> DEFINE out == {k \in 0..N : k \notin T}
<1>1. SUFFICES ASSUME out # {} PROVE FALSE
  OBVIOUS
<1>2. PICK m \in out : \A j \in out : m <= j
  <2>1. out \in SUBSET Nat
    OBVIOUS
  <2> HIDE DEF out
  <2> QED
    BY <1>1, <2>1, LeastNumber
<1>3. m \in 0..N /\ m # 0 /\ m \notin T
  BY <1>2
<1>4. m - 1 \in 0..N /\ m - 1 < N /\ (m - 1) + 1 = m
  BY <1>3
<1>5. m - 1 \in T
  <2>1. ~(m <= m - 1)
    BY <1>3
  <2> QED
    BY <1>2, <1>4, <2>1
<1> QED
  BY <1>3, <1>4, <1>5

LEMMA LastNumber ==
  ASSUME NEW N \in Nat, NEW S \in SUBSET (1..N), S # {}
  PROVE  Max(S) \in S
<1> DEFINE back == {N - x : x \in S}
<1>1. back \in SUBSET Nat /\ back # {}
  <2>1. \A x \in S : N - x \in Nat
    OBVIOUS
  <2> QED
    BY <2>1
<1>2. PICK m \in back : \A j \in back : m <= j
  <2> HIDE DEF back
  <2> QED
    BY <1>1, LeastNumber
<1>3. PICK x \in S : m = N - x
  BY <1>2
<1>4. \A y \in S : x >= y
  <2>1. SUFFICES ASSUME NEW y \in S PROVE x >= y
    OBVIOUS
  <2>2. N - y \in back
    OBVIOUS
  <2>3. m <= N - y
    BY <1>2, <2>2
  <2> QED
    BY <1>3, <2>3
<1> QED
  BY <1>4 DEF Max

LEMMA FirstNumber ==
  ASSUME NEW S \in SUBSET Nat, S # {}
  PROVE  Min(S) \in S
BY LeastNumber DEF Min

-----------------------------------------------------------------------------
(* Rules that follow each other. *)
IsValues(v) == v = [s \in Scores |-> v[s]] /\ \A s \in Scores : v[s] # Skipped

\* v may come from the attributes by rules.
ByRules(v) == IsValues(v) /\ \A s \in Scores : v[s] # scores[s] => AllowsRules(s)

GoodRun(x) ==
  /\ x = [values |-> x.values, counts |-> x.counts, changed |-> x.changed]
  /\ ByRules(x.values)
  /\ x.counts \in [DOMAIN GiftRules -> Int]
  /\ \A r \in DOMAIN GiftRules : x.counts[r] <= GiftRules[r].limit

LEMMA ValuesSet ==
  ASSUME NEW v, ByRules(v), NEW s \in Scores, AllowsRules(s), NEW c, c # Skipped
  PROVE  ByRules([v EXCEPT ![s] = c])
<1>1. [v EXCEPT ![s] = c] = [x \in Scores |-> IF x = s THEN c ELSE v[x]]
  BY DEF ByRules, IsValues
<1> DEFINE w == [x \in Scores |-> IF x = s THEN c ELSE v[x]]
<1>2. \A x \in Scores : w[x] = IF x = s THEN c ELSE v[x]
  OBVIOUS
<1>3. w = [x \in Scores |-> w[x]]
  OBVIOUS
<1> HIDE DEF w
<1>4. ByRules(w)
  BY <1>2, <1>3 DEF ByRules, IsValues
<1> QED
  BY <1>1, <1>4 DEF w

LEMMA OneRule ==
  ASSUME NEW x, GoodRun(x), NEW r \in DOMAIN GiftRules
  PROVE  GoodRun(RuleApplied(x, r))
<1> DEFINE rule == GiftRules[r]
           value == rule.formula[x.values[rule.score]]
           capped == IF value > rule.cap THEN rule.cap ELSE value
<1>1. CASE ~AllowsRules(rule.score) \/ x.counts[r] >= rule.limit \/ value = Skipped
  BY <1>1 DEF RuleApplied
<1>2. CASE AllowsRules(rule.score) /\ ~(x.counts[r] >= rule.limit) /\ value # Skipped
  <2>1. RuleApplied(x, r) = [values |-> [x.values EXCEPT ![rule.score] = capped],
                             counts |-> [x.counts EXCEPT ![r] = @ + 1],
                             changed |-> x.changed \cup {rule.score}]
    BY <1>2 DEF RuleApplied
  <2>2. rule.score \in Scores /\ rule.limit \in Nat /\ capped # Skipped
    BY <1>2, RuleAssumption, NumberAssumption
  <2>3. ByRules([x.values EXCEPT ![rule.score] = capped])
    <3> HIDE DEF capped
    <3> QED
      BY <1>2, <2>2, ValuesSet DEF GoodRun
  <2>4. PICK n \in [DOMAIN GiftRules -> Int] : n = x.counts
    BY DEF GoodRun
  <2>5. n[r] + 1 \in Int /\ n[r] + 1 <= rule.limit
    BY <1>2, <2>2, <2>4
  <2>6. [n EXCEPT ![r] = @ + 1] \in [DOMAIN GiftRules -> Int]
    BY <2>5
  <2>7. \A q \in DOMAIN GiftRules : [n EXCEPT ![r] = @ + 1][q] <= GiftRules[q].limit
    BY <2>4, <2>5 DEF GoodRun
  <2> HIDE DEF capped, value, rule
  <2> QED
    BY <2>1, <2>3, <2>4, <2>6, <2>7 DEF GoodRun
<1> QED
  BY <1>1, <1>2

LEMMA AllRules ==
  ASSUME NEW x, GoodRun(x)
  PROVE  GoodRun(RulesApplied(x))
<1> DEFINE L == Len(GiftRules)
           Upto(k, f) == f = [r \in 0..k |-> IF r = 0 THEN x ELSE RuleApplied(f[r - 1], r)]
           T == {k \in 0..L : \E f : Upto(k, f)}
<1>1. L \in Nat /\ DOMAIN GiftRules = 1..L
  BY RuleAssumption
<1>2. \E f : Upto(L, f)
  <2>1. 0 \in T
    <3> DEFINE g == [r \in 0..0 |-> x]
    <3>1. Upto(0, g)
      OBVIOUS
    <3> HIDE DEF g
    <3>2. \E f : Upto(0, f)
      BY <3>1
    <3> QED
      BY <1>1, <3>2
  <2>2. ASSUME NEW k \in 0..L, k \in T, k < L
        PROVE  k + 1 \in T
    <3>1. PICK f : Upto(k, f)
      BY <2>2
    <3> DEFINE g == [r \in 0..k + 1 |-> IF r <= k THEN f[r] ELSE RuleApplied(f[k], k + 1)]
    <3>2. \A r \in 0..k : g[r] = f[r]
      BY <1>1
    <3>3. ASSUME NEW r \in 0..k + 1
          PROVE  g[r] = IF r = 0 THEN x ELSE RuleApplied(g[r - 1], r)
      <4>1. CASE r = 0
        BY <1>1, <3>1, <4>1
      <4>2. CASE r \in 1..k
        <5>1. r - 1 \in 0..k /\ r \in 0..k
          BY <1>1, <4>2
        <5>2. f[r] = RuleApplied(f[r - 1], r)
          BY <1>1, <3>1, <4>2, <5>1
        <5> QED
          BY <3>2, <4>2, <5>1, <5>2
      <4>3. CASE r = k + 1
        <5>1. k \in 0..k /\ ~(k + 1 <= k) /\ r - 1 = k /\ r # 0
          BY <1>1, <4>3
        <5> QED
          BY <3>2, <4>3, <5>1
      <4>4. r = 0 \/ r \in 1..k \/ r = k + 1
        BY <1>1
      <4> QED
        BY <4>1, <4>2, <4>3, <4>4
    <3>4. Upto(k + 1, g)
      <4>1. g = [r \in 0..k + 1 |-> g[r]]
        OBVIOUS
      <4> HIDE DEF g
      <4> QED
        BY <3>3, <4>1
    <3>5. k + 1 \in 0..L
      BY <1>1, <2>2
    <3> QED
      BY <3>4, <3>5
  <2> HIDE DEF T
  <2>3. \A k \in 0..L : k \in T
    BY <1>1, <2>1, <2>2, CountUp
  <2> QED
    BY <1>1, <2>3 DEF T
<1> DEFINE after[r \in 0..L] == IF r = 0 THEN x ELSE RuleApplied(after[r - 1], r)
<1>3. after = [r \in 0..L |-> IF r = 0 THEN x ELSE RuleApplied(after[r - 1], r)]
  BY <1>2
<1>4. RulesApplied(x) = after[L]
  BY DEF RulesApplied
<1> HIDE DEF after
<1> DEFINE G == {k \in 0..L : GoodRun(after[k])}
<1>5. 0 \in G
  BY <1>1, <1>3
<1>6. ASSUME NEW k \in 0..L, k \in G, k < L
      PROVE  k + 1 \in G
  <2>1. k + 1 \in 0..L /\ k + 1 # 0 /\ (k + 1) - 1 = k /\ k + 1 \in DOMAIN GiftRules
    BY <1>1, <1>6
  <2>2. after[k + 1] = RuleApplied(after[k], k + 1)
    BY <1>3, <2>1
  <2> QED
    BY <1>6, <2>1, <2>2, OneRule
<1> HIDE DEF G
<1>7. \A k \in 0..L : k \in G
  BY <1>1, <1>5, <1>6, CountUp
<1>8. L \in 0..L
  BY <1>1
<1> QED
  BY <1>4, <1>7, <1>8 DEF G

LEMMA AllOccurrences ==
  ASSUME NEW values, NEW counts, NEW L \in Nat,
         GoodRun([values |-> values, counts |-> counts, changed |-> {}])
  PROVE  GoodRun(GiftApplied(values, counts, L))
<1> DEFINE x == [values |-> values, counts |-> counts, changed |-> {}]
           Upto(k, f) == f = [r \in 0..k |-> IF r = 0 THEN x ELSE RulesApplied(f[r - 1])]
           T == {k \in 0..L : \E f : Upto(k, f)}
<1>0. GoodRun(x)
  OBVIOUS
<1> HIDE DEF x
<1>1. L \in Nat /\ L \in 0..L
  OBVIOUS
<1>2. \E f : Upto(L, f)
  <2>1. 0 \in T
    <3> DEFINE g == [r \in 0..0 |-> x]
    <3>1. Upto(0, g)
      OBVIOUS
    <3> HIDE DEF g
    <3>2. \E f : Upto(0, f)
      BY <3>1
    <3> QED
      BY <1>1, <3>2
  <2>2. ASSUME NEW k \in 0..L, k \in T, k < L
        PROVE  k + 1 \in T
    <3>1. PICK f : Upto(k, f)
      BY <2>2
    <3> DEFINE g == [r \in 0..k + 1 |-> IF r <= k THEN f[r] ELSE RulesApplied(f[k])]
    <3>2. \A r \in 0..k : g[r] = f[r]
      BY <1>1
    <3>3. ASSUME NEW r \in 0..k + 1
          PROVE  g[r] = IF r = 0 THEN x ELSE RulesApplied(g[r - 1])
      <4>1. CASE r = 0
        BY <1>1, <3>1, <4>1
      <4>2. CASE r \in 1..k
        <5>1. r - 1 \in 0..k /\ r \in 0..k
          BY <1>1, <4>2
        <5>2. r # 0
          BY <4>2
        <5>3. f[r] = IF r = 0 THEN x ELSE RulesApplied(f[r - 1])
          BY <3>1, <5>1
        <5> QED
          BY <3>2, <5>1, <5>2, <5>3
      <4>3. CASE r = k + 1
        <5>1. k \in 0..k /\ ~(k + 1 <= k) /\ r - 1 = k /\ r # 0
          BY <1>1, <4>3
        <5> QED
          BY <3>2, <4>3, <5>1
      <4>4. r = 0 \/ r \in 1..k \/ r = k + 1
        BY <1>1
      <4> QED
        BY <4>1, <4>2, <4>3, <4>4
    <3>4. Upto(k + 1, g)
      <4>1. g = [r \in 0..k + 1 |-> g[r]]
        OBVIOUS
      <4> HIDE DEF g
      <4> QED
        BY <3>3, <4>1
    <3>5. k + 1 \in 0..L
      BY <1>1, <2>2
    <3> QED
      BY <3>4, <3>5
  <2> HIDE DEF T
  <2>3. \A k \in 0..L : k \in T
    BY <1>1, <2>1, <2>2, CountUp
  <2> QED
    BY <1>1, <2>3 DEF T
<1> DEFINE after[r \in 0..L] == IF r = 0 THEN x ELSE RulesApplied(after[r - 1])
<1>3. after = [r \in 0..L |-> IF r = 0 THEN x ELSE RulesApplied(after[r - 1])]
  BY <1>2
<1>4. GiftApplied(values, counts, L) = after[L]
  BY DEF GiftApplied, x
<1> HIDE DEF after
<1> DEFINE G == {k \in 0..L : GoodRun(after[k])}
<1>5. 0 \in G
  BY <1>0, <1>1, <1>3
<1>6. ASSUME NEW k \in 0..L, k \in G, k < L
      PROVE  k + 1 \in G
  <2>1. k + 1 \in 0..L /\ k + 1 # 0 /\ (k + 1) - 1 = k
    BY <1>1, <1>6
  <2>2. after[k + 1] = RulesApplied(after[k])
    BY <1>3, <2>1
  <2> QED
    BY <1>6, <2>1, <2>2, AllRules
<1> HIDE DEF G
<1>7. \A k \in 0..L : k \in G
  BY <1>1, <1>5, <1>6, CountUp
<1>8. L \in 0..L
  BY <1>1
<1> QED
  BY <1>4, <1>7, <1>8 DEF G

LEMMA OneTimer ==
  ASSUME NEW v, ByRules(v), NEW r \in DOMAIN TimerRules, NEW chosen
  PROVE  ByRules(TimerApplied(v, r, chosen))
<1>1. TimerRules[r].score \in Scores
  BY RuleAssumption
<1> QED
  BY <1>1, ValuesSet DEF TimerApplied

LEMMA AllTimers ==
  ASSUME NEW x, ByRules(x), NEW chosen
  PROVE  ByRules(TimersApplied(x, chosen))
<1> DEFINE L == Len(TimerRules)
           Upto(k, f) == f = [r \in 0..k |-> IF r = 0 THEN x ELSE TimerApplied(f[r - 1], r, chosen)]
           T == {k \in 0..L : \E f : Upto(k, f)}
<1>1. L \in Nat /\ DOMAIN TimerRules = 1..L
  BY RuleAssumption
<1>2. \E f : Upto(L, f)
  <2>1. 0 \in T
    <3> DEFINE g == [r \in 0..0 |-> x]
    <3>1. Upto(0, g)
      OBVIOUS
    <3> HIDE DEF g
    <3>2. \E f : Upto(0, f)
      BY <3>1
    <3> QED
      BY <1>1, <3>2
  <2>2. ASSUME NEW k \in 0..L, k \in T, k < L
        PROVE  k + 1 \in T
    <3>1. PICK f : Upto(k, f)
      BY <2>2
    <3> DEFINE g == [r \in 0..k + 1 |-> IF r <= k THEN f[r] ELSE TimerApplied(f[k], k + 1, chosen)]
    <3>2. \A r \in 0..k : g[r] = f[r]
      BY <1>1
    <3>3. ASSUME NEW r \in 0..k + 1
          PROVE  g[r] = IF r = 0 THEN x ELSE TimerApplied(g[r - 1], r, chosen)
      <4>1. CASE r = 0
        BY <1>1, <3>1, <4>1
      <4>2. CASE r \in 1..k
        <5>1. r - 1 \in 0..k /\ r \in 0..k
          BY <1>1, <4>2
        <5>2. f[r] = TimerApplied(f[r - 1], r, chosen)
          BY <1>1, <3>1, <4>2, <5>1
        <5> QED
          BY <3>2, <4>2, <5>1, <5>2
      <4>3. CASE r = k + 1
        <5>1. k \in 0..k /\ ~(k + 1 <= k) /\ r - 1 = k /\ r # 0
          BY <1>1, <4>3
        <5> QED
          BY <3>2, <4>3, <5>1
      <4>4. r = 0 \/ r \in 1..k \/ r = k + 1
        BY <1>1
      <4> QED
        BY <4>1, <4>2, <4>3, <4>4
    <3>4. Upto(k + 1, g)
      <4>1. g = [r \in 0..k + 1 |-> g[r]]
        OBVIOUS
      <4> HIDE DEF g
      <4> QED
        BY <3>3, <4>1
    <3>5. k + 1 \in 0..L
      BY <1>1, <2>2
    <3> QED
      BY <3>4, <3>5
  <2> HIDE DEF T
  <2>3. \A k \in 0..L : k \in T
    BY <1>1, <2>1, <2>2, CountUp
  <2> QED
    BY <1>1, <2>3 DEF T
<1> DEFINE after[r \in 0..L] == IF r = 0 THEN x ELSE TimerApplied(after[r - 1], r, chosen)
<1>3. after = [r \in 0..L |-> IF r = 0 THEN x ELSE TimerApplied(after[r - 1], r, chosen)]
  BY <1>2
<1>4. TimersApplied(x, chosen) = after[L]
  BY DEF TimersApplied
<1> HIDE DEF after
<1> DEFINE G == {k \in 0..L : ByRules(after[k])}
<1>5. 0 \in G
  BY <1>1, <1>3
<1>6. ASSUME NEW k \in 0..L, k \in G, k < L
      PROVE  k + 1 \in G
  <2>1. k + 1 \in 0..L /\ k + 1 # 0 /\ (k + 1) - 1 = k /\ k + 1 \in DOMAIN TimerRules
    BY <1>1, <1>6
  <2>2. after[k + 1] = TimerApplied(after[k], k + 1, chosen)
    BY <1>3, <2>1
  <2> QED
    BY <1>6, <2>1, <2>2, OneTimer
<1> HIDE DEF G
<1>7. \A k \in 0..L : k \in G
  BY <1>1, <1>5, <1>6, CountUp
<1>8. L \in 0..L
  BY <1>1
<1> QED
  BY <1>4, <1>7, <1>8 DEF G

-----------------------------------------------------------------------------
(* What may become of the record of an activity. *)
IsRecord(a, r) ==
  /\ r = [status |-> r.status, result |-> r.result, deadline |-> r.deadline, triggered |-> r.triggered]
  /\ r.status \in {"not_started", "active", "locked", "settled"}
  /\ r.triggered = [m \in DOMAIN MilestonesOf[a] |-> r.triggered[m]]

\* It is ended by an action, with the values of that moment.
IsEnded(a, r, e, values) ==
  /\ e.status \in {"locked", "settled"} /\ e.triggered = r.triggered
  /\ e.status = "settled" => e.result = SettledResult(a, values)

LEMMA FreshRecord ==
  ASSUME NEW a \in Shows, NEW status \in {"not_started", "active"}
  PROVE  IsRecord(a, Fresh(a, status)) /\ Fresh(a, status).status = status /\ Fresh(a, status).deadline = 0
BY DEF IsRecord, Fresh, Untriggered

LEMMA EndedRecord ==
  ASSUME NEW a \in Shows, NEW r, IsRecord(a, r), NEW values, NEW action \in {"lock", "settle"}
  PROVE  IsRecord(a, Ended(a, r, values, action)) /\ IsEnded(a, r, Ended(a, r, values, action), values)
<1>1. CASE action = "lock"
  <2>1. Ended(a, r, values, action) =
          [status |-> "locked", result |-> r.result, deadline |-> 0, triggered |-> r.triggered]
    BY <1>1 DEF Ended, IsRecord
  <2> QED
    BY <2>1 DEF IsRecord, IsEnded
<1>2. CASE action = "settle"
  <2>1. Ended(a, r, values, action) =
          [status |-> "settled", result |-> SettledResult(a, values), deadline |-> 0, triggered |-> r.triggered]
    BY <1>2 DEF Ended, IsRecord
  <2> QED
    BY <2>1 DEF IsRecord, IsEnded
<1> QED
  BY <1>1, <1>2

\* Milestones: what they leave, and what is told when they end the activity.
IsEvaluated(a, r, e, values) ==
  /\ IsRecord(a, e)
  /\ r.status # "active" => e = r
  /\ r.status = "active" =>
       /\ \A m \in DOMAIN r.triggered : r.triggered[m] \in {Skipped, e.triggered[m]}
       /\ \/ e.status = "active" /\ e.deadline = r.deadline
          \/ /\ e.status \in {"locked", "settled"} /\ e.triggered # r.triggered
             /\ e.status = "settled" => e.result = SettledResult(a, values)

LEMMA MilestonesTell ==
  ASSUME NEW a \in Shows, NEW r, IsRecord(a, r), NEW values, \A s \in Scores : values[s] # Skipped
  PROVE  IsEvaluated(a, r, Evaluated(a, r, values), values)
<1> DEFINE milestone == MilestonesOf[a]
           reached == {m \in DOMAIN milestone : r.triggered[m] = Skipped /\ Reached(milestone[m], values)}
           ending == {m \in reached : milestone[m].action \in {"lock", "settle"}}
           told == {m \in reached : \A e \in ending : m =< e}
           tells == [m \in DOMAIN milestone |-> IF m \in told THEN values[milestone[m].score] ELSE r.triggered[m]]
           noted == [r EXCEPT !.triggered = tells]
<1>1. milestone \in Seq(Milestones)
  BY ShowAssumption
<1>2. DOMAIN milestone \subseteq Nat /\ \A m \in DOMAIN milestone : milestone[m] \in Milestones
  BY <1>1
<1>3. noted = [status |-> r.status, result |-> r.result, deadline |-> r.deadline, triggered |-> tells]
  <2>1. ASSUME NEW x
        PROVE  [r EXCEPT !.triggered = x] =
                 [status |-> r.status, result |-> r.result, deadline |-> r.deadline, triggered |-> x]
    BY DEF IsRecord
  <2> HIDE DEF tells
  <2> QED
    BY <2>1
<1>4. tells = [m \in DOMAIN milestone |-> tells[m]]
  OBVIOUS
<1>5. IsRecord(a, noted)
  <2> HIDE DEF tells
  <2> QED
    BY <1>3, <1>4 DEF IsRecord
<1>6. ASSUME NEW m \in DOMAIN milestone
      PROVE  /\ r.triggered[m] \in {Skipped, tells[m]}
             /\ m \in told => tells[m] # r.triggered[m]
  <2>1. milestone[m].score \in Scores
    BY <1>2 DEF Milestones
  <2> QED
    BY <2>1
<1>7. DOMAIN r.triggered = DOMAIN milestone
  BY DEF IsRecord
<1>8. ~(r.status = "active") => Evaluated(a, r, values) = r
  BY DEF Evaluated
<1>9. r.status = "active" /\ ending = {} => Evaluated(a, r, values) = noted
  BY DEF Evaluated
<1>10. r.status = "active" /\ ending # {} =>
         Evaluated(a, r, values) = Ended(a, noted, values, milestone[Min(ending)].action)
  BY DEF Evaluated
<1>11. CASE r.status # "active"
  BY <1>8, <1>11 DEF IsEvaluated
<1>12. CASE r.status = "active" /\ ending = {}
  <2> HIDE DEF noted, tells, ending, milestone
  <2> QED
    BY <1>3, <1>5, <1>6, <1>7, <1>9, <1>12 DEF IsEvaluated
<1>13. CASE r.status = "active" /\ ending # {}
  <2>1. ending \in SUBSET Nat
    BY <1>2
  <2>2. PICK first : first = Min(ending) /\ first \in ending /\ \A e \in ending : first =< e
    <3> HIDE DEF ending
    <3> QED
      BY <1>13, <2>1, LeastNumber DEF Min
  <2>3. first \in told /\ first \in DOMAIN milestone /\ milestone[first].action \in {"lock", "settle"}
    BY <2>2
  <2> DEFINE e == Ended(a, noted, values, milestone[first].action)
  <2>4. IsRecord(a, e) /\ IsEnded(a, noted, e, values)
    <3> HIDE DEF noted, milestone
    <3> QED
      BY <1>5, <2>3, EndedRecord
  <2>5. Evaluated(a, r, values) = e
    BY <1>10, <1>13, <2>2
  <2>6. noted.triggered = tells
    <3> HIDE DEF tells, noted
    <3> QED
      BY <1>3
  <2>7. e.triggered = tells /\ e.status \in {"locked", "settled"}
        /\ (e.status = "settled" => e.result = SettledResult(a, values))
    <3> HIDE DEF noted, tells, e
    <3> QED
      BY <2>4, <2>6 DEF IsEnded
  <2>8. tells # r.triggered
    <3> HIDE DEF tells, told
    <3> QED
      BY <1>6, <2>3
  <2> HIDE DEF e, tells, noted, ending, told, milestone
  <2> QED
    BY <1>6, <1>7, <1>13, <2>4, <2>5, <2>7, <2>8 DEF IsEvaluated
<1> QED
  BY <1>11, <1>12, <1>13

\* Timeouts: each ends, resets or leaves its activity; only a reset changes attributes.
RestoredBy(b, s, shows, after) == b \in Shows /\ s \in ScoresOf[b] /\ after[b] = Fresh(b, "not_started")

LEMMA Timeouts ==
  ASSUME NEW shows, NEW values, NEW tick, IsValues(values),
         \A a \in Shows : IsRecord(a, shows[a]),
         NEW t, t = TimedOut(shows, values, tick)
  PROVE  /\ IsValues(t.values)
         /\ t.shows = [a \in Shows |-> t.shows[a]]
         /\ \A s \in Scores : t.values[s] # values[s] =>
              \E b \in Shows : RestoredBy(b, s, shows, t.shows) /\ t.values[s] = InitialScores[b][s]
         /\ \A a \in Shows :
              /\ IsRecord(a, t.shows[a])
              /\ \/ t.shows[a] = shows[a]
                 \/ /\ Overdue(a, shows[a], tick.now)
                    /\ \/ t.shows[a] = Fresh(a, "not_started")
                       \/ \E v : /\ IsEnded(a, shows[a], t.shows[a], v)
                                 /\ \A s \in ScoresOf[a] :
                                      v[s] = t.values[s] \/ \E b \in Shows : RestoredBy(b, s, shows, t.shows)
<1> DEFINE expired == {a \in Shows : StillOverdue(a, shows[a], tick)}
           resets == {a \in expired : TimeoutOf[a].action = "reset"}
           by(n, x) == {a \in resets : a < n /\ x \in ScoresOf[a]}
           RestoredBefore(n) == [x \in Scores |-> IF by(n, x) = {} THEN values[x] ELSE InitialScores[Max(by(n, x))][x]]
           N == NumberOfShows + 1
<1>1. NumberOfShows \in Nat /\ Shows = 1..NumberOfShows
  BY ShowAssumption DEF Shows
<1>2. /\ t.values = RestoredBefore(N)
      /\ t.shows = [a \in Shows |->
                      IF a \in resets THEN Fresh(a, "not_started")
                      ELSE IF a \in expired
                      THEN Ended(a, shows[a], RestoredBefore(a), TimeoutOf[a].action)
                      ELSE shows[a]]
  BY DEF TimedOut
<1>3. ASSUME NEW n \in 1..N, NEW x \in Scores, by(n, x) # {}
      PROVE  Max(by(n, x)) \in by(n, x)
  <2>1. by(n, x) \in SUBSET (1..NumberOfShows)
    BY <1>1
  <2> HIDE DEF by
  <2> QED
    BY <1>1, <1>3, <2>1, LastNumber
<1>4. \A b \in resets : b \in Shows /\ t.shows[b] = Fresh(b, "not_started")
  BY <1>2
<1>5. ASSUME NEW n \in 1..N, NEW x \in Scores
      PROVE  \/ by(n, x) = {} /\ RestoredBefore(n)[x] = values[x]
             \/ \E b \in Shows : RestoredBy(b, x, shows, t.shows) /\ RestoredBefore(n)[x] = InitialScores[b][x]
  <2>1. CASE by(n, x) = {}
    BY <2>1
  <2>2. CASE by(n, x) # {}
    <3>1. PICK b \in by(n, x) : b = Max(by(n, x))
      BY <1>3, <2>2
    <3>2. b \in resets /\ x \in ScoresOf[b]
      BY <3>1
    <3>3. RestoredBefore(n)[x] = InitialScores[b][x]
      BY <2>2, <3>1
    <3> HIDE DEF RestoredBefore, resets, by
    <3> QED
      BY <1>4, <3>2, <3>3 DEF RestoredBy
  <2> QED
    BY <2>1, <2>2
<1>6. N \in 1..N /\ \A a \in Shows : a \in 1..N
  BY <1>1
<1>7. IsValues(t.values)
  <2>1. \A x \in Scores : RestoredBefore(N)[x] # Skipped
    <3>1. SUFFICES ASSUME NEW x \in Scores PROVE RestoredBefore(N)[x] # Skipped
      OBVIOUS
    <3>2. \/ RestoredBefore(N)[x] = values[x]
          \/ \E b \in Shows : RestoredBy(b, x, shows, t.shows) /\ RestoredBefore(N)[x] = InitialScores[b][x]
      BY <1>5, <1>6
    <3> HIDE DEF RestoredBefore
    <3> QED
      BY <3>2, NumberAssumption DEF RestoredBy, IsValues
  <2>2. RestoredBefore(N) = [x \in Scores |-> RestoredBefore(N)[x]]
    OBVIOUS
  <2> HIDE DEF RestoredBefore
  <2> QED
    BY <1>2, <2>1, <2>2 DEF IsValues
<1>8. ASSUME NEW s \in Scores, t.values[s] # values[s]
      PROVE  \E b \in Shows : RestoredBy(b, s, shows, t.shows) /\ t.values[s] = InitialScores[b][s]
  <2>1. \/ RestoredBefore(N)[s] = values[s]
        \/ \E b \in Shows : RestoredBy(b, s, shows, t.shows) /\ RestoredBefore(N)[s] = InitialScores[b][s]
    BY <1>5, <1>6
  <2> HIDE DEF RestoredBefore
  <2> QED
    BY <1>2, <1>8, <2>1
<1>9. ASSUME NEW a \in Shows
      PROVE  /\ IsRecord(a, t.shows[a])
             /\ \/ t.shows[a] = shows[a]
                \/ /\ Overdue(a, shows[a], tick.now)
                   /\ \/ t.shows[a] = Fresh(a, "not_started")
                      \/ \E v : /\ IsEnded(a, shows[a], t.shows[a], v)
                                /\ \A s \in ScoresOf[a] :
                                     v[s] = t.values[s] \/ \E b \in Shows : RestoredBy(b, s, shows, t.shows)
  <2>1. CASE a \in resets
    BY <1>2, <2>1, FreshRecord DEF StillOverdue
  <2>2. CASE a \in expired /\ a \notin resets
    <3> DEFINE v == RestoredBefore(a)
               e == Ended(a, shows[a], v, TimeoutOf[a].action)
    <3>1. TimeoutOf[a].action \in {"lock", "settle"}
      BY <2>2, ShowAssumption
    <3>2. t.shows[a] = e
      BY <1>2, <2>2
    <3>3. IsRecord(a, e) /\ IsEnded(a, shows[a], e, v)
      <4> HIDE DEF v
      <4> QED
        BY <3>1, EndedRecord
    <3>4. ASSUME NEW s \in ScoresOf[a]
          PROVE  v[s] = t.values[s] \/ \E b \in Shows : RestoredBy(b, s, shows, t.shows)
      <4>1. s \in Scores
        BY ShowAssumption
      <4>2. CASE by(N, s) = {}
        <5>1. by(a, s) = {}
          <6>1. \A b \in resets : b < a => b < N
            BY <1>1
          <6> QED
            BY <4>2, <6>1
        <5>2. v[s] = values[s] /\ RestoredBefore(N)[s] = values[s]
          BY <4>1, <4>2, <5>1
        <5> HIDE DEF v, RestoredBefore
        <5> QED
          BY <1>2, <5>2
      <4>3. CASE by(N, s) # {}
        <5>1. PICK b \in resets : s \in ScoresOf[b]
          BY <4>3
        <5> HIDE DEF resets, v, RestoredBefore, by
        <5> QED
          BY <1>4, <5>1 DEF RestoredBy
      <4> QED
        BY <4>2, <4>3
    <3>5. Overdue(a, shows[a], tick.now)
      BY <2>2 DEF StillOverdue
    <3> HIDE DEF v, e
    <3> QED
      BY <3>2, <3>3, <3>4, <3>5
  <2>3. CASE a \notin expired
    <3>1. t.shows[a] = shows[a]
      BY <1>2, <2>3
    <3> HIDE DEF expired, resets, RestoredBefore
    <3> QED
      BY <3>1
  <2> QED
    BY <2>1, <2>2, <2>3
<1>10. t.shows = [a \in Shows |-> t.shows[a]]
  BY <1>2
<1> QED
  BY <1>7, <1>8, <1>9, <1>10

-----------------------------------------------------------------------------
(* What holds in every state: a running activity ends with its window, and what is *)
(* counted for a date is what was applied on it.                                   *)
PlayInv ==
  /\ IsValues(scores)
  /\ show = [a \in Shows |-> show[a]]
  /\ window = [a \in Shows |-> window[a]]
  /\ \A a \in Shows : /\ IsRecord(a, show[a])
                      /\ show[a].status = "active" => show[a].deadline = window[a]

Counts == [DOMAIN GiftRules -> Int]

LimitInv ==
  /\ today \in Dates
  /\ applied = [d \in Dates |-> applied[d]]
  /\ \A d \in Dates :
       /\ applied[d] \in Counts
       /\ applied[d] = IF d \in DOMAIN stats THEN stats[d] ELSE NoCounts
       /\ \A r \in DOMAIN GiftRules : applied[d][r] <= GiftRules[r].limit

LEMMA PlayStarts ==
  ASSUME PlayInit PROVE PlayInv /\ LimitInv
<1>1. IsValues(scores)
  <2>1. scores = [s \in Scores |-> 0]
    BY DEF PlayInit
  <2> QED
    BY <2>1, NumberAssumption DEF IsValues
<1>2. show = [a \in Shows |-> Fresh(a, "not_started")] /\ window = [a \in Shows |-> 0]
  BY DEF PlayInit
<1>3. PlayInv
  BY <1>1, <1>2, FreshRecord DEF PlayInv
<1>4. \A r \in DOMAIN GiftRules : NoCounts[r] = 0 /\ GiftRules[r].limit \in Nat
  BY RuleAssumption DEF NoCounts
<1>5. NoCounts \in Counts
  BY DEF NoCounts, Counts
<1>6. applied = [d \in Dates |-> NoCounts] /\ DOMAIN stats = {} /\ today \in Dates
  BY RuleAssumption DEF PlayInit
<1>7. LimitInv
  <2> HIDE DEF NoCounts, Counts
  <2> QED
    BY <1>4, <1>5, <1>6 DEF LimitInv
<1> QED
  BY <1>3, <1>7

LEMMA WinnerIsAbove ==
  ASSUME NEW a \in Shows, NEW v, SettledResult(a, v).winner # NoWinner
  PROVE  \A s \in ScoresOf[a] \ {SettledResult(a, v).winner} :
           Better(ResultMode[a], SettledResult(a, v).values[SettledResult(a, v).winner], SettledResult(a, v).values[s])
<1> DEFINE best == {s \in ScoresOf[a] : \A o \in ScoresOf[a] \ {s} : Better(ResultMode[a], v[s], v[o])}
           of == [s \in ScoresOf[a] |-> v[s]]
<1>1. SettledResult(a, v) = [winner |-> IF ResultMode[a] = "none" \/ best = {} THEN NoWinner ELSE CHOOSE s \in best : TRUE,
                             values |-> of]
  BY DEF SettledResult
<1>2. SettledResult(a, v).winner \in best /\ SettledResult(a, v).values = of
  <2> HIDE DEF best, of
  <2> QED
    BY <1>1
<1>3. PICK w \in best : w = SettledResult(a, v).winner
  BY <1>2
<1>4. w \in ScoresOf[a] /\ of[w] = v[w]
  BY <1>3
<1>5. \A s \in ScoresOf[a] \ {w} : Better(ResultMode[a], v[w], v[s]) /\ of[s] = v[s]
  BY <1>3
<1> HIDE DEF best, of
<1> QED
  BY <1>2, <1>3, <1>4, <1>5

\* A result is told as the property asks, whatever the moment of the end.
LEMMA ResultIsTold ==
  ASSUME NEW a \in Shows, NEW v, show'[a].result = SettledResult(a, v),
         \A s \in ScoresOf[a] : \/ v[s] \in {scores[s], scores'[s]}
                                \/ \E b \in Shows : StartsOver(b) /\ s \in ScoresOf[b]
  PROVE  TellsTheResult(a)
<1>1. \A s \in ScoresOf[a] : SettledResult(a, v).values[s] = v[s]
  BY DEF SettledResult
<1>2. SettledResult(a, v).winner # NoWinner =>
        \A s \in ScoresOf[a] \ {SettledResult(a, v).winner} :
          Better(ResultMode[a], SettledResult(a, v).values[SettledResult(a, v).winner], SettledResult(a, v).values[s])
  BY WinnerIsAbove
<1> QED
  BY <1>1, <1>2 DEF TellsTheResult

\* What the property asks of a step.
Keeps(a) == KeepsWhatItHas(a) /\ GatesItsScores(a) /\ TellsTheResult(a) /\ KeepsItsWindow(a)

\* An activity a step leaves alone.
LEMMA LeftAlone ==
  ASSUME NEW a \in Shows, IsRecord(a, show[a]), show'[a] = show[a]
  PROVE  KeepsWhatItHas(a) /\ TellsTheResult(a) /\ KeepsItsWindow(a)
<1>1. KeepsWhatItHas(a)
  BY DEF KeepsWhatItHas
<1>2. TellsTheResult(a)
  BY DEF TellsTheResult
<1>3. KeepsItsWindow(a)
  BY DEF KeepsItsWindow
<1> QED
  BY <1>1, <1>2, <1>3

\* Milestones keep it, when no timer is at work.
LEMMA EvaluatedKeeps ==
  ASSUME NEW a \in Shows, NEW r, NEW v, IsRecord(a, show[a]),
         r.status = show[a].status, r.triggered = show[a].triggered,
         r.status # "active" => r = show[a],
         IsEvaluated(a, r, show'[a], v),
         \A s \in ScoresOf[a] : \/ v[s] \in {scores[s], scores'[s]}
                                \/ \E b \in Shows : StartsOver(b) /\ s \in ScoresOf[b]
  PROVE  KeepsWhatItHas(a) /\ TellsTheResult(a) /\ KeepsItsWindow(a)
<1>1. CASE r.status # "active"
  <2>1. show'[a] = show[a]
    BY <1>1 DEF IsEvaluated
  <2> QED
    BY <2>1, LeftAlone
<1>2. CASE r.status = "active"
  <2>1. KeepsWhatItHas(a)
    BY <1>2 DEF KeepsWhatItHas, IsEvaluated
  <2>2. TellsTheResult(a)
    <3>1. CASE show'[a].status # "settled"
      BY <3>1 DEF TellsTheResult
    <3>2. CASE show'[a].status = "settled"
      <4>1. show'[a].result = SettledResult(a, v)
        BY <1>2, <3>2 DEF IsEvaluated
      <4> QED
        BY <4>1, ResultIsTold
    <3> QED
      BY <3>1, <3>2
  <2>3. KeepsItsWindow(a)
    <3>1. show'[a].status # "active" => show'[a].triggered # show[a].triggered /\ show'[a].status \in {"locked", "settled"}
      BY <1>2 DEF IsEvaluated
    <3>2. Fresh(a, "not_started").status = "not_started"
      BY DEF Fresh
    <3> QED
      BY <3>1, <3>2 DEF KeepsItsWindow
  <2> QED
    BY <2>1, <2>2, <2>3
<1> QED
  BY <1>1, <1>2

LEMMA GiftKeeps ==
  ASSUME PlayInv, LimitInv, NEW number \in 1..2, NEW at \in 1..clock, Gift(number, at)
  PROVE  PlayInv' /\ LimitInv' /\ \A a \in Shows : Keeps(a)
<1> DEFINE counts == applied[today]
           run == GiftApplied(scores, RuleLimits, number)
           opened == AfterGift(show, run.changed, at)
<1>1. RuleLimits = counts /\ counts \in Counts
  BY DEF RuleLimits, CountedDate, OpenDates, LimitInv
<1>2. GoodRun(run)
  <2> DEFINE x == [values |-> scores, counts |-> counts, changed |-> {}]
  <2>1. x.values = scores /\ x.counts = counts /\ x.changed = {}
    OBVIOUS
  <2>2. x = [values |-> x.values, counts |-> x.counts, changed |-> x.changed]
    OBVIOUS
  <2>3. ByRules(scores)
    BY DEF ByRules, PlayInv
  <2>4. \A r \in DOMAIN GiftRules : counts[r] <= GiftRules[r].limit
    BY DEF LimitInv
  <2>5. GoodRun(x)
    <3> HIDE DEF x, counts
    <3> QED
      BY <1>1, <2>1, <2>2, <2>3, <2>4 DEF GoodRun, Counts
  <2>6. number \in Nat
    OBVIOUS
  <2> QED
    BY <1>1, <2>5, <2>6, AllOccurrences
<1> HIDE DEF run, counts
<1>3. /\ scores' = run.values
      /\ show' = IF run.changed = {} THEN show ELSE AfterMilestones(opened, run.values)
      /\ stats' = WithCounts(run.counts)
      /\ applied' = [applied EXCEPT ![today] = [r \in DOMAIN GiftRules |-> @[r] + run.counts[r] - counts[r]]]
      /\ window' = [a \in Shows |-> IF Watches(a, show[a], run.changed)
                                    THEN at + TimeoutOf[a].seconds ELSE window[a]]
      /\ due' = due /\ today' = today
  BY <1>1 DEF Gift, run
<1>4. IsValues(scores') /\ ByRules(scores')
  BY <1>2, <1>3 DEF GoodRun, ByRules
<1>5. ASSUME NEW a \in Shows
      PROVE  /\ IsRecord(a, opened[a]) /\ opened[a].status = show[a].status
             /\ opened[a].triggered = show[a].triggered
             /\ opened[a].status # "active" => opened[a] = show[a]
             /\ opened[a].status = "active" => opened[a].deadline = window'[a]
             /\ ~Watches(a, show[a], run.changed) => opened[a] = show[a]
  <2>1. opened[a] = IF Watches(a, show[a], run.changed)
                  THEN [show[a] EXCEPT !.deadline = at + TimeoutOf[a].seconds] ELSE show[a]
    BY DEF AfterGift
  <2>2. window'[a] = IF Watches(a, show[a], run.changed) THEN at + TimeoutOf[a].seconds ELSE window[a]
    BY <1>3
  <2>3. IsRecord(a, show[a]) /\ (show[a].status = "active" => show[a].deadline = window[a])
    BY DEF PlayInv
  <2>4. ASSUME NEW x
        PROVE  [show[a] EXCEPT !.deadline = x] =
                 [status |-> show[a].status, result |-> show[a].result, deadline |-> x, triggered |-> show[a].triggered]
    BY <2>3 DEF IsRecord
  <2>5. CASE Watches(a, show[a], run.changed)
    <3> DEFINE x == at + TimeoutOf[a].seconds
               k == [status |-> show[a].status, result |-> show[a].result, deadline |-> x, triggered |-> show[a].triggered]
    <3>1. opened[a] = k /\ window'[a] = x /\ show[a].status = "active"
      BY <2>1, <2>2, <2>4, <2>5 DEF Watches
    <3> HIDE DEF x
    <3>2. IsRecord(a, k) /\ k.status = show[a].status /\ k.triggered = show[a].triggered /\ k.deadline = x
      BY <2>3 DEF IsRecord
    <3> HIDE DEF k, opened
    <3> QED
      BY <2>5, <3>1, <3>2
  <2>6. CASE ~Watches(a, show[a], run.changed)
    <3>1. opened[a] = show[a] /\ window'[a] = window[a]
      BY <2>1, <2>2, <2>6
    <3> HIDE DEF opened
    <3> QED
      BY <2>3, <2>6, <3>1
  <2> QED
    BY <2>5, <2>6
<1>6. ASSUME NEW a \in Shows, run.changed = {}
      PROVE  opened[a] = show[a]
  BY <1>5, <1>6 DEF Watches
<1>7. show' = [a \in Shows |-> show'[a]]
  BY <1>3 DEF AfterMilestones, PlayInv
<1> HIDE DEF opened
<1>8. ASSUME NEW a \in Shows, run.changed # {}
      PROVE  IsEvaluated(a, opened[a], show'[a], scores')
  <2>1. show'[a] = Evaluated(a, opened[a], scores')
    BY <1>3, <1>8 DEF AfterMilestones
  <2>2. \A s \in Scores : scores'[s] # Skipped
    BY <1>4 DEF IsValues
  <2> QED
    BY <1>5, <2>1, <2>2, MilestonesTell
<1>9. ASSUME NEW a \in Shows
      PROVE  /\ IsRecord(a, show'[a])
             /\ show'[a].status = "active" => show'[a].deadline = window'[a]
             /\ KeepsWhatItHas(a) /\ TellsTheResult(a) /\ KeepsItsWindow(a)
  <2>0. IsRecord(a, show[a])
    BY DEF PlayInv
  <2>1. CASE run.changed = {}
    <3>1. show'[a] = show[a] /\ opened[a] = show[a]
      BY <1>3, <1>6, <2>1
    <3> QED
      BY <1>5, <2>0, <3>1, LeftAlone
  <2>2. CASE run.changed # {}
    <3>1. IsEvaluated(a, opened[a], show'[a], scores')
      BY <1>8, <2>2
    <3>2. IsRecord(a, show'[a]) /\ (show'[a].status = "active" => show'[a].deadline = window'[a])
      BY <1>5, <3>1 DEF IsEvaluated
    <3> QED
      BY <1>5, <2>0, <3>1, <3>2, EvaluatedKeeps
  <2> QED
    BY <2>1, <2>2
<1>10. ASSUME NEW a \in Shows
       PROVE  GatesItsScores(a)
  <2>1. ScoresOf[a] \subseteq Scores
    BY ShowAssumption
  <2> QED
    BY <1>4, <2>1 DEF GatesItsScores, ByRules, AllowsRules
<1>11. PlayInv'
  <2>1. window' = [a \in Shows |-> window'[a]]
    BY <1>3
  <2> QED
    BY <1>4, <1>7, <1>9, <2>1 DEF PlayInv
<1>12. LimitInv'
  <2>1. run.counts \in Counts /\ \A r \in DOMAIN GiftRules : run.counts[r] <= GiftRules[r].limit
    BY <1>2 DEF GoodRun, Counts
  <2>2. today \in Dates /\ applied = [d \in Dates |-> applied[d]] /\ applied[today] = counts
    BY DEF LimitInv, counts
  <2>3. applied' = [applied EXCEPT ![today] = run.counts]
    <3>1. [r \in DOMAIN GiftRules |-> counts[r] + run.counts[r] - counts[r]] = run.counts
      <4>1. PICK m, n \in Counts : m = counts /\ n = run.counts
        BY <1>1, <2>1
      <4>2. \A r \in DOMAIN GiftRules : m[r] + n[r] - m[r] = n[r]
        BY DEF Counts
      <4>3. [r \in DOMAIN GiftRules |-> m[r] + n[r] - m[r]] = n
        BY <4>2 DEF Counts
      <4> QED
        BY <4>1, <4>3
    <3> QED
      BY <1>3, <2>2, <3>1
  <2>4. ASSUME NEW d \in Dates
        PROVE  applied'[d] = IF d = today THEN run.counts ELSE applied[d]
    BY <2>2, <2>3
  <2>5. applied' = [d \in Dates |-> applied'[d]]
    <3>1. applied' = [d \in Dates |-> IF d = today THEN run.counts ELSE applied[d]]
      BY <2>2, <2>3
    <3> QED
      BY <3>1
  <2>6. stats' = [d \in DOMAIN stats \cup {today} |-> IF d = today THEN run.counts ELSE stats[d]]
    BY <1>3 DEF WithCounts, OpenDates
  <2>7. ASSUME NEW d \in Dates
        PROVE  /\ applied'[d] \in Counts
               /\ applied'[d] = IF d \in DOMAIN stats' THEN stats'[d] ELSE NoCounts
               /\ \A r \in DOMAIN GiftRules : applied'[d][r] <= GiftRules[r].limit
    <3>1. applied[d] \in Counts /\ applied[d] = IF d \in DOMAIN stats THEN stats[d] ELSE NoCounts
      BY DEF LimitInv
    <3>2. \A r \in DOMAIN GiftRules : applied[d][r] <= GiftRules[r].limit
      BY DEF LimitInv
    <3>3. CASE d = today
      BY <2>1, <2>4, <2>6, <3>3
    <3>4. CASE d # today
      BY <2>4, <2>6, <3>1, <3>2, <3>4
    <3> QED
      BY <3>3, <3>4
  <2> QED
    BY <1>3, <2>2, <2>5, <2>7 DEF LimitInv
<1> QED
  BY <1>9, <1>10, <1>11, <1>12 DEF Keeps

\* A transition by hand, on an activity it is allowed on.
LEMMA TransitionKeeps ==
  ASSUME PlayInv, LimitInv, NEW a \in Shows, NEW action \in {"start", "lock", "settle", "reset"},
         Transition(a, action)
  PROVE  PlayInv' /\ LimitInv' /\ \A b \in Shows : Keeps(b)
<1> DEFINE after == Transitioned(a, action, scores)
<1>1. /\ scores' = after[1]
      /\ show' = [show EXCEPT ![a] = after[2]]
      /\ window' = IF action \in {"start", "reset"} THEN [window EXCEPT ![a] = 0] ELSE window
      /\ stats' = stats /\ today' = today /\ due' = due /\ applied' = applied
  BY DEF Transition
<1>2. LimitInv'
  BY <1>1 DEF LimitInv
<1>3. /\ show = [b \in Shows |-> show[b]] /\ window = [b \in Shows |-> window[b]]
      /\ \A b \in Shows : IsRecord(b, show[b]) /\ (show[b].status = "active" => show[b].deadline = window[b])
      /\ IsValues(scores) /\ ScoresOf[a] \subseteq Scores
  BY ShowAssumption DEF PlayInv
<1> HIDE DEF after
<1>4. show'[a] = after[2] /\ \A b \in Shows \ {a} : show'[b] = show[b]
  BY <1>1, <1>3
<1>5. show' = [b \in Shows |-> show'[b]]
  BY <1>1, <1>3
<1>6. window' = [b \in Shows |-> window'[b]] /\ \A b \in Shows \ {a} : window'[b] = window[b]
  BY <1>1, <1>3
<1>7. ASSUME NEW b \in Shows \ {a}
      PROVE  /\ IsRecord(b, show'[b])
             /\ show'[b].status = "active" => show'[b].deadline = window'[b]
             /\ KeepsWhatItHas(b) /\ TellsTheResult(b) /\ KeepsItsWindow(b)
  BY <1>3, <1>4, <1>6, LeftAlone
<1>8. \A b \in Shows : KeepsItsWindow(b)
  BY <1>1 DEF KeepsItsWindow
<1>9. CASE action \in {"start", "reset"}
  <2>1. PICK status \in {"not_started", "active"} : after = <<Restored(a, scores), Fresh(a, status)>>
    BY <1>9 DEF after, Transitioned
  <2>2. scores' = [s \in Scores |-> IF s \in ScoresOf[a] THEN InitialScores[a][s] ELSE scores[s]]
    BY <1>1, <2>1 DEF Restored
  <2>3. show'[a] = Fresh(a, status) /\ window'[a] = 0
    BY <1>1, <1>3, <1>4, <1>9, <2>1
  <2>4. StartsOver(a) /\ show'[a].status # "settled"
    BY <2>3, FreshRecord DEF StartsOver
  <2>5. IsValues(scores')
    <3>1. \A s \in Scores : scores'[s] # Skipped
      BY <1>3, <2>2, NumberAssumption DEF IsValues
    <3>2. scores' = [s \in Scores |-> scores'[s]]
      BY <2>2
    <3> QED
      BY <3>1, <3>2 DEF IsValues
  <2>6. IsRecord(a, show'[a]) /\ show'[a].deadline = window'[a]
    BY <2>3, FreshRecord
  <2>7. KeepsWhatItHas(a) /\ TellsTheResult(a)
    BY <2>4 DEF KeepsWhatItHas, TellsTheResult
  <2>8. ASSUME NEW b \in Shows PROVE GatesItsScores(b)
    <3>1. ScoresOf[b] \subseteq Scores
      BY ShowAssumption
    <3> QED
      BY <2>2, <2>4, <3>1 DEF GatesItsScores
  <2>9. PlayInv'
    BY <1>5, <1>6, <1>7, <2>5, <2>6 DEF PlayInv
  <2> QED
    BY <1>2, <1>7, <1>8, <2>7, <2>8, <2>9 DEF Keeps
<1>10. CASE action \in {"lock", "settle"}
  <2> DEFINE e == Ended(a, show[a], scores, action)
  <2>1. after = <<scores, e>>
    BY <1>10 DEF after, Transitioned
  <2>2. IsRecord(a, e) /\ IsEnded(a, show[a], e, scores)
    BY <1>3, <1>10, EndedRecord
  <2>3. \/ action = "lock" /\ show[a].status = "active" /\ e.status = "locked"
        \/ action = "settle" /\ show[a].status \in {"active", "locked"} /\ e.status = "settled"
    <3>1. PICK r : r = show[a] /\ r = [status |-> r.status, result |-> r.result,
                                      deadline |-> r.deadline, triggered |-> r.triggered]
      BY <1>3 DEF IsRecord
    <3>2. action = "lock" => e.status = "locked"
      BY <3>1 DEF Ended
    <3>3. action = "settle" => e.status = "settled"
      BY <3>1 DEF Ended
    <3>4. (action = "lock" => show[a].status = "active") /\ (action = "settle" => show[a].status \in {"active", "locked"})
      BY DEF Transition, Allowed
    <3> HIDE DEF e
    <3> QED
      BY <1>10, <3>2, <3>3, <3>4
  <2> HIDE DEF e
  <2>4. scores' = scores /\ show'[a] = e /\ window' = window
    BY <1>1, <1>4, <1>10, <2>1
  <2>5. KeepsWhatItHas(a)
    BY <2>2, <2>3, <2>4 DEF KeepsWhatItHas, IsEnded
  <2>6. TellsTheResult(a)
    <3>1. CASE e.status = "settled"
      <4>1. show'[a].result = SettledResult(a, scores)
        BY <2>2, <2>4, <3>1 DEF IsEnded
      <4> QED
        BY <4>1, ResultIsTold
    <3>2. CASE e.status # "settled"
      BY <2>4, <3>2 DEF TellsTheResult
    <3> QED
      BY <3>1, <3>2
  <2>7. \A b \in Shows : GatesItsScores(b)
    BY <2>4 DEF GatesItsScores
  <2>8. PlayInv'
    BY <1>3, <1>5, <1>6, <1>7, <2>2, <2>3, <2>4 DEF PlayInv
  <2> QED
    BY <1>2, <1>7, <1>8, <2>5, <2>6, <2>7, <2>8 DEF Keeps
<1> QED
  BY <1>9, <1>10

\* A tick: timers, then milestones, then the activities without gifts.
LEMMA TickKeeps ==
  ASSUME PlayInv, LimitInv, Tick
  PROVE  PlayInv' /\ LimitInv' /\ \A a \in Shows : Keeps(a)
<1> DEFINE values == TimersApplied(scores, due.timers)
           mid == IF TimersRan THEN AfterMilestones(show, values) ELSE show
           t == TimedOut(mid, values, due)
<1>1. scores' = t.values /\ show' = t.shows /\ window' = window /\ stats' = stats /\ today' = today /\ applied' = applied
  BY DEF Tick
<1>2. LimitInv'
  BY <1>1 DEF LimitInv
<1>3. ByRules(values)
  <2>1. ByRules(scores)
    BY DEF ByRules, PlayInv
  <2> QED
    BY <2>1, AllTimers
<1> HIDE DEF values
<1>4. IsValues(values) /\ \A s \in Scores : values[s] # Skipped
  BY <1>3 DEF ByRules, IsValues
<1>5. ASSUME NEW a \in Shows
      PROVE  IsRecord(a, show[a]) /\ (show[a].status = "active" => show[a].deadline = window[a])
  BY DEF PlayInv
<1>6. ASSUME NEW a \in Shows
      PROVE  /\ IsRecord(a, mid[a])
             /\ mid[a] = show[a] \/ IsEvaluated(a, show[a], mid[a], values)
  <2>1. CASE TimersRan
    <3>1. mid[a] = Evaluated(a, show[a], values)
      BY <2>1 DEF AfterMilestones
    <3>2. IsEvaluated(a, show[a], mid[a], values)
      <4> HIDE DEF mid
      <4> QED
        BY <1>4, <1>5, <3>1, MilestonesTell
    <3> HIDE DEF mid
    <3> QED
      BY <3>2 DEF IsEvaluated
  <2>2. CASE ~TimersRan
    BY <1>5, <2>2
  <2> QED
    BY <2>1, <2>2
<1> HIDE DEF mid
<1>7. PICK done : done = t
  OBVIOUS
<1> HIDE DEF t
<1>8. /\ IsValues(done.values)
      /\ done.shows = [a \in Shows |-> done.shows[a]]
      /\ \A s \in Scores : done.values[s] # values[s] =>
           \E b \in Shows : RestoredBy(b, s, mid, done.shows) /\ done.values[s] = InitialScores[b][s]
      /\ \A a \in Shows :
           /\ IsRecord(a, done.shows[a])
           /\ \/ done.shows[a] = mid[a]
              \/ /\ Overdue(a, mid[a], due.now)
                 /\ \/ done.shows[a] = Fresh(a, "not_started")
                    \/ \E v : /\ IsEnded(a, mid[a], done.shows[a], v)
                              /\ \A s \in ScoresOf[a] :
                                   v[s] = done.values[s] \/ \E b \in Shows : RestoredBy(b, s, mid, done.shows)
  <2>1. \A a \in Shows : IsRecord(a, mid[a])
    BY <1>6
  <2>2. done = TimedOut(mid, values, due)
    BY <1>7 DEF t
  <2> QED
    BY <1>4, <2>1, <2>2, Timeouts
<1>9. scores' = done.values /\ show' = done.shows
  BY <1>1, <1>7
<1>10. ASSUME NEW b \in Shows, NEW s, RestoredBy(b, s, mid, done.shows)
       PROVE  StartsOver(b) /\ s \in ScoresOf[b]
  BY <1>9, <1>10, FreshRecord DEF RestoredBy, StartsOver
<1>11. ASSUME NEW a \in Shows
       PROVE  GatesItsScores(a)
  <2>1. ScoresOf[a] \subseteq Scores
    BY ShowAssumption
  <2>2. SUFFICES ASSUME a \in Gating, show[a].status # "active", NEW s \in ScoresOf[a], scores'[s] # scores[s]
                 PROVE  \E b \in Shows : StartsOver(b) /\ s \in ScoresOf[b] /\ scores'[s] = InitialScores[b][s]
    BY DEF GatesItsScores
  <2>3. s \in Scores /\ values[s] = scores[s]
    BY <1>3, <2>1, <2>2 DEF ByRules, AllowsRules
  <2>4. PICK b \in Shows : RestoredBy(b, s, mid, done.shows) /\ done.values[s] = InitialScores[b][s]
    BY <1>8, <1>9, <2>2, <2>3
  <2> QED
    BY <1>9, <1>10, <2>4
<1>12. ASSUME NEW a \in Shows
       PROVE  /\ IsRecord(a, show'[a])
              /\ show'[a].status = "active" => show'[a].deadline = window'[a]
              /\ KeepsWhatItHas(a) /\ TellsTheResult(a) /\ KeepsItsWindow(a)
  <2>0. IsRecord(a, show[a]) /\ IsRecord(a, mid[a]) /\ IsRecord(a, show'[a]) /\ ScoresOf[a] \subseteq Scores
    BY <1>5, <1>6, <1>8, <1>9, ShowAssumption
  <2>1. CASE done.shows[a] = mid[a] /\ mid[a] = show[a]
    BY <1>1, <1>5, <1>9, <2>0, <2>1, LeftAlone
  <2>2. CASE done.shows[a] = mid[a] /\ IsEvaluated(a, show[a], mid[a], values)
    <3>1. IsEvaluated(a, show[a], show'[a], values)
      BY <1>9, <2>2
    <3>2. \A s \in ScoresOf[a] : \/ values[s] \in {scores[s], scores'[s]}
                                 \/ \E b \in Shows : StartsOver(b) /\ s \in ScoresOf[b]
      BY <1>8, <1>9, <1>10, <2>0
    <3>3. show'[a].status = "active" => show'[a].deadline = window'[a]
      BY <1>1, <1>5, <3>1 DEF IsEvaluated
    <3> QED
      BY <2>0, <3>1, <3>2, <3>3, EvaluatedKeeps
  <2>3. CASE Overdue(a, mid[a], due.now)
    <3>1. /\ show[a].status = "active" /\ mid[a].status = "active"
          /\ \A m \in DOMAIN show[a].triggered : show[a].triggered[m] \in {Skipped, mid[a].triggered[m]}
          /\ mid[a].deadline = window[a] /\ window[a] =< due.now
      <4>1. mid[a].status = "active" /\ mid[a].deadline =< due.now
        BY <2>3 DEF Overdue
      <4>2. CASE mid[a] = show[a]
        BY <1>5, <4>1, <4>2
      <4>3. CASE IsEvaluated(a, show[a], mid[a], values)
        <5>1. show[a].status = "active"
          BY <4>1, <4>3 DEF IsEvaluated
        <5>2. mid[a].deadline = show[a].deadline
          BY <4>1, <4>3, <5>1 DEF IsEvaluated
        <5> QED
          BY <1>5, <4>1, <4>3, <5>1, <5>2 DEF IsEvaluated
      <4> QED
        BY <1>6, <4>2, <4>3
    <3>2. KeepsItsWindow(a)
      BY <3>1 DEF KeepsItsWindow
    <3>3. CASE done.shows[a] = Fresh(a, "not_started")
      <4>1. show'[a].status = "not_started"
        BY <1>9, <3>3, FreshRecord
      <4>2. KeepsWhatItHas(a)
        BY <4>1 DEF KeepsWhatItHas, StartsOver
      <4>3. TellsTheResult(a)
        BY <4>1 DEF TellsTheResult
      <4> QED
        BY <2>0, <3>2, <4>1, <4>2, <4>3
    <3>4. ASSUME NEW v, IsEnded(a, mid[a], show'[a], v),
                 \A s \in ScoresOf[a] : v[s] = scores'[s] \/ \E b \in Shows : RestoredBy(b, s, mid, done.shows)
          PROVE  KeepsWhatItHas(a) /\ TellsTheResult(a) /\ show'[a].status # "active"
      <4>1. show'[a].triggered = mid[a].triggered /\ show'[a].status \in {"locked", "settled"}
        BY <3>4 DEF IsEnded
      <4>2. KeepsWhatItHas(a)
        BY <3>1, <4>1 DEF KeepsWhatItHas
      <4>3. TellsTheResult(a)
        <5>1. CASE show'[a].status = "settled"
          <6>1. show'[a].result = SettledResult(a, v)
            BY <3>4, <5>1 DEF IsEnded
          <6>2. \A s \in ScoresOf[a] : \/ v[s] \in {scores[s], scores'[s]}
                                       \/ \E b \in Shows : StartsOver(b) /\ s \in ScoresOf[b]
            BY <1>10, <3>4
          <6> QED
            BY <6>1, <6>2, ResultIsTold
        <5>2. CASE show'[a].status # "settled"
          BY <5>2 DEF TellsTheResult
        <5> QED
          BY <5>1, <5>2
      <4> QED
        BY <4>1, <4>2, <4>3
    <3>5. CASE done.shows[a] = mid[a]
      <4>1. show'[a].status = "active" /\ show'[a].deadline = window'[a] /\ show'[a].triggered = mid[a].triggered
        BY <1>1, <1>9, <3>1, <3>5
      <4>2. KeepsWhatItHas(a)
        BY <3>1, <4>1 DEF KeepsWhatItHas
      <4>3. TellsTheResult(a)
        BY <4>1 DEF TellsTheResult
      <4> QED
        BY <2>0, <3>2, <4>1, <4>2, <4>3
    <3> QED
      BY <1>8, <1>9, <2>0, <3>2, <3>3, <3>4, <3>5
  <2> QED
    BY <1>6, <1>8, <2>1, <2>2, <2>3
<1>13. PlayInv'
  <2>1. show' = [a \in Shows |-> show'[a]] /\ IsValues(scores')
    BY <1>8, <1>9
  <2>2. window' = [a \in Shows |-> window'[a]]
    BY <1>1 DEF PlayInv
  <2> QED
    BY <1>12, <2>1, <2>2 DEF PlayInv
<1> QED
  BY <1>2, <1>11, <1>12, <1>13 DEF Keeps

LEMMA PlayStep ==
  ASSUME PlayInv, LimitInv, [PlayNext]_playVars
  PROVE  PlayInv' /\ LimitInv' /\ [\A a \in Shows : Keeps(a)]_playVars
<1>1. ASSUME UNCHANGED <<scores, show, stats, applied, window>>, today' \in Dates
      PROVE  PlayInv' /\ LimitInv'
  <2>1. PlayInv'
    BY <1>1 DEF PlayInv
  <2>2. LimitInv'
    BY <1>1 DEF LimitInv
  <2> QED
    BY <2>1, <2>2
<1>2. ASSUME UNCHANGED <<scores, show>>
      PROVE  \A a \in Shows : Keeps(a)
  <2>1. SUFFICES ASSUME NEW a \in Shows PROVE Keeps(a)
    OBVIOUS
  <2>2. IsRecord(a, show[a])
    BY DEF PlayInv
  <2>3. GatesItsScores(a)
    BY <1>2 DEF GatesItsScores
  <2> QED
    BY <1>2, <2>2, <2>3, LeftAlone DEF Keeps
<1>3. CASE \E number \in 1..2, at \in 1..clock : Gift(number, at)
  BY <1>3, GiftKeeps
<1>4. CASE \E a \in Shows, action \in {"start", "lock", "settle", "reset"} : Transition(a, action)
  BY <1>4, TransitionKeeps
<1>5. CASE Tick
  BY <1>5, TickKeeps
<1>6. CASE ReadDue \/ Pass \/ ChangeDate
  <2>1. UNCHANGED <<scores, show, stats, applied, window>> /\ today' \in Dates
    BY <1>6 DEF ReadDue, Pass, ChangeDate, LimitInv
  <2> QED
    BY <1>1, <1>2, <2>1
<1>7. CASE UNCHANGED playVars
  <2>1. UNCHANGED <<scores, show, stats, applied, window>> /\ today' \in Dates
    BY <1>7 DEF playVars, LimitInv
  <2> QED
    BY <1>1, <1>2, <2>1
<1> QED
  BY <1>3, <1>4, <1>5, <1>6, <1>7 DEF PlayNext

(***************************************************************************)
(* Whatever the activities, rules, formulas and timers: no rule is applied *)
(* more often on a date than its limit, an activity that has ended keeps   *)
(* what it has and the attributes it gates, its result is that of its end, *)
(* and no time without gifts ends it before its window closes.             *)
(***************************************************************************)
THEOREM PlayAlwaysKeepsItsRules == PlaySpec => PlayKeepsItsRules
<1>1. PlayInit => PlayInv /\ LimitInv
  BY PlayStarts
<1>2. PlayInv /\ LimitInv /\ [PlayNext]_playVars =>
        PlayInv' /\ LimitInv' /\ [\A a \in Shows : Keeps(a)]_playVars
  BY PlayStep
<1>3. LimitInv => DailyLimitsHold
  BY DEF LimitInv, DailyLimitsHold
<1>4. PlaySpec => []DailyLimitsHold /\ [][\A a \in Shows : Keeps(a)]_playVars
  BY <1>1, <1>2, <1>3, PTL DEF PlaySpec
<1>5. [\A a \in Shows : Keeps(a)]_playVars =>
        [\A a \in Shows : KeepsWhatItHas(a) /\ GatesItsScores(a) /\ TellsTheResult(a) /\ KeepsItsWindow(a)]_playVars
  BY DEF Keeps
<1> QED
  BY <1>4, <1>5, PTL DEF PlayKeepsItsRules, ActivitiesEndOnce
=============================================================================
