---------------------------- MODULE ProgramsProofs ----------------------------
(***************************************************************************)
(* The console's and the local program's components: the invitations, their *)
(* quota and their pages, the mirror of the releases, and of the local     *)
(* program the exports of its animations, the edits of its attributes, its *)
(* updates and the check of its formulas.                                  *)
(***************************************************************************)
EXTENDS ReleaseMirror, Invitations, GiftClips, AttributeEdits, Updater, Formulas,
        FiniteSetTheorems, SequenceTheorems, WellFoundedInduction, TLAPS

-----------------------------------------------------------------------------
(***************************************************************************)
(* The quota of an account (Invitations).  Whoever works on the account    *)
(* has its row, and what it has read of the quota still is the quota.      *)
(***************************************************************************)
QuotaEvents == [delta : Int, after : Int, generated : BOOLEAN]
InvitationRows == [by : {"account", "administrator"}, created : Stamps, rank : 1..4, visible : BOOLEAN]

Issued == {i \in DOMAIN rows : rows[i].by = "account"}
Generated == {n \in DOMAIN quotaLog : quotaLog[n].generated}

QuotaTypes ==
  /\ quota \in Int /\ quotaLog \in Seq(QuotaEvents) /\ rows \in Seq(InvitationRows)
  /\ call \in [Callers -> [at : {"idle", "generates", "adjusts"}, read : Int, to : Int]]

RowIsLocked ==
  /\ \A k, l \in Callers : call[k].at # "idle" /\ call[l].at # "idle" => k = l
  /\ \A k \in Callers : call[k].at # "idle" => call[k].read = Remaining /\ call[k].to \in Nat

QuotaInv == QuotaTypes /\ RowIsLocked /\ QuotasAreAccounted

LEMMA OneMore ==
  ASSUME NEW n \in Nat, NEW S \in SUBSET (1..n)
  PROVE  IsFiniteSet(S) /\ Cardinality(S) \in Nat /\ Cardinality(S \cup {n + 1}) = Cardinality(S) + 1
<1>1. IsFiniteSet(1..n) /\ n + 1 \notin S
  BY FS_Interval
<1>2. IsFiniteSet(S)
  BY <1>1, FS_Subset
<1> QED
  BY <1>1, <1>2, FS_AddElement, FS_CardinalityType

\* What does not touch the quota: the rows may get others of the administrator, or change.
LEMMA QuotaStays ==
  ASSUME QuotaInv, UNCHANGED <<quota, quotaLog>>, rows' \in Seq(InvitationRows), Issued' = Issued,
         call' \in [Callers -> [at : {"idle", "generates", "adjusts"}, read : Int, to : Int]], RowIsLocked'
  PROVE  QuotaInv'
<1>1. Remaining' = Remaining /\ Generated' = Generated
  BY DEF Remaining, Generated
<1>2. QuotasAreAccounted'
  BY <1>1 DEF QuotaInv, QuotasAreAccounted, Issued, Generated, Remaining
<1> QED
  BY <1>2 DEF QuotaInv, QuotaTypes

LEMMA CallMoves ==
  ASSUME QuotaTypes, NEW k \in Callers, NEW w \in [at : {"idle", "generates", "adjusts"}, read : Int, to : Int],
         call' = [call EXCEPT ![k] = w]
  PROVE  /\ call' \in [Callers -> [at : {"idle", "generates", "adjusts"}, read : Int, to : Int]]
         /\ call'[k] = w /\ \A l \in Callers \ {k} : call'[l] = call[l]
BY DEF QuotaTypes

LEMMA CallLocks ==
  ASSUME QuotaInv, NEW k \in Callers, LocksForGenerate(k) \/ LocksForAdjust(k)
  PROVE  QuotaInv'
<1>1. Remaining \in Int
  BY DEF QuotaInv, QuotaTypes, Remaining
<1>2. PICK w \in [at : {"idle", "generates", "adjusts"}, read : Int, to : Int] :
        call' = [call EXCEPT ![k] = w] /\ w.read = Remaining /\ w.to \in Nat
  <2>1. CASE LocksForGenerate(k)
    <3> DEFINE w == [at |-> "generates", read |-> Remaining, to |-> Remaining - 1]
    <3>1. w \in [at : {"idle", "generates", "adjusts"}, read : Int, to : Int] /\ w.read = Remaining /\ w.to \in Nat
      BY <1>1, <2>1 DEF LocksForGenerate
    <3>2. call' = [call EXCEPT ![k] = w]
      BY <2>1 DEF LocksForGenerate
    <3> HIDE DEF w
    <3> QED
      BY <3>1, <3>2
  <2>2. CASE LocksForAdjust(k)
    <3>1. PICK q \in Quotas \ {Remaining} : call' = [call EXCEPT ![k] = [at |-> "adjusts", read |-> Remaining, to |-> q]]
      BY <2>2 DEF LocksForAdjust
    <3> DEFINE w == [at |-> "adjusts", read |-> Remaining, to |-> q]
    <3>2. w \in [at : {"idle", "generates", "adjusts"}, read : Int, to : Int] /\ w.read = Remaining /\ w.to \in Nat
      BY <1>1, <3>1, InvitationsAssumption
    <3>3. call' = [call EXCEPT ![k] = w]
      BY <3>1
    <3> HIDE DEF w
    <3> QED
      BY <3>2, <3>3
  <2> QED
    BY <2>1, <2>2
<1>3. /\ call' \in [Callers -> [at : {"idle", "generates", "adjusts"}, read : Int, to : Int]]
      /\ call'[k] = w /\ \A l \in Callers \ {k} : call'[l] = call[l]
  BY <1>2, CallMoves DEF QuotaInv
<1>4. AccountIsFree /\ UNCHANGED <<quota, quotaLog, rows>>
  BY DEF LocksForGenerate, LocksForAdjust
<1>5. RowIsLocked'
  BY <1>2, <1>3, <1>4 DEF RowIsLocked, AccountIsFree, Remaining
<1> QED
  BY <1>3, <1>4, <1>5, QuotaStays DEF QuotaInv, QuotaTypes, Issued

LEMMA CallRollsBack ==
  ASSUME QuotaInv, NEW k \in Callers, Leaves(k), UNCHANGED <<quota, quotaLog, rows>>
  PROVE  QuotaInv'
<1>1. NoCall \in [at : {"idle", "generates", "adjusts"}, read : Int, to : Int] /\ NoCall.at = "idle"
  BY DEF NoCall
<1> HIDE DEF NoCall
<1>2. /\ call' \in [Callers -> [at : {"idle", "generates", "adjusts"}, read : Int, to : Int]]
      /\ call'[k] = NoCall /\ \A l \in Callers \ {k} : call'[l] = call[l]
  BY <1>1, CallMoves DEF QuotaInv, Leaves
<1>3. RowIsLocked'
  BY <1>1, <1>2 DEF QuotaInv, RowIsLocked, Remaining
<1> QED
  BY <1>2, <1>3, QuotaStays DEF QuotaInv, QuotaTypes, Issued

LEMMA CallCommits ==
  ASSUME QuotaInv, NEW k \in Callers, CommitsCall(k)
  PROVE  QuotaInv'
<1> DEFINE e == [delta |-> call[k].to - call[k].read, after |-> call[k].to, generated |-> call[k].at = "generates"]
<1>1. /\ call[k].read = Remaining /\ call[k].to \in Nat /\ Remaining \in Int
      /\ quotaLog \in Seq(QuotaEvents) /\ rows \in Seq(InvitationRows)
      /\ call[k] \in [at : {"idle", "generates", "adjusts"}, read : Int, to : Int]
  BY DEF QuotaInv, QuotaTypes, RowIsLocked, CommitsCall, Remaining
<1>2. /\ e \in QuotaEvents /\ e.after = call[k].to /\ e.delta = call[k].to - Remaining
      /\ e.generated = (call[k].at = "generates") /\ quotaLog' = Append(quotaLog, e)
      /\ quota' = call[k].to
  BY <1>1 DEF QuotaEvents, CommitsCall, Logs
<1> HIDE DEF e
<1>3. /\ quotaLog' \in Seq(QuotaEvents) /\ Len(quotaLog') = Len(quotaLog) + 1 /\ Len(quotaLog) \in Nat
      /\ \A n \in 1..Len(quotaLog) : quotaLog'[n] = quotaLog[n]
      /\ quotaLog'[Len(quotaLog) + 1] = e
      /\ DOMAIN quotaLog' = 1..Len(quotaLog) + 1 /\ DOMAIN quotaLog = 1..Len(quotaLog)
  BY <1>1, <1>2
<1>4. Remaining' = call[k].to
  BY <1>1, <1>2 DEF Remaining
<1>5. /\ \A n \in DOMAIN quotaLog :
           quotaLog[n].after = quotaLog[n].delta + IF n = 1 THEN 0 ELSE quotaLog[n - 1].after
      /\ Remaining = IF quotaLog = <<>> THEN 0 ELSE Last(quotaLog).after
      /\ Cardinality(Issued) = Cardinality(Generated)
  BY DEF QuotaInv, QuotasAreAccounted, Issued, Generated
<1>6. \A n \in DOMAIN quotaLog' :
        quotaLog'[n].after = quotaLog'[n].delta + IF n = 1 THEN 0 ELSE quotaLog'[n - 1].after
  <2>1. SUFFICES ASSUME NEW n \in 1..Len(quotaLog) + 1
                 PROVE  quotaLog'[n].after = quotaLog'[n].delta + IF n = 1 THEN 0 ELSE quotaLog'[n - 1].after
    BY <1>3
  <2>2. CASE n \in 1..Len(quotaLog)
    <3>1. quotaLog'[n] = quotaLog[n] /\ (n # 1 => quotaLog'[n - 1] = quotaLog[n - 1])
      BY <1>3, <2>2
    <3> QED
      BY <1>3, <1>5, <2>2, <3>1
  <2>3. CASE n = Len(quotaLog) + 1 /\ quotaLog = <<>>
    BY <1>1, <1>2, <1>3, <1>5, <2>3
  <2>4. CASE n = Len(quotaLog) + 1 /\ quotaLog # <<>>
    <3>1. Len(quotaLog) # 0 /\ n # 1 /\ n - 1 = Len(quotaLog) /\ quotaLog'[n - 1] = quotaLog[Len(quotaLog)]
      BY <1>1, <1>3, <2>4
    <3>2. Remaining = quotaLog[Len(quotaLog)].after
      BY <1>5, <2>4 DEF Last
    <3>3. quotaLog'[n] = e /\ e.after = e.delta + Remaining
      BY <1>1, <1>2, <1>3, <2>4
    <3>4. quotaLog'[n - 1].after = Remaining
      BY <3>1, <3>2
    <3> QED
      BY <3>1, <3>3, <3>4
  <2> QED
    BY <1>3, <2>1, <2>2, <2>3, <2>4
<1>7. quotaLog' # <<>> /\ Last(quotaLog').after = call[k].to
  BY <1>2, <1>3 DEF Last
<1>8. /\ Generated' = Generated \cup (IF call[k].at = "generates" THEN {Len(quotaLog) + 1} ELSE {})
      /\ Generated \in SUBSET (1..Len(quotaLog))
  <2>1. /\ Generated' = {n \in 1..Len(quotaLog) + 1 : quotaLog'[n].generated}
        /\ Generated = {n \in 1..Len(quotaLog) : quotaLog[n].generated}
    BY <1>3 DEF Generated
  <2>2. \A n \in 1..Len(quotaLog) + 1 : n \in 1..Len(quotaLog) \/ n = Len(quotaLog) + 1
    BY <1>3
  <2>3. \A n \in 1..Len(quotaLog) : n \in 1..Len(quotaLog) + 1 /\ quotaLog'[n].generated = quotaLog[n].generated
    BY <1>3
  <2>4. Len(quotaLog) + 1 \in 1..Len(quotaLog) + 1 /\ quotaLog'[Len(quotaLog) + 1].generated = (call[k].at = "generates")
    BY <1>2, <1>3
  <2>5. CASE call[k].at = "generates"
    BY <2>1, <2>2, <2>3, <2>4, <2>5
  <2>6. CASE call[k].at # "generates"
    BY <2>1, <2>2, <2>3, <2>4, <2>6
  <2> QED
    BY <2>1, <2>5, <2>6
<1>9. /\ rows' \in Seq(InvitationRows)
      /\ Issued' = Issued \cup (IF call[k].at = "generates" THEN {Len(rows) + 1} ELSE {})
      /\ Issued \in SUBSET (1..Len(rows)) /\ Len(rows) \in Nat
  <2>1. Len(rows) \in Nat /\ DOMAIN rows = 1..Len(rows) /\ Issued \in SUBSET (1..Len(rows))
    BY <1>1 DEF Issued
  <2>2. CASE call[k].at # "generates"
    BY <1>1, <2>1, <2>2 DEF CommitsCall, Issued
  <2>3. CASE call[k].at = "generates"
    <3>1. PICK at \in Stamps : rows' = Append(rows, Row("account", at, TRUE))
      BY <2>3 DEF CommitsCall
    <3> DEFINE w == Row("account", at, TRUE)
    <3>2. w \in InvitationRows /\ w.by = "account"
      BY <3>1 DEF InvitationRows, Row
    <3> HIDE DEF w
    <3>3. rows' = Append(rows, w)
      BY <3>1 DEF w
    <3>4. /\ rows' \in Seq(InvitationRows) /\ DOMAIN rows' = 1..Len(rows) + 1
          /\ rows'[Len(rows) + 1] = w /\ \A i \in 1..Len(rows) : rows'[i] = rows[i]
      BY <1>1, <3>2, <3>3
    <3>5. Issued' = {i \in 1..Len(rows) + 1 : rows'[i].by = "account"}
      BY <3>4 DEF Issued
    <3>6. Issued' = Issued \cup {Len(rows) + 1}
      BY <2>1, <3>2, <3>4, <3>5 DEF Issued
    <3> QED
      BY <2>1, <2>3, <3>4, <3>6
  <2> QED
    BY <2>2, <2>3
<1>10. Cardinality(Issued') = Cardinality(Generated')
  <2>1. CASE call[k].at = "generates"
    <3>1. Cardinality(Issued \cup {Len(rows) + 1}) = Cardinality(Issued) + 1
      BY <1>9, OneMore
    <3>2. Cardinality(Generated \cup {Len(quotaLog) + 1}) = Cardinality(Generated) + 1
      BY <1>3, <1>8, OneMore
    <3>3. Issued' = Issued \cup {Len(rows) + 1} /\ Generated' = Generated \cup {Len(quotaLog) + 1}
      BY <1>8, <1>9, <2>1
    <3> QED
      BY <1>5, <3>1, <3>2, <3>3
  <2>2. CASE call[k].at # "generates"
    <3>1. Issued' = Issued /\ Generated' = Generated
      BY <1>8, <1>9, <2>2
    <3> QED
      BY <1>5, <3>1
  <2> QED
    BY <2>1, <2>2
<1>11. QuotasAreAccounted'
  BY <1>4, <1>6, <1>7, <1>10 DEF QuotasAreAccounted, Issued, Generated
<1>12. NoCall \in [at : {"idle", "generates", "adjusts"}, read : Int, to : Int] /\ NoCall.at = "idle"
  BY DEF NoCall
<1> HIDE DEF NoCall
<1>13. /\ call' \in [Callers -> [at : {"idle", "generates", "adjusts"}, read : Int, to : Int]]
      /\ call'[k] = NoCall /\ \A l \in Callers \ {k} : call'[l] = call[l]
  BY <1>12, CallMoves DEF QuotaInv, Leaves, CommitsCall
<1>14. RowIsLocked'
  BY <1>12, <1>13 DEF QuotaInv, RowIsLocked, CommitsCall
<1> QED
  BY <1>2, <1>1, <1>3, <1>9, <1>11, <1>13, <1>14 DEF QuotaInv, QuotaTypes

\* The administrator's batches and what becomes of an invitation: nobody's creator changes.
LEMMA RowsChange ==
  ASSUME QuotaInv, UNCHANGED <<quota, quotaLog, call>>, rows' \in Seq(InvitationRows),
         \A i \in DOMAIN rows' : IF i \in DOMAIN rows THEN rows'[i].by = rows[i].by ELSE rows'[i].by # "account",
         DOMAIN rows \subseteq DOMAIN rows'
  PROVE  QuotaInv'
<1>1. Issued' = {i \in DOMAIN rows' : rows'[i].by = "account"}
  BY DEF Issued
<1>2. Issued' = Issued
  BY <1>1 DEF Issued
<1>3. RowIsLocked'
  BY DEF QuotaInv, RowIsLocked, Remaining
<1> QED
  BY <1>2, <1>3, QuotaStays DEF QuotaInv, QuotaTypes

LEMMA BatchInserts ==
  ASSUME QuotaInv, NEW b \in Batches, InsertsBatch(b)
  PROVE  QuotaInv'
<1>1. PICK n \in 1..(MaxInvitations - Len(rows)), at \in Stamps :
        rows' = rows \o [m \in 1..n |-> Row("administrator", at, FALSE)]
  BY DEF InsertsBatch
<1> DEFINE w == Row("administrator", at, FALSE)
           more == [m \in 1..n |-> w]
<1>2. w \in InvitationRows /\ w.by = "administrator"
  BY <1>1 DEF InvitationRows, Row
<1>3. rows \in Seq(InvitationRows) /\ Len(rows) \in Nat /\ n \in Nat
  BY <1>1, InvitationsAssumption DEF QuotaInv, QuotaTypes
<1> HIDE DEF w
<1>4. more \in Seq(InvitationRows) /\ Len(more) = n /\ \A m \in 1..n : more[m] = w
  BY <1>2, <1>3
<1> HIDE DEF more
<1>5. rows \in Seq(InvitationRows) /\ more \in Seq(InvitationRows)
  BY <1>3, <1>4
<1>6. /\ rows \o more \in Seq(InvitationRows) /\ Len(rows \o more) = Len(rows) + n
      /\ \A i \in 1..Len(rows) + n :
           (rows \o more)[i] = IF i <= Len(rows) THEN rows[i] ELSE more[i - Len(rows)]
  BY <1>3, <1>4, <1>5, ConcatProperties
<1>7. rows' = rows \o more
  BY <1>1 DEF more, w
<1>8. /\ DOMAIN rows = 1..Len(rows) /\ DOMAIN rows' = 1..Len(rows) + n
      /\ rows' \in Seq(InvitationRows)
  BY <1>3, <1>6, <1>7
<1>9. ASSUME NEW i \in DOMAIN rows'
      PROVE  IF i \in DOMAIN rows THEN rows'[i].by = rows[i].by ELSE rows'[i].by # "account"
  <2>1. CASE i <= Len(rows)
    BY <1>3, <1>6, <1>7, <1>8, <2>1
  <2>2. CASE ~(i <= Len(rows))
    <3>1. i - Len(rows) \in 1..n /\ i \notin DOMAIN rows
      BY <1>3, <1>8, <1>9, <2>2
    <3>2. rows'[i] = w
      BY <1>3, <1>4, <1>6, <1>7, <1>8, <1>9, <2>2, <3>1
    <3> QED
      BY <1>2, <3>1, <3>2
  <2> QED
    BY <2>1, <2>2
<1>10. DOMAIN rows \subseteq DOMAIN rows'
  BY <1>3, <1>8
<1> QED
  BY <1>8, <1>9, <1>10, RowsChange DEF InsertsBatch

LEMMA InvitationsChange ==
  ASSUME QuotaInv, (\E b \in Batches : CommitsBatch(b)) \/ (\E i \in DOMAIN rows : StatusChanges(i))
  PROVE  QuotaInv'
<1>1. rows \in Seq(InvitationRows) /\ Len(rows) \in Nat /\ DOMAIN rows = 1..Len(rows)
      /\ \A i \in DOMAIN rows : rows[i] \in InvitationRows
  BY DEF QuotaInv, QuotaTypes
<1>2. \A i \in DOMAIN rows : /\ [rows[i] EXCEPT !.visible = TRUE] \in InvitationRows
                             /\ [rows[i] EXCEPT !.visible = TRUE].by = rows[i].by
                             /\ \A rank \in 2..4 : /\ [rows[i] EXCEPT !.rank = rank] \in InvitationRows
                                                   /\ [rows[i] EXCEPT !.rank = rank].by = rows[i].by
  <2>1. SUFFICES ASSUME NEW row \in InvitationRows
                 PROVE  /\ [row EXCEPT !.visible = TRUE] \in InvitationRows
                        /\ [row EXCEPT !.visible = TRUE].by = row.by
                        /\ \A rank \in 2..4 : /\ [row EXCEPT !.rank = rank] \in InvitationRows
                                              /\ [row EXCEPT !.rank = rank].by = row.by
    BY <1>1
  <2>2. [row EXCEPT !.visible = TRUE] \in InvitationRows /\ [row EXCEPT !.visible = TRUE].by = row.by
    BY DEF InvitationRows
  <2>3. ASSUME NEW rank \in 2..4
        PROVE  [row EXCEPT !.rank = rank] \in InvitationRows /\ [row EXCEPT !.rank = rank].by = row.by
    BY <2>3 DEF InvitationRows
  <2> QED
    BY <2>2, <2>3
<1>3. /\ DOMAIN rows' = 1..Len(rows)
      /\ \A i \in DOMAIN rows : rows'[i] \in InvitationRows /\ rows'[i].by = rows[i].by
      /\ rows' = [i \in 1..Len(rows) |-> rows'[i]]
  <2>1. CASE \E b \in Batches : CommitsBatch(b)
    <3>1. PICK b \in Batches : rows' = [i \in DOMAIN rows |-> IF i \in batch[b] THEN [rows[i] EXCEPT !.visible = TRUE]
                                                             ELSE rows[i]]
      BY <2>1 DEF CommitsBatch
    <3> QED
      BY <1>1, <1>2, <3>1
  <2>2. CASE \E i \in DOMAIN rows : StatusChanges(i)
    <3>1. PICK i \in DOMAIN rows, rank \in 2..4 : rows' = [rows EXCEPT ![i] = [rows[i] EXCEPT !.rank = rank]]
      BY <1>1, <2>2 DEF StatusChanges
    <3> QED
      BY <1>1, <1>2, <3>1
  <2> QED
    BY <2>1, <2>2
<1>4. rows' \in Seq(InvitationRows)
  BY <1>1, <1>3
<1>5. UNCHANGED <<quota, quotaLog, call>>
  BY DEF CommitsBatch, StatusChanges
<1> QED
  BY <1>1, <1>3, <1>4, <1>5, RowsChange

LEMMA QuotaBegins == InvitationsInit => QuotaInv
<1>1. SUFFICES ASSUME InvitationsInit PROVE QuotaInv
  OBVIOUS
<1>2. Issued = {} /\ Generated = {}
  BY <1>1 DEF InvitationsInit, Issued, Generated
<1>3. QuotaTypes
  BY <1>1 DEF InvitationsInit, QuotaTypes, NoCall
<1>4. RowIsLocked
  BY <1>1 DEF InvitationsInit, RowIsLocked, NoCall
<1>5. QuotasAreAccounted
  BY <1>1, <1>2 DEF InvitationsInit, QuotasAreAccounted, Remaining, Issued, Generated
<1> QED
  BY <1>3, <1>4, <1>5 DEF QuotaInv

LEMMA QuotaKept == QuotaInv /\ [InvitationsNext]_invitationVars => QuotaInv'
<1>1. SUFFICES ASSUME QuotaInv, [InvitationsNext]_invitationVars PROVE QuotaInv'
  OBVIOUS
<1>2. ASSUME UNCHANGED <<quota, quotaLog, rows, call>> PROVE QuotaInv'
  BY <1>1, <1>2, QuotaStays DEF QuotaInv, QuotaTypes, RowIsLocked, Remaining, Issued
<1>3. ASSUME NEW k \in Callers, LocksForGenerate(k) \/ LocksForAdjust(k) \/ CommitsCall(k) \/ RollsBackCall(k)
      PROVE  QuotaInv'
  BY <1>1, <1>3, CallLocks, CallCommits, CallRollsBack DEF RollsBackCall
<1> QED
  BY <1>1, <1>2, <1>3, BatchInserts, InvitationsChange
  DEF InvitationsNext, QuotaNext, PagesNext, Blocks, Unblocks, LogsIn, OpensPages, ReadsPage, invitationVars

\* The transactions of Generate and AdjustQuota: every change of the quota is in its events, each of which continues the one before it,
\* and as many invitations were issued as the events say.
THEOREM QuotasAlwaysAccounted == InvitationsSpec => []QuotasAreAccounted
<1>1. QuotaInv => QuotasAreAccounted
  BY DEF QuotaInv
<1> QED
  BY <1>1, QuotaBegins, QuotaKept, PTL DEF InvitationsSpec

-----------------------------------------------------------------------------
(***************************************************************************)
(* The administrator's pages (Invitations).  What a reader has seen is     *)
(* behind its cursor, and what it should see and has not is ahead of it.   *)
(* That is true of the rows whose place in the order stays (Firm); by      *)
(* status another one may pass the cursor, and be seen twice or never.     *)
(***************************************************************************)
Readers == [at : {"idle", "reads", "done"}, sort : {"created_at", "status"}, up : BOOLEAN,
            cursor : {<<>>} \cup (Nat \X Nat), seen : Seq(Nat), owed : SUBSET Nat]

Firm == IF pages.sort = "created_at" THEN Listed ELSE pages.owed

PagesInv ==
  /\ pages \in Readers
  /\ pages.owed \subseteq Listed
  /\ \A n \in DOMAIN pages.seen :
       pages.seen[n] \in Listed /\ (pages.at = "reads" /\ pages.seen[n] \in Firm => pages.seen[n] \notin Ahead)
  /\ \A m, n \in DOMAIN pages.seen : pages.seen[m] = pages.seen[n] /\ pages.seen[m] \in Firm => m = n
  /\ \A i \in pages.owed : i \in ToSet(pages.seen) \/ (pages.at = "reads" /\ i \in Ahead)

LEMMA KeyOfRow ==
  ASSUME rows \in Seq(InvitationRows), NEW i \in Listed
  PROVE  i \in Nat /\ SortKey(i) \in Nat \X Nat /\ SortKey(i)[2] = i
<1>1. rows[i] \in InvitationRows /\ i \in Nat
  BY DEF Listed
<1>2. rows[i].created \in Stamps /\ rows[i].rank \in 1..4
  BY <1>1 DEF InvitationRows
<1>3. Stamps \subseteq Nat
  BY InvitationsAssumption
<1>4. PICK x \in Nat : SortKey(i) = <<x, i>>
  <2>1. rows[i].created \in Nat
    BY <1>2, <1>3
  <2>2. PICK rank \in 1..4 : rank = rows[i].rank
    BY <1>2
  <2>3. rows[i].rank \in Nat
    BY <2>2
  <2> QED
    BY <2>1, <2>3 DEF SortKey
<1> QED
  BY <1>1, <1>4

LEMMA KeysAreOrdered ==
  ASSUME NEW k \in Nat \X Nat, NEW l \in Nat \X Nat, NEW m \in Nat \X Nat
  PROVE  /\ ~AfterCursor(k, k)
         /\ AfterCursor(l, k) => ~AfterCursor(k, l)
         /\ AfterCursor(l, k) /\ AfterCursor(m, l) => AfterCursor(m, k)
BY DEF AfterCursor, Beyond

LEMMA OrderOfRows ==
  ASSUME rows \in Seq(InvitationRows), NEW i \in Listed, NEW j \in Listed
  PROVE  Precedes(i, j) <=> AfterCursor(SortKey(j), SortKey(i))
BY KeyOfRow DEF Precedes, AfterCursor, Beyond

\* What comes after a row that is ahead of the cursor is ahead of it.
LEMMA AheadGoesOn ==
  ASSUME rows \in Seq(InvitationRows), pages \in Readers, NEW i \in Ahead, NEW j \in Listed,
         AfterCursor(SortKey(j), SortKey(i))
  PROVE  j \in Ahead
<1>1. i \in Listed /\ SortKey(i) \in Nat \X Nat /\ SortKey(j) \in Nat \X Nat
  BY KeyOfRow DEF Ahead
<1>2. CASE pages.cursor = <<>>
  BY <1>2 DEF Ahead
<1>3. CASE pages.cursor # <<>>
  <2>1. pages.cursor \in Nat \X Nat
    BY <1>3 DEF Readers
  <2>2. AfterCursor(SortKey(i), pages.cursor)
    BY <1>3 DEF Ahead
  <2>3. AfterCursor(SortKey(j), pages.cursor)
    BY <1>1, <2>1, <2>2, KeysAreOrdered
  <2> QED
    BY <2>3 DEF Ahead
<1> QED
  BY <1>2, <1>3

-----------------------------------------------------------------------------
\* A page.
ContinuesPage(w) ==
  /\ pages.seen \o w \in Seq(Nat)
  /\ ToSet(pages.seen \o w) = ToSet(pages.seen) \cup ToSet(w)
  /\ \A m, n \in DOMAIN (pages.seen \o w) :
       (pages.seen \o w)[m] = (pages.seen \o w)[n] /\ (pages.seen \o w)[m] \in Firm => m = n

LEMMA PageContinues ==
  ASSUME PagesInv, pages.at = "reads", rows \in Seq(InvitationRows), NEW w \in Seq(Nat), ToSet(w) \subseteq Ahead,
         \A m, n \in DOMAIN w : m < n => w[m] # w[n]
  PROVE  ContinuesPage(w)
<1> DEFINE s == pages.seen
<1>1. s \in Seq(Nat) /\ Len(s) \in Nat /\ Len(w) \in Nat
  BY DEF PagesInv, Readers
<1>2. /\ \A m \in 1..Len(s) : s[m] \in Firm => s[m] \notin Ahead
      /\ \A m, n \in 1..Len(s) : s[m] = s[n] /\ s[m] \in Firm => m = n
      /\ \A m \in 1..Len(w) : w[m] \in Ahead
      /\ \A m, n \in 1..Len(w) : w[m] = w[n] => m = n
  <2>1. DOMAIN s = 1..Len(s) /\ DOMAIN w = 1..Len(w)
    BY <1>1
  <2>2. \A m, n \in 1..Len(w) : w[m] = w[n] => m = n
    <3>1. SUFFICES ASSUME NEW m \in 1..Len(w), NEW n \in 1..Len(w), w[m] = w[n], m # n PROVE FALSE
      OBVIOUS
    <3>2. m < n \/ n < m
      BY <3>1, <1>1
    <3> QED
      BY <2>1, <3>1, <3>2
  <2> QED
    BY <2>1, <2>2 DEF PagesInv, ToSet
<1> HIDE DEF s
<1>3. /\ s \o w \in Seq(Nat) /\ DOMAIN (s \o w) = 1..Len(s) + Len(w)
      /\ \A i \in 1..Len(s) + Len(w) : (s \o w)[i] = IF i <= Len(s) THEN s[i] ELSE w[i - Len(s)]
  BY <1>1, ConcatProperties
<1>4. ASSUME NEW m \in 1..Len(s) + Len(w), NEW n \in 1..Len(s) + Len(w), (s \o w)[m] = (s \o w)[n], (s \o w)[m] \in Firm
      PROVE  m = n
  <2>1. CASE m <= Len(s) /\ n <= Len(s)
    BY <1>1, <1>2, <1>3, <1>4, <2>1
  <2>2. CASE m > Len(s) /\ n > Len(s)
    <3>1. m - Len(s) \in 1..Len(w) /\ n - Len(s) \in 1..Len(w)
      BY <1>1, <2>2
    <3>2. w[m - Len(s)] = w[n - Len(s)]
      BY <1>1, <1>3, <1>4, <2>2
    <3>3. m - Len(s) = n - Len(s)
      BY <1>2, <3>1, <3>2
    <3> QED
      BY <1>1, <3>3
  <2>3. CASE m <= Len(s) /\ n > Len(s)
    <3>1. n - Len(s) \in 1..Len(w) /\ m \in 1..Len(s)
      BY <1>1, <2>3
    <3>2. s[m] = w[n - Len(s)] /\ s[m] \in Firm
      BY <1>1, <1>3, <1>4, <2>3
    <3> QED
      BY <1>2, <3>1, <3>2
  <2>4. CASE m > Len(s) /\ n <= Len(s)
    <3>1. m - Len(s) \in 1..Len(w) /\ n \in 1..Len(s)
      BY <1>1, <2>4
    <3>2. s[n] = w[m - Len(s)] /\ s[n] \in Firm
      BY <1>1, <1>3, <1>4, <2>4
    <3> QED
      BY <1>2, <3>1, <3>2
  <2> QED
    BY <1>1, <2>1, <2>2, <2>3, <2>4
<1>5. ToSet(s \o w) = ToSet(s) \cup ToSet(w)
  <2>1. \A i \in 1..Len(s) : i \in 1..Len(s) + Len(w) /\ (s \o w)[i] = s[i]
    BY <1>1, <1>3
  <2>2. \A i \in 1..Len(w) : Len(s) + i \in 1..Len(s) + Len(w) /\ (s \o w)[Len(s) + i] = w[i]
    <3>1. SUFFICES ASSUME NEW i \in 1..Len(w)
                   PROVE  Len(s) + i \in 1..Len(s) + Len(w) /\ (s \o w)[Len(s) + i] = w[i]
      OBVIOUS
    <3>2. Len(s) + i \in 1..Len(s) + Len(w) /\ ~(Len(s) + i <= Len(s)) /\ Len(s) + i - Len(s) = i
      BY <1>1, <3>1
    <3> QED
      BY <1>3, <3>2
  <2>3. \A i \in 1..Len(s) + Len(w) : i \in 1..Len(s) \/ i - Len(s) \in 1..Len(w)
    BY <1>1
  <2>4. \A i \in 1..Len(s) + Len(w) : (s \o w)[i] \in ToSet(s) \cup ToSet(w)
    BY <1>1, <1>3, <2>3 DEF ToSet
  <2>5. /\ ToSet(s) = {s[i] : i \in 1..Len(s)} /\ ToSet(w) = {w[i] : i \in 1..Len(w)}
        /\ ToSet(s \o w) = {(s \o w)[i] : i \in 1..Len(s) + Len(w)}
    BY <1>1, <1>3 DEF ToSet
  <2>6. ToSet(s) \subseteq ToSet(s \o w)
    BY <2>1, <2>5
  <2>7. ToSet(w) \subseteq ToSet(s \o w)
    <3>1. SUFFICES ASSUME NEW i \in 1..Len(w) PROVE w[i] \in ToSet(s \o w)
      BY <2>5
    <3>2. Len(s) + i \in 1..Len(s) + Len(w) /\ (s \o w)[Len(s) + i] = w[i]
      BY <2>2
    <3> QED
      BY <3>2, <2>5
  <2>8. ToSet(s \o w) \subseteq ToSet(s) \cup ToSet(w)
    BY <2>4, <2>5
  <2> QED
    BY <2>6, <2>7, <2>8
<1> QED
  BY <1>3, <1>4, <1>5 DEF ContinuesPage, s

\* A row that was chosen, and what comes of the others.
LEMMA RowsOfSelection ==
  ASSUME rows \in Seq(InvitationRows), pages \in Readers, NEW s \in Selections
  PROVE  /\ s \in Seq(Nat) /\ s \in Seq(Ahead) /\ Len(s) \in 0..PageSize + 1
         /\ \A m \in 1..Len(s) : s[m] \in Ahead /\ s[m] \in Listed
         /\ \A m, n \in 1..Len(s) : m < n => AfterCursor(SortKey(s[n]), SortKey(s[m])) /\ s[m] # s[n]
         /\ \A i \in Ahead : i \in ToSet(s) \/ (Len(s) > PageSize /\ AfterCursor(SortKey(i), SortKey(s[PageSize + 1])))
<1>1. PICK k \in 0..PageSize + 1 : s \in [1..k -> Ahead]
  BY DEF Selections
<1>2. PageSize \in Nat \ {0}
  BY InvitationsAssumption
<1>3. Ahead \subseteq Listed /\ Ahead \subseteq Nat
  BY KeyOfRow DEF Ahead
<1>4. /\ s \in Seq(Nat) /\ s \in Seq(Ahead) /\ Len(s) = k /\ DOMAIN s = 1..k
      /\ \A m \in 1..k : s[m] \in Ahead /\ s[m] \in Listed
  <2>1. k \in Nat
    BY <1>2
  <2>2. s \in Seq(Nat) /\ s \in Seq(Ahead)
    <3>1. s = [m \in 1..k |-> s[m]] /\ \A m \in 1..k : s[m] \in Ahead
      BY <1>1
    <3>2. s \in Seq(Ahead)
      BY <2>1, <3>1
    <3>3. s \in Seq(Nat)
      BY <1>3, <2>1, <3>1
    <3> QED
      BY <3>2, <3>3
  <2>3. DOMAIN s = 1..k /\ \A m \in 1..k : s[m] \in Ahead
    BY <1>1
  <2>4. Len(s) = k
    BY <2>1, <2>2, <2>3
  <2> QED
    BY <2>2, <2>3, <2>4, <1>3
<1>5. ASSUME NEW m \in 1..k, NEW n \in 1..k, m < n
      PROVE  AfterCursor(SortKey(s[n]), SortKey(s[m])) /\ s[m] # s[n]
  <2>1. Precedes(s[m], s[n])
    BY <1>4, <1>5 DEF Selections
  <2>2. AfterCursor(SortKey(s[n]), SortKey(s[m]))
    BY <2>1, <1>4, OrderOfRows
  <2> QED
    BY <2>2, <1>4, KeyOfRow, KeysAreOrdered
<1>6. ASSUME NEW i \in Ahead, i \notin ToSet(s)
      PROVE  Len(s) > PageSize /\ AfterCursor(SortKey(i), SortKey(s[PageSize + 1]))
  <2>1. i \in Ahead \ Range(s)
    BY <1>6 DEF ToSet, Range
  <2>2. Len(s) > PageSize /\ Precedes(s[PageSize + 1], i)
    BY <2>1 DEF Selections
  <2>3. PageSize + 1 \in 1..k
    BY <2>2, <1>4, <1>2
  <2> QED
    BY <2>2, <2>3, <1>4, <1>3, OrderOfRows
<1> QED
  BY <1>4, <1>5, <1>6

-----------------------------------------------------------------------------
\* What leaves the order of the firm rows as it is, and lists no fewer of them.
LEMMA PagesStay ==
  ASSUME PagesInv, rows \in Seq(InvitationRows), pages' \in Readers, pages'.owed \subseteq pages.owed,
         pages'.at = pages.at, pages'.sort = pages.sort, pages'.up = pages.up, pages'.cursor = pages.cursor,
         pages'.seen = pages.seen, Listed \subseteq Listed',
         \A i \in Listed : pages.sort = "created_at" \/ i \in pages'.owed => SortKey(i)' = SortKey(i)
  PROVE  PagesInv'
<1>1. \A i \in Listed : i \in Firm' => i \in Firm /\ (i \in Ahead' <=> i \in Ahead)
  <2>1. SUFFICES ASSUME NEW i \in Listed, i \in Firm' PROVE i \in Firm /\ (i \in Ahead' <=> i \in Ahead)
    OBVIOUS
  <2>2. i \in Firm /\ SortKey(i)' = SortKey(i) /\ i \in Listed'
    BY <2>1 DEF Firm
  <2>3. AfterCursor(SortKey(i), pages.cursor)' <=> AfterCursor(SortKey(i), pages.cursor)
    BY <2>2 DEF AfterCursor, Beyond
  <2> QED
    BY <2>2, <2>3 DEF Ahead
<1>2. \A n \in DOMAIN pages'.seen :
        pages'.seen[n] \in Listed' /\ (pages'.at = "reads" /\ pages'.seen[n] \in Firm' => pages'.seen[n] \notin Ahead')
  BY <1>1 DEF PagesInv
<1>3. \A m, n \in DOMAIN pages'.seen : pages'.seen[m] = pages'.seen[n] /\ pages'.seen[m] \in Firm' => m = n
  BY <1>1 DEF PagesInv
<1>4. \A i \in pages'.owed : i \in Listed /\ i \in Firm'
  <2>1. SUFFICES ASSUME NEW i \in pages'.owed PROVE i \in Listed /\ i \in Firm'
    OBVIOUS
  <2> QED
    BY <2>1 DEF PagesInv, Firm
<1>5. \A i \in pages'.owed : i \in ToSet(pages'.seen) \/ (pages'.at = "reads" /\ i \in Ahead')
  BY <1>1, <1>4 DEF PagesInv
<1> QED
  BY <1>2, <1>3, <1>4, <1>5 DEF PagesInv

LEMMA OpeningKeeps ==
  ASSUME PagesInv, rows \in Seq(InvitationRows), OpensPages
  PROVE  PagesInv'
<1>1. PICK sort \in {"created_at", "status"}, up \in BOOLEAN :
        pages' = [NoPages EXCEPT !.at = "reads", !.sort = sort, !.up = up, !.owed = Listed]
  BY DEF OpensPages
<1>2. Listed \in SUBSET Nat
  BY KeyOfRow
<1>3. pages' = [at |-> "reads", sort |-> sort, up |-> up, cursor |-> <<>>, seen |-> <<>>, owed |-> Listed]
  BY <1>1 DEF NoPages
<1>4. pages' \in Readers
  BY <1>2, <1>3 DEF Readers
<1>5. Listed' = Listed
  BY DEF OpensPages, Listed
<1>6. Ahead' = Listed'
  BY <1>3 DEF Ahead
<1>7. pages'.owed = Listed /\ pages'.seen = <<>> /\ pages'.at = "reads"
  BY <1>3
<1>8. DOMAIN pages'.seen = {}
  BY <1>7
<1> QED
  BY <1>4, <1>5, <1>6, <1>7, <1>8 DEF PagesInv

\* The last page: everything that was ahead.
LEMMA LastPage ==
  ASSUME PagesInv, pages.at = "reads", rows \in Seq(InvitationRows), UNCHANGED rows,
         NEW s \in Selections, ~(Len(s) > PageSize), pages' = [pages EXCEPT !.seen = @ \o s, !.at = "done"]
  PROVE  PagesInv'
<1>1. pages \in Readers
  BY DEF PagesInv
<1>2. /\ s \in Seq(Nat) /\ s \in Seq(Ahead) /\ \A m \in 1..Len(s) : s[m] \in Ahead /\ s[m] \in Listed
      /\ \A m, n \in 1..Len(s) : m < n => s[m] # s[n]
      /\ \A i \in Ahead : i \in ToSet(s)
  BY <1>1, RowsOfSelection
<1>3. DOMAIN s = 1..Len(s) /\ ToSet(s) \subseteq Ahead /\ Ahead \subseteq Listed
  BY <1>2 DEF ToSet, Ahead
<1>4. ContinuesPage(s)
  BY <1>2, <1>3, PageContinues
<1>5. /\ pages'.at = "done" /\ pages'.seen = pages.seen \o s /\ pages'.sort = pages.sort /\ pages'.up = pages.up
      /\ pages'.cursor = pages.cursor /\ pages'.owed = pages.owed
  BY <1>1 DEF Readers
<1>6. pages' \in Readers
  <2>1. PICK q \in Seq(Nat) : q = pages.seen \o s
    BY <1>4 DEF ContinuesPage
  <2>2. pages' = [pages EXCEPT !.seen = q, !.at = "done"]
    BY <2>1
  <2> QED
    BY <2>2, <1>1 DEF Readers
<1>7. Listed' = Listed /\ Firm' = Firm
  BY <1>5 DEF Listed, Firm
<1>8. ToSet(pages'.seen) = ToSet(pages.seen) \cup ToSet(s)
  BY <1>4, <1>5 DEF ContinuesPage
<1>9. ToSet(pages.seen) \subseteq Listed
  BY DEF PagesInv, ToSet
<1>10. \A n \in DOMAIN pages'.seen : pages'.seen[n] \in ToSet(pages'.seen)
  BY DEF ToSet
<1>11. \A m, n \in DOMAIN pages'.seen : pages'.seen[m] = pages'.seen[n] /\ pages'.seen[m] \in Firm' => m = n
  <2>1. PICK q : q = pages.seen \o s
    OBVIOUS
  <2>2. \A m, n \in DOMAIN q : q[m] = q[n] /\ q[m] \in Firm => m = n
    BY <2>1, <1>4 DEF ContinuesPage
  <2>3. pages'.seen = q /\ Firm' = Firm
    BY <2>1, <1>5, <1>7
  <2> QED
    BY <2>2, <2>3
<1>12. \A i \in pages'.owed : i \in ToSet(pages'.seen)
  BY <1>2, <1>5, <1>8 DEF PagesInv
<1> QED
  BY <1>3, <1>5, <1>6, <1>7, <1>8, <1>9, <1>10, <1>11, <1>12 DEF PagesInv

\* A page after which there is another: what is still ahead is what was, without the page.
LEMMA FullPage ==
  ASSUME PagesInv, pages.at = "reads", rows \in Seq(InvitationRows), UNCHANGED rows,
         NEW s \in Selections, Len(s) > PageSize,
         pages' = [pages EXCEPT !.seen = @ \o Front(s), !.cursor = SortKey(s[PageSize])]
  PROVE  PagesInv'
<1>1. pages \in Readers /\ PageSize \in Nat \ {0}
  BY InvitationsAssumption DEF PagesInv
<1>2. /\ s \in Seq(Nat) /\ s \in Seq(Ahead) /\ Len(s) \in 0..PageSize + 1
      /\ \A m \in 1..Len(s) : s[m] \in Ahead /\ s[m] \in Listed
      /\ \A m, n \in 1..Len(s) : m < n => AfterCursor(SortKey(s[n]), SortKey(s[m])) /\ s[m] # s[n]
      /\ \A i \in Ahead : i \in ToSet(s) \/ AfterCursor(SortKey(i), SortKey(s[PageSize + 1]))
  BY <1>1, RowsOfSelection
<1> DEFINE w == Front(s)
           last == s[PageSize]
<1>3. Len(s) = PageSize + 1 /\ DOMAIN s = 1..PageSize + 1
  BY <1>1, <1>2
<1>4. /\ w \in Seq(Nat) /\ Len(w) = PageSize /\ DOMAIN w = 1..PageSize
      /\ \A m \in 1..PageSize : w[m] = s[m]
  <2>1. \A m \in 1..PageSize : s[m] \in Nat
    BY <1>1, <1>2, <1>3
  <2>2. w = SubSeq(s, 1, PageSize)
    BY <1>1, <1>3 DEF Front
  <2>3. /\ SubSeq(s, 1, PageSize) \in Seq(Nat)
        /\ Len(SubSeq(s, 1, PageSize)) = IF 1 <= PageSize THEN PageSize - 1 + 1 ELSE 0
        /\ \A m \in 1..PageSize - 1 + 1 : SubSeq(s, 1, PageSize)[m] = s[1 + m - 1]
    BY <1>1, <2>1, SubSeqProperties
  <2>4. PageSize - 1 + 1 = PageSize /\ 1 <= PageSize /\ \A m \in 1..PageSize : 1 + m - 1 = m
    BY <1>1
  <2>5. w \in Seq(Nat) /\ Len(w) = PageSize /\ \A m \in 1..PageSize : w[m] = s[m]
    BY <2>2, <2>3, <2>4
  <2> QED
    BY <2>5
<1> HIDE DEF w
<1>5. \A m \in 1..PageSize : m \in 1..Len(s) /\ PageSize \in 1..Len(s) /\ PageSize + 1 \in 1..Len(s)
                             /\ PageSize < PageSize + 1 /\ (m = PageSize \/ m < PageSize)
  BY <1>1, <1>3
<1>6. PageSize \in 1..PageSize
  BY <1>1
<1>7. /\ last \in Ahead /\ last \in Listed /\ SortKey(last) \in Nat \X Nat
      /\ s[PageSize + 1] \in Listed /\ SortKey(s[PageSize + 1]) \in Nat \X Nat
      /\ AfterCursor(SortKey(s[PageSize + 1]), SortKey(last))
  BY <1>2, <1>5, <1>6, KeyOfRow
<1>8. ToSet(w) \subseteq Ahead /\ Ahead \subseteq Listed
  BY <1>2, <1>4, <1>5 DEF ToSet, Ahead
<1>9. \A m, n \in DOMAIN w : m < n => w[m] # w[n]
  BY <1>2, <1>4, <1>5
<1>10. ContinuesPage(w)
  BY <1>4, <1>8, <1>9, PageContinues
<1> HIDE DEF last
<1>11. /\ pages'.at = "reads" /\ pages'.seen = pages.seen \o w /\ pages'.sort = pages.sort /\ pages'.up = pages.up
       /\ pages'.cursor = SortKey(last) /\ pages'.owed = pages.owed /\ pages' \in Readers
  <2>1. PICK q \in Seq(Nat) : q = pages.seen \o w
    BY <1>10 DEF ContinuesPage
  <2>2. PICK c \in Nat \X Nat : c = SortKey(last)
    BY <1>7
  <2>3. pages' = [pages EXCEPT !.seen = q, !.cursor = c]
    BY <2>1, <2>2 DEF w, last
  <2>4. /\ pages'.at = "reads" /\ pages'.seen = q /\ pages'.sort = pages.sort /\ pages'.up = pages.up
        /\ pages'.cursor = c /\ pages'.owed = pages.owed /\ pages' \in Readers
    BY <2>3, <1>1 DEF Readers
  <2> QED
    BY <2>1, <2>2, <2>4
<1>12. Listed' = Listed /\ Firm' = Firm /\ \A i : SortKey(i)' = SortKey(i)
  BY <1>11 DEF Listed, Firm, SortKey
<1>13. \A i : i \in Ahead' <=> i \in Listed /\ AfterCursor(SortKey(i), SortKey(last))
  <2>1. pages'.cursor # <<>>
    <3>1. PICK a, b : SortKey(last) = <<a, b>>
      BY <1>7
    <3> QED
      BY <3>1, <1>11
  <2>2. \A i : AfterCursor(SortKey(i), pages.cursor)' <=> AfterCursor(SortKey(i), SortKey(last))
    BY <1>11, <1>12 DEF AfterCursor, Beyond
  <2> QED
    BY <2>1, <2>2, <1>12 DEF Ahead
<1>14. \A i \in Ahead' : i \in Ahead
  BY <1>1, <1>7, <1>13, AheadGoesOn
<1>15. \A m \in 1..PageSize : w[m] \in Listed /\ w[m] \notin Ahead'
  <2>1. SUFFICES ASSUME NEW m \in 1..PageSize PROVE s[m] \in Listed /\ s[m] \notin Ahead'
    BY <1>4
  <2>2. s[m] \in Listed /\ SortKey(s[m]) \in Nat \X Nat
    BY <1>2, <1>5, KeyOfRow
  <2>3. CASE m = PageSize
    BY <2>2, <2>3, <1>7, <1>13, KeysAreOrdered DEF last
  <2>4. CASE m < PageSize
    <3>1. AfterCursor(SortKey(last), SortKey(s[m]))
      BY <2>4, <1>2, <1>5 DEF last
    <3> QED
      BY <3>1, <2>2, <1>7, <1>13, KeysAreOrdered
  <2> QED
    BY <2>3, <2>4, <1>5
<1>16. \A i \in Ahead : i \in ToSet(w) \/ i \in Ahead'
  <2>1. SUFFICES ASSUME NEW i \in Ahead PROVE i \in ToSet(w) \/ i \in Ahead'
    OBVIOUS
  <2>2. i \in Listed /\ SortKey(i) \in Nat \X Nat
    BY <1>8, KeyOfRow
  <2>3. CASE i \in ToSet(s)
    <3>1. PICK m \in 1..PageSize + 1 : i = s[m]
      BY <2>3, <1>3 DEF ToSet
    <3>2. m \in 1..PageSize \/ m = PageSize + 1
      BY <1>1
    <3>3. CASE m \in 1..PageSize
      BY <3>1, <3>3, <1>4 DEF ToSet
    <3>4. CASE m = PageSize + 1
      BY <3>1, <3>4, <2>2, <1>7, <1>13
    <3> QED
      BY <3>2, <3>3, <3>4
  <2>4. CASE AfterCursor(SortKey(i), SortKey(s[PageSize + 1]))
    <3>1. AfterCursor(SortKey(i), SortKey(last))
      BY <2>2, <2>4, <1>7, KeysAreOrdered
    <3> QED
      BY <3>1, <2>2, <1>13
  <2> QED
    BY <2>3, <2>4, <1>2
<1>17. \A n \in DOMAIN pages'.seen :
         pages'.seen[n] \in Listed' /\ (pages'.seen[n] \in Firm' => pages'.seen[n] \notin Ahead')
  <2>1. SUFFICES ASSUME NEW i \in ToSet(pages'.seen) PROVE i \in Listed /\ (i \in Firm => i \notin Ahead')
    BY <1>12 DEF ToSet
  <2>2. i \in ToSet(pages.seen) \/ i \in ToSet(w)
    BY <2>1, <1>10, <1>11 DEF ContinuesPage
  <2>3. CASE i \in ToSet(pages.seen)
    BY <2>3, <1>14 DEF PagesInv, ToSet
  <2>4. CASE i \in ToSet(w)
    BY <2>4, <1>4, <1>15 DEF ToSet
  <2> QED
    BY <2>2, <2>3, <2>4
<1>18. \A m, n \in DOMAIN pages'.seen : pages'.seen[m] = pages'.seen[n] /\ pages'.seen[m] \in Firm' => m = n
  <2>1. PICK q : q = pages.seen \o w
    OBVIOUS
  <2>2. \A m, n \in DOMAIN q : q[m] = q[n] /\ q[m] \in Firm => m = n
    BY <2>1, <1>10 DEF ContinuesPage
  <2>3. pages'.seen = q /\ Firm' = Firm
    BY <2>1, <1>11, <1>12
  <2> QED
    BY <2>2, <2>3
<1>19. \A i \in pages'.owed : i \in ToSet(pages'.seen) \/ i \in Ahead'
  BY <1>10, <1>11, <1>16 DEF ContinuesPage, PagesInv
<1>20. pages'.owed \subseteq Listed'
  BY <1>11, <1>12 DEF PagesInv
<1> QED
  BY <1>11, <1>17, <1>18, <1>19, <1>20 DEF PagesInv

LEMMA ReadingKeeps ==
  ASSUME PagesInv, rows \in Seq(InvitationRows), ReadsPage
  PROVE  PagesInv'
<1>1. PICK s \in Selections :
        pages' = IF Len(s) > PageSize
                 THEN [pages EXCEPT !.seen = @ \o Front(s), !.cursor = SortKey(s[PageSize])]
                 ELSE [pages EXCEPT !.seen = @ \o s, !.at = "done"]
  BY DEF ReadsPage
<1>2. UNCHANGED rows /\ pages.at = "reads"
  BY DEF ReadsPage
<1>3. CASE Len(s) > PageSize
  BY <1>1, <1>2, <1>3, FullPage
<1>4. CASE ~(Len(s) > PageSize)
  BY <1>1, <1>2, <1>4, LastPage
<1> QED
  BY <1>3, <1>4

-----------------------------------------------------------------------------
\* The rows change between the pages.
LEMMA CommittedCallKeeps ==
  ASSUME PagesInv, rows \in Seq(InvitationRows), rows' \in Seq(InvitationRows), NEW k \in Callers, CommitsCall(k)
  PROVE  PagesInv'
<1>1. /\ DOMAIN rows \subseteq DOMAIN rows'
      /\ \A i \in DOMAIN rows : rows'[i] = rows[i]
  <2>1. PICK w : rows' = rows \/ rows' = Append(rows, w)
    BY DEF CommitsCall
  <2>2. CASE rows' = rows
    BY <2>2
  <2>3. CASE rows' = Append(rows, w)
    <3>1. Len(rows) \in Nat /\ DOMAIN rows = 1..Len(rows) /\ rows \in [1..Len(rows) -> InvitationRows]
      OBVIOUS
    <3>2. /\ DOMAIN Append(rows, w) = 1..Len(rows) + 1
          /\ \A i \in 1..Len(rows) : Append(rows, w)[i] = rows[i]
      BY <3>1
    <3> QED
      BY <2>3, <3>1, <3>2
  <2> QED
    BY <2>1, <2>2, <2>3
<1>2. Listed \subseteq Listed' /\ \A i \in Listed : SortKey(i)' = SortKey(i)
  BY <1>1 DEF Listed, SortKey, CommitsCall
<1> QED
  BY <1>2, PagesStay DEF CommitsCall, PagesInv

LEMMA BatchKeeps ==
  ASSUME PagesInv, rows \in Seq(InvitationRows), rows' \in Seq(InvitationRows),
         NEW b \in Batches, InsertsBatch(b) \/ CommitsBatch(b)
  PROVE  PagesInv'
<1>1. /\ DOMAIN rows \subseteq DOMAIN rows'
      /\ \A i \in DOMAIN rows : /\ rows'[i].by = rows[i].by /\ rows'[i].created = rows[i].created
                                 /\ rows'[i].rank = rows[i].rank /\ (rows[i].visible => rows'[i].visible)
  <2>1. CASE InsertsBatch(b)
    <3>1. PICK n \in 1..(MaxInvitations - Len(rows)), at \in Stamps :
            rows' = rows \o [m \in 1..n |-> Row("administrator", at, FALSE)]
      BY <2>1 DEF InsertsBatch
    <3>2. PICK more : rows' = rows \o more /\ more = [m \in 1..n |-> Row("administrator", at, FALSE)]
      BY <3>1
    <3>3. Len(rows) \in Nat /\ n \in Nat /\ DOMAIN rows = 1..Len(rows)
      BY InvitationsAssumption
    <3>4. more \in Seq({Row("administrator", at, FALSE)}) /\ Len(more) = n
      BY <3>2, <3>3
    <3>5. /\ DOMAIN rows' = 1..Len(rows) + n
          /\ \A i \in 1..Len(rows) : rows'[i] = rows[i]
      BY <3>2, <3>3, <3>4
    <3> QED
      BY <3>3, <3>5
  <2>2. CASE CommitsBatch(b)
    <3>1. rows' = [i \in DOMAIN rows |-> IF i \in batch[b] THEN [rows[i] EXCEPT !.visible = TRUE] ELSE rows[i]]
      BY <2>2 DEF CommitsBatch
    <3>2. \A w \in InvitationRows : LET v == [w EXCEPT !.visible = TRUE]
                                    IN v.by = w.by /\ v.created = w.created /\ v.rank = w.rank /\ v.visible
      BY DEF InvitationRows
    <3>3. \A i \in DOMAIN rows : rows[i] \in InvitationRows
      OBVIOUS
    <3> QED
      BY <3>1, <3>2, <3>3
  <2> QED
    BY <2>1, <2>2
<1>2. pages' = pages
  BY DEF InsertsBatch, CommitsBatch
<1>3. Listed \subseteq Listed' /\ \A i \in Listed : SortKey(i)' = SortKey(i)
  BY <1>1, <1>2 DEF Listed, SortKey
<1> QED
  BY <1>2, <1>3, PagesStay DEF PagesInv

LEMMA StatusKeeps ==
  ASSUME PagesInv, rows \in Seq(InvitationRows), NEW i \in DOMAIN rows, StatusChanges(i)
  PROVE  PagesInv'
<1>1. PICK rank \in 2..4 : rows' = [rows EXCEPT ![i] = [rows[i] EXCEPT !.rank = rank]]
  BY DEF StatusChanges
<1>2. pages \in Readers
  BY DEF PagesInv
<1>3. PICK owed \in SUBSET Nat : owed = IF pages.sort = "status" THEN pages.owed \ {i} ELSE pages.owed
  BY <1>2 DEF Readers
<1>4. pages' = [pages EXCEPT !.owed = owed]
  BY <1>3 DEF StatusChanges
<1>5. /\ pages' \in Readers /\ pages'.owed = owed /\ pages'.at = pages.at /\ pages'.sort = pages.sort
      /\ pages'.up = pages.up /\ pages'.cursor = pages.cursor /\ pages'.seen = pages.seen
  BY <1>2, <1>4 DEF Readers
<1>6. /\ DOMAIN rows' = DOMAIN rows
      /\ \A j \in DOMAIN rows : /\ rows'[j].by = rows[j].by /\ rows'[j].created = rows[j].created
                                 /\ rows'[j].visible = rows[j].visible /\ (j # i => rows'[j] = rows[j])
  <2>1. rows[i] \in InvitationRows
    OBVIOUS
  <2>2. PICK w \in InvitationRows : w = rows[i]
    BY <2>1
  <2>3. LET v == [w EXCEPT !.rank = rank]
        IN v.by = w.by /\ v.created = w.created /\ v.visible = w.visible
    BY DEF InvitationRows
  <2> QED
    BY <1>1, <2>2, <2>3
<1>7. Listed \subseteq Listed'
  BY <1>6 DEF Listed
<1>8. ASSUME NEW j \in Listed, pages.sort = "created_at" \/ j \in owed PROVE SortKey(j)' = SortKey(j)
  <2>1. j \in DOMAIN rows
    BY DEF Listed
  <2>2. CASE pages.sort = "created_at"
    BY <2>1, <2>2, <1>5, <1>6 DEF SortKey
  <2>3. CASE pages.sort # "created_at"
    <3>1. pages.sort = "status"
      BY <2>3, <1>2 DEF Readers
    <3>2. j # i
      BY <3>1, <1>3, <1>8
    <3> QED
      BY <3>2, <2>1, <1>5, <1>6 DEF SortKey
  <2> QED
    BY <2>2, <2>3
<1>9. owed \subseteq pages.owed
  BY <1>3
<1> QED
  BY <1>5, <1>7, <1>8, <1>9, PagesStay

LEMMA PagesTell ==
  ASSUME PagesInv
  PROVE  PagesListEachOnce
<1>1. ASSUME NEW i \in pages.owed PROVE Cardinality({n \in DOMAIN pages.seen : pages.seen[n] = i}) <= 1
  <2> DEFINE places == {n \in DOMAIN pages.seen : pages.seen[n] = i}
  <2>1. i \in Firm
    BY <1>1 DEF Firm, PagesInv
  <2>2. \A m, n \in places : m = n
    BY <2>1 DEF PagesInv
  <2>3. places = {} \/ \E n : places = {n}
    BY <2>2
  <2>4. Cardinality(places) = 0 \/ Cardinality(places) = 1
    BY <2>3, FS_EmptySet, FS_Singleton
  <2> QED
    BY <2>4
<1>2. pages.at = "done" => \A i \in pages.owed : i \in ToSet(pages.seen)
  BY DEF PagesInv
<1>3. pages.sort = "created_at" => IsInjective(pages.seen)
  BY DEF PagesInv, Firm, IsInjective
<1> QED
  BY <1>1, <1>2, <1>3 DEF PagesListEachOnce

LEMMA PagesBegin == InvitationsInit => PagesInv
<1>1. SUFFICES ASSUME InvitationsInit PROVE PagesInv
  OBVIOUS
<1>2. pages = [at |-> "idle", sort |-> "created_at", up |-> FALSE, cursor |-> <<>>, seen |-> <<>>, owed |-> {}]
  BY <1>1 DEF InvitationsInit, NoPages
<1>3. pages \in Readers
  BY <1>2 DEF Readers
<1>4. DOMAIN pages.seen = {} /\ pages.owed = {}
  BY <1>2
<1> QED
  BY <1>3, <1>4 DEF PagesInv

LEMMA PagesKept == QuotaInv /\ QuotaInv' /\ PagesInv /\ [InvitationsNext]_invitationVars => PagesInv'
<1>1. SUFFICES ASSUME QuotaInv, QuotaInv', PagesInv, [InvitationsNext]_invitationVars PROVE PagesInv'
  OBVIOUS
<1>2. rows \in Seq(InvitationRows) /\ rows' \in Seq(InvitationRows)
  BY <1>1 DEF QuotaInv, QuotaTypes
<1>3. ASSUME UNCHANGED <<rows, pages>> PROVE PagesInv'
  <2>1. Listed' = Listed /\ \A i : SortKey(i)' = SortKey(i)
    BY <1>3 DEF Listed, SortKey
  <2> QED
    BY <1>1, <1>2, <1>3, <2>1, PagesStay DEF PagesInv
<1>4. ASSUME NEW k \in Callers, LocksForGenerate(k) \/ LocksForAdjust(k) \/ CommitsCall(k) \/ RollsBackCall(k)
      PROVE  PagesInv'
  BY <1>1, <1>2, <1>3, <1>4, CommittedCallKeeps DEF LocksForGenerate, LocksForAdjust, RollsBackCall
<1>5. CASE QuotaNext
  BY <1>3, <1>4, <1>5 DEF QuotaNext, Blocks, Unblocks, LogsIn
<1>6. CASE PagesNext
  BY <1>1, <1>2, <1>6, BatchKeeps, StatusKeeps, OpeningKeeps, ReadingKeeps DEF PagesNext
<1>7. CASE UNCHANGED invitationVars
  BY <1>3, <1>7 DEF invitationVars
<1> QED
  BY <1>1, <1>5, <1>6, <1>7 DEF InvitationsNext

\* The pages of ListAdministrator: who follows them sees every invitation that was there when it began, and whose place in the
\* order stays, once, whatever is created, revoked or redeemed between two pages.
THEOREM PagesAlwaysComplete == InvitationsSpec => []PagesListEachOnce
<1>1. PagesInv => PagesListEachOnce
  BY PagesTell
<1> QED
  BY <1>1, QuotaBegins, QuotaKept, PagesBegin, PagesKept, PTL DEF InvitationsSpec

-----------------------------------------------------------------------------
(***************************************************************************)
(* The mirror of the releases (ReleaseMirror).  An immutable object is     *)
(* never changed, so a release that was whole stays whole; a publication   *)
(* has put or verified what comes before its step; and what may become the *)
(* pointer or the state again (the prior ones) was whole when it was read. *)
(***************************************************************************)
Editions == [AssetNames -> Nat \ {0}]
ObjectNames == AssetNames \cup {"manifest"}
Manifests == [tag : Nat, exe : Nat]
MirrorStates == [tag : Nat, exe : Nat, etag : Nat]
Steps == {"idle", "exe", "sum", "log", "manifest", "prior", "put", "readback", "restore", "done", "failed"}
Publications == [at : Steps, tag : Nat, assets : Editions, prior : Manifests]
Runs == [at : {"idle", "discover", "exe", "sum", "log", "validate", "publish", "save"}, dry : BOOLEAN,
         prior : MirrorStates, tag : Nat, assets : Editions, etag : Nat, fetched : SUBSET Nat]

MirrorTypes ==
  /\ github \in [latest : Tags, assets : [Tags -> Editions], version : Nat]
  /\ objects \in [Tags -> [ObjectNames -> Nat]]
  /\ pointer \in Manifests /\ served \in Manifests /\ partial \in Manifests /\ state \in MirrorStates
  /\ publisher \in [Publishers -> Publications] /\ mirror \in Runs

\* Everything of the release that m names is there.
Stored(m) ==
  m = Nothing \/ /\ m.tag \in Tags /\ m.exe # Missing
                 /\ objects[m.tag]["exe"] = m.exe /\ objects[m.tag]["sum"] = m.exe
                 /\ objects[m.tag]["manifest"] = m.exe /\ objects[m.tag]["log"] # Missing

Of(s) == [tag |-> s.tag, exe |-> s.exe]

\* The objects of which a publication has made sure before a step.
Sure(at) ==
  CASE at = "sum" -> {"exe"}
    [] at = "log" -> {"exe", "sum"}
    [] at = "manifest" -> AssetNames
    [] at \in {"prior", "put", "readback", "done"} -> ObjectNames
    [] OTHER -> {}

Object(w, name) == w.assets[IF name = "manifest" THEN "exe" ELSE name]

PublicationInv(w) ==
  /\ Stored(w.prior)
  /\ w.at # "idle" => w.tag \in Tags /\ w.assets["exe"] = w.assets["sum"]
  /\ w.at # "idle" => \A name \in Sure(w.at) : objects[w.tag][name] = Object(w, name)

RunInv(m) ==
  /\ Stored(Of(m.prior))
  /\ m.at \in {"exe", "sum", "log", "validate", "publish"} => m.tag \in Tags
  /\ m.at = "save" => Stored([tag |-> m.tag, exe |-> m.assets["exe"]])

\* The mirror's publication is of what it has fetched.
SameRelease ==
  mirror.at = "publish" /\ publisher["mirror"].at # "idle" =>
    publisher["mirror"].tag = mirror.tag /\ publisher["mirror"].assets = mirror.assets

MirrorInv ==
  /\ MirrorTypes
  /\ Stored(pointer) /\ Stored(served) /\ Stored(Of(state))
  /\ \A p \in Publishers : PublicationInv(publisher[p])
  /\ RunInv(mirror) /\ SameRelease

\* An immutable object that exists stays.
ObjectsStay ==
  /\ objects' \in [Tags -> [ObjectNames -> Nat]]
  /\ \A t \in Tags, name \in ObjectNames : objects[t][name] # Missing => objects'[t][name] = objects[t][name]

LEMMA WholeStays ==
  ASSUME MirrorTypes, ObjectsStay
  PROVE  \A m \in Manifests : Stored(m) => Stored(m)'
BY DEF MirrorTypes, ObjectsStay, Stored, ObjectNames, AssetNames, Nothing, Missing, Manifests

LEMMA ObjectsAreEditions ==
  \A w \in Publications, name \in ObjectNames : Object(w, name) \in Nat \ {0}
BY DEF Publications, Object, ObjectNames, AssetNames, Editions

LEMMA PublicationStays ==
  ASSUME MirrorTypes, ObjectsStay
  PROVE  \A w \in Publications : PublicationInv(w) => PublicationInv(w)'
<1>1. SUFFICES ASSUME NEW w \in Publications, PublicationInv(w) PROVE PublicationInv(w)'
  OBVIOUS
<1>2. w.prior \in Manifests /\ Sure(w.at) \subseteq ObjectNames
  BY DEF Publications, Sure, ObjectNames, AssetNames
<1>3. Stored(w.prior)'
  BY <1>1, <1>2, WholeStays DEF PublicationInv
<1>4. ASSUME w.at # "idle", NEW name \in Sure(w.at) PROVE objects'[w.tag][name] = Object(w, name)
  BY <1>1, <1>2, <1>4, ObjectsAreEditions DEF PublicationInv, ObjectsStay, Missing
<1> QED
  BY <1>1, <1>3, <1>4 DEF PublicationInv, Sure, Object, ObjectNames

LEMMA RunStays ==
  ASSUME MirrorTypes, ObjectsStay
  PROVE  \A m \in Runs : RunInv(m) => RunInv(m)'
<1>1. SUFFICES ASSUME NEW m \in Runs, RunInv(m) PROVE RunInv(m)'
  OBVIOUS
<1>2. Of(m.prior) \in Manifests /\ [tag |-> m.tag, exe |-> m.assets["exe"]] \in Manifests
  BY DEF Runs, MirrorStates, Manifests, Of, Editions, AssetNames
<1> QED
  BY <1>1, <1>2, WholeStays DEF RunInv, Of

LEMMA PublisherMoves ==
  ASSUME MirrorInv, NEW p \in Publishers, NEW w \in Publications, publisher' = [publisher EXCEPT ![p] = w],
         ObjectsStay, pointer' \in Manifests, Stored(pointer)', PublicationInv(w)',
         w.at # "idle" => /\ publisher[p].at # "idle"
                          /\ w.tag = publisher[p].tag /\ w.assets = publisher[p].assets,
         UNCHANGED <<github, mirror, partial, state, served>>
  PROVE  MirrorInv'
<1>1. publisher' \in [Publishers -> Publications] /\ publisher'[p] = w
      /\ \A q \in Publishers \ {p} : publisher'[q] = publisher[q]
  BY DEF MirrorInv, MirrorTypes
<1>2. MirrorTypes'
  BY <1>1 DEF MirrorInv, MirrorTypes, ObjectsStay
<1>3. served \in Manifests /\ Of(state) \in Manifests /\ mirror \in Runs
  BY DEF MirrorInv, MirrorTypes, Of, Manifests, MirrorStates
<1>4. Stored(served)' /\ Stored(Of(state))'
  BY <1>3, WholeStays DEF MirrorInv, Of
<1>5. RunInv(mirror)'
  BY <1>3, RunStays DEF MirrorInv
<1>6. ASSUME NEW q \in Publishers PROVE PublicationInv(publisher[q])'
  <2>1. CASE q = p
    BY <1>1, <2>1 DEF PublicationInv, Stored, Object
  <2>2. CASE q # p
    <3>1. PICK v \in Publications : v = publisher[q] /\ PublicationInv(v)
      BY DEF MirrorInv, MirrorTypes
    <3>2. PublicationInv(v)' /\ publisher'[q] = v
      BY <1>1, <2>2, <3>1, PublicationStays DEF MirrorInv
    <3> QED
      BY <3>2 DEF PublicationInv, Stored, Object
  <2> QED
    BY <2>1, <2>2
<1>7. SameRelease'
  BY <1>1 DEF MirrorInv, SameRelease, Publishers
<1> QED
  BY <1>2, <1>4, <1>5, <1>6, <1>7 DEF MirrorInv

LEMMA NoPublicationType ==
  NoPublication \in Publications /\ NoPublication.at = "idle" /\ PublicationInv(NoPublication)
BY DEF NoPublication, Publications, Steps, FirstEdition, Editions, AssetNames, Nothing, Manifests, Missing,
       PublicationInv, Stored

LEMMA PublicationGoes ==
  ASSUME NEW w \in Publications, NEW at \in Steps
  PROVE  /\ [w EXCEPT !.at = at] \in Publications
         /\ [w EXCEPT !.at = at].at = at /\ [w EXCEPT !.at = at].tag = w.tag
         /\ [w EXCEPT !.at = at].assets = w.assets /\ [w EXCEPT !.at = at].prior = w.prior
BY DEF Publications

\* A publication takes a step, with what it must be sure of for the next one.
LEMMA PublisherGoes ==
  ASSUME MirrorInv, NEW p \in Publishers, NEW at \in Steps \ {"idle"}, publisher[p].at # "idle", Goes(p, at),
         ObjectsStay, pointer' \in Manifests, Stored(pointer)',
         \A name \in Sure(at) : objects'[publisher[p].tag][name] = Intended(p, name),
         UNCHANGED <<github, mirror, partial, state, served>>
  PROVE  MirrorInv'
<1>1. PICK v \in Publications : v = publisher[p] /\ PublicationInv(v)' /\ v.at # "idle"
  BY PublicationStays DEF MirrorInv, MirrorTypes
<1>2. CASE publisher' = [publisher EXCEPT ![p] = NoPublication]
  <2>1. PublicationInv(NoPublication)'
    BY DEF NoPublication, PublicationInv, Stored
  <2> QED
    BY <1>2, <2>1, PublisherMoves, NoPublicationType
<1>3. CASE publisher' = [publisher EXCEPT ![p].at = at]
  <2>1. PICK w \in Publications :
          w = [v EXCEPT !.at = at] /\ w.at = at /\ w.tag = v.tag /\ w.assets = v.assets /\ w.prior = v.prior
    BY PublicationGoes
  <2>2. publisher' = [publisher EXCEPT ![p] = w]
    BY <1>1, <1>3, <2>1 DEF MirrorInv, MirrorTypes
  <2>3. \A name \in Sure(w.at) : objects'[w.tag][name] = Object(w, name)
    BY <1>1, <2>1 DEF Intended, Object
  <2>4. PublicationInv(w)'
    BY <1>1, <2>1, <2>3 DEF PublicationInv, Stored, Sure, Object
  <2> QED
    BY <1>1, <2>1, <2>2, <2>4, PublisherMoves
<1> QED
  BY <1>2, <1>3 DEF Goes

LEMMA ObjectIsPublished ==
  ASSUME MirrorTypes, NEW p \in Publishers, NEW name \in ObjectNames, publisher[p].tag \in Tags,
         \/ UNCHANGED objects
         \/ /\ objects[publisher[p].tag][name] = Missing
            /\ objects' = [objects EXCEPT ![publisher[p].tag][name] = Intended(p, name)]
  PROVE  ObjectsStay
<1> DEFINE tag == publisher[p].tag
<1>1. PICK e \in Nat : e = Intended(p, name)
  BY DEF MirrorTypes, Intended, Publications, Editions, ObjectNames, AssetNames
<1>2. PICK o \in [ObjectNames -> Nat] : o = [objects[tag] EXCEPT ![name] = e]
  BY <1>1 DEF MirrorTypes
<1>3. UNCHANGED objects \/ (objects[tag][name] = Missing /\ objects' = [objects EXCEPT ![tag] = o])
  BY <1>1, <1>2 DEF MirrorTypes
<1> HIDE DEF tag
<1>4. /\ tag \in Tags /\ objects \in [Tags -> [ObjectNames -> Nat]]
      /\ \A n \in ObjectNames \ {name} : o[n] = objects[tag][n]
  BY <1>2 DEF MirrorTypes, tag
<1> QED
  BY <1>2, <1>3, <1>4 DEF ObjectsStay

LEMMA ObjectSteps ==
  ASSUME MirrorInv, NEW p \in Publishers, PublishObject(p) \/ PublishObjectFails(p)
  PROVE  MirrorInv'
<1> DEFINE name == publisher[p].at
           tag == publisher[p].tag
<1>1. /\ name \in ObjectNames /\ name # "idle" /\ tag \in Tags
      /\ PublicationInv(publisher[p]) /\ publisher[p] \in Publications /\ MirrorTypes
  BY DEF MirrorInv, MirrorTypes, PublicationInv, PublishObject, PublishObjectFails, ObjectNames, AssetNames
<1>2. ObjectsStay
  BY <1>1, ObjectIsPublished DEF PublishObject, PublishObjectFails
<1>3. pointer' \in Manifests /\ Stored(pointer)' /\ UNCHANGED <<github, mirror, partial, state, served>>
  BY <1>1, <1>2, WholeStays DEF MirrorInv, MirrorTypes, PublishObject, PublishObjectFails
<1>4. ASSUME Goes(p, "failed") PROVE MirrorInv'
  BY <1>1, <1>2, <1>3, <1>4, PublisherGoes DEF Sure, Steps
<1>5. ASSUME PublishObject(p), ~Goes(p, "failed") PROVE MirrorInv'
  <2>1. /\ Goes(p, Following(name))
        /\ objects[tag][name] = Missing \/ objects[tag][name] = Intended(p, name)
        /\ objects' = IF objects[tag][name] = Missing THEN [objects EXCEPT ![tag][name] = Intended(p, name)]
                      ELSE objects
    BY <1>5 DEF PublishObject, SameObject
  <2>2. objects'[tag][name] = Intended(p, name)
    BY <1>1, <2>1 DEF MirrorTypes
  <2>3. \A n \in Sure(name) : objects'[tag][n] = Intended(p, n)
    BY <1>1, <1>2, PublicationStays DEF PublicationInv, Object, Intended
  <2>4. Following(name) \in Steps \ {"idle"} /\ Sure(Following(name)) \subseteq Sure(name) \cup {name}
    BY <1>1 DEF Following, Steps, Sure, ObjectNames, AssetNames
  <2> QED
    BY <1>1, <1>2, <1>3, <2>1, <2>2, <2>3, <2>4, PublisherGoes
<1> QED
  BY <1>4, <1>5 DEF PublishObjectFails

LEMMA ManifestIsWhole ==
  ASSUME MirrorInv, NEW p \in Publishers, publisher[p].at \in {"prior", "put", "readback", "done"}
  PROVE  /\ Manifest(p) \in Manifests /\ Stored(Manifest(p))
         /\ publisher[p].prior \in Manifests /\ Stored(publisher[p].prior)
         /\ \A name \in ObjectNames : objects[publisher[p].tag][name] = Intended(p, name)
<1>1. publisher[p] \in Publications /\ PublicationInv(publisher[p]) /\ publisher[p].tag \in Tags
      /\ publisher[p].assets["exe"] = publisher[p].assets["sum"]
  BY DEF MirrorInv, MirrorTypes, PublicationInv
<1>2. \A name \in ObjectNames : objects[publisher[p].tag][name] = Intended(p, name)
  BY <1>1 DEF PublicationInv, Sure, Object, Intended
<1>3. \A name \in ObjectNames : Intended(p, name) # Missing
  BY <1>1 DEF Intended, Publications, Editions, ObjectNames, AssetNames, Missing
<1>4. /\ Intended(p, "exe") = publisher[p].assets["exe"] /\ Intended(p, "sum") = publisher[p].assets["exe"]
      /\ Intended(p, "manifest") = publisher[p].assets["exe"]
      /\ {"exe", "sum", "manifest", "log"} \subseteq ObjectNames
  BY <1>1 DEF Intended, ObjectNames, AssetNames
<1>5. /\ Manifest(p).tag = publisher[p].tag /\ Manifest(p).exe = publisher[p].assets["exe"]
      /\ Manifest(p) \in Manifests
  BY <1>1 DEF Manifest, Manifests, Publications, Editions, AssetNames
<1>6. Stored(Manifest(p))
  BY <1>1, <1>2, <1>3, <1>4, <1>5 DEF Stored
<1> QED
  BY <1>1, <1>2, <1>5, <1>6 DEF Publications, PublicationInv

\* What the pointer may become is whole, and the objects are not touched.
LEMMA PointerSteps ==
  ASSUME MirrorInv, NEW p \in Publishers,
         \/ ReadPriorPointer(p) \/ ReadPriorPointerFails(p) \/ PutPointer(p) \/ PutPointerFails(p)
         \/ ReadBack(p) \/ ReadBackFails(p) \/ RestorePriorPointer(p) \/ RestorePriorPointerFails(p)
  PROVE  MirrorInv'
<1>1. /\ UNCHANGED <<objects, github, mirror, partial, state, served>>
      /\ publisher[p].at \in {"prior", "put", "readback", "restore"}
  BY DEF ReadPriorPointer, ReadPriorPointerFails, PutPointer, PutPointerFails, ReadBack, ReadBackFails,
         RestorePriorPointer, RestorePriorPointerFails
<1>2. /\ ObjectsStay /\ publisher[p] \in Publications /\ pointer \in Manifests /\ Stored(pointer)
      /\ publisher[p].prior \in Manifests /\ Stored(publisher[p].prior)
  BY <1>1 DEF MirrorInv, MirrorTypes, ObjectsStay, Publications, PublicationInv
<1>3. pointer' \in Manifests /\ Stored(pointer)'
  <2>1. PICK m \in Manifests : m = pointer' /\ Stored(m)
    <3>1. CASE PutPointer(p) \/ PutPointerFails(p)
      BY <1>2, <3>1, ManifestIsWhole DEF PutPointer, PutPointerFails
    <3>2. CASE ~(PutPointer(p) \/ PutPointerFails(p))
      BY <1>2, <3>2 DEF ReadPriorPointer, ReadPriorPointerFails, ReadBack, ReadBackFails,
                   RestorePriorPointer, RestorePriorPointerFails
    <3> QED
      BY <3>1, <3>2
  <2> QED
    BY <1>1, <2>1 DEF Stored
<1>4. ASSUME NEW at \in Steps \ {"idle"}, Goes(p, at),
             Sure(at) = {} \/ publisher[p].at \in {"prior", "put", "readback"}
      PROVE  MirrorInv'
  <2>1. \A name \in Sure(at) : objects'[publisher[p].tag][name] = Intended(p, name)
    <3>1. CASE Sure(at) = {}
      BY <3>1
    <3>2. CASE publisher[p].at \in {"prior", "put", "readback"}
      <4>1. Sure(at) \subseteq ObjectNames
        BY DEF Sure, ObjectNames, AssetNames
      <4>2. \A name \in ObjectNames : objects[publisher[p].tag][name] = Intended(p, name)
        BY <3>2, ManifestIsWhole
      <4> QED
        BY <1>1, <4>1, <4>2
    <3> QED
      BY <1>4, <3>1, <3>2
  <2> QED
    BY <1>1, <1>2, <1>3, <1>4, <2>1, PublisherGoes
<1>5. \A at \in {"failed", "restore", Recovery(p)} : Sure(at) = {} /\ at \in Steps \ {"idle"}
  BY DEF Recovery, Sure, Steps
<1>6. {"done", "readback"} \subseteq Steps \ {"idle"}
  BY DEF Steps
<1>7. CASE ReadPriorPointer(p)
  <2>1. CASE pointer.tag < publisher[p].tag
    <3> DEFINE w == [publisher[p] EXCEPT !.at = "put", !.prior = pointer]
    <3>1. /\ w \in Publications /\ w.at = "put" /\ w.tag = publisher[p].tag
          /\ w.assets = publisher[p].assets /\ w.prior = pointer
      BY <1>2 DEF Publications, Steps
    <3>2. publisher' = [publisher EXCEPT ![p] = w]
      BY <1>7, <2>1 DEF ReadPriorPointer
    <3> HIDE DEF w
    <3>3. PICK v \in Publications : v = w
      BY <3>1
    <3>4. \A name \in Sure(v.at) : objects'[v.tag][name] = Object(v, name)
      BY <1>1, <1>7, <3>1, <3>3, ManifestIsWhole DEF ReadPriorPointer, Sure, Object, Intended
    <3>5. PublicationInv(v)'
      BY <1>1, <1>2, <1>7, <3>1, <3>3, <3>4 DEF PublicationInv, Stored, Sure, Object, MirrorInv
    <3> QED
      BY <1>1, <1>2, <1>3, <3>1, <3>2, <3>3, <3>5, PublisherMoves
  <2>2. CASE ~(pointer.tag < publisher[p].tag)
    BY <1>4, <1>6, <1>7, <2>2 DEF ReadPriorPointer
  <2> QED
    BY <2>1, <2>2
<1>8. CASE PutPointer(p)
  BY <1>4, <1>6, <1>8 DEF PutPointer
<1>9. CASE ReadBack(p)
  BY <1>4, <1>5, <1>6, <1>9 DEF ReadBack
<1>10. CASE ~(ReadPriorPointer(p) \/ PutPointer(p) \/ ReadBack(p))
  BY <1>4, <1>5, <1>10 DEF ReadPriorPointerFails, PutPointerFails, ReadBackFails, RestorePriorPointer,
                           RestorePriorPointerFails
<1> QED
  BY <1>7, <1>8, <1>9, <1>10

\* Nothing is done at the store.
LEMMA MirrorMoves ==
  ASSUME MirrorInv, UNCHANGED <<objects, pointer>>, served' \in {served, pointer}, partial' \in Manifests,
         github' \in [latest : Tags, assets : [Tags -> Editions], version : Nat],
         state' \in MirrorStates, Stored(Of(state))', mirror' \in Runs, RunInv(mirror)',
         publisher' \in [Publishers -> Publications],
         \A p \in Publishers : publisher'[p] = publisher[p] \/ PublicationInv(publisher[p])',
         SameRelease'
  PROVE  MirrorInv'
<1>1. MirrorTypes' /\ Stored(pointer)' /\ Stored(served)'
  BY DEF MirrorInv, MirrorTypes, Stored
<1>2. \A p \in Publishers : PublicationInv(publisher[p])'
  <2>1. SUFFICES ASSUME NEW p \in Publishers, publisher'[p] = publisher[p] PROVE PublicationInv(publisher[p])'
    OBVIOUS
  <2>2. PICK v \in Publications : v = publisher[p] /\ PublicationInv(v)
    BY DEF MirrorInv, MirrorTypes
  <2>3. PublicationInv(v)'
    BY <2>2 DEF PublicationInv, Stored
  <2> QED
    BY <2>1, <2>2, <2>3 DEF PublicationInv, Stored, Object
<1> QED
  BY <1>1, <1>2 DEF MirrorInv

\* A run of the mirror, with the run m that follows; nothing else becomes what is served.
LEMMA RunMoves ==
  ASSUME MirrorInv, UNCHANGED <<objects, pointer, served, github, publisher>>, partial' \in Manifests,
         state' \in MirrorStates, Stored(Of(state))', mirror' \in Runs, RunInv(mirror)', mirror'.at # "publish"
  PROVE  MirrorInv'
<1>1. SameRelease'
  BY DEF SameRelease
<1> QED
  BY <1>1, MirrorMoves DEF MirrorInv, MirrorTypes

LEMMA GitHubSteps ==
  ASSUME MirrorInv, NewRelease \/ \E name \in AssetNames : UploadAgain(name)
  PROVE  MirrorInv'
<1>1. github' \in [latest : Tags, assets : [Tags -> Editions], version : Nat]
  <2> DEFINE Types == [latest : Tags, assets : [Tags -> Editions], version : Nat]
  <2>1. github \in Types
    BY DEF MirrorInv, MirrorTypes
  <2>2. \A g \in Types : [g EXCEPT !.version = @ + 1] \in Types
    OBVIOUS
  <2>3. CASE NewRelease
    <3>1. [github EXCEPT !.latest = @ + 1] \in Types
      BY <2>1, <2>3, ReleaseAssumption DEF NewRelease, Tags
    <3> QED
      BY <2>2, <2>3, <3>1 DEF NewRelease, Change
  <2>4. CASE \E name \in AssetNames : UploadAgain(name)
    <3>1. PICK name \in AssetNames : UploadAgain(name)
      BY <2>4
    <3>2. PICK e \in Editions : e = [github.assets[github.latest] EXCEPT ![name] = @ + 1]
      <4>1. PICK f \in Editions : f = github.assets[github.latest]
        BY <2>1
      <4>2. [f EXCEPT ![name] = f[name] + 1] \in Editions
        BY DEF Editions
      <4> QED
        BY <4>1, <4>2
    <3>3. PICK a \in [Tags -> Editions] : a = [github.assets EXCEPT ![github.latest] = e]
      BY <2>1, <3>2
    <3>4. [github EXCEPT !.assets = a] \in Types
      BY <2>1
    <3> QED
      BY <2>2, <3>1, <3>2, <3>3, <3>4 DEF UploadAgain, Change
  <2> QED
    BY <2>3, <2>4
<1>2. UNCHANGED <<objects, pointer, publisher, mirror, partial, state, served>>
  BY DEF NewRelease, UploadAgain, Change
<1>3. Stored(Of(state))' /\ RunInv(mirror)' /\ SameRelease'
  BY <1>2 DEF MirrorInv, Stored, Of, RunInv, SameRelease
<1> QED
  BY <1>1, <1>2, <1>3, MirrorMoves DEF MirrorInv, MirrorTypes

LEMMA NoRunType ==
  NoRun \in Runs /\ NoRun.at = "idle" /\ RunInv(NoRun) /\ (mirror' = NoRun => RunInv(mirror)')
<1>1. NoRun \in Runs /\ NoRun.at = "idle" /\ Of(NoRun.prior) = Nothing
  BY DEF NoRun, Runs, FirstEdition, Editions, AssetNames, NoState, MirrorStates, Missing, Of, Nothing
<1>2. RunInv(NoRun)
  BY <1>1 DEF RunInv, Stored
<1>3. ASSUME mirror' = NoRun PROVE RunInv(mirror)'
  <2>1. Of(mirror'.prior) = Nothing
    BY <1>1, <1>3
  <2> QED
    BY <1>1, <1>3, <2>1 DEF RunInv, Stored, Of
<1> QED
  BY <1>1, <1>2, <1>3

LEMMA OperatorStarts ==
  ASSUME MirrorInv, NEW tag \in Tags, OperatorPublishes(tag)
  PROVE  MirrorInv'
<1> DEFINE assets == github.assets[tag]
<1>1. /\ assets \in Editions /\ assets["exe"] = assets["sum"] /\ tag \in Nat
      /\ UNCHANGED <<github, objects, pointer, mirror, partial, state, served>>
      /\ publisher["operator"].at = "idle" /\ "operator" \in Publishers
  <2>1. assets \in Editions /\ github.assets[tag].exe = github.assets[tag].sum
    BY DEF MirrorInv, MirrorTypes, OperatorPublishes
  <2>2. assets["exe"] = assets["sum"]
    BY <2>1
  <2> QED
    BY <2>1, <2>2 DEF OperatorPublishes, Tags, Publishers
<1> HIDE DEF assets
<1>2. PICK w : w = [NoPublication EXCEPT !.at = "exe", !.tag = tag, !.assets = assets]
  OBVIOUS
<1>3. w \in Publications /\ w.at = "exe" /\ w.tag = tag /\ w.assets = assets /\ w.prior = Nothing
  BY <1>1, <1>2 DEF NoPublication, Publications, Steps, Nothing, Missing, Manifests
<1>4. publisher' = [publisher EXCEPT !["operator"] = w]
  BY <1>2 DEF OperatorPublishes, Begin, assets
<1>5. PublicationInv(w)'
  BY <1>1, <1>3 DEF PublicationInv, Stored, Sure
<1>6. publisher' \in [Publishers -> Publications] /\ publisher'["operator"] = w
      /\ \A p \in Publishers \ {"operator"} : publisher'[p] = publisher[p]
  BY <1>1, <1>3, <1>4 DEF MirrorInv, MirrorTypes
<1>7. PublicationInv(publisher["operator"])'
  BY <1>5, <1>6 DEF PublicationInv, Stored, Object
<1>8. Stored(Of(state))' /\ RunInv(mirror)'
  BY <1>1 DEF MirrorInv, Stored, Of, RunInv
<1>9. SameRelease'
  BY <1>1, <1>6 DEF MirrorInv, SameRelease, Publishers
<1>10. \A p \in Publishers : publisher'[p] = publisher[p] \/ PublicationInv(publisher[p])'
  BY <1>6, <1>7
<1> QED
  BY <1>1, <1>6, <1>8, <1>9, <1>10, MirrorMoves DEF MirrorInv, MirrorTypes

LEMMA RunSteps ==
  ASSUME MirrorInv,
         \/ \E dry \in BOOLEAN : MirrorStarts(dry)
         \/ Discover \/ DiscoverFails \/ Fetch \/ FetchFails \/ SaveState
  PROVE  MirrorInv'
<1>1. /\ mirror \in Runs /\ state \in MirrorStates /\ Stored(Of(state)) /\ partial \in Manifests
      /\ github \in [latest : Tags, assets : [Tags -> Editions], version : Nat] /\ RunInv(mirror)
      /\ UNCHANGED <<objects, pointer, served, github, publisher>>
  BY DEF MirrorInv, MirrorTypes, MirrorStarts, Discover, DiscoverFails, Fetch, FetchFails, SaveState
<1>2. partial' \in Manifests
  <2>1. NoPart \in Manifests
    BY DEF NoPart, Manifests, Missing
  <2>2. Part \in Manifests
    BY <1>1 DEF Part, Manifests, Runs, Editions, AssetNames
  <2> QED
    BY <1>1, <2>1, <2>2 DEF MirrorStarts, Discover, DiscoverFails, Fetch, FetchFails, SaveState
<1>3. state' \in MirrorStates /\ Stored(Of(state))'
  <2>1. CASE UNCHANGED state
    BY <1>1, <2>1 DEF Stored, Of
  <2>2. CASE SaveState /\ state' = NewState
    <3>1. NewState \in MirrorStates /\ Of(NewState) = [tag |-> mirror.tag, exe |-> mirror.assets["exe"]]
      BY <1>1 DEF NewState, MirrorStates, Runs, Editions, AssetNames, Of
    <3>2. Stored([tag |-> mirror.tag, exe |-> mirror.assets["exe"]])
      BY <1>1, <2>2 DEF SaveState, RunInv
    <3> QED
      BY <1>1, <2>2, <3>1, <3>2 DEF Stored, Of
  <2> QED
    BY <2>1, <2>2 DEF MirrorStarts, Discover, DiscoverFails, Fetch, FetchFails, SaveState
<1> DEFINE Follows == \E m \in Runs : mirror' = m /\ RunInv(m) /\ m.at # "publish"
<1>4. Follows
  <2>1. CASE mirror' = NoRun
    BY <2>1, NoRunType
  <2>2. ASSUME NEW dry \in BOOLEAN, MirrorStarts(dry) PROVE Follows
    <3>1. CASE mirror' = [NoRun EXCEPT !.at = "discover", !.dry = dry, !.prior = state]
      <4>1. PICK m : m = [NoRun EXCEPT !.at = "discover", !.dry = dry, !.prior = state]
        OBVIOUS
      <4>2. m \in Runs /\ m.at = "discover" /\ m.prior = state
        BY <1>1, <4>1, NoRunType DEF Runs
      <4> QED
        BY <1>1, <3>1, <4>1, <4>2 DEF RunInv
    <3>2. CASE mirror' = [NoRun EXCEPT !.at = "discover", !.dry = dry]
      <4>1. PICK m : m = [NoRun EXCEPT !.at = "discover", !.dry = dry]
        OBVIOUS
      <4>2. m \in Runs /\ m.at = "discover" /\ m.prior = NoRun.prior
        BY <4>1, NoRunType DEF Runs
      <4> QED
        BY <3>2, <4>1, <4>2, NoRunType DEF RunInv
    <3> QED
      BY <2>2, <3>1, <3>2 DEF MirrorStarts
  <2>3. ASSUME Discover, mirror' # NoRun PROVE Follows
    <3>1. PICK m : m = Candidate
      OBVIOUS
    <3>2. /\ m \in Runs /\ m.at = "exe" /\ m.tag = github.latest /\ m.tag \in Tags /\ m.prior = mirror.prior
          /\ m.assets = github.assets[github.latest]
      <4>1. PICK t \in Tags : t = github.latest /\ t \in Nat
        BY <1>1 DEF Tags
      <4>2. PICK e \in Editions : e = github.assets[github.latest]
        BY <1>1, <4>1
      <4>3. PICK v \in Nat : v = github.version
        BY <1>1
      <4>4. m = [mirror EXCEPT !.tag = t, !.assets = e, !.etag = v, !.at = "exe"]
        BY <3>1, <4>1, <4>2, <4>3 DEF Candidate
      <4>5. m \in Runs /\ m.at = "exe" /\ m.tag = t /\ m.prior = mirror.prior /\ m.assets = e
        BY <1>1, <4>1, <4>4 DEF Runs
      <4> QED
        BY <4>1, <4>2, <4>5
    <3>3. CASE mirror' = m
      BY <1>1, <3>2, <3>3 DEF RunInv
    <3>4. CASE mirror' = [m EXCEPT !.at = "save"] /\ Known(mirror.prior, github)
      <4>1. PICK n \in Runs : /\ n = [m EXCEPT !.at = "save"] /\ n.at = "save" /\ n.tag = m.tag
                              /\ n.assets = m.assets /\ n.prior = m.prior
        <5>1. /\ [m EXCEPT !.at = "save"] \in Runs /\ [m EXCEPT !.at = "save"].at = "save"
              /\ [m EXCEPT !.at = "save"].tag = m.tag /\ [m EXCEPT !.at = "save"].assets = m.assets
              /\ [m EXCEPT !.at = "save"].prior = m.prior
          BY <3>2 DEF Runs
        <5> QED
          BY <5>1
      <4>2. Of(mirror.prior) = [tag |-> n.tag, exe |-> n.assets["exe"]]
        BY <3>2, <3>4, <4>1 DEF Known, Of
      <4> QED
        BY <1>1, <3>4, <4>1, <4>2, <3>2 DEF RunInv
    <3> QED
      BY <2>3, <3>1, <3>3, <3>4 DEF Discover
  <2>4. ASSUME Fetch PROVE Follows
    <3>1. PICK at \in {"sum", "log", "validate"}, fetched \in SUBSET Nat :
            mirror' = [mirror EXCEPT !.at = at, !.fetched = fetched]
      <4>1. AfterDownload \in {"sum", "log", "validate"}
        BY <2>4 DEF AfterDownload, Fetch, AssetNames
      <4>2. Resumed \subseteq Nat /\ mirror.fetched \subseteq Nat
        BY <1>1 DEF Resumed, Manifests, Runs, Editions, AssetNames
      <4> QED
        BY <2>4, <4>1, <4>2 DEF Fetch
    <3>2. PICK m : m = [mirror EXCEPT !.at = at, !.fetched = fetched]
      OBVIOUS
    <3>3. m \in Runs /\ m.at = at /\ m.tag = mirror.tag /\ m.prior = mirror.prior
      BY <1>1, <3>2 DEF Runs
    <3>4. mirror.tag \in Tags
      BY <1>1, <2>4 DEF Fetch, RunInv, AssetNames
    <3> QED
      BY <1>1, <3>1, <3>2, <3>3, <3>4 DEF RunInv
  <2> QED
    BY <2>1, <2>2, <2>3, <2>4 DEF DiscoverFails, FetchFails, SaveState
<1>5. mirror' \in Runs /\ RunInv(mirror)' /\ mirror'.at # "publish"
  BY <1>1, <1>4 DEF RunInv, Stored, Of
<1> QED
  BY <1>1, <1>2, <1>3, <1>5, RunMoves

LEMMA MirrorPublishes ==
  ASSUME MirrorInv, Validate
  PROVE  MirrorInv'
<1>1. /\ mirror \in Runs /\ RunInv(mirror) /\ mirror.at = "validate" /\ publisher["mirror"].at = "idle"
      /\ UNCHANGED <<github, objects, pointer, partial, state, served>> /\ "mirror" \in Publishers
  BY DEF MirrorInv, MirrorTypes, Validate, Publishers
<1>2. Stored(Of(state))' /\ state' \in MirrorStates /\ partial' \in Manifests
  BY <1>1 DEF MirrorInv, MirrorTypes, Stored, Of
<1>3. CASE UNCHANGED publisher /\ mirror' = NoRun
  <2>1. mirror' \in Runs /\ mirror'.at # "publish" /\ RunInv(mirror)'
    BY <1>3, NoRunType
  <2> QED
    BY <1>1, <1>2, <1>3, <2>1, RunMoves
<1>4. CASE Validated /\ Begin("mirror", mirror.tag, mirror.assets) /\ mirror' = [mirror EXCEPT !.at = "publish"]
  <2>1. /\ mirror.tag \in Tags /\ mirror.tag \in Nat /\ mirror.assets \in Editions
        /\ mirror.assets["exe"] = mirror.assets["sum"]
    BY <1>1, <1>4 DEF Validated, RunInv, Runs
  <2>2. PICK w : w = [NoPublication EXCEPT !.at = "exe", !.tag = mirror.tag, !.assets = mirror.assets]
    OBVIOUS
  <2>3. w \in Publications /\ w.at = "exe" /\ w.tag = mirror.tag /\ w.assets = mirror.assets /\ w.prior = Nothing
    BY <2>1, <2>2 DEF NoPublication, Publications, Steps, Nothing, Missing, Manifests
  <2>4. publisher' = [publisher EXCEPT !["mirror"] = w]
    BY <1>4, <2>2 DEF Begin
  <2>5. /\ publisher' \in [Publishers -> Publications] /\ publisher'["mirror"] = w
        /\ \A p \in Publishers \ {"mirror"} : publisher'[p] = publisher[p]
    BY <1>1, <2>3, <2>4 DEF MirrorInv, MirrorTypes
  <2>6. PublicationInv(publisher["mirror"])'
    BY <2>1, <2>3, <2>5 DEF PublicationInv, Stored, Sure
  <2>7. /\ mirror' \in Runs /\ mirror'.at = "publish" /\ mirror'.tag = mirror.tag /\ mirror'.assets = mirror.assets
        /\ mirror'.prior = mirror.prior
    BY <1>1, <1>4 DEF Runs
  <2>8. RunInv(mirror)' /\ SameRelease'
    BY <1>1, <2>1, <2>3, <2>5, <2>7 DEF RunInv, Stored, Of, SameRelease
  <2>9. \A p \in Publishers : publisher'[p] = publisher[p] \/ PublicationInv(publisher[p])'
    BY <2>5, <2>6
  <2> QED
    BY <1>1, <1>2, <2>5, <2>7, <2>8, <2>9, MirrorMoves DEF MirrorInv, MirrorTypes
<1> QED
  BY <1>3, <1>4 DEF Validate

\* The publication of p is over, or its process is.
LEMMA PublicationEnds ==
  ASSUME MirrorInv, NEW p \in Publishers, publisher' = [publisher EXCEPT ![p] = NoPublication],
         UNCHANGED <<github, objects, pointer, state, served>>, partial' \in Manifests, mirror' \in Runs, RunInv(mirror)',
         p = "mirror" \/ mirror' = mirror
  PROVE  MirrorInv'
<1>1. /\ publisher' \in [Publishers -> Publications] /\ publisher'[p] = NoPublication
      /\ \A q \in Publishers \ {p} : publisher'[q] = publisher[q]
  BY NoPublicationType DEF MirrorInv, MirrorTypes
<1>2. PublicationInv(publisher[p])'
  BY <1>1, NoPublicationType DEF PublicationInv, Stored
<1>3. \A q \in Publishers : publisher'[q] = publisher[q] \/ PublicationInv(publisher[q])'
  BY <1>1, <1>2
<1>4. SameRelease'
  BY <1>1, NoPublicationType DEF MirrorInv, SameRelease, Publishers
<1>5. Stored(Of(state))' /\ state' \in MirrorStates
  BY DEF MirrorInv, MirrorTypes, Stored, Of
<1> QED
  BY <1>1, <1>3, <1>4, <1>5, MirrorMoves DEF MirrorInv, MirrorTypes

LEMMA MirrorHasPublished ==
  ASSUME MirrorInv, Published
  PROVE  MirrorInv'
<1>1. /\ mirror \in Runs /\ RunInv(mirror) /\ mirror.at = "publish" /\ publisher["mirror"].at \in {"done", "failed"}
      /\ UNCHANGED <<github, objects, pointer, partial, state, served>> /\ "mirror" \in Publishers
      /\ publisher' = [publisher EXCEPT !["mirror"] = NoPublication] /\ partial' \in Manifests
  BY DEF MirrorInv, MirrorTypes, Published, Publishers
<1>2. CASE mirror' = NoRun
  <2>1. mirror' \in Runs /\ RunInv(mirror)'
    BY <1>2, NoRunType
  <2> QED
    BY <1>1, <2>1, PublicationEnds
<1>3. CASE publisher["mirror"].at = "done" /\ mirror' = [mirror EXCEPT !.at = "save"]
  <2>1. /\ mirror' \in Runs /\ mirror'.at = "save" /\ mirror'.tag = mirror.tag /\ mirror'.assets = mirror.assets
        /\ mirror'.prior = mirror.prior
    BY <1>1, <1>3 DEF Runs
  <2>2. Stored(Manifest("mirror")) /\ Manifest("mirror") = [tag |-> mirror.tag, exe |-> mirror.assets["exe"]]
    BY <1>1, <1>3, ManifestIsWhole DEF Manifest, MirrorInv, SameRelease
  <2>3. RunInv(mirror)'
    BY <1>1, <2>1, <2>2 DEF RunInv, Stored, Of
  <2> QED
    BY <1>1, <2>1, <2>3, PublicationEnds
<1> QED
  BY <1>2, <1>3 DEF Published

LEMMA ProcessIsKilled ==
  ASSUME MirrorInv, NEW p \in Publishers, Killed(p)
  PROVE  MirrorInv'
<1>1. /\ mirror \in Runs /\ RunInv(mirror) /\ UNCHANGED <<github, objects, pointer, state, served>>
      /\ publisher' = [publisher EXCEPT ![p] = NoPublication]
  BY DEF MirrorInv, MirrorTypes, Killed
<1>2. Part \in Manifests /\ partial \in Manifests
  BY <1>1 DEF Part, Manifests, Runs, Editions, AssetNames, MirrorInv, MirrorTypes
<1>3. partial' \in Manifests
  BY <1>2 DEF Killed
<1>4. mirror' \in Runs /\ RunInv(mirror)' /\ (p = "mirror" \/ mirror' = mirror)
  BY <1>1, NoRunType DEF Killed, RunInv, Stored, Of
<1> QED
  BY <1>1, <1>3, <1>4, PublicationEnds

\* Whatever names a release (the pointer of the channel, what the service answers with, the state of the mirror)
\* names one that is whole, for any tags, editions, failures and killed processes.
THEOREM ReleasesAlwaysComplete == MirrorSpec => []NamedReleasesAreComplete
<1>1. MirrorInit => MirrorInv
  <2>1. SUFFICES ASSUME MirrorInit PROVE MirrorInv
    OBVIOUS
  <2>2. FirstEdition \in Editions /\ Unpublished \in [ObjectNames -> Nat]
    BY DEF FirstEdition, Editions, Unpublished, ObjectNames, Missing
  <2>3. /\ pointer \in Manifests /\ served \in Manifests /\ partial \in Manifests /\ state \in MirrorStates
        /\ pointer = Nothing /\ served = Nothing /\ Of(state) = Nothing
    BY <2>1 DEF MirrorInit, Nothing, NoPart, NoState, Manifests, MirrorStates, Missing, Of
  <2>4. /\ github \in [latest : Tags, assets : [Tags -> Editions], version : Nat]
        /\ objects \in [Tags -> [ObjectNames -> Nat]]
    BY <2>1, <2>2, ReleaseAssumption DEF MirrorInit, Tags
  <2>5. publisher \in [Publishers -> Publications] /\ \A p \in Publishers : publisher[p] = NoPublication
    BY <2>1, NoPublicationType DEF MirrorInit
  <2>6. mirror \in Runs /\ RunInv(mirror) /\ mirror.at = "idle"
    BY <2>1, NoRunType DEF MirrorInit
  <2> QED
    BY <2>3, <2>4, <2>5, <2>6, NoPublicationType DEF MirrorInv, MirrorTypes, Stored, SameRelease
<1>2. MirrorInv /\ [MirrorNext]_releaseVars => MirrorInv'
  <2>1. SUFFICES ASSUME MirrorInv, [MirrorNext]_releaseVars PROVE MirrorInv'
    OBVIOUS
  <2>2. ASSUME RefreshManifest \/ UNCHANGED releaseVars PROVE MirrorInv'
    <3>1. UNCHANGED <<github, objects, pointer, publisher, mirror, partial, state>> /\ served' \in {served, pointer}
      BY <2>2 DEF RefreshManifest, releaseVars
    <3>2. Stored(Of(state))' /\ RunInv(mirror)' /\ SameRelease'
      BY <2>1, <3>1 DEF MirrorInv, Stored, Of, RunInv, SameRelease
    <3> QED
      BY <2>1, <3>1, <3>2, MirrorMoves DEF MirrorInv, MirrorTypes
  <2> QED
    BY <2>1, <2>2, GitHubSteps, OperatorStarts, ObjectSteps, PointerSteps, RunSteps, MirrorPublishes,
       MirrorHasPublished, ProcessIsKilled DEF MirrorNext
<1>3. MirrorInv => NamedReleasesAreComplete
  <2>1. SUFFICES ASSUME MirrorInv, NEW m \in {pointer, served, Of(state)} \ {Nothing}
                 PROVE  /\ objects[m.tag].exe = m.exe /\ objects[m.tag].sum = m.exe
                        /\ objects[m.tag].manifest = m.exe /\ objects[m.tag].log # Missing
    BY DEF NamedReleasesAreComplete, Of
  <2> QED
    BY <2>1 DEF MirrorInv, Stored
<1> QED
  BY <1>1, <1>2, <1>3, PTL DEF MirrorSpec

-----------------------------------------------------------------------------
(***************************************************************************)
(* The exports of the animations (GiftClips).  An active clip is the       *)
(* worker's, and its time has no end until the worker has done with it; a  *)
(* clip is in the queue once, and only if nobody has begun it; and the     *)
(* process of an attempt is where the worker is in the attempt.            *)
(***************************************************************************)
Files == {"none", "layers", "source", "partial", "complete"}
States == {"none", "writing", "refused", "forgotten", "queued", "encoding", "retrying"} \cup Terminal
Jobs == [state : States, active : BOOLEAN, ended : BOOLEAN]
Trying == {"start", "assign", "resume", "run", "attempted"}
Errors == {"none", "source", "cancelled", "integrity", "start", "assign", "resume", "hardware", "encoder"}
Places == Working \cup {"idle", "empty", "waiting", "stopped"}
Workers == [at : Places, clip : Clips \cup {NoClip}, mode : {"hardware", "software"}, error : Errors]

ClipTypes ==
  /\ clips \in [Clips -> Jobs] /\ folder \in [Clips -> Files] /\ queue \in Seq(Clips) /\ wake \in BOOLEAN
  /\ worker \in Workers /\ ffmpeg \in {"none", "suspended", "contained", "running"}
  /\ program \in {"open", "closing", "closed", "killed"} /\ unsignalled \in SUBSET Clips

\* The process, and what it runs.
AttemptInv ==
  /\ ffmpeg = "contained" => worker.at = "resume" \/ program = "killed"
  /\ ffmpeg = "running" => worker.at = "run" \/ program = "killed"
  /\ program = "closed" => worker.at = "stopped"
  /\ program = "killed" => ffmpeg \notin {"contained", "running"}
  /\ worker.at \in Trying => cache = "good"

Works(c) == worker.at \in Working /\ worker.clip = c

\* What a state of a clip says of its directory, and of who has it.
ClipInv(c) ==
  /\ clips[c].active <=> Works(c)
  /\ Works(c) => clips[c].state \in {"encoding", "retrying", "cancelled"} /\ ~clips[c].ended
  /\ clips[c].state \in {"encoding", "retrying"} => Works(c)
  /\ clips[c].ended => clips[c].state \in Terminal \cup {"forgotten"}
  /\ clips[c].state \in {"writing", "queued", "encoding", "retrying"} \/ Works(c) => folder[c] \notin {"none", "source"}
  /\ clips[c].state = "forgotten" => folder[c] = "none"
  /\ clips[c].state = "ready" => folder[c] # "partial"
  /\ Works(c) /\ worker.at \in {"attempted", "finish"} /\ worker.error = "none" => folder[c] # "partial"

QueueInv ==
  /\ \A i \in DOMAIN queue : clips[queue[i]].state \in {"queued", "cancelled", "forgotten"}
  /\ \A i, j \in DOMAIN queue : queue[i] = queue[j] => i = j

ClipsInv ==
  /\ ClipTypes /\ AttemptInv /\ QueueInv /\ NoClipIsSleptOver
  /\ \A c \in Clips : ClipInv(c)
  /\ worker.clip = NoClip <=> worker.at \notin Working

LEMMA LeastNumber ==
  ASSUME NEW S \in SUBSET Nat, S # {}
  PROVE  \E m \in S : \A j \in S : m <= j
<1> DEFINE R == OpToRel(<, Nat)
<1>1. IsWellFoundedOn(R, Nat)
  BY NatLessThanWellFounded
<1>2. \A x, y \in Nat : x < y => <<x, y>> \in R
  BY DEF OpToRel
<1> HIDE DEF R
<1>3. PICK x \in S : \A y \in S : ~(<<y, x>> \in R)
  BY <1>1, WFMin
<1>4. \A y \in S : ~(y < x)
  BY <1>2, <1>3
<1>5. \A y \in S : x <= y
  BY <1>4
<1> QED
  BY <1>5

\* A clip with which nothing happens.
LEMMA ClipStays ==
  ASSUME NEW c \in Clips, ClipInv(c), clips'[c] = clips[c], folder'[c] = folder[c], Works(c)' <=> Works(c),
         Works(c) => worker' = worker
  PROVE  ClipInv(c)'
BY DEF ClipInv, Works

LEMMA QueueStays ==
  ASSUME QueueInv, ClipTypes, UNCHANGED queue,
         \A c \in Clips : clips[c].state \in {"queued", "cancelled", "forgotten"} =>
           clips'[c].state \in {"queued", "cancelled", "forgotten"}
  PROVE  QueueInv'
<1>1. \A i \in DOMAIN queue : queue[i] \in Clips
  BY DEF ClipTypes
<1> QED
  BY <1>1 DEF QueueInv

\* A step of the worker with the clip that it has and keeps.
LEMMA WorkerGoesOn ==
  ASSUME ClipsInv, NEW c \in Clips, c = worker.clip, worker.at \in Working,
         worker' \in Workers, worker'.at \in Working, worker'.clip = c,
         clips' \in [Clips -> Jobs], folder' \in [Clips -> Files],
         \A d \in Clips \ {c} : clips'[d] = clips[d] /\ folder'[d] = folder[d],
         clips'[c].active = clips[c].active, clips'[c].ended = clips[c].ended,
         clips'[c].state = clips[c].state
           \/ (clips[c].state \in {"encoding", "retrying"} /\ clips'[c].state \in {"encoding", "retrying"}),
         folder'[c] \notin {"none", "source"},
         worker'.at \in {"attempted", "finish"} /\ worker'.error = "none" => folder'[c] # "partial",
         ffmpeg' \in {"none", "suspended", "contained", "running"}, AttemptInv',
         UNCHANGED <<queue, unsignalled, wake, program>>
  PROVE  ClipsInv'
<1>1. ClipTypes'
  BY DEF ClipsInv, ClipTypes
<1>2. Works(c) /\ Works(c)' /\ \A d \in Clips \ {c} : ~Works(d) /\ ~Works(d)'
  BY DEF Works
<1>3. ClipInv(c) /\ clips[c] \in Jobs
  BY DEF ClipsInv, ClipTypes
<1>4. ClipInv(c)'
  BY <1>2, <1>3 DEF ClipInv, Terminal
<1>5. \A d \in Clips \ {c} : ClipInv(d)'
  BY <1>2, ClipStays DEF ClipsInv
<1>6. QueueInv'
  BY <1>3, QueueStays DEF ClipsInv
<1>7. NoClipIsSleptOver'
  BY DEF NoClipIsSleptOver, Working
<1> QED
  BY <1>1, <1>4, <1>5, <1>6, <1>7, ClipAssumption DEF ClipsInv

\* The worker has done with its clip.
LEMMA WorkerHasDone ==
  ASSUME ClipsInv, NEW c \in Clips, c = worker.clip, worker.at \in Working, worker' = Idle,
         clips' \in [Clips -> Jobs], \A d \in Clips \ {c} : clips'[d] = clips[d],
         ~clips'[c].active, clips'[c].ended, clips'[c].state \in Terminal,
         clips[c].state = "cancelled" => clips'[c].state = "cancelled",
         clips'[c].state = "ready" => folder[c] # "partial",
         UNCHANGED <<folder, queue, unsignalled, wake, ffmpeg, cache, program>>, AttemptInv'
  PROVE  ClipsInv'
<1>1. worker' \in Workers /\ worker'.at = "idle" /\ worker'.clip = NoClip
  BY DEF Idle, Workers, Places, Errors
<1>2. ClipTypes'
  BY <1>1 DEF ClipsInv, ClipTypes
<1>3. Works(c) /\ \A d \in Clips : ~Works(d)' /\ (d # c => ~Works(d))
  BY <1>1 DEF Works, Working
<1>4. ClipInv(c)'
  BY <1>3 DEF ClipInv, Terminal
<1>5. \A d \in Clips \ {c} : ClipInv(d)'
  BY <1>3, ClipStays DEF ClipsInv
<1>6. QueueInv'
  <2>1. ClipInv(c)
    BY DEF ClipsInv
  <2> QED
    BY <1>3, <2>1, QueueStays DEF ClipsInv, ClipInv
<1>7. NoClipIsSleptOver'
  BY <1>1 DEF NoClipIsSleptOver
<1> QED
  BY <1>1, <1>2, <1>4, <1>5, <1>6, <1>7 DEF ClipsInv, Working

\* What the worker's next place is.
LEMMA WorkerMoves ==
  ASSUME worker \in Workers, NEW place \in Places, NEW error \in Errors
  PROVE  /\ Goto(place) => /\ worker' \in Workers /\ worker'.at = place /\ worker'.clip = worker.clip
                           /\ worker'.error = worker.error
         /\ Return(error) => /\ worker' \in Workers /\ worker'.at = "finish" /\ worker'.clip = worker.clip
                             /\ worker'.error = error
         /\ AttemptEnds(error) => /\ worker' \in Workers /\ worker'.at = "attempted" /\ worker'.clip = worker.clip
                                  /\ worker'.error = error
         /\ \A mode \in {"hardware", "software"} :
              Attempt(mode) => worker' \in Workers /\ worker'.at = "start" /\ worker'.clip = worker.clip
<1>1. ASSUME Goto(place)
      PROVE  worker' \in Workers /\ worker'.at = place /\ worker'.clip = worker.clip /\ worker'.error = worker.error
  BY <1>1 DEF Goto, Workers
<1>2. ASSUME Return(error)
      PROVE  worker' \in Workers /\ worker'.at = "finish" /\ worker'.clip = worker.clip /\ worker'.error = error
  <2>1. "finish" \in Places
    BY DEF Places, Working
  <2> QED
    BY <1>2, <2>1 DEF Return, Workers
<1>3. ASSUME AttemptEnds(error)
      PROVE  worker' \in Workers /\ worker'.at = "attempted" /\ worker'.clip = worker.clip /\ worker'.error = error
  <2>1. "attempted" \in Places
    BY DEF Places, Working
  <2> QED
    BY <1>3, <2>1 DEF AttemptEnds, Workers
<1>4. ASSUME NEW mode \in {"hardware", "software"}, Attempt(mode)
      PROVE  worker' \in Workers /\ worker'.at = "start" /\ worker'.clip = worker.clip
  <2>1. "start" \in Places
    BY DEF Places, Working
  <2> QED
    BY <1>4, <2>1 DEF Attempt, Workers
<1> QED
  BY <1>1, <1>2, <1>3, <1>4

LEMMA WorkerHasAClip ==
  ASSUME ClipsInv, On
  PROVE  \E c \in Clips : /\ c = worker.clip /\ worker.at \in Working /\ Works(c) /\ ClipInv(c) /\ clips[c] \in Jobs
                          /\ folder[c] \notin {"none", "source"} /\ folder[c] \in Files
                          /\ clips[c].state \in {"encoding", "retrying", "cancelled"}
                          /\ clips[c].active /\ ~clips[c].ended /\ program \in {"open", "closing"}
<1>1. worker.clip \in Clips /\ worker.at \in Working
  BY DEF ClipsInv, ClipTypes, On, Workers
<1>2. Works(worker.clip) /\ ClipInv(worker.clip)
  BY <1>1 DEF Works, ClipsInv
<1>3. program # "closed"
  BY <1>1 DEF ClipsInv, AttemptInv, Working
<1> QED
  BY <1>1, <1>2, <1>3 DEF ClipInv, ClipsInv, ClipTypes, On, Running

\* The steps that only move the worker, and what belongs to its attempt.
LEMMA AttemptSteps ==
  ASSUME ClipsInv, Resolve \/ Prepare \/ Extract \/ StartSuspended \/ Assign \/ Resume \/ ProcessEnds
  PROVE  ClipsInv'
<1>1. On /\ UNCHANGED <<clips, queue, unsignalled, wake, program>>
  BY DEF Resolve, Prepare, Extract, StartSuspended, Assign, Resume, ProcessEnds, At, jobs
<1>2. PICK c \in Clips : /\ c = worker.clip /\ worker.at \in Working /\ Works(c) /\ ClipInv(c) /\ clips[c] \in Jobs
                         /\ folder[c] \notin {"none", "source"} /\ folder[c] \in Files
                         /\ program \in {"open", "closing"}
  BY <1>1, WorkerHasAClip
<1>3. ClipTypes /\ AttemptInv /\ worker \in Workers /\ folder \in [Clips -> Files]
      /\ ffmpeg \in {"none", "suspended", "contained", "running"}
  BY DEF ClipsInv, ClipTypes
<1>4. ASSUME worker' \in Workers, worker'.at \in Working, worker'.clip = c,
             folder' \in [Clips -> Files], \A d \in Clips \ {c} : folder'[d] = folder[d],
             folder'[c] \notin {"none", "source"},
             worker'.at \in {"attempted", "finish"} /\ worker'.error = "none" => folder'[c] # "partial",
             ffmpeg' \in {"none", "suspended", "contained", "running"}, AttemptInv'
      PROVE  ClipsInv'
  BY <1>1, <1>2, <1>4, WorkerGoesOn DEF ClipsInv, ClipTypes
<1>5. /\ {"prepare", "extract", "assign", "resume", "run"} \subseteq Places \cap Working
      /\ {"source", "cancelled", "integrity", "start", "assign", "resume", "hardware", "encoder", "none"} \subseteq Errors
      /\ {"attempted", "finish", "start"} \subseteq Working /\ "finish" \notin Trying
  BY DEF Places, Working, Errors, Trying
<1>6. ASSUME NEW error \in Errors \ {"none"}, Return(error), UNCHANGED <<folder, ffmpeg>>, worker.at \notin {"resume", "run"}
      PROVE  ClipsInv'
  <2>1. worker' \in Workers /\ worker'.at = "finish" /\ worker'.clip = c /\ worker'.error = error
    BY <1>2, <1>3, <1>5, <1>6, WorkerMoves
  <2>2. AttemptInv'
    BY <1>1, <1>2, <1>3, <1>6, <2>1 DEF AttemptInv, Trying
  <2> QED
    BY <1>2, <1>3, <1>4, <1>5, <1>6, <2>1, <2>2
<1>7. ASSUME NEW error \in Errors, AttemptEnds(error), UNCHANGED cache, ffmpeg' \in {"none", "suspended"} \/ worker.at = "start",
             UNCHANGED ffmpeg \/ ffmpeg' \in {"none", "suspended"}, worker.at \in Trying,
             UNCHANGED folder \/ folder' = [folder EXCEPT ![c] = "complete"], error = "none" => folder'[c] = "complete"
      PROVE  ClipsInv'
  <2>1. worker' \in Workers /\ worker'.at = "attempted" /\ worker'.clip = c /\ worker'.error = error
    BY <1>2, <1>3, <1>5, <1>7, WorkerMoves
  <2>2. AttemptInv'
    BY <1>1, <1>2, <1>3, <1>7, <2>1 DEF AttemptInv, Trying
  <2>3. /\ folder' \in [Clips -> Files] /\ \A d \in Clips \ {c} : folder'[d] = folder[d]
        /\ folder'[c] \notin {"none", "source"}
    BY <1>2, <1>3, <1>7 DEF Files
  <2> QED
    BY <1>3, <1>4, <1>5, <1>7, <2>1, <2>2, <2>3
<1>8. ASSUME NEW mode \in {"hardware", "software"}, Attempt(mode), cache' = "good", UNCHANGED <<folder, ffmpeg>>,
             worker.at \notin {"resume", "run"}
      PROVE  ClipsInv'
  <2>1. worker' \in Workers /\ worker'.at = "start" /\ worker'.clip = c
    BY <1>2, <1>3, <1>5, <1>8, WorkerMoves
  <2>2. AttemptInv'
    BY <1>1, <1>2, <1>3, <1>8, <2>1 DEF AttemptInv, Trying
  <2> QED
    BY <1>2, <1>3, <1>4, <1>5, <1>8, <2>1, <2>2
<1>9. ASSUME NEW place \in {"prepare", "extract", "assign", "resume", "run"}, Goto(place), AttemptInv',
             ffmpeg' \in {"none", "suspended", "contained", "running"},
             UNCHANGED folder \/ folder' = [folder EXCEPT ![c] = "partial"]
      PROVE  ClipsInv'
  <2>1. worker' \in Workers /\ worker'.at = place /\ worker'.clip = c
    BY <1>2, <1>3, <1>5, <1>9, WorkerMoves
  <2>2. /\ folder' \in [Clips -> Files] /\ \A d \in Clips \ {c} : folder'[d] = folder[d]
        /\ folder'[c] \notin {"none", "source"}
    BY <1>2, <1>3, <1>9 DEF Files
  <2> QED
    BY <1>4, <1>5, <1>9, <2>1, <2>2
<1>10. \A place \in Places : Goto(place) => worker'.at = place
  BY <1>3, <1>5, WorkerMoves
<1>11. Mode \in {"hardware", "software"}
  BY DEF Mode
<1>12. CASE Resolve
  <2>1. folder' = [folder EXCEPT ![c] = IF @ = "none" THEN "source" ELSE @] => folder' = folder
    BY <1>2, <1>3
  <2>2. ASSUME Goto("prepare"), UNCHANGED <<folder, ffmpeg, cache>>, worker.at = "resolve" PROVE ClipsInv'
    <3>1. AttemptInv'
      BY <1>1, <1>2, <1>3, <1>5, <1>10, <2>2 DEF AttemptInv, Trying
    <3> QED
      BY <1>3, <1>9, <2>2, <3>1
  <2> QED
    BY <1>2, <1>5, <1>6, <1>12, <2>1, <2>2 DEF Resolve, At, Written, encoding
<1>13. CASE Prepare
  <2>1. ASSUME Goto("extract"), UNCHANGED <<folder, ffmpeg, cache>>, worker.at = "prepare" PROVE ClipsInv'
    <3>1. AttemptInv'
      BY <1>1, <1>2, <1>3, <1>5, <1>10, <2>1 DEF AttemptInv, Trying
    <3> QED
      BY <1>3, <1>9, <2>1, <3>1
  <2> QED
    BY <1>5, <1>6, <1>8, <1>11, <1>13, <2>1 DEF Prepare, At, Matches, encoding
<1>14. CASE Extract
  BY <1>5, <1>6, <1>8, <1>11, <1>14 DEF Extract, At
<1>15. CASE StartSuspended
  <2>1. ASSUME ffmpeg' = "suspended", Goto("assign") PROVE ClipsInv'
    <3>1. AttemptInv'
      BY <1>1, <1>2, <1>3, <1>5, <1>10, <1>15, <2>1 DEF AttemptInv, Trying, StartSuspended, At
    <3> QED
      BY <1>9, <1>15, <2>1, <3>1 DEF StartSuspended
  <2> QED
    BY <1>5, <1>7, <1>15, <2>1 DEF StartSuspended, At, AfterStart, Trying
<1>16. CASE Assign
  <2>1. ASSUME ffmpeg' = "contained", Goto("resume") PROVE ClipsInv'
    <3>1. AttemptInv'
      BY <1>1, <1>2, <1>3, <1>5, <1>10, <1>16, <2>1 DEF AttemptInv, Trying, Assign, At
    <3> QED
      BY <1>9, <1>16, <2>1, <3>1 DEF Assign
  <2> QED
    BY <1>5, <1>7, <1>16, <2>1 DEF Assign, At, Trying
<1>17. CASE Resume
  <2>1. ASSUME ffmpeg' = "running", Goto("run"), folder' = [folder EXCEPT ![worker.clip] = "partial"] PROVE ClipsInv'
    <3>1. AttemptInv'
      BY <1>1, <1>2, <1>3, <1>5, <1>10, <1>17, <2>1 DEF AttemptInv, Trying, Resume, At
    <3> QED
      BY <1>2, <1>9, <2>1, <3>1
  <2> QED
    BY <1>5, <1>7, <1>17, <2>1 DEF Resume, At, Trying
<1>18. CASE ProcessEnds
  <2>1. ffmpeg' = "none" /\ UNCHANGED cache /\ worker.at = "run" /\ worker.at \in Trying
    BY <1>18 DEF ProcessEnds, At, Trying
  <2>2. CASE AttemptEnds("none") /\ folder' = [folder EXCEPT ![worker.clip] = "complete"]
    <3>1. folder' = [folder EXCEPT ![c] = "complete"] /\ folder'[c] = "complete"
      BY <1>2, <1>3, <2>2
    <3> QED
      BY <1>5, <1>7, <2>1, <2>2, <3>1
  <2> QED
    BY <1>5, <1>7, <1>18, <2>1, <2>2 DEF ProcessEnds
<1> QED
  BY <1>12, <1>13, <1>14, <1>15, <1>16, <1>17, <1>18


LEMMA WorkerSteps ==
  ASSUME ClipsInv, BeginEncoding \/ Progress \/ Attempted \/ FinishEncoding
  PROVE  ClipsInv'
<1>1. On /\ UNCHANGED <<queue, unsignalled, wake, program, folder, ffmpeg, cache>>
  BY DEF BeginEncoding, Progress, Attempted, FinishEncoding, At, encoding
<1>2. PICK c \in Clips : /\ c = worker.clip /\ worker.at \in Working /\ Works(c) /\ ClipInv(c) /\ clips[c] \in Jobs
                         /\ folder[c] \notin {"none", "source"} /\ folder[c] \in Files
                         /\ clips[c].state \in {"encoding", "retrying", "cancelled"}
                         /\ clips[c].active /\ ~clips[c].ended /\ program \in {"open", "closing"}
  BY <1>1, WorkerHasAClip
<1>3. /\ ClipTypes /\ AttemptInv /\ worker \in Workers /\ folder \in [Clips -> Files] /\ clips \in [Clips -> Jobs]
      /\ ffmpeg \in {"none", "suspended", "contained", "running"}
  BY DEF ClipsInv, ClipTypes
<1>4. ASSUME NEW stage \in {"encoding", "retrying"}, clips' = [clips EXCEPT ![c].state = stage]
      PROVE  /\ clips' \in [Clips -> Jobs] /\ \A d \in Clips \ {c} : clips'[d] = clips[d]
             /\ clips'[c].state = stage /\ clips'[c].active = clips[c].active /\ clips'[c].ended = clips[c].ended
  <2>1. PICK job \in Jobs : job = clips[c]
    BY <1>2
  <2>2. [job EXCEPT !.state = stage] \in Jobs /\ [job EXCEPT !.state = stage].state = stage
        /\ [job EXCEPT !.state = stage].active = job.active /\ [job EXCEPT !.state = stage].ended = job.ended
    BY DEF Jobs, States
  <2>3. clips' = [clips EXCEPT ![c] = [job EXCEPT !.state = stage]]
    BY <1>4, <2>1
  <2> QED
    BY <1>3, <2>1, <2>2, <2>3
<1>5. ASSUME NEW stage \in Terminal, clips' = [clips EXCEPT ![c] = [state |-> stage, active |-> FALSE, ended |-> TRUE]],
             worker' = Idle, clips[c].state = "cancelled" => stage = "cancelled", stage = "ready" => folder[c] # "partial",
             worker.at \notin {"resume", "run"}
      PROVE  ClipsInv'
  <2>1. [state |-> stage, active |-> FALSE, ended |-> TRUE] \in Jobs
    BY DEF Jobs, States
  <2>2. /\ clips' \in [Clips -> Jobs] /\ \A d \in Clips \ {c} : clips'[d] = clips[d]
        /\ ~clips'[c].active /\ clips'[c].ended /\ clips'[c].state = stage
    BY <1>3, <1>5, <2>1
  <2>3. AttemptInv'
    BY <1>1, <1>2, <1>3, <1>5 DEF AttemptInv, Idle, Trying
  <2> QED
    BY <1>1, <1>2, <1>5, <2>2, <2>3, WorkerHasDone
<1>6. {"resolve", "start", "finish"} \subseteq Working \cap Places /\ Errors \subseteq Errors
      /\ "resolve" \notin Trying /\ "finish" \notin Trying
  BY DEF Working, Places, Trying
<1>7. CASE BeginEncoding
  <2>1. CASE clips[c].state = "cancelled"
    <3>1. PICK job \in Jobs : job = clips[c]
      BY <1>2
    <3>2. [[job EXCEPT !.active = FALSE] EXCEPT !.ended = TRUE] = [state |-> "cancelled", active |-> FALSE, ended |-> TRUE]
      <4> DEFINE done == [[job EXCEPT !.active = FALSE] EXCEPT !.ended = TRUE]
      <4>1. done \in Jobs /\ done.state = job.state /\ done.active = FALSE /\ done.ended = TRUE
        BY DEF Jobs
      <4>2. \A x \in Jobs : x = [state |-> x.state, active |-> x.active, ended |-> x.ended]
        BY DEF Jobs
      <4> HIDE DEF done
      <4>3. done = [state |-> "cancelled", active |-> FALSE, ended |-> TRUE]
        BY <2>1, <3>1, <4>1, <4>2
      <4> QED
        BY <4>3 DEF done
    <3>3. clips' = [clips EXCEPT ![c].active = FALSE, ![c].ended = TRUE] /\ worker' = Idle
      BY <1>2, <1>7, <2>1 DEF BeginEncoding
    <3>4. clips' = [clips EXCEPT ![c] = [state |-> "cancelled", active |-> FALSE, ended |-> TRUE]]
      BY <1>3, <3>1, <3>2, <3>3
    <3> QED
      BY <1>5, <1>7, <2>1, <3>3, <3>4 DEF BeginEncoding, At, Terminal
  <2>2. CASE clips[c].state # "cancelled"
    <3>1. Goto("resolve") /\ UNCHANGED clips
      BY <1>2, <1>7, <2>2 DEF BeginEncoding
    <3>2. worker' \in Workers /\ worker'.at = "resolve" /\ worker'.clip = c
      BY <1>2, <1>3, <1>6, <3>1, WorkerMoves DEF Errors
    <3>3. AttemptInv'
      BY <1>1, <1>2, <1>3, <1>6, <1>7, <3>2 DEF AttemptInv, BeginEncoding, At
    <3> QED
      BY <1>1, <1>2, <1>3, <1>6, <3>1, <3>2, <3>3, WorkerGoesOn
  <2> QED
    BY <2>1, <2>2
<1>8. CASE Progress
  <2>1. UNCHANGED worker /\ clips[c].state = "retrying" /\ clips' = [clips EXCEPT ![c].state = "encoding"] /\ worker.at = "run"
    BY <1>2, <1>8 DEF Progress, At
  <2>2. AttemptInv'
    BY <1>1, <1>3, <2>1 DEF AttemptInv
  <2> QED
    BY <1>1, <1>2, <1>3, <1>4, <2>1, <2>2, WorkerGoesOn
<1>9. CASE Attempted
  <2>1. worker.at = "attempted"
    BY <1>9 DEF Attempted, At
  <2>2. CASE RetriesInSoftware
    <3>1. clips[c].state \in {"encoding", "retrying"}
      BY <1>2, <2>2 DEF RetriesInSoftware, Outcome, Stopped
    <3>2. /\ clips' = [clips EXCEPT ![c].state = "retrying"]
          /\ worker' = [worker EXCEPT !.at = "start", !.mode = "software", !.error = "none"]
      BY <1>2, <1>9, <2>2 DEF Attempted
    <3>3. worker' \in Workers /\ worker'.at = "start" /\ worker'.clip = c
      BY <1>2, <1>3, <1>6, <3>2 DEF Workers, Errors
    <3>4. AttemptInv'
      BY <1>1, <1>2, <1>3, <2>1, <3>3 DEF AttemptInv, Trying
    <3> QED
      BY <1>1, <1>2, <1>3, <1>4, <1>6, <3>1, <3>2, <3>3, <3>4, WorkerGoesOn
  <2>3. CASE ~RetriesInSoftware
    <3>1. Return(Outcome) /\ UNCHANGED clips
      BY <1>9, <2>3 DEF Attempted
    <3>2. Outcome \in Errors /\ (Outcome = "none" => worker.error = "none")
      BY <1>3 DEF Outcome, Workers, Errors
    <3>3. worker' \in Workers /\ worker'.at = "finish" /\ worker'.clip = c /\ worker'.error = Outcome
      BY <1>2, <1>3, <1>6, <3>1, <3>2, WorkerMoves
    <3>4. AttemptInv'
      BY <1>1, <1>2, <1>3, <1>6, <2>1, <3>3 DEF AttemptInv
    <3>5. worker'.error = "none" => folder[c] # "partial"
      BY <1>2, <2>1, <3>2, <3>3 DEF ClipInv
    <3> QED
      BY <1>1, <1>2, <1>3, <1>6, <3>1, <3>3, <3>4, <3>5, WorkerGoesOn
  <2> QED
    BY <2>2, <2>3
<1>10. CASE FinishEncoding
  <2>1. worker.at = "finish" /\ worker' = Idle
    BY <1>10 DEF FinishEncoding, At
  <2>2. PICK stage \in Terminal : /\ clips' = [clips EXCEPT ![c] = [state |-> stage, active |-> FALSE, ended |-> TRUE]]
                                  /\ clips[c].state = "cancelled" => stage = "cancelled"
                                  /\ stage = "ready" => worker.error = "none"
    <3> DEFINE stage == CASE Stopped(c) \/ worker.error = "cancelled" -> "cancelled"
                          [] ~Stopped(c) /\ worker.error = "none" -> "ready"
                          [] OTHER -> "failed"
    <3>1. clips' = [clips EXCEPT ![c] = [state |-> stage, active |-> FALSE, ended |-> TRUE]]
      BY <1>2, <1>10 DEF FinishEncoding
    <3>2. CASE Stopped(c) \/ worker.error = "cancelled"
      <4>1. stage = "cancelled"
        BY <3>2
      <4> QED
        BY <3>1, <4>1 DEF Terminal
    <3>3. CASE ~(Stopped(c) \/ worker.error = "cancelled")
      <4>1. stage \in {"ready", "failed"} /\ (stage = "ready" => worker.error = "none") /\ clips[c].state # "cancelled"
        BY <3>3 DEF Stopped
      <4> QED
        BY <3>1, <4>1 DEF Terminal
    <3> QED
      BY <3>2, <3>3
  <2>3. worker.error = "none" => folder[c] # "partial"
    BY <1>2, <2>1 DEF ClipInv
  <2> QED
    BY <1>5, <2>1, <2>2, <2>3
<1> QED
  BY <1>7, <1>8, <1>9, <1>10

\* A request about one clip.
LEMMA OneClip ==
  ASSUME ClipsInv, NEW c \in Clips, clips' \in [Clips -> Jobs], folder' \in [Clips -> Files],
         \A d \in Clips \ {c} : clips'[d] = clips[d] /\ folder'[d] = folder[d],
         queue' \in Seq(Clips), unsignalled' \in SUBSET Clips, wake' \in BOOLEAN,
         ClipInv(c)', QueueInv', NoClipIsSleptOver', UNCHANGED <<worker, ffmpeg, cache, program>>
  PROVE  ClipsInv'
<1>1. ClipTypes' /\ AttemptInv'
  BY DEF ClipsInv, ClipTypes, AttemptInv
<1>2. \A d \in Clips \ {c} : ClipInv(d)'
  BY ClipStays DEF ClipsInv, Works
<1> QED
  BY <1>1, <1>2 DEF ClipsInv

LEMMA JobEntersState ==
  ASSUME clips \in [Clips -> Jobs], NEW c \in Clips, NEW stage \in States, clips' = [clips EXCEPT ![c].state = stage]
  PROVE  /\ clips' \in [Clips -> Jobs] /\ \A d \in Clips \ {c} : clips'[d] = clips[d]
         /\ clips'[c].state = stage /\ clips'[c].active = clips[c].active /\ clips'[c].ended = clips[c].ended
<1>1. PICK job \in Jobs : job = clips[c]
  OBVIOUS
<1>2. [job EXCEPT !.state = stage] \in Jobs /\ [job EXCEPT !.state = stage].state = stage
      /\ [job EXCEPT !.state = stage].active = job.active /\ [job EXCEPT !.state = stage].ended = job.ended
  BY DEF Jobs
<1>3. clips' = [clips EXCEPT ![c] = [job EXCEPT !.state = stage]]
  BY <1>1
<1> QED
  BY <1>1, <1>2, <1>3

\* A clip that is no longer wanted is not slept over.
LEMMA FewerAreWanted ==
  ASSUME ClipsInv, UNCHANGED <<queue, unsignalled, wake, worker, program>>, NEW c \in Clips,
         clips' \in [Clips -> Jobs], \A d \in Clips \ {c} : clips'[d] = clips[d],
         clips'[c].state = clips[c].state \/ clips[c].state = "none"
           \/ clips'[c].state \in {"cancelled", "forgotten", "refused"}, clips[c].state # "writing" => clips'[c].state # "refused"
  PROVE  QueueInv' /\ NoClipIsSleptOver'
<1>1. \A i \in DOMAIN queue : /\ queue[i] \in Clips /\ clips[queue[i]].state \in {"queued", "cancelled", "forgotten"}
                              /\ clips'[queue[i]].state \in {"queued", "cancelled", "forgotten"}
                              /\ (clips'[queue[i]].state = clips[queue[i]].state
                                    \/ clips'[queue[i]].state \in {"cancelled", "forgotten"})
  BY DEF ClipsInv, ClipTypes, QueueInv
<1>2. QueueInv'
  BY <1>1 DEF ClipsInv, QueueInv
<1>3. NoClipIsSleptOver'
  BY <1>1 DEF ClipsInv, NoClipIsSleptOver, Wanted
<1> QED
  BY <1>2, <1>3

LEMMA RequestSteps ==
  ASSUME ClipsInv, NEW c \in Clips, MakeFolder(c) \/ Refuse(c) \/ Cancel(c) \/ SweepClip(c)
  PROVE  ClipsInv'
<1>1. UNCHANGED <<queue, unsignalled, wake, worker, ffmpeg, cache, program>>
  BY DEF MakeFolder, Refuse, Cancel, SweepClip, encoding
<1>2. ClipTypes /\ clips \in [Clips -> Jobs] /\ folder \in [Clips -> Files] /\ ClipInv(c) /\ clips[c] \in Jobs
  BY DEF ClipsInv, ClipTypes
<1>3. Works(c)' <=> Works(c)
  BY <1>1 DEF Works
<1>4. \A d \in Clips : folder[d] \in Files
  BY <1>2
<1>5. ASSUME clips' \in [Clips -> Jobs], folder' \in [Clips -> Files],
             \A d \in Clips \ {c} : clips'[d] = clips[d] /\ folder'[d] = folder[d], ClipInv(c)',
             clips'[c].state = clips[c].state \/ clips[c].state = "none"
               \/ clips'[c].state \in {"cancelled", "forgotten", "refused"},
             clips[c].state # "writing" => clips'[c].state # "refused"
      PROVE  ClipsInv'
  <2>1. QueueInv' /\ NoClipIsSleptOver'
    BY <1>1, <1>5, FewerAreWanted
  <2>2. queue' \in Seq(Clips) /\ unsignalled' \in SUBSET Clips /\ wake' \in BOOLEAN
    BY <1>1, <1>2 DEF ClipTypes
  <2> QED
    BY <1>1, <1>5, <2>1, <2>2, OneClip
<1>6. /\ {"writing", "refused", "forgotten", "cancelled"} \subseteq States /\ {"none", "layers"} \subseteq Files
  BY DEF States, Files, Terminal
<1>7. CASE MakeFolder(c)
  <2>1. /\ clips[c].state = "none" /\ clips' = [clips EXCEPT ![c].state = "writing"]
        /\ folder' = [folder EXCEPT ![c] = "layers"]
    BY <1>7 DEF MakeFolder
  <2>2. /\ clips' \in [Clips -> Jobs] /\ \A d \in Clips \ {c} : clips'[d] = clips[d]
        /\ clips'[c].state = "writing" /\ clips'[c].active = clips[c].active /\ clips'[c].ended = clips[c].ended
    BY <1>2, <1>6, <2>1, JobEntersState
  <2>3. folder' \in [Clips -> Files] /\ folder'[c] = "layers" /\ \A d \in Clips \ {c} : folder'[d] = folder[d]
    BY <1>2, <1>6, <2>1
  <2>4. ClipInv(c)'
    BY <1>2, <1>3, <2>1, <2>2, <2>3 DEF ClipInv, Terminal
  <2> QED
    BY <1>5, <2>1, <2>2, <2>3, <2>4
<1>8. CASE Refuse(c)
  <2>1. /\ clips[c].state = "writing" /\ clips' = [clips EXCEPT ![c].state = "refused"]
        /\ folder' \in {folder, [folder EXCEPT ![c] = "none"]}
    BY <1>8 DEF Refuse
  <2>2. /\ clips' \in [Clips -> Jobs] /\ \A d \in Clips \ {c} : clips'[d] = clips[d]
        /\ clips'[c].state = "refused" /\ clips'[c].active = clips[c].active /\ clips'[c].ended = clips[c].ended
    BY <1>2, <1>6, <2>1, JobEntersState
  <2>3. folder' \in [Clips -> Files] /\ \A d \in Clips \ {c} : folder'[d] = folder[d]
    BY <1>2, <1>6, <2>1
  <2>4. ClipInv(c)'
    BY <1>2, <1>3, <2>1, <2>2 DEF ClipInv, Terminal
  <2> QED
    BY <1>5, <2>1, <2>2, <2>3, <2>4
<1>9. CASE Cancel(c)
  <2>1. /\ InJobs(c) /\ clips[c].state \notin Terminal /\ clips' = [clips EXCEPT ![c] = CancelledJob(@)] /\ UNCHANGED folder
    BY <1>9 DEF Cancel
  <2>2. clips[c].state \in {"queued", "encoding", "retrying"}
    BY <1>2, <2>1 DEF InJobs, Jobs, States
  <2>3. PICK job \in Jobs : job = clips[c]
    BY <1>2
  <2>4. /\ CancelledJob(job) \in Jobs /\ CancelledJob(job).state = "cancelled"
        /\ CancelledJob(job).active = job.active /\ CancelledJob(job).ended = ~job.active
    BY <1>6 DEF Jobs, CancelledJob
  <2>5. clips' = [clips EXCEPT ![c] = CancelledJob(job)]
    BY <1>2, <2>1, <2>3
  <2>6. /\ clips' \in [Clips -> Jobs] /\ \A d \in Clips \ {c} : clips'[d] = clips[d]
        /\ clips'[c].state = "cancelled" /\ clips'[c].active = clips[c].active /\ clips'[c].ended = ~clips[c].active
    BY <1>2, <2>3, <2>4, <2>5
  <2>7. ClipInv(c)'
    BY <1>1, <1>2, <1>3, <2>1, <2>2, <2>6 DEF ClipInv, Terminal
  <2> QED
    BY <1>2, <1>5, <2>1, <2>2, <2>6, <2>7
<1>10. CASE SweepClip(c)
  <2>1. clips[c].state \in Terminal /\ clips[c].ended /\ ~Works(c)
    BY <1>2, <1>10 DEF SweepClip, ClipInv
  <2>2. CASE clips' = [clips EXCEPT ![c].state = "forgotten"] /\ folder' = [folder EXCEPT ![c] = "none"]
    <3>1. /\ clips' \in [Clips -> Jobs] /\ \A d \in Clips \ {c} : clips'[d] = clips[d]
          /\ clips'[c].state = "forgotten" /\ clips'[c].active = clips[c].active /\ clips'[c].ended = clips[c].ended
      BY <1>2, <1>6, <2>2, JobEntersState
    <3>2. folder' \in [Clips -> Files] /\ folder'[c] = "none" /\ \A d \in Clips \ {c} : folder'[d] = folder[d]
      BY <1>2, <1>6, <2>2
    <3>3. ClipInv(c)'
      BY <1>2, <1>3, <2>1, <3>1, <3>2 DEF ClipInv, Terminal
    <3> QED
      BY <1>5, <2>1, <3>1, <3>2, <3>3
  <2>3. CASE UNCHANGED clips /\ folder' \in {folder, [folder EXCEPT ![c] = "layers"]}
    <3>1. folder' \in [Clips -> Files] /\ folder'[c] \in {folder[c], "layers"} /\ \A d \in Clips \ {c} : folder'[d] = folder[d]
      BY <1>2, <1>6, <2>3
    <3>2. ClipInv(c)'
      BY <1>2, <1>3, <2>1, <2>3, <3>1 DEF ClipInv, Terminal
    <3> QED
      BY <1>2, <1>5, <2>1, <2>3, <3>1, <3>2 DEF Terminal
  <2> QED
    BY <1>10, <2>2, <2>3 DEF SweepClip, RemoveFails
<1> QED
  BY <1>7, <1>8, <1>9, <1>10

LEMMA CommitAndSignal ==
  ASSUME ClipsInv, NEW c \in Clips, Commit(c) \/ Signal(c)
  PROVE  ClipsInv'
<1>1. UNCHANGED <<folder, worker, ffmpeg, cache, program>>
  BY DEF Commit, Signal, encoding
<1>2. ClipTypes /\ clips \in [Clips -> Jobs] /\ folder \in [Clips -> Files] /\ ClipInv(c) /\ queue \in Seq(Clips)
  BY DEF ClipsInv, ClipTypes
<1>3. Works(c)' <=> Works(c)
  BY <1>1 DEF Works
<1>4. CASE Commit(c)
  <2>1. /\ clips[c].state = "writing" /\ clips' = [clips EXCEPT ![c].state = "queued"] /\ UNCHANGED wake
        /\ queue' = Append(queue, c) /\ unsignalled' = unsignalled \cup {c}
    BY <1>4 DEF Commit
  <2>2. /\ clips' \in [Clips -> Jobs] /\ \A d \in Clips \ {c} : clips'[d] = clips[d]
        /\ clips'[c].state = "queued" /\ clips'[c].active = clips[c].active /\ clips'[c].ended = clips[c].ended
    <3>1. "queued" \in States
      BY DEF States
    <3> QED
      BY <1>2, <2>1, <3>1, JobEntersState
  <2>3. ClipInv(c)'
    BY <1>1, <1>2, <1>3, <2>1, <2>2 DEF ClipInv, Terminal
  <2>4. \A i \in DOMAIN queue : queue[i] \in Clips \ {c}
    BY <1>2, <2>1 DEF ClipsInv, QueueInv
  <2>5. /\ queue' \in Seq(Clips) /\ DOMAIN queue' = 1..(Len(queue) + 1) /\ queue'[Len(queue) + 1] = c
        /\ DOMAIN queue = 1..Len(queue) /\ Len(queue) \in Nat /\ \A i \in DOMAIN queue : queue'[i] = queue[i]
    BY <1>2, <2>1
  <2>6. \A i \in DOMAIN queue' : i \in DOMAIN queue \/ i = Len(queue) + 1
    BY <2>5
  <2>7. QueueInv'
    <3>1. \A i \in DOMAIN queue' : clips'[queue'[i]].state \in {"queued", "cancelled", "forgotten"}
      BY <2>2, <2>4, <2>5, <2>6 DEF ClipsInv, QueueInv
    <3>2. \A i, j \in DOMAIN queue' : queue'[i] = queue'[j] => i = j
      BY <2>4, <2>5, <2>6 DEF ClipsInv, QueueInv
    <3> QED
      BY <3>1, <3>2 DEF QueueInv
  <2>8. NoClipIsSleptOver'
    BY <1>1, <2>1, <2>2, <2>4, <2>5, <2>6 DEF ClipsInv, NoClipIsSleptOver, Wanted
  <2> QED
    BY <1>1, <1>2, <2>1, <2>2, <2>3, <2>5, <2>7, <2>8, OneClip DEF ClipTypes
<1>5. CASE Signal(c)
  <2>1. UNCHANGED <<clips, queue>> /\ wake' = TRUE /\ unsignalled' \in SUBSET Clips
    BY <1>2, <1>5 DEF Signal, ClipTypes
  <2>2. ClipInv(c)' /\ QueueInv' /\ NoClipIsSleptOver'
    BY <1>1, <1>2, <1>3, <2>1 DEF ClipInv, QueueInv, NoClipIsSleptOver, ClipsInv
  <2> QED
    BY <1>1, <1>2, <2>1, <2>2, OneClip
<1> QED
  BY <1>4, <1>5

LEMMA Taking ==
  ASSUME ClipsInv, Take
  PROVE  ClipsInv'
<1>1. /\ worker.at = "idle" /\ program = "open" /\ UNCHANGED <<folder, unsignalled, wake, ffmpeg, cache, program>>
      /\ ffmpeg \notin {"contained", "running"}
  BY DEF Take, encoding, ClipsInv, AttemptInv
<1>2. /\ ClipTypes /\ clips \in [Clips -> Jobs] /\ folder \in [Clips -> Files] /\ queue \in Seq(Clips)
      /\ \A c \in Clips : ClipInv(c) /\ ~Works(c)
  BY <1>1 DEF ClipsInv, ClipTypes, Works, Working
<1>3. DOMAIN queue = 1..Len(queue) /\ Len(queue) \in Nat /\ \A i \in DOMAIN queue : queue[i] \in Clips
  BY <1>2
<1>4. CASE ~\E i \in DOMAIN queue : Wanted(i)
  <2>1. worker' = [Idle EXCEPT !.at = "empty"] /\ queue' = <<>> /\ UNCHANGED clips
    BY <1>4 DEF Take
  <2>2. worker' \in Workers /\ worker'.at = "empty" /\ worker'.clip = NoClip /\ "empty" \notin Working
    BY <2>1 DEF Idle, Workers, Places, Errors, Working
  <2>3. ClipTypes' /\ AttemptInv' /\ QueueInv' /\ NoClipIsSleptOver'
    BY <1>1, <1>2, <2>1, <2>2 DEF ClipTypes, AttemptInv, QueueInv, NoClipIsSleptOver, ClipsInv, Trying
  <2>4. \A c \in Clips : Works(c)' <=> Works(c)
    BY <1>2, <2>2 DEF Works
  <2>5. \A c \in Clips : ClipInv(c)'
    BY <1>1, <1>2, <2>1, <2>4, ClipStays
  <2> QED
    BY <2>2, <2>3, <2>5 DEF ClipsInv
<1>5. CASE \E i \in DOMAIN queue : Wanted(i)
  <2>1. \E i \in DOMAIN queue : Wanted(i) /\ \A j \in 1..(i - 1) : ~Wanted(j)
    <3> DEFINE S == {i \in DOMAIN queue : Wanted(i)}
    <3>1. S \in SUBSET Nat /\ S # {}
      BY <1>3, <1>5
    <3> HIDE DEF S
    <3>2. PICK m \in S : \A j \in S : m <= j
      BY <3>1, LeastNumber
    <3>3. m \in DOMAIN queue /\ Wanted(m) /\ m \in 1..Len(queue)
      BY <1>3, <3>2 DEF S
    <3>4. ASSUME NEW j \in 1..(m - 1) PROVE ~Wanted(j)
      <4>1. j \in DOMAIN queue /\ ~(m <= j)
        BY <1>3, <3>3, <3>4
      <4> QED
        BY <3>2, <4>1 DEF S
    <3> QED
      BY <3>3, <3>4
  <2>2. PICK k \in 1..Len(queue) : k = First /\ Wanted(k)
    BY <1>3, <2>1 DEF First
  <2>3. PICK c \in Clips : c = queue[k] /\ c = queue[First]
    BY <1>3, <2>2
  <2>4. clips[c].state = "queued"
    BY <1>3, <2>2, <2>3 DEF ClipsInv, QueueInv, Wanted
  <2>5. PICK job \in Jobs : job = clips[c]
    BY <1>2
  <2> DEFINE taken == [[job EXCEPT !.state = "encoding"] EXCEPT !.active = TRUE]
  <2>6. taken \in Jobs /\ taken.state = "encoding" /\ taken.active = TRUE /\ taken.ended = job.ended
    BY DEF Jobs, States
  <2>7. clips' = [clips EXCEPT ![c] = taken]
    <3>1. clips' = [clips EXCEPT ![c].state = "encoding", ![c].active = TRUE]
      BY <1>5, <2>3 DEF Take
    <3> QED
      BY <1>2, <2>5, <3>1
  <2> HIDE DEF taken
  <2>8. /\ clips' \in [Clips -> Jobs] /\ \A d \in Clips \ {c} : clips'[d] = clips[d]
        /\ clips'[c].state = "encoding" /\ clips'[c].active /\ clips'[c].ended = clips[c].ended
    BY <1>2, <2>5, <2>6, <2>7
  <2>9. /\ worker' = [Idle EXCEPT !.at = "taken", !.clip = c]
        /\ queue' = SubSeq(queue, k + 1, Len(queue))
    BY <1>5, <2>2, <2>3 DEF Take
  <2>10. worker' \in Workers /\ worker'.at = "taken" /\ worker'.clip = c /\ "taken" \in Working
    BY <2>9 DEF Idle, Workers, Places, Errors, Working
  <2>11. /\ queue' \in Seq(Clips) /\ DOMAIN queue' = 1..(Len(queue) - k)
         /\ \A i \in DOMAIN queue' : queue'[i] = queue[i + k] /\ i + k \in DOMAIN queue /\ i + k # k
    BY <1>2, <1>3, <2>2, <2>9
  <2>12. Works(c)' /\ \A d \in Clips \ {c} : ~Works(d)'
    BY <2>10 DEF Works
  <2>13. ClipInv(c)'
    BY <1>1, <1>2, <2>4, <2>8, <2>10, <2>12 DEF ClipInv, Terminal
  <2>14. \A d \in Clips \ {c} : ClipInv(d)'
    BY <1>1, <1>2, <2>8, <2>12, ClipStays
  <2>15. QueueInv'
    <3>1. \A i \in DOMAIN queue' : queue'[i] \in Clips \ {c}
      BY <1>3, <2>2, <2>3, <2>11 DEF ClipsInv, QueueInv
    <3>2. \A i \in DOMAIN queue' : clips'[queue'[i]].state \in {"queued", "cancelled", "forgotten"}
      BY <2>8, <2>11, <3>1 DEF ClipsInv, QueueInv
    <3>3. \A i, j \in DOMAIN queue' : queue'[i] = queue'[j] => i + k = j + k
      BY <2>11 DEF ClipsInv, QueueInv
    <3>4. \A i, j \in DOMAIN queue' : i + k = j + k => i = j
      BY <1>3, <2>2, <2>11
    <3> QED
      BY <3>2, <3>3, <3>4 DEF QueueInv
  <2>16. ClipTypes' /\ AttemptInv' /\ NoClipIsSleptOver'
    BY <1>1, <1>2, <2>8, <2>10, <2>11 DEF ClipTypes, AttemptInv, NoClipIsSleptOver, ClipsInv, Trying
  <2> QED
    BY <2>10, <2>13, <2>14, <2>15, <2>16, ClipAssumption DEF ClipsInv
<1> QED
  BY <1>4, <1>5

LEMMA WorkerRests ==
  ASSUME ClipsInv, Sleeps \/ Awake \/ WorkerStops
  PROVE  ClipsInv'
<1>1. /\ worker.at \in {"idle", "empty", "waiting"}
      /\ \E place \in {"idle", "waiting", "stopped"} : worker' = [Idle EXCEPT !.at = place]
      /\ UNCHANGED <<clips, queue, unsignalled, folder, ffmpeg, cache, program>>
  BY DEF Sleeps, Awake, WorkerStops, encoding, jobs, Idle
<1>2. PICK place \in {"idle", "waiting", "stopped"} : worker' = [Idle EXCEPT !.at = place]
  BY <1>1
<1>3. worker' \in Workers /\ worker'.at = place /\ worker'.clip = NoClip /\ worker'.at \notin Working /\ worker.at \notin Working
  BY <1>1, <1>2 DEF Idle, Workers, Places, Errors, Working
<1>4. wake' \in BOOLEAN
  BY DEF Sleeps, Awake, WorkerStops, ClipsInv, ClipTypes, jobs
<1>5. NoClipIsSleptOver'
  <2>1. CASE Sleeps
    BY <2>1 DEF Sleeps, NoClipIsSleptOver, ClipsInv, Wanted, jobs
  <2>2. CASE Awake
    BY <2>2 DEF Awake, NoClipIsSleptOver, Idle
  <2>3. CASE WorkerStops
    BY <2>3 DEF WorkerStops, NoClipIsSleptOver
  <2> QED
    BY <2>1, <2>2, <2>3
<1>6. ClipTypes' /\ QueueInv'
  BY <1>1, <1>3, <1>4 DEF ClipsInv, ClipTypes, QueueInv
<1>7. AttemptInv'
  <2>1. CASE program = "closed"
    BY <2>1 DEF ClipsInv, AttemptInv, Sleeps, Awake, WorkerStops
  <2>2. CASE program # "closed"
    BY <1>1, <1>3, <2>2 DEF ClipsInv, AttemptInv, Working, Trying
  <2> QED
    BY <2>1, <2>2
<1>8. \A c \in Clips : ClipInv(c)'
  <2>1. \A c \in Clips : ~Works(c) /\ ~Works(c)'
    BY <1>3 DEF Works
  <2> QED
    BY <1>1, <2>1, ClipStays DEF ClipsInv
<1> QED
  BY <1>3, <1>5, <1>6, <1>7, <1>8 DEF ClipsInv

LEMMA Closing ==
  ASSUME ClipsInv, Close
  PROVE  ClipsInv'
<1>1. /\ program' = "closing" /\ queue' = <<>> /\ UNCHANGED <<folder, unsignalled, wake, worker, ffmpeg, cache>>
      /\ clips' = [c \in Clips |-> IF InJobs(c) /\ clips[c].state \notin Terminal THEN CancelledJob(clips[c]) ELSE clips[c]]
      /\ program = "open"
  BY DEF Close, encoding
<1>2. /\ ClipTypes /\ \A c \in Clips : clips[c] \in Jobs /\ ClipInv(c) /\ folder[c] \in Files
  BY DEF ClipsInv, ClipTypes
<1>3. \A job \in Jobs : /\ CancelledJob(job) \in Jobs /\ CancelledJob(job).state = "cancelled"
                        /\ CancelledJob(job).active = job.active /\ CancelledJob(job).ended = ~job.active
  BY DEF Jobs, CancelledJob, States, Terminal
<1>4. clips' \in [Clips -> Jobs]
  BY <1>1, <1>2, <1>3
<1>5. ASSUME NEW c \in Clips PROVE ClipInv(c)'
  <2>1. Works(c)' <=> Works(c)
    BY <1>1 DEF Works
  <2>2. CASE InJobs(c) /\ clips[c].state \notin Terminal
    <3>1. clips[c].state \in {"queued", "encoding", "retrying"}
      BY <1>2, <2>2 DEF InJobs, Jobs, States
    <3>2. clips'[c].state = "cancelled" /\ clips'[c].active = clips[c].active /\ clips'[c].ended = ~clips[c].active
      BY <1>1, <1>2, <1>3, <2>2
    <3> QED
      BY <1>1, <1>2, <2>1, <3>1, <3>2 DEF ClipInv, Terminal
  <2>3. CASE ~(InJobs(c) /\ clips[c].state \notin Terminal)
    <3>1. clips'[c] = clips[c]
      BY <1>1, <2>3
    <3> QED
      BY <1>1, <1>2, <2>1, <3>1, ClipStays
  <2> QED
    BY <2>2, <2>3
<1>6. ClipTypes' /\ AttemptInv' /\ QueueInv' /\ NoClipIsSleptOver'
  BY <1>1, <1>2, <1>4 DEF ClipsInv, ClipTypes, AttemptInv, QueueInv, NoClipIsSleptOver
<1> QED
  BY <1>1, <1>5, <1>6 DEF ClipsInv

LEMMA ClosingRemoves ==
  ASSUME ClipsInv, CloseRemoves
  PROVE  ClipsInv'
<1>1. /\ program' = "closed" /\ worker.at = "stopped" /\ UNCHANGED <<queue, unsignalled, wake, worker, ffmpeg, cache>>
      /\ program = "closing"
  BY DEF CloseRemoves, encoding
<1>2. PICK failing \in SUBSET {c \in Clips : InJobs(c)} :
        /\ clips' = [c \in Clips |-> IF InJobs(c) /\ c \notin failing
                                     THEN [clips[c] EXCEPT !.state = "forgotten"] ELSE clips[c]]
        /\ folder' = [c \in Clips |-> IF InJobs(c) /\ c \notin failing THEN "none" ELSE folder[c]]
  BY DEF CloseRemoves
<1>3. /\ ClipTypes /\ \A c \in Clips : clips[c] \in Jobs /\ ClipInv(c) /\ folder[c] \in Files /\ ~Works(c) /\ ~Works(c)'
  BY <1>1 DEF ClipsInv, ClipTypes, Works, Working
<1>4. \A job \in Jobs : LET gone == [job EXCEPT !.state = "forgotten"] IN
        gone \in Jobs /\ gone.state = "forgotten" /\ gone.active = job.active /\ gone.ended = job.ended
  BY DEF Jobs, States
<1>5. clips' \in [Clips -> Jobs] /\ folder' \in [Clips -> Files]
  <2>1. "none" \in Files
    BY DEF Files
  <2> QED
    BY <1>2, <1>3, <1>4, <2>1
<1>6. \A c \in Clips : \/ clips'[c] = clips[c] /\ folder'[c] = folder[c]
                       \/ /\ clips'[c].state = "forgotten" /\ clips'[c].active = clips[c].active
                          /\ folder'[c] = "none"
  BY <1>2, <1>3, <1>4
<1>7. ASSUME NEW c \in Clips PROVE ClipInv(c)'
  <2>1. CASE clips'[c] = clips[c] /\ folder'[c] = folder[c]
    BY <1>3, <2>1, ClipStays
  <2>2. CASE clips'[c].state = "forgotten" /\ clips'[c].active = clips[c].active /\ folder'[c] = "none"
    BY <1>3, <2>2 DEF ClipInv
  <2> QED
    BY <1>6, <2>1, <2>2
<1>8. QueueInv'
  <2>1. \A i \in DOMAIN queue : queue[i] \in Clips
    BY <1>3 DEF ClipTypes
  <2> QED
    BY <1>1, <1>6, <2>1 DEF ClipsInv, QueueInv
<1>9. ClipTypes' /\ AttemptInv' /\ NoClipIsSleptOver'
  BY <1>1, <1>3, <1>5 DEF ClipsInv, ClipTypes, AttemptInv, NoClipIsSleptOver, Trying
<1> QED
  BY <1>1, <1>7, <1>8, <1>9 DEF ClipsInv

LEMMA Killing ==
  ASSUME ClipsInv, Kill
  PROVE  ClipsInv'
<1>1. /\ program' = "killed" /\ ffmpeg' = (IF ffmpeg \in {"contained", "running"} THEN "none" ELSE ffmpeg)
      /\ UNCHANGED <<clips, queue, unsignalled, wake, folder, worker, cache>>
  BY DEF Kill, jobs
<1>2. ClipTypes' /\ AttemptInv' /\ QueueInv' /\ NoClipIsSleptOver'
  BY <1>1 DEF ClipsInv, ClipTypes, AttemptInv, QueueInv, NoClipIsSleptOver
<1>3. \A c \in Clips : Works(c)' <=> Works(c)
  BY <1>1 DEF Works
<1>4. \A c \in Clips : ClipInv(c)'
  BY <1>1, <1>3, ClipStays DEF ClipsInv
<1> QED
  BY <1>1, <1>2, <1>4 DEF ClipsInv

LEMMA ClipsInvInit == ClipInit => ClipsInv
<1> SUFFICES ASSUME ClipInit PROVE ClipsInv
  OBVIOUS
<1>1. Idle \in Workers /\ Idle.at = "idle" /\ Idle.clip = NoClip /\ "idle" \notin Working /\ "idle" \notin Trying
  BY DEF Idle, Workers, Places, Errors, Working, Trying
<1>2. NoJob \in Jobs /\ NoJob.state = "none" /\ NoJob.active = FALSE /\ NoJob.ended = FALSE /\ "none" \in Files
  BY DEF NoJob, Jobs, States, Files
<1>3. ClipTypes /\ AttemptInv /\ QueueInv /\ NoClipIsSleptOver
  <2>1. ClipTypes
    <3>1. clips \in [Clips -> Jobs] /\ folder \in [Clips -> Files]
      BY <1>2 DEF ClipInit
    <3>2. queue = <<>> /\ <<>> \in Seq(Clips)
      BY DEF ClipInit
    <3> QED
      BY <1>1, <3>1, <3>2 DEF ClipInit, ClipTypes
  <2>2. AttemptInv
    BY <1>1 DEF ClipInit, AttemptInv
  <2>3. QueueInv
    BY DEF ClipInit, QueueInv
  <2>4. NoClipIsSleptOver
    BY <1>1 DEF ClipInit, NoClipIsSleptOver
  <2> QED
    BY <2>1, <2>2, <2>3, <2>4
<1>4. \A c \in Clips : clips[c].state = "none" /\ ~clips[c].active /\ ~clips[c].ended /\ ~Works(c)
  BY <1>1, <1>2 DEF ClipInit, Works
<1>5. \A c \in Clips : ClipInv(c)
  BY <1>4 DEF ClipInv
<1> QED
  BY <1>1, <1>3, <1>5 DEF ClipsInv, ClipInit

LEMMA ClipsInvNext == ClipsInv /\ [ClipNext]_clipVars => ClipsInv'
<1> SUFFICES ASSUME ClipsInv, [ClipNext]_clipVars PROVE ClipsInv'
  OBVIOUS
<1>1. CASE UNCHANGED clipVars
  <2>1. UNCHANGED <<clips, queue, unsignalled, wake, folder, worker, ffmpeg, cache, program>>
    BY <1>1 DEF clipVars
  <2>2. \A c \in Clips : (Works(c)' <=> Works(c)) /\ ClipInv(c)
    BY <2>1 DEF Works, ClipsInv
  <2>3. \A c \in Clips : ClipInv(c)'
    BY <2>1, <2>2, ClipStays
  <2>4. ClipTypes' /\ AttemptInv' /\ QueueInv' /\ NoClipIsSleptOver'
    BY <2>1 DEF ClipsInv, ClipTypes, AttemptInv, QueueInv, NoClipIsSleptOver, Wanted
  <2> QED
    BY <2>1, <2>3, <2>4 DEF ClipsInv
<1>2. CASE ClipNext
  BY <1>2, RequestSteps, CommitAndSignal, Taking, WorkerRests, AttemptSteps, WorkerSteps, Closing, ClosingRemoves, Killing
     DEF ClipNext
<1> QED
  BY <1>1, <1>2

\* Whoever cancels, sweeps or closes meanwhile, a clip has its directory for as long as
\* it waits or is worked on; what is offered as ready is whole; and the worker never
\* sleeps while a clip waits for it.
THEOREM ClipsAlwaysServed == ClipSpec => []ClipsAreServed
<1>1. ClipsInv => ClipsAreServed
  <2> SUFFICES ASSUME ClipsInv PROVE ClipsKeepTheirFiles
    BY DEF ClipsAreServed, ClipsInv
  <2>1. ASSUME NEW c \in Clips
        PROVE  /\ InUse(c) => folder[c] \notin {"none", "source"}
               /\ clips[c].state = "forgotten" => folder[c] = "none"
               /\ clips[c].state = "ready" => folder[c] # "partial"
    <3>1. ClipInv(c) /\ clips[c] \in Jobs
      BY DEF ClipsInv, ClipTypes
    <3>2. InUse(c) => clips[c].state \in {"writing", "queued", "encoding", "retrying"} \/ Works(c)
      BY <3>1 DEF InUse, InJobs, Works, Jobs, States
    <3> QED
      BY <3>1, <3>2 DEF ClipInv
  <2> QED
    BY <2>1 DEF ClipsKeepTheirFiles
<1> QED
  BY <1>1, ClipsInvInit, ClipsInvNext, PTL DEF ClipSpec

\* Whichever way the program ends, between whichever two steps of an attempt, no encoder
\* runs on without it; and none runs whose file has not been verified.
THEOREM EncodersAlwaysEnd == ClipSpec => []EncodersEndWithThePanel
<1>1. ClipsInv => EncodersEndWithThePanel
  <2> SUFFICES ASSUME ClipsInv PROVE EncodersEndWithThePanel
    OBVIOUS
  <2>1. ffmpeg \in {"none", "suspended", "contained", "running"} /\ AttemptInv
    BY DEF ClipsInv, ClipTypes
  <2> QED
    BY <2>1 DEF AttemptInv, EncodersEndWithThePanel, Trying
<1> QED
  BY <1>1, ClipsInvInit, ClipsInvNext, PTL DEF ClipSpec

-----------------------------------------------------------------------------
(***************************************************************************)
(* The edits of attributes (AttributeEdits).  A lease that is in force     *)
(* keeps the rules from its attribute, so what its session has seen stays  *)
(* the result; and whoever has the store's lock has it alone, so what an   *)
(* edit was merged with is what it replaces.                               *)
(***************************************************************************)
Leases == [held : BOOLEAN, of : Attributes \cup {Nobody}, claims : Int, releasing : BOOLEAN,
           expired : BOOLEAN, due : BOOLEAN]
Editors == [at : {"closed", "editing", "releasing", "waiting"}, of : Attributes \cup {Nobody},
            token : Nat, seen : Nat, own : BOOLEAN]
Configs == [name : [Attributes -> Names \cup {Nobody}], rule : [Rules -> Names \cup {Nobody}],
            scene : SUBSET Names, received : BOOLEAN]
Submissions == [at : {"new", "claimed", "locked", "merged", "finish", "done"}, of : Attributes \cup {Nobody},
                token : Nat, seen : Nat, own : BOOLEAN, next : Configs \cup {Nobody}]
RuleSteps == [at : {"none", "applied"}, on : SUBSET Attributes]

EditTypes ==
  /\ config \in Configs /\ identified \in SUBSET Attributes /\ results \in [Attributes -> Nat]
  /\ leases \in [Tokens -> Leases] /\ issued \in 0..MaxTokens
  /\ editor \in [Pages -> Editors] /\ edit \in [Edits -> Submissions] /\ rules \in RuleSteps

InForce(lease) == lease.held /\ ~lease.expired /\ ~lease.due

\* The store's lock.
StoreLockInv ==
  /\ \A e \in Edits : edit[e].at \in {"locked", "merged"} => storeLock = e /\ rules.at = "none"
  /\ rules.at = "applied" => storeLock = "rules"

\* A lease is of an attribute with an ID, and keeps the rules from it.
LeasesInv ==
  \A t \in Tokens :
    /\ leases[t].held => t <= issued /\ leases[t].of \in identified
    /\ InForce(leases[t]) /\ rules.at = "applied" => leases[t].of \notin rules.on

EditorInv(p) ==
  editor[p].at # "closed" =>
    /\ editor[p].token \in 1..issued /\ editor[p].of \in identified
    /\ editor[p].at = "waiting" => leases[editor[p].token].claims > 0
    /\ editor[p].own /\ InForce(leases[editor[p].token]) =>
         leases[editor[p].token].of = editor[p].of /\ results[editor[p].of] = editor[p].seen
EditorsInv == \A p \in Pages : EditorInv(p)

MergedWith(d, c) ==
  \E name \in Names, owned \in SUBSET Rules :
    /\ Accepted(c, d.of, name, owned, d.token = NoToken)
    /\ d.next = Edited(c, d.of, name, owned)

SubmissionInv(e) ==
  /\ edit[e].at \in {"claimed", "locked", "merged", "finish"} => edit[e].token \in 0..issued /\ edit[e].of \in Attributes
  /\ (edit[e].at \in {"claimed", "locked", "merged"} /\ edit[e].own /\ edit[e].token # NoToken
        /\ InForce(leases[edit[e].token])) =>
       leases[edit[e].token].of = edit[e].of /\ results[edit[e].of] = edit[e].seen
  /\ edit[e].at = "merged" => MergedWith(edit[e], config)
SubmissionsInv == \A e \in Edits : SubmissionInv(e)

EditInv == EditTypes /\ StoreLockInv /\ LeasesInv /\ EditorsInv /\ SubmissionsInv

LEMMA NoLeaseIsOne == NoLease \in Leases /\ ~NoLease.held /\ NoLease.claims = 0 /\ NoLease.of = Nobody
  /\ ~NoLease.expired /\ ~NoLease.due
BY DEF NoLease, Leases

LEMMA SweptLeases ==
  ASSUME leases \in [Tokens -> Leases]
  PROVE  /\ Swept \in [Tokens -> Leases]
         /\ \A t \in Tokens :
              /\ Swept[t].held => leases[t].held /\ Swept[t].of = leases[t].of
              /\ leases[t].claims > 0 => Swept[t].claims > 0
              /\ InForce(Swept[t]) => Swept[t] = leases[t]
              /\ Swept[t].held /\ ~Swept[t].expired => Swept[t] = leases[t] /\ InForce(leases[t])
              /\ InForce(leases[t]) => Swept[t] = leases[t]
<1>1. \A t \in Tokens : [leases[t] EXCEPT !.expired = TRUE] \in Leases
                        /\ [leases[t] EXCEPT !.expired = TRUE].held = leases[t].held
                        /\ [leases[t] EXCEPT !.expired = TRUE].of = leases[t].of
                        /\ [leases[t] EXCEPT !.expired = TRUE].claims = leases[t].claims
                        /\ [leases[t] EXCEPT !.expired = TRUE].expired = TRUE
  <2> TAKE t \in Tokens
  <2>1. PICK lease \in Leases : lease = leases[t]
    OBVIOUS
  <2> QED
    BY <2>1 DEF Leases
<1>2. \A t \in Tokens : \/ leases[t].due = FALSE /\ Swept[t] = leases[t]
                        \/ leases[t].due = TRUE /\ leases[t].claims = 0 /\ Swept[t] = NoLease
                        \/ leases[t].due = TRUE /\ leases[t].claims # 0 /\ Swept[t] = [leases[t] EXCEPT !.expired = TRUE]
  BY DEF Swept, Leases
<1>3. Swept \in [Tokens -> Leases]
  <2>1. \A t \in Tokens : Swept[t] \in Leases
    BY <1>1, <1>2, NoLeaseIsOne
  <2>2. Swept = [t \in Tokens |-> Swept[t]]
    BY DEF Swept
  <2> QED
    BY <2>1, <2>2
<1>4. \A t \in Tokens : leases[t].claims \in Int
  BY DEF Leases
<1> QED
  BY <1>1, <1>2, <1>3, <1>4, NoLeaseIsOne DEF InForce

\* Leases that lose force at most.
LapseIn(S, after) ==
  /\ after \in [Tokens -> Leases]
  /\ \A t \in S : /\ after[t].held => leases[t].held /\ after[t].of = leases[t].of
                  /\ InForce(after[t]) => InForce(leases[t])
ClaimsStay(S, after) == \A t \in S : leases[t].claims > 0 => after[t].claims > 0

Lapse(after) == LapseIn(Tokens, after)
Fade(after) == Lapse(after) /\ ClaimsStay(Tokens, after)

\* The same of the leases so far.
LapseSoFar(after) == LapseIn(1..issued, after)
FadeSoFar(after) == LapseSoFar(after) /\ ClaimsStay(1..issued, after)

LEMMA FadesSoFar == ASSUME issued \in 0..MaxTokens, NEW after, Fade(after) PROVE FadeSoFar(after)
BY EditAssumption DEF Fade, FadeSoFar, Lapse, LapseSoFar, LapseIn, ClaimsStay, Tokens

LEMMA LapsesSoFar == ASSUME issued \in 0..MaxTokens, NEW after, Lapse(after) PROVE LapseSoFar(after)
BY EditAssumption DEF Lapse, LapseSoFar, LapseIn, Tokens

LEMMA SweptFades == ASSUME leases \in [Tokens -> Leases] PROVE Fade(Swept)
BY SweptLeases DEF Fade, Lapse, LapseIn, ClaimsStay

LEMMA StayingFades == ASSUME leases \in [Tokens -> Leases] PROVE Fade(leases)
BY DEF Fade, Lapse, LapseIn, ClaimsStay

LEMMA FadesOne ==
  ASSUME leases \in [Tokens -> Leases], NEW t \in Tokens, NEW base, Fade(base), NEW lease \in Leases,
         lease.held => base[t].held /\ lease.of = base[t].of,
         InForce(lease) => InForce(base[t]), base[t].claims > 0 => lease.claims > 0
  PROVE  Fade([base EXCEPT ![t] = lease])
BY DEF Fade, Lapse, LapseIn, ClaimsStay

\* What is said of the leases, of an editor and of a submission stays when leases fade.
LEMMA LeasesKept ==
  ASSUME EditInv, Lapse(leases'), UNCHANGED rules, issued' = issued, identified \subseteq identified'
  PROVE  LeasesInv'
<1> SUFFICES ASSUME NEW t \in Tokens
             PROVE  /\ leases'[t].held => t <= issued /\ leases'[t].of \in identified'
                    /\ InForce(leases'[t]) /\ rules.at = "applied" => leases'[t].of \notin rules.on
  BY DEF LeasesInv, InForce
<1>1. leases'[t].held => leases[t].held /\ leases'[t].of = leases[t].of
  BY DEF Lapse, LapseIn
<1>2. InForce(leases'[t]) => InForce(leases[t]) /\ leases'[t].held
  BY DEF Lapse, LapseIn, InForce
<1>3. leases[t].held => t <= issued /\ leases[t].of \in identified
  BY DEF EditInv, LeasesInv
<1>4. InForce(leases[t]) /\ rules.at = "applied" => leases[t].of \notin rules.on
  BY DEF EditInv, LeasesInv
<1> QED
  BY <1>1, <1>2, <1>3, <1>4

LEMMA EditorMoves ==
  ASSUME EditInv, LapseSoFar(leases'), UNCHANGED results, issued <= issued', issued' \in Nat, identified \subseteq identified',
         NEW p \in Pages, editor'[p].at = "closed" \/ editor[p].at # "closed",
         editor'[p].token = editor[p].token, editor'[p].of = editor[p].of, editor'[p].own = editor[p].own,
         editor'[p].seen = editor[p].seen, editor'[p].at = "waiting" => leases'[editor[p].token].claims > 0
  PROVE  EditorInv(p)'
<1>1. issued \in Nat
  BY EditAssumption DEF EditInv, EditTypes
<1>2. CASE editor'[p].at = "closed"
  BY <1>2 DEF EditorInv
<1>3. CASE editor'[p].at # "closed"
  <2>1. PICK t \in 1..issued : t = editor[p].token
    BY <1>3 DEF EditInv, EditorsInv, EditorInv
  <2>2. InForce(leases'[t]) => InForce(leases[t]) /\ leases'[t].of = leases[t].of
    BY DEF LapseSoFar, LapseIn, InForce
  <2>3. t \in 1..issued' /\ editor[p].of \in identified'
    BY <1>1, <1>3 DEF EditInv, EditorsInv, EditorInv
  <2>4. editor[p].own /\ InForce(leases'[t]) => leases'[t].of = editor[p].of /\ results[editor[p].of] = editor[p].seen
    BY <1>3, <2>1, <2>2 DEF EditInv, EditorsInv, EditorInv
  <2>5. /\ editor'[p].token \in 1..issued' /\ editor'[p].of \in identified'
        /\ editor'[p].at = "waiting" => leases'[editor'[p].token].claims > 0
        /\ editor'[p].own /\ InForce(leases'[editor'[p].token]) =>
             leases'[editor'[p].token].of = editor'[p].of /\ results'[editor'[p].of] = editor'[p].seen
    BY <2>1, <2>3, <2>4
  <2> QED
    BY <2>5 DEF EditorInv
<1> QED
  BY <1>2, <1>3

LEMMA EditorStays ==
  ASSUME EditInv, FadeSoFar(leases'), UNCHANGED results, issued <= issued', issued' \in Nat, identified \subseteq identified',
         NEW p \in Pages, editor'[p] = editor[p]
  PROVE  EditorInv(p)'
<1>1. editor[p].at = "waiting" => leases'[editor[p].token].claims > 0
  BY DEF EditInv, EditorsInv, EditorInv, FadeSoFar, ClaimsStay
<1> QED
  BY <1>1, EditorMoves DEF FadeSoFar

\* Of all submissions but one.
LEMMA OthersKept ==
  ASSUME EditInv, LapseSoFar(leases'), UNCHANGED <<results>>, issued <= issued', issued' \in Nat,
         NEW who, \A e \in Edits \ {who} : edit'[e] = edit[e],
         config' = config \/ (\A e \in Edits \ {who} : edit[e].at # "merged")
  PROVE  \A e \in Edits \ {who} : SubmissionInv(e)'
<1>1. issued \in Nat /\ MaxTokens \in Nat /\ issued <= MaxTokens
  BY EditAssumption DEF EditInv, EditTypes
<1> SUFFICES ASSUME NEW e \in Edits \ {who}
    PROVE
    /\ edit[e].at \in {"claimed", "locked", "merged", "finish"} => edit[e].token \in 0..issued' /\ edit[e].of \in Attributes
    /\ (edit[e].at \in {"claimed", "locked", "merged"} /\ edit[e].own /\ edit[e].token # NoToken
          /\ InForce(leases'[edit[e].token])) =>
         leases'[edit[e].token].of = edit[e].of /\ results[edit[e].of] = edit[e].seen
    /\ edit[e].at = "merged" => MergedWith(edit[e], config')
  BY DEF SubmissionInv
<1>2. edit[e].at \in {"claimed", "locked", "merged", "finish"} => edit[e].token \in 0..issued /\ edit[e].of \in Attributes
  BY DEF EditInv, SubmissionsInv, SubmissionInv
<1>3. ASSUME edit[e].at \in {"claimed", "locked", "merged"}, edit[e].own, edit[e].token # NoToken,
             InForce(leases'[edit[e].token])
      PROVE  leases'[edit[e].token].of = edit[e].of /\ results[edit[e].of] = edit[e].seen
  <2>1. edit[e].token \in Tokens
    BY <1>1, <1>2, <1>3 DEF Tokens, NoToken
  <2>2. InForce(leases[edit[e].token]) /\ leases'[edit[e].token].of = leases[edit[e].token].of
    BY <1>1, <1>2, <1>3, <2>1 DEF LapseSoFar, LapseIn, InForce, NoToken
  <2> QED
    BY <1>3, <2>2 DEF EditInv, SubmissionsInv, SubmissionInv
<1>4. edit[e].at = "merged" => MergedWith(edit[e], config')
  BY DEF EditInv, SubmissionsInv, SubmissionInv
<1> QED
  BY <1>1, <1>2, <1>3, <1>4

LEMMA TheEdits ==
  ASSUME EditInv
  PROVE  /\ config \in Configs /\ identified \in SUBSET Attributes /\ results \in [Attributes -> Nat]
         /\ leases \in [Tokens -> Leases] /\ issued \in 0..MaxTokens /\ issued \in Nat /\ MaxTokens \in Nat
         /\ editor \in [Pages -> Editors] /\ edit \in [Edits -> Submissions] /\ rules \in RuleSteps
         /\ Tokens = 1..MaxTokens
BY EditAssumption DEF EditInv, EditTypes, Tokens

\* Only the leases change, and fade.
LEMMA QuietKept ==
  ASSUME EditInv, Fade(leases'), UNCHANGED <<config, identified, results, issued, storeLock, editor, edit, rules>>
  PROVE  EditInv'
<1>1. EditTypes' /\ StoreLockInv'
  BY DEF EditInv, EditTypes, StoreLockInv, Fade, Lapse, LapseIn
<1>2. LeasesInv'
  BY LeasesKept DEF Fade
<1>3. FadeSoFar(leases')
  BY TheEdits, FadesSoFar
<1>31. EditorsInv'
  <2>1. issued <= issued' /\ issued' \in Nat
    BY TheEdits
  <2>2. \A p \in Pages : EditorInv(p)'
    BY <1>3, <2>1, EditorStays
  <2> QED
    BY <2>2 DEF EditorsInv
<1>4. PICK who : who \notin Edits
  <2>1. \E who : who \notin Edits
    BY EditAssumption
  <2> QED
    BY <2>1
<1>5. SubmissionsInv'
  <2>1. issued <= issued' /\ issued' \in Nat
    BY TheEdits
  <2>2. \A e \in Edits \ {who} : SubmissionInv(e)'
    BY <1>3, <2>1, OthersKept DEF FadeSoFar
  <2> QED
    BY <1>4, <2>2 DEF SubmissionsInv
<1> QED
  BY <1>1, <1>2, <1>31, <1>5 DEF EditInv

LEMMA LeaseRunsOutKept ==
  ASSUME EditInv, NEW t \in Tokens, LeaseRunsOut(t)
  PROVE  EditInv'
<1>1. PICK lease \in Leases : lease = leases[t]
  BY TheEdits
<1>2. [lease EXCEPT !.due = TRUE] \in Leases /\ [lease EXCEPT !.due = TRUE].held = lease.held
      /\ [lease EXCEPT !.due = TRUE].of = lease.of /\ [lease EXCEPT !.due = TRUE].claims = lease.claims
      /\ [lease EXCEPT !.due = TRUE].due = TRUE
  BY DEF Leases
<1>3. leases' = [leases EXCEPT ![t] = [lease EXCEPT !.due = TRUE]]
  BY <1>1 DEF LeaseRunsOut
<1>4. Fade(leases')
  BY <1>1, <1>2, <1>3, TheEdits, StayingFades, FadesOne DEF InForce
<1> QED
  BY <1>4, QuietKept DEF LeaseRunsOut

LEMMA OwnedLeases ==
  ASSUME EditInv, NEW a, NEW t \in 0..issued, Owns(a, t)
  PROVE  t \in Tokens /\ Swept[t] = leases[t] /\ leases[t] \in Leases /\ InForce(leases[t]) /\ leases[t].of = a /\ leases[t].held
<1>1. t \in Tokens /\ Swept[t].held /\ ~Swept[t].expired /\ Swept[t].of = a
  BY TheEdits DEF Owns, NoToken
<1> QED
  BY <1>1, TheEdits, SweptLeases DEF InForce

LEMMA RenewKept ==
  ASSUME EditInv, NEW p \in Pages, Renew(p)
  PROVE  EditInv'
<1>1. PICK t \in 1..issued : t = editor[p].token
  BY DEF EditInv, EditorsInv, EditorInv, Renew
<1>2. t \in 0..issued /\ Owns(editor[p].of, t)
  BY <1>1, TheEdits DEF Renew
<1>3. t \in Tokens /\ Swept[t] = leases[t] /\ leases[t] \in Leases /\ InForce(leases[t])
  BY <1>2, OwnedLeases
<1>4. PICK lease \in Leases : lease = leases[t]
  BY <1>3
<1>5. [lease EXCEPT !.due = FALSE] \in Leases /\ [lease EXCEPT !.due = FALSE].held = lease.held
      /\ [lease EXCEPT !.due = FALSE].of = lease.of /\ [lease EXCEPT !.due = FALSE].claims = lease.claims
  BY DEF Leases
<1>6. leases' = [Swept EXCEPT ![t] = [lease EXCEPT !.due = FALSE]]
  BY <1>1, <1>3, <1>4, TheEdits, SweptLeases DEF Renew
<1>7. Fade(leases')
  BY <1>3, <1>4, <1>5, <1>6, TheEdits, SweptFades, FadesOne
<1> QED
  BY <1>7, QuietKept DEF Renew

\* A new lease, and an editor that may have its token.
LEMMA LeasedKept ==
  ASSUME EditInv, NEW p \in Pages, NEW a \in identified', leases' = Lease(a), issued' = issued + 1, issued < MaxTokens,
         storeLock = Nobody, identified \subseteq identified', identified' \in SUBSET Attributes,
         UNCHANGED <<config, results, storeLock, edit, rules>>, editor' \in [Pages -> Editors],
         \A q \in Pages \ {p} : editor'[q] = editor[q],
         \/ editor'[p] = editor[p]
         \/ /\ editor'[p].at = "editing" /\ editor'[p].of = a /\ editor'[p].token = issued + 1
            /\ editor'[p].own => editor'[p].seen = results[a]
  PROVE  EditInv'
<1>1. leases \in [Tokens -> Leases] /\ issued \in Nat /\ issued + 1 \in Tokens /\ a \in Attributes /\ issued + 1 \notin 1..issued
      /\ \A t \in 1..issued : t \in Tokens
  BY TheEdits
<1>2. PICK held \in Leases : held = [NoLease EXCEPT !.held = TRUE]
  BY NoLeaseIsOne DEF Leases
<1>3. held.held = TRUE /\ held.claims = 0 /\ held.expired = FALSE /\ held.due = FALSE
  BY <1>2, NoLeaseIsOne DEF Leases, NoLease
<1>4. PICK new \in Leases : new = [held EXCEPT !.of = a]
  BY <1>1 DEF Leases
<1>5. new.held = TRUE /\ new.of = a /\ new.claims = 0 /\ new.expired = FALSE /\ new.due = FALSE
  BY <1>3, <1>4 DEF Leases
<1>6. leases' = [Swept EXCEPT ![issued + 1] = new]
  BY <1>2, <1>4 DEF Lease
<1>7. leases' \in [Tokens -> Leases] /\ leases'[issued + 1] = new
      /\ \A t \in Tokens \ {issued + 1} : leases'[t] = Swept[t]
  BY <1>1, <1>6, SweptLeases
<1>8. \A t \in Tokens \ {issued + 1} : /\ leases'[t].held => leases[t].held /\ leases'[t].of = leases[t].of
                                       /\ InForce(leases'[t]) => InForce(leases[t])
                                       /\ leases[t].claims > 0 => leases'[t].claims > 0
  BY <1>1, <1>7, SweptFades DEF Fade, Lapse, LapseIn, ClaimsStay
<1>9. FadeSoFar(leases')
  BY <1>1, <1>7, <1>8 DEF FadeSoFar, LapseSoFar, LapseIn, ClaimsStay
<1>10. rules.at # "applied"
  BY EditAssumption DEF EditInv, StoreLockInv
<1>11. EditTypes'
  BY <1>1, <1>7, TheEdits DEF EditInv, EditTypes
<1>12. StoreLockInv'
  BY DEF EditInv, StoreLockInv
<1>13. LeasesInv'
  <2> SUFFICES ASSUME NEW t \in Tokens, leases'[t].held PROVE t <= issued' /\ leases'[t].of \in identified'
    BY <1>10 DEF LeasesInv
  <2>1. CASE t = issued + 1
    BY <1>1, <1>5, <1>7, <2>1
  <2>2. CASE t # issued + 1
    BY <1>1, <1>8, <2>2 DEF EditInv, LeasesInv, Tokens
  <2> QED
    BY <2>1, <2>2
<1>14. EditorsInv'
  <2> SUFFICES ASSUME NEW q \in Pages PROVE EditorInv(q)'
    BY DEF EditorsInv
  <2>1. CASE editor'[q] = editor[q]
    <3>1. issued <= issued' /\ issued' \in Nat
      BY <1>1
    <3> QED
      BY <1>9, <2>1, <3>1, EditorStays
  <2>2. CASE q = p /\ editor'[p] # editor[p]
    <3>1. editor'[q].token \in 1..issued' /\ editor'[q].of \in identified' /\ editor'[q].at = "editing"
      BY <1>1, <2>2
    <3>2. leases'[editor'[q].token].of = editor'[q].of /\ (editor'[q].own => results'[editor'[q].of] = editor'[q].seen)
      BY <1>1, <1>5, <1>7, <2>2
    <3> QED
      BY <3>1, <3>2 DEF EditorInv
  <2> QED
    BY <2>1, <2>2
<1>15. PICK who : who \notin Edits
  BY EditAssumption
<1>16. SubmissionsInv'
  <2>1. issued <= issued' /\ issued' \in Nat
    BY <1>1
  <2>2. \A e \in Edits \ {who} : SubmissionInv(e)'
    BY <1>9, <2>1, OthersKept DEF FadeSoFar
  <2> QED
    BY <1>15, <2>2 DEF SubmissionsInv
<1> QED
  BY <1>11, <1>12, <1>13, <1>14, <1>16 DEF EditInv

LEMMA OpenEditorKept ==
  ASSUME EditInv, NEW p \in Pages, NEW a \in Attributes, OpenEditor(p, a)
  PROVE  EditInv'
<1>1. PICK opened : opened = [at |-> "editing", of |-> a, token |-> issued + 1, seen |-> results[a], own |-> TRUE]
  OBVIOUS
<1>2. opened \in Editors /\ opened.at = "editing" /\ opened.of = a /\ opened.token = issued + 1 /\ opened.seen = results[a]
  BY <1>1, TheEdits DEF Editors
<1>3. /\ a \in identified' /\ identified \subseteq identified' /\ identified' \in SUBSET Attributes
      /\ leases' = Lease(a) /\ issued' = issued + 1 /\ issued < MaxTokens /\ storeLock = Nobody
      /\ UNCHANGED <<config, results, storeLock, edit, rules>>
      /\ (editor' = [editor EXCEPT ![p] = opened] \/ UNCHANGED editor)
  BY <1>1, TheEdits DEF OpenEditor
<1>4. editor' \in [Pages -> Editors] /\ (editor'[p] = editor[p] \/ editor'[p] = opened)
      /\ \A q \in Pages \ {p} : editor'[q] = editor[q]
  BY <1>2, <1>3, TheEdits
<1> QED
  BY <1>2, <1>3, <1>4, LeasedKept

LEMMA ReacquireKept ==
  ASSUME EditInv, NEW p \in Pages, Reacquire(p)
  PROVE  EditInv'
<1>1. PICK old \in Editors : old = editor[p]
  BY TheEdits
<1>2. PICK mid \in Editors : mid = [old EXCEPT !.token = issued + 1]
  <2>1. issued + 1 \in Nat
    BY TheEdits
  <2> QED
    BY <2>1 DEF Editors
<1>3. mid.at = old.at /\ mid.of = old.of /\ mid.token = issued + 1
  BY <1>1, <1>2, TheEdits DEF Editors
<1>4. PICK new \in Editors : new = [mid EXCEPT !.own = FALSE]
  BY <1>2 DEF Editors
<1>5. new.at = old.at /\ new.of = old.of /\ new.token = issued + 1 /\ new.own = FALSE
  BY <1>2, <1>3, <1>4 DEF Editors
<1>6. editor' = [editor EXCEPT ![p] = new]
  BY <1>1, <1>2, <1>4, TheEdits DEF Reacquire
<1>7. /\ old.of \in identified' /\ identified' \in SUBSET Attributes /\ identified \subseteq identified' /\ old.at = "editing"
      /\ leases' = Lease(old.of) /\ issued' = issued + 1 /\ issued < MaxTokens /\ storeLock = Nobody
      /\ UNCHANGED <<config, results, storeLock, edit, rules>>
  BY <1>1, TheEdits DEF Reacquire, EditInv, EditorsInv, EditorInv
<1>8. editor' \in [Pages -> Editors] /\ editor'[p] = new /\ \A q \in Pages \ {p} : editor'[q] = editor[q]
  BY <1>6, TheEdits
<1> QED
  BY <1>5, <1>7, <1>8, LeasedKept

LEMMA SubmissionsStay ==
  ASSUME EditInv, LapseSoFar(leases'), UNCHANGED <<results, issued, edit, config>>
  PROVE  SubmissionsInv'
<1>1. PICK who : who \notin Edits
  BY EditAssumption
<1>2. issued <= issued' /\ issued' \in Nat
  BY TheEdits
<1>3. \A e \in Edits \ {who} : SubmissionInv(e)'
  BY <1>2, OthersKept
<1> QED
  BY <1>1, <1>3 DEF SubmissionsInv

\* An editor moves, and the leases fade.
LEMMA EditorStepKept ==
  ASSUME EditInv, Fade(leases'), UNCHANGED <<config, identified, results, issued, storeLock, edit, rules>>,
         editor' \in [Pages -> Editors], \A p \in Pages : editor'[p] = editor[p] \/ EditorInv(p)'
  PROVE  EditInv'
<1>1. EditTypes' /\ StoreLockInv'
  BY DEF EditInv, EditTypes, StoreLockInv, Fade, Lapse, LapseIn
<1>2. LeasesInv'
  BY LeasesKept DEF Fade
<1>3. FadeSoFar(leases') /\ issued <= issued' /\ issued' \in Nat
  BY TheEdits, FadesSoFar
<1>4. \A p \in Pages : EditorInv(p)'
  BY <1>3, EditorStays
<1>5. SubmissionsInv'
  BY <1>3, SubmissionsStay DEF FadeSoFar
<1> QED
  BY <1>1, <1>2, <1>4, <1>5 DEF EditInv, EditorsInv

LEMMA ClosedIsOne == Closed \in Editors /\ Closed.at = "closed"
BY DEF Closed, Editors, NoToken

\* The editor of p goes to another step.
LEMMA EditorStepsTo ==
  ASSUME EditInv, NEW p \in Pages, NEW at \in {"releasing", "waiting"}, editor[p].at # "closed", Fade(leases'),
         editor' = [editor EXCEPT ![p].at = at], at = "waiting" => leases[editor[p].token].claims > 0
  PROVE  editor' \in [Pages -> Editors] /\ (\A q \in Pages : editor'[q] = editor[q] \/ q = p)
         /\ (UNCHANGED <<results, issued, identified>> => EditorInv(p)')
<1>1. PICK old \in Editors : old = editor[p]
  BY TheEdits
<1>2. PICK new \in Editors : new = [old EXCEPT !.at = at]
  BY DEF Editors
<1>3. new.at = at /\ new.of = old.of /\ new.token = old.token /\ new.own = old.own /\ new.seen = old.seen
  BY <1>1, <1>2 DEF Editors
<1>4. editor' = [editor EXCEPT ![p] = new]
  BY <1>1, <1>2, TheEdits
<1>5. editor' \in [Pages -> Editors] /\ editor'[p] = new /\ \A q \in Pages : editor'[q] = editor[q] \/ q = p
  BY <1>4, TheEdits
<1>6. FadeSoFar(leases') /\ old.token \in 1..issued /\ issued \in Nat
  BY <1>1, TheEdits, FadesSoFar DEF EditInv, EditorsInv, EditorInv
<1>7. new.at = "waiting" => leases'[old.token].claims > 0
  BY <1>1, <1>3, <1>6 DEF FadeSoFar, ClaimsStay
<1>8. UNCHANGED <<results, issued, identified>> => EditorInv(p)'
  <2> HAVE UNCHANGED <<results, issued, identified>>
  <2>1. issued <= issued' /\ issued' \in Nat /\ identified \subseteq identified'
    BY <1>6
  <2> QED
    BY <1>1, <1>3, <1>5, <1>6, <1>7, <2>1, EditorMoves DEF FadeSoFar
<1> QED
  BY <1>5, <1>8

LEMMA CloseEditorKept ==
  ASSUME EditInv, NEW p \in Pages, CloseEditor(p)
  PROVE  EditInv'
<1>1. PICK t \in 1..issued : t = editor[p].token
  BY DEF EditInv, EditorsInv, EditorInv, CloseEditor
<1>2. t \in Tokens /\ Swept \in [Tokens -> Leases] /\ Fade(Swept)
  BY <1>1, TheEdits, SweptLeases, SweptFades
<1>3. CASE Swept[t].held /\ Swept[t].of = editor[p].of
  <2>1. PICK lease \in Leases : lease = Swept[t]
    BY <1>2
  <2>2. [lease EXCEPT !.releasing = TRUE] \in Leases /\ [lease EXCEPT !.releasing = TRUE].held = lease.held
        /\ [lease EXCEPT !.releasing = TRUE].of = lease.of /\ [lease EXCEPT !.releasing = TRUE].claims = lease.claims
        /\ [lease EXCEPT !.releasing = TRUE].expired = lease.expired /\ [lease EXCEPT !.releasing = TRUE].due = lease.due
    BY DEF Leases
  <2>3. leases' = [Swept EXCEPT ![t] = [lease EXCEPT !.releasing = TRUE]] /\ editor' = [editor EXCEPT ![p].at = "releasing"]
    BY <1>1, <1>2, <1>3, <2>1 DEF CloseEditor
  <2>4. Fade(leases')
    BY <1>2, <2>1, <2>2, <2>3, TheEdits, FadesOne DEF InForce
  <2>5. editor[p].at # "closed"
    BY DEF CloseEditor
  <2>6. UNCHANGED <<config, identified, results, issued, storeLock, edit, rules>>
    BY DEF CloseEditor
  <2>7. editor' \in [Pages -> Editors] /\ (\A q \in Pages : editor'[q] = editor[q] \/ EditorInv(q)')
    BY <2>3, <2>4, <2>5, <2>6, EditorStepsTo
  <2> QED
    BY <2>4, <2>6, <2>7, EditorStepKept
<1>4. CASE ~(Swept[t].held /\ Swept[t].of = editor[p].of)
  <2>1. leases' = Swept /\ editor' = [editor EXCEPT ![p] = Closed]
        /\ UNCHANGED <<config, identified, results, issued, storeLock, edit, rules>>
    BY <1>1, <1>4 DEF CloseEditor
  <2>2. editor' \in [Pages -> Editors] /\ editor'[p].at = "closed" /\ (\A q \in Pages : editor'[q] = editor[q] \/ q = p)
    BY <2>1, TheEdits, ClosedIsOne
  <2>3. EditorInv(p)'
    BY <2>2 DEF EditorInv
  <2> QED
    BY <1>2, <2>1, <2>2, <2>3, EditorStepKept
<1> QED
  BY <1>3, <1>4

LEMMA ReleaseLooksKept ==
  ASSUME EditInv, NEW p \in Pages, ReleaseLooks(p)
  PROVE  EditInv'
<1>1. PICK t \in 1..issued : t = editor[p].token
  BY DEF EditInv, EditorsInv, EditorInv, ReleaseLooks
<1>2. t \in Tokens /\ Fade(leases) /\ leases \in [Tokens -> Leases]
  BY <1>1, TheEdits, StayingFades
<1>3. UNCHANGED <<config, identified, results, issued, storeLock, edit, rules>> /\ editor[p].at # "closed"
  BY DEF ReleaseLooks
<1>4. CASE leases[t].claims > 0
  <2>1. editor' = [editor EXCEPT ![p].at = "waiting"] /\ leases' = leases
    BY <1>1, <1>4 DEF ReleaseLooks
  <2>2. editor' \in [Pages -> Editors] /\ (\A q \in Pages : editor'[q] = editor[q] \/ EditorInv(q)')
    BY <1>1, <1>2, <1>3, <1>4, <2>1, EditorStepsTo
  <2> QED
    BY <1>2, <1>3, <2>1, <2>2, EditorStepKept
<1>5. CASE ~(leases[t].claims > 0)
  <2>1. leases' = [leases EXCEPT ![t] = NoLease] /\ editor' = [editor EXCEPT ![p] = Closed]
    BY <1>1, <1>5 DEF ReleaseLooks
  <2>2. editor' \in [Pages -> Editors] /\ editor'[p].at = "closed" /\ (\A q \in Pages : editor'[q] = editor[q] \/ q = p)
    BY <2>1, TheEdits, ClosedIsOne
  <2>3. EditorInv(p)'
    BY <2>2 DEF EditorInv
  <2>4. Fade(leases')
    BY <1>2, <1>5, <2>1, NoLeaseIsOne, FadesOne DEF InForce
  <2> QED
    BY <1>3, <2>2, <2>3, <2>4, EditorStepKept
<1> QED
  BY <1>4, <1>5

\* A submission moves, and the leases fade.
LEMMA SubmissionStepKept ==
  ASSUME EditInv, Fade(leases'), UNCHANGED <<results, issued, editor, rules>>, identified \subseteq identified',
         identified' \in SUBSET Attributes, config' \in Configs, NEW e \in Edits, NEW new \in Submissions,
         edit' = [edit EXCEPT ![e] = new], config' = config \/ (\A f \in Edits \ {e} : edit[f].at # "merged"),
         StoreLockInv', SubmissionInv(e)'
  PROVE  EditInv'
<1>1. EditTypes'
  BY TheEdits DEF EditTypes, Fade, Lapse, LapseIn
<1>2. LeasesInv'
  BY LeasesKept DEF Fade
<1>3. FadeSoFar(leases') /\ issued <= issued' /\ issued' \in Nat
  BY TheEdits, FadesSoFar
<1>4. \A p \in Pages : EditorInv(p)'
  BY <1>3, EditorStays
<1>5. \A f \in Edits \ {e} : edit'[f] = edit[f]
  BY TheEdits
<1>6. \A f \in Edits \ {e} : SubmissionInv(f)'
  BY <1>3, <1>5, OthersKept DEF FadeSoFar
<1>7. \A f \in Edits : SubmissionInv(f)'
  BY <1>6
<1> QED
  BY <1>1, <1>2, <1>4, <1>7 DEF EditInv, EditorsInv, SubmissionsInv

\* A submission of which only the step and what it was merged with change.
LEMMA SubmissionMoves ==
  ASSUME EditInv, Fade(leases'), UNCHANGED <<results, issued>>, NEW e \in Edits,
         edit[e].at \in {"claimed", "locked", "merged"}, edit'[e].at \in {"locked", "merged", "finish"},
         edit'[e].of = edit[e].of, edit'[e].token = edit[e].token, edit'[e].own = edit[e].own, edit'[e].seen = edit[e].seen,
         edit'[e].at = "merged" => MergedWith(edit'[e], config')
  PROVE  SubmissionInv(e)'
<1>1. PICK t \in 0..issued : t = edit[e].token
  BY DEF EditInv, SubmissionsInv, SubmissionInv
<1>2. edit[e].of \in Attributes
  BY DEF EditInv, SubmissionsInv, SubmissionInv
<1>3. t # NoToken => (InForce(leases'[t]) => InForce(leases[t]) /\ leases'[t].of = leases[t].of)
  BY <1>1, TheEdits DEF Fade, Lapse, LapseIn, InForce, NoToken
<1>4. edit[e].own /\ t # NoToken /\ InForce(leases'[t]) => leases'[t].of = edit[e].of /\ results[edit[e].of] = edit[e].seen
  BY <1>1, <1>3 DEF EditInv, SubmissionsInv, SubmissionInv
<1>5. /\ edit'[e].token \in 0..issued' /\ edit'[e].of \in Attributes
      /\ edit'[e].own /\ edit'[e].token # NoToken /\ InForce(leases'[edit'[e].token]) =>
           leases'[edit'[e].token].of = edit'[e].of /\ results'[edit'[e].of] = edit'[e].seen
  BY <1>1, <1>2, <1>4
<1> QED
  BY <1>5 DEF SubmissionInv

LEMMA BeginEditKept ==
  ASSUME EditInv, NEW p \in Pages, NEW e \in Edits, BeginEdit(e, p)
  PROVE  EditInv'
<1>1. PICK d \in Editors : d = editor[p]
  BY TheEdits
<1>2. PICK t \in 1..issued : t = d.token
  BY <1>1 DEF EditInv, EditorsInv, EditorInv, BeginEdit
<1>3. t \in 0..issued /\ t \in Tokens /\ t # NoToken /\ d.of \in Attributes /\ d.own \in BOOLEAN /\ d.seen \in Nat /\ t \in Nat
  BY <1>1, <1>2, TheEdits DEF NoToken, EditInv, EditorsInv, EditorInv, BeginEdit, Editors
<1>4. UNCHANGED <<config, identified, results, issued, storeLock, editor, rules>>
  BY DEF BeginEdit
<1>5. ASSUME NEW new \in Submissions, new.at \in {"claimed", "done"}, edit' = [edit EXCEPT ![e] = new],
             Fade(leases'), SubmissionInv(e)'
      PROVE  EditInv'
  <2>1. \A f \in Edits : edit'[f] = edit[f] \/ edit'[f].at \in {"claimed", "done"}
    BY <1>5, TheEdits
  <2>2. StoreLockInv'
    BY <1>4, <2>1 DEF EditInv, StoreLockInv
  <2>3. config' \in Configs /\ config' = config /\ identified \subseteq identified' /\ identified' \in SUBSET Attributes
    BY <1>4, TheEdits
  <2> QED
    BY <1>4, <1>5, <2>2, <2>3, SubmissionStepKept
<1>6. CASE Owns(d.of, t)
  <2>1. Swept[t] = leases[t] /\ leases[t] \in Leases /\ InForce(leases[t]) /\ leases[t].of = d.of
    BY <1>3, <1>6, OwnedLeases
  <2>2. PICK lease \in Leases : lease = leases[t]
    BY <2>1
  <2>21. PICK more \in Int : more = lease.claims + 1
    BY DEF Leases
  <2>3. PICK claimed \in Leases : claimed = [lease EXCEPT !.claims = more]
    BY DEF Leases
  <2>4. claimed.held = lease.held /\ claimed.of = lease.of /\ claimed.claims = lease.claims + 1
        /\ claimed.expired = lease.expired /\ claimed.due = lease.due
    BY <2>21, <2>3 DEF Leases
  <2>5. leases' = [Swept EXCEPT ![t].claims = @ + 1]
    BY <1>1, <1>2, <1>6 DEF BeginEdit
  <2>6. leases' = [Swept EXCEPT ![t] = claimed]
    BY <1>3, <2>1, <2>2, <2>21, <2>3, <2>5, TheEdits, SweptLeases
  <2>61. lease.claims \in Int
    BY DEF Leases
  <2>62. Fade(Swept) /\ claimed.held => Swept[t].held /\ claimed.of = Swept[t].of
    BY <2>1, <2>2, <2>4, TheEdits, SweptFades
  <2>63. (InForce(claimed) => InForce(Swept[t])) /\ (Swept[t].claims > 0 => claimed.claims > 0)
    BY <2>1, <2>2, <2>4, <2>61 DEF InForce
  <2>7. Fade(leases')
    BY <1>3, <2>1, <2>2, <2>4, <2>6, <2>61, <2>62, <2>63, TheEdits, SweptFades, FadesOne
  <2>8. PICK new : new = [at |-> "claimed", of |-> d.of, token |-> t, seen |-> d.seen, own |-> d.own, next |-> Nobody]
    OBVIOUS
  <2>9. new \in Submissions /\ new.at = "claimed" /\ new.of = d.of /\ new.token = t /\ new.seen = d.seen /\ new.own = d.own
    BY <1>3, <2>8 DEF Submissions
  <2>10. edit' = [edit EXCEPT ![e] = new]
    BY <1>1, <1>2, <1>6, <2>8 DEF BeginEdit
  <2>11. edit'[e] = new /\ leases'[t].of = d.of
    BY <1>3, <2>1, <2>2, <2>4, <2>6, <2>9, <2>10, TheEdits, SweptLeases
  <2>12. d.own => results[d.of] = d.seen
    BY <1>1, <1>2, <2>1 DEF EditInv, EditorsInv, EditorInv, BeginEdit
  <2>13. /\ edit'[e].at = "claimed" /\ edit'[e].token \in 0..issued' /\ edit'[e].of \in Attributes
         /\ edit'[e].own => leases'[edit'[e].token].of = edit'[e].of /\ results'[edit'[e].of] = edit'[e].seen
    BY <1>3, <1>4, <2>9, <2>11, <2>12
  <2>14. SubmissionInv(e)'
    BY <2>13 DEF SubmissionInv
  <2> QED
    BY <1>5, <2>7, <2>9, <2>10, <2>14
<1>7. CASE ~Owns(d.of, t)
  <2>1. leases' = Swept /\ edit' = [edit EXCEPT ![e].at = "done"]
    BY <1>1, <1>2, <1>7 DEF BeginEdit
  <2>2. PICK old \in Submissions : old = edit[e]
    BY TheEdits
  <2>3. PICK new \in Submissions : new = [old EXCEPT !.at = "done"]
    BY DEF Submissions
  <2>4. new.at = "done"
    BY <2>2, <2>3 DEF Submissions
  <2>5. edit' = [edit EXCEPT ![e] = new] /\ edit'[e] = new
    BY <2>1, <2>2, <2>3, TheEdits
  <2>6. SubmissionInv(e)'
    BY <2>4, <2>5 DEF SubmissionInv
  <2>7. Fade(leases')
    BY <2>1, TheEdits, SweptFades
  <2> QED
    BY <1>5, <2>4, <2>5, <2>6, <2>7
<1> QED
  BY <1>6, <1>7

LEMMA BeginNewKept ==
  ASSUME EditInv, NEW e \in Edits, BeginNew(e)
  PROVE  EditInv'
<1>1. PICK a \in Attributes : edit' = [edit EXCEPT ![e] = [NoEdit EXCEPT !.at = "claimed", !.of = a]]
  BY DEF BeginNew
<1>2. PICK none \in Submissions : none = NoEdit
  BY DEF Submissions, NoEdit, NoToken
<1>21. none.token = NoToken
  BY <1>2 DEF NoEdit
<1>22. PICK mid \in Submissions : mid = [none EXCEPT !.at = "claimed"]
  BY DEF Submissions
<1>23. mid.at = "claimed" /\ mid.token = NoToken
  BY <1>21, <1>22 DEF Submissions
<1>24. PICK new \in Submissions : new = [mid EXCEPT !.of = a]
  BY DEF Submissions
<1>3. new.at = "claimed" /\ new.of = a /\ new.token = NoToken
  BY <1>23, <1>24 DEF Submissions
<1>4. edit' = [edit EXCEPT ![e] = new] /\ edit'[e] = new
  BY <1>1, <1>2, <1>22, <1>24, TheEdits
<1>5. UNCHANGED <<config, identified, results, leases, issued, storeLock, editor, rules>>
  BY DEF BeginNew
<1>6. \A f \in Edits : edit'[f] = edit[f] \/ edit'[f].at = "claimed"
  BY <1>3, <1>4, TheEdits
<1>7. StoreLockInv'
  BY <1>5, <1>6 DEF EditInv, StoreLockInv
<1>8. SubmissionInv(e)'
  <2>1. edit'[e].at = "claimed" /\ edit'[e].token = NoToken /\ edit'[e].token \in 0..issued' /\ edit'[e].of \in Attributes
    BY <1>3, <1>4, <1>5, TheEdits DEF NoToken
  <2> QED
    BY <2>1 DEF SubmissionInv
<1>9. Fade(leases')
  BY <1>5, TheEdits, StayingFades
<1>10. config' \in Configs /\ config' = config /\ identified \subseteq identified' /\ identified' \in SUBSET Attributes
  BY <1>5, TheEdits
<1> QED
  BY <1>3, <1>4, <1>5, <1>7, <1>8, <1>9, <1>10, SubmissionStepKept

LEMMA LockKept ==
  ASSUME EditInv, NEW e \in Edits, Lock(e)
  PROVE  EditInv'
<1>1. PICK old \in Submissions : old = edit[e]
  BY TheEdits
<1>2. PICK new \in Submissions : new = [old EXCEPT !.at = "locked"]
  BY DEF Submissions
<1>3. new.at = "locked" /\ new.of = old.of /\ new.token = old.token /\ new.own = old.own /\ new.seen = old.seen
  BY <1>2 DEF Submissions
<1>4. edit' = [edit EXCEPT ![e] = new] /\ edit'[e] = new /\ \A f \in Edits \ {e} : edit'[f] = edit[f]
  BY <1>1, <1>2, TheEdits DEF Lock
<1>5. UNCHANGED <<config, identified, results, leases, issued, editor, rules>> /\ storeLock = Nobody /\ storeLock' = e
      /\ edit[e].at = "claimed"
  BY DEF Lock
<1>6. rules.at = "none" /\ \A f \in Edits : edit[f].at \notin {"locked", "merged"}
  BY <1>5, TheEdits, EditAssumption DEF EditInv, StoreLockInv, RuleSteps
<1>7. StoreLockInv'
  BY <1>4, <1>5, <1>6 DEF StoreLockInv
<1>8. Fade(leases')
  BY <1>5, TheEdits, StayingFades
<1>9. SubmissionInv(e)'
  BY <1>1, <1>3, <1>4, <1>5, <1>8, SubmissionMoves
<1>10. config' \in Configs /\ config' = config /\ identified \subseteq identified' /\ identified' \in SUBSET Attributes
  BY <1>5, TheEdits
<1> QED
  BY <1>4, <1>5, <1>7, <1>8, <1>9, <1>10, SubmissionStepKept

LEMMA EditedIs ==
  ASSUME NEW c \in Configs, NEW a \in Attributes, NEW name \in Names, NEW owned \in SUBSET Rules
  PROVE  /\ Edited(c, a, name, owned) \in Configs
         /\ \A b \in Attributes \ {a} : Edited(c, a, name, owned).name[b] = c.name[b]
         /\ \A r \in Rules \ owned : c.rule[r] # c.name[a] => Edited(c, a, name, owned).rule[r] = c.rule[r]
         /\ Edited(c, a, name, owned).received = c.received
<1>1. PICK names \in [Attributes -> Names \cup {Nobody}] : names = [c.name EXCEPT ![a] = name]
  BY DEF Configs
<1>2. PICK ruled \in [Rules -> Names \cup {Nobody}] :
        ruled = [r \in Rules |-> IF r \in owned THEN name ELSE IF c.rule[r] = c.name[a] THEN Nobody ELSE c.rule[r]]
  <2>1. [r \in Rules |-> IF r \in owned THEN name ELSE IF c.rule[r] = c.name[a] THEN Nobody ELSE c.rule[r]]
          \in [Rules -> Names \cup {Nobody}]
    BY DEF Configs
  <2> QED
    BY <2>1
<1>3. PICK scenes \in SUBSET Names :
        scenes = {IF n = c.name[a] /\ c.name[a] # Nobody THEN name ELSE n : n \in c.scene}
  <2>1. {IF n = c.name[a] /\ c.name[a] # Nobody THEN name ELSE n : n \in c.scene} \in SUBSET Names
    BY DEF Configs
  <2> QED
    BY <2>1
<1>4. PICK c1 \in Configs : c1 = [c EXCEPT !.name = names]
  BY DEF Configs
<1>5. c1.name = names /\ c1.rule = c.rule /\ c1.scene = c.scene /\ c1.received = c.received
  BY <1>4 DEF Configs
<1>6. PICK c2 \in Configs : c2 = [c1 EXCEPT !.rule = ruled]
  BY DEF Configs
<1>7. c2.name = names /\ c2.rule = ruled /\ c2.scene = c.scene /\ c2.received = c.received
  BY <1>5, <1>6 DEF Configs
<1>8. PICK c3 \in Configs : c3 = [c2 EXCEPT !.scene = scenes]
  BY DEF Configs
<1>9. c3.name = names /\ c3.rule = ruled /\ c3.received = c.received
  BY <1>7, <1>8 DEF Configs
<1>10. Edited(c, a, name, owned) = c3
  <2>1. [c EXCEPT !.name[a] = name] = c1
    BY <1>1, <1>4
  <2> QED
    BY <1>2, <1>3, <1>6, <1>8, <2>1 DEF Edited
<1>11. \A b \in Attributes \ {a} : names[b] = c.name[b]
  BY <1>1 DEF Configs
<1>12. \A r \in Rules \ owned : c.rule[r] # c.name[a] => ruled[r] = c.rule[r]
  BY <1>2
<1> QED
  BY <1>9, <1>10, <1>11, <1>12

\* What an edit that ends leaves.
LEMMA EndsKept ==
  ASSUME EditInv, NEW e \in Edits, edit[e].at \in {"locked", "merged"}, EditEnds(e), leases' = Swept,
         UNCHANGED <<results, issued, editor, rules>>, identified \subseteq identified', identified' \in SUBSET Attributes,
         config' \in Configs
  PROVE  EditInv'
<1>1. PICK old \in Submissions : old = edit[e]
  BY TheEdits
<1>2. PICK mid \in Submissions : mid = [old EXCEPT !.at = "finish"]
  BY DEF Submissions
<1>3. mid.at = "finish" /\ mid.of = old.of /\ mid.token = old.token /\ mid.own = old.own /\ mid.seen = old.seen
  BY <1>2 DEF Submissions
<1>4. PICK new \in Submissions : new = [mid EXCEPT !.next = Nobody]
  BY DEF Submissions
<1>5. new.at = "finish" /\ new.of = old.of /\ new.token = old.token /\ new.own = old.own /\ new.seen = old.seen
  BY <1>3, <1>4 DEF Submissions
<1>6. edit' = [edit EXCEPT ![e] = new] /\ storeLock' = Nobody
  BY <1>1, <1>2, <1>4, TheEdits DEF EditEnds
<1>7. edit'[e] = new /\ \A f \in Edits \ {e} : edit'[f] = edit[f]
  BY <1>6, TheEdits
<1>8. storeLock = e /\ rules.at = "none" /\ \A f \in Edits \ {e} : edit[f].at \notin {"locked", "merged"}
  BY DEF EditInv, StoreLockInv
<1>9. StoreLockInv'
  BY <1>5, <1>7, <1>8 DEF StoreLockInv
<1>10. Fade(leases')
  BY TheEdits, SweptFades
<1>11. SubmissionInv(e)'
  BY <1>1, <1>5, <1>7, <1>10, SubmissionMoves
<1>12. \A f \in Edits \ {e} : edit[f].at # "merged"
  BY <1>8
<1> QED
  BY <1>6, <1>9, <1>10, <1>11, <1>12, SubmissionStepKept

LEMMA MergeKept ==
  ASSUME EditInv, NEW e \in Edits, NEW name \in Names, NEW owned \in SUBSET Rules, Merge(e, name, owned)
  PROVE  EditInv'
<1>1. PICK old \in Submissions : old = edit[e]
  BY TheEdits
<1>2. /\ leases' = Swept /\ UNCHANGED <<config, identified, results, issued, editor, rules>> /\ old.at = "locked"
      /\ config' \in Configs /\ identified' \in SUBSET Attributes /\ identified \subseteq identified'
  BY <1>1, TheEdits DEF Merge
<1>3. CASE EditEnds(e)
  BY <1>1, <1>2, <1>3, EndsKept
<1>4. CASE ~EditEnds(e)
  <2>1. Accepted(config, old.of, name, owned, old.token = NoToken) /\ storeLock' = storeLock
        /\ edit' = [edit EXCEPT ![e].at = "merged", ![e].next = Edited(config, old.of, name, owned)]
    BY <1>1, <1>4 DEF Merge
  <2>2. old.of \in Attributes
    BY <1>1, <1>2 DEF EditInv, SubmissionsInv, SubmissionInv
  <2>3. PICK next \in Configs : next = Edited(config, old.of, name, owned)
    BY <2>2, TheEdits, EditedIs
  <2>4. PICK mid \in Submissions : mid = [old EXCEPT !.at = "merged"]
    BY DEF Submissions
  <2>5. mid.at = "merged" /\ mid.of = old.of /\ mid.token = old.token /\ mid.own = old.own /\ mid.seen = old.seen
    BY <2>4 DEF Submissions
  <2>6. PICK new \in Submissions : new = [mid EXCEPT !.next = next]
    BY DEF Submissions
  <2>7. new.at = "merged" /\ new.of = old.of /\ new.token = old.token /\ new.own = old.own /\ new.seen = old.seen /\ new.next = next
    BY <2>5, <2>6 DEF Submissions
  <2>8. edit' = [edit EXCEPT ![e] = new]
    BY <1>1, <2>1, <2>3, <2>4, <2>6, TheEdits
  <2>9. edit'[e] = new /\ \A f \in Edits \ {e} : edit'[f] = edit[f]
    BY <2>8, TheEdits
  <2>10. StoreLockInv'
    BY <1>1, <1>2, <2>1, <2>9 DEF EditInv, StoreLockInv
  <2>11. Fade(leases')
    BY <1>2, TheEdits, SweptFades
  <2>12. MergedWith(new, config)
    BY <2>1, <2>3, <2>7 DEF MergedWith
  <2>13. SubmissionInv(e)'
    BY <1>1, <1>2, <2>7, <2>9, <2>11, <2>12, SubmissionMoves
  <2> QED
    BY <1>2, <2>8, <2>10, <2>11, <2>13, SubmissionStepKept
<1> QED
  BY <1>3, <1>4

LEMMA SaveKept ==
  ASSUME EditInv, NEW e \in Edits, Save(e) \/ SaveFails(e)
  PROVE  EditInv'
<1>1. /\ edit[e].at = "merged" /\ leases' = Swept /\ EditEnds(e) /\ UNCHANGED <<results, issued, editor, rules>>
      /\ \/ config' = edit[e].next /\ identified' = identified \cup {edit[e].of}
         \/ UNCHANGED <<config, identified>>
  BY DEF Save, SaveFails, Saves
<1>2. edit[e].of \in Attributes /\ MergedWith(edit[e], config)
  BY <1>1 DEF EditInv, SubmissionsInv, SubmissionInv
<1>3. edit[e].next \in Configs
  BY <1>2, TheEdits, EditedIs DEF MergedWith
<1>4. config' \in Configs /\ identified' \in SUBSET Attributes /\ identified \subseteq identified'
  BY <1>1, <1>2, <1>3, TheEdits
<1> QED
  BY <1>1, <1>4, EndsKept

\* Nobody waits once a claim is finished, so its lease may lose the last one.
LEMMA FinishClaimKept ==
  ASSUME EditInv, NEW e \in Edits, FinishClaim(e)
  PROVE  EditInv'
<1>1. PICK old \in Submissions : old = edit[e]
  BY TheEdits
<1>2. PICK t \in 0..issued : t = old.token
  BY <1>1 DEF EditInv, SubmissionsInv, SubmissionInv, FinishClaim
<1>3. PICK none \in Submissions : none = NoEdit
  BY DEF Submissions, NoEdit, NoToken
<1>4. PICK new \in Submissions : new = [none EXCEPT !.at = "done"]
  BY DEF Submissions
<1>5. new.at = "done"
  BY <1>4 DEF Submissions
<1>6. edit' = [edit EXCEPT ![e] = new]
  BY <1>3, <1>4 DEF FinishClaim
<1>7. edit'[e] = new /\ (\A f \in Edits \ {e} : edit'[f] = edit[f]) /\ edit' \in [Edits -> Submissions]
  BY <1>6, TheEdits
<1>8. UNCHANGED <<config, identified, results, issued, storeLock, rules>> /\ config' \in Configs
      /\ identified \subseteq identified' /\ identified' \in SUBSET Attributes /\ issued <= issued' /\ issued' \in Nat
  BY TheEdits DEF FinishClaim
<1>9. StoreLockInv'
  BY <1>5, <1>7, <1>8 DEF EditInv, StoreLockInv
<1>10. SubmissionInv(e)'
  BY <1>5, <1>7 DEF SubmissionInv
<1>11. CASE t = NoToken
  <2>1. UNCHANGED <<leases, editor>>
    BY <1>1, <1>2, <1>11 DEF FinishClaim
  <2>2. Fade(leases')
    BY <2>1, TheEdits, StayingFades
  <2> QED
    BY <1>6, <1>8, <1>9, <1>10, <2>1, <2>2, SubmissionStepKept
<1>12. CASE t # NoToken
  <2>1. t \in Tokens
    BY <1>2, <1>12, TheEdits DEF NoToken
  <2>2. PICK lease \in Leases : lease = leases[t]
    BY <2>1, TheEdits
  <2>3. PICK fewer \in Int : fewer = lease.claims - 1
    BY DEF Leases
  <2>4. PICK kept \in Leases : kept = [lease EXCEPT !.claims = fewer]
    BY DEF Leases
  <2>5. kept.held = lease.held /\ kept.of = lease.of /\ kept.expired = lease.expired /\ kept.due = lease.due
    BY <2>4 DEF Leases
  <2>6. PICK after \in {NoLease, kept} : leases' = [leases EXCEPT ![t] = after]
    <3>0. leases' = [leases EXCEPT ![t] = IF @.claims = 1 /\ (@.releasing \/ @.expired \/ @.due) THEN NoLease
                                          ELSE [leases[t] EXCEPT !.claims = @ - 1]]
      BY <1>1, <1>2, <1>12 DEF FinishClaim
    <3>1. leases' = [leases EXCEPT ![t] = leases'[t]]
      BY <2>1, <3>0, TheEdits
    <3>2. leases'[t] = IF lease.claims = 1 /\ (lease.releasing \/ lease.expired \/ lease.due) THEN NoLease
                       ELSE [lease EXCEPT !.claims = lease.claims - 1]
      BY <2>1, <2>2, <3>0, TheEdits
    <3>3. leases'[t] \in {NoLease, kept}
      BY <2>3, <2>4, <3>2
    <3> QED
      BY <3>1, <3>3
  <2>7. after \in Leases /\ (after.held => lease.held /\ after.of = lease.of) /\ (InForce(after) => InForce(lease))
    BY <2>5, NoLeaseIsOne DEF InForce
  <2>8. Lapse(leases')
    BY <2>1, <2>2, <2>6, <2>7, TheEdits DEF Lapse, LapseIn
  <2>9. LapseSoFar(leases')
    BY <2>8, TheEdits, LapsesSoFar
  <2>10. editor' = Awakened(t)
    BY <1>1, <1>2, <1>12 DEF FinishClaim
  <2>11. \A p \in Pages : /\ editor'[p] \in Editors /\ editor'[p].at # "waiting"
                          /\ editor'[p].at = "closed" \/ editor[p].at # "closed"
                          /\ editor'[p].token = editor[p].token /\ editor'[p].of = editor[p].of
                          /\ editor'[p].own = editor[p].own /\ editor'[p].seen = editor[p].seen
    <3> TAKE p \in Pages
    <3>1. PICK d \in Editors : d = editor[p]
      BY TheEdits
    <3>2. PICK woken \in Editors : woken = [d EXCEPT !.at = "releasing"]
      BY DEF Editors
    <3>3. woken.at = "releasing" /\ woken.of = d.of /\ woken.token = d.token /\ woken.own = d.own /\ woken.seen = d.seen
      BY <3>2 DEF Editors
    <3>4. editor'[p] = IF d.at = "waiting" THEN woken ELSE d
      BY <2>10, <3>1, <3>2 DEF Awakened
    <3> QED
      BY <3>1, <3>3, <3>4
  <2>12. editor' \in [Pages -> Editors]
    <3>1. editor' = [p \in Pages |-> editor'[p]]
      BY <2>10 DEF Awakened
    <3> QED
      BY <2>11, <3>1
  <2>13. EditTypes'
    BY <1>7, <1>8, <2>8, <2>12, TheEdits DEF EditTypes, Lapse, LapseIn
  <2>14. LeasesInv'
    BY <1>8, <2>8, LeasesKept
  <2>15. \A p \in Pages : EditorInv(p)'
    BY <1>8, <2>9, <2>11, EditorMoves
  <2>16. \A f \in Edits \ {e} : SubmissionInv(f)'
    BY <1>7, <1>8, <2>9, OthersKept
  <2>17. \A f \in Edits : SubmissionInv(f)'
    BY <1>10, <2>16
  <2> QED
    BY <1>9, <2>13, <2>14, <2>15, <2>17 DEF EditInv, EditorsInv, SubmissionsInv
<1> QED
  BY <1>11, <1>12

LEMMA RulesApplyKept ==
  ASSUME EditInv, NEW triggered, RulesApply(triggered)
  PROVE  EditInv'
<1>1. /\ storeLock = Nobody /\ storeLock' = "rules" /\ leases' = Swept
      /\ UNCHANGED <<config, identified, results, issued, editor, edit>>
      /\ rules' = [at |-> "applied",
                   on |-> {a \in Existing(config) : /\ \E r \in triggered : config.rule[r] = config.name[a]
                                                    /\ ~(a \in identified /\ IsFrozen(a))}]
  BY DEF RulesApply
<1>2. rules' \in RuleSteps /\ rules'.at = "applied" /\ \A a \in rules'.on : ~(a \in identified /\ IsFrozen(a))
  BY <1>1 DEF RuleSteps, Existing
<1>3. Fade(leases') /\ FadeSoFar(leases') /\ issued <= issued' /\ issued' \in Nat
  BY <1>1, TheEdits, SweptFades, FadesSoFar
<1>4. EditTypes'
  BY <1>1, <1>2, <1>3, TheEdits DEF EditTypes, Fade, Lapse, LapseIn
<1>5. \A e \in Edits : edit[e].at \notin {"locked", "merged"}
  BY <1>1, EditAssumption DEF EditInv, StoreLockInv
<1>6. StoreLockInv'
  BY <1>1, <1>5 DEF StoreLockInv
<1>7. LeasesInv'
  <2> SUFFICES ASSUME NEW t \in Tokens
               PROVE  /\ leases'[t].held => t <= issued' /\ leases'[t].of \in identified'
                      /\ InForce(leases'[t]) => leases'[t].of \notin rules'.on
    BY DEF LeasesInv, InForce
  <2>1. leases'[t].held => leases[t].held /\ leases'[t].of = leases[t].of
    BY <1>3 DEF Fade, Lapse, LapseIn
  <2>2. leases[t].held => t <= issued /\ leases[t].of \in identified
    BY DEF EditInv, LeasesInv
  <2>3. InForce(leases'[t]) => IsFrozen(leases'[t].of) /\ leases'[t].held
    BY <1>1 DEF IsFrozen, InForce
  <2> QED
    BY <1>1, <1>2, <2>1, <2>2, <2>3
<1>8. \A p \in Pages : EditorInv(p)'
  BY <1>1, <1>3, EditorStays
<1>9. SubmissionsInv'
  BY <1>1, <1>3, SubmissionsStay DEF FadeSoFar
<1> QED
  BY <1>4, <1>6, <1>7, <1>8, <1>9 DEF EditInv, EditorsInv

\* No lease that is in force is of an attribute that the rules give a result.
LEMMA RulesSaveKept ==
  ASSUME EditInv, RulesSave
  PROVE  EditInv'
<1>1. /\ rules.at = "applied" /\ rules' = NoRules /\ storeLock' = Nobody
      /\ results' = [a \in Attributes |-> IF a \in rules.on THEN results[a] + 1 ELSE results[a]]
      /\ config' = [config EXCEPT !.received = @ \/ rules.on # {}]
      /\ UNCHANGED <<identified, leases, issued, editor, edit>>
  BY DEF RulesSave
<1>2. PICK c \in Configs : c = config
  BY TheEdits
<1>3. PICK some \in BOOLEAN : some = (c.received \/ rules.on # {})
  BY <1>2
<1>4. config' = [c EXCEPT !.received = some]
  BY <1>1, <1>2, <1>3
<1>5. config' \in Configs
  BY <1>4 DEF Configs
<1>6. results' \in [Attributes -> Nat] /\ \A a \in Attributes \ rules.on : results'[a] = results[a]
  BY <1>1, TheEdits
<1>7. rules' \in RuleSteps /\ rules'.at = "none"
  BY <1>1 DEF RuleSteps, NoRules
<1>8. EditTypes'
  BY <1>1, <1>5, <1>6, <1>7, TheEdits DEF EditTypes
<1>9. \A e \in Edits : edit[e].at \notin {"locked", "merged"}
  BY <1>1 DEF EditInv, StoreLockInv
<1>10. StoreLockInv'
  BY <1>1, <1>7, <1>9 DEF StoreLockInv
<1>11. LeasesInv'
  BY <1>1, <1>7 DEF EditInv, LeasesInv, InForce
<1>12. \A t \in Tokens : InForce(leases[t]) => leases[t].of \in Attributes \ rules.on /\ results'[leases[t].of] = results[leases[t].of]
  <2>1. \A t \in Tokens : InForce(leases[t]) => leases[t].of \in Attributes \ rules.on
    BY <1>1, TheEdits DEF EditInv, LeasesInv, InForce
  <2> QED
    BY <1>6, <2>1
<1>13. EditorsInv'
  <2> SUFFICES ASSUME NEW p \in Pages, editor[p].at # "closed"
               PROVE  /\ editor[p].token \in 1..issued /\ editor[p].of \in identified
                      /\ editor[p].at = "waiting" => leases[editor[p].token].claims > 0
                      /\ editor[p].own /\ InForce(leases[editor[p].token]) =>
                           leases[editor[p].token].of = editor[p].of /\ results'[editor[p].of] = editor[p].seen
    BY <1>1 DEF EditorsInv, EditorInv, InForce
  <2>1. PICK t \in 1..issued : t = editor[p].token
    BY DEF EditInv, EditorsInv, EditorInv
  <2>2. t \in Tokens
    BY TheEdits
  <2> QED
    BY <1>12, <2>1, <2>2 DEF EditInv, EditorsInv, EditorInv
<1>14. SubmissionsInv'
  <2> SUFFICES ASSUME NEW e \in Edits
               PROVE  SubmissionInv(e)'
    BY DEF SubmissionsInv
  <2>1. edit[e].at \in {"claimed", "locked", "merged", "finish"} => edit[e].token \in 0..issued /\ edit[e].of \in Attributes
    BY DEF EditInv, SubmissionsInv, SubmissionInv
  <2>2. (edit[e].at \in {"claimed", "locked", "merged"} /\ edit[e].own /\ edit[e].token # NoToken
          /\ InForce(leases[edit[e].token])) =>
         leases[edit[e].token].of = edit[e].of /\ results'[edit[e].of] = edit[e].seen
    <3> HAVE edit[e].at \in {"claimed", "locked", "merged"} /\ edit[e].own /\ edit[e].token # NoToken
             /\ InForce(leases[edit[e].token])
    <3>1. PICK t \in 0..issued : t = edit[e].token
      BY <2>1
    <3>2. t \in Tokens
      BY <3>1, TheEdits DEF NoToken
    <3> QED
      BY <1>12, <3>1, <3>2 DEF EditInv, SubmissionsInv, SubmissionInv
  <2> QED
    BY <1>1, <1>9, <2>1, <2>2 DEF SubmissionInv, InForce
<1> QED
  BY <1>8, <1>10, <1>11, <1>13, <1>14 DEF EditInv

LEMMA WithoutIsOne ==
  ASSUME NEW c \in Configs, NEW removed
  PROVE  Without(c, removed) \in Configs
<1>1. PICK names \in [Attributes -> Names \cup {Nobody}] : names = [a \in Attributes |-> IF a \in removed THEN Nobody ELSE c.name[a]]
  <2>1. [a \in Attributes |-> IF a \in removed THEN Nobody ELSE c.name[a]] \in [Attributes -> Names \cup {Nobody}]
    BY DEF Configs
  <2> QED
    BY <2>1
<1>2. PICK gone : gone = {c.name[a] : a \in removed}
  OBVIOUS
<1>3. PICK ruled \in [Rules -> Names \cup {Nobody}] : ruled = [r \in Rules |-> IF c.rule[r] \in gone THEN Nobody ELSE c.rule[r]]
  <2>1. [r \in Rules |-> IF c.rule[r] \in gone THEN Nobody ELSE c.rule[r]] \in [Rules -> Names \cup {Nobody}]
    BY DEF Configs
  <2> QED
    BY <2>1
<1>4. PICK c1 \in Configs : c1 = [c EXCEPT !.name = names]
  BY DEF Configs
<1>5. c1.scene = c.scene
  BY <1>4 DEF Configs
<1>6. PICK c2 \in Configs : c2 = [c1 EXCEPT !.rule = ruled]
  BY DEF Configs
<1>7. c2.scene = c.scene
  BY <1>5, <1>6 DEF Configs
<1>8. PICK c3 \in Configs : c3 = [c2 EXCEPT !.scene = c2.scene \ gone]
  BY DEF Configs
<1>9. Without(c, removed) = c3
  BY <1>1, <1>2, <1>3, <1>4, <1>6, <1>8 DEF Without
<1> QED
  BY <1>9

LEMMA ReplaceStateKept ==
  ASSUME EditInv, NEW removed, ReplaceState(removed)
  PROVE  EditInv'
<1>1. /\ storeLock = Nobody /\ config' = Without(config, removed)
      /\ UNCHANGED <<identified, results, leases, issued, storeLock, editor, edit, rules>>
  BY DEF ReplaceState
<1>2. config' \in Configs
  BY <1>1, TheEdits, WithoutIsOne
<1>3. EditTypes' /\ StoreLockInv' /\ LeasesInv'
  BY <1>1, <1>2 DEF EditInv, EditTypes, StoreLockInv, LeasesInv, InForce
<1>4. EditorsInv'
  BY <1>1 DEF EditInv, EditorsInv, EditorInv, InForce
<1>5. \A e \in Edits : edit[e].at \notin {"locked", "merged"}
  BY <1>1, EditAssumption DEF EditInv, StoreLockInv
<1>6. SubmissionsInv'
  BY <1>1, <1>5 DEF EditInv, SubmissionsInv, SubmissionInv, InForce
<1> QED
  BY <1>3, <1>4, <1>6 DEF EditInv

LEMMA EditInvInit == EditInit => EditInv
<1> HAVE EditInit
<1>1. config = [name |-> InitialName, rule |-> InitialRule,
                scene |-> {InitialName[a] : a \in Attributes} \ {Nobody}, received |-> FALSE]
  BY DEF EditInit
<1>2. {InitialName[a] : a \in Attributes} \ {Nobody} \in SUBSET Names
  BY EditAssumption
<1>3. config \in Configs
  BY <1>1, <1>2, EditAssumption DEF Configs
<1>4. \A p \in Pages : editor[p] = Closed
  BY DEF EditInit
<1>5. editor \in [Pages -> Editors]
  BY ClosedIsOne DEF EditInit
<1>6. NoEdit \in Submissions /\ NoEdit.at = "new"
  BY DEF NoEdit, Submissions, NoToken
<1>7. edit \in [Edits -> Submissions] /\ \A e \in Edits : edit[e].at = "new"
  BY <1>6 DEF EditInit
<1>8. leases \in [Tokens -> Leases] /\ \A t \in Tokens : leases[t] = NoLease
  BY NoLeaseIsOne DEF EditInit
<1>9. rules \in RuleSteps /\ rules.at = "none"
  BY DEF EditInit, NoRules, RuleSteps
<1>10. EditTypes
  BY <1>3, <1>5, <1>7, <1>8, <1>9, EditAssumption DEF EditInit, EditTypes
<1>11. StoreLockInv
  BY <1>7, <1>9 DEF StoreLockInv
<1>12. LeasesInv
  BY <1>8, <1>9, NoLeaseIsOne DEF LeasesInv, InForce
<1>13. EditorsInv
  BY <1>4, ClosedIsOne DEF EditorsInv, EditorInv
<1>14. SubmissionsInv
  BY <1>7 DEF SubmissionsInv, SubmissionInv
<1> QED
  BY <1>10, <1>11, <1>12, <1>13, <1>14 DEF EditInv

LEMMA EditInvKept == EditInv /\ [EditNext]_editVars => EditInv'
<1> SUFFICES ASSUME EditInv, [EditNext]_editVars PROVE EditInv'
  OBVIOUS
<1>1. ASSUME NEW t \in Tokens, LeaseRunsOut(t) PROVE EditInv'
  BY <1>1, LeaseRunsOutKept
<1>2. ASSUME NEW p \in Pages, (\E a \in Attributes : OpenEditor(p, a)) \/ Renew(p) \/ Reacquire(p) \/ CloseEditor(p)
             \/ ReleaseLooks(p) \/ (\E e \in Edits : BeginEdit(e, p))
      PROVE  EditInv'
  BY <1>2, OpenEditorKept, RenewKept, ReacquireKept, CloseEditorKept, ReleaseLooksKept, BeginEditKept
<1>3. ASSUME NEW e \in Edits, BeginNew(e) \/ Lock(e) \/ (\E name \in Names, owned \in SUBSET Rules : Merge(e, name, owned))
             \/ Save(e) \/ SaveFails(e) \/ FinishClaim(e)
      PROVE  EditInv'
  BY <1>3, BeginNewKept, LockKept, MergeKept, SaveKept, FinishClaimKept
<1>4. ASSUME NEW triggered \in SUBSET Rules, RulesApply(triggered) PROVE EditInv'
  BY <1>4, RulesApplyKept
<1>5. ASSUME NEW removed \in SUBSET Existing(config) \ {{}}, ReplaceState(removed) PROVE EditInv'
  BY <1>5, ReplaceStateKept
<1>6. CASE UNCHANGED editVars
  <2>1. UNCHANGED <<config, identified, results, leases, issued, storeLock, editor, edit, rules>>
    BY <1>6 DEF editVars
  <2>2. Fade(leases')
    BY <2>1, TheEdits, StayingFades
  <2> QED
    BY <2>1, <2>2, QuietKept
<1> QED
  BY <1>1, <1>2, <1>3, <1>4, <1>5, <1>6, RulesSaveKept DEF EditNext

LEMMA SaveLosesNothing ==
  ASSUME EditInv, NEW e \in Edits, Save(e)
  PROVE  LET a == edit[e].of
         IN /\ edit[e].own /\ edit[e].token # NoToken => results[a] = edit[e].seen
            /\ \A b \in Attributes \ {a} : config'.name[b] = config.name[b]
            /\ \A r \in Rules :
                 config.rule[r] \notin {Nobody, config.name[a]} => config'.rule[r] = config.rule[r]
            /\ config'.received = config.received /\ Valid(config')
<1>1. edit[e].at = "merged" /\ Live(edit[e].token) /\ config' = edit[e].next
  BY DEF Save, Saves
<1>2. PICK a \in Attributes : a = edit[e].of
  BY <1>1 DEF EditInv, SubmissionsInv, SubmissionInv
<1>3. MergedWith(edit[e], config)
  BY <1>1 DEF EditInv, SubmissionsInv, SubmissionInv
<1>4. PICK name \in Names, owned \in SUBSET Rules :
        Accepted(config, a, name, owned, edit[e].token = NoToken) /\ edit[e].next = Edited(config, a, name, owned)
  BY <1>2, <1>3 DEF MergedWith
<1>5. (\A r \in owned : config.rule[r] \in {Nobody, config.name[a]}) /\ Valid(config')
  BY <1>1, <1>4 DEF Accepted
<1>6. edit[e].own /\ edit[e].token # NoToken => results[a] = edit[e].seen
  <2> HAVE edit[e].own /\ edit[e].token # NoToken
  <2>1. PICK t \in 0..issued : t = edit[e].token
    BY <1>1 DEF EditInv, SubmissionsInv, SubmissionInv
  <2>2. t \in Tokens /\ Swept[t].held /\ ~Swept[t].expired
    BY <1>1, <2>1, TheEdits DEF Live, NoToken
  <2>3. InForce(leases[t])
    BY <2>2, TheEdits, SweptLeases
  <2> QED
    BY <1>1, <1>2, <2>1, <2>3 DEF EditInv, SubmissionsInv, SubmissionInv
<1>7. /\ \A b \in Attributes \ {a} : config'.name[b] = config.name[b]
      /\ \A r \in Rules \ owned : config.rule[r] # config.name[a] => config'.rule[r] = config.rule[r]
      /\ config'.received = config.received
  BY <1>1, <1>4, TheEdits, EditedIs
<1> QED
  BY <1>2, <1>5, <1>6, <1>7

\* AcceptedEditsLoseNothing of attribute_edits.go, in full: whatever pages, leases, submissions
\* and rules there are, an edit that is saved under the lease of its own session overwrites
\* no result that its page has not seen, it leaves what others have written as it is, and
\* nobody waits for a claim that is gone.
THEOREM EditsNeverLose == EditSpec => AcceptedEditsLoseNothing
<1>1. EditInv => SleepersAreAwaited
  BY DEF EditInv, EditorsInv, EditorInv, SleepersAreAwaited
<1>2. EditInv /\ EditInv' /\ [EditNext]_editVars =>
        [ /\ SleepersAreAwaited'
          /\ \A e \in Edits : Save(e) =>
               LET a == edit[e].of
               IN /\ edit[e].own /\ edit[e].token # NoToken => results[a] = edit[e].seen
                  /\ \A b \in Attributes \ {a} : config'.name[b] = config.name[b]
                  /\ \A r \in Rules :
                       config.rule[r] \notin {Nobody, config.name[a]} => config'.rule[r] = config.rule[r]
                  /\ config'.received = config.received /\ Valid(config') ]_editVars
  <2> SUFFICES ASSUME EditInv, EditInv'
               PROVE  /\ SleepersAreAwaited'
                      /\ \A e \in Edits : Save(e) =>
                           LET a == edit[e].of
                           IN /\ edit[e].own /\ edit[e].token # NoToken => results[a] = edit[e].seen
                              /\ \A b \in Attributes \ {a} : config'.name[b] = config.name[b]
                              /\ \A r \in Rules :
                                   config.rule[r] \notin {Nobody, config.name[a]} => config'.rule[r] = config.rule[r]
                              /\ config'.received = config.received /\ Valid(config')
    OBVIOUS
  <2>1. SleepersAreAwaited'
    BY DEF EditInv, EditorsInv, EditorInv, SleepersAreAwaited
  <2> QED
    BY <2>1, SaveLosesNothing
<1>3. EditInit => EditInv
  BY EditInvInit
<1>4. EditInv /\ [EditNext]_editVars => EditInv'
  BY EditInvKept
<1> QED
  BY <1>2, <1>3, <1>4, PTL DEF EditSpec, AcceptedEditsLoseNothing

-----------------------------------------------------------------------------
(***************************************************************************)
(* The updates of the local program (Updater).  While no panel is started  *)
(* beside an installer, the program's path has an intact program at every  *)
(* step but those between Backup and the check in place, and there .old    *)
(* has one; and nobody but the installer touches the policy that it has    *)
(* verified the release with.                                              *)
(***************************************************************************)
Pendings == [version : 0..MaxVersion, kind : {"none", "raw", "legacy", "signed"}, context : Contexts]
Panels == [on : BOOLEAN, version : 0..MaxVersion, image : {"target", "old"}, pending : Pendings,
           at : {"idle", "saving"}, sweeping : BOOLEAN]
Installers == [at : {"off", "verify", "clear", "copy", "copying", "check", "backup", "replace", "final", "marker", "finish"},
               pending : Pendings]

Rulings == SUBSET (Signers \X Versions)

UpdateTypes ==
  /\ releases \in Seq(Nat) /\ policies \in Seq(Rulings) /\ expired \in Nat /\ accepted \in 0..Len(policies)
  /\ \A v \in 1..Len(releases) : releases[v] \in 1..Len(policies)
  /\ Len(releases) \in 1..MaxVersion
  /\ floor \in BOOLEAN /\ file \in [Paths -> 0..Torn] /\ metadata \in Pendings
  /\ panel \in Panels /\ installer \in Installers /\ overlap \in BOOLEAN

\* What is pending is a release of its kind.
Released(p) ==
  /\ p.kind # "none" => p.version \in Versions
  /\ p.kind = "signed" => p.version \in 1..Len(releases)

PendingsInv ==
  /\ Released(metadata)
  /\ panel.on /\ panel.pending # NoPending =>
       /\ panel.pending.kind \in {"legacy", "signed"} /\ Released(panel.pending)
       /\ panel.version < panel.pending.version
       /\ panel.pending.kind = "legacy" => metadata.kind \in {"legacy", "none"}
  /\ panel.on => panel.version \in Versions
  /\ ~panel.on => panel.pending = NoPending
  /\ installer.at # "off" => installer.pending.kind \in {"legacy", "signed"} /\ Released(installer.pending)

Authorized ==
  installer.at \in {"clear", "copy", "copying", "check", "backup", "replace"} /\ installer.pending.kind = "signed" =>
    accepted \in 1..Len(policies) /\ Installable(installer.pending.version, accepted)

Placed ==
  /\ panel.on => installer.at = "off" /\ panel.image = "target" /\ file["target"] \in Versions
  /\ installer.at \in {"verify", "clear", "copy", "copying", "check", "backup", "marker", "finish"} => file["target"] \in Versions
  /\ installer.at \in {"replace", "final"} => file["old"] \in Versions
  /\ file["target"] \in Versions \/ file["old"] \in Versions

UpdateInv == UpdateTypes /\ PendingsInv /\ (~overlap => Authorized /\ Placed)

USE DEF Installable, Authorizes, NamesPublisher

LEMMA TheUpdates ==
  ASSUME UpdateInv
  PROVE  /\ MaxVersion \in Nat \ {0} /\ MaxEpoch \in Nat \ {0} /\ Versions = 1..MaxVersion /\ None = 0 /\ Torn = MaxVersion + 1
         /\ releases \in Seq(Nat) /\ policies \in Seq(Rulings) /\ expired \in Nat /\ accepted \in 0..Len(policies)
         /\ \A v \in 1..Len(releases) : releases[v] \in 1..Len(policies)
         /\ Len(releases) \in 1..MaxVersion /\ Len(policies) \in Nat
         /\ file \in [Paths -> 0..Torn] /\ metadata \in Pendings /\ panel \in Panels /\ installer \in Installers
BY UpdaterAssumption DEF UpdateInv, UpdateTypes, Versions, None, Torn

LEMMA NoneIsOne == NoPending \in Pendings /\ NoPending.kind = "none" /\ NoPolicy \in Contexts /\ NoPolicy.epoch = 0
  /\ NoPolicy.mode = "unavailable"
<1>1. NoPolicy \in Contexts /\ NoPolicy.epoch = 0 /\ NoPolicy.mode = "unavailable"
  BY UpdaterAssumption DEF NoPolicy, Contexts
<1>2. NoPending \in Pendings /\ NoPending.kind = "none"
  BY <1>1, UpdaterAssumption DEF NoPending, Pendings, None
<1> QED
  BY <1>1, <1>2

LEMMA OffIsOne == Off \in Panels /\ Off.on = FALSE /\ Off.pending = NoPending /\ Off.image = "target" /\ Off.at = "idle"
BY NoneIsOne, UpdaterAssumption DEF Off, Panels, None

LEMMA NoInstallerIsOne == NoInstaller \in Installers /\ NoInstaller.at = "off"
BY NoneIsOne DEF NoInstaller, Installers

LEMMA RemovedIs ==
  ASSUME file \in [Paths -> 0..Torn], NEW paths, NEW kept
  PROVE  /\ Removed(paths, kept) \in [Paths -> 0..Torn]
         /\ \A p \in Paths : p \notin paths => Removed(paths, kept)[p] = file[p]
BY UpdaterAssumption DEF Removed, None, Torn

\* A verification leaves a policy there is, and the installer's is that of its context.
LEMMA ResolvesIs ==
  ASSUME UpdateInv, NEW version \in 1..Len(releases), NEW answer \in Answers, NEW context, NEW failures,
         Resolves(version, answer, context, failures)
  PROVE  /\ accepted' \in 0..Len(policies) /\ accepted' >= accepted
         /\ answer = 0 /\ context # NoPolicy => accepted' = context.epoch /\ accepted' \in 1..Len(policies)
         /\ context = NoPolicy \/ context.mode = "current" \/ context.epoch <= expired
<1>1. releases[version] \in 1..Len(policies) /\ accepted \in 0..Len(policies) /\ Len(policies) \in Nat /\ expired \in Nat
  BY TheUpdates
<1>2. answer \in 0..Len(policies)
  BY <1>1 DEF Answers
<1>3. PICK e : e = Selected(version, answer)
  OBVIOUS
<1>4. e \in 1..Len(policies) /\ e >= accepted /\ (FromCache(version) /\ answer = 0 => e = accepted)
  BY <1>1, <1>2, <1>3 DEF Selected, FromCache
<1>5. \/ Resolved(version, answer) = [epoch |-> e, mode |-> "current"]
      \/ Resolved(version, answer) = [epoch |-> e, mode |-> "fallback"] /\ FromCache(version) /\ e <= expired
      \/ Resolved(version, answer) = NoPolicy
  BY <1>3 DEF Resolved
<1> QED
  BY <1>1, <1>4, <1>5, NoneIsOne DEF Resolves

LEMMA VerificationIs ==
  ASSUME UpdateInv, NEW p, p.kind = "signed" => p.version \in 1..Len(releases), NEW version,
         p.kind = "signed" => version \in 1..Len(releases), NEW answer \in Answers,
         NEW context, NEW failures, Verification(p, version, answer, context, failures)
  PROVE  /\ accepted' \in 0..Len(policies) /\ accepted' >= accepted
         /\ p.kind = "signed" /\ answer = 0 /\ context # NoPolicy =>
              accepted' = context.epoch /\ accepted' \in 1..Len(policies)
         /\ p.kind = "signed" => context = NoPolicy \/ context.mode = "current" \/ context.epoch <= expired
<1>1. CASE p.kind = "signed"
  BY <1>1, ResolvesIs DEF Verification
<1>2. CASE p.kind # "signed"
  BY <1>2, TheUpdates DEF Verification
<1> QED
  BY <1>1, <1>2

LEMMA ReleaseKept == ASSUME UpdateInv, Release PROVE UpdateInv'
<1>1. PICK e \in 1..Len(policies) : releases' = Append(releases, e)
  BY DEF Release
<1>2. UNCHANGED <<policies, expired, overlap, accepted, floor, file, metadata, marker, panel, installer>> /\ Len(releases) < MaxVersion
  BY DEF Release
<1>3. releases \in Seq(Nat) /\ e \in Nat
  BY <1>1, TheUpdates
<1>4. releases' \in Seq(Nat) /\ Len(releases') = Len(releases) + 1
      /\ \A v \in 1..Len(releases') : IF v <= Len(releases) THEN releases'[v] = releases[v] ELSE releases'[v] = e
  BY <1>1, <1>3
<1>5. UpdateTypes'
  BY <1>1, <1>2, <1>4, TheUpdates DEF UpdateInv, UpdateTypes
<1>6. PendingsInv'
  <2>1. \A v : v \in 1..Len(releases) => v \in 1..Len(releases')
    BY <1>4, TheUpdates
  <2> QED
    BY <1>2, <2>1 DEF UpdateInv, PendingsInv, Released
<1> QED
  BY <1>2, <1>5, <1>6 DEF UpdateInv, Authorized, Placed

LEMMA PublishPolicyKept == ASSUME UpdateInv, PublishPolicy PROVE UpdateInv'
<1>1. PICK drawn \in Rulings : policies' = Append(policies, drawn)
  BY UpdaterAssumption DEF PublishPolicy, Rulings, Versions
<1>2. UNCHANGED <<releases, expired, overlap, accepted, floor, file, metadata, marker, panel, installer>>
  BY DEF PublishPolicy
<1>3. policies \in Seq(Rulings)
  BY TheUpdates
<1>4. policies' \in Seq(Rulings) /\ Len(policies') = Len(policies) + 1
      /\ \A e \in 1..Len(policies) : policies'[e] = policies[e]
  BY <1>1, <1>3
<1>5. UpdateTypes'
  BY <1>2, <1>4, TheUpdates DEF UpdateInv, UpdateTypes
<1>6. PendingsInv'
  BY <1>2 DEF UpdateInv, PendingsInv, Released
<1>7. Authorized => Authorized'
  <2>1. accepted \in 1..Len(policies) => accepted \in 1..Len(policies') /\ policies'[accepted] = policies[accepted]
    BY <1>4, TheUpdates
  <2>2. UNCHANGED <<accepted, installer, expired, Versions>>
    BY <1>2 DEF Versions
  <2> QED
    BY <2>1, <2>2 DEF Authorized
<1> QED
  BY <1>2, <1>5, <1>6, <1>7 DEF UpdateInv, Placed

\* Nothing that the invariant speaks of changes.
LEMMA UpdateStays ==
  ASSUME UpdateInv, UNCHANGED <<releases, policies, overlap, accepted, file, metadata, panel, installer>>,
         floor' \in BOOLEAN, expired' \in Nat, expired' >= expired
  PROVE  UpdateInv'
<1>1. UpdateTypes'
  BY DEF UpdateInv, UpdateTypes
<1>2. PendingsInv'
  BY DEF UpdateInv, PendingsInv, Released
<1>3. Placed => Placed'
  BY DEF Placed
<1>4. Authorized => Authorized'
  <2>1. expired \in Nat /\ expired' \in Nat /\ expired' >= expired /\ accepted \in Int
    BY TheUpdates
  <2> QED
    BY <2>1 DEF Authorized
<1> QED
  BY <1>1, <1>2, <1>3, <1>4 DEF UpdateInv

LEMMA ExpiresKept == ASSUME UpdateInv, Expires PROVE UpdateInv'
<1>1. expired' \in Nat /\ expired' >= expired /\ floor' \in BOOLEAN
  BY TheUpdates DEF Expires, UpdateInv, UpdateTypes
<1> QED
  BY <1>1, UpdateStays DEF Expires

LEMMA ReadIs ==
  ASSUME UpdateInv
  PROVE  /\ Read \in Pendings /\ Read.version = metadata.version /\ Released(Read) /\ Read.kind # "raw"
         /\ Readable => Read.kind \in {"legacy", "signed"}
<1>1. PICK m \in Pendings : m = metadata
  BY TheUpdates
<1>2. PICK legacy \in Pendings : legacy = [m EXCEPT !.kind = "legacy"]
  BY DEF Pendings
<1>3. legacy.kind = "legacy" /\ legacy.version = m.version
  BY <1>2 DEF Pendings
<1>4. Read = IF m.kind = "raw" THEN legacy ELSE m
  BY <1>1, <1>2 DEF Read
<1>5. Released(m) /\ m.kind \in {"none", "raw", "legacy", "signed"}
  BY <1>1 DEF UpdateInv, PendingsInv, Pendings
<1>6. Readable => m.kind # "none"
  BY <1>1 DEF Readable
<1> QED
  BY <1>1, <1>3, <1>4, <1>5, <1>6 DEF Released

\* The panel goes on, and leaves the program it runs from where it is.
LEMMA PanelWorks ==
  ASSUME UpdateInv, panel.on, NEW works \in Panels, panel' = works, works.on, works.version = panel.version, works.image = panel.image,
         UNCHANGED <<releases, policies, expired, overlap, installer>>, accepted' \in 0..Len(policies), floor' \in BOOLEAN,
         file' \in [Paths -> 0..Torn], file'["target"] = file["target"], metadata' \in Pendings, Released(metadata'),
         works.pending # NoPending =>
           /\ works.pending.kind \in {"legacy", "signed"} /\ Released(works.pending) /\ panel.version < works.pending.version
           /\ works.pending.kind = "legacy" => metadata'.kind \in {"legacy", "none"}
  PROVE  UpdateInv'
<1>1. UpdateTypes'
  BY DEF UpdateInv, UpdateTypes
<1>2. PendingsInv'
  BY DEF UpdateInv, PendingsInv, Released
<1>3. ~overlap => installer.at = "off" /\ panel.image = "target" /\ file["target"] \in Versions
  BY DEF UpdateInv, Placed
<1>4. ~overlap' => Authorized' /\ Placed'
  BY <1>3 DEF Authorized, Placed
<1> QED
  BY <1>1, <1>2, <1>4 DEF UpdateInv

\* The panel ends, and may have started the installer.
LEMMA PanelEnds ==
  ASSUME UpdateInv, panel.on, panel' = Off,
         UNCHANGED <<releases, policies, expired, overlap>>, accepted' \in 0..Len(policies), floor' \in BOOLEAN,
         file' \in [Paths -> 0..Torn], file'["target"] = file["target"], metadata' \in Pendings, Released(metadata'),
         \/ installer' = installer
         \/ installer' = [at |-> "verify", pending |-> Read] /\ Readable
  PROVE  UpdateInv'
<1>1. installer' \in Installers
  BY TheUpdates, ReadIs DEF Installers
<1>2. UpdateTypes'
  BY <1>1, OffIsOne DEF UpdateInv, UpdateTypes
<1>3. installer'.at # "off" => installer'.pending.kind \in {"legacy", "signed"} /\ Released(installer'.pending)
  BY ReadIs DEF UpdateInv, PendingsInv
<1>4. PendingsInv'
  BY <1>3, OffIsOne DEF PendingsInv, Released
<1>5. ~overlap => installer.at = "off" /\ file["target"] \in Versions
  BY DEF UpdateInv, Placed
<1>6. ~overlap' => Authorized' /\ Placed'
  BY <1>5, OffIsOne DEF Authorized, Placed
<1> QED
  BY <1>2, <1>4, <1>6 DEF UpdateInv

LEMMA CleanupIs ==
  ASSUME UpdateInv, NEW kept, Cleanup(kept)
  PROVE  /\ file' \in [Paths -> 0..Torn] /\ file'["target"] = file["target"] /\ (metadata' = metadata \/ metadata' = NoPending)
         /\ metadata' \in Pendings /\ Released(metadata') /\ (metadata'.kind = metadata.kind \/ metadata'.kind = "none")
<1>1. file' \in [Paths -> 0..Torn] /\ file'["target"] = file["target"]
  BY TheUpdates, RemovedIs DEF Cleanup, Paths
<1>2. Released(metadata) /\ Released(NoPending)
  BY NoneIsOne DEF UpdateInv, PendingsInv, Released
<1> QED
  BY <1>1, <1>2, TheUpdates, NoneIsOne DEF Cleanup

\* What StartPanel does to the trust store.
LEMMA StartPanelAccepts == ASSUME UpdateInv, StartPanel PROVE accepted' \in 0..Len(policies) /\ accepted' >= accepted
<1>1. PICK version \in Versions : version = file["target"]
  BY DEF StartPanel
<1>2. PICK context \in Contexts, failures \in 0..1 :
        IF Readable /\ Read.version > version
        THEN Verification(Read, version, 0, context, failures)
        ELSE context = NoPolicy /\ failures = 0 /\ UNCHANGED accepted
  BY <1>1 DEF StartPanel
<1>3. CASE Readable /\ Read.version > version
  <2>1. Read.kind = "signed" => Read.version \in 1..Len(releases)
    BY ReadIs DEF Released
  <2>2. Read.kind = "signed" => version \in 1..Len(releases)
    BY <1>1, <1>3, <2>1, TheUpdates
  <2>3. 0 \in Answers
    BY DEF Answers
  <2> QED
    BY <1>2, <1>3, <2>1, <2>2, <2>3, VerificationIs
<1>4. CASE ~(Readable /\ Read.version > version)
  BY <1>2, <1>4, TheUpdates
<1> QED
  BY <1>3, <1>4

LEMMA StartPanelKept == ASSUME UpdateInv, StartPanel PROVE UpdateInv'
<1>1. PICK version \in Versions : version = file["target"]
  BY DEF StartPanel
<1>2. PICK context \in Contexts, failures \in 0..1, kept \in Refused :
        /\ IF Readable /\ Read.version > version
           THEN Verification(Read, version, 0, context, failures)
           ELSE context = NoPolicy /\ failures = 0 /\ UNCHANGED accepted
        /\ floor' = (floor \/ Readable)
        /\ LET restored == Readable /\ Read.version > version /\ Verified(Read, "pending", context)
           IN /\ panel' = [Off EXCEPT !.on = TRUE, !.version = version, !.sweeping = marker = version,
                                      !.pending = IF restored THEN Read ELSE NoPending]
              /\ IF restored \/ metadata.kind = "none"
                 THEN kept = {} /\ metadata' = Read /\ UNCHANGED file
                 ELSE Cleanup(kept)
  BY <1>1 DEF StartPanel
<1>3. overlap' = (overlap \/ installer.at # "off") /\ UNCHANGED <<releases, policies, expired, installer>>
  BY DEF StartPanel
<1>4. PICK restored \in BOOLEAN : restored = (Readable /\ Read.version > version /\ Verified(Read, "pending", context))
  OBVIOUS
<1>5. PICK pending \in Pendings : pending = IF restored THEN Read ELSE NoPending
  BY ReadIs, NoneIsOne
<1>6. accepted' \in 0..Len(policies)
  BY StartPanelAccepts
<1>7. PICK p1 \in Panels : p1 = [Off EXCEPT !.on = TRUE]
  BY OffIsOne DEF Panels
<1>8. p1.on = TRUE /\ p1.image = "target" /\ p1.at = "idle"
  BY <1>7, OffIsOne DEF Panels
<1>81. version \in 0..MaxVersion
  BY <1>1, TheUpdates
<1>9. PICK p2 \in Panels : p2 = [p1 EXCEPT !.version = version]
  BY <1>81 DEF Panels
<1>10. p2.on = TRUE /\ p2.image = "target" /\ p2.version = version
  BY <1>8, <1>9 DEF Panels
<1>11. PICK p3 \in Panels : p3 = [p2 EXCEPT !.sweeping = (marker = version)]
  BY DEF Panels
<1>12. p3.on = TRUE /\ p3.image = "target" /\ p3.version = version
  BY <1>10, <1>11 DEF Panels
<1>13. PICK p4 \in Panels : p4 = [p3 EXCEPT !.pending = pending]
  BY DEF Panels
<1>14. p4.on = TRUE /\ p4.image = "target" /\ p4.version = version /\ p4.pending = pending
  BY <1>12, <1>13 DEF Panels
<1>15. panel' = p4
  BY <1>2, <1>4, <1>5, <1>7, <1>9, <1>11, <1>13
<1>16. IF restored \/ metadata.kind = "none" THEN metadata' = Read /\ UNCHANGED file ELSE Cleanup(kept)
  BY <1>2, <1>4
<1>17. /\ file' \in [Paths -> 0..Torn] /\ file'["target"] = file["target"] /\ metadata' \in Pendings /\ Released(metadata')
  BY <1>16, TheUpdates, ReadIs, CleanupIs
<1>18. floor' \in BOOLEAN /\ overlap' \in BOOLEAN
  BY <1>2, <1>3 DEF UpdateInv, UpdateTypes, Readable
<1>19. UpdateTypes'
  BY <1>3, <1>6, <1>15, <1>17, <1>18, TheUpdates DEF UpdateTypes
<1>20. pending # NoPending => /\ pending.kind \in {"legacy", "signed"} /\ Released(pending) /\ version < pending.version
                              /\ pending.kind = "legacy" => metadata'.kind \in {"legacy", "none"}
  BY <1>1, <1>4, <1>5, <1>16, ReadIs, TheUpdates
<1>21. PendingsInv'
  BY <1>3, <1>14, <1>15, <1>17, <1>20 DEF UpdateInv, PendingsInv, Released
<1>22. ~overlap' => Authorized' /\ Placed'
  BY <1>1, <1>3, <1>14, <1>15, <1>17 DEF Authorized, Placed
<1> QED
  BY <1>19, <1>21, <1>22 DEF UpdateInv

LEMMA SweepKept == ASSUME UpdateInv, Sweep PROVE UpdateInv'
<1>1. PICK kept \in Refused : /\ Cleanup(kept)
                              /\ panel' = [panel EXCEPT !.sweeping = kept # {} \/ \E p \in {"pending", "old", "new"} : Busy(p)]
  BY DEF Sweep
<1>2. PICK on \in BOOLEAN : on = (kept # {} \/ \E p \in {"pending", "old", "new"} : Busy(p))
  OBVIOUS
<1>3. PICK old \in Panels : old = panel
  BY TheUpdates
<1>4. PICK works \in Panels : works = [old EXCEPT !.sweeping = on]
  BY DEF Panels
<1>5. works.on = old.on /\ works.version = old.version /\ works.image = old.image /\ works.pending = old.pending
  BY <1>4 DEF Panels
<1>6. panel' = works /\ panel.on /\ UNCHANGED <<releases, policies, expired, overlap, installer, accepted, floor>>
  BY <1>1, <1>2, <1>3, <1>4 DEF Sweep, world
<1>7. accepted' \in 0..Len(policies) /\ floor' \in BOOLEAN
  BY <1>6, TheUpdates DEF UpdateInv, UpdateTypes
<1>8. /\ file' \in [Paths -> 0..Torn] /\ file'["target"] = file["target"] /\ metadata' \in Pendings /\ Released(metadata')
      /\ metadata'.kind = metadata.kind \/ metadata'.kind = "none"
  BY <1>1, CleanupIs
<1>9. works.pending # NoPending =>
         /\ works.pending.kind \in {"legacy", "signed"} /\ Released(works.pending) /\ panel.version < works.pending.version
         /\ works.pending.kind = "legacy" => metadata'.kind \in {"legacy", "none"}
  BY <1>3, <1>5, <1>6, <1>8 DEF UpdateInv, PendingsInv
<1> QED
  BY <1>3, <1>5, <1>6, <1>7, <1>8, <1>9, PanelWorks

LEMMA DownloadAccepts == ASSUME UpdateInv, Download PROVE accepted' \in 0..Len(policies) /\ accepted' >= accepted
<1>1. PICK answer \in Answers, context \in Contexts, failures \in 0..1 : Resolves(panel.version, answer, context, failures)
  BY DEF Download
<1>2. panel.version \in 1..Len(releases)
  BY TheUpdates DEF Newest, IsNewer, Download, UpdateInv, PendingsInv
<1> QED
  BY <1>1, <1>2, ResolvesIs

LEMMA DownloadKept == ASSUME UpdateInv, Download PROVE UpdateInv'
<1>1. PICK answer \in Answers, context \in Contexts, failures \in 0..1 :
        /\ Resolves(panel.version, answer, context, failures)
        /\ IF Trusted([version |-> Newest, kind |-> "signed", context |-> context], context) /\ ~Busy("pending")
           THEN /\ file' = [file EXCEPT !["pending"] = Newest]
                /\ panel' = [panel EXCEPT !.at = "saving", !.pending = [version |-> Newest, kind |-> "signed", context |-> context]]
           ELSE UNCHANGED <<file, panel>>
  BY DEF Download
<1>2. /\ panel.on /\ panel.pending = NoPending /\ panel.version < Newest
      /\ UNCHANGED <<releases, policies, expired, overlap, floor, metadata, marker, installer>>
  BY DEF Download, world, IsNewer
<1>3. Newest = Len(releases) /\ Newest \in Versions /\ Newest \in 1..Len(releases) /\ panel.version \in 1..Len(releases)
      /\ Newest \in 0..MaxVersion /\ Newest \in 0..Torn
  BY <1>2, TheUpdates DEF Newest, UpdateInv, PendingsInv
<1>4. accepted' \in 0..Len(policies) /\ floor' \in BOOLEAN /\ metadata' \in Pendings /\ Released(metadata')
  BY <1>1, <1>2, <1>3, TheUpdates, DownloadAccepts DEF UpdateInv, UpdateTypes, PendingsInv
<1>5. CASE UNCHANGED <<file, panel>>
  BY <1>2, <1>4, <1>5, TheUpdates, PanelWorks
<1>6. CASE ~UNCHANGED <<file, panel>>
  <2>1. PICK pending \in Pendings : pending = [version |-> Newest, kind |-> "signed", context |-> context]
    BY <1>3 DEF Pendings
  <2>2. pending.kind = "signed" /\ pending.version = Newest
    BY <2>1
  <2>3. PICK old \in Panels : old = panel
    BY TheUpdates
  <2>4. PICK mid \in Panels : mid = [old EXCEPT !.at = "saving"]
    BY DEF Panels
  <2>5. mid.on = old.on /\ mid.version = old.version /\ mid.image = old.image
    BY <2>4 DEF Panels
  <2>6. PICK works \in Panels : works = [mid EXCEPT !.pending = pending]
    BY DEF Panels
  <2>7. works.on = old.on /\ works.version = old.version /\ works.image = old.image /\ works.pending = pending
    BY <2>5, <2>6 DEF Panels
  <2>8. file' = [file EXCEPT !["pending"] = Newest] /\ panel' = works
    BY <1>1, <1>6, <2>1, <2>3, <2>4, <2>6
  <2>9. file' \in [Paths -> 0..Torn] /\ file'["target"] = file["target"]
    BY <1>3, <2>8, TheUpdates DEF Paths
  <2>10. works.pending.kind \in {"legacy", "signed"} /\ Released(works.pending) /\ panel.version < works.pending.version
         /\ (works.pending.kind = "legacy" => metadata'.kind \in {"legacy", "none"})
    BY <1>2, <1>3, <2>2, <2>7 DEF Released
  <2> QED
    BY <1>2, <1>4, <2>3, <2>7, <2>8, <2>9, <2>10, PanelWorks
<1> QED
  BY <1>5, <1>6

LEMMA DownloadFailsKept == ASSUME UpdateInv, DownloadFails PROVE UpdateInv'
<1>1. /\ panel.on /\ panel.pending = NoPending /\ file' = [file EXCEPT !["pending"] = None]
      /\ UNCHANGED <<releases, policies, expired, overlap, accepted, floor, metadata, marker, panel, installer>>
  BY DEF DownloadFails, world
<1>2. /\ accepted' \in 0..Len(policies) /\ floor' \in BOOLEAN /\ metadata' \in Pendings /\ Released(metadata') /\ panel \in Panels
  BY <1>1, TheUpdates DEF UpdateInv, UpdateTypes, PendingsInv
<1>3. file' \in [Paths -> 0..Torn] /\ file'["target"] = file["target"]
  BY <1>1, TheUpdates DEF Paths
<1> QED
  BY <1>1, <1>2, <1>3, PanelWorks

LEMMA WritePendingMetadataKept == ASSUME UpdateInv, WritePendingMetadata PROVE UpdateInv'
<1>1. /\ panel.on /\ floor' = TRUE
      /\ UNCHANGED <<releases, policies, expired, overlap, accepted, marker, installer>>
      /\ \/ metadata' = panel.pending /\ panel' = [panel EXCEPT !.at = "idle"] /\ UNCHANGED file
         \/ /\ panel' = [panel EXCEPT !.at = "idle", !.pending = NoPending]
            /\ file' = Removed({"pending"}, {}) /\ UNCHANGED metadata
  BY DEF WritePendingMetadata, world
<1>2. PICK old \in Panels : old = panel
  BY TheUpdates
<1>3. PICK idle \in Panels : idle = [old EXCEPT !.at = "idle"]
  BY DEF Panels
<1>4. idle.on = old.on /\ idle.version = old.version /\ idle.image = old.image /\ idle.pending = old.pending
  BY <1>3 DEF Panels
<1>5. accepted' \in 0..Len(policies) /\ floor' \in BOOLEAN
  BY <1>1, TheUpdates
<1>6. CASE metadata' = panel.pending /\ panel' = [panel EXCEPT !.at = "idle"] /\ UNCHANGED file
  <2>1. panel' = idle
    BY <1>2, <1>3, <1>6
  <2>2. metadata' \in Pendings /\ file' \in [Paths -> 0..Torn]
    BY <1>6, TheUpdates DEF Panels
  <2>3. Released(metadata')
    BY <1>1, <1>6, NoneIsOne DEF UpdateInv, PendingsInv, Released
  <2>4. idle.pending # NoPending =>
           /\ idle.pending.kind \in {"legacy", "signed"} /\ Released(idle.pending) /\ panel.version < idle.pending.version
           /\ idle.pending.kind = "legacy" => metadata'.kind \in {"legacy", "none"}
    BY <1>1, <1>2, <1>4, <1>6 DEF UpdateInv, PendingsInv
  <2> QED
    BY <1>1, <1>2, <1>4, <1>5, <1>6, <2>1, <2>2, <2>3, <2>4, PanelWorks
<1>7. CASE panel' = [panel EXCEPT !.at = "idle", !.pending = NoPending] /\ file' = Removed({"pending"}, {}) /\ UNCHANGED metadata
  <2>1. PICK works \in Panels : works = [idle EXCEPT !.pending = NoPending]
    BY NoneIsOne DEF Panels
  <2>2. works.on = old.on /\ works.version = old.version /\ works.image = old.image /\ works.pending = NoPending
    BY <1>4, <2>1 DEF Panels
  <2>3. panel' = works
    BY <1>2, <1>3, <1>7, <2>1
  <2>4. file' \in [Paths -> 0..Torn] /\ file'["target"] = file["target"] /\ metadata' \in Pendings /\ Released(metadata')
    BY <1>7, TheUpdates, RemovedIs DEF Paths, UpdateInv, PendingsInv
  <2> QED
    BY <1>1, <1>2, <1>5, <2>2, <2>3, <2>4, PanelWorks
<1> QED
  BY <1>1, <1>6, <1>7

LEMMA ExitKept == ASSUME UpdateInv, Exit \/ LaunchFails PROVE UpdateInv'
<1>1. /\ panel.on /\ panel' = Off /\ (file' = file \/ file' = Removed({"old", "new"}, {}))
      /\ UNCHANGED <<releases, policies, expired, overlap, accepted, floor, metadata, marker, installer>>
  BY DEF Exit, LaunchFails, world
<1>2. file' \in [Paths -> 0..Torn] /\ file'["target"] = file["target"]
  <2>1. file \in [Paths -> 0..Torn] /\ "target" \in Paths /\ "target" \notin {"old", "new"}
    BY TheUpdates DEF Paths
  <2>2. Removed({"old", "new"}, {}) \in [Paths -> 0..Torn] /\ Removed({"old", "new"}, {})["target"] = file["target"]
    BY <2>1, RemovedIs
  <2> QED
    BY <1>1, <2>1, <2>2
<1>3. accepted' \in 0..Len(policies) /\ floor' \in BOOLEAN /\ metadata' \in Pendings /\ Released(metadata')
  BY <1>1, TheUpdates DEF UpdateInv, UpdateTypes, PendingsInv
<1> QED
  BY <1>1, <1>2, <1>3, PanelEnds

LEMMA InstallOnExitAccepts == ASSUME UpdateInv, InstallOnExit PROVE accepted' \in 0..Len(policies) /\ accepted' >= accepted
<1>1. PICK answer \in Answers, context \in Contexts, failures \in 0..1 :
        IF Readable THEN Verification(Read, panel.version, answer, context, failures)
        ELSE context = NoPolicy /\ failures = 0 /\ UNCHANGED accepted
  BY DEF InstallOnExit
<1>2. panel.on /\ panel.pending # NoPending
  BY DEF InstallOnExit
<1>3. CASE Readable
  <2>1. Read.kind = "signed" => Read.version \in 1..Len(releases)
    BY ReadIs DEF Released
  <2>2. Read.kind = "signed" => panel.version \in 1..Len(releases)
    <3> HAVE Read.kind = "signed"
    <3>1. metadata.kind = "signed"
      BY DEF Read
    <3>2. panel.pending.kind = "signed"
      BY <1>2, <3>1 DEF UpdateInv, PendingsInv
    <3>3. panel.pending.version \in 1..Len(releases) /\ panel.version < panel.pending.version /\ panel.version \in Versions
      BY <1>2, <3>2 DEF UpdateInv, PendingsInv, Released
    <3> QED
      BY <3>3, TheUpdates
  <2> QED
    BY <1>1, <1>3, <2>1, <2>2, VerificationIs
<1>4. CASE ~Readable
  BY <1>1, <1>4, TheUpdates
<1> QED
  BY <1>3, <1>4

LEMMA InstallOnExitKept == ASSUME UpdateInv, InstallOnExit PROVE UpdateInv'
<1>1. PICK answer \in Answers, context \in Contexts, failures \in 0..1, kept \in Refused :
       /\ IF Readable THEN Verification(Read, panel.version, answer, context, failures)
          ELSE context = NoPolicy /\ failures = 0 /\ UNCHANGED accepted
       /\ IF Readable /\ Verified(Read, "pending", context)
          THEN /\ metadata' = Read /\ file' = Removed({"old", "new"}, kept)
               /\ installer' = IF kept = {} THEN [at |-> "verify", pending |-> Read] ELSE installer
          ELSE /\ IF Readable /\ Read.kind = "legacy" THEN CleanupForRetry(kept) ELSE Cleanup(kept)
               /\ UNCHANGED installer
  BY DEF InstallOnExit
<1>2. panel.on /\ panel.pending # NoPending /\ floor' = (floor \/ Readable) /\ panel' = Off
      /\ UNCHANGED <<releases, policies, expired, overlap, marker>>
  BY DEF InstallOnExit, world
<1>3. accepted' \in 0..Len(policies)
  BY InstallOnExitAccepts
<1>4. floor' \in BOOLEAN
  BY <1>2 DEF UpdateInv, UpdateTypes, Readable
<1>5. Released(metadata) /\ metadata \in Pendings /\ file \in [Paths -> 0..Torn]
  BY TheUpdates DEF UpdateInv, PendingsInv
<1>6. CleanupForRetry(kept) => Cleanup(kept) \/ UNCHANGED <<file, metadata>>
  BY DEF CleanupForRetry
<1>7. file' \in [Paths -> 0..Torn] /\ file'["target"] = file["target"] /\ metadata' \in Pendings /\ Released(metadata')
  BY <1>1, <1>5, <1>6, ReadIs, CleanupIs, RemovedIs DEF Paths
<1>8. \/ installer' = installer
      \/ installer' = [at |-> "verify", pending |-> Read] /\ Readable
  BY <1>1
<1> QED
  BY <1>2, <1>3, <1>4, <1>7, <1>8, PanelEnds

(* The installer. *)
LEMMA ContinuesIs ==
  ASSUME UpdateInv, NEW at \in {"clear", "copy", "copying", "check", "backup", "replace", "final", "marker", "finish"}, Continues(at)
  PROVE  installer' \in Installers /\ installer'.at = at /\ installer'.pending = installer.pending
<1>1. PICK old \in Installers : old = installer
  BY TheUpdates
<1>2. PICK new : new = [old EXCEPT !.at = at]
  OBVIOUS
<1>3. new \in Installers /\ new.at = at /\ new.pending = old.pending
  BY <1>2 DEF Installers
<1> QED
  BY <1>1, <1>2, <1>3 DEF Continues

LEMMA MovesIs ==
  ASSUME UpdateInv, NEW from, NEW to \in {"target", "old"}, ImageMoves(from, to)
  PROVE  panel' \in Panels /\ panel'.on = panel.on /\ panel'.version = panel.version /\ panel'.pending = panel.pending
<1>1. PICK old \in Panels : old = panel
  BY TheUpdates
<1>2. PICK new : new = [old EXCEPT !.image = to]
  OBVIOUS
<1>3. new \in Panels /\ new.on = old.on /\ new.version = old.version /\ new.pending = old.pending
  BY <1>2 DEF Panels
<1>4. panel' = old \/ panel' = new
  BY <1>1, <1>2 DEF ImageMoves
<1> QED
  BY <1>1, <1>3, <1>4

\* The installer goes on, or ends; the panel, if there is one at all, does not notice.
LEMMA InstallerWorks ==
  ASSUME UpdateInv, installer.at # "off", UNCHANGED <<releases, policies, expired, overlap, floor>>,
         accepted' \in 0..Len(policies), file' \in [Paths -> 0..Torn], metadata' = metadata \/ metadata' = NoPending,
         panel' \in Panels, panel'.on = panel.on, panel'.version = panel.version, panel'.pending = panel.pending,
         \/ Ends
         \/ installer' \in Installers /\ installer'.at # "off" /\ installer'.pending = installer.pending,
         ~overlap /\ Authorized /\ Placed => Authorized' /\ Placed'
  PROVE  UpdateInv'
<1>1. installer' \in Installers
  BY NoInstallerIsOne DEF Ends
<1>2. metadata' \in Pendings /\ Released(metadata') /\ (metadata'.kind = metadata.kind \/ metadata'.kind = "none")
  BY TheUpdates, NoneIsOne DEF UpdateInv, PendingsInv, Released
<1>3. UpdateTypes'
  BY <1>1, <1>2 DEF UpdateInv, UpdateTypes
<1>4. installer'.at # "off" => installer'.pending = installer.pending
  BY NoInstallerIsOne DEF Ends
<1>5. PendingsInv'
  BY <1>2, <1>4 DEF UpdateInv, PendingsInv, Released
<1> QED
  BY <1>3, <1>5 DEF UpdateInv

LEMMA VerifyPendingKept == ASSUME UpdateInv, VerifyPending PROVE UpdateInv' /\ accepted' >= accepted
<1>1. PICK context \in Contexts, failures \in 0..1 :
        /\ Verification(installer.pending, installer.pending.version, 0, context, failures)
        /\ IF Verified(installer.pending, "pending", context)
           THEN Continues("clear") /\ UNCHANGED <<file, metadata>>
           ELSE Ends /\ file' = Removed({"new"}, {}) /\ metadata' = NoPending
  BY DEF VerifyPending
<1>2. installer.at = "verify" /\ UNCHANGED <<releases, policies, expired, overlap, floor, marker, panel>>
  BY DEF VerifyPending, world
<1>3. 0 \in Answers /\ (installer.pending.kind = "signed" => installer.pending.version \in 1..Len(releases))
      /\ installer.pending.kind \in {"legacy", "signed"}
  BY <1>2 DEF Answers, UpdateInv, PendingsInv, Released
<1>4. /\ accepted' \in 0..Len(policies) /\ accepted' >= accepted
      /\ installer.pending.kind = "signed" /\ context # NoPolicy =>
           /\ accepted' = context.epoch /\ accepted' \in 1..Len(policies)
           /\ context.mode = "current" \/ context.epoch <= expired
  <2>1. PICK p : p = installer.pending
    OBVIOUS
  <2>2. PICK version : version = p.version
    OBVIOUS
  <2>21. PICK answer \in Answers : answer = 0
    BY <1>3
  <2>3. Verification(p, version, answer, context, failures)
    BY <1>1, <2>1, <2>2, <2>21
  <2>4. (p.kind = "signed" => p.version \in 1..Len(releases)) /\ (p.kind = "signed" => version \in 1..Len(releases))
    BY <1>3, <2>1, <2>2
  <2>5. accepted' \in 0..Len(policies) /\ accepted' >= accepted
    BY <2>3, <2>4, VerificationIs
  <2>6. p.kind = "signed" /\ answer = 0 /\ context # NoPolicy => accepted' = context.epoch
    BY <2>3, <2>4, VerificationIs
  <2>7. p.kind = "signed" /\ answer = 0 /\ context # NoPolicy => accepted' \in 1..Len(policies)
    BY <2>3, <2>4, VerificationIs
  <2>8. p.kind = "signed" => context = NoPolicy \/ context.mode = "current" \/ context.epoch <= expired
    BY <2>3, <2>4, VerificationIs
  <2> QED
    BY <2>1, <2>21, <2>5, <2>6, <2>7, <2>8
<1>5. panel' \in Panels /\ file \in [Paths -> 0..Torn]
  BY <1>2, TheUpdates
<1>6. CASE Verified(installer.pending, "pending", context)
  <2>1. installer' \in Installers /\ installer'.at = "clear" /\ installer'.pending = installer.pending
    BY <1>1, <1>6, ContinuesIs
  <2>2. UNCHANGED <<file, metadata>>
    BY <1>1, <1>6
  <2>3. installer.pending.kind = "signed" =>
          /\ accepted' \in 1..Len(policies)
          /\ \/ <<SignerOf[installer.pending.version], installer.pending.version>> \in policies[accepted']
             \/ /\ accepted' <= expired
                /\ \E tag \in Versions : <<SignerOf[installer.pending.version], tag>> \in policies[accepted']
    BY <1>4, <1>6 DEF Verified, Trusted, Accepts
  <2>4. ~overlap /\ Authorized /\ Placed => Authorized' /\ Placed'
    BY <1>2, <2>1, <2>2, <2>3 DEF Authorized, Placed
  <2> QED
    BY <1>2, <1>4, <1>5, <2>1, <2>2, <2>4, InstallerWorks
<1>7. CASE ~Verified(installer.pending, "pending", context)
  <2>1. Ends /\ file' = Removed({"new"}, {}) /\ metadata' = NoPending
    BY <1>1, <1>7
  <2>2. file' \in [Paths -> 0..Torn] /\ file'["target"] = file["target"]
    BY <1>5, <2>1, RemovedIs DEF Paths
  <2>3. ~overlap /\ Authorized /\ Placed => Authorized' /\ Placed'
    BY <1>2, <2>1, <2>2, NoInstallerIsOne DEF Ends, Authorized, Placed
  <2> QED
    BY <1>2, <1>4, <1>5, <2>1, <2>2, <2>3, InstallerWorks
<1> QED
  BY <1>4, <1>6, <1>7

LEMMA ClearKept == ASSUME UpdateInv, Clear PROVE UpdateInv'
<1>1. PICK kept \in Refused : /\ file' = Removed({"old", "new"}, kept)
                              /\ IF file'["old"] = None /\ file'["new"] = None THEN Continues("copy") ELSE Ends
  BY DEF Clear
<1>2. installer.at = "clear" /\ UNCHANGED <<releases, policies, expired, overlap, accepted, floor, metadata, marker, panel>>
  BY DEF Clear, world
<1>3. panel' \in Panels /\ file' \in [Paths -> 0..Torn] /\ file'["target"] = file["target"] /\ accepted' \in 0..Len(policies)
  BY <1>1, <1>2, TheUpdates, RemovedIs DEF Paths
<1>4. Ends \/ (installer' \in Installers /\ installer'.at = "copy" /\ installer'.pending = installer.pending)
  BY <1>1, ContinuesIs
<1>5. ~overlap /\ Authorized /\ Placed => Authorized' /\ Placed'
  BY <1>2, <1>3, <1>4, NoInstallerIsOne DEF Ends, Authorized, Placed
<1> QED
  BY <1>2, <1>3, <1>4, <1>5, InstallerWorks

LEMMA BeginCopyKept == ASSUME UpdateInv, BeginCopy PROVE UpdateInv'
<1>1. installer.at = "copy" /\ UNCHANGED <<releases, policies, expired, overlap, accepted, floor, metadata, marker, panel>>
      /\ (\/ file' = [file EXCEPT !["new"] = Torn] /\ Continues("copying")
          \/ Ends /\ UNCHANGED file)
  BY DEF BeginCopy, world
<1>2. panel' \in Panels /\ file' \in [Paths -> 0..Torn] /\ file'["target"] = file["target"] /\ accepted' \in 0..Len(policies)
  BY <1>1, TheUpdates DEF Paths
<1>3. Ends \/ (installer' \in Installers /\ installer'.at = "copying" /\ installer'.pending = installer.pending)
  BY <1>1, ContinuesIs
<1>4. ~overlap /\ Authorized /\ Placed => Authorized' /\ Placed'
  BY <1>1, <1>2, <1>3, NoInstallerIsOne DEF Ends, Authorized, Placed
<1> QED
  BY <1>1, <1>2, <1>3, <1>4, InstallerWorks

LEMMA CopyKept == ASSUME UpdateInv, Copy PROVE UpdateInv'
<1>1. installer.at = "copying" /\ UNCHANGED <<releases, policies, expired, overlap, accepted, floor, metadata, marker, panel>>
      /\ (\/ file' = [file EXCEPT !["new"] = file["pending"]] /\ Continues("check")
          \/ file' = [file EXCEPT !["new"] = None] /\ Ends)
  BY DEF Copy, world
<1>11. PICK copied \in 0..Torn : file' = [file EXCEPT !["new"] = copied]
  <2>1. file["pending"] \in 0..Torn /\ None \in 0..Torn
    BY TheUpdates DEF Paths
  <2> QED
    BY <1>1, <2>1
<1>2. panel' \in Panels /\ file' \in [Paths -> 0..Torn] /\ file'["target"] = file["target"] /\ accepted' \in 0..Len(policies)
  BY <1>1, <1>11, TheUpdates DEF Paths
<1>3. Ends \/ (installer' \in Installers /\ installer'.at = "check" /\ installer'.pending = installer.pending)
  BY <1>1, ContinuesIs
<1>4. ~overlap /\ Authorized /\ Placed => Authorized' /\ Placed'
  BY <1>1, <1>2, <1>3, NoInstallerIsOne DEF Ends, Authorized, Placed
<1> QED
  BY <1>1, <1>2, <1>3, <1>4, InstallerWorks

LEMMA CheckCopyKept == ASSUME UpdateInv, CheckCopy PROVE UpdateInv'
<1>1. installer.at = "check" /\ UNCHANGED <<releases, policies, expired, overlap, accepted, floor, metadata, marker, panel>>
      /\ (\/ UNCHANGED file /\ Continues("backup")
          \/ file' = Removed({"new"}, {}) /\ Ends)
  BY DEF CheckCopy, world
<1>2. panel' \in Panels /\ file' \in [Paths -> 0..Torn] /\ file'["target"] = file["target"] /\ accepted' \in 0..Len(policies)
  BY <1>1, TheUpdates, RemovedIs DEF Paths
<1>3. Ends \/ (installer' \in Installers /\ installer'.at = "backup" /\ installer'.pending = installer.pending)
  BY <1>1, ContinuesIs
<1>4. ~overlap /\ Authorized /\ Placed => Authorized' /\ Placed'
  BY <1>1, <1>2, <1>3, NoInstallerIsOne DEF Ends, Authorized, Placed
<1> QED
  BY <1>1, <1>2, <1>3, <1>4, InstallerWorks

LEMMA RenamedIs ==
  ASSUME file \in [Paths -> 0..Torn], NEW from \in Paths, NEW to \in Paths, Renamed(from, to), from # to
  PROVE  file' \in [Paths -> 0..Torn] /\ file'[to] = file[from] /\ \A p \in Paths \ {from, to} : file'[p] = file[p]
BY UpdaterAssumption DEF Renamed, None, Torn

LEMMA BackupKept == ASSUME UpdateInv, Backup PROVE UpdateInv'
<1>1. installer.at = "backup" /\ UNCHANGED <<releases, policies, expired, overlap, accepted, floor, metadata, marker>>
      /\ (\/ Renamed("target", "old") /\ ImageMoves("target", "old") /\ Continues("replace")
          \/ file' = Removed({"new"}, {}) /\ Ends /\ UNCHANGED panel)
  BY DEF Backup, world
<1>2. "target" \in Paths /\ "old" \in Paths /\ file \in [Paths -> 0..Torn] /\ panel \in Panels /\ accepted' \in 0..Len(policies)
      /\ "target" \notin {"new"}
  BY <1>1, TheUpdates DEF Paths
<1>3. CASE Renamed("target", "old") /\ ImageMoves("target", "old") /\ Continues("replace")
  <2>1. file' \in [Paths -> 0..Torn] /\ file'["old"] = file["target"]
    BY <1>2, <1>3, RenamedIs
  <2>2. panel' \in Panels /\ panel'.on = panel.on /\ panel'.version = panel.version /\ panel'.pending = panel.pending
    BY <1>3, MovesIs
  <2>3. installer' \in Installers /\ installer'.at = "replace" /\ installer'.pending = installer.pending
    BY <1>3, ContinuesIs
  <2>4. ~overlap /\ Authorized /\ Placed => Authorized' /\ Placed'
    BY <1>1, <2>1, <2>2, <2>3 DEF Authorized, Placed
  <2> QED
    BY <1>1, <1>2, <2>1, <2>2, <2>3, <2>4, InstallerWorks
<1>4. CASE file' = Removed({"new"}, {}) /\ Ends /\ UNCHANGED panel
  <2>1. file' \in [Paths -> 0..Torn] /\ file'["target"] = file["target"]
    BY <1>2, <1>4, RemovedIs
  <2>2. ~overlap /\ Authorized /\ Placed => Authorized' /\ Placed'
    BY <1>1, <1>4, <2>1, NoInstallerIsOne DEF Ends, Authorized, Placed
  <2> QED
    BY <1>1, <1>2, <1>4, <2>1, <2>2, InstallerWorks
<1> QED
  BY <1>1, <1>3, <1>4

LEMMA ReplaceKept == ASSUME UpdateInv, Replace PROVE UpdateInv'
<1>1. installer.at = "replace" /\ UNCHANGED <<releases, policies, expired, overlap, accepted, floor, metadata, marker, panel>>
      /\ Renamed("new", "target") /\ Continues("final")
  BY DEF Replace, world
<1>2. "target" \in Paths /\ "new" \in Paths /\ "old" \in Paths \ {"new", "target"} /\ file \in [Paths -> 0..Torn]
      /\ panel' \in Panels /\ accepted' \in 0..Len(policies)
  BY <1>1, TheUpdates DEF Paths
<1>3. file' \in [Paths -> 0..Torn] /\ file'["old"] = file["old"]
  BY <1>1, <1>2, RenamedIs
<1>4. installer' \in Installers /\ installer'.at = "final" /\ installer'.pending = installer.pending
  BY <1>1, ContinuesIs
<1>5. ~overlap /\ Authorized /\ Placed => Authorized' /\ Placed'
  BY <1>1, <1>3, <1>4 DEF Authorized, Placed
<1> QED
  BY <1>1, <1>2, <1>3, <1>4, <1>5, InstallerWorks

LEMMA ReplaceFailsKept == ASSUME UpdateInv, ReplaceFails PROVE UpdateInv'
<1>1. installer.at = "replace" /\ UNCHANGED <<releases, policies, expired, overlap, accepted, floor, metadata, marker>> /\ Ends
      /\ (\/ file' = Removed({"new"}, {}) /\ UNCHANGED panel
          \/ /\ file' = [Removed({"new"}, {}) EXCEPT !["target"] = file["old"], !["old"] = None]
             /\ ImageMoves("old", "target"))
  BY DEF ReplaceFails, world
<1>2. "target" \in Paths /\ "old" \in Paths /\ file \in [Paths -> 0..Torn] /\ panel \in Panels /\ accepted' \in 0..Len(policies)
      /\ "old" \notin {"new"} /\ file["old"] \in 0..Torn /\ None \in 0..Torn
  BY <1>1, TheUpdates DEF Paths
<1>3. PICK left \in [Paths -> 0..Torn] : left = Removed({"new"}, {})
  BY <1>2, RemovedIs
<1>4. left["old"] = file["old"]
  BY <1>2, <1>3, RemovedIs
<1>5. file' \in [Paths -> 0..Torn] /\ (file'["old"] = file["old"] \/ file'["target"] = file["old"])
  BY <1>1, <1>2, <1>3, <1>4
<1>6. panel' \in Panels /\ panel'.on = panel.on /\ panel'.version = panel.version /\ panel'.pending = panel.pending
  BY <1>1, <1>2, MovesIs
<1>7. ~overlap /\ Authorized /\ Placed => Authorized' /\ Placed'
  BY <1>1, <1>5, <1>6, NoInstallerIsOne DEF Ends, Authorized, Placed
<1> QED
  BY <1>1, <1>2, <1>5, <1>6, <1>7, InstallerWorks

\* What is not put back from .old still is there.
LEMMA CheckTargetKept == ASSUME UpdateInv, CheckTarget PROVE UpdateInv'
<1>1. installer.at = "final" /\ UNCHANGED <<releases, policies, expired, overlap, accepted, floor, metadata, marker>>
      /\ (\/ GoodCopy("target") /\ Continues("marker") /\ UNCHANGED <<file, panel>>
          \/ Ends /\ UNCHANGED <<file, panel>>
          \/ Ends /\ file' = Removed({"target"}, {}) /\ UNCHANGED panel
          \/ Ends /\ Renamed("old", "target") /\ ImageMoves("old", "target"))
  BY DEF CheckTarget, world
<1>2. "target" \in Paths /\ "old" \in Paths /\ "old" \notin {"target"} /\ file \in [Paths -> 0..Torn] /\ panel \in Panels
      /\ accepted' \in 0..Len(policies)
  BY <1>1, TheUpdates DEF Paths
<1>3. CASE GoodCopy("target") /\ Continues("marker") /\ UNCHANGED <<file, panel>>
  <2>1. installer' \in Installers /\ installer'.at = "marker" /\ installer'.pending = installer.pending
    BY <1>3, ContinuesIs
  <2>2. file["target"] \in Versions
    BY <1>1, <1>3 DEF GoodCopy, UpdateInv, PendingsInv, Released
  <2>3. ~overlap /\ Authorized /\ Placed => Authorized' /\ Placed'
    BY <1>1, <1>3, <2>1, <2>2 DEF Authorized, Placed
  <2> QED
    BY <1>1, <1>2, <1>3, <2>1, <2>3, InstallerWorks
<1>4. CASE Ends /\ (UNCHANGED <<file, panel>> \/ (file' = Removed({"target"}, {}) /\ UNCHANGED panel))
  <2>1. file' \in [Paths -> 0..Torn] /\ file'["old"] = file["old"] /\ panel' = panel
    BY <1>2, <1>4, RemovedIs
  <2>2. ~overlap /\ Authorized /\ Placed => Authorized' /\ Placed'
    BY <1>1, <1>4, <2>1, NoInstallerIsOne DEF Ends, Authorized, Placed
  <2> QED
    BY <1>1, <1>2, <1>4, <2>1, <2>2, InstallerWorks
<1>5. CASE Ends /\ Renamed("old", "target") /\ ImageMoves("old", "target")
  <2>1. file' \in [Paths -> 0..Torn] /\ file'["target"] = file["old"]
    BY <1>2, <1>5, RenamedIs
  <2>2. panel' \in Panels /\ panel'.on = panel.on /\ panel'.version = panel.version /\ panel'.pending = panel.pending
    BY <1>5, MovesIs
  <2>3. ~overlap /\ Authorized /\ Placed => Authorized' /\ Placed'
    BY <1>1, <1>5, <2>1, <2>2, NoInstallerIsOne DEF Ends, Authorized, Placed
  <2> QED
    BY <1>1, <1>2, <1>5, <2>1, <2>2, <2>3, InstallerWorks
<1> QED
  BY <1>1, <1>3, <1>4, <1>5

LEMMA MarkerKept == ASSUME UpdateInv, WriteMarker \/ Finish \/ InstallerKilled PROVE UpdateInv'
<1>1. installer.at # "off" /\ UNCHANGED <<releases, policies, expired, overlap, accepted, floor, file, panel>>
      /\ (metadata' = metadata \/ metadata' = NoPending)
      /\ (\/ Ends
          \/ Continues("finish") /\ installer.at = "marker")
  BY DEF WriteMarker, Finish, InstallerKilled, world
<1>2. panel' \in Panels /\ file' \in [Paths -> 0..Torn] /\ accepted' \in 0..Len(policies)
  BY <1>1, TheUpdates
<1>3. CASE Ends
  <2>1. ~overlap /\ Authorized /\ Placed => Authorized' /\ Placed'
    BY <1>1, <1>3, NoInstallerIsOne DEF Ends, Authorized, Placed
  <2> QED
    BY <1>1, <1>2, <1>3, <2>1, InstallerWorks
<1>4. CASE Continues("finish") /\ installer.at = "marker"
  <2>1. installer' \in Installers /\ installer'.at = "finish" /\ installer'.pending = installer.pending
    BY <1>4, ContinuesIs
  <2>2. ~overlap /\ Authorized /\ Placed => Authorized' /\ Placed'
    BY <1>1, <1>4, <2>1 DEF Authorized, Placed
  <2> QED
    BY <1>1, <1>2, <2>1, <2>2, InstallerWorks
<1> QED
  BY <1>1, <1>3, <1>4

\* A file that is not the program's changes, or the program's that is not there.
LEMMA FilesKept ==
  ASSUME UpdateInv, NEW path \in Paths, NEW content \in 0..Torn, file' = [file EXCEPT ![path] = content],
         path \in {"pending", "new"} \/ (path = "target" /\ content \in Versions /\ installer.at = "off"),
         UNCHANGED <<releases, policies, expired, overlap, accepted, floor, metadata, panel, installer>>
  PROVE  UpdateInv'
<1>1. file' \in [Paths -> 0..Torn] /\ file'["old"] = file["old"]
      /\ (file'["target"] = file["target"] \/ (file'["target"] \in Versions /\ installer.at = "off"))
  BY TheUpdates DEF Paths
<1>2. UpdateTypes' /\ PendingsInv'
  BY <1>1 DEF UpdateInv, UpdateTypes, PendingsInv, Released
<1>3. ~overlap' => Authorized' /\ Placed'
  BY <1>1 DEF UpdateInv, Authorized, Placed
<1> QED
  BY <1>2, <1>3 DEF UpdateInv

LEMMA DamagedKept == ASSUME UpdateInv, NEW path \in Paths, Damaged(path) PROVE UpdateInv'
<1>1. Torn \in 0..Torn
  BY TheUpdates
<1> QED
  BY <1>1, FilesKept DEF Damaged, world

LEMMA InstallByHandKept == ASSUME UpdateInv, NEW v \in Versions, InstallByHand(v) PROVE UpdateInv'
<1>1. v \in 0..Torn /\ "target" \in Paths
  BY TheUpdates DEF Paths
<1> QED
  BY <1>1, FilesKept DEF InstallByHand, world

LEMMA UpdateInvInit == UpdateInit => UpdateInv
<1> HAVE UpdateInit
<1>1. MaxVersion \in Nat \ {0} /\ 1 \in Versions /\ MaxVersion \in Versions /\ None \in 0..Torn /\ 1 \in 0..Torn /\ MaxVersion \in 0..Torn
  BY UpdaterAssumption DEF Versions, None, Torn
<1>2. releases = <<1>> /\ policies = <<Everything>> /\ Everything \in Rulings
  BY UpdaterAssumption DEF UpdateInit, Everything, Rulings, Versions
<1>3. releases \in Seq(Nat) /\ Len(releases) = 1 /\ releases[1] = 1 /\ policies \in Seq(Rulings) /\ Len(policies) = 1
  BY <1>2
<1>4. file \in [Paths -> 0..Torn] /\ file["target"] = 1
  BY <1>1 DEF UpdateInit, Paths
<1>5. PICK raw : raw = [NoPending EXCEPT !.version = MaxVersion, !.kind = "raw"]
  OBVIOUS
<1>6. raw \in Pendings /\ raw.kind = "raw" /\ raw.version = MaxVersion
  <2>1. PICK none \in Pendings : none = NoPending
    BY NoneIsOne
  <2>2. PICK mid \in Pendings : mid = [none EXCEPT !.version = MaxVersion]
    <3>1. MaxVersion \in 0..MaxVersion
      BY <1>1
    <3> QED
      BY <3>1 DEF Pendings
  <2>3. mid.version = MaxVersion
    BY <2>2 DEF Pendings
  <2>4. [mid EXCEPT !.kind = "raw"] \in Pendings /\ [mid EXCEPT !.kind = "raw"].kind = "raw"
        /\ [mid EXCEPT !.kind = "raw"].version = MaxVersion
    BY <2>2, <2>3 DEF Pendings
  <2> QED
    BY <1>5, <2>1, <2>2, <2>4
<1>7. metadata \in Pendings /\ Released(metadata)
  BY <1>1, <1>5, <1>6, NoneIsOne DEF UpdateInit, Released
<1>8. panel = Off /\ installer = NoInstaller /\ overlap = FALSE /\ accepted = 0 /\ expired = 0 /\ floor \in BOOLEAN
  BY DEF UpdateInit
<1>9. UpdateTypes
  <2>0. accepted \in 0..Len(policies) /\ expired \in Nat
    BY <1>3, <1>8
  <2>1. overlap \in BOOLEAN
    BY <1>8
  <2>11. Len(releases) \in 1..MaxVersion
    BY <1>1, <1>3 DEF Versions
  <2>2. \A v \in 1..Len(releases) : releases[v] \in 1..Len(policies)
    BY <1>3
  <2> QED
    BY <1>3, <1>4, <1>7, <1>8, <2>0, <2>1, <2>11, <2>2, OffIsOne, NoInstallerIsOne DEF UpdateTypes
<1>10. PendingsInv
  BY <1>7, <1>8, OffIsOne, NoInstallerIsOne DEF PendingsInv
<1>11. Authorized /\ Placed
  BY <1>1, <1>4, <1>8, OffIsOne, NoInstallerIsOne DEF Authorized, Placed
<1> QED
  BY <1>9, <1>10, <1>11 DEF UpdateInv

LEMMA UpdateInvKept == UpdateInv /\ [UpdateNext]_updateVars => UpdateInv'
<1> SUFFICES ASSUME UpdateInv, [UpdateNext]_updateVars PROVE UpdateInv'
  OBVIOUS
<1>1. CASE UNCHANGED updateVars
  <2>1. floor' \in BOOLEAN /\ expired' \in Nat /\ expired' >= expired
    BY <1>1 DEF updateVars, UpdateInv, UpdateTypes
  <2> QED
    BY <1>1, <2>1, UpdateStays DEF updateVars
<1>2. ASSUME Release \/ PublishPolicy \/ Expires PROVE UpdateInv'
  BY <1>2, ReleaseKept, PublishPolicyKept, ExpiresKept
<1>3. ASSUME StartPanel \/ Sweep \/ Download \/ DownloadFails \/ WritePendingMetadata \/ Exit \/ LaunchFails \/ InstallOnExit
      PROVE  UpdateInv'
  BY <1>3, StartPanelKept, SweepKept, DownloadKept, DownloadFailsKept, WritePendingMetadataKept, ExitKept, InstallOnExitKept
<1>4. ASSUME VerifyPending \/ Clear \/ BeginCopy \/ Copy \/ CheckCopy \/ Backup \/ Replace \/ ReplaceFails \/ CheckTarget
             \/ WriteMarker \/ Finish \/ InstallerKilled
      PROVE  UpdateInv'
  BY <1>4, VerifyPendingKept, ClearKept, BeginCopyKept, CopyKept, CheckCopyKept, BackupKept, ReplaceKept, ReplaceFailsKept,
     CheckTargetKept, MarkerKept
<1>5. ASSUME (\E path \in Paths : Damaged(path)) \/ (\E v \in Versions : InstallByHand(v)) PROVE UpdateInv'
  BY <1>5, DamagedKept, InstallByHandKept
<1> QED
  BY <1>1, <1>2, <1>3, <1>4, <1>5 DEF UpdateNext

\* InstallsAreSafe of auto_update.go and auto_update_windows.go, in full: whatever is
\* killed, fails or is damaged, for any number of releases and trust policies, an intact
\* program remains at its path or beside it; and what the installer puts in place is
\* authorized by the newest policy that was accepted, or that policy has expired and
\* names its publisher.
THEOREM InstallsAlwaysSafe == UpdateSpec => InstallsAreSafe
<1>1. UpdateInv => AProgramRemains
  BY DEF UpdateInv, Placed, AProgramRemains
<1>2. UpdateInv /\ [UpdateNext]_updateVars =>
        [Replace /\ ~overlap /\ installer.pending.kind = "signed" => Installable(installer.pending.version, accepted)]_updateVars
  BY DEF UpdateInv, Authorized, Replace
<1> QED
  BY <1>1, <1>2, UpdateInvInit, UpdateInvKept, PTL DEF UpdateSpec, InstallsAreSafe

\* PolicyEpochsNeverGoBack of update_trust_store.go: nothing that Resolve comes to, of
\* whichever version of the program and with whatever answers, lowers the epoch.
THEOREM EpochsNeverGoBack == UpdateSpec => PolicyEpochsNeverGoBack
<1>1. UpdateInv /\ [UpdateNext]_updateVars => [accepted' >= accepted]_updateVars
  <2> SUFFICES ASSUME UpdateInv, UpdateNext PROVE accepted' >= accepted
    BY DEF updateVars
  <2>1. accepted' = accepted => accepted' >= accepted
    BY TheUpdates
  <2>2. StartPanel \/ Download \/ InstallOnExit \/ VerifyPending => accepted' >= accepted
    BY StartPanelAccepts, DownloadAccepts, InstallOnExitAccepts, VerifyPendingKept
  <2>3. \/ StartPanel \/ Download \/ InstallOnExit \/ VerifyPending
        \/ accepted' = accepted
    BY DEF UpdateNext, Release, PublishPolicy, Expires, Sweep, DownloadFails, WritePendingMetadata, Exit, LaunchFails,
           Clear, BeginCopy, Copy, CheckCopy, Backup, Replace, ReplaceFails, CheckTarget, WriteMarker, Finish,
           InstallerKilled, Damaged, InstallByHand
  <2> QED
    BY <2>1, <2>2, <2>3
<1> QED
  BY <1>1, UpdateInvInit, UpdateInvKept, PTL DEF UpdateSpec, PolicyEpochsNeverGoBack

HIDE DEF Installable, Authorizes, NamesPublisher

-----------------------------------------------------------------------------
(***************************************************************************)
(* The check of formulas (Formulas).  It is an abstract interpretation:    *)
(* every operator and call takes operands whose outcomes are of the        *)
(* classes the check gives for them to outcomes of the classes it gives    *)
(* for the result, unless it misjudges the call.                           *)
(***************************************************************************)
Values == Finite \cup {Infinity, -Infinity, NaN}

LEMMA ValuesAre ==
  /\ Largest \in Nat /\ Largest >= 2
  /\ Values = -(Largest + 1)..Largest + 2 /\ Infinity = Largest + 1 /\ NaN = Largest + 2 /\ Error = Largest + 3
  /\ \A v : v \in Finite <=> v \in Int /\ -Largest <= v /\ v <= Largest
BY LargestAssumption DEF Values, Finite, Infinity, NaN, Error

LEMMA ClassIs ==
  ASSUME NEW v \in Values
  PROVE  /\ v \in Int /\ v # Error
         /\ ClassOf(v) \in Classes
         /\ ClassOf(v) = "zero" <=> v = 0
         /\ ClassOf(v) = "plus" <=> v = Infinity
         /\ ClassOf(v) = "minus" <=> v = -Infinity
         /\ ClassOf(v) = "nan" <=> v = NaN
         /\ ClassOf(v) = "number" <=> v \in Finite /\ v # 0
         /\ ClassOf(v) \in FiniteClasses <=> v \in Finite
         /\ ClassOf(v) \in Infinities <=> IsInfinite(v)
<1>1. v \in Int /\ v # Error
  BY ValuesAre
<1>2. CASE v = 0
  BY <1>2, ValuesAre DEF ClassOf, Classes, FiniteClasses, Infinities, IsInfinite
<1>3. CASE v = Infinity
  BY <1>3, ValuesAre DEF ClassOf, Classes, FiniteClasses, Infinities, IsInfinite
<1>4. CASE v = -Infinity
  BY <1>4, ValuesAre DEF ClassOf, Classes, FiniteClasses, Infinities, IsInfinite
<1>5. CASE v = NaN
  BY <1>5, ValuesAre DEF ClassOf, Classes, FiniteClasses, Infinities, IsInfinite
<1>6. CASE v \in Finite /\ v # 0
  BY <1>6, ValuesAre DEF ClassOf, Classes, FiniteClasses, Infinities, IsInfinite
<1> QED
  BY <1>1, <1>2, <1>3, <1>4, <1>5, <1>6 DEF Values

LEMMA FitFits ==
  ASSUME NEW n \in Int
  PROVE  Fit(n) \in Finite \cup {Infinity, -Infinity} /\ Fit(n) \in Values \ {NaN} /\ (n = 0 => Fit(n) = 0)
         /\ (n \in Finite => Fit(n) = n)
<1>1. CASE n > Largest
  BY <1>1, ValuesAre DEF Fit, Size, Sign, Values
<1>2. CASE n < -Largest
  BY <1>2, ValuesAre DEF Fit, Size, Sign, Values
<1>3. CASE -Largest <= n /\ n <= Largest
  BY <1>3, ValuesAre DEF Fit, Size, Sign, Values
<1> QED
  BY <1>1, <1>2, <1>3, ValuesAre

LEMMA MinusIs ==
  ASSUME NEW v \in Values
  PROVE  Minus(v) \in Values /\ ClassOf(Minus(v)) = Negated(ClassOf(v))
<1>1. Minus(v) \in Values
  BY ValuesAre DEF Minus
<1>2. CASE v = NaN
  BY <1>1, <1>2, ClassIs DEF Minus, Negated
<1>3. CASE v = 0
  BY <1>1, <1>3, ClassIs, ValuesAre DEF Minus, Negated
<1>4. CASE v = Infinity
  BY <1>1, <1>4, ClassIs, ValuesAre DEF Minus, Negated
<1>5. CASE v = -Infinity
  BY <1>1, <1>5, ClassIs, ValuesAre DEF Minus, Negated
<1>6. CASE v \in Finite /\ v # 0
  <2>1. Minus(v) \in Finite /\ Minus(v) # 0
    BY <1>6, ValuesAre DEF Minus
  <2> QED
    BY <1>1, <1>6, <2>1, ClassIs, ValuesAre DEF Negated
<1> QED
  BY <1>1, <1>2, <1>3, <1>4, <1>5, <1>6 DEF Values

LEMMA PlusIs ==
  ASSUME NEW a \in Values, NEW b \in Values
  PROVE  /\ Plus(a, b) \in Values
         /\ a = NaN \/ b = NaN => Plus(a, b) = NaN
         /\ a = Infinity => Plus(a, b) = IF b \in {NaN, -Infinity} THEN NaN ELSE Infinity
         /\ a = -Infinity => Plus(a, b) = IF b \in {NaN, Infinity} THEN NaN ELSE -Infinity
         /\ a \in Finite => (b = Infinity => Plus(a, b) = Infinity) /\ (b = -Infinity => Plus(a, b) = -Infinity)
         /\ a \in Finite /\ b \in Finite => Plus(a, b) # NaN /\ (a = 0 /\ b = 0 => Plus(a, b) = 0)
<1>1. a \in Int /\ b \in Int /\ a + b \in Int
  BY ClassIs
<1>2. CASE a = NaN \/ b = NaN
  BY <1>1, <1>2, ValuesAre DEF Plus, IsInfinite
<1>3. CASE a = Infinity /\ b # NaN
  BY <1>1, <1>3, ValuesAre DEF Plus, IsInfinite
<1>4. CASE a = -Infinity /\ b # NaN
  BY <1>1, <1>4, ValuesAre DEF Plus, IsInfinite
<1>5. CASE a \in Finite /\ IsInfinite(b)
  BY <1>1, <1>5, ValuesAre DEF Plus, IsInfinite
<1>6. CASE a \in Finite /\ b \in Finite
  <2>1. Plus(a, b) = Fit(a + b)
    BY <1>1, <1>6, ValuesAre DEF Plus, IsInfinite
  <2>2. (a = 0 /\ b = 0) => a + b = 0
    BY <1>1
  <2>3. Plus(a, b) \in Values /\ Plus(a, b) # NaN /\ (a = 0 /\ b = 0 => Plus(a, b) = 0)
    BY <1>1, <2>1, <2>2, FitFits
  <2>4. a \notin {NaN, Infinity, -Infinity} /\ b \notin {NaN, Infinity, -Infinity}
    BY <1>6, ValuesAre
  <2> QED
    BY <2>3, <2>4
<1> QED
  BY <1>2, <1>3, <1>4, <1>5, <1>6 DEF Values, IsInfinite

LEMMA SignIs ==
  ASSUME NEW v \in Int
  PROVE  Sign(v) \in {-1, 0, 1} /\ (Sign(v) = 0 <=> v = 0) /\ Size(v) \in Nat /\ (Size(v) = 0 <=> v = 0)
         /\ Sign(v) * Size(v) = v /\ (v > 0 => Sign(v) = 1) /\ (v < 0 => Sign(v) = -1)
BY DEF Sign, Size

LEMMA TimesIs ==
  ASSUME NEW a \in Values, NEW b \in Values
  PROVE  /\ Times(a, b) \in Values
         /\ a = NaN \/ b = NaN => Times(a, b) = NaN
         /\ (a = 0 /\ IsInfinite(b)) \/ (b = 0 /\ IsInfinite(a)) => Times(a, b) = NaN
         /\ IsInfinite(a) /\ IsInfinite(b) => Times(a, b) = IF a = b THEN Infinity ELSE -Infinity
         /\ IsInfinite(a) /\ b \in Finite \ {0} => IsInfinite(Times(a, b))
         /\ IsInfinite(b) /\ a \in Finite \ {0} => IsInfinite(Times(a, b))
         /\ a \in Finite /\ b \in Finite => Times(a, b) # NaN /\ (a = 0 \/ b = 0 => Times(a, b) = 0)
         /\ IsInfinite(a) /\ b \in Finite /\ b > 0 => Times(a, b) = a
<1>1. a \in Int /\ b \in Int
  BY ClassIs
<1>2. CASE NaN \in {a, b} \/ (0 \in {a, b} /\ (IsInfinite(a) \/ IsInfinite(b)))
  BY <1>1, <1>2, ValuesAre DEF Times, IsInfinite
<1>3. CASE ~(NaN \in {a, b} \/ (0 \in {a, b} /\ (IsInfinite(a) \/ IsInfinite(b)))) /\ (IsInfinite(a) \/ IsInfinite(b))
  <2>1. Times(a, b) = Sign(a) * Sign(b) * Infinity
    BY <1>1, <1>3 DEF Times
  <2>2. a # 0 /\ b # 0
    BY <1>3
  <2>3. CASE a > 0 /\ b > 0
    <3>1. Sign(a) = 1 /\ Sign(b) = 1
      BY <1>1, <2>3, SignIs
    <3>2. Times(a, b) = Infinity
      BY <2>1, <3>1, ValuesAre
    <3>3. /\ a \notin {NaN, 0} /\ b \notin {NaN, 0}
          /\ IsInfinite(a) => a = Infinity
          /\ IsInfinite(b) => b = Infinity
      BY <1>1, <1>3, <2>3, ValuesAre DEF IsInfinite
    <3>4. a \in Finite => ~IsInfinite(a)
      BY ValuesAre DEF IsInfinite
    <3>5. b \in Finite => ~IsInfinite(b)
      BY ValuesAre DEF IsInfinite
    <3> QED
      BY <1>1, <1>3, <2>3, <3>2, <3>3, <3>4, <3>5, ValuesAre DEF IsInfinite
  <2>4. CASE a > 0 /\ b < 0
    <3>1. Sign(a) = 1 /\ Sign(b) = -1
      BY <1>1, <2>4, SignIs
    <3>2. Times(a, b) = -Infinity
      BY <2>1, <3>1, ValuesAre
    <3>3. /\ a \notin {NaN, 0} /\ b \notin {NaN, 0}
          /\ IsInfinite(a) => a = Infinity
          /\ IsInfinite(b) => b = -Infinity
      BY <1>1, <1>3, <2>4, ValuesAre DEF IsInfinite
    <3>4. a \in Finite => ~IsInfinite(a)
      BY ValuesAre DEF IsInfinite
    <3>5. b \in Finite => ~IsInfinite(b)
      BY ValuesAre DEF IsInfinite
    <3> QED
      BY <1>1, <1>3, <2>4, <3>2, <3>3, <3>4, <3>5, ValuesAre DEF IsInfinite
  <2>5. CASE a < 0 /\ b > 0
    <3>1. Sign(a) = -1 /\ Sign(b) = 1
      BY <1>1, <2>5, SignIs
    <3>2. Times(a, b) = -Infinity
      BY <2>1, <3>1, ValuesAre
    <3>3. /\ a \notin {NaN, 0} /\ b \notin {NaN, 0}
          /\ IsInfinite(a) => a = -Infinity
          /\ IsInfinite(b) => b = Infinity
      BY <1>1, <1>3, <2>5, ValuesAre DEF IsInfinite
    <3>4. a \in Finite => ~IsInfinite(a)
      BY ValuesAre DEF IsInfinite
    <3>5. b \in Finite => ~IsInfinite(b)
      BY ValuesAre DEF IsInfinite
    <3> QED
      BY <1>1, <1>3, <2>5, <3>2, <3>3, <3>4, <3>5, ValuesAre DEF IsInfinite
  <2>6. CASE a < 0 /\ b < 0
    <3>1. Sign(a) = -1 /\ Sign(b) = -1
      BY <1>1, <2>6, SignIs
    <3>2. Times(a, b) = Infinity
      BY <2>1, <3>1, ValuesAre
    <3>3. /\ a \notin {NaN, 0} /\ b \notin {NaN, 0}
          /\ IsInfinite(a) => a = -Infinity
          /\ IsInfinite(b) => b = -Infinity
      BY <1>1, <1>3, <2>6, ValuesAre DEF IsInfinite
    <3>4. a \in Finite => ~IsInfinite(a)
      BY ValuesAre DEF IsInfinite
    <3>5. b \in Finite => ~IsInfinite(b)
      BY ValuesAre DEF IsInfinite
    <3> QED
      BY <1>1, <1>3, <2>6, <3>2, <3>3, <3>4, <3>5, ValuesAre DEF IsInfinite
  <2> QED
    BY <1>1, <2>2, <2>3, <2>4, <2>5, <2>6
<1>4. CASE a \in Finite /\ b \in Finite
  <2>1. NaN \notin {a, b} /\ ~IsInfinite(a) /\ ~IsInfinite(b)
    BY <1>4, ValuesAre DEF IsInfinite
  <2> DEFINE n == (Size(a) * Size(b)) \div 2
  <2>2. Times(a, b) = Fit(Sign(a) * Sign(b) * n)
    BY <2>1 DEF Times
  <2>3. PICK p \in Nat : p = Size(a) * Size(b)
    BY <1>1, SignIs
  <2>4. n \in Nat
    BY <2>3
  <2> HIDE DEF n
  <2>5. Sign(a) * Sign(b) \in {-1, 0, 1} /\ (a = 0 \/ b = 0 => Sign(a) * Sign(b) = 0)
    BY <1>1, SignIs
  <2>6. PICK g \in {-1, 0, 1} : g = Sign(a) * Sign(b)
    BY <2>5
  <2>7. g * n \in Int /\ (g = 0 => g * n = 0)
    BY <2>4
  <2>8. Times(a, b) = Fit(g * n)
    BY <2>2, <2>6
  <2>9. Times(a, b) \in Values /\ Times(a, b) # NaN /\ (a = 0 \/ b = 0 => Times(a, b) = 0)
    BY <2>5, <2>6, <2>7, <2>8, FitFits
  <2> QED
    BY <1>4, <2>1, <2>9
<1> QED
  BY <1>2, <1>3, <1>4 DEF Values, IsInfinite

LEMMA OverIs ==
  ASSUME NEW a \in Values, NEW b \in Values
  PROVE  /\ Over(a, b) \in Values
         /\ a = NaN \/ b = NaN => Over(a, b) = NaN
         /\ IsInfinite(a) /\ IsInfinite(b) => Over(a, b) = NaN
         /\ a = 0 /\ b = 0 => Over(a, b) = NaN
         /\ a \in Finite /\ IsInfinite(b) => Over(a, b) = 0
         /\ IsInfinite(a) /\ b \in Finite => IsInfinite(Over(a, b)) /\ (b > 0 => Over(a, b) = a)
         /\ a \in Finite /\ b \in Finite \ {0} => Over(a, b) # NaN /\ (a = 0 => Over(a, b) = 0)
<1>1. a \in Int /\ b \in Int
  BY ClassIs
<1>2. CASE NaN \in {a, b} \/ (IsInfinite(a) /\ IsInfinite(b)) \/ (a = 0 /\ b = 0)
  BY <1>1, <1>2, ValuesAre DEF Over, IsInfinite
<1>3. CASE IsInfinite(a) /\ b \in Finite
  <2>1. Over(a, b) = Sign(a) * (IF b < 0 THEN -1 ELSE 1) * Infinity
    BY <1>1, <1>3, ValuesAre DEF Over, IsInfinite
  <2>2. CASE a = Infinity
    BY <1>1, <1>3, <2>1, <2>2, ValuesAre DEF IsInfinite, Sign
  <2>3. CASE a = -Infinity
    BY <1>1, <1>3, <2>1, <2>3, ValuesAre DEF IsInfinite, Sign
  <2> QED
    BY <1>3, <2>2, <2>3 DEF IsInfinite
<1>4. CASE a \in Finite /\ IsInfinite(b)
  BY <1>1, <1>4, ValuesAre DEF Over, IsInfinite
<1>5. CASE a \in Finite /\ b = 0 /\ a # 0
  <2>1. Over(a, b) = Sign(a) * Infinity
    BY <1>1, <1>5, ValuesAre DEF Over, IsInfinite
  <2>2. Over(a, b) \in Values
    BY <1>1, <1>5, <2>1, ValuesAre DEF Sign
  <2> QED
    BY <1>5, <2>2, ValuesAre DEF IsInfinite
<1>6. CASE a \in Finite /\ b \in Finite \ {0}
  <2>1. NaN \notin {a, b} /\ ~IsInfinite(a) /\ ~IsInfinite(b)
    BY <1>6, ValuesAre DEF IsInfinite
  <2> DEFINE n == (2 * Size(a)) \div Size(b)
  <2>2. Over(a, b) = Fit(Sign(a) * Sign(b) * n)
    BY <1>6, <2>1 DEF Over
  <2>3. PICK p \in Nat : p = 2 * Size(a)
    BY <1>1, SignIs
  <2>4. PICK q \in Nat \ {0} : q = Size(b)
    BY <1>1, <1>6, SignIs
  <2>5. n \in Int
    BY <2>3, <2>4
  <2> HIDE DEF n
  <2>6. Sign(a) * Sign(b) \in {-1, 0, 1} /\ (a = 0 => Sign(a) * Sign(b) = 0)
    BY <1>1, SignIs
  <2>7. PICK g \in {-1, 0, 1} : g = Sign(a) * Sign(b)
    BY <2>6
  <2>8. g * n \in Int /\ (g = 0 => g * n = 0)
    BY <2>5
  <2>9. Over(a, b) = Fit(g * n)
    BY <2>2, <2>7
  <2>10. Over(a, b) \in Values /\ Over(a, b) # NaN /\ (a = 0 => Over(a, b) = 0)
    BY <2>6, <2>7, <2>8, <2>9, FitFits
  <2> QED
    BY <1>6, <2>1, <2>10
<1> QED
  BY <1>2, <1>3, <1>4, <1>5, <1>6 DEF Values, IsInfinite

-----------------------------------------------------------------------------
LEMMA TwoIsFinite == 2 \in Finite /\ 0 \in Finite /\ Finite \subseteq Values /\ Error \notin Values /\ NaN \in Values
                     /\ Infinity \in Values /\ -Infinity \in Values
BY ValuesAre DEF Values

LEMMA SumClass ==
  ASSUME NEW a \in Values, NEW b \in Values, NEW op \in {"+", "-"}, NEW c \in Values,
         c = IF op = "-" THEN Plus(a, Minus(b)) ELSE Plus(a, b)
  PROVE  ClassOf(c) \in AbstractBinary(op, ClassOf(a), ClassOf(b))
<1>1. PICK m \in Values : m = (IF op = "-" THEN Minus(b) ELSE b) /\ c = Plus(a, m)
  BY MinusIs
<1>2. ClassOf(m) = IF op = "-" THEN Negated(ClassOf(b)) ELSE ClassOf(b)
  BY <1>1, MinusIs
<1> DEFINE k == ClassOf(a)
           l == ClassOf(m)
           both == k \in Infinities /\ l \in Infinities
<1>3. ClassOf(b) = "nan" <=> l = "nan"
  BY <1>2, ClassIs DEF Negated
<1>4. ClassOf(b) \in Infinities <=> l \in Infinities
  BY <1>2, ClassIs DEF Negated, Infinities
<1>5. ClassOf(b) = "zero" <=> l = "zero"
  BY <1>2, ClassIs DEF Negated
<1>6. AbstractBinary(op, k, ClassOf(b)) =
        IF k = "nan" \/ l = "nan" THEN {"nan"}
        ELSE IF both THEN IF k = l THEN {k} ELSE {"nan"}
        ELSE IF k \in Infinities THEN {k}
        ELSE IF l \in Infinities THEN {l}
        ELSE IF k = "zero" /\ l = "zero" THEN {"zero"}
        ELSE FiniteClasses \cup Infinities
  BY <1>2, <1>3, <1>4, <1>5 DEF AbstractBinary, Comparisons, Infinities
<1>7. k \in Classes /\ l \in Classes
  BY ClassIs
<1> HIDE DEF both
<1>8. CASE k = "nan" \/ l = "nan"
  <2>1. a = NaN \/ m = NaN
    BY <1>8, ClassIs
  <2>2. c = NaN
    BY <1>1, <2>1, PlusIs
  <2>3. ClassOf(c) = "nan"
    BY <2>2, ClassIs
  <2> QED
    BY <1>6, <1>8, <2>3
<1>9. CASE k = "plus" /\ l # "nan"
  <2>1. a = Infinity /\ m # NaN
    BY <1>9, ClassIs
  <2>2. c = IF m = -Infinity THEN NaN ELSE Infinity
    BY <1>1, <2>1, PlusIs
  <2>3. ClassOf(c) = IF l = "minus" THEN "nan" ELSE "plus"
    BY <2>2, ClassIs
  <2> QED
    BY <1>6, <1>7, <1>9, <2>3 DEF Infinities, both
<1>10. CASE k = "minus" /\ l # "nan"
  <2>1. a = -Infinity /\ m # NaN
    BY <1>10, ClassIs
  <2>2. c = IF m = Infinity THEN NaN ELSE -Infinity
    BY <1>1, <2>1, PlusIs
  <2>3. ClassOf(c) = IF l = "plus" THEN "nan" ELSE "minus"
    BY <2>2, ClassIs
  <2> QED
    BY <1>6, <1>7, <1>10, <2>3 DEF Infinities, both
<1>11. CASE k \in FiniteClasses /\ l \in Infinities
  <2>1. a \in Finite /\ c = m
    BY <1>1, <1>11, ClassIs, PlusIs DEF IsInfinite
  <2> QED
    BY <1>6, <1>11, <2>1 DEF Infinities, FiniteClasses, both
<1>12. CASE k \in FiniteClasses /\ l \in FiniteClasses
  <2>1. a \in Finite /\ m \in Finite
    BY <1>12, ClassIs
  <2>2. c # NaN /\ (k = "zero" /\ l = "zero" => c = 0)
    BY <1>1, <2>1, PlusIs, ClassIs
  <2>3. ClassOf(c) \in FiniteClasses \cup Infinities /\ (k = "zero" /\ l = "zero" => ClassOf(c) = "zero")
    BY <2>2, ClassIs DEF Classes
  <2> QED
    BY <1>6, <1>12, <2>3 DEF Infinities, FiniteClasses, both
<1> QED
  BY <1>7, <1>8, <1>9, <1>10, <1>11, <1>12 DEF Classes, FiniteClasses, Infinities

LEMMA ProductClass ==
  ASSUME NEW a \in Values, NEW b \in Values, NEW c \in Values, c = Times(a, b)
  PROVE  ClassOf(c) \in AbstractBinary("*", ClassOf(a), ClassOf(b))
<1> DEFINE k == ClassOf(a)
           l == ClassOf(b)
<1>1. AbstractBinary("*", k, l) =
        IF k = "nan" \/ l = "nan" THEN {"nan"}
        ELSE IF k \in Infinities \/ l \in Infinities
             THEN IF k = "zero" \/ l = "zero" THEN {"nan"}
                  ELSE IF k \in Infinities /\ l \in Infinities THEN IF k = l THEN {"plus"} ELSE {"minus"}
                  ELSE Infinities
        ELSE IF k = "zero" \/ l = "zero" THEN {"zero"}
        ELSE FiniteClasses \cup Infinities
  BY DEF AbstractBinary, Comparisons
<1>2. k \in Classes /\ l \in Classes
  BY ClassIs
<1>3. CASE k = "nan" \/ l = "nan"
  BY <1>1, <1>3, ClassIs, TimesIs
<1>4. CASE (k = "zero" /\ l \in Infinities) \/ (l = "zero" /\ k \in Infinities)
  <2>1. (a = 0 /\ IsInfinite(b)) \/ (b = 0 /\ IsInfinite(a))
    BY <1>4, ClassIs
  <2>2. c = NaN
    BY <2>1, TimesIs
  <2> QED
    BY <1>1, <1>4, <2>2, ClassIs DEF Infinities
<1>5. CASE k \in Infinities /\ l \in Infinities
  <2>1. IsInfinite(a) /\ IsInfinite(b) /\ (a = b <=> k = l)
    BY <1>5, ClassIs DEF IsInfinite, Infinities
  <2>2. c = IF k = l THEN Infinity ELSE -Infinity
    BY <2>1, TimesIs
  <2> QED
    BY <1>1, <1>5, <2>2, ClassIs DEF Infinities
<1>6. CASE (k = "number" /\ l \in Infinities) \/ (l = "number" /\ k \in Infinities)
  <2>1. (a \in Finite \ {0} /\ IsInfinite(b)) \/ (b \in Finite \ {0} /\ IsInfinite(a))
    BY <1>6, ClassIs
  <2>2. IsInfinite(c)
    BY <2>1, TimesIs
  <2> QED
    BY <1>1, <1>6, <2>2, ClassIs DEF Infinities
<1>7. CASE k \in FiniteClasses /\ l \in FiniteClasses
  <2>1. a \in Finite /\ b \in Finite
    BY <1>7, ClassIs
  <2>2. c # NaN /\ (k = "zero" \/ l = "zero" => c = 0)
    BY <2>1, TimesIs, ClassIs
  <2>3. ClassOf(c) \in FiniteClasses \cup Infinities /\ (k = "zero" \/ l = "zero" => ClassOf(c) = "zero")
    BY <2>2, ClassIs DEF Classes
  <2> QED
    BY <1>1, <1>7, <2>3 DEF Infinities, FiniteClasses
<1> QED
  BY <1>2, <1>3, <1>4, <1>5, <1>6, <1>7 DEF Classes, FiniteClasses, Infinities

LEMMA QuotientClass ==
  ASSUME NEW a \in Values, NEW b \in Values, NEW c \in Values, c = Over(a, b), b # 0
  PROVE  ClassOf(c) \in AbstractBinary("/", ClassOf(a), ClassOf(b))
<1> DEFINE k == ClassOf(a)
           l == ClassOf(b)
<1>1. AbstractBinary("/", k, l) =
        IF k = "nan" \/ l = "nan" THEN {"nan"}
        ELSE IF l = "zero" THEN {}
        ELSE IF l \in Infinities THEN IF k \in Infinities THEN {"nan"} ELSE {"zero"}
        ELSE IF k \in Infinities THEN Infinities
        ELSE IF k = "zero" THEN {"zero"}
        ELSE FiniteClasses \cup Infinities
  BY DEF AbstractBinary, Comparisons
<1>2. k \in Classes /\ l \in Classes /\ l # "zero"
  BY ClassIs
<1>3. CASE k = "nan" \/ l = "nan"
  BY <1>1, <1>3, ClassIs, OverIs
<1>4. CASE k \in Infinities /\ l \in Infinities
  <2>1. c = NaN
    BY <1>4, ClassIs, OverIs
  <2> QED
    BY <1>1, <1>4, <2>1, ClassIs DEF Infinities
<1>5. CASE k \in FiniteClasses /\ l \in Infinities
  <2>1. c = 0
    BY <1>5, ClassIs, OverIs
  <2> QED
    BY <1>1, <1>5, <2>1, ClassIs DEF Infinities, FiniteClasses
<1>6. CASE k \in Infinities /\ l = "number"
  <2>1. IsInfinite(c)
    BY <1>6, ClassIs, OverIs
  <2> QED
    BY <1>1, <1>6, <2>1, ClassIs DEF Infinities
<1>7. CASE k \in FiniteClasses /\ l = "number"
  <2>1. a \in Finite /\ b \in Finite \ {0}
    BY <1>7, ClassIs
  <2>2. c # NaN /\ (k = "zero" => c = 0)
    BY <2>1, OverIs, ClassIs
  <2>3. ClassOf(c) \in FiniteClasses \cup Infinities /\ (k = "zero" => ClassOf(c) = "zero")
    BY <2>2, ClassIs DEF Classes
  <2> QED
    BY <1>1, <1>7, <2>3 DEF Infinities, FiniteClasses
<1> QED
  BY <1>2, <1>3, <1>4, <1>5, <1>6, <1>7 DEF Classes, FiniteClasses, Infinities

Outcomes == Values \cup {Error}

LEMMA ComputedIs ==
  ASSUME NEW op \in Operators, NEW a \in Values, NEW b \in Values
  PROVE  /\ Computed(op, a, b) \in Outcomes
         /\ Computed(op, a, b) # Error => ClassOf(Computed(op, a, b)) \in AbstractBinary(op, ClassOf(a), ClassOf(b))
<1>1. CASE op \in {"+", "-"}
  <2>1. PICK c \in Values : c = IF op = "-" THEN Plus(a, Minus(b)) ELSE Plus(a, b)
    BY MinusIs, PlusIs
  <2>2. Computed(op, a, b) = c
    BY <1>1, <2>1 DEF Computed, Comparisons
  <2> QED
    BY <1>1, <2>1, <2>2, SumClass DEF Outcomes
<1>2. CASE op = "*"
  <2>1. Computed(op, a, b) = Times(a, b) /\ Times(a, b) \in Values
    BY <1>2, TimesIs DEF Computed, Comparisons
  <2> QED
    BY <1>2, <2>1, ProductClass DEF Outcomes
<1>3. CASE op = "/"
  <2>1. Computed(op, a, b) = IF b = 0 THEN Error ELSE Over(a, b)
    BY <1>3 DEF Computed, Comparisons
  <2>2. Over(a, b) \in Values
    BY OverIs
  <2> QED
    BY <1>3, <2>1, <2>2, QuotientClass DEF Outcomes
<1>4. CASE op \in Comparisons
  <2>1. Computed(op, a, b) \in {0, 2}
    BY <1>4 DEF Computed, Comparisons
  <2>2. Computed(op, a, b) \in Finite
    BY <2>1, TwoIsFinite
  <2>3. ClassOf(Computed(op, a, b)) \in FiniteClasses
    BY <2>2, TwoIsFinite, ClassIs
  <2>4. AbstractBinary(op, ClassOf(a), ClassOf(b)) = FiniteClasses
    BY <1>4 DEF AbstractBinary, Comparisons
  <2> QED
    BY <2>2, <2>3, <2>4, TwoIsFinite DEF Outcomes
<1> QED
  BY <1>1, <1>2, <1>3, <1>4 DEF Operators

-----------------------------------------------------------------------------
LEMMA HalvesAreEven == \E h \in Nat : Largest = 2 * h /\ h >= 1
<1>1. Largest \div 2 \in Nat /\ Largest = 2 * (Largest \div 2) /\ Largest \div 2 >= 1
  BY LargestAssumption
<1> QED
  BY <1>1

LEMMA WholeIs ==
  ASSUME NEW v \in Values
  PROVE  /\ Whole(v) \in Values /\ (v \notin Finite => Whole(v) = v)
         /\ v \in Finite => Whole(v) \in Finite /\ Whole(v) % 2 = 0
         /\ v = 0 => Whole(v) = 0
<1>1. CASE v \notin Finite
  BY <1>1, TwoIsFinite DEF Whole
<1>2. CASE v \in Finite
  <2>1. PICK h \in Nat : Largest = 2 * h
    BY HalvesAreEven
  <2>2. v \in Int /\ -Largest <= v /\ v <= Largest
    BY <1>2, ValuesAre
  <2>3. PICK n \in Int : n = v \div 2
    BY <2>2
  <2>4. -h <= n /\ n <= h /\ (v = 0 => n = 0)
    BY <2>1, <2>2, <2>3
  <2>5. Whole(v) = 2 * n
    BY <1>2, <2>3 DEF Whole
  <2>6. 2 * n \in Finite /\ (2 * n) % 2 = 0
    BY <2>1, <2>4, ValuesAre
  <2> QED
    BY <1>2, <2>4, <2>5, <2>6, TwoIsFinite
<1> QED
  BY <1>1, <1>2

LEMMA AbsoluteIs ==
  ASSUME NEW v \in Values
  PROVE  /\ Absolute(v) \in Values
         /\ ClassOf(Absolute(v)) = IF ClassOf(v) = "minus" THEN "plus" ELSE ClassOf(v)
<1>1. v \in Int
  BY ClassIs
<1>2. CASE v = NaN
  BY <1>2, ClassIs DEF Absolute
<1>3. CASE v = Infinity
  BY <1>1, <1>3, ClassIs, ValuesAre DEF Absolute, Size
<1>4. CASE v = -Infinity
  <2>1. Absolute(v) = Infinity
    BY <1>1, <1>4, ValuesAre DEF Absolute, Size
  <2> QED
    BY <1>4, <2>1, ClassIs, TwoIsFinite
<1>5. CASE v = 0
  BY <1>1, <1>5, ClassIs, ValuesAre DEF Absolute, Size
<1>6. CASE v \in Finite /\ v # 0
  <2>1. Absolute(v) \in Finite /\ Absolute(v) # 0
    BY <1>1, <1>6, ValuesAre DEF Absolute, Size
  <2>2. Absolute(v) \in Values
    BY <2>1, TwoIsFinite
  <2>3. ClassOf(v) = "number" /\ ClassOf(Absolute(v)) = "number"
    BY <1>6, <2>1, <2>2, ClassIs
  <2> QED
    BY <2>2, <2>3
<1> QED
  BY <1>2, <1>3, <1>4, <1>5, <1>6 DEF Values

LEMMA BoundsAre ==
  ASSUME NEW v \in Values
  PROVE  Low(v) \in Finite /\ Low(v) % 2 = 0 /\ High(v) \in Finite /\ High(v) % 2 = 0
<1>1. PICK h \in Nat : Largest = 2 * h
  BY HalvesAreEven
<1>2. -Largest \in Finite /\ (-Largest) % 2 = 0
  BY <1>1, ValuesAre
<1>3. CASE v \notin Finite
  BY <1>2, <1>3 DEF Low, High
<1>4. CASE v \in Finite
  <2>1. -v \in Finite /\ -v \in Values
    BY <1>4, ValuesAre, TwoIsFinite
  <2>2. Whole(v) \in Finite /\ Whole(v) % 2 = 0 /\ Whole(-v) \in Finite /\ Whole(-v) % 2 = 0
    BY <1>4, <2>1, WholeIs
  <2>3. ASSUME NEW n \in Finite, n % 2 = 0 PROVE -n \in Finite /\ (-n) % 2 = 0
    BY <2>3, ValuesAre
  <2> QED
    BY <1>4, <2>2, <2>3 DEF Low, High
<1> QED
  BY <1>3, <1>4

LEMMA BestIs ==
  ASSUME NEW a \in Values, NEW b \in Values, NEW name \in {"MAX", "MIN"}
  PROVE  /\ Best(name, a, b) \in Values
         /\ a # NaN /\ b # NaN => ClassOf(Best(name, a, b)) \in AbstractBest(name, ClassOf(a), ClassOf(b))
<1> DEFINE winner == IF name = "MAX" THEN Infinity ELSE -Infinity
           top == IF name = "MAX" THEN "plus" ELSE "minus"
           c == Best(name, a, b)
<1>1. a \in Int /\ b \in Int /\ winner \in Values
  BY ClassIs, TwoIsFinite
<1>2. /\ winner \in {a, b} => c = winner
      /\ winner \notin {a, b} /\ NaN \in {a, b} => c = NaN
      /\ winner \notin {a, b} /\ NaN \notin {a, b} => c \in {a, b}
  BY DEF Best
<1>3. c \in Values
  BY <1>1, <1>2, TwoIsFinite
<1>4. \A v \in Values : /\ ClassOf(v) = top <=> v = winner
                        /\ ClassOf(v) = Negated(top) <=> v = -winner
  BY ClassIs, ValuesAre DEF Negated
<1>5. CASE a # NaN /\ b # NaN
  <2>1. AbstractBest(name, ClassOf(a), ClassOf(b)) =
          IF top \in {ClassOf(a), ClassOf(b)} THEN {top}
          ELSE IF ClassOf(a) = Negated(top) THEN {ClassOf(b)}
          ELSE IF ClassOf(b) = Negated(top) THEN {ClassOf(a)}
          ELSE FiniteClasses
    BY <1>5, ClassIs DEF AbstractBest
  <2>2. CASE winner \in {a, b}
    BY <1>2, <1>4, <2>1, <2>2, <1>3
  <2>3. CASE winner \notin {a, b} /\ a = -winner
    <3>1. c = b
      <4>1. CASE a = b
        BY <1>2, <1>5, <2>3, <4>1
      <4>2. CASE a # b /\ name = "MAX"
        <5>1. ~(a > b)
          BY <1>1, <2>3, <4>2, <1>5, ValuesAre
        <5> QED
          BY <1>5, <2>3, <4>2, <5>1 DEF Best
      <4>3. CASE a # b /\ name = "MIN"
        <5>1. a > b
          BY <1>1, <2>3, <4>3, <1>5, ValuesAre
        <5> QED
          BY <1>5, <2>3, <4>3, <5>1 DEF Best
      <4> QED
        BY <4>1, <4>2, <4>3
    <3> QED
      BY <1>4, <2>1, <2>3, <3>1
  <2>4. CASE winner \notin {a, b} /\ a # -winner /\ b = -winner
    <3>1. c = a
      <4>1. CASE name = "MAX"
        <5>1. a > b
          BY <1>1, <2>4, <4>1, <1>5, ValuesAre
        <5> QED
          BY <1>5, <2>4, <4>1, <5>1 DEF Best
      <4>2. CASE name = "MIN"
        <5>1. ~(a > b)
          BY <1>1, <2>4, <4>2, <1>5, ValuesAre
        <5> QED
          BY <1>5, <2>4, <4>2, <5>1 DEF Best
      <4> QED
        BY <4>1, <4>2
    <3> QED
      BY <1>4, <2>1, <2>4, <3>1
  <2>5. CASE winner \notin {a, b} /\ a # -winner /\ b # -winner
    <3>1. a \in Finite /\ b \in Finite
      BY <1>5, <2>5, ValuesAre DEF Values
    <3>2. ClassOf(c) \in FiniteClasses
      BY <1>2, <1>3, <1>5, <2>5, <3>1, ClassIs
    <3>3. top \notin {ClassOf(a), ClassOf(b)} /\ ClassOf(a) # Negated(top) /\ ClassOf(b) # Negated(top)
      BY <1>4, <2>5
    <3>4. AbstractBest(name, ClassOf(a), ClassOf(b)) = FiniteClasses
      BY <2>1, <3>3
    <3> HIDE DEF c
    <3> QED
      BY <1>3, <3>2, <3>4 DEF c
  <2> QED
    BY <2>2, <2>3, <2>4, <2>5
<1> QED
  BY <1>3, <1>5

LEMMA HalfRounds ==
  ASSUME NEW v \in Finite
  PROVE  /\ Times(v, 2) = v /\ Over(v, 2) \in Values
         /\ Rounded(v) \in Finite /\ Rounded(v) % 2 = 0 /\ (Rounded(v) = 0 <=> v = 0)
         /\ Over(v, 2) = v
<1>1. v \in Int /\ v \in Values /\ 2 \in Values /\ 2 \in Finite
  BY ValuesAre, TwoIsFinite
<1>2. /\ Sign(2) = 1 /\ Size(2) = 2 /\ NaN \notin {v, 2} /\ ~IsInfinite(v) /\ ~IsInfinite(2)
  BY <1>1, ValuesAre DEF Sign, Size, IsInfinite
<1>3. Size(v) \in Nat /\ Sign(v) * 1 * Size(v) = v
  <2>1. Sign(v) \in {-1, 0, 1} /\ Sign(v) * Size(v) = v /\ Size(v) \in Nat
    BY <1>1, SignIs
  <2>2. Sign(v) * 1 = Sign(v)
    BY <2>1
  <2> QED
    BY <2>1, <2>2
<1>4. (Size(v) * 2) \div 2 = Size(v) /\ (2 * Size(v)) \div 2 = Size(v)
  BY <1>3
<1>5. Fit(v) = v
  BY <1>1, FitFits
<1>6. Times(v, 2) = v
  <2>1. Times(v, 2) = Fit(Sign(v) * Sign(2) * ((Size(v) * Size(2)) \div 2))
    BY <1>2 DEF Times
  <2> QED
    BY <1>2, <1>3, <1>4, <1>5, <2>1
<1>7. Over(v, 2) = v
  <2>1. Over(v, 2) = Fit(Sign(v) * Sign(2) * ((2 * Size(v)) \div Size(2)))
    BY <1>2 DEF Over
  <2> QED
    BY <1>2, <1>3, <1>4, <1>5, <2>1
<1>8. Rounded(v) \in Finite /\ Rounded(v) % 2 = 0 /\ (Rounded(v) = 0 <=> v = 0)
  <2>1. PICK h \in Nat : Largest = 2 * h
    BY HalvesAreEven
  <2>2. PICK n \in Int : n = (Size(v) + 1) \div 2
    BY <1>3
  <2>3. n \in Nat /\ n <= h /\ (n = 0 <=> v = 0)
    BY <1>1, <2>1, <2>2, ValuesAre DEF Size
  <2>4. Rounded(v) = Sign(v) * 2 * n
    BY <2>2 DEF Rounded
  <2>5. Rounded(v) \in {2 * n, -(2 * n)} /\ (Rounded(v) = 0 <=> v = 0)
    BY <1>1, <2>3, <2>4 DEF Sign
  <2> QED
    BY <2>1, <2>3, <2>5, ValuesAre
<1> QED
  BY <1>1, <1>6, <1>7, <1>8

LEMMA RoundIs ==
  ASSUME NEW a \in Values, NEW d \in Values
  PROVE  /\ RoundedTo(a, d) \in Values /\ (d # 0 => RoundedTo(a, d) = NaN)
         /\ d = 0 /\ a \in Finite => RoundedTo(a, d) \in Finite /\ (RoundedTo(a, d) = 0 <=> a = 0)
         /\ d = 0 /\ a \notin Finite => RoundedTo(a, d) = a
<1>1. a \in Int /\ d \in Int
  BY ClassIs
<1>2. CASE d = 0
  <2>1. Power(d) = 2 /\ RoundedTo(a, d) = Over(Rounded(Times(a, 2)), 2)
    <3>1. Power(d) = 2
      BY <1>2, ValuesAre DEF Power
    <3> QED
      BY <3>1 DEF RoundedTo
  <2>2. CASE a \in Finite
    BY <1>2, <2>1, <2>2, HalfRounds, TwoIsFinite
  <2>3. CASE a \notin Finite
    <3>1. a = NaN \/ IsInfinite(a)
      BY <2>3 DEF Values, IsInfinite
    <3>2. Times(a, 2) = a
      BY <3>1, TimesIs, TwoIsFinite
    <3>3. Rounded(a) = a
      BY <2>3 DEF Rounded
    <3>4. Over(a, 2) = a
      BY <3>1, OverIs, TwoIsFinite
    <3> QED
      BY <1>2, <2>1, <2>3, <3>2, <3>3, <3>4
  <2> QED
    BY <2>2, <2>3
<1>3. CASE d # 0
  <2>1. Power(d) \in {0, Infinity, NaN}
    BY <1>1, <1>3, ValuesAre DEF Power
  <2>2. PICK p \in {0, Infinity, NaN} : p = Power(d)
    BY <2>1
  <2>3. p \in Values
    BY TwoIsFinite
  <2>4. PICK t \in Values : t = Times(a, p)
    BY <2>3, TimesIs
  <2>5. RoundedTo(a, d) = Over(Rounded(t), p)
    BY <2>2, <2>4 DEF RoundedTo
  <2>6. CASE p = NaN
    <3>1. t = NaN
      BY <2>3, <2>4, <2>6, TimesIs
    <3>2. Rounded(t) = NaN
      BY <3>1, ValuesAre DEF Rounded
    <3> QED
      BY <1>3, <2>3, <2>5, <2>6, <3>2, OverIs, TwoIsFinite
  <2>7. CASE p = 0
    <3>1. t = 0 \/ t = NaN
      BY <2>3, <2>4, <2>7, TimesIs, TwoIsFinite DEF Values, IsInfinite
    <3>2. Rounded(t) = t
      BY <3>1, ValuesAre, HalfRounds DEF Rounded
    <3> QED
      BY <1>3, <2>3, <2>5, <2>7, <3>1, <3>2, OverIs, TwoIsFinite
  <2>8. CASE p = Infinity
    <3>1. t = NaN \/ IsInfinite(t)
      <4>1. CASE a = NaN \/ a = 0
        BY <2>3, <2>4, <2>8, <4>1, TimesIs DEF IsInfinite
      <4>2. CASE a \in Finite \ {0}
        BY <2>3, <2>4, <2>8, <4>2, TimesIs DEF IsInfinite
      <4>3. CASE IsInfinite(a)
        <5>1. IsInfinite(p)
          BY <2>8 DEF IsInfinite
        <5>2. t = Infinity \/ t = -Infinity
          BY <2>3, <2>4, <4>3, <5>1, TimesIs
        <5> QED
          BY <5>2 DEF IsInfinite
      <4> QED
        BY <4>1, <4>2, <4>3 DEF Values, IsInfinite
    <3>2. t \notin Finite
      BY <3>1, ValuesAre DEF IsInfinite
    <3>3. Rounded(t) = t
      BY <3>2 DEF Rounded
    <3>4. IsInfinite(p)
      BY <2>8 DEF IsInfinite
    <3> QED
      BY <1>3, <2>3, <2>5, <3>1, <3>3, <3>4, OverIs, TwoIsFinite
  <2> QED
    BY <2>6, <2>7, <2>8
<1> QED
  BY <1>2, <1>3

-----------------------------------------------------------------------------
Verdicts == [classes : SUBSET Classes, exact : BOOLEAN, value : Int, fails : BOOLEAN]

\* What the check says of a constant is what comes out.
Tells(o, r) ==
  /\ o \subseteq Outcomes /\ o # {} /\ r \in Verdicts
  /\ r.exact => o = {r.value} /\ r.value \in Values /\ r.classes = {ClassOf(r.value)} /\ ~r.fails

\* What may come out is of the classes that the check gives, if it comes out at all.
Covers(o, r) == IF r.fails THEN o = {Error} ELSE \A v \in o : v = Error \/ ClassOf(v) \in r.classes

LEMMA ExactTells ==
  ASSUME NEW v \in Values
  PROVE  Tells({v}, ExactResult(v)) /\ Covers({v}, ExactResult(v))
<1>1. v \in Int /\ ClassOf(v) \in Classes
  BY ClassIs
<1>2. PICK c \in SUBSET Classes : c = {ClassOf(v)}
  BY <1>1
<1>3. ExactResult(v) = [classes |-> c, exact |-> TRUE, value |-> v, fails |-> FALSE]
  BY <1>2 DEF ExactResult
<1> QED
  BY <1>1, <1>2, <1>3 DEF Tells, Covers, Verdicts, Outcomes

LEMMA ResultTells ==
  ASSUME NEW o \in SUBSET Outcomes, o # {}, NEW classes \in SUBSET Classes
  PROVE  /\ Tells(o, Result(classes))
         /\ (\A v \in o : v = Error \/ ClassOf(v) \in classes) => Covers(o, Result(classes))
<1>1. Result(classes) = [classes |-> classes, exact |-> FALSE, value |-> 0, fails |-> FALSE]
  BY DEF Result
<1> QED
  BY <1>1 DEF Tells, Covers, Verdicts

LEMMA TopTells ==
  ASSUME NEW o \in SUBSET Outcomes, o # {}
  PROVE  Tells(o, Top) /\ Covers(o, Top)
<1>1. \A v \in o : v = Error \/ ClassOf(v) \in Classes
  BY ClassIs DEF Outcomes
<1> QED
  BY <1>1, ResultTells DEF Top

LEMMA FailsTells ==
  ASSUME NEW o \in SUBSET Outcomes, o # {}
  PROVE  Tells(o, Fails) /\ (o = {Error} => Covers(o, Fails))
<1>1. PICK t \in Verdicts : t = Top
  BY TopTells DEF Tells
<1>2. PICK f \in Verdicts : f = [t EXCEPT !.fails = TRUE]
  BY DEF Verdicts
<1>3. f.fails /\ f.exact = t.exact
  BY <1>2 DEF Verdicts
<1>4. ~t.exact
  BY <1>1 DEF Top, Result
<1>5. f = Fails
  BY <1>1, <1>2 DEF Fails
<1> QED
  BY <1>3, <1>4, <1>5 DEF Tells, Covers

\* The outcomes of an operation, and what the check says of them.
Follows(o, r, right) == Tells(o, r) /\ (right => Covers(o, r))

LEMMA NegationFollows ==
  ASSUME NEW o, NEW r, NEW right \in BOOLEAN, Follows(o, r, right)
  PROVE  Follows({IF a = Error THEN Error ELSE Minus(a) : a \in o}, JudgeUnary(r), right)
<1> DEFINE p == {IF a = Error THEN Error ELSE Minus(a) : a \in o}
<1>1. Tells(o, r) /\ o \subseteq Outcomes /\ o # {} /\ r \in Verdicts
  BY DEF Follows, Tells
<1>2. p \in SUBSET Outcomes /\ p # {}
  BY <1>1, MinusIs DEF Outcomes
<1>3. CASE r.fails
  <2>1. JudgeUnary(r) = Fails
    BY <1>3 DEF JudgeUnary
  <2>2. right => p = {Error}
    BY <1>3 DEF Follows, Covers
  <2> QED
    BY <1>2, <2>1, <2>2, FailsTells DEF Follows
<1>4. CASE ~r.fails /\ r.exact
  <2>1. o = {r.value} /\ r.value \in Values
    BY <1>1, <1>4 DEF Tells
  <2>2. p = {Minus(r.value)} /\ Minus(r.value) \in Values
    BY <2>1, MinusIs, TwoIsFinite
  <2>3. JudgeUnary(r) = ExactResult(Minus(r.value))
    BY <1>4 DEF JudgeUnary
  <2> QED
    BY <2>2, <2>3, ExactTells DEF Follows
<1>5. CASE ~r.fails /\ ~r.exact
  <2> DEFINE C == {Negated(c) : c \in r.classes}
  <2>1. JudgeUnary(r) = Result(C)
    BY <1>5 DEF JudgeUnary
  <2>2. C \in SUBSET Classes
    BY <1>1 DEF Verdicts, Negated, Classes, FiniteClasses, Infinities
  <2>3. right => \A v \in p : v = Error \/ ClassOf(v) \in C
    <3>1. SUFFICES ASSUME right, NEW a \in o, a # Error PROVE ClassOf(Minus(a)) \in C
      OBVIOUS
    <3>2. a \in Values /\ ClassOf(a) \in r.classes
      BY <1>1, <1>5, <3>1 DEF Follows, Covers, Outcomes
    <3> QED
      BY <3>2, MinusIs
  <2> HIDE DEF p, C
  <2>4. Tells(p, Result(C)) /\ (right => Covers(p, Result(C)))
    BY <1>2, <2>2, <2>3, ResultTells
  <2> QED
    BY <2>1, <2>4 DEF Follows, p
<1> QED
  BY <1>3, <1>4, <1>5

LEMMA BinaryFollows ==
  ASSUME NEW o, NEW r, NEW p, NEW q, NEW right \in BOOLEAN, Follows(o, r, right), Follows(p, q, right),
         NEW op \in Operators
  PROVE  Follows(EvaluateBinary(op, o, p), JudgeBinary(op, r, q), right)
<1> DEFINE s == EvaluateBinary(op, o, p)
           C == UNION {AbstractBinary(op, a, b) : a \in r.classes, b \in q.classes}
           value == Computed(op, r.value, q.value)
<1>1. /\ Tells(o, r) /\ o \subseteq Outcomes /\ o # {} /\ r \in Verdicts
      /\ Tells(p, q) /\ p \subseteq Outcomes /\ p # {} /\ q \in Verdicts
  BY DEF Follows, Tells
<1>2. \A v \in s : \E a \in o, b \in p : v = IF Error \in {a, b} THEN Error ELSE Computed(op, a, b)
  BY DEF EvaluateBinary
<1>3. s \in SUBSET Outcomes /\ s # {}
  <2>1. s # {}
    BY <1>1 DEF EvaluateBinary
  <2>2. ASSUME NEW v \in s PROVE v \in Outcomes
    <3>1. PICK a \in o, b \in p : v = IF Error \in {a, b} THEN Error ELSE Computed(op, a, b)
      BY <1>2
    <3>2. CASE Error \in {a, b}
      BY <3>1, <3>2 DEF Outcomes
    <3>3. CASE Error \notin {a, b}
      <4>1. a \in Values /\ b \in Values
        BY <1>1, <3>3 DEF Outcomes
      <4> QED
        BY <3>1, <3>3, <4>1, ComputedIs
    <3> QED
      BY <3>2, <3>3
  <2> QED
    BY <2>1, <2>2
<1>4. JudgeBinary(op, r, q) = IF r.fails \/ q.fails THEN Fails
                              ELSE IF r.exact /\ q.exact THEN IF value = Error THEN Fails ELSE ExactResult(value)
                              ELSE IF C = {} THEN Fails ELSE Result(C)
  BY DEF JudgeBinary
<1>5. CASE r.fails \/ q.fails
  <2>1. right => o = {Error} \/ p = {Error}
    BY <1>5 DEF Follows, Covers
  <2>2. right => \A v \in s : v = Error
    BY <1>2, <2>1
  <2>3. right => s = {Error}
    BY <1>3, <2>2
  <2> HIDE DEF s
  <2>4. Tells(s, Fails) /\ (right => Covers(s, Fails))
    BY <1>3, <2>3, FailsTells
  <2> QED
    BY <1>4, <1>5, <2>4 DEF Follows, s
<1>6. CASE ~(r.fails \/ q.fails) /\ r.exact /\ q.exact
  <2>1. o = {r.value} /\ r.value \in Values /\ p = {q.value} /\ q.value \in Values
    BY <1>1, <1>6 DEF Tells
  <2>2. s = {value} /\ value \in Outcomes
    <3>1. Error \notin {r.value, q.value}
      BY <2>1, TwoIsFinite
    <3> QED
      BY <2>1, <3>1, ComputedIs DEF EvaluateBinary
  <2>3. CASE value = Error
    BY <1>3, <1>4, <1>6, <2>2, <2>3, FailsTells DEF Follows
  <2>4. CASE value # Error
    <3>1. value \in Values
      BY <2>2, <2>4 DEF Outcomes
    <3>2. JudgeBinary(op, r, q) = ExactResult(value)
      BY <1>4, <1>6, <2>4
    <3> QED
      BY <2>2, <3>1, <3>2, ExactTells DEF Follows
  <2> QED
    BY <2>3, <2>4
<1>7. CASE ~(r.fails \/ q.fails) /\ ~(r.exact /\ q.exact)
  <2>1. right => \A v \in s : v = Error \/ ClassOf(v) \in C
    <3>1. SUFFICES ASSUME right, NEW v \in s, v # Error PROVE ClassOf(v) \in C
      OBVIOUS
    <3>2. PICK a \in o, b \in p : v = Computed(op, a, b) /\ a # Error /\ b # Error
      BY <1>2, <3>1
    <3>3. a \in Values /\ b \in Values /\ ClassOf(a) \in r.classes /\ ClassOf(b) \in q.classes
      BY <1>1, <1>7, <3>1, <3>2 DEF Follows, Covers, Outcomes
    <3>4. ClassOf(v) \in AbstractBinary(op, ClassOf(a), ClassOf(b))
      BY <3>1, <3>2, <3>3, ComputedIs
    <3> QED
      BY <3>3, <3>4
  <2>2. C \in SUBSET Classes
    <3>1. ASSUME NEW a \in Classes, NEW b \in Classes PROVE AbstractBinary(op, a, b) \subseteq Classes
      <4>1. AbstractBinary(op, a, b) \subseteq Classes \cup {a, b}
        BY DEF AbstractBinary, Classes, FiniteClasses, Infinities, Negated, Operators, Comparisons
      <4> QED
        BY <4>1
    <3>2. r.classes \subseteq Classes /\ q.classes \subseteq Classes
      BY <1>1 DEF Verdicts
    <3> QED
      BY <3>1, <3>2
  <2> HIDE DEF s, C
  <2>3. CASE C = {}
    <3>1. right => s = {Error}
      BY <1>3, <2>1, <2>3
    <3>2. Tells(s, Fails) /\ (right => Covers(s, Fails))
      BY <1>3, <3>1, FailsTells
    <3> QED
      BY <1>4, <1>7, <2>3, <3>2 DEF Follows, s
  <2>4. CASE C # {}
    <3>1. Tells(s, Result(C)) /\ (right => Covers(s, Result(C)))
      BY <1>3, <2>1, <2>2, ResultTells
    <3> QED
      BY <1>4, <1>7, <2>4, <3>1 DEF Follows, s
  <2> QED
    BY <2>3, <2>4
<1> QED
  BY <1>5, <1>6, <1>7
-----------------------------------------------------------------------------
\* A call of two arguments, by the outcomes F of the call of two values.
AnyOf(F, o, p) == UNION {IF Error \in {a, b} THEN {Error} ELSE F[a][b] : a \in o, b \in p}
Gives(F) == \A a, b \in Values : F[a][b] \in SUBSET Outcomes /\ F[a][b] # {}
KnownOf(F, j, r, q) ==
  r.exact /\ q.exact /\ r.value \in Values /\ q.value \in Values =>
    Tells(F[r.value][q.value], j) /\ Covers(F[r.value][q.value], j)
PairKeepsTo(F, C, r, q) ==
  \/ r.exact /\ q.exact
  \/ \A a, b \in Values : ClassOf(a) \in r.classes /\ ClassOf(b) \in q.classes =>
       \A v \in F[a][b] : v = Error \/ ClassOf(v) \in C
PairJudged(j, k, C, r, q) ==
  j = IF r.fails \/ q.fails THEN Fails ELSE IF r.exact /\ q.exact THEN k ELSE Result(C)

LEMMA PairFollows ==
  ASSUME NEW o, NEW r, NEW p, NEW q, NEW right \in BOOLEAN, Follows(o, r, right), Follows(p, q, right),
         NEW F, NEW j, NEW k, NEW C \in SUBSET Classes, NEW firm \in BOOLEAN,
         Gives(F), KnownOf(F, k, r, q), PairJudged(j, k, C, r, q), firm => PairKeepsTo(F, C, r, q)
  PROVE  Follows(AnyOf(F, o, p), j, right /\ firm)
<1> DEFINE s == UNION {IF Error \in {a, b} THEN {Error} ELSE F[a][b] : a \in o, b \in p}
<1>1. /\ Tells(o, r) /\ o \subseteq Outcomes /\ o # {} /\ r \in Verdicts
      /\ Tells(p, q) /\ p \subseteq Outcomes /\ p # {} /\ q \in Verdicts
  BY DEF Follows, Tells
<1> SUFFICES Follows(s, j, right /\ firm)
  BY DEF AnyOf
<1>2. \A v \in s : \E a \in o, b \in p : v \in IF Error \in {a, b} THEN {Error} ELSE F[a][b]
  OBVIOUS
<1>3. ASSUME NEW a \in o, NEW b \in p
      PROVE  /\ (IF Error \in {a, b} THEN {Error} ELSE F[a][b]) \in SUBSET Outcomes
             /\ (IF Error \in {a, b} THEN {Error} ELSE F[a][b]) # {}
  <2>1. CASE Error \in {a, b}
    BY <2>1 DEF Outcomes
  <2>2. CASE Error \notin {a, b}
    <3>1. a \in Values /\ b \in Values
      BY <1>1, <2>2 DEF Outcomes
    <3> QED
      BY <2>2, <3>1 DEF Gives
  <2> QED
    BY <2>1, <2>2
<1>4. s \in SUBSET Outcomes /\ s # {}
  <2>1. s \in SUBSET Outcomes
    BY <1>3
  <2>2. PICK a \in o, b \in p : TRUE
    BY <1>1
  <2>3. PICK v : v \in IF Error \in {a, b} THEN {Error} ELSE F[a][b]
    BY <1>3
  <2>4. v \in s
    <3> DEFINE w == IF Error \in {a, b} THEN {Error} ELSE F[a][b]
               S == {IF Error \in {c, d} THEN {Error} ELSE F[c][d] : c \in o, d \in p}
    <3>1. w \in S
      OBVIOUS
    <3>2. v \in w /\ s = UNION S
      BY <2>3
    <3> HIDE DEF w, S
    <3> QED
      BY <3>1, <3>2
  <2> HIDE DEF s
  <2> QED
    BY <2>1, <2>4
<1>5. CASE r.fails \/ q.fails
  <2>1. right => o = {Error} \/ p = {Error}
    BY <1>5 DEF Follows, Covers
  <2>2. right => \A v \in s : v = Error
    BY <1>2, <2>1
  <2>3. right => s = {Error}
    BY <1>4, <2>2
  <2> HIDE DEF s
  <2>4. Tells(s, Fails) /\ (right => Covers(s, Fails))
    BY <1>4, <2>3, FailsTells
  <2> QED
    BY <1>5, <2>4 DEF Follows, PairJudged, s
<1>6. CASE ~r.fails /\ ~q.fails /\ r.exact /\ q.exact
  <2>1. o = {r.value} /\ r.value \in Values /\ p = {q.value} /\ q.value \in Values
    BY <1>1, <1>6 DEF Tells
  <2>2. Error \notin {r.value, q.value}
    BY <2>1, TwoIsFinite
  <2>3. s = F[r.value][q.value]
    BY <2>1, <2>2
  <2> HIDE DEF s
  <2>4. Tells(s, j) /\ Covers(s, j)
    BY <1>6, <2>1, <2>3 DEF KnownOf, PairJudged
  <2> QED
    BY <2>4 DEF Follows, s
<1>7. CASE ~r.fails /\ ~q.fails /\ ~(r.exact /\ q.exact)
  <2>1. right /\ firm => \A v \in s : v = Error \/ ClassOf(v) \in C
    <3>1. SUFFICES ASSUME right, firm, NEW v \in s, v # Error PROVE ClassOf(v) \in C
      OBVIOUS
    <3>2. PICK a \in o, b \in p : v \in IF Error \in {a, b} THEN {Error} ELSE F[a][b]
      BY <1>2
    <3>3. a # Error /\ b # Error /\ v \in F[a][b]
      BY <3>1, <3>2
    <3>4. a \in Values /\ b \in Values /\ ClassOf(a) \in r.classes /\ ClassOf(b) \in q.classes
      BY <1>1, <1>7, <3>1, <3>3 DEF Follows, Covers, Outcomes
    <3> QED
      BY <1>7, <3>1, <3>3, <3>4 DEF PairKeepsTo
  <2> HIDE DEF s
  <2>2. Tells(s, Result(C)) /\ (right /\ firm => Covers(s, Result(C)))
    BY <1>4, <2>1, ResultTells
  <2> QED
    BY <1>7, <2>2 DEF Follows, PairJudged, s
<1> QED
  BY <1>5, <1>6, <1>7

\* The same for one argument.
EachOf(F, o) == {IF a = Error THEN Error ELSE F[a] : a \in o}
JudgedBy(F, C, r) == IF r.fails THEN Fails ELSE IF r.exact THEN ExactResult(F[r.value]) ELSE Result(C)
KeepsTo(F, C, r) == r.exact \/ \A a \in Values : ClassOf(a) \in r.classes => ClassOf(F[a]) \in C

LEMMA OneFollows ==
  ASSUME NEW o, NEW r, NEW right \in BOOLEAN, Follows(o, r, right),
         NEW F \in [Values -> Values], NEW C \in SUBSET Classes, NEW firm \in BOOLEAN,
         firm => KeepsTo(F, C, r)
  PROVE  Follows(EachOf(F, o), JudgedBy(F, C, r), right /\ firm)
<1> DEFINE j == JudgedBy(F, C, r)
<1>0. j = IF r.fails THEN Fails ELSE IF r.exact THEN ExactResult(F[r.value]) ELSE Result(C)
  BY DEF JudgedBy
<1> HIDE DEF j
<1> DEFINE s == {IF a = Error THEN Error ELSE F[a] : a \in o}
<1>1. Tells(o, r) /\ o \subseteq Outcomes /\ o # {} /\ r \in Verdicts
  BY DEF Follows, Tells
<1>2. s \in SUBSET Outcomes /\ s # {}
  BY <1>1 DEF Outcomes
<1> SUFFICES Follows(s, j, right /\ firm)
  BY DEF EachOf, j
<1>3. CASE r.fails
  <2>1. right => o = {Error}
    BY <1>3 DEF Follows, Covers
  <2>2. right => s = {Error}
    BY <2>1
  <2> HIDE DEF s
  <2>3. Tells(s, Fails) /\ (right => Covers(s, Fails))
    BY <1>2, <2>2, FailsTells
  <2> QED
    BY <1>0, <1>3, <2>3 DEF Follows, s
<1>4. CASE ~r.fails /\ r.exact
  <2>1. o = {r.value} /\ r.value \in Values /\ r.value # Error
    BY <1>1, <1>4, TwoIsFinite DEF Tells
  <2>2. s = {F[r.value]} /\ F[r.value] \in Values
    BY <2>1
  <2> HIDE DEF s
  <2>3. Tells(s, j) /\ Covers(s, j)
    BY <1>0, <1>4, <2>2, ExactTells
  <2> QED
    BY <2>3 DEF Follows, s
<1>5. CASE ~r.fails /\ ~r.exact
  <2>1. right /\ firm => \A v \in s : v = Error \/ ClassOf(v) \in C
    <3>1. SUFFICES ASSUME right, firm, NEW a \in o, a # Error PROVE ClassOf(F[a]) \in C
      OBVIOUS
    <3>2. a \in Values /\ ClassOf(a) \in r.classes
      BY <1>1, <1>5, <3>1 DEF Follows, Covers, Outcomes
    <3> QED
      BY <1>5, <3>1, <3>2 DEF KeepsTo
  <2> HIDE DEF s
  <2>2. Tells(s, Result(C)) /\ (right /\ firm => Covers(s, Result(C)))
    BY <1>2, <2>1, ResultTells
  <2> QED
    BY <1>0, <1>5, <2>2 DEF Follows, s
<1> QED
  BY <1>3, <1>4, <1>5

-----------------------------------------------------------------------------
\* The calls of one argument.
LEMMA RoundOneFollows ==
  ASSUME NEW o, NEW r, NEW right \in BOOLEAN, Follows(o, r, right)
  PROVE  Follows(EvaluateCall("ROUND", <<o>>), JudgeCall("ROUND", <<r>>), right /\ ~Misjudged("ROUND", <<r>>))
<1> DEFINE F == [a \in Values |-> RoundedTo(a, 0)]
           firm == ~Misjudged("ROUND", <<r>>)
           j == JudgeCall("ROUND", <<r>>)
<1>1. F \in [Values -> Values] /\ \A a \in Values : F[a] = RoundedTo(a, 0)
  BY RoundIs, TwoIsFinite
<1>2. j = IF r.fails THEN Fails ELSE IF r.exact THEN ExactResult(RoundedTo(r.value, 0)) ELSE Result(r.classes)
  BY DEF JudgeCall, JudgeConstants, JudgeUnknown, JudgeRound
<1>3. o \subseteq Outcomes /\ r.classes \in SUBSET Classes /\ (r.exact => r.value \in Values)
  BY DEF Follows, Tells, Verdicts
<1>4. EvaluateCall("ROUND", <<o>>) = {IF a = Error THEN Error ELSE RoundedTo(a, 0) : a \in o}
  BY DEF EvaluateCall
<1>5. EvaluateCall("ROUND", <<o>>) = EachOf(F, o)
  BY <1>1, <1>3, <1>4 DEF EachOf, Outcomes
<1>6. ASSUME NEW a \in Values, ClassOf(a) \in r.classes PROVE ClassOf(F[a]) \in r.classes
  <2>1. ClassOf(RoundedTo(a, 0)) = ClassOf(a)
    <3>1. CASE a \in Finite
      <4>1. RoundedTo(a, 0) \in Finite /\ RoundedTo(a, 0) \in Values /\ (RoundedTo(a, 0) = 0 <=> a = 0)
        BY <3>1, RoundIs, TwoIsFinite
      <4> QED
        BY <3>1, <4>1, ClassIs
    <3>2. CASE a \notin Finite
      BY <3>2, RoundIs, TwoIsFinite
    <3> QED
      BY <3>1, <3>2
  <2> QED
    BY <1>1, <1>6, <2>1
<1>7. j = JudgedBy(F, r.classes, r) /\ (firm => KeepsTo(F, r.classes, r))
  BY <1>1, <1>2, <1>3, <1>6 DEF JudgedBy, KeepsTo
<1>8. firm \in BOOLEAN
  BY DEF Misjudged
<1> HIDE DEF F, j, firm
<1>9. Follows(EachOf(F, o), JudgedBy(F, r.classes, r), right /\ firm)
  BY <1>1, <1>3, <1>7, <1>8, OneFollows
<1> QED
  BY <1>5, <1>7, <1>9 DEF firm, j

LEMMA AbsFollows ==
  ASSUME NEW o, NEW r, NEW right \in BOOLEAN, Follows(o, r, right)
  PROVE  Follows(EvaluateCall("ABS", <<o>>), JudgeCall("ABS", <<r>>), right /\ ~Misjudged("ABS", <<r>>))
<1> DEFINE F == [a \in Values |-> Absolute(a)]
           C == {IF c = "minus" THEN "plus" ELSE c : c \in r.classes}
           firm == ~Misjudged("ABS", <<r>>)
           j == JudgeCall("ABS", <<r>>)
<1>1. F \in [Values -> Values] /\ \A a \in Values : F[a] = Absolute(a)
  BY AbsoluteIs
<1>2. j = IF r.fails THEN Fails ELSE IF r.exact THEN ExactResult(Absolute(r.value)) ELSE Result(C)
  BY DEF JudgeCall, JudgeConstants, JudgeUnknown
<1>3. o \subseteq Outcomes /\ r.classes \in SUBSET Classes /\ (r.exact => r.value \in Values)
  BY DEF Follows, Tells, Verdicts
<1>4. EvaluateCall("ABS", <<o>>) = {IF a = Error THEN Error ELSE Absolute(a) : a \in o}
  BY DEF EvaluateCall
<1>5. EvaluateCall("ABS", <<o>>) = EachOf(F, o)
  BY <1>1, <1>3, <1>4 DEF EachOf, Outcomes
<1>6. ASSUME NEW a \in Values, ClassOf(a) \in r.classes PROVE ClassOf(F[a]) \in C
  BY <1>1, <1>6, AbsoluteIs
<1>7. j = JudgedBy(F, C, r) /\ (firm => KeepsTo(F, C, r))
  BY <1>1, <1>2, <1>3, <1>6 DEF JudgedBy, KeepsTo
<1>8. firm \in BOOLEAN /\ C \in SUBSET Classes
  BY <1>3 DEF Misjudged, Classes, Infinities
<1> HIDE DEF F, j, firm, C
<1>9. Follows(EachOf(F, o), JudgedBy(F, C, r), right /\ firm)
  BY <1>1, <1>3, <1>7, <1>8, OneFollows
<1> QED
  BY <1>5, <1>7, <1>9 DEF firm, j

LEMMA FloorFollows ==
  ASSUME NEW o, NEW r, NEW right \in BOOLEAN, Follows(o, r, right)
  PROVE  Follows(EvaluateCall("FLOOR", <<o>>), JudgeCall("FLOOR", <<r>>), right /\ ~Misjudged("FLOOR", <<r>>))
<1> DEFINE F == [a \in Values |-> Whole(a)]
           firm == ~Misjudged("FLOOR", <<r>>)
           j == JudgeCall("FLOOR", <<r>>)
<1>1. F \in [Values -> Values] /\ \A a \in Values : F[a] = Whole(a)
  BY WholeIs
<1>2. j = IF r.fails THEN Fails ELSE IF r.exact THEN ExactResult(Whole(r.value)) ELSE Result(r.classes)
  BY DEF JudgeCall, JudgeConstants, JudgeUnknown
<1>3. o \subseteq Outcomes /\ r.classes \in SUBSET Classes /\ (r.exact => r.value \in Values)
  BY DEF Follows, Tells, Verdicts
<1>4. EvaluateCall("FLOOR", <<o>>) = {IF a = Error THEN Error ELSE Whole(a) : a \in o}
  BY DEF EvaluateCall
<1>5. EvaluateCall("FLOOR", <<o>>) = EachOf(F, o)
  BY <1>1, <1>3, <1>4 DEF EachOf, Outcomes
<1>6. ASSUME firm, ~r.exact, NEW a \in Values, ClassOf(a) \in r.classes PROVE ClassOf(F[a]) \in r.classes
  <2>1. "number" \in r.classes => "zero" \in r.classes
    BY <1>6 DEF Misjudged
  <2>2. CASE a \notin Finite
    BY <1>1, <1>6, <2>2, WholeIs
  <2>3. CASE a = 0
    BY <1>1, <1>6, <2>3, WholeIs
  <2>4. CASE a \in Finite /\ a # 0
    <3>1. ClassOf(a) = "number"
      BY <2>4, ClassIs
    <3>2. F[a] \in Values /\ ClassOf(F[a]) \in FiniteClasses
      BY <1>1, <2>4, WholeIs, ClassIs
    <3> QED
      BY <1>6, <2>1, <3>1, <3>2 DEF FiniteClasses
  <2> QED
    BY <2>2, <2>3, <2>4
<1>7. j = JudgedBy(F, r.classes, r) /\ (firm => KeepsTo(F, r.classes, r))
  BY <1>1, <1>2, <1>3, <1>6 DEF JudgedBy, KeepsTo
<1>8. firm \in BOOLEAN
  BY DEF Misjudged
<1> HIDE DEF F, j, firm
<1>9. Follows(EachOf(F, o), JudgedBy(F, r.classes, r), right /\ firm)
  BY <1>1, <1>3, <1>7, <1>8, OneFollows
<1> QED
  BY <1>5, <1>7, <1>9 DEF firm, j

\* The choices.
LEMMA IfFollows ==
  ASSUME NEW o, NEW r, NEW p, NEW q, NEW s, NEW t, NEW right \in BOOLEAN,
         Follows(o, r, right), Follows(p, q, right), Follows(s, t, right)
  PROVE  Follows(EvaluateCall("IF", <<o, p, s>>), JudgeCall("IF", <<r, q, t>>), right)
<1> DEFINE e == UNION {IF c = Error THEN {Error} ELSE IF c # 0 THEN p ELSE s : c \in o}
<1>1. EvaluateCall("IF", <<o, p, s>>) = e
  BY DEF EvaluateCall
<1>2. JudgeCall("IF", <<r, q, t>>) = IF r.fails THEN Fails ELSE IF ~r.exact THEN Top
                                     ELSE IF r.value # 0 THEN q ELSE t
  BY DEF JudgeCall
<1>3. /\ Tells(o, r) /\ o \subseteq Outcomes /\ o # {}
      /\ Tells(p, q) /\ p \subseteq Outcomes /\ p # {}
      /\ Tells(s, t) /\ s \subseteq Outcomes /\ s # {}
  BY DEF Follows, Tells
<1>4. e \in SUBSET Outcomes /\ e # {}
  <2>1. e \in SUBSET Outcomes
    BY <1>3 DEF Outcomes
  <2>2. PICK c \in o : TRUE
    BY <1>3
  <2>3. PICK v : v \in IF c = Error THEN {Error} ELSE IF c # 0 THEN p ELSE s
    BY <1>3
  <2>4. v \in e
    BY <2>3
  <2> HIDE DEF e
  <2> QED
    BY <2>1, <2>4
<1>5. CASE r.fails
  <2>1. right => o = {Error}
    BY <1>5 DEF Follows, Covers
  <2>2. right => e = {Error}
    BY <2>1
  <2> HIDE DEF e
  <2>3. Tells(e, Fails) /\ (right => Covers(e, Fails))
    BY <1>4, <2>2, FailsTells
  <2> QED
    BY <1>1, <1>2, <1>5, <2>3 DEF Follows
<1>6. CASE ~r.fails /\ ~r.exact
  <2> HIDE DEF e
  <2> QED
    BY <1>1, <1>2, <1>4, <1>6, TopTells DEF Follows
<1>7. CASE ~r.fails /\ r.exact
  <2>1. o = {r.value} /\ r.value # Error
    BY <1>3, <1>7, TwoIsFinite DEF Tells
  <2>2. e = IF r.value # 0 THEN p ELSE s
    BY <2>1
  <2> HIDE DEF e
  <2> QED
    BY <1>1, <1>2, <1>7, <2>2
<1> QED
  BY <1>5, <1>6, <1>7

LEMMA ChoiceFollows ==
  ASSUME NEW o, NEW r, NEW p, NEW q, NEW right \in BOOLEAN, Follows(o, r, right), Follows(p, q, right)
  PROVE  /\ Follows(EvaluateCall("RANDOMCHOICE", <<o>>), JudgeCall("RANDOMCHOICE", <<r>>), right)
         /\ Follows(EvaluateCall("RANDOMCHOICE", <<o, p>>), JudgeCall("RANDOMCHOICE", <<r, q>>), right)
<1>1. EvaluateCall("RANDOMCHOICE", <<o>>) = o /\ EvaluateCall("RANDOMCHOICE", <<o, p>>) = o \cup p
  BY DEF EvaluateCall
<1>2. JudgeCall("RANDOMCHOICE", <<r>>) = r /\ JudgeCall("RANDOMCHOICE", <<r, q>>) = Top
  BY DEF JudgeCall
<1>3. o \cup p \in SUBSET Outcomes /\ o \cup p # {}
  BY DEF Follows, Tells
<1>4. Follows(o \cup p, Top, right)
  BY <1>3, TopTells DEF Follows
<1> QED
  BY <1>1, <1>2, <1>4

LEMMA RandFollows ==
  Follows(EvaluateCall("RAND", <<>>), JudgeCall("RAND", <<>>), TRUE)
<1>1. EvaluateCall("RAND", <<>>) = {0, 1} /\ JudgeCall("RAND", <<>>) = Result(FiniteClasses)
  BY DEF EvaluateCall, JudgeCall
<1>2. {0, 1} \in SUBSET Finite
  BY ValuesAre
<1>3. {0, 1} \in SUBSET Outcomes /\ {0, 1} # {} /\ FiniteClasses \in SUBSET Classes
  BY <1>2, TwoIsFinite DEF Outcomes, Classes
<1>4. \A v \in {0, 1} : ClassOf(v) \in FiniteClasses
  BY <1>2, TwoIsFinite, ClassIs
<1> QED
  BY <1>1, <1>3, <1>4, ResultTells DEF Follows

-----------------------------------------------------------------------------
\* The calls of two arguments.
LEMMA JudgesTwo ==
  ASSUME NEW name \in {"MAX", "MIN", "ROUND", "RANDBETWEEN"}, NEW r, NEW q
  PROVE  JudgeCall(name, <<r, q>>) = IF r.fails \/ q.fails THEN Fails
                                     ELSE IF r.exact /\ q.exact THEN JudgeConstants(name, <<r, q>>)
                                     ELSE JudgeUnknown(name, <<r, q>>)
<1> DEFINE args == <<r, q>>
<1>1. JudgeCall(name, args) = IF \E i \in DOMAIN args : args[i].fails THEN Fails
                              ELSE IF \A i \in DOMAIN args : args[i].exact THEN JudgeConstants(name, args)
                              ELSE JudgeUnknown(name, args)
  BY DEF JudgeCall
<1>2. DOMAIN args = {1, 2} /\ args[1] = r /\ args[2] = q
  OBVIOUS
<1> QED
  BY <1>1, <1>2

LEMMA AnyOfOne ==
  ASSUME NEW o, NEW p, NEW F, NEW G,
         \A a \in o, b \in p : (IF Error \in {a, b} THEN {Error} ELSE F[a][b])
                               = {IF Error \in {a, b} THEN Error ELSE G[a][b]}
  PROVE  AnyOf(F, o, p) = {IF Error \in {a, b} THEN Error ELSE G[a][b] : a \in o, b \in p}
<1> DEFINE S == {IF Error \in {a, b} THEN Error ELSE G[a][b] : a \in o, b \in p}
           T == {IF Error \in {a, b} THEN {Error} ELSE F[a][b] : a \in o, b \in p}
<1>1. ASSUME NEW v \in S PROVE v \in UNION T
  <2>1. PICK a \in o, b \in p : v = IF Error \in {a, b} THEN Error ELSE G[a][b]
    OBVIOUS
  <2> DEFINE w == IF Error \in {a, b} THEN {Error} ELSE F[a][b]
  <2>2. w \in T /\ w = {v}
    BY <2>1
  <2> HIDE DEF w, T
  <2> QED
    BY <2>2
<1>2. ASSUME NEW v \in UNION T PROVE v \in S
  <2>1. PICK a \in o, b \in p : v \in IF Error \in {a, b} THEN {Error} ELSE F[a][b]
    OBVIOUS
  <2>2. v = IF Error \in {a, b} THEN Error ELSE G[a][b]
    BY <2>1
  <2> QED
    BY <2>2
<1> HIDE DEF S, T
<1>3. S = UNION T
  BY <1>1, <1>2
<1> QED
  BY <1>3 DEF AnyOf, S, T

LEMMA BestFollows ==
  ASSUME NEW o, NEW r, NEW p, NEW q, NEW right \in BOOLEAN, Follows(o, r, right), Follows(p, q, right),
         NEW name \in {"MAX", "MIN"}
  PROVE  Follows(EvaluateCall(name, <<o, p>>), JudgeCall(name, <<r, q>>), right /\ ~Misjudged(name, <<r, q>>))
<1> DEFINE F == [a \in Values |-> [b \in Values |-> {Best(name, a, b)}]]
           C == UNION {AbstractBest(name, a, b) : a \in r.classes, b \in q.classes}
           k == ExactResult(Best(name, r.value, q.value))
           firm == ~Misjudged(name, <<r, q>>)
           j == JudgeCall(name, <<r, q>>)
<1>1. /\ o \subseteq Outcomes /\ r.classes \in SUBSET Classes
      /\ p \subseteq Outcomes /\ q.classes \in SUBSET Classes
  BY DEF Follows, Tells, Verdicts
<1>2. \A a, b \in Values : F[a][b] = {Best(name, a, b)}
  OBVIOUS
<1>3. EvaluateCall(name, <<o, p>>) = {IF Error \in {a, b} THEN Error ELSE Best(name, a, b) : a \in o, b \in p}
  BY DEF EvaluateCall
<1>4. EvaluateCall(name, <<o, p>>) = AnyOf(F, o, p)
  <2> DEFINE G == [a \in Values |-> [b \in Values |-> Best(name, a, b)]]
             S == {IF Error \in {a, b} THEN Error ELSE Best(name, a, b) : a \in o, b \in p}
             T == {IF Error \in {a, b} THEN Error ELSE G[a][b] : a \in o, b \in p}
  <2>1. \A a \in o, b \in p : (IF Error \in {a, b} THEN Error ELSE G[a][b])
                              = IF Error \in {a, b} THEN Error ELSE Best(name, a, b)
    BY <1>1 DEF Outcomes
  <2>2. \A a \in o, b \in p : (IF Error \in {a, b} THEN {Error} ELSE F[a][b])
                              = {IF Error \in {a, b} THEN Error ELSE G[a][b]}
    BY <1>1, <1>2 DEF Outcomes
  <2> HIDE DEF F, G
  <2>3. S = T
    BY <2>1
  <2>4. AnyOf(F, o, p) = T
    BY <2>2, AnyOfOne
  <2> HIDE DEF T
  <2> QED
    BY <1>3, <2>3, <2>4
<1>5. Gives(F)
  BY <1>2, BestIs DEF Gives, Outcomes
<1>6. KnownOf(F, k, r, q)
  BY <1>2, BestIs, ExactTells DEF KnownOf
<1>7. JudgeUnknown(name, <<r, q>>) = Result(C) /\ JudgeConstants(name, <<r, q>>) = k
  BY DEF JudgeUnknown, JudgeConstants
<1>8. PairJudged(j, k, C, r, q)
  BY <1>7, JudgesTwo DEF PairJudged
<1>9. firm => PairKeepsTo(F, C, r, q)
  <2>1. SUFFICES ASSUME firm, ~(r.exact /\ q.exact), NEW a \in Values, NEW b \in Values,
                        ClassOf(a) \in r.classes, ClassOf(b) \in q.classes
                 PROVE  ClassOf(Best(name, a, b)) \in C
    BY <1>2 DEF PairKeepsTo
  <2>2. "nan" \notin r.classes /\ "nan" \notin q.classes
    <3> DEFINE args == <<r, q>>
    <3>1. DOMAIN args = {1, 2} /\ args[1] = r /\ args[2] = q
      OBVIOUS
    <3>2. ~Misjudged(name, args)
      BY <2>1
    <3> HIDE DEF args
    <3> QED
      BY <2>1, <3>1, <3>2 DEF Misjudged
  <2>3. a # NaN /\ b # NaN
    BY <2>1, <2>2, ClassIs
  <2>4. ClassOf(Best(name, a, b)) \in AbstractBest(name, ClassOf(a), ClassOf(b))
    BY <2>3, BestIs
  <2> QED
    BY <2>1, <2>4
<1>10. firm \in BOOLEAN
  BY DEF Misjudged
<1>11. C \in SUBSET Classes
  <2>1. ASSUME NEW a \in Classes, NEW b \in Classes PROVE AbstractBest(name, a, b) \subseteq Classes
    BY DEF AbstractBest, Classes, FiniteClasses, Infinities
  <2> QED
    BY <1>1, <2>1
<1> HIDE DEF F, C, k, firm, j
<1>12. Follows(AnyOf(F, o, p), j, right /\ firm)
  BY <1>5, <1>6, <1>8, <1>9, <1>10, <1>11, PairFollows
<1> QED
  BY <1>4, <1>12 DEF firm, j

LEMMA RoundTwoFollows ==
  ASSUME NEW o, NEW r, NEW p, NEW q, NEW right \in BOOLEAN, Follows(o, r, right), Follows(p, q, right)
  PROVE  Follows(EvaluateCall("ROUND", <<o, p>>), JudgeCall("ROUND", <<r, q>>),
                 right /\ ~Misjudged("ROUND", <<r, q>>))
<1> DEFINE F == [a \in Values |-> [b \in Values |-> {RoundedTo(a, b)}]]
           C == IF r.classes \cap FiniteClasses = {} THEN r.classes
                ELSE IF ~q.exact THEN Classes
                ELSE IF Power(q.value) \in Finite \ {0} THEN r.classes \cup Infinities
                ELSE {"nan"}
           k == ExactResult(RoundedTo(r.value, q.value))
           firm == ~Misjudged("ROUND", <<r, q>>)
           j == JudgeCall("ROUND", <<r, q>>)
<1>1. /\ o \subseteq Outcomes /\ r.classes \in SUBSET Classes
      /\ p \subseteq Outcomes /\ q.classes \in SUBSET Classes
      /\ q.exact => q.value \in Values /\ q.classes = {ClassOf(q.value)}
  BY DEF Follows, Tells, Verdicts
<1>2. \A a, b \in Values : F[a][b] = {RoundedTo(a, b)}
  OBVIOUS
<1>3. EvaluateCall("ROUND", <<o, p>>) = {IF Error \in {a, b} THEN Error ELSE RoundedTo(a, b) : a \in o, b \in p}
  BY DEF EvaluateCall
<1>4. EvaluateCall("ROUND", <<o, p>>) = AnyOf(F, o, p)
  <2> DEFINE G == [a \in Values |-> [b \in Values |-> RoundedTo(a, b)]]
             S == {IF Error \in {a, b} THEN Error ELSE RoundedTo(a, b) : a \in o, b \in p}
             T == {IF Error \in {a, b} THEN Error ELSE G[a][b] : a \in o, b \in p}
  <2>1. \A a \in o, b \in p : (IF Error \in {a, b} THEN Error ELSE G[a][b])
                              = IF Error \in {a, b} THEN Error ELSE RoundedTo(a, b)
    BY <1>1 DEF Outcomes
  <2>2. \A a \in o, b \in p : (IF Error \in {a, b} THEN {Error} ELSE F[a][b])
                              = {IF Error \in {a, b} THEN Error ELSE G[a][b]}
    BY <1>1, <1>2 DEF Outcomes
  <2> HIDE DEF F, G
  <2>3. S = T
    BY <2>1
  <2>4. AnyOf(F, o, p) = T
    BY <2>2, AnyOfOne
  <2> HIDE DEF T
  <2> QED
    BY <1>3, <2>3, <2>4
<1>5. Gives(F)
  BY <1>2, RoundIs DEF Gives, Outcomes
<1>6. KnownOf(F, k, r, q)
  BY <1>2, RoundIs, ExactTells DEF KnownOf
<1>7. JudgeUnknown("ROUND", <<r, q>>) = Result(C) /\ JudgeConstants("ROUND", <<r, q>>) = k
  <2>1. JudgeUnknown("ROUND", <<r, q>>) = JudgeRound(<<r, q>>)
    BY DEF JudgeUnknown
  <2>2. JudgeRound(<<r, q>>) = Result(C)
    BY DEF JudgeRound, Top
  <2> QED
    BY <2>1, <2>2 DEF JudgeConstants
<1>8. PairJudged(j, k, C, r, q)
  BY <1>7, JudgesTwo DEF PairJudged
<1>9. firm => PairKeepsTo(F, C, r, q)
  <2>1. SUFFICES ASSUME firm, ~(r.exact /\ q.exact), NEW a \in Values, NEW b \in Values,
                        ClassOf(a) \in r.classes, ClassOf(b) \in q.classes
                 PROVE  ClassOf(RoundedTo(a, b)) \in C
    BY <1>2 DEF PairKeepsTo
  <2>2. \/ ~(r.classes \subseteq Infinities)
        \/ q.exact /\ Power(q.value) \in Finite \ {0}
    <3> DEFINE args == <<r, q>>
    <3>1. DOMAIN args = {1, 2} /\ args[1] = r /\ args[2] = q /\ Len(args) = 2
      OBVIOUS
    <3>2. ~Misjudged("ROUND", args)
      BY <2>1
    <3> HIDE DEF args
    <3> QED
      BY <2>1, <3>1, <3>2 DEF Misjudged
  <2>3. RoundedTo(a, b) \in Values /\ (b # 0 => RoundedTo(a, b) = NaN)
    BY RoundIs
  <2>4. b = 0 => ClassOf(RoundedTo(a, b)) = ClassOf(a)
    <3>1. CASE b = 0 /\ a \in Finite
      <4>1. RoundedTo(a, b) \in Finite /\ (RoundedTo(a, b) = 0 <=> a = 0)
        BY <3>1, RoundIs
      <4> QED
        BY <2>3, <3>1, <4>1, ClassIs
    <3>2. CASE b = 0 /\ a \notin Finite
      BY <3>2, RoundIs
    <3> QED
      BY <3>1, <3>2
  <2>5. b # 0 => ClassOf(RoundedTo(a, b)) = "nan"
    BY <2>3, ClassIs
  <2>6. q.exact => (b = 0 <=> q.value = 0)
    BY <1>1, <2>1, ClassIs
  <2>7. q.exact => (q.value = 0 <=> Power(q.value) \in Finite \ {0})
    <3>1. ASSUME NEW d \in Values PROVE d = 0 <=> Power(d) \in Finite \ {0}
      <4>1. d \in Int
        BY ClassIs
      <4> QED
        BY <4>1, ValuesAre DEF Power
    <3> QED
      BY <1>1, <3>1
  <2>8. CASE r.classes \cap FiniteClasses = {}
    <3>1. CASE b = 0
      BY <2>1, <2>4, <2>8, <3>1
    <3>2. CASE b # 0
      <4>1. "nan" \in r.classes
        BY <1>1, <2>2, <2>6, <2>7, <2>8, <3>2 DEF Classes
      <4> QED
        BY <2>5, <2>8, <3>2, <4>1
    <3> QED
      BY <3>1, <3>2
  <2>9. CASE r.classes \cap FiniteClasses # {} /\ ~q.exact
    BY <2>3, <2>9, ClassIs
  <2>10. CASE r.classes \cap FiniteClasses # {} /\ q.exact /\ Power(q.value) \in Finite \ {0}
    BY <2>1, <2>4, <2>6, <2>7, <2>10
  <2>11. CASE r.classes \cap FiniteClasses # {} /\ q.exact /\ ~(Power(q.value) \in Finite \ {0})
    BY <2>5, <2>6, <2>7, <2>11
  <2> QED
    BY <2>8, <2>9, <2>10, <2>11
<1>10. firm \in BOOLEAN
  BY DEF Misjudged
<1>11. C \in SUBSET Classes
  BY <1>1 DEF Classes
<1> HIDE DEF F, C, k, firm, j
<1>12. Follows(AnyOf(F, o, p), j, right /\ firm)
  BY <1>5, <1>6, <1>8, <1>9, <1>10, <1>11, PairFollows
<1> QED
  BY <1>4, <1>12 DEF firm, j

LEMMA BetweenIs ==
  ASSUME NEW a \in Values, NEW b \in Values
  PROVE  /\ Between(a, b) \in SUBSET Outcomes /\ Between(a, b) # {}
         /\ \A v \in Between(a, b) : v = Error \/ v \in Finite
         /\ Tells(Between(a, b), JudgeRange(Low(a), High(b)))
         /\ Covers(Between(a, b), JudgeRange(Low(a), High(b)))
<1>1. PICK m \in Finite : m = Low(a) /\ m % 2 = 0
  BY BoundsAre
<1>2. PICK n \in Finite : n = High(b) /\ n % 2 = 0
  BY BoundsAre
<1>3. m \in Int /\ n \in Int
  BY ValuesAre
<1>4. CASE n < m
  <2>1. Between(a, b) = {Error} /\ JudgeRange(Low(a), High(b)) = Fails
    BY <1>1, <1>2, <1>4 DEF Between, JudgeRange
  <2>2. {Error} \in SUBSET Outcomes
    BY DEF Outcomes
  <2> QED
    BY <2>1, <2>2, FailsTells
<1>5. CASE ~(n < m)
  <2> DEFINE S == {i \in m..n : i % 2 = 0}
  <2>1. Between(a, b) = S
    BY <1>1, <1>2, <1>5 DEF Between
  <2>2. m \in S
    BY <1>1, <1>3, <1>5
  <2>3. S \subseteq Finite
    BY <1>1, <1>2, ValuesAre
  <2>4. S \in SUBSET Outcomes /\ S # {}
    BY <2>2, <2>3, TwoIsFinite DEF Outcomes
  <2>5. JudgeRange(Low(a), High(b)) = IF m = n THEN ExactResult(m) ELSE Result(FiniteClasses)
    BY <1>1, <1>2, <1>5 DEF JudgeRange
  <2>6. CASE m = n
    <3>1. S = {m}
      BY <1>3, <2>2, <2>6
    <3>2. m \in Values
      BY <1>1, TwoIsFinite
    <3> HIDE DEF S
    <3>3. Tells(S, ExactResult(m)) /\ Covers(S, ExactResult(m))
      BY <3>1, <3>2, ExactTells
    <3> QED
      BY <2>1, <2>3, <2>4, <2>5, <2>6, <3>3
  <2>7. CASE m # n
    <3>1. \A v \in S : ClassOf(v) \in FiniteClasses
      BY <2>3, TwoIsFinite, ClassIs
    <3>2. FiniteClasses \in SUBSET Classes
      BY DEF Classes
    <3> HIDE DEF S
    <3>3. Tells(S, Result(FiniteClasses)) /\ Covers(S, Result(FiniteClasses))
      BY <2>4, <3>1, <3>2, ResultTells
    <3> QED
      BY <2>1, <2>3, <2>4, <2>5, <2>7, <3>3
  <2> QED
    BY <2>6, <2>7
<1> QED
  BY <1>4, <1>5

LEMMA BetweenFollows ==
  ASSUME NEW o, NEW r, NEW p, NEW q, NEW right \in BOOLEAN, Follows(o, r, right), Follows(p, q, right)
  PROVE  Follows(EvaluateCall("RANDBETWEEN", <<o, p>>), JudgeCall("RANDBETWEEN", <<r, q>>),
                 right /\ ~Misjudged("RANDBETWEEN", <<r, q>>))
<1> DEFINE F == [a \in Values |-> [b \in Values |-> Between(a, b)]]
           k == JudgeRange(Low(r.value), High(q.value))
           firm == ~Misjudged("RANDBETWEEN", <<r, q>>)
           j == JudgeCall("RANDBETWEEN", <<r, q>>)
<1>1. o \subseteq Outcomes /\ p \subseteq Outcomes
  BY DEF Follows, Tells
<1>2. \A a, b \in Values : F[a][b] = Between(a, b)
  OBVIOUS
<1>3. EvaluateCall("RANDBETWEEN", <<o, p>>)
        = UNION {IF Error \in {a, b} THEN {Error} ELSE Between(a, b) : a \in o, b \in p}
  BY DEF EvaluateCall
<1>4. EvaluateCall("RANDBETWEEN", <<o, p>>) = AnyOf(F, o, p)
  <2> DEFINE S == {IF Error \in {a, b} THEN {Error} ELSE Between(a, b) : a \in o, b \in p}
             T == {IF Error \in {a, b} THEN {Error} ELSE F[a][b] : a \in o, b \in p}
  <2>1. \A a \in o, b \in p : (IF Error \in {a, b} THEN {Error} ELSE F[a][b])
                              = IF Error \in {a, b} THEN {Error} ELSE Between(a, b)
    BY <1>1, <1>2 DEF Outcomes
  <2> HIDE DEF F
  <2>2. S = T
    BY <2>1
  <2>3. EvaluateCall("RANDBETWEEN", <<o, p>>) = UNION S
    BY <1>3
  <2>4. AnyOf(F, o, p) = UNION T
    BY DEF AnyOf
  <2> HIDE DEF S, T
  <2> QED
    BY <2>2, <2>3, <2>4
<1>5. Gives(F)
  BY <1>2, BetweenIs DEF Gives
<1>6. KnownOf(F, k, r, q)
  BY <1>2, BetweenIs DEF KnownOf
<1>7. JudgeUnknown("RANDBETWEEN", <<r, q>>) = Result(FiniteClasses) /\ JudgeConstants("RANDBETWEEN", <<r, q>>) = k
  BY DEF JudgeUnknown, JudgeConstants
<1>8. PairJudged(j, k, FiniteClasses, r, q)
  BY <1>7, JudgesTwo DEF PairJudged
<1>9. PairKeepsTo(F, FiniteClasses, r, q)
  <2>1. \A v \in Finite : ClassOf(v) \in FiniteClasses
    BY TwoIsFinite, ClassIs
  <2> QED
    BY <1>2, <2>1, BetweenIs DEF PairKeepsTo
<1>10. firm \in BOOLEAN
  BY DEF Misjudged
<1>11. FiniteClasses \in SUBSET Classes
  BY DEF Classes
<1> HIDE DEF F, k, firm, j
<1>12. Follows(AnyOf(F, o, p), j, right /\ firm)
  BY <1>5, <1>6, <1>8, <1>9, <1>10, <1>11, PairFollows
<1> QED
  BY <1>4, <1>12 DEF firm, j

-----------------------------------------------------------------------------
\* What the check says of a formula is right whatever the variable is.
Sound(f, right) == \A x \in Finite : Follows(f.outcomes[x], f.verdict, right)

FormulaInv == mistaken \in BOOLEAN /\ Sound(formula, ~mistaken)

LEMMA LessIsSound ==
  ASSUME NEW f, NEW right \in BOOLEAN, NEW less \in BOOLEAN, Sound(f, right), less => right
  PROVE  Sound(f, less)
BY DEF Sound, Follows

LEMMA NumberIsSound ==
  ASSUME NEW n \in Values
  PROVE  Sound(Number(n), TRUE)
<1>1. \A x \in Finite : Number(n).outcomes[x] = {n}
  BY DEF Number
<1>2. Number(n).verdict = ExactResult(n)
  BY DEF Number
<1>3. Follows({n}, ExactResult(n), TRUE)
  BY ExactTells DEF Follows
<1> QED
  BY <1>1, <1>2, <1>3 DEF Sound

LEMMA VariableIsSound == Sound(Variable, TRUE)
<1>1. \A x \in Finite : Variable.outcomes[x] = {x}
  BY DEF Variable
<1>2. Variable.verdict = Result(FiniteClasses)
  BY DEF Variable
<1>3. ASSUME NEW x \in Finite PROVE Follows({x}, Result(FiniteClasses), TRUE)
  <2>1. {x} \in SUBSET Outcomes /\ {x} # {} /\ FiniteClasses \in SUBSET Classes
    BY TwoIsFinite DEF Outcomes, Classes
  <2>2. \A v \in {x} : ClassOf(v) \in FiniteClasses
    BY TwoIsFinite, ClassIs
  <2> QED
    BY <2>1, <2>2, ResultTells DEF Follows
<1> QED
  BY <1>1, <1>2, <1>3 DEF Sound

LEMMA NegationIsSound ==
  ASSUME NEW f, NEW right \in BOOLEAN, Sound(f, right)
  PROVE  Sound(Negation(f), right)
<1>1. \A x \in Finite : Negation(f).outcomes[x] = {IF a = Error THEN Error ELSE Minus(a) : a \in f.outcomes[x]}
  BY DEF Negation
<1>2. Negation(f).verdict = JudgeUnary(f.verdict)
  BY DEF Negation
<1>3. ASSUME NEW x \in Finite PROVE Follows(Negation(f).outcomes[x], Negation(f).verdict, right)
  <2>1. Follows(f.outcomes[x], f.verdict, right)
    BY DEF Sound
  <2>2. Follows({IF a = Error THEN Error ELSE Minus(a) : a \in f.outcomes[x]}, JudgeUnary(f.verdict), right)
    BY <2>1, NegationFollows
  <2> QED
    BY <1>1, <1>2, <2>2
<1> QED
  BY <1>3 DEF Sound

LEMMA BinaryIsSound ==
  ASSUME NEW f, NEW g, NEW op \in Operators, NEW right \in BOOLEAN, Sound(f, right), Sound(g, right)
  PROVE  Sound(Binary(op, f, g), right)
<1>1. \A x \in Finite : Binary(op, f, g).outcomes[x] = EvaluateBinary(op, f.outcomes[x], g.outcomes[x])
  BY DEF Binary
<1>2. Binary(op, f, g).verdict = JudgeBinary(op, f.verdict, g.verdict)
  BY DEF Binary
<1>3. ASSUME NEW x \in Finite PROVE Follows(Binary(op, f, g).outcomes[x], Binary(op, f, g).verdict, right)
  <2>1. Follows(f.outcomes[x], f.verdict, right) /\ Follows(g.outcomes[x], g.verdict, right)
    BY DEF Sound
  <2>2. Follows(EvaluateBinary(op, f.outcomes[x], g.outcomes[x]), JudgeBinary(op, f.verdict, g.verdict), right)
    BY <2>1, BinaryFollows
  <2> QED
    BY <1>1, <1>2, <2>2
<1> QED
  BY <1>3 DEF Sound

LEMMA SmallIsSound ==
  ASSUME NEW g \in Small, NEW right \in BOOLEAN
  PROVE  Sound(g, right)
<1>1. 0 \in Values /\ 1 \in Values /\ Largest \in Values
  BY ValuesAre
<1>2. Sound(Number(0), TRUE) /\ Sound(Number(1), TRUE) /\ Sound(Number(Largest), TRUE) /\ Sound(Variable, TRUE)
  BY <1>1, NumberIsSound, VariableIsSound
<1>3. Sound(Binary("+", Number(Largest), Number(Largest)), TRUE)
  BY <1>2, BinaryIsSound DEF Operators
<1>4. Sound(g, TRUE)
  BY <1>2, <1>3 DEF Small
<1> QED
  BY <1>4, LessIsSound

\* A call takes what is sound to what is sound, as far as it is not misjudged.
LEMMA OneCalled ==
  ASSUME NEW f, NEW name \in {"RANDOMCHOICE", "ROUND", "ABS", "FLOOR"},
         mistaken \in BOOLEAN, Sound(f, ~mistaken), Calls(name, <<f>>)
  PROVE  FormulaInv'
<1> DEFINE wrong == Misjudged(name, <<f.verdict>>)
<1>1. \A x \in Finite : Call(name, <<f>>).outcomes[x] = EvaluateCall(name, <<f.outcomes[x]>>)
  <2> DEFINE args == <<f>>
  <2>1. \A x \in Finite : [i \in DOMAIN args |-> args[i].outcomes[x]] = <<f.outcomes[x]>>
    OBVIOUS
  <2>2. Call(name, args).outcomes =
          [x \in Finite |-> EvaluateCall(name, [i \in DOMAIN args |-> args[i].outcomes[x]])]
    BY DEF Call
  <2> QED
    BY <2>1, <2>2
<1>2. Call(name, <<f>>).verdict = JudgeCall(name, <<f.verdict>>)
  <2> DEFINE args == <<f>>
  <2>1. [i \in DOMAIN args |-> args[i].verdict] = <<f.verdict>>
    OBVIOUS
  <2>2. Call(name, args).verdict = JudgeCall(name, [i \in DOMAIN args |-> args[i].verdict])
    BY DEF Call
  <2> QED
    BY <2>1, <2>2
<1>3. formula' = Call(name, <<f>>) /\ mistaken' = (mistaken \/ wrong)
  <2> DEFINE args == <<f>>
  <2>1. [i \in DOMAIN args |-> args[i].verdict] = <<f.verdict>>
    OBVIOUS
  <2>2. formula' = Call(name, args)
        /\ mistaken' = (mistaken \/ Misjudged(name, [i \in DOMAIN args |-> args[i].verdict]))
    BY DEF Calls
  <2> QED
    BY <2>1, <2>2
<1>4. wrong \in BOOLEAN
  BY DEF Misjudged
<1>5. ASSUME NEW x \in Finite
      PROVE  Follows(EvaluateCall(name, <<f.outcomes[x]>>), JudgeCall(name, <<f.verdict>>), ~mistaken /\ ~wrong)
  <2>1. Follows(f.outcomes[x], f.verdict, ~mistaken)
    BY DEF Sound
  <2>2. CASE name = "RANDOMCHOICE"
    <3>1. Follows(EvaluateCall(name, <<f.outcomes[x]>>), JudgeCall(name, <<f.verdict>>), ~mistaken)
      BY <2>1, <2>2, ChoiceFollows
    <3> QED
      BY <3>1 DEF Follows
  <2>3. CASE name = "ROUND"
    BY <2>1, <2>3, RoundOneFollows
  <2>4. CASE name = "ABS"
    BY <2>1, <2>4, AbsFollows
  <2>5. CASE name = "FLOOR"
    BY <2>1, <2>5, FloorFollows
  <2> QED
    BY <2>2, <2>3, <2>4, <2>5
<1> HIDE DEF wrong
<1>6. mistaken' \in BOOLEAN /\ (~mistaken' <=> ~mistaken /\ ~wrong)
  BY <1>3, <1>4
<1>7. \A x \in Finite : Follows(formula'.outcomes[x], formula'.verdict, ~mistaken /\ ~wrong)
  BY <1>1, <1>2, <1>3, <1>5
<1>8. \A x \in Finite : Follows(formula'.outcomes[x], formula'.verdict, ~mistaken')
  BY <1>6, <1>7 DEF Follows
<1>9. Finite' = Finite
  BY DEF Finite
<1> QED
  BY <1>6, <1>8 DEF FormulaInv, Sound

LEMMA TwoCalled ==
  ASSUME NEW f, NEW g, NEW name \in {"RANDOMCHOICE", "ROUND", "RANDBETWEEN", "MAX", "MIN"},
         mistaken \in BOOLEAN, Sound(f, ~mistaken), Sound(g, ~mistaken), Calls(name, <<f, g>>)
  PROVE  FormulaInv'
<1> DEFINE wrong == Misjudged(name, <<f.verdict, g.verdict>>)
<1>1. \A x \in Finite : Call(name, <<f, g>>).outcomes[x] = EvaluateCall(name, <<f.outcomes[x], g.outcomes[x]>>)
  <2> DEFINE args == <<f, g>>
  <2>1. \A x \in Finite : [i \in DOMAIN args |-> args[i].outcomes[x]] = <<f.outcomes[x], g.outcomes[x]>>
    OBVIOUS
  <2>2. Call(name, args).outcomes =
          [x \in Finite |-> EvaluateCall(name, [i \in DOMAIN args |-> args[i].outcomes[x]])]
    BY DEF Call
  <2> QED
    BY <2>1, <2>2
<1>2. Call(name, <<f, g>>).verdict = JudgeCall(name, <<f.verdict, g.verdict>>)
  <2> DEFINE args == <<f, g>>
  <2>1. [i \in DOMAIN args |-> args[i].verdict] = <<f.verdict, g.verdict>>
    OBVIOUS
  <2>2. Call(name, args).verdict = JudgeCall(name, [i \in DOMAIN args |-> args[i].verdict])
    BY DEF Call
  <2> QED
    BY <2>1, <2>2
<1>3. formula' = Call(name, <<f, g>>) /\ mistaken' = (mistaken \/ wrong)
  <2> DEFINE args == <<f, g>>
  <2>1. [i \in DOMAIN args |-> args[i].verdict] = <<f.verdict, g.verdict>>
    OBVIOUS
  <2>2. formula' = Call(name, args)
        /\ mistaken' = (mistaken \/ Misjudged(name, [i \in DOMAIN args |-> args[i].verdict]))
    BY DEF Calls
  <2> QED
    BY <2>1, <2>2
<1>4. wrong \in BOOLEAN
  BY DEF Misjudged
<1>5. ASSUME NEW x \in Finite
      PROVE  Follows(EvaluateCall(name, <<f.outcomes[x], g.outcomes[x]>>), JudgeCall(name, <<f.verdict, g.verdict>>), ~mistaken /\ ~wrong)
  <2>1. Follows(f.outcomes[x], f.verdict, ~mistaken) /\ Follows(g.outcomes[x], g.verdict, ~mistaken)
    BY DEF Sound
  <2>2. CASE name = "RANDOMCHOICE"
    <3>1. Follows(EvaluateCall(name, <<f.outcomes[x], g.outcomes[x]>>), JudgeCall(name, <<f.verdict, g.verdict>>),
                  ~mistaken)
      BY <2>1, <2>2, ChoiceFollows
    <3> QED
      BY <3>1 DEF Follows
  <2>3. CASE name = "ROUND"
    BY <2>1, <2>3, RoundTwoFollows
  <2>4. CASE name = "RANDBETWEEN"
    BY <2>1, <2>4, BetweenFollows
  <2>5. CASE name \in {"MAX", "MIN"}
    BY <2>1, <2>5, BestFollows
  <2> QED
    BY <2>2, <2>3, <2>4, <2>5
<1> HIDE DEF wrong
<1>6. mistaken' \in BOOLEAN /\ (~mistaken' <=> ~mistaken /\ ~wrong)
  BY <1>3, <1>4
<1>7. \A x \in Finite : Follows(formula'.outcomes[x], formula'.verdict, ~mistaken /\ ~wrong)
  BY <1>1, <1>2, <1>3, <1>5
<1>8. \A x \in Finite : Follows(formula'.outcomes[x], formula'.verdict, ~mistaken')
  BY <1>6, <1>7 DEF Follows
<1>9. Finite' = Finite
  BY DEF Finite
<1> QED
  BY <1>6, <1>8 DEF FormulaInv, Sound

LEMMA ThreeCalled ==
  ASSUME NEW f, NEW g, NEW h,
         mistaken \in BOOLEAN, Sound(f, ~mistaken), Sound(g, ~mistaken), Sound(h, ~mistaken),
         Calls("IF", <<f, g, h>>)
  PROVE  FormulaInv'
<1> DEFINE wrong == Misjudged("IF", <<f.verdict, g.verdict, h.verdict>>)
<1>1. \A x \in Finite : Call("IF", <<f, g, h>>).outcomes[x] = EvaluateCall("IF", <<f.outcomes[x], g.outcomes[x], h.outcomes[x]>>)
  <2> DEFINE args == <<f, g, h>>
  <2>1. \A x \in Finite : [i \in DOMAIN args |-> args[i].outcomes[x]] = <<f.outcomes[x], g.outcomes[x], h.outcomes[x]>>
    OBVIOUS
  <2>2. Call("IF", args).outcomes =
          [x \in Finite |-> EvaluateCall("IF", [i \in DOMAIN args |-> args[i].outcomes[x]])]
    BY DEF Call
  <2> QED
    BY <2>1, <2>2
<1>2. Call("IF", <<f, g, h>>).verdict = JudgeCall("IF", <<f.verdict, g.verdict, h.verdict>>)
  <2> DEFINE args == <<f, g, h>>
  <2>1. [i \in DOMAIN args |-> args[i].verdict] = <<f.verdict, g.verdict, h.verdict>>
    OBVIOUS
  <2>2. Call("IF", args).verdict = JudgeCall("IF", [i \in DOMAIN args |-> args[i].verdict])
    BY DEF Call
  <2> QED
    BY <2>1, <2>2
<1>3. formula' = Call("IF", <<f, g, h>>) /\ mistaken' = (mistaken \/ wrong)
  <2> DEFINE args == <<f, g, h>>
  <2>1. [i \in DOMAIN args |-> args[i].verdict] = <<f.verdict, g.verdict, h.verdict>>
    OBVIOUS
  <2>2. formula' = Call("IF", args)
        /\ mistaken' = (mistaken \/ Misjudged("IF", [i \in DOMAIN args |-> args[i].verdict]))
    BY DEF Calls
  <2> QED
    BY <2>1, <2>2
<1>4. wrong \in BOOLEAN
  BY DEF Misjudged
<1>5. ASSUME NEW x \in Finite
      PROVE  Follows(EvaluateCall("IF", <<f.outcomes[x], g.outcomes[x], h.outcomes[x]>>), JudgeCall("IF", <<f.verdict, g.verdict, h.verdict>>), ~mistaken /\ ~wrong)
  <2>1. /\ Follows(f.outcomes[x], f.verdict, ~mistaken) /\ Follows(g.outcomes[x], g.verdict, ~mistaken)
        /\ Follows(h.outcomes[x], h.verdict, ~mistaken)
    BY DEF Sound
  <2>2. Follows(EvaluateCall("IF", <<f.outcomes[x], g.outcomes[x], h.outcomes[x]>>),
                JudgeCall("IF", <<f.verdict, g.verdict, h.verdict>>), ~mistaken)
    BY <2>1, IfFollows
  <2> QED
    BY <2>2 DEF Follows
<1> HIDE DEF wrong
<1>6. mistaken' \in BOOLEAN /\ (~mistaken' <=> ~mistaken /\ ~wrong)
  BY <1>3, <1>4
<1>7. \A x \in Finite : Follows(formula'.outcomes[x], formula'.verdict, ~mistaken /\ ~wrong)
  BY <1>1, <1>2, <1>3, <1>5
<1>8. \A x \in Finite : Follows(formula'.outcomes[x], formula'.verdict, ~mistaken')
  BY <1>6, <1>7 DEF Follows
<1>9. Finite' = Finite
  BY DEF Finite
<1> QED
  BY <1>6, <1>8 DEF FormulaInv, Sound

LEMMA FormulaBegins == FormulaInit => FormulaInv
<1> SUFFICES ASSUME FormulaInit PROVE FormulaInv
  OBVIOUS
<1>1. mistaken = FALSE
  BY DEF FormulaInit
<1>2. CASE formula \in Small
  BY <1>1, <1>2, SmallIsSound DEF FormulaInv
<1>3. CASE formula = Call("RAND", <<>>)
  <2>1. \A x \in Finite : formula.outcomes[x] = EvaluateCall("RAND", <<>>)
    <3> DEFINE args == <<>>
    <3>1. \A x \in Finite : [i \in DOMAIN args |-> args[i].outcomes[x]] = <<>>
      OBVIOUS
    <3>2. Call("RAND", args).outcomes =
            [x \in Finite |-> EvaluateCall("RAND", [i \in DOMAIN args |-> args[i].outcomes[x]])]
      BY DEF Call
    <3> QED
      BY <1>3, <3>1, <3>2
  <2>2. formula.verdict = JudgeCall("RAND", <<>>)
    <3> DEFINE args == <<>>
    <3>1. [i \in DOMAIN args |-> args[i].verdict] = <<>>
      OBVIOUS
    <3>2. Call("RAND", args).verdict = JudgeCall("RAND", [i \in DOMAIN args |-> args[i].verdict])
      BY DEF Call
    <3> QED
      BY <1>3, <3>1, <3>2
  <2>3. Sound(formula, TRUE)
    BY <2>1, <2>2, RandFollows DEF Sound
  <2> QED
    BY <1>1, <2>3, LessIsSound DEF FormulaInv
<1> QED
  BY <1>2, <1>3 DEF FormulaInit

LEMMA GrownIsSound ==
  ASSUME FormulaInv, NEW f, Grows(f), Sound(f, ~mistaken)
  PROVE  FormulaInv'
<1>1. formula' = f /\ mistaken' = mistaken
  BY DEF Grows
<1>2. \A x \in Finite : Follows(formula'.outcomes[x], formula'.verdict, ~mistaken')
  BY <1>1 DEF Sound
<1>3. Finite' = Finite
  BY DEF Finite
<1> QED
  BY <1>1, <1>2, <1>3 DEF FormulaInv, Sound

LEMMA FormulaKept == FormulaInv /\ [FormulaNext]_formulaVars => FormulaInv'
<1> SUFFICES ASSUME FormulaInv, [FormulaNext]_formulaVars PROVE FormulaInv'
  OBVIOUS
<1>1. mistaken \in BOOLEAN /\ Sound(formula, ~mistaken)
  BY DEF FormulaInv
<1>2. \A g \in Small : Sound(g, ~mistaken)
  BY <1>1, SmallIsSound
<1>3. CASE Operate
  <2>1. CASE Grows(Negation(formula))
    BY <1>1, <2>1, NegationIsSound, GrownIsSound
  <2>2. CASE \E op \in Operators, g \in Small : Grows(Binary(op, formula, g)) \/ Grows(Binary(op, g, formula))
    <3>1. PICK op \in Operators, g \in Small : Grows(Binary(op, formula, g)) \/ Grows(Binary(op, g, formula))
      BY <2>2
    <3>2. Sound(Binary(op, formula, g), ~mistaken) /\ Sound(Binary(op, g, formula), ~mistaken)
      BY <1>1, <1>2, BinaryIsSound
    <3> QED
      BY <3>1, <3>2, GrownIsSound
  <2> QED
    BY <1>3, <2>1, <2>2 DEF Operate
<1>4. CASE Apply
  <2>1. CASE \E name \in {"RANDOMCHOICE", "ROUND", "ABS", "FLOOR"} : Calls(name, <<formula>>)
    BY <1>1, <2>1, OneCalled
  <2>2. CASE \E name \in {"RANDOMCHOICE", "ROUND", "RANDBETWEEN"}, g \in Small :
               Calls(name, <<formula, g>>) \/ Calls(name, <<g, formula>>)
    <3>1. PICK name \in {"RANDOMCHOICE", "ROUND", "RANDBETWEEN"}, g \in Small :
            Calls(name, <<formula, g>>) \/ Calls(name, <<g, formula>>)
      BY <2>2
    <3> QED
      BY <1>1, <1>2, <3>1, TwoCalled
  <2>3. CASE \E g \in Small, h \in Small :
               Calls("IF", <<formula, g, h>>) \/ Calls("IF", <<g, formula, h>>) \/ Calls("IF", <<g, h, formula>>)
    <3>1. PICK g \in Small, h \in Small :
            Calls("IF", <<formula, g, h>>) \/ Calls("IF", <<g, formula, h>>) \/ Calls("IF", <<g, h, formula>>)
      BY <2>3
    <3> QED
      BY <1>1, <1>2, <3>1, ThreeCalled
  <2> QED
    BY <1>4, <2>1, <2>2, <2>3 DEF Apply
<1>5. CASE Compete
  <2>1. PICK name \in {"MAX", "MIN"}, g \in Small : Calls(name, <<formula, g>>)
    BY <1>5 DEF Compete
  <2> QED
    BY <1>1, <1>2, <2>1, TwoCalled
<1>6. CASE UNCHANGED formulaVars
  <2>1. formula' = formula /\ mistaken' = mistaken
    BY <1>6 DEF formulaVars
  <2> QED
    BY <1>1, <2>1 DEF FormulaInv, Sound, Finite
<1> QED
  BY <1>3, <1>4, <1>5, <1>6 DEF FormulaNext

LEMMA SoundFormulasFail == FormulaInv => RefusedFormulasFail
<1> SUFFICES ASSUME FormulaInv, NEW x \in Finite
             PROVE  /\ formula.verdict.exact => formula.outcomes[x] = {formula.verdict.value}
                    /\ ~mistaken /\ GivesNothing(formula) => formula.outcomes[x] \cap Finite = {}
  BY DEF RefusedFormulasFail
<1> DEFINE o == formula.outcomes[x]
           r == formula.verdict
<1>1. Tells(o, r) /\ (~mistaken => Covers(o, r)) /\ o \subseteq Outcomes
  BY DEF FormulaInv, Sound, Follows, Tells
<1>2. r.exact => o = {r.value}
  BY <1>1 DEF Tells
<1>3. ASSUME ~mistaken, GivesNothing(formula), NEW v \in o PROVE v \notin Finite
  <2>1. CASE r.fails
    BY <1>1, <1>3, <2>1, TwoIsFinite DEF Covers
  <2>2. CASE ~r.fails
    <3>1. r.classes \cap FiniteClasses = {}
      BY <1>3, <2>2 DEF GivesNothing
    <3>2. v = Error \/ ClassOf(v) \in r.classes
      BY <1>1, <1>3, <2>2 DEF Covers
    <3>3. v \in Finite => v \in Values /\ v # Error /\ ClassOf(v) \in FiniteClasses
      BY TwoIsFinite, ClassIs
    <3> QED
      BY <3>1, <3>2, <3>3
  <2> QED
    BY <2>1, <2>2
<1> QED
  BY <1>2, <1>3

(* The check at saving time refuses no formula that could give a finite number, *)
(* and takes none for a constant that gives something else, whatever operations *)
(* it is made of, unless the check misjudges one of its calls.                  *)
THEOREM RefusalsAreJustified == FormulaSpec => []RefusedFormulasFail
<1>1. FormulaInit => FormulaInv
  BY FormulaBegins
<1>2. FormulaInv /\ [FormulaNext]_formulaVars => FormulaInv'
  BY FormulaKept
<1>3. FormulaInv => RefusedFormulasFail
  BY SoundFormulasFail
<1> QED
  BY <1>1, <1>2, <1>3, PTL DEF FormulaSpec
==============================================================================
