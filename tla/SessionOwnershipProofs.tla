----------------------- MODULE SessionOwnershipProofs -----------------------
(***************************************************************************)
(* Proofs about SessionOwnership: its invariants and action properties for *)
(* every set of accounts, processes and sessions and every largest epoch.  *)
(*                                                                         *)
(* The argument rests on two facts: the epoch of an ownership row only     *)
(* grows and no issued fence is ahead of it (FencesBehindRow), and the     *)
(* guard row of an account is its open session (GuardNamesTheOpenSession). *)
(***************************************************************************)
EXTENDS SessionOwnership, TLAPS

-----------------------------------------------------------------------------
(* Facts about the vocabulary. *)

LEMMA ConstantFacts ==
  /\ 1 \in Epochs
  /\ 0 \in 0 .. MaxEvents
  /\ LegacyToken \in AllTokens
  /\ \A e \in Epochs : e \in Nat /\ e # 0
  /\ \A e \in Epochs : e < MaxEpoch => e + 1 \in Epochs
BY OwnershipAssumption DEF OwnershipAssumption, Epochs, AllTokens

LEMMA FenceType ==
  ASSUME NEW a \in Accounts, NEW t \in AllTokens, NEW e \in Epochs
  PROVE  /\ Fence(a, t, e) \in Fences
         /\ Fence(a, t, e).account = a
         /\ Fence(a, t, e).token = t
         /\ Fence(a, t, e).epoch = e
BY DEF Fence, Fences

LEMMA IssuedType ==
  ASSUME TypeOK
  PROVE  /\ issued \subseteq Fences
         /\ \A f \in issued : f.account \in Accounts /\ f.token \in AllTokens /\ f.epoch \in Epochs
BY DEF TypeOK, Fences

\* An answer adds at most the answered fence.
LEMMA AnswerAddsOneFence ==
  ASSUME NEW f \in Fences, NEW answered \in BOOLEAN,
         Answer(f, answered), issued \subseteq Fences
  PROVE  /\ issued' \subseteq Fences
         /\ issued' \subseteq issued \cup {f}
BY DEF Answer

\* What each of the three kinds of claim answers.
LEMMA ClaimedFences ==
  ASSUME TypeOK, NEW a \in Accounts, NEW t \in Tokens
  PROVE  /\ Fence(a, t, 1) \in Fences
         /\ owner[a].live => Fence(a, t, owner[a].epoch) \in Fences
         /\ owner[a].epoch # 0 /\ owner[a].epoch < MaxEpoch
              => Fence(a, t, owner[a].epoch + 1) \in Fences
<1>1. owner[a] \in OwnerRows \cup {NoOwner}
  BY DEF TypeOK
<1>2. 1 \in Epochs
  BY ConstantFacts
<1>3. owner[a].live => owner[a].epoch \in Epochs
  BY <1>1 DEF OwnerRows, NoOwner, OwnerRow
<1>4. owner[a].epoch # 0 /\ owner[a].epoch < MaxEpoch => owner[a].epoch + 1 \in Epochs
  BY <1>1, ConstantFacts DEF OwnerRows, NoOwner, OwnerRow
<1> QED
  BY <1>2, <1>3, <1>4 DEF Fence, Fences, AllTokens

-----------------------------------------------------------------------------
(* Type correctness. *)

LEMMA InitTyped == Init => TypeOK
<1> SUFFICES ASSUME NEW legacy \in [Accounts -> SessionIds \cup {NoSession}],
                    enabled = [a \in Accounts |-> TRUE],
                    guard = legacy,
                    owner = [a \in Accounts |->
                      IF legacy[a] = NoSession THEN NoOwner
                                               ELSE OwnerRow(LegacyToken, 1, FALSE)],
                    opener = [s \in SessionIds |->
                      IF \E a \in Accounts : legacy[a] = s
                      THEN LegacyFence(CHOOSE a \in Accounts : legacy[a] = s)
                      ELSE NoFence],
                    endedBy = [s \in SessionIds |-> NotEnded],
                    events = [s \in SessionIds |-> 0],
                    issued = {}
             PROVE  TypeOK
  BY DEF Init
<1>1. 1 \in Epochs /\ LegacyToken \in AllTokens
  BY ConstantFacts
<1>2. ASSUME NEW s \in SessionIds, NEW b \in Accounts, legacy[b] = s
      PROVE  LegacyFence(CHOOSE a \in Accounts : legacy[a] = s) \in Fences
  <2>1. (CHOOSE a \in Accounts : legacy[a] = s) \in Accounts
    BY <1>2
  <2> QED BY <2>1, <1>1, FenceType DEF LegacyFence
<1>3. opener \in [SessionIds -> Fences \cup {NoFence}]
  BY <1>2
<1>4. owner \in [Accounts -> OwnerRows \cup {NoOwner}]
  BY <1>1 DEF OwnerRows, OwnerRow
<1>5. 0 \in 0 .. MaxEvents
  BY ConstantFacts
<1> QED BY <1>3, <1>4, <1>5 DEF TypeOK

LEMMA StepTyped ==
  ASSUME TypeOK, [Next]_vars
  PROVE  TypeOK'
<1>1. \A f \in issued : f \in Fences /\ f.account \in Accounts
  BY IssuedType
<1>2. ASSUME NEW a \in Accounts, NEW t \in Tokens, NEW answered \in BOOLEAN,
             ClaimOwnership(a, t, answered)
      PROVE  TypeOK'
  <2>1. issued' \subseteq Fences
    BY <1>2, ClaimedFences, AnswerAddsOneFence
    DEF ClaimOwnership, FirstClaim, ClaimAgain, Takeover, TypeOK
  <2>2. owner' \in [Accounts -> OwnerRows \cup {NoOwner}]
    <3>1. owner' = owner \/ \E e \in Epochs : owner' = [owner EXCEPT ![a] = OwnerRow(t, e, TRUE)]
      <4>1. CASE FirstClaim(a, t, answered)
        BY <4>1, ConstantFacts DEF FirstClaim
      <4>2. CASE ClaimAgain(a, t, answered)
        BY <4>2 DEF ClaimAgain
      <4>3. CASE Takeover(a, t, answered)
        <5>1. owner[a].epoch \in Epochs \cup {0}
          BY DEF TypeOK, OwnerRows, NoOwner, OwnerRow
        <5>2. owner[a].epoch + 1 \in Epochs
          BY <4>3, <5>1, ConstantFacts DEF Takeover
        <5> QED BY <4>3, <5>2 DEF Takeover
      <4> QED
        BY <1>2, <4>1, <4>2, <4>3 DEF ClaimOwnership
    <3>2. \A e \in Epochs : OwnerRow(t, e, TRUE) \in OwnerRows
      BY DEF OwnerRow, OwnerRows, AllTokens
    <3> QED BY <3>1, <3>2 DEF TypeOK
  <2> QED
    BY <1>2, <2>1, <2>2
    DEF ClaimOwnership, FirstClaim, ClaimAgain, Takeover, TypeOK
<1>3. ASSUME NEW f \in issued, RenewOwnership(f) \/ ReleaseOwnership(f)
      PROVE  TypeOK'
  <2>1. ASSUME NEW l \in BOOLEAN, owner[f.account].epoch = f.epoch
        PROVE  [owner[f.account] EXCEPT !.live = l] \in OwnerRows
    <3>1. owner[f.account] \in OwnerRows
      <4>1. f.epoch # 0
        BY IssuedType, ConstantFacts
      <4> QED BY <4>1, <1>1, <2>1 DEF TypeOK, NoOwner, OwnerRow
    <3> QED BY <3>1 DEF OwnerRows
  <2>2. PICK l \in BOOLEAN : owner' = [owner EXCEPT ![f.account] = [owner[f.account] EXCEPT !.live = l]]
    BY <1>3 DEF RenewOwnership, ReleaseOwnership
  <2>3. owner[f.account].epoch = f.epoch
    BY <1>3 DEF RenewOwnership, ReleaseOwnership, Holds
  <2>4. owner' \in [Accounts -> OwnerRows \cup {NoOwner}]
    BY <1>1, <2>1, <2>2, <2>3 DEF TypeOK
  <2>5. UNCHANGED <<enabled, guard, opener, endedBy, events, issued>>
    BY <1>3 DEF RenewOwnership, ReleaseOwnership
  <2> QED
    BY <2>4, <2>5 DEF TypeOK
<1>4. ASSUME NEW a \in Accounts, Expire(a)
      PROVE  TypeOK'
  <2>1. owner[a] \in OwnerRows
    BY <1>4 DEF Expire, TypeOK, NoOwner, OwnerRow
  <2>2. [owner[a] EXCEPT !.live = FALSE] \in OwnerRows
    BY <2>1 DEF OwnerRows
  <2> QED BY <1>4, <2>2 DEF Expire, TypeOK
<1>5. ASSUME NEW a \in Accounts, DisableAccount(a) \/ EnableAccount(a)
      PROVE  TypeOK'
  BY <1>5 DEF DisableAccount, EnableAccount, TypeOK
<1>6. ASSUME NEW f \in issued, NEW reconcile \in BOOLEAN, NEW s \in SessionIds,
             StartSession(f, reconcile, s)
      PROVE  TypeOK'
  <2>1. f \in Fences /\ f.account \in Accounts
    BY <1>1
  <2>2. endedBy' \in [SessionIds -> Fences \cup {NotEnded, Reconciled}]
    BY <1>6, <2>1 DEF StartSession, ReconcileOpen, TypeOK
  <2> QED BY <1>6, <2>1, <2>2 DEF StartSession, TypeOK
<1>7. ASSUME NEW f \in issued, NEW s \in SessionIds, EndSession(f, s) \/ CommitRuntimeEvent(f, s)
      PROVE  TypeOK'
  <2>1. CASE EndSession(f, s)
    BY <1>1, <2>1 DEF EndSession, TypeOK
  <2>2. CASE CommitRuntimeEvent(f, s)
    <3>1. events[s] + 1 \in 0 .. MaxEvents
      <4>1. events[s] \in 0 .. MaxEvents /\ events[s] < MaxEvents /\ MaxEvents \in Nat
        BY <2>2, OwnershipAssumption DEF OwnershipAssumption, CommitRuntimeEvent, TypeOK
      <4> QED BY <4>1
    <3> QED BY <2>2, <3>1 DEF CommitRuntimeEvent, TypeOK
  <2> QED BY <1>7, <2>1, <2>2
<1>8. ASSUME NEW s \in SessionIds, ReconcileSession(s)
      PROVE  TypeOK'
  BY <1>8 DEF ReconcileSession, TypeOK
<1>9. CASE UNCHANGED vars
  BY <1>9 DEF vars, TypeOK
<1> QED
  BY <1>2, <1>3, <1>4, <1>5, <1>6, <1>7, <1>8, <1>9 DEF Next

\* In every reachable state the rows and the answered claims have the types
\* TypeOK declares.
THEOREM TypeCorrect == Spec => []TypeOK
BY InitTyped, StepTyped, PTL DEF Spec
-----------------------------------------------------------------------------
(* Epochs.  A row's epoch never falls, and a step that changes the token   *)
(* raises the epoch.                                                       *)

LEMMA RowsOnlyAdvance ==
  ASSUME TypeOK, [Next]_vars, NEW a \in Accounts
  PROVE  /\ owner[a].epoch <= owner'[a].epoch
         /\ owner'[a].epoch = owner[a].epoch => owner'[a].token = owner[a].token
<1>1. owner[a].epoch \in Nat /\ owner[a] \in OwnerRows \cup {NoOwner}
  BY ConstantFacts DEF TypeOK, OwnerRows, NoOwner, OwnerRow
<1>2. CASE owner' = owner
  BY <1>1, <1>2
<1>3. ASSUME NEW b \in Accounts, NEW t \in Tokens, NEW answered \in BOOLEAN,
             ClaimOwnership(b, t, answered)
      PROVE  /\ owner[a].epoch <= owner'[a].epoch
             /\ owner'[a].epoch = owner[a].epoch => owner'[a].token = owner[a].token
  <2>1. CASE owner' = owner
    BY <1>1, <2>1
  <2>2. CASE b = a /\ (\/ owner[a].epoch = 0 /\ owner' = [owner EXCEPT ![a] = OwnerRow(t, 1, TRUE)]
                       \/ owner' = [owner EXCEPT ![a] = OwnerRow(t, owner[a].epoch + 1, TRUE)])
    BY <1>1, <2>2 DEF TypeOK, OwnerRow
  <2>3. CASE b # a
    <3>1. owner'[a] = owner[a]
      BY <1>3, <2>3 DEF ClaimOwnership, FirstClaim, ClaimAgain, Takeover, TypeOK
    <3> QED BY <1>1, <3>1
  <2> QED
    BY <1>3, <2>1, <2>2, <2>3 DEF ClaimOwnership, FirstClaim, ClaimAgain, Takeover
<1>4. ASSUME NEW b \in Accounts, NEW l \in BOOLEAN, owner' = [owner EXCEPT ![b].live = l]
      PROVE  /\ owner[a].epoch <= owner'[a].epoch
             /\ owner'[a].epoch = owner[a].epoch => owner'[a].token = owner[a].token
  <2>1. owner'[a].epoch = owner[a].epoch /\ owner'[a].token = owner[a].token
    BY <1>1, <1>4 DEF TypeOK, OwnerRows, NoOwner, OwnerRow
  <2> QED BY <1>1, <2>1
<1>5. ASSUME NEW f \in issued, RenewOwnership(f) \/ ReleaseOwnership(f)
      PROVE  \E b \in Accounts, l \in BOOLEAN : owner' = [owner EXCEPT ![b].live = l]
  BY <1>5, IssuedType DEF RenewOwnership, ReleaseOwnership
<1>6. ASSUME NEW b \in Accounts, Expire(b)
      PROVE  \E c \in Accounts, l \in BOOLEAN : owner' = [owner EXCEPT ![c].live = l]
  BY <1>6 DEF Expire
<1> QED
  BY <1>2, <1>3, <1>4, <1>5, <1>6
  DEF Next, vars, DisableAccount, EnableAccount, StartSession, EndSession,
      CommitRuntimeEvent, ReconcileSession

\* A step issues at most one fence, and that fence is the row it leaves.
LEMMA NewFencesNameTheRow ==
  ASSUME TypeOK, [Next]_vars, NEW f \in issued', f \notin issued
  PROVE  /\ f \in Fences
         /\ owner'[f.account].epoch = f.epoch
         /\ owner'[f.account].token = f.token
<1>1. PICK a \in Accounts, t \in Tokens, answered \in BOOLEAN : ClaimOwnership(a, t, answered)
  <2>1. issued' # issued
    OBVIOUS
  <2> QED
    BY <2>1
    DEF Next, vars, RenewOwnership, ReleaseOwnership, Expire, DisableAccount, EnableAccount,
        StartSession, EndSession, CommitRuntimeEvent, ReconcileSession
<1>2. owner[a] \in OwnerRows \cup {NoOwner} /\ issued \subseteq Fences
  BY DEF TypeOK
<1>3. t \in AllTokens
  BY DEF AllTokens
<1>4. CASE FirstClaim(a, t, answered)
  <2>1. f = Fence(a, t, 1)
    BY <1>2, <1>4, ClaimedFences, AnswerAddsOneFence DEF FirstClaim
  <2> QED
    BY <1>3, <1>4, <2>1, FenceType, ConstantFacts DEF FirstClaim, OwnerRow, TypeOK
<1>5. CASE ClaimAgain(a, t, answered)
  <2>1. f = Fence(a, t, owner[a].epoch)
    BY <1>2, <1>5, ClaimedFences, AnswerAddsOneFence DEF ClaimAgain
  <2>2. owner[a].epoch \in Epochs
    BY <1>2, <1>5 DEF ClaimAgain, OwnerRows, NoOwner, OwnerRow
  <2> QED
    BY <1>3, <1>5, <2>1, <2>2, FenceType DEF ClaimAgain
<1>6. CASE Takeover(a, t, answered)
  <2>1. f = Fence(a, t, owner[a].epoch + 1)
    BY <1>2, <1>6, ClaimedFences, AnswerAddsOneFence DEF Takeover
  <2>2. owner[a].epoch + 1 \in Epochs
    BY <1>2, <1>6, ConstantFacts DEF Takeover, OwnerRows, NoOwner, OwnerRow
  <2> QED
    BY <1>3, <1>6, <2>1, <2>2, FenceType DEF Takeover, OwnerRow, TypeOK
<1> QED BY <1>1, <1>4, <1>5, <1>6 DEF ClaimOwnership

LEMMA FencesBehindRowStep ==
  ASSUME TypeOK, FencesBehindRow, [Next]_vars
  PROVE  FencesBehindRow'
<1> SUFFICES ASSUME NEW f \in issued'
             PROVE  /\ f.epoch <= owner'[f.account].epoch
                    /\ f.epoch = owner'[f.account].epoch => f.token = owner'[f.account].token
  BY DEF FencesBehindRow
<1>1. CASE f \in issued
  <2>1. f.account \in Accounts /\ f.epoch \in Nat
    BY <1>1, IssuedType, ConstantFacts
  <2>2. /\ f.epoch <= owner[f.account].epoch
        /\ f.epoch = owner[f.account].epoch => f.token = owner[f.account].token
    BY <1>1 DEF FencesBehindRow
  <2>3. /\ owner[f.account].epoch <= owner'[f.account].epoch
        /\ owner'[f.account].epoch = owner[f.account].epoch =>
             owner'[f.account].token = owner[f.account].token
    BY <2>1, RowsOnlyAdvance
  <2>4. owner[f.account].epoch \in Nat /\ owner'[f.account].epoch \in Nat
    BY <2>1, StepTyped, ConstantFacts DEF TypeOK, OwnerRows, NoOwner, OwnerRow
  <2> QED BY <2>1, <2>2, <2>3, <2>4
<1>2. CASE f \notin issued
  <2>1. f.epoch \in Nat
    BY <1>2, NewFencesNameTheRow, ConstantFacts DEF Fences
  <2> QED BY <1>2, <2>1, NewFencesNameTheRow
<1> QED BY <1>1, <1>2

LEMMA OneHolderStep ==
  ASSUME TypeOK, FencesBehindRow, OneHolderPerEpoch, [Next]_vars
  PROVE  OneHolderPerEpoch'
<1> SUFFICES ASSUME NEW f \in issued', NEW g \in issued',
                    f.account = g.account, f.epoch = g.epoch
             PROVE  f.token = g.token
  BY DEF OneHolderPerEpoch
<1>1. CASE f \in issued /\ g \in issued
  BY <1>1 DEF OneHolderPerEpoch
<1>2. CASE f \notin issued
  BY <1>2, NewFencesNameTheRow, FencesBehindRowStep DEF FencesBehindRow
<1>3. CASE g \notin issued
  BY <1>3, NewFencesNameTheRow, FencesBehindRowStep DEF FencesBehindRow
<1> QED BY <1>1, <1>2, <1>3

EpochInv == TypeOK /\ FencesBehindRow /\ OneHolderPerEpoch

LEMMA EpochInvariant == Spec => []EpochInv
<1>1. Init => EpochInv
  BY InitTyped DEF EpochInv, Init, FencesBehindRow, OneHolderPerEpoch
<1>2. EpochInv /\ [Next]_vars => EpochInv'
  BY StepTyped, FencesBehindRowStep, OneHolderStep DEF EpochInv
<1> QED BY <1>1, <1>2, PTL DEF Spec

\* No process is ever answered a fence ahead of the account's row, and the
\* fence that carries the row's epoch belongs to the row's process.
THEOREM FencesNeverLead == Spec => []FencesBehindRow
BY EpochInvariant, PTL DEF EpochInv

\* An epoch of an account is given to one process only: two claims that race,
\* are retried or lose their reply never leave two processes with the same
\* fencing epoch.
THEOREM OneHolder == Spec => []OneHolderPerEpoch
BY EpochInvariant, PTL DEF EpochInv

\* No transaction gives a fence back.
LEMMA LostStays ==
  ASSUME EpochInv, [Next]_vars, NEW f \in issued, ~Holds(f)
  PROVE  ~Holds(f)'
<1>1. /\ f.account \in Accounts
      /\ f.epoch \in Nat /\ f.epoch # 0
      /\ f.epoch <= owner[f.account].epoch
      /\ owner[f.account].epoch \in Nat
      /\ owner[f.account] \in OwnerRows \cup {NoOwner}
  BY IssuedType, ConstantFacts
  DEF EpochInv, FencesBehindRow, TypeOK, OwnerRows, NoOwner, OwnerRow
<1>2. CASE owner'[f.account] = owner[f.account]
  BY <1>2 DEF Holds
<1>3. CASE ~owner'[f.account].live
  BY <1>3 DEF Holds
<1>4. ASSUME NEW a \in Accounts, NEW t \in Tokens, NEW answered \in BOOLEAN,
             ClaimOwnership(a, t, answered), owner'[f.account] # owner[f.account]
      PROVE  owner'[f.account].epoch # f.epoch
  <2> owner \in [Accounts -> OwnerRows \cup {NoOwner}]
    BY DEF EpochInv, TypeOK
  <2>1. a = f.account
    <3>1. owner' = owner \/ \E r : owner' = [owner EXCEPT ![a] = r]
      BY <1>4 DEF ClaimOwnership, FirstClaim, ClaimAgain, Takeover
    <3> QED BY <1>1, <1>4, <3>1
  <2>2. CASE FirstClaim(a, t, answered)
    BY <1>1, <2>1, <2>2 DEF FirstClaim
  <2>3. CASE ClaimAgain(a, t, answered)
    BY <1>4, <2>3 DEF ClaimAgain
  <2>4. CASE Takeover(a, t, answered)
    <3>1. owner'[a].epoch = owner[a].epoch + 1
      BY <2>1, <2>4 DEF Takeover, OwnerRow
    <3> QED BY <1>1, <2>1, <3>1
  <2> QED BY <1>4, <2>2, <2>3, <2>4 DEF ClaimOwnership
<1>5. ASSUME NEW g \in issued, RenewOwnership(g)
      PROVE  owner'[f.account] = owner[f.account]
  <2>1. g.account \in Accounts /\ owner[g.account] \in OwnerRows \cup {NoOwner}
    BY IssuedType DEF EpochInv, TypeOK
  <2>2. [owner[g.account] EXCEPT !.live = TRUE] = owner[g.account]
    BY <1>5, <2>1 DEF RenewOwnership, Holds, OwnerRows, NoOwner, OwnerRow
  <2> QED
    BY <1>1, <1>5, <2>1, <2>2 DEF RenewOwnership, EpochInv, TypeOK
<1>6. ASSUME NEW g \in issued, ReleaseOwnership(g)
      PROVE  owner'[f.account] = owner[f.account] \/ ~owner'[f.account].live
  BY <1>1, <1>6 DEF ReleaseOwnership, EpochInv, TypeOK, OwnerRows, NoOwner, OwnerRow
<1>7. ASSUME NEW a \in Accounts, Expire(a)
      PROVE  owner'[f.account] = owner[f.account] \/ ~owner'[f.account].live
  BY <1>1, <1>7 DEF Expire, EpochInv, TypeOK, OwnerRows, NoOwner, OwnerRow
<1>8. CASE owner' = owner
  BY <1>2, <1>8
<1>9. owner'[f.account].epoch # f.epoch => ~Holds(f)'
  BY DEF Holds
<1> QED
  BY <1>2, <1>3, <1>4, <1>5, <1>6, <1>7, <1>8, <1>9
  DEF Next, vars, DisableAccount, EnableAccount, StartSession, EndSession,
      CommitRuntimeEvent, ReconcileSession

\* A lost fence stays lost: no claim, renewal or release of anybody makes
\* validateOwnerFence accept a fence that it would have refused before.
THEOREM LostForEver == Spec => LostFencesStayLost
<1>1. EpochInv /\ [Next]_vars => [\A f \in issued : ~Holds(f) => ~Holds(f)']_vars
  BY LostStays
<1> QED BY <1>1, EpochInvariant, PTL DEF Spec, LostFencesStayLost

-----------------------------------------------------------------------------
(* Sessions.  The guard row of an account is its open session.             *)

\* A step that touches neither openers nor ends leaves the open sessions alone.
LEMMA OpenSessionsFrame ==
  ASSUME UNCHANGED <<opener, endedBy>>, NEW a \in Accounts
  PROVE  OpenSessions(a)' = OpenSessions(a)
BY DEF OpenSessions, Exists

\* A row is inserted with ended_at NULL: an id that is not used yet has no end.
UnusedIsNotEnded == \A s \in SessionIds : ~Exists(s) => endedBy[s] = NotEnded

SessionInv == TypeOK /\ UnusedIsNotEnded /\ GuardNamesTheOpenSession

LEMMA SessionInit == Init => SessionInv
<1> SUFFICES ASSUME Init PROVE SessionInv
  OBVIOUS
<1>1. PICK legacy \in [Accounts -> SessionIds \cup {NoSession}] :
        /\ \A a, b \in Accounts : legacy[a] = legacy[b] => a = b \/ legacy[a] = NoSession
        /\ guard = legacy
        /\ opener = [s \in SessionIds |->
                       IF \E a \in Accounts : legacy[a] = s
                       THEN LegacyFence(CHOOSE a \in Accounts : legacy[a] = s)
                       ELSE NoFence]
        /\ endedBy = [s \in SessionIds |-> NotEnded]
  BY DEF Init
<1>2. ASSUME NEW a \in Accounts, NEW s \in SessionIds
      PROVE  s \in OpenSessions(a) <=> legacy[a] = s
  <2>1. CASE \E b \in Accounts : legacy[b] = s
    <3>1. PICK b \in Accounts : b = (CHOOSE c \in Accounts : legacy[c] = s) /\ legacy[b] = s
      BY <2>1
    <3>2. opener[s] = LegacyFence(b)
      BY <1>1, <2>1, <3>1
    <3>3. LegacyFence(b) \in Fences /\ LegacyFence(b).account = b
      BY FenceType, ConstantFacts DEF LegacyFence
    <3>4. NoFence \notin Fences
      BY SentinelAssumption DEF SentinelAssumption
    <3>5. s \in OpenSessions(a) <=> a = b
      BY <1>1, <3>2, <3>3, <3>4 DEF OpenSessions, Exists
    <3>6. legacy[a] = s <=> a = b
      <4>1. legacy[b] # NoSession
        BY <3>1, OwnershipAssumption DEF OwnershipAssumption
      <4> QED BY <1>1, <3>1, <4>1
    <3> QED BY <3>5, <3>6
  <2>2. CASE ~ \E b \in Accounts : legacy[b] = s
    BY <1>1, <2>2 DEF OpenSessions, Exists
  <2> QED BY <2>1, <2>2
<1>3. GuardNamesTheOpenSession
  <2> SUFFICES ASSUME NEW a \in Accounts
               PROVE  OpenSessions(a) = IF guard[a] = NoSession THEN {} ELSE {guard[a]}
    BY DEF GuardNamesTheOpenSession
  <2>1. OpenSessions(a) \subseteq SessionIds
    BY DEF OpenSessions
  <2>2. guard[a] \in SessionIds \cup {NoSession} /\ NoSession \notin SessionIds
    BY <1>1, OwnershipAssumption DEF OwnershipAssumption
  <2>3. \A s \in SessionIds : s \in OpenSessions(a) <=> guard[a] = s
    BY <1>1, <1>2
  <2> QED BY <2>1, <2>2, <2>3
<1>4. UnusedIsNotEnded
  BY <1>1 DEF UnusedIsNotEnded
<1> QED BY <1>3, <1>4, InitTyped DEF SessionInv

\* The open session of the guard, read off the invariant.
LEMMA GuardedSession ==
  ASSUME SessionInv, NEW a \in Accounts, NEW s \in SessionIds
  PROVE  (Exists(s) /\ opener[s].account = a /\ endedBy[s] = NotEnded) <=> guard[a] = s
<1>1. s # NoSession
  BY OwnershipAssumption DEF OwnershipAssumption
<1>2. OpenSessions(a) = IF guard[a] = NoSession THEN {} ELSE {guard[a]}
  BY DEF SessionInv, GuardNamesTheOpenSession
<1>3. s \in OpenSessions(a) <=> guard[a] = s
  BY <1>1, <1>2
<1> QED BY <1>3 DEF OpenSessions

LEMMA SessionStep ==
  ASSUME SessionInv, [Next]_vars
  PROVE  SessionInv'
<1> TypeOK /\ TypeOK' /\ UnusedIsNotEnded
  BY StepTyped DEF SessionInv
<1> DEFINE Named == \A a \in Accounts, s \in SessionIds :
             (Exists(s) /\ opener[s].account = a /\ endedBy[s] = NotEnded) <=> guard[a] = s
<1>0. Named
  BY GuardedSession
<1>1. CASE UNCHANGED <<guard, opener, endedBy>>
  <2>1. UnusedIsNotEnded'
    BY <1>1 DEF UnusedIsNotEnded, Exists
  <2>2. GuardNamesTheOpenSession'
    <3> SUFFICES ASSUME NEW a \in Accounts
                 PROVE  OpenSessions(a)' = IF guard'[a] = NoSession THEN {} ELSE {guard'[a]}
      BY DEF GuardNamesTheOpenSession
    <3>1. OpenSessions(a)' = OpenSessions(a)
      BY <1>1, OpenSessionsFrame
    <3> QED BY <1>1, <3>1 DEF SessionInv, GuardNamesTheOpenSession
  <2> QED BY <2>1, <2>2 DEF SessionInv
<1>2. ASSUME NEW f \in issued, NEW reconcile \in BOOLEAN, NEW s \in SessionIds,
             StartSession(f, reconcile, s)
      PROVE  Named' /\ UnusedIsNotEnded'
  <2> DEFINE a == f.account
  <2>1. f \in Fences /\ a \in Accounts /\ f # NotEnded /\ f # NoFence
    BY IssuedType, SentinelAssumption DEF SentinelAssumption
  <2>2. endedBy[s] = NotEnded /\ opener[s] = NoFence
    BY <1>2 DEF UnusedIsNotEnded, StartSession, Exists
  <2>3. opener' = [opener EXCEPT ![s] = f] /\ guard' = [guard EXCEPT ![a] = s]
    BY <1>2 DEF StartSession
  <2>4. ASSUME NEW r \in SessionIds
        PROVE  endedBy'[r] = NotEnded <=> endedBy[r] = NotEnded /\ guard[a] # r
    <3>1. CASE reconcile
      BY <1>2, <2>1, <3>1, <1>0 DEF StartSession, ReconcileOpen, OpenSessions
    <3>2. CASE ~reconcile
      <4>1. guard[a] = NoSession /\ NoSession \notin SessionIds
        BY <1>2, <3>2, OwnershipAssumption DEF OwnershipAssumption, StartSession
      <4> QED BY <1>2, <3>2, <4>1 DEF StartSession
    <3> QED BY <3>1, <3>2
  <2>5. ASSUME NEW b \in Accounts, NEW r \in SessionIds
        PROVE  (opener'[r] # NoFence /\ opener'[r].account = b /\ endedBy'[r] = NotEnded)
                 <=> guard'[b] = r
    <3>1. CASE r = s
      <4>1. opener'[r] = f /\ endedBy'[r] = NotEnded
        BY <2>1, <2>2, <2>3, <2>4, <3>1, <1>0 DEF TypeOK, Exists
      <4>2. guard'[b] = r <=> b = a
        BY <2>1, <2>2, <2>3, <3>1, <1>0 DEF TypeOK, Exists
      <4> QED BY <2>1, <4>1, <4>2
    <3>2. CASE r # s
      <4>1. opener'[r] = opener[r]
        BY <2>3, <3>2
      <4>2. guard'[b] = r <=> b # a /\ guard[b] = r
        BY <2>1, <2>3, <3>2 DEF TypeOK
      <4>3. guard[a] = r /\ guard[b] = r => a = b
        BY <2>1, <1>0
      <4> QED BY <2>1, <2>4, <4>1, <4>2, <4>3, <1>0 DEF Exists
    <3> QED BY <3>1, <3>2
  <2>6. UnusedIsNotEnded'
    <3> SUFFICES ASSUME NEW r \in SessionIds, opener'[r] = NoFence
                 PROVE  endedBy'[r] = NotEnded
      BY DEF UnusedIsNotEnded, Exists
    <3>1. opener[r] = NoFence
      BY <2>1, <2>2, <2>3 DEF TypeOK
    <3> QED BY <2>1, <2>4, <3>1, <1>0 DEF UnusedIsNotEnded, Exists
  <2> QED BY <2>5, <2>6 DEF Exists
<1>3. ASSUME NEW f \in issued, NEW s \in SessionIds, EndSession(f, s)
      PROVE  Named' /\ UnusedIsNotEnded'
  <2>1. f \in Fences /\ f.account \in Accounts /\ f # NotEnded
    BY IssuedType, SentinelAssumption DEF SentinelAssumption
  <2>2. Exists(s) /\ opener[s].account = f.account
    BY <1>0, <1>3, <2>1 DEF EndSession
  <2>3. NoSession \notin SessionIds
    BY OwnershipAssumption DEF OwnershipAssumption
  <2> QED
    BY <1>0, <1>3, <2>1, <2>2, <2>3 DEF EndSession, Exists, UnusedIsNotEnded, TypeOK
<1>4. ASSUME NEW s \in SessionIds, ReconcileSession(s)
      PROVE  Named' /\ UnusedIsNotEnded'
  <2>1. opener[s] \in Fences /\ opener[s].account \in Accounts /\ Exists(s)
    BY <1>4, IssuedType, SentinelAssumption DEF SentinelAssumption, ReconcileSession, Exists
  <2>2. NoSession \notin SessionIds /\ Reconciled # NotEnded
    BY OwnershipAssumption, SentinelAssumption DEF OwnershipAssumption, SentinelAssumption
  <2> QED
    BY <1>0, <1>4, <2>1, <2>2 DEF ReconcileSession, Exists, UnusedIsNotEnded, TypeOK
<1>5. ASSUME Named', UnusedIsNotEnded'
      PROVE  SessionInv'
  <2> SUFFICES ASSUME NEW a \in Accounts
               PROVE  OpenSessions(a)' = IF guard'[a] = NoSession THEN {} ELSE {guard'[a]}
    BY <1>5 DEF SessionInv, GuardNamesTheOpenSession
  <2>1. guard'[a] \in SessionIds \cup {NoSession} /\ NoSession \notin SessionIds
    BY OwnershipAssumption DEF OwnershipAssumption, TypeOK
  <2>2. OpenSessions(a)' = {s \in SessionIds : guard'[a] = s}
    BY <1>5 DEF OpenSessions
  <2> QED BY <2>1, <2>2
<1>6. \/ UNCHANGED <<guard, opener, endedBy>>
      \/ \E f \in issued, reconcile \in BOOLEAN, s \in SessionIds : StartSession(f, reconcile, s)
      \/ \E f \in issued, s \in SessionIds : EndSession(f, s)
      \/ \E s \in SessionIds : ReconcileSession(s)
  BY DEF Next, vars, ClaimOwnership, FirstClaim, ClaimAgain, Takeover, RenewOwnership,
         ReleaseOwnership, Expire, DisableAccount, EnableAccount, CommitRuntimeEvent
<1> HIDE DEF Named
<1> QED BY <1>1, <1>2, <1>3, <1>4, <1>5, <1>6

LEMMA SessionInvariant == Spec => []SessionInv
BY SessionInit, SessionStep, PTL DEF Spec

\* The guard row of an account always names its one open session, from the
\* bootstrap rows of the migration on: StartSession never leaves a second open
\* session behind, and nothing leaves one that the guard does not name.
THEOREM GuardCorrect == Spec => []GuardNamesTheOpenSession
BY SessionInvariant, PTL DEF SessionInv

\* Nobody ends the session of a process that still holds the account, whatever
\* fences the others still carry and whatever they retry.
THEOREM HolderEnds == Spec => OnlyTheHolderEndsASession
<1>1. ASSUME SessionInv, [Next]_vars, NEW s \in SessionIds,
             Exists(s), endedBy[s] = NotEnded, endedBy'[s] # NotEnded
      PROVE  IF endedBy'[s] = Reconciled
             THEN ~Holds(opener[s])
             ELSE endedBy'[s].account = opener[s].account /\ Holds(endedBy'[s])
  <2>1. endedBy \in [SessionIds -> Fences \cup {NotEnded, Reconciled}]
    BY <1>1 DEF SessionInv, TypeOK
  <2>2. \A f \in issued : f \in Fences /\ f.account \in Accounts /\ f # Reconciled
    BY <1>1, IssuedType, SentinelAssumption DEF SentinelAssumption, SessionInv
  <2>3. ASSUME NEW f \in issued, NEW reconcile \in BOOLEAN, NEW r \in SessionIds,
               StartSession(f, reconcile, r)
        PROVE  endedBy'[s] = f /\ s \in OpenSessions(f.account) /\ Holds(f)
    BY <1>1, <2>3 DEF StartSession, ReconcileOpen
  <2>4. ASSUME NEW f \in issued, NEW r \in SessionIds, EndSession(f, r)
        PROVE  endedBy'[s] = f /\ opener[s].account = f.account /\ Holds(f)
    BY <1>1, <2>1, <2>2, <2>4, GuardedSession DEF EndSession
  <2>5. ASSUME NEW r \in SessionIds, ReconcileSession(r)
        PROVE  endedBy'[s] = Reconciled /\ ~Holds(opener[s])
    BY <1>1, <2>1, <2>5 DEF ReconcileSession
  <2>6. \/ endedBy' = endedBy
        \/ \E f \in issued, reconcile \in BOOLEAN, r \in SessionIds : StartSession(f, reconcile, r)
        \/ \E f \in issued, r \in SessionIds : EndSession(f, r)
        \/ \E r \in SessionIds : ReconcileSession(r)
    BY <1>1
    DEF Next, vars, ClaimOwnership, FirstClaim, ClaimAgain, Takeover, RenewOwnership,
        ReleaseOwnership, Expire, DisableAccount, EnableAccount, CommitRuntimeEvent
  <2> QED BY <1>1, <2>2, <2>3, <2>4, <2>5, <2>6 DEF OpenSessions
<1>2. SessionInv /\ [Next]_vars =>
        [\A s \in SessionIds :
           Exists(s) /\ endedBy[s] = NotEnded /\ endedBy'[s] # NotEnded =>
             IF endedBy'[s] = Reconciled
             THEN ~Holds(opener[s])
             ELSE endedBy'[s].account = opener[s].account /\ Holds(endedBy'[s])]_vars
  BY <1>1
<1> QED BY <1>2, SessionInvariant, PTL DEF Spec, OnlyTheHolderEndsASession

\* A late or fenced-off worker adds nothing to a session that was ended, and
\* its end is not rewritten: ReconcileSession and EndSession may be repeated.
THEOREM EndIsFinal == Spec => EndedSessionsAreFrozen
<1>1. ASSUME SessionInv, [Next]_vars, NEW s \in SessionIds, endedBy[s] # NotEnded
      PROVE  events'[s] = events[s] /\ endedBy'[s] = endedBy[s]
  <2>1. /\ endedBy \in [SessionIds -> Fences \cup {NotEnded, Reconciled}]
        /\ events \in [SessionIds -> 0 .. MaxEvents]
    BY <1>1 DEF SessionInv, TypeOK
  <2>2. ASSUME NEW f \in issued, NEW reconcile \in BOOLEAN, NEW r \in SessionIds,
               StartSession(f, reconcile, r)
        PROVE  events'[s] = events[s] /\ endedBy'[s] = endedBy[s]
    BY <1>1, <2>1, <2>2 DEF StartSession, ReconcileOpen, OpenSessions
  <2>3. ASSUME NEW f \in issued, NEW r \in SessionIds, EndSession(f, r) \/ CommitRuntimeEvent(f, r)
        PROVE  events'[s] = events[s] /\ endedBy'[s] = endedBy[s]
    BY <1>1, <2>1, <2>3 DEF EndSession, CommitRuntimeEvent
  <2>4. ASSUME NEW r \in SessionIds, ReconcileSession(r)
        PROVE  events'[s] = events[s] /\ endedBy'[s] = endedBy[s]
    BY <1>1, <2>1, <2>4 DEF ReconcileSession
  <2> QED
    BY <1>1, <2>2, <2>3, <2>4
    DEF Next, vars, ClaimOwnership, FirstClaim, ClaimAgain, Takeover, RenewOwnership,
        ReleaseOwnership, Expire, DisableAccount, EnableAccount
<1>2. SessionInv /\ [Next]_vars =>
        [\A s \in SessionIds :
           endedBy[s] # NotEnded => events'[s] = events[s] /\ endedBy'[s] = endedBy[s]]_vars
  BY <1>1
<1> QED BY <1>2, SessionInvariant, PTL DEF Spec, EndedSessionsAreFrozen

\* The tables name one open session and one process per epoch, for every
\* interleaving of claims, expiries, lost replies and reconciliations.
THEOREM Unambiguous == Spec => []OwnershipIsUnambiguous
<1>1. GuardNamesTheOpenSession /\ OneHolderPerEpoch => OwnershipIsUnambiguous
  BY DEF OwnershipIsUnambiguous
<1> QED BY <1>1, GuardCorrect, OneHolder, PTL

\* Lost fences stay lost, and the end of a session and its aggregate are final.
THEOREM Final == Spec => FencingIsFinal
BY LostForEver, HolderEnds, EndIsFinal DEF FencingIsFinal
=============================================================================
