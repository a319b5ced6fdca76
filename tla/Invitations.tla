------------------------------ MODULE Invitations ------------------------------
(***************************************************************************)
(* Who may invite, and what the console shows of it (invitation/service.go):*)
(* the quota of an account, which its generated invitations use up and an  *)
(* administrator adjusts, and the pages of the administrator's own         *)
(* invitations.  Redemption is Registration's.                             *)
(*                                                                         *)
(* A transaction that has locked the account's row does the rest at its    *)
(* COMMIT; the others wait for it.  The rows of a batch have their keys    *)
(* and their time before they can be seen.                                 *)
(***************************************************************************)
EXTENDS Integers, Sequences, SequencesExt, FiniteSetsExt

CONSTANTS
  Callers,        \* requests of Generate and AdjustQuota
  Batches,        \* requests of GenerateAdministratorBatch
  Quotas,         \* what an administrator sets
  Stamps,         \* values of the clock, which may be set back
  PageSize,
  MaxInvitations, \* bound of the rows
  MaxAdjustments, \* bound of AdjustQuota
  MaxBlocks       \* bound of the times the account is disabled

ASSUME InvitationsAssumption ==
  /\ Quotas \subseteq Nat /\ Stamps \subseteq Nat /\ PageSize \in Nat \ {0}
  /\ {MaxInvitations, MaxAdjustments, MaxBlocks} \subseteq Nat

VARIABLES
  quota,    \* invitation_quotas.remaining_quota (-1: no row)
  quotaLog, \* invitation_quota_events
  rows,     \* invitations: creator, created_at, rank of the status, and whether committed
  call,     \* each Generate or AdjustQuota
  batch,    \* each GenerateAdministratorBatch: its keys
  inviter,  \* the account: is it disabled, does its session stand
  pages,    \* a reader of ListAdministrator; history: the invitations it should list
  blocks    \* how often the account was disabled

invitationVars == <<quota, quotaLog, rows, call, batch, inviter, pages, blocks>>

NoCall == [at |-> "idle", read |-> 0, to |-> 0]
NoPages == [at |-> "idle", sort |-> "created_at", up |-> FALSE, cursor |-> <<>>, seen |-> <<>>,
            owed |-> {}]

\* Redeem has created the account and its row.
InvitationsInit ==
  /\ quota \in {-1, 0} /\ quotaLog = <<>> /\ rows = <<>>
  /\ call = [k \in Callers |-> NoCall]
  /\ batch = [b \in Batches |-> {}]
  /\ inviter = [disabled |-> FALSE, session |-> TRUE]
  /\ pages = NoPages /\ blocks = 0

-----------------------------------------------------------------------------
(***************************************************************************)
(* The quota                                                               *)
(***************************************************************************)
Remaining == IF quota = -1 THEN 0 ELSE quota
Adjusted == Cardinality({n \in DOMAIN quotaLog : ~quotaLog[n].generated})

\* Mutant: the quota is read without FOR UPDATE.
Unlocked == TRUE

\* The account's row, locked by a SELECT ... FOR UPDATE.
AccountIsFree == \A k \in Callers : call[k].at = "idle"

Leaves(k) == call' = [call EXCEPT ![k] = NoCall]

\* lockCurrentStreamer and validate: a session that stands, of an account in force; and
\* an account without a quota is refused.
LocksForGenerate(k) ==
  /\ call[k].at = "idle" /\ AccountIsFree
  /\ inviter = [disabled |-> FALSE, session |-> TRUE] /\ Remaining > 0
  /\ Len(rows) < MaxInvitations
  /\ call' = [call EXCEPT ![k] = [at |-> "generates", read |-> Remaining, to |-> Remaining - 1]]
  /\ UNCHANGED <<quota, quotaLog, rows, batch, inviter, pages, blocks>>

\* A quota that stays the same is refused.
LocksForAdjust(k) ==
  /\ call[k].at = "idle" /\ AccountIsFree /\ Adjusted < MaxAdjustments
  /\ \E q \in Quotas \ {Remaining} :
       call' = [call EXCEPT ![k] = [at |-> "adjusts", read |-> Remaining, to |-> q]]
  /\ UNCHANGED <<quota, quotaLog, rows, batch, inviter, pages, blocks>>

Logs(k) ==
  quotaLog' = Append(quotaLog, [delta |-> call[k].to - call[k].read, after |-> call[k].to,
                                generated |-> call[k].at = "generates"])

Row(creator, at, visible) == [by |-> creator, created |-> at, rank |-> 1, visible |-> visible]

\* COMMIT, whose reply may be lost: the invitation, the quota and its event.
CommitsCall(k) ==
  /\ call[k].at # "idle" /\ Leaves(k)
  /\ quota' = call[k].to /\ Logs(k)
  /\ \E at \in Stamps :
       rows' = IF call[k].at = "generates" THEN Append(rows, Row("account", at, TRUE)) ELSE rows
  /\ UNCHANGED <<batch, inviter, pages, blocks>>

\* A statement or the COMMIT fails.
RollsBackCall(k) ==
  /\ call[k].at # "idle" /\ Leaves(k)
  /\ UNCHANGED <<quota, quotaLog, rows, batch, inviter, pages, blocks>>

\* The administrator disables the account, whose sessions end, and enables it; it logs in.
Blocks ==
  /\ AccountIsFree /\ ~inviter.disabled /\ blocks < MaxBlocks
  /\ inviter' = [disabled |-> TRUE, session |-> FALSE] /\ blocks' = blocks + 1
  /\ UNCHANGED <<quota, quotaLog, rows, call, batch, pages>>

Unblocks ==
  /\ AccountIsFree /\ inviter.disabled
  /\ inviter' = [inviter EXCEPT !.disabled = FALSE]
  /\ UNCHANGED <<quota, quotaLog, rows, call, batch, pages, blocks>>

LogsIn ==
  /\ ~inviter.disabled /\ inviter' = [inviter EXCEPT !.session = TRUE]
  /\ UNCHANGED <<quota, quotaLog, rows, call, batch, pages, blocks>>

-----------------------------------------------------------------------------
(***************************************************************************)
(* The administrator's invitations                                         *)
(***************************************************************************)
\* A batch has one time; Generate by an administrator is a batch of one.
InsertsBatch(b) ==
  /\ batch[b] = {}
  /\ \E n \in 1..(MaxInvitations - Len(rows)), at \in Stamps :
       /\ rows' = rows \o [m \in 1..n |-> Row("administrator", at, FALSE)]
       /\ batch' = [batch EXCEPT ![b] = (Len(rows) + 1)..(Len(rows) + n)]
  /\ UNCHANGED <<quota, quotaLog, call, inviter, pages, blocks>>

CommitsBatch(b) ==
  /\ batch[b] # {}
  /\ rows' = [i \in DOMAIN rows |-> IF i \in batch[b] THEN [rows[i] EXCEPT !.visible = TRUE]
                                    ELSE rows[i]]
  /\ batch' = [batch EXCEPT ![b] = {}]
  /\ UNCHANGED <<quota, quotaLog, call, inviter, pages, blocks>>

\* RevokeAdministrator, Expire and Redeem: used, revoked, expired.
StatusChanges(i) ==
  /\ rows[i].visible /\ rows[i].rank = 1
  /\ \E rank \in 2..4 : rows' = [rows EXCEPT ![i].rank = rank]
  /\ pages' = [pages EXCEPT !.owed = IF pages.sort = "status" THEN @ \ {i} ELSE @]
  /\ UNCHANGED <<quota, quotaLog, call, batch, inviter, blocks>>

Listed == {i \in DOMAIN rows : rows[i].visible /\ rows[i].by = "administrator"}

\* What the page is sorted by, and the key of the row.
SortKey(i) == <<IF pages.sort = "created_at" THEN rows[i].created ELSE rows[i].rank, i>>

Beyond(x, y) == IF pages.up THEN x > y ELSE x < y

\* Mutant: the cursor does not tell rows of one time apart.
AfterTime(key, cursor) == Beyond(key[1], cursor[1])

AfterCursor(key, cursor) ==
  Beyond(key[1], cursor[1]) \/ (key[1] = cursor[1] /\ Beyond(key[2], cursor[2]))

OpensPages ==
  /\ pages.at = "idle"
  /\ \E sort \in {"created_at", "status"}, up \in BOOLEAN :
       pages' = [NoPages EXCEPT !.at = "reads", !.sort = sort, !.up = up, !.owed = Listed]
  /\ UNCHANGED <<quota, quotaLog, rows, call, batch, inviter, blocks>>

Ahead == {i \in Listed : pages.cursor = <<>> \/ AfterCursor(SortKey(i), pages.cursor)}

Precedes(i, j) ==
  Beyond(SortKey(j)[1], SortKey(i)[1]) \/ (SortKey(i)[1] = SortKey(j)[1] /\ Beyond(j, i))

\* ORDER BY and LIMIT: the first rows after the cursor, one more than a page to know
\* whether one follows; fewer only if there are no more.
Selections ==
  {s \in UNION {[1..n -> Ahead] : n \in 0..PageSize + 1} :
     /\ \A m, n \in DOMAIN s : m < n => Precedes(s[m], s[n])
     /\ \A i \in Ahead \ Range(s) : Len(s) > PageSize /\ Precedes(s[PageSize + 1], i)}

ReadsPage ==
  /\ pages.at = "reads"
  /\ \E s \in Selections :
       pages' = IF Len(s) > PageSize
                THEN [pages EXCEPT !.seen = @ \o Front(s), !.cursor = SortKey(s[PageSize])]
                ELSE [pages EXCEPT !.seen = @ \o s, !.at = "done"]
  /\ UNCHANGED <<quota, quotaLog, rows, call, batch, inviter, blocks>>

QuotaNext ==
  \/ \E k \in Callers :
       LocksForGenerate(k) \/ LocksForAdjust(k) \/ CommitsCall(k) \/ RollsBackCall(k)
  \/ Blocks \/ Unblocks \/ LogsIn

PagesNext ==
  \/ \E b \in Batches : InsertsBatch(b) \/ CommitsBatch(b)
  \/ \E i \in DOMAIN rows : StatusChanges(i)
  \/ OpensPages \/ ReadsPage

InvitationsNext == QuotaNext \/ PagesNext

InvitationsSpec == InvitationsInit /\ [][InvitationsNext]_invitationVars

-----------------------------------------------------------------------------
(***************************************************************************)
(* Properties                                                              *)
(***************************************************************************)
\* Every change of the quota is in its events, of which each continues the one before,
\* and every invitation of the account has used up one of it: requests that generate and
\* adjust at once neither lose a change nor issue an invitation for nothing.
QuotasAreAccounted ==
  /\ \A n \in DOMAIN quotaLog :
       quotaLog[n].after = quotaLog[n].delta + IF n = 1 THEN 0 ELSE quotaLog[n - 1].after
  /\ Remaining = IF quotaLog = <<>> THEN 0 ELSE Last(quotaLog).after
  /\ Cardinality({i \in DOMAIN rows : rows[i].by = "account"})
       = Cardinality({n \in DOMAIN quotaLog : quotaLog[n].generated})

\* A reader that follows the pages sees every invitation that was there when it began,
\* and whose place in the order stays, once: however many have the same time or status
\* and whatever is created, revoked or redeemed between two pages.
PagesListEachOnce ==
  /\ \A i \in pages.owed :
       /\ Cardinality({n \in DOMAIN pages.seen : pages.seen[n] = i}) <= 1
       /\ pages.at = "done" => i \in ToSet(pages.seen)
  /\ pages.sort = "created_at" => IsInjective(pages.seen)
=============================================================================
