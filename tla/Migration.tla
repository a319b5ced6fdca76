------------------------------ MODULE Migration ------------------------------
(***************************************************************************)
(* Migrations of an account's configuration: the rows of migration_jobs,   *)
(* the active version with its runtime state, and the transactions of the  *)
(* migration service on them, which lock the account's row first.  A page  *)
(* confirms a migration in three transactions; one that is confirmed while *)
(* a session is open stays pending until a process, about to open the next *)
(* session, applies it.  Gifts and edits go on meanwhile.                  *)
(***************************************************************************)
EXTENDS Naturals, Sequences, FiniteSets

CONSTANTS
  Packages,   \* files to import, by their hash
  Tabs,       \* requests of the account's owner that are under way at once
  Panels,     \* processes of the server
  Nothing,    \* no process, no session
  MaxJobs, MaxWrites  \* bounds: jobs; gifts and edits

ASSUME MigrationAssumption ==
  /\ Nothing \notin Panels
  /\ {MaxJobs, MaxWrites} \subseteq Nat

VARIABLES
  jobs,     \* migration_jobs, by id
  versions, \* account_config_versions: the definition of each number
  account,  \* account_active_config (0: no row) and account_runtime_state
  live,     \* the process whose session row is open
  holder,   \* the process whose fence is valid
  starter,  \* startTransitionAccount or MutateRoom, by process
  tab,      \* the requests
  writes    \* contents written so far, so that every write is a new one

migrationVars == <<jobs, versions, account, live, holder, starter, tab, writes>>

Unfinished == {"previewed", "pending"}
NoUndo == [version |-> 0, runtime |-> 0]
AtRest == [at |-> "idle", job |-> 0]

MigrationInit ==
  /\ jobs = <<>>
  /\ \/ versions = <<>> /\ account = [active |-> 0, revision |-> 0, runtime |-> 0]
     \/ versions = <<0>> /\ account = [active |-> 1, revision |-> 1, runtime |-> 0]
  /\ live = Nothing /\ holder = Nothing
  /\ starter = [p \in Panels |-> AtRest]
  /\ tab = [t \in Tabs |-> AtRest]
  /\ writes = 0

\* What the account shows: the definition and the runtime state in force.
Displayed == IF account.active = 0 THEN <<>> ELSE <<versions[account.active], account.runtime>>
Base == [version |-> account.active, revision |-> account.revision]

-----------------------------------------------------------------------------
(***************************************************************************)
(* Gifts and edits.                                                        *)
(***************************************************************************)
CountGift ==
  /\ live # Nothing /\ live = holder /\ account.active # 0 /\ writes < MaxWrites
  /\ writes' = writes + 1
  /\ account' = [account EXCEPT !.revision = @ + 1, !.runtime = writes']
  /\ UNCHANGED <<jobs, versions, live, holder, starter, tab>>

\* Activate, under the version and revision that are in force.
SaveConfiguration ==
  /\ writes < MaxWrites
  /\ writes' = writes + 1
  /\ versions' = Append(versions, writes')
  /\ account' = [active |-> Len(versions'), revision |-> account.revision + 1,
                 runtime |-> IF account.active = 0 THEN 0 ELSE account.runtime]
  /\ UNCHANGED <<jobs, live, holder, starter, tab>>

-----------------------------------------------------------------------------
(***************************************************************************)
(* Transactions of the service.                                            *)
(***************************************************************************)
\* A job that is not finished may be found overdue, a day after its preview, by any
\* transaction that looks at it, which then records that it has expired.
Expires(j) == jobs[j].status \in Unfinished /\ jobs' = [jobs EXCEPT ![j].status = "expired"]

\* An unfinished job of the same package is answered again, unless it is overdue.
Preview(p) ==
  LET same == {j \in DOMAIN jobs : jobs[j].package = p /\ jobs[j].status \in Unfinished} IN
  /\ Len(jobs) < MaxJobs
  /\ jobs' = Append([j \in DOMAIN jobs |-> IF j \in same THEN [jobs[j] EXCEPT !.status = "expired"] ELSE jobs[j]],
                    [package |-> p, status |-> "previewed", base |-> Base, seen |-> Displayed,
                     undo |-> NoUndo, applied |-> 0, replaced |-> <<>>])
  /\ UNCHANGED <<versions, account, live, holder, starter, tab, writes>>

\* Mutant of SameBase: the revision alone, which starts again after a rollback to no
\* configuration.
SameRevision(j) == jobs[j].base.revision = account.revision

SameBase(j) == jobs[j].base = Base

\* applyLockedMigration
Migrate(j) ==
  /\ versions' = Append(versions, jobs[j].package)
  /\ account' = [active |-> Len(versions'), revision |-> account.revision + 1, runtime |-> jobs[j].package]
  /\ jobs' = [jobs EXCEPT ![j].status = "applied", ![j].applied = Len(versions'),
                          ![j].undo = [version |-> account.active, runtime |-> account.runtime],
                          ![j].replaced = Displayed]

\* Mutant of Undoes: whatever is active.
UndoesAny(j) == account.active # 0

Undoes(j) == account.active # 0 /\ account.active = jobs[j].applied

\* Rollback of a migration that replaced nothing, or of one that replaced a version,
\* whose definition becomes a new version.
RestoreNothing(j) ==
  /\ jobs[j].undo.version = 0
  /\ account' = [active |-> 0, revision |-> 0, runtime |-> 0]
  /\ UNCHANGED versions

Restore(j) ==
  /\ jobs[j].undo.version # 0
  /\ versions' = Append(versions, versions[jobs[j].undo.version])
  /\ account' = [active |-> Len(versions'), revision |-> account.revision + 1, runtime |-> jobs[j].undo.runtime]

Cancel(j) ==
  /\ jobs[j].status \in Unfinished
  /\ Expires(j) \/ jobs' = [jobs EXCEPT ![j].status = "cancelled"]
  /\ UNCHANGED <<versions, account, live, holder, starter, tab, writes>>

\* Get, or a request that is answered so, of an overdue job.
LookAt(j) ==
  /\ Expires(j)
  /\ UNCHANGED <<versions, account, live, holder, starter, tab, writes>>

-----------------------------------------------------------------------------
(***************************************************************************)
(* A request: it looks at the job, consumes a proof, and does what it was  *)
(* sent for, each in a transaction of its own.                             *)
(***************************************************************************)
\* Seven days after the migration it is refused, as a request that is given up.
Rollbackable(j) == jobs[j].status = "applied" /\ Undoes(j) /\ live = Nothing

Looked(t, j, goal) ==
  /\ tab[t].at = "idle"
  /\ tab' = [tab EXCEPT ![t] = [at |-> goal, job |-> j]]
  /\ UNCHANGED <<jobs, versions, account, live, holder, starter, writes>>

PreauthorizeApply(t, j) == jobs[j].status = "previewed" /\ SameBase(j) /\ Looked(t, j, "apply")

PreauthorizeRollback(t, j) == Rollbackable(j) /\ Looked(t, j, "rollback")

\* ConsumeAccountProof: a challenge serves once; without one the request ends.
ConsumeProof(t) ==
  /\ tab[t].at \in {"apply", "rollback"}
  /\ tab' = [tab EXCEPT ![t].at = IF @ = "apply" THEN "applying" ELSE "rolling back"]
  /\ UNCHANGED <<jobs, versions, account, live, holder, starter, writes>>

\* The reply of each of these may be lost: the owner then sends the request again.
EndsRequest(t) == tab' = [tab EXCEPT ![t] = AtRest] /\ UNCHANGED <<live, holder, starter, writes>>

Apply(t) ==
  LET j == tab[t].job IN
  /\ tab[t].at = "applying"
  /\ \/ Expires(j) /\ UNCHANGED <<versions, account>>
     \/ /\ jobs[j].status = "previewed" /\ SameBase(j) /\ live # Nothing
        /\ jobs' = [jobs EXCEPT ![j].status = "pending"] /\ UNCHANGED <<versions, account>>
     \/ jobs[j].status = "previewed" /\ SameBase(j) /\ live = Nothing /\ Migrate(j)
     \/ (jobs[j].status # "previewed" \/ ~SameBase(j)) /\ UNCHANGED <<jobs, versions, account>>
  /\ EndsRequest(t)

Rollback(t) ==
  LET j == tab[t].job IN
  /\ tab[t].at = "rolling back"
  /\ IF Rollbackable(j)
     THEN /\ RestoreNothing(j) \/ Restore(j)
          /\ jobs' = [jobs EXCEPT ![j].status = "rolled_back"]
     ELSE UNCHANGED <<jobs, versions, account>>
  /\ EndsRequest(t)

\* The connection breaks, or the transaction fails.
GiveUp(t) ==
  /\ tab[t].at # "idle"
  /\ EndsRequest(t) /\ UNCHANGED <<jobs, versions, account>>

-----------------------------------------------------------------------------
(***************************************************************************)
(* A process on its way to a session (startTransitionAccount), or to       *)
(* another room (MutateRoom, which gives the claim back).                  *)
(***************************************************************************)
Step(p, next) == starter' = [starter EXCEPT ![p] = next] /\ UNCHANGED <<tab, writes>>

\* Another process claims when the fence has run out.
ClaimsOwner(p) ==
  /\ starter[p].at = "idle" /\ holder # p
  /\ holder' = p
  /\ Step(p, [AtRest EXCEPT !.at = "claimed"])
  /\ UNCHANGED <<jobs, versions, account, live>>

PendingJobs == {j \in DOMAIN jobs : jobs[j].status = "pending"}

\* PendingMigration reads without a lock.
FindPending(p) ==
  /\ starter[p].at = "claimed"
  /\ \/ PendingJobs = {} /\ Step(p, [at |-> "ready", job |-> 0])
     \/ \E j \in PendingJobs :
          (\A k \in PendingJobs : j <= k) /\ Step(p, [at |-> "found", job |-> j])
  /\ UNCHANGED <<jobs, versions, account, live, holder>>

Release(p) == holder' = IF holder = p THEN Nothing ELSE holder
Proceeds(p) == Step(p, [AtRest EXCEPT !.at = "ready"]) /\ UNCHANGED <<live, holder>>
GivesUp(p) == Step(p, AtRest) /\ Release(p) /\ UNCHANGED live

Applicable(j) == jobs[j].status = "pending" /\ SameBase(j)

\* ApplyPendingAfterSession: what is not pending or not of this base any more is a
\* conflict, and the process does not start.
ApplyPending(p) ==
  LET j == starter[p].job IN
  /\ starter[p].at = "found"
  /\ \/ holder = p /\ Expires(j) /\ GivesUp(p) /\ UNCHANGED <<versions, account>>
     \/ holder = p /\ Applicable(j) /\ live = Nothing /\ Migrate(j) /\ Proceeds(p)
     \/ /\ holder = p
        /\ \/ Applicable(j) /\ live # Nothing
           \/ jobs[j].status = "applied"
        /\ Proceeds(p) /\ UNCHANGED <<jobs, versions, account>>
     \/ /\ \/ holder # p
           \/ jobs[j].status # "applied" /\ ~Applicable(j)
        /\ GivesUp(p) /\ UNCHANGED <<jobs, versions, account>>

\* StartSession ends a session that another process has left open.
SessionStarts(p) ==
  /\ starter[p].at = "ready"
  /\ IF holder = p THEN live' = p /\ Step(p, [AtRest EXCEPT !.at = "running"]) /\ UNCHANGED holder
                   ELSE GivesUp(p)
  /\ UNCHANGED <<jobs, versions, account>>

GiveBack(p) ==
  /\ starter[p].at = "ready"
  /\ GivesUp(p) /\ UNCHANGED <<jobs, versions, account>>

SessionEnds(p) ==
  /\ starter[p].at = "running"
  /\ live' = IF live = p /\ holder = p THEN Nothing ELSE live
  /\ Step(p, AtRest) /\ Release(p)
  /\ UNCHANGED <<jobs, versions, account>>

MigrationNext ==
  \/ CountGift \/ SaveConfiguration
  \/ \E p \in Packages : Preview(p)
  \/ \E j \in DOMAIN jobs : Cancel(j) \/ LookAt(j)
  \/ \E t \in Tabs :
       \/ \E j \in DOMAIN jobs : PreauthorizeApply(t, j) \/ PreauthorizeRollback(t, j)
       \/ ConsumeProof(t) \/ Apply(t) \/ Rollback(t) \/ GiveUp(t)
  \/ \E p \in Panels :
       ClaimsOwner(p) \/ FindPending(p) \/ ApplyPending(p) \/ SessionStarts(p) \/ GiveBack(p) \/ SessionEnds(p)

MigrationSpec == MigrationInit /\ [][MigrationNext]_migrationVars

-----------------------------------------------------------------------------
(***************************************************************************)
(* Properties                                                              *)
(***************************************************************************)
Becomes(j, status) == jobs[j].status # status /\ jobs'[j].status = status

\* A migration replaces exactly what its owner was shown: nothing that was counted or
\* edited since the preview is lost, whether it is applied at once or sessions later,
\* by whichever process, and whatever was applied and rolled back meanwhile.  And a
\* rollback undoes its own migration only, and leads back to what that had replaced.
MigrationsLoseNothing ==
  [][\A j \in DOMAIN jobs :
       /\ Becomes(j, "applied") => Displayed = jobs[j].seen
       /\ Becomes(j, "rolled_back") => Displayed[1] = jobs[j].package /\ Displayed' = jobs[j].replaced]_migrationVars

\* What the page says of a pending migration: it takes effect when the session that
\* is open now has come to its end.  It cannot, if it is not of the base it was
\* previewed for; then no process can start the account either.
PendingMigrationsTakeEffect ==
  \A j \in DOMAIN jobs : jobs[j].status = "pending" /\ live = Nothing => SameBase(j)
=============================================================================
