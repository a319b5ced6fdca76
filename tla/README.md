# A verification project for bilibili-live-gift-panel

The repository holds three programs: a **hosted service** (Go,
`src/goserver/internal/hosted`) that runs the gift panels of many streamers, a **local
EXE** (Go, `src/goserver/*.go`) for one streamer, and an **update API** (Go,
`src/updateapi`); a TypeScript front end (`src/src`) is common to the first two. This
directory models the parts whose correctness is decided by interleavings, failures,
restarts, lost replies or stale reads, and proves the central ones for every value of
their parameters. Paths below are relative to `src/goserver/` unless they say otherwise.

Contents: 1 the system, 2 the modules, 3 the runs, 4 the proofs, 5 what is left.

## 1. The system

### Components, their state and their operations

| component | code | state | operations | module |
|---|---|---|---|---|
| runtime ownership, session rows | `internal/hosted/runtime/ownership.go`, `session.go`, migrations 0006/0007 | `runtime_account_owners` (token, epoch, expiry), guards, `live_sessions` | Claim/Renew/ReleaseOwnership, Start/End/ReconcileSession, the fenced event commit | `SessionOwnership` |
| operation gate | `runtime/operation_gate.go` | held, owner, generation, FIFO of waiters | Acquire(ctx), Release | `OperationGate`, `FifoLock` |
| account runtime | `runtime/manager.go`, `session.go` | `accountRuntime`, `activeSession`, `roomTransitionState` | ApplyRoomEvent, MutateRoom, AccountDisabled, stale cleanup, heartbeat, Shutdown | `AccountRuntime` |
| room mutation receipts | `runtime/session.go`, `cmd/hosted/main.go`, `adminconsole/service.go` | receipts with their phases, the audit trail | SetRoom, the refresh, the audit event | `RoomMutation` |
| event processor, publisher, configuration | `runtime/processor.go`, `publisher.go`, `configuration/` | retry buffer, published snapshot, runtime state with its revision, receipts | Accept, retryBuffered, Close; CommitRuntimeEvent, SaveState, SaveDefinition | `EventProcessor` |
| room watcher, composition | `roomwatcher/`, `app/app.go` | offline/live/grace machine per room, references, outbox; cursor and projection | SetReferences, Poll, ReplayEvents, LoadBootstrap, the poll and consume loops | `RoomMonitor` |
| room source | `roomsource/` | one shared connection per room, reconnect generation | Subscribe, Cancel, reconnect, finishClosing | `RoomSource` |
| Bilibili gateway | `biligateway/gateway.go`, `limits.go` | breaker, buckets, caches, flights | Probe, RoomInfo, GiftCatalog, OpenRoom | `Gateway` |
| service credential | `identity/biliqr/`, `adminidentity/`, `biligateway/credential.go`, `http.go` | QR challenges, authorizations, credentials | Begin, PollCredential, ConsumeCredential; AuthorizeOperation; Replace | `ServiceCredential` |
| migration | `internal/hosted/migration/` | jobs, versions | Preview, Apply, ApplyPendingAfterSession, Cancel, Rollback | `Migration` |
| invitation | `invitation/service.go` | codes and their use, quotas and their events | Generate, AdjustQuota, Redeem, ListAdministrator | `Registration`, `Invitations` |
| identity | `identity/` | challenges, intents, accounts, site sessions | Begin, Poll, Login, RequireSession, Enable/DisableAccount | `Registration` |
| administrator identity | `adminidentity/service.go` | TOTP, recovery codes, handoffs, sessions | bootstrap, recovery, confirmation, e-mail login | `AdminRecovery` |
| local state and gift inbox | `config_store.go`, `state_transaction.go`, `state_shards.go`, `gift_inbox.go` | journalled state shards, inbox files | updates and recovery of the state; Accept, Next, Acknowledge, Release; reset | `GiftLedger` |
| local background runtime | `background_runtime.go`, `connection_supervisor.go`, `bilibili_source.go`, `config_store.go` | the configured room, the connection loop, pending animations | saves of the room, reload, Prepare, supervise, the gift loop | `PanelRuntime` |
| attribute edits | `attribute_edits.go`, `attribute_edit_leases.go` | leases, claims, the stored state | Create, Renew, Begin, Finish, Release of leases; Submit; replaceClientState | `AttributeEdits` |
| clips | `gift_clip_jobs.go`, `gift_clip_encoder.go`, `gift_clip_process_windows.go` | jobs, queue, worker, encoder process | Create, Cancel, Sweep, Close, the worker's attempts | `GiftClips` |
| updates | `auto_update.go`, `auto_update_windows.go`, `update_trust_store.go` | pending update, trust cache, `.old`/`.new` | download, exit, install, retry | `Updater` |
| gameplay engine | `internal/gameplay/engine.go`, `gameplay_adapter.go`, `activity_runtime.go` | attributes, activities, daily limits | formulas and their check; gifts, timers, activities | `Formulas`, `Activities` |
| update API | `src/updateapi/` | objects, pointer, mirror state, cache | mirror, publish, serve | `ReleaseMirror` |
| leases, settings, console, OBS pages, security, platform, store, shell, front end | see `PROJECT.json` | | | not modelled (section 5) |

### How they interact

The **watcher** probes rooms (through the **gateway**, with the **service credential**) and
writes every transition (offline, live, grace) and every change of a room's accounts to a
durable outbox. The **composition** replays the outbox in order and hands each event to the
**account runtime** (`ApplyRoomEvent`), again and again until it succeeds; the head of the
outbox blocks what is behind it. A live event starts an execution: claim the account
(`ClaimOwnership` answers a *fence*: account, process token, epoch), apply a pending
**migration**, open a session row, publish the session, subscribe to the **room source**, run a
worker whose **processor** commits gift events under the fence. An offline event ends the
session and releases the fence. Other threads of the same process touch the same account
meanwhile: `MutateRoom` (an HTTP request, whose **receipt** outlives it), `AccountDisabled`
(a hook of the administrator's switch) and the drain it starts, the heartbeat, the worker
that may discover a lost fence, the cleanup goroutine of a lost fence, and `Shutdown`. All
but the heartbeat, the worker and the start of Shutdown serialise on the account's
**operation gate**. Other server processes run the same code against the same rows.

In the **local EXE** one room is watched: source and supervisor put gifts into the durable
**inbox**, a loop applies them to the journalled **state** by the **gameplay engine**, together
with timers, edits of pages and resets. The **updater** replaces the program by what the **update API**
mirrored from GitHub.

### What is hard, and what must hold

* **Two processes, one account.** Claims, renewals, releases and expiry interleave, replies
  are lost, a process sleeps past its TTL. An epoch belongs to one process; a fence that
  was refused once is refused for ever; nobody ends a session under its holder; an ended
  session is frozen; the guard row always names the one open session.
* **Losing the account half way.** A fence may be lost between any two steps of a cleanup or a
  start. Durable work must not be forgotten, a held fence must not be forgotten, and a fence
  that is *not* lost must not be abandoned.
* **Observations outside a lock.** A probe, an OpenRoom, a poll of a QR code, a read of a configuration
  before a lock is taken: what they found may be of a room, a connection, a code or a state that is no more.
* **Streams.** The outbox, the gifts of a session, the two messages of one gift: order, once, none lost,
  while commits lose their reply and buffers are full.
* **Durability.** Files and rows between two steps of which the power or the process goes.
* **Things that must end.** Every loss is cleaned up, every stop event applied, a disabled
  account stops, Shutdown returns, buffered gifts are settled, closed sources disappear, the
  configured room is shown.

`PROJECT.json` "hazards" lists forty of these at the lines where they bite, with the
properties that are about them.

## 2. The modules

```
FifoLock  <--implements--  OperationGate
                              (justifies the gate of AccountRuntime)
SessionOwnership  <-- SessionOwnershipProofs
      ^ EXTENDS
AccountRuntime   <-- AccountRuntimeMC (five configurations)
      ^ EXTENDS
AccountRuntimeProofs  <--  AccountRuntimeFences
GiftLedger, Activities  <-- GiftLedgerProofs
AdminRecovery, Registration, Migration, RoomMutation  <-- RecordsProofs
RoomMonitor, Gateway, ServiceCredential  <-- WatchingProofs
ReleaseMirror, Updater, Invitations, GiftClips, AttributeEdits, Formulas  <-- ProgramsProofs
OperationGate, PanelRuntime, RoomSource, EventProcessor  <-- StreamsProofs

RecordsMC   = SessionOwnershipMC, GiftLedger, Registration, AdminRecovery, Migration, RoomMutation
StreamsMC   = OperationGateMC, EventProcessor, RoomSource, PanelRuntime
WatchingMC  = RoomMonitorMC, Gateway, ServiceCredential
ProgramsMC  = ReleaseMirror, Updater, AttributeEdits, GiftClips, Formulas, Activities, Invitations
```

The last four put components into one run that share no variable: `part`, chosen by
the initial states, says whose behaviour it is. They say nothing of the product of the components; where two of
them interact, one module holds both sides (RoomMonitor the watcher and its consumer, EventProcessor the processor and the
configuration service, ServiceCredential the QR adapter, the authorizations and the gateway's transaction, AccountRuntime the manager on top of SessionOwnership).

In all modules a step is one transaction, one statement where the code has no transaction, one section under a mutex, or
one operation on a file; what the code does between two of those is between two steps. A call that fails without effect, and
one that takes effect without its reply, are actions of their own (`...Fails`, `answered = FALSE`), bounded by a budget that a
constant names. Times to live are expiry actions that may come at any time, where the code compares clocks, unless a property is about the time.

### SessionOwnership: the rows

One action per transaction of `SessionRepository`. All of them start with `SELECT ... FOR
UPDATE` on the account's row, so each is atomic. `owner[a]` is the row of
`runtime_account_owners`, with `live` for `expires_at > UTC_TIMESTAMP(6)`; time is the action
`Expire`, which may come whenever the row is live. `opener[s]` is the fence that inserted the session,
`endedBy[s]` who set `ended_at`, `issued` the fences that some caller was told. A
transaction that returns an error changes nothing (a stutter); a commit whose reply is lost is
the claim with `answered = FALSE`. The callers are arbitrary: any issued
fence may be presented at any time. The properties thus hold for whatever the
process above does. A legacy session (migration 0007) may exist initially, with an expired bootstrap
owner.

### OperationGate and FifoLock: the gate

One action per critical section of `Acquire` and `Release`: the fast path, joining the
queue, the two branches of the `select` (which may both be ready, then Go picks either), and
leaving the queue. `generation` is a `uint64` and wraps (`MaxGeneration` stands for its maximum). `FifoLock`
is the abstract lock, and `IsFifoLock` the refinement.

### AccountRuntime: one account inside one process

`account` is `accountRuntime`, `exec[s]` is `activeSession` (phase, `cleanupFence`,
`needsReconcile`), `room` the account's entry of `roomTransitionState` with the outbox event at hand,
`gate` who holds `opGate` and before which step it stands. The database half is
SessionOwnership's, action by action. The gate's operations are:

* *start* (`startTransitionAccount`, `startRoom`): clean up a pending session, renounce an old
  claim, claim, apply a migration, open the row, publish, or undo;
* *stop* (`stopTransitionAccountLocked`), *mutate* (`MutateRoom`), *drain* (`drainDisabled`), *stale*
  (`finishStaleCleanup`), *shutdown* (`Shutdown` for this account);
* the cleanup they share (`advanceSessionCleanup`): drain the worker, `EndSession` or
  `ReconcileSession`, settle, release, drop the fence from memory.

Every transaction may fail without effect (`CallFails`) or commit without a reply.
`Abandon` is what each operation does with an error. `forgets` are the calls of `forgetTransitionAccount`
that wait for `transitionGate`. Outside the gate act `WorkerLoses`, the
heartbeat (`Beat...`: read the fence, renew it, use the answer, each a step of its own), `Close` and
the end of `Shutdown`, the other processes and `Expires`. `Expires` may come at any time, also between a
renewal and its use.

Abstractions: one account and one room (so no `stopTransitionAccountInOtherRooms`); grace is
left out (it only changes admission); a bootstrap is an ordinary first event; the lease path
(`Manager.Acquire`) and sessions without a broadcast have no production caller; Shutdown's
own deadline is left out, so it is the patient caller; `waitStaleCleanup` that meets a second loss
(ErrUnavailable) is the caller's retry. `Forget` may come later than
the code lets it (any time the transition gate is free), which is an over-approximation.

### RoomMonitor: from the probes to the projection

`watcher` are the state machines in memory, `row`, `broadcast`, `references` and `outbox` their tables. Two threads poll
(the cadence and the poll that SetReferences ends with): each picks a room, probes outside the lock and
applies what it found, under the check of `watcher.epoch` and of the references. `consumer`, `cursor` and `projection` are
the replaying half: an event at a time, or a bootstrap snapshot in the middle of the stream. `wake` is the channel of one. A
crash forgets watchers, cursor and projection; the next process loads the bootstrap.
A start is two steps: the account leaves its other rooms one by one (LeaveRoom), and then starts (StartAccount); a start that fails after the
first is a replay of an event that finds the account in no room.
Abstractions: which rooms a poll takes and in what order (`nextRoom`, the probe budget) is any; what a failed start or stop leaves of the account itself is AccountRuntime's; the drain of Close is left out, since the crash leaves less; one process.

### EventProcessor: a gift from Accept to the snapshot

`stored` is the account's runtime state (as the sequence of what was done to it) with revision, configuration version and receipts,
`processor` the session's processor with its cached state and buffer, `workers` the retry goroutines, `latest` what OBS reads.
Accept and a round of retryBuffered hold `processor.mu` over the transaction, so each is one step; the transaction commits, fails, commits
without a reply, finds its revision stale or its fence lost. An editor reads and saves the state, or saves a definition. Close drains or
drops. Abstractions: the expiry of receipts (24 h), the 4096 remembered IDs, the backoff's length, the channel of 256 events, the viewers' ledger.

### RoomSource: one connection per room

`source` is the room's entry, `opener` the goroutine that opens, supervises and reopens the connection, `closer` finishClosing.
Connections call back with their number, before OpenRoom has returned and after their end; a subscriber's channel holds `Capacity` events.
Not modelled: the manager's own Close beyond refusing new subscribers and closing the sources, backoff lengths, decoding.

### RoomMutation: an administrator changes a room

`receipts` with the phases target_persisted, references_applied, audited; `watched` is the reference of the account, that RefreshReferences of a request or of
the cadence poll writes; `trail` the audit events. A receipt may be taken up by a later request for the same room (retry), by any administrator.
Setbacks bound failing statements, lost COMMITs, crashes, and the account's being enabled or disabled. Abstractions: one account, one server process; the legacy
switch of a session without a broadcast; the clock does not go back; conflicts of ownership and failing migrations are a failing request.

### GiftLedger: the files of the local program

`disk` is what is visible, `stable` what a power failure leaves, likewise `pending` and `kept` for the inbox. `store` walks through
an update: transaction file, shards in their order, removal, each of which may fail, be visible without being durable, or be durable; then recovery at the
next start and the reset with its marker. `answers` is what callers were promised. Abstractions: a state is the gifts and edits in it; one animation-free room;
the 2048 remembered ingress IDs (the inbox holds up to 10000, so an inbox that is replayed whole could exceed them), the
cache of shards, corrupt files, the migration of the legacy file.

### Registration, Invitations

Registration: QR challenges of one Bilibili user, the poll that asks outside the lock, registration intents, `Redeem` statement by statement with its
row locks, `Login`, RequireSession, disabling and enabling. What is overdue is treated as removed. Invitations: the quota with its
events under Generate and AdjustQuota (the account's row is locked first), and a reader that follows the pages of ListAdministrator in either order while invitations
are created, redeemed and revoked. The two halves run as the parts *quota* and *pages* of ProgramsMC; they share the rows, not the
requests, and their product adds nothing but states.

### AdminRecovery

Handoffs of a new TOTP secret and new recovery codes: prepared, mailed, marked, answered, confirmed, by any instance of the
service that may end between two of these; sessions and e-mail logins under the credential's epoch; the rotation of codes. A package is secret, codes and
archive together. Abstractions: TOTP steps and attempt counters, login events, handoffs bound to a UID (legacy), renewal of a recent TOTP.

### Migration

`jobs` with their base (version and revision), `starter` the processes that claim an account, apply what is pending and start,
`tab` the owner's requests: confirming is a look (PreauthorizeApply), a proof that is consumed, and the transaction itself. Gifts and edits (`writes`) move the revision.
Abstractions: a package is its hash; room suggestions, the daily limit of five previews, clocks and the contents of proofs.

### Gateway and ServiceCredential

Gateway: `breaker` (hold, half open, successes), `risks` (ages of samples), token buckets, and flights from `Allow` over the
upstream to RecordSuccess, RecordFailure or RecordRisk. Time is ticks; Patience bounds how long a flight lasts: OpenRoom's deadlines add up to 8 + 45 + 45 s, less than the hold of
120 s, which is `Patience <= 2 * Minute - 1`; between the breaker and the budgets a flight waits for nothing, so no time passes there. Abstractions: one room; callers who join a flight keep no state; caches may expire at any time; the
gift catalogue is one more lookup; thresholds and budgets are scaled down. ServiceCredential: QR codes of the adapter with polls, consumer, cancellation
and timer, operation authorizations, and Replace statement by statement up to COMMIT and what follows it. Abstractions: HTTP, encryption, the audit's contents; a code's
life may end any time; each authorization is a TOTP step; a request's own cancellation is a failing statement.

### ReleaseMirror and Updater

ReleaseMirror: two publishers (the mirror and an operator's `cmd/publish`), object by object with read-back and the recovery of the pointer, resumed downloads,
editions of an asset that change at GitHub. Abstractions: one channel; the digest is always present; late PUTs after an error; the
operator's rollback; trust bundles. Updater: the panel (download, exit), the installer's renames, the trust store's cache and floor; either
is killed after any file operation, files are damaged. A release has a publisher, and a policy is a set of rules, each of a publisher
and a tag: a policy in force authorizes by rule (`Authorizes`), an expired one by its publishers alone (`NamesPublisher`), as `Authorize` does in its two modes. A signature shows who published the bytes. One installer at a time (`overlap` marks the runs in which a panel was started while
an installer works, and no more is claimed of them than that a program remains).

### PanelRuntime, AttributeEdits, GiftClips

PanelRuntime: saves of another room, which empty the receipts (`Enters`), notify the loop only once they are answered (`Announce`), or are published, answered with an error and
recovered by a later read (`published`, `blocked`, Recover); the loop over the configured room (`loop`, `reload`, `mutex`), the supervised connection (`feed`), and the inbox's consumer,
which writes the state, then the file of waiting animations, then acknowledges. Abstractions: what Status shows besides the room (its phase, the gaps), source duplicates (a message is put in the inbox once), the timer
loop, profiles, the limit of 500 receipts, the window of timestamps, the freezes of edits (AttributeEdits) and the generation of a reset (GiftLedger).
AttributeEdits: leases by token, the claim of an edit, merge and save under the store's lock, results of rules that pass by or are held back by a lease,
replacements of the whole state by a page. Abstractions: a rule is the attribute it names; validation is that every reference resolves. A rule's result is the only write of
an attribute besides the edit's: the resets a timed activity makes of an attribute somebody holds are in Activities, not here.
GiftClips: jobs, queue, the channel of one that wakes the one worker, the sweeper, Close; the attempt in hardware and in software; the
extraction of the encoder, its suspended start, its job object. Abstractions: times to live end any time; the kinds of sources are one step; progress; layers.

### Formulas and Activities

Formulas: evaluation over a floating point system in miniature (halves up to `Largest`, infinities, NaN) next to the check that
follows a formula with classes of numbers; a formula grows an operation at a time, and `mistaken` marks those that hold a call of which the check tells less than may come out (`Misjudged`). Activities: gifts and timer ticks through rules with caps and daily limits, milestones, timeouts,
results. A loop of the engine over rules or occurrences is a recursive function (`RulesApplied`, `GiftApplied`, `TimersApplied`); the milestones of an activity and the timeouts of a tick are said without one, by the first that ends the activity and by the last that resets the
attribute. A tick reads what is due before it takes the lock; a gift carries its own time. Abstractions: the parser, targets, Normalize, prices, schedules (any enabled timer may be due).
A change of room, and a page that replaces the whole state with its statistics, lie outside: the properties speak of gifts, timers, hands and clocks.

## 3. The runs

### Passing runs

| run | module, cfg | parts | bounds | distinct states |
|---|---|---|---|---|
| `records` | RecordsMC, `Records.cfg` | ownership, ledger, sign-up, admin, migration, room | 1 account, 2 processes, 3 sessions, 3 epochs, 1 event each; 2 gifts, 1 edit, 1 reset, 2 failures, 2 power failures; 2 challenges, 3 codes (one permanent), 2 redeemers; 2 requests, 3 packages of 2 codes, 1 fault; 2 migrations, 1 write; 2 administrators, the streamer and the cadence, 3 receipts, 2 setbacks | 1.0 M |
| `streams` | StreamsMC, `Streams.cfg` | gate, gifts, source, panel | 3 goroutines, generations 0 and 1; 2 gifts (one without an ID), 2 sessions, a buffer of 2, 2 faults, 1 edit; 2 subscribers, 3 connections, 2 callbacks; 2 rooms, the first configured, 1 gift with its animation, 3 changes, failures or crashes in all | 0.23 M |
| `loss` | AccountRuntimeMC, `AccountLoss.cfg` | | 2 processes, 2 sessions, 3 epochs, live/offline, mutations | 0.9 M |
| `disable` | AccountRuntimeMC, `AccountDisable.cfg` | | 1 process, 1 session, 1 epoch, live/join/leave, administrator, mutations | 0.2 M |
| `shutdown` | AccountRuntimeMC, `AccountShutdown.cfg` | | 2 processes, 1 session, 2 epochs, live/offline, mutations, Shutdown | 0.2 M |
| `rooms` | WatchingMC, `Watching.cfg` | rooms, gateway, credential | 2 rooms, 2 people, a crash, up to 2 changes during it and 1 after, 6 events, 1 fault besides; 2 accounts and the prober, 3 flights, scaled budgets; 2 QR codes, 2 authorizations, 2 requests that replace, 1 that polls | 1.3 M |
| `programs` | ProgramsMC, `Programs.cfg` | releases, updater, edits, clips, formulas, play, quota, pages | 2 releases, 3 changes, 1 fault; 2 versions of two publishers, 2 policies, which withdraw a release with its publisher or without, 2 mishaps; 2 attributes, 1 page, 2 edits, 2 leases; 2 clips, 2 accidents; numbers up to 1 in halves, 3 operations; 2 attributes, 2 activities, 2 dates, 1 tick that changes something; 2 requests, 2 batches, 3 invitations | 1.2 M |

What each one shows:

* `records`. *OwnershipIsUnambiguous*: the guard row names the account's one open session and an epoch has one holder. *FencingIsFinal*: a lost fence
  stays lost; a session is ended by a holder, or for an opener that holds nothing; an ended one is frozen. *AnswersHoldOnce*, *ResetErases*: what a caller of
  the local program was answered survives every power failure and is counted once; what a reset erased does not come back. *UsersAreVerifiedOnce*: one account for one
  invitation and one proof per challenge; no session survives a disabling. *RecoveryIsFinal*: codes and secret in force are ones the administrator was sent, and
  no session that began before the last recovery is accepted. *MigrationsLoseNothing*: a migration replaces exactly what its owner was shown, a rollback undoes that one.
  *ChangesAreAudited*: the audit trail is the history of the room: receipts chain (each starts at the target before it), the finished ones are in the trail once each and in order,
  and when the trail says that the account has changed its room, nobody watches the old one for it any more.
* `streams`. *IsFifoLock*, *EveryCallReturns*: the gate is a FIFO lock from which every caller comes back. *AcceptedGiftsAreCountedInOrder*: what Accept answered with nil is counted once and in
  order, and no writer of the runtime state overwrites what it has not seen. *BufferedGiftsAreSettled*. *RoomsHaveOneConnection*,
  *ClosedSourcesDisappear*: events come from the newest connection only, and a source without subscribers ends. *AnimationsMeetTheirGifts*: of messages settled since the receipts were last emptied. *TheConfiguredRoomIsShown*: of every
  change whose save was answered (`Untold` names the others).
* `loss`. *CleanupIsNeverForgotten*: a session whose row is open is attached, a held fence is remembered. *HeartbeatKnowsTheSession*: what is taken for lost is lost, and what runs is renewed.
* `disable`. *ProjectionIsNotPhantom*, *DisabledAccountStops*.
* `shutdown`. *ShutdownEndsTheSessions*, *ShutdownFinishes*, *LossesAndStopsAreServed*; and *ImplementsOwnership*, the refinement of SessionOwnership.
* `rooms`. *OutboxTellsTheRooms*: the tables can be computed from the outbox. *ProjectionFollowsTheOutbox*: so can the consumer's projection, up to its cursor, failed starts included. *CoalescedWakeUpsLoseNothing*.
  *ObservationsAreOfThisReference*, *ExpiredGraceEndsTheBroadcast*: late probes. *TrialsAreAnswered*: the half-open breaker waits for exactly one answer, which comes. *ReplacementsAreWhole*: a credential has a
  code and an authorization of its own, and a code that waits for somebody has somebody.
* `programs`. *NamedReleasesAreComplete*, *InstallsAreSafe* (a program remains, and what is put in place is authorized by the newest policy accepted or, once that has expired, is of a publisher it names), *AcceptedEditsLoseNothing*, *ClipsAreServed*, *EncodersEndWithThePanel*, *RefusedFormulasFail* (what the check refuses gives no finite number, unless the check misjudges a call in it; what it takes for a constant is one),
  *QuotasAreAccounted*, *PagesListEachOnce*, *PlayKeepsItsRules* (daily limits hold over midnight and a clock that is set back; an activity that has ended keeps its record and the attributes it gates, its result is that of its end, and a tick that has read it as due does not end it while a later gift keeps its window open).

Why the bounds suffice: rows of different accounts are independent (every transaction touches one account), so one account is enough; two processes with three
epochs let a process lose the account, see another take it, and win it back while its old session and fences are still around; two sessions let a
new one start while the old one is cleaned up. Two waiters besides the holder are the least in which leaving the queue can disturb somebody else, and two generations make stale
generations recur. Two rooms and two people let an account move from a live room to another that
is polled at the same time. One or two faults suffice for a lost reply followed by a failure of its repair. Two requests of each kind race; a third is one
of the two. Where sessions, epochs, receipts or clips are counted, the counters bound the length of a history, and each property relates neighbours in it. Gateway was
also run with three samples of three accounts (6.8 M states) with the same result. The proofs of section 4 remove the bounds of every safety property of the passing runs.

Each property was also run against a changed operator (the definitions headed *Mutant*, listed in `PROJECT.json`): a dropped check, a swapped order or a missing reset at one place of
the code, which the run then reports.

**Deadlock.** The cfgs set `CHECK_DEADLOCK FALSE`, because every history runs out of epochs, sessions, gifts, faults or requests and rests; what must not rest is the business of the liveness properties.

**Fairness.**

* AccountRuntime's `FairSpec` assumes: whoever holds the gate goes on (a goroutine is scheduled; each call has a deadline);
  the gate is FIFO, so a waiter gets it: weak fairness where the waiter stays in the queue and the guard cannot be disabled meanwhile, strong fairness for the loops that wait for the gate
  (this is `EveryCallReturns` of the gate); the heartbeat's renewal ends; a fence this process does not
  renew expires; and calls fail finitely often *where they could have succeeded* (`Failure` demands `ENABLED Succeed`): what the database refuses for a reason stays
  refused, so a cleanup that could only be refused would be reported. The administrator, MutateRoom, the other
  processes and the outbox's producer owe nothing.
* The gate: whoever has the turn releases it, and the `select` of a granted or cancelled waiter proceeds.
* `GiftFairness`: timers fire, a retry goroutine that runs goes on, the 60 s of a buffered gift pass, and Close, which waits for `drained` and its deadline, proceeds. Close's look at an empty buffer is strongly fair, since a round may fill the place between two looks. Faults are bounded, gifts owe nothing.
* `SourceFairness`: goroutines run, OpenRoom answers or fails within its deadline, a cancelled context ends backoff and connection.
* `PanelFairness`: the loop, a cancelled or reconnecting source, a handler that has saved and the consumer go on. `Prepare` is strongly fair because `animationMu` is taken again and again by the consumer (Go's mutex hands over to a waiter). A connection need not
  succeed, nobody need read a state that waits to be recovered, and the program need not be started again.

### What the violations show

* `reenable`: `account.disabled` is only ever cleared by a MutateRoom that
  claims (and by `Acquire`, which nothing calls), so a process that saw the account disabled
  refuses it for ever after `EnableAccount`, and the outbox stops at the room's event.
* `offline`: `forgetTransitionAccount` identifies what to forget by its fence, but a fence is
  answered again to the process that already holds it; a late forget then removes an execution that was
  started since, and offline stops nothing.
* `orphan`: after a COMMIT whose reply was lost the watcher believes a live room offline; when its last reference goes, no terminal transition is written, the row stays
  live, and the next process refuses to start from it (`validWatcherBootstrap`).
* `drifted`: a gift that is counted in the session during which a migration was confirmed moves the revision away from the migration's base. It can then never be applied, and
  no process can start the account until the migration is cancelled or a day has passed. The page promises that it takes effect when the session ends.
* `receipt`: the streamer's own change of room leaves its receipt unfinished, since only the console advances receipts; every later change to another room is refused.

Each trace uses only calls the code makes; each of its steps is an action named after its function. `PROJECT.json` quotes the documents.

### Observations without a run

* Invitations of an administrator's batch are permanent: GenerateAdministratorBatch stores `expires_at` NULL, which Redeem scans into a `time.Time` (`invitation/service.go:710-711`): redeeming one fails with ErrUnavailable. The Registration model does what the code does (`Permanent`). ListAdministrator fails as a whole on an active
  administrator invitation from before migration 0011, which has no ciphertext (`:112-115`). The owner's List reads from a snapshot older than its lock.
* A QR code is destroyed before the COMMIT of Replace (`biligateway/http.go:127-144`), although `adapter.go:321-325` and `credential.go:105` say that it outlives a failed persistence: the administrator scans again.
* The pointer of the update channel is read and overwritten without a precondition: of two publishers at once the older release may win (`src/updateapi/internal/publish/publish.go:123`). What it names is complete all the same.
* A takeover fence claimed by MutateRoom (`staleRelease`) is not released when another operation finishes the lost session first, and is held until it expires;
  so is one that `finishStaleCleanup` clears without a session. A StartSession whose commit could not be verified leaves an open row for the next takeover.
* `runtime/processor.go:486`: a retry round withdraws the flags of a processor that a terminal failure has set. `gateway.go:362`: `credentialVersion` may go back. `finishTransientPoll` may clear a consumer's cancel function, which is harmless.
* Receipts are ordered by `created_at`: were the clock set back between two of them, the newer one could not be found (`session.go:285`), and the unique `active_account_id` would refuse later ones.
* A save of another room may be published and yet answered with an error (`state_transaction.go:96-119`); the next read recovers it. Only an answered save notifies the loop (`config_store.go:369-377`), and saving the same again finds the room unchanged (`:429`): the old room
  stays connected until another reload. PanelRuntime does what the code does (`silent`).
* A room that follows another empties the receipts (`config_store.go:1007`), also under a record that is settled and not acknowledged: an animation that is claimed again in its first room was applied, finds no receipt, and waits in the file.
* Once the accepted trust policy has expired and no source has a newer one, every release of its publishers is trusted (`update_trust_store.go:62-71`), one whose tag it withdrew included. That is the documented fallback.
* A lost reply of SendRecovery loses the password of the archive it has mailed: the codes in force are then ones that were mailed, which is what RecoveryIsFinal says, but cannot be opened; the administrator recovers once more.
* A room is not connected again after a lost fence until its next event. The channel of 256 events of a session drops silently when full.
* A panel that is started while an installer works may start a second one, which removes `.old`. RANDBETWEEN overflows an `int` (`engine.go:698`).
* The check of formulas misjudges three calls (`Misjudged`), and `RefusedFormulasFail` says nothing of formulas that hold one. MAX and MIN: it takes them for NaN whenever an argument is, `math.Max` lets an infinity win. ROUND: an infinity stays one for the check (`engine.go:1113-1116`), but is NaN when 10^digits
  is 0 or infinite; so `1/(1/ROUND(x+∞, x)) > 1`, with a product that overflows for ∞, is refused for a division by zero, though it gives 0 for x = -400. ROUND and FLOOR: they keep the class of a number that is not zero (`engine.go:1109`, `:1129-1134`), which may become zero. The last two were found by the proof:
  within the three operations of the run no formula is refused for them.
* The page of an editor that lost its lease acquires a new one with the base it had (the property speaks of edits under the lease of their own session). A late gift's own time may shorten an activity's window.
* A tick ends overdue activities one after the other, so when a timer has changed an attribute, an activity is settled and one that shares the attribute is reset, the result of the first keeps a value that no saved state shows (`activity_runtime.go:48-68`). *PlayKeepsItsRules* says so (`TellsTheResult`); the attempt to prove it without that clause failed, and TLC
  then found the case in a larger instance.
* Directories of clips of a killed program are not cleaned at the next start; a suspended encoder whose termination failed stays suspended.
* A rollback of a migration discards what was counted since, by design; a rollback to no configuration starts the revision again, so a base must be compared as version *and* revision (mutant `SameRevision`).

## 4. The proofs

Checked by tlapm for every value of the constants that satisfies the `ASSUME`s.

* `SessionOwnershipProofs`: `TypeCorrect`, `FencesNeverLead`, `OneHolder`, `LostForEver`, `GuardCorrect`,
  `HolderEnds`, `EndIsFinal`, and the two that the run checks, `Unambiguous` and `Final`. The argument rests on `FencesBehindRow`: no issued fence is ahead of the row, and one that
  carries the row's epoch carries its token. `OneHolderPerEpoch` alone is not inductive: a takeover could issue
  an epoch that some older fence already carries; with `FencesBehindRow` the new epoch is larger than
  all of them. That fences stay lost follows from it: a row only becomes live again by a renewal of the exact row
  (which is then held) or by a takeover (a new epoch).
  `GuardNamesTheOpenSession` is inductive together with the types and the fact that a guard's session is its
  own account's.
* `StreamsProofs`: of the gate `GateTypes`, `GateExcludes`, `GateKeepsTheTurn`, `GateAcceptsReleases`, `GateQueue` and
  `GateImplementsLock`; of the panel `AnimationsAlwaysMeet`; of the shared connection `RoomsAlwaysHaveOneConnection`; of the gifts `GiftsAlwaysCountedInOrder`, with `StateOnlyGrows`, its second half.
  * *Gate* (`GateInv`): every step of the gate is a step of the lock or a stutter. The gate is held exactly when somebody has the turn, the holder's generation is the gate's owner, and the queue lists
    the waiters that were not granted, each once; the generation may wrap because only one permit is outstanding at a time.
  * *Animations* (`PanelInv`): while the consumer works on a record it has the mutex, so nobody prepares another room and what it has read of the file still holds when it writes (`ConsumerInv`); only the first record of the inbox can have been applied
    before (`InboxInv`); an animation waits only for a gift of the prepared room, and a pair settled in one epoch, between two clearings of the file, met there (`PairInv`). A change of the room that empties
    the receipts forgets when its messages were settled, so the invariant holds with nothing to say of them; what a transaction attached is known to be of a gift that was applied, whether or not its receipt is there still.
  * *Connection* (`SourceInv`): a source is closed once, with its last subscriber, and then has somebody who closes its connection (`LifeInv`); its connection is the newest or none, and no other is open (`ConnectionInv`); generations grow from attempt to attempt, and the source's is that of
    its newest connection only while that is under way or connected (`GenerationInv`), so a callback that is admitted is of that one. `OpenConnectionsAreOwned` alone says nothing of the attempts that have yet to answer.
  * *Gifts* (`GiftInv`): a copy of the runtime state that has the stored revision is the stored state, since every commit that changes the state raises the revision (`Behind`, `Raises`); so what a retry or an editor writes under its own revision extends what is there.
  * *Order* (`OrderInv`): what is counted of a session is what was accepted, in the order in which it was first accepted, up to a point, and what is behind it waits in the buffer in the same order. A retry must know what is counted already: the receipts tell it of the gifts with an ID, over all
    sessions (`ReceiptsIn`), the processor's `seen` of the others, with one exception (`SeenIn`): a gift without an ID whose commit succeeded and whose reply was lost. It is then the head of the buffer and the stored revision is ahead of the copy, so the next attempt ends the processor and cannot
    count it again. The property alone is not inductive: it says nothing of the buffer or of `seen`.
* `AccountRuntimeProofs`: `RuntimeTypes`; `RuntimeImplements`: every behaviour of AccountRuntime is one of
  SessionOwnership (with the identity as refinement mapping: AccountRuntime acts on the same rows); and its
  consequences `RuntimeGuardCorrect` and `RuntimeHolderEnds`. A step of the process is a transaction of SessionOwnership only
  if the fence it presents was issued, so the inductive invariant `RuntimeInv` says that memory holds only
  issued fences and sessions opened under them (`Grounded`), and that there is one wherever the
  holder of the gate or the heartbeat is about to use it (`Ready`). Each step is shown to keep memory within *any* set of fences
  and sessions that contains what it uses (`StartSteps`, `CleanupSteps`, ...); the invariant follows because issued fences and
  begun sessions only grow (`DatabaseGrows`).
* `AccountRuntimeProofs`, second part: `ShutdownEnds`. Its inductive invariant `AttachInv`, on top of `RuntimeInv`: what a holder of the gate may be about to do
  (`GateShape`); a session whose row is open is the account's current or pending one, of which there is at most one (`Sessions`); how far a session is when the
  holder works on it (`Stage`); that it works on the attached one, and opens another only when there is none (`Holder`); and that from the end of
  Shutdown on nothing is attached, so that no holder is left that could open one (`Closed`). Without `Holder` a start could overwrite what it should have cleaned up; without `Stage` a cleanup could detach a row that is still open.
* `AccountRuntimeFences`: `NothingIsForgotten`, `HeartbeatRenewsTheSession` and `NoPhantoms`. The argument is that a fence of this process that is gone stays gone (`FencesFade`, from
  `LostStays` of the rows), and that of the fences it holds there is at most one (`OneIsHeld`). `FenceInv` then says, of each place that remembers a fence, that it is the one held or one that is gone: in the sessions
  (`Marked`), in the account, the room and the waiting forgets (`Remembered`), in the hands of the gate's holder and of the heartbeat (`Handled`). `ProjectionIsNotPhantom` needs `Projection` besides: what a start or a stop owes the room before each of its steps.
  The four conjuncts were first checked by TLC on instances with two processes and two sessions.
* `GiftLedgerProofs`: `AnswersAlwaysHold` and `ErasedForGood` of the ledger, and `PlayAlwaysKeepsItsRules` of the play that the gifts drive. The ledger, for any number of gifts, edits, resets, failures and power failures. Two files may each come back as they were before any operation that was not synchronized, so `LedgerInv`
  says what every choice of old and new files has in common (`Journal`): either the transaction is durable, and counts whatever the shards hold, or the shards are the same in both, and the transaction can only be one that extends them or
  repeats them. `Sure` is what counts in the worst case; every answer is in it. `Markers` is the counterpart for a reset: while its marker exists in either version of the directory nothing runs but the reset, and nothing was answered since. `Stages`, `Calls` and `Retires` say what the store's
  steps may rely on; `Gifts` that no stored sequence names a gift twice or an erased one.
  * *Play* (`PlayInv`, `LimitInv`): the deadline of an activity that runs is the end of its window, so that what `StillOverdue` checks under the lock is what the property asks for, however old the tick is; what is counted for a date is what was applied on it, for the date that a gift has just opened too.
    That rules change nothing a gating activity keeps, however many follow each other, is an induction over their positions (`AllRules`, `AllOccurrences`, `AllTimers`, by `CountUp`, which is induction as a fact about a set of numbers).
* `RecordsProofs`: `RecoveryStaysFinal`, `VerifiedOnce`, `NothingLostByMigration` and `ChangesAlwaysAudited`. None of the four properties is inductive.
  * *Recovery* (`AdminInv`): what is marked as delivered, or was answered, was mailed, and so was what a request that has sent its mail is about to mark (`Mailed`); no session and no login is ahead of the identity's epoch, and one of its epoch began after
    the last recovery (`Followed`).
  * *Sign-up* (`SignUpInv`): the epoch counts the disablings, for the account and for every proof on its way to a session (`Proved`), so equal epochs mean that nobody disabled the account in between; a redemption past its checks holds its row and one writes at a time (`Locks`);
    a challenge that may still be verified, or is with a login, was used for nothing (`UsedOnce`).
  * *Migration* (`MigrationInv`): a revision alone does not identify what a preview showed, because a rollback to no configuration lets revisions start anew. `BasesTell` holds since a version that was left never comes
    back (saving, migrating and rolling back each put a new one in force, or none) and the revision only grows while one is in force: the base's version and revision together determine the contents. `UndosKeep`: an applied job's undo is what it had replaced.
  * *Changes of the room* (`MutationInv`): for any number of rooms, requests and receipts. The inductive invariant adds to the property that requests at work have a receipt, that one of them refreshes at a
  time, that a refresh under way has read the account since its request has the receipt (`RefreshersReadTheChange`), and that once the references were synchronized for the last receipt the watched room, and what any
  refresher has read, is the account's room or none (`SynchronizedIsCurrent`). The last one is inductive since the account's room stays while its last receipt is unfinished.
* `WatchingProofs`: `OutboxTells`, `WakeUpsLoseNothing`, `ProjectionFollows`, `GraceAlwaysEnds` and `ObservationsAlwaysOfThisReference` of the rooms, of the gateway `TrialsAlwaysAnswered` and of its credential `ReplacementsAlwaysWhole`, for any number of rooms, people, changes and failures. The first part is about logs alone: what a log says of a room
  when the events of one transaction are put behind it (`StateSaid`, `EpochSaid`, `AccountsSaid`), given that the transaction says each thing of a room at most once (`Sole`).
  * *Tables* (`TableInv`, `LogInv`): every transaction says in its events what it does to the rows. That a watcher may believe an older state than the row's does not matter: `recordTransition` compares with the row (`Recordable`). `WatchInv` adds what the threads
    hold in memory, above all that the snapshot a refresh has read gives no account two rooms (`Apart`).
  * *Wake-ups* (`ReplayInv`, `WakeInv`): a replay reads up to where the outbox was when it began; what was announced since has left a wake-up.
  * *Projection* (`ProjectionInv`): it says what the outbox says up to the cursor (`Matches`). Between two events of one snapshot an account may be in two rooms, when rooms exchange accounts: `Orderly`, of the outbox alone, says that then the event which takes it from
    its old room follows before anything else is said of that room or any transition comes (`Pending`). So LeaveRoom may take an account out of a room whose own event is still to come, and a start that fails then leaves it in none, which only the event under way explains (`Accounted`). Between events each room
    runs exactly what its state asks for (`Settled`); the room of the event under way keeps a weaker half of it (`Midway`), which suffices when the event is passed.
  * *Probes* (`ProbeInv`): who holds a watcher holds the room's, and no removal of the room was announced since the probe began, since an announcement advances the epoch that the probe must find unchanged. Between the two transitions of one observation the machine stays
    offline, because `manager.mu` keeps the other threads out.
  * *Breaker* (`GatewayInv`): while it holds, every flight under way is as old as the hold (`HoldOutlasts`), and a flight lives less than the hold, so the trials after it are alone (`TrialsAlone`). A probe that finds its budget spent tells the breaker nothing, and would leave it half open
    for ever; it does not as the hold fills the buckets for as many trials as close the breaker (`BudgetsSuffice`). That needs that no flight lingers between `Allow` of the breaker and `Allow` of the budgets, where the code waits for nothing (`TimePasses`): one that did could empty the global budget at the end of the hold.
  * *Service credential* (`CredentialInv`): one `Replace` at a time is past the identity's lock, and its authorization stays valid while it holds it (`OneReplaces`); the code it takes was open until it consumed it, so no row has it yet (`CredentialRowsAreWhole`); and whoever
    holds a code, for a poll or for its consumer, has not given it back (`Held`).
* `ProgramsProofs`: `QuotasAlwaysAccounted`, `PagesAlwaysComplete`, `ReleasesAlwaysComplete`, `ClipsAlwaysServed`, `EncodersAlwaysEnd`, `EditsNeverLose`, `InstallsAlwaysSafe` (with `EpochsNeverGoBack`, that the accepted policy is never an older one) and `RefusalsAreJustified`.
  * *Quota* (`QuotaInv`): whoever works on the account has its row, and what it has read of the quota still is the quota (`RowIsLocked`).
  * *Pages* (`PagesInv`): what a reader has seen is behind its cursor and what it owes is ahead of it or seen, for the rows whose place in the order stays (`Firm`): all of them in the order of creation, those whose status stays in the order of status.
  * *Releases* (`MirrorInv`): immutable objects are never replaced, so what was whole stays whole (`Stored`). A publication knows for each of its steps which objects it has put there or read back (`PublicationInv`), and what it may restore as the pointer, what the mirror may save and what the
    service may answer with was whole when it was read. An executable fetched in pieces is of one edition, since a part is resumed only for the edition it began with (`RunInv`).
  * *Clips* (`ClipsInv`): a clip is active exactly while the worker has it, and its time has no end until then, so that the sweeper leaves it alone (`ClipInv`); the queue has it once and only before anybody began it (`QueueInv`); and the encoder's process is contained or runs only where the worker is in the
    attempt that resumes or awaits it (`AttemptInv`), so that a kill between any two steps finds it suspended or in the job object.
  * *Edits* (`EditInv`): a lease in force keeps the rules away from its attribute, so what its session saw stays the result (`EditorInv`, `SubmissionInv`); the store's lock has one holder, so the state that an edit was merged with is the one it replaces (`StoreLockInv`).
  * *Updates* (`UpdateInv`): while no panel is started beside an installer, an intact program is at its path at every step but those between Backup and the check in place, and there `.old` is one (`Placed`); the accepted policy authorizes what was verified, or names its publisher and has expired,
    until it is put in place, since nobody else accepts one meanwhile and an expired policy stays expired (`Authorized`); what is pending is a release (`PendingsInv`).
  * *Formulas* (`FormulaInv`): the check is an abstract interpretation. For every value of the variable the outcomes are of the classes the check gives, or an error, and only an error where it says that the formula fails (`Covers`); a constant is the one outcome (`Tells`). The lemmas say it of
    every operator and call, whatever its operands are (`BinaryFollows`, `PairFollows`, `RoundTwoFollows`, ...); each rests on what the arithmetic gives for every pair of values. Largest is any even number, so the argument is about no particular format, only about saturation, signed infinities and NaN.
Assumptions: rooms are positive numbers (they are sorted, the repository by their digits) of which there are finitely many, the sentinel for no room is none of them; tokens differ from the legacy token, sentinels differ from values (no number is `Skipped`), `MaxEpoch` is positive; the bounds of GiftLedger are natural numbers of any size. Liveness
(`EveryCallReturns`, the fair half of `IsFifoLock`, `BufferedGiftsAreSettled`, `ClosedSourcesDisappear`, `TheConfiguredRoomIsShown`, `DisabledAccountStops`, `ShutdownFinishes`, `LossesAndStopsAreServed`) is model-checked only: `ENABLED` and
fairness are out of the prover's reach. That is all that only TLC checks. Two models were restated for their proofs without folds over sequences, whose induction the provers cannot do: the order in which gifts are counted (EventProcessor's `CountedInOrder`, as a relation of positions) and the engine's loops (Activities). TLC found
the new definitions equal to the old ones in every reachable state of the instances and in as many others as it could enumerate.

## 5. What is left

1. AccountRuntime with several rooms of an account and with grace; the processor's worker inside it.
2. The liveness properties (end of section 4), which only TLC checks, on larger instances.

### Not modelled

* **Runtime leases** (`Manager.Acquire`, the idle timer): no production caller.
* **Administrator settings and console**: reads and single-row updates behind the administrator's session (the console's change of a room is RoomMutation).
* **OBS pages**: keys and read-only pages; the snapshot they read is EventProcessor's `latest`.
* **Security, platform, store**: key derivation, configuration and schema set-up: no interacting state.
* **Shell of the local EXE**: tray, instance coordination, presence: platform code.
* **Web front end**: presentation; its page of attribute edits appears in AttributeEdits as its requests.
* HTTP adapters, decoding of packets and packages, signatures, encryption and the layout of clips are left out of every module. Section 2 lists the abstractions of each module,
  `PROJECT.json` the status of each component.
