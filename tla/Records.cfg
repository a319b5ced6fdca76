\* One account, two processes, three epochs and three sessions: a process loses the
\* account, the other one takes over, the first comes back while its old session is
\* around.  Two gifts, an edit and a reset of the local files, with power failures.
\* Two redemptions by one user of two invitations, a third one permanent; two concurrent
\* requests of the administrator, with lost mails and a lost process.  Two migrations, a
\* gift or an edit, two processes.  Two administrators and the streamer change a room
\* three times, with two setbacks.  The processes, the challenges, the redeemers and the
\* requests share two names, the sessions and the packages three, which are symmetric.
SPECIFICATION RecordSpec
CONSTANTS
  Accounts = {a1}
  Tokens = {x1, x2}
  LegacyToken = legacy
  SessionIds = {s1, s2, s3}
  MaxEpoch = 3
  MaxEvents = 1
  NoSession = NoSession
  NoFence = NoFence
  NotEnded = NotEnded
  Reconciled = Reconciled
  MaxGifts = 2
  MaxChanges = 1
  MaxResets = 1
  MaxFailures = 2
  MaxCrashes = 2
  Challenges = {x1, x2}
  Codes = {i1, i2, i3}
  Permanent = {i3}
  Redeemers = {x1, x2}
  MaxDisables = 1
  SignUpFaults = 1
  Requests = {x1, x2}
  CodeNumbers = {1, 2}
  MaxPackages = 3
  MaxLogins = 2
  MailFaults = 1
  Packages = {s1, s2, s3}
  Tabs = {t1}
  Panels = {x1, x2}
  Nothing = Nothing
  MaxJobs = 2
  MaxWrites = 1
  Administrators = {x1, x2}
  Streamers = {own}
  Cadence = Cadence
  Targets = {t1, t2}
  NoTarget = NoTarget
  MaxReceipts = 3
  MaxSetbacks = 2
SYMMETRY Symmetry
INVARIANTS
  OwnershipIsUnambiguous
  AnswersHoldOnce
  ResetErases
  RecoveryIsFinal
  ChangesAreAudited
PROPERTIES
  FencingIsFinal
  UsersAreVerifiedOnce
  MigrationsLoseNothing
CHECK_DEADLOCK FALSE
