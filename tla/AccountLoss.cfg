\* Two processes and room mutations. In three epochs the account is lost, claimed by
\* the other process and won back, or lost twice; with two sessions the second one
\* starts while the first is still being cleaned up.
CONSTANTS
  Accounts = {a1}
  Account = a1
  Tokens = {me, other}
  Me = me
  LegacyToken = legacy
  SessionIds = {s1, s2}
  MaxEpoch = 3
  MaxEvents = 0
  RoomEvents = {"live", "offline"}
  Clients = {"rooms", "processes"}
  NoSession = NoSession
  NoFence = NoFence
  NotEnded = NotEnded
  Reconciled = Reconciled
SPECIFICATION RuntimeSpec
SYMMETRY Symmetry
INVARIANTS
  CleanupIsNeverForgotten
  HeartbeatKnowsTheSession
CHECK_DEADLOCK FALSE
