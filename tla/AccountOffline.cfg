\* Room mutations, an administrator and a room that goes offline: one session and one
\* epoch are enough for the disagreement.
CONSTANTS
  Accounts = {a1}
  Account = a1
  Tokens = {me}
  Me = me
  LegacyToken = legacy
  SessionIds = {s1}
  MaxEpoch = 1
  MaxEvents = 0
  RoomEvents = {"live", "offline"}
  Clients = {"rooms", "administrator"}
  NoSession = NoSession
  NoFence = NoFence
  NotEnded = NotEnded
  Reconciled = Reconciled
SPECIFICATION RuntimeSpec
INVARIANTS
  OfflineLeavesNothingRunning
CHECK_DEADLOCK FALSE
