\* Shutdown overtakes a start, a stop, a room mutation or a cleanup, while another
\* process may take the account over. One session: none is started during shutdown.
CONSTANTS
  Accounts = {a1}
  Account = a1
  Tokens = {me, other}
  Me = me
  LegacyToken = legacy
  SessionIds = {s1}
  MaxEpoch = 2
  MaxEvents = 0
  RoomEvents = {"live", "offline"}
  Clients = {"rooms", "processes", "shutdown"}
  NoSession = NoSession
  NoFence = NoFence
  NotEnded = NotEnded
  Reconciled = Reconciled
SPECIFICATION FairSpec
INVARIANTS
  ShutdownEndsTheSessions
PROPERTIES
  ImplementsOwnership
  ShutdownFinishes
  LossesAndStopsAreServed
CHECK_DEADLOCK FALSE
