\* The administrator disables and enables the account while it runs, joins and leaves
\* the room and is mutated; it loses its fence by expiry alone.
CONSTANTS
  Accounts = {a1}
  Account = a1
  Tokens = {me}
  Me = me
  LegacyToken = legacy
  SessionIds = {s1}
  MaxEpoch = 1
  MaxEvents = 0
  RoomEvents = {"live", "leave", "join"}
  Clients = {"administrator", "rooms"}
  NoSession = NoSession
  NoFence = NoFence
  NotEnded = NotEnded
  Reconciled = Reconciled
SPECIFICATION FairSpec
INVARIANTS
  ProjectionIsNotPhantom
PROPERTIES
  DisabledAccountStops
CHECK_DEADLOCK FALSE
