\* The administrator disables the account and enables it again; nothing else happens
\* to it but a live event.
CONSTANTS
  Accounts = {a1}
  Account = a1
  Tokens = {me}
  Me = me
  LegacyToken = legacy
  SessionIds = {s1}
  MaxEpoch = 1
  MaxEvents = 0
  RoomEvents = {"live"}
  Clients = {"administrator"}
  NoSession = NoSession
  NoFence = NoFence
  NotEnded = NotEnded
  Reconciled = Reconciled
SPECIFICATION FairSpec
PROPERTIES
  ReenabledAccountIsAdmitted
CHECK_DEADLOCK FALSE
