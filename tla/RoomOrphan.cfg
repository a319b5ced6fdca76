CONSTANTS
  Rooms = {1}
  u1 = u1
  u2 = u2
  People = {u1}
  NoRoom = NoRoom
  MaxFaults = 1
  MaxChanges = 1
  MaxSequence = 4
SPECIFICATION RoomSpec
INVARIANT UnreferencedRoomsAreOffline
CHECK_DEADLOCK FALSE
