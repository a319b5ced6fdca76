\* Of three goroutines one holds the gate, two wait, any of them is cancelled; the
\* generations wrap around.  Two gifts, one of them without an ID, over two sessions.
\* Two subscribers of a room whose connection is opened three times.
\* Two rooms that a user configures, one of them with a gift and its animation.
SPECIFICATION StreamSpec
CONSTANTS
  Threads = {g1, g2, g3}
  Nobody = Nobody
  MaxGeneration = 1
  Gifts = {1, 2}
  Identified = {1}
  MaxSessions = 2
  MaxBuffered = 2
  GiftFaults = 2
  MaxArrivals = 2
  MaxEdits = 1
  Subscribers = {s1, s2}
  Capacity = 1
  MaxConnections = 3
  MaxCallbacks = 2
  roomA = roomA
  roomB = roomB
  sweets = sweets
  Rooms = {roomA, roomB}
  NoRoom = NoRoom
  Presents = {sweets}
  RoomOf <- MCRoomOf
  MaxTroubles = 3
INVARIANTS
  AnimationsMeetTheirGifts
PROPERTIES
  TheConfiguredRoomIsShown
  IsFifoLock
  EveryCallReturns
  AcceptedGiftsAreCountedInOrder
  BufferedGiftsAreSettled
  RoomsHaveOneConnection
  ClosedSourcesDisappear
CHECK_DEADLOCK FALSE
