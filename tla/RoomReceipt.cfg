\* The streamer changes the room, and again; nothing fails.
CONSTANTS
  Administrators = {m1}
  Streamers = {own}
  Cadence = Cadence
  Targets = {t1, t2}
  NoTarget = NoTarget
  MaxReceipts = 2
  MaxSetbacks = 0
SPECIFICATION MutationSpec
INVARIANT StreamersChooseTheirRoom
CHECK_DEADLOCK FALSE
