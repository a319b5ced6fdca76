\* Two people, two rooms, one fault (see MCCrashed).  Two accounts that ask and the
\* prober; two codes, two authorizations, two requests that spend them, a page that polls.
CONSTANTS
  Rooms = {1, 2}
  u1 = u1
  u2 = u2
  People = {u1, u2}
  NoRoom = NoRoom
  MaxFaults = 1
  MaxChanges = 2
  MaxSequence = 6
  Accounts = {a1, a2}
  Prober = prober
  Lookups = {room}
  Openings = {o1}
  GlobalBudget = 3
  AccountBudget = 2
  EndpointBudget = 2
  ProbeBudget = 2
  Minute = 1
  Patience = 1
  RiskSamples = 2
  RiskScopes = 2
  Trials = 2
  Codes = {q1, q2}
  Confirmed = {x1, x2}
  Replacers = {r1, r2}
  Pollers = {p1}
SPECIFICATION WatchingSpec
INVARIANTS
  OutboxTellsTheRooms
  ProjectionFollowsTheOutbox
  CoalescedWakeUpsLoseNothing
  TrialsAreAnswered
  ReplacementsAreWhole
PROPERTIES
  ObservationsAreOfThisReference
  ExpiredGraceEndsTheBroadcast
CHECK_DEADLOCK FALSE
