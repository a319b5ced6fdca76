\* Two releases, three changes at GitHub; two policies, two mishaps; two attributes,
\* a page and its two requests; two clips, two failures.  Two requests
\* of an account, three invitations and two batches.
CONSTANTS
  MaxTag = 2
  MaxVersions = 3
  MaxFaults = 1
  MaxVersion = 2
  MaxEpoch = 2
  former = former
  present = present
  Signers = {former, present}
  SignerOf <- MCSignerOf
  RuleSets <- MCRuleSets
  MaxMishaps = 2
  score = score
  mood = mood
  Pages = {page}
  Edits = {e1, e2}
  Attributes = {score, mood}
  Names = {1, 2}
  Rules = {rule}
  Nobody = Nobody
  InitialName <- MCName
  InitialRule <- MCRule
  MaxTokens = 2
  MaxResults = 1
  MaxPatches = 1
  Clips = {c1, c2}
  NoClip = NoClip
  MaxAccidents = 2
  Largest = 2
  MaxGrowth = 3
  red = red
  blue = blue
  Scores = {red, blue}
  NumberOfShows = 2
  ScoresOf <- MCScoresOf
  Gating = {1}
  ResultMode <- MCResultMode
  InitialScores <- MCInitialScores
  MilestonesOf <- MCMilestones
  TimeoutOf <- MCTimeout
  GiftRules <- MCGiftRules
  TimerRules <- MCTimerRules
  Skipped = 99
  NoWinner = NoWinner
  Dates = {1, 2}
  MaxTime = 2
  MaxTicks = 1
  Callers = {x1, x2}
  Batches = {b1, b2}
  Quotas = {0, 2}
  Stamps = {1, 2}
  PageSize = 1
  MaxInvitations = 3
  MaxAdjustments = 2
  MaxBlocks = 1
SPECIFICATION ProgramSpec
INVARIANTS
  NamedReleasesAreComplete
  ClipsAreServed
  EncodersEndWithThePanel
  RefusedFormulasFail
  QuotasAreAccounted
  PagesListEachOnce
PROPERTIES
  InstallsAreSafe
  AcceptedEditsLoseNothing
  PlayKeepsItsRules
CHECK_DEADLOCK FALSE
