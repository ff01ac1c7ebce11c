SPECIFICATION LaneFairSpec
CONSTANTS
  Streams = {s1, s2}
  AuthorOf <- MCAuthorOf
  Sources <- MCSources
  Ladder = {1, 2}
  Floor = 1
  EncodeCost <- MCEncodeCost
  DecodeCost <- MCDecodeCost
  CpuBudget = 14
  CardSessions = 2
  MinRung = 3
  Nominal = 9
  NominalCard <- MCNominalCard
  MaxLadders = 2
  CardConfigured = TRUE
  HasCard = TRUE
  None = None
  MaxEvents = 3
  MaxJobs = 2
INVARIANT WithinBudget
PROPERTIES ReplanKeepsLadder EndedForGood LeaseKept OrphansEnd FlaggedEnds
CHECK_DEADLOCK FALSE
