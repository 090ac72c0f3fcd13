CONSTANTS
  r1 = r1
  r2 = r2
  r3 = r3
  Foreign = Foreign
  Inventory <- MCInventory
  Candidates <- MCCandidates
  ShortlistSize = 2
  Generations = 2
  Actions = 2
  MaxRuns = 2
SPECIFICATION FairSpec
INVARIANTS
  TypeOK
  RankableIsValid
  LosesAtMostOneEpisode
PROPERTIES
  ImplementsRecord
  RunEnds
CHECK_DEADLOCK FALSE
