CONSTANTS
  Count = 2
  Submission <- MCSubmission
  Kinds = {"ranked", "test", "unpublishable", "refused", "raises"}
  MaxMishaps = 2
  MaxPRs = 2
SPECIFICATION FairSpec
INVARIANTS
  TypeOK
  NothingLost
  MovedIsDecided
  PublicIsBacked
PROPERTIES
  ImplementsLifecycle
  LeavesQueue
  RankedUnlessBlocked
CHECK_DEADLOCK FALSE
