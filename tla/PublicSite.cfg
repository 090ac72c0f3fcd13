CONSTANTS
  Count = 3
  Name <- MCName
  Files <- MCFiles
  MaxPushes = 4
  MaxMishaps = 1
SPECIFICATION Spec
INVARIANT BoardIsBest
PROPERTY SiteCatchesUp
CHECK_DEADLOCK FALSE
