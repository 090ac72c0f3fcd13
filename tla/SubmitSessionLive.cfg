CONSTANTS
  c1 = c1
  c2 = c2
  i1 = i1
  i2 = i2
  i3 = i3
  Client <- MCClient
  Id <- MCTwoIds
  Payload = {"good", "client_error"}
  MaxTries = 1
  Limit = 1
SPECIFICATION Spec
PROPERTIES
  ServedUnlessStopped
  ListedIsAnswered
  ExitCompletes
CHECK_DEADLOCK FALSE
