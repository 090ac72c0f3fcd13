CONSTANTS
  NoResult = NoResult
  Leader = Leader
  k1 = k1
  k2 = k2
  Child <- MCChild
  MaxChars = 9
  Chunk = 3
  Retained = 5
SPECIFICATION Spec
INVARIANTS
  TypeOK
  CaptureIsExact
  NothingSurvives
PROPERTY RunsEnd
CHECK_DEADLOCK FALSE
