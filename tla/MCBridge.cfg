CONSTANTS
  InCap = 1
  OutCap = 2
  FileBuf = 2
  Snapshots = TRUE
  MaxLines = 3
  MaxSessions = 3
SPECIFICATION FairSpec
INVARIANTS
  TypeOK
  ViolatingSessionIsFlagged
  EachHitHasItsOwnViolation
  BlockedOnlyOverCapacity
PROPERTY
  CallsReturn
CHECK_DEADLOCK FALSE
