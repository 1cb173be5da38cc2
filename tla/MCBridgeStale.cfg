CONSTANTS
  InCap = 2
  OutCap = 3
  FileBuf = 2
  Snapshots = FALSE
  MaxLines = 3
  MaxSessions = 2
SPECIFICATION Spec
INVARIANT FlagIsAboutThisSession
CHECK_DEADLOCK FALSE
