CONSTANTS
  NumFormulas = 2
  Size <- MCSize
  Node <- MCNode
  Name <- MCName
  Label <- MCLabel
  Stoi <- MCStoi
  Unset = "unset"
  Event <- MCEvent
  SnapId = {s1}
  MaxEvents = 2
  Line <- MCLine
  NoRef = "none"
  Protocols = {"generic"}
  EnumConstant <- MCEnumConstant
  TypeOf <- MCTypeOf
  TRACE_WINDOW = 1
  MaxSessions = 1
  MaxViolations = 2
SPECIFICATION MonSpec
INVARIANT DumpIsFullSession
CHECK_DEADLOCK FALSE
