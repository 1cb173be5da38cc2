CONSTANTS
  NumFormulas = 2
  Size <- MCSize
  Node <- MCNode
  Name <- MCName
  Label <- MCLabel
  Stoi <- MCStoi
  Unset = "unset"
  Event <- MCEvent
  SnapId = {s1, s2}
  MaxEvents = 2
  Line <- MCLine
  NoRef = "none"
  Protocols = {"dnsmasq", "dns", "ssh", "rtsp", "dtls", "sip", "ftp", "generic"}
  EnumConstant <- MCEnumConstant
  TypeOf <- MCTypeOf
  TRACE_WINDOW = 1
  MaxSessions = 1
  MaxViolations = 2
SPECIFICATION MonSpec
INVARIANTS
  MonTypeOK
  IndexIsEventCount
  TraceFitsSession
  TraceExplainsVerdict
PROPERTY
  DroppedViolationResurfaces
SYMMETRY IdSymmetry
CONSTRAINT BoundSecondSnapshot
CHECK_DEADLOCK FALSE
