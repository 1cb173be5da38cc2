CONSTANTS
  NumFormulas = 1
  Size <- MCYesterdaySize
  Node <- MCYesterdayNode
  Name <- MCName
  Label <- MCLabel
  Stoi <- MCStoi
  Unset = Unset
  Event <- MCEvent
  SnapId = {s1}
  MaxEvents = 3
SPECIFICATION Spec
INVARIANT PastTimeSemanticsOfAll
