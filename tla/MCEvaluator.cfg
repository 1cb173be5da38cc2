CONSTANTS
  NumFormulas = 4
  Size <- MCSize
  Node <- MCNode
  Name <- MCName
  Label <- MCLabel
  Stoi <- MCStoi
  Unset = Unset
  Event <- MCEvent
  SnapId = {s1}
  MaxEvents = 3
SPECIFICATION Spec
INVARIANTS
  TypeOK
  PastTimeSemantics
  VerdictsOfLastEvent
PROPERTY
  ImplementsHistory
