CONSTANTS
  Name = {"x", "y", "k"}
  Number = {"7", "-"}
  Convertible = {"7"}
  MaxComparisons = 1
SPECIFICATION Spec
INVARIANTS
  ConstantsAreSane
  AcceptedFormulaEvaluates
CHECK_DEADLOCK FALSE
