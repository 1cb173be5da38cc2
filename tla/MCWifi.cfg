CONSTANTS
  MaxCalls = 4
  MaxRestarts = 2
SPECIFICATION Spec
INVARIANTS
  TypeOK
  AnswerIsOfThisTrace
  ErasedOnlyByRestarts
PROPERTY CallReturns
CHECK_DEADLOCK FALSE
