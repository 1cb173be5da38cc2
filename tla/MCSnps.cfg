CONSTANTS
  StateId = {0, 1, 2, 3}
  MAX_SNAPSHOTS = 3
  CalCycles = 1
  MaxRuns = 5
SPECIFICATION Spec
INVARIANTS
  TypeOK
  SessionEndsWithConversation
  SnapshotIsOfThisSeed
  FallsBackAfterThree
  AdapterIsOfThisSeed
CHECK_DEADLOCK FALSE
