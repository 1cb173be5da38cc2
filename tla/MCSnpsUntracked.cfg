CONSTANTS
  StateId = {0, 1, 2}
  MAX_SNAPSHOTS = 2
  CalCycles = 1
  MaxRuns = 5
SPECIFICATION Spec
INVARIANTS
  MonitorFollowsEverySnapshot
CHECK_DEADLOCK FALSE
