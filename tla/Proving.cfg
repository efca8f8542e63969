SPECIFICATION PSpec
CONSTANTS
  Recorded = {r}
  Unrecorded = {u}
  Cap = 3
  MaxBoots = 2
CHECK_DEADLOCK FALSE
INVARIANT EndedLeavesNothing
PROPERTY ImplementsJobs
