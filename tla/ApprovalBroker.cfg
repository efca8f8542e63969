SPECIFICATION Spec
CONSTANTS
  Requests = {r1, r2}
  Buffer = 1
CHECK_DEADLOCK FALSE
INVARIANTS Consistent ApprovedByUser
PROPERTIES DecidesOnce EveryPromptSettlesOnce
