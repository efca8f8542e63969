SPECIFICATION Spec
CONSTANTS
  Recorded = {c1, c2}
  Unrecorded = {c3}
  Cap = 3
  MaxBoots = 3
CHECK_DEADLOCK FALSE
INVARIANTS Consistent NumberIsMine
PROPERTIES RecordsKept EnqueuedEnds
