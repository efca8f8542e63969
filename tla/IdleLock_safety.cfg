SPECIFICATION Spec
CONSTANTS
  FreeAttempts = 1
  BaseDelay = 1
  MaxDelay = 2
  Window = 2
  Poll = 1
  AutoHide = 2
  Unlocks = 2
  MaxMisses = 4
CHECK_DEADLOCK FALSE
INVARIANTS Consistent BoundedExposure MissesArePaidFor
PROPERTIES OverdueLocks
