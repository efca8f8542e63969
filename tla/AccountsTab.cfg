SPECIFICATION Spec
CONSTANTS
  Accounts = {a, b}
  Networks = {sep, main}
  Nobody = Nobody
  MaxClicks = 2
  MaxTroubles = 1
CHECK_DEADLOCK FALSE
INVARIANTS MarkersAreTrue OneDeployInFlight
PROPERTY ShownSettles
