SPECIFICATION Spec
CONSTANTS
  agent = agent
  app = app
  manager = manager
  a1 = a1
  Requests = {r1, r2}
  Clients = {app}
  Apps = {app}
  Accounts = {manager}
  Manager = manager
  Owner <- MCNoOwner
  Chains = {sep, main}
  Default = Default
  Methods = {"invoke", "grant", "switch"}
  Desktop = Desktop
  MaxNonce = 1
  MaxMoves = 1
CHECK_DEADLOCK FALSE
SYMMETRY Symmetry
INVARIANTS Consistent DoneAsShown
