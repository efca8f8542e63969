SPECIFICATION Spec
CONSTANTS
  agent = agent
  app = app
  manager = manager
  a1 = a1
  Requests = {r1}
  Clients = {agent, app}
  Apps = {app}
  Accounts = {manager, a1}
  Manager = manager
  Owner <- MCOwner
  Chains = {sep, main}
  Default = Default
  Methods = {"sign", "invoke", "declare", "prove", "deploy", "fund", "create", "grant", "switch", "watch"}
  Desktop = Desktop
  MaxNonce = 2
  MaxMoves = 1
CHECK_DEADLOCK FALSE
INVARIANTS Permitted LogTellsTheTruth
PROPERTY AnsweredOrGone
