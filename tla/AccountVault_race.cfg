SPECIFICATION VaultSpec
CONSTANTS
  Clients = {a1, a2}
  User = user
  Seeds = {s1}
  NoSeed = NoSeed
  UnlockCalls = {u1, u2}
  OneCommand = FALSE
  MaxIndex = 1
SYMMETRY Symmetry
CHECK_DEADLOCK FALSE
INVARIANT OneOwnerPerAddress
