SPECIFICATION VaultSpec
CONSTANTS
  Clients = {a1, a2}
  User = user
  Seeds = {s1, s2}
  NoSeed = NoSeed
  UnlockCalls = {u1, u2}
  OneCommand = TRUE
  MaxIndex = 2
SYMMETRY Symmetry
CHECK_DEADLOCK FALSE
INVARIANTS VaultTypeOK MemoryMatchesDisk OneOwnerPerAddress IndicesDense SeedNeverLost
PROPERTY KeepsLedger
