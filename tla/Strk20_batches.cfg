SPECIFICATION Spec
CONSTANTS
  Me = Me
  Bob = Bob
  AVNU = AVNU
  Strk = Strk
  Eth = Eth
  Nothing = Nothing
  Owner = Me
  Sender = Bob
  Relayer = AVNU
  FeeToken = Strk
  Requests = {r1}
  Wishes <- MCWishes
  OtherIntents <- MCOtherIntents
  Quotes = {0, 1}
  PoolFee = 1
  Gifts = {1}
  InitialPools <- MCPools
  InitialFunds <- MCFunds
  Lag = 1
  MaxHeight = 3
CHECK_DEADLOCK FALSE
INVARIANTS Consistent StaleOnlyByRace NothingLost BalanceOfOneBlock
PROPERTY KeepsLedger
