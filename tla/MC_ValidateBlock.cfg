\* The organizer appends valid blocks up to height MaxHeight.
CONSTANTS
  g = g
  cA = cA
  cB = cB
  cC = cC
  t1 = t1
  t2 = t2
  t3 = t3
  t4 = t4
  t5 = t5
  t6 = t6
  t7 = t7
  tE = tE
  tX = tX
  NullHash = nullHash
  NullIndex = 7
  MaxMoney = 4
  TxIds <- MCTxIds
  Body <- MCBody
  Scripts <- MCScripts
  Genesis = g
  Blocks <- MCBlocks
  Junk <- NoJunk
  CoinbaseMaturity = 2
  MaxBlockSigops = 2
  Bip30Exceptions = {2}
  InitialSubsidy = 2
  HalvingInterval = 3
  Bip16SwitchoverTime = 41
  Base = 4
  MantDigits = 3
  MaxTarget = 960
  TargetTimespan = 8
  ReadjustmentInterval = 2
  Checkpoints <- MCCheckpoints
  Deltas = {1, 40}
  Hashes = {0, 700}
  BadBits <- MCBadBits
  MaxHeight = 4
SPECIFICATION Spec
CONSTRAINT HeightBound
INVARIANTS
  TypeOK
  SupplyBounded
PROPERTIES
  ValueLostOnlyAtExceptions
  ImplementsUtxoLedger
