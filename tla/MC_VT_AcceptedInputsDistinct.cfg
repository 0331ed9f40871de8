\* Violation run: AcceptedInputsDistinct
CONSTANTS
  cb0 = cb0
  cb1 = cb1
  p1 = p1
  m1 = m1
  s1 = s1
  m2 = m2
  CandHash = cand
  NullHash = nullHash
  NullIndex = 7
  MaxMoney = 3
  TxIds <- MCTxIds
  Body <- MCBody
  PoolTxs <- MCPool
  PoolArrivals <- MCArrivals
  Candidates <- MCCandidates
  InitHeight <- MCInitHeight
  InitTip = 2
  MaxHeight = 4
  Minable <- MCMinable
  CoinbaseMaturity = 2
  SizeWidth = 16
SPECIFICATION Spec
INVARIANTS
  AcceptedInputsDistinct
CHECK_DEADLOCK FALSE
