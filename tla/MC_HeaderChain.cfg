CONSTANTS
  Base = 4
  MantDigits = 3
  MaxTarget = 960
  TargetTimespan = 8
  ReadjustmentInterval = 2
  Checkpoints <- MCCheckpoints
  Hashes = {0, 100, 700}
  Deltas = {1, 8, 40}
  BadBits <- MCBadBits
  MaxHeight = 6
SPECIFICATION Spec
CONSTRAINT HeightBound
INVARIANTS
  NextWorkValid
  RetargetWithinFactorFour
