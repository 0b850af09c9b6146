SPECIFICATION Spec
CONSTANTS
  Leaf = 2
  Grown = 1
  Stolen = {1}
  MaxTime = 1
  MaxBlocks = 3
  MaxKeys = 6
  Rotations = TRUE
  Crashes = TRUE
INVARIANTS
  TypeOK
  WalksAgree
  TipSpeaksForBranch
PROPERTIES
  HijackFails
  RootWordStands
  RevokedStaysSound
  SuspicionStays
CHECK_DEADLOCK FALSE
