SPECIFICATION Spec
CONSTANTS
  Word = 4
  Octet = 4
  Whole = 2
  Samples <- MCSamples
  Spelt <- MCSpelt
INVARIANTS
  ReadBack
  ReadIsWritable
  OneLayout
CHECK_DEADLOCK FALSE
