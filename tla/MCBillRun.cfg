SPECIFICATION Spec
CONSTANTS
  Refs = {r1, r2, r3}
  Nodes = {0, 1}
  Indexes = {0, 1}
  Hours = {1, 2}
  Times = {0, 1}
  Bills <- MCBills
  Spends <- MCSpends
  MaxSpends = 3
SYMMETRY Symmetry
INVARIANTS
  TypeOK
  NeverOverdrawn
  ThreadIsLinear
  WalkMeetsDefinition
CHECK_DEADLOCK FALSE
