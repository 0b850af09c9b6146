SPECIFICATION Spec
CONSTANTS
  Commands = {c1, c2}
  Hours = {1}
  Term = 1
  MaxOffers = 2
  MaxChain = 4
  MaxTime = 2
INVARIANTS
  RepaidIsRepaid
  AccusedOnlyIfCrossed
SYMMETRY Symmetry
CHECK_DEADLOCK FALSE
CONSTRAINT BeforeFork
