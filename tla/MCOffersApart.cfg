SPECIFICATION Spec
CONSTANTS
  Chains = {h, s, t}
  Holder = h
  Credit = 1
  MaxDeals = 2
  MaxTime = 3
  LastOffer = 2
  Term = 1
  Lag = 0
  MaxStamps = 1
  Losses = TRUE
SYMMETRY Symmetry
INVARIANTS
  TableNeverOverspent
  AutoAcceptStands
PROPERTIES
  AnswerIsFinal
CHECK_DEADLOCK FALSE
