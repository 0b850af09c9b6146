SPECIFICATION Spec
CONSTANTS
  Chains = {h, s}
  Holder = h
  Credit = 1
  MaxDeals = 1
  MaxTime = 3
  LastOffer = 1
  Term = 1
  Lag = 2
  MaxStamps = 2
  Losses = TRUE
INVARIANTS
  TypeOK
PROPERTIES
  LapseIsFinal
CHECK_DEADLOCK FALSE
