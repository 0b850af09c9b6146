SPECIFICATION FairBookSpec
CONSTANTS
  Chains = {h, s}
  Holder = h
  Credit = 1
  MaxDeals = 3
  MaxTime = 4
  LastOffer = 2
  Term = 1
  Lag = 0
  MaxStamps = 0
  Losses = FALSE
INVARIANTS
  NeverOverpaid
PROPERTIES
  InformedOfferIsBacked
  ImplementsEscrow
  PaymentNeverHangs
CHECK_DEADLOCK FALSE
