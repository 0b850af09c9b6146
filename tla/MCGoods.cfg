SPECIFICATION MCSpec
CONSTANTS
  maker = maker
  ann = ann
  bob = bob
  Parties <- MCParties
  Maker = maker
  Qty = 2
  Term = 1
  Careful = TRUE
  MaxLog = 8
  MaxTime = 2
SYMMETRY Buyers
INVARIANTS LotNeverOversold LinksCheckOut AcceptedCounts
CHECK_DEADLOCK FALSE
