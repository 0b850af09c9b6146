CONSTANTS
  a = a
  b = b
  s1 = s1
  s2 = s2
  Party <- MCParty
  Session <- MCSession
  Times = {0, 2}
  Slack = 1
  Cap = 2
  MaxFaults = 1
  MaxGrow = 1
  MaxByHand = 3
SPECIFICATION MCSpec
INVARIANTS SnapshotIsCommitted UnionsAreProvable
PROPERTIES ImplementsPact CalmMergeCompletes
CHECK_DEADLOCK FALSE
