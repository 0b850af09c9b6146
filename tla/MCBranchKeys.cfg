SPECIFICATION Spec
CONSTANTS
  Keys = {0, 1, 2, 3, 4, 5, 8, 9}
  NoKey = NoKey
  Blocks <- MCBlocks
  Certs <- MCCerts
  Paths <- MCPaths
  OwnBlocks <- MCOwnBlocks
  OwnPaths <- MCOwnPaths
  NoPath = NoPath
  NoRev = NoRev
  Nothing = Nothing
  Threads = 2
  MaxRestarts = 1
INVARIANTS
  TypeOK
  HighestDecides
  ReplacementLine
  ServedPathChecks
PROPERTIES
  OwnLineGrows
  VerdictsSurviveRestart
CHECK_DEADLOCK FALSE
