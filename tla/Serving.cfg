SPECIFICATION ServingFairSpec
CONSTANTS
  c1 = c1
  c2 = c2
  Calls = {c1, c2}
  Pis = {0, 1, 2, 3}
  MaxLines = 1
  Tools <- MCTools
  ReadTools <- MCReads
  ToolsetOf <- MCToolsetOf
  Toolsets <- MCToolsets
  DefaultName <- MCDefault
  Reserved <- MCReserved
  Environments <- MCEnvironments
  gravity = "gravity"
  Asks <- MCAsks
  Streams = {c2}
  MaxFanout = 1
CHECK_DEADLOCK FALSE
INVARIANTS
  ReachesNamed
  ReportTruthful
  GravityTruthful
  NotCutShort
PROPERTIES
  ShutdownEnds
