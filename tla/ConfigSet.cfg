SPECIFICATION SetSpec
CONSTANTS
  p1 = p1
  p2 = p2
  a = a
  b = b
  Procs <- TwoCalls
  Settings <- ThreeSettings
  Names <- TwoNames
  Aliases <- CNAMEs
  Restarting <- CNAMEs
  Given <- SomeArrays
  MaxLate = 1
  Payloads <- MCPayloads
  Fold <- MCFold
  Credentials <- MCCredentials
  MaxDepth = 4
  PathOf <- MCPathOf
  Risky <- Files
  Archives <- MCArchives
SYMMETRY Symmetry
CONSTRAINT OneAxis
INVARIANTS
  LocksReturned
  SetsWhatWasNamed
PROPERTIES
  DropsOneName
  ReportsOwnChange
  RiskyStays
