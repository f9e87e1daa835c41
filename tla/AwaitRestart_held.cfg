SPECIFICATION Spec
CONSTANTS
  Jitter = 0
  Margin = 2
  ProbeTimeout = 1
  MaxTime = 4
CHECK_DEADLOCK FALSE
INVARIANTS
  RestartOver
