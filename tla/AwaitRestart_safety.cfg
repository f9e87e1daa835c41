SPECIFICATION Spec
CONSTANTS
  Jitter = 1
  Margin = 2
  ProbeTimeout = 1
  MaxTime = 7
CHECK_DEADLOCK FALSE
INVARIANTS
  RestartOverIfPrompt
  RestartNoticed
