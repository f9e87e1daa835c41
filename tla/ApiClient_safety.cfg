SPECIFICATION Spec
CONSTANTS
  p1 = p1
  p2 = p2
  s1 = s1
  s2 = s2
  s3 = s3
  NoSid = NoSid
  Nobody = Nobody
  Procs <- TwoCalls
  Sids <- ThreeSids
  Kinds <- AllKinds
  MaxRetries = 1
  DrainWaits = TRUE
SYMMETRY Symmetry
CHECK_DEADLOCK FALSE
INVARIANTS
  AtMostOnce
  OutcomeTruthful
  OneSeat
PROPERTIES
  SeatReleased
