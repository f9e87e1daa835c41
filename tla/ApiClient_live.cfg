SPECIFICATION FairSpec
CONSTANTS
  p1 = p1
  p2 = p2
  s1 = s1
  s2 = s2
  s3 = s3
  NoSid = NoSid
  Nobody = Nobody
  Procs <- TwoCalls
  Sids <- TwoSids
  Kinds <- ReadsOnly
  MaxRetries = 1
  DrainWaits = TRUE
CHECK_DEADLOCK FALSE
PROPERTIES
  CallReturns
