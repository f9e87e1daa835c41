SPECIFICATION Spec
CONSTANTS
  a1 = a1
  a2 = a2
  b = b
  c = c
  p = p
  q = q
  r1 = r1
  r2 = r2
  s1 = s1
  s2 = s2
  junk = junk
  net = net
  host = host
  third = third
  proxies = proxies
  Addresses <- Hosts
  Trusted <- Proxies
  KeyOf <- Rates
  Forged <- Sent
  Routes <- Ways
  Headers <- Names
  HostOf <- HostOfName
  Allowlist = {"::1"}
  Credentials = {"right", "wrong", "absent"}
  Token = "right"
  Absent = "absent"
  Sessions = {s1, s2}
  Requests = {r1, r2}
  Ids = {1, 2, 3, 4}
  Rate = 1
  Burst = 4
  Cost = 4
  Factor = 2
  FailRate = 1
  FailBurst = 2
  MaxTracked = 2
  MaxSessions = 1
  IdleTtl = 1
  WarnGap = 1
  MaxTime = 5
VIEW View
SYMMETRY Symmetry
CONSTRAINT InScope
INVARIANTS
  RateKept
