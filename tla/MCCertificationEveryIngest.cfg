SPECIFICATION CertificationSpec
CONSTANTS
  p1 = p1
  p2 = p2
  a = a
  b = b
  r1 = r1
  r2 = r2
  Policies = {p1}
  NoPolicy = NoPolicy
  Logs <- TwoLogs
  MaxEvents = 2
  MaxWrites = 2
  MaxTime = 3
  Window = 1
  Lookback = 2
  MaxFaults = 0
INVARIANTS
  EveryIngestCertified
CHECK_DEADLOCK FALSE
