SPECIFICATION CertificationSpec
CONSTANTS
  p1 = p1
  p2 = p2
  a = a
  b = b
  r1 = r1
  r2 = r2
  Policies = {p1, p2}
  NoPolicy = NoPolicy
  Logs <- AllLogs
  MaxEvents = 3
  MaxWrites = 3
  MaxTime = 2
  Window = 1
  Lookback = 1
  MaxFaults = 1
INVARIANTS
  CertificationInv
  FlagAgreesWithVerdicts
  HandledEventCoversItsWindow
PROPERTIES
  VerdictsNeverRegress
CHECK_DEADLOCK FALSE
