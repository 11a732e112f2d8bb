SPECIFICATION DebouncerSpec
CONSTANTS
  Policies = {p1, p2}
  NoPolicy = NoPolicy
  MaxEvents = 4
INVARIANTS
  DebouncerInv
  SingleFlight
  NewestSurvives
PROPERTIES
  IdleBurstServed
  ImplementsNotifier
CHECK_DEADLOCK FALSE
