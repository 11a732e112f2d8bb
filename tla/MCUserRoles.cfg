SPECIFICATION RolesSpec
CONSTANTS
  Requests = {q1, q2}
  a = a
  b = b
  Emails = {a, b}
  Identities <- MCIdentities
  Operations <- MCOperations
  MaxRequests = 3
  MaxFaults = 1
INVARIANTS
  RolesInv
  TrailExplainsRoles
PROPERTIES
  ServedMeansEntitled
  ChangesAreDecided
SYMMETRY Symmetry
CHECK_DEADLOCK FALSE
