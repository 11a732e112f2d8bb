SPECIFICATION RolesSpec
CONSTANTS
  Requests = {q1, q2}
  a = a
  b = b
  Emails = {a, b}
  Identities <- MCIdentities
  Operations <- MCOperations
  MaxRequests = 2
  MaxFaults = 0
PROPERTIES
  PromotionFindsNoAdmin
SYMMETRY Symmetry
CHECK_DEADLOCK FALSE
