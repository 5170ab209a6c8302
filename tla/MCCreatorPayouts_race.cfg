CONSTANTS
  c1 = c1
  c2 = c2
  r1 = r1
  r2 = r2
  a1 = a1
  a2 = a2
  Creators = {c1}
  Requests = {r1, r2}
  AdminOps = {a1, a2}
  Owner <- OwnerOne
  Key <- KeyEach
  Destinations = {"d"}
  ClientKeyed = {r1}
  MinPayout = 2
  MaxRetries = 1
  Credits = {2}
  MaxEarned = 4
  Leavers = {}
SPECIFICATION Spec
INVARIANTS
  TypeOK
  CommitsActOnCurrentState
  AtMostOneActivePayout
  EarningsConserved
  AuditTellsTheTruth
PROPERTIES
  PayoutLifecycle
  ImplementsLedger
SYMMETRY AdminSymmetry
CHECK_DEADLOCK FALSE
