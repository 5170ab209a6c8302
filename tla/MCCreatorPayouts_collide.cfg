CONSTANTS
  c1 = c1
  c2 = c2
  r1 = r1
  r2 = r2
  a1 = a1
  a2 = a2
  Creators = {c1, c2}
  Requests = {r1, r2}
  AdminOps = {a1}
  Owner <- OwnerTwo
  Key <- KeyShared
  Destinations = {"d"}
  ClientKeyed = {r1, r2}
  MinPayout = 2
  MaxRetries = 1
  Credits = {2}
  MaxEarned = 2
  Leavers = {c2}
SPECIFICATION FairSpec
INVARIANTS
  SuccessIsDurable
PROPERTIES
  EveryRequestAnswered
CHECK_DEADLOCK FALSE
