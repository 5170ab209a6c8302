CONSTANTS
  c1 = c1
  c2 = c2
  r1 = r1
  r2 = r2
  a1 = a1
  a2 = a2
  Creators = {c1}
  Requests = {r1, r2}
  AdminOps = {a1}
  Owner <- OwnerOne
  Key <- KeyShared
  Destinations = {"d", "e"}
  ClientKeyed = {r1, r2}
  MinPayout = 2
  MaxRetries = 2
  Credits = {2}
  MaxEarned = 4
  Leavers = {}
SPECIFICATION Spec
INVARIANTS
  OnePayoutPerKey
  NoPayoutBehindRefusal
  ReplayAnsweredWithSamePayout
SYMMETRY RequestSymmetry
CHECK_DEADLOCK FALSE
