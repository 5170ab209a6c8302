SPECIFICATION Spec
CONSTANTS
  ann = ann
  bea = bea
  cleo = cleo
  i1 = i1
  i2 = i2
  i3 = i3
  Users = {ann, bea}
  Invites = {i1}
  From <- OneFrom
  To <- OneTo
  Paid = {i1}
  Debited = {}
  Requests = {r1, r2, r3}
  Price = 10
  Percent = 20
  Cap = 40
  Interval = 2
  MaxClock = 2
  MaxFunds = 30
INVARIANTS
  TypeOK
  BooksBalance
  MinutesApart
  BilledMeansCharged
PROPERTY
  NoChargeAfterEnd
CHECK_DEADLOCK FALSE
SYMMETRY SameRequests
