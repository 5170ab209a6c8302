SPECIFICATION FairSpec
CONSTANTS
  ann = ann
  bea = bea
  cleo = cleo
  i1 = i1
  i2 = i2
  i3 = i3
  Users = {ann, bea, cleo}
  Invites = {i1, i2, i3}
  From <- ThreeFrom
  To <- ThreeTo
  Paid = {i1}
  Debited = {i1}
  Requests = {r1}
  Price = 10
  Percent = 20
  Cap = 15
  Interval = 2
  MaxClock = 0
  MaxFunds = 10
INVARIANTS
  OneLiveCallPerUser
  EarnedOrRefunded
PROPERTIES
  CallLifecycle
  SocialCallsEnd
CHECK_DEADLOCK FALSE
