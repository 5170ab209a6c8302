SPECIFICATION Spec
CONSTANTS
  u1 = u1
  u2 = u2
  u3 = u3
  Users = {u1, u2, u3}
  Calls = {c1, c2, c3}
  Blocked <- BlockedPairs
  MaxScan = 25
  Suspendable = {}
  Waiting <- WaitingUsers
SYMMETRY CallSymmetry
CHECK_DEADLOCK FALSE
INVARIANT MatchedAnswerIsReal
