SPECIFICATION Spec
CONSTANTS
  Workers = {w1}
  MaxCustomers = 1
  MaxCheckouts = 1
  MaxFaults = 0
INVARIANTS
  NothingBilledAfterDeletion
CHECK_DEADLOCK FALSE
