SPECIFICATION Spec
CONSTANTS
  Workers = {w1, w2}
  MaxCustomers = 2
  MaxCheckouts = 2
  MaxFaults = 1
SYMMETRY SameWorkers
INVARIANTS
  TypeOK
  InFlightIsFenced
  OneCustomer
  KnownCustomers
  OneOpenCheckout
PROPERTIES
  NoResurrection
  DeletionVerified
  ImplementsFence
CHECK_DEADLOCK FALSE
