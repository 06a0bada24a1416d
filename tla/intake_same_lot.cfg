\* Two calls under keys of their own create the same LOT at once.
SPECIFICATION Spec
CONSTANTS
  None = None
  k1 = k1 n1 = n1 n2 = n2 i1 = i1 i2 = i2 today = today yesterday = yesterday
  Calls = {1, 2}
  Keys = {k1, k2}
  Requests <- MCOneRequest
INVARIANTS
  ConcurrentIntakesMeet
CHECK_DEADLOCK FALSE
