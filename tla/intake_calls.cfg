\* Three calls under two keys, racing, retried and crashing.
SPECIFICATION FairSpec
CONSTANTS
  None = None
  k1 = k1 n1 = n1 n2 = n2 i1 = i1 i2 = i2 today = today yesterday = yesterday
  Calls = {1, 2, 3}
  Keys = {k1, k2}
  Requests <- MCRequests
ACTION_CONSTRAINT FirstKey
INVARIANTS
  Idempotent
PROPERTIES
  CallsSettle
CHECK_DEADLOCK FALSE
