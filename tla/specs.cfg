\* Two editors create, reschedule, activate, retire and rescope.
SPECIFICATION SpecsSpec
CONSTANTS
  None = None
  Profiles = {p1, p2}
  Revisions = {v1, v2}
  Scopes = {s1, s2}
  days1 = days1
  days2 = days2
  Windows <- MCWindows
  VersionNumbers = {n1, n2}
  SpecEditors = {u1, u2}
  MaxSpecVersion = 2
  MaxProfileVersion = 1
INVARIANTS
  OneSpecInForce
PROPERTIES
  BoundScopeStays
SYMMETRY SpecSymmetry
CHECK_DEADLOCK FALSE
