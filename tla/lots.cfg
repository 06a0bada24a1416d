\* Promotions, conflicts and merges of a few LOTs; traces; figures.
SPECIFICATION LotsSpec
CONSTANTS
  None = None
  n1 = n1
  Lots = {l1, l2, l3}
  Keys = {k1, k2}
  Evidence = {e1, e2}
  Receipts = {r1}
  Stewards = {s1}
  MaxMergeDepth = 3
  MaxVersion = 4
  Materials = {m1}
  Products = {q1, q2}
  Deliveries = {a1, a2}
  Approvals = {c1, c2}
  Firms = {f1}
  FirmNames = {n1, n2}
  Verdicts = {"ACCEPTED", "REJECTED"}
  DayLength = 2
  Shift = 1
  MonthLength = 1
  LastMoment = 3
  Periods <- MCPeriods
SYMMETRY LotSymmetry
INVARIANTS
  LotsTypeOK
  ChainsEnd
  StewardsSeeEvidence
  TraceIsExact
  DecisionsCountOnce
PROPERTIES
  IdentitiesStand
  PastDecisionsStand
CHECK_DEADLOCK FALSE
