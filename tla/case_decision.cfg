\* One case, two inspectors and two leads, one of them both: the decision.
SPECIFICATION Spec
CONSTANTS
  c1 = c1
  c2 = c2
  c3 = c3
  c4 = c4
  insp = insp
  dual = dual
  lead = lead
  x = x
  y = y
  v1 = v1
  v2 = v2
  v3 = v3
  Cases = {c1}
  Inspectors = {insp, dual}
  Leads = {dual, lead}
  Items = {x}
  Policy <- MCPolicyBoth
  Readings = {"ACCEPTED", "REJECTED"}
  Versions = {v1}
  Profile <- MCProfile
  Scope <- MCScope
  MaxVersion = 8
INVARIANTS
  DecisionsFollowEvidence
  FourEyes
  ApproverSawEvidence
  OriginalsLoseNoUpdate
PROPERTIES
  FinalDecisionStands
\* The version and the LOT stay; case_spec_change moves them.
CONSTRAINT SurroundingsSettled
\* The case may end decided.
CHECK_DEADLOCK FALSE
