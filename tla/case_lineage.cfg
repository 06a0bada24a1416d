\* Corrections and retests of finalized cases, and their collisions.
SPECIFICATION Spec
CONSTANTS
  c1 = c1
  c2 = c2
  c3 = c3
  c4 = c4
  insp = insp
  dual = dual
  lead = lead
  x = x
  y = y
  v1 = v1
  v2 = v2
  v3 = v3
  Cases = {c1, c2, c3}
  Inspectors = {insp}
  Leads = {lead}
  Items = {x}
  Policy <- MCPolicyPriority
  Readings = {"ACCEPTED"}
  Versions = {v1}
  Profile <- MCProfile
  Scope <- MCScope
  MaxVersion = 3
INVARIANTS
  LineageIsAChain
CONSTRAINT SurroundingsSettled
SYMMETRY CaseSymmetry
CHECK_DEADLOCK FALSE
