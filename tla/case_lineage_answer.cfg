\* The answer of a retest runs ahead of its row, and another inspector moves
\* the row to the version the answer carries.
SPECIFICATION Spec
CONSTANTS
  c1 = c1
  c2 = c2
  c3 = c3
  c4 = c4
  insp = insp
  dual = dual
  lead = lead
  x = x
  y = y
  v1 = v1
  v2 = v2
  v3 = v3
  Cases = {c1, c2}
  Inspectors = {insp, dual}
  Leads = {lead}
  Items = {x}
  Policy <- MCPolicyPriority
  Readings = {"ACCEPTED", "UNREADABLE"}
  Versions = {v1}
  Profile <- MCProfile
  Scope <- MCScope
  MaxVersion = 4
INVARIANT NoLostUpdate
CONSTRAINT SurroundingsSettled
CHECK_DEADLOCK FALSE
