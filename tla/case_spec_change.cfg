\* Versions of two scopes, two of the same, come and go around one case.
SPECIFICATION Spec
CONSTANTS
  c1 = c1
  c2 = c2
  c3 = c3
  c4 = c4
  insp = insp
  dual = dual
  lead = lead
  x = x
  y = y
  v1 = v1
  v2 = v2
  v3 = v3
  Cases = {c1}
  Inspectors = {insp}
  Leads = {lead}
  Items = {x}
  Policy <- MCPolicyPriority
  Readings = {"ACCEPTED"}
  Versions = {v1, v2, v3}
  Profile <- MCProfile
  Scope <- MCScope
  MaxVersion = 4
PROPERTIES
  RetiredSpecDecidesNothing
CONSTRAINT LotSettled
CHECK_DEADLOCK FALSE
