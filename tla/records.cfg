\* Nonconformances, master data, aliases, the ingest, the workbench, samples and leases.
SPECIFICATION DesksSpec
CONSTANTS
  None = None
  clerk = clerk
  inspector = inspector
  way = way
  Records = {ncr1}
  Numbers = {1}
  Clerks = {clerk, inspector}
  RoleOf <- MCRoleOf
  Ways = {way}
  Quantities = {0, 1}
  Bodies <- MCBodies
  ActionTypes = {"COMPLETION"}
  Documents = {d1}
  MaxRecordVersion = 3
  Entities = {"MATERIAL", "MATERIAL_MODEL"}
  Codes = {1}
  RecordNames = {"", "a"}
  Blank = ""
  Editors = {editor}
  Batches = {b1, b2}
  Sheets <- MCSheets
  Databases = {"postgresql", "sqlite"}
  MaxMasters = 2
  MaxMasterVersion = 3
  TestItems = {i1}
  Texts = {x1}
  References = {"supplier", "model"}
  Targets = {t1}
  Priorities = {1, 2}
  Registrars = {g1}
  MaxAliases = 2
  MaxAliasVersion = 3
  f1 = f1
  Entries <- MCEntries
  Contents = {content1, content2}
  Quiet = 1
  MaxClock = 2
  MaxWrites = 3
  DocumentFields = {lotfield}
  Matches = {match}
  NumericTests = {t1}
  NominalTests = {t2}
  Lower = 1
  Upper = 2
  NumericRows <- MCNumericRows
  NominalRows <- MCNominalRows
  TypedQuantities = {2, 3, 5}
  Rest = 1
  Grain = 2
  Rules <- MCRules
  ItemPolicies <- MCPolicies
  Values <- MCValues
  Legible = 1
  MaxSamples = 3
  Workers = {w1, w2}
  Hashes = {h1, h2}
  Results = {a1, a2}
  LeaseFor = 1
  MaxMoment = 3
INVARIANTS
  RecordsTypeOK
  ImportsAreWhole
  ScopesStayApart
  IngestedAsFound
  CompleteWhenOffered
  FrozenDecisionFollows
  AggregateStandsForSamples
  AcceptedOnEvidence
  OneRequest
PROPERTIES
  ApprovedRecordStays
  ChangesWereRead
  AnswersSurvive
CONSTRAINT NumbersOrSources
CHECK_DEADLOCK FALSE
