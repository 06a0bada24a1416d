\* Three uploads on two processes, a document and another content in one stripe of
\* locks; two extractions of a document and two reviews; a
\* golden dataset of two cases.
SPECIFICATION DesksSpec
CONSTANTS
  None = None
  stripe = stripe p1 = p1 p2 = p2
  Uploads = {1, 2, 3}
  Processes = {p1, p2}
  ProcessOf <- MCProcessOf
  Digests = {coa, junk}
  Supported = {coa}
  Stripes = {stripe}
  StripeOf <- MCStripeOf
  lot1 = lot1 lot2 = lot2 
  Extractions = {x1, x2}
  Reviews = {r1, r2}
  Candidates <- MCCandidates
  Requests <- MCRequests
  SpecVersions = {"s1", "s2"}
  Codes <- MCCodes
  Kinds <- MCKinds
  NormalForm <- MCNormalForm
  Offers <- MCOffers
INVARIANTS
  BytesFollowDocuments
  OneDocumentEach
  OneReadingCounts
  ReadAgainstNamedSpec
  ScoredWhole
  AcceptedIsMatched
  PlainRunsAreScored
PROPERTIES
  EveryUploadEnds
  ConfirmedReadingStays
  ReadingsEnd
CHECK_DEADLOCK FALSE
