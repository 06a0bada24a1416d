\* A report is asked for twice, under keys of their own, in one process.
SPECIFICATION FairSpec
CONSTANTS
  None = None
  process = process stripe = stripe
  Calls = {c1, c2}
  Processes = {process}
  ProcessOf <- MCProcessOf
  Keys = {k1, k2}
  Reports = {report}
  Digests = {d1, d2}
  Stripes = {stripe}
  StripeOf <- MCStripeOf
PROPERTIES
  EveryReportEnds
CHECK_DEADLOCK FALSE
