------------------------------ MODULE Workbench ------------------------------
(***************************************************************************)
(* The inspection case of the browser's workbench: the reducer and the       *)
(* guards of frontend/src/lib/inspection/workflow.ts.  One user edits the    *)
(* receipt, the reviewed document, the matches and the internal tests, and   *)
(* plays the inspector who submits and the lead who returns or approves.     *)
(*                                                                         *)
(* Texts are given or blank, identities those of the canonical trace or      *)
(* others, decimals integers of a common scale.                              *)
(***************************************************************************)
EXTENDS NoValue, Integers, Sequences, FiniteSets

CONSTANTS
  DocumentFields,  \* the required fields of the document
  Matches,         \* proposed matches of a section and an allocation
  NumericTests,    \* required internal tests with limits
  NominalTests,    \* required internal tests that conform or do not
  Lower, Upper,    \* the limits HYC sets
  NumericRows, NominalRows,  \* rows of samples a user enters; None is unreadable
  TypedQuantities,      \* quantities a user enters, None for what is no decimal
  Rest             \* the quantity of the other allocations

Tests == NumericTests \cup NominalTests

ASSUME WorkbenchAssumption ==
  /\ NumericTests \cap NominalTests = {}
  /\ Lower \in Int /\ Upper \in Int
  /\ NumericRows \subseteq Seq(Int \cup {None})
  /\ NominalRows \subseteq Seq({"CONFORMING", "NONCONFORMING", None})

VARIABLES
  status, role,
  receipt,     \* its texts, its identities, the received and the allocated quantity
  fields,      \* document field -> the final value chosen for it
  confirmed,   \* the matches that were confirmed
  tests,       \* internal test -> its samples and what was concluded from them
  reasons,     \* the submission's and the reviewer's
  snapshot     \* what an approval froze, or None

caseVars == <<status, role, receipt, fields, confirmed, tests, reasons, snapshot>>

-----------------------------------------------------------------------------
(* Exact means: averageDecimalStrings has no answer when the mean is not a  *)
(* finite decimal.                                                          *)
SumOf(s) == LET sum[i \in 0..Len(s)] == IF i = 0 THEN 0 ELSE sum[i - 1] + s[i] IN sum[Len(s)]

Gcd(a, b) == CHOOSE d \in 1..b : /\ a % d = 0 /\ b % d = 0
                                 /\ \A e \in 1..b : a % e = 0 /\ b % e = 0 => e <= d
IsDecimal(v) == v # None
FiniteDecimal(denominator) == 10 ^ denominator % denominator = 0
RoundedMean(samples) ==                              \* mutant
  [of |-> SumOf(samples) \div Len(samples), over |-> 1]
Mean(samples) ==
  LET divisor == Gcd(SumOf(samples), Len(samples))
      count   == Len(samples) \div divisor
  IN  IF FiniteDecimal(count) THEN [of |-> SumOf(samples) \div divisor, over |-> count]
                              ELSE None

Undecided == [aggregate |-> None, completed |-> FALSE, decision |-> "PENDING"]
Nominal(samples) == IF \E i \in DOMAIN samples : samples[i] = "NONCONFORMING"
                    THEN "NONCONFORMING" ELSE "CONFORMING"
Inside(mean) == Lower * mean.over <= mean.of /\ mean.of <= Upper * mean.over

Semantics(t, samples) ==
  IF samples = <<>> THEN Undecided
  ELSE IF t \in NominalTests THEN
    IF \E i \in DOMAIN samples : samples[i] = None THEN Undecided
    ELSE [aggregate |-> Nominal(samples), completed |-> TRUE, decision |-> Nominal(samples)]
  ELSE
    IF (\E i \in DOMAIN samples : ~IsDecimal(samples[i])) \/ Mean(samples) = None THEN Undecided
    ELSE [aggregate |-> Mean(samples), completed |-> TRUE,
          decision |-> IF Inside(Mean(samples)) THEN "CONFORMING" ELSE "NONCONFORMING"]

-----------------------------------------------------------------------------
(* What stands in the way of a submission and of an approval.               *)
ReceiptComplete ==
  /\ receipt.texts = "given" /\ receipt.identities = "traced"
  /\ IsDecimal(receipt.received) /\ IsDecimal(receipt.allocated)
  /\ receipt.allocated + Rest = receipt.received
DocumentReviewed == \A f \in DocumentFields : fields[f].final = "decimal" /\ fields[f].reason
MatchesConfirmed == Matches # {} /\ confirmed = Matches
Concluded(t) ==
  LET s == Semantics(t, tests[t].samples) IN
  s.completed /\ tests[t].aggregate = s.aggregate /\ tests[t].completed
    /\ tests[t].decision = s.decision
TestsComplete == \A t \in Tests : Concluded(t)
BlockedByTestsOnly == ReceiptComplete /\ DocumentReviewed /\ MatchesConfirmed
Complete == BlockedByTestsOnly /\ TestsComplete

(* The case has just been edited: where it stands before its submission.    *)
DerivedStatus ==
  IF status = "RETURNED" THEN "RETURNED"
  ELSE IF Complete' THEN "READY_TO_SUBMIT"
  ELSE IF BlockedByTestsOnly' THEN "INTERNAL_TEST_PENDING"
  ELSE "REVIEW_REQUIRED"
Editable == status \notin {"SUBMITTED", "APPROVED"}

InitCase ==
  /\ status = "REVIEW_REQUIRED" /\ role = "INSPECTOR"
  /\ receipt = [texts |-> "given", identities |-> "traced",
                received |-> 2 + Rest, allocated |-> 2]
  /\ fields = [f \in DocumentFields |-> [final |-> "none", reason |-> FALSE]]
  /\ confirmed = {}
  /\ tests = [t \in Tests |-> [samples |-> IF t \in NumericTests THEN <<Lower>> ELSE <<"CONFORMING">>,
                               aggregate |-> None, completed |-> FALSE, decision |-> "PENDING"]]
  /\ reasons = [submission |-> FALSE, review |-> FALSE]
  /\ snapshot = None

SetRole(r) ==
  /\ status # "APPROVED" /\ role' = r
  /\ UNCHANGED <<status, receipt, fields, confirmed, tests, reasons, snapshot>>

SetReceiptField(field, value) ==
  /\ Editable
  /\ receipt' = [receipt EXCEPT ![field] = value]
  /\ UNCHANGED <<role, fields, confirmed, tests, reasons, snapshot>>
  /\ status' = DerivedStatus

FinalizeDocumentReview(f, final, reason) ==
  /\ Editable
  /\ fields' = [fields EXCEPT ![f] = [final |-> final, reason |-> reason]]
  /\ UNCHANGED <<role, receipt, confirmed, tests, reasons, snapshot>>
  /\ status' = DerivedStatus

ConfirmMatch(m) ==
  /\ Editable
  /\ confirmed' = confirmed \cup {m}
  /\ UNCHANGED <<role, receipt, fields, tests, reasons, snapshot>>
  /\ status' = DerivedStatus

(* New samples take back what was concluded from the old ones.              *)
Kept(t, samples) == [tests[t] EXCEPT !.samples = samples]   \* mutant
ResetTest(t, samples) ==
  [samples |-> samples, aggregate |-> None, completed |-> FALSE, decision |-> "PENDING"]
SetInternalSamples(t, samples) ==
  /\ Editable
  /\ tests' = [tests EXCEPT ![t] = ResetTest(t, samples)]
  /\ UNCHANGED <<role, receipt, fields, confirmed, reasons, snapshot>>
  /\ status' = DerivedStatus

ConfirmInternalTest(t) ==
  /\ Editable
  /\ LET s == Semantics(t, tests[t].samples) IN
     /\ s.completed
     /\ tests' = [tests EXCEPT ![t] =
          [samples |-> @.samples, aggregate |-> s.aggregate, completed |-> TRUE,
           decision |-> s.decision]]
  /\ UNCHANGED <<role, receipt, fields, confirmed, reasons, snapshot>>
  /\ status' = DerivedStatus

StatusIsEnough(reason) ==                            \* mutant
  role = "INSPECTOR" /\ reason /\ status \in {"READY_TO_SUBMIT", "RETURNED"}
CanSubmit(reason) ==
  Complete /\ role = "INSPECTOR" /\ reason /\ status \in {"READY_TO_SUBMIT", "RETURNED"}

Submit(reason) ==
  /\ Editable /\ CanSubmit(reason)
  /\ status' = "SUBMITTED" /\ reasons' = [reasons EXCEPT !.submission = TRUE]
  /\ UNCHANGED <<role, receipt, fields, confirmed, tests, snapshot>>

Return(reason) ==
  /\ status = "SUBMITTED" /\ role = "LEAD" /\ reason
  /\ status' = "RETURNED" /\ reasons' = [reasons EXCEPT !.review = TRUE]
  /\ UNCHANGED <<role, receipt, fields, confirmed, tests, snapshot>>

(* An approval freezes the evidence and the decision it adds up to.         *)
Overall ==
  IF \E t \in Tests : tests[t].decision = "NONCONFORMING" THEN "NONCONFORMING" ELSE "CONFORMING"
FrozenSnapshot ==
  [receipt |-> receipt, fields |-> fields, matches |-> confirmed, tests |-> tests,
   overall |-> Overall]

Approve(reason) ==
  /\ status = "SUBMITTED" /\ role = "LEAD" /\ reason /\ reasons.submission /\ Complete
  /\ status' = "APPROVED" /\ reasons' = [reasons EXCEPT !.review = TRUE]
  /\ snapshot' = FrozenSnapshot
  /\ UNCHANGED <<role, receipt, fields, confirmed, tests>>

NextCase ==
  \/ \E r \in {"INSPECTOR", "LEAD", "ADMIN"} : SetRole(r)
  \/ \E value \in {"given", "blank"} : SetReceiptField("texts", value)
  \/ \E value \in {"traced", "other"} : SetReceiptField("identities", value)
  \/ \E field \in {"received", "allocated"}, value \in TypedQuantities : SetReceiptField(field, value)
  \/ \E f \in DocumentFields, final \in {"none", "words", "decimal"}, reason \in BOOLEAN :
       FinalizeDocumentReview(f, final, reason)
  \/ \E m \in Matches : ConfirmMatch(m)
  \/ \E t \in NumericTests, s \in NumericRows : SetInternalSamples(t, s)
  \/ \E t \in NominalTests, s \in NominalRows : SetInternalSamples(t, s)
  \/ \E t \in Tests : ConfirmInternalTest(t)
  \/ \E reason \in BOOLEAN : Submit(reason) \/ Return(reason) \/ Approve(reason)

CaseSpec == InitCase /\ [][NextCase]_caseVars

-----------------------------------------------------------------------------
(* A case waits for its lead, or was approved, on complete evidence: what   *)
(* was complete when it was submitted is not edited afterwards, and after a *)
(* return it has to be complete again (reduceInspection, canSubmit).        *)
ReviewedOnCompleteEvidence == status \in {"SUBMITTED", "APPROVED"} => Complete

(* A case is offered for submission exactly while nothing blocks it,        *)
(* whatever was edited, and what was concluded of a test follows from the   *)
(* samples it has now (derivePreSubmitStatus, resetInternalTest).           *)
OfferedWhenComplete ==
  /\ status = "READY_TO_SUBMIT" <=> (Complete /\ Editable /\ status # "RETURNED")
  /\ \A t \in Tests : tests[t].completed => Concluded(t)

(* From the offer to the approval the evidence of a case is complete, and no   *)
(* edit leaves an offer or a conclusion standing that it undid.             *)
CompleteWhenOffered == ReviewedOnCompleteEvidence /\ OfferedWhenComplete

(* The decision an approval froze is that of the samples: a numeric test    *)
(* passes if and only if the sum of its samples lies within their number    *)
(* times the limits, and one test that fails decides.                       *)
FrozenDecisionFollows ==
  snapshot # None =>
    LET samples(t) == snapshot.tests[t].samples
        passes(t) == IF t \in NominalTests
          THEN \A i \in DOMAIN samples(t) : samples(t)[i] = "CONFORMING"
          ELSE /\ Lower * Len(samples(t)) <= SumOf(samples(t))
               /\ SumOf(samples(t)) <= Upper * Len(samples(t))
    IN  snapshot.overall = "CONFORMING" <=> \A t \in Tests : passes(t)
=============================================================================
