---------------------------- MODULE GoldenScoring ----------------------------
(* How an extraction is measured against a golden dataset                      *)
(* (hyc_evaluation): the runner builds the candidate run of a case, the scorer *)
(* compares it field by field and counts, and the models of the report check   *)
(* everything it says once more before there is a report: what a case claims   *)
(* of its fields is derived from the fields again, and the totals from the     *)
(* cases.  A check that fails is an exception, and no report.                  *)
(*                                                                            *)
(* A value is abstract; two values that differ only by an approved             *)
(* normalization have one normal form.  The unit is part of the value, the     *)
(* polygon of a geometry is left out and its page is kept.  A confidence below *)
(* one is the reason LOW_CONFIDENCE and a handwriting mark the reason          *)
(* HANDWRITING_REFERENCE_ONLY: the models of golden fields and candidates      *)
(* refuse one without the other.                                              *)
EXTENDS Integers, Sequences, FiniteSets, FiniteSetsExt, SequencesExt, NoValue

CONSTANTS
  Kinds,        \* the kinds of values
  NormalForm,   \* of every value
  Offers        \* Offers[k]: what case number k of a dataset may be, with its run

VARIABLES
  scored,       \* the cases scored so far, in the order of the dataset
  refused,      \* the offer the scorer raised on, or None
  golden        \* the report, or None

scoringVars == <<scored, refused, golden>>

StageCount == 8
Extraction == 5   \* SYNTHETIC_FIXTURE_EXTRACTION

(* The reasons of a review, those of an evaluation, and what is said of a      *)
(* candidate that was compared.                                              *)
ReviewReasons == {"HANDWRITING_REFERENCE_ONLY", "LOGIC_CONFLICT", "LOW_CONFIDENCE",
                  "MISSING_REQUIRED", "UNMAPPED"}
EvaluationReasons == ReviewReasons \cup
  {"BINDING_MISMATCH", "DOCUMENT_CLASSIFICATION_MISMATCH", "DUPLICATE_FIELD", "PAGE_MISMATCH",
   "MISSING_ARTIFACT", "UNAPPROVED_NORMALIZATION", "UPSTREAM_FAILURE", "VALUE_MISMATCH"}
Comparisons == [exact : BOOLEAN, normalized : BOOLEAN, samePage : BOOLEAN,
                reasons : SUBSET EvaluationReasons]

ASSUME ScoringAssumption ==
  /\ Offers \in Seq(Range(Offers))
  /\ None \notin Comparisons
  /\ \A k \in DOMAIN Offers : \A offer \in Offers[k] :
       /\ offer.failure \in 0 .. StageCount
       /\ {offer.warned, offer.bound, offer.sameKind} \subseteq BOOLEAN
       /\ offer.fields \in Seq(Range(offer.fields)) /\ offer.values \in Seq(Range(offer.values))
       /\ \A i \in DOMAIN offer.fields :
            /\ {offer.fields[i].required, offer.fields[i].ignored} \subseteq BOOLEAN
            /\ offer.fields[i].kind \in Kinds /\ offer.fields[i].reasons \subseteq ReviewReasons
       /\ \A j \in DOMAIN offer.values :
            offer.values[j].kind \in Kinds /\ offer.values[j].reasons \subseteq EvaluationReasons

-----------------------------------------------------------------------------
(* The golden fields of a case, [row, name, kind, required, ignored, value,   *)
(* page, reasons, allowed], and the candidates of a run, [row, name, kind,    *)
(* value, page, reasons, applied].                                            *)
Key(f) == <<f.row, f.name>>
Handwritten(f) == "HANDWRITING_REFERENCE_ONLY" \in f.reasons
MissingMarked(f) == "MISSING_REQUIRED" \in f.reasons

GoldenFieldOK(f) ==
  /\ ~(f.required /\ f.ignored)
  /\ f.value = None /\ f.required => MissingMarked(f)

GoldenCaseOK(fields) ==
  /\ fields # <<>>
  /\ \A i \in DOMAIN fields : GoldenFieldOK(fields[i])
  /\ IsInjective([i \in DOMAIN fields |-> Key(fields[i])])

CandidateOK(c) == (c.value = None) <=> MissingMarked(c)

Twice(values, i) == \E j \in DOMAIN values \ {i} : Key(values[j]) = Key(values[i])

(* The stages of a run whose stage number failure fails; 0 when none does.     *)
StageStatus(failure, k) ==
  IF failure = 0 \/ k < failure THEN "SUCCESS"
  ELSE IF k = failure THEN "FAILED" ELSE "SKIPPED_UPSTREAM_FAILURE"
StageManifest(failure) == [k \in 1 .. StageCount |-> StageStatus(failure, k)]

(* A stage skips exactly when one before it failed.                           *)
ManifestOK(stages) ==
  \A k \in 2 .. StageCount :
    (stages[k] = "SKIPPED_UPSTREAM_FAILURE") <=> (stages[k - 1] # "SUCCESS")

WarningsObservable(offer) ==
  offer.warned => offer.failure = 0 \/ offer.failure > Extraction

(* The run the runner makes of an offer [fields, values, failure, warned, bound, *)
(* sameKind]: no values after a failed stage, and the reasons of its values.    *)
RunOf(offer) ==
  LET stages == StageManifest(offer.failure)
      failed == \E k \in 1 .. StageCount : stages[k] # "SUCCESS"
      values == IF failed THEN <<>> ELSE offer.values
  IN [stages |-> stages, values |-> values, bound |-> offer.bound,
      sameKind |-> offer.sameKind,
      reasons |-> (UNION {values[i].reasons : i \in DOMAIN values})
                  \cup (IF failed THEN {"UPSTREAM_FAILURE"} ELSE {})]

RunOK(run) ==
  /\ ManifestOK(run.stages)
  /\ \A i \in DOMAIN run.values :
       /\ CandidateOK(run.values[i])
       /\ Twice(run.values, i) => "DUPLICATE_FIELD" \in run.values[i].reasons
       /\ run.values[i].reasons \subseteq run.reasons
  /\ (\E k \in 1 .. StageCount : run.stages[k] # "SUCCESS") <=> "UPSTREAM_FAILURE" \in run.reasons

-----------------------------------------------------------------------------
(* The scorer, field by field                                                 *)
NotOfHandwriting(run, f) ==                                    \* mutant
  IF run.bound /\ ~Handwritten(f)
  THEN {i \in DOMAIN run.values : Key(run.values[i]) = Key(f)} ELSE {}
Predictions(run, f) ==
  IF run.bound THEN {i \in DOMAIN run.values : Key(run.values[i]) = Key(f)} ELSE {}

Only(run, f) == run.values[CHOOSE i \in Predictions(run, f) : TRUE]
Alone(run, f) == Cardinality(Predictions(run, f)) = 1
Eligible(f) == ~f.ignored /\ ~Handwritten(f)

PredictedMissing(run, f) ==
  \/ Predictions(run, f) = {}
  \/ Alone(run, f) /\ (Only(run, f).value = None \/ MissingMarked(Only(run, f)))

(* The comparison of a golden field with its one candidate.                   *)
UnapprovedBy(f, c) == IF c.applied \subseteq f.allowed THEN {} ELSE {"UNAPPROVED_NORMALIZATION"}
Evidence(f, c) ==
  LET known == f.reasons \cup c.reasons \cup UnapprovedBy(f, c)
      equal == /\ c.kind = f.kind
               /\ NormalForm[c.value] = NormalForm[f.value]
               /\ "MISSING_REQUIRED" \notin known
      normalized == equal /\ "UNAPPROVED_NORMALIZATION" \notin known
  IN [exact |-> normalized /\ c.value = f.value, normalized |-> normalized,
      samePage |-> c.page = f.page,
      reasons |-> known
        \cup (IF equal \/ "MISSING_REQUIRED" \in known THEN {} ELSE {"VALUE_MISMATCH"})
        \cup (IF c.page = f.page THEN {} ELSE {"PAGE_MISMATCH"})]

Compared(run, f) == Eligible(f) /\ Alone(run, f)

ReasonsOf(run, f) ==
  IF ~Eligible(f) \/ Compared(run, f)
  THEN IF Compared(run, f) THEN Evidence(f, Only(run, f)).reasons ELSE f.reasons
  ELSE f.reasons \cup
       (IF Predictions(run, f) # {} THEN {"DUPLICATE_FIELD"}
        ELSE IF f.required THEN {"MISSING_REQUIRED"} ELSE {"VALUE_MISMATCH"})

(* The name of an outcome: the first of these reasons it has.                 *)
Named == <<"HANDWRITING_REFERENCE_ONLY", "DUPLICATE_FIELD", "MISSING_REQUIRED", "UNMAPPED",
           "LOGIC_CONFLICT", "LOW_CONFIDENCE">>
NameOf(reasons) ==
  LET present == {k \in DOMAIN Named : Named[k] \in reasons}
  IN IF present # {} THEN Named[Min(present)] ELSE IF reasons # {} THEN "MISMATCH" ELSE "MATCH"

OutcomeName(ignored, reasons, evidence) ==
  IF ignored THEN "EXCLUDED_IGNORED"
  ELSE IF reasons = {} /\ evidence # None /\ ~evidence.exact /\ evidence.normalized
       THEN "NORMALIZED_MATCH" ELSE NameOf(reasons)

(* What is said of a golden field, and of a candidate no golden field expects. *)
FieldOutcome(run, fields, k) ==
  LET f == fields[k]
      reasons == ReasonsOf(run, f)
      evidence == IF Compared(run, f) THEN Evidence(f, Only(run, f)) ELSE None
  IN [row |-> f.row, kind |-> f.kind, order |-> k, required |-> f.required,
      expectedMissing |-> f.value = None, candidateMissing |-> PredictedMissing(run, f),
      orders |-> Predictions(run, f), evidence |-> evidence,
      outcome |-> OutcomeName(f.ignored, reasons, evidence), reasons |-> reasons,
      reference |-> Handwritten(f), ignored |-> f.ignored]

UnmappedOutcome(run, i) ==
  LET c == run.values[i]
  IN [row |-> c.row, kind |-> c.kind, order |-> 0, required |-> FALSE,
      expectedMissing |-> FALSE, candidateMissing |-> c.value = None,
      orders |-> {i}, evidence |-> None, outcome |-> "UNMAPPED",
      reasons |-> c.reasons \cup {"UNMAPPED"}, reference |-> Handwritten(c), ignored |-> FALSE]

Unmapped(run, fields) ==
  {i \in DOMAIN run.values : \A k \in DOMAIN fields : Key(fields[k]) # Key(run.values[i])}

Outcomes(run, fields) ==
  {FieldOutcome(run, fields, k) : k \in DOMAIN fields}
    \cup {UnmappedOutcome(run, i) : i \in Unmapped(run, fields)}

-----------------------------------------------------------------------------
(* The counters of the scorer: what a golden field adds one to.               *)
Counters == {"exact", "normalized", "denominator", "requiredMissing", "required", "reference",
             "ignored", "duplicates", "logic", "low", "normalizedErrors", "TP", "FP", "FN", "TN",
             "page", "pageDenominator", "pageMismatch", "unmapped"}

Confusion(expected, predicted) ==
  IF predicted THEN IF expected THEN "TP" ELSE "FP" ELSE IF expected THEN "FN" ELSE "TN"

CountedRequired(run, f) ==
  {"required", Confusion(f.value = None, PredictedMissing(run, f))}
    \cup (IF PredictedMissing(run, f) THEN {"requiredMissing"} ELSE {})

CountedEvidence(e) ==
  {"pageDenominator", IF e.samePage THEN "page" ELSE "pageMismatch"}
    \cup (IF e.exact THEN {"exact"} ELSE {}) \cup (IF e.normalized THEN {"normalized"} ELSE {})

ReferenceEligible(run, f) ==                                   \* mutant
  IF f.ignored THEN {"ignored"}
  ELSE IF Handwritten(f) THEN {"reference", "denominator"}
  ELSE {"denominator"} \cup (IF f.required THEN CountedRequired(run, f) ELSE {})
       \cup (IF Alone(run, f) THEN CountedEvidence(Evidence(f, Only(run, f))) ELSE {})
CountedOnce(run, f) ==
  IF f.ignored THEN {"ignored"}
  ELSE IF Handwritten(f) THEN {"reference"}
  ELSE {"denominator"}
       \cup (IF f.required THEN CountedRequired(run, f) ELSE {})
       \cup (IF Cardinality(Predictions(run, f)) > 1 THEN {"duplicates", "normalizedErrors"}
             ELSE {})
       \cup (IF Alone(run, f)
             THEN CountedEvidence(Evidence(f, Only(run, f)))
                  \cup (IF UnapprovedBy(f, Only(run, f)) # {} THEN {"normalizedErrors"} ELSE {})
             ELSE {})

CountedReasons(run, f) ==
  (IF "LOGIC_CONFLICT" \in ReasonsOf(run, f) THEN {"logic"} ELSE {})
    \cup (IF "LOW_CONFIDENCE" \in ReasonsOf(run, f) THEN {"low"} ELSE {})

(* The counts over the golden fields of some kinds.                           *)
CountsOf(run, fields, kinds) ==
  [c \in Counters |->
     IF c = "unmapped"
     THEN Cardinality({i \in Unmapped(run, fields) : run.values[i].kind \in kinds})
     ELSE Cardinality({k \in DOMAIN fields :
            /\ fields[k].kind \in kinds
            /\ c \in CountedOnce(run, fields[k]) \cup CountedReasons(run, fields[k])})]

ExpectedRows(fields) == {fields[k].row : k \in {j \in DOMAIN fields : Eligible(fields[j])}}
PredictedRows(run) ==
  IF run.bound
  THEN {run.values[i].row : i \in {j \in DOMAIN run.values : ~Handwritten(run.values[j])}}
  ELSE {}
RowCounts(run, fields) ==
  [found |-> Cardinality(ExpectedRows(fields) \cap PredictedRows(run)),
   invented |-> Cardinality(PredictedRows(run) \ ExpectedRows(fields)),
   lost |-> Cardinality(ExpectedRows(fields) \ PredictedRows(run))]

(* A metric is its numerator, its denominator, what it excludes and its errors. *)
Metric(n, d, reference, ignored, errors) ==
  [n |-> n, d |-> d, reference |-> reference, ignored |-> ignored, errors |-> errors]
ExactMetric(c) ==
  Metric(c["exact"], c["denominator"], c["reference"], c["ignored"], c["duplicates"])
NormalizedMetric(c) ==
  Metric(c["normalized"], c["denominator"], c["reference"], c["ignored"], c["normalizedErrors"])

Totals == {"reference", "ignored", "duplicates", "unmapped", "logic", "low", "pageMismatch"}

CohortMetrics(c, byKind, rows) ==
  [exact |-> ExactMetric(c), normalized |-> NormalizedMetric(c),
   page |-> Metric(c["page"], c["pageDenominator"], c["reference"], c["ignored"],
                   c["duplicates"]),
   missing |-> Metric(c["requiredMissing"], c["required"], c["reference"], c["ignored"], 0),
   confusion |-> <<c["TP"], c["FP"], c["FN"], c["TN"]>>,
   rowPrecision |-> Metric(rows.found, rows.found + rows.invented, 0, 0, 0),
   rowRecall |-> Metric(rows.found, rows.found + rows.lost, 0, 0, 0),
   exactOf |-> [k \in Kinds |-> ExactMetric(byKind[k])],
   normalizedOf |-> [k \in Kinds |-> NormalizedMetric(byKind[k])],
   totals |-> [x \in Totals |-> c[x]]]

FieldReasons(run, fields) ==                                   \* mutant
  run.reasons \cup (UNION {o.reasons : o \in Outcomes(run, fields)})
CaseReasons(run, fields) ==
  run.reasons \cup (UNION {o.reasons : o \in Outcomes(run, fields)})
    \cup (IF run.bound THEN {} ELSE {"BINDING_MISMATCH"})
    \cup (IF run.sameKind THEN {} ELSE {"DOCUMENT_CLASSIFICATION_MISMATCH"})

ScoreCase(run, fields) ==
  LET counts == CountsOf(run, fields, Kinds)
      byKind == [k \in Kinds |-> CountsOf(run, fields, {k})]
      rows == RowCounts(run, fields)
  IN [outcomes |-> Outcomes(run, fields), counts |-> counts, byKind |-> byKind, rows |-> rows,
      metrics |-> CohortMetrics(counts, byKind, rows), reasons |-> CaseReasons(run, fields),
      accepted |-> CaseReasons(run, fields) = {}]

-----------------------------------------------------------------------------
(* The checks of what is to be published                                      *)
FieldOutcomeOK(o) ==
  LET same == o.evidence # None /\ o.evidence.samePage
      other == o.evidence # None /\ ~o.evidence.samePage
  IN /\ o.outcome = IF o.order = 0 THEN "UNMAPPED"
                    ELSE OutcomeName(o.ignored, o.reasons, o.evidence)
     /\ o.reference <=> "HANDWRITING_REFERENCE_ONLY" \in o.reasons
     /\ ~(o.reference /\ o.ignored)
     /\ o.order = 0 => o.orders # {} /\ "UNMAPPED" \in o.reasons /\ o.evidence = None
     /\ o.orders = {} => o.candidateMissing
     /\ "VALUE_MISMATCH" \in o.reasons => o.evidence # None /\ ~o.evidence.normalized
     /\ "PAGE_MISMATCH" \in o.reasons <=> other
     /\ o.reference \/ o.ignored \/ Cardinality(o.orders) # 1 => o.evidence = None
     /\ o.order # 0 /\ ~o.reference /\ ~o.ignored /\ Cardinality(o.orders) = 1
          => o.evidence # None
     /\ o.outcome = "MATCH" => same /\ o.evidence.exact

Having(os, reason) == Cardinality({o \in os : reason \in o.reasons})

(* The metric of some outcomes, derived from what they say and from which of   *)
(* them agree with their golden field.                                        *)
DerivedMetric(os, agreeing, errors) ==
  LET expected == {o \in os : o.order # 0}
      eligible == {o \in expected : ~o.reference /\ ~o.ignored}
  IN Metric(Cardinality(eligible \cap agreeing),
            Cardinality(eligible), Cardinality({o \in expected : o.reference}),
            Cardinality({o \in expected : o.ignored}), errors)

DerivedExact(os) ==
  DerivedMetric(os, {o \in os : o.evidence # None /\ o.evidence.exact},
    Having(os, "DUPLICATE_FIELD"))
DerivedNormalized(os) ==
  DerivedMetric(os, {o \in os : o.evidence # None /\ o.evidence.normalized},
    Having(os, "DUPLICATE_FIELD") + Having(os, "UNAPPROVED_NORMALIZATION"))

DerivedConfusion(required) ==
  LET of(expected, predicted) == Cardinality({o \in required :
        o.expectedMissing = expected /\ o.candidateMissing = predicted})
  IN <<of(TRUE, TRUE), of(FALSE, TRUE), of(TRUE, FALSE), of(FALSE, FALSE)>>

DerivedMetrics(os) ==
  LET expected == {o \in os : o.order # 0}
      eligible == {o \in expected : ~o.reference /\ ~o.ignored}
      required == {o \in eligible : o.required}
      paged == {o \in eligible : o.evidence # None}
      others == {o \in paged : ~o.evidence.samePage}
      exact == DerivedExact(os)
      expectedRows == {o.row : o \in eligible}
      predictedRows == {o.row : o \in {x \in os : x.orders # {} /\ ~x.reference}}
      found == Cardinality(expectedRows \cap predictedRows)
      ofKind(k) == {o \in os : o.kind = k}
  IN [exact |-> exact, normalized |-> DerivedNormalized(os),
      page |-> Metric(Cardinality(paged \ others), Cardinality(paged), exact.reference,
                      exact.ignored, exact.errors),
      missing |-> Metric(Having(required, "MISSING_REQUIRED"), Cardinality(required),
                         exact.reference, exact.ignored, 0),
      confusion |-> DerivedConfusion(required),
      rowPrecision |-> Metric(found, Cardinality(predictedRows), 0, 0, 0),
      rowRecall |-> Metric(found, Cardinality(expectedRows), 0, 0, 0),
      exactOf |-> [k \in Kinds |-> DerivedExact(ofKind(k))],
      normalizedOf |-> [k \in Kinds |-> DerivedNormalized(ofKind(k))],
      totals |-> [x \in Totals |->
        CASE x = "reference" -> exact.reference [] x = "ignored" -> exact.ignored
          [] x = "duplicates" -> exact.errors [] x = "unmapped" -> Cardinality(os \ expected)
          [] x = "logic" -> Having(os, "LOGIC_CONFLICT")
          [] x = "low" -> Having(os, "LOW_CONFIDENCE")
          [] x = "pageMismatch" -> Cardinality(others)]]

CaseOutcomeOK(outcome) ==
  /\ \A o \in outcome.outcomes :
       FieldOutcomeOK(o) /\ o.reasons \subseteq outcome.reasons
  /\ outcome.metrics = DerivedMetrics(outcome.outcomes)

-----------------------------------------------------------------------------
(* The report                                                                 *)
Total(f) == FoldFunction(+, 0, f)
AddCounts(counts) ==
  [c \in Counters |-> Total([k \in DOMAIN scored |-> counts[k][c]])]
SumMetrics(metrics) ==
  [x \in {"n", "d", "reference", "ignored", "errors"} |->
     Total([k \in DOMAIN scored |-> metrics[k][x]])]

LastRows ==                                                    \* mutant
  IF scored = <<>> THEN RowCounts([values |-> <<>>, bound |-> FALSE], <<>>)
  ELSE scored[Len(scored)].outcome.rows
AddRows ==
  [x \in {"found", "invented", "lost"} |-> Total([k \in DOMAIN scored |-> scored[k].outcome.rows[x]])]

(* The totals of a report are the sums of the metrics of its cases.           *)
ReportOK(report) ==
  LET m == report.metrics
      of == [k \in DOMAIN scored |-> scored[k].outcome.metrics]
  IN /\ \A x \in {"exact", "normalized", "page", "missing", "rowPrecision", "rowRecall"} :
          m[x] = SumMetrics([k \in DOMAIN of |-> of[k][x]])
     /\ \A i \in Kinds, x \in {"exactOf", "normalizedOf"} :
          m[x][i] = SumMetrics([k \in DOMAIN of |-> of[k][x][i]])
     /\ \A j \in 1 .. 4 :
          m.confusion[j] = Total([k \in DOMAIN of |-> of[k].confusion[j]])
     /\ \A x \in DOMAIN m.totals :
          m.totals[x] = Total([k \in DOMAIN of |-> of[k].totals[x]])
     /\ report.accepted <=> \A k \in DOMAIN scored : scored[k].outcome.accepted

Report ==
  LET of == [k \in DOMAIN scored |-> scored[k].outcome]
      byKind(i) == AddCounts([k \in DOMAIN of |-> of[k].byKind[i]])
      reasons == UNION {of[k].reasons : k \in DOMAIN of}
  IN [metrics |-> CohortMetrics(AddCounts([k \in DOMAIN of |-> of[k].counts]),
                                [i \in Kinds |-> byKind(i)], AddRows),
      reasons |-> reasons, accepted |-> reasons = {}]

-----------------------------------------------------------------------------
InitScoring == scored = <<>> /\ refused = None /\ golden = None

(* One case of the dataset: its run is made and scored, and the outcome is     *)
(* kept or refused.                                                           *)
ScoreNext ==
  /\ refused = None /\ Len(scored) < Len(Offers)
  /\ \E offer \in Offers[Len(scored) + 1] :
       /\ GoldenCaseOK(offer.fields)
       /\ LET run == RunOf(offer)
              outcome == ScoreCase(run, offer.fields)
          IN IF WarningsObservable(offer) /\ RunOK(run) /\ CaseOutcomeOK(outcome)
             THEN /\ scored' = Append(scored, [offer |-> offer, outcome |-> outcome])
                  /\ UNCHANGED <<refused, golden>>
             ELSE /\ refused' = offer
                  /\ UNCHANGED <<scored, golden>>

PublishAnyTime ==                                              \* mutant
  /\ refused = None /\ golden = None /\ ReportOK(Report)
  /\ golden' = Report
  /\ UNCHANGED <<scored, refused>>

Publish ==
  /\ refused = None /\ golden = None /\ Len(scored) = Len(Offers)
  /\ ReportOK(Report)
  /\ golden' = Report
  /\ UNCHANGED <<scored, refused>>

NextScoring == ScoreNext \/ Publish

-----------------------------------------------------------------------------
(* What is scored is what was offered: at most one outcome per offer, metrics  *)
(* that are ratios, and a report only when every case has its outcome.         *)
ScoringTypeOK ==
  /\ Len(scored) <= Len(Offers)
  /\ \A k \in DOMAIN scored : scored[k].offer \in Offers[k]
  /\ \A k \in DOMAIN scored :
       \A x \in {"exact", "normalized", "page", "missing", "rowPrecision", "rowRecall"} :
         scored[k].outcome.metrics[x].n \in 0 .. scored[k].outcome.metrics[x].d
  /\ golden # None => refused = None /\ Len(scored) = Len(Offers)

(* A report that says the run may be accepted was made of runs that read       *)
(* everything: no stage failed, every golden field that counts has exactly one *)
(* candidate, with its kind and its normal form, on its page and by approved   *)
(* normalizations, there is no other candidate, and nothing is handwritten or  *)
(* doubtful.                                                                  *)
AcceptedIsMatched ==
  golden # None /\ golden.accepted =>
    \A k \in DOMAIN scored :
      LET offer == scored[k].offer
          values == offer.values
          Matches(f, c) ==
            /\ Key(c) = Key(f) /\ c.kind = f.kind /\ c.page = f.page
            /\ NormalForm[c.value] = NormalForm[f.value] /\ c.value # None
            /\ c.applied \subseteq f.allowed /\ c.reasons = {}
      IN /\ offer.failure = 0 /\ offer.bound /\ offer.sameKind
         /\ \A i \in DOMAIN offer.fields :
              LET f == offer.fields[i]
              IN /\ f.reasons = {}
                 /\ \/ f.ignored
                    \/ \E j \in DOMAIN values : Matches(f, values[j]) /\ ~Twice(values, j)
         /\ \A j \in DOMAIN values :
              \E i \in DOMAIN offer.fields : Key(offer.fields[i]) = Key(values[j])

(* No candidate of a run of the dataset is passed over: each is named by       *)
(* exactly one outcome of its case, matched, duplicated, excluded or unmapped. *)
CandidatesAccounted ==
  \A k \in DOMAIN scored :
    LET offer == scored[k].offer
    IN offer.failure = 0 /\ offer.bound =>
         \A j \in DOMAIN offer.values :
           Cardinality({o \in scored[k].outcome.outcomes : j \in o.orders}) = 1

(* When every case has its outcome there is a report: the totals the scorer    *)
(* kept are the totals that the report derives from its cases.                 *)
ReportFollowsCases ==
  refused = None /\ golden = None /\ Len(scored) = Len(Offers) => ReportOK(Report)

(* Scoring loses nothing on the way from the candidates to the report: every   *)
(* offer has its outcome, every candidate its place in one, and the totals     *)
(* kept while scoring are those of the cases.                                 *)
ScoredWhole == ScoringTypeOK /\ CandidatesAccounted /\ ReportFollowsCases

(* The scorer and the models of the report count the same things in two ways;  *)
(* where they disagree there is no report.  They agree on every run in which   *)
(*   - what the run claims of itself is so (its warnings, its duplicates), and *)
(*     nothing is claimed that only the comparison can find,                   *)
(*   - every golden field that is optional has a candidate,                    *)
(*   - golden field and candidate are handwritten alike, and none is excluded  *)
(*     twice,                                                                 *)
(*   - a golden value that is missing is not read, and                         *)
(*   - a candidate that no golden field expects has no doubt of its own.       *)
ClaimedOnly == {"DUPLICATE_FIELD", "UNAPPROVED_NORMALIZATION", "PAGE_MISMATCH", "VALUE_MISMATCH"}
Plain(offer) ==
  LET fields == offer.fields
      run == RunOf(offer)
      values == run.values
  IN /\ WarningsObservable(offer) /\ RunOK(run)
     /\ \A j \in DOMAIN values :
          /\ values[j].reasons \cap ClaimedOnly # {} => Twice(values, j)
          /\ j \in Unmapped(run, fields) =>
               run.bound /\ values[j].reasons \subseteq {"MISSING_REQUIRED"}
     /\ \A i \in DOMAIN fields :
          /\ ~(fields[i].ignored /\ Handwritten(fields[i]))
          /\ Eligible(fields[i]) /\ ~fields[i].required => Predictions(run, fields[i]) # {}
          /\ MissingMarked(fields[i]) => PredictedMissing(run, fields[i])
          /\ \A j \in DOMAIN values : Key(values[j]) = Key(fields[i]) =>
               (Handwritten(values[j]) <=> Handwritten(fields[i]))
PlainRunsAreScored == refused # None => ~Plain(refused)
=============================================================================
