------------------------------ MODULE Sampling ------------------------------
(***************************************************************************)
(* The numeric level of the judgment engine (hyc_domain/judgment.py,        *)
(* hyc_domain/specs.py): a rule, the samples of a source, the sample policy *)
(* that aggregates them, and the evaluation of an item and of a case.       *)
(*                                                                         *)
(* Numbers are integers in units finer than the engine rounds to: one       *)
(* rounding step (10^-precision) is Grain units, so that the rounding of an *)
(* average is visible.                                                      *)
(***************************************************************************)
EXTENDS Integers, Sequences, Functions, Judgment

CONSTANTS
  Grain,         \* units in one rounding step of SpecItem.precision
  Rules,         \* rules an item may carry, invalid ones included
  ItemPolicies,  \* [source, missing] pairs an item may carry
  Values,        \* measurements, in units
  Legible,       \* the least magnitude that is read back in fixed notation: 10^-6, in units
  MaxSamples     \* bound on the samples of one source

ASSUME SamplingAssumption ==
  /\ Grain \in Nat \ {0} /\ Legible \in Nat \ {0} /\ MaxSamples \in Nat
  /\ Values \subseteq Int
  /\ ItemPolicies \subseteq [source : SourcePolicies, missing : MissingPolicies]
  /\ \A rule \in Rules : \A column \in DOMAIN rule.bounds : rule.bounds[column] \in Int

VARIABLE item      \* the ItemInput a case is judged on

-----------------------------------------------------------------------------
SamplePolicies == {"ALL_SAMPLES_IN_SPEC", "AVERAGE_IN_SPEC", "WORST_CASE_IN_SPEC",
                   "MIN_IN_SPEC", "MAX_IN_SPEC", "MANUAL"}
TextOperators == {"IN_SET", "CONTAINS"}
NumericOperators == {"GTE", "GT", "LTE", "LT", "BETWEEN_INCLUSIVE",
                     "BETWEEN_EXCLUSIVE", "TARGET_PLUS_MINUS", "EQUAL"}
Operators == NumericOperators \cup TextOperators \cup {"MANUAL_PASS_FAIL"}

-----------------------------------------------------------------------------
(* A rule is [op, bounds, allowed]: bounds maps the numeric columns that    *)
(* are present to their values, allowed says whether the set of admissible  *)
(* texts is non-empty.                                                      *)
Columns(op) ==
  CASE op \in {"GTE", "GT", "EQUAL"} -> {"lower"}
    [] op \in {"LTE", "LT"} -> {"upper"}
    [] op \in {"BETWEEN_INCLUSIVE", "BETWEEN_EXCLUSIVE"} -> {"lower", "upper"}
    [] op = "TARGET_PLUS_MINUS" -> {"target", "tolerance"}
    [] OTHER -> {}

RuleIsValid(rule) ==
  /\ rule.op \in Operators
  /\ DOMAIN rule.bounds = Columns(rule.op)
  /\ rule.allowed = (rule.op \in TextOperators)
  /\ Columns(rule.op) = {"lower", "upper"} => rule.bounds.lower <= rule.bounds.upper
  /\ Columns(rule.op) = {"target", "tolerance"} => rule.bounds.tolerance >= 0

StrictLimits(rule, v) ==                             \* mutant
  LET b == rule.bounds IN
  /\ "lower" \in DOMAIN b => v > b.lower
  /\ "upper" \in DOMAIN b => v < b.upper
  /\ "target" \in DOMAIN b => v - b.target \in 1 - b.tolerance .. b.tolerance - 1
Conforms(rule, v) ==
  LET b == rule.bounds IN
  CASE rule.op = "GTE" -> v >= b.lower
    [] rule.op = "GT" -> v > b.lower
    [] rule.op = "LTE" -> v <= b.upper
    [] rule.op = "LT" -> v < b.upper
    [] rule.op = "BETWEEN_INCLUSIVE" -> b.lower <= v /\ v <= b.upper
    [] rule.op = "BETWEEN_EXCLUSIVE" -> b.lower < v /\ v < b.upper
    [] rule.op = "TARGET_PLUS_MINUS" -> b.target - v <= b.tolerance /\ v - b.target <= b.tolerance
    [] rule.op = "EQUAL" -> v = b.lower

EvaluateRule(rule, v) ==
  IF rule.op \notin NumericOperators THEN "ON_HOLD"
  ELSE IF Conforms(rule, v) THEN "ACCEPTED" ELSE "REJECTED"

-----------------------------------------------------------------------------
(* Aggregation of the samples of one source.                                *)
Total(values) == FoldFunction(LAMBDA v, acc : v + acc, 0, values)
First(values) == values[1]                           \* mutant
Least(values) == CHOOSE v \in Range(values) : \A w \in Range(values) : v <= w
Greatest(values) == CHOOSE v \in Range(values) : \A w \in Range(values) : w <= v

(* num / den rounded to a multiple of Grain, half to even (quantize under   *)
(* ROUND_HALF_EVEN).                                                        *)
RoundedHalfUp(num, den) ==                           \* mutant
  Grain * ((2 * num + Grain * den) \div (2 * Grain * den))
RoundedRatio(num, den) ==
  LET step == Grain * den
      q == num \div step
      r == num % step
  IN  Grain * IF 2 * r < step \/ (2 * r = step /\ q % 2 = 0) THEN q ELSE q + 1

Average(values) == RoundedRatio(Total(values), Len(values))

Aggregate(values, policy, rule) ==
  IF values = << >> THEN Absent
  ELSE CASE policy \in {"ALL_SAMPLES_IN_SPEC", "WORST_CASE_IN_SPEC"} ->
              Combine({EvaluateRule(rule, v) : v \in Range(values)})
         [] policy = "AVERAGE_IN_SPEC" -> EvaluateRule(rule, Average(values))
         [] policy = "MIN_IN_SPEC" -> EvaluateRule(rule, Least(values))
         [] policy = "MAX_IN_SPEC" -> EvaluateRule(rule, Greatest(values))
         [] policy = "MANUAL" -> "ON_HOLD"

-----------------------------------------------------------------------------
(* The writes admit a value in fixed notation and NUMERIC(24, 12) keeps it; *)
(* it comes back with twelve decimals, which Python writes with an exponent *)
(* when the value is zero or small, and DecimalValue.parse refuses that.    *)
Parses(v) == v >= Legible \/ v <= -Legible

(* An ItemInput is [policy, rule, sample, mapped, supplier, internal] with  *)
(* the samples of each source; a value that does not parse or a MANUAL      *)
(* sample policy holds the item before any aggregation, an invalid rule     *)
(* holds it as soon as it is applied.                                       *)
Verdict(source) == Aggregate(item[source], item.sample, item.rule)

EvaluateItem ==
  IF \/ ~item.mapped
     \/ \E v \in Range(item.supplier \o item.internal) : ~Parses(v)
     \/ item.sample = "MANUAL"
     \/ item.supplier \o item.internal # << >> /\ ~RuleIsValid(item.rule)
  THEN "ON_HOLD"
  ELSE ItemOverall(item.policy, TRUE, Verdict("supplier"), Verdict("internal"))

-----------------------------------------------------------------------------
Samples == UNION {[1..n -> Values] : n \in 0..MaxSamples}

InitItem ==
  \E p \in ItemPolicies, r \in Rules, s \in SamplePolicies, m \in BOOLEAN :
    item = [policy |-> p, rule |-> r, sample |-> s, mapped |-> m,
            supplier |-> << >>, internal |-> << >>]

(* The reviewed values of create_inspection.                                *)
ReviewSupplier(values) ==
  /\ item.supplier = << >> /\ item.internal = << >>
  /\ item' = [item EXCEPT !.supplier = values]

(* put_internal_results replaces every sample of the item.                  *)
PutInternal(values) == item' = [item EXCEPT !.internal = values]

NextItem == \E values \in Samples : ReviewSupplier(values) \/ PutInternal(values)

ItemSpec == InitItem /\ [][NextItem]_item

-----------------------------------------------------------------------------
ItemTypeOK ==
  /\ item.supplier \in Samples /\ item.internal \in Samples
  /\ EvaluateItem \in Decisions
  /\ \A source \in {"supplier", "internal"} :
       RuleIsValid(item.rule) => Verdict(source) \in Decisions \cup {Absent}

(* The average is rounded to the nearest step, and to the even one when two *)
(* are equally near (ROUND_HALF_EVEN).                                      *)
Distance(a, b) == IF a < b THEN b - a ELSE a - b

AverageIsNearestEven ==
  item.internal # << >> =>
    LET n == Len(item.internal)
        average == Average(item.internal)
        away(x) == Distance(n * x, Total(item.internal))
    IN  /\ average % Grain = 0
        /\ \A x \in {average - Grain, average + Grain} :
             \/ away(average) < away(x)
             \/ away(average) = away(x) /\ (average \div Grain) % 2 = 0

(* The samples are selected without an ORDER BY: their order never matters  *)
(* (_numeric_samples).                                                      *)
OrderIsIrrelevant ==
  RuleIsValid(item.rule) =>
    \A f \in [DOMAIN item.internal -> DOMAIN item.internal] :
      IsInjective(f) =>
        Aggregate([k \in DOMAIN item.internal |-> item.internal[f[k]]],
                  item.sample, item.rule) = Verdict("internal")

(* Checking only the least sample against a lower limit, or the greatest    *)
(* against an upper one, is checking every sample (_aggregate).             *)
ExtremeStandsForAll ==
  /\ RuleIsValid(item.rule)
  /\ \/ item.sample = "MIN_IN_SPEC" /\ item.rule.op \in {"GTE", "GT"}
     \/ item.sample = "MAX_IN_SPEC" /\ item.rule.op \in {"LTE", "LT"}
  => Verdict("internal") = Aggregate(item.internal, "ALL_SAMPLES_IN_SPEC", item.rule)

(* Where the limits are multiples of the rounding step and part of the      *)
(* admitted range, rounding never rejects an average of conforming samples. *)
LimitsOnGrid ==
  /\ item.rule.op \notin {"GT", "LT", "BETWEEN_EXCLUSIVE"}
  /\ \A column \in DOMAIN item.rule.bounds : item.rule.bounds[column] % Grain = 0

ConformingSamplesAverageWell ==
  /\ RuleIsValid(item.rule) /\ LimitsOnGrid
  /\ Aggregate(item.internal, "ALL_SAMPLES_IN_SPEC", item.rule) = "ACCEPTED"
  => Aggregate(item.internal, "AVERAGE_IN_SPEC", item.rule) = "ACCEPTED"

(* What several samples are aggregated to is what they say, in whatever     *)
(* order they come: the nearest average, the extreme that stands for all,   *)
(* and no rejection by rounding (_aggregate).                               *)
AggregateStandsForSamples ==
  /\ AverageIsNearestEven /\ OrderIsIrrelevant
  /\ ExtremeStandsForAll /\ ConformingSamplesAverageWell

(* An item is accepted only on evidence: the sources its policy needs have  *)
(* samples and all that count are accepted; a stand-in for the supplier     *)
(* needs the policy that allows it (evaluate_item_details).                 *)
AcceptedOnEvidence ==
  EvaluateItem = "ACCEPTED" =>
    LET source == item.policy.source IN
    /\ item.mapped /\ item.sample # "MANUAL" /\ RuleIsValid(item.rule)
    /\ "ACCEPTED" \in {Verdict("supplier"), Verdict("internal")}
    /\ source \in {"INTERNAL_ONLY", "SUPPLIER_REFERENCE_INTERNAL_FINAL", "BOTH_ALL_MUST_PASS"}
         => Verdict("internal") = "ACCEPTED"
    /\ source = "SUPPLIER_ONLY" /\ item.supplier # << >> => Verdict("supplier") = "ACCEPTED"
    /\ source = "BOTH_ALL_MUST_PASS" => Verdict("supplier") = "ACCEPTED"
    /\ source # "INTERNAL_ONLY" /\ item.supplier = << >>
         => item.policy.missing = "INTERNAL_SUBSTITUTE"
    /\ source = "BOTH_INTERNAL_PRIORITY" /\ item.internal # << >>
         => Verdict("internal") = "ACCEPTED"

(* Samples an internal item was given are judged by its limits: accepted    *)
(* when all of them conform, rejected when one does not (the operators of   *)
(* FR-SPEC-004).                                                            *)
JudgedByItsLimits ==
  /\ item.mapped /\ item.policy.source = "INTERNAL_ONLY"
  /\ item.sample = "ALL_SAMPLES_IN_SPEC" /\ item.internal # << >>
  /\ RuleIsValid(item.rule) /\ item.rule.op \in NumericOperators
  => EvaluateItem = IF \A v \in Range(item.internal) : Conforms(item.rule, v)
                    THEN "ACCEPTED" ELSE "REJECTED"
=============================================================================
