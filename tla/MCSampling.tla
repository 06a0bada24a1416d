----------------------------- MODULE MCSampling -----------------------------
(* Small instances of Sampling: rules whose limits are on and off the       *)
(* rounding grid, one of them invalid.                                      *)
EXTENDS Sampling

Rule(op, bounds) == [op |-> op, bounds |-> bounds, allowed |-> FALSE]

MCRules ==
  {Rule(op, [lower |-> n]) : op \in {"GTE", "GT", "EQUAL"}, n \in {2, 3}}
  \cup {Rule(op, [upper |-> n]) : op \in {"LTE", "LT"}, n \in {2, 3}}
  \cup {Rule("BETWEEN_INCLUSIVE", [lower |-> 2, upper |-> n]) : n \in {1, 4}}
  \cup {Rule("BETWEEN_EXCLUSIVE", [lower |-> 1, upper |-> 4]),
        Rule("TARGET_PLUS_MINUS", [target |-> 2, tolerance |-> 2]),
        Rule("MANUAL_PASS_FAIL", << >>)}
(* "At most 0.15 %" and the like.                                            *)
MCUpperLimit == {Rule("LTE", [upper |-> 2])}
MCPolicies == [source : SourcePolicies, missing : MissingPolicies]
MCValues == {-1, 0, 2, 3}

(* Constraint: the aggregation of several samples is looked at for one      *)
(* source, and what the sources make together for one sample each.          *)
SamplesOfOneSource ==
  item.supplier = << >> /\ item.mapped
  /\ item.policy = [source |-> "INTERNAL_ONLY", missing |-> "HOLD"]
Sources ==
  /\ item.rule \in {Rule("GTE", [lower |-> 2]), Rule("LT", [upper |-> 2])}
  /\ item.sample \in {"ALL_SAMPLES_IN_SPEC", "MANUAL"}
  /\ \A values \in {item.supplier, item.internal} : Len(values) <= 1
  /\ \A values \in {item.supplier, item.internal} : \A i \in DOMAIN values : values[i] \in {-1, 0, 2}
NumbersOrSources == SamplesOfOneSource \/ Sources
=============================================================================
