-------------------------- MODULE MCInspectionCase --------------------------
(* Small instances of InspectionCase: actors, items and specification       *)
(* versions by name, and what keeps a run to the question it asks.          *)
EXTENDS InspectionCase, TLC

CONSTANTS c1, c2, c3, c4, insp, dual, lead, x, y, v1, v2, v3

(* Internal results first, the supplier's otherwise; or both must pass.     *)
MCPolicyBoth == x :> [source |-> "BOTH_ALL_MUST_PASS", missing |-> "HOLD"]
MCPolicyPriority == x :> [source |-> "BOTH_INTERNAL_PRIORITY", missing |-> "HOLD"]

(* A supplier item whose missing result holds the case.                     *)
MCPolicySupplier == x :> [source |-> "SUPPLIER_ONLY", missing |-> "HOLD"]

(* Each version in a profile of its own; v1 and v2 of one scope, v3 of a    *)
(* more specific one.                                                       *)
MCProfile == [v \in Versions |-> v]
MCScope == [v \in Versions |-> IF v = v3 THEN {"supplier"} ELSE {}]

CaseSymmetry == Permutations(Cases)

(* Constraints: the LOT, or the versions too, stay as they first were.      *)
LotSettled == lot = "CANONICAL"
SurroundingsSettled ==
  /\ LotSettled
  /\ \A v \in Versions : spec[v].covers /\ spec[v].status # "RETIRED"
=============================================================================
