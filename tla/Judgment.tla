------------------------------ MODULE Judgment ------------------------------
(***************************************************************************)
(* The decision level of the judgment engine (hyc_domain/judgment.py) and   *)
(* the way ApprovalRepository feeds it from persisted rows (hyc_data/       *)
(* repositories.py): which source of an item counts, what a missing         *)
(* supplier result means, and how the items of a case combine.  Sampling    *)
(* adds the numeric level below it.                                         *)
(***************************************************************************)

(* EngineDecision; Absent stands for Python's None (the source gave nothing). *)
Decisions == {"ACCEPTED", "REJECTED", "ON_HOLD"}
Absent == "NONE"

(* What a source gives when a value of it cannot be read back: NUMERIC(24,  *)
(* 12) returns 0 as 0E-12, which DecimalValue.parse refuses.                *)
Unreadable == "UNREADABLE"

SourcePolicies == {"SUPPLIER_ONLY", "INTERNAL_ONLY", "BOTH_INTERNAL_PRIORITY",
                   "BOTH_ALL_MUST_PASS", "SUPPLIER_REFERENCE_INTERNAL_FINAL"}
MissingPolicies == {"REQUEST_SUPPLEMENT", "INTERNAL_SUBSTITUTE",
                    "SPECIAL_ACCEPTANCE", "HOLD", "REJECT"}

(* _combine: a missing or held decision dominates, then a rejection.        *)
Combine(decisions) ==
  IF decisions \cap {Absent, "ON_HOLD"} # {} THEN "ON_HOLD"
  ELSE IF "REJECTED" \in decisions THEN "REJECTED"
  ELSE "ACCEPTED"

-----------------------------------------------------------------------------
InternalRequired(source) ==
  source \in {"INTERNAL_ONLY", "BOTH_ALL_MUST_PASS", "SUPPLIER_REFERENCE_INTERNAL_FINAL"}

(* _evaluate_supplier_missing.                                              *)
AnySubstitute(missing, internal) ==                  \* mutant
  IF missing = "REJECT" THEN "REJECTED"
  ELSE IF internal = Absent THEN "ON_HOLD" ELSE internal
Unsubstituted(missing, internal) ==                  \* mutant
  CASE missing = "REJECT" -> "REJECTED"
    [] missing = "INTERNAL_SUBSTITUTE" -> internal
    [] OTHER -> "ON_HOLD"
SupplierMissing(missing, internal) ==
  CASE missing = "REJECT" -> "REJECTED"
    [] missing = "INTERNAL_SUBSTITUTE" -> IF internal = Absent THEN "ON_HOLD" ELSE internal
    [] OTHER -> "ON_HOLD"

(* The decisions the source policy chooses from.                            *)
Chosen(source, supplier, internal) ==
  CASE source = "SUPPLIER_ONLY" -> {supplier}
    [] source \in {"INTERNAL_ONLY", "SUPPLIER_REFERENCE_INTERNAL_FINAL"} -> {internal}
    [] source = "BOTH_INTERNAL_PRIORITY" -> {IF internal # Absent THEN internal ELSE supplier}
    [] source = "BOTH_ALL_MUST_PASS" -> {supplier, internal}

(* evaluate_item_details once both sources are aggregated: the overall      *)
(* decision of an item whose supplier column is mapped or not.              *)
ItemOverall(policy, mapped, supplier, internal) ==
  IF ~mapped THEN "ON_HOLD"
  ELSE IF InternalRequired(policy.source) /\ internal = Absent THEN "ON_HOLD"
  ELSE IF policy.source # "INTERNAL_ONLY" /\ supplier = Absent
    THEN IF policy.source = "BOTH_ALL_MUST_PASS" THEN "ON_HOLD"
         ELSE SupplierMissing(policy.missing, internal)
  ELSE Combine(Chosen(policy.source, supplier, internal))

(* _persisted_inputs with create_inspection: a supplier row is written only *)
(* for a reviewed value, except for items that never consult the supplier;  *)
(* an item without a row that needs one is UNMAPPED.  A value of either     *)
(* source that cannot be read back holds the item, whatever its policy.     *)
PersistedOverall(policy, supplier, internal) ==
  IF Unreadable \in {supplier, internal} THEN "ON_HOLD"
  ELSE ItemOverall(policy, policy.source = "INTERNAL_ONLY" \/ supplier # Absent,
                   supplier, internal)
=============================================================================
