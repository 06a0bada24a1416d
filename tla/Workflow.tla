------------------------------ MODULE Workflow ------------------------------
(***************************************************************************)
(* The tables of permitted state transitions of inspection cases and        *)
(* documents, and the guards that consult them (hyc_domain/workflow.py).    *)
(***************************************************************************)

(* A transition is [from, to, role, reason, evaluated]: who may take it,    *)
(* whether it needs a reason, whether it needs a deterministic evaluation.  *)
Edges(froms, tos, role, reason, evaluated) ==
  [from : froms, to : tos, role : {role}, reason : {reason}, evaluated : {evaluated}]

CaseTransitions ==
  UNION {
    Edges({"DRAFT"}, {"DOCUMENT_PENDING"}, "INSPECTOR", FALSE, FALSE),
    Edges({"DOCUMENT_PENDING"}, {"MATCH_REVIEW"}, "INSPECTOR", FALSE, FALSE),
    Edges({"MATCH_REVIEW"}, {"SUPPLIER_REVIEW"}, "INSPECTOR", FALSE, FALSE),
    Edges({"SUPPLIER_REVIEW"}, {"INTERNAL_TEST_PENDING"}, "INSPECTOR", FALSE, FALSE),
    Edges({"SUPPLIER_REVIEW", "INTERNAL_TEST_PENDING", "RETURNED"}, {"READY_FOR_REVIEW"},
          "INSPECTOR", FALSE, TRUE),
    Edges({"READY_FOR_REVIEW"}, {"LEAD_REVIEW"}, "INSPECTOR", FALSE, TRUE),
    Edges({"LEAD_REVIEW"}, {"ACCEPTED"}, "LEAD", FALSE, TRUE),
    Edges({"LEAD_REVIEW"}, {"REJECTED", "ON_HOLD", "RETEST", "SPECIAL_ACCEPTED"},
          "LEAD", TRUE, TRUE),
    Edges({"LEAD_REVIEW"}, {"RETURNED"}, "LEAD", TRUE, FALSE),
    Edges({"RETURNED", "RETEST"}, {"DOCUMENT_PENDING"}, "INSPECTOR", TRUE, FALSE),
    Edges({"DRAFT"}, {"ON_HOLD", "CANCELLED"}, "INSPECTOR", TRUE, FALSE),
    Edges({"ON_HOLD"}, {"DRAFT"}, "LEAD", TRUE, FALSE),
    Edges({"ACCEPTED", "REJECTED", "SPECIAL_ACCEPTED"}, {"CLOSED"}, "LEAD", FALSE, FALSE)}

(* guard_transition.                                                        *)
Guard(current, target, role, reason, evaluated) ==
  \E t \in CaseTransitions :
    /\ t.from = current /\ t.to = target /\ t.role = role
    /\ t.reason => reason
    /\ t.evaluated => evaluated

-----------------------------------------------------------------------------
DocumentTransitions ==
  UNION {
    Edges({"RECEIVED"}, {"STABILIZING"}, "SYSTEM", FALSE, FALSE),
    Edges({"STABILIZING"}, {"HASHED"}, "SYSTEM", FALSE, FALSE),
    Edges({"HASHED"}, {"DUPLICATE", "PREPROCESSING"}, "SYSTEM", FALSE, FALSE),
    Edges({"PREPROCESSING"}, {"OCR_RUNNING"}, "SYSTEM", FALSE, FALSE),
    Edges({"OCR_RUNNING"}, {"PARSED"}, "SYSTEM", FALSE, FALSE),
    Edges({"PARSED"}, {"REVIEW_REQUIRED"}, "SYSTEM", FALSE, FALSE),
    Edges({"PARSED", "REVIEW_REQUIRED"}, {"PARSE_CONFIRMED"}, "INSPECTOR", FALSE, FALSE),
    Edges({"PARSE_CONFIRMED"}, {"MATCH_PENDING"}, "INSPECTOR", FALSE, FALSE),
    Edges({"MATCH_PENDING"}, {"MATCHED"}, "INSPECTOR", FALSE, FALSE),
    Edges({"MATCHED"}, {"ARCHIVED"}, "LEAD", FALSE, FALSE),
    Edges({"FAILED"}, {"RECEIVED"}, "INSPECTOR", TRUE, FALSE)}
=============================================================================
