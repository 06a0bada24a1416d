--------------------------- MODULE InspectionCase ---------------------------
(***************************************************************************)
(* The life of an inspection case: created from a confirmed extraction,     *)
(* completed with internal results, submitted, returned or finalized by a   *)
(* LEAD, and continued by corrections and retests (hyc_api/services/p3.py,  *)
(* hyc_api/routes/inspections.py, ApprovalRepository in hyc_data/           *)
(* repositories.py and the triggers of migrations 0002 and 0004), while     *)
(* specification versions are activated, retired and rescheduled            *)
(* (hyc_api/routes/specs.py) and the LOT may fall into conflict review.     *)
(*                                                                         *)
(* All cases belong to one receipt allocation; Versions are the             *)
(* specification versions whose scope matches it.  Every handler runs in    *)
(* one READ COMMITTED transaction that first locks the row of its case, so  *)
(* a handler is one action, except where it depends on rows it does not     *)
(* lock: a finalization evaluates in one step, the deferred trigger reads   *)
(* the specification and the LOT again in a second, and the commit is a     *)
(* third.  A client reads a case without a lock, its version first and its  *)
(* results later.                                                           *)
(***************************************************************************)
EXTENDS Judgment, Workflow, Naturals, FiniteSets

CONSTANTS
  Cases,         \* identities of inspection cases
  Inspectors,    \* actors that may act as INSPECTOR
  Leads,         \* actors that may act as LEAD
  Items,         \* items of every specification version
  Policy,        \* item -> [source, missing]
  Readings,      \* what the samples of a source can come to
  Versions,      \* specification versions that match the allocation
  Profile,       \* version -> its profile
  Scope,         \* version -> which of supplier and model the scope of its profile names
  MaxVersion     \* bound on lock_version: no request starts from a higher one

Users == Inspectors \cup Leads
Evidence == [Items -> Readings \cup {Absent}]
Nothing == [i \in Items |-> Absent]

ASSUME CaseAssumption ==
  /\ Absent \notin Cases /\ Absent \notin Users /\ Absent \notin Versions
  /\ Items # {}
  /\ Policy \in [Items -> [source : SourcePolicies, missing : MissingPolicies]]
  /\ Readings \subseteq Decisions \cup {Unreadable}
  /\ Scope \in [Versions -> SUBSET {"supplier", "model"}]
  /\ MaxVersion \in Nat

VARIABLES
  cases,      \* inspection_cases: case -> its row, NoCase before the INSERT
  supplier,   \* supplier_results: case -> item -> decision of the supplier's samples
  internal,   \* internal_results: case -> item -> decision of the internal samples
  archive,    \* case -> what finalize wrote: snapshot, approval, audit and outbox rows
  spec,       \* spec_versions: version -> [status, covers], covers: its window holds the receipt date
  lot,        \* identity_status of the LOT of the allocation
  view,       \* user -> the last answer the API gave it about a case
  tx          \* LEAD -> its finalization in flight, holding the row lock of the case

vars == <<cases, supplier, internal, archive, spec, lot, view, tx>>

-----------------------------------------------------------------------------
Statuses == {"INTERNAL_TEST_PENDING", "READY_FOR_REVIEW", "LEAD_REVIEW", "RETURNED"} \cup Decisions

CaseRow == [status : Statuses, candidate : Decisions, final : Decisions \cup {Absent},
            submitter : Users \cup {Absent}, version : Nat, spec : Versions,
            root : Cases, round : Nat, revision : Nat,
            parent : Cases \cup {Absent}]
NoCase == [status |-> Absent]
NoArchive == [final |-> Absent]
NoView == [case |-> Absent]
NoTx == [case |-> Absent]

Archive == [final : Decisions, candidate : Decisions, approver : Leads, spec : Versions,
            supplier : Evidence, internal : Evidence, seen : Evidence]
View == [case : Cases, version : Nat, internal : Evidence, complete : BOOLEAN]
Tx == [case : Cases, final : Decisions, candidate : Decisions, seen : Evidence,
       checked : BOOLEAN]

TypeOK ==
  /\ cases \in [Cases -> CaseRow \cup {NoCase}]
  /\ supplier \in [Cases -> Evidence]
  /\ internal \in [Cases -> Evidence]
  /\ archive \in [Cases -> Archive \cup {NoArchive}]
  /\ spec \in [Versions -> [status : {"DRAFT", "ACTIVE", "RETIRED"}, covers : BOOLEAN]]
  /\ lot \in {"CANONICAL", "CONFLICT_REVIEW", "MERGED"}
  /\ view \in [Users -> View \cup {NoView}]
  /\ tx \in [Leads -> Tx \cup {NoTx}]

Exists(c) == cases[c] # NoCase
Open(c) == Exists(c) /\ cases[c].final = Absent
Final(c) == Exists(c) /\ cases[c].final # Absent
ReadWithoutLock(c) == TRUE                           \* mutant
Unlocked(c) == \A l \in Leads : tx[l].case # c

-----------------------------------------------------------------------------
(* JudgmentEngine.evaluate_case over _persisted_inputs.                     *)
Candidate(sup, int) ==
  Combine({PersistedOverall(Policy[i], sup[i], int[i]) : i \in Items})

(* _select_spec, _effective_spec and the trigger on final decisions: the    *)
(* most specific ACTIVE version in its window, provided it is the only one. *)
NotDraft == {v \in Versions : spec[v].status # "DRAFT" /\ spec[v].covers}     \* mutant
Applicable == {v \in Versions : spec[v].status = "ACTIVE" /\ spec[v].covers}
Specificity(v) == Cardinality(Scope[v])
Preferred == {v \in Applicable : \A w \in Applicable : Specificity(w) <= Specificity(v)}
InForce(v) == Preferred = {v}

(* The status evaluate_inspection(persist=True) gives a case; a held item   *)
(* is a blocker.                                                            *)
KeptInReview(status, candidate) ==                   \* mutant
  IF status \in {"RETURNED", "LEAD_REVIEW"} THEN status
  ELSE IF candidate = "ON_HOLD" THEN "INTERNAL_TEST_PENDING" ELSE "READY_FOR_REVIEW"
EvaluatedStatus(status, candidate) ==
  IF status = "RETURNED" THEN "RETURNED"
  ELSE IF candidate = "ON_HOLD" THEN "INTERNAL_TEST_PENDING" ELSE "READY_FOR_REVIEW"

(* The row after the flush of evaluate_inspection: version_id_col counts    *)
(* only a flush that changes the row.                                       *)
Evaluated(row, candidate) ==
  LET status == EvaluatedStatus(row.status, candidate)
      dirty == status # row.status \/ candidate # row.candidate
  IN  [row EXCEPT !.status = status, !.candidate = candidate,
                  !.version = IF dirty THEN @ + 1 ELSE @]

(* updated_at is assigned after the evaluation, so that the version moves   *)
(* even when the evaluation changed nothing.                                *)
Untouched(row) == row                                \* mutant
Touched(row) == [row EXCEPT !.version = @ + 1]

(* require_if_match: the client sends the version of its last answer.       *)
AnyVersion(u, c) ==                                  \* mutant
  view[u].case = c /\ view[u].complete /\ cases[c].version <= MaxVersion
Matches(u, c) ==
  /\ view[u].case = c
  /\ view[u].complete
  /\ view[u].version = cases[c].version
  /\ cases[c].version <= MaxVersion

-----------------------------------------------------------------------------
Init ==
  /\ cases = [c \in Cases |-> NoCase]
  /\ supplier = [c \in Cases |-> Nothing]
  /\ internal = [c \in Cases |-> Nothing]
  /\ archive = [c \in Cases |-> NoArchive]
  /\ spec = [v \in Versions |-> [status |-> "DRAFT", covers |-> TRUE]]
  /\ lot = "CANONICAL"
  /\ view = [u \in Users |-> NoView]
  /\ tx = [l \in Leads |-> NoTx]

(* POST /inspections: the reviewed supplier values become supplier results. *)
CreateInspection(c, v, sup) ==
  /\ ~Exists(c)
  /\ InForce(v)
  /\ cases' = [cases EXCEPT ![c] =
       [status |-> "INTERNAL_TEST_PENDING", candidate |-> "ON_HOLD", final |-> Absent,
        submitter |-> Absent, version |-> 1, spec |-> v,
        root |-> c, round |-> 1, revision |-> 1, parent |-> Absent]]
  /\ supplier' = [supplier EXCEPT ![c] = sup]
  /\ UNCHANGED <<internal, archive, spec, lot, view, tx>>

(* GET /inspections/{id}, and the answer a write ends with: the row of the  *)
(* case is read first ...                                                   *)
ReadCase(u, c) ==
  /\ Exists(c)
  /\ view' = [view EXCEPT ![u] = [case |-> c, version |-> cases[c].version,
                                  internal |-> Nothing, complete |-> FALSE]]
  /\ UNCHANGED <<cases, supplier, internal, archive, spec, lot, tx>>

(* ... and its results afterwards, in another snapshot.                     *)
ReadResults(u) ==
  /\ view[u] # NoView
  /\ ~view[u].complete
  /\ view' = [view EXCEPT ![u].internal = internal[view[u].case], ![u].complete = TRUE]
  /\ UNCHANGED <<cases, supplier, internal, archive, spec, lot, tx>>

(* PUT /inspections/{id}/internal-results: the whole set of results is      *)
(* replaced, the case evaluated, and updated_at touched.                    *)
PutInternalResults(u, c, results) ==
  /\ Open(c) /\ Unlocked(c) /\ Matches(u, c)
  /\ InForce(cases[c].spec)
  /\ internal' = [internal EXCEPT ![c] = results]
  /\ cases' = [cases EXCEPT ![c] =
       Touched(Evaluated(@, Candidate(supplier[c], results)))]
  /\ view' = [view EXCEPT ![u] = NoView]
  /\ UNCHANGED <<supplier, archive, spec, lot, tx>>

(* POST /inspections/{id}/submit.                                           *)
SubmitInspection(u, c) ==
  /\ Open(c) /\ Unlocked(c) /\ Matches(u, c)
  /\ InForce(cases[c].spec)
  /\ LET candidate == Candidate(supplier[c], internal[c]) IN
       /\ candidate # "ON_HOLD"
       /\ cases' = [cases EXCEPT ![c] =
            LET row == Evaluated(@, candidate)
            IN  [row EXCEPT !.status = "LEAD_REVIEW", !.submitter = u, !.version = @ + 1]]
  /\ view' = [view EXCEPT ![u] = NoView]
  /\ UNCHANGED <<supplier, internal, archive, spec, lot, tx>>

(* POST /inspections/{id}/return, or /approvals with action RETURN.         *)
ReturnInspection(l, c) ==
  /\ Exists(c) /\ Unlocked(c) /\ Matches(l, c)
  /\ cases[c].status = "LEAD_REVIEW"
  /\ cases' = [cases EXCEPT ![c].status = "RETURNED", ![c].version = @ + 1]
  /\ view' = [view EXCEPT ![l] = NoView]
  /\ UNCHANGED <<supplier, internal, archive, spec, lot, tx>>

(* POST /inspections/{id}/approvals, up to the flush: ApprovalRepository.   *)
(* finalize checks and evaluates under the row lock of the case, without    *)
(* locking the specification or the LOT.  reason: the request carries one.  *)
BeginApproval(l, c, reason) ==
  LET candidate == Candidate(supplier[c], internal[c])
      final == cases[c].candidate
  IN  /\ tx[l] = NoTx
      /\ Open(c) /\ Unlocked(c) /\ Matches(l, c)
      /\ cases[c].status = "LEAD_REVIEW"
      /\ cases[c].submitter \notin {Absent, l}
      /\ lot = "CANONICAL"
      /\ InForce(cases[c].spec)
      /\ final # candidate => reason
      /\ final = "ACCEPTED" => candidate = "ACCEPTED"
      /\ Guard("LEAD_REVIEW", final, "LEAD", reason, TRUE)
      /\ tx' = [tx EXCEPT ![l] = [case |-> c, final |-> final, candidate |-> candidate,
                                  seen |-> view[l].internal, checked |-> FALSE]]
      /\ view' = [view EXCEPT ![l] = NoView]
      /\ UNCHANGED <<cases, supplier, internal, archive, spec, lot>>

(* hyc_final_requires_snapshot_approval, deferred to the commit.            *)
TriggerAdmits(l) ==
  LET row == cases[tx[l].case] IN
  /\ row.final = Absent
  /\ row.status = "LEAD_REVIEW"
  /\ row.submitter \notin {Absent, l}
  /\ tx[l].candidate \in {"REJECTED", "ON_HOLD"} => tx[l].final # "ACCEPTED"
  /\ InForce(row.spec)
  /\ lot = "CANONICAL"

CheckApproval(l) ==
  /\ tx[l] # NoTx
  /\ ~tx[l].checked
  /\ TriggerAdmits(l)
  /\ tx' = [tx EXCEPT ![l].checked = TRUE]
  /\ UNCHANGED <<cases, supplier, internal, archive, spec, lot, view>>

(* The rows finalize added become visible together.                         *)
CommitApproval(l) ==
  LET t == tx[l]
      c == t.case
  IN  /\ t # NoTx
      /\ t.checked
      /\ cases' = [cases EXCEPT ![c].status = t.final, ![c].final = t.final,
                                ![c].candidate = t.candidate, ![c].version = @ + 1]
      /\ archive' = [archive EXCEPT ![c] =
           [final |-> t.final, candidate |-> t.candidate, approver |-> l,
            spec |-> cases[c].spec, supplier |-> supplier[c], internal |-> internal[c],
            seen |-> t.seen]]
      /\ tx' = [tx EXCEPT ![l] = NoTx]
      /\ UNCHANGED <<supplier, internal, spec, lot, view>>

(* The trigger refuses, a fault is injected, or the process or connection   *)
(* dies: the transaction rolls back.                                        *)
AbortApproval(l) ==
  /\ tx[l] # NoTx
  /\ tx' = [tx EXCEPT ![l] = NoTx]
  /\ UNCHANGED <<cases, supplier, internal, archive, spec, lot, view>>

-----------------------------------------------------------------------------
(* uq_inspection_lineage_round_revision, uq_inspection_correction_revision. *)
NoUniqueKey(root, round, revision) == TRUE           \* mutant
LineageFree(root, round, revision) ==
  \A d \in Cases : Exists(d) =>
    <<cases[d].root, cases[d].round, cases[d].revision>> # <<root, round, revision>>

(* clone_lineage commits the row; the route then evaluates it once more, in *)
(* a transaction nobody commits, and answers with that evaluation.          *)
Clone(u, p, c, row, results) ==
  /\ Final(p) /\ Unlocked(p) /\ ~Exists(c)
  /\ LineageFree(row.root, row.round, row.revision)
  /\ cases' = [cases EXCEPT ![c] = row]
  /\ supplier' = [supplier EXCEPT ![c] = supplier[p]]
  /\ internal' = [internal EXCEPT ![c] = results]
  /\ view' = [view EXCEPT ![u] =
       IF InForce(row.spec)
       THEN [case |-> c, internal |-> results, complete |-> TRUE,
             version |-> Evaluated(row, Candidate(supplier[p], results)).version]
       ELSE NoView]
  /\ UNCHANGED <<archive, spec, lot, tx>>

(* POST /inspections/{id}/revisions: a correction of a finalized case keeps *)
(* its evidence and its candidate decision.                                 *)
ReviseInspection(u, p, c) ==
  Clone(u, p, c,
    [cases[p] EXCEPT !.status = "READY_FOR_REVIEW", !.final = Absent, !.submitter = Absent,
                     !.version = 1, !.revision = @ + 1, !.parent = p],
    internal[p])

(* POST /inspections/{id}/retests: the internal results are measured again. *)
RetestInspection(u, p, c) ==
  Clone(u, p, c,
    [cases[p] EXCEPT !.status = "INTERNAL_TEST_PENDING", !.candidate = "ON_HOLD",
                     !.final = Absent, !.submitter = Absent, !.version = 1,
                     !.round = @ + 1, !.revision = 1, !.parent = p],
    Nothing)

-----------------------------------------------------------------------------
(* hyc_prevent_active_spec_overlap, of the windows that hold the receipt    *)
(* date.                                                                    *)
NoActiveOverlap ==
  \A v, w \in Versions :
    v # w /\ Scope[v] = Scope[w] => {spec'[v], spec'[w]} # {[status |-> "ACTIVE", covers |-> TRUE]}

(* POST /spec-versions/{id}/activate: one ACTIVE version per profile.       *)
ActivateVersion(v) ==
  /\ spec[v].status = "DRAFT"
  /\ \A w \in Versions : Profile[w] = Profile[v] => spec[w].status # "ACTIVE"
  /\ spec' = [spec EXCEPT ![v].status = "ACTIVE"]
  /\ NoActiveOverlap
  /\ UNCHANGED <<cases, supplier, internal, archive, lot, view, tx>>

RetireVersion(v) ==
  /\ spec[v].status = "ACTIVE"
  /\ spec' = [spec EXCEPT ![v].status = "RETIRED"]
  /\ UNCHANGED <<cases, supplier, internal, archive, lot, view, tx>>

(* PUT /spec-versions/{id}: the window may move whatever the status is.     *)
RescheduleVersion(v) ==
  /\ spec' = [spec EXCEPT ![v].covers = ~@]
  /\ NoActiveOverlap
  /\ UNCHANGED <<cases, supplier, internal, archive, lot, view, tx>>

(* _apply_conflict_evidence, then guarded_merge: the LOT leaves CANONICAL.  *)
LotConflict ==
  /\ \/ lot = "CANONICAL" /\ lot' = "CONFLICT_REVIEW"
     \/ lot = "CONFLICT_REVIEW" /\ lot' = "MERGED"
  /\ UNCHANGED <<cases, supplier, internal, archive, spec, view, tx>>

-----------------------------------------------------------------------------
Next ==
  \/ \E c \in Cases, v \in Versions, sup \in Evidence : CreateInspection(c, v, sup)
  \/ \E u \in Users, c \in Cases : ReadCase(u, c)
  \/ \E u \in Users : ReadResults(u)
  \/ \E u \in Inspectors, c \in Cases, results \in Evidence : PutInternalResults(u, c, results)
  \/ \E u \in Inspectors, c \in Cases : SubmitInspection(u, c)
  \/ \E l \in Leads, c \in Cases : ReturnInspection(l, c)
  \/ \E l \in Leads, c \in Cases, reason \in BOOLEAN : BeginApproval(l, c, reason)
  \/ \E l \in Leads : CheckApproval(l)
  \/ \E l \in Leads : CommitApproval(l)
  \/ \E l \in Leads : AbortApproval(l)
  \/ \E u \in Inspectors, p, c \in Cases : ReviseInspection(u, p, c)
  \/ \E u \in Inspectors, p, c \in Cases : RetestInspection(u, p, c)
  \/ \E v \in Versions : ActivateVersion(v) \/ RetireVersion(v) \/ RescheduleVersion(v)
  \/ LotConflict

Spec == Init /\ [][Next]_vars

-----------------------------------------------------------------------------
(* A final decision is the one that was archived, over the evidence that is *)
(* still stored, and a plain ACCEPTED only where the engine accepted        *)
(* (ApprovalRepository.finalize, the guards on finalized evidence).         *)
DecisionMatchesEvidence ==
  \A c \in Cases : Final(c) =>
    /\ archive[c] # NoArchive
    /\ archive[c].final = cases[c].final /\ cases[c].status = cases[c].final
    /\ archive[c].supplier = supplier[c] /\ archive[c].internal = internal[c]
    /\ archive[c].candidate = Candidate(supplier[c], internal[c])
    /\ cases[c].final = "ACCEPTED" => archive[c].candidate = "ACCEPTED"

(* The actor who submitted a case never approves it, however often it is    *)
(* returned and submitted again by others (ADR 0004).                       *)
FourEyes ==
  \A c \in Cases : Final(c) => archive[c].approver # cases[c].submitter

(* A case waits for a LEAD only with evidence the engine decided on as it   *)
(* stands: results that arrive during the review revoke it.                 *)
SubmittedEvidenceFresh ==
  \A c \in Cases : Exists(c) /\ cases[c].status = "LEAD_REVIEW" =>
    /\ cases[c].candidate = Candidate(supplier[c], internal[c])
    /\ cases[c].candidate # "ON_HOLD"
    /\ cases[c].submitter # Absent

(* What is in review and what is decided both carry the engine's decision   *)
(* on the evidence that is stored (evaluate_inspection, finalize).          *)
DecisionsFollowEvidence == SubmittedEvidenceFresh /\ DecisionMatchesEvidence

(* The results a LEAD was shown are the results the decision is about: what *)
(* If-Match protects, although a read is not atomic and results have no     *)
(* version of their own.                                                    *)
ApproverSawEvidence ==
  \A c \in Cases : Final(c) => archive[c].seen = archive[c].internal

(* A request that passes If-Match comes from a client that was shown the    *)
(* results it is about to replace or to submit.                             *)
Shown(u, c) == view[u].internal = internal[c]
NoLostUpdate ==
  \A u \in Users, c \in Cases : Exists(c) /\ Matches(u, c) => Shown(u, c)

(* The same of the cases that continue no other: theirs are all the answers *)
(* that are committed before they are given.                                *)
OriginalsLoseNoUpdate ==
  \A u \in Users, c \in Cases :
    Exists(c) /\ cases[c].parent = Absent /\ Matches(u, c) => Shown(u, c)

(* The cases of a lineage form rounds of consecutive corrections: one case  *)
(* per round and revision, each continuing a finalized one (clone_lineage). *)
Continues(c, p) ==
  /\ Final(p)
  /\ cases[p].root = cases[c].root
  /\ \/ cases[p].round = cases[c].round /\ cases[p].revision + 1 = cases[c].revision
     \/ cases[p].round + 1 = cases[c].round /\ cases[c].revision = 1

LineageIsAChain ==
  \A c \in Cases : Exists(c) =>
    /\ \A d \in Cases \ {c} : Exists(d) =>
         <<cases[d].root, cases[d].round, cases[d].revision>>
           # <<cases[c].root, cases[c].round, cases[c].revision>>
    /\ IF cases[c].parent = Absent THEN cases[c].root = c
       ELSE cases[c].parent # c /\ Continues(c, cases[c].parent)

(* Once the version of an open case is retired with no approval of the case *)
(* in flight, the case is never finalized (_effective_spec).                *)
RetiredSpecDecidesNothing ==
  \A c \in Cases :
    [](Open(c) /\ Unlocked(c) /\ spec[cases[c].spec].status = "RETIRED" => []~Final(c))

-----------------------------------------------------------------------------
(* A finalization in flight holds a case in review, has evaluated what is   *)
(* still stored, and holds it alone.                                        *)
ApprovalInFlight ==
  \A l \in Leads : tx[l] # NoTx =>
    LET c == tx[l].case IN
    /\ Exists(c) /\ cases[c].status = "LEAD_REVIEW"
    /\ cases[c].submitter # l
    /\ tx[l].candidate = Candidate(supplier[c], internal[c])
    /\ tx[l].final = tx[l].candidate
    /\ tx[l].seen = internal[c]
    /\ \A k \in Leads \ {l} : tx[k].case # c

(* The answer of a clone may run one evaluation ahead of its row, until the *)
(* row itself is written.                                                   *)
Provisional(u) ==
  LET row == cases[view[u].case] IN
  /\ view[u].version = 2
  /\ row.parent # Absent
  /\ row.status # "LEAD_REVIEW"
  /\ \/ row.version = 2
     \/ /\ row.version = 1
        /\ Evaluated(row, Candidate(supplier[view[u].case], internal[view[u].case])).version = 2

(* What a client was shown is what the row of that version still has, or is *)
(* older than the row, or is provisional.                                   *)
AnswersAge ==
  \A u \in Users : view[u] # NoView =>
    LET c == view[u].case IN
    /\ Exists(c)
    /\ \/ view[u].version < cases[c].version
       \/ /\ view[u].version = cases[c].version
          /\ view[u].complete => view[u].internal = internal[c]
       \/ view[u].complete /\ Provisional(u)

(* The inductive invariant behind the safety properties of a decision.      *)
DecisionInvariant ==
  /\ TypeOK
  /\ \A c \in Cases : Final(c) => cases[c].status = cases[c].final
  /\ SubmittedEvidenceFresh
  /\ DecisionMatchesEvidence
  /\ FourEyes
  /\ ApproverSawEvidence
  /\ ApprovalInFlight
  /\ AnswersAge

(* What the cases promise: evidence that moves until one decision on it.    *)
Promise == INSTANCE QualityDecision WITH
  Evidence <- Evidence \X Evidence,
  evidence <- [c \in Cases |-> <<supplier[c], internal[c]>>],
  None <- Absent,
  decision <- [c \in Cases |-> IF Final(c) THEN cases[c].final ELSE Absent],
  Justified <- LAMBDA e, d : d = Candidate(e[1], e[2])

FinalDecisionStands == Promise!Spec
=============================================================================
