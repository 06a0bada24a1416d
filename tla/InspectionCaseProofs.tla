------------------------ MODULE InspectionCaseProofs ------------------------
(***************************************************************************)
(* Proofs about InspectionCase for every set of cases, actors, items,       *)
(* policies and specification versions, and every bound.                    *)
(***************************************************************************)
EXTENDS InspectionCase, TLAPS

(* The worst of a set of row results is one of the decisions.               *)
LEMMA CombineType == \A S : Combine(S) \in Decisions
BY DEF Combine, Decisions

(* The candidate of any evidence is one of the decisions.                   *)
LEMMA CandidateType == \A e, f : Candidate(e, f) \in Decisions
BY CombineType DEF Candidate

(* Evaluation leaves a well formed row.                                     *)
LEMMA EvaluatedType ==
  ASSUME NEW row \in CaseRow, NEW candidate \in Decisions
  PROVE  /\ Evaluated(row, candidate) \in CaseRow
         /\ Evaluated(row, candidate).version \in {row.version, row.version + 1}
<1> DEFINE status == EvaluatedStatus(row.status, candidate)
           dirty == status # row.status \/ candidate # row.candidate
           version == IF dirty THEN row.version + 1 ELSE row.version
<1>1. status \in Statuses
  BY DEF EvaluatedStatus, Statuses
<1>2. row.version \in Nat /\ version \in Nat /\ version \in {row.version, row.version + 1}
  BY DEF CaseRow
<1>3. Evaluated(row, candidate) =
        [row EXCEPT !.status = status, !.candidate = candidate, !.version = version]
  BY DEF Evaluated
<1> HIDE DEF status, version
<1> QED
  BY <1>1, <1>2, <1>3 DEF CaseRow

(* A case without results has well formed evidence.                         *)
LEMMA NothingType == Nothing \in Evidence
BY DEF Nothing, Evidence

(* The empty tables are well formed.                                        *)
LEMMA TypeInit == Init => TypeOK
BY CaseAssumption, NothingType DEF Init, TypeOK, NoCase, NoArchive, NoView, NoTx

(* What the fields of a well formed row may hold.                           *)
LEMMA RowFields ==
  ASSUME NEW row \in CaseRow
  PROVE  /\ row.version \in Nat /\ row.version + 1 \in Nat
         /\ row.final \in Decisions \cup {Absent} /\ row.candidate \in Decisions
         /\ row.submitter \in Users \cup {Absent} /\ row.spec \in Versions
BY DEF CaseRow

(* The row of a case, after the assignments of a handler.                   *)
LEMMA RowReturned ==
  ASSUME NEW row \in CaseRow, NEW s \in Statuses, NEW n \in Nat
  PROVE  [row EXCEPT !.status = s, !.version = n] \in CaseRow
BY DEF CaseRow

(* The row after a submission is well formed.                               *)
LEMMA RowSubmitted ==
  ASSUME NEW row \in CaseRow, NEW s \in Statuses, NEW n \in Nat, NEW w \in Users
  PROVE  [row EXCEPT !.status = s, !.submitter = w, !.version = n] \in CaseRow
BY DEF CaseRow

(* The row after a finalization is well formed.                             *)
LEMMA RowFinalized ==
  ASSUME NEW row \in CaseRow, NEW s \in Statuses, NEW n \in Nat,
         NEW f \in Decisions, NEW d \in Decisions
  PROVE  [row EXCEPT !.status = s, !.final = f, !.candidate = d, !.version = n] \in CaseRow
BY DEF CaseRow

(* The row of a correction or a retest is well formed.                      *)
LEMMA RowCloned ==
  ASSUME NEW row \in CaseRow, NEW s \in Statuses, NEW d \in Decisions,
         NEW m \in Nat, NEW n \in Nat, NEW p \in Cases
  PROVE  [row EXCEPT !.status = s, !.candidate = d, !.final = Absent, !.submitter = Absent,
                     !.version = 1, !.round = m, !.revision = n, !.parent = p] \in CaseRow
BY DEF CaseRow

(* The answer a handler shows its caller is a well formed view.             *)
LEMMA ShownView ==
  ASSUME TypeOK, NEW u \in Users, NEW c \in Cases, view[u].case = c
  PROVE  view[u] \in View
<1>1. view[u] \in View \cup {NoView}
  BY DEF TypeOK
<1>2. NoView.case \notin Cases
  BY CaseAssumption DEF NoView
<1> QED
  BY <1>1, <1>2

(* Replacing the row of one case by another row.                            *)
LEMMA RowUpdateType ==
  ASSUME TypeOK, NEW c \in Cases, NEW row \in CaseRow,
         cases' = [cases EXCEPT ![c] = row]
  PROVE  cases' \in [Cases -> CaseRow \cup {NoCase}]
BY DEF TypeOK

(* What a correction and a retest have in common: a new row, unfinished,    *)
(* unsubmitted, out of review, whose evidence is the predecessor's or less. *)
LEMMA CloneShape ==
  ASSUME TypeOK, NEW u \in Inspectors, NEW p \in Cases, NEW c \in Cases,
         ReviseInspection(u, p, c) \/ RetestInspection(u, p, c)
  PROVE  \E row \in CaseRow, results \in Evidence :
           /\ Clone(u, p, c, row, results)
           /\ row.status # "LEAD_REVIEW" /\ row.final = Absent /\ row.version = 1
           /\ row.parent = p
<1>1. cases[p] \in CaseRow
  BY DEF ReviseInspection, RetestInspection, Clone, Final, Exists, TypeOK
<1>2. CASE ReviseInspection(u, p, c)
  <2> DEFINE row == [cases[p] EXCEPT !.status = "READY_FOR_REVIEW", !.final = Absent,
                       !.submitter = Absent, !.version = 1, !.revision = cases[p].revision + 1,
                       !.parent = p]
             copy == [cases[p] EXCEPT !.status = "READY_FOR_REVIEW",
                       !.candidate = cases[p].candidate, !.final = Absent,
                       !.submitter = Absent, !.version = 1, !.round = cases[p].round,
                       !.revision = cases[p].revision + 1, !.parent = p]
  <2>1. row \in CaseRow /\ row.status = "READY_FOR_REVIEW" /\ row.final = Absent
        /\ row.version = 1 /\ row.parent = p
    <3>1. /\ "READY_FOR_REVIEW" \in Statuses /\ cases[p].candidate \in Decisions
          /\ cases[p].round \in Nat /\ cases[p].revision + 1 \in Nat
      BY <1>1 DEF CaseRow, Statuses
    <3>2. copy \in CaseRow
      BY <1>1, <3>1, RowCloned
    <3>3. row = copy
      BY <1>1 DEF CaseRow
    <3>4. row.status = "READY_FOR_REVIEW" /\ row.final = Absent /\ row.version = 1 /\ row.parent = p
      BY <1>1 DEF CaseRow
    <3> QED
      BY <3>2, <3>3, <3>4
  <2>2. Clone(u, p, c, row, internal[p])
    BY <1>2 DEF ReviseInspection
  <2>3. internal[p] \in Evidence
    BY DEF TypeOK
  <2> QED
    BY <2>1, <2>2, <2>3
<1>3. CASE RetestInspection(u, p, c)
  <2> DEFINE row == [cases[p] EXCEPT !.status = "INTERNAL_TEST_PENDING", !.candidate = "ON_HOLD",
                       !.final = Absent, !.submitter = Absent, !.version = 1,
                       !.round = cases[p].round + 1, !.revision = 1, !.parent = p]
  <2>1. row \in CaseRow /\ row.status = "INTERNAL_TEST_PENDING" /\ row.final = Absent
        /\ row.version = 1 /\ row.parent = p
    <3>1. /\ "INTERNAL_TEST_PENDING" \in Statuses /\ "ON_HOLD" \in Decisions
          /\ cases[p].round + 1 \in Nat /\ 1 \in Nat
      BY <1>1 DEF CaseRow, Statuses, Decisions
    <3>2. row \in CaseRow
      BY <1>1, <3>1, RowCloned
    <3>3. row.status = "INTERNAL_TEST_PENDING" /\ row.final = Absent /\ row.version = 1 /\ row.parent = p
      BY <1>1 DEF CaseRow
    <3> QED
      BY <3>2, <3>3
  <2>2. Clone(u, p, c, row, Nothing)
    BY <1>3 DEF RetestInspection
  <2> QED
    BY <2>1, <2>2, NothingType
<1> QED
  BY <1>2, <1>3

(* Every operation keeps the rows, answers and transactions well formed.    *)
LEMMA TypeStep == TypeOK /\ ApprovalInFlight /\ [Next]_vars => TypeOK'
<1> SUFFICES ASSUME TypeOK, ApprovalInFlight, [Next]_vars PROVE TypeOK'
  OBVIOUS
<1>0. \A c \in Cases : Exists(c) => cases[c] \in CaseRow
  BY DEF TypeOK, Exists
<1>1. ASSUME NEW c \in Cases, NEW v \in Versions, NEW sup \in Evidence, CreateInspection(c, v, sup)
      PROVE  TypeOK'
  <2> DEFINE row == [status |-> "INTERNAL_TEST_PENDING", candidate |-> "ON_HOLD", final |-> Absent,
                     submitter |-> Absent, version |-> 1, spec |-> v,
                     root |-> c, round |-> 1, revision |-> 1, parent |-> Absent]
  <2>1. row \in CaseRow
    BY DEF CaseRow, Statuses, Decisions
  <2>2. cases' = [cases EXCEPT ![c] = row]
    BY <1>1 DEF CreateInspection
  <2> HIDE DEF row
  <2>3. cases' \in [Cases -> CaseRow \cup {NoCase}]
    BY <2>1, <2>2, RowUpdateType
  <2> QED
    BY <1>1, <2>3 DEF CreateInspection, TypeOK
<1>2. ASSUME NEW u \in Users, NEW c \in Cases, ReadCase(u, c)
      PROVE  TypeOK'
  <2>1. [case |-> c, version |-> cases[c].version, internal |-> Nothing, complete |-> FALSE] \in View
    BY <1>0, <1>2, NothingType DEF ReadCase, CaseRow, View
  <2> QED
    BY <1>2, <2>1 DEF ReadCase, TypeOK
<1>3. ASSUME NEW u \in Users, ReadResults(u)
      PROVE  TypeOK'
  <2>1. view[u] \in View
    BY <1>3 DEF ReadResults, TypeOK
  <2>2. internal[view[u].case] \in Evidence
    BY <2>1 DEF TypeOK, View
  <2>3. [view[u] EXCEPT !.internal = internal[view[u].case], !.complete = TRUE] \in View
    BY <2>1, <2>2 DEF View
  <2>4. view' = [view EXCEPT ![u] =
                   [view[u] EXCEPT !.internal = internal[view[u].case], !.complete = TRUE]]
    BY <1>3 DEF ReadResults, TypeOK
  <2> QED
    BY <1>3, <2>3, <2>4 DEF ReadResults, TypeOK
<1>4. ASSUME NEW u \in Inspectors, NEW c \in Cases, NEW results \in Evidence,
             PutInternalResults(u, c, results)
      PROVE  TypeOK'
  <2> DEFINE row == Evaluated(cases[c], Candidate(supplier[c], results))
  <2>1. row \in CaseRow
    BY <1>0, <1>4, EvaluatedType, CandidateType DEF PutInternalResults, Open
  <2> HIDE DEF row
  <2>2. Touched(row) \in CaseRow
    BY <2>1 DEF Touched, CaseRow
  <2>3. cases' = [cases EXCEPT ![c] = Touched(row)]
    BY <1>4 DEF PutInternalResults, row
  <2>4. cases' \in [Cases -> CaseRow \cup {NoCase}]
    BY <2>2, <2>3, RowUpdateType
  <2>5. view' \in [Users -> View \cup {NoView}]
    BY <1>4 DEF PutInternalResults, TypeOK
  <2> QED
    BY <1>4, <2>4, <2>5 DEF PutInternalResults, TypeOK
<1>5. ASSUME NEW u \in Inspectors, NEW c \in Cases, SubmitInspection(u, c)
      PROVE  TypeOK'
  <2> DEFINE row == Evaluated(cases[c], Candidate(supplier[c], internal[c]))
             submitted == [row EXCEPT !.status = "LEAD_REVIEW", !.submitter = u,
                                      !.version = row.version + 1]
  <2>1. row \in CaseRow
    BY <1>0, <1>5, EvaluatedType, CandidateType DEF SubmitInspection, Open
  <2>2. cases' = [cases EXCEPT ![c] = submitted]
    BY <1>5 DEF SubmitInspection
  <2> HIDE DEF row
  <2>3. submitted \in CaseRow
    <3>1. "LEAD_REVIEW" \in Statuses /\ u \in Users /\ row.version + 1 \in Nat
      BY <2>1, RowFields DEF Statuses, Users
    <3> QED
      BY <2>1, <3>1, RowSubmitted
  <2> HIDE DEF submitted
  <2>4. cases' \in [Cases -> CaseRow \cup {NoCase}]
    BY <2>2, <2>3, RowUpdateType
  <2> QED
    BY <1>5, <2>4 DEF SubmitInspection, TypeOK
<1>6. ASSUME NEW l \in Leads, NEW c \in Cases, ReturnInspection(l, c)
      PROVE  TypeOK'
  <2> DEFINE row == [cases[c] EXCEPT !.status = "RETURNED", !.version = cases[c].version + 1]
  <2>1. row \in CaseRow
    <3>1. cases[c] \in CaseRow
      BY <1>0, <1>6 DEF ReturnInspection
    <3>2. "RETURNED" \in Statuses /\ cases[c].version + 1 \in Nat
      BY <3>1, RowFields DEF Statuses
    <3> QED
      BY <3>1, <3>2, RowReturned
  <2>2. cases' = [cases EXCEPT ![c] = row]
    BY <1>6 DEF ReturnInspection, TypeOK
  <2> HIDE DEF row
  <2>3. cases' \in [Cases -> CaseRow \cup {NoCase}]
    BY <2>1, <2>2, RowUpdateType
  <2> QED
    BY <1>6, <2>3 DEF ReturnInspection, TypeOK
<1>7. ASSUME NEW l \in Leads, NEW c \in Cases, NEW reason \in BOOLEAN,
             BeginApproval(l, c, reason)
      PROVE  TypeOK'
  <2> DEFINE t == [case |-> c, final |-> cases[c].candidate,
                   candidate |-> Candidate(supplier[c], internal[c]),
                   seen |-> view[l].internal, checked |-> FALSE]
  <2>1. view[l] \in View
    BY <1>7, ShownView DEF BeginApproval, Matches, Users
  <2>2. t \in Tx
    BY <1>0, <1>7, <2>1, CandidateType DEF BeginApproval, Open, CaseRow, View, Tx
  <2>3. tx' = [tx EXCEPT ![l] = t]
    BY <1>7 DEF BeginApproval
  <2> HIDE DEF t
  <2> QED
    BY <1>7, <2>2, <2>3 DEF BeginApproval, TypeOK
<1>8. ASSUME NEW l \in Leads, CheckApproval(l)
      PROVE  TypeOK'
  <2>1. [tx[l] EXCEPT !.checked = TRUE] \in Tx
    BY <1>8 DEF CheckApproval, TypeOK, Tx
  <2>2. tx' = [tx EXCEPT ![l] = [tx[l] EXCEPT !.checked = TRUE]]
    BY <1>8 DEF CheckApproval, TypeOK
  <2> QED
    BY <1>8, <2>1, <2>2 DEF CheckApproval, TypeOK
<1>9. ASSUME NEW l \in Leads, CommitApproval(l)
      PROVE  TypeOK'
  <2> DEFINE c == tx[l].case
             row == [cases[c] EXCEPT !.status = tx[l].final, !.final = tx[l].final,
                       !.candidate = tx[l].candidate, !.version = cases[c].version + 1]
             written == [final |-> tx[l].final, candidate |-> tx[l].candidate, approver |-> l,
                         spec |-> cases[c].spec, supplier |-> supplier[c],
                         internal |-> internal[c], seen |-> tx[l].seen]
  <2>1. tx[l] \in Tx
    BY <1>9 DEF CommitApproval, TypeOK
  <2>2. c \in Cases /\ tx[l].final \in Decisions /\ tx[l].candidate \in Decisions
        /\ tx[l].seen \in Evidence
    BY <2>1 DEF Tx
  <2>3. cases[c] \in CaseRow
    BY <1>0, <1>9, <2>2 DEF CommitApproval, ApprovalInFlight
  <2>4. row \in CaseRow
    <3>1. tx[l].final \in Statuses /\ cases[c].version + 1 \in Nat
      BY <2>2, <2>3, RowFields DEF Statuses
    <3> HIDE DEF c
    <3> QED
      BY <2>2, <2>3, <3>1, RowFinalized
  <2>5. cases' = [cases EXCEPT ![c] = row]
    BY <1>9, <2>2 DEF CommitApproval, TypeOK
  <2>6. written \in Archive
    BY <2>2, <2>3 DEF CaseRow, Archive, TypeOK
  <2>7. archive' = [archive EXCEPT ![c] = written]
    BY <1>9 DEF CommitApproval
  <2> HIDE DEF row, written
  <2>8. cases' \in [Cases -> CaseRow \cup {NoCase}]
    BY <2>2, <2>4, <2>5, RowUpdateType
  <2>9. archive' \in [Cases -> Archive \cup {NoArchive}]
    BY <2>6, <2>7 DEF TypeOK
  <2>10. tx' \in [Leads -> Tx \cup {NoTx}]
    BY <1>9 DEF CommitApproval, TypeOK
  <2> QED
    BY <1>9, <2>8, <2>9, <2>10 DEF CommitApproval, TypeOK
<1>10. ASSUME NEW l \in Leads, AbortApproval(l)
       PROVE  TypeOK'
  BY <1>10 DEF AbortApproval, TypeOK
<1>11. ASSUME NEW u \in Inspectors, NEW p \in Cases, NEW c \in Cases,
              ReviseInspection(u, p, c) \/ RetestInspection(u, p, c)
       PROVE  TypeOK'
  <2>1. PICK row \in CaseRow, results \in Evidence : Clone(u, p, c, row, results)
    BY <1>11, CloneShape
  <2>2. cases' \in [Cases -> CaseRow \cup {NoCase}]
    BY <2>1, RowUpdateType DEF Clone
  <2>3. Evaluated(row, Candidate(supplier[p], results)).version \in Nat
    BY EvaluatedType, CandidateType, RowFields
  <2>4. view' \in [Users -> View \cup {NoView}]
    <3>1. PICK w \in View \cup {NoView} : view' = [view EXCEPT ![u] = w]
      BY <2>1, <2>3 DEF Clone, View
    <3> QED
      BY <3>1 DEF TypeOK
  <2>5. supplier' \in [Cases -> Evidence] /\ internal' \in [Cases -> Evidence]
    BY <2>1 DEF Clone, TypeOK
  <2> QED
    BY <2>1, <2>2, <2>4, <2>5 DEF Clone, TypeOK
<1>12. ASSUME NEW v \in Versions, ActivateVersion(v) \/ RetireVersion(v) \/ RescheduleVersion(v)
       PROVE  TypeOK'
  <2>1. spec[v] \in [status : {"DRAFT", "ACTIVE", "RETIRED"}, covers : BOOLEAN]
    BY DEF TypeOK
  <2>2. \E w \in [status : {"DRAFT", "ACTIVE", "RETIRED"}, covers : BOOLEAN] :
          spec' = [spec EXCEPT ![v] = w]
    <3>1. CASE ActivateVersion(v)
      <4>1. spec' = [spec EXCEPT ![v] = [spec[v] EXCEPT !.status = "ACTIVE"]]
        BY <3>1 DEF ActivateVersion, TypeOK
      <4> QED
        BY <2>1, <4>1
    <3>2. CASE RetireVersion(v)
      <4>1. spec' = [spec EXCEPT ![v] = [spec[v] EXCEPT !.status = "RETIRED"]]
        BY <3>2 DEF RetireVersion, TypeOK
      <4> QED
        BY <2>1, <4>1
    <3>3. CASE RescheduleVersion(v)
      <4>1. spec' = [spec EXCEPT ![v] = [spec[v] EXCEPT !.covers = ~spec[v].covers]]
        BY <3>3 DEF RescheduleVersion, TypeOK
      <4> QED
        BY <2>1, <4>1
    <3> QED
      BY <1>12, <3>1, <3>2, <3>3
  <2>3. spec' \in [Versions -> [status : {"DRAFT", "ACTIVE", "RETIRED"}, covers : BOOLEAN]]
    BY <2>2 DEF TypeOK
  <2>4. UNCHANGED <<cases, supplier, internal, archive, lot, view, tx>>
    BY <1>12 DEF ActivateVersion, RetireVersion, RescheduleVersion
  <2> QED
    BY <2>3, <2>4 DEF TypeOK
<1>13. CASE LotConflict
  BY <1>13 DEF LotConflict, TypeOK
<1>14. CASE UNCHANGED vars
  BY <1>14 DEF vars, TypeOK
<1> QED
  BY <1>1, <1>2, <1>3, <1>4, <1>5, <1>6, <1>7, <1>8, <1>9, <1>10, <1>11, <1>12, <1>13, <1>14
  DEF Next

-----------------------------------------------------------------------------
(* The inductive invariant, one case, one lead, one client at a time.       *)
CaseSafe(c) ==
  Exists(c) =>
    /\ cases[c].status = "LEAD_REVIEW" =>
         /\ cases[c].candidate = Candidate(supplier[c], internal[c])
         /\ cases[c].candidate # "ON_HOLD"
         /\ cases[c].submitter # Absent
    /\ cases[c].final # Absent =>
         /\ cases[c].status = cases[c].final
         /\ archive[c] # NoArchive
         /\ archive[c].final = cases[c].final
         /\ archive[c].supplier = supplier[c] /\ archive[c].internal = internal[c]
         /\ archive[c].candidate = Candidate(supplier[c], internal[c])
         /\ cases[c].final = "ACCEPTED" => archive[c].candidate = "ACCEPTED"
         /\ archive[c].approver # cases[c].submitter
         /\ archive[c].seen = archive[c].internal

TxSafe(l) ==
  tx[l] # NoTx =>
    /\ tx[l].case \in Cases
    /\ Exists(tx[l].case) /\ cases[tx[l].case].status = "LEAD_REVIEW"
    /\ cases[tx[l].case].submitter # l
    /\ tx[l].candidate = Candidate(supplier[tx[l].case], internal[tx[l].case])
    /\ tx[l].final = tx[l].candidate
    /\ tx[l].seen = internal[tx[l].case]
    /\ \A k \in Leads \ {l} : tx[k].case # tx[l].case

Ahead(row, version, e, f) ==
  /\ version = 2
  /\ row.parent # Absent
  /\ row.status # "LEAD_REVIEW"
  /\ \/ row.version = 2
     \/ row.version = 1 /\ Evaluated(row, Candidate(e, f)).version = 2

ViewSafe(u) ==
  view[u] # NoView =>
    /\ view[u].case \in Cases
    /\ Exists(view[u].case)
    /\ \/ view[u].version < cases[view[u].case].version
       \/ /\ view[u].version = cases[view[u].case].version
          /\ view[u].complete => view[u].internal = internal[view[u].case]
       \/ /\ view[u].complete
          /\ Ahead(cases[view[u].case], view[u].version,
                   supplier[view[u].case], internal[view[u].case])

Safe ==
  /\ TypeOK
  /\ \A c \in Cases : CaseSafe(c)
  /\ \A l \in Leads : TxSafe(l)
  /\ \A u \in Users : ViewSafe(u)

(* A case under review has no final decision yet.                           *)
LEMMA ReviewIsOpen ==
  ASSUME TypeOK, NEW c \in Cases, Exists(c), CaseSafe(c), cases[c].status = "LEAD_REVIEW"
  PROVE  cases[c].final = Absent
<1>1. cases[c] \in CaseRow
  BY DEF TypeOK, Exists
<1> QED
  BY <1>1 DEF CaseSafe, CaseRow, Decisions

(* The invariant, per case, transaction and user, is the decision invariant.*)
LEMMA SafeIsDecisionInvariant == Safe <=> DecisionInvariant
<1>1. ASSUME TypeOK
      PROVE  (\A c \in Cases : CaseSafe(c)) <=>
               /\ \A c \in Cases : Final(c) => cases[c].status = cases[c].final
               /\ SubmittedEvidenceFresh /\ DecisionMatchesEvidence
               /\ FourEyes /\ ApproverSawEvidence
  BY DEF CaseSafe, Final, SubmittedEvidenceFresh, DecisionMatchesEvidence, FourEyes,
         ApproverSawEvidence
<1>2. ASSUME TypeOK
      PROVE  (\A l \in Leads : TxSafe(l)) <=> ApprovalInFlight
  <2>1. \A l \in Leads : tx[l] # NoTx => tx[l].case \in Cases
    BY <1>2 DEF TypeOK, Tx
  <2> QED
    BY <2>1 DEF TxSafe, ApprovalInFlight
<1>3. ASSUME TypeOK
      PROVE  (\A u \in Users : ViewSafe(u)) <=> AnswersAge
  <2>1. \A u \in Users : view[u] # NoView => view[u].case \in Cases
    BY <1>3 DEF TypeOK, View
  <2>2. \A u \in Users :
          Provisional(u) <=> Ahead(cases[view[u].case], view[u].version,
                                   supplier[view[u].case], internal[view[u].case])
    BY DEF Provisional, Ahead
  <2> HIDE DEF Ahead
  <2> QED
    BY <2>1, <2>2 DEF ViewSafe, AnswersAge
<1> QED
  BY <1>1, <1>2, <1>3 DEF Safe, DecisionInvariant

(* Nothing is decided, in flight or shown at the start.                     *)
LEMMA SafeInit == Init => Safe
BY TypeInit, CaseAssumption
DEF Init, Safe, CaseSafe, TxSafe, ViewSafe, Exists

(* What a step leaves alone stays safe.                                     *)
LEMMA CaseFrame ==
  ASSUME NEW c \in Cases, CaseSafe(c),
         cases'[c] = cases[c], supplier'[c] = supplier[c], internal'[c] = internal[c],
         archive'[c] = archive[c]
  PROVE  CaseSafe(c)'
BY DEF CaseSafe, Exists

(* A transaction stays safe while its case and the transaction stay.        *)
LEMMA TxFrame ==
  ASSUME NEW l \in Leads, TxSafe(l), tx' = tx,
         \A c \in Cases : tx[l].case = c /\ Exists(c) =>
           cases'[c] = cases[c] /\ supplier'[c] = supplier[c] /\ internal'[c] = internal[c]
  PROVE  TxSafe(l)'
BY DEF TxSafe, Exists

(* An answer stays safe while its case and the answer stay.                 *)
LEMMA ViewFrame ==
  ASSUME NEW u \in Users, ViewSafe(u), view'[u] = view[u],
         \A c \in Cases : view[u].case = c /\ Exists(c) =>
           cases'[c] = cases[c] /\ supplier'[c] = supplier[c] /\ internal'[c] = internal[c]
  PROVE  ViewSafe(u)'
BY DEF ViewSafe, Exists, Ahead

-----------------------------------------------------------------------------
(* Every write of an existing row gives it a higher version.                *)
LEMMA EvaluatedRow ==
  ASSUME NEW row \in CaseRow, NEW candidate \in Decisions
  PROVE  /\ Evaluated(row, candidate).final = row.final
         /\ Evaluated(row, candidate).submitter = row.submitter
         /\ Evaluated(row, candidate).parent = row.parent
         /\ Evaluated(row, candidate).candidate = candidate
         /\ Evaluated(row, candidate).status \in {"RETURNED", "INTERNAL_TEST_PENDING", "READY_FOR_REVIEW"}
         /\ Evaluated(row, candidate).version = row.version
              => Evaluated(row, candidate).status = row.status
<1> DEFINE status == EvaluatedStatus(row.status, candidate)
           dirty == status # row.status \/ candidate # row.candidate
           version == IF dirty THEN row.version + 1 ELSE row.version
<1>1. status \in {"RETURNED", "INTERNAL_TEST_PENDING", "READY_FOR_REVIEW"}
  BY DEF EvaluatedStatus
<1>2. version = row.version => status = row.status
  BY DEF CaseRow
<1>3. Evaluated(row, candidate) =
        [row EXCEPT !.status = status, !.candidate = candidate, !.version = version]
  BY DEF Evaluated
<1> HIDE DEF status, version
<1> QED
  BY <1>1, <1>2, <1>3 DEF CaseRow

(* Every operation keeps every case safe.                                   *)
LEMMA CaseStep ==
  ASSUME Safe, [Next]_vars, TypeOK', NEW c \in Cases
  PROVE  CaseSafe(c)'
<1>0. CaseSafe(c) /\ (Exists(c) => cases[c] \in CaseRow)
  BY DEF Safe, TypeOK, Exists
<1>1. ASSUME NEW e \in Cases, NEW v \in Versions, NEW sup \in Evidence, CreateInspection(e, v, sup)
      PROVE  CaseSafe(c)'
  <2>1. CASE e = c
    BY <1>1, <2>1 DEF CreateInspection, CaseSafe, Safe, TypeOK
  <2>2. CASE e # c
    BY <1>0, <1>1, <2>2, CaseFrame DEF CreateInspection, Safe, TypeOK
  <2> QED
    BY <2>1, <2>2
<1>2. ASSUME NEW u \in Users, NEW e \in Cases, ReadCase(u, e)
      PROVE  CaseSafe(c)'
  BY <1>0, <1>2, CaseFrame DEF ReadCase
<1>3. ASSUME NEW u \in Users, ReadResults(u)
      PROVE  CaseSafe(c)'
  BY <1>0, <1>3, CaseFrame DEF ReadResults
<1>4. ASSUME NEW u \in Inspectors, NEW e \in Cases, NEW results \in Evidence,
             PutInternalResults(u, e, results)
      PROVE  CaseSafe(c)'
  <2>1. CASE e = c
    <3> DEFINE row == Evaluated(cases[c], Candidate(supplier[c], results))
    <3>1. cases[c] \in CaseRow /\ cases[c].final = Absent
      BY <1>0, <1>4, <2>1 DEF PutInternalResults, Open
    <3>2. row \in CaseRow /\ row.final = Absent /\ row.status # "LEAD_REVIEW"
      BY <3>1, EvaluatedType, EvaluatedRow, CandidateType
    <3> HIDE DEF row
    <3>3. Touched(row).final = Absent /\ Touched(row).status # "LEAD_REVIEW"
      BY <3>2 DEF Touched, CaseRow
    <3>4. cases'[c] = Touched(row)
      BY <1>4, <2>1 DEF PutInternalResults, row, Safe, TypeOK
    <3> QED
      BY <3>3, <3>4 DEF CaseSafe
  <2>2. CASE e # c
    BY <1>0, <1>4, <2>2, CaseFrame DEF PutInternalResults, Safe, TypeOK
  <2> QED
    BY <2>1, <2>2
<1>5. ASSUME NEW u \in Inspectors, NEW e \in Cases, SubmitInspection(u, e)
      PROVE  CaseSafe(c)'
  <2>1. CASE e = c
    <3> DEFINE candidate == Candidate(supplier[c], internal[c])
               row == Evaluated(cases[c], candidate)
    <3>1. cases[c] \in CaseRow /\ cases[c].final = Absent
      BY <1>0, <1>5, <2>1 DEF SubmitInspection, Open
    <3>2. row \in CaseRow /\ row.final = Absent /\ row.candidate = candidate
      BY <3>1, EvaluatedType, EvaluatedRow, CandidateType
    <3>3. cases'[c] = [row EXCEPT !.status = "LEAD_REVIEW", !.submitter = u,
                                  !.version = row.version + 1]
      BY <1>5, <2>1 DEF SubmitInspection, Safe, TypeOK
    <3>4. candidate # "ON_HOLD"
      BY <1>5, <2>1 DEF SubmitInspection
    <3>5. supplier' = supplier /\ internal' = internal
      BY <1>5 DEF SubmitInspection
    <3>6. u # Absent
      BY CaseAssumption DEF Users
    <3> HIDE DEF row
    <3>7. /\ cases'[c].final = Absent /\ cases'[c].candidate = candidate
          /\ cases'[c].submitter = u
      BY <3>2, <3>3 DEF CaseRow
    <3> QED
      BY <3>4, <3>5, <3>6, <3>7 DEF CaseSafe
  <2>2. CASE e # c
    BY <1>0, <1>5, <2>2, CaseFrame DEF SubmitInspection, Safe, TypeOK
  <2> QED
    BY <2>1, <2>2
<1>6. ASSUME NEW l \in Leads, NEW e \in Cases, ReturnInspection(l, e)
      PROVE  CaseSafe(c)'
  <2>1. CASE e = c
    <3>1. cases[c].final = Absent
      BY <1>0, <1>6, <2>1, ReviewIsOpen DEF ReturnInspection, Safe
    <3>2. cases'[c] = [cases[c] EXCEPT !.status = "RETURNED", !.version = cases[c].version + 1]
      BY <1>6, <2>1 DEF ReturnInspection, Safe, TypeOK
    <3>3. cases[c] \in CaseRow
      BY <1>0, <1>6, <2>1 DEF ReturnInspection
    <3>4. cases'[c].final = Absent /\ cases'[c].status = "RETURNED"
      BY <3>1, <3>2, <3>3 DEF CaseRow
    <3> QED
      BY <3>4 DEF CaseSafe
  <2>2. CASE e # c
    BY <1>0, <1>6, <2>2, CaseFrame DEF ReturnInspection, Safe, TypeOK
  <2> QED
    BY <2>1, <2>2
<1>7. ASSUME NEW l \in Leads, NEW e \in Cases, NEW reason \in BOOLEAN, BeginApproval(l, e, reason)
      PROVE  CaseSafe(c)'
  BY <1>0, <1>7, CaseFrame DEF BeginApproval
<1>8. ASSUME NEW l \in Leads, CheckApproval(l)
      PROVE  CaseSafe(c)'
  BY <1>0, <1>8, CaseFrame DEF CheckApproval
<1>9. ASSUME NEW l \in Leads, CommitApproval(l)
      PROVE  CaseSafe(c)'
  <2>0. tx[l] \in Tx /\ TxSafe(l) /\ tx[l] # NoTx
    BY <1>9 DEF CommitApproval, Safe, TypeOK
  <2>1. CASE tx[l].case = c
    <3>1. cases[c] \in CaseRow
      BY <1>0, <2>0, <2>1 DEF TxSafe
    <3>2. cases'[c] = [cases[c] EXCEPT !.status = tx[l].final, !.final = tx[l].final,
                         !.candidate = tx[l].candidate, !.version = cases[c].version + 1]
      BY <1>9, <2>1 DEF CommitApproval, Safe, TypeOK
    <3>3. /\ cases'[c].status = tx[l].final /\ cases'[c].final = tx[l].final
          /\ cases'[c].submitter = cases[c].submitter
      BY <3>1, <3>2 DEF CaseRow
    <3>4. archive'[c] = [final |-> tx[l].final, candidate |-> tx[l].candidate, approver |-> l,
            spec |-> cases[c].spec, supplier |-> supplier[c], internal |-> internal[c],
            seen |-> tx[l].seen]
      BY <1>9, <2>1 DEF CommitApproval, Safe, TypeOK
    <3>5. archive'[c] # NoArchive
      BY <2>0, <3>4 DEF NoArchive, Tx, Decisions
    <3>6. supplier' = supplier /\ internal' = internal
      BY <1>9 DEF CommitApproval
    <3>7. tx[l].final \in Decisions
      BY <2>0 DEF Tx
    <3> QED
      BY <2>0, <2>1, <3>3, <3>4, <3>5, <3>6, <3>7 DEF CaseSafe, TxSafe, Decisions
  <2>2. CASE tx[l].case # c
    BY <1>0, <1>9, <2>2, CaseFrame DEF CommitApproval, Safe, TypeOK
  <2> QED
    BY <2>1, <2>2
<1>10. ASSUME NEW l \in Leads, AbortApproval(l)
       PROVE  CaseSafe(c)'
  BY <1>0, <1>10, CaseFrame DEF AbortApproval
<1>11. ASSUME NEW u \in Inspectors, NEW p \in Cases, NEW e \in Cases,
              ReviseInspection(u, p, e) \/ RetestInspection(u, p, e)
       PROVE  CaseSafe(c)'
  <2>1. PICK row \in CaseRow, results \in Evidence :
          /\ Clone(u, p, e, row, results)
          /\ row.status # "LEAD_REVIEW" /\ row.final = Absent /\ row.version = 1
    BY <1>11, CloneShape DEF Safe
  <2>2. CASE e = c
    BY <2>1, <2>2 DEF Clone, CaseSafe, Safe, TypeOK
  <2>3. CASE e # c
    BY <1>0, <2>1, <2>3, CaseFrame DEF Clone, Safe, TypeOK
  <2> QED
    BY <2>2, <2>3
<1>12. ASSUME NEW v \in Versions, ActivateVersion(v) \/ RetireVersion(v) \/ RescheduleVersion(v)
       PROVE  CaseSafe(c)'
  BY <1>0, <1>12, CaseFrame DEF ActivateVersion, RetireVersion, RescheduleVersion
<1>13. CASE LotConflict
  BY <1>0, <1>13, CaseFrame DEF LotConflict
<1>14. CASE UNCHANGED vars
  BY <1>0, <1>14, CaseFrame DEF vars
<1> QED
  BY <1>1, <1>2, <1>3, <1>4, <1>5, <1>6, <1>7, <1>8, <1>9, <1>10, <1>11, <1>12, <1>13, <1>14
  DEF Next

-----------------------------------------------------------------------------
(* Every operation keeps every approval in flight safe: the row it locked is*)
(* the row it will write.                                                   *)
LEMMA TxStep ==
  ASSUME Safe, [Next]_vars, NEW l \in Leads
  PROVE  TxSafe(l)'
<1>0. TxSafe(l)
  BY DEF Safe
<1>1. ASSUME NEW e \in Cases, NEW v \in Versions, NEW sup \in Evidence, CreateInspection(e, v, sup)
      PROVE  TxSafe(l)'
  BY <1>0, <1>1, TxFrame DEF CreateInspection, Safe, TypeOK
<1>2. ASSUME NEW u \in Users, NEW e \in Cases, ReadCase(u, e)
      PROVE  TxSafe(l)'
  BY <1>0, <1>2, TxFrame DEF ReadCase
<1>3. ASSUME NEW u \in Users, ReadResults(u)
      PROVE  TxSafe(l)'
  BY <1>0, <1>3, TxFrame DEF ReadResults
<1>4. ASSUME NEW u \in Inspectors, NEW e \in Cases, NEW results \in Evidence,
             PutInternalResults(u, e, results)
      PROVE  TxSafe(l)'
  BY <1>0, <1>4, TxFrame DEF PutInternalResults, Unlocked, Safe, TypeOK
<1>5. ASSUME NEW u \in Inspectors, NEW e \in Cases, SubmitInspection(u, e)
      PROVE  TxSafe(l)'
  BY <1>0, <1>5, TxFrame DEF SubmitInspection, Unlocked, Safe, TypeOK
<1>6. ASSUME NEW k \in Leads, NEW e \in Cases, ReturnInspection(k, e)
      PROVE  TxSafe(l)'
  BY <1>0, <1>6, TxFrame DEF ReturnInspection, Unlocked, Safe, TypeOK
<1>7. ASSUME NEW k \in Leads, NEW e \in Cases, NEW reason \in BOOLEAN, BeginApproval(k, e, reason)
      PROVE  TxSafe(l)'
  <2> DEFINE t == [case |-> e, final |-> cases[e].candidate,
                   candidate |-> Candidate(supplier[e], internal[e]),
                   seen |-> view[k].internal, checked |-> FALSE]
  <2>1. tx' = [tx EXCEPT ![k] = t]
    BY <1>7 DEF BeginApproval
  <2>2. \A m \in Leads : tx[m].case # e
    BY <1>7 DEF BeginApproval, Unlocked
  <2>3. CASE k = l
    <3>1. k \in Users /\ view[k] \in View
      BY <1>7, ShownView DEF BeginApproval, Matches, Users, Safe
    <3>2. view[k] # NoView
      BY <1>7, CaseAssumption DEF BeginApproval, Matches, NoView
    <3>3. cases[e] \in CaseRow
      BY <1>7 DEF BeginApproval, Open, Exists, Safe, TypeOK
    <3>4. /\ view[k].case = e /\ view[k].version = cases[e].version /\ view[k].complete
          /\ cases[e].status = "LEAD_REVIEW"
      BY <1>7 DEF BeginApproval, Matches
    <3>5. view[k].internal = internal[e]
      BY <3>1, <3>2, <3>3, <3>4 DEF Safe, ViewSafe, Ahead, CaseRow
    <3>6. tx'[l] = t
      BY <2>1, <2>3 DEF Safe, TypeOK
    <3>7. \A m \in Leads \ {l} : tx'[m].case # e
      BY <2>1, <2>2, <2>3 DEF Safe, TypeOK
    <3>8. UNCHANGED <<cases, supplier, internal>>
      BY <1>7 DEF BeginApproval
    <3>9. Exists(e) /\ cases[e].submitter # l
      BY <1>7, <2>3 DEF BeginApproval, Open
    <3>10. t.final = t.candidate
      BY <3>4, <3>9 DEF CaseSafe, Safe
    <3> QED
      BY <3>4, <3>5, <3>6, <3>7, <3>8, <3>9, <3>10 DEF TxSafe, Exists
  <2>4. CASE k # l
    <3>1. tx'[l] = tx[l] /\ \A m \in Leads \ {k} : tx'[m] = tx[m]
      BY <2>1, <2>4 DEF Safe, TypeOK
    <3>2. tx'[k].case = e
      BY <2>1 DEF Safe, TypeOK
    <3>3. UNCHANGED <<cases, supplier, internal>>
      BY <1>7 DEF BeginApproval
    <3> QED
      BY <1>0, <2>2, <3>1, <3>2, <3>3 DEF TxSafe, Exists
  <2> QED
    BY <2>3, <2>4
<1>8. ASSUME NEW k \in Leads, CheckApproval(k)
      PROVE  TxSafe(l)'
  <2>1. tx[k] \in Tx
    BY <1>8 DEF CheckApproval, Safe, TypeOK
  <2>2. tx' = [tx EXCEPT ![k] = [tx[k] EXCEPT !.checked = TRUE]]
    BY <1>8 DEF CheckApproval, Safe, TypeOK
  <2>3. \A m \in Leads : tx'[m].case = tx[m].case
    BY <2>1, <2>2 DEF Safe, TypeOK, Tx
  <2>4. /\ tx'[l].candidate = tx[l].candidate /\ tx'[l].final = tx[l].final
        /\ tx'[l].seen = tx[l].seen
    BY <2>1, <2>2 DEF Safe, TypeOK, Tx
  <2>5. tx'[l] # NoTx => tx[l] # NoTx
    BY <1>8, <2>2 DEF CheckApproval, Safe, TypeOK
  <2>6. UNCHANGED <<cases, supplier, internal>>
    BY <1>8 DEF CheckApproval
  <2> QED
    BY <1>0, <2>3, <2>4, <2>5, <2>6 DEF TxSafe, Exists
<1>9. ASSUME NEW k \in Leads, CommitApproval(k) \/ AbortApproval(k)
      PROVE  TxSafe(l)'
  <2>1. tx' = [tx EXCEPT ![k] = NoTx] /\ tx[k] # NoTx
    BY <1>9 DEF CommitApproval, AbortApproval
  <2>2. UNCHANGED <<supplier, internal>>
    BY <1>9 DEF CommitApproval, AbortApproval
  <2>3. CASE k = l
    BY <2>1, <2>3 DEF TxSafe, Safe, TypeOK
  <2>4. CASE k # l
    <3>1. tx'[l] = tx[l] /\ tx'[k] = NoTx /\ \A m \in Leads \ {k} : tx'[m] = tx[m]
      BY <2>1, <2>4 DEF Safe, TypeOK
    <3>2. tx[l] # NoTx => cases'[tx[l].case] = cases[tx[l].case]
      <4>1. tx[l] # NoTx => tx[l].case \in Cases /\ tx[l].case # tx[k].case
        BY <1>0, <2>4 DEF TxSafe
      <4> QED
        BY <1>9, <4>1 DEF CommitApproval, AbortApproval, Safe, TypeOK
    <3>3. NoTx.case \notin Cases
      BY CaseAssumption DEF NoTx
    <3> QED
      BY <1>0, <2>2, <3>1, <3>2, <3>3 DEF TxSafe, Exists
  <2> QED
    BY <2>3, <2>4
<1>10. ASSUME NEW u \in Inspectors, NEW p \in Cases, NEW e \in Cases,
              ReviseInspection(u, p, e) \/ RetestInspection(u, p, e)
       PROVE  TxSafe(l)'
  <2>1. PICK row \in CaseRow, results \in Evidence : Clone(u, p, e, row, results)
    BY <1>10, CloneShape DEF Safe
  <2> QED
    BY <1>0, <2>1, TxFrame DEF Clone, Safe, TypeOK
<1>11. ASSUME NEW v \in Versions, ActivateVersion(v) \/ RetireVersion(v) \/ RescheduleVersion(v)
       PROVE  TxSafe(l)'
  BY <1>0, <1>11, TxFrame DEF ActivateVersion, RetireVersion, RescheduleVersion
<1>12. CASE LotConflict
  BY <1>0, <1>12, TxFrame DEF LotConflict
<1>13. CASE UNCHANGED vars
  BY <1>0, <1>13, TxFrame DEF vars
<1> QED
  BY <1>1, <1>2, <1>3, <1>4, <1>5, <1>6, <1>7, <1>8, <1>9, <1>10, <1>11, <1>12, <1>13
  DEF Next

-----------------------------------------------------------------------------
(* An answer survives a write that raises the version of its case by one or *)
(* more, unless it is ahead of the row.                                     *)
LEMMA ViewOutdated ==
  ASSUME Safe, TypeOK', NEW u \in Users, NEW c \in Cases, view'[u] = view[u],
         view[u].case = c, Exists(c),
         cases'[c] \in CaseRow, cases'[c].version > cases[c].version,
         cases'[c].parent = cases[c].parent,
         Ahead(cases[c], view[u].version, supplier[c], internal[c]) =>
           \/ cases'[c].version > 2
           \/ cases'[c].version = 2 /\ cases'[c].status # "LEAD_REVIEW"
  PROVE  ViewSafe(u)'
<1>1. view[u] \in View /\ view[u] # NoView
  BY ShownView, CaseAssumption DEF Safe, NoView
<1>2. cases[c] \in CaseRow
  BY DEF Safe, TypeOK, Exists
<1>3. cases[c].version \in Nat /\ cases'[c].version \in Nat /\ view[u].version \in Nat
  BY <1>1, <1>2 DEF CaseRow, View
<1>4. Exists(c)'
  BY DEF Exists, CaseRow, NoCase, Statuses, Decisions
<1>5. CASE view[u].version <= cases[c].version
  BY <1>3, <1>4, <1>5 DEF ViewSafe
<1>6. CASE ~(view[u].version <= cases[c].version)
  <2>1. Ahead(cases[c], view[u].version, supplier[c], internal[c]) /\ view[u].complete
    BY <1>1, <1>3, <1>6 DEF Safe, ViewSafe
  <2>2. view[u].version = 2
    BY <2>1 DEF Ahead
  <2>3. CASE cases'[c].version > 2
    BY <1>3, <1>4, <2>2, <2>3 DEF ViewSafe
  <2>4. CASE cases'[c].version = 2 /\ cases'[c].status # "LEAD_REVIEW"
    BY <1>3, <1>4, <2>1, <2>2, <2>4 DEF ViewSafe, Ahead
  <2> QED
    BY <2>1, <2>3, <2>4
<1> QED
  BY <1>5, <1>6

(* Every operation keeps every shown answer safe: an answer of the current  *)
(* version shows the current results.                                       *)
LEMMA ViewStep ==
  ASSUME Safe, [Next]_vars, TypeOK', NEW w \in Users
  PROVE  ViewSafe(w)'
<1>0. ViewSafe(w)
  BY DEF Safe
<1>1. ASSUME NEW e \in Cases, NEW v \in Versions, NEW sup \in Evidence, CreateInspection(e, v, sup)
      PROVE  ViewSafe(w)'
  <2>1. \A c \in Cases : Exists(c) =>
          cases'[c] = cases[c] /\ supplier'[c] = supplier[c] /\ internal'[c] = internal[c]
    BY <1>1 DEF CreateInspection, Safe, TypeOK
  <2> QED
    BY <1>0, <1>1, <2>1, ViewFrame DEF CreateInspection
<1>2. ASSUME NEW u \in Users, NEW e \in Cases, ReadCase(u, e)
      PROVE  ViewSafe(w)'
  <2>1. CASE u = w
    <3>1. view'[w] = [case |-> e, version |-> cases[e].version,
                      internal |-> Nothing, complete |-> FALSE]
      BY <1>2, <2>1 DEF ReadCase, Safe, TypeOK
    <3> QED
      BY <1>2, <3>1 DEF ReadCase, ViewSafe, Exists
  <2>2. CASE u # w
    BY <1>0, <1>2, <2>2, ViewFrame DEF ReadCase, Safe, TypeOK
  <2> QED
    BY <2>1, <2>2
<1>3. ASSUME NEW u \in Users, ReadResults(u)
      PROVE  ViewSafe(w)'
  <2>1. CASE u = w
    <3>1. view[w] \in View /\ view[w] # NoView /\ ~view[w].complete
      BY <1>3, <2>1 DEF ReadResults, Safe, TypeOK
    <3>2. view'[w] = [view[w] EXCEPT !.internal = internal[view[w].case], !.complete = TRUE]
      BY <1>3, <2>1 DEF ReadResults, Safe, TypeOK
    <3>3. /\ view'[w].case = view[w].case /\ view'[w].version = view[w].version
          /\ view'[w].internal = internal[view[w].case]
      BY <3>1, <3>2 DEF View
    <3>4. UNCHANGED <<cases, supplier, internal>>
      BY <1>3 DEF ReadResults
    <3> QED
      BY <1>0, <3>1, <3>3, <3>4 DEF ViewSafe, Exists
  <2>2. CASE u # w
    BY <1>0, <1>3, <2>2, ViewFrame DEF ReadResults, Safe, TypeOK
  <2> QED
    BY <2>1, <2>2
<1>4. ASSUME NEW u \in Inspectors, NEW e \in Cases, NEW results \in Evidence,
             PutInternalResults(u, e, results)
      PROVE  ViewSafe(w)'
  <2>0. u \in Users
    BY DEF Users
  <2>1. CASE u = w
    BY <1>4, <2>1 DEF PutInternalResults, ViewSafe, Safe, TypeOK
  <2>2. CASE u # w /\ view[w].case # e
    BY <1>0, <1>4, <2>2, ViewFrame DEF PutInternalResults, Safe, TypeOK
  <2>3. CASE u # w /\ view[w].case = e
    <3> DEFINE row == Evaluated(cases[e], Candidate(supplier[e], results))
    <3>1. cases[e] \in CaseRow /\ Exists(e)
      BY <1>4 DEF PutInternalResults, Open, Exists, Safe, TypeOK
    <3>2. /\ row \in CaseRow /\ row.version \in {cases[e].version, cases[e].version + 1}
          /\ row.version = cases[e].version => row.status = cases[e].status
          /\ row.parent = cases[e].parent
      BY <3>1, EvaluatedType, EvaluatedRow, CandidateType
    <3>3. cases'[e] = Touched(row)
      BY <1>4 DEF PutInternalResults, Safe, TypeOK
    <3> HIDE DEF row
    <3>4. /\ cases'[e] \in CaseRow /\ cases'[e].version = row.version + 1
          /\ cases'[e].status = row.status /\ cases'[e].parent = row.parent
      BY <3>2, <3>3 DEF Touched, CaseRow
    <3>5. cases[e].version \in Nat
      BY <3>1 DEF CaseRow
    <3>6. Ahead(cases[e], view[w].version, supplier[e], internal[e]) =>
            \/ cases'[e].version > 2
            \/ cases'[e].version = 2 /\ cases'[e].status # "LEAD_REVIEW"
      BY <3>2, <3>4, <3>5 DEF Ahead
    <3>7. cases'[e].version > cases[e].version
      BY <3>2, <3>4, <3>5
    <3>8. view'[w] = view[w]
      BY <1>4, <2>3 DEF PutInternalResults, Safe, TypeOK
    <3> QED
      BY <2>3, <3>1, <3>2, <3>4, <3>6, <3>7, <3>8, ViewOutdated
  <2> QED
    BY <2>1, <2>2, <2>3
<1>5. ASSUME NEW u \in Inspectors, NEW e \in Cases, SubmitInspection(u, e)
      PROVE  ViewSafe(w)'
  <2>1. CASE u = w
    BY <1>5, <2>1 DEF SubmitInspection, ViewSafe, Safe, TypeOK
  <2>2. CASE u # w /\ view[w].case # e
    BY <1>0, <1>5, <2>2, ViewFrame DEF SubmitInspection, Safe, TypeOK
  <2>3. CASE u # w /\ view[w].case = e
    <3> DEFINE row == Evaluated(cases[e], Candidate(supplier[e], internal[e]))
    <3>1. cases[e] \in CaseRow /\ Exists(e)
      BY <1>5 DEF SubmitInspection, Open, Exists, Safe, TypeOK
    <3>2. /\ row \in CaseRow /\ row.version \in {cases[e].version, cases[e].version + 1}
          /\ row.parent = cases[e].parent
      BY <3>1, EvaluatedType, EvaluatedRow, CandidateType
    <3>3. cases'[e] = [row EXCEPT !.status = "LEAD_REVIEW", !.submitter = u,
                                  !.version = row.version + 1]
      BY <1>5 DEF SubmitInspection, Safe, TypeOK
    <3>4. Ahead(cases[e], view[w].version, supplier[e], internal[e]) =>
            cases[e].version = 2 \/ row.version = 2
      BY DEF Ahead
    <3> HIDE DEF row
    <3>5. /\ cases'[e] \in CaseRow /\ cases'[e].version = row.version + 1
          /\ cases'[e].parent = row.parent
      <4>1. "LEAD_REVIEW" \in Statuses /\ u \in Users /\ row.version + 1 \in Nat
        BY <3>2, RowFields DEF Statuses, Users
      <4>2. [row EXCEPT !.status = "LEAD_REVIEW", !.submitter = u,
                       !.version = row.version + 1] \in CaseRow
        BY <3>2, <4>1, RowSubmitted
      <4>3. cases'[e] \in CaseRow
        BY <3>3, <4>2
      <4> QED
        BY <3>2, <3>3, <4>3 DEF CaseRow
    <3>6. cases[e].version \in Nat
      BY <3>1 DEF CaseRow
    <3>7. Ahead(cases[e], view[w].version, supplier[e], internal[e]) => cases'[e].version > 2
      BY <3>2, <3>4, <3>5, <3>6
    <3>8. cases'[e].version > cases[e].version
      BY <3>2, <3>5, <3>6
    <3>9. view'[w] = view[w]
      BY <1>5, <2>3 DEF SubmitInspection, Safe, TypeOK
    <3> QED
      BY <2>3, <3>1, <3>2, <3>5, <3>7, <3>8, <3>9, ViewOutdated
  <2> QED
    BY <2>1, <2>2, <2>3
<1>6. ASSUME NEW l \in Leads, NEW e \in Cases, ReturnInspection(l, e)
      PROVE  ViewSafe(w)'
  <2>1. CASE l = w
    BY <1>6, <2>1 DEF ReturnInspection, ViewSafe, Safe, TypeOK
  <2>2. CASE l # w /\ view[w].case # e
    BY <1>0, <1>6, <2>2, ViewFrame DEF ReturnInspection, Safe, TypeOK
  <2>3. CASE l # w /\ view[w].case = e
    <3>1. cases[e] \in CaseRow /\ Exists(e) /\ cases[e].status = "LEAD_REVIEW"
      BY <1>6 DEF ReturnInspection, Exists, Safe, TypeOK
    <3>2. cases'[e] = [cases[e] EXCEPT !.status = "RETURNED", !.version = cases[e].version + 1]
      BY <1>6 DEF ReturnInspection, Safe, TypeOK
    <3>3. /\ cases'[e] \in CaseRow /\ cases'[e].version > cases[e].version
          /\ cases'[e].parent = cases[e].parent
      <4>1. "RETURNED" \in Statuses /\ cases[e].version + 1 \in Nat
        BY <3>1, RowFields DEF Statuses
      <4>2. [cases[e] EXCEPT !.status = "RETURNED", !.version = cases[e].version + 1] \in CaseRow
        BY <3>1, <4>1, RowReturned
      <4>3. cases'[e] \in CaseRow
        BY <3>2, <4>2
      <4> QED
        BY <3>1, <3>2, <4>3 DEF CaseRow
    <3>4. ~Ahead(cases[e], view[w].version, supplier[e], internal[e])
      BY <3>1 DEF Ahead
    <3>5. view'[w] = view[w]
      BY <1>6, <2>3 DEF ReturnInspection, Safe, TypeOK
    <3> QED
      BY <2>3, <3>1, <3>3, <3>4, <3>5, ViewOutdated
  <2> QED
    BY <2>1, <2>2, <2>3
<1>7. ASSUME NEW l \in Leads, NEW e \in Cases, NEW reason \in BOOLEAN, BeginApproval(l, e, reason)
      PROVE  ViewSafe(w)'
  <2>1. CASE l = w
    BY <1>7, <2>1 DEF BeginApproval, ViewSafe, Safe, TypeOK
  <2>2. CASE l # w
    BY <1>0, <1>7, <2>2, ViewFrame DEF BeginApproval, Safe, TypeOK
  <2> QED
    BY <2>1, <2>2
<1>8. ASSUME NEW l \in Leads, CheckApproval(l) \/ AbortApproval(l)
      PROVE  ViewSafe(w)'
  BY <1>0, <1>8, ViewFrame DEF CheckApproval, AbortApproval
<1>9. ASSUME NEW l \in Leads, CommitApproval(l)
      PROVE  ViewSafe(w)'
  <2> DEFINE e == tx[l].case
  <2>0. view' = view
    BY <1>9 DEF CommitApproval
  <2>1. /\ tx[l] \in Tx /\ e \in Cases /\ Exists(e) /\ cases[e] \in CaseRow
        /\ cases[e].status = "LEAD_REVIEW"
    BY <1>9 DEF CommitApproval, TxSafe, Safe, TypeOK, Exists
  <2>2. CASE view[w].case # e
    BY <1>0, <1>9, <2>0, <2>2, ViewFrame DEF CommitApproval, Safe, TypeOK
  <2>3. CASE view[w].case = e
    <3>1. cases'[e] = [cases[e] EXCEPT !.status = tx[l].final, !.final = tx[l].final,
                         !.candidate = tx[l].candidate, !.version = cases[e].version + 1]
      BY <1>9, <2>1 DEF CommitApproval, Safe, TypeOK
    <3> HIDE DEF e
    <3>2. cases'[e] \in CaseRow
      <4>1. /\ tx[l].final \in Decisions /\ tx[l].candidate \in Decisions
            /\ tx[l].final \in Statuses /\ cases[e].version + 1 \in Nat
        BY <2>1, RowFields DEF Tx, Statuses
      <4>2. [cases[e] EXCEPT !.status = tx[l].final, !.final = tx[l].final,
               !.candidate = tx[l].candidate, !.version = cases[e].version + 1] \in CaseRow
        BY <2>1, <4>1, RowFinalized
      <4> QED
        BY <3>1, <4>2
    <3>3. cases'[e].version > cases[e].version /\ cases'[e].parent = cases[e].parent
      BY <2>1, <3>1 DEF CaseRow
    <3>4. ~Ahead(cases[e], view[w].version, supplier[e], internal[e])
      BY <2>1 DEF Ahead
    <3> QED
      BY <2>0, <2>1, <2>3, <3>2, <3>3, <3>4, ViewOutdated
  <2> QED
    BY <2>2, <2>3
<1>10. ASSUME NEW u \in Inspectors, NEW p \in Cases, NEW e \in Cases,
              ReviseInspection(u, p, e) \/ RetestInspection(u, p, e)
       PROVE  ViewSafe(w)'
  <2>1. PICK row \in CaseRow, results \in Evidence :
          /\ Clone(u, p, e, row, results)
          /\ row.status # "LEAD_REVIEW" /\ row.final = Absent /\ row.version = 1
          /\ row.parent # Absent
    BY <1>10, CloneShape, CaseAssumption DEF Safe
  <2>2. CASE u = w
    <3> DEFINE version == Evaluated(row, Candidate(supplier[p], results)).version
    <3>1. version \in {1, 2}
      BY <2>1, EvaluatedType, CandidateType
    <3>2. /\ cases'[e] = row /\ supplier'[e] = supplier[p] /\ internal'[e] = results
      BY <2>1 DEF Clone, Safe, TypeOK
    <3>3. \/ view'[w] = NoView
          \/ view'[w] = [case |-> e, internal |-> results, complete |-> TRUE, version |-> version]
      BY <2>1, <2>2 DEF Clone, Safe, TypeOK
    <3>4. Exists(e)'
      BY <2>1, <3>2 DEF Exists, NoCase, CaseRow, Statuses, Decisions
    <3>5. version = 2 => Ahead(row, version, supplier[p], results)
      BY <2>1 DEF Ahead
    <3> HIDE DEF version
    <3> QED
      BY <2>1, <3>1, <3>2, <3>3, <3>4, <3>5 DEF ViewSafe
  <2>3. CASE u # w
    <3>1. \A c \in Cases : Exists(c) =>
            cases'[c] = cases[c] /\ supplier'[c] = supplier[c] /\ internal'[c] = internal[c]
      BY <2>1 DEF Clone, Safe, TypeOK
    <3>2. view'[w] = view[w]
      BY <2>1, <2>3 DEF Clone, Safe, TypeOK
    <3> QED
      BY <1>0, <3>1, <3>2, ViewFrame
  <2> QED
    BY <2>2, <2>3
<1>11. ASSUME NEW v \in Versions, ActivateVersion(v) \/ RetireVersion(v) \/ RescheduleVersion(v)
       PROVE  ViewSafe(w)'
  BY <1>0, <1>11, ViewFrame DEF ActivateVersion, RetireVersion, RescheduleVersion
<1>12. CASE LotConflict
  BY <1>0, <1>12, ViewFrame DEF LotConflict
<1>13. CASE UNCHANGED vars
  BY <1>0, <1>13, ViewFrame DEF vars
<1> QED
  BY <1>1, <1>2, <1>3, <1>4, <1>5, <1>6, <1>7, <1>8, <1>9, <1>10, <1>11, <1>12, <1>13
  DEF Next

-----------------------------------------------------------------------------
(* The decision invariant holds in every reachable state, whatever the      *)
(* actors, the policies, the versions and the number of cases.              *)
THEOREM DecisionIsSafe == Spec => []DecisionInvariant
<1>1. Safe /\ [Next]_vars => Safe'
  <2> SUFFICES ASSUME Safe, [Next]_vars PROVE Safe'
    OBVIOUS
  <2>1. ApprovalInFlight
    BY SafeIsDecisionInvariant DEF DecisionInvariant
  <2>2. TypeOK'
    BY <2>1, TypeStep DEF Safe
  <2> QED
    BY <2>2, CaseStep, TxStep, ViewStep DEF Safe
<1> QED
  BY <1>1, SafeInit, SafeIsDecisionInvariant, PTL DEF Spec

(* The rows the handlers write have the shape the handlers read.            *)
THEOREM TypeCorrect == Spec => []TypeOK
BY DecisionIsSafe, PTL DEF DecisionInvariant

(* A final decision is archived over the evidence that is still stored.     *)
THEOREM DecisionsMatchEvidence == Spec => []DecisionMatchesEvidence
BY DecisionIsSafe, PTL DEF DecisionInvariant

(* Nobody approves what they submitted.                                     *)
THEOREM ApproversAreNotSubmitters == Spec => []FourEyes
BY DecisionIsSafe, PTL DEF DecisionInvariant

(* A case under review carries evidence the engine decided on as it stands. *)
THEOREM ReviewsAreFresh == Spec => []SubmittedEvidenceFresh
BY DecisionIsSafe, PTL DEF DecisionInvariant

(* From the submission to the decision the engine's decision is that on the *)
(* evidence that is stored.                                                 *)
THEOREM DecisionsRestOnEvidence == Spec => []DecisionsFollowEvidence
BY DecisionsMatchEvidence, ReviewsAreFresh, PTL DEF DecisionsFollowEvidence

(* A LEAD decides on the results the LEAD was shown.                        *)
THEOREM ApproversSawTheEvidence == Spec => []ApproverSawEvidence
BY DecisionIsSafe, PTL DEF DecisionInvariant

(* A request about a case that continues no other, once past If-Match,      *)
(* comes from a client that was shown the results it replaces or submits.   *)
THEOREM OriginalsKeepUpdates == Spec => []OriginalsLoseNoUpdate
<1>1. DecisionInvariant => OriginalsLoseNoUpdate
  <2> SUFFICES ASSUME DecisionInvariant, NEW u \in Users, NEW c \in Cases,
                      Exists(c), cases[c].parent = Absent, Matches(u, c)
               PROVE  Shown(u, c)
    BY DEF OriginalsLoseNoUpdate
  <2>1. view[u] # NoView
    BY CaseAssumption DEF Matches, NoView
  <2>2. cases[c] \in CaseRow /\ cases[c].version \in Nat
    BY DEF DecisionInvariant, TypeOK, Exists, CaseRow
  <2> QED
    BY <2>1, <2>2 DEF DecisionInvariant, AnswersAge, Provisional, Matches, Shown
<1> QED
  BY <1>1, DecisionIsSafe, PTL

-----------------------------------------------------------------------------
(* The cases implement QualityDecision: each step gathers evidence of one   *)
(* undecided case, decides one case, or changes neither.                    *)
Gathered == [c \in Cases |-> <<supplier[c], internal[c]>>]
Decided == [c \in Cases |-> IF Final(c) THEN cases[c].final ELSE Absent]

(* Adding evidence to an undecided case is a step of the promise.           *)
LEMMA GatherStep ==
  ASSUME TypeOK, TypeOK', NEW e \in Cases, ~Final(e), ~Final(e)',
         \A c \in Cases : c # e =>
           cases'[c] = cases[c] /\ supplier'[c] = supplier[c] /\ internal'[c] = internal[c]
  PROVE  Promise!Next
<1> DEFINE pair == <<supplier'[e], internal'[e]>>
<1>1. Gathered' = [Gathered EXCEPT ![e] = pair]
  BY DEF Gathered
<1>2. Decided' = Decided
  BY DEF Decided, Final, Exists
<1>3. pair \in Evidence \X Evidence
  BY DEF TypeOK
<1>4. Decided[e] = Absent
  BY DEF Decided
<1> HIDE DEF pair
<1>5. PICK x \in Evidence \X Evidence : x = pair
  BY <1>3
<1>6. Promise!Gather(e, x)
  BY <1>1, <1>2, <1>4, <1>5 DEF Promise!Gather, Promise!Undecided, Gathered, Decided
<1> QED
  BY <1>6 DEF Promise!Next

(* A step that touches neither evidence nor final decisions is a stutter.   *)
LEMMA StutterStep ==
  ASSUME \A c \in Cases : Final(c)' = Final(c) /\ (Final(c) => cases'[c].final = cases[c].final),
         supplier' = supplier, internal' = internal
  PROVE  UNCHANGED Promise!vars
<1>1. Gathered' = Gathered
  BY DEF Gathered
<1>2. Decided' = Decided
  BY DEF Decided
<1> QED
  BY <1>1, <1>2 DEF Promise!vars, Gathered, Decided

(* Every operation maps to a step of the promise or to a stutter.           *)
LEMMA PromiseStep == Safe /\ TypeOK' /\ [Next]_vars => [Promise!Next]_(Promise!vars)
<1> SUFFICES ASSUME Safe, TypeOK', [Next]_vars PROVE Promise!Next \/ UNCHANGED Promise!vars
  OBVIOUS
<1>0. TypeOK /\ \A c \in Cases : Exists(c) => cases[c] \in CaseRow
  BY DEF Safe, TypeOK, Exists
<1>1. ASSUME NEW e \in Cases, NEW v \in Versions, NEW sup \in Evidence, CreateInspection(e, v, sup)
      PROVE  Promise!Next
  <2>1. ~Final(e) /\ ~Final(e)'
    BY <1>0, <1>1 DEF CreateInspection, Final, Exists, TypeOK
  <2> QED
    BY <1>0, <1>1, <2>1, GatherStep DEF CreateInspection, TypeOK
<1>2. ASSUME NEW u \in Users, NEW e \in Cases, ReadCase(u, e)
      PROVE  UNCHANGED Promise!vars
  BY <1>2, StutterStep DEF ReadCase, Final, Exists
<1>3. ASSUME NEW u \in Users, ReadResults(u)
      PROVE  UNCHANGED Promise!vars
  BY <1>3, StutterStep DEF ReadResults, Final, Exists
<1>4. ASSUME NEW u \in Inspectors, NEW e \in Cases, NEW results \in Evidence,
             PutInternalResults(u, e, results)
      PROVE  Promise!Next
  <2> DEFINE row == Evaluated(cases[e], Candidate(supplier[e], results))
  <2>1. cases[e] \in CaseRow /\ cases[e].final = Absent
    BY <1>0, <1>4 DEF PutInternalResults, Open
  <2>2. row \in CaseRow /\ row.final = Absent
    BY <2>1, EvaluatedType, EvaluatedRow, CandidateType
  <2>3. cases' = [cases EXCEPT ![e] = Touched(row)]
    BY <1>4 DEF PutInternalResults
  <2> HIDE DEF row
  <2>4. ~Final(e) /\ ~Final(e)'
    BY <1>0, <2>1, <2>2, <2>3 DEF Final, Touched, CaseRow, TypeOK
  <2> QED
    BY <1>0, <1>4, <2>3, <2>4, GatherStep DEF PutInternalResults, TypeOK
<1>5. ASSUME NEW u \in Inspectors, NEW e \in Cases, SubmitInspection(u, e)
      PROVE  UNCHANGED Promise!vars
  <2> DEFINE row == Evaluated(cases[e], Candidate(supplier[e], internal[e]))
  <2>1. cases[e] \in CaseRow /\ cases[e].final = Absent
    BY <1>0, <1>5 DEF SubmitInspection, Open
  <2>2. row \in CaseRow /\ row.final = Absent
    BY <2>1, EvaluatedType, EvaluatedRow, CandidateType
  <2>3. cases' = [cases EXCEPT ![e] = [row EXCEPT !.status = "LEAD_REVIEW", !.submitter = u,
                                                  !.version = row.version + 1]]
    BY <1>5 DEF SubmitInspection
  <2> HIDE DEF row
  <2>4. cases'[e].final = Absent /\ \A c \in Cases : c # e => cases'[c] = cases[c]
    BY <1>0, <2>2, <2>3 DEF CaseRow, TypeOK
  <2>5. \A c \in Cases : Final(c)' = Final(c) /\ (Final(c) => cases'[c].final = cases[c].final)
    BY <2>1, <2>4 DEF Final, Exists
  <2> QED
    BY <1>5, <2>5, StutterStep DEF SubmitInspection
<1>6. ASSUME NEW l \in Leads, NEW e \in Cases, ReturnInspection(l, e)
      PROVE  UNCHANGED Promise!vars
  <2>1. cases[e] \in CaseRow
    BY <1>0, <1>6 DEF ReturnInspection
  <2>2. cases' = [cases EXCEPT ![e] = [cases[e] EXCEPT !.status = "RETURNED",
                                                       !.version = cases[e].version + 1]]
    BY <1>0, <1>6 DEF ReturnInspection, TypeOK
  <2>3. cases'[e].final = cases[e].final /\ cases'[e].status = "RETURNED"
    BY <1>0, <2>1, <2>2 DEF CaseRow, TypeOK
  <2>4. \A c \in Cases : c # e => cases'[c] = cases[c]
    BY <1>0, <2>2 DEF TypeOK
  <2>5. Exists(e) /\ Exists(e)'
    <3>1. cases'[e] # NoCase
      BY <2>3 DEF NoCase, Absent
    <3> QED
      BY <1>6, <3>1 DEF ReturnInspection, Exists
  <2>6. \A c \in Cases : Final(c)' = Final(c) /\ (Final(c) => cases'[c].final = cases[c].final)
    BY <2>3, <2>4, <2>5 DEF Final, Exists
  <2> QED
    BY <1>6, <2>6, StutterStep DEF ReturnInspection
<1>7. ASSUME NEW l \in Leads, NEW e \in Cases, NEW reason \in BOOLEAN, BeginApproval(l, e, reason)
      PROVE  UNCHANGED Promise!vars
  BY <1>7, StutterStep DEF BeginApproval, Final, Exists
<1>8. ASSUME NEW l \in Leads, CheckApproval(l) \/ AbortApproval(l)
      PROVE  UNCHANGED Promise!vars
  BY <1>8, StutterStep DEF CheckApproval, AbortApproval, Final, Exists
<1>9. ASSUME NEW l \in Leads, CommitApproval(l)
      PROVE  Promise!Next
  <2>0. tx[l] \in Tx /\ tx[l].case \in Cases /\ tx[l].final \in Decisions
    BY <1>9 DEF CommitApproval, TxSafe, Safe, TypeOK, Tx
  <2>1. PICK e \in Cases, d \in Decisions : e = tx[l].case /\ d = tx[l].final
    BY <2>0
  <2>2. /\ Exists(e) /\ cases[e].status = "LEAD_REVIEW"
        /\ d = tx[l].candidate /\ d = Candidate(supplier[e], internal[e])
    BY <1>9, <2>1 DEF CommitApproval, TxSafe, Safe
  <2>3. cases[e] \in CaseRow /\ cases[e].final = Absent /\ d # Absent
    <3>1. cases[e] \in CaseRow
      BY <1>0, <2>2
    <3>2. cases[e].final = Absent
      BY <2>2, ReviewIsOpen DEF Safe
    <3>3. d # Absent
      BY DEF Decisions, Absent
    <3> QED
      BY <3>1, <3>2, <3>3
  <2>4. /\ cases' = [cases EXCEPT ![e] =
                       [cases[e] EXCEPT !.status = d, !.final = d,
                          !.candidate = tx[l].candidate, !.version = cases[e].version + 1]]
        /\ supplier' = supplier /\ internal' = internal
    BY <1>0, <1>9, <2>1 DEF CommitApproval, TypeOK
  <2>5. /\ cases'[e].final = d
        /\ \A c \in Cases : c # e => cases'[c] = cases[c]
    BY <1>0, <2>3, <2>4 DEF CaseRow, TypeOK
  <2>6. cases'[e] # NoCase
    <3>1. cases'[e].status = d
      BY <1>0, <2>3, <2>4 DEF CaseRow, TypeOK
    <3> QED
      BY <2>3, <3>1 DEF NoCase
  <2>7. /\ Decided' = [Decided EXCEPT ![e] = d] /\ Decided[e] = Absent
        /\ Gathered' = Gathered /\ Gathered[e] = <<supplier[e], internal[e]>>
    <3>1. Final(e)' /\ ~Final(e)
      BY <2>3, <2>5, <2>6 DEF Final, Exists
    <3>2. \A c \in Cases : c # e => (Final(c)' = Final(c) /\ cases'[c].final = cases[c].final)
      BY <2>5 DEF Final, Exists
    <3> QED
      BY <2>4, <2>5, <3>1, <3>2 DEF Decided, Gathered
  <2>8. Promise!Decide(e, d)
    BY <2>2, <2>7 DEF Promise!Decide, Promise!Undecided, Gathered, Decided
  <2> QED
    BY <2>8 DEF Promise!Next
<1>10. ASSUME NEW u \in Inspectors, NEW p \in Cases, NEW e \in Cases,
              ReviseInspection(u, p, e) \/ RetestInspection(u, p, e)
       PROVE  Promise!Next
  <2>1. PICK row \in CaseRow, results \in Evidence :
          /\ Clone(u, p, e, row, results)
          /\ row.status # "LEAD_REVIEW" /\ row.final = Absent /\ row.version = 1
    BY <1>10, CloneShape DEF Safe
  <2>2. ~Final(e) /\ ~Final(e)'
    BY <1>0, <2>1 DEF Clone, Final, Exists, TypeOK
  <2> QED
    BY <1>0, <2>1, <2>2, GatherStep DEF Clone, TypeOK
<1>11. ASSUME NEW v \in Versions, ActivateVersion(v) \/ RetireVersion(v) \/ RescheduleVersion(v)
       PROVE  UNCHANGED Promise!vars
  BY <1>11, StutterStep DEF ActivateVersion, RetireVersion, RescheduleVersion, Final, Exists
<1>12. CASE LotConflict
  BY <1>12, StutterStep DEF LotConflict, Final, Exists
<1>13. CASE UNCHANGED vars
  BY <1>13, StutterStep DEF vars, Final, Exists
<1> QED
  BY <1>1, <1>2, <1>3, <1>4, <1>5, <1>6, <1>7, <1>8, <1>9, <1>10, <1>11, <1>12, <1>13
  DEF Next

(* A case is decided once, on the evidence it has at that moment, and       *)
(* neither the decision nor the evidence of a decided case changes.         *)
THEOREM DecisionsStand == Spec => FinalDecisionStands
<1>1. Init => Promise!Init
  BY TypeInit DEF Init, Promise!Init, TypeOK, Final, Exists
<1>2. Safe /\ Safe' /\ [Next]_vars => [Promise!Next]_(Promise!vars)
  BY PromiseStep DEF Safe
<1>3. Spec => []Safe
  BY DecisionIsSafe, SafeIsDecisionInvariant, PTL
<1> QED
  BY <1>1, <1>2, <1>3, PTL DEF Spec, FinalDecisionStands, Promise!Spec

-----------------------------------------------------------------------------
(* Where a case stands in its lineage, and the version it is judged by.     *)
Place(c) == [root |-> cases[c].root, round |-> cases[c].round,
             revision |-> cases[c].revision, parent |-> cases[c].parent,
             spec |-> cases[c].spec]

(* A handler that replaces the row of a case by one with the same place.    *)
LEMMA RowKeepsPlace ==
  ASSUME TypeOK, NEW e \in Cases, NEW row \in CaseRow,
         cases' = [cases EXCEPT ![e] = row],
         row.root = cases[e].root, row.round = cases[e].round,
         row.revision = cases[e].revision, row.parent = cases[e].parent,
         row.spec = cases[e].spec,
         cases[e].final # Absent => row.final # Absent,
         NEW c \in Cases, Exists(c)
  PROVE  Exists(c)' /\ Place(c)' = Place(c) /\ (Final(c) => Final(c)')
<1>1. NoCase \notin CaseRow
  <2>1. \A r \in CaseRow : r.root \in Cases /\ r.status # Absent
    BY DEF CaseRow, Statuses, Decisions, Absent
  <2> QED
    BY <2>1 DEF NoCase
<1>2. CASE c = e
  <2>1. cases'[c] = row
    BY <1>2 DEF TypeOK
  <2> QED
    BY <1>1, <1>2, <2>1 DEF Exists, Place, Final
<1>3. CASE c # e
  <2>1. cases'[c] = cases[c]
    BY <1>3 DEF TypeOK
  <2> QED
    BY <2>1 DEF Exists, Place, Final
<1> QED
  BY <1>2, <1>3

(* A step that leaves the row of a case alone.                              *)
LEMMA SameRowKeepsPlace ==
  ASSUME NEW c \in Cases, Exists(c), cases'[c] = cases[c]
  PROVE  Exists(c)' /\ Place(c)' = Place(c) /\ (Final(c) => Final(c)')
BY DEF Exists, Place, Final

(* A case keeps its place and, once finalized, stays so, whatever happens.  *)
LEMMA PlaceKept ==
  ASSUME Safe, [Next]_vars, NEW c \in Cases, Exists(c)
  PROVE  Exists(c)' /\ Place(c)' = Place(c) /\ (Final(c) => Final(c)')
<1> DEFINE Kept == Exists(c)' /\ Place(c)' = Place(c) /\ (Final(c) => Final(c)')
<1>0. TypeOK /\ \A d \in Cases : Exists(d) => cases[d] \in CaseRow
  BY DEF Safe, TypeOK, Exists
<1>1. ASSUME NEW e \in Cases, NEW v \in Versions, NEW sup \in Evidence, CreateInspection(e, v, sup)
      PROVE  Kept
  <2>1. cases'[c] = cases[c]
    BY <1>0, <1>1 DEF CreateInspection, TypeOK
  <2> QED
    BY <2>1, SameRowKeepsPlace
<1>2. ASSUME NEW u \in Inspectors, NEW e \in Cases, NEW results \in Evidence,
             PutInternalResults(u, e, results)
      PROVE  Kept
  <2> DEFINE row == Evaluated(cases[e], Candidate(supplier[e], results))
  <2>1. cases[e] \in CaseRow /\ row \in CaseRow
    BY <1>0, <1>2, EvaluatedType, CandidateType DEF PutInternalResults, Open
  <2>2. row.root = cases[e].root /\ row.round = cases[e].round
        /\ row.revision = cases[e].revision /\ row.parent = cases[e].parent
        /\ row.spec = cases[e].spec /\ row.final = cases[e].final
    BY <2>1 DEF Evaluated, CaseRow
  <2>3. cases' = [cases EXCEPT ![e] = Touched(row)]
    BY <1>2 DEF PutInternalResults
  <2> HIDE DEF row
  <2>4. Touched(row) \in CaseRow
    BY <2>1 DEF Touched, CaseRow
  <2>5. Touched(row).root = row.root /\ Touched(row).round = row.round
        /\ Touched(row).revision = row.revision /\ Touched(row).parent = row.parent
        /\ Touched(row).spec = row.spec /\ Touched(row).final = row.final
    BY <2>1 DEF Touched, CaseRow
  <2>6. PICK after \in CaseRow : after = Touched(row)
    BY <2>4
  <2> QED
    BY <1>0, <2>2, <2>3, <2>5, <2>6, RowKeepsPlace
<1>3. ASSUME NEW u \in Inspectors, NEW e \in Cases, SubmitInspection(u, e)
      PROVE  Kept
  <2> DEFINE row == Evaluated(cases[e], Candidate(supplier[e], internal[e]))
             submitted == [row EXCEPT !.status = "LEAD_REVIEW", !.submitter = u,
                                      !.version = row.version + 1]
  <2>1. cases[e] \in CaseRow /\ row \in CaseRow
    BY <1>0, <1>3, EvaluatedType, CandidateType DEF SubmitInspection, Open
  <2>2. row.root = cases[e].root /\ row.round = cases[e].round
        /\ row.revision = cases[e].revision /\ row.parent = cases[e].parent
        /\ row.spec = cases[e].spec /\ row.final = cases[e].final
    BY <2>1 DEF Evaluated, CaseRow
  <2>3. cases' = [cases EXCEPT ![e] = submitted]
    BY <1>3 DEF SubmitInspection
  <2> HIDE DEF row
  <2>4. submitted \in CaseRow
    <3>1. "LEAD_REVIEW" \in Statuses /\ u \in Users /\ row.version + 1 \in Nat
      BY <2>1, RowFields DEF Statuses, Users
    <3> QED
      BY <2>1, <3>1, RowSubmitted
  <2>5. submitted.root = row.root /\ submitted.round = row.round
        /\ submitted.revision = row.revision /\ submitted.parent = row.parent
        /\ submitted.spec = row.spec /\ submitted.final = row.final
    BY <2>1 DEF CaseRow
  <2> HIDE DEF submitted
  <2> QED
    BY <1>0, <2>2, <2>3, <2>4, <2>5, RowKeepsPlace
<1>4. ASSUME NEW l \in Leads, NEW e \in Cases, ReturnInspection(l, e)
      PROVE  Kept
  <2> DEFINE row == [cases[e] EXCEPT !.status = "RETURNED", !.version = cases[e].version + 1]
  <2>1. cases[e] \in CaseRow
    BY <1>0, <1>4 DEF ReturnInspection
  <2>2. row \in CaseRow
    <3>1. "RETURNED" \in Statuses /\ cases[e].version + 1 \in Nat
      BY <2>1, RowFields DEF Statuses
    <3> QED
      BY <2>1, <3>1, RowReturned
  <2>3. cases' = [cases EXCEPT ![e] = row]
    BY <1>0, <1>4 DEF ReturnInspection, TypeOK
  <2>4. row.root = cases[e].root /\ row.round = cases[e].round
        /\ row.revision = cases[e].revision /\ row.parent = cases[e].parent
        /\ row.spec = cases[e].spec /\ row.final = cases[e].final
    BY <2>1 DEF CaseRow
  <2> HIDE DEF row
  <2> QED
    BY <1>0, <2>2, <2>3, <2>4, RowKeepsPlace
<1>5. ASSUME NEW l \in Leads, CommitApproval(l)
      PROVE  Kept
  <2>0. tx[l] \in Tx /\ tx[l].case \in Cases /\ tx[l].final \in Decisions
        /\ tx[l].candidate \in Decisions
    BY <1>5 DEF CommitApproval, TxSafe, Safe, TypeOK, Tx
  <2>1. PICK e \in Cases, d \in Decisions, k \in Decisions :
          e = tx[l].case /\ d = tx[l].final /\ k = tx[l].candidate
    BY <2>0
  <2> DEFINE row == [cases[e] EXCEPT !.status = d, !.final = d, !.candidate = k,
                       !.version = cases[e].version + 1]
  <2>2. cases[e] \in CaseRow
    BY <1>0, <1>5, <2>1 DEF CommitApproval, TxSafe, Safe
  <2>3. cases' = [cases EXCEPT ![e] = row]
    BY <1>0, <1>5, <2>1 DEF CommitApproval, TypeOK
  <2>4. row \in CaseRow
    <3>1. d \in Statuses /\ cases[e].version + 1 \in Nat
      BY <2>2, RowFields DEF Statuses
    <3> QED
      BY <2>2, <3>1, RowFinalized
  <2>5. row.root = cases[e].root /\ row.round = cases[e].round
        /\ row.revision = cases[e].revision /\ row.parent = cases[e].parent
        /\ row.spec = cases[e].spec /\ row.final = d
    BY <2>2 DEF CaseRow
  <2>6. d # Absent
    BY DEF Decisions, Absent
  <2> HIDE DEF row
  <2> QED
    BY <1>0, <2>3, <2>4, <2>5, <2>6, RowKeepsPlace
<1>6. ASSUME NEW u \in Inspectors, NEW p \in Cases, NEW e \in Cases,
             ReviseInspection(u, p, e) \/ RetestInspection(u, p, e)
      PROVE  Kept
  <2>1. PICK row \in CaseRow, results \in Evidence : Clone(u, p, e, row, results)
    BY <1>0, <1>6, CloneShape
  <2>2. cases'[c] = cases[c]
    BY <1>0, <2>1 DEF Clone, TypeOK
  <2> QED
    BY <2>2, SameRowKeepsPlace
<1>7. ASSUME cases' = cases
      PROVE  Kept
  BY <1>7, SameRowKeepsPlace
<1> HIDE DEF Kept
<1>8. ASSUME NEW l \in Leads, CheckApproval(l) \/ AbortApproval(l)
      PROVE  cases' = cases
  BY <1>8 DEF CheckApproval, AbortApproval
<1>9. ASSUME NEW v \in Versions,
              ActivateVersion(v) \/ RetireVersion(v) \/ RescheduleVersion(v)
       PROVE  cases' = cases
  BY <1>9 DEF ActivateVersion, RetireVersion, RescheduleVersion
<1>10. (LotConflict \/ UNCHANGED vars) => cases' = cases
  BY DEF LotConflict, vars
<1>11. ASSUME NEW u \in Users, NEW e \in Cases, ReadCase(u, e) \/ ReadResults(u)
       PROVE  cases' = cases
  BY <1>11 DEF ReadCase, ReadResults
<1>12. ASSUME NEW l \in Leads, NEW e \in Cases, NEW reason \in BOOLEAN, BeginApproval(l, e, reason)
       PROVE  cases' = cases
  BY <1>12 DEF BeginApproval
<1>13. ASSUME NEW u \in Users, ReadResults(u)
       PROVE  cases' = cases
  BY <1>13 DEF ReadResults
<1> QED
  BY <1>1, <1>2, <1>3, <1>4, <1>5, <1>6, <1>7, <1>8, <1>9, <1>10, <1>11, <1>12, <1>13
  DEF Next, Kept

(* What a new case is: the first of its lineage, or the correction or the   *)
(* retest of a finalized one whose key no other case has.                   *)
FirstOfLineage(c) ==
  cases'[c].root = c /\ cases'[c].round = 1 /\ cases'[c].revision = 1
  /\ cases'[c].parent = Absent
NextOfLineage(c, p) ==
  /\ Final(p)
  /\ cases'[c].parent = p /\ cases'[c].root = cases[p].root
  /\ \/ cases'[c].round = cases[p].round /\ cases'[c].revision = cases[p].revision + 1
     \/ cases'[c].round = cases[p].round + 1 /\ cases'[c].revision = 1
  /\ LineageFree(cases'[c].root, cases'[c].round, cases'[c].revision)

(* A case that comes into being comes alone and takes a place of its own.   *)
LEMMA NewCase ==
  ASSUME Safe, [Next]_vars, NEW c \in Cases, ~Exists(c), Exists(c)'
  PROVE  /\ \A d \in Cases \ {c} : cases'[d] = cases[d]
         /\ FirstOfLineage(c) \/ \E p \in Cases : NextOfLineage(c, p)
<1> DEFINE Others == \A d \in Cases \ {c} : cases'[d] = cases[d]
           Placed == FirstOfLineage(c) \/ \E p \in Cases : NextOfLineage(c, p)
<1>0. TypeOK /\ \A d \in Cases : Exists(d) => cases[d] \in CaseRow
  BY DEF Safe, TypeOK, Exists
<1>1. cases'[c] # cases[c]
  BY DEF Exists
<1>2. ASSUME NEW e \in Cases, NEW v \in Versions, NEW sup \in Evidence, CreateInspection(e, v, sup)
      PROVE  Others /\ Placed
  <2>1. e = c
    BY <1>0, <1>1, <1>2 DEF CreateInspection, TypeOK
  <2> QED
    BY <1>0, <1>2, <2>1 DEF CreateInspection, TypeOK, FirstOfLineage
<1>3. ASSUME NEW u \in Inspectors, NEW p \in Cases, NEW e \in Cases, ReviseInspection(u, p, e)
      PROVE  Others /\ Placed
  <2> DEFINE row == [cases[p] EXCEPT !.status = "READY_FOR_REVIEW", !.final = Absent,
                       !.submitter = Absent, !.version = 1, !.revision = cases[p].revision + 1,
                       !.parent = p]
  <2>1. Final(p) /\ cases[p] \in CaseRow /\ cases' = [cases EXCEPT ![e] = row]
        /\ LineageFree(row.root, row.round, row.revision)
    BY <1>0, <1>3 DEF ReviseInspection, Clone, Final
  <2>2. row.root = cases[p].root /\ row.round = cases[p].round
        /\ row.revision = cases[p].revision + 1 /\ row.parent = p
    BY <2>1 DEF CaseRow
  <2> HIDE DEF row
  <2>3. e = c
    BY <1>0, <1>1, <2>1 DEF TypeOK
  <2>4. cases'[c] = row /\ Others
    BY <1>0, <2>1, <2>3 DEF TypeOK
  <2>5. NextOfLineage(c, p)
    BY <2>1, <2>2, <2>4 DEF NextOfLineage
  <2> QED
    BY <2>4, <2>5
<1>4. ASSUME NEW u \in Inspectors, NEW p \in Cases, NEW e \in Cases, RetestInspection(u, p, e)
      PROVE  Others /\ Placed
  <2> DEFINE row == [cases[p] EXCEPT !.status = "INTERNAL_TEST_PENDING", !.candidate = "ON_HOLD",
                       !.final = Absent, !.submitter = Absent, !.version = 1,
                       !.round = cases[p].round + 1, !.revision = 1, !.parent = p]
  <2>1. Final(p) /\ cases[p] \in CaseRow /\ cases' = [cases EXCEPT ![e] = row]
        /\ LineageFree(row.root, row.round, row.revision)
    BY <1>0, <1>4 DEF RetestInspection, Clone, Final
  <2>2. row.root = cases[p].root /\ row.round = cases[p].round + 1
        /\ row.revision = 1 /\ row.parent = p
    BY <2>1 DEF CaseRow
  <2> HIDE DEF row
  <2>3. e = c
    BY <1>0, <1>1, <2>1 DEF TypeOK
  <2>4. cases'[c] = row /\ Others
    BY <1>0, <2>1, <2>3 DEF TypeOK
  <2>5. NextOfLineage(c, p)
    BY <2>1, <2>2, <2>4 DEF NextOfLineage
  <2> QED
    BY <2>4, <2>5
<1>5. ASSUME NEW e \in Cases, NEW row, Exists(e), cases' = [cases EXCEPT ![e] = row]
      PROVE  FALSE
  BY <1>0, <1>1, <1>5 DEF TypeOK, Exists
<1>6. ASSUME NEW u \in Inspectors, NEW e \in Cases, NEW results \in Evidence,
             PutInternalResults(u, e, results)
      PROVE  FALSE
  BY <1>5, <1>6 DEF PutInternalResults, Open
<1>7. ASSUME NEW u \in Inspectors, NEW e \in Cases, SubmitInspection(u, e)
      PROVE  FALSE
  BY <1>5, <1>7 DEF SubmitInspection, Open
<1>8. ASSUME NEW l \in Leads, NEW e \in Cases, ReturnInspection(l, e)
      PROVE  FALSE
  <2>1. Exists(e) /\ cases' = [cases EXCEPT ![e] =
          [cases[e] EXCEPT !.status = "RETURNED", !.version = cases[e].version + 1]]
    BY <1>0, <1>8 DEF ReturnInspection, TypeOK
  <2> QED
    BY <1>5, <2>1
<1>9. ASSUME NEW l \in Leads, CommitApproval(l)
      PROVE  FALSE
  <2>1. PICK e \in Cases : e = tx[l].case /\ Exists(e)
    BY <1>9 DEF CommitApproval, TxSafe, Safe
  <2>2. cases' = [cases EXCEPT ![e] =
          [cases[e] EXCEPT !.status = tx[l].final, !.final = tx[l].final,
             !.candidate = tx[l].candidate, !.version = cases[e].version + 1]]
    BY <1>0, <1>9, <2>1 DEF CommitApproval, TypeOK
  <2> QED
    BY <1>5, <2>1, <2>2
<1>10. ASSUME NEW l \in Leads, CheckApproval(l) \/ AbortApproval(l)
       PROVE  FALSE
  BY <1>1, <1>10 DEF CheckApproval, AbortApproval
<1>11. ASSUME NEW u \in Users, NEW e \in Cases, ReadCase(u, e)
       PROVE  FALSE
  BY <1>1, <1>11 DEF ReadCase
<1>12. ASSUME NEW u \in Users, ReadResults(u)
       PROVE  FALSE
  BY <1>1, <1>12 DEF ReadResults
<1>13. ASSUME NEW l \in Leads, NEW e \in Cases, NEW reason \in BOOLEAN, BeginApproval(l, e, reason)
       PROVE  FALSE
  BY <1>1, <1>13 DEF BeginApproval
<1>14. ASSUME NEW v \in Versions,
              ActivateVersion(v) \/ RetireVersion(v) \/ RescheduleVersion(v)
       PROVE  FALSE
  BY <1>1, <1>14 DEF ActivateVersion, RetireVersion, RescheduleVersion
<1>15. ~LotConflict /\ ~UNCHANGED vars
  BY <1>1 DEF LotConflict, vars
<1> HIDE DEF Others, Placed
<1>16. Others /\ Placed
  BY <1>2, <1>3, <1>4, <1>6, <1>7, <1>8, <1>9, <1>10, <1>11, <1>12, <1>13, <1>14, <1>15
  DEF Next
<1> QED
  BY <1>16 DEF Others, Placed

(* The inductive invariant of the lineages: the first case of each exists   *)
(* as long as any of its cases does, so that a new lineage meets no old one.*)
Rooted == \A c \in Cases : Exists(c) => Exists(cases[c].root)
LineageInvariant == Rooted /\ LineageIsAChain

(* A case that starts its lineage, or continues another case of it.         *)
Linked(c) ==
  IF cases[c].parent = Absent THEN cases[c].root = c
  ELSE cases[c].parent # c /\ Continues(c, cases[c].parent)

(* No step breaks a lineage: a correction or a retest extends it, and every *)
(* other case keeps its place and its finalized predecessor.                *)
LEMMA LineageStep == Safe /\ TypeOK' /\ LineageInvariant /\ [Next]_vars => LineageInvariant'
<1> SUFFICES ASSUME Safe, TypeOK', LineageInvariant, [Next]_vars PROVE LineageInvariant'
  OBVIOUS
<1> USE DEF LineageInvariant
<1>0. TypeOK /\ \A d \in Cases : Exists(d) => cases[d] \in CaseRow
  BY DEF Safe, TypeOK, Exists
<1>1. \A d \in Cases : Exists(d) => Exists(d)' /\ Place(d)' = Place(d) /\ (Final(d) => Final(d)')
  BY PlaceKept
<1>2. \A d \in Cases : Exists(d) =>
        /\ cases'[d].root = cases[d].root /\ cases'[d].round = cases[d].round
        /\ cases'[d].revision = cases[d].revision /\ cases'[d].parent = cases[d].parent
  BY <1>1 DEF Place
<1>3. \A d \in Cases : Exists(d) =>
        cases[d].root \in Cases /\ cases[d].parent \in Cases \cup {Absent}
  BY <1>0 DEF CaseRow
<1>4. \A c, p \in Cases : Exists(c) /\ Continues(c, p) => Continues(c, p)'
  <2> SUFFICES ASSUME NEW c \in Cases, NEW p \in Cases, Exists(c), Continues(c, p)
               PROVE  Continues(c, p)'
    OBVIOUS
  <2>1. Exists(p) /\ Final(p)'
    BY <1>1 DEF Continues, Final
  <2> QED
    BY <1>2, <2>1 DEF Continues
<1>5. ASSUME NEW c \in Cases, Exists(c)
      PROVE  Exists(cases[c].root)' /\ Linked(c)'
  <2>1. Linked(c)
    BY <1>5 DEF LineageIsAChain, Linked
  <2>2. PICK r \in Cases, q \in Cases \cup {Absent} :
          r = cases[c].root /\ q = cases[c].parent
    BY <1>3, <1>5
  <2>3. cases'[c].root = r /\ cases'[c].parent = q
    BY <1>2, <1>5, <2>2
  <2>4. Exists(r)'
    BY <1>1, <1>5, <2>2 DEF Rooted
  <2>5. q # Absent => q # c /\ Continues(c, q)'
    BY <1>4, <1>5, <2>1, <2>2 DEF Linked
  <2>6. q = Absent => r = c
    BY <2>1, <2>2 DEF Linked
  <2>7. Exists(cases[c].root)'
    BY <2>3, <2>4 DEF Exists
  <2>8. Linked(c)'
    BY <2>3, <2>5, <2>6 DEF Linked, Continues, Final, Exists
  <2> QED
    BY <2>7, <2>8
<1>6. CASE \A c \in Cases : Exists(c)' => Exists(c)
  <2>1. LineageIsAChain'
    BY <1>2, <1>5, <1>6 DEF LineageIsAChain, Linked
  <2>2. Rooted'
    BY <1>5, <1>6 DEF Rooted
  <2> QED
    BY <2>1, <2>2
<1>7. CASE \E c \in Cases : Exists(c)' /\ ~Exists(c)
  <2>1. PICK c \in Cases : Exists(c)' /\ ~Exists(c)
    BY <1>7
  <2>2. \A d \in Cases \ {c} : cases'[d] = cases[d] /\ (Exists(d)' <=> Exists(d))
    BY <2>1, NewCase DEF Exists
  <2>3. FirstOfLineage(c) \/ \E p \in Cases : NextOfLineage(c, p)
    BY <2>1, NewCase
  <2> DEFINE Key(d) == <<cases[d].root, cases[d].round, cases[d].revision>>
             NewKey(d) == <<cases'[d].root, cases'[d].round, cases'[d].revision>>
  <2>4. \A d \in Cases \ {c} : Exists(d) => cases[d].root # c
    BY <2>1 DEF Rooted
  <2>5. (\A d \in Cases \ {c} : Exists(d) => NewKey(d) # NewKey(c))
        /\ Linked(c)' /\ Exists(cases[c].root)'
    <3>1. CASE FirstOfLineage(c)
      <4>1. cases'[c].root = c /\ cases'[c].parent = Absent
        BY <3>1 DEF FirstOfLineage
      <4>2. Exists(cases[c].root)'
        BY <2>1, <4>1 DEF Exists
      <4> QED
        BY <2>2, <2>4, <4>1, <4>2 DEF Linked
    <3>2. ASSUME NEW p \in Cases, NextOfLineage(c, p)
          PROVE  (\A d \in Cases \ {c} : Exists(d) => NewKey(d) # NewKey(c))
                 /\ Linked(c)' /\ Exists(cases[c].root)'
      <4>1. p # c /\ p # Absent /\ Exists(p) /\ cases'[p] = cases[p] /\ Final(p)'
        BY <1>1, <2>1, <2>2, <3>2, CaseAssumption DEF NextOfLineage, Final
      <4>2. cases[p] \in CaseRow /\ cases[p].round \in Nat /\ cases[p].revision \in Nat
        BY <1>0, <4>1 DEF CaseRow
      <4>3. \A d \in Cases \ {c} : Exists(d) => NewKey(d) # NewKey(c)
        BY <2>2, <3>2 DEF NextOfLineage, LineageFree
      <4>4. cases'[c].parent = p /\ Continues(c, p)'
        BY <3>2, <4>1, <4>2 DEF NextOfLineage, Continues
      <4>5. Linked(c)'
        BY <4>1, <4>4 DEF Linked, Continues, Final, Exists
      <4>6. PICK r \in Cases : r = cases[p].root /\ Exists(r)
        BY <1>3, <4>1 DEF Rooted
      <4>7. Exists(r)' /\ cases'[c].root = r
        BY <1>1, <3>2, <4>6 DEF NextOfLineage
      <4>8. Exists(cases[c].root)'
        BY <4>7 DEF Exists
      <4> QED
        BY <4>3, <4>5, <4>8
    <3> QED
      BY <2>3, <3>1, <3>2
  <2>6. Rooted'
    BY <1>5, <2>2, <2>5 DEF Rooted
  <2>7. LineageIsAChain'
    <3> SUFFICES ASSUME NEW a \in Cases, Exists(a)'
                 PROVE  (\A d \in Cases \ {a} : Exists(d)' => NewKey(d) # NewKey(a)) /\ Linked(a)'
      BY DEF LineageIsAChain, Linked
    <3>1. CASE a = c
      BY <2>2, <2>5, <3>1
    <3>2. CASE a # c
      <4>1. Exists(a)
        BY <2>2, <3>2
      <4>2. \A d \in Cases \ {a} : Exists(d) => Key(d) # Key(a)
        BY <4>1 DEF LineageIsAChain
      <4>3. \A d \in Cases \ {a, c} : Exists(d)' => NewKey(d) # NewKey(a)
        BY <1>2, <2>2, <4>1, <4>2
      <4>4. NewKey(a) # NewKey(c)
        BY <2>5, <3>2, <4>1
      <4> QED
        BY <1>5, <4>1, <4>3, <4>4
    <3> QED
      BY <3>1, <3>2
  <2> QED
    BY <2>6, <2>7
<1> QED
  BY <1>6, <1>7

(* Every lineage is a chain: no two cases share a round and a revision, and *)
(* each but the first continues a finalized one.                            *)
THEOREM LineagesAreChains == Spec => []LineageIsAChain
<1>1. Init => LineageInvariant
  BY DEF Init, LineageInvariant, Rooted, LineageIsAChain, Exists
<1>2. Safe /\ Safe' /\ LineageInvariant /\ [Next]_vars => LineageInvariant'
  BY LineageStep DEF Safe
<1>3. Spec => []Safe
  BY DecisionIsSafe, SafeIsDecisionInvariant, PTL
<1>4. LineageInvariant => LineageIsAChain
  BY DEF LineageInvariant
<1> QED
  BY <1>1, <1>2, <1>3, <1>4, PTL DEF Spec

-----------------------------------------------------------------------------
(* An open case that no approval holds, whose version is retired.           *)
Dormant(c) == Open(c) /\ Unlocked(c) /\ spec[cases[c].spec].status = "RETIRED"

(* A retired version is in force for nothing.                               *)
LEMMA RetiredIsNotInForce ==
  ASSUME NEW v \in Versions, spec[v].status = "RETIRED"
  PROVE  ~InForce(v)
BY DEF InForce, Preferred, Applicable

(* A retired version is never anything else again.                          *)
LEMMA RetiredForGood ==
  ASSUME TypeOK, [Next]_vars, NEW v \in Versions, spec[v].status = "RETIRED"
  PROVE  spec'[v].status = "RETIRED"
<1>1. ASSUME NEW w \in Versions, ActivateVersion(w) \/ RetireVersion(w)
      PROVE  spec'[v].status = "RETIRED"
  BY <1>1 DEF ActivateVersion, RetireVersion, TypeOK
<1>2. ASSUME NEW w \in Versions, RescheduleVersion(w)
      PROVE  spec'[v].status = "RETIRED"
  <2>1. spec' = [spec EXCEPT ![w] = [spec[w] EXCEPT !.covers = ~spec[w].covers]]
    BY <1>2 DEF RescheduleVersion, TypeOK
  <2>2. [spec[w] EXCEPT !.covers = ~spec[w].covers].status = spec[w].status
    BY DEF TypeOK
  <2> QED
    BY <2>1, <2>2 DEF TypeOK
<1>3. (\A w \in Versions : ~ActivateVersion(w) /\ ~RetireVersion(w) /\ ~RescheduleVersion(w))
        => spec' = spec
  BY DEF Next, vars, CreateInspection, ReadCase, ReadResults, PutInternalResults,
         SubmitInspection, ReturnInspection, BeginApproval, CheckApproval, CommitApproval,
         AbortApproval, ReviseInspection, RetestInspection, Clone, LotConflict
<1> QED
  BY <1>1, <1>2, <1>3

(* No finalization of a dormant case begins, and none is in flight.         *)
LEMMA DormantStaysUnlocked ==
  ASSUME Safe, [Next]_vars, NEW c \in Cases, Dormant(c)
  PROVE  Unlocked(c)'
<1>0. TypeOK /\ cases[c].spec \in Versions /\ Absent # c
  BY CaseAssumption DEF Safe, Dormant, Open, Exists, TypeOK, CaseRow
<1>1. ASSUME NEW l \in Leads, NEW e \in Cases, NEW reason \in BOOLEAN, BeginApproval(l, e, reason)
      PROVE  Unlocked(c)'
  <2>1. c # e
    BY <1>0, <1>1, RetiredIsNotInForce DEF BeginApproval, Dormant
  <2>2. \A k \in Leads : tx'[k].case \in {tx[k].case, e}
    <3> DEFINE t == [case |-> e, final |-> cases[e].candidate,
                     candidate |-> Candidate(supplier[e], internal[e]),
                     seen |-> view[l].internal, checked |-> FALSE]
    <3>1. tx' = [tx EXCEPT ![l] = t] /\ t.case = e
      BY <1>1 DEF BeginApproval
    <3> HIDE DEF t
    <3> QED
      BY <1>0, <3>1 DEF TypeOK
  <2> QED
    BY <2>1, <2>2 DEF Dormant, Unlocked
<1>2. ASSUME NEW l \in Leads, CheckApproval(l)
      PROVE  Unlocked(c)'
  <2>1. tx[l] \in Tx /\ tx' = [tx EXCEPT ![l] = [tx[l] EXCEPT !.checked = TRUE]]
    BY <1>0, <1>2 DEF CheckApproval, TypeOK
  <2>2. [tx[l] EXCEPT !.checked = TRUE].case = tx[l].case
    BY <2>1 DEF Tx
  <2> QED
    BY <1>0, <2>1, <2>2 DEF Dormant, Unlocked, TypeOK
<1>3. ASSUME NEW l \in Leads, CommitApproval(l) \/ AbortApproval(l)
      PROVE  Unlocked(c)'
  <2>1. tx' = [tx EXCEPT ![l] = NoTx] /\ NoTx.case = Absent
    BY <1>3 DEF CommitApproval, AbortApproval, NoTx
  <2> QED
    BY <1>0, <2>1 DEF Dormant, Unlocked, TypeOK
<1>4. (/\ \A l \in Leads : ~CheckApproval(l) /\ ~CommitApproval(l) /\ ~AbortApproval(l)
       /\ \A l \in Leads, e \in Cases, reason \in BOOLEAN : ~BeginApproval(l, e, reason))
        => tx' = tx
  BY DEF Next, vars, CreateInspection, ReadCase, ReadResults, PutInternalResults,
         SubmitInspection, ReturnInspection, ReviseInspection, RetestInspection, Clone,
         ActivateVersion, RetireVersion, RescheduleVersion, LotConflict
<1> QED
  BY <1>1, <1>2, <1>3, <1>4 DEF Dormant, Unlocked

(* A case nobody holds is not finalized by a step.                          *)
LEMMA UnlockedStaysOpen ==
  ASSUME Safe, [Next]_vars, NEW c \in Cases, Open(c), Unlocked(c)
  PROVE  Open(c)'
<1>0. /\ TypeOK /\ Exists(c) /\ Exists(c)' /\ cases[c].final = Absent
      /\ \A d \in Cases : Exists(d) => cases[d] \in CaseRow
  BY PlaceKept DEF Safe, Open, TypeOK, Exists
<1>1. ASSUME NEW e \in Cases, NEW row \in CaseRow, Exists(e),
             cases' = [cases EXCEPT ![e] = row], e = c => row.final = cases[e].final
      PROVE  cases'[c].final = Absent
  BY <1>0, <1>1 DEF TypeOK
<1>2. ASSUME NEW e \in Cases, NEW row, ~Exists(e), cases' = [cases EXCEPT ![e] = row]
      PROVE  cases'[c].final = Absent
  BY <1>0, <1>2 DEF TypeOK
<1>3. ASSUME NEW e \in Cases, NEW v \in Versions, NEW sup \in Evidence, CreateInspection(e, v, sup)
      PROVE  cases'[c].final = Absent
  BY <1>2, <1>3 DEF CreateInspection
<1>4. ASSUME NEW u \in Inspectors, NEW e \in Cases, NEW results \in Evidence,
             PutInternalResults(u, e, results)
      PROVE  cases'[c].final = Absent
  <2> DEFINE row == Evaluated(cases[e], Candidate(supplier[e], results))
  <2>1. cases[e] \in CaseRow /\ row \in CaseRow /\ row.final = cases[e].final /\ Exists(e)
    BY <1>0, <1>4, EvaluatedType, EvaluatedRow, CandidateType DEF PutInternalResults, Open
  <2>2. cases' = [cases EXCEPT ![e] = Touched(row)]
    BY <1>4 DEF PutInternalResults
  <2> HIDE DEF row
  <2>3. Touched(row) \in CaseRow /\ Touched(row).final = row.final
    BY <2>1 DEF Touched, CaseRow
  <2>4. PICK after \in CaseRow : after = Touched(row)
    BY <2>3
  <2> QED
    BY <1>1, <2>1, <2>2, <2>3, <2>4
<1>5. ASSUME NEW u \in Inspectors, NEW e \in Cases, SubmitInspection(u, e)
      PROVE  cases'[c].final = Absent
  <2> DEFINE row == Evaluated(cases[e], Candidate(supplier[e], internal[e]))
             submitted == [row EXCEPT !.status = "LEAD_REVIEW", !.submitter = u,
                                      !.version = row.version + 1]
  <2>1. cases[e] \in CaseRow /\ row \in CaseRow /\ row.final = cases[e].final /\ Exists(e)
    BY <1>0, <1>5, EvaluatedType, EvaluatedRow, CandidateType DEF SubmitInspection, Open
  <2>2. cases' = [cases EXCEPT ![e] = submitted]
    BY <1>5 DEF SubmitInspection
  <2> HIDE DEF row
  <2>3. submitted \in CaseRow
    <3>1. "LEAD_REVIEW" \in Statuses /\ u \in Users /\ row.version + 1 \in Nat
      BY <2>1, RowFields DEF Statuses, Users
    <3> QED
      BY <2>1, <3>1, RowSubmitted
  <2>4. submitted.final = row.final
    BY <2>1 DEF CaseRow
  <2> HIDE DEF submitted
  <2> QED
    BY <1>1, <2>1, <2>2, <2>3, <2>4
<1>6. ASSUME NEW l \in Leads, NEW e \in Cases, ReturnInspection(l, e)
      PROVE  cases'[c].final = Absent
  <2> DEFINE row == [cases[e] EXCEPT !.status = "RETURNED", !.version = cases[e].version + 1]
  <2>1. cases[e] \in CaseRow /\ Exists(e) /\ cases' = [cases EXCEPT ![e] = row]
    BY <1>0, <1>6 DEF ReturnInspection, TypeOK
  <2>2. row \in CaseRow
    <3>1. "RETURNED" \in Statuses /\ cases[e].version + 1 \in Nat
      BY <2>1, RowFields DEF Statuses
    <3> QED
      BY <2>1, <3>1, RowReturned
  <2>3. row.final = cases[e].final
    BY <2>1 DEF CaseRow
  <2> HIDE DEF row
  <2> QED
    BY <1>1, <2>1, <2>2, <2>3
<1>7. ASSUME NEW l \in Leads, CommitApproval(l)
      PROVE  cases'[c].final = Absent
  <2>1. tx[l].case # c /\ tx[l].case \in Cases
    BY <1>7 DEF Unlocked, CommitApproval, TxSafe, Safe
  <2>2. cases'[c] = cases[c]
    BY <1>0, <1>7, <2>1 DEF CommitApproval, TypeOK
  <2> QED
    BY <1>0, <2>2
<1>8. ASSUME NEW u \in Inspectors, NEW p \in Cases, NEW e \in Cases,
             ReviseInspection(u, p, e) \/ RetestInspection(u, p, e)
      PROVE  cases'[c].final = Absent
  <2>1. PICK row \in CaseRow, results \in Evidence : Clone(u, p, e, row, results)
    BY <1>0, <1>8, CloneShape
  <2> QED
    BY <1>2, <2>1 DEF Clone
<1>9. (\/ \E u \in Users, e \in Cases : ReadCase(u, e)
       \/ \E u \in Users : ReadResults(u)
       \/ \E l \in Leads, e \in Cases, reason \in BOOLEAN : BeginApproval(l, e, reason)
       \/ \E l \in Leads : CheckApproval(l) \/ AbortApproval(l)
       \/ \E v \in Versions : ActivateVersion(v) \/ RetireVersion(v) \/ RescheduleVersion(v)
       \/ LotConflict \/ UNCHANGED vars)
        => cases' = cases
  BY DEF vars, ReadCase, ReadResults, BeginApproval, CheckApproval, AbortApproval,
         ActivateVersion, RetireVersion, RescheduleVersion, LotConflict
<1>10. cases'[c].final = Absent
  <2>1. cases' = cases => cases'[c].final = Absent
    BY <1>0
  <2> QED
    BY <1>3, <1>4, <1>5, <1>6, <1>7, <1>8, <1>9, <2>1 DEF Next
<1> QED
  BY <1>0, <1>10 DEF Open

(* A dormant case stays dormant.                                            *)
LEMMA DormantStep ==
  ASSUME NEW c \in Cases
  PROVE  Safe /\ Dormant(c) /\ [Next]_vars => Dormant(c)'
<1> SUFFICES ASSUME Safe, Dormant(c), [Next]_vars PROVE Dormant(c)'
  OBVIOUS
<1>1. Open(c)' /\ Unlocked(c)'
  BY DormantStaysUnlocked, UnlockedStaysOpen DEF Dormant
<1>2. Exists(c) /\ cases[c].spec \in Versions /\ TypeOK
  BY DEF Safe, Dormant, Open, Exists, TypeOK, CaseRow
<1>3. cases'[c].spec = cases[c].spec
  BY <1>2, PlaceKept DEF Place
<1>4. PICK v \in Versions : v = cases[c].spec
  BY <1>2
<1>5. spec'[v].status = "RETIRED"
  BY <1>2, <1>4, RetiredForGood DEF Dormant
<1> QED
  BY <1>1, <1>3, <1>4, <1>5 DEF Dormant

(* Once its version is retired while no approval of it is in flight, a case *)
(* is never finalized.                                                      *)
THEOREM RetiredVersionsDecideNothing == Spec => RetiredSpecDecidesNothing
<1> SUFFICES ASSUME NEW c \in Cases
             PROVE  Spec => [](Open(c) /\ Unlocked(c) /\ spec[cases[c].spec].status = "RETIRED"
                                 => []~Final(c))
  BY DEF RetiredSpecDecidesNothing
<1>1. Open(c) /\ Unlocked(c) /\ spec[cases[c].spec].status = "RETIRED" => Dormant(c)
  BY DEF Dormant
<1>2. Safe /\ Dormant(c) /\ [Next]_vars => Dormant(c)'
  BY DormantStep
<1>3. Dormant(c) => ~Final(c)
  BY DEF Dormant, Open, Final
<1>4. Spec => []Safe
  BY DecisionIsSafe, SafeIsDecisionInvariant, PTL
<1> QED
  BY <1>1, <1>2, <1>3, <1>4, PTL DEF Spec
=============================================================================
