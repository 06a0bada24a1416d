--------------------------- MODULE RecordsProofs ----------------------------
(***************************************************************************)
(* Proofs about the records of the desks: nonconformances, master records  *)
(* and aliases.  The argument of each is that a version names one state of *)
(* a record for good (every write counts it up), so what was read at the   *)
(* version a request names is the record that the request changes.         *)
(***************************************************************************)
EXTENDS Nonconformance, MasterRecords, Aliases, FiniteSetTheorems, TLAPS

-----------------------------------------------------------------------------
(* Nonconformances                                                            *)
-----------------------------------------------------------------------------
(* A shown row was the record once: it is older, or the record as it is.      *)
Shown(row, n) ==
  row # None =>
    /\ ncr[n] # None
    /\ row.version <= ncr[n].version
    /\ row.version = ncr[n].version => row = ncr[n]
ScreensHonest ==
  \A c \in Clerks, n \in Records :
    /\ Shown(copy[c][n], n)
    /\ arriving[c] # None => Shown(arriving[c][n], n)
RecordInvariant == RecordTypeOK /\ ScreensHonest

-----------------------------------------------------------------------------
(* A row is a row, and its version can be counted up to the bound.            *)
LEMMA RowFields ==
  ASSUME NEW row \in Rows
  PROVE  /\ row # None /\ row.version \in 1 .. MaxRecordVersion /\ row.version \in Nat
         /\ row.way \in Ways \cup {None} /\ row.snapshot \in Names \cup {None}
         /\ row.number \in Numbers /\ row.quantity \in Quantities
         /\ row.status \in Statuses /\ row.attached \subseteq Documents
BY RecordAssumption, RecordRowAssumption DEF Rows, RecordAssumption

(* What an update makes of a row is a row of the next version.                *)
LEMMA Rewritten ==
  ASSUME NEW row \in Rows, row.version < MaxRecordVersion, NEW body \in AnyBody, Valid(body),
         NEW snapshot \in Names \cup {None}
  PROVE  [row EXCEPT !.number = body.number, !.quantity = body.quantity, !.way = body.way,
                     !.snapshot = snapshot, !.status = body.status,
                     !.version = row.version + 1] \in Rows
<1>1. body.number \in Numbers /\ body.way \in Ways \cup {None} /\ body.status \in Statuses
  BY DEF AnyBody
<1>2. body.quantity \in Quantities \cap (Nat \ {0})
  <2>1. body.quantity \in Quantities
    BY DEF AnyBody
  <2>2. body.quantity \in Nat
    BY <2>1, RecordAssumption DEF RecordAssumption
  <2> QED
    BY <2>1, <2>2 DEF Valid
<1>3. row.version + 1 \in 1 .. MaxRecordVersion
  BY RowFields, RecordAssumption DEF RecordAssumption
<1> QED
  BY <1>1, <1>2, <1>3 DEF Rows

(* The types of what a screen sends.                                          *)
LEMMA WorkspaceBodyType ==
  ASSUME RecordTypeOK, NEW c \in Clerks, NEW n \in Records, copy[c][n] # None
  PROVE  WorkspaceBody(c, n) \in AnyBody
<1>1. copy[c][n] \in Rows
  BY DEF RecordTypeOK
<1>2. edited[c][n] \in Quantities \cup {None}
  BY DEF RecordTypeOK
<1> QED
  BY <1>1, <1>2, RowFields DEF WorkspaceBody, AnyBody

-----------------------------------------------------------------------------
(* What a step may do to the records: nothing, insert one, or replace one that *)
(* is not approved, by a clerk whose screen has its version, with a row of the *)
(* next version.                                                              *)
Written(n, row) ==
  /\ row \in Rows /\ ncr' = [ncr EXCEPT ![n] = row]
  /\ \/ ncr[n] = None
     \/ /\ ncr[n] # None /\ ~Frozen(n) /\ row.version = ncr[n].version + 1
        /\ \E c \in Clerks : copy[c][n] # None /\ copy[c][n].version = ncr[n].version
RecordStep == ncr' = ncr \/ \E n \in Records, row \in Rows : Written(n, row)

LEMMA UpdateWrites ==
  ASSUME RecordTypeOK, NEW c \in Clerks, NEW n \in Records, ncr[n] # None,
         NEW body \in AnyBody, UpdateNonconformance(c, n, body)
  PROVE  \E row \in Rows : Written(n, row)
<1>1. ncr[n] \in Rows
  BY DEF RecordTypeOK
<1>2. SnapshotAfter(n, body) \in Names \cup {None}
  BY <1>1, RowFields DEF SnapshotAfter, SnapshotOf, RecordTypeOK, AnyBody
<1> DEFINE row == [ncr[n] EXCEPT !.number = body.number, !.quantity = body.quantity,
                     !.way = body.way, !.snapshot = SnapshotAfter(n, body),
                     !.status = body.status, !.version = ncr[n].version + 1]
<1>3. row \in Rows
  BY <1>1, <1>2, Rewritten DEF UpdateNonconformance, MayWrite
<1>4. row.version = ncr[n].version + 1
  BY <1>1 DEF Rows
<1>5. ncr' = [ncr EXCEPT ![n] = row]
  BY DEF UpdateNonconformance
<1> HIDE DEF row
<1> QED
  BY <1>3, <1>4, <1>5 DEF Written, UpdateNonconformance, MayWrite

LEMMA DecisionWrites ==
  ASSUME RecordTypeOK, NEW c \in Clerks, NEW n \in Records, ncr[n] # None,
         NEW action \in {"APPROVE", "REJECT"}, ApproveOrReject(c, n, action)
  PROVE  \E row \in Rows : Written(n, row)
<1>1. ncr[n] \in Rows
  BY DEF RecordTypeOK
<1>2. Outcome(action) \in Statuses
  BY DEF Outcome, Statuses
<1> DEFINE row == [ncr[n] EXCEPT !.status = Outcome(action), !.version = ncr[n].version + 1]
<1>3. row \in Rows
  <2>1. ncr[n].version + 1 \in 1 .. MaxRecordVersion
    BY <1>1, RowFields, RecordAssumption DEF ApproveOrReject, MayWrite, RecordAssumption
  <2> QED
    BY <1>1, <1>2, <2>1 DEF Rows
<1>4. row.version = ncr[n].version + 1
  BY <1>1 DEF Rows
<1>5. ncr' = [ncr EXCEPT ![n] = row]
  BY DEF ApproveOrReject
<1> HIDE DEF row
<1> QED
  BY <1>3, <1>4, <1>5 DEF Written, ApproveOrReject, MayWrite

LEMMA AttachmentWrites ==
  ASSUME RecordTypeOK, NEW c \in Clerks, NEW n \in Records, ncr[n] # None,
         NEW documents \in SUBSET Documents, MayWrite(c, n), ncr' = Attached(n, documents)
  PROVE  \E row \in Rows : Written(n, row)
<1>1. ncr[n] \in Rows
  BY DEF RecordTypeOK
<1> DEFINE row == [ncr[n] EXCEPT !.attached = documents, !.version = ncr[n].version + 1]
<1>3. row \in Rows
  <2>1. ncr[n].version + 1 \in 1 .. MaxRecordVersion
    BY <1>1, RowFields, RecordAssumption DEF MayWrite, RecordAssumption
  <2> QED
    BY <1>1, <2>1 DEF Rows
<1>4. row.version = ncr[n].version + 1
  BY <1>1 DEF Rows
<1>5. ncr' = [ncr EXCEPT ![n] = row]
  BY DEF Attached
<1> HIDE DEF row
<1> QED
  BY <1>3, <1>4, <1>5 DEF Written, MayWrite

(* What a step does to the screens, and the types of everything but the       *)
(* records.                                                                  *)
Screens == [Records -> Rows \cup {None}]
ScreenStep ==
  \A c \in Clerks :
    /\ \/ copy'[c] = copy[c]
       \/ arriving[c] # None /\ copy'[c] = arriving[c]
       \/ copy'[c] = ncr'
    /\ arriving'[c] = arriving[c] \/ arriving'[c] = None \/ arriving'[c] = ncr'
ApprovedDecided == \A n \in Records : ncr[n] # None /\ Frozen(n) => decisions'[n] = decisions[n]
ScreenTypes ==
  /\ copy' \in [Clerks -> Screens] /\ arriving' \in [Clerks -> Screens \cup {None}]
  /\ edited' \in [Clerks -> [Records -> Quantities \cup {None}]]
OtherTypes ==
  /\ \A n \in Records : decisions'[n] \subseteq NcDecisions /\ followUps'[n] \subseteq FollowUps
  /\ called' \in [Ways -> Names]

LEMMA WrittenType ==
  ASSUME RecordTypeOK, RecordStep
  PROVE  ncr' \in Screens
BY DEF RecordTypeOK, RecordStep, Written, Screens

LEMMA NoRowsType ==
  /\ NoRows \in Screens
  /\ NoRows \in [Records -> Quantities \cup {None}]
BY DEF NoRows, Screens

(* A list of the clerk's own, shown after a write.                            *)
LEMMA ShownAfter ==
  ASSUME RecordTypeOK, RecordStep, NEW c \in Clerks, ShowAfter(c), arriving' = arriving
  PROVE  ScreenStep /\ ScreenTypes
<1>1. ncr' \in Screens
  BY WrittenType
<1>2. copy' = [copy EXCEPT ![c] = ncr'] /\ edited' = [edited EXCEPT ![c] = NoRows]
  BY DEF ShowAfter
<1> QED
  BY <1>1, <1>2, NoRowsType DEF ScreenStep, ScreenTypes, RecordTypeOK, Screens

(* Every step writes one record at most, and shows clerks records as they are  *)
(* or were when they were read; and every variable keeps its type.             *)
StepShapes == RecordStep /\ ScreenStep /\ ScreenTypes /\ OtherTypes /\ ApprovedDecided
LEMMA StepShape ==
  ASSUME RecordTypeOK, [NextRecord]_recordVars
  PROVE  StepShapes
<1>0. /\ copy \in [Clerks -> Screens] /\ arriving \in [Clerks -> Screens \cup {None}]
      /\ edited \in [Clerks -> [Records -> Quantities \cup {None}]] /\ ncr \in Screens
      /\ called \in [Ways -> Names]
      /\ \A n \in Records : decisions[n] \subseteq NcDecisions /\ followUps[n] \subseteq FollowUps
  BY DEF RecordTypeOK, Screens
<1>a. copy' = copy /\ arriving' = arriving /\ edited' = edited => ScreenStep /\ ScreenTypes
  BY <1>0 DEF ScreenStep, ScreenTypes
<1>b. decisions' = decisions /\ followUps' = followUps /\ called' = called
        => OtherTypes /\ ApprovedDecided
  BY <1>0 DEF OtherTypes, ApprovedDecided
<1>c. ncr' = ncr => RecordStep
  BY DEF RecordStep
<1>1. ASSUME NEW n \in Records, NEW body \in Bodies, CreateNonconformance(n, body)
      PROVE  StepShapes
  <2> DEFINE row == [number |-> body.number, quantity |-> body.quantity, way |-> body.way,
                     snapshot |-> SnapshotOf(body.way), status |-> body.status,
                     attached |-> {}, version |-> 1]
  <2>1. body \in AnyBody
    BY RecordAssumption DEF RecordAssumption
  <2>2. body.quantity \in Quantities /\ body.quantity \in Nat /\ body.quantity # 0
    <3>1. body.quantity \in Quantities
      BY <2>1 DEF AnyBody
    <3>2. body.quantity \in Nat
      BY <3>1, RecordAssumption DEF RecordAssumption
    <3> QED
      BY <1>1, <3>1, <3>2 DEF CreateNonconformance, Valid
  <2>3. SnapshotOf(body.way) \in Names \cup {None}
    BY <1>0, <2>1 DEF SnapshotOf, AnyBody
  <2>4. 1 \in 1 .. MaxRecordVersion
    BY RecordAssumption DEF RecordAssumption
  <2>5. row \in Rows
    BY <2>1, <2>2, <2>3, <2>4 DEF Rows, AnyBody
  <2>6. ncr' = [ncr EXCEPT ![n] = row] /\ ncr[n] = None
    BY <1>1 DEF CreateNonconformance
  <2> HIDE DEF row
  <2>7. RecordStep
    BY <2>5, <2>6 DEF RecordStep, Written
  <2> QED
    BY <1>1, <2>7, <1>a, <1>b DEF CreateNonconformance, StepShapes
<1>2. ASSUME NEW c \in Clerks, NEW n \in Records, ncr[n] # None, NEW body \in Bodies,
             Put(c, n, body)
      PROVE  StepShapes
  <2>1. body \in AnyBody
    BY RecordAssumption DEF RecordAssumption
  <2>2. RecordStep
    BY <1>2, <2>1, UpdateWrites DEF RecordStep, Put
  <2> QED
    BY <1>2, <2>2, <1>a, <1>b DEF Put, UpdateNonconformance, StepShapes
<1>3. ASSUME NEW c \in Clerks, NEW n \in Records, ncr[n] # None, HandleUpdate(c, n)
      PROVE  StepShapes
  <2>1. WorkspaceBody(c, n) \in AnyBody
    BY <1>3, WorkspaceBodyType DEF HandleUpdate, MayWrite
  <2>2. RecordStep
    BY <1>3, <2>1, UpdateWrites DEF RecordStep, HandleUpdate
  <2>3. ScreenStep /\ ScreenTypes
    BY <1>3, <2>2, ShownAfter DEF HandleUpdate, UpdateNonconformance
  <2> QED
    BY <1>3, <2>2, <2>3, <1>b DEF HandleUpdate, UpdateNonconformance, StepShapes
<1>4. ASSUME NEW c \in Clerks, NEW n \in Records, ncr[n] # None,
             NEW action \in {"APPROVE", "REJECT"}, HandleDecision(c, n, action)
      PROVE  StepShapes
  <2>1. RecordStep
    BY <1>4, DecisionWrites DEF RecordStep, HandleDecision
  <2>2. ScreenStep /\ ScreenTypes
    BY <1>4, <2>1, ShownAfter DEF HandleDecision, ApproveOrReject
  <2>3. ~Frozen(n) /\ followUps' = followUps /\ called' = called
    BY <1>4 DEF HandleDecision, ApproveOrReject, MayWrite
  <2>4. ncr[n].version + 1 \in 1 .. MaxRecordVersion
    <3>1. ncr[n] \in Rows
      BY <1>0, <1>4 DEF Screens
    <3> QED
      BY <1>4, <3>1, RowFields, RecordAssumption
      DEF RecordAssumption, HandleDecision, ApproveOrReject, MayWrite
  <2> DEFINE entry == [role |-> "LEAD", action |-> action, by |-> c,
                       version |-> ncr[n].version + 1]
  <2>5. entry \in NcDecisions
    BY <2>4 DEF NcDecisions
  <2>6. decisions' = [decisions EXCEPT ![n] = @ \cup {entry}]
    BY <1>4 DEF HandleDecision, ApproveOrReject
  <2> HIDE DEF entry
  <2>7. OtherTypes /\ ApprovedDecided
    BY <1>0, <2>3, <2>5, <2>6 DEF OtherTypes, ApprovedDecided
  <2> QED
    BY <2>1, <2>2, <2>7 DEF StepShapes
<1>5. ASSUME NEW c \in Clerks, NEW n \in Records, ncr[n] # None, NEW d \in Documents,
             AddAttachment(c, n, d) \/ DeleteAttachment(c, n, d)
      PROVE  StepShapes
  <2>1. ncr[n] \in Rows
    BY <1>0, <1>5 DEF Screens
  <2>2. ncr[n].attached \subseteq Documents
    BY <2>1, RowFields
  <2>3. PICK documents \in SUBSET Documents : MayWrite(c, n) /\ ncr' = Attached(n, documents)
    BY <1>5, <2>2 DEF AddAttachment, DeleteAttachment
  <2>4. RecordStep
    BY <1>5, <2>3, AttachmentWrites DEF RecordStep
  <2> QED
    BY <1>5, <2>4, <1>a, <1>b DEF AddAttachment, DeleteAttachment, StepShapes
<1>6. ASSUME NEW c \in Clerks, NEW n \in Records, NEW type \in ActionTypes,
             CreateAction(c, n, type)
      PROVE  StepShapes
  <2>1. [type |-> type, role |-> RoleOf(c)] \in FollowUps
    BY <1>6 DEF CreateAction, FollowUps
  <2>2. OtherTypes /\ ApprovedDecided
    BY <1>0, <1>6, <2>1 DEF CreateAction, OtherTypes, ApprovedDecided
  <2> QED
    BY <1>6, <2>2, <1>a, <1>c DEF CreateAction, StepShapes
<1>7. ASSUME NEW c \in Clerks, NEW n \in Records, NEW q \in Quantities, TypeQuantity(c, n, q)
      PROVE  StepShapes
  <2>1. ScreenStep /\ ScreenTypes
    BY <1>0, <1>7 DEF TypeQuantity, ScreenStep, ScreenTypes
  <2> QED
    BY <1>7, <2>1, <1>b, <1>c DEF TypeQuantity, StepShapes
<1>8. ASSUME NEW c \in Clerks, Ask(c)
      PROVE  StepShapes
  <2>1. ScreenStep /\ ScreenTypes
    BY <1>0, <1>8 DEF Ask, ScreenStep, ScreenTypes
  <2> QED
    BY <1>8, <2>1, <1>b, <1>c DEF Ask, StepShapes
<1>9. ASSUME NEW c \in Clerks, Show(c)
      PROVE  StepShapes
  <2>1. arriving[c] \in Screens
    BY <1>0, <1>9 DEF Show
  <2>2. ScreenStep /\ ScreenTypes
    BY <1>0, <1>9, <2>1, NoRowsType DEF Show, ScreenStep, ScreenTypes
  <2> QED
    BY <1>9, <2>2, <1>b, <1>c DEF Show, StepShapes
<1>10. ASSUME NEW w \in Ways, RenameDisposition(w)
       PROVE  StepShapes
  <2>1. OtherTypes /\ ApprovedDecided
    BY <1>0, <1>10 DEF RenameDisposition, OtherTypes, ApprovedDecided, Names
  <2> QED
    BY <1>10, <2>1, <1>a, <1>c DEF RenameDisposition, StepShapes
<1>11. CASE UNCHANGED recordVars
  BY <1>11, <1>a, <1>b, <1>c DEF recordVars, StepShapes
<1> QED
  BY <1>1, <1>2, <1>3, <1>4, <1>5, <1>6, <1>7, <1>8, <1>9, <1>10, <1>11 DEF NextRecord

-----------------------------------------------------------------------------
(* A row that was shown honestly still is after the record moved on.           *)
LEMMA StillShown ==
  ASSUME RecordTypeOK, RecordStep, NEW n \in Records, NEW row \in Rows \cup {None}, Shown(row, n)
  PROVE  row # None => /\ ncr'[n] # None
                       /\ row.version <= ncr'[n].version
                       /\ row.version = ncr'[n].version => row = ncr'[n]
<1>1. CASE ncr'[n] = ncr[n]
  BY <1>1 DEF Shown
<1>2. CASE ncr'[n] # ncr[n]
  <2>1. PICK m \in Records, new \in Rows : Written(m, new)
    BY <1>2 DEF RecordStep
  <2>2. m = n /\ ncr'[n] = new
    BY <1>2, <2>1 DEF Written, RecordTypeOK
  <2>3. CASE ncr[n] = None
    BY <2>3 DEF Shown
  <2>4. CASE ncr[n] # None
    <3>1. ncr[n] \in Rows /\ new.version = ncr[n].version + 1
      BY <2>1, <2>2, <2>4 DEF Written, RecordTypeOK
    <3>2. ncr[n].version \in Nat /\ (row # None => row.version \in Nat) /\ new # None
      BY <3>1, RowFields
    <3> QED
      BY <2>2, <3>1, <3>2 DEF Shown
  <2> QED
    BY <2>3, <2>4
<1> QED
  BY <1>1, <1>2

(* The record itself is shown honestly.                                       *)
LEMMA RecordIsShown ==
  ASSUME ncr' \in Screens, NEW n \in Records
  PROVE  ncr'[n] # None => ncr'[n].version <= ncr'[n].version
BY RowFields DEF Screens

LEMMA ScreensStep ==
  ASSUME RecordTypeOK, ScreensHonest, RecordStep, ScreenStep
  PROVE  ScreensHonest'
<1> SUFFICES ASSUME NEW c \in Clerks, NEW n \in Records
             PROVE  /\ Shown(copy[c][n], n)'
                    /\ arriving'[c] # None => Shown(arriving[c][n], n)'
  BY DEF ScreensHonest
<1>1. copy[c][n] \in Rows \cup {None} /\ (arriving[c] # None => arriving[c][n] \in Rows \cup {None})
  BY DEF RecordTypeOK
<1>2. copy'[c] = copy[c] => Shown(copy[c][n], n)'
  BY <1>1, StillShown DEF ScreensHonest, Shown
<1>3. arriving[c] # None /\ copy'[c] = arriving[c] => Shown(copy[c][n], n)'
  BY <1>1, StillShown DEF ScreensHonest, Shown
<1>4. copy'[c] = ncr' => Shown(copy[c][n], n)'
  BY WrittenType, RecordIsShown DEF Shown
<1>5. arriving'[c] # None /\ arriving'[c] = arriving[c] => Shown(arriving[c][n], n)'
  BY <1>1, StillShown DEF ScreensHonest, Shown
<1>6. arriving'[c] = ncr' => Shown(arriving[c][n], n)'
  BY WrittenType, RecordIsShown DEF Shown
<1> QED
  BY <1>2, <1>3, <1>4, <1>5, <1>6 DEF ScreenStep

LEMMA RecordInit == InitRecord => RecordInvariant
<1> SUFFICES ASSUME InitRecord PROVE RecordInvariant
  OBVIOUS
<1>1. RecordTypeOK
  BY NoRowsType DEF InitRecord, RecordTypeOK, Screens, Names
<1>2. ScreensHonest
  BY DEF InitRecord, ScreensHonest, Shown, NoRows
<1> QED
  BY <1>1, <1>2 DEF RecordInvariant

LEMMA RecordInductive == RecordInvariant /\ [NextRecord]_recordVars => RecordInvariant'
<1> SUFFICES ASSUME RecordInvariant, [NextRecord]_recordVars PROVE RecordInvariant'
  OBVIOUS
<1>1. StepShapes
  BY StepShape DEF RecordInvariant
<1>2. ScreensHonest'
  BY <1>1, ScreensStep DEF RecordInvariant, StepShapes
<1>3. ncr' \in Screens
  BY <1>1, WrittenType DEF RecordInvariant, StepShapes
<1>4. RecordTypeOK'
  BY <1>1, <1>3 DEF StepShapes, ScreenTypes, OtherTypes, RecordTypeOK, Screens
<1> QED
  BY <1>2, <1>4 DEF RecordInvariant

-----------------------------------------------------------------------------
(* The inductive invariant of nonconformances: types, and screens that show    *)
(* every record as it is or as it was in an earlier version, for any numbers   *)
(* of records, clerks, documents and versions.                                *)
THEOREM RecordsAreShown == RecordSpec => []RecordInvariant
BY RecordInit, RecordInductive, PTL DEF RecordSpec

(* Every variable of the nonconformances keeps its type.                      *)
THEOREM RecordTypes == RecordSpec => []RecordTypeOK
BY RecordsAreShown, PTL DEF RecordInvariant

(* A step that changes a record was made by a clerk whose screen showed it,    *)
(* and no step changes an approved one or the decisions about it.             *)
LEMMA ChangeWasSeen ==
  ASSUME RecordInvariant, [NextRecord]_recordVars, NEW n \in Records, ncr[n] # None
  PROVE  /\ ncr'[n] # ncr[n] => \E c \in Clerks : copy[c][n] = ncr[n]
         /\ ncr[n].status = "APPROVED" => ncr'[n] = ncr[n] /\ decisions'[n] = decisions[n]
<1>1. StepShapes /\ RecordTypeOK
  BY StepShape DEF RecordInvariant
<1>2. ncr'[n] # ncr[n] => \E row \in Rows : Written(n, row)
  BY <1>1 DEF StepShapes, RecordStep, Written, RecordTypeOK
<1>3. ncr'[n] # ncr[n] => ~Frozen(n) /\ \E c \in Clerks : copy[c][n] # None /\ copy[c][n].version = ncr[n].version
  BY <1>2 DEF Written
<1>4. \A c \in Clerks : copy[c][n] # None /\ copy[c][n].version = ncr[n].version => copy[c][n] = ncr[n]
  BY DEF RecordInvariant, ScreensHonest, Shown
<1>5. ncr[n].status = "APPROVED" => decisions'[n] = decisions[n]
  BY <1>1 DEF StepShapes, ApprovedDecided, Frozen
<1> QED
  BY <1>3, <1>4, <1>5 DEF Frozen

(* Approved is the end: no later request changes an approved record or what    *)
(* was decided about it.                                                      *)
THEOREM ApprovedIsFinal == RecordSpec => ApprovedRecordStays
<1>1. RecordInvariant /\ [NextRecord]_recordVars =>
        [\A n \in Records : ncr[n] # None /\ ncr[n].status = "APPROVED" =>
           ncr'[n] = ncr[n] /\ decisions'[n] = decisions[n]]_recordVars
  BY ChangeWasSeen
<1> QED
  BY <1>1, RecordsAreShown, PTL DEF RecordSpec, ApprovedRecordStays

(* A record is only changed by a clerk whose screen showed it as it was.       *)
THEOREM ChangesWereSeen == RecordSpec => NothingUnseenIsLost
<1>1. RecordInvariant /\ [NextRecord]_recordVars =>
        [\A n \in Records : ncr[n] # None /\ ncr'[n] # ncr[n] =>
           \E c \in Clerks : copy[c][n] = ncr[n]]_recordVars
  BY ChangeWasSeen
<1> QED
  BY <1>1, RecordsAreShown, PTL DEF RecordSpec, NothingUnseenIsLost

-----------------------------------------------------------------------------
(* Master records                                                             *)
-----------------------------------------------------------------------------
(* What an editor read of a record was the record: it is older, or the record *)
(* as it is.                                                                 *)
SeenMaster == [id : Nat, version : Nat, code : Codes \cup {None}, name : RecordNames]
SeenHonest(e) ==
  shown[e] # None =>
    /\ shown[e].id \in DOMAIN masters
    /\ shown[e].version <= masters[shown[e].id].version
    /\ shown[e].version = masters[shown[e].id].version =>
         shown[e].code = masters[shown[e].id].code /\ shown[e].name = masters[shown[e].id].name

Executed(b) == batch[b] # None /\ batch[b].state # "PREVIEWED"
Owns(b, i) == \E n \in DOMAIN batch[b].rows : batch[b].rows[n].target = i

(* The rows of a preview point nowhere and would make named records; those of *)
(* an executed batch point at records of its entity, each at its own.         *)
PlanSound(b) ==
  batch[b] # None =>
    \A n \in DOMAIN batch[b].rows :
      /\ batch[b].rows[n].action = "CREATE" => batch[b].rows[n].name # Blank
      /\ batch[b].state = "PREVIEWED" => batch[b].rows[n].target = None
      /\ batch[b].state # "PREVIEWED" =>
           /\ batch[b].rows[n].action = "CREATE"
           /\ batch[b].rows[n].target \in DOMAIN masters
           /\ masters[batch[b].rows[n].target].entity = batch[b].entity
           /\ \A m \in DOMAIN batch[b].rows :
                m # n => batch[b].rows[m].target # batch[b].rows[n].target
OwnedOnce ==
  \A a, b \in Batches : Executed(a) /\ Executed(b) /\ a # b =>
    \A i \in DOMAIN masters : ~(Owns(a, i) /\ Owns(b, i))
DeletedByRevert ==
  \A i \in DOMAIN masters :
    masters[i].deleted <=> \E b \in Batches : batch[b] # None /\ batch[b].state = "REVERTED" /\ Owns(b, i)

(* The inductive invariant of the master data and their import.               *)
MasterInvariant ==
  /\ masters \in Seq(Master) /\ Len(masters) <= MaxMasters
  /\ batch \in [Batches -> MasterBatch \cup {None}]
  /\ shown \in [Editors -> SeenMaster \cup {None}]
  /\ database \in Databases
  /\ \A i \in DOMAIN masters : masters[i].name # Blank
  /\ \A e \in Editors : SeenHonest(e)
  /\ \A b \in Batches : PlanSound(b)
  /\ OwnedOnce
  /\ DeletedByRevert

(* A record is a record, and its version a number.                            *)
LEMMA MasterFields ==
  ASSUME NEW row \in Master
  PROVE  /\ row.entity \in Entities /\ row.code \in Codes \cup {None} /\ row.name \in RecordNames
         /\ row.version \in 1 .. MaxMasterVersion /\ row.version \in Nat
         /\ row.deleted \in BOOLEAN /\ row.parent \in Ids \cup {None}
BY MasterAssumption DEF Master

(* Records that stay or change in a later version, without a change of their  *)
(* entity: what an editor saw stays honest, and batches keep their records.   *)
LEMMA MastersGrow ==
  ASSUME MasterInvariant,
         masters' \in Seq(Master), Len(masters) <= Len(masters'),
         shown' = shown,
         \A i \in DOMAIN masters :
           /\ masters'[i].entity = masters[i].entity
           /\ masters'[i] = masters[i] \/ masters'[i].version > masters[i].version
  PROVE  /\ DOMAIN masters \subseteq DOMAIN masters'
         /\ \A e \in Editors : SeenHonest(e)'
         /\ \A b \in Batches : batch'[b] = batch[b] => PlanSound(b)'
<1> USE DEF MasterInvariant
<1>1. DOMAIN masters = 1 .. Len(masters) /\ DOMAIN masters' = 1 .. Len(masters')
  OBVIOUS
<1>2. DOMAIN masters \subseteq DOMAIN masters'
  BY <1>1
<1>3. \A i \in DOMAIN masters : masters[i] \in Master /\ masters'[i] \in Master
  BY <1>2
<1>4. ASSUME NEW e \in Editors
      PROVE  SeenHonest(e)'
  <2> SUFFICES ASSUME shown[e] # None
               PROVE  SeenHonest(e)'
    BY DEF SeenHonest
  <2>1. PICK i \in DOMAIN masters : i = shown[e].id
    BY DEF SeenHonest
  <2>2. masters[i].version \in Nat /\ masters'[i].version \in Nat /\ shown[e].version \in Nat
    <3>1. shown[e] \in SeenMaster
      OBVIOUS
    <3> QED
      BY <1>3, <3>1, MasterFields DEF SeenMaster
  <2>3. /\ shown[e].version <= masters[i].version
        /\ shown[e].version = masters[i].version =>
             shown[e].code = masters[i].code /\ shown[e].name = masters[i].name
    BY <2>1 DEF SeenHonest
  <2>4. /\ shown[e].version <= masters'[i].version
        /\ shown[e].version = masters'[i].version =>
             shown[e].code = masters'[i].code /\ shown[e].name = masters'[i].name
    BY <2>2, <2>3
  <2> QED
    BY <1>2, <2>1, <2>4 DEF SeenHonest
<1>5. ASSUME NEW b \in Batches, batch'[b] = batch[b]
      PROVE  PlanSound(b)'
  BY <1>2, <1>5 DEF PlanSound
<1> QED
  BY <1>2, <1>4, <1>5

(* What the rows of a sheet hold.                                            *)
LEMMA SheetRows ==
  ASSUME NEW sheet \in Seq([code : Codes \cup {None}, name : RecordNames]),
         NEW n \in 1 .. Len(sheet)
  PROVE  sheet[n].code \in Codes \cup {None} /\ sheet[n].name \in RecordNames
<1> DEFINE rows == [code : Codes \cup {None}, name : RecordNames]
<1>1. \A row \in rows : row.code \in Codes \cup {None} /\ row.name \in RecordNames
  OBVIOUS
<1> HIDE DEF rows
<1>2. sheet[n] \in rows
  <2>1. sheet \in Seq(rows)
    BY DEF rows
  <2> QED
    BY <2>1
<1> QED
  BY <1>1, <1>2

(* Two lists of records, one after the other.                                 *)
LEMMA RecordsJoined ==
  ASSUME NEW S, NEW s \in Seq(S), NEW t \in Seq(S)
  PROVE  /\ s \o t \in Seq(S) /\ Len(s \o t) = Len(s) + Len(t)
         /\ DOMAIN (s \o t) = 1 .. Len(s) + Len(t)
         /\ \A i \in 1 .. Len(s) : (s \o t)[i] = s[i]
         /\ \A i \in 1 .. Len(t) : (s \o t)[Len(s) + i] = t[i]
OBVIOUS

(* No operation breaks the invariant of the master data.                      *)
LEMMA MasterStep == MasterInvariant /\ [NextMaster]_masterVars => MasterInvariant'
<1> SUFFICES ASSUME MasterInvariant, [NextMaster]_masterVars PROVE MasterInvariant'
  OBVIOUS
<1> USE DEF MasterInvariant
<1>0. /\ DOMAIN masters = 1 .. Len(masters) /\ Len(masters) \in Nat
      /\ \A i \in DOMAIN masters : masters[i] \in Master /\ masters[i].version \in Nat
      /\ \A b \in Batches : batch[b] # None => batch[b] \in MasterBatch
  <2>1. \A i \in DOMAIN masters : masters[i] \in Master
    OBVIOUS
  <2> QED
    BY <2>1, MasterFields
<1>1. ASSUME NEW entity \in Entities, NEW code \in Codes \cup {None}, NEW name \in RecordNames,
             NEW parent \in Parents(entity), CreateMaster(entity, code, name, parent)
      PROVE  MasterInvariant'
  <2> DEFINE row == NewMaster(entity, code, name, parent)
  <2>1. parent \in Ids \cup {None}
    BY <1>0, MasterAssumption DEF Parents, Ids
  <2>2. row \in Master /\ row.name # Blank /\ row.deleted = FALSE
    BY <1>1, <2>1, MasterAssumption DEF NewMaster, Master, CreateMaster
  <2>3. masters' = Append(masters, row) /\ batch' = batch /\ shown' = shown
        /\ database' = database /\ Len(masters) < MaxMasters
    BY <1>1 DEF CreateMaster
  <2> HIDE DEF row
  <2>4. /\ masters' \in Seq(Master) /\ Len(masters') = Len(masters) + 1
        /\ Len(masters') <= MaxMasters
        /\ \A i \in DOMAIN masters : masters'[i] = masters[i]
        /\ masters'[Len(masters) + 1] = row
        /\ DOMAIN masters' = DOMAIN masters \cup {Len(masters) + 1}
        /\ Len(masters) + 1 \notin DOMAIN masters
    BY <1>0, <2>2, <2>3, MasterAssumption
  <2>5. /\ \A e \in Editors : SeenHonest(e)'
        /\ \A b \in Batches : PlanSound(b)'
    BY <1>0, <2>3, <2>4, MastersGrow
  <2>6. \A b \in Batches : Executed(b) => ~Owns(b, Len(masters) + 1)
    BY <2>4 DEF Executed, Owns, PlanSound
  <2>7. OwnedOnce'
    BY <2>3, <2>4, <2>6 DEF OwnedOnce, Executed, Owns
  <2>8. DeletedByRevert'
    BY <2>2, <2>3, <2>4, <2>6 DEF DeletedByRevert, Executed, Owns
  <2>9. \A i \in DOMAIN masters' : masters'[i].name # Blank
    BY <2>2, <2>4
  <2> QED
    BY <2>3, <2>4, <2>5, <2>7, <2>8, <2>9
<1>2. ASSUME NEW e \in Editors, NEW i \in DOMAIN masters, ReadMaster(e, i)
      PROVE  MasterInvariant'
  <2> DEFINE read == [id |-> i, version |-> masters[i].version,
                      code |-> masters[i].code, name |-> masters[i].name]
  <2>1. read \in SeenMaster
    BY <1>0, MasterFields DEF SeenMaster
  <2>2. shown' = [shown EXCEPT ![e] = read] /\ UNCHANGED <<masters, batch, database>>
    BY <1>2 DEF ReadMaster
  <2>3. read.id = i /\ read.version = masters[i].version /\ read.code = masters[i].code
        /\ read.name = masters[i].name /\ masters[i].version \in Nat
    BY <1>0
  <2> HIDE DEF read
  <2>4. \A d \in Editors : SeenHonest(d)'
    BY <2>2, <2>3 DEF SeenHonest
  <2>5. \A b \in Batches : PlanSound(b)'
    BY <2>2 DEF PlanSound
  <2>6. OwnedOnce' /\ DeletedByRevert'
    BY <2>2 DEF OwnedOnce, DeletedByRevert, Executed, Owns
  <2> QED
    BY <2>1, <2>2, <2>4, <2>5, <2>6
<1>3. ASSUME NEW e \in Editors, NEW code \in Codes \cup {None}, NEW name \in RecordNames,
             UpdateMaster(e, code, name)
      PROVE  MasterInvariant'
  <2>1. PICK i \in DOMAIN masters : i = shown[e].id
    BY <1>3 DEF UpdateMaster, SeenHonest
  <2> DEFINE row == [masters[i] EXCEPT !.code = code, !.name = name,
                                       !.version = masters[i].version + 1]
  <2>2. masters' = [masters EXCEPT ![i] = row] /\ batch' = batch /\ shown' = shown
        /\ database' = database /\ name # Blank /\ masters[i].version < MaxMasterVersion
    BY <1>3, <2>1 DEF UpdateMaster
  <2>3. row \in Master /\ row.name # Blank /\ row.version > masters[i].version
        /\ row.entity = masters[i].entity /\ row.deleted = masters[i].deleted
    <3>1. masters[i].version + 1 \in 1 .. MaxMasterVersion /\ masters[i].version \in Nat
      BY <1>0, <2>2, MasterAssumption
    <3>2. masters[i] \in Master
      BY <1>0
    <3>3. row \in Master
      BY <3>1, <3>2 DEF Master
    <3>4. row.version = masters[i].version + 1 /\ row.entity = masters[i].entity
          /\ row.deleted = masters[i].deleted /\ row.name = name
      BY <3>2 DEF Master
    <3> QED
      BY <2>2, <3>1, <3>3, <3>4
  <2> HIDE DEF row
  <2>4. /\ masters' \in Seq(Master) /\ Len(masters') = Len(masters)
        /\ DOMAIN masters' = DOMAIN masters
        /\ \A j \in DOMAIN masters : masters'[j] = IF j = i THEN row ELSE masters[j]
    BY <2>2, <2>3
  <2>5. /\ \A d \in Editors : SeenHonest(d)'
        /\ \A b \in Batches : PlanSound(b)'
    BY <1>0, <2>2, <2>3, <2>4, MastersGrow
  <2>6. OwnedOnce' /\ DeletedByRevert'
    BY <2>2, <2>3, <2>4 DEF OwnedOnce, DeletedByRevert, Executed, Owns
  <2>7. \A j \in DOMAIN masters' : masters'[j].name # Blank
    BY <2>3, <2>4
  <2> QED
    BY <2>2, <2>4, <2>5, <2>6, <2>7
<1>4. ASSUME NEW b \in Batches, NEW row \in MasterBatch,
             batch' = [batch EXCEPT ![b] = row], UNCHANGED <<masters, shown, database>>,
             \/ batch[b] = None /\ row.state = "PREVIEWED"
             \/ batch[b] # None /\ row.state = batch[b].state /\ row.rows = batch[b].rows
                /\ row.entity = batch[b].entity,
             batch[b] = None => \A n \in DOMAIN row.rows :
               row.rows[n].target = None /\ (row.rows[n].action = "CREATE" => row.rows[n].name # Blank)
      PROVE  MasterInvariant'
  <2>1. /\ batch' \in [Batches -> MasterBatch \cup {None}] /\ batch'[b] = row
        /\ \A a \in Batches : a # b => batch'[a] = batch[a]
    BY <1>4
  <2>2. row # None
    BY MasterBatchAssumption
  <2>3. \A a \in Batches : PlanSound(a)'
    <3> SUFFICES ASSUME NEW a \in Batches PROVE PlanSound(a)'
      OBVIOUS
    <3>1. CASE a # b
      BY <1>4, <2>1, <3>1 DEF PlanSound
    <3>2. CASE a = b /\ batch[b] = None
      BY <1>4, <2>1, <3>2 DEF PlanSound
    <3>3. CASE a = b /\ batch[b] # None
      BY <1>4, <2>1, <3>3 DEF PlanSound
    <3> QED
      BY <3>1, <3>2, <3>3
  <2>4. \A a \in Batches : Executed(a)' <=> Executed(a)
    BY <1>4, <2>1, <2>2 DEF Executed
  <2>5. \A a \in Batches, i \in DOMAIN masters : Executed(a) => (Owns(a, i)' <=> Owns(a, i))
    BY <1>4, <2>1 DEF Executed, Owns
  <2>6. OwnedOnce'
    BY <1>4, <2>4, <2>5 DEF OwnedOnce
  <2>7. \A a \in Batches : (batch'[a] # None /\ batch'[a].state = "REVERTED")
                            <=> (batch[a] # None /\ batch[a].state = "REVERTED")
    BY <1>4, <2>1, <2>2
  <2>8. DeletedByRevert'
    BY <1>4, <2>5, <2>7 DEF DeletedByRevert, Executed
  <2>9. \A d \in Editors : SeenHonest(d)'
    BY <1>4 DEF SeenHonest
  <2> QED
    BY <1>4, <2>1, <2>3, <2>6, <2>8, <2>9
<1>5. ASSUME NEW b \in Batches, NEW entity \in Entities, NEW sheet \in Sheets,
             PreviewImport(b, entity, sheet)
      PROVE  MasterInvariant'
  <2> DEFINE row == [entity |-> entity, state |-> "PREVIEWED", answer |-> "ok",
                     rows |-> PlanOf(sheet)]
  <2>1. sheet \in Seq([code : Codes \cup {None}, name : RecordNames])
    BY MasterAssumption
  <2>2. PlanOf(sheet) \in Seq(PlannedRow)
    <3> DEFINE new(n) == [action |-> IF Creatable(sheet, n) THEN "CREATE" ELSE "REJECT",
                          code |-> sheet[n].code, name |-> sheet[n].name, target |-> None]
    <3>1. DOMAIN sheet = 1 .. Len(sheet) /\ Len(sheet) \in Nat
      BY <2>1
    <3>2. \A n \in 1 .. Len(sheet) :
            sheet[n].code \in Codes \cup {None} /\ sheet[n].name \in RecordNames
      BY <2>1, SheetRows
    <3>3. \A n \in 1 .. Len(sheet) : new(n) \in PlannedRow
      BY <3>2 DEF PlannedRow
    <3>4. PlanOf(sheet) = [n \in 1 .. Len(sheet) |-> new(n)]
      BY <3>1 DEF PlanOf
    <3> HIDE DEF new
    <3> QED
      BY <3>1, <3>3, <3>4
  <2>3. row \in MasterBatch
    BY <2>2 DEF MasterBatch
  <2>4. \A n \in DOMAIN PlanOf(sheet) :
          /\ PlanOf(sheet)[n].target = None
          /\ PlanOf(sheet)[n].action = "CREATE" => PlanOf(sheet)[n].name # Blank
    BY DEF PlanOf, Creatable
  <2>5. row.rows = PlanOf(sheet) /\ row.state = "PREVIEWED"
    OBVIOUS
  <2>6. batch[b] = None /\ batch' = [batch EXCEPT ![b] = row] /\ UNCHANGED <<masters, shown, database>>
    BY <1>5 DEF PreviewImport
  <2> HIDE DEF row
  <2> QED
    BY <1>4, <2>3, <2>4, <2>5, <2>6
<1>6. ASSUME NEW b \in Batches, NEW answer \in {"ok", "conflict", "server error"},
             batch[b] # None, batch' = [batch EXCEPT ![b].answer = answer],
             UNCHANGED <<masters, shown, database>>
      PROVE  MasterInvariant'
  <2> DEFINE row == [batch[b] EXCEPT !.answer = answer]
  <2>1. batch[b] \in MasterBatch
    BY <1>0, <1>6
  <2>2. row \in MasterBatch /\ row.state = batch[b].state /\ row.rows = batch[b].rows
        /\ row.entity = batch[b].entity
    BY <2>1 DEF MasterBatch
  <2>3. batch' = [batch EXCEPT ![b] = row]
    BY <1>6
  <2> HIDE DEF row
  <2> QED
    BY <1>4, <1>6, <2>2, <2>3
<1>7. ASSUME NEW b \in Batches, ApplyImport(b), Appliable(b), Insertable(b)
      PROVE  MasterInvariant'
  <2> DEFINE row == [batch[b] EXCEPT !.state = "APPLIED", !.answer = "ok", !.rows = Targeted(b)]
             old == batch[b].rows
  <2>0. PICK n0 \in Nat : n0 = Len(masters) /\ DOMAIN masters = 1 .. n0
    BY <1>0
  <2>1. batch[b] # None /\ batch[b] \in MasterBatch /\ old \in Seq(PlannedRow)
        /\ batch[b].entity \in Entities
    BY <1>0, <1>7 DEF ApplyImport, MasterBatch
  <2>2. batch[b].state = "PREVIEWED"
        /\ \A n \in DOMAIN old : old[n] \in PlannedRow /\ old[n].action = "CREATE"
                                 /\ old[n].name # Blank
    <3>1. \A n \in DOMAIN old : old[n] \in PlannedRow
      BY <2>1
    <3>2. batch[b].state = "PREVIEWED" /\ \A n \in DOMAIN old : old[n].action # "REJECT"
      BY <1>7 DEF Appliable, Rejected, RowsOf
    <3> QED
      BY <2>1, <3>1, <3>2 DEF PlannedRow, PlanSound
  <2>3. DOMAIN old = 1 .. Len(old) /\ Len(old) \in Nat
    BY <2>1
  <2>4. /\ masters' = masters \o Made(b) /\ batch' = [batch EXCEPT ![b] = row]
        /\ n0 + Len(old) <= MaxMasters /\ shown' = shown /\ database' = database
    BY <1>7, <2>0 DEF ApplyImport, RowsOf
  <2>5. /\ Made(b) \in Seq(Master) /\ Len(Made(b)) = Len(old) /\ DOMAIN Made(b) = 1 .. Len(old)
        /\ \A n \in 1 .. Len(old) : /\ Made(b)[n].entity = batch[b].entity
                                    /\ Made(b)[n].name # Blank /\ Made(b)[n].deleted = FALSE
    <3>1. \A n \in 1 .. Len(old) :
            /\ NewMaster(batch[b].entity, old[n].code, old[n].name, None) \in Master
            /\ NewMaster(batch[b].entity, old[n].code, old[n].name, None).entity = batch[b].entity
            /\ NewMaster(batch[b].entity, old[n].code, old[n].name, None).name # Blank
            /\ NewMaster(batch[b].entity, old[n].code, old[n].name, None).deleted = FALSE
      BY <2>1, <2>2, <2>3, MasterAssumption DEF NewMaster, Master, PlannedRow
    <3> DEFINE new(n) == NewMaster(batch[b].entity, old[n].code, old[n].name, None)
    <3>2. Made(b) = [n \in 1 .. Len(old) |-> new(n)]
      BY <2>3 DEF Made, RowsOf
    <3> HIDE DEF new
    <3>3. \A n \in 1 .. Len(old) : new(n) \in Master
      BY <3>1 DEF new
    <3>4. Made(b) \in Seq(Master) /\ Len(Made(b)) = Len(old) /\ DOMAIN Made(b) = 1 .. Len(old)
      BY <2>3, <3>2, <3>3
    <3>5. \A n \in 1 .. Len(old) : Made(b)[n] = new(n)
      BY <3>2
    <3> QED
      BY <3>1, <3>4, <3>5 DEF new
  <2>6. /\ masters' \in Seq(Master) /\ Len(masters') = n0 + Len(old)
        /\ DOMAIN masters' = 1 .. n0 + Len(old)
        /\ \A i \in 1 .. n0 : masters'[i] = masters[i]
        /\ \A n \in 1 .. Len(old) : masters'[n0 + n] = Made(b)[n]
    <3>1. masters \in Seq(Master) /\ Made(b) \in Seq(Master) /\ Len(Made(b)) = Len(old)
      BY <2>5
    <3>2. PICK made \in Seq(Master) : made = Made(b)
      BY <3>1
    <3> HIDE DEF MasterInvariant
    <3>3. /\ masters \o made \in Seq(Master) /\ Len(masters \o made) = Len(masters) + Len(made)
          /\ DOMAIN (masters \o made) = 1 .. Len(masters) + Len(made)
          /\ \A i \in 1 .. Len(masters) : (masters \o made)[i] = masters[i]
          /\ \A i \in 1 .. Len(made) : (masters \o made)[Len(masters) + i] = made[i]
      BY <3>1, RecordsJoined
    <3> QED
      BY <2>0, <2>4, <3>1, <3>2, <3>3
  <2>7. /\ DOMAIN Targeted(b) = 1 .. Len(old)
        /\ Targeted(b) \in Seq(PlannedRow)
        /\ \A n \in 1 .. Len(old) : /\ Targeted(b)[n].action = "CREATE"
                                    /\ Targeted(b)[n].name # Blank
                                    /\ Targeted(b)[n].target = n0 + n
    <3>1. \A n \in 1 .. Len(old) : n0 + n \in Ids
      BY <2>0, <2>3, <2>4, MasterAssumption DEF Ids
    <3>2. \A n \in 1 .. Len(old) :
            /\ [old[n] EXCEPT !.target = n0 + n] \in PlannedRow
            /\ [old[n] EXCEPT !.target = n0 + n].action = "CREATE"
            /\ [old[n] EXCEPT !.target = n0 + n].name # Blank
            /\ [old[n] EXCEPT !.target = n0 + n].target = n0 + n
      BY <2>2, <2>3, <3>1 DEF PlannedRow
    <3> DEFINE new(n) == [old[n] EXCEPT !.target = n0 + n]
    <3>3. Targeted(b) = [n \in 1 .. Len(old) |-> new(n)]
      BY <2>0, <2>3 DEF Targeted, RowsOf
    <3>4. \A n \in 1 .. Len(old) : new(n) \in PlannedRow
      BY <3>2
    <3>5. \A n \in 1 .. Len(old) : new(n).action = "CREATE" /\ new(n).name # Blank
                                   /\ new(n).target = n0 + n
      BY <3>2
    <3> HIDE DEF new
    <3> QED
      BY <2>0, <2>3, <3>3, <3>4, <3>5
  <2>8. row \in MasterBatch /\ row.state = "APPLIED" /\ row.rows = Targeted(b)
        /\ row.entity = batch[b].entity
    BY <2>1, <2>7 DEF MasterBatch
  <2>9. row # None
    BY <2>8, MasterBatchAssumption
  <2> HIDE DEF row
  <2>10. /\ batch' \in [Batches -> MasterBatch \cup {None}] /\ batch'[b] = row
         /\ \A a \in Batches : a # b => batch'[a] = batch[a]
    BY <2>4, <2>8
  <2>11. DOMAIN masters \subseteq DOMAIN masters'
    BY <2>0, <2>3, <2>6
  <2>12. /\ \A d \in Editors : SeenHonest(d)'
         /\ \A a \in Batches : a # b => PlanSound(a)'
    <3>1. Len(masters) <= Len(masters')
      BY <2>0, <2>3, <2>6
    <3> QED
      BY <2>0, <2>4, <2>6, <2>10, <3>1, MastersGrow
  <2>13. \A n \in 1 .. Len(old) :
           /\ n0 + n \in DOMAIN masters' /\ n0 + n \notin DOMAIN masters
           /\ masters'[n0 + n].entity = batch[b].entity
           /\ masters'[n0 + n].name # Blank /\ masters'[n0 + n].deleted = FALSE
    <3> SUFFICES ASSUME NEW n \in 1 .. Len(old)
                 PROVE  /\ n0 + n \in DOMAIN masters' /\ n0 + n \notin DOMAIN masters
                        /\ masters'[n0 + n].entity = batch[b].entity
                        /\ masters'[n0 + n].name # Blank /\ masters'[n0 + n].deleted = FALSE
      OBVIOUS
    <3>1. n0 + n \in 1 .. n0 + Len(old) /\ n0 + n \notin 1 .. n0
      BY <2>3
    <3>2. masters'[n0 + n] = Made(b)[n]
      BY <2>6
    <3> QED
      BY <2>0, <2>5, <2>6, <3>1, <3>2
  <2>14. PlanSound(b)'
    <3>1. \A m, n \in 1 .. Len(old) : m # n => n0 + m # n0 + n
      BY <2>3
    <3>2. batch'[b].rows = Targeted(b) /\ batch'[b].state = "APPLIED"
          /\ batch'[b].entity = batch[b].entity
      BY <2>8, <2>10
    <3>3. \A n \in 1 .. Len(old) :
            /\ Targeted(b)[n].action = "CREATE" /\ Targeted(b)[n].name # Blank
            /\ Targeted(b)[n].target \in DOMAIN masters'
            /\ masters'[Targeted(b)[n].target].entity = batch[b].entity
            /\ \A m \in 1 .. Len(old) : m # n => Targeted(b)[m].target # Targeted(b)[n].target
      BY <2>7, <2>13, <3>1
    <3> QED
      BY <2>7, <3>2, <3>3 DEF PlanSound
  <2>15. \A i \in DOMAIN masters' \ DOMAIN masters :
           masters'[i].name # Blank /\ masters'[i].deleted = FALSE
    <3> SUFFICES ASSUME NEW i \in DOMAIN masters', i \notin DOMAIN masters
                 PROVE  masters'[i].name # Blank /\ masters'[i].deleted = FALSE
      OBVIOUS
    <3>1. PICK n \in 1 .. Len(old) : i = n0 + n
      <4>1. i \in n0 + 1 .. n0 + Len(old)
        BY <2>0, <2>3, <2>6
      <4>2. i - n0 \in 1 .. Len(old) /\ i = n0 + (i - n0)
        BY <2>3, <4>1
      <4> QED
        BY <4>2
    <3> QED
      BY <2>13, <3>1
  <2>16. \A i \in DOMAIN masters' : masters'[i].name # Blank
    <3>1. \A i \in DOMAIN masters : masters'[i].name # Blank
      BY <2>0, <2>6
    <3> QED
      BY <2>15, <3>1
  <2>17. ~Executed(b) /\ \A i : Owns(b, i)' => i \notin DOMAIN masters
    <3>1. batch'[b].rows = Targeted(b)
      BY <2>8, <2>10
    <3>2. \A i : Owns(b, i)' => \E n \in 1 .. Len(old) : i = n0 + n
      BY <2>7, <3>1 DEF Owns
    <3> QED
      BY <2>2, <2>13, <3>2 DEF Executed
  <2>18. \A a \in Batches : a # b => /\ Executed(a)' <=> Executed(a)
                                     /\ \A i : Owns(a, i)' <=> Owns(a, i)
    BY <2>10 DEF Executed, Owns
  <2>19. \A a \in Batches : Executed(a) => \A i : Owns(a, i) => i \in DOMAIN masters
    BY DEF Executed, Owns, PlanSound
  <2>20. OwnedOnce'
    <3> SUFFICES ASSUME NEW a \in Batches, NEW c \in Batches, Executed(a)', Executed(c)', a # c,
                        NEW i \in DOMAIN masters', Owns(a, i)', Owns(c, i)'
                 PROVE  FALSE
      BY DEF OwnedOnce
    <3>1. CASE a = b
      BY <2>17, <2>18, <2>19, <3>1
    <3>2. CASE c = b
      BY <2>17, <2>18, <2>19, <3>2
    <3>3. CASE a # b /\ c # b
      BY <2>18, <2>19, <3>3 DEF OwnedOnce
    <3> QED
      BY <3>1, <3>2, <3>3
  <2>21. DeletedByRevert'
    <3>1. batch'[b].state # "REVERTED" /\ batch[b].state # "REVERTED"
      BY <2>2, <2>8, <2>10
    <3>2. \A a \in Batches : (batch'[a] # None /\ batch'[a].state = "REVERTED")
            <=> (batch[a] # None /\ batch[a].state = "REVERTED")
      BY <2>10, <3>1
    <3>3. ASSUME NEW i \in DOMAIN masters', i \notin DOMAIN masters
          PROVE  ~\E a \in Batches : batch'[a] # None /\ batch'[a].state = "REVERTED" /\ Owns(a, i)'
      BY <2>18, <2>19, <3>1, <3>2, <3>3 DEF Executed
    <3>4. ASSUME NEW i \in DOMAIN masters
          PROVE  masters'[i].deleted
                   <=> \E a \in Batches : batch'[a] # None /\ batch'[a].state = "REVERTED" /\ Owns(a, i)'
      <4>1. masters'[i] = masters[i]
        BY <2>0, <2>6
      <4>2. masters[i].deleted <=>
              \E a \in Batches : batch[a] # None /\ batch[a].state = "REVERTED" /\ Owns(a, i)
        BY DEF DeletedByRevert
      <4> QED
        BY <2>18, <3>1, <3>2, <4>1, <4>2
    <3> QED
      BY <2>15, <3>3, <3>4 DEF DeletedByRevert
  <2> QED
    BY <2>4, <2>6, <2>10, <2>12, <2>14, <2>16, <2>20, <2>21
<1>8. ASSUME NEW b \in Batches, RevertImport(b), batch[b].state = "APPLIED"
      PROVE  MasterInvariant'
  <2> DEFINE row == [batch[b] EXCEPT !.state = "REVERTED", !.answer = "ok"]
             gone(i) == [masters[i] EXCEPT !.deleted = TRUE, !.version = masters[i].version + 1]
             taken(i) == i \in Withdrawn(b) /\ LiveMaster(i)
  <2>1. batch[b] # None /\ batch[b] \in MasterBatch
    BY <1>0, <1>8 DEF RevertImport
  <2>2. /\ masters' = [i \in DOMAIN masters |-> IF taken(i) THEN gone(i) ELSE masters[i]]
        /\ batch' = [batch EXCEPT ![b] = row] /\ shown' = shown /\ database' = database
        /\ \A i \in DOMAIN masters : masters[i].version < MaxMasterVersion
    BY <1>8 DEF RevertImport
  <2>3. \A i \in DOMAIN masters :
          /\ gone(i) \in Master /\ gone(i).deleted = TRUE /\ gone(i).name = masters[i].name
          /\ gone(i).entity = masters[i].entity /\ gone(i).version > masters[i].version
    <3> SUFFICES ASSUME NEW i \in DOMAIN masters
                 PROVE  /\ gone(i) \in Master /\ gone(i).deleted = TRUE
                        /\ gone(i).name = masters[i].name
                        /\ gone(i).entity = masters[i].entity
                        /\ gone(i).version > masters[i].version
      OBVIOUS
    <3>1. masters[i] \in Master /\ masters[i].version \in Nat
      BY <1>0
    <3>2. masters[i].version + 1 \in 1 .. MaxMasterVersion
      <4>1. MaxMasterVersion \in Nat /\ masters[i].version < MaxMasterVersion
        BY <2>2, MasterAssumption
      <4> QED
        BY <3>1, <4>1
    <3>3. gone(i) \in Master
      BY <3>1, <3>2 DEF Master
    <3>4. gone(i).version = masters[i].version + 1 /\ gone(i).entity = masters[i].entity
          /\ gone(i).deleted = TRUE /\ gone(i).name = masters[i].name
      BY <3>1 DEF Master
    <3> QED
      BY <3>1, <3>3, <3>4
  <2>4. row \in MasterBatch /\ row.state = "REVERTED" /\ row.rows = batch[b].rows
        /\ row.entity = batch[b].entity
    BY <2>1 DEF MasterBatch
  <2>5. row # None
    BY <2>4, MasterBatchAssumption
  <2>6. \A i : i \in Withdrawn(b) <=> Owns(b, i)
    BY DEF Withdrawn, MadeBy, RowsOf, Owns
  <2> HIDE DEF row, gone
  <2>7. /\ DOMAIN masters' = DOMAIN masters
        /\ \A i \in DOMAIN masters : masters'[i] = IF taken(i) THEN gone(i) ELSE masters[i]
    BY <2>2
  <2> HIDE DEF taken
  <2>8. \A i \in DOMAIN masters :
          /\ masters'[i] \in Master /\ masters'[i].entity = masters[i].entity
          /\ masters'[i].name # Blank
          /\ masters'[i] = masters[i] \/ masters'[i].version > masters[i].version
    BY <1>0, <2>3, <2>7
  <2>9. masters' \in Seq(Master) /\ Len(masters') = Len(masters)
    <3>1. masters' = [i \in 1 .. Len(masters) |-> masters'[i]]
      BY <1>0, <2>2, <2>7
    <3>2. \A i \in 1 .. Len(masters) : masters'[i] \in Master
      BY <1>0, <2>8
    <3> QED
      BY <1>0, <3>1, <3>2
  <2>10. /\ batch' \in [Batches -> MasterBatch \cup {None}] /\ batch'[b] = row
         /\ \A a \in Batches : a # b => batch'[a] = batch[a]
    BY <2>2, <2>4
  <2>11. /\ \A d \in Editors : SeenHonest(d)'
         /\ \A a \in Batches : a # b => PlanSound(a)'
    BY <1>0, <2>2, <2>8, <2>9, <2>10, MastersGrow
  <2>12. PlanSound(b)'
    <3>1. PlanSound(b)
      OBVIOUS
    <3> QED
      BY <1>8, <2>1, <2>4, <2>7, <2>8, <2>10, <3>1 DEF PlanSound
  <2>13. \A a \in Batches : /\ Executed(a)' <=> Executed(a)
                            /\ \A i : Owns(a, i)' <=> Owns(a, i)
    BY <1>8, <2>1, <2>4, <2>5, <2>10 DEF Executed, Owns
  <2>14. OwnedOnce'
    BY <2>7, <2>13 DEF OwnedOnce
  <2>15. DeletedByRevert'
    <3> SUFFICES ASSUME NEW i \in DOMAIN masters
                 PROVE  masters'[i].deleted
                   <=> \E a \in Batches : batch'[a] # None /\ batch'[a].state = "REVERTED" /\ Owns(a, i)'
      BY <2>7 DEF DeletedByRevert
    <3>1. masters'[i].deleted <=> masters[i].deleted \/ Owns(b, i)
      <4>1. taken(i) <=> Owns(b, i) /\ ~masters[i].deleted
        BY <2>6 DEF taken, LiveMaster
      <4>2. masters[i].deleted \in BOOLEAN
        BY <1>0, MasterFields
      <4>3. CASE taken(i)
        BY <2>3, <2>7, <4>1, <4>3
      <4>4. CASE ~taken(i)
        BY <2>7, <4>1, <4>4
      <4> QED
        BY <4>3, <4>4
    <3>2. masters[i].deleted <=>
            \E a \in Batches : batch[a] # None /\ batch[a].state = "REVERTED" /\ Owns(a, i)
      BY DEF DeletedByRevert
    <3>3. batch'[b] # None /\ batch'[b].state = "REVERTED" /\ batch[b].state # "REVERTED"
      BY <1>8, <2>4, <2>5, <2>10
    <3> QED
      BY <2>10, <2>13, <3>1, <3>2, <3>3
  <2> QED
    BY <2>2, <2>7, <2>8, <2>9, <2>10, <2>11, <2>12, <2>14, <2>15
<1>9. ASSUME NEW b \in Batches, ApplyImport(b)
      PROVE  MasterInvariant'
  <2>1. CASE Appliable(b) /\ Insertable(b)
    BY <1>7, <1>9, <2>1
  <2>2. CASE ~Appliable(b)
    BY <1>6, <1>9, <2>2 DEF ApplyImport
  <2>3. CASE Appliable(b) /\ ~Insertable(b)
    BY <1>6, <1>9, <2>3 DEF ApplyImport
  <2> QED
    BY <2>1, <2>2, <2>3
<1>10. ASSUME NEW b \in Batches, RevertImport(b)
       PROVE  MasterInvariant'
  <2>1. CASE batch[b].state # "APPLIED"
    BY <1>6, <1>10, <2>1 DEF RevertImport
  <2> QED
    BY <1>8, <1>10, <2>1
<1>11. CASE UNCHANGED masterVars
  <2>1. masters' = masters /\ batch' = batch /\ shown' = shown /\ database' = database
    BY <1>11 DEF masterVars
  <2> QED
    BY <2>1 DEF SeenHonest, PlanSound, OwnedOnce, DeletedByRevert, Executed, Owns
<1> QED
  BY <1>1, <1>2, <1>3, <1>5, <1>9, <1>10, <1>11 DEF NextMaster

(* There are no records and no imports at the start.                          *)
LEMMA MasterStart == InitMaster => MasterInvariant
<1> SUFFICES ASSUME InitMaster PROVE MasterInvariant
  OBVIOUS
<1>1. masters = <<>> /\ batch = [b \in Batches |-> None] /\ shown = [e \in Editors |-> None]
      /\ database \in Databases
  BY DEF InitMaster
<1>2. masters \in Seq(Master) /\ Len(masters) = 0 /\ DOMAIN masters = {}
  BY <1>1
<1> QED
  BY <1>1, <1>2, MasterAssumption
  DEF MasterInvariant, SeenHonest, PlanSound, OwnedOnce, DeletedByRevert, Executed

THEOREM MasterDataAreSound == MasterSpec => []MasterInvariant
BY MasterStart, MasterStep, PTL DEF MasterSpec

(* The master data and their imports have their type.                        *)
THEOREM MastersTyped == MasterSpec => []MasterTypeOK
<1>1. MasterInvariant => MasterTypeOK
  BY DEF MasterInvariant, MasterTypeOK, SeenHonest
<1> QED
  BY <1>1, MasterDataAreSound, PTL

(* As many records as rows: each row made one of its own.                     *)
LEMMA OneRecordPerRow ==
  ASSUME MasterInvariant, NEW b \in Batches, Executed(b)
  PROVE  Cardinality(MadeBy(b)) = Len(RowsOf(b))
<1> DEFINE rows == RowsOf(b)
           target == [n \in 1 .. Len(rows) |-> rows[n].target]
<1>1. rows \in Seq(PlannedRow)
  BY DEF MasterInvariant, Executed, MasterBatch, RowsOf
<1>2. DOMAIN rows = 1 .. Len(rows) /\ Len(rows) \in Nat
  BY <1>1
<1>3. \A m, n \in 1 .. Len(rows) : m # n => rows[m].target # rows[n].target
  BY <1>2 DEF MasterInvariant, PlanSound, Executed, RowsOf
<1>4. MadeBy(b) = {rows[n].target : n \in 1 .. Len(rows)}
  BY <1>2 DEF MadeBy
<1> HIDE DEF rows
<1>5. target \in Bijection(1 .. Len(rows), MadeBy(b))
  BY <1>3, <1>4 DEF Bijection, Injection, Surjection, IsInjective
<1> QED
  BY <1>2, <1>5, FS_CountingElements DEF ExistsBijection, rows

(* An import is one act, and so is its revert.                                *)
LEMMA MasterImportsWhole == MasterInvariant => ImportsAreWhole
<1> SUFFICES ASSUME MasterInvariant PROVE ImportsAreWhole
  OBVIOUS
<1>1. ASSUME NEW b \in Batches, batch[b] # None, batch[b].state = "PREVIEWED"
      PROVE  \A n \in DOMAIN RowsOf(b) : RowsOf(b)[n].target = None
  BY <1>1 DEF MasterInvariant, PlanSound, RowsOf
<1>2. ASSUME NEW b \in Batches, batch[b] # None, batch[b].state # "PREVIEWED"
      PROVE  /\ \A n \in DOMAIN RowsOf(b) :
                  /\ RowsOf(b)[n].action = "CREATE" /\ RowsOf(b)[n].target \in DOMAIN masters
                  /\ masters[RowsOf(b)[n].target].entity = batch[b].entity
                  /\ masters[RowsOf(b)[n].target].name # Blank
             /\ Cardinality(MadeBy(b)) = Len(RowsOf(b))
             /\ \A a \in Batches \ {b} : batch[a] # None /\ batch[a].state # "PREVIEWED" =>
                  MadeBy(a) \cap MadeBy(b) = {}
  <2>1. Executed(b)
    BY <1>2 DEF Executed
  <2>2. \A n \in DOMAIN RowsOf(b) :
          /\ RowsOf(b)[n].action = "CREATE" /\ RowsOf(b)[n].target \in DOMAIN masters
          /\ masters[RowsOf(b)[n].target].entity = batch[b].entity
          /\ masters[RowsOf(b)[n].target].name # Blank
    BY <1>2 DEF MasterInvariant, PlanSound, RowsOf
  <2>3. ASSUME NEW a \in Batches \ {b}, batch[a] # None, batch[a].state # "PREVIEWED"
        PROVE  MadeBy(a) \cap MadeBy(b) = {}
    <3> SUFFICES ASSUME NEW i \in MadeBy(a), i \in MadeBy(b) PROVE FALSE
      OBVIOUS
    <3>1. Owns(a, i) /\ Owns(b, i)
      BY DEF MadeBy, RowsOf, Owns
    <3>2. i \in DOMAIN masters
      BY <2>2 DEF MadeBy
    <3> QED
      BY <2>1, <2>3, <3>1, <3>2 DEF MasterInvariant, OwnedOnce, Executed
  <2> QED
    BY <2>1, <2>2, <2>3, OneRecordPerRow
<1>3. AppliedWhole
  BY <1>1, <1>2 DEF AppliedWhole
<1>4. RevertedWhole
  BY DEF RevertedWhole, MasterInvariant, DeletedByRevert, Owns, MadeBy, RowsOf
<1> QED
  BY <1>3, <1>4 DEF ImportsAreWhole

THEOREM ImportsStayWhole == MasterSpec => []ImportsAreWhole
BY MasterImportsWhole, MasterDataAreSound, PTL

(* An editor's change is made to the record it read, which is still there.    *)
THEOREM MasterEditsWereRead == MasterSpec => EditsWhatWasRead
<1> DEFINE Read(i) == \E e \in Editors : shown[e] # None /\ shown[e].id = i /\ ~masters[i].deleted
                        /\ shown[e].code = masters[i].code /\ shown[e].name = masters[i].name
<1>1. ASSUME MasterInvariant, [NextMaster]_masterVars, NEW i \in DOMAIN masters,
             masters'[i].version > masters[i].version, ~masters'[i].deleted
      PROVE  Read(i)
  <2>0. masters[i] \in Master /\ masters[i].version \in Nat
    <3>1. masters[i] \in Master
      BY <1>1 DEF MasterInvariant
    <3> QED
      BY <3>1, MasterFields
  <2>1. masters'[i] # masters[i]
    BY <1>1, <2>0
  <2>2. ASSUME NEW entity \in Entities, NEW code \in Codes \cup {None}, NEW name \in RecordNames,
               NEW parent \in Parents(entity), CreateMaster(entity, code, name, parent)
        PROVE  FALSE
    <3>1. PICK row : masters' = Append(masters, row)
      BY <2>2 DEF CreateMaster
    <3> QED
      BY <1>1, <2>1, <3>1 DEF MasterInvariant
  <2>3. ASSUME NEW e \in Editors, NEW code \in Codes \cup {None}, NEW name \in RecordNames,
               UpdateMaster(e, code, name)
        PROVE  Read(i)
    <3>1. shown[e] # None /\ StillSeen(e) /\ shown[e].id \in DOMAIN masters
      BY <1>1, <2>3 DEF UpdateMaster, MasterInvariant, SeenHonest
    <3>2. shown[e].id = i
      BY <1>1, <2>1, <2>3, <3>1 DEF UpdateMaster, MasterInvariant
    <3> QED
      BY <1>1, <3>1, <3>2 DEF StillSeen, LiveMaster, MasterInvariant, SeenHonest
  <2>4. ASSUME NEW b \in Batches, ApplyImport(b)
        PROVE  FALSE
    <3>1. CASE masters' = masters
      BY <2>1, <3>1
    <3>2. CASE masters' = masters \o Made(b) /\ batch[b] # None
      <4>1. batch[b].rows \in Seq(PlannedRow)
        BY <1>1, <3>2 DEF MasterInvariant, MasterBatch
      <4>2. Made(b) \in Seq({NewMaster(batch[b].entity, batch[b].rows[n].code, batch[b].rows[n].name, None)
                               : n \in DOMAIN batch[b].rows})
        BY <4>1 DEF Made, RowsOf
      <4> QED
        BY <1>1, <2>1, <3>2, <4>2 DEF MasterInvariant
    <3> QED
      BY <2>4, <3>1, <3>2 DEF ApplyImport
  <2>5. ASSUME NEW b \in Batches, RevertImport(b)
        PROVE  FALSE
    <3>1. CASE masters' = masters
      BY <2>1, <3>1
    <3>2. CASE masters' = [j \in DOMAIN masters |->
                 IF j \in Withdrawn(b) /\ LiveMaster(j)
                 THEN [masters[j] EXCEPT !.deleted = TRUE, !.version = masters[j].version + 1]
                 ELSE masters[j]]
      <4>1. masters'[i] = [masters[i] EXCEPT !.deleted = TRUE, !.version = masters[i].version + 1]
        BY <2>1, <3>2
      <4>2. masters'[i].deleted = TRUE
        BY <2>0, <4>1 DEF Master
      <4> QED
        BY <1>1, <4>2
    <3> QED
      BY <2>5, <3>1, <3>2 DEF RevertImport
  <2>6. ASSUME NEW e \in Editors, NEW j \in DOMAIN masters, ReadMaster(e, j)
        PROVE  FALSE
    BY <2>1, <2>6 DEF ReadMaster
  <2>7. ASSUME NEW b \in Batches, NEW entity \in Entities, NEW sheet \in Sheets,
               PreviewImport(b, entity, sheet)
        PROVE  FALSE
    BY <2>1, <2>7 DEF PreviewImport
  <2>8. ~UNCHANGED masterVars
    BY <2>1 DEF masterVars
  <2> QED
    BY <1>1, <2>2, <2>3, <2>4, <2>5, <2>6, <2>7, <2>8 DEF NextMaster
<1>2. MasterInvariant /\ [NextMaster]_masterVars =>
        [\A i \in DOMAIN masters :
           masters'[i].version > masters[i].version /\ ~masters'[i].deleted => Read(i)]_masterVars
  BY <1>1
<1> QED
  BY <1>2, MasterDataAreSound, PTL DEF MasterSpec, EditsWhatWasRead

-----------------------------------------------------------------------------
(* Aliases                                                                    *)
-----------------------------------------------------------------------------
(* What a registrar read of an alias was the alias: it is older, or the       *)
(* alias as it is.                                                           *)
ReadRow == [id : Nat, version : Nat, body : AliasBodies]
ReadHonest(r) ==
  readAlias[r] # None =>
    /\ readAlias[r].id \in DOMAIN aliases
    /\ readAlias[r].version <= aliases[readAlias[r].id].version
    /\ readAlias[r].version = aliases[readAlias[r].id].version =>
         readAlias[r].body = aliases[readAlias[r].id].body

(* The inductive invariant of the aliases: no two are one entry of an index,  *)
(* and a version names one body for good.                                    *)
IndexesHold ==
  \A i, j \in DOMAIN aliases : i # j => ~SameIndexEntry(aliases[i].body, aliases[j].body)
AliasRows == [body : AliasBodies, deleted : BOOLEAN, version : 1 .. MaxAliasVersion]
AliasInvariant ==
  /\ aliases \in Seq(AliasRows) /\ Len(aliases) <= MaxAliases
  /\ withdrawn \subseteq References \X Targets
  /\ readAlias \in [Registrars -> ReadRow \cup {None}]
  /\ IndexesHold
  /\ \A r \in Registrars : ReadHonest(r)

(* What two aliases share in an index they share either way round.            *)
LEMMA EntrySymmetric ==
  ASSUME NEW a, NEW b, SameIndexEntry(a, b)
  PROVE  SameIndexEntry(b, a)
BY DEF SameIndexEntry

(* Replacing a row of the aliases.                                           *)
LEMMA AliasReplaced ==
  ASSUME aliases \in Seq(AliasRows), NEW i \in DOMAIN aliases, NEW row \in AliasRows,
         aliases' = [aliases EXCEPT ![i] = row]
  PROVE  /\ aliases' \in Seq(AliasRows) /\ Len(aliases') = Len(aliases)
         /\ DOMAIN aliases' = DOMAIN aliases
         /\ \A j \in DOMAIN aliases : aliases'[j] = IF j = i THEN row ELSE aliases[j]
OBVIOUS

(* Rewriting the row of an alias, in the next version.                        *)
LEMMA AliasRewritten ==
  ASSUME NEW row \in AliasRows, row.version < MaxAliasVersion, NEW body \in AliasBodies
  PROVE  /\ [row EXCEPT !.body = body, !.version = row.version + 1] \in AliasRows
         /\ [row EXCEPT !.deleted = TRUE, !.version = row.version + 1] \in AliasRows
         /\ row.version \in Nat
<1>1. row.version + 1 \in 1 .. MaxAliasVersion /\ row.version \in Nat
  BY AliasAssumption DEF AliasRows
<1> QED
  BY <1>1 DEF AliasRows

(* No operation breaks the invariant of the aliases.                          *)
LEMMA AliasStep == AliasInvariant /\ [NextAlias]_aliasVars => AliasInvariant'
<1> SUFFICES ASSUME AliasInvariant, [NextAlias]_aliasVars PROVE AliasInvariant'
  OBVIOUS
<1> USE DEF AliasInvariant
<1>0. \A i \in DOMAIN aliases : aliases[i] \in AliasRows
  OBVIOUS
<1>1. ASSUME NEW body \in AliasBodies, CreateAlias(body)
      PROVE  AliasInvariant'
  <2>1. AliasRow(body) \in AliasRows
    BY AliasAssumption DEF AliasRow, AliasRows
  <2>2. /\ aliases' = Append(aliases, AliasRow(body)) /\ aliases' \in Seq(AliasRows)
        /\ Len(aliases') = Len(aliases) + 1 /\ Len(aliases') <= MaxAliases
        /\ DOMAIN aliases = 1 .. Len(aliases) /\ DOMAIN aliases' = 1 .. Len(aliases) + 1
        /\ \A i \in DOMAIN aliases : aliases'[i] = aliases[i]
        /\ aliases'[Len(aliases) + 1] = AliasRow(body)
    BY <1>1, <2>1, AliasAssumption DEF CreateAlias
  <2>3. \A i \in DOMAIN aliases : ~SameIndexEntry(aliases[i].body, body)
    BY <1>1 DEF CreateAlias, ScopeFree
  <2>4. AliasRow(body).body = body
    BY DEF AliasRow
  <2>5. IndexesHold'
    <3> SUFFICES ASSUME NEW i \in DOMAIN aliases', NEW j \in DOMAIN aliases', i # j,
                        SameIndexEntry(aliases'[i].body, aliases'[j].body)
                 PROVE  FALSE
      BY DEF IndexesHold, SameIndexEntry, Given
    <3>1. CASE i \in DOMAIN aliases /\ j \in DOMAIN aliases
      BY <2>2, <3>1 DEF IndexesHold
    <3>2. CASE i \in DOMAIN aliases /\ j = Len(aliases) + 1
      BY <2>2, <2>3, <2>4, <3>2
    <3>3. CASE j \in DOMAIN aliases /\ i = Len(aliases) + 1
      BY <2>2, <2>3, <2>4, <3>3, EntrySymmetric
    <3> QED
      BY <2>2, <3>1, <3>2, <3>3
  <2>6. readAlias' = readAlias /\ withdrawn' = withdrawn
    BY <1>1 DEF CreateAlias
  <2>7. \A r \in Registrars : ReadHonest(r)'
    BY <2>2, <2>6 DEF ReadHonest
  <2> QED
    BY <2>2, <2>5, <2>6, <2>7
<1>2. ASSUME NEW r \in Registrars, NEW i \in DOMAIN aliases, ReadAlias(r, i)
      PROVE  AliasInvariant'
  <2> DEFINE read == [id |-> i, version |-> aliases[i].version, body |-> aliases[i].body]
  <2>1. read \in ReadRow
    BY <1>0, AliasAssumption DEF ReadRow, AliasRows
  <2>2. readAlias' = [readAlias EXCEPT ![r] = read] /\ aliases' = aliases /\ withdrawn' = withdrawn
    BY <1>2 DEF ReadAlias
  <2>3. read.id = i /\ read.version = aliases[i].version /\ read.body = aliases[i].body
        /\ aliases[i].version \in Nat
    BY <1>0, AliasAssumption DEF AliasRows
  <2> HIDE DEF read
  <2>4. \A s \in Registrars : ReadHonest(s)'
    BY <2>2, <2>3 DEF ReadHonest
  <2> QED
    BY <2>1, <2>2, <2>4 DEF IndexesHold
<1>3. ASSUME NEW r \in Registrars, NEW i \in DOMAIN aliases, NEW row \in AliasRows,
             aliases' = [aliases EXCEPT ![i] = row], UNCHANGED <<withdrawn, readAlias>>,
             aliases[i].version < row.version,
             ScopeFree(row.body, i)
      PROVE  AliasInvariant'
  <2>1. /\ aliases' \in Seq(AliasRows) /\ Len(aliases') = Len(aliases)
        /\ DOMAIN aliases' = DOMAIN aliases
        /\ \A j \in DOMAIN aliases : aliases'[j] = IF j = i THEN row ELSE aliases[j]
    BY <1>3, AliasReplaced
  <2>2. IndexesHold'
    <3> SUFFICES ASSUME NEW j \in DOMAIN aliases, NEW k \in DOMAIN aliases, j # k,
                        SameIndexEntry(aliases'[j].body, aliases'[k].body)
                 PROVE  FALSE
      BY <2>1 DEF IndexesHold, SameIndexEntry, Given
    <3>1. CASE j # i /\ k # i
      BY <2>1, <3>1 DEF IndexesHold
    <3>2. CASE k = i
      BY <1>3, <2>1, <3>2 DEF ScopeFree
    <3>3. CASE j = i
      BY <1>3, <2>1, <3>3, EntrySymmetric DEF ScopeFree
    <3> QED
      BY <3>1, <3>2, <3>3
  <2>3. \A s \in Registrars : ReadHonest(s)'
    <3> SUFFICES ASSUME NEW s \in Registrars, readAlias[s] # None
                 PROVE  ReadHonest(s)'
      BY <1>3 DEF ReadHonest
    <3>1. PICK j \in DOMAIN aliases : j = readAlias[s].id
      BY DEF ReadHonest
    <3>2. aliases[j].version \in Nat /\ row.version \in Nat /\ readAlias[s].version \in Nat
      BY <1>0, AliasAssumption DEF AliasRows, ReadRow
    <3>3. readAlias[s].version <= aliases[j].version
          /\ (readAlias[s].version = aliases[j].version => readAlias[s].body = aliases[j].body)
      BY <3>1 DEF ReadHonest
    <3>4. aliases'[j] = IF j = i THEN row ELSE aliases[j]
      BY <2>1
    <3>5. readAlias[s].version <= aliases'[j].version
          /\ (readAlias[s].version = aliases'[j].version => readAlias[s].body = aliases'[j].body)
      BY <1>3, <3>2, <3>3, <3>4
    <3> QED
      BY <1>3, <2>1, <3>1, <3>5 DEF ReadHonest
  <2> QED
    BY <1>3, <2>1, <2>2, <2>3
<1>4. ASSUME NEW r \in Registrars, NEW body \in AliasBodies, UpdateAlias(r, body)
      PROVE  AliasInvariant'
  <2>1. PICK i \in DOMAIN aliases : i = readAlias[r].id
    BY <1>4 DEF UpdateAlias, ReadHonest
  <2> DEFINE row == [aliases[i] EXCEPT !.body = body, !.version = aliases[i].version + 1]
  <2>2. aliases' = [aliases EXCEPT ![i] = row] /\ UNCHANGED <<withdrawn, readAlias>>
        /\ ScopeFree(body, i) /\ aliases[i].version < MaxAliasVersion
    BY <1>4, <2>1 DEF UpdateAlias
  <2>3. aliases[i] \in AliasRows
    BY <1>0
  <2>4. row \in AliasRows /\ row.body = body /\ aliases[i].version < row.version
    <3>1. row \in AliasRows /\ aliases[i].version \in Nat
      BY <2>2, <2>3, AliasRewritten
    <3>2. row.body = body /\ row.version = aliases[i].version + 1
      BY <2>3 DEF AliasRows
    <3> QED
      BY <3>1, <3>2
  <2> HIDE DEF row
  <2> QED
    BY <1>3, <2>2, <2>4
<1>5. ASSUME NEW r \in Registrars, DeleteAlias(r)
      PROVE  AliasInvariant'
  <2>1. PICK i \in DOMAIN aliases : i = readAlias[r].id
    BY <1>5 DEF DeleteAlias, ReadHonest
  <2> DEFINE row == [aliases[i] EXCEPT !.deleted = TRUE, !.version = aliases[i].version + 1]
  <2>2. aliases' = [aliases EXCEPT ![i] = row] /\ UNCHANGED <<withdrawn, readAlias>>
        /\ aliases[i].version < MaxAliasVersion
    BY <1>5, <2>1 DEF DeleteAlias
  <2>3. aliases[i] \in AliasRows
    BY <1>0
  <2>4. row \in AliasRows /\ row.body = aliases[i].body /\ aliases[i].version < row.version
    <3>1. row \in AliasRows /\ aliases[i].version \in Nat
      <4>1. aliases[i].body \in AliasBodies
        BY <2>3 DEF AliasRows
      <4> QED
        BY <2>2, <2>3, <4>1, AliasRewritten
    <3>2. row.body = aliases[i].body /\ row.version = aliases[i].version + 1
      BY <2>3 DEF AliasRows
    <3> QED
      BY <3>1, <3>2
  <2>5. ScopeFree(row.body, i)
    BY <2>4 DEF IndexesHold, ScopeFree
  <2> HIDE DEF row
  <2> QED
    BY <1>3, <2>2, <2>4, <2>5
<1>6. ASSUME NEW r \in References, NEW t \in Targets, WithdrawReference(r, t)
      PROVE  AliasInvariant'
  BY <1>6 DEF WithdrawReference, IndexesHold, ReadHonest
<1>7. CASE UNCHANGED aliasVars
  BY <1>7 DEF aliasVars, IndexesHold, ReadHonest
<1> QED
  BY <1>1, <1>2, <1>4, <1>5, <1>6, <1>7 DEF NextAlias

(* There are no aliases at the start.                                        *)
LEMMA AliasStart == InitAlias => AliasInvariant
<1> SUFFICES ASSUME InitAlias PROVE AliasInvariant
  OBVIOUS
<1>1. aliases = <<>> /\ withdrawn = {} /\ readAlias = [r \in Registrars |-> None]
  BY DEF InitAlias
<1>2. aliases \in Seq(AliasRows) /\ Len(aliases) = 0 /\ DOMAIN aliases = {}
  BY <1>1
<1> QED
  BY <1>1, <1>2, AliasAssumption DEF AliasInvariant, IndexesHold, ReadHonest

THEOREM AliasesKeepTheirIndexes == AliasSpec => []AliasInvariant
BY AliasStart, AliasStep, PTL DEF AliasSpec

(* The aliases have their type.                                              *)
THEOREM AliasesTyped == AliasSpec => []AliasTypeOK
<1>1. AliasInvariant => AliasTypeOK
  BY DEF AliasInvariant, AliasTypeOK, AliasRows, ReadHonest
<1> QED
  BY <1>1, AliasesKeepTheirIndexes, PTL

(* Nobody edits or deletes an alias in a form other than the one it read.     *)
THEOREM AliasEditsWereRead == AliasSpec => AliasChangesWereRead
<1> DEFINE Read(i) == \E r \in Registrars : readAlias[r] # None /\ readAlias[r].id = i
                        /\ readAlias[r].body = aliases[i].body
<1>1. ASSUME AliasInvariant, [NextAlias]_aliasVars,
             NEW i \in DOMAIN aliases, aliases'[i] # aliases[i]
      PROVE  Read(i)
  <2>1. ASSUME NEW r \in Registrars, readAlias[r] # None,
               Current(readAlias[r].id, readAlias[r].version), readAlias[r].id = i
        PROVE  Read(i)
    BY <1>1, <2>1 DEF AliasInvariant, ReadHonest, Current
  <2>2. ASSUME NEW body \in AliasBodies, CreateAlias(body)
        PROVE  FALSE
    <3>1. aliases' = Append(aliases, AliasRow(body)) /\ i \in 1 .. Len(aliases)
      BY <1>1, <2>2 DEF CreateAlias, AliasInvariant
    <3> QED
      BY <1>1, <3>1 DEF AliasInvariant
  <2>3. ASSUME NEW r \in Registrars, NEW body \in AliasBodies, UpdateAlias(r, body)
        PROVE  Read(i)
    <3>1. readAlias[r].id = i
      BY <1>1, <2>3 DEF UpdateAlias, AliasInvariant
    <3> QED
      BY <2>1, <2>3, <3>1 DEF UpdateAlias
  <2>4. ASSUME NEW r \in Registrars, DeleteAlias(r)
        PROVE  Read(i)
    <3>1. readAlias[r].id = i
      BY <1>1, <2>4 DEF DeleteAlias, AliasInvariant
    <3> QED
      BY <2>1, <2>4, <3>1 DEF DeleteAlias
  <2>5. ASSUME NEW r \in Registrars, NEW j \in DOMAIN aliases, ReadAlias(r, j)
        PROVE  FALSE
    BY <1>1, <2>5 DEF ReadAlias
  <2>6. ASSUME NEW r \in References, NEW t \in Targets, WithdrawReference(r, t)
        PROVE  FALSE
    BY <1>1, <2>6 DEF WithdrawReference
  <2>7. ~UNCHANGED aliasVars
    BY <1>1 DEF aliasVars
  <2> QED
    BY <1>1, <2>2, <2>3, <2>4, <2>5, <2>6, <2>7 DEF NextAlias
<1>2. AliasInvariant /\ [NextAlias]_aliasVars
        => [\A i \in DOMAIN aliases : aliases'[i] # aliases[i] => Read(i)]_aliasVars
  BY <1>1
<1> QED
  BY <1>2, AliasesKeepTheirIndexes, PTL DEF AliasSpec, AliasChangesWereRead

-----------------------------------------------------------------------------
(* The order in which aliases are listed is a strict order.                   *)
LEMMA BeforeIsAnOrder ==
  ASSUME AliasInvariant,
         NEW i \in DOMAIN aliases, NEW j \in DOMAIN aliases, NEW k \in DOMAIN aliases
  PROVE  /\ ~Before(i, i)
         /\ i # j => Before(i, j) \/ Before(j, i)
         /\ Before(i, j) /\ Before(j, k) => Before(i, k)
         /\ aliases[i].body.priority \in Nat
<1>1. \A m \in DOMAIN aliases : aliases[m].body.priority \in Nat /\ m \in Nat
  <2> SUFFICES ASSUME NEW m \in DOMAIN aliases
               PROVE  aliases[m].body.priority \in Nat /\ m \in Nat
    OBVIOUS
  <2>1. aliases[m] \in AliasRows /\ m \in Nat
    BY DEF AliasInvariant
  <2>2. aliases[m].body \in AliasBodies
    BY <2>1 DEF AliasRows
  <2>3. aliases[m].body.priority \in Priorities
    BY <2>2 DEF AliasBodies
  <2> QED
    BY <2>1, <2>3, AliasAssumption
<1> QED
  BY <1>1 DEF Before

(* What comes before another in the list has a smaller rank, and the ranks    *)
(* are within the length of the list.                                        *)
LEMMA RankGrows ==
  ASSUME AliasInvariant, NEW found \in SUBSET DOMAIN aliases
  PROVE  /\ IsFiniteSet(found) /\ Cardinality(found) \in Nat
         /\ \A i \in found : Rank(i, found) \in 1 .. Cardinality(found)
         /\ \A i, j \in found : Before(i, j) => Rank(i, found) < Rank(j, found)
<1> DEFINE Ahead(i) == {j \in found : Before(j, i)}
<1>1. IsFiniteSet(found) /\ Cardinality(found) \in Nat
  <2>1. IsFiniteSet(DOMAIN aliases)
    BY FS_Interval DEF AliasInvariant
  <2> QED
    BY <2>1, FS_Subset, FS_CardinalityType
<1>2. \A i \in found : IsFiniteSet(Ahead(i)) /\ Cardinality(Ahead(i)) \in Nat
  <2> SUFFICES ASSUME NEW i \in found
               PROVE  IsFiniteSet(Ahead(i)) /\ Cardinality(Ahead(i)) \in Nat
    OBVIOUS
  <2>1. Ahead(i) \in SUBSET found
    OBVIOUS
  <2> HIDE DEF Ahead
  <2> QED
    BY <1>1, <2>1, FS_Subset, FS_CardinalityType
<1>3. ASSUME NEW i \in found
      PROVE  Rank(i, found) \in 1 .. Cardinality(found)
  <2>1. Ahead(i) \in SUBSET found /\ i \notin Ahead(i)
    BY BeforeIsAnOrder
  <2>2. Rank(i, found) = Cardinality(Ahead(i)) + 1
    BY DEF Rank
  <2> HIDE DEF Ahead
  <2>3. Cardinality(Ahead(i)) <= Cardinality(found) /\ Cardinality(Ahead(i)) # Cardinality(found)
    BY <1>1, <2>1, FS_Subset
  <2> QED
    BY <1>1, <1>2, <2>2, <2>3
<1>4. ASSUME NEW i \in found, NEW j \in found, Before(i, j)
      PROVE  Rank(i, found) < Rank(j, found)
  <2>1. Ahead(i) \in SUBSET Ahead(j) /\ i \notin Ahead(i) /\ i \in Ahead(j)
    BY <1>4, BeforeIsAnOrder
  <2>2. Rank(i, found) = Cardinality(Ahead(i)) + 1 /\ Rank(j, found) = Cardinality(Ahead(j)) + 1
    BY DEF Rank
  <2> HIDE DEF Ahead
  <2>3. Cardinality(Ahead(i)) <= Cardinality(Ahead(j)) /\ Cardinality(Ahead(i)) # Cardinality(Ahead(j))
    BY <1>2, <2>1, FS_Subset
  <2> QED
    BY <1>2, <2>2, <2>3
<1> QED
  BY <1>1, <1>3, <1>4

(* Every place of the list is the rank of one alias.                          *)
LEMMA EveryRankIsTaken ==
  ASSUME AliasInvariant, NEW found \in SUBSET DOMAIN aliases,
         NEW n \in 1 .. Cardinality(found)
  PROVE  \E i \in found : Rank(i, found) = n
<1> DEFINE places == 1 .. Cardinality(found)
           place == [i \in found |-> Rank(i, found)]
<1>1. /\ IsFiniteSet(found) /\ Cardinality(found) \in Nat
      /\ \A i \in found : Rank(i, found) \in places
  BY RankGrows
<1>2. IsFiniteSet(places) /\ Cardinality(places) = Cardinality(found)
  BY <1>1, FS_Interval
<1>3. \A i, j \in found : i # j => Rank(i, found) # Rank(j, found)
  <2> SUFFICES ASSUME NEW i \in found, NEW j \in found, i # j
               PROVE  Rank(i, found) # Rank(j, found)
    OBVIOUS
  <2>1. Before(i, j) \/ Before(j, i)
    BY BeforeIsAnOrder
  <2>2. Rank(i, found) \in Nat /\ Rank(j, found) \in Nat
    BY <1>1
  <2> QED
    BY <2>1, <2>2, RankGrows
<1>4. place \in Injection(found, places)
  BY <1>1, <1>3 DEF Injection, IsInjective
<1> HIDE DEF places
<1>5. place \in Surjection(found, places)
  BY <1>2, <1>4, FS_Injection
<1>6. \E i \in found : place[i] = n
  BY <1>5 DEF Surjection, places
<1> QED
  BY <1>6

(* The list holds what is found, each in the place of its rank.               *)
LEMMA LookupLists ==
  ASSUME AliasInvariant, NEW text, NEW asked
  PROVE  /\ Found(text, asked) \in SUBSET DOMAIN aliases
         /\ DOMAIN Lookup(text, asked) = 1 .. Cardinality(Found(text, asked))
         /\ \A n \in DOMAIN Lookup(text, asked) :
              /\ Lookup(text, asked)[n] \in Found(text, asked)
              /\ Rank(Lookup(text, asked)[n], Found(text, asked)) = n
<1> DEFINE found == Found(text, asked)
<1>1. found \in SUBSET DOMAIN aliases
  BY DEF Found
<1>2. Lookup(text, asked) = [n \in 1 .. Cardinality(found) |-> CHOOSE i \in found : Rank(i, found) = n]
  BY DEF Lookup
<1> HIDE DEF found
<1>3. \A n \in 1 .. Cardinality(found) : \E i \in found : Rank(i, found) = n
  BY <1>1, EveryRankIsTaken
<1> QED
  BY <1>1, <1>2, <1>3 DEF found

(* The scopes of the aliases and of the lookups stay apart.                   *)
LEMMA ScopesApart == AliasInvariant => ScopesStayApart
<1> SUFFICES ASSUME AliasInvariant PROVE ScopesStayApart
  OBVIOUS
<1>1. OneAliasPerScope
  BY DEF OneAliasPerScope, AliasInvariant, IndexesHold, SameIndexEntry
<1>2. ASSUME NEW text \in Texts, NEW asked \in AliasScopes, NEW more \in AliasScopes,
             Narrower(asked, more)
      PROVE  Found(text, asked) \subseteq Found(text, more)
  <2> SUFFICES ASSUME NEW i \in DOMAIN aliases, NEW r \in References,
                      ScopeMatch(aliases[i].body.scope[r], asked[r])
               PROVE  ScopeMatch(aliases[i].body.scope[r], more[r])
    BY DEF Found
  <2> QED
    BY <1>2 DEF Narrower, ScopeMatch
<1>3. ASSUME NEW text \in Texts, NEW asked \in AliasScopes, NEW i \in Found(text, asked)
      PROVE  Narrower(aliases[i].body.scope, asked)
  BY <1>3 DEF Found, ScopeMatch, Narrower
<1>4. ASSUME NEW text \in Texts, NEW asked \in AliasScopes,
             NEW m \in DOMAIN Lookup(text, asked), NEW n \in DOMAIN Lookup(text, asked), m < n
      PROVE  aliases[Lookup(text, asked)[m]].body.priority
               <= aliases[Lookup(text, asked)[n]].body.priority
  <2>1. PICK found \in SUBSET DOMAIN aliases : found = Found(text, asked)
    BY LookupLists
  <2>2. PICK i \in found, j \in found :
          /\ i = Lookup(text, asked)[m] /\ Rank(i, found) = m
          /\ j = Lookup(text, asked)[n] /\ Rank(j, found) = n
    BY <2>1, LookupLists
  <2>3. m \in Nat /\ n \in Nat
    BY <2>2, RankGrows
  <2>4. ~Before(j, i)
    BY <1>4, <2>2, <2>3, RankGrows
  <2>5. aliases[i].body.priority \in Nat /\ aliases[j].body.priority \in Nat
    BY BeforeIsAnOrder
  <2> QED
    BY <2>2, <2>4, <2>5 DEF Before
<1>5. LookupKeepsScope
  BY <1>2, <1>3, <1>4, LookupLists DEF LookupKeepsScope
<1> QED
  BY <1>1, <1>5 DEF ScopesStayApart

(* A scope keeps its aliases to itself, in the table and in what is found.    *)
THEOREM ScopesAreKeptApart == AliasSpec => []ScopesStayApart
BY ScopesApart, AliasesKeepTheirIndexes, PTL
=============================================================================
