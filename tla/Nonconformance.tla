--------------------------- MODULE Nonconformance ---------------------------
(***************************************************************************)
(* Nonconformance records: hyc_api/routes/nonconformances.py, the triggers    *)
(* of the migrations 0005 and 0009, and the workspace of the frontend from     *)
(* which they are read, edited, approved and rejected                         *)
(* (components/nonconformance/NonconformanceWorkspace.tsx).                    *)
(*                                                                         *)
(* A handler locks the record's row and commits once: one step.  What a       *)
(* clerk works on is the copy its workspace loaded, which may be old, and a   *)
(* list that was asked for may arrive after a newer one.                      *)
(***************************************************************************)
EXTENDS NoValue, Naturals, FiniteSets

CONSTANTS
  Records,      \* nonconformances
  Numbers,      \* NCR numbers
  Clerks,       \* who uses the API or the workspace
  RoleOf(_),    \* clerk -> INSPECTOR, LEAD or ADMIN
  Ways,         \* dispositions
  Quantities,   \* what is typed into the field of the quantity
  Bodies,       \* the bodies of creates and updates: number, quantity, way, status
  ActionTypes,  \* the types of follow-up actions in use
  Documents,    \* documents that can be attached
  MaxRecordVersion  \* bound of the model: the versions a record reaches

Statuses == {"DRAFT", "SUBMITTED", "APPROVED", "REJECTED", "CLOSED"}

(* The body of a create or an update, with any of the statuses.              *)
AnyBody == [number : Numbers, quantity : Quantities, way : Ways \cup {None},
            status : Statuses]
RecordAssumption ==
  /\ None \notin Ways /\ Bodies \subseteq AnyBody /\ Quantities \subseteq Nat
  /\ ActionTypes \subseteq {"CORRECTIVE", "PREVENTIVE", "VERIFICATION", "COMPLETION"}
  /\ MaxRecordVersion \in Nat \ {0}
ASSUME RecordAssumption

AnyQuantity(body) == TRUE                                \* mutant
Valid(body) == body.quantity > 0                      \* the table's CHECK

VARIABLES
  ncr,       \* record -> its row, or None
  decisions, \* record -> the approvals written for it
  followUps, \* record -> the actions recorded for it
  called,    \* disposition -> what it is called at present
  copy,      \* clerk -> record -> what its workspace shows, or None
  arriving,  \* clerk -> the list that was read for it and not shown yet, or None
  edited     \* clerk -> record -> the quantity typed over the shown one, or None

recordVars == <<ncr, decisions, followUps, called, copy, arriving, edited>>

Names == {"name", "another name"}
Rows == [number : Numbers, quantity : Quantities \cap (Nat \ {0}), way : Ways \cup {None},
         snapshot : Names \cup {None}, status : Statuses,
         attached : SUBSET Documents, version : 1 .. MaxRecordVersion]
ASSUME RecordRowAssumption == None \notin Rows
NcDecisions == [role : {"LEAD"}, action : {"APPROVE", "REJECT"}, by : Clerks,
              version : 1 .. MaxRecordVersion]
FollowUps == [type : ActionTypes, role : {"INSPECTOR", "LEAD"}]

RecordTypeOK ==
  /\ ncr \in [Records -> Rows \cup {None}]
  /\ \A n \in Records : decisions[n] \subseteq NcDecisions /\ followUps[n] \subseteq FollowUps
  /\ called \in [Ways -> Names]
  /\ copy \in [Clerks -> [Records -> Rows \cup {None}]]
  /\ arriving \in [Clerks -> [Records -> Rows \cup {None}] \cup {None}]
  /\ edited \in [Clerks -> [Records -> Quantities \cup {None}]]

NoRows == [n \in Records |-> None]
InitRecord ==
  /\ ncr = NoRows
  /\ decisions = [n \in Records |-> {}]
  /\ followUps = [n \in Records |-> {}]
  /\ called = [w \in Ways |-> "name"]
  /\ copy = [c \in Clerks |-> NoRows]
  /\ arriving = [c \in Clerks |-> None]
  /\ edited = [c \in Clerks |-> NoRows]

-----------------------------------------------------------------------------
(* The server.                                                              *)
NumberUsed(n, number) == \E m \in Records \ {n} : ncr[m] # None /\ ncr[m].number = number
SnapshotOf(way) == IF way = None THEN None ELSE called[way]

CreateNonconformance(n, body) ==
  /\ ncr[n] = None /\ Valid(body) /\ ~NumberUsed(n, body.number)
  /\ ncr' = [ncr EXCEPT ![n] =
       [number |-> body.number, quantity |-> body.quantity, way |-> body.way,
        snapshot |-> SnapshotOf(body.way), status |-> body.status,
        attached |-> {}, version |-> 1]]
  /\ UNCHANGED <<decisions, followUps, called, copy, arriving, edited>>

(* If-Match is the version of the clerk's copy, and the trigger of an        *)
(* approved record refuses every UPDATE of it: 409, and nothing happens.     *)
NeverFrozen(n) == FALSE                                  \* mutant
Frozen(n) == ncr[n].status = "APPROVED"
MayWrite(c, n) ==
  /\ copy[c][n] # None
  /\ copy[c][n].version = ncr[n].version
  /\ ~Frozen(n)
  /\ ncr[n].version < MaxRecordVersion                 \* bound of the model

SnapshotAfter(n, body) ==
  IF body.way = ncr[n].way THEN ncr[n].snapshot ELSE SnapshotOf(body.way)

UpdateNonconformance(c, n, body) ==
  /\ MayWrite(c, n) /\ Valid(body) /\ ~NumberUsed(n, body.number)
  /\ ncr' = [ncr EXCEPT ![n] =
       [@ EXCEPT !.number = body.number, !.quantity = body.quantity, !.way = body.way,
                 !.snapshot = SnapshotAfter(n, body), !.status = body.status,
                 !.version = ncr[n].version + 1]]
  /\ UNCHANGED <<decisions, followUps, called, arriving>>

Outcome(action) == IF action = "APPROVE" THEN "APPROVED" ELSE "REJECTED"
ApproveOrReject(c, n, action) ==
  /\ RoleOf(c) = "LEAD" /\ MayWrite(c, n)
  /\ ncr' = [ncr EXCEPT ![n] = [@ EXCEPT !.status = Outcome(action),
                                         !.version = ncr[n].version + 1]]
  /\ decisions' = [decisions EXCEPT ![n] = @ \cup
       {[role |-> "LEAD", action |-> action, by |-> c, version |-> ncr[n].version + 1]}]
  /\ UNCHANGED <<followUps, called, arriving>>

(* A document is attached or detached, and the record's row with it.         *)
RowUntouched(n, documents) == [ncr EXCEPT ![n].attached = documents]    \* mutant
Attached(n, documents) ==
  [ncr EXCEPT ![n] = [@ EXCEPT !.attached = documents, !.version = ncr[n].version + 1]]
AddAttachment(c, n, d) ==
  /\ MayWrite(c, n) /\ d \notin ncr[n].attached
  /\ ncr' = Attached(n, ncr[n].attached \cup {d})
  /\ UNCHANGED <<decisions, followUps, called, copy, arriving, edited>>
DeleteAttachment(c, n, d) ==
  /\ MayWrite(c, n) /\ d \in ncr[n].attached
  /\ ncr' = Attached(n, ncr[n].attached \ {d})
  /\ UNCHANGED <<decisions, followUps, called, copy, arriving, edited>>

(* Follow-up actions are only added, to a record in any status, without its  *)
(* lock or its version; the last one is a LEAD's.                            *)
CreateAction(c, n, type) ==
  /\ ncr[n] # None
  /\ RoleOf(c) \in IF type = "COMPLETION" THEN {"LEAD"} ELSE {"INSPECTOR", "LEAD"}
  /\ followUps' = [followUps EXCEPT ![n] = @ \cup {[type |-> type, role |-> RoleOf(c)]}]
  /\ UNCHANGED <<ncr, decisions, called, copy, arriving, edited>>

(* A disposition is renamed where the dispositions are kept: no route does.  *)
RenameDisposition(w) ==
  /\ called[w] = "name" /\ called' = [called EXCEPT ![w] = "another name"]
  /\ UNCHANGED <<ncr, decisions, followUps, copy, arriving, edited>>

-----------------------------------------------------------------------------
(* The workspace: the list is read, and shown later; what was typed is gone  *)
(* with the copy it was typed over.                                          *)
Ask(c) ==
  /\ arriving[c] = None /\ arriving' = [arriving EXCEPT ![c] = ncr]
  /\ UNCHANGED <<ncr, decisions, followUps, called, copy, edited>>
Show(c) ==
  /\ arriving[c] # None
  /\ copy' = [copy EXCEPT ![c] = arriving[c]]
  /\ edited' = [edited EXCEPT ![c] = NoRows]
  /\ arriving' = [arriving EXCEPT ![c] = None]
  /\ UNCHANGED <<ncr, decisions, followUps, called>>

(* A saved, approved or rejected record is followed by a list of its own,    *)
(* shown while an older one may still arrive.                                *)
ShowAfter(c) ==
  /\ copy' = [copy EXCEPT ![c] = ncr']
  /\ edited' = [edited EXCEPT ![c] = NoRows]

TypeQuantity(c, n, quantity) ==
  /\ copy[c][n] # None /\ copy[c][n].status # "APPROVED"
  /\ edited' = [edited EXCEPT ![c][n] = quantity]
  /\ UNCHANGED <<ncr, decisions, followUps, called, copy, arriving>>

(* What the workspace sends: the fields it shows, and no disposition.        *)
WorkspaceBody(c, n) ==
  [number |-> copy[c][n].number,
   quantity |-> IF edited[c][n] = None THEN copy[c][n].quantity ELSE edited[c][n],
   way |-> None,
   status |-> copy[c][n].status]

HandleUpdate(c, n) ==
  /\ MayWrite(c, n) /\ copy[c][n].status # "APPROVED"
  /\ UpdateNonconformance(c, n, WorkspaceBody(c, n)) /\ ShowAfter(c)
HandleDecision(c, n, action) == ApproveOrReject(c, n, action) /\ ShowAfter(c)

(* A client of the API sends any body.                                       *)
Put(c, n, body) == UpdateNonconformance(c, n, body) /\ UNCHANGED <<copy, edited>>

NextRecord ==
  \/ \E n \in Records, body \in Bodies : CreateNonconformance(n, body)
  \/ \E c \in Clerks, n \in Records :
       /\ ncr[n] # None
       /\ \/ \E body \in Bodies : Put(c, n, body)
          \/ HandleUpdate(c, n)
          \/ \E action \in {"APPROVE", "REJECT"} : HandleDecision(c, n, action)
          \/ \E d \in Documents : AddAttachment(c, n, d) \/ DeleteAttachment(c, n, d)
          \/ \E type \in ActionTypes : CreateAction(c, n, type)
          \/ \E q \in Quantities : TypeQuantity(c, n, q)
  \/ \E c \in Clerks : Ask(c) \/ Show(c)
  \/ \E w \in Ways : RenameDisposition(w)

RecordSpec == InitRecord /\ [][NextRecord]_recordVars

-----------------------------------------------------------------------------
(* Approved is the end: nothing that is done to an approved record later,    *)
(* by whom and through whichever route, changes it, its documents or the     *)
(* decisions about it (hyc_deny_approved_nonconformance_mutation, and the    *)
(* updated_at that every handler writes).                                    *)
ApprovedRecordStays ==
  [][\A n \in Records : ncr[n] # None /\ ncr[n].status = "APPROVED" =>
       ncr'[n] = ncr[n] /\ decisions'[n] = decisions[n]]_recordVars

(* Nobody decides about, or overwrites, what they have not seen: a change of *)
(* a record, its documents included, was made by a clerk whose workspace      *)
(* showed the record exactly as it was (If-Match).                           *)
NothingUnseenIsLost ==
  [][\A n \in Records : ncr[n] # None /\ ncr'[n] # ncr[n] =>
       \E c \in Clerks : copy[c][n] = ncr[n]]_recordVars
=============================================================================
