---------------------------- MODULE MasterRecords ----------------------------
(***************************************************************************)
(* Suppliers, materials and material models: their routes                     *)
(* (hyc_api/routes/masters.py) and their import from a workbook - preview,     *)
(* apply, revert (hyc_api/master_import.py, services/master_import.py and the  *)
(* trigger of the migration 0011).                                            *)
(*                                                                         *)
(* A handler locks the row it changes, and the import its batch, and commits  *)
(* once: one step.  SQLite, which the tests use, has no trigger.              *)
(***************************************************************************)
EXTENDS NoValue, Naturals, Sequences, FiniteSets

CONSTANTS
  Entities,        \* of SUPPLIER, MATERIAL and MATERIAL_MODEL
  Codes,           \* codes
  RecordNames,     \* names, the blank one among them
  Blank,           \* the name that is empty
  Editors,         \* who edits records
  Batches,         \* imports
  Sheets,          \* the rows of a workbook below its header: sequences of code and name
  Databases,       \* of "postgresql" and "sqlite"
  MaxMasters,      \* bound of the model: records ever made
  MaxMasterVersion \* bound of the model: the versions a record reaches

ASSUME MasterAssumption ==
  /\ None \notin Codes /\ Blank \in RecordNames
  /\ Entities \subseteq {"SUPPLIER", "MATERIAL", "MATERIAL_MODEL"}
  /\ Sheets \subseteq Seq([code : Codes \cup {None}, name : RecordNames])
  /\ MaxMasters \in Nat /\ MaxMasterVersion \in Nat \ {0}

VARIABLES
  masters,  \* the records, in the order they were made
  batch,    \* import -> its batch and the rows of its preview, or None
  shown,     \* editor -> a record it read and the version it had, or None
  database  \* what the service runs on

masterVars == <<masters, batch, shown, database>>

Ids == 1 .. MaxMasters
Master == [entity : Entities, code : Codes \cup {None}, name : RecordNames,
           version : 1 .. MaxMasterVersion, deleted : BOOLEAN, parent : Ids \cup {None}]
PlannedRow == [action : {"CREATE", "REJECT"}, code : Codes \cup {None}, name : RecordNames,
               target : Ids \cup {None}]
MasterBatch == [entity : Entities, state : {"PREVIEWED", "APPLIED", "REVERTED"},
                answer : {"ok", "conflict", "server error"}, rows : Seq(PlannedRow)]
ASSUME MasterBatchAssumption == None \notin MasterBatch

MasterTypeOK ==
  /\ masters \in Seq(Master) /\ Len(masters) <= MaxMasters
  /\ batch \in [Batches -> MasterBatch \cup {None}]
  /\ \A e \in Editors : shown[e] # None =>
       shown[e].id \in DOMAIN masters /\ shown[e].version <= masters[shown[e].id].version
  /\ database \in Databases

InitMaster ==
  /\ masters = <<>>
  /\ batch = [b \in Batches |-> None]
  /\ shown = [e \in Editors |-> None]
  /\ database \in Databases

-----------------------------------------------------------------------------
(* The code of a record is unique among all of its entity, the deleted ones   *)
(* included; a record need not have one.                                     *)
CodeFree(entity, code, id) ==
  code = None \/ \A i \in DOMAIN masters \ {id} :
                   ~(masters[i].entity = entity /\ masters[i].code = code)
LiveMaster(i) == ~masters[i].deleted
Parents(entity) ==
  IF entity = "MATERIAL_MODEL"
  THEN {i \in DOMAIN masters : masters[i].entity = "MATERIAL" /\ LiveMaster(i)}
  ELSE {None}

NewMaster(entity, code, name, parent) ==
  [entity |-> entity, code |-> code, name |-> name, version |-> 1, deleted |-> FALSE,
   parent |-> parent]

CreateMaster(entity, code, name, parent) ==
  /\ Len(masters) < MaxMasters                           \* bound of the model
  /\ name # Blank /\ CodeFree(entity, code, 0)
  /\ masters' = Append(masters, NewMaster(entity, code, name, parent))
  /\ UNCHANGED <<batch, shown, database>>

ReadMaster(e, i) ==
  /\ LiveMaster(i)
  /\ shown' = [shown EXCEPT ![e] = [id |-> i, version |-> masters[i].version,
                                  code |-> masters[i].code, name |-> masters[i].name]]
  /\ UNCHANGED <<masters, batch, database>>

(* The version moves with the columns: a body that changes nothing writes    *)
(* nothing.                                                                  *)
AnyVersion(e) == LiveMaster(shown[e].id)                        \* mutant
StillSeen(e) == LiveMaster(shown[e].id) /\ masters[shown[e].id].version = shown[e].version

UpdateMaster(e, code, name) ==
  /\ shown[e] # None /\ StillSeen(e)
  /\ LET i == shown[e].id IN
     /\ name # Blank /\ CodeFree(masters[i].entity, code, i)
     /\ <<code, name>> # <<masters[i].code, masters[i].name>>
     /\ masters[i].version < MaxMasterVersion            \* bound of the model
     /\ masters' = [masters EXCEPT ![i].code = code, ![i].name = name,
                                   ![i].version = masters[i].version + 1]
  /\ UNCHANGED <<batch, shown, database>>

-----------------------------------------------------------------------------
(* build_master_import_plan: a row without a name, or whose code an earlier   *)
(* row has, is rejected; every other one is to be created.                   *)
Creatable(sheet, n) ==
  /\ sheet[n].name # Blank
  /\ sheet[n].code = None \/ \A m \in 1 .. n - 1 : sheet[m].code # sheet[n].code
PlanOf(sheet) ==
  [n \in DOMAIN sheet |->
     [action |-> IF Creatable(sheet, n) THEN "CREATE" ELSE "REJECT",
      code |-> sheet[n].code, name |-> sheet[n].name, target |-> None]]

PreviewImport(b, entity, sheet) ==
  /\ batch[b] = None
  /\ batch' = [batch EXCEPT ![b] = [entity |-> entity, state |-> "PREVIEWED", answer |-> "ok",
                                    rows |-> PlanOf(sheet)]]
  /\ UNCHANGED <<masters, shown, database>>

RowsOf(b) == batch[b].rows
Rejected(b) == \E n \in DOMAIN RowsOf(b) : RowsOf(b)[n].action = "REJECT"

(* The rows the records of a batch are inserted from, and what can refuse     *)
(* one of them: its code, the material a model must have, and the trigger    *)
(* that lets nobody write into a row of a preview where the new record is.    *)
CodesFree(b) ==
  \A n \in DOMAIN RowsOf(b) : CodeFree(batch[b].entity, RowsOf(b)[n].code, 0)
RowsWritable(b) == database = "sqlite" \/ RowsOf(b) = <<>>
Insertable(b) ==
  /\ CodesFree(b) /\ RowsWritable(b)
  /\ batch[b].entity # "MATERIAL_MODEL" \/ RowsOf(b) = <<>>

Made(b) == [n \in DOMAIN RowsOf(b) |->
              NewMaster(batch[b].entity, RowsOf(b)[n].code, RowsOf(b)[n].name, None)]
OneBefore(b) ==                                           \* mutant
  [n \in DOMAIN RowsOf(b) |-> [RowsOf(b)[n] EXCEPT !.target = Len(masters) + n - 1]]
Targeted(b) == [n \in DOMAIN RowsOf(b) |-> [RowsOf(b)[n] EXCEPT !.target = Len(masters) + n]]

RejectedToo(b) == batch[b].state = "PREVIEWED"            \* mutant
Appliable(b) == batch[b].state = "PREVIEWED" /\ ~Rejected(b)

ApplyImport(b) ==
  /\ batch[b] # None /\ Len(masters) + Len(RowsOf(b)) <= MaxMasters  \* bound of the model
  /\ IF ~Appliable(b)
       THEN batch' = [batch EXCEPT ![b].answer = "conflict"] /\ UNCHANGED masters
     ELSE IF ~Insertable(b)
       THEN batch' = [batch EXCEPT ![b].answer = "server error"] /\ UNCHANGED masters
     ELSE /\ masters' = masters \o Made(b)
          /\ batch' = [batch EXCEPT ![b] = [batch[b] EXCEPT !.state = "APPLIED", !.answer = "ok",
                                                           !.rows = Targeted(b)]]
  /\ UNCHANGED <<shown, database>>

MadeBy(b) == {RowsOf(b)[n].target : n \in DOMAIN RowsOf(b)}
NothingOf(b) == {}                                        \* mutant
Withdrawn(b) == MadeBy(b)
(* A deleted record keeps its code, and its version moves with deleted_at.    *)
RevertImport(b) ==
  /\ batch[b] # None
  /\ IF batch[b].state # "APPLIED"
       THEN batch' = [batch EXCEPT ![b].answer = "conflict"] /\ UNCHANGED masters
     ELSE /\ masters' = [i \in DOMAIN masters |->
               IF i \in Withdrawn(b) /\ LiveMaster(i)
               THEN [masters[i] EXCEPT !.deleted = TRUE, !.version = masters[i].version + 1]
               ELSE masters[i]]
          /\ batch' = [batch EXCEPT ![b] = [batch[b] EXCEPT !.state = "REVERTED", !.answer = "ok"]]
  /\ \A i \in DOMAIN masters : masters[i].version < MaxMasterVersion  \* bound of the model
  /\ UNCHANGED <<shown, database>>

NextMaster ==
  \/ \E entity \in Entities, code \in Codes \cup {None}, name \in RecordNames :
       \E parent \in Parents(entity) : CreateMaster(entity, code, name, parent)
  \/ \E e \in Editors :
       \/ \E i \in DOMAIN masters : ReadMaster(e, i)
       \/ \E code \in Codes \cup {None}, name \in RecordNames : UpdateMaster(e, code, name)
  \/ \E b \in Batches :
       \/ \E entity \in Entities, sheet \in Sheets : PreviewImport(b, entity, sheet)
       \/ ApplyImport(b) \/ RevertImport(b)

MasterSpec == InitMaster /\ [][NextMaster]_masterVars

-----------------------------------------------------------------------------
(* An import is applied whole, once, or not at all: the records that a batch  *)
(* made are those of its rows, each row one of its own, and there are none    *)
(* before it is applied; no two batches, and no editor, share one.            *)
AppliedWhole ==
  \A b \in Batches : batch[b] # None =>
    LET rows == RowsOf(b) IN
    IF batch[b].state = "PREVIEWED"
    THEN \A n \in DOMAIN rows : rows[n].target = None
    ELSE /\ \A n \in DOMAIN rows :
              /\ rows[n].action = "CREATE" /\ rows[n].target \in DOMAIN masters
              /\ masters[rows[n].target].entity = batch[b].entity
              /\ masters[rows[n].target].name # Blank
         /\ Cardinality(MadeBy(b)) = Len(rows)
         /\ \A a \in Batches \ {b} : batch[a] # None /\ batch[a].state # "PREVIEWED" =>
              MadeBy(a) \cap MadeBy(b) = {}

(* A reverted import leaves nothing of what it made in the lists, and no      *)
(* record that something else made leaves them.                              *)
RevertedWhole ==
  \A i \in DOMAIN masters :
    masters[i].deleted
      <=> \E b \in Batches : batch[b] # None /\ batch[b].state = "REVERTED" /\ i \in MadeBy(b)

(* An import is one act: it is there with all its records or with none, and    *)
(* its revert takes back those and no other (apply_master_import,              *)
(* revert_master_import).                                                     *)
ImportsAreWhole == AppliedWhole /\ RevertedWhole

(* An editor's change is made to the record it read: nothing another wrote    *)
(* in between is overwritten, and no record that was withdrawn is edited.     *)
EditsWhatWasRead ==
  [][\A i \in DOMAIN masters :
       masters'[i].version > masters[i].version /\ ~masters'[i].deleted =>
         \E e \in Editors : shown[e] # None /\ shown[e].id = i /\ ~masters[i].deleted
           /\ shown[e].code = masters[i].code /\ shown[e].name = masters[i].name]_masterVars
=============================================================================
