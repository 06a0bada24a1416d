------------------------------ MODULE MCRecords ------------------------------
(* Small instances of the components that keep records around the cases:     *)
(* nonconformances, master data, aliases, the ingest of a directory, the       *)
(* workbench on which a case is prepared, the samples it is judged on, and     *)
(* the lease of a request.  A behaviour is one of one of them, the others      *)
(* resting as they began.                                                    *)
EXTENDS Nonconformance, MasterRecords, Aliases, Ingest, Workbench, Leases, MCSampling, TLC

CONSTANTS clerk, inspector, way, f1

VARIABLE desk      \* the component whose behaviour this is

Desks == {"records", "masters", "aliases", "ingest", "workbench", "leases", "samples"}
deskVars ==
  <<recordVars, masterVars, aliasVars, ingestVars, caseVars, leaseVars, item, desk>>

(* A lead and an inspector; bodies that leave a disposition open and name     *)
(* one, in three of the statuses a client may send.                         *)
MCRoleOf(c) == IF c = clerk THEN "LEAD" ELSE "INSPECTOR"
NcBody(w, s) == [number |-> 1, quantity |-> 1, way |-> w, status |-> s]
MCBodies == {NcBody(way, "DRAFT"), NcBody(None, "SUBMITTED"), NcBody(way, "APPROVED")}

(* Sheets with a row without a code, with a code twice and with a blank row.  *)
SheetRow(code, name) == [code |-> code, name |-> name]
MCSheets == {<<SheetRow(1, "a"), SheetRow(None, "a")>>, <<SheetRow(1, "a"), SheetRow(1, "a")>>,
             <<SheetRow(None, "a")>>}

(* One path, listed.                                                         *)
MCEntries == <<f1>>

(* Rows of samples: a finite mean, one that is none, one out of the limits,    *)
(* one off the grid of the limits, and one that is no decimal.                *)
MCNumericRows == {<<1>>, <<0, 1, 1>>, <<3, 2>>, <<1, 2>>, <<None>>}
MCNominalRows == {<<>>, <<"CONFORMING", "NONCONFORMING">>, <<"CONFORMING">>}

RestingItem ==
  [policy |-> [source |-> "INTERNAL_ONLY", missing |-> "HOLD"],
   rule |-> Rule("GTE", [lower |-> 2]), sample |-> "MANUAL", mapped |-> TRUE,
   supplier |-> << >>, internal |-> << >>]

InitDesks ==
  /\ desk \in Desks
  /\ InitRecord /\ InitMaster /\ InitAlias /\ InitIngest /\ InitCase /\ InitLease
  /\ InitItem
  /\ desk # "masters" => database = "postgresql"
  /\ desk # "samples" => item = RestingItem

NextDesks ==
  /\ UNCHANGED desk
  /\ \/ /\ desk = "records" /\ NextRecord
        /\ UNCHANGED <<masterVars, aliasVars, ingestVars, caseVars, leaseVars, item>>
     \/ /\ desk = "masters" /\ NextMaster
        /\ UNCHANGED <<recordVars, aliasVars, ingestVars, caseVars, leaseVars, item>>
     \/ /\ desk = "aliases" /\ NextAlias
        /\ UNCHANGED <<recordVars, masterVars, ingestVars, caseVars, leaseVars, item>>
     \/ /\ desk = "ingest" /\ NextIngest
        /\ UNCHANGED <<recordVars, masterVars, aliasVars, caseVars, leaseVars, item>>
     \/ /\ desk = "workbench" /\ NextCase
        /\ UNCHANGED <<recordVars, masterVars, aliasVars, ingestVars, leaseVars, item>>
     \/ /\ desk = "leases" /\ NextLease
        /\ UNCHANGED <<recordVars, masterVars, aliasVars, ingestVars, caseVars, item>>
     \/ /\ desk = "samples" /\ NextItem
        /\ UNCHANGED <<recordVars, masterVars, aliasVars, ingestVars, caseVars, leaseVars>>

DesksSpec == InitDesks /\ [][NextDesks]_deskVars

(* What each component keeps has its type.                                   *)
RecordsTypeOK ==
  /\ RecordTypeOK /\ MasterTypeOK /\ AliasTypeOK /\ IngestTypeOK
  /\ ItemTypeOK /\ LeaseTypeOK

(* Nobody overwrites what they have not seen, on whichever of the routes that  *)
(* compare If-Match: nonconformances, master data, aliases.                  *)
ChangesWereRead == NothingUnseenIsLost /\ EditsWhatWasRead /\ AliasChangesWereRead
=============================================================================
