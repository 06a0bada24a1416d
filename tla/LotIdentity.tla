---------------------------- MODULE LotIdentity ----------------------------
(***************************************************************************)
(* The identity of material LOTs of one supplier and material: LotRepository *)
(* in hyc_data/repositories.py, hyc_domain/lots.py, the triggers of          *)
(* migration 0002 on material_lots and receipt_lot_allocations, and the LOT  *)
(* an intake (hyc_api/services/p3.py) allocates its receipt to.              *)
(*                                                                         *)
(* promote_provisional and guarded_merge lock the row of the LOT;            *)
(* get_or_create_canonical updates the row of the survivor under its         *)
(* optimistic version; the unique key on the identity orders two creations.  *)
(* Each is one action.  An intake reads the LOT without a lock, so that its  *)
(* reading and its allocation are two.                                      *)
(***************************************************************************)
EXTENDS NoValue, Naturals, FiniteSets

CONSTANTS
  Lots,          \* identities of material_lots rows
  Keys,          \* normalized supplier LOT numbers
  Evidence,      \* production date or package mark read from a document
  Receipts,      \* inbound receipts, one allocation each
  Stewards,      \* requests that promote or merge a LOT
  MaxMergeDepth, \* bound of _surviving_lot on the chain it follows
  MaxVersion     \* bound on lock_version: no request changes a row beyond it

LotStatuses == {"CANONICAL", "PROVISIONAL", "CONFLICT_REVIEW", "MERGED"}
IntakeStates == {"found", "allocated", "refused"}

ASSUME LotAssumption ==
  /\ None \notin Lots \cup Keys \cup Evidence \cup LotStatuses \cup IntakeStates
  /\ MaxMergeDepth \in Nat \ {0} /\ MaxVersion \in Nat
  /\ IsFiniteSet(Lots)

VARIABLES
  lots,      \* material_lots: LOT -> its row, NoLot before the INSERT
  intake,    \* receipt -> its intake: the number it came with, the LOT it found, how it ended
  seen       \* steward -> the LOT row it decides on

vars == <<lots, intake, seen>>

LotRow == [status : LotStatuses, key : Keys \cup {None}, into : Lots \cup {None},
           evidence : Evidence \cup {None}, version : Nat]
NoLot == [status |-> None]
NoIntake == [state |-> None]
Intakes == [state : IntakeStates, number : Keys \cup {None}, lot : Lots] \cup {NoIntake}
NoSight == [lot |-> None]
Sights == [lot : Lots, version : Nat, evidence : Evidence \cup {None}] \cup {NoSight}

TypeOK ==
  /\ lots \in [Lots -> LotRow \cup {NoLot}]
  /\ intake \in [Receipts -> Intakes]
  /\ seen \in [Stewards -> Sights]

-----------------------------------------------------------------------------
Exists(l) == lots[l] # NoLot
Status(l) == lots[l].status
WithKey(k) == {l \in Lots : Exists(l) /\ lots[l].key = k}
Untaken(k) == FALSE                                  \* mutant
Taken(k) == WithKey(k) # {}

(* LotIdentity.key_and_status: a number that normalizes to nothing leaves   *)
(* the LOT provisional.                                                     *)
IdentityStatus(k) == IF k = None THEN "PROVISIONAL" ELSE "CANONICAL"
NewRow(k, e) ==
  [status |-> IdentityStatus(k), key |-> k, into |-> None, evidence |-> e, version |-> 1]

(* _surviving_lot: the chain of merged_into_id, followed for MaxMergeDepth  *)
(* rows, must have reached a canonical LOT.                                 *)
Chain(l) ==
  LET at[n \in 0..MaxMergeDepth] ==
        IF n = 0 THEN l
        ELSE IF Status(at[n - 1]) = "MERGED" THEN lots[at[n - 1]].into ELSE at[n - 1]
  IN  at
Survivor(l) == Chain(l)[MaxMergeDepth - 1]
Resolves(l) == Status(Survivor(l)) = "CANONICAL"

(* A change of a row, with the version the ORM counts for it.               *)
Filled(row, e) == [row EXCEPT !.evidence = e, !.version = row.version + 1]
Conflicting(row, e) ==
  [row EXCEPT !.status = "CONFLICT_REVIEW", !.evidence = e, !.version = row.version + 1]
Promoted(row, k, e) ==
  [row EXCEPT !.status = "CANONICAL", !.key = k, !.evidence = e, !.version = row.version + 1]
MergedInto(row, target) ==
  [row EXCEPT !.status = "MERGED", !.into = target, !.version = row.version + 1]

(* _apply_conflict_evidence: what the LOT lacks is filled in, what it has   *)
(* is kept, and a disagreement puts it into conflict review.                *)
SilentlyFilled(row, e) ==                            \* mutant
  IF e \in {None, row.evidence} THEN row
  ELSE IF row.evidence = None THEN [row EXCEPT !.evidence = e]
  ELSE Conflicting(row, row.evidence)
BothKept(row, e) == Filled(row, {row.evidence, e})   \* mutant
WithEvidence(row, e) ==
  IF e \in {None, row.evidence} \/ (row.evidence # None /\ row.status = "CONFLICT_REVIEW")
    THEN row
  ELSE IF row.evidence = None THEN Filled(row, e)
  ELSE Conflicting(row, row.evidence)

-----------------------------------------------------------------------------
Init ==
  /\ lots = [l \in Lots |-> NoLot]
  /\ intake = [r \in Receipts |-> NoIntake]
  /\ seen = [s \in Stewards |-> NoSight]

(* get_or_create_canonical, with no row of that identity or without one.    *)
CreateLot(l, k, e) ==
  /\ ~Exists(l)
  /\ k = None \/ ~Taken(k)
  /\ lots' = [lots EXCEPT ![l] = NewRow(k, e)]
  /\ UNCHANGED <<intake, seen>>

(* get_or_create_canonical again: the evidence goes to the survivor.        *)
Unresolved(l) == l                                   \* mutant
Reentered(l) == IF Status(l) = "MERGED" THEN Survivor(l) ELSE l

ReenterLot(l, k, e) ==
  /\ l \in WithKey(k)
  /\ Status(l) = "MERGED" => Resolves(l)
  /\ lots[Reentered(l)].version < MaxVersion
  /\ lots' = [lots EXCEPT ![Reentered(l)] = WithEvidence(@, e)]
  /\ UNCHANGED <<intake, seen>>

(* A steward reads the row it is going to promote or to merge.              *)
Look(s, l) ==
  /\ Exists(l)
  /\ seen' = [seen EXCEPT ![s] = [lot |-> l, version |-> lots[l].version,
                                  evidence |-> lots[l].evidence]]
  /\ UNCHANGED <<lots, intake>>

Expected(s, l) ==
  seen[s].lot = l /\ seen[s].version = lots[l].version /\ lots[l].version < MaxVersion

(* promote_provisional: the number becomes known.  A LOT that has it        *)
(* already must resolve, and puts this one into conflict review.            *)
PromoteProvisional(s, l, k, e) ==
  /\ Expected(s, l)
  /\ Status(l) = "PROVISIONAL" /\ lots[l].key = None
  /\ \A other \in WithKey(k) : Resolves(other)
  /\ lots' = [lots EXCEPT ![l] = IF Taken(k) THEN Conflicting(@, e) ELSE Promoted(@, k, e)]
  /\ seen' = [seen EXCEPT ![s] = NoSight]
  /\ UNCHANGED intake

(* guarded_merge, asked for by a LEAD and another ADMIN with a reason.      *)
Reference(target) == Exists(target)                  \* mutant
MergeTarget(target) ==
  Exists(target) /\ Status(target) = "CANONICAL"

GuardedMerge(s, l, target) ==
  /\ Expected(s, l)
  /\ Status(l) = "CONFLICT_REVIEW"
  /\ target # l /\ MergeTarget(target)
  /\ lots' = [lots EXCEPT ![l] = MergedInto(@, target)]
  /\ seen' = [seen EXCEPT ![s] = NoSight]
  /\ UNCHANGED intake

-----------------------------------------------------------------------------
(* create_intake: a LOT of that number, whatever its status is; for a       *)
(* number that normalizes to nothing, any LOT without one (IS NULL).        *)
FindLot(r, k, l) ==
  /\ intake[r] = NoIntake
  /\ l \in WithKey(k)
  /\ intake' = [intake EXCEPT ![r] = [state |-> "found", number |-> k, lot |-> l]]
  /\ UNCHANGED <<lots, seen>>

(* ... or a new one, inserted and allocated in one transaction.             *)
AllocateNewLot(r, k, l) ==
  /\ intake[r] = NoIntake
  /\ ~Taken(k) /\ ~Exists(l)
  /\ lots' = [lots EXCEPT ![l] = NewRow(k, None)]
  /\ intake' = [intake EXCEPT ![r] = [state |-> "allocated", number |-> k, lot |-> l]]
  /\ UNCHANGED seen

(* hyc_require_live_allocation_lot refuses a merged LOT.                    *)
Live(l) == Status(l) # "MERGED"

AllocateFoundLot(r) ==
  /\ intake[r].state = "found"
  /\ intake' = [intake EXCEPT ![r].state = IF Live(intake[r].lot) THEN "allocated" ELSE "refused"]
  /\ UNCHANGED <<lots, seen>>

-----------------------------------------------------------------------------
Next ==
  \/ \E l \in Lots, k \in Keys \cup {None}, e \in Evidence \cup {None} : CreateLot(l, k, e)
  \/ \E l \in Lots, k \in Keys, e \in Evidence \cup {None} : ReenterLot(l, k, e)
  \/ \E s \in Stewards, l \in Lots : Look(s, l)
  \/ \E s \in Stewards, l \in Lots, k \in Keys, e \in Evidence \cup {None} :
       PromoteProvisional(s, l, k, e)
  \/ \E s \in Stewards, l, target \in Lots : GuardedMerge(s, l, target)
  \/ \E r \in Receipts, k \in Keys \cup {None}, l \in Lots : FindLot(r, k, l)
  \/ \E r \in Receipts, k \in Keys \cup {None}, l \in Lots : AllocateNewLot(r, k, l)
  \/ \E r \in Receipts : AllocateFoundLot(r)

Spec == Init /\ [][Next]_vars

-----------------------------------------------------------------------------
(* Merging never closes a circle and never leads nowhere: from every LOT    *)
(* the references end at one that has a number of its own or is not merged  *)
(* (guarded_merge takes only canonical targets, and nothing leaves MERGED). *)
ChainsEnd ==
  \A l \in Lots : Exists(l) =>
    \E n \in 0..Cardinality(Lots) :
      LET at[i \in 0..n] == IF i = 0 THEN l ELSE lots[at[i - 1]].into
      IN  /\ \A i \in 0..n : at[i] \in Lots /\ Exists(at[i])
          /\ \A i \in 0..n : i < n <=> Status(at[i]) = "MERGED"
          /\ n > 0 => lots[at[n]].key # None

(* A LOT number, once it names a LOT, names it for good, and names no other *)
(* (promotions and re-entries never move a number).                         *)
NumbersStay ==
  [][\A k \in Keys : /\ WithKey(k) \subseteq WithKey(k)'
                     /\ \A l, m \in WithKey(k)' : l = m]_vars

(* What is promoted or merged is what the request saw: a LOT at the version *)
(* a steward expects still has the evidence it was shown.                   *)
StewardsSeeEvidence ==
  \A s \in Stewards, l \in Lots :
    Exists(l) /\ Expected(s, l) => seen[s].evidence = lots[l].evidence

(* Evidence only reaches the LOT that survives: a merged LOT stays as it    *)
(* was when it was merged.                                                  *)
MergedLotsRest ==
  [][\A l \in Lots : Status(l) = "MERGED" => lots'[l] = lots[l]]_vars

(* An identity once settled stays settled: a number names its LOT, and a    *)
(* LOT that was merged away is not touched (LotRepository).                 *)
IdentitiesStand == NumbersStay /\ MergedLotsRest

-----------------------------------------------------------------------------
(* What a steward was shown is what the LOT of that version still has, or   *)
(* is older than the LOT.                                                   *)
SightsAge ==
  \A s \in Stewards : seen[s] # NoSight =>
    LET l == seen[s].lot IN
    /\ Exists(l)
    /\ seen[s].version <= lots[l].version
    /\ seen[s].version = lots[l].version => seen[s].evidence = lots[l].evidence

(* The inductive invariant behind the properties of an identity.            *)
IdentityInvariant ==
  /\ TypeOK
  /\ \A k \in Keys : \A l, m \in WithKey(k) : l = m
  /\ SightsAge

=============================================================================
