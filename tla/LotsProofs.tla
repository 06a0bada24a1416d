----------------------------- MODULE LotsProofs -----------------------------
(***************************************************************************)
(* Proofs about LOTs: their identity, their traces and the figures made of *)
(* their inspections.  A number names one LOT for good, evidence never     *)
(* reaches a merged LOT, stewards decide on the evidence they saw, and a   *)
(* merged LOT leads to one that is not.  A trace is the least set the      *)
(* search can stop at. A decision is counted on the one day it was made,   *)
(* and a report over days that are gone stays as it was.                   *)
(***************************************************************************)
EXTENDS MCLots, FiniteSums

-----------------------------------------------------------------------------
(* Identity                                                                   *)
-----------------------------------------------------------------------------
(* The rows a step may leave behind for a LOT it changes: the version grows, *)
(* and the number, if there was one, stays.                                  *)
Succeeds(new, old) ==
  /\ new \in LotRow
  /\ new.version > old.version
  /\ old.key # None => new.key = old.key

(* A stored row is not the absence of a row.                                *)
LEMMA RowIsRow == ASSUME NEW row \in LotRow PROVE row # NoLot
BY LotAssumption DEF LotRow, NoLot, LotStatuses

(* The changes of a row the operations make.                                *)
LEMMA RowFields ==
  ASSUME NEW row \in LotRow
  PROVE  /\ row.version \in Nat /\ row.version + 1 \in Nat /\ row.version + 1 > row.version
         /\ row.evidence \in Evidence \cup {None} /\ row.key \in Keys \cup {None}
BY DEF LotRow

(* Taking the first evidence moves a row on and keeps its number.           *)
LEMMA RowFilled ==
  ASSUME NEW row \in LotRow, NEW e \in Evidence \cup {None}
  PROVE  Succeeds(Filled(row, e), row) /\ Filled(row, e).key = row.key
BY RowFields DEF LotRow, Filled, Succeeds

(* Marking a conflict moves a row on and keeps its number.                  *)
LEMMA RowConflicting ==
  ASSUME NEW row \in LotRow, NEW e \in Evidence \cup {None}
  PROVE  Succeeds(Conflicting(row, e), row) /\ Conflicting(row, e).key = row.key
BY RowFields DEF LotRow, LotStatuses, Conflicting, Succeeds

(* A promotion moves an unnumbered row on and gives it the number.          *)
LEMMA RowPromoted ==
  ASSUME NEW row \in LotRow, row.key = None, NEW k \in Keys, NEW e \in Evidence \cup {None}
  PROVE  Succeeds(Promoted(row, k, e), row) /\ Promoted(row, k, e).key = k
BY RowFields DEF LotRow, LotStatuses, Promoted, Succeeds

(* A merge moves a row on and keeps its number.                             *)
LEMMA RowMerged ==
  ASSUME NEW row \in LotRow, NEW l \in Lots
  PROVE  Succeeds(MergedInto(row, l), row) /\ MergedInto(row, l).key = row.key
BY RowFields DEF LotRow, LotStatuses, MergedInto, Succeeds

(* WithEvidence leaves the row alone or moves it on.                         *)
LEMMA EvidenceMoves ==
  ASSUME NEW row \in LotRow, NEW e \in Evidence \cup {None}
  PROVE  \/ WithEvidence(row, e) = row
         \/ Succeeds(WithEvidence(row, e), row) /\ WithEvidence(row, e).key = row.key
<1>1. CASE WithEvidence(row, e) = row
  BY <1>1
<1>2. CASE WithEvidence(row, e) = Filled(row, e)
  BY <1>2, RowFilled
<1>3. CASE WithEvidence(row, e) = Conflicting(row, row.evidence)
  BY <1>3, RowConflicting, RowFields
<1> QED
  BY <1>1, <1>2, <1>3 DEF WithEvidence

(* An inserted row is well formed and has the number it was given.          *)
LEMMA NewRowType ==
  ASSUME NEW k \in Keys \cup {None}, NEW e \in Evidence \cup {None}
  PROVE  NewRow(k, e) \in LotRow /\ NewRow(k, e).key = k
BY DEF NewRow, IdentityStatus, LotRow, LotStatuses

-----------------------------------------------------------------------------
(* Every step changes at most one LOT: it inserts it, with a number no other *)
(* has, or moves a LOT that is not merged to a later version, giving it at   *)
(* most a number no other has.                                               *)
Inserts(l, row) ==
  /\ ~Exists(l) /\ row \in LotRow
  /\ row.key # None => ~Taken(row.key)
Moves(l, row) ==
  /\ Exists(l) /\ Status(l) # "MERGED" /\ Succeeds(row, lots[l])
  /\ lots[l].key = None /\ row.key # None => ~Taken(row.key)
OneChange ==
  \/ lots' = lots
  \/ \E l \in Lots, row \in LotRow :
       /\ lots' = [lots EXCEPT ![l] = row]
       /\ Inserts(l, row) \/ Moves(l, row)

(* No step shows a steward anything but the LOT as it is.                    *)
SightOf(l) == [lot |-> l, version |-> lots[l].version, evidence |-> lots[l].evidence]
SightsHonest ==
  \A s \in Stewards :
    \/ seen'[s] \in {seen[s], NoSight}
    \/ lots' = lots /\ \E l \in Lots : Exists(l) /\ seen'[s] = SightOf(l)

(* Every operation changes at most one LOT, and shows stewards only LOTs as *)
(* they are.                                                                *)
LEMMA StepShape ==
  ASSUME TypeOK, [Next]_vars
  PROVE  OneChange /\ SightsHonest /\ intake' \in [Receipts -> Intakes]
<1> USE DEF Intakes
<1>0. \A l \in Lots : Exists(l) => lots[l] \in LotRow
  BY DEF TypeOK, Exists
<1>1. ASSUME NEW l \in Lots, NEW k \in Keys \cup {None}, NEW e \in Evidence \cup {None}, CreateLot(l, k, e)
      PROVE  OneChange /\ seen' = seen /\ intake' = intake
  BY <1>1, NewRowType DEF CreateLot, OneChange, Inserts
<1>2. ASSUME NEW l \in Lots, NEW k \in Keys, NEW e \in Evidence \cup {None}, ReenterLot(l, k, e)
      PROVE  OneChange /\ seen' = seen /\ intake' = intake
  <2> DEFINE o == Reentered(l)
  <2>1. lots' = [lots EXCEPT ![o] = WithEvidence(lots[o], e)] /\ seen' = seen /\ intake' = intake
    BY <1>2 DEF ReenterLot
  <2>2. o \in Lots => Exists(o) /\ Status(o) # "MERGED"
    <3>1. CASE Status(l) = "MERGED"
      BY <1>2, <3>1, LotAssumption DEF ReenterLot, Reentered, Resolves, Status, Exists, NoLot, LotStatuses
    <3>2. CASE Status(l) # "MERGED"
      BY <1>2, <3>2 DEF ReenterLot, Reentered, WithKey
    <3> QED
      BY <3>1, <3>2
  <2> HIDE DEF o
  <2>3. CASE o \notin Lots
    <3>1. lots' = lots
      BY <2>1, <2>3 DEF TypeOK
    <3> QED
      BY <2>1, <3>1 DEF OneChange
  <2>4. CASE o \in Lots
    <3> DEFINE row == WithEvidence(lots[o], e)
    <3>1. lots[o] \in LotRow
      BY <1>0, <2>2, <2>4
    <3>2. row = lots[o] \/ (Succeeds(row, lots[o]) /\ row.key = lots[o].key)
      BY <3>1, EvidenceMoves
    <3>3. lots' = [lots EXCEPT ![o] = row]
      BY <2>1
    <3> HIDE DEF row
    <3>4. CASE row = lots[o]
      BY <2>1, <3>3, <3>4 DEF OneChange, TypeOK
    <3>5. CASE Succeeds(row, lots[o]) /\ row.key = lots[o].key
      <4>1. row \in LotRow
        BY <3>5 DEF Succeeds
      <4>2. Moves(o, row)
        BY <2>2, <2>4, <3>5 DEF Moves
      <4> QED
        BY <2>1, <2>4, <3>3, <4>1, <4>2 DEF OneChange
    <3> QED
      BY <3>2, <3>4, <3>5
  <2> QED
    BY <2>3, <2>4
<1>3. ASSUME NEW s \in Stewards, NEW l \in Lots, Look(s, l)
      PROVE  lots' = lots /\ SightsHonest /\ intake' = intake
  BY <1>3 DEF Look, SightsHonest, SightOf, TypeOK
<1>4. ASSUME NEW s \in Stewards, NEW l \in Lots, NEW k \in Keys, NEW e \in Evidence \cup {None},
             PromoteProvisional(s, l, k, e)
      PROVE  OneChange /\ SightsHonest /\ intake' = intake
  <2>1. Exists(l) /\ Status(l) # "MERGED" /\ lots[l].key = None
    BY <1>4, LotAssumption DEF PromoteProvisional, Exists, Status, NoLot, LotStatuses
  <2>2. lots[l] \in LotRow
    BY <1>0, <2>1
  <2>3. SightsHonest /\ intake' = intake
    BY <1>4 DEF PromoteProvisional, SightsHonest, TypeOK
  <2> DEFINE row == IF Taken(k) THEN Conflicting(lots[l], e) ELSE Promoted(lots[l], k, e)
  <2>4. lots' = [lots EXCEPT ![l] = row]
    BY <1>4 DEF PromoteProvisional
  <2>5. Moves(l, row)
    <3>1. CASE Taken(k)
      BY <2>1, <2>2, <3>1, RowConflicting DEF Moves
    <3>2. CASE ~Taken(k)
      BY <2>1, <2>2, <3>2, RowPromoted DEF Moves
    <3> QED
      BY <3>1, <3>2
  <2> HIDE DEF row
  <2> QED
    BY <2>3, <2>4, <2>5 DEF OneChange, Moves, Succeeds
<1>5. ASSUME NEW s \in Stewards, NEW l \in Lots, NEW t \in Lots, GuardedMerge(s, l, t)
      PROVE  OneChange /\ SightsHonest /\ intake' = intake
  <2> DEFINE row == MergedInto(lots[l], t)
  <2>1. Exists(l) /\ Status(l) # "MERGED"
    BY <1>5, LotAssumption DEF GuardedMerge, Exists, Status, NoLot, LotStatuses
  <2>2. lots[l] \in LotRow
    BY <1>0, <2>1
  <2>3. SightsHonest /\ intake' = intake
    BY <1>5 DEF GuardedMerge, SightsHonest, TypeOK
  <2>4. lots' = [lots EXCEPT ![l] = row]
    BY <1>5 DEF GuardedMerge
  <2>5. Moves(l, row)
    BY <2>1, <2>2, RowMerged DEF Moves
  <2> HIDE DEF row
  <2> QED
    BY <2>3, <2>4, <2>5 DEF OneChange, Moves, Succeeds
<1>6. ASSUME NEW r \in Receipts, NEW k \in Keys \cup {None}, NEW l \in Lots, FindLot(r, k, l)
      PROVE  lots' = lots /\ seen' = seen /\ intake' \in [Receipts -> Intakes]
  BY <1>6 DEF FindLot, TypeOK, IntakeStates
<1>7. ASSUME NEW r \in Receipts, NEW k \in Keys \cup {None}, NEW l \in Lots, AllocateNewLot(r, k, l)
      PROVE  OneChange /\ seen' = seen /\ intake' \in [Receipts -> Intakes]
  <2>1. intake' \in [Receipts -> Intakes]
    BY <1>7 DEF AllocateNewLot, TypeOK, IntakeStates
  <2> DEFINE row == NewRow(k, None)
  <2>2. row \in LotRow /\ row.key = k
    BY NewRowType
  <2>3. lots' = [lots EXCEPT ![l] = row] /\ seen' = seen
    BY <1>7 DEF AllocateNewLot
  <2> HIDE DEF row
  <2>4. Inserts(l, row)
    BY <1>7, <2>2 DEF AllocateNewLot, Inserts
  <2> QED
    BY <2>1, <2>2, <2>3, <2>4 DEF OneChange
<1>8. ASSUME NEW r \in Receipts, AllocateFoundLot(r)
      PROVE  lots' = lots /\ seen' = seen
             /\ intake' \in [Receipts -> Intakes]
  <2>1. intake[r] \in [state : IntakeStates, number : Keys \cup {None}, lot : Lots]
    BY <1>8, LotAssumption DEF AllocateFoundLot, TypeOK, NoIntake, IntakeStates
  <2> QED
    BY <1>8, <2>1 DEF AllocateFoundLot, TypeOK, IntakeStates
<1>9. CASE UNCHANGED vars
  BY <1>9 DEF vars, OneChange, SightsHonest, TypeOK
<1>10. (lots' = lots => OneChange) /\ (seen' = seen => SightsHonest)
  BY DEF OneChange, SightsHonest
<1>11. intake' = intake => intake' \in [Receipts -> Intakes]
  BY DEF TypeOK
<1> QED
  BY <1>1, <1>2, <1>3, <1>4, <1>5, <1>6, <1>7, <1>8, <1>9, <1>10, <1>11 DEF Next

-----------------------------------------------------------------------------
UniqueNumbers == \A k \in Keys : \A l, m \in WithKey(k) : l = m

(* What a change of one LOT means for the numbers, and for the other LOTs.   *)
LEMMA ChangeKeepsNumbers ==
  ASSUME TypeOK, UniqueNumbers, OneChange
  PROVE  \A k \in Keys : WithKey(k) \subseteq WithKey(k)' /\ \A a, b \in WithKey(k)' : a = b
<1>1. CASE lots' = lots
  BY <1>1 DEF WithKey, Exists, UniqueNumbers
<1>2. ASSUME NEW l \in Lots, NEW row \in LotRow, lots' = [lots EXCEPT ![l] = row],
             Inserts(l, row) \/ Moves(l, row), NEW k \in Keys
      PROVE  WithKey(k) \subseteq WithKey(k)' /\ \A a, b \in WithKey(k)' : a = b
  <2>1. \A x \in Lots : x # l => lots'[x] = lots[x]
    BY <1>2 DEF TypeOK
  <2>2. lots'[l] = row /\ row # NoLot
    BY <1>2, RowIsRow DEF TypeOK
  <2>3. \A x \in Lots : x # l => (x \in WithKey(k)' <=> x \in WithKey(k))
    BY <2>1 DEF WithKey, Exists
  <2>4. l \in WithKey(k)' <=> row.key = k
    BY <2>2 DEF WithKey, Exists
  <2>5. k # None
    BY LotAssumption
  <2>6. l \in WithKey(k) => row.key = k
    BY <1>2, <2>5 DEF WithKey, Inserts, Moves, Succeeds
  <2>7. row.key = k => l \in WithKey(k) \/ ~Taken(k)
    BY <1>2, <2>5 DEF WithKey, Inserts, Moves, Succeeds
  <2>8. WithKey(k) \subseteq Lots /\ WithKey(k)' \subseteq Lots
    BY DEF WithKey
  <2> QED
    BY <2>3, <2>4, <2>6, <2>7, <2>8 DEF Taken, UniqueNumbers
<1> QED
  BY <1>1, <1>2 DEF OneChange

(* A LOT that exists keeps existing, and changes only while it is not merged,*)
(* to a later version.                                                      *)
LEMMA ChangeMovesOn ==
  ASSUME TypeOK, OneChange, NEW l \in Lots, Exists(l)
  PROVE  /\ lots'[l] # NoLot
         /\ lots'[l] = lots[l] \/ (Status(l) # "MERGED" /\ lots'[l].version > lots[l].version)
<1>1. CASE lots' = lots
  BY <1>1 DEF Exists
<1>2. ASSUME NEW m \in Lots, NEW row \in LotRow, lots' = [lots EXCEPT ![m] = row],
             Inserts(m, row) \/ Moves(m, row)
      PROVE  /\ lots'[l] # NoLot
             /\ lots'[l] = lots[l] \/ (Status(l) # "MERGED" /\ lots'[l].version > lots[l].version)
  <2>1. CASE m = l
    BY <1>2, <2>1, RowIsRow DEF TypeOK, Exists, Inserts, Moves, Succeeds
  <2>2. CASE m # l
    BY <1>2, <2>2 DEF TypeOK, Exists
  <2> QED
    BY <2>1, <2>2
<1> QED
  BY <1>1, <1>2 DEF OneChange

(* One change of a LOT keeps every row, sight and intake well formed.       *)
LEMMA ChangeKeepsTypes ==
  ASSUME TypeOK, OneChange, SightsHonest, seen' \in [Stewards -> Sights],
         intake' \in [Receipts -> Intakes]
  PROVE  TypeOK'
<1>1. lots' \in [Lots -> LotRow \cup {NoLot}]
  BY DEF TypeOK, OneChange
<1> QED
  BY <1>1 DEF TypeOK

(* What a steward holds is a well formed sight or none.                     *)
LEMMA SightsType ==
  ASSUME TypeOK, [Next]_vars PROVE seen' \in [Stewards -> Sights]
<1>1. ASSUME NEW s \in Stewards, NEW l \in Lots, Look(s, l)
      PROVE  seen' \in [Stewards -> Sights]
  <2>1. lots[l] \in LotRow
    BY <1>1 DEF Look, TypeOK, Exists
  <2>2. SightOf(l) \in Sights
    BY <2>1, RowFields DEF SightOf, Sights
  <2> QED
    BY <1>1, <2>2 DEF Look, TypeOK, SightOf
<1>2. NoSight \in Sights
  BY DEF Sights
<1>3. ASSUME NEW s \in Stewards, seen' = [seen EXCEPT ![s] = NoSight]
      PROVE  seen' \in [Stewards -> Sights]
  BY <1>2, <1>3 DEF TypeOK
<1>4. seen' = seen => seen' \in [Stewards -> Sights]
  BY DEF TypeOK
<1> QED
  BY <1>1, <1>3, <1>4 DEF Next, vars, CreateLot, ReenterLot, PromoteProvisional, GuardedMerge,
     FindLot, AllocateNewLot, AllocateFoundLot

(* A sight is never newer than its LOT, and one of the same version shows   *)
(* the same evidence.                                                       *)
LEMMA SightsKeepAging ==
  ASSUME TypeOK, SightsAge, OneChange, SightsHonest
  PROVE  SightsAge'
<1> SUFFICES ASSUME NEW s \in Stewards, seen'[s] # NoSight
             PROVE  /\ lots'[seen'[s].lot] # NoLot
                    /\ seen'[s].version <= lots'[seen'[s].lot].version
                    /\ seen'[s].version = lots'[seen'[s].lot].version
                         => seen'[s].evidence = lots'[seen'[s].lot].evidence
  BY DEF SightsAge, Exists
<1>1. CASE seen'[s] = seen[s]
  <2> DEFINE l == seen[s].lot
  <2>1. seen[s] \in Sights /\ seen[s] # NoSight
    BY <1>1 DEF TypeOK
  <2>2. l \in Lots /\ seen[s].version \in Nat
    BY <2>1 DEF Sights
  <2>3. /\ Exists(l)
        /\ seen[s].version <= lots[l].version
        /\ seen[s].version = lots[l].version => seen[s].evidence = lots[l].evidence
    BY <2>1 DEF SightsAge
  <2>4. lots'[l] # NoLot /\ (lots'[l] = lots[l] \/ lots'[l].version > lots[l].version)
    BY <2>2, <2>3, ChangeMovesOn
  <2>5. lots[l].version \in Nat
    BY <2>2, <2>3, RowFields DEF TypeOK, Exists
  <2>6. lots'[l].version \in Nat
    <3>1. lots' \in [Lots -> LotRow \cup {NoLot}]
      BY DEF TypeOK, OneChange
    <3> QED
      BY <2>2, <2>4, <3>1, RowFields DEF Exists
  <2> HIDE DEF l
  <2>7. /\ seen[s].version <= lots'[l].version
        /\ seen[s].version = lots'[l].version => seen[s].evidence = lots'[l].evidence
    <3>1. CASE lots'[l] = lots[l]
      BY <2>3, <3>1
    <3>2. CASE lots'[l].version > lots[l].version
      BY <2>2, <2>3, <2>5, <2>6, <3>2
    <3> QED
      BY <2>4, <3>1, <3>2
  <2> QED
    BY <1>1, <2>4, <2>7 DEF l
<1>2. ASSUME lots' = lots, NEW l \in Lots, Exists(l), seen'[s] = SightOf(l)
      PROVE  /\ lots'[seen'[s].lot] # NoLot
             /\ seen'[s].version <= lots'[seen'[s].lot].version
             /\ seen'[s].version = lots'[seen'[s].lot].version
                  => seen'[s].evidence = lots'[seen'[s].lot].evidence
  <2>1. lots[l].version \in Nat
    BY <1>2, RowFields DEF TypeOK, Exists
  <2> QED
    BY <1>2, <2>1 DEF SightOf, Exists
<1> QED
  BY <1>1, <1>2 DEF SightsHonest

-----------------------------------------------------------------------------
LEMMA IdentityBegins == Init => IdentityInvariant
<1> SUFFICES ASSUME Init PROVE IdentityInvariant
  OBVIOUS
<1>1. TypeOK
  BY DEF Init, TypeOK, Intakes, Sights
<1>2. \A l \in Lots : ~Exists(l)
  BY DEF Init, Exists
<1>3. \A s \in Stewards : seen[s] = NoSight
  BY DEF Init
<1> QED
  BY <1>1, <1>2, <1>3 DEF IdentityInvariant, WithKey, SightsAge

LEMMA IdentityStep == IdentityInvariant /\ [Next]_vars => IdentityInvariant'
<1> SUFFICES ASSUME IdentityInvariant, [Next]_vars PROVE IdentityInvariant'
  OBVIOUS
<1>1. TypeOK /\ UniqueNumbers /\ SightsAge
  BY DEF IdentityInvariant, UniqueNumbers
<1>2. OneChange /\ SightsHonest /\ intake' \in [Receipts -> Intakes]
  BY <1>1, StepShape
<1>3. TypeOK'
  BY <1>1, <1>2, SightsType, ChangeKeepsTypes
<1>4. UniqueNumbers'
  BY <1>1, <1>2, ChangeKeepsNumbers DEF UniqueNumbers
<1>5. SightsAge'
  BY <1>1, <1>2, SightsKeepAging
<1> QED
  BY <1>3, <1>4, <1>5 DEF IdentityInvariant, UniqueNumbers

(* The invariant behind the identity of LOTs holds of every behaviour.       *)
THEOREM IdentityIsInvariant == Spec => []IdentityInvariant
BY IdentityBegins, IdentityStep, PTL DEF Spec

(* Every LOT row, intake and sight is well formed.                           *)
THEOREM IdentityTypes == Spec => []TypeOK
<1>1. IdentityInvariant => TypeOK
  BY DEF IdentityInvariant
<1> QED
  BY <1>1, IdentityIsInvariant, PTL

(* What is promoted or merged is what the steward saw.                       *)
THEOREM DecidedOnWhatWasSeen == Spec => []StewardsSeeEvidence
<1>1. IdentityInvariant => StewardsSeeEvidence
  <2> SUFFICES ASSUME IdentityInvariant, NEW s \in Stewards, NEW l \in Lots,
                      Exists(l), Expected(s, l)
               PROVE  seen[s].evidence = lots[l].evidence
    BY DEF StewardsSeeEvidence
  <2>1. seen[s] # NoSight
    BY LotAssumption DEF Expected, NoSight
  <2> QED
    BY <2>1 DEF IdentityInvariant, SightsAge, Expected
<1> QED
  BY <1>1, IdentityIsInvariant, PTL

(* A LOT number, once it names a LOT, names it for good, and names no other. *)
THEOREM NumbersNameForGood == Spec => NumbersStay
<1>1. IdentityInvariant /\ [Next]_vars
        => [\A k \in Keys : /\ WithKey(k) \subseteq WithKey(k)'
                            /\ \A l, m \in WithKey(k)' : l = m]_vars
  BY StepShape, ChangeKeepsNumbers DEF IdentityInvariant, UniqueNumbers
<1> QED
  BY <1>1, IdentityIsInvariant, PTL DEF Spec, NumbersStay

(* A merged LOT stays as it was when it was merged.                          *)
THEOREM MergedForGood == Spec => MergedLotsRest
<1>1. IdentityInvariant /\ [Next]_vars
        => [\A l \in Lots : Status(l) = "MERGED" => lots'[l] = lots[l]]_vars
  <2> SUFFICES ASSUME IdentityInvariant, [Next]_vars, NEW l \in Lots, Status(l) = "MERGED"
               PROVE  lots'[l] = lots[l]
    OBVIOUS
  <2>1. TypeOK /\ Exists(l)
    BY LotAssumption DEF IdentityInvariant, Exists, Status, NoLot, LotStatuses
  <2> QED
    BY <2>1, StepShape, ChangeMovesOn
<1> QED
  BY <1>1, IdentityIsInvariant, PTL DEF Spec, MergedLotsRest

(* What a LOT is called, and what it was merged into, is settled for good.  *)
THEOREM IdentitiesAreForGood == Spec => IdentitiesStand
BY NumbersNameForGood, MergedForGood, PTL DEF IdentitiesStand

-----------------------------------------------------------------------------
(* Where the references of merged LOTs lead.                                  *)
(* p leads from l over n references to a LOT that is not merged.              *)
Leads(p, n, l) ==
  /\ p[0] = l
  /\ \A i \in 0 .. n : p[i] \in Lots /\ Exists(p[i])
  /\ \A i \in 0 .. n : i < n <=> Status(p[i]) = "MERGED"
  /\ \A i \in 0 .. n : i < n => p[i + 1] = lots[p[i]].into
  /\ \A i, j \in 0 .. n : p[i] = p[j] => i = j
  /\ n > 0 => lots[p[n]].key # None
Led(l) == \E n \in Nat : \E p \in [0 .. n -> Lots] : Leads(p, n, l)
Numbered == \A l \in Lots : Exists(l) /\ Status(l) = "CANONICAL" => lots[l].key # None

(* The inductive invariant of the chains: a canonical LOT has a number, and    *)
(* from every LOT a path without a circle leads to one that is not merged.    *)
ChainInvariant == IdentityInvariant /\ Numbered /\ \A l \in Lots : Exists(l) => Led(l)

(* A step writes one row at most, and one that is not merged; what it merges   *)
(* it merges into another LOT that is canonical.                              *)
Relinks(l, row) ==
  /\ row \in LotRow
  /\ row.status = "CANONICAL" => row.key # None
  /\ Exists(l) => Status(l) # "MERGED" /\ (lots[l].key # None => row.key # None)
  /\ row.status = "MERGED" =>
       Exists(l) /\ \E goal \in Lots : goal # l /\ MergeTarget(goal) /\ row.into = goal
OneLink ==
  lots' = lots \/ \E l \in Lots : \E row \in LotRow : lots' = [lots EXCEPT ![l] = row] /\ Relinks(l, row)

(* Evidence leaves a row its number, and its status unless it is now disputed. *)
LEMMA EvidenceKeepsStatus ==
  ASSUME NEW row \in LotRow, NEW e \in Evidence \cup {None}
  PROVE  /\ WithEvidence(row, e) \in LotRow /\ WithEvidence(row, e).key = row.key
         /\ WithEvidence(row, e).status \in {row.status, "CONFLICT_REVIEW"}
<1>1. Filled(row, e).status = row.status
      /\ Conflicting(row, row.evidence).status = "CONFLICT_REVIEW"
  BY DEF Filled, Conflicting, LotRow
<1>2. WithEvidence(row, e) \in LotRow /\ WithEvidence(row, e).key = row.key
  BY EvidenceMoves DEF Succeeds
<1> QED
  BY <1>1, <1>2 DEF WithEvidence

LEMMA LinkShape ==
  ASSUME TypeOK, Numbered, [Next]_vars
  PROVE  OneLink
<1>0. \A l \in Lots : Exists(l) => lots[l] \in LotRow
  BY DEF TypeOK, Exists
<1>1. ASSUME NEW l \in Lots, NEW k \in Keys \cup {None}, NEW e \in Evidence \cup {None},
             ~Exists(l), lots' = [lots EXCEPT ![l] = NewRow(k, e)]
      PROVE  OneLink
  <2>1. PICK row \in LotRow : row = NewRow(k, e)
    BY NewRowType
  <2>2. row.status \in {"PROVISIONAL", "CANONICAL"} /\ (row.status = "CANONICAL" => row.key # None)
    BY <2>1 DEF NewRow, IdentityStatus
  <2> QED
    BY <1>1, <2>1, <2>2 DEF OneLink, Relinks
<1>2. ASSUME NEW l \in Lots, NEW k \in Keys, NEW e \in Evidence \cup {None}, ReenterLot(l, k, e)
      PROVE  OneLink
  <2> DEFINE o == Reentered(l)
  <2>1. lots' = [lots EXCEPT ![o] = WithEvidence(lots[o], e)]
    BY <1>2 DEF ReenterLot
  <2>2. o \in Lots => Exists(o) /\ Status(o) # "MERGED"
    <3>1. CASE Status(l) = "MERGED"
      BY <1>2, <3>1, LotAssumption DEF ReenterLot, Reentered, Resolves, Status, Exists, NoLot, LotStatuses
    <3>2. CASE Status(l) # "MERGED"
      BY <1>2, <3>2 DEF ReenterLot, Reentered, WithKey
    <3> QED
      BY <3>1, <3>2
  <2> HIDE DEF o
  <2>3. CASE o \notin Lots
    BY <2>1, <2>3 DEF OneLink, TypeOK
  <2>4. CASE o \in Lots
    <3>1. lots[o] \in LotRow
      BY <1>0, <2>2, <2>4
    <3>2. PICK row \in LotRow : row = WithEvidence(lots[o], e)
      BY <3>1, EvidenceKeepsStatus
    <3>3. row.key = lots[o].key /\ row.status \in {Status(o), "CONFLICT_REVIEW"}
      BY <3>1, <3>2, EvidenceKeepsStatus DEF Status
    <3>4. Relinks(o, row)
      BY <2>2, <2>4, <3>3 DEF Relinks, Numbered
    <3> QED
      BY <2>1, <2>4, <3>2, <3>4 DEF OneLink
  <2> QED
    BY <2>3, <2>4
<1>3. ASSUME NEW s \in Stewards, NEW l \in Lots, NEW k \in Keys, NEW e \in Evidence \cup {None},
             PromoteProvisional(s, l, k, e)
      PROVE  OneLink
  <2>1. Exists(l) /\ Status(l) # "MERGED" /\ lots[l].key = None
    BY <1>3, LotAssumption DEF PromoteProvisional, Exists, Status, NoLot, LotStatuses
  <2>2. lots[l] \in LotRow
    BY <1>0, <2>1
  <2>3. CASE Taken(k)
    <3>1. PICK row \in LotRow : row = Conflicting(lots[l], e)
      BY <2>2, RowConflicting DEF Succeeds
    <3>2. row.status = "CONFLICT_REVIEW"
      BY <2>2, <3>1 DEF Conflicting, LotRow
    <3>3. lots' = [lots EXCEPT ![l] = row]
      BY <1>3, <2>3, <3>1 DEF PromoteProvisional
    <3> QED
      BY <2>1, <3>2, <3>3 DEF OneLink, Relinks
  <2>4. CASE ~Taken(k)
    <3>1. PICK row \in LotRow : row = Promoted(lots[l], k, e)
      BY <2>1, <2>2, RowPromoted DEF Succeeds
    <3>2. row.status = "CANONICAL" /\ row.key # None
      BY <2>2, <3>1, LotAssumption DEF Promoted, LotRow
    <3>3. lots' = [lots EXCEPT ![l] = row]
      BY <1>3, <2>4, <3>1 DEF PromoteProvisional
    <3> QED
      BY <2>1, <3>2, <3>3 DEF OneLink, Relinks
  <2> QED
    BY <2>3, <2>4
<1>4. ASSUME NEW s \in Stewards, NEW l \in Lots, NEW t \in Lots, GuardedMerge(s, l, t)
      PROVE  OneLink
  <2>1. Exists(l) /\ Status(l) # "MERGED" /\ t # l /\ MergeTarget(t)
    BY <1>4, LotAssumption DEF GuardedMerge, Exists, Status, NoLot, LotStatuses
  <2>2. lots[l] \in LotRow
    BY <1>0, <2>1
  <2>3. PICK row \in LotRow : row = MergedInto(lots[l], t)
    BY <2>2, RowMerged DEF Succeeds
  <2>4. row.status = "MERGED" /\ row.into = t /\ row.key = lots[l].key
    BY <2>2, <2>3 DEF MergedInto, LotRow
  <2>5. lots' = [lots EXCEPT ![l] = row]
    BY <1>4, <2>3 DEF GuardedMerge
  <2>6. Relinks(l, row)
    BY <2>1, <2>4 DEF Relinks
  <2> QED
    BY <2>5, <2>6 DEF OneLink
<1>5. ASSUME NEW r \in Receipts, NEW k \in Keys \cup {None}, NEW l \in Lots, AllocateNewLot(r, k, l)
      PROVE  OneLink
  BY <1>1, <1>5 DEF AllocateNewLot
<1>6. ASSUME NEW l \in Lots, NEW k \in Keys \cup {None}, NEW e \in Evidence \cup {None}, CreateLot(l, k, e)
      PROVE  OneLink
  BY <1>1, <1>6 DEF CreateLot
<1> QED
  BY <1>2, <1>3, <1>4, <1>5, <1>6
  DEF Next, vars, Look, FindLot, AllocateFoundLot, OneLink

(* What a write of one row does to the rows.                                  *)
LEMMA AfterLink ==
  ASSUME TypeOK, NEW l \in Lots, NEW row \in LotRow, lots' = [lots EXCEPT ![l] = row]
  PROVE  /\ lots'[l] = row /\ Exists(l)' /\ Status(l)' = row.status
         /\ \A x \in Lots : x # l =>
              lots'[x] = lots[x] /\ Exists(x)' = Exists(x) /\ Status(x)' = Status(x)
<1>1. lots'[l] = row /\ \A x \in Lots : x # l => lots'[x] = lots[x]
  BY DEF TypeOK
<1> QED
  BY <1>1, RowIsRow DEF Exists, Status

(* A row that is written and not merged ends the paths it ended before.       *)
LEMMA PathStays ==
  ASSUME TypeOK, NEW l \in Lots, NEW row \in LotRow, lots' = [lots EXCEPT ![l] = row],
         Exists(l) => Status(l) # "MERGED" /\ (lots[l].key # None => row.key # None),
         NEW x \in Lots, NEW n \in Nat, NEW p \in [0 .. n -> Lots], Leads(p, n, x),
         row.status = "MERGED" => p[n] # l
  PROVE  Leads(p, n, x)'
<1>1. \A i \in 0 .. n : i < n => p[i] # l
  BY DEF Leads
<1>2. n \in 0 .. n /\ p[n] \in Lots /\ Exists(p[n]) /\ Status(p[n]) # "MERGED"
  BY DEF Leads
<1>3. ASSUME NEW i \in 0 .. n, p[i] # l
      PROVE  lots'[p[i]] = lots[p[i]] /\ Exists(p[i])' = Exists(p[i])
             /\ Status(p[i])' = Status(p[i])
  BY <1>3, AfterLink DEF Leads
<1>4. ASSUME p[n] = l
      PROVE  /\ Exists(p[n])' /\ Status(p[n])' # "MERGED"
             /\ lots[p[n]].key # None => lots'[p[n]].key # None
  BY <1>2, <1>4, AfterLink
<1>5. Exists(p[n])' /\ Status(p[n])' # "MERGED" /\ (n > 0 => lots'[p[n]].key # None)
  BY <1>2, <1>3, <1>4 DEF Leads
<1>6. \A i \in 0 .. n : Exists(p[i])' /\ (i < n <=> Status(p[i])' = "MERGED")
  <2> SUFFICES ASSUME NEW i \in 0 .. n PROVE Exists(p[i])' /\ (i < n <=> Status(p[i])' = "MERGED")
    OBVIOUS
  <2>1. CASE i < n
    BY <1>1, <1>3, <2>1 DEF Leads
  <2>2. CASE ~(i < n)
    BY <1>5, <2>2
  <2> QED
    BY <2>1, <2>2
<1>7. \A i \in 0 .. n : i < n => p[i + 1] = lots'[p[i]].into
  BY <1>1, <1>3 DEF Leads
<1> QED
  BY <1>5, <1>6, <1>7 DEF Leads

(* A merge lengthens the paths that ended at the LOT by its target.            *)
LEMMA PathGrows ==
  ASSUME TypeOK, Numbered, NEW l \in Lots, NEW row \in LotRow, lots' = [lots EXCEPT ![l] = row],
         Exists(l), Status(l) # "MERGED", row.status = "MERGED",
         NEW goal \in Lots, goal # l, MergeTarget(goal), row.into = goal,
         NEW x \in Lots, NEW n \in Nat, NEW p \in [0 .. n -> Lots], Leads(p, n, x), p[n] = l
  PROVE  Led(x)'
<1> DEFINE q == [i \in 0 .. n + 1 |-> IF i = n + 1 THEN goal ELSE p[i]]
<1>1. q \in [0 .. n + 1 -> Lots] /\ n + 1 \in Nat
  OBVIOUS
<1>2. /\ q[n + 1] = goal /\ q[0] = p[0]
      /\ \A i \in 0 .. n : q[i] = p[i] /\ i \in 0 .. n + 1 /\ i # n + 1 /\ i < n + 1
      /\ \A i \in 0 .. n + 1 : i \in 0 .. n \/ i = n + 1
  OBVIOUS
<1> HIDE DEF q
<1>3. Exists(goal) /\ Status(goal) = "CANONICAL" /\ lots[goal].key # None
  BY DEF MergeTarget, Numbered
<1>4. /\ lots'[goal] = lots[goal] /\ Exists(goal)' /\ Status(goal)' # "MERGED"
      /\ lots'[l] = row /\ Exists(l)' /\ Status(l)' = "MERGED"
  BY <1>3, AfterLink
<1>5. ASSUME NEW i \in 0 .. n, i < n
      PROVE  /\ p[i] \in Lots /\ Exists(p[i]) /\ Status(p[i]) = "MERGED"
             /\ p[i] # l /\ p[i] # goal
             /\ p[i + 1] = lots[p[i]].into /\ i + 1 \in 0 .. n
  <2>1. Exists(p[i]) /\ Status(p[i]) = "MERGED" /\ p[i + 1] = lots[p[i]].into
    BY <1>5 DEF Leads
  <2>2. i + 1 \in 0 .. n
    BY <1>5
  <2> QED
    BY <1>3, <2>1, <2>2
<1>6. ASSUME NEW i \in 0 .. n
      PROVE  /\ Exists(p[i])' /\ Status(p[i])' = "MERGED" /\ p[i] # goal
             /\ q[i + 1] = lots'[p[i]].into
  <2>1. CASE i < n
    <3>1. /\ p[i] \in Lots /\ Exists(p[i]) /\ Status(p[i]) = "MERGED" /\ p[i] # l
          /\ p[i] # goal /\ p[i + 1] = lots[p[i]].into /\ i + 1 \in 0 .. n
      BY <1>5, <2>1
    <3>2. PICK m \in Lots : m = p[i]
      BY <3>1
    <3>3. lots'[m] = lots[m] /\ Exists(m)' /\ Status(m)' = "MERGED"
      BY <3>1, <3>2, AfterLink
    <3>4. q[i + 1] = p[i + 1]
      BY <1>2, <3>1
    <3> QED
      BY <3>1, <3>2, <3>3, <3>4
  <2>2. CASE i = n
    BY <1>2, <1>4, <2>2
  <2> QED
    BY <2>1, <2>2
<1>7. ASSUME NEW i \in 0 .. n + 1, NEW j \in 0 .. n + 1, q[i] = q[j]
      PROVE  i = j
  <2>1. CASE i \in 0 .. n /\ j \in 0 .. n
    BY <1>2, <1>7, <2>1 DEF Leads
  <2>2. CASE i = n + 1 /\ j \in 0 .. n
    BY <1>2, <1>6, <1>7, <2>2
  <2>3. CASE i \in 0 .. n /\ j = n + 1
    BY <1>2, <1>6, <1>7, <2>3
  <2>4. CASE i = n + 1 /\ j = n + 1
    BY <2>4
  <2> QED
    BY <1>2, <2>1, <2>2, <2>3, <2>4
<1>8. ASSUME NEW i \in 0 .. n + 1
      PROVE  /\ q[i] \in Lots /\ Exists(q[i])'
             /\ i < n + 1 <=> Status(q[i])' = "MERGED"
             /\ i < n + 1 => q[i + 1] = lots'[q[i]].into
  <2>1. CASE i \in 0 .. n
    BY <1>1, <1>2, <1>6, <2>1
  <2>2. CASE i = n + 1
    BY <1>1, <1>2, <1>4, <2>2
  <2> QED
    BY <1>2, <2>1, <2>2
<1>9. q[0] = x /\ lots'[q[n + 1]].key # None
  BY <1>2, <1>3, <1>4 DEF Leads
<1>10. Leads(q, n + 1, x)'
  <2>1. q[0] = x /\ (n + 1 > 0 => lots'[q[n + 1]].key # None)
    BY <1>9
  <2>2. \A i \in 0 .. n + 1 : q[i] \in Lots /\ Exists(q[i])'
    BY <1>8
  <2>3. \A i \in 0 .. n + 1 : i < n + 1 <=> Status(q[i])' = "MERGED"
    BY <1>8
  <2>4. \A i \in 0 .. n + 1 : i < n + 1 => q[i + 1] = lots'[q[i]].into
    BY <1>8
  <2>5. \A i, j \in 0 .. n + 1 : q[i] = q[j] => i = j
    BY <1>7
  <2> QED
    BY <2>1, <2>2, <2>3, <2>4, <2>5 DEF Leads
<1> QED
  BY <1>1, <1>10 DEF Led

LEMMA ChainStep ==
  ASSUME ChainInvariant, [Next]_vars, IdentityInvariant'
  PROVE  ChainInvariant'
<1>0. TypeOK /\ Numbered /\ OneLink
  BY LinkShape DEF ChainInvariant, IdentityInvariant
<1>1. CASE lots' = lots
  <2>1. Numbered'
    BY <1>0, <1>1 DEF Numbered, Exists, Status
  <2>2. ASSUME NEW x \in Lots, Exists(x)'
        PROVE  Led(x)'
    <3>1. Exists(x)
      BY <1>1, <2>2 DEF Exists
    <3>2. PICK n \in Nat : \E p \in [0 .. n -> Lots] : Leads(p, n, x)
      BY <3>1 DEF ChainInvariant, Led
    <3>3. PICK p \in [0 .. n -> Lots] : Leads(p, n, x)
      BY <3>2
    <3>4. Leads(p, n, x)'
      BY <1>1, <3>3 DEF Leads, Exists, Status
    <3> QED
      BY <3>4 DEF Led
  <2> QED
    BY <2>1, <2>2 DEF ChainInvariant
<1>2. ASSUME NEW l \in Lots, NEW row \in LotRow, lots' = [lots EXCEPT ![l] = row], Relinks(l, row)
      PROVE  ChainInvariant'
  <2>1. Numbered'
    BY <1>0, <1>2, AfterLink DEF Numbered, Relinks
  <2>2. ASSUME NEW x \in Lots, Exists(x)
        PROVE  Led(x)'
    <3>1. PICK n \in Nat : \E p \in [0 .. n -> Lots] : Leads(p, n, x)
      BY <2>2 DEF ChainInvariant, Led
    <3>2. PICK p \in [0 .. n -> Lots] : Leads(p, n, x)
      BY <3>1
    <3>3. CASE row.status = "MERGED" /\ p[n] = l
      <4>1. Exists(l) /\ Status(l) # "MERGED"
        BY <1>2, <3>3 DEF Relinks
      <4>2. PICK goal \in Lots : goal # l /\ MergeTarget(goal) /\ row.into = goal
        BY <1>2, <3>3 DEF Relinks
      <4> QED
        BY <1>0, <1>2, <3>2, <3>3, <4>1, <4>2, PathGrows
    <3>4. CASE ~(row.status = "MERGED" /\ p[n] = l)
      <4>1. Leads(p, n, x)'
        BY <1>0, <1>2, <3>2, <3>4, PathStays DEF Relinks
      <4> QED
        BY <4>1 DEF Led
    <3> QED
      BY <3>3, <3>4
  <2>3. ASSUME NEW x \in Lots, ~Exists(x), Exists(x)'
        PROVE  Led(x)'
    <3>1. x = l /\ Status(x)' # "MERGED" /\ Exists(x)'
      BY <1>0, <1>2, <2>3, AfterLink DEF Relinks
    <3> DEFINE p == [i \in 0 .. 0 |-> x]
    <3>2. p \in [0 .. 0 -> Lots] /\ p[0] = x /\ \A i \in 0 .. 0 : i = 0
      OBVIOUS
    <3> HIDE DEF p
    <3>3. Leads(p, 0, x)'
      BY <3>1, <3>2 DEF Leads
    <3> QED
      BY <3>2, <3>3 DEF Led
  <2> QED
    BY <2>1, <2>2, <2>3 DEF ChainInvariant
<1> QED
  BY <1>0, <1>1, <1>2 DEF OneLink

(* A path without a circle is no longer than there are LOTs.                  *)
LEMMA PathIsBounded ==
  ASSUME NEW l \in Lots, NEW n \in Nat, NEW p \in [0 .. n -> Lots], Leads(p, n, l)
  PROVE  n \in 0 .. Cardinality(Lots)
<1>1. IsFiniteSet(0 .. n) /\ Cardinality(0 .. n) = n + 1
  BY FS_Interval
<1>2. IsFiniteSet(Lots) /\ Cardinality(Lots) \in Nat
  BY LotAssumption, FS_CardinalityType
<1>3. ASSUME Cardinality(Lots) < n + 1
      PROVE  FALSE
  <2>1. \E i, j \in 0 .. n : i # j /\ p[i] = p[j]
    BY <1>1, <1>2, <1>3, FS_PigeonHole
  <2> QED
    BY <2>1 DEF Leads
<1> QED
  BY <1>2, <1>3

(* The references followed one after the other are the path.                  *)
Following(p, n, l) == p = [i \in 0 .. n |-> IF i = 0 THEN l ELSE lots[p[i - 1]].into]
LEMMA PathIsFollowed ==
  ASSUME NEW l \in Lots, NEW n \in Nat, NEW p \in [0 .. n -> Lots], Leads(p, n, l)
  PROVE  p = CHOOSE at : Following(at, n, l)
<1>1. Following(p, n, l)
  <2>1. \A i \in 0 .. n : p[i] = IF i = 0 THEN l ELSE lots[p[i - 1]].into
    <3> SUFFICES ASSUME NEW i \in 0 .. n PROVE p[i] = IF i = 0 THEN l ELSE lots[p[i - 1]].into
      OBVIOUS
    <3>1. CASE i # 0
      <4>1. i - 1 \in 0 .. n /\ i - 1 < n /\ (i - 1) + 1 = i
        BY <3>1
      <4> QED
        BY <3>1, <4>1 DEF Leads
    <3> QED
      BY <3>1 DEF Leads
  <2> QED
    BY <2>1 DEF Following
<1> DEFINE at == CHOOSE f : Following(f, n, l)
<1>2. Following(at, n, l)
  BY <1>1
<1> HIDE DEF at
<1> DEFINE differ == {i \in 0 .. n : at[i] # p[i]}
<1>3. differ = {}
  <2> SUFFICES ASSUME differ # {} PROVE FALSE
    OBVIOUS
  <2>1. differ \in SUBSET Nat
    OBVIOUS
  <2>2. PICK i \in differ : \A j \in differ : i <= j
    <3> HIDE DEF differ
    <3> QED
      BY <2>1, LeastNatural
  <2>3. at[i] = (IF i = 0 THEN l ELSE lots[at[i - 1]].into)
        /\ p[i] = (IF i = 0 THEN l ELSE lots[p[i - 1]].into)
    BY <1>1, <1>2, <2>2 DEF Following
  <2>4. i # 0 => i - 1 \in 0 .. n /\ i - 1 \notin differ
    BY <2>2
  <2> QED
    BY <2>2, <2>3, <2>4
<1>4. p = [i \in 0 .. n |-> p[i]] /\ at = [i \in 0 .. n |-> at[i]]
  BY <1>1, <1>2 DEF Following
<1>5. at = p
  BY <1>3, <1>4
<1> QED
  BY <1>5 DEF at

(* Merging closes no circle and leads nowhere but to a LOT that has a number   *)
(* or is not merged (guarded_merge).                                          *)
THEOREM MergedChainsEnd == Spec => []ChainsEnd
<1>1. Init => ChainInvariant
  <2> SUFFICES ASSUME Init PROVE ChainInvariant
    OBVIOUS
  <2>1. IdentityInvariant
    BY IdentityBegins
  <2>2. \A l \in Lots : ~Exists(l)
    BY DEF Init, Exists
  <2> QED
    BY <2>1, <2>2 DEF ChainInvariant, Numbered
<1>2. ChainInvariant /\ [Next]_vars => ChainInvariant'
  BY IdentityStep, ChainStep DEF ChainInvariant
<1>3. ChainInvariant => ChainsEnd
  <2> SUFFICES ASSUME ChainInvariant, NEW l \in Lots, Exists(l)
               PROVE  \E n \in 0 .. Cardinality(Lots) :
                        LET at[i \in 0 .. n] == IF i = 0 THEN l ELSE lots[at[i - 1]].into
                        IN  /\ \A i \in 0 .. n : at[i] \in Lots /\ Exists(at[i])
                            /\ \A i \in 0 .. n : i < n <=> Status(at[i]) = "MERGED"
                            /\ n > 0 => lots[at[n]].key # None
    BY DEF ChainsEnd
  <2>1. PICK n \in Nat : \E p \in [0 .. n -> Lots] : Leads(p, n, l)
    BY DEF ChainInvariant, Led
  <2>2. PICK p \in [0 .. n -> Lots] : Leads(p, n, l)
    BY <2>1
  <2>3. n \in 0 .. Cardinality(Lots)
    BY <2>2, PathIsBounded
  <2>4. p = CHOOSE at : at = [i \in 0 .. n |-> IF i = 0 THEN l ELSE lots[at[i - 1]].into]
    BY <2>2, PathIsFollowed DEF Following
  <2>5. /\ \A i \in 0 .. n : p[i] \in Lots /\ Exists(p[i])
        /\ \A i \in 0 .. n : i < n <=> Status(p[i]) = "MERGED"
        /\ n > 0 => lots[p[n]].key # None
    BY <2>2 DEF Leads
  <2> QED
    BY <2>3, <2>4, <2>5
<1> QED
  BY <1>1, <1>2, <1>3, PTL DEF Spec

-----------------------------------------------------------------------------
(* Traces                                                                     *)
-----------------------------------------------------------------------------
(* What is downstream of a LOT: the least set that holds what consumed it and  *)
(* what consumed any of that.                                                 *)
Levels == Cardinality(Products)
Level(f, t, c, p, lot, n) ==
  f[n] = IF n = 0 THEN Direct(t, c, p, lot)
         ELSE f[n - 1] \cup UNION {Direct(t, c, p, q) : q \in f[n - 1]}
Levelled(f, t, c, p, lot, n) == \A i \in 0 .. n : Level(f, t, c, p, lot, i)

LEMMA LevelsAreNatural == Levels \in Nat
BY TraceAssumption, FS_CardinalityType DEF Levels

LEMMA DirectAreProducts ==
  ASSUME NEW t, NEW c, NEW p \in SUBSET Products, NEW lot
  PROVE  Direct(t, c, p, lot) \in SUBSET Products
BY DEF Direct

LEMMA LevelsExist ==
  ASSUME NEW t, NEW c, NEW p \in SUBSET Products, NEW lot, NEW n \in Nat
  PROVE  \E f \in [0 .. n -> SUBSET Products] : Levelled(f, t, c, p, lot, n)
<1> DEFINE Made(m) == \E f \in [0 .. m -> SUBSET Products] : Levelled(f, t, c, p, lot, m)
           without == {m \in Nat : ~Made(m)}
<1>1. SUFFICES ASSUME without # {} PROVE FALSE
  OBVIOUS
<1>2. PICK m \in without : \A k \in without : m <= k
  <2>1. without \in SUBSET Nat
    OBVIOUS
  <2> HIDE DEF without
  <2> QED
    BY <1>1, <2>1, LeastNatural
<1>3. CASE m = 0
  <2> DEFINE f == [i \in 0 .. 0 |-> Direct(t, c, p, lot)]
  <2>1. f \in [0 .. 0 -> SUBSET Products] /\ \A i \in 0 .. 0 : i = 0 /\ f[i] = Direct(t, c, p, lot)
    BY DirectAreProducts
  <2> HIDE DEF f
  <2>2. Levelled(f, t, c, p, lot, 0)
    BY <2>1 DEF Levelled, Level
  <2> QED
    BY <1>2, <1>3, <2>1, <2>2
<1>4. CASE m # 0
  <2>1. m \in Nat /\ m - 1 \in Nat /\ ~(m <= m - 1)
    BY <1>2, <1>4
  <2>2. PICK h \in [0 .. m - 1 -> SUBSET Products] : Levelled(h, t, c, p, lot, m - 1)
    BY <1>2, <2>1
  <2> DEFINE next == h[m - 1] \cup UNION {Direct(t, c, p, q) : q \in h[m - 1]}
             f == [i \in 0 .. m |-> IF i = m THEN next ELSE h[i]]
  <2>3. h[m - 1] \in SUBSET Products
    BY <2>1
  <2>4. next \in SUBSET Products
    BY <2>3, DirectAreProducts
  <2>5. f \in [0 .. m -> SUBSET Products] /\ f[m] = next /\ f[m - 1] = h[m - 1]
    <3> HIDE DEF next
    <3> QED
      BY <2>1, <2>4
  <2>6. \A i \in 0 .. m - 1 : i \in 0 .. m /\ f[i] = h[i] /\ (i # 0 => f[i - 1] = h[i - 1])
    <3> HIDE DEF next
    <3> QED
      BY <2>1
  <2>7. ASSUME NEW i \in 0 .. m
        PROVE  Level(f, t, c, p, lot, i)
    <3> HIDE DEF f
    <3>1. CASE i = m
      BY <1>4, <2>5, <3>1 DEF Level
    <3>2. CASE i # m
      <4>1. i \in 0 .. m - 1
        BY <2>1, <3>2
      <4>2. Level(h, t, c, p, lot, i)
        BY <2>2, <4>1 DEF Levelled
      <4> QED
        BY <2>6, <4>1, <4>2 DEF Level
    <3> QED
      BY <3>1, <3>2
  <2> HIDE DEF f, next
  <2>8. Made(m)
    BY <2>5, <2>7 DEF Levelled
  <2> QED
    BY <1>2, <2>8
<1> QED
  BY <1>3, <1>4

(* Downstream is the last of the levels.                                      *)
LEMMA DownstreamIsALevel ==
  ASSUME NEW t, NEW c, NEW p \in SUBSET Products, NEW lot
  PROVE  \E f \in [0 .. Levels -> SUBSET Products] :
           Levelled(f, t, c, p, lot, Levels) /\ Downstream(t, c, p, lot) = f[Levels]
<1> DEFINE Made(f) == f = [n \in 0 .. Levels |-> IF n = 0 THEN Direct(t, c, p, lot)
                             ELSE f[n - 1] \cup UNION {Direct(t, c, p, q) : q \in f[n - 1]}]
           reached == CHOOSE f : Made(f)
<1>1. PICK f \in [0 .. Levels -> SUBSET Products] : Levelled(f, t, c, p, lot, Levels)
  BY LevelsExist, LevelsAreNatural
<1>2. Made(f)
  BY <1>1 DEF Levelled, Level
<1>3. Made(reached)
  BY <1>2
<1>4. Downstream(t, c, p, lot) = reached[Levels]
  BY DEF Downstream, Levels
<1> HIDE DEF reached
<1>5. Levelled(reached, t, c, p, lot, Levels)
  BY <1>3 DEF Levelled, Level
<1> DEFINE differ == {i \in 0 .. Levels : reached[i] # f[i]}
<1>6. differ = {}
  <2> SUFFICES ASSUME differ # {} PROVE FALSE
    OBVIOUS
  <2>1. differ \in SUBSET Nat
    BY LevelsAreNatural
  <2>2. PICK i \in differ : \A j \in differ : i <= j
    <3> HIDE DEF differ
    <3> QED
      BY <2>1, LeastNatural
  <2>3. Level(reached, t, c, p, lot, i) /\ Level(f, t, c, p, lot, i)
    BY <1>1, <1>5, <2>2 DEF Levelled
  <2>4. i # 0 => i - 1 \in 0 .. Levels /\ i - 1 \notin differ
    BY <2>2, LevelsAreNatural
  <2> QED
    BY <2>2, <2>3, <2>4 DEF Level
<1>7. reached[Levels] = f[Levels]
  BY <1>6, LevelsAreNatural
<1> QED
  BY <1>1, <1>4, <1>7

(* A set closed under consumption that holds the consumers of a LOT holds all  *)
(* that is downstream of it.                                                 *)
LEMMA ClosedHoldsLevels ==
  ASSUME NEW t, NEW c, NEW p, NEW lot, NEW n \in Nat, NEW f, Levelled(f, t, c, p, lot, n),
         NEW X, Direct(t, c, p, lot) \subseteq X, \A q \in X : Direct(t, c, p, q) \subseteq X,
         NEW k \in 0 .. n
  PROVE  f[k] \subseteq X
<1> DEFINE out == {i \in 0 .. n : ~(f[i] \subseteq X)}
<1>1. SUFFICES ASSUME out # {} PROVE FALSE
  OBVIOUS
<1>2. PICK i \in out : \A j \in out : i <= j
  <2>1. out \in SUBSET Nat
    OBVIOUS
  <2> HIDE DEF out
  <2> QED
    BY <1>1, <2>1, LeastNatural
<1>3. Level(f, t, c, p, lot, i)
  BY <1>2 DEF Levelled
<1>4. CASE i = 0
  BY <1>2, <1>3, <1>4 DEF Level
<1>5. CASE i # 0
  <2>1. i - 1 \in 0 .. n /\ i - 1 \notin out
    BY <1>2, <1>5
  <2>2. f[i - 1] \subseteq X
    BY <2>1
  <2> QED
    BY <1>2, <1>3, <1>5, <2>2 DEF Level
<1> QED
  BY <1>4, <1>5

(* The levels grow.                                                           *)
LEMMA LevelsGrow ==
  ASSUME NEW t, NEW c, NEW p, NEW lot, NEW n \in Nat, NEW f, Levelled(f, t, c, p, lot, n),
         NEW i \in 0 .. n, NEW k \in 0 .. n, i <= k
  PROVE  f[i] \subseteq f[k]
<1> DEFINE out == {j \in 0 .. n : i <= j /\ ~(f[i] \subseteq f[j])}
<1>1. SUFFICES ASSUME out # {} PROVE FALSE
  OBVIOUS
<1>2. PICK m \in out : \A j \in out : m <= j
  <2>1. out \in SUBSET Nat
    OBVIOUS
  <2> HIDE DEF out
  <2> QED
    BY <1>1, <2>1, LeastNatural
<1>3. m # i /\ m # 0 /\ m - 1 \in 0 .. n /\ i <= m - 1 /\ m - 1 \notin out
  BY <1>2
<1>4. Level(f, t, c, p, lot, m)
  BY <1>2 DEF Levelled
<1>5. f[m - 1] \subseteq f[m]
  BY <1>3, <1>4 DEF Level
<1> QED
  BY <1>2, <1>3, <1>5

(* After as many levels as there are production lots nothing new is found:    *)
(* otherwise each level would hold a lot the earlier ones do not.             *)
LEMMA DownstreamIsClosed ==
  ASSUME NEW t, NEW c, NEW p \in SUBSET Products, NEW lot
  PROVE  /\ Direct(t, c, p, lot) \subseteq Downstream(t, c, p, lot)
         /\ Downstream(t, c, p, lot) \in SUBSET Products
         /\ \A q \in Downstream(t, c, p, lot) :
              Direct(t, c, p, q) \subseteq Downstream(t, c, p, lot)
<1>1. PICK f \in [0 .. Levels -> SUBSET Products] :
        Levelled(f, t, c, p, lot, Levels) /\ Downstream(t, c, p, lot) = f[Levels]
  BY DownstreamIsALevel
<1>2. Levels \in Nat /\ Levels \in 0 .. Levels /\ 0 \in 0 .. Levels
  BY LevelsAreNatural
<1>3. f[0] = Direct(t, c, p, lot) /\ f[0] \subseteq f[Levels]
  <2>1. Level(f, t, c, p, lot, 0)
    BY <1>1, <1>2 DEF Levelled
  <2>2. f[0] \subseteq f[Levels]
    BY <1>1, <1>2, LevelsGrow
  <2> QED
    BY <2>1, <2>2 DEF Level
<1> DEFINE closed(X) == \A q \in X : Direct(t, c, p, q) \subseteq X
<1>4. closed(f[Levels])
  <2> SUFFICES ASSUME ~closed(f[Levels]) PROVE FALSE
    OBVIOUS
  <2>1. ASSUME NEW k \in 0 .. Levels
        PROVE  ~closed(f[k])
    <3> SUFFICES ASSUME closed(f[k]) PROVE FALSE
      OBVIOUS
    <3>1. Direct(t, c, p, lot) \subseteq f[k]
      BY <1>1, <1>2, <1>3, LevelsGrow
    <3>2. PICK X : X = f[k]
      OBVIOUS
    <3>3. f[Levels] \subseteq X
      <4>1. Direct(t, c, p, lot) \subseteq X /\ \A q \in X : Direct(t, c, p, q) \subseteq X
        BY <3>1, <3>2
      <4> QED
        BY <1>1, <1>2, <4>1, ClosedHoldsLevels
    <3>4. X \subseteq f[Levels]
      BY <1>1, <1>2, <3>2, LevelsGrow
    <3>5. f[Levels] = f[k]
      BY <3>2, <3>3, <3>4
    <3> QED
      BY <3>5
  <2>2. ASSUME NEW k \in 0 .. Levels
        PROVE  \E q \in f[k] : k # 0 => q \notin f[k - 1]
    <3>1. CASE k = 0
      <4>1. f[k] # {}
        BY <2>1
      <4> QED
        BY <3>1, <4>1
    <3>2. CASE k # 0
      <4>1. k - 1 \in 0 .. Levels
        BY <1>2, <3>2
      <4>2. PICK q \in f[k - 1] : ~(Direct(t, c, p, q) \subseteq f[k - 1])
        BY <2>1, <4>1
      <4>3. Level(f, t, c, p, lot, k)
        BY <1>1 DEF Levelled
      <4>4. Direct(t, c, p, q) \subseteq f[k]
        BY <3>2, <4>2, <4>3 DEF Level
      <4> QED
        BY <4>2, <4>4
    <3> QED
      BY <3>1, <3>2
  <2> DEFINE g == [k \in 0 .. Levels |-> CHOOSE q \in f[k] : k # 0 => q \notin f[k - 1]]
  <2>3. ASSUME NEW k \in 0 .. Levels
        PROVE  g[k] \in f[k] /\ (k # 0 => g[k] \notin f[k - 1])
    BY <2>2
  <2>4. g \in [0 .. Levels -> Products]
    BY <2>3
  <2> HIDE DEF g
  <2>5. \E i, k \in 0 .. Levels : i # k /\ g[i] = g[k]
    <3>1. IsFiniteSet(0 .. Levels) /\ Cardinality(0 .. Levels) = Levels + 1
      BY <1>2, FS_Interval
    <3>2. Cardinality(Products) < Cardinality(0 .. Levels)
      BY <1>2, <3>1 DEF Levels
    <3> QED
      BY <2>4, <3>1, <3>2, TraceAssumption, FS_PigeonHole
  <2>6. ASSUME NEW i \in 0 .. Levels, NEW k \in 0 .. Levels, i < k, g[i] = g[k]
        PROVE  FALSE
    <3>1. k # 0 /\ k - 1 \in 0 .. Levels /\ i <= k - 1
      BY <1>2, <2>6
    <3>2. f[i] \subseteq f[k - 1]
      BY <1>1, <1>2, <3>1, LevelsGrow
    <3> QED
      BY <2>3, <2>6, <3>1, <3>2
  <2>7. PICK i \in 0 .. Levels : \E k \in 0 .. Levels : i # k /\ g[i] = g[k]
    BY <2>5
  <2>8. PICK k \in 0 .. Levels : i # k /\ g[i] = g[k]
    BY <2>7
  <2>9. i < k \/ k < i
    BY <1>2, <2>8
  <2> QED
    BY <2>6, <2>8, <2>9
<1> QED
  BY <1>1, <1>2, <1>3, <1>4

LEMMA DownstreamIsLeast ==
  ASSUME NEW t, NEW c, NEW p \in SUBSET Products, NEW lot
  PROVE  \A X : Direct(t, c, p, lot) \subseteq X /\ (\A q \in X : Direct(t, c, p, q) \subseteq X)
               => Downstream(t, c, p, lot) \subseteq X
<1>1. PICK f \in [0 .. Levels -> SUBSET Products] :
        Levelled(f, t, c, p, lot, Levels) /\ Downstream(t, c, p, lot) = f[Levels]
  BY DownstreamIsALevel
<1>2. Levels \in Nat /\ Levels \in 0 .. Levels
  BY LevelsAreNatural
<1>3. ASSUME NEW X, Direct(t, c, p, lot) \subseteq X, \A q \in X : Direct(t, c, p, q) \subseteq X
      PROVE  f[Levels] \subseteq X
  BY <1>1, <1>2, <1>3, ClosedHoldsLevels
<1> QED
  BY <1>1, <1>3

(* More rows only put more downstream.                                        *)
LEMMA DownstreamGrows ==
  ASSUME NEW t, NEW c, NEW p \in SUBSET Products, NEW u, NEW d, NEW r \in SUBSET Products,
         \A x \in Nodes : Direct(t, c, p, x) \subseteq Direct(u, d, r, x), NEW lot \in Nodes
  PROVE  Downstream(t, c, p, lot) \subseteq Downstream(u, d, r, lot)
<1>1. PICK X \in SUBSET Products : X = Downstream(u, d, r, lot)
  BY DownstreamIsClosed
<1>2. Direct(u, d, r, lot) \subseteq X /\ \A q \in X : Direct(u, d, r, q) \subseteq X
  BY <1>1, DownstreamIsClosed
<1>3. Direct(t, c, p, lot) \subseteq X /\ \A q \in X : Direct(t, c, p, q) \subseteq X
  BY <1>2 DEF Nodes
<1>4. Downstream(t, c, p, lot) \subseteq X
  BY <1>3, DownstreamIsLeast
<1> QED
  BY <1>1, <1>4

-----------------------------------------------------------------------------
(* The queue of a traversal.                                                  *)
Distinct(queue) == \A i, j \in DOMAIN queue : queue[i] = queue[j] => i = j

(* A finite set listed as a sequence: each member once, and nothing else.      *)
LEMMA Listed ==
  ASSUME NEW S, IsFiniteSet(S)
  PROVE  /\ SetToSeq(S) \in Seq(S) /\ Distinct(SetToSeq(S)) /\ ToSet(SetToSeq(S)) = S
<1> DEFINE n == Cardinality(S)
           list == SetToSeq(S)
<1>1. n \in Nat /\ ExistsBijection(1 .. n, S)
  BY FS_CardinalityType
<1>2. PICK f \in [1 .. n -> S] : IsInjective(f)
  BY <1>1 DEF ExistsBijection, Bijection, Injection
<1>3. list \in [1 .. n -> S] /\ IsInjective(list)
  BY <1>2 DEF SetToSeq
<1> HIDE DEF list
<1>4. IsFiniteSet(1 .. n) /\ Cardinality(1 .. n) = n
  BY <1>1, FS_Interval
<1>5. list \in Injection(1 .. n, S)
  BY <1>3 DEF Injection
<1>6. list \in Surjection(1 .. n, S)
  BY <1>4, <1>5, FS_Injection
<1>7. \A x \in S : \E i \in 1 .. n : list[i] = x
  BY <1>6 DEF Surjection
<1>8. list \in Seq(S) /\ DOMAIN list = 1 .. n
  BY <1>1, <1>3
<1>9. Distinct(list)
  BY <1>3 DEF IsInjective, Distinct
<1>10. ToSet(list) = S
  BY <1>3, <1>7, <1>8 DEF ToSet
<1> QED
  BY <1>8, <1>9, <1>10 DEF list

(* Taking the first of a queue and appending others.                          *)
LEMMA QueueMoves ==
  ASSUME NEW S, NEW queue \in Seq(S), queue # << >>, Distinct(queue),
         NEW more \in Seq(S), Distinct(more), ToSet(more) \cap ToSet(queue) = {}
  PROVE  /\ Head(queue) \in S /\ Head(queue) \in ToSet(queue)
         /\ Tail(queue) \o more \in Seq(S) /\ Distinct(Tail(queue) \o more)
         /\ ToSet(Tail(queue) \o more) = (ToSet(queue) \ {Head(queue)}) \cup ToSet(more)
<1> DEFINE m == Len(queue)
           k == Len(more)
           moved == Tail(queue) \o more
<1>1. m \in Nat /\ m >= 1 /\ k \in Nat /\ DOMAIN queue = 1 .. m /\ DOMAIN more = 1 .. k
  BY DEF Distinct
<1>2. Head(queue) = queue[1] /\ 1 \in 1 .. m /\ queue[1] \in S
  BY <1>1
<1>3. Tail(queue) \in Seq(S) /\ Len(Tail(queue)) = m - 1
      /\ \A i \in 1 .. m - 1 : Tail(queue)[i] = queue[i + 1]
  BY <1>1
<1>4. /\ moved \in Seq(S) /\ Len(moved) = m - 1 + k /\ DOMAIN moved = 1 .. m - 1 + k
      /\ \A i \in 1 .. m - 1 : moved[i] = Tail(queue)[i]
      /\ \A i \in 1 .. k : moved[m - 1 + i] = more[i]
  BY <1>1, <1>3
<1> HIDE DEF moved, m, k
<1>5. \A i \in 1 .. m - 1 : moved[i] = queue[i + 1] /\ i + 1 \in 1 .. m
  BY <1>1, <1>3, <1>4
<1>6. ASSUME NEW i \in 1 .. m - 1 + k
      PROVE  i \in 1 .. m - 1 \/ \E j \in 1 .. k : i = m - 1 + j
  <2>1. CASE i <= m - 1
    BY <1>1, <2>1
  <2>2. CASE ~(i <= m - 1)
    <3>1. i - (m - 1) \in 1 .. k /\ i = m - 1 + (i - (m - 1))
      BY <1>1, <2>2
    <3> QED
      BY <3>1
  <2> QED
    BY <2>1, <2>2
<1>7. \A i \in 1 .. m : \A j \in 1 .. k : queue[i] # more[j]
  BY <1>1 DEF ToSet
<1>8. Distinct(moved)
  <2> SUFFICES ASSUME NEW i \in 1 .. m - 1 + k, NEW j \in 1 .. m - 1 + k, moved[i] = moved[j]
               PROVE  i = j
    BY <1>4 DEF Distinct
  <2>1. CASE i \in 1 .. m - 1 /\ j \in 1 .. m - 1
    <3>1. i + 1 = j + 1
      BY <1>1, <1>5, <2>1 DEF Distinct
    <3> QED
      BY <3>1
  <2>2. ASSUME i \in 1 .. m - 1, NEW b \in 1 .. k, j = m - 1 + b
        PROVE  i = j
    BY <1>4, <1>5, <1>7, <2>2
  <2>3. ASSUME j \in 1 .. m - 1, NEW a \in 1 .. k, i = m - 1 + a
        PROVE  i = j
    BY <1>4, <1>5, <1>7, <2>3
  <2>4. ASSUME NEW a \in 1 .. k, i = m - 1 + a, NEW b \in 1 .. k, j = m - 1 + b
        PROVE  i = j
    BY <1>1, <1>4, <2>4 DEF Distinct
  <2> QED
    BY <1>6, <2>1, <2>2, <2>3, <2>4
<1>9. ASSUME NEW x
      PROVE  x \in ToSet(moved) <=> x \in (ToSet(queue) \ {Head(queue)}) \cup ToSet(more)
  <2>1. ASSUME NEW i \in 1 .. m - 1 + k, x = moved[i]
        PROVE  x \in (ToSet(queue) \ {Head(queue)}) \cup ToSet(more)
    <3>1. CASE i \in 1 .. m - 1
      <4>1. x = queue[i + 1] /\ i + 1 \in 1 .. m /\ i + 1 # 1
        BY <1>5, <2>1, <3>1
      <4>2. queue[i + 1] # queue[1]
        BY <1>1, <1>2, <4>1 DEF Distinct
      <4> QED
        BY <1>1, <1>2, <4>1, <4>2 DEF ToSet
    <3>2. ASSUME NEW j \in 1 .. k, i = m - 1 + j
          PROVE  x \in ToSet(more)
      BY <1>1, <1>4, <2>1, <3>2 DEF ToSet
    <3> QED
      BY <1>6, <3>1, <3>2
  <2>2. ASSUME NEW i \in 1 .. m, x = queue[i], x # queue[1]
        PROVE  x \in ToSet(moved)
    <3>1. i - 1 \in 1 .. m - 1 /\ (i - 1) + 1 = i /\ i - 1 \in 1 .. m - 1 + k
      BY <1>1, <2>2
    <3>2. moved[i - 1] = queue[(i - 1) + 1]
      BY <1>5, <3>1
    <3>3. moved[i - 1] = x
      BY <2>2, <3>1, <3>2
    <3> QED
      BY <1>4, <3>1, <3>3 DEF ToSet
  <2>3. ASSUME NEW j \in 1 .. k, x = more[j]
        PROVE  x \in ToSet(moved)
    <3>1. m - 1 + j \in 1 .. m - 1 + k
      BY <1>1
    <3> QED
      BY <1>4, <2>3, <3>1 DEF ToSet
  <2>4. x \in ToSet(moved) => \E i \in 1 .. m - 1 + k : x = moved[i]
    BY <1>4 DEF ToSet
  <2>5. x \in ToSet(queue) => \E i \in 1 .. m : x = queue[i]
    BY <1>1 DEF ToSet
  <2>6. x \in ToSet(more) => \E j \in 1 .. k : x = more[j]
    BY <1>1 DEF ToSet
  <2> QED
    BY <1>2, <2>1, <2>2, <2>3, <2>4, <2>5, <2>6
<1>10. Head(queue) \in ToSet(queue)
  BY <1>1, <1>2 DEF ToSet
<1> QED
  BY <1>2, <1>4, <1>8, <1>9, <1>10 DEF moved

-----------------------------------------------------------------------------
(* What a load has read is what was in the tables, and still is.              *)
GraphIsOld ==
  /\ \A d \in Deliveries : graph.target[d] # None => target[d] = graph.target[d]
  /\ graph.consumed \subseteq consumed /\ graph.produced \subseteq produced
(* What lay downstream when the load began still does, in what it has read of  *)
(* the tables and is going to read.                                          *)
BeforeIsRead ==
  /\ walk.step = "consumptions" =>
       walk.before \subseteq Downstream(graph.target, consumed, produced, walk.start)
  /\ walk.step = "lots" =>
       walk.before \subseteq Downstream(graph.target, graph.consumed, produced, walk.start)
  /\ walk.step = "walk" =>
       walk.before \subseteq Downstream(graph.target, graph.consumed, graph.produced, walk.start)
(* The traversal: what it has seen is done or queued, and what it found are    *)
(* the consumers of what is done.                                             *)
WalkIsSound ==
  /\ walk.visited = walk.done \cup ToSet(walk.pending)
  /\ walk.done \cap ToSet(walk.pending) = {} /\ Distinct(walk.pending)
  /\ walk.step # "walk" => walk.pending = << >> /\ walk.done = {} /\ walk.impacted = {}
  /\ walk.step = "walk" =>
       /\ walk.visited = {walk.start} \cup walk.impacted
       /\ \A lot \in walk.done : Consumers(lot) \subseteq walk.impacted
       /\ walk.impacted \subseteq
            Downstream(graph.target, graph.consumed, graph.produced, walk.start)
Graphs == [target : [Deliveries -> Nodes \cup {None}], consumed : SUBSET (Deliveries \X Products),
           produced : SUBSET Products]
Walks == [step : {"rest", "consumptions", "lots", "walk"}, start : Nodes \cup {None},
          visited : SUBSET Nodes, pending : Seq(Nodes), impacted : SUBSET Products,
          done : SUBSET Nodes, before : SUBSET Products]
TraceTyped ==
  /\ target \in [Deliveries -> Nodes \cup {None}]
  /\ produced \in SUBSET Products /\ consumed \in SUBSET (Deliveries \X produced)
  /\ graph \in Graphs /\ walk \in Walks
  /\ walk.step # "rest" => walk.start \in Nodes

(* The inductive invariant of the traces.                                     *)
TraceInvariant == TraceTyped /\ GraphIsOld /\ BeforeIsRead /\ WalkIsSound

(* Each of the three tables may grow under a reading.                         *)
LEMMA ReadingGrows ==
  ASSUME NEW t, NEW c, NEW p \in SUBSET Products, NEW u, NEW d, NEW r \in SUBSET Products,
         \A a \in Deliveries : t[a] # None => u[a] = t[a], c \subseteq d, p \subseteq r,
         NEW lot \in Nodes
  PROVE  Downstream(t, c, p, lot) \subseteq Downstream(u, d, r, lot)
<1>1. \A x \in Nodes : Direct(t, c, p, x) \subseteq Direct(u, d, r, x)
  BY TraceAssumption DEF Direct, Nodes
<1> QED
  BY <1>1, DownstreamGrows

(* The tables grow, and nothing else happens.                                 *)
LEMMA TablesGrow ==
  ASSUME TraceInvariant, UNCHANGED <<graph, walk>>,
         target' \in [Deliveries -> Nodes \cup {None}], produced' \in SUBSET Products,
         consumed' \in SUBSET (Deliveries \X produced'),
         \A d \in Deliveries : target[d] # None => target'[d] = target[d],
         produced \subseteq produced', consumed \subseteq consumed'
  PROVE  TraceInvariant'
<1> USE DEF TraceInvariant
<1>1. TraceTyped'
  BY DEF TraceTyped
<1>2. GraphIsOld'
  BY DEF GraphIsOld
<1>3. WalkIsSound'
  BY DEF WalkIsSound, Consumers
<1>4. BeforeIsRead'
  <2>1. CASE walk.step \in {"consumptions", "lots"}
    <3>1. walk.start \in Nodes /\ produced \in SUBSET Products
      BY <2>1 DEF TraceTyped
    <3>2. /\ Downstream(graph.target, consumed, produced, walk.start)
               \subseteq Downstream(graph.target, consumed', produced', walk.start)
          /\ Downstream(graph.target, graph.consumed, produced, walk.start)
               \subseteq Downstream(graph.target, graph.consumed, produced', walk.start)
      BY <3>1, ReadingGrows
    <3> QED
      BY <3>2 DEF BeforeIsRead
  <2>2. CASE walk.step \notin {"consumptions", "lots"}
    BY <2>2 DEF BeforeIsRead
  <2> QED
    BY <2>1, <2>2
<1> QED
  BY <1>1, <1>2, <1>3, <1>4

(* The fields of a graph and of a walk.                                       *)
LEMMA RestingWalk ==
  /\ AtRest \in Walks /\ AtRest.step = "rest" /\ AtRest.pending = << >> /\ AtRest.done = {}
  /\ AtRest.visited = {} /\ AtRest.impacted = {} /\ ToSet(<< >>) = {} /\ Distinct(<< >>)
  /\ Unread \in Graphs /\ Unread.consumed = {} /\ Unread.produced = {}
  /\ \A d \in Deliveries : Unread.target[d] = None
BY DEF AtRest, Walks, Unread, Graphs, ToSet, Distinct

LEMMA OneQueued ==
  ASSUME NEW S, NEW x \in S
  PROVE  <<x>> \in Seq(S) /\ ToSet(<<x>>) = {x} /\ Distinct(<<x>>)
BY DEF ToSet, Distinct

(* The load, statement by statement.                                          *)
LEMMA LoadStep ==
  ASSUME TraceInvariant,
         (\E lot \in Materials : ReadAllocations(lot)) \/ ReadConsumptions \/ ReadProductionLots
  PROVE  TraceInvariant'
<1> USE DEF TraceInvariant
<1>1. target' = target /\ produced' = produced /\ consumed' = consumed
  BY DEF ReadAllocations, ReadConsumptions, ReadProductionLots, tables
<1>2. ASSUME NEW lot \in Materials, ReadAllocations(lot)
      PROVE  TraceInvariant'
  <2>1. PICK before \in SUBSET Products : before = Downstream(target, consumed, produced, lot)
    BY DownstreamIsClosed DEF TraceTyped
  <2>2. graph' = [Unread EXCEPT !.target = target]
        /\ walk' = [AtRest EXCEPT !.step = "consumptions", !.start = lot, !.before = before]
    BY <1>2, <2>1 DEF ReadAllocations
  <2>3. graph' \in Graphs /\ graph'.target = target /\ graph'.consumed = {} /\ graph'.produced = {}
    BY <2>2 DEF TraceTyped, Unread, Graphs
  <2>4. /\ walk' \in Walks /\ walk'.step = "consumptions" /\ walk'.start = lot
        /\ walk'.before = before /\ walk'.pending = << >> /\ walk'.done = {} /\ walk'.visited = {}
        /\ walk'.impacted = {}
    <3>1. PICK rest \in Walks : rest = AtRest
      BY RestingWalk
    <3>2. lot \in Nodes
      BY DEF Nodes
    <3>3. walk' = [rest EXCEPT !.step = "consumptions", !.start = lot, !.before = before]
      BY <2>2, <3>1
    <3>4. /\ walk' \in Walks /\ walk'.step = "consumptions" /\ walk'.start = lot
          /\ walk'.before = before /\ walk'.pending = rest.pending /\ walk'.done = rest.done
          /\ walk'.visited = rest.visited /\ walk'.impacted = rest.impacted
      BY <3>2, <3>3 DEF Walks
    <3> QED
      BY <3>1, <3>4, RestingWalk
  <2>5. TraceTyped'
    BY <1>1, <2>3, <2>4 DEF TraceTyped, Nodes
  <2>6. GraphIsOld'
    BY <1>1, <2>3 DEF GraphIsOld
  <2>7. BeforeIsRead'
    BY <1>1, <2>1, <2>3, <2>4 DEF BeforeIsRead
  <2>8. WalkIsSound'
    BY <2>4, RestingWalk DEF WalkIsSound
  <2> QED
    BY <2>5, <2>6, <2>7, <2>8
<1>3. CASE ReadConsumptions
  <2>1. walk.step = "consumptions" /\ graph' = [graph EXCEPT !.consumed = consumed]
        /\ walk' = [walk EXCEPT !.step = "lots"]
    BY <1>3 DEF ReadConsumptions
  <2>2. consumed \in SUBSET (Deliveries \X Products)
    BY DEF TraceTyped
  <2>3. graph' \in Graphs /\ graph'.target = graph.target /\ graph'.consumed = consumed
        /\ graph'.produced = graph.produced
    BY <2>1, <2>2 DEF TraceTyped, Graphs
  <2>4. /\ walk' \in Walks /\ walk'.step = "lots" /\ walk'.start = walk.start
        /\ walk'.before = walk.before /\ walk'.pending = walk.pending /\ walk'.done = walk.done
        /\ walk'.visited = walk.visited /\ walk'.impacted = walk.impacted
    BY <2>1 DEF TraceTyped, Walks
  <2>5. TraceTyped'
    BY <1>1, <2>1, <2>3, <2>4 DEF TraceTyped
  <2>6. GraphIsOld'
    BY <1>1, <2>3 DEF GraphIsOld
  <2>7. BeforeIsRead'
    BY <1>1, <2>1, <2>3, <2>4 DEF BeforeIsRead
  <2>8. WalkIsSound'
    BY <2>1, <2>4 DEF WalkIsSound
  <2> QED
    BY <2>5, <2>6, <2>7, <2>8
<1>4. CASE ReadProductionLots
  <2>1. walk.step = "lots" /\ graph' = [graph EXCEPT !.produced = produced]
        /\ walk' = [walk EXCEPT !.step = "walk", !.visited = {walk.start},
                                !.pending = <<walk.start>>]
    BY <1>4 DEF ReadProductionLots
  <2>2. walk.start \in Nodes /\ produced \in SUBSET Products
    BY <2>1 DEF TraceTyped
  <2>3. graph' \in Graphs /\ graph'.target = graph.target /\ graph'.consumed = graph.consumed
        /\ graph'.produced = produced
    BY <2>1, <2>2 DEF TraceTyped, Graphs
  <2>4. /\ walk' \in Walks /\ walk'.step = "walk" /\ walk'.start = walk.start
        /\ walk'.before = walk.before /\ walk'.pending = <<walk.start>> /\ walk'.done = walk.done
        /\ walk'.visited = {walk.start} /\ walk'.impacted = walk.impacted
    <3>1. PICK queue \in Seq(Nodes) : queue = <<walk.start>>
      BY <2>2, OneQueued
    <3>2. PICK visited \in SUBSET Nodes : visited = {walk.start}
      BY <2>2
    <3>3. walk' = [walk EXCEPT !.step = "walk", !.visited = visited, !.pending = queue]
      BY <2>1, <3>1, <3>2
    <3>4. /\ walk' \in Walks /\ walk'.step = "walk" /\ walk'.start = walk.start
          /\ walk'.before = walk.before /\ walk'.pending = queue /\ walk'.done = walk.done
          /\ walk'.visited = visited /\ walk'.impacted = walk.impacted
      BY <3>3 DEF TraceTyped, Walks
    <3> QED
      BY <3>1, <3>2, <3>4
  <2>5. TraceTyped'
    BY <1>1, <2>2, <2>3, <2>4 DEF TraceTyped
  <2>6. GraphIsOld'
    BY <1>1, <2>3 DEF GraphIsOld
  <2>7. BeforeIsRead'
    BY <1>1, <2>1, <2>3, <2>4 DEF BeforeIsRead
  <2>8. walk.done = {} /\ walk.impacted = {}
    BY <2>1 DEF WalkIsSound
  <2>9. ToSet(<<walk.start>>) = {walk.start} /\ Distinct(<<walk.start>>)
    BY DEF ToSet, Distinct
  <2>10. WalkIsSound'
    BY <2>4, <2>8, <2>9 DEF WalkIsSound
  <2> QED
    BY <2>5, <2>6, <2>7, <2>10
<1> QED
  BY <1>2, <1>3, <1>4

(* The traversal takes the next LOT of its queue.                             *)
LEMMA VisitStep ==
  ASSUME TraceInvariant, VisitNext
  PROVE  TraceInvariant'
<1> USE DEF TraceInvariant
<1>1. target' = target /\ produced' = produced /\ consumed' = consumed /\ graph' = graph
      /\ walk.step = "walk" /\ walk.pending # << >>
  BY DEF VisitNext
<1>2. PICK lot : lot = Head(walk.pending)
  OBVIOUS
<1>3. PICK fresh \in SUBSET Products : fresh = Consumers(lot)
  BY DirectAreProducts DEF Consumers, TraceTyped, Graphs
<1>4. PICK more : more = SetToSeq(fresh \ walk.visited)
  OBVIOUS
<1>5. more \in Seq(fresh \ walk.visited) /\ Distinct(more) /\ ToSet(more) = fresh \ walk.visited
  <2>1. IsFiniteSet(fresh \ walk.visited)
    BY TraceAssumption, FS_Subset
  <2> QED
    BY <1>4, <2>1, Listed
<1>6. more \in Seq(Nodes)
  BY <1>5 DEF Nodes
<1>7. walk.pending \in Seq(Nodes) /\ walk \in Walks /\ walk.start \in Nodes
      /\ walk.visited = walk.done \cup ToSet(walk.pending) /\ Distinct(walk.pending)
      /\ walk.done \cap ToSet(walk.pending) = {}
  BY <1>1 DEF TraceTyped, WalkIsSound, Walks
<1>8. ToSet(more) \cap ToSet(walk.pending) = {}
  BY <1>5, <1>7
<1>9. PICK queue : queue = Tail(walk.pending) \o more
  OBVIOUS
<1>10. /\ lot \in Nodes /\ lot \in ToSet(walk.pending) /\ queue \in Seq(Nodes)
       /\ Distinct(queue) /\ ToSet(queue) = (ToSet(walk.pending) \ {lot}) \cup ToSet(more)
  BY <1>1, <1>2, <1>6, <1>7, <1>5, <1>8, <1>9, QueueMoves
<1>11. walk' = [walk EXCEPT !.impacted = walk.impacted \cup fresh,
                            !.visited = walk.visited \cup fresh,
                            !.done = walk.done \cup {lot}, !.pending = queue]
  BY <1>2, <1>3, <1>4, <1>9 DEF VisitNext, Visited
<1>12. /\ walk' \in Walks /\ walk'.step = "walk" /\ walk'.start = walk.start
       /\ walk'.before = walk.before /\ walk'.impacted = walk.impacted \cup fresh
       /\ walk'.visited = walk.visited \cup fresh /\ walk'.done = walk.done \cup {lot}
       /\ walk'.pending = queue
  <2>1. PICK found \in SUBSET Products : found = walk.impacted \cup fresh
    BY <1>7 DEF Walks
  <2>2. PICK visited \in SUBSET Nodes : visited = walk.visited \cup fresh
    BY <1>7 DEF Walks, Nodes
  <2>3. PICK done \in SUBSET Nodes : done = walk.done \cup {lot}
    BY <1>7, <1>10 DEF Walks
  <2>4. walk' = [walk EXCEPT !.impacted = found, !.visited = visited, !.done = done,
                             !.pending = queue]
    BY <1>11, <2>1, <2>2, <2>3
  <2>5. /\ walk' \in Walks /\ walk'.step = walk.step /\ walk'.start = walk.start
        /\ walk'.before = walk.before /\ walk'.impacted = found /\ walk'.visited = visited
        /\ walk'.done = done /\ walk'.pending = queue
    BY <1>7, <1>10, <2>4 DEF Walks
  <2> QED
    BY <1>1, <2>1, <2>2, <2>3, <2>5
<1>13. TraceTyped'
  BY <1>1, <1>7, <1>12 DEF TraceTyped
<1>14. GraphIsOld' /\ BeforeIsRead'
  BY <1>1, <1>12 DEF GraphIsOld, BeforeIsRead
<1>15. WalkIsSound'
  <2>1. PICK all \in SUBSET Products :
          all = Downstream(graph.target, graph.consumed, graph.produced, walk.start)
    BY DownstreamIsClosed DEF TraceTyped, Graphs
  <2>2. Consumers(walk.start) \subseteq all /\ \A q \in all : Consumers(q) \subseteq all
    <3>1. graph.produced \in SUBSET Products
      BY DEF TraceTyped, Graphs
    <3> QED
      BY <2>1, <3>1, DownstreamIsClosed DEF Consumers
  <2>3. /\ walk.visited = {walk.start} \cup walk.impacted /\ walk.impacted \subseteq all
        /\ \A x \in walk.done : Consumers(x) \subseteq walk.impacted
    BY <1>1, <2>1 DEF WalkIsSound
  <2>4. fresh \subseteq all
    BY <1>3, <1>7, <1>10, <2>2, <2>3
  <2>5. \A x : Consumers(x)' = Consumers(x)
    BY <1>1 DEF Consumers
  <2>6. \A x \in walk'.done : Consumers(x)' \subseteq walk'.impacted
    BY <1>3, <1>12, <2>3, <2>5
  <2>7. walk'.visited = walk'.done \cup ToSet(walk'.pending)
    BY <1>5, <1>7, <1>10, <1>12
  <2>8. walk'.done \cap ToSet(walk'.pending) = {} /\ Distinct(walk'.pending)
    BY <1>5, <1>7, <1>10, <1>12
  <2>9. walk'.visited = {walk'.start} \cup walk'.impacted
    BY <1>12, <2>3
  <2>10. walk'.impacted \subseteq
           Downstream(graph'.target, graph'.consumed, graph'.produced, walk'.start)
    BY <1>1, <1>12, <2>1, <2>3, <2>4
  <2> QED
    BY <1>12, <2>6, <2>7, <2>8, <2>9, <2>10 DEF WalkIsSound
<1> QED
  BY <1>13, <1>14, <1>15

LEMMA TraceBegins ==
  InitTrace => TraceInvariant
<1> SUFFICES ASSUME InitTrace PROVE TraceInvariant
  OBVIOUS
<1>1. TraceTyped
  BY RestingWalk DEF InitTrace, TraceTyped
<1>2. GraphIsOld
  BY RestingWalk DEF InitTrace, GraphIsOld
<1>3. BeforeIsRead /\ WalkIsSound
  BY RestingWalk DEF InitTrace, BeforeIsRead, WalkIsSound
<1> QED
  BY <1>1, <1>2, <1>3 DEF TraceInvariant

LEMMA TraceStep ==
  TraceInvariant /\ [NextTrace]_traceVars => TraceInvariant'
<1> SUFFICES ASSUME TraceInvariant, [NextTrace]_traceVars PROVE TraceInvariant'
  OBVIOUS
<1>1. ASSUME NEW d \in Deliveries, NEW lot \in Nodes, Allocate(d, lot)
      PROVE  TraceInvariant'
  <2>1. UNCHANGED <<graph, walk, produced, consumed>> /\ target[d] = None
        /\ target' = [target EXCEPT ![d] = lot]
    BY <1>1 DEF Allocate
  <2>2. target' \in [Deliveries -> Nodes \cup {None}]
        /\ \A e \in Deliveries : target[e] # None => target'[e] = target[e]
    BY <2>1 DEF TraceInvariant, TraceTyped
  <2>3. produced' \in SUBSET Products /\ consumed' \in SUBSET (Deliveries \X produced')
    BY <2>1 DEF TraceInvariant, TraceTyped
  <2> QED
    BY <2>1, <2>2, <2>3, TablesGrow
<1>2. ASSUME NEW d \in Deliveries, NEW q \in Products, Consume(d, q)
      PROVE  TraceInvariant'
  <2>1. UNCHANGED <<graph, walk, target, produced>> /\ q \in produced
        /\ consumed' = consumed \cup {<<d, q>>}
    BY <1>2 DEF Consume
  <2>2. target' \in [Deliveries -> Nodes \cup {None}]
        /\ \A e \in Deliveries : target[e] # None => target'[e] = target[e]
    BY <2>1 DEF TraceInvariant, TraceTyped
  <2>3. produced' \in SUBSET Products /\ consumed' \in SUBSET (Deliveries \X produced')
    BY <2>1 DEF TraceInvariant, TraceTyped
  <2> QED
    BY <2>1, <2>2, <2>3, TablesGrow
<1>3. ASSUME NEW q \in Products, Produce(q)
      PROVE  TraceInvariant'
  <2>1. UNCHANGED <<graph, walk, target, consumed>> /\ produced' = produced \cup {q}
    BY <1>3 DEF Produce
  <2>2. target' \in [Deliveries -> Nodes \cup {None}]
        /\ \A e \in Deliveries : target[e] # None => target'[e] = target[e]
    BY <2>1 DEF TraceInvariant, TraceTyped
  <2>3. produced' \in SUBSET Products /\ consumed' \in SUBSET (Deliveries \X produced')
    BY <2>1 DEF TraceInvariant, TraceTyped
  <2> QED
    BY <2>1, <2>2, <2>3, TablesGrow
<1>4. CASE (\E lot \in Materials : ReadAllocations(lot)) \/ ReadConsumptions \/ ReadProductionLots
  BY <1>4, LoadStep
<1>5. CASE VisitNext
  BY <1>5, VisitStep
<1>6. CASE Answered
  <2>1. target' = target /\ produced' = produced /\ consumed' = consumed
        /\ walk' = AtRest /\ graph' = Unread
    BY <1>6 DEF Answered, tables
  <2>2. TraceTyped'
    BY <2>1, RestingWalk DEF TraceInvariant, TraceTyped
  <2>3. GraphIsOld'
    BY <2>1, RestingWalk DEF GraphIsOld
  <2>4. BeforeIsRead' /\ WalkIsSound'
    BY <2>1, RestingWalk DEF BeforeIsRead, WalkIsSound
  <2> QED
    BY <2>2, <2>3, <2>4 DEF TraceInvariant
<1>7. CASE UNCHANGED traceVars
  <2>1. target' = target /\ produced' = produced /\ consumed' = consumed
        /\ walk' = walk /\ graph' = graph
    BY <1>7 DEF traceVars
  <2> QED
    BY <2>1 DEF TraceInvariant, TraceTyped, GraphIsOld, BeforeIsRead, WalkIsSound, Consumers
<1> QED
  BY <1>1, <1>2, <1>3, <1>4, <1>5, <1>6, <1>7 DEF NextTrace

(* What was read is old, what lay downstream when the load began is still      *)
(* there to be found, and the traversal has either done or queued what it saw: *)
(* the inductive invariant of the traces, in every state.                     *)
THEOREM TracesAreSound == TraceSpec => []TraceInvariant
<1> QED
  BY TraceBegins, TraceStep, PTL DEF TraceSpec

(* The tables, the graph and the traversal keep their types.                  *)
THEOREM TracesTyped == TraceSpec => []TraceTypeOK
<1>1. TraceInvariant => TraceTypeOK
  BY DEF TraceInvariant, TraceTyped, TraceTypeOK, Graphs, Walks
<1> QED
  BY <1>1, TracesAreSound, PTL

(* An answer of impact_scope names every production lot that was downstream    *)
(* when load_traceability_graph began and none that is not downstream now,     *)
(* whatever was added between its three statements, and no LOT is visited      *)
(* twice.                                                                     *)
THEOREM TracesAreExact == TraceSpec => []TraceIsExact
<1>1. TraceInvariant => TraceIsExact
  <2> SUFFICES ASSUME TraceInvariant PROVE TraceIsExact
    OBVIOUS
  <2>1. NoLotTwice
    BY DEF TraceInvariant, WalkIsSound, Distinct, NoLotTwice
  <2>2. ASSUME walk.step = "walk", walk.pending = << >>
        PROVE  /\ walk.before \subseteq walk.impacted
               /\ walk.impacted \subseteq Downstream(target, consumed, produced, walk.start)
    <3>1. /\ walk.start \in Nodes /\ walk.impacted \in SUBSET Products
          /\ produced \in SUBSET Products /\ graph.produced \in SUBSET Products
      BY <2>2 DEF TraceInvariant, TraceTyped, Walks, Graphs
    <3>2. ToSet(walk.pending) = {}
      BY <2>2, RestingWalk
    <3>3. walk.done = {walk.start} \cup walk.impacted
          /\ \A lot \in walk.done : Consumers(lot) \subseteq walk.impacted
      BY <2>2, <3>2 DEF TraceInvariant, WalkIsSound
    <3>4. Downstream(graph.target, graph.consumed, graph.produced, walk.start)
            \subseteq walk.impacted
      <4>1. PICK X \in SUBSET Products : X = walk.impacted
        BY <3>1
      <4>2. Direct(graph.target, graph.consumed, graph.produced, walk.start) \subseteq X
            /\ \A q \in X : Direct(graph.target, graph.consumed, graph.produced, q) \subseteq X
        BY <3>3, <4>1 DEF Consumers
      <4> QED
        BY <3>1, <4>1, <4>2, DownstreamIsLeast
    <3>5. walk.before \subseteq
            Downstream(graph.target, graph.consumed, graph.produced, walk.start)
      BY <2>2 DEF TraceInvariant, BeforeIsRead
    <3>6. walk.impacted \subseteq
            Downstream(graph.target, graph.consumed, graph.produced, walk.start)
      BY <2>2 DEF TraceInvariant, WalkIsSound
    <3>7. Downstream(graph.target, graph.consumed, graph.produced, walk.start)
            \subseteq Downstream(target, consumed, produced, walk.start)
      BY <3>1, ReadingGrows DEF TraceInvariant, GraphIsOld
    <3> QED
      BY <3>4, <3>5, <3>6, <3>7
  <2> QED
    BY <2>1, <2>2 DEF TraceIsExact, ImpactIsDownstream
<1> QED
  BY <1>1, TracesAreSound, PTL

-----------------------------------------------------------------------------
(* Figures                                                                    *)
-----------------------------------------------------------------------------
(* What the reports count, by verdict.                                        *)
Tally(p) == [v \in Verdicts |-> Cardinality({c \in Population(p) : decided[c].verdict = v})]
Settled(p) == published[p] # None /\ published[p].settled
Reports == [period : Periods \cup {None}, settled : BOOLEAN, left : SUBSET Approvals,
            rows : UNION {[cs -> FigureRow] : cs \in SUBSET Approvals}]
FiguresTyped ==
  /\ now \in FigureMoments /\ decided \in [Approvals -> Decided \cup {None}]
  /\ firmName \in [Firms -> FirmNames] /\ report \in Reports
  /\ DOMAIN published = Periods
(* A report that is being made: the cases it is about were decided, and those  *)
(* it has read are in it with their verdicts; when its period was over as it   *)
(* began, they are what is counted of the period.                             *)
ReportIsSound ==
  /\ DOMAIN report.rows \cap report.left = {}
  /\ \A c \in DOMAIN report.rows \cup report.left : c \in Approvals /\ Counted(c)
  /\ \A c \in DOMAIN report.rows : report.rows[c].verdict = decided[c].verdict
  /\ report.period \in Periods /\ report.settled =>
       /\ PeriodOver(report.period)
       /\ DOMAIN report.rows \cup report.left = Population(report.period)
  /\ report.period \in Periods /\ Settled(report.period) => report.settled
PublishedIsSound ==
  \A p \in Periods : Settled(p) => PeriodOver(p) /\ published[p].byVerdict = Tally(p)
FiguresInvariant == FiguresTyped /\ ReportIsSound /\ PublishedIsSound

(* What a step may do to the decisions: they stay, and new ones are stamped    *)
(* with the time.                                                             *)
DecisionsStay ==
  /\ now \in Int /\ now' \in Int /\ now <= now'
  /\ \A c \in Approvals :
       /\ decided[c] # None =>
            /\ decided'[c] # None /\ decided'[c].verdict = decided[c].verdict
            /\ decided'[c].stamp = decided[c].stamp
            /\ decided[c].committed => decided'[c].committed
       /\ decided[c] = None /\ decided'[c] # None => decided'[c].stamp = now

LEMMA PeriodsStayOver ==
  ASSUME DecisionsStay, NEW p \in Periods, PeriodOver(p)
  PROVE  PeriodOver(p)' /\ Population(p)' = Population(p) /\ Tally(p)' = Tally(p)
<1>1. \A t : InPeriod(t, p) => t \in Bounds(p)
  BY DEF InPeriod
<1>2. now \notin Bounds(p) /\ \A t \in Bounds(p) : t < now'
  <2>1. \A t \in Bounds(p) : t \in Int /\ t < now
    BY DEF PeriodOver, Bounds
  <2> QED
    BY <2>1 DEF DecisionsStay
<1>3. ASSUME NEW c \in Approvals, decided'[c] # None, InPeriod(decided'[c].stamp, p)
      PROVE  Counted(c) /\ Counted(c)' /\ decided'[c].stamp = decided[c].stamp
             /\ decided'[c].verdict = decided[c].verdict
  <2>1. decided[c] # None
    BY <1>1, <1>2, <1>3 DEF DecisionsStay
  <2>2. decided'[c].stamp = decided[c].stamp
    BY <2>1 DEF DecisionsStay
  <2>3. Counted(c)
    BY <1>3, <2>1, <2>2 DEF PeriodOver
  <2> QED
    BY <2>1, <2>2, <2>3 DEF DecisionsStay, Counted
<1>4. ASSUME NEW c \in Approvals, Counted(c), InPeriod(decided[c].stamp, p)
      PROVE  Counted(c)' /\ decided'[c].stamp = decided[c].stamp
  BY <1>4 DEF DecisionsStay, Counted
<1>5. PeriodOver(p)'
  BY <1>2, <1>3 DEF PeriodOver, Bounds, InPeriod
<1>6. Population(p)' = Population(p)
  <2>1. \A t : InPeriod(t, p)' <=> InPeriod(t, p)
    BY DEF InPeriod, Bounds
  <2>2. \A c \in Approvals : Counted(c)' /\ InPeriod(decided'[c].stamp, p)
                             <=> Counted(c) /\ InPeriod(decided[c].stamp, p)
    BY <1>3, <1>4 DEF Counted
  <2> QED
    BY <2>1, <2>2 DEF Population, InPeriod, Bounds
<1>7. \A c \in Population(p) : decided'[c].verdict = decided[c].verdict
  BY DEF DecisionsStay, Population, Counted
<1>8. \A v : {c \in Population(p)' : decided'[c].verdict = v}
             = {c \in Population(p) : decided[c].verdict = v}
  BY <1>6, <1>7
<1> QED
  BY <1>5, <1>6, <1>8 DEF Tally

(* Decisions are made, committed and followed up while a report waits.        *)
LEMMA FiguresWait ==
  ASSUME FiguresInvariant, DecisionsStay, UNCHANGED <<report, published>>,
         now' \in FigureMoments, decided' \in [Approvals -> Decided \cup {None}],
         firmName' \in [Firms -> FirmNames]
  PROVE  FiguresInvariant'
<1>1. FiguresTyped'
  BY DEF FiguresInvariant, FiguresTyped
<1>2. PublishedIsSound'
  <2>1. \A p \in Periods : Settled(p)' => Settled(p)
    BY DEF Settled
  <2>2. ASSUME NEW p \in Periods, Settled(p)
        PROVE  PeriodOver(p)' /\ published'[p].byVerdict = Tally(p)'
    <3>1. PeriodOver(p) /\ published[p].byVerdict = Tally(p)
      BY <2>2 DEF FiguresInvariant, PublishedIsSound
    <3>2. PeriodOver(p)' /\ Tally(p)' = Tally(p)
      BY <3>1, PeriodsStayOver
    <3> QED
      BY <3>1, <3>2
  <2> QED
    BY <2>1, <2>2 DEF PublishedIsSound
<1>3. ReportIsSound'
  <2>1. \A c \in DOMAIN report.rows \cup report.left : c \in Approvals /\ Counted(c)
    BY DEF FiguresInvariant, ReportIsSound
  <2>2. \A c \in DOMAIN report.rows \cup report.left : c \in Approvals /\ Counted(c)'
    BY <2>1 DEF DecisionsStay, Counted
  <2>3. \A c \in DOMAIN report.rows : report.rows[c].verdict = decided'[c].verdict
    BY <2>1 DEF FiguresInvariant, ReportIsSound, DecisionsStay, Counted
  <2>4. ASSUME report.period \in Periods, report.settled
        PROVE  PeriodOver(report.period)'
               /\ DOMAIN report.rows \cup report.left = Population(report.period)'
    <3>1. PICK p \in Periods : p = report.period
      BY <2>4
    <3>2. PeriodOver(p) /\ DOMAIN report.rows \cup report.left = Population(p)
      BY <2>4, <3>1 DEF FiguresInvariant, ReportIsSound
    <3>3. PeriodOver(p)' /\ Population(p)' = Population(p)
      BY <3>2, PeriodsStayOver
    <3>4. report'.period = p
      BY <3>1
    <3> QED
      BY <3>1, <3>2, <3>3, <3>4 DEF PeriodOver, Population, Bounds, InPeriod, Counted
  <2> QED
    BY <2>2, <2>3, <2>4 DEF FiguresInvariant, ReportIsSound, Settled
<1> QED
  BY <1>1, <1>2, <1>3 DEF FiguresInvariant

(* What is read of a decided case is a row.                                   *)
LEMMA RowsAreRows ==
  ASSUME FiguresTyped, NEW c \in Approvals, Counted(c)
  PROVE  RowOf(c) \in FigureRow /\ RowOf(c).verdict = decided[c].verdict
<1>1. decided[c] \in Decided
  BY DEF FiguresTyped, Counted
<1>2. firmName[decided[c].firm] \in FirmNames
  BY <1>1 DEF FiguresTyped, Decided
<1> QED
  BY <1>1, <1>2 DEF RowOf, FigureRow, Decided

LEMMA NoReportIsOne ==
  /\ NoReport \in Reports /\ NoReport.left = {} /\ DOMAIN NoReport.rows = {}
  /\ NoReport.period = None /\ NoReport.settled = FALSE
<1>1. << >> \in [{} -> FigureRow]
  OBVIOUS
<1>2. << >> \in UNION {[cs -> FigureRow] : cs \in SUBSET Approvals}
  BY <1>1
<1> QED
  BY <1>2 DEF NoReport, Reports

(* A report is begun.                                                         *)
LEMMA BeginStep ==
  ASSUME FiguresInvariant, NEW p \in Periods, BeginReport(p)
  PROVE  FiguresInvariant'
<1> USE DEF FiguresInvariant
<1>1. UNCHANGED <<now, decided, firmName, published>>
  BY DEF BeginReport
<1>2. PICK first \in SUBSET Approvals : first = Population(p)
  BY DEF Population
<1>3. PICK over \in BOOLEAN : over = PeriodOver(p)
  BY DEF PeriodOver
<1>4. PICK none \in UNION {[cs -> FigureRow] : cs \in SUBSET Approvals} :
        none = << >> /\ DOMAIN none = {}
  BY NoReportIsOne DEF NoReport, Reports
<1>5. report' = [period |-> p, settled |-> over, left |-> first, rows |-> none]
  BY <1>2, <1>3, <1>4 DEF BeginReport
<1>6. report' \in Reports /\ report'.period = p /\ report'.settled = over
      /\ report'.left = first /\ report'.rows = none
  BY <1>5 DEF Reports
<1>7. FiguresTyped'
  BY <1>1, <1>6 DEF FiguresTyped
<1>8. Settled(p) => over
  BY <1>3 DEF PublishedIsSound
<1>9. \A c \in first : c \in Approvals /\ Counted(c)
  BY <1>2 DEF Population
<1>10. \A c : Counted(c)' <=> Counted(c)
  BY <1>1 DEF Counted
<1>11. \A q : (PeriodOver(q)' <=> PeriodOver(q)) /\ Population(q)' = Population(q)
              /\ Tally(q)' = Tally(q) /\ (Settled(q)' <=> Settled(q))
  BY <1>1 DEF PeriodOver, Population, Tally, Settled, Bounds, InPeriod, Counted
<1>12. ReportIsSound'
  <2>1. PeriodOver(report.period)' <=> over
    BY <1>3, <1>6, <1>1 DEF PeriodOver, Bounds, InPeriod, Counted
  <2>2. Population(report.period)' = first
    BY <1>2, <1>6, <1>1 DEF Population, Bounds, InPeriod, Counted
  <2>3. Settled(report.period)' <=> Settled(p)
    BY <1>6, <1>1 DEF Settled
  <2>4. DOMAIN report'.rows = {}
    BY <1>4, <1>6
  <2> QED
    BY <1>6, <1>8, <1>9, <1>10, <2>1, <2>2, <2>3, <2>4 DEF ReportIsSound
<1>13. PublishedIsSound'
  BY <1>1, <1>11 DEF PublishedIsSound
<1> QED
  BY <1>7, <1>12, <1>13

(* The next case is looked up.                                                *)
LEMMA ReadRowStep ==
  ASSUME FiguresInvariant, NEW c \in Approvals, ReadRow(c)
  PROVE  FiguresInvariant'
<1> USE DEF FiguresInvariant
<1>1. UNCHANGED <<now, decided, firmName, published>> /\ c \in report.left
  BY DEF ReadRow
<1>2. PICK cs \in SUBSET Approvals : report.rows \in [cs -> FigureRow]
  BY DEF FiguresTyped, Reports
<1>3. Counted(c) /\ c \notin cs
  BY <1>1, <1>2 DEF ReportIsSound
<1>4. PICK row \in FigureRow : row = RowOf(c) /\ row.verdict = decided[c].verdict
  BY <1>3, RowsAreRows
<1>5. PICK more \in [cs \cup {c} -> FigureRow] :
        more = [d \in cs \cup {c} |-> IF d = c THEN row ELSE report.rows[d]]
  BY <1>2
<1>6. more \in UNION {[ds -> FigureRow] : ds \in SUBSET Approvals}
      /\ DOMAIN more = cs \cup {c} /\ DOMAIN report.rows = cs
  BY <1>2, <1>5
<1>7. report' = [report EXCEPT !.left = report.left \ {c}, !.rows = more]
  BY <1>2, <1>4, <1>5, <1>6 DEF ReadRow
<1>8. PICK left \in SUBSET Approvals : left = report.left \ {c}
  BY DEF FiguresTyped, Reports
<1>9. report' \in Reports /\ report'.period = report.period
      /\ report'.settled = report.settled /\ report'.left = left /\ report'.rows = more
  <2>1. report \in Reports /\ report' = [report EXCEPT !.left = left, !.rows = more]
    BY <1>7, <1>8 DEF FiguresTyped
  <2> QED
    BY <2>1, <1>6 DEF Reports
<1>10. FiguresTyped'
  BY <1>1, <1>9 DEF FiguresTyped
<1>11. DOMAIN report'.rows \cup report'.left = DOMAIN report.rows \cup report.left
       /\ DOMAIN report'.rows \cap report'.left = {}
  BY <1>1, <1>6, <1>8, <1>9 DEF ReportIsSound
<1>12. \A d \in DOMAIN report'.rows : report'.rows[d].verdict = decided[d].verdict
  BY <1>4, <1>5, <1>6, <1>9 DEF ReportIsSound
<1>13. \A q : (PeriodOver(q)' <=> PeriodOver(q)) /\ Population(q)' = Population(q)
              /\ Tally(q)' = Tally(q) /\ (Settled(q)' <=> Settled(q)) /\ (Counted(q)' <=> Counted(q))
  BY <1>1 DEF PeriodOver, Population, Tally, Settled, Bounds, InPeriod, Counted
<1>14. ReportIsSound'
  <2>1. (PeriodOver(report.period)' <=> PeriodOver(report.period))
        /\ Population(report.period)' = Population(report.period)
        /\ (Settled(report.period)' <=> Settled(report.period))
    BY <1>1, <1>9 DEF PeriodOver, Population, Settled, Bounds, InPeriod, Counted
  <2> QED
    BY <1>1, <1>9, <1>11, <1>12, <1>13, <2>1 DEF ReportIsSound
<1>15. PublishedIsSound'
  BY <1>1, <1>13 DEF PublishedIsSound
<1> QED
  BY <1>10, <1>14, <1>15

(* A report is published: what it counts by verdict, when the period was over.  *)
LEMMA PublishStep ==
  ASSUME FiguresInvariant, PublishReport
  PROVE  /\ FiguresInvariant'
         /\ \A p \in Periods : Settled(p) => published'[p].byVerdict = published[p].byVerdict
<1> USE DEF FiguresInvariant
<1>1. UNCHANGED <<now, decided, firmName>> /\ report' = NoReport /\ report.period # None
      /\ report.left = {}
  BY DEF PublishReport
<1>2. PICK p \in Periods : p = report.period
  BY <1>1 DEF FiguresTyped, Reports
<1>3. published' = [published EXCEPT ![p] =
        [byVerdict |-> ByVerdict(report.rows), settled |-> report.settled]]
  BY <1>2 DEF PublishReport, Figures
<1>4. published'[p].byVerdict = ByVerdict(report.rows)
      /\ published'[p].settled = report.settled
      /\ (\A q \in Periods : q # p => published'[q] = published[q])
      /\ DOMAIN published' = Periods
  BY <1>3 DEF FiguresTyped
<1>5. report.settled => PeriodOver(p) /\ ByVerdict(report.rows) = Tally(p)
  <2> SUFFICES ASSUME report.settled PROVE PeriodOver(p) /\ ByVerdict(report.rows) = Tally(p)
    OBVIOUS
  <2>1. PeriodOver(p) /\ DOMAIN report.rows = Population(p)
    BY <1>1, <1>2 DEF ReportIsSound
  <2>2. \A v : {c \in DOMAIN report.rows : report.rows[c].verdict = v}
               = {c \in Population(p) : decided[c].verdict = v}
    BY <2>1 DEF ReportIsSound
  <2>3. ByVerdict(report.rows) = Tally(p)
    BY <2>2 DEF ByVerdict, Count, Tally
  <2> QED
    BY <2>1, <2>3
<1>6. \A q : (PeriodOver(q)' <=> PeriodOver(q)) /\ Tally(q)' = Tally(q)
  BY <1>1 DEF PeriodOver, Population, Tally, Bounds, InPeriod, Counted
<1>7. FiguresTyped'
  BY <1>1, <1>4, NoReportIsOne DEF FiguresTyped
<1>8. ReportIsSound'
  <2>1. None \notin Periods
    BY <1>1, <1>2, FigureAssumption
  <2> QED
    BY <1>1, <2>1, NoReportIsOne DEF ReportIsSound
<1>9. PublishedIsSound'
  <2> SUFFICES ASSUME NEW q \in Periods, Settled(q)'
               PROVE  PeriodOver(q)' /\ published'[q].byVerdict = Tally(q)'
    BY DEF PublishedIsSound
  <2>1. CASE q = p
    <3>1. report.settled
      BY <1>4, <2>1 DEF Settled
    <3> QED
      BY <1>4, <1>5, <1>6, <2>1, <3>1
  <2>2. CASE q # p
    <3>1. Settled(q)
      BY <1>4, <2>2 DEF Settled
    <3>2. PeriodOver(q) /\ published[q].byVerdict = Tally(q)
      BY <3>1 DEF PublishedIsSound
    <3> QED
      BY <1>4, <1>6, <2>2, <3>2
  <2> QED
    BY <2>1, <2>2
<1>10. ASSUME NEW q \in Periods, Settled(q)
       PROVE  published'[q].byVerdict = published[q].byVerdict
  <2>1. CASE q = p
    <3>1. report.settled
      BY <1>10, <1>2, <2>1 DEF ReportIsSound
    <3> QED
      BY <1>10, <1>4, <1>5, <2>1, <3>1 DEF PublishedIsSound
  <2>2. CASE q # p
    BY <1>4, <2>2
  <2> QED
    BY <2>1, <2>2
<1> QED
  BY <1>7, <1>8, <1>9, <1>10

LEMMA FiguresBegin ==
  InitFigures => FiguresInvariant
<1> SUFFICES ASSUME InitFigures PROVE FiguresInvariant
  OBVIOUS
<1>1. now \in FigureMoments
  BY FigureAssumption DEF InitFigures, FigureMoments
<1>2. FiguresTyped
  BY <1>1, NoReportIsOne DEF InitFigures, FiguresTyped
<1>3. ReportIsSound
  BY NoReportIsOne, FigureAssumption DEF InitFigures, ReportIsSound
<1>4. PublishedIsSound
  BY DEF InitFigures, PublishedIsSound, Settled
<1> QED
  BY <1>2, <1>3, <1>4 DEF FiguresInvariant

(* One action of the figures.                                                 *)
LEMMA FiguresStep ==
  ASSUME FiguresInvariant, [NextFigures]_figureVars
  PROVE  /\ FiguresInvariant'
         /\ \A p \in Periods : Settled(p) => published'[p].byVerdict = published[p].byVerdict
<1> DEFINE Kept == \A p \in Periods :
                     Settled(p) => published'[p].byVerdict = published[p].byVerdict
<1>1. /\ now \in FigureMoments /\ now \in Int /\ decided \in [Approvals -> Decided \cup {None}]
      /\ firmName \in [Firms -> FirmNames]
  BY DEF FiguresInvariant, FiguresTyped, FigureMoments
<1>2. ASSUME NEW e \in Decided, NEW o \in 0 .. 1, NEW b \in BOOLEAN
      PROVE  [e EXCEPT !.open = o] \in Decided /\ [e EXCEPT !.open = o, !.disposed = b] \in Decided
  BY DEF Decided
<1>3. ASSUME NEW c \in Approvals, NEW d \in Decided, UNCHANGED <<now, firmName, report, published>>,
             decided' = [decided EXCEPT ![c] = d],
             IF decided[c] = None THEN d.stamp = now
             ELSE /\ d.verdict = decided[c].verdict /\ d.stamp = decided[c].stamp
                  /\ decided[c].committed => d.committed
      PROVE  FiguresInvariant' /\ Kept
  <2>1. decided' \in [Approvals -> Decided \cup {None}] /\ now' \in FigureMoments
        /\ firmName' \in [Firms -> FirmNames]
    BY <1>1, <1>3
  <2>2. \A e \in Approvals : decided'[e] = IF e = c THEN d ELSE decided[e]
    BY <1>1, <1>3
  <2>3. d # None
    BY DecidedAssumption
  <2>4. DecisionsStay
    BY <1>1, <1>3, <2>2, <2>3 DEF DecisionsStay
  <2> QED
    BY <1>3, <2>1, <2>4, FiguresWait
<1>4. ASSUME NEW c \in Approvals, NEW verdict \in Verdicts, NEW firm \in Firms,
             DecideCase(c, verdict, firm)
      PROVE  FiguresInvariant' /\ Kept
  <2>1. PICK d \in Decided : d = [verdict |-> verdict, stamp |-> now, committed |-> FALSE,
                                  firm |-> firm, disposed |-> FALSE, open |-> 0]
    <3>1. PICK o \in 0 .. 1 : o = 0
      OBVIOUS
    <3>2. PICK at \in FigureMoments : at = now
      BY <1>1
    <3>3. [verdict |-> verdict, stamp |-> at, committed |-> FALSE, firm |-> firm,
           disposed |-> FALSE, open |-> o] \in Decided
      BY DEF Decided
    <3> QED
      BY <3>1, <3>2, <3>3
  <2>2. d.stamp = now
    BY <2>1
  <2> QED
    BY <1>3, <1>4, <2>1, <2>2 DEF DecideCase
<1>5. ASSUME NEW c \in Approvals, CommitApproval(c)
      PROVE  FiguresInvariant' /\ Kept
  <2>1. decided[c] \in Decided /\ decided[c] # None
    BY <1>1, <1>5 DEF CommitApproval
  <2>2. PICK d \in Decided : d = [decided[c] EXCEPT !.committed = TRUE]
    BY <2>1 DEF Decided
  <2>3. d.verdict = decided[c].verdict /\ d.stamp = decided[c].stamp /\ d.committed
    BY <2>1, <2>2 DEF Decided
  <2>4. decided' = [decided EXCEPT ![c] = d] /\ UNCHANGED <<now, firmName, report, published>>
    BY <1>1, <1>5, <2>2 DEF CommitApproval
  <2> QED
    BY <1>3, <2>1, <2>3, <2>4
<1>6. ASSUME NEW c \in Approvals, RaiseNonconformance(c)
      PROVE  FiguresInvariant' /\ Kept
  <2>1. decided[c] \in Decided /\ decided[c] # None
    BY <1>1, <1>6 DEF RaiseNonconformance, Counted
  <2>2. PICK d \in Decided : d = [decided[c] EXCEPT !.open = 1]
    <3>1. PICK o \in 0 .. 1 : o = 1
      OBVIOUS
    <3> QED
      BY <1>2, <2>1, <3>1
  <2>3. d.verdict = decided[c].verdict /\ d.stamp = decided[c].stamp
        /\ d.committed = decided[c].committed
    BY <2>1, <2>2 DEF Decided
  <2>4. decided' = [decided EXCEPT ![c] = d] /\ UNCHANGED <<now, firmName, report, published>>
    BY <1>1, <1>6, <2>2 DEF RaiseNonconformance
  <2> QED
    BY <1>3, <2>1, <2>3, <2>4
<1>7. ASSUME NEW c \in Approvals, Dispose(c)
      PROVE  FiguresInvariant' /\ Kept
  <2>1. decided[c] \in Decided /\ decided[c] # None
    BY <1>1, <1>7 DEF Dispose, Counted
  <2>2. PICK d \in Decided : d = [decided[c] EXCEPT !.open = 0, !.disposed = TRUE]
    <3>1. PICK o \in 0 .. 1 : o = 0
      OBVIOUS
    <3>2. [decided[c] EXCEPT !.open = o, !.disposed = TRUE] \in Decided
      BY <1>2, <2>1
    <3> QED
      BY <3>1, <3>2
  <2>3. d.verdict = decided[c].verdict /\ d.stamp = decided[c].stamp
        /\ d.committed = decided[c].committed
    BY <2>1, <2>2 DEF Decided
  <2>4. decided' = [decided EXCEPT ![c] = d] /\ UNCHANGED <<now, firmName, report, published>>
    BY <1>1, <1>7, <2>2 DEF Dispose
  <2> QED
    BY <1>3, <2>1, <2>3, <2>4
<1>8. ASSUME NEW f \in Firms, NEW name \in FirmNames, RenameFirm(f, name)
      PROVE  FiguresInvariant' /\ Kept
  <2>1. /\ UNCHANGED <<report, published>> /\ now' \in FigureMoments
        /\ decided' \in [Approvals -> Decided \cup {None}] /\ firmName' \in [Firms -> FirmNames]
    BY <1>1, <1>8 DEF RenameFirm
  <2>2. DecisionsStay
    BY <1>1, <1>8 DEF RenameFirm, DecisionsStay
  <2> QED
    BY <2>1, <2>2, FiguresWait
<1>9. CASE TimePasses
  <2>1. /\ UNCHANGED <<report, published>> /\ now' \in FigureMoments /\ now' \in Int /\ now <= now'
        /\ decided' \in [Approvals -> Decided \cup {None}] /\ firmName' \in [Firms -> FirmNames]
    BY <1>1, <1>9, FigureAssumption DEF TimePasses, FigureMoments
  <2>2. DecisionsStay
    BY <1>1, <1>9, <2>1 DEF TimePasses, DecisionsStay
  <2> QED
    BY <2>1, <2>2, FiguresWait
<1>10. ASSUME NEW c \in Approvals, ReadRow(c)
      PROVE  FiguresInvariant' /\ Kept
  BY <1>10, ReadRowStep DEF ReadRow
<1>11. ASSUME NEW p \in Periods, BeginReport(p)
       PROVE  FiguresInvariant' /\ Kept
  BY <1>11, BeginStep DEF BeginReport
<1>12. CASE PublishReport
  BY <1>12, PublishStep
<1>13. CASE UNCHANGED figureVars
  <2>1. /\ UNCHANGED <<report, published>> /\ now' \in FigureMoments
        /\ decided' \in [Approvals -> Decided \cup {None}] /\ firmName' \in [Firms -> FirmNames]
    BY <1>1, <1>13 DEF figureVars
  <2>2. DecisionsStay
    BY <1>1, <1>13 DEF figureVars, DecisionsStay
  <2> QED
    BY <2>1, <2>2, FiguresWait
<1> QED
  BY <1>4, <1>5, <1>6, <1>7, <1>8, <1>9, <1>10, <1>11, <1>12, <1>13 DEF NextFigures

(* What is being reported was decided, what is published of a period that was  *)
(* over is what is counted of it: the inductive invariant of the reports.      *)
THEOREM FiguresAreSound == FiguresSpec => []FiguresInvariant
<1>1. FiguresInvariant /\ [NextFigures]_figureVars => FiguresInvariant'
  BY FiguresStep
<1> QED
  BY <1>1, FiguresBegin, PTL DEF FiguresSpec

(* The decisions, the report and its rows keep their types.                   *)
THEOREM ReportsTyped == FiguresSpec => []FigureTypeOK
<1>1. FiguresInvariant => FigureTypeOK
  BY DEF FiguresInvariant, FiguresTyped, FigureTypeOK, Reports
<1> QED
  BY <1>1, FiguresAreSound, PTL

(* A report of calculate_quality_statistics_data over a period that was over   *)
(* is never contradicted by a later one: the next report of the period counts  *)
(* the same verdicts, whatever was approved, raised, handled or renamed since.  *)
THEOREM PastIsSettled == FiguresSpec => PastDecisionsStand
<1>1. FiguresInvariant /\ [NextFigures]_figureVars =>
        [\A p \in Periods : published[p] # None /\ published[p].settled =>
           published'[p].byVerdict = published[p].byVerdict]_figureVars
  BY FiguresStep DEF Settled
<1> QED
  BY <1>1, FiguresAreSound, PTL DEF FiguresSpec, PastDecisionsStand

(* The day of a moment, for every length of a day.                            *)
LEMMA DayOfMoment ==
  ASSUME NEW t \in Int
  PROVE  /\ KstDay(t) \in Int
         /\ KstDay(t) * DayLength <= t + Shift /\ t + Shift < (KstDay(t) + 1) * DayLength
<1>1. DayLength \in Int /\ DayLength > 0 /\ Shift \in Int
  BY FigureAssumption
<1>2. ASSUME NEW a \in Int, NEW b \in Int, b > 0
      PROVE  a \div b \in Int /\ (a \div b) * b <= a /\ a < ((a \div b) + 1) * b
  BY <1>2
<1> QED
  BY <1>1, <1>2 DEF KstDay

LEMMA DaysGrow ==
  ASSUME NEW t \in Int, NEW u \in Int, t <= u
  PROVE  KstDay(t) <= KstDay(u)
<1>1. DayLength \in Int /\ DayLength > 0 /\ Shift \in Int
  BY FigureAssumption
<1>2. PICK l \in Int : l = DayLength
  BY <1>1
<1>3. PICK d \in Int : d = KstDay(t) /\ d * l <= t + Shift
  BY <1>2, DayOfMoment
<1>4. PICK e \in Int : e = KstDay(u) /\ u + Shift < (e + 1) * l
  BY <1>2, DayOfMoment
<1>5. d * l < (e + 1) * l
  BY <1>1, <1>3, <1>4
<1>6. ASSUME e + 1 <= d PROVE FALSE
  <2>1. (e + 1) * l <= d * l
    BY <1>1, <1>2, <1>6
  <2> QED
    BY <1>5, <2>1
<1> QED
  BY <1>3, <1>4, <1>6

(* Every decision is in the report of exactly one day of Seoul: the bounds in  *)
(* UTC (period_bounds_utc) and the filter in KST agree at both ends of a day.  *)
LEMMA OneDay ==
  FiguresTyped => CountedOnOneDay
<1> SUFFICES ASSUME FiguresTyped, NEW c \in Approvals, Counted(c)
             PROVE  {d \in 0 .. KstDay(LastMoment) : c \in Population(<<d, d>>)}
                    = {KstDay(decided[c].stamp)}
  BY DEF CountedOnOneDay
<1>1. PICK t \in FigureMoments : t = decided[c].stamp
  BY DEF FiguresTyped, Counted, Decided
<1>2. PICK day \in Int : day = KstDay(t) /\ day * DayLength <= t + Shift
                         /\ t + Shift < (day + 1) * DayLength
  BY DayOfMoment DEF FigureMoments
<1>3. t \in Int /\ 0 <= t /\ t <= LastMoment /\ LastMoment \in Int
  BY FigureAssumption DEF FigureMoments
<1>4. day <= KstDay(LastMoment) /\ KstDay(LastMoment) \in Int
  BY <1>2, <1>3, DaysGrow, DayOfMoment
<1>5. 0 <= day
  <2>1. KstDay(0) <= day
    BY <1>2, <1>3, DaysGrow
  <2>2. Shift \in Int /\ 0 <= Shift /\ DayLength \in Int /\ DayLength > 0
    BY FigureAssumption
  <2>3. KstDay(0) >= 0
    BY <2>2 DEF KstDay
  <2>4. KstDay(0) \in Int
    BY DayOfMoment
  <2> QED
    BY <2>1, <2>3, <2>4
<1>6. ASSUME NEW d \in 0 .. KstDay(LastMoment)
      PROVE  c \in Population(<<d, d>>) <=> d = day
  <2>1. d \in Int
    BY <1>4
  <2>2. c \in Population(<<d, d>>) <=> InPeriod(t, <<d, d>>)
    BY <1>1 DEF Population
  <2>3. InPeriod(t, <<d, d>>) => d = day
    BY <1>2, <2>1 DEF InPeriod
  <2>4. InPeriod(t, <<day, day>>)
    <3>1. PICK low \in Int : low = day * DayLength
      BY <1>2, FigureAssumption
    <3>2. PICK high \in Int : high = (day + 1) * DayLength
      BY <1>2, FigureAssumption
    <3>3. t \in low - Shift .. high - 1 - Shift
      BY <1>2, <1>3, <3>1, <3>2, FigureAssumption
    <3> QED
      BY <1>2, <3>1, <3>2, <3>3 DEF InPeriod, Bounds
  <2> QED
    BY <2>2, <2>3, <2>4
<1>7. day \in 0 .. KstDay(LastMoment)
  BY <1>4, <1>5
<1> QED
  BY <1>1, <1>2, <1>6, <1>7

THEOREM DecisionsHaveOneDay == FiguresSpec => []CountedOnOneDay
<1>1. FiguresInvariant => CountedOnOneDay
  BY OneDay DEF FiguresInvariant
<1> QED
  BY <1>1, FiguresAreSound, PTL

-----------------------------------------------------------------------------
(* How many of D have a value in s, when g is what they have.                  *)
Having(D, g, s) == {c \in D : g[c] \in s}
Sums(it, f, V) ==
  it = [s \in SUBSET V |-> IF s = {} THEN 0 ELSE LET x == CHOOSE x \in s : TRUE
                                                 IN  f[x] + it[s \ {x}]]

LEMMA SumIsSome ==
  ASSUME NEW V, NEW f, DOMAIN f = V, NEW total, Sums(total, f, V)
  PROVE  \E it : Sums(it, f, V) /\ FigureSum(f) = it[V]
<1> DEFINE iter == CHOOSE it : Sums(it, f, V)
<1>1. Sums(iter, f, V)
  OBVIOUS
<1>2. FigureSum(f) = iter[V]
  BY DEF FigureSum, FoldFunctionOnSet, MapThenFoldSet, Sums
<1> QED
  BY <1>1, <1>2

(* A set counted by the values it has: the counts add up to it.               *)
LEMMA CountsAddUp ==
  ASSUME NEW V, IsFiniteSet(V), NEW D, IsFiniteSet(D), NEW g, \A c \in D : g[c] \in V,
         NEW f, f = [v \in V |-> Cardinality({c \in D : g[c] = v})]
  PROVE  FigureSum(f) = Cardinality(D)
<1> DEFINE total == [s \in SUBSET V |-> Cardinality(Having(D, g, s))]
           first(s) == CHOOSE x \in s : TRUE
<1>1. ASSUME NEW s
      PROVE  IsFiniteSet(Having(D, g, s)) /\ Cardinality(Having(D, g, s)) \in Nat
  <2>1. Having(D, g, s) \in SUBSET D
    BY DEF Having
  <2> QED
    BY <2>1, FS_Subset, FS_CardinalityType
<1>2. ASSUME NEW s \in SUBSET V, NEW x \in s
      PROVE  Cardinality(Having(D, g, s))
             = Cardinality(Having(D, g, {x})) + Cardinality(Having(D, g, s \ {x}))
  <2>1. Having(D, g, s) = Having(D, g, {x}) \cup Having(D, g, s \ {x})
        /\ Having(D, g, {x}) \cap Having(D, g, s \ {x}) = {}
    BY DEF Having
  <2>2. Cardinality(Having(D, g, {x}) \cup Having(D, g, s \ {x}))
        = Cardinality(Having(D, g, {x})) + Cardinality(Having(D, g, s \ {x})) - Cardinality({})
    BY <1>1, <2>1, FS_Union
  <2>3. PICK a \in Nat : a = Cardinality(Having(D, g, {x}))
    BY <1>1
  <2>4. PICK b \in Nat : b = Cardinality(Having(D, g, s \ {x}))
    BY <1>1
  <2>5. Cardinality({}) = 0
    BY FS_EmptySet
  <2>6. Cardinality(Having(D, g, s))
        = Cardinality(Having(D, g, {x}) \cup Having(D, g, s \ {x}))
    BY <2>1
  <2> QED
    BY <2>2, <2>3, <2>4, <2>5, <2>6
<1>3. Sums(total, f, V)
  <2>1. ASSUME NEW s \in SUBSET V
        PROVE  total[s] = IF s = {} THEN 0 ELSE f[first(s)] + total[s \ {first(s)}]
    <3>1. CASE s = {}
      <4>1. Having(D, g, s) = {}
        BY <3>1 DEF Having
      <4> QED
        BY <3>1, <4>1, FS_EmptySet
    <3>2. CASE s # {}
      <4>1. PICK x \in s : x = first(s)
        BY <3>2
      <4>2. x \in V /\ s \ {x} \in SUBSET V
        OBVIOUS
      <4>3. f[x] = Cardinality(Having(D, g, {x}))
        <5>1. {c \in D : g[c] = x} = Having(D, g, {x})
          BY DEF Having
        <5> QED
          BY <4>2, <5>1
      <4>4. total[s] = Cardinality(Having(D, g, s))
            /\ total[s \ {x}] = Cardinality(Having(D, g, s \ {x}))
        BY <4>2
      <4>5. total[s] = f[x] + total[s \ {x}]
        BY <1>2, <4>3, <4>4
      <4> HIDE DEF total
      <4> QED
        BY <3>2, <4>1, <4>5
    <3> QED
      BY <3>1, <3>2
  <2>2. DOMAIN total = SUBSET V
    OBVIOUS
  <2> HIDE DEF total
  <2>3. total = [s \in SUBSET V |-> total[s]]
    BY <2>2 DEF total
  <2> QED
    BY <2>1, <2>3 DEF Sums
<1>4. DOMAIN f = V
  OBVIOUS
<1>5. PICK it : Sums(it, f, V) /\ FigureSum(f) = it[V]
  <2> HIDE DEF total
  <2> QED
    BY <1>3, <1>4, SumIsSome
<1> DEFINE differ == {s \in SUBSET V : it[s] # total[s]}
           sizes == {Cardinality(s) : s \in differ}
<1>6. \A s \in SUBSET V : IsFiniteSet(s) /\ Cardinality(s) \in Nat
  BY FS_Subset, FS_CardinalityType
<1> HIDE DEF total
<1>7. differ = {}
  <2> SUFFICES ASSUME differ # {} PROVE FALSE
    OBVIOUS
  <2>1. sizes \in SUBSET Nat /\ sizes # {}
    BY <1>6
  <2>2. PICK n \in sizes : \A m \in sizes : n <= m
    <3> HIDE DEF sizes
    <3> QED
      BY <2>1, LeastNatural
  <2>3. PICK s \in differ : n = Cardinality(s)
    BY <2>2
  <2>4. s \in SUBSET V /\ it[s] # total[s]
    BY <2>3
  <2>5. it[s] = (IF s = {} THEN 0 ELSE f[first(s)] + it[s \ {first(s)}])
        /\ total[s] = (IF s = {} THEN 0 ELSE f[first(s)] + total[s \ {first(s)}])
    BY <1>3, <1>5, <2>4 DEF Sums
  <2>6. s # {}
    BY <2>4, <2>5
  <2>7. PICK x \in s : x = first(s)
    BY <2>6
  <2>8. s \ {x} \in SUBSET V /\ Cardinality(s \ {x}) = Cardinality(s) - 1
    BY <1>6, <2>4, <2>7, FS_RemoveElement
  <2>9. s \ {x} \in differ
    BY <2>4, <2>5, <2>6, <2>7, <2>8
  <2>10. n <= Cardinality(s \ {x})
    BY <2>2, <2>9
  <2> QED
    BY <1>6, <2>3, <2>4, <2>8, <2>10
<1>8. it[V] = total[V]
  BY <1>7
<1>9. total[V] = Cardinality(D)
  <2>1. Having(D, g, V) = D
    BY DEF Having
  <2> QED
    BY <2>1 DEF total
<1> QED
  BY <1>5, <1>8, <1>9

(* The verdicts, the months and the suppliers of a report add up to it.        *)
LEMMA ReportAddsUp ==
  FiguresTyped => FiguresAddUp
<1> SUFFICES ASSUME FiguresTyped PROVE FiguresAddUp
  OBVIOUS
<1>1. PICK D \in SUBSET Approvals : report.rows \in [D -> FigureRow]
  BY DEF FiguresTyped, Reports
<1>2. PICK rows \in [D -> FigureRow] : rows = report.rows
  BY <1>1
<1>3. IsFiniteSet(D) /\ DOMAIN rows = D
  BY <1>2, FigureAssumption, FS_Subset
<1>5. FigureSum(ByVerdict(rows)) = Cardinality(D)
  <2> DEFINE g == [c \in D |-> rows[c].verdict]
  <2>1. \A c \in D : g[c] \in Verdicts
    BY <1>2 DEF FigureRow
  <2>2. ByVerdict(rows) = [v \in Verdicts |-> Cardinality({c \in D : g[c] = v})]
    <3>1. \A v : {c \in DOMAIN rows : rows[c].verdict = v} = {c \in D : g[c] = v}
      BY <1>3
    <3> QED
      BY <3>1 DEF ByVerdict, Count
  <2> HIDE DEF g
  <2> QED
    BY <1>3, CountsAddUp, <2>1, <2>2, FigureAssumption
<1>6. FigureSum(Monthly(rows)) = Cardinality(D)
  <2> DEFINE g == [c \in D |-> Month(rows[c].stamp)]
             V == {Month(rows[c].stamp) : c \in D}
  <2>1. IsFiniteSet(V)
    <3>1. g \in Surjection(D, V)
      BY DEF Surjection
    <3> HIDE DEF g, V
    <3> QED
      BY <1>3, <3>1, FS_Surjection
  <2>2. \A c \in D : g[c] \in V
    OBVIOUS
  <2>3. Monthly(rows) = [v \in V |-> Cardinality({c \in D : g[c] = v})]
    <3>1. \A v : {c \in DOMAIN rows : Month(rows[c].stamp) = v} = {c \in D : g[c] = v}
      BY <1>3
    <3> QED
      BY <1>3, <3>1 DEF Monthly, Count
  <2> HIDE DEF g, V
  <2> QED
    BY <1>3, CountsAddUp, <2>1, <2>2, <2>3
<1>7. /\ FigureSum([n \in NamesOf(rows) |-> Count(rows, LAMBDA r : r.name = n)])
           = Cardinality(D)
  <2> DEFINE g == [c \in D |-> rows[c].name]
             V == NamesOf(rows)
             f == [n \in NamesOf(rows) |-> Count(rows, LAMBDA r : r.name = n)]
  <2>1. V = {rows[c].name : c \in D}
    BY <1>3 DEF NamesOf
  <2>2. IsFiniteSet(V)
    <3>1. g \in Surjection(D, V)
      BY <2>1 DEF Surjection
    <3> HIDE DEF g, V
    <3> QED
      BY <1>3, <3>1, FS_Surjection
  <2>3. \A c \in D : g[c] \in V
    BY <2>1
  <2>4. f = [v \in V |-> Cardinality({c \in D : g[c] = v})]
    <3>1. \A v : {c \in DOMAIN rows : rows[c].name = v} = {c \in D : g[c] = v}
      BY <1>3
    <3> QED
      BY <3>1 DEF Count
  <2>5. FigureSum(f) = Cardinality(D)
    <3> HIDE DEF g, V, f
    <3> QED
      BY <1>3, CountsAddUp, <2>2, <2>3, <2>4
  <2> QED
    BY <2>5
<1>8. [n \in DOMAIN ByFirm(rows) |-> ByFirm(rows)[n].inspected]
        = [n \in NamesOf(rows) |-> Count(rows, LAMBDA r : r.name = n)]
  BY DEF ByFirm
<1>9. ASSUME NEW n \in NamesOf(rows)
      PROVE  ByFirm(rows)[n].defective <= ByFirm(rows)[n].inspected
  <2> DEFINE all == {c \in D : rows[c].name = n}
             bad == {c \in D : rows[c].name = n /\ rows[c].defect}
  <2>1. bad \in SUBSET all /\ all \in SUBSET D
    OBVIOUS
  <2>2. IsFiniteSet(all)
    BY <1>3, <2>1, FS_Subset
  <2>3. Cardinality(bad) <= Cardinality(all)
    BY <2>1, <2>2, FS_Subset
  <2>4. ByFirm(rows)[n].inspected = Cardinality(all)
        /\ ByFirm(rows)[n].defective = Cardinality(bad)
    BY <1>3 DEF ByFirm, Count
  <2> QED
    BY <2>3, <2>4
<1>10. DOMAIN ByFirm(rows) = NamesOf(rows)
  BY DEF ByFirm
<1>11. Figures(rows).population = Cardinality(D) /\ Figures(rows).byVerdict = ByVerdict(rows)
       /\ Figures(rows).byFirm = ByFirm(rows) /\ Figures(rows).monthly = Monthly(rows)
  BY <1>3 DEF Figures
<1> QED
  BY <1>2, <1>5, <1>6, <1>7, <1>8, <1>9, <1>10, <1>11 DEF FiguresAddUp

(* Each decision is counted once: in the report of exactly one day of Seoul    *)
(* (period_bounds_utc and the filter in KST agree at both ends of a day), and  *)
(* once in the verdicts, the months and the suppliers of that report.          *)
THEOREM DecisionsAreCountedOnce == FiguresSpec => []DecisionsCountOnce
<1>1. FiguresInvariant => DecisionsCountOnce
  BY OneDay, ReportAddsUp DEF FiguresInvariant, DecisionsCountOnce
<1> QED
  BY <1>1, FiguresAreSound, PTL

-----------------------------------------------------------------------------
(* The three together                                                         *)
-----------------------------------------------------------------------------
(* A behaviour of the three desks is one of each of the components.           *)
THEOREM LotDesksAreTheirComponents == LotsSpec => Spec /\ TraceSpec /\ FiguresSpec
<1>1. InitLots => Init /\ InitTrace /\ InitFigures
  BY DEF InitLots
<1>2. [NextLots]_deskVars => [Next]_vars
  BY DEF NextLots, deskVars, vars
<1>3. [NextLots]_deskVars => [NextTrace]_traceVars
  BY DEF NextLots, deskVars, traceVars
<1>4. [NextLots]_deskVars => [NextFigures]_figureVars
  BY DEF NextLots, deskVars, figureVars
<1> QED
  BY <1>1, <1>2, <1>3, <1>4, PTL DEF LotsSpec, Spec, TraceSpec, FiguresSpec

(* What the desks of LOTs, traces and figures keep has its type, whichever of   *)
(* them is at work (lot_registry, traceability, statistics).                  *)
THEOREM LotsTyped == LotsSpec => []LotsTypeOK
<1>1. TypeOK /\ TraceTypeOK /\ FigureTypeOK => LotsTypeOK
  BY DEF LotsTypeOK
<1> QED
  BY <1>1, LotDesksAreTheirComponents, IdentityTypes, TracesTyped, ReportsTyped, PTL
=============================================================================
