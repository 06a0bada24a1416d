----------------------------- MODULE WorkProofs -----------------------------
(***************************************************************************)
(* Proofs about the work around an inspection: the leases of idempotent    *)
(* work, the ingest of files, the workbench of a case, and the measured    *)
(* samples.  Workers under one key have one request, and its answer is      *)
(* not lost, though a lease may be held by several.  A cursor that         *)
(* calls its file taken names the document of bytes that lay still.  A     *)
(* case is offered only while what completes it stands.  An aggregate of   *)
(* samples is that of all of them, whatever the order they came in.        *)
(***************************************************************************)
EXTENDS MCRecords, RecordsProofs, FiniteSums

-----------------------------------------------------------------------------
(* Leases                                                                     *)
-----------------------------------------------------------------------------
(* The transaction that has written the row, and what it will leave: the same  *)
(* request, and an answer where the row or the worker's copy has one.         *)
DraftIsFlushed ==
  \A w \in Workers : CallIs(w, "flushed") <=> draft # None /\ draft.by = w
DraftKeeps ==
  draft # None /\ record # None =>
    draft.row.hash = record.hash /\ (record.result # None => draft.row.result # None)
CopyFits(read, hash, row) ==
  /\ read # None /\ row # None /\ read.hash = hash /\ row.hash = hash
  /\ read.result # None => row.result # None
FlushedFits ==
  \A w \in Workers :
    CallIs(w, "flushed") => CopyFits(call[w].read, call[w].hash, draft.row)
(* The copy of a worker that found or was given a row is of the row that is    *)
(* there, which nobody deletes.                                              *)
CopiesFit ==
  \A w \in Workers :
    CallIs(w, "expired") \/ CallIs(w, "working") =>
      CopyFits(call[w].read, call[w].hash, record)

LeaseInvariant == LeaseTypeOK /\ DraftIsFlushed /\ DraftKeeps /\ FlushedFits /\ CopiesFit

LeaseStages == {"inserting", "expired", "flushed", "working"}

-----------------------------------------------------------------------------
LEMMA LeaseRecordFields ==
  ASSUME NEW r \in LeaseRecords
  PROVE  /\ r # None /\ r.hash \in Hashes
         /\ r.state \in {"PENDING", "COMPLETED", "FAILED_RETRYABLE"}
         /\ r.until \in 0 .. MaxMoment + LeaseFor \cup {None}
         /\ r.owner \in Workers \cup {None} /\ r.result \in Results \cup {None}
BY LeaseRowAssumption DEF LeaseRecords, LeaseRowAssumption

LEMMA LeaseDraftFields ==
  ASSUME NEW d \in LeaseDrafts
  PROVE  d # None /\ d.by \in Workers /\ d.row \in LeaseRecords /\ d.row # None
BY LeaseRowAssumption DEF LeaseDrafts, LeaseRowAssumption

LEMMA LeaseCallFields ==
  ASSUME LeaseTypeOK, NEW w \in Workers, call[w] # None
  PROVE  /\ call[w] \in LeaseCalls /\ call[w].at \in LeaseStages /\ call[w].hash \in Hashes
         /\ call[w].now \in 0 .. MaxMoment /\ call[w].read \in LeaseRecords \cup {None}
BY DEF LeaseTypeOK, LeaseCalls, LeaseStages

(* A call begins, moves on, or ends; the others rest.                         *)
LEMMA CallBegins ==
  ASSUME LeaseTypeOK, NEW w \in Workers, NEW stage \in LeaseStages, NEW hash \in Hashes,
         NEW read \in LeaseRecords \cup {None}, Now(w, stage, hash, read)
  PROVE  /\ call' \in [Workers -> LeaseCalls \cup {None}]
         /\ call'[w] # None /\ call'[w].at = stage /\ call'[w].hash = hash
         /\ call'[w].read = read
         /\ \A v \in Workers \ {w} : call'[v] = call[v]
<1> DEFINE new == [at |-> stage, hash |-> hash, now |-> moment, read |-> read]
<1>1. new \in LeaseCalls /\ new # None
  BY LeaseRowAssumption DEF LeaseTypeOK, LeaseCalls, LeaseStages, LeaseRowAssumption
<1>2. new.at = stage /\ new.hash = hash /\ new.read = read
  OBVIOUS
<1>3. call' = [call EXCEPT ![w] = new]
  BY DEF Now
<1> QED
  BY <1>1, <1>2, <1>3 DEF LeaseTypeOK

LEMMA CallMoves ==
  ASSUME LeaseTypeOK, NEW w \in Workers, call[w] # None, NEW stage \in LeaseStages,
         NEW read \in LeaseRecords \cup {None}, Moves(w, stage, read)
  PROVE  /\ call' \in [Workers -> LeaseCalls \cup {None}]
         /\ call'[w] # None /\ call'[w].at = stage /\ call'[w].hash = call[w].hash
         /\ call'[w].read = read
         /\ \A v \in Workers \ {w} : call'[v] = call[v]
<1> DEFINE new == [call[w] EXCEPT !.at = stage, !.read = read]
<1>1. call[w] \in LeaseCalls
  BY LeaseCallFields
<1>2. new \in LeaseCalls /\ new.at = stage /\ new.hash = call[w].hash /\ new.read = read
  BY <1>1 DEF LeaseCalls, LeaseStages
<1>3. new # None
  BY <1>2, LeaseRowAssumption DEF LeaseRowAssumption
<1>4. call' = [call EXCEPT ![w] = new]
  BY DEF Moves
<1> QED
  BY <1>2, <1>3, <1>4 DEF LeaseTypeOK

LEMMA CallEnds ==
  ASSUME LeaseTypeOK, NEW w \in Workers, Leaves(w)
  PROVE  /\ call' \in [Workers -> LeaseCalls \cup {None}]
         /\ call'[w] = None
         /\ \A v \in Workers \ {w} : call'[v] = call[v]
BY DEF LeaseTypeOK, Leaves

(* What an UPDATE leaves is a row of the same request.                        *)
LEMMA FlushedIsRow ==
  ASSUME record \in LeaseRecords, NEW read \in LeaseRecords, NEW new \in LeaseRecords
  PROVE  Flushed(read, new) \in LeaseRecords /\ Flushed(read, new).hash = record.hash
BY DEF Flushed, Column, LeaseRecords

LEMMA RenewedIsRow ==
  ASSUME NEW w \in Workers, NEW r \in LeaseRecords, NEW now \in 0 .. MaxMoment
  PROVE  /\ Renewed(r, w, now) \in LeaseRecords /\ Renewed(r, w, now).hash = r.hash
         /\ Renewed(r, w, now).result = r.result /\ Renewed(r, w, now).state = "PENDING"
<1>1. now + LeaseFor \in 0 .. MaxMoment + LeaseFor
  BY LeaseAssumption DEF LeaseAssumption
<1> QED
  BY <1>1 DEF Renewed, LeaseRecords

LEMMA PendingIsRow ==
  ASSUME NEW w \in Workers, NEW hash \in Hashes, NEW now \in 0 .. MaxMoment
  PROVE  /\ PendingRecord(w, hash, now) \in LeaseRecords
         /\ PendingRecord(w, hash, now).hash = hash
<1>1. now + LeaseFor \in 0 .. MaxMoment + LeaseFor
  BY LeaseAssumption DEF LeaseAssumption
<1> QED
  BY <1>1 DEF PendingRecord, LeaseRecords

-----------------------------------------------------------------------------
LEMMA LeaseBegins == InitLease => LeaseInvariant
<1> SUFFICES ASSUME InitLease PROVE LeaseInvariant
  OBVIOUS
<1>1. LeaseTypeOK
  BY LeaseAssumption DEF InitLease, LeaseTypeOK, LeaseAssumption
<1> QED
  BY <1>1
  DEF InitLease, LeaseInvariant, DraftIsFlushed, DraftKeeps, FlushedFits, CopiesFit, CallIs

(* A worker that comes to hold a copy of the row, or none, without a write.    *)
LEMMA CallKeeps ==
  ASSUME LeaseInvariant, NEW w \in Workers, UNCHANGED <<record, draft, moment>>,
         ~CallIs(w, "flushed"), call' \in [Workers -> LeaseCalls \cup {None}],
         \A v \in Workers \ {w} : call'[v] = call[v],
         \/ call'[w] = None
         \/ call'[w] # None /\ call'[w].at = "inserting"
         \/ /\ call'[w] # None /\ call'[w].at \in {"expired", "working"}
            /\ CopyFits(call'[w].read, call'[w].hash, record)
  PROVE  LeaseInvariant'
<1>1. LeaseTypeOK'
  BY DEF LeaseInvariant, LeaseTypeOK
<1>2. ASSUME NEW v \in Workers
      PROVE  /\ CallIs(v, "flushed")' <=> CallIs(v, "flushed")
             /\ CallIs(v, "flushed") => call'[v] = call[v]
             /\ (CallIs(v, "expired") \/ CallIs(v, "working"))' =>
                  CopyFits(call'[v].read, call'[v].hash, record)
  <2>1. CASE v = w
    BY <2>1 DEF CallIs
  <2>2. CASE v # w
    BY <2>2 DEF CallIs, LeaseInvariant, CopiesFit
  <2> QED
    BY <2>1, <2>2
<1>3. DraftIsFlushed' /\ DraftKeeps'
  BY <1>2 DEF LeaseInvariant, DraftIsFlushed, DraftKeeps
<1>4. FlushedFits' /\ CopiesFit'
  BY <1>2 DEF LeaseInvariant, FlushedFits, CopiesFit, CopyFits
<1> QED
  BY <1>1, <1>3, <1>4 DEF LeaseInvariant

LEMMA SelectKeeps ==
  ASSUME LeaseInvariant, NEW w \in Workers, NEW hash \in Hashes,
         FindNothing(w, hash) \/ Rejoin(w, hash) \/ FindExpired(w, hash)
  PROVE  LeaseInvariant'
<1>0. LeaseTypeOK /\ call[w] = None /\ ~CallIs(w, "flushed")
      /\ UNCHANGED <<record, draft, moment>>
  BY DEF LeaseInvariant, FindNothing, Rejoin, FindExpired, CallIs
<1>1. CASE FindNothing(w, hash)
  <2>1. Now(w, "inserting", hash, None)
    BY <1>1 DEF FindNothing
  <2> QED
    BY <1>0, <2>1, CallBegins, CallKeeps DEF LeaseStages
<1>2. ASSUME NEW stage \in {"working", "expired"}, record # None, record.hash = hash,
             Now(w, stage, hash, record)
      PROVE  LeaseInvariant'
  <2>1. record \in LeaseRecords /\ CopyFits(record, hash, record)
    BY <1>0, <1>2 DEF LeaseTypeOK, CopyFits
  <2> QED
    BY <1>0, <1>2, <2>1, CallBegins, CallKeeps DEF LeaseStages
<1> QED
  BY <1>1, <1>2 DEF Rejoin, FindExpired

LEMMA LosingKeeps ==
  ASSUME LeaseInvariant, NEW w \in Workers, LoseRace(w)
  PROVE  LeaseInvariant'
<1>0. /\ LeaseTypeOK /\ call[w] # None /\ ~CallIs(w, "flushed")
      /\ record # None /\ record \in LeaseRecords
      /\ UNCHANGED <<record, draft, moment>>
  BY DEF LeaseInvariant, LoseRace, CallIs, LeaseTypeOK
<1>1. CASE Leaves(w)
  BY <1>0, <1>1, CallEnds, CallKeeps
<1>2. CASE record.hash = call[w].hash /\ Moves(w, "working", record)
  <2>1. CopyFits(record, call[w].hash, record)
    BY <1>0, <1>2 DEF CopyFits
  <2> QED
    BY <1>0, <1>2, <2>1, CallMoves, CallKeeps DEF LeaseStages
<1> QED
  BY <1>1, <1>2 DEF LoseRace

(* A transaction writes the row.                                              *)
LEMMA WritingKeeps ==
  ASSUME LeaseInvariant, NEW w \in Workers, call[w] # None, draft = None,
         NEW new \in LeaseRecords, NEW row \in LeaseRecords,
         draft' = [by |-> w, row |-> row], Moves(w, "flushed", new),
         UNCHANGED <<record, moment>>,
         CopyFits(new, call[w].hash, row),
         record # None => row.hash = record.hash /\ (record.result # None => row.result # None)
  PROVE  LeaseInvariant'
<1>1. LeaseTypeOK /\ DraftIsFlushed
  BY DEF LeaseInvariant
<1>2. /\ call' \in [Workers -> LeaseCalls \cup {None}]
      /\ call'[w] # None /\ call'[w].at = "flushed" /\ call'[w].hash = call[w].hash
      /\ call'[w].read = new
      /\ \A v \in Workers \ {w} : call'[v] = call[v]
  BY <1>1, CallMoves DEF LeaseStages
<1>3. draft' \in LeaseDrafts /\ draft'.by = w /\ draft'.row = row
  BY DEF LeaseDrafts
<1>4. draft' # None
  BY <1>3, LeaseDraftFields
<1>5. LeaseTypeOK'
  BY <1>1, <1>2, <1>3 DEF LeaseTypeOK
<1>6. \A v \in Workers \ {w} : ~CallIs(v, "flushed") /\ ~CallIs(v, "flushed")'
  BY <1>1, <1>2 DEF DraftIsFlushed, CallIs
<1>7. DraftIsFlushed'
  BY <1>2, <1>3, <1>4, <1>6 DEF DraftIsFlushed, CallIs
<1>8. FlushedFits'
  BY <1>2, <1>3, <1>6 DEF FlushedFits, CopyFits
<1>9. CopiesFit'
  BY <1>2 DEF LeaseInvariant, CopiesFit, CallIs, CopyFits
<1> QED
  BY <1>3, <1>5, <1>7, <1>8, <1>9 DEF LeaseInvariant, DraftKeeps

LEMMA TakingOver ==
  ASSUME LeaseInvariant, NEW w \in Workers, TakeOver(w)
  PROVE  /\ record \in LeaseRecords /\ call[w].read \in LeaseRecords
         /\ draft'.by = w /\ draft'.row \in LeaseRecords
         /\ draft'.row.hash = record.hash /\ draft'.row.result = record.result
         /\ call[w].read.state = "PENDING" => draft'.row.state = record.state
<1> DEFINE read == call[w].read
           new == Renewed(read, w, call[w].now)
<1>1. /\ LeaseTypeOK /\ call[w] # None /\ CallIs(w, "expired")
      /\ draft' = [by |-> w, row |-> Flushed(read, new)]
  BY DEF LeaseInvariant, TakeOver, CallIs
<1>2. record # None /\ read # None
  BY <1>1 DEF LeaseInvariant, CopiesFit, CopyFits
<1>3. record \in LeaseRecords /\ read \in LeaseRecords
  BY <1>1, <1>2, LeaseCallFields DEF LeaseTypeOK
<1>4. new \in LeaseRecords /\ new.result = read.result /\ new.state = "PENDING"
  BY <1>1, <1>3, LeaseCallFields, RenewedIsRow
<1>5. Flushed(read, new) \in LeaseRecords /\ Flushed(read, new).hash = record.hash
  BY <1>3, <1>4, FlushedIsRow
<1>6. /\ Flushed(read, new).result = record.result
      /\ read.state = "PENDING" => Flushed(read, new).state = record.state
  BY <1>4 DEF Flushed, Column
<1> QED
  BY <1>1, <1>3, <1>5, <1>6

LEMMA TakingOverKeeps ==
  ASSUME LeaseInvariant, NEW w \in Workers, TakeOver(w)
  PROVE  LeaseInvariant'
<1> DEFINE read == call[w].read
           new == Renewed(read, w, call[w].now)
           row == Flushed(read, new)
<1>1. /\ LeaseTypeOK /\ call[w] # None /\ CallIs(w, "expired") /\ draft = None
      /\ draft' = [by |-> w, row |-> row] /\ Moves(w, "flushed", new)
      /\ UNCHANGED <<record, moment>>
  BY DEF LeaseInvariant, TakeOver, CallIs
<1>2. /\ read \in LeaseRecords /\ row \in LeaseRecords
      /\ row.hash = record.hash /\ row.result = record.result
  BY <1>1, TakingOver
<1>3. new \in LeaseRecords /\ new.hash = read.hash /\ new.result = read.result
  BY <1>1, <1>2, LeaseCallFields, RenewedIsRow
<1>4. CopyFits(read, call[w].hash, record)
  BY <1>1 DEF LeaseInvariant, CopiesFit
<1>5. new # None /\ row # None
  BY <1>2, <1>3, LeaseRecordFields
<1>6. CopyFits(new, call[w].hash, row)
  BY <1>2, <1>3, <1>4, <1>5 DEF CopyFits
<1> HIDE DEF read, new, row
<1> QED
  BY <1>1, <1>2, <1>3, <1>6, WritingKeeps

LEMMA InsertingKeeps ==
  ASSUME LeaseInvariant, NEW w \in Workers, InsertRow(w)
  PROVE  LeaseInvariant'
<1> DEFINE new == PendingRecord(w, call[w].hash, call[w].now)
<1>1. /\ LeaseTypeOK /\ call[w] # None /\ draft = None /\ record = None
      /\ draft' = [by |-> w, row |-> new] /\ Moves(w, "flushed", new)
      /\ UNCHANGED <<record, moment>>
  BY DEF LeaseInvariant, InsertRow, CallIs
<1>2. new \in LeaseRecords /\ new.hash = call[w].hash
  BY <1>1, LeaseCallFields, PendingIsRow
<1>3. CopyFits(new, call[w].hash, new)
  BY <1>2, LeaseRecordFields DEF CopyFits
<1> HIDE DEF new
<1> QED
  BY <1>1, <1>2, <1>3, WritingKeeps

LEMMA CommittingKeeps ==
  ASSUME LeaseInvariant, NEW w \in Workers, CommitLease(w)
  PROVE  LeaseInvariant'
<1>1. /\ LeaseTypeOK /\ call[w] # None /\ CallIs(w, "flushed")
      /\ record' = draft.row /\ draft' = None /\ moment' = moment
      /\ Moves(w, "working", call[w].read)
  BY DEF LeaseInvariant, CommitLease, CallIs
<1>2. draft # None /\ draft.by = w
  BY <1>1 DEF LeaseInvariant, DraftIsFlushed
<1>3. draft \in LeaseDrafts /\ draft.row \in LeaseRecords /\ draft.row # None
  BY <1>1, <1>2, LeaseDraftFields DEF LeaseTypeOK
<1>4. CopyFits(call[w].read, call[w].hash, draft.row)
  BY <1>1 DEF LeaseInvariant, FlushedFits
<1>5. /\ call' \in [Workers -> LeaseCalls \cup {None}]
      /\ call'[w] # None /\ call'[w].at = "working" /\ call'[w].hash = call[w].hash
      /\ call'[w].read = call[w].read
      /\ \A v \in Workers \ {w} : call'[v] = call[v]
  BY <1>1, LeaseCallFields, CallMoves DEF LeaseStages
<1>6. LeaseTypeOK'
  BY <1>1, <1>3, <1>5 DEF LeaseTypeOK
<1>7. \A v \in Workers : ~CallIs(v, "flushed")'
  BY <1>2, <1>5 DEF LeaseInvariant, DraftIsFlushed, CallIs
<1>8. CopiesFit'
  <2> SUFFICES ASSUME NEW v \in Workers, (CallIs(v, "expired") \/ CallIs(v, "working"))'
               PROVE  CopyFits(call'[v].read, call'[v].hash, draft.row)
    BY <1>1 DEF CopiesFit, CopyFits
  <2>1. CASE v = w
    BY <1>4, <1>5, <2>1
  <2>2. CASE v # w
    <3>1. call'[v] = call[v] /\ CopyFits(call[v].read, call[v].hash, record)
      BY <1>5, <2>2 DEF LeaseInvariant, CopiesFit, CallIs
    <3> QED
      BY <1>2, <1>3, <3>1 DEF LeaseInvariant, DraftKeeps, CopyFits
  <2> QED
    BY <2>1, <2>2
<1> QED
  BY <1>1, <1>6, <1>7, <1>8
  DEF LeaseInvariant, DraftIsFlushed, DraftKeeps, FlushedFits

LEMMA AbortingKeeps ==
  ASSUME LeaseInvariant, NEW w \in Workers, AbortLease(w)
  PROVE  LeaseInvariant'
<1>1. /\ LeaseTypeOK /\ call[w] # None /\ Leaves(w) /\ UNCHANGED <<record, moment>>
      /\ draft' = IF CallIs(w, "flushed") THEN None ELSE draft
  BY DEF LeaseInvariant, AbortLease
<1>2. /\ call' \in [Workers -> LeaseCalls \cup {None}] /\ call'[w] = None
      /\ \A v \in Workers \ {w} : call'[v] = call[v]
  BY <1>1, CallEnds
<1>3. CASE ~CallIs(w, "flushed")
  BY <1>1, <1>2, <1>3, CallKeeps
<1>4. CASE CallIs(w, "flushed")
  <2>1. draft' = None /\ LeaseTypeOK'
    BY <1>1, <1>2, <1>4 DEF LeaseTypeOK
  <2>2. \A v \in Workers : ~CallIs(v, "flushed")'
    BY <1>2, <1>4 DEF LeaseInvariant, DraftIsFlushed, CallIs
  <2>3. CopiesFit'
    BY <1>1, <1>2 DEF LeaseInvariant, CopiesFit, CopyFits, CallIs
  <2> QED
    BY <2>1, <2>2, <2>3 DEF LeaseInvariant, DraftIsFlushed, DraftKeeps, FlushedFits
<1> QED
  BY <1>3, <1>4

(* A worker writes its changed copy back, with the answers it and the row      *)
(* have.                                                                      *)
LEMMA FinishingKeeps ==
  ASSUME LeaseInvariant, NEW w \in Workers, draft = None, CallIs(w, "working"), Leaves(w),
         record' \in LeaseRecords, record'.hash = record.hash,
         record.result # None => record'.result # None,
         UNCHANGED <<draft, moment>>
  PROVE  LeaseInvariant'
<1>1. LeaseTypeOK /\ call[w] # None
  BY DEF LeaseInvariant, CallIs
<1>2. /\ call' \in [Workers -> LeaseCalls \cup {None}] /\ call'[w] = None
      /\ \A v \in Workers \ {w} : call'[v] = call[v]
  BY <1>1, CallEnds
<1>3. LeaseTypeOK'
  BY <1>1, <1>2 DEF LeaseTypeOK
<1>4. \A v \in Workers : ~CallIs(v, "flushed")'
  BY <1>2 DEF LeaseInvariant, DraftIsFlushed, CallIs
<1>5. CopiesFit'
  <2> SUFFICES ASSUME NEW v \in Workers, (CallIs(v, "expired") \/ CallIs(v, "working"))'
               PROVE  CopyFits(call'[v].read, call'[v].hash, record')
    BY DEF CopiesFit, CopyFits
  <2>1. call'[v] = call[v] /\ CopyFits(call[v].read, call[v].hash, record)
    BY <1>2 DEF LeaseInvariant, CopiesFit, CallIs
  <2> QED
    BY <2>1, LeaseRecordFields DEF CopyFits
<1> QED
  BY <1>3, <1>4, <1>5 DEF LeaseInvariant, DraftIsFlushed, DraftKeeps, FlushedFits

LEMMA WrittenBack ==
  ASSUME LeaseInvariant, NEW w \in Workers,
         (\E result \in Results : CompleteRow(w, result)) \/ FailRow(w)
  PROVE  /\ draft = None /\ UNCHANGED <<draft, moment>> /\ CallIs(w, "working") /\ Leaves(w)
         /\ record' \in LeaseRecords /\ record'.hash = record.hash
         /\ record.result # None => record'.result # None
<1> DEFINE read == call[w].read
<1>0. /\ LeaseTypeOK /\ CallIs(w, "working") /\ call[w] # None /\ Leaves(w) /\ draft = None
      /\ UNCHANGED <<draft, moment>>
  BY DEF LeaseInvariant, CompleteRow, FailRow, CallIs
<1>1. CopyFits(read, call[w].hash, record)
  BY <1>0 DEF LeaseInvariant, CopiesFit
<1>2. record \in LeaseRecords /\ read \in LeaseRecords
  BY <1>0, <1>1, LeaseCallFields DEF CopyFits, LeaseTypeOK
<1>3. ASSUME NEW result \in Results, CompleteRow(w, result)
      PROVE  /\ record' \in LeaseRecords /\ record'.hash = record.hash
             /\ record.result # None => record'.result # None
  <2> DEFINE new == Completed(read, result)
  <2>1. new \in LeaseRecords /\ new.result = result /\ result # None
    BY <1>2, LeaseAssumption DEF Completed, LeaseRecords, LeaseAssumption
  <2>2. record' = Flushed(read, new)
    BY <1>3 DEF CompleteRow
  <2>3. Flushed(read, new).result = Column(read.result, new.result, record.result)
    BY DEF Flushed
  <2> QED
    BY <1>2, <2>1, <2>2, <2>3, FlushedIsRow DEF Column
<1>4. ASSUME FailRow(w)
      PROVE  /\ record' \in LeaseRecords /\ record'.hash = record.hash
             /\ record.result # None => record'.result # None
  <2> DEFINE new == MarkedRetryable(read)
  <2>1. new \in LeaseRecords /\ new.result = read.result
    BY <1>2 DEF MarkedRetryable, LeaseRecords
  <2>2. record' = Flushed(read, new)
    BY <1>4 DEF FailRow
  <2>3. Flushed(read, new).result = Column(read.result, new.result, record.result)
    BY DEF Flushed
  <2> QED
    BY <1>2, <2>1, <2>2, <2>3, FlushedIsRow DEF Column
<1>5. /\ record' \in LeaseRecords /\ record'.hash = record.hash
      /\ record.result # None => record'.result # None
  BY <1>3, <1>4
<1> QED
  BY <1>0, <1>5

LEMMA TimeKeeps ==
  ASSUME LeaseInvariant, TickLease
  PROVE  LeaseInvariant'
<1>1. LeaseTypeOK /\ moment < MaxMoment /\ moment' = moment + 1
      /\ UNCHANGED <<record, draft, call>>
  BY DEF LeaseInvariant, TickLease
<1>2. LeaseTypeOK'
  BY <1>1, LeaseAssumption DEF LeaseTypeOK, LeaseAssumption
<1> QED
  BY <1>1, <1>2
  DEF LeaseInvariant, DraftIsFlushed, DraftKeeps, FlushedFits, CopiesFit, CopyFits, CallIs

LEMMA LeaseSteps == LeaseInvariant /\ [NextLease]_leaseVars => LeaseInvariant'
<1> SUFFICES ASSUME LeaseInvariant, [NextLease]_leaseVars PROVE LeaseInvariant'
  OBVIOUS
<1>1. ASSUME NEW w \in Workers, NEW result \in Results, CompleteRow(w, result)
      PROVE  LeaseInvariant'
  BY <1>1, WrittenBack, FinishingKeeps
<1>2. ASSUME NEW w \in Workers, FailRow(w)
      PROVE  LeaseInvariant'
  BY <1>2, WrittenBack, FinishingKeeps
<1>3. CASE UNCHANGED leaseVars
  BY <1>3
  DEF leaseVars, LeaseInvariant, LeaseTypeOK, DraftIsFlushed, DraftKeeps, FlushedFits,
      CopiesFit, CopyFits, CallIs
<1> QED
  BY <1>1, <1>2, <1>3, SelectKeeps, LosingKeeps, TakingOverKeeps, InsertingKeeps,
     CommittingKeeps, AbortingKeeps, TimeKeeps
  DEF NextLease

-----------------------------------------------------------------------------
(* The row, the transaction that writes it and the copies always fit.          *)
THEOREM LeasesAgree == LeaseSpec => []LeaseInvariant
BY LeaseBegins, LeaseSteps, PTL DEF LeaseSpec

(* Every variable keeps its type.                                             *)
THEOREM LeaseTypes == LeaseSpec => []LeaseTypeOK
<1>1. LeaseInvariant => LeaseTypeOK
  BY DEF LeaseInvariant
<1> QED
  BY <1>1, LeasesAgree, PTL

(* Workers that were told to go ahead under a key have one request, whoever    *)
(* won the INSERT and however often the lease changed hands (reserve).        *)
THEOREM OneRequestAtWork == LeaseSpec => []OneRequest
<1>1. LeaseInvariant => OneRequest
  <2> SUFFICES ASSUME LeaseInvariant, NEW v \in Workers, NEW w \in Workers,
                      GoesAhead(v), GoesAhead(w)
               PROVE  call[v].hash = call[w].hash
    BY DEF OneRequest
  <2>1. ASSUME NEW u \in Workers, CallIs(u, "working")
        PROVE  record # None /\ record.hash = call[u].hash
    BY <2>1 DEF LeaseInvariant, CopiesFit, CopyFits
  <2>2. ASSUME NEW u \in Workers, CallIs(u, "flushed")
        PROVE  /\ draft # None /\ draft.by = u /\ draft.row.hash = call[u].hash
               /\ record # None => record.hash = call[u].hash
    BY <2>2 DEF LeaseInvariant, DraftIsFlushed, FlushedFits, DraftKeeps, CopyFits
  <2> QED
    BY <2>1, <2>2 DEF GoesAhead
<1> QED
  BY <1>1, LeasesAgree, PTL

(* A key keeps its request and an answer, and a takeover decided on a pending  *)
(* copy spares the answer that was committed since (reserve).                 *)
THEOREM AnswersAreKept == LeaseSpec => AnswersSurvive
<1>1. LeaseInvariant /\ [NextLease]_leaseVars => [KeyStays /\ TakeoverSparesAnswer]_leaseVars
  <2> SUFFICES ASSUME LeaseInvariant, NextLease PROVE KeyStays /\ TakeoverSparesAnswer
    OBVIOUS
  <2>1. ASSUME NEW w \in Workers, NEW hash \in Hashes,
               FindNothing(w, hash) \/ Rejoin(w, hash) \/ FindExpired(w, hash)
        PROVE  KeyStays /\ TakeoverSparesAnswer
    BY <2>1 DEF FindNothing, Rejoin, FindExpired, KeyStays, TakeoverSparesAnswer
  <2>2. ASSUME NEW w \in Workers, TakeOver(w)
        PROVE  KeyStays /\ TakeoverSparesAnswer
    <3>1. record' = record
      BY <2>2 DEF TakeOver
    <3> QED
      BY <2>2, <3>1, TakingOver DEF KeyStays, TakeoverSparesAnswer
  <2>3. ASSUME NEW w \in Workers, InsertRow(w) \/ LoseRace(w)
        PROVE  KeyStays /\ TakeoverSparesAnswer
    BY <2>3 DEF InsertRow, LoseRace, KeyStays, TakeoverSparesAnswer
  <2>4. ASSUME NEW w \in Workers, CommitLease(w)
        PROVE  KeyStays /\ TakeoverSparesAnswer
    <3>1. draft # None /\ draft' = None /\ record' = draft.row
      BY <2>4 DEF CommitLease, LeaseInvariant, DraftIsFlushed
    <3> QED
      BY <3>1 DEF LeaseInvariant, DraftKeeps, KeyStays, TakeoverSparesAnswer
  <2>5. ASSUME NEW w \in Workers, AbortLease(w)
        PROVE  KeyStays /\ TakeoverSparesAnswer
    BY <2>5 DEF AbortLease, KeyStays, TakeoverSparesAnswer
  <2>6. ASSUME NEW w \in Workers,
               (\E result \in Results : CompleteRow(w, result)) \/ FailRow(w)
        PROVE  KeyStays /\ TakeoverSparesAnswer
    BY <2>6, WrittenBack DEF KeyStays, TakeoverSparesAnswer
  <2>7. CASE TickLease
    BY <2>7 DEF TickLease, KeyStays, TakeoverSparesAnswer
  <2> QED
    BY <2>1, <2>2, <2>3, <2>4, <2>5, <2>6, <2>7 DEF NextLease
<1> QED
  BY <1>1, LeasesAgree, PTL DEF LeaseSpec, AnswersSurvive

-----------------------------------------------------------------------------
(* Ingest                                                                     *)
-----------------------------------------------------------------------------
(* The file at p is gone or was written again since the stamp was taken.      *)
Overwritten(p, stamp) == file[p] = None \/ file[p].n > stamp.n

FileSound(p) == file[p] # None => file[p].n <= writes /\ file[p].at <= clock
(* A cursor took its stamp after the write; one that calls its file ingested  *)
(* has waited out the quiet period and names the committed document of the    *)
(* bytes of its stamp, or of bytes written later.                            *)
CursorSound(p) ==
  cursor[p] # None =>
    /\ cursor[p].stamp # None =>
         cursor[p].stamp.n <= writes /\ cursor[p].stamp.at <= cursor[p].first
    /\ cursor[p].status = "INGESTED" =>
         /\ cursor[p].stamp \in Stamp
         /\ cursor[p].first + Quiet <= cursor[p].last
         /\ cursor[p].document \in Contents
         /\ document[cursor[p].document] = "committed"
         /\ cursor[p].document = cursor[p].stamp.content \/ Overwritten(p, cursor[p].stamp)
(* The same of what a run holds of the file it is at.                         *)
WorkSound ==
  /\ work.stage \notin {"idle", "next"} =>
       /\ todo # {}
       /\ work.cursor \in Cursor /\ work.cursor.status = "INGESTED"
       /\ work.cursor.stamp \in Stamp /\ work.cursor.stamp.n <= writes
       /\ work.cursor.stamp.at <= work.cursor.first
       /\ work.cursor.first + Quiet <= work.cursor.last
  /\ work.stage = "stable" =>
       file[Here] = work.cursor.stamp \/ Overwritten(Here, work.cursor.stamp)
  /\ work.stage \in {"read", "staged", "flushed", "finalized"} =>
       /\ work.content \in Contents
       /\ work.content = work.cursor.stamp.content \/ Overwritten(Here, work.cursor.stamp)
  /\ work.stage \in {"staged", "flushed", "finalized"} => work.content \in stored

(* The inductive invariant of the ingest.                                     *)
IngestInvariant ==
  /\ IngestTypeOK
  /\ writes \in 0 .. MaxWrites /\ clock \in 0 .. MaxClock
  /\ \A p \in Paths : FileSound(p) /\ CursorSound(p)
  /\ WorkSound
  /\ \A c \in Contents : document[c] # None => c \in stored

-----------------------------------------------------------------------------
(* A set of positions that is not empty has a first one.                      *)
LEMMA FirstPosition ==
  ASSUME NEW S \in SUBSET Nat, S # {}
  PROVE  Min(S) \in S
<1> DEFINE less == {ss \in Nat \X Nat : ss[1] < ss[2]}
<1>0. IsWellFoundedOn(less, Nat)
  BY NatLessThanWellFounded DEF OpToRel
<1>1. PICK n \in S : \A m \in S : n <= m
  <2>1. \A m, n \in Nat : <<m, n>> \in less <=> m < n
    OBVIOUS
  <2> HIDE DEF less
  <2>2. PICK n \in S : \A m \in S : ~(<<m, n>> \in less)
    BY <1>0, WFMin
  <2>3. ASSUME NEW m \in S
        PROVE  n <= m
    <3>1. m \in Nat /\ n \in Nat
      OBVIOUS
    <3>2. ~(m < n)
      BY <2>1, <2>2, <3>1
    <3> QED
      BY <3>1, <3>2
  <2> QED
    BY <2>3
<1> QED
  BY <1>1 DEF Min

(* The path a run is at is one of the paths.                                  *)
LEMMA HereIsAPath ==
  ASSUME todo \in SUBSET DOMAIN Entries, todo # {}
  PROVE  Here \in Paths
<1>1. Entries \in Seq(Paths)
  BY IngestAssumption
<1>2. todo \in SUBSET Nat /\ \A n \in DOMAIN Entries : Entries[n] \in Paths
  BY <1>1
<1>3. Min(todo) \in DOMAIN Entries
  BY <1>2, FirstPosition
<1> QED
  BY <1>2, <1>3 DEF Here

(* The fields of stamps and cursors.                                          *)
LEMMA StampFields ==
  ASSUME NEW stamp \in Stamp
  PROVE  stamp.n \in Nat /\ stamp.at \in Nat /\ stamp.content \in Contents
BY IngestAssumption DEF Stamp

LEMMA CursorFields ==
  ASSUME NEW row \in Cursor
  PROVE  /\ row.stamp \in Stamp \cup {None} /\ row.first \in Nat /\ row.last \in Nat
         /\ row.first \in 0 .. MaxClock /\ row.document \in Contents \cup {None}
BY IngestAssumption DEF Cursor

LEMMA CursorWithStatus ==
  ASSUME NEW row \in Cursor,
         NEW s \in {"PENDING_STABILITY", "INGESTED", "FAILED", "VANISHED"},
         NEW new, new = [row EXCEPT !.status = s]
  PROVE  /\ new \in Cursor /\ new.stamp = row.stamp /\ new.first = row.first
         /\ new.last = row.last /\ new.document = row.document /\ new.status = s
BY DEF Cursor

LEMMA CursorWithDocument ==
  ASSUME NEW row \in Cursor, NEW c \in Contents,
         NEW new, new = [row EXCEPT !.document = c]
  PROVE  /\ new \in Cursor /\ new.stamp = row.stamp /\ new.first = row.first
         /\ new.last = row.last /\ new.document = c /\ new.status = row.status
BY DEF Cursor

(* What a run notes of a file that is there.                                  *)
LEMMA EvaluatedSound ==
  ASSUME IngestInvariant, NEW p \in Paths, file[p] # None,
         NEW s \in {"PENDING_STABILITY", "INGESTED"}
  PROVE  /\ Evaluated(p, s) \in Cursor
         /\ Evaluated(p, s).status = s
         /\ Evaluated(p, s).stamp = file[p] /\ file[p] \in Stamp
         /\ file[p].n <= writes /\ file[p].at <= Evaluated(p, s).first
         /\ Stable(p) => Evaluated(p, s).first + Quiet <= Evaluated(p, s).last
<1>1. file[p] \in Stamp /\ file[p].n <= writes /\ file[p].at <= clock
      /\ file[p].at \in Nat /\ clock \in 0 .. MaxClock /\ clock \in Nat
  BY StampFields, IngestAssumption DEF IngestInvariant, IngestTypeOK, FileSound
<1>2. FirstSeen(p) \in 0 .. MaxClock /\ file[p].at <= FirstSeen(p)
      /\ (Stable(p) => FirstSeen(p) + Quiet <= clock)
  <2>1. CASE Unchanged(p)
    <3>1. cursor[p] \in Cursor /\ cursor[p].stamp = file[p]
      BY <2>1 DEF Unchanged, SameMetadata, IngestInvariant, IngestTypeOK
    <3>2. cursor[p].stamp.at <= cursor[p].first
      BY <2>1 DEF Unchanged, IngestInvariant, CursorSound
    <3>3. cursor[p].first \in 0 .. MaxClock
      BY <3>1, CursorFields
    <3>4. FirstSeen(p) = cursor[p].first
      BY <2>1 DEF FirstSeen
    <3>5. Stable(p) => FirstSeen(p) + Quiet <= clock
      BY <2>1 DEF Stable
    <3> QED
      BY <3>1, <3>2, <3>3, <3>4, <3>5
  <2>2. CASE ~Unchanged(p)
    <3>1. FirstSeen(p) = clock /\ (Stable(p) => Quiet = 0)
      BY <2>2 DEF FirstSeen, Stable
    <3> QED
      BY <1>1, <3>1
  <2> QED
    BY <2>1, <2>2
<1>3. DocumentOf(p) \in Contents \cup {None}
  <2>1. CASE cursor[p] = None
    BY <2>1 DEF DocumentOf
  <2>2. CASE cursor[p] # None
    <3>1. cursor[p] \in Cursor
      BY <2>2 DEF IngestInvariant, IngestTypeOK
    <3> QED
      BY <2>2, <3>1, CursorFields DEF DocumentOf
  <2> QED
    BY <2>1, <2>2
<1>4. Evaluated(p, s) = [status |-> s, stamp |-> file[p], first |-> FirstSeen(p),
                              last |-> clock, document |-> DocumentOf(p)]
  BY DEF Evaluated
<1> HIDE DEF Evaluated
<1> QED
  BY <1>1, <1>2, <1>3, <1>4 DEF Cursor

(* What is worth saying of a row that is about to be recorded at p.           *)
RowSound(p, row, documents) ==
  /\ row.stamp # None => row.stamp.n <= writes /\ row.stamp.at <= row.first
  /\ row.status = "INGESTED" =>
       /\ row.stamp \in Stamp /\ row.first + Quiet <= row.last
       /\ row.document \in Contents /\ documents[row.document] = "committed"
       /\ row.document = row.stamp.content \/ Overwritten(p, row.stamp)

(* The documents after a step: none is lost once it is committed, and what    *)
(* has a row is stored.                                                      *)
DocumentsKept ==
  /\ document' \in [Contents -> {"open", "committed", None}]
  /\ \A c \in Contents : document[c] = "committed" => document'[c] = "committed"
  /\ \A c \in Contents : document'[c] # None => c \in stored'

(* A run that rests, or goes on to the next file, holds nothing.              *)
LEMMA RestIsSound ==
  ASSUME work'.stage \in {"idle", "next"}
  PROVE  WorkSound'
BY DEF WorkSound

(* Recording a row and going on.                                              *)
LEMMA RecordCursorStep ==
  ASSUME IngestInvariant, NEW p \in Paths, NEW row \in Cursor, Record(p, row),
         RowSound(p, row, document'), DocumentsKept, leased' \subseteq Contents,
         work' \in [stage : IngestStages, cursor : Cursor \cup {None}, content : Contents \cup {None}],
         work'.stage = "next"
  PROVE  IngestInvariant'
<1> USE DEF IngestInvariant
<1>1. /\ cursor' = [cursor EXCEPT ![p] = row] /\ todo' = Remaining /\ stored' = stored
      /\ file' = file /\ writes' = writes /\ clock' = clock
  BY DEF Record, directoryVars
<1>2. cursor' \in [Paths -> Cursor \cup {None}] /\ cursor'[p] = row
      /\ \A q \in Paths : q # p => cursor'[q] = cursor[q]
  BY <1>1 DEF IngestTypeOK
<1>3. \A q \in Paths : CursorSound(q)'
  <2> SUFFICES ASSUME NEW q \in Paths PROVE CursorSound(q)'
    OBVIOUS
  <2>1. CASE q = p
    BY <1>1, <1>2, <2>1 DEF CursorSound, RowSound, Overwritten
  <2>2. CASE q # p
    <3>1. cursor'[q] = cursor[q]
      BY <1>2, <2>2
    <3> QED
      BY <1>1, <3>1 DEF CursorSound, Overwritten, DocumentsKept
  <2> QED
    BY <2>1, <2>2
<1>4. todo' \subseteq DOMAIN Entries
  BY <1>1 DEF Remaining, IngestTypeOK
<1>6. IngestTypeOK'
  BY <1>1, <1>2, <1>4 DEF IngestTypeOK, DocumentsKept
<1>7. \A q \in Paths : FileSound(q)'
  BY <1>1 DEF FileSound
<1>8. WorkSound'
  BY RestIsSound
<1> QED
  BY <1>1, <1>3, <1>6, <1>7, <1>8 DEF DocumentsKept

(* A step that leaves the directory and the cursors alone.                    *)
LEMMA WorkStep ==
  ASSUME IngestInvariant, UNCHANGED <<directoryVars, cursor>>,
         DocumentsKept, leased' \subseteq Contents, stored' \subseteq Contents,
         todo' \subseteq DOMAIN Entries,
         work' \in [stage : IngestStages, cursor : Cursor \cup {None}, content : Contents \cup {None}],
         WorkSound'
  PROVE  IngestInvariant'
<1> USE DEF IngestInvariant
<1>1. file' = file /\ writes' = writes /\ clock' = clock /\ cursor' = cursor
  BY DEF directoryVars
<1>2. \A q \in Paths : CursorSound(q)' /\ FileSound(q)'
  BY <1>1 DEF CursorSound, Overwritten, DocumentsKept, FileSound
<1>3. IngestTypeOK'
  BY <1>1 DEF IngestTypeOK, DocumentsKept
<1> QED
  BY <1>1, <1>2, <1>3 DEF DocumentsKept

(* Writing, removing, and time passing: a stamp that was taken stays older    *)
(* than what is written later.                                               *)
LEMMA DirectoryStep ==
  ASSUME IngestInvariant, UNCHANGED <<todo, work, recordedVars>>,
         \/ \E p \in Paths : RemoveFile(p) \/ \E c \in Contents : WriteFile(p, c)
         \/ TickIngest
  PROVE  IngestInvariant'
<1> USE DEF IngestInvariant
<1>1. todo' = todo /\ work' = work /\ cursor' = cursor /\ stored' = stored /\ leased' = leased
      /\ document' = document /\ Here' = Here
  BY DEF recordedVars, Here
<1>2. /\ file' \in [Paths -> Stamp \cup {None}]
      /\ writes' \in 0 .. MaxWrites /\ clock' \in 0 .. MaxClock
      /\ \A p \in Paths : FileSound(p)'
      /\ writes <= writes'
      /\ \A p \in Paths : file'[p] = file[p] \/ file'[p] = None
                          \/ (file'[p] \in Stamp /\ file'[p].n > writes)
  <2>0. \A p \in Paths : file[p] # None => file[p] \in Stamp /\ file[p].n \in Nat /\ file[p].at \in Nat
    BY StampFields DEF IngestTypeOK
  <2>1. ASSUME NEW p \in Paths, RemoveFile(p)
        PROVE  <1>2
    <3>1. file' = [file EXCEPT ![p] = None] /\ writes' = writes /\ clock' = clock
      BY <2>1 DEF RemoveFile
    <3> QED
      BY <3>1 DEF FileSound, IngestTypeOK
  <2>2. ASSUME NEW p \in Paths, NEW c \in Contents, WriteFile(p, c)
        PROVE  <1>2
    <3> DEFINE stamp == [n |-> writes + 1, at |-> clock, content |-> c]
    <3>1. file' = [file EXCEPT ![p] = stamp] /\ writes' = writes + 1 /\ clock' = clock
          /\ writes < MaxWrites
      BY <2>2 DEF WriteFile
    <3>2. writes + 1 \in 1 .. MaxWrites /\ writes \in Nat /\ clock \in Nat
      BY <3>1, IngestAssumption
    <3>3. stamp \in Stamp /\ stamp.n = writes + 1 /\ stamp.at = clock
      BY <3>2 DEF Stamp
    <3> HIDE DEF stamp
    <3>4. file' \in [Paths -> Stamp \cup {None}]
          /\ \A q \in Paths : file'[q] = IF q = p THEN stamp ELSE file[q]
      BY <3>1, <3>3 DEF IngestTypeOK
    <3>5. \A q \in Paths : FileSound(q)'
      BY <2>0, <3>1, <3>2, <3>3, <3>4 DEF FileSound
    <3>6. writes' \in 0 .. MaxWrites /\ writes <= writes' /\ writes + 1 > writes
      BY <3>1, <3>2, IngestAssumption
    <3> QED
      BY <3>1, <3>3, <3>4, <3>5, <3>6
  <2>3. CASE TickIngest
    <3>1. file' = file /\ writes' = writes /\ clock' = clock + 1 /\ clock < MaxClock
      BY <2>3 DEF TickIngest
    <3>2. clock + 1 \in 0 .. MaxClock /\ clock \in Nat /\ writes \in Nat
      BY <3>1, IngestAssumption
    <3>3. \A q \in Paths : FileSound(q)'
      BY <2>0, <3>1, <3>2 DEF FileSound
    <3> QED
      BY <3>1, <3>2, <3>3 DEF IngestTypeOK
  <2> QED
    BY <2>1, <2>2, <2>3
<1>3. ASSUME NEW p \in Paths, NEW stamp \in Stamp, stamp.n <= writes
      PROVE  /\ stamp.n <= writes'
             /\ Overwritten(p, stamp) => Overwritten(p, stamp)'
             /\ file[p] = stamp => file'[p] = stamp \/ Overwritten(p, stamp)'
  <2>1. writes \in Nat /\ writes' \in Nat /\ stamp.n \in Nat
    BY <1>2, StampFields, IngestAssumption
  <2>2. file[p] # None => file[p].n <= writes /\ file[p].n \in Nat
    BY StampFields DEF FileSound, IngestTypeOK
  <2>3. file'[p] \in Stamp => file'[p].n \in Nat
    BY StampFields
  <2> QED
    BY <1>2, <1>3, <2>1, <2>2, <2>3 DEF Overwritten
<1>4. \A p \in Paths : CursorSound(p)'
  <2> SUFFICES ASSUME NEW p \in Paths, cursor[p] # None PROVE CursorSound(p)'
    BY <1>1 DEF CursorSound
  <2>0. cursor[p] \in Cursor
    BY DEF IngestTypeOK
  <2>1. cursor[p].stamp \in Stamp \cup {None}
    BY <2>0, CursorFields
  <2>2. cursor[p].stamp # None => cursor[p].stamp \in Stamp /\ cursor[p].stamp.n <= writes
    BY <2>1 DEF CursorSound
  <2>3. CASE cursor[p].stamp = None
    BY <1>1, <2>3, StampAssumption DEF CursorSound
  <2>4. CASE cursor[p].stamp # None
    <3>1. PICK stamp \in Stamp : stamp = cursor[p].stamp /\ stamp.n <= writes
      BY <2>2, <2>4
    <3>2. /\ stamp.n <= writes' /\ (Overwritten(p, stamp) => Overwritten(p, stamp)')
      BY <1>3, <3>1
    <3>3. Overwritten(p, cursor[p].stamp) => Overwritten(p, cursor[p].stamp)'
      BY <1>1, <3>1, <3>2 DEF Overwritten
    <3> QED
      BY <1>1, <3>1, <3>2, <3>3 DEF CursorSound
  <2> QED
    BY <2>3, <2>4
<1>5. WorkSound'
  <2>1. CASE work.stage \in {"idle", "next"}
    BY <1>1, <2>1, RestIsSound
  <2>2. CASE work.stage \notin {"idle", "next"}
    <3>1. PICK stamp \in Stamp : stamp = work.cursor.stamp /\ stamp.n <= writes
      BY <2>2 DEF WorkSound
    <3>2. todo # {} /\ Here \in Paths
      BY <2>2, HereIsAPath DEF WorkSound, IngestTypeOK
    <3>3. PICK p \in Paths : p = Here
      BY <3>2
    <3>4. /\ stamp.n <= writes'
          /\ Overwritten(p, stamp) => Overwritten(p, stamp)'
          /\ file[p] = stamp => file'[p] = stamp \/ Overwritten(p, stamp)'
      BY <1>3, <3>1
    <3>5. /\ Overwritten(Here, work.cursor.stamp) => Overwritten(Here, work.cursor.stamp)'
          /\ file[Here] = work.cursor.stamp =>
               file'[Here'] = work.cursor.stamp \/ Overwritten(Here, work.cursor.stamp)'
      BY <1>1, <3>1, <3>3, <3>4 DEF Overwritten
    <3>6. work'.cursor.stamp.n <= writes'
      BY <1>1, <3>1, <3>4
    <3> HIDE DEF Here
    <3> QED
      BY <1>1, <2>2, <3>2, <3>5, <3>6 DEF WorkSound
  <2> QED
    BY <2>1, <2>2
<1>6. IngestTypeOK'
  BY <1>1, <1>2 DEF IngestTypeOK
<1> QED
  BY <1>1, <1>2, <1>4, <1>5, <1>6

(* A run that rests holds something typed, whatever it holds.                 *)
LEMMA RestIsTyped ==
  [Resting EXCEPT !.stage = "next"] \in
     [stage : {"next"}, cursor : {None}, content : {None}]
  /\ Resting \in [stage : {"idle"}, cursor : {None}, content : {None}]
BY DEF Resting

(* What the run notes, with another status or with its document.              *)
LEMMA HeldRows ==
  ASSUME IngestInvariant, work.stage \notin {"idle", "next"}
  PROVE  /\ Failed \in Cursor /\ Failed.status = "FAILED"
         /\ Failed.stamp = work.cursor.stamp /\ Failed.first = work.cursor.first
         /\ work.content \in Contents =>
              /\ Ingested \in Cursor /\ Ingested.status = "INGESTED"
              /\ Ingested.stamp = work.cursor.stamp /\ Ingested.first = work.cursor.first
              /\ Ingested.last = work.cursor.last /\ Ingested.document = work.content
<1>1. PICK row \in Cursor : row = work.cursor /\ row.status = "INGESTED"
  BY DEF IngestInvariant, WorkSound
<1>2. Failed = [row EXCEPT !.status = "FAILED"] /\ Ingested = [row EXCEPT !.document = work.content]
  BY <1>1 DEF Failed, Ingested
<1>3. Failed \in Cursor /\ Failed.status = "FAILED" /\ Failed.stamp = row.stamp
      /\ Failed.first = row.first
  BY <1>2, CursorWithStatus
<1>4. ASSUME work.content \in Contents
      PROVE  /\ Ingested \in Cursor /\ Ingested.status = "INGESTED"
             /\ Ingested.stamp = row.stamp /\ Ingested.first = row.first
             /\ Ingested.last = row.last /\ Ingested.document = work.content
  BY <1>1, <1>2, <1>4, CursorWithDocument
<1> QED
  BY <1>1, <1>3, <1>4

(* Passing over a file, and the two ways of evaluating it as not to be taken. *)
LEMMA EvaluationStep ==
  ASSUME IngestInvariant, Vanished \/ NotYetStable \/ OpenFails
  PROVE  IngestInvariant'
<1> USE DEF IngestInvariant
<1>1. todo # {}
  BY DEF Vanished, NotYetStable, OpenFails, WorkSound
<1>2. PICK p \in Paths : p = Here
  BY <1>1, HereIsAPath DEF IngestTypeOK
<1>3. CASE Vanished
  <2>1. DocumentsKept /\ leased' \subseteq Contents /\ work' = work /\ work.stage = "next"
    BY <1>3 DEF Vanished, Record, DocumentsKept, IngestTypeOK
  <2>2. CASE Known(p)
    <3>1. PICK row \in Cursor : row = cursor[p]
      BY <2>2 DEF Known, IngestTypeOK
    <3> DEFINE new == [row EXCEPT !.status = "VANISHED"]
    <3>2. new \in Cursor /\ new.stamp = row.stamp /\ new.first = row.first
          /\ new.status = "VANISHED"
      BY CursorWithStatus
    <3>5. Record(p, new)
      BY <1>2, <1>3, <2>2, <3>1 DEF Vanished
    <3> HIDE DEF new
    <3>3. RowSound(p, new, document')
      BY <2>2, <3>1, <3>2 DEF Known, CursorSound, RowSound
    <3> QED
      BY <2>1, <3>2, <3>3, <3>5, RecordCursorStep DEF IngestTypeOK
  <2>3. CASE ~Known(p)
    <3>1. DocumentOf(p) \in Contents \cup {None}
      <4>1. CASE cursor[p] = None
        BY <4>1 DEF DocumentOf
      <4>2. CASE cursor[p] # None
        <5>1. cursor[p] \in Cursor
          BY <4>2 DEF IngestTypeOK
        <5> QED
          BY <4>2, <5>1, CursorFields DEF DocumentOf
      <4> QED
        BY <4>1, <4>2
    <3>2. PICK new \in Cursor : new = [status |-> "VANISHED", stamp |-> None, first |-> clock,
                                       last |-> clock, document |-> DocumentOf(p)]
      BY <3>1 DEF Cursor
    <3>3. new.stamp = None /\ new.status = "VANISHED"
      BY <3>2
    <3>4. RowSound(p, new, document')
      BY <3>3 DEF RowSound
    <3>5. Record(p, new)
      BY <1>2, <1>3, <2>3, <3>2 DEF Vanished
    <3> QED
      BY <2>1, <3>4, <3>5, RecordCursorStep DEF IngestTypeOK
  <2> QED
    BY <2>2, <2>3
<1>4. CASE NotYetStable
  <2>1. DocumentsKept /\ leased' \subseteq Contents /\ work' = work /\ work.stage = "next"
        /\ file[p] # None
    BY <1>2, <1>4 DEF NotYetStable, Record, DocumentsKept, IngestTypeOK
  <2>2. PICK new \in Cursor : new = Evaluated(p, "PENDING_STABILITY")
    BY <2>1, EvaluatedSound
  <2>3. new.status = "PENDING_STABILITY" /\ new.stamp = file[p] /\ file[p].n <= writes
        /\ file[p].at <= new.first
    BY <2>1, <2>2, EvaluatedSound
  <2>4. RowSound(p, new, document')
    BY <2>3 DEF RowSound
  <2>5. Record(p, new)
    BY <1>2, <1>4, <2>2 DEF NotYetStable
  <2> QED
    BY <2>1, <2>4, <2>5, RecordCursorStep DEF IngestTypeOK
<1>5. CASE OpenFails
  <2>1. DocumentsKept /\ leased' \subseteq Contents /\ work.stage = "stable"
        /\ work' = [Resting EXCEPT !.stage = "next"] /\ Record(p, Failed)
    BY <1>2, <1>5 DEF OpenFails, Record, DocumentsKept, IngestTypeOK
  <2>2. PICK new \in Cursor : new = Failed
    BY <2>1, HeldRows
  <2>3. /\ new.status = "FAILED" /\ new.stamp = work.cursor.stamp /\ new.first = work.cursor.first
        /\ work.cursor.stamp.n <= writes /\ work.cursor.stamp.at <= work.cursor.first
    BY <2>1, <2>2, HeldRows DEF WorkSound
  <2>4. RowSound(p, new, document')
    BY <2>3 DEF RowSound
  <2>5. work'.stage = "next"
        /\ work' \in [stage : IngestStages, cursor : Cursor \cup {None}, content : Contents \cup {None}]
    BY <2>1, RestIsTyped DEF IngestStages
  <2>6. Record(p, new)
    BY <2>1, <2>2
  <2> QED
    BY <2>1, <2>4, <2>5, <2>6, RecordCursorStep
<1> QED
  BY <1>3, <1>4, <1>5

(* The commit: the row of the cursor names the document of what was read.     *)
LEMMA CommitStep ==
  ASSUME IngestInvariant, CommitEntry
  PROVE  IngestInvariant'
<1> USE DEF IngestInvariant
<1>1. /\ work.stage = "finalized" /\ Record(Here, Ingested) /\ leased' = leased
      /\ document' = [document EXCEPT ![work.content] = "committed"]
      /\ work' = [Resting EXCEPT !.stage = "next"] /\ stored' = stored
      /\ file' = file
  BY DEF CommitEntry, Record, directoryVars
<1>2. /\ todo # {} /\ work.content \in Contents /\ work.content \in stored
      /\ work.cursor.stamp \in Stamp /\ work.cursor.stamp.n <= writes
      /\ work.cursor.stamp.at <= work.cursor.first
      /\ work.cursor.first + Quiet <= work.cursor.last
      /\ work.content = work.cursor.stamp.content \/ Overwritten(Here, work.cursor.stamp)
  BY <1>1 DEF WorkSound
<1>3. PICK p \in Paths : p = Here
  BY <1>2, HereIsAPath DEF IngestTypeOK
<1>4. PICK new \in Cursor : new = Ingested
  BY <1>1, <1>2, HeldRows
<1>5. /\ new.stamp = work.cursor.stamp /\ new.first = work.cursor.first
      /\ new.last = work.cursor.last /\ new.document = work.content
  BY <1>1, <1>2, <1>4, HeldRows
<1>6. DocumentsKept /\ document'[work.content] = "committed"
  BY <1>1, <1>2 DEF DocumentsKept, IngestTypeOK
<1>7. RowSound(p, new, document')
  BY <1>2, <1>3, <1>5, <1>6 DEF RowSound
<1>8. work'.stage = "next"
      /\ work' \in [stage : IngestStages, cursor : Cursor \cup {None}, content : Contents \cup {None}]
  BY <1>1, RestIsTyped DEF IngestStages
<1>9. leased' \subseteq Contents /\ Record(p, new)
  BY <1>1, <1>3, <1>4 DEF IngestTypeOK
<1> QED
  BY <1>6, <1>7, <1>8, <1>9, RecordCursorStep

(* The steps of a run between its look at a file and its commit, its end, and *)
(* an upload beside it.                                                      *)
LEMMA IngestStep ==
  ASSUME IngestInvariant, [NextIngest]_ingestVars
  PROVE  IngestInvariant'
<1> USE DEF IngestInvariant
<1> DEFINE Held == [stage : IngestStages, cursor : Cursor \cup {None}, content : Contents \cup {None}]
<1>0. /\ document \in [Contents -> {"open", "committed", None}]
      /\ work \in Held /\ todo \subseteq DOMAIN Entries
      /\ leased \subseteq Contents /\ stored \subseteq Contents
  BY DEF IngestTypeOK
<1>1. ASSUME UNCHANGED <<document, stored>>
      PROVE  DocumentsKept
  BY <1>0, <1>1 DEF DocumentsKept
<1>2. ASSUME \/ \E p \in Paths : RemoveFile(p) \/ \E c \in Contents : WriteFile(p, c)
             \/ TickIngest
      PROVE  IngestInvariant'
  <2>1. UNCHANGED <<todo, work, recordedVars>>
    BY <1>2 DEF RemoveFile, WriteFile, TickIngest
  <2> QED
    BY <1>2, <2>1, DirectoryStep
<1>3. CASE ListEntries
  <2>1. DocumentsKept /\ UNCHANGED <<directoryVars, cursor>> /\ leased' = leased /\ stored' = stored
    BY <1>1, <1>3 DEF ListEntries, recordedVars
  <2>2. todo' \subseteq DOMAIN Entries /\ work' = [Resting EXCEPT !.stage = "next"]
    BY <1>3 DEF ListEntries
  <2>3. work' \in Held /\ work'.stage = "next"
    BY <2>2, RestIsTyped DEF IngestStages
  <2>4. WorkSound'
    BY <2>3, RestIsSound
  <2> QED
    BY <1>0, <2>1, <2>2, <2>3, <2>4, WorkStep
<1>4. CASE RunEnds
  <2>1. DocumentsKept /\ UNCHANGED <<directoryVars, cursor>> /\ leased' = leased /\ stored' = stored
        /\ todo' = todo /\ work' = Resting
    BY <1>1, <1>4 DEF RunEnds, recordedVars
  <2>3. work' \in Held /\ work'.stage = "idle"
    BY <2>1, RestIsTyped DEF IngestStages
  <2>4. WorkSound'
    BY <2>3, RestIsSound
  <2> QED
    BY <1>0, <2>1, <2>3, <2>4, WorkStep
<1>5. CASE Skip
  <2>1. DocumentsKept /\ UNCHANGED <<directoryVars, cursor>> /\ leased' = leased /\ stored' = stored
        /\ todo' = Remaining /\ work' = work /\ work.stage = "next"
    BY <1>1, <1>5 DEF Skip, recordedVars
  <2>2. todo' \subseteq DOMAIN Entries
    BY <1>0, <2>1 DEF Remaining
  <2>3. WorkSound'
    BY <2>1, RestIsSound
  <2> QED
    BY <1>0, <2>1, <2>2, <2>3, WorkStep
<1>6. CASE Vanished \/ NotYetStable \/ OpenFails
  BY <1>6, EvaluationStep
<1>7. CASE IsStable
  <2>1. DocumentsKept /\ UNCHANGED <<directoryVars, cursor>> /\ leased' = leased /\ stored' = stored
        /\ todo' = todo /\ todo # {} /\ file' = file /\ writes' = writes
        /\ file[Here] # None /\ Stable(Here)
        /\ work' = [stage |-> "stable", cursor |-> Evaluated(Here, "INGESTED"), content |-> None]
    BY <1>1, <1>7 DEF IsStable, recordedVars, directoryVars
  <2>2. Here \in Paths /\ Here' = Here
    BY <1>0, <2>1, HereIsAPath DEF Here
  <2>3. PICK row \in Cursor : row = Evaluated(Here, "INGESTED")
    BY <2>1, <2>2, EvaluatedSound
  <2>4. /\ row.status = "INGESTED" /\ row.stamp = file[Here] /\ row.stamp \in Stamp
        /\ row.stamp.n <= writes /\ row.stamp.at <= row.first
        /\ row.first + Quiet <= row.last
    BY <2>1, <2>2, <2>3, EvaluatedSound
  <2>5. work' \in Held /\ work'.stage = "stable" /\ work'.cursor = row
    BY <2>1, <2>3 DEF IngestStages
  <2> HIDE DEF Here
  <2>6. WorkSound'
    BY <2>1, <2>2, <2>4, <2>5 DEF WorkSound
  <2> QED
    BY <1>0, <2>1, <2>5, <2>6, WorkStep
<1>8. CASE OpenEntry
  <2>1. DocumentsKept /\ UNCHANGED <<directoryVars, cursor>> /\ leased' = leased /\ stored' = stored
        /\ todo' = todo /\ file' = file /\ writes' = writes /\ work.stage = "stable"
        /\ file[Here] # None
        /\ work' = [work EXCEPT !.stage = "read", !.content = file[Here].content]
    BY <1>1, <1>8 DEF OpenEntry, recordedVars, directoryVars
  <2>2. todo # {} /\ Here \in Paths /\ Here' = Here
    BY <1>0, <2>1, HereIsAPath DEF Here, WorkSound
  <2>3. file[Here] \in Stamp /\ file[Here].content \in Contents
    BY <2>1, <2>2, StampFields DEF IngestTypeOK
  <2>4. work' \in Held /\ work'.stage = "read" /\ work'.cursor = work.cursor
        /\ work'.content = file[Here].content
    BY <1>0, <2>1, <2>3 DEF IngestStages
  <2>5. file[Here] = work.cursor.stamp \/ Overwritten(Here, work.cursor.stamp)
    BY <2>1 DEF WorkSound
  <2> HIDE DEF Here
  <2>6. WorkSound'
    BY <2>1, <2>2, <2>3, <2>4, <2>5 DEF WorkSound, Overwritten
  <2> QED
    BY <1>0, <2>1, <2>4, <2>6, WorkStep
<1>9. ASSUME work.stage \in {"read", "staged", "flushed", "finalized"},
              NEW s \in {"staged", "flushed", "finalized"},
              work' = [work EXCEPT !.stage = s], UNCHANGED <<directoryVars, todo, cursor>>,
              stored' \subseteq Contents, stored \subseteq stored', work.content \in stored',
              DocumentsKept, leased' \subseteq Contents
       PROVE  IngestInvariant'
  <2>1. /\ work' \in Held /\ work'.stage = s /\ work'.cursor = work.cursor
        /\ work'.content = work.content
    BY <1>0, <1>9 DEF IngestStages
  <2>2. file' = file /\ writes' = writes /\ todo' = todo /\ Here' = Here
    BY <1>9 DEF directoryVars, Here
  <2> HIDE DEF Here
  <2>3. WorkSound'
    BY <1>9, <2>1, <2>2 DEF WorkSound, Overwritten
  <2> QED
    BY <1>0, <1>9, <2>1, <2>3, WorkStep
<1>10. CASE PutStream
  <2>1. work.stage = "read" /\ work.content \in Contents
    BY <1>10 DEF PutStream, WorkSound
  <2>2. leased' = leased \cup {work.content} /\ stored' = stored \cup {work.content}
        /\ work' = [work EXCEPT !.stage = "staged"] /\ UNCHANGED <<directoryVars, todo, cursor, document>>
    BY <1>10 DEF PutStream
  <2>3. DocumentsKept
    BY <1>0, <2>2 DEF DocumentsKept
  <2> QED
    BY <1>0, <1>9, <2>1, <2>2, <2>3
<1>11. CASE LookUp
  <2>1. work.stage = "staged" /\ work.content \in Contents /\ work.content \in stored
        /\ stored' = stored /\ UNCHANGED <<directoryVars, todo, cursor>>
    BY <1>11 DEF LookUp, WorkSound
  <2>2. CASE document[work.content] = "committed"
    <3>1. work' = [work EXCEPT !.stage = "finalized"] /\ leased' = leased \ {work.content}
          /\ document' = document
      BY <1>11, <2>2 DEF LookUp
    <3> QED
      BY <1>0, <1>1, <1>9, <2>1, <3>1
  <2>3. CASE document[work.content] # "committed"
    <3>1. document' = [document EXCEPT ![work.content] = "open"] /\ leased' = leased
          /\ work' = [work EXCEPT !.stage = "flushed"]
      BY <1>11, <2>3 DEF LookUp
    <3>2. DocumentsKept
      BY <1>0, <2>1, <2>3, <3>1 DEF DocumentsKept
    <3> QED
      BY <1>0, <1>9, <2>1, <3>1, <3>2
  <2> QED
    BY <2>2, <2>3
<1>12. CASE FinalizeStored
  <2>1. work.stage = "flushed" /\ work.content \in stored /\ stored' = stored /\ document' = document
        /\ leased' = leased \ {work.content} /\ UNCHANGED <<directoryVars, todo, cursor>>
        /\ work' = [work EXCEPT !.stage = "finalized"]
    BY <1>12 DEF FinalizeStored, WorkSound
  <2> QED
    BY <1>0, <1>1, <1>9, <2>1
<1>13. CASE CommitEntry
  BY <1>13, CommitStep
<1>14. CASE RunRaises \/ ProcessEnds
  <2>1. /\ document' = RolledBack /\ leased' \in {leased, {}} /\ work' = Resting /\ todo' = {}
        /\ UNCHANGED <<directoryVars, cursor, stored>>
    BY <1>14 DEF RunRaises, ProcessEnds, Abort
  <2>2. DocumentsKept
    BY <1>0, <2>1 DEF DocumentsKept, RolledBack
  <2>3. work' \in Held /\ work'.stage = "idle"
    BY <2>1, RestIsTyped DEF IngestStages
  <2>4. WorkSound'
    BY <2>3, RestIsSound
  <2> QED
    BY <1>0, <2>1, <2>2, <2>3, <2>4, WorkStep
<1>15. ASSUME NEW c \in Contents, Upload(c)
       PROVE  IngestInvariant'
  <2>1. /\ stored' = stored \cup {c} /\ document' = [document EXCEPT ![c] = "committed"]
        /\ UNCHANGED <<directoryVars, cursor>> /\ todo' = todo /\ work' = work /\ leased' = leased
        /\ file' = file /\ writes' = writes /\ Here' = Here
    BY <1>15 DEF Upload, directoryVars, Here
  <2>2. DocumentsKept
    BY <1>0, <1>15, <2>1 DEF DocumentsKept
  <2> HIDE DEF Here
  <2>3. WorkSound'
    BY <2>1 DEF WorkSound, Overwritten
  <2> QED
    BY <1>0, <1>15, <2>1, <2>2, <2>3, WorkStep
<1>16. CASE UNCHANGED ingestVars
  <2>1. DocumentsKept /\ UNCHANGED <<directoryVars, cursor, todo, work, leased, stored>>
        /\ file' = file /\ writes' = writes /\ Here' = Here
    BY <1>1, <1>16 DEF ingestVars, directoryVars, Here
  <2> HIDE DEF Here
  <2>3. WorkSound'
    BY <2>1 DEF WorkSound, Overwritten
  <2> QED
    BY <1>0, <2>1, <2>3, WorkStep
<1> QED
  BY <1>2, <1>3, <1>4, <1>5, <1>6, <1>7, <1>8, <1>10, <1>11, <1>12, <1>13, <1>14, <1>15, <1>16
  DEF NextIngest

LEMMA IngestStart == InitIngest => IngestInvariant
<1> SUFFICES ASSUME InitIngest PROVE IngestInvariant
  OBVIOUS
<1>1. Resting \in [stage : IngestStages, cursor : Cursor \cup {None}, content : Contents \cup {None}]
  BY RestIsTyped DEF IngestStages
<1>2. IngestTypeOK
  BY <1>1 DEF InitIngest, IngestTypeOK
<1>3. WorkSound
  BY DEF InitIngest, Resting, WorkSound
<1>4. \A p \in Paths : FileSound(p) /\ CursorSound(p)
  BY DEF InitIngest, FileSound, CursorSound
<1> QED
  BY <1>2, <1>3, <1>4, IngestAssumption DEF InitIngest, IngestInvariant

(* Whatever is written into the directory, uploaded or broken off meanwhile,   *)
(* the invariant of the ingest holds.                                        *)
THEOREM IngestIsSound == IngestSpec => []IngestInvariant
<1>1. IngestInvariant /\ [NextIngest]_ingestVars => IngestInvariant'
  BY IngestStep
<1> QED
  BY <1>1, IngestStart, PTL DEF IngestSpec

(* Every variable of the ingest keeps its type.                               *)
THEOREM IngestTyped == IngestSpec => []IngestTypeOK
<1>1. IngestInvariant => IngestTypeOK
  BY DEF IngestInvariant
<1> QED
  BY <1>1, IngestIsSound, PTL

(* What a cursor calls ingested is what lay there, quiet for the period, with  *)
(* its document committed and its bytes stored: IngestPipeline.execute under   *)
(* writes into the directory, uploads of the same bytes, and runs that die.   *)
THEOREM IngestTakesWhatLay == IngestSpec => []IngestedAsFound
<1>1. IngestInvariant => IngestedAsFound
  <2> SUFFICES ASSUME IngestInvariant PROVE IngestedIsStored /\ TakenWhenQuiet
    BY DEF IngestedAsFound
  <2> USE DEF IngestInvariant
  <2>1. ASSUME NEW p \in Paths, Known(p)
        PROVE  /\ cursor[p].document \in Contents /\ document[cursor[p].document] = "committed"
               /\ cursor[p].stamp \in Stamp /\ cursor[p].stamp.at <= cursor[p].first
               /\ cursor[p].first + Quiet <= cursor[p].last
               /\ cursor[p].document = cursor[p].stamp.content \/ Overwritten(p, cursor[p].stamp)
    BY <2>1, StampAssumption DEF Known, CursorSound
  <2>2. ASSUME NEW p \in Paths, Known(p), SameMetadata(p)
        PROVE  cursor[p].document = file[p].content
    <3>1. cursor[p].stamp = file[p] /\ file[p] \in Stamp /\ file[p] # None
      BY <2>1, <2>2, StampAssumption DEF SameMetadata
    <3>2. ~Overwritten(p, cursor[p].stamp)
      BY <3>1, StampFields DEF Overwritten
    <3> QED
      BY <2>1, <2>2, <3>1, <3>2
  <2> QED
    BY <2>1, <2>2, IngestAssumption DEF IngestedIsStored, TakenWhenQuiet
<1> QED
  BY <1>1, IngestIsSound, PTL

-----------------------------------------------------------------------------
(* Workbench                                                                  *)
-----------------------------------------------------------------------------
(* What a case is judged complete by.                                        *)
evidenceVars == <<receipt, fields, confirmed, tests>>

(* The inductive invariant of the workbench: a status says whether the case is *)
(* complete, and a conclusion is that of the samples it stands beside.        *)
WorkbenchInvariant ==
  /\ DOMAIN tests = Tests
  /\ status \in {"REVIEW_REQUIRED", "INTERNAL_TEST_PENDING", "READY_TO_SUBMIT", "SUBMITTED",
                 "RETURNED", "APPROVED"}
  /\ status \in {"READY_TO_SUBMIT", "SUBMITTED", "APPROVED"} => Complete
  /\ status \in {"REVIEW_REQUIRED", "INTERNAL_TEST_PENDING"} => ~Complete
  /\ \A t \in Tests : tests[t].completed => Concluded(t)

(* Where nothing of the evidence changes, a case is as complete as it was.    *)
LEMMA SameEvidence ==
  ASSUME UNCHANGED evidenceVars
  PROVE  Complete' = Complete /\ \A t \in Tests : Concluded(t)' = Concluded(t)
BY DEF evidenceVars, Complete, BlockedByTestsOnly, TestsComplete, ReceiptComplete,
       DocumentReviewed, MatchesConfirmed, Concluded

(* An edit that leaves no false conclusion behind: the status is derived anew. *)
LEMMA EditStep ==
  ASSUME WorkbenchInvariant, Editable, status' = DerivedStatus, DOMAIN tests' = Tests,
         \A t \in Tests : tests'[t].completed => Concluded(t)'
  PROVE  WorkbenchInvariant'
<1>1. CASE status = "RETURNED"
  BY <1>1 DEF WorkbenchInvariant, DerivedStatus
<1>2. CASE status # "RETURNED"
  <2>1. status' = IF Complete' THEN "READY_TO_SUBMIT"
                  ELSE IF BlockedByTestsOnly' THEN "INTERNAL_TEST_PENDING" ELSE "REVIEW_REQUIRED"
    BY <1>2 DEF DerivedStatus
  <2> QED
    BY <2>1 DEF WorkbenchInvariant
<1> QED
  BY <1>1, <1>2

(* An edit of something other than the tests leaves their conclusions alone.  *)
LEMMA EditBesideTests ==
  ASSUME WorkbenchInvariant, Editable, status' = DerivedStatus, tests' = tests
  PROVE  WorkbenchInvariant'
<1>1. \A t \in Tests : tests'[t].completed => Concluded(t)'
  BY DEF WorkbenchInvariant, Concluded
<1> QED
  BY <1>1, EditStep DEF WorkbenchInvariant

(* One test is edited: what is concluded of the others stays true.            *)
LEMMA EditOfATest ==
  ASSUME WorkbenchInvariant, Editable, status' = DerivedStatus, NEW t \in Tests, NEW result,
         tests' = [tests EXCEPT ![t] = result],
         result.completed =>
           LET s == Semantics(t, result.samples) IN
           s.completed /\ result.aggregate = s.aggregate /\ result.decision = s.decision
  PROVE  WorkbenchInvariant'
<1>1. DOMAIN tests' = Tests /\ tests'[t] = result
      /\ \A u \in Tests : u # t => tests'[u] = tests[u]
  BY DEF WorkbenchInvariant
<1>2. ASSUME NEW u \in Tests, tests'[u].completed
      PROVE  Concluded(u)'
  <2>1. CASE u = t
    BY <1>1, <1>2, <2>1 DEF Concluded
  <2>2. CASE u # t
    BY <1>1, <1>2, <2>2 DEF WorkbenchInvariant, Concluded
  <2> QED
    BY <2>1, <2>2
<1> QED
  BY <1>1, <1>2, EditStep

LEMMA WorkbenchStep ==
  ASSUME WorkbenchInvariant, [NextCase]_caseVars
  PROVE  WorkbenchInvariant'
<1>1. ASSUME NEW r, SetRole(r)
      PROVE  WorkbenchInvariant'
  BY <1>1, SameEvidence DEF SetRole, evidenceVars, WorkbenchInvariant
<1>2. ASSUME NEW field, NEW value, SetReceiptField(field, value)
      PROVE  WorkbenchInvariant'
  BY <1>2, EditBesideTests DEF SetReceiptField
<1>3. ASSUME NEW f, NEW final, NEW reason, FinalizeDocumentReview(f, final, reason)
      PROVE  WorkbenchInvariant'
  BY <1>3, EditBesideTests DEF FinalizeDocumentReview
<1>4. ASSUME NEW m, ConfirmMatch(m)
      PROVE  WorkbenchInvariant'
  BY <1>4, EditBesideTests DEF ConfirmMatch
<1>5. ASSUME NEW t \in Tests, NEW samples, SetInternalSamples(t, samples)
      PROVE  WorkbenchInvariant'
  <2>1. PICK result : result = ResetTest(t, samples)
    OBVIOUS
  <2>2. ~result.completed
    BY <2>1 DEF ResetTest
  <2> QED
    BY <1>5, <2>1, <2>2, EditOfATest DEF SetInternalSamples
<1>6. ASSUME NEW t \in Tests, ConfirmInternalTest(t)
      PROVE  WorkbenchInvariant'
  <2>1. PICK s : s = Semantics(t, tests[t].samples)
    OBVIOUS
  <2>2. PICK result : result = [samples |-> tests[t].samples, aggregate |-> s.aggregate,
                                completed |-> TRUE, decision |-> s.decision]
    OBVIOUS
  <2>3. tests' = [tests EXCEPT ![t] = result] /\ s.completed
    BY <1>6, <2>1, <2>2 DEF ConfirmInternalTest, WorkbenchInvariant
  <2>4. /\ result.samples = tests[t].samples /\ result.aggregate = s.aggregate
        /\ result.decision = s.decision
    BY <2>2
  <2>5. Editable /\ status' = DerivedStatus
    BY <1>6 DEF ConfirmInternalTest
  <2>6. LET u == Semantics(t, result.samples) IN
        u.completed /\ result.aggregate = u.aggregate /\ result.decision = u.decision
    BY <2>1, <2>3, <2>4
  <2> QED
    BY <2>3, <2>5, <2>6, EditOfATest
<1>7. ASSUME NEW reason, Submit(reason) \/ Return(reason) \/ Approve(reason)
      PROVE  WorkbenchInvariant'
  BY <1>7, SameEvidence DEF Submit, Return, Approve, CanSubmit, evidenceVars, WorkbenchInvariant
<1>8. CASE UNCHANGED caseVars
  BY <1>8, SameEvidence DEF caseVars, evidenceVars, WorkbenchInvariant
<1> QED
  BY <1>1, <1>2, <1>3, <1>4, <1>5, <1>6, <1>7, <1>8 DEF NextCase, Tests

LEMMA WorkbenchBegins == InitCase => WorkbenchInvariant
<1> SUFFICES ASSUME InitCase PROVE WorkbenchInvariant
  OBVIOUS
<1>1. status = "REVIEW_REQUIRED" /\ confirmed = {} /\ DOMAIN tests = Tests
      /\ \A t \in Tests : ~tests[t].completed
  BY DEF InitCase
<1>2. ~Complete
  BY <1>1 DEF Complete, BlockedByTestsOnly, MatchesConfirmed
<1> QED
  BY <1>1, <1>2 DEF WorkbenchInvariant

(* Whatever the user edits, submits, returns and approves, in whatever order,  *)
(* the status and the conclusions follow the evidence.                       *)
THEOREM WorkbenchIsSound == CaseSpec => []WorkbenchInvariant
<1>1. InitCase => WorkbenchInvariant
  BY WorkbenchBegins
<1>2. WorkbenchInvariant /\ [NextCase]_caseVars => WorkbenchInvariant'
  BY WorkbenchStep
<1> QED
  BY <1>1, <1>2, PTL DEF CaseSpec

(* A case is offered for submission exactly while it is complete, what waits   *)
(* for the lead or was approved is complete, and no conclusion outlives the    *)
(* samples it was drawn from (reduceInspection, derivePreSubmitStatus).      *)
THEOREM OffersAreComplete == CaseSpec => []CompleteWhenOffered
<1>1. WorkbenchInvariant => CompleteWhenOffered
  BY DEF WorkbenchInvariant, CompleteWhenOffered, ReviewedOnCompleteEvidence,
         OfferedWhenComplete, Editable
<1> QED
  BY <1>1, WorkbenchIsSound, PTL

-----------------------------------------------------------------------------
(* The partial sums of s up to n, as SumOf defines them.                      *)
IsSum(g, s, n) == g = [i \in 0 .. n |-> IF i = 0 THEN 0 ELSE g[i - 1] + s[i]]

LEMMA SumsExist ==
  ASSUME NEW s \in Seq(Int), NEW n \in 0 .. Len(s)
  PROVE  \E g \in [0 .. n -> Int] : IsSum(g, s, n)
<1> DEFINE Summed(m) == \E g \in [0 .. m -> Int] : IsSum(g, s, m)
           without == {m \in 0 .. Len(s) : ~Summed(m)}
<1>1. SUFFICES ASSUME without # {} PROVE FALSE
  OBVIOUS
<1>2. PICK m \in without : \A k \in without : m <= k
  <2>1. without \in SUBSET Nat
    OBVIOUS
  <2> HIDE DEF without
  <2> QED
    BY <1>1, <2>1, LeastNatural
<1>3. CASE m = 0
  <2> DEFINE g == [i \in 0 .. 0 |-> 0]
  <2>1. g \in [0 .. 0 -> Int] /\ IsSum(g, s, 0)
    BY DEF IsSum
  <2> QED
    BY <1>2, <1>3, <2>1
<1>4. CASE m # 0
  <2>1. m \in Nat /\ m <= Len(s) /\ Len(s) \in Nat
    BY <1>2
  <2>0. m - 1 \in 0 .. Len(s) /\ ~(m <= m - 1)
    BY <1>4, <2>1
  <2>2. PICK h \in [0 .. m - 1 -> Int] : IsSum(h, s, m - 1)
    BY <1>2, <2>0
  <2> DEFINE g == [i \in 0 .. m |-> IF i = m THEN h[m - 1] + s[m] ELSE h[i]]
  <2>3. s[m] \in Int /\ h[m - 1] \in Int
    BY <1>4, <2>1
  <2>4. g \in [0 .. m -> Int]
    BY <2>1, <2>3
  <2>5. ASSUME NEW i \in 0 .. m
        PROVE  g[i] = IF i = 0 THEN 0 ELSE g[i - 1] + s[i]
    <3>1. CASE i = m
      BY <1>4, <2>1, <3>1
    <3>2. CASE i # m
      <4>0. i \in 0 .. m - 1
        BY <1>4, <2>1, <3>2
      <4>1. h[i] = IF i = 0 THEN 0 ELSE h[i - 1] + s[i]
        BY <2>2, <4>0 DEF IsSum
      <4>2. i # 0 => i - 1 \in 0 .. m /\ i - 1 # m
        BY <2>1, <3>2, <4>0
      <4> QED
        BY <3>2, <4>0, <4>1, <4>2
    <3> QED
      BY <3>1, <3>2
  <2>6. IsSum(g, s, m)
    BY <2>4, <2>5 DEF IsSum
  <2> HIDE DEF g
  <2>7. Summed(m)
    BY <2>4, <2>6
  <2> QED
    BY <1>2, <2>7
<1> QED
  BY <1>3, <1>4

(* A sum of decimals is one.                                                 *)
LEMMA SumIsInteger ==
  ASSUME NEW s \in Seq(Int)
  PROVE  SumOf(s) \in Int
<1> DEFINE n == Len(s)
           sums == CHOOSE g : IsSum(g, s, n)
<1>1. n \in Nat
  OBVIOUS
<1>2. SumOf(s) = sums[n]
  BY DEF SumOf, IsSum
<1>3. IsSum(sums, s, n)
  BY SumsExist, <1>1
<1>4. PICK g \in [0 .. n -> Int] : IsSum(g, s, n)
  BY SumsExist, <1>1
<1> HIDE DEF sums, n
<1> DEFINE differ == {i \in 0 .. n : sums[i] # g[i]}
<1>5. differ = {}
  <2> SUFFICES ASSUME differ # {} PROVE FALSE
    OBVIOUS
  <2>0. differ \in SUBSET Nat
    BY <1>1
  <2>1. PICK i \in differ : \A j \in differ : i <= j
    <3> HIDE DEF differ
    <3> QED
      BY <2>0, LeastNatural
  <2>2. sums[i] = (IF i = 0 THEN 0 ELSE sums[i - 1] + s[i])
        /\ g[i] = (IF i = 0 THEN 0 ELSE g[i - 1] + s[i])
    BY <1>3, <1>4, <2>1 DEF IsSum
  <2>3. i # 0 => i - 1 \in 0 .. n /\ i - 1 \notin differ
    BY <1>1, <2>1
  <2> QED
    BY <2>1, <2>2, <2>3
<1>6. sums[n] = g[n] /\ g[n] \in Int
  BY <1>1, <1>5
<1> QED
  BY <1>2, <1>6

(* The greatest common divisor divides.                                      *)
LEMMA GcdDivides ==
  ASSUME NEW a \in Int, NEW b \in Nat \ {0}
  PROVE  Gcd(a, b) \in 1 .. b /\ a % Gcd(a, b) = 0 /\ b % Gcd(a, b) = 0
<1> DEFINE divides(d) == a % d = 0 /\ b % d = 0
           above == {m \in 0 .. b - 1 : divides(b - m)}
<1>1. b - 1 \in above
  OBVIOUS
<1>2. PICK m \in above : \A k \in above : m <= k
  <2>1. above \in SUBSET Nat
    OBVIOUS
  <2> HIDE DEF above
  <2> QED
    BY <1>1, <2>1, LeastNatural
<1>3. b - m \in 1 .. b /\ divides(b - m)
  BY <1>2
<1>4. ASSUME NEW e \in 1 .. b, divides(e)
      PROVE  e <= b - m
  <2>1. b - e \in 0 .. b - 1 /\ b - (b - e) = e
    OBVIOUS
  <2>2. b - e \in above
    BY <1>4, <2>1
  <2>3. m <= b - e
    BY <1>2, <2>2
  <2> QED
    BY <1>3, <2>3
<1>5. \E d \in 1 .. b : /\ a % d = 0 /\ b % d = 0
                        /\ \A e \in 1 .. b : a % e = 0 /\ b % e = 0 => e <= d
  BY <1>3, <1>4
<1> QED
  BY <1>5 DEF Gcd

(* The mean lies within the limits if and only if the sum lies within their    *)
(* multiples.                                                                *)
LEMMA CancelledMean ==
  ASSUME NEW a \in Int, NEW b \in Nat \ {0}, NEW d \in 1 .. b, a % d = 0, b % d = 0,
         NEW limit \in Int
  PROVE  /\ limit * (b \div d) <= a \div d <=> limit * b <= a
         /\ a \div d <= limit * (b \div d) <=> a <= limit * b
<1>1. PICK m \in Int : m = a \div d
  OBVIOUS
<1>2. PICK k \in Int : k = b \div d
  OBVIOUS
<1>3. a = d * m /\ b = d * k /\ d \in Nat /\ d > 0
  BY <1>1, <1>2
<1>4. limit * b = d * (limit * k) /\ limit * k \in Int
  BY <1>3
<1>5. PICK x \in Int : x = limit * k
  BY <1>4
<1>6. x <= m <=> d * x <= d * m
  BY <1>3
<1>7. m <= x <=> d * m <= d * x
  BY <1>3
<1> QED
  BY <1>1, <1>2, <1>3, <1>4, <1>5, <1>6, <1>7

-----------------------------------------------------------------------------
Passes(t, samples) ==
  IF t \in NominalTests THEN \A i \in DOMAIN samples : samples[i] = "CONFORMING"
  ELSE Lower * Len(samples) <= SumOf(samples) /\ SumOf(samples) <= Upper * Len(samples)

(* The samples a test may hold.                                              *)
Enterable(t, samples) ==
  /\ t \in NumericTests => samples \in Seq(Int \cup {None})
  /\ t \in NominalTests => samples \in Seq({"CONFORMING", "NONCONFORMING", None})

(* What is concluded of readable samples is what they say.                    *)
LEMMA ConclusionFollows ==
  ASSUME NEW t \in Tests, NEW samples, Enterable(t, samples), Semantics(t, samples).completed
  PROVE  Semantics(t, samples).decision = "NONCONFORMING" <=> ~Passes(t, samples)
<1>1. ~Undecided.completed
  BY DEF Undecided
<1>2. samples # << >>
  BY <1>1 DEF Semantics
<1>3. CASE t \in NominalTests
  <2>1. ~(\E i \in DOMAIN samples : samples[i] = None)
    BY <1>1, <1>2, <1>3 DEF Semantics
  <2>2. Semantics(t, samples).decision = Nominal(samples)
    BY <1>2, <1>3, <2>1 DEF Semantics
  <2>3. samples \in Seq({"CONFORMING", "NONCONFORMING", None})
    BY <1>3 DEF Enterable
  <2>4. \A i \in DOMAIN samples : samples[i] \in {"CONFORMING", "NONCONFORMING"}
    BY <2>1, <2>3
  <2>5. Nominal(samples) = "NONCONFORMING" <=> \E i \in DOMAIN samples : samples[i] = "NONCONFORMING"
    BY DEF Nominal
  <2>6. (\E i \in DOMAIN samples : samples[i] = "NONCONFORMING") <=> ~Passes(t, samples)
    BY <1>3, <2>4 DEF Passes
  <2> QED
    BY <2>2, <2>5, <2>6
<1>4. CASE t \notin NominalTests
  <2>1. ~(\E i \in DOMAIN samples : ~IsDecimal(samples[i])) /\ Mean(samples) # None
    BY <1>1, <1>2, <1>4 DEF Semantics
  <2>2. Semantics(t, samples).decision =
          IF Inside(Mean(samples)) THEN "CONFORMING" ELSE "NONCONFORMING"
    BY <1>2, <1>4, <2>1 DEF Semantics
  <2>3. samples \in Seq(Int \cup {None})
    BY <1>4 DEF Enterable, Tests
  <2>4. samples \in Seq(Int) /\ Len(samples) \in Nat \ {0}
    <3>1. \A i \in 1 .. Len(samples) : samples[i] \in Int
      BY <2>1, <2>3 DEF IsDecimal
    <3>2. samples \in [1 .. Len(samples) -> Int] /\ Len(samples) \in Nat
      BY <2>3, <3>1
    <3> QED
      BY <1>2, <2>3, <3>2
  <2>5. PICK a \in Int : a = SumOf(samples)
    BY <2>4, SumIsInteger
  <2>6. PICK b \in Nat \ {0} : b = Len(samples)
    BY <2>4
  <2>7. PICK d \in 1 .. b : d = Gcd(a, b) /\ a % d = 0 /\ b % d = 0
    BY GcdDivides
  <2>8. Mean(samples) = [of |-> a \div d, over |-> b \div d]
    BY <2>1, <2>5, <2>6, <2>7 DEF Mean
  <2>9. Inside(Mean(samples)) <=>
          Lower * (b \div d) <= a \div d /\ a \div d <= Upper * (b \div d)
    BY <2>8 DEF Inside
  <2>10. Lower * (b \div d) <= a \div d <=> Lower * b <= a
    BY <2>7, CancelledMean, WorkbenchAssumption
  <2>11. a \div d <= Upper * (b \div d) <=> a <= Upper * b
    BY <2>7, CancelledMean, WorkbenchAssumption
  <2>12. Inside(Mean(samples)) <=> Passes(t, samples)
    BY <1>4, <2>5, <2>6, <2>9, <2>10, <2>11 DEF Passes
  <2> QED
    BY <2>2, <2>12
<1> QED
  BY <1>3, <1>4

(* The tests hold samples a user can enter.                                   *)
SamplesEnterable == \A t \in Tests : Enterable(t, tests[t].samples)
FreezingInvariant == WorkbenchInvariant /\ SamplesEnterable /\ FrozenDecisionFollows

LEMMA SamplesStep ==
  ASSUME WorkbenchInvariant, SamplesEnterable, [NextCase]_caseVars
  PROVE  SamplesEnterable'
<1>1. CASE tests' = tests
  BY <1>1 DEF SamplesEnterable
<1>2. ASSUME NEW t \in Tests, NEW samples, Enterable(t, samples), SetInternalSamples(t, samples)
      PROVE  SamplesEnterable'
  <2>1. tests' = [tests EXCEPT ![t] = ResetTest(t, samples)]
        /\ ResetTest(t, samples).samples = samples
    BY <1>2 DEF SetInternalSamples, ResetTest
  <2>2. \A u \in Tests : tests'[u].samples = IF u = t THEN samples ELSE tests[u].samples
    BY <2>1 DEF WorkbenchInvariant
  <2> QED
    BY <1>2, <2>2 DEF SamplesEnterable
<1>3. ASSUME NEW t \in NumericTests, NEW samples \in NumericRows, SetInternalSamples(t, samples)
      PROVE  SamplesEnterable'
  <2>1. t \in Tests /\ Enterable(t, samples)
    BY WorkbenchAssumption DEF Enterable, Tests
  <2> QED
    BY <1>2, <1>3, <2>1
<1>4. ASSUME NEW t \in NominalTests, NEW samples \in NominalRows, SetInternalSamples(t, samples)
      PROVE  SamplesEnterable'
  <2>1. t \in Tests /\ Enterable(t, samples)
    BY WorkbenchAssumption DEF Enterable, Tests
  <2> QED
    BY <1>2, <1>4, <2>1
<1>5. ASSUME NEW t \in Tests, ConfirmInternalTest(t)
      PROVE  SamplesEnterable'
  <2>1. PICK s : tests' = [tests EXCEPT ![t] =
                   [samples |-> @.samples, aggregate |-> s.aggregate, completed |-> TRUE,
                    decision |-> s.decision]]
    BY <1>5 DEF ConfirmInternalTest
  <2>2. \A u \in Tests : tests'[u].samples = tests[u].samples
    BY <2>1 DEF WorkbenchInvariant
  <2> QED
    BY <2>2 DEF SamplesEnterable
<1> QED
  BY <1>1, <1>3, <1>4, <1>5
  DEF NextCase, caseVars, SetRole, SetReceiptField, FinalizeDocumentReview, ConfirmMatch,
      Submit, Return, Approve

(* What an approval freezes.                                                  *)
LEMMA ApprovalFollows ==
  ASSUME SamplesEnterable, NEW reason, Approve(reason)
  PROVE  FrozenDecisionFollows'
<1>1. \A t \in Tests : Concluded(t)
  BY DEF Approve, Complete, TestsComplete
<1>2. ASSUME NEW t \in Tests
      PROVE  tests[t].decision = "NONCONFORMING" <=> ~Passes(t, tests[t].samples)
  <2>1. /\ Semantics(t, tests[t].samples).completed
        /\ tests[t].decision = Semantics(t, tests[t].samples).decision
    BY <1>1 DEF Concluded
  <2>2. Enterable(t, tests[t].samples)
    BY DEF SamplesEnterable
  <2> QED
    BY <2>1, <2>2, ConclusionFollows
<1>3. Overall = "CONFORMING" <=> \A t \in Tests : Passes(t, tests[t].samples)
  BY <1>2 DEF Overall
<1>4. snapshot'.tests = tests /\ snapshot'.overall = Overall
  BY DEF Approve, FrozenSnapshot
<1> QED
  BY <1>3, <1>4 DEF FrozenDecisionFollows, Passes

LEMMA FreezingStep ==
  ASSUME FreezingInvariant, [NextCase]_caseVars
  PROVE  FreezingInvariant'
<1> USE DEF FreezingInvariant
<1>1. WorkbenchInvariant' /\ SamplesEnterable'
  BY WorkbenchStep, SamplesStep
<1>2. CASE snapshot' = snapshot
  <2>1. FrozenDecisionFollows'
    BY <1>2 DEF FrozenDecisionFollows
  <2> QED
    BY <1>1, <2>1
<1>3. ASSUME NEW reason, Approve(reason)
      PROVE  FreezingInvariant'
  BY <1>1, <1>3, ApprovalFollows
<1> QED
  BY <1>2, <1>3
  DEF NextCase, caseVars, SetRole, SetReceiptField, FinalizeDocumentReview, ConfirmMatch,
      SetInternalSamples, ConfirmInternalTest, Submit, Return

(* The decision an approval froze is that of the samples, exactly: no rounding *)
(* and no conclusion from other samples comes between them                    *)
(* (averageDecimalStrings, createSnapshot).                                   *)
THEOREM FrozenDecisionsFollow == CaseSpec => []FrozenDecisionFollows
<1>1. ASSUME InitCase
      PROVE  FreezingInvariant
  <2>1. WorkbenchInvariant
    BY <1>1, WorkbenchBegins
  <2>2. SamplesEnterable
    <3>1. \A t \in Tests :
            tests[t].samples = IF t \in NumericTests THEN <<Lower>> ELSE <<"CONFORMING">>
      BY <1>1 DEF InitCase
    <3>2. /\ <<Lower>> \in Seq(Int \cup {None})
          /\ <<"CONFORMING">> \in Seq({"CONFORMING", "NONCONFORMING", None})
      BY WorkbenchAssumption
    <3>3. \A t \in Tests : t \in NominalTests <=> t \notin NumericTests
      BY WorkbenchAssumption DEF Tests
    <3> QED
      BY <3>1, <3>2, <3>3 DEF SamplesEnterable, Enterable
  <2>3. FrozenDecisionFollows
    BY <1>1 DEF InitCase, FrozenDecisionFollows
  <2> QED
    BY <2>1, <2>2, <2>3 DEF FreezingInvariant
<1>2. FreezingInvariant /\ [NextCase]_caseVars => FreezingInvariant'
  BY FreezingStep
<1>3. FreezingInvariant => FrozenDecisionFollows
  BY DEF FreezingInvariant
<1> QED
  BY <1>1, <1>2, <1>3, PTL DEF CaseSpec

-----------------------------------------------------------------------------
(* Samples                                                                    *)
-----------------------------------------------------------------------------
Items ==
  [policy : ItemPolicies, rule : Rules, sample : SamplePolicies, mapped : BOOLEAN,
   supplier : Samples, internal : Samples]

LEMMA NoSamples == << >> \in Samples
<1>1. << >> \in [1 .. 0 -> Values] /\ 0 \in 0 .. MaxSamples
  BY SamplingAssumption
<1> QED
  BY <1>1 DEF Samples

(* Samples come to a decision, and nothing else comes to Absent.              *)
LEMMA SamplesAreDecided ==
  ASSUME NEW values, NEW policy \in SamplePolicies, NEW rule
  PROVE  /\ Aggregate(values, policy, rule) \in Decisions \cup {Absent}
         /\ Aggregate(values, policy, rule) = Absent <=> values = << >>
<1>1. \A v : EvaluateRule(rule, v) \in Decisions
  BY DEF EvaluateRule, Decisions
<1>2. \A ds : Combine(ds) \in Decisions
  BY DEF Combine, Decisions
<1>3. values # << >> => Aggregate(values, policy, rule) \in Decisions
  <2> HIDE DEF Combine, EvaluateRule
  <2> QED
    BY <1>1, <1>2 DEF Aggregate, SamplePolicies, Decisions
<1>4. values = << >> => Aggregate(values, policy, rule) = Absent
  BY DEF Aggregate
<1>5. Absent \notin Decisions
  BY DEF Absent, Decisions
<1> QED
  BY <1>3, <1>4, <1>5

(* What the policy of an item makes of its sources: a decision, and an         *)
(* acceptance only where the sources that count are accepted.                 *)
LEMMA OverallOfSources ==
  ASSUME NEW policy \in [source : SourcePolicies, missing : MissingPolicies],
         NEW supplier \in Decisions \cup {Absent}, NEW internal \in Decisions \cup {Absent}
  PROVE  /\ ItemOverall(policy, TRUE, supplier, internal) \in Decisions
         /\ ItemOverall(policy, TRUE, supplier, internal) = "ACCEPTED" =>
              /\ "ACCEPTED" \in {supplier, internal}
              /\ policy.source \in {"INTERNAL_ONLY", "SUPPLIER_REFERENCE_INTERNAL_FINAL",
                                    "BOTH_ALL_MUST_PASS"} => internal = "ACCEPTED"
              /\ policy.source = "SUPPLIER_ONLY" /\ supplier # Absent => supplier = "ACCEPTED"
              /\ policy.source = "BOTH_ALL_MUST_PASS" => supplier = "ACCEPTED"
              /\ policy.source # "INTERNAL_ONLY" /\ supplier = Absent
                   => policy.missing = "INTERNAL_SUBSTITUTE"
              /\ policy.source = "BOTH_INTERNAL_PRIORITY" /\ internal # Absent
                   => internal = "ACCEPTED"
<1>1. policy.source \in SourcePolicies /\ policy.missing \in MissingPolicies
  OBVIOUS
<1>2. PICK source : source = policy.source
  OBVIOUS
<1>3. PICK missing : missing = policy.missing
  OBVIOUS
<1>4. CASE source = "SUPPLIER_ONLY"
  BY <1>2, <1>3, <1>4 DEF ItemOverall, InternalRequired, SupplierMissing, Chosen, Combine,
     Decisions, Absent
<1>5. CASE source = "INTERNAL_ONLY"
  BY <1>2, <1>3, <1>5 DEF ItemOverall, InternalRequired, SupplierMissing, Chosen, Combine,
     Decisions, Absent
<1>6. CASE source = "SUPPLIER_REFERENCE_INTERNAL_FINAL"
  BY <1>2, <1>3, <1>6 DEF ItemOverall, InternalRequired, SupplierMissing, Chosen, Combine,
     Decisions, Absent
<1>7. CASE source = "BOTH_INTERNAL_PRIORITY"
  BY <1>2, <1>3, <1>7 DEF ItemOverall, InternalRequired, SupplierMissing, Chosen, Combine,
     Decisions, Absent
<1>8. CASE source = "BOTH_ALL_MUST_PASS"
  BY <1>2, <1>3, <1>8 DEF ItemOverall, InternalRequired, SupplierMissing, Chosen, Combine,
     Decisions, Absent
<1> QED
  BY <1>1, <1>2, <1>4, <1>5, <1>6, <1>7, <1>8 DEF SourcePolicies

(* Where an item is evaluated and not held before its sources are compared.   *)
LEMMA Compared ==
  ASSUME item \in Items
  PROVE  /\ EvaluateItem \in Decisions
         /\ Verdict("supplier") \in Decisions \cup {Absent}
         /\ Verdict("internal") \in Decisions \cup {Absent}
         /\ Verdict("supplier") = Absent <=> item.supplier = << >>
         /\ Verdict("internal") = Absent <=> item.internal = << >>
         /\ EvaluateItem = "ACCEPTED" =>
              /\ item.mapped /\ item.sample # "MANUAL"
              /\ item.supplier \o item.internal = << >> \/ RuleIsValid(item.rule)
              /\ EvaluateItem = ItemOverall(item.policy, TRUE, Verdict("supplier"),
                                            Verdict("internal"))
<1>1. item.sample \in SamplePolicies
      /\ item.policy \in [source : SourcePolicies, missing : MissingPolicies]
  BY SamplingAssumption DEF Items
<1>2. /\ Verdict("supplier") \in Decisions \cup {Absent}
      /\ Verdict("supplier") = Absent <=> item.supplier = << >>
      /\ Verdict("internal") \in Decisions \cup {Absent}
      /\ Verdict("internal") = Absent <=> item.internal = << >>
  BY <1>1, SamplesAreDecided DEF Verdict
<1>3. ItemOverall(item.policy, TRUE, Verdict("supplier"), Verdict("internal")) \in Decisions
  BY <1>1, <1>2, OverallOfSources
<1>4. "ON_HOLD" \in Decisions
  BY DEF Decisions
<1> HIDE DEF ItemOverall, Verdict, RuleIsValid
<1>5. EvaluateItem = "ACCEPTED" =>
        /\ item.mapped /\ item.sample # "MANUAL"
        /\ item.supplier \o item.internal = << >> \/ RuleIsValid(item.rule)
        /\ EvaluateItem = ItemOverall(item.policy, TRUE, Verdict("supplier"),
                                      Verdict("internal"))
  BY Zenon DEF EvaluateItem
<1>6. EvaluateItem \in Decisions
  BY <1>3, <1>4 DEF EvaluateItem
<1> QED
  BY <1>2, <1>5, <1>6

ItemInvariant == item \in Items
LEMMA ItemsStay ==
  ASSUME ItemInvariant, [NextItem]_item
  PROVE  ItemInvariant'
<1> USE DEF ItemInvariant
<1>1. ASSUME NEW values \in Samples, ReviewSupplier(values)
      PROVE  item' \in Items
  BY <1>1 DEF ReviewSupplier, Items
<1>2. ASSUME NEW values \in Samples, PutInternal(values)
      PROVE  item' \in Items
  BY <1>2 DEF PutInternal, Items
<1> QED
  BY <1>1, <1>2 DEF NextItem

(* An item keeps its form, whatever samples are reviewed and put.              *)
LEMMA ItemsAreItems == ItemSpec => []ItemInvariant
<1>1. InitItem => ItemInvariant
  BY NoSamples DEF InitItem, Items, ItemInvariant
<1>2. ItemInvariant /\ [NextItem]_item => ItemInvariant'
  BY ItemsStay
<1> QED
  BY <1>1, <1>2, PTL DEF ItemSpec

(* Every item is evaluated to a decision, and its samples to one or to none.   *)
THEOREM ItemsTyped == ItemSpec => []ItemTypeOK
<1>1. ItemInvariant => ItemTypeOK
  <2> SUFFICES ASSUME item \in Items PROVE ItemTypeOK
    BY DEF ItemInvariant
  <2>1. item.supplier \in Samples /\ item.internal \in Samples
    BY DEF Items
  <2>2. \A source \in {"supplier", "internal"} : Verdict(source) \in Decisions \cup {Absent}
    BY Compared
  <2> QED
    BY <2>1, <2>2, Compared DEF ItemTypeOK
<1> QED
  BY <1>1, ItemsAreItems, PTL

(* No item is accepted without the evidence its policy asks for               *)
(* (evaluate_item_details).                                                  *)
THEOREM AcceptanceNeedsEvidence == ItemSpec => []AcceptedOnEvidence
<1>1. ItemInvariant => AcceptedOnEvidence
  <2> SUFFICES ASSUME item \in Items, EvaluateItem = "ACCEPTED" PROVE AcceptedOnEvidence
    BY DEF AcceptedOnEvidence, ItemInvariant
  <2>1. PICK policy \in [source : SourcePolicies, missing : MissingPolicies] : policy = item.policy
    BY SamplingAssumption DEF Items
  <2>2. PICK supplier \in Decisions \cup {Absent} : supplier = Verdict("supplier")
    BY Compared
  <2>3. PICK internal \in Decisions \cup {Absent} : internal = Verdict("internal")
    BY Compared
  <2>4. ItemOverall(policy, TRUE, supplier, internal) = "ACCEPTED"
    BY Compared, <2>1, <2>2, <2>3
  <2>5. "ACCEPTED" \in {supplier, internal}
    BY <2>4, OverallOfSources
  <2>6. item.supplier # << >> \/ item.internal # << >>
    <3>1. "ACCEPTED" # Absent
      BY DEF Absent
    <3> QED
      BY <2>2, <2>3, <2>5, <3>1, Compared
  <2>7. RuleIsValid(item.rule)
    <3>1. item.supplier \in Seq(Values) /\ item.internal \in Seq(Values)
      BY DEF Items, Samples
    <3>2. item.supplier \o item.internal # << >>
      BY <2>6, <3>1
    <3> QED
      BY <3>2, Compared
  <2>8. /\ policy.source \in {"INTERNAL_ONLY", "SUPPLIER_REFERENCE_INTERNAL_FINAL",
                              "BOTH_ALL_MUST_PASS"} => internal = "ACCEPTED"
        /\ policy.source = "SUPPLIER_ONLY" /\ supplier # Absent => supplier = "ACCEPTED"
        /\ policy.source = "BOTH_ALL_MUST_PASS" => supplier = "ACCEPTED"
        /\ policy.source # "INTERNAL_ONLY" /\ supplier = Absent
             => policy.missing = "INTERNAL_SUBSTITUTE"
        /\ policy.source = "BOTH_INTERNAL_PRIORITY" /\ internal # Absent
             => internal = "ACCEPTED"
    <3>1. \/ ItemOverall(policy, TRUE, supplier, internal) # "ACCEPTED"
          \/ /\ policy.source \in {"INTERNAL_ONLY", "SUPPLIER_REFERENCE_INTERNAL_FINAL",
                                   "BOTH_ALL_MUST_PASS"} => internal = "ACCEPTED"
             /\ policy.source = "SUPPLIER_ONLY" /\ supplier # Absent => supplier = "ACCEPTED"
      BY OverallOfSources
    <3> QED
      BY <2>4, <3>1, OverallOfSources
  <2>9. item.mapped /\ item.sample # "MANUAL"
        /\ (supplier = Absent <=> item.supplier = << >>)
        /\ (internal = Absent <=> item.internal = << >>)
    BY <2>2, <2>3, Compared
  <2> HIDE DEF Verdict, RuleIsValid, EvaluateItem
  <2> QED
    BY <2>1, <2>2, <2>3, <2>5, <2>7, <2>8, <2>9 DEF AcceptedOnEvidence
<1> QED
  BY <1>1, ItemsAreItems, PTL

-----------------------------------------------------------------------------
(* The total of some samples is their sum, whichever is added first.           *)
LEMMA TotalIsTheSum ==
  ASSUME NEW S, IsFiniteSet(S), NEW f \in [S -> Int]
  PROVE  SumIs(Total(f), f, S)
<1>1. Total(f) = (CHOOSE it : AddsInTurn(it, f, S))[S]
  BY DEF Total, FoldFunction, FoldFunctionOnSet, MapThenFoldSet, AddsInTurn
<1> QED
  BY <1>1, SumInTurn

LEMMA OrderOfTotals ==
  ASSUME NEW S, IsFiniteSet(S), NEW f \in [S -> Int], NEW p \in [S -> S], IsInjective(p)
  PROVE  Total([k \in S |-> f[p[k]]]) = Total(f)
<1>1. PICK g \in [S -> Int] : g = [k \in S |-> f[p[k]]] /\ \A k \in S : g[k] = f[p[k]]
  <2> DEFINE g == [k \in S |-> f[p[k]]]
  <2>1. g \in [S -> Int] /\ \A k \in S : g[k] = f[p[k]]
    OBVIOUS
  <2> QED
    BY <2>1
<1>2. SumIs(Total(f), f, S) /\ SumIs(Total(g), g, S)
  BY TotalIsTheSum
<1>3. Total(g) = Total(f)
  BY <1>1, <1>2, OrderOfSums
<1> QED
  BY <1>1, <1>3

LEMMA TotalIsBounded ==
  ASSUME NEW S, IsFiniteSet(S), NEW f \in [S -> Int]
  PROVE  /\ Total(f) \in Int
         /\ \A low \in Int : (\A k \in S : low <= f[k]) => low * Cardinality(S) <= Total(f)
         /\ \A high \in Int : (\A k \in S : f[k] <= high) => Total(f) <= high * Cardinality(S)
<1>1. SumIs(Total(f), f, S)
  BY TotalIsTheSum
<1> QED
  BY <1>1, SumIsBounded

-----------------------------------------------------------------------------
(* quantize under ROUND_HALF_EVEN: a multiple of the rounding step, no other   *)
(* nearer, and the even one of two that are equally near.                      *)
LEMMA RoundedIsNearest ==
  ASSUME NEW num \in Int, NEW den \in Nat \ {0}
  PROVE  LET near == RoundedRatio(num, den)
             away(x) == Distance(den * x, num)
         IN  /\ near \in Int /\ near % Grain = 0
             /\ \A x \in {near - Grain, near + Grain} :
                  \/ away(near) < away(x)
                  \/ away(near) = away(x) /\ (near \div Grain) % 2 = 0
<1>1. PICK g \in Nat \ {0} : g = Grain
  BY SamplingAssumption
<1>2. PICK step \in Nat \ {0} : step = g * den
  OBVIOUS
<1>3. PICK q \in Int : q = num \div step
  OBVIOUS
<1>4. PICK r \in 0 .. step - 1 : r = num % step
  OBVIOUS
<1>5. num = q * step + r
  BY <1>3, <1>4
<1>6. PICK m \in Int : m = IF 2 * r < step \/ (2 * r = step /\ q % 2 = 0) THEN q ELSE q + 1
  OBVIOUS
<1>7. RoundedRatio(num, den) = g * m
  BY <1>1, <1>2, <1>3, <1>4, <1>6 DEF RoundedRatio
<1>8. (g * m) % g = 0 /\ (g * m) \div g = m /\ g * m \in Int
  OBVIOUS
<1>9. \A k \in Int : den * (g * k) = step * k
  BY <1>2
<1>10. g * m - g = g * (m - 1) /\ g * m + g = g * (m + 1)
  OBVIOUS
<1>11. step * q = q * step /\ step * (q + 1) = q * step + step
       /\ step * (q - 1) = q * step - step /\ step * (q + 2) = q * step + 2 * step
  OBVIOUS
<1>12. PICK base \in Int : base = q * step
  OBVIOUS
<1>13. CASE m = q
  <2>1. 2 * r < step \/ (2 * r = step /\ q % 2 = 0)
    BY <1>6, <1>13
  <2>2. Distance(step * m, num) = r
    BY <1>5, <1>11, <1>12, <1>13 DEF Distance
  <2>3. Distance(step * (m - 1), num) = r + step
    BY <1>5, <1>11, <1>12, <1>13 DEF Distance
  <2>4. Distance(step * (m + 1), num) = step - r
    BY <1>5, <1>11, <1>12, <1>13 DEF Distance
  <2>5. r < r + step /\ (r < step - r \/ (r = step - r /\ m % 2 = 0))
    BY <1>13, <2>1
  <2> QED
    BY <1>1, <1>7, <1>8, <1>9, <1>10, <2>2, <2>3, <2>4, <2>5
<1>14. CASE m # q
  <2>1. m = q + 1 /\ ~(2 * r < step) /\ (2 * r = step => q % 2 # 0)
    BY <1>6, <1>14
  <2>2. Distance(step * m, num) = step - r
    BY <1>5, <1>11, <1>12, <2>1 DEF Distance
  <2>3. Distance(step * (m - 1), num) = r
    <3>1. m - 1 = q
      BY <2>1
    <3> QED
      BY <1>5, <1>11, <1>12, <3>1 DEF Distance
  <2>4. Distance(step * (m + 1), num) = 2 * step - r
    <3>1. m + 1 = q + 2
      BY <2>1
    <3> QED
      BY <1>5, <1>11, <1>12, <3>1 DEF Distance
  <2>5. 2 * r = step => m % 2 = 0
    BY <2>1
  <2>6. step - r < 2 * step - r /\ (step - r < r \/ (step - r = r /\ m % 2 = 0))
    BY <2>1, <2>5
  <2>7. /\ Distance(den * (g * m), num) = step - r
        /\ Distance(den * (g * m - g), num) = r
        /\ Distance(den * (g * m + g), num) = 2 * step - r
    BY <1>9, <1>10, <2>2, <2>3, <2>4
  <2> QED
    BY <1>1, <1>7, <1>8, <2>6, <2>7
<1> QED
  BY <1>13, <1>14

(* Rounding does not cross a limit that lies on the grid.                     *)
LEMMA RoundedStaysInside ==
  ASSUME NEW num \in Int, NEW den \in Nat \ {0}, NEW limit \in Int, limit % Grain = 0
  PROVE  /\ RoundedRatio(num, den) \in Int
         /\ limit * den <= num => limit <= RoundedRatio(num, den)
         /\ num <= limit * den => RoundedRatio(num, den) <= limit
<1>1. PICK g \in Nat \ {0} : g = Grain
  BY SamplingAssumption
<1>2. PICK step \in Nat \ {0} : step = g * den
  OBVIOUS
<1>3. PICK q \in Int : q = num \div step
  OBVIOUS
<1>4. PICK r \in 0 .. step - 1 : r = num % step
  OBVIOUS
<1>5. num = q * step + r
  BY <1>3, <1>4
<1>6. PICK m \in Int : m = IF 2 * r < step \/ (2 * r = step /\ q % 2 = 0) THEN q ELSE q + 1
  OBVIOUS
<1>7. RoundedRatio(num, den) = g * m
  BY <1>1, <1>2, <1>3, <1>4, <1>6 DEF RoundedRatio
<1>8. PICK k \in Int : limit = g * k
  <2>1. limit = g * (limit \div g)
    BY <1>1
  <2>2. limit \div g \in Int
    OBVIOUS
  <2> QED
    BY <2>1, <2>2
<1>9. limit * den = k * step
  BY <1>2, <1>8
<1>10. ASSUME limit * den <= num
       PROVE  limit <= RoundedRatio(num, den)
  <2>1. k <= q
    <3> SUFFICES ASSUME q + 1 <= k PROVE FALSE
      OBVIOUS
    <3>1. (q + 1) * step <= k * step
      OBVIOUS
    <3>2. (q + 1) * step = q * step + step
      OBVIOUS
    <3> QED
      BY <1>5, <1>9, <1>10, <3>1, <3>2
  <2>2. k <= m
    BY <1>6, <2>1
  <2>3. g * k <= g * m
    BY <2>2
  <2> QED
    BY <1>7, <1>8, <2>3
<1>11. ASSUME num <= limit * den
       PROVE  RoundedRatio(num, den) <= limit
  <2>1. q <= k
    <3> SUFFICES ASSUME k + 1 <= q PROVE FALSE
      OBVIOUS
    <3>1. (k + 1) * step <= q * step
      OBVIOUS
    <3>2. (k + 1) * step = k * step + step
      OBVIOUS
    <3> QED
      BY <1>5, <1>9, <1>11, <3>1, <3>2
  <2>2. q = k => r = 0
    BY <1>5, <1>9, <1>11
  <2>3. m <= k
    BY <1>6, <2>1, <2>2
  <2>4. g * m <= g * k
    BY <2>3
  <2> QED
    BY <1>7, <1>8, <2>4
<1>12. g * m \in Int
  OBVIOUS
<1> QED
  BY <1>7, <1>10, <1>11, <1>12

(* The samples of an item as a function, its places and what it has.           *)
LEMMA SamplesAreValues ==
  ASSUME NEW values \in Samples
  PROVE  /\ values \in [DOMAIN values -> Int] /\ values \in Seq(Int)
         /\ IsFiniteSet(DOMAIN values) /\ Cardinality(DOMAIN values) = Len(values)
         /\ values # << >> => Len(values) \in Nat \ {0} /\ 1 \in DOMAIN values
<1>1. PICK n \in 0 .. MaxSamples : values \in [1 .. n -> Values]
  BY DEF Samples
<1>2. n \in Nat /\ values \in [1 .. n -> Int] /\ DOMAIN values = 1 .. n
  <2>1. n \in Nat /\ DOMAIN values = 1 .. n /\ values = [i \in 1 .. n |-> values[i]]
    BY <1>1, SamplingAssumption
  <2>2. \A i \in 1 .. n : values[i] \in Int
    BY <1>1, SamplingAssumption
  <2> QED
    BY <2>1, <2>2
<1>3. values \in Seq(Int) /\ Len(values) = n
  BY <1>2
<1>4. IsFiniteSet(1 .. n) /\ Cardinality(1 .. n) = n
  BY <1>2, FS_Interval
<1> QED
  BY <1>2, <1>3, <1>4

LEMMA ExtremesExist ==
  ASSUME NEW values \in Samples, values # << >>
  PROVE  /\ Least(values) \in Range(values) /\ \A w \in Range(values) : Least(values) <= w
         /\ Greatest(values) \in Range(values) /\ \A w \in Range(values) : w <= Greatest(values)
<1> DEFINE D == DOMAIN values
           extreme(s) == (\E k \in s : \A l \in s : values[k] <= values[l])
                         /\ (\E k \in s : \A l \in s : values[l] <= values[k])
           bad == {s \in SUBSET D : s # {} /\ ~extreme(s)}
<1>1. values \in [D -> Int] /\ IsFiniteSet(D) /\ D # {}
  BY SamplesAreValues
<1>2. bad = {}
  <2> SUFFICES ASSUME bad # {} PROVE FALSE
    OBVIOUS
  <2>1. bad \in SUBSET (SUBSET D)
    OBVIOUS
  <2>2. PICK s \in bad : \A y \in s : s \ {y} \notin bad
    <3> HIDE DEF bad, D
    <3> QED
      BY <1>1, <2>1, LeastSubset
  <2>3. PICK y \in s : TRUE
    BY <2>2
  <2>4. s \in SUBSET D /\ y \in D /\ ~extreme(s)
    BY <2>2
  <2>5. s \ {y} # {}
    <3> SUFFICES ASSUME s \ {y} = {} PROVE FALSE
      OBVIOUS
    <3>1. \A l \in s : l = y
      OBVIOUS
    <3>2. values[y] \in Int
      BY <1>1, <2>4
    <3> QED
      BY <2>4, <3>1, <3>2
  <2>6. extreme(s \ {y})
    BY <2>2, <2>4, <2>5
  <2>7. PICK k \in s \ {y} : \A l \in s \ {y} : values[k] <= values[l]
    BY <2>6
  <2>8. PICK j \in s \ {y} : \A l \in s \ {y} : values[l] <= values[j]
    BY <2>6
  <2>9. \A l \in s : values[l] \in Int
    BY <1>1, <2>4
  <2>10. \E i \in s : \A l \in s : values[i] <= values[l]
    <3>1. CASE values[k] <= values[y]
      BY <2>7, <2>9, <3>1
    <3>2. CASE ~(values[k] <= values[y])
      <4>1. \A l \in s : values[y] <= values[l]
        <5> SUFFICES ASSUME NEW l \in s PROVE values[y] <= values[l]
          OBVIOUS
        <5>1. values[l] \in Int /\ values[y] \in Int /\ values[k] \in Int
          BY <2>4, <2>9
        <5>2. CASE l = y
          BY <5>1, <5>2
        <5>3. CASE l # y
          <6>1. values[k] <= values[l]
            BY <2>7, <5>3
          <6> QED
            BY <3>2, <5>1, <6>1
        <5> QED
          BY <5>2, <5>3
      <4> QED
        BY <4>1
    <3> QED
      BY <3>1, <3>2
  <2>11. \E i \in s : \A l \in s : values[l] <= values[i]
    <3>1. CASE values[y] <= values[j]
      BY <2>8, <2>9, <3>1
    <3>2. CASE ~(values[y] <= values[j])
      <4>1. \A l \in s : values[l] <= values[y]
        <5> SUFFICES ASSUME NEW l \in s PROVE values[l] <= values[y]
          OBVIOUS
        <5>1. values[l] \in Int /\ values[y] \in Int /\ values[j] \in Int
          BY <2>4, <2>9
        <5>2. CASE l = y
          BY <5>1, <5>2
        <5>3. CASE l # y
          <6>1. values[l] <= values[j]
            BY <2>8, <5>3
          <6> QED
            BY <3>2, <5>1, <6>1
        <5> QED
          BY <5>2, <5>3
      <4> QED
        BY <4>1
    <3> QED
      BY <3>1, <3>2
  <2> QED
    BY <2>4, <2>10, <2>11
<1>3. extreme(D)
  BY <1>1, <1>2
<1>4. \E v \in Range(values) : \A w \in Range(values) : v <= w
  BY <1>3 DEF Range
<1>5. \E v \in Range(values) : \A w \in Range(values) : w <= v
  BY <1>3 DEF Range
<1> QED
  BY <1>4, <1>5 DEF Least, Greatest

-----------------------------------------------------------------------------
(* The samples are selected in any order.                                     *)
LEMMA OrderDoesNotMatter ==
  ASSUME NEW values \in Samples, NEW f \in [DOMAIN values -> DOMAIN values], IsInjective(f),
         NEW policy \in SamplePolicies, NEW rule
  PROVE  Aggregate([k \in DOMAIN values |-> values[f[k]]], policy, rule)
         = Aggregate(values, policy, rule)
<1> DEFINE D == DOMAIN values
           other == [k \in D |-> values[f[k]]]
<1>1. values \in [D -> Int] /\ IsFiniteSet(D) /\ values \in Seq(Int)
  BY SamplesAreValues
<1>2. f \in Injection(D, D)
  BY DEF Injection
<1>3. f \in Surjection(D, D)
  <2> HIDE DEF D
  <2> QED
    BY <1>1, <1>2, FS_Injection
<1>4. \A k \in D : \E j \in D : f[j] = k
  BY <1>3 DEF Surjection
<1>5. Range(other) = Range(values)
  BY <1>4 DEF Range
<1>6. Total(other) = Total(values)
  <2> HIDE DEF D
  <2> QED
    BY <1>1, OrderOfTotals
<1>7. PICK n \in Nat : n = Len(values) /\ D = 1 .. n
  BY <1>1
<1>8. other \in Seq(Int) /\ Len(other) = n
  BY <1>1, <1>7
<1>9. other = << >> <=> values = << >>
  BY <1>1, <1>7, <1>8
<1> HIDE DEF other, D
<1>10. Average(other) = Average(values) /\ Least(other) = Least(values)
       /\ Greatest(other) = Greatest(values)
  BY <1>5, <1>6, <1>7, <1>8 DEF Average, Least, Greatest
<1>11. Aggregate(other, policy, rule) = Aggregate(values, policy, rule)
  <2>1. Combine({EvaluateRule(rule, v) : v \in Range(other)})
        = Combine({EvaluateRule(rule, v) : v \in Range(values)})
    BY <1>5
  <2>2. EvaluateRule(rule, Average(other)) = EvaluateRule(rule, Average(values))
        /\ EvaluateRule(rule, Least(other)) = EvaluateRule(rule, Least(values))
        /\ EvaluateRule(rule, Greatest(other)) = EvaluateRule(rule, Greatest(values))
    BY <1>10
  <2> QED
    BY <1>9, <2>1, <2>2 DEF Aggregate, SamplePolicies
<1> QED
  BY <1>11 DEF other, D

(* What the samples of a source come to under ALL_SAMPLES_IN_SPEC.            *)
LEMMA AllSamples ==
  ASSUME NEW values, values # << >>, NEW rule, rule.op \in NumericOperators
  PROVE  Aggregate(values, "ALL_SAMPLES_IN_SPEC", rule)
         = IF \A v \in Range(values) : Conforms(rule, v) THEN "ACCEPTED" ELSE "REJECTED"
<1>1. Aggregate(values, "ALL_SAMPLES_IN_SPEC", rule)
      = Combine({EvaluateRule(rule, v) : v \in Range(values)})
  BY DEF Aggregate
<1>2. \A v : EvaluateRule(rule, v) = IF Conforms(rule, v) THEN "ACCEPTED" ELSE "REJECTED"
  BY DEF EvaluateRule
<1> HIDE DEF Conforms
<1> QED
  BY <1>1, <1>2 DEF Combine, Absent

(* The columns of a valid rule with a limit.                                  *)
LEMMA LimitsAreIntegers ==
  ASSUME NEW rule \in Rules, RuleIsValid(rule)
  PROVE  /\ rule.op \in {"GTE", "GT", "EQUAL", "BETWEEN_INCLUSIVE", "BETWEEN_EXCLUSIVE"}
              => rule.bounds.lower \in Int /\ "lower" \in DOMAIN rule.bounds
         /\ rule.op \in {"LTE", "LT", "BETWEEN_INCLUSIVE", "BETWEEN_EXCLUSIVE"}
              => rule.bounds.upper \in Int /\ "upper" \in DOMAIN rule.bounds
         /\ rule.op = "TARGET_PLUS_MINUS"
              => /\ rule.bounds.target \in Int /\ rule.bounds.tolerance \in Int
                 /\ "target" \in DOMAIN rule.bounds /\ "tolerance" \in DOMAIN rule.bounds
<1>1. DOMAIN rule.bounds = Columns(rule.op)
      /\ \A column \in DOMAIN rule.bounds : rule.bounds[column] \in Int
  BY SamplingAssumption DEF RuleIsValid
<1> QED
  BY <1>1 DEF Columns

LEMMA ExtremesStand ==
  ASSUME NEW values \in Samples, NEW rule \in Rules, RuleIsValid(rule), NEW policy,
         \/ policy = "MIN_IN_SPEC" /\ rule.op \in {"GTE", "GT"}
         \/ policy = "MAX_IN_SPEC" /\ rule.op \in {"LTE", "LT"}
  PROVE  Aggregate(values, policy, rule) = Aggregate(values, "ALL_SAMPLES_IN_SPEC", rule)
<1>1. CASE values = << >>
  BY <1>1 DEF Aggregate
<1>2. CASE values # << >>
  <2>1. rule.op \in NumericOperators
    BY DEF NumericOperators
  <2>2. Aggregate(values, "ALL_SAMPLES_IN_SPEC", rule)
        = IF \A v \in Range(values) : Conforms(rule, v) THEN "ACCEPTED" ELSE "REJECTED"
    BY <1>2, <2>1, AllSamples
  <2>3. \A v \in Range(values) : v \in Int
    BY SamplesAreValues DEF Range
  <2>4. CASE policy = "MIN_IN_SPEC" /\ rule.op \in {"GTE", "GT"}
    <3>1. PICK v \in Range(values) : v = Least(values) /\ \A w \in Range(values) : v <= w
      BY <1>2, ExtremesExist
    <3>2. Aggregate(values, policy, rule)
          = IF Conforms(rule, v) THEN "ACCEPTED" ELSE "REJECTED"
      BY <1>2, <2>1, <2>4, <3>1 DEF Aggregate, EvaluateRule
    <3>3. rule.bounds.lower \in Int
      BY <2>4, LimitsAreIntegers
    <3>4. PICK limit \in Int : limit = rule.bounds.lower
      BY <3>3
    <3>5. \A w : Conforms(rule, w) <=> IF rule.op = "GTE" THEN w >= limit ELSE w > limit
      BY <2>4, <3>4 DEF Conforms
    <3>6. Conforms(rule, v) <=> \A w \in Range(values) : Conforms(rule, w)
      BY <2>3, <3>1, <3>5
    <3> QED
      BY <2>2, <3>2, <3>6
  <2>5. CASE policy = "MAX_IN_SPEC" /\ rule.op \in {"LTE", "LT"}
    <3>1. PICK v \in Range(values) : v = Greatest(values) /\ \A w \in Range(values) : w <= v
      BY <1>2, ExtremesExist
    <3>2. Aggregate(values, policy, rule)
          = IF Conforms(rule, v) THEN "ACCEPTED" ELSE "REJECTED"
      BY <1>2, <2>1, <2>5, <3>1 DEF Aggregate, EvaluateRule
    <3>3. rule.bounds.upper \in Int
      BY <2>5, LimitsAreIntegers
    <3>4. PICK limit \in Int : limit = rule.bounds.upper
      BY <3>3
    <3>5. \A w : Conforms(rule, w) <=> IF rule.op = "LTE" THEN w <= limit ELSE w < limit
      BY <2>5, <3>4 DEF Conforms
    <3>6. Conforms(rule, v) <=> \A w \in Range(values) : Conforms(rule, w)
      BY <2>3, <3>1, <3>5
    <3> QED
      BY <2>2, <3>2, <3>6
  <2> QED
    BY <2>4, <2>5
<1> QED
  BY <1>1, <1>2

(* The average of samples that lie between limits on the grid does too.        *)
LEMMA AverageStaysInside ==
  ASSUME NEW values \in Samples, values # << >>, NEW limit \in Int, limit % Grain = 0
  PROVE  /\ Average(values) \in Int
         /\ (\A v \in Range(values) : limit <= v) => limit <= Average(values)
         /\ (\A v \in Range(values) : v <= limit) => Average(values) <= limit
<1>1. PICK n \in Nat \ {0} : n = Len(values) /\ n = Cardinality(DOMAIN values)
  BY SamplesAreValues
<1>2. PICK D : D = DOMAIN values /\ values \in [D -> Int] /\ IsFiniteSet(D) /\ Cardinality(D) = n
  BY <1>1, SamplesAreValues
<1>3. PICK total \in Int :
        /\ total = Total(values)
        /\ (\A k \in D : limit <= values[k]) => limit * n <= total
        /\ (\A k \in D : values[k] <= limit) => total <= limit * n
  BY <1>2, TotalIsBounded
<1>4. Average(values) = RoundedRatio(total, n)
  BY <1>1, <1>3 DEF Average
<1>5. \A k \in D : values[k] \in Range(values)
  BY <1>2 DEF Range
<1> QED
  BY <1>3, <1>4, <1>5, RoundedStaysInside

LEMMA AveragesConform ==
  ASSUME NEW values \in Samples, NEW rule \in Rules, RuleIsValid(rule),
         rule.op \notin {"GT", "LT", "BETWEEN_EXCLUSIVE"},
         \A column \in DOMAIN rule.bounds : rule.bounds[column] % Grain = 0,
         Aggregate(values, "ALL_SAMPLES_IN_SPEC", rule) = "ACCEPTED"
  PROVE  Aggregate(values, "AVERAGE_IN_SPEC", rule) = "ACCEPTED"
<1>1. values # << >>
  BY DEF Aggregate, Absent
<1>2. rule.op \in NumericOperators
  <2> SUFFICES ASSUME rule.op \notin NumericOperators PROVE FALSE
    OBVIOUS
  <2>1. \A v : EvaluateRule(rule, v) = "ON_HOLD"
    BY DEF EvaluateRule
  <2>2. PICK v \in Range(values) : TRUE
    BY <1>1, SamplesAreValues DEF Range
  <2>3. "ON_HOLD" \in {EvaluateRule(rule, w) : w \in Range(values)}
    BY <2>1, <2>2
  <2>4. Aggregate(values, "ALL_SAMPLES_IN_SPEC", rule)
        = Combine({EvaluateRule(rule, w) : w \in Range(values)})
    BY <1>1 DEF Aggregate
  <2>5. \A ds : "ON_HOLD" \in ds => Combine(ds) = "ON_HOLD"
    BY DEF Combine
  <2> QED
    BY <2>3, <2>4, <2>5
<1>3. \A v \in Range(values) : Conforms(rule, v)
  <2>1. Aggregate(values, "ALL_SAMPLES_IN_SPEC", rule)
        = IF \A v \in Range(values) : Conforms(rule, v) THEN "ACCEPTED" ELSE "REJECTED"
    BY <1>1, <1>2, AllSamples
  <2> QED
    BY <2>1
<1>4. Aggregate(values, "AVERAGE_IN_SPEC", rule)
      = IF Conforms(rule, Average(values)) THEN "ACCEPTED" ELSE "REJECTED"
  BY <1>1, <1>2 DEF Aggregate, EvaluateRule
<1>5. rule.op \in {"GTE", "LTE", "BETWEEN_INCLUSIVE", "TARGET_PLUS_MINUS", "EQUAL"}
  BY <1>2 DEF NumericOperators
<1>6. \A v \in Range(values) : v \in Int
  BY SamplesAreValues DEF Range
<1>7. PICK average : average = Average(values)
  OBVIOUS
<1>8. ASSUME NEW low \in Int, low % Grain = 0, \A v \in Range(values) : low <= v
      PROVE  average \in Int /\ low <= average
  BY <1>1, <1>7, <1>8, AverageStaysInside
<1>9. ASSUME NEW high \in Int, high % Grain = 0, \A v \in Range(values) : v <= high
      PROVE  average \in Int /\ average <= high
  BY <1>1, <1>7, <1>9, AverageStaysInside
<1>10. Conforms(rule, average)
  <2>1. CASE rule.op = "GTE"
    <3>1. rule.bounds.lower \in Int /\ rule.bounds.lower % Grain = 0
      BY <2>1, LimitsAreIntegers
    <3>2. \A v \in Range(values) : rule.bounds.lower <= v
      BY <1>3, <1>6, <2>1, <3>1 DEF Conforms
    <3> QED
      BY <1>8, <2>1, <3>1, <3>2 DEF Conforms
  <2>2. CASE rule.op = "LTE"
    <3>1. rule.bounds.upper \in Int /\ rule.bounds.upper % Grain = 0
      BY <2>2, LimitsAreIntegers
    <3>2. \A v \in Range(values) : v <= rule.bounds.upper
      BY <1>3, <1>6, <2>2, <3>1 DEF Conforms
    <3> QED
      BY <1>9, <2>2, <3>1, <3>2 DEF Conforms
  <2>3. CASE rule.op = "BETWEEN_INCLUSIVE"
    <3>1. /\ rule.bounds.lower \in Int /\ rule.bounds.lower % Grain = 0
          /\ rule.bounds.upper \in Int /\ rule.bounds.upper % Grain = 0
      BY <2>3, LimitsAreIntegers
    <3>2. \A v \in Range(values) : rule.bounds.lower <= v /\ v <= rule.bounds.upper
      BY <1>3, <1>6, <2>3, <3>1 DEF Conforms
    <3>3. rule.bounds.lower <= average /\ average <= rule.bounds.upper
      BY <1>8, <1>9, <3>1, <3>2
    <3> QED
      BY <2>3, <3>3 DEF Conforms
  <2>4. CASE rule.op = "TARGET_PLUS_MINUS"
    <3>1. PICK target \in Int : target = rule.bounds.target /\ target % Grain = 0
      BY <2>4, LimitsAreIntegers
    <3>2. PICK tolerance \in Int : tolerance = rule.bounds.tolerance /\ tolerance % Grain = 0
      BY <2>4, LimitsAreIntegers
    <3>3. \A v : Conforms(rule, v) <=> target - v <= tolerance /\ v - target <= tolerance
      BY <2>4, <3>1, <3>2 DEF Conforms
    <3>4. \A v \in Range(values) : target - tolerance <= v /\ v <= target + tolerance
      BY <1>3, <1>6, <3>3
    <3>5. (target - tolerance) % Grain = 0 /\ (target + tolerance) % Grain = 0
      <4>1. PICK g \in Nat \ {0} : g = Grain
        BY SamplingAssumption
      <4>2. PICK a \in Int : target = g * a
        <5>1. target = g * (target \div g) /\ target \div g \in Int
          BY <3>1, <4>1
        <5> QED
          BY <5>1
      <4>3. PICK b \in Int : tolerance = g * b
        <5>1. tolerance = g * (tolerance \div g) /\ tolerance \div g \in Int
          BY <3>2, <4>1
        <5> QED
          BY <5>1
      <4>4. target - tolerance = g * (a - b) /\ target + tolerance = g * (a + b)
        BY <4>2, <4>3
      <4>5. \A c \in Int : (g * c) % g = 0
        OBVIOUS
      <4> QED
        BY <4>1, <4>4, <4>5
    <3>6. average \in Int /\ target - tolerance <= average /\ average <= target + tolerance
      BY <1>8, <1>9, <3>4, <3>5
    <3> QED
      BY <3>3, <3>6
  <2>5. CASE rule.op = "EQUAL"
    <3>1. rule.bounds.lower \in Int /\ rule.bounds.lower % Grain = 0
      BY <2>5, LimitsAreIntegers
    <3>2. \A v \in Range(values) : rule.bounds.lower <= v /\ v <= rule.bounds.lower
      BY <1>3, <1>6, <2>5, <3>1 DEF Conforms
    <3>3. average \in Int /\ rule.bounds.lower <= average /\ average <= rule.bounds.lower
      BY <1>8, <1>9, <3>1, <3>2
    <3> QED
      BY <2>5, <3>1, <3>3 DEF Conforms
  <2> QED
    BY <1>5, <2>1, <2>2, <2>3, <2>4, <2>5
<1> QED
  BY <1>4, <1>7, <1>10

(* What several samples are aggregated to is what they say: the mean that      *)
(* _aggregate rounds is the nearest and the even one of two, the order in       *)
(* which _numeric_samples selects them does not matter, the least or greatest   *)
(* stands for all where one limit is given, and rounding rejects no mean of     *)
(* conforming samples; for every grain, every rule and every number of samples. *)
THEOREM AggregatesStand == ItemSpec => []AggregateStandsForSamples
<1>1. ItemInvariant => AggregateStandsForSamples
  <2> SUFFICES ASSUME ItemInvariant PROVE AggregateStandsForSamples
    OBVIOUS
  <2>1. item.internal \in Samples /\ item.rule \in Rules /\ item.sample \in SamplePolicies
    BY DEF ItemInvariant, Items
  <2>2. AverageIsNearestEven
    <3> SUFFICES ASSUME item.internal # << >> PROVE AverageIsNearestEven
      BY DEF AverageIsNearestEven
    <3>1. PICK n \in Nat \ {0} : n = Len(item.internal)
      BY <2>1, SamplesAreValues
    <3>2. PICK total \in Int : total = Total(item.internal)
      BY <2>1, SamplesAreValues, TotalIsBounded
    <3> QED
      BY <3>1, <3>2, RoundedIsNearest DEF AverageIsNearestEven, Average
  <2>3. OrderIsIrrelevant
    BY <2>1, OrderDoesNotMatter DEF OrderIsIrrelevant, Verdict
  <2>4. ExtremeStandsForAll
    BY <2>1, ExtremesStand DEF ExtremeStandsForAll, Verdict
  <2>5. ConformingSamplesAverageWell
    BY <2>1, AveragesConform DEF ConformingSamplesAverageWell, LimitsOnGrid
  <2> QED
    BY <2>2, <2>3, <2>4, <2>5 DEF AggregateStandsForSamples
<1> QED
  BY <1>1, ItemsAreItems, PTL

-----------------------------------------------------------------------------
(* The desks together                                                         *)
-----------------------------------------------------------------------------
(* A behaviour of the desks is one of each of the components.                 *)
THEOREM DesksAreTheirComponents ==
  DesksSpec => /\ RecordSpec /\ MasterSpec /\ AliasSpec /\ IngestSpec
               /\ CaseSpec /\ LeaseSpec /\ ItemSpec
<1>1. InitDesks => /\ InitRecord /\ InitMaster /\ InitAlias /\ InitIngest
                   /\ InitCase /\ InitLease /\ InitItem
  BY DEF InitDesks
<1>2. [NextDesks]_deskVars => [NextRecord]_recordVars
  BY DEF NextDesks, deskVars, recordVars
<1>3. [NextDesks]_deskVars => [NextMaster]_masterVars
  BY DEF NextDesks, deskVars, masterVars
<1>4. [NextDesks]_deskVars => [NextAlias]_aliasVars
  BY DEF NextDesks, deskVars, aliasVars
<1>5. [NextDesks]_deskVars => [NextIngest]_ingestVars
  BY DEF NextDesks, deskVars, ingestVars
<1>6. [NextDesks]_deskVars => [NextCase]_caseVars
  BY DEF NextDesks, deskVars, caseVars
<1>7. [NextDesks]_deskVars => [NextLease]_leaseVars
  BY DEF NextDesks, deskVars, leaseVars
<1>8. [NextDesks]_deskVars => [NextItem]_item
  BY DEF NextDesks, deskVars
<1> QED
  BY <1>1, <1>2, <1>3, <1>4, <1>5, <1>6, <1>7, <1>8, PTL
  DEF DesksSpec, RecordSpec, MasterSpec, AliasSpec, IngestSpec, CaseSpec, LeaseSpec, ItemSpec

(* What the desks keep has its type, whichever of them is at work.             *)
THEOREM RecordsTyped == DesksSpec => []RecordsTypeOK
<1>1. (/\ RecordTypeOK /\ MasterTypeOK /\ AliasTypeOK /\ IngestTypeOK
       /\ ItemTypeOK /\ LeaseTypeOK) => RecordsTypeOK
  BY DEF RecordsTypeOK
<1> QED
  BY <1>1, DesksAreTheirComponents, RecordTypes, MastersTyped, AliasesTyped, IngestTyped,
     ItemsTyped, LeaseTypes, PTL

(* Nobody overwrites what they have not seen, on whichever of the routes that   *)
(* compare If-Match (nonconformances, master data, aliases).                  *)
THEOREM NothingUnseenIsOverwritten == DesksSpec => ChangesWereRead
  BY DesksAreTheirComponents, ChangesWereSeen, MasterEditsWereRead, AliasEditsWereRead
  DEF ChangesWereRead
=============================================================================
