------------------------------- MODULE Leases -------------------------------
(***************************************************************************)
(* The row of an idempotent request that workers share under a lease:        *)
(* IdempotencyRepository.reserve of hyc_data/repositories.py, statement by    *)
(* statement.  Its SELECT takes no lock, its UPDATE writes the columns that   *)
(* changed since, whatever the row has become, and waits for a transaction    *)
(* that wrote the row before.  A worker keeps the copy it was given, and      *)
(* finishes from that copy by complete_idempotency or mark_retryable of        *)
(* hyc_domain/idempotency.py.                                                *)
(***************************************************************************)
EXTENDS NoValue, Naturals

CONSTANTS
  Workers,      \* lease owners; every one names itself
  Hashes,       \* hashes of requests
  Results,      \* answers
  LeaseFor,     \* how long a lease lasts
  MaxMoment     \* bound of the model: the time

ASSUME LeaseAssumption ==
  LeaseFor \in Nat \ {0} /\ MaxMoment \in Nat /\ None \notin Workers \cup Nat \cup Results

VARIABLES
  record,   \* the row of the key as committed, or None
  draft,    \* the row as a transaction wrote it and has not committed, or None
  call,     \* worker -> its call and the copy it holds, or None
  moment    \* the time

leaseVars == <<record, draft, call, moment>>

LeaseRecords ==
  [hash : Hashes, state : {"PENDING", "COMPLETED", "FAILED_RETRYABLE"},
   until : 0 .. MaxMoment + LeaseFor \cup {None}, owner : Workers \cup {None},
   result : Results \cup {None}]
LeaseDrafts == [by : Workers, row : LeaseRecords]
LeaseCalls ==
  [at : {"inserting", "expired", "flushed", "working"}, hash : Hashes, now : 0 .. MaxMoment,
   read : LeaseRecords \cup {None}]

ASSUME LeaseRowAssumption ==
  None \notin LeaseRecords /\ None \notin LeaseDrafts /\ None \notin LeaseCalls

LeaseTypeOK ==
  /\ record \in LeaseRecords \cup {None}
  /\ draft \in LeaseDrafts \cup {None}
  /\ call \in [Workers -> LeaseCalls \cup {None}]
  /\ moment \in 0 .. MaxMoment

InitLease == record = None /\ draft = None /\ call = [w \in Workers |-> None] /\ moment = 0

-----------------------------------------------------------------------------
CallIs(w, stage) == call[w] # None /\ call[w].at = stage
Now(w, stage, hash, read) ==
  call' = [call EXCEPT ![w] = [at |-> stage, hash |-> hash, now |-> moment, read |-> read]]
Moves(w, stage, read) ==
  call' = [call EXCEPT ![w] = [@ EXCEPT !.at = stage, !.read = read]]
Leaves(w) == call' = [call EXCEPT ![w] = None]

Running(r) == r.state = "PENDING" /\ r.until # None /\ r.until > moment
Another(r, w) == r.owner # None /\ r.owner # w

PendingRecord(w, hash, now) ==
  [hash |-> hash, state |-> "PENDING", until |-> now + LeaseFor, owner |-> w, result |-> None]
Doubled(r, w, now) ==                                     \* mutant
  [r EXCEPT !.state = "PENDING", !.until = now + 2 * LeaseFor, !.owner = w]
Renewed(r, w, now) ==
  [r EXCEPT !.state = "PENDING", !.until = now + LeaseFor, !.owner = w]

(* What an UPDATE leaves: the columns in which the changed copy differs from   *)
(* the one that was read, over the row as it is by then.                      *)
Column(old, new, there) == IF new # old THEN new ELSE there
WholeRow(read, new) == new                                \* mutant
Flushed(read, new) ==
  [hash |-> record.hash,
   state |-> Column(read.state, new.state, record.state),
   until |-> Column(read.until, new.until, record.until),
   owner |-> Column(read.owner, new.owner, record.owner),
   result |-> Column(read.result, new.result, record.result)]

-----------------------------------------------------------------------------
(* The SELECT, and what it decides.  Another hash, or a lease that another     *)
(* worker runs, is refused, and an answer is returned: nothing changes.       *)
FindNothing(w, hash) ==
  /\ call[w] = None /\ record = None
  /\ Now(w, "inserting", hash, None)
  /\ UNCHANGED <<record, draft, moment>>
Rejoin(w, hash) ==
  /\ call[w] = None /\ record # None
  /\ record.hash = hash /\ Running(record) /\ ~Another(record, w)
  /\ Now(w, "working", hash, record)
  /\ UNCHANGED <<record, draft, moment>>
FindExpired(w, hash) ==
  /\ call[w] = None /\ record # None
  /\ record.hash = hash /\ record.state # "COMPLETED" /\ ~Running(record)
  /\ Now(w, "expired", hash, record)
  /\ UNCHANGED <<record, draft, moment>>

(* The UPDATE of a takeover: decided on the copy, applied to the row.          *)
TakeOver(w) ==
  /\ CallIs(w, "expired") /\ draft = None
  /\ LET read == call[w].read
         new == Renewed(read, w, call[w].now)
     IN  /\ draft' = [by |-> w, row |-> Flushed(read, new)]
         /\ Moves(w, "flushed", new)
  /\ UNCHANGED <<record, moment>>

(* The INSERT: it waits for a row that is not committed, and where there is    *)
(* one its savepoint is rolled back and the row read again.  The copy of that  *)
(* row is returned whoever owns it.                                          *)
InsertRow(w) ==
  /\ CallIs(w, "inserting") /\ draft = None /\ record = None
  /\ LET new == PendingRecord(w, call[w].hash, call[w].now)
     IN  draft' = [by |-> w, row |-> new] /\ Moves(w, "flushed", new)
  /\ UNCHANGED <<record, moment>>
LoseUnchecked(w) ==                                       \* mutant
  /\ CallIs(w, "inserting") /\ draft = None /\ record # None
  /\ IF record.state # "COMPLETED" THEN Moves(w, "working", record) ELSE Leaves(w)
  /\ UNCHANGED <<record, draft, moment>>
LoseRace(w) ==
  /\ CallIs(w, "inserting") /\ draft = None /\ record # None
  /\ IF record.hash = call[w].hash /\ record.state # "COMPLETED"
     THEN Moves(w, "working", record) ELSE Leaves(w)
  /\ UNCHANGED <<record, draft, moment>>

CommitLease(w) ==
  /\ CallIs(w, "flushed")
  /\ record' = draft.row /\ draft' = None
  /\ Moves(w, "working", call[w].read)
  /\ UNCHANGED moment
(* A transaction is rolled back, or a worker gives up or dies.                *)
AbortLease(w) ==
  /\ call[w] # None /\ Leaves(w)
  /\ draft' = IF CallIs(w, "flushed") THEN None ELSE draft
  /\ UNCHANGED <<record, moment>>

(* complete_idempotency and mark_retryable change the worker's copy, whatever  *)
(* its lease and the row have become; a worker writes the changed copy back.  *)
Completed(read, result) ==
  [read EXCEPT !.state = "COMPLETED", !.until = None, !.owner = None, !.result = result]
MarkedRetryable(read) == [read EXCEPT !.state = "FAILED_RETRYABLE"]

CompleteRow(w, result) ==
  /\ CallIs(w, "working") /\ draft = None /\ call[w].read.state = "PENDING"
  /\ record' = Flushed(call[w].read, Completed(call[w].read, result))
  /\ Leaves(w) /\ UNCHANGED <<draft, moment>>
FailRow(w) ==
  /\ CallIs(w, "working") /\ draft = None /\ call[w].read.state # "COMPLETED"
  /\ record' = Flushed(call[w].read, MarkedRetryable(call[w].read))
  /\ Leaves(w) /\ UNCHANGED <<draft, moment>>

TickLease ==
  /\ moment < MaxMoment /\ moment' = moment + 1           \* bound of the model
  /\ UNCHANGED <<record, draft, call>>

NextLease ==
  \/ \E w \in Workers :
       \/ \E hash \in Hashes : FindNothing(w, hash) \/ Rejoin(w, hash) \/ FindExpired(w, hash)
       \/ TakeOver(w) \/ InsertRow(w) \/ LoseRace(w) \/ CommitLease(w) \/ AbortLease(w)
       \/ \E result \in Results : CompleteRow(w, result)
       \/ FailRow(w)
  \/ TickLease

LeaseSpec == InitLease /\ [][NextLease]_leaseVars

-----------------------------------------------------------------------------
(* All workers that were told to go ahead under a key have the same request,   *)
(* whichever of several first arrivals wins the INSERT, loses it or is rolled  *)
(* back, and however often the lease changes hands (reserve).                 *)
GoesAhead(w) == CallIs(w, "flushed") \/ CallIs(w, "working")
OneRequest ==
  \A v, w \in Workers : GoesAhead(v) /\ GoesAhead(w) => call[v].hash = call[w].hash

(* A key keeps its request and, once it has one, an answer.  And a takeover     *)
(* that was decided while the lease had run out and the request was pending    *)
(* spares the answer its first worker committed in the meantime, since the     *)
(* UPDATE leaves alone the columns it does not change (reserve).              *)
KeyStays ==
  record # None =>
    /\ record'.hash = record.hash
    /\ record.result # None => record'.result # None
TakeoverSparesAnswer ==
  draft = None /\ draft' # None /\ record # None =>
    (record.state = "COMPLETED" /\ call[draft'.by].read.state = "PENDING" =>
       draft'.row.state = "COMPLETED" /\ draft'.row.result = record.result)
AnswersSurvive == [][KeyStays /\ TakeoverSparesAnswer]_leaseVars

(* What the code does not keep, although it refuses "idempotency lease is owned *)
(* by another worker": that two workers never go ahead under a running lease    *)
(* each.  Neither the UPDATE nor the copy returned after a lost INSERT looks    *)
(* at the owner.                                                              *)
LeaseIsOneWorkers ==
  \A v, w \in Workers :
    v # w /\ CallIs(v, "working") /\ CallIs(w, "working") =>
      ~(Running(call[v].read) /\ Running(call[w].read))
=============================================================================
