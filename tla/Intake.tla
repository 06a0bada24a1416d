------------------------------- MODULE Intake -------------------------------
(***************************************************************************)
(* POST /intakes: create_intake and reserve_idempotency of                   *)
(* hyc_api/services/p3.py over the unique constraints of PostgreSQL.         *)
(*                                                                         *)
(* A call is one arrival of a request: a client that does not hear back      *)
(* sends the request again, as another call, while the first may still be    *)
(* running.  A call is one READ COMMITTED transaction that looks for four    *)
(* rows in turn - the idempotency record, the LOT, the receipt and their     *)
(* allocation - and inserts the ones it does not see.  It sees committed     *)
(* rows and its own; an INSERT waits for an uncommitted one of the same key. *)
(*                                                                         *)
(* The FOR UPDATE lock on a completed record is left out: who holds it       *)
(* answers at once and waits for nothing.                                    *)
(***************************************************************************)
EXTENDS Naturals, FiniteSets

CONSTANTS
  Calls,         \* arrivals of requests, numbered in their order
  Keys,          \* Idempotency-Key header, with the principal it belongs to
  Requests,      \* bodies: a LOT number, an inbound number, and its date and supplier
  None           \* no row, no answer

Stages == <<"record", "lot", "receipt", "allocation">>
Slot(k, q, stage) ==   \* the key under which a call looks for the row of a stage
  CASE stage = "record"     -> <<stage, k>>
    [] stage = "lot"        -> <<stage, q.number>>
    [] stage = "receipt"    -> <<stage, q.inbound>>
    [] stage = "allocation" -> <<stage, q.inbound, q.number>>
Slots == {Slot(k, q, Stages[i]) : k \in Keys, q \in Requests, i \in 1..4}

Refusals == {"hash conflict", "pending", "inbound conflict", "server error", "crashed"}

ASSUME IntakeAssumption ==
  /\ \A q \in Requests : DOMAIN q = {"number", "inbound", "of"}
  /\ Calls \subseteq Nat /\ None \notin Calls

VARIABLES
  rows,      \* slot -> its row: the call that inserted it, and for good or not
  call,      \* call -> where it is, between its lookup and its INSERT or not, and its answer
  audited    \* calls whose P3_INTAKE_CREATED entry is committed

vars == <<rows, call, audited>>

Ids == [lot : Calls, receipt : Calls, allocation : Calls]   \* a row's id, named by who minted it
NoIds == [lot |-> None, receipt |-> None, allocation |-> None]
Row == [by : Calls, key : Keys, request : Requests, committed : BOOLEAN,
        ids : Ids \cup {NoIds}]   \* the response a record stores
ASSUME IntakeRowAssumption == None \notin Row

NotSent == [stage |-> 0]
Sent == [key : Keys, request : Requests, stage : 1..5, missed : BOOLEAN,
         answer : Refusals \cup {"none", "ok"}, ids : Ids \cup {NoIds}]

TypeOK ==
  /\ rows \in [Slots -> Row \cup {None}]
  /\ call \in [Calls -> Sent \cup {NotSent}]
  /\ audited \subseteq Calls

-----------------------------------------------------------------------------
Running(c) == call[c].stage > 0 /\ call[c].answer = "none"
Succeeded(c) == call[c].stage > 0 /\ call[c].answer = "ok"
SlotOf(c, stage) == Slot(call[c].key, call[c].request, stage)
OtherPath(c) ==                                      \* mutant
  Stages[IF c % 2 = 0 /\ call[c].stage \in {2, 3} THEN 5 - call[c].stage ELSE call[c].stage]
StageOf(c) == Stages[call[c].stage]
Here(c) == SlotOf(c, StageOf(c))
At(c, stage) == Running(c) /\ call[c].stage <= 4 /\ StageOf(c) = stage

Visible(c, slot) == rows[slot] # None /\ (rows[slot].committed \/ rows[slot].by = c)
Pending(slot) == rows[slot] # None /\ ~rows[slot].committed

Mine(c) == {slot \in Slots : rows[slot] # None /\ rows[slot].by = c /\ ~rows[slot].committed}
Residue(c) == rows                                   \* mutant
RolledBack(c) == [slot \in Slots |-> IF slot \in Mine(c) THEN None ELSE rows[slot]]

IdsOf(k, q) ==
  [lot        |-> rows[Slot(k, q, "lot")].by,
   receipt    |-> rows[Slot(k, q, "receipt")].by,
   allocation |-> rows[Slot(k, q, "allocation")].by]

-----------------------------------------------------------------------------
Init ==
  /\ rows = [slot \in Slots |-> None]
  /\ call = [c \in Calls |-> NotSent]
  /\ audited = {}

Send(c, k, q) ==
  /\ call[c] = NotSent /\ \A d \in Calls : d < c => call[d] # NotSent
  /\ call' = [call EXCEPT ![c] =
       [key |-> k, request |-> q, stage |-> 1, missed |-> FALSE, answer |-> "none",
        ids |-> NoIds]]
  /\ UNCHANGED <<rows, audited>>

(* Without a commit the session is closed: the transaction is rolled back.  *)
Close(c, answer, ids) ==
  /\ rows' = RolledBack(c)
  /\ call' = [call EXCEPT ![c].answer = answer, ![c].ids = ids]
  /\ UNCHANGED audited
Refuse(c, why) == Close(c, why, NoIds)

Proceed(c) ==
  /\ call' = [call EXCEPT ![c].stage = @ + 1, ![c].missed = FALSE]
  /\ UNCHANGED <<rows, audited>>

(* A completed record answers for the request it was made for with the      *)
(* response it stored.                                                      *)
AnyRequest(c, record) == TRUE                        \* mutant
SameRequest(c, record) == record.request = call[c].request

LookupRecord(c) ==
  /\ At(c, "record") /\ ~call[c].missed
  /\ LET record == rows[Here(c)] IN
     IF ~Visible(c, Here(c))
       THEN /\ call' = [call EXCEPT ![c].missed = TRUE]
            /\ UNCHANGED <<rows, audited>>
     ELSE IF ~SameRequest(c, record) THEN Refuse(c, "hash conflict")
     ELSE Close(c, "ok", record.ids)

(* The other lookups; a receipt has to be of the same date and supplier.    *)
AnyReceipt(c) == TRUE                                \* mutant
Consistent(c) ==
  At(c, "receipt") => rows[Here(c)].request.of = call[c].request.of

Lookup(c) ==
  /\ Running(c) /\ call[c].stage \in 2..4 /\ ~call[c].missed
  /\ IF ~Visible(c, Here(c))
       THEN /\ call' = [call EXCEPT ![c].missed = TRUE]
            /\ UNCHANGED <<rows, audited>>
     ELSE IF Consistent(c) THEN Proceed(c)
     ELSE Refuse(c, "inbound conflict")

(* INSERT of a row that was not seen.  One committed meanwhile breaks the   *)
(* unique constraint: only that of the record is expected.                  *)
Violated(c) == rows[Here(c)] # None /\ rows[Here(c)].committed

Insert(c) ==
  /\ Running(c) /\ call[c].missed
  /\ ~Pending(Here(c)) /\ ~Violated(c)
  /\ rows' = [rows EXCEPT ![Here(c)] =
       [by |-> c, key |-> call[c].key, request |-> call[c].request, committed |-> FALSE,
        ids |-> NoIds]]
  /\ call' = [call EXCEPT ![c].stage = @ + 1, ![c].missed = FALSE]
  /\ UNCHANGED audited

InsertRefused(c) ==
  /\ Running(c) /\ call[c].missed
  /\ ~Pending(Here(c)) /\ Violated(c)
  /\ Refuse(c, IF ~At(c, "record") THEN "server error"
               ELSE IF SameRequest(c, rows[Here(c)]) THEN "pending" ELSE "hash conflict")

(* The audit entry, complete_idempotency and the commit of it all.          *)
Commit(c) ==
  /\ Running(c) /\ call[c].stage = 5
  /\ LET ids == IdsOf(call[c].key, call[c].request) IN
     /\ rows' = [slot \in Slots |->
          IF slot \notin Mine(c) THEN rows[slot]
          ELSE [rows[slot] EXCEPT !.committed = TRUE,
                                  !.ids = IF slot = SlotOf(c, "record") THEN ids ELSE NoIds]]
     /\ call' = [call EXCEPT ![c].answer = "ok", ![c].ids = ids]
  /\ audited' = audited \cup {c}

(* The process or the connection dies before the commit.  After it, the     *)
(* client may miss the answer: it sends the request again, as another call. *)
Crash(c) == Running(c) /\ Refuse(c, "crashed")

-----------------------------------------------------------------------------
Step(c) == LookupRecord(c) \/ Lookup(c) \/ Insert(c) \/ InsertRefused(c) \/ Commit(c)

Next == \E c \in Calls :
  \/ \E k \in Keys, q \in Requests : Send(c, k, q)
  \/ LookupRecord(c) \/ Lookup(c) \/ Insert(c) \/ InsertRefused(c) \/ Commit(c)
  \/ Crash(c)

Spec == Init /\ [][Next]_vars

(* The server works on every call it took, and the database serves every    *)
(* statement that waits for no one.                                         *)
FairSpec == Spec /\ \A c \in Calls : WF_vars(Step(c))

-----------------------------------------------------------------------------
(* The intakes of one key: whatever was retried, lost or raced, the request *)
(* took effect once, and every client that was told so was told the same    *)
(* for the same request (reserve_idempotency).                              *)
OncePerKey ==
  /\ \A c, d \in audited : call[c].key = call[d].key => c = d
  /\ \A c, d \in Calls :
       Succeeded(c) /\ Succeeded(d) /\ call[c].key = call[d].key
         => call[c].ids = call[d].ids /\ call[c].request = call[d].request

(* What a client was told is committed and stays: the rows its answer names *)
(* are those of its LOT number and of its inbound number, of the date and   *)
(* supplier it stated.                                                      *)
AnswersHold ==
  \A c \in Calls : Succeeded(c) =>
    LET q == call[c].request
        made(stage, id) == LET row == rows[Slot(call[c].key, q, stage)] IN
                           row # None /\ row.committed /\ row.by = id
    IN  /\ made("lot", call[c].ids.lot)
        /\ made("receipt", call[c].ids.receipt)
        /\ made("allocation", call[c].ids.allocation)
        /\ rows[Slot(call[c].key, q, "receipt")].request.of = q.of

(* A call that did not commit leaves nothing behind, and one that did left  *)
(* its record.                                                              *)
NothingHalfDone ==
  \A slot \in Slots : rows[slot] # None =>
    LET c == rows[slot].by IN
    IF rows[slot].committed
    THEN c \in audited /\ rows[SlotOf(c, "record")].by = c /\ rows[SlotOf(c, "record")].committed
    ELSE Running(c)

(* Sending a request again is sending it once: it has one effect, which its *)
(* answers tell, whole or not at all (create_intake, reserve_idempotency).  *)
Idempotent == OncePerKey /\ AnswersHold /\ NothingHalfDone

(* No two calls wait for each other's rows: when the calls cease to arrive, *)
(* the last of them comes to an end.                                        *)
CallsSettle == <>[](\A c \in Calls : ~Running(c))

(* Intakes of the same LOT or the same inbound number at the same time both *)
(* find it: none fails for the other's.                                     *)
ConcurrentIntakesMeet ==
  \A c \in Calls : call[c].stage > 0 => call[c].answer # "server error"
=============================================================================
