---------------------------- MODULE IntakeProofs ----------------------------
(***************************************************************************)
(* Proofs about Intake: a key takes effect once, what a client was told      *)
(* holds, and nothing is left half done.  The argument: a row is by a call   *)
(* that is past its stage and runs, or it is committed and its call audited; *)
(* a running call sees the rows of every stage it is past, and the record    *)
(* among them is its own; a call that succeeded has its answer in a          *)
(* committed record, whose rows are committed and hence stay.                *)
(***************************************************************************)
EXTENDS Intake, TLAPS

Origin(slot) ==
  LET row == rows[slot]  c == row.by IN
  /\ call[c] # NotSent /\ row.key = call[c].key /\ row.request = call[c].request
  /\ \E i \in 1..4 : /\ slot = SlotOf(c, Stages[i])
                     /\ ~row.committed => Running(c) /\ i < call[c].stage
  /\ row.committed => c \in audited
Origins == \A slot \in Slots : rows[slot] # None => Origin(slot)

Passed(c, i) ==
  LET slot == SlotOf(c, Stages[i]) IN
  /\ Visible(c, slot)
  /\ i = 1 => rows[slot].by = c
  /\ i = 3 => rows[slot].request.of = call[c].request.of
Passages ==
  \A c \in Calls : Running(c) =>
    /\ call[c].missed => call[c].stage \in 1..4
    /\ \A i \in 1..4 : i < call[c].stage => Passed(c, i)

Made(slot, id) == rows[slot] # None /\ rows[slot].committed /\ rows[slot].by = id
Holds(k, q, ids) ==
  /\ Made(Slot(k, q, "lot"), ids.lot)
  /\ Made(Slot(k, q, "receipt"), ids.receipt)
  /\ Made(Slot(k, q, "allocation"), ids.allocation)
  /\ rows[Slot(k, q, "receipt")].request.of = q.of
Answered(c) ==
  LET slot == SlotOf(c, "record") IN
  /\ rows[slot] # None /\ rows[slot].committed
  /\ rows[slot].request = call[c].request /\ rows[slot].ids = call[c].ids
  /\ Holds(call[c].key, call[c].request, call[c].ids)
Answers == \A c \in Calls : Succeeded(c) => Answered(c)
Audits == \A c \in audited : Succeeded(c) /\ rows[SlotOf(c, "record")].by = c

IntakeInvariant == TypeOK /\ Origins /\ Passages /\ Answers /\ Audits

-----------------------------------------------------------------------------
LEMMA StageNames ==
  /\ Stages[1] = "record" /\ Stages[2] = "lot"
  /\ Stages[3] = "receipt" /\ Stages[4] = "allocation"
BY DEF Stages

LEMMA SlotIsSlot ==
  ASSUME NEW k \in Keys, NEW q \in Requests
  PROVE  /\ \A i \in 1..4 : Slot(k, q, Stages[i]) \in Slots
         /\ Slot(k, q, "record") \in Slots /\ Slot(k, q, "lot") \in Slots
         /\ Slot(k, q, "receipt") \in Slots /\ Slot(k, q, "allocation") \in Slots
<1>1. \A i \in 1..4 : Slot(k, q, Stages[i]) \in Slots
  BY DEF Slots
<1> QED
  BY <1>1, StageNames

(* The slots of two stages differ, and that of a record names its key.        *)
LEMMA SlotsDiffer ==
  ASSUME NEW k, NEW q, NEW l, NEW p, NEW i \in 1..4, NEW j \in 1..4,
         Slot(k, q, Stages[i]) = Slot(l, p, Stages[j])
  PROVE  i = j /\ (i = 1 => k = l)
<1>1. ASSUME NEW m, NEW r, NEW n \in 1..4 PROVE Slot(m, r, Stages[n])[1] = Stages[n]
  BY StageNames DEF Slot
<1>2. i = j
  BY <1>1, StageNames
<1>3. i = 1 => k = l
  BY <1>2, StageNames DEF Slot
<1> QED
  BY <1>2, <1>3

(* Slots other than the record's do not depend on the key.                    *)
LEMMA SharedSlots ==
  ASSUME NEW k, NEW l, NEW q
  PROVE  /\ Slot(k, q, "lot") = Slot(l, q, "lot")
         /\ Slot(k, q, "receipt") = Slot(l, q, "receipt")
         /\ Slot(k, q, "allocation") = Slot(l, q, "allocation")
BY DEF Slot

LEMMA SentFields ==
  ASSUME NEW s \in Sent
  PROVE  /\ s # NotSent /\ s.key \in Keys /\ s.request \in Requests /\ s.stage \in 1..5
         /\ s.answer \in Refusals \cup {"none", "ok"}
BY DEF Sent, NotSent

LEMMA RowFields ==
  ASSUME NEW row \in Row
  PROVE  /\ row # None /\ row.by \in Calls /\ row.key \in Keys /\ row.request \in Requests
         /\ row.committed \in BOOLEAN /\ row.ids \in Ids \cup {NoIds}
BY IntakeRowAssumption DEF Row, IntakeRowAssumption

LEMMA CallIsSent ==
  ASSUME TypeOK, NEW c \in Calls, call[c] # NotSent
  PROVE  /\ call[c] \in Sent /\ call[c].key \in Keys /\ call[c].request \in Requests
         /\ call[c].stage \in 1..5
         /\ call[c].answer \in Refusals \cup {"none", "ok"}
BY SentFields DEF TypeOK

LEMMA CallIsKnown ==
  ASSUME TypeOK, NEW c \in Calls, Running(c) \/ Succeeded(c)
  PROVE  call[c] # NotSent
BY DEF Running, Succeeded, NotSent

LEMMA IntakeBegins == Init => IntakeInvariant
BY DEF Init, IntakeInvariant, TypeOK, Origins, Passages, Answers, Audits, Running, Succeeded,
       NotSent

-----------------------------------------------------------------------------
(* A step of one call keeps what is committed and what is by the others: what  *)
(* the others have passed, answered and inserted stands.                      *)
Keeps(c) ==
  /\ \A slot \in Slots :
       rows[slot] # None /\ (rows[slot].committed \/ rows[slot].by # c) => rows'[slot] = rows[slot]
  /\ \A d \in Calls \ {c} : call'[d] = call[d]
  /\ audited \subseteq audited' /\ audited' \subseteq audited \cup {c}

LEMMA OthersAnswers ==
  ASSUME IntakeInvariant, NEW c \in Calls, Keeps(c), NEW d \in Calls \ {c}, Succeeded(d)
  PROVE  Answered(d)'
<1>1. TypeOK /\ Answered(d) /\ call'[d] = call[d]
  BY DEF IntakeInvariant, Answers, Keeps
<1>2. call[d].key \in Keys /\ call[d].request \in Requests
  BY <1>1, CallIsKnown, CallIsSent
<1>3. PICK k \in Keys, q \in Requests : k = call[d].key /\ q = call[d].request
  BY <1>2
<1>4. /\ Slot(k, q, "record") \in Slots /\ Slot(k, q, "lot") \in Slots
      /\ Slot(k, q, "receipt") \in Slots /\ Slot(k, q, "allocation") \in Slots
  BY SlotIsSlot
<1>5. \A slot \in Slots : rows[slot] # None /\ rows[slot].committed => rows'[slot] = rows[slot]
  BY DEF Keeps
<1>6. PICK ids : ids = call[d].ids
  OBVIOUS
<1>7. Holds(k, q, ids)
  BY <1>1, <1>3, <1>6 DEF Answered
<1>8. Holds(k, q, ids)'
  BY <1>4, <1>5, <1>7 DEF Holds, Made
<1>9. /\ rows[Slot(k, q, "record")] # None /\ rows[Slot(k, q, "record")].committed
      /\ rows[Slot(k, q, "record")].request = q /\ rows[Slot(k, q, "record")].ids = ids
  BY <1>1, <1>3, <1>6 DEF Answered, SlotOf
<1>10. rows'[Slot(k, q, "record")] = rows[Slot(k, q, "record")]
  BY <1>4, <1>5, <1>9
<1> QED
  BY <1>1, <1>3, <1>6, <1>8, <1>9, <1>10 DEF Answered, SlotOf

LEMMA OthersPassages ==
  ASSUME IntakeInvariant, NEW c \in Calls, Keeps(c), NEW d \in Calls \ {c}, Running(d),
         NEW i \in 1..4, i < call[d].stage
  PROVE  Passed(d, i)'
<1>1. TypeOK /\ Passed(d, i) /\ call'[d] = call[d]
  BY DEF IntakeInvariant, Passages, Keeps
<1>2. PICK k \in Keys, q \in Requests : k = call[d].key /\ q = call[d].request
  BY <1>1, CallIsKnown, CallIsSent
<1>3. PICK slot \in Slots : slot = Slot(k, q, Stages[i])
  BY SlotIsSlot
<1>4. Visible(d, slot) /\ (i = 1 => rows[slot].by = d) /\ (i = 3 => rows[slot].request.of = q.of)
  BY <1>1, <1>2, <1>3 DEF Passed, SlotOf
<1>5. rows'[slot] = rows[slot]
  BY <1>4 DEF Visible, Keeps
<1> QED
  BY <1>1, <1>2, <1>3, <1>4, <1>5 DEF Passed, SlotOf, Visible

LEMMA OthersOrigins ==
  ASSUME IntakeInvariant, NEW c \in Calls, Keeps(c), NEW slot \in Slots,
         rows[slot] # None, rows[slot].by # c
  PROVE  rows'[slot] = rows[slot] /\ Origin(slot)'
<1>1. TypeOK /\ Origin(slot) /\ rows'[slot] = rows[slot]
  BY DEF IntakeInvariant, Origins, Keeps
<1>2. rows[slot].by \in Calls \ {c}
  BY <1>1, RowFields DEF TypeOK
<1>3. PICK d \in Calls \ {c} : d = rows[slot].by
  BY <1>2
<1>4. call'[d] = call[d] /\ audited \subseteq audited'
  BY DEF Keeps
<1> QED
  BY <1>1, <1>3, <1>4 DEF Origin, SlotOf, Running

(* Who runs, or was not sent yet, has committed nothing.                      *)
LEMMA CommitsNothing ==
  ASSUME IntakeInvariant, NEW c \in Calls, ~Succeeded(c), NEW slot \in Slots,
         rows[slot] # None, rows[slot].by = c
  PROVE  ~rows[slot].committed
<1>1. Origin(slot)
  BY DEF IntakeInvariant, Origins
<1>2. c \notin audited
  BY DEF IntakeInvariant, Audits
<1> QED
  BY <1>1, <1>2 DEF Origin

(* So that a step keeps the invariant if it does for the call that takes it.  *)
LEMMA StepOfOne ==
  ASSUME IntakeInvariant, NEW c \in Calls, Keeps(c), TypeOK', ~Succeeded(c),
         \A slot \in Slots :
           rows'[slot] # None /\ (rows[slot] = None \/ rows[slot].by = c) => Origin(slot)',
         Running(c)' => /\ call'[c].missed => call'[c].stage \in 1..4
                        /\ \A i \in 1..4 : i < call'[c].stage => Passed(c, i)',
         Succeeded(c)' => Answered(c)',
         c \in audited' => Succeeded(c)' /\ rows'[SlotOf(c, "record")'].by = c
  PROVE  IntakeInvariant'
<1>1. TypeOK /\ c \notin audited
  BY DEF IntakeInvariant, Audits
<1>2. \A d \in Calls \ {c} : call'[d] = call[d]
  BY DEF Keeps
<1>3. Origins'
  <2> SUFFICES ASSUME NEW slot \in Slots, rows'[slot] # None PROVE Origin(slot)'
    BY DEF Origins
  <2>1. CASE rows[slot] = None \/ rows[slot].by = c
    BY <2>1
  <2>2. CASE rows[slot] # None /\ rows[slot].by # c
    BY <2>2, OthersOrigins
  <2> QED
    BY <2>1, <2>2
<1>4. Passages'
  <2> SUFFICES ASSUME NEW d \in Calls, Running(d)'
               PROVE  /\ call'[d].missed => call'[d].stage \in 1..4
                      /\ \A i \in 1..4 : i < call'[d].stage => Passed(d, i)'
    BY DEF Passages
  <2>1. CASE d = c
    BY <2>1
  <2>2. CASE d # c
    <3>1. Running(d) /\ call'[d] = call[d]
      BY <1>2, <2>2 DEF Running
    <3>2. call'[d].missed => call'[d].stage \in 1..4
      BY <3>1 DEF IntakeInvariant, Passages
    <3> QED
      BY <2>2, <3>1, <3>2, OthersPassages
  <2> QED
    BY <2>1, <2>2
<1>5. Answers'
  <2> SUFFICES ASSUME NEW d \in Calls, Succeeded(d)' PROVE Answered(d)'
    BY DEF Answers
  <2>1. CASE d = c
    BY <2>1
  <2>2. CASE d # c
    <3>1. Succeeded(d)
      BY <1>2, <2>2 DEF Succeeded
    <3> QED
      BY <2>2, <3>1, OthersAnswers
  <2> QED
    BY <2>1, <2>2
<1>6. Audits'
  <2> SUFFICES ASSUME NEW d \in audited'
               PROVE  Succeeded(d)' /\ rows'[SlotOf(d, "record")'].by = d
    BY DEF Audits
  <2>1. CASE d = c
    BY <2>1
  <2>2. CASE d # c
    <3>1. d \in audited /\ d \in Calls /\ call'[d] = call[d]
      BY <1>1, <1>2, <2>2 DEF Keeps, TypeOK
    <3>2. Succeeded(d) /\ rows[SlotOf(d, "record")].by = d
      BY <3>1 DEF IntakeInvariant, Audits
    <3>3. Answered(d)
      BY <3>1, <3>2 DEF IntakeInvariant, Answers
    <3>4. PICK k \in Keys, q \in Requests : k = call[d].key /\ q = call[d].request
      BY <1>1, <3>1, <3>2, CallIsKnown, CallIsSent
    <3>5. PICK slot \in Slots : slot = Slot(k, q, "record")
      BY SlotIsSlot
    <3>6. rows[slot] # None /\ rows[slot].committed
      BY <3>3, <3>4, <3>5 DEF Answered, SlotOf
    <3>7. rows'[slot] = rows[slot]
      BY <3>6 DEF Keeps
    <3> QED
      BY <3>1, <3>2, <3>4, <3>5, <3>7 DEF Succeeded, SlotOf
  <2> QED
    BY <2>1, <2>2
<1> QED
  BY <1>3, <1>4, <1>5, <1>6 DEF IntakeInvariant

-----------------------------------------------------------------------------
(* A call ends: what it inserted is gone, what it is told is committed.       *)
LEMMA ClosingKeeps ==
  ASSUME IntakeInvariant, NEW c \in Calls, Running(c), NEW answer \in Refusals \cup {"ok"},
         NEW ids \in Ids \cup {NoIds}, Close(c, answer, ids),
         answer = "ok" =>
           LET slot == SlotOf(c, "record") IN
           /\ rows[slot] # None /\ rows[slot].committed
           /\ rows[slot].request = call[c].request /\ rows[slot].ids = ids
           /\ Holds(call[c].key, call[c].request, ids)
  PROVE  IntakeInvariant'
<1>1. /\ TypeOK /\ ~Succeeded(c) /\ c \notin audited
      /\ rows' = RolledBack(c) /\ audited' = audited
      /\ call' = [call EXCEPT ![c].answer = answer, ![c].ids = ids]
  BY DEF IntakeInvariant, Audits, Running, Succeeded, Close
<1>2. call[c] \in Sent
  BY <1>1, CallIsKnown, CallIsSent
<1>3. /\ call'[c] \in Sent /\ call'[c].key = call[c].key
      /\ call'[c].request = call[c].request /\ call'[c].answer = answer /\ call'[c].ids = ids
  BY <1>1, <1>2 DEF TypeOK, Sent
<1>4. \A d \in Calls \ {c} : call'[d] = call[d]
  BY <1>1 DEF TypeOK
<1>5. call' \in [Calls -> Sent \cup {NotSent}]
  BY <1>1, <1>3 DEF TypeOK
<1>6. rows' \in [Slots -> Row \cup {None}]
  BY <1>1 DEF TypeOK, RolledBack
<1>7. TypeOK'
  BY <1>1, <1>5, <1>6 DEF TypeOK
<1>8. Keeps(c)
  BY <1>1, <1>4 DEF Keeps, RolledBack, Mine
<1>9. ASSUME NEW slot \in Slots, rows'[slot] # None, rows[slot] = None \/ rows[slot].by = c
      PROVE  FALSE
  <2>1. rows[slot] # None
    BY <1>1, <1>9 DEF RolledBack
  <2>2. ~rows[slot].committed
    BY <1>1, <1>9, <2>1, CommitsNothing
  <2> QED
    BY <1>1, <1>9, <2>1, <2>2 DEF RolledBack, Mine
<1>10. ~Running(c)'
  BY <1>3 DEF Running, Refusals
<1>11. ASSUME answer = "ok" PROVE Answered(c)'
  <2>1. PICK k \in Keys, q \in Requests : k = call[c].key /\ q = call[c].request
    BY <1>2, SentFields
  <2>2. /\ Slot(k, q, "record") \in Slots /\ Slot(k, q, "lot") \in Slots
        /\ Slot(k, q, "receipt") \in Slots /\ Slot(k, q, "allocation") \in Slots
    BY SlotIsSlot
  <2>3. \A slot \in Slots : rows[slot] # None /\ rows[slot].committed => rows'[slot] = rows[slot]
    BY <1>8 DEF Keeps
  <2>4. Holds(k, q, ids)'
    BY <1>11, <2>1, <2>2, <2>3 DEF Holds, Made
  <2>5. /\ rows[Slot(k, q, "record")] # None /\ rows[Slot(k, q, "record")].committed
        /\ rows[Slot(k, q, "record")].request = q /\ rows[Slot(k, q, "record")].ids = ids
    BY <1>11, <2>1 DEF SlotOf
  <2>6. rows'[Slot(k, q, "record")] = rows[Slot(k, q, "record")]
    BY <2>2, <2>3, <2>5
  <2> QED
    BY <1>3, <2>1, <2>4, <2>5, <2>6 DEF Answered, SlotOf
<1>12. Succeeded(c)' => answer = "ok"
  BY <1>3 DEF Succeeded
<1> QED
  BY <1>1, <1>7, <1>8, <1>9, <1>10, <1>11, <1>12, StepOfOne

LEMMA RefusingKeeps ==
  ASSUME IntakeInvariant, NEW c \in Calls, Running(c), NEW why \in Refusals, Refuse(c, why)
  PROVE  IntakeInvariant'
BY ClosingKeeps DEF Refuse, Refusals, NoIds

(* A call that changes but itself, and does not end.                          *)
LEMMA GoingOnKeeps ==
  ASSUME IntakeInvariant, NEW c \in Calls, ~Succeeded(c), UNCHANGED <<rows, audited>>,
         NEW new \in Sent, call' = [call EXCEPT ![c] = new], new.answer = "none",
         Running(c) => new.key = call[c].key /\ new.request = call[c].request
                       /\ new.stage >= call[c].stage,
         new.missed => new.stage \in 1..4,
         Running(c)' => \A i \in 1..4 : i < new.stage => Passed(c, i)',
         Running(c) \/ call[c] = NotSent
  PROVE  IntakeInvariant'
<1>1. TypeOK /\ c \notin audited
  BY DEF IntakeInvariant, Audits
<1>2. call'[c] = new /\ \A d \in Calls \ {c} : call'[d] = call[d]
  BY <1>1 DEF TypeOK
<1>3. TypeOK'
  BY <1>1 DEF TypeOK
<1>4. Keeps(c)
  BY <1>2 DEF Keeps
<1>5. ASSUME NEW slot \in Slots, rows[slot] # None, rows[slot].by = c PROVE Origin(slot)'
  <2>1. Origin(slot)
    BY <1>5 DEF IntakeInvariant, Origins
  <2>2. Running(c)
    BY <1>5, <2>1 DEF Origin
  <2>3. call[c] \in Sent
    BY <1>1, <2>2, CallIsKnown, CallIsSent
  <2>4. Running(c)' /\ call'[c] # NotSent
    BY <1>2, SentFields DEF Running
  <2>5. PICK i \in 1..4 : slot = SlotOf(c, Stages[i])
                          /\ (~rows[slot].committed => Running(c) /\ i < call[c].stage)
    BY <1>5, <2>1 DEF Origin
  <2>6. slot = SlotOf(c, Stages[i])'
    BY <1>2, <2>2, <2>5 DEF SlotOf
  <2>7. i < call[c].stage => i < call'[c].stage
    BY <1>2, <2>2, <2>3, SentFields
  <2> QED
    BY <1>2, <1>5, <2>1, <2>2, <2>4, <2>5, <2>6, <2>7 DEF Origin
<1>6. ~Succeeded(c)'
  BY <1>2 DEF Succeeded
<1> QED
  BY <1>1, <1>2, <1>3, <1>4, <1>5, <1>6, StepOfOne

-----------------------------------------------------------------------------
LEMMA SendingKeeps ==
  ASSUME IntakeInvariant, NEW c \in Calls, NEW k \in Keys, NEW q \in Requests, Send(c, k, q)
  PROVE  IntakeInvariant'
<1> DEFINE new == [key |-> k, request |-> q, stage |-> 1, missed |-> FALSE,
                   answer |-> "none", ids |-> NoIds]
<1>1. /\ call[c] = NotSent /\ UNCHANGED <<rows, audited>>
      /\ call' = [call EXCEPT ![c] = new]
  BY DEF Send
<1>2. new \in Sent /\ new.answer = "none" /\ ~new.missed /\ new.stage = 1
  BY DEF Sent
<1>3. ~Running(c) /\ ~Succeeded(c)
  BY <1>1 DEF Running, Succeeded, NotSent
<1>4. \A i \in 1..4 : ~(i < new.stage)
  BY <1>2
<1> HIDE DEF new
<1> QED
  BY <1>1, <1>2, <1>3, <1>4, GoingOnKeeps

(* A running call, what it has passed while the rows stay.                    *)
LEMMA RunningCall ==
  ASSUME IntakeInvariant, NEW c \in Calls, Running(c)
  PROVE  /\ TypeOK /\ call[c] \in Sent /\ call[c].answer = "none" /\ ~Succeeded(c)
         /\ call[c].key \in Keys /\ call[c].request \in Requests /\ call[c].stage \in 1..5
         /\ call[c].missed => call[c].stage \in 1..4
BY CallIsKnown, CallIsSent DEF IntakeInvariant, Running, Succeeded, Passages

LEMMA PassedStays ==
  ASSUME IntakeInvariant, NEW c \in Calls, Running(c), rows' = rows,
         call'[c].key = call[c].key, call'[c].request = call[c].request,
         NEW i \in 1..4, i < call[c].stage
  PROVE  Passed(c, i)'
<1>1. Passed(c, i)
  BY DEF IntakeInvariant, Passages
<1> QED
  BY <1>1 DEF Passed, SlotOf, Visible

LEMMA MissingKeeps ==
  ASSUME IntakeInvariant, NEW c \in Calls, Running(c), call[c].stage \in 1..4,
         call' = [call EXCEPT ![c].missed = TRUE], UNCHANGED <<rows, audited>>
  PROVE  IntakeInvariant'
<1>1. PICK new : new = [call[c] EXCEPT !.missed = TRUE]
  OBVIOUS
<1>2. /\ new \in Sent /\ new.answer = "none" /\ new.stage = call[c].stage
      /\ new.key = call[c].key /\ new.request = call[c].request
  BY <1>1, RunningCall DEF Sent
<1>3. call' = [call EXCEPT ![c] = new] /\ call'[c] = new
  BY <1>1, RunningCall DEF TypeOK
<1>4. \A i \in 1..4 : i < new.stage => Passed(c, i)'
  BY <1>2, <1>3, PassedStays
<1>5. new.stage >= call[c].stage
  BY <1>2, RunningCall
<1> QED
  BY <1>2, <1>3, <1>4, <1>5, RunningCall, GoingOnKeeps

LEMMA ProceedingKeeps ==
  ASSUME IntakeInvariant, NEW c \in Calls, Running(c), call[c].stage \in 2..4,
         Visible(c, Here(c)), Consistent(c), Proceed(c)
  PROVE  IntakeInvariant'
<1>1. PICK new : new = [call[c] EXCEPT !.stage = call[c].stage + 1, !.missed = FALSE]
  OBVIOUS
<1>2. /\ new \in Sent /\ new.answer = "none" /\ new.stage = call[c].stage + 1
      /\ ~new.missed /\ new.key = call[c].key /\ new.request = call[c].request
  <2>1. call[c].stage + 1 \in 1..5 /\ call[c] \in Sent /\ call[c].answer = "none"
    BY RunningCall
  <2> QED
    BY <1>1, <2>1 DEF Sent
<1>3. call' = [call EXCEPT ![c] = new] /\ call'[c] = new /\ UNCHANGED <<rows, audited>>
  BY <1>1, RunningCall DEF TypeOK, Proceed
<1>4. ASSUME NEW i \in 1..4, i < new.stage PROVE Passed(c, i)'
  <2>1. CASE i < call[c].stage
    BY <1>2, <1>3, <2>1, PassedStays
  <2>2. CASE i = call[c].stage
    <3>1. Visible(c, SlotOf(c, Stages[i])) /\ i # 1
      BY <2>2 DEF Here, StageOf
    <3>2. i = 3 => rows[SlotOf(c, Stages[i])].request.of = call[c].request.of
      BY <2>2, StageNames DEF Consistent, At, Here, StageOf
    <3> QED
      BY <1>2, <1>3, <3>1, <3>2 DEF Passed, SlotOf, Visible
  <2> QED
    BY <1>2, <1>4, <2>1, <2>2, RunningCall
<1>5. new.stage >= call[c].stage
  BY <1>2, RunningCall
<1> QED
  BY <1>2, <1>3, <1>4, <1>5, RunningCall, GoingOnKeeps

(* A completed record answers with what its own call was told.                *)
LEMMA RecordAnswers ==
  ASSUME IntakeInvariant, NEW c \in Calls, Running(c), At(c, "record"),
         Visible(c, Here(c)), SameRequest(c, rows[Here(c)])
  PROVE  LET slot == SlotOf(c, "record") IN
         /\ rows[slot] # None /\ rows[slot].committed /\ rows[slot].ids \in Ids \cup {NoIds}
         /\ rows[slot].request = call[c].request
         /\ Holds(call[c].key, call[c].request, rows[slot].ids)
<1>1. call[c].stage = 1 /\ Here(c) = SlotOf(c, "record")
  BY RunningCall, StageNames DEF At, Here, StageOf
<1>2. PICK k \in Keys, q \in Requests : k = call[c].key /\ q = call[c].request
  BY RunningCall
<1>3. PICK slot \in Slots : slot = Slot(k, q, "record") /\ slot = SlotOf(c, "record")
  BY <1>2, SlotIsSlot DEF SlotOf
<1>4. rows[slot] # None /\ rows[slot].request = q /\ rows[slot] \in Row
  BY <1>1, <1>2, <1>3, RunningCall DEF Visible, SameRequest, TypeOK
<1>5. Origin(slot)
  BY <1>4 DEF IntakeInvariant, Origins
<1>6. PICK d \in Calls : d = rows[slot].by
  BY <1>4, RowFields
<1>7. PICK i \in 1..4 : slot = SlotOf(d, Stages[i])
                        /\ (~rows[slot].committed => Running(d) /\ i < call[d].stage)
  BY <1>5, <1>6 DEF Origin
<1>8. i = 1 /\ k = call[d].key
  BY <1>3, <1>7, SlotsDiffer, StageNames DEF SlotOf
<1>9. rows[slot].committed
  <2> SUFFICES ASSUME ~rows[slot].committed PROVE FALSE
    OBVIOUS
  <2>1. d = c
    BY <1>1, <1>3, <1>6 DEF Visible
  <2> QED
    BY <1>1, <1>7, <1>8, <2>1
<1>10. d \in audited
  BY <1>5, <1>6, <1>9 DEF Origin
<1>11. Succeeded(d) /\ Answered(d)
  BY <1>10 DEF IntakeInvariant, Audits, Answers
<1>12. slot = SlotOf(d, "record")
  BY <1>7, <1>8, StageNames
<1>13. q = call[d].request /\ rows[slot].ids = call[d].ids
  BY <1>4, <1>11, <1>12 DEF Answered
<1>14. Holds(k, q, rows[slot].ids)
  BY <1>8, <1>11, <1>13 DEF Answered
<1> QED
  BY <1>2, <1>3, <1>4, <1>9, <1>14, RowFields

LEMMA LookingUpRecordKeeps ==
  ASSUME IntakeInvariant, NEW c \in Calls, LookupRecord(c)
  PROVE  IntakeInvariant'
<1>1. Running(c) /\ At(c, "record")
  BY DEF LookupRecord, At
<1>2. call[c].stage \in 1..4
  BY <1>1, RunningCall DEF At
<1>3. CASE ~Visible(c, Here(c))
  BY <1>1, <1>2, <1>3, MissingKeeps DEF LookupRecord
<1>4. CASE Visible(c, Here(c)) /\ ~SameRequest(c, rows[Here(c)])
  <2>1. Refuse(c, "hash conflict")
    BY <1>4 DEF LookupRecord
  <2> QED
    BY <1>1, <2>1, RefusingKeeps DEF Refusals
<1>5. CASE Visible(c, Here(c)) /\ SameRequest(c, rows[Here(c)])
  <2>1. Close(c, "ok", rows[Here(c)].ids) /\ Here(c) = SlotOf(c, "record")
    BY <1>1, <1>5 DEF LookupRecord, At, Here
  <2> QED
    BY <1>1, <1>5, <2>1, RecordAnswers, ClosingKeeps
<1> QED
  BY <1>3, <1>4, <1>5

LEMMA LookingUpKeeps ==
  ASSUME IntakeInvariant, NEW c \in Calls, Lookup(c)
  PROVE  IntakeInvariant'
<1>1. Running(c) /\ call[c].stage \in 2..4
  BY DEF Lookup
<1>2. CASE ~Visible(c, Here(c))
  BY <1>1, <1>2, MissingKeeps DEF Lookup
<1>3. CASE Visible(c, Here(c)) /\ Consistent(c)
  BY <1>1, <1>3, ProceedingKeeps DEF Lookup
<1>4. CASE Visible(c, Here(c)) /\ ~Consistent(c)
  <2>1. Refuse(c, "inbound conflict")
    BY <1>4 DEF Lookup
  <2> QED
    BY <1>1, <2>1, RefusingKeeps DEF Refusals
<1> QED
  BY <1>2, <1>3, <1>4

-----------------------------------------------------------------------------
LEMMA InsertingKeeps ==
  ASSUME IntakeInvariant, NEW c \in Calls, Insert(c)
  PROVE  IntakeInvariant'
<1>1. /\ Running(c) /\ call[c].missed /\ audited' = audited /\ rows[Here(c)] = None
  BY RunningCall DEF Insert, Pending, Violated
<1>2. PICK k \in Keys, q \in Requests, stage \in 1..4 :
        k = call[c].key /\ q = call[c].request /\ stage = call[c].stage
  BY <1>1, RunningCall
<1>3. PICK slot \in Slots : slot = Slot(k, q, Stages[stage])
  BY SlotIsSlot
<1>4. Here(c) = slot
  BY <1>2, <1>3 DEF Here, SlotOf, StageOf
<1>5. PICK row : row = [by |-> c, key |-> k, request |-> q, committed |-> FALSE, ids |-> NoIds]
  OBVIOUS
<1>6. /\ row \in Row /\ row # None /\ row.by = c /\ row.key = k /\ row.request = q
      /\ row.committed = FALSE
  BY <1>5, RowFields DEF Row
<1>7. rows' = [rows EXCEPT ![slot] = row]
  BY <1>2, <1>4, <1>5 DEF Insert
<1>8. PICK new : new = [call[c] EXCEPT !.stage = call[c].stage + 1, !.missed = FALSE]
  OBVIOUS
<1>9. /\ new \in Sent /\ new.answer = "none" /\ new.stage = stage + 1
      /\ ~new.missed /\ new.key = k /\ new.request = q
  <2>1. stage + 1 \in 1..5 /\ call[c] \in Sent /\ call[c].answer = "none"
    BY <1>1, RunningCall
  <2> QED
    BY <1>2, <1>8, <2>1 DEF Sent
<1>10. call' = [call EXCEPT ![c] = new]
  BY <1>8 DEF Insert
<1>11. call'[c] = new /\ \A d \in Calls \ {c} : call'[d] = call[d]
  BY <1>1, <1>10, RunningCall DEF TypeOK
<1>12. rows'[slot] = row /\ \A other \in Slots \ {slot} : rows'[other] = rows[other]
  BY <1>1, <1>7, RunningCall DEF TypeOK
<1>13. TypeOK'
  BY <1>1, <1>6, <1>7, <1>9, <1>10, RunningCall DEF TypeOK
<1>14. Keeps(c)
  BY <1>1, <1>4, <1>11, <1>12 DEF Keeps
<1>15. Running(c)' /\ ~Succeeded(c)' /\ call'[c] # NotSent
  BY <1>9, <1>11, SentFields DEF Running, Succeeded
<1>16. ASSUME NEW other \in Slots, rows'[other] # None,
              rows[other] = None \/ rows[other].by = c
       PROVE  Origin(other)'
  <2>1. CASE other = slot
    <3>1. slot = SlotOf(c, Stages[stage])' /\ stage < call'[c].stage
      BY <1>3, <1>9, <1>11 DEF SlotOf
    <3> QED
      BY <2>1, <3>1, <1>6, <1>9, <1>11, <1>12, <1>15 DEF Origin
  <2>2. CASE other # slot
    <3>1. rows[other] # None /\ rows[other].by = c /\ rows'[other] = rows[other]
      BY <1>12, <1>16, <2>2
    <3>2. Origin(other)
      BY <3>1 DEF IntakeInvariant, Origins
    <3>3. PICK i \in 1..4 : other = SlotOf(c, Stages[i])
                            /\ (~rows[other].committed => i < stage)
      BY <1>2, <3>1, <3>2 DEF Origin
    <3>4. other = SlotOf(c, Stages[i])' /\ (i < stage => i < call'[c].stage)
      BY <1>2, <1>9, <1>11, <3>3 DEF SlotOf
    <3> QED
      BY <1>1, <1>2, <1>9, <1>11, <1>15, <3>1, <3>2, <3>3, <3>4 DEF Origin
  <2> QED
    BY <2>1, <2>2
<1>17. ASSUME NEW i \in 1..4, i < new.stage PROVE Passed(c, i)'
  <2>1. CASE i = stage
    <3>1. SlotOf(c, Stages[i])' = slot
      BY <1>3, <1>9, <1>11, <2>1 DEF SlotOf
    <3> QED
      BY <1>6, <1>9, <1>11, <1>12, <3>1 DEF Passed, Visible
  <2>2. CASE i < stage
    <3>1. Passed(c, i)
      BY <1>1, <1>2, <2>2 DEF IntakeInvariant, Passages
    <3>2. PICK other \in Slots : other = Slot(k, q, Stages[i])
      BY SlotIsSlot
    <3>3. other # slot
      BY <1>3, <2>2, <3>2, SlotsDiffer
    <3>4. SlotOf(c, Stages[i]) = other /\ SlotOf(c, Stages[i])' = other
      BY <1>2, <1>9, <1>11, <3>2 DEF SlotOf
    <3>5. rows'[other] = rows[other]
      BY <1>12, <3>3
    <3> QED
      BY <1>2, <1>9, <1>11, <3>1, <3>4, <3>5 DEF Passed, Visible
  <2> QED
    BY <1>9, <1>17, <2>1, <2>2
<1>18. c \notin audited'
  BY <1>1, RunningCall DEF IntakeInvariant, Audits
<1> QED
  BY <1>1, <1>9, <1>11, <1>13, <1>14, <1>15, <1>16, <1>17, <1>18, RunningCall, StepOfOne

LEMMA InsertRefusedKeeps ==
  ASSUME IntakeInvariant, NEW c \in Calls, InsertRefused(c)
  PROVE  IntakeInvariant'
<1>1. Running(c) /\ \E why \in {"server error", "pending", "hash conflict"} : Refuse(c, why)
  BY DEF InsertRefused
<1> QED
  BY <1>1, RefusingKeeps DEF Refusals

(* Commit: every row the call has passed is committed now.                    *)
LEMMA CommittingKeeps ==
  ASSUME IntakeInvariant, NEW c \in Calls, Commit(c)
  PROVE  IntakeInvariant'
<1>1. Running(c) /\ call[c].stage = 5 /\ audited' = audited \cup {c}
  BY DEF Commit
<1>2. PICK k \in Keys, q \in Requests : k = call[c].key /\ q = call[c].request
  BY <1>1, RunningCall
<1>3. PICK ids : ids = IdsOf(k, q)
  OBVIOUS
<1>4. PICK record \in Slots : record = Slot(k, q, "record")
  BY SlotIsSlot
<1>5. \A slot \in Slots :
        rows'[slot] = IF slot \notin Mine(c) THEN rows[slot]
                      ELSE [rows[slot] EXCEPT !.committed = TRUE,
                                              !.ids = IF slot = record THEN ids ELSE NoIds]
  BY <1>2, <1>3, <1>4 DEF Commit, SlotOf
<1>6. ASSUME NEW slot \in Slots, rows[slot] # None
      PROVE  rows[slot] \in Row /\ (slot \in Mine(c) <=> rows[slot].by = c)
  BY <1>1, <1>6, RunningCall, CommitsNothing DEF TypeOK, Mine
<1>7. ASSUME NEW i \in 1..4
      PROVE  LET slot == Slot(k, q, Stages[i]) IN
             /\ slot \in Slots /\ rows[slot] # None /\ rows[slot].by \in Calls
             /\ rows[slot].committed \/ rows[slot].by = c
             /\ i = 1 => rows[slot].by = c
             /\ i = 3 => rows[slot].request.of = q.of
  <2>1. Passed(c, i)
    BY <1>1 DEF IntakeInvariant, Passages
  <2>2. Slot(k, q, Stages[i]) \in Slots
    BY SlotIsSlot
  <2> QED
    BY <1>2, <1>6, <2>1, <2>2, RowFields DEF Passed, Visible, SlotOf
<1>8. ids \in Ids
  BY <1>3, <1>7, StageNames DEF IdsOf, Ids
<1>9. ASSUME NEW slot \in Slots, rows[slot] # None, rows[slot].by = c
      PROVE  /\ rows'[slot] \in Row /\ rows'[slot].committed /\ rows'[slot].by = c
             /\ rows'[slot].request = rows[slot].request /\ rows'[slot].key = rows[slot].key
             /\ slot = record => rows'[slot].ids = ids
  <2>1. slot \in Mine(c) /\ rows[slot] \in Row
    BY <1>6, <1>9
  <2>2. rows'[slot] = [rows[slot] EXCEPT !.committed = TRUE,
                                         !.ids = IF slot = record THEN ids ELSE NoIds]
    BY <1>5, <2>1
  <2> QED
    BY <1>8, <1>9, <2>1, <2>2 DEF Row
<1>10. ASSUME NEW slot \in Slots, rows[slot] = None \/ rows[slot].by # c
       PROVE  rows'[slot] = rows[slot]
  BY <1>5, <1>6, <1>10 DEF Mine
<1>11. rows' \in [Slots -> Row \cup {None}]
  <2>1. \A slot \in Slots : rows'[slot] \in Row \cup {None}
    BY <1>6, <1>9, <1>10
  <2>2. rows' = [slot \in Slots |-> rows'[slot]]
    BY DEF Commit
  <2> QED
    BY <2>1, <2>2
<1>12. call' = [call EXCEPT ![c].answer = "ok", ![c].ids = ids]
  BY <1>2, <1>3 DEF Commit
<1>13. /\ call'[c] \in Sent /\ call'[c].key = k /\ call'[c].request = q
       /\ call'[c].answer = "ok" /\ call'[c].ids = ids /\ call'[c].stage = 5
       /\ \A d \in Calls \ {c} : call'[d] = call[d]
  BY <1>1, <1>2, <1>8, <1>12, RunningCall DEF TypeOK, Sent
<1>14. call' \in [Calls -> Sent \cup {NotSent}]
  BY <1>1, <1>12, <1>13, RunningCall DEF TypeOK
<1>15. TypeOK'
  BY <1>1, <1>11, <1>14, RunningCall DEF TypeOK
<1>16. Keeps(c)
  <2>1. ASSUME NEW slot \in Slots, rows[slot] # None, rows[slot].committed \/ rows[slot].by # c
        PROVE  rows'[slot] = rows[slot]
    BY <1>1, <1>10, <2>1, RunningCall, CommitsNothing
  <2> QED
    BY <1>1, <1>13, <2>1 DEF Keeps
<1>17. ASSUME NEW slot \in Slots, rows'[slot] # None, rows[slot] = None \/ rows[slot].by = c
       PROVE  Origin(slot)'
  <2>1. rows[slot] # None /\ rows[slot].by = c
    BY <1>10, <1>17
  <2>2. Origin(slot)
    BY <2>1 DEF IntakeInvariant, Origins
  <2>3. PICK i \in 1..4 : slot = SlotOf(c, Stages[i])
    BY <2>1, <2>2 DEF Origin
  <2>4. slot = SlotOf(c, Stages[i])'
    BY <1>2, <1>13, <2>3 DEF SlotOf
  <2>5. rows[slot].key = k /\ rows[slot].request = q
    BY <1>2, <2>1, <2>2 DEF Origin
  <2>6. call'[c] # NotSent /\ c \in audited'
    BY <1>1, <1>13, SentFields
  <2> QED
    BY <1>9, <1>13, <2>1, <2>4, <2>5, <2>6 DEF Origin
<1>18. ~Running(c)' /\ Succeeded(c)'
  BY <1>13 DEF Running, Succeeded
<1>19. ASSUME NEW i \in 1..4
       PROVE  LET slot == Slot(k, q, Stages[i]) IN
              /\ Made(slot, rows[slot].by)'
              /\ rows'[slot].by = rows[slot].by
              /\ rows'[slot].request = rows[slot].request
  <2>1. PICK slot \in Slots : slot = Slot(k, q, Stages[i])
    BY <1>7
  <2>2. rows[slot] # None /\ (rows[slot].committed \/ rows[slot].by = c)
    BY <1>7, <2>1
  <2>3. CASE rows[slot].by = c
    BY <1>9, <2>1, <2>2, <2>3, RowFields DEF Made
  <2>4. CASE rows[slot].by # c
    BY <1>10, <2>1, <2>2, <2>4 DEF Made
  <2> QED
    BY <2>3, <2>4
<1>20. Holds(k, q, ids)'
  BY <1>3, <1>7, <1>19, StageNames DEF Holds, IdsOf, Made
<1>21. /\ rows[record] # None /\ rows[record].by = c /\ rows[record].request = q
  <2>1. rows[record] # None /\ rows[record].by = c
    BY <1>4, <1>7, StageNames
  <2> QED
    BY <1>2, <2>1 DEF IntakeInvariant, Origins, Origin
<1>22. /\ rows'[record] # None /\ rows'[record].committed /\ rows'[record].by = c
       /\ rows'[record].request = q /\ rows'[record].ids = ids
  BY <1>9, <1>21, RowFields
<1>23. SlotOf(c, "record")' = record
  BY <1>4, <1>13 DEF SlotOf
<1>24. Answered(c)'
  BY <1>13, <1>20, <1>22, <1>23 DEF Answered
<1> QED
  BY <1>1, <1>15, <1>16, <1>17, <1>18, <1>22, <1>23, <1>24, RunningCall, StepOfOne

LEMMA IntakeSteps == IntakeInvariant /\ [Next]_vars => IntakeInvariant'
<1> SUFFICES ASSUME IntakeInvariant, [Next]_vars PROVE IntakeInvariant'
  OBVIOUS
<1>1. ASSUME NEW c \in Calls, Crash(c) PROVE IntakeInvariant'
  BY <1>1, RefusingKeeps DEF Crash, Refusals
<1>2. CASE UNCHANGED vars
  BY <1>2
  DEF vars, IntakeInvariant, TypeOK, Origins, Origin, Passages, Passed, Visible, Answers, Answered,
      Holds, Made, Audits, Running, Succeeded, SlotOf
<1> QED
  BY <1>1, <1>2, SendingKeeps, LookingUpRecordKeeps, LookingUpKeeps, InsertingKeeps,
     InsertRefusedKeeps, CommittingKeeps
  DEF Next

-----------------------------------------------------------------------------
(* Rows, calls and audits always agree in these ways.                         *)
THEOREM IntakesAgree == Spec => []IntakeInvariant
BY IntakeBegins, IntakeSteps, PTL DEF Spec

(* Every variable keeps its type.                                             *)
THEOREM IntakeTypes == Spec => []TypeOK
<1>1. IntakeInvariant => TypeOK
  BY DEF IntakeInvariant
<1> QED
  BY <1>1, IntakesAgree, PTL

(* A key takes effect once, and is answered the same for the same request     *)
(* (reserve_idempotency), however often it was sent, lost and raced.          *)
THEOREM OneEffectPerKey == Spec => []OncePerKey
<1>1. IntakeInvariant => OncePerKey
  <2> SUFFICES ASSUME IntakeInvariant PROVE OncePerKey
    OBVIOUS
  <2>1. \A c, d \in Calls : call[c].key = call[d].key => SlotOf(c, "record") = SlotOf(d, "record")
    BY DEF SlotOf, Slot
  <2>2. audited \subseteq Calls
    BY DEF IntakeInvariant, TypeOK
  <2>3. \A c, d \in audited : call[c].key = call[d].key => c = d
    BY <2>1, <2>2 DEF IntakeInvariant, Audits
  <2>4. ASSUME NEW c \in Calls, NEW d \in Calls, Succeeded(c), Succeeded(d),
               call[c].key = call[d].key
        PROVE  call[c].ids = call[d].ids /\ call[c].request = call[d].request
    <3>1. Answered(c) /\ Answered(d) /\ SlotOf(c, "record") = SlotOf(d, "record")
      BY <2>1, <2>4 DEF IntakeInvariant, Answers
    <3> QED
      BY <3>1 DEF Answered
  <2> QED
    BY <2>3, <2>4 DEF OncePerKey
<1> QED
  BY <1>1, IntakesAgree, PTL

(* What a client was told is committed, of its LOT and inbound number, date   *)
(* and supplier.                                                              *)
THEOREM AnswersAreKept == Spec => []AnswersHold
<1>1. IntakeInvariant => AnswersHold
  BY DEF IntakeInvariant, Answers, Answered, Holds, Made, AnswersHold
<1> QED
  BY <1>1, IntakesAgree, PTL

(* A call that did not commit leaves nothing, one that did left its record.   *)
THEOREM AllOrNothing == Spec => []NothingHalfDone
<1>1. IntakeInvariant => NothingHalfDone
  <2> SUFFICES ASSUME IntakeInvariant, NEW slot \in Slots, rows[slot] # None
               PROVE  LET c == rows[slot].by IN
                      IF rows[slot].committed
                      THEN /\ c \in audited /\ rows[SlotOf(c, "record")].by = c
                           /\ rows[SlotOf(c, "record")].committed
                      ELSE Running(c)
    BY DEF NothingHalfDone
  <2>1. Origin(slot)
    BY DEF IntakeInvariant, Origins
  <2>2. CASE rows[slot].committed
    <3>1. rows[slot].by \in audited /\ audited \subseteq Calls
      BY <2>1, <2>2 DEF Origin, IntakeInvariant, TypeOK
    <3>2. Succeeded(rows[slot].by) /\ rows[SlotOf(rows[slot].by, "record")].by = rows[slot].by
      BY <3>1 DEF IntakeInvariant, Audits
    <3>3. Answered(rows[slot].by)
      BY <3>1, <3>2 DEF IntakeInvariant, Answers
    <3> QED
      BY <2>2, <3>1, <3>2, <3>3 DEF Answered
  <2>3. CASE ~rows[slot].committed
    BY <2>1, <2>3 DEF Origin
  <2> QED
    BY <2>2, <2>3
<1> QED
  BY <1>1, IntakesAgree, PTL

(* However often and beside whatever a request is sent, it is an intake once. *)
THEOREM IntakesAreIdempotent == Spec => []Idempotent
BY OneEffectPerKey, AnswersAreKept, AllOrNothing, PTL DEF Idempotent
=============================================================================
