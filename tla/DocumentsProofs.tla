-------------------------- MODULE DocumentsProofs ---------------------------
(***************************************************************************)
(* Proofs about documents: uploads, the review of extractions, and the     *)
(* scoring of extractions against golden datasets.  Uploads: a document    *)
(* never loses its bytes, and bytes without a document have somebody to    *)
(* answer for them. Reviews: what a review checked holds still until it    *)
(* confirms, since a run keeps its provider and the keys of its fields,    *)
(* and who confirms finds no reading confirmed.  Scoring: a case that is   *)
(* kept is what the scorer made of its offer, so what a report says        *)
(* follows from what the scorer counted.                                   *)
(***************************************************************************)
EXTENDS MCDocuments, FiniteSums

-----------------------------------------------------------------------------
(* Uploads                                                                    *)
-----------------------------------------------------------------------------
Each(u) == Excludes(u) /\ OwnsItsRow(u) /\ OwnsNothing(u) /\ IsSupported(u) /\ WasTold(u)

(* The answer and document of an upload that go together.                   *)
HandlerOk(h) ==
  /\ h \in Handler
  /\ h.stage # "idle" => h.digest # None
  /\ h.answer = "ok" => h.document # None

-----------------------------------------------------------------------------
(* Replacing the record of one upload by a well formed one.                 *)
LEMMA HandlerUpdate ==
  ASSUME TypeOK, NEW u \in Uploads, NEW h, HandlerOk(h), upload' = [upload EXCEPT ![u] = h]
  PROVE  /\ upload' \in [Uploads -> Handler]
         /\ \A v \in Uploads : HandlerOk(upload'[v])
         /\ \A v \in Uploads \ {u} : upload'[v] = upload[v]
         /\ upload'[u] = h
BY DEF TypeOK, HandlerOk

(* The record of an upload that is not idle, and its parts.                 *)
LEMMA HandlerFields ==
  ASSUME TypeOK, NEW u \in Uploads
  PROVE  /\ upload[u] \in Handler /\ HandlerOk(upload[u])
         /\ ~At(u, "idle") => DigestOf(u) \in Digests /\ Lock(u) \in Stripes
BY DocumentAssumption DEF TypeOK, HandlerOk, Handler, At, DigestOf, Lock

(* A row is not the absence of a row.                                       *)
LEMMA RowIsRow ==
  ASSUME TypeOK, NEW d \in Digests, rows[d] # None
  PROVE  rows[d] \in Row /\ rows[d].by \in Uploads /\ rows[d].by # None
BY DocumentAssumption DEF TypeOK, Row

(* Two uploads between link and removal of the same content are one.        *)
LEMMA OneHolder ==
  ASSUME NEW u \in Uploads, NEW v \in Uploads, Excludes(u), Excludes(v),
         upload[u].stage \in Leased, upload[v].stage \in Leased, DigestOf(u) = DigestOf(v)
  PROVE  u = v
BY DEF Excludes, Lock

-----------------------------------------------------------------------------
(* The kinds of step an upload makes by itself: its record moves from a     *)
(* stage to a stage with an answer, and it may change what it holds.        *)
LEMMA MoveStage ==
  ASSUME TypeOK, NEW u \in Uploads, NEW s \in Stages \ {"idle"}, ~At(u, "idle")
  PROVE  HandlerOk([upload[u] EXCEPT !.stage = s])
BY HandlerFields DEF HandlerOk, Handler, At

(* A move that gives the final answer, which is not a document.             *)
LEMMA MoveEnd ==
  ASSUME TypeOK, NEW u \in Uploads, NEW s \in Stages \ {"idle"}, ~At(u, "idle"),
         NEW a \in {"none", "refused", "uncertain"}
  PROVE  HandlerOk([upload[u] EXCEPT !.stage = s, !.answer = a])
BY HandlerFields DEF HandlerOk, Handler, At, Answers

(* A move that answers with a document.                                     *)
LEMMA MoveAccept ==
  ASSUME TypeOK, NEW u \in Uploads, ~At(u, "idle"), NEW d \in Uploads
  PROVE  HandlerOk([upload[u] EXCEPT !.stage = "finishing", !.answer = "ok", !.document = d])
BY HandlerFields, DocumentAssumption
   DEF HandlerOk, Handler, At, Answers, Stages, Handling, Leased

(* Dropping the file locks of an upload keeps those of the others.          *)
LEMMA LeaseDropped ==
  ASSUME TypeOK, NEW u \in Uploads
  PROVE  /\ LeaseWithout(u) \in [Stripes -> Uploads \cup {None}]
         /\ \A s \in Stripes : lease[s] # u => LeaseWithout(u)[s] = lease[s]
BY DEF TypeOK, LeaseWithout

(* Dropping the advisory locks of an upload.                                *)
LEMMA GuardDropped ==
  ASSUME TypeOK, NEW u \in Uploads
  PROVE  GuardWithout(u) \in [Digests -> Uploads \cup {None}]
BY DEF TypeOK, GuardWithout

(* A rollback takes the open rows of the upload, and no other.              *)
LEMMA RolledBack ==
  ASSUME TypeOK, NEW u \in Uploads
  PROVE  /\ RowsWithout(u) \in [Digests -> Row \cup {None}]
         /\ \A d \in Digests : RowsWithout(u)[d] \in {rows[d], None}
         /\ \A d \in Digests : (Committed(d) \/ rows[d].by # u) => RowsWithout(u)[d] = rows[d]
BY DEF TypeOK, RowsWithout, Pending, Committed

-----------------------------------------------------------------------------
(* Every step keeps the records, locks, rows and files well formed.         *)
LEMMA TypeStep ==
  ASSUME TypeOK, \A u \in Uploads : OwnsItsRow(u), [Next]_vars
  PROVE  TypeOK'
<1>0. TypeOK' <=> /\ objects' \subseteq Digests /\ temps' \subseteq Uploads
                  /\ lease' \in [Stripes -> Uploads \cup {None}]
                  /\ guard' \in [Digests -> Uploads \cup {None}]
                  /\ rows' \in [Digests -> Row \cup {None}]
                  /\ upload' \in [Uploads -> Handler]
                  /\ \A u \in Uploads : HandlerOk(upload'[u])
  BY DEF TypeOK, HandlerOk
<1>1. ASSUME NEW u \in Uploads, NEW d \in Digests, Receive(u, d)
      PROVE  TypeOK'
  <2>1. HandlerOk([Idle EXCEPT !.stage = "receiving", !.digest = d])
    BY DocumentAssumption DEF HandlerOk, Handler, Idle, Stages, Answers
  <2> QED
    BY <1>0, <1>1, <2>1, HandlerUpdate DEF Receive, TypeOK
<1>2. ASSUME NEW u \in Uploads, StagingFails(u)
      PROVE  TypeOK'
  <2>1. ~At(u, "idle") /\ "ended" \in Stages \ {"idle"} /\ "refused" \in {"none", "refused", "uncertain"}
    BY <1>2 DEF StagingFails, Streaming, At, Stages, Over
  <2>2. HandlerOk([upload[u] EXCEPT !.stage = "ended", !.answer = "refused"])
    BY <2>1, MoveEnd
  <2> QED
    BY <1>0, <1>2, <2>2, HandlerUpdate, LeaseDropped DEF StagingFails, End, TypeOK
<1>3. ASSUME NEW u \in Uploads, BodyComplete(u)
      PROVE  TypeOK'
  <2>1. HandlerOk([upload[u] EXCEPT !.stage = "waiting"])
    BY <1>3, MoveStage DEF BodyComplete, At, Stages, Handling
  <2> QED
    BY <1>0, <1>3, <2>1, HandlerUpdate DEF BodyComplete, Goto, TypeOK
<1>4. ASSUME NEW u \in Uploads, TakeLease(u)
      PROVE  TypeOK'
  <2>1. HandlerOk([upload[u] EXCEPT !.stage = "leased"])
    BY <1>4, MoveStage DEF TakeLease, At, Stages, Handling, Leased
  <2>2. lease' \in [Stripes -> Uploads \cup {None}]
    BY <1>4 DEF TakeLease, TypeOK
  <2> QED
    BY <1>0, <1>4, <2>1, <2>2, HandlerUpdate DEF TakeLease, Goto, TypeOK
<1>5. ASSUME NEW u \in Uploads, Link(u)
      PROVE  TypeOK'
  <2> DEFINE created == DigestOf(u) \notin objects
  <2>1. created \in BOOLEAN /\ ~At(u, "idle") /\ DigestOf(u) \in Digests
    BY <1>5, HandlerFields DEF Link, At
  <2>2. upload' = [upload EXCEPT ![u] = [upload[u] EXCEPT !.stage = "staged", !.created = created]]
    BY <1>5 DEF Link
  <2> HIDE DEF created
  <2>3. HandlerOk([upload[u] EXCEPT !.stage = "staged", !.created = created])
    BY <2>1, HandlerFields DEF HandlerOk, Handler, At, Stages, Handling, Leased
  <2> QED
    BY <1>0, <1>5, <2>1, <2>2, <2>3, HandlerUpdate DEF Link, TypeOK
<1>6. ASSUME NEW u \in Uploads, TakeGuard(u)
      PROVE  TypeOK'
  <2>1. HandlerOk([upload[u] EXCEPT !.stage = "guarded"])
    BY <1>6, MoveStage DEF TakeGuard, At, Stages, Handling, Leased
  <2>2. guard' \in [Digests -> Uploads \cup {None}]
    BY <1>6 DEF TakeGuard, TypeOK
  <2> QED
    BY <1>0, <1>6, <2>1, <2>2, HandlerUpdate DEF TakeGuard, Goto, TypeOK
<1>7. ASSUME NEW u \in Uploads, Decide(u)
      PROVE  TypeOK'
  <2>1. ~At(u, "idle") /\ DigestOf(u) \in Digests
    BY <1>7, HandlerFields DEF Decide, At
  <2>2. CASE End(u, "cleaning", "refused")
    <3>1. HandlerOk([upload[u] EXCEPT !.stage = "cleaning", !.answer = "refused"])
      BY <2>1, MoveEnd DEF Stages, Handling, Leased
    <3> QED
      BY <1>0, <1>7, <2>2, <3>1, HandlerUpdate DEF Decide, End, TypeOK
  <2>3. CASE Committed(DigestOf(u)) /\ Accept(u, DocumentId(u))
    <3>1. HandlerOk([upload[u] EXCEPT !.stage = "finishing", !.answer = "ok", !.document = DocumentId(u)])
      BY <2>1, <2>3, RowIsRow, MoveAccept DEF Committed, DocumentId
    <3> QED
      BY <1>0, <1>7, <2>3, <3>1, HandlerUpdate DEF Decide, Accept, TypeOK
  <2>4. CASE Goto(u, "absent")
    <3>1. HandlerOk([upload[u] EXCEPT !.stage = "absent"])
      BY <2>1, MoveStage DEF Stages, Handling, Leased
    <3> QED
      BY <1>0, <1>7, <2>4, <3>1, HandlerUpdate DEF Decide, Goto, TypeOK
  <2> QED
    BY <1>7, <2>2, <2>3, <2>4 DEF Decide
<1>8. ASSUME NEW u \in Uploads, Insert(u)
      PROVE  TypeOK'
  <2>1. HandlerOk([upload[u] EXCEPT !.stage = "inserted"])
    BY <1>8, MoveStage DEF Insert, At, Stages, Handling, Leased
  <2>2. rows' \in [Digests -> Row \cup {None}]
    BY <1>8 DEF Insert, TypeOK, Row
  <2> QED
    BY <1>0, <1>8, <2>1, <2>2, HandlerUpdate DEF Insert, Goto, TypeOK
<1>9. ASSUME NEW u \in Uploads, InsertRefused(u)
      PROVE  TypeOK'
  <2>1. ~At(u, "idle") /\ DigestOf(u) \in Digests
    BY <1>9, HandlerFields DEF InsertRefused, At
  <2>2. HandlerOk([upload[u] EXCEPT !.stage = "finishing", !.answer = "ok", !.document = DocumentId(u)])
    BY <1>9, <2>1, RowIsRow, MoveAccept DEF InsertRefused, Committed, DocumentId
  <2> QED
    BY <1>0, <1>9, <2>2, HandlerUpdate DEF InsertRefused, Accept, TypeOK
<1>10. ASSUME NEW u \in Uploads, NEW s \in {"committed", "in doubt"}, At(u, "inserted"),
              rows' = [rows EXCEPT ![DigestOf(u)].state = s]
       PROVE  rows' \in [Digests -> Row \cup {None}] /\ ~At(u, "idle") /\ DocumentId(u) \in Uploads
  <2>1. DigestOf(u) \in Digests /\ ~At(u, "idle")
    BY <1>10, HandlerFields DEF At
  <2>2. rows[DigestOf(u)] = [by |-> u, state |-> "open"]
    BY <1>10 DEF OwnsItsRow
  <2>3. rows[DigestOf(u)] \in Row /\ DocumentId(u) \in Uploads
    <3>1. [by |-> u, state |-> "open"] \in Row
      BY DEF Row
    <3>2. rows[DigestOf(u)] \in Row
      BY <2>2, <3>1
    <3> QED
      BY <3>2 DEF DocumentId, Row
  <2> DEFINE row == [rows[DigestOf(u)] EXCEPT !.state = s]
  <2>4. row \in Row
    BY <2>3 DEF Row
  <2>5. rows' = [rows EXCEPT ![DigestOf(u)] = row]
    BY <1>10
  <2> HIDE DEF row
  <2>6. rows' \in [Digests -> Row \cup {None}]
    BY <2>1, <2>4, <2>5 DEF TypeOK
  <2> QED
    BY <2>1, <2>3, <2>6
<1>11. ASSUME NEW u \in Uploads, Commit(u)
       PROVE  TypeOK'
  <2>1. rows' \in [Digests -> Row \cup {None}] /\ ~At(u, "idle") /\ DocumentId(u) \in Uploads
    BY <1>10, <1>11 DEF Commit
  <2>2. HandlerOk([upload[u] EXCEPT !.stage = "finishing", !.answer = "ok", !.document = DocumentId(u)])
    BY <2>1, MoveAccept
  <2> QED
    BY <1>0, <1>11, <2>1, <2>2, HandlerUpdate DEF Commit, Accept, TypeOK
<1>12. ASSUME NEW u \in Uploads, CommitInDoubt(u)
       PROVE  TypeOK'
  <2>1. rows' \in [Digests -> Row \cup {None}] /\ ~At(u, "idle")
    BY <1>10, <1>12 DEF CommitInDoubt
  <2>2. HandlerOk([upload[u] EXCEPT !.stage = AfterDoubt, !.answer = "uncertain"])
    BY <2>1, MoveEnd DEF AfterDoubt, Stages, Handling, Leased
  <2> QED
    BY <1>0, <1>12, <2>1, <2>2, HandlerUpdate DEF CommitInDoubt, End, TypeOK
<1>13. ASSUME NEW u \in Uploads, Fails(u)
       PROVE  TypeOK'
  <2>1. HandlerOk([upload[u] EXCEPT !.stage = "cleaning", !.answer = "refused"])
    BY <1>13, MoveEnd DEF Fails, At, Stages, Handling, Leased
  <2> QED
    BY <1>0, <1>13, <2>1, HandlerUpdate, RolledBack DEF Fails, End, TypeOK
<1>14. ASSUME NEW u \in Uploads, RemoveIfCreated(u) \/ Finalize(u)
       PROVE  TypeOK'
  <2>1. HandlerOk([upload[u] EXCEPT !.stage = "releasing"])
    BY <1>14, MoveStage DEF RemoveIfCreated, Finalize, At, Stages, Handling, Leased
  <2>2. lease' \in [Stripes -> Uploads \cup {None}]
    BY <1>14, LeaseDropped DEF RemoveIfCreated, Finalize
  <2> QED
    BY <1>0, <1>14, <2>1, <2>2, HandlerUpdate DEF RemoveIfCreated, Finalize, Goto, TypeOK
<1>15. ASSUME NEW u \in Uploads, Release(u)
       PROVE  TypeOK'
  <2>1. HandlerOk([upload[u] EXCEPT !.stage = "ended"])
    BY <1>15, MoveStage DEF Release, At, Stages, Over
  <2> QED
    BY <1>0, <1>15, <2>1, HandlerUpdate, GuardDropped DEF Release, Goto, TypeOK
<1>16. ASSUME NEW u \in Uploads, ConnectionLost(u)
       PROVE  TypeOK'
  BY <1>16, GuardDropped DEF ConnectionLost, TypeOK
<1>17. ASSUME NEW p \in Processes, Crash(p)
       PROVE  TypeOK'
  <2> DEFINE dead == {u \in Uploads : ProcessOf[u] = p /\ upload[u].stage \notin Over \cup {"idle"}}
  <2>1. /\ upload' = [u \in Uploads |->
             IF u \in dead THEN [upload[u] EXCEPT !.stage = "crashed"] ELSE upload[u]]
        /\ lease' = [s \in Stripes |-> IF lease[s] \in dead THEN None ELSE lease[s]]
        /\ rows' = [d \in Digests |->
             IF rows[d] # None /\ rows[d].by \in dead /\ Pending(d)
             THEN [rows[d] EXCEPT !.state = "in doubt"] ELSE rows[d]]
        /\ UNCHANGED <<objects, temps, guard>>
    BY <1>17 DEF Crash
  <2>2. ASSUME NEW u \in Uploads
        PROVE  HandlerOk(upload'[u])
    <3>1. CASE u \in dead
      <4>1. ~At(u, "idle") /\ "crashed" \in Stages \ {"idle"}
        BY <3>1 DEF At, Stages, Over
      <4> QED
        BY <2>1, <3>1, <4>1, MoveStage
    <3>2. CASE u \notin dead
      BY <2>1, <3>2, HandlerFields
    <3> QED
      BY <3>1, <3>2
  <2>3. lease' \in [Stripes -> Uploads \cup {None}]
    BY <2>1 DEF TypeOK
  <2>4. rows' \in [Digests -> Row \cup {None}]
    <3>1. \A d \in Digests : rows[d] # None => [rows[d] EXCEPT !.state = "in doubt"] \in Row
      BY RowIsRow DEF Row
    <3> QED
      BY <2>1, <3>1 DEF TypeOK
  <2>5. upload' \in [Uploads -> Handler]
    BY <2>1, <2>2 DEF HandlerOk
  <2> QED
    BY <1>0, <2>1, <2>2, <2>3, <2>4, <2>5 DEF TypeOK
<1>18. ASSUME NEW d \in Digests, Resolve(d)
       PROVE  TypeOK'
  <2>1. [rows[d] EXCEPT !.state = "committed"] \in Row
    BY <1>18, RowIsRow DEF Resolve, Row
  <2>2. rows' \in [Digests -> Row \cup {None}]
    BY <1>18, <2>1 DEF Resolve, TypeOK
  <2> QED
    BY <1>18, <2>2 DEF Resolve, TypeOK
<1>19. CASE UNCHANGED vars
  BY <1>19 DEF vars, TypeOK
<1> QED
  BY <1>1, <1>2, <1>3, <1>4, <1>5, <1>6, <1>7, <1>8, <1>9, <1>11, <1>12, <1>13, <1>14, <1>15,
     <1>16, <1>17, <1>18, <1>19 DEF Next

-----------------------------------------------------------------------------
(* The row an upload inserted is well formed, and still open.               *)
LEMMA OwnRow ==
  ASSUME TypeOK, NEW u \in Uploads, OwnsItsRow(u), At(u, "inserted")
  PROVE  /\ DigestOf(u) \in Digests /\ rows[DigestOf(u)] \in Row
         /\ rows[DigestOf(u)] # None /\ rows[DigestOf(u)].by = u
         /\ rows[DigestOf(u)].state = "open"
<1>1. rows[DigestOf(u)] = [by |-> u, state |-> "open"] /\ DigestOf(u) \in Digests
  BY HandlerFields DEF OwnsItsRow, At
<1>2. [by |-> u, state |-> "open"] \in Row
  BY DEF Row
<1>3. rows[DigestOf(u)] \in Row
  BY <1>1, <1>2
<1>4. rows[DigestOf(u)].by = u /\ rows[DigestOf(u)].state = "open"
  BY <1>1, <1>3 DEF Row
<1> QED
  BY <1>1, <1>3, <1>4, DocumentAssumption

(* An upload that does not move keeps what is said of it, while its file    *)
(* lock and its row stay, nobody owns what nobody owned, and committed rows *)
(* stay.                                                                    *)
LEMMA EachFrame ==
  ASSUME NEW w \in Uploads, Each(w), upload'[w] = upload[w],
         upload[w].stage \in Leased => lease'[Lock(w)] = lease[Lock(w)],
         upload[w].stage \in Leased /\ (At(w, "inserted") \/ rows[DigestOf(w)] = None)
           => rows'[DigestOf(w)] = rows[DigestOf(w)],
         Committed(DigestOf(w)) => rows'[DigestOf(w)] = rows[DigestOf(w)]
  PROVE  Each(w)'
BY DEF Each, Excludes, OwnsItsRow, OwnsNothing, IsSupported, WasTold, At, DigestOf, Lock,
       Committed, Leased

(* Another upload keeps what is said of it when one takes or drops its own  *)
(* locks, leaving the rows.                                                 *)
LEMMA OthersKeepLocks ==
  ASSUME TypeOK, NEW u \in Uploads, NEW w \in Uploads \ {u}, Each(w),
         upload'[w] = upload[w], rows' = rows,
         \/ lease' = lease \/ lease' = LeaseWithout(u)
         \/ Lock(u) \in Stripes /\ lease[Lock(u)] = None /\ lease' = [lease EXCEPT ![Lock(u)] = u]
  PROVE  Each(w)'
<1>1. ASSUME upload[w].stage \in Leased
      PROVE  lease[Lock(w)] = w /\ Lock(w) \in Stripes
  BY <1>1, HandlerFields DEF Each, Excludes, At, Leased
<1>2. upload[w].stage \in Leased => lease'[Lock(w)] = lease[Lock(w)]
  BY <1>1, LeaseDropped, DocumentAssumption DEF TypeOK
<1> QED
  BY <1>2, EachFrame

(* Another upload keeps what is said of it when one writes the row of its   *)
(* digest, unless that row is committed.                                    *)
LEMMA OthersKeepRows ==
  ASSUME TypeOK, NEW u \in Uploads, NEW w \in Uploads \ {u}, Each(u), Each(w),
         upload[u].stage \in Leased, ~Committed(DigestOf(u)), upload'[w] = upload[w],
         lease' = lease, \A d \in Digests \ {DigestOf(u)} : rows'[d] = rows[d]
  PROVE  Each(w)'
<1>1. ASSUME upload[w].stage \in Leased
      PROVE  DigestOf(w) # DigestOf(u) /\ DigestOf(w) \in Digests
  BY <1>1, OneHolder, HandlerFields DEF Each, At, Leased
<1>2. Committed(DigestOf(w)) => DigestOf(w) # DigestOf(u)
  OBVIOUS
<1>3. CASE At(w, "idle")
  BY <1>3 DEF Each, Excludes, OwnsItsRow, OwnsNothing, IsSupported, WasTold, At, Leased, Committed
<1>4. CASE ~At(w, "idle")
  BY <1>1, <1>2, <1>4, EachFrame, HandlerFields
<1> QED
  BY <1>3, <1>4

-----------------------------------------------------------------------------
(* Every step keeps what is said of every single upload.                    *)
LEMMA EachStep ==
  ASSUME TypeOK, \A u \in Uploads : Each(u), DocumentsHaveBytes, TypeOK', [Next]_vars,
         NEW w \in Uploads
  PROVE  Each(w)'
<1> USE DEF Each, At
<1>1. ASSUME NEW u \in Uploads, NEW d \in Digests, Receive(u, d)
      PROVE  Each(w)'
  <2>1. CASE w = u
    <3>1. upload'[u].stage = "receiving" /\ upload'[u].answer = "none"
      BY <1>1 DEF Receive, Idle, TypeOK
    <3> QED
      BY <2>1, <3>1 DEF Excludes, OwnsItsRow, OwnsNothing, IsSupported, WasTold, Leased
  <2>2. CASE w # u
    BY <1>1, <2>2, EachFrame DEF Receive, TypeOK
  <2> QED
    BY <2>1, <2>2
<1>2. ASSUME NEW u \in Uploads, StagingFails(u)
      PROVE  Each(w)'
  <2>1. CASE w = u
    <3>1. upload'[u].stage = "ended" /\ upload'[u].answer = "refused"
      BY <1>2, HandlerFields DEF StagingFails, End, TypeOK, Handler
    <3> QED
      BY <2>1, <3>1 DEF Excludes, OwnsItsRow, OwnsNothing, IsSupported, WasTold, Leased
  <2>2. CASE w # u
    BY <1>2, <2>2, OthersKeepLocks DEF StagingFails, End, TypeOK
  <2> QED
    BY <2>1, <2>2
<1>3. ASSUME NEW u \in Uploads, BodyComplete(u)
      PROVE  Each(w)'
  <2>1. CASE w = u
    <3>1. /\ upload'[u].stage = "waiting" /\ upload'[u].answer = upload[u].answer
          /\ DigestOf(u)' = DigestOf(u) /\ upload'[u].document = upload[u].document
      BY <1>3, HandlerFields DEF BodyComplete, Goto, TypeOK, Handler, DigestOf
    <3> QED
      BY <1>3, <2>1, <3>1
      DEF BodyComplete, Excludes, OwnsItsRow, OwnsNothing, IsSupported, WasTold, Leased, Committed
  <2>2. CASE w # u
    BY <1>3, <2>2, EachFrame DEF BodyComplete, Goto, TypeOK
  <2> QED
    BY <2>1, <2>2
<1>4. ASSUME NEW u \in Uploads, TakeLease(u)
      PROVE  Each(w)'
  <2>0. Lock(u) \in Stripes
    BY <1>4, HandlerFields DEF TakeLease
  <2>1. CASE w = u
    <3>1. /\ upload'[u].stage = "leased" /\ upload'[u].answer = upload[u].answer
          /\ DigestOf(u)' = DigestOf(u) /\ upload'[u].document = upload[u].document
      BY <1>4, HandlerFields DEF TakeLease, Goto, TypeOK, Handler, DigestOf
    <3>2. lease'[Lock(u)] = u /\ Lock(u)' = Lock(u)
      BY <1>4, <2>0, <3>1 DEF TakeLease, TypeOK, Lock
    <3> QED
      BY <1>4, <2>1, <3>1, <3>2
      DEF TakeLease, Excludes, OwnsItsRow, OwnsNothing, IsSupported, WasTold, Committed
  <2>2. CASE w # u
    BY <1>4, <2>0, <2>2, OthersKeepLocks DEF TakeLease, Goto, TypeOK
  <2> QED
    BY <2>1, <2>2
<1>5. ASSUME NEW u \in Uploads, Link(u)
      PROVE  Each(w)'
  <2>1. CASE w = u
    <3>1. /\ upload'[u].stage = "staged" /\ upload'[u].answer = upload[u].answer
          /\ DigestOf(u)' = DigestOf(u) /\ upload'[u].document = upload[u].document
          /\ upload'[u].created = (DigestOf(u) \notin objects)
      BY <1>5, HandlerFields DEF Link, TypeOK, Handler, DigestOf
    <3>2. upload'[u].created => rows[DigestOf(u)] = None
      BY <1>5, <3>1, HandlerFields DEF Link, DocumentsHaveBytes
    <3> QED
      BY <1>5, <2>1, <3>1, <3>2
      DEF Link, Excludes, OwnsItsRow, OwnsNothing, IsSupported, WasTold, Leased, Lock, Committed
  <2>2. CASE w # u
    BY <1>5, <2>2, EachFrame DEF Link, TypeOK
  <2> QED
    BY <2>1, <2>2
<1>6. ASSUME NEW u \in Uploads, TakeGuard(u)
      PROVE  Each(w)'
  <2>1. CASE w = u
    <3>1. /\ upload'[u].stage = "guarded" /\ upload'[u].answer = upload[u].answer
          /\ DigestOf(u)' = DigestOf(u) /\ upload'[u].document = upload[u].document
          /\ upload'[u].created = upload[u].created
      BY <1>6, HandlerFields DEF TakeGuard, Goto, TypeOK, Handler, DigestOf
    <3> QED
      BY <1>6, <2>1, <3>1
      DEF TakeGuard, Excludes, OwnsItsRow, OwnsNothing, IsSupported, WasTold, Leased, Lock, Committed
  <2>2. CASE w # u
    BY <1>6, <2>2, EachFrame DEF TakeGuard, Goto, TypeOK
  <2> QED
    BY <2>1, <2>2
<1>7. ASSUME NEW u \in Uploads, Decide(u)
      PROVE  Each(w)'
  <2>1. CASE w = u
    <3>1. CASE End(u, "cleaning", "refused")
      <4>1. /\ upload'[u].stage = "cleaning" /\ upload'[u].answer = "refused"
            /\ DigestOf(u)' = DigestOf(u) /\ upload'[u].created = upload[u].created
        BY <3>1, HandlerFields DEF End, TypeOK, Handler, DigestOf
      <4> QED
        BY <1>7, <2>1, <4>1
        DEF Decide, Excludes, OwnsItsRow, OwnsNothing, IsSupported, WasTold, Leased, Lock
    <3>2. CASE DigestOf(u) \in Supported /\ Committed(DigestOf(u)) /\ Accept(u, DocumentId(u))
      <4>1. /\ upload'[u].stage = "finishing" /\ DigestOf(u)' = DigestOf(u)
            /\ upload'[u].document = DocumentId(u)
        BY <3>2, HandlerFields DEF Accept, TypeOK, Handler, DigestOf
      <4> QED
        BY <1>7, <2>1, <3>2, <4>1
        DEF Decide, Excludes, OwnsItsRow, OwnsNothing, IsSupported, WasTold, Leased, Lock,
            Committed, DocumentId
    <3>3. CASE DigestOf(u) \in Supported /\ Goto(u, "absent")
      <4>1. /\ upload'[u].stage = "absent" /\ upload'[u].answer = upload[u].answer
            /\ DigestOf(u)' = DigestOf(u) /\ upload'[u].document = upload[u].document
            /\ upload'[u].created = upload[u].created
        BY <3>3, HandlerFields DEF Goto, TypeOK, Handler, DigestOf
      <4> QED
        BY <1>7, <2>1, <3>3, <4>1
        DEF Decide, Excludes, OwnsItsRow, OwnsNothing, IsSupported, WasTold, Leased, Lock, Committed
    <3> QED
      BY <1>7, <3>1, <3>2, <3>3 DEF Decide
  <2>2. CASE w # u
    <3>1. upload'[w] = upload[w]
      BY <1>7, <2>2 DEF Decide, End, Accept, Goto, TypeOK
    <3> QED
      BY <1>7, <3>1, EachFrame DEF Decide
  <2> QED
    BY <2>1, <2>2
<1>8. ASSUME NEW u \in Uploads, Insert(u)
      PROVE  Each(w)'
  <2>0. DigestOf(u) \in Digests /\ ~Committed(DigestOf(u)) /\ upload[u].stage \in Leased
    BY <1>8, HandlerFields DEF Insert, Committed, Leased
  <2>1. CASE w = u
    <3>1. /\ upload'[u].stage = "inserted" /\ upload'[u].answer = upload[u].answer
          /\ DigestOf(u)' = DigestOf(u) /\ upload'[u].document = upload[u].document
      BY <1>8, HandlerFields DEF Insert, Goto, TypeOK, Handler, DigestOf
    <3>2. rows'[DigestOf(u)] = [by |-> u, state |-> "open"]
      BY <1>8, <2>0 DEF Insert, TypeOK
    <3> QED
      BY <1>8, <2>0, <2>1, <3>1, <3>2
      DEF Insert, Excludes, OwnsItsRow, OwnsNothing, IsSupported, WasTold, Leased, Lock
  <2>2. CASE w # u
    <3>1. \A d \in Digests \ {DigestOf(u)} : rows'[d] = rows[d]
      BY <1>8 DEF Insert, TypeOK
    <3> QED
      BY <1>8, <2>0, <2>2, <3>1, OthersKeepRows DEF Insert, Goto, TypeOK
  <2> QED
    BY <2>1, <2>2
<1>9. ASSUME NEW u \in Uploads, InsertRefused(u)
      PROVE  Each(w)'
  <2>1. CASE w = u
    <3>1. /\ upload'[u].stage = "finishing" /\ DigestOf(u)' = DigestOf(u)
          /\ upload'[u].document = DocumentId(u)
      BY <1>9, HandlerFields DEF InsertRefused, Accept, TypeOK, Handler, DigestOf
    <3> QED
      BY <1>9, <2>1, <3>1
      DEF InsertRefused, Excludes, OwnsItsRow, OwnsNothing, IsSupported, WasTold, Leased, Lock,
          Committed, DocumentId
  <2>2. CASE w # u
    BY <1>9, <2>2, EachFrame DEF InsertRefused, Accept, TypeOK
  <2> QED
    BY <2>1, <2>2
<1>10. ASSUME NEW u \in Uploads, At(u, "inserted"), NEW s \in {"committed", "in doubt"},
              rows' = [rows EXCEPT ![DigestOf(u)].state = s]
       PROVE  /\ DigestOf(u) \in Digests /\ ~Committed(DigestOf(u)) /\ DocumentId(u) = u
              /\ \A d \in Digests \ {DigestOf(u)} : rows'[d] = rows[d]
              /\ rows'[DigestOf(u)] = [rows[DigestOf(u)] EXCEPT !.state = s]
              /\ rows[DigestOf(u)] \in Row
  <2>1. /\ DigestOf(u) \in Digests /\ rows[DigestOf(u)] \in Row /\ ~Committed(DigestOf(u))
        /\ DocumentId(u) = u
    BY <1>10, OwnRow DEF Committed, DocumentId
  <2>2. /\ \A d \in Digests \ {DigestOf(u)} : rows'[d] = rows[d]
        /\ rows'[DigestOf(u)] = [rows[DigestOf(u)] EXCEPT !.state = s]
    BY <1>10, <2>1 DEF TypeOK
  <2> QED
    BY <2>1, <2>2
<1>11. ASSUME NEW u \in Uploads, Commit(u)
       PROVE  Each(w)'
  <2>0. /\ DigestOf(u) \in Digests /\ ~Committed(DigestOf(u)) /\ DocumentId(u) = u
        /\ \A d \in Digests \ {DigestOf(u)} : rows'[d] = rows[d]
        /\ rows'[DigestOf(u)] = [rows[DigestOf(u)] EXCEPT !.state = "committed"]
        /\ rows[DigestOf(u)] \in Row /\ rows[DigestOf(u)].by = u
    BY <1>10, <1>11 DEF Commit, DocumentId
  <2>1. CASE w = u
    <3>0. /\ upload'[u].stage = "finishing" /\ DigestOf(u)' = DigestOf(u)
          /\ upload'[u].document = DocumentId(u)
      <4>1. Accept(u, DocumentId(u))
        BY <1>11 DEF Commit
      <4> QED
        BY <4>1, HandlerFields DEF Accept, TypeOK, Handler, DigestOf
    <3>1. /\ upload'[u].stage = "finishing" /\ DigestOf(u)' = DigestOf(u)
          /\ upload'[u].document = u
      BY <2>0, <3>0
    <3>2. rows'[DigestOf(u)].by = u /\ rows'[DigestOf(u)].state = "committed"
      BY <2>0 DEF Row
    <3>3. rows'[DigestOf(u)] # None
      BY <2>0, DocumentAssumption DEF Row
    <3>4. DigestOf(u) \in Supported
      BY <1>11 DEF Commit, IsSupported
    <3>5. OwnsItsRow(u)' /\ OwnsNothing(u)' /\ IsSupported(u)'
      BY <3>1 DEF OwnsItsRow, OwnsNothing, IsSupported
    <3>6. WasTold(u)'
      BY <3>1, <3>2, <3>3, <3>4 DEF WasTold, Committed
    <3>7. Excludes(u)'
      BY <1>11, <3>1 DEF Commit, Excludes, Leased, Lock
    <3> QED
      BY <2>1, <3>5, <3>6, <3>7
  <2>2. CASE w # u
    BY <1>11, <2>0, <2>2, OthersKeepRows DEF Commit, Accept, TypeOK, Leased
  <2> QED
    BY <2>1, <2>2
<1>12. ASSUME NEW u \in Uploads, CommitInDoubt(u)
       PROVE  Each(w)'
  <2>0. /\ DigestOf(u) \in Digests /\ ~Committed(DigestOf(u))
        /\ \A d \in Digests \ {DigestOf(u)} : rows'[d] = rows[d]
    BY <1>10, <1>12 DEF CommitInDoubt
  <2>1. CASE w = u
    <3>1. /\ upload'[u].stage = "finishing" /\ upload'[u].answer = "uncertain"
          /\ DigestOf(u)' = DigestOf(u)
      <4>1. End(u, "finishing", "uncertain")
        BY <1>12 DEF CommitInDoubt, AfterDoubt
      <4> QED
        BY <4>1, HandlerFields DEF End, TypeOK, Handler, DigestOf
    <3> QED
      BY <1>12, <2>1, <3>1
      DEF CommitInDoubt, Excludes, OwnsItsRow, OwnsNothing, IsSupported, WasTold, Leased, Lock
  <2>2. CASE w # u
    BY <1>12, <2>0, <2>2, OthersKeepRows DEF CommitInDoubt, End, TypeOK, Leased
  <2> QED
    BY <2>1, <2>2
<1>13. ASSUME NEW u \in Uploads, Fails(u)
       PROVE  Each(w)'
  <2>0. DigestOf(u) \in Digests /\ ~At(u, "idle") /\ upload[u].stage \in Leased
    BY <1>13, HandlerFields DEF Fails, Leased
  <2>1. CASE w = u
    <3>1. /\ upload'[u].stage = "cleaning" /\ upload'[u].answer = "refused"
          /\ DigestOf(u)' = DigestOf(u) /\ upload'[u].created = upload[u].created
      BY <1>13, HandlerFields DEF Fails, End, TypeOK, Handler, DigestOf
    <3>2. At(u, "inserted") => rows'[DigestOf(u)] = None
      BY <1>13, <2>0, OwnRow DEF Fails, RowsWithout, Pending
    <3>3. rows[DigestOf(u)] = None => rows'[DigestOf(u)] = None
      BY <1>13, <2>0, RolledBack DEF Fails
    <3>4. OwnsNothing(u)'
      BY <1>13, <3>1, <3>2, <3>3 DEF Fails, OwnsNothing
    <3>5. Excludes(u)'
      BY <1>13, <2>0, <3>1 DEF Fails, Excludes, Leased, Lock
    <3> QED
      BY <2>1, <3>1, <3>4, <3>5 DEF OwnsItsRow, IsSupported, WasTold
  <2>2. CASE w # u
    <3>1. ASSUME At(w, "inserted")
          PROVE  rows'[DigestOf(w)] = rows[DigestOf(w)]
      BY <1>13, <2>2, <3>1, OwnRow, RolledBack DEF Fails
    <3>2. ASSUME upload[w].stage \in Leased, rows[DigestOf(w)] = None
          PROVE  rows'[DigestOf(w)] = rows[DigestOf(w)]
      BY <1>13, <3>2, RolledBack, HandlerFields DEF Fails, Leased
    <3>3. ASSUME Committed(DigestOf(w)), ~At(w, "idle")
          PROVE  rows'[DigestOf(w)] = rows[DigestOf(w)]
      BY <1>13, <3>3, RolledBack, HandlerFields DEF Fails
    <3>4. upload'[w] = upload[w] /\ lease' = lease
      BY <1>13, <2>2 DEF Fails, End, TypeOK
    <3>5. CASE At(w, "idle")
      BY <3>4, <3>5 DEF Excludes, OwnsItsRow, OwnsNothing, IsSupported, WasTold, Leased
    <3>6. CASE ~At(w, "idle")
      BY <3>1, <3>2, <3>3, <3>4, <3>6, EachFrame
    <3> QED
      BY <3>5, <3>6
  <2> QED
    BY <2>1, <2>2
<1>14. ASSUME NEW u \in Uploads, RemoveIfCreated(u) \/ Finalize(u)
       PROVE  Each(w)'
  <2>1. CASE w = u
    <3>1. /\ upload'[u].stage = "releasing" /\ upload'[u].answer = upload[u].answer
          /\ DigestOf(u)' = DigestOf(u) /\ upload'[u].document = upload[u].document
      BY <1>14, HandlerFields DEF RemoveIfCreated, Finalize, Goto, TypeOK, Handler, DigestOf
    <3> QED
      BY <1>14, <2>1, <3>1
      DEF RemoveIfCreated, Finalize, Excludes, OwnsItsRow, OwnsNothing, IsSupported, WasTold,
          Leased, Committed
  <2>2. CASE w # u
    BY <1>14, <2>2, OthersKeepLocks DEF RemoveIfCreated, Finalize, Goto, TypeOK
  <2> QED
    BY <2>1, <2>2
<1>15. ASSUME NEW u \in Uploads, Release(u)
       PROVE  Each(w)'
  <2>1. CASE w = u
    <3>1. /\ upload'[u].stage = "ended" /\ upload'[u].answer = upload[u].answer
          /\ DigestOf(u)' = DigestOf(u) /\ upload'[u].document = upload[u].document
      BY <1>15, HandlerFields DEF Release, Goto, TypeOK, Handler, DigestOf
    <3> QED
      BY <1>15, <2>1, <3>1
      DEF Release, Excludes, OwnsItsRow, OwnsNothing, IsSupported, WasTold, Leased, Committed
  <2>2. CASE w # u
    BY <1>15, <2>2, EachFrame DEF Release, Goto, TypeOK
  <2> QED
    BY <2>1, <2>2
<1>16. ASSUME NEW u \in Uploads, ConnectionLost(u)
       PROVE  Each(w)'
  BY <1>16, EachFrame DEF ConnectionLost
<1>17. ASSUME NEW p \in Processes, Crash(p)
       PROVE  Each(w)'
  <2> DEFINE dead == {u \in Uploads : ProcessOf[u] = p /\ upload[u].stage \notin Over \cup {"idle"}}
  <2>1. /\ upload' = [u \in Uploads |->
             IF u \in dead THEN [upload[u] EXCEPT !.stage = "crashed"] ELSE upload[u]]
        /\ lease' = [s \in Stripes |-> IF lease[s] \in dead THEN None ELSE lease[s]]
        /\ rows' = [d \in Digests |->
             IF rows[d] # None /\ rows[d].by \in dead /\ Pending(d)
             THEN [rows[d] EXCEPT !.state = "in doubt"] ELSE rows[d]]
    BY <1>17 DEF Crash
  <2>2. \A d \in Digests : Committed(d) \/ rows[d] = None \/ rows[d].by \notin dead
          => rows'[d] = rows[d]
    BY <2>1 DEF Committed, Pending
  <2>3. CASE w \in dead
    <3>1. upload'[w] = [upload[w] EXCEPT !.stage = "crashed"]
      BY <2>1, <2>3
    <3>2. /\ upload'[w].stage = "crashed" /\ upload'[w].answer = upload[w].answer
          /\ DigestOf(w)' = DigestOf(w) /\ upload'[w].document = upload[w].document
      BY <3>1, HandlerFields DEF Handler, DigestOf
    <3>3. DigestOf(w) \in Digests
      BY <2>3, HandlerFields
    <3>4. WasTold(w)'
      BY <2>2, <3>2, <3>3 DEF WasTold, Committed
    <3> QED
      BY <3>2, <3>4 DEF Excludes, OwnsItsRow, OwnsNothing, IsSupported, Leased
  <2>4. CASE w \notin dead
    <3>1. upload'[w] = upload[w]
      BY <2>1, <2>4
    <3>2. CASE At(w, "idle")
      BY <3>1, <3>2 DEF Excludes, OwnsItsRow, OwnsNothing, IsSupported, WasTold, Leased
    <3>3. CASE ~At(w, "idle")
      <4>1. DigestOf(w) \in Digests /\ Lock(w) \in Stripes
        BY <3>3, HandlerFields
      <4>2. upload[w].stage \in Leased => lease'[Lock(w)] = lease[Lock(w)]
        BY <2>1, <2>4, <4>1 DEF Excludes
      <4>3. At(w, "inserted") \/ rows[DigestOf(w)] = None => rows'[DigestOf(w)] = rows[DigestOf(w)]
        BY <2>2, <2>4, <4>1, OwnRow
      <4>4. Committed(DigestOf(w)) => rows'[DigestOf(w)] = rows[DigestOf(w)]
        BY <2>2, <4>1
      <4> QED
        BY <3>1, <4>2, <4>3, <4>4, EachFrame
    <3> QED
      BY <3>2, <3>3
  <2> QED
    BY <2>3, <2>4
<1>18. ASSUME NEW d \in Digests, Resolve(d)
       PROVE  Each(w)'
  <2>1. rows[d] # None /\ rows[d].state = "in doubt" /\ lease' = lease /\ upload' = upload
        /\ \A e \in Digests \ {d} : rows'[e] = rows[e]
    BY <1>18 DEF Resolve, TypeOK
  <2>2. CASE At(w, "idle")
    BY <2>1, <2>2 DEF Excludes, OwnsItsRow, OwnsNothing, IsSupported, WasTold, Leased
  <2>3. CASE ~At(w, "idle")
    <3>1. DigestOf(w) \in Digests
      BY <2>3, HandlerFields
    <3>2. At(w, "inserted") \/ rows[DigestOf(w)] = None \/ Committed(DigestOf(w))
            => DigestOf(w) # d
      BY <2>1, OwnRow DEF Committed
    <3> QED
      BY <2>1, <3>1, <3>2, EachFrame
  <2> QED
    BY <2>2, <2>3
<1>19. CASE UNCHANGED vars
  BY <1>19, EachFrame DEF vars
<1> QED
  BY <1>1, <1>2, <1>3, <1>4, <1>5, <1>6, <1>7, <1>8, <1>9, <1>11, <1>12, <1>13, <1>14, <1>15,
     <1>16, <1>17, <1>18, <1>19 DEF Next

-----------------------------------------------------------------------------
(* No step takes the bytes of a row, or inserts a row without bytes.        *)
LEMMA BytesStep ==
  ASSUME TypeOK, \A u \in Uploads : Each(u), DocumentsHaveBytes, [Next]_vars
  PROVE  DocumentsHaveBytes'
<1> SUFFICES ASSUME NEW d \in Digests, rows'[d] # None
             PROVE  d \in objects'
  BY DEF DocumentsHaveBytes
<1>1. ASSUME rows'[d] = rows[d], objects \subseteq objects'
      PROVE  d \in objects'
  BY <1>1 DEF DocumentsHaveBytes
<1>2. ASSUME NEW u \in Uploads, Insert(u)
      PROVE  d \in objects'
  <2>1. CASE d = DigestOf(u)
    BY <1>2, <2>1 DEF Insert
  <2>2. CASE d # DigestOf(u)
    BY <1>1, <1>2, <2>2 DEF Insert, TypeOK
  <2> QED
    BY <2>1, <2>2
<1>3. ASSUME NEW u \in Uploads, Commit(u) \/ CommitInDoubt(u)
      PROVE  d \in objects'
  <2>1. CASE d = DigestOf(u)
    BY <1>3, <2>1 DEF Commit, CommitInDoubt
  <2>2. CASE d # DigestOf(u)
    BY <1>1, <1>3, <2>2 DEF Commit, CommitInDoubt, TypeOK
  <2> QED
    BY <2>1, <2>2
<1>4. ASSUME NEW u \in Uploads, Fails(u)
      PROVE  d \in objects'
  BY <1>1, <1>4, RolledBack DEF Fails
<1>5. ASSUME NEW u \in Uploads, RemoveIfCreated(u)
      PROVE  d \in objects'
  BY <1>5 DEF RemoveIfCreated, Removable, Each, OwnsNothing, At, DocumentsHaveBytes
<1>6. ASSUME NEW p \in Processes, Crash(p)
      PROVE  d \in objects'
  <2>1. rows[d] # None /\ objects' = objects
    BY <1>6 DEF Crash
  <2> QED
    BY <2>1 DEF DocumentsHaveBytes
<1>7. ASSUME NEW e \in Digests, Resolve(e)
      PROVE  d \in objects'
  <2>1. rows[d] # None /\ objects' = objects
    BY <1>7 DEF Resolve, TypeOK
  <2> QED
    BY <2>1 DEF DocumentsHaveBytes
<1> QED
  BY <1>1, <1>2, <1>3, <1>4, <1>5, <1>6, <1>7
  DEF Next, vars, Receive, StagingFails, BodyComplete, TakeLease, Link, TakeGuard, Decide,
      InsertRefused, Finalize, Release, ConnectionLost

(* Files of the storage root that are left over belong to an upload that    *)
(* still streams or that crashed.                                           *)
TempsHaveOwners == \A u \in temps : upload[u].stage \in Streaming \cup {"crashed"}

LEMMA TempsStep ==
  ASSUME TypeOK, TempsHaveOwners, [Next]_vars
  PROVE  TempsHaveOwners'
<1> SUFFICES ASSUME NEW v \in temps'
             PROVE  upload'[v].stage \in Streaming \cup {"crashed"}
  BY DEF TempsHaveOwners
<1>1. ASSUME v \in temps, upload'[v] = upload[v]
      PROVE  upload'[v].stage \in Streaming \cup {"crashed"}
  BY <1>1 DEF TempsHaveOwners
<1>2. ASSUME NEW u \in Uploads, NEW d \in Digests, Receive(u, d)
      PROVE  upload'[v].stage \in Streaming \cup {"crashed"}
  <2>1. CASE v = u
    BY <1>2, <2>1 DEF Receive, Idle, TypeOK, Streaming
  <2>2. CASE v # u
    BY <1>1, <1>2, <2>2 DEF Receive, TypeOK
  <2> QED
    BY <2>1, <2>2
<1>3. ASSUME NEW u \in Uploads, StagingFails(u) \/ Link(u)
      PROVE  upload'[v].stage \in Streaming \cup {"crashed"}
  <2>1. v \in temps /\ v # u /\ v \in Uploads
    BY <1>3 DEF StagingFails, Link, TypeOK
  <2>2. upload'[v] = upload[v]
    BY <1>3, <2>1 DEF StagingFails, Link, End, TypeOK
  <2> QED
    BY <1>1, <2>1, <2>2
<1>4. ASSUME NEW u \in Uploads, BodyComplete(u) \/ TakeLease(u)
      PROVE  upload'[v].stage \in Streaming \cup {"crashed"}
  <2>1. v \in temps
    BY <1>4 DEF BodyComplete, TakeLease
  <2>2. CASE v = u
    BY <1>4, <2>2, HandlerFields DEF BodyComplete, TakeLease, Goto, TypeOK, Handler, Streaming
  <2>3. CASE v # u
    BY <1>1, <1>4, <2>1, <2>3 DEF BodyComplete, TakeLease, Goto, TypeOK
  <2> QED
    BY <2>2, <2>3
<1>5. ASSUME NEW u \in Uploads, upload[u].stage \notin Streaming \cup {"crashed"},
             temps' = temps, NEW h, upload' = [upload EXCEPT ![u] = h]
      PROVE  upload'[v].stage \in Streaming \cup {"crashed"}
  <2>1. v \in temps /\ v # u
    BY <1>5 DEF TempsHaveOwners
  <2> QED
    BY <1>1, <1>5, <2>1 DEF TypeOK
<1>6. ASSUME NEW u \in Uploads,
             \/ TakeGuard(u) \/ Decide(u) \/ Insert(u) \/ InsertRefused(u) \/ Commit(u)
             \/ CommitInDoubt(u) \/ Fails(u) \/ RemoveIfCreated(u) \/ Finalize(u) \/ Release(u)
      PROVE  upload'[v].stage \in Streaming \cup {"crashed"}
  <2>1. upload[u].stage \notin Streaming \cup {"crashed"} /\ temps' = temps
    BY <1>6 DEF TakeGuard, Decide, Insert, InsertRefused, Commit, CommitInDoubt, Fails,
       RemoveIfCreated, Finalize, Release, At, Streaming
  <2>2. \E h : upload' = [upload EXCEPT ![u] = h]
    BY <1>6 DEF TakeGuard, Decide, Insert, InsertRefused, Commit, CommitInDoubt, Fails,
       RemoveIfCreated, Finalize, Release, Goto, End, Accept
  <2> QED
    BY <1>5, <2>1, <2>2
<1>7. ASSUME NEW p \in Processes, Crash(p)
      PROVE  upload'[v].stage \in Streaming \cup {"crashed"}
  <2>1. v \in temps /\ v \in Uploads
    BY <1>7 DEF Crash, TypeOK
  <2>2. upload'[v] = upload[v] \/ upload'[v] = [upload[v] EXCEPT !.stage = "crashed"]
    BY <1>7, <2>1 DEF Crash
  <2> QED
    BY <1>1, <2>1, <2>2, HandlerFields DEF Handler
<1> QED
  BY <1>1, <1>2, <1>3, <1>4, <1>6, <1>7 DEF Next, vars, ConnectionLost, Resolve

-----------------------------------------------------------------------------
(* Bytes without a document keep somebody who answers for them.             *)
LEMMA AccountStep ==
  ASSUME TypeOK, \A u \in Uploads : Each(u), \A d \in objects : Accounted(d), [Next]_vars,
         NEW e \in objects', e \in Digests
  PROVE  Accounted(e)'
<1> USE DEF At
<1>1. ASSUME Committed(e), rows'[e] = rows[e]
      PROVE  Accounted(e)'
  BY <1>1 DEF Accounted, Committed
<1>2. ASSUME NEW u \in Uploads, DigestOf(u) = e, upload'[u].digest = upload[u].digest,
             Answering(upload'[u])
      PROVE  Accounted(e)'
  BY <1>2 DEF Accounted, AnswersFor, DigestOf
<1>3. ASSUME NEW u \in Uploads, e \in objects, NEW h, upload' = [upload EXCEPT ![u] = h],
             Committed(e) => rows'[e] = rows[e],
             AnswersFor(u, e) => h.digest = upload[u].digest /\ Answering(h)
      PROVE  Accounted(e)'
  <2>1. ASSUME NEW v \in Uploads, AnswersFor(v, e)
        PROVE  Accounted(e)'
    <3>1. CASE v = u
      <4>1. upload'[u] = h
        BY <1>3 DEF TypeOK
      <4> QED
        BY <1>2, <1>3, <2>1, <3>1, <4>1 DEF AnswersFor
    <3>2. CASE v # u
      <4>1. upload'[v] = upload[v]
        BY <1>3, <3>2 DEF TypeOK
      <4> QED
        BY <1>2, <2>1, <4>1 DEF AnswersFor
    <3> QED
      BY <3>1, <3>2
  <2> QED
    BY <1>1, <1>3, <2>1 DEF Accounted
<1>4. ASSUME NEW u \in Uploads, NEW d \in Digests, Receive(u, d)
      PROVE  Accounted(e)'
  <2>1. ~AnswersFor(u, e)
    BY <1>4 DEF Receive, AnswersFor, Answering
  <2> QED
    BY <1>3, <1>4, <2>1 DEF Receive
<1>5. ASSUME NEW u \in Uploads, StagingFails(u) \/ BodyComplete(u) \/ TakeLease(u)
      PROVE  Accounted(e)'
  <2>1. ~AnswersFor(u, e)
    BY <1>5 DEF StagingFails, BodyComplete, TakeLease, AnswersFor, Answering, Streaming
  <2>2. \E h : upload' = [upload EXCEPT ![u] = h]
    BY <1>5 DEF StagingFails, BodyComplete, TakeLease, End, Goto
  <2>3. rows' = rows /\ objects' = objects
    BY <1>5 DEF StagingFails, BodyComplete, TakeLease
  <2> QED
    BY <1>3, <2>1, <2>2, <2>3
<1>6. ASSUME NEW u \in Uploads, Link(u)
      PROVE  Accounted(e)'
  <2>1. CASE e \in objects
    <3>1. ~AnswersFor(u, e)
      BY <1>6 DEF Link, AnswersFor, Answering
    <3>2. (\E h : upload' = [upload EXCEPT ![u] = h]) /\ rows' = rows
      BY <1>6 DEF Link
    <3> QED
      BY <1>3, <2>1, <3>1, <3>2
  <2>2. CASE e \notin objects
    <3>1. DigestOf(u) = e
      BY <1>6, <2>2 DEF Link
    <3>2. upload'[u].digest = upload[u].digest /\ upload'[u].stage = "staged" /\ upload'[u].created
      BY <1>6, <2>2, <3>1, HandlerFields DEF Link, TypeOK, Handler
    <3> QED
      BY <1>2, <3>1, <3>2 DEF Answering
  <2> QED
    BY <2>1, <2>2
(* The next stage of an upload that keeps its content and what it created.  *)
<1>7. ASSUME NEW u \in Uploads, e \in objects, NEW s \in {"guarded", "absent", "inserted"},
             Goto(u, s), Committed(e) => rows'[e] = rows[e]
      PROVE  Accounted(e)'
  <2> DEFINE h == [upload[u] EXCEPT !.stage = s]
  <2>1. AnswersFor(u, e) => h.digest = upload[u].digest /\ Answering(h)
    BY HandlerFields DEF AnswersFor, Answering, Handler
  <2>2. upload' = [upload EXCEPT ![u] = h]
    BY <1>7 DEF Goto
  <2> HIDE DEF h
  <2> QED
    BY <1>3, <1>7, <2>1, <2>2
<1>8. ASSUME NEW u \in Uploads, e \in objects, NEW s \in {"releasing", "ended"}, Goto(u, s),
             rows' = rows, upload[u].stage \in {"finishing", "releasing"}
      PROVE  Accounted(e)'
  <2> DEFINE h == [upload[u] EXCEPT !.stage = s]
  <2>1. AnswersFor(u, e) => h.digest = upload[u].digest /\ Answering(h)
    BY <1>8, HandlerFields DEF AnswersFor, Answering, Handler
  <2>2. upload' = [upload EXCEPT ![u] = h]
    BY <1>8 DEF Goto
  <2> HIDE DEF h
  <2> QED
    BY <1>3, <1>8, <2>1, <2>2
<1>9. ASSUME NEW u \in Uploads, e \in objects, Committed(e) => rows'[e] = rows[e],
             End(u, "cleaning", "refused") \/ End(u, "finishing", "uncertain")
      PROVE  Accounted(e)'
  <2> DEFINE h(s, a) == [upload[u] EXCEPT !.stage = s, !.answer = a]
  <2>1. AnswersFor(u, e) =>
          /\ h("cleaning", "refused").digest = upload[u].digest /\ Answering(h("cleaning", "refused"))
          /\ h("finishing", "uncertain").digest = upload[u].digest
          /\ Answering(h("finishing", "uncertain"))
    BY HandlerFields DEF AnswersFor, Answering, Handler
  <2>2. \/ upload' = [upload EXCEPT ![u] = h("cleaning", "refused")]
        \/ upload' = [upload EXCEPT ![u] = h("finishing", "uncertain")]
    BY <1>9 DEF End
  <2> HIDE DEF h
  <2> QED
    BY <1>3, <1>9, <2>1, <2>2
<1>10. ASSUME NEW u \in Uploads, e \in objects, NEW d, Accept(u, d),
              Committed(DigestOf(u))', Committed(e) => rows'[e] = rows[e]
       PROVE  Accounted(e)'
  <2>1. CASE DigestOf(u) = e
    <3>1. DigestOf(u)' = e
      BY <1>10, <2>1, HandlerFields DEF Accept, TypeOK, Handler, DigestOf
    <3> QED
      BY <1>10, <3>1 DEF Accounted
  <2>2. CASE DigestOf(u) # e
    <3>1. \E h : upload' = [upload EXCEPT ![u] = h]
      BY <1>10 DEF Accept
    <3> QED
      BY <1>3, <1>10, <2>2, <3>1 DEF AnswersFor
  <2> QED
    BY <2>1, <2>2
<1>11. ASSUME NEW u \in Uploads, TakeGuard(u) \/ Decide(u)
       PROVE  Accounted(e)'
  <2>1. e \in objects /\ rows' = rows
    BY <1>11 DEF TakeGuard, Decide
  <2>2. CASE Committed(DigestOf(u)) /\ Accept(u, DocumentId(u))
    <3>1. Committed(DigestOf(u))'
      BY <2>1, <2>2, HandlerFields DEF Accept, TypeOK, Handler, DigestOf, Committed
    <3> QED
      BY <1>10, <2>1, <2>2, <3>1
  <2>3. CASE Goto(u, "guarded") \/ Goto(u, "absent") \/ End(u, "cleaning", "refused")
    BY <1>7, <1>9, <2>1, <2>3
  <2> QED
    BY <1>11, <2>2, <2>3 DEF TakeGuard, Decide
<1>12. ASSUME NEW u \in Uploads, Insert(u)
       PROVE  Accounted(e)'
  <2>1. Committed(e) => rows'[e] = rows[e]
    BY <1>12 DEF Insert, Committed, TypeOK
  <2> QED
    BY <1>7, <1>12, <2>1 DEF Insert
<1>13. ASSUME NEW u \in Uploads, InsertRefused(u)
       PROVE  Accounted(e)'
  <2>1. Committed(DigestOf(u))'
    BY <1>13, HandlerFields DEF InsertRefused, Accept, TypeOK, Handler, DigestOf, Committed
  <2> QED
    BY <1>10, <1>13, <2>1 DEF InsertRefused
<1>14. ASSUME NEW u \in Uploads, Commit(u)
       PROVE  Accounted(e)'
  <2>1. Accept(u, DocumentId(u)) /\ rows' = [rows EXCEPT ![DigestOf(u)].state = "committed"]
        /\ At(u, "inserted") /\ e \in objects
    BY <1>14 DEF Commit
  <2>2. DigestOf(u) \in Digests /\ rows[DigestOf(u)] \in Row /\ rows[DigestOf(u)].state = "open"
    BY <2>1, OwnRow DEF Each
  <2>3. DigestOf(u)' = DigestOf(u)
    BY <2>1, HandlerFields DEF Accept, TypeOK, Handler, DigestOf
  <2>4. /\ rows'[DigestOf(u)] = [rows[DigestOf(u)] EXCEPT !.state = "committed"]
        /\ e # DigestOf(u) => rows'[e] = rows[e]
    BY <2>1, <2>2 DEF TypeOK
  <2>5. rows'[DigestOf(u)] \in Row /\ rows'[DigestOf(u)].state = "committed"
    BY <2>2, <2>4 DEF Row
  <2>6. Committed(DigestOf(u))'
    BY <2>3, <2>5, DocumentAssumption DEF Committed
  <2>7. Committed(e) => rows'[e] = rows[e]
    BY <2>2, <2>4 DEF Committed
  <2> QED
    BY <1>10, <2>1, <2>6, <2>7
<1>15. ASSUME NEW u \in Uploads, CommitInDoubt(u)
       PROVE  Accounted(e)'
  <2>1. End(u, "finishing", "uncertain") /\ At(u, "inserted") /\ e \in objects
        /\ rows' = [rows EXCEPT ![DigestOf(u)].state = "in doubt"]
    BY <1>15 DEF CommitInDoubt, AfterDoubt
  <2>2. ~Committed(DigestOf(u))
    BY <2>1, OwnRow DEF Committed, Each
  <2>3. Committed(e) => rows'[e] = rows[e]
    BY <2>1, <2>2 DEF TypeOK
  <2> QED
    BY <1>9, <2>1, <2>3
<1>16. ASSUME NEW u \in Uploads, Fails(u)
       PROVE  Accounted(e)'
  <2>1. Committed(e) => rows'[e] = rows[e]
    BY <1>16, RolledBack DEF Fails
  <2> QED
    BY <1>9, <1>16, <2>1 DEF Fails
<1>17. ASSUME NEW u \in Uploads, RemoveIfCreated(u)
       PROVE  Accounted(e)'
  <2>1. ~AnswersFor(u, e)
    BY <1>17 DEF RemoveIfCreated, Removable, AnswersFor, Answering
  <2>2. (\E h : upload' = [upload EXCEPT ![u] = h]) /\ rows' = rows /\ e \in objects
    BY <1>17 DEF RemoveIfCreated, Goto
  <2> QED
    BY <1>3, <2>1, <2>2
<1>18. ASSUME NEW u \in Uploads, Finalize(u) \/ Release(u)
       PROVE  Accounted(e)'
  BY <1>8, <1>18 DEF Finalize, Release
<1>19. ASSUME NEW p \in Processes, Crash(p)
       PROVE  Accounted(e)'
  <2>1. e \in objects
    BY <1>19 DEF Crash
  <2>2. CASE Committed(e)
    BY <1>1, <1>19, <2>2 DEF Crash, Committed, Pending
  <2>3. ASSUME NEW u \in Uploads, AnswersFor(u, e)
        PROVE  Accounted(e)'
    <3>1. upload'[u] = upload[u] \/ upload'[u] = [upload[u] EXCEPT !.stage = "crashed"]
      BY <1>19 DEF Crash
    <3>2. upload'[u].digest = upload[u].digest /\ Answering(upload'[u])
      BY <2>3, <3>1, HandlerFields DEF AnswersFor, Answering, Handler
    <3> QED
      BY <1>2, <2>3, <3>2 DEF AnswersFor
  <2> QED
    BY <2>1, <2>2, <2>3 DEF Accounted
<1>20. ASSUME e \in objects, upload' = upload, Committed(e) => rows'[e] = rows[e]
       PROVE  Accounted(e)'
  BY <1>1, <1>2, <1>20 DEF Accounted, AnswersFor
<1>21. ASSUME NEW d \in Digests, Resolve(d)
       PROVE  Accounted(e)'
  <2>1. Committed(e) => rows'[e] = rows[e]
    BY <1>21 DEF Resolve, Committed, TypeOK
  <2> QED
    BY <1>20, <1>21, <2>1 DEF Resolve
<1> QED
  BY <1>4, <1>5, <1>6, <1>11, <1>12, <1>13, <1>14, <1>15, <1>16, <1>17, <1>18, <1>19, <1>20, <1>21
  DEF Next, vars, ConnectionLost

-----------------------------------------------------------------------------
(* The invariant behind the uploads holds of every behaviour.               *)
THEOREM UploadsAreSafe == Spec => []UploadInvariant
<1>1. UploadInvariant <=> /\ TypeOK /\ DocumentsHaveBytes /\ TempsHaveOwners
                          /\ \A u \in Uploads : Each(u)
                          /\ \A d \in objects : Accounted(d)
  BY DEF UploadInvariant, Each, TempsHaveOwners
<1>2. Init => UploadInvariant
  <2> SUFFICES ASSUME Init PROVE UploadInvariant
    OBVIOUS
  <2>1. TypeOK
    BY DocumentAssumption DEF Init, TypeOK, Idle, Handler, Stages, Answers
  <2>2. \A u \in Uploads : upload[u].stage = "idle" /\ upload[u].answer = "none"
    BY DEF Init, Idle
  <2>3. \A u \in Uploads : Each(u)
    BY <2>2 DEF Each, Excludes, OwnsItsRow, OwnsNothing, IsSupported, WasTold, At, Leased
  <2> QED
    BY <1>1, <2>1, <2>3 DEF Init, DocumentsHaveBytes, TempsHaveOwners
<1>3. UploadInvariant /\ [Next]_vars => UploadInvariant'
  <2> SUFFICES ASSUME UploadInvariant, [Next]_vars PROVE UploadInvariant'
    OBVIOUS
  <2>1. TypeOK'
    BY <1>1, TypeStep DEF Each
  <2>2. \A u \in Uploads : Each(u)'
    BY <1>1, <2>1, EachStep
  <2>3. DocumentsHaveBytes' /\ TempsHaveOwners'
    BY <1>1, BytesStep, TempsStep
  <2>4. \A d \in objects' : Accounted(d)'
    BY <1>1, <2>1, AccountStep DEF TypeOK
  <2>5. /\ TypeOK' /\ DocumentsHaveBytes' /\ TempsHaveOwners'
        /\ (\A u \in Uploads : Each(u))' /\ (\A d \in objects : Accounted(d))'
    BY <2>1, <2>2, <2>3, <2>4
  <2> QED
    BY <2>5 DEF UploadInvariant, Each, TempsHaveOwners
<1> QED
  BY <1>2, <1>3, PTL DEF Spec

(* Every variable keeps its type.                                           *)
THEOREM UploadTypes == Spec => []TypeOK
BY UploadsAreSafe, PTL DEF UploadInvariant

(* No failure, crash or lost commit takes the bytes of a document.          *)
THEOREM DocumentsKeepBytes == Spec => []DocumentsHaveBytes
BY UploadsAreSafe, PTL DEF UploadInvariant

(* Everybody who is told of a document for some content is told of the one. *)
THEOREM OneDocumentForEach == Spec => []OneDocumentEach
<1>1. UploadInvariant => OneDocumentEach
  BY DEF UploadInvariant, OneDocumentEach, WasTold
<1> QED
  BY <1>1, UploadsAreSafe, PTL

(* Bytes and temporary files without a document are those of an upload at   *)
(* work, crashed, or without knowledge of its commit.                       *)
THEOREM NothingIsLeftBehind == Spec => []NothingIsLeft
<1>1. UploadInvariant => NothingIsLeft
  <2> SUFFICES ASSUME UploadInvariant, NEW d \in objects, rows[d] = None
               PROVE  \E u \in Uploads :
                        /\ DigestOf(u) = d /\ upload[u].created
                        /\ upload[u].stage \in Handling \cup {"crashed"}
                           \/ upload[u].answer = "uncertain"
    BY DEF UploadInvariant, NothingIsLeft
  <2>1. PICK u \in Uploads : AnswersFor(u, d)
    BY DEF UploadInvariant, Accounted, Committed
  <2> QED
    BY <2>1 DEF AnswersFor, Answering, Handling, Leased
<1> QED
  BY <1>1, UploadsAreSafe, PTL

(* The storage and the table of documents tell the same.                    *)
THEOREM BytesAndDocuments == Spec => []BytesFollowDocuments
BY DocumentsKeepBytes, NothingIsLeftBehind, PTL DEF BytesFollowDocuments

-----------------------------------------------------------------------------
(* Reviews                                                                    *)
-----------------------------------------------------------------------------
Local(e) == run[e].provider = "local-paddleocr"

(* What the check of a local reading found, of the specification of then.     *)
Lines(e, q) ==
  /\ q.spec \in SpecVersions
  /\ DOMAIN q.fields = DOMAIN run[e].fields
  /\ \A key \in DOMAIN q.fields :
       \/ q.fields[key].disposition = "UNMAPPED" /\ q.fields[key].target = None
       \/ q.fields[key].disposition = "MAP" /\ q.fields[key].target \in Codes(q.spec)
  /\ \A a, b \in DOMAIN q.fields :
       /\ q.fields[a].disposition = "MAP" /\ q.fields[b].disposition = "MAP"
       /\ q.fields[a].target = q.fields[b].target
       => a = b

AskedReviews ==
  \A c \in Reviews : review[c].at \in {"asked", "checked"} =>
    review[c].request \in Requests /\ review[c].request.run \in Visible
CheckedReviews ==
  \A c \in Reviews : review[c].at = "checked" /\ Local(review[c].request.run) =>
    Lines(review[c].request.run, review[c].request)

(* A confirmed run tells which review confirmed it, and what it made of it.   *)
ConfirmedOf(e, c) ==
  /\ c \in Reviews /\ review[c].at = "ended"
  /\ link = review[c].request.allocation
  /\ Local(e) => /\ Lines(e, review[c].request)
                 /\ \A key \in DOMAIN run[e].fields :
                      run[e].fields[key].target = review[c].request.fields[key].target
ConfirmedRuns == \A e \in Confirmed : ConfirmedOf(e, run[e].by)
OneConfirmed ==
  /\ \A d, e \in Confirmed : d = e
  /\ link # None => Confirmed # {}

(* An extraction inserts its run as it ends.                                  *)
InsertedOnce == \A e \in Visible : extraction[e].at = "ended"

ReadingInvariant ==
  ReadingTypeOK /\ InsertedOnce /\ AskedReviews /\ CheckedReviews /\ ConfirmedRuns /\ OneConfirmed

-----------------------------------------------------------------------------
LEMMA RunFields ==
  ASSUME NEW row \in Runs
  PROVE  /\ row # None
         /\ row.status \in {"REVIEW_REQUIRED", "CONFIRMED"}
         /\ DOMAIN row.fields \subseteq Targets
<1>1. PICK x \in Candidates, status \in {"REVIEW_REQUIRED", "CONFIRMED"},
           version \in {2, 3}, by \in {{None}, Reviews} :
        row \in RunsOf(x, status, version, by)
  BY DEF Runs
<1>2. DOMAIN row.fields = x.keys /\ row.status = status
  BY <1>1 DEF RunsOf
<1> QED
  BY <1>1, <1>2, ReadingAssumption DEF Targets, ReadingAssumption

(* What an extraction inserts, and what a confirmation makes of a run.        *)
LEMMA InsertedRun ==
  ASSUME NEW x \in Candidates
  PROVE  RunRow(x.keys, x.provider) \in Runs
<1>1. [key \in x.keys |-> Unreviewed] \in [x.keys -> [target : Targets, confirmed : BOOLEAN]]
  BY DEF Unreviewed, Targets
<1>2. RunRow(x.keys, x.provider) \in RunsOf(x, "REVIEW_REQUIRED", 2, {None})
  BY <1>1 DEF RunRow, RunsOf
<1> QED
  BY <1>2 DEF Runs

LEMMA ConfirmedRun ==
  ASSUME NEW row \in Runs, row.status # "CONFIRMED", NEW c \in Reviews,
         NEW fields \in [DOMAIN row.fields -> [target : Targets, confirmed : BOOLEAN]]
  PROVE  [status |-> "CONFIRMED", provider |-> row.provider, fields |-> fields,
          version |-> row.version + 1, by |-> c] \in Runs
<1>1. PICK x \in Candidates : row \in RunsOf(x, "REVIEW_REQUIRED", 2, {None})
  <2>1. ASSUME NEW y \in Candidates PROVE row \notin RunsOf(y, "CONFIRMED", 3, Reviews)
    BY DEF RunsOf
  <2>2. row \in UNION {RunsOf(y, "REVIEW_REQUIRED", 2, {None}) : y \in Candidates}
    BY <2>1 DEF Runs
  <2>3. PICK readings \in {RunsOf(y, "REVIEW_REQUIRED", 2, {None}) : y \in Candidates} : row \in readings
    BY <2>2
  <2> QED
    BY <2>3
<1>2. DOMAIN row.fields = x.keys /\ row.version + 1 = 3 /\ row.provider = x.provider
  BY <1>1 DEF RunsOf
<1>3. [status |-> "CONFIRMED", provider |-> row.provider, fields |-> fields,
       version |-> row.version + 1, by |-> c] \in RunsOf(x, "CONFIRMED", 3, Reviews)
  BY <1>2 DEF RunsOf
<1> QED
  BY <1>3 DEF Runs

-----------------------------------------------------------------------------
LEMMA ReadingBegins == InitReading => ReadingInvariant
<1> SUFFICES ASSUME InitReading PROVE ReadingInvariant
  OBVIOUS
<1>1. Confirmed = {}
  BY DEF InitReading, Confirmed, Visible
<1>2. ReadingTypeOK
  BY DEF InitReading, ReadingTypeOK, Calls
<1>3. InsertedOnce /\ AskedReviews /\ CheckedReviews
  BY DEF InitReading, InsertedOnce, AskedReviews, CheckedReviews, Visible
<1> QED
  BY <1>1, <1>2, <1>3 DEF InitReading, ReadingInvariant, ConfirmedRuns, OneConfirmed
-----------------------------------------------------------------------------
(* Types.                                                                     *)
LEMMA EndsExtraction ==
  ASSUME ReadingTypeOK, NEW e \in Extractions, NEW answer \in Ended, EndExtraction(e, answer)
  PROVE  /\ extraction' \in [Extractions -> [at : {"idle", "reading", "ended"},
                                           candidate : Candidates \cup {None},
                                           answer : Ended \cup {None}]]
         /\ holder' \in Extractions \cup {None}
         /\ locked' \in [Calls -> SUBSET Extractions]
         /\ extraction'[e].at = "ended"
         /\ \A d \in Extractions \ {e} : extraction'[d] = extraction[d]
         /\ extraction'[e].at = "ended"
         /\ \A d \in Extractions \ {e} : extraction'[d] = extraction[d]
<1>1. extraction' \in [Extractions -> [at : {"idle", "reading", "ended"},
                                       candidate : Candidates \cup {None},
                                       answer : Ended \cup {None}]]
  <2>1. extraction' = [extraction EXCEPT ![e].at = "ended", ![e].answer = answer]
    BY DEF EndExtraction
  <2>2. extraction \in [Extractions -> [at : {"idle", "reading", "ended"},
                                       candidate : Candidates \cup {None},
                                       answer : Ended \cup {None}]]
    BY DEF ReadingTypeOK
  <2> QED
    BY <2>1, <2>2
<1>2. holder' \in Extractions \cup {None}
  BY DEF ReadingTypeOK, EndExtraction
<1>3. locked' \in [Calls -> SUBSET Extractions]
  BY DEF ReadingTypeOK, EndExtraction
<1>4. extraction'[e].at = "ended" /\ \A d \in Extractions \ {e} : extraction'[d] = extraction[d]
  BY DEF ReadingTypeOK, EndExtraction
<1> QED
  BY <1>1, <1>2, <1>3, <1>4

LEMMA EndsReview ==
  ASSUME ReadingTypeOK, NEW c \in Reviews, NEW answer \in Ended, EndReview(c, answer)
  PROVE  /\ review' \in [Reviews -> [at : {"idle", "asked", "checked", "ended"},
                                   request : Requests \cup {None},
                                   answer : Ended \cup {None}]]
         /\ locked' \in [Calls -> SUBSET Extractions]
         /\ review'[c].at = "ended"
         /\ \A d \in Reviews : review'[d].request = review[d].request
         /\ \A d \in Reviews \ {c} : review'[d] = review[d]
<1>1. review' \in [Reviews -> [at : {"idle", "asked", "checked", "ended"},
                               request : Requests \cup {None},
                               answer : Ended \cup {None}]]
  BY DEF ReadingTypeOK, EndReview
<1>2. locked' \in [Calls -> SUBSET Extractions]
  BY DEF ReadingTypeOK, EndReview
<1>3. review'[c].at = "ended" /\ \A d \in Reviews \ {c} : review'[d] = review[d]
  BY DEF ReadingTypeOK, EndReview
<1>4. \A d \in Reviews : review'[d].request = review[d].request
  BY DEF ReadingTypeOK, EndReview
<1> QED
  BY <1>1, <1>2, <1>3, <1>4

LEMMA FieldsOfConfirmed ==
  ASSUME ReadingInvariant, NEW c \in Reviews, review[c].at = "checked"
  PROVE  LET q == review[c].request  e == q.run IN
         /\ e \in Extractions /\ run[e] \in Runs
         /\ DOMAIN ConfirmedFields(e, q) = DOMAIN run[e].fields
         /\ ConfirmedFields(e, q)
              \in [DOMAIN run[e].fields -> [target : Targets, confirmed : BOOLEAN]]
<1> DEFINE q == review[c].request
           e == q.run
<1>1. q \in Requests /\ e \in Visible
  BY DEF ReadingInvariant, AskedReviews
<1>2. e \in Extractions /\ run[e] \in Runs
  BY <1>1 DEF Visible, ReadingInvariant, ReadingTypeOK
<1>3. ASSUME NEW key \in DOMAIN run[e].fields
      PROVE  ConfirmedFields(e, q)[key] \in [target : Targets, confirmed : BOOLEAN]
  <2>1. CASE Local(e)
    <3>1. Lines(e, q)
      BY <2>1 DEF ReadingInvariant, CheckedReviews
    <3>2. q.fields[key].target \in Targets
      BY <3>1 DEF Lines, Targets
    <3> QED
      BY <2>1, <3>2 DEF ConfirmedFields, Local
  <2>2. CASE ~Local(e)
    <3>1. key \in Targets
      BY <1>2, RunFields
    <3> QED
      BY <2>2, <3>1 DEF ConfirmedFields, Local
  <2> QED
    BY <2>1, <2>2
<1>4. DOMAIN ConfirmedFields(e, q) = DOMAIN run[e].fields
  BY DEF ConfirmedFields
<1>5. ConfirmedFields(e, q) = [key \in DOMAIN run[e].fields |-> ConfirmedFields(e, q)[key]]
  BY DEF ConfirmedFields
<1> QED
  BY <1>2, <1>3, <1>4, <1>5
-----------------------------------------------------------------------------
(* The steps that leave the runs and the link as they are: what an ended      *)
(* review confirmed still stands.                                             *)
LEMMA RunsStay ==
  ASSUME ReadingInvariant, ReadingTypeOK', UNCHANGED <<run, link, extraction>>,
         NEW c \in Reviews, \A d \in Reviews \ {c} : review'[d] = review[d],
         review[c].at # "ended" \/ review'[c] = review[c],
         review'[c].at \in {"asked", "checked"} =>
           review'[c].request \in Requests /\ review'[c].request.run \in Visible,
         review'[c].at = "checked" /\ Local(review'[c].request.run) =>
           Lines(review'[c].request.run, review'[c].request)
  PROVE  ReadingInvariant'
<1>1. Visible' = Visible /\ Confirmed' = Confirmed
  BY DEF Visible, Confirmed
<1>2. \A e : Local(e)' <=> Local(e)
  BY DEF Local
<1>3. \A e, q : Lines(e, q)' <=> Lines(e, q)
  BY DEF Lines
<1>4. AskedReviews'
  BY <1>1 DEF AskedReviews, ReadingInvariant
<1>5. CheckedReviews'
  BY <1>2, <1>3 DEF CheckedReviews, ReadingInvariant
<1>6. ConfirmedRuns'
  <2> SUFFICES ASSUME NEW e \in Confirmed PROVE ConfirmedOf(e, run[e].by)'
    BY <1>1 DEF ConfirmedRuns
  <2>1. ConfirmedOf(e, run[e].by)
    BY DEF ReadingInvariant, ConfirmedRuns
  <2>2. review'[run[e].by] = review[run[e].by]
    BY <2>1 DEF ConfirmedOf
  <2> QED
    BY <2>1, <2>2, <1>2, <1>3 DEF ConfirmedOf
<1>7. OneConfirmed' /\ InsertedOnce'
  BY <1>1 DEF OneConfirmed, InsertedOnce, ReadingInvariant
<1> QED
  BY <1>4, <1>5, <1>6, <1>7 DEF ReadingInvariant

LEMMA ReviewsStay ==
  ASSUME ReadingInvariant, ReadingTypeOK', UNCHANGED <<run, link, review>>,
         \A e \in Extractions : extraction[e].at = "ended" => extraction'[e].at = "ended"
  PROVE  ReadingInvariant'
<1>1. Visible' = Visible /\ Confirmed' = Confirmed
  BY DEF Visible, Confirmed
<1>2. AskedReviews' /\ CheckedReviews'
  BY <1>1 DEF AskedReviews, CheckedReviews, ReadingInvariant, Local, Lines
<1>3. \A e, c : ConfirmedOf(e, c)' <=> ConfirmedOf(e, c)
  BY DEF ConfirmedOf, Local, Lines
<1>4. ConfirmedRuns' /\ OneConfirmed'
  BY <1>1, <1>3 DEF ConfirmedRuns, OneConfirmed, ReadingInvariant
<1>5. InsertedOnce'
  BY <1>1 DEF InsertedOnce, ReadingInvariant, Visible
<1> QED
  BY <1>2, <1>4, <1>5 DEF ReadingInvariant

LEMMA ReviewIsRefused ==
  ASSUME ReadingInvariant, NEW c \in Reviews, NEW answer \in Ended, EndReview(c, answer),
         review[c].at # "ended", UNCHANGED <<run, link, holder, extraction>>,
         spec' \in SpecVersions
  PROVE  ReadingInvariant'
<1>1. ReadingTypeOK
  BY DEF ReadingInvariant
<1>2. /\ review' \in [Reviews -> [at : {"idle", "asked", "checked", "ended"},
                                 request : Requests \cup {None},
                                 answer : Ended \cup {None}]]
      /\ locked' \in [Calls -> SUBSET Extractions]
      /\ review'[c].at = "ended"
      /\ \A d \in Reviews \ {c} : review'[d] = review[d]
  BY <1>1, EndsReview
<1>3. ReadingTypeOK'
  BY <1>1, <1>2 DEF ReadingTypeOK
<1> QED
  BY <1>2, <1>3, RunsStay

LEMMA ExtractionIsRefused ==
  ASSUME ReadingInvariant, NEW e \in Extractions, NEW answer \in Ended,
         EndExtraction(e, answer), UNCHANGED <<run, link, review, spec>>
  PROVE  ReadingInvariant'
<1>1. ReadingTypeOK
  BY DEF ReadingInvariant
<1>2. /\ extraction' \in [Extractions -> [at : {"idle", "reading", "ended"},
                                         candidate : Candidates \cup {None},
                                         answer : Ended \cup {None}]]
      /\ holder' \in Extractions \cup {None}
      /\ locked' \in [Calls -> SUBSET Extractions]
      /\ extraction'[e].at = "ended"
      /\ \A d \in Extractions \ {e} : extraction'[d] = extraction[d]
  BY <1>1, EndsExtraction
<1>3. ReadingTypeOK'
  BY <1>1, <1>2 DEF ReadingTypeOK
<1>4. \A d \in Extractions : extraction[d].at = "ended" => extraction'[d].at = "ended"
  BY <1>2
<1> QED
  BY <1>3, <1>4, ReviewsStay

-----------------------------------------------------------------------------
(* Each step keeps the invariant.                                             *)
LEMMA ExtractionBegins ==
  ASSUME ReadingInvariant, NEW e \in Extractions, BeginExtraction(e)
  PROVE  ReadingInvariant'
<1>1. ReadingTypeOK /\ UNCHANGED <<run, link, review, spec>>
  BY DEF ReadingInvariant, BeginExtraction
<1>2. CASE Confirmed # {}
  <2>1. EndExtraction(e, "conflict")
    BY <1>2 DEF BeginExtraction
  <2> QED
    BY <1>1, <2>1, ExtractionIsRefused DEF Ended
<1>3. CASE Confirmed = {}
  <2>1. /\ holder' = e /\ locked' = locked
        /\ extraction' = [extraction EXCEPT ![e].at = "reading"]
    BY <1>3 DEF BeginExtraction
  <2>2. ReadingTypeOK'
    BY <1>1, <2>1 DEF ReadingTypeOK
  <2>3. \A d \in Extractions : extraction[d].at = "ended" => extraction'[d].at = "ended"
    BY <1>1, <2>1 DEF ReadingTypeOK, BeginExtraction
  <2> QED
    BY <1>1, <2>2, <2>3, ReviewsStay
<1> QED
  BY <1>2, <1>3

LEMMA CandidateIsRead ==
  ASSUME ReadingInvariant, NEW e \in Extractions, NEW x \in Candidates, Read(e, x)
  PROVE  ReadingInvariant'
<1>1. /\ ReadingTypeOK /\ UNCHANGED <<run, link, holder, locked, review, spec>>
      /\ extraction' = [extraction EXCEPT ![e].candidate = x]
  BY DEF ReadingInvariant, Read
<1>2. ReadingTypeOK'
  BY <1>1 DEF ReadingTypeOK
<1>3. \A d \in Extractions : extraction[d].at = "ended" => extraction'[d].at = "ended"
  BY <1>1 DEF ReadingTypeOK
<1> QED
  BY <1>1, <1>2, <1>3, ReviewsStay

(* A run is added only while none is confirmed.                               *)
LEMMA CandidatePersists ==
  ASSUME ReadingInvariant, NEW e \in Extractions, PersistCandidate(e)
  PROVE  ReadingInvariant'
<1>1. ReadingTypeOK /\ UNCHANGED <<link, review, spec>>
  BY DEF ReadingInvariant, PersistCandidate
<1>2. CASE Confirmed # {}
  <2>1. EndExtraction(e, "server error") /\ run' = run
    BY <1>2 DEF PersistCandidate
  <2> QED
    BY <1>1, <2>1, ExtractionIsRefused DEF Ended
<1>3. CASE Confirmed = {}
  <2> DEFINE x == extraction[e].candidate
             row == RunRow(x.keys, x.provider)
  <2>1. run' = [run EXCEPT ![e] = row] /\ EndExtraction(e, "ok")
    BY <1>3 DEF PersistCandidate
  <2>2. x \in Candidates
    BY <1>1 DEF PersistCandidate, ReadingTypeOK
  <2>3. row \in Runs /\ row # None /\ row.status = "REVIEW_REQUIRED"
    BY <2>2, InsertedRun, RunFields DEF RunRow
  <2>4. ReadingTypeOK'
    <3>1. /\ extraction' \in [Extractions -> [at : {"idle", "reading", "ended"},
                                           candidate : Candidates \cup {None},
                                           answer : Ended \cup {None}]]
          /\ holder' \in Extractions \cup {None}
          /\ locked' \in [Calls -> SUBSET Extractions]
          /\ extraction'[e].at = "ended"
          /\ \A d \in Extractions \ {e} : extraction'[d] = extraction[d]
      BY <1>1, <2>1, EndsExtraction DEF Ended
    <3>2. run' \in [Extractions -> Runs \cup {None}]
      BY <1>1, <2>1, <2>3 DEF ReadingTypeOK
    <3> QED
      BY <1>1, <3>1, <3>2 DEF ReadingTypeOK
  <2> HIDE DEF row
  <2>5. e \notin Visible
    BY DEF PersistCandidate, ReadingInvariant, InsertedOnce
  <2>6. Visible' = Visible \cup {e} /\ \A d \in Visible : run'[d] = run[d]
    BY <1>1, <2>1, <2>3, <2>5 DEF ReadingTypeOK, Visible
  <2>7. run'[e].status = "REVIEW_REQUIRED"
    BY <1>1, <2>1, <2>3 DEF ReadingTypeOK
  <2>8. Confirmed' = {}
    BY <1>3, <2>6, <2>7 DEF Confirmed
  <2>9. link = None
    BY <1>3 DEF ReadingInvariant, OneConfirmed
  <2>10. InsertedOnce'
    <3>1. extraction'[e].at = "ended"
          /\ \A d \in Extractions \ {e} : extraction'[d] = extraction[d]
      BY <1>1, <2>1, EndsExtraction DEF Ended
    <3> QED
      BY <3>1, <2>6 DEF InsertedOnce, ReadingInvariant, Visible
  <2>11. AskedReviews'
    BY <1>1, <2>6 DEF AskedReviews, ReadingInvariant
  <2>12. CheckedReviews'
    <3> SUFFICES ASSUME NEW c \in Reviews, review[c].at = "checked",
                        Local(review[c].request.run)'
                 PROVE  Lines(review[c].request.run, review[c].request)'
      BY <1>1 DEF CheckedReviews
    <3>1. review[c].request.run \in Visible
      BY DEF ReadingInvariant, AskedReviews
    <3>2. run'[review[c].request.run] = run[review[c].request.run]
      BY <2>6, <3>1
    <3>3. Local(review[c].request.run)
      BY <1>1, <3>2 DEF Local
    <3>4. Lines(review[c].request.run, review[c].request)
      BY <3>3 DEF ReadingInvariant, CheckedReviews
    <3> QED
      BY <1>1, <3>2, <3>4 DEF Lines
  <2> QED
    BY <1>1, <2>4, <2>8, <2>9, <2>10, <2>11, <2>12
    DEF ReadingInvariant, ConfirmedRuns, OneConfirmed
<1> QED
  BY <1>2, <1>3

LEMMA ReviewBegins ==
  ASSUME ReadingInvariant, NEW c \in Reviews, NEW q \in Requests, BeginReview(c, q)
  PROVE  ReadingInvariant'
<1>1. /\ ReadingTypeOK /\ UNCHANGED <<run, link, holder, extraction, spec>>
      /\ review[c].at = "idle" /\ q.run \in Visible
  BY DEF ReadingInvariant, BeginReview
<1>2. CASE EndReview(c, "conflict")
  <2>1. spec' \in SpecVersions
    BY <1>1 DEF ReadingTypeOK
  <2> QED
    BY <1>1, <1>2, <2>1, ReviewIsRefused DEF Ended
<1>3. CASE /\ review' = [review EXCEPT ![c].at = "asked", ![c].request = q]
           /\ locked' = [locked EXCEPT ![c] = Visible]
  <2>1. /\ review' \in [Reviews -> [at : {"idle", "asked", "checked", "ended"},
                                  request : Requests \cup {None},
                                  answer : Ended \cup {None}]]
        /\ review'[c].at = "asked" /\ review'[c].request = q
        /\ \A d \in Reviews \ {c} : review'[d] = review[d]
    BY <1>1, <1>3 DEF ReadingTypeOK
  <2>2. locked' \in [Calls -> SUBSET Extractions]
    BY <1>1, <1>3 DEF ReadingTypeOK, Visible
  <2>3. ReadingTypeOK'
    BY <1>1, <2>1, <2>2 DEF ReadingTypeOK
  <2> QED
    BY <1>1, <2>1, <2>3, RunsStay
<1> QED
  BY <1>2, <1>3 DEF BeginReview

(* A review that passes its check has compared the lines of its run with the  *)
(* version it names.                                                          *)
LEMMA LinesAreChecked ==
  ASSUME ReadingInvariant, NEW e, NEW q, Reviewable(e, q), Local(e)
  PROVE  Lines(e, q)
<1>1. OcrReviewable(e, q) /\ DOMAIN q.fields = DOMAIN run[e].fields
  BY DEF Reviewable, Local
<1>2. q.spec = spec /\ spec \in SpecVersions
  BY <1>1 DEF OcrReviewable, ReadingInvariant, ReadingTypeOK
<1> QED
  BY <1>1, <1>2 DEF OcrReviewable, Lines, Reviewed

LEMMA ReviewIsChecked ==
  ASSUME ReadingInvariant, NEW c \in Reviews, CheckReview(c)
  PROVE  ReadingInvariant'
<1> DEFINE q == review[c].request
<1>1. /\ ReadingTypeOK /\ UNCHANGED <<run, link, holder, extraction, spec>>
      /\ review[c].at = "asked"
  BY DEF ReadingInvariant, CheckReview
<1>2. CASE EndReview(c, "conflict") \/ EndReview(c, "unprocessable")
  <2>1. spec' \in SpecVersions
    BY <1>1 DEF ReadingTypeOK
  <2> QED
    BY <1>1, <1>2, <2>1, ReviewIsRefused DEF Ended
<1>3. CASE /\ Reviewable(q.run, q)
           /\ review' = [review EXCEPT ![c].at = "checked"]
           /\ locked' = locked
  <2>1. /\ review' \in [Reviews -> [at : {"idle", "asked", "checked", "ended"},
                                  request : Requests \cup {None},
                                  answer : Ended \cup {None}]]
        /\ review'[c].at = "checked" /\ review'[c].request = q
        /\ \A d \in Reviews \ {c} : review'[d] = review[d]
    BY <1>1, <1>3 DEF ReadingTypeOK
  <2>2. ReadingTypeOK'
    BY <1>1, <1>3, <2>1 DEF ReadingTypeOK
  <2>3. q \in Requests /\ q.run \in Visible
    BY <1>1 DEF ReadingInvariant, AskedReviews
  <2>4. Local(q.run) => Lines(q.run, q)
    BY <1>3, LinesAreChecked
  <2> QED
    BY <1>1, <2>1, <2>2, <2>3, <2>4, RunsStay
<1> QED
  BY <1>2, <1>3 DEF CheckReview

(* Who confirms finds no reading confirmed, so that the one it confirms is    *)
(* the only one and nothing confirmed is touched.                             *)
LEMMA NoneWasConfirmed ==
  ASSUME NEW e, TriggersAllow(e), OneConfirmedRun(e)
  PROVE  Confirmed = {}
BY DEF TriggersAllow, OneConfirmedRun, Confirmed

LEMMA ReviewConfirms ==
  ASSUME ReadingInvariant, NEW c \in Reviews, ConfirmReview(c)
  PROVE  ReadingInvariant'
<1>0. PICK q \in Requests, e \in Visible : q = review[c].request /\ e = q.run
  BY DEF ReadingInvariant, AskedReviews, ConfirmReview
<1>1. /\ ReadingTypeOK /\ UNCHANGED <<holder, extraction, spec>>
      /\ review[c].at = "checked"
  BY DEF ReadingInvariant, ConfirmReview
<1>2. CASE /\ EndReview(c, "server error") \/ EndReview(c, "conflict")
           /\ UNCHANGED <<run, link>>
  <2>1. spec' \in SpecVersions
    BY <1>1 DEF ReadingTypeOK
  <2> QED
    BY <1>1, <1>2, <2>1, ReviewIsRefused DEF Ended
<1>3. CASE /\ TriggersAllow(e) /\ OneConfirmedRun(e)
           /\ run' = [run EXCEPT ![e] = ConfirmedRow(e, q, c)]
           /\ link' = q.allocation
           /\ EndReview(c, "ok")
  <2> DEFINE fields == ConfirmedFields(e, q)
             row == ConfirmedRow(e, q, c)
  <2>1. Confirmed = {}
    BY <1>3, NoneWasConfirmed
  <2>2. /\ e \in Extractions /\ run[e] \in Runs
        /\ DOMAIN fields = DOMAIN run[e].fields
        /\ fields \in [DOMAIN run[e].fields -> [target : Targets, confirmed : BOOLEAN]]
    BY <1>0, <1>1, FieldsOfConfirmed
  <2>3. row \in Runs
    <3>1. run[e].status # "CONFIRMED"
      BY <1>3 DEF TriggersAllow
    <3> HIDE DEF fields
    <3>2. [status |-> "CONFIRMED", provider |-> run[e].provider, fields |-> fields,
           version |-> run[e].version + 1, by |-> c] \in Runs
      BY <2>2, <3>1, ConfirmedRun
    <3> QED
      BY <3>2 DEF fields, ConfirmedRow
  <2>4. run' = [run EXCEPT ![e] = row]
    BY <1>3
  <2>5. /\ row.status = "CONFIRMED" /\ row.by = c /\ row.fields = fields
        /\ row.provider = run[e].provider
    BY DEF ConfirmedRow
  <2>6. q \in Requests /\ e \in Visible
    OBVIOUS
  <2> HIDE DEF row
  <2>7. /\ review' \in [Reviews -> [at : {"idle", "asked", "checked", "ended"},
                                   request : Requests \cup {None},
                                   answer : Ended \cup {None}]]
        /\ locked' \in [Calls -> SUBSET Extractions]
        /\ review'[c].at = "ended"
        /\ \A d \in Reviews : review'[d].request = review[d].request
        /\ \A d \in Reviews \ {c} : review'[d] = review[d]
    BY <1>1, <1>3, EndsReview DEF Ended
  <2>8. ReadingTypeOK'
    <3>1. run' \in [Extractions -> Runs \cup {None}]
      BY <1>1, <2>3, <2>4 DEF ReadingTypeOK
    <3> QED
      BY <1>1, <2>7, <3>1 DEF ReadingTypeOK
  <2>9. run'[e] = row /\ \A d \in Extractions \ {e} : run'[d] = run[d]
    BY <1>1, <2>2, <2>4 DEF ReadingTypeOK
  <2>10. Visible' = Visible
    BY <2>3, <2>6, <2>9, RunFields DEF Visible
  <2>11. Confirmed' = {e}
    <3>1. \A d \in Visible \ {e} : run'[d].status # "CONFIRMED"
      BY <2>1, <2>9 DEF Confirmed, Visible
    <3> QED
      BY <2>5, <2>6, <2>9, <2>10, <3>1 DEF Confirmed
  <2>12. \A d \in Extractions : run'[d].provider = run[d].provider
    BY <2>5, <2>9
  <2>13. \A d \in Extractions : DOMAIN run'[d].fields = DOMAIN run[d].fields
    BY <2>2, <2>5, <2>9
  <2>14. AskedReviews'
    BY <2>7, <2>10 DEF AskedReviews, ReadingInvariant
  <2>15. CheckedReviews'
    <3> SUFFICES ASSUME NEW d \in Reviews, review'[d].at = "checked",
                        Local(review[d].request.run)'
                 PROVE  Lines(review[d].request.run, review[d].request)'
      BY DEF CheckedReviews
    <3>1. d # c /\ review'[d] = review[d]
      BY <2>7
    <3>2. PICK p \in Requests, f \in Extractions : p = review[d].request /\ f = p.run
      BY <3>1 DEF ReadingInvariant, AskedReviews, Visible
    <3>3. Local(f)
      BY <2>12, <3>1, <3>2 DEF Local
    <3>4. Lines(f, p)
      BY <3>1, <3>2, <3>3 DEF ReadingInvariant, CheckedReviews
    <3>5. Lines(f, p)'
      BY <2>13, <3>4 DEF Lines
    <3> QED
      BY <3>1, <3>2, <3>5
  <2>16. ConfirmedRuns'
    <3>1. (Local(e) => /\ Lines(e, q)
                       /\ \A key \in DOMAIN fields : fields[key].target = q.fields[key].target)
      BY <1>0, <1>1 DEF ReadingInvariant, CheckedReviews, Local, ConfirmedFields
    <3>2. Local(e)' <=> Local(e)
      BY <2>2, <2>12 DEF Local
    <3>3. review'[c].request = q
      BY <1>0, <2>7
    <3>4. Lines(e, q) => Lines(e, q)'
      BY <2>2, <2>13 DEF Lines
    <3>5. ConfirmedOf(e, c)'
      BY <1>3, <2>5, <2>7, <2>9, <3>1, <3>2, <3>3, <3>4 DEF ConfirmedOf
    <3> QED
      BY <2>5, <2>9, <2>11, <3>5 DEF ConfirmedRuns
  <2>17. InsertedOnce' /\ OneConfirmed'
    BY <1>1, <2>10, <2>11 DEF InsertedOnce, OneConfirmed, ReadingInvariant
  <2> QED
    BY <2>8, <2>14, <2>15, <2>16, <2>17 DEF ReadingInvariant
<1> QED
  BY <1>0, <1>2, <1>3 DEF ConfirmReview

LEMMA ReadingSteps == ReadingInvariant /\ [NextReading]_readingVars => ReadingInvariant'
<1> SUFFICES ASSUME ReadingInvariant, [NextReading]_readingVars PROVE ReadingInvariant'
  OBVIOUS
<1> USE DEF Ended
<1>1. ReadingTypeOK
  BY DEF ReadingInvariant
<1>2. ASSUME NEW e \in Extractions, StepOfExtraction(e) PROVE ReadingInvariant'
  <2>1. CASE ReadingFails(e)
    BY <2>1, ExtractionIsRefused DEF ReadingFails
  <2> QED
    BY <1>2, <2>1, ExtractionBegins, CandidateIsRead, CandidatePersists DEF StepOfExtraction
<1>3. ASSUME NEW c \in Reviews, StepOfReview(c) PROVE ReadingInvariant'
  BY <1>3, ReviewIsChecked, ReviewConfirms DEF StepOfReview
<1>4. ASSUME NEW c \in Reviews, NEW q \in Requests, BeginReview(c, q) PROVE ReadingInvariant'
  BY <1>4, ReviewBegins
<1>5. ASSUME NEW e \in Extractions, NEW c \in Reviews, Deadlock(e, c) PROVE ReadingInvariant'
  <2>1. review[c].at = "checked" /\ UNCHANGED <<run, link, spec>> /\ spec' \in SpecVersions
    BY <1>1, <1>5 DEF Deadlock, Deadlocked, ReadingTypeOK
  <2>2. CASE EndExtraction(e, "server error") /\ UNCHANGED review
    BY <2>1, <2>2, ExtractionIsRefused
  <2>3. CASE EndReview(c, "server error") /\ UNCHANGED <<extraction, holder>>
    BY <2>1, <2>3, ReviewIsRefused
  <2> QED
    BY <1>5, <2>2, <2>3 DEF Deadlock
<1>6. ASSUME Die PROVE ReadingInvariant'
  <2>1. UNCHANGED <<run, link, spec>> /\ spec' \in SpecVersions
    BY <1>1, <1>6 DEF Die, ReadingTypeOK
  <2>2. ASSUME NEW e \in Extractions, EndExtraction(e, "crashed"), UNCHANGED review
        PROVE  ReadingInvariant'
    BY <2>1, <2>2, ExtractionIsRefused
  <2>3. ASSUME NEW c \in Reviews, review[c].at \in {"asked", "checked"},
               EndReview(c, "crashed"), UNCHANGED <<extraction, holder>>
        PROVE  ReadingInvariant'
    BY <2>1, <2>3, ReviewIsRefused
  <2> QED
    BY <1>6, <2>2, <2>3 DEF Die
<1>7. ASSUME NEW v \in SpecVersions, SelectAnother(v) PROVE ReadingInvariant'
  <2>1. ReadingTypeOK'
    BY <1>1, <1>7 DEF ReadingTypeOK, SelectAnother
  <2> QED
    BY <1>7, <2>1, ReviewsStay DEF SelectAnother
<1>8. ASSUME UNCHANGED readingVars PROVE ReadingInvariant'
  <2>1. ReadingTypeOK'
    BY <1>1, <1>8 DEF ReadingTypeOK, readingVars
  <2> QED
    BY <1>8, <2>1, ReviewsStay DEF readingVars
<1> QED
  BY <1>2, <1>3, <1>4, <1>5, <1>6, <1>7, <1>8 DEF NextReading

-----------------------------------------------------------------------------
(* The reviews, runs and link of a document always agree in these ways.       *)
THEOREM ReadingsAgree == ReadingSpec => []ReadingInvariant
BY ReadingBegins, ReadingSteps, PTL DEF ReadingSpec

(* Every variable keeps its type.                                             *)
THEOREM ReadingTypes == ReadingSpec => []ReadingTypeOK
<1>1. ReadingInvariant => ReadingTypeOK
  BY DEF ReadingInvariant
<1> QED
  BY <1>1, ReadingsAgree, PTL

(* One reading of a document counts at most, and the document is linked to    *)
(* the allocation of the review that confirmed it (confirm_review).           *)
THEOREM OneReading == ReadingSpec => []OneReadingCounts
<1>1. ReadingInvariant => OneReadingCounts
  <2> SUFFICES ASSUME ReadingInvariant PROVE OneReadingCounts
    OBVIOUS
  <2>1. \A e \in Confirmed : run[e].by \in Reviews
                              /\ link = review[run[e].by].request.allocation
    BY DEF ReadingInvariant, ConfirmedRuns, ConfirmedOf
  <2> QED
    BY <2>1, ReadingAssumption
    DEF OneReadingCounts, ReadingInvariant, OneConfirmed, Confirmed, ReadingAssumption
<1> QED
  BY <1>1, ReadingsAgree, PTL

(* A local reading that counts was mapped to the items of the version its     *)
(* review names, one line to each at most.                                    *)
THEOREM ReadAgainstItsSpec == ReadingSpec => []ReadAgainstNamedSpec
<1>1. ReadingInvariant => ReadAgainstNamedSpec
  <2> SUFFICES ASSUME ReadingInvariant, NEW e \in Visible, run[e].status = "CONFIRMED", Local(e)
               PROVE  LET q == review[run[e].by].request
                          target(key) == run[e].fields[key].target
                      IN  /\ \A key \in DOMAIN run[e].fields :
                               target(key) \in Codes(q.spec) \cup {None}
                          /\ \A a, b \in DOMAIN run[e].fields :
                               target(a) = target(b) /\ target(a) # None => a = b
    BY DEF ReadAgainstNamedSpec, Local
  <2>1. ConfirmedOf(e, run[e].by)
    BY DEF ReadingInvariant, ConfirmedRuns, Confirmed
  <2> QED
    BY <2>1 DEF ConfirmedOf, Lines
<1> QED
  BY <1>1, ReadingsAgree, PTL

(* Nothing changes a reading once it is confirmed (the triggers of the        *)
(* migration 0004).                                                           *)
THEOREM ConfirmedReadingIsFinal == ReadingSpec => ConfirmedReadingStays
<1> DEFINE Kept == \A e \in Visible : run[e].status = "CONFIRMED" =>
                     run'[e] = run[e] /\ link' = link /\ Visible' = Visible
<1>1. [NextReading]_readingVars => [Kept]_readingVars
  <2> SUFFICES ASSUME NextReading, NEW e \in Visible, run[e].status = "CONFIRMED"
               PROVE  run'[e] = run[e] /\ link' = link /\ Visible' = Visible
    OBVIOUS
  <2>1. Confirmed # {}
    BY DEF Confirmed
  <2>2. UNCHANGED <<run, link>>
    <3>1. ASSUME NEW d \in Extractions, StepOfExtraction(d) PROVE UNCHANGED <<run, link>>
      BY <2>1, <3>1
      DEF StepOfExtraction, BeginExtraction, ReadingFails, PersistCandidate, Read
    <3>2. ASSUME NEW c \in Reviews, StepOfReview(c) PROVE UNCHANGED <<run, link>>
      BY <2>1, <3>2, NoneWasConfirmed DEF StepOfReview, CheckReview, ConfirmReview
    <3> QED
      BY <3>1, <3>2 DEF NextReading, BeginReview, Deadlock, Die, SelectAnother
  <2> QED
    BY <2>2 DEF Visible
<1> QED
  BY <1>1, PTL DEF ReadingSpec, ConfirmedReadingStays

-----------------------------------------------------------------------------
(* Scoring                                                                    *)
-----------------------------------------------------------------------------
(* The scoring of golden datasets: every case that is kept was scored as it    *)
(* was offered, and an accepted report was made of cases without a reason.    *)
CaseIsScored(c, k) ==
  /\ c.offer \in Offers[k] /\ GoldenCaseOK(c.offer.fields) /\ RunOK(RunOf(c.offer))
  /\ c.outcome = ScoreCase(RunOf(c.offer), c.offer.fields)
ScoringInvariant ==
  /\ (\E kept : scored \in Seq(kept)) /\ Len(scored) <= Len(Offers)
  /\ \A k \in DOMAIN scored : k \in DOMAIN Offers /\ CaseIsScored(scored[k], k)
  /\ golden # None =>
       /\ refused = None /\ Len(scored) = Len(Offers)
       /\ golden.accepted => \A k \in DOMAIN scored : scored[k].outcome.reasons = {}

LEMMA OffersAreFinite ==
  ASSUME NEW k \in DOMAIN Offers, NEW offer \in Offers[k]
  PROVE  /\ IsFiniteSet(DOMAIN offer.fields) /\ IsFiniteSet(DOMAIN offer.values)
         /\ DOMAIN offer.fields \subseteq Nat \ {0}
<1>1. offer.fields \in Seq(Range(offer.fields)) /\ offer.values \in Seq(Range(offer.values))
  BY ScoringAssumption
<1>2. PICK fields, values, fs, vs : /\ fields = offer.fields /\ values = offer.values
                                    /\ fs = Range(fields) /\ vs = Range(values)
  OBVIOUS
<1>3. fields \in Seq(fs) /\ values \in Seq(vs)
  BY <1>1, <1>2
<1>4. /\ DOMAIN fields = 1 .. Len(fields) /\ Len(fields) \in Nat
      /\ DOMAIN values = 1 .. Len(values) /\ Len(values) \in Nat
  BY <1>3
<1>5. IsFiniteSet(1 .. Len(fields)) /\ IsFiniteSet(1 .. Len(values))
  BY <1>4, FS_Interval
<1> QED
  BY <1>2, <1>4, <1>5

(* The run of an offer.                                                       *)
LEMMA RunsOfOffers ==
  ASSUME NEW k \in DOMAIN Offers, NEW offer \in Offers[k]
  PROVE  /\ RunOf(offer).bound = offer.bound /\ RunOf(offer).sameKind = offer.sameKind
         /\ IsFiniteSet(DOMAIN RunOf(offer).values)
         /\ offer.failure # 0 => "UPSTREAM_FAILURE" \in RunOf(offer).reasons
         /\ offer.failure = 0 => RunOf(offer).values = offer.values
<1>1. offer.failure \in 0 .. StageCount /\ IsFiniteSet(DOMAIN offer.values)
  BY OffersAreFinite, ScoringAssumption
<1> DEFINE stages == StageManifest(offer.failure)
           failed == \E j \in 1 .. StageCount : stages[j] # "SUCCESS"
<1>2. failed <=> offer.failure # 0
  <2>1. \A j \in 1 .. StageCount : stages[j] = StageStatus(offer.failure, j)
    BY DEF StageManifest
  <2>2. offer.failure = 0 => \A j \in 1 .. StageCount : stages[j] = "SUCCESS"
    BY <2>1 DEF StageStatus
  <2>3. ASSUME offer.failure # 0
        PROVE  failed
    <3>1. offer.failure \in 1 .. StageCount
      BY <1>1, <2>3 DEF StageCount
    <3>2. StageStatus(offer.failure, offer.failure) = "FAILED"
      BY <2>3, <3>1 DEF StageStatus, StageCount
    <3> QED
      BY <2>1, <3>1, <3>2
  <2> QED
    BY <2>2, <2>3
<1>3. DOMAIN << >> = {} /\ IsFiniteSet({})
  BY FS_EmptySet
<1>4. RunOf(offer).values = IF failed THEN << >> ELSE offer.values
  BY DEF RunOf
<1>5. failed => "UPSTREAM_FAILURE" \in RunOf(offer).reasons
  <2> DEFINE values == IF failed THEN << >> ELSE offer.values
             others == UNION {values[i].reasons : i \in DOMAIN values}
  <2>1. RunOf(offer) =
          [stages |-> stages, values |-> values, bound |-> offer.bound,
           sameKind |-> offer.sameKind,
           reasons |-> others \cup (IF failed THEN {"UPSTREAM_FAILURE"} ELSE {})]
    BY DEF RunOf
  <2> HIDE DEF failed, others, values, stages
  <2> QED
    BY <2>1
<1>6. RunOf(offer).bound = offer.bound /\ RunOf(offer).sameKind = offer.sameKind
  BY DEF RunOf
<1> HIDE DEF failed
<1> QED
  BY <1>1, <1>2, <1>3, <1>4, <1>5, <1>6

(* A case without a reason is one that was read in full.                      *)
Matching(f, c) ==
  /\ Key(c) = Key(f) /\ c.kind = f.kind /\ c.page = f.page
  /\ NormalForm[c.value] = NormalForm[f.value] /\ c.value # None
  /\ c.applied \subseteq f.allowed /\ c.reasons = {}

LEMMA WithoutReasons ==
  ASSUME NEW k \in DOMAIN Offers, NEW offer \in Offers[k], RunOK(RunOf(offer)),
         CaseReasons(RunOf(offer), offer.fields) = {}
  PROVE  /\ offer.failure = 0 /\ offer.bound /\ offer.sameKind
         /\ \A i \in DOMAIN offer.fields :
              /\ offer.fields[i].reasons = {}
              /\ \/ offer.fields[i].ignored
                 \/ \E j \in DOMAIN offer.values :
                      Matching(offer.fields[i], offer.values[j]) /\ ~Twice(offer.values, j)
         /\ \A j \in DOMAIN offer.values :
              \E i \in DOMAIN offer.fields : Key(offer.fields[i]) = Key(offer.values[j])
<1>1. PICK made : made = RunOf(offer)
  OBVIOUS
<1>2. PICK fields : fields = offer.fields
  OBVIOUS
<1>3. /\ made.reasons = {} /\ made.bound /\ made.sameKind
      /\ \A o \in Outcomes(made, fields) : o.reasons = {}
  <2>1. CaseReasons(made, fields) = {}
    BY <1>1, <1>2
  <2> DEFINE said == UNION {o.reasons : o \in Outcomes(made, fields)}
  <2>2. made.reasons = {} /\ said = {}
    BY <2>1 DEF CaseReasons
  <2>3. CaseReasons(made, fields) =
          made.reasons \cup said \cup (IF made.bound THEN {} ELSE {"BINDING_MISMATCH"})
            \cup (IF made.sameKind THEN {} ELSE {"DOCUMENT_CLASSIFICATION_MISMATCH"})
    BY DEF CaseReasons
  <2> HIDE DEF said
  <2>4. made.bound
    BY <2>1, <2>3
  <2>5. made.sameKind
    BY <2>1, <2>3
  <2>6. ASSUME NEW o \in Outcomes(made, fields)
        PROVE  o.reasons = {}
    <3>1. o.reasons \in {x.reasons : x \in Outcomes(made, fields)}
      OBVIOUS
    <3> QED
      BY <2>2, <3>1 DEF said
  <2> QED
    BY <2>2, <2>4, <2>5, <2>6
<1>4. offer.failure = 0 /\ offer.bound /\ offer.sameKind /\ made.values = offer.values
      /\ IsFiniteSet(DOMAIN made.values)
  BY <1>1, <1>3, RunsOfOffers
<1>5. Unmapped(made, fields) = {}
  <2> SUFFICES ASSUME NEW j \in Unmapped(made, fields) PROVE FALSE
    OBVIOUS
  <2>1. UnmappedOutcome(made, j) \in Outcomes(made, fields)
    BY DEF Outcomes
  <2>2. "UNMAPPED" \in UnmappedOutcome(made, j).reasons
    BY DEF UnmappedOutcome
  <2> QED
    BY <1>3, <2>1, <2>2
<1>6. ASSUME NEW i \in DOMAIN fields
      PROVE  /\ fields[i].reasons = {}
             /\ \/ fields[i].ignored
                \/ \E j \in DOMAIN made.values :
                     Matching(fields[i], made.values[j]) /\ ~Twice(made.values, j)
  <2>1. PICK f : f = fields[i]
    OBVIOUS
  <2>2. ReasonsOf(made, f) = {}
    <3>1. FieldOutcome(made, fields, i) \in Outcomes(made, fields)
      BY DEF Outcomes
    <3>2. FieldOutcome(made, fields, i).reasons = ReasonsOf(made, f)
      BY <2>1 DEF FieldOutcome
    <3> QED
      BY <1>3, <3>1, <3>2
  <2>3. CASE ~Eligible(f)
    <3>1. f.reasons = {}
      BY <2>2, <2>3 DEF ReasonsOf, Compared
    <3>2. f.ignored
      BY <2>3, <3>1 DEF Eligible, Handwritten
    <3> QED
      BY <2>1, <3>1, <3>2
  <2>4. CASE Eligible(f) /\ ~Compared(made, f)
    BY <2>2, <2>4 DEF ReasonsOf
  <2>5. CASE Compared(made, f)
    <3>1. Alone(made, f)
      BY <2>5 DEF Compared
    <3>2. Predictions(made, f) = {j \in DOMAIN made.values : Key(made.values[j]) = Key(f)}
      BY <1>3 DEF Predictions
    <3>3. PICK j \in Predictions(made, f) : Predictions(made, f) = {j}
      <4>1. IsFiniteSet(Predictions(made, f))
        BY <1>4, <3>2, FS_Subset
      <4>2. \E j : Predictions(made, f) = {j}
        BY <3>1, <4>1, FS_Singleton DEF Alone
      <4> QED
        BY <4>2
    <3>4. PICK c : c = made.values[j]
      OBVIOUS
    <3>5. Only(made, f) = c
      BY <3>3, <3>4 DEF Only
    <3>6. Evidence(f, c).reasons = {}
      BY <2>2, <2>5, <3>5 DEF ReasonsOf
    <3>7. /\ f.reasons = {} /\ c.reasons = {} /\ UnapprovedBy(f, c) = {} /\ c.page = f.page
          /\ c.kind = f.kind /\ NormalForm[c.value] = NormalForm[f.value]
      BY <3>6 DEF Evidence
    <3>8. c.applied \subseteq f.allowed
      BY <3>7 DEF UnapprovedBy
    <3>9. j \in DOMAIN made.values /\ Key(c) = Key(f)
      BY <3>2, <3>3, <3>4
    <3>10. c.value # None
      <4>1. CandidateOK(c)
        BY <1>1, <3>4, <3>9 DEF RunOK
      <4> QED
        BY <3>7, <4>1 DEF CandidateOK, MissingMarked
    <3>11. ~Twice(made.values, j)
      BY <3>2, <3>3, <3>4, <3>9 DEF Twice
    <3>12. Matching(f, made.values[j])
      BY <3>4, <3>7, <3>8, <3>9, <3>10 DEF Matching
    <3> QED
      BY <2>1, <3>7, <3>9, <3>11, <3>12
  <2> QED
    BY <2>3, <2>4, <2>5
<1>7. \A j \in DOMAIN made.values : \E i \in DOMAIN fields : Key(fields[i]) = Key(made.values[j])
  BY <1>5 DEF Unmapped
<1> QED
  BY <1>2, <1>4, <1>6, <1>7

-----------------------------------------------------------------------------
LEMMA ScoringBegins == InitScoring => ScoringInvariant
  BY ScoringAssumption DEF InitScoring, ScoringInvariant

LEMMA ScoringStep == ScoringInvariant /\ [NextScoring]_scoringVars => ScoringInvariant'
<1> SUFFICES ASSUME ScoringInvariant, [NextScoring]_scoringVars PROVE ScoringInvariant'
  OBVIOUS
<1>1. CASE UNCHANGED scoringVars
  <2>1. UNCHANGED <<scored, refused, golden>>
    BY <1>1 DEF scoringVars
  <2> QED
    BY <2>1 DEF ScoringInvariant, CaseIsScored
<1>2. CASE Publish
  <2>1. UNCHANGED <<scored, refused>> /\ refused = None /\ golden' = Report
        /\ Len(scored) = Len(Offers)
    BY <1>2 DEF Publish
  <2>2. ASSUME Report.accepted, NEW k \in DOMAIN scored
        PROVE  scored[k].outcome.reasons = {}
    <3> DEFINE of == [j \in DOMAIN scored |-> scored[j].outcome]
               reasons == UNION {of[j].reasons : j \in DOMAIN of}
    <3>1. Report.accepted = (reasons = {})
      BY DEF Report
    <3>2. reasons = {}
      BY <2>2, <3>1
    <3>3. of[k].reasons \in {of[j].reasons : j \in DOMAIN of} /\ of[k] = scored[k].outcome
      OBVIOUS
    <3> QED
      BY <3>2, <3>3
  <2> QED
    BY <2>1, <2>2 DEF ScoringInvariant, CaseIsScored
<1>3. CASE ScoreNext
  <2>1. /\ refused = None /\ Len(scored) < Len(Offers) /\ golden' = golden
        /\ Len(scored) \in Nat /\ Len(Offers) \in Nat /\ DOMAIN Offers = 1 .. Len(Offers)
    BY <1>3, ScoringAssumption DEF ScoreNext, ScoringInvariant
  <2>2. PICK n \in Nat : n = Len(scored)
    BY <2>1
  <2>3. golden = None /\ golden' = None
    BY <2>1 DEF ScoringInvariant
  <2>4. PICK offer \in Offers[n + 1] :
          /\ GoldenCaseOK(offer.fields)
          /\ LET outcome == ScoreCase(RunOf(offer), offer.fields)
             IN IF WarningsObservable(offer) /\ RunOK(RunOf(offer)) /\ CaseOutcomeOK(outcome)
                THEN scored' = Append(scored, [offer |-> offer, outcome |-> outcome])
                ELSE scored' = scored
    BY <1>3, <2>2 DEF ScoreNext
  <2>5. CASE scored' = scored
    BY <2>3, <2>5 DEF ScoringInvariant, CaseIsScored
  <2>6. CASE scored' # scored
    <3>1. PICK outcome : outcome = ScoreCase(RunOf(offer), offer.fields)
      OBVIOUS
    <3>2. PICK c : c = [offer |-> offer, outcome |-> outcome]
      OBVIOUS
    <3>3. RunOK(RunOf(offer)) /\ scored' = Append(scored, c)
      BY <2>4, <2>6, <3>1, <3>2
    <3>4. c.offer = offer /\ c.outcome = outcome
      BY <3>2
    <3>5. n + 1 \in DOMAIN Offers /\ CaseIsScored(c, n + 1)
      BY <2>1, <2>2, <2>4, <3>1, <3>3, <3>4 DEF CaseIsScored
    <3>6. PICK kept : scored \in Seq(kept)
      BY DEF ScoringInvariant
    <3>7. scored \in Seq(kept \cup {c})
      BY <3>6
    <3>8. scored' \in Seq(kept \cup {c})
      BY <3>3, <3>7
    <3>9. /\ Len(scored') = n + 1 /\ DOMAIN scored' = 1 .. n + 1 /\ DOMAIN scored = 1 .. n
          /\ scored'[n + 1] = c /\ \A k \in 1 .. n : scored'[k] = scored[k]
      BY <2>2, <3>3, <3>7
    <3>10. \A k \in DOMAIN scored' : k \in DOMAIN Offers /\ CaseIsScored(scored'[k], k)
      BY <3>5, <3>9 DEF ScoringInvariant
    <3>11. Len(scored') <= Len(Offers)
      BY <2>1, <2>2, <3>9
    <3>12. \A k \in DOMAIN scored' : CaseIsScored(scored'[k], k) => CaseIsScored(scored[k], k)'
      BY DEF CaseIsScored
    <3> QED
      BY <2>3, <3>8, <3>10, <3>11, <3>12 DEF ScoringInvariant
  <2> QED
    BY <2>5, <2>6
<1> QED
  BY <1>1, <1>2, <1>3 DEF NextScoring

(* Every case that is kept was scored as it was offered, and a report that may *)
(* be accepted stands on cases without a reason (runner and scorer).          *)
THEOREM CasesAreScored == InitScoring /\ [][NextScoring]_scoringVars => []ScoringInvariant
  BY ScoringBegins, ScoringStep, PTL

(* A report that says the run may be accepted was made of runs that read       *)
(* everything (runner and scorer): no stage failed, every golden field that    *)
(* counts has its one candidate, right in every respect, and there is no other.*)
THEOREM AcceptedRunsMatch ==
  InitScoring /\ [][NextScoring]_scoringVars => []AcceptedIsMatched
<1>1. ScoringInvariant => AcceptedIsMatched
  <2> SUFFICES ASSUME ScoringInvariant, golden # None, golden.accepted, NEW k \in DOMAIN scored
               PROVE  LET offer == scored[k].offer
                      IN /\ offer.failure = 0 /\ offer.bound /\ offer.sameKind
                         /\ \A i \in DOMAIN offer.fields :
                              /\ offer.fields[i].reasons = {}
                              /\ \/ offer.fields[i].ignored
                                 \/ \E j \in DOMAIN offer.values :
                                      /\ Matching(offer.fields[i], offer.values[j])
                                      /\ ~Twice(offer.values, j)
                         /\ \A j \in DOMAIN offer.values :
                              \E i \in DOMAIN offer.fields :
                                Key(offer.fields[i]) = Key(offer.values[j])
    BY DEF AcceptedIsMatched, Matching
  <2>1. PICK offer : offer = scored[k].offer
    OBVIOUS
  <2>2. /\ k \in DOMAIN Offers /\ offer \in Offers[k] /\ RunOK(RunOf(offer))
        /\ scored[k].outcome = ScoreCase(RunOf(offer), offer.fields)
    BY <2>1 DEF ScoringInvariant, CaseIsScored
  <2>3. scored[k].outcome.reasons = CaseReasons(RunOf(offer), offer.fields)
    BY <2>2 DEF ScoreCase
  <2>4. scored[k].outcome.reasons = {}
    BY DEF ScoringInvariant
  <2> QED
    BY <2>1, <2>2, <2>3, <2>4, WithoutReasons
<1> QED
  BY <1>1, CasesAreScored, PTL

-----------------------------------------------------------------------------
(* The totals of a report are those of its cases.                              *)
LEMMA TotalOfCases ==
  ASSUME NEW S, IsFiniteSet(S), NEW f \in [S -> Int]
  PROVE  SumIs(Total(f), f, S)
<1>1. Total(f) = (CHOOSE it : AddsInTurn(it, f, S))[S]
  BY DEF Total, FoldFunction, FoldFunctionOnSet, MapThenFoldSet, AddsInTurn
<1> QED
  BY <1>1, SumInTurn

(* A metric whose parts are the totals of the parts of the cases.              *)
LEMMA MetricsOf ==
  ASSUME NEW ms, NEW n, NEW d, NEW r, NEW g, NEW e,
         n = Total([k \in DOMAIN scored |-> ms[k].n]),
         d = Total([k \in DOMAIN scored |-> ms[k].d]),
         r = Total([k \in DOMAIN scored |-> ms[k].reference]),
         g = Total([k \in DOMAIN scored |-> ms[k].ignored]),
         e = Total([k \in DOMAIN scored |-> ms[k].errors])
  PROVE  Metric(n, d, r, g, e) = SumMetrics(ms)
<1>1. SumMetrics(ms) =
        [x \in {"n", "d", "reference", "ignored", "errors"} |->
           Total([k \in DOMAIN scored |-> ms[k][x]])]
  BY DEF SumMetrics
<1>2. SumMetrics(ms) =
        [n |-> Total([k \in DOMAIN scored |-> ms[k].n]),
         d |-> Total([k \in DOMAIN scored |-> ms[k].d]),
         reference |-> Total([k \in DOMAIN scored |-> ms[k].reference]),
         ignored |-> Total([k \in DOMAIN scored |-> ms[k].ignored]),
         errors |-> Total([k \in DOMAIN scored |-> ms[k].errors])]
  BY <1>1
<1> QED
  BY <1>2 DEF Metric

(* What the scorer added up case by case is what the report adds up.           *)
LEMMA MetricsAdd ==
  ASSUME NEW cs, NEW ms,
         NEW a \in Counters, NEW b \in Counters, NEW c \in Counters, NEW d \in Counters,
         NEW e \in Counters,
         \A k \in DOMAIN scored : ms[k] = Metric(cs[k][a], cs[k][b], cs[k][c], cs[k][d], cs[k][e])
  PROVE  Metric(AddCounts(cs)[a], AddCounts(cs)[b], AddCounts(cs)[c], AddCounts(cs)[d],
                AddCounts(cs)[e]) = SumMetrics(ms)
<1>1. \A x \in Counters : AddCounts(cs)[x] = Total([k \in DOMAIN scored |-> cs[k][x]])
  BY DEF AddCounts
<1>2. ASSUME NEW k \in DOMAIN scored
      PROVE  /\ ms[k].n = cs[k][a] /\ ms[k].d = cs[k][b] /\ ms[k].reference = cs[k][c]
             /\ ms[k].ignored = cs[k][d] /\ ms[k].errors = cs[k][e]
  <2>1. PICK m : m = ms[k]
    OBVIOUS
  <2>2. m = [n |-> cs[k][a], d |-> cs[k][b], reference |-> cs[k][c], ignored |-> cs[k][d],
             errors |-> cs[k][e]]
    BY <2>1 DEF Metric
  <2>3. m.n = cs[k][a] /\ m.d = cs[k][b] /\ m.reference = cs[k][c] /\ m.ignored = cs[k][d]
        /\ m.errors = cs[k][e]
    BY <2>2
  <2> QED
    BY <2>1, <2>3
<1>3. /\ [k \in DOMAIN scored |-> ms[k].n] = [k \in DOMAIN scored |-> cs[k][a]]
      /\ [k \in DOMAIN scored |-> ms[k].d] = [k \in DOMAIN scored |-> cs[k][b]]
      /\ [k \in DOMAIN scored |-> ms[k].reference] = [k \in DOMAIN scored |-> cs[k][c]]
      /\ [k \in DOMAIN scored |-> ms[k].ignored] = [k \in DOMAIN scored |-> cs[k][d]]
      /\ [k \in DOMAIN scored |-> ms[k].errors] = [k \in DOMAIN scored |-> cs[k][e]]
  BY <1>2
<1>4. /\ AddCounts(cs)[a] = Total([k \in DOMAIN scored |-> ms[k].n])
      /\ AddCounts(cs)[b] = Total([k \in DOMAIN scored |-> ms[k].d])
      /\ AddCounts(cs)[c] = Total([k \in DOMAIN scored |-> ms[k].reference])
      /\ AddCounts(cs)[d] = Total([k \in DOMAIN scored |-> ms[k].ignored])
      /\ AddCounts(cs)[e] = Total([k \in DOMAIN scored |-> ms[k].errors])
  BY <1>1, <1>3
<1> QED
  BY <1>4, MetricsOf

LEMMA RowsAreCounted ==
  ASSUME NEW k \in DOMAIN Offers, NEW offer \in Offers[k]
  PROVE  LET lines == RowCounts(RunOf(offer), offer.fields)
         IN lines.found \in Nat /\ lines.invented \in Nat /\ lines.lost \in Nat
<1>1. PICK made : made = RunOf(offer) /\ IsFiniteSet(DOMAIN made.values)
  BY RunsOfOffers
<1>2. PICK fields : fields = offer.fields /\ IsFiniteSet(DOMAIN fields)
  BY OffersAreFinite
<1> DEFINE places == {j \in DOMAIN fields : Eligible(fields[j])}
           readings == {j \in DOMAIN made.values : ~Handwritten(made.values[j])}
<1>3. IsFiniteSet(ExpectedRows(fields))
  <2> DEFINE g == [j \in places |-> fields[j].row]
  <2>1. IsFiniteSet(places)
    BY <1>2, FS_Subset
  <2>2. ExpectedRows(fields) = {fields[j].row : j \in places}
    BY DEF ExpectedRows
  <2>3. g \in Surjection(places, ExpectedRows(fields))
    BY <2>2 DEF Surjection
  <2> HIDE DEF g, places
  <2> QED
    BY <2>1, <2>3, FS_Surjection
<1>4. IsFiniteSet(PredictedRows(made))
  <2>1. CASE made.bound
    <3> DEFINE g == [j \in readings |-> made.values[j].row]
    <3>1. IsFiniteSet(readings)
      BY <1>1, FS_Subset
    <3>2. PredictedRows(made) = {made.values[j].row : j \in readings}
      BY <2>1 DEF PredictedRows
    <3>3. g \in Surjection(readings, PredictedRows(made))
      BY <3>2 DEF Surjection
    <3> HIDE DEF g, readings
    <3> QED
      BY <3>1, <3>3, FS_Surjection
  <2>2. CASE ~made.bound
    BY <2>2, FS_EmptySet DEF PredictedRows
  <2> QED
    BY <2>1, <2>2
<1> DEFINE E == ExpectedRows(fields)
           P == PredictedRows(made)
<1>5. IsFiniteSet(E \cap P) /\ IsFiniteSet(P \ E) /\ IsFiniteSet(E \ P)
  <2> HIDE DEF E, P
  <2>1. IsFiniteSet(E) /\ IsFiniteSet(P)
    BY <1>3, <1>4 DEF E, P
  <2>2. E \cap P \subseteq E /\ P \ E \subseteq P /\ E \ P \subseteq E
    OBVIOUS
  <2> QED
    BY <2>1, <2>2, FS_Subset
<1>6. /\ Cardinality(E \cap P) \in Nat /\ Cardinality(P \ E) \in Nat
      /\ Cardinality(E \ P) \in Nat
  <2> HIDE DEF E, P
  <2> QED
    BY <1>5, FS_CardinalityType
<1> HIDE DEF E, P
<1>7. RowCounts(made, fields) =
        [found |-> Cardinality(E \cap P), invented |-> Cardinality(P \ E),
         lost |-> Cardinality(E \ P)]
  BY DEF RowCounts, E, P
<1> QED
  BY <1>1, <1>2, <1>6, <1>7

(* What a case that is kept says.                                             *)
LEMMA KeptCase ==
  ASSUME ScoringInvariant, NEW k \in DOMAIN scored
  PROVE  \E made, fields :
           /\ scored[k].outcome = ScoreCase(made, fields)
           /\ scored[k].outcome.metrics =
                CohortMetrics(scored[k].outcome.counts, scored[k].outcome.byKind,
                              scored[k].outcome.rows)
           /\ scored[k].outcome.rows = RowCounts(made, fields)
           /\ scored[k].outcome.reasons = CaseReasons(made, fields)
           /\ scored[k].outcome.accepted = (scored[k].outcome.reasons = {})
           /\ made = RunOf(scored[k].offer) /\ fields = scored[k].offer.fields
           /\ k \in DOMAIN Offers /\ scored[k].offer \in Offers[k]
<1>1. PICK offer : offer = scored[k].offer
  OBVIOUS
<1>2. PICK made, fields : made = RunOf(offer) /\ fields = offer.fields
  OBVIOUS
<1>3. /\ k \in DOMAIN Offers /\ offer \in Offers[k]
      /\ scored[k].outcome = ScoreCase(made, fields)
  BY <1>1, <1>2 DEF ScoringInvariant, CaseIsScored
<1>4. PICK outcome : outcome = ScoreCase(made, fields)
  OBVIOUS
<1>5. /\ outcome.metrics = CohortMetrics(outcome.counts, outcome.byKind, outcome.rows)
      /\ outcome.rows = RowCounts(made, fields)
      /\ outcome.reasons = CaseReasons(made, fields)
      /\ outcome.accepted = (outcome.reasons = {})
  BY <1>4 DEF ScoreCase
<1> QED
  BY <1>1, <1>2, <1>3, <1>4, <1>5

LEMMA RowsAdd ==
  ASSUME ScoringInvariant,
         NEW a \in {"found", "invented", "lost"}, NEW b \in {"found", "invented", "lost"}
  PROVE  AddRows[a] + AddRows[b] =
           Total([k \in DOMAIN scored |-> scored[k].outcome.rows[a] + scored[k].outcome.rows[b]])
<1>1. IsFiniteSet(DOMAIN scored)
  <2>1. Len(scored) \in Nat /\ DOMAIN scored = 1 .. Len(scored)
    BY DEF ScoringInvariant
  <2> QED
    BY <2>1, FS_Interval
<1>2. \A k \in DOMAIN scored : \A x \in {"found", "invented", "lost"} :
        scored[k].outcome.rows[x] \in Int
  <2> TAKE k \in DOMAIN scored
  <2>1. PICK made, fields : /\ scored[k].outcome.rows = RowCounts(made, fields)
                           /\ made = RunOf(scored[k].offer) /\ fields = scored[k].offer.fields
                           /\ k \in DOMAIN Offers /\ scored[k].offer \in Offers[k]
    BY KeptCase
  <2>2. PICK lines : lines = RowCounts(made, fields)
    OBVIOUS
  <2>3. lines.found \in Nat /\ lines.invented \in Nat /\ lines.lost \in Nat
    BY <2>1, <2>2, RowsAreCounted
  <2> QED
    BY <2>1, <2>2, <2>3
<1> DEFINE f == [k \in DOMAIN scored |-> scored[k].outcome.rows[a]]
           g == [k \in DOMAIN scored |-> scored[k].outcome.rows[b]]
           h == [k \in DOMAIN scored |-> scored[k].outcome.rows[a] + scored[k].outcome.rows[b]]
<1>3. /\ f \in [DOMAIN scored -> Int] /\ g \in [DOMAIN scored -> Int]
      /\ h \in [DOMAIN scored -> Int] /\ \A k \in DOMAIN scored : h[k] = f[k] + g[k]
  BY <1>2
<1>4. AddRows[a] = Total(f) /\ AddRows[b] = Total(g)
  BY DEF AddRows
<1> HIDE DEF f, g, h
<1>5. /\ SumIs(Total(f), f, DOMAIN scored) /\ SumIs(Total(g), g, DOMAIN scored)
      /\ SumIs(Total(h), h, DOMAIN scored)
  BY <1>1, <1>3, TotalOfCases
<1>6. Total(h) = Total(f) + Total(g)
  BY <1>1, <1>3, <1>5, SumsOfSums
<1> QED
  BY <1>4, <1>6 DEF h

LEMMA NothingAddsUp ==
  ScoringInvariant => Total([k \in DOMAIN scored |-> 0]) = 0
<1> SUFFICES ASSUME ScoringInvariant PROVE Total([k \in DOMAIN scored |-> 0]) = 0
  OBVIOUS
<1>1. IsFiniteSet(DOMAIN scored)
  <2>1. Len(scored) \in Nat /\ DOMAIN scored = 1 .. Len(scored)
    BY DEF ScoringInvariant
  <2> QED
    BY <2>1, FS_Interval
<1> DEFINE f == [k \in DOMAIN scored |-> 0]
<1>2. f \in [DOMAIN scored -> Int] /\ \A k \in DOMAIN scored : f[k] = 0
  OBVIOUS
<1> HIDE DEF f
<1>3. Total(f) = 0
  BY <1>1, <1>2, TotalOfCases, SumOfZeros
<1> QED
  BY <1>3 DEF f

(* The parts of the metrics of some counts.                                   *)
LEMMA CohortParts ==
  ASSUME NEW c, NEW byKind, NEW lines, NEW m, m = CohortMetrics(c, byKind, lines)
  PROVE  /\ m.exact = ExactMetric(c) /\ m.normalized = NormalizedMetric(c)
         /\ m.page = Metric(c["page"], c["pageDenominator"], c["reference"], c["ignored"],
                            c["duplicates"])
         /\ m.missing = Metric(c["requiredMissing"], c["required"], c["reference"],
                               c["ignored"], 0)
         /\ m.confusion = <<c["TP"], c["FP"], c["FN"], c["TN"]>>
         /\ m.rowPrecision = Metric(lines.found, lines.found + lines.invented, 0, 0, 0)
         /\ m.rowRecall = Metric(lines.found, lines.found + lines.lost, 0, 0, 0)
         /\ m.exactOf = [i \in Kinds |-> ExactMetric(byKind[i])]
         /\ m.normalizedOf = [i \in Kinds |-> NormalizedMetric(byKind[i])]
         /\ m.totals = [x \in Totals |-> c[x]]
  BY DEF CohortMetrics

LEMMA MetricParts ==
  ASSUME NEW n, NEW d, NEW r, NEW g, NEW e, NEW m, m = Metric(n, d, r, g, e)
  PROVE  m.n = n /\ m.d = d /\ m.reference = r /\ m.ignored = g /\ m.errors = e
  BY DEF Metric

(* The totals of the metrics every cohort has.                                *)
LEMMA ExactAdds ==
  ASSUME NEW cs, NEW ms, \A k \in DOMAIN scored : ms[k] = ExactMetric(cs[k])
  PROVE  ExactMetric(AddCounts(cs)) = SumMetrics(ms)
<1>1. /\ "exact" \in Counters /\ "denominator" \in Counters /\ "reference" \in Counters
      /\ "ignored" \in Counters /\ "duplicates" \in Counters
  BY DEF Counters
<1>2. \A k \in DOMAIN scored :
        ms[k] = Metric(cs[k]["exact"], cs[k]["denominator"], cs[k]["reference"],
                       cs[k]["ignored"], cs[k]["duplicates"])
  BY DEF ExactMetric
<1>3. Metric(AddCounts(cs)["exact"], AddCounts(cs)["denominator"], AddCounts(cs)["reference"],
             AddCounts(cs)["ignored"], AddCounts(cs)["duplicates"]) = SumMetrics(ms)
  BY <1>1, <1>2, MetricsAdd
<1> QED
  BY <1>3 DEF ExactMetric

LEMMA NormalizedAdds ==
  ASSUME NEW cs, NEW ms, \A k \in DOMAIN scored : ms[k] = NormalizedMetric(cs[k])
  PROVE  NormalizedMetric(AddCounts(cs)) = SumMetrics(ms)
<1>1. /\ "normalized" \in Counters /\ "denominator" \in Counters /\ "reference" \in Counters
      /\ "ignored" \in Counters /\ "normalizedErrors" \in Counters
  BY DEF Counters
<1>2. \A k \in DOMAIN scored :
        ms[k] = Metric(cs[k]["normalized"], cs[k]["denominator"], cs[k]["reference"],
                       cs[k]["ignored"], cs[k]["normalizedErrors"])
  BY DEF NormalizedMetric
<1>3. Metric(AddCounts(cs)["normalized"], AddCounts(cs)["denominator"],
             AddCounts(cs)["reference"], AddCounts(cs)["ignored"],
             AddCounts(cs)["normalizedErrors"]) = SumMetrics(ms)
  BY <1>1, <1>2, MetricsAdd
<1> QED
  BY <1>3 DEF NormalizedMetric

LEMMA PagesAdd ==
  ASSUME NEW cs, NEW ms,
         \A k \in DOMAIN scored :
           ms[k] = Metric(cs[k]["page"], cs[k]["pageDenominator"], cs[k]["reference"],
                          cs[k]["ignored"], cs[k]["duplicates"])
  PROVE  Metric(AddCounts(cs)["page"], AddCounts(cs)["pageDenominator"],
                AddCounts(cs)["reference"], AddCounts(cs)["ignored"],
                AddCounts(cs)["duplicates"]) = SumMetrics(ms)
<1>1. PICK a \in Counters, b \in Counters, c \in Counters, d \in Counters, e \in Counters :
        /\ a = "page" /\ b = "pageDenominator" /\ c = "reference" /\ d = "ignored"
        /\ e = "duplicates"
  BY DEF Counters
<1>2. \A k \in DOMAIN scored :
        ms[k] = Metric(cs[k][a], cs[k][b], cs[k][c], cs[k][d], cs[k][e])
  BY <1>1
<1>3. Metric(AddCounts(cs)[a], AddCounts(cs)[b], AddCounts(cs)[c], AddCounts(cs)[d],
             AddCounts(cs)[e]) = SumMetrics(ms)
  BY <1>2, MetricsAdd
<1> QED
  BY <1>1, <1>3

(* The metrics without errors, and those of rows.                             *)
LEMMA MissingAdds ==
  ASSUME ScoringInvariant, NEW cs, NEW ms,
         \A k \in DOMAIN scored :
           ms[k] = Metric(cs[k]["requiredMissing"], cs[k]["required"], cs[k]["reference"],
                          cs[k]["ignored"], 0)
  PROVE  Metric(AddCounts(cs)["requiredMissing"], AddCounts(cs)["required"],
                AddCounts(cs)["reference"], AddCounts(cs)["ignored"], 0) = SumMetrics(ms)
<1>1. /\ "requiredMissing" \in Counters /\ "required" \in Counters
      /\ "reference" \in Counters /\ "ignored" \in Counters
  BY DEF Counters
<1>2. \A x \in Counters : AddCounts(cs)[x] = Total([k \in DOMAIN scored |-> cs[k][x]])
  BY DEF AddCounts
<1>3. ASSUME NEW k \in DOMAIN scored
      PROVE  /\ ms[k].n = cs[k]["requiredMissing"] /\ ms[k].d = cs[k]["required"]
             /\ ms[k].reference = cs[k]["reference"] /\ ms[k].ignored = cs[k]["ignored"]
             /\ ms[k].errors = 0
  BY MetricParts
<1>4. /\ [k \in DOMAIN scored |-> ms[k].n] = [k \in DOMAIN scored |-> cs[k]["requiredMissing"]]
      /\ [k \in DOMAIN scored |-> ms[k].d] = [k \in DOMAIN scored |-> cs[k]["required"]]
      /\ [k \in DOMAIN scored |-> ms[k].reference] = [k \in DOMAIN scored |-> cs[k]["reference"]]
      /\ [k \in DOMAIN scored |-> ms[k].ignored] = [k \in DOMAIN scored |-> cs[k]["ignored"]]
      /\ [k \in DOMAIN scored |-> ms[k].errors] = [k \in DOMAIN scored |-> 0]
  BY <1>3
<1>5. /\ AddCounts(cs)["requiredMissing"] = Total([k \in DOMAIN scored |-> ms[k].n])
      /\ AddCounts(cs)["required"] = Total([k \in DOMAIN scored |-> ms[k].d])
      /\ AddCounts(cs)["reference"] = Total([k \in DOMAIN scored |-> ms[k].reference])
      /\ AddCounts(cs)["ignored"] = Total([k \in DOMAIN scored |-> ms[k].ignored])
      /\ 0 = Total([k \in DOMAIN scored |-> ms[k].errors])
  BY <1>1, <1>2, <1>4, NothingAddsUp
<1> QED
  BY <1>5, MetricsOf

LEMMA RowMetricsAdd ==
  ASSUME ScoringInvariant, NEW b \in {"invented", "lost"}, NEW ms,
         \A k \in DOMAIN scored :
           ms[k] = Metric(scored[k].outcome.rows.found,
                          scored[k].outcome.rows.found + scored[k].outcome.rows[b], 0, 0, 0)
  PROVE  Metric(AddRows.found, AddRows.found + AddRows[b], 0, 0, 0) = SumMetrics(ms)
<1>1. AddRows["found"] = Total([k \in DOMAIN scored |-> scored[k].outcome.rows["found"]])
  BY DEF AddRows
<1>2. AddRows["found"] + AddRows[b] =
        Total([k \in DOMAIN scored |-> scored[k].outcome.rows["found"]
                                       + scored[k].outcome.rows[b]])
  BY RowsAdd
<1>3. ASSUME NEW k \in DOMAIN scored
      PROVE  /\ ms[k].n = scored[k].outcome.rows["found"]
             /\ ms[k].d = scored[k].outcome.rows["found"] + scored[k].outcome.rows[b]
             /\ ms[k].reference = 0 /\ ms[k].ignored = 0 /\ ms[k].errors = 0
  BY MetricParts
<1>4. /\ [k \in DOMAIN scored |-> ms[k].n] =
           [k \in DOMAIN scored |-> scored[k].outcome.rows["found"]]
      /\ [k \in DOMAIN scored |-> ms[k].d] =
           [k \in DOMAIN scored |-> scored[k].outcome.rows["found"] + scored[k].outcome.rows[b]]
      /\ [k \in DOMAIN scored |-> ms[k].reference] = [k \in DOMAIN scored |-> 0]
      /\ [k \in DOMAIN scored |-> ms[k].ignored] = [k \in DOMAIN scored |-> 0]
      /\ [k \in DOMAIN scored |-> ms[k].errors] = [k \in DOMAIN scored |-> 0]
  BY <1>3
<1>5. /\ AddRows.found = Total([k \in DOMAIN scored |-> ms[k].n])
      /\ AddRows.found + AddRows[b] = Total([k \in DOMAIN scored |-> ms[k].d])
      /\ 0 = Total([k \in DOMAIN scored |-> ms[k].reference])
      /\ 0 = Total([k \in DOMAIN scored |-> ms[k].ignored])
      /\ 0 = Total([k \in DOMAIN scored |-> ms[k].errors])
  BY <1>1, <1>2, <1>4, NothingAddsUp
<1> QED
  BY <1>5, MetricsOf

(* The report that follows the cases passes its own check.                    *)
LEMMA ReportIsSound == ScoringInvariant => ReportOK(Report)
<1> SUFFICES ASSUME ScoringInvariant PROVE ReportOK(Report)
  OBVIOUS
<1> DEFINE of == [k \in DOMAIN scored |-> scored[k].outcome.metrics]
           told == [k \in DOMAIN scored |-> scored[k].outcome]
           cs == [k \in DOMAIN scored |-> scored[k].outcome.counts]
           cks(i) == [k \in DOMAIN scored |-> scored[k].outcome.byKind[i]]
           counts == AddCounts(cs)
           byKind == [i \in Kinds |-> AddCounts(cks(i))]
           m == CohortMetrics(counts, byKind, AddRows)
           reasons == UNION {told[k].reasons : k \in DOMAIN told}
<1>1. Report.metrics = m /\ Report.accepted = (reasons = {})
  <2>1. /\ [k \in DOMAIN told |-> told[k].counts] = cs
        /\ \A i : [k \in DOMAIN told |-> told[k].byKind[i]] = cks(i)
    OBVIOUS
  <2>2. Report.metrics =
          CohortMetrics(AddCounts([k \in DOMAIN told |-> told[k].counts]),
            [i \in Kinds |-> AddCounts([k \in DOMAIN told |-> told[k].byKind[i]])], AddRows)
    BY DEF Report
  <2>3. [i \in Kinds |-> AddCounts([k \in DOMAIN told |-> told[k].byKind[i]])] = byKind
    BY <2>1
  <2>4. Report.accepted = (reasons = {})
    BY DEF Report
  <2> QED
    BY <2>1, <2>2, <2>3, <2>4
<1>2. ASSUME NEW k \in DOMAIN scored
      PROVE  /\ of[k] = CohortMetrics(cs[k], scored[k].outcome.byKind, scored[k].outcome.rows)
             /\ scored[k].outcome.accepted = (scored[k].outcome.reasons = {})
             /\ told[k] = scored[k].outcome
             /\ \A i : cks(i)[k] = scored[k].outcome.byKind[i]
  BY KeptCase
<1>3. DOMAIN of = DOMAIN scored /\ DOMAIN told = DOMAIN scored
  OBVIOUS
<1>4. PICK mm : mm = m
  OBVIOUS
<1>5. PICK lines : lines = AddRows
  OBVIOUS
<1> HIDE DEF of, cs, cks, told, counts, byKind, m
<1>6. ASSUME NEW k \in DOMAIN scored
      PROVE  /\ of[k].exact = ExactMetric(cs[k]) /\ of[k].normalized = NormalizedMetric(cs[k])
             /\ of[k].page = Metric(cs[k]["page"], cs[k]["pageDenominator"], cs[k]["reference"],
                                    cs[k]["ignored"], cs[k]["duplicates"])
             /\ of[k].missing = Metric(cs[k]["requiredMissing"], cs[k]["required"],
                                       cs[k]["reference"], cs[k]["ignored"], 0)
             /\ of[k].confusion = <<cs[k]["TP"], cs[k]["FP"], cs[k]["FN"], cs[k]["TN"]>>
             /\ of[k].rowPrecision =
                  Metric(scored[k].outcome.rows.found,
                         scored[k].outcome.rows.found + scored[k].outcome.rows.invented, 0, 0, 0)
             /\ of[k].rowRecall =
                  Metric(scored[k].outcome.rows.found,
                         scored[k].outcome.rows.found + scored[k].outcome.rows.lost, 0, 0, 0)
             /\ \A i \in Kinds : of[k].exactOf[i] = ExactMetric(cks(i)[k])
             /\ \A i \in Kinds : of[k].normalizedOf[i] = NormalizedMetric(cks(i)[k])
             /\ \A x \in Totals : of[k].totals[x] = cs[k][x]
  <2>1. PICK o, b, r : /\ o = of[k] /\ b = scored[k].outcome.byKind
                       /\ r = scored[k].outcome.rows
    OBVIOUS
  <2>2. o = CohortMetrics(cs[k], b, r) /\ \A i : cks(i)[k] = b[i]
    BY <1>2, <2>1
  <2>3. /\ o.exactOf = [i \in Kinds |-> ExactMetric(b[i])]
        /\ o.normalizedOf = [i \in Kinds |-> NormalizedMetric(b[i])]
        /\ o.totals = [x \in Totals |-> cs[k][x]]
    BY <2>2, CohortParts
  <2>4. /\ \A i \in Kinds : o.exactOf[i] = ExactMetric(cks(i)[k])
        /\ \A i \in Kinds : o.normalizedOf[i] = NormalizedMetric(cks(i)[k])
        /\ \A x \in Totals : o.totals[x] = cs[k][x]
    BY <2>2, <2>3
  <2>5. /\ o.exact = ExactMetric(cs[k]) /\ o.normalized = NormalizedMetric(cs[k])
        /\ o.page = Metric(cs[k]["page"], cs[k]["pageDenominator"], cs[k]["reference"],
                           cs[k]["ignored"], cs[k]["duplicates"])
        /\ o.missing = Metric(cs[k]["requiredMissing"], cs[k]["required"],
                              cs[k]["reference"], cs[k]["ignored"], 0)
        /\ o.confusion = <<cs[k]["TP"], cs[k]["FP"], cs[k]["FN"], cs[k]["TN"]>>
        /\ o.rowPrecision = Metric(r.found, r.found + r.invented, 0, 0, 0)
        /\ o.rowRecall = Metric(r.found, r.found + r.lost, 0, 0, 0)
    BY <2>2 DEF CohortMetrics
  <2> QED
    BY <2>1, <2>4, <2>5
<1>7. /\ mm.exact = ExactMetric(counts) /\ mm.normalized = NormalizedMetric(counts)
      /\ mm.page = Metric(counts["page"], counts["pageDenominator"], counts["reference"],
                          counts["ignored"], counts["duplicates"])
      /\ mm.missing = Metric(counts["requiredMissing"], counts["required"],
                             counts["reference"], counts["ignored"], 0)
      /\ mm.confusion = <<counts["TP"], counts["FP"], counts["FN"], counts["TN"]>>
      /\ mm.rowPrecision = Metric(lines.found, lines.found + lines.invented, 0, 0, 0)
      /\ mm.rowRecall = Metric(lines.found, lines.found + lines.lost, 0, 0, 0)
  <2>1. mm = CohortMetrics(counts, byKind, lines)
    BY <1>4, <1>5 DEF m
  <2> QED
    BY <2>1 DEF CohortMetrics
<1>8. /\ mm.exactOf = [i \in Kinds |-> ExactMetric(byKind[i])]
      /\ mm.normalizedOf = [i \in Kinds |-> NormalizedMetric(byKind[i])]
      /\ mm.totals = [x \in Totals |-> counts[x]]
  <2>1. mm = CohortMetrics(counts, byKind, lines)
    BY <1>4, <1>5 DEF m
  <2> QED
    BY <2>1, CohortParts
<1>9. ASSUME NEW x \in {"exact", "normalized", "page", "missing", "rowPrecision", "rowRecall"}
      PROVE  mm[x] = SumMetrics([k \in DOMAIN of |-> of[k][x]])
  <2>1. PICK ms : ms = [k \in DOMAIN of |-> of[k][x]]
    OBVIOUS
  <2>2. \A k \in DOMAIN scored : ms[k] = of[k][x]
    BY <1>3, <2>1
  <2>3. CASE x = "exact"
    <3>1. \A k \in DOMAIN scored : ms[k] = ExactMetric(cs[k])
      BY <1>6, <2>2, <2>3
    <3>2. ExactMetric(counts) = SumMetrics(ms)
      BY <3>1, ExactAdds DEF counts
    <3> QED
      BY <1>7, <2>1, <2>3, <3>2
  <2>4. CASE x = "normalized"
    <3>1. \A k \in DOMAIN scored : ms[k] = NormalizedMetric(cs[k])
      BY <1>6, <2>2, <2>4
    <3>2. NormalizedMetric(counts) = SumMetrics(ms)
      BY <3>1, NormalizedAdds DEF counts
    <3> QED
      BY <1>7, <2>1, <2>4, <3>2
  <2>5. CASE x = "page"
    <3>1. \A k \in DOMAIN scored :
            ms[k] = Metric(cs[k]["page"], cs[k]["pageDenominator"], cs[k]["reference"],
                           cs[k]["ignored"], cs[k]["duplicates"])
      BY <1>6, <2>2, <2>5
    <3>2. Metric(counts["page"], counts["pageDenominator"], counts["reference"],
                 counts["ignored"], counts["duplicates"]) = SumMetrics(ms)
      BY <3>1, PagesAdd DEF counts
    <3> QED
      BY <1>7, <2>1, <2>5, <3>2
  <2>6. CASE x = "missing"
    <3>1. \A k \in DOMAIN scored :
            ms[k] = Metric(cs[k]["requiredMissing"], cs[k]["required"], cs[k]["reference"],
                           cs[k]["ignored"], 0)
      BY <1>6, <2>2, <2>6
    <3>2. Metric(counts["requiredMissing"], counts["required"], counts["reference"],
                 counts["ignored"], 0) = SumMetrics(ms)
      BY <3>1, MissingAdds DEF counts
    <3> QED
      BY <1>7, <2>1, <2>6, <3>2
  <2>7. CASE x = "rowPrecision"
    <3>1. \A k \in DOMAIN scored :
            ms[k] = Metric(scored[k].outcome.rows.found,
                           scored[k].outcome.rows.found + scored[k].outcome.rows["invented"],
                           0, 0, 0)
      BY <1>6, <2>2, <2>7
    <3>2. Metric(AddRows.found, AddRows.found + AddRows["invented"], 0, 0, 0) = SumMetrics(ms)
      BY <3>1, RowMetricsAdd
    <3>3. Metric(lines.found, lines.found + lines["invented"], 0, 0, 0) = SumMetrics(ms)
      BY <1>5, <3>2
    <3> QED
      BY <1>7, <2>1, <2>7, <3>3
  <2>8. CASE x = "rowRecall"
    <3>1. \A k \in DOMAIN scored :
            ms[k] = Metric(scored[k].outcome.rows.found,
                           scored[k].outcome.rows.found + scored[k].outcome.rows["lost"], 0, 0, 0)
      BY <1>6, <2>2, <2>8
    <3>2. Metric(AddRows.found, AddRows.found + AddRows["lost"], 0, 0, 0) = SumMetrics(ms)
      BY <3>1, RowMetricsAdd
    <3>3. Metric(lines.found, lines.found + lines["lost"], 0, 0, 0) = SumMetrics(ms)
      BY <1>5, <3>2
    <3> QED
      BY <1>7, <2>1, <2>8, <3>3
  <2> QED
    BY <2>3, <2>4, <2>5, <2>6, <2>7, <2>8
<1>10. ASSUME NEW i \in Kinds, NEW x \in {"exactOf", "normalizedOf"}
       PROVE  mm[x][i] = SumMetrics([k \in DOMAIN of |-> of[k][x][i]])
  <2>1. PICK ms : ms = [k \in DOMAIN of |-> of[k][x][i]]
    OBVIOUS
  <2>2. \A k \in DOMAIN scored : ms[k] = of[k][x][i]
    BY <1>3, <2>1
  <2>3. PICK ci : ci = cks(i)
    OBVIOUS
  <2>4. byKind[i] = AddCounts(ci)
    BY <2>3 DEF byKind
  <2>5. CASE x = "exactOf"
    <3>1. \A k \in DOMAIN scored : ms[k] = ExactMetric(ci[k])
      BY <1>6, <2>2, <2>3, <2>5
    <3>2. ExactMetric(AddCounts(ci)) = SumMetrics(ms)
      BY <3>1, ExactAdds
    <3>3. mm.exactOf[i] = ExactMetric(byKind[i])
      BY <1>8
    <3> QED
      BY <2>1, <2>4, <2>5, <3>2, <3>3
  <2>6. CASE x = "normalizedOf"
    <3>1. \A k \in DOMAIN scored : ms[k] = NormalizedMetric(ci[k])
      BY <1>6, <2>2, <2>3, <2>6
    <3>2. NormalizedMetric(AddCounts(ci)) = SumMetrics(ms)
      BY <3>1, NormalizedAdds
    <3>3. mm.normalizedOf[i] = NormalizedMetric(byKind[i])
      BY <1>8
    <3> QED
      BY <2>1, <2>4, <2>6, <3>2, <3>3
  <2> QED
    BY <2>5, <2>6
<1>11. \A x \in Counters : counts[x] = Total([k \in DOMAIN scored |-> cs[k][x]])
  BY DEF counts, AddCounts
<1>12. ASSUME NEW j \in 1 .. 4
       PROVE  mm.confusion[j] = Total([k \in DOMAIN of |-> of[k].confusion[j]])
  <2>1. /\ "TP" \in Counters /\ "FP" \in Counters /\ "FN" \in Counters /\ "TN" \in Counters
    BY DEF Counters
  <2>2. PICK x \in Counters : /\ mm.confusion[j] = counts[x]
                              /\ \A k \in DOMAIN scored : of[k].confusion[j] = cs[k][x]
    <3>1. CASE j = 1
      BY <1>6, <1>7, <2>1, <3>1
    <3>2. CASE j = 2
      BY <1>6, <1>7, <2>1, <3>2
    <3>3. CASE j = 3
      BY <1>6, <1>7, <2>1, <3>3
    <3>4. CASE j = 4
      BY <1>6, <1>7, <2>1, <3>4
    <3> QED
      BY <3>1, <3>2, <3>3, <3>4
  <2>3. [k \in DOMAIN of |-> of[k].confusion[j]] = [k \in DOMAIN scored |-> cs[k][x]]
    BY <1>3, <2>2
  <2> QED
    BY <1>11, <2>2, <2>3
<1>13. ASSUME NEW x \in DOMAIN mm.totals
       PROVE  mm.totals[x] = Total([k \in DOMAIN of |-> of[k].totals[x]])
  <2>1. x \in Totals /\ mm.totals[x] = counts[x]
    BY <1>8
  <2>2. x \in Counters
    BY <2>1 DEF Counters, Totals
  <2>3. \A k \in DOMAIN scored : of[k].totals[x] = cs[k][x]
    BY <1>6, <2>1
  <2>4. [k \in DOMAIN of |-> of[k].totals[x]] = [k \in DOMAIN scored |-> cs[k][x]]
    BY <1>3, <2>3
  <2> QED
    BY <1>11, <2>1, <2>2, <2>4
<1>14. Report.accepted <=> \A k \in DOMAIN scored : scored[k].outcome.accepted
  <2>1. (reasons = {}) <=> \A k \in DOMAIN scored : told[k].reasons = {}
    <3>1. \A k \in DOMAIN scored : told[k].reasons \in {told[j].reasons : j \in DOMAIN told}
      BY <1>3
    <3>2. \A r \in {told[j].reasons : j \in DOMAIN told} :
            \E k \in DOMAIN scored : r = told[k].reasons
      BY <1>3
    <3> QED
      BY <3>1, <3>2
  <2>2. Report.accepted = (reasons = {})
    BY <1>1
  <2> HIDE DEF reasons
  <2> QED
    BY <1>2, <2>1, <2>2
<1>15. Report.metrics = mm /\ of = [k \in DOMAIN scored |-> scored[k].outcome.metrics]
  BY <1>1, <1>4 DEF of
<1>16. PICK report : report = Report
  OBVIOUS
<1>17. /\ \A x \in {"exact", "normalized", "page", "missing", "rowPrecision", "rowRecall"} :
            report.metrics[x] = SumMetrics([k \in DOMAIN of |-> of[k][x]])
       /\ \A i \in Kinds, x \in {"exactOf", "normalizedOf"} :
            report.metrics[x][i] = SumMetrics([k \in DOMAIN of |-> of[k][x][i]])
       /\ \A j \in 1 .. 4 :
            report.metrics.confusion[j] = Total([k \in DOMAIN of |-> of[k].confusion[j]])
       /\ \A x \in DOMAIN report.metrics.totals :
            report.metrics.totals[x] = Total([k \in DOMAIN of |-> of[k].totals[x]])
       /\ report.accepted <=> \A k \in DOMAIN scored : scored[k].outcome.accepted
  BY <1>9, <1>10, <1>12, <1>13, <1>14, <1>15, <1>16
<1>18. ReportOK(report)
  BY <1>17 DEF ReportOK, of
<1> QED
  BY <1>16, <1>18

-----------------------------------------------------------------------------
(* Every ratio of a case is one.                                              *)
LEMMA RatiosOfCounts ==
  ASSUME NEW made, NEW fields, IsFiniteSet(DOMAIN fields)
  PROVE  LET c == CountsOf(made, fields, Kinds)
         IN /\ c["exact"] \in 0 .. c["denominator"] /\ c["normalized"] \in 0 .. c["denominator"]
            /\ c["page"] \in 0 .. c["pageDenominator"]
            /\ c["requiredMissing"] \in 0 .. c["required"]
<1> DEFINE counted(x) == {k \in DOMAIN fields :
                            /\ fields[k].kind \in Kinds
                            /\ x \in CountedOnce(made, fields[k]) \cup CountedReasons(made, fields[k])}
<1>1. ASSUME NEW x \in Counters, x # "unmapped"
      PROVE  CountsOf(made, fields, Kinds)[x] = Cardinality(counted(x))
  BY <1>1 DEF CountsOf
<1>2. ASSUME NEW x, NEW y, counted(x) \subseteq counted(y)
      PROVE  Cardinality(counted(x)) \in 0 .. Cardinality(counted(y))
  <2>1. PICK X, Y : X = counted(x) /\ Y = counted(y)
    OBVIOUS
  <2>2. X \subseteq Y /\ Y \subseteq DOMAIN fields
    BY <1>2, <2>1
  <2>3. IsFiniteSet(Y) /\ IsFiniteSet(X) /\ Cardinality(X) <= Cardinality(Y)
    BY <2>2, FS_Subset
  <2>4. Cardinality(X) \in Nat /\ Cardinality(Y) \in Nat
    BY <2>3, FS_CardinalityType
  <2>5. Cardinality(X) \in 0 .. Cardinality(Y)
    BY <2>3, <2>4
  <2> QED
    BY <2>1, <2>5
<1>3. ASSUME NEW x \in {"exact", "normalized", "page", "requiredMissing"}, NEW f
      PROVE  x \notin CountedReasons(made, f)
  BY DEF CountedReasons
<1>4. ASSUME NEW f
      PROVE  /\ "exact" \in CountedOnce(made, f) => "denominator" \in CountedOnce(made, f)
             /\ "normalized" \in CountedOnce(made, f) => "denominator" \in CountedOnce(made, f)
             /\ "page" \in CountedOnce(made, f) => "pageDenominator" \in CountedOnce(made, f)
             /\ "requiredMissing" \in CountedOnce(made, f) => "required" \in CountedOnce(made, f)
  <2>1. CASE f.ignored
    BY <2>1 DEF CountedOnce
  <2>2. CASE ~f.ignored /\ Handwritten(f)
    BY <2>2 DEF CountedOnce
  <2>3. CASE ~f.ignored /\ ~Handwritten(f)
    <3> DEFINE R == IF f.required THEN CountedRequired(made, f) ELSE {}
               D == IF Cardinality(Predictions(made, f)) > 1 THEN {"duplicates", "normalizedErrors"}
                    ELSE {}
               A == IF Alone(made, f)
                    THEN CountedEvidence(Evidence(f, Only(made, f)))
                         \cup (IF UnapprovedBy(f, Only(made, f)) # {} THEN {"normalizedErrors"}
                               ELSE {})
                    ELSE {}
    <3>1. CountedOnce(made, f) = {"denominator"} \cup R \cup D \cup A
      BY <2>3 DEF CountedOnce
    <3>2. "requiredMissing" \in R => "required" \in R
      BY DEF CountedRequired
    <3>3. "page" \notin R
      BY DEF CountedRequired, Confusion
    <3>4. D \subseteq {"duplicates", "normalizedErrors"}
      OBVIOUS
    <3>5. "requiredMissing" \notin A
      BY DEF CountedEvidence
    <3>6. "page" \in A => "pageDenominator" \in A
      BY DEF CountedEvidence
    <3> HIDE DEF R, D, A
    <3> QED
      BY <3>1, <3>2, <3>3, <3>4, <3>5, <3>6
  <2> QED
    BY <2>1, <2>2, <2>3
<1>5. /\ counted("exact") \subseteq counted("denominator")
      /\ counted("normalized") \subseteq counted("denominator")
      /\ counted("page") \subseteq counted("pageDenominator")
      /\ counted("requiredMissing") \subseteq counted("required")
  BY <1>3, <1>4
<1>6. /\ "exact" \in Counters /\ "denominator" \in Counters /\ "normalized" \in Counters
      /\ "page" \in Counters /\ "pageDenominator" \in Counters
      /\ "requiredMissing" \in Counters /\ "required" \in Counters
  BY DEF Counters
<1> HIDE DEF counted
<1> QED
  BY <1>1, <1>2, <1>5, <1>6

LEMMA RatiosAreRatios ==
  ASSUME ScoringInvariant, NEW k \in DOMAIN scored,
         NEW x \in {"exact", "normalized", "page", "missing", "rowPrecision", "rowRecall"}
  PROVE  scored[k].outcome.metrics[x].n \in 0 .. scored[k].outcome.metrics[x].d
<1>1. PICK offer : offer = scored[k].offer
  OBVIOUS
<1>2. PICK made, fields : made = RunOf(offer) /\ fields = offer.fields
  OBVIOUS
<1>3. /\ k \in DOMAIN Offers /\ offer \in Offers[k]
      /\ scored[k].outcome = ScoreCase(made, fields)
  BY <1>1, <1>2 DEF ScoringInvariant, CaseIsScored
<1>4. PICK c, b, r : /\ c = CountsOf(made, fields, Kinds)
                     /\ b = [i \in Kinds |-> CountsOf(made, fields, {i})]
                     /\ r = RowCounts(made, fields)
  OBVIOUS
<1>5. PICK outcome, m : outcome = ScoreCase(made, fields) /\ m = outcome.metrics
  OBVIOUS
<1>6. m = CohortMetrics(c, b, r)
  BY <1>4, <1>5 DEF ScoreCase
<1>7. /\ c["exact"] \in 0 .. c["denominator"] /\ c["normalized"] \in 0 .. c["denominator"]
      /\ c["page"] \in 0 .. c["pageDenominator"]
      /\ c["requiredMissing"] \in 0 .. c["required"]
  <2>1. IsFiniteSet(DOMAIN fields)
    BY <1>2, <1>3, OffersAreFinite
  <2> QED
    BY <1>4, <2>1, RatiosOfCounts
<1>8. r.found \in Nat /\ r.invented \in Nat /\ r.lost \in Nat
  BY <1>2, <1>3, <1>4, RowsAreCounted
<1>9. r.found \in 0 .. (r.found + r.invented) /\ r.found \in 0 .. (r.found + r.lost)
  BY <1>8
<1>10. m[x].n \in 0 .. m[x].d
  <2>1. CASE x = "exact"
    BY <1>6, <1>7, <2>1 DEF CohortMetrics, ExactMetric, Metric
  <2>2. CASE x = "normalized"
    BY <1>6, <1>7, <2>2 DEF CohortMetrics, NormalizedMetric, Metric
  <2>3. CASE x = "page"
    BY <1>6, <1>7, <2>3 DEF CohortMetrics, Metric
  <2>4. CASE x = "missing"
    BY <1>6, <1>7, <2>4 DEF CohortMetrics, Metric
  <2>5. CASE x = "rowPrecision"
    BY <1>6, <1>9, <2>5 DEF CohortMetrics, Metric
  <2>6. CASE x = "rowRecall"
    BY <1>6, <1>9, <2>6 DEF CohortMetrics, Metric
  <2> QED
    BY <2>1, <2>2, <2>3, <2>4, <2>5, <2>6
<1> QED
  BY <1>3, <1>5, <1>10

(* Every candidate is named by one outcome.                                    *)
LEMMA OneOutcomeEach ==
  ASSUME ScoringInvariant, NEW k \in DOMAIN scored,
         scored[k].offer.failure = 0, scored[k].offer.bound,
         NEW j \in DOMAIN scored[k].offer.values
  PROVE  Cardinality({o \in scored[k].outcome.outcomes : j \in o.orders}) = 1
<1>1. PICK offer : offer = scored[k].offer
  OBVIOUS
<1>2. PICK made, fields : made = RunOf(offer) /\ fields = offer.fields
  OBVIOUS
<1>3. /\ k \in DOMAIN Offers /\ offer \in Offers[k] /\ GoldenCaseOK(fields)
      /\ scored[k].outcome = ScoreCase(made, fields)
  BY <1>1, <1>2 DEF ScoringInvariant, CaseIsScored
<1>4. made.bound /\ j \in DOMAIN made.values
  BY <1>1, <1>2, <1>3, RunsOfOffers
<1>5. scored[k].outcome.outcomes = Outcomes(made, fields)
  <2>1. PICK outcome : outcome = ScoreCase(made, fields)
    OBVIOUS
  <2>2. outcome.outcomes = Outcomes(made, fields)
    BY <2>1 DEF ScoreCase
  <2> QED
    BY <1>3, <2>1, <2>2
<1>6. \A i \in DOMAIN fields :
        FieldOutcome(made, fields, i).orders
          = {n \in DOMAIN made.values : Key(made.values[n]) = Key(fields[i])}
  <2> TAKE i \in DOMAIN fields
  <2>1. FieldOutcome(made, fields, i).orders = Predictions(made, fields[i])
    BY DEF FieldOutcome
  <2> QED
    BY <1>4, <2>1 DEF Predictions
<1>7. \A n : UnmappedOutcome(made, n).orders = {n}
  BY DEF UnmappedOutcome
<1>8. \A i, n \in DOMAIN fields : Key(fields[i]) = Key(fields[n]) => i = n
  <2> DEFINE keys == [i \in DOMAIN fields |-> Key(fields[i])]
  <2>1. IsInjective(keys)
    BY <1>3 DEF GoldenCaseOK
  <2> QED
    BY <2>1 DEF IsInjective
<1> DEFINE naming == {o \in Outcomes(made, fields) : j \in o.orders}
<1>9. \E o : naming = {o}
  <2>1. CASE j \in Unmapped(made, fields)
    <3>1. \A i \in DOMAIN fields : j \notin FieldOutcome(made, fields, i).orders
      BY <1>6, <2>1 DEF Unmapped
    <3>2. naming = {UnmappedOutcome(made, j)}
      BY <1>7, <2>1, <3>1 DEF Outcomes
    <3> QED
      BY <3>2
  <2>2. CASE j \notin Unmapped(made, fields)
    <3>1. PICK i \in DOMAIN fields : Key(fields[i]) = Key(made.values[j])
      BY <1>4, <2>2 DEF Unmapped
    <3>2. j \in FieldOutcome(made, fields, i).orders
      BY <1>4, <1>6, <3>1
    <3>3. \A n \in DOMAIN fields : j \in FieldOutcome(made, fields, n).orders => n = i
      BY <1>6, <1>8, <3>1
    <3>4. \A n \in Unmapped(made, fields) : j \notin UnmappedOutcome(made, n).orders
      BY <1>7, <2>2
    <3>5. naming = {FieldOutcome(made, fields, i)}
      BY <3>2, <3>3, <3>4 DEF Outcomes
    <3> QED
      BY <3>5
  <2> QED
    BY <2>1, <2>2
<1>10. Cardinality(naming) = 1
  <2>1. PICK o : naming = {o}
    BY <1>9
  <2>2. Cardinality({o}) = 1
    BY FS_Singleton
  <2> QED
    BY <2>1, <2>2
<1> QED
  BY <1>5, <1>10

(* Scoring loses nothing on the way from the candidates to the report (runner, *)
(* scorer and the models of the report): one outcome for every offer, ratios,   *)
(* one place for every candidate, and totals that are those of the cases.      *)
THEOREM ScoringLosesNothing ==
  InitScoring /\ [][NextScoring]_scoringVars => []ScoredWhole
<1>1. ScoringInvariant => ScoringTypeOK
  BY RatiosAreRatios DEF ScoringInvariant, ScoringTypeOK, CaseIsScored
<1>2. ScoringInvariant => CandidatesAccounted
  BY OneOutcomeEach DEF CandidatesAccounted
<1>3. ScoringInvariant => ReportFollowsCases
  BY ReportIsSound DEF ReportFollowsCases
<1>4. ScoringInvariant => ScoredWhole
  BY <1>1, <1>2, <1>3 DEF ScoredWhole
<1> QED
  BY <1>4, CasesAreScored, PTL

-----------------------------------------------------------------------------
(* Which runs are scored.                                                     *)
(* A golden case with a run of it that claims nothing of itself but what is    *)
(* so: what Plain says of an offer, with the types of what it speaks of.      *)
PlainCandidate(made, fields, j) ==
  LET c == made.values[j] IN
  /\ c.kind \in Kinds /\ c.reasons \subseteq EvaluationReasons /\ CandidateOK(c)
  /\ c.reasons \cap ClaimedOnly # {} => Twice(made.values, j)
  /\ j \in Unmapped(made, fields) => made.bound /\ c.reasons \subseteq {"MISSING_REQUIRED"}
PlainField(made, fields, i) ==
  LET f == fields[i] IN
  /\ f.kind \in Kinds /\ f.reasons \subseteq ReviewReasons
  /\ f.required \in BOOLEAN /\ f.ignored \in BOOLEAN /\ ~(f.ignored /\ Handwritten(f))
  /\ Eligible(f) /\ ~f.required => Predictions(made, f) # {}
  /\ MissingMarked(f) => PredictedMissing(made, f)
  /\ \A j \in DOMAIN made.values : Key(made.values[j]) = Key(f) =>
       (Handwritten(made.values[j]) <=> Handwritten(f))
PlainRun(made, fields) ==
  /\ IsFiniteSet(DOMAIN made.values) /\ IsFiniteSet(DOMAIN fields)
  /\ DOMAIN fields \subseteq Nat \ {0} /\ made.bound \in BOOLEAN
  /\ \A j \in DOMAIN made.values : PlainCandidate(made, fields, j)
  /\ \A i \in DOMAIN fields : PlainField(made, fields, i)

(* The only candidate of a field claims nothing that a comparison finds.       *)
LEMMA OnlyCandidate ==
  ASSUME NEW made, NEW fields, PlainRun(made, fields), NEW i \in DOMAIN fields,
         NEW f, f = fields[i], Alone(made, f), NEW c, c = Only(made, f)
  PROVE  /\ c.reasons \cap ClaimedOnly = {} /\ c.reasons \subseteq EvaluationReasons
         /\ CandidateOK(c) /\ (Handwritten(c) <=> Handwritten(f)) /\ Key(c) = Key(f)
<1>1. IsFiniteSet(Predictions(made, f))
  BY FS_Subset, FS_EmptySet DEF Predictions, PlainRun
<1>2. PICK j : Predictions(made, f) = {j}
  BY <1>1, FS_Singleton DEF Alone
<1>3. Predictions(made, f) = {k \in DOMAIN made.values : Key(made.values[k]) = Key(f)}
  BY <1>2 DEF Predictions
<1>4. j \in DOMAIN made.values /\ Key(made.values[j]) = Key(f) /\ c = made.values[j]
  BY <1>2, <1>3 DEF Only
<1>5. ~Twice(made.values, j)
  BY <1>2, <1>3, <1>4 DEF Twice
<1>6. PlainCandidate(made, fields, j) /\ PlainField(made, fields, i)
  BY <1>4 DEF PlainRun
<1>7. c.reasons \cap ClaimedOnly = {} /\ c.reasons \subseteq EvaluationReasons /\ CandidateOK(c)
  BY <1>4, <1>5, <1>6 DEF PlainCandidate
<1>8. Handwritten(c) <=> Handwritten(f)
  BY <1>4, <1>6 DEF PlainField
<1> QED
  BY <1>4, <1>7, <1>8

(* What a comparison says.                                                    *)
LEMMA EvidenceSays ==
  ASSUME NEW f, NEW c, NEW e, e = Evidence(f, c), f.reasons \subseteq ReviewReasons,
         c.reasons \subseteq EvaluationReasons, c.reasons \cap ClaimedOnly = {}
  PROVE  /\ e \in Comparisons
         /\ e.samePage <=> c.page = f.page
         /\ e.exact => e.normalized
         /\ \A r \in ReviewReasons : r \in e.reasons <=> r \in f.reasons \cup c.reasons
         /\ "DUPLICATE_FIELD" \notin e.reasons
         /\ "UNAPPROVED_NORMALIZATION" \in e.reasons <=> UnapprovedBy(f, c) # {}
         /\ "PAGE_MISMATCH" \in e.reasons <=> c.page # f.page
         /\ "VALUE_MISMATCH" \in e.reasons => ~e.normalized
         /\ e.reasons = {} => e.normalized
<1> DEFINE known == f.reasons \cup c.reasons \cup UnapprovedBy(f, c)
           equal == /\ c.kind = f.kind
                    /\ NormalForm[c.value] = NormalForm[f.value]
                    /\ "MISSING_REQUIRED" \notin known
           normalized == equal /\ "UNAPPROVED_NORMALIZATION" \notin known
           exact == normalized /\ c.value = f.value
           samePage == c.page = f.page
           wrong == IF equal \/ "MISSING_REQUIRED" \in known THEN {} ELSE {"VALUE_MISMATCH"}
           other == IF c.page = f.page THEN {} ELSE {"PAGE_MISMATCH"}
           reasons == known \cup wrong \cup other
<1>1. e = [exact |-> exact, normalized |-> normalized, samePage |-> samePage,
           reasons |-> reasons]
  BY DEF Evidence
<1>2. exact \in BOOLEAN /\ normalized \in BOOLEAN /\ samePage \in BOOLEAN
  OBVIOUS
<1>3. UnapprovedBy(f, c) \subseteq {"UNAPPROVED_NORMALIZATION"}
  BY DEF UnapprovedBy
<1>4. /\ wrong \subseteq {"VALUE_MISMATCH"} /\ other \subseteq {"PAGE_MISMATCH"}
      /\ "VALUE_MISMATCH" \in wrong => ~equal
      /\ "PAGE_MISMATCH" \in other <=> c.page # f.page
      /\ wrong = {} => equal \/ "MISSING_REQUIRED" \in known
  OBVIOUS
<1>5. normalized = (equal /\ "UNAPPROVED_NORMALIZATION" \notin known)
  OBVIOUS
<1>6. known = f.reasons \cup c.reasons \cup UnapprovedBy(f, c)
  OBVIOUS
<1>7. exact => normalized
  OBVIOUS
<1>8. samePage <=> c.page = f.page
  OBVIOUS
<1> HIDE DEF known, equal, normalized, exact, samePage, wrong, other
<1>9. /\ e.exact = exact /\ e.normalized = normalized /\ e.samePage = samePage
      /\ e.reasons = known \cup wrong \cup other
  BY <1>1
<1>10. /\ \A r \in ReviewReasons : r \in EvaluationReasons
       /\ ReviewReasons \cap ClaimedOnly = {}
       /\ "UNAPPROVED_NORMALIZATION" \in EvaluationReasons
       /\ "VALUE_MISMATCH" \in EvaluationReasons /\ "PAGE_MISMATCH" \in EvaluationReasons
       /\ ClaimedOnly = {"DUPLICATE_FIELD", "UNAPPROVED_NORMALIZATION", "PAGE_MISMATCH",
                         "VALUE_MISMATCH"}
  BY DEF ReviewReasons, EvaluationReasons, ClaimedOnly
<1>11. e \in Comparisons
  <2>1. known \cup wrong \cup other \in SUBSET EvaluationReasons
    BY <1>3, <1>4, <1>6, <1>10
  <2> QED
    BY <1>1, <1>2, <2>1 DEF Comparisons
<1>12. \A r \in ReviewReasons : r \in e.reasons <=> r \in f.reasons \cup c.reasons
  BY <1>3, <1>4, <1>6, <1>9, <1>10
<1>13. "DUPLICATE_FIELD" \notin e.reasons
  BY <1>3, <1>4, <1>6, <1>9, <1>10
<1>14. "UNAPPROVED_NORMALIZATION" \in e.reasons <=> UnapprovedBy(f, c) # {}
  BY <1>3, <1>4, <1>6, <1>9, <1>10
<1>15. "PAGE_MISMATCH" \in e.reasons <=> c.page # f.page
  BY <1>3, <1>4, <1>6, <1>9, <1>10
<1>16. "VALUE_MISMATCH" \in e.reasons => ~e.normalized
  BY <1>3, <1>4, <1>5, <1>6, <1>9, <1>10
<1>17. e.reasons = {} => e.normalized
  BY <1>4, <1>5, <1>9
<1> QED
  BY <1>7, <1>8, <1>9, <1>11, <1>12, <1>13, <1>14, <1>15, <1>16, <1>17

(* What the scorer says of a golden field of a plain run.                      *)
LEMMA FieldSays ==
  ASSUME NEW made, NEW fields, PlainRun(made, fields), NEW i \in DOMAIN fields,
         NEW f, f = fields[i], NEW rs, rs = ReasonsOf(made, f)
  PROVE  /\ "HANDWRITING_REFERENCE_ONLY" \in rs <=> Handwritten(f)
         /\ "DUPLICATE_FIELD" \in rs <=> Eligible(f) /\ Cardinality(Predictions(made, f)) > 1
         /\ "UNAPPROVED_NORMALIZATION" \in rs
              <=> Compared(made, f) /\ UnapprovedBy(f, Only(made, f)) # {}
         /\ "PAGE_MISMATCH" \in rs
              <=> Compared(made, f) /\ ~Evidence(f, Only(made, f)).samePage
         /\ "VALUE_MISMATCH" \in rs
              => Compared(made, f) /\ ~Evidence(f, Only(made, f)).normalized
         /\ Eligible(f) /\ f.required => ("MISSING_REQUIRED" \in rs <=> PredictedMissing(made, f))
         /\ rs = {} /\ ~f.ignored =>
              /\ Compared(made, f) /\ Evidence(f, Only(made, f)).normalized
              /\ Evidence(f, Only(made, f)).samePage
<1>1. PlainField(made, fields, i)
  BY DEF PlainRun
<1>2. /\ f.reasons \subseteq ReviewReasons /\ f.required \in BOOLEAN /\ f.ignored \in BOOLEAN
      /\ Eligible(f) /\ ~f.required => Predictions(made, f) # {}
      /\ MissingMarked(f) => PredictedMissing(made, f)
  BY <1>1 DEF PlainField
<1>3. /\ "HANDWRITING_REFERENCE_ONLY" \in ReviewReasons /\ "MISSING_REQUIRED" \in ReviewReasons
      /\ "DUPLICATE_FIELD" \notin ReviewReasons /\ "PAGE_MISMATCH" \notin ReviewReasons
      /\ "UNAPPROVED_NORMALIZATION" \notin ReviewReasons /\ "VALUE_MISMATCH" \notin ReviewReasons
  BY DEF ReviewReasons
<1>4. PICK p : p = Predictions(made, f)
  OBVIOUS
<1>5. /\ IsFiniteSet(p) /\ Cardinality(p) \in Nat /\ (Cardinality(p) = 0 <=> p = {})
      /\ (Alone(made, f) <=> Cardinality(p) = 1)
  <2>1. IsFiniteSet(p)
    BY <1>4, FS_Subset, FS_EmptySet DEF Predictions, PlainRun
  <2> QED
    BY <1>4, <2>1, FS_CardinalityType, FS_EmptySet DEF Alone
<1>6. CASE ~Eligible(f)
  <2>1. rs = f.reasons /\ ~Compared(made, f)
    BY <1>6 DEF ReasonsOf, Compared
  <2>2. rs = {} => f.ignored
    BY <1>6, <2>1 DEF Eligible, Handwritten
  <2> QED
    BY <1>2, <1>3, <1>6, <2>1, <2>2 DEF Handwritten
<1>7. CASE Compared(made, f)
  <2>1. PICK c, e : c = Only(made, f) /\ e = Evidence(f, c)
    OBVIOUS
  <2>2. rs = e.reasons /\ Eligible(f) /\ Alone(made, f) /\ ~Handwritten(f)
    BY <1>7, <2>1 DEF ReasonsOf, Compared, Eligible
  <2>3. /\ c.reasons \cap ClaimedOnly = {} /\ c.reasons \subseteq EvaluationReasons
        /\ CandidateOK(c) /\ (Handwritten(c) <=> Handwritten(f))
    BY <2>1, <2>2, OnlyCandidate
  <2>4. /\ e.samePage <=> c.page = f.page
        /\ \A r \in ReviewReasons : r \in e.reasons <=> r \in f.reasons \cup c.reasons
        /\ "DUPLICATE_FIELD" \notin e.reasons
        /\ "UNAPPROVED_NORMALIZATION" \in e.reasons <=> UnapprovedBy(f, c) # {}
        /\ "PAGE_MISMATCH" \in e.reasons <=> c.page # f.page
        /\ "VALUE_MISMATCH" \in e.reasons => ~e.normalized
        /\ e.reasons = {} => e.normalized
    BY <1>2, <2>1, <2>3, EvidenceSays
  <2>5. "HANDWRITING_REFERENCE_ONLY" \in rs <=> Handwritten(f)
    BY <1>3, <2>2, <2>3, <2>4 DEF Handwritten
  <2>6. PredictedMissing(made, f) <=> MissingMarked(c)
    BY <1>4, <1>5, <2>1, <2>2, <2>3 DEF PredictedMissing, CandidateOK
  <2>7. "MISSING_REQUIRED" \in rs <=> PredictedMissing(made, f)
    BY <1>2, <1>3, <2>2, <2>4, <2>6 DEF MissingMarked
  <2>8. "DUPLICATE_FIELD" \in rs <=> Eligible(f) /\ Cardinality(Predictions(made, f)) > 1
    BY <1>4, <1>5, <2>2, <2>4
  <2>9. rs = {} => e.normalized /\ e.samePage
    BY <2>2, <2>4
  <2> QED
    BY <1>7, <2>1, <2>2, <2>4, <2>5, <2>7, <2>8, <2>9
<1>8. CASE Eligible(f) /\ ~Compared(made, f)
  <2>1. ~Alone(made, f) /\ ~Handwritten(f) /\ ~f.ignored
    BY <1>8 DEF Compared, Eligible
  <2>2. rs = f.reasons \cup (IF p # {} THEN {"DUPLICATE_FIELD"}
                             ELSE IF f.required THEN {"MISSING_REQUIRED"} ELSE {"VALUE_MISMATCH"})
    BY <1>4, <1>8 DEF ReasonsOf
  <2>3. CASE p # {}
    <3>1. Cardinality(p) > 1
      BY <1>5, <2>1, <2>3
    <3>2. ~PredictedMissing(made, f)
      BY <1>4, <2>1, <2>3 DEF PredictedMissing
    <3>3. rs = f.reasons \cup {"DUPLICATE_FIELD"}
      BY <2>2, <2>3
    <3> QED
      BY <1>2, <1>3, <1>4, <1>8, <2>1, <3>1, <3>2, <3>3 DEF Handwritten, MissingMarked
  <2>4. CASE p = {}
    <3>1. f.required /\ PredictedMissing(made, f) /\ ~(Cardinality(p) > 1)
      BY <1>2, <1>4, <1>5, <1>8, <2>4 DEF PredictedMissing
    <3>2. rs = f.reasons \cup {"MISSING_REQUIRED"}
      BY <2>2, <2>4, <3>1
    <3> QED
      BY <1>2, <1>3, <1>4, <1>8, <2>1, <3>1, <3>2 DEF Handwritten
  <2> QED
    BY <2>3, <2>4
<1> QED
  BY <1>6, <1>7, <1>8 DEF Compared

(* Only what has no reason is called a match.                                 *)
LEMMA NameOfReasons ==
  ASSUME NEW rs, NameOf(rs) = "MATCH"
  PROVE  rs = {}
<1> DEFINE present == {k \in DOMAIN Named : Named[k] \in rs}
<1>1. DOMAIN Named = 1 .. 6 /\ \A k \in 1 .. 6 : Named[k] # "MATCH"
  BY DEF Named
<1>2. NameOf(rs) = IF present # {} THEN Named[Min(present)]
                   ELSE IF rs # {} THEN "MISMATCH" ELSE "MATCH"
  BY DEF NameOf
<1>3. present \in SUBSET Nat
  BY <1>1
<1>4. present # {} => Min(present) \in present
  <2> HIDE DEF present
  <2> SUFFICES ASSUME present # {} PROVE Min(present) \in present
    OBVIOUS
  <2>1. \E n \in present : \A m \in present : n <= m
    BY <1>3, LeastNatural
  <2> QED
    BY <2>1 DEF Min
<1>5. present \subseteq DOMAIN Named
  OBVIOUS
<1> HIDE DEF present
<1> QED
  BY <1>1, <1>2, <1>4, <1>5

LEMMA MatchedOutcome ==
  ASSUME NEW ignored, NEW rs, NEW e, OutcomeName(ignored, rs, e) = "MATCH"
  PROVE  ~ignored /\ rs = {} /\ ~(e # None /\ ~e.exact /\ e.normalized)
<1>1. ~ignored
  BY DEF OutcomeName
<1>2. ~(rs = {} /\ e # None /\ ~e.exact /\ e.normalized) /\ NameOf(rs) = "MATCH"
  BY <1>1 DEF OutcomeName
<1>3. rs = {}
  BY <1>2, NameOfReasons
<1> QED
  BY <1>1, <1>2, <1>3

(* What an outcome says.                                                      *)
LEMMA OutcomeSays ==
  ASSUME NEW made, NEW fields, NEW i, NEW f, f = fields[i],
         NEW o, o = FieldOutcome(made, fields, i)
  PROVE  /\ o.row = f.row /\ o.kind = f.kind /\ o.order = i /\ o.required = f.required
         /\ o.expectedMissing = (f.value = None)
         /\ o.candidateMissing = PredictedMissing(made, f)
         /\ o.orders = Predictions(made, f)
         /\ o.evidence = IF Compared(made, f) THEN Evidence(f, Only(made, f)) ELSE None
         /\ o.outcome = OutcomeName(f.ignored, ReasonsOf(made, f), o.evidence)
         /\ o.reasons = ReasonsOf(made, f) /\ o.reference = Handwritten(f)
         /\ o.ignored = f.ignored
  BY DEF FieldOutcome

LEMMA UnmappedSays ==
  ASSUME NEW made, NEW j, NEW c, c = made.values[j], NEW o, o = UnmappedOutcome(made, j)
  PROVE  /\ o.row = c.row /\ o.kind = c.kind /\ o.order = 0 /\ o.evidence = None
         /\ o.orders = {j} /\ o.outcome = "UNMAPPED" /\ o.reasons = c.reasons \cup {"UNMAPPED"}
         /\ o.reference = Handwritten(c) /\ o.ignored = FALSE
  BY DEF UnmappedOutcome

LEMMA FieldPasses ==
  ASSUME NEW made, NEW fields, PlainRun(made, fields), NEW i \in DOMAIN fields,
         None \notin Comparisons
  PROVE  FieldOutcomeOK(FieldOutcome(made, fields, i))
<1>1. PICK f, o, p, rs : /\ f = fields[i] /\ o = FieldOutcome(made, fields, i)
                         /\ p = Predictions(made, f) /\ rs = ReasonsOf(made, f)
  OBVIOUS
<1>2. PICK c, e : c = Only(made, f) /\ e = Evidence(f, c)
  OBVIOUS
<1>3. /\ o.order = i /\ o.candidateMissing = PredictedMissing(made, f) /\ o.orders = p
      /\ o.evidence = IF Compared(made, f) THEN e ELSE None
      /\ o.outcome = OutcomeName(f.ignored, rs, o.evidence)
      /\ o.reasons = rs /\ o.reference = Handwritten(f) /\ o.ignored = f.ignored
  BY <1>1, <1>2, OutcomeSays
<1>4. PlainField(made, fields, i) /\ i \in Nat \ {0}
  BY DEF PlainRun
<1>5. /\ "HANDWRITING_REFERENCE_ONLY" \in rs <=> Handwritten(f)
      /\ "PAGE_MISMATCH" \in rs <=> Compared(made, f) /\ ~e.samePage
      /\ "VALUE_MISMATCH" \in rs => Compared(made, f) /\ ~e.normalized
      /\ rs = {} /\ ~f.ignored => Compared(made, f) /\ e.normalized /\ e.samePage
  BY <1>1, <1>2, FieldSays
<1>6. Compared(made, f) => e # None
  <2> SUFFICES ASSUME Compared(made, f) PROVE e # None
    OBVIOUS
  <2>1. f.reasons \subseteq ReviewReasons
    BY <1>1, <1>4 DEF PlainField
  <2>2. c.reasons \cap ClaimedOnly = {} /\ c.reasons \subseteq EvaluationReasons
    BY <1>1, <1>2, OnlyCandidate DEF Compared
  <2>3. e \in Comparisons
    BY <1>2, <2>1, <2>2, EvidenceSays
  <2> QED
    BY <2>3
<1>7. ~(f.ignored /\ Handwritten(f))
  BY <1>1, <1>4 DEF PlainField
<1>8. Compared(made, f) <=> ~f.ignored /\ ~Handwritten(f) /\ Cardinality(p) = 1
  BY <1>1 DEF Compared, Eligible, Alone
<1>9. p = {} => PredictedMissing(made, f)
  BY <1>1 DEF PredictedMissing
<1>10. o.evidence # None <=> Compared(made, f)
  BY <1>3, <1>6
<1>11. Compared(made, f) => o.evidence = e
  BY <1>3
<1>12. o.outcome = "MATCH" => o.evidence # None /\ o.evidence.samePage /\ o.evidence.exact
  <2> SUFFICES ASSUME o.outcome = "MATCH"
               PROVE  o.evidence # None /\ o.evidence.samePage /\ o.evidence.exact
    OBVIOUS
  <2>1. ~f.ignored /\ rs = {} /\ ~(o.evidence # None /\ ~o.evidence.exact /\ o.evidence.normalized)
    BY <1>3, MatchedOutcome
  <2> QED
    BY <1>5, <1>10, <1>11, <2>1
<1>13. FieldOutcomeOK(o)
  <2>1. o.outcome = IF o.order = 0 THEN "UNMAPPED"
                    ELSE OutcomeName(o.ignored, o.reasons, o.evidence)
    BY <1>3, <1>4
  <2>2. /\ o.reference <=> "HANDWRITING_REFERENCE_ONLY" \in o.reasons
        /\ ~(o.reference /\ o.ignored)
        /\ o.order # 0
        /\ o.orders = {} => o.candidateMissing
    BY <1>3, <1>4, <1>5, <1>7, <1>9
  <2>3. "VALUE_MISMATCH" \in o.reasons => o.evidence # None /\ ~o.evidence.normalized
    BY <1>3, <1>5, <1>10, <1>11
  <2>4. "PAGE_MISMATCH" \in o.reasons <=> o.evidence # None /\ ~o.evidence.samePage
    BY <1>3, <1>5, <1>10, <1>11
  <2>5. /\ o.reference \/ o.ignored \/ Cardinality(o.orders) # 1 => o.evidence = None
        /\ o.order # 0 /\ ~o.reference /\ ~o.ignored /\ Cardinality(o.orders) = 1
             => o.evidence # None
    BY <1>3, <1>8, <1>10
  <2> QED
    BY <1>12, <2>1, <2>2, <2>3, <2>4, <2>5 DEF FieldOutcomeOK
<1> QED
  BY <1>1, <1>13

LEMMA UnmappedPasses ==
  ASSUME NEW made, NEW fields, PlainRun(made, fields), NEW j \in Unmapped(made, fields)
  PROVE  FieldOutcomeOK(UnmappedOutcome(made, j))
<1>1. PICK c, o : c = made.values[j] /\ o = UnmappedOutcome(made, j)
  OBVIOUS
<1>2. /\ o.order = 0 /\ o.evidence = None /\ o.orders = {j} /\ o.outcome = "UNMAPPED"
      /\ o.reasons = c.reasons \cup {"UNMAPPED"} /\ o.reference = Handwritten(c)
      /\ o.ignored = FALSE
  BY <1>1 DEF UnmappedOutcome
<1>3. c.reasons \subseteq {"MISSING_REQUIRED"}
  BY <1>1 DEF PlainRun, PlainCandidate, Unmapped
<1>4. /\ "PAGE_MISMATCH" \notin o.reasons /\ "VALUE_MISMATCH" \notin o.reasons
      /\ (o.reference <=> "HANDWRITING_REFERENCE_ONLY" \in o.reasons)
      /\ "UNMAPPED" \in o.reasons
  BY <1>2, <1>3 DEF Handwritten
<1> QED
  BY <1>1, <1>2, <1>4 DEF FieldOutcomeOK

(* What a field of a plain run adds one to.                                   *)
Counting(made, f, x) == x \in CountedOnce(made, f) \cup CountedReasons(made, f)

LEMMA FieldCounts ==
  ASSUME NEW made, NEW f, NEW e, e = Evidence(f, Only(made, f)),
         NEW n, n = Cardinality(Predictions(made, f)), ~(f.ignored /\ Handwritten(f))
  PROVE  /\ Counting(made, f, "exact") <=> Compared(made, f) /\ e.exact
         /\ Counting(made, f, "normalized") <=> Compared(made, f) /\ e.normalized
         /\ Counting(made, f, "denominator") <=> Eligible(f)
         /\ Counting(made, f, "required") <=> Eligible(f) /\ f.required
         /\ Counting(made, f, "requiredMissing")
              <=> Eligible(f) /\ f.required /\ PredictedMissing(made, f)
         /\ Counting(made, f, "reference") <=> Handwritten(f)
         /\ Counting(made, f, "ignored") <=> f.ignored
         /\ Counting(made, f, "duplicates") <=> Eligible(f) /\ n > 1
         /\ Counting(made, f, "normalizedErrors")
              <=> \/ Eligible(f) /\ n > 1
                  \/ Compared(made, f) /\ UnapprovedBy(f, Only(made, f)) # {}
         /\ Counting(made, f, "logic") <=> "LOGIC_CONFLICT" \in ReasonsOf(made, f)
         /\ Counting(made, f, "low") <=> "LOW_CONFIDENCE" \in ReasonsOf(made, f)
         /\ Counting(made, f, "pageDenominator") <=> Compared(made, f)
         /\ Counting(made, f, "page") <=> Compared(made, f) /\ e.samePage
         /\ Counting(made, f, "pageMismatch") <=> Compared(made, f) /\ ~e.samePage
         /\ \A expected, predicted \in BOOLEAN :
              Counting(made, f, Confusion(expected, predicted))
                <=> /\ Eligible(f) /\ f.required
                    /\ (f.value = None) = expected
                    /\ PredictedMissing(made, f) <=> predicted
<1> DEFINE R == IF f.required THEN CountedRequired(made, f) ELSE {}
           D == IF n > 1 THEN {"duplicates", "normalizedErrors"} ELSE {}
           U == IF UnapprovedBy(f, Only(made, f)) # {} THEN {"normalizedErrors"} ELSE {}
           A == IF Alone(made, f) THEN CountedEvidence(e) \cup U ELSE {}
           L == CountedReasons(made, f)
<1>1. L \subseteq {"logic", "low"}
      /\ ("logic" \in L <=> "LOGIC_CONFLICT" \in ReasonsOf(made, f))
      /\ ("low" \in L <=> "LOW_CONFIDENCE" \in ReasonsOf(made, f))
  BY DEF CountedReasons
<1>2. CASE f.ignored
  <2>1. CountedOnce(made, f) = {"ignored"} /\ ~Eligible(f) /\ ~Compared(made, f) /\ ~Handwritten(f)
    BY <1>2 DEF CountedOnce, Eligible, Compared
  <2> HIDE DEF L
  <2> QED
    BY <1>1, <1>2, <2>1 DEF Counting, L, Confusion
<1>3. CASE ~f.ignored /\ Handwritten(f)
  <2>1. CountedOnce(made, f) = {"reference"} /\ ~Eligible(f) /\ ~Compared(made, f)
    BY <1>3 DEF CountedOnce, Eligible, Compared
  <2> HIDE DEF L
  <2> QED
    BY <1>1, <1>3, <2>1 DEF Counting, L, Confusion
<1>4. CASE ~f.ignored /\ ~Handwritten(f)
  <2>1. CountedOnce(made, f) = {"denominator"} \cup R \cup D \cup A /\ Eligible(f)
        /\ (Compared(made, f) <=> Alone(made, f))
    BY <1>4 DEF CountedOnce, Eligible, Compared
  <2>2. /\ R \subseteq {"required", "requiredMissing", "TP", "FP", "FN", "TN"}
        /\ "required" \in R <=> f.required
        /\ "requiredMissing" \in R <=> f.required /\ PredictedMissing(made, f)
    BY DEF CountedRequired, Confusion
  <2>3. \A expected, predicted \in BOOLEAN :
          /\ Confusion(expected, predicted) \in {"TP", "FP", "FN", "TN"}
          /\ Confusion(expected, predicted) \in R
               <=> /\ f.required /\ (f.value = None) = expected
                   /\ PredictedMissing(made, f) <=> predicted
    BY DEF CountedRequired, Confusion
  <2>4. /\ D \subseteq {"duplicates", "normalizedErrors"}
        /\ ("duplicates" \in D <=> n > 1) /\ ("normalizedErrors" \in D <=> n > 1)
    OBVIOUS
  <2>5. /\ CountedEvidence(e) \subseteq {"pageDenominator", "page", "pageMismatch", "exact",
                                         "normalized"}
        /\ "pageDenominator" \in CountedEvidence(e)
        /\ "page" \in CountedEvidence(e) <=> e.samePage
        /\ "pageMismatch" \in CountedEvidence(e) <=> ~e.samePage
        /\ "exact" \in CountedEvidence(e) <=> e.exact
        /\ "normalized" \in CountedEvidence(e) <=> e.normalized
    BY DEF CountedEvidence
  <2>6. /\ U \subseteq {"normalizedErrors"}
        /\ "normalizedErrors" \in U <=> UnapprovedBy(f, Only(made, f)) # {}
    OBVIOUS
  <2>7. A = IF Alone(made, f) THEN CountedEvidence(e) \cup U ELSE {}
    OBVIOUS
  <2>8. \A x : Counting(made, f, x) <=> x = "denominator" \/ x \in R \/ x \in D \/ x \in A \/ x \in L
    BY <2>1 DEF Counting
  <2> HIDE DEF R, D, U, A, L
  <2>9. /\ Counting(made, f, "exact") <=> Compared(made, f) /\ e.exact
        /\ Counting(made, f, "normalized") <=> Compared(made, f) /\ e.normalized
        /\ Counting(made, f, "pageDenominator") <=> Compared(made, f)
        /\ Counting(made, f, "page") <=> Compared(made, f) /\ e.samePage
        /\ Counting(made, f, "pageMismatch") <=> Compared(made, f) /\ ~e.samePage
    BY <1>1, <2>1, <2>2, <2>4, <2>5, <2>6, <2>7, <2>8
  <2>10. /\ Counting(made, f, "denominator")
         /\ Counting(made, f, "required") <=> f.required
         /\ Counting(made, f, "requiredMissing") <=> f.required /\ PredictedMissing(made, f)
         /\ ~Counting(made, f, "reference") /\ ~Counting(made, f, "ignored")
         /\ Counting(made, f, "logic") <=> "LOGIC_CONFLICT" \in ReasonsOf(made, f)
         /\ Counting(made, f, "low") <=> "LOW_CONFIDENCE" \in ReasonsOf(made, f)
    BY <1>1, <2>2, <2>4, <2>5, <2>6, <2>7, <2>8
  <2>11. /\ Counting(made, f, "duplicates") <=> n > 1
         /\ Counting(made, f, "normalizedErrors")
              <=> n > 1 \/ (Compared(made, f) /\ UnapprovedBy(f, Only(made, f)) # {})
    BY <1>1, <2>1, <2>2, <2>4, <2>5, <2>6, <2>7, <2>8
  <2>12. ASSUME NEW expected \in BOOLEAN, NEW predicted \in BOOLEAN
         PROVE  Counting(made, f, Confusion(expected, predicted))
                  <=> /\ f.required /\ (f.value = None) = expected
                      /\ PredictedMissing(made, f) <=> predicted
    <3>1. PICK x : x = Confusion(expected, predicted)
      OBVIOUS
    <3>2. x \in {"TP", "FP", "FN", "TN"}
          /\ (x \in R <=> /\ f.required /\ (f.value = None) = expected
                          /\ PredictedMissing(made, f) <=> predicted)
      BY <2>3, <3>1
    <3>3. Counting(made, f, x) <=> x \in R
      BY <1>1, <2>4, <2>5, <2>6, <2>7, <2>8, <3>2
    <3> QED
      BY <3>1, <3>2, <3>3
  <2> QED
    BY <1>4, <2>1, <2>9, <2>10, <2>11, <2>12
<1> QED
  BY <1>2, <1>3, <1>4

(* What the outcome of a field tells of it.                                   *)
LEMMA OutcomeTells ==
  ASSUME NEW made, NEW fields, PlainRun(made, fields), NEW i \in DOMAIN fields,
         None \notin Comparisons, NEW f, f = fields[i], NEW o, o = FieldOutcome(made, fields, i)
  PROVE  /\ o \in Outcomes(made, fields) /\ o.kind = f.kind /\ o.order # 0 /\ o.row = f.row
         /\ o.required = f.required /\ o.orders = Predictions(made, f)
         /\ o.expectedMissing = (f.value = None)
         /\ o.candidateMissing <=> PredictedMissing(made, f)
         /\ o.reference <=> Handwritten(f)
         /\ o.ignored <=> f.ignored
         /\ o.evidence # None <=> Compared(made, f)
         /\ Compared(made, f) => o.evidence = Evidence(f, Only(made, f))
         /\ ~o.reference /\ ~o.ignored <=> Eligible(f)
         /\ o.reasons = ReasonsOf(made, f)
<1>1. /\ o.row = f.row /\ o.kind = f.kind /\ o.order = i /\ o.required = f.required
      /\ o.expectedMissing = (f.value = None)
      /\ o.candidateMissing = PredictedMissing(made, f)
      /\ o.orders = Predictions(made, f)
      /\ o.evidence = IF Compared(made, f) THEN Evidence(f, Only(made, f)) ELSE None
      /\ o.reasons = ReasonsOf(made, f) /\ o.reference = Handwritten(f)
      /\ o.ignored = f.ignored
  BY OutcomeSays
<1>2. o \in Outcomes(made, fields)
  BY DEF Outcomes
<1>3. i # 0
  BY DEF PlainRun
<1>4. Compared(made, f) => Evidence(f, Only(made, f)) # None
  <2> SUFFICES ASSUME Compared(made, f) PROVE Evidence(f, Only(made, f)) # None
    OBVIOUS
  <2>1. PICK c : c = Only(made, f)
    OBVIOUS
  <2>2. f.reasons \subseteq ReviewReasons
    BY DEF PlainRun, PlainField
  <2>3. c.reasons \cap ClaimedOnly = {} /\ c.reasons \subseteq EvaluationReasons
    BY <2>1, OnlyCandidate DEF Compared
  <2>4. Evidence(f, c) \in Comparisons
    BY <2>2, <2>3, EvidenceSays
  <2> QED
    BY <2>1, <2>4
<1> QED
  BY <1>1, <1>2, <1>3, <1>4 DEF Eligible

(* A set of outcomes of golden fields has as many members as the fields.      *)
LEMMA OutcomesOfFields ==
  ASSUME NEW made, NEW fields, IsFiniteSet(DOMAIN fields), DOMAIN fields \subseteq Nat \ {0},
         NEW os \in SUBSET Outcomes(made, fields), NEW ks \in SUBSET DOMAIN fields,
         \A k \in DOMAIN fields : FieldOutcome(made, fields, k) \in os <=> k \in ks,
         \A j \in Unmapped(made, fields) : UnmappedOutcome(made, j) \notin os
  PROVE  IsFiniteSet(os) /\ Cardinality(os) = Cardinality(ks) /\ Cardinality(os) \in Nat
<1> DEFINE g == [k \in ks |-> FieldOutcome(made, fields, k)]
<1>1. IsFiniteSet(ks)
  BY FS_Subset
<1>2. \A k \in ks : g[k].order = k
  BY DEF FieldOutcome
<1>3. g \in [ks -> os]
  OBVIOUS
<1>4. \A o \in os : \E k \in ks : g[k] = o
  BY DEF Outcomes
<1>5. \A k, m \in ks : g[k] = g[m] => k = m
  BY <1>2
<1> HIDE DEF g
<1>6. g \in Bijection(ks, os)
  BY <1>3, <1>4, <1>5 DEF Bijection, Injection, Surjection, IsInjective
<1>7. ExistsBijection(ks, os)
  BY <1>6 DEF ExistsBijection
<1> QED
  BY <1>1, <1>7, FS_Bijection, FS_CardinalityType

LEMMA CountedAlike ==
  ASSUME NEW made, NEW fields, PlainRun(made, fields), NEW kinds,
         NEW x \in Counters \ {"unmapped"}, NEW os \in SUBSET Outcomes(made, fields),
         \A k \in DOMAIN fields : FieldOutcome(made, fields, k) \in os
           <=> fields[k].kind \in kinds /\ Counting(made, fields[k], x),
         \A j \in Unmapped(made, fields) : UnmappedOutcome(made, j) \notin os
  PROVE  /\ CountsOf(made, fields, kinds)[x] = Cardinality(os)
         /\ Cardinality(os) \in Nat /\ IsFiniteSet(os)
<1> DEFINE ks == {k \in DOMAIN fields :
                    fields[k].kind \in kinds /\ Counting(made, fields[k], x)}
<1>1. CountsOf(made, fields, kinds)[x] = Cardinality(ks)
  BY DEF CountsOf, Counting
<1>2. \A k \in DOMAIN fields : FieldOutcome(made, fields, k) \in os <=> k \in ks
  OBVIOUS
<1>3. ks \in SUBSET DOMAIN fields
  OBVIOUS
<1> HIDE DEF ks
<1>4. IsFiniteSet(DOMAIN fields) /\ DOMAIN fields \subseteq Nat \ {0}
  BY DEF PlainRun
<1> QED
  BY <1>1, <1>2, <1>3, <1>4, OutcomesOfFields

(* What an outcome tells of a golden field is what the field adds one to.      *)
LEMMA OutcomeCounts ==
  ASSUME NEW made, NEW fields, PlainRun(made, fields), NEW i \in DOMAIN fields,
         None \notin Comparisons, NEW f, f = fields[i], NEW o, o = FieldOutcome(made, fields, i)
  PROVE  /\ o \in Outcomes(made, fields) /\ o.kind = f.kind /\ o.order # 0
         /\ Counting(made, f, "reference") <=> o.reference
         /\ Counting(made, f, "ignored") <=> o.ignored
         /\ Counting(made, f, "denominator") <=> ~o.reference /\ ~o.ignored
         /\ Counting(made, f, "exact")
              <=> ~o.reference /\ ~o.ignored /\ o.evidence # None /\ o.evidence.exact
         /\ Counting(made, f, "normalized")
              <=> ~o.reference /\ ~o.ignored /\ o.evidence # None /\ o.evidence.normalized
         /\ Counting(made, f, "pageDenominator")
              <=> ~o.reference /\ ~o.ignored /\ o.evidence # None
         /\ Counting(made, f, "page")
              <=> ~o.reference /\ ~o.ignored /\ o.evidence # None /\ o.evidence.samePage
         /\ Counting(made, f, "pageMismatch")
              <=> ~o.reference /\ ~o.ignored /\ o.evidence # None /\ ~o.evidence.samePage
         /\ Counting(made, f, "duplicates") <=> "DUPLICATE_FIELD" \in o.reasons
         /\ Counting(made, f, "normalizedErrors")
              <=> "DUPLICATE_FIELD" \in o.reasons \/ "UNAPPROVED_NORMALIZATION" \in o.reasons
         /\ ~("DUPLICATE_FIELD" \in o.reasons /\ "UNAPPROVED_NORMALIZATION" \in o.reasons)
         /\ Counting(made, f, "logic") <=> "LOGIC_CONFLICT" \in o.reasons
         /\ Counting(made, f, "low") <=> "LOW_CONFIDENCE" \in o.reasons
         /\ Counting(made, f, "required") <=> ~o.reference /\ ~o.ignored /\ o.required
         /\ Counting(made, f, "requiredMissing")
              <=> /\ ~o.reference /\ ~o.ignored /\ o.required
                  /\ "MISSING_REQUIRED" \in o.reasons
         /\ \A expected, predicted \in BOOLEAN :
              Counting(made, f, Confusion(expected, predicted))
                <=> /\ ~o.reference /\ ~o.ignored /\ o.required
                    /\ o.expectedMissing = expected /\ o.candidateMissing = predicted
<1>1. PICK e, n, rs : /\ e = Evidence(f, Only(made, f)) /\ n = Cardinality(Predictions(made, f))
                      /\ rs = ReasonsOf(made, f)
  OBVIOUS
<1>2. /\ o \in Outcomes(made, fields) /\ o.kind = f.kind /\ o.order # 0
      /\ o.required = f.required /\ o.expectedMissing = (f.value = None)
      /\ (o.candidateMissing <=> PredictedMissing(made, f))
      /\ (o.reference <=> Handwritten(f)) /\ (o.ignored <=> f.ignored)
      /\ (o.evidence # None <=> Compared(made, f))
      /\ (Compared(made, f) => o.evidence = e)
      /\ (~o.reference /\ ~o.ignored <=> Eligible(f)) /\ o.reasons = rs
  BY <1>1, OutcomeTells
<1>3. o.candidateMissing \in BOOLEAN
  <2>1. o.candidateMissing = PredictedMissing(made, f)
    BY OutcomeSays
  <2>2. PredictedMissing(made, f) \in BOOLEAN
    BY DEF PredictedMissing
  <2> QED
    BY <2>1, <2>2, Zenon
<1>4. ~(f.ignored /\ Handwritten(f))
  BY DEF PlainRun, PlainField
<1>5. /\ "DUPLICATE_FIELD" \in rs <=> Eligible(f) /\ n > 1
      /\ "UNAPPROVED_NORMALIZATION" \in rs
           <=> Compared(made, f) /\ UnapprovedBy(f, Only(made, f)) # {}
      /\ Eligible(f) /\ f.required => ("MISSING_REQUIRED" \in rs <=> PredictedMissing(made, f))
  BY <1>1, FieldSays
<1>6. Compared(made, f) => Eligible(f) /\ n = 1
  BY <1>1 DEF Compared, Alone
<1>7. /\ Counting(made, f, "exact") <=> Compared(made, f) /\ e.exact
      /\ Counting(made, f, "normalized") <=> Compared(made, f) /\ e.normalized
      /\ Counting(made, f, "denominator") <=> Eligible(f)
      /\ Counting(made, f, "required") <=> Eligible(f) /\ f.required
      /\ Counting(made, f, "requiredMissing")
           <=> Eligible(f) /\ f.required /\ PredictedMissing(made, f)
      /\ Counting(made, f, "reference") <=> Handwritten(f)
      /\ Counting(made, f, "ignored") <=> f.ignored
      /\ Counting(made, f, "duplicates") <=> Eligible(f) /\ n > 1
      /\ Counting(made, f, "normalizedErrors")
           <=> \/ Eligible(f) /\ n > 1
               \/ Compared(made, f) /\ UnapprovedBy(f, Only(made, f)) # {}
      /\ Counting(made, f, "logic") <=> "LOGIC_CONFLICT" \in rs
      /\ Counting(made, f, "low") <=> "LOW_CONFIDENCE" \in rs
      /\ Counting(made, f, "pageDenominator") <=> Compared(made, f)
      /\ Counting(made, f, "page") <=> Compared(made, f) /\ e.samePage
      /\ Counting(made, f, "pageMismatch") <=> Compared(made, f) /\ ~e.samePage
      /\ \A expected, predicted \in BOOLEAN :
           Counting(made, f, Confusion(expected, predicted))
             <=> /\ Eligible(f) /\ f.required
                 /\ (f.value = None) = expected
                 /\ PredictedMissing(made, f) <=> predicted
  BY <1>1, <1>4, FieldCounts
<1>8. ASSUME NEW expected \in BOOLEAN, NEW predicted \in BOOLEAN
      PROVE  Counting(made, f, Confusion(expected, predicted))
               <=> /\ ~o.reference /\ ~o.ignored /\ o.required
                   /\ o.expectedMissing = expected /\ o.candidateMissing = predicted
  <2>1. (o.candidateMissing = predicted) <=> (PredictedMissing(made, f) <=> predicted)
    BY <1>2, <1>3
  <2>2. Counting(made, f, Confusion(expected, predicted))
          <=> /\ Eligible(f) /\ f.required
              /\ (f.value = None) = expected
              /\ PredictedMissing(made, f) <=> predicted
    BY <1>7
  <2> QED
    BY <1>2, <2>1, <2>2
<1>9. ~("DUPLICATE_FIELD" \in rs /\ "UNAPPROVED_NORMALIZATION" \in rs)
  BY <1>5, <1>6
<1>10. /\ Counting(made, f, "exact")
            <=> ~o.reference /\ ~o.ignored /\ o.evidence # None /\ o.evidence.exact
       /\ Counting(made, f, "normalized")
            <=> ~o.reference /\ ~o.ignored /\ o.evidence # None /\ o.evidence.normalized
       /\ Counting(made, f, "pageDenominator")
            <=> ~o.reference /\ ~o.ignored /\ o.evidence # None
       /\ Counting(made, f, "page")
            <=> ~o.reference /\ ~o.ignored /\ o.evidence # None /\ o.evidence.samePage
       /\ Counting(made, f, "pageMismatch")
            <=> ~o.reference /\ ~o.ignored /\ o.evidence # None /\ ~o.evidence.samePage
  BY <1>2, <1>6, <1>7
<1> QED
  BY <1>2, <1>5, <1>7, <1>8, <1>9, <1>10

(* What the outcome of a candidate that nothing expects tells.                 *)
LEMMA UnmappedTells ==
  ASSUME NEW made, NEW fields, PlainRun(made, fields), NEW j \in Unmapped(made, fields),
         NEW o, o = UnmappedOutcome(made, j)
  PROVE  /\ o \in Outcomes(made, fields) /\ o.kind = made.values[j].kind /\ o.order = 0
         /\ o.row = made.values[j].row
         /\ o.reasons \subseteq {"MISSING_REQUIRED", "UNMAPPED"} /\ o.reference = FALSE
         /\ o.orders = {j} /\ o.ignored = FALSE /\ ~Handwritten(made.values[j])
<1>1. PICK c : c = made.values[j]
  OBVIOUS
<1>2. c.reasons \subseteq {"MISSING_REQUIRED"}
  BY <1>1 DEF PlainRun, PlainCandidate, Unmapped
<1>3. /\ o.row = c.row /\ o.kind = c.kind /\ o.order = 0
      /\ o.orders = {j} /\ o.reasons = c.reasons \cup {"UNMAPPED"}
      /\ o.reference = Handwritten(c) /\ o.ignored = FALSE
  BY <1>1 DEF UnmappedOutcome
<1>4. Handwritten(c) = FALSE
  BY <1>2 DEF Handwritten
<1>5. o \in Outcomes(made, fields)
  BY DEF Outcomes
<1> QED
  BY <1>1, <1>2, <1>3, <1>4, <1>5

(* The metric the scorer counts over some kinds is the one derived from their  *)
(* outcomes.                                                                  *)
LEMMA CohortAlike ==
  ASSUME NEW made, NEW fields, PlainRun(made, fields), None \notin Comparisons, NEW kinds,
         NEW os, os = {o \in Outcomes(made, fields) : o.kind \in kinds},
         NEW c, c = CountsOf(made, fields, kinds)
  PROVE  DerivedExact(os) = ExactMetric(c) /\ DerivedNormalized(os) = NormalizedMetric(c)
<1> DEFINE expected == {o \in os : o.order # 0}
           eligible == {o \in expected : ~o.reference /\ ~o.ignored}
           exact == eligible \cap {o \in os : o.evidence # None /\ o.evidence.exact}
           normalized == eligible \cap {o \in os : o.evidence # None /\ o.evidence.normalized}
           reference == {o \in expected : o.reference}
           ignored == {o \in expected : o.ignored}
           twice == {o \in os : "DUPLICATE_FIELD" \in o.reasons}
           unapproved == {o \in os : "UNAPPROVED_NORMALIZATION" \in o.reasons}
<1>1. {"exact", "normalized", "denominator", "reference", "ignored", "duplicates",
       "normalizedErrors"} \subseteq Counters \ {"unmapped"}
  BY DEF Counters
<1>0. \A j \in Unmapped(made, fields) : UnmappedOutcome(made, j) \notin expected
  <2> SUFFICES ASSUME NEW j \in Unmapped(made, fields)
               PROVE  UnmappedOutcome(made, j) \notin expected
    OBVIOUS
  <2>1. PICK o : o = UnmappedOutcome(made, j)
    OBVIOUS
  <2>2. o.order = 0
    BY <2>1 DEF UnmappedOutcome
  <2> QED
    BY <2>1, <2>2
<1>2. Cardinality(eligible) = c["denominator"]
  <2>1. \A k \in DOMAIN fields : FieldOutcome(made, fields, k) \in eligible
          <=> fields[k].kind \in kinds /\ Counting(made, fields[k], "denominator")
    BY OutcomeCounts
  <2>2. \A j \in Unmapped(made, fields) : UnmappedOutcome(made, j) \notin eligible
    BY <1>0
  <2>3. eligible \in SUBSET Outcomes(made, fields)
    OBVIOUS
  <2> HIDE DEF eligible
  <2> QED
    BY <1>1, <2>1, <2>2, <2>3, CountedAlike
<1>3. Cardinality(exact) = c["exact"]
  <2>1. \A k \in DOMAIN fields : FieldOutcome(made, fields, k) \in exact
          <=> fields[k].kind \in kinds /\ Counting(made, fields[k], "exact")
    BY OutcomeCounts
  <2>2. \A j \in Unmapped(made, fields) : UnmappedOutcome(made, j) \notin exact
    BY <1>0
  <2>3. exact \in SUBSET Outcomes(made, fields)
    OBVIOUS
  <2> HIDE DEF exact
  <2> QED
    BY <1>1, <2>1, <2>2, <2>3, CountedAlike
<1>4. Cardinality(normalized) = c["normalized"]
  <2>1. \A k \in DOMAIN fields : FieldOutcome(made, fields, k) \in normalized
          <=> fields[k].kind \in kinds /\ Counting(made, fields[k], "normalized")
    BY OutcomeCounts
  <2>2. \A j \in Unmapped(made, fields) : UnmappedOutcome(made, j) \notin normalized
    BY <1>0
  <2>3. normalized \in SUBSET Outcomes(made, fields)
    OBVIOUS
  <2> HIDE DEF normalized
  <2> QED
    BY <1>1, <2>1, <2>2, <2>3, CountedAlike
<1>5. Cardinality(reference) = c["reference"]
  <2>1. \A k \in DOMAIN fields : FieldOutcome(made, fields, k) \in reference
          <=> fields[k].kind \in kinds /\ Counting(made, fields[k], "reference")
    BY OutcomeCounts
  <2>2. \A j \in Unmapped(made, fields) : UnmappedOutcome(made, j) \notin reference
    BY UnmappedTells
  <2>3. reference \in SUBSET Outcomes(made, fields)
    OBVIOUS
  <2> HIDE DEF reference
  <2> QED
    BY <1>1, <2>1, <2>2, <2>3, CountedAlike
<1>6. Cardinality(ignored) = c["ignored"]
  <2>1. \A k \in DOMAIN fields : FieldOutcome(made, fields, k) \in ignored
          <=> fields[k].kind \in kinds /\ Counting(made, fields[k], "ignored")
    BY OutcomeCounts
  <2>2. \A j \in Unmapped(made, fields) : UnmappedOutcome(made, j) \notin ignored
    BY UnmappedTells
  <2>3. ignored \in SUBSET Outcomes(made, fields)
    OBVIOUS
  <2> HIDE DEF ignored
  <2> QED
    BY <1>1, <2>1, <2>2, <2>3, CountedAlike
<1>7. \A j \in Unmapped(made, fields) :
        UnmappedOutcome(made, j) \notin twice /\ UnmappedOutcome(made, j) \notin unapproved
  <2> SUFFICES ASSUME NEW j \in Unmapped(made, fields)
               PROVE  /\ UnmappedOutcome(made, j) \notin twice
                      /\ UnmappedOutcome(made, j) \notin unapproved
    OBVIOUS
  <2>1. PICK o : o = UnmappedOutcome(made, j)
    OBVIOUS
  <2>2. o.reasons \subseteq {"MISSING_REQUIRED", "UNMAPPED"}
    BY <2>1, UnmappedTells
  <2> QED
    BY <2>1, <2>2
<1>8. Cardinality(twice) = c["duplicates"] /\ IsFiniteSet(twice)
  <2>1. \A k \in DOMAIN fields : FieldOutcome(made, fields, k) \in twice
          <=> fields[k].kind \in kinds /\ Counting(made, fields[k], "duplicates")
    BY OutcomeCounts
  <2>2. twice \in SUBSET Outcomes(made, fields)
    OBVIOUS
  <2> HIDE DEF twice
  <2> QED
    BY <1>1, <1>7, <2>1, <2>2, CountedAlike
<1>9. Cardinality(twice \cup unapproved) = c["normalizedErrors"] /\ IsFiniteSet(twice \cup unapproved)
  <2>1. \A k \in DOMAIN fields : FieldOutcome(made, fields, k) \in twice \cup unapproved
          <=> fields[k].kind \in kinds /\ Counting(made, fields[k], "normalizedErrors")
    BY OutcomeCounts
  <2>2. twice \cup unapproved \in SUBSET Outcomes(made, fields)
    OBVIOUS
  <2>3. \A j \in Unmapped(made, fields) : UnmappedOutcome(made, j) \notin twice \cup unapproved
    BY <1>7
  <2> HIDE DEF twice, unapproved
  <2> QED
    BY <1>1, <2>1, <2>2, <2>3, CountedAlike
<1>10. Cardinality(twice) + Cardinality(unapproved) = c["normalizedErrors"]
  <2>1. twice \cap unapproved = {}
    <3> SUFFICES ASSUME NEW o \in twice \cap unapproved PROVE FALSE
      OBVIOUS
    <3>1. o \in Outcomes(made, fields)
      OBVIOUS
    <3>2. CASE \E k \in DOMAIN fields : o = FieldOutcome(made, fields, k)
      BY <3>2, OutcomeCounts
    <3>3. CASE \E j \in Unmapped(made, fields) : o = UnmappedOutcome(made, j)
      BY <1>7, <3>3
    <3> QED
      BY <3>1, <3>2, <3>3 DEF Outcomes
  <2>2. IsFiniteSet(unapproved)
    <3> HIDE DEF twice, unapproved
    <3> QED
      BY <1>9, FS_Subset
  <2>3. Cardinality(twice \cap unapproved) = 0
    BY <2>1, FS_EmptySet
  <2> HIDE DEF twice, unapproved
  <2>4. Cardinality(twice \cup unapproved)
          = Cardinality(twice) + Cardinality(unapproved) - Cardinality(twice \cap unapproved)
    BY <1>8, <2>2, FS_Union
  <2>5. Cardinality(twice) \in Nat /\ Cardinality(unapproved) \in Nat
    BY <1>8, <2>2, FS_CardinalityType
  <2> QED
    BY <1>9, <2>3, <2>4, <2>5
<1>11. DerivedExact(os)
         = Metric(Cardinality(exact), Cardinality(eligible), Cardinality(reference),
                  Cardinality(ignored), Cardinality(twice))
  BY DEF DerivedExact, DerivedMetric, Having
<1>12. DerivedNormalized(os)
         = Metric(Cardinality(normalized), Cardinality(eligible), Cardinality(reference),
                  Cardinality(ignored), Cardinality(twice) + Cardinality(unapproved))
  BY DEF DerivedNormalized, DerivedMetric, Having
<1> HIDE DEF expected, eligible, exact, normalized, reference, ignored, twice, unapproved
<1> QED
  BY <1>2, <1>3, <1>4, <1>5, <1>6, <1>8, <1>10, <1>11, <1>12 DEF ExactMetric, NormalizedMetric

(* Every outcome of a plain run is that of a field or of a candidate, and of   *)
(* one of the kinds there are.                                                *)
LEMMA OutcomeOfKinds ==
  ASSUME NEW made, NEW fields, PlainRun(made, fields), None \notin Comparisons
  PROVE  Outcomes(made, fields) = {o \in Outcomes(made, fields) : o.kind \in Kinds}
<1> SUFFICES ASSUME NEW o \in Outcomes(made, fields) PROVE o.kind \in Kinds
  OBVIOUS
<1>1. CASE \E k \in DOMAIN fields : o = FieldOutcome(made, fields, k)
  <2>1. PICK k \in DOMAIN fields : o = FieldOutcome(made, fields, k)
    BY <1>1
  <2>2. o.kind = fields[k].kind
    BY <2>1 DEF FieldOutcome
  <2> QED
    BY <2>2 DEF PlainRun, PlainField
<1>2. CASE \E j \in Unmapped(made, fields) : o = UnmappedOutcome(made, j)
  <2>1. PICK j \in Unmapped(made, fields) : o = UnmappedOutcome(made, j)
    BY <1>2
  <2>2. o.kind = made.values[j].kind
    BY <2>1 DEF UnmappedOutcome
  <2> QED
    BY <2>2 DEF PlainRun, PlainCandidate, Unmapped
<1> QED
  BY <1>1, <1>2 DEF Outcomes

(* The outcomes that a counter counts are counted by it, over all kinds.       *)
LEMMA AllCounted ==
  ASSUME NEW made, NEW fields, PlainRun(made, fields), NEW x \in Counters \ {"unmapped"},
         NEW os \in SUBSET Outcomes(made, fields),
         \A k \in DOMAIN fields : FieldOutcome(made, fields, k) \in os
           <=> Counting(made, fields[k], x),
         \A j \in Unmapped(made, fields) : UnmappedOutcome(made, j) \notin os
  PROVE  Cardinality(os) = CountsOf(made, fields, Kinds)[x] /\ Cardinality(os) \in Nat
<1>1. \A k \in DOMAIN fields : FieldOutcome(made, fields, k) \in os
        <=> fields[k].kind \in Kinds /\ Counting(made, fields[k], x)
  BY DEF PlainRun, PlainField
<1> QED
  BY <1>1, CountedAlike

(* An outcome of no golden field is none of the expected ones.                *)
LEMMA UnmappedIsUnexpected ==
  ASSUME NEW made, NEW j, NEW os, \A o \in os : o.order # 0
  PROVE  UnmappedOutcome(made, j) \notin os
<1>1. UnmappedOutcome(made, j).order = 0
  BY DEF UnmappedOutcome
<1> QED
  BY <1>1

(* The outcomes that count, those compared with a candidate, those found on    *)
(* another page, and those of required fields.                                *)
EligibleOf(os) == {o \in {x \in os : x.order # 0} : ~o.reference /\ ~o.ignored}
Paged(os) == {o \in EligibleOf(os) : o.evidence # None}
OnOthers(os) == {o \in Paged(os) : ~o.evidence.samePage}
RequiredOf(os) == {o \in EligibleOf(os) : o.required}

LEMMA PagesAlike ==
  ASSUME NEW made, NEW fields, PlainRun(made, fields), None \notin Comparisons,
         NEW c, c = CountsOf(made, fields, Kinds),
         NEW os, os = Outcomes(made, fields), NEW paged, paged = Paged(os),
         NEW others, others = OnOthers(os)
  PROVE  /\ Cardinality(paged) = c["pageDenominator"]
         /\ Cardinality(paged \ others) = c["page"]
         /\ Cardinality(others) = c["pageMismatch"]
<1>1. {"pageDenominator", "page", "pageMismatch"} \subseteq Counters \ {"unmapped"}
  BY DEF Counters
<1>2. /\ paged \in SUBSET Outcomes(made, fields)
      /\ \A o \in paged : o.order # 0
      /\ \A o \in Outcomes(made, fields) : o \in paged
           <=> o.order # 0 /\ ~o.reference /\ ~o.ignored /\ o.evidence # None
      /\ others = {o \in paged : ~o.evidence.samePage}
  BY DEF Paged, OnOthers, EligibleOf
<1>3. Cardinality(paged) = c["pageDenominator"]
  <2>1. \A k \in DOMAIN fields : FieldOutcome(made, fields, k) \in paged
          <=> Counting(made, fields[k], "pageDenominator")
    BY <1>2, OutcomeCounts
  <2> QED
    BY <1>1, <1>2, <2>1, UnmappedIsUnexpected, AllCounted
<1>4. Cardinality(paged \ others) = c["page"]
  <2>1. PICK here : here = paged \ others
    OBVIOUS
  <2>2. \A k \in DOMAIN fields : FieldOutcome(made, fields, k) \in here
          <=> Counting(made, fields[k], "page")
    BY <1>2, <2>1, OutcomeCounts
  <2>3. here \in SUBSET Outcomes(made, fields) /\ \A o \in here : o.order # 0
    BY <1>2, <2>1
  <2> QED
    BY <1>1, <2>1, <2>2, <2>3, UnmappedIsUnexpected, AllCounted
<1>5. Cardinality(others) = c["pageMismatch"]
  <2>1. \A k \in DOMAIN fields : FieldOutcome(made, fields, k) \in others
          <=> Counting(made, fields[k], "pageMismatch")
    BY <1>2, OutcomeCounts
  <2>2. others \in SUBSET Outcomes(made, fields) /\ \A o \in others : o.order # 0
    BY <1>2
  <2> QED
    BY <1>1, <2>1, <2>2, UnmappedIsUnexpected, AllCounted
<1> QED
  BY <1>3, <1>4, <1>5

LEMMA RequiredAlike ==
  ASSUME NEW made, NEW fields, PlainRun(made, fields), None \notin Comparisons,
         NEW c, c = CountsOf(made, fields, Kinds),
         NEW os, os = Outcomes(made, fields), NEW required, required = RequiredOf(os)
  PROVE  /\ Cardinality(required) = c["required"]
         /\ Having(required, "MISSING_REQUIRED") = c["requiredMissing"]
         /\ DerivedConfusion(required) = <<c["TP"], c["FP"], c["FN"], c["TN"]>>
<1>1. {"required", "requiredMissing", "TP", "FP", "FN", "TN"} \subseteq Counters \ {"unmapped"}
  BY DEF Counters
<1>2. /\ required \in SUBSET Outcomes(made, fields) /\ \A o \in required : o.order # 0
      /\ \A o \in Outcomes(made, fields) : o \in required
           <=> o.order # 0 /\ ~o.reference /\ ~o.ignored /\ o.required
  BY DEF RequiredOf, EligibleOf
<1>3. Cardinality(required) = c["required"]
  <2>1. \A k \in DOMAIN fields : FieldOutcome(made, fields, k) \in required
          <=> Counting(made, fields[k], "required")
    BY <1>2, OutcomeCounts
  <2> QED
    BY <1>1, <1>2, <2>1, UnmappedIsUnexpected, AllCounted
<1>4. Having(required, "MISSING_REQUIRED") = c["requiredMissing"]
  <2>1. PICK missing : missing = {o \in required : "MISSING_REQUIRED" \in o.reasons}
    OBVIOUS
  <2>2. \A k \in DOMAIN fields : FieldOutcome(made, fields, k) \in missing
          <=> Counting(made, fields[k], "requiredMissing")
    BY <1>2, <2>1, OutcomeCounts
  <2>3. missing \in SUBSET Outcomes(made, fields) /\ \A o \in missing : o.order # 0
    BY <1>2, <2>1
  <2> QED
    BY <1>1, <2>1, <2>2, <2>3, UnmappedIsUnexpected, AllCounted DEF Having
<1>5. ASSUME NEW expected \in BOOLEAN, NEW predicted \in BOOLEAN
      PROVE  Cardinality({o \in required :
                            o.expectedMissing = expected /\ o.candidateMissing = predicted})
               = c[Confusion(expected, predicted)]
  <2>1. PICK some : some = {o \in required :
                              o.expectedMissing = expected /\ o.candidateMissing = predicted}
    OBVIOUS
  <2>2. \A k \in DOMAIN fields : FieldOutcome(made, fields, k) \in some
          <=> Counting(made, fields[k], Confusion(expected, predicted))
    BY <1>2, <2>1, OutcomeCounts
  <2>3. some \in SUBSET Outcomes(made, fields) /\ \A o \in some : o.order # 0
    BY <1>2, <2>1
  <2>4. Confusion(expected, predicted) \in Counters \ {"unmapped"}
    BY <1>1 DEF Confusion
  <2> QED
    BY <2>1, <2>2, <2>3, <2>4, UnmappedIsUnexpected, AllCounted
<1>6. /\ Confusion(TRUE, TRUE) = "TP" /\ Confusion(FALSE, TRUE) = "FP"
      /\ Confusion(TRUE, FALSE) = "FN" /\ Confusion(FALSE, FALSE) = "TN"
  BY DEF Confusion
<1>7. /\ Cardinality({o \in required : o.expectedMissing = TRUE /\ o.candidateMissing = TRUE}) = c["TP"]
      /\ Cardinality({o \in required : o.expectedMissing = FALSE /\ o.candidateMissing = TRUE}) = c["FP"]
      /\ Cardinality({o \in required : o.expectedMissing = TRUE /\ o.candidateMissing = FALSE}) = c["FN"]
      /\ Cardinality({o \in required : o.expectedMissing = FALSE /\ o.candidateMissing = FALSE}) = c["TN"]
  BY <1>5, <1>6
<1> QED
  BY <1>3, <1>4, <1>7 DEF DerivedConfusion

LEMMA ReasonsAlike ==
  ASSUME NEW made, NEW fields, PlainRun(made, fields), None \notin Comparisons,
         NEW c, c = CountsOf(made, fields, Kinds), NEW os, os = Outcomes(made, fields)
  PROVE  Having(os, "LOGIC_CONFLICT") = c["logic"] /\ Having(os, "LOW_CONFIDENCE") = c["low"]
<1>1. {"logic", "low"} \subseteq Counters \ {"unmapped"}
  BY DEF Counters
<1>2. PICK conflicts, doubts :
        /\ conflicts = {o \in os : "LOGIC_CONFLICT" \in o.reasons}
        /\ doubts = {o \in os : "LOW_CONFIDENCE" \in o.reasons}
  OBVIOUS
<1>3. ASSUME NEW j \in Unmapped(made, fields)
      PROVE  UnmappedOutcome(made, j) \notin conflicts /\ UnmappedOutcome(made, j) \notin doubts
  <2>1. PICK o : o = UnmappedOutcome(made, j)
    OBVIOUS
  <2>2. o.reasons \subseteq {"MISSING_REQUIRED", "UNMAPPED"}
    BY <2>1, UnmappedTells
  <2> QED
    BY <1>2, <2>1, <2>2
<1>4. /\ \A k \in DOMAIN fields : FieldOutcome(made, fields, k) \in conflicts
           <=> Counting(made, fields[k], "logic")
      /\ \A k \in DOMAIN fields : FieldOutcome(made, fields, k) \in doubts
           <=> Counting(made, fields[k], "low")
  BY <1>2, OutcomeCounts
<1>5. conflicts \in SUBSET Outcomes(made, fields) /\ doubts \in SUBSET Outcomes(made, fields)
  BY <1>2
<1> QED
  BY <1>1, <1>2, <1>3, <1>4, <1>5, AllCounted DEF Having

LEMMA UnexpectedAlike ==
  ASSUME NEW made, NEW fields, PlainRun(made, fields), None \notin Comparisons,
         NEW os, os = Outcomes(made, fields)
  PROVE  Cardinality(os \ {o \in os : o.order # 0})
           = CountsOf(made, fields, Kinds)["unmapped"]
<1> DEFINE js == {i \in Unmapped(made, fields) : made.values[i].kind \in Kinds}
           rest == os \ {o \in os : o.order # 0}
           g == [j \in js |-> UnmappedOutcome(made, j)]
<1>1. CountsOf(made, fields, Kinds)["unmapped"] = Cardinality(js)
  BY DEF CountsOf, Counters
<1>2. js = Unmapped(made, fields)
  BY DEF PlainRun, PlainCandidate, Unmapped
<1>3. IsFiniteSet(js)
  BY <1>2, FS_Subset DEF Unmapped, PlainRun
<1>4. \A j \in js : g[j].orders = {j} /\ g[j].order = 0 /\ g[j] \in os
  <2> SUFFICES ASSUME NEW j \in js PROVE g[j].orders = {j} /\ g[j].order = 0 /\ g[j] \in os
    OBVIOUS
  <2>1. PICK o : o = UnmappedOutcome(made, j)
    OBVIOUS
  <2>2. o.orders = {j} /\ o.order = 0
    BY <2>1 DEF UnmappedOutcome
  <2>3. o \in os
    BY <1>2, <2>1 DEF Outcomes
  <2>4. g[j] = o
    BY <2>1
  <2> QED
    BY <2>2, <2>3, <2>4
<1>5. g \in [js -> rest]
  BY <1>4
<1>6. \A j, k \in js : g[j] = g[k] => j = k
  <2> SUFFICES ASSUME NEW j \in js, NEW k \in js, g[j] = g[k] PROVE j = k
    OBVIOUS
  <2>1. {j} = {k}
    BY <1>4
  <2> QED
    BY <2>1
<1>7. \A o \in rest : \E j \in js : g[j] = o
  <2> SUFFICES ASSUME NEW o \in rest PROVE \E j \in js : g[j] = o
    OBVIOUS
  <2>1. \A k \in DOMAIN fields : FieldOutcome(made, fields, k) # o
    BY OutcomeCounts
  <2> QED
    BY <1>2, <2>1 DEF Outcomes
<1> HIDE DEF g, js, rest
<1>8. g \in Bijection(js, rest)
  BY <1>5, <1>6, <1>7 DEF Bijection, Injection, Surjection, IsInjective
<1>9. ExistsBijection(js, rest)
  BY <1>8 DEF ExistsBijection
<1> QED
  BY <1>1, <1>3, <1>9, FS_Bijection DEF rest

(* The rows the scorer expects and finds are those its outcomes tell of.       *)
LEMMA ExpectedRowsAlike ==
  ASSUME NEW made, NEW fields, PlainRun(made, fields), None \notin Comparisons,
         NEW os, os = Outcomes(made, fields), NEW eligible, eligible = EligibleOf(os)
  PROVE  {o.row : o \in eligible} = ExpectedRows(fields)
<1>0. eligible = {o \in {x \in Outcomes(made, fields) : x.order # 0} : ~o.reference /\ ~o.ignored}
  BY DEF EligibleOf
<1>1. ASSUME NEW k \in DOMAIN fields
      PROVE  /\ FieldOutcome(made, fields, k) \in eligible <=> Eligible(fields[k])
             /\ FieldOutcome(made, fields, k).row = fields[k].row
  BY <1>0, OutcomeTells
<1>2. ASSUME NEW o \in eligible
      PROVE  \E k \in DOMAIN fields : o = FieldOutcome(made, fields, k)
  BY <1>0, UnmappedIsUnexpected DEF Outcomes
<1>3. eligible \subseteq Outcomes(made, fields)
  BY <1>0
<1> QED
  BY <1>1, <1>2, <1>3 DEF ExpectedRows

LEMMA PredictedRowsAlike ==
  ASSUME NEW made, NEW fields, PlainRun(made, fields), None \notin Comparisons,
         NEW os, os = {x \in Outcomes(made, fields) : x.orders # {} /\ ~x.reference}
  PROVE  {o.row : o \in os} = PredictedRows(made)
<1>1. ASSUME NEW o \in os PROVE o.row \in PredictedRows(made)
  <2>1. CASE \E k \in DOMAIN fields : o = FieldOutcome(made, fields, k)
    <3>1. PICK k \in DOMAIN fields : o = FieldOutcome(made, fields, k)
      BY <2>1
    <3>2. PICK f : f = fields[k]
      OBVIOUS
    <3>3. o.row = f.row /\ o.orders = Predictions(made, f) /\ (o.reference <=> Handwritten(f))
      BY <3>1, <3>2, OutcomeTells
    <3>4. PICK j \in Predictions(made, f) : TRUE
      BY <3>3
    <3>5. made.bound /\ j \in DOMAIN made.values /\ Key(made.values[j]) = Key(f)
      BY <3>4 DEF Predictions
    <3>6. ~Handwritten(made.values[j])
      BY <3>2, <3>3, <3>5 DEF PlainRun, PlainField
    <3>7. made.values[j].row = f.row
      BY <3>5 DEF Key
    <3> QED
      BY <3>3, <3>5, <3>6, <3>7 DEF PredictedRows
  <2>2. CASE \E j \in Unmapped(made, fields) : o = UnmappedOutcome(made, j)
    <3>1. PICK j \in Unmapped(made, fields) : o = UnmappedOutcome(made, j)
      BY <2>2
    <3>2. o.row = made.values[j].row
      BY <3>1 DEF UnmappedOutcome
    <3>3. ~Handwritten(made.values[j])
      BY DEF PlainRun, PlainCandidate, Unmapped, Handwritten
    <3>4. made.bound /\ j \in DOMAIN made.values
      BY DEF PlainRun, PlainCandidate, Unmapped
    <3> QED
      BY <3>2, <3>3, <3>4 DEF PredictedRows
  <2> QED
    BY <2>1, <2>2 DEF Outcomes
<1>2. ASSUME NEW r \in PredictedRows(made) PROVE \E o \in os : o.row = r
  <2>1. made.bound
    BY DEF PredictedRows
  <2>2. PICK j \in DOMAIN made.values : ~Handwritten(made.values[j]) /\ r = made.values[j].row
    BY <2>1 DEF PredictedRows
  <2>3. CASE j \in Unmapped(made, fields)
    <3>1. PICK o : o = UnmappedOutcome(made, j)
      OBVIOUS
    <3>2. o.row = made.values[j].row /\ o.orders = {j} /\ o.reference = Handwritten(made.values[j])
      BY <3>1 DEF UnmappedOutcome
    <3>3. o \in Outcomes(made, fields)
      BY <2>3, <3>1 DEF Outcomes
    <3> QED
      BY <2>2, <3>2, <3>3
  <2>4. CASE j \notin Unmapped(made, fields)
    <3>1. PICK k \in DOMAIN fields : Key(fields[k]) = Key(made.values[j])
      BY <2>4 DEF Unmapped
    <3>2. PICK f, o : f = fields[k] /\ o = FieldOutcome(made, fields, k)
      OBVIOUS
    <3>3. /\ o \in Outcomes(made, fields) /\ o.row = f.row /\ o.orders = Predictions(made, f)
          /\ (o.reference <=> Handwritten(f))
      BY <3>2, OutcomeTells
    <3>4. j \in Predictions(made, f)
      BY <2>1, <3>1, <3>2 DEF Predictions
    <3>5. ~Handwritten(f)
      BY <2>2, <3>1, <3>2 DEF PlainRun, PlainField
    <3>6. f.row = made.values[j].row
      BY <3>1, <3>2 DEF Key
    <3> QED
      BY <2>2, <3>3, <3>4, <3>5, <3>6
  <2> QED
    BY <2>3, <2>4
<1> QED
  BY <1>1, <1>2

LEMMA RowsAreFinite ==
  ASSUME NEW made, NEW fields, PlainRun(made, fields)
  PROVE  IsFiniteSet(ExpectedRows(fields)) /\ IsFiniteSet(PredictedRows(made))
<1>1. IsFiniteSet(ExpectedRows(fields))
  <2> DEFINE ks == {j \in DOMAIN fields : Eligible(fields[j])}
             g == [k \in ks |-> fields[k].row]
             lines == ExpectedRows(fields)
  <2>1. IsFiniteSet(ks)
    BY FS_Subset DEF PlainRun
  <2>2. /\ g \in [ks -> lines]
        /\ \A r \in lines : \E k \in ks : g[k] = r
    BY DEF ExpectedRows
  <2> HIDE DEF ks, g, lines
  <2>3. g \in Surjection(ks, lines)
    BY <2>2 DEF Surjection
  <2> QED
    BY <2>1, <2>3, FS_Surjection DEF lines
<1>2. IsFiniteSet(PredictedRows(made))
  <2> DEFINE js == {j \in DOMAIN made.values : made.bound /\ ~Handwritten(made.values[j])}
             g == [j \in js |-> made.values[j].row]
             lines == PredictedRows(made)
  <2>1. IsFiniteSet(js)
    BY FS_Subset DEF PlainRun
  <2>2. /\ g \in [js -> lines]
        /\ \A r \in lines : \E j \in js : g[j] = r
    BY DEF PredictedRows
  <2> HIDE DEF js, g, lines
  <2>3. g \in Surjection(js, lines)
    BY <2>2 DEF Surjection
  <2> QED
    BY <2>1, <2>3, FS_Surjection DEF lines
<1> QED
  BY <1>1, <1>2

LEMMA RowsAlike ==
  ASSUME NEW made, NEW fields, PlainRun(made, fields), NEW lines, lines = RowCounts(made, fields),
         NEW expected, expected = ExpectedRows(fields), NEW found, found = PredictedRows(made)
  PROVE  /\ lines.found = Cardinality(expected \cap found)
         /\ lines.found + lines.invented = Cardinality(found)
         /\ lines.found + lines.lost = Cardinality(expected)
<1>1. /\ lines.found = Cardinality(expected \cap found)
      /\ lines.invented = Cardinality(found \ expected)
      /\ lines.lost = Cardinality(expected \ found)
  BY DEF RowCounts
<1>2. IsFiniteSet(expected) /\ IsFiniteSet(found)
  BY RowsAreFinite
<1>3. IsFiniteSet(expected \cap found) /\ expected \cap found = found \cap expected
  BY <1>2, FS_Subset
<1>4. /\ Cardinality(found \ expected) = Cardinality(found) - Cardinality(found \cap expected)
      /\ Cardinality(expected \ found) = Cardinality(expected) - Cardinality(expected \cap found)
  <2> HIDE DEF ExpectedRows, PredictedRows
  <2>1. Cardinality(found \ expected) = Cardinality(found) - Cardinality(found \cap expected)
    BY <1>2, FS_Difference, Zenon
  <2>2. Cardinality(expected \ found) = Cardinality(expected) - Cardinality(expected \cap found)
    BY <1>2, FS_Difference, Zenon
  <2> QED
    BY <2>1, <2>2
<1>5. /\ Cardinality(expected \cap found) \in Nat /\ Cardinality(found) \in Nat
      /\ Cardinality(expected) \in Nat
  BY <1>2, <1>3, FS_CardinalityType
<1>6. PICK both, n, m : /\ both = Cardinality(expected \cap found)
                        /\ n = Cardinality(found) /\ m = Cardinality(expected)
  OBVIOUS
<1>7. lines.found = both /\ lines.invented = n - both /\ lines.lost = m - both
  BY <1>1, <1>3, <1>4, <1>6
<1>8. both \in Nat /\ n \in Nat /\ m \in Nat
  BY <1>5, <1>6
<1>9. lines.found + lines.invented = n /\ lines.found + lines.lost = m
  BY <1>7, <1>8
<1> QED
  BY <1>6, <1>7, <1>9

(* What the scorer counts is what is derived from the outcomes.               *)
LEMMA MetricsAlike ==
  ASSUME NEW made, NEW fields, PlainRun(made, fields), None \notin Comparisons,
         NEW os, os = Outcomes(made, fields), NEW c, c = CountsOf(made, fields, Kinds),
         NEW byKind, byKind = [k \in Kinds |-> CountsOf(made, fields, {k})],
         NEW lines, lines = RowCounts(made, fields)
  PROVE  CohortMetrics(c, byKind, lines) = DerivedMetrics(os)
<1> DEFINE eligible == {o \in {x \in os : x.order # 0} : ~o.reference /\ ~o.ignored}
           required == {o \in eligible : o.required}
           paged == {o \in eligible : o.evidence # None}
           others == {o \in paged : ~o.evidence.samePage}
           exact == DerivedExact(os)
           normalized == DerivedNormalized(os)
           expected == {o.row : o \in eligible}
           found == {o.row : o \in {x \in os : x.orders # {} /\ ~x.reference}}
<1>1. DerivedMetrics(os) =
         [exact |-> exact, normalized |-> normalized,
          page |-> Metric(Cardinality(paged \ others), Cardinality(paged), exact.reference,
                          exact.ignored, exact.errors),
          missing |-> Metric(Having(required, "MISSING_REQUIRED"), Cardinality(required),
                             exact.reference, exact.ignored, 0),
          confusion |-> DerivedConfusion(required),
          rowPrecision |-> Metric(Cardinality(expected \cap found), Cardinality(found), 0, 0, 0),
          rowRecall |-> Metric(Cardinality(expected \cap found), Cardinality(expected), 0, 0, 0),
          exactOf |-> [k \in Kinds |-> DerivedExact({o \in os : o.kind = k})],
          normalizedOf |-> [k \in Kinds |-> DerivedNormalized({o \in os : o.kind = k})],
          totals |-> [x \in Totals |->
            CASE x = "reference" -> exact.reference [] x = "ignored" -> exact.ignored
              [] x = "duplicates" -> exact.errors
              [] x = "unmapped" -> Cardinality(os \ {o \in os : o.order # 0})
              [] x = "logic" -> Having(os, "LOGIC_CONFLICT")
              [] x = "low" -> Having(os, "LOW_CONFIDENCE")
              [] x = "pageMismatch" -> Cardinality(others)]]
  BY DEF DerivedMetrics
<1>2. /\ eligible = EligibleOf(os) /\ required = RequiredOf(os)
      /\ paged = Paged(os) /\ others = OnOthers(os)
      /\ exact = DerivedExact(os) /\ normalized = DerivedNormalized(os)
  BY DEF EligibleOf, RequiredOf, Paged, OnOthers
<1>3. expected = ExpectedRows(fields)
  BY <1>2, ExpectedRowsAlike
<1>4. found = PredictedRows(made)
  BY PredictedRowsAlike
<1> HIDE DEF eligible, required, paged, others, exact, normalized, expected, found
<1>5. exact = ExactMetric(c) /\ normalized = NormalizedMetric(c)
  BY <1>2, OutcomeOfKinds, CohortAlike
<1>6. /\ exact.reference = c["reference"] /\ exact.ignored = c["ignored"]
      /\ exact.errors = c["duplicates"]
  BY <1>5 DEF ExactMetric, Metric
<1>7. /\ Cardinality(paged) = c["pageDenominator"] /\ Cardinality(paged \ others) = c["page"]
      /\ Cardinality(others) = c["pageMismatch"]
  BY <1>2, PagesAlike
<1>8. /\ Cardinality(required) = c["required"]
      /\ Having(required, "MISSING_REQUIRED") = c["requiredMissing"]
      /\ DerivedConfusion(required) = <<c["TP"], c["FP"], c["FN"], c["TN"]>>
  BY <1>2, RequiredAlike
<1>9. Having(os, "LOGIC_CONFLICT") = c["logic"] /\ Having(os, "LOW_CONFIDENCE") = c["low"]
  BY ReasonsAlike
<1>10. Cardinality(os \ {o \in os : o.order # 0}) = c["unmapped"]
  BY UnexpectedAlike
<1>11. /\ Cardinality(expected \cap found) = lines.found
       /\ Cardinality(found) = lines.found + lines.invented
       /\ Cardinality(expected) = lines.found + lines.lost
  BY <1>3, <1>4, RowsAlike
<1>12. ASSUME NEW k \in Kinds
       PROVE  /\ DerivedExact({o \in os : o.kind = k}) = ExactMetric(byKind[k])
              /\ DerivedNormalized({o \in os : o.kind = k}) = NormalizedMetric(byKind[k])
  <2>1. {o \in os : o.kind = k} = {o \in Outcomes(made, fields) : o.kind \in {k}}
    OBVIOUS
  <2>2. byKind[k] = CountsOf(made, fields, {k})
    OBVIOUS
  <2> QED
    BY <2>1, <2>2, CohortAlike
<1>13. /\ [k \in Kinds |-> DerivedExact({o \in os : o.kind = k})]
            = [k \in Kinds |-> ExactMetric(byKind[k])]
       /\ [k \in Kinds |-> DerivedNormalized({o \in os : o.kind = k})]
            = [k \in Kinds |-> NormalizedMetric(byKind[k])]
  BY <1>12
<1>14. [x \in Totals |->
          CASE x = "reference" -> exact.reference [] x = "ignored" -> exact.ignored
            [] x = "duplicates" -> exact.errors
            [] x = "unmapped" -> Cardinality(os \ {o \in os : o.order # 0})
            [] x = "logic" -> Having(os, "LOGIC_CONFLICT")
            [] x = "low" -> Having(os, "LOW_CONFIDENCE")
            [] x = "pageMismatch" -> Cardinality(others)]
        = [x \in Totals |-> c[x]]
  BY <1>6, <1>7, <1>9, <1>10 DEF Totals
<1>15. DerivedMetrics(os) =
         [exact |-> ExactMetric(c), normalized |-> NormalizedMetric(c),
          page |-> Metric(c["page"], c["pageDenominator"], c["reference"], c["ignored"],
                          c["duplicates"]),
          missing |-> Metric(c["requiredMissing"], c["required"], c["reference"], c["ignored"], 0),
          confusion |-> <<c["TP"], c["FP"], c["FN"], c["TN"]>>,
          rowPrecision |-> Metric(lines.found, lines.found + lines.invented, 0, 0, 0),
          rowRecall |-> Metric(lines.found, lines.found + lines.lost, 0, 0, 0),
          exactOf |-> [k \in Kinds |-> ExactMetric(byKind[k])],
          normalizedOf |-> [k \in Kinds |-> NormalizedMetric(byKind[k])],
          totals |-> [x \in Totals |-> c[x]]]
  BY <1>1, <1>5, <1>6, <1>7, <1>8, <1>11, <1>13, <1>14
<1> QED
  BY <1>15 DEF CohortMetrics

(* A plain run is scored and kept.                                            *)
LEMMA PlainCasePasses ==
  ASSUME NEW made, NEW fields, PlainRun(made, fields), None \notin Comparisons
  PROVE  CaseOutcomeOK(ScoreCase(made, fields))
<1>1. PICK outcome : outcome = ScoreCase(made, fields)
  OBVIOUS
<1>2. PICK c, byKind, lines : /\ c = CountsOf(made, fields, Kinds)
                             /\ byKind = [k \in Kinds |-> CountsOf(made, fields, {k})]
                             /\ lines = RowCounts(made, fields)
  OBVIOUS
<1>3. /\ outcome.outcomes = Outcomes(made, fields)
      /\ outcome.metrics = CohortMetrics(c, byKind, lines)
      /\ outcome.reasons = CaseReasons(made, fields)
  BY <1>1, <1>2 DEF ScoreCase
<1>4. outcome.metrics = DerivedMetrics(outcome.outcomes)
  BY <1>2, <1>3, MetricsAlike
<1>5. ASSUME NEW o \in Outcomes(made, fields)
      PROVE  FieldOutcomeOK(o) /\ o.reasons \subseteq outcome.reasons
  <2>1. FieldOutcomeOK(o)
    <3>1. CASE \E k \in DOMAIN fields : o = FieldOutcome(made, fields, k)
      BY <3>1, FieldPasses
    <3>2. CASE \E j \in Unmapped(made, fields) : o = UnmappedOutcome(made, j)
      BY <3>2, UnmappedPasses
    <3> QED
      BY <3>1, <3>2 DEF Outcomes
  <2>2. o.reasons \subseteq CaseReasons(made, fields)
    BY DEF CaseReasons
  <2> QED
    BY <1>3, <2>1, <2>2
<1> QED
  BY <1>1, <1>3, <1>4, <1>5 DEF CaseOutcomeOK

(* An offer that is plain makes a plain run.                                  *)
LEMMA PlainOffers ==
  ASSUME NEW k \in DOMAIN Offers, NEW offer \in Offers[k], Plain(offer)
  PROVE  /\ PlainRun(RunOf(offer), offer.fields)
         /\ WarningsObservable(offer) /\ RunOK(RunOf(offer))
<1>1. PICK made, fields : made = RunOf(offer) /\ fields = offer.fields
  OBVIOUS
<1>2. /\ WarningsObservable(offer) /\ RunOK(made)
      /\ \A j \in DOMAIN made.values :
           /\ made.values[j].reasons \cap ClaimedOnly # {} => Twice(made.values, j)
           /\ j \in Unmapped(made, fields) =>
                made.bound /\ made.values[j].reasons \subseteq {"MISSING_REQUIRED"}
      /\ \A i \in DOMAIN fields :
           /\ ~(fields[i].ignored /\ Handwritten(fields[i]))
           /\ Eligible(fields[i]) /\ ~fields[i].required => Predictions(made, fields[i]) # {}
           /\ MissingMarked(fields[i]) => PredictedMissing(made, fields[i])
           /\ \A j \in DOMAIN made.values : Key(made.values[j]) = Key(fields[i]) =>
                (Handwritten(made.values[j]) <=> Handwritten(fields[i]))
  BY <1>1 DEF Plain
<1>3. /\ made.bound = offer.bound /\ IsFiniteSet(DOMAIN made.values)
      /\ offer.failure = 0 => made.values = offer.values
  BY <1>1, RunsOfOffers
<1>4. made.values = << >> \/ made.values = offer.values
  BY <1>1 DEF RunOf
<1>5. /\ offer.bound \in BOOLEAN
      /\ \A i \in DOMAIN fields :
           /\ fields[i].required \in BOOLEAN /\ fields[i].ignored \in BOOLEAN
           /\ fields[i].kind \in Kinds /\ fields[i].reasons \subseteq ReviewReasons
      /\ \A j \in DOMAIN offer.values :
           offer.values[j].kind \in Kinds /\ offer.values[j].reasons \subseteq EvaluationReasons
  BY <1>1, ScoringAssumption
<1>6. IsFiniteSet(DOMAIN fields) /\ DOMAIN fields \subseteq Nat \ {0}
  BY <1>1, OffersAreFinite
<1>7. \A j \in DOMAIN made.values :
        /\ made.values[j].kind \in Kinds /\ made.values[j].reasons \subseteq EvaluationReasons
        /\ CandidateOK(made.values[j])
  <2>1. \A j \in DOMAIN made.values : CandidateOK(made.values[j])
    BY <1>2 DEF RunOK
  <2>2. CASE made.values = << >>
    BY <2>2
  <2>3. CASE made.values = offer.values
    BY <1>5, <2>1, <2>3
  <2> QED
    BY <1>4, <2>2, <2>3
<1>8. \A j \in DOMAIN made.values : PlainCandidate(made, fields, j)
  BY <1>2, <1>7 DEF PlainCandidate
<1>9. \A i \in DOMAIN fields : PlainField(made, fields, i)
  BY <1>2, <1>5 DEF PlainField
<1>10. PlainRun(made, fields)
  BY <1>3, <1>5, <1>6, <1>8, <1>9 DEF PlainRun
<1> QED
  BY <1>1, <1>2, <1>10

(* What the scorer raised on is an offer that it could not keep.               *)
RefusedIsRefused ==
  refused # None =>
    \E k \in DOMAIN Offers :
      /\ refused \in Offers[k]
      /\ ~(/\ WarningsObservable(refused) /\ RunOK(RunOf(refused))
           /\ CaseOutcomeOK(ScoreCase(RunOf(refused), refused.fields)))

LEMMA RefusedStep ==
  ScoringInvariant /\ RefusedIsRefused /\ [NextScoring]_scoringVars => RefusedIsRefused'
<1> SUFFICES ASSUME ScoringInvariant, RefusedIsRefused, [NextScoring]_scoringVars
             PROVE  RefusedIsRefused'
  OBVIOUS
<1>1. CASE refused' = refused
  BY <1>1 DEF RefusedIsRefused
<1>2. CASE refused' # refused
  <2>1. ScoreNext
    BY <1>2 DEF NextScoring, Publish, scoringVars
  <2>2. PICK n : n = Len(scored) + 1
    OBVIOUS
  <2>3. PICK offer \in Offers[n] :
          /\ refused' = offer
          /\ ~(/\ WarningsObservable(offer) /\ RunOK(RunOf(offer))
               /\ CaseOutcomeOK(ScoreCase(RunOf(offer), offer.fields)))
    BY <1>2, <2>1, <2>2 DEF ScoreNext
  <2>4. n \in DOMAIN Offers
    <3>1. Len(scored) < Len(Offers)
      BY <2>1 DEF ScoreNext
    <3>2. Len(scored) \in Nat
      BY DEF ScoringInvariant
    <3>3. PICK rs : rs = Range(Offers) /\ Offers \in Seq(rs)
      BY ScoringAssumption
    <3>4. Len(Offers) \in Nat /\ DOMAIN Offers = 1 .. Len(Offers)
      BY <3>3
    <3> QED
      BY <2>2, <3>1, <3>2, <3>4
  <2> QED
    BY <2>3, <2>4 DEF RefusedIsRefused
<1> QED
  BY <1>1, <1>2

(* The scorer and the models of the report count the same things in two ways    *)
(* (hyc_evaluation: scoring.py, reports.py), and they agree on every plain run: *)
(* what the scorer says of a case is what is derived from its fields again, so  *)
(* the scorer never raises on one.                                            *)
THEOREM PlainRunsAreKept ==
  InitScoring /\ [][NextScoring]_scoringVars => []PlainRunsAreScored
<1>1. InitScoring => RefusedIsRefused
  BY DEF InitScoring, RefusedIsRefused
<1>2. RefusedIsRefused => PlainRunsAreScored
  <2> SUFFICES ASSUME RefusedIsRefused, refused # None, Plain(refused) PROVE FALSE
    BY DEF PlainRunsAreScored
  <2>1. PICK k \in DOMAIN Offers :
          /\ refused \in Offers[k]
          /\ ~(/\ WarningsObservable(refused) /\ RunOK(RunOf(refused))
               /\ CaseOutcomeOK(ScoreCase(RunOf(refused), refused.fields)))
    BY DEF RefusedIsRefused
  <2>2. None \notin Comparisons
    BY ScoringAssumption
  <2> QED
    BY <2>1, <2>2, PlainOffers, PlainCasePasses
<1> QED
  BY <1>1, <1>2, RefusedStep, CasesAreScored, PTL
-----------------------------------------------------------------------------
(* The three together                                                         *)
-----------------------------------------------------------------------------
(* A behaviour of the three desks is one of each of the components, so that    *)
(* what is proved of uploads, reviews and scoring is proved where they are run. *)
THEOREM DocumentDesksAreTheirComponents ==
  DesksSpec => /\ FairSpec /\ ReadingSpec /\ FairReading
               /\ InitScoring /\ [][NextScoring]_scoringVars
<1> DEFINE deskVars == <<vars, readingVars, scoringVars, desk>>
<1>1. InitDesks => Init /\ InitReading /\ InitScoring
  BY DEF InitDesks
<1>2. [NextDesks]_deskVars => [Next]_vars
  BY DEF NextDesks
<1>3. [NextDesks]_deskVars => [NextReading]_readingVars
  BY DEF NextDesks
<1>4. [NextDesks]_deskVars => [NextScoring]_scoringVars
  BY DEF NextDesks
<1> QED
  BY <1>1, <1>2, <1>3, <1>4, PTL DEF DesksSpec, FairSpec, Spec, ReadingSpec
=============================================================================
