-------------------------- MODULE ExtractionReview --------------------------
(***************************************************************************)
(* The extractions of one document and the reviews that confirm one of       *)
(* them: extract_document and review_document of hyc_api/routes/documents.py, *)
(* confirm_review of hyc_api/services/p3.py, and the triggers of the          *)
(* migration 0004 that keep a confirmed reading as it is.                    *)
(*                                                                         *)
(* A call is one READ COMMITTED transaction.  What it writes after its last  *)
(* lock is granted, and its commit, are one step: nobody sees them before.   *)
(* A call asks for the row locks of a statement at once, where PostgreSQL    *)
(* grants them in the order of the runs' ids.                                *)
(***************************************************************************)
EXTENDS NoValue, Naturals, FiniteSets

CONSTANTS
  Extractions,   \* calls of extract_document; each names the run it may insert
  Reviews,       \* calls of confirm_review
  Candidates,    \* what the provider can read: its kind and the keys of its values
  Requests,      \* bodies of a review: a run, an allocation, a specification, fields
  SpecVersions,  \* specification versions that can be the current one
  Codes(_)       \* the item codes of a version

Calls == Extractions \cup Reviews

VARIABLES
  run,        \* extraction -> the committed run it inserted, or None
  link,       \* the allocation the document's section is linked to, or None
  holder,     \* who holds the document's row lock FOR UPDATE, or None
  locked,     \* call -> the runs whose rows it has locked
  extraction, \* call -> how far it is, and its answer
  review,     \* call -> how far it is, its request and its answer
  spec        \* the version the allocations' scope selects now

readingVars == <<run, link, holder, locked, extraction, review, spec>>

-----------------------------------------------------------------------------
Dispositions == {"MAP", "UNMAPPED"}
(* A field of a run: where its value was mapped to, once it is confirmed.    *)
Unreviewed == [target |-> None, confirmed |-> FALSE]
RunRow(fields, provider) ==
  [status |-> "REVIEW_REQUIRED", provider |-> provider,
   fields |-> [key \in fields |-> Unreviewed], version |-> 2, by |-> None]

Targets == {None} \cup (UNION {Codes(v) : v \in SpecVersions})
                  \cup (UNION {x.keys : x \in Candidates})
RunsOf(x, status, version, by) ==
  [status : {status}, provider : {x.provider},
   fields : [x.keys -> [target : Targets, confirmed : BOOLEAN]], version : {version}, by : by]
Runs == (UNION {RunsOf(x, "REVIEW_REQUIRED", 2, {None}) : x \in Candidates})
        \cup (UNION {RunsOf(x, "CONFIRMED", 3, Reviews) : x \in Candidates})

ASSUME ReadingAssumption == None \notin Reviews /\ None \notin Runs

Ended == {"ok", "conflict", "unprocessable", "server error", "crashed"}
ReadingTypeOK ==
  /\ run \in [Extractions -> Runs \cup {None}]
  /\ holder \in Extractions \cup {None}
  /\ locked \in [Calls -> SUBSET Extractions]
  /\ extraction \in [Extractions -> [at : {"idle", "reading", "ended"},
                                     candidate : Candidates \cup {None},
                                     answer : Ended \cup {None}]]
  /\ review \in [Reviews -> [at : {"idle", "asked", "checked", "ended"},
                             request : Requests \cup {None},
                             answer : Ended \cup {None}]]
  /\ spec \in SpecVersions

Visible == {e \in Extractions : run[e] # None}
ConfirmedHere ==                                     \* mutant
  {e \in Visible : run[e].status = "CONFIRMED" /\ run[e].provider = "local-paddleocr"}
Confirmed == {e \in Visible : run[e].status = "CONFIRMED"}
FreeFor(c, runs) == \A d \in Calls \ {c} : locked[d] \cap runs = {}

InitReading ==
  /\ run = [e \in Extractions |-> None]
  /\ link = None
  /\ holder = None
  /\ locked = [c \in Calls |-> {}]
  /\ extraction = [e \in Extractions |-> [at |-> "idle", candidate |-> None, answer |-> None]]
  /\ review = [c \in Reviews |-> [at |-> "idle", request |-> None, answer |-> None]]
  /\ spec \in SpecVersions

-----------------------------------------------------------------------------
(* An extraction: the document's row is locked until its transaction ends.  *)
KeepDocument(e, answer) ==                           \* mutant
  /\ extraction' = [extraction EXCEPT ![e].at = "ended", ![e].answer = answer]
  /\ UNCHANGED holder
  /\ locked' = [locked EXCEPT ![e] = {}]
EndExtraction(e, answer) ==
  /\ extraction' = [extraction EXCEPT ![e].at = "ended", ![e].answer = answer]
  /\ holder' = IF holder = e THEN None ELSE holder
  /\ locked' = [locked EXCEPT ![e] = {}]

BeginExtraction(e) ==
  /\ extraction[e].at = "idle" /\ holder = None /\ FreeFor(e, Confirmed)
  /\ IF Confirmed # {}
     THEN EndExtraction(e, "conflict")
     ELSE /\ holder' = e
          /\ extraction' = [extraction EXCEPT ![e].at = "reading"]
          /\ UNCHANGED locked
  /\ UNCHANGED <<run, link, review, spec>>

(* The stored bytes are not the document's, are of no kind it reads, or the *)
(* local OCR is off, absent, busy or fails.                                 *)
ReadingFails(e) ==
  /\ extraction[e].at = "reading" /\ extraction[e].candidate = None
  /\ EndExtraction(e, "unprocessable")
  /\ UNCHANGED <<run, link, review, spec>>

Read(e, candidate) ==
  /\ extraction[e].at = "reading" /\ extraction[e].candidate = None
  /\ extraction' = [extraction EXCEPT ![e].candidate = candidate]
  /\ UNCHANGED <<run, link, holder, locked, review, spec>>

(* INSERT of the run, for which the trigger locks every run of the document *)
(* and refuses if one is confirmed; its fields; the commit.                 *)
PersistCandidate(e) ==
  /\ extraction[e].at = "reading" /\ extraction[e].candidate # None
  /\ FreeFor(e, Visible)
  /\ IF Confirmed = {}
     THEN /\ run' = [run EXCEPT ![e] = RunRow(extraction[e].candidate.keys,
                                              extraction[e].candidate.provider)]
          /\ EndExtraction(e, "ok")
     ELSE EndExtraction(e, "server error") /\ UNCHANGED run
  /\ UNCHANGED <<link, review, spec>>

-----------------------------------------------------------------------------
(* A review: the runs of its document are locked first.                     *)
EndReview(c, answer) ==
  /\ review' = [review EXCEPT ![c].at = "ended", ![c].answer = answer]
  /\ locked' = [locked EXCEPT ![c] = {}]

Reviewed(e, q) == {key \in DOMAIN run[e].fields : q.fields[key].disposition = "MAP"}

(* Every field is reviewed, against the specification selected now: a local *)
(* OCR line is mapped to an item of it or stays unmapped, each item has one *)
(* line at most, and a mapped value is a canonical decimal.                 *)
AgainstAnySpec(e, q) ==                              \* mutant
  /\ \A key \in DOMAIN q.fields :
       LET f == q.fields[key] IN
       \/ f.disposition = "UNMAPPED" /\ f.target = None
       \/ f.disposition = "MAP" /\ f.target \in Codes(spec) /\ f.decimal
  /\ \A a, b \in Reviewed(e, q) : q.fields[a].target = q.fields[b].target => a = b
OcrReviewable(e, q) ==
  /\ q.spec = spec
  /\ \A key \in DOMAIN q.fields :
       LET f == q.fields[key] IN
       \/ f.disposition = "UNMAPPED" /\ f.target = None
       \/ f.disposition = "MAP" /\ f.target \in Codes(spec) /\ f.decimal
  /\ \A a, b \in Reviewed(e, q) : q.fields[a].target = q.fields[b].target => a = b

FixtureReviewable(e, q) ==
  /\ q.spec \in {None, spec}
  /\ \A key \in DOMAIN q.fields : key \in Codes(spec) => q.fields[key].decimal

Reviewable(e, q) ==
  /\ DOMAIN q.fields = DOMAIN run[e].fields
  /\ \A key \in DOMAIN q.fields : ~q.fields[key].conflicting
  /\ IF run[e].provider = "local-paddleocr" THEN OcrReviewable(e, q)
                                           ELSE FixtureReviewable(e, q)

(* One allocation for the document's section: a second review may only      *)
(* repeat it.                                                               *)
Linkable(q) == link \in {None, q.allocation}

BeginReview(c, q) ==
  /\ review[c].at = "idle" /\ q.run \in Visible /\ FreeFor(c, Visible)
  /\ LET e == q.run IN
     IF run[e].status # "REVIEW_REQUIRED" \/ run[e].version # q.version
       THEN EndReview(c, "conflict")
     ELSE /\ review' = [review EXCEPT ![c].at = "asked", ![c].request = q]
          /\ locked' = [locked EXCEPT ![c] = Visible]
  /\ UNCHANGED <<run, link, holder, extraction, spec>>

CheckReview(c) ==
  /\ review[c].at = "asked"
  /\ LET q == review[c].request IN
     IF ~Reviewable(q.run, q) THEN EndReview(c, "unprocessable")
     ELSE IF ~Linkable(q) THEN EndReview(c, "conflict")
     ELSE /\ review' = [review EXCEPT ![c].at = "checked"]
          /\ UNCHANGED locked
  /\ UNCHANGED <<run, link, holder, extraction, spec>>

(* The fields, the first section of the document - whose foreign key waits  *)
(* for whoever has locked the document's row - the link and the run.  The   *)
(* triggers refuse to touch a confirmed reading, and a unique index a       *)
(* second confirmed run.                                                    *)
AnyNumber(e) == TRUE                                 \* mutant
OneConfirmedRun(e) == Confirmed \subseteq {e}
TriggersAllow(e) ==
  run[e].status # "CONFIRMED" /\ (link = None => Confirmed = {})
SectionWaits(c) == link = None /\ holder # None
ConfirmedFields(e, q) ==
  [key \in DOMAIN run[e].fields |->
     [target |-> IF run[e].provider = "local-paddleocr" THEN q.fields[key].target ELSE key,
      confirmed |-> TRUE]]
ConfirmedRow(e, q, c) ==
  [status |-> "CONFIRMED", provider |-> run[e].provider, fields |-> ConfirmedFields(e, q),
   version |-> run[e].version + 1, by |-> c]

ConfirmReview(c) ==
  /\ review[c].at = "checked" /\ ~SectionWaits(c) /\ FreeFor(c, Visible)
  /\ LET q == review[c].request  e == q.run IN
     IF ~TriggersAllow(e) THEN EndReview(c, "server error") /\ UNCHANGED <<run, link>>
     ELSE IF ~OneConfirmedRun(e) THEN EndReview(c, "conflict") /\ UNCHANGED <<run, link>>
     ELSE /\ run' = [run EXCEPT ![e] = ConfirmedRow(e, q, c)]
          /\ link' = q.allocation
          /\ EndReview(c, "ok")
  /\ UNCHANGED <<holder, extraction, spec>>

-----------------------------------------------------------------------------
(* An extraction that has the document and waits for the runs, a review     *)
(* that has the runs and waits for the document: PostgreSQL ends one.       *)
Deadlocked(e, c) ==
  /\ holder = e /\ extraction[e].at = "reading" /\ extraction[e].candidate # None
  /\ locked[c] # {} /\ review[c].at = "checked" /\ SectionWaits(c)

Deadlock(e, c) ==
  /\ Deadlocked(e, c)
  /\ \/ EndExtraction(e, "server error") /\ UNCHANGED review
     \/ EndReview(c, "server error") /\ UNCHANGED <<extraction, holder>>
  /\ UNCHANGED <<run, link, spec>>

(* The process or its connection dies: the transaction is rolled back.      *)
Die ==
  /\ \/ \E e \in Extractions : extraction[e].at = "reading" /\ EndExtraction(e, "crashed")
                               /\ UNCHANGED review
     \/ \E c \in Reviews : review[c].at \in {"asked", "checked"} /\ EndReview(c, "crashed")
                           /\ UNCHANGED <<extraction, holder>>
  /\ UNCHANGED <<run, link, spec>>

SelectAnother(v) ==
  /\ v # spec /\ spec' = v
  /\ UNCHANGED <<run, link, holder, locked, extraction, review>>

StepOfExtraction(e) ==
  \/ BeginExtraction(e) \/ ReadingFails(e) \/ PersistCandidate(e)
  \/ \E candidate \in Candidates : Read(e, candidate)
StepOfReview(c) == CheckReview(c) \/ ConfirmReview(c)

NextReading ==
  \/ \E e \in Extractions : StepOfExtraction(e)
  \/ \E c \in Reviews : StepOfReview(c) \/ \E q \in Requests : BeginReview(c, q)
  \/ \E e \in Extractions, c \in Reviews : Deadlock(e, c)
  \/ Die
  \/ \E v \in SpecVersions : SelectAnother(v)

ReadingSpec == InitReading /\ [][NextReading]_readingVars

(* The server works on the calls it took, the database looks for deadlocks. *)
FairReading ==
  /\ \A e \in Extractions : WF_readingVars(extraction[e].at = "reading" /\ StepOfExtraction(e))
  /\ \A c \in Reviews : WF_readingVars(StepOfReview(c))
  /\ WF_readingVars(\E e \in Extractions, c \in Reviews : Deadlock(e, c))

-----------------------------------------------------------------------------
(* One reading of a document counts: whatever runs were extracted, reviewed *)
(* and raced, one is confirmed at most, and the document is linked to the   *)
(* allocation of the review that confirmed it, and to none before           *)
(* (confirm_review, uq_document_one_confirmed_extraction_run).              *)
OneReadingCounts ==
  LET counting == {e \in Visible : run[e].status = "CONFIRMED"} IN
  /\ \A d, e \in counting : d = e
  /\ \A e \in counting : run[e].by # None /\ link = review[run[e].by].request.allocation
  /\ link # None => counting # {}

(* A confirmed reading is evidence: nothing done later to the document, its *)
(* runs or its link changes it, and no run is added to it (the triggers of  *)
(* the migration 0004).                                                     *)
ConfirmedReadingStays ==
  [][\A e \in Visible : run[e].status = "CONFIRMED" =>
       run'[e] = run[e] /\ link' = link /\ Visible' = Visible]_readingVars

(* The reviewer of a local reading mapped its lines to the items of the     *)
(* specification the review names, one line at most to each, although       *)
(* another version may have been activated since it was shown.              *)
ReadAgainstNamedSpec ==
  \A e \in Visible :
    run[e].status = "CONFIRMED" /\ run[e].provider = "local-paddleocr" =>
      LET q == review[run[e].by].request
          target(key) == run[e].fields[key].target
      IN  /\ \A key \in DOMAIN run[e].fields : target(key) \in Codes(q.spec) \cup {None}
          /\ \A a, b \in DOMAIN run[e].fields :
               target(a) = target(b) /\ target(a) # None => a = b

(* Nobody waits for ever: each call that was taken gets its answer.         *)
ReadingsEnd ==
  /\ \A e \in Extractions : extraction[e].at = "reading" ~> extraction[e].at = "ended"
  /\ \A c \in Reviews : review[c].at = "asked" ~> review[c].at = "ended"
=============================================================================
