--------------------------- MODULE DocumentUpload ---------------------------
(***************************************************************************)
(* POST /documents: upload_document (hyc_api/routes/documents.py) over       *)
(* HashAddressedStorage (storage.py) and DigestOwnershipGuard                *)
(* (document_locks.py).                                                     *)
(*                                                                         *)
(* An upload streams into a temporary file.  Then, with no await in between  *)
(* and so alone in its process, it takes the file lock of its digest's       *)
(* stripe, links the object into place, takes the advisory lock of its       *)
(* digest, and decides whether the document is new: the row that owns the    *)
(* object is inserted and committed, or what the upload created is removed.  *)
(*                                                                         *)
(* Left out: tampering with the storage directories, and an unlink or a      *)
(* release that fails.                                                      *)
(***************************************************************************)
EXTENDS NoValue, Naturals, FiniteSets

CONSTANTS
  Uploads,                \* numbered in the order in which they arrive
  Processes, ProcessOf,   \* server processes, and the one an upload is sent to
  Digests, Supported,     \* contents, and those classified as a known document type
  Stripes, StripeOf       \* lock files, and the one of a digest

Streaming == {"receiving", "waiting", "leased"}      \* with a temporary file
Leased == {"leased", "staged", "guarded", "absent", "inserted", "cleaning", "finishing"}
Handling == Leased \cup {"waiting", "releasing"}     \* no await: the process does nothing else
Over == {"ended", "crashed"}
Stages == {"idle", "receiving"} \cup Handling \cup Over
Answers == {"none", "ok", "refused", "uncertain"}

Row == [by : Uploads, state : {"open", "in doubt", "committed"}]

ASSUME DocumentAssumption ==
  /\ Supported \subseteq Digests
  /\ StripeOf \in [Digests -> Stripes] /\ ProcessOf \in [Uploads -> Processes]
  /\ Uploads \subseteq Nat
  /\ None \notin Uploads /\ None \notin Digests /\ None \notin Row

VARIABLES
  objects,    \* digests whose object is in its bucket
  temps,      \* uploads whose temporary file is in the storage root
  lease,      \* stripe -> the upload that has its file lock
  guard,      \* digest -> the upload whose connection has its advisory lock
  rows,       \* digest -> the row of documents with this checksum
  upload      \* upload -> where its handler is

vars == <<objects, temps, lease, guard, rows, upload>>

Handler == [stage : Stages, digest : Digests \cup {None}, created : BOOLEAN,
            answer : Answers, document : Uploads \cup {None}]
Idle == [stage |-> "idle", digest |-> None, created |-> FALSE,
         answer |-> "none", document |-> None]

TypeOK ==
  /\ objects \subseteq Digests
  /\ temps \subseteq Uploads
  /\ lease \in [Stripes -> Uploads \cup {None}]
  /\ guard \in [Digests -> Uploads \cup {None}]
  /\ rows \in [Digests -> Row \cup {None}]
  /\ upload \in [Uploads -> Handler]
  /\ \A u \in Uploads :
       /\ upload[u].stage # "idle" => upload[u].digest # None
       /\ upload[u].answer = "ok" => upload[u].document # None

-----------------------------------------------------------------------------
At(u, stage) == upload[u].stage = stage
DigestOf(u) == upload[u].digest
Lock(u) == StripeOf[DigestOf(u)]
Free(p) == \A u \in Uploads : ProcessOf[u] = p => upload[u].stage \notin Handling

Committed(d) == rows[d] # None /\ rows[d].state = "committed"
Pending(d) == rows[d] # None /\ rows[d].state # "committed"

LeaseKept(u) == lease                                \* mutant
LeaseWithout(u) == [s \in Stripes |-> IF lease[s] = u THEN None ELSE lease[s]]
GuardWithout(u) == [d \in Digests |-> IF guard[d] = u THEN None ELSE guard[d]]
RowsWithout(u) ==        \* session.rollback
  [d \in Digests |-> IF Pending(d) /\ rows[d].by = u THEN None ELSE rows[d]]

Goto(u, stage) == upload' = [upload EXCEPT ![u].stage = stage]
End(u, stage, answer) ==
  upload' = [upload EXCEPT ![u].stage = stage, ![u].answer = answer]
OwnId(u) == u                                        \* mutant
DocumentId(u) == rows[DigestOf(u)].by
Accept(u, document) ==
  upload' = [upload EXCEPT ![u].stage = "finishing", ![u].answer = "ok",
                           ![u].document = document]

-----------------------------------------------------------------------------
Init ==
  /\ objects = {} /\ temps = {}
  /\ lease = [s \in Stripes |-> None]
  /\ guard = [d \in Digests |-> None]
  /\ rows = [d \in Digests |-> None]
  /\ upload = [u \in Uploads |-> Idle]

(* The body arrives chunk by chunk; other handlers of the process go on.    *)
Receive(u, d) ==
  /\ At(u, "idle") /\ \A v \in Uploads : v < u => ~At(v, "idle")
  /\ Free(ProcessOf[u])
  /\ upload' = [upload EXCEPT ![u] =
       [Idle EXCEPT !.stage = "receiving", !.digest = d]]
  /\ temps' = temps \cup {u}
  /\ UNCHANGED <<objects, lease, guard, rows>>

(* put_stream raises before the object is this request's: the client is     *)
(* gone, the body is empty or too large, a system call fails.  What it      *)
(* linked is unlinked again.                                                *)
StagingFails(u) ==
  /\ upload[u].stage \in Streaming /\ (At(u, "receiving") => Free(ProcessOf[u]))
  /\ End(u, "ended", "refused")
  /\ temps' = temps \ {u}
  /\ lease' = LeaseWithout(u)
  /\ UNCHANGED <<objects, guard, rows>>

BodyComplete(u) ==
  /\ At(u, "receiving") /\ Free(ProcessOf[u])
  /\ Goto(u, "waiting")
  /\ UNCHANGED <<objects, temps, lease, guard, rows>>

TakeLease(u) ==
  /\ At(u, "waiting") /\ lease[Lock(u)] = None
  /\ lease' = [lease EXCEPT ![Lock(u)] = u]
  /\ Goto(u, "leased")
  /\ UNCHANGED <<objects, temps, guard, rows>>

Link(u) ==
  /\ At(u, "leased")
  /\ objects' = objects \cup {DigestOf(u)}
  /\ temps' = temps \ {u}
  /\ upload' = [upload EXCEPT ![u].stage = "staged",
                              ![u].created = DigestOf(u) \notin objects]
  /\ UNCHANGED <<lease, guard, rows>>

TakeGuard(u) ==
  /\ At(u, "staged") /\ guard[DigestOf(u)] = None
  /\ guard' = [guard EXCEPT ![DigestOf(u)] = u]
  /\ Goto(u, "guarded")
  /\ UNCHANGED <<objects, temps, lease, rows>>

(* The bytes are read back and classified; then the row is looked up.       *)
Decide(u) ==
  /\ At(u, "guarded") /\ DigestOf(u) \in objects
  /\ IF DigestOf(u) \notin Supported THEN End(u, "cleaning", "refused")
     ELSE IF Committed(DigestOf(u)) THEN Accept(u, DocumentId(u))
     ELSE Goto(u, "absent")
  /\ UNCHANGED <<objects, temps, lease, guard, rows>>

(* INSERT waits for an uncommitted row of the same checksum.                *)
Insert(u) ==
  /\ At(u, "absent") /\ DigestOf(u) \in objects /\ rows[DigestOf(u)] = None
  /\ rows' = [rows EXCEPT ![DigestOf(u)] = [by |-> u, state |-> "open"]]
  /\ Goto(u, "inserted")
  /\ UNCHANGED <<objects, temps, lease, guard>>

(* IntegrityError: a row appeared that the lookup had not seen.             *)
InsertRefused(u) ==
  /\ At(u, "absent") /\ Committed(DigestOf(u))
  /\ Accept(u, DocumentId(u))
  /\ UNCHANGED <<objects, temps, lease, guard, rows>>

Commit(u) ==
  /\ At(u, "inserted") /\ DigestOf(u) \in objects
  /\ rows' = [rows EXCEPT ![DigestOf(u)].state = "committed"]
  /\ Accept(u, DocumentId(u))
  /\ UNCHANGED <<objects, temps, lease, guard>>

(* The connection is lost during the commit: nobody here knows the outcome. *)
DiscardOnDoubt == "cleaning"                         \* mutant
AfterDoubt == "finishing"
CommitInDoubt(u) ==
  /\ At(u, "inserted") /\ DigestOf(u) \in objects
  /\ rows' = [rows EXCEPT ![DigestOf(u)].state = "in doubt"]
  /\ End(u, AfterDoubt, "uncertain")
  /\ UNCHANGED <<objects, temps, lease, guard>>

(* Any other failure before the commit: rolled back, and cleaned up.        *)
Fails(u) ==
  /\ upload[u].stage \in {"staged", "guarded", "absent", "inserted"}
  /\ rows' = RowsWithout(u)
  /\ End(u, "cleaning", "refused")
  /\ UNCHANGED <<objects, temps, lease, guard>>

NothingRemoved(u) == {}                              \* mutant
Removable(u) == IF upload[u].created THEN {DigestOf(u)} ELSE {}
RemoveIfCreated(u) ==
  /\ At(u, "cleaning")
  /\ objects' = objects \ Removable(u)
  /\ lease' = LeaseWithout(u)
  /\ Goto(u, "releasing")
  /\ UNCHANGED <<temps, guard, rows>>

Finalize(u) ==
  /\ At(u, "finishing")
  /\ lease' = LeaseWithout(u)
  /\ Goto(u, "releasing")
  /\ UNCHANGED <<objects, temps, guard, rows>>

Release(u) ==
  /\ At(u, "releasing")
  /\ guard' = GuardWithout(u)
  /\ Goto(u, "ended")
  /\ UNCHANGED <<objects, temps, lease, rows>>

-----------------------------------------------------------------------------
(* A process dies.  The kernel drops its file locks; PostgreSQL still has    *)
(* its connections, and may have received a commit.                         *)
Crash(p) ==
  LET dead == {u \in Uploads : ProcessOf[u] = p /\ upload[u].stage \notin Over \cup {"idle"}}
  IN  /\ dead # {}
      /\ upload' = [u \in Uploads |->
           IF u \in dead THEN [upload[u] EXCEPT !.stage = "crashed"] ELSE upload[u]]
      /\ lease' = [s \in Stripes |-> IF lease[s] \in dead THEN None ELSE lease[s]]
      /\ rows' = [d \in Digests |->
           IF rows[d] # None /\ rows[d].by \in dead /\ Pending(d)
           THEN [rows[d] EXCEPT !.state = "in doubt"] ELSE rows[d]]
      /\ UNCHANGED <<objects, temps, guard>>

ConnectionLost(u) ==
  /\ At(u, "crashed") /\ u \in {guard[d] : d \in Digests}
  /\ guard' = GuardWithout(u)
  /\ UNCHANGED <<objects, temps, lease, rows, upload>>

Resolve(d) ==
  /\ rows[d] # None /\ rows[d].state = "in doubt"
  /\ \/ rows' = [rows EXCEPT ![d].state = "committed"]
     \/ rows' = [rows EXCEPT ![d] = None]
  /\ UNCHANGED <<objects, temps, lease, guard, upload>>

-----------------------------------------------------------------------------
Step(u) ==
  \/ TakeLease(u) \/ Link(u) \/ TakeGuard(u) \/ Decide(u) \/ Insert(u) \/ InsertRefused(u)
  \/ Commit(u) \/ CommitInDoubt(u) \/ Fails(u)
  \/ RemoveIfCreated(u) \/ Finalize(u) \/ Release(u)

Next ==
  \/ \E u \in Uploads :
       \/ \E d \in Digests : Receive(u, d)
       \/ StagingFails(u) \/ BodyComplete(u)
       \/ TakeLease(u) \/ Link(u) \/ TakeGuard(u) \/ Decide(u) \/ Insert(u)
       \/ InsertRefused(u) \/ Commit(u) \/ CommitInDoubt(u) \/ Fails(u)
       \/ RemoveIfCreated(u) \/ Finalize(u) \/ Release(u)
       \/ ConnectionLost(u)
  \/ \E p \in Processes : Crash(p)
  \/ \E d \in Digests : Resolve(d)

Spec == Init /\ [][Next]_vars

(* A process runs its handler on, and PostgreSQL settles what it has.  A     *)
(* client need not send its body.                                           *)
FairUploads ==
  /\ \A u \in Uploads : WF_vars(Step(u)) /\ WF_vars(ConnectionLost(u))
  /\ \A d \in Digests : WF_vars(Resolve(d))

FairSpec == Spec /\ FairUploads

-----------------------------------------------------------------------------
(* A document that exists, or may yet turn out to exist, has its bytes:     *)
(* no cleanup of another request, of a crash or of a lost commit takes      *)
(* them (remove_if_created, and the commit_attempted flag).                 *)
DocumentsHaveBytes == \A d \in Digests : rows[d] # None => d \in objects

(* Whoever got an answer for some content got the same document, and it is  *)
(* committed (the duplicate paths of upload_document).                      *)
OneDocumentEach ==
  \A u \in Uploads : At(u, "ended") /\ upload[u].answer = "ok" =>
    /\ Committed(DigestOf(u)) /\ upload[u].document = rows[DigestOf(u)].by
    /\ DigestOf(u) \in Supported

(* Bytes and temporary files that no document owns are those of an upload   *)
(* still at work, of one that crashed, or of one whose commit was lost.     *)
NothingIsLeft ==
  /\ \A d \in objects : rows[d] = None =>
       \E u \in Uploads :
         /\ DigestOf(u) = d /\ upload[u].created
         /\ upload[u].stage \in Handling \cup {"crashed"} \/ upload[u].answer = "uncertain"
  /\ \A u \in temps : upload[u].stage \in Streaming \cup {"crashed"}

(* The storage and the table tell the same, but for uploads at work, crashes *)
(* and commits in doubt: no document without bytes, no bytes without one.   *)
BytesFollowDocuments == DocumentsHaveBytes /\ NothingIsLeft

(* Every upload whose body arrived comes to an end: none waits for ever for *)
(* a lock or for another's row, and a slow client holds no lock.            *)
EveryUploadEnds == \A u \in Uploads : At(u, "waiting") ~> upload[u].stage \in Over

-----------------------------------------------------------------------------
(* The inductive invariant behind the safety properties.  Uploads of one    *)
(* digest exclude each other from the link to the removal, the row of an    *)
(* upload that inserted one is its own, and while an upload may still       *)
(* remove what it created nobody owns it.                                   *)
Excludes(u) == upload[u].stage \in Leased => lease[Lock(u)] = u
OwnsItsRow(u) == At(u, "inserted") => rows[DigestOf(u)] = [by |-> u, state |-> "open"]
OwnsNothing(u) ==
  upload[u].created /\ upload[u].stage \in {"staged", "guarded", "absent", "cleaning"}
    => rows[DigestOf(u)] = None
IsSupported(u) == upload[u].stage \in {"absent", "inserted"} => DigestOf(u) \in Supported
WasTold(u) ==
  upload[u].answer = "ok" =>
    /\ ~At(u, "idle") /\ DigestOf(u) \in Supported
    /\ Committed(DigestOf(u)) /\ upload[u].document = rows[DigestOf(u)].by

(* Bytes that no document owns for good have somebody to answer for them.   *)
Answering(h) ==
  /\ h.created
  /\ \/ h.stage \in {"staged", "guarded", "absent", "inserted", "cleaning", "crashed"}
     \/ h.answer = "uncertain" /\ h.stage \in {"finishing", "releasing", "ended"}
AnswersFor(u, d) == DigestOf(u) = d /\ Answering(upload[u])
Accounted(d) == Committed(d) \/ \E u \in Uploads : AnswersFor(u, d)

UploadInvariant ==
  /\ TypeOK
  /\ \A u \in Uploads :
       Excludes(u) /\ OwnsItsRow(u) /\ OwnsNothing(u) /\ IsSupported(u) /\ WasTold(u)
  /\ DocumentsHaveBytes
  /\ \A d \in objects : Accounted(d)
  /\ \A u \in temps : upload[u].stage \in Streaming \cup {"crashed"}
=============================================================================
