------------------------------- MODULE Ingest -------------------------------
(***************************************************************************)
(* The ingest of a directory: IngestPipeline.execute, FileStabilizer and the  *)
(* local directory adapter (hyc_ingest), over the storage and the documents    *)
(* that uploads write too.                                                    *)
(*                                                                         *)
(* A run goes through the files it listed.  Of each it reads size and time of *)
(* modification, later the content, stages the bytes, writes the row and       *)
(* commits; the files are written meanwhile.  A run that raises ends, and      *)
(* keeps the lease of the bytes it had staged until its process ends.         *)
(***************************************************************************)
EXTENDS NoValue, Naturals, Sequences, SequencesExt

CONSTANTS
  Entries,     \* the paths, in the order a listing sorts them: a sequence
  Contents,    \* what a file can hold
  Quiet,       \* the quiet period
  MaxClock,    \* bound of the model: the time
  MaxWrites    \* bound of the model: writes into the directory

Paths == Range(Entries)

ASSUME IngestAssumption ==
  /\ Quiet \in Nat /\ None \notin Contents
  /\ Entries \in Seq(Paths)
  /\ \A m, n \in DOMAIN Entries : Entries[m] = Entries[n] => m = n
  /\ MaxClock \in Nat /\ MaxWrites \in Nat

VARIABLES
  file,     \* path -> what was written last and when, or None
  writes,   \* writes so far
  clock,    \* the time
  cursor,   \* path -> its row of ingest_cursors, or None
  todo,     \* the places, in Entries, of the paths the run has still to go through
  work,     \* what the run holds of the first of them
  stored,   \* contents whose object is in the storage
  leased,   \* contents whose lease is held by the run, or was left behind
  document  \* content -> "open" or "committed" where it has a row, or None

ingestVars == <<file, writes, clock, cursor, todo, work, stored, leased, document>>
directoryVars == <<file, writes, clock>>
recordedVars == <<cursor, stored, leased, document>>

(* A stamp is what the metadata say of a write: no two have the same.         *)
Stamp == [n : 1 .. MaxWrites, at : 0 .. MaxClock, content : Contents]
ASSUME StampAssumption == None \notin Stamp
Cursor == [status : {"PENDING_STABILITY", "INGESTED", "FAILED", "VANISHED"},
           stamp : Stamp \cup {None}, first : 0 .. MaxClock, last : 0 .. MaxClock,
           document : Contents \cup {None}]
IngestStages == {"idle", "next", "stable", "read", "staged", "flushed", "finalized"}
Resting == [stage |-> "idle", cursor |-> None, content |-> None]

IngestTypeOK ==
  /\ file \in [Paths -> Stamp \cup {None}]
  /\ cursor \in [Paths -> Cursor \cup {None}]
  /\ todo \subseteq DOMAIN Entries
  /\ work \in [stage : IngestStages, cursor : Cursor \cup {None}, content : Contents \cup {None}]
  /\ stored \subseteq Contents /\ leased \subseteq Contents
  /\ document \in [Contents -> {"open", "committed", None}]

InitIngest ==
  /\ file = [p \in Paths |-> None] /\ writes = 0 /\ clock = 0
  /\ cursor = [p \in Paths |-> None]
  /\ todo = {} /\ work = Resting
  /\ stored = {} /\ leased = {}
  /\ document = [c \in Contents |-> None]

-----------------------------------------------------------------------------
(* The directory.                                                           *)
WriteFile(p, c) ==
  /\ writes < MaxWrites                                   \* bound of the model
  /\ writes' = writes + 1
  /\ file' = [file EXCEPT ![p] = [n |-> writes + 1, at |-> clock, content |-> c]]
  /\ UNCHANGED <<clock, todo, work, recordedVars>>
RemoveFile(p) ==
  /\ file[p] # None /\ file' = [file EXCEPT ![p] = None]
  /\ UNCHANGED <<writes, clock, todo, work, recordedVars>>
TickIngest ==
  /\ clock < MaxClock /\ clock' = clock + 1                \* bound of the model
  /\ UNCHANGED <<file, writes, todo, work, recordedVars>>

-----------------------------------------------------------------------------
(* A run.                                                                   *)
ListEntries ==
  /\ work.stage = "idle"
  /\ todo' = {n \in DOMAIN Entries : file[Entries[n]] # None}
  /\ work' = [Resting EXCEPT !.stage = "next"]
  /\ UNCHANGED <<directoryVars, recordedVars>>

RunEnds ==
  /\ work.stage = "next" /\ todo = {}
  /\ work' = Resting
  /\ UNCHANGED <<directoryVars, todo, recordedVars>>

Here == Entries[Min(todo)]
Remaining == todo \ {Min(todo)}
(* Size and time of modification are what they were.                         *)
SameMetadata(p) == cursor[p].stamp = file[p]
SameFirst(p) == IF cursor[p] = None THEN clock ELSE cursor[p].first    \* mutant
Unchanged(p) == cursor[p] # None /\ cursor[p].stamp # None /\ SameMetadata(p)
FirstSeen(p) == IF Unchanged(p) THEN cursor[p].first ELSE clock
Stable(p) == IF Unchanged(p) THEN FirstSeen(p) + Quiet <= clock ELSE Quiet = 0

Known(p) == cursor[p] # None /\ cursor[p].status = "INGESTED"
DocumentOf(p) == IF cursor[p] = None THEN None ELSE cursor[p].document

Skip ==
  /\ work.stage = "next" /\ todo # {} /\ Known(Here) /\ SameMetadata(Here)
  /\ todo' = Remaining
  /\ UNCHANGED <<directoryVars, work, recordedVars>>

Record(p, row) ==
  /\ cursor' = [cursor EXCEPT ![p] = row]
  /\ todo' = Remaining
  /\ UNCHANGED <<directoryVars, stored>>

(* The file is gone: after it was ingested, the cursor keeps what it knew.    *)
Vanished ==
  /\ work.stage = "next" /\ todo # {} /\ file[Here] = None
  /\ Record(Here, IF Known(Here) THEN [cursor[Here] EXCEPT !.status = "VANISHED"]
                  ELSE [status |-> "VANISHED", stamp |-> None, first |-> clock,
                        last |-> clock, document |-> DocumentOf(Here)])
  /\ UNCHANGED <<work, leased, document>>

Evaluated(p, status) ==
  [status |-> status, stamp |-> file[p], first |-> FirstSeen(p), last |-> clock,
   document |-> DocumentOf(p)]

NotYetStable ==
  /\ work.stage = "next" /\ todo # {} /\ file[Here] # None
  /\ ~(Known(Here) /\ SameMetadata(Here)) /\ ~Stable(Here)
  /\ Record(Here, Evaluated(Here, "PENDING_STABILITY"))
  /\ UNCHANGED <<work, leased, document>>

IsStable ==
  /\ work.stage = "next" /\ todo # {} /\ file[Here] # None
  /\ ~(Known(Here) /\ SameMetadata(Here)) /\ Stable(Here)
  /\ work' = [stage |-> "stable", cursor |-> Evaluated(Here, "INGESTED"), content |-> None]
  /\ UNCHANGED <<directoryVars, todo, recordedVars>>

OpenEntry ==
  /\ work.stage = "stable" /\ file[Here] # None
  /\ work' = [work EXCEPT !.stage = "read", !.content = file[Here].content]
  /\ UNCHANGED <<directoryVars, todo, recordedVars>>
AsEvaluated == work.cursor                               \* mutant
Failed == [work.cursor EXCEPT !.status = "FAILED"]
OpenFails ==
  /\ work.stage = "stable"
  /\ Record(Here, Failed)
  /\ work' = [Resting EXCEPT !.stage = "next"]
  /\ UNCHANGED <<leased, document>>

(* put_stream waits for the lease of the content, and creates what is missing.*)
PutStream ==
  /\ work.stage = "read" /\ work.content \notin leased
  /\ leased' = leased \cup {work.content} /\ stored' = stored \cup {work.content}
  /\ work' = [work EXCEPT !.stage = "staged"]
  /\ UNCHANGED <<directoryVars, todo, cursor, document>>

(* The row is inserted, and the lease given back, before the commit.          *)
LookUp ==
  /\ work.stage = "staged"
  /\ IF document[work.content] = "committed"
     THEN /\ work' = [work EXCEPT !.stage = "finalized"]
          /\ leased' = leased \ {work.content} /\ UNCHANGED document
     ELSE /\ document' = [document EXCEPT ![work.content] = "open"]
          /\ work' = [work EXCEPT !.stage = "flushed"] /\ UNCHANGED leased
  /\ UNCHANGED <<directoryVars, todo, cursor, stored>>
FinalizeStored ==
  /\ work.stage = "flushed"
  /\ leased' = leased \ {work.content}
  /\ work' = [work EXCEPT !.stage = "finalized"]
  /\ UNCHANGED <<directoryVars, todo, cursor, stored, document>>

PathAsDocument == [work.cursor EXCEPT !.document = Here]   \* mutant
Ingested == [work.cursor EXCEPT !.document = work.content]
CommitEntry ==
  /\ work.stage = "finalized"
  /\ document' = [document EXCEPT ![work.content] = "committed"]
  /\ Record(Here, Ingested)
  /\ work' = [Resting EXCEPT !.stage = "next"]
  /\ UNCHANGED leased

(* The storage, the database or the process fails: the transaction is rolled  *)
(* back and the run is over; only the end of the process frees a lease.       *)
RolledBack == [c \in Contents |-> IF document[c] = "open" THEN None ELSE document[c]]
Abort(after) ==
  /\ work.stage \in {"read", "staged", "flushed", "finalized"}
  /\ document' = RolledBack /\ leased' = after
  /\ work' = Resting /\ todo' = {}
  /\ UNCHANGED <<directoryVars, cursor, stored>>
RunRaises == Abort(leased)
ProcessEnds == Abort({})

(* An upload of the same bytes: it holds their lease until it has committed,  *)
(* waits for a row that is not committed yet, and removes what it created      *)
(* when it fails.                                                            *)
Upload(c) ==
  /\ c \notin leased /\ document[c] # "open"
  /\ stored' = stored \cup {c} /\ document' = [document EXCEPT ![c] = "committed"]
  /\ UNCHANGED <<directoryVars, cursor, todo, work, leased>>

NextIngest ==
  \/ \E p \in Paths : RemoveFile(p) \/ \E c \in Contents : WriteFile(p, c)
  \/ TickIngest
  \/ ListEntries \/ RunEnds \/ Skip \/ Vanished \/ NotYetStable \/ IsStable \/ OpenEntry
  \/ OpenFails \/ PutStream \/ LookUp \/ FinalizeStored \/ CommitEntry
  \/ RunRaises \/ ProcessEnds
  \/ \E c \in Contents : Upload(c)

IngestSpec == InitIngest /\ [][NextIngest]_ingestVars

-----------------------------------------------------------------------------
(* What a cursor calls ingested is a committed document whose bytes are       *)
(* stored, whenever a run died and whatever was uploaded meanwhile.          *)
IngestedIsStored ==
  /\ \A p \in Paths : Known(p) =>
       cursor[p].document # None /\ document[cursor[p].document] = "committed"
  /\ \A c \in Contents : document[c] # None => c \in stored

(* The file lay as it was for the quiet period before a run took it, and a    *)
(* run skips as known only what it has ingested: a write between the look at  *)
(* the file and the reading of it is found by the next run.                   *)
TakenWhenQuiet ==
  \A p \in Paths : Known(p) =>
    /\ cursor[p].stamp.at <= cursor[p].first /\ cursor[p].first + Quiet <= cursor[p].last
    /\ SameMetadata(p) => cursor[p].document = file[p].content

(* What was ingested is what lay there: a file nobody was writing, with its    *)
(* document committed and its bytes stored.                                   *)
IngestedAsFound == IngestedIsStored /\ TakenWhenQuiet
=============================================================================
