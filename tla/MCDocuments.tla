----------------------------- MODULE MCDocuments -----------------------------
(* Small instances of DocumentUpload, ExtractionReview and GoldenScoring: how  *)
(* documents arrive, how one is read and reviewed, and how readings are        *)
(* measured.  A behaviour is one of one of the three, the others resting as     *)
(* they began.                                                                *)
EXTENDS DocumentUpload, ExtractionReview, MCScoring

CONSTANTS p1, p2, stripe, lot1, lot2

VARIABLE desk      \* the component whose behaviour this is

(* Three uploads, the first and the last in one process; a document and a     *)
(* content of no known type, whose digests share a stripe of the lock files.  *)
MCProcessOf == [u \in Uploads |-> IF u = 2 THEN p2 ELSE p1]
MCStripeOf == [d \in Digests |-> stripe]

(* A local reading of two lines and a fixture with a LOT number and an item;   *)
(* two versions, of which one has both items.                                 *)
MCCandidates == {[provider |-> "local-paddleocr", keys |-> {"o1", "o2"}],
                 [provider |-> "fixture", keys |-> {"lot", "p"}]}
MCCodes(v) == IF v = "s1" THEN {"p", "m"} ELSE {"p"}
Field(disposition, to, decimal) ==
  [disposition |-> disposition, target |-> to, decimal |-> decimal, conflicting |-> FALSE]
Mapped == "o1" :> Field("MAP", "m", TRUE) @@ "o2" :> Field("UNMAPPED", None, FALSE)
MappedTwice == "o1" :> Field("MAP", "m", TRUE) @@ "o2" :> Field("MAP", "m", TRUE)
FixtureFields == "lot" :> Field("UNMAPPED", None, FALSE) @@ "p" :> Field("UNMAPPED", None, TRUE)
Request(e, a, v, f) == [run |-> e, version |-> 2, allocation |-> a, spec |-> v, fields |-> f]
MCRequests ==
  UNION {{Request(e, a, "s1", Mapped), Request(e, a, "s2", Mapped),
          Request(e, a, "s1", FixtureFields), Request(e, lot1, "s1", MappedTwice)} :
           e \in Extractions, a \in {lot1, lot2}}

InitDesks ==
  /\ desk \in {"uploads", "readings", "scoring"}
  /\ Init /\ InitReading /\ InitScoring
  /\ desk # "readings" => spec = "s1"

NextDesks ==
  /\ UNCHANGED desk
  /\ \/ desk = "uploads" /\ Next /\ UNCHANGED <<readingVars, scoringVars>>
     \/ desk = "readings" /\ NextReading /\ UNCHANGED <<vars, scoringVars>>
     \/ desk = "scoring" /\ NextScoring /\ UNCHANGED <<vars, readingVars>>

DesksSpec ==
  InitDesks /\ [][NextDesks]_<<vars, readingVars, scoringVars, desk>>
    /\ FairUploads /\ FairReading
=============================================================================
