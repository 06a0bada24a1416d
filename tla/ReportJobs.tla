----------------------------- MODULE ReportJobs -----------------------------
(***************************************************************************)
(* POST /reports: create_report_job and InProcessReportRunner of             *)
(* hyc_api/services/reports.py over the reports root of                      *)
(* HashAddressedStorage (storage.py).                                        *)
(*                                                                         *)
(* A request is one transaction on a thread of its process: it reserves its  *)
(* key, makes a job, renders the report, stores the bytes under the file     *)
(* lock of their stripe, adds the artifact and commits.  The bytes depend on *)
(* the time of the request, so any digest may come out.                      *)
(***************************************************************************)
EXTENDS Naturals, FiniteSets

CONSTANTS
  Calls, Processes, ProcessOf,    \* requests, server processes, who serves which
  Keys, Reports,                  \* idempotency keys; a kind and its parameters
  Digests, Stripes, StripeOf,     \* digests of workbooks, and their lock files
  None

Over == {"ended", "crashed"}
Stages == {"idle", "lookup", "reserving", "reserved", "storing", "leased", "executed"} \cup Over
Answers == {"none", "accepted", "refused"}

VARIABLES
  objects,    \* digests stored in the reports root
  lease,      \* stripe -> the call whose open file has its lock
  record,     \* key -> its reservation, committed or not
  jobs,       \* committed jobs: their call, state and artifact
  call

vars == <<objects, lease, record, jobs, call>>

TypeOK ==
  /\ objects \subseteq Digests
  /\ lease \in [Stripes -> Calls \cup {None}]
  /\ record \in [Keys -> [by : Calls, report : Reports, committed : BOOLEAN] \cup {None}]
  /\ jobs \subseteq [by : Calls, state : {"SUCCEEDED", "FAILED"}, artifact : Digests \cup {None}]
  /\ call \in [Calls -> [stage : Stages, key : Keys \cup {None}, report : Reports \cup {None},
                         digest : Digests \cup {None}, answer : Answers]]

-----------------------------------------------------------------------------
At(c, stage) == call[c].stage = stage
RecordOf(c) == record[call[c].key]
Goto(c, stage) == call' = [call EXCEPT ![c].stage = stage]
End(c, answer) == call' = [call EXCEPT ![c].stage = "ended", ![c].answer = answer]

RecordsWithout(cs) ==
  [k \in Keys |-> IF record[k] # None /\ record[k].by \in cs /\ ~record[k].committed
                  THEN None ELSE record[k]]

Init ==
  /\ objects = {} /\ jobs = {}
  /\ lease = [s \in Stripes |-> None]
  /\ record = [k \in Keys |-> None]
  /\ call = [c \in Calls |-> [stage |-> "idle", key |-> None, report |-> None,
                              digest |-> None, answer |-> "none"]]

Send(c, k, r) ==
  /\ At(c, "idle")
  /\ call' = [call EXCEPT ![c].stage = "lookup", ![c].key = k, ![c].report = r]
  /\ UNCHANGED <<objects, lease, record, jobs>>

Lookup(c) ==
  /\ At(c, "lookup")
  /\ IF RecordOf(c) # None /\ RecordOf(c).committed
     THEN End(c, IF RecordOf(c).report = call[c].report THEN "accepted" ELSE "refused")
     ELSE Goto(c, "reserving")
  /\ UNCHANGED <<objects, lease, record, jobs>>

Reserve(c) ==
  /\ At(c, "reserving")
  /\ \/ /\ RecordOf(c) = None
        /\ record' = [record EXCEPT ![call[c].key] =
             [by |-> c, report |-> call[c].report, committed |-> FALSE]]
        /\ Goto(c, "reserved")
     \/ /\ RecordOf(c) # None /\ RecordOf(c).committed     \* refused, and to be sent again
        /\ End(c, "refused")
        /\ UNCHANGED record
  /\ UNCHANGED <<objects, lease, jobs>>

(* The job is RUNNING; its sources are there or not.                        *)
Unavailable(c) ==
  /\ At(c, "reserved")
  /\ Goto(c, "executed")
  /\ UNCHANGED <<objects, lease, record, jobs>>

Render(c, d) ==
  /\ At(c, "reserved")
  /\ call' = [call EXCEPT ![c].stage = "storing", ![c].digest = d]
  /\ UNCHANGED <<objects, lease, record, jobs>>

TakeLease(c) ==
  /\ At(c, "storing") /\ lease[StripeOf[call[c].digest]] = None
  /\ lease' = [lease EXCEPT ![StripeOf[call[c].digest]] = c]
  /\ Goto(c, "leased")
  /\ UNCHANGED <<objects, record, jobs>>

(* put_stream returns the object with its lease; run keeps the digest.      *)
Store(c) ==
  /\ At(c, "leased")
  /\ objects' = objects \cup {call[c].digest}
  /\ Goto(c, "executed")
  /\ UNCHANGED <<lease, record, jobs>>

Commit(c) ==
  /\ At(c, "executed")
  /\ record' = [record EXCEPT ![call[c].key].committed = TRUE]
  /\ jobs' = jobs \cup {[by |-> c, artifact |-> call[c].digest,
                         state |-> IF call[c].digest = None THEN "FAILED" ELSE "SUCCEEDED"]}
  /\ End(c, "accepted")
  /\ UNCHANGED <<objects, lease>>

(* put_stream gives its lease back when it fails; nothing does afterwards.  *)
Fails(c) ==
  /\ call[c].stage \in {"reserved", "storing", "leased", "executed"}
  /\ record' = RecordsWithout({c})
  /\ lease' = [s \in Stripes |-> IF lease[s] = c /\ At(c, "leased") THEN None ELSE lease[s]]
  /\ End(c, "refused")
  /\ UNCHANGED <<objects, jobs>>

Stop(p) ==
  LET dead == {c \in Calls : ProcessOf[c] = p /\ ~At(c, "idle")}
  IN  /\ \E c \in dead : call[c].stage \notin Over \/ c \in {lease[s] : s \in Stripes}
      /\ call' = [c \in Calls |-> IF c \in dead /\ call[c].stage \notin Over
                                  THEN [call[c] EXCEPT !.stage = "crashed"] ELSE call[c]]
      /\ record' = RecordsWithout(dead)
      /\ lease' = [s \in Stripes |-> IF lease[s] \in dead THEN None ELSE lease[s]]
      /\ UNCHANGED <<objects, jobs>>

-----------------------------------------------------------------------------
Step(c) == Lookup(c) \/ Reserve(c) \/ Unavailable(c) \/ (\E d \in Digests : Render(c, d))
           \/ TakeLease(c) \/ Store(c) \/ Commit(c)

Next ==
  \/ \E c \in Calls, k \in Keys, r \in Reports : Send(c, k, r)
  \/ \E c \in Calls : Step(c) \/ Fails(c)
  \/ \E p \in Processes : Stop(p)

Spec == Init /\ [][Next]_vars

(* Every thread runs on; nothing makes a process stop.                      *)
FairSpec == Spec /\ \A c \in Calls : WF_vars(Step(c))

-----------------------------------------------------------------------------
(* A report can be made again under another key: every request comes to an  *)
(* end, and none waits for ever for what an earlier one left locked          *)
(* (InProcessReportRunner.run).                                              *)
EveryReportEnds ==
  \A c \in Calls : At(c, "lookup") ~> call[c].stage \in Over
=============================================================================
