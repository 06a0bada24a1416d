# Verification of the incoming-inspection system

TLA+ models, TLC runs and TLAPS proofs for the incoming-inspection system of a
chemical plant. This file says what the system is made of, which module models
which part of it and how, what each run and each theorem shows, and what is
left out. Paths are relative to `src/backend/src` unless they start with `src/`;
`p3.py` is `hyc_api/services/p3.py`, "migration 0002" is
`src/backend/alembic/versions/20260731_0002_p2_domain_invariants.py`.

To check: `tlc -config <run>.cfg <module>` for a run of the tables of section 3,
`tlapm <module>.tla` for `FiniteSums` and for each of the seven `*Proofs` modules
of section 4.

## 1. The system

A delivery of a material arrives. An inspector enters it (**intake**): a receipt,
an allocation of part of it to a material **LOT**, possibly a new one. The
supplier's certificate is uploaded (**document**), its values are extracted
locally and reviewed by a person. From the confirmed values, an **inspection
case** is created under the **specification version** in force; internal test
results are added; a deterministic **judgment** engine says what the results
amount to; the inspector submits the case; a LEAD who is not the submitter
returns it or makes the final decision, which is frozen in a snapshot with
approval, audit and outbox rows. A finalized case is continued by a correction
(a revision) or by a retest (a round). Deviations become **nonconformances**;
**reports** are rendered from all of it.

Everything is a FastAPI process over PostgreSQL. A request is one transaction in
READ COMMITTED, unless said otherwise. There is no in-memory state between
requests except file descriptors. Processes share the database, and a directory
of content-addressed objects with `flock`ed lock files.

### Components

| Component | State | Operations | Interacts with |
|---|---|---|---|
| Inspection cases and approvals (`p3.py`, `routes/inspections.py`, `ApprovalRepository`) | `inspection_cases` with `lock_version`; supplier and internal results; snapshot, approval, audit, outbox | create, read, put results, submit, return, approve, revise, retest | judgment, specification versions, LOT status; optimistic versions with clients; row locks and a deferred trigger with PostgreSQL |
| Judgment (`hyc_domain/judgment.py`) | none | aggregate samples, compare, combine sources, combine items | called by every evaluation of a case |
| Workflow tables (`hyc_domain/workflow.py`) | none | guard a transition | called by finalization |
| Specification lifecycle (`routes/specs.py`, triggers of migration 0002) | `spec_profiles`, `spec_versions`: scope, status, window, versions | create, edit, reschedule, activate, retire, rescope | row locks, an advisory lock per scope; read by every evaluation, unlocked |
| LOT identity (`hyc_data/repositories.py`, intake in `p3.py`) | `material_lots`: number, status, evidence, `merged_into_id`, version | create, re-enter, promote, merge, allocate | read by finalization and by a trigger on allocations |
| Intake and idempotency (`p3.py` 81-282) | `idempotency_keys`, `material_lots`, `inbound_receipts`, `receipt_lot_allocations` | create an intake once per key | four unique constraints |
| Document upload and storage (`routes/documents.py`, `storage.py`, `document_locks.py`) | objects, temporary and lock files; `documents` | stage, link, own, remove, finalize | file locks, advisory locks, a unique checksum |
| Extraction and review (`routes/documents.py`, `p3.py` 285-523, `extraction.py`, migration 0004) | extraction runs with their fields, sections and their links | extract, confirm a review | the row of the document, the version in force, three triggers |
| OCR evaluation (`hyc_evaluation`) | none: a run over a golden dataset | build candidate runs, score, derive and publish a report | only its own artifacts |
| Report jobs (`services/reports.py`) | `report_jobs`, `report_artifacts`, objects | create and run a job once per key | idempotency, storage |
| Nonconformances (`routes/nonconformances.py`, migrations 0005 and 0009, `NonconformanceWorkspace.tsx`) | nonconformances, actions, approvals, attachments; what a screen shows | create, edit, approve, reject, attach, log an action | documents; versions with screens that load and save |
| Idempotency leases (`IdempotencyRepository`, `hyc_domain/idempotency.py`) | `idempotency_keys` with a lease | reserve (find, insert or take over), complete, mark as retryable | a SELECT without a lock before an UPDATE without a version; copies that outlive their lease; called by tests only |
| Ingest pipeline (`hyc_ingest`, migration 0010) | cursors, documents, objects | list, stabilize, open, store, commit | a directory others write to; the storage of uploads; nothing starts it yet |
| Master data and its import (`routes/masters.py`, `services/master_import.py`, migration 0011) | suppliers, materials, models; batches and their rows | create, edit; preview, apply, revert | versions per row; the service has no route yet |
| Aliases of test items (`routes/aliases.py`, migration 0006) | aliases by scope | create, edit, delete, look up | eight partial unique indexes; master records that are withdrawn |
| Traceability (`hyc_domain/traceability.py`, `traceability_source.py`, migration 0012) | allocations, production LOTs, consumptions | read the graph, walk it | off by default |
| Statistics (`reports/statistics.py`, `routes/statistics.py`) | none | select, look up, add up | decided cases, names, nonconformances |
| Workbench of the frontend (`lib/inspection/workflow.ts`) | the inspection on the screen | a reducer with nine kinds of edits | fixtures; no server yet |
| Snapshots, worker, authentication, OCR engine, scripts, rest of the frontend | none that matters here | | |

`PROJECT.json` lists all of them with their sources and what is modelled.

### What is hard in it

- **Optimistic versions over rows that the version does not count.** `If-Match`
  compares the `lock_version` of the case, while results are rows of their own.
  SQLAlchemy moves the version only if a flush changes the row of the case, so
  that replacing results protects nobody unless `updated_at` is assigned as well.
- **Reads that are not atomic.** GET reads the version and the results in
  different statements, so in different READ COMMITTED snapshots.
- **Finalization depends on rows it does not lock.** Specification version and
  LOT are read by `finalize`, again by a deferred trigger, and may change before
  the commit.
- **Answers computed after the commit**, in a second transaction that is then
  rolled back (clones, `put_internal_results`).
- **Retries that meet their original.** The same key may arrive while its first
  arrival runs, after it committed, or after it died.
- **Look-then-insert** on four tables, in one transaction, with waits on
  uncommitted rows.
- **Two worlds that cannot commit together**: an object in the storage and the
  row that owns it; and a commit whose outcome is never heard of.
- **File locks held by a process that must not block on itself.**
- **Rows that share nothing but a rule.** Two versions of different profiles, two
  aliases of one scope with open references, two runs of one document: only an
  advisory lock, a partial unique index or a trigger relates them.
- **Locks taken in two orders.** An extraction locks the document and inserts a
  run; a review locks the runs and meets the document in a trigger.
- **Screens.** What a client saves was loaded some time ago, and lists may arrive
  in another order than they were asked for.
- **Leases that run out** while their holder works on, and are reserved by several
  workers between whose statements the row changes.
- **Reports and traces that read table after table** while others write.
- **Rounding before comparison**, policies that multiply (5 source policies, 5
  missing policies, 6 sample policies), and values that change their notation on
  the way through a NUMERIC column.

The properties that make each part correct are stated in the module of the part
and listed below with the runs; `PROJECT.json` lists each hazard at its line with
the properties that would catch it.

## 2. Modules

| Module | Models | Kind |
|---|---|---|
| `Judgment` | item and case decisions from decisions of the sources, `judgment.py` | operators |
| `Workflow` | both transition tables and `guard_transition`, `workflow.py` | operators |
| `Sampling` | from numbers to a decision: tokens, aggregation, rounding, comparison, policies | state machine that builds an item sample by sample |
| `QualityDecision` | abstract: evidence is gathered until one decision on it | specification |
| `InspectionCase` | cases, approvals, versions of specifications, lineage | specification; implements `QualityDecision` |
| `InspectionCaseProofs` | theorems about `InspectionCase` | proofs |
| `LotIdentity` | LOTs: `LotRepository`, and the intake's allocation with its trigger | specification |
| `Intake` | `create_intake` statement by statement with its reservation | specification |
| `DocumentUpload` | `upload_document` over files, file locks, advisory locks, the row | specification |
| `ReportJobs` | `create_report_job` and its runner over the storage | specification |
| `NoValue` | the constant `None`, shared by the modules below so that they can be composed | |
| `ExtractionReview` | `extract_document`, `confirm_review`, the guards of migration 0004 | specification |
| `SpecDesk` | `routes/specs.py` lock by lock, with the triggers of migration 0002 | specification |
| `Nonconformance` | nonconformances and the screens they are edited on | specification |
| `Leases` | the lease of an idempotent request | specification |
| `Ingest` | a run of the ingest over a directory that is written to | specification |
| `MasterRecords` | master data and the batches of an import | specification |
| `Aliases` | aliases of test items and their lookup | specification |
| `Traceability` | reading the graph of a LOT, and walking it | specification |
| `Figures` | a statistics report made while cases are decided | specification |
| `Workbench` | the reducer of the browser's workbench | specification |
| `GoldenScoring` | candidate runs, their scoring, the report and its second derivation | operators and a specification that scores case by case |
| `FiniteSums` | least elements, which stand in for induction; sums over finite sets | lemmas |
| `IntakeProofs`, `SpecDeskProofs` | theorems about the module they are named after | proofs |
| `DocumentsProofs` | theorems about `DocumentUpload`, `ExtractionReview`, `GoldenScoring`, and that `MCDocuments` composes them | proofs |
| `LotsProofs` | theorems about `LotIdentity`, `Traceability`, `Figures`, and that `MCLots` composes them | proofs |
| `RecordsProofs` | theorems about `Nonconformance`, `MasterRecords`, `Aliases` | proofs |
| `WorkProofs` | theorems about `Leases`, `Ingest`, `Workbench`, `Sampling`, and that `MCRecords` composes what it composes | proofs |
| `MC*` | instances for TLC: names, functions over them, symmetry, constraints; `MCDocuments`, `MCLots` and `MCRecords` compose several components | |

### Judgment, Workflow, Sampling

`Judgment` starts where the samples of a source have become one decision:
`_combine_sources` with the source policies, the missing policies, and the worst
of the items. `PersistedOverall` adds what `_persisted_inputs` does before: a
supplier row exists only for a reviewed value, so an item without one is
unmapped. A source with a value that cannot be read back is `Unreadable` and
holds its item under every policy. Nothing else makes one source ON_HOLD while
the other is judged: a MANUAL sample policy and a rule that cannot be evaluated
hold both.

`Sampling` models what happens before: values are numbers in units of 1/`Grain`
of the rounding step; `_aggregate` (average, all, minimum, maximum), round half
even to the precision of the item, `_evaluate_rule` with every operator including
invalid rules, then the sources. `Parses` is the way of a value through the NUMERIC
column and back through `DecimalValue.parse`. A step adds a sample or a qualitative token; the
reachable states are all inputs up to the bound, and the invariants are the
checks against reference definitions: `AverageIsNearestEven` describes the
rounded average by distance and parity instead of by computing it,
`OrderIsIrrelevant` quantifies over the orders the unordered SELECT may return,
`ExtremeStandsForAll` says for which operators judging only the extreme sample
equals judging every one, `ConformingSamplesAverageWell` that samples which all
conform never average to a rejection when the limits are on the rounding grid,
`AcceptedOnEvidence` that nothing is accepted without accepted evidence of a
source the policy asks for. `JudgedByItsLimits` is what the operators are
documented to mean, and fails for a zero.

### InspectionCase

State: `cases` (the row, with `version` = `lock_version`), `supplier`,
`internal` (per item, the decision the samples of that source aggregate to),
`archive` (snapshot, approval, audit and outbox rows of one finalization),
`spec` (per version its status and whether its window holds the receipt date),
`lot`, and two parts that are not tables: `view`, the last answer a client has,
and `tx`, a finalization in flight.

Every handler locks the row of its case first (`SELECT ... FOR UPDATE`), so a
handler is one action with a guard that nobody holds that lock (`Unlocked`), with
two exceptions that are the point of the model: a finalization is four actions
(`BeginApproval`, `CheckApproval` for the deferred trigger, `CommitApproval`,
`AbortApproval` for a refusal, a failure, a crash), because it reads rows it does
not lock; and a read is two (`ReadCase`, `ReadResults`).

`Evaluated` is `evaluate_inspection` with the flush rule of SQLAlchemy's
`version_id_col`; `Touched` is the assignment of `updated_at`. `Clone` gives the
client the version that the second, uncommitted evaluation produced.

Abstracted: one allocation, so one LOT and one receipt date; the items are the
same in every version; samples are decisions; reasons are present or absent.
Special acceptance is not reachable from the approval route as the route sends
the candidate of the row as final decision.

### LotIdentity

`lots` (number, status, evidence, target of a merge, version), `seen` (what a
steward looked at), `intake` (an allocation between its lookup and its INSERT).
`CreateLot`, `ReenterLot` with its walk along at most `MaxMergeDepth` merges,
`PromoteProvisional`, `GuardedMerge` follow `LotRepository`; no route calls it
yet, and `Look` stands for the caller that passes `expected_version`. `FindLot`,
`AllocateNewLot`, `AllocateFoundLot` are the route's own path, which bypasses the
repository, with the trigger that refuses a merged LOT.

### Intake

`rows` maps a slot, the unique key under which a stage of `create_intake` looks
for its row, to the row with its inserter and whether it is committed. `call` is
where an arrival of a request is. A statement is a step: a lookup sees committed
rows and its own; an INSERT waits while an uncommitted row has its key
(`Pending`), fails when one was committed since the lookup (`InsertRefused`) and
otherwise inserts. `Crash` may happen at every statement. A retry is another call
with the same key and body; a mistaken one has another body.

### DocumentUpload

An upload receives its body while other handlers of its process run, then runs
without an `await`, so that it is alone in its process until it answered: the
lock file of its stripe (`TakeLease`, blocking), the link (`Link`, which knows
whether it created the object), the advisory lock of the digest (`TakeGuard`),
classification and lookup (`Decide`), `Insert`, `Commit` or `CommitInDoubt`, and
the way out: `RemoveIfCreated` or `Finalize`, then `Release`. `Fails` may strike
at every step before the commit. `Crash` ends a process: the kernel drops its
file locks at once, PostgreSQL notices later (`ConnectionLost`, `Resolve`).

Left out: tampering with the directories (the code checks inode, size and
permissions), and unlinks that fail. The re-entrant thread lock around the file
lock is left out: all handlers run in the one thread of the event loop, where it
excludes nobody; what excludes them is that there is no `await`.

### ReportJobs

The reservation of a key, the job, rendering, storage of the workbook under its
file lock, artifact and commit, on threads of the process. The runner takes a
lease and never gives it back; `lease` therefore outlives its call until the
process dies.

### ExtractionReview

`run` is what is committed, `holder` and `locked` are the row locks of the
document and of its runs, `extraction` and `review` say how far each call is.
An extraction locks the document, then reads for as long as the OCR takes
(`Read`, `ReadingFails`), then inserts its run and commits
(`PersistCandidate`). A review locks the runs that are visible when it starts
(`BeginReview`: a run that is committed later is not locked by it), checks its
request against the run, the allocation and the version selected now
(`CheckReview`), and writes (`ConfirmReview`) what the unique index and the three
triggers let pass; the trigger of a new section waits for the document
(`SectionWaits`). `Deadlock` is PostgreSQL aborting one of two transactions that
wait for each other, `Die` a process that ends. `SelectAnother` changes the version in
force, whoever does it.

### SpecDesk

A call takes its locks in the order of the code: the version, its profile
(`LockRevision`, `LockProfile`, both with the checks made after them), the active
versions of the profile (`LockSibling`), the advisory lock of the scope (in
`WriteSpec`, which is the flush with its triggers), and commits. What a call
wrote is seen by the others at its commit; what it will write is `Written`.
`AbortSpec` resolves a deadlock: an activation that holds its profile waits for a
sibling whose holder waits for the profile; the client gets a server error. An
overlap that the trigger refuses is one too, because it is raised as an exception
and not as an integrity error. Any role may edit specifications.

### Nonconformance

The rows of the record, its approvals and actions, and per clerk what the
workspace shows (`copy`), a list under way (`arriving`) and a typed value
(`edited`). A handler locks the row, compares `If-Match`, writes and commits, so it
is one action. A save sends the shown record with the edits over it; the
workspace sends neither disposition nor cause, description and completion date,
so that PUT clears them. PUT also takes any status from any role, APPROVED
included (section 5). The trigger of migration 0005 refuses every change of an approved record,
and `updated_at`, which every handler writes, makes it bite for attachments too.

### Leases, Ingest

`Leases` follows `IdempotencyRepository.reserve` statement by statement. `record`
is the committed row, `draft` the row as a transaction wrote it and has not
committed (its lock with it), and `call` holds for each worker where its call is
and the copy of the row it was given. The SELECT takes no lock: a worker finds no
row (`FindNothing`), its own running lease (`Rejoin`), or one that ran out or
failed (`FindExpired`). The UPDATE of a takeover (`TakeOver`) is decided on that
copy and applied to the row as it is by then: no owner and no version is compared,
and only the columns that changed in the copy are written (`Flushed`). The INSERT
(`InsertRow`) waits for an uncommitted row and, where one was committed, the row is
read again and returned whoever owns it (`LoseRace`). A transaction commits or is
rolled back (`CommitLease`, `AbortLease`). `complete_idempotency` and
`mark_retryable` (`Completed`, `MarkedRetryable`) change the copy the worker holds;
nothing in the repository writes such a copy back, so that `CompleteRow` and
`FailRow` are external and write it as any flush does.

Two workers may work under one lease at the same time (`LeaseIsOneWorkers`, which
the code violates; section 5). What the code does keep is that they all have the
same request (`OneRequest`), that the row keeps its request and an answer once it
has one, and that a takeover which was decided on a pending copy spares the answer
committed since (`AnswersSurvive`).

`Ingest`: a run has listed its files and takes them in the order of their names;
`todo` are the places of the list it still has to go to, and it works on the first (`work`):
stat and stabilizer (`Evaluated`, `Skip`, `NotYetStable`), open, stage, look up,
finalize, commit. `WriteFile` and `RemoveFile` happen at any time, `Upload` is
another request's upload of the same bytes. `RunRaises` ends a run that fails
outside its handlers: its lease stays until `ProcessEnds`.

### MasterRecords, Aliases

`MasterRecords`: the lists as the sequence of records made, so that a record that
was withdrawn keeps its place and its code; an editor with the record it read; a
batch from preview to application and revert. The trigger of migration 0011
refuses the target that an application writes into a row of its batch, so on
PostgreSQL no batch that has a row to create is ever applied (section 5); the
instance has both databases.

`Aliases`: an alias is an item, a text, a scope (which references are given) and
whether it is deleted. The lookup and its order are operators (`ScopeMatch`,
`Found`, `Before`, `Lookup`). A deleted alias still blocks its scope.

### Traceability, Figures

`Traceability`: rows are added at any time; the three reads of the load are three
steps; the walk is `impact_scope` as written, a queue and a visited list. On rows
that satisfy the foreign keys it equals `trace_forward`.

`Figures`: a report is the query, then one step per case for all its lookups,
then the totals. A snapshot carries the time at which it is inserted and is seen
when it commits. Days are those of Seoul over moments of UTC. Supplier totals are
keyed by the name of the supplier at the lookup.

### Workbench, GoldenScoring

`Workbench`: one action per kind of edit of `reduceInspection`, the blockers of a
submission as named parts of `Complete`, decimals as integers of one scale, with
the code's own test for an exact mean (`FiniteDecimal`).

`GoldenScoring`: an offer is a golden case with its candidates; a step scores
one, and `Publish` derives every metric a second time from the field outcomes, as
the validators of `artifacts.py` do, and refuses a report that differs. The scorer
also raises for an unmapped candidate with a reason of doubt, for handwriting
marks that differ, for a golden mark MISSING_REQUIRED with a predicted value, for
an ignored field that is handwritten, and for an unbound run with unmapped
values. `PlainRunsAreScored` says for which offers there always is a report.

### Composition

`MCDocuments`, `MCLots` and `MCRecords` put several components into one
specification: a variable `desk` says whose behaviour it is, and the variables
of the others rest. The components share no variable (where two meet, as ingest
and upload in the storage, the module has the other's part itself), so their
states add up instead of multiplying.

## 3. Runs

Passing runs. "States" are distinct states.

| Run | Instance | States | Shows |
|---|---|---|---|
| `case_decision` | 1 case; an inspector, a LEAD, and an actor with both roles; one item that both sources must pass, readings ACCEPTED and REJECTED; one version | 726,029 | `DecisionsFollowEvidence` (`SubmittedEvidenceFresh`, `DecisionMatchesEvidence`), `FourEyes`, `ApproverSawEvidence`, `OriginalsLoseNoUpdate`; that the case implements `QualityDecision` (`FinalDecisionStands`) |
| `case_lineage` | 3 cases | 424,558 | `LineageIsAChain` under concurrent corrections and retests |
| `case_spec_change` | 1 case; 3 versions in 2 scopes | 382,098 | `RetiredSpecDecidesNothing` |
| `intake_calls` | 3 calls, 2 keys, 3 bodies | 559,358 | `Idempotent` (`OncePerKey`, `AnswersHold`, `NothingHalfDone`), `CallsSettle` |
| `documents` | 3 uploads on 2 processes, a document and an unsupported content in one stripe; 2 extractions and 2 reviews of one document under 2 versions; a golden dataset of 2 cases | 160,928 | `BytesFollowDocuments` (`DocumentsHaveBytes`, `NothingIsLeft`), `OneDocumentEach`, `EveryUploadEnds`; `OneReadingCounts`, `ReadAgainstNamedSpec`, `ConfirmedReadingStays`, `ReadingsEnd`; `ScoredWhole` (`ScoringTypeOK`, `CandidatesAccounted`, `ReportFollowsCases`), `AcceptedIsMatched`, `PlainRunsAreScored` |
| `specs` | 2 editors, 2 profiles, 2 versions, 2 scopes, 2 windows that do not meet, 2 version numbers | 1,347,260 | `OneSpecInForce`, `BoundScopeStays` |
| `lots` | 3 LOTs, 2 numbers, 2 pieces of evidence, 1 steward, 1 intake; 1 material, 2 products, 2 deliveries; 2 cases, 1 supplier, 2 names, days of 2 moments | 226,909 | `LotsTypeOK`; `ChainsEnd` (a chain of merges reaches a LOT that is not merged), `IdentitiesStand` (`NumbersStay`, `MergedLotsRest`), `StewardsSeeEvidence`; `TraceIsExact` (`ImpactIsDownstream`, `NoLotTwice`); `DecisionsCountOnce` (`FiguresAddUp`, `CountedOnOneDay`), `PastDecisionsStand` |
| `records` | 1 nonconformance, a LEAD and an inspector; 1 editor of master data, 2 batches, both databases; 2 aliases of 1 text, with and without a supplier and a model; 1 file with 2 contents; the workbench; 2 workers; and the samples: 15 rules with limits on and off the rounding grid, 25 pairs of policies, up to 3 samples out of 4 values, one of which cannot be read back | 781,307 | `RecordsTypeOK`; `ChangesWereRead` (`NothingUnseenIsLost`, `EditsWhatWasRead`, `AliasChangesWereRead`), `ApprovedRecordStays`; `ImportsAreWhole` (`AppliedWhole`, `RevertedWhole`); `ScopesStayApart` (`OneAliasPerScope`, `LookupKeepsScope`); `IngestedAsFound` (`IngestedIsStored`, `TakenWhenQuiet`); `CompleteWhenOffered` (`ReviewedOnCompleteEvidence`, `OfferedWhenComplete`), `FrozenDecisionFollows`; `OneRequest`, `AnswersSurvive`; `AggregateStandsForSamples` (the numeric properties of `Sampling`), `AcceptedOnEvidence` |

A name in parentheses is a conjunct of the property before it; each is defined
and explained in the module of its component. `LotsTypeOK` and `RecordsTypeOK`
are the type invariants of the components a run composes. The type invariants
that no run names are proved (section 4).

Runs that find a disagreement; each has an entry under "findings".

| Run | Property | What TLC finds |
|---|---|---|
| `case_lineage_answer` | `NoLostUpdate` | the answer to a retest carries version 2 of a row that has version 1; another inspector's results move the row to 2, and the first inspector may replace them without having seen them |
| `samples_zero` | `JudgedByItsLimits` | a sample of zero under an upper limit is held |
| `intake_same_lot` | `ConcurrentIntakesMeet` | two intakes that create the same LOT at once: one fails with a server error |
| `report_again` | `EveryReportEnds` | the second report whose workbook falls into a stripe of its process waits for ever |

### Bounds

- `MaxVersion` (`InspectionCase`): no request starts from a higher
  `lock_version`; the rows go beyond it, as an action may move a version by 2. A
  case is created in version 1, results move it by 2, a submission by 1 or 2, a
  return or an approval by 1. 8 in `case_decision` has room for results, a
  submission, a return, new results and a second submission with its approval.
  3 in `case_lineage` is enough to finalize a case whose supplier results
  decide it, and so to continue it; 4 in `case_spec_change` adds results.
- One case in `case_decision`: cases do not meet except in a lineage, which is
  `case_lineage`'s question; there 3 cases allow a correction of a retest, and
  two continuations of one case that collide. In both a constraint keeps the
  version and the LOT as they first were; `case_spec_change` keeps the LOT only.
- Readings are what a question tells apart: ACCEPTED and REJECTED where evidence
  decides, ACCEPTED alone where the lineage is the question, and the unreadable
  one where a result has to leave a case as it was (`case_lineage_answer`).
- `MaxMergeDepth` = 3 is the code's bound of 16 made small; with 3 LOTs no chain
  is longer, so the bound is never what stops a walk. `MaxVersion` = 4 bounds the
  changes of one LOT.
- `MaxSamples` = 3: enough for an average with a tie and for an order.
  Values are in halves of the rounding step: one below zero, one on a limit of the
  grid and one on a limit off it; 0 is the one that does not parse (`Legible` = 1). The constraint separates the numeric cases (one source, all rules) from
  the policies (all policies, one sample of each source).
- 3 calls: an original, its retry, and a stranger or a second retry.
- 3 uploads: two in the same process, one in another.
- 2 extractions and 2 reviews of one document: two runs that both want to be the
  confirmed one, a review while an extraction runs, and the deadlock of the two.
  The versions differ in their items, so that a request may be about items the
  version in force does not have. `Offers` are golden fields with no candidate,
  one, and two, with marks and normal forms that agree and differ.
- `MaxSpecVersion` = 2 and `MaxProfileVersion` = 1 bound the version from which
  a call starts: a specification version is created, edited or activated, and
  retired or edited again. Two editors, as every lock has a holder and one who
  waits.
- `MaxRecordVersion` = 3: a nonconformance is created, changed by one clerk and
  saved by another. `MaxMasters` = 2, `MaxMasterVersion` = 3: a record that is
  withdrawn and made again, and one changed after an import wrote it.
  `MaxAliases` = 2, `MaxAliasVersion` = 3: two aliases that collide, or answer
  the same lookup.
- `Quiet` = 1, `MaxClock` = 2, `MaxWrites` = 3: a file is written, seen, written
  again, and left alone long enough to be taken.
- `LeaseFor` = 1, `MaxMoment` = 3: a lease runs out, is taken over, and twice
  runs out again. Two workers, as every race of statements is between two; two requests
  and two answers, to tell them apart. Every worker names itself: one without a name
  is refused nothing.
- `LastMoment` = 3 with days of 2 moments shifted by 1 (`DayLength`, `Shift`):
  two days of which the first begins in the middle of a day of UTC.
- Symmetry is used where no temporal property is checked and the names are
  interchangeable. `intake_calls` gives the first call the first key instead
  (`FirstKey`): the keys are alike and `Send` is not fair, so that no behaviour is
  lost but for renaming.

Deadlock is not checked (`CHECK_DEADLOCK FALSE`): a case may be decided and all
versions retired, all calls may have ended. Where waiting on one another is the
question, `CallsSettle` and `EveryUploadEnds` ask it.

### Fairness

Weak fairness of the steps of each running handler (`WF(Step(c))` of `Intake`,
`WF(Step(u))` of `DocumentUpload`, and the like in `ReportJobs`): a server
process runs the handlers it has, PostgreSQL serves a statement that waits for
nobody. `MCDocuments` assumes `FairUploads` and `FairReading`: the steps of a
running upload, of a running extraction or review, and the end of a deadlock,
which PostgreSQL detects (`ReadingsEnd`). `DocumentUpload` adds that PostgreSQL notices a dead connection
(`ConnectionLost`) and settles a transaction (`Resolve`). Nothing is assumed of
clients: `Send`, `Receive` and `BodyComplete` are not fair, and a client may
never send its body. Weak fairness suffices since what a handler waits for is
disabled only by another handler that holds it. `CallsSettle` speaks of finitely
many calls: the last of them ends. In `Intake` the deadlock detector is left out;
`CallsSettle` shows that the order in which `create_intake` takes its rows leaves
it nothing to do.

### Mutants

Each property of a passing run has a mutant, and each conjunct of a composed one
has its own: a definition of the model is
replaced by one that a plausible bug would give (marked `\* mutant` where it is
defined), and TLC then finds the property violated. Some of the bugs: the lock of
a finalization not taken, `updated_at` not touched, a review that survives new
results, `If-Match` not compared, a unique constraint missing, a lookup that
ignores the hash of the request, bytes removed when the commit's outcome is
unknown, a lease that is kept.

## 4. Proofs

All proofs are for arbitrary constants under the named assumptions of the
modules, which TLC evaluates in the runs. They say

- that sentinels are not identities, rows or comparisons: `CaseAssumption`,
  `LotAssumption`, `DocumentAssumption`, `IntakeAssumption`, `ReadingAssumption`,
  `SpecAssumption`, `LeaseAssumption`, `RecordAssumption`, `AliasAssumption`,
  `MasterAssumption`, and of the rows `IntakeRowAssumption`,
  `RecordRowAssumption`, `LeaseRowAssumption`, `MasterBatchAssumption`,
  `StampAssumption`, `DecidedAssumption`;
- and that constants have their types: bounds are naturals, the entries of a
  directory are different (`IngestAssumption`), limits and samples are numbers
  (`SamplingAssumption`, `WorkbenchAssumption`), there are finitely many products
  and approvals (`TraceAssumption`, `FigureAssumption`), golden datasets are
  sequences of offers whose kinds and reasons are those of the contract
  (`ScoringAssumption`).

Each proof has the same frame: an inductive invariant of named parts, one lemma
per action that it keeps them, and theorems that follow from the invariant. What
follows says why each invariant is stronger than what it is for.

**`FiniteSums`.** tlapm takes a recursive function or a fold as the CHOOSE that
defines it and has no induction over an operator. What replaces it is that a set
of naturals that is not empty has a least element (`LeastNatural`), and that of some
subsets of a finite set one stops being among them whichever member it loses
(`LeastSubset`): a definition by
recursion is shown to exist and to be unique, and a statement to hold, by looking
at the least number or subset for which it does not. From this, that the sum
`FoldFunction` computes exists and does not depend on the order (`SumInTurn`,
`OrderOfSums`), is bounded, and that sums of sums are sums (`SumsOfSums`).

**`InspectionCaseProofs`.** `DecisionIsSafe`: `Spec => []DecisionInvariant`.
The properties alone are not inductive: that the decision matches the stored
evidence at the commit needs that the evidence did not move since the
finalization read it. `ApprovalInFlight` says so for a finalization in flight:
its case is in review, its evaluation and what the LEAD was shown are still what
is stored, and no other LEAD holds the case. That the LEAD was shown the results
it decides on needs `AnswersAge`: an answer is older than the row, or of its
version and then has its results (if both halves were read), or is a clone's
answer that runs one evaluation ahead of a row that is not in review. The last
disjunct is the finding `case_lineage_answer`. The proof shows how far it
reaches: not to an approval (`ApproversSawTheEvidence`), as such an answer is
outrun by the time the case is in review, and not to a case that continues no
other (`OriginalsKeepUpdates`); what is left is an update of a retest or a
correction, and there TLC finds the lost update. `TypeCorrect`,
`DecisionsMatchEvidence`, `DecisionsRestOnEvidence`, `ApproversAreNotSubmitters`, `ReviewsAreFresh` follow
from the same invariant.
`DecisionsStand`: `Spec => FinalDecisionStands`, that the cases implement
`QualityDecision`; each action gathers evidence of one undecided case
(`GatherStep`), decides one (`CommitApproval`), or stutters (`StutterStep`).

`LineagesAreChains` rests on what no step moves: a case keeps its place and its
parent, and a finalized case stays finalized. A correction or a retest takes a free
place behind a finalized case. `Rooted`, that the first case of a lineage
exists as long as any of it does, is what keeps a new case out of the lineages
that are there.
`RetiredVersionsDecideNothing` is a property of behaviours: from a state in which
the version of an open case is retired and nobody holds the case, it is `Dormant`
for ever, because a version is retired for good, the case keeps its version, and
a finalization does not begin on it. The proof uses the decision invariant in
each step.

**`LotsProofs`.** Identity: `IdentityIsInvariant`, that is types, unique
numbers, and `SightsAge`: what a steward saw is not newer
than the LOT, and if of the same version shows its evidence. The proof goes through
one lemma, `StepShape`: every step inserts one LOT with a free number or moves one
LOT that is not merged to a later version. From it `NumbersNameForGood`,
`MergedForGood`, `IdentitiesAreForGood`, `DecidedOnWhatWasSeen`, `IdentityTypes`.
`MergedChainsEnd`: the chain from a LOT is a recursion over the table, so the
invariant (`ChainInvariant`) speaks of paths instead: from every LOT a path
without a circle leads to a LOT that is not merged, and to one with a number if
there is any step. A merge appends one reference to the paths that end at its
source, and closes no circle because its target is canonical and has no path
onwards; a path without a circle is no longer than there are LOTs, and the
recursion follows it.

Traces: `TracesAreSound` says what the three reads of a load that is not atomic
have in common: what was read is still there (`GraphIsOld`), what was downstream
before the load began has been read or will be (`BeforeIsRead`); and what the walk
keeps: the queue and the visited list hold LOTs that are reached and none twice,
and what was visited has its followers in one of the two (`WalkIsSound`). At the
end the visited LOTs are closed under consumption, and `TracesAreExact` follows
because the downstream LOTs are the least such set, circles included.

Figures: `FiguresAreSound` splits a report into what it still has to look up and
the rows it has; of a period that was over when the query ran, the two together
are all decided cases of the period (`ReportIsSound`), whatever is decided
meanwhile, since a decision is stamped with the time of its insert; what
was published of such a period is its tally (`PublishedIsSound`). `PastIsSettled`
follows, and `DecisionsAreCountedOnce` with the sums of `FiniteSums`: breakdowns
by verdict, month and supplier partition the population, and days of Seoul
partition the moments.

`LotDesksAreTheirComponents`: a behaviour of `MCLots` is one of each component,
so that the theorems hold of what the run explores; `LotsTyped` is its
`LotsTypeOK`.

**`DocumentsProofs`.** Uploads: `UploadsAreSafe`, in
parts that need one another: a handler past `TakeLease` holds the file lock of
its stripe (`Excludes`); one that has inserted is the inserter of the open row
(`OwnsItsRow`); one that created the object and has not inserted knows that
there is no row (`OwnsNothing`), because whoever has the row of a digest found
or made its object under the same stripe; an object without a committed row has
an upload that answers for it (`Accounted`). `DocumentsHaveBytes` is inductive
only with them: the step to exclude is a cleanup that removes bytes some other
upload's row already owns. `DocumentsKeepBytes`, `OneDocumentForEach`,
`NothingIsLeftBehind`, `BytesAndDocuments`, `UploadTypes` follow.

Reviews: `ReadingsAgree`: `ReadingInvariant` adds to the
types that a run is there once its extraction ended (`InsertedOnce`), that a review
that asked or checked is about a run that is there (`AskedReviews`), what the
check of a local reading found (`CheckedReviews`), which holds until the review
writes because a run keeps its provider and the keys of its fields, and that a
confirmed run tells what its review made of it (`ConfirmedRuns`). `OneReading` rests on the unique index and not on the
locks, since a run committed after a review began is not locked by it.
`ReadAgainstItsSpec`, `ConfirmedReadingIsFinal` and `ReadingTypes` follow.

Scoring: `CasesAreScored` says that what is kept is the scorer's outcome of a
run that passed the checks, which makes `AcceptedRunsMatch` a statement about
one case: no reason against it means that each golden field has its one
candidate, right in kind, normal form and page. `ScoringLosesNothing` gives each
candidate its one outcome (mapped by a field, duplicate, or unmapped) and
compares totals kept along the way with sums over the outcomes.
`PlainRunsAreKept` is the one with most behind it: the models of the report
derive every count a second time, so that a run is kept only if both ways agree
for every counter. `OutcomeCounts` ties the outcome of a field to the counters
the scorer moves for it; fields and their outcomes are counted alike because
they correspond one to one; and rows that belong to no field are counted by
finite sets. `PlainRun` is the premise of `PlainRunsAreScored`, in the form the
lemmas use: the run meets none of the conditions that section 2 lists.

`DocumentDesksAreTheirComponents`: a behaviour of `MCDocuments`, with its
fairness, is one of each of its components.

**`IntakeProofs`.** `IntakesAgree`: `Spec => []IntakeInvariant`. That a key has
one effect follows from who inserted what (`Origins`: a row that is not committed
belongs to a running call past its stage) and from what a call has done at each
stage (`Passages`); that answers hold needs that an answer is the one in the
record (`Answers`), and that there is no half of an intake needs that the rows
of a record stand together (`Audits`). `OneEffectPerKey`, `AnswersAreKept`,
`AllOrNothing`, `IntakesAreIdempotent` follow. The step to exclude is a call that inserts
under a key whose row another call has committed since the lookup; the unique
key refuses it, and the invariant says that its other rows go with it.

**`SpecDeskProofs`.** `SpecsAgree`: to exclude at a commit is that another
version of the scope came into force since this one was checked. `SoundCalls`
says what a call that is about to commit holds (`Ready`): the lock of its scope,
and that nothing in force overlaps what it wrote. Two calls about to commit
active versions of one scope would hold one lock (`Exclusive`); a profile
cannot be rescoped meanwhile, because a version of it exists (`Rooted`) or its
creator holds it (`Creators`). `OneInForce`, `ScopeIsKept`, `SpecTypes` follow.

**`RecordsProofs`.** Nonconformances: `ScreensHonest` says that a screen
at the version of a record shows it, and one with an older version something
older; lists that arrive late are what it has to survive. `ChangesWereSeen`,
`ApprovedIsFinal`, `RecordTypes` follow.

Master data: `MasterDataAreSound` has the same for editors (`SeenHonest`), and
of batches: the rows of a preview point at no record, those of an applied batch
each at one of its own (`PlanSound`), no two batches at the same (`OwnedOnce`), and
what is withdrawn is what a reverted batch owns (`DeletedByRevert`).
`ImportsStayWhole`, `MasterEditsWereRead` follow.

Aliases: `AliasesKeepTheirIndexes` keeps the eight partial indexes apart
(`IndexesHold`) over deleted rows too, as the indexes of the code count them.
`ScopesAreKeptApart` then says of the lookup that what it finds is of a scope
that was asked for, is least in its order, and stays found when more references
are given.

**`WorkProofs`.** Leases: the inductive invariant says that only the worker whose
transaction wrote the row may commit it (`DraftIsFlushed`), that what it leaves has
the request of the row it replaces, and an answer where that row has one
(`DraftKeeps`), and that every copy a worker holds is of its own request and has no
answer the row lacks (`FlushedFits`, `CopiesFit`). These carry each other: a copy
fits the row after a commit only because the draft kept it, and the draft of a
takeover only because the copy fitted. `LeasesAgree`, then `OneRequestAtWork`,
`AnswersAreKept`, `LeaseTypes`.

Ingest: `IngestIsSound` says of a cursor that its stamp was taken after the write
it shows, and, once it calls its file ingested, that it waited out the quiet
period and names the committed document of the bytes of its stamp, unless the file
was written since (`CursorSound`); and the same of what the run holds between two
steps (`WorkSound`). `IngestTakesWhatLay`
follows; what may lie between the last look and the read is section 5's.

Workbench: `WorkbenchIsSound` ties the status to the blockers in both directions,
after every kind of edit, and a completed test to a conclusion of its samples.
`OffersAreComplete`, and `FrozenDecisionsFollow`, which needs the sum of a row of
samples as a recursion and the comparison of an exact mean without a
division.

Samples: `AggregatesStand` is about the operators, for every list of samples:
the rounded average is the nearest even one, an aggregate does not depend
on the order (a permutation of positions leaves sums and extremes, `FiniteSums`),
an extreme stands for all, and conforming samples on the grid do not average to a
rejection. `AcceptanceNeedsEvidence` goes through the policies.

`DesksAreTheirComponents`: a behaviour of `MCRecords` is one of each of its seven
components; `RecordsTyped` and `NothingUnseenIsOverwritten` are properties of the
composition.

**Only model-checked.** Liveness (`EveryUploadEnds`, `ReadingsEnd`,
`CallsSettle`, and with it the ENABLED of weak fairness), which is out of the
provers' reach. `ReportJobs`, whose run asks a liveness question alone, and the
other properties that are expected to fail. Every safety invariant and action
property of a passing run is a theorem of its component, and so of `MCDocuments`,
`MCLots` and `MCRecords`, whose behaviours are those of their components.

## 5. Disagreements without a run

Met while modelling; the models follow the code.

- `evaluate_inspection` assigns the status whatever it was (`p3.py:859`), so a
  case in `LEAD_REVIEW` falls back when its results change, a transition that
  `workflow.py:47` does not have, though `src/Prd.md:3373` asks for all of them
  to be validated.
- `INTERNAL_SUBSTITUTE` has no effect: an item without a supplier row is unmapped
  (`repositories.py:523`) and held before its missing policy is looked at
  (`src/Prd.md:788`).
- The window of an active version may be moved (`routes/specs.py:319`;
  `src/Prd.md:401`).
- The deferred trigger of a final decision reads the version and the LOT without
  a lock (migration 0002, 279-386), so that a retirement which commits after it
  and before the approval is not seen. The outcome equals that of the approval
  committing first, which is why it is no finding.
- A merge of a LOT does not move what refers to it (`repositories.py:246`;
  `src/docs/TRACEABILITY_MATRIX.md:256`).
- A LOT number that normalizes to nothing finds the LOT without a number
  (`p3.py:221`; `src/docs/TRACEABILITY_MATRIX.md:255`).
- An existing allocation is answered as it is, and the quantity of a second
  intake of the same receipt and LOT is dropped (`p3.py:252`).
- The intake route takes the LOT it finds, merged or not, and the trigger then
  refuses a merged one (`p3.py:216`); ADR 0003, line 7, has re-entry resolve
  through the chain, which only the unused `LotRepository` does.
- An extraction and a review of one document can deadlock; PostgreSQL aborts one,
  which is answered with a server error, while `src/README.md:33` reports races of
  reviews as answered "409 (never 500)". The races listed there are between reviews.
- The trigger of migration 0011 (lines 95-112) refuses every change of a row of an
  import batch, and `apply` writes the target into the row
  (`services/master_import.py:144`): with a row to create or update, an
  application fails on PostgreSQL. On SQLite, which has no such trigger, it works.
- PUT of a nonconformance accepts every status from every role, APPROVED
  included (`routes/nonconformances.py:175`), although approving has a route of its own for a
  LEAD (`src/docs/HANDOFF.md:192`).
- An ingest file may change between the last look of the stabilizer and the read,
  so that what is stored was not stable (`hyc_ingest/pipeline.py`, after
  `stabilization.py`); the digest is of what was read, so the stored bytes and
  their row still agree (`IngestedIsStored`).
- A golden field that is optional and has no candidate cannot be published: the
  scorer counts a mismatch (`hyc_evaluation/scoring.py:459`), and the validator
  asks for an evidence that is there (`artifacts.py:562`), so that there is no
  report, where the plan of 2026-08-02 (line 135) wants a mismatch.
- The answer of `put_internal_results` is an evaluation after its commit
  (`p3.py:958`): a specification retired in between makes a stored update look
  refused. The trigger on allocations reads the LOT unlocked (migration 0002,
  133). No property covers these two.
- **A lease of an idempotent request can be held by two workers**, although `reserve`
  refuses "idempotency lease is owned by another worker" (`repositories.py:290`).
  The owner is looked at on the path of the first SELECT only. TLC finds
  `LeaseIsOneWorkers` violated as an invariant of `LeaseSpec` in six states: two
  workers find no row, one inserts and commits, and the INSERT of the other fails
  and returns the running lease of the first (313-327). Without that branch it is
  violated by two takeovers of one lease that ran out or failed, whose unlocked
  SELECTs (264) both precede the first UPDATE (293). Only tests call `reserve`, one
  call after the other, so that no run is kept for it; a caller would need a row
  lock. Two more consequences depend on code that the repository does not have, as
  nothing writes a completed copy back. A takeover decided
  on a FAILED_RETRYABLE copy changes the state column, and sets a row that another
  worker completed in the meantime to PENDING again. And a worker whose copy is
  still PENDING may complete it after another one has, as `complete_idempotency`
  (`idempotency.py:136`) looks at its copy alone: the second answer replaces the
  first, where the plan has one key and hash reproduce the first answer
  (`src/docs/plans/2026-07-30-integrated-implementation-plan.md:402`).
  `reserve` also ignores `expires_at`, which `resolve_idempotency` checks
  (`idempotency.py:98`), takes over a pending row without an end, and a failed one
  whose lease still runs, where `resolve_idempotency` refuses.
- Import of a material model sets no material, and a revert deletes records edited
  since. `failed_test_items` of the statistics is never filled, and its rate of
  self-inspections is a constant.

## 6. Not modelled, and why

- **Snapshots**: canonical JSON and its hash, a pure encoding; a digest is
  modelled as the value it stands for.
- **`resolve_idempotency`**: decides on a copy what `reserve` decides on the row, and
  its result is stored nowhere; where the two differ is in section 5. Callers of
  `reserve` that give no `lease_owner` share every lease.
- **Worker**: two endpoints, no jobs.
- **Authentication, configuration, application**: who calls is a parameter of an
  action, with its role; settings are read once; a contract is the shape of a
  request, and what it refuses is in the guards and in the sets of requests.
- **OCR engine**: a function of bytes; its answers are the candidates that
  `ExtractionReview` chooses from.
- **Rest of OCR evaluation**: polygons and their IoU, digests, the generation of
  synthetic documents, the preflight of a dataset and the local pilot: sequential
  programs over files without a state that anything else sees.
- **Queries**: search and paging of LOTs, polling and download of reports, the
  layout of workbooks. They read.
- **Numbers**: unit conversion and the parsing of decimals come before `Sampling`,
  whose values are exact; the effect of the NUMERIC column is modelled.
- **Scripts**: a dry-run parser of specification workbooks that writes nothing;
  checks of the build.
- **Rest of the frontend**: routing, rendering, and clients that pass requests on.
  The report panel polls without end and does not check for which case it shows a job;
  neither changes anything on the server.
- **Storage under attack or failing**: the checks of inode, size and permissions,
  and unlinks that fail.

## 7. Plan

Done: judgment, cases with the promise they implement, LOTs, numeric judgment,
intake, uploads, specifications, extraction and review, nonconformances, leases,
ingest, master data, aliases, traceability, statistics, workbench, scoring;
proofs of every safety property of their runs.

Left, most useful first:

1. `ExtractionReview` composed with `InspectionCase` through the results a created
   case takes over, instead of side by side.
2. The safety of `ReportJobs`: one job and one artifact for each key.
3. Unit conversion, when it gets more than one unit per item.

Runs are few on purpose; questions about one component that fit one instance are
asked in one run.
