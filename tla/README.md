# Nirman Netra: a TLA+ verification project

Nirman Netra compares two satellite images of a municipality, scores the risk of the changes it
finds and opens inspection cases that people decide. This directory holds TLA+ models of the parts
of it in which things happen in an order (ingestion, background jobs, the durable repository, the
life of an inspection case, the screening of one pair while models, images and municipal records
change) and of the algorithms whose result depends on an order (the quarantine of records, the
grouping of complaints and samples). TLC checks the models on small instances; TLAPS proves every
invariant and action property of the passing runs, and the steps of the refinements, for every value of
the constants. Liveness stays with TLC.

Paths are relative to the repository; `nn/` stands for `src/nirman_netra/`.

## 1. The system

    HTTP route ──submit, save_job_request──▶ repository ──write-through──▶ PostgreSQL
        │ add_task                              ▲   ▲
        ▼                                       │   │ update_case
    pool thread: run(job) ──_process_job──▶ bundle  │
                   │ reads                   case routes ──▶ cases/service.py (pure rules)
                   ▼
             object storage, model artifact, vision backend (registration, masks),
             municipal context, risk engine

    apart from it: validation of municipal datasets, splits of training data

| component | state | operations | what makes it hard |
|---|---|---|---|
| job runner, `nn/application/jobs.py` | the claim lock; records in the repository | submit, cancel, run | threads race for a claim; retries; cancellation outside the lock |
| in-memory repository, `repository.py` | dictionaries of assets, pairs, jobs, requests, results, cases | getters, immutable saves, the two-store bundle, update_case | getters do not take the lock |
| PostgreSQL repository, `postgres_repository.py` | tables, and the same dictionaries as an index | the same, a transaction before each write to memory; loading at start | commit and index are two steps; a commit may succeed and still raise; restart |
| integration service, `service.py` | none of its own | register_municipality, ingest_asset, create_image_pair, enqueue_processing, run_job, assign, review, reinspection, queries | several repository calls in one operation, each may fail |
| HTTP API, `nn/api/main.py` | background tasks | routes, error table, metrics | routes alternate on one event loop; tasks run in a thread pool |
| case rules, `nn/cases/` | none: a case is an immutable snapshot with hash-chained records | create, transition, assign, reassign, unassign, note, attach, verify | roles × statuses × assignments over long histories |
| object storage, `storage.py` | files | put_original_immutable, read | partial copies, objects that differ from what was ingested |
| compatibility, `compatibility.py` | none | load_compatible_model, require_compatible_rule_set | checked when a job is accepted and again when it runs |
| model artifacts, `nn/segmentation/artifact.py` | three files | save, load | saved in place, may stop half-way; hash and load are two reads |
| risk engine, `nn/risk/` | none | parcel, plan, permit at capture, complaint groups, score | boundary dates, ties; two readings of the municipal context |
| imagery registration, `nn/imagery/` | the two originals, the registered raster | the pipeline, the reliability report | hash and decode are two steps; many refusals, three verdicts |
| data validation, `nn/data/validation.py` | none | validate_dataset | a rejection may orphan records already checked; buildings and footprints name each other |
| datasets and splits, `nn/segmentation`, `nn/change_detection` | none | assign_geographic_splits, validation | union-find in input order; leakage |
| exports, generator, demo, dashboard, logging | files | one write each | I/O |

What makes each component correct:

* **job runner**: one executor per job; at most `maximum_attempts` executions; a status that agrees
  with the result store; every queued job settles.
* **repositories**: what was published stays; nothing is announced before it is durable; memory and
  rows agree when nothing is in progress; a fault or a restart breaks none of this.
* **case rules**: records that explain the snapshot; inspectors act on their own cases; one
  decision, after a review; a closed case is frozen; no permitted operation builds an invalid case.
* **case routes over the repository**: an append-only history; a stale snapshot never overwrites a
  newer one; a decision follows a verification of the evidence.
* **ingestion and storage**: a record that was returned is never changed or lost; a pair stands on two
  stored assets; the evidence of a case is the stored object that was analysed.
* **model artifacts**: a model that loads is one whole save, the requested one.
* **screening**: a published result names the model, the rules and the images that made it, rests on a
  reliable registration, and judges permits at the day of capture.
* **data validation**: what is kept is consistent, and nothing is quarantined that could have stayed.
* **grouping**: groups are the components of the links, in whatever order they are found; an accepted
  training set does not leak across splits.

`PROJECT.json` lists the components with their status, and the hazards with the line at which each
bites and the properties that would show it.

## 2. The modules

| module | models | role |
|---|---|---|
| `JobLifecycle` | what a job promises its caller | abstract specification |
| `JobRunner` | `jobs.py`, the in-memory repository, the process route | detailed specification, refines `JobLifecycle` |
| `DurableJobs` | the same over `postgres_repository.py`, with faults and restarts | extends `JobRunner`; without faults it refines it |
| `CaseRules` | `nn/cases/service.py`: a guard (`May…`) and a result per operation; what a snapshot's records must explain | operators, no state |
| `CaseDecision` | screened, decided once, closed | abstract specification |
| `CaseWorkflow` | the rules, called by anybody at any time | refines `CaseDecision` |
| `CaseStore` | the case routes over the durable repository | composes `CaseRules` with the storage |
| `Ingestion` | `storage.py`, `ingest_asset`, `create_image_pair`, the evidence of `_process_job` | composes object store, durable repository and a job's reads |
| `ModelArtifacts` | `segmentation/artifact.py`, `load_compatible_model` | component of `Screening` |
| `Registration` | `nn/imagery/pipeline.py`, `reliability.py` and what they call | component of `Screening` |
| `RiskRules` | `require_compatible_rule_set`, `nn/risk/` | operators, no state |
| `Screening` | `_process_job` and `DefaultPipelineBackend.process` for one job | composes the three above with the municipal context |
| `Quarantine` | `nn/data/validation.py` | state machine of its loops |
| `Grouping` | `risk/complaints.py`, the two `dataset.py` | state machine of the union-find loops and the validation |
| `JobRunnerProofs`, `DurableJobsProofs`, `CaseRulesProofs`, `CaseWorkflowProofs`, `CaseStoreProofs`, `IngestionProofs`, `ScreeningProofs`, `DatasetProofs` | theorems; `ScreeningProofs` has those of `ModelArtifacts`, `DatasetProofs` those of `Quarantine` and `Grouping` | proofs |
| `MC…` | – | what TLC needs beyond constants |

Operators introduced by a comment `Fault:` are not part of the models. Each is a bug that could
plausibly be made in the definition next to it; `PROJECT.json` pairs each property with one under
which TLC finds it violated, which shows that the property can fail.

### JobRunner

| TLA+ | code |
|---|---|
| `jobs`, `requests`, `results`, `cases` | the dictionaries of `InMemoryIntegrationRepository`; `jobs[j]` keeps status, retry_count, whether output_result_id is set, and failure_code |
| `api` | the process route in progress: after `submit`, after `save_job_request` |
| `tasks` | tasks added to `BackgroundTasks` and not yet started |
| `lock`, `worker` | the claim lock of `run`; each pool thread's place in `run` and `_process_job` |
| `canceller` | a `cancel` between its read and its write |
| `Submit`, `SaveRequest`, `Schedule` | `submit`; `save_job_request` with its ValueError; `if job.status == "QUEUED": add_task` |
| `Claim`, `SaveRunning` | the two halves of the block under the claim lock |
| `HandlerComputes`, `HandlerFails…` | `_process_job` up to where it publishes, or its exception; `AfterTransient` is the `except _TRANSIENT_ERRORS` clause with its retry |
| `PublishResult`, `PublishCase` | the two stores of `commit_processing_bundle`, visible one by one because the getters take no lock |
| `SaveOutcome` | `save_job(succeeded)`, `save_job(failed)` |
| `CancelRead`, `CancelWrite` | the status check of `cancel` and its save |

A job id is derived from the idempotency key, so one set serves as both. A result is named by the
number of the execution that wrote it, because executions differ in `processed_at`. The failure
codes are reduced to the transient one and the others. No route calls `cancel`; it is a public
operation of the runner, so the model lets other threads call it. An execution that finds no stored
request raises, as in the code.

### DurableJobs

`db` holds the rows, the inherited variables are the index in memory. Every repository write is a
transaction (`InsertJob`, `UpdateRequest`, `StoreJob`, `StoreResult`) and then the action of
`JobRunner` that writes memory (`IndexJob`, `IndexRequest`, `Index`); `loop` and `committed` say
who is between the two. `Raises(after)` covers both a transaction without effect and one that
commits and still raises. `Conflict` is `_insert_immutable` meeting another payload.
`ThreadRaises` is where the exception leads: out of `run` from the saves outside its `try`, into
the retry from inside. `Crash` drops threads, tasks and route and loads the rows, as
`initialize` does. Bundles are always written with the row of their evidence, which is keyed by
the newer image.

### CaseRules, CaseWorkflow, CaseDecision

A snapshot keeps status, inspector, evidence, assignment history, audit trail, created_at and
updated_at. `CaseId` is its case_id, which evidence names too.
`_record_action` appends the timeline event and the audit event together, so one `trail` stands for
both, and a hash chain is the sequence it protects: two chains agree exactly when their events do.
Reasons and notes are texts and are left out; so are the blank-text checks. `verify_chain_of_custody`
is `CustodyHolds` without contents and with them `ContentsHold` as well: `MayVerify` is given what was
read, a hash per asset that could be read. `Valid` has the four conditions of
`InspectionCase.validate_case`; that timestamps carry a zone is left out. `CaseWorkflow` has an action per operation; `Tick` moves the clock to any
instant, backwards too, because `utc_now` is the wall clock. `CaseDecision` sees a case as created,
open, decided or closed, and its decision in the trail.

### CaseStore

`mem` is the snapshot in memory, `row` and `events` the tables, `call` the route in progress. Case
routes are coroutines without an `await` between their calls, so one runs at a time; but a review is
two updates (`Review`, then `Decide`), and after each transaction the process may stop or the call
may raise. A review reads every file of the evidence: `contents` is what is read, files may be damaged
or gone at any review and whole again at the next. A StorageError of a read, like a hash that does not
match, ends the call before anything is written. `acked` is what a client was last told, `read` what
each review read (histories, only in properties). The actor of a request has any role, the processor's
too, as the API admits. The two readings of the clock in
`assign_inspector` are one.

### Ingestion

| TLA+ | code |
|---|---|
| `objects`, `upload` | files under the original root; the key that `copyfile` is writing |
| `rows`, `mem` | tables `imagery_assets` and `image_pairs`; `repository.assets` and `repository.pairs` |
| `route` | the asset or pair route in progress: before the decode, before the transaction, before the write to memory |
| `job`, `cases` | a thread between the backend's decode and the evidence check; what was published |
| `acked` | what clients were returned (history, only in properties) |
| `Put`, `CopyEnds` | `put_original_immutable`: an object that exists is never written; a copy ends or raises |
| `IngestHash`, `IngestRead` | `LocalRasterIngestor.read` takes the hash, then opens and decodes; the rest of `ingest_asset` up to `save_asset` |
| `StoreAsset`, `StorePair` with `Transaction` | the transactions of `save_asset` and `save_pair` around `_insert_immutable` |
| `IndexAsset`, `IndexPair` | the writes to memory and the answer |
| `Pairable`, `CreatePair` | `create_image_pair` |
| `Analyse`, `Publish` | the backend decodes both originals; the newer one is read again and compared in `attach_new_evidence` |

A hash is the bytes it was taken of: content, and whether the copy was whole. A part of an image has
a hash and cannot be decoded. The stamp of a record stands for `ingested_at` or `created_at`, which
makes a retried record differ from the first. Calls that are refused change nothing and are left out
except where a step has already been taken. Images without a capture time are refused by the durable
repository and left out. One uploader is modelled: the only caller of `put_original_immutable` in the
code copies one file after the other.

### Screening, ModelArtifacts, Registration, RiskRules

| TLA+ | code |
|---|---|
| `files`, `saver` | `weights.npy`, `model.onnx`, `model-artifact.json` of a model directory; the `save_model_artifact` in progress |
| `load` | a `load_compatible_model` in progress or the last one; `calm` remembers whether a file was written meanwhile |
| `source`, `scene` | the two originals as they are now; what they show |
| `registration` | the run of `RegistrationPipeline.run`: the hashes in the metadata, the pixels that were decoded, status and warnings; `restored` (history) has the sides that got back what was hashed after something else was decoded |
| `Change` | a file gets other content, cannot be decoded any more, disappears, or gets back what it had, at any moment |
| `context` | `repository.contexts[municipality]` |
| `job`, `held`, `result` | the job's place and request, the local variables of `_process_job`, the published result |
| `Begin`, `Write`, `Continue`, `SaveStops` | a save, which opens (and empties), writes, and may stop with an OSError or with its process |
| `ReadMetadata`, `HashWeights`, `HashOnnx`, `LoadWeights`, `OpenSession` | the reads of `load_model_artifact` in order, and the comparison with the requirement |
| `Enqueue`, `Accept` | `enqueue_processing`: model and rules are checked, nothing is kept of them |
| `Start`, `LoadStep`, `LoadRule` | `_load_model` and `_load_rule` of the execution, its first reading of the context |
| `RegisterImages` | the steps of `RegistrationStep`: hash, decode, register, look at the sources, write, look again |
| `Compare` | the rest of `process`: the older original is decoded a second time without a look at its hash, both are segmented and compared, the change artifact is written |
| `Score`, `Publish` | from the second reading of the context to the assessment; the evidence check and the bundle |
| `Fails` | the `except` clauses of `run`: a StorageError is retried, every other error is final |
| `Event` | what others do: begin a save, change an original, register another context |

A scene is what the images show and what the numerical parts answer: codes of the quality checks,
counts of matches and inliers, verdicts on the transform, score, confidence, the two masks. An
original that changes shows the same scene with other bytes, which is the change no quality check can
notice; whether visual refinement is enabled goes with the scene. A geometry is a set of cells; a cell
is large enough to be a region of its own unless the scene calls it small. A file holds the bytes of
one save or a part of them, and hashes tell contents apart. A torn file of a model that fails to
parse raises what `load_model_artifact` catches or something it does not (`FailsToLoad`). Of the
complaints the score only asks whether there are any; that grouping them fails, over a repeated id or a
CRS that is not projected, is `GroupingFails`. Points are integers in percent; the rounding of the
score is left out. `score_inspection_risk` checks the date and the plan version it is given once
more; in this composition they are right by then, and these checks are left out. The derived directory
of a job and the repository calls around the handler are in `Ingestion`, `JobRunner` and
`DurableJobs`.

### Quarantine

`data` is the submitted dataset, `pass` the loop that comes next (the contract loops, the seven
relationship loops of a round, the end of a round), `changed` the flag of the `while`, `quarantine` the
first reason per rejected record. A loop is one step: it reads only rejections of other entities.
Geometry and containment are fields, since the geometry library decides them per record or per pair of
records and each record names exactly one it must lie in. Field validators of the contracts do not make
the contract loops redundant: the repository's tests build such records with `model_copy`. Identifiers
are unique; with two records of one identifier the code keeps or drops both.

### Grouping

| TLA+ | code |
|---|---|
| `input`, `items` | the call and its complaints, tiles or image pairs |
| `left`, `right` | the loop indices; `left` also counts the loops that follow |
| `parents`, `cursor`, `found`, `roots` | the forest; the index of the `find` in progress; `left_root`; what `find` returned for each item in the end |
| `Link`, `LinkFails`, `LinkEnds` | the body of the double loop, an error of `_metre_factor` or `_nearby` in it, its end |
| `Halve` | one turn of the loop of `find`, with path halving |
| `LeftFound`, `Unite` | `union` after its first and after its second `find` |
| `RootFound`, `CollectGroups`, `AssignSplits` | the roots of all items, and what becomes of the components |
| `CheckSample`, `CheckEnds`, `Compare`, `Accept` | `validate_dataset` and `validate_geographic_splits` |

One state machine stands for the three union-find loops: `Linked` is what differs
(`_duplicate_signals`, or `_nearby` of two samples). `find` is a loop of steps and not a recursive
operator, so that it can be proved about. The repeated calls of `find` after the double loop return
what the first returned, and are one. Samples may also arrive with splits that somebody chose. Places
are points on a line, texts and pictures numbers with a distance, names are numbers.

## 3. The runs

| run | bounds | states |
|---|---|---|
| `jobs_cancel` | 2 jobs (one with a change), 2 correlation ids, 2 threads, 1 canceller, 2 attempts, 3 submissions | 340,689 |
| `durable_faults` | 2 jobs, 2 threads, 3 submissions, 1 raising call, 1 stop | 236,772 |
| `durable_refines` | 2 jobs, 2 correlation ids, no fault | 96,249 |
| `case_workflow` | 3 inspectors (one inactive), a supervisor, an administrator, the processor; 7 assets of which 5 must be refused; 4 contents of their files; 2 instants; 6 events, one of them a remark | 1,095,538 |
| `case_store` | 2 inspectors, a supervisor, the processor, 2 assets and 4 contents of their files, 4 calls, 1 raising call, 1 stop | 601,920 |
| `datasets` | 15 records of all kinds with any one or two of 62 other contents of a record (1,585 datasets); 5,184 lists of 4 complaints; 5,184 lists of 4 samples to assign; 9,721 lists of 0 or 3 samples with splits | 250,302 |
| `screening` | 1 job, 2 executions, 3 saves (two of one description), 3 municipal contexts, 19 scenes, 3 days around the capture, 2 events of the world | 5,035,512 |
| `ingestion` | 2 keys, 3 images (one rejected), 2 municipalities, 2 capture times, 4 calls, 1 raising transaction, 1 stop | 545,166 |

What they show:

* `jobs_cancel`: `OneExecutor`, `RetriesAccounted`, `OutcomeMatchesStore`, `RequestBeforeWork` and
  the liveness property `QueuedJobsSettle`, under duplicate submissions, refused second requests and
  a cancellation at any point. Two threads and three submissions are enough for two tasks of one job
  to race and for the other job to wait for a thread; two attempts reach both sides of the retry
  test.
* `durable_faults`: `SuccessIsDurable`, `PublishedForever`, `OneExecutor` and `TasksEnd` with one
  fault and one stop at every possible point, the ambiguous commit among them. More faults repeat
  the retry that one fault already drives; one correlation id keeps the state space small, the
  others are in `durable_refines`.
* `durable_refines`: without faults the two-step writes are invisible: memory behaves as `JobRunner`
  says, its fairness included, and without cancellation as `JobLifecycle` promises, liveness included.
  Cancellation is excluded because of the first finding.
* `case_workflow`: `RecordsExplainSnapshot`, `InspectorsActOnOwnCase`, `SnapshotsAreValid`,
  `ConfirmedAfterReview`, `ReviewWithinReach`, `ClosedIsFrozen`, and the refinement of
  `CaseDecision`. Six events suffice to create, triage, assign, review, confirm and close, or to
  withdraw and assign again, and one remark can fall anywhere.
* `case_store`: `MemoryNeverForks`, `AcknowledgedKept`, `DecisionsVerified`, `HistoryAppendOnly` and
  the invariants `Explained` and `OwnCaseOnly` of the stored row (`RowsExplainThemselves`). Four calls triage
  and assign, review, request reinspection and review again; the fault or stop may fall on any.
  `DecisionsVerified` asks two things of every stored decision: that the same call and actor stored a
  verification right before it, and that this call read from its file, for every asset of the case, what
  was attached. The files are whole, one is damaged, or one is gone, at each review anew.
* `ingestion`: `EvidenceIsTheObject`, `ReturnedRecordsKept`, `PairsStandOnRows`, `RowsAreWriteOnce`.
  Three calls make two assets and a pair, the fourth repeats any of them; the raising transaction,
  the stop and the ends of copies fall anywhere. Keys, municipalities and the two good images are
  interchangeable, so symmetry is used; the properties are safety properties.
* `datasets`: `KeptIsConsistent`, `NothingLostNeedlessly` and `ValidationEnds`: the rounds end with the
  largest consistent part of the dataset. The baseline has two parcels, footprints and buildings, so
  that links can cross and the cycle between buildings and footprints can be broken on either side, and
  two assets; two wrong records are enough for one rejection to reach a record checked earlier through
  another. `RootsAreComponents`: whenever `union` compares two roots, and when the groups are collected,
  two items have one root exactly if a chain of links found so far joins them; four items are the
  fewest for which the union of two components, path halving and the order of the input matter.
  `AcceptedNeverLeaks` and `AssignmentPassesValidation` with three and four samples on a line.
* `screening`: `LoadedIsOneSave`, `ResultFollowsRequest`, `PublishedOnTrustedRegistration`,
  `JudgedAtCapture`. The scenes stop the run at each of its checks or give no change, a change in one
  parcel, across two, or in none; the contexts hold rules of another version or twice, permits that
  have expired, follow, or name another plan, and the plans in either order. Two events are enough to
  stop a save and begin another, to change both originals, to change one and restore it, or to replace
  the context before and after the execution begins; a retry follows a StorageError. The days lie before, shortly after and long
  after the capture. Rule sets, permits and days are chosen so that every factor and level occurs.

Every run stops at its bounds, and a job system with nothing left to do stands still, so deadlock is
not checked.

### Findings

Four runs show the code doing other than it says.

* `jobs_cancel_race`: "only queued jobs can be cancelled" (`jobs.py:163`). `cancel` reads QUEUED, a
  thread claims the job, and the cancellation overwrites RUNNING or a settled state. The handler still
  publishes, and its own save then replaces CANCELLED.
* `durable_stale_row`: "a validated memory index backed by transactional PostgreSQL records"
  (`postgres_repository.py:51`). `save_job_request` writes back the job it read earlier; if a worker
  has settled it in between, the row goes back to an older state, which is loaded at the next start.
* `durable_shared_image`: "A required persistence service is temporarily unavailable" (`jobs.py:80`).
  Two changed jobs over one newer image use one evidence key with different cases; the second is
  refused as immutable, retried and reported as an outage.
* `durable_retry`: "Idempotent … with bounded retries" (`jobs.py:1`). The save of SUCCEEDED is inside
  the `try`; when it raises, the handler runs again, its second result conflicts with the published
  one, and the job ends FAILED while clients can read its result.

Noticed on the way, and promised nowhere: a job that was RUNNING at a stop is never taken up again;
after an ambiguous commit every update of that case is refused until the next start (which is what
keeps its history whole); a refused decision leaves its verification in the history;
`request_case_reinspection` verifies no evidence; a derived asset may name itself as its source and
pass the chain check; a copy that failed blocks its key for good; an asset registered while its object
was being copied keeps the hash of a part. The check of the evidence stops such an asset as the newer
image of a pair, but the hash of the older image is never compared, so the pair is analysed when the
asset is the older one. Two concurrent copies to one key could overwrite each other (`exists` and
`copyfile` are two steps); nothing in the code makes them.

From the newer modules: a change on empty ground, where one of the two masks has no building, always
ends with "segmentation produced no reviewable building footprint" (`backend.py:61`), so a new building
on an empty parcel is never screened; the older original is decoded again after the registration
without a look at its hash (`backend.py:99`); the pipeline compares the sources with their hashes and not
with what it decoded, so an original that is exchanged for its decode and then restored is registered
under the hash of what it was (`imagery/pipeline.py:105`); without the exception of `restored`,
`PublishedOnTrustedRegistration` fails; the graph of a model is opened after it was hashed, so a
save that runs at that moment can exchange it (`artifact.py:192`; without `calm`, `LoadedIsOneSave`
fails); of two approved footprints in a parcel the first of the tuple decides (`service.py:366`);
validation compares a permit's plan with its footprint but never the permit's parcel with that of the
footprint (`data/validation.py:201`); an asset with the hash of an earlier asset is rejected although
the earlier one is rejected as well (`data/validation.py:103`); the assignment of splits does not look
at hashes, so one image in two regions makes the validation refuse what was assigned.

## 4. Fairness

`JobRunner!Fairness` has three weak fairness conditions. The event loop finishes the route it is in:
routes do not await between these calls. The pool starts every added task some day: it has finitely
many threads, each of which comes back (`TasksEnd`), and starts tasks in order. A running thread
keeps running: sleeps between retries are bounded and the backend is assumed to return. Nobody is
obliged to submit, cancel, fail or stop. `DurableJobs` assumes the same of its finer steps. The case
models state no liveness and no fairness: people act when they act. `ReviewWithinReach` says instead
that the next step is always open to somebody. `Quarantine` is one sequential function, so weak
fairness of its next step says no more than that it keeps running; `ValidationEnds` needs nothing
else. `Screening` and `Grouping` state safety only.

## 5. What is proved

Every theorem holds for every value of the constants that satisfies the assumptions of its modules,
which TLC evaluates on every run:

* `RunnerAssumption` (at least one attempt, `ChangedJobs` among the jobs, the placeholders distinct from
  what they stand beside), `RolesAssumption` (inspectors are not also supervisors, administrators or the
  processor; the placeholder `NoOne` is nobody), `WorkflowAssumption` (instants
  are numbers), `StoreAssumption` (instants and the bound on calls are numbers, `NoOne` numbers no call,
  `ProcessedEvidence` is two pieces of evidence of this case), `IngestionAssumption` (capture times are numbers, the placeholder is neither a record nor a
  hash), `DatasetAssumption` (the kinds, the order and the shape of the records), `GroupingAssumption`
  (the fields of complaints and samples), `ArtifactAssumption`, `RegistrationAssumption` and
  `ScreeningAssumption` (placeholders, ranges of a scene's codes, finitely many rules in a context).

Three theorems assume more, and say so: `ReviewReachable` that there is an active inspector and a
supervisor or administrator, without whom nobody could take the step; `LifecycleSteps` that nobody
cancels (with a canceller it is false, which is the first finding); `InvisibleWriteThrough` that no call
raises, the process does not stop and no two jobs share a newer image (otherwise it is false, which are
the other findings). Each is an assumption of a run as well.

**`JobRunnerProofs`**: `TypeCorrect`, `NoTwoExecutors`, `BoundedRetries`, `TruthfulOutcome`: `Spec`
implies always `TypeOK`, `OneExecutor`, `RetriesAccounted`, `OutcomeMatchesStore`. None of these is
inductive. The status of a job does not tell who owns it, since a canceller may overwrite it while a
thread executes, and even between the claim and the save of RUNNING. `IInv` therefore follows the
owner through `run`:

* `ClaimLockInv`: the lock is held exactly by the thread between its two steps under it;
* `FreshInv`: a job that is absent or queued has no executions, result or case;
* `CancelInv`: a canceller only holds jobs that exist;
* `ClaimInv`: a job just claimed is untouched, and nobody executes it;
* `ExecutorInv`: at each place of `run`, what the owner knows: executions made, what is published.

The argument is that a claim needs a QUEUED job, and QUEUED is never entered again: cancellation
leads to CANCELLED, which `Claim` refuses. So one claim is all a job ever gets, under cancellation
too. `RequestsFirst` (`RequestBeforeWork`) follows a request along route, task and thread (`RequestInv`);
no step forgets a request. `LifecycleSteps` is the safety part of `ImplementsLifecycle`: from `IInv`,
each step of the runner without a canceller is a step of `JobLifecycle` or changes nothing it sees.

**`DurableJobsProofs`**: `OneExecutorDurably`, `SuccessStored`, `NothingUnpublished` for `OneExecutor`,
`SuccessIsDurable`, `PublishedForever` over the tables, with any number of raising calls and stops and
with shared images. The invariant `DInv` has three parts beside the types:

* `Claims`: the claim argument again. It is weaker than `IInv`, which is false here: a second run of the
  handler may meet its own published result;
* `Backed`: a result in memory is in the tables, a changed job's result has its case there, and whatever
  says SUCCEEDED (record, row, or the snapshot the process route has read) has its result there;
* `Threads`: a thread past the transaction of its bundle finds it in the tables, and `committed` marks
  only threads between a transaction and memory.

`Extending` says what a transaction may do to the rows: lose or replace no result and no case. Every
transaction extends, so a stop, which makes memory of the rows, takes nothing that was published.
`InvisibleWriteThrough` is the safety part of `ImplementsJobRunner`. It needs `Calm`: without faults the
tables are ahead of memory only for a thread that is between the two (`Ahead`), and the evidence row of
an image is nobody's or the job's own (`Unshared`), so that no insertion conflicts.

**`CaseRulesProofs`** states once what an operation does to a snapshot, for `CaseWorkflow` and
`CaseStore` alike: it keeps the type and `Sound` (the records explain the snapshot, inspectors acted on
their own case, the validators accept), and its trail is the old one with one event more. The lemmas on
`AssignmentsBefore` say how the replay of a trail reacts to one more event.

**`CaseWorkflowProofs`**: `TypeCorrect`, `ValidatorsNeverFire`, `RecordsExplain`, `OwnCasesOnly`,
`ConfirmationsReviewed`, `ReviewReachable`, `ClosedFrozen`, for every length of the history. `Sound` is
inductive by itself. `ConfirmedAfterReview` needs `ReviewInv`: a case under review was put there with an
inspector and nothing but remarks and reassignments has happened since, so that the confirmation finds
its review. `DecisionRefined` proves the whole of `ImplementsDecision`, which states no liveness: by
`DecisionInv` an open case has no decision in its trail and a decided or closed one exactly one.

**`CaseStoreProofs`**: `NeverForks`, `Acknowledged`, `OnEvidence`, `RowsExplained`, `AppendOnly`, for any
number of calls, raising transactions and stops. The core is that memory and what clients were told are
beginnings of the stored history; a transaction only succeeds if its snapshot extends the stored events,
so a snapshot that memory has missed is refused and never overwritten. `CallInv` says where memory has
caught up: a review goes on to its decision only then, so the verification is the last stored event
(`EvidenceInv`) and the decision lands right behind it; no route adds evidence, so what its call read
holds for the case as it is stored (`WholeInv`). `FreshInv` keeps the ids of calls apart.

**`IngestionProofs`**: `RecordsKept`, `PairsSound`, `WriteOnce` for `ReturnedRecordsKept`,
`PairsStandOnRows` and `RowsAreWriteOnce`. The argument is a chain of inclusions: clients have seen
only what memory holds (`AckInv`), memory holds only what the tables hold (`MemoryInv`), the tables
are written once per key and their pairs stand on their assets (`RowInv`). `RouteInv` carries it over
the steps of a route: between the transaction and the write to memory the record is in the tables,
and a pair that was checked against memory is right for the rows too, because memory's assets are the
rows' assets. A stop replaces memory by the tables, which can only add to it. `Evidence`
(`EvidenceIsTheObject`) adds the objects: an object that exists is never written again unless a copy
to it is in progress, a decoded object was whole, and a whole object stays what it is; so what the
backend analysed and what was read again as evidence are one and the same.

**`ScreeningProofs`**: `LoadsAreWhole` for `LoadedIsOneSave`. `Writing` says that a save which has come to
a file has written the ones before it; the metadata is last, so metadata that can be parsed names the
files of its own save (`Metadata`). Only a save changes files, so what a calm load has hashed is still
there when it opens the file a second time (`Hashes`). `TrustedRegistration`, `NamedIsUsed` and
`PermitsAtCapture` for `PublishedOnTrustedRegistration`, `ResultFollowsRequest` and `JudgedAtCapture`:
the invariant `SInv` ties the job's place to the state of its load and its registration. Past
`LoadRule` the load has ended with the requested description and the rules are in some context of the
execution; past `RegisterImages` the sources have been looked at after the decode and found unchanged, so
that pixels which differ from their hash show the file was restored in between (`Sighted`). A case
is judged when it is scored (`Charged`): lemmas on `RiskRules` show that the permit found at capture
names the plan exactly if no permit factor is charged, for any number and order of permits.

**`DatasetProofs`**, quarantine: `ReturnedDatasetsAreConsistent` and `QuarantineIsNecessary` for
`KeptIsConsistent` and `NothingLostNeedlessly`. For the first, as long as nothing has changed in a
round, every record of the loops behind agrees with what is kept; a change clears the claim and forces
another round. For the second, a record that agrees with some records agrees with more of them; so no
consistent set of records is ever touched, since a rejection can only follow from rejections that were
inevitable.

**`DatasetProofs`**, grouping: `GroupsAreComponents`, `AcceptedIsTight`, `AssignmentsPass` for
`RootsAreComponents`, `AcceptedNeverLeaks` and `AssignmentPassesValidation`, for any number of items.
`ForestInv` says that every item can be labelled with its root, so that parents have the label of their
children and two labels agree exactly if a chain of visited links joins the items; and that heights grow
towards the root, without which path halving could close a cycle. Halving changes no label; `Unite`
relabels one class (`ClassesMerge`). An assignment passes because neighbours are linked, so in one class,
so drawn alike (`AssignedInv`); that the smallest id of a component exists is `LeastElement`, from the
well-foundedness of strict inclusion. `AcceptedIsTight` needs nothing of the assignment: `CheckInv` and
`CompareInv` say what the two loops of the validation have excluded so far.

Every inductive invariant was model-checked on the instance of a run before it was proved.

## 6. What is only model-checked

* Liveness: `QueuedJobsSettle`, `TasksEnd`, `ValidationEnds`, and with them the fairness that
  `ImplementsLifecycle` and `ImplementsJobRunner` ask for beside the steps proved here.
* The four findings: a counterexample needs no proof.

## 7. What is not modelled

* Numerical image processing, training and evaluation: floating point.
* Exports, the data generator, the demo, the dashboard, logging, metrics and settings: single writes
  or presentation, with no state that anything reads back.
* Serialisation, request validation and the table of HTTP errors.
* Texts: reasons, notes, messages; hash functions, taken to be injective.
* PostgreSQL itself: a transaction is atomic, and lasting once committed.
* The read-only queries of the service; `save_context` over the tables.
* `select_effective_rule_set`, the manual review queue, manual alignment: nothing in the service calls
  them.
* Two records of one identifier in a municipal dataset.

## 8. Plan

1. Done: all modules above, and theorems for every invariant and action property of the passing runs.
2. Proofs: that `LifecycleSteps` survives the write-through repository (the steps of `DurableJobs`
   without cancellation seen through both refinements); that a validation round without a change is the
   last one.
3. Models: `save_context` over the tables, and the queries that join jobs, results and cases.
