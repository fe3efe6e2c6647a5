----------------------------- MODULE DurableJobs -----------------------------
(***************************************************************************)
(* The job runner over PostgresIntegrationRepository.  Every write of the  *)
(* repository is a database transaction followed by the in-memory write of *)
(* the parent class, with nothing that holds the two together; reads are   *)
(* answered by memory.  JobRunner's variables are that memory and its      *)
(* actions the in-memory writes; db is the database, which survives Crash. *)
(*                                                                         *)
(* A transaction commits, fails without effect, or commits and still       *)
(* raises to its caller (the connection is lost after COMMIT).             *)
(***************************************************************************)
EXTENDS JobRunner

CONSTANTS
  NewAsset,     \* the job's newer image: its evidence row is keyed by it
  MaxFaults,    \* bound: database or object-store calls that raise
  MaxCrashes    \* bound: stops of the process

ASSUME DurableAssumption ==
  /\ MaxFaults \in Nat
  /\ MaxCrashes \in Nat
  /\ DOMAIN NewAsset = Jobs

VARIABLES
  db,          \* rows of the tables: jobs, requests, results, cases, evidence
  loop,        \* repository call of the route in progress
  committed,   \* threads between the transaction and the in-memory write
  faults,
  crashes

durable == <<db, loop, committed, faults, crashes>>
allVars == <<vars, durable>>

Assets == {NewAsset[j] : j \in Jobs}
Rows(jobRows, requestRows, resultRows, caseRows, evidenceRows) ==
  [jobs |-> jobRows, requests |-> requestRows, results |-> resultRows, cases |-> caseRows,
   evidence |-> evidenceRows]

Call(at, j, r, snapshot) == [at |-> at, job |-> j, request |-> r, snapshot |-> snapshot]
NoCall == Call("none", Nobody, NoRequest, AbsentJob)

DurableInit ==
  /\ Init
  /\ db = Rows(jobs, requests, results, {}, [a \in Assets |-> Nobody])
  /\ loop = NoCall
  /\ committed = {}
  /\ faults = 0
  /\ crashes = 0

-----------------------------------------------------------------------------
(* Transactions.                                                           *)

\* save_job upserts the payload: the job, and the request that memory holds.
WithJob(j, job) ==
  Rows([db.jobs EXCEPT ![j] = job], [db.requests EXCEPT ![j] = requests[j]],
       db.results, db.cases, db.evidence)

\* save_job_request replaces the payload by the job it read and the request.
WithRequest ==
  Rows([db.jobs EXCEPT ![api.job] = loop.snapshot],
       [db.requests EXCEPT ![api.job] = api.request],
       db.results, db.cases, db.evidence)

\* save_result, or the bundle: result, case, and evidence keyed by asset.
WithResult(j) ==
  Rows(db.jobs, db.requests, [db.results EXCEPT ![j] = executions[j]],
       db.cases \cup ({j} \cap ChangedJobs),
       [db.evidence EXCEPT ![NewAsset[j]] = IF j \in ChangedJobs THEN j ELSE @])

\* _insert_immutable meets a different payload: results differ in
\* processed_at, evidence rows of one asset in case_id.
Conflict(j) ==
  \/ db.results[j] # 0
  \/ j \in ChangedJobs /\ db.evidence[NewAsset[j]] \notin {Nobody, j}

Raises(after) ==
  /\ faults < MaxFaults
  /\ faults' = faults + 1
  /\ db' \in {db, after}

-----------------------------------------------------------------------------
(* The process route.                                                      *)

\* submit() of a key that memory does not hold: the transaction of save_job.
InsertJob(j, r) ==
  /\ api.pc = "idle" /\ loop = NoCall /\ submissions < MaxSubmissions
  /\ jobs[j].status = "ABSENT"
  /\ LET after == WithJob(j, QueuedJob) IN
     \/ /\ db' = after
        /\ loop' = Call("job_stored", j, r, AbsentJob)
        /\ UNCHANGED <<faults, submissions>>
     \/ /\ Raises(after)
        /\ submissions' = submissions + 1
        /\ UNCHANGED loop
  /\ UNCHANGED <<repo, tasks, api, lock, worker, canceller, executions, committed, crashes>>

IndexJob ==
  /\ loop.at = "job_stored"
  /\ Submit(loop.job, loop.request)
  /\ loop' = NoCall
  /\ UNCHANGED <<db, committed, faults, crashes>>

ReturnExisting(j, r) ==
  /\ loop = NoCall
  /\ jobs[j].status # "ABSENT"
  /\ Submit(j, r)
  /\ UNCHANGED durable

\* save_job_request() reads the job from memory ...
ReadJob ==
  /\ api.pc = "request" /\ loop = NoCall
  /\ loop' = Call("job_read", Nobody, NoRequest, jobs[api.job])
  /\ UNCHANGED <<vars, db, committed, faults, crashes>>

\* Fault: memory is refreshed from the payload that was written.
UpdateRequestRefreshing ==
  /\ loop.at = "job_read"
  /\ db' = WithRequest
  /\ loop' = Call("request_stored", Nobody, NoRequest, loop.snapshot)
  /\ jobs' = [jobs EXCEPT ![api.job] = loop.snapshot]
  /\ UNCHANGED <<requests, results, cases, tasks, lock, worker, canceller, executions,
                 submissions, api, faults, committed, crashes>>

\* ... and stores it again, with the request.
UpdateRequest ==
  /\ loop.at = "job_read"
  /\ \/ /\ db' = WithRequest
        /\ loop' = Call("request_stored", Nobody, NoRequest, loop.snapshot)
        /\ UNCHANGED <<api, faults>>
     \/ /\ Raises(WithRequest)
        /\ loop' = NoCall
        /\ api' = IdleApi
  /\ UNCHANGED <<repo, tasks, lock, worker, canceller, executions, submissions,
                 committed, crashes>>

IndexRequest ==
  /\ loop.at = "request_stored"
  /\ SaveRequest
  /\ loop' = NoCall
  /\ UNCHANGED <<db, committed, faults, crashes>>

-----------------------------------------------------------------------------
(* run() in a worker thread.                                               *)

\* Where the exception of a repository call in state t.pc leads: out of
\* run() (the task ends, the record stays), or into its except clause.
AfterRaise(t) == IF t.pc \in {"claimed", "fail"} THEN IdleWorker ELSE AfterTransient(t)

\* Fault: the claim lock is not released on the way out.
ThreadRaisesLocked(w) ==
  /\ worker' = [worker EXCEPT ![w] = AfterRaise(@)]
  /\ UNCHANGED <<repo, tasks, api, lock, canceller, executions, submissions, loop,
                 committed, crashes>>

ThreadRaises(w) ==
  /\ worker' = [worker EXCEPT ![w] = AfterRaise(@)]
  /\ lock' = IF lock = w THEN Nobody ELSE lock
  /\ UNCHANGED <<repo, tasks, api, canceller, executions, submissions, loop, committed,
                 crashes>>

ThreadCommits(w, after) ==
  /\ db' = after
  /\ committed' = committed \cup {w}
  /\ UNCHANGED <<vars, loop, faults, crashes>>

StoreJob(w) ==
  /\ worker[w].pc \in {"claimed", "succeed", "fail"} /\ w \notin committed
  /\ LET after == WithJob(worker[w].job, JobToSave(worker[w])) IN
     \/ ThreadCommits(w, after)
     \/ Raises(after) /\ ThreadRaises(w)

\* Fault: results go to memory only.
NeverStored(j) == FALSE

\* A bundle that memory already holds is returned without a transaction.
Unpublished(j) == ~(j \in ChangedJobs /\ results[j] # 0)

\* Fault: the stored result is replaced instead of compared.
StoreResultOverwriting(w) ==
  /\ worker[w].pc = "publish" /\ w \notin committed
  /\ Unpublished(worker[w].job)
  /\ LET after == WithResult(worker[w].job) IN
     ThreadCommits(w, after) \/ (Raises(after) /\ ThreadRaises(w))

StoreResult(w) ==
  LET j == worker[w].job IN
  /\ worker[w].pc = "publish" /\ w \notin committed
  /\ Unpublished(j)
  /\ \/ ~Conflict(j) /\ ThreadCommits(w, WithResult(j))
     \/ ~Conflict(j) /\ Raises(WithResult(j)) /\ ThreadRaises(w)
     \/ Conflict(j) /\ ThreadRaises(w) /\ UNCHANGED <<db, faults>>

\* The write to memory that ends each of these calls.
Index(w) ==
  /\ SaveRunning(w) \/ PublishResult(w) \/ SaveOutcome(w)
  /\ w \in committed \/ (worker[w].pc = "publish" /\ ~Unpublished(worker[w].job))
  /\ committed' = committed \ {w}
  /\ UNCHANGED <<db, loop, faults, crashes>>

\* What run() does without the database.
RunInMemory(w) ==
  /\ \/ Claim(w) \/ PublishCase(w)
     \/ HandlerComputes(w) \/ HandlerFailsPermanently(w)
  /\ UNCHANGED durable

\* A StorageError is a fault of the object store.
StorageRaises(w) ==
  /\ faults < MaxFaults
  /\ faults' = faults + 1
  /\ HandlerFailsTransiently(w)
  /\ UNCHANGED <<db, loop, committed, crashes>>

RunDurably(w) == RunInMemory(w) \/ StorageRaises(w) \/ StoreJob(w) \/ StoreResult(w) \/ Index(w)

-----------------------------------------------------------------------------
(* The process stops; the next one loads the database.  Background tasks   *)
(* live in memory only.                                                    *)
Crash ==
  /\ crashes < MaxCrashes
  /\ crashes' = crashes + 1
  /\ jobs' = db.jobs /\ requests' = db.requests
  /\ results' = db.results /\ cases' = db.cases
  /\ tasks' = [j \in Jobs |-> 0]
  /\ api' = IdleApi /\ loop' = NoCall
  /\ lock' = Nobody /\ committed' = {}
  /\ worker' = [w \in Workers |-> IdleWorker]
  /\ UNCHANGED <<db, faults, canceller, executions, submissions>>

DurableNext ==
  \/ \E j \in Jobs, r \in Requests : InsertJob(j, r) \/ ReturnExisting(j, r)
  \/ IndexJob \/ ReadJob \/ UpdateRequest \/ IndexRequest
  \/ Schedule /\ UNCHANGED durable
  \/ \E w \in Workers, j \in Jobs : StartTask(w, j) /\ UNCHANGED durable
  \/ \E w \in Workers : RunDurably(w)
  \/ Crash

\* As in JobRunner; nobody is obliged to crash.
DurableFairness ==
  /\ WF_allVars(IndexJob \/ ReadJob \/ UpdateRequest \/ IndexRequest
                \/ (Schedule /\ UNCHANGED durable))
  /\ \A j \in Jobs : WF_allVars(\E w \in Workers : StartTask(w, j) /\ UNCHANGED durable)
  /\ \A w \in Workers : WF_allVars(RunDurably(w))

DurableSpec == DurableInit /\ [][DurableNext]_allVars /\ DurableFairness

-----------------------------------------------------------------------------
(* Properties.                                                             *)

(***************************************************************************)
(* Success is never announced, to a client or to the next process, before  *)
(* the result and its case are in the database.                            *)
(***************************************************************************)
SuccessIsDurable ==
  \A j \in Jobs :
    "SUCCEEDED" \in {jobs[j].status, db.jobs[j].status}
      => db.results[j] # 0 /\ (j \in ChangedJobs => j \in db.cases)

(***************************************************************************)
(* What a client has once been able to read about a result stays: no       *)
(* retry replaces it and no crash takes it or its case away.               *)
(***************************************************************************)
PublishedForever ==
  [][\A j \in Jobs : /\ results[j] # 0 => results'[j] = results[j]
                     /\ j \in cases => j \in cases']_allVars

(***************************************************************************)
(* Whatever raises, and wherever the process stops, every background task  *)
(* ends and gives its thread back: no path out of run() keeps the claim    *)
(* lock that the next task waits for.                                      *)
(***************************************************************************)
TasksEnd == \A w \in Workers : worker[w].pc # "idle" ~> worker[w].pc = "idle"

(***************************************************************************)
(* With no fault and no crash the write-through repository is invisible:   *)
(* memory behaves as JobRunner says, its liveness included.                *)
(***************************************************************************)
ImplementsJobRunner == Spec

(***************************************************************************)
(* "Keep a validated memory index backed by transactional PostgreSQL       *)
(* records": when no call is in progress, the job rows are what memory     *)
(* serves.                                                                 *)
(***************************************************************************)
Quiet == api = IdleApi /\ loop = NoCall /\ \A w \in Workers : worker[w].pc = "idle"

IndexBackedByRows ==
  Quiet => \A j \in Jobs : jobs[j].status # "ABSENT" => db.jobs[j] = jobs[j]

(***************************************************************************)
(* "A required persistence service is temporarily unavailable": a job      *)
(* fails with STORAGE_UNAVAILABLE only if the database or the object store *)
(* has refused some call.                                                  *)
(***************************************************************************)
UnavailableMeansOutage ==
  \A j \in Jobs : jobs[j].failure = "STORAGE_UNAVAILABLE" => faults > 0

(***************************************************************************)
(* "Idempotent ... with bounded retries": a retry caused by a transient    *)
(* storage error does not turn a job whose result clients can already read *)
(* into a failure.                                                         *)
(***************************************************************************)
RetryKeepsOutcome ==
  \A j \in Jobs : jobs[j].failure = "STORAGE_UNAVAILABLE" => results[j] = 0
=============================================================================
