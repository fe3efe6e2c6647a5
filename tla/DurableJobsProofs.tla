------------------------- MODULE DurableJobsProofs -------------------------
(***************************************************************************)
(* Proofs about DurableJobs, for any number of jobs, threads, requests,    *)
(* submissions, raising calls and stops of the process, whichever image    *)
(* each job is about.                                                      *)
(*                                                                         *)
(* What memory holds of a result is in the database already (Backed), a    *)
(* row never loses its result or its case, and a thread that is about to   *)
(* announce success has its result there (Threads).  A stop therefore      *)
(* takes nothing a client has read, and leaves the claims of the next      *)
(* process consistent because all its threads are new (Claims).  Without   *)
(* faults a row is ahead of memory only while a thread is between its      *)
(* transaction and its write to memory, so that no insertion conflicts     *)
(* (Calm) and every step is one of JobRunner or unseen.                    *)
(***************************************************************************)
EXTENDS DurableJobs, JobRunnerProofs

-----------------------------------------------------------------------------
(* Types.                                                                  *)

Tables ==
  [jobs : [Jobs -> JobRecord], requests : [Jobs -> Requests \cup {NoRequest}],
   results : [Jobs -> Nat], cases : SUBSET Jobs, evidence : [Assets -> Jobs \cup {Nobody}]]

\* A call of the route knows what its next step needs.
CallOK ==
  /\ loop.at \in {"none", "job_stored", "job_read", "request_stored"}
  /\ loop.at = "none" <=> loop = NoCall
  /\ loop.at = "job_stored" => loop.job \in Jobs /\ loop.request \in Requests
  /\ loop.at \in {"job_read", "request_stored"} => loop.snapshot \in JobRecord
  /\ loop.at \in {"job_read", "request_stored"} => api.pc = "request"

DurableTypeOK ==
  /\ TypeOK
  /\ db \in Tables
  /\ CallOK
  /\ committed \subseteq Workers

-----------------------------------------------------------------------------
(* The inductive invariant.                                                *)

\* The claim lock and the status read under it decide who executes a job.
\* Without cancel(), the status of a claimed job stays what it was.
Claims ==
  /\ \A w \in Workers :
       /\ worker[w].pc = "claimed" <=> lock = w
       /\ worker[w].pc = "claimed" => jobs[worker[w].job].status = "QUEUED"
       /\ worker[w].pc \in Executing => jobs[worker[w].job].status = "RUNNING"
  /\ OneExecutor

Stored(j) == db.results[j] # 0

\* The database holds what memory shows, and each result with its case.
Backed ==
  /\ \A j \in Jobs :
       /\ Stored(j) /\ j \in ChangedJobs => j \in db.cases
       /\ results[j] # 0 => db.results[j] = results[j]
       /\ "SUCCEEDED" \in {jobs[j].status, db.jobs[j].status} => Stored(j)
  /\ cases \subseteq db.cases
  /\ loop.at = "job_read" /\ loop.snapshot.status = "SUCCEEDED" => Stored(api.job)

\* What a thread on its way through publication relies on.
OnItsWay(w) ==
  LET j == worker[w].job IN
  /\ worker[w].pc = "publish" => executions[j] > 0
  /\ worker[w].pc = "publish_case" => j \in ChangedJobs
  /\ worker[w].pc \in {"publish_case", "succeed"} => Stored(j)
  /\ w \in committed => worker[w].pc \in {"claimed", "publish", "succeed", "fail"}
  /\ w \in committed /\ worker[w].pc = "publish" =>
       results[j] = 0 /\ Stored(j) /\ db.results[j] = executions[j]

Threads == \A w \in Workers : OnItsWay(w)

DInv == DurableTypeOK /\ Claims /\ Backed /\ Threads

-----------------------------------------------------------------------------
(* The rows.                                                               *)

\* Rows that may take the place of the present ones: no result and no case
\* is lost or replaced, a changed job's result comes with its case, and
\* success is only recorded over a result.
Extending(rows) ==
  /\ rows \in Tables
  /\ \A j \in Jobs :
       /\ Stored(j) => rows.results[j] = db.results[j]
       /\ rows.results[j] # 0 /\ j \in ChangedJobs => j \in rows.cases
       /\ rows.jobs[j].status = "SUCCEEDED" => rows.results[j] # 0
  /\ db.cases \subseteq rows.cases

\* The fields of the records that the actions build.
LEMMA RowFields ==
  ASSUME NEW a, NEW b, NEW c, NEW d, NEW e
  PROVE  /\ Rows(a, b, c, d, e).jobs = a /\ Rows(a, b, c, d, e).requests = b
         /\ Rows(a, b, c, d, e).results = c /\ Rows(a, b, c, d, e).cases = d
         /\ Rows(a, b, c, d, e).evidence = e
         /\ a \in [Jobs -> JobRecord] /\ b \in [Jobs -> Requests \cup {NoRequest}]
              /\ c \in [Jobs -> Nat] /\ d \subseteq Jobs
              /\ e \in [Assets -> Jobs \cup {Nobody}]
            => Rows(a, b, c, d, e) \in Tables
  BY DEF Rows, Tables

LEMMA TablesTyped ==
  ASSUME db \in Tables
  PROVE  /\ db.jobs \in [Jobs -> JobRecord]
         /\ db.requests \in [Jobs -> Requests \cup {NoRequest}]
         /\ db.results \in [Jobs -> Nat] /\ db.cases \subseteq Jobs
         /\ db.evidence \in [Assets -> Jobs \cup {Nobody}]
  BY DEF Tables

LEMMA CallFields ==
  ASSUME NEW a, NEW b, NEW c, NEW d
  PROVE  /\ Call(a, b, c, d).at = a /\ Call(a, b, c, d).job = b
         /\ Call(a, b, c, d).request = c /\ Call(a, b, c, d).snapshot = d
         /\ NoCall.at = "none"
  BY DEF Call, NoCall

\* A job row is replaced.
LEMMA JobRow ==
  ASSUME DInv, NEW k \in Jobs, NEW job \in JobRecord, NEW request \in Requests \cup {NoRequest},
         job.status = "SUCCEEDED" => Stored(k)
  PROVE  Extending(Rows([db.jobs EXCEPT ![k] = job], [db.requests EXCEPT ![k] = request],
                        db.results, db.cases, db.evidence))
<1> DEFINE rows == Rows([db.jobs EXCEPT ![k] = job], [db.requests EXCEPT ![k] = request],
                        db.results, db.cases, db.evidence)
<1>1. db \in Tables
  BY DEF DInv, DurableTypeOK
<1>2. rows \in Tables
  BY <1>1, TablesTyped, RowFields
<1>3. /\ rows.results = db.results /\ rows.cases = db.cases
      /\ rows.jobs = [db.jobs EXCEPT ![k] = job]
  BY RowFields
<1> HIDE DEF rows
<1>4. \A j \in Jobs : rows.jobs[j] = IF j = k THEN job ELSE db.jobs[j]
  BY <1>1, <1>3, TablesTyped
<1>5. \A j \in Jobs : rows.jobs[j].status = "SUCCEEDED" => Stored(j)
  BY <1>4 DEF DInv, Backed
<1> QED
  BY <1>2, <1>3, <1>5 DEF Extending, DInv, Backed, Stored, rows

\* A result is inserted, with its case if there was a change.
LEMMA ResultRow ==
  ASSUME DInv, NEW k \in Jobs, ~ Conflict(k), executions[k] > 0
  PROVE  /\ Extending(WithResult(k))
         /\ WithResult(k).results[k] = executions[k]
<1>1. db \in Tables /\ executions \in [Jobs -> Nat]
  BY DEF DInv, DurableTypeOK, TypeOK
<1>2. ~ Stored(k) /\ NewAsset[k] \in Assets
  BY DEF Conflict, Stored, Assets
<1> DEFINE found == [db.results EXCEPT ![k] = executions[k]]
           opened == db.cases \cup ({k} \cap ChangedJobs)
           shown == [db.evidence EXCEPT ![NewAsset[k]] = IF k \in ChangedJobs THEN k ELSE @]
<1>3. found \in [Jobs -> Nat] /\ opened \subseteq Jobs
  BY <1>1, TablesTyped
<1>4. shown \in [Assets -> Jobs \cup {Nobody}]
  BY <1>1, <1>2, TablesTyped
<1>5. WithResult(k) = Rows(db.jobs, db.requests, found, opened, shown)
  BY DEF WithResult
<1>6. \A j \in Jobs : found[j] = IF j = k THEN executions[k] ELSE db.results[j]
  BY <1>1, TablesTyped
<1>7. executions[k] # 0
  BY <1>1
<1>8. /\ WithResult(k) \in Tables /\ WithResult(k).results = found
      /\ WithResult(k).cases = opened /\ WithResult(k).jobs = db.jobs
  BY <1>1, <1>3, <1>4, <1>5, TablesTyped, RowFields
<1>9. \A j \in Jobs : /\ Stored(j) => found[j] = db.results[j]
                      /\ found[j] # 0 /\ j \in ChangedJobs => j \in opened
                      /\ db.jobs[j].status = "SUCCEEDED" => found[j] # 0
  BY <1>2, <1>6, <1>7 DEF DInv, Backed, Stored
<1> QED
  BY <1>6, <1>8, <1>9 DEF Extending

LEMMA SameRows == DInv => Extending(db)
  BY DEF Extending, DInv, DurableTypeOK, Backed, Stored

LEMMA JobRowStored ==
  ASSUME DInv, NEW k \in Jobs, NEW job \in JobRecord, job.status = "SUCCEEDED" => Stored(k)
  PROVE  Extending(WithJob(k, job))
  BY JobRow DEF WithJob, DInv, DurableTypeOK, TypeOK

LEMMA RequestRowStored ==
  ASSUME DInv, loop.at = "job_read"
  PROVE  Extending(WithRequest)
<1>1. api.job \in Jobs /\ api.request \in Requests /\ loop.snapshot \in JobRecord
  BY RouteTyped DEF DInv, DurableTypeOK, CallOK
<1>2. loop.snapshot.status = "SUCCEEDED" => Stored(api.job)
  BY DEF DInv, Backed
<1> QED
  BY <1>1, <1>2, JobRow DEF WithRequest

LEMMA StoreJobRow ==
  ASSUME DInv, NEW w \in Workers, worker[w].pc \in {"claimed", "succeed", "fail"}
  PROVE  Extending(WithJob(worker[w].job, JobToSave(worker[w])))
<1>1. worker[w].job \in Jobs /\ JobToSave(worker[w]) \in JobRecord
  BY BusyTyped DEF DInv, DurableTypeOK
<1>2. JobToSave(worker[w]).status = "SUCCEEDED" => Stored(worker[w].job)
  BY DEF JobToSave, Job, DInv, Threads, OnItsWay
<1> QED
  BY <1>1, <1>2, JobRowStored

LEMMA StoreResultRow ==
  ASSUME DInv, NEW w \in Workers, worker[w].pc = "publish", ~ Conflict(worker[w].job)
  PROVE  /\ Extending(WithResult(worker[w].job))
         /\ WithResult(worker[w].job).results[worker[w].job] = executions[worker[w].job]
<1>1. worker[w].job \in Jobs
  BY BusyTyped DEF DInv, DurableTypeOK
<1>2. executions[worker[w].job] > 0
  BY DEF DInv, Threads, OnItsWay
<1> QED
  BY <1>1, <1>2, ResultRow

\* Whatever commits, fails, or commits and raises: no row is lost.
LEMMA RowsExtend ==
  ASSUME DInv, [DurableNext]_allVars
  PROVE  Extending(db')
<1>1. ASSUME NEW j \in Jobs, NEW r \in Requests, InsertJob(j, r) PROVE Extending(db')
  <2>1. db' \in {db, WithJob(j, QueuedJob)}
    BY <1>1 DEF InsertJob, Raises
  <2>2. QueuedJob \in JobRecord /\ QueuedJob.status # "SUCCEEDED"
    BY RunnerAssumption DEF QueuedJob, Job, JobRecord, JobStates, Failures
  <2> QED
    BY <2>1, <2>2, SameRows, JobRowStored
<1>2. CASE UpdateRequest
  BY <1>2, SameRows, RequestRowStored DEF UpdateRequest, Raises
<1>3. ASSUME NEW w \in Workers, StoreJob(w) PROVE Extending(db')
  BY <1>3, SameRows, StoreJobRow DEF StoreJob, ThreadCommits, Raises
<1>4. ASSUME NEW w \in Workers, StoreResult(w) PROVE Extending(db')
  <2>1. worker[w].pc = "publish"
        /\ (db' = db \/ (~ Conflict(worker[w].job) /\ db' = WithResult(worker[w].job)))
    BY <1>4 DEF StoreResult, ThreadCommits, Raises
  <2> QED
    BY <2>1, SameRows, StoreResultRow
<1>5. ASSUME ~(\E j \in Jobs, r \in Requests : InsertJob(j, r)), ~ UpdateRequest,
             ~(\E w \in Workers : StoreJob(w) \/ StoreResult(w))
      PROVE  UNCHANGED db
  BY <1>5 DEF DurableNext, ReturnExisting, IndexJob, ReadJob, IndexRequest, RunDurably,
     RunInMemory, StorageRaises, Index, Crash, durable, allVars
<1> QED
  BY <1>1, <1>2, <1>3, <1>4, <1>5, SameRows

-----------------------------------------------------------------------------
(* Types are kept.                                                         *)

\* A step of the program is one of JobRunner, or a call that raises, or a
\* stop.
LEMMA MemorySteps ==
  ASSUME DurableTypeOK, [DurableNext]_allVars
  PROVE  \/ [Next]_vars
         \/ /\ UNCHANGED <<repo, tasks, lock, worker, canceller, executions>>
            /\ api' \in {api, IdleApi} /\ submissions' \in 0..MaxSubmissions
         \/ \E w \in Workers : ThreadRaises(w) /\ worker[w].pc # "idle"
         \/ Crash
<1>1. ASSUME NEW j \in Jobs, NEW r \in Requests, InsertJob(j, r)
      PROVE  /\ UNCHANGED <<repo, tasks, lock, worker, canceller, executions>>
             /\ api' = api /\ submissions' \in 0..MaxSubmissions
  BY <1>1, RunnerAssumption DEF InsertJob, DurableTypeOK, TypeOK
<1>2. CASE IndexJob
  BY <1>2 DEF IndexJob, DurableTypeOK, CallOK, Next
<1>3. CASE UpdateRequest
  BY <1>3 DEF UpdateRequest, DurableTypeOK, TypeOK
<1>4. CASE ReadJob \/ IndexRequest \/ (Schedule /\ UNCHANGED durable)
           \/ (\E j \in Jobs, r \in Requests : ReturnExisting(j, r))
           \/ (\E w \in Workers, j \in Jobs : StartTask(w, j) /\ UNCHANGED durable)
  BY <1>4 DEF ReadJob, IndexRequest, ReturnExisting, Next
<1>5. ASSUME NEW w \in Workers, StoreJob(w) \/ StoreResult(w)
      PROVE  UNCHANGED vars \/ (ThreadRaises(w) /\ worker[w].pc # "idle")
  BY <1>5 DEF StoreJob, StoreResult, ThreadCommits
<1>6. ASSUME NEW w \in Workers, RunInMemory(w) \/ StorageRaises(w) \/ Index(w) PROVE Next
  BY <1>6 DEF RunInMemory, StorageRaises, Index, Next, Run
<1> QED
  BY <1>1, <1>2, <1>3, <1>4, <1>5, <1>6 DEF DurableNext, RunDurably, allVars

LEMMA AfterRaiseTyped ==
  ASSUME TypeOK, NEW w \in Workers, worker[w].pc # "idle"
  PROVE  AfterRaise(worker[w]) \in BusyThread \cup {IdleWorker}
  BY BusyTyped DEF AfterRaise

LEMMA MemoryTypeOK ==
  ASSUME DurableTypeOK, [DurableNext]_allVars
  PROVE  TypeOK'
<1>1. TypeOK
  BY DEF DurableTypeOK
<1>2. CASE /\ UNCHANGED <<repo, tasks, lock, worker, canceller, executions>>
           /\ api' \in {api, IdleApi} /\ submissions' \in 0..MaxSubmissions
  BY <1>1, <1>2 DEF TypeOK, repo
<1>3. ASSUME NEW w \in Workers, ThreadRaises(w), worker[w].pc # "idle" PROVE TypeOK'
  <2>1. worker' \in [Workers -> BusyThread \cup {IdleWorker}]
    BY <1>1, <1>3, AfterRaiseTyped DEF ThreadRaises, TypeOK
  <2>2. lock' \in Workers \cup {Nobody}
    BY <1>1, <1>3 DEF ThreadRaises, TypeOK
  <2> QED
    BY <1>1, <1>3, <2>1, <2>2 DEF ThreadRaises, TypeOK, repo
<1>4. CASE Crash
  <2>1. db \in Tables
    BY DEF DurableTypeOK
  <2>2. /\ jobs' \in [Jobs -> JobRecord]
        /\ requests' \in [Jobs -> Requests \cup {NoRequest}]
        /\ results' \in [Jobs -> Nat] /\ cases' \subseteq Jobs
    BY <1>4, <2>1, TablesTyped DEF Crash
  <2> QED
    BY <1>1, <1>4, <2>2 DEF Crash, TypeOK
<1> QED
  BY <1>1, <1>2, <1>3, <1>4, MemorySteps, NextTypeOK

CallBacked == loop.at = "job_read" /\ loop.snapshot.status = "SUCCEEDED" => Stored(api.job)

\* What the route reads before a transaction is still backed when it writes.
LEMMA CallKept ==
  ASSUME DInv, [DurableNext]_allVars
  PROVE  (CallOK /\ CallBacked)'
<1> USE DEF CallOK, CallBacked
<1>1. CallOK /\ CallBacked /\ TypeOK
  BY DEF DInv, DurableTypeOK, Backed
<1>2. \A j \in Jobs : Stored(j) => Stored(j)'
  BY RowsExtend DEF Extending, Stored
<1>3. CASE UNCHANGED <<loop, api>>
  <2>1. loop.at = "job_read" => api.job \in Jobs
    BY <1>1, RouteTyped
  <2> QED
    BY <1>1, <1>2, <1>3, <2>1 DEF Stored
<1>4. CASE loop' = NoCall
  BY <1>4, CallFields
<1>5. ASSUME NEW j \in Jobs, NEW r \in Requests, InsertJob(j, r)
      PROVE  (CallOK /\ CallBacked)'
  <2>1. CASE loop' = Call("job_stored", j, r, AbsentJob)
    BY <2>1, CallFields
  <2>2. CASE UNCHANGED loop
    BY <1>3, <1>5, <2>2 DEF InsertJob
  <2> QED
    BY <1>5, <2>1, <2>2 DEF InsertJob
<1>6. CASE ReadJob
  <2>1. /\ loop' = Call("job_read", Nobody, NoRequest, jobs[api.job]) /\ api' = api
        /\ api.pc = "request" /\ db' = db
    BY <1>6 DEF ReadJob, vars
  <2>2. api.job \in Jobs
    BY <1>1, <2>1, RouteTyped
  <2>3. jobs[api.job] \in JobRecord
    BY <1>1, <2>2 DEF TypeOK
  <2>4. jobs[api.job].status = "SUCCEEDED" => Stored(api.job)
    BY <2>2 DEF DInv, Backed
  <2> QED
    BY <2>1, <2>3, <2>4, CallFields DEF Stored
<1>7. CASE UpdateRequest
  <2>1. CASE loop' = Call("request_stored", Nobody, NoRequest, loop.snapshot) /\ UNCHANGED api
    BY <1>1, <1>7, <2>1, CallFields DEF UpdateRequest
  <2> QED
    BY <1>4, <1>7, <2>1 DEF UpdateRequest
<1>8. CASE \/ \E j \in Jobs, r \in Requests : ReturnExisting(j, r)
           \/ Schedule /\ UNCHANGED durable
  <2>1. loop' = loop /\ loop.at \notin {"job_read", "request_stored"}
    BY <1>1, <1>8, CallFields DEF ReturnExisting, Schedule, durable
  <2> QED
    BY <1>1, <2>1
<1>9. CASE IndexJob \/ IndexRequest \/ Crash
  BY <1>4, <1>9 DEF IndexJob, IndexRequest, Crash
<1>10. CASE \/ \E w \in Workers, j \in Jobs : StartTask(w, j) /\ UNCHANGED durable
            \/ \E w \in Workers : RunDurably(w)
            \/ UNCHANGED allVars
  <2>1. UNCHANGED <<loop, api>>
    BY <1>10 DEF StartTask, RunDurably, RunInMemory, StorageRaises, StoreJob, StoreResult,
       ThreadCommits, ThreadRaises, Index, Claim, SaveRunning, Execute, HandlerComputes,
       HandlerFailsTransiently, HandlerFailsPermanently, PublishResult, PublishCase,
       SaveOutcome, durable, vars, allVars
  <2> QED
    BY <1>3, <2>1
<1> QED
  BY <1>5, <1>6, <1>7, <1>8, <1>9, <1>10 DEF DurableNext

LEMMA DurableTypeKept ==
  ASSUME DInv, [DurableNext]_allVars
  PROVE  DurableTypeOK'
<1>1. committed' \subseteq Workers
  BY DEF DInv, DurableTypeOK, DurableNext, InsertJob, ReturnExisting, IndexJob, ReadJob,
     UpdateRequest, IndexRequest, RunDurably, RunInMemory, StorageRaises, StoreJob, StoreResult,
     ThreadCommits, ThreadRaises, Index, Crash, durable, allVars
<1> QED
  BY <1>1, MemoryTypeOK, CallKept, RowsExtend DEF Extending, DInv, DurableTypeOK

-----------------------------------------------------------------------------
(* The claims.                                                             *)

\* A step of one thread: what it may do to the claims.
LEMMA ClaimsByOne ==
  ASSUME Claims, TypeOK, TypeOK', NEW u \in Workers, NEW k \in Jobs,
         \A v \in Workers : v # u => worker'[v] = worker[v],
         worker[u].pc # "idle" => worker[u].job = k,
         worker'[u].pc # "idle" => worker'[u].job = k,
         \A j \in Jobs : j # k => jobs'[j] = jobs[j],
         \/ /\ worker[u].pc \notin {"claimed"} \cup Executing /\ worker'[u].pc \in {"idle", "claim"}
            /\ jobs'[k] = jobs[k] /\ lock' = lock
         \/ /\ worker[u].pc \in Executing /\ worker'[u].pc = "idle" /\ lock' = lock
         \/ /\ worker[u].pc = "claim" /\ lock = Nobody /\ jobs[k].status = "QUEUED"
            /\ worker'[u].pc = "claimed" /\ jobs'[k] = jobs[k] /\ lock' = u
         \/ /\ worker[u].pc = "claimed" /\ worker'[u].pc = "execute"
            /\ jobs'[k].status = "RUNNING" /\ lock' = Nobody
         \/ /\ worker[u].pc = "claimed" /\ worker'[u].pc = "idle"
            /\ jobs'[k] = jobs[k] /\ lock' = Nobody
         \/ /\ worker[u].pc \in Executing /\ worker'[u].pc \in Executing
            /\ jobs'[k] = jobs[k] /\ lock' = lock
  PROVE  Claims'
<1> USE DEF Claims, Executing
<1>1. \A w \in Workers : worker[w].pc # "idle" => worker[w].job \in Jobs
  BY BusyTyped
<1>2. \A w \in Workers : worker[w].pc = "claimed" <=> lock = w
  OBVIOUS
<1>3. \A w \in Workers : worker'[w].pc = "claimed" <=> lock' = w
  BY <1>2, RunnerAssumption
<1>4. \A v \in Workers : v # u /\ worker[v].pc \in Executing /\ worker[v].job = k
        => worker[u].pc \notin {"claimed"} \cup Executing /\ jobs[k].status = "RUNNING"
  BY DEF OneExecutor, Runs
<1>5. \A v \in Workers : v # u /\ worker[v].pc = "claimed" /\ worker[v].job = k
        => worker[u].pc \notin {"claimed"} \cup Executing /\ jobs[k].status = "QUEUED"
  BY <1>2
<1>6. \A w \in Workers :
        /\ worker'[w].pc = "claimed" => jobs'[worker'[w].job].status = "QUEUED"
        /\ worker'[w].pc \in Executing => jobs'[worker'[w].job].status = "RUNNING"
  BY <1>1, <1>4, <1>5
<1>7. ASSUME NEW v \in Workers, v # u, worker'[v].pc \in Executing, worker'[v].job = k,
             worker'[u].pc \in Executing
      PROVE  FALSE
  BY <1>4, <1>7
<1>8. OneExecutor'
  BY <1>7 DEF OneExecutor, Runs
<1> QED
  BY <1>3, <1>6, <1>8

LEMMA TransientFields ==
  ASSUME NEW t
  PROVE  /\ AfterTransient(t).pc \in {"execute", "fail"}
         /\ AfterTransient(t).job = t.job
  BY DEF AfterTransient, FailedWith, Thread

LEMMA ClaimsKept ==
  ASSUME DInv, DurableTypeOK', [DurableNext]_allVars
  PROVE  Claims'
<1>1. Claims /\ TypeOK /\ TypeOK'
  BY DEF DInv, DurableTypeOK
<1>2. CASE UNCHANGED <<jobs, worker, lock>>
  BY <1>1, <1>2 DEF Claims, OneExecutor, Runs
<1>3. ASSUME NEW k \in Jobs, NEW r \in Requests, Submit(k, r) PROVE Claims'
  <2>1. UNCHANGED <<worker, lock>>
    BY <1>3 DEF Submit
  <2>2. \A j \in Jobs : jobs[j].status # "ABSENT" => jobs'[j] = jobs[j]
    BY <1>1, <1>3 DEF Submit, TypeOK
  <2>3. \A w \in Workers : worker[w].pc # "idle" => worker[w].job \in Jobs
    BY <1>1, BusyTyped
  <2> QED
    BY <1>1, <2>1, <2>2, <2>3 DEF Claims, OneExecutor, Runs, Executing
<1>4. ASSUME NEW u \in Workers, NEW k \in Jobs, StartTask(u, k) PROVE Claims'
  <2>1. /\ worker[u].pc = "idle" /\ worker' = [worker EXCEPT ![u] = Thread("claim", k, 0, "NONE")]
        /\ UNCHANGED <<jobs, lock>>
    BY <1>4 DEF StartTask, repo
  <2>2. worker'[u] = Thread("claim", k, 0, "NONE") /\ \A v \in Workers : v # u => worker'[v] = worker[v]
    BY <1>1, <2>1 DEF TypeOK
  <2> QED
    BY <1>1, <2>1, <2>2, Fields, ClaimsByOne DEF Executing
<1>5. ASSUME NEW u \in Workers, NEW k, k = worker[u].job, worker[u].pc # "idle",
             NEW next, worker' = [worker EXCEPT ![u] = next],
             \/ Claim(u) \/ SaveRunning(u) \/ SaveOutcome(u)
             \/ ThreadRaises(u) /\ worker[u].pc \in {"claimed"} \cup Executing
             \/ worker[u].pc \in Executing /\ next.pc \in Executing /\ next.job = k
                  /\ UNCHANGED <<jobs, lock>>
      PROVE  Claims'
  <2>1. k \in Jobs
    BY <1>1, <1>5, BusyTyped
  <2>2. worker'[u] = next /\ \A v \in Workers : v # u => worker'[v] = worker[v]
    BY <1>1, <1>5 DEF TypeOK
  <2>3. CASE Claim(u)
    <3>1. CASE jobs[k].status = "QUEUED"
      <4>1. /\ worker'[u] = At(worker[u], "claimed") /\ lock' = u /\ lock = Nobody
            /\ worker[u].pc = "claim" /\ UNCHANGED jobs
        BY <1>1, <1>5, <2>3, <3>1 DEF Claim, repo, TypeOK
      <4> QED
        BY <1>1, <1>5, <2>1, <2>2, <3>1, <4>1, Fields, ClaimsByOne
    <3>2. CASE jobs[k].status # "QUEUED"
      <4>1. /\ worker'[u] = IdleWorker /\ lock' = lock
            /\ worker[u].pc = "claim" /\ UNCHANGED jobs
        BY <1>1, <1>5, <2>3, <3>2 DEF Claim, repo, TypeOK
      <4> QED
        BY <1>1, <1>5, <2>1, <2>2, <4>1, Fields, ClaimsByOne DEF Executing
    <3> QED
      BY <3>1, <3>2
  <2>4. CASE SaveRunning(u)
    <3>1. /\ worker'[u] = At(worker[u], "execute") /\ worker[u].pc = "claimed" /\ lock' = Nobody
          /\ jobs'[k].status = "RUNNING" /\ \A j \in Jobs : j # k => jobs'[j] = jobs[j]
      BY <1>1, <1>5, <2>1, <2>4 DEF SaveRunning, JobToSave, Job, TypeOK
    <3> QED
      BY <1>1, <1>5, <2>1, <2>2, <3>1, Fields, ClaimsByOne
  <2>5. CASE SaveOutcome(u)
    <3>1. /\ worker'[u] = IdleWorker /\ worker[u].pc \in Executing /\ lock' = lock
          /\ \A j \in Jobs : j # k => jobs'[j] = jobs[j]
      BY <1>1, <1>5, <2>1, <2>5 DEF SaveOutcome, Executing, TypeOK
    <3> QED
      BY <1>1, <1>5, <2>1, <2>2, <3>1, Fields, ClaimsByOne
  <2>6. CASE ThreadRaises(u) /\ worker[u].pc = "claimed"
    <3>1. worker'[u] = IdleWorker /\ lock' = Nobody /\ UNCHANGED jobs
      BY <1>1, <1>5, <2>6 DEF ThreadRaises, AfterRaise, repo, TypeOK, Claims
    <3> QED
      BY <1>1, <1>5, <2>1, <2>2, <2>6, <3>1, Fields, ClaimsByOne
  <2>7. CASE ThreadRaises(u) /\ worker[u].pc \in Executing
    <3>1. lock # u
      BY <1>1, <2>7 DEF Claims
    <3>2. worker'[u] = AfterRaise(worker[u]) /\ UNCHANGED <<lock, jobs>>
      BY <1>1, <2>7, <3>1 DEF ThreadRaises, repo, TypeOK
    <3>3. CASE worker[u].pc = "fail"
      <4>1. worker'[u] = IdleWorker /\ worker[u].pc \in Executing
        BY <3>2, <3>3 DEF AfterRaise, Executing
      <4> QED
        BY <1>1, <1>5, <2>1, <2>2, <3>2, <4>1, Fields, ClaimsByOne
    <3>4. CASE worker[u].pc \in Executing \ {"fail"}
      <4>1. worker'[u] = AfterTransient(worker[u])
        BY <3>2, <3>4 DEF AfterRaise, Executing
      <4>2. worker'[u].pc \in {"execute", "fail"} /\ worker'[u].job = k
        BY <1>5, <4>1, TransientFields
      <4> QED
        BY <1>1, <1>5, <2>1, <2>2, <3>2, <3>4, <4>2, ClaimsByOne DEF Executing
    <3> QED
      BY <2>7, <3>3, <3>4
  <2>8. CASE worker[u].pc \in Executing /\ next.pc \in Executing /\ next.job = k
               /\ UNCHANGED <<jobs, lock>>
    BY <1>1, <1>5, <2>1, <2>2, <2>8, ClaimsByOne
  <2> QED
    BY <1>5, <2>3, <2>4, <2>5, <2>6, <2>7, <2>8
<1>6. ASSUME NEW u \in Workers, Index(u) PROVE Claims'
  <2>1. \E next : worker' = [worker EXCEPT ![u] = next]
    BY <1>6 DEF Index, SaveRunning, PublishResult, SaveOutcome
  <2>2. worker[u].pc # "idle"
    BY <1>6 DEF Index, SaveRunning, PublishResult, SaveOutcome
  <2>3. CASE PublishResult(u)
    <3>1. PICK next \in {At(worker[u], "publish_case"), FailedWith(worker[u], "PERMANENT"),
                         At(worker[u], "succeed")} : worker' = [worker EXCEPT ![u] = next]
      BY <2>3 DEF PublishResult
    <3>2. next.pc \in Executing /\ next.job = worker[u].job
      BY <3>1, Fields DEF Executing
    <3>3. worker[u].pc \in Executing /\ UNCHANGED <<jobs, lock>>
      BY <2>3 DEF PublishResult, Executing
    <3> QED
      BY <1>5, <2>2, <3>1, <3>2, <3>3
  <2> QED
    BY <1>5, <1>6, <2>1, <2>2, <2>3 DEF Index
<1>7. ASSUME NEW u \in Workers, RunInMemory(u) \/ StorageRaises(u) PROVE Claims'
  <2>1. CASE Claim(u)
    <3>1. worker[u].pc # "idle" /\ \E next : worker' = [worker EXCEPT ![u] = next]
      BY <2>1 DEF Claim
    <3> QED
      BY <1>5, <2>1, <3>1
  <2>2. CASE ~ Claim(u)
    <3>1. PICK next \in {At(worker[u], "publish"), At(worker[u], "succeed"),
                         AfterTransient(worker[u]), FailedWith(worker[u], "PERMANENT")} :
            worker' = [worker EXCEPT ![u] = next]
      BY <1>7, <2>2 DEF RunInMemory, StorageRaises, PublishCase, HandlerComputes,
         HandlerFailsTransiently, HandlerFailsPermanently, Execute
    <3>2. next.pc \in Executing /\ next.job = worker[u].job
      BY <3>1, Fields, TransientFields DEF Executing
    <3>3. worker[u].pc \in Executing /\ UNCHANGED <<jobs, lock>>
      BY <1>7, <2>2 DEF RunInMemory, StorageRaises, PublishCase, HandlerComputes, repo,
         HandlerFailsTransiently, HandlerFailsPermanently, Execute, Executing
    <3>4. worker[u].pc # "idle"
      BY <3>3 DEF Executing
    <3> QED
      BY <1>5, <3>1, <3>2, <3>3, <3>4
  <2> QED
    BY <2>1, <2>2
<1>8. ASSUME NEW u \in Workers, StoreJob(u) \/ StoreResult(u) PROVE Claims'
  <2>1. CASE UNCHANGED vars
    BY <1>2, <2>1 DEF vars, repo
  <2>2. CASE ThreadRaises(u) /\ worker[u].pc \in {"claimed"} \cup Executing
    <3>1. worker[u].pc # "idle" /\ \E next : worker' = [worker EXCEPT ![u] = next]
      BY <2>2 DEF ThreadRaises, Executing
    <3> QED
      BY <1>5, <2>2, <3>1
  <2> QED
    BY <1>8, <2>1, <2>2 DEF StoreJob, StoreResult, ThreadCommits, Executing
<1>9. CASE Crash
  <2>1. \A w \in Workers : worker'[w].pc = "idle"
    BY <1>9, Fields DEF Crash
  <2> QED
    BY <1>9, <2>1, RunnerAssumption DEF Crash, Claims, OneExecutor, Runs, Executing
<1>10. CASE IndexJob \/ (\E j \in Jobs, r \in Requests : ReturnExisting(j, r))
  BY <1>3, <1>10 DEF IndexJob, ReturnExisting, DInv, DurableTypeOK, CallOK
<1>11. CASE \/ \E j \in Jobs, r \in Requests : InsertJob(j, r)
            \/ ReadJob \/ UpdateRequest \/ IndexRequest \/ Schedule \/ UNCHANGED allVars
  BY <1>2, <1>11 DEF InsertJob, ReadJob, UpdateRequest, IndexRequest, SaveRequest, Schedule,
     repo, vars, allVars
<1> QED
  BY <1>4, <1>6, <1>7, <1>8, <1>9, <1>10, <1>11 DEF DurableNext, RunDurably

-----------------------------------------------------------------------------
(* The database backs memory.                                              *)

LEMMA BackedBy ==
  ASSUME DInv, Extending(db'), CallBacked',
         \A j \in Jobs :
           /\ results'[j] # 0 => results'[j] = results[j] \/ db'.results[j] = results'[j]
           /\ jobs'[j].status = "SUCCEEDED"
                => jobs[j].status = "SUCCEEDED" \/ db'.results[j] # 0,
         cases' \subseteq cases \cup db'.cases
  PROVE  Backed'
<1>1. \A j \in Jobs : Stored(j) => db'.results[j] = db.results[j]
  BY DEF Extending
<1>2. \A j \in Jobs : results'[j] # 0 => db'.results[j] = results'[j]
  BY <1>1 DEF DInv, Backed, Stored
<1>3. \A j \in Jobs : jobs'[j].status = "SUCCEEDED" => db'.results[j] # 0
  BY <1>1 DEF DInv, Backed, Stored
<1>4. cases' \subseteq db'.cases
  BY DEF DInv, Backed, Extending
<1> QED
  BY <1>2, <1>3, <1>4 DEF Backed, Extending, CallBacked, Stored

LEMMA BackedKept ==
  ASSUME DInv, Extending(db'), CallBacked', [DurableNext]_allVars
  PROVE  Backed'
<1>1. TypeOK /\ \A w \in Workers : worker[w].pc # "idle" => worker[w].job \in Jobs
  BY BusyTyped DEF DInv, DurableTypeOK
<1>2. CASE UNCHANGED <<jobs, results, cases>>
  BY <1>2, BackedBy
<1>3. ASSUME NEW k \in Jobs, NEW r \in Requests, Submit(k, r) PROVE Backed'
  <2>1. /\ UNCHANGED <<results, cases>>
        /\ \A j \in Jobs : jobs'[j] = jobs[j] \/ jobs'[j].status = "QUEUED"
    BY <1>1, <1>3 DEF Submit, QueuedJob, Job, TypeOK
  <2> QED
    BY <2>1, BackedBy
<1>4. ASSUME NEW u \in Workers, NEW k, k = worker[u].job, Index(u) PROVE Backed'
  <2>1. db' = db /\ k \in Jobs
    BY <1>1, <1>4 DEF Index, SaveRunning, PublishResult, SaveOutcome
  <2>2. CASE SaveRunning(u) \/ SaveOutcome(u)
    <3>1. /\ jobs' = [jobs EXCEPT ![k] = JobToSave(worker[u])] /\ UNCHANGED <<results, cases>>
          /\ worker[u].pc \in {"claimed", "succeed", "fail"}
      BY <1>4, <2>2 DEF SaveRunning, SaveOutcome
    <3>2. JobToSave(worker[u]).status = "SUCCEEDED" => db.results[k] # 0
      BY <1>4, <3>1 DEF JobToSave, Job, DInv, Threads, OnItsWay, Stored
    <3>3. \A j \in Jobs : jobs'[j] = IF j = k THEN JobToSave(worker[u]) ELSE jobs[j]
      BY <1>1, <2>1, <3>1 DEF TypeOK
    <3> QED
      BY <2>1, <3>1, <3>2, <3>3, BackedBy
  <2>3. CASE PublishResult(u)
    <3>1. /\ worker[u].pc = "publish" /\ UNCHANGED <<jobs, cases>>
          /\ results' = [results EXCEPT ![k] = IF @ = 0 THEN executions[k] ELSE @]
      BY <1>4, <2>3 DEF PublishResult
    <3>2. results[k] = 0 => u \in committed
      BY <1>4, <3>1 DEF Index, Unpublished, SaveRunning, SaveOutcome
    <3>3. results[k] = 0 => db.results[k] = executions[k]
      BY <1>4, <3>1, <3>2 DEF DInv, Threads, OnItsWay
    <3>4. \A j \in Jobs : results'[j] = IF j = k /\ results[k] = 0 THEN executions[k] ELSE results[j]
      BY <1>1, <2>1, <3>1 DEF TypeOK
    <3> QED
      BY <2>1, <3>1, <3>3, <3>4, BackedBy
  <2> QED
    BY <1>4, <2>2, <2>3 DEF Index
<1>5. ASSUME NEW u \in Workers, PublishCase(u), db' = db PROVE Backed'
  <2>1. /\ worker[u].pc = "publish_case" /\ UNCHANGED <<jobs, results>>
        /\ cases' = cases \cup {worker[u].job}
    BY <1>5 DEF PublishCase
  <2>2. worker[u].job \in db.cases
    BY <1>1, <2>1 DEF DInv, Threads, OnItsWay, Backed
  <2> QED
    BY <1>5, <2>1, <2>2, BackedBy
<1>6. CASE Crash
  <2>1. /\ jobs' = db.jobs /\ results' = db.results /\ cases' = db.cases /\ db' = db
    BY <1>6 DEF Crash
  <2>2. \A j \in Jobs : db.jobs[j].status = "SUCCEEDED" => db.results[j] # 0
    BY DEF DInv, Backed, Stored
  <2> QED
    BY <2>1, <2>2, BackedBy
<1>7. ASSUME NEW u \in Workers, RunInMemory(u) \/ StorageRaises(u) PROVE Backed'
  <2>1. CASE PublishCase(u)
    BY <1>5, <1>7, <2>1 DEF RunInMemory, StorageRaises, durable
  <2>2. CASE ~ PublishCase(u)
    <3>1. UNCHANGED <<jobs, results, cases>>
      BY <1>7, <2>2 DEF RunInMemory, StorageRaises, Claim, HandlerComputes, repo,
         HandlerFailsTransiently, HandlerFailsPermanently, Execute
    <3> QED
      BY <1>2, <3>1
  <2> QED
    BY <2>1, <2>2
<1>8. CASE IndexJob \/ (\E j \in Jobs, r \in Requests : ReturnExisting(j, r))
  BY <1>3, <1>8 DEF IndexJob, ReturnExisting, DInv, DurableTypeOK, CallOK
<1>9. CASE \/ \E j \in Jobs, r \in Requests : InsertJob(j, r)
           \/ ReadJob \/ UpdateRequest \/ IndexRequest \/ Schedule \/ UNCHANGED allVars
           \/ \E w \in Workers, j \in Jobs : StartTask(w, j)
           \/ \E w \in Workers : StoreJob(w) \/ StoreResult(w)
  BY <1>2, <1>9 DEF InsertJob, ReadJob, UpdateRequest, IndexRequest, SaveRequest, Schedule,
     StartTask, StoreJob, StoreResult, ThreadCommits, ThreadRaises, repo, vars, allVars
<1> QED
  BY <1>4, <1>6, <1>7, <1>8, <1>9 DEF DurableNext, RunDurably

-----------------------------------------------------------------------------
(* The threads.                                                            *)

\* A thread that does not take the step.
LEMMA OtherThread ==
  ASSUME DInv, Extending(db'), NEW v \in Workers, worker'[v] = worker[v],
         v \in committed' <=> v \in committed,
         worker[v].pc = "publish" => /\ executions'[worker[v].job] = executions[worker[v].job]
                                     /\ results'[worker[v].job] = results[worker[v].job]
  PROVE  OnItsWay(v)'
<1>1. worker[v].pc # "idle" => worker[v].job \in Jobs
  BY BusyTyped DEF DInv, DurableTypeOK
<1>2. \A j \in Jobs : Stored(j) => Stored(j)' /\ db'.results[j] = db.results[j]
  BY DEF Extending, Stored
<1> QED
  BY <1>1, <1>2 DEF DInv, Threads, OnItsWay

LEMMA OtherThreads ==
  ASSUME DInv, Extending(db'), NEW u \in Workers,
         RunDurably(u) \/ (\E j \in Jobs : StartTask(u, j) /\ UNCHANGED durable)
  PROVE  \A v \in Workers : v # u => OnItsWay(v)'
<1> SUFFICES ASSUME NEW v \in Workers, v # u PROVE OnItsWay(v)'
  OBVIOUS
<1>1. TypeOK /\ OneExecutor
  BY DEF DInv, DurableTypeOK, Claims
<1>2. /\ \E next : worker' = [worker EXCEPT ![u] = next] \/ worker' = worker
      /\ committed' \in {committed, committed \cup {u}, committed \ {u}}
  BY DEF RunDurably, RunInMemory, StorageRaises, StoreJob, StoreResult, ThreadCommits,
     ThreadRaises, Index, Claim, SaveRunning, Execute, HandlerComputes, HandlerFailsTransiently,
     HandlerFailsPermanently, PublishResult, PublishCase, SaveOutcome, StartTask, durable, vars
<1>3. worker'[v] = worker[v] /\ (v \in committed' <=> v \in committed)
  BY <1>1, <1>2 DEF TypeOK
<1>4. \/ UNCHANGED <<executions, results>>
      \/ /\ worker[u].pc \in {"execute", "publish"}
         /\ \E n : executions' = [executions EXCEPT ![worker[u].job] = n] \/ executions' = executions
         /\ \E n : results' = [results EXCEPT ![worker[u].job] = n] \/ results' = results
  BY DEF RunDurably, RunInMemory, StorageRaises, StoreJob, StoreResult, ThreadCommits,
     ThreadRaises, Index, Claim, SaveRunning, Execute, HandlerComputes, HandlerFailsTransiently,
     HandlerFailsPermanently, PublishResult, PublishCase, SaveOutcome, StartTask, durable, vars,
     repo
<1>5. worker[v].pc = "publish" /\ worker[u].pc \in {"execute", "publish"}
        => worker[v].job # worker[u].job /\ worker[v].job \in Jobs
  BY <1>1, BusyTyped DEF OneExecutor, Runs, Executing
<1>6. worker[v].pc = "publish" => worker[v].job \in Jobs
  BY <1>1, BusyTyped
<1>7. worker[v].pc = "publish" => /\ executions'[worker[v].job] = executions[worker[v].job]
                                  /\ results'[worker[v].job] = results[worker[v].job]
  BY <1>1, <1>4, <1>5, <1>6 DEF TypeOK
<1> QED
  BY <1>3, <1>7, OtherThread

\* A thread far from publication, or back there.
LEMMA Elsewhere ==
  ASSUME NEW u \in Workers, u \notin committed',
         worker'[u].pc \in {"idle", "claim", "claimed", "execute", "fail"}
  PROVE  OnItsWay(u)'
  BY DEF OnItsWay

\* The thread that takes the step.
LEMMA ThisThread ==
  ASSUME DInv, DurableTypeOK', Extending(db'), NEW u \in Workers, RunDurably(u),
         NEW k, k = worker[u].job
  PROVE  OnItsWay(u)'
<1>1. TypeOK /\ (worker[u].pc # "idle" => k \in Jobs)
  BY BusyTyped DEF DInv, DurableTypeOK
<1>2. u \in committed => worker[u].pc \in {"claimed", "publish", "succeed", "fail"}
  BY DEF DInv, Threads, OnItsWay
<1>3. \A j \in Jobs : Stored(j) => Stored(j)'
  BY DEF Extending, Stored
<1>4. CASE StoreJob(u) /\ ThreadCommits(u, db')
  <2>1. UNCHANGED worker /\ worker[u].pc \in {"claimed", "succeed", "fail"}
    BY <1>4 DEF StoreJob, ThreadCommits, vars
  <2>2. worker[u].pc = "succeed" => Stored(k)'
    BY <1>1, <1>3, <2>1 DEF DInv, Threads, OnItsWay
  <2> QED
    BY <2>1, <2>2 DEF OnItsWay
<1>5. CASE /\ worker[u].pc = "publish" /\ ~ Conflict(k) /\ Unpublished(k)
           /\ ThreadCommits(u, WithResult(k))
  <2>1. UNCHANGED <<worker, executions, results>> /\ db' = WithResult(k)
    BY <1>5 DEF ThreadCommits, vars, repo
  <2>2. k \in Jobs /\ executions[k] > 0
    BY <1>1, <1>5 DEF DInv, Threads, OnItsWay
  <2>3. results[k] = 0
    BY <1>5, <2>2 DEF Conflict, DInv, Backed
  <2>4. db'.results[k] = executions[k]
    BY <1>5, <2>1, StoreResultRow
  <2>5. executions[k] # 0
    BY <1>1, <2>2 DEF TypeOK
  <2>6. /\ worker'[u].pc = "publish" /\ worker'[u].job = k
        /\ results'[k] = 0 /\ executions'[k] > 0
        /\ db'.results[k] = executions'[k] /\ db'.results[k] # 0
    BY <1>5, <2>1, <2>2, <2>3, <2>4, <2>5
  <2> QED
    BY <2>6 DEF OnItsWay, Stored
<1>6. CASE ThreadRaises(u) /\ (StoreJob(u) \/ StoreResult(u))
  <2>1. u \notin committed /\ UNCHANGED committed
    BY <1>6 DEF StoreJob, StoreResult, ThreadRaises
  <2>2. worker'[u] = AfterRaise(worker[u])
    BY <1>1, <1>6 DEF ThreadRaises, TypeOK
  <2>3. worker'[u].pc \in {"idle", "execute", "fail"}
    BY <2>2, Fields, TransientFields DEF AfterRaise
  <2> QED
    BY <2>1, <2>3, Elsewhere
<1>7. CASE Index(u)
  <2>1. committed' = committed \ {u} /\ db' = db /\ k \in Jobs
    BY <1>1, <1>7 DEF Index, SaveRunning, PublishResult, SaveOutcome
  <2>2. CASE SaveRunning(u) \/ SaveOutcome(u)
    <3>1. worker'[u] \in {At(worker[u], "execute"), IdleWorker}
      BY <1>1, <2>2 DEF SaveRunning, SaveOutcome, TypeOK
    <3>2. worker'[u].pc \in {"idle", "execute"}
      BY <3>1, Fields
    <3> QED
      BY <2>1, <3>2, Elsewhere
  <2>3. CASE PublishResult(u)
    <3>1. /\ worker[u].pc = "publish"
          /\ worker'[u] = IF results[k] = 0 /\ k \in ChangedJobs THEN At(worker[u], "publish_case")
                          ELSE IF results[k] # 0 /\ ~(k \in ChangedJobs /\ k \in cases)
                          THEN FailedWith(worker[u], "PERMANENT")
                          ELSE At(worker[u], "succeed")
      BY <1>1, <2>3 DEF PublishResult, TypeOK
    <3>2. Stored(k)
      <4>1. CASE u \in committed
        BY <3>1, <4>1 DEF DInv, Threads, OnItsWay
      <4>2. CASE u \notin committed
        <5>1. results[k] # 0
          BY <1>7, <3>1, <4>2 DEF Index, Unpublished, SaveRunning, SaveOutcome
        <5> QED
          BY <2>1, <5>1 DEF DInv, Backed, Stored
      <4> QED
        BY <4>1, <4>2
    <3>3. worker'[u].job = k /\ worker'[u].pc \in {"publish_case", "fail", "succeed"}
      BY <3>1, Fields
    <3>4. worker'[u].pc = "publish_case" => k \in ChangedJobs
      BY <3>1, Fields
    <3> QED
      BY <2>1, <3>2, <3>3, <3>4 DEF OnItsWay, Stored
  <2> QED
    BY <1>7, <2>2, <2>3 DEF Index
<1>8. CASE RunInMemory(u) \/ StorageRaises(u)
  <2>1. committed' = committed
    BY <1>8 DEF RunInMemory, StorageRaises, durable
  <2>2. CASE Claim(u)
    <3>1. worker[u].pc = "claim" /\ worker'[u] \in {At(worker[u], "claimed"), IdleWorker}
      BY <1>1, <2>2 DEF Claim, TypeOK
    <3>2. worker'[u].pc \in {"idle", "claimed"}
      BY <3>1, Fields
    <3> QED
      BY <1>2, <2>1, <3>1, <3>2, Elsewhere
  <2>3. CASE PublishCase(u)
    <3>1. worker[u].pc = "publish_case" /\ worker'[u] = At(worker[u], "succeed")
      BY <1>1, <2>3 DEF PublishCase, TypeOK
    <3>2. worker'[u].pc = "succeed" /\ worker'[u].job = k
      BY <3>1, Fields
    <3>3. Stored(k)'
      BY <1>1, <1>3, <3>1 DEF DInv, Threads, OnItsWay
    <3> QED
      BY <1>2, <2>1, <3>1, <3>2, <3>3 DEF OnItsWay
  <2>4. CASE HandlerComputes(u)
    <3>1. /\ worker[u].pc = "execute" /\ worker'[u] = At(worker[u], "publish")
          /\ executions' = [executions EXCEPT ![k] = @ + 1]
      BY <1>1, <2>4 DEF HandlerComputes, Execute, TypeOK
    <3>2. worker'[u].pc = "publish" /\ worker'[u].job = k
      BY <3>1, Fields
    <3>3. executions'[k] > 0
      BY <1>1, <3>1 DEF TypeOK
    <3> QED
      BY <1>2, <2>1, <3>1, <3>2, <3>3 DEF OnItsWay
  <2>5. CASE HandlerFailsTransiently(u) \/ HandlerFailsPermanently(u)
    <3>1. /\ worker[u].pc = "execute"
          /\ worker'[u] \in {AfterTransient(worker[u]), FailedWith(worker[u], "PERMANENT")}
      BY <1>1, <2>5 DEF HandlerFailsTransiently, HandlerFailsPermanently, Execute, TypeOK
    <3>2. worker'[u].pc \in {"execute", "fail"}
      BY <3>1, Fields, TransientFields
    <3> QED
      BY <1>2, <2>1, <3>1, <3>2, Elsewhere
  <2> QED
    BY <1>8, <2>2, <2>3, <2>4, <2>5 DEF RunInMemory, StorageRaises
<1>9. StoreJob(u) => ThreadCommits(u, db') \/ ThreadRaises(u)
  BY DEF StoreJob, ThreadCommits
<1>10. StoreResult(u) => \/ /\ worker[u].pc = "publish" /\ ~ Conflict(k) /\ Unpublished(k)
                            /\ ThreadCommits(u, WithResult(k))
                         \/ ThreadRaises(u)
  BY DEF StoreResult
<1> QED
  BY <1>4, <1>5, <1>6, <1>7, <1>8, <1>9, <1>10 DEF RunDurably

LEMMA ThreadsKept ==
  ASSUME DInv, DurableTypeOK', Extending(db'), [DurableNext]_allVars
  PROVE  Threads'
<1>1. CASE UNCHANGED <<worker, committed, executions, results>>
  BY <1>1, OtherThread DEF Threads
<1>2. ASSUME NEW u \in Workers, RunDurably(u) PROVE Threads'
  BY <1>2, OtherThreads, ThisThread DEF Threads
<1>3. ASSUME NEW u \in Workers, NEW j \in Jobs, StartTask(u, j), UNCHANGED durable
      PROVE  Threads'
  <2>1. worker'[u] = Thread("claim", j, 0, "NONE") /\ worker[u].pc = "idle"
    BY <1>3 DEF StartTask, DInv, DurableTypeOK, TypeOK
  <2>2. u \notin committed' /\ worker'[u].pc = "claim"
    BY <1>3, <2>1, Fields DEF durable, DInv, Threads, OnItsWay
  <2> QED
    BY <1>3, <2>2, OtherThreads, Elsewhere DEF Threads
<1>4. CASE Crash
  <2>1. \A w \in Workers : worker'[w].pc = "idle" /\ w \notin committed'
    BY <1>4, Fields DEF Crash
  <2> QED
    BY <2>1, Elsewhere DEF Threads
<1>5. CASE \/ \E j \in Jobs, r \in Requests : InsertJob(j, r) \/ ReturnExisting(j, r)
           \/ IndexJob \/ ReadJob \/ UpdateRequest \/ IndexRequest
           \/ (Schedule /\ UNCHANGED durable) \/ UNCHANGED allVars
  BY <1>1, <1>5 DEF InsertJob, ReturnExisting, IndexJob, ReadJob, UpdateRequest, IndexRequest,
     Submit, SaveRequest, Schedule, repo, vars, durable, allVars
<1> QED
  BY <1>2, <1>3, <1>4, <1>5 DEF DurableNext

-----------------------------------------------------------------------------
LEMMA DurableInitially == DurableInit => DInv
<1> SUFFICES ASSUME DurableInit PROVE DInv
  OBVIOUS
<1>1. TypeOK
  BY InitTypeOK DEF DurableInit
<1>2. \A w \in Workers : worker[w].pc = "idle"
  BY Fields DEF DurableInit, Init
<1>3. db \in Tables /\ db.jobs = jobs /\ db.results = results /\ db.cases = {}
  BY <1>1, RowFields DEF DurableInit, TypeOK
<1>4. DurableTypeOK
  BY <1>1, <1>3, CallFields DEF DurableInit, DurableTypeOK, CallOK
<1>5. Claims
  BY <1>2, RunnerAssumption DEF DurableInit, Init, Claims, OneExecutor, Runs, Executing
<1>6. \A j \in Jobs : jobs[j].status = "ABSENT" /\ results[j] = 0
  BY DEF DurableInit, Init, AbsentJob, Job
<1>7. Backed
  BY <1>3, <1>6, CallFields DEF DurableInit, Init, Backed, Stored
<1>8. Threads
  BY <1>2 DEF DurableInit, Threads, OnItsWay
<1> QED
  BY <1>4, <1>5, <1>7, <1>8 DEF DInv

LEMMA DurableInductive == DInv /\ [DurableNext]_allVars => DInv'
  BY RowsExtend, CallKept, DurableTypeKept, ClaimsKept, BackedKept, ThreadsKept DEF DInv

-----------------------------------------------------------------------------
(* Results.                                                                *)

(* However tasks, raising calls and stops interleave, no two threads are   *)
(* past the claim of one job (InProcessJobRunner.run over the database).   *)
THEOREM OneExecutorDurably == DurableSpec => []OneExecutor
<1>1. DInv => OneExecutor
  BY DEF DInv, Claims
<1> QED
  BY <1>1, DurableInitially, DurableInductive, PTL DEF DurableSpec

(* A job that memory or its row calls SUCCEEDED has its result, and its    *)
(* case, in the database, whichever call raised after its commit and       *)
(* whenever the process stopped.                                           *)
THEOREM SuccessStored == DurableSpec => []SuccessIsDurable
<1>1. DInv => SuccessIsDurable
  BY DEF DInv, Backed, Stored, SuccessIsDurable
<1> QED
  BY <1>1, DurableInitially, DurableInductive, PTL DEF DurableSpec

(* A result or a case that a client could read is never replaced by a      *)
(* retry nor lost by a stop.                                               *)
THEOREM NothingUnpublished == DurableSpec => PublishedForever
<1>1. DInv /\ [DurableNext]_allVars =>
        [\A j \in Jobs : /\ results[j] # 0 => results'[j] = results[j]
                         /\ j \in cases => j \in cases']_allVars
  <2> SUFFICES ASSUME DInv, DurableNext, NEW j \in Jobs
               PROVE  /\ results[j] # 0 => results'[j] = results[j]
                      /\ j \in cases => j \in cases'
    OBVIOUS
  <2>1. TypeOK
    BY DEF DInv, DurableTypeOK
  <2>2. CASE Crash
    BY <2>2 DEF Crash, DInv, Backed
  <2>3. ASSUME NEW u \in Workers, PublishResult(u) \/ PublishCase(u)
        PROVE  /\ results[j] # 0 => results'[j] = results[j]
               /\ j \in cases => j \in cases'
    <3>1. /\ \/ results' = [results EXCEPT ![worker[u].job] = IF @ = 0 THEN executions[worker[u].job] ELSE @]
             \/ results' = results
          /\ cases \subseteq cases'
      BY <2>3 DEF PublishResult, PublishCase
    <3> QED
      BY <2>1, <3>1 DEF TypeOK
  <2>4. ASSUME ~ Crash, ~(\E u \in Workers : PublishResult(u) \/ PublishCase(u))
        PROVE  UNCHANGED <<results, cases>>
    BY <2>4 DEF DurableNext, InsertJob, ReturnExisting, IndexJob, ReadJob, UpdateRequest,
       IndexRequest, Submit, SaveRequest, Schedule, StartTask, RunDurably, RunInMemory,
       StorageRaises, StoreJob, StoreResult, ThreadCommits, ThreadRaises, Index, Claim,
       SaveRunning, Execute, HandlerComputes, HandlerFailsTransiently, HandlerFailsPermanently,
       SaveOutcome, repo, vars
  <2> QED
    BY <2>2, <2>3, <2>4
<1> QED
  BY <1>1, DurableInitially, DurableInductive, PTL DEF DurableSpec, PublishedForever

-----------------------------------------------------------------------------
(* With no fault, the steps of the in-memory repository.                   *)

\* The database is ahead of memory only for a thread between the two.
Ahead ==
  \A j \in Jobs : Stored(j) /\ results[j] = 0 =>
    \E w \in committed : worker[w].pc = "publish" /\ worker[w].job = j

Unshared == \A j \in Jobs : db.evidence[NewAsset[j]] \in {Nobody, j}

Calm == DInv /\ IInv /\ Ahead /\ Unshared /\ faults = 0 /\ crashes = 0

\* The rows that a job's transactions leave alone.
LEMMA OtherRows ==
  /\ \A k, job : /\ WithJob(k, job).results = db.results
                  /\ WithJob(k, job).evidence = db.evidence
  /\ WithRequest.results = db.results
  /\ WithRequest.evidence = db.evidence
  BY RowFields DEF WithJob, WithRequest

\* A result that is about to be stored meets no other.
LEMMA NoConflict ==
  ASSUME Calm, NEW w \in Workers, worker[w].pc = "publish", w \notin committed
  PROVE  ~ Conflict(worker[w].job)
<1>1. worker[w].job \in Jobs
  BY BusyTyped DEF Calm, IInv
<1>2. results[worker[w].job] = 0
  BY DEF Calm, IInv, ExecutorInv, OwnerInv, Executing
<1>3. ~ Stored(worker[w].job)
  <2> SUFFICES ASSUME Stored(worker[w].job) PROVE FALSE
    OBVIOUS
  <2>1. PICK v \in committed : worker[v].pc = "publish" /\ worker[v].job = worker[w].job
    BY <1>1, <1>2 DEF Calm, Ahead
  <2>2. v \in Workers
    BY DEF Calm, DInv, DurableTypeOK
  <2>3. v = w
    BY <1>1, <2>1, <2>2 DEF Calm, IInv, OneExecutor, Runs, Executing
  <2> QED
    BY <2>3
<1> QED
  BY <1>1, <1>3 DEF Conflict, Stored, Calm, Unshared

LEMMA CalmStep ==
  ASSUME MaxFaults = 0, MaxCrashes = 0, Calm, [DurableNext]_allVars
  PROVE  /\ [Next]_vars
         /\ UNCHANGED <<faults, crashes>>
         /\ \A w \in Workers :
              /\ StoreJob(w) => ThreadCommits(w, WithJob(worker[w].job, JobToSave(worker[w])))
              /\ StoreResult(w) => /\ worker[w].pc = "publish"
                                   /\ ThreadCommits(w, WithResult(worker[w].job))
<1>1. DurableTypeOK /\ faults = 0 /\ crashes = 0
  BY DEF Calm, DInv
<1>2. \A after : ~ Raises(after)
  BY <1>1 DEF Raises
<1>3. ~ Crash /\ \A w \in Workers : ~ StorageRaises(w)
  BY <1>1 DEF Crash, StorageRaises
<1>4. \A w \in Workers :
        StoreJob(w) => ThreadCommits(w, WithJob(worker[w].job, JobToSave(worker[w])))
  BY <1>2 DEF StoreJob
<1>5. \A w \in Workers : StoreResult(w) => /\ worker[w].pc = "publish"
                                           /\ ThreadCommits(w, WithResult(worker[w].job))
  BY <1>2, NoConflict DEF StoreResult
<1>6. \A j \in Jobs, r \in Requests : InsertJob(j, r) => UNCHANGED <<vars, faults, crashes>>
  BY <1>2 DEF InsertJob, vars
<1>7. UpdateRequest => UNCHANGED <<vars, faults, crashes>>
  BY <1>2 DEF UpdateRequest, vars
<1>8. ASSUME NEW w \in Workers, RunDurably(w) PROVE [Next]_vars /\ UNCHANGED <<faults, crashes>>
  <2>1. CASE StoreJob(w) \/ StoreResult(w)
    BY <1>4, <1>5, <2>1 DEF ThreadCommits
  <2>2. CASE RunInMemory(w) \/ Index(w)
    BY <2>2 DEF RunInMemory, Index, Next, Run, durable
  <2> QED
    BY <1>3, <1>8, <2>1, <2>2 DEF RunDurably
<1>9. ASSUME IndexJob PROVE [Next]_vars /\ UNCHANGED <<faults, crashes>>
  BY <1>1, <1>9 DEF IndexJob, CallOK, DurableTypeOK, Next
<1>10. ASSUME \/ ReadJob \/ IndexRequest \/ (Schedule /\ UNCHANGED durable)
              \/ (\E j \in Jobs, r \in Requests : ReturnExisting(j, r))
              \/ (\E w \in Workers, j \in Jobs : StartTask(w, j) /\ UNCHANGED durable)
              \/ UNCHANGED allVars
       PROVE  [Next]_vars /\ UNCHANGED <<faults, crashes>>
  BY <1>10 DEF ReadJob, IndexRequest, ReturnExisting, Next, durable, allVars
<1>11. [Next]_vars /\ UNCHANGED <<faults, crashes>>
  BY <1>3, <1>6, <1>7, <1>8, <1>9, <1>10 DEF DurableNext
<1> QED
  BY <1>4, <1>5, <1>11

LEMMA AheadKept ==
  ASSUME MaxFaults = 0, MaxCrashes = 0, Calm, [DurableNext]_allVars
  PROVE  Ahead'
<1>1. TypeOK /\ db \in Tables /\ committed \subseteq Workers
  BY DEF Calm, DInv, DurableTypeOK
<1>2. ASSUME UNCHANGED results, db'.results = db.results,
             \A w \in committed : worker[w].pc = "publish" => w \in committed' /\ worker'[w] = worker[w]
      PROVE  Ahead'
  BY <1>2 DEF Calm, Ahead, Stored
<1>3. ASSUME NEW u \in Workers, NEW k, k = worker[u].job, StoreResult(u) PROVE Ahead'
  <2>1. /\ worker[u].pc = "publish" /\ db' = WithResult(k) /\ committed' = committed \cup {u}
        /\ UNCHANGED <<worker, results>>
    BY <1>3, CalmStep DEF ThreadCommits, vars, repo
  <2>2. db'.results = [db.results EXCEPT ![k] = executions[k]]
    BY <2>1, RowFields DEF WithResult
  <2>3. \A j \in Jobs : j # k => db'.results[j] = db.results[j]
    BY <1>1, <2>2, TablesTyped
  <2>4. ASSUME NEW j \in Jobs, db'.results[j] # 0, results'[j] = 0
        PROVE  \E w \in committed' : worker'[w].pc = "publish" /\ worker'[w].job = j
    <3>1. CASE j = k
      BY <1>3, <2>1, <3>1
    <3>2. CASE j # k
      <4>1. PICK w \in committed : worker[w].pc = "publish" /\ worker[w].job = j
        BY <2>1, <2>3, <2>4, <3>2 DEF Calm, Ahead, Stored
      <4> QED
        BY <2>1, <4>1
    <3> QED
      BY <3>1, <3>2
  <2> QED
    BY <2>4 DEF Ahead, Stored
<1>4. ASSUME NEW u \in Workers, NEW k, k = worker[u].job, Index(u) PROVE Ahead'
  <2>1. /\ db' = db /\ committed' = committed \ {u}
        /\ \A v \in Workers : v # u => worker'[v] = worker[v]
    BY <1>1, <1>4 DEF Index, SaveRunning, PublishResult, SaveOutcome, TypeOK
  <2>2. CASE worker[u].pc # "publish"
    <3>1. UNCHANGED results
      BY <1>4, <2>2 DEF Index, SaveRunning, PublishResult, SaveOutcome
    <3> QED
      BY <1>1, <1>2, <2>1, <2>2, <3>1
  <2>3. CASE worker[u].pc = "publish"
    <3>1. k \in Jobs /\ results[k] = 0
      BY <1>1, <1>4, <2>3, BusyTyped DEF Calm, IInv, ExecutorInv, OwnerInv, Executing
    <3>2. executions[k] > 0 /\ executions[k] \in Nat
      BY <1>1, <1>4, <2>3, <3>1 DEF Calm, DInv, Threads, OnItsWay, TypeOK
    <3>3. results' = [results EXCEPT ![k] = executions[k]]
      BY <1>4, <2>3, <3>1 DEF Index, SaveRunning, PublishResult, SaveOutcome
    <3>4. \A j \in Jobs : results'[j] = IF j = k THEN executions[k] ELSE results[j]
      BY <1>1, <3>3 DEF TypeOK
    <3>5. ASSUME NEW j \in Jobs, db.results[j] # 0, results'[j] = 0
          PROVE  \E w \in committed' : worker'[w].pc = "publish" /\ worker'[w].job = j
      <4>1. j # k /\ results[j] = 0
        BY <3>2, <3>4, <3>5
      <4>2. PICK w \in committed : worker[w].pc = "publish" /\ worker[w].job = j
        BY <3>5, <4>1 DEF Calm, Ahead, Stored
      <4> QED
        BY <1>1, <1>4, <2>1, <4>1, <4>2
    <3> QED
      BY <2>1, <3>5 DEF Ahead, Stored
  <2> QED
    BY <2>2, <2>3
<1>5. ASSUME NEW u \in Workers, StoreJob(u) PROVE Ahead'
  <2>1. UNCHANGED <<worker, results>> /\ committed \subseteq committed' /\ db'.results = db.results
    BY <1>5, CalmStep, OtherRows DEF ThreadCommits, vars, repo
  <2> QED
    BY <1>2, <2>1
<1>6. ASSUME NEW u \in Workers,
             RunInMemory(u) \/ (\E j \in Jobs : StartTask(u, j) /\ UNCHANGED durable)
      PROVE  Ahead'
  <2>1. UNCHANGED <<results, db, committed>> /\ worker[u].pc # "publish"
    BY <1>6 DEF RunInMemory, Claim, PublishCase, HandlerComputes, HandlerFailsPermanently,
       Execute, StartTask, durable, repo
  <2>2. \A v \in Workers : v # u => worker'[v] = worker[v]
    BY <1>1, <1>6 DEF RunInMemory, Claim, PublishCase, HandlerComputes, HandlerFailsPermanently,
       Execute, StartTask, TypeOK
  <2> QED
    BY <1>1, <1>2, <2>1, <2>2
<1>7. CASE \/ \E j \in Jobs, r \in Requests : InsertJob(j, r) \/ ReturnExisting(j, r)
           \/ IndexJob \/ ReadJob \/ UpdateRequest \/ IndexRequest
           \/ (Schedule /\ UNCHANGED durable) \/ UNCHANGED allVars
  <2>1. UNCHANGED <<worker, committed, results>>
    BY <1>7 DEF InsertJob, ReturnExisting, IndexJob, ReadJob, UpdateRequest, IndexRequest,
       Submit, SaveRequest, Schedule, repo, vars, durable, allVars
  <2>2. db'.results = db.results
    BY <1>7, OtherRows DEF InsertJob, Raises, ReturnExisting, IndexJob, ReadJob, UpdateRequest,
       IndexRequest, durable, allVars
  <2> QED
    BY <1>2, <2>1, <2>2
<1>8. ~ Crash /\ \A w \in Workers : ~ StorageRaises(w)
  BY DEF Crash, StorageRaises, Calm
<1> QED
  BY <1>3, <1>4, <1>5, <1>6, <1>7, <1>8 DEF DurableNext, RunDurably

LEMMA UnsharedKept ==
  ASSUME \A j, k \in Jobs : NewAsset[j] = NewAsset[k] => j = k,
         MaxFaults = 0, MaxCrashes = 0, Calm, [DurableNext]_allVars
  PROVE  Unshared'
<1>1. db \in Tables /\ TypeOK
  BY DEF Calm, DInv, DurableTypeOK
<1>2. CASE db'.evidence = db.evidence
  BY <1>2 DEF Calm, Unshared
<1>3. ASSUME NEW u \in Workers, NEW k, k = worker[u].job, StoreResult(u) PROVE Unshared'
  <2>1. worker[u].pc = "publish" /\ db' = WithResult(k)
    BY <1>3, CalmStep DEF ThreadCommits
  <2>2. k \in Jobs /\ NewAsset[k] \in Assets
    BY <1>1, <1>3, <2>1, BusyTyped DEF Assets
  <2>3. db'.evidence = [db.evidence EXCEPT ![NewAsset[k]] = IF k \in ChangedJobs THEN k ELSE @]
    BY <2>1, RowFields DEF WithResult
  <2>4. \A a \in Assets : a # NewAsset[k] => db'.evidence[a] = db.evidence[a]
    BY <1>1, <2>3, TablesTyped
  <2>5. db'.evidence[NewAsset[k]] \in {k, db.evidence[NewAsset[k]]}
    BY <1>1, <2>2, <2>3, TablesTyped
  <2> QED
    BY <2>2, <2>4, <2>5 DEF Calm, Unshared, Assets
<1>4. ASSUME ~(\E u \in Workers : StoreResult(u)) PROVE db'.evidence = db.evidence
  <2>1. CASE \/ \E j \in Jobs, r \in Requests : InsertJob(j, r)
             \/ UpdateRequest \/ (\E u \in Workers : StoreJob(u))
    BY <2>1, OtherRows, CalmStep DEF InsertJob, UpdateRequest, Raises, ThreadCommits
  <2>2. CASE ~ (\/ \E j \in Jobs, r \in Requests : InsertJob(j, r)
                \/ UpdateRequest \/ (\E u \in Workers : StoreJob(u)))
    BY <1>4, <2>2 DEF DurableNext, ReturnExisting, IndexJob, ReadJob, IndexRequest, RunDurably,
       RunInMemory, StorageRaises, Index, Crash, durable, allVars
  <2> QED
    BY <2>1, <2>2
<1> QED
  BY <1>2, <1>3, <1>4

(* When no call raises, the process does not stop and each image belongs   *)
(* to one job, the write-through repository takes the steps of the         *)
(* in-memory one, unseen by its callers.  (That it takes them in the end   *)
(* is a matter of fairness, which TLC checks.)                             *)
THEOREM InvisibleWriteThrough ==
  ASSUME MaxFaults = 0, MaxCrashes = 0,
         \A j, k \in Jobs : NewAsset[j] = NewAsset[k] => j = k
  PROVE  DurableSpec => Init /\ [][Next]_vars
<1>1. DurableInit => Calm
  <2> SUFFICES ASSUME DurableInit PROVE Calm
    OBVIOUS
  <2>1. Init /\ faults = 0 /\ crashes = 0
    BY DEF DurableInit
  <2>2. db.results = results /\ db.evidence = [a \in Assets |-> Nobody]
    BY RowFields DEF DurableInit
  <2>3. Ahead
    BY <2>1, <2>2 DEF Ahead, Stored
  <2>4. Unshared
    BY <2>2 DEF Unshared, Assets
  <2> QED
    BY <2>1, <2>3, <2>4, InitIInv, DurableInitially DEF Calm
<1>2. Calm /\ [DurableNext]_allVars => Calm' /\ [Next]_vars
  <2> SUFFICES ASSUME Calm, [DurableNext]_allVars PROVE Calm' /\ [Next]_vars
    OBVIOUS
  <2>1. [Next]_vars /\ UNCHANGED <<faults, crashes>>
    BY CalmStep
  <2>2. IInv'
    BY <2>1, NextIInv DEF Calm
  <2> QED
    BY <2>1, <2>2, DurableInductive, AheadKept, UnsharedKept DEF Calm
<1>3. DurableInit => Init
  BY DEF DurableInit
<1> QED
  BY <1>1, <1>2, <1>3, PTL DEF DurableSpec
=============================================================================
