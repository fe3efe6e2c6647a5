------------------------------ MODULE JobRunner ------------------------------
(***************************************************************************)
(* InProcessJobRunner over the in-memory repository, driven by the API.    *)
(*                                                                         *)
(* The event loop runs the route handlers one at a time (api); accepted    *)
(* jobs become background tasks that worker threads run (worker).  The     *)
(* only mutual exclusion is the claim lock of run().  cancel() is an       *)
(* operation of the runner that other threads of the process may call      *)
(* (canceller); no HTTP route calls it.                                    *)
(*                                                                         *)
(* The job id is derived from the idempotency key, so a member of Jobs is  *)
(* both.  A request differs from another one for the same job in its       *)
(* correlation id.  A result is known by the number of the handler         *)
(* execution that wrote it: executions differ in processed_at.             *)
(***************************************************************************)
EXTENDS Naturals

CONSTANTS
  Jobs,            \* idempotency keys
  ChangedJobs,     \* those whose imagery shows a change: a case is opened
  Requests,        \* correlation ids of the submissions
  NoRequest,
  Workers,         \* threads of the pool that runs background tasks
  Cancellers,      \* threads that call cancel()
  Nobody,          \* no thread, no job
  MaxAttempts,     \* RetryPolicy.maximum_attempts
  MaxSubmissions   \* bound: calls of the process route in one behaviour

ASSUME RunnerAssumption ==
  /\ MaxAttempts \in Nat \ {0}
  /\ MaxSubmissions \in Nat
  /\ ChangedJobs \subseteq Jobs
  /\ NoRequest \notin Requests
  /\ Nobody \notin Workers \cup Jobs

VARIABLES
  jobs,         \* repository.jobs
  requests,     \* repository.job_requests
  results,      \* repository.results: 0, or the execution that wrote it
  cases,        \* repository.cases: the jobs whose case is stored
  tasks,        \* background tasks added and not yet started, per job
  api,          \* the process route in progress
  lock,         \* holder of the claim lock
  worker,       \* each pool thread
  canceller,    \* the job each cancel() call has read as QUEUED
  executions,   \* history: executions of the handler, per job
  submissions   \* calls of the process route so far

repo == <<jobs, requests, results, cases>>
vars == <<repo, tasks, api, lock, worker, canceller, executions, submissions>>

-----------------------------------------------------------------------------
Job(st, retries, output, failure) ==
  [status |-> st, retries |-> retries, output |-> output, failure |-> failure]

Thread(pc, j, retries, failure) ==
  [pc |-> pc, job |-> j, retries |-> retries, failure |-> failure]

Route(pc, j, r, queued) == [pc |-> pc, job |-> j, request |-> r, queued |-> queued]

AbsentJob == Job("ABSENT", 0, FALSE, "NONE")
QueuedJob == Job("QUEUED", 0, FALSE, "NONE")
IdleWorker == Thread("idle", Nobody, 0, "NONE")
IdleApi == Route("idle", Nobody, NoRequest, FALSE)

\* The thread, further on in run().
At(t, pc) == Thread(pc, t.job, t.retries, t.failure)
FailedWith(t, failure) == Thread("fail", t.job, t.retries, failure)

JobStates == {"ABSENT", "QUEUED", "RUNNING", "SUCCEEDED", "FAILED", "CANCELLED"}
Failures == {"NONE", "STORAGE_UNAVAILABLE", "PERMANENT"}
Executing == {"execute", "publish", "publish_case", "succeed", "fail"}

JobRecord == [status : JobStates, retries : 0..(MaxAttempts - 1), output : BOOLEAN,
              failure : Failures]
BusyThread == [pc : {"claim", "claimed"} \cup Executing, job : Jobs,
               retries : 0..(MaxAttempts - 1), failure : Failures]
OpenRoute == [pc : {"request", "schedule"}, job : Jobs, request : Requests,
              queued : BOOLEAN]

TypeOK ==
  /\ jobs \in [Jobs -> JobRecord]
  /\ requests \in [Jobs -> Requests \cup {NoRequest}]
  /\ results \in [Jobs -> Nat]
  /\ cases \subseteq Jobs
  /\ tasks \in [Jobs -> Nat]
  /\ api \in OpenRoute \cup {IdleApi}
  /\ lock \in Workers \cup {Nobody}
  /\ worker \in [Workers -> BusyThread \cup {IdleWorker}]
  /\ canceller \in [Cancellers -> Jobs \cup {Nobody}]
  /\ executions \in [Jobs -> Nat]
  /\ submissions \in 0..MaxSubmissions

Init ==
  /\ jobs = [j \in Jobs |-> AbsentJob]
  /\ requests = [j \in Jobs |-> NoRequest]
  /\ results = [j \in Jobs |-> 0]
  /\ cases = {}
  /\ tasks = [j \in Jobs |-> 0]
  /\ api = IdleApi
  /\ lock = Nobody
  /\ worker = [w \in Workers |-> IdleWorker]
  /\ canceller = [c \in Cancellers |-> Nobody]
  /\ executions = [j \in Jobs |-> 0]
  /\ submissions = 0

-----------------------------------------------------------------------------
(* The process route: enqueue_processing, then add_task.                   *)

\* submit(): an existing job is returned as it is, whatever its state.
Submit(j, r) ==
  /\ api.pc = "idle"
  /\ submissions < MaxSubmissions
  /\ submissions' = submissions + 1
  /\ jobs' = IF jobs[j].status = "ABSENT"
             THEN [jobs EXCEPT ![j] = QueuedJob] ELSE jobs
  /\ api' = Route("request", j, r, jobs[j].status \in {"ABSENT", "QUEUED"})
  /\ UNCHANGED <<requests, results, cases, tasks, lock, worker, canceller, executions>>

\* Fault: the request is forgotten.
SaveRequestForgotten ==
  /\ api.pc = "request"
  /\ api' = Route("schedule", api.job, api.request, api.queued)
  /\ UNCHANGED <<repo, tasks, lock, worker, canceller, executions, submissions>>

\* save_job_request(): a second, different request is a ValueError and the
\* route ends without a task.
SaveRequest ==
  /\ api.pc = "request"
  /\ IF requests[api.job] \in {NoRequest, api.request}
     THEN /\ requests' = [requests EXCEPT ![api.job] = api.request]
          /\ api' = Route("schedule", api.job, api.request, api.queued)
     ELSE /\ api' = IdleApi
          /\ UNCHANGED requests
  /\ UNCHANGED <<jobs, results, cases, tasks, lock, worker, canceller,
                 executions, submissions>>

\* The task is added when the job *as submit returned it* was QUEUED.
Schedule ==
  /\ api.pc = "schedule"
  /\ tasks' = IF api.queued THEN [tasks EXCEPT ![api.job] = @ + 1] ELSE tasks
  /\ api' = IdleApi
  /\ UNCHANGED <<repo, lock, worker, canceller, executions, submissions>>

-----------------------------------------------------------------------------
(* run(), one worker thread per background task.                           *)

StartTask(w, j) ==
  /\ worker[w].pc = "idle"
  /\ tasks[j] > 0
  /\ tasks' = [tasks EXCEPT ![j] = @ - 1]
  /\ worker' = [worker EXCEPT ![w] = Thread("claim", j, 0, "NONE")]
  /\ UNCHANGED <<repo, api, lock, canceller, executions, submissions>>

\* Fault: the status of the job is not checked again under the lock.
ClaimUnchecked(w) ==
  /\ worker[w].pc = "claim"
  /\ lock = Nobody
  /\ lock' = w
  /\ worker' = [worker EXCEPT ![w] = At(@, "claimed")]
  /\ UNCHANGED <<repo, tasks, api, canceller, executions, submissions>>

\* Fault: the early return leaves the lock held.
ClaimLeaksLock(w) ==
  /\ worker[w].pc = "claim"
  /\ lock = Nobody
  /\ lock' = w
  /\ worker' = [worker EXCEPT ![w] =
                  IF jobs[@.job].status = "QUEUED" THEN At(@, "claimed")
                                                   ELSE IdleWorker]
  /\ UNCHANGED <<repo, tasks, api, canceller, executions, submissions>>

\* Under the claim lock: a job that is not QUEUED is returned or refused,
\* and either way the task ends.
Claim(w) ==
  /\ worker[w].pc = "claim"
  /\ lock = Nobody
  /\ IF jobs[worker[w].job].status = "QUEUED"
     THEN lock' = w /\ worker' = [worker EXCEPT ![w] = At(@, "claimed")]
     ELSE lock' = lock /\ worker' = [worker EXCEPT ![w] = IdleWorker]
  /\ UNCHANGED <<repo, tasks, api, canceller, executions, submissions>>

\* The job record a thread is about to save.
JobToSave(t) ==
  IF t.pc = "claimed" THEN Job("RUNNING", 0, FALSE, "NONE")
  ELSE IF t.pc = "succeed" THEN Job("SUCCEEDED", t.retries, TRUE, "NONE")
  ELSE Job("FAILED", t.retries, FALSE, t.failure)

\* save_job(running) overwrites whatever is stored, then the lock is freed.
SaveRunning(w) ==
  /\ worker[w].pc = "claimed"
  /\ jobs' = [jobs EXCEPT ![worker[w].job] = JobToSave(worker[w])]
  /\ lock' = Nobody
  /\ worker' = [worker EXCEPT ![w] = At(@, "execute")]
  /\ UNCHANGED <<requests, results, cases, tasks, api, canceller, executions,
                 submissions>>

\* The handler up to the point where it has something to publish.
Execute(w, next) ==
  /\ worker[w].pc = "execute"
  /\ executions' = [executions EXCEPT ![worker[w].job] = @ + 1]
  /\ worker' = [worker EXCEPT ![w] = next]
  /\ UNCHANGED <<repo, tasks, api, lock, canceller, submissions>>

HandlerComputes(w) ==
  /\ Execute(w, At(worker[w], "publish"))
  /\ requests[worker[w].job] # NoRequest

\* Fault: the retry counter is not advanced.
HandlerRetriesForever(w) == Execute(w, worker[w])

\* Fault: one retry too many.
AfterTransientOffByOne(t) ==
  IF t.retries + 1 <= MaxAttempts
  THEN Thread("execute", t.job, t.retries + 1, t.failure)
  ELSE FailedWith(t, "STORAGE_UNAVAILABLE")

\* except _TRANSIENT_ERRORS: back to the handler until the attempts are used up.
AfterTransient(t) ==
  IF t.retries + 1 < MaxAttempts
  THEN Thread("execute", t.job, t.retries + 1, t.failure)
  ELSE FailedWith(t, "STORAGE_UNAVAILABLE")

\* A StorageError before anything is published.
HandlerFailsTransiently(w) == Execute(w, AfterTransient(worker[w]))

\* Any other error, a missing request or parcel among them.
HandlerFailsPermanently(w) ==
  Execute(w, FailedWith(worker[w], "PERMANENT"))

\* Fault: the job moves on before anything is stored.
PublishNothing(w) ==
  /\ worker[w].pc = "publish"
  /\ worker' = [worker EXCEPT ![w] = At(@, "succeed")]
  /\ UNCHANGED <<repo, tasks, api, lock, canceller, executions, submissions>>

\* save_result, or the first store of commit_processing_bundle.  What is
\* already there stays: the bundle is returned as it is, a different result
\* without a case is a ValueError.
PublishResult(w) ==
  LET j == worker[w].job IN
  /\ worker[w].pc = "publish"
  /\ results' = [results EXCEPT ![j] = IF @ = 0 THEN executions[j] ELSE @]
  /\ worker' = [worker EXCEPT ![w] =
       IF results[j] = 0 /\ j \in ChangedJobs THEN At(@, "publish_case")
       ELSE IF results[j] # 0 /\ ~(j \in ChangedJobs /\ j \in cases)
       THEN FailedWith(@, "PERMANENT")
       ELSE At(@, "succeed")]
  /\ UNCHANGED <<jobs, requests, cases, tasks, api, lock, canceller, executions,
                 submissions>>

\* The second store of commit_processing_bundle.  The lock around the two
\* keeps writers out; the getters do not take it.
PublishCase(w) ==
  /\ worker[w].pc = "publish_case"
  /\ cases' = cases \cup {worker[w].job}
  /\ worker' = [worker EXCEPT ![w] = At(@, "succeed")]
  /\ UNCHANGED <<jobs, requests, results, tasks, api, lock, canceller, executions,
                 submissions>>

\* save_job(succeeded) or save_job(failed), an unconditional overwrite.
SaveOutcome(w) ==
  /\ worker[w].pc \in {"succeed", "fail"}
  /\ jobs' = [jobs EXCEPT ![worker[w].job] = JobToSave(worker[w])]
  /\ worker' = [worker EXCEPT ![w] = IdleWorker]
  /\ UNCHANGED <<requests, results, cases, tasks, api, lock, canceller, executions,
                 submissions>>

-----------------------------------------------------------------------------
(* cancel(): reads the job, then writes it back, without the claim lock.   *)

CancelRead(c, j) ==
  /\ canceller[c] = Nobody
  /\ jobs[j].status = "QUEUED"
  /\ canceller' = [canceller EXCEPT ![c] = j]
  /\ UNCHANGED <<repo, tasks, api, lock, worker, executions, submissions>>

CancelWrite(c) ==
  /\ canceller[c] # Nobody
  /\ jobs' = [jobs EXCEPT ![canceller[c]] = Job("CANCELLED", 0, FALSE, "NONE")]
  /\ canceller' = [canceller EXCEPT ![c] = Nobody]
  /\ UNCHANGED <<requests, results, cases, tasks, api, lock, worker, executions,
                 submissions>>

-----------------------------------------------------------------------------
Run(w) ==
  \/ Claim(w) \/ SaveRunning(w)
  \/ HandlerComputes(w) \/ HandlerFailsTransiently(w) \/ HandlerFailsPermanently(w)
  \/ PublishResult(w) \/ PublishCase(w) \/ SaveOutcome(w)

Next ==
  \/ \E j \in Jobs, r \in Requests : Submit(j, r)
  \/ SaveRequest
  \/ Schedule
  \/ \E w \in Workers, j \in Jobs : StartTask(w, j)
  \/ \E w \in Workers : Run(w)
  \/ \E c \in Cancellers, j \in Jobs : CancelRead(c, j)
  \/ \E c \in Cancellers : CancelWrite(c)

(***************************************************************************)
(* The event loop finishes the route it is in, the pool starts every task  *)
(* some day, and a running thread keeps running: sleeps are bounded and    *)
(* the backend returns.  Nobody is obliged to submit or to cancel.         *)
(***************************************************************************)
Fairness ==
  /\ WF_vars(SaveRequest \/ Schedule)
  /\ \A j \in Jobs : WF_vars(\E w \in Workers : StartTask(w, j))
  /\ \A w \in Workers : WF_vars(Run(w))

Spec == Init /\ [][Next]_vars /\ Fairness

-----------------------------------------------------------------------------
(* Properties.                                                             *)

Runs(w, j) == worker[w].pc \in Executing /\ worker[w].job = j
Published(j) == results[j] # 0 /\ (j \in ChangedJobs => j \in cases)
Settled(j) == jobs[j].status \in {"SUCCEEDED", "FAILED", "CANCELLED"}

(***************************************************************************)
(* However many tasks were added for a job, and whoever cancels it, at     *)
(* most one thread is inside run() past its claim: the claim lock and the  *)
(* status read under it decide (InProcessJobRunner.run).                   *)
(***************************************************************************)
OneExecutor ==
  \A w1, w2 \in Workers, j \in Jobs : Runs(w1, j) /\ Runs(w2, j) => w1 = w2

(***************************************************************************)
(* "Bounded retries": over the whole life of a job the handler runs at     *)
(* most maximum_attempts times, and a settled job's retry_count is the     *)
(* number of executions after the first.                                   *)
(***************************************************************************)
RetriesAccounted ==
  \A j \in Jobs :
    /\ executions[j] <= MaxAttempts
    /\ jobs[j].status \in {"SUCCEEDED", "FAILED"} => executions[j] = jobs[j].retries + 1

(***************************************************************************)
(* The status a client polls tells the truth about the result store: a     *)
(* SUCCEEDED job has its result and, where there was a change, its case;   *)
(* a FAILED one has published nothing (_process_job publishes last).       *)
(***************************************************************************)
OutcomeMatchesStore ==
  \A j \in Jobs :
    /\ jobs[j].status = "SUCCEEDED" => Published(j)
    /\ jobs[j].status = "FAILED" => results[j] = 0 /\ j \notin cases

(***************************************************************************)
(* No task is added, and no thread works, before the job's request is      *)
(* stored: _process_job can always read it (enqueue_processing).           *)
(***************************************************************************)
RequestBeforeWork ==
  \A j \in Jobs :
    tasks[j] > 0 \/ (\E w \in Workers : worker[w].job = j) => requests[j] # NoRequest

(***************************************************************************)
(* A queued job settles: the duplicate tasks, the retries and the refused  *)
(* second requests never leave one behind in QUEUED or RUNNING.            *)
(***************************************************************************)
QueuedJobsSettle == \A j \in Jobs : jobs[j].status = "QUEUED" ~> Settled(j)

(***************************************************************************)
(* What the runner promises its caller, when nobody calls cancel().        *)
(***************************************************************************)
Lifecycle == INSTANCE JobLifecycle WITH
  status <- [j \in Jobs |-> jobs[j].status],
  published <- [j \in Jobs |-> Published(j)],
  attempts <- executions

ImplementsLifecycle == Lifecycle!Spec

(***************************************************************************)
(* "only queued jobs can be cancelled" (JobStateError of cancel()): a job  *)
(* becomes CANCELLED from QUEUED.                                          *)
(***************************************************************************)
OnlyQueuedCancelled ==
  [][\A j \in Jobs : jobs[j].status # "CANCELLED" /\ jobs'[j].status = "CANCELLED"
                      => jobs[j].status = "QUEUED"]_vars
=============================================================================
