--------------------------- MODULE JobRunnerProofs ---------------------------
(***************************************************************************)
(* Proofs about JobRunner, for any number of jobs, pool threads, callers   *)
(* of cancel(), requests, attempts and submissions.                        *)
(***************************************************************************)
EXTENDS JobRunner, TLAPS

(***************************************************************************)
(* The inductive invariant.  A thread that has claimed a job and one that  *)
(* executes it are described separately: between the two a canceller may   *)
(* overwrite the status, so the status alone does not tell who owns a job. *)
(***************************************************************************)

\* The lock is held exactly by the thread between its two steps under it.
ClaimLockInv ==
  \A w \in Workers :
    /\ worker[w].pc = "claimed" <=> lock = w
    /\ worker[w].pc \in {"claim", "claimed"} => worker[w].retries = 0

Untouched(j) == executions[j] = 0 /\ results[j] = 0 /\ j \notin cases

\* A job nobody has claimed has no history.
FreshInv ==
  \A j \in Jobs : jobs[j].status \in {"ABSENT", "QUEUED"} => Untouched(j)

\* cancel() only holds jobs that exist.
CancelInv ==
  \A c \in Cancellers : canceller[c] # Nobody => jobs[canceller[c]].status # "ABSENT"

ClaimInv ==
  \A w \in Workers : worker[w].pc = "claimed" =>
    /\ jobs[worker[w].job].status \in {"QUEUED", "CANCELLED"}
    /\ Untouched(worker[w].job)
    /\ \A v \in Workers : ~Runs(v, worker[w].job)

\* What the owner of a job knows at each point of run().
OwnerInv(w) ==
  LET j == worker[w].job IN
  /\ jobs[j].status \in {"RUNNING", "CANCELLED"}
  /\ worker[w].pc = "execute" => executions[j] = worker[w].retries
  /\ worker[w].pc # "execute" => executions[j] = worker[w].retries + 1
  /\ worker[w].pc \in {"execute", "publish", "fail"} => results[j] = 0 /\ j \notin cases
  /\ worker[w].pc = "publish_case" => results[j] # 0 /\ j \in ChangedJobs
  /\ worker[w].pc = "succeed" => Published(j)

ExecutorInv == \A w \in Workers : worker[w].pc \in Executing => OwnerInv(w)

IInv ==
  /\ TypeOK
  /\ ClaimLockInv
  /\ FreshInv
  /\ CancelInv
  /\ ClaimInv
  /\ ExecutorInv
  /\ OneExecutor
  /\ RetriesAccounted
  /\ OutcomeMatchesStore

-----------------------------------------------------------------------------
(* Type correctness.                                                       *)

\* A thread inside run(), and the records made from it, are well formed.
LEMMA BusyTyped ==
  ASSUME TypeOK, NEW w \in Workers, worker[w].pc # "idle"
  PROVE  /\ worker[w] \in BusyThread
         /\ worker[w].job \in Jobs
         /\ \A pc \in Executing \cup {"claimed"} : At(worker[w], pc) \in BusyThread
         /\ \A f \in Failures : FailedWith(worker[w], f) \in BusyThread
         /\ AfterTransient(worker[w]) \in BusyThread
         /\ JobToSave(worker[w]) \in JobRecord
<1>1. worker[w] \in BusyThread
  BY DEF TypeOK, IdleWorker, Thread
<1>2. 0 \in 0..(MaxAttempts - 1) /\ MaxAttempts \in Nat
  BY RunnerAssumption
<1>3. /\ \A pc \in Executing \cup {"claimed"} : At(worker[w], pc) \in BusyThread
      /\ \A f \in Failures : FailedWith(worker[w], f) \in BusyThread
  BY <1>1 DEF At, FailedWith, Thread, BusyThread, Executing
<1>4. AfterTransient(worker[w]) \in BusyThread
  <2>1. CASE worker[w].retries + 1 < MaxAttempts
    <3>1. worker[w].retries + 1 \in 0..(MaxAttempts - 1)
      BY <1>1, <1>2, <2>1 DEF BusyThread
    <3> QED
      BY <1>1, <2>1, <3>1 DEF AfterTransient, Thread, BusyThread, Executing
  <2>2. CASE ~(worker[w].retries + 1 < MaxAttempts)
    BY <1>3, <2>2 DEF AfterTransient, Failures
  <2> QED
    BY <2>1, <2>2
<1>5. JobToSave(worker[w]) \in JobRecord
  BY <1>1, <1>2 DEF JobToSave, Job, JobRecord, BusyThread, JobStates, Failures
<1>6. worker[w].job \in Jobs
  BY <1>1 DEF BusyThread
<1> QED
  BY <1>1, <1>3, <1>4, <1>5, <1>6

\* A route past submit() has a job and a request.
LEMMA RouteTyped ==
  ASSUME TypeOK, api.pc # "idle"
  PROVE  api \in OpenRoute /\ api.job \in Jobs /\ api.request \in Requests
<1>1. api \in OpenRoute
  BY DEF TypeOK, IdleApi, Route
<1> QED
  BY <1>1 DEF OpenRoute

LEMMA InitTypeOK == Init => TypeOK
  BY RunnerAssumption DEF Init, TypeOK, AbsentJob, Job, JobStates, Failures, JobRecord

\* One execution of the handler, whatever it comes to.
LEMMA ExecuteTypeOK ==
  ASSUME TypeOK, NEW w \in Workers, NEW next \in BusyThread, Execute(w, next)
  PROVE  TypeOK'
<1>1. worker[w].pc = "execute"
  BY DEF Execute
<1>2. worker[w].job \in Jobs
  BY <1>1, BusyTyped
<1>3. executions' \in [Jobs -> Nat]
  BY <1>2 DEF TypeOK, Execute
<1>4. worker' \in [Workers -> BusyThread \cup {IdleWorker}]
  BY DEF TypeOK, Execute
<1> QED
  BY <1>3, <1>4 DEF TypeOK, Execute, repo

LEMMA NextTypeOK == TypeOK /\ [Next]_vars => TypeOK'
<1> SUFFICES ASSUME TypeOK, [Next]_vars PROVE TypeOK'
  OBVIOUS
<1> USE DEF TypeOK, repo
<1>1. ASSUME NEW j \in Jobs, NEW r \in Requests, Submit(j, r) PROVE TypeOK'
  <2>1. QueuedJob \in JobRecord
    BY RunnerAssumption DEF QueuedJob, Job, JobRecord, JobStates, Failures
  <2>2. Route("request", j, r, jobs[j].status \in {"ABSENT", "QUEUED"}) \in OpenRoute
    BY DEF Route, OpenRoute
  <2> QED
    BY <1>1, <2>1, <2>2, RunnerAssumption DEF Submit
<1>2. ASSUME SaveRequest PROVE TypeOK'
  <2>1. api \in OpenRoute /\ api.job \in Jobs /\ api.request \in Requests
    BY <1>2, RouteTyped DEF SaveRequest
  <2>2. Route("schedule", api.job, api.request, api.queued) \in OpenRoute
    BY <2>1 DEF Route, OpenRoute
  <2>3. /\ api' \in OpenRoute \cup {IdleApi}
        /\ requests' \in [Jobs -> Requests \cup {NoRequest}]
    <3>1. CASE requests[api.job] \in {NoRequest, api.request}
      BY <1>2, <2>1, <2>2, <3>1 DEF SaveRequest
    <3>2. CASE requests[api.job] \notin {NoRequest, api.request}
      BY <1>2, <3>2 DEF SaveRequest
    <3> QED
      BY <3>1, <3>2
  <2> QED
    BY <1>2, <2>3 DEF SaveRequest
<1>3. ASSUME Schedule PROVE TypeOK'
  <2>1. api.job \in Jobs
    BY <1>3, RouteTyped DEF Schedule
  <2>2. tasks' \in [Jobs -> Nat]
    <3>1. CASE api.queued
      BY <1>3, <2>1, <3>1 DEF Schedule
    <3>2. CASE ~api.queued
      BY <1>3, <3>2 DEF Schedule
    <3> QED
      BY <3>1, <3>2
  <2> QED
    BY <1>3, <2>2 DEF Schedule
<1>4. ASSUME NEW w \in Workers, NEW j \in Jobs, StartTask(w, j) PROVE TypeOK'
  <2>1. Thread("claim", j, 0, "NONE") \in BusyThread
    BY RunnerAssumption DEF Thread, BusyThread, Failures
  <2>2. worker' \in [Workers -> BusyThread \cup {IdleWorker}]
    BY <1>4, <2>1 DEF StartTask
  <2>3. tasks' \in [Jobs -> Nat]
    BY <1>4 DEF StartTask
  <2> QED
    BY <1>4, <2>2, <2>3 DEF StartTask
<1>5. ASSUME NEW w \in Workers, Claim(w) PROVE TypeOK'
  <2>1. At(worker[w], "claimed") \in BusyThread
    BY <1>5, BusyTyped DEF Claim
  <2>2. /\ lock' \in Workers \cup {Nobody}
        /\ worker' \in [Workers -> BusyThread \cup {IdleWorker}]
    BY <1>5, <2>1 DEF Claim
  <2> QED
    BY <1>5, <2>2 DEF Claim
<1>6. ASSUME NEW w \in Workers, SaveRunning(w) PROVE TypeOK'
  <2>1. At(worker[w], "execute") \in BusyThread /\ JobToSave(worker[w]) \in JobRecord
    BY <1>6, BusyTyped DEF SaveRunning, Executing
  <2> QED
    BY <1>6, <2>1 DEF SaveRunning
<1>7. ASSUME NEW w \in Workers, HandlerComputes(w) PROVE TypeOK'
  <2>1. Execute(w, At(worker[w], "publish"))
    BY <1>7 DEF HandlerComputes
  <2>2. At(worker[w], "publish") \in BusyThread
    BY <2>1, BusyTyped DEF Execute, Executing
  <2> QED
    BY <2>1, <2>2, ExecuteTypeOK
<1>8. ASSUME NEW w \in Workers, HandlerFailsTransiently(w) PROVE TypeOK'
  <2>1. AfterTransient(worker[w]) \in BusyThread
    BY <1>8, BusyTyped DEF HandlerFailsTransiently, Execute
  <2> QED
    BY <1>8, <2>1, ExecuteTypeOK DEF HandlerFailsTransiently
<1>9. ASSUME NEW w \in Workers, HandlerFailsPermanently(w) PROVE TypeOK'
  <2>1. FailedWith(worker[w], "PERMANENT") \in BusyThread
    BY <1>9, BusyTyped DEF HandlerFailsPermanently, Execute, Failures
  <2> QED
    BY <1>9, <2>1, ExecuteTypeOK DEF HandlerFailsPermanently
<1>10. ASSUME NEW w \in Workers, PublishResult(w) PROVE TypeOK'
  <2>1. /\ \A pc \in {"publish_case", "succeed"} : At(worker[w], pc) \in BusyThread
        /\ FailedWith(worker[w], "PERMANENT") \in BusyThread
        /\ worker[w].job \in Jobs
    BY <1>10, BusyTyped DEF PublishResult, Executing, Failures
  <2>2. worker' \in [Workers -> BusyThread \cup {IdleWorker}]
    BY <1>10, <2>1 DEF PublishResult
  <2>3. results' \in [Jobs -> Nat]
    BY <1>10, <2>1 DEF PublishResult
  <2> QED
    BY <1>10, <2>2, <2>3 DEF PublishResult
<1>11. ASSUME NEW w \in Workers, PublishCase(w) PROVE TypeOK'
  <2>1. At(worker[w], "succeed") \in BusyThread /\ worker[w].job \in Jobs
    BY <1>11, BusyTyped DEF PublishCase, Executing
  <2> QED
    BY <1>11, <2>1 DEF PublishCase
<1>12. ASSUME NEW w \in Workers, SaveOutcome(w) PROVE TypeOK'
  <2>1. JobToSave(worker[w]) \in JobRecord
    BY <1>12, BusyTyped DEF SaveOutcome
  <2> QED
    BY <1>12, <2>1 DEF SaveOutcome
<1>13. ASSUME NEW c \in Cancellers, NEW j \in Jobs, CancelRead(c, j) PROVE TypeOK'
  BY <1>13 DEF CancelRead
<1>14. ASSUME NEW c \in Cancellers, CancelWrite(c) PROVE TypeOK'
  <2>1. Job("CANCELLED", 0, FALSE, "NONE") \in JobRecord
    BY RunnerAssumption DEF Job, JobRecord, JobStates, Failures
  <2> QED
    BY <1>14, <2>1 DEF CancelWrite
<1>15. CASE UNCHANGED vars
  BY <1>15 DEF vars
<1> QED
  BY <1>1, <1>2, <1>3, <1>4, <1>5, <1>6, <1>7, <1>8, <1>9, <1>10, <1>11, <1>12, <1>13,
     <1>14, <1>15 DEF Next, Run

(* Every variable of the runner keeps its type, whatever the number of     *)
(* jobs, threads, requests and attempts.                                   *)
THEOREM TypeCorrect == Spec => []TypeOK
<1>1. Init => TypeOK
  BY InitTypeOK
<1>2. TypeOK /\ [Next]_vars => TypeOK'
  BY NextTypeOK
<1> QED
  BY <1>1, <1>2, PTL DEF Spec

-----------------------------------------------------------------------------
(* The inductive invariant: initial states, and one lemma per action.      *)

\* The fields of the records that the actions build.
LEMMA Fields ==
  ASSUME NEW t, NEW pc, NEW j, NEW r, NEW f
  PROVE  /\ Thread(pc, j, r, f).pc = pc
         /\ Thread(pc, j, r, f).job = j
         /\ Thread(pc, j, r, f).retries = r
         /\ At(t, pc).pc = pc
         /\ At(t, pc).job = t.job
         /\ At(t, pc).retries = t.retries
         /\ FailedWith(t, f).pc = "fail"
         /\ FailedWith(t, f).job = t.job
         /\ FailedWith(t, f).retries = t.retries
         /\ IdleWorker.pc = "idle"
  BY DEF Thread, At, FailedWith, IdleWorker

LEMMA InitIInv == Init => IInv
<1> SUFFICES ASSUME Init PROVE IInv
  OBVIOUS
<1>1. TypeOK
  BY InitTypeOK
<1>2. \A w \in Workers : worker[w].pc = "idle"
  BY DEF Init, IdleWorker, Thread
<1>3. \A j \in Jobs : jobs[j].status = "ABSENT" /\ Untouched(j)
  BY DEF Init, AbsentJob, Job, Untouched
<1>4. ClaimLockInv
  BY <1>2, RunnerAssumption DEF Init, ClaimLockInv
<1>5. FreshInv /\ CancelInv
  BY <1>3 DEF Init, FreshInv, CancelInv
<1>6. ClaimInv /\ ExecutorInv /\ OneExecutor
  BY <1>2 DEF ClaimInv, ExecutorInv, OneExecutor, Runs, Executing
<1>7. RetriesAccounted /\ OutcomeMatchesStore
  BY <1>3, RunnerAssumption DEF RetriesAccounted, OutcomeMatchesStore, Untouched
<1> QED
  BY <1>1, <1>4, <1>5, <1>6, <1>7 DEF IInv

\* Steps of the route after submit() touch nothing the invariant reads.
LEMMA RouteInv ==
  ASSUME IInv, TypeOK',
         UNCHANGED <<jobs, results, cases, lock, worker, canceller, executions>>
  PROVE  IInv'
  BY DEF IInv, ClaimLockInv, FreshInv, CancelInv, ClaimInv, ExecutorInv, OwnerInv,
     OneExecutor, RetriesAccounted, OutcomeMatchesStore, Runs, Published, Untouched

LEMMA SubmitInv ==
  ASSUME IInv, TypeOK', NEW k \in Jobs, NEW r \in Requests, Submit(k, r)
  PROVE  IInv'
<1>1. UNCHANGED <<results, cases, lock, worker, canceller, executions>>
  BY DEF Submit
<1>2. /\ \A j \in Jobs : \/ jobs'[j] = jobs[j]
                         \/ jobs[j].status = "ABSENT" /\ jobs'[j].status = "QUEUED"
  BY DEF Submit, IInv, TypeOK, QueuedJob, Job
<1>3. ClaimLockInv' /\ OneExecutor'
  BY <1>1 DEF IInv, ClaimLockInv, OneExecutor, Runs
<1>4. FreshInv'
  BY <1>1, <1>2 DEF IInv, FreshInv, Untouched
<1>5. CancelInv'
  BY <1>1, <1>2 DEF IInv, TypeOK, CancelInv
<1>6. \A w \in Workers : worker[w].pc # "idle" => worker[w].job \in Jobs
  BY BusyTyped DEF IInv
<1>7. ClaimInv'
  BY <1>1, <1>2, <1>6 DEF IInv, ClaimInv, Untouched, Runs
<1>8. ExecutorInv'
  BY <1>1, <1>2, <1>6 DEF IInv, ExecutorInv, OwnerInv, Published, Executing
<1>9. RetriesAccounted' /\ OutcomeMatchesStore'
  BY <1>1, <1>2 DEF IInv, RetriesAccounted, OutcomeMatchesStore, Published
<1> QED
  BY <1>3, <1>4, <1>5, <1>7, <1>8, <1>9 DEF IInv

\* A step of thread u that leaves the repository and the claims alone.
LEMMA StartInv ==
  ASSUME IInv, TypeOK', NEW u \in Workers, NEW k \in Jobs, StartTask(u, k)
  PROVE  IInv'
<1>1. UNCHANGED <<jobs, results, cases, lock, canceller, executions>>
  BY DEF StartTask, repo
<1>2. /\ worker[u].pc = "idle"
      /\ worker'[u].pc = "claim" /\ worker'[u].retries = 0
      /\ \A v \in Workers : v # u => worker'[v] = worker[v]
  BY Fields DEF StartTask, IInv, TypeOK
<1>3. ClaimLockInv'
  BY <1>1, <1>2 DEF IInv, ClaimLockInv
<1>4. FreshInv' /\ CancelInv' /\ RetriesAccounted' /\ OutcomeMatchesStore'
  BY <1>1 DEF IInv, FreshInv, CancelInv, RetriesAccounted, OutcomeMatchesStore, Untouched,
              Published
<1>5. \A v \in Workers, j \in Jobs : Runs(v, j)' => Runs(v, j)
  BY <1>2 DEF Runs, Executing
<1>6. ClaimInv'
  <2> SUFFICES ASSUME NEW w \in Workers, worker'[w].pc = "claimed"
               PROVE  /\ jobs'[worker'[w].job].status \in {"QUEUED", "CANCELLED"}
                      /\ Untouched(worker[w].job)'
                      /\ \A v \in Workers : ~Runs(v, worker[w].job)'
    BY DEF ClaimInv
  <2>1. w # u /\ worker'[w] = worker[w]
    BY <1>2
  <2>2. worker[w].job \in Jobs
    BY <2>1, BusyTyped DEF IInv
  <2> QED
    BY <1>1, <1>5, <2>1, <2>2 DEF IInv, ClaimInv, Untouched
<1>7. ExecutorInv'
  BY <1>1, <1>2 DEF IInv, ExecutorInv, OwnerInv, Executing, Published
<1>8. OneExecutor'
  BY <1>5 DEF IInv, OneExecutor
<1> QED
  BY <1>3, <1>4, <1>6, <1>7, <1>8 DEF IInv

LEMMA ClaimIInv ==
  ASSUME IInv, TypeOK', NEW u \in Workers, Claim(u)
  PROVE  IInv'
<1> DEFINE k == worker[u].job
<1>1. UNCHANGED <<jobs, results, cases, canceller, executions>>
  BY DEF Claim, repo
<1>2. /\ worker[u].pc = "claim" /\ worker[u].retries = 0 /\ k \in Jobs /\ lock = Nobody
      /\ \A v \in Workers : v # u => worker'[v] = worker[v]
  BY BusyTyped DEF Claim, IInv, TypeOK, ClaimLockInv
<1>3. \/ /\ jobs[k].status = "QUEUED" /\ lock' = u
         /\ worker'[u].pc = "claimed" /\ worker'[u].retries = 0 /\ worker'[u].job = k
      \/ lock' = Nobody /\ worker'[u].pc = "idle"
  <2>1. \/ jobs[k].status = "QUEUED" /\ lock' = u /\ worker'[u] = At(worker[u], "claimed")
        \/ lock' = Nobody /\ worker'[u] = IdleWorker
    BY <1>2 DEF Claim, IInv, TypeOK
  <2> QED
    BY <1>2, <2>1, Fields
<1>4. \A v \in Workers : worker[v].pc # "claimed"
  BY <1>2, RunnerAssumption DEF IInv, ClaimLockInv
<1>5. ClaimLockInv'
  BY <1>2, <1>3, <1>4, RunnerAssumption DEF IInv, ClaimLockInv
<1>6. FreshInv' /\ CancelInv' /\ RetriesAccounted' /\ OutcomeMatchesStore'
  BY <1>1 DEF IInv, FreshInv, CancelInv, RetriesAccounted, OutcomeMatchesStore, Untouched,
              Published
<1>7. \A v \in Workers, j \in Jobs : Runs(v, j)' => Runs(v, j)
  BY <1>2, <1>3 DEF Runs, Executing
<1>8. ClaimInv'
  <2> SUFFICES ASSUME NEW w \in Workers, worker'[w].pc = "claimed"
               PROVE  /\ jobs'[worker'[w].job].status \in {"QUEUED", "CANCELLED"}
                      /\ Untouched(worker[w].job)'
                      /\ \A v \in Workers : ~Runs(v, worker[w].job)'
    BY DEF ClaimInv
  <2>1. w = u /\ worker'[w].job = k /\ jobs[k].status = "QUEUED"
    BY <1>2, <1>3, <1>4
  <2>2. Untouched(k)
    BY <1>2, <2>1 DEF IInv, FreshInv
  <2>3. \A v \in Workers : ~Runs(v, k)
    BY <2>1 DEF IInv, ExecutorInv, OwnerInv, Runs
  <2> QED
    BY <1>1, <1>2, <1>7, <2>1, <2>2, <2>3 DEF Untouched
<1>9. ExecutorInv'
  BY <1>1, <1>2, <1>3 DEF IInv, ExecutorInv, OwnerInv, Executing, Published
<1>10. OneExecutor'
  BY <1>7 DEF IInv, OneExecutor
<1> QED
  BY <1>5, <1>6, <1>8, <1>9, <1>10 DEF IInv

LEMMA SaveRunningInv ==
  ASSUME IInv, TypeOK', NEW u \in Workers, SaveRunning(u)
  PROVE  IInv'
<1> DEFINE k == worker[u].job
<1>1. UNCHANGED <<results, cases, canceller, executions>>
  BY DEF SaveRunning
<1>2. /\ worker[u].pc = "claimed" /\ worker[u].retries = 0 /\ k \in Jobs
      /\ lock = u /\ lock' = Nobody
      /\ worker'[u].pc = "execute" /\ worker'[u].retries = 0 /\ worker'[u].job = k
      /\ \A v \in Workers : v # u => worker'[v] = worker[v]
  <2>1. /\ worker[u].pc = "claimed" /\ lock' = Nobody
        /\ worker'[u] = At(worker[u], "execute")
        /\ \A v \in Workers : v # u => worker'[v] = worker[v]
    BY DEF SaveRunning, IInv, TypeOK
  <2>2. worker[u].retries = 0 /\ lock = u /\ k \in Jobs
    BY <2>1, BusyTyped DEF IInv, ClaimLockInv
  <2> QED
    BY <2>1, <2>2, Fields
<1>3. /\ jobs'[k].status = "RUNNING"
      /\ \A j \in Jobs : j # k => jobs'[j] = jobs[j]
  BY <1>2 DEF SaveRunning, JobToSave, Job, IInv, TypeOK
<1>4. Untouched(k) /\ \A v \in Workers : ~Runs(v, k)
  BY <1>2 DEF IInv, ClaimInv
<1>5. ClaimLockInv'
  BY <1>2, RunnerAssumption DEF IInv, ClaimLockInv
<1>6. FreshInv' /\ CancelInv' /\ RetriesAccounted' /\ OutcomeMatchesStore'
  BY <1>1, <1>2, <1>3 DEF IInv, TypeOK, FreshInv, CancelInv, RetriesAccounted,
     OutcomeMatchesStore, Untouched, Published
<1>7. ClaimInv'
  BY <1>2, <1>5, RunnerAssumption DEF ClaimInv, ClaimLockInv
<1>8. ExecutorInv'
  <2> SUFFICES ASSUME NEW w \in Workers, worker'[w].pc \in Executing
               PROVE  OwnerInv(w)'
    BY DEF ExecutorInv
  <2>1. CASE w = u
    BY <1>1, <1>2, <1>3, <1>4, <2>1 DEF OwnerInv, Untouched
  <2>2. CASE w # u
    <3>1. worker'[w] = worker[w] /\ OwnerInv(w)
      BY <1>2, <2>2 DEF IInv, ExecutorInv
    <3>2. worker[w].job \in Jobs /\ worker[w].job # k
      BY <1>4, <3>1, BusyTyped DEF IInv, Runs, Executing
    <3> QED
      BY <1>1, <1>3, <3>1, <3>2 DEF OwnerInv, Published
  <2> QED
    BY <2>1, <2>2
<1>9. OneExecutor'
  BY <1>2, <1>4 DEF IInv, OneExecutor, Runs
<1> QED
  BY <1>5, <1>6, <1>7, <1>8, <1>9 DEF IInv

\* One execution of the handler, whichever way it ends: the retry counter
\* and the execution count advance together.
LEMMA ExecuteInv ==
  ASSUME IInv, TypeOK', NEW u \in Workers, NEW next, Execute(u, next),
         next.job = worker[u].job,
         \/ next.pc = "execute" /\ next.retries = worker[u].retries + 1
         \/ next.pc \in {"publish", "fail"} /\ next.retries = worker[u].retries
  PROVE  IInv'
<1> DEFINE k == worker[u].job
<1>1. UNCHANGED <<jobs, results, cases, lock, canceller>>
  BY DEF Execute, repo
<1>2. /\ worker[u].pc = "execute" /\ k \in Jobs
      /\ worker'[u] = next
      /\ \A v \in Workers : v # u => worker'[v] = worker[v]
  BY BusyTyped DEF Execute, IInv, TypeOK
<1>3. /\ executions'[k] = executions[k] + 1
      /\ \A j \in Jobs : j # k => executions'[j] = executions[j]
  BY <1>2 DEF Execute, IInv, TypeOK
<1>4. /\ jobs[k].status \in {"RUNNING", "CANCELLED"}
      /\ executions[k] = worker[u].retries
      /\ results[k] = 0 /\ k \notin cases
  BY <1>2 DEF IInv, ExecutorInv, OwnerInv, Executing
<1>5. worker[u].retries \in 0..(MaxAttempts - 1)
  BY <1>2, BusyTyped DEF IInv, BusyThread
<1>6. \A v \in Workers, j \in Jobs : Runs(v, j)' <=> Runs(v, j)
  BY <1>2 DEF Runs, Executing
<1>7. ClaimLockInv'
  BY <1>1, <1>2 DEF IInv, ClaimLockInv
<1>8. FreshInv' /\ CancelInv' /\ OutcomeMatchesStore'
  BY <1>1, <1>3, <1>4 DEF IInv, FreshInv, CancelInv, OutcomeMatchesStore, Untouched, Published
<1>9. RetriesAccounted'
  BY <1>1, <1>3, <1>4, <1>5, RunnerAssumption DEF IInv, RetriesAccounted
<1>10. ClaimInv'
  <2> SUFFICES ASSUME NEW w \in Workers, worker'[w].pc = "claimed"
               PROVE  /\ jobs'[worker'[w].job].status \in {"QUEUED", "CANCELLED"}
                      /\ Untouched(worker[w].job)'
                      /\ \A v \in Workers : ~Runs(v, worker[w].job)'
    BY DEF ClaimInv
  <2>1. w # u /\ worker'[w] = worker[w]
    BY <1>2
  <2>2. worker[w].job \in Jobs /\ worker[w].job # k
    BY <1>2, <2>1, BusyTyped DEF IInv, ClaimInv, Runs, Executing
  <2> QED
    BY <1>1, <1>3, <1>6, <2>1, <2>2 DEF IInv, ClaimInv, Untouched
<1>11. ExecutorInv'
  <2> SUFFICES ASSUME NEW w \in Workers, worker'[w].pc \in Executing
               PROVE  OwnerInv(w)'
    BY DEF ExecutorInv
  <2>1. CASE w = u
    BY <1>1, <1>2, <1>3, <1>4, <2>1 DEF OwnerInv
  <2>2. CASE w # u
    <3>1. worker'[w] = worker[w] /\ OwnerInv(w)
      BY <1>2, <2>2 DEF IInv, ExecutorInv
    <3>2. worker[w].job \in Jobs /\ worker[w].job # k
      BY <1>2, <2>2, <3>1, BusyTyped DEF IInv, OneExecutor, Runs, Executing
    <3> QED
      BY <1>1, <1>3, <3>1, <3>2 DEF OwnerInv, Published
  <2> QED
    BY <2>1, <2>2
<1>12. OneExecutor'
  BY <1>6 DEF IInv, OneExecutor
<1> QED
  BY <1>7, <1>8, <1>9, <1>10, <1>11, <1>12 DEF IInv

LEMMA HandlerInv ==
  ASSUME IInv, TypeOK', NEW u \in Workers,
         HandlerComputes(u) \/ HandlerFailsTransiently(u) \/ HandlerFailsPermanently(u)
  PROVE  IInv'
<1>1. CASE HandlerComputes(u)
  BY <1>1, ExecuteInv, Fields DEF HandlerComputes
<1>2. CASE HandlerFailsTransiently(u)
  BY <1>2, ExecuteInv, Fields DEF HandlerFailsTransiently, AfterTransient
<1>3. CASE HandlerFailsPermanently(u)
  BY <1>3, ExecuteInv, Fields DEF HandlerFailsPermanently
<1> QED
  BY <1>1, <1>2, <1>3

\* The owner of a job publishes: nobody else reads or writes its result.
LEMMA PublishInv ==
  ASSUME IInv, TypeOK', NEW u \in Workers, worker[u].pc \in Executing,
         UNCHANGED <<jobs, lock, canceller, executions>>,
         worker'[u].pc \in {"publish_case", "succeed"},
         worker[u].pc # "execute",
         worker'[u].job = worker[u].job, worker'[u].retries = worker[u].retries,
         \A v \in Workers : v # u => worker'[v] = worker[v],
         \A j \in Jobs : j # worker[u].job =>
            results'[j] = results[j] /\ (j \in cases' <=> j \in cases),
         results'[worker[u].job] # 0,
         worker'[u].pc = "publish_case" => worker[u].job \in ChangedJobs,
         worker'[u].pc = "succeed" => Published(worker[u].job)'
  PROVE  IInv'
<1> DEFINE k == worker[u].job
<1>1. k \in Jobs
  BY BusyTyped DEF IInv, Executing
<1>2. /\ jobs[k].status \in {"RUNNING", "CANCELLED"}
      /\ executions[k] = worker[u].retries + 1
  BY DEF IInv, ExecutorInv, OwnerInv
<1>3. \A v \in Workers, j \in Jobs : Runs(v, j)' <=> Runs(v, j)
  BY DEF Runs, Executing
<1>4. ClaimLockInv' /\ CancelInv' /\ RetriesAccounted'
  BY DEF IInv, ClaimLockInv, CancelInv, RetriesAccounted, Executing
<1>5. FreshInv' /\ OutcomeMatchesStore'
  BY <1>2 DEF IInv, FreshInv, OutcomeMatchesStore, Untouched, Published
<1>6. ClaimInv'
  <2> SUFFICES ASSUME NEW w \in Workers, worker'[w].pc = "claimed"
               PROVE  /\ jobs'[worker'[w].job].status \in {"QUEUED", "CANCELLED"}
                      /\ Untouched(worker[w].job)'
                      /\ \A v \in Workers : ~Runs(v, worker[w].job)'
    BY DEF ClaimInv
  <2>1. w # u /\ worker'[w] = worker[w]
    OBVIOUS
  <2>2. worker[w].job \in Jobs /\ worker[w].job # k
    BY <2>1, BusyTyped DEF IInv, ClaimInv, Runs
  <2> QED
    BY <1>3, <2>1, <2>2 DEF IInv, ClaimInv, Untouched
<1>7. ExecutorInv'
  <2> SUFFICES ASSUME NEW w \in Workers, worker'[w].pc \in Executing
               PROVE  OwnerInv(w)'
    BY DEF ExecutorInv
  <2>1. CASE w = u
    BY <1>1, <1>2, <2>1 DEF OwnerInv
  <2>2. CASE w # u
    <3>1. worker'[w] = worker[w] /\ OwnerInv(w)
      BY <2>2 DEF IInv, ExecutorInv
    <3>2. worker[w].job \in Jobs /\ worker[w].job # k
      BY <2>2, <3>1, BusyTyped DEF IInv, OneExecutor, Runs, Executing
    <3> QED
      BY <3>1, <3>2 DEF OwnerInv, Published
  <2> QED
    BY <2>1, <2>2
<1>8. OneExecutor'
  BY <1>3 DEF IInv, OneExecutor
<1> QED
  BY <1>4, <1>5, <1>6, <1>7, <1>8 DEF IInv

LEMMA PublishStepsInv ==
  ASSUME IInv, TypeOK', NEW u \in Workers, PublishResult(u) \/ PublishCase(u)
  PROVE  IInv'
<1> DEFINE k == worker[u].job
<1>1. CASE PublishResult(u)
  <2>1. /\ worker[u].pc = "publish" /\ worker[u].pc \in Executing /\ k \in Jobs
        /\ UNCHANGED <<jobs, cases, lock, canceller, executions>>
        /\ \A v \in Workers : v # u => worker'[v] = worker[v]
    BY <1>1, BusyTyped DEF PublishResult, Executing, IInv, TypeOK
  <2>2. results[k] = 0 /\ executions[k] = worker[u].retries + 1
    BY <2>1 DEF IInv, ExecutorInv, OwnerInv
  <2>3. worker[u].retries \in Nat
    BY <2>1, BusyTyped DEF IInv, BusyThread
  <2>4. /\ results'[k] # 0
        /\ \A j \in Jobs : j # k => results'[j] = results[j]
    BY <1>1, <2>1, <2>2, <2>3 DEF PublishResult, IInv, TypeOK
  <2>5. CASE k \in ChangedJobs
    <3>1. worker'[u] = At(worker[u], "publish_case")
      BY <1>1, <2>2, <2>5 DEF PublishResult, IInv, TypeOK
    <3> QED
      BY <2>1, <2>4, <2>5, <3>1, Fields, PublishInv
  <2>6. CASE k \notin ChangedJobs
    <3>1. worker'[u] = At(worker[u], "succeed")
      BY <1>1, <2>2, <2>6 DEF PublishResult, IInv, TypeOK
    <3>2. /\ worker'[u].pc = "succeed" /\ worker'[u].job = k
          /\ worker'[u].retries = worker[u].retries
      BY <3>1, Fields
    <3>3. Published(worker[u].job)'
      BY <2>4, <2>6, <3>2 DEF Published
    <3> QED
      BY <2>1, <2>4, <3>2, <3>3, PublishInv
  <2> QED
    BY <2>5, <2>6
<1>2. CASE PublishCase(u)
  <2>1. /\ worker[u].pc = "publish_case" /\ worker[u].pc \in Executing /\ k \in Jobs
        /\ UNCHANGED <<jobs, results, lock, canceller, executions>>
        /\ \A v \in Workers : v # u => worker'[v] = worker[v]
        /\ worker'[u] = At(worker[u], "succeed")
        /\ cases' = cases \cup {k}
    BY <1>2, BusyTyped DEF PublishCase, Executing, IInv, TypeOK
  <2>2. results[k] # 0
    BY <2>1 DEF IInv, ExecutorInv, OwnerInv
  <2>3. /\ worker'[u].pc = "succeed" /\ worker'[u].job = k
        /\ worker'[u].retries = worker[u].retries
    BY <2>1, Fields
  <2>4. Published(worker[u].job)'
    BY <2>1, <2>2, <2>3 DEF Published
  <2> QED
    BY <2>1, <2>2, <2>3, <2>4, PublishInv
<1> QED
  BY <1>1, <1>2

LEMMA SaveOutcomeInv ==
  ASSUME IInv, TypeOK', NEW u \in Workers, SaveOutcome(u)
  PROVE  IInv'
<1> DEFINE k == worker[u].job
<1>1. UNCHANGED <<results, cases, lock, canceller, executions>>
  BY DEF SaveOutcome
<1>2. /\ worker[u].pc \in {"succeed", "fail"} /\ worker[u].pc \in Executing /\ k \in Jobs
      /\ worker'[u].pc = "idle"
      /\ \A v \in Workers : v # u => worker'[v] = worker[v]
  BY BusyTyped, Fields DEF SaveOutcome, Executing, IInv, TypeOK
<1>3. /\ jobs'[k] = JobToSave(worker[u])
      /\ \A j \in Jobs : j # k => jobs'[j] = jobs[j]
  BY <1>2 DEF SaveOutcome, IInv, TypeOK
<1>4. /\ jobs'[k].status = IF worker[u].pc = "succeed" THEN "SUCCEEDED" ELSE "FAILED"
      /\ jobs'[k].retries = worker[u].retries
  BY <1>2, <1>3 DEF JobToSave, Job
<1>5. /\ executions[k] = worker[u].retries + 1
      /\ worker[u].pc = "succeed" => Published(k)
      /\ worker[u].pc = "fail" => results[k] = 0 /\ k \notin cases
  BY <1>2 DEF IInv, ExecutorInv, OwnerInv
<1>6. \A v \in Workers, j \in Jobs : Runs(v, j)' => Runs(v, j) /\ j # k
  BY <1>2 DEF Runs, Executing, IInv, OneExecutor
<1>7. ClaimLockInv'
  BY <1>1, <1>2 DEF IInv, ClaimLockInv
<1>8. FreshInv' /\ CancelInv'
  BY <1>1, <1>3, <1>4 DEF IInv, TypeOK, FreshInv, CancelInv, Untouched
<1>9. RetriesAccounted' /\ OutcomeMatchesStore'
  <2>1. RetriesAccounted'
    BY <1>1, <1>3, <1>4, <1>5 DEF IInv, RetriesAccounted
  <2>2. ASSUME NEW j \in Jobs
        PROVE  /\ jobs'[j].status = "SUCCEEDED" => Published(j)'
               /\ jobs'[j].status = "FAILED" => results'[j] = 0 /\ j \notin cases'
    <3>1. CASE j = k
      BY <1>1, <1>2, <1>4, <1>5, <3>1 DEF Published
    <3>2. CASE j # k
      BY <1>1, <1>3, <3>2 DEF IInv, OutcomeMatchesStore, Published
    <3> QED
      BY <3>1, <3>2
  <2> QED
    BY <2>1, <2>2 DEF OutcomeMatchesStore
<1>10. ClaimInv'
  <2> SUFFICES ASSUME NEW w \in Workers, worker'[w].pc = "claimed"
               PROVE  /\ jobs'[worker'[w].job].status \in {"QUEUED", "CANCELLED"}
                      /\ Untouched(worker[w].job)'
                      /\ \A v \in Workers : ~Runs(v, worker[w].job)'
    BY DEF ClaimInv
  <2>1. w # u /\ worker'[w] = worker[w]
    BY <1>2
  <2>2. worker[w].job \in Jobs /\ worker[w].job # k
    BY <1>2, <2>1, BusyTyped DEF IInv, ClaimInv, Runs
  <2> QED
    BY <1>1, <1>3, <1>6, <2>1, <2>2 DEF IInv, ClaimInv, Untouched
<1>11. ExecutorInv'
  <2> SUFFICES ASSUME NEW w \in Workers, worker'[w].pc \in Executing
               PROVE  OwnerInv(w)'
    BY DEF ExecutorInv
  <2>1. w # u /\ worker'[w] = worker[w] /\ OwnerInv(w)
    BY <1>2 DEF IInv, ExecutorInv, Executing
  <2>2. worker[w].job \in Jobs /\ worker[w].job # k
    BY <1>2, <2>1, BusyTyped DEF IInv, OneExecutor, Runs, Executing
  <2> QED
    BY <1>1, <1>3, <2>1, <2>2 DEF OwnerInv, Published
<1>12. OneExecutor'
  BY <1>6 DEF IInv, OneExecutor
<1> QED
  BY <1>7, <1>8, <1>9, <1>10, <1>11, <1>12 DEF IInv

\* cancel() changes statuses only, and to one no executor is surprised by.
LEMMA CancelStepsInv ==
  ASSUME IInv, TypeOK', NEW c \in Cancellers,
         (\E j \in Jobs : CancelRead(c, j)) \/ CancelWrite(c)
  PROVE  IInv'
<1>1. CASE \E j \in Jobs : CancelRead(c, j)
  <2>1. UNCHANGED <<jobs, results, cases, lock, worker, executions>>
    BY <1>1 DEF CancelRead, repo
  <2>2. CancelInv'
    BY <1>1, <2>1 DEF CancelRead, CancelInv, IInv, TypeOK
  <2> QED
    BY <2>1, <2>2 DEF IInv, ClaimLockInv, FreshInv, ClaimInv, ExecutorInv, OwnerInv,
       OneExecutor, RetriesAccounted, OutcomeMatchesStore, Runs, Published, Untouched
<1>2. CASE CancelWrite(c)
  <2>1. UNCHANGED <<results, cases, lock, worker, executions>>
    BY <1>2 DEF CancelWrite
  <2>2. \A j \in Jobs : \/ jobs'[j] = jobs[j]
                        \/ jobs[j].status # "ABSENT" /\ jobs'[j].status = "CANCELLED"
    BY <1>2 DEF CancelWrite, IInv, TypeOK, CancelInv, Job
  <2>3. \A d \in Cancellers : canceller'[d] \in {Nobody, canceller[d]}
    BY <1>2 DEF CancelWrite, IInv, TypeOK
  <2>4. \A w \in Workers : worker[w].pc # "idle" => worker[w].job \in Jobs
    BY BusyTyped DEF IInv
  <2>5. ClaimLockInv' /\ OneExecutor'
    BY <2>1 DEF IInv, ClaimLockInv, OneExecutor, Runs
  <2>6. FreshInv'
    BY <2>1, <2>2 DEF IInv, FreshInv, Untouched
  <2>7. CancelInv'
    BY <2>2, <2>3 DEF IInv, TypeOK, CancelInv
  <2>8. ClaimInv' /\ ExecutorInv'
    BY <2>1, <2>2, <2>4 DEF IInv, ClaimInv, ExecutorInv, OwnerInv, Untouched, Runs,
       Published, Executing
  <2>9. RetriesAccounted' /\ OutcomeMatchesStore'
    BY <2>1, <2>2 DEF IInv, RetriesAccounted, OutcomeMatchesStore, Published
  <2> QED
    BY <2>5, <2>6, <2>7, <2>8, <2>9 DEF IInv
<1> QED
  BY <1>1, <1>2

LEMMA NextIInv == IInv /\ [Next]_vars => IInv'
<1> SUFFICES ASSUME IInv, [Next]_vars PROVE IInv'
  OBVIOUS
<1>1. TypeOK'
  BY NextTypeOK DEF IInv
<1>2. ASSUME NEW j \in Jobs, NEW r \in Requests, Submit(j, r) PROVE IInv'
  BY <1>1, <1>2, SubmitInv
<1>3. CASE SaveRequest \/ Schedule
  BY <1>1, <1>3, RouteInv DEF SaveRequest, Schedule, repo
<1>4. ASSUME NEW w \in Workers, NEW j \in Jobs, StartTask(w, j) PROVE IInv'
  BY <1>1, <1>4, StartInv
<1>5. ASSUME NEW w \in Workers, Run(w) PROVE IInv'
  BY <1>1, <1>5, ClaimIInv, SaveRunningInv, HandlerInv, PublishStepsInv, SaveOutcomeInv
     DEF Run
<1>6. ASSUME NEW c \in Cancellers, (\E j \in Jobs : CancelRead(c, j)) \/ CancelWrite(c)
      PROVE  IInv'
  BY <1>1, <1>6, CancelStepsInv
<1>7. CASE UNCHANGED vars
  BY <1>1, <1>7, RouteInv DEF vars, repo
<1> QED
  BY <1>2, <1>3, <1>4, <1>5, <1>6, <1>7 DEF Next

-----------------------------------------------------------------------------
(* The results.                                                            *)

LEMMA Invariance == Spec => []IInv
<1>1. Init => IInv
  BY InitIInv
<1>2. IInv /\ [Next]_vars => IInv'
  BY NextIInv
<1> QED
  BY <1>1, <1>2, PTL DEF Spec

(* However many tasks and threads there are, and whoever cancels, no two   *)
(* threads execute the same job (run()'s claim).                           *)
THEOREM NoTwoExecutors == Spec => []OneExecutor
<1>1. IInv => OneExecutor
  BY DEF IInv
<1> QED
  BY <1>1, Invariance, PTL

(* The retries are bounded by the policy and reported truthfully.          *)
THEOREM BoundedRetries == Spec => []RetriesAccounted
<1>1. IInv => RetriesAccounted
  BY DEF IInv
<1> QED
  BY <1>1, Invariance, PTL

(* A job is SUCCEEDED only with its result and case stored, and FAILED     *)
(* only with neither.                                                      *)
THEOREM TruthfulOutcome == Spec => []OutcomeMatchesStore
<1>1. IInv => OutcomeMatchesStore
  BY DEF IInv
<1> QED
  BY <1>1, Invariance, PTL

-----------------------------------------------------------------------------
(* The request of a job is stored before its task is added, and stays.     *)

Requested(j) == requests[j] # NoRequest

RequestInv ==
  /\ api.pc = "schedule" => Requested(api.job)
  /\ \A j \in Jobs : tasks[j] > 0 => Requested(j)
  /\ \A w \in Workers : worker[w].pc # "idle" => Requested(worker[w].job)

\* No step forgets a request.
LEMMA RequestsStay ==
  ASSUME TypeOK, [Next]_vars, NEW j \in Jobs, Requested(j)
  PROVE  Requested(j)'
<1>1. CASE SaveRequest
  <2>1. api.job \in Jobs /\ api.request # NoRequest
    BY <1>1, RouteTyped, RunnerAssumption DEF SaveRequest
  <2> QED
    BY <1>1, <2>1 DEF SaveRequest, Requested, TypeOK
<1>2. CASE ~SaveRequest
  <2>1. UNCHANGED requests
    BY <1>2 DEF Next, Run, vars, repo, Submit, Schedule, StartTask, Claim, SaveRunning, Execute,
       HandlerComputes, HandlerFailsTransiently, HandlerFailsPermanently, PublishResult,
       PublishCase, SaveOutcome, CancelRead, CancelWrite
  <2> QED
    BY <2>1 DEF Requested
<1> QED
  BY <1>1, <1>2

\* A thread gets a job from a task, keeps it, and gives it up.
LEMMA WorkerStep ==
  ASSUME TypeOK, [Next]_vars, NEW w \in Workers, worker'[w].pc # "idle"
  PROVE  \/ worker[w].pc # "idle" /\ worker'[w].job = worker[w].job
         \/ tasks[worker'[w].job] > 0
<1>1. ASSUME NEW u \in Workers, NEW j \in Jobs, StartTask(u, j)
      PROVE  worker'[w] = worker[w] \/ tasks[worker'[w].job] > 0
  BY <1>1, Fields DEF StartTask, TypeOK
<1>2. ASSUME NEW u \in Workers, Run(u)
      PROVE  \/ worker'[w] = worker[w]
             \/ worker[w].pc # "idle" /\ worker'[w].job = worker[w].job
  <2>1. worker[u].pc # "idle"
    BY <1>2 DEF Run, Claim, SaveRunning, Execute, HandlerComputes, HandlerFailsTransiently,
       HandlerFailsPermanently, PublishResult, PublishCase, SaveOutcome
  <2>2. \E next \in {IdleWorker, AfterTransient(worker[u]), FailedWith(worker[u], "PERMANENT")}
                      \cup {At(worker[u], pc) : pc \in {"claimed"} \cup Executing} :
          worker' = [worker EXCEPT ![u] = next]
    BY <1>2 DEF Run, Claim, SaveRunning, Execute, HandlerComputes, HandlerFailsTransiently,
       HandlerFailsPermanently, PublishResult, PublishCase, SaveOutcome, Executing
  <2>3. AfterTransient(worker[u]).job = worker[u].job
    BY Fields DEF AfterTransient
  <2> QED
    BY <2>1, <2>2, <2>3, Fields DEF TypeOK
<1>3. ASSUME ~(\E u \in Workers, j \in Jobs : StartTask(u, j)), ~(\E u \in Workers : Run(u))
      PROVE  UNCHANGED worker
  BY <1>3 DEF Next, vars, Submit, SaveRequest, Schedule, CancelRead, CancelWrite
<1> QED
  BY <1>1, <1>2, <1>3

LEMMA RequestInductive == TypeOK /\ RequestInv /\ [Next]_vars => RequestInv'
<1> SUFFICES ASSUME TypeOK, RequestInv, [Next]_vars PROVE RequestInv'
  OBVIOUS
<1>1. \A j \in Jobs : Requested(j) => Requested(j)'
  BY RequestsStay
<1>2. ASSUME NEW w \in Workers, worker'[w].pc # "idle" PROVE Requested(worker[w].job)'
  <2>1. worker'[w].job \in Jobs
    BY <1>2, NextTypeOK, BusyTyped DEF TypeOK, IdleWorker, Thread, BusyThread
  <2>2. Requested(worker'[w].job)
    BY <1>2, <2>1, WorkerStep DEF RequestInv
  <2>3. requests'[worker'[w].job] # NoRequest
    BY <2>1, <2>2, RequestsStay DEF Requested
  <2> QED
    BY <2>3 DEF Requested
<1>3. ASSUME NEW j \in Jobs, tasks'[j] > 0 PROVE Requested(j)'
  <2>1. CASE tasks[j] > 0
    BY <1>1, <2>1 DEF RequestInv
  <2>2. CASE ~(tasks[j] > 0)
    <3>1. Schedule /\ j = api.job
      <4>1. ASSUME NEW u \in Workers, NEW k \in Jobs, StartTask(u, k) PROVE FALSE
        BY <1>3, <2>2, <4>1 DEF StartTask, TypeOK
      <4>2. ASSUME Schedule, j # api.job PROVE FALSE
        BY <1>3, <2>2, <4>2 DEF Schedule, TypeOK
      <4>3. ASSUME ~Schedule, ~(\E u \in Workers, k \in Jobs : StartTask(u, k))
            PROVE  UNCHANGED tasks
        BY <4>3 DEF Next, Run, vars, Submit, SaveRequest, Claim, SaveRunning, Execute,
           HandlerComputes, HandlerFailsTransiently, HandlerFailsPermanently, PublishResult,
           PublishCase, SaveOutcome, CancelRead, CancelWrite
      <4> QED
        BY <1>3, <2>2, <4>1, <4>2, <4>3
    <3>2. Requested(j)
      BY <3>1 DEF Schedule, RequestInv
    <3> QED
      BY <1>1, <3>2
  <2> QED
    BY <2>1, <2>2
<1>4. ASSUME api'.pc = "schedule" PROVE Requested(api.job)'
  <2>1. CASE UNCHANGED api
    <3>1. api.job \in Jobs /\ Requested(api.job)
      BY <1>4, <2>1, RouteTyped DEF RequestInv
    <3> QED
      BY <1>1, <2>1, <3>1 DEF Requested
  <2>2. CASE SaveRequest
    <3>1. api.job \in Jobs /\ api.request # NoRequest
      BY <2>2, RouteTyped, RunnerAssumption DEF SaveRequest
    <3>2. api'.job = api.job /\ requests' = [requests EXCEPT ![api.job] = api.request]
      BY <1>4, <2>2 DEF SaveRequest, Route, IdleApi
    <3> QED
      BY <3>1, <3>2 DEF Requested, TypeOK
  <2>3. ASSUME NEW j \in Jobs, NEW r \in Requests, Submit(j, r) PROVE FALSE
    BY <1>4, <2>3 DEF Submit, Route
  <2>4. CASE Schedule
    BY <1>4, <2>4 DEF Schedule, IdleApi, Route
  <2>5. ASSUME ~SaveRequest, ~Schedule, ~(\E j \in Jobs, r \in Requests : Submit(j, r))
        PROVE  UNCHANGED api
    BY <2>5 DEF Next, Run, vars, StartTask, Claim, SaveRunning, Execute,
       HandlerComputes, HandlerFailsTransiently, HandlerFailsPermanently, PublishResult,
       PublishCase, SaveOutcome, CancelRead, CancelWrite
  <2> QED
    BY <2>1, <2>2, <2>3, <2>4, <2>5
<1> QED
  BY <1>2, <1>3, <1>4 DEF RequestInv

(* Whatever is submitted again and refused meanwhile, the handler finds    *)
(* the request of its job (enqueue_processing stores it before add_task).  *)
THEOREM RequestsFirst == Spec => []RequestBeforeWork
<1>1. Init => TypeOK /\ RequestInv
  BY InitTypeOK DEF Init, RequestInv, IdleApi, Route, IdleWorker, Thread
<1>2. TypeOK /\ RequestInv /\ [Next]_vars => (TypeOK /\ RequestInv)'
  BY NextTypeOK, RequestInductive
<1>3. TypeOK /\ RequestInv => RequestBeforeWork
  <2> SUFFICES ASSUME TypeOK, RequestInv, NEW j \in Jobs, NEW w \in Workers, worker[w].job = j
               PROVE  worker[w].pc # "idle"
    BY DEF RequestBeforeWork, RequestInv, Requested
  <2>1. IdleWorker.job \notin Jobs
    BY RunnerAssumption DEF IdleWorker, Thread
  <2>2. worker[w] # IdleWorker
    BY <2>1
  <2> QED
    BY <2>2 DEF TypeOK, BusyThread, Executing
<1> QED
  BY <1>1, <1>2, <1>3, PTL DEF Spec

-----------------------------------------------------------------------------
(* The steps of JobLifecycle, when nobody calls cancel().                  *)

NotCancelled == \A j \in Jobs : jobs[j].status # "CANCELLED"

LEMMA NotCancelledStep ==
  ASSUME Cancellers = {}, TypeOK, NotCancelled, [Next]_vars
  PROVE  NotCancelled'
<1>1. \A t : JobToSave(t).status # "CANCELLED"
  BY DEF JobToSave, Job
<1>2. QueuedJob.status # "CANCELLED"
  BY DEF QueuedJob, Job
<1>3. ASSUME NEW w \in Workers, SaveRunning(w) \/ SaveOutcome(w) PROVE NotCancelled'
  <2>1. \E t : jobs' = [jobs EXCEPT ![worker[w].job] = JobToSave(t)]
    BY <1>3 DEF SaveRunning, SaveOutcome
  <2> QED
    BY <1>1, <2>1 DEF NotCancelled, TypeOK
<1>4. ASSUME NEW j \in Jobs, NEW r \in Requests, Submit(j, r) PROVE NotCancelled'
  BY <1>2, <1>4 DEF Submit, NotCancelled, TypeOK
<1>5. ASSUME ~(\E w \in Workers : SaveRunning(w) \/ SaveOutcome(w)),
             ~(\E j \in Jobs, r \in Requests : Submit(j, r))
      PROVE  UNCHANGED jobs
  BY <1>5 DEF Next, Run, vars, repo, SaveRequest, Schedule, StartTask, Claim, Execute,
     HandlerComputes, HandlerFailsTransiently, HandlerFailsPermanently, PublishResult,
     PublishCase
<1> QED
  BY <1>3, <1>4, <1>5 DEF NotCancelled

\* A step that changes what one job shows is a step of the lifecycle.
LEMMA ShownStep ==
  ASSUME NEW k \in Jobs,
         \A j \in Jobs : j # k => /\ jobs'[j].status = jobs[j].status
                                  /\ Published(j)' = Published(j)
                                  /\ executions'[j] = executions[j],
         \/ /\ jobs[k].status = "ABSENT" /\ jobs'[k].status = "QUEUED"
            /\ Published(k)' = Published(k) /\ executions'[k] = executions[k]
         \/ /\ jobs[k].status = "QUEUED" /\ jobs'[k].status = "RUNNING"
            /\ Published(k)' = Published(k) /\ executions'[k] = executions[k]
         \/ /\ jobs[k].status = "RUNNING" /\ ~Published(k) /\ executions[k] < MaxAttempts
            /\ executions'[k] = executions[k] + 1
            /\ jobs'[k].status = jobs[k].status /\ Published(k)' = Published(k)
         \/ /\ jobs[k].status = "RUNNING" /\ ~Published(k) /\ executions[k] > 0
            /\ Published(k)' = TRUE
            /\ jobs'[k].status = jobs[k].status /\ executions'[k] = executions[k]
         \/ /\ jobs[k].status = "RUNNING" /\ Published(k) /\ jobs'[k].status = "SUCCEEDED"
            /\ Published(k)' = Published(k) /\ executions'[k] = executions[k]
         \/ /\ jobs[k].status = "RUNNING" /\ ~Published(k) /\ executions[k] > 0
            /\ jobs'[k].status = "FAILED"
            /\ Published(k)' = Published(k) /\ executions'[k] = executions[k],
         executions \in [Jobs -> Nat], executions' \in [Jobs -> Nat]
  PROVE  Lifecycle!Next
<1> DEFINE st == [j \in Jobs |-> jobs[j].status]
           pub == [j \in Jobs |-> Published(j)]
<1>1. \A x : st' = [st EXCEPT ![k] = x] <=> jobs'[k].status = x
  OBVIOUS
<1>2. \A x : pub' = [pub EXCEPT ![k] = x] <=> Published(k)' = x
  OBVIOUS
<1>3. \A x : executions' = [executions EXCEPT ![k] = x] <=> executions'[k] = x
  OBVIOUS
<1>4. /\ st' = st <=> jobs'[k].status = jobs[k].status
      /\ pub' = pub <=> Published(k)' = Published(k)
      /\ executions' = executions <=> executions'[k] = executions[k]
  OBVIOUS
<1>5. st[k] = jobs[k].status /\ pub[k] = Published(k)
  OBVIOUS
<1> HIDE DEF st, pub
<1>6. Lifecycle!Submit(k) \/ Lifecycle!Process(k)
  BY <1>1, <1>2, <1>3, <1>4, <1>5
     DEF Lifecycle!Submit, Lifecycle!Process, Lifecycle!Start, Lifecycle!Attempt,
         Lifecycle!Publish, Lifecycle!Succeed, Lifecycle!Fail, Lifecycle!Move, st, pub
<1> QED
  BY <1>6 DEF Lifecycle!Next

LEMMA RunShows ==
  ASSUME Cancellers = {}, IInv, NotCancelled, IInv', NEW w \in Workers, Run(w),
         NEW k, k = worker[w].job
  PROVE  \/ Lifecycle!Next
         \/ UNCHANGED executions /\ \A j \in Jobs : /\ jobs'[j].status = jobs[j].status
                                                    /\ Published(j)' = Published(j)
<1> USE DEF Published
<1>1. executions \in [Jobs -> Nat] /\ executions' \in [Jobs -> Nat] /\ MaxAttempts \in Nat
  BY RunnerAssumption DEF IInv, TypeOK
<1>2. CASE Claim(w)
  BY <1>2 DEF Claim, repo
<1>3. CASE SaveRunning(w)
  <2>1. k \in Jobs /\ UNCHANGED <<results, cases, executions>>
    BY <1>3, BusyTyped DEF SaveRunning, IInv
  <2>2. jobs[k].status = "QUEUED"
    BY <1>3, <2>1 DEF SaveRunning, IInv, ClaimInv, NotCancelled
  <2>3. /\ jobs'[k].status = "RUNNING"
        /\ \A j \in Jobs : j # k => jobs'[j] = jobs[j]
    BY <1>3, <2>1 DEF SaveRunning, JobToSave, Job, IInv, TypeOK
  <2> QED
    BY <1>1, <2>1, <2>2, <2>3, ShownStep
<1>4. CASE HandlerComputes(w) \/ HandlerFailsTransiently(w) \/ HandlerFailsPermanently(w)
  <2>1. /\ worker[w].pc = "execute" /\ UNCHANGED <<jobs, results, cases>>
        /\ executions' = [executions EXCEPT ![k] = @ + 1]
    BY <1>4 DEF HandlerComputes, HandlerFailsTransiently, HandlerFailsPermanently, Execute, repo
  <2>2. k \in Jobs /\ worker[w].retries \in 0..(MaxAttempts - 1)
    BY <2>1, BusyTyped DEF IInv, BusyThread
  <2>3. /\ jobs[k].status = "RUNNING" /\ ~Published(k)
        /\ executions[k] = worker[w].retries
    BY <2>1, <2>2 DEF IInv, ExecutorInv, OwnerInv, Executing, NotCancelled
  <2>4. executions[k] < MaxAttempts
    BY <1>1, <2>2, <2>3
  <2>5. /\ executions'[k] = executions[k] + 1
        /\ \A j \in Jobs : j # k => executions'[j] = executions[j]
    BY <1>1, <2>1, <2>2
  <2> QED
    BY <1>1, <2>1, <2>2, <2>3, <2>4, <2>5, ShownStep
<1>5. CASE PublishResult(w) \/ PublishCase(w)
  <2>1. /\ worker[w].pc \in {"publish", "publish_case"} /\ worker[w].pc \in Executing
        /\ UNCHANGED <<jobs, executions>> /\ k \in Jobs
    BY <1>5, BusyTyped DEF PublishResult, PublishCase, IInv, Executing
  <2>2. /\ jobs[k].status = "RUNNING" /\ executions[k] = worker[w].retries + 1
    BY <2>1 DEF IInv, ExecutorInv, OwnerInv, NotCancelled
  <2>3. executions[k] > 0
    <3>1. worker[w].retries \in Nat
      BY <2>1, BusyTyped DEF IInv, BusyThread
    <3> QED
      BY <2>2, <3>1
  <2>4. /\ \A j \in Jobs : j # k => results'[j] = results[j] /\ (j \in cases' <=> j \in cases)
        /\ results[k] # 0 => results'[k] # 0
        /\ k \in cases => k \in cases'
    <3>1. CASE PublishResult(w)
      <4>1. /\ results' = [results EXCEPT ![k] = IF @ = 0 THEN executions[k] ELSE @]
            /\ UNCHANGED cases
        BY <3>1 DEF PublishResult
      <4> QED
        BY <2>1, <4>1 DEF IInv, TypeOK
    <3>2. CASE PublishCase(w)
      BY <3>2 DEF PublishCase
    <3> QED
      BY <1>5, <3>1, <3>2
  <2>5. Published(k) => Published(k)'
    BY <2>4
  <2>6. CASE Published(k)' = Published(k)
    BY <2>1, <2>4, <2>6
  <2>7. CASE ~Published(k) /\ Published(k)'
    <3>1. Published(k)' = TRUE
      BY <2>7
    <3>2. \A j \in Jobs : j # k => Published(j)' = Published(j)
      BY <2>4
    <3> HIDE DEF Published
    <3> QED
      BY <1>1, <2>1, <2>2, <2>3, <2>7, <3>1, <3>2, ShownStep
  <2> QED
    BY <2>5, <2>6, <2>7
<1>6. CASE SaveOutcome(w)
  <2>1. /\ worker[w].pc \in {"succeed", "fail"} /\ worker[w].pc \in Executing
        /\ UNCHANGED <<results, cases, executions>> /\ k \in Jobs
    BY <1>6, BusyTyped DEF SaveOutcome, IInv, Executing
  <2>2. /\ jobs[k].status = "RUNNING" /\ executions[k] = worker[w].retries + 1
        /\ worker[w].pc = "succeed" => Published(k)
        /\ worker[w].pc = "fail" => ~Published(k)
    BY <2>1 DEF IInv, ExecutorInv, OwnerInv, NotCancelled
  <2>3. executions[k] > 0
    <3>1. worker[w].retries \in Nat
      BY <2>1, BusyTyped DEF IInv, BusyThread
    <3> QED
      BY <2>2, <3>1
  <2>4. /\ jobs'[k].status = IF worker[w].pc = "succeed" THEN "SUCCEEDED" ELSE "FAILED"
        /\ \A j \in Jobs : j # k => jobs'[j] = jobs[j]
    BY <1>6, <2>1 DEF SaveOutcome, JobToSave, Job, IInv, TypeOK
  <2>5. \A j \in Jobs : Published(j)' = Published(j)
    BY <2>1
  <2> HIDE DEF Published
  <2> QED
    BY <1>1, <2>1, <2>2, <2>3, <2>4, <2>5, ShownStep
<1> QED
  BY <1>2, <1>3, <1>4, <1>5, <1>6 DEF Run

LEMMA StepShows ==
  ASSUME Cancellers = {}, IInv, NotCancelled, IInv', [Next]_vars
  PROVE  [Lifecycle!Next]_(Lifecycle!vars)
<1>1. ASSUME UNCHANGED executions,
             \A j \in Jobs : jobs'[j].status = jobs[j].status /\ Published(j)' = Published(j)
      PROVE  UNCHANGED Lifecycle!vars
  BY <1>1 DEF Lifecycle!vars
<1>2. CASE UNCHANGED <<jobs, results, cases, executions>>
  BY <1>1, <1>2 DEF Published
<1>3. ASSUME NEW j \in Jobs, NEW r \in Requests, Submit(j, r)
      PROVE  [Lifecycle!Next]_(Lifecycle!vars)
  <2>1. UNCHANGED <<results, cases, executions>>
    BY <1>3 DEF Submit
  <2>2. CASE jobs[j].status = "ABSENT"
    <3>1. /\ jobs'[j].status = "QUEUED"
          /\ \A k \in Jobs : k # j => jobs'[k] = jobs[k]
      BY <1>3, <2>2 DEF Submit, QueuedJob, Job, IInv, TypeOK
    <3>2. \A k \in Jobs : Published(k)' = Published(k)
      BY <2>1 DEF Published
    <3> QED
      BY <2>1, <2>2, <3>1, <3>2, ShownStep DEF IInv, TypeOK
  <2>3. CASE jobs[j].status # "ABSENT"
    BY <1>2, <1>3, <2>1, <2>3 DEF Submit
  <2> QED
    BY <2>2, <2>3
<1>4. ASSUME NEW w \in Workers, Run(w) PROVE [Lifecycle!Next]_(Lifecycle!vars)
  BY <1>1, <1>4, RunShows
<1>5. ASSUME NEW w \in Workers, NEW j \in Jobs, StartTask(w, j)
      PROVE  UNCHANGED <<jobs, results, cases, executions>>
  BY <1>5 DEF StartTask, repo
<1>6. CASE SaveRequest \/ Schedule \/ UNCHANGED vars
  BY <1>2, <1>6 DEF SaveRequest, Schedule, vars, repo
<1> QED
  BY <1>2, <1>3, <1>4, <1>5, <1>6 DEF Next

(* When nobody cancels, what a client sees of the jobs is a behaviour of   *)
(* JobLifecycle: queued once, started once, attempted a bounded number of  *)
(* times, published at most once, settled once and truthfully.  (That each *)
(* queued job does settle is JobLifecycle's fairness, which TLC checks.)   *)
THEOREM LifecycleSteps ==
  ASSUME Cancellers = {}
  PROVE  Spec => Lifecycle!Init /\ [][Lifecycle!Next]_(Lifecycle!vars)
<1>1. Init => IInv /\ NotCancelled
  BY InitIInv DEF Init, NotCancelled, AbsentJob, Job
<1>2. IInv /\ NotCancelled /\ [Next]_vars => (IInv /\ NotCancelled)'
  BY NextIInv, NotCancelledStep DEF IInv
<1>3. Init => Lifecycle!Init
  <2> SUFFICES ASSUME Init PROVE Lifecycle!Init
    OBVIOUS
  <2>1. \A j \in Jobs : jobs[j].status = "ABSENT" /\ Published(j) = FALSE
    BY DEF Init, AbsentJob, Job, Published
  <2> QED
    BY <2>1 DEF Lifecycle!Init, Init
<1>4. IInv /\ NotCancelled /\ IInv' /\ [Next]_vars => [Lifecycle!Next]_(Lifecycle!vars)
  BY StepShows
<1> QED
  BY <1>1, <1>2, <1>3, <1>4, PTL DEF Spec
=============================================================================
