---------------------------- MODULE JobLifecycle ----------------------------
(***************************************************************************)
(* What a processing job promises its caller, with no threads, repository  *)
(* or request bookkeeping: one job per idempotency key is queued once,     *)
(* started once, attempted a bounded number of times, and settles once,    *)
(* as SUCCEEDED exactly when its result has been published.  JobRunner     *)
(* implements this specification when nobody cancels.                      *)
(***************************************************************************)
EXTENDS Naturals

CONSTANTS Jobs, MaxAttempts

VARIABLES status, published, attempts

vars == <<status, published, attempts>>

Statuses == {"ABSENT", "QUEUED", "RUNNING", "SUCCEEDED", "FAILED"}

TypeOK ==
  /\ status \in [Jobs -> Statuses]
  /\ published \in [Jobs -> BOOLEAN]
  /\ attempts \in [Jobs -> 0..MaxAttempts]

Init ==
  /\ status = [j \in Jobs |-> "ABSENT"]
  /\ published = [j \in Jobs |-> FALSE]
  /\ attempts = [j \in Jobs |-> 0]

Move(j, from, to) ==
  /\ status[j] = from
  /\ status' = [status EXCEPT ![j] = to]

Submit(j) == Move(j, "ABSENT", "QUEUED") /\ UNCHANGED <<published, attempts>>

Start(j) == Move(j, "QUEUED", "RUNNING") /\ UNCHANGED <<published, attempts>>

\* One execution of the handler; only an unpublished job is attempted again.
Attempt(j) ==
  /\ status[j] = "RUNNING"
  /\ ~published[j]
  /\ attempts[j] < MaxAttempts
  /\ attempts' = [attempts EXCEPT ![j] = @ + 1]
  /\ UNCHANGED <<status, published>>

Publish(j) ==
  /\ status[j] = "RUNNING"
  /\ ~published[j]
  /\ attempts[j] > 0
  /\ published' = [published EXCEPT ![j] = TRUE]
  /\ UNCHANGED <<status, attempts>>

Succeed(j) ==
  /\ published[j]
  /\ Move(j, "RUNNING", "SUCCEEDED")
  /\ UNCHANGED <<published, attempts>>

Fail(j) ==
  /\ ~published[j]
  /\ attempts[j] > 0
  /\ Move(j, "RUNNING", "FAILED")
  /\ UNCHANGED <<published, attempts>>

Process(j) == Start(j) \/ Attempt(j) \/ Publish(j) \/ Succeed(j) \/ Fail(j)

Next == \E j \in Jobs : Submit(j) \/ Process(j)

\* A queued job is always worked on; nobody is obliged to submit one.
Spec == Init /\ [][Next]_vars /\ \A j \in Jobs : WF_vars(Process(j))
=============================================================================
