------------------------------ MODULE CaseStore ------------------------------
(***************************************************************************)
(* One case as the service and PostgresIntegrationRepository keep it.  The *)
(* case routes run one at a time on the event loop; each takes the         *)
(* snapshot that memory holds, applies the rules, writes the new snapshot  *)
(* and its events in one transaction, and then replaces the snapshot in    *)
(* memory.  Event rows are immutable and unique per (case, sequence), so a *)
(* snapshot whose trail disagrees with the stored rows is refused whole.   *)
(*                                                                         *)
(* A transaction may fail without effect or commit and still raise; the    *)
(* process may stop at any point and load the rows again.                  *)
(***************************************************************************)
EXTENDS CaseRules, SequencesExt

CONSTANTS
  ProcessedEvidence,   \* the assets that processing attaches to a new case, in order
  Contents,     \* what reading the files of the evidence may give: the hash of
                \* each, and nothing of a file that cannot be read
  Times,        \* bound: the instants of a behaviour
  MaxCalls,     \* bound: case routes called
  MaxFaults,    \* bound: transactions that raise
  MaxCrashes    \* bound: stops of the process

ASSUME StoreAssumption ==
  /\ Times \subseteq Nat
  /\ MaxCalls \in Nat /\ NoOne \notin 1..MaxCalls
  /\ ProcessedEvidence \in Evidence \X Evidence
  /\ \A n \in 1..2 : ProcessedEvidence[n].of = CaseId

VARIABLES
  mem,       \* repository.cases[case_id]
  row,       \* the payload of its inspection_cases row
  events,    \* its rows of audit_events and evidence_events, by sequence
  call,      \* the case route in progress
  acked,     \* history: the trail of the last snapshot returned to a client
  read,      \* history: what each review read of the evidence
  now, calls, faults, crashes

vars == <<mem, row, events, call, acked, read, now, calls, faults, crashes>>
bounds == <<calls, faults, crashes>>

NoCall == [pc |-> "idle", actor |-> NoOne, target |-> "none", result |-> NoOne]
ReviewTargets == {"UNDER_REVIEW", "CONFIRMED", "DISMISSED", "EVIDENCE_INSUFFICIENT"}

\* _process_job: the case is published with its evidence, at the capture
\* time of the image if that lies ahead of the clock.
Published(t) ==
  Attached(Attached(Created(NoOne, t), ProcessedEvidence[1], Processor, NoOne, t),
           ProcessedEvidence[2], Processor, NoOne, t)

Init ==
  /\ now \in Times
  /\ \E t \in Times : t >= now /\ row = Published(t)
  /\ mem = row
  /\ events = row.trail
  /\ call = NoCall
  /\ acked = row.trail
  /\ read = [n \in 1..MaxCalls |-> NoOne]
  /\ calls = 0 /\ faults = 0 /\ crashes = 0

-----------------------------------------------------------------------------
(* update_case.                                                            *)

\* Fault: stored events are replaced.
NeverConflicts(c) == FALSE

\* _insert_immutable finds another event in one of the places.
Conflicts(c) ==
  \E k \in 1..Len(c.trail) : k <= Len(events) /\ events[k] # c.trail[k]

\* Fault: the snapshot is not written.
CommitsNothing(c) == UNCHANGED <<row, events>>

Commits(c) == row' = c /\ events' = c.trail

\* The transaction: it succeeds and the call goes on, or it raises.
Store(c, next) ==
  \/ /\ ~Conflicts(c) /\ Commits(c)
     /\ call' = next
     /\ UNCHANGED faults
  \/ /\ Conflicts(c)
     /\ call' = NoCall
     /\ UNCHANGED <<row, events, faults>>
  \/ /\ faults < MaxFaults
     /\ faults' = faults + 1
     /\ call' = NoCall
     /\ UNCHANGED <<row, events>> \/ (~Conflicts(c) /\ Commits(c))

-----------------------------------------------------------------------------
(* The routes.  A call that the rules refuse at once changes nothing.      *)

Begin ==
  /\ call.pc = "idle"
  /\ calls < MaxCalls
  /\ calls' = calls + 1
  /\ UNCHANGED <<mem, acked, now, crashes>>

Stored(c) == [NoCall EXCEPT !.pc = "stored", !.result = c]

\* assign_inspector: a new case is triaged in the same update.
AssignInspector(i, a) ==
  LET c == IF mem.status = "CREATED" THEN Transitioned(mem, "TRIAGED", a, calls', now)
                                     ELSE mem
      c2 == Assigned(c, i, a, calls', now) IN
  /\ Begin
  /\ mem.status = "CREATED" => MayTransition(mem, "TRIAGED", a, now)
  /\ MayAssign(c, i, a, now)
  /\ Store(c2, Stored(c2))
  /\ UNCHANGED read

\* request_case_reinspection
RequestReinspection(a) ==
  LET c == Transitioned(mem, "REINSPECTION_REQUIRED", a, calls', now) IN
  /\ Begin
  /\ MayTransition(mem, "REINSPECTION_REQUIRED", a, now)
  /\ Store(c, Stored(c))
  /\ UNCHANGED read

\* review_case: every file of the evidence is read, whatever it holds by now;
\* one that cannot be read, or is not what was attached, ends the call.  The
\* verification is an update of its own ...
Review(a, target, contents) ==
  LET c == Verified(mem, a, calls', now) IN
  /\ Begin
  /\ MayVerify(mem, contents, a, now)
  /\ read' = [read EXCEPT ![calls'] = contents]
  /\ Store(c, [pc |-> "verified", actor |-> a, target |-> target, result |-> c])

IndexVerified ==
  /\ call.pc = "verified"
  /\ mem' = call.result
  /\ call' = [call EXCEPT !.pc = "review", !.result = NoOne]
  /\ UNCHANGED <<row, events, acked, read, now, bounds>>

\* ... and the decision, which may still be refused, another one.
Decide ==
  LET c == Transitioned(mem, call.target, call.actor, calls, now)
      allowed == MayTransition(mem, call.target, call.actor, now) IN
  /\ call.pc = "review"
  /\ \/ allowed /\ Store(c, Stored(c))
     \/ ~allowed /\ call' = NoCall /\ UNCHANGED <<row, events, faults>>
  /\ UNCHANGED <<mem, acked, read, now, calls, crashes>>

\* The last write to memory, and the response.
Index ==
  /\ call.pc = "stored"
  /\ mem' = call.result
  /\ acked' = call.result.trail
  /\ call' = NoCall
  /\ UNCHANGED <<row, events, read, now, bounds>>

Tick == now' \in Times /\ UNCHANGED <<mem, row, events, call, acked, read, bounds>>

\* The process stops; the next one loads the row.
Restart ==
  /\ crashes < MaxCrashes
  /\ crashes' = crashes + 1
  /\ mem' = row
  /\ call' = NoCall
  /\ UNCHANGED <<row, events, acked, read, now, calls, faults>>

\* A request names any role, the processor's too.
Next ==
  \/ \E a \in Actors :
       \/ \E i \in Inspectors : AssignInspector(i, a)
       \/ RequestReinspection(a)
       \/ \E target \in ReviewTargets, contents \in Contents : Review(a, target, contents)
  \/ IndexVerified \/ Decide \/ Index
  \/ Tick
  \/ Restart

Spec == Init /\ [][Next]_vars

-----------------------------------------------------------------------------
(* Properties.                                                             *)

(***************************************************************************)
(* Memory may lag behind the rows, after a commit whose acknowledgement    *)
(* was lost, but never forks from them: the immutable event rows refuse    *)
(* every update made from a stale snapshot (_insert_immutable).            *)
(***************************************************************************)
MemoryNeverForks == events = row.trail /\ IsPrefix(mem.trail, row.trail)

(***************************************************************************)
(* What a client was told stays true: the history returned with the last   *)
(* successful call is part of the stored one, through every ambiguous      *)
(* commit and restart, and of the one the next call starts from.           *)
(***************************************************************************)
AcknowledgedKept == IsPrefix(acked, row.trail) /\ IsPrefix(acked, mem.trail)

(***************************************************************************)
(* No review decision without evidence: a decision taken over the review   *)
(* route directly follows a verification by the same call and the same     *)
(* person, with nothing in between, and that call read every asset of the  *)
(* stored case from its file and found in it what was attached, whatever   *)
(* has become of the file before or after (review_case,                    *)
(* verify_chain_of_custody).                                               *)
(***************************************************************************)
DecisionsVerified ==
  \A k \in 1..Len(row.trail) :
    LET e == row.trail[k] IN
    e.action = "STATE_TRANSITION" /\ e.to \in ReviewTargets =>
      /\ row.trail[k - 1].action = "EVIDENCE_VERIFIED"
      /\ row.trail[k - 1].call = e.call /\ row.trail[k - 1].actor = e.actor
      /\ ContentsHold(row.assets, read[e.call])

(***************************************************************************)
(* The stored history is append-only: no update rewrites or drops a stored *)
(* event, whatever memory believed.                                        *)
(***************************************************************************)
HistoryAppendOnly ==
  [][IsPrefix(events, events') /\ IsPrefix(row.trail, row'.trail)]_vars

(***************************************************************************)
(* A call that ends half-way, a review refused after its verification was  *)
(* stored or a crash between the two updates, leaves a row whose records   *)
(* still explain it and whose inspectors acted on their own case.          *)
(***************************************************************************)
RowsExplainThemselves == Explained(row) /\ OwnCaseOnly(row)
=============================================================================
