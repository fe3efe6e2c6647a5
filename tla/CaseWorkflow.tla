---------------------------- MODULE CaseWorkflow ----------------------------
(***************************************************************************)
(* The life of one inspection case under every operation of                *)
(* cases/service.py, called by any actor at any time.  The clock is the    *)
(* wall clock: between two calls it may stand still or be set back.        *)
(***************************************************************************)
EXTENDS CaseRules

CONSTANTS
  Contents,     \* what verify_case_evidence may be given: asset ids to hashes
  Times,        \* bound: the instants of a behaviour
  MaxEvents,    \* bound: audit events of the case
  MaxRemarks    \* bound: those that only add a note, evidence or a check

ASSUME WorkflowAssumption == Times \subseteq Nat

VARIABLES case, now

vars == <<case, now>>

Positions == 1..Len(case.trail)

TypeOK == case \in Snapshots({NoOne}, Times) /\ now \in Times

Init ==
  /\ now \in Times
  /\ case = Created(NoOne, now)

Room == Len(case.trail) < MaxEvents
RoomForRemark ==
  Room /\ Cardinality({k \in Positions : case.trail[k].action \in Remarks}) < MaxRemarks

-----------------------------------------------------------------------------
Tick == now' \in Times /\ UNCHANGED case

Transition(target, a) ==
  /\ Room /\ MayTransition(case, target, a, now)
  /\ case' = Transitioned(case, target, a, NoOne, now)
  /\ UNCHANGED now

Assign(i, a) ==
  /\ Room /\ MayAssign(case, i, a, now)
  /\ case' = Assigned(case, i, a, NoOne, now)
  /\ UNCHANGED now

Reassign(i, a) ==
  /\ Room /\ MayReassign(case, i, a, now)
  /\ case' = Reassigned(case, i, a, NoOne, now)
  /\ UNCHANGED now

Unassign(a) ==
  /\ Room /\ MayUnassign(case, a, now)
  /\ case' = Unassigned(case, a, NoOne, now)
  /\ UNCHANGED now

AddNote(a) ==
  /\ RoomForRemark /\ MayNote(case, a, now)
  /\ case' = Noted(case, a, NoOne, now)
  /\ UNCHANGED now

AttachEvidence(x, a) ==
  /\ RoomForRemark /\ MayAttach(case, x, a, now)
  /\ case' = Attached(case, x, a, NoOne, now)
  /\ UNCHANGED now

VerifyEvidence(contents, a) ==
  /\ RoomForRemark /\ MayVerify(case, contents, a, now)
  /\ case' = Verified(case, a, NoOne, now)
  /\ UNCHANGED now

Next ==
  \/ Tick
  \/ \E a \in Actors :
       \/ \E target \in Statuses : Transition(target, a)
       \/ \E i \in Inspectors : Assign(i, a) \/ Reassign(i, a)
       \/ Unassign(a)
       \/ AddNote(a)
       \/ \E x \in Evidence : AttachEvidence(x, a)
       \/ \E contents \in Contents : VerifyEvidence(contents, a)

Spec == Init /\ [][Next]_vars

-----------------------------------------------------------------------------
(* Properties.                                                             *)

(***************************************************************************)
(* The records explain the snapshot: each audit event starts from the      *)
(* status the previous one left, the last one leaves the current status,   *)
(* and the assignment history, replayed, hands the case from inspector to  *)
(* inspector down to the current one (_record_action and its callers).     *)
(***************************************************************************)
RecordsExplainSnapshot == Explained(case)

(***************************************************************************)
(* Whatever an inspector has done to a case, it was theirs at that moment: *)
(* every audit event of an inspector falls into a period in which the      *)
(* assignment history names them (_require_case_actor).                    *)
(***************************************************************************)
InspectorsActOnOwnCase == OwnCaseOnly(case)

(***************************************************************************)
(* No sequence of permitted operations builds a snapshot that the case     *)
(* model itself refuses, for its status and inspector, for evidence of     *)
(* another case, or for an update before its creation: InspectionCase's    *)
(* own validators never turn an authorised operation into an error.        *)
(***************************************************************************)
SnapshotsAreValid == Valid(case)

(***************************************************************************)
(* A confirmation is the outcome of a field review: when a case has been   *)
(* confirmed, the trail holds a review that an inspector was assigned to   *)
(* and that nothing but reassignments and remarks separates from the       *)
(* supervisor's decision.                                                  *)
(***************************************************************************)
ConfirmedAfterReview ==
  \A k \in Positions :
    case.trail[k].to = "CONFIRMED" /\ case.trail[k].from # "CONFIRMED" =>
      ReviewedBefore(case, k)

(***************************************************************************)
(* A field review stays within reach: in one step, a case that is screened *)
(* and undecided can be put under review by its inspector or given one,    *)
(* whatever assignments, withdrawals and requests for more evidence led    *)
(* here.                                                                   *)
(***************************************************************************)
ReviewWithinReach ==
  Timely(case, now) /\ Undecided(case) /\ case.status \notin {"CREATED", "UNDER_REVIEW"} =>
    \/ MayTransition(case, "UNDER_REVIEW", case.inspector, now)
    \/ \E i \in Inspectors, a \in Actors : MayAssign(case, i, a, now)

(***************************************************************************)
(* A closed case is frozen except for evidence checks: the status, the     *)
(* inspector, the evidence and the assignment history stay.                *)
(***************************************************************************)
ClosedIsFrozen ==
  [][case.status = "CLOSED" =>
       /\ UNCHANGED <<case.status, case.inspector, case.assets, case.history>>
       /\ \A k \in (Len(case.trail) + 1)..Len(case'.trail) :
            case'.trail[k].action = "EVIDENCE_VERIFIED"]_vars

(***************************************************************************)
(* A case is screened, decided once and closed with that decision.         *)
(***************************************************************************)
Lifecycle == INSTANCE CaseDecision WITH
  stage <- IF case.status = "CREATED" THEN "created"
           ELSE IF case.status = "CLOSED" THEN "closed"
           ELSE IF Undecided(case) THEN "open" ELSE "decided",
  decision <- IF Decisions(case) = {} THEN "none"
              ELSE case.trail[CHOOSE k \in Decisions(case) :
                                \A n \in Decisions(case) : n <= k].to

ImplementsDecision == Lifecycle!Spec
=============================================================================
