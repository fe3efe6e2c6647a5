------------------------------ MODULE CaseRules ------------------------------
(***************************************************************************)
(* The operations of cases/service.py on one inspection case, as guards    *)
(* (May...) and results: a case is an immutable snapshot, and an operation *)
(* that is allowed returns the next one.  An operation that is not allowed *)
(* raises and the snapshot stays.                                          *)
(*                                                                         *)
(* Every operation ends in _record_action: one audit event, one timeline   *)
(* event of the same order, the new status and updated_at.  The two hash   *)
(* chains are one sequence here (trail).  Reasons and notes are texts and  *)
(* are left out.                                                           *)
(***************************************************************************)
EXTENDS Naturals, Sequences, FiniteSets

CONSTANTS
  CaseId,          \* case_id of the case
  Inspectors,      \* actors of role INSPECTOR, named by their inspector_id
  Active,          \* inspectors whose record is active
  Supervisors,
  Administrators,
  Processor,       \* the SYSTEM_PROCESSOR actor
  NoOne,           \* no inspector, no source asset, no previous state
  Evidence         \* evidence assets that may be offered, see Asset

ASSUME RolesAssumption ==
  /\ Active \subseteq Inspectors
  /\ NoOne \notin Inspectors
  /\ Inspectors \cap (Supervisors \cup Administrators \cup {Processor}) = {}

Supervisory == Supervisors \cup Administrators
Humans == Inspectors \cup Supervisory
Actors == Humans \cup {Processor}

Statuses == {"CREATED", "TRIAGED", "ASSIGNED", "UNDER_REVIEW", "REINSPECTION_REQUIRED",
             "EVIDENCE_INSUFFICIENT", "DISMISSED", "CONFIRMED", "CLOSED"}

\* _ALLOWED_TRANSITIONS as pairs <<from, to>>.
Allowed ==
  ({"CREATED"} \X {"TRIAGED"}) \cup
  ({"TRIAGED"} \X {"EVIDENCE_INSUFFICIENT", "DISMISSED"}) \cup
  ({"ASSIGNED"} \X {"UNDER_REVIEW", "REINSPECTION_REQUIRED", "EVIDENCE_INSUFFICIENT",
                    "DISMISSED"}) \cup
  ({"UNDER_REVIEW"} \X {"REINSPECTION_REQUIRED", "EVIDENCE_INSUFFICIENT", "DISMISSED",
                        "CONFIRMED"}) \cup
  ({"REINSPECTION_REQUIRED"} \X {"UNDER_REVIEW", "EVIDENCE_INSUFFICIENT", "DISMISSED"}) \cup
  ({"EVIDENCE_INSUFFICIENT"} \X {"UNDER_REVIEW", "REINSPECTION_REQUIRED", "DISMISSED"}) \cup
  ({"DISMISSED", "CONFIRMED"} \X {"CLOSED"})

-----------------------------------------------------------------------------
(* Snapshots and what they are made of.                                    *)

Case(status, inspector, assets, history, trail, created, updated) ==
  [status |-> status, inspector |-> inspector, assets |-> assets, history |-> history,
   trail |-> trail, created |-> created, updated |-> updated]

\* An audit event; call is its correlation id.
Event(action, actor, from, to, call) ==
  [action |-> action, actor |-> actor, from |-> from, to |-> to, call |-> call]

\* An AssignmentEvent.
Assignment(previous, inspector) == [previous |-> previous, inspector |-> inspector]

\* An EvidenceAsset: of is its case_id, hash its own content hash, original
\* the declared one of its source, bytes the content it is offered with.
Asset(id, of, hash, source, original, bytes) ==
  [id |-> id, of |-> of, hash |-> hash, source |-> source, original |-> original,
   bytes |-> bytes]

-----------------------------------------------------------------------------
(* Guards shared by the operations.                                        *)

\* _validate_timestamp
Timely(c, now) == now >= c.updated

\* _require_case_actor
CaseActor(c, a) == a \in Supervisory \/ (a \in Inspectors /\ c.inspector = a)

\* What attach_new_evidence and verify_case_evidence ask: only inspectors
\* are held to their own cases, the processor may act on any.
EvidenceActor(c, a) == a \in Inspectors => c.inspector = a

\* verify_chain_of_custody without contents ...
CustodyHolds(assets) ==
  /\ \A x, y \in assets : x # y => x.id # y.id /\ x.hash # y.hash
  /\ \A x \in assets : x.source # NoOne =>
       \E y \in assets : y.id = x.source /\ y.hash = x.original

\* ... and what it asks of the contents, a function of asset ids to the hash
\* of what was read: none is missing, each is what was attached.
ContentsHold(assets, contents) ==
  \A x \in assets : x.id \in DOMAIN contents /\ contents[x.id] = x.hash

\* _record_action with the updates of its caller.
Record(c, action, a, to, inspector, assets, history, call, now) ==
  Case(to, inspector, assets, history, Append(c.trail, Event(action, a, c.status, to, call)),
       c.created, now)

-----------------------------------------------------------------------------
(* create_case_from_risk.  Supervisors may create a case too; the only     *)
(* caller in the code is the processor.                                    *)
Created(call, now) ==
  Case("CREATED", NoOne, {}, <<>>,
       <<Event("CASE_CREATED", Processor, NoOne, "CREATED", call)>>, now, now)

\* Fault: an inspector's own case is not required of a transition.
MayTransitionAnyone(c, target, a, now) ==
  /\ Timely(c, now)
  /\ <<c.status, target>> \in Allowed
  /\ target = "UNDER_REVIEW" => c.inspector # NoOne
  /\ target \in {"TRIAGED", "CONFIRMED"} => a \in Supervisory
  /\ target = "CLOSED" => a \in Administrators
  /\ a \in Humans

\* Fault: a review may start without an inspector.
MayTransitionUnassigned(c, target, a, now) ==
  /\ Timely(c, now)
  /\ <<c.status, target>> \in Allowed
  /\ target \in {"TRIAGED", "CONFIRMED"} => a \in Supervisory
  /\ target = "CLOSED" => a \in Administrators
  /\ CaseActor(c, a)

\* transition_case; no status has ASSIGNED among its targets.  The roles of
\* triage, confirmation and closing are all case actors.
MayTransition(c, target, a, now) ==
  /\ Timely(c, now)
  /\ <<c.status, target>> \in Allowed
  /\ target = "UNDER_REVIEW" => c.inspector # NoOne
  /\ target \in {"TRIAGED", "CONFIRMED"} => a \in Supervisory
  /\ target = "CLOSED" => a \in Administrators
  /\ CaseActor(c, a)

Transitioned(c, target, a, call, now) ==
  Record(c, "STATE_TRANSITION", a, target, c.inspector, c.assets, c.history, call, now)

\* Fault: a case is assigned whatever its status.
MayAssignAnytime(c, i, a, now) ==
  /\ Timely(c, now)
  /\ a \in Supervisory /\ i \in Active
  /\ c.inspector = NoOne

MayAssign(c, i, a, now) ==
  /\ Timely(c, now)
  /\ a \in Supervisory /\ i \in Active
  /\ c.inspector = NoOne
  /\ c.status \in {"TRIAGED", "REINSPECTION_REQUIRED", "EVIDENCE_INSUFFICIENT"}

\* Fault: the actor is entered in place of the inspector.
AssignedToActor(c, i, a, call, now) ==
  Record(c, "ASSIGNED", a, "ASSIGNED", a, c.assets,
         Append(c.history, Assignment(NoOne, a)), call, now)

Assigned(c, i, a, call, now) ==
  Record(c, "ASSIGNED", a, "ASSIGNED", i, c.assets,
         Append(c.history, Assignment(NoOne, i)), call, now)

Undecided(c) == c.status \notin {"DISMISSED", "CONFIRMED", "CLOSED"}

MayReassign(c, i, a, now) ==
  /\ Timely(c, now)
  /\ a \in Supervisory /\ i \in Active
  /\ c.inspector # NoOne
  /\ Undecided(c)

\* Fault: the reassignment is not entered in the history.
ReassignedUnrecorded(c, i, a, call, now) ==
  Record(c, "REASSIGNED", a, c.status, i, c.assets, c.history, call, now)

Reassigned(c, i, a, call, now) ==
  Record(c, "REASSIGNED", a, c.status, i, c.assets,
         Append(c.history, Assignment(c.inspector, i)), call, now)

MayUnassign(c, a, now) ==
  /\ Timely(c, now)
  /\ a \in Supervisory
  /\ c.inspector # NoOne
  /\ Undecided(c)

\* Fault: the status is kept whatever it is.
UnassignedInPlace(c, a, call, now) ==
  Record(c, "UNASSIGNED", a, c.status, NoOne, c.assets,
         Append(c.history, Assignment(c.inspector, NoOne)), call, now)

Unassigned(c, a, call, now) ==
  Record(c, "UNASSIGNED", a,
         IF c.status \in {"ASSIGNED", "UNDER_REVIEW"} THEN "TRIAGED" ELSE c.status,
         NoOne, c.assets, Append(c.history, Assignment(c.inspector, NoOne)), call, now)

\* Fault: a closed case takes notes.
MayNoteClosed(c, a, now) == Timely(c, now) /\ CaseActor(c, a)

MayNote(c, a, now) == Timely(c, now) /\ c.status # "CLOSED" /\ CaseActor(c, a)

Noted(c, a, call, now) ==
  Record(c, "NOTE_ADDED", a, c.status, c.inspector, c.assets, c.history, call, now)

\* attach_new_evidence.  The chain is checked with the new asset in it.
MayAttach(c, x, a, now) ==
  /\ Timely(c, now)
  /\ c.status # "CLOSED"
  /\ EvidenceActor(c, a)
  /\ x.of = CaseId
  /\ x.bytes = x.hash
  /\ \A y \in c.assets : y.id # x.id
  /\ CustodyHolds(c.assets \cup {x})

Attached(c, x, a, call, now) ==
  Record(c, "EVIDENCE_ATTACHED", a, c.status, c.inspector, c.assets \cup {x}, c.history,
         call, now)

\* Fault: the contents are not compared with the hashes of the assets.
MayVerifyUnread(c, contents, a, now) ==
  Timely(c, now) /\ EvidenceActor(c, a) /\ CustodyHolds(c.assets)

\* verify_case_evidence, of a case in any status.
MayVerify(c, contents, a, now) ==
  /\ Timely(c, now)
  /\ EvidenceActor(c, a)
  /\ CustodyHolds(c.assets) /\ ContentsHold(c.assets, contents)

Verified(c, a, call, now) ==
  Record(c, "EVIDENCE_VERIFIED", a, c.status, c.inspector, c.assets, c.history, call, now)

\* InspectionCase.validate_case: a snapshot that breaks it cannot be built.
Valid(c) ==
  /\ c.created <= c.updated
  /\ c.status \in {"ASSIGNED", "UNDER_REVIEW"} => c.inspector # NoOne
  /\ c.status \in {"CREATED", "TRIAGED"} => c.inspector = NoOne
  /\ \A x \in c.assets : x.of = CaseId

-----------------------------------------------------------------------------
(* What the records of a snapshot say of it.                               *)

StatusChanges == {"CASE_CREATED", "STATE_TRANSITION"}
AssignmentActions == {"ASSIGNED", "REASSIGNED", "UNASSIGNED"}
Remarks == {"NOTE_ADDED", "EVIDENCE_ATTACHED", "EVIDENCE_VERIFIED"}

Assignments == [previous : Inspectors \cup {NoOne}, inspector : Inspectors \cup {NoOne}]
EventsOf(ids) ==
  [action : StatusChanges \cup AssignmentActions \cup Remarks, actor : Actors,
   from : Statuses \cup {NoOne}, to : Statuses, call : ids]

\* The snapshots whose events carry correlation ids of ids.
Snapshots(ids, times) ==
  [status : Statuses, inspector : Inspectors \cup {NoOne}, assets : SUBSET Evidence,
   history : Seq(Assignments), trail : Seq(EventsOf(ids)), created : times, updated : times]

\* How many assignment events the trail holds before position k, and who
\* was assigned then.
AssignmentsBefore(c, k) ==
  Cardinality({n \in 1..Len(c.trail) : n < k /\ c.trail[n].action \in AssignmentActions})
AssignedAt(c, k) ==
  LET n == AssignmentsBefore(c, k) IN IF n = 0 THEN NoOne ELSE c.history[n].inspector

\* Each audit event starts from the status the previous one left, the last
\* one leaves the current status, and the assignment history, replayed,
\* hands the case from inspector to inspector down to the current one.
Explained(c) ==
  /\ c.trail[Len(c.trail)].to = c.status
  /\ \A k \in 2..Len(c.trail) : c.trail[k].from = c.trail[k - 1].to
  /\ AssignmentsBefore(c, Len(c.trail) + 1) = Len(c.history)
  /\ AssignedAt(c, Len(c.trail) + 1) = c.inspector
  /\ \A n \in 2..Len(c.history) : c.history[n].previous = c.history[n - 1].inspector

\* Every event of an inspector falls into a period in which the assignment
\* history names them.
OwnCaseOnly(c) ==
  \A k \in 1..Len(c.trail) :
    c.trail[k].actor \in Inspectors => AssignedAt(c, k) = c.trail[k].actor

\* Before position k the case was put under review with an inspector, and
\* nothing but reassignments and remarks has happened since.
ReviewedBefore(c, k) ==
  \E r \in 1..(k - 1) :
    /\ c.trail[r].action = "STATE_TRANSITION" /\ c.trail[r].to = "UNDER_REVIEW"
    /\ \A n \in r..k : AssignedAt(c, n) # NoOne
    /\ \A n \in (r + 1)..(k - 1) : c.trail[n].action \in Remarks \cup {"REASSIGNED"}

\* The positions at which the case was dismissed or confirmed.
Decisions(c) ==
  {k \in 1..Len(c.trail) : /\ c.trail[k].to \in {"DISMISSED", "CONFIRMED"}
                           /\ c.trail[k].from # c.trail[k].to}
=============================================================================
