------------------------- MODULE CaseWorkflowProofs -------------------------
(***************************************************************************)
(* Proofs about CaseWorkflow, for any sets of inspectors, supervisors,     *)
(* administrators and evidence, any clock and any length of the trail.     *)
(***************************************************************************)
EXTENDS CaseWorkflow, CaseRulesProofs

\* The conjunct that makes ConfirmedAfterReview inductive: a case under
\* review was put there with an inspector and has not left since.
ReviewInv ==
  /\ case.status = "UNDER_REVIEW" => ReviewedBefore(case, Len(case.trail) + 1)
  /\ ConfirmedAfterReview

\* The one that CaseDecision needs: a decided case was decided once.
DecisionInv ==
  /\ Undecided(case) => Decisions(case) = {}
  /\ ~Undecided(case) => \E k \in Positions : Decisions(case) = {k}

IInv == TypeOK /\ Sound(case) /\ ReviewInv /\ DecisionInv

\* What an operation may do to status and records, with its audit event e.
Moves(c, d, e) ==
  /\ d.trail = Append(c.trail, e) /\ e.from = c.status /\ e.to = d.status
  /\ \/ d.history = c.history
     \/ \E h \in Assignments : d.history = Append(c.history, h)
  /\ \/ /\ d.status = c.status
        /\ c.status = "UNDER_REVIEW" => e.action \in Remarks \cup {"REASSIGNED"}
     \/ /\ e.action = "STATE_TRANSITION"
        /\ <<c.status, d.status>> \in Allowed /\ d.inspector = c.inspector
     \/ /\ c.status \in {"TRIAGED", "REINSPECTION_REQUIRED", "EVIDENCE_INSUFFICIENT"}
        /\ d.status = "ASSIGNED"
     \/ c.status \in {"ASSIGNED", "UNDER_REVIEW"} /\ d.status = "TRIAGED"

-----------------------------------------------------------------------------
(* Every step but the clock's is an operation that keeps type and records. *)

LEMMA InitSound == Init => TypeOK /\ Sound(case)
  BY CreatedSound, WorkflowAssumption DEF Init, TypeOK

\* What _record_action builds is a move if its caller's updates are one.
LEMMA RecordMoves ==
  ASSUME NEW c, NEW action, NEW a, NEW to, NEW i, NEW assets, NEW history, NEW call, NEW t,
         \/ history = c.history
         \/ \E h \in Assignments : history = Append(c.history, h),
         \/ /\ to = c.status
            /\ c.status = "UNDER_REVIEW" => action \in Remarks \cup {"REASSIGNED"}
         \/ /\ action = "STATE_TRANSITION"
            /\ <<c.status, to>> \in Allowed /\ i = c.inspector
         \/ /\ c.status \in {"TRIAGED", "REINSPECTION_REQUIRED", "EVIDENCE_INSUFFICIENT"}
            /\ to = "ASSIGNED"
         \/ c.status \in {"ASSIGNED", "UNDER_REVIEW"} /\ to = "TRIAGED"
  PROVE  Moves(c, Record(c, action, a, to, i, assets, history, call, t),
               Event(action, a, c.status, to, call))
<1> DEFINE d == Record(c, action, a, to, i, assets, history, call, t)
           e == Event(action, a, c.status, to, call)
<1>1. /\ d.status = to /\ d.inspector = i /\ d.history = history /\ d.trail = Append(c.trail, e)
  BY RecordFields
<1>2. e.action = action /\ e.from = c.status /\ e.to = to
  BY DEF Event
<1> HIDE DEF d, e
<1>3. Moves(c, d, e)
  BY <1>1, <1>2 DEF Moves
<1> QED
  BY <1>3 DEF d, e

LEMMA StepMoves ==
  ASSUME TypeOK, Sound(case), Next
  PROVE  \/ UNCHANGED case /\ now' \in Times
         \/ /\ case' \in Snapshots({NoOne}, Times) /\ Sound(case') /\ UNCHANGED now
            /\ \E e \in EventsOf({NoOne}) : Moves(case, case', e)
<1> DEFINE ids == {NoOne}
           Goal(d) == /\ d \in Snapshots(ids, Times) /\ Sound(d)
                      /\ \E e \in EventsOf(ids) : Moves(case, d, e)
<1>1. /\ case \in Snapshots(ids, Times) /\ now \in Times /\ NoOne \in ids
      /\ case.status \in Statuses /\ case.inspector \in Inspectors \cup {NoOne}
      /\ case.trail \in Seq(EventsOf(ids)) /\ Times \in SUBSET Nat
  BY WorkflowAssumption DEF TypeOK, Snapshots
<1> HIDE DEF ids
\* The event of a step is the last one of the new trail.
<1>2. ASSUME NEW d \in Snapshots(ids, Times), NEW e, d.trail = Append(case.trail, e)
      PROVE  e \in EventsOf(ids)
  <2>1. d.trail \in Seq(EventsOf(ids)) /\ Len(case.trail) \in Nat
    BY <1>1, <1>2, LenProperties DEF Snapshots
  <2>2. Len(d.trail) = Len(case.trail) + 1 /\ d.trail[Len(case.trail) + 1] = e
    BY <1>1, <1>2
  <2> QED
    BY <2>1, <2>2, ElementOfSeq
<1>3. ASSUME NEW target \in Statuses, NEW a \in Actors, Transition(target, a)
      PROVE  Goal(case')
  <2>1. case' = Transitioned(case, target, a, NoOne, now) /\ MayTransition(case, target, a, now)
    BY <1>3 DEF Transition
  <2>2. case' \in Snapshots(ids, Times) /\ Sound(case')
    BY <1>1, <2>1, TransitionedSound
  <2>3. Moves(case, case', Event("STATE_TRANSITION", a, case.status, target, NoOne))
    BY <2>1, RecordMoves DEF Transitioned, MayTransition
  <2> QED
    BY <1>2, <2>2, <2>3 DEF Moves
<1>4. ASSUME NEW i, NEW a, Assign(i, a) PROVE Goal(case')
  <2>1. case' = Assigned(case, i, a, NoOne, now) /\ MayAssign(case, i, a, now)
    BY <1>4 DEF Assign
  <2>2. case' \in Snapshots(ids, Times) /\ Sound(case')
    BY <1>1, <2>1, AssignedSound
  <2>3. Moves(case, case', Event("ASSIGNED", a, case.status, "ASSIGNED", NoOne))
    <3>1. Assignment(NoOne, i) \in Assignments
      BY <1>1, <2>1, RolesAssumption DEF Assignment, Assignments, MayAssign
    <3> QED
      BY <2>1, <3>1, RecordMoves DEF Assigned, MayAssign
  <2> QED
    BY <1>2, <2>2, <2>3 DEF Moves
<1>5. ASSUME NEW i, NEW a, Reassign(i, a) PROVE Goal(case')
  <2>1. case' = Reassigned(case, i, a, NoOne, now) /\ MayReassign(case, i, a, now)
    BY <1>5 DEF Reassign
  <2>2. case' \in Snapshots(ids, Times) /\ Sound(case')
    BY <1>1, <2>1, ReassignedSound
  <2>3. Moves(case, case', Event("REASSIGNED", a, case.status, case.status, NoOne))
    <3>1. Assignment(case.inspector, i) \in Assignments
      BY <1>1, <2>1, RolesAssumption DEF Assignment, Assignments, MayReassign
    <3> QED
      BY <2>1, <3>1, RecordMoves DEF Reassigned
  <2> QED
    BY <1>2, <2>2, <2>3 DEF Moves
<1>6. ASSUME NEW a, Unassign(a) PROVE Goal(case')
  <2> DEFINE to == IF case.status \in {"ASSIGNED", "UNDER_REVIEW"} THEN "TRIAGED"
                                                                 ELSE case.status
  <2>1. case' = Unassigned(case, a, NoOne, now) /\ MayUnassign(case, a, now)
    BY <1>6 DEF Unassign
  <2>2. case' \in Snapshots(ids, Times) /\ Sound(case')
    BY <1>1, <2>1, UnassignedSound
  <2>3. Moves(case, case', Event("UNASSIGNED", a, case.status, to, NoOne))
    <3>1. Assignment(case.inspector, NoOne) \in Assignments
      BY <1>1, <2>1, RolesAssumption DEF Assignment, Assignments
    <3> QED
      BY <2>1, <3>1, RecordMoves DEF Unassigned
  <2> QED
    BY <1>2, <2>2, <2>3 DEF Moves
<1>7. ASSUME NEW a \in Actors, AddNote(a) PROVE Goal(case')
  <2>1. case' = Noted(case, a, NoOne, now) /\ MayNote(case, a, now)
    BY <1>7 DEF AddNote
  <2>2. case' \in Snapshots(ids, Times) /\ Sound(case')
    BY <1>1, <2>1, NotedSound
  <2>3. Moves(case, case', Event("NOTE_ADDED", a, case.status, case.status, NoOne))
    BY <2>1, RecordMoves DEF Noted, Remarks
  <2> QED
    BY <1>2, <2>2, <2>3 DEF Moves
<1>8. ASSUME NEW contents, NEW a \in Actors, VerifyEvidence(contents, a) PROVE Goal(case')
  <2>1. case' = Verified(case, a, NoOne, now) /\ MayVerify(case, contents, a, now)
    BY <1>8 DEF VerifyEvidence
  <2>2. case' \in Snapshots(ids, Times) /\ Sound(case')
    BY <1>1, <2>1, VerifiedSound
  <2>3. Moves(case, case', Event("EVIDENCE_VERIFIED", a, case.status, case.status, NoOne))
    BY <2>1, RecordMoves DEF Verified, Remarks
  <2> QED
    BY <1>2, <2>2, <2>3 DEF Moves
<1>9. ASSUME NEW x \in Evidence, NEW a \in Actors, AttachEvidence(x, a) PROVE Goal(case')
  <2>1. /\ case' = Attached(case, x, a, NoOne, now)
        /\ EvidenceActor(case, a) /\ Timely(case, now) /\ x.of = CaseId
    BY <1>9 DEF AttachEvidence, MayAttach
  <2>2. case' \in Snapshots(ids, Times) /\ Sound(case')
    BY <1>1, <2>1, AttachedSound
  <2>3. Moves(case, case', Event("EVIDENCE_ATTACHED", a, case.status, case.status, NoOne))
    BY <2>1, RecordMoves DEF Attached, Remarks
  <2> QED
    BY <1>2, <2>2, <2>3 DEF Moves
<1>10. Tick => UNCHANGED case /\ now' \in Times
  BY DEF Tick
<1>11. (Next /\ ~Tick) => UNCHANGED now
  BY DEF Next, Transition, Assign, Reassign, Unassign, AddNote, VerifyEvidence, AttachEvidence
<1>12. Tick \/ Goal(case')
  BY <1>3, <1>4, <1>5, <1>6, <1>7, <1>8, <1>9 DEF Next
<1> QED
  BY <1>10, <1>11, <1>12 DEF ids

-----------------------------------------------------------------------------
(* Confirmations follow reviews.                                           *)

\* An operation changes nothing before its own event.
LEMMA PastKept ==
  ASSUME NEW ids, NEW times, NEW c \in Snapshots(ids, times), Sound(c),
         NEW d, NEW e \in EventsOf(ids), Moves(c, d, e)
  PROVE  /\ Len(c.trail) \in Nat /\ Len(c.trail) > 0
         /\ Len(d.trail) = Len(c.trail) + 1
         /\ \A n \in 1..Len(c.trail) : d.trail[n] = c.trail[n]
         /\ d.trail[Len(c.trail) + 1] = e
         /\ \A n \in 1..(Len(c.trail) + 1) : AssignedAt(d, n) = AssignedAt(c, n)
<1>1. c.trail \in Seq(EventsOf(ids)) /\ Len(c.trail) \in Nat
  BY LenProperties DEF Snapshots
<1>2. d.trail = Append(c.trail, e)
  BY DEF Moves
<1>3. AssignmentsBefore(c, Len(c.trail) + 1) = Len(c.history)
  BY DEF Sound, Explained
<1>4. \A n \in 1..(Len(c.trail) + 1) : AssignedAt(d, n) = AssignedAt(c, n)
  <2>1. \/ d.history = c.history
        \/ \E h \in Assignments : d.history = Append(c.history, h)
    BY DEF Moves
  <2> QED
    BY <1>2, <1>3, <2>1, AssignedKept
<1> QED
  BY <1>1, <1>2, <1>4, AppendProperties DEF Sound

LEMMA ReviewKept ==
  ASSUME NEW ids, NEW times, NEW c \in Snapshots(ids, times), Sound(c),
         NEW d, NEW e \in EventsOf(ids), Moves(c, d, e),
         NEW k \in 1..(Len(c.trail) + 1), ReviewedBefore(c, k)
  PROVE  ReviewedBefore(d, k)
<1> DEFINE Since(s, r) ==
             /\ s.trail[r].action = "STATE_TRANSITION" /\ s.trail[r].to = "UNDER_REVIEW"
             /\ \A n \in r..k : AssignedAt(s, n) # NoOne
             /\ \A n \in (r + 1)..(k - 1) : s.trail[n].action \in Remarks \cup {"REASSIGNED"}
<1>1. PICK r \in 1..(k - 1) : Since(c, r)
  BY DEF ReviewedBefore
<1>2. /\ Len(c.trail) \in Nat
      /\ \A n \in 1..Len(c.trail) : d.trail[n] = c.trail[n]
      /\ \A n \in 1..(Len(c.trail) + 1) : AssignedAt(d, n) = AssignedAt(c, n)
  BY PastKept
<1>3. /\ r \in 1..Len(c.trail)
      /\ \A n \in r..k : n \in 1..(Len(c.trail) + 1)
      /\ \A n \in (r + 1)..(k - 1) : n \in 1..Len(c.trail)
  BY <1>2
<1>4. Since(d, r)
  BY <1>1, <1>2, <1>3
<1> QED
  BY <1>4 DEF ReviewedBefore

\* What a case under review has behind it after the operation: the old review
\* if it was under review before, the new one if the operation started it.
LEMMA ReviewExtended ==
  ASSUME NEW ids, NEW times, NEW c \in Snapshots(ids, times), Sound(c),
         NEW d \in Snapshots(ids, times), Sound(d), NEW e \in EventsOf(ids), Moves(c, d, e),
         c.status = "UNDER_REVIEW" => ReviewedBefore(c, Len(c.trail) + 1),
         d.status = "UNDER_REVIEW"
  PROVE  ReviewedBefore(d, Len(c.trail) + 2)
<1> DEFINE L == Len(c.trail)
           Since(s, r, k) ==
             /\ s.trail[r].action = "STATE_TRANSITION" /\ s.trail[r].to = "UNDER_REVIEW"
             /\ \A n \in r..k : AssignedAt(s, n) # NoOne
             /\ \A n \in (r + 1)..(k - 1) : s.trail[n].action \in Remarks \cup {"REASSIGNED"}
<1>1. /\ L \in Nat
      /\ Len(d.trail) = L + 1
      /\ \A n \in 1..L : d.trail[n] = c.trail[n]
      /\ d.trail[L + 1] = e
      /\ \A n \in 1..(L + 1) : AssignedAt(d, n) = AssignedAt(c, n)
  BY PastKept
<1>2. d.inspector # NoOne /\ AssignedAt(d, L + 2) # NoOne
  <2>1. L + 2 = Len(d.trail) + 1
    BY <1>1
  <2> QED
    BY <2>1 DEF Sound, Valid, Explained
<1>3. CASE c.status = "UNDER_REVIEW"
  <2>1. ReviewedBefore(d, L + 1)
    BY <1>1, <1>3, ReviewKept
  <2>2. PICK r \in 1..((L + 1) - 1) : Since(d, r, L + 1)
    BY <2>1 DEF ReviewedBefore
  <2>3. e.action \in Remarks \cup {"REASSIGNED"}
    BY <1>3, TargetsOfRules DEF Moves, Allowed
  <2>4. /\ \A n \in r..(L + 2) : n \in r..(L + 1) \/ n = L + 2
        /\ \A n \in (r + 1)..((L + 2) - 1) : n \in (r + 1)..((L + 1) - 1) \/ n = L + 1
        /\ r \in 1..((L + 2) - 1)
    BY <1>1
  <2>5. Since(d, r, L + 2)
    BY <1>1, <1>2, <2>2, <2>3, <2>4
  <2> QED
    BY <2>4, <2>5 DEF ReviewedBefore
<1>4. CASE c.status # "UNDER_REVIEW"
  <2>1. e.action = "STATE_TRANSITION" /\ e.to = "UNDER_REVIEW" /\ c.inspector = d.inspector
    BY <1>4 DEF Moves
  <2>2. AssignedAt(d, L + 1) # NoOne
    BY <1>1, <1>2, <2>1 DEF Sound, Explained
  <2>3. /\ \A n \in (L + 1)..(L + 2) : n = L + 1 \/ n = L + 2
        /\ ((L + 1) + 1)..((L + 2) - 1) = {}
        /\ L + 1 \in 1..((L + 2) - 1)
    BY <1>1
  <2>4. Since(d, L + 1, L + 2)
    BY <1>1, <1>2, <2>1, <2>2, <2>3
  <2> QED
    BY <2>3, <2>4 DEF ReviewedBefore
<1> QED
  BY <1>3, <1>4

LEMMA ReviewStep ==
  ASSUME TypeOK, Sound(case), ReviewInv, case' \in Snapshots({NoOne}, Times), Sound(case'),
         NEW e \in EventsOf({NoOne}), Moves(case, case', e)
  PROVE  ReviewInv'
<1> DEFINE L == Len(case.trail)
<1>1. case \in Snapshots({NoOne}, Times)
  BY DEF TypeOK
<1>2. /\ L \in Nat
      /\ Len(case'.trail) = L + 1
      /\ \A n \in 1..L : case'.trail[n] = case.trail[n]
      /\ case'.trail[L + 1] = e
  BY <1>1, PastKept
<1>3. case'.status = "UNDER_REVIEW" => ReviewedBefore(case', Len(case'.trail) + 1)
  <2>1. (L + 1) + 1 = L + 2
    BY <1>2
  <2> QED
    BY <1>1, <1>2, <2>1, ReviewExtended DEF ReviewInv
<1>4. ASSUME NEW k \in 1..(L + 1),
             case'.trail[k].to = "CONFIRMED", case'.trail[k].from # "CONFIRMED"
      PROVE  ReviewedBefore(case', k)
  <2>1. CASE k = L + 1
    <3>1. e.to = "CONFIRMED" /\ e.from # "CONFIRMED"
      BY <1>2, <1>4, <2>1
    <3>2. case.status = "UNDER_REVIEW"
      BY <3>1, TargetsOfRules DEF Moves
    <3> QED
      BY <1>1, <2>1, <3>2, ReviewKept DEF ReviewInv
  <2>2. CASE k # L + 1
    <3>1. k \in 1..L
      BY <1>2, <2>2
    <3>2. ReviewedBefore(case, k)
      BY <1>2, <1>4, <3>1 DEF ReviewInv, ConfirmedAfterReview, Positions
    <3> QED
      BY <1>1, <3>2, ReviewKept
  <2> QED
    BY <2>1, <2>2
<1> QED
  BY <1>2, <1>3, <1>4 DEF ReviewInv, ConfirmedAfterReview, Positions

-----------------------------------------------------------------------------
(* A case is decided once.                                                 *)

LEMMA DecisionsAppended ==
  ASSUME NEW ids, NEW times, NEW c \in Snapshots(ids, times), Sound(c),
         NEW d, NEW e \in EventsOf(ids), Moves(c, d, e)
  PROVE  /\ d.status \notin {"DISMISSED", "CONFIRMED"} \/ d.status = c.status =>
              Decisions(d) = Decisions(c)
         /\ d.status \in {"DISMISSED", "CONFIRMED"} /\ d.status # c.status =>
              Decisions(d) = Decisions(c) \cup {Len(c.trail) + 1}
<1> DEFINE L == Len(c.trail)
<1>1. /\ L \in Nat
      /\ Len(d.trail) = L + 1
      /\ \A n \in 1..L : d.trail[n] = c.trail[n]
      /\ d.trail[L + 1] = e
  BY PastKept
<1>2. 1..(L + 1) = 1..L \cup {L + 1}
  BY <1>1
<1>3. e.from = c.status /\ e.to = d.status
  BY DEF Moves
<1> QED
  BY <1>1, <1>2, <1>3 DEF Decisions

\* An operation decides an undecided case, closes or keeps a decided one.
LEMMA DecisionStep ==
  ASSUME NEW ids, NEW times, NEW c \in Snapshots(ids, times), Sound(c),
         NEW d, NEW e \in EventsOf(ids), Moves(c, d, e)
  PROVE  \/ /\ ~Undecided(c) /\ ~Undecided(d) /\ Decisions(d) = Decisions(c)
            /\ d.status = c.status \/ d.status = "CLOSED"
         \/ /\ Undecided(c) /\ Undecided(d) /\ Decisions(d) = Decisions(c)
            /\ d.status = "CREATED" => c.status = "CREATED"
         \/ /\ Undecided(c) /\ c.status # "CREATED"
            /\ d.status \in {"DISMISSED", "CONFIRMED"}
            /\ Decisions(d) = Decisions(c) \cup {Len(c.trail) + 1}
<1>1. e.from = c.status /\ e.to = d.status
  BY DEF Moves
<1>2. CASE d.status = c.status
  BY <1>1, <1>2, DecisionsAppended DEF Undecided
<1>3. CASE <<c.status, d.status>> \in Allowed
  <2>1. c.status # d.status
    BY <1>3 DEF Allowed
  <2>2. CASE d.status \in {"DISMISSED", "CONFIRMED"}
    <3>1. Undecided(c) /\ c.status # "CREATED"
      BY <1>3, <2>2 DEF Allowed, Undecided
    <3> QED
      BY <1>1, <2>1, <2>2, <3>1, DecisionsAppended
  <2>3. CASE d.status = "CLOSED"
    <3>1. ~Undecided(c) /\ ~Undecided(d)
      BY <1>3, <2>3 DEF Allowed, Undecided
    <3> QED
      BY <1>1, <2>3, <3>1, DecisionsAppended
  <2>4. CASE d.status \notin {"DISMISSED", "CONFIRMED", "CLOSED"}
    <3>1. Undecided(c) /\ Undecided(d) /\ d.status # "CREATED"
      BY <1>3, <2>4 DEF Allowed, Undecided
    <3> QED
      BY <1>1, <2>4, <3>1, DecisionsAppended
  <2> QED
    BY <2>2, <2>3, <2>4
<1>4. CASE /\ c.status \in {"TRIAGED", "REINSPECTION_REQUIRED", "EVIDENCE_INSUFFICIENT"}
           /\ d.status = "ASSIGNED"
  BY <1>1, <1>4, DecisionsAppended DEF Undecided
<1>5. CASE c.status \in {"ASSIGNED", "UNDER_REVIEW"} /\ d.status = "TRIAGED"
  BY <1>1, <1>5, DecisionsAppended DEF Undecided
<1> QED
  BY <1>2, <1>3, <1>4, <1>5 DEF Moves

LEMMA DecisionKept ==
  ASSUME TypeOK, Sound(case), DecisionInv,
         NEW e \in EventsOf({NoOne}), Moves(case, case', e)
  PROVE  DecisionInv'
<1>1. case \in Snapshots({NoOne}, Times)
  BY DEF TypeOK
<1>2. /\ Len(case.trail) \in Nat /\ Len(case'.trail) = Len(case.trail) + 1
      /\ Positions \subseteq Positions' /\ Len(case.trail) + 1 \in Positions'
  BY <1>1, PastKept DEF Positions
<1>3. \/ ~Undecided(case) /\ ~Undecided(case') /\ Decisions(case') = Decisions(case)
      \/ Undecided(case) /\ Undecided(case') /\ Decisions(case') = Decisions(case)
      \/ /\ Undecided(case) /\ ~Undecided(case')
         /\ Decisions(case') = Decisions(case) \cup {Len(case.trail) + 1}
  BY <1>1, DecisionStep DEF Undecided
<1> QED
  BY <1>2, <1>3 DEF DecisionInv

-----------------------------------------------------------------------------
(* The inductive invariant.                                                *)

LEMMA InitInv == Init => IInv
<1> SUFFICES ASSUME Init PROVE IInv
  OBVIOUS
<1>1. /\ case.status = "CREATED" /\ Len(case.trail) = 1
      /\ case.trail[1] = Event("CASE_CREATED", Processor, NoOne, "CREATED", NoOne)
  BY DEF Init, Created, Case
<1>2. case.trail[1].to = "CREATED"
  BY <1>1 DEF Event
<1>3. ReviewInv
  BY <1>1, <1>2 DEF ReviewInv, ConfirmedAfterReview, Positions
<1>4. DecisionInv
  BY <1>1, <1>2 DEF DecisionInv, Decisions, Undecided
<1> QED
  BY <1>3, <1>4, InitSound DEF IInv

LEMMA StepInv == IInv /\ [Next]_vars => IInv'
<1> SUFFICES ASSUME IInv, [Next]_vars PROVE IInv'
  OBVIOUS
<1>1. TypeOK /\ Sound(case) /\ ReviewInv /\ DecisionInv
  BY DEF IInv
<1>2. CASE UNCHANGED case /\ now' \in Times
  BY <1>1, <1>2 DEF IInv, TypeOK, ReviewInv, ConfirmedAfterReview, DecisionInv, Positions
<1>3. ASSUME case' \in Snapshots({NoOne}, Times), Sound(case'), UNCHANGED now,
             NEW e \in EventsOf({NoOne}), Moves(case, case', e)
      PROVE  IInv'
  <2>1. TypeOK' /\ ReviewInv' /\ DecisionInv'
    BY <1>1, <1>3, ReviewStep, DecisionKept DEF TypeOK
  <2> QED
    BY <1>3, <2>1 DEF IInv
<1>4. CASE UNCHANGED vars
  BY <1>1, <1>2, <1>4 DEF vars, TypeOK
<1>5. CASE Next
  BY <1>1, <1>2, <1>3, <1>5, StepMoves
<1> QED
  BY <1>4, <1>5

LEMMA Invariance == Spec => []IInv
  BY InitInv, StepInv, PTL DEF Spec

-----------------------------------------------------------------------------
(* What follows from it.                                                   *)

(* A case keeps its shape, its trail and history their types.              *)
THEOREM TypeCorrect == Spec => []TypeOK
  BY Invariance, PTL DEF IInv

(* InspectionCase's validators never refuse what the rules permit.         *)
THEOREM ValidatorsNeverFire == Spec => []SnapshotsAreValid
<1>1. IInv => SnapshotsAreValid
  BY DEF IInv, Sound, SnapshotsAreValid
<1> QED
  BY <1>1, Invariance, PTL

(* The audit trail and the assignment history, replayed, end in the        *)
(* current status and inspector (_record_action and its callers).          *)
THEOREM RecordsExplain == Spec => []RecordsExplainSnapshot
<1>1. IInv => RecordsExplainSnapshot
  BY DEF IInv, Sound, RecordsExplainSnapshot
<1> QED
  BY <1>1, Invariance, PTL

(* Every event of an inspector falls into a period of theirs               *)
(* (_require_case_actor).                                                  *)
THEOREM OwnCasesOnly == Spec => []InspectorsActOnOwnCase
<1>1. IInv => InspectorsActOnOwnCase
  BY DEF IInv, Sound, InspectorsActOnOwnCase
<1> QED
  BY <1>1, Invariance, PTL

(* Every confirmation was preceded by a review of an assigned inspector    *)
(* that nothing but reassignments and remarks separates from it.           *)
THEOREM ConfirmationsReviewed == Spec => []ConfirmedAfterReview
<1>1. IInv => ConfirmedAfterReview
  BY DEF IInv, ReviewInv
<1> QED
  BY <1>1, Invariance, PTL

(* As long as there is an active inspector and somebody to assign them, a  *)
(* screened and undecided case is one step from a review or an assignment. *)
THEOREM ReviewReachable ==
  ASSUME Active # {}, Supervisory # {}
  PROVE  Spec => []ReviewWithinReach
<1>1. IInv => ReviewWithinReach
  <2> SUFFICES ASSUME IInv, Timely(case, now), Undecided(case),
                      case.status \notin {"CREATED", "UNDER_REVIEW"}
               PROVE  \/ MayTransition(case, "UNDER_REVIEW", case.inspector, now)
                      \/ \E i \in Inspectors, a \in Actors : MayAssign(case, i, a, now)
    BY DEF ReviewWithinReach
  <2>1. /\ case.status \in Statuses /\ case.inspector \in Inspectors \cup {NoOne}
        /\ Valid(case)
    BY DEF IInv, TypeOK, Snapshots, Sound
  <2>2. PICK i \in Active : i \in Inspectors
    BY RolesAssumption
  <2>3. PICK a \in Supervisory : a \in Actors
    BY DEF Actors, Humans
  <2>4. CASE case.inspector = NoOne
    <3>1. case.status \in {"TRIAGED", "REINSPECTION_REQUIRED", "EVIDENCE_INSUFFICIENT"}
      BY <2>1, <2>4 DEF Statuses, Undecided, Valid
    <3>2. MayAssign(case, i, a, now)
      BY <2>4, <3>1 DEF MayAssign
    <3> QED
      BY <2>2, <2>3, <3>2
  <2>5. CASE case.inspector # NoOne
    <3>1. case.status \in {"ASSIGNED", "REINSPECTION_REQUIRED", "EVIDENCE_INSUFFICIENT"}
      BY <2>1, <2>5 DEF Statuses, Undecided, Valid
    <3>2. <<case.status, "UNDER_REVIEW">> \in Allowed
      BY <3>1 DEF Allowed
    <3> QED
      BY <2>1, <2>5, <3>2 DEF MayTransition, CaseActor
  <2> QED
    BY <2>4, <2>5
<1> QED
  BY <1>1, Invariance, PTL

(* A closed case changes by evidence checks only, and they only add their  *)
(* own event.                                                              *)
THEOREM ClosedFrozen == Spec => ClosedIsFrozen
<1>1. ASSUME IInv, [Next]_vars, case.status = "CLOSED"
      PROVE  /\ UNCHANGED <<case.status, case.inspector, case.assets, case.history>>
             /\ \A k \in (Len(case.trail) + 1)..Len(case'.trail) :
                  case'.trail[k].action = "EVIDENCE_VERIFIED"
  <2>1. case \in Snapshots({NoOne}, Times)
    BY <1>1 DEF IInv, TypeOK
  <2>2. case.trail \in Seq(EventsOf({NoOne})) /\ Len(case.trail) \in Nat
    BY <2>1, LenProperties DEF Snapshots
  <2>3. CASE UNCHANGED case
    <3>1. (Len(case.trail) + 1)..Len(case'.trail) = {}
      BY <2>2, <2>3
    <3> QED
      BY <2>2, <2>3, <3>1
  <2>4. ASSUME NEW contents, NEW a \in Actors, VerifyEvidence(contents, a)
        PROVE  /\ UNCHANGED <<case.status, case.inspector, case.assets, case.history>>
               /\ \A k \in (Len(case.trail) + 1)..Len(case'.trail) :
                    case'.trail[k].action = "EVIDENCE_VERIFIED"
    <3> DEFINE e == Event("EVIDENCE_VERIFIED", a, case.status, case.status, NoOne)
    <3>1. /\ UNCHANGED <<case.status, case.inspector, case.assets, case.history>>
          /\ case'.trail = Append(case.trail, e)
      BY <2>4, RecordFields DEF VerifyEvidence, Verified
    <3>2. e.action = "EVIDENCE_VERIFIED"
      BY DEF Event
    <3>3. /\ Len(case'.trail) = Len(case.trail) + 1
          /\ case'.trail[Len(case.trail) + 1] = e
      BY <2>2, <3>1
    <3> QED
      BY <2>2, <3>1, <3>2, <3>3
  <2>5. /\ \A target, a : ~Transition(target, a)
        /\ \A i, a : ~Assign(i, a) /\ ~Reassign(i, a)
        /\ \A a : ~Unassign(a) /\ ~AddNote(a)
        /\ \A x, a : ~AttachEvidence(x, a)
    BY <1>1, TargetsOfRules DEF Transition, MayTransition, Assign, MayAssign, Reassign,
       MayReassign, Unassign, MayUnassign, Undecided, AddNote, MayNote, AttachEvidence, MayAttach
  <2>6. CASE Next
    BY <2>3, <2>4, <2>5, <2>6 DEF Next, Tick
  <2> QED
    BY <1>1, <2>3, <2>6 DEF vars
<1>2. IInv /\ [Next]_vars =>
        [case.status = "CLOSED" =>
           /\ UNCHANGED <<case.status, case.inspector, case.assets, case.history>>
           /\ \A k \in (Len(case.trail) + 1)..Len(case'.trail) :
                case'.trail[k].action = "EVIDENCE_VERIFIED"]_vars
  BY <1>1
<1> QED
  BY <1>2, Invariance, PTL DEF Spec, ClosedIsFrozen

-----------------------------------------------------------------------------
(* The refinement of CaseDecision.                                         *)

\* The mapping that CaseWorkflow gives, of any snapshot.
StageOf(c) == IF c.status = "CREATED" THEN "created"
              ELSE IF c.status = "CLOSED" THEN "closed"
              ELSE IF Undecided(c) THEN "open" ELSE "decided"

LatestOf(c) == CHOOSE k \in Decisions(c) : \A n \in Decisions(c) : n <= k

DecisionOf(c) == IF Decisions(c) = {} THEN "none" ELSE c.trail[LatestOf(c)].to

\* A case that was decided once has that decision.
LEMMA OneDecision ==
  ASSUME NEW c, NEW k \in Nat, Decisions(c) = {k}
  PROVE  DecisionOf(c) = c.trail[k].to
<1>1. LatestOf(c) = k
  BY DEF LatestOf
<1> QED
  BY <1>1 DEF DecisionOf

\* Without a new decision the old one stands.
LEMMA DecisionStands ==
  ASSUME TypeOK, Sound(case), DecisionInv,
         NEW e \in EventsOf({NoOne}), Moves(case, case', e),
         Decisions(case') = Decisions(case)
  PROVE  DecisionOf(case') = DecisionOf(case)
<1>1. CASE Decisions(case) = {}
  BY <1>1 DEF DecisionOf
<1>2. CASE Decisions(case) # {}
  <2>1. PICK k \in Positions : Decisions(case) = {k}
    BY <1>2 DEF DecisionInv
  <2>2. case \in Snapshots({NoOne}, Times)
    BY DEF TypeOK
  <2>3. case'.trail[k] = case.trail[k] /\ k \in Nat
    BY <2>2, PastKept DEF Positions
  <2> QED
    BY <2>1, <2>3, OneDecision
<1> QED
  BY <1>1, <1>2

(* A case is screened, decided once and closed with that decision,         *)
(* whatever is noted, attached, verified, assigned and withdrawn meanwhile *)
(* (CaseDecision).                                                         *)
THEOREM DecisionRefined == Spec => ImplementsDecision
<1>1. Init => Lifecycle!Init
  <2> SUFFICES ASSUME Init PROVE StageOf(case) = "created" /\ DecisionOf(case) = "none"
    BY DEF Lifecycle!Init, StageOf, DecisionOf, LatestOf
  <2>1. case.status = "CREATED"
    BY DEF Init, Created, Case
  <2>2. Decisions(case) = {}
    BY <2>1, InitInv DEF IInv, DecisionInv, Undecided
  <2> QED
    BY <2>1, <2>2 DEF StageOf, DecisionOf
<1>2. IInv /\ [Next]_vars => [Lifecycle!Screen \/ Lifecycle!Decide \/ Lifecycle!Close]_(Lifecycle!vars)
  <2> SUFFICES ASSUME IInv, [Next]_vars
               PROVE  \/ StageOf(case) = "created" /\ StageOf(case') = "open"
                         /\ DecisionOf(case') = DecisionOf(case)
                      \/ StageOf(case) = "open" /\ StageOf(case') = "decided"
                         /\ DecisionOf(case') \in {"DISMISSED", "CONFIRMED"}
                      \/ StageOf(case) = "decided" /\ StageOf(case') = "closed"
                         /\ DecisionOf(case') = DecisionOf(case)
                      \/ StageOf(case') = StageOf(case) /\ DecisionOf(case') = DecisionOf(case)
    BY DEF Lifecycle!Screen, Lifecycle!Decide, Lifecycle!Close, Lifecycle!vars,
       StageOf, DecisionOf, LatestOf
  <2>1. TypeOK /\ Sound(case) /\ DecisionInv /\ case \in Snapshots({NoOne}, Times)
    BY DEF IInv, TypeOK
  <2>2. CASE UNCHANGED case
    BY <2>2
  <2>3. ASSUME NEW e \in EventsOf({NoOne}), Moves(case, case', e)
        PROVE  \/ StageOf(case) = "created" /\ StageOf(case') = "open"
                  /\ DecisionOf(case') = DecisionOf(case)
               \/ StageOf(case) = "open" /\ StageOf(case') = "decided"
                  /\ DecisionOf(case') \in {"DISMISSED", "CONFIRMED"}
               \/ StageOf(case) = "decided" /\ StageOf(case') = "closed"
                  /\ DecisionOf(case') = DecisionOf(case)
               \/ StageOf(case') = StageOf(case) /\ DecisionOf(case') = DecisionOf(case)
    <3>1. CASE /\ ~Undecided(case) /\ ~Undecided(case') /\ Decisions(case') = Decisions(case)
               /\ case'.status = case.status \/ case'.status = "CLOSED"
      <4>1. DecisionOf(case') = DecisionOf(case)
        BY <2>1, <2>3, <3>1, DecisionStands
      <4> QED
        BY <3>1, <4>1 DEF StageOf, Undecided
    <3>2. CASE /\ Undecided(case) /\ Undecided(case') /\ Decisions(case') = Decisions(case)
               /\ case'.status = "CREATED" => case.status = "CREATED"
      <4>1. DecisionOf(case') = DecisionOf(case)
        BY <2>1, <2>3, <3>2, DecisionStands
      <4> QED
        BY <3>2, <4>1 DEF StageOf, Undecided
    <3>3. CASE /\ Undecided(case) /\ case.status # "CREATED"
               /\ case'.status \in {"DISMISSED", "CONFIRMED"}
               /\ Decisions(case') = Decisions(case) \cup {Len(case.trail) + 1}
      <4>1. Decisions(case') = {Len(case.trail) + 1} /\ Len(case.trail) + 1 \in Nat
        BY <2>1, <2>3, <3>3, PastKept DEF DecisionInv
      <4>2. DecisionOf(case') = case'.status
        <5>1. DecisionOf(case') = case'.trail[Len(case.trail) + 1].to
          BY <4>1, OneDecision
        <5>2. case'.trail[Len(case.trail) + 1] = e /\ e.to = case'.status
          BY <2>1, <2>3, PastKept DEF Moves
        <5> QED
          BY <5>1, <5>2
      <4> QED
        BY <3>3, <4>2 DEF StageOf, Undecided
    <3> QED
      BY <2>1, <2>3, <3>1, <3>2, <3>3, DecisionStep
  <2>4. CASE Next
    BY <2>1, <2>2, <2>3, <2>4, StepMoves
  <2> QED
    BY <2>2, <2>4 DEF vars
<1> QED
  BY <1>1, <1>2, Invariance, PTL DEF Spec, ImplementsDecision, Lifecycle!Spec
=============================================================================
