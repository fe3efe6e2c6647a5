--------------------------- MODULE CaseRulesProofs ---------------------------
(***************************************************************************)
(* What every operation of CaseRules does to a snapshot, for any staff,    *)
(* evidence, correlation ids and instants: its type, its records and the   *)
(* validators of the case model.  CaseWorkflowProofs and CaseStoreProofs   *)
(* build on these lemmas.                                                  *)
(***************************************************************************)
EXTENDS CaseRules, FiniteSetTheorems, SequenceTheorems, TLAPS

\* What an authorised operation may rely on.
Sound(c) == Len(c.trail) > 0 /\ Explained(c) /\ OwnCaseOnly(c) /\ Valid(c)

Actions == StatusChanges \cup AssignmentActions \cup Remarks

-----------------------------------------------------------------------------
(* The trail and what is counted in it.                                    *)

\* The fields of a snapshot that _record_action builds.
LEMMA RecordFields ==
  ASSUME NEW c, NEW action, NEW a, NEW to, NEW i, NEW assets, NEW history, NEW call, NEW t
  PROVE  LET d == Record(c, action, a, to, i, assets, history, call, t) IN
         /\ d.status = to
         /\ d.inspector = i
         /\ d.created = c.created
         /\ d.updated = t
         /\ d.assets = assets
         /\ d.history = history
         /\ d.trail = Append(c.trail, Event(action, a, c.status, to, call))
  BY DEF Record, Case

\* Their types.
LEMMA RecordType ==
  ASSUME NEW ids, NEW times, NEW c \in Snapshots(ids, times),
         NEW action \in Actions, NEW a \in Actors, NEW to \in Statuses,
         NEW i \in Inspectors \cup {NoOne}, NEW assets \in SUBSET Evidence,
         NEW history \in Seq(Assignments), NEW call \in ids, NEW t \in times
  PROVE  /\ Event(action, a, c.status, to, call) \in EventsOf(ids)
         /\ Record(c, action, a, to, i, assets, history, call, t) \in Snapshots(ids, times)
<1>1. /\ c.status \in Statuses /\ c.created \in times
      /\ c.trail \in Seq(EventsOf(ids))
  BY DEF Snapshots
<1>2. Event(action, a, c.status, to, call) \in EventsOf(ids)
  BY <1>1 DEF Event, EventsOf, Actions
<1>3. Append(c.trail, Event(action, a, c.status, to, call)) \in Seq(EventsOf(ids))
  BY <1>1, <1>2, AppendProperties
<1> QED
  BY <1>1, <1>2, <1>3 DEF Record, Case, Snapshots

\* A count is a number, is at most the number of events before k, and does
\* not fall as k grows.
LEMMA CountType ==
  ASSUME NEW c, NEW E, c.trail \in Seq(E), NEW k \in Nat
  PROVE  /\ AssignmentsBefore(c, k) \in Nat
         /\ \A m \in Nat : m <= k => AssignmentsBefore(c, m) <= AssignmentsBefore(c, k)
<1> DEFINE P(m) == {n \in 1..Len(c.trail) : n < m /\ c.trail[n].action \in AssignmentActions}
<1>1. Len(c.trail) \in Nat
  BY LenProperties
<1>2. \A m : P(m) \in SUBSET (1..Len(c.trail))
  OBVIOUS
<1>3. IsFiniteSet(1..Len(c.trail))
  BY <1>1, FS_Interval
<1>4. IsFiniteSet(P(k)) /\ Cardinality(P(k)) \in Nat
  BY <1>2, <1>3, FS_Subset, FS_CardinalityType
<1>5. ASSUME NEW m \in Nat, m <= k PROVE Cardinality(P(m)) <= Cardinality(P(k))
  <2>1. \A n \in 1..Len(c.trail) : n < m => n < k
    BY <1>1, <1>5
  <2>2. P(m) \in SUBSET P(k)
    BY <2>1
  <2> QED
    BY <1>4, <2>2, FS_Subset
<1> QED
  BY <1>4, <1>5 DEF AssignmentsBefore

\* One more event leaves the counts before it alone, and is counted if it is
\* an assignment.
LEMMA CountAppended ==
  ASSUME NEW c, NEW d, NEW E, NEW e \in E, c.trail \in Seq(E), d.trail = Append(c.trail, e)
  PROVE  /\ \A k \in 1..(Len(c.trail) + 1) : AssignmentsBefore(d, k) = AssignmentsBefore(c, k)
         /\ AssignmentsBefore(d, Len(c.trail) + 2) =
              AssignmentsBefore(c, Len(c.trail) + 1)
                + (IF e.action \in AssignmentActions THEN 1 ELSE 0)
<1> DEFINE L == Len(c.trail)
           P(s, m) == {n \in 1..Len(s) : n < m /\ s[n].action \in AssignmentActions}
<1>1. /\ L \in Nat
      /\ Len(d.trail) = L + 1
      /\ \A n \in 1..L : d.trail[n] = c.trail[n]
      /\ d.trail[L + 1] = e
  BY AppendProperties, LenProperties
<1> HIDE DEF L
<1>2. ASSUME NEW k \in 1..(L + 1) PROVE P(d.trail, k) = P(c.trail, k)
  BY <1>1 DEF L
<1>3. P(d.trail, L + 2) =
        P(c.trail, L + 1) \cup (IF e.action \in AssignmentActions THEN {L + 1} ELSE {})
  <2>1. \A n \in 1..L : n < L + 1 /\ n < L + 2
    BY <1>1
  <2>2. 1..(L + 1) = 1..L \cup {L + 1}
    BY <1>1
  <2>3. L + 1 < L + 2 /\ L + 1 \notin 1..L
    BY <1>1
  <2> QED
    BY <1>1, <2>1, <2>2, <2>3 DEF L
<1>4. IsFiniteSet(P(c.trail, L + 1)) /\ Cardinality(P(c.trail, L + 1)) \in Nat
  <2>1. P(c.trail, L + 1) \in SUBSET (1..L)
    BY DEF L
  <2>2. IsFiniteSet(1..L)
    BY <1>1, FS_Interval
  <2> HIDE DEF P
  <2> QED
    BY <2>1, <2>2, FS_Subset, FS_CardinalityType
<1>5. L + 1 \notin P(c.trail, L + 1)
  BY <1>1 DEF L
<1>6. Cardinality(P(d.trail, L + 2)) =
        Cardinality(P(c.trail, L + 1)) + (IF e.action \in AssignmentActions THEN 1 ELSE 0)
  <2> HIDE DEF P
  <2>1. CASE e.action \in AssignmentActions
    BY <1>3, <1>4, <1>5, <2>1, FS_AddElement
  <2>2. CASE e.action \notin AssignmentActions
    <3>1. P(d.trail, L + 2) = P(c.trail, L + 1)
      BY <1>3, <2>2
    <3> QED
      BY <1>4, <2>2, <3>1
  <2> QED
    BY <2>1, <2>2
<1> QED
  BY <1>2, <1>6 DEF AssignmentsBefore, L

-----------------------------------------------------------------------------
(* The records of a snapshot after one more event.                         *)

\* Who was assigned before the new event is unchanged, whether the
\* assignment history grows or not.
LEMMA AssignedKept ==
  ASSUME NEW ids, NEW times, NEW c \in Snapshots(ids, times),
         NEW d, NEW e \in EventsOf(ids), d.trail = Append(c.trail, e),
         AssignmentsBefore(c, Len(c.trail) + 1) = Len(c.history),
         \/ d.history = c.history
         \/ \E h \in Assignments : d.history = Append(c.history, h)
  PROVE  \A k \in 1..(Len(c.trail) + 1) : AssignedAt(d, k) = AssignedAt(c, k)
<1>1. /\ c.trail \in Seq(EventsOf(ids)) /\ c.history \in Seq(Assignments)
      /\ Len(c.trail) \in Nat /\ Len(c.history) \in Nat
  BY LenProperties DEF Snapshots
<1> SUFFICES ASSUME NEW k \in 1..(Len(c.trail) + 1)
             PROVE  AssignedAt(d, k) = AssignedAt(c, k)
  OBVIOUS
<1>2. AssignmentsBefore(d, k) = AssignmentsBefore(c, k)
  BY <1>1, CountAppended
<1>3. /\ k \in Nat /\ Len(c.trail) + 1 \in Nat /\ k <= Len(c.trail) + 1
  BY <1>1
<1>4. AssignmentsBefore(c, k) \in 0..Len(c.history)
  <2>1. /\ AssignmentsBefore(c, k) \in Nat
        /\ AssignmentsBefore(c, k) <= AssignmentsBefore(c, Len(c.trail) + 1)
    BY <1>1, <1>3, CountType
  <2> QED
    BY <1>1, <2>1
<1>5. \A n \in 1..Len(c.history) : d.history[n] = c.history[n]
  BY <1>1, AppendProperties
<1> QED
  BY <1>1, <1>2, <1>4, <1>5 DEF AssignedAt

\* An event that is no assignment and keeps the inspector.
LEMMA RemarkExplained ==
  ASSUME NEW ids, NEW times, NEW c \in Snapshots(ids, times), Sound(c),
         NEW d, NEW e \in EventsOf(ids), d.trail = Append(c.trail, e),
         e.action \notin AssignmentActions, e.from = c.status, e.to = d.status,
         e.actor \in Inspectors => c.inspector = e.actor,
         d.inspector = c.inspector, d.history = c.history
  PROVE  Len(d.trail) > 0 /\ Explained(d) /\ OwnCaseOnly(d)
<1> DEFINE L == Len(c.trail)
<1>1. /\ c.trail \in Seq(EventsOf(ids)) /\ c.history \in Seq(Assignments)
      /\ L \in Nat /\ L > 0 /\ Len(c.history) \in Nat
  BY LenProperties DEF Snapshots, Sound
<1>2. /\ Len(d.trail) = L + 1
      /\ \A n \in 1..L : d.trail[n] = c.trail[n]
      /\ d.trail[L + 1] = e
  BY <1>1, AppendProperties
<1>3. /\ AssignmentsBefore(c, L + 1) = Len(c.history)
      /\ AssignedAt(c, L + 1) = c.inspector
  BY DEF Sound, Explained
<1>4. \A k \in 1..(L + 1) : AssignedAt(d, k) = AssignedAt(c, k)
  BY <1>3, AssignedKept
<1>5. AssignmentsBefore(d, L + 2) = Len(c.history)
  <2>1. AssignmentsBefore(d, L + 2) = AssignmentsBefore(c, L + 1) + 0
    BY <1>1, CountAppended
  <2> QED
    BY <1>1, <1>3, <2>1
<1>6. AssignedAt(d, L + 2) = d.inspector
  BY <1>3, <1>5 DEF AssignedAt
<1>7. Explained(d)
  <2>1. \A k \in 2..Len(d.trail) : d.trail[k].from = d.trail[k - 1].to
    <3> SUFFICES ASSUME NEW k \in 2..(L + 1) PROVE d.trail[k].from = d.trail[k - 1].to
      BY <1>2
    <3>1. CASE k = L + 1
      <4>1. d.trail[k - 1] = c.trail[L]
        BY <1>1, <1>2, <3>1
      <4> QED
        BY <1>2, <3>1, <4>1 DEF Sound, Explained
    <3>2. CASE k # L + 1
      <4>1. k \in 2..L /\ k \in 1..L /\ k - 1 \in 1..L
        BY <1>1, <3>2
      <4> QED
        BY <1>2, <4>1 DEF Sound, Explained
    <3> QED
      BY <3>1, <3>2
  <2>2. Len(d.trail) + 1 = L + 2
    BY <1>1, <1>2
  <2> QED
    BY <1>2, <1>5, <1>6, <2>1, <2>2 DEF Sound, Explained
<1>8. OwnCaseOnly(d)
  BY <1>1, <1>2, <1>3, <1>4 DEF Sound, OwnCaseOnly
<1> QED
  BY <1>1, <1>2, <1>7, <1>8

\* An assignment, entered in the history with the inspector before it.
LEMMA AssignmentExplained ==
  ASSUME NEW ids, NEW times, NEW c \in Snapshots(ids, times), Sound(c),
         NEW d, NEW e \in EventsOf(ids), d.trail = Append(c.trail, e),
         e.action \in AssignmentActions, e.from = c.status, e.to = d.status,
         e.actor \notin Inspectors, d.inspector \in Inspectors \cup {NoOne},
         d.history = Append(c.history, Assignment(c.inspector, d.inspector))
  PROVE  Len(d.trail) > 0 /\ Explained(d) /\ OwnCaseOnly(d)
<1> DEFINE L == Len(c.trail)
           H == Len(c.history)
           h == Assignment(c.inspector, d.inspector)
<1>1. /\ c.trail \in Seq(EventsOf(ids)) /\ c.history \in Seq(Assignments)
      /\ L \in Nat /\ L > 0 /\ H \in Nat /\ h \in Assignments
  BY LenProperties DEF Snapshots, Sound, Assignment, Assignments
<1>2. /\ Len(d.trail) = L + 1
      /\ \A n \in 1..L : d.trail[n] = c.trail[n]
      /\ d.trail[L + 1] = e
  BY <1>1, AppendProperties
<1>3. /\ Len(d.history) = H + 1
      /\ \A n \in 1..H : d.history[n] = c.history[n]
      /\ d.history[H + 1] = h
  BY <1>1, AppendProperties
<1>4. /\ AssignmentsBefore(c, L + 1) = H
      /\ AssignedAt(c, L + 1) = c.inspector
  BY DEF Sound, Explained
<1>5. \A k \in 1..(L + 1) : AssignedAt(d, k) = AssignedAt(c, k)
  <2>1. \E g \in Assignments : d.history = Append(c.history, g)
    BY <1>1
  <2> QED
    BY <1>4, <2>1, AssignedKept
<1>6. AssignmentsBefore(d, L + 2) = H + 1
  <2>1. AssignmentsBefore(d, L + 2) = AssignmentsBefore(c, L + 1) + 1
    BY <1>1, CountAppended
  <2> QED
    BY <1>4, <2>1
<1>7. AssignedAt(d, L + 2) = d.inspector
  <2>1. h.inspector = d.inspector
    BY DEF Assignment
  <2>2. H + 1 # 0
    BY <1>1
  <2> QED
    BY <1>3, <1>6, <2>1, <2>2 DEF AssignedAt
<1>8. Explained(d)
  <2>1. \A k \in 2..Len(d.trail) : d.trail[k].from = d.trail[k - 1].to
    <3> SUFFICES ASSUME NEW k \in 2..(L + 1) PROVE d.trail[k].from = d.trail[k - 1].to
      BY <1>2
    <3>1. CASE k = L + 1
      <4>1. d.trail[k - 1] = c.trail[L]
        BY <1>1, <1>2, <3>1
      <4> QED
        BY <1>2, <3>1, <4>1 DEF Sound, Explained
    <3>2. CASE k # L + 1
      <4>1. k \in 2..L /\ k \in 1..L /\ k - 1 \in 1..L
        BY <1>1, <3>2
      <4> QED
        BY <1>2, <4>1 DEF Sound, Explained
    <3> QED
      BY <3>1, <3>2
  <2>2. \A n \in 2..Len(d.history) : d.history[n].previous = d.history[n - 1].inspector
    <3> SUFFICES ASSUME NEW n \in 2..(H + 1)
                 PROVE  d.history[n].previous = d.history[n - 1].inspector
      BY <1>3
    <3>1. CASE n = H + 1
      <4>1. d.history[n - 1] = c.history[H] /\ H # 0
        BY <1>1, <1>3, <3>1
      <4>2. c.history[H].inspector = c.inspector
        BY <1>4, <4>1 DEF AssignedAt
      <4> QED
        BY <1>3, <3>1, <4>1, <4>2 DEF Assignment
    <3>2. CASE n # H + 1
      <4>1. n \in 2..H /\ n \in 1..H /\ n - 1 \in 1..H
        BY <1>1, <3>2
      <4> QED
        BY <1>3, <4>1 DEF Sound, Explained
    <3> QED
      BY <3>1, <3>2
  <2>3. Len(d.trail) + 1 = L + 2
    BY <1>1, <1>2
  <2> QED
    BY <1>2, <1>3, <1>6, <1>7, <2>1, <2>2, <2>3 DEF Explained
<1>9. OwnCaseOnly(d)
  BY <1>1, <1>2, <1>5 DEF Sound, OwnCaseOnly
<1> QED
  BY <1>1, <1>2, <1>8, <1>9

-----------------------------------------------------------------------------
(* The operations: each permitted one returns a snapshot of the right type *)
(* with sound records.                                                     *)

\* No rule enters ASSIGNED, and TRIAGED is entered from CREATED only.
LEMMA TargetsOfRules ==
  ASSUME NEW s, NEW target, <<s, target>> \in Allowed
  PROVE  /\ target # "ASSIGNED" /\ target # "CREATED"
         /\ target = "TRIAGED" => s = "CREATED"
         /\ target = "CONFIRMED" => s = "UNDER_REVIEW"
         /\ s # "CLOSED"
  BY DEF Allowed

\* An inspector who passes either check of the actor has the case.
LEMMA ActorsOwn ==
  ASSUME NEW c, NEW a, CaseActor(c, a) \/ EvidenceActor(c, a), a \in Inspectors
  PROVE  c.inspector = a
  BY RolesAssumption DEF CaseActor, EvidenceActor, Supervisory

\* A timely operation comes after the case was created.
LEMMA CreatedEarlier ==
  ASSUME NEW ids, NEW times \in SUBSET Nat, NEW c \in Snapshots(ids, times), Valid(c),
         NEW t \in times, Timely(c, t)
  PROVE  c.created <= t
<1>1. c.created \in Nat /\ c.updated \in Nat /\ t \in Nat
  BY DEF Snapshots
<1>2. c.created <= c.updated /\ c.updated <= t
  BY <1>1 DEF Valid, Timely
<1> QED
  BY <1>1, <1>2

\* create_case_from_risk
LEMMA CreatedSound ==
  ASSUME NEW ids, NEW times \in SUBSET Nat, NEW call \in ids, NEW t \in times
  PROVE  /\ Created(call, t) \in Snapshots(ids, times)
         /\ Sound(Created(call, t))
<1> DEFINE c == Created(call, t)
           e == Event("CASE_CREATED", Processor, NoOne, "CREATED", call)
<1>1. /\ c.status = "CREATED" /\ c.inspector = NoOne /\ c.assets = {} /\ c.history = <<>>
      /\ c.trail = <<e>> /\ c.created = t /\ c.updated = t
      /\ c = [status |-> "CREATED", inspector |-> NoOne, assets |-> {}, history |-> <<>>,
               trail |-> <<e>>, created |-> t, updated |-> t]
  BY DEF Created, Case
<1>2. e \in EventsOf(ids)
  BY DEF Event, EventsOf, StatusChanges, Actors, Statuses
<1>3. <<>> \in Seq(Assignments) /\ <<e>> \in Seq(EventsOf(ids))
  BY <1>2
<1>4. c \in Snapshots(ids, times)
  BY <1>1, <1>3 DEF Snapshots, Statuses
<1>5. Len(c.trail) = 1 /\ c.trail[1] = e /\ Len(c.history) = 0
  BY <1>1
<1>6. AssignmentsBefore(c, 2) = 0
  <2>1. e.action \notin AssignmentActions
    BY DEF Event, AssignmentActions
  <2>2. {n \in 1..Len(c.trail) : n < 2 /\ c.trail[n].action \in AssignmentActions} = {}
    BY <1>5, <2>1
  <2> QED
    BY <2>2, FS_EmptySet DEF AssignmentsBefore
<1>7. Explained(c)
  <2>1. e.to = "CREATED"
    BY DEF Event
  <2> QED
    BY <1>1, <1>5, <1>6, <2>1 DEF Explained, AssignedAt
<1>8. OwnCaseOnly(c)
  <2>1. e.actor \notin Inspectors
    BY RolesAssumption DEF Event
  <2> QED
    BY <1>5, <2>1 DEF OwnCaseOnly
<1>9. Valid(c)
  BY <1>1 DEF Valid
<1> QED
  BY <1>4, <1>5, <1>7, <1>8, <1>9 DEF Sound

\* Any event but an assignment, by an actor who is held to their own case.
LEMMA EventSound ==
  ASSUME NEW ids, NEW times \in SUBSET Nat, NEW c \in Snapshots(ids, times), Sound(c),
         NEW action \in StatusChanges \cup Remarks,
         NEW a \in Actors, a \in Inspectors => c.inspector = a,
         NEW to \in Statuses, NEW assets \in SUBSET Evidence, NEW call \in ids, NEW t \in times,
         Timely(c, t), \A x \in assets : x.of = CaseId,
         to \in {"ASSIGNED", "UNDER_REVIEW"} => c.inspector # NoOne,
         to \in {"CREATED", "TRIAGED"} => c.inspector = NoOne
  PROVE  LET d == Record(c, action, a, to, c.inspector, assets, c.history, call, t) IN
         d \in Snapshots(ids, times) /\ Sound(d)
<1> DEFINE d == Record(c, action, a, to, c.inspector, assets, c.history, call, t)
           e == Event(action, a, c.status, to, call)
<1>1. /\ c.inspector \in Inspectors \cup {NoOne}
      /\ c.history \in Seq(Assignments) /\ action \in Actions
  BY DEF Snapshots, Actions
<1>2. d \in Snapshots(ids, times) /\ e \in EventsOf(ids)
  <2>1. ASSUME NEW i \in Inspectors \cup {NoOne}, NEW h \in Seq(Assignments)
        PROVE  /\ Record(c, action, a, to, i, assets, h, call, t) \in Snapshots(ids, times)
               /\ e \in EventsOf(ids)
    BY <1>1, RecordType
  <2> QED
    BY <1>1, <2>1
<1>3. /\ d.status = to /\ d.inspector = c.inspector /\ d.history = c.history
      /\ d.trail = Append(c.trail, e)
  BY RecordFields
<1>4. /\ e.action \notin AssignmentActions /\ e.from = c.status /\ e.to = to
      /\ e.actor = a
  BY DEF Event, AssignmentActions, Remarks, StatusChanges
<1> HIDE DEF d, e
<1>5. Len(d.trail) > 0 /\ Explained(d) /\ OwnCaseOnly(d)
  BY <1>2, <1>3, <1>4, RemarkExplained
<1>6. Valid(d)
  <2>1. d.created = c.created /\ d.updated = t /\ d.assets = assets
    BY RecordFields DEF d
  <2>2. c.created <= t
    BY CreatedEarlier DEF Sound
  <2> QED
    BY <1>3, <2>1, <2>2 DEF Valid
<1> QED
  BY <1>2, <1>5, <1>6 DEF Sound, d

LEMMA TransitionedSound ==
  ASSUME NEW ids, NEW times \in SUBSET Nat, NEW c \in Snapshots(ids, times), Sound(c),
         NEW target \in Statuses, NEW a \in Actors, NEW call \in ids, NEW t \in times,
         MayTransition(c, target, a, t)
  PROVE  /\ Transitioned(c, target, a, call, t) \in Snapshots(ids, times)
         /\ Sound(Transitioned(c, target, a, call, t))
<1>1. (a \in Inspectors => c.inspector = a) /\ "STATE_TRANSITION" \in StatusChanges
  BY ActorsOwn DEF MayTransition, StatusChanges
<1>2. c.assets \in SUBSET Evidence
  BY DEF Snapshots
<1>3. /\ target \in {"ASSIGNED", "UNDER_REVIEW"} => c.inspector # NoOne
      /\ target \in {"CREATED", "TRIAGED"} => c.inspector = NoOne
      /\ Timely(c, t) /\ \A x \in c.assets : x.of = CaseId
  BY TargetsOfRules DEF MayTransition, Valid, Sound
<1> QED
  BY <1>1, <1>2, <1>3, EventSound DEF Transitioned

LEMMA NotedSound ==
  ASSUME NEW ids, NEW times \in SUBSET Nat, NEW c \in Snapshots(ids, times), Sound(c),
         NEW a \in Actors, NEW call \in ids, NEW t \in times, MayNote(c, a, t)
  PROVE  Noted(c, a, call, t) \in Snapshots(ids, times) /\ Sound(Noted(c, a, call, t))
<1>1. (a \in Inspectors => c.inspector = a) /\ "NOTE_ADDED" \in Remarks /\ Timely(c, t)
  BY ActorsOwn DEF MayNote, Remarks
<1>2. c.assets \in SUBSET Evidence
  BY DEF Snapshots
<1>3. c.status \in Statuses /\ Valid(c)
  BY DEF Snapshots, Sound
<1> QED
  BY <1>1, <1>2, <1>3, EventSound DEF Valid, Noted

LEMMA VerifiedSound ==
  ASSUME NEW ids, NEW times \in SUBSET Nat, NEW c \in Snapshots(ids, times), Sound(c),
         NEW a \in Actors, NEW call \in ids, NEW t \in times,
         NEW contents, MayVerify(c, contents, a, t)
  PROVE  Verified(c, a, call, t) \in Snapshots(ids, times) /\ Sound(Verified(c, a, call, t))
<1>1. (a \in Inspectors => c.inspector = a) /\ "EVIDENCE_VERIFIED" \in Remarks /\ Timely(c, t)
  BY ActorsOwn DEF MayVerify, Remarks
<1>2. c.assets \in SUBSET Evidence
  BY DEF Snapshots
<1>3. c.status \in Statuses /\ Valid(c)
  BY DEF Snapshots, Sound
<1> QED
  BY <1>1, <1>2, <1>3, EventSound DEF Valid, Verified

\* Of the permission to attach the actor, the time and the case matter here.
LEMMA AttachedSound ==
  ASSUME NEW ids, NEW times \in SUBSET Nat, NEW c \in Snapshots(ids, times), Sound(c), NEW x \in Evidence,
         NEW a \in Actors, NEW call \in ids, NEW t \in times,
         EvidenceActor(c, a), Timely(c, t), x.of = CaseId
  PROVE  /\ Attached(c, x, a, call, t) \in Snapshots(ids, times)
         /\ Sound(Attached(c, x, a, call, t))
<1>1. (a \in Inspectors => c.inspector = a) /\ "EVIDENCE_ATTACHED" \in Remarks
  BY ActorsOwn DEF Remarks
<1>2. c.assets \cup {x} \in SUBSET Evidence
  BY DEF Snapshots
<1>3. c.status \in Statuses /\ Valid(c)
  BY DEF Snapshots, Sound
<1> QED
  BY <1>1, <1>2, <1>3, EventSound DEF Valid, Attached

\* An assignment of whatever kind, made by a supervisor or administrator.
LEMMA AssignmentSound ==
  ASSUME NEW ids, NEW times \in SUBSET Nat, NEW c \in Snapshots(ids, times), Sound(c),
         NEW action \in AssignmentActions, NEW a \in Supervisory, NEW to \in Statuses,
         NEW i \in Inspectors \cup {NoOne}, NEW call \in ids, NEW t \in times,
         Timely(c, t),
         to \in {"ASSIGNED", "UNDER_REVIEW"} => i # NoOne,
         to \in {"CREATED", "TRIAGED"} => i = NoOne
  PROVE  LET d == Record(c, action, a, to, i, c.assets,
                         Append(c.history, Assignment(c.inspector, i)), call, t) IN
         d \in Snapshots(ids, times) /\ Sound(d)
<1> DEFINE h == Append(c.history, Assignment(c.inspector, i))
           d == Record(c, action, a, to, i, c.assets, h, call, t)
           e == Event(action, a, c.status, to, call)
<1>1. /\ c.inspector \in Inspectors \cup {NoOne} /\ c.assets \in SUBSET Evidence
      /\ c.history \in Seq(Assignments)
      /\ action \in Actions /\ a \in Actors /\ a \notin Inspectors
  BY RolesAssumption DEF Snapshots, Actions, Actors, Humans, Supervisory
<1>2. h \in Seq(Assignments)
  <2>1. Assignment(c.inspector, i) \in Assignments
    BY <1>1 DEF Assignment, Assignments
  <2> QED
    BY <1>1, <2>1, AppendProperties
<1> HIDE DEF h
<1>3. d \in Snapshots(ids, times) /\ e \in EventsOf(ids)
  BY <1>1, <1>2, RecordType
<1>4. /\ d.status = to /\ d.inspector = i /\ d.history = h
      /\ d.trail = Append(c.trail, e)
  BY RecordFields
<1>5. /\ e.action \in AssignmentActions /\ e.from = c.status /\ e.to = to
      /\ e.actor \notin Inspectors
  BY <1>1 DEF Event
<1> HIDE DEF d, e
<1>6. Len(d.trail) > 0 /\ Explained(d) /\ OwnCaseOnly(d)
  BY <1>3, <1>4, <1>5, AssignmentExplained DEF h
<1>7. Valid(d)
  <2>1. d.created = c.created /\ d.updated = t /\ d.assets = c.assets
    BY RecordFields DEF d
  <2>2. c.created <= t
    BY CreatedEarlier DEF Sound
  <2>3. \A x \in c.assets : x.of = CaseId
    BY DEF Sound, Valid
  <2> QED
    BY <1>4, <2>1, <2>2, <2>3 DEF Valid
<1> QED
  BY <1>3, <1>6, <1>7 DEF Sound, d, h

LEMMA AssignedSound ==
  ASSUME NEW ids, NEW times \in SUBSET Nat, NEW c \in Snapshots(ids, times), Sound(c),
         NEW i, NEW a, NEW call \in ids, NEW t \in times, MayAssign(c, i, a, t)
  PROVE  /\ Assigned(c, i, a, call, t) \in Snapshots(ids, times)
         /\ Sound(Assigned(c, i, a, call, t))
<1>1. /\ i \in Inspectors /\ i # NoOne /\ a \in Supervisory /\ c.inspector = NoOne
      /\ Timely(c, t)
      /\ "ASSIGNED" \in AssignmentActions /\ "ASSIGNED" \in Statuses
  BY RolesAssumption DEF MayAssign, AssignmentActions, Statuses
<1> QED
  BY <1>1, AssignmentSound DEF Assigned

LEMMA ReassignedSound ==
  ASSUME NEW ids, NEW times \in SUBSET Nat, NEW c \in Snapshots(ids, times), Sound(c),
         NEW i, NEW a, NEW call \in ids, NEW t \in times, MayReassign(c, i, a, t)
  PROVE  /\ Reassigned(c, i, a, call, t) \in Snapshots(ids, times)
         /\ Sound(Reassigned(c, i, a, call, t))
<1>1. /\ i \in Inspectors /\ i # NoOne /\ a \in Supervisory
      /\ "REASSIGNED" \in AssignmentActions /\ c.status \in Statuses
      /\ c.status \notin {"CREATED", "TRIAGED"} /\ Timely(c, t)
  BY RolesAssumption DEF MayReassign, AssignmentActions, Snapshots, Sound, Valid
<1> QED
  BY <1>1, AssignmentSound DEF Reassigned

LEMMA UnassignedSound ==
  ASSUME NEW ids, NEW times \in SUBSET Nat, NEW c \in Snapshots(ids, times), Sound(c),
         NEW a, NEW call \in ids, NEW t \in times, MayUnassign(c, a, t)
  PROVE  /\ Unassigned(c, a, call, t) \in Snapshots(ids, times)
         /\ Sound(Unassigned(c, a, call, t))
<1> DEFINE to == IF c.status \in {"ASSIGNED", "UNDER_REVIEW"} THEN "TRIAGED" ELSE c.status
<1>1. /\ a \in Supervisory /\ "UNASSIGNED" \in AssignmentActions /\ Timely(c, t)
      /\ to \in Statuses /\ to \notin {"ASSIGNED", "UNDER_REVIEW"}
  BY DEF MayUnassign, AssignmentActions, Snapshots, Statuses
<1> QED
  BY <1>1, AssignmentSound DEF Unassigned
=============================================================================
