--------------------------- MODULE CaseStoreProofs ---------------------------
(***************************************************************************)
(* Proofs about CaseStore, for any staff and evidence, any clock, and any  *)
(* number of calls, raising transactions and stops.                        *)
(***************************************************************************)
EXTENDS CaseStore, CaseRulesProofs

Ids == {NoOne} \cup 1..MaxCalls

TypeOK ==
  /\ mem \in Snapshots(Ids, Times) /\ row \in Snapshots(Ids, Times)
  /\ acked \in Seq(EventsOf(Ids))
  /\ call.pc \in {"idle", "verified", "review", "stored"}
  /\ call.pc \in {"verified", "review"} =>
       call.actor \in Actors /\ call.target \in ReviewTargets /\ calls > 0
  /\ now \in Times /\ calls \in 0..MaxCalls

\* Between commit and index the call holds what the row holds; a review goes
\* on only after memory has caught up with the row.
CallInv ==
  /\ call.pc \in {"verified", "stored"} => call.result = row
  /\ call.pc = "review" => mem = row

\* The stored events carry ids of calls that have begun.
FreshInv == \A k \in 1..Len(row.trail) : row.trail[k].call \in {NoOne} \cup 1..calls

\* A trail in which every decision follows its verification.
DecidesOnEvidence(s) ==
  \A k \in 1..Len(s) :
    s[k].action = "STATE_TRANSITION" /\ s[k].to \in ReviewTargets =>
      /\ s[k - 1].action = "EVIDENCE_VERIFIED"
      /\ s[k - 1].call = s[k].call /\ s[k - 1].actor = s[k].actor

\* The stored trail is one, starts with the creation, and ends in the
\* verification of the review in progress.
EvidenceInv ==
  /\ DecidesOnEvidence(row.trail)
  /\ row.trail[1].action = "CASE_CREATED"
  /\ call.pc \in {"verified", "review"} =>
       LET e == row.trail[Len(row.trail)] IN
       e.action = "EVIDENCE_VERIFIED" /\ e.call = calls /\ e.actor = call.actor

\* The evidence of the case is what processing attached; every verification
\* in the stored trail is by a call that has read it whole.
Processed == {ProcessedEvidence[1], ProcessedEvidence[2]}

WholeInv ==
  /\ DOMAIN read = 1..MaxCalls
  /\ mem.assets = Processed /\ row.assets = Processed
  /\ \A k \in 1..Len(row.trail) :
       row.trail[k].action = "EVIDENCE_VERIFIED" =>
         row.trail[k].call \in 1..calls /\ ContentsHold(Processed, read[row.trail[k].call])

IInv ==
  /\ TypeOK /\ CallInv /\ FreshInv /\ EvidenceInv /\ WholeInv
  /\ MemoryNeverForks /\ AcknowledgedKept
  /\ Sound(mem) /\ Sound(row)

-----------------------------------------------------------------------------
(* Prefixes.                                                               *)

LEMMA PrefixElements ==
  ASSUME NEW S, NEW s \in Seq(S), NEW t \in Seq(S)
  PROVE  IsPrefix(s, t) <=> Len(s) <= Len(t) /\ \A k \in 1..Len(s) : s[k] = t[k]
<1> DEFINE n == Len(s)
<1>1. n \in Nat /\ Len(t) \in Nat
  BY LenProperties
<1>2. SubSeq(s, 1, n) = s
  BY SubSeqFull
<1>3. ASSUME n <= Len(t)
      PROVE  /\ SubSeq(t, 1, n) \in Seq(S) /\ Len(SubSeq(t, 1, n)) = n
             /\ \A k \in 1..n : SubSeq(t, 1, n)[k] = t[k]
  <2>1. \A k \in 1..n : k \in 1..Len(t) /\ t[k] \in S
    BY <1>1, <1>3, ElementOfSeq
  <2> QED
    BY <1>1, <2>1, SubSeqProperties
<1> HIDE DEF n
<1>4. ASSUME n <= Len(t), \A k \in 1..n : s[k] = t[k] PROVE s = SubSeq(t, 1, n)
  BY <1>3, <1>4, SeqEqual DEF n
<1> QED
  BY <1>1, <1>2, <1>3, <1>4 DEF IsPrefix, n

LEMMA PrefixReflexive ==
  ASSUME NEW S, NEW s \in Seq(S)
  PROVE  IsPrefix(s, s)
  BY PrefixElements, LenProperties

LEMMA PrefixTransitive ==
  ASSUME NEW S, NEW s \in Seq(S), NEW t \in Seq(S), NEW u \in Seq(S),
         IsPrefix(s, t), IsPrefix(t, u)
  PROVE  IsPrefix(s, u)
<1>1. Len(s) \in Nat /\ Len(t) \in Nat /\ Len(u) \in Nat
  BY LenProperties
<1>2. /\ Len(s) <= Len(t) /\ Len(t) <= Len(u)
      /\ \A k \in 1..Len(s) : s[k] = t[k]
      /\ \A k \in 1..Len(t) : t[k] = u[k]
  BY PrefixElements
<1>3. Len(s) <= Len(u) /\ \A k \in 1..Len(s) : s[k] = u[k]
  BY <1>1, <1>2
<1> QED
  BY <1>3, PrefixElements

\* A prefix that is not shorter is the whole.
LEMMA PrefixWhole ==
  ASSUME NEW S, NEW s \in Seq(S), NEW t \in Seq(S), IsPrefix(s, t), Len(t) <= Len(s)
  PROVE  s = t
<1>1. Len(s) \in Nat /\ Len(t) \in Nat
  BY LenProperties
<1>2. Len(s) = Len(t) /\ \A k \in 1..Len(s) : s[k] = t[k]
  BY <1>1, PrefixElements
<1> QED
  BY <1>2, SeqEqual

-----------------------------------------------------------------------------
(* What the routes write.                                                  *)

\* Snapshot d adds at least one event to c, all with the id of one call.
Grown(c, d, id) ==
  /\ IsPrefix(c.trail, d.trail) /\ Len(c.trail) < Len(d.trail)
  /\ \A k \in (Len(c.trail) + 1)..Len(d.trail) : d.trail[k].call = id

LEMMA TimesType == Times \in SUBSET Nat
  BY StoreAssumption

LEMMA SnapshotTrail ==
  ASSUME NEW c \in Snapshots(Ids, Times)
  PROVE  c.trail \in Seq(EventsOf(Ids)) /\ Len(c.trail) \in Nat
  BY LenProperties DEF Snapshots

LEMMA AppendGrown ==
  ASSUME NEW c \in Snapshots(Ids, Times), NEW d \in Snapshots(Ids, Times),
         NEW e, d.trail = Append(c.trail, e)
  PROVE  /\ Grown(c, d, e.call)
         /\ Len(d.trail) = Len(c.trail) + 1 /\ d.trail[Len(c.trail) + 1] = e
<1>1. /\ c.trail \in Seq(EventsOf(Ids)) /\ Len(c.trail) \in Nat
      /\ d.trail \in Seq(EventsOf(Ids))
  BY SnapshotTrail
<1>2. /\ Len(d.trail) = Len(c.trail) + 1
      /\ d.trail[Len(c.trail) + 1] = e
      /\ \A k \in 1..Len(c.trail) : c.trail[k] = d.trail[k]
  <2>1. Len(d.trail) = Len(c.trail) + 1 /\ d.trail[Len(c.trail) + 1] = e
    BY <1>1
  <2>2. e \in EventsOf(Ids)
    BY <1>1, <2>1, ElementOfSeq
  <2> QED
    BY <1>1, <2>1, <2>2, AppendProperties
<1>3. IsPrefix(c.trail, d.trail)
  <2>1. Len(c.trail) <= Len(d.trail)
    BY <1>1, <1>2
  <2> QED
    BY <1>1, <1>2, <2>1, PrefixElements
<1> QED
  BY <1>1, <1>2, <1>3 DEF Grown

\* The trail decides on evidence still if the events that were added do.
LEMMA DecidesExtended ==
  ASSUME NEW S, NEW s \in Seq(S), NEW t \in Seq(S), IsPrefix(s, t),
         Len(s) > 0, s[1].action = "CASE_CREATED", DecidesOnEvidence(s),
         \A k \in (Len(s) + 1)..Len(t) :
           t[k].action = "STATE_TRANSITION" /\ t[k].to \in ReviewTargets =>
             /\ t[k - 1].action = "EVIDENCE_VERIFIED"
             /\ t[k - 1].call = t[k].call /\ t[k - 1].actor = t[k].actor
  PROVE  DecidesOnEvidence(t) /\ t[1].action = "CASE_CREATED"
<1>1. /\ Len(s) \in Nat /\ Len(t) \in Nat /\ Len(s) <= Len(t)
      /\ \A k \in 1..Len(s) : s[k] = t[k]
  BY PrefixElements, LenProperties
<1>2. ASSUME NEW k \in 1..Len(s), t[k].action = "STATE_TRANSITION", t[k].to \in ReviewTargets
      PROVE  /\ t[k - 1].action = "EVIDENCE_VERIFIED"
             /\ t[k - 1].call = t[k].call /\ t[k - 1].actor = t[k].actor
  <2>1. s[k] = t[k] /\ k # 1
    BY <1>1, <1>2
  <2>2. s[k - 1] = t[k - 1]
    BY <1>1, <2>1
  <2> QED
    BY <1>2, <2>1, <2>2 DEF DecidesOnEvidence
<1>3. \A k \in 1..Len(t) : k \in 1..Len(s) \/ k \in (Len(s) + 1)..Len(t)
  BY <1>1
<1> QED
  BY <1>1, <1>2, <1>3 DEF DecidesOnEvidence

\* The trail in memory, a prefix of the stored one, decides on evidence too.
LEMMA MemoryDecides ==
  ASSUME TypeOK, EvidenceInv, MemoryNeverForks, Sound(mem)
  PROVE  DecidesOnEvidence(mem.trail) /\ mem.trail[1].action = "CASE_CREATED"
<1>1. /\ mem.trail \in Seq(EventsOf(Ids)) /\ row.trail \in Seq(EventsOf(Ids))
      /\ Len(mem.trail) \in Nat /\ Len(row.trail) \in Nat /\ Len(mem.trail) > 0
  BY SnapshotTrail DEF TypeOK, Sound
<1>2. /\ Len(mem.trail) <= Len(row.trail)
      /\ \A k \in 1..Len(mem.trail) : mem.trail[k] = row.trail[k]
  BY <1>1, PrefixElements DEF MemoryNeverForks
<1>3. mem.trail[1].action = "CASE_CREATED"
  BY <1>1, <1>2 DEF EvidenceInv
<1>4. ASSUME NEW k \in 1..Len(mem.trail),
             mem.trail[k].action = "STATE_TRANSITION", mem.trail[k].to \in ReviewTargets
      PROVE  /\ mem.trail[k - 1].action = "EVIDENCE_VERIFIED"
             /\ mem.trail[k - 1].call = mem.trail[k].call
             /\ mem.trail[k - 1].actor = mem.trail[k].actor
  <2>1. mem.trail[k] = row.trail[k] /\ k # 1 /\ k \in 1..Len(row.trail)
    BY <1>1, <1>2, <1>3, <1>4
  <2>2. mem.trail[k - 1] = row.trail[k - 1]
    BY <1>1, <1>2, <2>1
  <2> QED
    BY <1>4, <2>1, <2>2 DEF EvidenceInv, DecidesOnEvidence
<1> QED
  BY <1>3, <1>4 DEF DecidesOnEvidence

-----------------------------------------------------------------------------
(* The transaction.                                                        *)

\* A snapshot whose first new event has a fresh id is committed only from a
\* memory that is up to date: in a longer stored trail another event has its
\* place.
LEMMA CommitsAreFresh ==
  ASSUME TypeOK, FreshInv, MemoryNeverForks,
         NEW c \in Snapshots(Ids, Times), Grown(mem, c, calls + 1), calls + 1 \in 1..MaxCalls,
         ~Conflicts(c)
  PROVE  mem.trail = row.trail
<1> DEFINE k == Len(mem.trail) + 1
<1>1. /\ mem.trail \in Seq(EventsOf(Ids)) /\ row.trail \in Seq(EventsOf(Ids))
      /\ Len(mem.trail) \in Nat /\ Len(row.trail) \in Nat /\ Len(c.trail) \in Nat
  BY SnapshotTrail DEF TypeOK
<1>2. ASSUME Len(mem.trail) < Len(row.trail) PROVE FALSE
  <2>1. k \in 1..Len(c.trail) /\ k \in 1..Len(row.trail) /\ k <= Len(row.trail)
    BY <1>1, <1>2 DEF Grown
  <2>2. row.trail[k] = c.trail[k]
    BY <2>1 DEF Conflicts, MemoryNeverForks
  <2>3. c.trail[k].call = calls + 1
    BY <1>1, <2>1 DEF Grown
  <2>4. row.trail[k].call \in {NoOne} \cup 1..calls
    BY <2>1 DEF FreshInv
  <2>5. calls \in Nat /\ calls + 1 \notin 1..calls /\ calls + 1 # NoOne
    BY StoreAssumption DEF TypeOK
  <2> QED
    BY <2>2, <2>3, <2>4, <2>5
<1>3. Len(row.trail) <= Len(mem.trail)
  BY <1>1, <1>2
<1> QED
  BY <1>1, <1>3, PrefixWhole DEF MemoryNeverForks

\* update_case, successful or not, from any route: what it keeps.
LEMMA StoreInv ==
  ASSUME IInv, NEW c \in Snapshots(Ids, Times), Sound(c),
         DecidesOnEvidence(c.trail), c.trail[1].action = "CASE_CREATED",
         c.assets = Processed, DOMAIN read' = 1..MaxCalls,
         \A n \in 1..calls : read'[n] = read[n],
         \A k \in (Len(mem.trail) + 1)..Len(c.trail) :
           c.trail[k].action = "EVIDENCE_VERIFIED" => ContentsHold(Processed, read'[calls']),
         Grown(mem, c, calls'), calls' \in 1..MaxCalls,
         calls' = calls + 1 \/ (calls' = calls /\ mem = row),
         NEW next, next.pc \in {"verified", "stored"}, next.result = c,
         next.pc = "verified" =>
           /\ next.actor \in Actors /\ next.target \in ReviewTargets
           /\ LET e == c.trail[Len(c.trail)] IN
              e.action = "EVIDENCE_VERIFIED" /\ e.call = calls' /\ e.actor = next.actor,
         Store(c, next), UNCHANGED <<mem, acked, now>>
  PROVE  IInv' /\ IsPrefix(events, events') /\ IsPrefix(row.trail, row'.trail)
<1>1. /\ mem.trail \in Seq(EventsOf(Ids)) /\ row.trail \in Seq(EventsOf(Ids))
      /\ c.trail \in Seq(EventsOf(Ids))
      /\ Len(mem.trail) \in Nat /\ Len(row.trail) \in Nat /\ Len(c.trail) \in Nat
  BY SnapshotTrail DEF IInv, TypeOK
<1>2. calls \in Nat /\ calls <= calls'
  BY DEF IInv, TypeOK
<1>3. NoCall.pc = "idle"
  BY DEF NoCall
<1>4. CASE UNCHANGED <<row, events>> /\ call' = NoCall
  <2>1. TypeOK' /\ CallInv'
    BY <1>3, <1>4 DEF IInv, TypeOK, CallInv
  <2>2. FreshInv'
    BY <1>2, <1>4 DEF IInv, FreshInv
  <2>3. EvidenceInv'
    BY <1>3, <1>4 DEF IInv, EvidenceInv
  <2>4. (MemoryNeverForks /\ AcknowledgedKept /\ Sound(mem) /\ Sound(row))'
    BY <1>4 DEF IInv, MemoryNeverForks, AcknowledgedKept
  <2>6. WholeInv'
    BY <1>2, <1>4 DEF IInv, WholeInv
  <2>5. IsPrefix(events, events') /\ IsPrefix(row.trail, row'.trail)
    BY <1>1, <1>4, PrefixReflexive DEF IInv, MemoryNeverForks
  <2> QED
    BY <2>1, <2>2, <2>3, <2>4, <2>5, <2>6 DEF IInv
<1>5. CASE ~Conflicts(c) /\ Commits(c) /\ (call' = next \/ call' = NoCall)
  <2>1. row' = c /\ events' = c.trail
    BY <1>5 DEF Commits
  <2>2. mem.trail = row.trail
    <3>1. CASE calls' = calls + 1
      <4>1. calls + 1 \in 1..MaxCalls
        BY <1>2, <3>1
      <4> QED
        BY <1>5, <3>1, <4>1, CommitsAreFresh DEF IInv
    <3>2. CASE calls' = calls /\ mem = row
      BY <3>2
    <3> QED
      BY <3>1, <3>2
  <2>3. IsPrefix(row.trail, c.trail) /\ IsPrefix(mem.trail, c.trail)
    BY <2>2 DEF Grown
  <2>4. TypeOK'
    BY <1>3, <1>5, <2>1 DEF IInv, TypeOK
  <2>5. CallInv'
    BY <1>3, <1>5, <2>1 DEF CallInv
  <2>6. FreshInv'
    <3> SUFFICES ASSUME NEW k \in 1..Len(c.trail)
                 PROVE  c.trail[k].call \in {NoOne} \cup 1..calls'
      BY <2>1 DEF FreshInv
    <3>1. CASE k \in 1..Len(row.trail)
      <4>1. c.trail[k] = row.trail[k]
        BY <1>1, <2>3, <3>1, PrefixElements
      <4> QED
        BY <1>2, <3>1, <4>1 DEF IInv, FreshInv
    <3>2. CASE k \notin 1..Len(row.trail)
      <4>1. k \in (Len(mem.trail) + 1)..Len(c.trail)
        BY <1>1, <2>2, <3>2
      <4>2. c.trail[k].call = calls'
        BY <4>1 DEF Grown
      <4>3. calls' \in 1..calls'
        BY <1>2
      <4> QED
        BY <4>2, <4>3
    <3> QED
      BY <3>1, <3>2
  <2>7. EvidenceInv'
    BY <1>3, <1>5, <2>1 DEF EvidenceInv
  <2>8. MemoryNeverForks'
    BY <2>1, <2>3 DEF MemoryNeverForks
  <2>9. AcknowledgedKept'
    <3>1. IsPrefix(acked, c.trail)
      BY <1>1, <2>3, PrefixTransitive DEF IInv, TypeOK, AcknowledgedKept
    <3> QED
      BY <2>1, <3>1 DEF IInv, AcknowledgedKept
  <2>10. IsPrefix(events, events') /\ IsPrefix(row.trail, row'.trail)
    BY <2>1, <2>3 DEF IInv, MemoryNeverForks
  <2>11. WholeInv'
    <3>1. ASSUME NEW k \in 1..Len(c.trail), c.trail[k].action = "EVIDENCE_VERIFIED"
          PROVE  /\ c.trail[k].call \in 1..calls'
                 /\ ContentsHold(Processed, read'[c.trail[k].call])
      <4>1. CASE k \in 1..Len(row.trail)
        <5>1. c.trail[k] = row.trail[k]
          BY <1>1, <2>3, <4>1, PrefixElements
        <5>2. /\ c.trail[k].call \in 1..calls
              /\ ContentsHold(Processed, read[c.trail[k].call])
          BY <3>1, <4>1, <5>1 DEF IInv, WholeInv
        <5> QED
          BY <1>2, <5>2
      <4>2. CASE k \notin 1..Len(row.trail)
        <5>1. k \in (Len(mem.trail) + 1)..Len(c.trail)
          BY <1>1, <2>2, <4>2
        <5>2. c.trail[k].call = calls'
          BY <5>1 DEF Grown
        <5>3. calls' \in 1..calls'
          BY <1>2
        <5> QED
          BY <3>1, <5>1, <5>2, <5>3
      <4> QED
        BY <4>1, <4>2
    <3> QED
      BY <2>1, <3>1 DEF IInv, WholeInv
  <2> QED
    BY <2>1, <2>4, <2>5, <2>6, <2>7, <2>8, <2>9, <2>10, <2>11 DEF IInv
<1> QED
  BY <1>4, <1>5 DEF Store

-----------------------------------------------------------------------------
(* The routes.                                                             *)

\* What a new event does to the trail of memory's snapshot, if it is no
\* decision of a review.
LEMMA OtherEvents ==
  ASSUME TypeOK, EvidenceInv, MemoryNeverForks, Sound(mem),
         NEW c \in Snapshots(Ids, Times), IsPrefix(mem.trail, c.trail),
         \A k \in (Len(mem.trail) + 1)..Len(c.trail) :
           c.trail[k].action # "STATE_TRANSITION" \/ c.trail[k].to \notin ReviewTargets
  PROVE  DecidesOnEvidence(c.trail) /\ c.trail[1].action = "CASE_CREATED"
<1>1. mem.trail \in Seq(EventsOf(Ids)) /\ c.trail \in Seq(EventsOf(Ids))
  BY SnapshotTrail DEF TypeOK
<1>2. DecidesOnEvidence(mem.trail) /\ mem.trail[1].action = "CASE_CREATED"
  BY MemoryDecides
<1> QED
  BY <1>1, <1>2, DecidesExtended DEF Sound

LEMMA AssignKeeps ==
  ASSUME IInv, NEW i, NEW a \in Actors, AssignInspector(i, a)
  PROVE  IInv' /\ IsPrefix(events, events') /\ IsPrefix(row.trail, row'.trail)
<1> DEFINE t == Transitioned(mem, "TRIAGED", a, calls', now)
           c == IF mem.status = "CREATED" THEN t ELSE mem
           d == Assigned(c, i, a, calls', now)
           e == Event("ASSIGNED", a, c.status, "ASSIGNED", calls')
<1>1. /\ calls' = calls + 1 /\ calls' \in 1..MaxCalls /\ calls' \in Ids
      /\ UNCHANGED <<mem, acked, now, crashes>>
  BY StoreAssumption DEF AssignInspector, Begin, IInv, TypeOK, Ids
<1>2. /\ mem.status = "CREATED" => MayTransition(mem, "TRIAGED", a, now)
      /\ MayAssign(c, i, a, now) /\ Store(d, Stored(d)) /\ UNCHANGED read
  BY DEF AssignInspector
<1>3. /\ mem \in Snapshots(Ids, Times) /\ Sound(mem) /\ now \in Times
      /\ a \in Actors /\ "TRIAGED" \in Statuses /\ mem.trail \in Seq(EventsOf(Ids))
      /\ Len(mem.trail) \in Nat
  BY SnapshotTrail DEF IInv, TypeOK, Actors, Statuses
<1> HIDE DEF c, d, e, t
<1>4. /\ c \in Snapshots(Ids, Times) /\ Sound(c)
      /\ \/ c = mem
         \/ /\ Grown(mem, c, calls') /\ Len(c.trail) = Len(mem.trail) + 1
            /\ c.trail[Len(mem.trail) + 1].to = "TRIAGED"
            /\ c.trail[Len(mem.trail) + 1].action = "STATE_TRANSITION"
  <2>1. CASE mem.status = "CREATED"
    <3>1. t \in Snapshots(Ids, Times) /\ Sound(t)
      BY <1>1, <1>2, <1>3, <2>1, TransitionedSound, TimesType DEF t
    <3>2. t.trail = Append(mem.trail, Event("STATE_TRANSITION", a, mem.status, "TRIAGED", calls'))
      BY RecordFields DEF t, Transitioned
    <3>3. LET f == Event("STATE_TRANSITION", a, mem.status, "TRIAGED", calls') IN
          f.call = calls' /\ f.to = "TRIAGED" /\ f.action = "STATE_TRANSITION"
      BY DEF Event
    <3> QED
      BY <1>3, <2>1, <3>1, <3>2, <3>3, AppendGrown DEF c
  <2>2. CASE mem.status # "CREATED"
    BY <1>3, <2>2 DEF c
  <2> QED
    BY <2>1, <2>2
<1>5. d \in Snapshots(Ids, Times) /\ Sound(d)
  BY <1>1, <1>2, <1>3, <1>4, AssignedSound, TimesType DEF d
<1>6. /\ Grown(c, d, calls') /\ Len(d.trail) = Len(c.trail) + 1
      /\ d.trail[Len(c.trail) + 1] = e /\ e.action = "ASSIGNED"
  <2>1. d.trail = Append(c.trail, e)
    BY RecordFields DEF d, e, Assigned
  <2>2. e.call = calls' /\ e.action = "ASSIGNED"
    BY DEF e, Event
  <2> QED
    BY <1>4, <1>5, <2>1, <2>2, AppendGrown
<1>7. /\ Grown(mem, d, calls')
      /\ \A k \in (Len(mem.trail) + 1)..Len(d.trail) :
           /\ d.trail[k].action # "STATE_TRANSITION" \/ d.trail[k].to \notin ReviewTargets
           /\ d.trail[k].action # "EVIDENCE_VERIFIED"
  <2>1. /\ c.trail \in Seq(EventsOf(Ids)) /\ d.trail \in Seq(EventsOf(Ids))
        /\ Len(c.trail) \in Nat
    BY <1>4, <1>5, SnapshotTrail
  <2>2. CASE c = mem
    <3>1. \A k \in (Len(mem.trail) + 1)..Len(d.trail) : k = Len(c.trail) + 1
      BY <1>6, <2>1, <2>2
    <3> QED
      BY <1>6, <2>2, <3>1
  <2>3. CASE /\ Grown(mem, c, calls') /\ Len(c.trail) = Len(mem.trail) + 1
             /\ c.trail[Len(mem.trail) + 1].to = "TRIAGED"
             /\ c.trail[Len(mem.trail) + 1].action = "STATE_TRANSITION"
    <3>1. IsPrefix(mem.trail, d.trail)
      BY <1>3, <1>6, <2>1, <2>3, PrefixTransitive DEF Grown
    <3>2. \A k \in (Len(mem.trail) + 1)..Len(d.trail) :
            k = Len(mem.trail) + 1 \/ k = Len(c.trail) + 1
      BY <1>3, <1>6, <2>3
    <3>3. /\ Len(c.trail) + 1 \in (Len(c.trail) + 1)..Len(d.trail)
          /\ Len(mem.trail) + 1 \in (Len(mem.trail) + 1)..Len(c.trail)
          /\ Len(mem.trail) + 1 \in 1..Len(c.trail) /\ Len(mem.trail) < Len(d.trail)
      BY <1>3, <1>6, <2>1, <2>3
    <3>4. d.trail[Len(mem.trail) + 1] = c.trail[Len(mem.trail) + 1]
      BY <1>6, <2>1, <3>3, PrefixElements DEF Grown
    <3>5. "TRIAGED" \notin ReviewTargets
      BY DEF ReviewTargets
    <3> QED
      BY <1>6, <2>3, <3>1, <3>2, <3>3, <3>4, <3>5 DEF Grown
  <2> QED
    BY <1>4, <2>2, <2>3
<1>8. DecidesOnEvidence(d.trail) /\ d.trail[1].action = "CASE_CREATED"
  BY <1>5, <1>7, OtherEvents DEF IInv, Grown
<1>9. Stored(d).pc = "stored" /\ Stored(d).result = d
  BY DEF Stored, NoCall
<1>10. /\ d.assets = Processed /\ DOMAIN read' = 1..MaxCalls
       /\ \A n \in 1..calls : read'[n] = read[n]
       /\ \A k \in (Len(mem.trail) + 1)..Len(d.trail) :
            d.trail[k].action = "EVIDENCE_VERIFIED" => ContentsHold(Processed, read'[calls'])
  <2>1. c.assets = mem.assets /\ d.assets = c.assets
    BY RecordFields DEF c, d, t, Transitioned, Assigned
  <2> QED
    BY <1>2, <1>7, <2>1 DEF IInv, WholeInv
<1> QED
  BY <1>1, <1>2, <1>5, <1>7, <1>8, <1>9, <1>10, StoreInv

LEMMA ReinspectionKeeps ==
  ASSUME IInv, NEW a \in Actors, RequestReinspection(a)
  PROVE  IInv' /\ IsPrefix(events, events') /\ IsPrefix(row.trail, row'.trail)
<1> DEFINE c == Transitioned(mem, "REINSPECTION_REQUIRED", a, calls', now)
           e == Event("STATE_TRANSITION", a, mem.status, "REINSPECTION_REQUIRED", calls')
<1>1. /\ calls' = calls + 1 /\ calls' \in 1..MaxCalls /\ calls' \in Ids
      /\ UNCHANGED <<mem, acked, now, crashes>>
  BY StoreAssumption DEF RequestReinspection, Begin, IInv, TypeOK, Ids
<1>2. /\ MayTransition(mem, "REINSPECTION_REQUIRED", a, now) /\ Store(c, Stored(c))
      /\ UNCHANGED read
  BY DEF RequestReinspection
<1>3. /\ mem \in Snapshots(Ids, Times) /\ Sound(mem) /\ now \in Times
      /\ a \in Actors /\ "REINSPECTION_REQUIRED" \in Statuses /\ Len(mem.trail) \in Nat
  BY SnapshotTrail DEF IInv, TypeOK, Actors, Statuses
<1>4. c \in Snapshots(Ids, Times) /\ Sound(c)
  BY <1>1, <1>2, <1>3, TransitionedSound, TimesType
<1>5. c.trail = Append(mem.trail, e) /\ c.assets = Processed
  BY RecordFields DEF Transitioned, IInv, WholeInv
<1>6. e.call = calls' /\ e.to \notin ReviewTargets /\ e.action = "STATE_TRANSITION"
  BY DEF Event, ReviewTargets
<1> HIDE DEF c, e
<1>7. /\ Grown(mem, c, calls') /\ Len(c.trail) = Len(mem.trail) + 1
      /\ c.trail[Len(mem.trail) + 1] = e
  BY <1>3, <1>4, <1>5, <1>6, AppendGrown
<1>8. DecidesOnEvidence(c.trail) /\ c.trail[1].action = "CASE_CREATED"
  <2>1. \A k \in (Len(mem.trail) + 1)..Len(c.trail) : k = Len(mem.trail) + 1
    BY <1>3, <1>7
  <2> QED
    BY <1>4, <1>6, <1>7, <2>1, OtherEvents DEF IInv, Grown
<1>9. Stored(c).pc = "stored" /\ Stored(c).result = c
  BY DEF Stored, NoCall
<1>10. /\ c.assets = Processed /\ DOMAIN read' = 1..MaxCalls
       /\ \A n \in 1..calls : read'[n] = read[n]
       /\ \A k \in (Len(mem.trail) + 1)..Len(c.trail) :
            c.trail[k].action = "EVIDENCE_VERIFIED" => ContentsHold(Processed, read'[calls'])
  <2>1. \A k \in (Len(mem.trail) + 1)..Len(c.trail) : k = Len(mem.trail) + 1
    BY <1>3, <1>7
  <2> QED
    BY <1>2, <1>5, <1>6, <1>7, <2>1 DEF IInv, WholeInv
<1> QED
  BY <1>1, <1>2, <1>4, <1>7, <1>8, <1>9, <1>10, StoreInv

LEMMA ReviewKeeps ==
  ASSUME IInv, NEW a \in Actors, NEW target \in ReviewTargets, NEW contents,
         Review(a, target, contents)
  PROVE  IInv' /\ IsPrefix(events, events') /\ IsPrefix(row.trail, row'.trail)
<1> DEFINE c == Verified(mem, a, calls', now)
           e == Event("EVIDENCE_VERIFIED", a, mem.status, mem.status, calls')
           next == [pc |-> "verified", actor |-> a, target |-> target, result |-> c]
<1>1. /\ calls' = calls + 1 /\ calls' \in 1..MaxCalls /\ calls' \in Ids
      /\ UNCHANGED <<mem, acked, now, crashes>>
  BY StoreAssumption DEF Review, Begin, IInv, TypeOK, Ids
<1>2. /\ MayVerify(mem, contents, a, now) /\ Store(c, next)
      /\ read' = [read EXCEPT ![calls'] = contents]
  BY DEF Review
<1>3. /\ mem \in Snapshots(Ids, Times) /\ Sound(mem) /\ now \in Times
      /\ a \in Actors /\ Len(mem.trail) \in Nat
  BY SnapshotTrail DEF IInv, TypeOK, Actors
<1>4. c \in Snapshots(Ids, Times) /\ Sound(c)
  BY <1>1, <1>2, <1>3, VerifiedSound, TimesType
<1>5. c.trail = Append(mem.trail, e) /\ c.assets = Processed
  BY RecordFields DEF Verified, IInv, WholeInv
<1>6. e.call = calls' /\ e.action = "EVIDENCE_VERIFIED" /\ e.actor = a
  BY DEF Event
<1> HIDE DEF c, e
<1>7. /\ Grown(mem, c, calls') /\ Len(c.trail) = Len(mem.trail) + 1
      /\ c.trail[Len(mem.trail) + 1] = e
  BY <1>3, <1>4, <1>5, <1>6, AppendGrown
<1>8. DecidesOnEvidence(c.trail) /\ c.trail[1].action = "CASE_CREATED"
  <2>1. \A k \in (Len(mem.trail) + 1)..Len(c.trail) : k = Len(mem.trail) + 1
    BY <1>3, <1>7
  <2> QED
    BY <1>4, <1>6, <1>7, <2>1, OtherEvents DEF IInv, Grown
<1>9. c.trail[Len(c.trail)] = e
  BY <1>3, <1>7
<1>10. ContentsHold(Processed, contents)
  BY <1>2 DEF MayVerify, IInv, WholeInv
<1>11. /\ c.assets = Processed /\ DOMAIN read' = 1..MaxCalls
       /\ read'[calls'] = contents
       /\ \A n \in 1..calls : read'[n] = read[n]
       /\ \A k \in (Len(mem.trail) + 1)..Len(c.trail) :
            c.trail[k].action = "EVIDENCE_VERIFIED" => ContentsHold(Processed, read'[calls'])
  <2>1. DOMAIN read = 1..MaxCalls /\ calls \in Nat
    BY DEF IInv, WholeInv, TypeOK
  <2>2. \A n \in 1..calls : n \in 1..MaxCalls /\ n # calls'
    BY <1>1, <2>1, StoreAssumption
  <2> QED
    BY <1>1, <1>2, <1>5, <1>10, <2>1, <2>2
<1>12. next.pc = "verified" /\ next.result = c /\ next.actor = a /\ next.target = target
  OBVIOUS
<1> HIDE DEF next
<1> QED
  BY <1>1, <1>2, <1>4, <1>6, <1>7, <1>8, <1>9, <1>11, <1>12, StoreInv

\* The decision of a review lands right behind its verification.
LEMMA DecideKeeps ==
  ASSUME IInv, Decide
  PROVE  IInv' /\ IsPrefix(events, events') /\ IsPrefix(row.trail, row'.trail)
<1> DEFINE c == Transitioned(mem, call.target, call.actor, calls, now)
           e == Event("STATE_TRANSITION", call.actor, mem.status, call.target, calls)
<1>1. /\ call.pc = "review" /\ UNCHANGED <<mem, acked, read, now, calls, crashes>>
      /\ \/ MayTransition(mem, call.target, call.actor, now) /\ Store(c, Stored(c))
         \/ call' = NoCall /\ UNCHANGED <<row, events, faults>>
  BY DEF Decide
<1>2. /\ mem \in Snapshots(Ids, Times) /\ Sound(mem) /\ now \in Times
      /\ mem.trail \in Seq(EventsOf(Ids)) /\ Len(mem.trail) \in Nat /\ Len(mem.trail) > 0
      /\ call.actor \in Actors /\ call.target \in Statuses /\ call.target \in ReviewTargets
      /\ calls \in 1..MaxCalls /\ calls \in Ids /\ mem = row
  <2>1. /\ mem \in Snapshots(Ids, Times) /\ Sound(mem) /\ now \in Times
        /\ call.actor \in Actors /\ call.target \in ReviewTargets
        /\ calls \in 0..MaxCalls /\ calls > 0 /\ mem = row
    BY <1>1 DEF IInv, TypeOK, CallInv
  <2>2. /\ mem.trail \in Seq(EventsOf(Ids)) /\ Len(mem.trail) \in Nat
        /\ Len(mem.trail) > 0
    BY <2>1, SnapshotTrail DEF Sound
  <2>3. call.actor \in Actors /\ call.target \in Statuses
    BY <2>1 DEF Actors, Statuses, ReviewTargets
  <2>4. calls \in 1..MaxCalls
    BY <2>1, StoreAssumption
  <2>5. calls \in Ids
    BY <2>4 DEF Ids
  <2> QED
    BY <2>1, <2>2, <2>3, <2>4, <2>5
<1>3. CASE MayTransition(mem, call.target, call.actor, now) /\ Store(c, Stored(c))
  <2>1. c \in Snapshots(Ids, Times) /\ Sound(c)
    BY <1>2, <1>3, TransitionedSound, TimesType
  <2>2. c.trail = Append(mem.trail, e) /\ c.assets = Processed
    BY RecordFields DEF Transitioned, IInv, WholeInv
  <2>3. e.call = calls /\ e.actor = call.actor /\ e.action = "STATE_TRANSITION"
    BY DEF Event
  <2> HIDE DEF c, e
  <2>4. /\ Grown(mem, c, calls) /\ Len(c.trail) = Len(mem.trail) + 1
        /\ c.trail[Len(mem.trail) + 1] = e
    BY <1>2, <2>1, <2>2, <2>3, AppendGrown
  <2>5. DecidesOnEvidence(c.trail) /\ c.trail[1].action = "CASE_CREATED"
    <3>1. DecidesOnEvidence(mem.trail) /\ mem.trail[1].action = "CASE_CREATED"
      BY <1>2 DEF IInv, EvidenceInv
    <3>2. c.trail \in Seq(EventsOf(Ids))
      BY <2>1, SnapshotTrail
    <3>3. c.trail[Len(mem.trail)] = mem.trail[Len(mem.trail)]
      <4>1. Len(mem.trail) \in 1..Len(mem.trail)
        BY <1>2
      <4>2. IsPrefix(mem.trail, c.trail)
        BY <2>4 DEF Grown
      <4>3. \A k \in 1..Len(mem.trail) : mem.trail[k] = c.trail[k]
        BY <1>2, <3>2, <4>2, PrefixElements
      <4> QED
        BY <4>1, <4>3
    <3>4. LET f == mem.trail[Len(mem.trail)] IN
          f.action = "EVIDENCE_VERIFIED" /\ f.call = calls /\ f.actor = call.actor
      BY <1>1, <1>2 DEF IInv, EvidenceInv
    <3>5. \A k \in (Len(mem.trail) + 1)..Len(c.trail) :
            k = Len(mem.trail) + 1 /\ k - 1 = Len(mem.trail)
      BY <1>2, <2>4
    <3>6. \A k \in (Len(mem.trail) + 1)..Len(c.trail) :
            /\ c.trail[k - 1].action = "EVIDENCE_VERIFIED"
            /\ c.trail[k - 1].call = c.trail[k].call /\ c.trail[k - 1].actor = c.trail[k].actor
      BY <2>3, <2>4, <3>3, <3>4, <3>5
    <3> QED
      BY <1>2, <2>4, <3>1, <3>2, <3>6, DecidesExtended DEF Grown
  <2>6. Stored(c).pc = "stored" /\ Stored(c).result = c
    BY DEF Stored, NoCall
  <2>7. /\ c.assets = Processed /\ DOMAIN read' = 1..MaxCalls
        /\ \A n \in 1..calls : read'[n] = read[n]
        /\ \A k \in (Len(mem.trail) + 1)..Len(c.trail) :
             c.trail[k].action = "EVIDENCE_VERIFIED" => ContentsHold(Processed, read'[calls'])
    <3>1. \A k \in (Len(mem.trail) + 1)..Len(c.trail) : k = Len(mem.trail) + 1
      BY <1>2, <2>4
    <3> QED
      BY <1>1, <2>2, <2>3, <2>4, <3>1 DEF IInv, WholeInv
  <2> QED
    BY <1>1, <1>2, <1>3, <2>1, <2>4, <2>5, <2>6, <2>7, StoreInv
<1>4. CASE call' = NoCall /\ UNCHANGED <<row, events, faults>>
  <2>1. NoCall.pc = "idle"
    BY DEF NoCall
  <2>2. (TypeOK /\ CallInv /\ FreshInv /\ EvidenceInv /\ WholeInv)'
    BY <1>1, <1>4, <2>1 DEF IInv, TypeOK, CallInv, FreshInv, EvidenceInv, WholeInv
  <2>3. (MemoryNeverForks /\ AcknowledgedKept /\ Sound(mem) /\ Sound(row))'
    BY <1>1, <1>4 DEF IInv, MemoryNeverForks, AcknowledgedKept
  <2> QED
    BY <1>2, <1>4, <2>2, <2>3, PrefixReflexive DEF IInv, MemoryNeverForks
<1> QED
  BY <1>1, <1>3, <1>4

\* Memory catches up with the row, between two updates or at the end of a
\* call, and after a stop.
LEMMA CatchesUp ==
  ASSUME IInv, mem' = row, acked' \in {acked, row.trail},
         call'.pc \in {"idle", "review"},
         call'.pc = "review" =>
           call.pc = "verified" /\ call'.actor = call.actor /\ call'.target = call.target,
         UNCHANGED <<row, events, read, now, calls>>
  PROVE  IInv'
<1>1. row.trail \in Seq(EventsOf(Ids))
  BY SnapshotTrail DEF IInv, TypeOK
<1>2. TypeOK'
  BY <1>1 DEF IInv, TypeOK
<1>3. CallInv' /\ FreshInv' /\ EvidenceInv' /\ WholeInv'
  BY DEF IInv, CallInv, FreshInv, EvidenceInv, WholeInv
<1>4. IsPrefix(row.trail, row.trail)
  BY <1>1, PrefixReflexive
<1>5. MemoryNeverForks' /\ AcknowledgedKept'
  BY <1>4 DEF IInv, MemoryNeverForks, AcknowledgedKept
<1>6. (Sound(mem) /\ Sound(row))'
  BY DEF IInv
<1> QED
  BY <1>2, <1>3, <1>5, <1>6 DEF IInv

LEMMA IndexVerifiedKeeps == IInv /\ IndexVerified => IInv'
<1> SUFFICES ASSUME IInv, IndexVerified PROVE IInv'
  OBVIOUS
<1>1. /\ call.pc = "verified" /\ mem' = call.result
      /\ call' = [call EXCEPT !.pc = "review", !.result = NoOne]
      /\ UNCHANGED <<row, events, acked, read, now, calls>>
  BY DEF IndexVerified, bounds
<1>2. mem' = row
  BY <1>1 DEF IInv, CallInv
<1>3. call'.pc = "review" /\ call'.actor = call.actor /\ call'.target = call.target
  BY <1>1
<1> QED
  BY <1>1, <1>2, <1>3, CatchesUp

LEMMA IndexKeeps == IInv /\ Index => IInv'
<1> SUFFICES ASSUME IInv, Index PROVE IInv'
  OBVIOUS
<1>1. /\ call.pc = "stored" /\ mem' = call.result /\ acked' = call.result.trail
      /\ call' = NoCall /\ UNCHANGED <<row, events, read, now, calls>>
  BY DEF Index, bounds
<1>2. mem' = row /\ acked' = row.trail
  BY <1>1 DEF IInv, CallInv
<1>3. call'.pc = "idle"
  BY <1>1 DEF NoCall
<1> QED
  BY <1>1, <1>2, <1>3, CatchesUp

LEMMA RestartKeeps == IInv /\ Restart => IInv'
<1> SUFFICES ASSUME IInv, Restart PROVE IInv'
  OBVIOUS
<1>1. mem' = row /\ call'.pc = "idle" /\ UNCHANGED <<row, events, acked, read, now, calls>>
  BY DEF Restart, NoCall
<1> QED
  BY <1>1, CatchesUp

\* The case as processing publishes it.
LEMMA PublishedSound ==
  ASSUME NEW t \in Times
  PROVE  LET c == Published(t) IN
         /\ c \in Snapshots(Ids, Times) /\ Sound(c) /\ c.assets = Processed
         /\ Len(c.trail) = 3 /\ c.trail[1].action = "CASE_CREATED"
         /\ \A k \in 1..3 :
              /\ c.trail[k].call = NoOne
              /\ c.trail[k].action \notin {"STATE_TRANSITION", "EVIDENCE_VERIFIED"}
<1> DEFINE x == ProcessedEvidence[1]
           y == ProcessedEvidence[2]
           c1 == Created(NoOne, t)
           c2 == Attached(c1, x, Processor, NoOne, t)
           c3 == Attached(c2, y, Processor, NoOne, t)
           e1 == Event("CASE_CREATED", Processor, NoOne, "CREATED", NoOne)
           e2 == Event("EVIDENCE_ATTACHED", Processor, c1.status, c1.status, NoOne)
           e3 == Event("EVIDENCE_ATTACHED", Processor, c2.status, c2.status, NoOne)
<1>1. x \in Evidence /\ y \in Evidence /\ NoOne \in Ids /\ Processor \in Actors
  BY StoreAssumption DEF Ids, Actors
<1>2. /\ \A c : EvidenceActor(c, Processor)
      /\ x.of = CaseId /\ y.of = CaseId
  BY RolesAssumption, StoreAssumption DEF EvidenceActor
<1>3. /\ e1.call = NoOne /\ e1.action = "CASE_CREATED"
      /\ e2.call = NoOne /\ e2.action = "EVIDENCE_ATTACHED"
      /\ e3.call = NoOne /\ e3.action = "EVIDENCE_ATTACHED"
  BY DEF Event
<1>4. c1.trail = <<e1>>
  BY DEF Created, Case
<1>5. /\ c2.trail = Append(c1.trail, e2) /\ c3.trail = Append(c2.trail, e3)
      /\ c1.updated = t /\ c2.updated = t /\ c3.assets = Processed
  <2>1. c1.updated = t /\ c1.assets = {}
    BY DEF Created, Case
  <2>2. c2.updated = t /\ c2.assets = {x} /\ c3.assets = c2.assets \cup {y}
    BY <2>1, RecordFields DEF Attached
  <2> QED
    BY <2>1, <2>2, RecordFields DEF Attached, Processed
<1>6. Published(t) = c3
  BY DEF Published
<1>12. t \in Nat /\ Times \in SUBSET Nat
  BY TimesType
<1> HIDE DEF e1, e2, e3, x, y
<1>7. c1 \in Snapshots(Ids, Times) /\ Sound(c1) /\ Timely(c1, t)
  BY <1>1, <1>5, <1>12, CreatedSound DEF Timely
<1> HIDE DEF c1
<1>8. c2 \in Snapshots(Ids, Times) /\ Sound(c2) /\ Timely(c2, t)
  BY <1>1, <1>2, <1>5, <1>7, <1>12, AttachedSound DEF Timely
<1> HIDE DEF c2
<1>9. c3 \in Snapshots(Ids, Times) /\ Sound(c3)
  BY <1>1, <1>2, <1>8, <1>12, AttachedSound
<1> HIDE DEF c3
<1>10. /\ Len(c3.trail) = 3 /\ c3.trail[1] = e1 /\ c3.trail[2] = e2 /\ c3.trail[3] = e3
  <2>1. /\ c1.trail \in Seq(EventsOf(Ids)) /\ c2.trail \in Seq(EventsOf(Ids))
        /\ c3.trail \in Seq(EventsOf(Ids))
    BY <1>7, <1>8, <1>9, SnapshotTrail
  <2>2. Len(c1.trail) = 1 /\ c1.trail[1] = e1
    BY <1>4
  <2>3. Len(c2.trail) = 2 /\ c2.trail[2] = e2
    BY <1>5, <1>7, <1>8, <2>2, AppendGrown
  <2>4. Len(c3.trail) = 3 /\ c3.trail[3] = e3
    BY <1>5, <1>8, <1>9, <2>3, AppendGrown
  <2>5. /\ \A k \in 1..1 : c1.trail[k] = c2.trail[k]
        /\ \A k \in 1..2 : c2.trail[k] = c3.trail[k]
    <3>1. Grown(c1, c2, e2.call) /\ Grown(c2, c3, e3.call)
      BY <1>5, <1>7, <1>8, <1>9, AppendGrown
    <3>2. IsPrefix(c1.trail, c2.trail) /\ IsPrefix(c2.trail, c3.trail)
      BY <3>1 DEF Grown
    <3> QED
      BY <2>1, <2>2, <2>3, <3>2, PrefixElements
  <2> QED
    BY <2>2, <2>3, <2>4, <2>5
<1>11. \A k \in 1..3 : /\ c3.trail[k].call = NoOne
                      /\ c3.trail[k].action \notin {"STATE_TRANSITION", "EVIDENCE_VERIFIED"}
  BY <1>3, <1>10
<1> QED
  BY <1>3, <1>5, <1>6, <1>9, <1>10, <1>11

-----------------------------------------------------------------------------
(* The invariant and what follows from it.                                 *)

LEMMA InitInv == Init => IInv
<1> SUFFICES ASSUME Init PROVE IInv
  OBVIOUS
<1>1. PICK t \in Times : row = Published(t)
  BY DEF Init
<1>2. /\ row \in Snapshots(Ids, Times) /\ Sound(row) /\ row.assets = Processed
      /\ Len(row.trail) = 3 /\ row.trail[1].action = "CASE_CREATED"
      /\ \A k \in 1..3 :
           /\ row.trail[k].call = NoOne
           /\ row.trail[k].action \notin {"STATE_TRANSITION", "EVIDENCE_VERIFIED"}
  BY <1>1, PublishedSound
<1>3. /\ mem = row /\ events = row.trail /\ acked = row.trail /\ call.pc = "idle"
      /\ now \in Times /\ calls = 0 /\ DOMAIN read = 1..MaxCalls
  BY DEF Init, NoCall
<1>4. row.trail \in Seq(EventsOf(Ids))
  BY <1>2, SnapshotTrail
<1>5. TypeOK
  BY <1>2, <1>3, <1>4, StoreAssumption DEF TypeOK
<1>6. CallInv /\ FreshInv /\ EvidenceInv /\ WholeInv
  BY <1>2, <1>3 DEF CallInv, FreshInv, EvidenceInv, DecidesOnEvidence, WholeInv
<1>7. MemoryNeverForks /\ AcknowledgedKept
  BY <1>3, <1>4, PrefixReflexive DEF MemoryNeverForks, AcknowledgedKept
<1> QED
  BY <1>2, <1>3, <1>5, <1>6, <1>7 DEF IInv

LEMMA StepInv ==
  ASSUME IInv, [Next]_vars
  PROVE  IInv' /\ IsPrefix(events, events') /\ IsPrefix(row.trail, row'.trail)
<1>1. row.trail \in Seq(EventsOf(Ids)) /\ events = row.trail
  BY SnapshotTrail DEF IInv, TypeOK, MemoryNeverForks
<1>2. UNCHANGED <<row, events>> =>
        IsPrefix(events, events') /\ IsPrefix(row.trail, row'.trail)
  BY <1>1, PrefixReflexive
<1>3. ASSUME NEW a \in Actors, NEW i \in Inspectors, AssignInspector(i, a)
      PROVE  IInv' /\ IsPrefix(events, events') /\ IsPrefix(row.trail, row'.trail)
  BY <1>3, AssignKeeps
<1>4. ASSUME NEW a \in Actors, RequestReinspection(a)
      PROVE  IInv' /\ IsPrefix(events, events') /\ IsPrefix(row.trail, row'.trail)
  BY <1>4, ReinspectionKeeps
<1>5. ASSUME NEW a \in Actors, NEW target \in ReviewTargets, NEW contents,
             Review(a, target, contents)
      PROVE  IInv' /\ IsPrefix(events, events') /\ IsPrefix(row.trail, row'.trail)
  BY <1>5, ReviewKeeps
<1>6. CASE IndexVerified
  BY <1>2, <1>6, IndexVerifiedKeeps DEF IndexVerified
<1>7. CASE Decide
  BY <1>7, DecideKeeps
<1>8. CASE Index
  BY <1>2, <1>8, IndexKeeps DEF Index
<1>9. CASE Tick \/ UNCHANGED vars
  <2>1. now' \in Times /\ UNCHANGED <<mem, row, events, call, acked, read, calls>>
    BY <1>9 DEF IInv, TypeOK, Tick, bounds, vars
  <2>2. (TypeOK /\ CallInv /\ FreshInv /\ EvidenceInv /\ WholeInv)'
    BY <2>1 DEF IInv, TypeOK, CallInv, FreshInv, EvidenceInv, WholeInv
  <2>3. (MemoryNeverForks /\ AcknowledgedKept /\ Sound(mem) /\ Sound(row))'
    BY <2>1 DEF IInv, MemoryNeverForks, AcknowledgedKept
  <2> QED
    BY <1>2, <2>1, <2>2, <2>3 DEF IInv
<1>10. CASE Restart
  BY <1>2, <1>10, RestartKeeps DEF Restart
<1> QED
  BY <1>3, <1>4, <1>5, <1>6, <1>7, <1>8, <1>9, <1>10 DEF Next

LEMMA Inductive == Spec => []IInv
<1>1. IInv /\ [Next]_vars => IInv'
  BY StepInv
<1> QED
  BY InitInv, <1>1, PTL DEF Spec

(***************************************************************************)
(* MemoryNeverForks: the case in memory is a prefix of the stored one,     *)
(* through ambiguous commits, refused updates and restarts.                *)
(***************************************************************************)
THEOREM NeverForks == Spec => []MemoryNeverForks
<1>1. IInv => MemoryNeverForks
  BY DEF IInv
<1> QED
  BY Inductive, <1>1, PTL

(***************************************************************************)
(* AcknowledgedKept: what a client was told is never taken back.           *)
(***************************************************************************)
THEOREM Acknowledged == Spec => []AcknowledgedKept
<1>1. IInv => AcknowledgedKept
  BY DEF IInv
<1> QED
  BY Inductive, <1>1, PTL

(***************************************************************************)
(* DecisionsVerified: review_case decides right behind its own             *)
(* verification, however often the process stops between the two updates,  *)
(* and that verification found every asset of the case in its file as it   *)
(* was attached.                                                           *)
(***************************************************************************)
THEOREM OnEvidence == Spec => []DecisionsVerified
<1>1. IInv => DecisionsVerified
  <2> SUFFICES ASSUME IInv, NEW k \in 1..Len(row.trail),
                      row.trail[k].action = "STATE_TRANSITION",
                      row.trail[k].to \in ReviewTargets
               PROVE  /\ row.trail[k - 1].action = "EVIDENCE_VERIFIED"
                      /\ row.trail[k - 1].call = row.trail[k].call
                      /\ row.trail[k - 1].actor = row.trail[k].actor
                      /\ ContentsHold(row.assets, read[row.trail[k].call])
    BY DEF DecisionsVerified
  <2>1. /\ row.trail[k - 1].action = "EVIDENCE_VERIFIED"
        /\ row.trail[k - 1].call = row.trail[k].call
        /\ row.trail[k - 1].actor = row.trail[k].actor
        /\ k # 1
    BY DEF IInv, EvidenceInv, DecidesOnEvidence
  <2>2. Len(row.trail) \in Nat
    BY SnapshotTrail DEF IInv, TypeOK
  <2>3. k - 1 \in 1..Len(row.trail)
    BY <2>1, <2>2
  <2> QED
    BY <2>1, <2>3 DEF IInv, WholeInv
<1> QED
  BY Inductive, <1>1, PTL

(***************************************************************************)
(* RowsExplainThemselves: the stored snapshot is explained by its records, *)
(* and no inspector acted on a case of somebody else.                      *)
(***************************************************************************)
THEOREM RowsExplained == Spec => []RowsExplainThemselves
<1>1. IInv => RowsExplainThemselves
  BY DEF IInv, Sound, RowsExplainThemselves
<1> QED
  BY Inductive, <1>1, PTL

(***************************************************************************)
(* HistoryAppendOnly: no step rewrites or drops a stored event.            *)
(***************************************************************************)
THEOREM AppendOnly == Spec => HistoryAppendOnly
<1>1. IInv /\ [Next]_vars => [IsPrefix(events, events') /\ IsPrefix(row.trail, row'.trail)]_vars
  BY StepInv
<1> QED
  BY Inductive, <1>1, PTL DEF Spec, HistoryAppendOnly
=============================================================================
