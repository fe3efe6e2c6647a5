----------------------------- MODULE DatasetProofs -----------------------------
(***************************************************************************)
(* The checks of training and municipal data.                              *)
(*                                                                         *)
(* Grouping: the union-find loop answers for the chains of linked pairs    *)
(* visited so far, and the splits that follow its components never leak.   *)
(* The invariant gives every item the root of its tree as a label, and a   *)
(* height that grows towards the root: path halving changes neither, and   *)
(* a union changes the labels of one class.                                *)
(*                                                                         *)
(* Quarantine: the result of validate_dataset, for every dataset, is       *)
(* consistent, and no consistent set of records was ever touched.  The     *)
(* reason is that a record which agrees with some records agrees with more *)
(* of them, so a rejection can only follow from rejections that were       *)
(* inevitable.                                                             *)
(***************************************************************************)
EXTENDS Quarantine, Grouping, FiniteSetTheorems, WellFoundedInduction, TLAPS

(* A non-empty set of natural numbers has a least element.  The intervals  *)
(* up to its members are finite sets, and strict inclusion of finite sets  *)
(* is well-founded.                                                        *)
LEMMA LeastElement ==
  ASSUME NEW T \in SUBSET Nat, T # {}
  PROVE  \E m \in T : \A n \in T : m <= n
PROOF
<1> DEFINE Up(n) == 1..n
           Ups == {Up(n) : n \in T}
           Inside == StrictSubsetOrdering(Nat)
           Finite == FiniteSubsetsOf(Nat)
<1>1. Ups \subseteq Finite /\ Ups # {}
  <2>1. ASSUME NEW n \in T PROVE Up(n) \in Finite
    BY FS_Interval DEF FiniteSubsetsOf
  <2> QED  BY <2>1
<1>2. IsWellFoundedOn(Inside, Finite)
  BY FS_StrictSubsetOrderingWellFounded
<1> HIDE DEF Ups, Inside, Finite
<1>3. \E u \in Ups : \A v \in Ups : ~(<<v, u>> \in Inside)
  BY <1>1, <1>2, WFMin
<1>4. PICK m \in T : \A v \in Ups : <<v, Up(m)>> \notin Inside
  BY <1>3 DEF Ups
<1>5. ASSUME NEW n \in T PROVE m <= n
  <2>1. <<Up(n), Up(m)>> \notin Inside
    BY <1>4 DEF Ups
  <2>2. Up(n) \in SUBSET Nat /\ Up(m) \in SUBSET Nat
    OBVIOUS
  <2>3. n < m => Up(n) \subseteq Up(m) /\ m \in Up(m) /\ m \notin Up(n)
    OBVIOUS
  <2> HIDE DEF Up
  <2>4. ~(n < m)
    BY <2>1, <2>2, <2>3 DEF Inside, StrictSubsetOrdering
  <2> QED  BY <2>4
<1> QED
  BY <1>5

LinkingSteps == {"link", "find_left", "find_right", "collect"}

Shape ==
  /\ input \in Inputs
  /\ step \in LinkingSteps \cup {"check", "compare", "end"}
  /\ Len(items) \in Nat
  /\ input.of = "samples" => items \in Seq(SampleItem)
  /\ step \in {"check", "compare"} \/ verdict = "accepted" => input.of = "samples"
  /\ step # "end" => verdict = "open"
  /\ left \in Nat \ {0} /\ right \in Nat
  /\ parents \in [Indices -> Indices]
  /\ step \in {"find_left", "find_right"} =>
       left < Len(items) /\ Linked(items[left], items[right])
  /\ step \in {"link", "find_left", "find_right"} /\ left < Len(items) =>
       left < right /\ right <= Len(items)

(* label is the root of every item, and parents lead to higher items.      *)
Labels(label, height) ==
  /\ \A i \in Indices : label[parents[i]] = label[i]
  /\ \A i \in Indices : parents[i] = i => label[i] = i
  /\ \A i \in Indices : parents[i] # i => height[i] < height[parents[i]]

Classes(label) ==
  \A i, j \in Indices : label[i] = label[j] <=> Connected(i, j)

(* What the finds know so far.                                             *)
Progress(label) ==
  /\ step # "collect" => roots = <<>>
  /\ step = "find_left" => cursor \in Indices /\ label[cursor] = label[left]
  /\ step = "find_right" =>
       /\ cursor \in Indices /\ label[cursor] = label[right]
       /\ found \in Indices /\ parents[found] = found /\ label[left] = found
  /\ step = "collect" =>
       /\ roots \in Seq(Indices) /\ Len(roots) = left - 1 /\ left <= Len(items) + 1
       /\ \A i \in 1..Len(roots) : roots[i] = label[i]
       /\ left <= Len(items) => cursor \in Indices /\ label[cursor] = label[left]

ForestInv ==
  step \in LinkingSteps =>
    \E label \in [Indices -> Indices], height \in [Indices -> Nat] :
      Labels(label, height) /\ Classes(label) /\ Progress(label)

AssignedInv ==
  input.assign /\ step \in {"check", "compare"} =>
    \A i, j \in Indices :
      /\ items[i].split # "unassigned"
      /\ i < j /\ items[i].split # items[j].split => ~Close(items[i], items[j])

CheckInv ==
  step = "check" =>
    \A k \in Indices : k < left =>
      items[k].hash \in DOMAIN seen /\ seen[items[k].hash] = items[k].split

CompareInv ==
  step = "compare" =>
    /\ \A i, j \in Indices : items[i].hash = items[j].hash => items[i].split = items[j].split
    /\ \A k \in Indices : k < left =>
         /\ items[k].split # "unassigned"
         /\ \A r \in Indices :
              k < r /\ items[k].split # items[r].split => ~Close(items[k], items[r])

GInv ==
  /\ Shape /\ ForestInv
  /\ AssignedInv /\ CheckInv /\ CompareInv
  /\ AcceptedNeverLeaks /\ AssignmentPassesValidation

-----------------------------------------------------------------------------
(* Chains of linked pairs.                                                 *)

LEMMA SameConnected ==
  ASSUME Indices' = Indices, \A x, y \in Indices : Joined(x, y)' <=> Joined(x, y),
         NEW i \in Indices, NEW j \in Indices
  PROVE  Connected(i, j)' <=> Connected(i, j)
PROOF
<1>1. \A S \in SUBSET Indices : Closed(S)' <=> Closed(S)
  BY DEF Closed
<1> QED
  BY <1>1 DEF Connected

LEMMA JoinedIsConnected ==
  ASSUME NEW i \in Indices, NEW j \in Indices, Joined(i, j)
  PROVE  Connected(i, j)
PROOF
  BY DEF Connected, Closed

LEMMA Reflexive ==
  ASSUME NEW i \in Indices
  PROVE  Connected(i, i)
PROOF
  BY DEF Connected

Merges(merged, label, a, b) ==
  \A k \in Indices : merged[k] = IF label[k] = label[b] THEN label[a] ELSE label[k]

OneMoreLink(a, b) ==
  \A x, y \in Indices :
    Joined(x, y)' <=> Joined(x, y) \/ (x = a /\ y = b) \/ (x = b /\ y = a)

(* A new link merges the classes of its two ends and nothing else.         *)
LEMMA ClassesMerge ==
  ASSUME NEW label \in [Indices -> Indices], Classes(label), Indices' = Indices,
         NEW a \in Indices, NEW b \in Indices,
         OneMoreLink(a, b),
         NEW merged \in [Indices -> Indices], Merges(merged, label, a, b)
  PROVE  \A i, j \in Indices : merged[i] = merged[j] <=> Connected(i, j)'
PROOF
<1> USE DEF Merges, OneMoreLink
<1>1. ASSUME NEW S \in SUBSET Indices, Closed(S)'
      PROVE  Closed(S) /\ (a \in S <=> b \in S)
  BY <1>1 DEF Closed
<1>2. ASSUME NEW i \in Indices, NEW j \in Indices, merged[i] = merged[j]
      PROVE  Connected(i, j)'
  <2> SUFFICES ASSUME NEW S \in SUBSET Indices, i \in S, Closed(S)' PROVE j \in S
    BY DEF Connected
  <2>1. ASSUME NEW x \in Indices, NEW y \in Indices, label[x] = label[y], x \in S
        PROVE  y \in S
    BY <2>1, <1>1 DEF Classes, Connected
  <2>2. \/ label[i] = label[j]
        \/ label[i] = label[b] /\ label[j] = label[a]
        \/ label[i] = label[a] /\ label[j] = label[b]
    BY <1>2
  <2>3. CASE label[i] = label[j]
    BY <2>1, <2>3
  <2>4. CASE label[i] = label[b] /\ label[j] = label[a]
    <3>1. b \in S  BY <2>1, <2>4
    <3>2. a \in S  BY <3>1, <1>1
    <3> QED  BY <2>1, <2>4, <3>2
  <2>5. CASE label[i] = label[a] /\ label[j] = label[b]
    <3>1. a \in S  BY <2>1, <2>5
    <3>2. b \in S  BY <3>1, <1>1
    <3> QED  BY <2>1, <2>5, <3>2
  <2> QED
    BY <2>2, <2>3, <2>4, <2>5
<1>3. ASSUME NEW i \in Indices, NEW j \in Indices, Connected(i, j)'
      PROVE  merged[i] = merged[j]
  <2> DEFINE S == {k \in Indices : merged[k] = merged[i]}
  <2>1. ASSUME NEW x \in S, NEW y \in Indices, Joined(x, y)' PROVE y \in S
    <3>1. CASE Joined(x, y)
      <4>1. label[x] = label[y]
        BY <3>1, JoinedIsConnected DEF Classes
      <4> QED  BY <4>1
    <3>2. merged[a] = merged[b]
      OBVIOUS
    <3>3. CASE (x = a /\ y = b) \/ (x = b /\ y = a)
      BY <3>2, <3>3
    <3> QED
      BY <2>1, <3>1, <3>3
  <2>2. S \in SUBSET Indices /\ i \in S
    OBVIOUS
  <2>3. \A x \in S : \A y \in Indices : Joined(x, y)' => y \in S
    BY <2>1
  <2> HIDE DEF S
  <2>4. j \in S
    BY <1>3, <2>2, <2>3 DEF Connected, Closed
  <2> QED
    BY <2>4 DEF S
<1> QED
  BY <1>2, <1>3

(* The loop visits the pair it is at, and no other.                        *)
LEMMA NextPairVisits ==
  ASSUME Len(items) \in Nat, left \in Nat \ {0}, right \in Nat,
         left < Len(items), left < right, right <= Len(items),
         step \in {"link", "find_right"}, step' = "link", NextPair,
         items' = items, input' = input
  PROVE  /\ \A i, j \in Indices :
              Joined(i, j)' <=>
                \/ Joined(i, j)
                \/ Linked(items[left], items[right])
                     /\ ((i = left /\ j = right) \/ (i = right /\ j = left))
         /\ left' \in Nat \ {0} /\ right' \in Nat
         /\ left' < Len(items) => left' < right' /\ right' <= Len(items)
PROOF
<1>1. \A i, j \in Indices : Visited(i, j)' <=> Visited(i, j) \/ (i = left /\ j = right)
  BY DEF Visited, NextPair, Indices
<1>2. \A l, r : Linked(l, r)' <=> Linked(l, r)
  BY DEF Linked
<1>3. left \in Indices /\ right \in Indices /\ ~Visited(left, right) /\ ~Visited(right, left)
  BY DEF Visited, Indices
<1>4. \A i, j \in Indices :
        Joined(i, j)' <=> \/ Visited(i, j)' /\ Linked(items[i], items[j])
                          \/ Visited(j, i)' /\ Linked(items[j], items[i])
  BY <1>2 DEF Joined
<1>5. \A i, j \in Indices :
        Joined(i, j)' <=>
          \/ Joined(i, j)
          \/ Linked(items[left], items[right])
               /\ ((i = left /\ j = right) \/ (i = right /\ j = left))
  BY <1>1, <1>3, <1>4 DEF Joined
<1>6. /\ left' \in Nat \ {0} /\ right' \in Nat
      /\ left' < Len(items) => left' < right' /\ right' <= Len(items)
  BY DEF NextPair
<1> QED
  BY <1>5, <1>6
-----------------------------------------------------------------------------
LEMMA SameClasses ==
  ASSUME items' = items, input' = input,
         \A i, j \in Indices : Visited(i, j)' <=> Visited(i, j),
         NEW label, Classes(label)
  PROVE  Classes(label)'
PROOF
<1>1. Indices' = Indices
  BY DEF Indices
<1>2. \A l, r : Linked(l, r)' <=> Linked(l, r)
  BY DEF Linked
<1>3. \A i, j \in Indices : Joined(i, j)' <=> Joined(i, j)
  BY <1>2 DEF Joined
<1>4. \A i, j \in Indices : Connected(i, j)' <=> Connected(i, j)
  BY <1>1, <1>3, SameConnected
<1> QED
  BY <1>1, <1>4 DEF Classes

LoopSteps == {"link", "find_left", "find_right"}

LEMMA SameVisited ==
  ASSUME UNCHANGED <<called, left, right>>, step \in LoopSteps, step' \in LoopSteps
  PROVE  \A i, j \in Indices : Visited(i, j)' <=> Visited(i, j)
PROOF
  BY DEF Visited, LoopSteps, called

(* Nothing after the double loop concerns a step of it.                    *)
LEMMA LaterInvs ==
  ASSUME GInv, step \in LinkingSteps, step' \in LinkingSteps \/ step' = "end",
         UNCHANGED verdict
  PROVE  /\ AssignedInv' /\ CheckInv' /\ CompareInv'
         /\ AcceptedNeverLeaks' /\ AssignmentPassesValidation'
PROOF
<1>1. verdict = "open" /\ verdict' = "open"
  BY DEF GInv, Shape, LinkingSteps
<1> QED
  BY <1>1 DEF AssignedInv, CheckInv, CompareInv, AcceptedNeverLeaks,
     AssignmentPassesValidation, LinkingSteps

LEMMA Refusal ==
  ASSUME GInv, NEW why, Refuse(why), why # "accepted",
         input.assign => why \notin {"leak", "no_split"}
  PROVE  GInv'
PROOF
<1>1. Shape'
  BY DEF GInv, Shape, Refuse, called, forest, Indices, LinkingSteps
<1>2. ForestInv' /\ AssignedInv' /\ CheckInv' /\ CompareInv'
  BY DEF Refuse, ForestInv, AssignedInv, CheckInv, CompareInv, LinkingSteps
<1>3. AcceptedNeverLeaks' /\ AssignmentPassesValidation'
  BY DEF Refuse, AcceptedNeverLeaks, AssignmentPassesValidation, called
<1> QED
  BY <1>1, <1>2, <1>3 DEF GInv

LEMMA GroupingInitEstablishes == GroupingInit => GInv
PROOF
<1> SUFFICES ASSUME GroupingInit PROVE GInv
  OBVIOUS
<1>1. Len(items) \in Nat /\ (input.of = "samples" => items \in Seq(SampleItem))
  BY GroupingAssumption DEF GroupingInit
<1>2. Shape
  BY <1>1, GroupingAssumption DEF Shape, GroupingInit, LinkingSteps, Indices
<1>3. ASSUME step = "link" PROVE ForestInv
  <2> DEFINE label == [i \in Indices |-> i]
             height == [i \in Indices |-> 0]
  <2>1. label \in [Indices -> Indices] /\ height \in [Indices -> Nat]
    OBVIOUS
  <2>2. Labels(label, height) /\ Progress(label)
    BY <1>3 DEF Labels, Progress, GroupingInit, Indices
  <2>3. \A i, j \in Indices : ~Joined(i, j)
    BY <1>1, <1>3 DEF Joined, Visited, GroupingInit, Indices
  <2>4. ASSUME NEW i \in Indices, NEW j \in Indices, Connected(i, j) PROVE i = j
    <3>1. {i} \in SUBSET Indices /\ Closed({i})
      BY <2>3 DEF Closed
    <3> QED  BY <2>4, <3>1 DEF Connected
  <2>5. Classes(label)
    BY <2>4, Reflexive DEF Classes
  <2> QED
    BY <2>1, <2>2, <2>5 DEF ForestInv
<1>4. step = "link" \/ step = "check"
  BY DEF GroupingInit
<1>5. ForestInv
  BY <1>3, <1>4 DEF ForestInv, LinkingSteps
<1>6. CheckInv /\ CompareInv /\ AcceptedNeverLeaks /\ AssignmentPassesValidation
  BY <1>1, <1>4 DEF CheckInv, CompareInv, AcceptedNeverLeaks, AssignmentPassesValidation,
     GroupingInit, Indices
<1>7. AssignedInv
  BY <1>4 DEF AssignedInv, GroupingInit
<1> QED
  BY <1>2, <1>5, <1>6, <1>7 DEF GInv

LEMMA LinkKeeps ==
  ASSUME GInv, Link
  PROVE  GInv'
PROOF
<1> USE DEF GInv
<1>1. /\ step = "link" /\ step \in LinkingSteps /\ step \in LoopSteps
      /\ left < Len(items) /\ Len(items) \in Nat
      /\ left \in Nat \ {0} /\ right \in Nat /\ left < right /\ right <= Len(items)
      /\ left \in Indices /\ Indices' = Indices
      /\ items' = items /\ input' = input /\ parents' = parents /\ found' = found
      /\ roots' = roots /\ verdict' = verdict
  BY DEF Link, Measured, Shape, LinkingSteps, LoopSteps, called, answer, Indices
<1>2. PICK label \in [Indices -> Indices], height \in [Indices -> Nat] :
        Labels(label, height) /\ Classes(label) /\ Progress(label)
  BY <1>1 DEF ForestInv
<1>3. Labels(label, height)'
  BY <1>1, <1>2 DEF Labels
<1>4. CASE Linked(items[left], items[right])
  <2>1. step' = "find_left" /\ cursor' = left /\ left' = left /\ right' = right
    BY <1>4 DEF Link
  <2>2. Linked(items[left], items[right])'
    BY <1>1, <1>4, <2>1 DEF Linked
  <2>3. Shape'
    BY <1>1, <2>1, <2>2 DEF Shape, LinkingSteps
  <2>4. \A i, j \in Indices : Visited(i, j)' <=> Visited(i, j)
    BY <1>1, <2>1, SameVisited DEF LoopSteps, called
  <2>5. Classes(label)'
    BY <1>1, <1>2, <2>4, SameClasses
  <2>6. Progress(label)'
    BY <1>1, <1>2, <2>1 DEF Progress
  <2>7. ForestInv'
    BY <1>1, <1>2, <1>3, <2>5, <2>6 DEF ForestInv
  <2> QED
    BY <1>1, <2>1, <2>3, <2>7, LaterInvs DEF LinkingSteps
<1>5. CASE ~Linked(items[left], items[right])
  <2>1. NextPair /\ step' = "link" /\ cursor' = cursor
    BY <1>1, <1>5 DEF Link
  <2>2. /\ \A i, j \in Indices : Joined(i, j)' <=> Joined(i, j)
        /\ left' \in Nat \ {0} /\ right' \in Nat
        /\ left' < Len(items) => left' < right' /\ right' <= Len(items)
    BY <1>1, <1>5, <2>1, NextPairVisits
  <2>3. Shape'
    BY <1>1, <2>1, <2>2 DEF Shape, LinkingSteps
  <2>4. Classes(label)'
    BY <1>1, <1>2, <2>2, SameConnected DEF Classes
  <2>5. Progress(label)'
    BY <1>1, <1>2, <2>1 DEF Progress
  <2>6. ForestInv'
    BY <1>1, <1>2, <1>3, <2>4, <2>5 DEF ForestInv
  <2> QED
    BY <1>1, <2>1, <2>3, <2>6, LaterInvs DEF LinkingSteps
<1> QED
  BY <1>4, <1>5

LEMMA HalveKeeps ==
  ASSUME GInv, Halve
  PROVE  GInv'
PROOF
<1> USE DEF GInv
<1>1. /\ step \in LinkingSteps /\ step' = step
      /\ step \in {"find_left", "find_right"} \/ (step = "collect" /\ left <= Len(items))
      /\ Len(items) \in Nat /\ left \in Nat \ {0} /\ Indices' = Indices
      /\ parents \in [Indices -> Indices]
      /\ items' = items /\ input' = input /\ found' = found /\ left' = left /\ right' = right
      /\ roots' = roots /\ verdict' = verdict
  BY DEF Halve, Finding, Shape, LinkingSteps, called, answer, Indices
<1>2. PICK label \in [Indices -> Indices], height \in [Indices -> Nat] :
        Labels(label, height) /\ Classes(label) /\ Progress(label)
  BY <1>1 DEF ForestInv
<1>3. cursor \in Indices /\ parents[cursor] # cursor
  BY <1>1, <1>2 DEF Halve, Progress
<1>4. /\ parents[cursor] \in Indices /\ parents[parents[cursor]] \in Indices
      /\ parents' \in [Indices -> Indices]
      /\ \A i \in Indices :
           parents'[i] = IF i = cursor THEN parents[parents[cursor]] ELSE parents[i]
      /\ cursor' = parents[parents[cursor]]
  BY <1>1, <1>3 DEF Halve
<1>5. label[cursor'] = label[cursor]
  BY <1>2, <1>3, <1>4 DEF Labels
<1>6. height[cursor] < height[cursor'] /\ cursor' # cursor
  <2>1. height[cursor] \in Nat /\ height[parents[cursor]] \in Nat /\ height[cursor'] \in Nat
    BY <1>3, <1>4
  <2>2. height[cursor] < height[parents[cursor]]
    BY <1>2, <1>3 DEF Labels
  <2>3. \/ cursor' = parents[cursor]
        \/ height[parents[cursor]] < height[cursor']
    BY <1>2, <1>4 DEF Labels
  <2> QED
    BY <2>1, <2>2, <2>3
<1>7. Labels(label, height)'
  BY <1>1, <1>2, <1>3, <1>4, <1>5, <1>6 DEF Labels
<1>8. Classes(label)'
  <2>1. \A i, j \in Indices : Visited(i, j)' <=> Visited(i, j)
    BY <1>1 DEF Visited
  <2> QED
    BY <1>1, <1>2, <2>1, SameClasses
<1>9. Progress(label)'
  BY <1>1, <1>2, <1>3, <1>4, <1>5 DEF Progress
<1>10. ForestInv'
  BY <1>1, <1>2, <1>7, <1>8, <1>9 DEF ForestInv
<1>11. Shape'
  <2>1. Linked(items[left], items[right])' <=> Linked(items[left], items[right])
    BY <1>1 DEF Linked
  <2> QED
    BY <1>1, <1>4, <2>1 DEF Shape
<1> QED
  BY <1>1, <1>10, <1>11, LaterInvs

LEMMA LeftFoundKeeps ==
  ASSUME GInv, LeftFound
  PROVE  GInv'
PROOF
<1> USE DEF GInv
<1>1. /\ step = "find_left" /\ step' = "find_right" /\ cursor' = right /\ found' = cursor
      /\ parents[cursor] = cursor /\ step \in LinkingSteps
      /\ Len(items) \in Nat /\ left \in Nat \ {0} /\ right \in Indices /\ Indices' = Indices
      /\ items' = items /\ input' = input /\ parents' = parents /\ left' = left
      /\ right' = right /\ roots' = roots /\ verdict' = verdict
  BY DEF LeftFound, Shape, LinkingSteps, called, answer, Indices
<1>2. PICK label \in [Indices -> Indices], height \in [Indices -> Nat] :
        Labels(label, height) /\ Classes(label) /\ Progress(label)
  BY <1>1 DEF ForestInv
<1>3. Labels(label, height)'
  BY <1>1, <1>2 DEF Labels
<1>4. Classes(label)'
  <2>1. \A i, j \in Indices : Visited(i, j)' <=> Visited(i, j)
    BY <1>1, SameVisited DEF LoopSteps, called
  <2> QED
    BY <1>1, <1>2, <2>1, SameClasses
<1>5. Progress(label)'
  BY <1>1, <1>2 DEF Progress, Labels
<1>6. ForestInv'
  BY <1>1, <1>2, <1>3, <1>4, <1>5 DEF ForestInv
<1>7. Shape'
  <2>1. Linked(items[left], items[right])' <=> Linked(items[left], items[right])
    BY <1>1 DEF Linked
  <2> QED
    BY <1>1, <2>1 DEF Shape, LinkingSteps
<1> QED
  BY <1>1, <1>6, <1>7, LaterInvs DEF LinkingSteps

(* Hanging one root under another raises the tree it goes to.              *)
LEMMA UniteKeeps ==
  ASSUME GInv, Unite
  PROVE  GInv'
PROOF
<1> USE DEF GInv
<1>1. /\ step = "find_right" /\ step' = "link" /\ step \in LinkingSteps
      /\ parents[cursor] = cursor /\ parents \in [Indices -> Indices]
      /\ Linked(items[left], items[right])
      /\ Len(items) \in Nat /\ left \in Nat \ {0} /\ right \in Nat
      /\ left < Len(items) /\ left < right /\ right <= Len(items)
      /\ left \in Indices /\ right \in Indices /\ Indices' = Indices
      /\ items' = items /\ input' = input /\ NextPair
      /\ roots' = roots /\ verdict' = verdict
  BY DEF Unite, Shape, LinkingSteps, called, answer, Indices
<1>2. PICK label \in [Indices -> Indices], height \in [Indices -> Nat] :
        Labels(label, height) /\ Classes(label) /\ Progress(label)
  BY <1>1 DEF ForestInv
<1>3. /\ cursor \in Indices /\ label[cursor] = cursor /\ label[right] = cursor
      /\ found \in Indices /\ parents[found] = found
      /\ label[found] = found /\ label[left] = found
  BY <1>1, <1>2 DEF Progress, Labels
<1>4. /\ \A i, j \in Indices :
           Joined(i, j)' <=> Joined(i, j) \/ (i = left /\ j = right) \/ (i = right /\ j = left)
      /\ left' \in Nat \ {0} /\ right' \in Nat
      /\ left' < Len(items) => left' < right' /\ right' <= Len(items)
  BY <1>1, NextPairVisits
<1>5. /\ \E merged \in [Indices -> Indices] :
           \A k \in Indices : merged[k] = IF label[k] = label[right] THEN label[left] ELSE label[k]
      /\ \E raised \in [Indices -> Nat] :
           \A k \in Indices : raised[k] = IF found # cursor /\ label[k] = found
                                        THEN height[k] + height[cursor] + 1 ELSE height[k]
  <2> DEFINE M == [k \in Indices |-> IF label[k] = label[right] THEN label[left] ELSE label[k]]
             H == [k \in Indices |-> IF found # cursor /\ label[k] = found
                                     THEN height[k] + height[cursor] + 1 ELSE height[k]]
  <2>1. M \in [Indices -> Indices]
    BY <1>1
  <2>2. H \in [Indices -> Nat]
    BY <1>3
  <2> QED
    BY <2>1, <2>2
<1>6. PICK merged \in [Indices -> Indices] :
        \A k \in Indices : merged[k] = IF label[k] = label[right] THEN label[left] ELSE label[k]
  BY <1>5
<1>7. PICK raised \in [Indices -> Nat] :
        \A k \in Indices : raised[k] = IF found # cursor /\ label[k] = found
                                     THEN height[k] + height[cursor] + 1 ELSE height[k]
  BY <1>5
<1>8. Classes(merged)'
  <2>1. \A i, j \in Indices : merged[i] = merged[j] <=> Connected(i, j)'
    <3>1. PICK a \in Indices, b \in Indices : a = left /\ b = right
      BY <1>1
    <3>2. OneMoreLink(a, b)
      BY <1>4, <3>1 DEF OneMoreLink
    <3>3. Merges(merged, label, a, b)
      BY <1>6, <3>1 DEF Merges
    <3> QED
      <4>1. Indices' = Indices /\ Classes(label)
        BY <1>1, <1>2
      <4> QED
        BY <3>2, <3>3, <4>1, ClassesMerge
  <2> QED
    BY <1>1, <2>1 DEF Classes
<1>9. /\ parents' \in [Indices -> Indices]
      /\ \A i \in Indices : parents'[i] = IF i = cursor THEN found ELSE parents[i]
  BY <1>1, <1>3 DEF Unite
<1>10. ASSUME NEW i \in Indices
      PROVE  /\ merged[parents'[i]] = merged[i]
             /\ parents'[i] = i => merged[i] = i
             /\ parents'[i] # i => raised[i] < raised[parents'[i]]
  <2>1. CASE i = cursor
    BY <1>1, <1>2, <1>3, <1>9, <1>6, <1>7, <2>1
  <2>2. CASE i # cursor
    <3>1. parents'[i] = parents[i] /\ parents[i] \in Indices /\ label[parents[i]] = label[i]
      BY <1>1, <1>2, <1>9, <2>2 DEF Labels
    <3>2. parents[i] = i => label[i] = i
      BY <1>2 DEF Labels
    <3>3. parents[i] # i => height[i] < height[parents[i]]
      BY <1>2 DEF Labels
    <3> QED
      BY <1>2, <1>3, <1>6, <1>7, <2>2, <3>1, <3>2, <3>3
  <2> QED
    BY <2>1, <2>2
<1>11. Labels(merged, raised)'
  BY <1>1, <1>10 DEF Labels
<1>12. Progress(merged)'
  BY <1>1, <1>2 DEF Progress
<1>13. ForestInv'
  BY <1>1, <1>8, <1>11, <1>12 DEF ForestInv
<1>14. Shape'
  BY <1>1, <1>4, <1>9 DEF Shape, LinkingSteps
<1> QED
  BY <1>1, <1>13, <1>14, LaterInvs DEF LinkingSteps

LEMMA LinkEndsKeeps ==
  ASSUME GInv, LinkEnds
  PROVE  GInv'
PROOF
<1> USE DEF GInv
<1>1. /\ step = "link" /\ step' = "collect" /\ step \in LinkingSteps
      /\ left >= Len(items) /\ left' = 1 /\ cursor' = 1
      /\ Len(items) \in Nat /\ left \in Nat \ {0} /\ Indices' = Indices
      /\ items' = items /\ input' = input /\ parents' = parents /\ right' = right
      /\ found' = found /\ roots' = roots /\ verdict' = verdict
  BY DEF LinkEnds, Shape, LinkingSteps, called, answer, Indices
<1>2. PICK label \in [Indices -> Indices], height \in [Indices -> Nat] :
        Labels(label, height) /\ Classes(label) /\ Progress(label)
  BY <1>1 DEF ForestInv
<1>3. Labels(label, height)'
  BY <1>1, <1>2 DEF Labels
<1>4. Classes(label)'
  <2>1. \A i, j \in Indices : Visited(i, j)' <=> Visited(i, j)
    BY <1>1 DEF Visited, Indices
  <2> QED
    BY <1>1, <1>2, <2>1, SameClasses
<1>5. Progress(label)'
  <2>1. roots' = <<>> /\ roots' \in Seq(Indices) /\ Len(roots') = 0
    BY <1>1, <1>2 DEF Progress
  <2>2. 1 <= Len(items) => cursor' \in Indices
    BY <1>1 DEF Indices
  <2> QED
    BY <1>1, <2>1, <2>2 DEF Progress
<1>6. ForestInv'
  BY <1>1, <1>2, <1>3, <1>4, <1>5 DEF ForestInv
<1>7. Shape'
  BY <1>1 DEF Shape, LinkingSteps
<1> QED
  BY <1>1, <1>6, <1>7, LaterInvs DEF LinkingSteps

LEMMA RootFoundKeeps ==
  ASSUME GInv, RootFound
  PROVE  GInv'
PROOF
<1> USE DEF GInv
<1>1. /\ step = "collect" /\ step' = "collect" /\ step \in LinkingSteps
      /\ left <= Len(items) /\ left' = left + 1 /\ cursor' = left + 1
      /\ parents[cursor] = cursor /\ roots' = Append(roots, cursor)
      /\ Len(items) \in Nat /\ left \in Nat \ {0} /\ Indices' = Indices
      /\ items' = items /\ input' = input /\ parents' = parents /\ right' = right
      /\ found' = found /\ verdict' = verdict
  BY DEF RootFound, Shape, LinkingSteps, called, answer, Indices
<1>2. PICK label \in [Indices -> Indices], height \in [Indices -> Nat] :
        Labels(label, height) /\ Classes(label) /\ Progress(label)
  BY <1>1 DEF ForestInv
<1>3. Labels(label, height)'
  BY <1>1, <1>2 DEF Labels
<1>4. Classes(label)'
  <2>1. \A i, j \in Indices : Visited(i, j)' <=> Visited(i, j)
    BY <1>1 DEF Visited
  <2> QED
    BY <1>1, <1>2, <2>1, SameClasses
<1>5. /\ roots \in Seq(Indices) /\ Len(roots) = left - 1
      /\ \A i \in 1..Len(roots) : roots[i] = label[i]
      /\ cursor \in Indices /\ label[left] = cursor
  BY <1>1, <1>2 DEF Progress, Labels
<1>6. /\ roots' \in Seq(Indices) /\ Len(roots') = left
      /\ \A i \in 1..(left - 1) : roots'[i] = roots[i]
      /\ roots'[left] = cursor
  BY <1>1, <1>5
<1>7. \A i \in 1..left : roots'[i] = label[i]
  BY <1>1, <1>5, <1>6
<1>8. Progress(label)'
  <2>1. left + 1 <= Len(items) => cursor' \in Indices
    BY <1>1 DEF Indices
  <2> QED
    BY <1>1, <1>6, <1>7, <2>1 DEF Progress
<1>9. ForestInv'
  BY <1>1, <1>2, <1>3, <1>4, <1>8 DEF ForestInv
<1>10. Shape'
  BY <1>1 DEF Shape, LinkingSteps
<1> QED
  BY <1>1, <1>9, <1>10, LaterInvs DEF LinkingSteps

LEMMA CollectGroupsKeeps ==
  ASSUME GInv, CollectGroups
  PROVE  GInv'
PROOF
<1> USE DEF GInv
<1>1. Shape' /\ ForestInv'
  BY DEF CollectGroups, Collected, Shape, ForestInv, LinkingSteps, called, forest, Indices
<1>2. step \in LinkingSteps /\ step' = "end" /\ verdict' = verdict
  BY DEF CollectGroups, Collected, LinkingSteps
<1> QED
  BY <1>1, <1>2, LaterInvs

(* All members of a component receive the split that one of them draws.    *)
LEMMA DrawnIsASplit ==
  ASSUME items \in Seq(SampleItem), NEW i \in Indices
  PROVE  Drawn(i) \in Splits \ {"unassigned"}
PROOF
<1> DEFINE C == Component(i)
           Ids == {items[j].id : j \in C}
<1>1. i \in C /\ C \subseteq Indices
  BY DEF Component
<1>2. \A j \in Indices : items[j] \in SampleItem
  BY DEF Indices
<1>3. Ids \in SUBSET Nat /\ Ids # {}
  BY <1>1, <1>2 DEF SampleItem
<1> HIDE DEF C
<1>4. PICK m \in Ids : \A n \in Ids : m <= n
  <2> HIDE DEF Ids
  <2> QED  BY <1>3, LeastElement
<1>5. \E j \in C : \A k \in C : items[j].id <= items[k].id
  BY <1>4
<1> DEFINE first == CHOOSE j \in C : \A k \in C : items[j].id <= items[k].id
<1>6. first \in C
  BY <1>5
<1> HIDE DEF first
<1>7. items[first].draw \in Splits \ {"unassigned"}
  BY <1>1, <1>2, <1>6 DEF SampleItem
<1> QED
  BY <1>7 DEF Drawn, first, C

LEMMA AssignSplitsKeeps ==
  ASSUME GInv, AssignSplits
  PROVE  GInv'
PROOF
<1> USE DEF GInv
<1>1. /\ step = "collect" /\ left > Len(items) /\ input.of = "samples" /\ step \in LinkingSteps
      /\ items' = [i \in Indices |-> [items[i] EXCEPT !.split = Drawn(i)]]
      /\ step' = "check" /\ left' = 1 /\ input' = input /\ verdict' = verdict
      /\ verdict = "open" /\ right' = right /\ parents' = parents
      /\ items \in Seq(SampleItem) /\ Len(items) \in Nat /\ left \in Nat
  BY DEF AssignSplits, Collected, Shape, LinkingSteps, answer, forest
<1>2. PICK label \in [Indices -> Indices], height \in [Indices -> Nat] :
        Labels(label, height) /\ Classes(label) /\ Progress(label)
  BY <1>1 DEF ForestInv
<1>3. \A i \in Indices : items[i] \in SampleItem /\ Drawn(i) \in Splits \ {"unassigned"}
  BY <1>1, DrawnIsASplit DEF Indices
<1>4. \A i \in Indices : [items[i] EXCEPT !.split = Drawn(i)] \in SampleItem
  BY <1>3 DEF SampleItem
<1>5. items' \in Seq(SampleItem) /\ Len(items') = Len(items) /\ Indices' = Indices
  <2> DEFINE New(i) == [items[i] EXCEPT !.split = Drawn(i)]
             n == Len(items)
  <2>1. items' = [i \in 1..n |-> New(i)] /\ n \in Nat
    BY <1>1 DEF Indices
  <2>2. \A i \in 1..n : New(i) \in SampleItem
    BY <1>4 DEF Indices
  <2> HIDE DEF New, n
  <2>3. items' \in Seq(SampleItem) /\ Len(items') = n
    BY <2>1, <2>2
  <2> QED
    BY <2>3 DEF n, Indices
<1>6. \A i \in Indices : /\ items'[i].split = Drawn(i)
                         /\ items'[i].region = items[i].region
                         /\ items'[i].place = items[i].place
  BY <1>1, <1>3 DEF SampleItem
<1>7. ASSUME NEW i \in Indices, NEW j \in Indices, i < j,
             Close(items'[i], items'[j])
      PROVE  Drawn(i) = Drawn(j)
  <2>1. Close(items[i], items[j])
    BY <1>6, <1>7 DEF Close
  <2>2. Linked(items[i], items[j])
    BY <1>1, <2>1 DEF Linked
  <2>3. Joined(i, j)
    BY <1>1, <1>7, <2>2 DEF Joined, Visited
  <2>4. label[i] = label[j]
    BY <1>2, <2>3, JoinedIsConnected DEF Classes
  <2>5. \A k \in Indices : roots[k] = label[k]
    BY <1>1, <1>2 DEF Progress, Indices
  <2>6. Component(i) = Component(j)
    BY <2>4, <2>5 DEF Component
  <2> QED
    BY <2>6 DEF Drawn
<1>8. Shape'
  <2>1. input' \in Inputs /\ parents' \in [Indices -> Indices] /\ right' \in Nat
    BY <1>1 DEF Shape
  <2>2. /\ step' = "check" /\ left' = 1 /\ input'.of = "samples" /\ verdict' = "open"
        /\ Len(items)' \in Nat
    BY <1>1, <1>5
  <2> QED
    BY <1>5, <2>1, <2>2 DEF Shape, LinkingSteps
<1>9. AssignedInv'
  <2>1. ASSUME NEW i \in Indices, NEW j \in Indices
        PROVE  /\ items'[i].split # "unassigned"
               /\ i < j /\ items'[i].split # items'[j].split => ~Close(items'[i], items'[j])
    BY <1>3, <1>6, <1>7, <2>1
  <2>2. \A l, r : Close(l, r)' <=> Close(l, r)
    BY DEF Close
  <2> QED
    BY <1>5, <2>1, <2>2 DEF AssignedInv
<1>10. CheckInv'
  BY <1>1, <1>5 DEF CheckInv, Indices
<1>11. ForestInv' /\ CompareInv' /\ AcceptedNeverLeaks' /\ AssignmentPassesValidation'
  BY <1>1 DEF ForestInv, CompareInv, AcceptedNeverLeaks, AssignmentPassesValidation, LinkingSteps
<1> QED
  BY <1>8, <1>9, <1>10, <1>11

-----------------------------------------------------------------------------
(* The validation.                                                         *)

LEMMA CheckSampleKeeps ==
  ASSUME GInv, CheckSample
  PROVE  GInv'
PROOF
<1> USE DEF GInv
<1>1. CASE Flawed(items[left])
  BY <1>1, Refusal DEF CheckSample
<1>2. CASE ~Flawed(items[left]) /\ Crosses(items[left])
  BY <1>2, Refusal DEF CheckSample
<1>3. CASE ~Flawed(items[left]) /\ ~Crosses(items[left])
  <2> DEFINE s == items[left]
  <2>1. /\ step = "check" /\ step' = "check" /\ left <= Len(items) /\ left' = left + 1
        /\ items' = items /\ input' = input /\ Indices' = Indices
        /\ right' = right /\ parents' = parents /\ verdict' = verdict
        /\ left \in Nat \ {0} /\ Len(items) \in Nat /\ left \in Indices
        /\ seen' = [h \in DOMAIN seen \cup {s.hash} |-> IF h = s.hash THEN s.split ELSE seen[h]]
    BY <1>3 DEF CheckSample, called, forest, Indices, Shape
  <2>2. Shape'
    BY <2>1 DEF Shape, LinkingSteps
  <2>3. ASSUME NEW k \in Indices, k < left + 1
        PROVE  items[k].hash \in DOMAIN seen' /\ seen'[items[k].hash] = items[k].split
    <3>1. CASE k = left
      BY <2>1, <3>1
    <3>2. CASE k < left
      <4>1. items[k].hash \in DOMAIN seen /\ seen[items[k].hash] = items[k].split
        BY <2>1, <3>2 DEF CheckInv
      <4>2. items[k].hash = s.hash => items[k].split = s.split
        BY <1>3, <4>1 DEF Crosses
      <4> QED
        BY <2>1, <4>1, <4>2
    <3> QED
      BY <2>1, <2>3, <3>1, <3>2 DEF Indices
  <2>4. CheckInv'
    BY <2>1, <2>3 DEF CheckInv
  <2>5. AssignedInv'
    BY <2>1 DEF AssignedInv
  <2>6. ForestInv' /\ CompareInv' /\ AcceptedNeverLeaks' /\ AssignmentPassesValidation'
    BY <2>1 DEF ForestInv, CompareInv, AcceptedNeverLeaks, AssignmentPassesValidation,
       LinkingSteps, Shape
  <2> QED
    BY <2>2, <2>4, <2>5, <2>6
<1> QED
  BY <1>1, <1>2, <1>3

LEMMA CheckEndsKeeps ==
  ASSUME GInv, CheckEnds
  PROVE  GInv'
PROOF
<1> USE DEF GInv
<1>1. /\ step = "check" /\ step' = "compare" /\ Len(items) < left /\ left' = 1
      /\ items' = items /\ input' = input /\ Indices' = Indices
      /\ right' = right /\ parents' = parents /\ verdict' = verdict
      /\ left \in Nat /\ Len(items) \in Nat
  BY DEF CheckEnds, called, forest, answer, Indices, Shape
<1>2. Shape'
  BY <1>1 DEF Shape, LinkingSteps
<1>3. \A i, j \in Indices : items[i].hash = items[j].hash => items[i].split = items[j].split
  BY <1>1 DEF CheckInv, Indices
<1>4. CompareInv'
  BY <1>1, <1>3 DEF CompareInv, Indices
<1>5. AssignedInv'
  BY <1>1 DEF AssignedInv
<1>6. ForestInv' /\ CheckInv' /\ AcceptedNeverLeaks' /\ AssignmentPassesValidation'
  BY <1>1 DEF ForestInv, CheckInv, AcceptedNeverLeaks, AssignmentPassesValidation,
     LinkingSteps, Shape
<1> QED
  BY <1>2, <1>4, <1>5, <1>6

(* The first objection is one, so a refused assignment has two samples too *)
(* near each other in different splits, which AssignedInv excludes.        *)
LEMMA CompareKeeps ==
  ASSUME GInv, Compare
  PROVE  GInv'
PROOF
<1> USE DEF GInv
<1>1. /\ step = "compare" /\ left <= Len(items) /\ left \in Nat \ {0} /\ Len(items) \in Nat
      /\ left \in Indices
  BY DEF Compare, Shape, Indices
<1>2. CASE items[left].split = "unassigned"
  <2>1. ~input.assign
    BY <1>1, <1>2 DEF AssignedInv
  <2> QED
    BY <1>2, <2>1, Refusal DEF Compare
<1>3. CASE items[left].split # "unassigned" /\ Objections(left) = {}
  <2>1. /\ step' = "compare" /\ left' = left + 1 /\ items' = items /\ input' = input
        /\ Indices' = Indices /\ right' = right /\ parents' = parents /\ verdict' = verdict
    BY <1>1, <1>3 DEF Compare, called, forest, answer, Indices
  <2>2. Shape'
    BY <1>1, <2>1 DEF Shape, LinkingSteps
  <2>3. \A r \in Indices :
          left < r /\ items[left].split # items[r].split => ~Close(items[left], items[r])
    BY <1>1, <1>3 DEF Objections, Indices
  <2>4. ASSUME NEW k \in Indices, k < left + 1
        PROVE  /\ items[k].split # "unassigned"
               /\ \A r \in Indices :
                    k < r /\ items[k].split # items[r].split => ~Close(items[k], items[r])
    <3>1. CASE k = left
      BY <1>3, <2>3, <3>1
    <3>2. CASE k < left
      BY <1>1, <3>2 DEF CompareInv
    <3> QED
      BY <1>1, <2>4, <3>1, <3>2 DEF Indices
  <2>5. CompareInv'
    <3>1. \A l, r : Close(l, r)' <=> Close(l, r)
      BY DEF Close
    <3> QED
      BY <1>1, <2>1, <2>4, <3>1 DEF CompareInv
  <2>6. AssignedInv'
    BY <1>1, <2>1 DEF AssignedInv
  <2>7. ForestInv' /\ CheckInv' /\ AcceptedNeverLeaks' /\ AssignmentPassesValidation'
    BY <1>1, <2>1 DEF ForestInv, CheckInv, AcceptedNeverLeaks, AssignmentPassesValidation,
       LinkingSteps, Shape
  <2> QED
    BY <2>2, <2>5, <2>6, <2>7
<1>4. CASE items[left].split # "unassigned" /\ Objections(left) # {}
  <2> DEFINE r == CHOOSE x \in Objections(left) : \A y \in Objections(left) : x <= y
             why == IF Unmeasurable(items[left], items[r]) THEN "unmeasurable" ELSE "leak"
  <2>1. Objections(left) \in SUBSET Nat
    BY <1>1 DEF Objections
  <2>2. \E x \in Objections(left) : \A y \in Objections(left) : x <= y
    BY <1>4, <2>1, LeastElement
  <2>3. r \in Objections(left)
    BY <2>2
  <2>4. Refuse(why)
    BY <1>4 DEF Compare
  <2> HIDE DEF r
  <2>5. input.assign => why # "leak"
    BY <1>1, <2>3 DEF Objections, AssignedInv, Indices
  <2>6. why # "accepted" /\ why # "no_split"
    OBVIOUS
  <2> HIDE DEF why
  <2> QED
    BY <2>4, <2>5, <2>6, Refusal
<1> QED
  BY <1>2, <1>3, <1>4

LEMMA CloseIsSymmetric ==
  ASSUME NEW l \in SampleItem, NEW r \in SampleItem
  PROVE  Close(l, r) <=> Close(r, l)
PROOF
<1>1. l.place \in Int /\ r.place \in Int
  BY DEF SampleItem
<1>2. Abs(l.place - r.place) = Abs(r.place - l.place)
  BY <1>1 DEF Abs
<1> QED
  BY <1>2 DEF Close

LEMMA AcceptKeeps ==
  ASSUME GInv, Accept
  PROVE  GInv'
PROOF
<1> USE DEF GInv
<1>1. /\ step = "compare" /\ left > Len(items) /\ step' = "end" /\ verdict' = "accepted"
      /\ items' = items /\ input' = input /\ Indices' = Indices
      /\ right' = right /\ parents' = parents /\ left' = left
      /\ left \in Nat /\ Len(items) \in Nat /\ items \in Seq(SampleItem)
  BY DEF Accept, called, forest, Indices, Shape
<1>2. Shape'
  BY <1>1 DEF Shape, LinkingSteps
<1>3. \A k \in Indices : k < left /\ items[k] \in SampleItem
  BY <1>1 DEF Indices
<1>4. ASSUME NEW i \in Indices, NEW j \in Indices, items[i].split # items[j].split
      PROVE  items[i].hash # items[j].hash /\ ~Close(items[i], items[j])
  <2>1. items[i].hash # items[j].hash
    BY <1>1, <1>4 DEF CompareInv
  <2>2. CASE i < j
    BY <1>1, <1>3, <1>4, <2>1, <2>2 DEF CompareInv
  <2>3. CASE j < i
    <3>1. ~Close(items[j], items[i])
      BY <1>1, <1>3, <1>4, <2>3 DEF CompareInv
    <3> QED
      BY <1>3, <2>1, <3>1, CloseIsSymmetric
  <2>4. i # j
    BY <1>4
  <2> QED
    BY <1>1, <2>2, <2>3, <2>4 DEF Indices
<1>5. ASSUME NEW i \in Indices, NEW j \in Indices, ~Close(items[i], items[j])
      PROVE  /\ items[i].region # items[j].region
             /\ Abs(items[i].place - items[j].place) > Distance
  <2>1. items[i].place \in Int /\ items[j].place \in Int /\ Distance \in Nat
    BY <1>3, GroupingAssumption DEF SampleItem
  <2>2. Abs(items[i].place - items[j].place) \in Int
    BY <2>1 DEF Abs
  <2> QED
    BY <1>5, <2>1, <2>2 DEF Close
<1>6. \A i \in Indices : items[i].split # "unassigned"
  BY <1>1, <1>3 DEF CompareInv
<1>7. AcceptedNeverLeaks'
  <2>1. \A i, j \in Indices :
          /\ items[i].split # "unassigned"
          /\ items[i].split # items[j].split =>
               /\ items[i].hash # items[j].hash
               /\ items[i].region # items[j].region
               /\ Abs(items[i].place - items[j].place) > Distance
    BY <1>4, <1>5, <1>6
  <2>2. \A n : Abs(n)' = Abs(n)
    BY DEF Abs
  <2> QED
    BY <1>1, <2>1, <2>2 DEF AcceptedNeverLeaks
<1>8. /\ ForestInv' /\ AssignedInv' /\ CheckInv' /\ CompareInv'
      /\ AssignmentPassesValidation'
  BY <1>1 DEF ForestInv, AssignedInv, CheckInv, CompareInv, AssignmentPassesValidation,
     LinkingSteps
<1> QED
  BY <1>2, <1>7, <1>8

-----------------------------------------------------------------------------
LEMMA StandingStillKeeps ==
  ASSUME GInv, UNCHANGED gvars
  PROVE  GInv'
PROOF
<1> USE DEF GInv
<1>1. UNCHANGED <<input, items, step, left, right, parents, cursor, found, roots, seen, groups, verdict>>
  BY DEF gvars, called, forest, answer
<1>2. Indices' = Indices
  BY <1>1 DEF Indices
<1>3. ForestInv'
  <2> SUFFICES ASSUME step \in LinkingSteps PROVE ForestInv'
    BY <1>1 DEF ForestInv
  <2>1. PICK label \in [Indices -> Indices], height \in [Indices -> Nat] :
          Labels(label, height) /\ Classes(label) /\ Progress(label)
    BY DEF ForestInv
  <2>2. Labels(label, height)' /\ Progress(label)'
    BY <1>1, <1>2, <2>1 DEF Labels, Progress
  <2>3. Classes(label)'
    <3>1. \A i, j \in Indices : Visited(i, j)' <=> Visited(i, j)
      BY <1>1 DEF Visited
    <3> QED
      BY <1>1, <2>1, <3>1, SameClasses
  <2> QED
    BY <1>2, <2>1, <2>2, <2>3 DEF ForestInv
<1>4. Shape'
  <2>1. Linked(items[left], items[right])' <=> Linked(items[left], items[right])
    BY <1>1 DEF Linked
  <2> QED
    BY <1>1, <1>2, <2>1 DEF Shape
<1>5. AssignedInv' /\ CheckInv' /\ CompareInv'
  BY <1>1, <1>2 DEF AssignedInv, CheckInv, CompareInv
<1>6. AcceptedNeverLeaks' /\ AssignmentPassesValidation'
  BY <1>1, <1>2 DEF AcceptedNeverLeaks, AssignmentPassesValidation
<1> QED
  BY <1>3, <1>4, <1>5, <1>6

LEMMA GroupingNextKeeps == GInv /\ [GroupingNext]_gvars => GInv'
PROOF
<1> SUFFICES ASSUME GInv, [GroupingNext]_gvars PROVE GInv'
  OBVIOUS
<1>1. CASE RefuseComplaints
  BY <1>1, Refusal DEF RefuseComplaints
<1>2. CASE LinkFails
  BY <1>2, Refusal DEF LinkFails
<1>3. CASE Link  BY <1>3, LinkKeeps
<1>4. CASE Halve  BY <1>4, HalveKeeps
<1>5. CASE LeftFound  BY <1>5, LeftFoundKeeps
<1>6. CASE Unite  BY <1>6, UniteKeeps
<1>7. CASE LinkEnds  BY <1>7, LinkEndsKeeps
<1>8. CASE RootFound  BY <1>8, RootFoundKeeps
<1>9. CASE CollectGroups  BY <1>9, CollectGroupsKeeps
<1>10. CASE AssignSplits  BY <1>10, AssignSplitsKeeps
<1>11. CASE RefuseEmpty
  BY <1>11, Refusal DEF RefuseEmpty
<1>12. CASE CheckSample  BY <1>12, CheckSampleKeeps
<1>13. CASE CheckEnds  BY <1>13, CheckEndsKeeps
<1>14. CASE Compare  BY <1>14, CompareKeeps
<1>15. CASE Accept  BY <1>15, AcceptKeeps
<1>16. CASE UNCHANGED gvars  BY <1>16, StandingStillKeeps
<1> QED
  BY <1>1, <1>2, <1>3, <1>4, <1>5, <1>6, <1>7, <1>8, <1>9, <1>10, <1>11, <1>12, <1>13,
     <1>14, <1>15, <1>16 DEF GroupingNext

LEMMA GroupingInvariance == GroupingSpec => []GInv
PROOF
  BY GroupingInitEstablishes, GroupingNextKeeps, PTL DEF GroupingSpec

(* Union compares the same roots for two items exactly when a chain of     *)
(* linked pairs joins them, and so are the groups that are collected.      *)
THEOREM GroupsAreComponents == GroupingSpec => []RootsAreComponents
PROOF
<1>1. ASSUME GInv PROVE RootsAreComponents
  <2>1. ASSUME step = "find_right", parents[cursor] = cursor
        PROVE  found = cursor <=> Connected(left, right)
    <3>1. PICK label \in [Indices -> Indices], height \in [Indices -> Nat] :
            Labels(label, height) /\ Classes(label) /\ Progress(label)
      BY <1>1, <2>1 DEF GInv, ForestInv, LinkingSteps
    <3>2. left \in Indices /\ right \in Indices
      BY <1>1, <2>1 DEF GInv, Shape, Indices
    <3>3. label[right] = cursor /\ label[left] = found
      BY <2>1, <3>1 DEF Progress, Labels
    <3> QED
      BY <3>1, <3>2, <3>3 DEF Classes
  <2>2. ASSUME step = "collect", NEW i \in 1..Len(roots), NEW j \in 1..Len(roots)
        PROVE  roots[i] = roots[j] <=> Connected(i, j)
    <3>1. PICK label \in [Indices -> Indices], height \in [Indices -> Nat] :
            Labels(label, height) /\ Classes(label) /\ Progress(label)
      BY <1>1, <2>2 DEF GInv, ForestInv, LinkingSteps
    <3>2. i \in Indices /\ j \in Indices
      BY <1>1, <2>2, <3>1 DEF GInv, Shape, Progress, Indices
    <3>3. roots[i] = label[i] /\ roots[j] = label[j]
      BY <2>2, <3>1 DEF Progress
    <3> QED
      BY <3>1, <3>2, <3>3 DEF Classes
  <2> QED
    BY <2>1, <2>2 DEF RootsAreComponents
<1> QED
  BY <1>1, GroupingInvariance, PTL

(* No accepted dataset has one image, one region or two neighbouring       *)
(* places in two splits.                                                   *)
THEOREM AcceptedIsTight == GroupingSpec => []AcceptedNeverLeaks
PROOF
<1>1. GInv => AcceptedNeverLeaks
  BY DEF GInv
<1> QED
  BY <1>1, GroupingInvariance, PTL

(* An assignment is never refused for its places or for a missing split.   *)
THEOREM AssignmentsPass == GroupingSpec => []AssignmentPassesValidation
PROOF
<1>1. GInv => AssignmentPassesValidation
  BY DEF GInv
<1> QED
  BY <1>1, GroupingInvariance, PTL

-----------------------------------------------------------------------------
(* The quarantine.                                                         *)
USE DatasetAssumption

LoopKinds == {"wards", "parcels", "approved_footprints", "approved_buildings",
              "permits", "complaints", "inspection_cases"}

LEMMA PassesAreLoops ==
  /\ \A i \in 1..7 : Passes[i] \in LoopKinds
  /\ \A k \in LoopKinds : \E i \in 1..7 : Passes[i] = k
PROOF
<1>1. \A i \in 1..7 : Passes[i] \in LoopKinds
  BY DEF Passes, LoopKinds
<1>2. /\ Passes[1] = "wards" /\ Passes[2] = "parcels" /\ Passes[3] = "approved_footprints"
      /\ Passes[4] = "approved_buildings" /\ Passes[5] = "permits"
      /\ Passes[6] = "complaints" /\ Passes[7] = "inspection_cases"
  BY DEF Passes
<1>3. QED  BY <1>1, <1>2 DEF LoopKinds

(* The contract loops reject exactly what does not stand by itself.        *)
LEMMA FlawsAreUnclean ==
  ASSUME WellFormed(data), NEW r \in Records
  PROVE  Flaw(r) = "none" <=> Clean(r)
PROOF
<1>1. CASE Kind[r] = "permits"
  <2>1. data[r].from \in Int /\ data[r].until \in Int /\ data[r].status \in {"active", "expired"}
    BY <1>1 DEF WellFormed, Of
  <2>2. Flaw(r) = PermitFlaw(r)
    BY <1>1 DEF Flaw
  <2>3. QED  BY <1>1, <2>1, <2>2 DEF PermitFlaw, Clean
<1>2. CASE Kind[r] = "imagery_assets"
  <2>1. data[r].captured \in Int /\ data[r].ingested \in Int
    BY <1>2 DEF WellFormed, Of
  <2>2. Flaw(r) = AssetFlaw(r)
    BY <1>2 DEF Flaw
  <2>3. Duplicate(r) <=> ~ \A b \in Of("imagery_assets") :
                              data[b].hash = data[r].hash => Order[r] <= Order[b]
    BY DEF Duplicate, Of
  <2>4. QED  BY <1>2, <2>1, <2>2, <2>3 DEF AssetFlaw, Clean
<1>3. CASE Kind[r] \in {"inspectors", "approved_buildings"}
  BY <1>3 DEF Flaw, Clean
<1>4. CASE Kind[r] \notin {"permits", "imagery_assets", "inspectors", "approved_buildings"}
  BY <1>4 DEF Flaw, Clean
<1>5. QED  BY <1>1, <1>2, <1>3, <1>4

(* No check rejects an inspector.                                          *)
InspectorsInv == \A r \in Records : Kind[r] = "inspectors" => r \in Kept

(* A pass rejects exactly what disagrees with the records kept so far.     *)
LEMMA FaultsAreDisagreements ==
  ASSUME WellFormed(data), InspectorsInv, NEW r \in Records
  PROVE  RelationFault(r) = "none" <=> Agrees(r, Kept)
PROOF
<1>1. \A x, k : Found(x, k) <=> x \in Kept /\ Kind[x] = k
  BY DEF Found, Kept, Of
<1>2. CASE Kind[r] = "wards"
  BY <1>1, <1>2 DEF RelationFault, Agrees, Within, WellFormed, Of
<1>3. CASE Kind[r] = "parcels"
  BY <1>1, <1>3 DEF RelationFault, Agrees, Within, WellFormed, Of
<1>4. CASE Kind[r] = "complaints"
  BY <1>1, <1>4 DEF RelationFault, Agrees, Within, WellFormed, Of
<1>5. CASE Kind[r] = "approved_footprints"
  BY <1>1, <1>5 DEF RelationFault, FootprintFault, Agrees, Within, WellFormed, Of
<1>6. CASE Kind[r] = "approved_buildings"
  BY <1>1, <1>6 DEF RelationFault, BuildingFault, Agrees
<1>7. CASE Kind[r] = "permits"
  BY <1>1, <1>7 DEF RelationFault, PermitFault, Agrees
<1>8. CASE Kind[r] = "inspection_cases"
  <2>1. RelationFault(r) = CaseFault(r)
    BY <1>8 DEF RelationFault
  <2>2. \A x : x \in Of("inspectors") <=> x \in Kept /\ Kind[x] = "inspectors"
    BY DEF InspectorsInv, Of, Kept
  <2>3. QED  BY <1>1, <1>8, <2>1, <2>2 DEF CaseFault, Agrees
<1>9. CASE Kind[r] \notin LoopKinds
  BY <1>9 DEF RelationFault, Agrees, LoopKinds
<1>10. QED  BY <1>2, <1>3, <1>4, <1>5, <1>6, <1>7, <1>8, <1>9 DEF LoopKinds

(* More records never break an agreement.                                  *)
LEMMA AgreementGrows ==
  ASSUME NEW S, NEW T, S \subseteq T, NEW r \in Records, Agrees(r, S)
  PROVE  Agrees(r, T)
PROOF
<1>1. CASE Kind[r] \in {"wards", "parcels", "complaints", "approved_footprints"}
  BY <1>1 DEF Agrees
<1>2. CASE Kind[r] \in {"approved_buildings", "permits"}
  BY <1>2 DEF Agrees
<1>3. CASE Kind[r] = "inspection_cases"
  BY <1>3 DEF Agrees
<1>4. CASE Kind[r] \notin LoopKinds
  BY <1>4 DEF Agrees, LoopKinds
<1>5. QED  BY <1>1, <1>2, <1>3, <1>4 DEF LoopKinds

-----------------------------------------------------------------------------
(* The inductive invariant: after the contract loops nothing kept is       *)
(* flawed; in a round that has rejected nothing yet, the loops behind it   *)
(* hold; and no consistent set has lost a record.                          *)

CleanInv == pass # 0 => \A r \in Kept : Clean(r)

RoundInv ==
  /\ pass = 9 => ~changed
  /\ ~changed => \A i \in 1..7 : i < pass =>
       \A r \in Kept : Kind[r] = Passes[i] => Agrees(r, Kept)

UntouchedInv == \A S \in SUBSET Records : Consistent(S) => S \subseteq Kept

IInv == TypeOK /\ InspectorsInv /\ CleanInv /\ RoundInv /\ UntouchedInv

LEMMA InitEstablishes == Init => IInv
PROOF
<1>1. SUFFICES ASSUME Init PROVE IInv
  OBVIOUS
<1>2. Rejected = {}
  BY <1>1 DEF Init, Rejected
<1>3. TypeOK
  BY <1>1, <1>2 DEF Init, TypeOK
<1>4. InspectorsInv /\ CleanInv /\ RoundInv /\ UntouchedInv
  BY <1>1, <1>2 DEF Init, InspectorsInv, CleanInv, RoundInv, UntouchedInv, Kept, Consistent
<1>5. QED  BY <1>3, <1>4 DEF IInv

(* reject only adds, and a rejected record stays rejected.                 *)
LEMMA RejectGrows ==
  ASSUME NEW reasons, Reject(reasons)
  PROVE  Rejected' = Rejected \cup DOMAIN reasons
PROOF
BY DEF Reject, Rejected

(* What rejecting a set of records does to the invariant, given that none  *)
(* of them belongs to a consistent set.                                    *)
LEMMA RejectKeeps ==
  ASSUME IInv, data' = data, NEW hit \in SUBSET Records, Rejected' = Rejected \cup hit,
         \A r \in hit : Kind[r] # "inspectors",
         \A S \in SUBSET Records : Consistent(S) => S \cap hit = {}
  PROVE  /\ WellFormed(data)' /\ Rejected' \subseteq Records
         /\ Kept' = Kept \ hit
         /\ InspectorsInv' /\ UntouchedInv'
PROOF
<1>1. WellFormed(data)' /\ Rejected' \subseteq Records
  BY DEF IInv, TypeOK, WellFormed
<1>2. Kept' = Kept \ hit
  BY DEF Kept
<1>3. InspectorsInv'
  BY <1>2 DEF IInv, InspectorsInv
<1>4. ASSUME NEW S \in SUBSET Records, Consistent(S)' PROVE S \subseteq Kept'
  <2>1. Consistent(S)
    BY <1>4 DEF Consistent, Clean, Agrees
  <2>2. S \subseteq Kept
    BY <2>1 DEF IInv, UntouchedInv
  <2>3. QED  BY <1>2, <2>1, <2>2
<1>5. QED  BY <1>1, <1>2, <1>3, <1>4 DEF UntouchedInv

LEMMA ContractKeeps == IInv /\ Contract => IInv'
PROOF
<1>1. SUFFICES ASSUME IInv, Contract PROVE IInv'
  OBVIOUS
<1> DEFINE hit == {r \in Records : Flaw(r) # "none"}
<1>2. Rejected' = Rejected \cup hit /\ data' = data /\ pass' = 1 /\ changed' = FALSE
  BY <1>1, RejectGrows DEF Contract
<1>3. \A r \in Records : r \in hit <=> ~Clean(r)
  BY <1>1, FlawsAreUnclean DEF IInv, TypeOK
<1>4. \A r \in hit : Kind[r] # "inspectors"
  BY DEF Flaw
<1>5. \A S \in SUBSET Records : Consistent(S) => S \cap hit = {}
  BY <1>3 DEF Consistent
<1> HIDE DEF hit
<1>6. /\ WellFormed(data)' /\ Rejected' \subseteq Records /\ Kept' = Kept \ hit
      /\ InspectorsInv' /\ UntouchedInv'
  BY <1>1, <1>2, <1>4, <1>5, RejectKeeps DEF hit
<1>7. CleanInv'
  <2>1. \A r \in Records : Clean(r) <=> Clean(r)'
    BY <1>2 DEF Clean
  <2>2. QED  BY <1>3, <1>6, <2>1 DEF CleanInv, Kept
<1>8. RoundInv'
  BY <1>2 DEF RoundInv
<1>9. TypeOK'
  <2>1. pass' \in 0..9
    BY <1>2
  <2>2. changed' \in BOOLEAN
    BY <1>2
  <2>3. QED  BY <1>6, <2>1, <2>2 DEF TypeOK
<1>10. QED  BY <1>6, <1>7, <1>8, <1>9 DEF IInv

LEMMA RelationPassKeeps == IInv /\ RelationPass => IInv'
PROOF
<1>1. SUFFICES ASSUME IInv, RelationPass PROVE IInv'
  OBVIOUS
<1> DEFINE hit == Faulty(Passes[pass])
<1>2. /\ Rejected' = Rejected \cup hit /\ data' = data /\ pass \in 1..7 /\ pass' = pass + 1
      /\ changed' = (changed \/ ~(hit \subseteq Rejected))
  BY <1>1, RejectGrows DEF RelationPass
<1>3. \A r \in hit : r \in Records /\ Kind[r] = Passes[pass]
  BY DEF Faulty, Of
<1>4. \A r \in Records : Kind[r] = Passes[pass] => (r \in hit <=> ~Agrees(r, Kept))
  BY <1>1, FaultsAreDisagreements DEF IInv, TypeOK, Faulty, Of
<1> HIDE DEF hit
<1>5. \A r \in hit : Kind[r] # "inspectors"
  BY <1>2, <1>3, PassesAreLoops DEF LoopKinds
<1>6. ASSUME NEW S \in SUBSET Records, Consistent(S) PROVE S \cap hit = {}
  <2>1. S \subseteq Kept
    BY <1>1, <1>6 DEF IInv, UntouchedInv
  <2>2. \A r \in S : Agrees(r, Kept)
    BY <1>6, <2>1, AgreementGrows DEF Consistent
  <2>3. QED  BY <1>3, <1>4, <2>2
<1>7. /\ WellFormed(data)' /\ Rejected' \subseteq Records /\ Kept' = Kept \ hit
      /\ InspectorsInv' /\ UntouchedInv'
  <2>1. hit \in SUBSET Records
    BY <1>3
  <2>2. QED  BY <1>1, <1>2, <1>5, <1>6, <2>1, RejectKeeps
<1>8. CleanInv'
  <2>1. \A r \in Records : Clean(r) <=> Clean(r)'
    BY <1>2 DEF Clean
  <2>2. QED  BY <1>1, <1>2, <1>7, <2>1 DEF IInv, CleanInv, Kept
<1>9. RoundInv'
  <2>1. SUFFICES ASSUME ~changed', NEW i \in 1..7, i < pass', NEW r \in Kept', Kind[r] = Passes[i]
                 PROVE  Agrees(r, Kept)'
    BY <1>2 DEF RoundInv
  <2>2. ~changed /\ Kept' = Kept
    BY <1>2, <1>7, <2>1 DEF Kept
  <2>3. Agrees(r, Kept)
    <3>1. CASE i < pass
      BY <1>1, <2>1, <2>2, <3>1 DEF IInv, RoundInv
    <3>2. CASE i = pass
      BY <1>2, <1>4, <1>7, <2>1, <2>2, <3>2 DEF Kept
    <3>3. QED  BY <1>2, <2>1, <3>1, <3>2
  <2>4. QED  BY <1>2, <2>2, <2>3 DEF Agrees
<1>10. TypeOK'
  BY <1>1, <1>2, <1>7 DEF IInv, TypeOK
<1>11. QED  BY <1>7, <1>8, <1>9, <1>10 DEF IInv

(* The other steps leave the dataset and the quarantine alone.             *)
LEMMA StandingStill ==
  ASSUME IInv, data' = data, quarantine' = quarantine
  PROVE  /\ WellFormed(data)' /\ Rejected' \subseteq Records
         /\ InspectorsInv' /\ UntouchedInv'
         /\ \A r \in Records : (Clean(r) <=> Clean(r)') /\ (Agrees(r, Kept) <=> Agrees(r, Kept)')
         /\ Kept' = Kept
PROOF
<1>1. Kept' = Kept /\ Rejected' = Rejected
  BY DEF Kept, Rejected
<1>2. \A r \in Records, S \in SUBSET Records :
        (Clean(r) <=> Clean(r)') /\ (Agrees(r, S) <=> Agrees(r, S)')
  BY DEF Clean, Agrees
<1>3. \A r \in Records : Agrees(r, Kept) <=> Agrees(r, Kept)'
  BY <1>1 DEF Agrees
<1>4. UntouchedInv'
  BY <1>1, <1>2 DEF IInv, UntouchedInv, Consistent
<1>5. QED  BY <1>1, <1>2, <1>3, <1>4 DEF IInv, TypeOK, WellFormed, InspectorsInv

LEMMA NextKeeps == IInv /\ [Next]_vars => IInv'
PROOF
<1>1. SUFFICES ASSUME IInv, [Next]_vars PROVE IInv'
  OBVIOUS
<1>2. CASE Contract
  BY <1>1, <1>2, ContractKeeps
<1>3. CASE RelationPass
  BY <1>1, <1>3, RelationPassKeeps
<1>4. CASE NextRound
  <2>1. pass' = 1 /\ changed' = FALSE /\ data' = data /\ quarantine' = quarantine /\ pass = 8
    BY <1>4 DEF NextRound
  <2>2. TypeOK'
    <3>1. pass' \in 0..9
      BY <1>1, <2>1 DEF IInv, TypeOK
    <3>2. changed' \in BOOLEAN
      BY <1>1, <2>1 DEF IInv, TypeOK
    <3>3. QED  BY <1>1, <2>1, <3>1, <3>2, StandingStill DEF TypeOK
  <2>3. CleanInv'
    <3>1. pass # 0
      BY <2>1
    <3>2. QED  BY <1>1, <2>1, <3>1, StandingStill DEF IInv, CleanInv, Kept
  <2>4. RoundInv'
    BY <2>1 DEF RoundInv
  <2>5. QED  BY <1>1, <2>1, <2>2, <2>3, <2>4, StandingStill DEF IInv
<1>5. CASE Return
  <2>1. pass' = 9 /\ changed' = changed /\ ~changed /\ data' = data /\ quarantine' = quarantine
        /\ pass = 8
    BY <1>5 DEF Return
  <2>2. TypeOK'
    <3>1. pass' \in 0..9
      BY <1>1, <2>1 DEF IInv, TypeOK
    <3>2. changed' \in BOOLEAN
      BY <1>1, <2>1 DEF IInv, TypeOK
    <3>3. QED  BY <1>1, <2>1, <3>1, <3>2, StandingStill DEF TypeOK
  <2>3. CleanInv'
    <3>1. pass # 0
      BY <2>1
    <3>2. QED  BY <1>1, <2>1, <3>1, StandingStill DEF IInv, CleanInv, Kept
  <2>4. RoundInv'
    <3>1. \A i \in 1..7 : i < pass
      BY <2>1
    <3>2. \A i \in 1..7 : \A r \in Kept : Kind[r] = Passes[i] => Agrees(r, Kept)
      BY <1>1, <2>1, <3>1 DEF IInv, RoundInv
    <3>3. \A i \in 1..7 : \A r \in Kept' : Kind[r] = Passes[i] => Agrees(r, Kept)'
      BY <1>1, <2>1, <3>2, StandingStill DEF Kept
    <3>4. QED  BY <2>1, <3>3 DEF RoundInv
  <2>5. QED  BY <1>1, <2>1, <2>2, <2>3, <2>4, StandingStill DEF IInv
<1>6. CASE UNCHANGED vars
  <2>1. pass' = pass /\ changed' = changed /\ data' = data /\ quarantine' = quarantine
    BY <1>6 DEF vars
  <2>2. TypeOK' /\ CleanInv' /\ RoundInv'
    BY <1>1, <2>1, StandingStill DEF IInv, TypeOK, CleanInv, RoundInv, Kept
  <2>3. QED  BY <1>1, <2>1, <2>2, StandingStill DEF IInv
<1>7. QED  BY <1>1, <1>2, <1>3, <1>4, <1>5, <1>6 DEF Next

LEMMA Invariance == Spec => []IInv
PROOF
BY InitEstablishes, NextKeeps, PTL DEF Spec

-----------------------------------------------------------------------------
(* What validate_dataset returns is consistent, whatever was submitted.    *)
THEOREM ReturnedDatasetsAreConsistent == Spec => []KeptIsConsistent
PROOF
<1>1. IInv => KeptIsConsistent
  <2>1. SUFFICES ASSUME IInv, pass = 9, NEW r \in Kept PROVE Clean(r) /\ Agrees(r, Kept)
    BY DEF KeptIsConsistent, Consistent
  <2>2. Clean(r) /\ r \in Records
    BY <2>1 DEF IInv, CleanInv, Kept
  <2>3. CASE Kind[r] \in LoopKinds
    <3>1. PICK i \in 1..7 : Passes[i] = Kind[r]
      BY <2>3, PassesAreLoops
    <3>2. QED  BY <2>1, <2>2, <3>1 DEF IInv, RoundInv
  <2>4. CASE Kind[r] \notin LoopKinds
    BY <2>2, <2>4 DEF Agrees, LoopKinds
  <2>5. QED  BY <2>2, <2>3, <2>4
<1>2. QED  BY <1>1, Invariance, PTL

(* No set of quarantined records could have stayed.                        *)
THEOREM QuarantineIsNecessary == Spec => []NothingLostNeedlessly
PROOF
<1>1. IInv => NothingLostNeedlessly
  <2>1. SUFFICES ASSUME IInv, NEW X \in SUBSET Rejected, X # {} PROVE ~Consistent(Kept \cup X)
    BY DEF NothingLostNeedlessly
  <2>2. Kept \cup X \in SUBSET Records
    BY <2>1 DEF IInv, TypeOK, Kept
  <2>3. ~(Kept \cup X \subseteq Kept)
    BY <2>1 DEF Kept
  <2>4. QED  BY <2>1, <2>2, <2>3 DEF IInv, UntouchedInv
<1>2. QED  BY <1>1, Invariance, PTL
=============================================================================
