------------------------------ MODULE Grouping ------------------------------
(***************************************************************************)
(* Three functions of the code merge items that belong together with the   *)
(* same union-find loop: group_duplicate_complaints (risk/complaints.py)   *)
(* and the two assign_geographic_splits (segmentation/dataset.py for tiles,*)
(* change_detection/dataset.py for image pairs).  The samples then pass    *)
(* the validation of their dataset, whether their splits were assigned or  *)
(* came with them.                                                         *)
(*                                                                         *)
(* Places and times are numbers on a line: the code compares distances     *)
(* with a limit.  The draw of a sample is the split that the hash of the   *)
(* seed and its id selects.  Names are numbers: a text is compared by how  *)
(* far apart two numbers are, everything else by equality or order.        *)
(***************************************************************************)
EXTENDS Integers, Sequences, FiniteSets

CONSTANTS
  Inputs,        \* [of: "complaints" | "samples", assign: BOOLEAN, items: sequence]
  Distance,      \* config.proximity_distance
  Window,        \* config.time_window_days
  Reach,         \* config.spatial_distance_metres
  Likeness       \* config.text_similarity_threshold, perceptual_hash_max_distance

Splits == {"train", "validation", "test", "unassigned"}

\* The fields of Complaint and of SampleMetadata that the code looks at
ComplaintItem == [id: Nat, parcel: Nat, received: Int, place: Int,
                  text: Nat, media: Nat, picture: Nat, projected: BOOLEAN]
SampleItem == [id: Nat, region: Nat, place: Int, hash: Nat, split: Splits,
               draw: Splits \ {"unassigned"}, projected: BOOLEAN, flawed: BOOLEAN]

ASSUME GroupingAssumption ==
  /\ {Distance, Window, Reach, Likeness} \subseteq Nat
  /\ \A x \in Inputs :
       \/ x.of = "complaints" /\ x.assign = FALSE /\ x.items \in Seq(ComplaintItem)
       \/ x.of = "samples" /\ x.assign \in BOOLEAN /\ x.items \in Seq(SampleItem)

VARIABLES
  input,      \* what was called, and with which items
  items,      \* the items; assignment replaces their split
  step,       \* "link", "find_left", "find_right", "collect", "check", "compare", "end"
  left, right,   \* loop indices
  parents,    \* the union-find forest
  cursor,     \* the index of the find in progress
  found,      \* left_root, once known
  roots,      \* what find returned for each item, after the double loop
  seen,       \* hash -> split of the last sample with it
  groups,     \* the complaint groups
  verdict     \* "open", "accepted", or why the dataset was refused

forest == <<parents, cursor, found, roots>>
called == <<input, items>>
answer == <<seen, groups, verdict>>
gvars == <<called, step, left, right, forest, answer>>

Indices == 1..Len(items)
Abs(n) == IF n < 0 THEN -n ELSE n

-----------------------------------------------------------------------------
(* _duplicate_signals                                                      *)
Beside(l, r) == l.parcel = r.parcel /\ Abs(l.received - r.received) <= Window

Duplicates(l, r) ==
  /\ Beside(l, r)
  /\ Abs(l.place - r.place) <= Reach
  /\ \/ l.text # 0 /\ r.text # 0 /\ Abs(l.text - r.text) <= Likeness
     \/ l.media # 0 /\ l.media = r.media
     \/ l.picture # 0 /\ r.picture # 0 /\ Abs(l.picture - r.picture) <= Likeness

(* A distance that must be measured in a CRS that is not projected is an   *)
(* error: of complaints always, of samples by _nearby, after the regions.  *)
FarApart(l, r) == l.region # r.region /\ l.place # r.place /\ Distance > 0

Unmeasurable(l, r) ==
  /\ ~l.projected
  /\ IF input.of = "complaints" THEN Beside(l, r) ELSE FarApart(l, r)

Close(l, r) == l.region = r.region \/ Abs(l.place - r.place) <= Distance

Linked(l, r) == IF input.of = "complaints" THEN Duplicates(l, r) ELSE Close(l, r)

Component(i) == {j \in Indices : roots[j] = roots[i]}

-----------------------------------------------------------------------------
GroupingInit ==
  /\ input \in Inputs
  /\ items = input.items
  /\ step = IF input.assign \/ input.of = "complaints" THEN "link" ELSE "check"
  /\ left = 1
  /\ right = IF step = "link" THEN 2 ELSE 0
  /\ parents = [i \in 1..Len(items) |-> i]
  /\ cursor = 0 /\ found = 0
  /\ roots = <<>>
  /\ seen = [h \in {} |-> "unassigned"]
  /\ groups = {}
  /\ verdict = "open"

Refuse(why) ==
  /\ step' = "end"
  /\ verdict' = why
  /\ UNCHANGED <<called, left, right, forest, seen, groups>>

RepeatedIds == \E i, j \in Indices : i # j /\ items[i].id = items[j].id

(* The complaints must have distinct identifiers                           *)
RefuseComplaints ==
  /\ step = "link" /\ left = 1 /\ right = 2
  /\ input.of = "complaints" /\ RepeatedIds
  /\ Refuse("repeated_ids")

(* The double loop over left < right: a linked pair starts union, whose    *)
(* two calls of find follow parents from the left and then the right item. *)
NextPair ==
  /\ left' = IF right < Len(items) THEN left ELSE left + 1
  /\ right' = IF right < Len(items) THEN right + 1 ELSE left + 2

Measured ==
  /\ step = "link"
  /\ ~(input.of = "complaints" /\ RepeatedIds)
  /\ left < Len(items)

LinkFails ==
  /\ Measured
  /\ Unmeasurable(items[left], items[right])
  /\ Refuse("unmeasurable")

Link ==
  /\ Measured
  /\ ~ Unmeasurable(items[left], items[right])
  /\ IF Linked(items[left], items[right])
     THEN step' = "find_left" /\ cursor' = left /\ UNCHANGED <<left, right>>
     ELSE NextPair /\ UNCHANGED <<step, cursor>>
  /\ UNCHANGED <<called, parents, found, roots, answer>>

Finding ==
  \/ step \in {"find_left", "find_right"}
  \/ step = "collect" /\ left <= Len(items)

\* The loop of find, with path halving
Halve ==
  /\ Finding /\ parents[cursor] # cursor
  /\ parents' = [parents EXCEPT ![cursor] = parents[parents[cursor]]]
  /\ cursor' = parents[parents[cursor]]
  /\ UNCHANGED <<called, step, left, right, found, roots, answer>>

LeftFound ==
  /\ step = "find_left" /\ parents[cursor] = cursor
  /\ found' = cursor
  /\ step' = "find_right"
  /\ cursor' = right
  /\ UNCHANGED <<called, left, right, parents, roots, answer>>

\* Fault: the item itself is hung under the other root, not its root.
UniteItem ==
  /\ step = "find_right" /\ parents[cursor] = cursor
  /\ parents' = IF found = cursor THEN parents ELSE [parents EXCEPT ![right] = found]
  /\ step' = "link"
  /\ NextPair
  /\ UNCHANGED <<called, cursor, found, roots, answer>>

Unite ==
  /\ step = "find_right" /\ parents[cursor] = cursor
  /\ parents' = IF found = cursor THEN parents ELSE [parents EXCEPT ![cursor] = found]
  /\ step' = "link"
  /\ NextPair
  /\ UNCHANGED <<called, cursor, found, roots, answer>>

LinkEnds ==
  /\ step = "link"
  /\ left >= Len(items)
  /\ step' = "collect"
  /\ left' = 1 /\ cursor' = 1
  /\ UNCHANGED <<called, right, parents, found, roots, answer>>

(* Another turn over the items finds the root of each.                     *)
RootFound ==
  /\ step = "collect" /\ left <= Len(items) /\ parents[cursor] = cursor
  /\ roots' = Append(roots, cursor)
  /\ left' = left + 1 /\ cursor' = left + 1
  /\ UNCHANGED <<called, step, right, parents, found, answer>>

Collected == step = "collect" /\ left > Len(items)

(* Complaints of a component, the earliest is its representative           *)
Earlier(i, j) ==
  \/ items[i].received < items[j].received
  \/ items[i].received = items[j].received /\ items[i].id < items[j].id

CollectGroups ==
  /\ Collected /\ input.of = "complaints"
  /\ groups' = {[members |-> {items[j].id : j \in Component(i)},
                 representative |->
                   items[CHOOSE j \in Component(i) :
                           \A k \in Component(i) \ {j} : Earlier(j, k)].id] : i \in Indices}
  /\ step' = "end"
  /\ UNCHANGED <<called, left, right, forest, seen, verdict>>

(* Fault: every sample draws for itself.                                   *)
DrawnAlone(i) == items[i].draw

(* The draw of the smallest id of the component decides for all of it      *)
Drawn(i) ==
  LET first == CHOOSE j \in Component(i) :
                 \A k \in Component(i) : items[j].id <= items[k].id
  IN  items[first].draw

AssignSplits ==
  /\ Collected /\ input.of = "samples"
  /\ items' = [i \in Indices |-> [items[i] EXCEPT !.split = Drawn(i)]]
  /\ step' = "check"
  /\ left' = 1
  /\ UNCHANGED <<input, right, forest, answer>>

-----------------------------------------------------------------------------
(* validate_dataset and validate_change_dataset                            *)

RefuseEmpty ==
  /\ step = "check"
  /\ Len(items) = 0
  /\ Refuse("empty")

(* Fault: the split of a hash is never remembered.                         *)
CheckSampleUnseen ==
  LET s == items[left] IN
  /\ step = "check" /\ left <= Len(items)
  /\ IF s.flawed THEN Refuse("flawed")
     ELSE /\ left' = left + 1
          /\ UNCHANGED <<called, step, right, forest, answer>>

(* One sample by itself: shapes, types, labels, its own hash.              *)
Flawed(s) == s.flawed

(* Its split against the split of the last sample with the same hash.      *)
Crosses(s) == s.hash \in DOMAIN seen /\ seen[s.hash] # s.split

CheckSample ==
  LET s == items[left] IN
  /\ step = "check" /\ left <= Len(items)
  /\ IF Flawed(s) THEN Refuse("flawed")
     ELSE IF Crosses(s) THEN Refuse("duplicate_crosses")
     ELSE /\ seen' = [h \in DOMAIN seen \cup {s.hash} |-> IF h = s.hash THEN s.split ELSE seen[h]]
          /\ left' = left + 1
          /\ UNCHANGED <<called, step, right, forest, groups, verdict>>

CheckEnds ==
  /\ step = "check" /\ 0 < Len(items) /\ Len(items) < left
  /\ step' = "compare"
  /\ left' = 1
  /\ UNCHANGED <<called, right, forest, answer>>

(* validate_geographic_splits, one turn of its outer loop                  *)
Objections(l) == {r \in (l + 1)..Len(items) :
                    /\ items[r].split # items[l].split
                    /\ (Unmeasurable(items[l], items[r]) \/ Close(items[l], items[r]))}

Compare ==
  /\ step = "compare" /\ left <= Len(items)
  /\ IF items[left].split = "unassigned" THEN Refuse("no_split")
     ELSE IF Objections(left) = {}
     THEN /\ left' = left + 1
          /\ UNCHANGED <<called, step, right, forest, answer>>
     ELSE LET r == CHOOSE x \in Objections(left) : \A y \in Objections(left) : x <= y IN
          Refuse(IF Unmeasurable(items[left], items[r]) THEN "unmeasurable" ELSE "leak")

Accept ==
  /\ step = "compare" /\ left > Len(items)
  /\ step' = "end"
  /\ verdict' = "accepted"
  /\ UNCHANGED <<called, left, right, forest, seen, groups>>

GroupingNext ==
  \/ RefuseComplaints \/ LinkFails \/ Link \/ Halve \/ LeftFound \/ Unite
  \/ LinkEnds \/ RootFound \/ CollectGroups \/ AssignSplits
  \/ RefuseEmpty \/ CheckSample \/ CheckEnds \/ Compare \/ Accept

GroupingSpec == GroupingInit /\ [][GroupingNext]_gvars

-----------------------------------------------------------------------------
Visited(i, j) ==
  /\ i < j
  /\ \/ step \notin {"link", "find_left", "find_right"}
     \/ i < left
     \/ i = left /\ j < right

Joined(i, j) ==
  \/ Visited(i, j) /\ Linked(items[i], items[j])
  \/ Visited(j, i) /\ Linked(items[j], items[i])

Closed(S) == \A x \in S : \A y \in Indices : Joined(x, y) => y \in S

(* j is in every set that holds i and whatever is linked to its members    *)
Connected(i, j) == \A S \in SUBSET Indices : i \in S /\ Closed(S) => j \in S

(* When union compares two roots they are one exactly when a chain of      *)
(* linked pairs visited so far leads from one item to the other, and in    *)
(* the end two items are collected under one root exactly when a chain     *)
(* joins them: the groups do not depend on the order of the input, and     *)
(* path halving breaks none (group_duplicate_complaints,                   *)
(* assign_geographic_splits).                                              *)
RootsAreComponents ==
  /\ step = "find_right" /\ parents[cursor] = cursor =>
       (found = cursor <=> Connected(left, right))
  /\ step = "collect" =>
       \A i, j \in 1..Len(roots) : roots[i] = roots[j] <=> Connected(i, j)

(* A dataset that is accepted has no two samples in different splits that  *)
(* show the same pixels, the same region or places too near each other.    *)
AcceptedNeverLeaks ==
  verdict = "accepted" =>
    \A i, j \in Indices :
      /\ items[i].split # "unassigned"
      /\ items[i].split # items[j].split =>
           /\ items[i].hash # items[j].hash
           /\ items[i].region # items[j].region
           /\ Abs(items[i].place - items[j].place) > Distance

(* What assign_geographic_splits returns never fails the geographic part   *)
(* of the validation.  (It may fail for one image in two regions: the      *)
(* assignment does not look at hashes.)                                    *)
AssignmentPassesValidation ==
  input.assign /\ step = "end" => verdict \notin {"leak", "no_split"}
=============================================================================
