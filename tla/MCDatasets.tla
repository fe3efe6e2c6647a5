----------------------------- MODULE MCDatasets -----------------------------
(* The checks of municipal and training data: a behaviour either validates *)
(* a municipal dataset or groups complaints, tiles or image pairs, the     *)
(* other variables standing still.                                         *)
(*                                                                         *)
(* Quarantine: a small consistent dataset, two of everything that can be   *)
(* duplicated or cross-linked, with one or two of its records changed.     *)
EXTENDS Quarantine, Grouping, TLC

KindOf ==
  [m |-> "municipalities", w |-> "wards", p1 |-> "parcels", p2 |-> "parcels",
   f1 |-> "approved_footprints", f2 |-> "approved_footprints",
   b1 |-> "approved_buildings", b2 |-> "approved_buildings", q |-> "permits",
   c |-> "complaints", a1 |-> "imagery_assets", a2 |-> "imagery_assets",
   i |-> "inspectors", k |-> "inspection_cases", o |-> "public_boundaries"]

OrderOf == [r \in DOMAIN KindOf |-> IF r = "a2" THEN 2 ELSE 1]

Spatial == [geometry |-> "none", within |-> "yes"]

Baseline ==
  [m |-> Spatial, o |-> Spatial, i |-> [active |-> TRUE],
   w |-> Spatial @@ [municipality |-> "m"],
   p1 |-> Spatial @@ [ward |-> "w"], p2 |-> Spatial @@ [ward |-> "w"],
   f1 |-> Spatial @@ [parcel |-> "p1", building |-> "b1", plan |-> 1],
   f2 |-> Spatial @@ [parcel |-> "p2", building |-> "b2", plan |-> 2],
   b1 |-> [parcel |-> "p1", footprint |-> "f1"], b2 |-> [parcel |-> "p2", footprint |-> "f2"],
   q |-> [parcel |-> "p1", footprint |-> "f1", plan |-> 1, from |-> 4, until |-> 6,
          status |-> "active"],
   c |-> Spatial @@ [parcel |-> "p1"],
   a1 |-> [hash |-> "h1", captured |-> 1, ingested |-> 1, crs |-> "u", box_crs |-> "u"],
   a2 |-> [hash |-> "h2", captured |-> 1, ingested |-> 2, crs |-> "u", box_crs |-> "u"],
   k |-> Spatial @@ [parcel |-> "p1", building |-> "b1", permit |-> "q", inspector |-> "i",
                     assets |-> {"a1", "a2"}, complaints |-> {"c"}]]

(* Other contents of a record: each differs from the baseline in one way.  *)
Changed(r) ==
  LET b == Baseline[r]
      flawed == IF r \in {"c"} THEN {[b EXCEPT !.geometry = "INVALID_COMPLAINT_COORDINATE"]}
                ELSE IF r \in {"m", "o", "w", "p1", "p2", "f1", "f2", "k"}
                THEN {[b EXCEPT !.geometry = "INVALID_GEOMETRY"]} ELSE {}
      placed == IF r \in {"w", "p1", "f1", "c"}
                THEN {[b EXCEPT !.within = x] : x \in {"no", "other_crs"}} ELSE {}
      named == CASE r = "w" -> {[b EXCEPT !.municipality = "gone"]}
                 [] r \in {"p1", "p2"} -> {[b EXCEPT !.ward = "gone"]}
                 [] r \in {"f1", "f2"} ->
                      {[b EXCEPT !.parcel = x] : x \in {"p1", "p2", "gone"}}
                        \cup {[b EXCEPT !.building = x] : x \in {"b1", "b2", "gone"}}
                 [] r \in {"b1", "b2"} ->
                      {[b EXCEPT !.parcel = x] : x \in {"p1", "p2", "gone"}}
                        \cup {[b EXCEPT !.footprint = x] : x \in {"f1", "f2", "gone"}}
                 [] r = "q" ->
                      {[b EXCEPT !.parcel = "p2"], [b EXCEPT !.footprint = "f2"],
                       [b EXCEPT !.plan = 2], [b EXCEPT !.from = 7], [b EXCEPT !.from = 6],
                       [b EXCEPT !.until = 4], [b EXCEPT !.status = "expired"],
                       [b EXCEPT !.status = "expired", !.until = 4],
                       [b EXCEPT !.status = "expired", !.until = 5]}
                 [] r = "c" -> {[b EXCEPT !.parcel = x] : x \in {"p2", "gone"}}
                 [] r = "a1" -> {[b EXCEPT !.captured = 2], [b EXCEPT !.box_crs = "v"]}
                 [] r = "a2" -> {[b EXCEPT !.hash = "h1"], [b EXCEPT !.captured = 2],
                                 [b EXCEPT !.captured = 3]}
                 [] r = "k" -> {[b EXCEPT !.building = "b2"], [b EXCEPT !.permit = "gone"],
                                [b EXCEPT !.inspector = "gone"], [b EXCEPT !.assets = {"a2"}],
                                [b EXCEPT !.complaints = {}], [b EXCEPT !.parcel = "p2"]}
                 [] OTHER -> {}
  IN flawed \cup placed \cup named

Variants == UNION {{[of |-> r, is |-> x] : x \in Changed(r)} : r \in DOMAIN KindOf}

Submitted == {[Baseline EXCEPT ![v.of] = v.is, ![u.of] = u.is] : v, u \in Variants}

-----------------------------------------------------------------------------
(* Grouping: four complaints of two parcels, apart in time or place or     *)
(* content, perhaps one of them in a geographic CRS; four samples on a     *)
(* line to assign; three samples that come with their splits.              *)
ComplaintCalls ==
  {[of |-> "complaints", assign |-> FALSE,
    items |-> [i \in 1..4 |->
      [id |-> IF i = 4 THEN n ELSE 4 - i, parcel |-> IF i = 2 THEN 2 ELSE 1,
       received |-> t[i], place |-> p[i],
       text |-> IF i = 3 THEN 3 ELSE 1, media |-> IF i > 2 THEN 1 ELSE 0, picture |-> 0,
       projected |-> i # u]]] :
     n \in {4, 1}, u \in {0, 3}, t \in [1..4 -> {0, 2, 3}], p \in [1..4 -> {0, 5}]}

Sample(n, region, place, hash, split, projected, flawed) ==
  [id |-> n, region |-> region, place |-> place, hash |-> hash, split |-> split,
   draw |-> IF n % 2 = 0 THEN "train" ELSE "test", projected |-> projected, flawed |-> flawed]

ToAssign ==
  {[of |-> "samples", assign |-> TRUE,
    items |-> [i \in 1..4 |-> Sample(5 - i, r[i], p[i], h[i], "unassigned", q, FALSE)]] :
     r \in [1..4 -> {1, 2}], p \in [1..4 -> {0, 2, 4}],
     h \in {<<1, 2, 3, 4>>, <<1, 2, 3, 1>>}, q \in BOOLEAN}

Presplit ==
  {[of |-> "samples", assign |-> FALSE,
    items |-> [i \in 1..n |-> Sample(i, r[i], p[i], h[i], s[i], i # q, i = f)]] :
     n \in {0, 3}, r \in {<<1, 1, 2>>, <<1, 2, 1>>, <<1, 2, 3>>}, p \in [1..3 -> {0, 2, 5}],
     h \in {<<1, 2, 1>>, <<1, 2, 3>>, <<1, 1, 2>>},
     s \in [1..3 -> {"train", "test"}]
             \cup {<<"train", "unassigned", "train">>, <<"test", "test", "unassigned">>},
     q \in {0, 2}, f \in {0, 2}}

Calls == ComplaintCalls \cup ToAssign \cup Presplit

-----------------------------------------------------------------------------
Idle == [of |-> "samples", assign |-> FALSE, items |-> <<>>]

DatasetsInit ==
  \/ Init /\ input = Idle /\ items = <<>> /\ step = "end" /\ left = 1 /\ right = 0
          /\ parents = <<>> /\ cursor = 0 /\ found = 0 /\ roots = <<>> /\ seen = [h \in {} |-> "unassigned"] /\ groups = {} /\ verdict = "open"
  \/ GroupingInit /\ data = Baseline /\ pass = 9 /\ changed = FALSE /\ quarantine = [r \in {} |-> "none"]

DatasetsNext ==
  \/ Next /\ UNCHANGED gvars
  \/ GroupingNext /\ UNCHANGED vars

DatasetsSpec ==
  DatasetsInit /\ [][DatasetsNext]_<<vars, gvars>> /\ WF_vars(Next)
=============================================================================
