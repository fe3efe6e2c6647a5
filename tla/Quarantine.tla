----------------------------- MODULE Quarantine -----------------------------
(***************************************************************************)
(* validate_dataset (nn/data/validation.py): every record of a municipal   *)
(* dataset is checked by itself (the contract loops), then against the     *)
(* records it names, pass after pass, until a round of passes rejects      *)
(* nothing.  A rejected record is quarantined under its first reason.      *)
(*                                                                         *)
(* A record names exactly one record it must lie in, so what the geometry  *)
(* library and the CRS comparison say of the two is one field: within.     *)
(* Identifiers are unique here (the contracts do not enforce it).          *)
(***************************************************************************)
EXTENDS Integers, Sequences

CONSTANTS
  Records,     \* identifiers of all records of a dataset
  Kind,        \* entity of each record
  Order,       \* position of a record in its tuple of the dataset
  Today,       \* timestamp.date()
  Datasets     \* the datasets that may be submitted

(* The entities whose relationships are checked, in the order of the loops *)
Passes == <<"wards", "parcels", "approved_footprints", "approved_buildings",
            "permits", "complaints", "inspection_cases">>

Kinds == {"municipalities", "public_boundaries", "imagery_assets", "inspectors"}
           \cup {Passes[i] : i \in 1..7}

Of(kind) == {r \in Records : Kind[r] = kind}

(* The fields that are compared with an order or tell three outcomes apart *)
WellFormed(d) ==
  /\ DOMAIN d = Records
  /\ \A r \in Of("permits") :
       {d[r].from, d[r].until} \subseteq Int /\ d[r].status \in {"active", "expired"}
  /\ \A r \in Of("imagery_assets") : {d[r].captured, d[r].ingested} \subseteq Int
  /\ \A r \in Of("wards") \cup Of("parcels") \cup Of("approved_footprints") \cup Of("complaints") :
       d[r].within \in {"yes", "no", "other_crs"}

ASSUME DatasetAssumption ==
  /\ Kind \in [Records -> Kinds]
  /\ Order \in [Records -> Nat]
  /\ Today \in Int
  /\ \A d \in Datasets : WellFormed(d)

VARIABLES
  data,         \* the submitted dataset
  pass,         \* 0: contract loops, 1..7: the loop over Passes[pass], 8: end of
                \* a round, 9: returned
  changed,      \* the flag of the while loop
  quarantine    \* rejected record -> its first reason

vars == <<data, pass, changed, quarantine>>

Rejected == DOMAIN quarantine
Kept == Records \ Rejected

-----------------------------------------------------------------------------
(* Contract checks: "none" or the reason.                                  *)

PermitFlaw(p) ==
  IF data[p].from > data[p].until THEN "INVALID_PERMIT_DATES"
  ELSE IF \/ data[p].status = "active" /\ ~(data[p].from <= Today /\ Today <= data[p].until)
          \/ data[p].status = "expired" /\ data[p].until >= Today
  THEN "PERMIT_STATUS_DATE_MISMATCH"
  ELSE "none"

(* Fault: any two assets of one hash refuse each other.                    *)
DuplicateEither(a) == \E b \in Of("imagery_assets") \ {a} : data[b].hash = data[a].hash

(* seen_hashes remembers the first asset of a hash, rejected or not        *)
Duplicate(a) ==
  \E b \in Of("imagery_assets") : Order[b] < Order[a] /\ data[b].hash = data[a].hash

AssetFlaw(a) ==
  IF data[a].captured > data[a].ingested THEN "INVALID_CAPTURE_TIME"
  ELSE IF data[a].box_crs # data[a].crs THEN "CRS_MISMATCH"
  ELSE IF Duplicate(a) THEN "DUPLICATE_ASSET_HASH"
  ELSE "none"

Flaw(r) ==
  CASE Kind[r] = "permits" -> PermitFlaw(r)
    [] Kind[r] = "imagery_assets" -> AssetFlaw(r)
    [] Kind[r] \in {"inspectors", "approved_buildings"} -> "none"
    [] OTHER -> data[r].geometry

-----------------------------------------------------------------------------
(* Relationship checks against the records that are not rejected so far.   *)

Found(r, kind) == r \in Of(kind) /\ r \notin Rejected

Within(r, parent, kind, missing, outside) ==
  IF ~Found(parent, kind) THEN missing
  ELSE IF data[r].within = "other_crs" THEN "CRS_MISMATCH"
  ELSE IF data[r].within = "no" THEN outside
  ELSE "none"

FootprintFault(r) ==
  IF /\ Found(data[r].parcel, "parcels")
     /\ ~Found(data[r].building, "approved_buildings")
  THEN "MISSING_BUILDING"
  ELSE Within(r, data[r].parcel, "parcels", "MISSING_PARCEL", "BUILDING_OUTSIDE_PARCEL")

BuildingFault(r) ==
  LET f == data[r].footprint IN
  IF ~Found(data[r].parcel, "parcels") THEN "MISSING_PARCEL"
  ELSE IF /\ Found(f, "approved_footprints")
          /\ data[f].building = r
          /\ data[f].parcel = data[r].parcel
  THEN "none"
  ELSE "INVALID_FOOTPRINT_LINK"

PermitFault(r) ==
  LET f == data[r].footprint IN
  IF ~Found(data[r].parcel, "parcels") THEN "MISSING_PARCEL"
  ELSE IF Found(f, "approved_footprints") /\ data[f].plan = data[r].plan THEN "none"
  ELSE "INVALID_PLAN_LINK"

CaseFault(r) ==
  IF /\ Found(data[r].parcel, "parcels")
     /\ Found(data[r].building, "approved_buildings")
     /\ Found(data[r].permit, "permits")
     /\ data[r].inspector \in Of("inspectors")
     /\ \A a \in data[r].assets : Found(a, "imagery_assets")
     /\ \A c \in data[r].complaints : Found(c, "complaints")
  THEN "none"
  ELSE "INVALID_CASE_RELATIONSHIP"

RelationFault(r) ==
  CASE Kind[r] = "wards" ->
         Within(r, data[r].municipality, "municipalities", "MISSING_MUNICIPALITY",
                "OUTSIDE_MUNICIPALITY")
    [] Kind[r] = "parcels" -> Within(r, data[r].ward, "wards", "MISSING_WARD", "OUTSIDE_WARD")
    [] Kind[r] = "approved_footprints" -> FootprintFault(r)
    [] Kind[r] = "approved_buildings" -> BuildingFault(r)
    [] Kind[r] = "permits" -> PermitFault(r)
    [] Kind[r] = "complaints" ->
         Within(r, data[r].parcel, "parcels", "MISSING_PARCEL", "OUTSIDE_PARCEL")
    [] Kind[r] = "inspection_cases" -> CaseFault(r)
    [] OTHER -> "none"

-----------------------------------------------------------------------------
Init ==
  /\ data \in Datasets
  /\ pass = 0
  /\ changed = TRUE
  /\ quarantine = [r \in {} |-> "none"]

(* reject: a record that is already quarantined keeps its first reason     *)
Reject(reasons) ==
  quarantine' = [r \in Rejected \cup DOMAIN reasons |->
                   IF r \in Rejected THEN quarantine[r] ELSE reasons[r]]

Contract ==
  /\ pass = 0
  /\ Reject([r \in {x \in Records : Flaw(x) # "none"} |-> Flaw(r)])
  /\ pass' = 1
  /\ changed' = FALSE
  /\ UNCHANGED data

Faulty(kind) == {r \in Of(kind) : RelationFault(r) # "none"}

(* Fault: changed = reject(...) in place of changed |= reject(...).        *)
RelationPassForgetful ==
  LET found == Faulty(Passes[pass]) IN
  /\ pass \in 1..7
  /\ Reject([r \in found |-> RelationFault(r)])
  /\ changed' = ~(found \subseteq Rejected)
  /\ pass' = pass + 1
  /\ UNCHANGED data

(* Fault: reject answers TRUE for a record that is quarantined already.    *)
RelationPassRepeating ==
  LET found == Faulty(Passes[pass]) IN
  /\ pass \in 1..7
  /\ Reject([r \in found |-> RelationFault(r)])
  /\ changed' = (changed \/ found # {})
  /\ pass' = pass + 1
  /\ UNCHANGED data

(* One of the seven loops of a round.  A loop reads the rejections of      *)
(* other entities only, so the order within it does not matter.            *)
RelationPass ==
  LET found == Faulty(Passes[pass]) IN
  /\ pass \in 1..7
  /\ Reject([r \in found |-> RelationFault(r)])
  /\ changed' = (changed \/ ~(found \subseteq Rejected))
  /\ pass' = pass + 1
  /\ UNCHANGED data

NextRound ==
  /\ pass = 8
  /\ changed
  /\ pass' = 1
  /\ changed' = FALSE
  /\ UNCHANGED <<data, quarantine>>

Return ==
  /\ pass = 8
  /\ ~changed
  /\ pass' = 9
  /\ UNCHANGED <<data, changed, quarantine>>

Next == Contract \/ RelationPass \/ NextRound \/ Return

Spec == Init /\ [][Next]_vars /\ WF_vars(Next)

-----------------------------------------------------------------------------
(* What an accepted dataset is, said without the passes.                   *)

TypeOK ==
  /\ WellFormed(data)
  /\ pass \in 0..9
  /\ changed \in BOOLEAN
  /\ Rejected \subseteq Records

(* A record that stands by itself                                          *)
Clean(r) ==
  CASE Kind[r] = "permits" ->
         /\ data[r].from <= data[r].until
         /\ data[r].status = "active" => data[r].from <= Today /\ Today <= data[r].until
         /\ data[r].status = "expired" => data[r].until < Today
    [] Kind[r] = "imagery_assets" ->
         /\ data[r].captured <= data[r].ingested
         /\ data[r].box_crs = data[r].crs
         /\ \A b \in Of("imagery_assets") :
              data[b].hash = data[r].hash => Order[r] <= Order[b]
    [] Kind[r] \in {"inspectors", "approved_buildings"} -> TRUE
    [] OTHER -> data[r].geometry = "none"

(* Its relations hold within the set S of records                          *)
Agrees(r, S) ==
  LET Has(x, kind) == x \in S /\ Kind[x] = kind IN
  CASE Kind[r] = "wards" ->
         Has(data[r].municipality, "municipalities") /\ data[r].within = "yes"
    [] Kind[r] = "parcels" -> Has(data[r].ward, "wards") /\ data[r].within = "yes"
    [] Kind[r] = "complaints" -> Has(data[r].parcel, "parcels") /\ data[r].within = "yes"
    [] Kind[r] = "approved_footprints" ->
         /\ Has(data[r].parcel, "parcels") /\ data[r].within = "yes"
         /\ Has(data[r].building, "approved_buildings")
    [] Kind[r] = "approved_buildings" ->
         /\ Has(data[r].parcel, "parcels")
         /\ Has(data[r].footprint, "approved_footprints")
         /\ data[data[r].footprint].building = r
         /\ data[data[r].footprint].parcel = data[r].parcel
    [] Kind[r] = "permits" ->
         /\ Has(data[r].parcel, "parcels")
         /\ Has(data[r].footprint, "approved_footprints")
         /\ data[data[r].footprint].plan = data[r].plan
    [] Kind[r] = "inspection_cases" ->
         /\ Has(data[r].parcel, "parcels") /\ Has(data[r].building, "approved_buildings")
         /\ Has(data[r].permit, "permits") /\ Has(data[r].inspector, "inspectors")
         /\ \A a \in data[r].assets : Has(a, "imagery_assets")
         /\ \A c \in data[r].complaints : Has(c, "complaints")
    [] OTHER -> TRUE

Consistent(S) == \A r \in S : Clean(r) /\ Agrees(r, S)

(* What validate_dataset returns is consistent: no kept record names one   *)
(* that was quarantined later in the round, through the cycle of buildings *)
(* and footprints or in another round ("keep relationships consistent").   *)
KeptIsConsistent == pass = 9 => Consistent(Kept)

(* And nothing is quarantined that could have stayed: no set of rejected   *)
(* records, however they name each other, is consistent with the kept ones.*)
NothingLostNeedlessly ==
  pass = 9 => \A X \in SUBSET Rejected : X # {} => ~Consistent(Kept \cup X)

(* The while loop ends: every round but the last rejects something new.    *)
ValidationEnds == <>(pass = 9)
=============================================================================
