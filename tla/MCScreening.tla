---------------------------- MODULE MCScreening ----------------------------
(* Screening of one pair: three saves of the model (two of one             *)
(* description), three municipal contexts, and scenes that stop at each    *)
(* check or yield no change, a change inside one parcel, or one over two.  *)
EXTENDS Screening, TLC

CONSTANTS s1, s2, s3

DescriptionOf == s1 :> "unet-1" @@ s2 :> "unet-1" @@ s3 :> "unet-2"
ShapeOf == s1 :> 1 @@ s2 :> 1 @@ s3 :> 2

-----------------------------------------------------------------------------
Clear ==
  [refining |-> TRUE, raster |-> {}, pair |-> {}, shared_grid |-> TRUE, matches |-> 9, inliers |-> 9,
   plausible |-> TRUE, close |-> TRUE, ecc_fails |-> FALSE, score |-> 90, fits |-> TRUE,
   confidence |-> 80, old |-> {1}, new |-> {1, 2}, small |-> {}]

Shown ==
  {Clear, [Clear EXCEPT !.small = {2}], [Clear EXCEPT !.new = {1, 2, 5}],
   [Clear EXCEPT !.new = {1, 9}], [Clear EXCEPT !.new = {1, 6, 7}], [Clear EXCEPT !.old = {}],
   [Clear EXCEPT !.raster = {"EXTREME_DARKNESS"}, !.ecc_fails = TRUE, !.score = 70],
   [Clear EXCEPT !.raster = {"EXCESSIVE_BLUR"}], [Clear EXCEPT !.shared_grid = FALSE],
   [Clear EXCEPT !.pair = {"LARGE_RESOLUTION_MISMATCH"}],
   [Clear EXCEPT !.pair = {"INSUFFICIENT_GEOGRAPHIC_OVERLAP"}],
   [Clear EXCEPT !.pair = {"INCOMPATIBLE_BANDS"}],
   [Clear EXCEPT !.matches = 2], [Clear EXCEPT !.plausible = FALSE],
   [Clear EXCEPT !.score = 15], [Clear EXCEPT !.score = 22], [Clear EXCEPT !.fits = FALSE],
   [Clear EXCEPT !.refining = FALSE], [Clear EXCEPT !.refining = FALSE, !.score = 15]}

-----------------------------------------------------------------------------
Weights ==
  [confidence |-> 20, area |-> 10, unapproved |-> 35, wrong_plan |-> 15, no_permit |-> 20,
   boundary |-> 15, complaint |-> 10, coverage |-> 15, setback |-> 10, public |-> 10,
   registration |-> 10, warning |-> 5, stale |-> 8]

Rule(version, from, until) ==
  [id |-> "r", version |-> version, zone |-> "z", from |-> from, until |-> until, setback |-> 1,
   coverage |-> 40, area_reference |-> 4, freshness |-> 3, medium |-> 25, high |-> 50,
   critical |-> 75, weights |-> Weights]

Permit(n, parcel, plan, from, until) ==
  [id |-> n, parcel |-> parcel, plan |-> plan, from |-> from, until |-> until]

Complaint(n, parcel, received, projected) ==
  [id |-> n, parcel |-> parcel, received |-> received, projected |-> projected]

\* Parcel 1 has an expired permit and a later one, parcel 2 none.
First ==
  [rules |-> {Rule("v1", 1, 9)},
   parcels |-> {[id |-> 1, cells |-> {1, 2, 3, 4}, edge |-> {2}],
                [id |-> 2, cells |-> {5, 6}, edge |-> {5, 6}], [id |-> 3, cells |-> {7, 8}, edge |-> {}]},
   footprints |-> <<[parcel |-> 1, plan |-> 1, cells |-> {1}], [parcel |-> 1, plan |-> 2, cells |-> {1, 2}],
                    [parcel |-> 2, plan |-> 1, cells |-> {6}]>>,
   permits |-> {Permit(1, 1, 1, 1, 3), Permit(2, 1, 1, 4, 6), Permit(3, 3, 1, 1, 9)},
   complaints |-> <<Complaint(1, 1, 1, TRUE), Complaint(2, 1, 2, TRUE), Complaint(2, 3, 2, FALSE)>>,
   boundaries |-> {{5}}]

\* The plans change places and the later permit is of another plan or not
\* yet valid; the rule set has a new version, or is there twice.
Second ==
  [First EXCEPT !.rules = {Rule("v2", 1, 9)}, !.complaints = <<>>,
                !.footprints = <<First.footprints[2], First.footprints[1]>>,
                !.permits = {Permit(1, 1, 1, 4, 6), Permit(4, 1, 2, 6, 9)}]
Third ==
  [First EXCEPT !.rules = {Rule("v1", 1, 9), [Rule("v1", 1, 9) EXCEPT !.setback = 0]},
                !.permits = {Permit(1, 1, 1, 1, 3), Permit(4, 1, 1, 6, 9)},
                !.complaints = <<Complaint(1, 1, 1, FALSE), Complaint(2, 1, 4, TRUE),
                                 Complaint(3, 2, 1, FALSE), Complaint(4, 2, 2, TRUE)>>]

Municipality == {First, Second, Third}

Asked ==
  {[model |-> m, rules |-> [id |-> "r", version |-> v, zone |-> "z"]] :
     m \in {"unet-1"}, v \in {"v1", "v2"}}
    \cup {[model |-> "unet-3", rules |-> [id |-> "r", version |-> "v1", zone |-> "z"]]}
=============================================================================
