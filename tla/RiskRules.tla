------------------------------ MODULE RiskRules ------------------------------
(***************************************************************************)
(* How a detected change becomes an inspection priority (nn/risk and       *)
(* application/compatibility.py): the rule set a request names, the parcel *)
(* the change lies in, the comparison with the approved plan, the permit   *)
(* at capture, and the score with its factors.                             *)
(*                                                                         *)
(* A geometry is a set of cells of one square metre, in one projected CRS; *)
(* dates are days; points are integers.                                    *)
(***************************************************************************)
EXTENDS Integers, FiniteSets
LOCAL INSTANCE FiniteSetsExt

-----------------------------------------------------------------------------
(* Rules.                                                                  *)

InForce(rule, date) == rule.from <= date /\ date <= rule.until

\* Fault: the version is not compared.
CompatibleRulesAnyVersion(rules, want, date) ==
  LET named == {r \in rules : r.id = want.id}
  IN {r \in named : Cardinality(named) = 1 /\ r.zone = want.zone /\ InForce(r, date)}

\* require_compatible_rule_set: exactly one rule set has the id, and it is
\* the one required and in force at capture.  The empty set is a refusal.
\* (version: of the rules and of their thresholds; zone: with municipality.)
CompatibleRules(rules, want, date) ==
  LET named == {r \in rules : r.id = want.id}
  IN {r \in named : /\ Cardinality(named) = 1
                    /\ r.version = want.version /\ r.zone = want.zone
                    /\ InForce(r, date)}

-----------------------------------------------------------------------------
(* Where the change lies.                                                  *)

\* intersect_change_with_parcels: the largest overlap, the smaller id of two.
\* Parcels with one id twice are refused there and do not occur here.
MatchParcel(change, parcels) ==
  LET overlaps == {p \in parcels : p.cells \cap change # {}}
      share(p) == Cardinality(p.cells \cap change)
      ranks(p, q) == share(p) > share(q) \/ (share(p) = share(q) /\ p.id <= q.id)
      best == CHOOSE p \in overlaps : \A q \in overlaps : ranks(p, q)
  IN IF overlaps = {} THEN [found |-> FALSE]
     ELSE [found |-> TRUE, parcel |-> best, ambiguous |-> Cardinality(overlaps) > 1,
           crossing |-> ~ (change \subseteq best.cells)]

\* compare_approved_plan: edge holds the cells within the setback.
ComparePlan(approved, old, new, parcel, setback, boundaries) ==
  [plan |-> approved.plan,
   outside |-> (new \ old) \ approved.cells,
   in_setback |-> IF setback = 0 THEN {} ELSE new \cap parcel.edge,
   covered |-> new \cap parcel.cells,
   boundaries |-> {b \in boundaries : b \cap new # {}}]

-----------------------------------------------------------------------------
(* Permits: validity at capture, never the status of today.                *)

ValidAt(permit, date) == permit.from <= date /\ date <= permit.until

\* Fault: an expired permit is looked for first.
MatchPermitExpiredFirst(permits, parcel, date, plan) ==
  LET candidates == {p \in permits : p.parcel = parcel}
  IN IF \E p \in candidates : p.until < date THEN "expired_at_capture"
     ELSE IF \E p \in candidates : ValidAt(p, date) /\ p.plan = plan THEN "valid_match"
     ELSE IF candidates = {} THEN "no_match" ELSE "not_yet_valid"

MatchPermit(permits, parcel, date, plan) ==
  LET candidates == {p \in permits : p.parcel = parcel}
      valid == {p \in candidates : ValidAt(p, date)}
  IN IF candidates = {} THEN "no_match"
     ELSE IF \E p \in valid : p.plan = plan THEN "valid_match"
     ELSE IF valid # {} THEN "wrong_plan_version"
     ELSE IF \E p \in candidates : p.until < date THEN "expired_at_capture"
     ELSE "not_yet_valid"

-----------------------------------------------------------------------------
(* score_inspection_risk.                                                  *)

SmallerOf(a, b) == IF a < b THEN a ELSE b
Clamped(x) == IF x < 0 THEN 0 ELSE SmallerOf(x, 100)

\* What each factor of the assessment would contribute.
Points(e, match, plan, rules) ==
  LET w == rules.weights
  IN [CHANGE_CONFIDENCE |-> (w.confidence * e.confidence) \div 100,
      CHANGED_AREA |-> (w.area * SmallerOf(e.area, rules.area_reference)) \div rules.area_reference,
      UNAPPROVED_ADDED_AREA |-> w.unapproved,
      WRONG_PLAN_VERSION |-> w.wrong_plan,
      ACTIVE_PERMIT_NOT_FOUND |-> w.no_permit,
      PARCEL_BOUNDARY_REVIEW |-> w.boundary,
      COMPLAINT_CORROBORATION |-> w.complaint,
      SITE_COVERAGE_EXCEEDED |-> w.coverage,
      SETBACK_ZONE_INTERSECTION |-> w.setback,
      PUBLIC_BOUNDARY_INTERSECTION |-> w.public,
      REGISTRATION_QUALITY_PENALTY |-> - w.registration,
      IMAGE_QUALITY_PENALTY |-> - (w.warning * SmallerOf(3, Cardinality(e.warnings))),
      STALE_EVIDENCE_PENALTY |-> - w.stale]

\* The codes of the factors that apply.
Applies(code, e, match, plan, permit, rules) ==
  CASE code = "CHANGE_CONFIDENCE" -> e.confidence > 0
    [] code = "CHANGED_AREA" -> e.area > 0
    [] code = "UNAPPROVED_ADDED_AREA" -> plan.outside # {}
    [] code = "WRONG_PLAN_VERSION" -> permit = "wrong_plan_version"
    [] code = "ACTIVE_PERMIT_NOT_FOUND" -> permit \notin {"wrong_plan_version", "valid_match"}
    [] code = "PARCEL_BOUNDARY_REVIEW" -> match.crossing \/ match.ambiguous
    [] code = "COMPLAINT_CORROBORATION" -> e.complaints > 0
    [] code = "SITE_COVERAGE_EXCEEDED" ->
         100 * Cardinality(plan.covered) > rules.coverage * Cardinality(match.parcel.cells)
    [] code = "SETBACK_ZONE_INTERSECTION" -> plan.in_setback # {}
    [] code = "PUBLIC_BOUNDARY_INTERSECTION" -> plan.boundaries # {}
    [] code = "REGISTRATION_QUALITY_PENALTY" -> e.score < 80
    [] code = "IMAGE_QUALITY_PENALTY" -> e.warnings # {}
    [] code = "STALE_EVIDENCE_PENALTY" -> e.evaluated - e.captured > rules.freshness

Factors(e, match, plan, permit, rules) ==
  LET points == Points(e, match, plan, rules)
  IN [c \in {k \in DOMAIN points : Applies(k, e, match, plan, permit, rules)} |-> points[c]]

Level(score, rules) ==
  IF score >= rules.critical THEN "CRITICAL_REVIEW"
  ELSE IF score >= rules.high THEN "HIGH"
  ELSE IF score >= rules.medium THEN "MEDIUM" ELSE "LOW"

Assess(e, match, plan, permit, rules) ==
  LET factors == Factors(e, match, plan, permit, rules)
      at(c) == factors[c]
      score == Clamped(MapThenSumSet(at, DOMAIN factors))
  IN [rules |-> rules, factors |-> factors, score |-> score, level |-> Level(score, rules)]
=============================================================================
