---------------------------- MODULE CaseDecision ----------------------------
(***************************************************************************)
(* What an inspection case is for: it is screened by a person, decided     *)
(* once, as dismissed or confirmed for administrative review, and closed   *)
(* with that decision.  CaseWorkflow implements this specification.        *)
(***************************************************************************)
VARIABLES stage, decision

vars == <<stage, decision>>

Init == stage = "created" /\ decision = "none"

Screen ==
  /\ stage = "created"
  /\ stage' = "open"
  /\ UNCHANGED decision

Decide ==
  /\ stage = "open"
  /\ stage' = "decided"
  /\ decision' \in {"DISMISSED", "CONFIRMED"}

Close ==
  /\ stage = "decided"
  /\ stage' = "closed"
  /\ UNCHANGED decision

Spec == Init /\ [][Screen \/ Decide \/ Close]_vars
=============================================================================
