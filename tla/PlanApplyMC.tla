---------------------------- MODULE PlanApplyMC -----------------------------
(* Instances of PlanApply for TLC. *)
EXTENDS PlanApply, TLC

CONSTANTS ca, cb, class

\* The resources with the reference of a class that ensure_resource declares.
EnsuredClass == cb :> class
=============================================================================
