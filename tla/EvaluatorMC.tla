---------------------------- MODULE EvaluatorMC -----------------------------
(* Instances of Evaluator for TLC. *)
EXTENDS Evaluator, TLC

CONSTANTS ca, cb, nx, d, define, class

\* Two classes, a name nobody defines, one instance of a defined type.
JumpTypeOf == d :> define

\* A class that ensure_resource may declare as a resource, and an instance.
MixedTypeOf == (ca :> class) @@ (d :> define)
=============================================================================
