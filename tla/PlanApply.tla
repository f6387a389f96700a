------------------------------ MODULE PlanApply -----------------------------
(***************************************************************************)
(* eval/plan.go: a plan compiles apply blocks on the side.                 *)
(*                                                                         *)
(* apply() runs its block in a throwaway evaluator with a catalog, a set   *)
(* of included classes and a container of its own, and hands the catalog   *)
(* to the plan executor. Two evaluators are at work, the plan's and the    *)
(* block's, and the Go stack of the block sits on top of the plan's: the   *)
(* plan waits while the block is compiled. Both are instances of           *)
(* Evaluator; the block's is the one whose variables start with s.         *)
(*                                                                         *)
(* The two share the tables of definitions, which no evaluation changes,   *)
(* so the constants of Evaluator stand for both. Variables are abstracted, *)
(* as in Evaluator; Scope has what a block sees of the plan's.             *)
(***************************************************************************)
EXTENDS Evaluator

CONSTANTS
  MaxApply,   \* bound: apply calls of one run
  BlockDepth  \* bound: depth of the call stack of an apply block

ASSUME ApplyAssumption == BlockDepth \in Nat \ {0}

VARIABLES
  sOrder, sStatus, sEdges, sIncluded, sContainer, sEpp, sStack, sSignal,
  sCaught,    \* history: a call in the block has made a jump its result
  applying,   \* apply() is compiling its block
  applied     \* history: the catalogs the executor was given, in order

subVars == <<sOrder, sStatus, sEdges, sIncluded, sContainer, sEpp, sStack, sSignal, sCaught>>
applyVars == <<vars, subVars, applying, applied>>

Sub == INSTANCE Evaluator WITH
  MaxDepth <- BlockDepth,
  order <- sOrder, status <- sStatus, edges <- sEdges, included <- sIncluded,
  curContainer <- sContainer, eppStack <- sEpp, stack <- sStack, signal <- sSignal

ApplyInit ==
  /\ Init /\ Sub!Init
  /\ sCaught = FALSE /\ applying = FALSE /\ applied = << >>

-----------------------------------------------------------------------------
(* The plan *)

\* The plan's evaluator goes on while no apply block is being compiled. run_task,
\* run_command, run_script and get_targets give their arguments to the executor
\* and return what it returns: to the evaluator they are functions that may fail.
PlanStep ==
  /\ ~applying
  /\ Next
  /\ UNCHANGED <<subVars, applying, applied>>

\* Mutant of Fresh: the new evaluator takes over the container in force.
FreshInContainer ==
  /\ sOrder' = << >> /\ sEdges' = {} /\ sStatus' = [r \in Ref |-> Absent]
  /\ sIncluded' = {} /\ sContainer' = curContainer /\ sEpp' = << >>
  /\ sSignal' = "none" /\ sCaught' = FALSE

\* New: nothing of the plan's catalog, classes, container or buffers.
Fresh ==
  /\ sOrder' = << >> /\ sEdges' = {} /\ sStatus' = [r \in Ref |-> Absent]
  /\ sIncluded' = {} /\ sContainer' = Main /\ sEpp' = << >>
  /\ sSignal' = "none" /\ sCaught' = FALSE

\* A call of apply() with targets and a block. Without an executor, targets or a
\* block the call only errs, as Raise does.
BeginApply ==
  /\ ~applying /\ Evaluating /\ Len(applied) < MaxApply
  /\ Fresh
  /\ sStack' = <<Entry("apply", "body")>>
  /\ applying' = TRUE
  /\ UNCHANGED <<vars, applied>>

-----------------------------------------------------------------------------
(* The block's evaluator *)

\* The new evaluator has no exported store, so none refuses a resource; and no
\* executor: apply and the run_ functions only err in it, as Raise does.
NoStore ==
  \A r \in Ref : sStatus[r] = Absent /\ sStatus'[r] = "exported" => sSignal' = "none"

BlockStep ==
  /\ applying /\ sStack # << >>
  /\ \/ Sub!Statement /\ NoStore
     \/ \E super \in ClassName \cup {None} : Sub!DeclareParent(super)
     \/ Sub!AddClass \/ Sub!CallBlock \/ Sub!EnterBody \/ Sub!Return \/ Sub!Unwind
  /\ sCaught' = (sCaught \/ (sSignal \in Jump /\ sSignal' = "none"))
  /\ UNCHANGED <<vars, applying, applied>>

Compiled == [order |-> sOrder, edges |-> sEdges, included |-> sIncluded, caught |-> sCaught]

\* Mutant of FinishApply: the block's classes count as included in the plan, too.
FinishApplyShared ==
  /\ applying /\ sStack = << >>
  /\ IF sSignal = "none"
     THEN /\ applied' = Append(applied, Compiled)
          /\ signal' \in {"none", "error"}
     ELSE signal' = sSignal /\ UNCHANGED applied
  /\ included' = included \cup sIncluded
  /\ applying' = FALSE /\ Fresh /\ sStack' = << >>
  /\ UNCHANGED <<catalog, curContainer, eppStack, stack>>

\* The block has ended. A catalog compiled to the end goes to the executor, which
\* may fail; an error or a jump out of the block becomes that of the apply call. The
\* evaluator is thrown away.
FinishApply ==
  /\ applying /\ sStack = << >>
  /\ IF sSignal = "none"
     THEN /\ applied' = Append(applied, Compiled)
          /\ signal' \in {"none", "error"}
     ELSE signal' = sSignal /\ UNCHANGED applied
  /\ applying' = FALSE /\ Fresh /\ sStack' = << >>
  /\ UNCHANGED <<catalog, included, curContainer, eppStack, stack>>

ApplyNext == PlanStep \/ BeginApply \/ BlockStep \/ FinishApply

ApplySpec == ApplyInit /\ [][ApplyNext]_applyVars

-----------------------------------------------------------------------------
(* Properties *)

ApplyTypeOK ==
  /\ TypeOK /\ Sub!TypeOK
  /\ applying \in BOOLEAN
  /\ applied \in Seq([order : Seq(Ref), edges : SUBSET ((Ref \cup {Main}) \X (Ref \cup {Main})),
                      included : SUBSET Class, caught : BOOLEAN])

\* Whatever happens in an apply block, the plan's evaluator cannot tell it from a
\* function that returned, failed or jumped: its catalog, classes, container and
\* templates are those of an evaluator that never saw the block, "a throwaway
\* sub-evaluator so its resource declarations build an independent catalog"
\* (compileApplyBlock).
PlanEvaluator == Spec

\* A catalog the executor gets stands on its own: each of its resources is
\* contained in the main class or in a resource of the same catalog, declared
\* before, so nothing hangs on a class that only the plan has declared.
AppliedStandsAlone ==
  \A k \in 1..Len(applied) :
    LET a == applied[k] IN
    \A i \in 1..Len(a.order) :
      \/ <<Main, a.order[i]>> \in a.edges
      \/ \E j \in 1..(i - 1) : <<a.order[j], a.order[i]>> \in a.edges

\* The classes that count as included when a catalog is applied are those it holds, but
\* for the ones a jump left half way that some call caught: a class the plan has is
\* declared once more where an apply block includes it, and a block that failed or
\* jumped out half way is never applied. ensure_resource alone puts a class into a
\* catalog that does not count as included (compileApplyBlock, declareClass).
AppliedClasses ==
  \A k \in 1..Len(applied) :
    LET a == applied[k]
        held == {c \in Class : \E i \in 1..Len(a.order) : a.order[i] = c}
    IN /\ held \subseteq a.included \cup Native
       /\ ~a.caught => a.included \subseteq held

\* What the executor gets is a catalog of its own and a whole one.
AppliedWhole == ApplyTypeOK /\ AppliedStandsAlone /\ AppliedClasses

=============================================================================
