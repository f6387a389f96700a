----------------------------- MODULE Evaluator ------------------------------
(***************************************************************************)
(* The compiler of eval/: how the statements of a manifest fill a catalog. *)
(*                                                                         *)
(* Evaluation is a recursive descent over the syntax tree that shares one  *)
(* Evaluator: the catalog, the set of included classes, the current        *)
(* container and the stack of EPP buffers. The Go call stack is the        *)
(* variable stack; an error or a jump (next, break, return) travels up it  *)
(* as the error result of every call, variable signal. The manifest is not *)
(* fixed: wherever the code evaluates a body or a default expression the   *)
(* model may take any statement, so a behaviour is the compilation of some *)
(* manifest, and every manifest within the bounds has its behaviours.      *)
(*                                                                         *)
(* Values and variables are abstracted: which branch a manifest takes and  *)
(* what its expressions yield is the choice of the next statement.         *)
(***************************************************************************)
EXTENDS Integers, Sequences

CONSTANTS
  Class,       \* the classes the program defines; also their references
  ClassName,   \* the names a manifest may include, defined or not
  Native,      \* references of resources of built-in types
  Instance,    \* references of instances of the program's defined types
  Type,        \* resource types
  TypeOf,      \* the type of each native resource and instance
  RelTarget,   \* the references relationships may name, declared or not
  FormUsed,    \* the resource forms manifests use
  CallKind,    \* the calls manifests make
  MaxDepth,    \* bound: depth of the call stack
  Main,        \* Class[main], the container when curContainer is empty
  None,        \* no parent class
  Absent       \* the status of a reference that is not in the catalog

Declarable == Native \cup Instance
Ref == Class \cup Declarable \cup (RelTarget \ {Main})

Call == {"func", "each", "slice", "with", "epp"}
Jump == {"next", "break", "return"}
Form == {"regular", "virtual", "exported"}

ASSUME EvaluatorAssumption ==
  /\ Class \subseteq ClassName
  /\ Native \cap Instance = {} /\ Class \cap Instance = {}
  /\ TypeOf \in [Declarable -> Type]
  /\ FormUsed \subseteq Form /\ CallKind \subseteq Call
  /\ MaxDepth \in Nat \ {0}
  /\ Main \notin Ref /\ None \notin ClassName /\ Absent \notin Form

VARIABLES
  order,         \* catalog: resources in declaration order
  status,        \* catalog: index, the form of each resource or Absent
  edges,         \* catalog: containment and relationship edges
  included,      \* classes declareClass has entered
  curContainer,  \* the resource whose body is being evaluated, or Main
  eppStack,      \* buffers of the EPP templates being rendered, by the
                 \* position on the call stack of the rendering
  stack,         \* the Go call stack, outermost call first
  signal         \* "none", "error" or the jump that is unwinding

catalog == <<order, status, edges>>
vars == <<order, status, edges, included, curContainer, eppStack, stack, signal>>

(***************************************************************************)
(* A frame is one call in progress. Its phase is what it is evaluating:    *)
(* the parent class, parameter defaults, the body, the calls of an         *)
(* iterator's block, or the node matches of a program. The body of an apply *)
(* block is the outermost call of an evaluator of its own (PlanApply).      *)
(***************************************************************************)
Kind == Call \cup {"program", "plan", "class", "define", "block", "apply"}
Phase == {"parent", "params", "body", "loop", "match", "node"}

Frame(kind, phase, ref, super) ==
  [kind |-> kind, phase |-> phase, ref |-> ref, super |-> super, prev |-> Main]
Entry(kind, phase) == Frame(kind, phase, Main, None)

Top == stack[Len(stack)]
Below == SubSeq(stack, 1, Len(stack) - 1)

Owner(f) == f.kind \in {"class", "define"} /\ f.phase = "body"
Rendering(f) == f.kind = "epp" /\ f.phase = "body"

Running == stack # << >> /\ signal = "none"
\* The code evaluates statements or expressions chosen by the manifest.
Evaluating == Running /\ Top.phase \in {"params", "body", "match", "node"}

Push(f) == Len(stack) < MaxDepth /\ stack' = Append(stack, f)
Enter(phase) == stack' = [stack EXCEPT ![Len(stack)] = [Top EXCEPT !.phase = phase]]

-----------------------------------------------------------------------------
(* The catalog *)

\* Mutant of Add: no look into the index before recording.
AddUnchecked(r, form) ==
  /\ order' = Append(order, r)
  /\ status' = [status EXCEPT ![r] = form]

Add(r, form) ==
  /\ status[r] = Absent
  /\ order' = Append(order, r)
  /\ status' = [status EXCEPT ![r] = form]

Duplicate(r) == status[r] # Absent /\ signal' = "error" /\ UNCHANGED <<order, status>>

\* Mutant of Contain: only named containers count, top-level resources float.
ContainNamed(S) == IF curContainer = Main THEN {} ELSE {curContainer} \X S

\* Edges from the container in force to every reference of S.
Contain(S) == {curContainer} \X S

-----------------------------------------------------------------------------
(* Host entry points *)

Init ==
  /\ order = << >> /\ edges = {} /\ status = [r \in Ref |-> Absent]
  /\ included = {} /\ curContainer = Main /\ eppStack = << >>
  /\ stack = << >> /\ signal = "none"

\* An evaluator may be asked for several programs and plans, one at a time,
\* also after one has failed.
EvalProgram ==
  /\ stack = << >>
  /\ stack' = <<Entry("program", "body")>>
  /\ signal' = "none"
  /\ UNCHANGED <<catalog, included, curContainer, eppStack>>

EvalPlan ==
  /\ stack = << >>
  /\ stack' = <<Entry("plan", "params")>>
  /\ signal' = "none"
  /\ UNCHANGED <<catalog, included, curContainer, eppStack>>

\* After the top-level statements the program matches its node definitions,
\* evaluating their match expressions, then runs the body of the one it found.
ApplyMatchingNode ==
  /\ Running /\ Top.kind = "program"
  /\ \/ Top.phase = "body" /\ Enter("match")
     \/ Top.phase = "match" /\ Enter("node")
  /\ UNCHANGED <<catalog, included, curContainer, eppStack, signal>>

-----------------------------------------------------------------------------
(* Statements *)

\* declareResource for a built-in type. The relationship metaparameters become
\* edges before the catalog is asked for the duplicate; a store may refuse an
\* exported resource after it was added. ensure_resource("class", ...) reaches
\* this with the reference of a class, so Native may meet Class.
DeclareResource(r, form, before, require) ==
  LET meta == ({r} \X before) \cup (require \X {r}) IN
  /\ Evaluating
  /\ \/ /\ Add(r, form)
        /\ edges' = edges \cup meta \cup Contain({r})
        /\ signal' \in IF form = "exported" THEN {"none", "error"} ELSE {"none"}
     \/ Duplicate(r) /\ edges' = edges \cup meta
  /\ UNCHANGED <<included, curContainer, eppStack, stack>>

\* A virtual or exported instance is evaluated like a regular one, and the
\* metaparameters of an instance add no edges.
InstantiateDefine(r, form) ==
  /\ Evaluating
  /\ \/ /\ Add(r, form)
        /\ edges' = edges \cup Contain({r})
        /\ Push(Frame("define", "params", r, None))
        /\ UNCHANGED signal
     \/ Duplicate(r) /\ UNCHANGED <<edges, stack>>
  /\ UNCHANGED <<included, curContainer, eppStack>>

\* Mutant of BeginClass: included before the class is known to be defined.
BeginClassUnknown(c, super) ==
  /\ included' = included \cup {c}
  /\ IF c \notin Class
     THEN signal' = "error" /\ UNCHANGED stack
     ELSE stack' = Append(stack, Frame("class", "parent", c, super)) /\ UNCHANGED signal

\* Mutant of BeginClass: not marked as included before its parent is evaluated.
BeginClassUnmarked(c, super) ==
  /\ IF c \notin Class
     THEN signal' = "error" /\ UNCHANGED stack
     ELSE stack' = Append(stack, Frame("class", "parent", c, super)) /\ UNCHANGED signal
  /\ UNCHANGED included

\* declareClass up to its parent: the class counts as included from here on.
\* Declaring it again, even while it is being declared, does nothing. The
\* parent super is a name the program may fail to define.
BeginClass(c, super) ==
  IF c \notin Class
  THEN signal' = "error" /\ UNCHANGED <<included, stack>>
  ELSE /\ included' = included \cup {c}
       /\ stack' = Append(stack, Frame("class", "parent", c, super))
       /\ UNCHANGED signal

DeclareClass(c, super) ==
  /\ Evaluating /\ Len(stack) < MaxDepth /\ c \notin included
  /\ BeginClass(c, super)
  /\ UNCHANGED <<catalog, curContainer, eppStack>>

DeclareParent(super) ==
  /\ Running /\ Top.phase = "parent"
  /\ Top.super # None /\ Top.super \notin included
  /\ BeginClass(Top.super, super)
  /\ UNCHANGED <<catalog, curContainer, eppStack>>

\* Mutant of AddClass: the parent, if there is one, need not have been declared.
AddClassEarly ==
  /\ Running /\ Top.phase = "parent"
  /\ \/ /\ Add(Top.ref, "regular")
        /\ edges' = edges \cup Contain({Top.ref})
        /\ Enter("params")
        /\ UNCHANGED signal
     \/ Duplicate(Top.ref) /\ UNCHANGED <<edges, stack>>
  /\ UNCHANGED <<included, curContainer, eppStack>>

\* Mutant of AddClass: only a parent that is in the catalog counts as declared.
AddClassWaiting ==
  /\ Running /\ Top.phase = "parent"
  /\ Top.super = None \/ (Top.super \in included /\ status[Top.super] # Absent)
  /\ \/ /\ Add(Top.ref, "regular")
        /\ edges' = edges \cup Contain({Top.ref})
        /\ Enter("params")
        /\ UNCHANGED signal
     \/ Duplicate(Top.ref) /\ UNCHANGED <<edges, stack>>
  /\ UNCHANGED <<included, curContainer, eppStack>>

\* declareClass after its parent: the class enters the catalog.
AddClass ==
  /\ Running /\ Top.phase = "parent"
  /\ Top.super = None \/ Top.super \in included
  /\ \/ /\ Add(Top.ref, "regular")
        /\ edges' = edges \cup Contain({Top.ref})
        /\ Enter("params")
        /\ UNCHANGED signal
     \/ Duplicate(Top.ref) /\ UNCHANGED <<edges, stack>>
  /\ UNCHANGED <<included, curContainer, eppStack>>

EvalRelationship(ls, rs) ==
  /\ Evaluating
  /\ edges' = edges \cup (ls \X rs)
  /\ UNCHANGED <<order, status, included, curContainer, eppStack, stack, signal>>

\* An override of a resource the catalog holds may add edges by metaparameters.
EvalResourceOverride(r, before, require) ==
  /\ Evaluating
  /\ \/ /\ status[r] # Absent
        /\ edges' = edges \cup ({r} \X before) \cup (require \X {r})
        /\ UNCHANGED signal
     \/ status[r] = Absent /\ signal' = "error" /\ UNCHANGED edges
  /\ UNCHANGED <<order, status, included, curContainer, eppStack, stack>>

\* A collector realizes the virtual (or exported) resources of a type its query
\* matches, in declaration order, and contains them once more. The query may
\* fail on one of them, with earlier ones already realized.
EvalCollector(t, form, S) ==
  LET candidates == {r \in Declarable : TypeOf[r] = t /\ status[r] = form} IN
  /\ Evaluating
  /\ S \subseteq candidates
  /\ status' = [r \in Ref |-> IF r \in S THEN "regular" ELSE status[r]]
  /\ edges' = edges \cup Contain(S)
  /\ signal' \in IF \E i \in 1..Len(order) :
                      /\ order[i] \in candidates \ S
                      /\ \A j \in i..Len(order) : order[j] \notin S
                   THEN {"none", "error"} ELSE {"none"}
  /\ UNCHANGED <<order, included, curContainer, eppStack, stack>>

\* A call of a user function, an iterator, with, or a template.
CallFunction(kind) ==
  /\ Evaluating
  /\ Push(Entry(kind, IF kind \in {"func", "epp"} THEN "params" ELSE "loop"))
  /\ UNCHANGED <<catalog, included, curContainer, eppStack, signal>>

\* An iterator calls its block for one more element.
CallBlock ==
  /\ Running /\ Top.phase = "loop"
  /\ Push(Entry("block", "params"))
  /\ UNCHANGED <<catalog, included, curContainer, eppStack, signal>>

\* fail(), an unknown function, a type mismatch, and every other statement
\* that only errs; the jump functions return their signal the same way.
Raise(s) ==
  /\ Evaluating
  /\ signal' = s
  /\ UNCHANGED <<catalog, included, curContainer, eppStack, stack>>

-----------------------------------------------------------------------------
(* Bodies: parameters bound, body entered, call returned *)

\* Mutant of EnterBody: the container found is not kept for the way out.
EnterBodyForgetting ==
  /\ Running /\ Top.phase = "params"
  /\ Enter("body")
  /\ curContainer' = IF Top.kind \in {"class", "define"} THEN Top.ref ELSE curContainer
  /\ eppStack' = IF Top.kind = "epp" THEN Append(eppStack, Len(stack)) ELSE eppStack
  /\ UNCHANGED <<catalog, included, signal>>

EnterBody ==
  /\ Running /\ Top.phase = "params"
  /\ IF Top.kind \in {"class", "define"}
     THEN /\ stack' = [stack EXCEPT ![Len(stack)] =
                         [Top EXCEPT !.phase = "body", !.prev = curContainer]]
          /\ curContainer' = Top.ref
     ELSE Enter("body") /\ UNCHANGED curContainer
  /\ eppStack' = IF Top.kind = "epp" THEN Append(eppStack, Len(stack)) ELSE eppStack
  /\ UNCHANGED <<catalog, included, signal>>

\* Mutant of Leave: the container is put back on success only.
LeaveOwning ==
  /\ stack' = Below
  /\ curContainer' = IF Owner(Top) /\ signal = "none" THEN Top.prev ELSE curContainer
  /\ eppStack' = IF Rendering(Top) THEN SubSeq(eppStack, 1, Len(eppStack) - 1)
                                   ELSE eppStack
  /\ UNCHANGED <<catalog, included>>

\* Mutant of Leave: the buffer is popped on success only.
LeaveRendering ==
  /\ stack' = Below
  /\ curContainer' = IF Owner(Top) THEN Top.prev ELSE curContainer
  /\ eppStack' = IF Rendering(Top) /\ signal = "none"
                 THEN SubSeq(eppStack, 1, Len(eppStack) - 1) ELSE eppStack
  /\ UNCHANGED <<catalog, included>>

\* What every call does on its way out, whether it succeeded or not.
Leave ==
  /\ stack' = Below
  /\ curContainer' = IF Owner(Top) THEN Top.prev ELSE curContainer
  /\ eppStack' = IF Rendering(Top) THEN SubSeq(eppStack, 1, Len(eppStack) - 1)
                                   ELSE eppStack
  /\ UNCHANGED <<catalog, included>>

\* The call turns a jump out of its body into a result.
Catches(f, s) ==
  \/ s = "return" /\ f.kind \in {"func", "plan"} /\ f.phase = "body"
  \/ s = "next" /\ f.kind = "block" /\ f.phase = "body"
  \/ s = "break" /\ f.kind = "each"

\* A result may still fail the declared return type of a user function.
Returned == IF Top.kind = "func" THEN {"none", "error"} ELSE {"none"}

Return ==
  /\ Running /\ Top.phase \in {"body", "loop", "node"}
  /\ Leave
  /\ signal' \in Returned

Unwind ==
  /\ stack # << >> /\ signal # "none"
  /\ Leave
  /\ signal' \in IF Catches(Top, signal) THEN Returned ELSE {signal}

-----------------------------------------------------------------------------
Statement ==
  \/ \E r \in Native, form \in FormUsed, b \in SUBSET RelTarget, q \in SUBSET RelTarget :
        DeclareResource(r, form, b, q)
  \/ \E r \in Instance, form \in FormUsed : InstantiateDefine(r, form)
  \/ \E c \in ClassName, super \in ClassName \cup {None} : DeclareClass(c, super)
  \/ \E ls, rs \in SUBSET RelTarget \ {{}} : EvalRelationship(ls, rs)
  \/ \E r \in Ref, b \in SUBSET RelTarget, q \in SUBSET RelTarget :
        EvalResourceOverride(r, b, q)
  \/ \E t \in Type, form \in FormUsed \ {"regular"}, S \in SUBSET Declarable :
        EvalCollector(t, form, S)
  \/ \E kind \in CallKind : CallFunction(kind)
  \/ \E s \in Jump \cup {"error"} : Raise(s)

Next ==
  \/ EvalProgram \/ EvalPlan \/ ApplyMatchingNode
  \/ Statement
  \/ \E super \in ClassName \cup {None} : DeclareParent(super)
  \/ AddClass \/ CallBlock \/ EnterBody \/ Return \/ Unwind

Spec == Init /\ [][Next]_vars

-----------------------------------------------------------------------------
(* Properties *)

FrameSet ==
  {f \in [kind : Kind, phase : Phase, ref : Ref \cup {Main},
          super : ClassName \cup {None}, prev : Ref \cup {Main}] :
     /\ f.kind = "class" => f.ref \in Class
     /\ f.kind = "define" => f.ref \in Instance
     /\ f.phase = "parent" => f.kind = "class"}

\* The type invariant.
TypeOK ==
  /\ order \in Seq(Ref)
  /\ status \in [Ref -> Form \cup {Absent}]
  /\ edges \in SUBSET ((Ref \cup {Main}) \X (Ref \cup {Main}))
  /\ included \in SUBSET Class
  /\ curContainer \in Ref \cup {Main}
  /\ eppStack \in Seq(Nat)
  /\ stack \in Seq(FrameSet)
  /\ signal \in Jump \cup {"none", "error"}

\* r is the resource whose body the n outermost calls of s are evaluating.
InForce(s, n, r) ==
  \/ r = Main /\ \A i \in 1..n : ~Owner(s[i])
  \/ \E i \in 1..n :
        /\ Owner(s[i]) /\ s[i].ref = r
        /\ \A j \in (i + 1)..n : ~Owner(s[j])

\* The current container is always the innermost class or instance whose body is
\* being evaluated, and the main class when there is none: every way out of a
\* body, by its end, by an error or by a jump that some call further out catches,
\* puts back the container it found (declareClass, instantiateDefine).
ContainerInForce == InForce(stack, Len(stack), curContainer)

\* The buffers of e are those of the templates s is rendering, outermost first.
Buffers(s, e) ==
  /\ \A k \in 1..Len(e) : e[k] \in 1..Len(s) /\ Rendering(s[e[k]])
  /\ \A k, l \in 1..Len(e) : k < l => e[k] < e[l]
  /\ \A i \in 1..Len(s) : Rendering(s[i]) => \E k \in 1..Len(e) : e[k] = i

\* Text always goes to the innermost template in progress, also after a template
\* was left by an error or a jump: the buffer stack follows the renderings on the
\* call stack (renderEPP, eppRender).
BuffersInForce == Buffers(stack, eppStack)

\* No class and no instance is under evaluation twice at a time, whatever cycle of
\* include, inherits and instantiation the manifest has: the included set and the
\* duplicate check of the catalog cut it (declareClass, instantiateDefine).
NoReentry ==
  \A i, j \in 1..Len(stack) :
    /\ stack[i].kind \in {"class", "define"} /\ stack[j].kind \in {"class", "define"}
    /\ stack[i].ref = stack[j].ref
    => i = j

\* The catalog the evaluator fills is one that CatalogLog describes: references
\* are recorded once and contained when recorded, nothing is dropped, and no
\* resource becomes virtual again, even when the compilation fails half way.
Log == INSTANCE CatalogLog WITH order <- order, status <- status, edges <- edges

IndexMatchesOrder == Log!IndexMatchesOrder
Contained == Log!Contained

\* What Get answers and what Resources lists agree, and nothing floats in the catalog, at
\* whatever point of a compilation: the calls that record, list and contain a resource are
\* separate ones of each statement (Catalog.Add, Catalog.AddEdge).
CatalogSound == IndexMatchesOrder /\ Contained

\* Every step of the evaluator is one of the abstract catalog or leaves it alone.
CatalogRefinement == Log!CatalogSpec

InProgress(c) == \E i \in 1..Len(stack) : stack[i].kind = "class" /\ stack[i].ref = c

\* When a call catches a jump and the compilation goes on, every class that counts
\* as included is in the catalog or being declared: "declareClass realizes a class
\* into the catalog exactly once" (eval/decl.go).
JumpKeepsClasses ==
  [][/\ Len(stack') > 0 /\ Len(stack) > 0
     /\ signal \in Jump /\ signal' = "none"
     => \A c \in included' : status'[c] # Absent \/ InProgress(c)']_vars

\* A break in a block ends the iteration that called the block: "a `break()`
\* propagates so the surrounding iterator can stop" (eval/call.go).
BreakStopsIterator ==
  [][signal = "break" /\ stack # << >> => (Top.kind \in {"each", "slice"} => signal' # "break")]_vars

=============================================================================
