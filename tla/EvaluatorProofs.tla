-------------------------- MODULE EvaluatorProofs ---------------------------
(***************************************************************************)
(* Proofs about Evaluator, for every program, any number of classes,       *)
(* defined types and resources, and any depth of calls.                    *)
(*                                                                         *)
(* A step changes the call stack in one of five ways, StackStep: not at    *)
(* all, by pushing a call, by moving the innermost call to a phase that    *)
(* owns nothing, by entering a body, or by leaving a call. What holds of   *)
(* the stack, the container and the buffers is proved shape by shape.      *)
(***************************************************************************)
EXTENDS Evaluator, TLAPS

Declares(f) == f.kind \in {"class", "define"}
Plain(f) == ~Owner(f) /\ ~Rendering(f)

\* With the index st, a container that edges may start from.
Known(r, st) == r = Main \/ st[r] # Absent

\* A class being declared is included; a class or instance whose parameters or
\* body are being evaluated is in the catalog, and so is the saved container.
FrameOK(f, st, inc) ==
  /\ f.kind = "class" => f.ref \in inc
  /\ Declares(f) /\ f.phase # "parent" => st[f.ref] # Absent
  /\ Known(f.prev, st)

FramesOK == (\A i \in 1..Len(stack) : FrameOK(stack[i], status, included)) /\ Known(curContainer, status)

\* Every body saved the container that was in force where it was entered.
ChainOK ==
  /\ ContainerInForce
  /\ \A i \in 1..Len(stack) : Owner(stack[i]) => InForce(stack, i - 1, stack[i].prev)

\* The inductive invariant.
IInv == TypeOK /\ FramesOK /\ ChainOK /\ BuffersInForce /\ NoReentry

-----------------------------------------------------------------------------
(* The five shapes of a step *)

Unmoved == UNCHANGED <<stack, curContainer, eppStack>>

Pushed(f) ==
  /\ f \in FrameSet /\ Plain(f) /\ FrameOK(f, status', included')
  /\ Declares(f) => \A i \in 1..Len(stack) : Declares(stack[i]) => stack[i].ref # f.ref
  /\ stack' = Append(stack, f)
  /\ UNCHANGED <<curContainer, eppStack>>

Moved(f) ==
  /\ stack # << >> /\ f \in FrameSet /\ Plain(Top) /\ Plain(f) /\ FrameOK(f, status', included')
  /\ f.kind = Top.kind /\ f.ref = Top.ref
  /\ stack' = [stack EXCEPT ![Len(stack)] = f]
  /\ UNCHANGED <<curContainer, eppStack>>

StackStep ==
  \/ Unmoved
  \/ \E f \in FrameSet : Pushed(f)
  \/ \E f \in FrameSet : Moved(f)
  \/ EnterBody
  \/ stack # << >> /\ Leave

\* What is declared or included stays so.
Grows ==
  /\ \A r \in Ref : status[r] # Absent => status'[r] # Absent
  /\ included \subseteq included'

LEMMA FrameType ==
  ASSUME NEW kind \in Kind, NEW phase \in Phase, NEW ref \in Ref \cup {Main},
         NEW super \in ClassName \cup {None},
         kind = "class" => ref \in Class, kind = "define" => ref \in Instance,
         phase = "parent" => kind = "class"
  PROVE  Frame(kind, phase, ref, super) \in FrameSet
BY DEF Frame, FrameSet

LEMMA EntryType ==
  ASSUME NEW kind \in Kind \ {"class", "define"}, NEW phase \in Phase \ {"parent"}
  PROVE  Entry(kind, phase) \in FrameSet
BY FrameType DEF Entry

LEMMA StackType ==
  ASSUME TypeOK
  PROVE  /\ Len(stack) \in Nat
         /\ \A i \in 1..Len(stack) : stack[i] \in FrameSet
         /\ stack # << >> => Len(stack) \in Nat \ {0} /\ Top \in FrameSet
BY DEF TypeOK, Top

\* The innermost call in another phase.
LEMMA PhaseType ==
  ASSUME TypeOK, stack # << >>, NEW phase \in Phase \ {"parent"}
  PROVE  /\ [Top EXCEPT !.phase = phase] \in FrameSet
         /\ [stack EXCEPT ![Len(stack)] = [Top EXCEPT !.phase = phase]] \in Seq(FrameSet)
<1>1. [Top EXCEPT !.phase = phase] \in FrameSet
  BY StackType DEF FrameSet
<1>2. QED
  BY <1>1, StackType DEF TypeOK

-----------------------------------------------------------------------------
(* Types *)

LEMMA TypeInit == Init => TypeOK
BY DEF Init, TypeOK, Jump, Form

LEMMA LeaveType ==
  ASSUME TypeOK, stack # << >>, Leave, signal' \in Jump \cup {"none", "error"}
  PROVE  TypeOK'
<1>1. stack' \in Seq(FrameSet)
  BY StackType DEF Leave, Below, TypeOK
<1>2. curContainer' \in Ref \cup {Main}
  BY StackType DEF Leave, TypeOK, FrameSet
<1>3. eppStack' \in Seq(Nat)
  <2>1. CASE eppStack = << >>
    BY <2>1 DEF Leave, TypeOK
  <2>2. CASE eppStack # << >>
    BY <2>2 DEF Leave, TypeOK
  <2>3. QED
    BY <2>1, <2>2
<1>4. QED
  BY <1>1, <1>2, <1>3 DEF Leave, TypeOK, catalog

LEMMA PushType ==
  ASSUME TypeOK, NEW f \in FrameSet, stack' = Append(stack, f)
  PROVE  stack' \in Seq(FrameSet)
BY DEF TypeOK

LEMMA ReplaceType ==
  ASSUME TypeOK, stack # << >>, NEW f \in FrameSet, stack' = [stack EXCEPT ![Len(stack)] = f]
  PROVE  stack' \in Seq(FrameSet)
BY StackType DEF TypeOK

LEMMA AddType ==
  ASSUME TypeOK, NEW r \in Ref, NEW form \in Form, Add(r, form)
  PROVE  /\ order' \in Seq(Ref)
         /\ status' \in [Ref -> Form \cup {Absent}]
         /\ Contain({r}) \in SUBSET ((Ref \cup {Main}) \X (Ref \cup {Main}))
BY DEF TypeOK, Add, Contain

LEMMA TypeNext == TypeOK /\ [Next]_vars => TypeOK'
<1> SUFFICES ASSUME TypeOK, [Next]_vars PROVE TypeOK'
  OBVIOUS
<1> USE DEF catalog, Form, Jump
<1>1. CASE EvalProgram
  <2>1. <<Entry("program", "body")>> \in Seq(FrameSet)
    BY EntryType DEF Kind, Phase
  <2>2. QED
    BY <1>1, <2>1 DEF EvalProgram, TypeOK
<1>2. CASE EvalPlan
  <2>1. <<Entry("plan", "params")>> \in Seq(FrameSet)
    BY EntryType DEF Kind, Phase
  <2>2. QED
    BY <1>2, <2>1 DEF EvalPlan, TypeOK
<1>3. CASE ApplyMatchingNode
  BY <1>3, PhaseType DEF ApplyMatchingNode, TypeOK, Enter, Running, Phase
<1>4. ASSUME NEW r \in Native, NEW form \in FormUsed, NEW b \in SUBSET RelTarget,
             NEW q \in SUBSET RelTarget, DeclareResource(r, form, b, q)
      PROVE  TypeOK'
  <2>1. r \in Ref /\ form \in Form /\ RelTarget \subseteq Ref \cup {Main}
    BY EvaluatorAssumption DEF Ref, Declarable
  <2>2. CASE Add(r, form)
    BY <1>4, <2>1, <2>2, AddType DEF DeclareResource, Add, Duplicate, TypeOK
  <2>3. CASE Duplicate(r)
    BY <1>4, <2>1, <2>3 DEF DeclareResource, Add, Duplicate, TypeOK
  <2>4. QED
    BY <1>4, <2>2, <2>3 DEF DeclareResource
<1>5. ASSUME NEW r \in Instance, NEW form \in FormUsed, InstantiateDefine(r, form)
      PROVE  TypeOK'
  <2>1. r \in Ref /\ form \in Form
    BY EvaluatorAssumption DEF Ref, Declarable
  <2>2. Frame("define", "params", r, None) \in FrameSet
    BY <2>1, FrameType DEF Kind, Phase
  <2>3. CASE Add(r, form)
    <3>1. stack' \in Seq(FrameSet)
      BY <1>5, <2>2, <2>3, PushType DEF InstantiateDefine, Push, Add, Duplicate
    <3>2. QED
      BY <1>5, <2>1, <2>3, <3>1, AddType DEF InstantiateDefine, Add, Duplicate, TypeOK
  <2>4. CASE Duplicate(r)
    BY <1>5, <2>4 DEF InstantiateDefine, Add, Duplicate, TypeOK
  <2>5. QED
    BY <1>5, <2>3, <2>4 DEF InstantiateDefine
<1>6. ASSUME NEW c \in ClassName, NEW super \in ClassName \cup {None}, BeginClass(c, super),
             UNCHANGED <<order, status, edges, curContainer, eppStack>>
      PROVE  TypeOK'
  <2>1. CASE c \in Class
    <3>1. Frame("class", "parent", c, super) \in FrameSet
      BY <2>1, FrameType DEF Kind, Phase, Ref
    <3>2. QED
      BY <1>6, <2>1, <3>1, PushType DEF BeginClass, TypeOK
  <2>2. QED
    BY <1>6, <2>1 DEF BeginClass, TypeOK
<1>7. ASSUME NEW c \in ClassName, NEW super \in ClassName \cup {None}, DeclareClass(c, super)
      PROVE  TypeOK'
  BY <1>6, <1>7 DEF DeclareClass
<1>8. ASSUME NEW super \in ClassName \cup {None}, DeclareParent(super)
      PROVE  TypeOK'
  <2>1. Top.super \in ClassName
    BY <1>8, StackType DEF DeclareParent, FrameSet, Running
  <2>2. QED
    BY <1>6, <1>8, <2>1 DEF DeclareParent
<1>9. CASE AddClass
  <2>1. stack # << >> /\ Top.ref \in Class
    BY <1>9, StackType DEF AddClass, Running, FrameSet
  <2>2. [stack EXCEPT ![Len(stack)] = [Top EXCEPT !.phase = "params"]] \in Seq(FrameSet)
    BY <2>1, PhaseType DEF Phase
  <2>3. Top.ref \in Ref
    BY <2>1 DEF Ref
  <2>4. CASE Add(Top.ref, "regular")
    <3>1. stack' \in Seq(FrameSet) /\ signal' = signal
      BY <1>9, <2>2, <2>4 DEF AddClass, Add, Duplicate, Enter
    <3>2. edges' = edges \cup Contain({Top.ref})
      BY <1>9, <2>4 DEF AddClass, Add, Duplicate
    <3>3. QED
      BY <1>9, <2>3, <2>4, <3>1, <3>2, AddType DEF AddClass, TypeOK
  <2>5. CASE Duplicate(Top.ref)
    BY <1>9, <2>5 DEF AddClass, Add, Duplicate, TypeOK
  <2>6. QED
    BY <1>9, <2>4, <2>5 DEF AddClass
<1>10. ASSUME NEW ls \in SUBSET RelTarget, NEW rs \in SUBSET RelTarget, EvalRelationship(ls, rs)
       PROVE  TypeOK'
  BY <1>10 DEF EvalRelationship, TypeOK, Ref
<1>11. ASSUME NEW r \in Ref, NEW b \in SUBSET RelTarget, NEW q \in SUBSET RelTarget,
              EvalResourceOverride(r, b, q)
       PROVE  TypeOK'
  BY <1>11 DEF EvalResourceOverride, TypeOK, Ref
<1>12. ASSUME NEW t \in Type, NEW form \in FormUsed \ {"regular"}, NEW S \in SUBSET Declarable,
              EvalCollector(t, form, S)
       PROVE  TypeOK'
  BY <1>12 DEF EvalCollector, TypeOK, Contain, Ref
<1>13. ASSUME NEW kind \in CallKind, CallFunction(kind)
       PROVE  TypeOK'
  <2>1. Entry(kind, IF kind \in {"func", "epp"} THEN "params" ELSE "loop") \in FrameSet
    BY EntryType, EvaluatorAssumption DEF Kind, Phase, Call
  <2>2. QED
    BY <1>13, <2>1, PushType DEF CallFunction, Push, TypeOK
<1>14. ASSUME NEW s \in {"next", "break", "return"} \cup {"error"}, Raise(s)
       PROVE  TypeOK'
  BY <1>14 DEF Raise, TypeOK
<1>15. CASE CallBlock
  <2>1. Entry("block", "params") \in FrameSet
    BY EntryType DEF Kind, Phase
  <2>2. QED
    BY <1>15, <2>1, PushType DEF CallBlock, Push, TypeOK
<1>16. CASE EnterBody
  <2>1. stack # << >>
    BY <1>16 DEF EnterBody, Running
  <2>2. curContainer' \in Ref \cup {Main}
    BY <1>16, <2>1, StackType DEF EnterBody, TypeOK, FrameSet
  <2>3. stack' \in Seq(FrameSet)
    <3>1. CASE Top.kind \in {"class", "define"}
      <4>1. [Top EXCEPT !.phase = "body", !.prev = curContainer] \in FrameSet
        BY <2>1, StackType DEF FrameSet, Phase, TypeOK
      <4>2. QED
        BY <1>16, <2>1, <3>1, <4>1, ReplaceType DEF EnterBody
    <3>2. CASE Top.kind \notin {"class", "define"}
      BY <1>16, <2>1, <3>2, PhaseType DEF EnterBody, Enter, Phase
    <3>3. QED
      BY <3>1, <3>2
  <2>4. eppStack' \in Seq(Nat)
    BY <1>16, StackType DEF EnterBody, TypeOK
  <2>5. QED
    BY <1>16, <2>2, <2>3, <2>4 DEF EnterBody, TypeOK
<1>17. CASE Return
  BY <1>17, LeaveType DEF Return, Running, Returned
<1>18. CASE Unwind
  BY <1>18, LeaveType DEF Unwind, Returned, TypeOK
<1>19. CASE UNCHANGED vars
  BY <1>19 DEF vars, TypeOK
<1>20. QED
  BY <1>1, <1>2, <1>3, <1>4, <1>5, <1>7, <1>8, <1>9, <1>10, <1>11, <1>12, <1>13, <1>14,
     <1>15, <1>16, <1>17, <1>18, <1>19
     DEF Next, Statement

-----------------------------------------------------------------------------
(* Every step has one of the five shapes, and forgets nothing *)

\* Outside collectors the catalog only records; the index never loses a reference.
LEMMA GrowsNext == TypeOK /\ [Next]_vars => Grows
<1> SUFFICES ASSUME TypeOK, [Next]_vars PROVE Grows
  OBVIOUS
<1>1. ASSUME NEW r \in Ref, NEW form \in Form, Add(r, form), included' = included
      PROVE  Grows
  BY <1>1, EvaluatorAssumption DEF Add, Grows, TypeOK
<1>2. CASE status' = status /\ included \subseteq included'
  BY <1>2 DEF Grows
<1>3. ASSUME NEW r \in Native, NEW form \in FormUsed, NEW b \in SUBSET RelTarget,
             NEW q \in SUBSET RelTarget, DeclareResource(r, form, b, q)
      PROVE  Grows
  BY <1>1, <1>2, <1>3, EvaluatorAssumption DEF DeclareResource, Duplicate, Ref, Declarable
<1>4. ASSUME NEW r \in Instance, NEW form \in FormUsed, InstantiateDefine(r, form)
      PROVE  Grows
  BY <1>1, <1>2, <1>4, EvaluatorAssumption DEF InstantiateDefine, Duplicate, Ref, Declarable
<1>5. ASSUME NEW c \in ClassName, NEW super \in ClassName \cup {None}, DeclareClass(c, super)
      PROVE  Grows
  BY <1>2, <1>5 DEF DeclareClass, BeginClass, catalog
<1>6. ASSUME NEW super \in ClassName \cup {None}, DeclareParent(super)
      PROVE  Grows
  BY <1>2, <1>6 DEF DeclareParent, BeginClass, catalog
<1>7. CASE AddClass
  <2>1. Top.ref \in Ref
    BY <1>7, StackType DEF AddClass, Running, FrameSet, Ref
  <2>2. QED
    BY <1>1, <1>2, <1>7, <2>1 DEF AddClass, Duplicate, Form
<1>8. ASSUME NEW t \in Type, NEW form \in FormUsed \ {"regular"}, NEW S \in SUBSET Declarable,
             EvalCollector(t, form, S)
      PROVE  Grows
  BY <1>8, EvaluatorAssumption DEF EvalCollector, Grows, Form
<1>9. QED
  BY <1>2, <1>3, <1>4, <1>5, <1>6, <1>7, <1>8
     DEF Next, Statement, EvalProgram, EvalPlan, ApplyMatchingNode, EvalRelationship,
         EvalResourceOverride, CallFunction, Raise, CallBlock, EnterBody, Return, Unwind,
         Leave, catalog, vars

\* A call that declares nothing is pushed.
LEMMA PushEntry ==
  ASSUME NEW kind \in Kind \ {"class", "define"}, NEW phase \in Phase \ {"parent"},
         ~(kind = "epp" /\ phase = "body"),
         stack' = Append(stack, Entry(kind, phase)),
         UNCHANGED <<curContainer, eppStack>>
  PROVE  StackStep
<1> DEFINE f == Entry(kind, phase)
<1>1. f.kind = kind /\ f.phase = phase /\ f.prev = Main
  BY DEF Entry, Frame
<1>2. f \in FrameSet
  BY EntryType
<1>3. FrameOK(f, status', included')
  BY <1>1 DEF FrameOK, Declares, Known
<1>4. Pushed(f)
  BY <1>1, <1>2, <1>3 DEF Pushed, Plain, Owner, Rendering, Declares
<1>5. QED
  BY <1>2, <1>4 DEF StackStep

LEMMA Shapes == TypeOK /\ FramesOK /\ [Next]_vars => StackStep
<1> SUFFICES ASSUME TypeOK, FramesOK, [Next]_vars PROVE StackStep
  OBVIOUS
<1>0. Grows
  BY GrowsNext
<1>1. CASE Unmoved
  BY <1>1 DEF StackStep
<1>2. CASE EvalProgram
  <2>1. stack' = Append(stack, Entry("program", "body"))
    BY <1>2, EntryType DEF EvalProgram, Kind, Phase
  <2>2. QED
    BY <1>2, <2>1, PushEntry DEF EvalProgram, Kind, Phase
<1>3. CASE EvalPlan
  <2>1. stack' = Append(stack, Entry("plan", "params"))
    BY <1>3, EntryType DEF EvalPlan, Kind, Phase
  <2>2. QED
    BY <1>3, <2>1, PushEntry DEF EvalPlan, Kind, Phase
<1>4. CASE ApplyMatchingNode
  <2>1. PICK phase \in {"match", "node"} : Enter(phase)
    BY <1>4 DEF ApplyMatchingNode
  <2>2. stack # << >> /\ Top \in FrameSet /\ Top.kind = "program"
    BY <1>4, StackType DEF ApplyMatchingNode, Running
  <2>3. PICK f \in FrameSet : f = [Top EXCEPT !.phase = phase]
    BY <2>2, PhaseType DEF Phase
  <2>4. f.kind = "program" /\ f.phase = phase /\ f.ref = Top.ref /\ f.prev = Top.prev
    BY <2>2, <2>3 DEF FrameSet
  <2>5. Known(f.prev, status)
    BY <2>2, <2>4, StackType DEF FramesOK, FrameOK, Top
  <2>6. FrameOK(f, status', included')
    BY <2>2, <2>4, <2>5, <1>4 DEF FrameOK, Declares, Known, ApplyMatchingNode, catalog
  <2>7. Moved(f)
    BY <1>4, <2>1, <2>2, <2>3, <2>4, <2>6, StackType
       DEF Moved, Plain, Owner, Rendering, Enter, ApplyMatchingNode
  <2>8. QED
    BY <2>3, <2>7 DEF StackStep
<1>5. ASSUME NEW r \in Instance, NEW form \in FormUsed, InstantiateDefine(r, form)
      PROVE  StackStep
  <2>1. CASE Duplicate(r)
    BY <1>1, <1>5, <2>1 DEF InstantiateDefine, Unmoved, Add, Duplicate
  <2>2. CASE Add(r, form)
    <3> DEFINE f == Frame("define", "params", r, None)
    <3>1. r \in Ref /\ form \in Form
      BY EvaluatorAssumption DEF Ref, Declarable
    <3>2. f \in FrameSet
      BY <3>1, FrameType DEF Kind, Phase
    <3>3. f.kind = "define" /\ f.phase = "params" /\ f.ref = r /\ f.prev = Main
      BY DEF Frame
    <3>4. status'[r] # Absent
      BY <2>2, <3>1, EvaluatorAssumption DEF Add, TypeOK
    <3>5. FrameOK(f, status', included')
      BY <3>3, <3>4 DEF FrameOK, Declares, Known
    <3>6. ASSUME NEW i \in 1..Len(stack), Declares(stack[i])
          PROVE  stack[i].ref # r
      <4>1. stack[i].kind = "class" => stack[i].ref \in Class
        BY StackType DEF FrameSet
      <4>2. stack[i].kind = "define" => status[stack[i].ref] # Absent
        BY StackType DEF FramesOK, FrameOK, Declares, FrameSet
      <4>3. QED
        BY <2>2, <3>6, <4>1, <4>2, EvaluatorAssumption DEF Declares, Add
    <3>7. stack' = Append(stack, f) /\ UNCHANGED <<curContainer, eppStack>>
      BY <1>5, <2>2 DEF InstantiateDefine, Push, Add, Duplicate
    <3>8. Pushed(f)
      BY <3>2, <3>3, <3>5, <3>6, <3>7 DEF Pushed, Plain, Owner, Rendering
    <3>9. QED
      BY <3>2, <3>8 DEF StackStep
  <2>3. QED
    BY <1>5, <2>1, <2>2 DEF InstantiateDefine
<1>6. ASSUME NEW c \in ClassName \ included, NEW super \in ClassName \cup {None},
             BeginClass(c, super), UNCHANGED <<curContainer, eppStack>>
      PROVE  StackStep
  <2>1. CASE c \notin Class
    BY <1>1, <1>6, <2>1 DEF BeginClass, Unmoved
  <2>2. CASE c \in Class
    <3> DEFINE f == Frame("class", "parent", c, super)
    <3>1. f \in FrameSet
      BY <2>2, FrameType DEF Kind, Phase, Ref
    <3>2. f.kind = "class" /\ f.phase = "parent" /\ f.ref = c /\ f.prev = Main
      BY DEF Frame
    <3>3. FrameOK(f, status', included')
      BY <1>6, <2>2, <3>2 DEF FrameOK, Declares, Known, BeginClass
    <3>4. ASSUME NEW i \in 1..Len(stack), Declares(stack[i])
          PROVE  stack[i].ref # c
      <4>1. stack[i].kind = "class" => stack[i].ref \in included
        BY DEF FramesOK, FrameOK
      <4>2. stack[i].kind = "define" => stack[i].ref \in Instance
        BY StackType DEF FrameSet
      <4>3. QED
        BY <2>2, <3>4, <4>1, <4>2, EvaluatorAssumption DEF Declares
    <3>5. Pushed(f)
      BY <1>6, <2>2, <3>1, <3>2, <3>3, <3>4 DEF Pushed, Plain, Owner, Rendering, BeginClass
    <3>6. QED
      BY <3>1, <3>5 DEF StackStep
  <2>3. QED
    BY <2>1, <2>2
<1>7. ASSUME NEW c \in ClassName, NEW super \in ClassName \cup {None}, DeclareClass(c, super)
      PROVE  StackStep
  BY <1>6, <1>7 DEF DeclareClass
<1>8. ASSUME NEW super \in ClassName \cup {None}, DeclareParent(super)
      PROVE  StackStep
  <2>1. Top.super \in ClassName
    BY <1>8, StackType DEF DeclareParent, FrameSet, Running
  <2>2. QED
    BY <1>6, <1>8, <2>1 DEF DeclareParent
<1>9. CASE AddClass
  <2>1. CASE Duplicate(Top.ref)
    BY <1>1, <1>9, <2>1 DEF AddClass, Unmoved, Add, Duplicate
  <2>2. CASE Add(Top.ref, "regular")
    <3>1. stack # << >> /\ Top \in FrameSet /\ Top.phase = "parent" /\ Top.kind = "class"
      BY <1>9, StackType DEF AddClass, Running, FrameSet
    <3>2. PICK f \in FrameSet : f = [Top EXCEPT !.phase = "params"]
      BY <3>1, PhaseType DEF Phase
    <3>3. f.kind = "class" /\ f.phase = "params" /\ f.ref = Top.ref /\ f.prev = Top.prev
      BY <3>1, <3>2 DEF FrameSet
    <3>4. Top.ref \in Ref
      BY <3>1 DEF FrameSet, Ref
    <3>5. FrameOK(Top, status, included)
      BY <3>1, StackType DEF FramesOK, Top
    <3>6. status'[Top.ref] # Absent /\ included' = included
      BY <1>9, <2>2, <3>4, EvaluatorAssumption DEF Add, AddClass, TypeOK, Form
    <3>7. Top.prev = Main \/ status'[Top.prev] # Absent
      BY <1>0, <3>1, <3>5 DEF FrameOK, Known, Grows, FrameSet
    <3>8. FrameOK(f, status', included')
      BY <3>1, <3>3, <3>5, <3>6, <3>7 DEF FrameOK, Declares, Known
    <3>9. stack' = [stack EXCEPT ![Len(stack)] = f] /\ UNCHANGED <<curContainer, eppStack>>
      BY <1>9, <2>2, <3>2 DEF AddClass, Enter, Add, Duplicate
    <3>10. Moved(f)
      BY <3>1, <3>2, <3>3, <3>8, <3>9 DEF Moved, Plain, Owner, Rendering
    <3>11. QED
      BY <3>2, <3>10 DEF StackStep
  <2>3. QED
    BY <1>9, <2>1, <2>2 DEF AddClass
<1>10. ASSUME NEW kind \in CallKind, CallFunction(kind)
       PROVE  StackStep
  <2> DEFINE phase == IF kind \in {"func", "epp"} THEN "params" ELSE "loop"
  <2>1. kind \in Kind \ {"class", "define"} /\ phase \in Phase \ {"parent"} /\ phase # "body"
    BY EvaluatorAssumption DEF Kind, Phase, Call
  <2>2. stack' = Append(stack, Entry(kind, phase)) /\ UNCHANGED <<curContainer, eppStack>>
    BY <1>10 DEF CallFunction, Push
  <2> HIDE DEF phase
  <2>3. QED
    BY <2>1, <2>2, PushEntry
<1>11. CASE CallBlock
  BY <1>11, PushEntry DEF CallBlock, Push, Kind, Phase
<1>12. CASE EnterBody
  BY <1>12 DEF StackStep
<1>13. CASE Return \/ Unwind
  BY <1>13 DEF StackStep, Return, Unwind, Running
<1>14. QED
  BY <1>1, <1>2, <1>3, <1>4, <1>5, <1>7, <1>8, <1>9, <1>10, <1>11, <1>12, <1>13
     DEF Next, Statement, DeclareResource, EvalRelationship, EvalResourceOverride,
         EvalCollector, Raise, vars, Unmoved

-----------------------------------------------------------------------------
(* What each shape does to the call stack, position by position *)

LEMMA PushShape ==
  ASSUME TypeOK, NEW f, Pushed(f)
  PROVE  /\ Len(stack') = Len(stack) + 1 /\ stack'[Len(stack) + 1] = f
         /\ \A i \in 1..Len(stack) : stack'[i] = stack[i]
BY DEF TypeOK, Pushed

LEMMA MoveShape ==
  ASSUME TypeOK, NEW f, Moved(f)
  PROVE  /\ Len(stack') = Len(stack) /\ stack'[Len(stack)] = f
         /\ \A i \in 1..(Len(stack) - 1) : stack'[i] = stack[i]
BY StackType DEF TypeOK, Moved

LEMMA EnterShape ==
  ASSUME TypeOK, EnterBody
  PROVE  /\ stack # << >> /\ Len(stack') = Len(stack)
         /\ \A i \in 1..(Len(stack) - 1) : stack'[i] = stack[i]
         /\ Top.phase = "params" /\ stack'[Len(stack)].phase = "body"
         /\ stack'[Len(stack)].kind = Top.kind /\ stack'[Len(stack)].ref = Top.ref
         /\ Declares(Top) => /\ stack'[Len(stack)].prev = curContainer
                             /\ curContainer' = Top.ref
         /\ ~Declares(Top) => /\ stack'[Len(stack)].prev = Top.prev
                              /\ curContainer' = curContainer
<1>1. stack # << >> /\ Top \in FrameSet /\ Len(stack) \in Nat \ {0}
  BY StackType DEF EnterBody, Running
<1>2. CASE Declares(Top)
  <2>1. PICK f : f = [Top EXCEPT !.phase = "body", !.prev = curContainer]
    OBVIOUS
  <2>2. f.phase = "body" /\ f.prev = curContainer /\ f.kind = Top.kind /\ f.ref = Top.ref
    BY <1>1, <2>1 DEF FrameSet
  <2>3. stack' = [stack EXCEPT ![Len(stack)] = f] /\ curContainer' = Top.ref
    BY <1>2, <2>1 DEF EnterBody, Declares
  <2>4. /\ Len(stack') = Len(stack) /\ stack'[Len(stack)] = f
        /\ \A i \in 1..(Len(stack) - 1) : stack'[i] = stack[i]
    BY <1>1, <2>3 DEF TypeOK
  <2>5. QED
    BY <1>1, <1>2, <2>2, <2>3, <2>4 DEF EnterBody
<1>3. CASE ~Declares(Top)
  <2>1. PICK f : f = [Top EXCEPT !.phase = "body"]
    OBVIOUS
  <2>2. f.phase = "body" /\ f.prev = Top.prev /\ f.kind = Top.kind /\ f.ref = Top.ref
    BY <1>1, <2>1 DEF FrameSet
  <2>3. stack' = [stack EXCEPT ![Len(stack)] = f] /\ curContainer' = curContainer
    BY <1>3, <2>1 DEF EnterBody, Declares, Enter
  <2>4. /\ Len(stack') = Len(stack) /\ stack'[Len(stack)] = f
        /\ \A i \in 1..(Len(stack) - 1) : stack'[i] = stack[i]
    BY <1>1, <2>3 DEF TypeOK
  <2>5. QED
    BY <1>1, <1>3, <2>2, <2>3, <2>4 DEF EnterBody
<1>4. QED
  BY <1>2, <1>3

\* A sequence without its last element.
LEMMA FrontShape ==
  ASSUME NEW S, NEW q \in Seq(S), q # << >>
  PROVE  /\ SubSeq(q, 1, Len(q) - 1) \in Seq(S)
         /\ Len(SubSeq(q, 1, Len(q) - 1)) = Len(q) - 1
         /\ \A i \in 1..(Len(q) - 1) : SubSeq(q, 1, Len(q) - 1)[i] = q[i]
OBVIOUS

LEMMA LeaveShape ==
  ASSUME TypeOK, stack # << >>, Leave
  PROVE  /\ Len(stack') = Len(stack) - 1
         /\ \A i \in 1..(Len(stack) - 1) : stack'[i] = stack[i]
BY FrontShape DEF Leave, Below, TypeOK

-----------------------------------------------------------------------------
(* The frames *)

\* What held of a frame still holds of it after more is declared and included.
LEMMA FrameKept ==
  ASSUME Grows, NEW f \in FrameSet, FrameOK(f, status, included)
  PROVE  FrameOK(f, status', included')
BY DEF Grows, FrameOK, Declares, Known, FrameSet, Ref, Declarable

LEMMA FramesNext == TypeOK /\ FramesOK /\ [Next]_vars => FramesOK'
<1> SUFFICES ASSUME TypeOK, FramesOK, [Next]_vars PROVE FramesOK'
  OBVIOUS
<1> DEFINE OK(f) == FrameOK(f, status', included')
<1>1. Grows /\ StackStep
  BY GrowsNext, Shapes
<1>2. \A i \in 1..Len(stack) : OK(stack[i])
  BY <1>1, FrameKept, StackType DEF FramesOK
<1>3. Known(curContainer, status')
  BY <1>1 DEF FramesOK, TypeOK, Known, Grows
<1>4. stack # << >> => /\ Known(Top.prev, status')
                       /\ Declares(Top) /\ Top.phase # "parent" => status'[Top.ref] # Absent
                       /\ Top.kind = "class" => Top.ref \in included'
  BY <1>2, StackType DEF FrameOK, Top
<1>5. Len(stack) \in Nat /\ (stack # << >> => Len(stack) \in Nat \ {0})
  BY StackType
<1> SUFFICES /\ \A i \in 1..Len(stack') : OK(stack'[i])
             /\ Known(curContainer', status')
  BY DEF FramesOK
<1>6. CASE Unmoved
  BY <1>2, <1>3, <1>6 DEF Unmoved
<1>7. ASSUME NEW f \in FrameSet, Pushed(f)
      PROVE  (\A i \in 1..Len(stack') : OK(stack'[i])) /\ Known(curContainer', status')
  <2>1. OK(f) /\ curContainer' = curContainer
    BY <1>7 DEF Pushed
  <2> HIDE DEF OK
  <2>2. QED
    BY <1>2, <1>3, <1>5, <1>7, <2>1, PushShape
<1>8. ASSUME NEW f \in FrameSet, Moved(f)
      PROVE  (\A i \in 1..Len(stack') : OK(stack'[i])) /\ Known(curContainer', status')
  <2>1. OK(f) /\ curContainer' = curContainer
    BY <1>8 DEF Moved
  <2> HIDE DEF OK
  <2>2. QED
    BY <1>2, <1>3, <1>5, <1>8, <2>1, MoveShape
<1>9. CASE EnterBody
  <2>1. OK(stack'[Len(stack)])
    BY <1>3, <1>4, <1>9, EnterShape DEF FrameOK, Declares
  <2>2. Known(curContainer', status')
    BY <1>3, <1>4, <1>9, EnterShape DEF Known
  <2> HIDE DEF OK
  <2>3. QED
    BY <1>2, <1>5, <1>9, <2>1, <2>2, EnterShape
<1>10. CASE stack # << >> /\ Leave
  <2>1. Known(curContainer', status')
    BY <1>3, <1>4, <1>10 DEF Leave
  <2> HIDE DEF OK
  <2>2. QED
    BY <1>2, <1>5, <1>10, <2>1, LeaveShape
<1>11. QED
  BY <1>1, <1>6, <1>7, <1>8, <1>9, <1>10 DEF StackStep

-----------------------------------------------------------------------------
(* The container in force *)

\* Only the owners among the n outermost calls decide what is in force.
LEMMA InForceSame ==
  ASSUME NEW s, NEW t, NEW n \in Nat, NEW r,
         \A i \in 1..n : (Owner(s[i]) <=> Owner(t[i])) /\ (Owner(s[i]) => s[i].ref = t[i].ref),
         InForce(s, n, r)
  PROVE  InForce(t, n, r)
<1> HIDE DEF Owner
<1>1. CASE r = Main /\ \A i \in 1..n : ~Owner(s[i])
  BY <1>1 DEF InForce
<1>2. CASE \E i \in 1..n : Owner(s[i]) /\ s[i].ref = r /\ \A j \in (i + 1)..n : ~Owner(s[j])
  <2>1. PICK i \in 1..n : Owner(s[i]) /\ s[i].ref = r /\ \A j \in (i + 1)..n : ~Owner(s[j])
    BY <1>2
  <2>2. \A j \in (i + 1)..n : j \in 1..n
    OBVIOUS
  <2>3. QED
    BY <2>1, <2>2 DEF InForce
<1>3. QED
  BY <1>1, <1>2 DEF InForce

\* A call that owns nothing changes nothing.
LEMMA InForcePlain ==
  ASSUME NEW s, NEW n \in Nat, NEW r, ~Owner(s[n + 1])
  PROVE  InForce(s, n, r) <=> InForce(s, n + 1, r)
<1> HIDE DEF Owner
<1>1. ASSUME InForce(s, n, r) PROVE InForce(s, n + 1, r)
  BY <1>1 DEF InForce
<1>2. ASSUME InForce(s, n + 1, r) PROVE InForce(s, n, r)
  <2>1. CASE r = Main /\ \A i \in 1..(n + 1) : ~Owner(s[i])
    BY <2>1 DEF InForce
  <2>2. CASE \E i \in 1..(n + 1) :
               Owner(s[i]) /\ s[i].ref = r /\ \A j \in (i + 1)..(n + 1) : ~Owner(s[j])
    <3>1. PICK i \in 1..(n + 1) :
                 Owner(s[i]) /\ s[i].ref = r /\ \A j \in (i + 1)..(n + 1) : ~Owner(s[j])
      BY <2>2
    <3>2. i # n + 1
      BY <3>1
    <3>3. i \in 1..n /\ \A j \in (i + 1)..n : j \in (i + 1)..(n + 1)
      BY <3>2
    <3>4. QED
      BY <3>1, <3>3 DEF InForce
  <2>3. QED
    BY <1>2, <2>1, <2>2 DEF InForce
<1>3. QED
  BY <1>1, <1>2

LEMMA InForceOwner ==
  ASSUME NEW s, NEW n \in Nat \ {0}, Owner(s[n])
  PROVE  InForce(s, n, s[n].ref)
BY DEF InForce

LEMMA ChainNext == TypeOK /\ FramesOK /\ ChainOK /\ [Next]_vars => ChainOK'
<1> SUFFICES ASSUME TypeOK, FramesOK, ChainOK, [Next]_vars PROVE ChainOK'
  OBVIOUS
<1> DEFINE n == Len(stack)
<1> DEFINE Chained(s, i) == Owner(s[i]) => InForce(s, i - 1, s[i].prev)
<1>1. StackStep /\ n \in Nat /\ (stack # << >> => n \in Nat \ {0} /\ n - 1 \in Nat)
  BY Shapes, StackType
<1>2. InForce(stack, n, curContainer) /\ \A i \in 1..n : Chained(stack, i)
  BY DEF ChainOK, ContainerInForce
\* Positions below the change stay chained.
<1>3. ASSUME NEW m \in Nat, m <= n, \A i \in 1..m : stack'[i] = stack[i]
      PROVE  /\ \A i \in 1..m : Chained(stack', i)
             /\ \A r : InForce(stack, m, r) <=> InForce(stack', m, r)
  <2>1. \A i \in 1..m : i \in 1..n /\ i - 1 \in Nat /\ \A j \in 1..(i - 1) : j \in 1..m
    BY <1>1, <1>3
  <2>2. ASSUME NEW i \in 1..m, Owner(stack'[i])
        PROVE  InForce(stack', i - 1, stack'[i].prev)
    <3>1. InForce(stack, i - 1, stack[i].prev)
      BY <1>2, <1>3, <2>1, <2>2
    <3>2. \A j \in 1..(i - 1) : stack'[j] = stack[j]
      BY <1>3, <2>1
    <3>3. i - 1 \in Nat /\ stack'[i].prev = stack[i].prev
      BY <1>3, <2>1
    <3>4. QED
      BY <3>1, <3>2, <3>3, InForceSame
  <2>3. \A r : InForce(stack, m, r) <=> InForce(stack', m, r)
    BY <1>3, InForceSame
  <2>4. QED
    BY <2>2, <2>3
<1> SUFFICES /\ InForce(stack', Len(stack'), curContainer')
             /\ \A i \in 1..Len(stack') : Chained(stack', i)
  BY DEF ChainOK, ContainerInForce
<1>4. CASE Unmoved
  BY <1>2, <1>4 DEF Unmoved
<1>5. ASSUME NEW f \in FrameSet, Pushed(f)
      PROVE  /\ InForce(stack', Len(stack'), curContainer')
             /\ \A i \in 1..Len(stack') : Chained(stack', i)
  <2>1. /\ Len(stack') = n + 1 /\ ~Owner(stack'[n + 1]) /\ curContainer' = curContainer
        /\ \A i \in 1..n : stack'[i] = stack[i]
    BY <1>5, PushShape DEF Pushed, Plain
  <2>2. InForce(stack', n, curContainer) /\ \A i \in 1..n : Chained(stack', i)
    BY <1>1, <1>2, <1>3, <2>1
  <2>3. InForce(stack', n + 1, curContainer)
    BY <1>1, <2>1, <2>2, InForcePlain
  <2>4. QED
    BY <1>1, <2>1, <2>2, <2>3
<1>6. ASSUME NEW f \in FrameSet, Moved(f)
      PROVE  /\ InForce(stack', Len(stack'), curContainer')
             /\ \A i \in 1..Len(stack') : Chained(stack', i)
  <2>1. /\ Len(stack') = n /\ ~Owner(stack'[n]) /\ curContainer' = curContainer
        /\ \A i \in 1..(n - 1) : stack'[i] = stack[i]
        /\ stack # << >> /\ ~Owner(stack[n])
    BY <1>6, MoveShape DEF Moved, Plain, Top
  <2>2. InForce(stack, n - 1, curContainer)
    BY <1>1, <1>2, <2>1, InForcePlain
  <2>3. InForce(stack', n - 1, curContainer) /\ \A i \in 1..(n - 1) : Chained(stack', i)
    BY <1>1, <1>3, <2>1, <2>2
  <2>4. InForce(stack', n, curContainer)
    BY <1>1, <2>1, <2>3, InForcePlain
  <2>5. QED
    BY <1>1, <2>1, <2>3, <2>4
<1>7. CASE EnterBody
  <2>1. /\ Len(stack') = n /\ stack # << >> /\ ~Owner(stack[n])
        /\ \A i \in 1..(n - 1) : stack'[i] = stack[i]
    BY <1>7, EnterShape DEF Top, Owner
  <2>2. InForce(stack, n - 1, curContainer)
    BY <1>1, <1>2, <2>1, InForcePlain
  <2>3. InForce(stack', n - 1, curContainer) /\ \A i \in 1..(n - 1) : Chained(stack', i)
    BY <1>1, <1>3, <2>1, <2>2
  <2>4. CASE Declares(Top)
    <3>1. Owner(stack'[n]) /\ stack'[n].prev = curContainer /\ stack'[n].ref = curContainer'
      BY <1>7, <2>4, EnterShape DEF Owner, Declares
    <3>2. InForce(stack', n, curContainer') /\ Chained(stack', n)
      BY <1>1, <2>1, <2>3, <3>1, InForceOwner
    <3>3. QED
      BY <1>1, <2>1, <2>3, <3>2
  <2>5. CASE ~Declares(Top)
    <3>1. ~Owner(stack'[n]) /\ curContainer' = curContainer
      BY <1>7, <2>5, EnterShape DEF Owner, Declares
    <3>2. InForce(stack', n, curContainer') /\ Chained(stack', n)
      BY <1>1, <2>1, <2>3, <3>1, InForcePlain
    <3>3. QED
      BY <1>1, <2>1, <2>3, <3>2
  <2>6. QED
    BY <2>4, <2>5
<1>8. CASE stack # << >> /\ Leave
  <2>1. Len(stack') = n - 1 /\ \A i \in 1..(n - 1) : stack'[i] = stack[i]
    BY <1>8, LeaveShape
  <2>2. InForce(stack, n - 1, curContainer')
    <3>1. CASE Owner(Top)
      BY <1>1, <1>2, <1>8, <3>1 DEF Leave, Top
    <3>2. CASE ~Owner(Top)
      BY <1>1, <1>2, <1>8, <3>2, InForcePlain DEF Leave, Top
    <3>3. QED
      BY <3>1, <3>2
  <2>3. InForce(stack', n - 1, curContainer') /\ \A i \in 1..(n - 1) : Chained(stack', i)
    BY <1>1, <1>3, <1>8, <2>1, <2>2
  <2>4. QED
    BY <2>1, <2>3
<1>9. QED
  BY <1>1, <1>4, <1>5, <1>6, <1>7, <1>8 DEF StackStep

-----------------------------------------------------------------------------
(* The template buffers *)

LEMMA BuffersNext == TypeOK /\ FramesOK /\ BuffersInForce /\ [Next]_vars => BuffersInForce'
<1> SUFFICES ASSUME TypeOK, FramesOK, BuffersInForce, [Next]_vars
             PROVE  Buffers(stack', eppStack')
  BY DEF BuffersInForce
<1> DEFINE n == Len(stack)
<1> DEFINE m == Len(eppStack)
<1>1. StackStep /\ n \in Nat /\ m \in Nat /\ (stack # << >> => n \in Nat \ {0})
  BY Shapes, StackType DEF TypeOK
<1>2. Buffers(stack, eppStack)
  BY DEF BuffersInForce
<1>3. CASE Unmoved
  BY <1>2, <1>3 DEF Unmoved
\* The renderings are the same calls before and after.
<1>4. ASSUME eppStack' = eppStack, n <= Len(stack'), Len(stack') \in Nat,
             \A i \in 1..n : Rendering(stack[i]) <=> Rendering(stack'[i]),
             \A i \in (n + 1)..Len(stack') : ~Rendering(stack'[i])
      PROVE  Buffers(stack', eppStack')
  <2> HIDE DEF Rendering
  <2>1. QED
    BY <1>1, <1>2, <1>4 DEF Buffers
<1>5. ASSUME NEW f \in FrameSet, Pushed(f)
      PROVE  Buffers(stack', eppStack')
  BY <1>1, <1>4, <1>5, PushShape DEF Pushed, Plain
<1>6. ASSUME NEW f \in FrameSet, Moved(f)
      PROVE  Buffers(stack', eppStack')
  <2>1. ~Rendering(stack[n]) /\ ~Rendering(f) /\ stack # << >> /\ eppStack' = eppStack
    BY <1>6 DEF Moved, Plain, Top
  <2>2. QED
    BY <1>1, <1>4, <1>6, <2>1, MoveShape
<1>7. CASE EnterBody
  <2>1. /\ stack # << >> /\ Len(stack') = n /\ ~Rendering(stack[n])
        /\ \A i \in 1..(n - 1) : stack'[i] = stack[i]
        /\ Rendering(stack'[n]) <=> Top.kind = "epp"
    BY <1>7, EnterShape DEF Top, Rendering
  <2>2. CASE Top.kind # "epp"
    BY <1>1, <1>4, <1>7, <2>1, <2>2 DEF EnterBody
  <2>3. CASE Top.kind = "epp"
    <3> HIDE DEF Rendering
    <3>1. eppStack' = Append(eppStack, n)
      BY <1>7, <2>3 DEF EnterBody
    <3>2. Len(eppStack') = m + 1 /\ eppStack'[m + 1] = n /\ \A k \in 1..m : eppStack'[k] = eppStack[k]
      BY <3>1 DEF TypeOK
    <3>3. \A k \in 1..m : eppStack[k] \in 1..(n - 1) /\ Rendering(stack[eppStack[k]])
      BY <1>1, <1>2, <2>1 DEF Buffers
    <3>4. \A k \in 1..(m + 1) : eppStack'[k] \in 1..n /\ Rendering(stack'[eppStack'[k]])
      BY SMTT(60), <1>1, <2>1, <2>3, <3>2, <3>3
    <3>5. \A k, l \in 1..(m + 1) : k < l => eppStack'[k] < eppStack'[l]
      <4>1. ASSUME NEW k \in 1..(m + 1), NEW l \in 1..(m + 1), k < l
            PROVE  eppStack'[k] < eppStack'[l]
        <5>1. k \in 1..m /\ eppStack'[k] = eppStack[k]
          BY <1>1, <3>2, <4>1
        <5>2. CASE l = m + 1
          BY <3>2, <3>3, <5>1, <5>2, <1>1
        <5>3. CASE l \in 1..m
          BY <1>2, <3>2, <4>1, <5>1, <5>3 DEF Buffers
        <5>4. QED
          BY <1>1, <5>2, <5>3
      <4>2. QED
        BY <4>1
    <3>6. ASSUME NEW i \in 1..n, Rendering(stack'[i])
          PROVE  \E k \in 1..(m + 1) : eppStack'[k] = i
      <4>1. CASE i = n
        BY <1>1, <3>2, <4>1
      <4>2. CASE i # n
        <5>1. PICK k \in 1..m : eppStack[k] = i
          BY <1>1, <1>2, <2>1, <3>6, <4>2 DEF Buffers
        <5>2. QED
          BY <1>1, <3>2, <5>1
      <4>3. QED
        BY <4>1, <4>2
    <3>7. QED
      BY <2>1, <3>2, <3>4, <3>5, <3>6 DEF Buffers
  <2>4. QED
    BY <2>2, <2>3
<1>8. CASE stack # << >> /\ Leave
  <2>1. Len(stack') = n - 1 /\ \A i \in 1..(n - 1) : stack'[i] = stack[i]
    BY <1>8, LeaveShape
  <2>2. stack[n] = Top
    BY DEF Top
  <2>3. CASE ~Rendering(Top)
    <3> HIDE DEF Rendering
    <3>1. eppStack' = eppStack
      BY <1>8, <2>3 DEF Leave
    <3>2. \A k \in 1..m : eppStack[k] \in 1..(n - 1)
      BY <1>1, <1>2, <1>8, <2>2, <2>3 DEF Buffers
    <3>3. \A k \in 1..m : Rendering(stack'[eppStack[k]])
      BY <1>2, <2>1, <3>2 DEF Buffers
    <3>4. \A i \in 1..(n - 1) : Rendering(stack'[i]) => \E k \in 1..m : eppStack[k] = i
      BY <1>1, <1>2, <2>1 DEF Buffers
    <3>5. \A k, l \in 1..m : k < l => eppStack[k] < eppStack[l]
      BY <1>2 DEF Buffers
    <3>6. QED
      BY <2>1, <3>1, <3>2, <3>3, <3>4, <3>5 DEF Buffers
  <2>4. CASE Rendering(Top)
    <3> HIDE DEF Rendering
    <3>1. PICK k0 \in 1..m : eppStack[k0] = n
      BY <1>1, <1>2, <1>8, <2>2, <2>4 DEF Buffers
    <3>2. k0 = m
      BY <1>1, <1>2, <3>1 DEF Buffers
    <3>3. eppStack' = SubSeq(eppStack, 1, m - 1) /\ eppStack # << >> /\ eppStack \in Seq(Nat)
      BY <1>8, <2>4, <3>1 DEF Leave, TypeOK
    <3>4. Len(eppStack') = m - 1 /\ \A k \in 1..(m - 1) : eppStack'[k] = eppStack[k]
      BY <3>3, FrontShape
    <3>5. \A k \in 1..(m - 1) : eppStack[k] \in 1..(n - 1)
      BY <1>1, <1>2, <3>1, <3>2 DEF Buffers
    <3>6. \A i \in 1..(n - 1) : \A k \in 1..m : eppStack[k] = i => k \in 1..(m - 1)
      BY <1>1, <1>8, <3>1, <3>2
    <3>7. \A k \in 1..(m - 1) : k \in 1..m
      BY <1>1
    <3>8. \A k \in 1..(m - 1) : Rendering(stack'[eppStack[k]])
      BY <1>2, <2>1, <3>5, <3>7 DEF Buffers
    <3>9. \A k, l \in 1..(m - 1) : k < l => eppStack[k] < eppStack[l]
      BY <1>2, <3>7 DEF Buffers
    <3>10. \A i \in 1..(n - 1) : Rendering(stack'[i]) => \E k \in 1..(m - 1) : eppStack[k] = i
      <4>1. ASSUME NEW i \in 1..(n - 1), Rendering(stack'[i])
            PROVE  \E k \in 1..(m - 1) : eppStack[k] = i
        <5>1. i \in 1..n /\ Rendering(stack[i])
          BY <1>1, <2>1, <4>1
        <5>2. PICK k \in 1..m : eppStack[k] = i
          BY <1>2, <5>1 DEF Buffers
        <5>3. QED
          BY <3>6, <5>2
      <4>2. QED
        BY <4>1
    <3>11. QED
      BY <1>1, <2>1, <3>4, <3>5, <3>8, <3>9, <3>10 DEF Buffers
  <2>5. QED
    BY <2>3, <2>4
<1>9. QED
  BY <1>1, <1>3, <1>5, <1>6, <1>7, <1>8 DEF StackStep

-----------------------------------------------------------------------------
(* No call of a class or an instance inside itself *)

LEMMA ReentryNext == TypeOK /\ FramesOK /\ NoReentry /\ [Next]_vars => NoReentry'
<1> SUFFICES ASSUME TypeOK, FramesOK, NoReentry, [Next]_vars PROVE NoReentry'
  OBVIOUS
<1> DEFINE n == Len(stack)
<1>1. StackStep /\ n \in Nat /\ (stack # << >> => n \in Nat \ {0})
  BY Shapes, StackType
<1>2. \A i, j \in 1..n :
        Declares(stack[i]) /\ Declares(stack[j]) /\ stack[i].ref = stack[j].ref => i = j
  BY DEF NoReentry, Declares
<1> SUFFICES ASSUME NEW i \in 1..Len(stack'), NEW j \in 1..Len(stack'),
                    Declares(stack'[i]), Declares(stack'[j]), stack'[i].ref = stack'[j].ref
             PROVE  i = j
  BY DEF NoReentry, Declares
<1> HIDE DEF Declares
<1>3. CASE Unmoved
  BY <1>2, <1>3 DEF Unmoved
\* The same calls before and after, some left perhaps.
<1>4. ASSUME Len(stack') <= n, Len(stack') \in Nat,
             \A k \in 1..Len(stack') :
               /\ Declares(stack'[k]) <=> Declares(stack[k])
               /\ stack'[k].ref = stack[k].ref
      PROVE  i = j
  BY <1>1, <1>2, <1>4
<1>5. ASSUME NEW f \in FrameSet, Pushed(f)
      PROVE  i = j
  <2>1. /\ Len(stack') = n + 1 /\ stack'[n + 1] = f
        /\ \A k \in 1..n : stack'[k] = stack[k]
    BY <1>5, PushShape
  <2>2. Declares(f) => \A k \in 1..n : Declares(stack[k]) => stack[k].ref # f.ref
    BY <1>5 DEF Pushed
  <2>3. QED
    BY <1>1, <1>2, <2>1, <2>2
<1>6. ASSUME NEW f \in FrameSet, Moved(f)
      PROVE  i = j
  <2>1. Len(stack') = n /\ stack # << >>
    BY <1>6, MoveShape DEF Moved
  <2>2. stack'[n].kind = stack[n].kind /\ stack'[n].ref = stack[n].ref
    BY <1>6, MoveShape DEF Moved, Top
  <2>3. QED
    BY <1>1, <1>4, <1>6, <2>1, <2>2, MoveShape DEF Declares
<1>7. CASE EnterBody
  <2>1. Len(stack') = n /\ stack # << >>
    BY <1>7, EnterShape
  <2>2. stack'[n].kind = stack[n].kind /\ stack'[n].ref = stack[n].ref
    BY <1>7, EnterShape DEF Top
  <2>3. QED
    BY <1>1, <1>4, <1>7, <2>1, <2>2, EnterShape DEF Declares
<1>8. CASE stack # << >> /\ Leave
  BY <1>1, <1>4, <1>8, LeaveShape
<1>9. QED
  BY <1>1, <1>3, <1>5, <1>6, <1>7, <1>8 DEF StackStep

-----------------------------------------------------------------------------
(* The theorems *)

LEMMA IInvInit == Init => IInv
<1> SUFFICES ASSUME Init PROVE IInv
  OBVIOUS
<1>1. TypeOK
  BY TypeInit
<1>2. FramesOK /\ ChainOK /\ BuffersInForce /\ NoReentry
  BY DEF Init, FramesOK, Known, ChainOK, ContainerInForce, InForce, BuffersInForce, Buffers,
         NoReentry
<1>3. QED
  BY <1>1, <1>2 DEF IInv

LEMMA IInvNext == IInv /\ [Next]_vars => IInv'
BY TypeNext, FramesNext, ChainNext, BuffersNext, ReentryNext DEF IInv

LEMMA Invariance == Spec => []IInv
BY IInvInit, IInvNext, PTL DEF Spec

\* Every reachable state is well typed: in particular no class counts as included
\* that the program does not define, and only classes have parents (declareClass).
THEOREM TypeCorrect == Spec => []TypeOK
BY Invariance, PTL DEF IInv

\* Whatever way bodies are left, the container in force is that of the innermost
\* body (the curContainer of declareClass and instantiateDefine).
THEOREM ContainerCorrect == Spec => []ContainerInForce
<1>1. IInv => ContainerInForce
  BY DEF IInv, ChainOK
<1>2. QED
  BY <1>1, Invariance, PTL

\* Whatever way templates are left, text goes to the innermost one in progress
\* (the eppStack of renderEPP).
THEOREM BuffersCorrect == Spec => []BuffersInForce
BY Invariance, PTL DEF IInv

\* The included set and the duplicate check cut every cycle of declarations
\* (declareClass, instantiateDefine).
THEOREM ReentryFree == Spec => []NoReentry
BY Invariance, PTL DEF IInv

-----------------------------------------------------------------------------
(* The refinement: every step of the compiler is a step of the abstract log *)

LEMMA LogStep == IInv /\ [Next]_vars => [Log!CatalogNext]_catalog
<1> SUFFICES ASSUME IInv, [Next]_vars PROVE [Log!CatalogNext]_catalog
  OBVIOUS
<1> DEFINE Edge == (Ref \cup {Main}) \X (Ref \cup {Main})
<1>1. TypeOK /\ TypeOK' /\ edges' \in SUBSET Edge
  BY TypeNext DEF IInv, TypeOK
<1>2. curContainer = Main \/ (curContainer \in Ref /\ status[curContainer] # Absent)
  BY <1>1 DEF IInv, FramesOK, Known, TypeOK
\* A resource is recorded together with the edge from its container.
<1>3. ASSUME NEW r \in Ref, NEW form \in Form, Add(r, form),
             edges \cup Contain({r}) \subseteq edges'
      PROVE  Log!CatalogNext
  <2>1. <<curContainer, r>> \in edges'
    BY <1>3 DEF Contain
  <2>2. Log!Record(r, form)
    BY <1>2, <1>3, <2>1 DEF Add, Log!Record, Log!Recorded
  <2>3. QED
    BY <1>1, <1>3, <2>2 DEF Log!CatalogNext, Log!Relate, Log!Edge, Log!Form, Form
\* Only edges are added.
<1>4. ASSUME order' = order, status' = status, edges \subseteq edges'
      PROVE  Log!CatalogNext
  <2>1. status' = [r \in Ref |-> IF r \in {} THEN "regular" ELSE status[r]]
    BY <1>1, <1>4 DEF TypeOK
  <2>2. Log!Realize({})
    BY <1>4, <2>1 DEF Log!Realize
  <2>3. QED
    BY <1>1, <1>4, <2>2 DEF Log!CatalogNext, Log!Relate, Log!Edge, Log!Recorded
<1>5. ASSUME NEW r \in Native, NEW form \in FormUsed, NEW b \in SUBSET RelTarget,
             NEW q \in SUBSET RelTarget, DeclareResource(r, form, b, q)
      PROVE  Log!CatalogNext
  <2>1. r \in Ref /\ form \in Form
    BY EvaluatorAssumption DEF Ref, Declarable
  <2>2. CASE Add(r, form)
    <3>1. edges \cup Contain({r}) \subseteq edges'
      BY <1>5, <2>2 DEF DeclareResource, Add, Duplicate
    <3>2. QED
      BY <1>3, <2>1, <2>2, <3>1
  <2>3. CASE Duplicate(r)
    <3>1. order' = order /\ status' = status /\ edges \subseteq edges'
      BY <1>5, <2>3 DEF DeclareResource, Add, Duplicate
    <3>2. QED
      BY <1>4, <3>1
  <2>4. QED
    BY <1>5, <2>2, <2>3 DEF DeclareResource
<1>6. ASSUME NEW r \in Instance, NEW form \in FormUsed, InstantiateDefine(r, form)
      PROVE  Log!CatalogNext
  <2>1. r \in Ref /\ form \in Form
    BY EvaluatorAssumption DEF Ref, Declarable
  <2>2. CASE Add(r, form)
    BY <1>3, <1>6, <2>1, <2>2 DEF InstantiateDefine, Add, Duplicate
  <2>3. CASE Duplicate(r)
    BY <1>4, <1>6, <2>3 DEF InstantiateDefine, Add, Duplicate
  <2>4. QED
    BY <1>6, <2>2, <2>3 DEF InstantiateDefine
<1>7. CASE AddClass
  <2>1. Top.ref \in Ref
    BY <1>1, <1>7, StackType DEF AddClass, Running, FrameSet, Ref
  <2>2. CASE Add(Top.ref, "regular")
    BY <1>3, <1>7, <2>1, <2>2 DEF AddClass, Add, Duplicate, Form
  <2>3. CASE Duplicate(Top.ref)
    BY <1>4, <1>7, <2>3 DEF AddClass, Add, Duplicate
  <2>4. QED
    BY <1>7, <2>2, <2>3 DEF AddClass
<1>8. ASSUME NEW t \in Type, NEW form \in FormUsed \ {"regular"}, NEW S \in SUBSET Declarable,
             EvalCollector(t, form, S)
      PROVE  Log!CatalogNext
  <2>1. S \subseteq {r \in Declarable : status[r] = form} /\ form # Absent
    BY <1>8, EvaluatorAssumption DEF EvalCollector
  <2>2. S \subseteq Log!Recorded
    BY <2>1 DEF Log!Recorded, Ref
  <2>3. Log!Realize(S)
    BY <1>8 DEF EvalCollector, Log!Realize
  <2>4. edges \subseteq edges'
    BY <1>8 DEF EvalCollector
  <2>5. QED
    BY <1>1, <2>2, <2>3, <2>4 DEF Log!CatalogNext, Log!Relate, Log!Edge
<1>9. ASSUME NEW ls \in SUBSET RelTarget, NEW rs \in SUBSET RelTarget, EvalRelationship(ls, rs)
      PROVE  Log!CatalogNext
  BY <1>4, <1>9 DEF EvalRelationship
<1>10. ASSUME NEW r \in Ref, NEW b \in SUBSET RelTarget, NEW q \in SUBSET RelTarget,
              EvalResourceOverride(r, b, q)
       PROVE  Log!CatalogNext
  BY <1>4, <1>10 DEF EvalResourceOverride
<1>11. CASE UNCHANGED catalog
  BY <1>11
<1>12. QED
  BY <1>5, <1>6, <1>7, <1>8, <1>9, <1>10, <1>11
     DEF Next, Statement, EvalProgram, EvalPlan, ApplyMatchingNode, DeclareClass, DeclareParent,
         CallFunction, Raise, CallBlock, EnterBody, Return, Unwind, Leave, vars, catalog

\* The compiler's catalog is an abstract catalog log: Catalog.Add and AddEdge as
\* the statements of eval/ call them, failures included.
THEOREM CatalogRefined == Spec => CatalogRefinement
<1>1. Init => Log!CatalogInit
  BY DEF Init, Log!CatalogInit
<1>2. QED
  BY <1>1, LogStep, Invariance, PTL DEF Spec, CatalogRefinement, Log!CatalogSpec, catalog,
     Log!catalogVars

\* The theorems about CatalogLog carry over through a second instance of it.
LogProofs == INSTANCE CatalogLogProofs

LEMMA LogAssumption == LogProofs!CatalogAssumption
BY EvaluatorAssumption DEF LogProofs!CatalogAssumption, LogProofs!Form, Form

LEMMA SameLog == CatalogRefinement => LogProofs!CatalogSpec
<1> USE DEF Log!Form, LogProofs!Form, Log!Edge, LogProofs!Edge, Log!Recorded, LogProofs!Recorded
<1>1. Log!CatalogInit => LogProofs!CatalogInit
  BY DEF Log!CatalogInit, LogProofs!CatalogInit
<1>2. Log!CatalogNext => LogProofs!CatalogNext
  BY DEF Log!CatalogNext, LogProofs!CatalogNext, Log!Relate, LogProofs!Relate,
         Log!Record, LogProofs!Record, Log!Realize, LogProofs!Realize
<1>3. Log!catalogVars = LogProofs!catalogVars
  BY DEF Log!catalogVars, LogProofs!catalogVars
<1>4. [Log!CatalogNext]_(Log!catalogVars) => [LogProofs!CatalogNext]_(LogProofs!catalogVars)
  BY <1>2 DEF Log!catalogVars, LogProofs!catalogVars
<1>5. QED
  BY <1>1, <1>4, PTL DEF CatalogRefinement, Log!CatalogSpec, LogProofs!CatalogSpec

\* One step of the compiler keeps both promises of the log.
LEMMA LogNext ==
  IInv /\ IndexMatchesOrder /\ Contained /\ [Next]_vars => IndexMatchesOrder' /\ Contained'
<1> SUFFICES ASSUME IInv, IndexMatchesOrder, Contained, [Next]_vars
             PROVE  IndexMatchesOrder' /\ Contained'
  OBVIOUS
<1> USE DEF Log!Form, LogProofs!Form, Log!Edge, LogProofs!Edge, Log!Recorded, LogProofs!Recorded
<1>1. [LogProofs!CatalogNext]_(LogProofs!catalogVars)
  BY LogStep DEF Log!CatalogNext, LogProofs!CatalogNext, Log!Relate, LogProofs!Relate,
     Log!Record, LogProofs!Record, Log!Realize, LogProofs!Realize, LogProofs!catalogVars, catalog
<1>2. LogProofs!CatalogTypeOK
  BY DEF IInv, TypeOK, LogProofs!CatalogTypeOK, Form
<1>3. LogProofs!IndexMatchesOrder /\ LogProofs!Contained
  BY DEF IndexMatchesOrder, Log!IndexMatchesOrder, LogProofs!IndexMatchesOrder,
         Contained, Log!Contained, LogProofs!Contained
<1>4. LogProofs!IndexMatchesOrder' /\ LogProofs!Contained'
  BY <1>1, <1>2, <1>3, LogAssumption, LogProofs!IndexNext, LogProofs!ContainedNext
<1>5. QED
  BY <1>4 DEF IndexMatchesOrder, Log!IndexMatchesOrder, LogProofs!IndexMatchesOrder,
              Contained, Log!Contained, LogProofs!Contained

\* What Catalog.Get answers and what Catalog.Resources lists always agree.
THEOREM IndexCorrect == Spec => []IndexMatchesOrder
<1>1. LogProofs!IndexMatchesOrder => IndexMatchesOrder
  BY DEF IndexMatchesOrder, LogProofs!IndexMatchesOrder, Log!IndexMatchesOrder
<1>2. LogProofs!CatalogSpec => []LogProofs!IndexMatchesOrder
  BY LogAssumption, LogProofs!IndexTheorem
<1>3. QED
  BY <1>1, <1>2, CatalogRefined, SameLog, PTL

\* Every resource hangs from the main class through resources declared before it
\* (the AddEdge from the container after every Catalog.Add).
THEOREM ContainmentCorrect == Spec => []Contained
<1>1. LogProofs!Contained => Contained
  BY DEF Contained, LogProofs!Contained, Log!Contained
<1>2. LogProofs!CatalogSpec => []LogProofs!Contained
  BY LogAssumption, LogProofs!ContainedTheorem
<1>3. QED
  BY <1>1, <1>2, CatalogRefined, SameLog, PTL

\* The catalog is sound for every manifest, however its compilation ends.
THEOREM CatalogKept == Spec => []CatalogSound
<1>1. IndexMatchesOrder /\ Contained => CatalogSound
  BY DEF CatalogSound
<1>2. QED
  BY <1>1, IndexCorrect, ContainmentCorrect, PTL

-----------------------------------------------------------------------------
(* The classes of the catalog and those that count as included *)

\* A class gets into the catalog by its declaration, or by ensure_resource.
HeldIncluded == \A c \in Class : status[c] # Absent => c \in included \cup Native

\* The class is being declared, and waits for its parent.
Waiting(c) ==
  \E i \in 1..Len(stack) : stack[i].kind = "class" /\ stack[i].ref = c /\ stack[i].phase = "parent"

ClassesHeld == \A c \in included : status[c] # Absent \/ Waiting(c)

LEMMA HeldNext == IInv /\ HeldIncluded /\ [Next]_vars => HeldIncluded'
<1> SUFFICES ASSUME IInv, HeldIncluded, [Next]_vars PROVE HeldIncluded'
  OBVIOUS
<1>0. TypeOK /\ FramesOK /\ included \subseteq included'
  BY GrowsNext DEF IInv, Grows
<1>1. CASE status' = status
  BY <1>0, <1>1 DEF HeldIncluded
<1>2. ASSUME NEW r \in Ref, NEW form, Add(r, form), r \in Class => r \in included \cup Native
      PROVE  HeldIncluded'
  BY <1>0, <1>2 DEF HeldIncluded, Add, TypeOK
<1>3. ASSUME NEW r \in Native, NEW form \in FormUsed, NEW b \in SUBSET RelTarget,
             NEW q \in SUBSET RelTarget, DeclareResource(r, form, b, q)
      PROVE  HeldIncluded'
  BY <1>1, <1>2, <1>3 DEF DeclareResource, Duplicate, Ref, Declarable
<1>4. ASSUME NEW r \in Instance, NEW form \in FormUsed, InstantiateDefine(r, form)
      PROVE  HeldIncluded'
  BY <1>1, <1>2, <1>4, EvaluatorAssumption DEF InstantiateDefine, Duplicate, Ref, Declarable
<1>5. CASE AddClass
  <2>1. stack # << >> /\ Top \in FrameSet /\ Top.phase = "parent"
    BY <1>0, <1>5, StackType DEF AddClass, Running
  <2>2. Top.ref \in Ref /\ Top.ref \in included
    BY <1>0, <2>1, StackType DEF FrameSet, Ref, FramesOK, FrameOK, Top
  <2>3. QED
    BY <1>1, <1>2, <1>5, <2>2 DEF AddClass, Duplicate
<1>6. ASSUME NEW t \in Type, NEW form \in FormUsed \ {"regular"}, NEW S \in SUBSET Declarable,
             EvalCollector(t, form, S)
      PROVE  HeldIncluded'
  <2>1. S \subseteq {r \in Declarable : status[r] # Absent}
    BY <1>6, EvaluatorAssumption DEF EvalCollector
  <2>2. \A c \in Class : status'[c] # Absent => status[c] # Absent
    BY <1>6, <2>1 DEF EvalCollector, Ref
  <2>3. QED
    BY <1>0, <2>2 DEF HeldIncluded
<1>7. QED
  BY <1>1, <1>3, <1>4, <1>5, <1>6
     DEF Next, Statement, EvalProgram, EvalPlan, ApplyMatchingNode, DeclareClass, DeclareParent,
         BeginClass, EvalRelationship, EvalResourceOverride, CallFunction, Raise, CallBlock,
         EnterBody, Return, Unwind, Leave, vars, catalog

\* While no error and no jump is on its way, no declaration is lost half way.
LEMMA ClassesHeldNext ==
  IInv /\ ClassesHeld /\ [Next]_vars /\ signal = "none" /\ signal' = "none" => ClassesHeld'
<1> SUFFICES ASSUME IInv, ClassesHeld, [Next]_vars, signal = "none", signal' = "none"
             PROVE  ClassesHeld'
  OBVIOUS
<1>0. TypeOK /\ Grows /\ (\A c \in Class : c \in Ref)
  BY GrowsNext DEF IInv, Ref
<1>1. included \subseteq Class /\ Len(stack) \in Nat
  BY <1>0, StackType DEF TypeOK
\* No call is left, and none gets past its parent.
<1>2. ASSUME included' = included,
             \A i \in 1..Len(stack) :
               stack[i].kind = "class" /\ stack[i].phase = "parent"
               => i \in 1..Len(stack') /\ stack'[i] = stack[i]
      PROVE  ClassesHeld'
  BY <1>0, <1>1, <1>2 DEF ClassesHeld, Waiting, Grows
<1>3. CASE included' = included /\ stack' = stack
  BY <1>2, <1>3
<1>4. ASSUME included' = included, NEW f \in FrameSet, stack' = Append(stack, f)
      PROVE  ClassesHeld'
  <2>1. Len(stack') = Len(stack) + 1 /\ \A i \in 1..Len(stack) : stack'[i] = stack[i]
    BY <1>0, <1>4 DEF TypeOK
  <2>2. QED
    BY <1>1, <1>2, <1>4, <2>1
<1>5. ASSUME NEW c \in ClassName, NEW super \in ClassName \cup {None}, BeginClass(c, super)
      PROVE  ClassesHeld'
  <2> DEFINE f == Frame("class", "parent", c, super)
  <2>1. c \in Class /\ included' = included \cup {c} /\ stack' = Append(stack, f)
    BY <1>5 DEF BeginClass
  <2>2. f \in FrameSet
    BY <2>1, FrameType DEF Kind, Phase, Ref
  <2>3. f.kind = "class" /\ f.phase = "parent" /\ f.ref = c
    BY DEF Frame
  <2> HIDE DEF f
  <2>4. /\ Len(stack') = Len(stack) + 1 /\ stack'[Len(stack) + 1] = f
        /\ \A i \in 1..Len(stack) : stack'[i] = stack[i]
    BY <1>0, <2>1, <2>2 DEF TypeOK
  <2>5. Waiting(c)'
    BY <1>1, <2>3, <2>4 DEF Waiting
  <2>6. \A d \in included : status'[d] # Absent \/ Waiting(d)'
    BY <1>0, <1>1, <2>4 DEF ClassesHeld, Waiting, Grows
  <2>7. QED
    BY <2>1, <2>5, <2>6 DEF ClassesHeld
<1>6. CASE EvalProgram
  BY <1>2, <1>6 DEF EvalProgram
<1>7. CASE EvalPlan
  BY <1>2, <1>7 DEF EvalPlan
<1>8. ASSUME stack # << >>, included' = included, Len(stack') \in {Len(stack), Len(stack) - 1},
             \A i \in 1..(Len(stack) - 1) : stack'[i] = stack[i],
             Top.phase = "parent" => status'[Top.ref] # Absent
      PROVE  ClassesHeld'
  <2>1. ASSUME NEW c \in included, Waiting(c), status'[c] = Absent
        PROVE  Waiting(c)'
    <3>1. PICK i \in 1..Len(stack) :
            stack[i].kind = "class" /\ stack[i].ref = c /\ stack[i].phase = "parent"
      BY <2>1 DEF Waiting
    <3>2. i # Len(stack)
      BY <1>8, <2>1, <3>1 DEF Top
    <3>3. i \in 1..(Len(stack) - 1)
      BY <1>1, <3>2
    <3>4. QED
      BY <1>1, <1>8, <3>1, <3>3 DEF Waiting
  <2>2. QED
    BY <1>0, <1>1, <1>8, <2>1 DEF ClassesHeld, Grows
<1>9. CASE ApplyMatchingNode
  <2>1. stack # << >> /\ Top \in FrameSet /\ Top.phase # "parent"
    BY <1>0, <1>9, StackType DEF ApplyMatchingNode, Running, FrameSet
  <2>2. Len(stack') = Len(stack) /\ \A i \in 1..(Len(stack) - 1) : stack'[i] = stack[i]
    BY <1>0, <1>9, <2>1, StackType DEF ApplyMatchingNode, Enter, TypeOK
  <2>3. QED
    BY <1>8, <1>9, <2>1, <2>2 DEF ApplyMatchingNode
<1>10. CASE AddClass
  <2>1. stack # << >> /\ Top \in FrameSet /\ Top.phase = "parent" /\ Add(Top.ref, "regular")
    BY <1>0, <1>10, StackType DEF AddClass, Running, Duplicate
  <2>2. Len(stack') = Len(stack) /\ \A i \in 1..(Len(stack) - 1) : stack'[i] = stack[i]
    BY <1>0, <1>10, <2>1, StackType DEF AddClass, Add, Duplicate, Enter, TypeOK
  <2>3. Top.ref \in Ref
    BY <2>1 DEF FrameSet, Ref
  <2>4. status'[Top.ref] # Absent
    BY <1>0, <2>1, <2>3, EvaluatorAssumption DEF Add, TypeOK, Form
  <2>5. QED
    BY <1>8, <1>10, <2>1, <2>2, <2>4 DEF AddClass
<1>11. CASE EnterBody
  BY <1>0, <1>8, <1>11, EnterShape DEF EnterBody
<1>12. CASE Return
  <2>1. stack # << >> /\ Len(stack) - 1 \in Nat
    BY <1>0, <1>12, StackType DEF Return, Running
  <2>2. QED
    BY <1>0, <1>8, <1>12, <2>1, LeaveShape DEF Return, Leave
<1>13. ASSUME NEW r \in Instance, NEW form \in FormUsed, InstantiateDefine(r, form)
       PROVE  ClassesHeld'
  <2>1. Frame("define", "params", r, None) \in FrameSet
    BY FrameType DEF Kind, Phase, Ref, Declarable
  <2>2. QED
    BY <1>4, <1>13, <2>1 DEF InstantiateDefine, Push, Duplicate
<1>14. ASSUME NEW kind \in CallKind, CallFunction(kind)
       PROVE  ClassesHeld'
  <2>1. Entry(kind, IF kind \in {"func", "epp"} THEN "params" ELSE "loop") \in FrameSet
    BY EntryType, EvaluatorAssumption DEF Kind, Phase, Call
  <2>2. QED
    BY <1>4, <1>14, <2>1 DEF CallFunction, Push
<1>15. CASE CallBlock
  <2>1. Entry("block", "params") \in FrameSet
    BY EntryType DEF Kind, Phase
  <2>2. QED
    BY <1>4, <1>15, <2>1 DEF CallBlock, Push
<1>16. ASSUME NEW super \in ClassName \cup {None}, DeclareParent(super)
       PROVE  ClassesHeld'
  <2>1. Top.super \in ClassName
    BY <1>0, <1>16, StackType DEF DeclareParent, FrameSet, Running
  <2>2. QED
    BY <1>5, <1>16, <2>1 DEF DeclareParent
<1>17. QED
  BY <1>3, <1>5, <1>6, <1>7, <1>9, <1>10, <1>11, <1>12, <1>13, <1>14, <1>15, <1>16
     DEF Next, Statement, DeclareResource, DeclareClass, EvalRelationship, EvalResourceOverride,
         EvalCollector, Raise, Unwind, vars

\* Of what unwinds, calls catch jumps only: an error ends the whole compilation.
LEMMA OnlyJumpsCaught ==
  [Next]_vars /\ stack # << >> /\ signal # "none" /\ signal' = "none" => signal \in Jump
<1> SUFFICES ASSUME [Next]_vars, stack # << >>, signal # "none", signal' = "none"
             PROVE  signal \in Jump
  OBVIOUS
<1>1. Unwind
  BY DEF Next, Statement, EvalProgram, EvalPlan, ApplyMatchingNode, DeclareResource,
         InstantiateDefine, DeclareClass, DeclareParent, AddClass, EvalRelationship,
         EvalResourceOverride, EvalCollector, CallFunction, Raise, CallBlock, EnterBody, Return,
         Evaluating, Running, vars
<1>2. QED
  BY <1>1 DEF Unwind, Catches, Jump
=============================================================================
