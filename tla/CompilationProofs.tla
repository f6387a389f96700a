--------------------------- MODULE CompilationProofs ---------------------------
(***************************************************************************)
(* Proofs about the two modules that run an Evaluator: ClassInclusion, for *)
(* every program, any number of classes and any depth of inclusion, and    *)
(* PlanApply, for any number of apply blocks, of any depth.                *)
(*                                                                         *)
(* Every step of a compilation is a step of Evaluator, so its invariant    *)
(* holds in ClassInclusion. Three things are added: what the calls in      *)
(* progress look like (Calls), why each was made (Descends), and what      *)
(* those that ended or have yet to end leave open (Owed). The least sets   *)
(* Reach and Lineage meet the run of the compiler from both sides: it      *)
(* declares only classes that every closed set holds, and once nothing is  *)
(* owed the classes it declared are such a set.                            *)
(*                                                                         *)
(* The evaluator of an apply block is an instance of Evaluator, so the     *)
(* lemmas of EvaluatorProofs hold of it: SubP is their instance. A block   *)
(* adds to them which classes a catalog compiled to its end holds, and the *)
(* plan adds that it waits, in the middle of a statement, while a block    *)
(* runs.                                                                   *)
(***************************************************************************)
EXTENDS ClassInclusion, PlanApply, EvaluatorProofs, SequenceTheorems

-----------------------------------------------------------------------------
(* ClassInclusion *)


\* The includes of the body that call f evaluates, in the program m.
ListOf(m, f) == IF f.kind = "program" THEN m.main ELSE m.body[f.ref]

\* Before it starts a compilation has done nothing; it knows errors, but no jumps.
Shape ==
  /\ manifest \in Manifest /\ started \in BOOLEAN
  /\ todo \in Seq(Seq(ClassName)) /\ Len(todo) = Len(stack)
  /\ signal \in {"none", "error"}
  /\ ~started => Init

\* The outermost call is the program, the others declare classes. Only the innermost
\* one binds parameters, one that waits for its parent is not yet in the catalog, and
\* one whose body was not entered has followed none of its includes.
CallFits(i, n, f, list, st, m) ==
  /\ i = 1 => f.kind = "program" /\ f.phase = "body"
  /\ i # 1 => /\ f.kind = "class" /\ f.phase \in {"parent", "params", "body"}
              /\ f.super = m.parent[f.ref]
              /\ f.phase = "parent" => st[f.ref] = Absent
  /\ i # n => f.phase # "params"
  /\ Names(list) \subseteq Names(ListOf(m, f))
  /\ f.phase # "body" => Names(list) = Names(ListOf(m, f))
CallOK(i) == CallFits(i, Len(stack), stack[i], todo[i], status, manifest)
Calls == \A i \in 1..Len(stack) : CallOK(i)

\* Each call was reached from the program and from every class further out, and by
\* parents alone from the body below it.
Descends ==
  /\ \A i \in 2..Len(stack) : stack[i].ref \in Reached
  /\ \A i, k \in 2..Len(stack) : k < i => stack[i].ref \in Reach(manifest, {stack[k].ref})
  /\ \A i, k \in 1..Len(stack) :
       k < i /\ stack[k].phase = "body" /\ (\A j \in (k + 1)..(i - 1) : stack[j].phase = "parent")
       => stack[i].ref \in Lineage(manifest, Names(ListOf(manifest, stack[k])))

\* A class that counts as included was reached, one in the catalog counts as included,
\* and only a class that is reached and not defined makes the compilation fail.
Accounted ==
  /\ included \subseteq Reached
  /\ \A c \in Class : status[c] # Absent => c \in included
  /\ signal = "error" => ~(Reached \subseteq Class)

\* While the compilation goes well each include and parent was followed, or will be.
Pending(c, d) == \E i \in 2..Len(stack) : stack[i].ref = c /\ d \in Names(todo[i])
Owed ==
  /\ started => \A d \in Names(manifest.main) :
                  d \in included \/ (stack # << >> /\ d \in Names(todo[1]))
  /\ \A c \in included : ParentOf(c) \in included \cup {None} \/ Waiting(c)
  /\ \A c \in included : \A d \in Names(manifest.body[c]) : d \in included \/ Pending(c, d)

Whole == signal = "none" => ClassesHeld /\ Owed

\* The inductive invariant.
InclusionInv ==
  /\ IInv /\ IndexMatchesOrder /\ Contained
  /\ Shape /\ Calls /\ Descends /\ Accounted /\ Whole
  /\ ParentFirst /\ ContainedWhereIncluded

-----------------------------------------------------------------------------
(* Lists of names, and the least sets *)

\* An empty list names nothing.
LEMMA NamesEmpty == Names(<< >>) = {}
BY DEF Names

\* The elements of a list are its names.
LEMMA NamesIn ==
  ASSUME NEW list \in Seq(ClassName)
  PROVE  Names(list) \subseteq ClassName
BY DEF Names

\* The names after the first.
LEMMA NamesTail ==
  ASSUME NEW list \in Seq(ClassName), list # << >>
  PROVE  /\ Tail(list) \in Seq(ClassName) /\ Head(list) \in ClassName
         /\ Names(list) = Names(Tail(list)) \cup {Head(list)}
<1>1. /\ Tail(list) \in Seq(ClassName) /\ Head(list) \in ClassName
      /\ Len(Tail(list)) = Len(list) - 1 /\ Len(list) \in Nat \ {0}
      /\ Head(list) = list[1]
      /\ \A i \in 1..Len(Tail(list)) : Tail(list)[i] = list[i + 1]
  BY HeadTailProperties
<1> DEFINE t == Tail(list)
<1> HIDE DEF t
<1>2. /\ Len(t) = Len(list) - 1 /\ Head(list) = list[1]
      /\ \A i \in 1..Len(t) : t[i] = list[i + 1]
  BY <1>1 DEF t
<1>3. ASSUME NEW d \in Names(list) PROVE d \in Names(t) \cup {Head(list)}
  <2>1. PICK i \in 1..Len(list) : list[i] = d
    BY <1>3 DEF Names
  <2>2. CASE i = 1
    BY <1>2, <2>1, <2>2
  <2>3. CASE i # 1
    <3>1. i - 1 \in 1..Len(t) /\ t[i - 1] = d
      BY <1>1, <1>2, <2>1, <2>3
    <3>2. QED
      BY <3>1 DEF Names
  <2>4. QED
    BY <2>2, <2>3
<1>4. ASSUME NEW d \in Names(t) PROVE d \in Names(list)
  <2>1. PICK i \in 1..Len(t) : t[i] = d
    BY <1>4 DEF Names
  <2>2. i + 1 \in 1..Len(list) /\ list[i + 1] = d
    BY <1>1, <1>2, <2>1
  <2>3. QED
    BY <2>2 DEF Names
<1>5. Head(list) \in Names(list)
  BY <1>1 DEF Names
<1>6. QED
  BY <1>1, <1>3, <1>4, <1>5 DEF t

\* A program names classes, and its fields have the types Manifest gives them.
LEMMA ProgramType ==
  ASSUME NEW m \in Manifest
  PROVE  /\ m.main \in Seq(ClassName)
         /\ \A c \in Class : m.body[c] \in Seq(ClassName) /\ m.parent[c] \in ClassName \cup {None}
BY InclusionAssumption

\* A class is of its own lineage,
LEMMA LineageBase ==
  ASSUME NEW m, NEW T \in SUBSET ClassName
  PROVE  T \subseteq Lineage(m, T)
BY DEF Lineage

\* and so are the parents of it.
LEMMA LineageParent ==
  ASSUME NEW m \in Manifest, NEW T, NEW c \in Class, c \in Lineage(m, T), m.parent[c] # None
  PROVE  m.parent[c] \in Lineage(m, T)
BY ProgramType DEF Lineage, Inherited

\* The names begun with are reached,
LEMMA ReachBase ==
  ASSUME NEW m, NEW T \in SUBSET ClassName
  PROVE  T \subseteq Reach(m, T)
BY DEF Reach

\* the parents of what is reached,
LEMMA ReachParent ==
  ASSUME NEW m \in Manifest, NEW T, NEW c \in Class, c \in Reach(m, T), m.parent[c] # None
  PROVE  m.parent[c] \in Reach(m, T)
BY ProgramType DEF Reach, Inherited

\* and what bodies include.
LEMMA ReachBody ==
  ASSUME NEW m \in Manifest, NEW T, NEW c \in Class, c \in Reach(m, T)
  PROVE  Names(m.body[c]) \subseteq Reach(m, T)
<1>1. Names(m.body[c]) \subseteq ClassName
  BY ProgramType, NamesIn
<1>2. QED
  BY <1>1 DEF Reach, Included

\* Nothing else is: a closed set holds what is reached.
LEMMA ReachLeast ==
  ASSUME NEW m, NEW T, NEW S \in SUBSET ClassName, T \subseteq S, Inherited(m, S), Included(m, S)
  PROVE  Reach(m, T) \subseteq S
BY DEF Reach

-----------------------------------------------------------------------------
(* The steps: names skipped, names that fail, classes declared *)

\* The next name the compiler has to do with is c, and q is what is left to do after it.
Due(c, q) ==
  /\ Running /\ c \in ClassName
  /\ q \in Seq(Seq(ClassName)) /\ Len(q) = Len(todo)
  /\ \A i \in 1..(Len(stack) - 1) : q[i] = todo[i]
  /\ \/ Top.phase = "body" /\ Names(todo[Len(stack)]) = Names(q[Len(stack)]) \cup {c}
     \/ Top.phase = "parent" /\ q = todo /\ Top.super = c

Skips(c) == Due(c, todo') /\ c \in included /\ UNCHANGED <<vars, manifest, started>>

Fails(c) ==
  /\ Due(c, todo') /\ c \notin Class /\ signal' = "error"
  /\ UNCHANGED <<catalog, included, curContainer, eppStack, stack, manifest, started>>

Declared(c, q) ==
  /\ Due(c, q) /\ c \in Class \ included
  /\ included' = included \cup {c}
  /\ stack' = Append(stack, Frame("class", "parent", c, ParentOf(c)))
  /\ todo' = Append(q, manifest.body[c])
  /\ UNCHANGED <<catalog, curContainer, eppStack, signal, manifest, started>>

\* The types of the fields of a call.
LEMMA CallType ==
  ASSUME TypeOK, Shape, Calls
  PROVE  /\ Len(stack) \in Nat /\ Len(todo) = Len(stack)
         /\ \A i \in 1..Len(stack) : stack[i] \in FrameSet /\ CallOK(i) /\ todo[i] \in Seq(ClassName)
         /\ stack # << >> => Len(stack) \in 1..Len(stack) /\ Top = stack[Len(stack)]
         /\ \A i \in 1..Len(stack) : Names(ListOf(manifest, stack[i])) \subseteq ClassName
         /\ \A c \in ClassName : ParentOf(c) \in ClassName \cup {None}
<1>1. /\ Len(stack) \in Nat /\ Len(todo) = Len(stack)
      /\ \A i \in 1..Len(stack) : stack[i] \in FrameSet /\ CallOK(i) /\ todo[i] \in Seq(ClassName)
      /\ stack # << >> => Len(stack) \in 1..Len(stack) /\ Top = stack[Len(stack)]
  BY StackType DEF Shape, Calls, Top
<1>2. ASSUME NEW i \in 1..Len(stack)
      PROVE  Names(ListOf(manifest, stack[i])) \subseteq ClassName
  <2>1. stack[i].kind = "program" \/ (stack[i].kind = "class" /\ stack[i].ref \in Class)
    BY <1>1 DEF CallOK, CallFits, FrameSet
  <2>2. ListOf(manifest, stack[i]) \in Seq(ClassName)
    BY <2>1, ProgramType DEF Shape, ListOf
  <2>3. QED
    BY <2>2, NamesIn
<1>3. \A c \in ClassName : ParentOf(c) \in ClassName \cup {None}
  BY ProgramType DEF Shape, ParentOf
<1>4. QED
  BY <1>1, <1>2, <1>3

\* A list without its first name.
LEMMA Rest ==
  ASSUME TypeOK, Shape, Calls, Running, Top.phase = "body", todo[Len(todo)] # << >>
  PROVE  Due(Head(todo[Len(todo)]), [todo EXCEPT ![Len(todo)] = Tail(@)])
<1> DEFINE n == Len(stack)
           t == Tail(todo[n])
           q == [todo EXCEPT ![n] = t]
<1>1. /\ n \in 1..n /\ Len(todo) = n /\ todo \in Seq(Seq(ClassName)) /\ todo[n] \in Seq(ClassName)
  BY CallType DEF Running, Shape
<1>2. /\ t \in Seq(ClassName) /\ Head(todo[n]) \in ClassName
      /\ Names(todo[n]) = Names(t) \cup {Head(todo[n])}
  BY <1>1, NamesTail
<1> HIDE DEF t
<1>3. /\ q \in Seq(Seq(ClassName)) /\ Len(q) = n /\ q[n] = t
      /\ \A i \in 1..(n - 1) : q[i] = todo[i]
  BY <1>1, <1>2
<1>4. [todo EXCEPT ![Len(todo)] = Tail(@)] = q
  BY <1>1 DEF t
<1> HIDE DEF q, n
<1>5. QED
  BY <1>1, <1>2, <1>3, <1>4 DEF Due, n

\* A step of a compilation, by what it does to the calls.
LEMMA StepKinds ==
  ASSUME TypeOK, Shape, Calls, InclusionNext
  PROVE  \/ Begin
         \/ \E c \in ClassName : Skips(c)
         \/ \E c \in ClassName : Fails(c)
         \/ \E c \in Class, q \in Seq(Seq(ClassName)) : Declared(c, q)
         \/ Proceed
         \/ End
<1>1. ASSUME NEW c, NEW q, Due(c, q), BeginClass(c, ParentOf(c)), c \notin included,
             todo' = TodoInside(q, c), UNCHANGED <<catalog, curContainer, eppStack, manifest, started>>
      PROVE  Fails(c) \/ Declared(c, q)
  BY <1>1 DEF BeginClass, TodoInside, Fails, Declared
<1>2. CASE Include
  <2> DEFINE c == Head(todo[Len(todo)])
             q == [todo EXCEPT ![Len(todo)] = Tail(@)]
  <2>1. Due(c, q)
    BY <1>2, Rest DEF Include
  <2>2. c \in ClassName /\ q \in Seq(Seq(ClassName))
    BY <2>1 DEF Due
  <2>3. CASE c \in included /\ todo' = q /\ UNCHANGED vars
    <3>1. Skips(c)
      BY <1>2, <2>1, <2>3 DEF Skips, Include
    <3>2. QED
      BY <2>2, <3>1
  <2>4. CASE DeclareClass(c, ParentOf(c)) /\ todo' = TodoInside(q, c)
    <3>1. Fails(c) \/ Declared(c, q)
      BY <1>1, <1>2, <2>1, <2>4 DEF DeclareClass, Include
    <3> HIDE DEF c, q
    <3>2. QED
      BY <2>2, <3>1 DEF Declared
  <2>5. QED
    BY <1>2, <2>3, <2>4 DEF Include
<1>3. CASE Inherit
  <2>1. Top.super \in ClassName
    BY <1>3, StackType DEF Inherit, DeclareParent, Running, FrameSet
  <2>2. Due(Top.super, todo)
    BY <1>3, <2>1 DEF Inherit, DeclareParent, Due, Shape
  <2>3. Fails(Top.super) \/ Declared(Top.super, todo)
    BY <1>1, <1>3, <2>2 DEF Inherit, DeclareParent
  <2>4. QED
    BY <2>1, <2>3 DEF Declared, Shape
<1>4. QED
  BY <1>2, <1>3 DEF InclusionNext

\* Every one is a step of Evaluator.
LEMMA EvaluatorStep ==
  ASSUME TypeOK, Shape, Calls, [InclusionNext]_inclusionVars
  PROVE  [Next]_vars
<1>1. CASE Include
  <2> DEFINE c == Head(todo[Len(todo)])
  <2>1. c \in ClassName /\ ParentOf(c) \in ClassName \cup {None}
    BY <1>1, Rest, CallType DEF Include, Due
  <2> HIDE DEF c
  <2>2. DeclareClass(c, ParentOf(c)) => Next
    BY <2>1 DEF Next, Statement
  <2>3. QED
    BY <1>1, <2>2 DEF Include, c
<1>2. CASE Inherit
  <2>1. Top.super \in ClassName
    BY <1>2, StackType DEF Inherit, DeclareParent, Running, FrameSet
  <2>2. ParentOf(Top.super) \in ClassName \cup {None}
    BY <2>1, CallType
  <2>3. QED
    BY <1>2, <2>2 DEF Inherit, Next
<1>3. QED
  BY <1>1, <1>2 DEF InclusionNext, Begin, Proceed, End, Next, inclusionVars

-----------------------------------------------------------------------------
(* What each step does to the calls, position by position *)

\* A declaration adds a call and takes at most its name from the innermost list.
LEMMA DeclaredShape ==
  ASSUME TypeOK, Shape, Calls, NEW c \in Class, NEW q, Declared(c, q)
  PROVE  LET n == Len(stack) IN
         /\ n \in 1..n /\ Len(stack') = n + 1 /\ Len(todo') = n + 1
         /\ todo' \in Seq(Seq(ClassName))
         /\ \A i \in 1..n : stack'[i] = stack[i]
         /\ \A i \in 1..(n - 1) : todo'[i] = todo[i]
         /\ Names(todo'[n]) \subseteq Names(todo[n])
         /\ Names(todo[n]) \subseteq Names(todo'[n]) \cup {c}
         /\ Top.phase # "body" => todo'[n] = todo[n]
         /\ stack'[n + 1].kind = "class" /\ stack'[n + 1].phase = "parent"
         /\ stack'[n + 1].ref = c /\ stack'[n + 1].super = ParentOf(c)
         /\ todo'[n + 1] = manifest.body[c]
         /\ Top.phase \in {"body", "parent"}
<1> DEFINE n == Len(stack)
           f == Frame("class", "parent", c, ParentOf(c))
           b == manifest.body[c]
<1>1. /\ n \in 1..n /\ n \in Nat /\ Len(todo) = n /\ Len(q) = n /\ q \in Seq(Seq(ClassName))
      /\ b \in Seq(ClassName)
  BY CallType, ProgramType DEF Declared, Due, Running, Shape
<1>2. f.kind = "class" /\ f.phase = "parent" /\ f.ref = c /\ f.super = ParentOf(c)
  BY DEF Frame
<1>3. stack \in Seq(FrameSet) /\ stack' = Append(stack, f) /\ todo' = Append(q, b)
  BY DEF Declared, TypeOK
<1>4. f \in FrameSet
  BY EvaluatorAssumption, CallType, FrameType DEF Kind, Phase, Ref
<1> HIDE DEF f, b
<1>5. /\ Len(stack') = n + 1 /\ stack'[n + 1] = f
      /\ \A i \in 1..n : stack'[i] = stack[i]
  BY <1>1, <1>3, <1>4
<1>6. /\ todo' \in Seq(Seq(ClassName)) /\ Len(todo') = n + 1 /\ todo'[n + 1] = b
      /\ \A i \in 1..n : todo'[i] = q[i]
  BY <1>1, <1>3
<1>7. /\ \A i \in 1..(n - 1) : todo'[i] = todo[i]
      /\ Names(todo'[n]) \subseteq Names(todo[n])
      /\ Names(todo[n]) \subseteq Names(todo'[n]) \cup {c}
      /\ Top.phase # "body" => todo'[n] = todo[n]
      /\ Top.phase \in {"body", "parent"}
  BY <1>1, <1>6 DEF Declared, Due
<1>8. QED
  BY <1>1, <1>2, <1>5, <1>6, <1>7 DEF b

\* A name skipped or failing is taken from the innermost list.
LEMMA DueShape ==
  ASSUME TypeOK, Shape, Calls, NEW c, Due(c, todo')
  PROVE  LET n == Len(stack) IN
         /\ n \in 1..n /\ Len(todo') = n /\ todo' \in Seq(Seq(ClassName))
         /\ \A i \in 1..(n - 1) : todo'[i] = todo[i]
         /\ Names(todo'[n]) \subseteq Names(todo[n])
         /\ Names(todo[n]) \subseteq Names(todo'[n]) \cup {c}
         /\ Top.phase # "body" => todo'[n] = todo[n]
BY CallType DEF Due, Running

\* Adding a class to the catalog and entering its body move the innermost call on.
LEMMA ProceedShape ==
  ASSUME TypeOK, Shape, Calls, Proceed
  PROVE  LET n == Len(stack) IN
         /\ n \in 1..n /\ n # 1 /\ Len(stack') = n /\ todo' = todo
         /\ signal = "none" /\ signal' = "none"
         /\ \A i \in 1..(n - 1) : stack'[i] = stack[i]
         /\ stack[n].kind = "class" /\ stack'[n].kind = "class"
         /\ stack'[n].ref = stack[n].ref /\ stack'[n].super = stack[n].super
         /\ \/ AddClass /\ stack[n].phase = "parent" /\ stack'[n].phase = "params"
               /\ Add(stack[n].ref, "regular")
            \/ EnterBody /\ stack[n].phase = "params" /\ stack'[n].phase = "body"
<1> DEFINE n == Len(stack)
<1>1. /\ n \in 1..n /\ Top = stack[n] /\ Top \in FrameSet /\ CallOK(n) /\ n \in Nat
      /\ stack \in Seq(FrameSet) /\ signal = "none"
  BY CallType DEF Proceed, AddClass, EnterBody, Running, TypeOK
<1>2. Top.phase # "body"
  BY DEF Proceed, AddClass, EnterBody
<1>3. n # 1 /\ stack[n].kind = "class"
  BY <1>1, <1>2 DEF CallOK, CallFits
<1>4. todo' = todo /\ UNCHANGED <<manifest, started>>
  BY DEF Proceed
<1>5. CASE AddClass
  <2>1. Add(Top.ref, "regular") /\ stack[n].phase = "parent"
    BY <1>1, <1>3, <1>5 DEF AddClass, Duplicate, CallOK, CallFits
  <2>2. PICK f : f = [Top EXCEPT !.phase = "params"]
    OBVIOUS
  <2>3. f.phase = "params" /\ f.kind = Top.kind /\ f.ref = Top.ref /\ f.super = Top.super
    BY <1>1, <2>2 DEF FrameSet
  <2>4. stack' = [stack EXCEPT ![n] = f] /\ signal' = signal
    BY <1>5, <2>1, <2>2 DEF AddClass, Add, Duplicate, Enter
  <2>5. Len(stack') = n /\ stack'[n] = f /\ \A i \in 1..(n - 1) : stack'[i] = stack[i]
    BY <1>1, <2>4
  <2>6. QED
    BY <1>1, <1>3, <1>4, <1>5, <2>1, <2>3, <2>4, <2>5
<1>6. CASE EnterBody
  <2>1. PICK f : f = [Top EXCEPT !.phase = "body", !.prev = curContainer]
    OBVIOUS
  <2>2. f.phase = "body" /\ f.kind = Top.kind /\ f.ref = Top.ref /\ f.super = Top.super
    BY <1>1, <2>1 DEF FrameSet
  <2>3. stack' = [stack EXCEPT ![n] = f] /\ signal' = signal /\ stack[n].phase = "params"
    BY <1>1, <1>3, <1>6, <2>1 DEF EnterBody
  <2>4. Len(stack') = n /\ stack'[n] = f /\ \A i \in 1..(n - 1) : stack'[i] = stack[i]
    BY <1>1, <2>3
  <2>5. QED
    BY <1>1, <1>3, <1>4, <1>6, <2>2, <2>3, <2>4
<1>7. QED
  BY <1>5, <1>6 DEF Proceed

\* A body that ended returns to the call around it.
LEMMA EndShape ==
  ASSUME TypeOK, Shape, Calls, End
  PROVE  LET n == Len(stack) IN
         /\ n \in 1..n /\ Len(stack') = n - 1 /\ Len(todo') = n - 1
         /\ todo' \in Seq(Seq(ClassName))
         /\ \A i \in 1..(n - 1) : stack'[i] = stack[i] /\ todo'[i] = todo[i]
         /\ UNCHANGED <<catalog, included, manifest, started>> /\ signal' = signal
         /\ signal = "none" => todo[n] = << >> /\ stack[n].phase = "body"
<1> DEFINE n == Len(stack)
<1>1. stack # << >> /\ Leave
  BY DEF End, Return, Unwind, Running
<1>2. /\ n \in 1..n /\ Top = stack[n] /\ Top \in FrameSet /\ CallOK(n) /\ n \in Nat
      /\ stack \in Seq(FrameSet) /\ todo \in Seq(Seq(ClassName)) /\ Len(todo) = n
  BY <1>1, CallType DEF TypeOK, Shape
<1>3. Len(stack') = n - 1 /\ \A i \in 1..(n - 1) : stack'[i] = stack[i]
  BY <1>1, LeaveShape
<1>4. todo # << >> /\ todo' = SubSeq(todo, 1, Len(todo) - 1)
  BY <1>2 DEF End
<1>5. /\ todo' \in Seq(Seq(ClassName)) /\ Len(todo') = n - 1
      /\ \A i \in 1..(n - 1) : todo'[i] = todo[i]
  BY <1>2, <1>4, FrontShape
<1>6. Top.kind \in {"program", "class"}
  BY <1>2 DEF CallOK, CallFits
<1>7. signal' = signal
  BY <1>6 DEF End, Return, Unwind, Returned, Running, Catches, Shape
<1>8. signal = "none" => todo[n] = << >> /\ stack[n].phase = "body"
  BY <1>2, <1>6 DEF End, Return, Unwind, CallOK, CallFits
<1>9. QED
  BY <1>1, <1>2, <1>3, <1>5, <1>7, <1>8 DEF Leave, End, catalog

-----------------------------------------------------------------------------
(* The invariant is kept, part by part *)

\* A compilation begins with one list of names.
LEMMA BeginShape ==
  ASSUME Shape, Begin
  PROVE  /\ Init /\ stack = << >> /\ Len(stack') = 1
         /\ stack'[1].kind = "program" /\ stack'[1].phase = "body"
         /\ todo' = <<manifest.main>> /\ Len(todo') = 1 /\ todo'[1] = manifest.main
         /\ UNCHANGED <<catalog, included, curContainer, eppStack, manifest>> /\ signal' = "none"
         /\ started' = TRUE
BY DEF Shape, Begin, EvalProgram, Entry, Frame

\* Steps keep the shape of the calls.
LEMMA ShapeNext ==
  ASSUME TypeOK, Shape, Calls, [InclusionNext]_inclusionVars
  PROVE  Shape'
<1> USE DEF Shape
<1>1. CASE Begin
  <2>1. manifest.main \in Seq(ClassName)
    BY ProgramType
  <2>2. <<manifest.main>> \in Seq(Seq(ClassName))
    BY <2>1
  <2>3. QED
    BY <1>1, <2>2, BeginShape
<1>2. ASSUME NEW c \in ClassName, Skips(c) \/ Fails(c)
      PROVE  Shape'
  <2>1. /\ Len(todo') = Len(stack) /\ todo' \in Seq(Seq(ClassName)) /\ stack # << >>
        /\ stack' = stack
    BY <1>2, DueShape DEF Skips, Fails, vars, Due, Running
  <2>2. QED
    BY <1>2, <2>1 DEF Skips, Fails, vars, Init
<1>3. ASSUME NEW c \in Class, NEW q \in Seq(Seq(ClassName)), Declared(c, q)
      PROVE  Shape'
  BY <1>3, DeclaredShape DEF Declared, Init
<1>4. CASE Proceed
  BY <1>4, ProceedShape DEF Proceed, Init
<1>5. CASE End
  BY <1>5, EndShape DEF End, Init
<1>6. CASE UNCHANGED inclusionVars
  BY <1>6 DEF inclusionVars, vars, Init
<1>7. QED
  BY <1>1, <1>2, <1>3, <1>4, <1>5, <1>6, StepKinds

\* Steps keep what each call is in the middle of.
LEMMA CallsNext ==
  ASSUME IInv, Shape, Calls, Accounted, [InclusionNext]_inclusionVars
  PROVE  Calls'
<1> DEFINE n == Len(stack)
<1>0. /\ TypeOK /\ n \in Nat /\ (\A i \in 1..n : stack[i] \in FrameSet /\ CallOK(i))
      /\ (\A c \in Class : c \in Ref)
  BY CallType DEF IInv, Ref
\* A call that stays where it was, with no more to do, and still beneath the top if it was.
<1>1. ASSUME NEW i \in 1..n, stack'[i] = stack[i], manifest' = manifest,
             Names(todo'[i]) \subseteq Names(todo[i]),
             stack[i].phase # "body" => todo'[i] = todo[i],
             i # Len(stack') => i # n \/ stack[i].phase # "params",
             i # 1 /\ stack[i].phase = "parent" => status'[stack[i].ref] = status[stack[i].ref]
      PROVE  CallFits(i, Len(stack'), stack'[i], todo'[i], status', manifest')
  BY <1>0, <1>1 DEF CallOK, CallFits, ParentOf, ListOf
<1>2. CASE Begin
  <2>1. CallFits(1, 1, stack'[1], todo'[1], status', manifest')
    BY <1>2, BeginShape DEF CallFits, ListOf
  <2>2. Len(stack') = 1
    BY <1>2, BeginShape
  <2>3. QED
    BY <2>1, <2>2 DEF Calls, CallOK
<1>3. ASSUME NEW c \in ClassName, Skips(c) \/ Fails(c)
      PROVE  Calls'
  <2>1. stack' = stack /\ status' = status /\ manifest' = manifest /\ Due(c, todo')
    BY <1>3 DEF Skips, Fails, vars, catalog
  <2>2. /\ n \in 1..n
        /\ \A i \in 1..(n - 1) : todo'[i] = todo[i]
        /\ Names(todo'[n]) \subseteq Names(todo[n])
        /\ stack[n].phase # "body" => todo'[n] = todo[n]
    BY <2>1, DueShape DEF IInv, Top
  <2>3. ASSUME NEW i \in 1..n
        PROVE  CallFits(i, Len(stack'), stack'[i], todo'[i], status', manifest')
    <3>1. i = n \/ i \in 1..(n - 1)
      BY <1>0
    <3>2. QED
      BY <1>1, <2>1, <2>2, <3>1
  <2>4. QED
    BY <2>1, <2>3 DEF Calls, CallOK
<1>4. ASSUME NEW c \in Class, NEW q \in Seq(Seq(ClassName)), Declared(c, q)
      PROVE  Calls'
  <2>1. status' = status /\ manifest' = manifest
    BY <1>4 DEF Declared, catalog
  <2>2. CallFits(n + 1, Len(stack'), stack'[n + 1], todo'[n + 1], status', manifest')
    <3>1. status[c] = Absent
      BY <1>4 DEF Accounted, Declared
    <3>2. QED
      BY <1>0, <1>4, <2>1, <3>1, DeclaredShape DEF CallOK, CallFits, ParentOf, ListOf
  <2>3. /\ n \in 1..n /\ Len(stack') = n + 1
        /\ \A i \in 1..n : stack'[i] = stack[i]
        /\ \A i \in 1..(n - 1) : todo'[i] = todo[i]
        /\ Names(todo'[n]) \subseteq Names(todo[n])
        /\ stack[n].phase # "body" => todo'[n] = todo[n]
        /\ stack[n].phase # "params"
    BY <1>4, DeclaredShape DEF IInv, Top
  <2>4. ASSUME NEW i \in 1..n
        PROVE  CallFits(i, Len(stack'), stack'[i], todo'[i], status', manifest')
    <3>1. i = n \/ i \in 1..(n - 1)
      BY <1>0
    <3>2. QED
      BY <1>1, <2>1, <2>3, <3>1
  <2>5. \A i \in 1..(n + 1) : i = n + 1 \/ i \in 1..n
    BY <1>0
  <2>6. QED
    BY <2>2, <2>3, <2>4, <2>5 DEF Calls, CallOK
<1>5. CASE Proceed
  <2>1. manifest' = manifest /\ todo' = todo
    BY <1>5 DEF Proceed
  <2>2. CallFits(n, Len(stack'), stack'[n], todo'[n], status', manifest')
    BY <1>0, <1>5, <2>1, ProceedShape DEF CallOK, CallFits, ParentOf, ListOf
  <2>3. ASSUME NEW i \in 1..(n - 1)
        PROVE  CallFits(i, Len(stack'), stack'[i], todo'[i], status', manifest')
    <3>1. i \in 1..n /\ n \in 1..n /\ i # n
      BY <1>0, <1>5, ProceedShape
    <3>2. ASSUME i # 1, stack[i].phase = "parent"
          PROVE  status'[stack[i].ref] = status[stack[i].ref]
      <4>1. /\ stack[i].kind = "class" /\ stack[n].kind = "class"
            /\ stack[i].ref \in Class /\ stack[n].ref \in Class
        BY <1>0, <1>5, <3>1, <3>2, ProceedShape DEF CallOK, CallFits, FrameSet
      <4>2. stack[i].ref # stack[n].ref
        BY <3>1, <4>1 DEF IInv, NoReentry
      <4>3. CASE AddClass
        BY <1>0, <1>5, <4>1, <4>2, <4>3, ProceedShape DEF Add, TypeOK, AddClass, EnterBody
      <4>4. CASE EnterBody
        BY <4>4 DEF EnterBody, catalog
      <4>5. QED
        BY <1>5, <4>3, <4>4 DEF Proceed
    <3>3. QED
      BY <1>0, <1>1, <1>5, <2>1, <3>1, <3>2, ProceedShape
  <2>4. Len(stack') = n /\ \A i \in 1..n : i = n \/ i \in 1..(n - 1)
    BY <1>0, <1>5, ProceedShape
  <2>5. QED
    BY <2>2, <2>3, <2>4 DEF Calls, CallOK
<1>6. CASE End
  <2>1. ASSUME NEW i \in 1..(n - 1)
        PROVE  CallFits(i, Len(stack'), stack'[i], todo'[i], status', manifest')
    <3>1. i \in 1..n /\ i # n
      BY <1>0, <1>6, EndShape
    <3>2. stack'[i] = stack[i] /\ todo'[i] = todo[i] /\ manifest' = manifest /\ status' = status
      BY <1>0, <1>6, EndShape DEF catalog
    <3>3. QED
      BY <1>1, <3>1, <3>2
  <2>2. Len(stack') = n - 1
    BY <1>0, <1>6, EndShape
  <2>3. QED
    BY <2>1, <2>2 DEF Calls, CallOK
<1>7. CASE UNCHANGED inclusionVars
  BY <1>7 DEF inclusionVars, vars, Calls, CallOK, CallFits, ParentOf
<1>8. QED
  BY <1>0, <1>2, <1>3, <1>4, <1>5, <1>6, <1>7, StepKinds

-----------------------------------------------------------------------------
(* Why a class is declared *)

\* What the compiler comes to next was reached.
LEMMA DueReached ==
  ASSUME TypeOK, Shape, Calls, Descends, NEW c, NEW q, Due(c, q)
  PROVE  /\ c \in Reached
         /\ \A k \in 2..Len(stack) : c \in Reach(manifest, {stack[k].ref})
         /\ \A k \in 1..Len(stack) :
              stack[k].phase = "body"
              /\ (\A j \in (k + 1)..Len(stack) : stack[j].phase = "parent")
              => c \in Lineage(manifest, Names(ListOf(manifest, stack[k])))
<1> DEFINE n == Len(stack)
<1>1. /\ n \in 1..n /\ n \in Nat /\ Top = stack[n] /\ c \in ClassName /\ manifest \in Manifest
      /\ (\A i \in 1..n : stack[i] \in FrameSet /\ CallOK(i))
      /\ \A i \in 1..n : Names(ListOf(manifest, stack[i])) \subseteq ClassName
  BY CallType DEF Due, Running, Shape
<1>0. /\ n \in 1..n /\ n \in Nat
      /\ n # 1 => n \in 2..n
      /\ \A k \in 2..n : n \in 2..n
  <2>1. n \in Nat /\ n \in 1..n
    BY <1>1
  <2> HIDE DEF n
  <2>2. QED
    BY <2>1
<1>2. ASSUME NEW i \in 2..n
      PROVE  /\ i \in 1..n /\ stack[i].kind = "class" /\ stack[i].ref \in Class
             /\ stack[i].super = manifest.parent[stack[i].ref]
  <2>1. i \in 1..n /\ i # 1
    BY <1>0
  <2>2. QED
    BY <1>1, <2>1 DEF CallOK, CallFits, FrameSet
<1>3. stack[n].phase = "body" => c \in Names(ListOf(manifest, stack[n]))
  BY <1>1 DEF Due, CallOK, CallFits
<1>4. ASSUME stack[n].phase # "body"
      PROVE  n \in 2..n /\ manifest.parent[stack[n].ref] = c /\ c # None
             /\ stack[n].phase = "parent"
  <2>1. n # 1 /\ stack[n].phase = "parent" /\ stack[n].super = c
    BY <1>1, <1>4 DEF CallOK, CallFits, Due
  <2>2. n \in 2..n
    BY SMTT(60), <1>1, <2>1
  <2>3. QED
    BY <1>1, <1>2, <2>1, <2>2, EvaluatorAssumption DEF ParentOf
\* From the innermost class.
<1>5. ASSUME n # 1, NEW T, stack[n].ref \in Reach(manifest, T)
      PROVE  c \in Reach(manifest, T)
  <2>1. n \in 2..n
    BY <1>0, <1>5
  <2>2. CASE stack[n].phase = "body"
    BY <1>1, <1>2, <1>3, <1>5, <2>1, <2>2, ReachBody DEF ListOf
  <2>3. CASE stack[n].phase # "body"
    BY <1>1, <1>2, <1>4, <1>5, <2>3, ReachParent
  <2>4. QED
    BY <2>2, <2>3
<1>6. c \in Reached
  <2>1. CASE n = 1
    <3>1. stack[n].kind = "program" /\ stack[n].phase = "body"
      BY <1>1, <2>1 DEF CallOK, CallFits
    <3>2. c \in Names(manifest.main) /\ Names(manifest.main) \subseteq ClassName
      BY <1>1, <1>3, <3>1 DEF ListOf
    <3>3. QED
      BY <1>1, <3>2, ReachBase DEF Reached
  <2>2. CASE n # 1
    BY <1>1, <1>5, <2>2 DEF Descends, Reached
  <2>3. QED
    BY <2>1, <2>2
<1>7. ASSUME NEW k \in 2..n PROVE c \in Reach(manifest, {stack[k].ref})
  <2>1. n \in 2..n
    BY <1>0, <1>7
  <2>2. stack[n].ref \in Reach(manifest, {stack[k].ref})
    <3>1. CASE k = n
      <4>1. {stack[n].ref} \in SUBSET ClassName
        BY <1>2, <2>1, EvaluatorAssumption
      <4>2. QED
        BY <3>1, <4>1, ReachBase
    <3>2. CASE k # n
      BY <1>1, <2>1, <3>2 DEF Descends
    <3>3. QED
      BY <3>1, <3>2
  <2>3. QED
    BY <1>5, <2>1, <2>2
<1>8. ASSUME NEW k \in 1..n, stack[k].phase = "body",
             \A j \in (k + 1)..n : stack[j].phase = "parent"
      PROVE  c \in Lineage(manifest, Names(ListOf(manifest, stack[k])))
  <2>1. CASE k = n
    BY <1>1, <1>3, <1>8, <2>1, LineageBase
  <2>2. CASE k # n
    <3>1. n \in (k + 1)..n /\ \A j \in (k + 1)..(n - 1) : j \in (k + 1)..n
      BY <1>1, <2>2
    <3>2. stack[n].phase = "parent" /\ n \in 2..n
      BY <1>4, <1>8, <3>1
    <3>3. stack[n].ref \in Lineage(manifest, Names(ListOf(manifest, stack[k])))
      BY <1>1, <1>8, <2>2, <3>1 DEF Descends
    <3>4. QED
      BY <1>1, <1>2, <1>4, <3>2, <3>3, LineageParent
  <2>3. QED
    BY <2>1, <2>2
<1>9. QED
  BY <1>6, <1>7, <1>8

\* Steps keep the reason for each call.
LEMMA DescendsNext ==
  ASSUME TypeOK, Shape, Calls, Descends, [InclusionNext]_inclusionVars
  PROVE  Descends'
<1> DEFINE n == Len(stack)
<1>0. n \in Nat /\ n = Len(stack) /\ \A i \in 1..n : CallOK(i)
  BY CallType
\* The calls that remain, beneath the top as they were, descend as they did.
<1>1. ASSUME manifest' = manifest, NEW p \in 0..n, p <= Len(stack'),
             \A i \in 1..p : stack'[i].ref = stack[i].ref /\ stack'[i].kind = stack[i].kind,
             \A i \in 1..(p - 1) : stack'[i].phase = stack[i].phase
      PROVE  /\ \A i \in 2..p : stack'[i].ref \in Reached'
             /\ \A i, k \in 2..p : k < i => stack'[i].ref \in Reach(manifest', {stack'[k].ref})
             /\ \A i, k \in 1..p :
                  k < i /\ stack'[k].phase = "body"
                  /\ (\A j \in (k + 1)..(i - 1) : stack'[j].phase = "parent")
                  => stack'[i].ref \in Lineage(manifest', Names(ListOf(manifest', stack'[k])))
  <2>1. \A i \in 2..p : i \in 2..n /\ i \in 1..p
    BY <1>0, <1>1
  <2>2. \A i \in 2..p : stack'[i].ref \in Reached'
    BY <1>1, <2>1 DEF Descends, Reached
  <2>3. \A i, k \in 2..p : k < i => stack'[i].ref \in Reach(manifest', {stack'[k].ref})
    BY <1>1, <2>1 DEF Descends
  <2>4. ASSUME NEW i \in 1..p, NEW k \in 1..p, k < i, stack'[k].phase = "body",
               \A j \in (k + 1)..(i - 1) : stack'[j].phase = "parent"
        PROVE  stack'[i].ref \in Lineage(manifest', Names(ListOf(manifest', stack'[k])))
    <3>1. i \in 1..n /\ k \in 1..n /\ k \in 1..(p - 1)
      BY <1>0, <1>1, <2>4
    <3>2. \A j \in (k + 1)..(i - 1) : stack[j].phase = "parent"
      BY <1>0, <1>1, <2>4
    <3>3. stack[i].ref \in Lineage(manifest, Names(ListOf(manifest, stack[k])))
      BY <1>1, <2>4, <3>1, <3>2 DEF Descends
    <3>4. ListOf(manifest', stack'[k]) = ListOf(manifest, stack[k])
      BY <1>1 DEF ListOf
    <3>5. QED
      BY <1>1, <3>3, <3>4
  <2>5. QED
    BY <2>2, <2>3, <2>4
<1>2. CASE Begin
  <2>1. Len(stack') = 1
    BY <1>2, BeginShape
  <2>2. QED
    BY <2>1 DEF Descends
<1>3. ASSUME manifest' = manifest, Len(stack') \in 0..n,
             \A i \in 1..Len(stack') : stack'[i].ref = stack[i].ref /\ stack'[i].kind = stack[i].kind,
             \A i \in 1..(Len(stack') - 1) : stack'[i].phase = stack[i].phase
      PROVE  Descends'
  BY <1>0, <1>1, <1>3 DEF Descends
<1>4. ASSUME NEW c \in ClassName, Skips(c) \/ Fails(c)
      PROVE  Descends'
  BY <1>0, <1>3, <1>4 DEF Skips, Fails, vars
<1>5. ASSUME NEW c \in Class, NEW q \in Seq(Seq(ClassName)), Declared(c, q)
      PROVE  Descends'
  <2>1. /\ n \in 1..n /\ Len(stack') = n + 1 /\ stack'[n + 1].ref = c
        /\ \A i \in 1..n : stack'[i] = stack[i]
    BY <1>5, DeclaredShape
  <2>2. manifest' = manifest /\ Due(c, q)
    BY <1>5 DEF Declared
  <2>3. /\ c \in Reached
        /\ \A k \in 2..n : c \in Reach(manifest, {stack[k].ref})
        /\ \A k \in 1..n :
             stack[k].phase = "body" /\ (\A j \in (k + 1)..n : stack[j].phase = "parent")
             => c \in Lineage(manifest, Names(ListOf(manifest, stack[k])))
    BY <2>2, DueReached
  <2>4. /\ \A i \in 2..n : stack'[i].ref \in Reached'
        /\ \A i, k \in 2..n : k < i => stack'[i].ref \in Reach(manifest', {stack'[k].ref})
        /\ \A i, k \in 1..n :
             k < i /\ stack'[k].phase = "body"
             /\ (\A j \in (k + 1)..(i - 1) : stack'[j].phase = "parent")
             => stack'[i].ref \in Lineage(manifest', Names(ListOf(manifest', stack'[k])))
    <3>1. n \in 0..n /\ n <= Len(stack') /\ \A i \in 1..(n - 1) : i \in 1..n
      BY <1>0, <2>1
    <3>2. QED
      BY <1>1, <2>1, <2>2, <3>1
  <2>5. \A i \in 2..(n + 1) : i = n + 1 \/ i \in 2..n
    BY <1>0
  <2>6. \A i \in 1..(n + 1) : i = n + 1 \/ i \in 1..n
    BY <1>0
  <2>7. \A i \in 2..(n + 1) : stack'[i].ref \in Reached'
    BY <2>1, <2>2, <2>3, <2>4, <2>5 DEF Reached
  <2>8. ASSUME NEW i \in 2..(n + 1), NEW k \in 2..(n + 1), k < i
        PROVE  stack'[i].ref \in Reach(manifest', {stack'[k].ref})
    <3>1. k \in 2..n /\ k \in 1..n
      BY <1>0, <2>8
    <3>2. QED
      BY <2>1, <2>2, <2>3, <2>4, <2>5, <2>8, <3>1
  <2>9. ASSUME NEW i \in 1..(n + 1), NEW k \in 1..(n + 1), k < i, stack'[k].phase = "body",
               \A j \in (k + 1)..(i - 1) : stack'[j].phase = "parent"
        PROVE  stack'[i].ref \in Lineage(manifest', Names(ListOf(manifest', stack'[k])))
    <3>1. k \in 1..n
      BY <1>0, <2>9
    <3>2. CASE i \in 1..n
      BY <2>4, <2>9, <3>1, <3>2
    <3>3. CASE i = n + 1
      <4>1. \A j \in (k + 1)..n : j \in (k + 1)..(i - 1) /\ j \in 1..n
        BY <1>0, <3>1, <3>3
      <4>2. \A j \in (k + 1)..n : stack[j].phase = "parent"
        BY <2>1, <2>9, <4>1
      <4>3. c \in Lineage(manifest, Names(ListOf(manifest, stack[k])))
        BY <2>1, <2>3, <2>9, <3>1, <4>2
      <4>4. QED
        BY <2>1, <2>2, <3>1, <3>3, <4>3
    <3>4. QED
      BY <2>6, <3>2, <3>3
  <2>10. QED
    BY <2>1, <2>7, <2>8, <2>9 DEF Descends
<1>6. CASE Proceed
  <2>1. manifest' = manifest
    BY <1>6 DEF Proceed
  <2>2. Len(stack') = n /\ n \in 1..n
    BY <1>6, ProceedShape
  <2>3. \A i \in 1..n : stack'[i].ref = stack[i].ref /\ stack'[i].kind = stack[i].kind
    <3>1. \A i \in 1..n : i = n \/ i \in 1..(n - 1)
      BY <1>0
    <3>2. QED
      BY <1>6, <3>1, ProceedShape
  <2>4. \A i \in 1..(n - 1) : stack'[i].phase = stack[i].phase
    BY <1>6, ProceedShape
  <2>5. QED
    BY <1>0, <1>3, <2>1, <2>2, <2>3, <2>4
<1>7. CASE End
  <2>1. /\ n \in 1..n /\ Len(stack') = n - 1 /\ manifest' = manifest
        /\ \A i \in 1..(n - 1) : stack'[i] = stack[i]
    BY <1>7, EndShape
  <2>2. QED
    BY <1>0, <1>3, <2>1
<1>8. CASE UNCHANGED inclusionVars
  BY <1>0, <1>3, <1>8 DEF inclusionVars, vars
<1>9. QED
  BY <1>2, <1>4, <1>5, <1>6, <1>7, <1>8, StepKinds

-----------------------------------------------------------------------------
(* What is included, and what is left to do *)

\* Classes that are declared were reached.
LEMMA AccountedNext ==
  ASSUME IInv, Shape, Calls, Descends, Accounted, [InclusionNext]_inclusionVars
  PROVE  Accounted'
<1>0. TypeOK
  BY DEF IInv
<1>1. CASE Begin
  BY <1>1, BeginShape, EvaluatorAssumption DEF Accounted, Init, catalog, Reached, Ref
<1>2. ASSUME NEW c \in ClassName, Skips(c)
      PROVE  Accounted'
  BY <1>2 DEF Skips, vars, Accounted, Reached
<1>3. ASSUME NEW c \in ClassName, Fails(c)
      PROVE  Accounted'
  <2>1. c \in Reached /\ c \notin Class
    BY <1>0, <1>3, DueReached DEF Fails
  <2>2. QED
    BY <1>3, <2>1 DEF Fails, catalog, Accounted, Reached
<1>4. ASSUME NEW c \in Class, NEW q \in Seq(Seq(ClassName)), Declared(c, q)
      PROVE  Accounted'
  <2>1. c \in Reached
    BY <1>0, <1>4, DueReached DEF Declared
  <2>2. signal' = "none"
    BY <1>4 DEF Declared, Due, Running
  <2>3. QED
    BY <1>4, <2>1, <2>2 DEF Declared, catalog, Accounted, Reached
<1>5. CASE Proceed
  <2>1. manifest' = manifest /\ signal' = "none" /\ included' = included
    BY <1>0, <1>5, ProceedShape DEF Proceed, AddClass, EnterBody
  <2>2. CASE AddClass
    <3>1. Add(Top.ref, "regular") /\ Top.ref \in included
      BY <1>0, <1>5, <2>2, ProceedShape DEF IInv, FramesOK, FrameOK, Top, AddClass, EnterBody
    <3>2. \A c \in Class : status'[c] # Absent => c \in included
      BY <1>0, <3>1 DEF Add, Accounted, TypeOK
    <3>3. QED
      BY <2>1, <3>2 DEF Accounted, Reached
  <2>3. CASE EnterBody
    BY <2>1, <2>3 DEF EnterBody, catalog, Accounted, Reached
  <2>4. QED
    BY <1>5, <2>2, <2>3 DEF Proceed
<1>6. CASE End
  BY <1>0, <1>6, EndShape DEF catalog, Accounted, Reached
<1>7. CASE UNCHANGED inclusionVars
  BY <1>7 DEF inclusionVars, vars, Accounted, Reached
<1>8. QED
  BY <1>0, <1>1, <1>2, <1>3, <1>4, <1>5, <1>6, <1>7, StepKinds

\* Once a compilation goes wrong it stays wrong: it knows no jumps.
LEMMA WrongStays ==
  ASSUME TypeOK, Shape, Calls, [InclusionNext]_inclusionVars, signal' = "none"
  PROVE  signal = "none"
<1>1. CASE Begin
  BY <1>1, BeginShape DEF Init
<1>2. CASE Proceed
  BY <1>2, ProceedShape
<1>3. CASE End
  BY <1>3, EndShape
<1>4. QED
  BY <1>1, <1>2, <1>3, StepKinds DEF Skips, Fails, Declared, inclusionVars, vars

\* What bodies include is declared, or owed by a call, or something failed.
LEMMA OwedNext ==
  ASSUME IInv, Shape, Calls, Descends, Accounted, Owed, [InclusionNext]_inclusionVars,
         signal = "none", signal' = "none"
  PROVE  Owed'
<1> DEFINE n == Len(stack)
<1>0. /\ TypeOK /\ n \in Nat /\ included \subseteq Class
      /\ \A i \in 1..n : stack[i] \in FrameSet /\ CallOK(i)
  BY CallType DEF IInv, TypeOK
\* What is owed stays owed when no call is left, none gets past its parent, and what is
\* taken from a list gets included.
<1>1. ASSUME manifest' = manifest, started' = started, included \subseteq included',
             n <= Len(stack'), Len(stack') \in Nat, stack # << >>,
             \A i \in 1..n :
               /\ stack'[i].ref = stack[i].ref /\ stack'[i].kind = stack[i].kind
               /\ stack[i].phase = "parent"
                  => \/ stack'[i].phase = "parent"
                     \/ ParentOf(stack[i].ref) \in included \cup {None}
               /\ Names(todo[i]) \subseteq Names(todo'[i]) \cup included'
      PROVE  /\ started' => \A d \in Names(manifest'.main) :
                              d \in included' \/ (stack' # << >> /\ d \in Names(todo'[1]))
             /\ \A c \in included : ParentOf(c)' \in included' \cup {None} \/ Waiting(c)'
             /\ \A c \in included : \A d \in Names(manifest'.body[c]) : d \in included' \/ Pending(c, d)'
  <2>1. /\ 1 \in 1..n /\ stack' # << >>
        /\ \A i \in 1..n : i \in 1..Len(stack')
        /\ \A i \in 2..n : i \in 2..Len(stack') /\ i \in 1..n
    BY <1>0, <1>1
  <2>2. started' => \A d \in Names(manifest'.main) :
                      d \in included' \/ (stack' # << >> /\ d \in Names(todo'[1]))
    BY <1>1, <2>1 DEF Owed
  <2>3. ASSUME NEW c \in included
        PROVE  ParentOf(c)' \in included' \cup {None} \/ Waiting(c)'
    <3>1. CASE ParentOf(c) \in included \cup {None}
      BY <1>1, <3>1 DEF ParentOf
    <3>2. CASE Waiting(c)
      <4>1. PICK i \in 1..n :
              stack[i].kind = "class" /\ stack[i].ref = c /\ stack[i].phase = "parent"
        BY <3>2 DEF Waiting
      <4>2. CASE stack'[i].phase = "parent"
        BY <1>1, <2>1, <4>1, <4>2 DEF Waiting
      <4>3. CASE stack'[i].phase # "parent"
        BY <1>1, <3>1, <4>1, <4>3
      <4>4. QED
        BY <4>2, <4>3
    <3>3. QED
      BY <3>1, <3>2 DEF Owed
  <2>4. ASSUME NEW c \in included, NEW d \in Names(manifest'.body[c]), d \notin included'
        PROVE  Pending(c, d)'
    <3>1. PICK i \in 2..n : stack[i].ref = c /\ d \in Names(todo[i])
      BY <1>1, <2>4 DEF Owed, Pending
    <3>2. i \in 2..Len(stack') /\ stack'[i].ref = c /\ d \in Names(todo'[i])
      BY <1>1, <2>1, <2>4, <3>1
    <3>3. QED
      BY <3>2 DEF Pending
  <2>5. QED
    BY <2>2, <2>3, <2>4
<1>2. CASE Begin
  <2>1. included' = {} /\ Len(stack') = 1 /\ todo'[1] = manifest.main /\ manifest' = manifest
    BY <1>2, BeginShape DEF Init
  <2>2. stack' # << >>
    BY <2>1
  <2>3. QED
    BY <2>1, <2>2 DEF Owed
<1>3. ASSUME NEW c \in ClassName, Skips(c)
      PROVE  Owed'
  <2>1. /\ stack' = stack /\ included' = included /\ manifest' = manifest /\ started' = started
        /\ c \in included
    BY <1>3 DEF Skips, vars
  <2>2. /\ n \in 1..n
        /\ \A i \in 1..(n - 1) : todo'[i] = todo[i]
        /\ Names(todo[n]) \subseteq Names(todo'[n]) \cup {c}
    BY <1>0, <1>3, DueShape DEF Skips
  <2>3. \A i \in 1..n : i = n \/ i \in 1..(n - 1)
    BY <1>0
  <2>4. \A i \in 1..n : Names(todo[i]) \subseteq Names(todo'[i]) \cup included'
    BY <2>1, <2>2, <2>3
  <2>5. stack # << >> /\ n <= n
    BY <1>0, <2>2
  <2>6. QED
    BY <1>0, <1>1, <2>1, <2>4, <2>5 DEF Owed
<1>4. ASSUME NEW c \in Class, NEW q \in Seq(Seq(ClassName)), Declared(c, q)
      PROVE  Owed'
  <2>1. /\ manifest' = manifest /\ started' = started /\ included' = included \cup {c}
    BY <1>4 DEF Declared
  <2>2. /\ n \in 1..n /\ Len(stack') = n + 1
        /\ \A i \in 1..n : stack'[i] = stack[i]
        /\ \A i \in 1..(n - 1) : todo'[i] = todo[i]
        /\ Names(todo[n]) \subseteq Names(todo'[n]) \cup {c}
        /\ stack'[n + 1].kind = "class" /\ stack'[n + 1].phase = "parent"
        /\ stack'[n + 1].ref = c /\ todo'[n + 1] = manifest.body[c]
    BY <1>0, <1>4, DeclaredShape
  <2>3. \A i \in 1..n : i = n \/ i \in 1..(n - 1)
    BY <1>0
  <2>4. \A i \in 1..n : Names(todo[i]) \subseteq Names(todo'[i]) \cup included'
    BY <2>1, <2>2, <2>3
  <2>5. /\ stack # << >> /\ n <= Len(stack') /\ Len(stack') \in Nat
        /\ n + 1 \in 1..Len(stack') /\ n + 1 \in 2..Len(stack')
    BY <1>0, <2>2
  <2>6. Waiting(c)' /\ \A d \in Names(manifest.body[c]) : Pending(c, d)'
    BY <2>2, <2>5 DEF Waiting, Pending
  <2>7. QED
    BY <1>1, <2>1, <2>2, <2>4, <2>5, <2>6 DEF Owed
<1>5. CASE Proceed
  <2>1. /\ manifest' = manifest /\ started' = started /\ included' = included /\ todo' = todo
    BY <1>5 DEF Proceed, AddClass, EnterBody
  <2>2. /\ n \in 1..n /\ n # 1 /\ Len(stack') = n
        /\ \A i \in 1..(n - 1) : stack'[i] = stack[i]
        /\ stack'[n].ref = stack[n].ref /\ stack'[n].kind = stack[n].kind
        /\ stack[n].phase = "parent" => AddClass
    BY <1>0, <1>5, ProceedShape
  <2>3. stack[n].phase = "parent" => ParentOf(stack[n].ref) \in included \cup {None}
    <3>1. stack[n].phase = "parent" => stack[n].super \in included \cup {None}
      BY <1>0, <2>2 DEF AddClass, Top
    <3>2. stack[n].super = ParentOf(stack[n].ref)
      BY <1>0, <2>2 DEF CallOK, CallFits, FrameSet, ParentOf
    <3>3. QED
      BY <3>1, <3>2
  <2>4. \A i \in 1..n : i = n \/ i \in 1..(n - 1)
    BY <1>0
  <2>5. stack # << >> /\ n <= Len(stack') /\ Len(stack') \in Nat
    BY <1>0, <2>2
  <2>6. QED
    BY <1>1, <2>1, <2>2, <2>3, <2>4, <2>5 DEF Owed
<1>6. CASE End
  <2>1. /\ n \in 1..n /\ Len(stack') = n - 1
        /\ \A i \in 1..(n - 1) : stack'[i] = stack[i] /\ todo'[i] = todo[i]
        /\ included' = included /\ manifest' = manifest /\ started' = started
        /\ todo[n] = << >> /\ stack[n].phase = "body"
    BY <1>0, <1>6, EndShape
  <2>2. Names(todo[n]) = {}
    BY <2>1, NamesEmpty
  <2>3. \A i \in 1..n : i = n \/ i \in 1..(n - 1)
    BY <1>0
  <2>4. ASSUME started', NEW d \in Names(manifest'.main), d \notin included'
        PROVE  stack' # << >> /\ d \in Names(todo'[1])
    <3>1. d \in Names(todo[1])
      BY <2>1, <2>4 DEF Owed
    <3>2. n # 1 /\ 1 \in 1..(n - 1)
      BY <1>0, <2>1, <2>2, <3>1
    <3>3. QED
      BY <2>1, <3>1, <3>2
  <2>5. ASSUME NEW c \in included'
        PROVE  ParentOf(c)' \in included' \cup {None} \/ Waiting(c)'
    <3>1. CASE ParentOf(c) \in included \cup {None}
      BY <2>1, <3>1 DEF ParentOf
    <3>2. CASE Waiting(c)
      BY <2>1, <2>3, <3>2 DEF Waiting
    <3>3. QED
      BY <2>1, <2>5, <3>1, <3>2 DEF Owed
  <2>6. ASSUME NEW c \in included', NEW d \in Names(manifest'.body[c]), d \notin included'
        PROVE  Pending(c, d)'
    <3>1. PICK i \in 2..n : stack[i].ref = c /\ d \in Names(todo[i])
      BY <2>1, <2>6 DEF Owed, Pending
    <3>2. i # n
      BY <2>2, <3>1
    <3>3. i \in 2..(n - 1) /\ i \in 1..(n - 1)
      BY <1>0, <3>2
    <3>4. QED
      BY <2>1, <3>1, <3>3 DEF Pending
  <2>7. QED
    BY <2>4, <2>5, <2>6 DEF Owed
<1>7. CASE UNCHANGED inclusionVars
  BY <1>7 DEF inclusionVars, vars, Owed, ParentOf, Waiting, Pending
<1>8. QED
  BY <1>0, <1>2, <1>3, <1>4, <1>5, <1>6, <1>7, StepKinds DEF Fails

\* What is declared is closed but for what is owed.
LEMMA WholeNext ==
  ASSUME IInv, Shape, Calls, Descends, Accounted, Whole, [InclusionNext]_inclusionVars
  PROVE  Whole'
<1> SUFFICES ASSUME signal' = "none" PROVE ClassesHeld' /\ Owed'
  BY DEF Whole
<1>1. TypeOK
  BY DEF IInv
<1>2. signal = "none"
  BY <1>1, WrongStays
<1>3. ClassesHeld'
  BY <1>1, <1>2, EvaluatorStep, ClassesHeldNext DEF Whole
<1>4. Owed'
  BY <1>2, OwedNext DEF Whole
<1>5. QED
  BY <1>3, <1>4

-----------------------------------------------------------------------------
(* The catalog: the order of its classes, and what contains them *)

\* Only AddClass changes the catalog, by the class of the innermost call.
LEMMA Recording ==
  ASSUME IInv, Shape, Calls, [InclusionNext]_inclusionVars
  PROVE  /\ manifest' = manifest
         /\ \/ order' = order /\ edges' = edges
            \/ LET n == Len(stack)
                   c == stack[n].ref
               IN /\ n \in 2..n /\ c \in Class
                  /\ order' = Append(order, c) /\ edges' = edges \cup {<<curContainer, c>>}
                  /\ stack[n].phase = "parent" /\ signal = "none"
                  /\ manifest.parent[c] \in included \cup {None}
<1>1. manifest' = manifest
  BY DEF InclusionNext, Begin, Include, Inherit, Proceed, End, inclusionVars
<1>2. CASE AddClass /\ Proceed
  <2> DEFINE n == Len(stack)
             c == stack[n].ref
  <2>1. /\ n \in 1..n /\ n # 1 /\ stack[n].phase = "parent" /\ signal = "none"
        /\ Add(c, "regular")
    BY <1>2, ProceedShape DEF IInv, AddClass, EnterBody
  <2>2. n \in 2..n
    <3>1. n \in Nat
      BY CallType DEF IInv
    <3> HIDE DEF n
    <3>2. QED
      BY <2>1, <3>1
  <2>3. c \in Class /\ stack[n].super = manifest.parent[c]
    BY <2>1, CallType DEF IInv, CallOK, CallFits, FrameSet
  <2>4. stack[n].super \in included \cup {None}
    BY <1>2 DEF AddClass, Top
  <2>5. order' = Append(order, c) /\ edges' = edges \cup {<<curContainer, c>>}
    BY <1>2, <2>1 DEF AddClass, Add, Duplicate, Contain, Top
  <2>6. QED
    BY <1>1, <2>1, <2>2, <2>3, <2>4, <2>5
<1>3. CASE ~(AddClass /\ Proceed)
  BY <1>1, <1>3 DEF InclusionNext, Begin, Include, Inherit, Proceed, End, EvalProgram, DeclareClass,
     DeclareParent, EnterBody, Return, Unwind, Leave, inclusionVars, vars, catalog
<1>4. QED
  BY <1>2, <1>3

\* A parent is in the catalog when the class is added.
LEMMA ParentFirstNext ==
  ASSUME IInv, IndexMatchesOrder, Shape, Calls, Descends, Whole, ParentFirst,
         [InclusionNext]_inclusionVars
  PROVE  ParentFirst'
<1> DEFINE n == Len(stack)
           c == stack[n].ref
           p == manifest.parent[c]
<1>1. CASE order' = order
  BY <1>1, Recording DEF ParentFirst
<1>2. CASE order' # order
  <2>1. /\ manifest' = manifest /\ n \in 2..n /\ c \in Class /\ order' = Append(order, c)
        /\ signal = "none" /\ p \in included \cup {None}
    BY <1>2, Recording
  <2>2. /\ TypeOK /\ included \subseteq Class /\ n \in Nat /\ order \in Seq(Ref) /\ c \in Ref
        /\ (\A d \in Class : d \in Ref) /\ \A i \in 1..n : CallOK(i)
    BY <2>1, CallType DEF IInv, TypeOK, Ref
  <2>3. /\ Len(order') = Len(order) + 1 /\ order'[Len(order) + 1] = c /\ Len(order) \in Nat
        /\ \A i \in 1..Len(order) : order'[i] = order[i]
    BY <2>1, <2>2
  <2>4. ASSUME p # None
        PROVE  (\E j \in 1..Len(order) : order'[j] = p) \/ c \in Reach(manifest, {p})
    <3>1. p \in included /\ p \in Ref /\ p \in Class
      BY <2>1, <2>2, <2>4
    <3>2. CASE status[p] # Absent
      <4>1. PICK j \in 1..Len(order) : order[j] = p
        BY <3>1, <3>2 DEF IndexMatchesOrder, Log!IndexMatchesOrder
      <4>2. QED
        BY <2>3, <4>1
    <3>3. CASE Waiting(p)
      <4>1. PICK k \in 1..n : stack[k].kind = "class" /\ stack[k].ref = p
        BY <3>3 DEF Waiting
      <4>2. k # 1
        BY <2>2, <4>1 DEF CallOK, CallFits
      <4>3. CASE k = n
        <5>1. {p} \in SUBSET ClassName /\ c = p
          BY <3>1, <4>1, <4>3, EvaluatorAssumption
        <5>2. QED
          BY <5>1, ReachBase
      <4>4. CASE k # n
        <5>1. k \in 2..n /\ k < n
          BY <2>2, <4>2, <4>4
        <5>2. QED
          BY <2>1, <4>1, <5>1 DEF Descends
      <4>5. QED
        BY <4>3, <4>4
    <3>4. QED
      BY <2>1, <3>1, <3>2, <3>3 DEF Whole, ClassesHeld
  <2> HIDE DEF c, p, n
  <2>5. ASSUME NEW i \in 1..Len(order'), manifest'.parent[order'[i]] # None
        PROVE  \/ \E j \in 1..(i - 1) : order'[j] = manifest'.parent[order'[i]]
               \/ order'[i] \in Reach(manifest', {manifest'.parent[order'[i]]})
    <3>1. CASE i = Len(order) + 1
      <4>1. i - 1 = Len(order) /\ manifest'.parent[order'[i]] = p
        BY <2>1, <2>3, <3>1 DEF p
      <4>2. QED
        BY <2>1, <2>3, <2>4, <2>5, <3>1, <4>1
    <3>2. CASE i \in 1..Len(order)
      <4>1. \A j \in 1..(i - 1) : j \in 1..Len(order)
        BY <2>3, <3>2
      <4>2. \/ \E j \in 1..(i - 1) : order[j] = manifest.parent[order[i]]
            \/ order[i] \in Reach(manifest, {manifest.parent[order[i]]})
        BY <2>1, <2>3, <2>5, <3>2 DEF ParentFirst
      <4>3. QED
        BY <2>1, <2>3, <3>2, <4>1, <4>2
    <3>3. QED
      BY <2>3, <3>1, <3>2
  <2>6. QED
    BY <2>5 DEF ParentFirst
<1>3. QED
  BY <1>1, <1>2

\* An edge joins a class to the body that was in force.
LEMMA ContainedWhereNext ==
  ASSUME IInv, Shape, Calls, Descends, ContainedWhereIncluded, [InclusionNext]_inclusionVars
  PROVE  ContainedWhereIncluded'
<1> DEFINE n == Len(stack)
           c == stack[n].ref
           list == IF curContainer = Main THEN manifest.main ELSE manifest.body[curContainer]
<1>1. CASE edges' = edges
  BY <1>1, Recording DEF ContainedWhereIncluded
<1>2. CASE edges' # edges
  <2>1. /\ manifest' = manifest /\ n \in 2..n /\ edges' = edges \cup {<<curContainer, c>>}
        /\ stack[n].phase = "parent"
    BY <1>2, Recording
  <2>2. /\ n \in Nat /\ (\A i \in 1..n : stack[i] \in FrameSet /\ CallOK(i))
        /\ InForce(stack, n, curContainer)
    BY CallType DEF IInv, ChainOK, ContainerInForce
\* The calls over the innermost body wait for their parents.
  <2>3. ASSUME NEW k \in 1..n, k # n, \A j \in (k + 1)..n : ~Owner(stack[j])
        PROVE  \A j \in (k + 1)..(n - 1) : stack[j].phase = "parent"
    <3>1. \A j \in (k + 1)..(n - 1) : j \in 1..n /\ j \in (k + 1)..n /\ j # 1 /\ j # n
      BY <2>2, <2>3
    <3>2. QED
      BY <2>2, <2>3, <3>1 DEF CallOK, CallFits, Owner
  <2>4. PICK k \in 1..n :
          /\ k # n /\ stack[k].phase = "body" /\ ListOf(manifest, stack[k]) = list
          /\ \A j \in (k + 1)..n : ~Owner(stack[j])
    <3>1. CASE curContainer = Main /\ \A i \in 1..n : ~Owner(stack[i])
      <4>1. 1 \in 1..n /\ 1 # n /\ \A j \in (1 + 1)..n : j \in 1..n
        BY <2>1, <2>2
      <4>2. stack[1].phase = "body" /\ ListOf(manifest, stack[1]) = list
        BY <2>2, <3>1, <4>1 DEF CallOK, CallFits, ListOf
      <4>3. QED
        BY <3>1, <4>1, <4>2
    <3>2. ASSUME NEW k \in 1..n, Owner(stack[k]), stack[k].ref = curContainer,
                 \A j \in (k + 1)..n : ~Owner(stack[j])
          PROVE  /\ k # n /\ stack[k].phase = "body" /\ ListOf(manifest, stack[k]) = list
      <4>1. stack[k].kind = "class" /\ stack[k].phase = "body" /\ k # n
        BY <2>1, <2>2, <3>2 DEF Owner, CallOK, CallFits
      <4>2. curContainer \in Class /\ curContainer # Main
        BY <2>2, <3>2, <4>1, EvaluatorAssumption DEF FrameSet, Ref
      <4>3. QED
        BY <3>2, <4>1, <4>2 DEF ListOf
    <3>3. QED
      BY <2>2, <3>1, <3>2 DEF InForce
  <2>5. c \in Lineage(manifest, Names(list))
    <3>1. n \in 1..n /\ k < n
      BY <2>1, <2>2, <2>4
    <3>2. \A j \in (k + 1)..(n - 1) : stack[j].phase = "parent"
      BY <2>3, <2>4
    <3>3. QED
      BY <2>4, <3>1, <3>2 DEF Descends
  <2>6. ASSUME NEW e \in edges'
        PROVE  e[2] \in Lineage(manifest', Names(IF e[1] = Main THEN manifest'.main
                                                               ELSE manifest'.body[e[1]]))
    <3>1. CASE e \in edges
      BY <2>1, <3>1 DEF ContainedWhereIncluded
    <3>2. CASE e = <<curContainer, c>>
      <4>1. e[1] = curContainer /\ e[2] = c
        BY <3>2
      <4>2. QED
        BY <2>1, <2>5, <4>1
    <3>3. QED
      BY <2>1, <2>6, <3>1, <3>2
  <2>7. QED
    BY <2>6 DEF ContainedWhereIncluded
<1>3. QED
  BY <1>1, <1>2

-----------------------------------------------------------------------------
(* The theorems *)

\* Nothing is declared or owed at first.
LEMMA InclusionInvInit == InclusionInit => InclusionInv
<1> SUFFICES ASSUME InclusionInit PROVE InclusionInv
  OBVIOUS
<1>1. IInv /\ Init /\ manifest \in Manifest /\ started = FALSE /\ todo = << >>
  BY IInvInit DEF InclusionInit
<1>2. IndexMatchesOrder /\ Contained
  BY <1>1 DEF Init, IndexMatchesOrder, Log!IndexMatchesOrder, Contained, Log!Contained
<1>3. Shape /\ Calls /\ Descends
  <2>1. stack = << >> /\ signal = "none" /\ Len(stack) = 0 /\ Len(todo) = 0
    BY <1>1 DEF Init
  <2>2. Shape
    <3>1. todo \in Seq(Seq(ClassName))
      BY <1>1
    <3>2. started \in BOOLEAN /\ manifest \in Manifest /\ (~started => Init)
      BY <1>1
    <3>3. QED
      BY <2>1, <3>1, <3>2 DEF Shape
  <2>3. Calls /\ Descends
    BY <2>1 DEF Calls, Descends
  <2>4. QED
    BY <2>2, <2>3
<1>4. Accounted /\ Whole
  BY <1>1 DEF Init, Accounted, Whole, ClassesHeld, Owed, Ref
<1>5. ParentFirst /\ ContainedWhereIncluded
  BY <1>1 DEF Init, ParentFirst, ContainedWhereIncluded
<1>6. QED
  BY <1>1, <1>2, <1>3, <1>4, <1>5 DEF InclusionInv

\* Every step keeps the invariant.
LEMMA InclusionInvNext == InclusionInv /\ [InclusionNext]_inclusionVars => InclusionInv'
<1> SUFFICES ASSUME InclusionInv, [InclusionNext]_inclusionVars PROVE InclusionInv'
  OBVIOUS
<1>1. TypeOK
  BY DEF InclusionInv, IInv
<1>2. [Next]_vars
  BY <1>1, EvaluatorStep DEF InclusionInv
<1>3. IInv' /\ IndexMatchesOrder' /\ Contained'
  BY <1>2, IInvNext, LogNext DEF InclusionInv
<1>4. Shape' /\ Calls' /\ Descends'
  BY <1>1, ShapeNext, CallsNext, DescendsNext DEF InclusionInv
<1>5. Accounted' /\ Whole'
  BY AccountedNext, WholeNext DEF InclusionInv
<1>6. ParentFirst' /\ ContainedWhereIncluded'
  BY ParentFirstNext, ContainedWhereNext DEF InclusionInv
<1>7. QED
  BY <1>3, <1>4, <1>5, <1>6 DEF InclusionInv

\* The invariant of a compilation.
LEMMA InclusionInvariance == InclusionSpec => []InclusionInv
BY InclusionInvInit, InclusionInvNext, PTL DEF InclusionSpec

\* Inclusion runs the compiler: what is proved of Evaluator holds of it.
THEOREM InclusionRefined == InclusionSpec => Spec
<1>1. InclusionInit => Init
  BY DEF InclusionInit
<1>2. InclusionInv /\ [InclusionNext]_inclusionVars => [Next]_vars
  BY EvaluatorStep DEF InclusionInv, IInv
<1>3. QED
  BY <1>1, <1>2, InclusionInvariance, PTL DEF InclusionSpec, Spec

\* A class comes after its parent in the catalog, unless the parent brings the class in:
\* declareClass declares the parent before Catalog.Add, but marks the class first.
THEOREM ParentsFirst == InclusionSpec => []ParentFirst
BY InclusionInvariance, PTL DEF InclusionInv

\* A class is contained where a body includes it or a descendant of it: the container
\* declareClass finds is that of the body, however deep the chain of parents.
THEOREM ContainedWhere == InclusionSpec => []ContainedWhereIncluded
BY InclusionInvariance, PTL DEF InclusionInv

\* A compilation that ended has declared exactly the classes the program reaches, or it
\* failed on one of them that is not defined (declareClass, whatever cycles there are).
THEOREM Inclusion == InclusionSpec => []IncludesReached
<1>1. InclusionInv => IncludesReached
  <2> SUFFICES ASSUME InclusionInv, started, stack = << >>
               PROVE  /\ signal = "none" <=> Reached \subseteq Class
                      /\ signal = "none" =>
                           /\ included = Reached
                           /\ \A c \in Class : status[c] # Absent <=> c \in Reached
    BY DEF IncludesReached, Finished
  <2>1. /\ signal \in {"none", "error"} /\ included \subseteq Reached
        /\ included \subseteq Class /\ included \in SUBSET ClassName
        /\ signal = "error" => ~(Reached \subseteq Class)
        /\ \A c \in Class : status[c] # Absent => c \in included
    BY EvaluatorAssumption DEF InclusionInv, Shape, Accounted, IInv, TypeOK
  <2>2. ASSUME signal = "none"
        PROVE  Reached \subseteq included /\ \A c \in included : status[c] # Absent
    <3>1. /\ \A c : ~Waiting(c)
          /\ \A c, d : ~Pending(c, d)
      BY DEF Waiting, Pending
    <3>2. Names(manifest.main) \subseteq included
      BY <2>2 DEF InclusionInv, Whole, Owed
    <3>3. Inherited(manifest, included)
      BY <2>1, <2>2, <3>1 DEF InclusionInv, Whole, Owed, ParentOf, Inherited
    <3>4. Included(manifest, included)
      BY <2>1, <2>2, <3>1 DEF InclusionInv, Whole, Owed, Included
    <3>5. Reached \subseteq included
      BY <2>1, <3>2, <3>3, <3>4, ReachLeast DEF Reached
    <3>6. QED
      BY <2>2, <3>1, <3>5 DEF InclusionInv, Whole, ClassesHeld
  <2>3. QED
    BY <2>1, <2>2
<1>2. QED
  BY <1>1, InclusionInvariance, PTL

-----------------------------------------------------------------------------
(* PlanApply *)


SubP == INSTANCE EvaluatorProofs WITH
  MaxDepth <- BlockDepth,
  order <- sOrder, status <- sStatus, edges <- sEdges, included <- sIncluded,
  curContainer <- sContainer, eppStack <- sEpp, stack <- sStack, signal <- sSignal

\* What holds of the block's evaluator: no declaration is lost before a jump is caught.
SubInv ==
  /\ SubP!IInv /\ SubP!IndexMatchesOrder /\ SubP!Contained /\ SubP!HeldIncluded
  /\ sSignal = "none" /\ ~sCaught => SubP!ClassesHeld
  /\ sCaught \in BOOLEAN

AppliedType ==
  applied \in Seq([order : Seq(Ref), edges : SUBSET ((Ref \cup {Main}) \X (Ref \cup {Main})),
                   included : SUBSET Class, caught : BOOLEAN])

\* The inductive invariant: the plan is in the middle of a statement while a block runs.
PInv ==
  /\ IInv /\ SubInv
  /\ applying \in BOOLEAN /\ (applying => Evaluating)
  /\ AppliedType /\ AppliedStandsAlone /\ AppliedClasses

-----------------------------------------------------------------------------
(* The block's evaluator is the instance the lemmas are about *)

\* What Evaluator assumes of its constants holds of a block's evaluator.
LEMMA SubAssumption == SubP!EvaluatorAssumption
BY EvaluatorAssumption, ApplyAssumption
   DEF SubP!EvaluatorAssumption, SubP!Declarable, Declarable, SubP!Ref, Ref, SubP!Form, Form,
       SubP!Call, Call

\* The instance for a block and the one PlanApply runs have the same types.
LEMMA SameConstants ==
  /\ SubP!Ref = Ref /\ SubP!Declarable = Declarable /\ SubP!Form = Form
  /\ SubP!Call = Call /\ SubP!Jump = Jump
  /\ Sub!Ref = Ref /\ Sub!Declarable = Declarable /\ Sub!Form = Form
  /\ Sub!Call = Call /\ Sub!Jump = Jump
BY DEF SubP!Ref, SubP!Declarable, SubP!Form, SubP!Call, SubP!Jump, Sub!Ref, Sub!Declarable,
       Sub!Form, Sub!Call, Sub!Jump, Ref, Declarable, Form, Call, Jump

\* And the same type invariant.
LEMMA SameTypes == SubP!TypeOK = Sub!TypeOK
BY SameConstants
   DEF SubP!TypeOK, SubP!FrameSet, SubP!Kind, SubP!Phase,
       Sub!TypeOK, Sub!FrameSet, Sub!Kind, Sub!Phase

\* A step of a block is a step of its evaluator.
LEMMA SameSteps == BlockStep => SubP!Next
<1> USE DEF SubP!Evaluating, SubP!Running, SubP!Top, SubP!Below, SubP!Frame, SubP!Entry, SubP!Push,
            SubP!Enter, SubP!Add, SubP!Duplicate, SubP!Contain, SubP!Leave, SubP!Returned,
            SubP!Owner, SubP!Rendering, SubP!catalog,
            Sub!Evaluating, Sub!Running, Sub!Top, Sub!Below, Sub!Frame, Sub!Entry, Sub!Push,
            Sub!Enter, Sub!Add, Sub!Duplicate, Sub!Contain, Sub!Leave, Sub!Returned,
            Sub!Owner, Sub!Rendering, Sub!catalog
<1>1. \A r, form, b, q : Sub!DeclareResource(r, form, b, q) => SubP!DeclareResource(r, form, b, q)
  BY DEF Sub!DeclareResource, SubP!DeclareResource
<1>2. \A r, form : Sub!InstantiateDefine(r, form) => SubP!InstantiateDefine(r, form)
  BY DEF Sub!InstantiateDefine, SubP!InstantiateDefine
<1>3. \A c, super : Sub!DeclareClass(c, super) => SubP!DeclareClass(c, super)
  BY DEF Sub!DeclareClass, SubP!DeclareClass, Sub!BeginClass, SubP!BeginClass
<1>4. \A super : Sub!DeclareParent(super) => SubP!DeclareParent(super)
  BY DEF Sub!DeclareParent, SubP!DeclareParent, Sub!BeginClass, SubP!BeginClass
<1>5. Sub!AddClass => SubP!AddClass
  BY DEF Sub!AddClass, SubP!AddClass
<1>6. \A ls, rs : Sub!EvalRelationship(ls, rs) => SubP!EvalRelationship(ls, rs)
  BY DEF Sub!EvalRelationship, SubP!EvalRelationship
<1>7. \A r, b, q : Sub!EvalResourceOverride(r, b, q) => SubP!EvalResourceOverride(r, b, q)
  BY DEF Sub!EvalResourceOverride, SubP!EvalResourceOverride
<1>8. \A t, form, S : Sub!EvalCollector(t, form, S) => SubP!EvalCollector(t, form, S)
  BY SameConstants DEF Sub!EvalCollector, SubP!EvalCollector
<1>9. \A kind : Sub!CallFunction(kind) => SubP!CallFunction(kind)
  BY DEF Sub!CallFunction, SubP!CallFunction
<1>10. Sub!CallBlock => SubP!CallBlock
  BY DEF Sub!CallBlock, SubP!CallBlock
<1>11. \A s : Sub!Raise(s) => SubP!Raise(s)
  BY DEF Sub!Raise, SubP!Raise
<1>12. Sub!EnterBody => SubP!EnterBody
  BY DEF Sub!EnterBody, SubP!EnterBody
<1>13. Sub!Return => SubP!Return
  BY DEF Sub!Return, SubP!Return
<1>14. Sub!Unwind => SubP!Unwind
  BY DEF Sub!Unwind, SubP!Unwind, Sub!Catches, SubP!Catches
<1>15. Sub!Statement => SubP!Statement
  BY ZenonT(60), <1>1, <1>2, <1>3, <1>6, <1>7, <1>8, <1>9, <1>11, SameConstants
     DEF Sub!Statement, SubP!Statement
<1>16. QED
  BY <1>4, <1>5, <1>10, <1>12, <1>13, <1>14, <1>15 DEF BlockStep, SubP!Next

-----------------------------------------------------------------------------
(* A new evaluator, and the steps of one *)

Emptied ==
  /\ sOrder = << >> /\ sEdges = {} /\ sStatus = [r \in Ref |-> Absent]
  /\ sIncluded = {} /\ sContainer = Main /\ sEpp = << >>
  /\ sSignal = "none" /\ sCaught = FALSE
  /\ sStack \in {<< >>, <<Entry("apply", "body")>>}

\* A new evaluator satisfies the invariant, waiting for a block or with one to begin.
LEMMA EmptiedInv == Emptied => SubInv
<1> SUFFICES ASSUME Emptied PROVE SubInv
  OBVIOUS
<1>1. Entry("apply", "body") \in SubP!FrameSet
  BY SameConstants DEF Entry, Frame, SubP!FrameSet, SubP!Kind, SubP!Phase
<1>2. SubP!TypeOK
  <2>1. sStack \in Seq(SubP!FrameSet)
    <3>1. <<Entry("apply", "body")>> \in Seq(SubP!FrameSet)
      BY <1>1
    <3>2. CASE sStack = << >>
      BY <3>2
    <3>3. CASE sStack = <<Entry("apply", "body")>>
      BY <3>1, <3>3
    <3>4. QED
      BY <3>2, <3>3 DEF Emptied
  <2>2. sStatus \in [SubP!Ref -> SubP!Form \cup {Absent}]
    BY SameConstants DEF Emptied
  <2>3. QED
    BY <2>1, <2>2 DEF Emptied, SubP!TypeOK
<1>3. /\ \A i \in 1..Len(sStack) : sStack[i] = Entry("apply", "body") /\ i = 1
      /\ Len(sStack) \in {0, 1}
  BY DEF Emptied
<1>4. \A i \in 1..Len(sStack) : sStack[i].kind = "apply" /\ sStack[i].prev = Main
  BY <1>3 DEF Entry, Frame
<1>5. \A i \in 1..Len(sStack) : ~SubP!Owner(sStack[i]) /\ ~SubP!Rendering(sStack[i])
  BY <1>4 DEF SubP!Owner, SubP!Rendering
<1>6. SubP!FramesOK
  BY <1>4 DEF Emptied, SubP!FramesOK, SubP!FrameOK, SubP!Declares, SubP!Known
<1>7. SubP!ChainOK
  BY <1>5 DEF Emptied, SubP!ChainOK, SubP!ContainerInForce, SubP!InForce
<1>8. SubP!BuffersInForce
  BY <1>5 DEF Emptied, SubP!BuffersInForce, SubP!Buffers
<1>9. SubP!NoReentry
  BY <1>4 DEF SubP!NoReentry
<1>10. SubP!IndexMatchesOrder /\ SubP!Contained
  BY SameConstants DEF Emptied, SubP!IndexMatchesOrder, SubP!Log!IndexMatchesOrder, SubP!Contained,
     SubP!Log!Contained
<1>11. SubP!HeldIncluded /\ SubP!ClassesHeld
  BY DEF Emptied, SubP!HeldIncluded, SubP!ClassesHeld, Ref
<1>12. QED
  BY <1>2, <1>6, <1>7, <1>8, <1>9, <1>10, <1>11 DEF SubInv, SubP!IInv, Emptied

\* A new evaluator satisfies its invariant.
LEMMA FreshInv ==
  ASSUME Fresh, sStack' \in {<< >>, <<Entry("apply", "body")>>}
  PROVE  SubInv'
<1>1. Emptied'
  BY DEF Emptied, Fresh, Entry, Frame
<1>2. Emptied' => SubInv'
  BY EmptiedInv, PTL
<1>3. QED
  BY <1>1, <1>2

\* What the evaluator of a block does, or that it does nothing, keeps its invariant.
LEMMA SubNext ==
  ASSUME SubInv, [SubP!Next]_(SubP!vars), sStack # << >> \/ UNCHANGED SubP!vars,
         sCaught' = (sCaught \/ (sSignal \in Jump /\ sSignal' = "none"))
  PROVE  SubInv'
<1>1. SubP!IInv'
  BY SubAssumption, SubP!IInvNext DEF SubInv
<1>2. SubP!IndexMatchesOrder' /\ SubP!Contained'
  BY SubAssumption, SubP!LogNext DEF SubInv
<1>3. SubP!HeldIncluded'
  BY SubAssumption, SubP!HeldNext DEF SubInv
<1>4. ASSUME sSignal' = "none", ~sCaught' PROVE SubP!ClassesHeld'
  <2>1. ~sCaught /\ sSignal \notin Jump
    BY <1>4
  <2>2. sSignal = "none"
    BY <1>4, <2>1, SubAssumption, SubP!OnlyJumpsCaught, SameConstants DEF SubP!vars
  <2>3. QED
    BY <1>4, <2>1, <2>2, SubAssumption, SubP!ClassesHeldNext DEF SubInv
<1>5. QED
  BY <1>1, <1>2, <1>3, <1>4 DEF SubInv

-----------------------------------------------------------------------------
(* Each step of the plan and its blocks *)

\* The catalog of a block that ended is one the executor may be given.
LEMMA CompiledWhole ==
  ASSUME SubInv, sStack = << >>, sSignal = "none"
  PROVE  LET a == Compiled
             held == {c \in Class : \E i \in 1..Len(a.order) : a.order[i] = c}
         IN /\ a \in [order : Seq(Ref), edges : SUBSET ((Ref \cup {Main}) \X (Ref \cup {Main})),
                      included : SUBSET Class, caught : BOOLEAN]
            /\ \A i \in 1..Len(a.order) :
                 \/ <<Main, a.order[i]>> \in a.edges
                 \/ \E j \in 1..(i - 1) : <<a.order[j], a.order[i]>> \in a.edges
            /\ held \subseteq a.included \cup Native
            /\ ~a.caught => a.included \subseteq held
<1> DEFINE held == {c \in Class : \E i \in 1..Len(sOrder) : sOrder[i] = c}
<1>1. SubP!TypeOK /\ SubP!IndexMatchesOrder /\ SubP!Contained /\ SubP!HeldIncluded
  BY DEF SubInv, SubP!IInv
<1>2. /\ Compiled.order = sOrder /\ Compiled.edges = sEdges
      /\ Compiled.included = sIncluded /\ Compiled.caught = sCaught
  BY DEF Compiled
<1>3. /\ sOrder \in Seq(Ref) /\ sEdges \in SUBSET ((Ref \cup {Main}) \X (Ref \cup {Main}))
      /\ sIncluded \in SUBSET Class /\ sCaught \in BOOLEAN
  BY <1>1, SameConstants DEF SubP!TypeOK, SubInv
<1>4. \A c \in Class : c \in held <=> sStatus[c] # Absent
  BY <1>1 DEF SubP!IndexMatchesOrder, SubP!Log!IndexMatchesOrder, Ref, SubP!Ref
<1>5. held \subseteq sIncluded \cup Native
  BY <1>1, <1>4 DEF SubP!HeldIncluded
<1>6. ~sCaught => sIncluded \subseteq held
  BY <1>3, <1>4 DEF SubInv, SubP!ClassesHeld, SubP!Waiting
<1>7. \A i \in 1..Len(sOrder) :
        \/ <<Main, sOrder[i]>> \in sEdges
        \/ \E j \in 1..(i - 1) : <<sOrder[j], sOrder[i]>> \in sEdges
  BY <1>1 DEF SubP!Contained, SubP!Log!Contained
<1>8. QED
  BY <1>2, <1>3, <1>5, <1>6, <1>7 DEF Compiled

\* No block runs at first.
LEMMA PInit == ApplyInit => PInv
<1> SUFFICES ASSUME ApplyInit PROVE PInv
  OBVIOUS
<1>1. IInv
  BY IInvInit DEF ApplyInit
<1>2. Emptied
  BY SameConstants DEF ApplyInit, Sub!Init, Emptied
<1>3. applied = << >> /\ applying = FALSE
  BY DEF ApplyInit
<1>4. AppliedType
  BY <1>3 DEF AppliedType
<1>5. AppliedStandsAlone /\ AppliedClasses
  BY <1>3 DEF AppliedStandsAlone, AppliedClasses
<1>6. QED
  BY <1>1, <1>2, <1>3, <1>4, <1>5, EmptiedInv DEF PInv

\* To the plan, the end of a block is a statement that failed, jumped or did nothing.
LEMMA FinishStep ==
  ASSUME PInv, FinishApply
  PROVE  [Next]_vars
<1>1. Evaluating /\ signal = "none"
  BY DEF PInv, FinishApply, Evaluating, Running
<1>2. sSignal \in Jump \cup {"none", "error"}
  BY SameConstants DEF PInv, SubInv, SubP!IInv, SubP!TypeOK
<1>3. CASE signal' = signal
  BY <1>3 DEF FinishApply, vars, catalog
<1>4. CASE signal' \in Jump \cup {"error"}
  BY <1>1, <1>4 DEF FinishApply, Next, Statement, Raise
<1>5. QED
  BY <1>1, <1>2, <1>3, <1>4 DEF FinishApply

\* Another catalog the executor is given.
LEMMA AppendApplied ==
  ASSUME PInv, sStack = << >>, sSignal = "none", applied' = Append(applied, Compiled)
  PROVE  AppliedType' /\ AppliedStandsAlone' /\ AppliedClasses'
<1> DEFINE Rec == [order : Seq(Ref), edges : SUBSET ((Ref \cup {Main}) \X (Ref \cup {Main})),
                   included : SUBSET Class, caught : BOOLEAN]
<1>1. applied \in Seq(Rec) /\ AppliedStandsAlone /\ AppliedClasses
  BY DEF PInv, AppliedType
<1>2. PICK a \in Rec : a = Compiled
  BY CompiledWhole DEF PInv
<1>3. /\ \A i \in 1..Len(a.order) :
           \/ <<Main, a.order[i]>> \in a.edges
           \/ \E j \in 1..(i - 1) : <<a.order[j], a.order[i]>> \in a.edges
      /\ {c \in Class : \E i \in 1..Len(a.order) : a.order[i] = c} \subseteq a.included \cup Native
      /\ ~a.caught
         => a.included \subseteq {c \in Class : \E i \in 1..Len(a.order) : a.order[i] = c}
  BY <1>2, CompiledWhole DEF PInv
<1> HIDE DEF Rec
<1>4. /\ applied' \in Seq(Rec) /\ Len(applied) \in Nat
      /\ Len(applied') = Len(applied) + 1 /\ applied'[Len(applied) + 1] = a
      /\ \A k \in 1..Len(applied) : applied'[k] = applied[k]
  BY <1>1, <1>2
<1>5. AppliedType'
  BY <1>4 DEF AppliedType, Rec
<1>6. \A k \in 1..Len(applied') : k = Len(applied) + 1 \/ k \in 1..Len(applied)
  BY <1>4
<1>7. AppliedStandsAlone'
  <2>1. ASSUME NEW k \in 1..Len(applied')
        PROVE  \A i \in 1..Len(applied'[k].order) :
                 \/ <<Main, applied'[k].order[i]>> \in applied'[k].edges
                 \/ \E j \in 1..(i - 1) :
                      <<applied'[k].order[j], applied'[k].order[i]>> \in applied'[k].edges
    <3>1. CASE k = Len(applied) + 1
      BY <1>3, <1>4, <3>1
    <3>2. CASE k \in 1..Len(applied)
      BY <1>1, <1>4, <3>2 DEF AppliedStandsAlone
    <3>3. QED
      BY <1>6, <3>1, <3>2
  <2>2. QED
    BY <2>1 DEF AppliedStandsAlone
<1>8. AppliedClasses'
  BY <1>1, <1>3, <1>4, <1>6 DEF AppliedClasses
<1>9. QED
  BY <1>5, <1>7, <1>8

\* Every step of the plan or of a block keeps the invariant.
LEMMA PNext == PInv /\ [ApplyNext]_applyVars => PInv'
<1> SUFFICES ASSUME PInv, [ApplyNext]_applyVars PROVE PInv'
  OBVIOUS
<1>1. ASSUME UNCHANGED applied
      PROVE  AppliedType' /\ AppliedStandsAlone' /\ AppliedClasses'
  <2>1. AppliedType'
    BY <1>1 DEF PInv, AppliedType
  <2>2. AppliedStandsAlone'
    BY <1>1 DEF PInv, AppliedStandsAlone
  <2>3. AppliedClasses'
    BY <1>1 DEF PInv, AppliedClasses
  <2>4. QED
    BY <2>1, <2>2, <2>3
<1>2. ASSUME UNCHANGED subVars
      PROVE  SubInv'
  <2>1. UNCHANGED SubP!vars /\ sCaught' = sCaught /\ sSignal' = sSignal
    BY <1>2 DEF subVars, SubP!vars
  <2>2. ~(sSignal \in Jump /\ sSignal' = "none")
    BY <2>1 DEF Jump
  <2>3. sCaught' = (sCaught \/ (sSignal \in Jump /\ sSignal' = "none"))
    BY <2>1, <2>2 DEF PInv, SubInv
  <2>4. QED
    BY <2>1, <2>3, SubNext DEF PInv
<1>3. ASSUME UNCHANGED vars
      PROVE  IInv' /\ Evaluating' = Evaluating
  BY <1>3, IInvNext DEF PInv, vars, Evaluating, Running, Top
<1>4. CASE PlanStep
  <2>1. IInv'
    BY <1>4, IInvNext DEF PInv, PlanStep
  <2>2. QED
    BY <1>1, <1>2, <1>4, <2>1 DEF PInv, PlanStep
<1>5. CASE BeginApply
  <2>1. SubInv'
    BY <1>5, FreshInv DEF BeginApply
  <2>2. QED
    BY <1>1, <1>3, <1>5, <2>1 DEF PInv, BeginApply
<1>6. CASE BlockStep
  <2>1. SubInv'
    BY <1>6, SameSteps, SubNext DEF PInv, BlockStep
  <2>2. QED
    BY <1>1, <1>3, <1>6, <2>1 DEF PInv, BlockStep
<1>7. CASE FinishApply
  <2>1. SubInv'
    BY <1>7, FreshInv DEF FinishApply
  <2>2. [Next]_vars
    BY <1>7, FinishStep
  <2>3. IInv'
    BY <2>2, IInvNext DEF PInv
  <2>4. AppliedType' /\ AppliedStandsAlone' /\ AppliedClasses'
    <3>1. CASE sSignal # "none"
      BY <1>1, <1>7, <3>1 DEF FinishApply
    <3>2. CASE sSignal = "none"
      BY <1>7, <3>2, AppendApplied DEF FinishApply
    <3>3. QED
      BY <3>1, <3>2
  <2>5. QED
    BY <1>7, <2>1, <2>3, <2>4 DEF PInv, FinishApply
<1>8. CASE UNCHANGED applyVars
  BY <1>1, <1>2, <1>3, <1>8 DEF PInv, applyVars
<1>9. QED
  BY <1>4, <1>5, <1>6, <1>7, <1>8 DEF ApplyNext

-----------------------------------------------------------------------------
(* The theorems *)

\* The invariant of a plan and the block it runs.
LEMMA PInvariance == ApplySpec => []PInv
BY PInit, PNext, PTL DEF ApplySpec

\* Every catalog the executor is given is a catalog of its own, and a whole one: no
\* resource hangs on what only the plan has, and the classes that count as included are
\* in it unless a call in the block caught a jump (compileApplyBlock, applyCatalog).
THEOREM Applied == ApplySpec => []AppliedWhole
<1>1. PInv => AppliedWhole
  BY SameTypes DEF PInv, IInv, SubInv, SubP!IInv, AppliedType, AppliedWhole, ApplyTypeOK
<1>2. QED
  BY <1>1, PInvariance, PTL

\* The evaluator of the plan does only what an evaluator without apply does: what runs
\* in a block reaches it as the result of a function (compileApplyBlock's sub-evaluator).
THEOREM PlanRefined == ApplySpec => PlanEvaluator
<1>1. ApplyInit => Init
  BY DEF ApplyInit
<1>2. PInv /\ [ApplyNext]_applyVars => [Next]_vars
  BY FinishStep DEF ApplyNext, PlanStep, BeginApply, BlockStep, applyVars
<1>3. QED
  BY <1>1, <1>2, PInvariance, PTL DEF ApplySpec, PlanEvaluator, Spec

\* What holds of a compiler without apply holds of the plan's: cycles of declarations are
\* cut, and the container in force is that of the innermost body, apply blocks or not.
THEOREM PlanContainer == ApplySpec => [](NoReentry /\ ContainerInForce /\ BuffersInForce)
BY PlanRefined, ReentryFree, ContainerCorrect, BuffersCorrect, PTL DEF PlanEvaluator
=============================================================================
