--------------------------- MODULE ClassInclusion ---------------------------
(***************************************************************************)
(* The compilation of one program made of classes: what include statements *)
(* and inherits clauses bring into the catalog, in which order, and that   *)
(* the compilation ends, whatever cycles they form.                        *)
(*                                                                         *)
(* Every step is a step of Evaluator; the manifest decides which. todo     *)
(* holds, for each call on the stack, the names its body has yet to        *)
(* include. A program is compiled once. The depth of calls must not be     *)
(* bounded by less than the classes can nest.                              *)
(***************************************************************************)
EXTENDS Evaluator, FiniteSets

CONSTANT Manifest  \* the programs: top-level includes, and each class's body and parent

ASSUME InclusionAssumption ==
  /\ Manifest \subseteq [main : Seq(ClassName), body : [Class -> Seq(ClassName)],
                         parent : [Class -> ClassName \cup {None}]]
  /\ MaxDepth > Cardinality(Class) + 1

VARIABLES
  manifest,  \* the program
  started,   \* EvalProgram was called
  todo       \* names yet to include, for each call on the stack

inclusionVars == <<vars, manifest, started, todo>>

ParentOf(c) == IF c \in Class THEN manifest.parent[c] ELSE None

\* todo when the declaration of c begins, with rest left to the calls so far.
TodoInside(rest, c) == IF c \in Class THEN Append(rest, manifest.body[c]) ELSE rest

InclusionInit ==
  /\ Init
  /\ manifest \in Manifest /\ started = FALSE /\ todo = << >>

Begin ==
  /\ ~started /\ EvalProgram
  /\ started' = TRUE /\ todo' = <<manifest.main>>
  /\ UNCHANGED manifest

\* The next name of the innermost body: included already, or declared now.
Include ==
  /\ Running /\ Top.phase = "body" /\ todo[Len(todo)] # << >>
  /\ LET c == Head(todo[Len(todo)])
         rest == [todo EXCEPT ![Len(todo)] = Tail(@)]
     IN \/ c \in included /\ todo' = rest /\ UNCHANGED vars
        \/ DeclareClass(c, ParentOf(c)) /\ todo' = TodoInside(rest, c)
  /\ UNCHANGED <<manifest, started>>

\* Mutant of Inherit: the parent's own parent is not declared.
InheritFlat ==
  /\ DeclareParent(None)
  /\ todo' = TodoInside(todo, Top.super)
  /\ UNCHANGED <<manifest, started>>

Inherit ==
  /\ DeclareParent(ParentOf(Top.super))
  /\ todo' = TodoInside(todo, Top.super)
  /\ UNCHANGED <<manifest, started>>

\* The class enters the catalog, then its body begins.
Proceed == (AddClass \/ EnterBody) /\ UNCHANGED <<manifest, started, todo>>

End ==
  /\ \/ Return /\ todo[Len(todo)] = << >>
     \/ Unwind
  /\ todo' = SubSeq(todo, 1, Len(todo) - 1)
  /\ UNCHANGED <<manifest, started>>

InclusionNext == Begin \/ Include \/ Inherit \/ Proceed \/ End

\* The one goroutine that compiles keeps running.
InclusionSpec ==
  InclusionInit /\ [][InclusionNext]_inclusionVars /\ WF_inclusionVars(InclusionNext)

-----------------------------------------------------------------------------
(* Reference definitions, of a program m *)

Names(list) == {list[i] : i \in 1..Len(list)}

Inherited(m, S) == \A c \in S \cap Class : m.parent[c] \in S \cup {None}
Included(m, S) == \A c \in S \cap Class : Names(m.body[c]) \subseteq S

\* The names of T and their ancestors: what every set that inherits has with T.
Lineage(m, T) ==
  {c \in ClassName : \A S \in SUBSET ClassName : T \subseteq S /\ Inherited(m, S) => c \in S}

\* The names that including the names of T brings in.
Reach(m, T) ==
  {c \in ClassName : \A S \in SUBSET ClassName :
                       T \subseteq S /\ Inherited(m, S) /\ Included(m, S) => c \in S}

Reached == Reach(manifest, Names(manifest.main))
Finished == started /\ stack = << >>

-----------------------------------------------------------------------------
(* Properties *)

\* A compilation succeeds exactly when the program defines every class it reaches,
\* and then the catalog holds those classes and no other (declareClass).
IncludesReached ==
  Finished =>
    /\ signal = "none" <=> Reached \subseteq Class
    /\ signal = "none" =>
         /\ included = Reached
         /\ \A c \in Class : status[c] # Absent <=> c \in Reached

\* A class comes after its parent in the catalog, unless the parent, in its turn,
\* brings the class in (declareClass declares the parent first).
ParentFirst ==
  \A i \in 1..Len(order) :
    LET p == manifest.parent[order[i]] IN
    p # None => (\E j \in 1..(i - 1) : order[j] = p) \/ order[i] \in Reach(manifest, {p})

\* A class is contained in the class, or main class, whose own body includes it or
\* a descendant of it, never in one it was merely reached from.
ContainedWhereIncluded ==
  \A e \in edges :
    e[2] \in Lineage(manifest, Names(IF e[1] = Main THEN manifest.main ELSE manifest.body[e[1]]))

\* Every compilation ends, however include and inherits go round in circles.
Terminates == <>Finished

=============================================================================
