---------------------------- MODULE LibraryProofs ---------------------------
(***************************************************************************)
(* Proofs about Scope, Numbers, SeededRandom and Iteration, for any number *)
(* of scopes, variables and values, integers of any width, twisters of any *)
(* size, collections of any length and whatever their blocks do.           *)
(*                                                                         *)
(* Scope: the stack has the shape its parents describe: a body hangs under *)
(* the top scope, a branch or a block under the scope below it. So the     *)
(* chain of parents that the recursive functions of scope.go follow from a *)
(* scope is known in closed form (Path), and what they find along it can   *)
(* be compared: lookup goes up and stops at the first value, a snapshot    *)
(* and the defaults come down from the top and let each scope overwrite,   *)
(* and both name the nearest.                                              *)
(*                                                                         *)
(* Numbers: one operation is a fact of arithmetic; the loop of range has   *)
(* an invariant, the progression so far, which ends where the next value   *)
(* would pass the bound or wrap (Progressing).                             *)
(*                                                                         *)
(* SeededRandom: the words of the twister are made anew in their place, so *)
(* that in the middle of it some are new and the others old (Partly), and  *)
(* the one M further on is old in the first loop and new in the second.    *)
(* While a generator is seeded, the word mixed last holds all of the key   *)
(* seen so far, and a second round carries it everywhere.                  *)
(*                                                                         *)
(* Iteration: the calls so far went well but for the last (Calling), and   *)
(* the value in progress is that of a definition without a loop, of the    *)
(* elements called with so far (Working); slice cuts the collection into   *)
(* chunks of one size (Slicing). The array being sorted is a permutation of*)
(* the one given, in order in front of the element that is sinking and     *)
(* from there to its right (Sorting).                                      *)
(***************************************************************************)
EXTENDS Scope, Numbers, SeededRandom, Iteration, RecursionLemmas, SequenceTheorems, FiniteSetTheorems

Content == Val \cup {Unset}
Pending == Seq([name : Var, given : BOOLEAN])
ScopeSet == [vars : [Var -> Content], parent : 0..MaxDepth, match : Groups \cup {<< >>},
             defaults : [Attr -> Content], pending : Pending, body : BOOLEAN]

\* The parent of a body is the top scope, that of a branch or a block the scope under it.
Placed(s, i) == s.parent = IF s.body THEN 1 ELSE i - 1

Rooted ==
  /\ stack[1].body
  /\ \A i \in 2..Len(stack) : Placed(stack[i], i)

IInv == ScopeTypeOK /\ Rooted

\* The current scope is one of the stack.
LEMMA CurType ==
  ASSUME ScopeTypeOK
  PROVE  /\ Len(stack) \in 1..MaxDepth /\ MaxDepth \in Nat
         /\ stack \in Seq(ScopeSet)
         /\ \A i \in 1..Len(stack) : stack[i] \in ScopeSet
         /\ Cur \in ScopeSet
<1>1. stack \in Seq(ScopeSet) /\ Len(stack) \in 1..MaxDepth /\ MaxDepth \in Nat
  BY ScopeAssumption DEF ScopeTypeOK, ScopeSet, Content, Pending
<1>2. \A i \in 1..Len(stack) : stack[i] \in ScopeSet
  BY <1>1
<1>3. QED
  BY <1>1, <1>2 DEF Cur

\* A step keeps the scopes under n and leaves at most one more, s.
Untouched(n) == stack' \in Seq(ScopeSet) /\ \A i \in 1..n : stack'[i] = stack[i]

Changed(s) ==
  /\ Untouched(Len(stack) - 1) /\ Len(stack') = Len(stack) /\ stack'[Len(stack)] = s
  /\ s.parent = Cur.parent /\ s.body = Cur.body
Opened(s) ==
  /\ Untouched(Len(stack)) /\ Len(stack') = Len(stack) + 1 /\ Len(stack') <= MaxDepth
  /\ stack'[Len(stack) + 1] = s /\ Placed(s, Len(stack) + 1)
Shortened(n) == Untouched(n) /\ Len(stack') = n

\* A statement that changes the current scope.
LEMMA SetsCurrent ==
  ASSUME ScopeTypeOK, NEW s \in ScopeSet, SetCur(s), s.parent = Cur.parent, s.body = Cur.body
  PROVE  Changed(s)
BY CurType DEF Changed, Untouched, SetCur

\* A call or a branch that opens a scope.
LEMMA Opens ==
  ASSUME ScopeTypeOK, NEW s \in ScopeSet, Open(s), Placed(s, Len(stack) + 1)
  PROVE  Opened(s)
<1>1. stack \in Seq(ScopeSet) /\ stack' = Append(stack, s) /\ Len(stack) < MaxDepth
  BY CurType DEF Open
<1>2. QED
  BY <1>1, CurType DEF Opened, Untouched

\* A step changes the current scope, opens one or closes some.
LEMMA Shapes ==
  ASSUME ScopeTypeOK, Next
  PROVE  \/ \E s \in ScopeSet : Changed(s)
         \/ \E s \in ScopeSet : Opened(s)
         \/ \E n \in 1..Len(stack) : Shortened(n)
<1> DEFINE Goal == \/ \E s \in ScopeSet : Changed(s)
                   \/ \E s \in ScopeSet : Opened(s)
                   \/ \E n \in 1..Len(stack) : Shortened(n)
<1>0. ASSUME Fail PROVE Goal
  <2>1. stack[1] \in ScopeSet /\ 1 \in 1..Len(stack)
    BY CurType
  <2>2. Shortened(1)
    BY <1>0, <2>1 DEF Fail, Shortened, Untouched
  <2>3. QED
    BY <2>1, <2>2
<1>1. ASSUME NEW x \in Var, NEW v \in Val, Assign(x, v) PROVE Goal
  <2> DEFINE s == [Cur EXCEPT !.vars[x] = v]
  <2>1. s \in ScopeSet /\ s.parent = Cur.parent /\ s.body = Cur.body
    BY CurType DEF ScopeSet, Content
  <2>2. CASE SetCur(s)
    BY <2>1, <2>2, SetsCurrent
  <2>3. QED
    BY <1>0, <1>1, <2>2 DEF Assign
<1>2. ASSUME NEW g \in Groups \cup {<< >>}, Match(g) PROVE Goal
  <2> DEFINE s == [Cur EXCEPT !.match = g]
  <2>1. s \in ScopeSet /\ s.parent = Cur.parent /\ s.body = Cur.body
    BY CurType DEF ScopeSet
  <2>2. QED
    BY <1>2, <2>1, SetsCurrent DEF Match
<1>3. ASSUME NEW attrs \in [Attr -> Content], SetDefaults(attrs) PROVE Goal
  <2> DEFINE s == [Cur EXCEPT !.defaults = Over(Cur.defaults, attrs)]
  <2>1. Over(Cur.defaults, attrs) \in [Attr -> Content]
    BY CurType DEF Over, ScopeSet
  <2>2. s \in ScopeSet /\ s.parent = Cur.parent /\ s.body = Cur.body
    BY <2>1, CurType DEF ScopeSet
  <2>3. QED
    BY <1>3, <2>2, SetsCurrent DEF SetDefaults
<1>4. Unbound \in [Var -> Content] /\ NoDefaults \in [Attr -> Content]
  BY DEF Unbound, NoDefaults, Content
<1>5. CASE OpenBranch
  <2> DEFINE s == NewScope(Len(stack), Unbound, << >>, FALSE)
  <2>1. s \in ScopeSet /\ Placed(s, Len(stack) + 1)
    BY <1>4, CurType DEF NewScope, ScopeSet, Pending, Placed
  <2>2. QED
    BY <1>5, <2>1, Opens DEF OpenBranch
<1>6. ASSUME NEW params \in ParamList, CallBlock(params) PROVE Goal
  <2> DEFINE s == NewScope(Len(stack), Unbound, params, FALSE)
  <2>0. params \in Pending
    BY ScopeAssumption DEF Pending
  <2>1. s \in ScopeSet /\ Placed(s, Len(stack) + 1)
    BY <1>4, <2>0, CurType DEF NewScope, ScopeSet, Placed
  <2>2. QED
    BY <1>6, <2>1, Opens DEF CallBlock
<1>7. ASSUME NEW params \in ParamList, CallBody(params) PROVE Goal
  <2> DEFINE s == NewScope(1, Unbound, params, TRUE)
  <2>0. params \in Pending
    BY ScopeAssumption DEF Pending
  <2>1. s \in ScopeSet /\ Placed(s, Len(stack) + 1)
    BY <1>4, <2>0, CurType DEF NewScope, ScopeSet, Placed
  <2>2. QED
    BY <1>7, <2>1, Opens DEF CallBody
<1>8. ASSUME NEW v \in Val, Bind(v) PROVE Goal
  <2>1. Cur.pending \in Seq([name : Var, given : BOOLEAN]) /\ Cur.pending # << >>
    BY <1>8, CurType DEF Bind, ScopeSet, Pending
  <2>2. Head(Cur.pending) \in [name : Var, given : BOOLEAN] /\ Tail(Cur.pending) \in Pending
    BY <2>1, HeadTailProperties DEF Pending
  <2> DEFINE s == [Cur EXCEPT !.vars[Head(Cur.pending).name] = v, !.pending = Tail(@)]
  <2>3. s \in ScopeSet /\ s.parent = Cur.parent /\ s.body = Cur.body
    BY <2>2, CurType DEF ScopeSet, Content
  <2>4. QED
    BY <1>8, <2>3, SetsCurrent DEF Bind
<1>9. CASE Abort
  BY <1>0, <1>9 DEF Abort
<1>10. CASE Leave
  <2>1. Len(stack) - 1 \in 1..Len(stack)
    BY <1>10, CurType DEF Leave
  <2>2. Shortened(Len(stack) - 1)
    BY <1>10, <2>1, CurType DEF Leave, Shortened, Untouched
  <2>3. QED
    BY <2>1, <2>2
<1>11. QED
  BY <1>1, <1>2, <1>3, <1>5, <1>6, <1>7, <1>8, <1>9, <1>10 DEF Next, Content

\* The type invariant in its parts.
LEMMA TypeParts ==
  ScopeTypeOK' <=> /\ stack' \in Seq(ScopeSet)
                   /\ Len(stack') \in 1..MaxDepth
                   /\ \A i \in 1..Len(stack') :
                        stack'[i].parent < i /\ (stack'[i].parent = 0 <=> i = 1)
BY DEF ScopeTypeOK, ScopeSet, Content, Pending

\* Every step keeps the type and the shape of the stack.
LEMMA Inductive == IInv /\ [Next]_stack => IInv'
<1> SUFFICES ASSUME IInv, [Next]_stack PROVE IInv'
  OBVIOUS
<1>0. ScopeTypeOK /\ Rooted
  BY DEF IInv
<1>1. ASSUME NEW s \in ScopeSet, Changed(s) PROVE IInv'
  <2>1. stack' \in Seq(ScopeSet) /\ Len(stack') = Len(stack) /\ Len(stack') \in 1..MaxDepth
    BY <1>0, <1>1, CurType DEF Changed, Untouched
  <2>2. \A i \in 1..Len(stack) : stack'[i].parent = stack[i].parent /\ stack'[i].body = stack[i].body
    BY <1>0, <1>1, CurType DEF Changed, Untouched, Cur
  <2>3. \A i \in 1..Len(stack') : stack'[i].parent < i /\ (stack'[i].parent = 0 <=> i = 1)
    BY <1>0, <2>1, <2>2 DEF ScopeTypeOK
  <2>4. Rooted'
    BY <1>0, <2>1, <2>2 DEF Rooted, Placed
  <2>5. QED
    BY <2>1, <2>3, <2>4, TypeParts DEF IInv
<1>2. ASSUME NEW s \in ScopeSet, Opened(s) PROVE IInv'
  <2>1. stack' \in Seq(ScopeSet) /\ Len(stack') = Len(stack) + 1 /\ Len(stack') \in 1..MaxDepth
    BY <1>0, <1>2, CurType DEF Opened, Untouched
  <2>2. /\ \A i \in 1..Len(stack) : stack'[i] = stack[i]
        /\ stack'[Len(stack) + 1] = s /\ Placed(s, Len(stack) + 1)
    BY <1>2 DEF Opened, Untouched
  <2>3. \A i \in 1..Len(stack') : stack'[i].parent < i /\ (stack'[i].parent = 0 <=> i = 1)
    BY SMTT(60), <1>0, <2>1, <2>2, CurType DEF ScopeTypeOK, Placed
  <2>4. Rooted'
    BY <1>0, <2>1, <2>2, CurType DEF Rooted
  <2>5. QED
    BY <2>1, <2>3, <2>4, TypeParts DEF IInv
<1>3. ASSUME NEW n \in 1..Len(stack), Shortened(n) PROVE IInv'
  <2>1. stack' \in Seq(ScopeSet) /\ Len(stack') = n /\ Len(stack') \in 1..MaxDepth
    BY <1>0, <1>3, CurType DEF Shortened, Untouched
  <2>2. \A i \in 1..n : stack'[i] = stack[i]
    BY <1>3 DEF Shortened, Untouched
  <2>3. \A i \in 1..Len(stack) : stack[i].parent < i /\ (stack[i].parent = 0 <=> i = 1)
    BY <1>0 DEF ScopeTypeOK
  <2>4. \A i \in 1..Len(stack') : stack'[i].parent < i /\ (stack'[i].parent = 0 <=> i = 1)
    BY <2>1, <2>2, <2>3
  <2>5. Rooted'
    BY <1>0, <2>1, <2>2, CurType DEF Rooted
  <2>6. QED
    BY <2>1, <2>4, <2>5, TypeParts DEF IInv
<1>4. CASE UNCHANGED stack
  BY <1>0, <1>4 DEF IInv, ScopeTypeOK, Rooted
<1>5. QED
  BY <1>0, <1>1, <1>2, <1>3, <1>4, Shapes

\* The stack begins with the top scope, which is a body.
LEMMA Initially == Init => IInv
<1> SUFFICES ASSUME Init PROVE IInv
  OBVIOUS
<1> DEFINE s == NewScope(0, Facts, << >>, TRUE)
<1>1. s \in ScopeSet /\ s.parent = 0 /\ s.body
  BY ScopeAssumption DEF NewScope, ScopeSet, Pending, NoDefaults, Content
<1>2. stack = <<s>>
  BY DEF Init
<1> HIDE DEF s
<1>3. stack \in Seq(ScopeSet) /\ Len(stack) = 1 /\ stack[1] = s
  BY <1>1, <1>2
<1>4. ScopeTypeOK
  BY <1>1, <1>3, ScopeAssumption DEF ScopeTypeOK, ScopeSet, Content, Pending
<1>5. QED
  BY <1>1, <1>3, <1>4 DEF IInv, Rooted

\* The stack keeps its shape whatever is called, branched into, returned from or
\* fails: a body sees no scope but its own and the top one (newScope and those who call it).
THEOREM IInvariant == Spec => []IInv
BY Initially, Inductive, PTL DEF Spec

-----------------------------------------------------------------------------
(* What a step leaves alone *)

\* A step leaves alone every scope under the current one that it does not close.
LEMMA LeavesAlone ==
  ASSUME ScopeTypeOK, Next
  PROVE  \A k \in 1..(Len(stack) - 1) : k <= Len(stack') => stack'[k] = stack[k]
<1>1. ASSUME NEW s \in ScopeSet, Changed(s)
      PROVE  \A k \in 1..(Len(stack) - 1) : stack'[k] = stack[k]
  BY <1>1 DEF Changed, Untouched
<1>2. ASSUME NEW s \in ScopeSet, Opened(s)
      PROVE  \A k \in 1..(Len(stack) - 1) : stack'[k] = stack[k]
  BY <1>2, CurType DEF Opened, Untouched
<1>3. ASSUME NEW n \in 1..Len(stack), Shortened(n)
      PROVE  \A k \in 1..(Len(stack) - 1) : k <= Len(stack') => stack'[k] = stack[k]
  BY <1>3, CurType DEF Shortened, Untouched
<1>4. QED
  BY <1>1, <1>2, <1>3, Shapes

\* No statement, branch, block or call changes a scope of those around it
\* (set, setMatch and setDefaults write to the scope they are called on).
THEOREM Contained == Spec => NothingLeaks
<1>1. IInv /\ [Next]_stack =>
        [\A i \in 1..(Len(stack) - 1) : i <= Len(stack') => stack'[i] = stack[i]]_stack
  BY LeavesAlone DEF IInv
<1>2. QED
  BY <1>1, IInvariant, PTL DEF Spec, NothingLeaks

\* What a step does to a variable that has a value.
LEMMA BindsOnce ==
  ASSUME ScopeTypeOK, Next, NEW x \in Var, Len(stack) <= Len(stack'),
         Cur.vars[x] # Unset, stack'[Len(stack)].vars[x] # Cur.vars[x]
  PROVE  Cur.pending # << >> /\ Head(Cur.pending).name = x
<1> DEFINE there == stack'[Len(stack)]
<1>0. \A s : SetCur(s) => there = s
  BY CurType DEF SetCur
<1>1. ASSUME Fail PROVE FALSE
  <2>1. Len(stack) = 1 /\ there = Cur
    BY <1>1, CurType DEF Fail, Cur
  <2>2. QED
    BY <2>1
<1>2. ASSUME NEW y \in Var, NEW v \in Val, Assign(y, v) PROVE FALSE
  <2>1. Cur.vars[y] = Unset /\ SetCur([Cur EXCEPT !.vars[y] = v])
    BY <1>1, <1>2 DEF Assign
  <2>2. there = [Cur EXCEPT !.vars[y] = v] /\ x # y
    BY <1>0, <2>1
  <2>3. there.vars[x] = Cur.vars[x]
    BY <2>2, CurType DEF ScopeSet
  <2>4. QED
    BY <2>3
<1>3. ASSUME NEW g, Match(g) PROVE FALSE
  BY <1>0, <1>3, CurType DEF Match, ScopeSet
<1>4. ASSUME NEW attrs, SetDefaults(attrs) PROVE FALSE
  BY <1>0, <1>4, CurType DEF SetDefaults, ScopeSet
<1>5. ASSUME NEW s, Open(s) PROVE FALSE
  <2>1. stack'[Len(stack)] = Cur
    BY <1>5, CurType DEF Open, Cur
  <2>2. QED
    BY <2>1
<1>6. ASSUME NEW v \in Val, Bind(v) PROVE Cur.pending # << >> /\ Head(Cur.pending).name = x
  <2>1. there = [Cur EXCEPT !.vars[Head(Cur.pending).name] = v, !.pending = Tail(@)]
    BY <1>0, <1>6 DEF Bind
  <2>2. Head(Cur.pending).name # x => there.vars[x] = Cur.vars[x]
    BY <2>1, CurType DEF ScopeSet
  <2>3. QED
    BY <1>6, <2>2 DEF Bind
<1>7. CASE Leave
  BY <1>7, CurType DEF Leave
<1>8. QED
  BY <1>1, <1>2, <1>3, <1>4, <1>5, <1>6, <1>7 DEF Next, Abort, OpenBranch, CallBlock, CallBody

\* A variable gets a value once in a scope, except a parameter of the call being bound,
\* whose default a given value replaces (set, and setForce for parameters).
THEOREM OnceBound == Spec => BoundOnce
<1>1. ASSUME IInv, Next, NEW i \in 1..Len(stack), NEW x \in Var, i <= Len(stack'),
             stack[i].vars[x] # Unset, stack'[i].vars[x] # stack[i].vars[x]
      PROVE  i = Len(stack) /\ Cur.pending # << >> /\ Head(Cur.pending).name = x
  <2>1. i = Len(stack)
    BY <1>1, LeavesAlone, CurType DEF IInv
  <2>2. QED
    BY <1>1, <2>1, BindsOnce DEF IInv, Cur
<1>2. IInv /\ [Next]_stack =>
        [\A i \in 1..Len(stack), x \in Var :
          i <= Len(stack') /\ stack[i].vars[x] # Unset /\ stack'[i].vars[x] # stack[i].vars[x]
            => /\ i = Len(stack)
               /\ Cur.pending # << >> /\ Head(Cur.pending).name = x]_stack
  BY <1>1
<1>3. QED
  BY <1>2, IInvariant, PTL DEF Spec, BoundOnce

-----------------------------------------------------------------------------
(* The chain of a scope *)

\* The maximum of a set of naturals is in it and bounds it.
LEMMA MaxIs ==
  ASSUME NEW n \in Nat, NEW S \in SUBSET (0..n), S # {}
  PROVE  Max(S) \in S /\ \A k \in S : k <= Max(S)
<1>1. \E m \in S : \A k \in S : m >= k
  BY GreatestElement
<1>2. QED
  BY <1>1 DEF Max

\* The minimum of a set of naturals is in it and bounds it.
LEMMA MinIs ==
  ASSUME NEW S \in SUBSET Nat, S # {}
  PROVE  Min(S) \in S /\ \A k \in S : Min(S) <= k
<1>1. \E m \in S : \A k \in S : m <= k
  BY LeastElement
<1>2. QED
  BY <1>1 DEF Min

\* The body of a scope is at or below it, with branches and blocks only in between.
LEMMA BodyIs ==
  ASSUME IInv, NEW i \in 1..Len(stack)
  PROVE  /\ BodyOf(i) \in 1..i /\ stack[BodyOf(i)].body
         /\ \A k \in (BodyOf(i) + 1)..i : ~stack[k].body
<1> DEFINE Bodies == {k \in 1..i : stack[k].body}
<1>1. Bodies \in SUBSET (0..i) /\ 1 \in Bodies /\ i \in Nat
  BY CurType DEF IInv, Rooted
<1>2. Max(Bodies) \in Bodies /\ \A k \in Bodies : k <= Max(Bodies)
  <2> HIDE DEF Bodies
  <2>1. QED
    BY <1>1, MaxIs
<1>3. BodyOf(i) = Max(Bodies)
  BY DEF BodyOf
<1>4. BodyOf(i) \in 1..i /\ stack[BodyOf(i)].body /\ \A k \in Bodies : k <= BodyOf(i)
  <2> HIDE DEF Bodies
  <2>1. BodyOf(i) \in Bodies /\ \A k \in Bodies : k <= BodyOf(i)
    BY <1>2, <1>3
  <2>2. QED
    BY <2>1 DEF Bodies
<1>5. ASSUME NEW k \in (BodyOf(i) + 1)..i PROVE ~stack[k].body
  <2>1. k \in 1..i /\ ~(k <= BodyOf(i))
    BY <1>1, <1>4
  <2>2. QED
    BY <1>4, <2>1
<1>6. QED
  BY <1>4, <1>5

\* A branch or block belongs to the body of the scope under it.
LEMMA BodyBelow ==
  ASSUME IInv, NEW i \in 2..Len(stack)
  PROVE  BodyOf(i) = IF stack[i].body THEN i ELSE BodyOf(i - 1)
<1>1. i \in 1..Len(stack) /\ i - 1 \in 1..Len(stack)
  BY CurType DEF IInv
<1>2. /\ BodyOf(i) \in 1..i /\ stack[BodyOf(i)].body
      /\ \A k \in (BodyOf(i) + 1)..i : ~stack[k].body
  BY <1>1, BodyIs
<1>3. /\ BodyOf(i - 1) \in 1..(i - 1) /\ stack[BodyOf(i - 1)].body
      /\ \A k \in (BodyOf(i - 1) + 1)..(i - 1) : ~stack[k].body
  BY <1>1, BodyIs
<1>4. CASE stack[i].body
  BY <1>2, <1>4
<1>5. CASE ~stack[i].body
  BY <1>2, <1>3, <1>5
<1>6. QED
  BY <1>4, <1>5

\* The positions of a chain: the scope and those under it down to its body, then the top.
\* The chain of parents from i in closed form: i, its branches and blocks down to the body
\* they belong to, then the top scope.
PathLength(i) == IF BodyOf(i) = 1 THEN i ELSE i - BodyOf(i) + 2
Path(i) ==
  [k \in 1..PathLength(i) |-> IF k <= i - BodyOf(i) + 1 THEN i - k + 1 ELSE 1]

\* The chain is a sequence of scopes at or below i.
LEMMA PathType ==
  ASSUME IInv, NEW i \in 1..Len(stack)
  PROVE  /\ PathLength(i) \in 1..(i + 1) /\ PathLength(i) \in Nat
         /\ Path(i) \in Seq(1..i) /\ Len(Path(i)) = PathLength(i)
         /\ \A k \in 1..PathLength(i) :
              Path(i)[k] = IF k <= i - BodyOf(i) + 1 THEN i - k + 1 ELSE 1
<1>1. i \in Nat \ {0} /\ BodyOf(i) \in 1..i
  BY BodyIs, CurType DEF IInv
<1>2. PathLength(i) \in 1..(i + 1)
  BY <1>1 DEF PathLength
<1>3. \A k \in 1..PathLength(i) : (IF k <= i - BodyOf(i) + 1 THEN i - k + 1 ELSE 1) \in 1..i
  BY <1>1
<1>4. QED
  BY <1>1, <1>2, <1>3 DEF Path

\* The chain from i is i and the chain from its parent.
LEMMA PathGoesOn ==
  ASSUME IInv, NEW i \in 1..Len(stack)
  PROVE  Path(i) = IF stack[i].parent = 0 THEN <<i>> ELSE <<i>> \o Path(stack[i].parent)
<1> DEFINE p == stack[i].parent
<1>0. i \in Nat \ {0} /\ Len(stack) \in Nat
  BY CurType DEF IInv
<1>1. /\ PathLength(i) \in 1..(i + 1)
      /\ Path(i) \in Seq(1..i) /\ Len(Path(i)) = PathLength(i)
      /\ \A k \in 1..PathLength(i) :
           Path(i)[k] = IF k <= i - BodyOf(i) + 1 THEN i - k + 1 ELSE 1
  BY PathType
<1>2. CASE i = 1
  <2>1. p = 0 /\ BodyOf(1) = 1
    BY <1>2, BodyIs DEF IInv, ScopeTypeOK
  <2>2. Len(Path(i)) = 1 /\ Path(i)[1] = 1
    BY <1>1, <1>2, <2>1 DEF PathLength
  <2>3. Path(i) = <<1>>
    BY <1>1, <2>2
  <2>4. QED
    BY <1>2, <2>1, <2>3
<1>3. CASE i # 1
  <2>0. i \in 2..Len(stack) /\ p # 0 /\ p = IF stack[i].body THEN 1 ELSE i - 1
    BY <1>0, <1>3 DEF IInv, ScopeTypeOK, Rooted, Placed
  <2>1. p \in 1..Len(stack) /\ p < i
    BY <2>0, <1>0
  <2>2. /\ PathLength(p) \in 1..(p + 1)
        /\ Path(p) \in Seq(1..p) /\ Len(Path(p)) = PathLength(p)
        /\ \A k \in 1..PathLength(p) :
             Path(p)[k] = IF k <= p - BodyOf(p) + 1 THEN p - k + 1 ELSE 1
    BY <2>1, PathType
  <2>3. BodyOf(i) = (IF stack[i].body THEN i ELSE BodyOf(i - 1)) /\ BodyOf(p) \in 1..p /\ BodyOf(1) = 1
    BY <1>0, <2>0, <2>1, BodyBelow, BodyIs
  <2> DEFINE q == <<i>> \o Path(p)
  <2>4. q \in Seq(1..i) /\ Len(q) = 1 + PathLength(p)
    BY <1>0, <2>1, <2>2
  <2>5. \A k \in 1..Len(q) : q[k] = IF k = 1 THEN i ELSE Path(p)[k - 1]
    BY <2>2
  <2>6. PathLength(i) = 1 + PathLength(p)
    BY <1>0, <2>0, <2>3 DEF PathLength
  <2>7. ASSUME NEW k \in 1..Len(q) PROVE q[k] = Path(i)[k]
    <3>1. Path(i)[k] = IF k <= i - BodyOf(i) + 1 THEN i - k + 1 ELSE 1
      BY <1>1, <2>4, <2>6
    <3>2. CASE k = 1
      BY <1>0, <2>3, <2>5, <3>1, <3>2, BodyIs
    <3>3. CASE k # 1
      <4>1. q[k] = IF k - 1 <= p - BodyOf(p) + 1 THEN p - (k - 1) + 1 ELSE 1
        BY SMTT(60), <2>2, <2>4, <2>5, <3>3
      <4>2. QED
        BY <1>0, <2>0, <2>3, <3>1, <4>1
    <3>4. QED
      BY <3>2, <3>3
  <2>8. q = Path(i)
    <3> HIDE DEF q
    <3>1. QED
      BY <1>1, <2>4, <2>6, <2>7, SeqEqual
  <2>9. QED
    BY <2>0, <2>8
<1>4. QED
  BY <1>2, <1>3

\* Following parents gives the chain.
LEMMA ChainIs ==
  ASSUME IInv, NEW i \in 1..Len(stack)
  PROVE  Chain(i) = Path(i)
<1> DEFINE n == Len(stack)
           up[j \in 1..Len(stack)] ==
             IF stack[j].parent = 0 THEN <<j>> ELSE <<j>> \o up[stack[j].parent]
           found == [j \in 1..n |-> Path(j)]
           step(f) == [j \in 1..Len(stack) |->
                        IF stack[j].parent = 0 THEN <<j>> ELSE <<j>> \o f[stack[j].parent]]
<1>1. n \in Nat
  BY CurType DEF IInv
<1>2. \A j \in 1..n : stack[j].parent # 0 => stack[j].parent \in 1..n /\ stack[j].parent < j
  BY SMTT(60), <1>1, CurType DEF IInv, ScopeTypeOK, ScopeSet
<1>3. found = step(found)
  <2>1. ASSUME NEW j \in 1..n PROVE found[j] = step(found)[j]
    BY <1>2, PathGoesOn
  <2>2. QED
    BY <2>1
<1>4. up = step(up)
  <2>1. \E f : f = step(f)
    BY <1>3
  <2>2. QED
    BY <2>1
<1>5. \A j \in 1..n : up[j] = IF stack[j].parent = 0 THEN <<j>> ELSE <<j>> \o up[stack[j].parent]
  <2> HIDE DEF up
  <2>1. QED
    BY <1>4
<1>6. Chain(i) = up[i]
  BY DEF Chain
<1> HIDE DEF up
<1> DEFINE Same == {j \in 0..n : j = 0 \/ up[j] = Path(j)}
           Upto == {j \in 0..n : 0..j \subseteq Same}
<1>7. 0 \in Upto
  BY <1>1
<1>8. ASSUME NEW k \in 0..(n - 1), k \in Upto PROVE k + 1 \in Upto
  <2>1. k + 1 \in 1..n
    BY <1>1
  <2>2. stack[k + 1].parent # 0 => up[stack[k + 1].parent] = Path(stack[k + 1].parent)
    BY <1>1, <1>2, <1>8, <2>1
  <2>3. up[k + 1] = Path(k + 1)
    BY <1>5, <2>1, <2>2, PathGoesOn
  <2>4. QED
    BY <1>1, <1>8, <2>1, <2>3
<1>9. 0..n \subseteq Upto
  <2> HIDE DEF Upto, n
  <2>1. QED
    BY <1>1, <1>7, <1>8, UpTo
<1>10. i \in Upto
  BY <1>1, <1>9
<1>11. QED
  BY <1>1, <1>6, <1>10

-----------------------------------------------------------------------------
(* The nearest scope *)

\* v is the first of n values that is set, or Unset.
Nearest(v, n, values) ==
  \/ v = Unset /\ \A k \in 1..n : values[k] = Unset
  \/ v # Unset /\ \E k \in 1..n : v = values[k] /\ \A l \in 1..(k - 1) : values[l] = Unset

\* Only one value is the nearest.
LEMMA OneNearest ==
  ASSUME NEW n \in Nat, NEW values, NEW v, NEW w, Nearest(v, n, values), Nearest(w, n, values)
  PROVE  v = w
<1>1. CASE v = Unset \/ w = Unset
  BY <1>1 DEF Nearest
<1>2. CASE v # Unset /\ w # Unset
  <2>1. PICK k \in 1..n : v = values[k] /\ \A l \in 1..(k - 1) : values[l] = Unset
    BY <1>2 DEF Nearest
  <2>2. PICK m \in 1..n : w = values[m] /\ \A l \in 1..(m - 1) : values[l] = Unset
    BY <1>2 DEF Nearest
  <2>3. ~(k < m) /\ ~(m < k)
    BY <1>2, <2>1, <2>2
  <2>4. QED
    BY <2>1, <2>2, <2>3
<1>3. QED
  BY <1>1, <1>2

\* The first of the positions of chain c that are marked.
LEMMA FirstMarked ==
  ASSUME NEW n \in Nat, NEW values \in [1..n -> Content], NEW v,
         LET set == {k \in 1..n : values[k] # Unset}
         IN  v = IF set = {} THEN Unset ELSE values[Min(set)]
  PROVE  Nearest(v, n, values)
<1> DEFINE set == {k \in 1..n : values[k] # Unset}
<1>1. CASE set = {}
  BY <1>1 DEF Nearest
<1>2. CASE set # {}
  <2>1. Min(set) \in set /\ \A k \in set : Min(set) <= k
    <3>1. set \in SUBSET Nat
      OBVIOUS
    <3> HIDE DEF set
    <3>2. QED
      BY <1>2, <3>1, MinIs
  <2>2. \A l \in 1..(Min(set) - 1) : values[l] = Unset
    BY <2>1
  <2>3. QED
    BY <1>2, <2>1, <2>2 DEF Nearest
<1>3. QED
  BY <1>1, <1>2

\* What the scopes of the chain from i know of x.
ValuesAlong(i, x) == [k \in 1..PathLength(i) |-> stack[Path(i)[k]].vars[x]]

\* They are values or Unset.
LEMMA ValuesType ==
  ASSUME IInv, NEW i \in 1..Len(stack)
  PROVE  /\ \A k \in 1..PathLength(i) : Path(i)[k] \in 1..i /\ stack[Path(i)[k]] \in ScopeSet
         /\ \A x \in Var : ValuesAlong(i, x) \in [1..PathLength(i) -> Content]
<1>1. /\ PathLength(i) \in Nat /\ Path(i) \in Seq(1..i) /\ Len(Path(i)) = PathLength(i)
      /\ i \in Nat /\ Len(stack) \in Nat
  BY PathType, CurType DEF IInv
<1>2. ASSUME NEW k \in 1..PathLength(i) PROVE Path(i)[k] \in 1..i /\ stack[Path(i)[k]] \in ScopeSet
  <2>1. Path(i)[k] \in 1..i
    BY <1>1
  <2>2. QED
    BY <1>1, <2>1, CurType DEF IInv
<1>3. QED
  BY <1>2 DEF ValuesAlong, ScopeSet

\* Looking a variable up gives its nearest value.
LEMMA LookupIs ==
  ASSUME IInv, NEW i \in 1..Len(stack), NEW x \in Var
  PROVE  Nearest(Lookup(i, x), PathLength(i), ValuesAlong(i, x))
<1> DEFINE n == PathLength(i)
           set == {k \in 1..n : ValuesAlong(i, x)[k] # Unset}
<1>1. n \in Nat /\ Chain(i) = Path(i) /\ Len(Path(i)) = n
  BY ChainIs, PathType
<1>2. ValuesAlong(i, x) \in [1..n -> Content] /\ \A k \in 1..n : Path(i)[k] \in 1..i
  BY ValuesType
<1>3. set = {k \in 1..n : stack[Path(i)[k]].vars[x] # Unset}
  BY DEF ValuesAlong
<1>4. CASE set = {}
  <2>1. Lookup(i, x) = Unset
    BY <1>1, <1>3, <1>4 DEF Lookup, FirstIn
  <2>2. QED
    BY <1>1, <1>2, <1>4, <2>1, FirstMarked
<1>5. CASE set # {}
  <2>1. Min(set) \in set
    <3>1. set \in SUBSET Nat
      OBVIOUS
    <3> HIDE DEF set
    <3>2. QED
      BY <1>5, <3>1, MinIs
  <2>2. Lookup(i, x) = ValuesAlong(i, x)[Min(set)]
    <3>1. FirstIn(Chain(i), LAMBDA s : stack[s].vars[x] # Unset) = Path(i)[Min(set)]
      BY <1>1, <1>3, <1>5 DEF FirstIn
    <3>2. Path(i)[Min(set)] # 0
      BY <1>2, <2>1
    <3>3. QED
      BY <2>1, <3>1, <3>2 DEF Lookup, ValuesAlong
  <2>3. QED
    BY <1>1, <1>2, <1>5, <2>2, FirstMarked
<1>6. QED
  BY <1>4, <1>5

-----------------------------------------------------------------------------
(* Layers laid over each other, the outermost first *)

\* Layers over D; what they say of x; the result of laying each over those before.
LayerSet(D, n) == [1..n -> [D -> Content]]
At(layer, n, x) == [k \in 1..n |-> layer[k][x]]
Lowest(D) == [x \in D |-> Unset]
Layers(D, n, layer, over) ==
  over = [k \in 0..n |-> IF k = 0 THEN Lowest(D) ELSE Over(over[k - 1], layer[n + 1 - k])]

\* The recursive definition of laying over has a solution.
LEMMA LayersExist ==
  ASSUME NEW D, NEW n \in Nat, NEW layer \in LayerSet(D, n)
  PROVE  \E over : Layers(D, n, layer, over)
<1> USE DEF LayerSet
<1> DEFINE S == [D -> Content]
           step == [p \in S \X (1..n) |-> Over(p[1], layer[n + 1 - p[2]])]
<1>1. Lowest(D) \in S
  BY DEF Lowest, Content
<1>2. step \in Steps(S, n)
  <2>1. ASSUME NEW f \in S, NEW k \in 1..n PROVE Over(f, layer[n + 1 - k]) \in S
    BY DEF Over
  <2>2. QED
    BY <2>1 DEF Steps
<1>3. PICK over \in [0..n -> S] : over[0] = Lowest(D) /\ \A k \in 1..n : over[k] = step[<<over[k - 1], k>>]
  <2> DEFINE b == Lowest(D)
  <2>1. b \in S
    BY <1>1
  <2> HIDE DEF S, step, b
  <2>2. \E over : IterationOf(over, n, S, b, step)
    BY <1>2, <2>1, Iterated
  <2>3. QED
    BY <2>2 DEF b, IterationOf
<1>4. ASSUME NEW k \in 0..n
      PROVE  over[k] = IF k = 0 THEN Lowest(D) ELSE Over(over[k - 1], layer[n + 1 - k])
  <2>1. CASE k = 0
    BY <1>3, <2>1
  <2>2. CASE k # 0
    <3>1. k \in 1..n /\ k - 1 \in 0..n
      BY <2>2
    <3>2. QED
      BY <1>3, <2>2, <3>1
  <2>3. QED
    BY <2>1, <2>2
<1>5. QED
  BY <1>3, <1>4 DEF Layers

\* What is laid on last wins: the nearest value.
LEMMA LayersNearest ==
  ASSUME NEW D, NEW n \in Nat, NEW layer \in LayerSet(D, n), NEW over,
         Layers(D, n, layer, over), NEW x \in D
  PROVE  Nearest(over[n][x], n, At(layer, n, x))
<1> USE DEF LayerSet
<1> DEFINE From(k) == \/ over[k][x] = Unset /\ \A j \in (n + 1 - k)..n : layer[j][x] = Unset
                      \/ /\ over[k][x] # Unset
                         /\ \E j \in (n + 1 - k)..n :
                              /\ over[k][x] = layer[j][x]
                              /\ \A l \in (n + 1 - k)..(j - 1) : layer[l][x] = Unset
           Upto == {k \in 0..n : over[k] \in [D -> Content] /\ From(k)}
<1>1. /\ over[0] = Lowest(D)
      /\ \A k \in 1..n : over[k] = Over(over[k - 1], layer[n + 1 - k])
  BY DEF Layers
<1>2. 0 \in Upto
  BY <1>1 DEF Lowest, Content
<1>3. ASSUME NEW k \in 0..(n - 1), k \in Upto PROVE k + 1 \in Upto
  <2> DEFINE top == layer[n - k]
  <2>1. n - k \in 1..n /\ k + 1 \in 1..n /\ top \in [D -> Content]
    OBVIOUS
  <2>2. over[k + 1] = Over(over[k], top)
    BY <1>1, <2>1
  <2>3. over[k + 1] \in [D -> Content] /\ over[k + 1][x] = IF top[x] = Unset THEN over[k][x] ELSE top[x]
    BY <1>3, <2>1, <2>2 DEF Over
  <2>4. From(k + 1)
    <3>1. CASE top[x] # Unset
      <4>1. n - k \in (n + 1 - (k + 1))..n /\ over[k + 1][x] = layer[n - k][x]
        BY <2>1, <2>3, <3>1
      <4>2. \A l \in (n + 1 - (k + 1))..((n - k) - 1) : FALSE
        BY <2>1
      <4>3. QED
        BY <3>1, <4>1, <4>2
    <3>2. CASE top[x] = Unset
      <4>1. over[k + 1][x] = over[k][x] /\ From(k)
        BY <1>3, <2>3, <3>2
      <4>2. CASE over[k][x] = Unset
        <5>1. \A j \in (n + 1 - k)..n : layer[j][x] = Unset
          BY <4>1, <4>2
        <5>2. QED
          BY <2>1, <3>2, <4>1, <4>2, <5>1
      <4>3. CASE over[k][x] # Unset
        <5>1. PICK j \in (n + 1 - k)..n :
                /\ over[k][x] = layer[j][x]
                /\ \A l \in (n + 1 - k)..(j - 1) : layer[l][x] = Unset
          BY <4>1, <4>3
        <5>2. j \in (n + 1 - (k + 1))..n
          BY <2>1
        <5>3. \A l \in (n + 1 - (k + 1))..(j - 1) : layer[l][x] = Unset
          BY <2>1, <3>2, <5>1
        <5>4. QED
          BY <4>1, <4>3, <5>1, <5>2, <5>3
      <4>4. QED
        BY <4>2, <4>3
    <3>3. QED
      BY <3>1, <3>2
  <2>5. QED
    BY <2>1, <2>3, <2>4
<1>4. n \in Upto
  <2>1. 0..n \subseteq Upto
    <3> HIDE DEF Upto
    <3>1. QED
      BY <1>2, <1>3, UpTo
  <2>2. QED
    BY <2>1
<1>5. From(n) /\ n + 1 - n = 1
  BY <1>4
<1>6. QED
  BY <1>5 DEF Nearest, At

\* A snapshot has the nearest values (snapshot).
LEMMA SnapshotIs ==
  ASSUME IInv, NEW i \in 1..Len(stack), NEW x \in Var
  PROVE  Nearest(Snapshot(i)[x], PathLength(i), ValuesAlong(i, x))
<1> DEFINE n == PathLength(i)
           layer == [k \in 1..n |-> stack[Path(i)[k]].vars]
           over[k \in 0..Len(Path(i))] ==
             IF k = 0 THEN Unbound
             ELSE Over(over[k - 1], stack[Path(i)[Len(Path(i)) + 1 - k]].vars)
<1>1. n \in Nat /\ Len(Path(i)) = n /\ Chain(i) = Path(i)
  BY ChainIs, PathType
<1>2. layer \in LayerSet(Var, n)
  BY ValuesType DEF ScopeSet, LayerSet
<1>3. \A f : Layers(Var, n, layer, f) <=>
               f = [k \in 0..Len(Path(i)) |->
                     IF k = 0 THEN Unbound
                     ELSE Over(f[k - 1], stack[Path(i)[Len(Path(i)) + 1 - k]].vars)]
  <2>1. ASSUME NEW f, NEW k \in 0..n
        PROVE  (IF k = 0 THEN Lowest(Var) ELSE Over(f[k - 1], layer[n + 1 - k])) =
               (IF k = 0 THEN Unbound
                ELSE Over(f[k - 1], stack[Path(i)[Len(Path(i)) + 1 - k]].vars))
    <3>1. k # 0 => n + 1 - k \in 1..n
      BY <1>1
    <3>2. QED
      BY <1>1, <3>1 DEF Lowest, Unbound
  <2>2. \A f : [k \in 0..n |-> IF k = 0 THEN Lowest(Var) ELSE Over(f[k - 1], layer[n + 1 - k])] =
              [k \in 0..Len(Path(i)) |->
                IF k = 0 THEN Unbound
                ELSE Over(f[k - 1], stack[Path(i)[Len(Path(i)) + 1 - k]].vars)]
    <3> HIDE DEF layer, n
    <3>1. QED
      BY <1>1, <2>1
  <2> HIDE DEF layer
  <2>3. QED
    BY <2>2 DEF Layers
<1>4. Layers(Var, n, layer, over)
  <2>1. \E f : Layers(Var, n, layer, f)
    <3> HIDE DEF layer
    <3>1. QED
      BY <1>1, <1>2, LayersExist
  <2> HIDE DEF layer
  <2>2. QED
    BY <1>3, <2>1
<1>5. Snapshot(i) = over[n]
  BY <1>1 DEF Snapshot
<1>6. Nearest(over[n][x], n, At(layer, n, x))
  <2> HIDE DEF layer, over, n
  <2>1. QED
    BY <1>1, <1>2, <1>4, LayersNearest
<1>7. At(layer, n, x) = ValuesAlong(i, x)
  BY DEF At, ValuesAlong
<1>8. QED
  BY <1>5, <1>6, <1>7

\* What the scopes of the chain from i give by default for a.
DefaultValues(i, a) == [k \in 1..PathLength(i) |-> stack[Path(i)[k]].defaults[a]]

\* The defaults found are the nearest (lookupDefaults).
LEMMA DefaultsAre ==
  ASSUME IInv, NEW i \in 1..Len(stack), NEW a \in Attr
  PROVE  Nearest(LookupDefaults(i)[a], PathLength(i), DefaultValues(i, a))
<1> DEFINE n == PathLength(i)
           layer == [k \in 1..n |-> stack[Path(i)[k]].defaults]
           over[k \in 0..Len(Path(i))] ==
             IF k = 0 THEN NoDefaults
             ELSE Over(over[k - 1], stack[Path(i)[Len(Path(i)) + 1 - k]].defaults)
<1>1. n \in Nat /\ Len(Path(i)) = n /\ Chain(i) = Path(i)
  BY ChainIs, PathType
<1>2. layer \in LayerSet(Attr, n)
  BY ValuesType DEF ScopeSet, LayerSet
<1>3. \A f : Layers(Attr, n, layer, f) <=>
               f = [k \in 0..Len(Path(i)) |->
                     IF k = 0 THEN NoDefaults
                     ELSE Over(f[k - 1], stack[Path(i)[Len(Path(i)) + 1 - k]].defaults)]
  <2>1. ASSUME NEW f, NEW k \in 0..n
        PROVE  (IF k = 0 THEN Lowest(Attr) ELSE Over(f[k - 1], layer[n + 1 - k])) =
               (IF k = 0 THEN NoDefaults
                ELSE Over(f[k - 1], stack[Path(i)[Len(Path(i)) + 1 - k]].defaults))
    <3>1. k # 0 => n + 1 - k \in 1..n
      BY <1>1
    <3>2. QED
      BY <1>1, <3>1 DEF Lowest, NoDefaults
  <2>2. \A f : [k \in 0..n |-> IF k = 0 THEN Lowest(Attr) ELSE Over(f[k - 1], layer[n + 1 - k])] =
              [k \in 0..Len(Path(i)) |->
                IF k = 0 THEN NoDefaults
                ELSE Over(f[k - 1], stack[Path(i)[Len(Path(i)) + 1 - k]].defaults)]
    <3> HIDE DEF layer, n
    <3>1. QED
      BY <1>1, <2>1
  <2> HIDE DEF layer
  <2>3. QED
    BY <2>2 DEF Layers
<1>4. Layers(Attr, n, layer, over)
  <2>1. \E f : Layers(Attr, n, layer, f)
    <3> HIDE DEF layer
    <3>1. QED
      BY <1>1, <1>2, LayersExist
  <2> HIDE DEF layer
  <2>2. QED
    BY <1>3, <2>1
<1>5. LookupDefaults(i) = over[n]
  BY <1>1 DEF LookupDefaults
<1>6. Nearest(over[n][a], n, At(layer, n, a))
  <2> HIDE DEF layer, over, n
  <2>1. QED
    BY <1>1, <1>2, <1>4, LayersNearest
<1>7. At(layer, n, a) = DefaultValues(i, a)
  BY DEF At, DefaultValues
<1>8. QED
  BY <1>5, <1>6, <1>7

-----------------------------------------------------------------------------
(* Names *)

\* The chain stays in the body and the top scope.
LEMMA PathVisible ==
  ASSUME IInv, NEW i \in 1..Len(stack), NEW k \in 1..PathLength(i)
  PROVE  Path(i)[k] \in {1} \cup BodyOf(i)..i
<1>1. i \in Nat /\ BodyOf(i) \in 1..i /\ PathLength(i) \in Nat
  BY BodyIs, PathType, CurType DEF IInv
<1>2. QED
  BY <1>1, PathType

\* A name is never resolved in a scope between a body and the top.
LEMMA Unseen == IInv => CallersUnseen
<1> SUFFICES ASSUME IInv, NEW i \in 1..Len(stack)
             PROVE  LET visible == {1} \cup BodyOf(i)..i IN
                    /\ \A x \in Var :
                         Lookup(i, x) # Unset => \E j \in visible : stack[j].vars[x] = Lookup(i, x)
                    /\ LookupMatch(i, 0) # Unset =>
                         \E j \in visible : stack[j].match # << >> /\ stack[j].match[1] = LookupMatch(i, 0)
  BY DEF CallersUnseen
<1> DEFINE visible == {1} \cup BodyOf(i)..i
<1>1. ASSUME NEW x \in Var, Lookup(i, x) # Unset
      PROVE  \E j \in visible : stack[j].vars[x] = Lookup(i, x)
  <2>1. PICK k \in 1..PathLength(i) : Lookup(i, x) = ValuesAlong(i, x)[k]
    BY <1>1, LookupIs DEF Nearest
  <2>2. QED
    BY <2>1, PathVisible DEF ValuesAlong
<1>2. ASSUME LookupMatch(i, 0) # Unset
      PROVE  \E j \in visible : stack[j].match # << >> /\ stack[j].match[1] = LookupMatch(i, 0)
  <2> DEFINE n == PathLength(i)
             set == {k \in 1..n : stack[Path(i)[k]].match # << >>}
             s == Path(i)[Min(set)]
  <2>1. n \in Nat /\ Chain(i) = Path(i) /\ Len(Path(i)) = n
    BY ChainIs, PathType
  <2>2. FirstIn(Chain(i), LAMBDA j : stack[j].match # << >>) = IF set = {} THEN 0 ELSE s
    BY <2>1 DEF FirstIn
  <2>3. set # {}
    BY <1>2, <2>2 DEF LookupMatch
  <2>4. Min(set) \in set
    <3>1. set \in SUBSET Nat
      OBVIOUS
    <3> HIDE DEF set
    <3>2. QED
      BY <2>3, <3>1, MinIs
  <2>5. s \in visible /\ stack[s].match # << >>
    BY <2>4, PathVisible
  <2>6. LookupMatch(i, 0) = stack[s].match[1]
    <3> HIDE DEF s, set
    <3>1. QED
      BY <1>2, <2>2, <2>3 DEF LookupMatch
  <2>7. QED
    BY <2>5, <2>6
<1>3. QED
  BY <1>1, <1>2

\* Interpolation, which takes a snapshot, sees what a lookup finds.
LEMMA Agrees == IInv => SnapshotAgrees
<1> SUFFICES ASSUME IInv, NEW i \in 1..Len(stack), NEW x \in Var
             PROVE  Snapshot(i)[x] = Lookup(i, x)
  BY DEF SnapshotAgrees
<1>1. PathLength(i) \in Nat
  BY PathType
<1>2. QED
  BY <1>1, LookupIs, SnapshotIs, OneNearest

\* A resource takes each default from the nearest scope that has one.
LEMMA TakenNearest == IInv => DefaultsNearest
<1> SUFFICES ASSUME IInv, NEW i \in 1..Len(stack), NEW a \in Attr
             PROVE  \/ /\ LookupDefaults(i)[a] = Unset
                       /\ \A k \in 1..Len(Chain(i)) : stack[Chain(i)[k]].defaults[a] = Unset
                    \/ \E k \in 1..Len(Chain(i)) :
                         /\ LookupDefaults(i)[a] = stack[Chain(i)[k]].defaults[a]
                         /\ stack[Chain(i)[k]].defaults[a] # Unset
                         /\ \A l \in 1..(k - 1) : stack[Chain(i)[l]].defaults[a] = Unset
  BY DEF DefaultsNearest
<1> DEFINE n == PathLength(i)
<1>1. n \in Nat /\ Chain(i) = Path(i) /\ Len(Path(i)) = n
  BY ChainIs, PathType
<1>2. Nearest(LookupDefaults(i)[a], n, DefaultValues(i, a))
  BY DefaultsAre
<1> DEFINE v == LookupDefaults(i)[a]
           at(k) == stack[Path(i)[k]].defaults[a]
<1>3. \A k \in 1..n : DefaultValues(i, a)[k] = at(k)
  BY DEF DefaultValues
<1>4. CASE v = Unset
  BY <1>1, <1>2, <1>3, <1>4 DEF Nearest
<1>5. CASE v # Unset
  <2>1. PICK k \in 1..n : /\ v = DefaultValues(i, a)[k]
                         /\ \A l \in 1..(k - 1) : DefaultValues(i, a)[l] = Unset
    BY <1>2, <1>5 DEF Nearest
  <2>2. v = at(k) /\ at(k) # Unset /\ \A l \in 1..(k - 1) : at(l) = Unset
    BY <1>1, <1>3, <1>5, <2>1
  <2>3. QED
    BY <1>1, <2>2
<1>6. QED
  BY <1>4, <1>5

\* Names are resolved in the body that uses them and in the top scope, at the nearest of
\* their scopes that has them, by lookup, snapshot and defaults alike (lookup, the match
\* variables, snapshot, lookupDefaults).
THEOREM Resolved == Spec => []NamesResolved
<1>1. IInv => NamesResolved
  BY Unseen, Agrees, TakenNearest DEF IInv, NamesResolved
<1>2. QED
  BY <1>1, IInvariant, PTL

-----------------------------------------------------------------------------
(* Integers *)

\* A wrapped integer has the width, and one of the width is left as it is.
LEMMA WrapIs ==
  ASSUME NEW n \in Int
  PROVE  Wrap(n) \in Int64 /\ (n \in Int64 => Wrap(n) = n)
BY NumbersAssumption DEF Wrap, Int64

\* One that is out by less than the whole range once wraps once.
LEMMA WrapOver ==
  ASSUME NEW n \in Int
  PROVE  /\ n \in Half..(3 * Half - 1) => Wrap(n) = n - 2 * Half
         /\ n \in (-(3 * Half))..(-Half - 1) => Wrap(n) = n + 2 * Half
BY NumbersAssumption DEF Wrap, Int64

\* Division with a remainder, for integers that are no literals.
LEMMA DivIs ==
  ASSUME NEW a \in Int, NEW b \in Nat \ {0}
  PROVE  /\ a \div b \in Int /\ a % b \in 0..(b - 1)
         /\ a = b * (a \div b) + (a % b)
         /\ a \in Nat => a \div b \in Nat
OBVIOUS

\* A product is at least so many times a factor as the other one is.
LEMMA ProductAtLeast ==
  ASSUME NEW a \in Nat, NEW b \in Nat, NEW c \in Nat, a >= c
  PROVE  a * b \in Nat /\ a * b >= c * b
<1> DEFINE e == a - c
<1>1. e \in Nat /\ a = c + e
  OBVIOUS
<1> HIDE DEF e
<1>2. a * b = c * b + e * b /\ e * b \in Nat /\ c * b \in Nat
  BY <1>1
<1>3. QED
  BY <1>1, <1>2

\* Truncated division: what is left has the dividend's sign and is less than the divisor.
LEMMA QuotIs ==
  ASSUME NEW l \in Int, NEW r \in Int, r # 0
  PROVE  LET m == l - Quot(l, r) * r IN
         /\ Quot(l, r) \in Int /\ m \in Int
         /\ Quot(l, r) \in (-Abs(l))..Abs(l)
         /\ l >= 0 => m \in 0..(Abs(r) - 1)
         /\ l < 0 => m \in (-(Abs(r) - 1))..0
         /\ Abs(r) >= 2 => 2 * Quot(l, r) <= Abs(l)
<1> DEFINE d == Abs(l) \div Abs(r)  e == Abs(l) % Abs(r)
<1>1. Abs(l) \in Nat /\ Abs(r) \in Nat \ {0}
  BY DEF Abs
<1>2. d \in Nat /\ e \in 0..(Abs(r) - 1) /\ Abs(l) = Abs(r) * d + e
  <2>1. Abs(l) \in Int
    BY <1>1
  <2>2. QED
    BY Zenon, <1>1, <2>1, DivIs
<1>3. d <= Abs(l) /\ (Abs(r) >= 2 => 2 * d <= Abs(l))
  <2> HIDE DEF d, e
  <2>1. Abs(r) * d >= 1 * d /\ (Abs(r) >= 2 => Abs(r) * d >= 2 * d)
    BY <1>1, <1>2, ProductAtLeast
  <2>2. QED
    BY <1>1, <1>2, <2>1
<1>4. Quot(l, r) = IF (l < 0) = (r < 0) THEN d ELSE -d
  BY DEF Quot
<1> HIDE DEF d, e
<1>5. l - Quot(l, r) * r = IF l < 0 THEN -e ELSE e
  <2>1. CASE l < 0 /\ r < 0
    BY <1>2, <1>4, <2>1 DEF Abs
  <2>2. CASE l < 0 /\ r > 0
    BY <1>2, <1>4, <2>2 DEF Abs
  <2>3. CASE l >= 0 /\ r < 0
    BY <1>2, <1>4, <2>3 DEF Abs
  <2>4. CASE l >= 0 /\ r > 0
    BY <1>2, <1>4, <2>4 DEF Abs
  <2>5. QED
    BY <2>1, <2>2, <2>3, <2>4
<1> DEFINE q == Quot(l, r)  m == l - q * r
<1>6. m = (IF l < 0 THEN -e ELSE e) /\ q = IF (l < 0) = (r < 0) THEN d ELSE -d
  BY <1>4, <1>5
<1> HIDE DEF q, m
<1>7. /\ q \in Int /\ m \in Int /\ q \in (-Abs(l))..Abs(l)
      /\ l >= 0 => m \in 0..(Abs(r) - 1)
      /\ l < 0 => m \in (-(Abs(r) - 1))..0
      /\ Abs(r) >= 2 => 2 * q <= Abs(l)
  BY <1>1, <1>2, <1>3, <1>6
<1>8. QED
  BY <1>7 DEF q, m

\* What a call of the operation is.
LEMMA CallIs ==
  ASSUME call \in Operations
  PROVE  /\ call[1] \in {"+", "-", "*", "/", "%", "cmp"} => call[2] \in Int64 /\ call[3] \in Int64
         /\ call[1] \in {"neg", "abs"} => call[2] \in Int64
         /\ call[1] = "index" => call[2] \in Int64 \cap Nat /\ call[3] \in Int64
         /\ call[1] = "slice" => call[2] \in Int64 \cap Nat /\ call[3] \in Int64 /\ call[4] \in Int64
         /\ call[1] = "range" => call[2] \in Int64 /\ call[3] \in Int64 /\ call[4] \in Int64
         /\ call[1] = "bytes" => call[2] \in Bytes /\ call[3] \in Bytes /\ call[4] \in Int64
         /\ call[1] \in {"+", "-", "*", "/", "%", "cmp", "neg", "abs", "index", "slice", "range", "bytes"}
BY DEF Operations

\* Quotient and remainder of the operators make up the dividend.
LEMMA DivisionHolds ==
  ASSUME NEW l \in Int64, NEW r \in Int64, r # 0
  PROVE  LET q == IntArith("/", l, r)[2]
             m == IntArith("%", l, r)[2]
         IN Wrap(q * r + m) = l /\ Abs(m) < Abs(r) /\ m * l >= 0
<1> DEFINE q == Quot(l, r)  m == l - q * r
<1>0. l \in Int /\ r \in Int /\ Half \in Nat \ {0}
      /\ l \in (-Half)..(Half - 1) /\ r \in (-Half)..(Half - 1)
  BY NumbersAssumption DEF Int64
<1>1. /\ q \in Int /\ m \in Int /\ q \in (-Abs(l))..Abs(l)
      /\ l >= 0 => m \in 0..(Abs(r) - 1)
      /\ l < 0 => m \in (-(Abs(r) - 1))..0
      /\ Abs(r) >= 2 => 2 * q <= Abs(l)
  BY <1>0, QuotIs
<1>2. IntArith("/", l, r)[2] = Wrap(q) /\ IntArith("%", l, r)[2] = Wrap(m)
  BY DEF IntArith, Value
<1>3. l = q * r + m /\ q * r \in Int
  BY <1>0, <1>1
<1>a. q < Half \/ (q = Half /\ l = -Half /\ r = -1)
  <2>1. Abs(l) <= Half /\ (Abs(l) = Half <=> l = -Half) /\ Abs(l) \in Nat /\ Abs(r) \in Nat /\ Abs(r) >= 1
    BY <1>0 DEF Abs
  <2>2. CASE Abs(r) >= 2
    <3> HIDE DEF q, m
    <3>1. QED
      BY <1>0, <1>1, <2>1, <2>2
  <2>3. CASE Abs(r) = 1
    <3>1. r = 1 \/ r = -1
      BY <2>3, <1>0 DEF Abs
    <3>2. r = 1 => q = l
      <4>1. Abs(1) = 1 /\ (l < 0 => Abs(l) = -l) /\ (l >= 0 => Abs(l) = l)
        BY <1>0 DEF Abs
      <4>2. QED
        BY <1>0, <4>1, <2>1 DEF Quot
    <3>3. q < Half \/ (q = Half /\ l = -Half)
      <4> HIDE DEF q, m
      <4>1. QED
        BY <1>0, <1>1, <2>1
    <3> HIDE DEF q, m
    <3>4. QED
      BY <1>0, <3>1, <3>2, <3>3
  <2>4. QED
    BY <2>1, <2>2, <2>3
<1> HIDE DEF q, m
<1>4. Abs(m) < Abs(r) /\ m \in Int64
  BY <1>0, <1>1 DEF Abs, Int64
<1>5. Wrap(m) = m
  BY <1>4, <1>1, WrapIs
<1>6. m * l >= 0
  <2>1. CASE l >= 0 /\ m >= 0
    BY <2>1, <1>0, <1>1
  <2>2. CASE l <= 0 /\ m <= 0
    <3>1. m * l = (-m) * (-l) /\ (-m) \in Nat /\ (-l) \in Nat
      BY <2>2, <1>0, <1>1
    <3>2. QED
      BY <3>1
  <2>3. QED
    BY <1>0, <1>1, <2>1, <2>2
<1>7. Wrap(Wrap(q) * r + m) = l
  <2>1. CASE q < Half
    <3>1. q \in Int64
      <4>1. Abs(l) <= Half
        BY <1>0 DEF Abs
      <4>2. QED
        BY <1>0, <1>1, <2>1, <4>1 DEF Int64, Abs
    <3>2. Wrap(q) = q
      BY <3>1, <1>1, WrapIs
    <3>3. QED
      BY <3>2, <1>0, <1>3, WrapIs
  <2>2. CASE q = Half /\ l = -Half /\ r = -1
    <3>1. Wrap(q) = -Half
      BY <2>2, <1>0, WrapOver
    <3>2. m = 0
      BY <2>2, <1>0, <1>1, <1>3
    <3>3. Wrap(q) * r + m = Half
      BY <3>1, <3>2, <2>2, <1>0
    <3>4. QED
      BY <3>3, <2>2, <1>0, WrapOver
  <2>3. QED
    BY <1>a, <2>1, <2>2
<1>8. QED
  BY <1>2, <1>4, <1>5, <1>6, <1>7

\* Small integers are floats, and no float is out of the range searched for the nearest.
LEMMA FloatsAre ==
  /\ Floats \in SUBSET Nat /\ 0 \in Floats
  /\ \A a \in 0..Half : a <= Mantissa => a \in Floats
<1>1. Half \in Nat /\ Mantissa \in Nat
  BY NumbersAssumption
<1>2. \A f \in Floats : f \in 0..(2 * Half)
  BY DEF Floats
<1>3. \A f \in 0..(2 * Half) : f <= Mantissa => f \in Floats
  BY DEF Floats
<1>4. QED
  BY <1>1, <1>2, <1>3

\* There is a nearest float.
LEMMA NearestExists ==
  ASSUME NEW a \in 0..Half
  PROVE  \E f : f \in NearestFloats(a)
<1> DEFINE distances == {Abs(a - f) : f \in Floats}
<1>0. a \in Nat
  BY NumbersAssumption
<1>1. distances \in SUBSET Nat /\ distances # {}
  <2>1. \A f \in Floats : Abs(a - f) \in Nat
    BY <1>0, FloatsAre DEF Abs
  <2>2. QED
    BY <2>1, FloatsAre
<1>2. PICK d \in distances : \A e \in distances : d <= e
  <2> HIDE DEF distances
  <2>1. QED
    BY <1>1, LeastElement
<1>3. PICK f \in Floats : d = Abs(a - f)
  BY <1>2
<1>4. \A g \in Floats : Abs(a - f) <= Abs(a - g)
  BY <1>2, <1>3
<1>5. QED
  BY <1>3, <1>4 DEF NearestFloats

\* Conversion gives a nearest float, even if no neighbour were even.
LEMMA MagnitudeIs ==
  ASSUME NEW a \in 0..Half
  PROVE  Magnitude[a] \in NearestFloats(a)
<1> DEFINE near == NearestFloats(a)
           Fit(f) == \A g \in near : Even(g, near) => Even(f, near)
<1>1. \E f \in near : Fit(f)
  <2>1. CASE \E f \in near : Even(f, near)
    BY <2>1
  <2>2. CASE ~ \E f \in near : Even(f, near)
    BY <2>2, NearestExists
  <2>3. QED
    BY <2>1, <2>2
<1>2. Magnitude[a] = CHOOSE f \in near : Fit(f)
  BY DEF Magnitude
<1> HIDE DEF near, Fit
<1>3. Magnitude[a] \in near
  BY <1>1, <1>2
<1>4. QED
  BY <1>3 DEF near

\* It keeps the order of integers that are not negative, whichever way the halves go: if a
\* smaller one went above a greater one, both would lie half way, and be the same.
LEMMA MagnitudeOrder ==
  ASSUME NEW a \in 0..Half, NEW b \in 0..Half, a <= b
  PROVE  Magnitude[a] \in Nat /\ Magnitude[a] <= Magnitude[b]
<1> DEFINE f == Magnitude[a]  g == Magnitude[b]
<1>0. a \in Nat /\ b \in Nat
  BY NumbersAssumption
<1>1. f \in Floats /\ g \in Floats
  BY MagnitudeIs DEF NearestFloats
<1>2. Abs(a - f) <= Abs(a - g) /\ Abs(b - g) <= Abs(b - f)
  BY <1>1, MagnitudeIs DEF NearestFloats
<1>3. f \in Nat /\ g \in Nat
  BY <1>1, FloatsAre
<1>4. a = b => f = g
  OBVIOUS
<1> HIDE DEF f, g
<1>5. f <= g
  BY <1>0, <1>2, <1>3, <1>4 DEF Abs
<1>6. QED
  BY <1>3, <1>5 DEF f, g

\* It is exact up to the mantissa.
LEMMA MagnitudeExact ==
  ASSUME NEW a \in 0..Half, a <= Mantissa
  PROVE  Magnitude[a] = a
<1> DEFINE f == Magnitude[a]
<1>0. a \in Nat /\ a \in Floats
  BY NumbersAssumption, FloatsAre
<1>1. f \in Floats /\ Abs(a - f) <= Abs(a - a)
  BY <1>0, MagnitudeIs DEF NearestFloats
<1>2. f \in Nat
  BY <1>1, FloatsAre
<1> HIDE DEF f
<1>3. f = a
  BY <1>0, <1>1, <1>2 DEF Abs
<1>4. QED
  BY <1>3 DEF f

\* Both sides of zero are treated alike.
LEMMA FloatIs ==
  ASSUME NEW n \in Int64
  PROVE  Float(n) \in Int /\ (Abs(n) <= Mantissa => Float(n) = n)
<1>0. n \in Int /\ (n < 0 => -n \in 0..Half) /\ (n >= 0 => n \in 0..Half)
  BY NumbersAssumption DEF Int64
<1>1. CASE n < 0
  <2>1. Magnitude[-n] \in Nat /\ (-n <= Mantissa => Magnitude[-n] = -n)
    BY <1>0, <1>1, MagnitudeOrder, MagnitudeExact
  <2>2. QED
    BY <1>0, <1>1, <2>1 DEF Float, Abs
<1>2. CASE n >= 0
  <2>1. Magnitude[n] \in Nat /\ (n <= Mantissa => Magnitude[n] = n)
    BY <1>0, <1>2, MagnitudeOrder, MagnitudeExact
  <2>2. QED
    BY <1>0, <1>2, <2>1 DEF Float, Abs
<1>3. QED
  BY <1>0, <1>1, <1>2

\* It keeps the order of all integers.
LEMMA FloatOrder ==
  ASSUME NEW l \in Int64, NEW r \in Int64, l <= r
  PROVE  Float(l) <= Float(r)
<1>0. /\ l \in Int /\ r \in Int
      /\ (l < 0 => -l \in 0..Half) /\ (l >= 0 => l \in 0..Half)
      /\ (r < 0 => -r \in 0..Half) /\ (r >= 0 => r \in 0..Half)
  BY NumbersAssumption DEF Int64
<1>1. CASE l >= 0
  <2>1. r >= 0 /\ Magnitude[l] <= Magnitude[r]
    BY <1>0, <1>1, MagnitudeOrder
  <2>2. QED
    BY <1>0, <1>1, <2>1 DEF Float
<1>2. CASE r < 0
  <2>1. l < 0 /\ -r <= -l
    BY <1>0, <1>2
  <2>2. Magnitude[-r] <= Magnitude[-l] /\ Magnitude[-r] \in Nat /\ Magnitude[-l] \in Nat
    BY <1>0, <1>2, <2>1, MagnitudeOrder
  <2>3. QED
    BY <1>0, <1>2, <2>1, <2>2 DEF Float
<1>3. CASE l < 0 /\ r >= 0
  <2>1. Magnitude[-l] \in Nat /\ Magnitude[r] \in Nat
    BY <1>0, <1>3, MagnitudeOrder
  <2>2. QED
    BY <1>0, <1>3, <2>1 DEF Float
<1>4. QED
  BY <1>0, <1>1, <1>2, <1>3

\* Comparing through floats keeps to the order of the integers.
LEMMA CompareHolds ==
  ASSUME NEW l \in Int64, NEW r \in Int64
  PROVE  /\ Compare(l, r) \in -1..1
         /\ Compare(l, r) = -Compare(r, l)
         /\ Compare(l, r) = -1 => l < r
         /\ Compare(l, r) = 0 /\ l # r => Abs(l) > Mantissa \/ Abs(r) > Mantissa
         /\ \A t \in Int64 : Compare(l, r) <= 0 /\ Compare(r, t) <= 0 => Compare(l, t) <= 0
<1>0. l \in Int /\ r \in Int /\ Mantissa \in Nat /\ Abs(l) \in Nat /\ Abs(r) \in Nat
      /\ \A t \in Int64 : t \in Int
  BY NumbersAssumption DEF Int64, Abs
<1>1. \A t \in Int64 : Float(t) \in Int
  BY FloatIs
<1>2. \A s, t \in Int64 : Compare(s, t) \in -1..1 /\ (Compare(s, t) <= 0 <=> Float(s) <= Float(t))
                       /\ Compare(s, t) = -Compare(t, s)
  BY <1>1 DEF Compare
<1>3. Compare(l, r) = -1 => l < r
  <2>1. Compare(l, r) = -1 => Float(l) < Float(r)
    BY DEF Compare
  <2>2. l >= r => Float(r) <= Float(l)
    BY <1>0, FloatOrder
  <2>3. QED
    BY <1>0, <1>1, <2>1, <2>2
<1>4. Compare(l, r) = 0 /\ l # r => Abs(l) > Mantissa \/ Abs(r) > Mantissa
  <2>1. Compare(l, r) = 0 => Float(l) = Float(r)
    BY <1>0, <1>1 DEF Compare
  <2>2. QED
    BY <1>0, <2>1, FloatIs
<1>5. \A t \in Int64 : Compare(l, r) <= 0 /\ Compare(r, t) <= 0 => Compare(l, t) <= 0
  BY <1>0, <1>1, <1>2
<1>6. QED
  BY <1>0, <1>2, <1>3, <1>4, <1>5

\* A slice lies within the array and has as many elements as asked for and there are,
\* unless start and count overflow.
LEMMA SliceHolds ==
  ASSUME NEW n \in Int64 \cap Nat, NEW idx \in Int64, NEW count \in Int64
  PROVE  LET start == IF idx >= 0 THEN idx ELSE IF idx + n > 0 THEN idx + n ELSE 0
             s == SliceArray(n, idx, count)
         IN \/ count < 0 \/ start + count >= Half
            \/ /\ s[1] = "value"
               /\ {p \in 1..n : s[2] < p /\ p <= s[3]} = {p \in 1..n : start < p /\ p <= start + count}
<1> DEFINE start == IF idx >= 0 THEN idx ELSE IF idx + n > 0 THEN idx + n ELSE 0
           from == IF idx < 0 THEN Wrap(idx + n) ELSE idx
           first == IF from < 0 THEN 0 ELSE from
           sum == Wrap(first + count)
           end == IF sum > n THEN n ELSE sum
           cut == IF first > n THEN n ELSE first
<1>0. n \in Nat /\ idx \in Int /\ count \in Int /\ Half \in Nat \ {0}
      /\ n < Half /\ idx \in (-Half)..(Half - 1) /\ count \in (-Half)..(Half - 1)
  BY NumbersAssumption DEF Int64
<1>1. SliceArray(n, idx, count) = IF end < cut THEN <<"panic">> ELSE <<"value", cut, end>>
  BY Zenon DEF SliceArray
<1>2. first = start /\ start \in Nat /\ start < Half
  <2>1. idx < 0 => Wrap(idx + n) = idx + n
    <3>1. idx < 0 => idx + n \in Int64
      BY <1>0 DEF Int64
    <3>2. QED
      BY <1>0, <3>1, WrapIs
  <2>2. QED
    BY <1>0, <2>1
<1>3. ASSUME count >= 0, start + count < Half
      PROVE  sum = start + count
  <2>1. start + count \in Int64 /\ start + count \in Int
    BY <1>0, <1>2, <1>3 DEF Int64
  <2>2. QED
    BY <1>2, <2>1, WrapIs
<1>4. ASSUME count >= 0, start + count < Half
      PROVE  /\ SliceArray(n, idx, count) = <<"value", cut, end>>
             /\ \A p \in 1..n : cut < p /\ p <= end <=> start < p /\ p <= start + count
  <2> HIDE DEF start, sum, first
  <2>1. sum = start + count
    BY <1>3, <1>4
  <2>2. cut <= end /\ cut \in Int /\ end \in Int
    BY <1>0, <1>2, <1>4, <2>1
  <2>3. \A p \in 1..n : cut < p /\ p <= end <=> start < p /\ p <= start + count
    BY <1>0, <1>2, <1>4, <2>1
  <2>4. QED
    BY <1>1, <2>2, <2>3
<1> HIDE DEF cut, end
<1>5. QED
  BY <1>0, <1>2, <1>4

\* Multiples have no remainder.
LEMMA MultipleLeavesNone ==
  ASSUME NEW b \in Nat \ {0}, NEW q \in Int
  PROVE  (b * q) % b = 0
<1> DEFINE a == b * q  d == a \div b  e == a % b
<1>1. a \in Int
  OBVIOUS
<1>2. d \in Int /\ e \in 0..(b - 1) /\ a = b * d + e
  BY <1>1, DivIs
<1>3. e = b * (q - d)
  <2> HIDE DEF d, e
  <2>1. QED
    BY <1>2
<1> HIDE DEF a, d, e
<1>4. CASE q > d
  <2>1. (q - d) * b >= 1 * b /\ (q - d) * b = b * (q - d)
    <3>1. q - d \in Nat /\ q - d >= 1
      BY <1>2, <1>4
    <3>2. (q - d) * b >= 1 * b
      BY <3>1, ProductAtLeast
    <3>3. QED
      BY <3>1, <3>2
  <2>2. QED
    BY <1>2, <1>3, <2>1
<1>5. CASE q < d
  <2>1. (d - q) * b >= 1 * b /\ b * (q - d) = -((d - q) * b)
    <3>1. d - q \in Nat /\ d - q >= 1
      BY <1>2, <1>5
    <3>2. (d - q) * b >= 1 * b
      BY <3>1, ProductAtLeast
    <3>3. b * (q - d) = -((d - q) * b)
      BY <1>2
    <3>4. QED
      BY <3>2, <3>3
  <2>2. QED
    BY <1>2, <1>3, <2>1
<1>6. CASE q = d
  BY <1>2, <1>3, <1>6 DEF a, e
<1>7. QED
  BY <1>2, <1>4, <1>5, <1>6

\* n is of the progression from lo, and not beyond hi as len steps are.
Passed(n, lo, hi, step, len) ==
  /\ (n - lo) % Abs(step) = 0
  /\ step > 0 => lo <= n /\ n <= hi /\ lo + len * step > hi
  /\ step < 0 => hi <= n /\ n <= lo /\ lo + len * step < hi

\* n is one of the first len numbers of it.
Among(n, lo, step, len) == \E k \in 1..len : n = lo + (k - 1) * step

\* Steps that go past a bound have gone through everything before it.
LEMMA ProgressionFull ==
  ASSUME NEW lo \in Int, NEW hi \in Int, NEW step \in Int, step # 0, NEW n \in Int, NEW len \in Nat,
         Passed(n, lo, hi, step, len)
  PROVE  Among(n, lo, step, len)
<1> DEFINE b == Abs(step)  q == (n - lo) \div b  j == IF step > 0 THEN q ELSE -q
<1>1. b \in Nat \ {0} /\ n - lo \in Int /\ b = (IF step > 0 THEN step ELSE -step)
  BY DEF Abs
<1>2. q \in Int /\ n - lo = b * q
  <2>1. q \in Int /\ n - lo = b * q + ((n - lo) % b)
    <3> HIDE DEF b
    <3>1. QED
      BY <1>1, DivIs
  <2> HIDE DEF q
  <2>2. (n - lo) % b = 0
    BY DEF Passed
  <2>3. b * q \in Int
    BY <1>1, <2>1
  <2>4. QED
    BY <2>1, <2>2, <2>3
<1> HIDE DEF q
<1>p. /\ step > 0 => lo <= n /\ n <= hi /\ lo + len * step > hi
      /\ step < 0 => hi <= n /\ n <= lo /\ lo + len * step < hi
  BY DEF Passed
<1>3. j \in Int /\ n = lo + j * step
  BY <1>1, <1>2
<1> HIDE DEF j
<1>4. j >= 0
  <2>1. ASSUME j < 0 PROVE FALSE
    <3>1. -j \in Nat /\ -j >= 1
      BY <1>3, <2>1
    <3>2. (-j) * b >= 1 * b
      BY <3>1, <1>1, ProductAtLeast
    <3>3. (-j) * b = (IF step > 0 THEN -(j * step) ELSE j * step)
      BY <1>1, <1>3
    <3>4. j * step \in Int
      BY <1>3
    <3> HIDE DEF b
    <3>5. QED
      BY <1>1, <1>p, <1>3, <3>2, <3>3, <3>4
  <2>2. QED
    BY <1>3, <2>1
<1>5. j < len
  <2>1. ASSUME j >= len PROVE FALSE
    <3>1. j \in Nat
      BY <1>3, <1>4
    <3>2. j * b >= len * b
      BY <3>1, <2>1, <1>1, ProductAtLeast
    <3>3. j * b = (IF step > 0 THEN j * step ELSE -(j * step)) /\ len * b = (IF step > 0 THEN len * step ELSE -(len * step))
      BY <1>1, <1>3
    <3>4. j * step \in Int /\ len * step \in Int
      BY <1>3
    <3> HIDE DEF b
    <3>5. QED
      BY <1>1, <1>p, <1>3, <3>2, <3>3, <3>4
  <2>2. QED
    BY <1>3, <2>1
<1>6. j + 1 \in 1..len /\ n = lo + ((j + 1) - 1) * step
  BY <1>3, <1>4, <1>5
<1>7. QED
  BY <1>6 DEF Among

\* And everything they went through is of the progression and not before its start.
LEMMA ProgressionOnly ==
  ASSUME NEW lo \in Int, NEW step \in Int, step # 0, NEW k \in Nat, NEW n, n = lo + k * step
  PROVE  (n - lo) % Abs(step) = 0 /\ (IF step > 0 THEN lo <= n ELSE n <= lo)
<1> DEFINE b == Abs(step)
<1>1. b \in Nat \ {0} /\ b = (IF step > 0 THEN step ELSE -step) /\ k * step \in Int /\ k * b \in Nat
  BY DEF Abs
<1>2. n - lo = b * (IF step > 0 THEN k ELSE -k)
  BY <1>1
<1>3. (n - lo) % b = 0
  <2> HIDE DEF b
  <2>1. (IF step > 0 THEN k ELSE -k) \in Int
    OBVIOUS
  <2>2. QED
    BY <1>1, <1>2, <2>1, MultipleLeavesNone
<1>4. k * b = (IF step > 0 THEN k * step ELSE -(k * step))
  BY <1>1
<1> HIDE DEF b
<1>5. QED
  BY <1>1, <1>3, <1>4 DEF b

-----------------------------------------------------------------------------
\* Whether the loop of a range of integers goes on at n.
Going(n) == IF call[4] > 0 THEN n <= call[3] ELSE n >= call[3]

\* A range that cannot wrap is somewhere in its progression.
Progressing ==
  call[1] = "range" /\ call[3] + call[4] \in Int64 =>
    /\ item = call[2] + Len(out) * call[4]
    /\ \A k \in 1..Len(out) : out[k] = call[2] + (k - 1) * call[4] /\ Going(out[k])
    /\ result = <<"value">> => call[4] # 0 /\ ~Going(item)

CallInv ==
  /\ call \in Operations
  /\ call[1] = "bytes" => item \in Bytes
  /\ call[1] # "bytes" => item \in Int64

NumInv == CallInv /\ Progressing /\ NumbersExact

\* Distinct results: a value of a range, a value, an error and none.
LEMMA Results == << >> # <<"value">> /\ Error # <<"value">> /\ \A n : Value(n) # <<"value">> /\ Value(n)[2] = n
BY DEF Error, Value

\* No value of a loop is there at first, and the first one is its lower bound.
LEMMA NumStart == NumbersInit => NumInv
<1> SUFFICES ASSUME NumbersInit PROVE NumInv
  OBVIOUS
<1>1. call \in Operations /\ out = << >> /\ result = << >> /\ Half \in Nat \ {0}
  BY NumbersAssumption DEF NumbersInit
<1>2. item = (IF call[1] \in {"range", "bytes"} THEN call[2] ELSE 0)
  BY DEF NumbersInit
<1>3. CallInv /\ item \in Int64 \cup Bytes
  BY <1>1, <1>2, CallIs DEF CallInv, Int64
<1>4. Progressing
  <2>1. call[1] = "range" => call[2] \in Int /\ call[4] \in Int
    BY <1>1, CallIs DEF Int64
  <2>2. QED
    BY <1>1, <1>2, <2>1, Results DEF Progressing
<1>5. NumbersExact
  BY <1>1, <1>3, Results
     DEF NumbersExact, NumTypeOK, DivisionIdentity, AbsAtTheEdge, CompareOrders, SliceTakes, RangeProgression
<1>6. QED
  BY <1>3, <1>4, <1>5 DEF NumInv

\* What an operation that ends in one step answers.
LEMMA EvaluateExact == NumInv /\ Evaluate => NumInv'
<1> SUFFICES ASSUME NumInv, Evaluate PROVE NumInv'
  OBVIOUS
<1>0. /\ call' = call /\ item' = item /\ out' = out /\ call[1] \notin {"range", "bytes"}
      /\ call \in Operations /\ CallInv /\ item \in Int64 \cup Bytes /\ out \in Seq(Int64 \cup Bytes)
  BY DEF NumInv, NumbersExact, NumTypeOK, CallInv, Evaluate
<1>1. result' = CASE call[1] = "neg" -> Negate(call[2])
                 [] call[1] = "abs" -> AbsValue(call[2])
                 [] call[1] = "cmp" -> Value(Compare(call[2], call[3]))
                 [] call[1] = "index" -> Value(Index(call[2], call[3]))
                 [] call[1] = "slice" -> SliceArray(call[2], call[3], call[4])
                 [] OTHER -> IntArith(call[1], call[2], call[3])
  BY DEF Evaluate
<1>2. CallInv' /\ Progressing'
  BY <1>0 DEF CallInv, Progressing
<1>3. NumTypeOK'
  <2>1. ASSUME call[1] \in {"+", "-", "*", "/", "%"} PROVE result' = Error \/ result'[2] \in Int64
    <3>1. result' = IntArith(call[1], call[2], call[3])
      BY <1>1, <2>1
    <3>2. call[2] \in Int /\ call[3] \in Int
      BY <1>0, <2>1, CallIs DEF Int64
    <3>3. CASE call[1] \in {"+", "-", "*"}
      <4>1. /\ call[2] + call[3] \in Int /\ call[2] - call[3] \in Int /\ call[2] * call[3] \in Int
        BY <3>2
      <4>2. QED
        BY <3>1, <3>3, <4>1, WrapIs, Results DEF IntArith
    <3>4. CASE call[1] \in {"/", "%"} /\ call[3] = 0
      BY <3>1, <3>4 DEF IntArith
    <3>5. CASE call[1] \in {"/", "%"} /\ call[3] # 0
      <4>1. Quot(call[2], call[3]) \in Int /\ call[2] - Quot(call[2], call[3]) * call[3] \in Int
        BY <3>2, <3>5, QuotIs
      <4>2. QED
        BY <3>1, <3>5, <4>1, WrapIs, Results DEF IntArith
    <3>6. QED
      BY <2>1, <3>3, <3>4, <3>5
  <2>2. ASSUME call[1] = "neg" PROVE result'[2] \in Int64
    <3>1. result' = Negate(call[2]) /\ -call[2] \in Int
      BY <1>0, <1>1, <2>2, CallIs DEF Int64
    <3>2. QED
      BY <3>1, WrapIs, Results DEF Negate
  <2>3. ASSUME call[1] = "abs" PROVE result'[2] \in Int64
    <3>1. result' = AbsValue(call[2]) /\ -call[2] \in Int /\ call[2] \in Int64
      BY <1>0, <1>1, <2>3, CallIs DEF Int64
    <3>2. QED
      BY <3>1, WrapIs, Results DEF AbsValue
  <2>4. QED
    BY <1>0, <2>1, <2>2, <2>3 DEF NumTypeOK
<1>4. DivisionIdentity'
  <2>1. ASSUME call[1] = "/", result' # Error
        PROVE  LET l == call[2]  r == call[3]  m == IntArith("%", l, r)[2] IN
               Wrap(result'[2] * r + m) = l /\ Abs(m) < Abs(r) /\ m * l >= 0
    <3>1. result' = IntArith("/", call[2], call[3])
      BY <1>1, <2>1
    <3>2. call[3] # 0
      BY <2>1, <3>1 DEF IntArith
    <3>3. call[2] \in Int64 /\ call[3] \in Int64
      BY <1>0, <2>1, CallIs
    <3>4. QED
      BY <3>1, <3>2, <3>3, DivisionHolds
  <2>2. QED
    BY <1>0, <2>1 DEF DivisionIdentity
<1>5. AbsAtTheEdge'
  <2>1. ASSUME call[1] = "abs"
        PROVE  (result'[2] >= 0 /\ result'[2] \in {call[2], -call[2]}) \/ (call[2] = -Half /\ result'[2] = call[2])
    <3>1. result'[2] = IF call[2] < 0 THEN Wrap(-call[2]) ELSE call[2]
      BY <1>1, <2>1, Results DEF AbsValue
    <3>2. call[2] \in (-Half)..(Half - 1) /\ Half \in Nat \ {0} /\ -call[2] \in Int
      BY NumbersAssumption, <1>0, <2>1, CallIs DEF Int64
    <3>3. CASE call[2] = -Half
      BY <3>1, <3>2, <3>3, WrapOver
    <3>4. CASE call[2] # -Half
      <4>1. -call[2] \in Int64
        BY <3>2, <3>4 DEF Int64
      <4>2. QED
        BY <3>1, <3>2, <4>1, WrapIs
    <3>5. QED
      BY <3>3, <3>4
  <2>2. QED
    BY <1>0, <2>1 DEF AbsAtTheEdge
<1>6. CompareOrders'
  <2>1. ASSUME call[1] = "cmp"
        PROVE  /\ result'[2] = Compare(call[2], call[3])
               /\ call[2] \in Int64 /\ call[3] \in Int64
    BY <1>0, <1>1, <2>1, CallIs, Results
  <2>2. QED
    BY <1>0, <2>1, CompareHolds DEF CompareOrders
<1>7. SliceTakes'
  <2>1. ASSUME call[1] = "slice"
        PROVE  /\ result' = SliceArray(call[2], call[3], call[4])
               /\ call[2] \in Int64 \cap Nat /\ call[3] \in Int64 /\ call[4] \in Int64
    BY <1>0, <1>1, <2>1, CallIs
  <2>2. QED
    BY <1>0, <2>1, SliceHolds DEF SliceTakes
<1>8. RangeProgression'
  BY <1>0 DEF RangeProgression
<1>9. QED
  BY <1>2, <1>3, <1>4, <1>5, <1>6, <1>7, <1>8 DEF NumInv, NumbersExact

\* Where a range stops that has gone through its progression, it has all of it.
LEMMA ProgressionDone ==
  ASSUME CallInv, out \in Seq(Int64 \cup Bytes), Progressing,
         call[1] = "range", call[3] + call[4] \in Int64, call[4] # 0, ~Going(item)
  PROVE  LET lo == call[2]  hi == call[3]  step == call[4] IN
         /\ {out[k] : k \in 1..Len(out)} =
              {n \in Int64 : /\ (n - lo) % Abs(step) = 0
                             /\ IF step > 0 THEN lo <= n /\ n <= hi ELSE hi <= n /\ n <= lo}
         /\ \A k \in 1..(Len(out) - 1) : out[k + 1] = out[k] + step
<1> DEFINE lo == call[2]  hi == call[3]  step == call[4]  len == Len(out)
           within(n) == IF step > 0 THEN lo <= n /\ n <= hi ELSE hi <= n /\ n <= lo
<1>1. lo \in Int64 /\ hi \in Int64 /\ step \in Int64 /\ lo \in Int /\ hi \in Int /\ step \in Int
  BY CallIs DEF CallInv, Int64
<1>2. /\ item = lo + len * step /\ len \in Nat /\ step # 0 /\ ~Going(item)
      /\ \A k \in 1..len : out[k] = lo + (k - 1) * step /\ Going(out[k])
  BY DEF Progressing
<1>3. \A n : Going(n) <=> IF step > 0 THEN n <= hi ELSE n >= hi
  BY DEF Going
<1>4. \A n \in Int : within(n) => n \in Int64
  BY NumbersAssumption, <1>1 DEF Int64
<1> HIDE DEF lo, hi, step, len
<1>5. ASSUME NEW k \in 1..len
      PROVE  out[k] \in Int64 /\ (out[k] - lo) % Abs(step) = 0 /\ within(out[k])
  <2>1. k - 1 \in Nat /\ out[k] = lo + (k - 1) * step /\ Going(out[k]) /\ (k - 1) * step \in Int
    BY <1>1, <1>2
  <2>2. (out[k] - lo) % Abs(step) = 0 /\ (IF step > 0 THEN lo <= out[k] ELSE out[k] <= lo)
    BY <1>1, <1>2, <2>1, ProgressionOnly
  <2>3. within(out[k]) /\ out[k] \in Int
    BY <1>1, <1>3, <2>1, <2>2
  <2> HIDE DEF within
  <2>4. out[k] \in Int64
    BY <1>4, <2>3
  <2>5. QED
    BY <2>2, <2>3, <2>4
<1>6. ASSUME NEW n \in Int64, (n - lo) % Abs(step) = 0, within(n)
      PROVE  \E k \in 1..len : n = out[k]
  <2>1. IF step > 0 THEN lo + len * step > hi ELSE lo + len * step < hi
    BY <1>1, <1>2, <1>3
  <2>2. n \in Int
    BY DEF Int64
  <2>3. /\ step > 0 => lo <= n /\ n <= hi /\ lo + len * step > hi
        /\ step < 0 => hi <= n /\ n <= lo /\ lo + len * step < hi
    BY <1>1, <1>6, <2>1
  <2> HIDE DEF within
  <2>4. PICK k \in 1..len : n = lo + (k - 1) * step
    <3>1. /\ lo \in Int /\ hi \in Int /\ step \in Int /\ step # 0 /\ n \in Int /\ len \in Nat
          /\ (n - lo) % Abs(step) = 0
      BY <1>1, <1>2, <1>6, <2>2
    <3>2. Passed(n, lo, hi, step, len)
      BY <3>1, <2>3 DEF Passed
    <3>3. Among(n, lo, step, len)
      BY <3>1, <3>2, ProgressionFull
    <3>4. QED
      BY <3>3 DEF Among
  <2>5. QED
    BY <1>2, <2>4
<1>7. \A k \in 1..(len - 1) : out[k + 1] = out[k] + step
  <2>1. ASSUME NEW k \in 1..(len - 1) PROVE out[k + 1] = out[k] + step
    <3>1. k \in 1..len /\ k + 1 \in 1..len /\ k \in Int
      BY <1>2
    <3>2. out[k] = lo + (k - 1) * step /\ out[k + 1] = lo + (k + 1 - 1) * step
      BY <1>2, <3>1
    <3>3. QED
      BY <1>1, <3>1, <3>2
  <2>2. QED
    BY <2>1
<1>8. {out[k] : k \in 1..len} = {n \in Int64 : (n - lo) % Abs(step) = 0 /\ within(n)}
  BY <1>5, <1>6
<1>9. QED
  BY <1>7, <1>8 DEF lo, hi, step, len

\* The parts of NumbersExact that are about operations which end in one step.
LEMMA RangeAlone ==
  ASSUME call[1] \in {"range", "bytes"}
  PROVE  DivisionIdentity /\ AbsAtTheEdge /\ CompareOrders /\ SliceTakes
BY DEF DivisionIdentity, AbsAtTheEdge, CompareOrders, SliceTakes

\* A round of the loop keeps to the progression.
LEMMA RangeExact == NumInv /\ call[4] # 0 /\ RangeStep => NumInv'
<1> SUFFICES ASSUME NumInv, call[4] # 0, RangeStep PROVE NumInv'
  OBVIOUS
<1>0. /\ call' = call /\ call[1] = "range" /\ result = << >>
      /\ call \in Operations /\ item \in Int64 /\ out \in Seq(Int64 \cup Bytes) /\ Progressing
  BY DEF NumInv, NumbersExact, NumTypeOK, CallInv, RangeStep
<1>1. call[2] \in Int64 /\ call[3] \in Int64 /\ call[4] \in Int64 /\ Half \in Nat \ {0}
  BY NumbersAssumption, <1>0, CallIs
<1>2. CASE Going(item)
  <2>1. out' = Append(out, item) /\ item' = Wrap(item + call[4]) /\ result' = result
    BY <1>2 DEF RangeStep, Going
  <2>2. item + call[4] \in Int
    BY <1>0, <1>1 DEF Int64
  <2>3. item' \in Int64 /\ (item + call[4] \in Int64 => item' = item + call[4])
    BY <2>1, <2>2, WrapIs
  <2>4. /\ out' \in Seq(Int64 \cup Bytes) /\ Len(out) \in Nat /\ Len(out') = Len(out) + 1
        /\ out'[Len(out) + 1] = item /\ \A k \in 1..Len(out) : out'[k] = out[k]
    BY <1>0, <2>1
  <2>5. Progressing'
    <3>1. SUFFICES ASSUME call[3] + call[4] \in Int64
                   PROVE  /\ item' = call[2] + Len(out') * call[4]
                          /\ \A k \in 1..Len(out') : out'[k] = call[2] + (k - 1) * call[4] /\ Going(out'[k])
      BY <1>0, <2>1, Results DEF Progressing, Going
    <3>2. /\ item = call[2] + Len(out) * call[4]
          /\ \A k \in 1..Len(out) : out[k] = call[2] + (k - 1) * call[4] /\ Going(out[k])
      BY <1>0, <3>1 DEF Progressing
    <3>3. item + call[4] \in Int64
      <4>1. /\ item \in Int /\ call[3] \in Int /\ call[4] \in Int /\ item >= -Half /\ item < Half
            /\ call[3] + call[4] >= -Half /\ call[3] + call[4] < Half
        BY SMTT(60), <1>0, <1>1, <3>1 DEF Int64
      <4>2. CASE call[4] > 0
        BY SMTT(60), <1>1, <1>2, <4>1, <4>2 DEF Going, Int64
      <4>3. CASE call[4] < 0
        BY SMTT(60), <1>1, <1>2, <4>1, <4>3 DEF Going, Int64
      <4>4. QED
        BY <1>0, <4>1, <4>2, <4>3
    <3>4. item' = call[2] + (Len(out) + 1) * call[4]
      <4>1. item' = item + call[4]
        BY <2>3, <3>3
      <4>2. Len(out) \in Int /\ call[2] \in Int /\ call[4] \in Int
        BY <1>1, <2>4 DEF Int64
      <4>3. \A n, a, c \in Int : a + (n + 1) * c = (a + n * c) + c
        OBVIOUS
      <4>4. call[2] + (Len(out) + 1) * call[4] = (call[2] + Len(out) * call[4]) + call[4]
        BY <4>2, <4>3
      <4>5. QED
        BY <3>2, <4>1, <4>4
    <3>5. ASSUME NEW k \in 1..Len(out') PROVE out'[k] = call[2] + (k - 1) * call[4] /\ Going(out'[k])
      <4>1. CASE k = Len(out) + 1
        BY <1>2, <2>4, <3>2, <4>1
      <4>2. CASE k \in 1..Len(out)
        BY <2>4, <3>2, <4>2
      <4>3. QED
        BY <2>4, <4>1, <4>2
    <3>6. QED
      BY <2>4, <3>4, <3>5
  <2>6. CallInv' /\ NumTypeOK' /\ RangeProgression'
    BY <1>0, <2>1, <2>3, <2>4, Results DEF CallInv, NumTypeOK, RangeProgression
  <2>7. QED
    BY <1>0, <2>5, <2>6, RangeAlone DEF NumInv, NumbersExact, DivisionIdentity, AbsAtTheEdge, CompareOrders, SliceTakes
<1>3. CASE ~Going(item)
  <2>1. out' = out /\ item' = item /\ result' = <<"value">>
    BY <1>3 DEF RangeStep, Going
  <2>2. Progressing'
    BY <1>0, <1>3, <2>1 DEF Progressing, Going
  <2>3. CallInv' /\ NumTypeOK'
    BY <1>0, <2>1 DEF CallInv, NumTypeOK
  <2>4. RangeProgression'
    <3>1. call[3] + call[4] \in Int64 => RangeProgression'
      <4>1. CallInv
        BY DEF NumInv
      <4>2. QED
        BY Zenon, <1>0, <1>3, <2>1, <4>1, ProgressionDone DEF RangeProgression
    <3>2. QED
      BY <1>0, <3>1 DEF RangeProgression
  <2>5. QED
    BY <1>0, <2>2, <2>3, <2>4 DEF NumInv, NumbersExact, DivisionIdentity, AbsAtTheEdge, CompareOrders, SliceTakes
<1>4. QED
  BY <1>2, <1>3

\* Strings of one byte, and a step of zero.
LEMMA BytesExact == NumInv /\ (RangeBytes \/ RangeZero) => NumInv'
<1> SUFFICES ASSUME NumInv, RangeBytes \/ RangeZero PROVE NumInv'
  OBVIOUS
<1>0. /\ call' = call /\ call[1] \in {"range", "bytes"} /\ call \in Operations /\ CallInv
      /\ out \in Seq(Int64 \cup Bytes) /\ Progressing /\ item \in Int64 \cup Bytes
  BY DEF NumInv, NumbersExact, NumTypeOK, CallInv, RangeBytes, RangeZero
<1>1. Byte \in Nat \ {0}
  BY NumbersAssumption
<1>2. CASE RangeZero
  <2>1. UNCHANGED <<call, item, out>> /\ result' = Error
    BY <1>2 DEF RangeZero
  <2>2. Progressing' /\ CallInv' /\ NumTypeOK' /\ RangeProgression'
    BY <1>0, <2>1, Results DEF Progressing, Going, CallInv, NumTypeOK, RangeProgression
  <2>3. QED
    BY <1>0, <2>2 DEF NumInv, NumbersExact, DivisionIdentity, AbsAtTheEdge, CompareOrders, SliceTakes
<1>3. CASE RangeBytes
  <2>1. call[1] = "bytes" /\ item \in Bytes /\ item \in Int /\ call[4] \in Int
    BY <1>0, <1>3, CallIs DEF RangeBytes, CallInv, Bytes, Int64
  <2>2. (item + (call[4] % Byte)) % Byte \in Bytes
    <3>1. call[4] % Byte \in Int
      BY <1>1, <2>1
    <3>2. item + (call[4] % Byte) \in Int
      BY <2>1, <3>1
    <3>3. QED
      BY <1>1, <3>2, DivIs DEF Bytes
  <2>3. item' \in Bytes /\ out' \in Seq(Int64 \cup Bytes)
    BY <1>0, <1>3, <2>1, <2>2 DEF RangeBytes
  <2>4. Progressing' /\ CallInv' /\ NumTypeOK' /\ RangeProgression'
    BY <1>0, <2>1, <2>3 DEF Progressing, CallInv, NumTypeOK, RangeProgression
  <2>5. QED
    BY <1>0, <2>4 DEF NumInv, NumbersExact, DivisionIdentity, AbsAtTheEdge, CompareOrders, SliceTakes
<1>4. QED
  BY <1>2, <1>3

\* Arithmetic is exact at whatever width: what the run Library shows for integers of 5 bits
\* holds of those of 64 (intArith, builtinAbs, compare, sliceArray, rangeValues).
THEOREM NumbersAlwaysExact ==
  NumbersSpec => []NumbersExact
<1>1. NumbersInit => NumInv
  BY NumStart
<1>2. NumInv /\ [NumbersNext]_numberVars => NumInv'
  <2> SUFFICES ASSUME NumInv, [NumbersNext]_numberVars PROVE NumInv'
    OBVIOUS
  <2>1. CASE NumbersNext
    BY <2>1, EvaluateExact, RangeExact, BytesExact DEF NumbersNext
  <2>2. CASE UNCHANGED numberVars
    BY <2>2 DEF numberVars, NumInv, CallInv, Progressing, Going, NumbersExact, NumTypeOK, DivisionIdentity,
           AbsAtTheEdge, CompareOrders, SliceTakes, RangeProgression
  <2>3. QED
    BY <2>1, <2>2
<1>3. NumInv => NumbersExact
  BY DEF NumInv
<1>4. QED
  BY <1>1, <1>2, <1>3, PTL DEF NumbersSpec

-----------------------------------------------------------------------------
(* The twister *)

\* The state when the first k words have been made anew, and the first of the old ones was b.
Partly(b, k) == [p \in Place |-> IF p < k THEN b + N + p ELSE b + p]

\* How far ahead the word stands that goes into word k.
Ahead(k) == IF k < N - M THEN M ELSE M - N

\* One word is made anew from the old one, the one after it and one that stands M further on,
\* or has been made anew already where that is beyond the end.
LEMMA AnewIs ==
  ASSUME NEW b \in Nat, NEW k \in Place
  PROVE  Anew(Partly(b, k), k, IF k = N - 1 THEN 0 ELSE k + 1, Ahead(k)) = Partly(b, k + 1)
<1> DEFINE s == Partly(b, k)  next == IF k = N - 1 THEN 0 ELSE k + 1
<1>0. N \in Nat /\ M \in 1..(N - 1) /\ k \in 0..(N - 1)
  BY RandomAssumption DEF Place
<1>1. next \in Place /\ k + Ahead(k) \in Place /\ k \in Place
  BY <1>0 DEF Ahead, Place
<1>2. s[k] = b + k
  BY <1>0, <1>1 DEF Partly
<1>3. s[next] = b + k + 1
  <2>1. s[next] = IF next < k THEN b + N + next ELSE b + next
    BY <1>1 DEF Partly
  <2>2. QED
    BY <1>0, <2>1
<1>4. s[k + Ahead(k)] = b + k + M
  <2>1. s[k + Ahead(k)] = IF k + Ahead(k) < k THEN b + N + (k + Ahead(k)) ELSE b + (k + Ahead(k))
    BY <1>1 DEF Partly
  <2>2. QED
    BY <2>1, <1>0 DEF Ahead
<1> HIDE DEF s, next
<1>5. Twist(s[k], s[next], s[k + Ahead(k)]) = b + N + k
  BY <1>0, <1>2, <1>3, <1>4 DEF Twist, Lost
<1>6. Anew(s, k, next, Ahead(k)) = [s EXCEPT ![k] = b + N + k]
  BY <1>5 DEF Anew
<1>7. [s EXCEPT ![k] = b + N + k] = Partly(b, k + 1)
  <2>1. s = [p \in Place |-> IF p < k THEN b + N + p ELSE b + p]
    BY DEF s, Partly
  <2>2. \A p \in Place : p < k + 1 <=> p < k \/ p = k
    BY <1>0 DEF Place
  <2>3. QED
    BY <1>1, <2>1, <2>2 DEF Partly
<1>8. QED
  BY <1>6, <1>7 DEF s, next

\* A loop over some of the words, all of which have the word M further on in the same direction.
LEMMA LoopIs ==
  ASSUME NEW b \in Nat, NEW from \in Place, NEW to \in Int, NEW ahead \in Int,
         to + 1 \in from..(N - 1), \A k \in from..to : Ahead(k) = ahead
  PROVE  Loop(Partly(b, from), from, to, ahead) = Partly(b, to + 1)
<1> DEFINE s == Partly(b, from)
           f[k \in from..(to + 1)] == IF k = from THEN s ELSE Anew(f[k - 1], k - 1, k, ahead)
           step(g) == [k \in from..(to + 1) |-> IF k = from THEN s ELSE Anew(g[k - 1], k - 1, k, ahead)]
           found == [k \in from..(to + 1) |-> Partly(b, k)]
<1>0. N \in Nat /\ from \in Nat /\ from <= N - 1 /\ to + 1 <= N - 1 /\ from <= to + 1
  BY RandomAssumption DEF Place
<1>1. ASSUME NEW k \in (from + 1)..(to + 1)
      PROVE  Anew(Partly(b, k - 1), k - 1, k, ahead) = Partly(b, k)
  <2>1. k - 1 \in Place /\ k - 1 # N - 1 /\ (k - 1) + 1 = k /\ Ahead(k - 1) = ahead
    BY <1>0 DEF Place
  <2>2. Anew(Partly(b, k - 1), k - 1, IF k - 1 = N - 1 THEN 0 ELSE (k - 1) + 1, Ahead(k - 1)) = Partly(b, (k - 1) + 1)
    BY <2>1, AnewIs
  <2>3. QED
    BY <2>1, <2>2
<1>2. found = step(found)
  <2>1. ASSUME NEW k \in from..(to + 1) PROVE found[k] = step(found)[k]
    <3>1. CASE k = from
      BY <3>1
    <3>2. CASE k # from
      <4>1. k \in (from + 1)..(to + 1) /\ k - 1 \in from..(to + 1)
        BY <1>0, <3>2
      <4>2. QED
        BY <1>1, <3>2, <4>1
    <3>3. QED
      BY <3>1, <3>2
  <2>2. QED
    BY <2>1
<1>3. f = step(f)
  <2>1. \E g : g = step(g)
    BY <1>2
  <2>2. QED
    BY <2>1
<1>4. \A k \in from..(to + 1) : f[k] = IF k = from THEN s ELSE Anew(f[k - 1], k - 1, k, ahead)
  <2> HIDE DEF f
  <2>1. QED
    BY <1>3
<1>5. Loop(s, from, to, ahead) = f[to + 1]
  BY DEF Loop
<1> HIDE DEF f
<1> DEFINE Same == {j \in Nat : f[from + j] = Partly(b, from + j)}
<1>6. 0 \in Same
  BY <1>0, <1>4
<1>7. ASSUME NEW j \in 0..((to + 1 - from) - 1), j \in Same PROVE j + 1 \in Same
  <2>1. from + (j + 1) \in (from + 1)..(to + 1) /\ (from + (j + 1)) - 1 = from + j
    BY <1>0
  <2>2. f[from + (j + 1)] = Anew(f[from + j], from + j, from + (j + 1), ahead)
    BY <1>0, <1>4, <2>1
  <2>3. Anew(Partly(b, from + j), from + j, from + (j + 1), ahead) = Partly(b, from + (j + 1))
    BY <1>1, <2>1
  <2>4. QED
    BY <1>7, <2>2, <2>3
<1>8. to + 1 - from \in Same
  <2> HIDE DEF Same
  <2>1. to + 1 - from \in Nat
    BY <1>0
  <2>2. 0..(to + 1 - from) \subseteq Same
    BY <1>6, <1>7, <2>1, UpTo
  <2>3. QED
    BY <2>1, <2>2
<1>9. from + (to + 1 - from) = to + 1
  BY <1>0
<1>10. QED
  BY <1>5, <1>8, <1>9

\* All words of the state are made anew, in their own place.
LEMMA RegeneratedIs ==
  ASSUME NEW b \in Nat
  PROVE  Regenerated([p \in Place |-> b + p]) = [p \in Place |-> b + N + p]
<1>0. N \in Nat /\ M \in 1..(N - 1)
  BY RandomAssumption
<1>1. [p \in Place |-> b + p] = Partly(b, 0)
  BY <1>0 DEF Partly, Place
<1>2. Loop(Partly(b, 0), 0, N - M - 1, M) = Partly(b, N - M)
  <2>1. /\ 0 \in Place /\ N - M - 1 \in Int /\ M \in Int /\ (N - M - 1) + 1 \in 0..(N - 1) /\ (N - M - 1) + 1 = N - M
        /\ \A k \in 0..(N - M - 1) : Ahead(k) = M
    BY <1>0 DEF Place, Ahead
  <2>2. Loop(Partly(b, 0), 0, N - M - 1, M) = Partly(b, (N - M - 1) + 1)
    BY <2>1, LoopIs
  <2>3. QED
    BY <2>1, <2>2
<1>3. Loop(Partly(b, N - M), N - M, N - 2, M - N) = Partly(b, N - 1)
  <2>1. /\ N - M \in Place /\ N - 2 \in Int /\ M - N \in Int /\ (N - 2) + 1 \in (N - M)..(N - 1) /\ (N - 2) + 1 = N - 1
        /\ \A k \in (N - M)..(N - 2) : Ahead(k) = M - N
    BY <1>0 DEF Place, Ahead
  <2>2. Loop(Partly(b, N - M), N - M, N - 2, M - N) = Partly(b, (N - 2) + 1)
    BY <2>1, LoopIs
  <2>3. QED
    BY <2>1, <2>2
<1>4. Anew(Partly(b, N - 1), N - 1, 0, M - N) = Partly(b, N)
  <2>1. N - 1 \in Place /\ Ahead(N - 1) = M - N /\ (N - 1) + 1 = N
    BY <1>0 DEF Place, Ahead
  <2>2. Anew(Partly(b, N - 1), N - 1, IF N - 1 = N - 1 THEN 0 ELSE (N - 1) + 1, Ahead(N - 1)) = Partly(b, (N - 1) + 1)
    BY <2>1, AnewIs
  <2>3. QED
    BY <2>1, <2>2
<1>5. Partly(b, N) = [p \in Place |-> b + N + p]
  BY <1>0 DEF Partly, Place
<1>6. QED
  BY <1>1, <1>2, <1>3, <1>4, <1>5 DEF Regenerated

-----------------------------------------------------------------------------
\* The words of the state are consecutive ones, and the next one to be drawn is the one
\* after those that were drawn.
DrawInv ==
  ask[1] = "draw" =>
    /\ pos \in 0..N /\ got \in Seq(Int) /\ pos <= N + Len(got)
    /\ words = [p \in Place |-> (Len(got) + N - pos) + p]
    /\ WordsInOrder

\* A generator starts with words 0 to N - 1, all of them used.
LEMMA DrawStart == RandomInit => DrawInv
<1> SUFFICES ASSUME RandomInit, ask[1] = "draw" PROVE DrawInv
  BY DEF DrawInv
<1>1. N \in Nat /\ pos = N /\ got = << >> /\ words = [p \in Place |-> p]
  BY RandomAssumption DEF RandomInit
<1>2. words = [p \in Place |-> (Len(got) + N - pos) + p]
  BY <1>1 DEF Place
<1>3. QED
  BY <1>1, <1>2 DEF DrawInv, WordsInOrder

\* The state is made anew when all of it is used, and the next word is the one at pos.
LEMMA DrawStep == DrawInv /\ Genrand => DrawInv'
<1> SUFFICES ASSUME DrawInv, Genrand PROVE DrawInv'
  OBVIOUS
<1> DEFINE all == pos >= N
           s == IF all THEN Regenerated(words) ELSE words
           p == IF all THEN 0 ELSE pos
           b == Len(got) + N - pos
           c == IF all THEN b + N ELSE b
<1>0. /\ N \in Nat /\ N >= 2 /\ ask[1] = "draw" /\ ask' = ask /\ pos \in 0..N /\ got \in Seq(Int)
      /\ words' = s /\ got' = Append(got, s[p]) /\ pos' = p + 1 /\ Len(got) \in Nat
      /\ words = [q \in Place |-> b + q] /\ b \in Nat /\ WordsInOrder
  BY RandomAssumption DEF DrawInv, Genrand
<1>1. s = [q \in Place |-> c + q]
  <2>1. Regenerated([q \in Place |-> b + q]) = [q \in Place |-> b + N + q]
    BY <1>0, RegeneratedIs
  <2> HIDE DEF b
  <2>2. QED
    BY <1>0, <2>1
<1>a. p \in 0..(N - 1) /\ c + p = Len(got) + N /\ c \in Int /\ p \in Int
  <2>1. CASE pos >= N
    BY <1>0, <2>1
  <2>2. CASE ~(pos >= N)
    BY <1>0, <2>2
  <2>3. QED
    BY <2>1, <2>2
<1> HIDE DEF s, c, p
<1>2. s[p] = Len(got) + N
  BY <1>1, <1>a DEF Place
<1>3. /\ got' \in Seq(Int) /\ Len(got') = Len(got) + 1 /\ got'[Len(got) + 1] = Len(got) + N
      /\ \A k \in 1..Len(got) : got'[k] = got[k]
  BY <1>0, <1>2
<1>4. WordsInOrder'
  BY <1>0, <1>3 DEF WordsInOrder
<1>5. Len(got') + N - pos' = c
  <2>1. pos' = p + 1 /\ N \in Nat /\ Len(got) \in Nat /\ Len(got') = Len(got) + 1
    BY <1>0, <1>3
  <2>2. QED
    BY <1>a, <2>1
<1>6. words' = [q \in Place |-> (Len(got') + N - pos') + q]
  BY <1>0, <1>1, <1>5
<1>7. pos' \in 0..N /\ pos' <= N + Len(got')
  BY <1>0, <1>a, <1>3
<1>8. QED
  BY <1>0, <1>3, <1>4, <1>6, <1>7 DEF DrawInv

-----------------------------------------------------------------------------
\* Before the rotation the elements stand in their order, and afterwards as the last
\* conjunct says.
RotateInv ==
  ask[1] = "rotate" =>
    /\ ask[2] \in Nat /\ Len(got) = ask[2]
    /\ pos = 1 => got = [k \in 1..ask[2] |-> k]
    /\ RotationKeeps

\* Neighbours before the rotation are neighbours after it.
LEMMA RotationIs ==
  ASSUME NEW n \in Nat, n > 1, NEW offset \in 0..(n - 1)
  PROVE  LET r == RotateLeft([k \in 1..n |-> k], offset) IN
         /\ r \in Seq(1..n) /\ Len(r) = n
         /\ \A k \in 1..n : r[(k % n) + 1] = (r[k] % n) + 1
<1> DEFINE s == [k \in 1..n |-> k]
           a == SubSeq(s, offset + 1, n)
           b == SubSeq(s, 1, offset)
           r == RotateLeft(s, offset)
<1>1. s \in Seq(1..n) /\ Len(s) = n /\ \A k \in 1..n : s[k] = k
  OBVIOUS
<1>2. offset % n = offset
  OBVIOUS
<1> HIDE DEF s
<1>3. r = a \o b
  BY <1>1, <1>2 DEF RotateLeft
<1>4. a \in Seq(1..n) /\ Len(a) = n - offset /\ \A k \in 1..(n - offset) : a[k] = offset + k
  BY <1>1
<1>5. b \in Seq(1..n) /\ Len(b) = offset /\ \A k \in 1..offset : b[k] = k
  BY <1>1
<1> HIDE DEF a, b, r
<1>6. /\ r \in Seq(1..n) /\ Len(r) = n
      /\ \A k \in 1..n : r[k] = IF k <= n - offset THEN a[k] ELSE b[k - (n - offset)]
  BY <1>3, <1>4, <1>5
<1>7. ASSUME NEW k \in 1..n PROVE r[k] = IF k <= n - offset THEN offset + k ELSE k - (n - offset)
  <2>1. CASE k <= n - offset
    <3>1. k \in 1..(n - offset)
      BY <2>1
    <3>2. QED
      BY <1>4, <1>6, <2>1, <3>1
  <2>2. CASE k > n - offset
    <3>1. k - (n - offset) \in 1..offset
      BY <2>2
    <3>2. QED
      BY <1>5, <1>6, <2>2, <3>1
  <2>3. QED
    BY <2>1, <2>2
<1>8. ASSUME NEW k \in 1..n PROVE r[(k % n) + 1] = (r[k] % n) + 1
  <2>1. CASE k = n
    <3>1. k % n = 0 /\ 1 \in 1..n /\ n \in 1..n
      BY <2>1
    <3>2. offset # 0 => r[n] = offset /\ offset % n = offset
      BY <1>7, <1>2, <3>1
    <3>3. offset = 0 => r[n] = n /\ n % n = 0
      BY <1>7, <3>1
    <3>4. r[1] = offset + 1
      BY <1>7, <3>1
    <3>5. QED
      BY <2>1, <3>1, <3>2, <3>3, <3>4
  <2>2. CASE k # n
    <3>1. k % n = k /\ k + 1 \in 1..n
      BY <2>2
    <3>2. r[k] \in 1..n /\ (r[k] < n => r[k] % n = r[k]) /\ (r[k] = n => r[k] % n = 0)
      <4>1. r[k] \in 1..n
        BY <1>6
      <4>2. QED
        BY <4>1
    <3>3. /\ r[k] = IF k <= n - offset THEN offset + k ELSE k - (n - offset)
          /\ r[k + 1] = IF k + 1 <= n - offset THEN offset + (k + 1) ELSE (k + 1) - (n - offset)
      BY <1>7, <3>1
    <3>4. r[k + 1] = IF r[k] = n THEN 1 ELSE r[k] + 1
      BY <2>2, <3>3
    <3>5. QED
      BY <3>1, <3>2, <3>4
  <2>3. QED
    BY <2>1, <2>2
<1>9. QED
  BY <1>6, <1>8 DEF r, s

\* The elements start in their order, the last one next to the first.
LEMMA RotateStart == RandomInit => RotateInv
<1> SUFFICES ASSUME RandomInit, ask[1] = "rotate" PROVE RotateInv
  BY DEF RotateInv
<1>1. ask[2] \in Nat /\ got = [k \in 1..ask[2] |-> k]
  BY RandomAssumption DEF RandomInit, Requests
<1> DEFINE n == ask[2]
<1>2. Len(got) = n /\ \A k \in 1..n : got[k] = k
  BY <1>1
<1>3. ASSUME NEW k \in 1..n PROVE got[(k % n) + 1] = (got[k] % n) + 1
  <2> HIDE DEF n
  <2>1. n \in Nat /\ (k % n) + 1 \in 1..n
    <3>1. n \in Nat
      BY <1>1 DEF n
    <3>2. k % n \in 0..(n - 1)
      BY <3>1
    <3>3. QED
      BY <3>1, <3>2
  <2>2. QED
    BY <1>2, <2>1
<1>4. RotationKeeps
  BY <1>1, <1>2, <1>3 DEF RotationKeeps
<1>5. QED
  BY <1>1, <1>2, <1>4 DEF RotateInv

\* They are rotated once.
LEMMA RotateStep == RotateInv /\ FqdnRotate => RotateInv'
<1> SUFFICES ASSUME RotateInv, FqdnRotate PROVE RotateInv'
  OBVIOUS
<1>0. /\ ask[1] = "rotate" /\ ask' = ask /\ pos = 1 /\ pos' = 2 /\ ask[2] \in Nat
      /\ Len(got) = ask[2] /\ got = [k \in 1..ask[2] |-> k] /\ RotationKeeps
  BY DEF RotateInv, FqdnRotate
<1>1. CASE Len(got) <= 1
  <2>1. got' = got
    BY <1>1 DEF FqdnRotate
  <2>2. QED
    BY <1>0, <2>1 DEF RotateInv, RotationKeeps
<1>2. CASE Len(got) > 1
  <2>1. PICK offset \in 0..(ask[2] - 1) : got' = RotateLeft([k \in 1..ask[2] |-> k], offset)
    BY <1>0, <1>2 DEF FqdnRotate
  <2>2. /\ got' \in Seq(1..ask[2]) /\ Len(got') = ask[2]
        /\ \A k \in 1..ask[2] : got'[(k % ask[2]) + 1] = (got'[k] % ask[2]) + 1
    BY <1>0, <1>2, <2>1, RotationIs
  <2>3. RotationKeeps'
    <3>1. DOMAIN got' = 1..ask[2]
      BY <2>2
    <3>2. QED
      BY <1>0, <2>2, <3>1 DEF RotationKeeps
  <2>4. QED
    BY <1>0, <2>2, <2>3 DEF RotateInv
<1>3. QED
  BY <1>0, <1>1, <1>2

-----------------------------------------------------------------------------
\* A generator that is being seeded with len words: what went into each word of its state,
\* and the next one to be mixed. The one before that was mixed last.
Seeding(len) == [s : [Place -> SUBSET (1..len)], i : 1..(N - 1)]
LastMixed(x) == x.s[x.i - 1]
\* What a round makes of the word it mixes.
Joined(x, j) == x.s[x.i] \cup LastMixed(x) \cup j
\* What it leaves alone; word 0 is only a copy of the last one.
OthersKept(x, y) == \A p \in Place \ {0, x.i} : y.s[p] = x.s[p]

\* A round mixes one word, takes in the one before it, and leaves all others alone.
LEMMA MixIs ==
  ASSUME NEW len \in Nat, NEW x \in Seeding(len), NEW j \in SUBSET (1..len),
         NEW y, y = [s |-> Mix(x.s, x.i, j), i |-> Following(x.i)]
  PROVE  /\ y \in Seeding(len)
         /\ LastMixed(y) = Joined(x, j)
         /\ y.s[x.i] = Joined(x, j)
         /\ OthersKept(x, y)
<1> DEFINE s == x.s  k == x.i  new == s[k] \cup s[k - 1] \cup j
           t == [s EXCEPT ![k] = new]
           u == IF k + 1 >= N THEN [t EXCEPT ![0] = t[N - 1]] ELSE t
<1>0. /\ N \in Nat /\ N >= 2 /\ k \in 1..(N - 1) /\ s \in [Place -> SUBSET (1..len)]
      /\ k \in Place /\ k - 1 \in Place /\ 0 \in Place /\ N - 1 \in Place /\ k # 0
  BY RandomAssumption DEF Seeding, Place
<1>1. new \in SUBSET (1..len)
  BY <1>0
<1> HIDE DEF new
<1>2. t \in [Place -> SUBSET (1..len)] /\ t[k] = new /\ \A p \in Place \ {k} : t[p] = s[p]
  BY <1>0, <1>1
<1>3. Mix(s, k, j) = u
  BY DEF Mix, new
<1> HIDE DEF t, s, k
<1>4. CASE k + 1 >= N
  <2>1. k = N - 1 /\ Following(k) = 1
    BY <1>0, <1>4 DEF Following
  <2>2. u = [t EXCEPT ![0] = new]
    BY <1>2, <1>4, <2>1
  <2>3. /\ u \in [Place -> SUBSET (1..len)] /\ u[0] = new /\ u[k] = new
        /\ \A p \in Place \ {0, k} : u[p] = s[p]
    BY <1>0, <1>1, <1>2, <2>2
  <2>4. y.s = u /\ y.i = 1 /\ y = [s |-> u, i |-> 1]
    BY <1>3, <2>1 DEF s, k
  <2>5. y \in Seeding(len) /\ y.s[y.i - 1] = new
    BY <1>0, <2>3, <2>4 DEF Seeding
  <2>6. QED
    BY <2>3, <2>4, <2>5 DEF LastMixed, Joined, OthersKept, new, s, k
<1>5. CASE k + 1 < N
  <2>1. Following(k) = k + 1 /\ (k + 1) - 1 = k
    BY <1>0, <1>5 DEF Following
  <2>2. u = t
    BY <1>0, <1>5
  <2>4. y.s = t /\ y.i = k + 1 /\ y = [s |-> t, i |-> k + 1]
    BY <1>3, <2>1, <2>2 DEF s, k
  <2>5. y \in Seeding(len) /\ y.s[y.i - 1] = new
    BY <1>0, <1>2, <1>5, <2>1, <2>4 DEF Seeding
  <2>6. QED
    BY <1>2, <2>4, <2>5 DEF LastMixed, Joined, OthersKept, new, s, k
<1>6. QED
  BY <1>0, <1>4, <1>5

\* The first rounds carry every word of the key along.
LEMMA KeyMixed ==
  ASSUME NEW len \in Nat \ {0}, NEW rounds \in Nat, rounds >= len, NEW f,
         f[0] \in Seeding(len),
         \A k \in 1..rounds :
           f[k] = [s |-> Mix(f[k - 1].s, f[k - 1].i, {((k - 1) % len) + 1}), i |-> Following(f[k - 1].i)]
  PROVE  f[rounds] \in Seeding(len) /\ LastMixed(f[rounds]) = 1..len
<1> DEFINE Fine == {k \in 0..rounds :
                      f[k] \in Seeding(len) /\ \A w \in 1..len : w <= k => w \in LastMixed(f[k])}
<1>1. 0 \in Fine
  OBVIOUS
<1>2. ASSUME NEW k \in 0..(rounds - 1), k \in Fine PROVE k + 1 \in Fine
  <2> DEFINE j == {(k % len) + 1}
  <2>0. k \in Nat /\ k + 1 \in 1..rounds /\ k + 1 \in 0..rounds /\ (k + 1) - 1 = k
    OBVIOUS
  <2>1. f[k + 1] = [s |-> Mix(f[k].s, f[k].i, j), i |-> Following(f[k].i)]
    BY <2>0
  <2>2. j \in SUBSET (1..len) /\ (k < len => j = {k + 1})
    BY <2>0
  <2>3. f[k] \in Seeding(len) /\ \A w \in 1..len : w <= k => w \in LastMixed(f[k])
    BY <1>2
  <2> HIDE DEF j, Fine
  <2>a. len \in Nat
    OBVIOUS
  <2>b. f[k + 1] \in Seeding(len) /\ LastMixed(f[k + 1]) = Joined(f[k], j)
    <3>0. j \in SUBSET (1..len) /\ f[k] \in Seeding(len)
      BY <2>2, <2>3
    <3>1. f[k + 1] \in Seeding(len)
      BY <2>1, <3>0, <2>a, MixIs
    <3>2. LastMixed(f[k + 1]) = Joined(f[k], j)
      BY <2>1, <3>0, <2>a, MixIs
    <3>3. QED
      BY <3>1, <3>2
  <2>4. f[k + 1] \in Seeding(len) /\ LastMixed(f[k + 1]) = f[k].s[f[k].i] \cup LastMixed(f[k]) \cup j
    BY <2>b DEF Joined
  <2>5. ASSUME NEW w \in 1..len, w <= k + 1 PROVE w \in LastMixed(f[k + 1])
    <3>1. CASE w <= k
      BY <2>3, <2>4, <3>1
    <3>2. CASE w = k + 1
      BY <2>0, <2>2, <2>4, <3>2
    <3>3. QED
      BY <2>0, <2>5, <3>1, <3>2
  <2>6. QED
    BY <2>0, <2>4, <2>5 DEF Fine
<1>3. rounds \in Fine
  <2> HIDE DEF Fine
  <2>1. 0..rounds \subseteq Fine
    BY <1>1, <1>2, UpTo
  <2>2. QED
    BY <2>1
<1>4. N \in Nat /\ f[rounds].i - 1 \in Place
  BY RandomAssumption, <1>3 DEF Seeding, Place
<1>5. LastMixed(f[rounds]) \subseteq 1..len
  BY <1>3, <1>4 DEF Seeding, LastMixed
<1>6. 1..len \subseteq LastMixed(f[rounds])
  <2>1. \A w \in 1..len : w <= rounds
    OBVIOUS
  <2>2. QED
    BY <1>3, <2>1
<1>7. QED
  BY <1>3, <1>5, <1>6

\* Where k rounds from place a on have come to, and the places they mixed.
Reached(a, k) == IF a + k <= N - 1 THEN a + k ELSE a + k - (N - 1)
Mixed(a, k) == {p \in 1..(N - 1) : (a <= p /\ p < a + k) \/ p <= a + k - N}

\* One more round comes to the next place and has mixed the one it was at.
LEMMA MixedNext ==
  ASSUME NEW a \in 1..(N - 1), NEW k \in 0..(N - 2)
  PROVE  /\ Following(Reached(a, k)) = Reached(a, k + 1)
         /\ Mixed(a, k + 1) \subseteq Mixed(a, k) \cup {Reached(a, k)}
BY RandomAssumption DEF Following, Reached, Mixed

\* N - 1 rounds come to every place but 0, wherever they begin.
LEMMA MixedAll ==
  ASSUME NEW a \in 1..(N - 1)
  PROVE  Mixed(a, 0) = {} /\ Reached(a, 0) = a /\ 1..(N - 1) \subseteq Mixed(a, N - 1)
BY RandomAssumption DEF Reached, Mixed

\* The second rounds carry it into all of the state.
LEMMA StateMixed ==
  ASSUME NEW len \in Nat \ {0}, NEW f,
         f[0] \in Seeding(len), LastMixed(f[0]) = 1..len,
         \A k \in 1..(N - 1) : f[k] = [s |-> Mix(f[k - 1].s, f[k - 1].i, {}), i |-> Following(f[k - 1].i)]
  PROVE  f[N - 1] \in Seeding(len) /\ \A p \in 1..(N - 1) : f[N - 1].s[p] = 1..len
<1> DEFINE a == f[0].i
           Fine == {k \in 0..(N - 1) :
                      /\ f[k] \in Seeding(len) /\ f[k].i = Reached(a, k) /\ LastMixed(f[k]) = 1..len
                      /\ \A p \in Mixed(a, k) : f[k].s[p] = 1..len}
<1>0. a \in 1..(N - 1) /\ N \in Nat /\ N >= 2
  BY RandomAssumption DEF Seeding
<1> HIDE DEF a
<1>1. 0 \in Fine
  BY <1>0, MixedAll DEF a
<1>2. ASSUME NEW k \in 0..((N - 1) - 1), k \in Fine PROVE k + 1 \in Fine
  <2>0. k + 1 \in 1..(N - 1) /\ k + 1 \in 0..(N - 1) /\ (k + 1) - 1 = k /\ k \in 0..(N - 2)
    BY <1>0
  <2>1. f[k + 1] = [s |-> Mix(f[k].s, f[k].i, {}), i |-> Following(f[k].i)]
    BY <2>0
  <2>2. /\ f[k] \in Seeding(len) /\ f[k].i = Reached(a, k) /\ LastMixed(f[k]) = 1..len
        /\ \A p \in Mixed(a, k) : f[k].s[p] = 1..len
    BY <1>2
  <2> HIDE DEF Fine
  <2>3. {} \in SUBSET (1..len) /\ len \in Nat
    OBVIOUS
  <2> DEFINE none == {}
  <2>a. /\ f[k + 1] = [s |-> Mix(f[k].s, f[k].i, none), i |-> Following(f[k].i)]
        /\ none \in SUBSET (1..len) /\ none = {}
    BY <2>1
  <2> HIDE DEF none
  <2>4. /\ f[k + 1] \in Seeding(len)
        /\ LastMixed(f[k + 1]) = Joined(f[k], none)
        /\ f[k + 1].s[f[k].i] = Joined(f[k], none)
        /\ \A p \in Place \ {0, f[k].i} : f[k + 1].s[p] = f[k].s[p]
    <3>1. f[k + 1] \in Seeding(len)
      BY <2>a, <2>2, <2>3, MixIs
    <3>2. LastMixed(f[k + 1]) = Joined(f[k], none) /\ f[k + 1].s[f[k].i] = Joined(f[k], none)
      BY <2>a, <2>2, <2>3, MixIs
    <3>3. \A p \in Place \ {0, f[k].i} : f[k + 1].s[p] = f[k].s[p]
      <4>1. OthersKept(f[k], f[k + 1])
        BY <2>a, <2>2, <2>3, MixIs
      <4>2. QED
        BY <4>1 DEF OthersKept
    <3>4. QED
      BY <3>1, <3>2, <3>3
  <2>5. f[k].s[f[k].i] \subseteq 1..len
    BY <1>0, <2>2 DEF Seeding, Place
  <2>6. LastMixed(f[k + 1]) = 1..len /\ f[k + 1].s[f[k].i] = 1..len
    BY <2>a, <2>2, <2>4, <2>5 DEF Joined
  <2>7. f[k + 1].i = Reached(a, k + 1)
    BY <1>0, <2>0, <2>1, <2>2, MixedNext
  <2>8. ASSUME NEW p \in Mixed(a, k + 1) PROVE f[k + 1].s[p] = 1..len
    <3>1. p \in Mixed(a, k) \cup {f[k].i}
      BY <1>0, <2>0, <2>2, MixedNext
    <3>a. p \in Place /\ p # 0
      BY <1>0 DEF Mixed, Place
    <3>2. CASE p = f[k].i
      BY <2>6, <3>2
    <3>3. CASE p # f[k].i
      BY <2>2, <2>4, <3>1, <3>a, <3>3
    <3>4. QED
      BY <3>2, <3>3
  <2>9. QED
    BY <2>0, <2>4, <2>6, <2>7, <2>8 DEF Fine
<1>3. N - 1 \in Fine
  <2> HIDE DEF Fine
  <2>1. N - 1 \in Nat
    BY <1>0
  <2>2. 0..(N - 1) \subseteq Fine
    BY <1>1, <1>2, <2>1, UpTo
  <2>3. QED
    BY <2>1, <2>2
<1>4. QED
  BY <1>0, <1>3, MixedAll

\* Rounds that take in the sets J after one another.
Round(x, j) == [s |-> Mix(x.s, x.i, j), i |-> Following(x.i)]
RoundsOf(g, len, n, base, J) ==
  g \in [0..n -> Seeding(len)] /\ g[0] = base /\ \A k \in 1..n : g[k] = Round(g[k - 1], J[k])

\* The states of such rounds make up a function.
LEMMA RoundsExist ==
  ASSUME NEW len \in Nat, NEW n \in Nat, NEW base \in Seeding(len),
         NEW J \in [1..n -> SUBSET (1..len)]
  PROVE  \E g : RoundsOf(g, len, n, base, J)
<1> DEFINE S == Seeding(len)
           step == [d \in S \X (1..n) |-> Round(d[1], J[d[2]])]
<1>1. ASSUME NEW d \in S \X (1..n) PROVE Round(d[1], J[d[2]]) \in S
  <2> DEFINE x == d[1]  j == J[d[2]]
  <2>1. x \in Seeding(len) /\ j \in SUBSET (1..len)
    OBVIOUS
  <2> HIDE DEF x, j
  <2>2. Round(x, j) \in Seeding(len)
    BY <2>1, MixIs DEF Round
  <2>3. QED
    BY <2>2 DEF x, j
<1>2. step \in Steps(S, n)
  BY <1>1 DEF Steps
<1>3. PICK g : IterationOf(g, n, S, base, step)
  <2> HIDE DEF S, step
  <2>1. base \in S
    BY DEF S
  <2>2. QED
    BY <1>2, <2>1, Iterated
<1>4. g \in [0..n -> S] /\ g[0] = base /\ \A k \in 1..n : g[k] = step[<<g[k - 1], k>>]
  BY <1>3 DEF IterationOf
<1>5. ASSUME NEW k \in 1..n PROVE g[k] = Round(g[k - 1], J[k])
  <2>1. g[k - 1] \in S
    BY <1>4
  <2>2. <<g[k - 1], k>> \in S \X (1..n)
    BY <2>1
  <2>3. step[<<g[k - 1], k>>] = Round(g[k - 1], J[k])
    BY <2>2
  <2>4. QED
    BY <1>4, <2>3
<1>6. QED
  BY <1>4, <1>5 DEF RoundsOf

\* The state that a key gives: all of its words are in each word but the first.
LEMMA ArrayMixed ==
  ASSUME NEW key, Len(key) \in Nat \ {0}
  PROVE  \A p \in Place \ {0} : InitByArray(key)[p] = 1..Len(key)
<1> DEFINE rounds == IF Len(key) > N THEN Len(key) ELSE N
           start == [s |-> [p \in Place |-> {}], i |-> 1]
           first[k \in 0..rounds] ==
             IF k = 0 THEN start
             ELSE [s |-> Mix(first[k - 1].s, first[k - 1].i, {((k - 1) % Len(key)) + 1}),
                   i |-> Following(first[k - 1].i)]
           second[k \in 0..(N - 1)] ==
             IF k = 0 THEN first[rounds]
             ELSE [s |-> Mix(second[k - 1].s, second[k - 1].i, {}), i |-> Following(second[k - 1].i)]
<1>0. InitByArray(key) = [second[N - 1].s EXCEPT ![0] = {}]
  BY DEF InitByArray
<1> DEFINE len == Len(key)
<1>1. /\ N \in Nat /\ N >= 2 /\ N - 1 \in Nat /\ len \in Nat \ {0} /\ len \in Nat
      /\ rounds \in Nat /\ rounds >= len
  BY RandomAssumption
<1>2. start \in Seeding(len)
  BY <1>1 DEF Seeding
<1>3. /\ first[0] = start
      /\ \A k \in 1..rounds : first[k] = Round(first[k - 1], {((k - 1) % len) + 1})
  <2> DEFINE step(g) == [k \in 0..rounds |->
                           IF k = 0 THEN start
                           ELSE [s |-> Mix(g[k - 1].s, g[k - 1].i, {((k - 1) % Len(key)) + 1}),
                                 i |-> Following(g[k - 1].i)]]
             J == [k \in 1..rounds |-> {((k - 1) % len) + 1}]
  <2>1. J \in [1..rounds -> SUBSET (1..len)]
    <3>1. ASSUME NEW k \in 1..rounds PROVE ((k - 1) % len) + 1 \in 1..len
      <4> HIDE DEF len, rounds
      <4>1. (k - 1) % len \in 0..(len - 1)
        BY <1>1
      <4>2. QED
        BY <1>1, <4>1
    <3> HIDE DEF len, rounds
    <3>2. QED
      BY <3>1
  <2> HIDE DEF first, second
  <2>2. \E g : g = step(g)
    <3> HIDE DEF rounds, start, J, len
    <3>0. PICK g : RoundsOf(g, len, rounds, start, J)
      BY <1>1, <1>2, <2>1, RoundsExist
    <3>1. /\ g \in [0..rounds -> Seeding(len)] /\ g[0] = start
          /\ \A k \in 1..rounds : g[k] = Round(g[k - 1], J[k])
      BY <3>0 DEF RoundsOf
    <3>2. ASSUME NEW k \in 0..rounds PROVE g[k] = step(g)[k]
      <4>1. CASE k = 0
        BY <3>1, <4>1
      <4>2. CASE k # 0
        <5>1. k \in 1..rounds
          BY <1>1, <4>2
        <5>2. g[k] = Round(g[k - 1], {((k - 1) % len) + 1})
          BY <3>1, <5>1 DEF J
        <5>3. QED
          BY <4>2, <5>2 DEF Round, len
      <4>3. QED
        BY <4>1, <4>2
    <3>3. g = step(g)
      BY <3>1, <3>2
    <3>4. QED
      BY <3>3
  <2>3. first = step(first)
    BY <2>2 DEF first
  <2> HIDE DEF rounds, start
  <2>4. 0 \in 0..rounds /\ \A k \in 1..rounds : k \in 0..rounds /\ k # 0
    BY <1>1
  <2>5. first[0] = start
    BY <2>3, <2>4
  <2>6. ASSUME NEW k \in 1..rounds PROVE first[k] = Round(first[k - 1], {((k - 1) % len) + 1})
    BY <2>3, <2>4 DEF Round
  <2>7. QED
    BY <2>5, <2>6
<1>4. first[rounds] \in Seeding(len) /\ LastMixed(first[rounds]) = 1..len
  <2> HIDE DEF first, second, rounds, len, start
  <2>1. \A k \in 1..rounds :
          first[k] = [s |-> Mix(first[k - 1].s, first[k - 1].i, {((k - 1) % len) + 1}),
                      i |-> Following(first[k - 1].i)]
    BY <1>3 DEF Round
  <2>2. first[0] \in Seeding(len)
    BY <1>2, <1>3
  <2>3. QED
    BY <1>1, <2>1, <2>2, KeyMixed
<1> HIDE DEF first
<1> DEFINE begun == first[rounds]
<1>5. /\ second[0] = begun
      /\ \A k \in 1..(N - 1) : second[k] = Round(second[k - 1], {})
  <2> DEFINE step(g) == [k \in 0..(N - 1) |->
                           IF k = 0 THEN first[rounds]
                           ELSE [s |-> Mix(g[k - 1].s, g[k - 1].i, {}), i |-> Following(g[k - 1].i)]]
             J == [k \in 1..(N - 1) |-> {}]
  <2>1. J \in [1..(N - 1) -> SUBSET (1..len)]
    OBVIOUS
  <2> HIDE DEF second
  <2>2. \E g : g = step(g)
    <3> HIDE DEF rounds, J, len
    <3>0. begun \in Seeding(len)
      BY <1>4
    <3> HIDE DEF begun
    <3>b. PICK g : RoundsOf(g, len, N - 1, begun, J)
      BY <1>1, <3>0, <2>1, RoundsExist
    <3>1. /\ g \in [0..(N - 1) -> Seeding(len)] /\ g[0] = begun
          /\ \A k \in 1..(N - 1) : g[k] = Round(g[k - 1], J[k])
      BY <3>b DEF RoundsOf
    <3>2. ASSUME NEW k \in 0..(N - 1) PROVE g[k] = step(g)[k]
      <4>1. CASE k = 0
        BY <3>1, <4>1 DEF begun
      <4>2. CASE k # 0
        <5>1. k \in 1..(N - 1)
          BY <1>1, <4>2
        <5>2. g[k] = Round(g[k - 1], {})
          BY <3>1, <5>1 DEF J
        <5>3. QED
          BY <4>2, <5>2 DEF Round
      <4>3. QED
        BY <4>1, <4>2
    <3>3. g = step(g)
      BY <3>1, <3>2
    <3>4. QED
      BY <3>3
  <2>3. second = step(second)
    BY <2>2 DEF second
  <2> HIDE DEF rounds
  <2>4. 0 \in 0..(N - 1) /\ \A k \in 1..(N - 1) : k \in 0..(N - 1) /\ k # 0
    BY <1>1
  <2>5. second[0] = begun
    BY <2>3, <2>4
  <2>6. ASSUME NEW k \in 1..(N - 1) PROVE second[k] = Round(second[k - 1], {})
    BY <2>3, <2>4 DEF Round
  <2>7. QED
    BY <2>5, <2>6
<1>6. second[N - 1] \in Seeding(len) /\ \A p \in 1..(N - 1) : second[N - 1].s[p] = 1..len
  <2>0. begun \in Seeding(len) /\ LastMixed(begun) = 1..len
    BY <1>4
  <2> HIDE DEF second, rounds, len, begun
  <2>1. \A k \in 1..(N - 1) :
          second[k] = [s |-> Mix(second[k - 1].s, second[k - 1].i, {}), i |-> Following(second[k - 1].i)]
    BY <1>5 DEF Round
  <2>2. second[0] \in Seeding(len) /\ LastMixed(second[0]) = 1..len
    BY <1>5, <2>0
  <2>3. QED
    BY <1>1, <2>1, <2>2, StateMixed
<1> HIDE DEF second
<1>7. second[N - 1].s \in [Place -> SUBSET (1..len)]
  BY <1>6 DEF Seeding
<1>8. ASSUME NEW p \in Place \ {0} PROVE InitByArray(key)[p] = 1..len
  <2>1. p \in 1..(N - 1)
    BY <1>1 DEF Place
  <2>2. InitByArray(key)[p] = second[N - 1].s[p]
    BY <1>0, <1>7
  <2>3. QED
    BY <1>6, <2>1, <2>2
<1>9. QED
  BY <1>8

\* A seed that is left with no word would be divided by its length.
LEMMA KeyNotEmpty ==
  ASSUME NEW seed \in Seq(Nat), Len(seed) > 1
  PROVE  Len(Key(seed)) \in Nat \ {0}
<1>1. Len(seed) \in Nat /\ Len(SubSeq(seed, 1, Len(seed) - 1)) = Len(seed) - 1
  OBVIOUS
<1>2. QED
  BY <1>1 DEF Key

\* A seed has a word, and what is shown of a seeded state holds of the only one there is.
SeedInv == ask[1] = "seed" => ask[2] \in Seq(Nat) \ {<< >>} /\ SeedMixed

\* Nothing is seeded at first.
LEMMA SeedStart == RandomInit => SeedInv
BY RandomAssumption DEF RandomInit, SeedInv, SeedMixed, Requests

\* One word starts the plain recurrence, several are mixed in as a key.
LEMMA SeedStep == SeedInv /\ InitSeeded => SeedInv'
<1> SUFFICES ASSUME SeedInv, InitSeeded PROVE SeedInv'
  OBVIOUS
<1>0. ask' = ask /\ ask[2] \in Seq(Nat) /\ ask[2] # << >> /\ Len(ask[2]) \in Nat \ {0}
  BY DEF SeedInv, InitSeeded
<1>1. CASE Len(ask[2]) = 1
  <2>1. words' = [p \in Place |-> {1}]
    BY <1>1 DEF InitSeeded, PlainSeeding
  <2>2. 1..1 = {1}
    OBVIOUS
  <2>3. QED
    BY <1>0, <1>1, <2>1, <2>2 DEF SeedInv, SeedMixed, Place
<1>2. CASE Len(ask[2]) # 1
  <2>1. words' = InitByArray(Key(ask[2]))
    BY <1>2 DEF InitSeeded
  <2>2. Len(Key(ask[2])) \in Nat \ {0}
    <3>1. Len(ask[2]) > 1
      <4> DEFINE n == Len(ask[2])
      <4>1. n \in Nat \ {0} /\ n # 1
        BY <1>0, <1>2
      <4> HIDE DEF n
      <4>2. n > 1
        BY <4>1
      <4>3. QED
        BY <4>2 DEF n
    <3>2. QED
      BY <1>0, <3>1, KeyNotEmpty
  <2>3. \A p \in Place \ {0} : words'[p] = 1..Len(Key(ask[2]))
    BY <2>1, <2>2, ArrayMixed
  <2>4. SeedMixed'
    BY <1>0, <1>2, <2>3 DEF SeedMixed, Place
  <2>5. QED
    BY <1>0, <2>4 DEF SeedInv
<1>3. QED
  BY <1>1, <1>2

-----------------------------------------------------------------------------
RandomInv == DrawInv /\ SeedInv /\ RotateInv

\* What is asked for does not change, and what is shown about it changes only in its action.
LEMMA RandomInvStep == RandomInv /\ [RandomNext]_randomVars => RandomInv'
<1> SUFFICES ASSUME RandomInv, [RandomNext]_randomVars PROVE RandomInv'
  OBVIOUS
<1>1. CASE Genrand
  <2>1. DrawInv'
    BY <1>1, DrawStep DEF RandomInv
  <2>2. ask'[1] = "draw"
    BY <1>1 DEF Genrand
  <2>3. QED
    BY <2>1, <2>2 DEF RandomInv, SeedInv, RotateInv
<1>2. CASE InitSeeded
  <2>1. SeedInv'
    BY <1>2, SeedStep DEF RandomInv
  <2>2. ask'[1] = "seed"
    BY <1>2 DEF InitSeeded
  <2>3. QED
    BY <2>1, <2>2 DEF RandomInv, DrawInv, RotateInv
<1>3. CASE LimitedRand
  <2>1. ask'[1] = "rand"
    BY <1>3 DEF LimitedRand
  <2>2. QED
    BY <2>1 DEF RandomInv, DrawInv, SeedInv, RotateInv
<1>4. CASE FqdnRotate
  <2>1. RotateInv'
    BY <1>4, RotateStep DEF RandomInv
  <2>2. ask'[1] = "rotate"
    BY <1>4 DEF FqdnRotate
  <2>3. QED
    BY <2>1, <2>2 DEF RandomInv, DrawInv, SeedInv
<1>5. CASE FisherYates
  <2>1. ask'[1] = "shuffle"
    BY <1>5 DEF FisherYates
  <2>2. QED
    BY <2>1 DEF RandomInv, DrawInv, SeedInv, RotateInv
<1>6. CASE UNCHANGED randomVars
  BY <1>6 DEF randomVars, RandomInv, DrawInv, SeedInv, RotateInv, WordsInOrder, SeedMixed, RotationKeeps
<1>7. QED
  BY <1>1, <1>2, <1>3, <1>4, <1>5, <1>6 DEF RandomNext

\* For every size of the state, every distance in the recurrence and every seed: the words
\* drawn are those of the recurrence, every word of a seeded state depends on the whole key,
\* and a rotation keeps neighbours (genrand, initByArray, rotateLeft).
THEOREM RandomAlwaysExact == RandomSpec => []RandomExact
<1>1. RandomInit => RandomInv
  BY DrawStart, SeedStart, RotateStart DEF RandomInv
<1>2. RandomInv /\ [RandomNext]_randomVars => RandomInv'
  BY RandomInvStep
<1>3. RandomInv => RandomExact
  BY DEF RandomInv, DrawInv, SeedInv, RotateInv, RandomExact, WordsInOrder, SeedMixed, RotationKeeps
<1>4. QED
  BY <1>1, <1>2, <1>3, PTL DEF RandomSpec
-----------------------------------------------------------------------------
(* Iteration *)

\* The calls of the block so far and what they came to.
Count == Len(trace)
Out(k) == trace[k].outcome
Went(k) == Out(k)[1] = "value"
Quiet(n) == \A k \in 1..n : Went(k) /\ (fn = "index" => ~Truthy(Out(k)[2]))
Catching == {"each", "map", "filter", "reduce"}
EndOf(o) == IF o[1] = "break" /\ fn \in Catching THEN ReturnOf(o[2]) ELSE o

Traced ==
  /\ trace \in Seq({trace[k] : k \in 1..Len(trace)})
  /\ \A k \in 1..Count : Out(k) \in BlockOutcome

\* Nothing but the last call may have failed, but for sort, which keeps the last failure.
Calling ==
  IF fn = "sort"
  THEN IF Failed THEN (IF gain = << >> THEN acc.err ELSE gain) = LastFailure
       ELSE gain = << >> => acc.err = << >>
  ELSE /\ Quiet(Count - 1)
       /\ gain = << >> => Quiet(Count)
       /\ gain # << >> /\ Failed => gain = EndOf(Out(Count))

LEMMA SeqOfItself ==
  ASSUME NEW S, NEW s \in Seq(S)
  PROVE  s \in Seq({s[k] : k \in 1..Len(s)})
<1>1. s = [k \in 1..Len(s) |-> s[k]] /\ Len(s) \in Nat
  OBVIOUS
<1>2. QED
  BY <1>1, IsASeq

LEMMA SeqFrom ==
  ASSUME NEW n \in Nat, NEW s, s = [i \in 1..n |-> s[i]]
  PROVE  s \in Seq({s[k] : k \in 1..Len(s)}) /\ Len(s) = n
<1>1. s \in Seq({s[k] : k \in 1..n})
  BY IsASeq
<1>2. Len(s) = n
  BY <1>1
<1>3. QED
  BY <1>1, <1>2

LEMMA OutcomeOf ==
  ASSUME NEW args, NEW o \in BlockOutcome
  PROVE  /\ BlockCall(args, o) \in BlockOutcome
         /\ BlockCall(args, o) # << >>
         /\ BlockCall(args, o)[1] = "value" => BlockCall(args, o)[2] = o[2] /\ o[2] \in Returned
BY DEF BlockCall, BlockOutcome

\* A call of the block makes the trace one call longer.
LEMMA Grows ==
  ASSUME Traced, NEW args, NEW o \in BlockOutcome, Call(args, o)
  PROVE  /\ Traced' /\ Count \in Nat /\ Count' = Count + 1
         /\ \A k \in 1..Count : trace'[k] = trace[k]
         /\ trace'[Count + 1] = [args |-> args, outcome |-> BlockCall(args, o)]
         /\ trace'[Count + 1].outcome = BlockCall(args, o)
<1> DEFINE e == [args |-> args, outcome |-> BlockCall(args, o)]
           S == {trace[k] : k \in 1..Len(trace)}
<1>1. trace \in Seq(S \cup {e}) /\ e \in S \cup {e} /\ trace' = Append(trace, e)
  BY SeqMonotonic DEF Traced, Call
<1> HIDE DEF e, S
<1>2. /\ trace' \in Seq(S \cup {e}) /\ Len(trace) \in Nat /\ Len(trace') = Len(trace) + 1
      /\ \A k \in 1..Len(trace) : trace'[k] = trace[k]
      /\ trace'[Len(trace) + 1] = e
  BY <1>1
<1>3. trace' \in Seq({trace'[k] : k \in 1..Len(trace')})
  BY <1>2, SeqOfItself
<1>4. e.outcome \in BlockOutcome
  BY OutcomeOf DEF e
<1>5. \A k \in 1..Len(trace') : trace'[k].outcome \in BlockOutcome
  BY <1>2, <1>4 DEF Traced, Count, Out
<1>6. QED
  BY <1>2, <1>3, <1>5 DEF Traced, Count, Out, e

\* What a step does to the trace and the result, whatever the function.
Called ==
  LET r == trace'[Count + 1].outcome IN
  /\ fn # "sort" /\ gain = << >> /\ Count \in Nat /\ Count' = Count + 1 /\ Traced'
  /\ \A k \in 1..Count : trace'[k] = trace[k]
  /\ \/ /\ r[1] = "value" /\ (fn = "index" => ~Truthy(r[2])) /\ gain' = << >>
     \/ /\ r[1] = "value" /\ fn = "index" /\ Truthy(r[2]) /\ gain' # << >>
     \/ /\ r[1] # "value" /\ gain' = EndOf(r)
Returns == fn # "sort" /\ gain = << >> /\ UNCHANGED trace /\ gain' # << >>
Compared ==
  LET r == trace'[Count + 1].outcome IN
  /\ fn = "sort" /\ gain = << >> /\ gain' = << >>
  /\ Count \in Nat /\ Count' = Count + 1 /\ Traced' /\ \A k \in 1..Count : trace'[k] = trace[k]
  /\ acc'.err = IF r[1] = "value" THEN acc.err ELSE r
Ordered ==
  /\ fn = "sort" /\ gain = << >> /\ UNCHANGED trace
  /\ gain' = (IF acc.err = << >> THEN ReturnOf(acc.out) ELSE acc.err)

LEMMA IterateStep ==
  ASSUME Traced, NEW args, NEW o \in BlockOutcome, NEW new, NEW catches,
         Iterate(args, o, new, catches), fn # "sort", catches = (fn \in Catching),
         fn = "index" => (BlockCall(args, o)[1] = "value" => ~Truthy(o[2]))
  PROVE  Called
<1> DEFINE r == BlockCall(args, o)
<1>1. /\ Call(args, o) /\ gain = << >>
      /\ r[1] = "value" => gain' = gain
      /\ r[1] # "value" => gain' = IF r[1] = "break" /\ catches THEN ReturnOf(r[2]) ELSE r
  BY DEF Iterate, Running
<1>2. r[1] = "value" => r[2] = o[2]
  BY OutcomeOf
<1>3. /\ trace'[Count + 1].outcome = r /\ Count \in Nat /\ Count' = Count + 1 /\ Traced'
      /\ \A k \in 1..Count : trace'[k] = trace[k]
  BY <1>1, Grows
<1> HIDE DEF r
<1>4. CASE r[1] = "value"
  <2>1. fn = "index" => ~Truthy(r[2])
    BY <1>2, <1>4 DEF r
  <2>2. QED
    BY <1>1, <1>3, <1>4, <2>1 DEF Called
<1>5. CASE r[1] # "value"
  BY <1>1, <1>3, <1>5 DEF Called, EndOf
<1>6. QED
  BY <1>4, <1>5

LEMMA FinishStep ==
  ASSUME NEW v, Finish(v), fn # "sort"
  PROVE  Returns
BY DEF Finish, Running, ReturnOf, Returns

LEMMA StepKinds ==
  ASSUME Traced, IterationNext
  PROVE  (Called \/ Returns \/ Compared \/ Ordered) /\ UNCHANGED <<fn, coll, arity, size>>
<1>0. UNCHANGED <<fn, coll, arity, size>>
  BY DEF IterationNext, Each, Map, Filter, Reduce, With, Slice, AnyOf, AllOf, IndexOf,
         RangeOf, TreeEach, Sort, Sorted, Panic, Iterate, Finish
<1> DEFINE Goal == Called \/ Returns \/ Compared \/ Ordered
<1>1. ASSUME NEW o \in BlockOutcome, Each(o) \/ Map(o) \/ Filter(o) \/ Reduce(o) PROVE Goal
  <2>1. fn \in Catching /\ fn # "sort" /\ fn # "index"
    BY <1>1 DEF Each, Map, Filter, Reduce, Catching
  <2>2. PICK args, new, v : Iterate(args, o, new, TRUE) \/ Finish(v)
    BY <1>1, ZenonT(30) DEF Each, Map, Filter, Reduce
  <2>3. TRUE = (fn \in Catching)
    BY <2>1
  <2>4. CASE Iterate(args, o, new, TRUE)
    BY <2>1, <2>3, <2>4, IterateStep
  <2>5. QED
    BY <2>1, <2>2, <2>4, FinishStep
<1>2. ASSUME NEW o \in BlockOutcome,
             With(o) \/ Slice(o) \/ AnyOf(o) \/ AllOf(o) \/ RangeOf(o) \/ TreeEach(o)
      PROVE Goal
  <2>1. fn \notin Catching /\ fn # "sort" /\ fn # "index"
    BY <1>2 DEF With, Slice, AnyOf, AllOf, RangeOf, TreeEach, Catching
  <2>2. PICK args, new, v : Iterate(args, o, new, FALSE) \/ Finish(v)
    BY <1>2, ZenonT(30) DEF With, Slice, AnyOf, AllOf, RangeOf, TreeEach
  <2>3. FALSE = (fn \in Catching)
    BY <2>1
  <2>4. CASE Iterate(args, o, new, FALSE)
    BY <2>1, <2>3, <2>4, IterateStep
  <2>5. QED
    BY <2>1, <2>2, <2>4, FinishStep
<1>3. ASSUME NEW o \in BlockOutcome, IndexOf(o) PROVE Goal
  <2>1. fn \notin Catching /\ fn # "sort" /\ fn = "index"
    BY <1>3 DEF IndexOf, Catching
  <2>2. CASE /\ Running /\ BlockCall(<<Head(todo)>>, o)[1] = "value"
             /\ Truthy(o[2]) /\ Call(<<Head(todo)>>, o) /\ gain' = ReturnOf(acc)
    <3>1. trace'[Count + 1].outcome = BlockCall(<<Head(todo)>>, o) /\ Count \in Nat
      BY <2>2, Grows
    <3>2. gain = << >> /\ gain' # << >>
      BY <2>2 DEF Running, ReturnOf
    <3>3. /\ Count \in Nat /\ Count' = Count + 1 /\ Traced'
          /\ \A k \in 1..Count : trace'[k] = trace[k]
      BY <2>2, Grows
    <3>4. BlockCall(<<Head(todo)>>, o)[2] = o[2]
      BY <2>2, OutcomeOf
    <3>5. Called
      BY <2>1, <2>2, <3>1, <3>2, <3>3, <3>4 DEF Called
    <3>6. QED
      BY <3>5
  <2>3. CASE /\ BlockCall(<<Head(todo)>>, o)[1] = "value" => ~Truthy(o[2])
             /\ Iterate(<<Head(todo)>>, o, acc + 1, FALSE)
    <3>1. FALSE = (fn \in Catching)
      BY <2>1
    <3>2. Called
      BY <2>1, <2>3, <3>1, IterateStep
    <3>3. QED
      BY <3>2
  <2>4. CASE Finish(Nil)
    BY <2>1, <2>4, FinishStep
  <2>5. QED
    BY <1>3, <2>2, <2>3, <2>4 DEF IndexOf
<1>4. ASSUME NEW o \in BlockOutcome, Sort(o) PROVE Goal
  <2> DEFINE args == <<acc.out[acc.j], acc.out[acc.j - 1]>>
  <2>1. fn = "sort" /\ gain = << >> /\ gain' = << >> /\ Call(args, o)
    BY <1>4 DEF Sort, Running
  <2>2. trace'[Count + 1].outcome = BlockCall(args, o)
    BY <2>1, Grows
  <2>3. acc'.err = IF BlockCall(args, o)[1] = "value" THEN acc.err ELSE BlockCall(args, o)
    BY <1>4 DEF Sort
  <2>4. Compared
    BY <2>1, <2>2, <2>3, Grows DEF Compared
  <2>5. QED
    BY <2>4
<1>5. ASSUME Sorted PROVE Goal
  BY <1>5 DEF Sorted, Running, Ordered
<1>6. ASSUME Panic PROVE Goal
  BY <1>6 DEF Panic, Panics, Running, Returns
<1>7. QED
  BY <1>0, <1>1, <1>2, <1>3, <1>4, <1>5, <1>6 DEF IterationNext

\* The last failure is the one behind which every call gave a value.
LastFact ==
  \A m \in 1..Count :
    ~Went(m) /\ (\A l \in (m + 1)..Count : Went(l)) => Failed /\ LastFailure = Out(m)

LEMMA LastIs == Traced => LastFact
<1> SUFFICES ASSUME Traced, NEW m \in 1..Count, ~Went(m), \A l \in (m + 1)..Count : Went(l)
             PROVE  Failed /\ LastFailure = Out(m)
  BY DEF LastFact
<1> DEFINE FailsLast(k) == trace[k].outcome[1] # "value" /\ \A l \in (k + 1)..Len(trace) : trace[l].outcome[1] = "value"
<1>1. FailsLast(m)
  BY DEF Went, Out, Count
<1>2. \A k \in 1..Len(trace) : FailsLast(k) => k = m
  <2>1. SUFFICES ASSUME NEW k \in 1..Len(trace), FailsLast(k), k # m PROVE FALSE
    OBVIOUS
  <2>2. CASE k < m
    BY <2>1, <2>2 DEF Went, Out, Count
  <2>3. CASE k > m
    BY <2>1, <2>3 DEF Went, Out, Count
  <2>4. QED
    BY <2>1, <2>2, <2>3 DEF Count
<1>3. (CHOOSE k \in 1..Len(trace) : FailsLast(k)) = m
  BY <1>1, <1>2 DEF Count
<1>4. QED
  BY <1>3 DEF LastFailure, Failed, Out, Count, Went

LEMMA HasLast ==
  ASSUME Traced, Failed
  PROVE  \E m \in 1..Count : ~Went(m) /\ \A l \in (m + 1)..Count : Went(l)
<1> DEFINE T == {k \in 1..Count : ~Went(k)}
<1>1. Count \in Nat /\ T \in SUBSET (0..Count) /\ T # {}
  BY DEF Traced, Failed, Count, Went, Out
<1>2. PICK m \in T : \A y \in T : y <= m
  <2> HIDE DEF T
  <2>1. QED
    BY <1>1, GreatestElement
<1>3. QED
  BY <1>1, <1>2

LEMMA NotNil == \A o \in BlockOutcome : o # << >> /\ EndOf(o) # << >>
BY DEF BlockOutcome, EndOf, ReturnOf

LEMMA CallingNext ==
  ASSUME Traced, Calling, IterationNext
  PROVE  Traced' /\ Calling'
<1>0. UNCHANGED fn /\ (Called \/ Returns \/ Compared \/ Ordered)
  BY StepKinds
<1>1. CASE Called
  <2>1. Quiet(Count) /\ Count \in Nat
    BY <1>1 DEF Called, Calling
  <2>2. \A k \in 1..Count : Went(k)' /\ (fn' = "index" => ~Truthy(Out(k)[2])')
    BY <1>0, <1>1, <2>1 DEF Called, Quiet, Went, Out, Truthy
  <2> DEFINE r == trace'[Count + 1].outcome
  <2>3. Failed' <=> r[1] # "value"
    BY <1>1, <2>1, <2>2 DEF Called, Failed, Went, Out, Count
  <2>4. Quiet(Count - 1)'
    BY <1>1, <2>1, <2>2 DEF Called, Quiet
  <2>5. gain' = << >> => Quiet(Count)'
    <3>1. SUFFICES ASSUME gain' = << >> PROVE Quiet(Count)'
      OBVIOUS
    <3>2. r \in BlockOutcome
      BY <1>1 DEF Called, Traced, Out
    <3>3. r # << >> /\ EndOf(r) # << >>
      BY <3>2, NotNil
    <3>4. r[1] = "value" /\ (fn = "index" => ~Truthy(r[2]))
      BY <1>1, <3>1, <3>3 DEF Called
    <3>5. QED
      BY <1>0, <1>1, <2>1, <2>2, <3>4 DEF Called, Quiet, Went, Out, Truthy
  <2>6. gain' # << >> /\ Failed' => gain' = EndOf(Out(Count))'
    BY <1>0, <1>1, <2>1, <2>3 DEF Called, EndOf, Out, ReturnOf
  <2>7. QED
    BY <1>0, <1>1, <2>4, <2>5, <2>6 DEF Called, Calling
<1>2. CASE Returns
  BY <1>0, <1>2 DEF Returns, Calling, Traced, Quiet, Count, Out, Went, Failed, Truthy
<1>3. CASE Compared
  <2> DEFINE r == trace'[Count + 1].outcome
  <2>1. Count \in Nat /\ Count' = Count + 1 /\ Traced'
    BY <1>3 DEF Compared
  <2>2. LastFact /\ LastFact'
    <3>1. Traced' => LastFact'
      BY LastIs, PTL
    <3>2. QED
      BY <2>1, <3>1, LastIs
  <2>3. (Went(Count)' <=> r[1] = "value") /\ Out(Count)' = r
    BY <2>1 DEF Went, Out
  <2>4. \A k \in 1..Count : Out(k)' = Out(k) /\ (Went(k)' <=> Went(k))
    BY <1>3, <2>1 DEF Compared, Went, Out
  <2>5. CASE r[1] # "value"
    <3>1. Failed' /\ LastFailure' = r
      <4>1. ~Went(Count)' /\ Count' \in 1..Count'
        BY <2>1, <2>3, <2>5
      <4>2. \A l \in (Count' + 1)..Count' : FALSE
        BY <2>1
      <4>3. QED
        BY <2>2, <2>3, <4>1, <4>2 DEF LastFact
    <3>2. acc'.err = r /\ gain' = << >> /\ fn' = "sort"
      BY <1>0, <1>3, <2>5 DEF Compared
    <3>3. QED
      BY <2>1, <3>1, <3>2 DEF Calling
  <2>6. CASE r[1] = "value" /\ Failed
    <3>1. PICK m \in 1..Count : ~Went(m) /\ \A l \in (m + 1)..Count : Went(l)
      BY <2>6, HasLast
    <3>2. LastFailure = Out(m)
      BY <2>2, <3>1 DEF LastFact
    <3>3. m \in 1..Count' /\ ~Went(m)' /\ Out(m)' = Out(m)
      BY <2>1, <2>4, <3>1
    <3>4. ASSUME NEW l \in (m + 1)..Count' PROVE Went(l)'
      <4>1. CASE l = Count'
        BY <2>3, <2>6, <4>1 DEF Went, Out
      <4>2. CASE l # Count'
        BY <2>1, <2>4, <3>1, <4>2
      <4>3. QED
        BY <4>1, <4>2
    <3>5. Failed' /\ LastFailure' = Out(m)'
      BY <2>2, <3>3, <3>4 DEF LastFact
    <3>6. acc'.err = acc.err /\ gain' = << >> /\ fn' = "sort" /\ acc.err = LastFailure
      BY <1>0, <1>3, <2>6 DEF Compared, Calling
    <3>7. QED
      BY <2>1, <3>2, <3>3, <3>5, <3>6 DEF Calling
  <2>7. CASE r[1] = "value" /\ ~Failed
    <3>1. ~Failed'
      BY <2>1, <2>3, <2>4, <2>7 DEF Failed, Went, Out, Count
    <3>2. acc'.err = acc.err /\ gain' = << >> /\ fn' = "sort" /\ acc.err = << >>
      BY <1>0, <1>3, <2>7 DEF Compared, Calling
    <3>3. QED
      BY <2>1, <3>1, <3>2 DEF Calling
  <2>8. QED
    BY <2>5, <2>6, <2>7
<1>4. CASE Ordered
  <2>1. Traced' /\ (Failed' <=> Failed) /\ LastFailure' = LastFailure
    BY <1>4 DEF Ordered, Traced, Count, Out, Failed, LastFailure
  <2>2. ASSUME Failed PROVE LastFailure # << >>
    <3>1. PICK m \in 1..Count : ~Went(m) /\ \A l \in (m + 1)..Count : Went(l)
      BY <2>2, HasLast
    <3>2. LastFailure = Out(m) /\ Out(m) \in BlockOutcome
      BY <3>1, LastIs DEF LastFact, Traced
    <3>3. QED
      BY <3>2, NotNil
  <2>3. fn' = "sort" /\ gain' # << >>
    BY <1>0, <1>4, <2>2 DEF Ordered, Calling, ReturnOf
  <2>4. Failed => gain' = LastFailure
    BY <1>4, <2>2 DEF Ordered, Calling
  <2>5. QED
    BY <2>1, <2>3, <2>4 DEF Calling
<1>5. QED
  BY <1>0, <1>1, <1>2, <1>3, <1>4

LEMMA CallingInit == IterationInit => Traced /\ Calling
<1> SUFFICES ASSUME IterationInit PROVE Traced /\ Calling
  OBVIOUS
<1>0. PICK f \in Fn, c \in Collection, n \in Chunk :
        fn = f /\ acc = First(f, c, n) /\ trace = << >> /\ gain = << >>
  BY DEF IterationInit
<1>1. fn = "sort" => acc.err = << >>
  BY <1>0 DEF First
<1>2. QED
  BY <1>0, <1>1 DEF Traced, Calling, Quiet, Count, Out, Went, Failed, Truthy

\* Nothing is lost and nothing goes on.
LEMMA CallingSuffices == Traced /\ Calling => NothingLost /\ SilentAfterEnd
<1> SUFFICES ASSUME Traced, Calling PROVE NothingLost /\ SilentAfterEnd
  OBVIOUS
<1>1. SilentAfterEnd
  BY DEF Calling, SilentAfterEnd, Quiet, Went, Out, Count
<1>2. ASSUME gain # << >>, Failed
      PROVE  gain = IF LastFailure[1] = "break" /\ fn \in Catching
                    THEN ReturnOf(LastFailure[2]) ELSE LastFailure
  <2>1. CASE fn = "sort"
    BY <1>2, <2>1 DEF Calling, Catching
  <2>2. CASE fn # "sort"
    <3>1. PICK m \in 1..Count : ~Went(m) /\ \A l \in (m + 1)..Count : Went(l)
      BY <1>2, HasLast
    <3>2. m = Count
      BY <2>2, <3>1 DEF Calling, Quiet, Count, Traced
    <3>3. LastFailure = Out(Count)
      BY <3>1, <3>2, LastIs DEF LastFact
    <3>4. QED
      BY <1>2, <2>2, <3>3 DEF Calling, EndOf
  <2>3. QED
    BY <2>1, <2>2
<1>3. QED
  BY <1>1, <1>2 DEF NothingLost, Catching

-----------------------------------------------------------------------------
\* What is called, and with what.
Fits ==
  /\ coll \in Collection /\ Supports(fn, coll)
  /\ fn = "reduce" => size \in {0, 1}
  /\ fn = "slice" => size \in Nat /\ size # 0

Good(k) == Truthy(Out(k)[2])
Chosen == {k \in 1..Count : Good(k)}
Rank(S, m) == Cardinality({h \in S : h <= m})

Parts(s) == {s[k] : k \in 1..Len(s)}
\* t is what is left of items after n of them.
Remaining(items, t, n) ==
  /\ items \in Seq(Parts(items)) /\ t \in Seq(Parts(t)) /\ n \in Nat
  /\ Len(t) = Len(items) - n
  /\ \A k \in 1..Len(t) : t[k] = items[n + k]

Filtered ==
  /\ Remaining(IterPairs(coll), todo, Count)
  /\ acc \in Seq(Parts(acc)) /\ Len(acc) = Cardinality(Chosen)
  /\ \A m \in Chosen : Rank(Chosen, m) \in 1..Len(acc) /\ acc[Rank(Chosen, m)] = Element(m)
  /\ \A k \in 1..Len(acc) : \E m \in Chosen : Rank(Chosen, m) = k

\* How far each function is, as long as its block does not fail.
Working ==
  gain = << >> =>
    /\ fn = "map" => acc \in Seq(Returned) /\ Len(acc) = Count /\ \A k \in 1..Count : acc[k] = Out(k)[2]
    /\ fn = "any" => acc \in BOOLEAN /\ (acc <=> \E k \in 1..Count : Good(k))
    /\ fn = "all" => acc \in BOOLEAN /\ (acc <=> \A k \in 1..Count : Good(k))
    /\ fn = "index" => acc = Count
    /\ fn \in {"reduce", "with"} => acc = IF Count = 0 THEN First(fn, coll, size) ELSE Out(Count)[2]
    /\ fn = "with" /\ Count = 0 => todo # << >>
    /\ fn = "filter" => Filtered

\* A call of the block that gave a value.
Succeeded(args, o, new) ==
  /\ gain = << >> /\ todo # << >> /\ acc' = new /\ todo' = Tail(todo)
  /\ UNCHANGED <<fn, coll, arity, size>> /\ gain' = << >>
  /\ Count \in Nat /\ Count' = Count + 1 /\ Traced' /\ \A k \in 1..Count : trace'[k] = trace[k]
  /\ trace'[Count + 1].args = args /\ o[2] \in Returned
  /\ trace'[Count + 1].outcome[1] = "value" /\ trace'[Count + 1].outcome[2] = o[2]

LEMMA IterateEither ==
  ASSUME Traced, NEW args, NEW o \in BlockOutcome, NEW new, NEW catches, Iterate(args, o, new, catches)
  PROVE  Succeeded(args, o, new) \/ (gain' # << >> /\ Failed')
<1> DEFINE r == BlockCall(args, o)
<1>1. /\ Call(args, o) /\ gain = << >> /\ todo # << >> /\ UNCHANGED <<fn, coll, arity, size>>
      /\ r[1] = "value" => gain' = gain /\ acc' = new /\ todo' = Tail(todo)
      /\ r[1] # "value" => gain' = IF r[1] = "break" /\ catches THEN ReturnOf(r[2]) ELSE r
  BY DEF Iterate, Running
<1>2. (r[1] = "value" => r[2] = o[2] /\ o[2] \in Returned) /\ r # << >>
  BY OutcomeOf
<1>3. /\ trace'[Count + 1].outcome = r /\ Count \in Nat /\ Count' = Count + 1 /\ Traced'
      /\ \A k \in 1..Count : trace'[k] = trace[k]
      /\ trace'[Count + 1] = [args |-> args, outcome |-> r]
  BY <1>1, Grows
<1>4. trace'[Count + 1].args = args
  BY <1>3
<1> HIDE DEF r
<1>5. CASE r[1] = "value"
  BY <1>1, <1>2, <1>3, <1>4, <1>5 DEF Succeeded
<1>6. CASE r[1] # "value"
  <2>0. ReturnOf(r[2]) # << >>
    BY DEF ReturnOf
  <2>1. gain' # << >>
    BY <1>1, <1>2, <1>6, <2>0
  <2>2. Count + 1 \in 1..Len(trace') /\ trace'[Count + 1].outcome[1] # "value"
    BY <1>3, <1>6 DEF Count
  <2>3. QED
    BY <2>1, <2>2 DEF Failed
<1>7. QED
  BY <1>5, <1>6

\* What the properties expect, for each function.
ExpectedFact ==
  ~Failed =>
    /\ fn \in {"each", "slice", "tree_each"} => Expected = coll
    /\ fn = "map" => Expected = [k \in 1..Count |-> Out(k)[2]]
    /\ fn = "filter" =>
         Expected = [k \in 1..Cardinality(Chosen) |-> Element(Ranked(Chosen, k))]
    /\ fn = "any" => Expected = (Chosen # {})
    /\ fn = "all" => Expected = (Chosen = 1..Count)
    /\ fn = "index" => Expected = IF Chosen = {} THEN Nil ELSE Count - 1
    /\ fn \in {"reduce", "with"} =>
         Expected = IF Count > 0 THEN Out(Count)[2] ELSE IF size = 1 THEN Seed
                       ELSE IF Todo(fn, coll, 1) = << >> THEN Nil ELSE Todo(fn, coll, 1)[1]
    /\ fn = "range" => Expected = Nil

LEMMA SameCardinality == \A S : Cardinality(S) = Cardinality(S)
BY Zenon DEF Cardinality, Cardinality

LEMMA ExpectedIs == Traced => ExpectedFact
<1> SUFFICES ASSUME Traced, ~Failed PROVE ExpectedFact
  BY DEF ExpectedFact
<1>1. Count = Len(trace) /\ Count \in Nat /\ Values = [k \in 1..Count |-> Out(k)[2]]
  BY DEF Values, Failed, Out, Count, Traced
<1>2. Chosen = Hits
  BY <1>1 DEF Chosen, Good, Hits
<1>4. CASE fn = "filter"
  <2>1. Expected = [k \in 1..Cardinality(Hits) |-> Element(Ranked(Hits, k))]
    BY <1>4 DEF Expected
  <2>2. QED
    BY <1>2, <1>4, <2>1, SameCardinality DEF ExpectedFact
<1>5. CASE fn \in {"each", "slice", "tree_each", "map", "range"}
  BY <1>1, <1>5 DEF Expected, ExpectedFact
<1>6. CASE fn \in {"any", "all", "index"}
  BY <1>1, <1>2, <1>6 DEF Expected, ExpectedFact
<1>7. CASE fn \in {"reduce", "with"}
  BY <1>1, <1>7 DEF Expected, ExpectedFact
<1>8. QED
  BY <1>4, <1>5, <1>6, <1>7 DEF ExpectedFact

\* What a function returns that goes through its loop.
LoopGives == gain # << >> /\ ~Failed => gain = ReturnOf(Expected)

LEMMA NoResult ==
  ASSUME gain' # << >>, Failed'
  PROVE  Working' /\ LoopGives'
BY DEF Working, LoopGives

LEMMA FinishGives ==
  ASSUME Traced, NEW v, Finish(v), ~Failed => v = Expected,
         fn \in {"each", "slice", "tree_each", "map", "filter", "any", "all", "index", "reduce", "with", "range"}
  PROVE  Working' /\ LoopGives'
<1>1. UNCHANGED <<fn, coll, size, trace>> /\ gain' = ReturnOf(v)
  BY DEF Finish
<1>2. /\ Count' = Count /\ Chosen' = Chosen /\ (Failed' <=> Failed) /\ Traced'
      /\ \A k : Out(k)' = Out(k) /\ Element(k)' = Element(k)
  BY <1>1 DEF Count, Chosen, Good, Out, Failed, Traced, Truthy, Element
<1>3. ExpectedFact /\ ExpectedFact'
  <2>1. Traced' => ExpectedFact'
    BY ExpectedIs, PTL
  <2>2. QED
    BY <1>2, <2>1, ExpectedIs
<1>4. ASSUME ~Failed PROVE Expected' = Expected
  <2> USE <1>1, <1>2, <1>3, <1>4
  <2>1. CASE fn = "filter"
    <3>1. Cardinality(Chosen)' = Cardinality(Chosen)
      BY <1>2
    <3>2. Expected = [k \in 1..Cardinality(Chosen) |-> Element(Ranked(Chosen, k))]
      BY <2>1 DEF ExpectedFact
    <3>3. Expected' = [k \in 1..Cardinality(Chosen) |-> Element(Ranked(Chosen, k))']
      BY <2>1, <3>1 DEF ExpectedFact
    <3>4. \A k : Element(Ranked(Chosen, k))' = Element(Ranked(Chosen, k))
      BY DEF Element
    <3>5. QED
      BY <3>2, <3>3, <3>4
  <2>2. CASE fn \in {"reduce", "with"}
    <3>1. Todo(fn, coll, 1)' = Todo(fn, coll, 1)
      BY <1>1
    <3>2. QED
      BY <2>2, <3>1 DEF ExpectedFact
  <2>3. CASE fn = "map"
    <3>1. [k \in 1..Count |-> Out(k)[2]]' = [k \in 1..Count |-> Out(k)[2]]
      OBVIOUS
    <3>2. QED
      BY <2>3, <3>1 DEF ExpectedFact
  <2>4. CASE fn \in {"any", "all", "index"}
    BY <2>4 DEF ExpectedFact
  <2>5. CASE fn \in {"each", "slice", "tree_each", "range"}
    BY <2>5 DEF ExpectedFact
  <2>6. QED
    BY <2>1, <2>2, <2>3, <2>4, <2>5
<1>5. QED
  BY <1>1, <1>2, <1>4 DEF Working, LoopGives, ReturnOf

\* What a call that gave a value leaves of the earlier ones.
LEMMA EarlierKept ==
  ASSUME NEW args, NEW o, NEW new, Succeeded(args, o, new)
  PROVE  /\ \A k \in 1..Count : Out(k)' = Out(k) /\ (Good(k)' <=> Good(k))
         /\ Out(Count)'[2] = o[2] /\ (Good(Count)' <=> Truthy(o[2]))
         /\ Chosen' = Chosen \cup (IF Truthy(o[2]) THEN {Count + 1} ELSE {})
<1>1. \A k \in 1..Count : Out(k)' = Out(k) /\ (Good(k)' <=> Good(k))
  BY DEF Succeeded, Out, Good, Truthy
<1>2. Out(Count)'[2] = o[2] /\ (Good(Count)' <=> Truthy(o[2]))
  BY DEF Succeeded, Out, Good, Truthy
<1>3. QED
  BY <1>1, <1>2 DEF Chosen, Succeeded

LEMMA EachNext ==
  ASSUME Traced, NEW o \in BlockOutcome,
         Each(o) \/ Slice(o) \/ TreeEach(o) \/ RangeOf(o)
  PROVE  Working' /\ LoopGives'
<1>1. fn \in {"each", "slice", "tree_each", "range"}
  BY DEF Each, Slice, TreeEach, RangeOf
<1>2. PICK args, catches : Iterate(args, o, acc, catches) \/ Finish(IF fn = "range" THEN Nil ELSE coll)
  BY ZenonT(30) DEF Each, Slice, TreeEach, RangeOf
<1>3. CASE Iterate(args, o, acc, catches)
  <2>1. CASE Succeeded(args, o, acc)
    BY <1>1, <2>1 DEF Succeeded, Working, LoopGives
  <2>2. QED
    BY <1>3, <2>1, IterateEither, NoResult
<1>4. CASE Finish(IF fn = "range" THEN Nil ELSE coll)
  <2>1. ~Failed => (IF fn = "range" THEN Nil ELSE coll) = Expected
    BY <1>1, ExpectedIs DEF ExpectedFact
  <2>2. QED
    BY <1>1, <1>4, <2>1, FinishGives
<1>5. QED
  BY <1>2, <1>3, <1>4

LEMMA MapNext ==
  ASSUME Traced, Working, NEW o \in BlockOutcome, Map(o)
  PROVE  Working' /\ LoopGives'
<1>1. fn = "map"
  BY DEF Map
<1>2. PICK args, catches : Iterate(args, o, Append(acc, o[2]), catches) \/ Finish(acc)
  BY DEF Map
<1>3. CASE Iterate(args, o, Append(acc, o[2]), catches)
  <2>1. CASE Succeeded(args, o, Append(acc, o[2]))
    <3>1. /\ acc \in Seq(Returned) /\ Len(acc) = Count /\ \A k \in 1..Count : acc[k] = Out(k)[2]
          /\ acc' = Append(acc, o[2]) /\ o[2] \in Returned /\ Count' = Count + 1
      BY <1>1, <2>1 DEF Working, Succeeded
    <3>2. acc' \in Seq(Returned) /\ Len(acc') = Count'
      BY <3>1
    <3>3. \A k \in 1..Count' : acc'[k] = Out(k)'[2]
      BY <2>1, <3>1, EarlierKept
    <3>4. fn' = "map" /\ gain' = << >>
      BY <1>1, <2>1 DEF Succeeded
    <3>5. QED
      BY <3>2, <3>3, <3>4 DEF Working, LoopGives
  <2>2. QED
    BY <1>3, <2>1, IterateEither, NoResult
<1>4. CASE Finish(acc)
  <2>1. gain = << >>
    BY <1>4 DEF Finish, Running
  <2>2. acc = [k \in 1..Count |-> Out(k)[2]]
    BY <1>1, <2>1 DEF Working
  <2>3. ~Failed => acc = Expected
    BY <1>1, <2>2, ExpectedIs DEF ExpectedFact
  <2>4. QED
    BY <1>1, <1>4, <2>3, FinishGives
<1>5. QED
  BY <1>2, <1>3, <1>4

LEMMA AnyAllNext ==
  ASSUME Traced, Working, NEW o \in BlockOutcome, AnyOf(o) \/ AllOf(o)
  PROVE  Working' /\ LoopGives'
<1> DEFINE new == IF fn = "any" THEN acc \/ Truthy(o[2]) ELSE acc /\ Truthy(o[2])
<1>1. fn \in {"any", "all"}
  BY DEF AnyOf, AllOf
<1>2. PICK args, catches : Iterate(args, o, new, catches) \/ Finish(acc)
  <2>1. CASE AnyOf(o)
    BY <2>1 DEF AnyOf
  <2>2. CASE AllOf(o)
    BY <2>2 DEF AllOf
  <2>3. QED
    BY <2>1, <2>2
<1>3. CASE Iterate(args, o, new, catches)
  <2>1. CASE Succeeded(args, o, new)
    <3>1. /\ acc' = new /\ Count' = Count + 1 /\ Count \in Nat /\ fn' = fn /\ gain' = << >> /\ gain = << >>
      BY <2>1 DEF Succeeded
    <3>2. /\ \A k \in 1..Count : Good(k)' <=> Good(k)
          /\ Good(Count)' <=> Truthy(o[2])
      BY <2>1, EarlierKept
    <3>3. fn = "any" => acc' \in BOOLEAN /\ (acc' <=> \E k \in 1..Count' : Good(k)')
      <4>1. SUFFICES ASSUME fn = "any" PROVE acc' \in BOOLEAN /\ (acc' <=> \E k \in 1..Count' : Good(k)')
        OBVIOUS
      <4>2. acc \in BOOLEAN /\ (acc <=> \E k \in 1..Count : Good(k))
        BY <3>1, <4>1 DEF Working
      <4>3. (\E k \in 1..Count' : Good(k)') <=> (\E k \in 1..Count : Good(k)) \/ Truthy(o[2])
        BY <3>1, <3>2
      <4>4. acc' = (acc \/ Truthy(o[2]))
        BY <3>1, <4>1
      <4>5. QED
        BY <4>2, <4>3, <4>4
    <3>4. fn = "all" => acc' \in BOOLEAN /\ (acc' <=> \A k \in 1..Count' : Good(k)')
      <4>1. SUFFICES ASSUME fn = "all" PROVE acc' \in BOOLEAN /\ (acc' <=> \A k \in 1..Count' : Good(k)')
        OBVIOUS
      <4>2. acc \in BOOLEAN /\ (acc <=> \A k \in 1..Count : Good(k))
        BY <3>1, <4>1 DEF Working
      <4>3. (\A k \in 1..Count' : Good(k)') <=> (\A k \in 1..Count : Good(k)) /\ Truthy(o[2])
        BY <3>1, <3>2
      <4>4. acc' = (acc /\ Truthy(o[2]))
        BY <3>1, <4>1
      <4>5. QED
        BY <4>2, <4>3, <4>4
    <3>5. QED
      BY <1>1, <3>1, <3>3, <3>4 DEF Working, LoopGives
  <2>2. QED
    BY <1>3, <2>1, IterateEither, NoResult
<1>4. CASE Finish(acc)
  <2>1. gain = << >>
    BY <1>4 DEF Finish, Running
  <2>2. CASE fn = "any"
    <3>1. acc = (Chosen # {})
      BY <2>1, <2>2 DEF Working, Chosen
    <3>2. QED
      BY <1>4, <2>2, <3>1, ExpectedIs, FinishGives DEF ExpectedFact
  <2>3. CASE fn = "all"
    <3>1. acc = (Chosen = 1..Count)
      BY <2>1, <2>3 DEF Working, Chosen
    <3>2. QED
      BY <1>4, <2>3, <3>1, ExpectedIs, FinishGives DEF ExpectedFact
  <2>4. QED
    BY <1>1, <2>2, <2>3
<1>5. QED
  BY <1>2, <1>3, <1>4

LEMMA ReduceWithNext ==
  ASSUME Traced, Fits, Working, NEW o \in BlockOutcome, Reduce(o) \/ With(o)
  PROVE  Working' /\ LoopGives'
<1>1. fn \in {"reduce", "with"}
  BY DEF Reduce, With
<1>2. PICK args, catches : Iterate(args, o, o[2], catches) \/ Finish(acc)
  BY ZenonT(30) DEF Reduce, With
<1>3. CASE Iterate(args, o, o[2], catches)
  <2>1. CASE Succeeded(args, o, o[2])
    <3>1. acc' = o[2] /\ Count' = Count + 1 /\ Count \in Nat /\ fn' = fn /\ gain' = << >>
      BY <2>1 DEF Succeeded
    <3>2. Out(Count)'[2] = o[2]
      BY <2>1, EarlierKept
    <3>3. QED
      BY <1>1, <3>1, <3>2 DEF Working, LoopGives
  <2>2. QED
    BY <1>3, <2>1, IterateEither, NoResult
<1>4. CASE Finish(acc)
  <2>1. gain = << >> /\ todo = << >> /\ Count \in Nat
    BY <1>4 DEF Finish, Running, Traced, Count
  <2>2. acc = IF Count = 0 THEN First(fn, coll, size) ELSE Out(Count)[2]
    BY <1>1, <2>1 DEF Working
  <2>3. fn = "with" => Count # 0
    BY <2>1 DEF Working
  <2>4. ASSUME ~Failed PROVE acc = Expected
    <3>1. Expected = IF Count > 0 THEN Out(Count)[2] ELSE IF size = 1 THEN Seed
                        ELSE IF Todo(fn, coll, 1) = << >> THEN Nil ELSE Todo(fn, coll, 1)[1]
      BY <1>1, <2>4, ExpectedIs DEF ExpectedFact
    <3>2. CASE Count # 0
      BY <2>1, <2>2, <3>1, <3>2
    <3>3. CASE Count = 0
      <4>1. fn = "reduce" /\ size \in {0, 1}
        BY <1>1, <2>3, <3>3 DEF Fits
      <4>2. Todo(fn, coll, 1) = ElementsOf(coll)
        BY <4>1 DEF Todo, OfPairs
      <4>3. First(fn, coll, size) = IF size # 0 THEN Seed
              ELSE IF ElementsOf(coll) = << >> THEN Nil ELSE Head(ElementsOf(coll))
        BY <4>1 DEF First
      <4>4. QED
        BY <2>2, <3>1, <3>3, <4>1, <4>2, <4>3
    <3>4. QED
      BY <3>2, <3>3
  <2>5. QED
    BY <1>1, <1>4, <2>4, FinishGives
<1>5. QED
  BY <1>2, <1>3, <1>4

LEMMA IndexNext ==
  ASSUME Traced, Calling, Working, NEW o \in BlockOutcome, IndexOf(o)
  PROVE  Working' /\ LoopGives'
<1>1. fn = "index" /\ UNCHANGED fn
  BY DEF IndexOf, Iterate, Finish
<1>2. CASE /\ Running /\ BlockCall(<<Head(todo)>>, o)[1] = "value"
           /\ Truthy(o[2]) /\ Call(<<Head(todo)>>, o) /\ gain' = ReturnOf(acc)
  <2> DEFINE r == BlockCall(<<Head(todo)>>, o)
  <2>1. /\ trace'[Count + 1].outcome = r /\ Count \in Nat /\ Count' = Count + 1 /\ Traced'
        /\ \A k \in 1..Count : trace'[k] = trace[k]
    BY <1>2, Grows
  <2>2. r[2] = o[2] /\ gain = << >> /\ acc = Count
    BY <1>1, <1>2, OutcomeOf DEF Running, Working
  <2>3. Good(Count)'
    BY <1>2, <2>1, <2>2 DEF Good, Out, Truthy
  <2>4. Chosen' # {}
    BY <2>1, <2>3 DEF Chosen
  <2>5. Traced' => ExpectedFact'
    BY ExpectedIs, PTL
  <2>6. ~Failed' => Expected' = Count' - 1
    BY <1>1, <2>1, <2>4, <2>5 DEF ExpectedFact
  <2>7. QED
    BY <1>2, <2>1, <2>2, <2>6 DEF Working, LoopGives, ReturnOf
<1>3. CASE Iterate(<<Head(todo)>>, o, acc + 1, FALSE)
  <2>1. CASE Succeeded(<<Head(todo)>>, o, acc + 1)
    BY <1>1, <2>1 DEF Succeeded, Working, LoopGives
  <2>2. QED
    BY <1>3, <2>1, IterateEither, NoResult
<1>4. CASE Finish(Nil)
  <2>1. gain = << >>
    BY <1>4 DEF Finish, Running
  <2>2. Chosen = {}
    BY <1>1, <2>1 DEF Calling, Quiet, Chosen, Good
  <2>3. ~Failed => Nil = Expected
    BY <1>1, <2>2, ExpectedIs DEF ExpectedFact
  <2>4. QED
    BY <1>1, <1>4, <2>3, FinishGives
<1>5. QED
  BY <1>2, <1>3, <1>4 DEF IndexOf

LEMMA RemainingNext ==
  ASSUME NEW items, NEW t, NEW n, Remaining(items, t, n), t # << >>
  PROVE  /\ n + 1 \in 1..Len(items) /\ Head(t) = items[n + 1]
         /\ Remaining(items, Tail(t), n + 1)
<1>1. /\ t \in Seq(Parts(t)) /\ n \in Nat /\ Len(t) = Len(items) - n /\ Len(t) \in Nat /\ Len(items) \in Nat
      /\ \A k \in 1..Len(t) : t[k] = items[n + k]
  BY DEF Remaining
<1>2. Len(t) # 0
  BY <1>1
<1>3. Head(t) = items[n + 1]
  BY <1>1, <1>2
<1>4. /\ Tail(t) \in Seq(Parts(t)) /\ Len(Tail(t)) = Len(t) - 1
      /\ \A k \in 1..Len(Tail(t)) : Tail(t)[k] = t[k + 1]
  <2> HIDE DEF Parts
  <2>1. QED
    BY <1>1, <1>2, HeadTailProperties
<1>5. Tail(t) \in Seq(Parts(Tail(t)))
  BY <1>4, SeqOfItself DEF Parts
<1>6. \A k \in 1..Len(Tail(t)) : Tail(t)[k] = items[n + 1 + k]
  BY <1>1, <1>4
<1>7. QED
  BY <1>1, <1>2, <1>3, <1>4, <1>5, <1>6 DEF Remaining

\* The pairs of a collection are a sequence, of its elements with their places.
LEMMA PairsOf ==
  ASSUME Fits, coll[1] \in {"int", "arr", "hash"}
  PROVE  LET items == IterPairs(coll) IN
         /\ items \in Seq(Parts(items))
         /\ \A i \in 1..Len(items) : Kept(items[i]) = Element(i)
<1> DEFINE items == IterPairs(coll)
<1>1. CASE coll[1] = "int"
  <2> DEFINE n == IF coll[2] > 0 THEN coll[2] ELSE 0
  <2>0. coll[2] \in Int
    BY <1>1, IterationAssumption DEF Fits
  <2>1. n \in Nat /\ 1..coll[2] = 1..n
    BY <2>0
  <2>2. items = [i \in 1..n |-> <<i - 1, i - 1>>]
    BY <1>1, <2>1 DEF IterPairs
  <2> HIDE DEF items, n
  <2>3. items = [i \in 1..n |-> items[i]]
    BY <2>2
  <2>4. items \in Seq(Parts(items)) /\ Len(items) = n
    BY <2>1, <2>3, SeqFrom DEF Parts
  <2>5. \A i \in 1..Len(items) : Kept(items[i]) = Element(i)
    BY <1>1, <2>2, <2>4 DEF Kept, Element
  <2>6. QED
    BY <2>4, <2>5 DEF items
<1>2. CASE coll[1] = "arr"
  <2> DEFINE n == Len(coll[2])
  <2>1. coll[2] \in Seq({coll[2][k] : k \in DOMAIN coll[2]}) /\ n \in Nat
    BY <1>2, IterationAssumption DEF Fits
  <2>2. items = [i \in 1..n |-> <<i - 1, coll[2][i]>>]
    BY <1>2, <2>1 DEF IterPairs
  <2> HIDE DEF items, n
  <2>3. items = [i \in 1..n |-> items[i]]
    BY <2>2
  <2>4. items \in Seq(Parts(items)) /\ Len(items) = n
    BY <2>1, <2>3, SeqFrom DEF Parts
  <2>5. \A i \in 1..Len(items) : Kept(items[i]) = Element(i)
    BY <1>2, <2>2, <2>4 DEF Kept, Element
  <2>6. QED
    BY <2>4, <2>5 DEF items
<1>3. CASE coll[1] = "hash"
  <2>1. coll[2] \in Seq({coll[2][k] : k \in DOMAIN coll[2]})
    BY <1>3, IterationAssumption DEF Fits
  <2>2. items = coll[2]
    BY <1>3 DEF IterPairs
  <2>3. items \in Seq(Parts(items))
    BY <2>1, <2>2, SeqOfItself DEF Parts
  <2>4. \A i \in 1..Len(items) : Kept(items[i]) = Element(i)
    BY <1>3, <2>2 DEF Kept, Element
  <2>5. QED
    BY <2>3, <2>4
<1>4. QED
  BY <1>1, <1>2, <1>3

\* A number greater than the others of a set comes last in it.
LEMMA LastRank ==
  ASSUME NEW n \in Nat, NEW H \in SUBSET (1..n)
  PROVE  LET more == H \cup {n + 1} IN
         /\ Cardinality(H) \in Nat /\ Cardinality(more) = Cardinality(H) + 1
         /\ \A m \in H : {h \in more : h <= m} = {h \in H : h <= m}
         /\ {h \in more : h <= n + 1} = more
<1>1. IsFiniteSet(H)
  <2>1. IsFiniteSet(1..n)
    BY FS_Interval
  <2>2. QED
    BY <2>1, FS_Subset
<1>2. n + 1 \notin H
  OBVIOUS
<1>3. Cardinality(H) \in Nat /\ Cardinality(H \cup {n + 1}) = Cardinality(H) + 1
  BY <1>1, <1>2, FS_AddElement, FS_CardinalityType
<1>4. \A m \in H : {h \in H \cup {n + 1} : h <= m} = {h \in H : h <= m}
  OBVIOUS
<1>5. {h \in H \cup {n + 1} : h <= n + 1} = H \cup {n + 1}
  <2>1. \A h \in H \cup {n + 1} : h <= n + 1
    OBVIOUS
  <2>2. QED
    BY <2>1
<1>6. QED
  BY <1>3, <1>4, <1>5

LEMMA FilterNext ==
  ASSUME Fits, Traced, Working, NEW o \in BlockOutcome, Filter(o)
  PROVE  Working' /\ LoopGives'
<1> DEFINE kept == Kept(Head(todo))
           new == IF Truthy(o[2]) THEN Append(acc, kept) ELSE acc
<1>1. fn = "filter" /\ coll[1] \in {"int", "arr", "hash"}
  BY DEF Filter, Fits, Supports, OfPairs
<1>2. PICK args, catches : Iterate(args, o, new, catches) \/ Finish(acc)
  BY DEF Filter
<1>3. CASE Iterate(args, o, new, catches)
  <2>1. CASE Succeeded(args, o, new)
    <3>1. /\ gain = << >> /\ todo # << >> /\ acc' = new /\ todo' = Tail(todo) /\ Count \in Nat
          /\ Count' = Count + 1 /\ UNCHANGED <<fn, coll>> /\ gain' = << >>
      BY <2>1 DEF Succeeded
    <3> DEFINE items == IterPairs(coll)
    <3>2. /\ Remaining(items, todo, Count) /\ acc \in Seq(Parts(acc)) /\ Len(acc) = Cardinality(Chosen)
          /\ \A m \in Chosen : Rank(Chosen, m) \in 1..Len(acc) /\ acc[Rank(Chosen, m)] = Element(m)
          /\ \A k \in 1..Len(acc) : \E m \in Chosen : Rank(Chosen, m) = k
      BY <1>1, <3>1 DEF Working, Filtered
    <3> HIDE DEF items, new, kept
    <3>3. Count + 1 \in 1..Len(items) /\ Head(todo) = items[Count + 1] /\ Remaining(items, todo', Count')
      BY <3>1, <3>2, RemainingNext
    <3>4. kept = Element(Count + 1)
      BY <1>1, <3>3, PairsOf DEF items, kept
    <3>5. items' = items /\ \A i : Element(i)' = Element(i)
      BY <3>1 DEF items, IterPairs, Element
    <3>6. CASE ~Truthy(o[2])
      <4>1. Chosen' = Chosen /\ acc' = acc
        BY <2>1, <3>1, <3>6, EarlierKept DEF new
      <4>2. Filtered'
        BY <3>2, <3>3, <3>5, <4>1 DEF Filtered, items
      <4>3. QED
        BY <1>1, <3>1, <4>2 DEF Working, LoopGives
    <3>7. CASE Truthy(o[2])
      <4>1. Chosen' = Chosen \cup {Count + 1} /\ Chosen \in SUBSET (1..Count)
        BY <2>1, <3>7, EarlierKept DEF Chosen
      <4>2. acc' = Append(acc, kept)
        BY <3>1, <3>7 DEF new
      <4>3. /\ acc' \in Seq(Parts(acc')) /\ Len(acc') = Len(acc) + 1 /\ acc'[Len(acc) + 1] = kept
            /\ \A k \in 1..Len(acc) : acc'[k] = acc[k]
        <5>1. acc \in Seq(Parts(acc) \cup {kept})
          BY <3>2, SeqMonotonic
        <5> DEFINE S == Parts(acc) \cup {kept}
        <5>2. acc \in Seq(S) /\ kept \in S
          BY <5>1
        <5> HIDE DEF S
        <5>3. acc' \in Seq(S) /\ Len(acc') = Len(acc) + 1 /\ acc'[Len(acc) + 1] = kept
              /\ \A k \in 1..Len(acc) : acc'[k] = acc[k]
          BY <4>2, <5>2
        <5>4. QED
          BY <5>3, SeqOfItself DEF Parts
      <4>4. /\ Cardinality(Chosen') = Cardinality(Chosen) + 1 /\ Cardinality(Chosen) \in Nat
            /\ \A m \in Chosen : Rank(Chosen', m) = Rank(Chosen, m)
            /\ Rank(Chosen', Count + 1) = Cardinality(Chosen) + 1
        <5>1. /\ Cardinality(Chosen) \in Nat /\ Cardinality(Chosen') = Cardinality(Chosen) + 1
              /\ \A m \in Chosen : {h \in Chosen' : h <= m} = {h \in Chosen : h <= m}
              /\ {h \in Chosen' : h <= Count + 1} = Chosen'
          BY <3>1, <4>1, LastRank
        <5>2. \A m \in Chosen : Rank(Chosen', m) = Rank(Chosen, m)
          BY <5>1 DEF Rank
        <5>3. Rank(Chosen', Count + 1) = Cardinality(Chosen')
          BY <5>1 DEF Rank
        <5>4. QED
          BY <5>1, <5>2, <5>3
      <4>5. ASSUME NEW m \in Chosen'
            PROVE  Rank(Chosen', m) \in 1..Len(acc') /\ acc'[Rank(Chosen', m)] = Element(m)
        <5>1. CASE m \in Chosen
          <6>1. Rank(Chosen', m) = Rank(Chosen, m) /\ Rank(Chosen, m) \in 1..Len(acc) /\ acc[Rank(Chosen, m)] = Element(m)
            BY <3>2, <4>4, <5>1
          <6>2. QED
            BY <3>2, <4>3, <4>4, <6>1
        <5>2. CASE m = Count + 1
          <6>1. Rank(Chosen', m) = Len(acc) + 1 /\ Len(acc) \in Nat
            BY <3>2, <4>4, <5>2
          <6>2. QED
            BY <3>4, <4>3, <5>2, <6>1
        <5>3. QED
          BY <4>1, <5>1, <5>2
      <4>6. ASSUME NEW k \in 1..Len(acc') PROVE \E m \in Chosen' : Rank(Chosen', m) = k
        <5>1. CASE k = Len(acc) + 1
          BY <3>2, <4>1, <4>4, <5>1
        <5>2. CASE k # Len(acc) + 1
          <6>1. PICK m \in Chosen : Rank(Chosen, m) = k
            BY <3>2, <4>3, <4>4, <5>2
          <6>2. QED
            BY <4>1, <4>4, <6>1
        <5>3. QED
          BY <5>1, <5>2
      <4>7. Filtered'
        <5>1. Remaining(IterPairs(coll), todo, Count)'
          BY <3>3, <3>5 DEF items
        <5>2. Len(acc') = Cardinality(Chosen')
          BY <3>2, <4>3, <4>4
        <5>3. \A m \in Chosen' : Rank(Chosen', m) \in 1..Len(acc') /\ acc'[Rank(Chosen', m)] = Element(m)'
          BY <3>5, <4>5
        <5>4. QED
          BY <4>3, <4>6, <5>1, <5>2, <5>3 DEF Filtered
      <4>8. QED
        BY <1>1, <3>1, <4>7 DEF Working, LoopGives
    <3>8. QED
      BY <3>6, <3>7
  <2>2. QED
    BY <1>3, <2>1, IterateEither, NoResult
<1>4. CASE Finish(acc)
  <2>1. gain = << >>
    BY <1>4 DEF Finish, Running
  <2>2. Filtered
    BY <1>1, <2>1 DEF Working
  <2>3. \A k \in 1..Len(acc) : acc[k] = Element(Ranked(Chosen, k))
    <3>1. SUFFICES ASSUME NEW k \in 1..Len(acc) PROVE acc[k] = Element(Ranked(Chosen, k))
      OBVIOUS
    <3>2. \E m \in Chosen : Rank(Chosen, m) = k
      BY <2>2 DEF Filtered
    <3>3. Ranked(Chosen, k) = CHOOSE m \in Chosen : Rank(Chosen, m) = k
      BY SameCardinality, Zenon DEF Ranked, Rank
    <3>4. Ranked(Chosen, k) \in Chosen /\ Rank(Chosen, Ranked(Chosen, k)) = k
      BY <3>2, <3>3, Zenon
    <3>5. QED
      BY <2>2, <3>4 DEF Filtered
  <2>4. acc = [k \in 1..Cardinality(Chosen) |-> Element(Ranked(Chosen, k))]
    BY <2>2, <2>3 DEF Filtered
  <2>5. ~Failed => acc = Expected
    BY <1>1, <2>4, ExpectedIs DEF ExpectedFact
  <2>6. QED
    BY <1>1, <1>4, <2>5, FinishGives
<1>5. QED
  BY <1>2, <1>3, <1>4
-----------------------------------------------------------------------------
\* Flattening a sequence of sequences, by the sequences that its beginnings flatten to.
LEMMA FlattensTo ==
  ASSUME NEW s, NEW g, Len(s) \in Nat, Len(s) # 0, g = [i \in 1..Len(s) |-> g[i]], g[1] = s[1],
         \A i \in 2..Len(s) : g[i] = g[i - 1] \o s[i]
  PROVE  FlattenSeq(s) = g[Len(s)]
<1> DEFINE Is(f) == f = [i \in 1..Len(s) |-> IF i = 1 THEN s[i] ELSE f[i - 1] \o s[i]]
<1>1. Is(g)
  <2>1. ASSUME NEW i \in 1..Len(s) PROVE g[i] = IF i = 1 THEN s[i] ELSE g[i - 1] \o s[i]
    <3>1. CASE i = 1
      BY <3>1
    <3>2. CASE i # 1
      <4>1. i \in 2..Len(s)
        BY <3>2
      <4>2. QED
        BY <3>2, <4>1
    <3>3. QED
      BY <3>1, <3>2
  <2>2. [i \in 1..Len(s) |-> g[i]] = [i \in 1..Len(s) |-> IF i = 1 THEN s[i] ELSE g[i - 1] \o s[i]]
    BY <2>1, Zenon
  <2>3. QED
    BY <2>2, Zenon
<1> DEFINE f == CHOOSE h : Is(h)
<1>2. Is(f)
  BY <1>1, Zenon
<1>3. FlattenSeq(s) = f[Len(s)]
  BY Zenon DEF FlattenSeq
<1> DEFINE T == {k \in Nat : k + 1 \in 1..Len(s) => f[k + 1] = g[k + 1]}
           n == Len(s) - 1
<1>4. 0 \in T
  <2> HIDE DEF f
  <2>1. QED
    BY <1>2
<1>5. ASSUME NEW k \in 0..(n - 1), k \in T PROVE k + 1 \in T
  <2> DEFINE i == k + 2
  <2> HIDE DEF f
  <2>1. f[k + 1] = g[k + 1] /\ i \in 2..Len(s) /\ i \in 1..Len(s) /\ i # 1 /\ i - 1 = k + 1 /\ (k + 1) + 1 = i
    BY <1>5
  <2> HIDE DEF i
  <2>2. f[i] = f[i - 1] \o s[i]
    BY <1>2, <2>1
  <2>3. g[i] = g[i - 1] \o s[i]
    BY <2>1
  <2>4. f[i] = g[i]
    BY <2>1, <2>2, <2>3, Zenon
  <2>5. k + 1 \in Nat
    BY <1>5
  <2>6. QED
    BY <2>1, <2>4, <2>5
<1>6. 0..n \subseteq T
  <2> HIDE DEF T
  <2>1. n \in Nat
    OBVIOUS
  <2> HIDE DEF n
  <2>2. QED
    BY <1>4, <1>5, <2>1, UpTo
<1>7. f[Len(s)] = g[Len(s)]
  <2> HIDE DEF f
  <2>1. n \in 0..n /\ n + 1 = Len(s) /\ n + 1 \in 1..Len(s)
    OBVIOUS
  <2>2. n \in T
    BY <1>6, <2>1
  <2>3. f[n + 1] = g[n + 1]
    BY <2>1, <2>2
  <2>4. QED
    BY <2>1, <2>3
<1>8. QED
  BY <1>3, <1>7

\* As many chunks as it takes, all but the last full.
LEMMA ChunkCount ==
  ASSUME NEW l \in Nat, NEW n \in Nat \ {0}
  PROVE  LET q == (l + n - 1) \div n IN
         /\ q \in Nat /\ q * n >= l
         /\ \A k \in 1..q : (k - 1) * n < l /\ (k - 1) * n \in Nat /\ k * n = (k - 1) * n + n
<1> DEFINE a == l + n - 1  q == a \div n  r == a % n
<1>1. a \in Nat
  OBVIOUS
<1>2. q \in Nat /\ r \in 0..(n - 1) /\ a = n * q + r
  <2> HIDE DEF a
  <2>1. a \in Int /\ n \in Nat \ {0}
    BY <1>1
  <2>2. a \div n \in Int /\ a % n \in 0..(n - 1) /\ a = n * (a \div n) + (a % n) /\ a \div n \in Nat
    BY <1>1, <2>1, DivIs
  <2>3. QED
    BY <2>2
<1> HIDE DEF q, r
<1>3. n * q \in Nat /\ q * n = n * q
  BY <1>2
<1>4. q * n >= l /\ q * n - n < l
  BY <1>2, <1>3
<1>5. ASSUME NEW k \in 1..q
      PROVE  (k - 1) * n < l /\ (k - 1) * n \in Nat /\ k * n = (k - 1) * n + n
  <2>1. k * n = (k - 1) * n + n /\ (k - 1) * n \in Nat /\ k * n \in Nat
    BY <1>2
  <2>2. q * n >= k * n
    BY <1>2, ProductAtLeast
  <2>3. QED
    BY <1>3, <1>4, <2>1, <2>2
<1>6. QED
  BY <1>2, <1>4, <1>5 DEF q

\* Cutting a sequence into chunks of n and putting them together again.
LEMMA ChunksMakeUp ==
  ASSUME NEW S, NEW items \in Seq(S), NEW n \in Nat \ {0}
  PROVE  LET c == Chunks(items, n) IN
         /\ c \in Seq(Parts(c))
         /\ FlattenSeq(c) = items
         /\ \A k \in 1..Len(c) : Len(c[k]) = n \/ (k = Len(c) /\ Len(c[k]) \in 1..n)
<1> DEFINE c == Chunks(items, n)
           l == Len(items)
           q == (l + n - 1) \div n
           E(k) == IF k * n < l THEN k * n ELSE l
           g == [k \in 1..q |-> SubSeq(items, 1, E(k))]
<1>0. l \in Nat
  OBVIOUS
<1>1. /\ q \in Nat /\ q * n >= l
      /\ \A k \in 1..q : (k - 1) * n < l /\ (k - 1) * n \in Nat /\ k * n = (k - 1) * n + n
  <2> HIDE DEF l
  <2>1. QED
    BY <1>0, ChunkCount
<1>2. c = [k \in 1..q |-> SubSeq(items, (k - 1) * n + 1, E(k))]
  BY DEF Chunks
<1> HIDE DEF c, q
<1>3. c \in Seq(Parts(c)) /\ Len(c) = q
  <2>1. c = [k \in 1..q |-> c[k]]
    BY <1>2
  <2>2. QED
    BY <1>1, <2>1, SeqFrom DEF Parts
<1>4. \A k \in 1..q : /\ (k - 1) * n \in 0..(l - 1) /\ E(k) \in ((k - 1) * n + 1)..l
                      /\ E(k) = (k - 1) * n + n \/ (E(k) = l /\ l < (k - 1) * n + n)
  BY <1>0, <1>1
<1>5. \A k \in 1..q : k # q => E(k) = k * n /\ k * n = (k - 1) * n + n
  <2>1. SUFFICES ASSUME NEW k \in 1..q, k # q PROVE E(k) = k * n /\ k * n = (k - 1) * n + n
    OBVIOUS
  <2>2. k + 1 \in 1..q /\ (k + 1) - 1 = k
    BY <1>1, <2>1
  <2>3. k * n < l
    BY <1>1, <2>2
  <2>4. QED
    BY <1>1, <2>3
<1>6. q # 0 => E(q) = l
  BY <1>0, <1>1
<1>7. ASSUME NEW k \in 1..q PROVE Len(c[k]) = n \/ (k = q /\ Len(c[k]) \in 1..n)
  <2>1. c[k] = SubSeq(items, (k - 1) * n + 1, E(k))
    BY <1>2
  <2>2. Len(c[k]) = E(k) - (k - 1) * n
    <3> HIDE DEF E
    <3>1. (k - 1) * n \in 0..(l - 1) /\ E(k) \in ((k - 1) * n + 1)..l
      BY <1>4
    <3> DEFINE b == (k - 1) * n
    <3> HIDE DEF b
    <3>2. b \in 0..(l - 1) /\ E(k) \in (b + 1)..l /\ c[k] = SubSeq(items, b + 1, E(k))
      BY <2>1, <3>1 DEF b
    <3>3. Len(c[k]) = E(k) - b
      BY <3>2
    <3>4. QED
      BY <3>3 DEF b
  <2>3. QED
    BY <1>0, <1>1, <1>4, <1>5, <2>2
<1>8. FlattenSeq(c) = items
  <2>1. CASE q = 0
    <3>1. l = 0 /\ Len(c) = 0 /\ c = << >>
      BY <1>0, <1>1, <1>2, <1>3, <2>1
    <3>2. items = << >>
      BY <3>1
    <3>3. QED
      BY <3>1, <3>2 DEF FlattenSeq
  <2>2. CASE q # 0
    <3>1. g = [i \in 1..Len(c) |-> g[i]]
      BY <1>3
    <3>2. g[1] = c[1]
      <4>1. 1 \in 1..q /\ (1 - 1) * n + 1 = 1
        BY <1>1, <2>2
      <4>2. QED
        BY <1>2, <4>1
    <3>3. ASSUME NEW i \in 2..Len(c) PROVE g[i] = g[i - 1] \o c[i]
      <4>1. i \in 1..q /\ i - 1 \in 1..q /\ i - 1 # q
        BY <1>1, <1>3, <3>3
      <4>2. E(i - 1) = (i - 1) * n /\ E(i) \in (E(i - 1) + 1)..l /\ E(i - 1) \in 0..l
        BY <1>0, <1>4, <1>5, <4>1
      <4>3. g[i] = SubSeq(items, 1, E(i)) /\ g[i - 1] = SubSeq(items, 1, E(i - 1))
            /\ c[i] = SubSeq(items, E(i - 1) + 1, E(i))
        BY <1>2, <4>1, <4>2
      <4> HIDE DEF E, g
      <4> DEFINE p == E(i - 1)  w == E(i)
      <4>4. p \in (1 - 1)..Len(items) /\ w \in p..Len(items) /\ 1 \in 1..(Len(items) + 1)
        BY <4>2
      <4>5. SubSeq(items, 1, p) \o SubSeq(items, p + 1, w) = SubSeq(items, 1, w)
        <5> HIDE DEF p, w
        <5>1. QED
          BY <4>4, ConcatAdjacentSubSeq
      <4>6. QED
        BY <4>3, <4>5
    <3> HIDE DEF g
    <3>4. FlattenSeq(c) = g[q]
      BY <1>1, <1>3, <2>2, <3>1, <3>2, <3>3, FlattensTo
    <3>5. g[q] = items
      BY <1>1, <1>6, <2>2, SubSeqFull DEF g
    <3>6. QED
      BY <3>4, <3>5
  <2>3. QED
    BY <2>1, <2>2
<1>9. QED
  BY <1>3, <1>7, <1>8 DEF c

Cut == Chunks(ElementsOf(coll), size)

\* The chunks that slice has given its block.
Slicing ==
  fn = "slice" =>
    /\ gain = << >> => Remaining(Cut, todo, Count)
    /\ ~Failed => \A k \in 1..Count : trace[k].args = <<Cut[k]>>
    /\ ~Failed /\ gain # << >> /\ ~Panics(fn, coll) => Count = Len(Cut)

LEMMA CutMakesUp ==
  ASSUME Fits, fn = "slice"
  PROVE  /\ Cut \in Seq(Parts(Cut))
         /\ FlattenSeq(Cut) = ElementsOf(coll)
         /\ \A k \in 1..Len(Cut) : Len(Cut[k]) = size \/ (k = Len(Cut) /\ Len(Cut[k]) \in 1..size)
<1> DEFINE items == ElementsOf(coll)
<1>1. coll[1] \in {"int", "arr", "hash"} /\ size \in Nat \ {0} /\ coll \in Collection
  BY DEF Fits, Supports, OfPairs
<1>2. items \in Seq(Parts(items))
  <2>1. CASE coll[1] = "int"
    <3> DEFINE n == IF coll[2] > 0 THEN coll[2] ELSE 0
    <3>0. coll[2] \in Int
      BY <1>1, <2>1, IterationAssumption
    <3>1. n \in Nat /\ 1..coll[2] = 1..n
      BY <3>0
    <3>2. items = [i \in 1..n |-> i - 1]
      BY <2>1, <3>1 DEF ElementsOf
    <3> HIDE DEF items, n
    <3>3. items = [i \in 1..n |-> items[i]]
      BY <3>2
    <3>4. QED
      BY <3>1, <3>3, SeqFrom DEF Parts
  <2>2. CASE coll[1] # "int"
    <3>1. items = coll[2] /\ coll[2] \in Seq({coll[2][k] : k \in DOMAIN coll[2]})
      BY <1>1, <2>2, IterationAssumption DEF ElementsOf
    <3>2. QED
      BY <3>1, SeqOfItself DEF Parts
  <2>3. QED
    BY <2>1, <2>2
<1> HIDE DEF items
<1>3. Cut = Chunks(items, size)
  BY DEF Cut, items
<1>4. QED
  BY <1>1, <1>2, <1>3, ChunksMakeUp DEF items

LEMMA SlicingNext ==
  ASSUME Traced, Slicing, NEW o \in BlockOutcome, Slice(o)
  PROVE  Slicing'
<1>1. fn = "slice" /\ UNCHANGED <<fn, coll, size>>
  BY DEF Slice, Iterate, Finish
<1>2. Cut' = Cut
  BY <1>1 DEF Cut
<1>3. CASE Iterate(<<Head(todo)>>, o, acc, FALSE)
  <2>1. CASE Succeeded(<<Head(todo)>>, o, acc)
    <3>1. gain = << >> /\ todo # << >> /\ todo' = Tail(todo) /\ Count' = Count + 1 /\ gain' = << >> /\ Count \in Nat
          /\ trace'[Count + 1].args = <<Head(todo)>> /\ \A k \in 1..Count : trace'[k] = trace[k]
      BY <2>1 DEF Succeeded
    <3>2. Remaining(Cut, todo, Count)
      BY <1>1, <3>1 DEF Slicing
    <3>3. Head(todo) = Cut[Count + 1] /\ Remaining(Cut, todo', Count')
      BY <3>1, <3>2, RemainingNext
    <3>4. ~Failed' => ~Failed
      BY <3>1 DEF Failed, Count
    <3>5. ~Failed' => \A k \in 1..Count' : trace'[k].args = <<Cut[k]>>
      BY <1>1, <3>1, <3>3, <3>4 DEF Slicing
    <3>6. Remaining(Cut, todo, Count)'
      BY <1>2, <3>3
    <3>7. QED
      BY <1>2, <3>1, <3>5, <3>6 DEF Slicing
  <2>2. QED
    BY <1>3, <2>1, IterateEither DEF Slicing
<1>4. CASE Finish(coll)
  <2>1. gain = << >> /\ todo = << >> /\ UNCHANGED trace /\ gain' # << >>
    BY <1>4 DEF Finish, Running, ReturnOf
  <2>2. Remaining(Cut, todo, Count)
    BY <1>1, <2>1 DEF Slicing
  <2>3. Count = Len(Cut)
    BY <2>1, <2>2 DEF Remaining
  <2>4. Count' = Count /\ (Failed' <=> Failed)
    BY <2>1 DEF Count, Failed
  <2>5. QED
    BY <1>1, <1>2, <2>1, <2>3, <2>4 DEF Slicing
<1>5. QED
  BY <1>3, <1>4 DEF Slice

LEMMA SlicingSuffices ==
  ASSUME Fits, Traced, Slicing
  PROVE  ChunksCover
<1> SUFFICES ASSUME fn = "slice", gain # << >>, ~Failed, ~Panics(fn, coll)
             PROVE  /\ FlattenSeq([k \in 1..Len(trace) |-> trace[k].args[1]]) = ElementsOf(coll)
                    /\ \A k \in 1..Len(trace) :
                         Len(trace[k].args[1]) = size
                           \/ (k = Len(trace) /\ Len(trace[k].args[1]) \in 1..size)
  BY DEF ChunksCover
<1>1. Count = Len(Cut) /\ Count = Len(trace) /\ \A k \in 1..Count : trace[k].args[1] = Cut[k]
  BY DEF Slicing, Count
<1>2. Cut \in Seq(Parts(Cut))
  BY CutMakesUp
<1>3. [k \in 1..Len(trace) |-> trace[k].args[1]] = Cut
  <2>1. Cut = [k \in 1..Len(Cut) |-> Cut[k]]
    BY <1>2
  <2>2. QED
    BY <1>1, <2>1
<1>4. QED
  BY <1>1, <1>3, CutMakesUp
-----------------------------------------------------------------------------
\* Sorting by insertion, of the positions the elements had: by rank, of the same rank by
\* position.
Before(rank, p, q) == rank[p] < rank[q] \/ (rank[p] = rank[q] /\ p < q)
Ranks(n) == [1..n -> 1..n]

\* The first m are in order, the others where they were.
SortedTo(rank, P, n, m) ==
  /\ \A p, q \in 1..m : p < q => Before(rank, P[p], P[q])
  /\ \A p \in 1..m : P[p] <= m
  /\ \A k \in (m + 1)..n : P[k] = k

\* Element i has come down to j, and is before those it has passed.
Inserting(rank, P, n, i, j) ==
  /\ i \in 2..n /\ j \in 2..i
  /\ \A p, q \in 1..i : p < q /\ p # j /\ q # j => Before(rank, P[p], P[q])
  /\ \A q \in (j + 1)..i : Before(rank, P[j], P[q])
  /\ P[j] = i /\ \A p \in 1..i : p # j => P[p] < i
  /\ \A k \in (i + 1)..n : P[k] = k

Swap(P, j) == [P EXCEPT ![j] = P[j - 1], ![j - 1] = P[j]]

LEMMA MovesDown ==
  ASSUME NEW n \in Nat, NEW rank \in Ranks(n), NEW P \in Ranks(n), NEW i, NEW j,
         Inserting(rank, P, n, i, j), rank[P[j]] < rank[P[j - 1]]
  PROVE  /\ j > 2 => Inserting(rank, Swap(P, j), n, i, j - 1)
         /\ j = 2 => SortedTo(rank, Swap(P, j), n, i)
<1> DEFINE Q == Swap(P, j)
<1>1. i \in 2..n /\ j \in 2..i /\ j - 1 \in 1..n /\ j \in 1..n
  BY DEF Inserting
<1>2. Q[j] = P[j - 1] /\ Q[j - 1] = P[j] /\ \A k \in 1..n : k # j /\ k # j - 1 => Q[k] = P[k]
  BY <1>1 DEF Swap, Ranks
<1> HIDE DEF Q
<1>3. \A p, q \in 1..i : p < q /\ p # j - 1 /\ q # j - 1 => Before(rank, Q[p], Q[q])
  <2>1. SUFFICES ASSUME NEW p \in 1..i, NEW q \in 1..i, p < q, p # j - 1, q # j - 1
                 PROVE  Before(rank, Q[p], Q[q])
    OBVIOUS
  <2> DEFINE u == IF p = j THEN j - 1 ELSE p  w == IF q = j THEN j - 1 ELSE q
  <2>2. u \in 1..i /\ w \in 1..i /\ u < w /\ u # j /\ w # j /\ Q[p] = P[u] /\ Q[q] = P[w]
    BY <1>1, <1>2, <2>1
  <2>3. QED
    BY <2>2 DEF Inserting
<1>4. \A q \in ((j - 1) + 1)..i : Before(rank, Q[j - 1], Q[q])
  <2>1. Before(rank, P[j], P[j - 1])
    BY DEF Before
  <2>2. SUFFICES ASSUME NEW q \in j..i PROVE Before(rank, P[j], Q[q])
    BY <1>1, <1>2
  <2>3. CASE q = j
    BY <1>2, <2>1, <2>3
  <2>4. CASE q # j
    BY <1>1, <1>2, <2>4 DEF Inserting
  <2>5. QED
    BY <2>3, <2>4
<1>5. Q[j - 1] = i /\ \A p \in 1..i : p # j - 1 => Q[p] < i
  BY <1>1, <1>2 DEF Inserting
<1>6. \A k \in (i + 1)..n : Q[k] = k
  BY <1>1, <1>2 DEF Inserting
<1>7. j > 2 => Inserting(rank, Q, n, i, j - 1)
  BY <1>1, <1>3, <1>4, <1>5, <1>6 DEF Inserting
<1>8. j = 2 => SortedTo(rank, Q, n, i)
  <2>1. SUFFICES ASSUME j = 2 PROVE SortedTo(rank, Q, n, i)
    OBVIOUS
  <2>2. ASSUME NEW p \in 1..i, NEW q \in 1..i, p < q PROVE Before(rank, Q[p], Q[q])
    BY <1>1, <1>3, <1>4, <2>1, <2>2
  <2>3. ASSUME NEW p \in 1..i PROVE Q[p] <= i
    <3>1. CASE p = j - 1
      BY <1>1, <1>5, <3>1
    <3>2. CASE p # j - 1
      <4>1. Q[p] \in 1..n /\ Q[p] < i
        <5>1. \E k \in 1..n : Q[p] = P[k]
          BY <1>1, <1>2, <3>2
        <5>2. QED
          BY <1>5, <3>2, <5>1 DEF Ranks
      <4>2. QED
        BY <1>1, <4>1
    <3>3. QED
      BY <3>1, <3>2
  <2>4. QED
    BY <1>6, <2>2, <2>3 DEF SortedTo
<1>9. QED
  BY <1>7, <1>8 DEF Q

LEMMA StaysThere ==
  ASSUME NEW n \in Nat, NEW rank \in Ranks(n), NEW P \in Ranks(n), NEW i, NEW j,
         Inserting(rank, P, n, i, j), ~(rank[P[j]] < rank[P[j - 1]])
  PROVE  SortedTo(rank, P, n, i)
<1>1. i \in 2..n /\ j \in 2..i /\ \A k \in 1..n : P[k] \in 1..n /\ rank[P[k]] \in 1..n
  BY DEF Inserting, Ranks
<1>2. Before(rank, P[j - 1], P[j])
  <2>1. j - 1 \in 1..n /\ j \in 1..n /\ j - 1 \in 1..i /\ j - 1 # j
    BY <1>1
  <2>2. P[j - 1] < P[j]
    BY <2>1 DEF Inserting
  <2>3. rank[P[j - 1]] \in 1..n /\ rank[P[j]] \in 1..n
    BY <1>1, <2>1
  <2>4. rank[P[j - 1]] < rank[P[j]] \/ rank[P[j - 1]] = rank[P[j]]
    BY <2>3
  <2>5. QED
    BY <2>2, <2>4 DEF Before
<1>3. ASSUME NEW p \in 1..i, NEW q \in 1..i, p < q PROVE Before(rank, P[p], P[q])
  <2>1. CASE p # j /\ q # j
    BY <1>3, <2>1 DEF Inserting
  <2>2. CASE p = j
    BY <1>1, <1>3, <2>2 DEF Inserting
  <2>3. CASE q = j /\ p = j - 1
    BY <1>2, <2>3
  <2>4. CASE q = j /\ p # j - 1
    <3>1. p < j - 1 /\ j - 1 \in 1..i /\ j - 1 # j /\ p # j
      BY <1>1, <1>3, <2>4
    <3>2. Before(rank, P[p], P[j - 1])
      BY <3>1 DEF Inserting
    <3>3. p \in 1..n /\ j - 1 \in 1..n /\ j \in 1..n
      BY <1>1, <3>1
    <3>4. QED
      BY <1>1, <1>2, <2>4, <3>2, <3>3 DEF Before
  <2>5. QED
    BY <2>1, <2>2, <2>3, <2>4
<1>4. \A p \in 1..i : P[p] <= i
  BY <1>1 DEF Inserting
<1>5. QED
  BY <1>3, <1>4 DEF SortedTo, Inserting

LEMMA NextIn ==
  ASSUME NEW n \in Nat, NEW rank, NEW P \in Ranks(n), NEW m \in 1..n, SortedTo(rank, P, n, m), m < n
  PROVE  Inserting(rank, P, n, m + 1, m + 1)
<1>1. m + 1 \in 2..n /\ P[m + 1] = m + 1
  BY DEF SortedTo
<1>2. \A p, q \in 1..(m + 1) : p < q /\ p # m + 1 /\ q # m + 1 => Before(rank, P[p], P[q])
  BY DEF SortedTo
<1>3. \A p \in 1..(m + 1) : p # m + 1 => P[p] < m + 1
  BY DEF SortedTo, Ranks
<1>4. \A k \in (m + 2)..n : P[k] = k
  BY DEF SortedTo
<1>5. QED
  BY <1>1, <1>2, <1>3, <1>4 DEF Inserting

\* Where the elements of arr stand in s.
Pos(s, e) == CHOOSE k \in 1..Len(s) : s[k] = e
Places(s, arr) == [k \in 1..Len(s) |-> Pos(s, arr[k])]

\* The answers of the block are those of an order by rank.
Unanimous(rank) ==
  \A k \in 1..Count :
    (Out(k)[2] = "less")
      = (rank[Pos(coll[2], trace[k].args[1])] < rank[Pos(coll[2], trace[k].args[2])])

Given == Len(coll[2])
InPlace(rank, P) ==
  IF acc.i <= Given THEN Inserting(rank, P, Given, acc.i, acc.j) ELSE SortedTo(rank, P, Given, Given)

Sorting ==
  fn = "sort" =>
    /\ acc.out \in Seq(Parts(coll[2])) /\ Len(acc.out) = Given
    /\ acc.i \in Nat /\ acc.j \in 2..acc.i
    /\ gain # << >> => acc.i > Given
    /\ gain # << >> /\ ~Failed => gain = ReturnOf(acc.out)
    /\ ~Failed /\ IsInjective(coll[2]) =>
         \A rank \in Ranks(Given) : Unanimous(rank) => InPlace(rank, Places(coll[2], acc.out))

LEMMA GivenType ==
  ASSUME Fits, fn = "sort"
  PROVE  coll[2] \in Seq(Parts(coll[2])) /\ Given \in Nat
<1>1. coll[2] \in Seq({coll[2][k] : k \in DOMAIN coll[2]})
  BY IterationAssumption DEF Fits, Supports, OfPairs
<1>2. QED
  BY <1>1, SeqOfItself DEF Parts, Given

LEMMA PosIs ==
  ASSUME NEW s, NEW e \in Parts(s)
  PROVE  Pos(s, e) \in 1..Len(s) /\ s[Pos(s, e)] = e
<1>1. \E k \in 1..Len(s) : s[k] = e
  BY DEF Parts
<1>2. QED
  BY <1>1, Zenon DEF Pos

LEMMA PlacesType ==
  ASSUME NEW s, NEW arr \in Seq(Parts(s)), Len(arr) = Len(s), Len(s) \in Nat
  PROVE  Places(s, arr) \in Ranks(Len(s))
<1>1. \A k \in 1..Len(s) : arr[k] \in Parts(s)
  <2> HIDE DEF Parts
  <2>1. QED
    OBVIOUS
<1>2. \A k \in 1..Len(s) : Pos(s, arr[k]) \in 1..Len(s)
  BY <1>1, PosIs
<1>3. QED
  BY <1>2 DEF Places, Ranks

LEMMA SortingNext ==
  ASSUME Fits, Traced, Sorting, NEW o \in BlockOutcome, Sort(o)
  PROVE  Sorting' /\ LoopGives'
<1> DEFINE s == coll[2]  arr == acc.out  i == acc.i  j == acc.j
           args == <<arr[j], arr[j - 1]>>
           r == BlockCall(args, o)
           down == r[1] = "value" /\ r[2] = "less"
           moved == IF down THEN [arr EXCEPT ![j] = arr[j - 1], ![j - 1] = arr[j]] ELSE arr
           more == down /\ j > 2
<1>1. /\ fn = "sort" /\ gain = << >> /\ gain' = << >> /\ UNCHANGED <<fn, coll, arity, size>>
      /\ i <= Len(arr) /\ Call(args, o)
      /\ acc' = [out |-> moved, err |-> IF r[1] = "value" THEN acc.err ELSE r,
                 i |-> IF more THEN i ELSE i + 1, j |-> IF more THEN j - 1 ELSE i + 1]
  BY DEF Sort, Running
<1>2. /\ arr \in Seq(Parts(s)) /\ Len(arr) = Given /\ i \in Nat /\ j \in 2..i
      /\ s \in Seq(Parts(s)) /\ Given \in Nat /\ Given = Len(s)
  BY <1>1, GivenType DEF Sorting, Given
<1> HIDE DEF moved, r, s
<1>3. moved \in Seq(Parts(s)) /\ Len(moved) = Given
  <2>1. arr[j] \in Parts(s) /\ arr[j - 1] \in Parts(s) /\ j \in 1..Len(arr) /\ j - 1 \in 1..Len(arr)
    BY <1>1, <1>2
  <2>2. QED
    BY <1>2, <2>1 DEF moved
<1>4. /\ acc'.out = moved /\ acc'.i = (IF more THEN i ELSE i + 1) /\ acc'.j = (IF more THEN j - 1 ELSE i + 1)
  BY <1>1
<1>5. acc'.i \in Nat /\ acc'.j \in 2..acc'.i
  BY <1>2, <1>4
<1>6. /\ Traced' /\ Count \in Nat /\ Count' = Count + 1
      /\ \A k \in 1..Count : trace'[k] = trace[k]
      /\ trace'[Count + 1].outcome = r /\ trace'[Count + 1] = [args |-> args, outcome |-> r]
  <2>1. /\ Traced' /\ Count \in Nat /\ Count' = Count + 1
        /\ \A k \in 1..Count : trace'[k] = trace[k]
        /\ trace'[Count + 1] = [args |-> args, outcome |-> BlockCall(args, o)]
        /\ trace'[Count + 1].outcome = BlockCall(args, o)
    BY <1>1, Grows
  <2>2. QED
    BY <2>1 DEF r
<1>7. trace'[Count + 1].args[1] = arr[j] /\ trace'[Count + 1].args[2] = arr[j - 1]
  BY <1>6
<1>8. ASSUME ~Failed', IsInjective(s), NEW rank \in Ranks(Given), Unanimous(rank)'
      PROVE  IF acc'.i <= Given THEN Inserting(rank, Places(s, moved), Given, acc'.i, acc'.j)
             ELSE SortedTo(rank, Places(s, moved), Given, Given)
  <2> DEFINE P == Places(s, arr)  n == Given
  <2>1. ~Failed /\ r[1] = "value"
    BY <1>6, <1>8 DEF Failed, Count
  <2>2. Unanimous(rank)
    <3>1. \A k \in 1..Count : k \in 1..Count' /\ Out(k)' = Out(k) /\ trace'[k] = trace[k]
      BY <1>6 DEF Out
    <3>2. QED
      BY <1>1, <1>8, <3>1 DEF Unanimous
  <2>3. (r[2] = "less") = (rank[Pos(s, arr[j])] < rank[Pos(s, arr[j - 1])])
    <3>1. Count + 1 \in 1..Count' /\ coll' = coll
      BY <1>1, <1>6
    <3>2. QED
      BY <1>6, <1>7, <1>8, <3>1 DEF Unanimous, Out, s
  <2>4. P \in Ranks(n) /\ j \in 1..n /\ j - 1 \in 1..n /\ P[j] = Pos(s, arr[j]) /\ P[j - 1] = Pos(s, arr[j - 1])
    <3>1. P \in Ranks(n)
      BY <1>2, PlacesType
    <3>2. QED
      BY <1>1, <1>2, <3>1 DEF Places
  <2>5. Inserting(rank, P, n, i, j)
    BY <1>1, <1>2, <1>8, <2>1, <2>2 DEF Sorting, InPlace, s
  <2>6. down <=> rank[P[j]] < rank[P[j - 1]]
    BY <2>1, <2>3, <2>4
  <2>7. Places(s, moved) = IF down THEN Swap(P, j) ELSE P
    <3>1. CASE down
      <4>1. moved = [arr EXCEPT ![j] = arr[j - 1], ![j - 1] = arr[j]]
        BY <3>1 DEF moved
      <4>2. \A k \in 1..n : moved[k] = IF k = j - 1 THEN arr[j] ELSE IF k = j THEN arr[j - 1] ELSE arr[k]
        BY <1>2, <2>4, <4>1
      <4>3. \A k \in 1..n : Pos(s, moved[k]) = Swap(P, j)[k]
        BY <1>2, <2>4, <4>2 DEF Swap, Places, Ranks
      <4>4. Swap(P, j) \in Ranks(n)
        BY <2>4 DEF Swap, Ranks
      <4>5. QED
        BY <1>2, <3>1, <4>3, <4>4 DEF Places, Ranks
    <3>2. CASE ~down
      BY <3>2 DEF moved
    <3>3. QED
      BY <3>1, <3>2
  <2> DEFINE Q == Places(s, moved)
  <2>8. CASE more
    <3>1. Inserting(rank, Q, n, i, j - 1)
      BY <1>2, <2>4, <2>5, <2>6, <2>7, <2>8, MovesDown
    <3>2. QED
      BY <1>1, <1>2, <1>4, <2>8, <3>1
  <2>9. CASE ~more
    <3>1. SortedTo(rank, Q, n, i)
      <4>1. CASE down
        <5>1. j = 2
          BY <1>2, <2>9, <4>1
        <5>2. QED
          BY <1>2, <2>4, <2>5, <2>6, <2>7, <4>1, <5>1, MovesDown
      <4>2. CASE ~down
        BY <1>2, <2>4, <2>5, <2>6, <2>7, <4>2, StaysThere
      <4>3. QED
        BY <4>1, <4>2
    <3>2. Q \in Ranks(n) /\ i \in 1..n
      <4>1. Q \in Ranks(n)
        BY <1>2, <1>3, PlacesType
      <4>2. QED
        BY <1>1, <1>2, <4>1
    <3>3. i < n => Inserting(rank, Q, n, i + 1, i + 1)
      BY <1>2, <3>1, <3>2, NextIn
    <3>4. ~(i < n) => i = n
      BY <1>2, <3>2
    <3>5. QED
      BY <1>2, <1>4, <2>9, <3>1, <3>2, <3>3, <3>4
  <2>10. QED
    BY <2>8, <2>9
<1>9. Sorting'
  <2>1. s' = s /\ Given' = Given /\ fn' = "sort" /\ gain' = << >>
    BY <1>1 DEF s, Given
  <2>2. acc'.out \in Seq(Parts(s)) /\ Len(acc'.out) = Given
    BY <1>3, <1>4
  <2>3. ~Failed' /\ IsInjective(s) =>
          \A rank \in Ranks(Given) : Unanimous(rank)' => InPlace(rank, Places(s, acc.out))'
    BY <1>4, <1>8, <2>1 DEF InPlace
  <2>4. QED
    BY <1>1, <1>5, <2>1, <2>2, <2>3 DEF Sorting, s
<1>10. QED
  BY <1>1, <1>9 DEF LoopGives

LEMMA SortedNext ==
  ASSUME Traced, Calling, Fits, Sorting, Sorted
  PROVE  Sorting' /\ LoopGives'
<1>1. /\ fn = "sort" /\ gain = << >> /\ UNCHANGED <<fn, coll, acc, trace>> /\ acc.i > Len(acc.out)
      /\ gain' = (IF acc.err = << >> THEN ReturnOf(acc.out) ELSE acc.err)
  BY DEF Sorted, Running
<1>2. ~Failed => gain' = ReturnOf(acc.out)
  BY <1>1 DEF Calling
<1>3. /\ Failed' <=> Failed
      /\ Given' = Given /\ \A rank : Unanimous(rank)' <=> Unanimous(rank)
  BY <1>1 DEF Failed, Given, Unanimous, Count, Out
<1>4. \A rank, P : InPlace(rank, P)' <=> InPlace(rank, P)
  BY <1>1, <1>3 DEF InPlace
<1>5. Sorting'
  BY <1>1, <1>2, <1>3, <1>4 DEF Sorting
<1>6. ~Failed' => gain' = ReturnOf(Expected')
  <2>1. Expected' = gain'[2]
    BY <1>1 DEF Expected
  <2>2. QED
    BY <1>2, <1>3, <2>1 DEF ReturnOf
<1>7. QED
  BY <1>5, <1>6 DEF LoopGives

LEMMA SortingSuffices ==
  ASSUME Fits, Traced, Sorting
  PROVE  SortStable
<1> DEFINE s == coll[2]
<1> SUFFICES ASSUME fn = "sort", IsInjective(s), gain # << >>, ~Failed, NEW rank \in Ranks(Given),
                    \A k \in 1..Len(trace) :
                      (Values[k] = "less") = (rank[Pos(s, trace[k].args[1])] < rank[Pos(s, trace[k].args[2])]),
                    NEW p \in 1..Given, NEW q \in 1..Given, p < q
             PROVE  LET d == gain[2][p]  e == gain[2][q] IN
                    /\ ~(rank[Pos(s, e)] < rank[Pos(s, d)])
                    /\ ~(rank[Pos(s, d)] < rank[Pos(s, e)]) => Pos(s, d) < Pos(s, e)
  BY Zenon DEF SortStable, Given, Ranks, Pos
<1>1. Unanimous(rank)
  <2>1. \A k \in 1..Count : Values[k] = Out(k)[2]
    BY DEF Values, Failed, Out, Count
  <2>2. QED
    BY <2>1 DEF Unanimous, Count
<1>2. acc.out \in Seq(Parts(s)) /\ Len(acc.out) = Given /\ gain[2] = acc.out /\ acc.i > Given /\ acc.i \in Nat
      /\ Given = Len(s) /\ Given \in Nat
  BY GivenType DEF Sorting, ReturnOf, Given
<1> DEFINE P == Places(s, acc.out)
<1>3. SortedTo(rank, P, Given, Given)
  BY <1>1, <1>2 DEF Sorting, InPlace
<1>4. P \in Ranks(Given)
  BY <1>2, PlacesType
<1>5. P[p] = Pos(s, gain[2][p]) /\ P[q] = Pos(s, gain[2][q])
  BY <1>2 DEF Places
<1> HIDE DEF P
<1>6. Before(rank, P[p], P[q])
  BY <1>3 DEF SortedTo
<1>7. rank[P[p]] \in 1..Given /\ rank[P[q]] \in 1..Given
  BY <1>4 DEF Ranks
<1>8. QED
  BY <1>5, <1>6, <1>7 DEF Before

\* A function that panics has called no block before.
Unmade == Panics(fn, coll) => trace = << >>

IterInv == Traced /\ Calling /\ Fits /\ Unmade /\ Working /\ ResultAsDefined /\ Slicing /\ Sorting

LEMMA IterInvFirst ==
  ASSUME IterationInit
  PROVE  IterInv
<1>1. PICK f \in Fn, c \in Collection, n \in Chunk :
        /\ Supports(f, c)
        /\ n \in (CASE f = "slice" -> Chunk \ {0} [] f = "reduce" -> {0, 1} [] OTHER -> {0})
        /\ fn = f /\ coll = c /\ size = n
        /\ todo = (IF f = "sort" THEN << >> ELSE Todo(f, c, n))
        /\ acc = First(f, c, n) /\ trace = << >> /\ gain = << >>
  BY DEF IterationInit
<1>2. Traced /\ Calling
  BY CallingInit
<1>3. Fits
  <2>1. fn = "slice" => size \in Chunk \ {0}
    BY <1>1
  <2>2. fn = "reduce" => size \in {0, 1}
    BY <1>1
  <2>3. QED
    BY <1>1, <2>1, <2>2, IterationAssumption DEF Fits
<1>4. Count = 0 /\ Chosen = {} /\ ~Failed
  BY <1>1 DEF Count, Chosen, Failed
<1>5. Filtered \/ fn # "filter"
  <2>1. SUFFICES ASSUME fn = "filter" PROVE Filtered
    OBVIOUS
  <2> DEFINE items == IterPairs(coll)
  <2>2. todo = items /\ acc = << >>
    BY <1>1, <2>1 DEF Todo, OfPairs, First
  <2>3. coll[1] \in {"int", "arr", "hash"}
    BY <1>3, <2>1 DEF Fits, Supports, OfPairs
  <2>4. items \in Seq(Parts(items))
    BY <1>3, <2>3, PairsOf
  <2> HIDE DEF items
  <2>5. Remaining(items, todo, Count)
    BY <1>4, <2>2, <2>4 DEF Remaining
  <2>6. Cardinality(Chosen) = 0
    BY <1>4, FS_EmptySet
  <2>7. QED
    BY <1>4, <2>2, <2>5, <2>6 DEF Filtered, items
<1>6. Working
  <2>1. fn = "map" => acc = << >>
    BY <1>1 DEF First
  <2>2. fn = "any" => acc = FALSE
    BY <1>1 DEF First
  <2>3. fn = "all" => acc = TRUE
    BY <1>1 DEF First
  <2>4. fn = "index" => acc = 0
    BY <1>1 DEF First
  <2>5. fn = "with" => todo # << >>
    BY <1>1 DEF Todo, OfPairs
  <2>6. acc = First(fn, coll, size)
    BY <1>1
  <2>7. << >> \in Seq(Returned) /\ Len(<< >>) = 0
    OBVIOUS
  <2>8. fn = "any" => acc \in BOOLEAN /\ (acc <=> \E k \in 1..Count : Good(k))
    <3>1. ~\E k \in 1..Count : Good(k)
      BY <1>4
    <3>2. QED
      BY <2>2, <3>1, Zenon
  <2>9. fn = "all" => acc \in BOOLEAN /\ (acc <=> \A k \in 1..Count : Good(k))
    BY <1>4, <2>3
  <2>10. fn = "map" => acc \in Seq(Returned) /\ Len(acc) = Count /\ \A k \in 1..Count : acc[k] = Out(k)[2]
    BY <1>4, <2>1, <2>7
  <2>11. fn = "index" => acc = Count
    BY <1>4, <2>4
  <2>12. QED
    BY <1>4, <1>5, <2>5, <2>6, <2>8, <2>9, <2>10, <2>11, Zenon DEF Working
<1>7. Slicing
  <2>1. SUFFICES ASSUME fn = "slice" PROVE Slicing
    BY DEF Slicing
  <2>2. todo = Cut
    BY <1>1, <2>1 DEF Todo, OfPairs, Cut
  <2>3. Cut \in Seq(Parts(Cut))
    BY <1>3, <2>1, CutMakesUp
  <2>4. Remaining(Cut, todo, Count)
    BY <1>4, <2>2, <2>3 DEF Remaining
  <2>5. QED
    BY <1>1, <1>4, <2>4 DEF Slicing
<1>8. Sorting
  <2>1. SUFFICES ASSUME fn = "sort" PROVE Sorting
    BY DEF Sorting
  <2>2. acc.out = coll[2] /\ acc.i = 2 /\ acc.j = 2
    BY <1>1, <2>1 DEF First
  <2>3. coll[2] \in Seq(Parts(coll[2])) /\ Given \in Nat
    BY <1>3, <2>1, GivenType
  <2>4. ASSUME IsInjective(coll[2]), NEW rank \in Ranks(Given)
        PROVE  InPlace(rank, Places(coll[2], acc.out))
    <3> DEFINE P == Places(coll[2], coll[2])  s == coll[2]
    <3>1. \A k \in 1..Given : P[k] = k
      <4>1. SUFFICES ASSUME NEW k \in 1..Given PROVE Pos(s, s[k]) = k
        BY DEF Places, Given
      <4>2. s[k] \in Parts(s) /\ Given = Len(s)
        BY DEF Given, Parts
      <4>3. Pos(s, s[k]) \in 1..Given /\ s[Pos(s, s[k])] = s[k]
        BY <4>2, PosIs
      <4>4. DOMAIN s = 1..Given
        BY <2>3, <4>2
      <4>5. QED
        BY <2>4, <4>3, <4>4 DEF IsInjective
    <3>2. P \in Ranks(Given)
      BY <2>3, PlacesType DEF Given
    <3> HIDE DEF P
    <3>3. CASE Given = 0
      BY <2>2, <2>3, <3>1, <3>3 DEF InPlace, SortedTo, P
    <3>4. CASE Given # 0
      <4>1. SortedTo(rank, P, Given, 1)
        BY <2>3, <3>1, <3>4 DEF SortedTo
      <4>2. CASE Given = 1
        BY <2>2, <4>1, <4>2 DEF InPlace, P
      <4>3. CASE Given # 1
        <5>1. 1 \in 1..Given /\ 1 < Given /\ 1 + 1 = 2
          BY <2>3, <3>4, <4>3
        <5>2. Inserting(rank, P, Given, 2, 2)
          BY <2>3, <3>2, <4>1, <5>1, NextIn
        <5>3. QED
          BY <2>2, <2>3, <5>1, <5>2 DEF InPlace, P
      <4>4. QED
        BY <4>2, <4>3
    <3>5. QED
      BY <3>3, <3>4
  <2>5. QED
    BY <1>1, <2>2, <2>3, <2>4 DEF Sorting, Given
<1>9. QED
  BY <1>1, <1>2, <1>3, <1>6, <1>7, <1>8 DEF IterInv, ResultAsDefined, Unmade

LEMMA IterNext ==
  ASSUME IterInv, IterationNext
  PROVE  IterInv'
<1> USE DEF IterInv
<1>1. UNCHANGED <<fn, coll, arity, size>> /\ Traced' /\ Calling'
  BY StepKinds, CallingNext
<1>2. Fits'
  BY <1>1 DEF Fits, Supports, OfPairs
<1>3. fn # "sort" => Sorting'
  BY <1>1 DEF Sorting
<1>4. fn # "slice" => Slicing'
  BY <1>1 DEF Slicing
<1>5. fn = "sort" => Working'
  BY <1>1 DEF Working
<1>6. ASSUME NEW o \in BlockOutcome,
             \/ Each(o) \/ Map(o) \/ Filter(o) \/ Reduce(o) \/ With(o) \/ Slice(o)
             \/ AnyOf(o) \/ AllOf(o) \/ IndexOf(o) \/ RangeOf(o) \/ TreeEach(o)
      PROVE  Working' /\ LoopGives' /\ fn # "sort" /\ ~Panics(fn, coll) /\ (fn = "slice" => Slicing')
  <2>1. CASE Each(o) \/ Slice(o) \/ TreeEach(o) \/ RangeOf(o)
    <3>1. fn # "sort" /\ ~Panics(fn, coll) /\ (fn = "slice" => Slice(o))
      BY <2>1 DEF Each, Slice, TreeEach, RangeOf, Panics
    <3>2. QED
      BY <2>1, <3>1, EachNext, SlicingNext
  <2>2. CASE Map(o)
    <3>1. fn = "map" /\ ~Panics(fn, coll)
      BY <2>2 DEF Map, Panics
    <3>2. QED
      BY <2>2, <3>1, MapNext
  <2>3. CASE Filter(o)
    <3>1. fn = "filter" /\ ~Panics(fn, coll)
      BY <2>3 DEF Filter, Panics
    <3>2. QED
      BY <2>3, <3>1, FilterNext
  <2>4. CASE Reduce(o) \/ With(o)
    <3>1. fn \in {"reduce", "with"} /\ ~Panics(fn, coll)
      BY <2>4 DEF Reduce, With, Panics
    <3>2. QED
      BY <2>4, <3>1, ReduceWithNext
  <2>5. CASE AnyOf(o) \/ AllOf(o)
    <3>1. fn \in {"any", "all"} /\ ~Panics(fn, coll)
      BY <2>5 DEF AnyOf, AllOf, Panics
    <3>2. QED
      BY <2>5, <3>1, AnyAllNext
  <2>6. CASE IndexOf(o)
    <3>1. fn = "index" /\ ~Panics(fn, coll)
      BY <2>6 DEF IndexOf, Panics
    <3>2. QED
      BY <2>6, <3>1, IndexNext
  <2>7. QED
    BY <1>6, <2>1, <2>2, <2>3, <2>4, <2>5, <2>6
<1>7. ASSUME NEW o \in BlockOutcome, Sort(o)
      PROVE  fn = "sort" /\ Sorting' /\ LoopGives'
  <2>1. fn = "sort"
    BY <1>7 DEF Sort
  <2>2. QED
    BY <1>7, <2>1, SortingNext
<1>8. ASSUME Sorted
      PROVE  fn = "sort" /\ Sorting' /\ LoopGives'
  <2>1. fn = "sort"
    BY <1>8 DEF Sorted
  <2>2. QED
    BY <1>8, <2>1, SortedNext
<1>9. ASSUME ~Panics(fn, coll), LoopGives' PROVE ResultAsDefined' /\ Unmade'
  BY <1>1, <1>9 DEF ResultAsDefined, LoopGives, Unmade, Panics
<1>10. Working' /\ ResultAsDefined' /\ Slicing' /\ Sorting' /\ Unmade'
  <2>1. ASSUME NEW o \in BlockOutcome,
               \/ Each(o) \/ Map(o) \/ Filter(o) \/ Reduce(o) \/ With(o) \/ Slice(o)
               \/ AnyOf(o) \/ AllOf(o) \/ IndexOf(o) \/ RangeOf(o) \/ TreeEach(o)
        PROVE  Working' /\ ResultAsDefined' /\ Slicing' /\ Sorting' /\ Unmade'
    BY <1>3, <1>4, <1>6, <1>9, <2>1
  <2>2. ASSUME Sorted \/ \E o \in BlockOutcome : Sort(o)
        PROVE  Working' /\ ResultAsDefined' /\ Slicing' /\ Sorting' /\ Unmade'
    <3>1. fn = "sort" /\ ~Panics(fn, coll) /\ Sorting' /\ LoopGives'
      BY <1>7, <1>8, <2>2 DEF Panics
    <3>2. QED
      BY <1>4, <1>5, <1>9, <3>1
  <2>3. ASSUME Panic
        PROVE  Working' /\ ResultAsDefined' /\ Slicing' /\ Sorting' /\ Unmade'
    <3>1. /\ gain = << >> /\ gain' = <<"panic">> /\ UNCHANGED <<fn, coll, trace>>
          /\ Panics(fn, coll) /\ fn # "sort"
      BY <2>3 DEF Panic, Panics, Running
    <3>2. Panics(fn, coll)' /\ trace' = << >>
      BY <3>1 DEF Unmade, Panics
    <3>3. ~Failed' /\ Count' = 0
      BY <3>2 DEF Failed, Count
    <3>4. Working' /\ ResultAsDefined' /\ Unmade' /\ Slicing'
      BY <3>1, <3>2, <3>3 DEF Working, ResultAsDefined, Unmade, Slicing
    <3>5. QED
      BY <1>3, <3>1, <3>4
  <2>4. QED
    BY <2>1, <2>2, <2>3 DEF IterationNext
<1>11. QED
  BY <1>1, <1>2, <1>10

\* Whatever a block does, the iterating functions call it and return what their definitions
\* without a loop say; reduce and slice of an integer that is negative or beyond memory panic.
THEOREM IterationAlwaysAsDefined == IterationSpec => []IterationAsDefined
<1>1. IterationInit => IterInv
  BY IterInvFirst
<1>2. IterInv /\ [IterationNext]_iterationVars => IterInv'
  <2>1. SUFFICES ASSUME IterInv, UNCHANGED iterationVars PROVE IterInv'
    BY IterNext
  <2>2. UNCHANGED <<fn, coll, arity, size, todo, acc, trace, gain>>
    BY <2>1 DEF iterationVars
  <2>3. /\ Count' = Count /\ Chosen' = Chosen /\ (Failed' <=> Failed) /\ LastFailure' = LastFailure
        /\ Given' = Given /\ Cut' = Cut /\ Expected' = Expected
    BY <2>2 DEF Count, Chosen, Good, Out, Failed, LastFailure, Given, Cut, Expected, Hits, Values,
                Element, Truthy
  <2>4. Traced' /\ Calling' /\ Fits'
    BY <2>1, <2>2, <2>3 DEF IterInv, Traced, Calling, Fits, Supports, OfPairs, Out, Quiet, Went,
                            Truthy, EndOf, ReturnOf
  <2>5. Filtered => Filtered'
    BY <2>2, <2>3 DEF Filtered, IterPairs, Element
  <2>6. Working' /\ (Panics(fn, coll)' <=> Panics(fn, coll))
    <3>1. Panics(fn, coll)' <=> Panics(fn, coll)
      BY <2>2 DEF Panics
    <3>2. Working'
      BY <2>1, <2>2, <2>3, <2>5 DEF IterInv, Working, Good, Out, Truthy, First, ElementsOf
    <3>3. QED
      BY <3>1, <3>2
  <2>7. \A rank : Unanimous(rank)' <=> Unanimous(rank)
    BY <2>2, <2>3 DEF Unanimous, Out
  <2>8. \A rank, P : InPlace(rank, P)' <=> InPlace(rank, P)
    BY <2>2, <2>3 DEF InPlace
  <2>9. Slicing' /\ Sorting'
    BY <2>1, <2>2, <2>3, <2>6, <2>7, <2>8 DEF IterInv, Slicing, Sorting
  <2>10. ResultAsDefined' /\ Unmade'
    BY <2>1, <2>2, <2>3, <2>6 DEF IterInv, ResultAsDefined, Unmade, ReturnOf
  <2>11. QED
    BY <2>4, <2>6, <2>9, <2>10 DEF IterInv
<1>3. IterInv => IterationAsDefined
  BY CallingSuffices, SlicingSuffices, SortingSuffices DEF IterInv, IterationAsDefined
<1>4. QED
  BY <1>1, <1>2, <1>3, PTL DEF IterationSpec

=============================================================================
