-------------------------------- MODULE Scope -------------------------------
(***************************************************************************)
(* eval/scope.go: variables, match variables and resource defaults.        *)
(*                                                                         *)
(* A scope has bindings of its own and a parent. The branches of if, unless*)
(* and case and the blocks of iterators open a scope under the current     *)
(* one; the bodies of functions, classes, defined types, plans and nodes   *)
(* open one under the top scope, whoever calls them. The scopes in use are *)
(* those of the Go call stack, so the parent of a scope is a position on   *)
(* it. The top scope outlives the programs an evaluator is asked for.      *)
(*                                                                         *)
(* Only bare names are looked up through the chain; a qualified name is    *)
(* one of the top scope.                                                   *)
(***************************************************************************)
EXTENDS Integers, Sequences, FiniteSetsExt

CONSTANTS
  Var,        \* variable names
  Val,        \* values of variables, groups and attributes
  Attr,       \* attributes of one resource type that defaults are set for
  Facts,      \* the variables the host injects into the top scope
  Groups,     \* the groups a successful match may capture, $0 first
  ParamList,  \* the parameter lists of blocks and bodies
  Unset,      \* no binding
  MaxDepth    \* bound: scopes on the stack

ASSUME ScopeAssumption ==
  /\ Unset \notin Val
  /\ Facts \in [Var -> Val \cup {Unset}]
  /\ Groups \subseteq Seq(Val) \ {<< >>}
  /\ ParamList \subseteq Seq([name : Var, given : BOOLEAN])
  /\ MaxDepth \in Nat \ {0}

VARIABLES
  stack    \* the scopes of the calls in progress, the top scope first

Unbound == [x \in Var |-> Unset]
NoDefaults == [a \in Attr |-> Unset]

\* A scope: match is << >> when there was no successful match; pending are the
\* parameters still to be bound, given ones with the value of the caller, the
\* others with that of their default expression; body tells a body's scope from a
\* branch's or a block's.
NewScope(parent, vars, pending, body) ==
  [vars |-> vars, parent |-> parent, match |-> << >>, defaults |-> NoDefaults,
   pending |-> pending, body |-> body]

Cur == stack[Len(stack)]
SetCur(s) == stack' = [stack EXCEPT ![Len(stack)] = s]

\* Something is evaluated in the current scope: its body, or a default expression
\* of a parameter while the earlier parameters are bound.
Evaluating == IF Cur.pending = << >> THEN TRUE ELSE ~Head(Cur.pending).given

-----------------------------------------------------------------------------
(* Lookup *)

\* The scopes from i up to the top scope.
Chain(i) ==
  LET up[j \in 1..Len(stack)] ==
        IF stack[j].parent = 0 THEN <<j>> ELSE <<j>> \o up[stack[j].parent]
  IN up[i]

\* The first scope of chain c with property P, or 0.
FirstIn(c, P(_)) ==
  IF \E k \in 1..Len(c) : P(c[k])
  THEN c[Min({k \in 1..Len(c) : P(c[k])})] ELSE 0

Lookup(i, x) ==
  LET j == FirstIn(Chain(i), LAMBDA s : stack[s].vars[x] # Unset)
  IN IF j = 0 THEN Unset ELSE stack[j].vars[x]

\* Match variable $n: of the nearest scope that has captures, and of no other.
LookupMatch(i, n) ==
  LET j == FirstIn(Chain(i), LAMBDA s : stack[s].match # << >>)
  IN IF j # 0 /\ n < Len(stack[j].match) THEN stack[j].match[n + 1] ELSE Unset

\* f with the bindings of g over it.
Over(f, g) == [x \in DOMAIN f |-> IF g[x] = Unset THEN f[x] ELSE g[x]]

\* The variables an apply block is given: the chain from the outside in.
Snapshot(i) ==
  LET c == Chain(i)
      acc[k \in 0..Len(c)] ==
        IF k = 0 THEN Unbound
        ELSE Over(acc[k - 1], stack[c[Len(c) + 1 - k]].vars)
  IN acc[Len(c)]

\* Mutant of LookupDefaults: the nearest scope with defaults gives them all.
LookupDefaultsWhole(i) ==
  LET j == FirstIn(Chain(i), LAMBDA s : stack[s].defaults # NoDefaults)
  IN IF j = 0 THEN NoDefaults ELSE stack[j].defaults

LookupDefaults(i) ==
  LET c == Chain(i)
      acc[k \in 0..Len(c)] ==
        IF k = 0 THEN NoDefaults
        ELSE Over(acc[k - 1], stack[c[Len(c) + 1 - k]].defaults)
  IN acc[Len(c)]

-----------------------------------------------------------------------------
(* Operations *)

Init == stack = <<NewScope(0, Facts, << >>, TRUE)>>

\* Every error ends the evaluation. The top scope is there for the next one.
Fail == stack' = <<stack[1]>>

\* Mutant of Assign: a variable may be assigned again.
AssignAgain(x, v) == Evaluating /\ SetCur([Cur EXCEPT !.vars[x] = v])

Assign(x, v) ==
  /\ Evaluating
  /\ IF Cur.vars[x] # Unset THEN Fail ELSE SetCur([Cur EXCEPT !.vars[x] = v])

\* Mutant of Match: the captures go to the top scope.
MatchTop(g) == Evaluating /\ stack' = [stack EXCEPT ![1].match = g]

\* A match in the current scope, of =~, !~, case or a selector; << >> when it fails.
Match(g) == Evaluating /\ SetCur([Cur EXCEPT !.match = g])

\* Type { a => v, ... }: later defaults of a scope replace earlier ones.
SetDefaults(attrs) ==
  Evaluating /\ SetCur([Cur EXCEPT !.defaults = Over(Cur.defaults, attrs)])

Open(s) == Evaluating /\ Len(stack) < MaxDepth /\ stack' = Append(stack, s)

OpenBranch == Open(NewScope(Len(stack), Unbound, << >>, FALSE))

CallBlock(params) == Open(NewScope(Len(stack), Unbound, params, FALSE))

\* Mutant of CallBody: the body sees the variables of its caller.
CallBodyDynamic(params) == Open(NewScope(Len(stack), Unbound, params, TRUE))

CallBody(params) == Open(NewScope(1, Unbound, params, TRUE))

\* The next parameter is bound, whatever the scope binds it to already.
Bind(v) ==
  /\ Cur.pending # << >>
  /\ SetCur([Cur EXCEPT !.vars[Head(Cur.pending).name] = v, !.pending = Tail(@)])

\* A missing value, a wrong type, too many arguments, or any error of the body.
Abort == Len(stack) > 1 /\ Fail

Leave ==
  /\ Len(stack) > 1 /\ Cur.pending = << >>
  /\ stack' = SubSeq(stack, 1, Len(stack) - 1)

Next ==
  \/ \E x \in Var, v \in Val : Assign(x, v)
  \/ \E g \in Groups \cup {<< >>} : Match(g)
  \/ \E attrs \in [Attr -> Val \cup {Unset}] \ {NoDefaults} : SetDefaults(attrs)
  \/ OpenBranch
  \/ \E params \in ParamList : CallBlock(params) \/ CallBody(params)
  \/ \E v \in Val : Bind(v)
  \/ Abort \/ Leave

Spec == Init /\ [][Next]_stack

-----------------------------------------------------------------------------
(* Properties *)

\* The type invariant.
ScopeTypeOK ==
  /\ stack \in Seq([vars : [Var -> Val \cup {Unset}], parent : 0..MaxDepth,
                    match : Groups \cup {<< >>}, defaults : [Attr -> Val \cup {Unset}],
                    pending : Seq([name : Var, given : BOOLEAN]), body : BOOLEAN])
  /\ Len(stack) \in 1..MaxDepth
  /\ \A i \in 1..Len(stack) : stack[i].parent < i /\ (stack[i].parent = 0 <=> i = 1)

\* The one way to change a variable is a parameter bound over what a default
\* expression of an earlier parameter assigned to its name (bindParams,
\* bindNamedParams through setForce).
BoundOnce ==
  [][\A i \in 1..Len(stack), x \in Var :
       i <= Len(stack') /\ stack[i].vars[x] # Unset /\ stack'[i].vars[x] # stack[i].vars[x]
         => /\ i = Len(stack)
            /\ Cur.pending # << >> /\ Head(Cur.pending).name = x]_stack

\* What happens in a scope stays there: no variable, capture or default of a
\* branch, a block or a body reaches the scopes of the calls around it, not even
\* when it ends by an error.
NothingLeaks ==
  [][\A i \in 1..(Len(stack) - 1) : i <= Len(stack') => stack'[i] = stack[i]]_stack

\* The innermost body the scope i belongs to.
BodyOf(i) == Max({j \in 1..i : stack[j].body})

\* A body sees its own variables and captures and those of the top scope, never its
\* caller's (declareClass, instantiateDefine, callUserFunction, EvalPlan, evalNodeBody).
CallersUnseen ==
  \A i \in 1..Len(stack) :
    LET visible == {1} \cup BodyOf(i)..i IN
    /\ \A x \in Var :
         Lookup(i, x) # Unset => \E j \in visible : stack[j].vars[x] = Lookup(i, x)
    /\ LookupMatch(i, 0) # Unset =>
         \E j \in visible : stack[j].match # << >> /\ stack[j].match[1] = LookupMatch(i, 0)

\* An apply block resolves every bare name as the place it stands at does: the
\* snapshot it starts from is what lookup finds (snapshot, compileApplyBlock).
SnapshotAgrees ==
  \A i \in 1..Len(stack), x \in Var : Snapshot(i)[x] = Lookup(i, x)

\* The default of an attribute is that of the nearest scope which sets this very
\* attribute, through however many scopes set others (lookupDefaults).
DefaultsNearest ==
  \A i \in 1..Len(stack), a \in Attr :
    \/ /\ LookupDefaults(i)[a] = Unset
       /\ \A k \in 1..Len(Chain(i)) : stack[Chain(i)[k]].defaults[a] = Unset
    \/ \E k \in 1..Len(Chain(i)) :
         /\ LookupDefaults(i)[a] = stack[Chain(i)[k]].defaults[a]
         /\ stack[Chain(i)[k]].defaults[a] # Unset
         /\ \A l \in 1..(k - 1) : stack[Chain(i)[l]].defaults[a] = Unset

\* Bare names mean what they mean where they are written: a body sees none of its
\* caller's variables, an apply block's snapshot is what lookup finds, and resource
\* defaults are taken attribute by attribute, each from the nearest scope that sets it
\* (lookup, snapshot, lookupDefaults).
NamesResolved == ScopeTypeOK /\ CallersUnseen /\ SnapshotAgrees /\ DefaultsNearest

=============================================================================
