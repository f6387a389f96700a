------------------------------ MODULE LibraryMC -----------------------------
(***************************************************************************)
(* An instance of what a manifest computes with, for TLC: a behaviour is   *)
(* one nest of scopes with variables or with resource defaults (Scope),    *)
(* one integer operation (Numbers), one call of an iterating function      *)
(* (Iteration), one expression (Expressions), one call of a function on    *)
(* collections (Collections) or one of a random function (SeededRandom).   *)
(* The variables of the other modules rest.                                *)
(***************************************************************************)
EXTENDS Scope, Numbers, SeededRandom, Iteration, TLC

CONSTANTS
  x, y, v1, v2,                    \* names and values of variables and attributes
  Yes                              \* a value of blocks

VARIABLES
  part,                                           \* the module at work
  attrStack,                                      \* Scope's, of defaults
  expr, value,                                    \* Expressions'
  request, reply                                  \* Collections'

scoping == <<stack, attrStack>>
counting == <<call, item, out, result>>
iterating == <<fn, coll, arity, size, todo, acc, trace, gain>>
evaluating == <<expr, value>>
applying == <<request, reply>>
drawing == <<ask, words, pos, got>>
all == <<part, scoping, counting, iterating, evaluating, applying, drawing>>

\* No parameter, one that is given, and two that both take their defaults.
Params ==
  LET P(n, given) == [name |-> n, given |-> given]
  IN {<< >>, <<P(x, TRUE)>>, <<P(x, FALSE), P(y, FALSE)>>}
FactX == [n \in Var |-> IF n = x THEN v1 ELSE Unset]
OneGroup == {<<v1>>}

\* Every operand of the width for every operator, arrays of up to three elements.
LibraryCalls ==
  {<<op, l, r>> : op \in {"+", "-", "*", "/", "%", "cmp"}, l, r \in Int64}
  \cup {<<op, n>> : op \in {"neg", "abs"}, n \in Int64}
  \cup {<<"slice", n, idx, count>> : n \in 0..3, idx, count \in Int64}
  \cup {<<"index", n, idx>> : n \in 0..3, idx \in Int64}
  \cup {<<"range", lo, hi, step>> : lo, hi \in Int64, step \in -3..3}
  \cup {<<"bytes", lo, hi, step>> : lo, hi \in Bytes, step \in Int64}

ExprIn == INSTANCE ExpressionInputs
CallIn == INSTANCE CollectionInputs
IterIn == INSTANCE IterationInputs
LibraryAsks == IterIn!RandomAsks
AllFunctions ==
  {"each", "map", "filter", "reduce", "with", "slice", "any", "all", "index", "range", "tree_each", "sort"}
SomeCollections == IterIn!SomeCollections \cup IterIn!SortArrays
SomeTrees == IterIn!Trees
BlockValues == {Yes, False, "less", "equal"}

Sd == INSTANCE Scope WITH
  Var <- {}, Attr <- {x, y}, Facts <- << >>, Groups <- {}, ParamList <- {<< >>}, MaxDepth <- 4,
  stack <- attrStack
Ex == INSTANCE Expressions WITH Expr <- ExprIn!LogicExprs \cup ExprIn!ValueExprs, out <- value
Co == INSTANCE Collections WITH Calls <- CallIn!AllCalls, call <- request, result <- reply

NumbersRest == call = <<"rest">> /\ item = 0 /\ out = << >> /\ result = Error
IterationRests ==
  /\ fn = "rest" /\ coll = << >> /\ arity = 1 /\ size = 0
  /\ todo = << >> /\ acc = << >> /\ trace = << >> /\ gain = << >>
ExpressionsRest == expr = <<"rest">> /\ value = << >>
CollectionsRest == request = <<"rest">> /\ reply = << >>
RandomRests == ask = <<"rest">> /\ words = << >> /\ pos = 0 /\ got = << >>

\* Scopes rest as they begin, with the top scope.
LibraryInit ==
  /\ part \in {"variables", "defaults", "numbers", "iteration", "expressions", "collections", "random"}
  /\ Init /\ Sd!Init
  /\ IF part = "numbers" THEN NumbersInit ELSE NumbersRest
  /\ IF part = "iteration" THEN IterationInit ELSE IterationRests
  /\ IF part = "expressions" THEN Ex!Init ELSE ExpressionsRest
  /\ IF part = "collections" THEN Co!Init ELSE CollectionsRest
  /\ IF part = "random" THEN RandomInit ELSE RandomRests

NumbersTurn ==
  part = "numbers" /\ NumbersNext /\ UNCHANGED <<part, scoping, iterating, evaluating, applying, drawing>>

LibraryNext ==
  \/ /\ part = "variables" /\ Next
     /\ UNCHANGED <<part, attrStack, counting, iterating, evaluating, applying, drawing>>
  \/ /\ part = "defaults" /\ Sd!Next
     /\ UNCHANGED <<part, stack, counting, iterating, evaluating, applying, drawing>>
  \/ NumbersTurn
  \/ part = "iteration" /\ IterationNext /\ UNCHANGED <<part, scoping, counting, evaluating, applying, drawing>>
  \/ part = "expressions" /\ Ex!Next /\ UNCHANGED <<part, scoping, counting, iterating, applying, drawing>>
  \/ part = "collections" /\ Co!Next /\ UNCHANGED <<part, scoping, counting, iterating, evaluating, drawing>>
  \/ part = "random" /\ RandomNext /\ UNCHANGED <<part, scoping, counting, iterating, evaluating, applying>>

\* rangeValues is a loop that nothing interrupts.
LibrarySpec == LibraryInit /\ [][LibraryNext]_all /\ WF_all(NumbersTurn)

-----------------------------------------------------------------------------
(* Properties.  Each states what one kind of computation promises; the     *)
(* parts are stated and explained in the modules they come from.           *)

\* Resource defaults are taken attribute by attribute, each from the nearest scope that
\* sets it (lookupDefaults).
DefaultsResolved == Sd!DefaultsNearest

\* Operands are evaluated once, in the order of the text, and none behind a failure or a
\* short circuit; options are tried in their order with the default last, and the captures
\* left are those of the last match that was tried. Logic is that of propositions, == an
\* equivalence, + of hashes keeps what only one side has, and `in` finds what << appended
\* (evalBinary, evalCase, evalSelector, caseMatch, matchRegexp).
ExpressionsFollow ==
  part = "expressions" =>
    /\ Ex!TextOrder /\ Ex!FailureEnds /\ Ex!FirstMatch /\ Ex!CapturesFollow
    /\ Ex!LogicHolds /\ Ex!OperatorsAgree

\* The functions on arrays and hashes agree with each other: sets, indexes, orders,
\* conversions there and back, and hashes merged leaf by leaf.
FunctionsAgree ==
  part = "collections" =>
    /\ Co!SetsAgree /\ Co!AtSameIndex /\ Co!MedianBetween
    /\ Co!SortedByKey /\ Co!PairsAndHashes /\ Co!MergedLeaves

\* No function but those that unwrap lets out what a Sensitive holds, and rewrapping
\* leaves one Sensitive around the data and none in it (sensitive.go).
SecretsOpaque == part = "collections" => Co!SecretsOpaque /\ Co!RewrapExact
=============================================================================
