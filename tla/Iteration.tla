------------------------------ MODULE Iteration -----------------------------
(***************************************************************************)
(* eval/iterate.go and the functions of eval/stdlib_array.go,              *)
(* stdlib_hash.go and stdlib_extra.go that call a block.                   *)
(*                                                                         *)
(* A function is called with a collection and a block, calls the block     *)
(* with one list of arguments after the other, and makes a result of what  *)
(* the block returned. What the block does is open: each call ends with a  *)
(* value, with a next, a break or an error. How jumps travel through nested*)
(* calls is in Evaluator; here is what one function makes of them.         *)
(*                                                                         *)
(* A collection is <<"int", n>>, <<"arr", elements>>, <<"hash", pairs>>    *)
(* with the pairs in the order of their keys, or <<"nested", v>>.          *)
(***************************************************************************)
EXTENDS Integers, FiniteSets, Sequences, SequencesExt

CONSTANTS
  Fn,           \* the functions that are called
  Collection,   \* and what with
  Tree,         \* the nested values among them and all that is nested in those
  Returned,     \* the values a block may return; False is the only false one
  Nil, False,   \* values the functions and blocks return
  Seed,         \* the start value of a reduce that is given one
  Chunk,        \* the chunk sizes for slice; reduce takes 0 for no seed
  MaxCap        \* bound: the longest array there is memory for

VARIABLES
  fn, coll, arity, size,
  todo,     \* the elements whose block calls are still to come
  acc,      \* the value in progress: out, memo, found, ...
  trace,    \* history: the block calls so far, with arguments and outcome
  gain      \* what the function comes to, << >> while it runs

iterationVars == <<fn, coll, arity, size, todo, acc, trace, gain>>

\* An array has elements, a hash pairs of a key and a value; an integer may be negative.
ASSUME IterationAssumption ==
  /\ Chunk \subseteq Nat /\ MaxCap \in Nat
  /\ \A c \in Collection :
       IF c[1] = "int" THEN c[2] \in Int
       ELSE c[1] \in {"arr", "hash"} => c[2] \in Seq({c[2][k] : k \in DOMAIN c[2]})

Truthy(v) == v # False
ReturnOf(v) == <<"value", v>>
Running == gain = << >>

-----------------------------------------------------------------------------
(* What the block is called with *)

\* Index and element of an array or an integer, key and value of a hash.
IterPairs(c) ==
  CASE c[1] = "int" -> [i \in 1..c[2] |-> <<i - 1, i - 1>>]
    [] c[1] = "arr" -> [i \in 1..Len(c[2]) |-> <<i - 1, c[2][i]>>]
    [] c[1] = "hash" -> c[2]

\* reduce and slice make the array of the numbers below an integer at once: elementsOf
\* panics when its capacity is negative or beyond the memory.
Panics(f, c) == f \in {"reduce", "slice"} /\ c[1] = "int" /\ c[2] \notin 0..MaxCap

ElementsOf(c) ==
  CASE c[1] = "int" -> [i \in 1..c[2] |-> i - 1]
    [] OTHER -> c[2]

Chunks(items, n) ==
  [k \in 1..((Len(items) + n - 1) \div n) |->
     SubSeq(items, (k - 1) * n + 1, IF k * n < Len(items) THEN k * n ELSE Len(items))]

\* The leaves of a nested value <<"node", children>>, from left to right.
Leaves(v) ==
  LET f[w \in Tree] ==
        IF w[1] = "leaf" THEN <<w>> ELSE FlattenSeq([k \in DOMAIN w[2] |-> f[w[2][k]]])
  IN f[v]

\* The functions that go through pairs, and those whose block gets an element.
OfPairs == {"each", "map", "filter", "any", "all"}

Todo(f, c, n) ==
  CASE f \in OfPairs -> IterPairs(c)
    [] f = "reduce" -> IF n = 0 THEN SubSeq(ElementsOf(c), 2, Len(ElementsOf(c))) ELSE ElementsOf(c)
    [] f = "slice" -> Chunks(ElementsOf(c), n)
    [] f = "tree_each" -> Leaves(c[2])
    [] f = "with" -> <<c>>
    [] OTHER -> ElementsOf(c)

\* A block of one parameter gets the element, of a hash the pair as one value.
CallPair(pair) ==
  IF arity = 1 THEN IF coll[1] = "hash" THEN <<pair>> ELSE <<pair[2]>> ELSE pair

Supports(f, c) ==
  CASE f \in OfPairs \cup {"reduce", "slice"} -> c[1] \in {"int", "arr", "hash"}
    [] f \in {"index", "sort"} -> c[1] = "arr"
    [] f = "tree_each" -> c[1] = "nested"
    [] OTHER -> c[1] = "arr"

\* The value in progress before the first call of the block. For sort it is the
\* array, with the element to be placed and where it stands.
First(f, c, n) ==
  CASE f \in {"map", "filter"} -> << >>
    [] f = "any" -> FALSE
    [] f = "all" -> TRUE
    [] f = "index" -> 0
    [] f = "reduce" -> IF n # 0 THEN Seed
                       ELSE IF ElementsOf(c) = << >> THEN Nil ELSE Head(ElementsOf(c))
    [] f = "sort" -> [out |-> c[2], i |-> 2, j |-> 2, err |-> << >>]
    [] OTHER -> Nil

IterationInit ==
  \E f \in Fn, c \in Collection, a \in {1, 2}, n \in Chunk :
    /\ Supports(f, c)
    /\ n \in (CASE f = "slice" -> Chunk \ {0} [] f = "reduce" -> {0, 1} [] OTHER -> {0})
    /\ fn = f /\ coll = c /\ arity = a /\ size = n
    /\ todo = (IF f = "sort" THEN << >> ELSE Todo(f, c, n))
    /\ acc = First(f, c, n) /\ trace = << >> /\ gain = << >>

-----------------------------------------------------------------------------
(* The block *)

\* What a call of the block comes to: too few or too many arguments are an error;
\* a next is the value it gives, and a break goes on to the function.
BlockCall(args, o) ==
  IF Len(args) # arity THEN <<"error">>
  ELSE IF o[1] = "next" THEN <<"value", o[2]>> ELSE o

BlockOutcome == {<<k, v>> : k \in {"value", "next", "break"}, v \in Returned} \cup {<<"error">>}

Call(args, o) == trace' = Append(trace, [args |-> args, outcome |-> BlockCall(args, o)])

\* Mutant of Iterate: a break is an error like any other.
IterateBreaking(args, o, new, catches) ==
  LET r == BlockCall(args, o) IN
  /\ Running /\ todo # << >> /\ Call(args, o)
  /\ IF r[1] = "value"
     THEN acc' = new /\ todo' = Tail(todo) /\ UNCHANGED gain
     ELSE gain' = r /\ UNCHANGED <<acc, todo>>
  /\ UNCHANGED <<fn, coll, arity, size>>

\* One call of the block and what the function makes of it: new is the value in
\* progress with that of the block in it; catches, whether a break ends the function
\* with the value of the break (breakValue) or goes on as it is.
Iterate(args, o, new, catches) ==
  LET r == BlockCall(args, o) IN
  /\ Running /\ todo # << >> /\ Call(args, o)
  /\ IF r[1] = "value"
     THEN acc' = new /\ todo' = Tail(todo) /\ UNCHANGED gain
     ELSE gain' = (IF r[1] = "break" /\ catches THEN ReturnOf(r[2]) ELSE r) /\ UNCHANGED <<acc, todo>>
  /\ UNCHANGED <<fn, coll, arity, size>>

Finish(v) ==
  /\ Running /\ todo = << >> /\ gain' = ReturnOf(v)
  /\ UNCHANGED <<fn, coll, arity, size, todo, acc, trace>>

-----------------------------------------------------------------------------
(* The functions *)

Each(o) == fn = "each" /\ (Iterate(CallPair(Head(todo)), o, acc, TRUE) \/ Finish(coll))

Map(o) == fn = "map" /\ (Iterate(CallPair(Head(todo)), o, Append(acc, o[2]), TRUE) \/ Finish(acc))

\* Filter of a hash keeps whole entries, of anything else the elements.
Kept(pair) == IF coll[1] = "hash" THEN pair ELSE pair[2]

Filter(o) ==
  /\ fn = "filter"
  /\ \/ Iterate(CallPair(Head(todo)), o,
                IF Truthy(o[2]) THEN Append(acc, Kept(Head(todo))) ELSE acc, TRUE)
     \/ Finish(acc)

Panic ==
  /\ Running /\ Panics(fn, coll) /\ gain' = <<"panic">>
  /\ UNCHANGED <<fn, coll, arity, size, todo, acc, trace>>

Reduce(o) ==
  /\ fn = "reduce" /\ ~Panics(fn, coll)
  /\ Iterate(<<acc, Head(todo)>>, o, o[2], TRUE) \/ Finish(acc)

With(o) == fn = "with" /\ (Iterate(<<Head(todo)>>, o, o[2], FALSE) \/ Finish(acc))

Slice(o) ==
  fn = "slice" /\ ~Panics(fn, coll) /\ (Iterate(<<Head(todo)>>, o, acc, FALSE) \/ Finish(coll))

\* Every element is tried, whatever the earlier ones were.
AnyOf(o) ==
  fn = "any" /\ (Iterate(CallPair(Head(todo)), o, acc \/ Truthy(o[2]), FALSE) \/ Finish(acc))

AllOf(o) ==
  fn = "all" /\ (Iterate(CallPair(Head(todo)), o, acc /\ Truthy(o[2]), FALSE) \/ Finish(acc))

\* The position of the first element the block is true of; acc counts the others.
IndexOf(o) ==
  /\ fn = "index"
  /\ \/ /\ Running /\ todo # << >> /\ BlockCall(<<Head(todo)>>, o)[1] = "value"
        /\ Truthy(o[2]) /\ Call(<<Head(todo)>>, o) /\ gain' = ReturnOf(acc)
        /\ UNCHANGED <<fn, coll, arity, size, todo, acc>>
     \/ /\ todo # << >> /\ (BlockCall(<<Head(todo)>>, o)[1] = "value" => ~Truthy(o[2]))
        /\ Iterate(<<Head(todo)>>, o, acc + 1, FALSE)
     \/ Finish(Nil)

\* range with a block, and tree_each, which is called with every leaf.
RangeOf(o) == fn = "range" /\ (Iterate(<<Head(todo)>>, o, acc, FALSE) \/ Finish(Nil))

TreeEach(o) == fn = "tree_each" /\ (Iterate(<<Head(todo)>>, o, acc, FALSE) \/ Finish(coll))

\* sort with a block: the library's stable sort asks it whether one element is less
\* than the one before it, and inserts (the way of short slices). A block that fails
\* or jumps counts as "not less" and the sort goes on; its last error is the result.
Sort(c) ==
  /\ fn = "sort" /\ Running /\ acc.i <= Len(acc.out)
  /\ Call(<<acc.out[acc.j], acc.out[acc.j - 1]>>, c)
  /\ LET r == BlockCall(<<acc.out[acc.j], acc.out[acc.j - 1]>>, c)
         down == r[1] = "value" /\ r[2] = "less"
         moved == IF down THEN [acc.out EXCEPT ![acc.j] = acc.out[acc.j - 1], ![acc.j - 1] = acc.out[acc.j]]
                  ELSE acc.out
     IN acc' = [out |-> moved, err |-> IF r[1] = "value" THEN acc.err ELSE r,
                i |-> IF down /\ acc.j > 2 THEN acc.i ELSE acc.i + 1,
                j |-> IF down /\ acc.j > 2 THEN acc.j - 1 ELSE acc.i + 1]
  /\ UNCHANGED <<fn, coll, arity, size, todo, gain>>

Sorted ==
  /\ fn = "sort" /\ Running /\ acc.i > Len(acc.out)
  /\ gain' = (IF acc.err = << >> THEN ReturnOf(acc.out) ELSE acc.err)
  /\ UNCHANGED <<fn, coll, arity, size, todo, acc, trace>>

IterationNext ==
  \/ \E o \in BlockOutcome :
       \/ Each(o) \/ Map(o) \/ Filter(o) \/ Reduce(o) \/ With(o) \/ Slice(o)
       \/ AnyOf(o) \/ AllOf(o) \/ IndexOf(o) \/ RangeOf(o) \/ TreeEach(o) \/ Sort(o)
  \/ Sorted \/ Panic

IterationSpec == IterationInit /\ [][IterationNext]_iterationVars

-----------------------------------------------------------------------------
(* Properties *)

Values == [k \in 1..Len(trace) |-> IF trace[k].outcome[1] = "value" THEN trace[k].outcome[2] ELSE False]
Failed == \E k \in 1..Len(trace) : trace[k].outcome[1] # "value"

\* The block is never called again after it failed or broke off, and by index not
\* after it found what it looks for.
SilentAfterEnd ==
  fn # "sort" =>
    \A k \in 1..(Len(trace) - 1) :
      trace[k].outcome[1] = "value" /\ (fn = "index" => ~Truthy(trace[k].outcome[2]))

\* No error and no jump of a block is lost: what each, map, filter and reduce return
\* after a break is the value of the break, every other failure is the function's.
LastFailure ==
  trace[CHOOSE k \in 1..Len(trace) : trace[k].outcome[1] # "value"
          /\ \A l \in (k + 1)..Len(trace) : trace[l].outcome[1] = "value"].outcome
NothingLost ==
  gain # << >> /\ Failed =>
    gain = IF LastFailure[1] = "break" /\ fn \in {"each", "map", "filter", "reduce"}
             THEN ReturnOf(LastFailure[2]) ELSE LastFailure

\* When the block never fails, the results are what the functions are documented to
\* return, by a definition that knows nothing of loops; but reduce and slice panic on an
\* integer that is no capacity. Indexes count from 0.
Hits == {k \in 1..Len(trace) : Truthy(Values[k])}
Ranked(S, k) == CHOOSE j \in S : Cardinality({h \in S : h <= j}) = k
Element(i) == IF coll[1] = "int" THEN i - 1 ELSE coll[2][i]
Expected ==
  LET n == Len(trace) IN
  CASE fn \in {"each", "slice", "tree_each"} -> coll
    [] fn = "map" -> Values
    [] fn = "filter" -> [k \in 1..Cardinality(Hits) |-> Element(Ranked(Hits, k))]
    [] fn = "any" -> Hits # {}
    [] fn = "all" -> Hits = 1..n
    [] fn = "index" -> IF Hits = {} THEN Nil ELSE n - 1
    [] fn \in {"reduce", "with"} ->
         IF n > 0 THEN Values[n] ELSE IF size = 1 THEN Seed
         ELSE IF Todo(fn, coll, 1) = << >> THEN Nil ELSE Todo(fn, coll, 1)[1]
    [] fn = "range" -> Nil
    [] OTHER -> gain[2]

ResultAsDefined ==
  gain # << >> /\ ~Failed =>
    gain = IF Panics(fn, coll) THEN <<"panic">> ELSE ReturnOf(Expected)

\* The chunks slice gives its block are the whole collection, in order, and only the
\* last one may be short.
ChunksCover ==
  fn = "slice" /\ gain # << >> /\ ~Failed /\ ~Panics(fn, coll) =>
    /\ FlattenSeq([k \in 1..Len(trace) |-> trace[k].args[1]]) = ElementsOf(coll)
    /\ \A k \in 1..Len(trace) :
         LET l == Len(trace[k].args[1]) IN l = size \/ (k = Len(trace) /\ l \in 1..size)

\* Whatever order the answers of the block are consistent with, the sorted array has
\* it, and elements that order does not tell apart keep their places. (To say so, the
\* elements themselves must be told apart.)
SortStable ==
  fn = "sort" /\ IsInjective(coll[2]) /\ gain # << >> /\ ~Failed =>
    \A rank \in [1..Len(coll[2]) -> 1..Len(coll[2])] :
      LET pos(e) == CHOOSE i \in 1..Len(coll[2]) : coll[2][i] = e
          less(d, e) == rank[pos(d)] < rank[pos(e)] IN
      (\A k \in 1..Len(trace) : (Values[k] = "less") = less(trace[k].args[1], trace[k].args[2])) =>
        \A i, j \in 1..Len(coll[2]) : i < j =>
          LET d == gain[2][i]  e == gain[2][j] IN
          ~less(e, d) /\ (~less(d, e) => pos(d) < pos(e))

\* What the iterating functions return is what their definitions without a loop give: slice
\* covers its collection, sort keeps what its block does not order. No error and no jump of a
\* block is lost, and the block is not called again after one (eval/iterate.go, breakValue).
\* reduce and slice panic on an integer that is no capacity, and only those two (elementsOf).
IterationAsDefined ==
  ResultAsDefined /\ ChunksCover /\ SortStable /\ NothingLost /\ SilentAfterEnd

=============================================================================
