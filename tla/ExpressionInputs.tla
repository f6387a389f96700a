-------------------------- MODULE ExpressionInputs --------------------------
(* The expressions LibraryMC evaluates. *)
EXTENDS Values, TLC

a == <<97>>
A == <<65>>
b == <<98>>

Probe(n, v) == <<"probe", n, v>>
Truths == {Bool(TRUE), Bool(FALSE), Undef, Str(<< >>)}
Leaf(n) == {Probe(n, v) : v \in Truths} \cup {<<"fail", n>>}
Logic == {"and", "or"}

\* One operator over leaves, with marks from n on.
Pairs(n) == {<<"binary", op, l, r>> : op \in Logic, l \in Leaf(n), r \in Leaf(n + 1)}
Small(n) == Leaf(n) \cup {<<"unary", "!", l>> : l \in Leaf(n)}

\* Two operators, conditions, arrays and accesses.
LogicExprs ==
  {<<"binary", op, l, r>> : op \in Logic, l \in Pairs(1), r \in Small(3)}
  \cup {<<"binary", op, l, r>> : op \in Logic, l \in Small(1), r \in Pairs(2)}
  \cup {<<"if", c, t, e>> : c \in Pairs(1), t \in Leaf(3), e \in Small(4)}
  \cup {<<"array", <<x, y>>>> : x \in Pairs(1), y \in Leaf(3)}
  \cup {<<"access", Probe(1, Arr(<<Undef>>)), <<x>>>> : x \in Pairs(2)}
  \cup {<<kind, t, <<<<<<m1, m2>>, v>>, <<<<m3>>, Probe(6, Str(b))>>>>>> :
          kind \in {"case", "selector"}, t \in Leaf(1), m1 \in Leaf(2) \cup {<<"default">>},
          m2 \in Leaf(3), v \in Leaf(4), m3 \in Leaf(5) \cup {<<"default">>}}

Strings == {Str(a), Str(A), Str(<<97, 98>>), Str(<< >>)}
Nums == {IntV(-1), IntV(0), IntV(1), <<"float", 1>>}
Hashes == {HashOf(<< >>), HashOf(a :> IntV(1)), HashOf(a :> IntV(0) @@ b :> Undef)}
Arrays == {Arr(<< >>), Arr(<<IntV(1)>>), Arr(<<Str(a), Arr(<<IntV(1)>>)>>)}
Matchers == {<<"re", {a}>>, <<"re", {}>>, <<"type", {"int", "str"}>>}
Some == Strings \cup Nums \cup Hashes \cup Arrays \cup {Undef, Bool(TRUE)}

Values2(n) == {<<"default">>} \cup {Probe(n, v) : v \in Matchers \cup {Str(a), IntV(1)}}

\* Every operator on every pair of values, and cases of up to three options.
ValueExprs ==
  {<<"binary", op, Probe(1, l), Probe(2, r)>> :
     op \in {"==", "!=", "<", "<=", ">", ">=", "in", "+", "-", "<<", "=~", "!~"}, l \in Some, r \in Some \cup Matchers}
  \cup {<<"access", Probe(1, c), <<Probe(2, k)>>>> : c \in Some, k \in Some}
  \cup {<<"access", Probe(1, c), <<Probe(2, k), Probe(3, n)>>>> : c \in Arrays, k \in Nums, n \in {IntV(0), IntV(1), IntV(2), Undef}}
  \cup {<<"unary", op, Probe(1, v)>> : op \in {"-", "*"}, v \in Some}
  \cup {<<kind, Probe(1, t), <<<<<<m1>>, Probe(3, IntV(7))>>, <<<<m2, m3>>, Probe(6, IntV(8))>>,
          <<<<m4>>, Probe(8, IntV(9))>>>>>> :
          kind \in {"case", "selector"}, t \in {Str(a), Str(b), IntV(1)},
          m1 \in Values2(2), m2 \in Values2(4), m3 \in Values2(5), m4 \in Values2(7)}
=============================================================================
