----------------------------- MODULE Expressions ----------------------------
(***************************************************************************)
(* eval/expr.go: the operators, access, selectors, case, if and unless.    *)
(*                                                                         *)
(* An expression is a tree. Its leaves are <<"probe", n, v>>, which stands *)
(* for an operand with the value v and leaves the mark n when it is        *)
(* evaluated, and <<"fail", n>>, one that fails. Marks grow with the place *)
(* in the text, so they tell what was evaluated and in which order.        *)
(* Variables are in Scope; type expressions are another module's.          *)
(***************************************************************************)
EXTENDS Values

CONSTANTS
  Expr    \* the expressions that are evaluated

VARIABLES
  expr,   \* the expression
  out     \* << >>, or what it came to

vars == <<expr, out>>

\* What evaluating comes to: a value unless it failed, the captures in force, and
\* the marks of what was evaluated.
Ok(v, st) == [st EXCEPT !.ok = TRUE, !.val = v]
Err(st) == [st EXCEPT !.ok = FALSE, !.val = Undef]
Start == [ok |-> TRUE, val |-> Undef, caps |-> << >>, seen |-> << >>]

-----------------------------------------------------------------------------
(* Operators on values *)

EvalIn(l, r) ==
  CASE r[1] = "arr" -> ContainsValue(r[2], l)
    [] r[1] = "hash" -> Stringify(l) \in DOMAIN r[2]
    [] r[1] = "str" -> l[1] = "str" /\ IsSubstring(l[2], r[2])
    [] OTHER -> FALSE

\* << >> when the operands are not numbers. Whole floats only, and no quotients.
NumericArith(op, l, r) ==
  IF ~IsNum(l) \/ ~IsNum(r) THEN << >>
  ELSE LET kind == IF l[1] = "int" /\ r[1] = "int" THEN "int" ELSE "float"
       IN CASE op = "+" -> <<kind, l[2] + r[2]>>
            [] op = "-" -> <<kind, l[2] - r[2]>>

EvalArith(op, l, r) ==
  CASE op = "<<" /\ l[1] = "arr" -> Arr(Append(l[2], r))
    [] op = "+" /\ l[1] = "arr" /\ r[1] = "arr" -> Arr(l[2] \o r[2])
    [] op = "+" /\ l[1] = "hash" /\ r[1] = "hash" -> HashOf(MergeHash(l[2], r[2]))
    [] op = "<<" -> << >>
    [] OTHER -> NumericArith(op, l, r)

EvalCompare(op, l, r) ==
  LET c == Compare(l, r) IN
  IF c = << >> THEN << >>
  ELSE Bool(CASE op = "<" -> c[1] < 0 [] op = ">" -> c[1] > 0
              [] op = "<=" -> c[1] <= 0 [] op = ">=" -> c[1] >= 0)

\* A match of the string s: its captures replace those of the scope, and a failed
\* match clears them. A pattern that is a string matches where it occurs.
MatchAndCapture(pattern, s, st) ==
  LET hit == IF pattern[1] = "re" THEN s \in pattern[2] ELSE IsSubstring(pattern[2], s)
  IN Ok(Bool(hit), [st EXCEPT !.caps = IF hit THEN <<IF pattern[1] = "re" THEN s ELSE pattern[2]>>
                                                ELSE << >>])

EvalMatch(l, r, st) ==
  IF r[1] = "type" THEN Ok(Bool(IsInstance(r, l)), st)
  ELSE IF r[1] \in {"re", "str"} /\ l[1] = "str" THEN MatchAndCapture(r, l[2], st)
  ELSE Err(st)

\* What an option of a case or a selector takes for a match.
Matches(test, m, st) ==
  IF m[1] = "type" THEN Ok(Bool(IsInstance(m, test)), st)
  ELSE IF m[1] = "re"
       THEN IF test[1] = "str" THEN MatchAndCapture(m, test[2], st) ELSE Ok(Bool(FALSE), st)
  ELSE Ok(Bool(Equals(test, m)), st)

\* An array, hash or string at its keys; an index outside is undef, of a string the
\* empty string. Bounds at the end of the integers are in Numbers.
IndexValue(c, keys, st) ==
  LET n == IF c[1] \in {"arr", "str"} THEN Len(c[2]) ELSE 0
      k == keys[1]
      p == IF k[2] < 0 THEN k[2] + n ELSE k[2]
  IN CASE c[1] = "hash" -> Ok(IF Stringify(k) \in DOMAIN c[2] THEN c[2][Stringify(k)] ELSE Undef, st)
       [] c[1] \notin {"hash", "arr", "str"} -> Err(st)
       [] k[1] # "int" -> Err(st)
       [] c[1] = "str" -> Ok(Str(IF p \in 0..(n - 1) THEN <<c[2][p + 1]>> ELSE << >>), st)
       [] Len(keys) = 2 -> IF keys[2][1] # "int" THEN Err(st)
                           ELSE LET from == IF p < 0 THEN 0 ELSE p
                                IN Ok(Arr(SubSeq(c[2], from + 1, Min({from + keys[2][2], n}))), st)
       [] OTHER -> Ok(IF p \in 0..(n - 1) THEN c[2][p + 1] ELSE Undef, st)

EvalUnary(op, v, st) ==
  CASE op = "!" -> Ok(Bool(~Truthy(v)), st)
    [] op = "-" /\ IsNum(v) -> Ok(<<v[1], -v[2]>>, st)
    [] OTHER -> Err(st)

EvalStrict(op, l, r, st) ==
  CASE op = "==" -> Ok(Bool(Equals(l, r)), st)
    [] op = "!=" -> Ok(Bool(~Equals(l, r)), st)
    [] op = "in" -> Ok(Bool(EvalIn(l, r)), st)
    [] op = "=~" -> EvalMatch(l, r, st)
    [] op = "!~" -> LET m == EvalMatch(l, r, st) IN IF m.ok THEN Ok(Bool(m.val # Bool(TRUE)), m) ELSE m
    [] OTHER -> LET v == IF op \in {"<", ">", "<=", ">="} THEN EvalCompare(op, l, r)
                         ELSE EvalArith(op, l, r)
                IN IF v = << >> THEN Err(st) ELSE Ok(v, st)

-----------------------------------------------------------------------------
(* Evaluation *)

\* The left side alone decides.
ShortCircuit(op, l) == (op = "and" /\ ~Truthy(l)) \/ (op = "or" /\ Truthy(l))

\* Mutant of DefaultOf: the first default.
DefaultOfFirst(options) ==
  LET d == {i \in 1..Len(options) : \E j \in 1..Len(options[i][1]) : options[i][1][j] = <<"default">>}
  IN IF d = {} THEN 0 ELSE Min(d)

\* The option that stands in when none matches: of several with a default, the last.
DefaultOf(options) ==
  LET d == {i \in 1..Len(options) : \E j \in 1..Len(options[i][1]) : options[i][1][j] = <<"default">>}
  IN IF d = {} THEN 0 ELSE Max(d)

RECURSIVE Eval(_, _), EvalAll(_, _), Choose(_, _, _, _)

\* The values of several expressions in turn, up to one that fails.
EvalAll(xs, st) ==
  IF xs = << >> THEN Ok(<<>>, st)
  ELSE LET a == Eval(xs[1], st) IN
       IF ~a.ok THEN a
       ELSE LET b == EvalAll(Tail(xs), a) IN IF b.ok THEN Ok(<<a.val>> \o b.val, b) ELSE b

\* The number of the first option with a match expression that matches test, or 0.
\* todo is a sequence of <<option, expression>>.
Choose(test, todo, found, st) ==
  IF todo = << >> \/ found # 0 THEN Ok(IntV(found), st)
  ELSE IF todo[1][2] = <<"default">> THEN Choose(test, Tail(todo), 0, st)
  ELSE LET m == Eval(todo[1][2], st)
           hit == Matches(test, m.val, m)
       IN IF ~m.ok THEN m
          ELSE Choose(test, Tail(todo), IF hit.val = Bool(TRUE) THEN todo[1][1] ELSE 0, hit)

Eval(x, st) ==
  LET k == x[1] IN
  CASE k = "probe" -> Ok(x[3], [st EXCEPT !.seen = Append(@, x[2])])
    [] k = "fail" -> Err([st EXCEPT !.seen = Append(@, x[2])])
    [] k = "unary" -> LET v == Eval(x[3], st) IN IF v.ok THEN EvalUnary(x[2], v.val, v) ELSE v
    [] k = "binary" ->
         LET l == Eval(x[3], st) IN
         IF ~l.ok THEN l
         ELSE IF ShortCircuit(x[2], l.val) THEN Ok(Bool(x[2] = "or"), l)
         ELSE LET r == Eval(x[4], l) IN
              IF ~r.ok THEN r
              ELSE IF x[2] \in {"and", "or"} THEN Ok(Bool(Truthy(r.val)), r)
              ELSE EvalStrict(x[2], l.val, r.val, r)
    [] k = "access" ->
         LET a == EvalAll(<<x[2]>> \o x[3], st) IN
         IF a.ok THEN IndexValue(a.val[1], Tail(a.val), a) ELSE a
    [] k = "array" -> LET a == EvalAll(x[2], st) IN IF a.ok THEN Ok(Arr(a.val), a) ELSE a
    [] k = "if" ->          \* unless is an if with its branches exchanged
         LET c == Eval(x[2], st) IN
         IF ~c.ok THEN c ELSE Eval(IF Truthy(c.val) THEN x[3] ELSE x[4], c)
    [] k \in {"case", "selector"} ->
         LET t == Eval(x[2], st)
             options == x[3]
             todo == FlattenSeq([i \in 1..Len(options) |->
                       [j \in 1..Len(options[i][1]) |-> <<i, options[i][1][j]>>]])
             c == Choose(t.val, todo, 0, t)
             i == IF c.val[2] # 0 THEN c.val[2] ELSE DefaultOf(options)
         IN IF ~t.ok THEN t
            ELSE IF ~c.ok THEN c
            ELSE IF i # 0 THEN Eval(options[i][2], c)
            ELSE IF k = "case" THEN Ok(Undef, c) ELSE Err(c)

Init == expr \in Expr /\ out = << >>

Next == out = << >> /\ out' = <<Eval(expr, Start)>> /\ UNCHANGED expr

Spec == Init /\ [][Next]_vars

-----------------------------------------------------------------------------
(* Properties *)

Done == out # << >>
Res == out[1]

\* The leaves of x in the order of the text, and whether one may stand out of turn
\* because a default was found before the end.
RECURSIVE Leaves(_)
Leaves(x) ==
  CASE x[1] \in {"probe", "fail"} -> <<x>>
    [] x[1] = "unary" -> Leaves(x[3])
    [] x[1] = "binary" -> Leaves(x[3]) \o Leaves(x[4])
    [] x[1] = "array" -> FlattenSeq([k \in 1..Len(x[2]) |-> Leaves(x[2][k])])
    [] x[1] = "access" -> Leaves(x[2]) \o FlattenSeq([k \in 1..Len(x[3]) |-> Leaves(x[3][k])])
    [] x[1] = "if" -> Leaves(x[2]) \o Leaves(x[3]) \o Leaves(x[4])
    [] x[1] \in {"case", "selector"} ->
         Leaves(x[2]) \o FlattenSeq([i \in 1..Len(x[3]) |->
           FlattenSeq([j \in 1..Len(x[3][i][1]) |-> Leaves(x[3][i][1][j])]) \o Leaves(x[3][i][2])])
    [] OTHER -> << >>

\* Operands are evaluated at most once and in the order of the text; only the value
\* of a default may come after matches that stand behind it.
TextOrder ==
  Done =>
    \A i, j \in 1..Len(Res.seen) : i < j =>
      \/ Res.seen[i] < Res.seen[j]
      \/ /\ Res.seen[i] # Res.seen[j] /\ j = Len(Res.seen)
         /\ expr[1] \in {"case", "selector"}
         /\ LET d == DefaultOf(expr[3]) IN
            d # 0 /\ \E l \in 1..Len(Leaves(expr[3][d][2])) : Leaves(expr[3][d][2])[l][2] = Res.seen[j]

\* Nothing is evaluated after an operand failed, and its failure is the result.
FailureEnds ==
  Done =>
    \A k \in 1..Len(Res.seen) :
      (\E l \in 1..Len(Leaves(expr)) : Leaves(expr)[l] = <<"fail", Res.seen[k]>>)
        => k = Len(Res.seen) /\ ~Res.ok

\* The truth of x when nothing in it fails, from the truth of its leaves alone.
RECURSIVE Denote(_)
Denote(x) ==
  CASE x[1] = "probe" -> Truthy(x[3])
    [] x[1] = "unary" -> ~Denote(x[3])
    [] x[1] = "binary" -> IF x[2] = "and" THEN Denote(x[3]) /\ Denote(x[4]) ELSE Denote(x[3]) \/ Denote(x[4])
    [] OTHER -> IF Denote(x[2]) THEN Denote(x[3]) ELSE Denote(x[4])

IsLogic(x) ==
  \/ x[1] \in {"probe", "if"} \/ (x[1] = "unary" /\ x[2] = "!")
  \/ (x[1] = "binary" /\ x[2] \in {"and", "or"})

\* Logical expressions mean what they mean in logic, and an operand that cannot
\* change the result is not evaluated: without it the result is the same.
LogicHolds ==
  Done /\ IsLogic(expr) /\ (\A l \in 1..Len(Leaves(expr)) : Leaves(expr)[l][1] = "probe") =>
    Res.ok /\ Truthy(Res.val) = Denote(expr)

\* A case and a selector take the first option one of whose values matches, and the
\* last default only when none does, wherever it stands.
FirstMatch ==
  Done /\ expr[1] \in {"case", "selector"} /\ Res.ok =>
    LET test == expr[2][3]
        options == expr[3]
        hit(i) == \E j \in 1..Len(options[i][1]) :
                    LET m == options[i][1][j] IN
                    m[1] = "probe" /\ (\/ m[3][1] = "re" /\ test[1] = "str" /\ test[2] \in m[3][2]
                                       \/ m[3][1] = "type" /\ IsInstance(m[3], test)
                                       \/ Equals(m[3], test))
        hits == {i \in 1..Len(options) : hit(i)}
        dflt == {i \in 1..Len(options) : <<"default">> \in Range(options[i][1])}
        taken == CASE hits # {} -> Min(hits) [] hits = {} /\ dflt # {} -> Max(dflt) [] OTHER -> 0
    IN /\ taken = 0 => Res.val = Undef /\ expr[1] = "case"
       /\ taken # 0 => Res.val = options[taken][2][3]

\* Whatever was matched before, after a test of the same string the captures are
\* those of the last match that was tried, none when it failed.
CapturesFollow ==
  Done /\ expr[1] \in {"case", "selector"} /\ Res.ok /\ expr[2][3][1] = "str" =>
    LET tried == {l \in 1..Len(Leaves(expr)) :
                    /\ Leaves(expr)[l][1] = "probe" /\ Leaves(expr)[l][3][1] = "re"
                    /\ Leaves(expr)[l][2] \in Range(Res.seen)}
    IN IF tried = {} THEN Res.caps = << >>
       ELSE (Res.caps # << >>) = (expr[2][3][2] \in Leaves(expr)[Max(tried)][3][2])

\* == is an equivalence on what it is used on, + of hashes adds the right one to the
\* left one and keeps what only the left one has, and `in` finds what was appended.
OperatorsAgree ==
  Done /\ expr[1] = "binary" /\ Res.ok /\ expr[3][1] = "probe" /\ expr[4][1] = "probe" =>
    LET l == expr[3][3]  r == expr[4][3]  v == Res.val IN
    /\ expr[2] = "==" => /\ (v = Bool(TRUE)) = Equals(r, l)
                         /\ v = Bool(TRUE) => Stringify(l) = Stringify(r)
                         /\ l = r => v = Bool(TRUE)
    /\ expr[2] = "+" /\ l[1] = "hash" =>
         \A k \in DOMAIN v[2] : v[2][k] = IF k \in DOMAIN r[2] THEN r[2][k] ELSE l[2][k]
    /\ expr[2] = "<<" => EvalIn(r, v) /\ \A k \in 1..Len(l[2]) : EvalIn(l[2][k], v)
    /\ expr[2] = "<=" => (v = Bool(TRUE)) = (EvalCompare(">", l, r) = Bool(FALSE))

=============================================================================
