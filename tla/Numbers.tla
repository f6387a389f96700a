------------------------------- MODULE Numbers ------------------------------
(***************************************************************************)
(* Integers where their width matters: the operators of eval/expr.go, abs  *)
(* of eval/builtins.go, indexes and slices, and the loop of range in       *)
(* eval/stdlib_array.go.                                                   *)
(*                                                                         *)
(* Integers wrap at their width and conversion to float64 rounds, so small *)
(* widths show what 64 bits do at the far end. A call is one operation     *)
(* with its operands; range takes a step for each round of its loop.       *)
(***************************************************************************)
EXTENDS Integers, Sequences

CONSTANTS
  Half,       \* 2^(w-1) for integers of w bits
  Mantissa,   \* 2^p, the integers up to which a float is exact
  Byte,       \* 2^8, for strings of one byte
  Calls,      \* the operations and operands in use
  MaxOut      \* bound: rounds of a loop that does not end

VARIABLES
  call,     \* <<operation, operands...>>
  item, out,   \* of range: the loop variable and the values so far
  result    \* << >> while the operation runs

numberVars == <<call, item, out, result>>

Int64 == (-Half)..(Half - 1)
Bytes == 0..(Byte - 1)

\* The operations with the operands their callers let through: integers, lengths of
\* arrays and strings, and strings of one byte.
Operations ==
  ({"+", "-", "*", "/", "%", "cmp"} \X Int64 \X Int64)
  \cup ({"neg", "abs"} \X Int64)
  \cup ({"index"} \X (Int64 \cap Nat) \X Int64)
  \cup ({"slice"} \X (Int64 \cap Nat) \X Int64 \X Int64)
  \cup ({"range"} \X Int64 \X Int64 \X Int64)
  \cup ({"bytes"} \X Bytes \X Bytes \X Int64)

ASSUME NumbersAssumption ==
  /\ Half \in Nat \ {0} /\ Mantissa \in Nat \ {0}
  /\ Byte \in Nat \ {0} /\ MaxOut \in Nat
  /\ Calls \subseteq Operations

\* What is left of an integer of any size in w bits.
Wrap(n) == ((n + Half) % (2 * Half)) - Half

Abs(n) == IF n < 0 THEN -n ELSE n

-----------------------------------------------------------------------------
(* Arithmetic *)

\* Mutant of Quot: rounds down, as \div does.
QuotFloor(l, r) == IF r > 0 THEN l \div r ELSE (-l) \div (-r)

\* Division truncates towards zero.
Quot(l, r) ==
  IF (l < 0) = (r < 0) THEN Abs(l) \div Abs(r) ELSE -(Abs(l) \div Abs(r))

Error == <<"error">>
Value(n) == <<"value", n>>

IntArith(op, l, r) ==
  CASE op = "+" -> Value(Wrap(l + r))
    [] op = "-" -> Value(Wrap(l - r))
    [] op = "*" -> Value(Wrap(l * r))
    [] op \in {"/", "%"} /\ r = 0 -> Error
    [] op = "/" /\ r # 0 -> Value(Wrap(Quot(l, r)))
    [] op = "%" /\ r # 0 -> Value(Wrap(l - Quot(l, r) * r))

\* Unary minus and abs. The smallest integer is its own negation.
Negate(n) == Value(Wrap(-n))
AbsValue(n) == Value(IF n < 0 THEN Wrap(-n) ELSE n)

\* The floats among the naturals of this width: all up to the mantissa, beyond it every
\* second one, then every fourth, and so on.
Floats == {f \in 0..(2 * Half) : f <= Mantissa \/ \E m \in 0..Mantissa, k \in 1..Half : f = m * 2^k}

\* float64 of an integer: the nearest float, and of two that are equally near the even one.
NearestFloats(a) == {f \in Floats : \A g \in Floats : Abs(a - f) <= Abs(a - g)}
Even(f, near) == \A g \in near \ {f} : (f \div Abs(g - f)) % 2 = 0
Magnitude ==
  [a \in 0..Half |->
     CHOOSE f \in NearestFloats(a) :
       \A g \in NearestFloats(a) : Even(g, NearestFloats(a)) => Even(f, NearestFloats(a))]
Float(n) == IF n < 0 THEN -Magnitude[-n] ELSE Magnitude[n]

\* compare goes through float64, also for two integers; equals does not.
Compare(l, r) ==
  IF Float(l) < Float(r) THEN -1 ELSE IF Float(l) > Float(r) THEN 1 ELSE 0

-----------------------------------------------------------------------------
(* Indexes and slices *)

\* The position in an array or string of n elements an index names, or 0.
Index(n, idx) ==
  LET p == IF idx < 0 THEN idx + n ELSE idx
  IN IF p < 0 \/ p >= n THEN 0 ELSE p + 1

\* The positions start+1..end a slice of an array of n elements takes. The end is
\* computed before the start is cut to the length, and an end before the start is a
\* run-time panic of the slice expression.
SliceArray(n, idx, count) ==
  LET from == IF idx < 0 THEN Wrap(idx + n) ELSE idx
      start == IF from < 0 THEN 0 ELSE from
      sum == Wrap(start + count)
      end == IF sum > n THEN n ELSE sum
      cut == IF start > n THEN n ELSE start
  IN IF end < cut THEN <<"panic">> ELSE <<"value", cut, end>>

-----------------------------------------------------------------------------
(* range *)

\* Mutant of RangeStep: a descending range goes on as long as it is above its bound
\* or wraps to it.
RangeStepNoSign ==
  /\ result = << >> /\ call[1] = "range"
  /\ IF item # Wrap(call[3] + call[4])
     THEN /\ Len(out) < MaxOut /\ out' = Append(out, item)
          /\ item' = Wrap(item + call[4]) /\ UNCHANGED result
     ELSE result' = <<"value">> /\ UNCHANGED <<item, out>>
  /\ UNCHANGED call

\* range(lo, hi, step) of integers.
RangeStep ==
  /\ result = << >> /\ call[1] = "range"
  /\ IF (IF call[4] > 0 THEN item <= call[3] ELSE item >= call[3])
     THEN /\ Len(out) < MaxOut /\ out' = Append(out, item)
          /\ item' = Wrap(item + call[4]) /\ UNCHANGED result
     ELSE result' = <<"value">> /\ UNCHANGED <<item, out>>
  /\ UNCHANGED call

\* The same of strings of one byte: upwards whatever the sign of the step, which is
\* cut to a byte.
RangeBytes ==
  /\ result = << >> /\ call[1] = "bytes"
  /\ IF item <= call[3]
     THEN /\ Len(out) < MaxOut /\ out' = Append(out, item)
          /\ item' = (item + (call[4] % Byte)) % Byte /\ UNCHANGED result
     ELSE result' = <<"value">> /\ UNCHANGED <<item, out>>
  /\ UNCHANGED call

-----------------------------------------------------------------------------
(* Calls *)

NumbersInit ==
  /\ call \in Calls /\ out = << >> /\ result = << >>
  /\ item = (IF call[1] \in {"range", "bytes"} THEN call[2] ELSE 0)

\* A step of zero is refused.
RangeZero ==
  /\ call[1] \in {"range", "bytes"} /\ call[4] = 0 /\ result = << >>
  /\ result' = Error /\ UNCHANGED <<call, item, out>>

Evaluate ==
  /\ result = << >> /\ call[1] \notin {"range", "bytes"}
  /\ result' = CASE call[1] = "neg" -> Negate(call[2])
                 [] call[1] = "abs" -> AbsValue(call[2])
                 [] call[1] = "cmp" -> Value(Compare(call[2], call[3]))
                 [] call[1] = "index" -> Value(Index(call[2], call[3]))
                 [] call[1] = "slice" -> SliceArray(call[2], call[3], call[4])
                 [] OTHER -> IntArith(call[1], call[2], call[3])
  /\ UNCHANGED <<call, item, out>>

NumbersNext ==
  \/ Evaluate \/ RangeZero
  \/ (IF call[1] \in {"range", "bytes"} THEN call[4] # 0 ELSE FALSE) /\ (RangeStep \/ RangeBytes)

NumbersSpec == NumbersInit /\ [][NumbersNext]_numberVars /\ WF_numberVars(NumbersNext)

-----------------------------------------------------------------------------
(* Properties *)

NumTypeOK ==
  /\ item \in Int64 \cup Bytes /\ out \in Seq(Int64 \cup Bytes)
  /\ result # << >> /\ call[1] \in {"+", "-", "*", "/", "%", "neg", "abs"}
       => result = Error \/ result[2] \in Int64

\* Quotient and remainder belong together, also where the quotient wraps (the
\* smallest integer by -1): they make up the dividend again, the remainder is
\* smaller than the divisor and has the sign of the dividend (intArith).
DivisionIdentity ==
  result # << >> /\ result # Error /\ call[1] = "/" =>
    LET l == call[2]  r == call[3]  m == IntArith("%", l, r)[2] IN
    /\ Wrap(result[2] * r + m) = l
    /\ Abs(m) < Abs(r) /\ m * l >= 0

\* abs is never negative except of the smallest integer, where it is the argument.
AbsAtTheEdge ==
  result # << >> /\ call[1] = "abs" =>
    (result[2] >= 0 /\ result[2] \in {call[2], -call[2]}) \/ (call[2] = -Half /\ result[2] = call[2])

\* The order of integers is a total one that never turns around, however large they
\* are; it may only fail to tell two large ones apart, although == tells them apart
\* (compare, asFloat).
CompareOrders ==
  result # << >> /\ call[1] = "cmp" =>
    LET l == call[2]  r == call[3] IN
    /\ result[2] = -Compare(r, l)
    /\ result[2] = -1 => l < r
    /\ result[2] = 0 /\ l # r => Abs(l) > Mantissa \/ Abs(r) > Mantissa
    /\ \A t \in Int64 : result[2] <= 0 /\ Compare(r, t) <= 0 => Compare(l, t) <= 0

\* A slice takes the elements from its start for its count that there are, counted
\* from the end when the start is negative; it panics only for a negative count, or
\* where start and count together exceed the largest integer (sliceArray).
SliceTakes ==
  result # << >> /\ call[1] = "slice" =>
    LET n == call[2]
        start == IF call[3] >= 0 THEN call[3] ELSE IF call[3] + n > 0 THEN call[3] + n ELSE 0
    IN \/ call[4] < 0 \/ start + call[4] >= Half
       \/ /\ result[1] = "value"
          /\ {p \in 1..n : result[2] < p /\ p <= result[3]} =
             {p \in 1..n : start < p /\ p <= start + call[4]}

\* range gives the arithmetic progression between its bounds, wherever the value after
\* the bound is still an integer.
RangeProgression ==
  result = <<"value">> /\ call[1] = "range" /\ call[3] + call[4] \in Int64 =>
    LET lo == call[2]  hi == call[3]  step == call[4] IN
    /\ {out[k] : k \in 1..Len(out)} =
         {n \in Int64 : /\ (n - lo) % Abs(step) = 0
                        /\ IF step > 0 THEN lo <= n /\ n <= hi ELSE hi <= n /\ n <= lo}
    /\ \A k \in 1..(Len(out) - 1) : out[k + 1] = out[k] + step

\* range ends wherever the value after the bound is still an integer (or a byte, for
\* strings). It need not end at the far end of the integers, where the loop variable
\* wraps; a string range with a step that is no byte need not either (rangeValues).
RangeEnds ==
  (\/ call[1] = "range" /\ call[3] + call[4] \in Int64
   \/ call[1] = "bytes" /\ call[4] > 0 /\ call[3] + call[4] \in Bytes)
    ~> result # << >>

\* Integer arithmetic and positions at the edge of the width: quotient and remainder
\* make up the dividend, abs is negative only there, comparing through floats never
\* turns an order around, slices take what is there, and a range that ends gives the
\* whole progression (intArith, builtinAbs, compare, sliceArray, rangeValues).
NumbersExact ==
  /\ NumTypeOK /\ DivisionIdentity /\ AbsAtTheEdge /\ CompareOrders
  /\ SliceTakes /\ RangeProgression

=============================================================================
