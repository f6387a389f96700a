------------------------------- MODULE Values -------------------------------
(***************************************************************************)
(* eval/value.go: the values of the language, and what every operator and  *)
(* function takes from it: truth, equality, order, rendering.              *)
(*                                                                         *)
(* A value is a pair of its kind and its content: <<"undef", 0>>,          *)
(* <<"bool", b>>, <<"int", n>>, <<"float", n>> (whole floats only),        *)
(* <<"str", s>>, <<"arr", seq>>, <<"hash", f>> with a function of strings, *)
(* <<"type", kinds>>, <<"re", strings>>, <<"sensitive", v, p>> where p is  *)
(* the pointer, 0 for one a function has just made. A string is the        *)
(* sequence of its character codes. Numbers has what their width does to   *)
(* integers.                                                               *)
(***************************************************************************)
EXTENDS Integers, Sequences, SequencesExt, FiniteSetsExt

Undef == <<"undef", 0>>
Bool(b) == <<"bool", b>>
IntV(n) == <<"int", n>>
Str(s) == <<"str", s>>
Arr(s) == <<"arr", s>>
HashOf(f) == <<"hash", f>>
Secret(v, p) == <<"sensitive", v, p>>

IsNum(v) == v[1] \in {"int", "float"}
Truthy(v) == v # Undef /\ v # Bool(FALSE)

\* Integers and floats are compared by value, everything else within its kind. A
\* Sensitive is a pointer: it is equal to itself, and to no other whatever they hold.
RECURSIVE Equals(_, _)
Equals(a, b) ==
  \/ IsNum(a) /\ IsNum(b) /\ a[2] = b[2]
  \/ a[1] = b[1] /\ a[1] \in {"undef", "bool", "str", "type", "re"} /\ a[2] = b[2]
  \/ a[1] = "sensitive" /\ b[1] = "sensitive" /\ a[3] = b[3] /\ a[3] # 0
  \/ a[1] = "arr" /\ b[1] = "arr" /\ Len(a[2]) = Len(b[2])
     /\ \A k \in 1..Len(a[2]) : Equals(a[2][k], b[2][k])
  \/ a[1] = "hash" /\ b[1] = "hash" /\ DOMAIN a[2] = DOMAIN b[2]
     /\ \A k \in DOMAIN a[2] : Equals(a[2][k], b[2][k])

\* s comes before t in the order of their codes.
Before(s, t) ==
  \E n \in 0..Len(s) :
    /\ n < Len(t) /\ SubSeq(s, 1, n) = SubSeq(t, 1, n)
    /\ n < Len(s) => s[n + 1] < t[n + 1]

ToLower(s) == [k \in 1..Len(s) |-> IF s[k] \in 65..90 THEN s[k] + 32 ELSE s[k]]

\* -1, 0 or 1, or << >> for what cannot be compared. Strings are compared without
\* regard to case.
Compare(a, b) ==
  IF IsNum(a) /\ IsNum(b)
  THEN IF a[2] < b[2] THEN <<-1>> ELSE IF a[2] > b[2] THEN <<1>> ELSE <<0>>
  ELSE IF a[1] = "str" /\ b[1] = "str"
  THEN LET s == ToLower(a[2])  t == ToLower(b[2])
       IN IF Before(s, t) THEN <<-1>> ELSE IF Before(t, s) THEN <<1>> ELSE <<0>>
  ELSE << >>

RECURSIVE Digits(_)
Digits(n) == IF n < 10 THEN <<48 + n>> ELSE Digits(n \div 10) \o <<48 + (n % 10)>>

\* The content of s between quotes; no string in use needs an escape.
Quoted(s) == <<34>> \o s \o <<34>>

SortedKeys(f) == SetToSortSeq(DOMAIN f, Before)

\* Mutant of Redacted: what it holds.
RedactedShown(v) == IF v[2][1] = "str" THEN v[2][2] ELSE << >>

\* A Sensitive as it appears in a string: the same text whatever it holds.
Redacted(v) == <<42>>

\* A value as it appears in a string; quote for strings inside of collections. What
\* it is for types and regular expressions is left to another module of theirs.
RECURSIVE StringifyIn(_, _)
StringifyIn(v, quote) ==
  LET inner(w) == StringifyIn(w, TRUE) IN
  CASE v[1] = "str" -> IF quote THEN Quoted(v[2]) ELSE v[2]
    [] v[1] = "bool" -> IF v[2] THEN <<116, 114, 117, 101>> ELSE <<102, 97, 108, 115, 101>>
    [] IsNum(v) -> IF v[2] < 0 THEN <<45>> \o Digits(-v[2]) ELSE Digits(v[2])
    [] v[1] = "arr" -> <<91>> \o FlattenSeq([k \in 1..Len(v[2]) |->
                         inner(v[2][k]) \o (IF k < Len(v[2]) THEN <<44, 32>> ELSE << >>)]) \o <<93>>
    [] v[1] = "hash" -> LET keys == SortedKeys(v[2]) IN
         <<123>> \o FlattenSeq([k \in 1..Len(keys) |-> Quoted(keys[k]) \o <<32, 61, 62, 32>>
                     \o inner(v[2][keys[k]]) \o (IF k < Len(keys) THEN <<44, 32>> ELSE << >>)]) \o <<125>>
    [] v[1] = "sensitive" -> Redacted(v)
    [] OTHER -> << >>

Stringify(v) == StringifyIn(v, FALSE)

\* g over f.
MergeHash(f, g) == [k \in DOMAIN f \cup DOMAIN g |-> IF k \in DOMAIN g THEN g[k] ELSE f[k]]

ContainsValue(a, v) == \E k \in 1..Len(a) : Equals(a[k], v)

IsSubstring(sub, s) ==
  \E k \in 0..(Len(s) - Len(sub)) : SubSeq(s, k + 1, k + Len(sub)) = sub

\* pcore.IsInstance, for types that are sets of kinds.
IsInstance(type, v) == v[1] \in type[2]

=============================================================================
