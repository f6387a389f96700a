----------------------------- MODULE Collections ----------------------------
(***************************************************************************)
(* The functions on arrays and hashes: eval/stdlib_array.go,               *)
(* stdlib_hash.go, stdlib_extra.go, stdlib_number.go, builtins.go, the     *)
(* conversions of call.go and what sensitive.go unwraps.                   *)
(*                                                                         *)
(* Values has the values. A call is the function's name and its arguments; *)
(* a block is given as what it returns for each element. A wrong number or *)
(* kind of arguments, a call that returns an error, comes to Err.          *)
(***************************************************************************)
EXTENDS Values, Functions

CONSTANTS
  Calls    \* the calls in use, <<function, arguments...>>

VARIABLES
  call,
  result   \* << >> before the call

vars == <<call, result>>

Ok(v) == <<"ok", v>>
Err == <<"err">>

IsArr(v) == v[1] = "arr"
IsHash(v) == v[1] = "hash"

\* The elements of a that satisfy P.
Kept(a, P(_)) == Ok(Arr(SelectSeq(a, P)))

-----------------------------------------------------------------------------
(* Arrays as sets *)

\* Mutant of UniqueValues: only neighbours are compared.
UniqueValuesRuns(a) ==
  FoldLeft(LAMBDA out, e : IF out # << >> /\ Equals(out[Len(out)], e) THEN out ELSE Append(out, e), << >>, a)

UniqueValues(a) ==
  FoldLeft(LAMBDA out, e : IF ContainsValue(out, e) THEN out ELSE Append(out, e), << >>, a)

\* unique: of an array, or of the characters of a string.
Unique(v) ==
  IF v[1] = "str" THEN Ok(Str(FoldLeft(LAMBDA out, e : IF Contains(out, e) THEN out ELSE Append(out, e), << >>, v[2])))
  ELSE IF IsArr(v) THEN Ok(Arr(UniqueValues(v[2]))) ELSE Err

Union(args) ==
  IF args = << >> \/ \E k \in 1..Len(args) : ~IsArr(args[k]) THEN Err
  ELSE Ok(Arr(UniqueValues(FlattenSeq([k \in 1..Len(args) |-> args[k][2]]))))

Intersection(a, b) ==
  IF ~IsArr(a) \/ ~IsArr(b) THEN Err
  ELSE Ok(Arr(UniqueValues(SelectSeq(a[2], LAMBDA e : ContainsValue(b[2], e)))))

\* Duplicates stay.
Difference(a, b) ==
  IF ~IsArr(a) \/ ~IsArr(b) THEN Err
  ELSE Kept(a[2], LAMBDA e : ~ContainsValue(b[2], e))

Member(a, w) ==
  IF ~IsArr(a) THEN Err
  ELSE Ok(Bool(IF IsArr(w) THEN \A k \in 1..Len(w[2]) : ContainsValue(a[2], w[2][k])
               ELSE ContainsValue(a[2], w)))

\* With one argument, the elements that are not undef.
Count(args) ==
  IF ~IsArr(args[1]) THEN Err
  ELSE Ok(IntV(Len(SelectSeq(args[1][2],
            LAMBDA e : IF Len(args) = 1 THEN e # Undef ELSE Equals(e, args[2])))))

-----------------------------------------------------------------------------
(* Elements *)

Concat(args) ==
  IF ~IsArr(args[1]) THEN Err
  ELSE Ok(Arr(args[1][2] \o FlattenSeq([k \in 1..(Len(args) - 1) |->
         IF IsArr(args[k + 1]) THEN args[k + 1][2] ELSE <<args[k + 1]>>])))

RECURSIVE FlattenArray(_)
FlattenArray(a) ==
  FlattenSeq([k \in 1..Len(a) |-> IF IsArr(a[k]) THEN FlattenArray(a[k][2]) ELSE <<a[k]>>])

\* The value or any of the values delete takes away.
ToDelete(d, e) == IF IsArr(d) THEN ContainsValue(d[2], e) ELSE Equals(e, d)

\* s without the occurrences of d, found from the left.
RECURSIVE Without(_, _)
Without(s, d) ==
  IF d = << >> \/ Len(s) < Len(d) THEN s
  ELSE IF SubSeq(s, 1, Len(d)) = d THEN Without(SubSeq(s, Len(d) + 1, Len(s)), d)
  ELSE <<Head(s)>> \o Without(Tail(s), d)

StringList(v) ==
  IF v[1] = "str" THEN <<v[2]>>
  ELSE IF IsArr(v) THEN [k \in 1..Len(v[2]) |-> Stringify(v[2][k])] ELSE << >>

\* From an array and a string by value, from a hash by key.
Delete(v, d) ==
  CASE IsArr(v) -> Kept(v[2], LAMBDA e : ~ToDelete(d, e))
    [] IsHash(v) -> Ok(HashOf(Restrict(v[2], {k \in DOMAIN v[2] : ~ToDelete(d, Str(k))})))
    [] v[1] = "str" -> Ok(Str(FoldLeft(Without, v[2], StringList(d))))
    [] OTHER -> Err

DeleteValues(h, v) ==
  IF ~IsHash(h) THEN Err
  ELSE Ok(HashOf(Restrict(h[2], {k \in DOMAIN h[2] : ~Equals(h[2][k], v)})))

DeleteUndef(v) ==
  CASE IsArr(v) -> Kept(v[2], LAMBDA e : e # Undef)
    [] IsHash(v) -> Ok(HashOf(Restrict(v[2], {k \in DOMAIN v[2] : v[2][k] # Undef})))
    [] OTHER -> Err

\* The position in an array of n elements an index names, or 0.
Position(n, i) ==
  LET p == IF i < 0 THEN i + n ELSE i IN IF p \in 0..(n - 1) THEN p + 1 ELSE 0

DeleteAt(a, i) ==
  IF ~IsArr(a) \/ i[1] # "int" THEN Err
  ELSE LET p == Position(Len(a[2]), i[2])
       IN Ok(Arr(IF p = 0 THEN a[2] ELSE RemoveAt(a[2], p)))

\* Indexes outside are left out.
ValuesAt(a, is) ==
  LET idx == IF IsArr(is) THEN is[2] ELSE <<is>> IN
  IF ~IsArr(a) \/ \E k \in 1..Len(idx) : idx[k][1] # "int" THEN Err
  ELSE LET found == SelectSeq(idx, LAMBDA i : Position(Len(a[2]), i[2]) # 0)
       IN Ok(Arr([k \in 1..Len(found) |-> a[2][Position(Len(a[2]), found[k][2])]]))

\* The shorter array is filled up with undef, the longer one is cut.
ZipArrays(args) ==
  LET a == args[1]  b == args[2] IN
  IF ~IsArr(a) \/ ~IsArr(b) THEN Err
  ELSE LET pairs == [k \in 1..Len(a[2]) |-> Arr(<<a[2][k], IF k <= Len(b[2]) THEN b[2][k] ELSE Undef>>)]
       IN Ok(Arr(IF Len(args) = 3 /\ Truthy(args[3]) THEN FlattenArray(pairs) ELSE pairs))

\* Whether s matches: <<"re", strings>> by the strings a regular expression matches;
\* a string is taken for one, and as it is in use it has none of its operators.
PatternMatches(p, s) == IF p[1] = "re" THEN s \in p[2] ELSE IsSubstring(p[2], s)
IsPattern(p) == p[1] \in {"re", "str"}

Grep(a, p) ==
  IF ~IsArr(a) \/ ~IsPattern(p) THEN Err
  ELSE Kept(a[2], LAMBDA e : PatternMatches(p, Stringify(e)))

Reject(a, p) ==
  IF ~IsArr(a) \/ ~IsPattern(p) THEN Err
  ELSE Kept(a[2], LAMBDA e : ~PatternMatches(p, Stringify(e)))

DeleteRegex(v, p) ==
  IF ~IsPattern(p) THEN Err
  ELSE CASE IsArr(v) -> Reject(v, p)
         [] IsHash(v) -> Ok(HashOf(Restrict(v[2], {k \in DOMAIN v[2] : ~PatternMatches(p, k)})))
         [] OTHER -> Err

\* prefix and suffix, of the elements or of the keys.
Affix(v, fix, prefix) ==
  LET with(s) == IF prefix THEN fix[2] \o s ELSE s \o fix[2]
      bare(k) == CHOOSE s \in DOMAIN v[2] : with(s) = k
  IN CASE fix[1] # "str" -> Err
       [] IsHash(v) -> Ok(HashOf([k \in {with(s) : s \in DOMAIN v[2]} |-> v[2][bare(k)]]))
       [] IsArr(v) -> Ok(Arr([k \in 1..Len(v[2]) |-> Str(with(Stringify(v[2][k])))]))
       [] OTHER -> Err

\* The first argument that is neither undef nor the empty string.
Pick(args) ==
  LET good == SelectSeq(args, LAMBDA v : v # Undef /\ v # Str(<< >>))
  IN IF good = << >> THEN Err ELSE Ok(good[1])

PickDefault(args) ==
  IF args = << >> THEN Err
  ELSE IF Pick(args) = Err THEN Ok(args[Len(args)]) ELSE Pick(args)

-----------------------------------------------------------------------------
(* Order *)

\* Three values in order.
SortThree(v) ==
  LET swap(s, i, j) == IF Compare(s[i], s[j]) = <<1>> THEN [s EXCEPT ![i] = s[j], ![j] = s[i]] ELSE s
  IN swap(swap(swap(v, 1, 2), 1, 3), 2, 3)

\* Every pair is compared, and a pair that cannot be is an error.
Comparable(v) == \A i, j \in 1..Len(v) : i < j => Compare(v[i], v[j]) # << >>

Clamp(args) ==
  LET v == IF Len(args) = 1 /\ IsArr(args[1]) THEN args[1][2] ELSE args
  IN IF Len(v) # 3 THEN Err ELSE IF ~Comparable(v) THEN Err ELSE Ok(SortThree(v)[2])

\* Each argument is compared with the best so far; of equal ones the first stays.
MinMax(args, wantMax) ==
  LET better(v, best) == Compare(v, best) = <<IF wantMax THEN 1 ELSE -1>>
      best[k \in 1..Len(args)] ==
        IF k = 1 THEN args[1] ELSE IF better(args[k], best[k - 1]) THEN args[k] ELSE best[k - 1]
  IN IF args = << >> \/ \E k \in 2..Len(args) : Compare(args[k], best[k - 1]) = << >>
     THEN Err ELSE Ok(best[Len(args)])

\* An integer, unless one of the elements is a float.
Sum(a) ==
  IF ~IsArr(a) \/ \E k \in 1..Len(a[2]) : ~IsNum(a[2][k]) THEN Err
  ELSE Ok(<<IF \E k \in 1..Len(a[2]) : a[2][k][1] = "float" THEN "float" ELSE "int",
            FoldLeft(LAMBDA n, e : n + e[2], 0, a[2])>>)

\* The order of sort_by: of numbers, else of what the two look like as strings.
Spaceship(a, b) ==
  IF IsNum(a) /\ IsNum(b) THEN a[2] < b[2] ELSE Before(Stringify(a), Stringify(b))

\* A stable insertion sort of positions by their keys. It is what sort.SliceStable
\* does to fewer than twenty elements, also where the order is none.
SortedPositions(keys) ==
  LET insert(s, i) ==
        LET k == Max({0} \cup {j \in 1..Len(s) : ~Spaceship(keys[i], keys[s[j]])})
        IN InsertAt(s, k + 1, i)
  IN FoldLeft(insert, << >>, [i \in 1..Len(keys) |-> i])

\* keys: what the block returns for the elements; fewer than those when it fails.
SortBy(v, keys) ==
  LET elems == IF v[1] = "str" THEN [k \in 1..Len(v[2]) |-> v[2][k]]
               ELSE IF IsArr(v) THEN v[2] ELSE << >>
      n == IF IsHash(v) THEN Cardinality(DOMAIN v[2]) ELSE Len(elems)
      pos == SortedPositions(SubSeq(keys, 1, n))
  IN IF v[1] \notin {"arr", "hash", "str"} \/ Len(keys) < n THEN Err
     ELSE IF IsHash(v) THEN Ok(v)
     ELSE Ok(<<v[1], [k \in 1..n |-> elems[pos[k]]]>>)

Reverse1(v) ==
  IF v[1] \notin {"str", "arr"} THEN Err ELSE Ok(<<v[1], Reverse(v[2])>>)

Size(v) ==
  IF v[1] \notin {"str", "arr", "hash"} THEN Err
  ELSE Ok(IntV(IF IsHash(v) THEN Cardinality(DOMAIN v[2]) ELSE Len(v[2])))

Empty(v) == IF v = Undef THEN Ok(Bool(TRUE))
            ELSE IF Size(v) = Err THEN Err ELSE Ok(Bool(Size(v) = Ok(IntV(0))))

-----------------------------------------------------------------------------
(* Hashes *)

Keys(h) == IF ~IsHash(h) THEN Err ELSE Ok(Arr([k \in 1..Len(SortedKeys(h[2])) |-> Str(SortedKeys(h[2])[k])]))
ValuesOf(h) == IF ~IsHash(h) THEN Err ELSE Ok(Arr([k \in 1..Len(SortedKeys(h[2])) |-> h[2][SortedKeys(h[2])[k]]]))
HasKey(h, k) == IF ~IsHash(h) THEN Err ELSE Ok(Bool(Stringify(k) \in DOMAIN h[2]))

Merge(args) ==
  IF Len(args) < 2 \/ \E k \in 1..Len(args) : ~IsHash(args[k]) THEN Err
  ELSE Ok(HashOf(FoldLeft(LAMBDA h, a : MergeHash(h, a[2]), << >>, args)))

RECURSIVE DeepMergeHash(_, _)
\* Both values are hashes, so they are merged and not replaced.
Deeper(v, w) == IsHash(v) /\ IsHash(w)

DeepMergeHash(f, g) ==
  [k \in DOMAIN f \cup DOMAIN g |->
     IF k \notin DOMAIN g THEN f[k]
     ELSE IF k \notin DOMAIN f THEN g[k]
     ELSE IF Deeper(f[k], g[k])
          THEN HashOf(DeepMergeHash(f[k][2], IF IsHash(g[k]) THEN g[k][2] ELSE << >>))
     ELSE g[k]]

\* Arguments that are undef are passed over.
DeepMerge(args) ==
  LET given == SelectSeq(args, LAMBDA v : v # Undef) IN
  IF Len(args) < 2 \/ \E k \in 1..Len(given) : ~IsHash(given[k]) THEN Err
  ELSE Ok(HashOf(FoldLeft(LAMBDA h, a : DeepMergeHash(h, a[2]), << >>, given)))

\* One step of a path; undef where there is none.
DigStep(v, k) ==
  CASE IsHash(v) -> IF Stringify(k) \in DOMAIN v[2] THEN v[2][Stringify(k)] ELSE Undef
    [] IsArr(v) -> IF k[1] # "int" THEN Undef
                   ELSE IF k[2] \in 0..(Len(v[2]) - 1) THEN v[2][k[2] + 1] ELSE Undef
    [] OTHER -> Undef

DigPath(v, path) == FoldLeft(DigStep, v, path)

Dig(v, path) == IF ~IsArr(path) THEN Err ELSE Ok(DigPath(v, path[2]))

\* The segments of a dotted path; empty ones are dropped, and those of digits are
\* integers, whose width is in Numbers.
DottedPath(s) ==
  LET cut == FoldLeft(LAMBDA acc, c : IF c = 46 THEN Append(acc, << >>)
                                      ELSE [acc EXCEPT ![Len(acc)] = Append(@, c)], <<<< >>>>, s)
      segs == SelectSeq(cut, LAMBDA x : x # << >>)
      number(x) == FoldLeft(LAMBDA n, c : n * 10 + (c - 48), 0, x)
  IN [k \in 1..Len(segs) |->
        IF \A j \in 1..Len(segs[k]) : segs[k][j] \in 48..57 THEN IntV(number(segs[k])) ELSE Str(segs[k])]

\* get(data, path[, default]).
Get(args) ==
  IF args[2][1] # "str" THEN Err
  ELSE LET v == DigPath(args[1], DottedPath(args[2][2]))
       IN Ok(IF v = Undef /\ Len(args) = 3 THEN args[3] ELSE v)

RECURSIVE NestedIn(_)
NestedIn(h) ==
  LET keys == SortedKeys(h) IN
  FlattenSeq([k \in 1..Len(keys) |->
    IF IsHash(h[keys[k]]) THEN NestedIn(h[keys[k]][2]) ELSE <<h[keys[k]]>>])

NestedValues(h) == IF ~IsHash(h) THEN Err ELSE Ok(Arr(NestedIn(h[2])))

\* For each key its value after the separator, or each element of its value.
JoinKeysToValues(h, sep) ==
  IF ~IsHash(h) \/ sep[1] # "str" THEN Err
  ELSE LET keys == SortedKeys(h[2])
           lines(k) == LET v == h[2][k] IN
             IF IsArr(v) THEN [j \in 1..Len(v[2]) |-> Str(k \o sep[2] \o Stringify(v[2][j]))]
             ELSE <<Str(k \o sep[2] \o Stringify(v))>>
       IN Ok(Arr(FlattenSeq([j \in 1..Len(keys) |-> lines(keys[j])])))

Join(args) ==
  IF ~IsArr(args[1]) THEN Err
  ELSE LET a == args[1][2]
           sep == IF Len(args) = 2 THEN Stringify(args[2]) ELSE << >>
       IN Ok(Str(FlattenSeq([k \in 1..Len(a) |-> (IF k > 1 THEN sep ELSE << >>) \o Stringify(a[k])])))

-----------------------------------------------------------------------------
(* Conversions *)

ToArray(v) ==
  CASE IsArr(v) -> v
    [] IsHash(v) -> LET keys == SortedKeys(v[2])
                    IN Arr([k \in 1..Len(keys) |-> Arr(<<Str(keys[k]), v[2][keys[k]]>>)])
    [] v = Undef -> Arr(<< >>)
    [] OTHER -> Arr(<<v>>)

\* Like ToArray, but a hash is a flat list.
Any2Array(args) ==
  IF Len(args) = 1 THEN Ok(IF IsHash(args[1]) THEN Arr(FlattenSeq([k \in 1..Len(ToArray(args[1])[2]) |->
                                                      ToArray(args[1])[2][k][2]]))
                           ELSE ToArray(args[1]))
  ELSE Ok(Arr(args))

CastArray(args) ==
  Ok(IF Len(args) = 2 /\ Truthy(args[2]) THEN Arr(<<args[1]>>) ELSE ToArray(args[1]))

\* hash: of pairs when the first element is an array, and then others are dropped;
\* else of a flat list. The last of equal keys stays.
ArrayToHash(a) ==
  LET pairs == a[2] # << >> /\ IsArr(a[2][1])
      flat == IF pairs THEN FlattenSeq([k \in 1..Len(a[2]) |-> IF IsArr(a[2][k]) THEN a[2][k][2] ELSE << >>])
              ELSE a[2]
      key(i) == Stringify(flat[2 * i - 1])
      at(x) == Max({i \in 1..(Len(flat) \div 2) : key(i) = x})
  IN IF Len(flat) % 2 = 1 THEN Err
     ELSE Ok(HashOf([x \in {key(i) : i \in 1..(Len(flat) \div 2)} |-> flat[2 * at(x)]]))

CastHash(v) == IF IsHash(v) THEN Ok(v) ELSE IF IsArr(v) THEN ArrayToHash(v) ELSE Err

ConvertTo(v, type) ==
  CASE type = "String" -> Ok(Str(Stringify(v)))
    [] type = "Array" -> Ok(ToArray(v))
    [] type = "Hash" -> IF IsHash(v) THEN Ok(v) ELSE Err
    [] OTHER -> Err

-----------------------------------------------------------------------------
(* Sensitive *)

\* A Sensitive is somewhere in v.
RECURSIVE HoldsSecret(_)
HoldsSecret(v) ==
  \/ v[1] = "sensitive"
  \/ IsArr(v) /\ \E k \in 1..Len(v[2]) : HoldsSecret(v[2][k])
  \/ IsHash(v) /\ \E k \in DOMAIN v[2] : HoldsSecret(v[2][k])

RECURSIVE DeepUnwrap(_)
\* What takes the place of a Sensitive.
Inner(v) == DeepUnwrap(v[2])

DeepUnwrap(v) ==
  CASE v[1] = "sensitive" -> Inner(v)
    [] IsArr(v) -> Arr([k \in 1..Len(v[2]) |-> DeepUnwrap(v[2][k])])
    [] IsHash(v) -> HashOf([k \in DOMAIN v[2] |-> DeepUnwrap(v[2][k])])
    [] OTHER -> v

\* rewrap_sensitive_data(data) and what its block makes of the data, if it has one.
Rewrap(args) ==
  LET made == IF Len(args) = 2 THEN args[2] ELSE DeepUnwrap(args[1])
  IN Ok(IF HoldsSecret(args[1]) THEN Secret(made, 0) ELSE made)

\* One layer.
Unwrap(v) == Ok(IF v[1] = "sensitive" THEN v[2] ELSE v)

-----------------------------------------------------------------------------
(* Calls *)

Opaque(c) == c[1] \notin {"unwrap", "rewrap"}

Apply(c) ==
  LET fn == c[1]  args == Tail(c) IN
  CASE fn = "flatten" -> IF IsArr(args[1]) THEN Ok(Arr(FlattenArray(args[1][2]))) ELSE Err
    [] fn = "unique" -> Unique(args[1])
    [] fn = "union" -> Union(args)
    [] fn = "intersection" -> Intersection(args[1], args[2])
    [] fn = "difference" -> Difference(args[1], args[2])
    [] fn = "member" -> Member(args[1], args[2])
    [] fn = "count" -> Count(args)
    [] fn = "concat" -> Concat(args)
    [] fn = "delete" -> Delete(args[1], args[2])
    [] fn = "delete_values" -> DeleteValues(args[1], args[2])
    [] fn = "delete_undef_values" -> DeleteUndef(args[1])
    [] fn = "delete_at" -> DeleteAt(args[1], args[2])
    [] fn = "delete_regex" -> DeleteRegex(args[1], args[2])
    [] fn = "values_at" -> ValuesAt(args[1], args[2])
    [] fn = "zip" -> ZipArrays(args)
    [] fn = "grep" -> Grep(args[1], args[2])
    [] fn = "reject" -> Reject(args[1], args[2])
    [] fn = "prefix" -> Affix(args[1], args[2], TRUE)
    [] fn = "suffix" -> Affix(args[1], args[2], FALSE)
    [] fn = "pick" -> Pick(args)
    [] fn = "pick_default" -> PickDefault(args)
    [] fn = "clamp" -> Clamp(args)
    [] fn = "min" -> MinMax(args, FALSE)
    [] fn = "max" -> MinMax(args, TRUE)
    [] fn = "sum" -> Sum(args[1])
    [] fn = "sort_by" -> SortBy(args[1], args[2][2])
    [] fn = "reverse" -> Reverse1(args[1])
    [] fn = "size" -> Size(args[1])
    [] fn = "empty" -> Empty(args[1])
    [] fn = "keys" -> Keys(args[1])
    [] fn = "values" -> ValuesOf(args[1])
    [] fn = "has_key" -> HasKey(args[1], args[2])
    [] fn = "merge" -> Merge(args)
    [] fn = "deep_merge" -> DeepMerge(args)
    [] fn = "dig" -> Dig(args[1], args[2])
    [] fn = "get" -> Get(args)
    [] fn = "nested_values" -> NestedValues(args[1])
    [] fn = "join_keys_to_values" -> JoinKeysToValues(args[1], args[2])
    [] fn = "join" -> Join(args)
    [] fn = "any2array" -> Any2Array(args)
    [] fn = "Array" -> CastArray(args)
    [] fn = "Hash" -> CastHash(args[1])
    [] fn = "hash" -> IF IsArr(args[1]) THEN ArrayToHash(args[1]) ELSE Err
    [] fn = "convert_to" -> ConvertTo(args[1], args[2])
    [] fn = "unwrap" -> Unwrap(args[1])
    [] fn = "rewrap" -> Rewrap(args)

Init == call \in Calls /\ result = << >>

Next == result = << >> /\ result' = Apply(call) /\ UNCHANGED call

Spec == Init /\ [][Next]_vars

-----------------------------------------------------------------------------
(* Properties *)

Done(fns) == result # << >> /\ result # Err /\ call[1] \in fns

NoneEqual(a) == \A i, j \in 1..Len(a) : i # j => ~Equals(a[i], a[j])

\* union, intersection, difference and unique are about the same sets: the union is
\* the distinct elements of the first array followed by what the difference of the
\* second adds, and intersection and difference split the first between them.
SetsAgree ==
  Done({"union"}) /\ Len(call) = 3 =>
    LET a == call[2]  b == call[3]
        added == Difference(b, a)[2]
        common == Intersection(a, b)[2][2]
        left == UniqueValues(Difference(a, b)[2][2])
    IN /\ NoneEqual(result[2][2])
       /\ result[2][2] = UniqueValues(a[2]) \o UniqueValues(added[2])
       /\ \A k \in 1..Len(common) : ContainsValue(b[2], common[k]) /\ ~ContainsValue(left, common[k])
       /\ Len(common) + Len(left) = Len(UniqueValues(a[2]))

\* delete_at takes away the very element values_at shows at the index, counted from
\* either end, and nothing where values_at shows nothing.
AtSameIndex ==
  Done({"delete_at"}) =>
    LET a == call[2][2]  shown == ValuesAt(call[2], call[3])[2][2]  rest == result[2][2]
    IN IF shown = << >> THEN rest = a
       ELSE \E k \in 1..Len(a) :
              /\ a[k] = shown[1] /\ rest = SubSeq(a, 1, k - 1) \o SubSeq(a, k + 1, Len(a))
              /\ call[3][2] \in {k - 1, k - 1 - Len(a)}

\* clamp gives the middle one: there is one of the others on each side of it, and it
\* fails on exactly what min and max together cannot compare.
MedianBetween ==
  result # << >> /\ call[1] = "clamp" /\ Len(call) = 4 =>
    LET v == Tail(call) IN
    IF result = Err THEN ~Comparable(v)
    ELSE \E p \in {q \in [1..3 -> 1..3] : IsInjective(q)} :
           /\ result[2] = v[p[2]]
           /\ Compare(v[p[1]], v[p[2]]) # <<1>> /\ Compare(v[p[2]], v[p[3]]) # <<1>>
           /\ Compare(MinMax(v, FALSE)[2], v[p[1]]) = <<0>>
           /\ Compare(MinMax(v, TRUE)[2], v[p[3]]) = <<0>>

\* sort_by puts elements in the order of their keys, numbers by size and strings by
\* their bytes, equal keys as they were. Where the keys are of both kinds there is no
\* order (9 < 10, "10" < "9"), but still nothing is lost.
SortedByKey ==
  Done({"sort_by"}) /\ IsArr(call[2]) =>
    LET v == call[2][2]  keys == call[3][2]  r == result[2][2]
        inOrder(x, y) == IF IsNum(x) THEN x[2] <= y[2] ELSE ~Before(y[2], x[2])
        same(x, y) == inOrder(x, y) /\ inOrder(y, x)
    IN \E p \in {q \in [1..Len(v) -> 1..Len(v)] : IsInjective(q)} :
         /\ r = [k \in 1..Len(v) |-> v[p[k]]]
         /\ (\A k \in 1..Len(v) : IsNum(keys[k])) \/ (\A k \in 1..Len(v) : keys[k][1] = "str") =>
              \A k \in 1..(Len(v) - 1) :
                /\ inOrder(keys[p[k]], keys[p[k + 1]])
                /\ same(keys[p[k]], keys[p[k + 1]]) => p[k] < p[k + 1]

\* The paths of up to three keys in the hashes of a call.
KeysIn(c) == UNION {IF IsHash(c[k]) THEN DOMAIN c[k][2] \cup
                      UNION {IF IsHash(c[k][2][x]) THEN DOMAIN c[k][2][x][2] ELSE {} : x \in DOMAIN c[k][2]}
                    ELSE {} : k \in 2..Len(c)}

PathsIn(c) == {<<x>> : x \in KeysIn(c)} \cup {<<x, y>> : x, y \in KeysIn(c)}

\* What stands at path p of hash h, << >> when nothing does.
At(h, p) ==
  LET step(v, k) == IF v = << >> THEN << >>
                    ELSE IF ~IsHash(v) THEN << >> ELSE IF k \in DOMAIN v[2] THEN v[2][k] ELSE << >>
  IN FoldLeft(step, h, p)

Leaf(h, p) == At(h, p) # << >> /\ ~IsHash(At(h, p))

\* deep_merge leaf by leaf: a value stands at a path of the result exactly when some
\* argument has it there and no later one has anything at that path, or a value that
\* is no hash on the way to it.
MergedLeaves ==
  Done({"deep_merge"}) =>
    \A p \in PathsIn(call) :
      LET holds(k) == IF IsHash(call[k]) THEN Leaf(call[k], p) ELSE FALSE
          covers(k) == IF IsHash(call[k])
                       THEN At(call[k], p) # << >> \/ \E n \in 1..(Len(p) - 1) : Leaf(call[k], SubSeq(p, 1, n))
                       ELSE FALSE
          last == {k \in 2..Len(call) : holds(k) /\ \A j \in (k + 1)..Len(call) : ~covers(j)}
      IN IF last = {} THEN ~Leaf(result[2], p)
         ELSE At(result[2], p) = At(call[Max(last)], p)

\* A hash survives the way to an array and back, as pairs and as a flat list; and a
\* longer list is the hash of its front under that of its rest.
PairsAndHashes ==
  /\ Done({"Array"}) /\ Len(call) = 2 /\ IsHash(call[2]) =>
       CastHash(result[2]) = Ok(call[2]) /\ CastHash(Any2Array(<<call[2]>>)[2]) = Ok(call[2])
  /\ Done({"hash"}) =>
       LET a == call[2][2]
           part(i, j) == ArrayToHash(Arr(SubSeq(a, i, j)))
       IN \A n \in {m \in 1..(Len(a) - 1) : IF IsArr(a[1]) THEN IsArr(a[m + 1]) ELSE m % 2 = 0 /\ ~IsArr(a[m + 1])} :
            part(1, n) # Err /\ part(n + 1, Len(a)) # Err =>
              result = Merge(<<part(1, n)[2], part(n + 1, Len(a))[2]>>)

RECURSIVE Hidden(_)
\* v with nothing in its Sensitives.
Hidden(v) ==
  CASE v[1] = "sensitive" -> Secret(Undef, v[3])
    [] IsArr(v) -> Arr([k \in 1..Len(v[2]) |-> Hidden(v[2][k])])
    [] IsHash(v) -> HashOf([k \in DOMAIN v[2] |-> Hidden(v[2][k])])
    [] OTHER -> v

\* No function but those that unwrap tells two secrets apart: with the contents of
\* every Sensitive taken away it comes to the same, so no text, no key, no order and
\* no error gives a secret away ("redacting it in every rendered form", sensitive.go).
SecretsOpaque ==
  result # << >> /\ Opaque(call) =>
    LET hidden == [k \in 1..Len(call) |-> IF k = 1 \/ (call[1] = "convert_to" /\ k = 3) THEN call[k] ELSE Hidden(call[k])]
    IN Apply(hidden) = IF result = Err THEN Err ELSE Ok(Hidden(result[2]))

\* rewrap_sensitive_data wraps its result exactly when there was a Sensitive in the
\* data, once, and leaves none inside.
RewrapExact ==
  Done({"rewrap"}) /\ Len(call) = 2 =>
    /\ (result[2][1] = "sensitive") = HoldsSecret(call[2])
    /\ ~HoldsSecret(IF result[2][1] = "sensitive" THEN result[2][2] ELSE result[2])

=============================================================================
