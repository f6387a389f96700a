-------------------------- MODULE CollectionInputs --------------------------
(* The calls of functions on collections LibraryMC makes. *)
EXTENDS Values

a == <<97>>
b == <<98>>
n(i) == IntV(i)

\* Sequences of up to k elements of s.
UpTo(k, s) == UNION {[1..m -> s] : m \in 0..k}
Arrays(k, s) == {Arr(x) : x \in UpTo(k, s)}
\* Hashes of the keys a and b with values of s.
Hashes(s) == {HashOf(f) : f \in UNION {[d -> s] : d \in SUBSET {a, b}}}

Atoms == {n(1), <<"float", 1>>, Str(a), Undef}
Mixed == Atoms \cup {Arr(<<n(1)>>), HashOf(<< >>)}

\* Sets, indexes, orders, and conversions.
ArrayCalls ==
  {<<"union", x, y>> : x, y \in Arrays(2, Mixed)}
  \cup {<<"union", x, y>> : x \in Arrays(3, {n(1), <<"float", 1>>, Str(a)}), y \in Arrays(1, Atoms)}
  \cup {<<"union", x, y, Arr(<<Str(b)>>)>> : x, y \in Arrays(1, Mixed)}
  \cup {<<fn, x, y>> : fn \in {"intersection", "difference", "member", "concat", "zip", "delete"},
          x \in Arrays(2, Atoms) \cup {Str(a)}, y \in Arrays(1, Atoms) \cup {Str(a)}}
  \cup {<<fn, x>> : fn \in {"unique", "flatten", "count", "delete_undef_values", "sum", "reverse", "size", "empty", "pick", "any2array"},
          x \in Arrays(2, Mixed) \cup Hashes({n(1), Undef}) \cup {Str(<<97, 98, 97>>), Undef}}
  \cup {<<"delete_at", x, n(i)>> : x \in Arrays(3, {n(1), n(2), n(3)}), i \in -4..3}
  \cup {<<"clamp", x, y, z>> : x, y, z \in {n(1), n(2), <<"float", 2>>, n(3), Str(a), Str(<<65>>), Str(b), Undef}}
  \cup {<<fn, x, y>> : fn \in {"min", "max"}, x, y \in Atoms}
  \cup {<<"sort_by", x, y>> : x \in {Arr(<<n(7)>>), Arr(<<n(7), n(8), n(9)>>), Str(<<97, 98, 99>>), HashOf([k \in {a} |-> n(1)])},
          y \in Arrays(3, {n(9), n(10), Str(<<49, 48>>), Str(b), Str(<<66>>)})}
  \cup {<<"hash", x>> : x \in Arrays(4, {n(1), Str(a), Str(<<49>>)}) \cup
          Arrays(3, {Arr(<<Str(a), n(1)>>), Arr(<<Str(a), n(2)>>), Arr(<<n(1), Undef>>), Str(a)})}
  \cup {<<"Array", x>> : x \in Hashes(Mixed) \cup Atoms}

Flat == {n(1), n(2)}
Nested == Flat \cup {HashOf(<< >>)} \cup {HashOf([k \in {a} |-> v]) : v \in Flat}
                \cup {HashOf([k \in {a, b} |-> n(2)])}

\* Hashes under each other.
HashCalls ==
  {<<"deep_merge", x, y>> : x, y \in Hashes(Nested)}
  \cup {<<"deep_merge", x, y, z>> : x \in Hashes(Nested), y \in Hashes({n(2), HashOf([k \in {b} |-> n(1)])}) \cup {Undef},
          z \in Hashes({n(1), HashOf([k \in {a} |-> n(2)])})}
  \cup {<<fn, x, y>> : fn \in {"merge", "has_key", "delete_values", "delete"}, x \in Hashes(Flat), y \in {Str(a), n(1), HashOf([k \in {a} |-> n(2)])}}
  \cup {<<fn, x>> : fn \in {"keys", "values", "nested_values", "Hash"}, x \in Hashes(Nested) \cup {Arr(<< >>)}}
  \cup {<<"dig", x, Arr(<<Str(a), y>>)>> : x \in Hashes(Nested), y \in {Str(b), n(0)}}

s1 == Secret(Str(a), 1)
s2 == Secret(Arr(<<Str(b), Secret(n(1), 3)>>), 2)
Plain == {Str(a), n(1), Undef}
Data == Plain \cup {s1, s2} \cup Arrays(2, {Str(a), s1, s2}) \cup {HashOf([k \in d |-> v]) : d \in {{a}, {a, b}}, v \in {s1, s2, n(1), Arr(<<s1>>)}}

\* Every function on data with secrets in it.
SecretCalls ==
  {<<fn, x>> : fn \in {"flatten", "unique", "union", "count", "delete_undef_values", "pick", "pick_default", "sum", "reverse", "size", "empty",
                       "keys", "values", "nested_values", "any2array", "Array", "Hash", "hash", "join", "min", "clamp", "unwrap", "rewrap"}, x \in Data}
  \cup {<<fn, x, y>> : fn \in {"intersection", "difference", "member", "count", "concat", "delete", "delete_values", "delete_regex", "values_at", "zip",
                                "grep", "reject", "prefix", "suffix", "max", "has_key", "merge", "deep_merge", "dig", "join_keys_to_values", "join", "get",
                                "union", "pick_default", "delete_at", "Array"},
          x \in Data, y \in Data \cup {<<"re", {<<42>>, a}>>, n(0)}}
  \cup {<<"sort_by", x, y>> : x \in Arrays(2, {Str(a), s1}), y \in {Arr(<<s2, s1>>), Arr(<<s1, Str(a)>>)}}
  \cup {<<"convert_to", x, t>> : x \in Data, t \in {"String", "Array", "Hash", "Integer"}}
  \cup {<<"rewrap", x, y>> : x \in Data, y \in Plain}
  \cup {<<"get", x, Str(a), y>> : x, y \in Data}

AllCalls == ArrayCalls \cup HashCalls \cup SecretCalls
=============================================================================
