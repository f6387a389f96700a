------------------------ MODULE ResourceAttributesMC ------------------------
(* An instance of ResourceAttributes for TLC: a behaviour declares and      *)
(* overrides resources, or declares some and collects them.                 *)
EXTENDS ResourceAttributes

CONSTANTS f, g, d

Str(s) == <<"str", s>>
Op(n, op, v) == [name |-> n, op |-> op, value |-> v]
Attrs(n, v) == [NoAttrs EXCEPT ![n] = v]

SomeLists == {<<f>>, <<f, g>>, <<d>>}

\* Scalars and arrays set and appended, undef, a name given twice, a relationship, a tag.
SomeOps ==
  {<<Op("ensure", "=>", Undef)>>, <<Op("ensure", "=>", <<"arr", <<"absent">>>>)>>,
   <<Op("ensure", "+>", Str("present"))>>,
   <<Op("ensure", "=>", Str("absent")), Op("ensure", "=>", Str("present"))>>,
   <<Op("before", "=>", <<"ref", {g}>>), Op("tag", "=>", Str("web"))>>}
SomeDefaults == {NoAttrs, Attrs("ensure", Str("installed")), Attrs("tag", Str("db"))}
SomeHashes == {Attrs("ensure", Str("present")), Attrs("before", <<"ref", {g}>>)}
QueryOps == {<<Op("mode", "=>", Str("ro")), Op("tag", "=>", Str("web"))>>,
             <<Op("mode", "=>", <<"arr", <<"ro">>>>)>>, <<Op("mode", "=>", Undef)>>, << >>}

Mode == <<"==", "mode", Str("ro")>>
Other == <<"!=", "tag", Str("web")>>
TitleF == <<"==", "title", f>>
SomeQueries ==
  {<<q>> : q \in {<<"all">>, <<"bad">>, Mode, Other, TitleF, <<"==", "mode", Undef>>}}
  \cup {<<Mode, q, <<op, 1, 2>>>> : q \in {Other, <<"bad">>}, op \in {"and", "or"}}
  \cup {<<Mode, Other, <<a, 1, 2>>, TitleF, <<b, 3, 4>>>> : a, b \in {"and", "or"}}

VARIABLE part

Declaring == INSTANCE ResourceAttributes WITH Queries <- {}, Form <- {"regular"}
Collecting == INSTANCE ResourceAttributes WITH
  OpLists <- QueryOps, Defaults <- {NoAttrs}, Hashes <- {}

PartInit == Init /\ part \in {"declare", "collect"}

PartNext ==
  \/ part = "declare" /\ Declaring!Next /\ UNCHANGED part
  \/ part = "collect" /\ Collecting!Next /\ UNCHANGED part

PartSpec == PartInit /\ [][PartNext]_<<vars, part>>
=============================================================================
