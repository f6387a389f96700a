------------------------- MODULE ResourceAttributes -------------------------
(***************************************************************************)
(* What resources are declared with: eval/decl.go, eval/resources.go and   *)
(* the declaring functions of the standard library.                        *)
(*                                                                         *)
(* A declaration gives the same attributes to all its titles; defaults fill*)
(* what it leaves out; the relationship metaparameters become edges, tag is*)
(* collected apart, and the rest is stored in the parameter map of each    *)
(* resource, where overrides write later. The maps are Go references, so   *)
(* they live on a heap here. The defaults in force at a declaration are    *)
(* those of its scope (Scope); which container it is in is left to         *)
(* Evaluator. A value is <<"str", s>>, <<"arr", seq>>, <<"hash", f>>, Undef*)
(* or, for references, <<"ref", set>>.                                     *)
(***************************************************************************)
EXTENDS Integers, SequencesExt, FiniteSetsExt

CONSTANTS
  Native,      \* references of resources of built-in types
  Instance,    \* references of instances of a defined type
  Name,        \* attribute names, metaparameters and tag among them
  Lists,       \* the sequences of titles a declaration or override names
  OpLists,     \* the attribute operations it gives
  Defaults,    \* the resource defaults that may be in force
  Hashes,      \* the attribute hashes functions are given
  Queries,     \* the queries of collectors
  Form,        \* the resource forms in use
  Unset,       \* no such attribute
  MaxLog       \* bound: a statement begins with fewer writes in the log

\* A query is the list of its parts, operands before what they belong to. A part is
\* <<"==" or "!=", field, value>>, <<"and" or "or", k, l>> with the positions of its
\* operands, <<"all">> where there is no query, or <<"bad">> for what is none.
IsQuery(q) ==
  /\ Len(q) \in Nat \ {0}
  /\ \A k \in 1..Len(q) :
       /\ q[k][1] \in {"==", "!=", "and", "or", "all", "bad"}
       /\ q[k][1] \in {"and", "or"} => q[k][2] \in 1..(k - 1) /\ q[k][3] \in 1..(k - 1)

ASSUME AttributesAssumption ==
  /\ Lists \subseteq Seq(Native \cup Instance)
  /\ \A q \in Queries : IsQuery(q)

Ref == Native \cup Instance
Metaparam == [before |-> "forward", notify |-> "forward",
              require |-> "reverse", subscribe |-> "reverse"]
Plain == Name \ (DOMAIN Metaparam \cup {"tag"})

VARIABLES
  heap,    \* the parameter maps of resources, in the order of allocation
  res,     \* for each reference its map on the heap (0: not declared), tags, form
  order,   \* declaration order
  edges,   \* the edges of metaparameters
  log      \* history: what took effect, one entry for each resource it wrote

vars == <<heap, res, order, edges, log>>
State == [heap |-> heap, res |-> res, order |-> order, edges |-> edges, log |-> log,
          err |-> FALSE]

\* undef is a value, which an attribute may have: it replaces a default. As a text it is empty.
Undef == <<"undef", "">>
NoAttrs == [n \in Name |-> Unset]
Over(base, over) == [n \in Name |-> IF over[n] = Unset THEN base[n] ELSE over[n]]

-----------------------------------------------------------------------------
(* Attributes *)

\* Attribute operations as a map: of several for one name the last one counts.
AttributeOps(ops) ==
  [n \in Name |->
     LET of == {k \in 1..Len(ops) : ops[k].name = n}
     IN IF of = {} THEN Unset ELSE ops[Max(of)].value]

Appending(ops) == {ops[k].name : k \in {j \in 1..Len(ops) : ops[j].op = "+>"}}

ApplyDefaults(params, dflt) == Over(dflt, params)

\* The value after `existing +> add`.
AppendValue(existing, add) ==
  IF existing = Unset THEN add
  ELSE IF existing[1] = "arr"
       THEN <<"arr", existing[2] \o (IF add[1] = "arr" THEN add[2] ELSE <<add[2]>>)>>
  ELSE IF existing[1] = "hash" /\ add[1] = "hash"
       THEN <<"hash", add[2] @@ existing[2]>>
  ELSE add

CollectRefs(v) == IF v # Unset /\ v[1] = "ref" THEN v[2] ELSE {}

TagStrings(v) == IF v = Unset THEN << >> ELSE IF v[1] = "arr" THEN v[2] ELSE <<v[2]>>

\* The edges the metaparameters of a resource ask for.
MetaEdges(r, params) ==
  UNION {IF Metaparam[n] = "forward" THEN {r} \X CollectRefs(params[n])
                                     ELSE CollectRefs(params[n]) \X {r} :
           n \in Name \cap DOMAIN Metaparam}

Stored(params) == [n \in Name |-> IF n \in Plain THEN params[n] ELSE Unset]

\* Mutant of Allocate: the resources of a declaration share the map they are given.
AllocateShared(s, params) ==
  IF \E m \in 1..Len(s.heap) : s.heap[m] = params
  THEN [s EXCEPT !.new = CHOOSE m \in 1..Len(s.heap) : s.heap[m] = params]
  ELSE [s EXCEPT !.heap = Append(s.heap, params), !.new = Len(s.heap) + 1]

\* Every resource gets a map of its own, which assignParams fills.
Allocate(s, params) ==
  [s EXCEPT !.heap = Append(s.heap, params), !.new = Len(s.heap) + 1]

-----------------------------------------------------------------------------
(* Declarations *)

Declared(s, r) == s.res[r].map # 0

\* What a statement asks for each of its titles: a declaration, one of what is not there
\* yet, or an override, whose attributes named in appends are appended.
Asked(kind, attrs, dflt, form, appends) ==
  [kind |-> kind, attrs |-> attrs, dflt |-> dflt, form |-> form, appends |-> appends]

Write(r, a) == [ref |-> r, asked |-> a]

\* declareResource: edges are added before the catalog is asked whether the
\* reference is taken. An instance keeps no parameters of its own.
DeclareResource(s, r, a) ==
  LET params == ApplyDefaults(a.attrs, a.dflt)
      native == r \in Native
      stored == IF native THEN Stored(params) ELSE NoAttrs
      tags == IF native /\ "tag" \in Name THEN TagStrings(params["tag"]) ELSE << >>
      wired == IF native THEN s.edges \cup MetaEdges(r, params) ELSE s.edges
      m == Allocate([heap |-> s.heap, new |-> 0], stored)
  IN IF Declared(s, r) THEN [s EXCEPT !.err = TRUE, !.edges = wired]
     ELSE [s EXCEPT !.heap = m.heap, !.edges = wired, !.order = Append(@, r),
                    !.res[r] = [map |-> m.new, tags |-> tags, form |-> a.form],
                    !.log = Append(@, Write(r, a))]

\* Mutant of EnsureResource: no look into the catalog first.
EnsureResourceAgain(s, r, a) == DeclareResource(s, r, a)

EnsureResource(s, r, a) == IF Declared(s, r) THEN s ELSE DeclareResource(s, r, a)

\* defined_with_params: an undef expectation matches an absent attribute, too.
DefinedWithParams(s, r, params) ==
  /\ Declared(s, r)
  /\ \A n \in Name :
       LET got == s.heap[s.res[r].map][n] IN
       params[n] # Unset => got = params[n] \/ (params[n] = Undef /\ got = Unset)

\* The attributes after an override a of those in old, for the names in N.
Overridden(old, a, N) ==
  [n \in Name |-> IF n \notin N \/ a.attrs[n] = Unset THEN old[n]
                  ELSE IF n \in a.appends THEN AppendValue(old[n], a.attrs[n])
                  ELSE a.attrs[n]]

\* Mutant of ApplyOverride: the tag is stored like any other attribute.
ApplyOverrideTag(s, r, a) ==
  LET new == Overridden(s.heap[s.res[r].map], a, Plain \cup {"tag"})
  IN IF ~Declared(s, r) THEN [s EXCEPT !.err = TRUE]
     ELSE [s EXCEPT !.heap[s.res[r].map] = new, !.edges = @ \cup MetaEdges(r, a.attrs),
                    !.log = Append(@, Write(r, a))]

\* An override of one resource, which has to be in the catalog.
ApplyOverride(s, r, a) ==
  LET new == Overridden(s.heap[s.res[r].map], a, Plain)
      tags == IF "tag" \in Name THEN TagStrings(a.attrs["tag"]) ELSE << >>
  IN IF ~Declared(s, r) THEN [s EXCEPT !.err = TRUE]
     ELSE [s EXCEPT !.heap[s.res[r].map] = new, !.res[r].tags = @ \o tags,
                    !.edges = @ \cup MetaEdges(r, a.attrs), !.log = Append(@, Write(r, a))]

\* Nothing follows what failed.
Perform(s, r, a) ==
  IF s.err THEN s
  ELSE IF a.kind = "declare" THEN DeclareResource(s, r, a)
  ELSE IF a.kind = "ensure" THEN EnsureResource(s, r, a)
  ELSE ApplyOverride(s, r, a)

\* A statement acts on its titles in order. Its effect becomes the state, also when
\* it failed half way.
Effect(titles, a) ==
  LET after[k \in 0..Len(titles)] ==
        IF k = 0 THEN State ELSE Perform(after[k - 1], titles[k], a)
  IN after[Len(titles)]

Becomes(s) ==
  /\ Len(log) < MaxLog
  /\ heap' = s.heap /\ res' = s.res /\ order' = s.order /\ edges' = s.edges /\ log' = s.log

\* The shared attributes a hash of ensure_packages becomes: an ensure of present or
\* installed is replaced by what the package is declared with, or installed.
PackageAttrs(s, r, h) ==
  LET attrs == IF h["ensure"] = Unset THEN [h EXCEPT !["ensure"] = <<"str", "installed">>] ELSE h
      asIs == DefinedWithParams(s, r, [NoAttrs EXCEPT !["ensure"] = <<"str", "present">>])
  IN IF attrs["ensure"] \in {<<"str", "present">>, <<"str", "installed">>}
     THEN [attrs EXCEPT !["ensure"] = <<"str", IF asIs THEN "present" ELSE "installed">>]
     ELSE attrs

-----------------------------------------------------------------------------
(* Statements *)

Init ==
  /\ heap = << >> /\ order = << >> /\ edges = {} /\ log = << >>
  /\ res = [r \in Ref |-> [map |-> 0, tags |-> << >>, form |-> "regular"]]

\* A resource body: one declaration for each of its titles.
EvalResource(titles, ops, dflt, form) ==
  Becomes(Effect(titles, Asked("declare", AttributeOps(ops), dflt, form, {})))

\* create_resources; ensure_resource and ensure_resources, of what is not declared.
CreateResources(titles, h, dflt) ==
  Becomes(Effect(titles, Asked("declare", h, dflt, "regular", {})))

EnsureResources(titles, h, dflt) ==
  Becomes(Effect(titles, Asked("ensure", h, dflt, "regular", {})))

EnsurePackage(r, h, dflt) ==
  /\ "ensure" \in Name
  /\ Becomes(Effect(<<r>>, Asked("ensure", PackageAttrs(State, r, h), dflt, "regular", {})))

EvalResourceOverride(refs, ops) ==
  Becomes(Effect(refs, Asked("override", AttributeOps(ops), NoAttrs, "regular", Appending(ops))))

-----------------------------------------------------------------------------
(* Collectors *)

\* A comparison of an attribute, the title or the tags of a resource.
QueryFieldEquals(field, want, r) ==
  CASE field = "title" -> want = r
    [] field = "tag" -> \E k \in 1..Len(res[r].tags) : res[r].tags[k] = want[2]
    [] OTHER -> heap[res[r].map][field] = want

\* What part p of a query is for r, when match[k] is what part k is. The right side of
\* an and or an or does not count when the left decides.
MatchPart(p, match, r) ==
  CASE p[1] = "all" -> "yes"
    [] p[1] = "bad" -> "error"
    [] p[1] = "==" -> IF QueryFieldEquals(p[2], p[3], r) THEN "yes" ELSE "no"
    [] p[1] = "!=" -> IF QueryFieldEquals(p[2], p[3], r) THEN "no" ELSE "yes"
    [] p[1] = "and" -> IF match[p[2]] # "yes" THEN match[p[2]] ELSE match[p[3]]
    [] p[1] = "or" -> IF match[p[2]] # "no" THEN match[p[2]] ELSE match[p[3]]

\* The whole query is the last of its parts.
MatchQuery(query, r) ==
  LET match[k \in 1..Len(query)] == MatchPart(query[k], match, r)
  IN match[Len(query)]

\* Mutant of Realized: the form is not asked.
RealizedAnyForm(q, form) ==
  LET reached == {i \in 1..Len(order) : \A j \in 1..i : MatchQuery(q, order[j]) # "error"}
  IN {order[i] : i \in {j \in reached : MatchQuery(q, order[j]) = "yes"}}

\* The virtual (or exported) resources before the first the query fails on that it
\* matches.
Realized(q, form) ==
  LET candidate == {i \in 1..Len(order) : res[order[i]].form = form}
      reached == {i \in candidate : \A j \in candidate : j <= i => MatchQuery(q, order[j]) # "error"}
  IN {order[i] : i \in {j \in reached : MatchQuery(q, order[j]) = "yes"}}

EvalCollector(q, form) ==
  /\ res' = [r \in Ref |-> IF r \in Realized(q, form)
                           THEN [res[r] EXCEPT !.form = "regular"] ELSE res[r]]
  /\ UNCHANGED <<heap, order, edges, log>>

Next ==
  \/ \E titles \in Lists, ops \in OpLists, dflt \in Defaults, form \in Form :
        EvalResource(titles, ops, dflt, form)
  \/ \E titles \in Lists, h \in Hashes, dflt \in Defaults :
        CreateResources(titles, h, dflt) \/ EnsureResources(titles, h, dflt)
  \/ \E r \in Native, h \in Hashes, dflt \in Defaults : EnsurePackage(r, h, dflt)
  \/ \E refs \in Lists, ops \in OpLists : EvalResourceOverride(refs, ops)
  \/ \E q \in Queries, form \in Form \ {"regular"} : EvalCollector(q, form)

Spec == Init /\ [][Next]_vars

-----------------------------------------------------------------------------
(* Properties *)

InCatalog == {r \in Ref : res[r].map # 0}

\* What asked makes of attribute n with the value old.
Written(asked, n, old) ==
  LET v == asked.attrs[n] IN
  IF asked.kind # "override" THEN IF v = Unset THEN asked.dflt[n] ELSE v
  ELSE IF v = Unset THEN old
  ELSE IF n \in asked.appends THEN AppendValue(old, v) ELSE v

\* The value of attribute n of r after all that was written, in order.
ValueAfter(writes, r, n) ==
  LET value[k \in 0..Len(writes)] ==
        IF k = 0 THEN Unset
        ELSE IF writes[k].ref = r THEN Written(writes[k].asked, n, value[k - 1])
        ELSE value[k - 1]
  IN value[Len(writes)]

\* The attributes of a resource are those its own declaration and the overrides
\* that name it wrote, in that order, and nothing else: resources declared together
\* do not change together, and what an override that failed further on wrote stays
\* (declareResource, assignParams, applyOverride).
AttributesAsWritten ==
  \A r \in InCatalog \cap Native, n \in Plain :
    heap[res[r].map][n] = ValueAfter(log, r, n)

\* Tags and relationships never become parameters, by whatever way they come (the
\* declaration, a default, a function or an override), and those a resource of a built-in
\* type is declared with, or gets from the defaults, become its edges (assignParams).
MetaparamsWired ==
  /\ \A r \in InCatalog, n \in Name \ Plain : heap[res[r].map][n] = Unset
  /\ \A k \in 1..Len(log) :
       LET r == log[k].ref
           a == log[k].asked
       IN r \in Native /\ a.kind # "override"
          => MetaEdges(r, ApplyDefaults(a.attrs, a.dflt)) \subseteq edges

\* A function that ensures resources changes nothing about those that are there.
EnsureKeeps ==
  [][\A titles \in Lists, h \in Hashes, dflt \in Defaults :
       EnsureResources(titles, h, dflt) =>
         /\ \A r \in InCatalog : res'[r] = res[r] /\ heap'[res[r].map] = heap[res[r].map]
         /\ \A e \in edges' \ edges :
              {e[1], e[2]} \cap (Range(titles) \ InCatalog) # {}]_vars

\* What part p of a query says of r, when truth[k] is what part k says.
Meaning(p, truth, r) ==
  CASE p[1] = "all" -> TRUE
    [] p[1] = "==" -> QueryFieldEquals(p[2], p[3], r)
    [] p[1] = "!=" -> ~QueryFieldEquals(p[2], p[3], r)
    [] p[1] = "and" -> truth[p[2]] /\ truth[p[3]]
    [] p[1] = "or" -> truth[p[2]] \/ truth[p[3]]

\* Whether q holds of r, by the Boolean meaning of its parts.
Holds(q, r) ==
  \E truth \in [1..Len(q) -> BOOLEAN] :
    /\ \A k \in 1..Len(q) : truth[k] = Meaning(q[k], truth, r)
    /\ truth[Len(q)]

\* A collector realizes exactly the resources of its form its query holds of, when
\* nothing in it fails, and leaves the form of every other resource alone.
CollectsMatching ==
  [][\A q \in Queries, form \in Form \ {"regular"} :
       EvalCollector(q, form) /\ (\A k \in 1..Len(q) : q[k][1] # "bad") =>
         \A r \in InCatalog :
           res'[r].form = IF res[r].form = form /\ Holds(q, r) THEN "regular" ELSE res[r].form]_vars

=============================================================================
