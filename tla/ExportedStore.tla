--------------------------- MODULE ExportedStore ----------------------------
(***************************************************************************)
(* Exported resources (eval/exported.go, and the statements of eval/ that  *)
(* use the store): compilations of several nodes run concurrently, each    *)
(* with an evaluator and a catalog of its own, and share one in-memory     *)
(* store. What one exports with @@ another imports with <<| |>>.           *)
(*                                                                         *)
(* Resources are Go pointers: the store holds the exporting catalog's own  *)
(* resource, and an importing catalog holds a copy that shares the         *)
(* parameter map. The map a compilation makes for a title is named by the  *)
(* two, so cat[c][t] says whose map the resource t of c's catalog refers   *)
(* to: its own, or that of the compilation it was imported from.           *)
(*                                                                         *)
(* One resource type, whose parameters are one value; the store keeps      *)
(* types apart. Its mutex makes StoreExported and CollectExported atomic;  *)
(* parameter maps are read and written with no lock, one step at a time.   *)
(***************************************************************************)
EXTENDS Integers, Sequences

CONSTANTS
  Compilation,  \* the compilations that share the store, each run once
  Node,
  NodeOf,       \* the node each compilation is for; a node may be compiled again
  Title,
  Value,        \* contents of a parameter map
  Query,        \* the queries of collectors: the values each matches
  Absent

ASSUME StoreAssumption ==
  /\ NodeOf \in [Compilation -> Node]
  /\ Query \subseteq SUBSET Value
  /\ Absent \notin Compilation /\ Absent \notin Value

VARIABLES
  phase,     \* of each compilation
  cat,       \* its catalog: whose parameter map each title has, or Absent
  form,      \* the Exported flag of its own resources
  params,    \* the parameter maps it made
  byType,    \* the store: exports in the order StoreExported recorded them
  upto,      \* how much of the store a collector in progress was given
  next,      \* the export it looks at next
  query      \* its query

vars == <<phase, cat, form, params, byType, upto, next, query>>
collecting == <<upto, next, query>>

Entry == [origin : Compilation, title : Title]

Init ==
  /\ phase = [c \in Compilation |-> "new"]
  /\ cat = [c \in Compilation |-> [t \in Title |-> Absent]]
  /\ form = [c \in Compilation |-> [t \in Title |-> "regular"]]
  /\ params = [c \in Compilation |-> [t \in Title |-> Absent]]
  /\ byType = << >>
  /\ upto = [c \in Compilation |-> 0]
  /\ next = [c \in Compilation |-> 1]
  /\ query = [c \in Compilation |-> {}]

Move(c, from, to) == phase[c] = from /\ phase' = [phase EXCEPT ![c] = to]

Start(c) ==
  /\ Move(c, "new", "running")
  /\ UNCHANGED <<cat, form, params, byType, collecting>>

Finish(c) ==
  /\ Move(c, "running", "done")
  /\ UNCHANGED <<cat, form, params, byType, collecting>>

\* A call of importExported is over, its locals are gone.
Collected(c) ==
  /\ upto' = [upto EXCEPT ![c] = 0]
  /\ next' = [next EXCEPT ![c] = 1]
  /\ query' = [query EXCEPT ![c] = {}]

\* Any statement, or a collector's query, may fail; what was stored stays.
Fail(c) ==
  /\ Move(c, "running", "failed") \/ Move(c, "collecting", "failed")
  /\ Collected(c)
  /\ UNCHANGED <<cat, form, params, byType>>

\* A fresh resource with a parameter map of its own.
Add(c, t, v, f) ==
  /\ phase[c] = "running" /\ cat[c][t] = Absent
  /\ cat' = [cat EXCEPT ![c][t] = c]
  /\ form' = [form EXCEPT ![c][t] = f]
  /\ params' = [params EXCEPT ![c][t] = v]
  /\ UNCHANGED <<phase, collecting>>

DeclareRegular(c, t, v) == Add(c, t, v, "regular") /\ UNCHANGED byType

\* storeExported: the store gets the catalog's own resource.
DeclareExported(c, t, v) ==
  /\ Add(c, t, v, "exported")
  /\ byType' = Append(byType, [origin |-> c, title |-> t])

\* instantiateDefine flags an @@ instance of a defined type and stores nothing.
DeclareExportedInstance(c, t, v) == Add(c, t, v, "exported") /\ UNCHANGED byType

\* applyOverride writes the parameter map, whoever made it.
Override(c, t, v) ==
  /\ phase[c] = "running" /\ cat[c][t] # Absent
  /\ params' = [params EXCEPT ![cat[c][t]][t] = v]
  /\ UNCHANGED <<phase, cat, form, byType, collecting>>

-----------------------------------------------------------------------------
(* The exported collector, <<| q |>> *)

\* CollectExported copies the list under the lock: exports stored later are not
\* in it. The store only grows, so the copy is the store up to here.
CollectExported(c, q) ==
  /\ Move(c, "running", "collecting")
  /\ upto' = [upto EXCEPT ![c] = Len(byType)]
  /\ next' = [next EXCEPT ![c] = 1]
  /\ query' = [query EXCEPT ![c] = q]
  /\ UNCHANGED <<cat, form, params, byType>>

\* Mutant of Foreign: only the compilation's own exports are left out.
ForeignCompilation(c, e) == e.origin # c

\* CollectExported leaves out what was exported under the compilation's node name.
Foreign(c, e) == NodeOf[e.origin] # NodeOf[c]

\* The query matches the entry's parameters as they are now.
Matches(c, e) == params[e.origin][e.title] \in query[c]

\* Mutant of ImportNext: a later export of the same title takes the place.
ImportLatest(c) ==
  /\ phase[c] = "collecting" /\ next[c] <= upto[c]
  /\ LET e == byType[next[c]] IN
     cat' = IF Foreign(c, e) /\ Matches(c, e)
            THEN [cat EXCEPT ![c][e.title] = e.origin] ELSE cat
  /\ next' = [next EXCEPT ![c] = @ + 1]
  /\ UNCHANGED <<phase, form, params, byType, upto, query>>

\* importExported, one entry: what the catalog does not have yet is added, a copy
\* that shares the exporter's parameter map.
ImportNext(c) ==
  /\ phase[c] = "collecting" /\ next[c] <= upto[c]
  /\ LET e == byType[next[c]] IN
     cat' = IF Foreign(c, e) /\ Matches(c, e) /\ cat[c][e.title] = Absent
            THEN [cat EXCEPT ![c][e.title] = e.origin] ELSE cat
  /\ next' = [next EXCEPT ![c] = @ + 1]
  /\ UNCHANGED <<phase, form, params, byType, upto, query>>

\* Mutant of EndCollect: it may end before the last entry.
EndCollectEarly(c) ==
  /\ Move(c, "collecting", "running")
  /\ next[c] >= upto[c]
  /\ form' = [form EXCEPT ![c] = [t \in Title |->
       IF cat[c][t] = c /\ params[c][t] \in query[c] THEN "regular" ELSE form[c][t]]]
  /\ Collected(c)
  /\ UNCHANGED <<cat, params, byType>>

\* After the imports the collector realizes the matching exports of its own
\* catalog, whose resources are also the store's.
EndCollect(c) ==
  /\ Move(c, "collecting", "running")
  /\ next[c] > upto[c]
  /\ form' = [form EXCEPT ![c] = [t \in Title |->
       IF cat[c][t] = c /\ params[c][t] \in query[c] THEN "regular" ELSE form[c][t]]]
  /\ Collected(c)
  /\ UNCHANGED <<cat, params, byType>>

-----------------------------------------------------------------------------
Next ==
  \E c \in Compilation :
    \/ Start(c) \/ Finish(c) \/ Fail(c)
    \/ \E t \in Title, v \in Value :
         \/ DeclareRegular(c, t, v) \/ DeclareExported(c, t, v)
         \/ DeclareExportedInstance(c, t, v) \/ Override(c, t, v)
    \/ \E q \in Query : CollectExported(c, q)
    \/ ImportNext(c) \/ EndCollect(c)

Spec == Init /\ [][Next]_vars

-----------------------------------------------------------------------------
(* Properties *)

\* The type invariant.
TypeOK ==
  /\ phase \in [Compilation -> {"new", "running", "collecting", "done", "failed"}]
  /\ cat \in [Compilation -> [Title -> Compilation \cup {Absent}]]
  /\ form \in [Compilation -> [Title -> {"regular", "exported"}]]
  /\ params \in [Compilation -> [Title -> Value \cup {Absent}]]
  /\ byType \in Seq(Entry)
  /\ upto \in [Compilation -> Nat]
  /\ next \in [Compilation -> Nat \ {0}]
  /\ query \in [Compilation -> SUBSET Value]

Stored(c, t) == \E i \in 1..Len(byType) : byType[i] = [origin |-> c, title |-> t]

\* An imported resource shares the parameter map of a resource that a compilation
\* for another node exported and still has: a node never collects its own exports,
\* not even those of an earlier or a concurrent compilation of it, and an import
\* is never exported on (importExported, CollectExported).
ImportsAreExports ==
  \A c \in Compilation, t \in Title :
    cat[c][t] \notin {c, Absent} =>
      /\ NodeOf[cat[c][t]] # NodeOf[c]
      /\ cat[cat[c][t]][t] = cat[c][t]
      /\ Stored(cat[c][t], t)

\* When several nodes, or several compilations of a node, export the same title, a
\* collector without a query imports the export that reached the store first, whatever
\* is exported or overridden while it collects, and also after collectors with queries
\* have passed that export over (importExported).
FirstExportWins ==
  [][\A c \in Compilation, t \in Title :
       phase[c] = "collecting" /\ query[c] = Value /\ cat'[c][t] # cat[c][t] =>
         \E i \in 1..upto[c] :
           /\ byType[i] = [origin |-> cat'[c][t], title |-> t]
           /\ \A j \in 1..(i - 1) : byType[j].title = t => NodeOf[byType[j].origin] = NodeOf[c]]_vars

\* A resource stays what it was first in a catalog: no import replaces a resource
\* the compilation declared or imported before (the Get of importExported).
OriginStable ==
  [][\A c \in Compilation, t \in Title : cat[c][t] # Absent => cat'[c][t] = cat[c][t]]_vars

\* A collector without a query that succeeds leaves no export out that the store
\* held for it when it asked (importExported).
ImportComplete ==
  [][\A c \in Compilation :
       phase[c] = "collecting" /\ phase'[c] = "running" /\ query[c] = Value =>
         \A i \in 1..upto[c] :
           NodeOf[byType[i].origin] # NodeOf[c] => cat'[c][byType[i].title] # Absent]_vars

\* What c's catalog shows for each title.
View(c) == [t \in Title |-> IF cat[c][t] = Absent THEN Absent ELSE params[cat[c][t]][t]]

\* The catalog of a compilation that has finished is its node's alone and does not
\* change any more: "Catalog is a compiled catalog for one node" (catalog/catalog.go).
CatalogSettled ==
  [][\A c \in Compilation : phase[c] = "done" => View(c)' = View(c)]_vars

\* "StoreExported is called for every `@@` resource declared during compilation"
\* (eval/exported.go).
EveryExportStored ==
  \A c \in Compilation, t \in Title : cat[c][t] = c /\ form[c][t] = "exported" => Stored(c, t)

=============================================================================
