----------------------------- MODULE CatalogLog -----------------------------
(***************************************************************************)
(* What a catalog promises to whoever reads it while it is being compiled: *)
(* a log of resources, each reference recorded once and, from the moment   *)
(* it is recorded, contained in the main class or in a resource recorded   *)
(* before it; a set of edges that only grows; and virtual or exported      *)
(* resources that can be realized but never become virtual again.          *)
(*                                                                         *)
(* This is the abstract side of catalog/catalog.go. Evaluator.tla, which   *)
(* models the statements that fill a catalog, implements it.               *)
(***************************************************************************)
EXTENDS Integers, Sequences

CONSTANTS
  Ref,      \* resource references, Type[Title]
  Main,     \* the implicit main class, a container that is never recorded
  Absent    \* the status of a reference the catalog does not hold

Form == {"regular", "virtual", "exported"}

\* The hypothesis of the theorems; Evaluator's constants satisfy it.
CatalogAssumption == Absent \notin Form

VARIABLES
  order,    \* the resources in declaration order
  status,   \* the index: the form each reference was recorded in, or Absent
  edges     \* containment and relationship edges, <<source, target>>

catalogVars == <<order, status, edges>>

Recorded == {r \in Ref : status[r] # Absent}

CatalogInit ==
  /\ order = << >>
  /\ status = [r \in Ref |-> Absent]
  /\ edges = {}

Edge == (Ref \cup {Main}) \X (Ref \cup {Main})

\* Every step may add edges, between any references, recorded or not.
Relate == edges' \in SUBSET Edge /\ edges \subseteq edges'

\* A fresh reference is recorded together with the edge from its container.
Record(r, form) ==
  /\ status[r] = Absent
  /\ order' = Append(order, r)
  /\ status' = [status EXCEPT ![r] = form]
  /\ \E c \in Recorded \cup {Main} : <<c, r>> \in edges'

\* Some recorded resources become regular.
Realize(S) ==
  /\ status' = [r \in Ref |-> IF r \in S THEN "regular" ELSE status[r]]
  /\ UNCHANGED order

CatalogNext ==
  /\ Relate
  /\ \/ \E r \in Ref, form \in Form : Record(r, form)
     \/ \E S \in SUBSET Recorded : Realize(S)

CatalogSpec == CatalogInit /\ [][CatalogNext]_catalogVars
-----------------------------------------------------------------------------
CatalogTypeOK ==
  /\ order \in Seq(Ref)
  /\ status \in [Ref -> Form \cup {Absent}]
  /\ edges \in SUBSET Edge

\* The index and the declaration-order list hold the same references, each of
\* them once: what Get answers and what Resources lists never disagree.
IndexMatchesOrder ==
  /\ \A r \in Ref : status[r] # Absent <=> \E i \in 1..Len(order) : order[i] = r
  /\ \A i, j \in 1..Len(order) : order[i] = order[j] => i = j

\* Every resource has a containment edge from the main class or from a resource
\* declared before it, so following containers from any resource reaches the
\* main class: nothing floats, and declaration alone never makes a cycle.
Contained ==
  \A i \in 1..Len(order) :
    \/ <<Main, order[i]>> \in edges
    \/ \E j \in 1..(i - 1) : <<order[j], order[i]>> \in edges

=============================================================================
