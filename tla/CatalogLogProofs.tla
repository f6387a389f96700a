-------------------------- MODULE CatalogLogProofs --------------------------
(***************************************************************************)
(* Proofs about CatalogLog: the two promises readers of a catalog rely on, *)
(* for any set of references. Both are inductive with the type invariant;  *)
(* Contained needs the index to agree with the declaration order, because  *)
(* Record chooses the container from the index.                            *)
(***************************************************************************)
EXTENDS CatalogLog, TLAPS

LEMMA CatalogTypeNext == CatalogTypeOK /\ [CatalogNext]_catalogVars => CatalogTypeOK'
BY DEF CatalogTypeOK, CatalogNext, catalogVars, Relate, Record, Realize, Form, Recorded

LEMMA CatalogTypeCorrect == CatalogSpec => []CatalogTypeOK
<1>1. CatalogInit => CatalogTypeOK
  BY DEF CatalogInit, CatalogTypeOK, Form
<1>2. QED
  BY <1>1, CatalogTypeNext, PTL DEF CatalogSpec

\* One step keeps the index and the list of the catalog in agreement.
LEMMA IndexNext ==
  ASSUME CatalogAssumption
  PROVE  CatalogTypeOK /\ IndexMatchesOrder /\ [CatalogNext]_catalogVars => IndexMatchesOrder'
<1> SUFFICES ASSUME CatalogTypeOK, IndexMatchesOrder, [CatalogNext]_catalogVars
             PROVE  IndexMatchesOrder'
  OBVIOUS
<1>1. ASSUME NEW r \in Ref, NEW form \in Form, Record(r, form)
      PROVE  IndexMatchesOrder'
  <2>1. /\ order' \in Seq(Ref) /\ Len(order') = Len(order) + 1
        /\ order'[Len(order) + 1] = r
        /\ \A i \in 1..Len(order) : order'[i] = order[i]
        /\ Len(order) \in Nat
    BY <1>1 DEF Record, CatalogTypeOK
  <2>2. \A s \in Ref : status'[s] = IF s = r THEN form ELSE status[s]
    BY <1>1 DEF Record, CatalogTypeOK
  <2>3. status[r] = Absent /\ form # Absent
    BY <1>1 DEF Record, CatalogAssumption
  <2>4. \A s \in Ref : status'[s] # Absent <=> \E i \in 1..Len(order') : order'[i] = s
    BY <2>1, <2>2, <2>3 DEF IndexMatchesOrder
  <2>5. \A i \in 1..Len(order) : order[i] # r
    BY <2>3 DEF IndexMatchesOrder
  <2>6. \A i, j \in 1..Len(order') : order'[i] = order'[j] => i = j
    BY <2>1, <2>5 DEF IndexMatchesOrder
  <2>7. QED
    BY <2>4, <2>6 DEF IndexMatchesOrder
<1>2. ASSUME NEW S \in SUBSET Recorded, Realize(S)
      PROVE  IndexMatchesOrder'
  BY <1>2 DEF CatalogAssumption, Realize, Recorded, IndexMatchesOrder, CatalogTypeOK, Form
<1>3. CASE UNCHANGED catalogVars
  BY <1>3 DEF catalogVars, IndexMatchesOrder
<1>4. QED
  BY <1>1, <1>2, <1>3 DEF CatalogNext

\* One step keeps every resource hanging from one declared before it.
LEMMA ContainedNext ==
  ASSUME CatalogAssumption
  PROVE  CatalogTypeOK /\ IndexMatchesOrder /\ Contained /\ [CatalogNext]_catalogVars => Contained'
<1> SUFFICES ASSUME CatalogTypeOK, IndexMatchesOrder, Contained, [CatalogNext]_catalogVars
             PROVE  Contained'
  OBVIOUS
<1>0. edges \subseteq edges' /\ Len(order) \in Nat
  BY DEF CatalogNext, Relate, catalogVars, CatalogTypeOK
<1>1. ASSUME NEW r \in Ref, NEW form \in Form, Record(r, form)
      PROVE  Contained'
  <2>1. /\ Len(order') = Len(order) + 1
        /\ order'[Len(order) + 1] = r
        /\ \A i \in 1..Len(order) : order'[i] = order[i]
    BY <1>1 DEF Record, CatalogTypeOK
  <2>2. PICK c \in Recorded \cup {Main} : <<c, r>> \in edges'
    BY <1>1 DEF Record
  <2>3. c = Main \/ \E j \in 1..Len(order) : order[j] = c
    BY <2>2 DEF Recorded, IndexMatchesOrder
  <2>4. SUFFICES ASSUME NEW i \in 1..Len(order')
                 PROVE  \/ <<Main, order'[i]>> \in edges'
                        \/ \E j \in 1..(i - 1) : <<order'[j], order'[i]>> \in edges'
    BY DEF Contained
  <2>5. CASE i = Len(order) + 1
    BY <2>1, <2>2, <2>3, <2>5, <1>0
  <2>6. CASE i \in 1..Len(order)
    <3>1. \A j \in 1..(i - 1) : j \in 1..Len(order)
      BY <2>6, <1>0
    <3>2. QED
      BY <2>1, <2>6, <3>1, <1>0 DEF Contained
  <2>7. QED
    BY <2>1, <2>5, <2>6, <1>0
<1>2. CASE UNCHANGED order
  BY <1>0, <1>2 DEF Contained
<1>3. QED
  BY <1>1, <1>2 DEF CatalogNext, catalogVars, Realize

\* What Get answers and what Resources lists agree (Catalog.Add writes the index and the list).
THEOREM IndexTheorem ==
  ASSUME CatalogAssumption PROVE CatalogSpec => []IndexMatchesOrder
<1>1. CatalogInit => IndexMatchesOrder
  BY DEF CatalogInit, IndexMatchesOrder
<1>2. QED
  BY <1>1, IndexNext, CatalogTypeCorrect, PTL DEF CatalogSpec

\* Every resource hangs from the main class through resources declared before it (AddEdge after Add).
THEOREM ContainedTheorem ==
  ASSUME CatalogAssumption PROVE CatalogSpec => []Contained
<1>1. CatalogInit => Contained
  BY DEF CatalogInit, Contained
<1>2. QED
  BY <1>1, ContainedNext, CatalogTypeCorrect, IndexTheorem, PTL DEF CatalogSpec

=============================================================================
