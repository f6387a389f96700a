------------------------ MODULE ExportedStoreProofs -------------------------
(***************************************************************************)
(* Proofs about ExportedStore, for any number of nodes and compilations.   *)
(*                                                                         *)
(* The inductive invariant adds to the types that the store only holds     *)
(* resources their exporters still have, that a collector never reads      *)
(* beyond the store, and that what it has passed without a query is in its *)
(* catalog.                                                                *)
(***************************************************************************)
EXTENDS ExportedStore, TLAPS

StoreOK ==
  \A i \in 1..Len(byType) :
    cat[byType[i].origin][byType[i].title] = byType[i].origin

OwnMaps ==
  \A c \in Compilation, t \in Title : cat[c][t] = c => params[c][t] \in Value

UptoOK == \A c \in Compilation : upto[c] <= Len(byType)

Passed ==
  \A c \in Compilation :
    phase[c] = "collecting" /\ query[c] = Value =>
      \A i \in 1..upto[c] :
        i < next[c] /\ Foreign(c, byType[i]) => cat[c][byType[i].title] # Absent

IInv ==
  /\ TypeOK /\ StoreOK /\ OwnMaps /\ UptoOK /\ Passed
  /\ ImportsAreExports

\* One title of one compilation gets a value.
LEMMA EntryExcept ==
  ASSUME NEW S, NEW F \in [Compilation -> [Title -> S]],
         NEW c \in Compilation, NEW t \in Title, NEW v \in S
  PROVE  /\ [F EXCEPT ![c][t] = v] \in [Compilation -> [Title -> S]]
         /\ \A d \in Compilation, u \in Title :
              [F EXCEPT ![c][t] = v][d][u] = IF d = c /\ u = t THEN v ELSE F[d][u]
<1>1. [F EXCEPT ![c][t] = v] = [F EXCEPT ![c] = [F[c] EXCEPT ![t] = v]]
  OBVIOUS
<1>2. [F[c] EXCEPT ![t] = v] \in [Title -> S]
  OBVIOUS
<1>3. QED
  BY <1>1, <1>2

LEMMA TypeNext == TypeOK /\ UptoOK /\ [Next]_vars => TypeOK'
<1> SUFFICES ASSUME TypeOK, UptoOK, [Next]_vars PROVE TypeOK'
  OBVIOUS
<1> USE StoreAssumption DEF TypeOK
<1>1. ASSUME NEW c \in Compilation, Start(c) PROVE TypeOK'
  BY <1>1 DEF Start, Move, collecting
<1>2. ASSUME NEW c \in Compilation, Finish(c) PROVE TypeOK'
  BY <1>2 DEF Finish, Move, collecting
<1>3. ASSUME NEW c \in Compilation, Fail(c) PROVE TypeOK'
  <2>1. phase' \in [Compilation -> {"new", "running", "collecting", "done", "failed"}]
    BY <1>3 DEF Fail, Move
  <2>2. /\ upto' \in [Compilation -> Nat] /\ next' \in [Compilation -> Nat \ {0}]
        /\ query' \in [Compilation -> SUBSET Value]
    BY <1>3 DEF Fail, Collected
  <2>3. QED
    BY <1>3, <2>1, <2>2 DEF Fail
<1>4. ASSUME NEW c \in Compilation, NEW t \in Title, NEW v \in Value,
             NEW f \in {"regular", "exported"}, Add(c, t, v, f), byType' \in Seq(Entry)
      PROVE  TypeOK'
  <2>1. cat' \in [Compilation -> [Title -> Compilation \cup {Absent}]]
    BY <1>4, EntryExcept DEF Add
  <2>2. form' \in [Compilation -> [Title -> {"regular", "exported"}]]
    BY <1>4, EntryExcept DEF Add
  <2>3. params' \in [Compilation -> [Title -> Value \cup {Absent}]]
    BY <1>4, EntryExcept DEF Add
  <2>4. QED
    BY <1>4, <2>1, <2>2, <2>3 DEF Add, collecting
<1>5. ASSUME NEW c \in Compilation, NEW t \in Title, NEW v \in Value, DeclareExported(c, t, v)
      PROVE  TypeOK'
  <2>1. byType' \in Seq(Entry)
    BY <1>5 DEF DeclareExported, Entry
  <2>2. Add(c, t, v, "exported")
    BY <1>5 DEF DeclareExported
  <2>3. QED
    BY <1>4, <2>1, <2>2
<1>6. ASSUME NEW c \in Compilation, NEW t \in Title, NEW v \in Value, Override(c, t, v)
      PROVE  TypeOK'
  <2>1. params' \in [Compilation -> [Title -> Value \cup {Absent}]]
    BY <1>6, EntryExcept DEF Override
  <2>2. QED
    BY <1>6, <2>1 DEF Override, collecting
<1>7. ASSUME NEW c \in Compilation, NEW q \in Query, CollectExported(c, q)
      PROVE  TypeOK'
  BY <1>7 DEF CollectExported, Move
<1>8. ASSUME NEW c \in Compilation, ImportNext(c) PROVE TypeOK'
  <2>1. byType[next[c]] \in Entry
    BY <1>8 DEF ImportNext, UptoOK
  <2>2. cat' \in [Compilation -> [Title -> Compilation \cup {Absent}]]
    BY <1>8, <2>1 DEF ImportNext, Entry
  <2>3. QED
    BY <1>8, <2>2 DEF ImportNext
<1>9. ASSUME NEW c \in Compilation, EndCollect(c) PROVE TypeOK'
  BY <1>9 DEF EndCollect, Move, Collected
<1>10. CASE UNCHANGED vars
  BY <1>10 DEF vars
<1>11. QED
  BY <1>1, <1>2, <1>3, <1>4, <1>5, <1>6, <1>7, <1>8, <1>9, <1>10
     DEF Next, DeclareRegular, DeclareExportedInstance

-----------------------------------------------------------------------------
(* The steps, as far as the invariants can tell them apart *)

\* c's catalog gets a resource of its own, which it may export.
Declared(c, t, v) ==
  /\ cat[c][t] = Absent
  /\ cat' = [cat EXCEPT ![c][t] = c] /\ params' = [params EXCEPT ![c][t] = v]
  /\ \/ byType' = byType
     \/ byType' = Append(byType, [origin |-> c, title |-> t])
  /\ UNCHANGED <<phase, collecting>>

\* c looks at the next export of its collector, and imports it or not.
Looked(c) ==
  /\ phase[c] = "collecting" /\ next[c] <= upto[c]
  /\ next' = [next EXCEPT ![c] = @ + 1]
  /\ UNCHANGED <<phase, params, byType, upto, query>>

Imported(c, e) ==
  /\ Foreign(c, e) /\ Matches(c, e) /\ cat[c][e.title] = Absent
  /\ cat' = [cat EXCEPT ![c][e.title] = e.origin]

Skipped(c, e) ==
  /\ ~(Foreign(c, e) /\ Matches(c, e) /\ cat[c][e.title] = Absent)
  /\ cat' = cat

Rewritten(c, t, v) ==
  /\ cat[c][t] # Absent /\ params' = [params EXCEPT ![cat[c][t]][t] = v]
  /\ UNCHANGED <<phase, cat, byType, collecting>>

\* Catalogs, maps and store stay; collectors may begin or end.
Quiet ==
  /\ UNCHANGED <<cat, params, byType>>
  /\ \A c \in Compilation :
       \/ /\ upto'[c] = upto[c] /\ next'[c] = next[c] /\ query'[c] = query[c]
          /\ phase'[c] = "collecting" => phase[c] = "collecting"
       \/ upto'[c] = Len(byType) /\ next'[c] = 1 /\ query'[c] \in Query
       \/ upto'[c] = 0 /\ phase'[c] # "collecting"

LEMMA Steps ==
  ASSUME TypeOK, [Next]_vars
  PROVE  \/ \E c \in Compilation, t \in Title, v \in Value : Declared(c, t, v)
         \/ \E c \in Compilation, t \in Title, v \in Value : Rewritten(c, t, v)
         \/ \E c \in Compilation : Looked(c) /\ Skipped(c, byType[next[c]])
         \/ \E c \in Compilation : Looked(c) /\ Imported(c, byType[next[c]])
         \/ Quiet
<1>1. ASSUME NEW c \in Compilation, NEW t \in Title, NEW v \in Value,
             DeclareRegular(c, t, v) \/ DeclareExported(c, t, v) \/ DeclareExportedInstance(c, t, v)
      PROVE  Declared(c, t, v)
  BY <1>1 DEF DeclareRegular, DeclareExported, DeclareExportedInstance, Add, Declared
<1>2. ASSUME NEW c \in Compilation, NEW t \in Title, NEW v \in Value, Override(c, t, v)
      PROVE  Rewritten(c, t, v)
  BY <1>2 DEF Override, Rewritten
<1>3. ASSUME NEW c \in Compilation, ImportNext(c)
      PROVE  Looked(c) /\ (Skipped(c, byType[next[c]]) \/ Imported(c, byType[next[c]]))
  BY <1>3 DEF ImportNext, Looked, Imported, Skipped
<1>4. ASSUME NEW c \in Compilation, NEW q \in Query, CollectExported(c, q)
      PROVE  Quiet
  BY <1>4 DEF CollectExported, Quiet, TypeOK, Move
<1>5. ASSUME NEW c \in Compilation, EndCollect(c) \/ Fail(c)
      PROVE  Quiet
  BY <1>5 DEF EndCollect, Fail, Collected, Quiet, TypeOK, Move
<1>6. ASSUME NEW c \in Compilation, Start(c) \/ Finish(c)
      PROVE  Quiet
  BY <1>6 DEF Start, Finish, Quiet, collecting, TypeOK, Move
<1>7. CASE UNCHANGED vars
  BY <1>7 DEF Quiet, vars
<1>8. QED
  BY <1>1, <1>2, <1>3, <1>4, <1>5, <1>6, <1>7 DEF Next

LEMMA DeclaredShape ==
  ASSUME TypeOK, NEW c \in Compilation, NEW t \in Title, NEW v \in Value, Declared(c, t, v)
  PROVE  /\ cat[c][t] = Absent
         /\ \A d \in Compilation, u \in Title :
              /\ cat'[d][u] = IF d = c /\ u = t THEN c ELSE cat[d][u]
              /\ params'[d][u] = IF d = c /\ u = t THEN v ELSE params[d][u]
         /\ Len(byType') \in {Len(byType), Len(byType) + 1}
         /\ \A i \in 1..Len(byType) : byType'[i] = byType[i]
         /\ Len(byType') = Len(byType) + 1 =>
              byType'[Len(byType) + 1] = [origin |-> c, title |-> t]
<1>1. cat' = [cat EXCEPT ![c][t] = c] /\ params' = [params EXCEPT ![c][t] = v]
  BY DEF Declared
<1>2. \A d \in Compilation, u \in Title :
        cat'[d][u] = IF d = c /\ u = t THEN c ELSE cat[d][u]
  BY <1>1, EntryExcept DEF TypeOK
<1>3. \A d \in Compilation, u \in Title :
        params'[d][u] = IF d = c /\ u = t THEN v ELSE params[d][u]
  BY <1>1, EntryExcept DEF TypeOK
<1>4. QED
  BY <1>2, <1>3 DEF Declared, TypeOK

LEMMA ImportedShape ==
  ASSUME TypeOK, NEW c \in Compilation, NEW e \in Entry, Imported(c, e)
  PROVE  \A d \in Compilation, u \in Title :
           cat'[d][u] = IF d = c /\ u = e.title THEN e.origin ELSE cat[d][u]
<1>1. e.origin \in Compilation \cup {Absent} /\ e.title \in Title
  BY DEF Entry
<1>2. cat' = [cat EXCEPT ![c][e.title] = e.origin]
  BY DEF Imported
<1>3. QED
  BY <1>1, <1>2, EntryExcept DEF TypeOK

LEMMA RewrittenShape ==
  ASSUME TypeOK, NEW c \in Compilation, NEW t \in Title, NEW v \in Value, Rewritten(c, t, v)
  PROVE  \A d \in Compilation, u \in Title :
           params'[d][u] = IF d = cat[c][t] /\ u = t THEN v ELSE params[d][u]
<1>1. cat[c][t] \in Compilation
  BY DEF Rewritten, TypeOK
<1>2. params' = [params EXCEPT ![cat[c][t]][t] = v]
  BY DEF Rewritten
<1>3. QED
  BY <1>1, <1>2, EntryExcept DEF TypeOK

-----------------------------------------------------------------------------
LEMMA InitOK == Init => IInv
BY StoreAssumption
   DEF Init, IInv, TypeOK, StoreOK, OwnMaps, UptoOK, Passed, ImportsAreExports

LEMMA Preserved == IInv /\ [Next]_vars => IInv'
<1> SUFFICES ASSUME IInv, [Next]_vars PROVE IInv'
  OBVIOUS
<1>0. TypeOK /\ TypeOK'
  BY TypeNext DEF IInv
<1>1. /\ Len(byType) \in Nat /\ \A i \in 1..Len(byType) : byType[i] \in Entry
      /\ \A c \in Compilation : upto[c] \in Nat /\ next[c] \in Nat /\ upto[c] <= Len(byType)
  BY <1>0 DEF TypeOK, IInv, UptoOK
<1>2. ASSUME NEW c \in Compilation, NEW t \in Title, NEW v \in Value, Declared(c, t, v)
      PROVE  IInv'
  <2>1. UNCHANGED <<phase, upto, next, query>> /\ cat[c][t] = Absent
    BY <1>2 DEF Declared, collecting
  <2>2. \A d \in Compilation, u \in Title :
          /\ cat'[d][u] = IF d = c /\ u = t THEN c ELSE cat[d][u]
          /\ params'[d][u] = IF d = c /\ u = t THEN v ELSE params[d][u]
    <3>1. \A d \in Compilation, u \in Title :
            cat'[d][u] = IF d = c /\ u = t THEN c ELSE cat[d][u]
      BY <1>0, <1>2, EntryExcept DEF Declared, TypeOK
    <3>2. \A d \in Compilation, u \in Title :
            params'[d][u] = IF d = c /\ u = t THEN v ELSE params[d][u]
      BY <1>0, <1>2, EntryExcept DEF Declared, TypeOK
    <3>3. QED
      BY <3>1, <3>2
  <2>3. /\ Len(byType') \in {Len(byType), Len(byType) + 1}
        /\ \A i \in 1..Len(byType) : byType'[i] = byType[i]
        /\ Len(byType') = Len(byType) + 1 =>
             byType'[Len(byType) + 1] = [origin |-> c, title |-> t]
    BY <1>0, <1>2, DeclaredShape
  <2>4. \A d \in Compilation, u \in Title : cat[d][u] # Absent => cat'[d][u] = cat[d][u]
    BY <2>1, <2>2
  <2>5. StoreOK'
    <3>1. ASSUME NEW i \in 1..Len(byType')
          PROVE  cat'[byType'[i].origin][byType'[i].title] = byType'[i].origin
      <4>1. CASE i \in 1..Len(byType)
        BY <1>1, <2>3, <2>4, <4>1, StoreAssumption DEF IInv, StoreOK, Entry
      <4>2. CASE i = Len(byType) + 1 /\ Len(byType') = Len(byType) + 1
        BY <2>2, <2>3, <4>2
      <4>3. QED
        BY <1>1, <2>3, <4>1, <4>2
    <3>2. QED
      BY <3>1 DEF StoreOK
  <2>6. OwnMaps'
    BY <2>2 DEF IInv, OwnMaps
  <2>7. UptoOK'
    BY <1>1, <2>1, <2>3 DEF UptoOK, IInv
  <2>8. Passed'
    <3>1. ASSUME NEW d \in Compilation, phase[d] = "collecting", query[d] = Value,
                 NEW i \in 1..upto[d], i < next[d], Foreign(d, byType'[i])
          PROVE  cat'[d][byType'[i].title] # Absent
      <4>1. i \in 1..Len(byType) /\ byType'[i] = byType[i] /\ byType[i].title \in Title
        BY <1>1, <2>3 DEF Entry
      <4>2. cat[d][byType[i].title] # Absent
        BY <3>1, <4>1 DEF IInv, Passed
      <4>3. QED
        BY <2>4, <4>1, <4>2
    <3>2. QED
      BY <2>1, <3>1 DEF Passed, Foreign
  <2>9. ImportsAreExports'
    <3>1. ASSUME NEW d \in Compilation, NEW u \in Title, cat'[d][u] \notin {d, Absent}
          PROVE  /\ NodeOf[cat'[d][u]] # NodeOf[d]
                 /\ cat'[cat'[d][u]][u] = cat'[d][u]
                 /\ \E i \in 1..Len(byType') : byType'[i] = [origin |-> cat'[d][u], title |-> u]
      <4>1. cat'[d][u] = cat[d][u]
        BY <2>2, <3>1
      <4>2. cat[d][u] \in Compilation
        BY <1>0, <3>1, <4>1 DEF TypeOK
      <4>3. NodeOf[cat[d][u]] # NodeOf[d] /\ cat[cat[d][u]][u] = cat[d][u] /\ Stored(cat[d][u], u)
        BY <3>1, <4>1 DEF IInv, ImportsAreExports
      <4>4. cat'[cat[d][u]][u] = cat[d][u]
        BY <2>4, <4>2, <4>3, StoreAssumption
      <4>5. \E i \in 1..Len(byType') : byType'[i] = [origin |-> cat[d][u], title |-> u]
        BY <1>1, <2>3, <4>3 DEF Stored
      <4>6. QED
        BY <4>1, <4>3, <4>4, <4>5
    <3>2. QED
      BY <3>1 DEF ImportsAreExports, Stored
  <2>10. QED
    BY <1>0, <2>5, <2>6, <2>7, <2>8, <2>9 DEF IInv
<1>3. ASSUME NEW c \in Compilation, NEW t \in Title, NEW v \in Value, Rewritten(c, t, v)
      PROVE  IInv'
  <2>1. UNCHANGED <<phase, cat, byType, upto, next, query>>
    BY <1>3 DEF Rewritten, collecting
  <2>2. OwnMaps'
    BY <1>0, <1>3, <2>1, RewrittenShape DEF IInv, OwnMaps
  <2>3. QED
    BY <1>0, <2>1, <2>2
       DEF IInv, StoreOK, UptoOK, Passed, Foreign, ImportsAreExports, Stored
\* What the two outcomes of looking at an export have in common.
<1>4. ASSUME NEW c \in Compilation, Looked(c)
      PROVE  /\ UNCHANGED <<phase, params, byType, upto, query>> /\ UptoOK'
             /\ next[c] \in 1..Len(byType) /\ byType[next[c]] \in Entry
             /\ next[c] \in 1..upto[c]
             /\ \A d \in Compilation : next'[d] = IF d = c THEN next[c] + 1 ELSE next[d]
  BY <1>0, <1>1, <1>4 DEF Looked, IInv, UptoOK, TypeOK
<1>5. ASSUME NEW c \in Compilation, Looked(c), Skipped(c, byType[next[c]])
      PROVE  IInv'
  <2>1. cat' = cat
    BY <1>5 DEF Skipped
  <2>2. params[byType[next[c]].origin][byType[next[c]].title] \in Value
    BY <1>4, <1>5 DEF IInv, StoreOK, OwnMaps, Entry
  <2>3. Foreign(c, byType[next[c]]) /\ query[c] = Value => cat[c][byType[next[c]].title] # Absent
    BY <1>5, <2>2 DEF Skipped, Matches
  <2>4. Passed'
    BY <1>1, <1>4, <1>5, <2>1, <2>3 DEF IInv, Passed, Foreign
  <2>5. QED
    BY <1>0, <1>4, <1>5, <2>1, <2>4
       DEF IInv, StoreOK, OwnMaps, ImportsAreExports, Stored
<1>6. ASSUME NEW c \in Compilation, Looked(c), Imported(c, byType[next[c]])
      PROVE  IInv'
  <2>0. byType' = byType
    BY <1>4, <1>6
  <2> DEFINE k == next[c]
  <2> DEFINE o == byType[k].origin
  <2> DEFINE t == byType[k].title
  <2>1. o \in Compilation /\ t \in Title /\ k \in 1..Len(byType) /\ byType[k] = [origin |-> o, title |-> t]
    BY <1>4, <1>6 DEF Entry
  <2>2. /\ \A d \in Compilation, u \in Title :
             cat'[d][u] = IF d = c /\ u = t THEN o ELSE cat[d][u]
        /\ cat[c][t] = Absent /\ NodeOf[o] # NodeOf[c] /\ o # c
    BY <1>0, <1>4, <1>6, ImportedShape DEF Imported, Foreign
  <2>3. cat[o][t] = o
    BY <2>1 DEF IInv, StoreOK
  <2>4. \A d \in Compilation, u \in Title : cat[d][u] # Absent => cat'[d][u] = cat[d][u]
    BY <2>2
  <2> HIDE DEF k, o, t
  <2>5. StoreOK'
    BY <1>1, <1>4, <1>6, <2>4, StoreAssumption DEF IInv, StoreOK, Entry
  <2>6. OwnMaps'
    BY <1>4, <1>6, <2>2 DEF IInv, OwnMaps
  <2>7. Passed'
    <3>1. ASSUME NEW d \in Compilation, phase[d] = "collecting", query[d] = Value,
                 NEW i \in 1..upto[d], i < next'[d], Foreign(d, byType[i])
          PROVE  cat'[d][byType[i].title] # Absent
      <4>1. byType[i].title \in Title
        BY <1>1 DEF Entry
      <4>2. CASE d = c /\ i = k
        BY <2>1, <2>2, <4>2, StoreAssumption DEF t
      <4>3. CASE ~(d = c /\ i = k)
        <5>1. i < next[d]
          BY <1>1, <1>4, <1>6, <3>1, <4>3 DEF k
        <5>2. QED
          BY <2>4, <3>1, <4>1, <5>1 DEF IInv, Passed
      <4>4. QED
        BY <4>2, <4>3
    <3>2. QED
      BY <1>4, <1>6, <3>1 DEF Passed, Foreign
  <2>8. ImportsAreExports'
    <3>1. ASSUME NEW d \in Compilation, NEW u \in Title, cat'[d][u] \notin {d, Absent}
          PROVE  /\ NodeOf[cat'[d][u]] # NodeOf[d]
                 /\ cat'[cat'[d][u]][u] = cat'[d][u]
                 /\ \E i \in 1..Len(byType') : byType'[i] = [origin |-> cat'[d][u], title |-> u]
      <4>1. CASE d = c /\ u = t
        BY <2>0, <2>1, <2>2, <2>3, <4>1
      <4>2. CASE ~(d = c /\ u = t)
        <5>1. cat'[d][u] = cat[d][u] /\ cat[d][u] \in Compilation
          BY <1>0, <2>2, <3>1, <4>2 DEF TypeOK
        <5>2. NodeOf[cat[d][u]] # NodeOf[d] /\ cat[cat[d][u]][u] = cat[d][u] /\ Stored(cat[d][u], u)
          BY <3>1, <5>1 DEF IInv, ImportsAreExports
        <5>3. QED
          BY <2>0, <2>4, <5>1, <5>2, StoreAssumption DEF Stored
      <4>3. QED
        BY <4>1, <4>2
    <3>2. QED
      BY <3>1 DEF ImportsAreExports, Stored
  <2>9. QED
    BY <1>0, <1>4, <1>6, <2>5, <2>6, <2>7, <2>8 DEF IInv
<1>7. CASE Quiet
  <2>1. UptoOK'
    BY <1>1, <1>7 DEF Quiet, IInv, UptoOK
  <2>2. Passed'
    BY <1>1, <1>7 DEF Quiet, IInv, Passed, Foreign
  <2>3. QED
    BY <1>0, <1>7, <2>1, <2>2
       DEF IInv, Quiet, StoreOK, OwnMaps, ImportsAreExports, Stored
<1>8. QED
  BY <1>0, <1>2, <1>3, <1>5, <1>6, <1>7, Steps

LEMMA Invariance == Spec => []IInv
BY InitOK, Preserved, PTL DEF Spec

\* Every reachable state is well typed.
THEOREM TypeCorrect == Spec => []TypeOK
BY Invariance, PTL DEF IInv

\* However compilations of any nodes interleave, an import shares the parameters of
\* another node's live export and of nothing else (importExported, CollectExported).
THEOREM ImportsCorrect == Spec => []ImportsAreExports
BY Invariance, PTL DEF IInv

\* No import replaces what a catalog already has (importExported).
THEOREM OriginCorrect == Spec => OriginStable
<1>1. IInv /\ [Next]_vars =>
        [\A c \in Compilation, t \in Title : cat[c][t] # Absent => cat'[c][t] = cat[c][t]]_vars
  <2> SUFFICES ASSUME IInv, [Next]_vars, NEW d \in Compilation, NEW u \in Title, cat[d][u] # Absent
               PROVE  cat'[d][u] = cat[d][u]
    OBVIOUS
  <2>0. TypeOK /\ \A i \in 1..Len(byType) : byType[i] \in Entry
    BY DEF IInv, TypeOK
  <2>1. ASSUME NEW c \in Compilation, NEW t \in Title, NEW v \in Value, Declared(c, t, v)
        PROVE  cat'[d][u] = cat[d][u]
    BY <2>0, <2>1, EntryExcept DEF Declared, TypeOK
  <2>2. ASSUME NEW c \in Compilation, Looked(c), Imported(c, byType[next[c]])
        PROVE  cat'[d][u] = cat[d][u]
    <3>1. byType[next[c]] \in Entry
      BY <2>0, <2>2 DEF Looked, IInv, UptoOK, TypeOK
    <3>2. cat[c][byType[next[c]].title] = Absent
      BY <2>2 DEF Imported
    <3>3. QED
      BY <2>0, <2>2, <3>1, <3>2, ImportedShape
  <2>3. QED
    BY <2>0, <2>1, <2>2, Steps DEF Rewritten, Skipped, Quiet
<1>2. QED
  BY <1>1, Invariance, PTL DEF Spec, OriginStable

\* A successful collector without a query leaves out no export the store held for
\* it (importExported).
THEOREM ImportsComplete == Spec => ImportComplete
<1> DEFINE Complete ==
      \A c \in Compilation :
        phase[c] = "collecting" /\ phase'[c] = "running" /\ query[c] = Value =>
          \A i \in 1..upto[c] :
            NodeOf[byType[i].origin] # NodeOf[c] => cat'[c][byType[i].title] # Absent
<1>1. IInv /\ [Next]_vars => [Complete]_vars
  <2> SUFFICES ASSUME IInv, [Next]_vars, NEW d \in Compilation,
                      phase[d] = "collecting", phase'[d] = "running", query[d] = Value,
                      NEW i \in 1..upto[d], NodeOf[byType[i].origin] # NodeOf[d]
               PROVE  cat'[d][byType[i].title] # Absent
    OBVIOUS
  <2>1. next[d] > upto[d] /\ cat' = cat
    <3>1. phase'[d] # phase[d] /\ phase \in [Compilation -> {"new", "running", "collecting", "done", "failed"}]
      BY DEF IInv, TypeOK
    <3>2. ASSUME NEW c \in Compilation, NEW from, NEW to, Move(c, from, to)
          PROVE  c = d /\ from = "collecting" /\ to = "running"
      BY <3>1, <3>2 DEF Move
    <3>3. PICK c \in Compilation :
            Start(c) \/ Finish(c) \/ Fail(c) \/ (\E q \in Query : CollectExported(c, q)) \/ EndCollect(c)
      BY ZenonT(60), <3>1 DEF Next, vars, DeclareRegular, DeclareExported, DeclareExportedInstance, Add,
             Override, ImportNext
    <3>4. EndCollect(c)
      BY <3>2, <3>3 DEF Start, Finish, Fail, CollectExported
    <3>5. QED
      BY <3>2, <3>4 DEF EndCollect
  <2>2. i < next[d]
    BY <2>1 DEF IInv, TypeOK
  <2>3. QED
    BY <2>1, <2>2 DEF IInv, Passed, Foreign
<1>2. QED
  BY <1>1, Invariance, PTL DEF Spec, ImportComplete

\* However compilations interleave, what a collector without a query imports is the first
\* export of its title (importExported).
THEOREM FirstExportCorrect == Spec => FirstExportWins
<1> DEFINE First(c, t) ==
      \E i \in 1..upto[c] :
        /\ byType[i] = [origin |-> cat'[c][t], title |-> t]
        /\ \A j \in 1..(i - 1) : byType[j].title = t => NodeOf[byType[j].origin] = NodeOf[c]
<1>1. IInv /\ [Next]_vars =>
        [\A c \in Compilation, t \in Title :
           phase[c] = "collecting" /\ query[c] = Value /\ cat'[c][t] # cat[c][t] => First(c, t)]_vars
  <2> SUFFICES ASSUME IInv, [Next]_vars, NEW d \in Compilation, NEW u \in Title,
                      phase[d] = "collecting", query[d] = Value, cat'[d][u] # cat[d][u]
               PROVE  First(d, u)
    OBVIOUS
  <2>0. TypeOK /\ \A i \in 1..Len(byType) : byType[i] \in Entry
    BY DEF IInv, TypeOK
  <2>1. ASSUME NEW c \in Compilation, NEW t \in Title, NEW v \in Value,
               DeclareRegular(c, t, v) \/ DeclareExported(c, t, v) \/ DeclareExportedInstance(c, t, v)
        PROVE  FALSE
    <3>1. phase[c] = "running" /\ cat' = [cat EXCEPT ![c][t] = c]
      BY <2>1 DEF DeclareRegular, DeclareExported, DeclareExportedInstance, Add
    <3>2. cat'[d] = cat[d]
      BY <2>0, <3>1 DEF TypeOK
    <3>3. QED
      BY <3>2
  <2>2. PICK c \in Compilation : ImportNext(c)
    BY <2>1 DEF Next, vars, Start, Finish, Fail, Override, CollectExported, EndCollect
  <2> DEFINE k == next[c]
  <2> DEFINE e == byType[k]
  <2>3. k \in 1..upto[c] /\ k \in 1..Len(byType) /\ e \in Entry
    BY <2>0, <2>2 DEF ImportNext, IInv, UptoOK, TypeOK
  <2>4. Foreign(c, e) /\ cat[c][e.title] = Absent /\ cat' = [cat EXCEPT ![c][e.title] = e.origin]
    BY <2>2 DEF ImportNext
  <2>5. d = c /\ u = e.title /\ cat'[d][u] = e.origin
    <3>1. \A b \in Compilation, t \in Title :
            cat'[b][t] = IF b = c /\ t = e.title THEN e.origin ELSE cat[b][t]
      BY <2>0, <2>3, <2>4, EntryExcept DEF TypeOK, Entry
    <3>2. QED
      BY <3>1
  <2>6. ASSUME NEW j \in 1..(k - 1), byType[j].title = u
        PROVE  NodeOf[byType[j].origin] = NodeOf[d]
    <3>1. j \in 1..upto[d] /\ j < next[d]
      BY <2>0, <2>3, <2>5 DEF TypeOK
    <3>2. QED
      BY <2>4, <2>5, <2>6, <3>1 DEF IInv, Passed, Foreign
  <2>7. e = [origin |-> cat'[d][u], title |-> u]
    BY <2>3, <2>5 DEF Entry
  <2>8. QED
    BY <2>3, <2>5, <2>6, <2>7
<1>2. QED
  BY <1>1, Invariance, PTL DEF Spec, FirstExportWins
=============================================================================
