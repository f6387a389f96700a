---------------------- MODULE ResourceAttributesProofs ----------------------
(***************************************************************************)
(* Proofs about ResourceAttributes, for any resources, names, values and   *)
(* statements, of any number of titles.                                    *)
(*                                                                         *)
(* A statement is a recursion over its titles, so the invariant is stated  *)
(* of the state they hand on (StateInv) and kept by each: no two resources *)
(* have one map, so a write to a resource changes it alone; each attribute *)
(* has the value the log of writes gives it. Nothing is assumed of the     *)
(* values.                                                                 *)
(***************************************************************************)
EXTENDS ResourceAttributes, RecursionLemmas

-----------------------------------------------------------------------------
(* The effect of a statement, one title after another *)

\* The states a statement goes through, of which the last is its effect.
Through(titles, a, m, f) ==
  f = [k \in 0..m |-> IF k = 0 THEN State ELSE Perform(f[k - 1], titles[k], a)]

\* A statement of n titles goes through n states.
LEMMA ThroughExists ==
  ASSUME NEW titles, NEW n \in Nat, NEW a
  PROVE  \E f : Through(titles, a, n, f)
<1> DEFINE Those == {m \in 0..n : \E f : Through(titles, a, m, f)}
<1>1. 0 \in Those
  <2>1. Through(titles, a, 0, [k \in 0..0 |-> State])
    BY DEF Through
  <2>2. QED
    BY <2>1
<1>2. ASSUME NEW m \in 0..(n - 1), m \in Those PROVE m + 1 \in Those
  <2>1. PICK f : Through(titles, a, m, f)
    BY <1>2
  <2>2. /\ f[0] = State
        /\ \A k \in 1..m : f[k] = Perform(f[k - 1], titles[k], a)
    BY <2>1 DEF Through
  <2> DEFINE last == Perform(f[m], titles[m + 1], a)
             g == [k \in 0..(m + 1) |-> IF k = m + 1 THEN last ELSE f[k]]
  <2>3. /\ g = [k \in 0..(m + 1) |-> g[k]]
        /\ g[0] = State
        /\ \A k \in 1..(m + 1) : g[k] = Perform(g[k - 1], titles[k], a)
    <3>1. g[0] = State
      BY <2>2
    <3>2. ASSUME NEW k \in 1..(m + 1) PROVE g[k] = Perform(g[k - 1], titles[k], a)
      <4>1. CASE k = m + 1
        <5>1. k - 1 = m /\ m \in 0..(m + 1) /\ m # m + 1 /\ m + 1 \in 0..(m + 1)
          BY <4>1
        <5>2. g[m] = f[m] /\ g[m + 1] = last
          BY <5>1
        <5>3. QED
          BY <4>1, <5>1, <5>2
      <4>2. CASE k # m + 1
        <5>1. k \in 1..m /\ k - 1 \in 0..(m + 1) /\ k - 1 # m + 1 /\ k \in 0..(m + 1)
          BY <4>2
        <5>2. g[k] = f[k] /\ g[k - 1] = f[k - 1]
          BY <4>2, <5>1
        <5>3. QED
          BY <2>2, <5>1, <5>2
      <4>3. QED
        BY <4>1, <4>2
    <3>3. QED
      BY <3>1, <3>2
  <2> HIDE DEF g
  <2>4. ASSUME NEW k \in 0..(m + 1)
        PROVE  g[k] = IF k = 0 THEN State ELSE Perform(g[k - 1], titles[k], a)
    <3>1. CASE k = 0
      BY <2>3, <3>1
    <3>2. CASE k # 0
      <4>1. k \in 1..(m + 1)
        BY <3>2
      <4>2. QED
        BY <2>3, <3>2, <4>1
    <3>3. QED
      BY <3>1, <3>2
  <2>5. Through(titles, a, m + 1, g)
    BY <2>3, <2>4 DEF Through
  <2>6. m + 1 \in 0..n
    OBVIOUS
  <2>7. QED
    BY <2>5, <2>6
<1>3. n \in Those
  <2> HIDE DEF Those
  <2>1. 0..n \subseteq Those
    BY <1>1, <1>2, UpTo
  <2>2. QED
    BY <2>1
<1>4. QED
  BY <1>3

\* The effect of a statement is the last of them.
LEMMA EffectIs ==
  ASSUME NEW titles, Len(titles) \in Nat, NEW a
  PROVE  \E f : /\ f[0] = State
                /\ \A k \in 1..Len(titles) : f[k] = Perform(f[k - 1], titles[k], a)
                /\ Effect(titles, a) = f[Len(titles)]
<1> DEFINE after[k \in 0..Len(titles)] ==
             IF k = 0 THEN State ELSE Perform(after[k - 1], titles[k], a)
           n == Len(titles)
<1>1. \E f : f = [k \in 0..n |-> IF k = 0 THEN State ELSE Perform(f[k - 1], titles[k], a)]
  <2>1. PICK f : Through(titles, a, n, f)
    BY ThroughExists
  <2>2. QED
    BY <2>1 DEF Through
<1>2. after = [k \in 0..n |-> IF k = 0 THEN State ELSE Perform(after[k - 1], titles[k], a)]
  BY <1>1
<1>3. Effect(titles, a) = after[n]
  BY DEF Effect
<1> HIDE DEF after
<1>4. after[0] = State /\ \A k \in 1..n : after[k] = Perform(after[k - 1], titles[k], a)
  BY <1>2
<1>5. QED
  BY <1>3, <1>4

-----------------------------------------------------------------------------
(* What was written *)

\* q is a sequence, of whatever elements.
Sequence(q) == \E S : q \in Seq(S)

\* A sequence with one element more.
LEMMA Appended ==
  ASSUME NEW q, Sequence(q), NEW e
  PROVE  /\ Sequence(Append(q, e)) /\ Len(q) \in Nat /\ Len(Append(q, e)) = Len(q) + 1
         /\ \A k \in 1..Len(q) : Append(q, e)[k] = q[k]
         /\ Append(q, e)[Len(q) + 1] = e
<1>1. PICK S : q \in Seq(S)
  BY DEF Sequence
<1>2. q \in Seq(S \cup {e}) /\ e \in S \cup {e}
  BY <1>1
<1>3. Append(q, e) \in Seq(S \cup {e})
  BY <1>2
<1>4. QED
  BY <1>2, <1>3 DEF Sequence

\* A sequence with one element replaced.
LEMMA Replaced ==
  ASSUME NEW q, Sequence(q), NEW m \in 1..Len(q), NEW e
  PROVE  /\ Sequence([q EXCEPT ![m] = e]) /\ Len([q EXCEPT ![m] = e]) = Len(q)
         /\ [q EXCEPT ![m] = e][m] = e
         /\ \A k \in 1..Len(q) : k # m => [q EXCEPT ![m] = e][k] = q[k]
<1>1. PICK S : q \in Seq(S)
  BY DEF Sequence
<1>2. q \in Seq(S \cup {e}) /\ e \in S \cup {e}
  BY <1>1
<1>3. [q EXCEPT ![m] = e] \in Seq(S \cup {e}) /\ Len([q EXCEPT ![m] = e]) = Len(q)
  BY <1>2
<1>4. QED
  BY <1>2, <1>3 DEF Sequence

\* The values attribute n of r had after each of the first m writes.
ValuesOf(writes, r, n, m, v) ==
  v = [k \in 0..m |->
        IF k = 0 THEN Unset
        ELSE IF writes[k].ref = r THEN Written(writes[k].asked, n, v[k - 1])
        ELSE v[k - 1]]

\* Each write leaves a value, set or not.
LEMMA ValuesExist ==
  ASSUME NEW writes, NEW r, NEW n, NEW last \in Nat
  PROVE  \E v : ValuesOf(writes, r, n, last, v)
<1> DEFINE next(old, k) == IF writes[k].ref = r THEN Written(writes[k].asked, n, old) ELSE old
           Those == {m \in 0..last : \E v : ValuesOf(writes, r, n, m, v)}
<1>1. 0 \in Those
  <2>1. ValuesOf(writes, r, n, 0, [k \in 0..0 |-> Unset])
    BY DEF ValuesOf
  <2>2. QED
    BY <2>1
<1>2. ASSUME NEW m \in 0..(last - 1), m \in Those PROVE m + 1 \in Those
  <2>1. PICK v : ValuesOf(writes, r, n, m, v)
    BY <1>2
  <2>2. v[0] = Unset /\ \A k \in 1..m : v[k] = next(v[k - 1], k)
    BY <2>1 DEF ValuesOf
  <2> DEFINE new == next(v[m], m + 1)
             g == [k \in 0..(m + 1) |-> IF k = m + 1 THEN new ELSE v[k]]
  <2>3. g = [k \in 0..(m + 1) |-> g[k]] /\ g[0] = Unset
    BY <2>2
  <2>4. ASSUME NEW k \in 1..(m + 1) PROVE g[k] = next(g[k - 1], k)
    <3> HIDE DEF next
    <3>1. CASE k = m + 1
      <4>1. k - 1 = m /\ m \in 0..(m + 1) /\ m # m + 1 /\ m + 1 \in 0..(m + 1)
        BY <3>1
      <4>2. g[m] = v[m] /\ g[m + 1] = new
        BY <4>1
      <4>3. QED
        BY <3>1, <4>1, <4>2
    <3>2. CASE k # m + 1
      <4>1. k \in 1..m /\ k - 1 \in 0..(m + 1) /\ k - 1 # m + 1 /\ k \in 0..(m + 1)
        BY <3>2
      <4>2. g[k] = v[k] /\ g[k - 1] = v[k - 1]
        BY <3>2, <4>1
      <4>3. QED
        BY <2>2, <4>1, <4>2
    <3>3. QED
      BY <3>1, <3>2
  <2> HIDE DEF g
  <2>5. ASSUME NEW k \in 0..(m + 1)
        PROVE  g[k] = IF k = 0 THEN Unset
                      ELSE IF writes[k].ref = r THEN Written(writes[k].asked, n, g[k - 1])
                      ELSE g[k - 1]
    <3>1. CASE k = 0
      BY <2>3, <3>1
    <3>2. CASE k # 0
      <4>1. k \in 1..(m + 1)
        BY <3>2
      <4>2. QED
        BY <2>4, <3>2, <4>1
    <3>3. QED
      BY <3>1, <3>2
  <2>6. ValuesOf(writes, r, n, m + 1, g)
    BY <2>3, <2>5 DEF ValuesOf
  <2>7. m + 1 \in 0..last
    OBVIOUS
  <2>8. QED
    BY <2>6, <2>7
<1>3. last \in Those
  <2> HIDE DEF Those
  <2>1. 0..last \subseteq Those
    BY <1>1, <1>2, UpTo
  <2>2. QED
    BY <2>1
<1>4. QED
  BY <1>3

\* The value after all writes is the last.
LEMMA ValueAfterIs ==
  ASSUME NEW writes, Len(writes) \in Nat, NEW r, NEW n
  PROVE  \E v : ValuesOf(writes, r, n, Len(writes), v) /\ ValueAfter(writes, r, n) = v[Len(writes)]
<1> DEFINE value[k \in 0..Len(writes)] ==
             IF k = 0 THEN Unset
             ELSE IF writes[k].ref = r THEN Written(writes[k].asked, n, value[k - 1])
             ELSE value[k - 1]
           last == Len(writes)
<1>1. \E v : v = [k \in 0..last |->
                   IF k = 0 THEN Unset
                   ELSE IF writes[k].ref = r THEN Written(writes[k].asked, n, v[k - 1])
                   ELSE v[k - 1]]
  <2>1. PICK v : ValuesOf(writes, r, n, last, v)
    BY ValuesExist
  <2>2. QED
    BY <2>1 DEF ValuesOf
<1>2. ValuesOf(writes, r, n, last, value)
  BY <1>1 DEF ValuesOf
<1>3. ValueAfter(writes, r, n) = value[last]
  BY DEF ValueAfter
<1>4. QED
  BY <1>2, <1>3

\* One more write decides the value from the value before it.
LEMMA OneMoreWrite ==
  ASSUME NEW writes, Sequence(writes), NEW e, NEW r, NEW n
  PROVE  ValueAfter(Append(writes, e), r, n)
           = IF e.ref = r THEN Written(e.asked, n, ValueAfter(writes, r, n))
             ELSE ValueAfter(writes, r, n)
<1> DEFINE more == Append(writes, e)
           last == Len(writes)
<1>1. /\ last \in Nat /\ Len(more) = last + 1 /\ more[last + 1] = e
      /\ \A k \in 1..last : more[k] = writes[k]
  BY Appended
<1>2. PICK v : ValuesOf(writes, r, n, last, v) /\ ValueAfter(writes, r, n) = v[last]
  BY <1>1, ValueAfterIs
<1>3. PICK u : ValuesOf(more, r, n, last + 1, u) /\ ValueAfter(more, r, n) = u[last + 1]
  <2> HIDE DEF more
  <2>1. QED
    BY <1>1, ValueAfterIs
<1> HIDE DEF more, last
<1>4. /\ v[0] = Unset
      /\ \A k \in 1..last : v[k] = IF writes[k].ref = r THEN Written(writes[k].asked, n, v[k - 1])
                                                        ELSE v[k - 1]
  BY <1>1, <1>2 DEF ValuesOf
<1>5. /\ u[0] = Unset
      /\ \A k \in 1..(last + 1) : u[k] = IF more[k].ref = r THEN Written(more[k].asked, n, u[k - 1])
                                                            ELSE u[k - 1]
  BY <1>1, <1>3 DEF ValuesOf
<1> DEFINE Same == {k \in 0..last : u[k] = v[k]}
<1>6. last \in Same
  <2>1. 0 \in Same
    BY <1>1, <1>4, <1>5
  <2>2. ASSUME NEW k \in 0..(last - 1), k \in Same PROVE k + 1 \in Same
    <3>1. /\ k + 1 \in 1..last /\ k + 1 \in 1..(last + 1) /\ k + 1 \in 0..last
          /\ (k + 1) - 1 = k /\ u[k] = v[k] /\ more[k + 1] = writes[k + 1]
      BY <1>1, <2>2
    <3>2. QED
      BY <1>4, <1>5, <3>1
  <2> HIDE DEF Same
  <2>3. 0..last \subseteq Same
    BY <1>1, <2>1, <2>2, UpTo
  <2>4. QED
    BY <1>1, <2>3
<1>7. last + 1 \in 1..(last + 1) /\ (last + 1) - 1 = last
  BY <1>1
<1>8. u[last + 1] = IF e.ref = r THEN Written(e.asked, n, v[last]) ELSE v[last]
  BY <1>1, <1>5, <1>6, <1>7
<1>9. QED
  BY <1>2, <1>3, <1>8 DEF more

-----------------------------------------------------------------------------
(* The states a statement goes through *)

\* The map of r on the heap, 0 when r is not declared.
Map(s, r) == s.res[r].map

\* The fields of a state, and every resource that is declared has a map on the heap.
WellFormed(s) ==
  /\ s = [heap |-> s.heap, res |-> s.res, order |-> s.order, edges |-> s.edges,
          log |-> s.log, err |-> s.err]
  /\ Sequence(s.heap) /\ Sequence(s.log) /\ Sequence(s.order)
  /\ s.res = [r \in Ref |-> [map |-> Map(s, r), tags |-> s.res[r].tags, form |-> s.res[r].form]]
  /\ \A r \in Ref : Map(s, r) \in 0..Len(s.heap)

\* No two resources share a map.
Unshared(s) == \A r, t \in Ref : Map(s, r) # 0 /\ Map(s, r) = Map(s, t) => r = t

\* Attributes have the values written.
AsWritten(s) ==
  \A r \in Native, n \in Plain :
    Declared(s, r) => s.heap[Map(s, r)][n] = ValueAfter(s.log, r, n)

\* No map holds a tag or a relationship.
NoneStored(s) ==
  \A r \in Ref, n \in Name \ Plain : Declared(s, r) => s.heap[Map(s, r)][n] = Unset

\* The relationships of what was declared are edges.
Wired(s) ==
  \A k \in 1..Len(s.log) :
    LET r == s.log[k].ref
        a == s.log[k].asked
    IN r \in Native /\ a.kind # "override"
       => MetaEdges(r, ApplyDefaults(a.attrs, a.dflt)) \subseteq s.edges

\* The catalog lists what is declared.
Listed(s) ==
  /\ \A k \in 1..Len(s.order) : s.order[k] \in Ref /\ Declared(s, s.order[k])
  /\ \A r \in Ref : Declared(s, r) => \E k \in 1..Len(s.order) : s.order[k] = r

StateInv(s) ==
  WellFormed(s) /\ Unshared(s) /\ AsWritten(s) /\ NoneStored(s) /\ Wired(s) /\ Listed(s)

Kind == {"declare", "ensure", "override"}

\* What becomes of a state in which r is declared with what a asks for.
DeclaredNow(s, t, r, a) ==
  LET params == ApplyDefaults(a.attrs, a.dflt) IN
  /\ WellFormed(t) /\ ~Declared(s, r) /\ t.err = s.err
  /\ t.heap = Append(s.heap, IF r \in Native THEN Stored(params) ELSE NoAttrs)
  /\ Map(t, r) = Len(s.heap) + 1
  /\ \A p \in Ref \ {r} : t.res[p] = s.res[p]
  /\ t.edges = s.edges \cup (IF r \in Native THEN MetaEdges(r, params) ELSE {})
  /\ t.log = Append(s.log, Write(r, a)) /\ t.order = Append(s.order, r)

\* And of one in which a resource that is declared is overridden.
OverriddenNow(s, t, r, a) ==
  /\ WellFormed(t) /\ Declared(s, r) /\ t.err = s.err
  /\ t.heap = [s.heap EXCEPT ![Map(s, r)] = Overridden(s.heap[Map(s, r)], a, Plain)]
  /\ \A p \in Ref : Map(t, p) = Map(s, p)
  /\ s.edges \subseteq t.edges
  /\ t.log = Append(s.log, Write(r, a)) /\ t.order = s.order

\* A failure leaves at most edges behind.
FailedNow(s, t, r) ==
  /\ WellFormed(t) /\ Declared(s, r) = Declared(t, r)
  /\ t.heap = s.heap /\ t.res = s.res /\ t.log = s.log /\ t.order = s.order
  /\ s.edges \subseteq t.edges

\* A declaration fails on what is declared, and declares what is not.
LEMMA Declares ==
  ASSUME NEW s, WellFormed(s), NEW r \in Ref, NEW a
  PROVE  IF Declared(s, r) THEN FailedNow(s, DeclareResource(s, r, a), r)
         ELSE DeclaredNow(s, DeclareResource(s, r, a), r, a)
<1> DEFINE t == DeclareResource(s, r, a)
           params == ApplyDefaults(a.attrs, a.dflt)
           stored == IF r \in Native THEN Stored(params) ELSE NoAttrs
           tags == IF r \in Native /\ "tag" \in Name THEN TagStrings(params["tag"]) ELSE << >>
           wired == IF r \in Native THEN s.edges \cup MetaEdges(r, params) ELSE s.edges
           entry == [map |-> Len(s.heap) + 1, tags |-> tags, form |-> a.form]
<1>1. CASE Declared(s, r)
  <2>1. t = [s EXCEPT !.err = TRUE, !.edges = wired]
    BY <1>1 DEF DeclareResource
  <2> HIDE DEF t, wired
  <2>2. t = [heap |-> s.heap, res |-> s.res, order |-> s.order, edges |-> wired,
             log |-> s.log, err |-> TRUE]
    BY <2>1 DEF WellFormed
  <2> HIDE <2>1
  <2>3. WellFormed(t) /\ Declared(s, r) = Declared(t, r)
    BY <2>2 DEF WellFormed, Map, Declared
  <2>4. s.edges \subseteq wired
    BY DEF wired
  <2>5. FailedNow(s, t, r)
    BY <2>2, <2>3, <2>4 DEF FailedNow
  <2>6. QED
    BY <1>1, <2>5 DEF t
<1>2. CASE ~Declared(s, r)
  <2> DEFINE h == Append(s.heap, stored)
             l == Append(s.log, Write(r, a))
             rs == [s.res EXCEPT ![r] = entry]
             o == Append(s.order, r)
  <2>1. t = [s EXCEPT !.heap = h, !.edges = wired, !.order = o, !.res[r] = entry, !.log = l]
    BY <1>2 DEF DeclareResource, Allocate
  <2>2. /\ Sequence(h) /\ Len(s.heap) \in Nat /\ Len(h) = Len(s.heap) + 1
        /\ Sequence(l) /\ Sequence(o)
    BY Appended DEF WellFormed
  <2>3. /\ rs = [p \in Ref |-> [map |-> rs[p].map, tags |-> rs[p].tags, form |-> rs[p].form]]
        /\ rs[r].map = Len(s.heap) + 1 /\ \A p \in Ref \ {r} : rs[p] = s.res[p]
    <3> HIDE DEF tags
    <3>1. s.res = [p \in Ref |-> [map |-> Map(s, p), tags |-> s.res[p].tags, form |-> s.res[p].form]]
      BY DEF WellFormed
    <3>2. QED
      BY <3>1
  <2> HIDE DEF t, wired, h, l, entry, o
  <2>4. t = [heap |-> h, res |-> rs, order |-> o, edges |-> wired, log |-> l, err |-> s.err]
    BY <2>1 DEF WellFormed
  <2> HIDE DEF rs
  <2>5. \A p \in Ref : rs[p].map \in 0..Len(h)
    BY <2>2, <2>3 DEF WellFormed, Map
  <2>6. WellFormed(t)
    BY <2>2, <2>3, <2>4, <2>5 DEF WellFormed, Map
  <2>7. wired = s.edges \cup (IF r \in Native THEN MetaEdges(r, params) ELSE {})
    BY DEF wired
  <2>8. DeclaredNow(s, t, r, a)
    BY <1>2, <2>3, <2>4, <2>6, <2>7 DEF DeclaredNow, Map, h, l, o
  <2>9. QED
    BY <1>2, <2>8 DEF t
<1>3. QED
  BY <1>1, <1>2

\* An override fails on what is not declared, and writes to what is.
LEMMA Overrides ==
  ASSUME NEW s, WellFormed(s), NEW r \in Ref, NEW a
  PROVE  IF Declared(s, r) THEN OverriddenNow(s, ApplyOverride(s, r, a), r, a)
         ELSE FailedNow(s, ApplyOverride(s, r, a), r)
<1> DEFINE t == ApplyOverride(s, r, a)
           m == Map(s, r)
           new == Overridden(s.heap[m], a, Plain)
           tags == IF "tag" \in Name THEN TagStrings(a.attrs["tag"]) ELSE << >>
<1>1. CASE ~Declared(s, r)
  <2>1. t = [s EXCEPT !.err = TRUE]
    BY <1>1 DEF ApplyOverride
  <2> HIDE DEF t
  <2>2. t = [heap |-> s.heap, res |-> s.res, order |-> s.order, edges |-> s.edges,
             log |-> s.log, err |-> TRUE]
    BY <2>1 DEF WellFormed
  <2> HIDE <2>1
  <2>3. WellFormed(t) /\ Declared(s, r) = Declared(t, r)
    BY <2>2 DEF WellFormed, Map, Declared
  <2>4. FailedNow(s, t, r)
    BY <2>2, <2>3 DEF FailedNow
  <2>5. QED
    BY <1>1, <2>4 DEF t
<1>2. CASE Declared(s, r)
  <2> DEFINE h == [s.heap EXCEPT ![m] = new]
             l == Append(s.log, Write(r, a))
             rs == [s.res EXCEPT ![r].tags = @ \o tags]
             e == s.edges \cup MetaEdges(r, a.attrs)
  <2>1. t = [s EXCEPT !.heap[m] = new, !.res[r].tags = @ \o tags, !.edges = e, !.log = l]
    BY <1>2 DEF ApplyOverride, Map
  <2>2. m \in 1..Len(s.heap)
    <3>1. m \in 0..Len(s.heap) /\ m # 0
      BY <1>2 DEF WellFormed, Map, Declared
    <3> HIDE DEF m
    <3>2. Len(s.heap) \in Nat
      BY Appended DEF WellFormed
    <3>3. QED
      BY <3>1, <3>2
  <2> HIDE DEF m, new
  <2>3. Sequence(h) /\ Len(h) = Len(s.heap) /\ Sequence(l)
    <3>1. Sequence(s.heap) /\ Sequence(s.log)
      BY DEF WellFormed
    <3>2. Sequence(h) /\ Len(h) = Len(s.heap)
      BY <2>2, <3>1, Replaced
    <3>3. Sequence(l)
      BY <3>1, Appended
    <3>4. QED
      BY <3>2, <3>3
  <2>4. /\ rs = [p \in Ref |-> [map |-> rs[p].map, tags |-> rs[p].tags, form |-> rs[p].form]]
        /\ \A p \in Ref : rs[p].map = s.res[p].map
    <3> HIDE DEF tags
    <3>1. s.res = [p \in Ref |-> [map |-> Map(s, p), tags |-> s.res[p].tags, form |-> s.res[p].form]]
      BY DEF WellFormed
    <3> DEFINE entry == [map |-> Map(s, r), tags |-> s.res[r].tags \o tags, form |-> s.res[r].form]
    <3>2. rs = [s.res EXCEPT ![r] = entry]
      <4> DEFINE old == s.res[r]
                 more == s.res[r].tags \o tags
      <4>1. old = [map |-> Map(s, r), tags |-> old.tags, form |-> old.form]
        BY <3>1
      <4>2. [old EXCEPT !.tags = more] = [map |-> Map(s, r), tags |-> more, form |-> old.form]
        <5> HIDE DEF old, more
        <5>1. QED
          BY <4>1
      <4>3. rs = [s.res EXCEPT ![r] = [old EXCEPT !.tags = more]]
        OBVIOUS
      <4>4. QED
        BY <4>2, <4>3
    <3>3. entry = [map |-> entry.map, tags |-> entry.tags, form |-> entry.form]
          /\ entry.map = s.res[r].map
      BY DEF Map
    <3> HIDE DEF entry, rs
    <3>4. QED
      BY <3>1, <3>2, <3>3
  <2> HIDE DEF t, l, e, tags
  <2>5. t = [heap |-> h, res |-> rs, order |-> s.order, edges |-> e, log |-> l, err |-> s.err]
    BY <2>1 DEF WellFormed
  <2> HIDE DEF rs, h
  <2>6. \A p \in Ref : rs[p].map \in 0..Len(h)
    BY <2>3, <2>4 DEF WellFormed, Map
  <2>7. WellFormed(t)
    BY <2>3, <2>4, <2>5, <2>6 DEF WellFormed, Map
  <2>8. s.edges \subseteq e
    BY DEF e
  <2>9. \A p \in Ref : Map(t, p) = Map(s, p)
    BY <2>4, <2>5 DEF Map
  <2>10. OverriddenNow(s, t, r, a)
    BY <1>2, <2>5, <2>7, <2>8, <2>9 DEF OverriddenNow, h, l, m, new
  <2>11. QED
    BY <1>2, <2>10 DEF t
<1>3. QED
  BY <1>1, <1>2

\* A statement does nothing to a title, fails, declares or overrides it.
LEMMA Performs ==
  ASSUME NEW s, WellFormed(s), NEW r \in Ref, NEW a, a.kind \in Kind
  PROVE  LET t == Perform(s, r, a) IN
         \/ t = s
         \/ FailedNow(s, t, r)
         \/ a.kind # "override" /\ DeclaredNow(s, t, r, a)
         \/ a.kind = "override" /\ OverriddenNow(s, t, r, a)
<1>1. CASE s.err
  BY <1>1 DEF Perform
<1>2. CASE ~s.err /\ a.kind = "declare"
  BY <1>2, Declares DEF Perform
<1>3. CASE ~s.err /\ a.kind = "ensure"
  BY <1>3, Declares DEF Perform, EnsureResource
<1>4. CASE ~s.err /\ a.kind = "override"
  BY <1>4, Overrides DEF Perform
<1>5. QED
  BY <1>1, <1>2, <1>3, <1>4 DEF Kind

\* Where a resource is in a well-formed state.
LEMMA Placed ==
  ASSUME NEW s, WellFormed(s), NEW r \in Ref
  PROVE  /\ Len(s.heap) \in Nat /\ Len(s.log) \in Nat
         /\ Map(s, r) \in Nat /\ Map(s, r) <= Len(s.heap)
         /\ Declared(s, r) => Map(s, r) \in 1..Len(s.heap)
         /\ Declared(s, r) <=> Map(s, r) # 0
<1>1. Len(s.heap) \in Nat /\ Len(s.log) \in Nat
  BY Appended DEF WellFormed
<1>2. QED
  BY <1>1 DEF WellFormed, Map, Declared

\* The entry that a write adds to the log, and the values after it.
LEMMA Logged ==
  ASSUME NEW q, Sequence(q), NEW r, NEW a
  PROVE  LET more == Append(q, Write(r, a)) IN
         /\ Len(q) \in Nat /\ Len(more) = Len(q) + 1
         /\ \A k \in 1..Len(q) : more[k] = q[k]
         /\ more[Len(q) + 1].ref = r /\ more[Len(q) + 1].asked = a
<1>1. Write(r, a).ref = r /\ Write(r, a).asked = a
  BY DEF Write
<1>2. QED
  BY <1>1, Appended

\* The value after a write that is logged.
LEMMA LoggedValue ==
  ASSUME NEW q, Sequence(q), NEW r, NEW a, NEW p, NEW n
  PROVE  ValueAfter(Append(q, Write(r, a)), p, n)
           = IF p = r THEN Written(a, n, ValueAfter(q, p, n)) ELSE ValueAfter(q, p, n)
<1>1. Write(r, a).ref = r /\ Write(r, a).asked = a
  BY DEF Write
<1>2. QED
  BY <1>1, OneMoreWrite

\* What is wired stays wired, and a declaration wires what it asks for.
LEMMA StaysWired ==
  ASSUME NEW s, NEW t, WellFormed(s), Wired(s), NEW r, NEW a,
         t.log = Append(s.log, Write(r, a)), s.edges \subseteq t.edges,
         r \in Native /\ a.kind # "override"
           => MetaEdges(r, ApplyDefaults(a.attrs, a.dflt)) \subseteq t.edges
  PROVE  Wired(t)
<1> DEFINE last == Len(s.log)
           Fine(e, known) == e.ref \in Native /\ e.asked.kind # "override"
             => MetaEdges(e.ref, ApplyDefaults(e.asked.attrs, e.asked.dflt)) \subseteq known
<1>1. /\ last \in Nat /\ Len(t.log) = last + 1 /\ \A k \in 1..last : t.log[k] = s.log[k]
      /\ t.log[last + 1].ref = r /\ t.log[last + 1].asked = a
  <2>1. Sequence(s.log)
    BY DEF WellFormed
  <2>2. QED
    BY <2>1, Logged
<1>2. \A k \in 1..last : Fine(s.log[k], s.edges)
  BY DEF Wired
<1>3. \A k \in 1..last : Fine(s.log[k], t.edges)
  BY <1>2
<1>4. Fine(t.log[last + 1], t.edges)
  BY <1>1
<1> HIDE DEF Fine
<1>5. \A k \in 1..Len(t.log) : Fine(t.log[k], t.edges)
  BY <1>1, <1>3, <1>4
<1>6. QED
  BY <1>5 DEF Wired, Fine

\* A declaration fills a map of its own: no attribute of another resource changes.
LEMMA DeclaringKeeps ==
  ASSUME NEW s, StateInv(s), NEW t, NEW r \in Ref, NEW a, a.kind # "override",
         DeclaredNow(s, t, r, a)
  PROVE  StateInv(t)
<1> DEFINE params == ApplyDefaults(a.attrs, a.dflt)
           stored == IF r \in Native THEN Stored(params) ELSE NoAttrs
           m == Len(s.heap) + 1
<1>1. WellFormed(s) /\ WellFormed(t)
  BY DEF StateInv, DeclaredNow
<1>2. /\ t.heap = Append(s.heap, stored) /\ t.log = Append(s.log, Write(r, a))
      /\ Map(t, r) = m /\ ~Declared(s, r)
      /\ \A p \in Ref \ {r} : Map(t, p) = Map(s, p)
      /\ t.edges = s.edges \cup (IF r \in Native THEN MetaEdges(r, params) ELSE {})
      /\ t.order = Append(s.order, r)
  BY DEF DeclaredNow, Map
<1>0. ASSUME NEW p, NEW n
      PROVE  ValueAfter(t.log, p, n) = IF p = r THEN Written(a, n, ValueAfter(s.log, p, n))
                                       ELSE ValueAfter(s.log, p, n)
  <2>1. t.log = Append(s.log, Write(r, a))
    BY <1>2
  <2>2. Sequence(s.log)
    BY <1>1 DEF WellFormed
  <2>3. QED
    BY <2>1, <2>2, LoggedValue
<1>3. /\ Len(s.heap) \in Nat /\ m \in Nat /\ t.heap[m] = stored
      /\ \A k \in 1..Len(s.heap) : t.heap[k] = s.heap[k]
  <2>1. Sequence(s.heap)
    BY <1>1 DEF WellFormed
  <2> HIDE DEF stored
  <2>2. QED
    BY <1>2, <2>1, Appended
<1>4. \A p \in Ref : Map(s, p) \in Nat /\ Map(s, p) < m
                     /\ (Declared(s, p) => Map(s, p) \in 1..Len(s.heap))
                     /\ (Declared(s, p) <=> Map(s, p) # 0) /\ (Declared(t, p) <=> Map(t, p) # 0)
  BY <1>1, <1>3, Placed
<1>5. \A p \in Ref \ {r} : Declared(t, p) => Declared(s, p) /\ t.heap[Map(t, p)] = s.heap[Map(s, p)]
  BY <1>2, <1>3, <1>4
<1> HIDE DEF m
<1>6. Unshared(t)
  BY <1>2, <1>4 DEF StateInv, Unshared
<1>7. AsWritten(t)
  <2>1. ASSUME NEW p \in Native, NEW n \in Plain, Declared(t, p)
        PROVE  t.heap[Map(t, p)][n] = ValueAfter(t.log, p, n)
    <3>1. CASE p = r
      <4>1. ValueAfter(t.log, p, n) = Written(a, n, ValueAfter(s.log, p, n))
        BY <1>0, <3>1
      <4>2. t.heap[Map(t, p)][n] = params[n] /\ n \in Name
        BY <1>2, <1>3, <3>1 DEF Stored, Plain
      <4>3. params[n] = Written(a, n, ValueAfter(s.log, p, n))
        BY <4>2 DEF ApplyDefaults, Over, Written
      <4>4. QED
        BY <4>1, <4>2, <4>3
    <3>2. CASE p # r
      <4>1. p \in Ref \ {r}
        BY <3>2 DEF Ref
      <4>2. s.heap[Map(s, p)][n] = ValueAfter(s.log, p, n)
        BY <1>5, <2>1, <4>1 DEF StateInv, AsWritten
      <4>3. ValueAfter(t.log, p, n) = ValueAfter(s.log, p, n)
        BY <1>0, <3>2
      <4>4. QED
        BY <1>5, <2>1, <4>1, <4>2, <4>3
    <3>3. QED
      BY <3>1, <3>2
  <2>2. QED
    BY <2>1 DEF AsWritten
<1>8. NoneStored(t)
  <2>1. ASSUME NEW p \in Ref, NEW n \in Name \ Plain, Declared(t, p)
        PROVE  t.heap[Map(t, p)][n] = Unset
    <3>1. CASE p = r
      BY <1>2, <1>3, <3>1 DEF Stored, NoAttrs
    <3>2. CASE p # r
      BY <1>5, <2>1, <3>2 DEF StateInv, NoneStored
    <3>3. QED
      BY <3>1, <3>2
  <2>2. QED
    BY <2>1 DEF NoneStored
<1>9. Wired(t)
  BY <1>1, <1>2, StaysWired DEF StateInv
<1>10. Listed(t)
  <2>1. \A p \in Ref : Declared(t, p) <=> p = r \/ Declared(s, p)
    BY <1>2, <1>3, <1>4
  <2>2. Listed(s) /\ Sequence(s.order)
    BY <1>1 DEF StateInv, WellFormed
  <2>3. /\ Len(s.order) \in Nat /\ Len(t.order) = Len(s.order) + 1
        /\ \A k \in 1..Len(s.order) : t.order[k] = s.order[k]
        /\ t.order[Len(s.order) + 1] = r
    BY <1>2, <2>2, Appended
  <2>4. \A k \in 1..Len(t.order) : k \in 1..Len(s.order) \/ k = Len(s.order) + 1
    BY <2>3
  <2>5. QED
    BY SMTT(60), <2>1, <2>2, <2>3, <2>4 DEF Listed
<1>11. QED
  BY <1>1, <1>6, <1>7, <1>8, <1>9, <1>10 DEF StateInv

\* An override writes to one map, which belongs to one resource.
LEMMA OverridingKeeps ==
  ASSUME NEW s, StateInv(s), NEW t, NEW r \in Ref, NEW a, a.kind = "override",
         OverriddenNow(s, t, r, a)
  PROVE  StateInv(t)
<1> DEFINE m == Map(s, r)
           new == Overridden(s.heap[m], a, Plain)
<1>1. WellFormed(s) /\ WellFormed(t)
  BY DEF StateInv, OverriddenNow
<1>2. /\ t.heap = [s.heap EXCEPT ![m] = new] /\ t.log = Append(s.log, Write(r, a))
      /\ Declared(s, r) /\ s.edges \subseteq t.edges /\ t.order = s.order
      /\ \A p \in Ref : Map(t, p) = Map(s, p)
  BY DEF OverriddenNow
<1>0. ASSUME NEW p, NEW n
      PROVE  ValueAfter(t.log, p, n) = IF p = r THEN Written(a, n, ValueAfter(s.log, p, n))
                                       ELSE ValueAfter(s.log, p, n)
  <2>1. t.log = Append(s.log, Write(r, a))
    BY <1>2
  <2>2. Sequence(s.log)
    BY <1>1 DEF WellFormed
  <2>3. QED
    BY <2>1, <2>2, LoggedValue
<1>3. \A p \in Ref : /\ Map(s, p) \in Nat
                     /\ (Declared(s, p) => Map(s, p) \in 1..Len(s.heap))
                     /\ (Declared(s, p) <=> Map(s, p) # 0) /\ (Declared(t, p) <=> Map(t, p) # 0)
  BY <1>1, Placed
<1>4. m \in 1..Len(s.heap) /\ Sequence(s.heap)
  BY <1>1, <1>2, <1>3 DEF WellFormed
<1>5. t.heap[m] = new /\ \A k \in 1..Len(s.heap) : k # m => t.heap[k] = s.heap[k]
  <2> HIDE DEF m, new
  <2>1. QED
    BY <1>2, <1>4, Replaced
<1>6. \A p \in Ref : Declared(t, p) <=> Declared(s, p)
  BY <1>2, <1>3
<1>7. \A p \in Ref : Declared(s, p) /\ p # r => Map(s, p) # m
  BY <1>3 DEF StateInv, Unshared
<1>8. /\ \A p \in Ref \ {r} : Declared(t, p) => t.heap[Map(t, p)] = s.heap[Map(s, p)]
      /\ t.heap[Map(t, r)] = new
  <2> HIDE DEF new
  <2>1. QED
    BY <1>2, <1>3, <1>5, <1>6, <1>7
<1>9. Unshared(t)
  BY <1>2 DEF StateInv, Unshared
<1>10. AsWritten(t)
  <2>1. ASSUME NEW p \in Native, NEW n \in Plain, Declared(t, p)
        PROVE  t.heap[Map(t, p)][n] = ValueAfter(t.log, p, n)
    <3>1. /\ p \in Ref /\ n \in Name /\ Declared(s, p)
          /\ s.heap[Map(s, p)][n] = ValueAfter(s.log, p, n)
      <4>1. p \in Ref /\ n \in Name
        BY DEF Ref, Plain
      <4>2. QED
        BY <1>6, <2>1, <4>1 DEF StateInv, AsWritten
    <3>2. CASE p = r
      <4>1. ValueAfter(t.log, p, n) = Written(a, n, ValueAfter(s.log, p, n))
        BY <1>0, <3>2
      <4>2. t.heap[Map(t, p)][n] = new[n]
        BY <1>8, <3>2
      <4>3. new[n] = Written(a, n, s.heap[m][n])
        BY <3>1 DEF Overridden, Written
      <4>4. QED
        BY <3>1, <3>2, <4>1, <4>2, <4>3
    <3>3. CASE p # r
      <4>1. ValueAfter(t.log, p, n) = ValueAfter(s.log, p, n)
        BY <1>0, <3>3
      <4>2. QED
        BY <1>8, <2>1, <3>1, <3>3, <4>1
    <3>4. QED
      BY <3>2, <3>3
  <2>2. QED
    BY <2>1 DEF AsWritten
<1>11. NoneStored(t)
  <2>1. ASSUME NEW p \in Ref, NEW n \in Name \ Plain, Declared(t, p)
        PROVE  t.heap[Map(t, p)][n] = Unset
    <3>1. s.heap[Map(s, p)][n] = Unset
      BY <1>6, <2>1 DEF StateInv, NoneStored
    <3>2. CASE p = r
      <4>1. new[n] = s.heap[m][n]
        BY DEF Overridden
      <4>2. QED
        BY <1>8, <3>1, <3>2, <4>1
    <3>3. CASE p # r
      BY <1>8, <2>1, <3>1, <3>3
    <3>4. QED
      BY <3>2, <3>3
  <2>2. QED
    BY <2>1 DEF NoneStored
<1>12. Wired(t)
  BY <1>1, <1>2, StaysWired DEF StateInv
<1>13. Listed(t)
  BY <1>2, <1>6 DEF StateInv, Listed
<1>14. QED
  BY <1>1, <1>9, <1>10, <1>11, <1>12, <1>13 DEF StateInv

\* A change of other things than maps, attributes and the log.
LEMMA SameMaps ==
  ASSUME NEW s, StateInv(s), NEW t, WellFormed(t), t.heap = s.heap, t.log = s.log,
         t.order = s.order, s.edges \subseteq t.edges, \A r \in Ref : Map(t, r) = Map(s, r)
  PROVE  StateInv(t)
<1>1. \A r \in Ref : Declared(t, r) <=> Declared(s, r)
  BY DEF Declared, Map
<1>2. Unshared(t)
  BY DEF StateInv, Unshared
<1>3. AsWritten(t)
  <2>1. ASSUME NEW r \in Native, NEW n \in Plain, Declared(t, r)
        PROVE  t.heap[Map(t, r)][n] = ValueAfter(t.log, r, n)
    <3>1. r \in Ref
      BY DEF Ref
    <3>2. QED
      BY <1>1, <2>1, <3>1 DEF StateInv, AsWritten
  <2>2. QED
    BY <2>1 DEF AsWritten
<1>4. NoneStored(t)
  BY <1>1 DEF StateInv, NoneStored
<1>5. Wired(t)
  <2>1. Wired(s)
    BY DEF StateInv
  <2>2. QED
    BY <2>1 DEF Wired
<1>6. Listed(t)
  BY <1>1 DEF StateInv, Listed
<1>7. QED
  BY <1>2, <1>3, <1>4, <1>5, <1>6 DEF StateInv

\* Each title of a statement keeps what holds of the state.
LEMMA PerformKeeps ==
  ASSUME NEW s, StateInv(s), NEW r \in Ref, NEW a, a.kind \in Kind
  PROVE  StateInv(Perform(s, r, a))
<1> DEFINE t == Perform(s, r, a)
<1>1. WellFormed(s)
  BY DEF StateInv
<1>2. \/ t = s \/ FailedNow(s, t, r)
      \/ a.kind # "override" /\ DeclaredNow(s, t, r, a)
      \/ a.kind = "override" /\ OverriddenNow(s, t, r, a)
  BY <1>1, Performs
<1> HIDE DEF t
<1>3. ASSUME FailedNow(s, t, r) PROVE StateInv(t)
  <2>1. /\ WellFormed(t) /\ t.heap = s.heap /\ t.log = s.log /\ t.order = s.order
        /\ s.edges \subseteq t.edges
        /\ \A p \in Ref : Map(t, p) = Map(s, p)
    BY <1>3 DEF FailedNow, Map
  <2>2. QED
    BY <2>1, SameMaps
<1>4. StateInv(t)
  BY <1>2, <1>3, DeclaringKeeps, OverridingKeeps
<1>5. QED
  BY <1>4 DEF t

\* So does the whole statement, also when a title fails.
LEMMA EffectKeeps ==
  ASSUME StateInv(State), NEW titles \in Seq(Ref), NEW a, a.kind \in Kind
  PROVE  StateInv(Effect(titles, a))
<1>1. PICK f : /\ f[0] = State
               /\ \A k \in 1..Len(titles) : f[k] = Perform(f[k - 1], titles[k], a)
               /\ Effect(titles, a) = f[Len(titles)]
  BY EffectIs
<1> DEFINE Fine == {k \in 0..Len(titles) : StateInv(f[k])}
<1>2. 0 \in Fine
  BY <1>1
<1>3. ASSUME NEW k \in 0..(Len(titles) - 1), k \in Fine PROVE k + 1 \in Fine
  <2>1. k + 1 \in 1..Len(titles) /\ (k + 1) - 1 = k /\ titles[k + 1] \in Ref
    OBVIOUS
  <2>2. f[k + 1] = Perform(f[k], titles[k + 1], a)
    BY <1>1, <2>1
  <2>3. StateInv(Perform(f[k], titles[k + 1], a))
    BY <1>3, <2>1, PerformKeeps
  <2>4. QED
    BY <2>1, <2>2, <2>3
<1>4. Len(titles) \in Fine
  <2> HIDE DEF Fine
  <2>1. 0..Len(titles) \subseteq Fine
    BY SMTT(60), <1>2, <1>3, UpTo
  <2>2. QED
    BY <2>1
<1>5. QED
  BY <1>1, <1>4

-----------------------------------------------------------------------------
(* The invariant *)

IInv == StateInv(State)

\* Nothing is declared at first.
LEMMA IInvInit == Init => IInv
<1> SUFFICES ASSUME Init PROVE IInv
  OBVIOUS
<1>1. State = [heap |-> << >>, res |-> res, order |-> << >>, edges |-> {}, log |-> << >>,
               err |-> FALSE]
  BY DEF Init, State
<1>2. res = [r \in Ref |-> [map |-> 0, tags |-> << >>, form |-> "regular"]]
  BY DEF Init
<1>3. \A r \in Ref : Map(State, r) = 0 /\ ~Declared(State, r)
  BY <1>1, <1>2 DEF Map, Declared
<1>4. Sequence(<< >>)
  <2>1. << >> \in Seq({})
    OBVIOUS
  <2>2. QED
    BY <2>1 DEF Sequence
<1>5. WellFormed(State)
  BY <1>1, <1>2, <1>3, <1>4 DEF WellFormed, Map
<1>6. Unshared(State) /\ AsWritten(State) /\ NoneStored(State) /\ Wired(State) /\ Listed(State)
  <2>1. Native \subseteq Ref
    BY DEF Ref
  <2>2. Unshared(State) /\ AsWritten(State) /\ NoneStored(State)
    BY <1>3, <2>1 DEF Unshared, AsWritten, NoneStored
  <2>3. Wired(State)
    BY <1>1 DEF Wired
  <2>4. Listed(State)
    <3>1. \A k \in 1..Len(State.order) : FALSE
      BY <1>1
    <3>2. QED
      BY <1>3, <3>1 DEF Listed
  <2>5. QED
    BY <2>2, <2>3, <2>4
<1>7. QED
  BY <1>5, <1>6 DEF IInv, StateInv

\* The state a statement leaves, failed or not.
LEMMA BecomesKeeps ==
  ASSUME NEW s, StateInv(s), Becomes(s)
  PROVE  IInv'
<1> DEFINE t == [heap |-> s.heap, res |-> s.res, order |-> s.order, edges |-> s.edges,
                 log |-> s.log, err |-> FALSE]
<1>1. State' = t
  BY DEF Becomes, State
<1>2. WellFormed(t)
  BY DEF StateInv, WellFormed, Map
<1>3. \A r \in Ref : Map(t, r) = Map(s, r)
  BY DEF Map
<1>4. t.heap = s.heap /\ t.log = s.log /\ t.order = s.order /\ s.edges \subseteq t.edges
  OBVIOUS
<1> HIDE DEF t
<1>5. StateInv(t)
  BY <1>2, <1>3, <1>4, SameMaps
<1>6. QED
  BY <1>1, <1>5 DEF IInv

\* Statements name resources.
LEMMA ListsAreRefs == \A titles \in Lists : titles \in Seq(Ref)
BY AttributesAssumption DEF Ref

\* A collector changes forms only.
LEMMA CollectorKeeps ==
  ASSUME IInv, NEW q, NEW form, EvalCollector(q, form)
  PROVE  IInv'
<1>1. WellFormed(State)
  BY DEF IInv, StateInv
<1>2. State' = [heap |-> heap, res |-> res', order |-> order, edges |-> edges, log |-> log,
                err |-> FALSE]
  BY DEF EvalCollector, State
<1>3. /\ State.heap = heap /\ State.res = res /\ State.edges = edges /\ State.log = log
      /\ State.order = order
      /\ \A r \in Ref : Map(State, r) = res[r].map
  BY DEF State, Map
<1>4. res = [r \in Ref |-> [map |-> res[r].map, tags |-> res[r].tags, form |-> res[r].form]]
  BY <1>1, <1>3 DEF WellFormed
<1>5. res' = [r \in Ref |-> IF r \in Realized(q, form)
                            THEN [res[r] EXCEPT !.form = "regular"] ELSE res[r]]
  BY DEF EvalCollector
<1>6. ASSUME NEW r \in Ref
      PROVE  /\ res'[r].map = res[r].map
             /\ res'[r] = [map |-> res'[r].map, tags |-> res'[r].tags, form |-> res'[r].form]
  <2>1. res[r] = [map |-> res[r].map, tags |-> res[r].tags, form |-> res[r].form]
    BY <1>4
  <2>2. res'[r] = IF r \in Realized(q, form) THEN [res[r] EXCEPT !.form = "regular"] ELSE res[r]
    BY <1>5
  <2>3. [res[r] EXCEPT !.form = "regular"]
          = [map |-> res[r].map, tags |-> res[r].tags, form |-> "regular"]
    BY <2>1
  <2>4. QED
    BY <2>1, <2>2, <2>3
<1>7. res' = [r \in Ref |-> [map |-> res'[r].map, tags |-> res'[r].tags, form |-> res'[r].form]]
  BY <1>5, <1>6
<1>8. \A r \in Ref : Map(State', r) = Map(State, r)
  BY <1>2, <1>3, <1>6 DEF Map
<1>9. WellFormed(State')
  BY <1>1, <1>2, <1>3, <1>7, <1>8 DEF WellFormed, Map
<1>10. /\ State'.heap = State.heap /\ State'.log = State.log /\ State'.order = State.order
       /\ State.edges \subseteq State'.edges
  BY <1>2, <1>3
<1>11. StateInv(State)
  BY DEF IInv
<1>12. StateInv(State')
  BY <1>8, <1>9, <1>10, <1>11, SameMaps
<1>13. QED
  BY <1>12 DEF IInv

\* Every statement keeps the invariant.
LEMMA IInvNext == IInv /\ [Next]_vars => IInv'
<1> SUFFICES ASSUME IInv, [Next]_vars PROVE IInv'
  OBVIOUS
<1>0. StateInv(State)
  BY DEF IInv
<1>1. ASSUME NEW titles \in Seq(Ref), NEW kind \in Kind, NEW attrs, NEW dflt, NEW form, NEW appends,
             Becomes(Effect(titles, Asked(kind, attrs, dflt, form, appends)))
      PROVE  IInv'
  <2> DEFINE a == Asked(kind, attrs, dflt, form, appends)
  <2>1. a.kind \in Kind
    BY DEF Asked
  <2> HIDE DEF a
  <2>2. StateInv(Effect(titles, a))
    BY <1>0, <2>1, EffectKeeps
  <2>3. Becomes(Effect(titles, a))
    BY <1>1 DEF a
  <2>4. QED
    BY <2>2, <2>3, BecomesKeeps
<1>2. "declare" \in Kind /\ "ensure" \in Kind /\ "override" \in Kind
  BY DEF Kind
<1>3. ASSUME NEW titles \in Lists, NEW ops, NEW dflt, NEW form, EvalResource(titles, ops, dflt, form)
      PROVE  IInv'
  BY <1>1, <1>2, <1>3, ListsAreRefs DEF EvalResource
<1>4. ASSUME NEW titles \in Lists, NEW h, NEW dflt, CreateResources(titles, h, dflt)
      PROVE  IInv'
  BY <1>1, <1>2, <1>4, ListsAreRefs DEF CreateResources
<1>5. ASSUME NEW titles \in Lists, NEW h, NEW dflt, EnsureResources(titles, h, dflt)
      PROVE  IInv'
  BY <1>1, <1>2, <1>5, ListsAreRefs DEF EnsureResources
<1>6. ASSUME NEW r \in Native, NEW h, NEW dflt, EnsurePackage(r, h, dflt)
      PROVE  IInv'
  <2>1. <<r>> \in Seq(Ref)
    BY DEF Ref
  <2>2. QED
    BY <1>1, <1>2, <1>6, <2>1 DEF EnsurePackage
<1>7. ASSUME NEW refs \in Lists, NEW ops, EvalResourceOverride(refs, ops)
      PROVE  IInv'
  BY <1>1, <1>2, <1>7, ListsAreRefs DEF EvalResourceOverride
<1>8. ASSUME UNCHANGED vars PROVE IInv'
  <2>1. State' = State
    BY <1>8 DEF vars, State
  <2>2. QED
    BY <2>1 DEF IInv
<1>9. QED
  BY <1>3, <1>4, <1>5, <1>6, <1>7, <1>8, CollectorKeeps DEF Next

\* Resources never share a parameter map, and what their maps hold is what was written to
\* them (declareResource, applyOverride).
THEOREM IInvariant == Spec => []IInv
<1>1. QED
  BY IInvInit, IInvNext, PTL DEF Spec

-----------------------------------------------------------------------------
(* What follows *)

\* Each attribute of each resource is what its declaration and the overrides that name it
\* wrote, in order; resources declared together do not change together (assignParams, applyOverride).
THEOREM AttributesHold == Spec => []AttributesAsWritten
<1>1. ASSUME IInv PROVE AttributesAsWritten
  <2>1. ASSUME NEW r \in InCatalog \cap Native, NEW n \in Plain
        PROVE  heap[res[r].map][n] = ValueAfter(log, r, n)
    <3>1. r \in Native /\ Declared(State, r)
      BY DEF InCatalog, Declared, State
    <3>2. State.heap[Map(State, r)][n] = ValueAfter(State.log, r, n)
      BY <1>1, <3>1 DEF IInv, StateInv, AsWritten
    <3>3. QED
      BY <3>2 DEF State, Map
  <2>2. QED
    BY <2>1 DEF AttributesAsWritten
<1>2. IInv => AttributesAsWritten
  BY <1>1
<1>3. QED
  BY <1>2, IInvariant, PTL

\* Tags and relationships are never stored as parameters, and the relationships a resource
\* is declared with are edges, whichever statement or function declares it (assignParams).
THEOREM Metaparams == Spec => []MetaparamsWired
<1>1. ASSUME IInv PROVE MetaparamsWired
  <2>1. ASSUME NEW r \in InCatalog, NEW n \in Name \ Plain
        PROVE  heap[res[r].map][n] = Unset
    <3>1. r \in Ref /\ Declared(State, r)
      BY DEF InCatalog, Declared, State
    <3>2. State.heap[Map(State, r)][n] = Unset
      BY <1>1, <3>1 DEF IInv, StateInv, NoneStored
    <3>3. QED
      BY <3>2 DEF State, Map
  <2>2. Wired(State)
    BY <1>1 DEF IInv, StateInv
  <2>3. State.log = log /\ State.edges = edges
    BY DEF State
  <2>4. QED
    BY <2>1, <2>2, <2>3 DEF MetaparamsWired, Wired
<1>2. IInv => MetaparamsWired
  BY <1>1
<1>3. QED
  BY <1>2, IInvariant, PTL

-----------------------------------------------------------------------------
(* Ensuring resources *)

\* s is State with more resources, those of T that were not declared, and their edges.
Extended(s, T) ==
  /\ WellFormed(s)
  /\ \A r \in InCatalog : s.res[r] = res[r] /\ s.heap[res[r].map] = heap[res[r].map]
  /\ \A e \in s.edges \ edges : {e[1], e[2]} \cap (T \ InCatalog) # {}

\* An edge of a metaparameter has the resource at one of its ends.
LEMMA EdgesTouch ==
  ASSUME NEW r, NEW params, NEW e \in MetaEdges(r, params)
  PROVE  r \in {e[1], e[2]}
<1>1. PICK n \in Name \cap DOMAIN Metaparam :
        e \in IF Metaparam[n] = "forward" THEN {r} \X CollectRefs(params[n])
                                          ELSE CollectRefs(params[n]) \X {r}
  BY DEF MetaEdges
<1>2. QED
  BY <1>1

\* A function that ensures leaves what is declared and declares what is not.
LEMMA Ensures ==
  ASSUME NEW s, WellFormed(s), NEW r \in Ref, NEW a, a.kind = "ensure"
  PROVE  LET t == Perform(s, r, a) IN t = s \/ DeclaredNow(s, t, r, a)
<1>1. CASE s.err \/ Declared(s, r)
  BY <1>1 DEF Perform, EnsureResource
<1>2. CASE ~s.err /\ ~Declared(s, r)
  <2>1. Perform(s, r, a) = DeclareResource(s, r, a)
    BY <1>2 DEF Perform, EnsureResource
  <2>2. QED
    BY <1>2, <2>1, Declares
<1>3. QED
  BY <1>1, <1>2

\* It adds to the state, title by title.
LEMMA EnsuringExtends ==
  ASSUME IInv, NEW T, NEW s, Extended(s, T), NEW r \in Ref, r \in T, NEW a, a.kind = "ensure"
  PROVE  Extended(Perform(s, r, a), T)
<1> DEFINE t == Perform(s, r, a)
           wires == IF r \in Native THEN MetaEdges(r, ApplyDefaults(a.attrs, a.dflt)) ELSE {}
<1>1. WellFormed(s)
  BY DEF Extended
<1>2. t = s \/ DeclaredNow(s, t, r, a)
  BY <1>1, Ensures
<1> HIDE DEF t
<1>3. ASSUME DeclaredNow(s, t, r, a) PROVE Extended(t, T)
  <2> DEFINE stored == IF r \in Native THEN Stored(ApplyDefaults(a.attrs, a.dflt)) ELSE NoAttrs
  <2>1. /\ WellFormed(t) /\ ~Declared(s, r) /\ t.heap = Append(s.heap, stored)
        /\ \A p \in Ref \ {r} : t.res[p] = s.res[p]
        /\ t.edges = s.edges \cup wires
    BY <1>3 DEF DeclaredNow
  <2>2. \A p \in InCatalog : p \in Ref /\ p # r /\ res[p].map \in 1..Len(s.heap)
    <3>1. ASSUME NEW p \in InCatalog
          PROVE  p \in Ref /\ p # r /\ res[p].map \in 1..Len(s.heap)
      <4>1. p \in Ref /\ res[p].map # 0 /\ s.res[p] = res[p]
        BY DEF InCatalog, Extended
      <4>2. Declared(s, p) /\ Map(s, p) = res[p].map
        BY <4>1 DEF Declared, Map
      <4>3. QED
        BY <1>1, <2>1, <4>1, <4>2, Placed
    <3>2. QED
      BY <3>1
  <2>3. r \notin InCatalog
    BY <2>2
  <2>4. \A k \in 1..Len(s.heap) : t.heap[k] = s.heap[k]
    <3>1. Sequence(s.heap)
      BY <1>1 DEF WellFormed
    <3> HIDE DEF stored
    <3>2. QED
      BY <2>1, <3>1, Appended
  <2>5. \A p \in InCatalog : t.res[p] = res[p] /\ t.heap[res[p].map] = heap[res[p].map]
    BY <2>1, <2>2, <2>4 DEF Extended
  <2>6. ASSUME NEW e \in t.edges \ edges PROVE {e[1], e[2]} \cap (T \ InCatalog) # {}
    <3>1. CASE e \in s.edges
      BY <2>6, <3>1 DEF Extended
    <3>2. CASE e \in wires
      <4>1. r \in {e[1], e[2]}
        BY <3>2, EdgesTouch
      <4>2. QED
        BY <2>3, <4>1
    <3>3. QED
      BY <2>1, <3>1, <3>2
  <2>7. QED
    BY <2>1, <2>5, <2>6 DEF Extended
<1>4. Extended(t, T)
  BY <1>2, <1>3
<1>5. QED
  BY <1>4 DEF t

\* And in all.
LEMMA EffectExtends ==
  ASSUME IInv, NEW titles \in Seq(Ref), NEW a, a.kind = "ensure"
  PROVE  Extended(Effect(titles, a), Range(titles))
<1> DEFINE T == Range(titles)
<1>0. \A k \in 1..Len(titles) : titles[k] \in T /\ titles[k] \in Ref
  BY DEF Range
<1>1. PICK f : /\ f[0] = State
               /\ \A k \in 1..Len(titles) : f[k] = Perform(f[k - 1], titles[k], a)
               /\ Effect(titles, a) = f[Len(titles)]
  BY EffectIs
<1> HIDE DEF T
<1> DEFINE Fine == {k \in 0..Len(titles) : Extended(f[k], T)}
<1>2. 0 \in Fine
  <2>1. WellFormed(State)
    BY DEF IInv, StateInv
  <2>2. State.res = res /\ State.heap = heap /\ State.edges = edges
    BY DEF State
  <2>3. Extended(State, T)
    BY <2>1, <2>2 DEF Extended
  <2>4. QED
    BY <1>1, <2>3
<1>3. ASSUME NEW k \in 0..(Len(titles) - 1), k \in Fine PROVE k + 1 \in Fine
  <2>1. k + 1 \in 1..Len(titles) /\ (k + 1) - 1 = k
    OBVIOUS
  <2>2. f[k + 1] = Perform(f[k], titles[k + 1], a)
    BY <1>1, <2>1
  <2>3. Extended(Perform(f[k], titles[k + 1], a), T)
    BY <1>0, <1>3, <2>1, EnsuringExtends
  <2>4. QED
    BY <2>1, <2>2, <2>3
<1>4. Len(titles) \in Fine
  <2> HIDE DEF Fine
  <2>1. 0..Len(titles) \subseteq Fine
    BY <1>2, <1>3, UpTo
  <2>2. QED
    BY <2>1
<1>5. QED
  BY <1>1, <1>4 DEF T

\* Ensuring resources changes nothing about those that are there: neither their attributes
\* nor their form, nor edges between them (builtinEnsureResource, builtinEnsureResources).
THEOREM EnsuringKeeps == Spec => EnsureKeeps
<1>1. ASSUME IInv, NEW titles \in Lists, NEW h \in Hashes, NEW dflt \in Defaults,
             EnsureResources(titles, h, dflt)
      PROVE  /\ \A r \in InCatalog : res'[r] = res[r] /\ heap'[res[r].map] = heap[res[r].map]
             /\ \A e \in edges' \ edges :
                  {e[1], e[2]} \cap (Range(titles) \ InCatalog) # {}
  <2> DEFINE a == Asked("ensure", h, dflt, "regular", {})
             s == Effect(titles, a)
  <2>1. titles \in Seq(Ref) /\ a.kind = "ensure"
    BY ListsAreRefs DEF Asked
  <2> HIDE DEF a
  <2>2. Extended(s, Range(titles))
    BY <1>1, <2>1, EffectExtends
  <2>3. heap' = s.heap /\ res' = s.res /\ edges' = s.edges
    BY <1>1 DEF EnsureResources, Becomes, a
  <2> HIDE DEF s
  <2>4. QED
    BY <2>2, <2>3 DEF Extended
<1>2. IInv => [\A titles \in Lists, h \in Hashes, dflt \in Defaults :
                 EnsureResources(titles, h, dflt) =>
                   /\ \A r \in InCatalog : res'[r] = res[r] /\ heap'[res[r].map] = heap[res[r].map]
                   /\ \A e \in edges' \ edges :
                        {e[1], e[2]} \cap (Range(titles) \ InCatalog) # {}]_vars
  BY <1>1
<1>3. QED
  BY <1>2, IInvariant, PTL DEF EnsureKeeps

-----------------------------------------------------------------------------
(* Collectors *)

\* What each of the first m parts of a query is for r.
Matches(q, r, m, f) == f = [k \in 1..m |-> MatchPart(q[k], f, r)]

\* A part depends on the parts before it only.
LEMMA PartsBefore ==
  ASSUME NEW q, IsQuery(q), NEW k \in 1..Len(q), NEW r, NEW f, NEW g,
         \A l \in 1..(k - 1) : f[l] = g[l]
  PROVE  MatchPart(q[k], f, r) = MatchPart(q[k], g, r)
<1> DEFINE p == q[k]
<1>1. /\ p[1] \in {"==", "!=", "and", "or", "all", "bad"}
      /\ p[1] \in {"and", "or"} => f[p[2]] = g[p[2]] /\ f[p[3]] = g[p[3]]
  BY DEF IsQuery
<1> HIDE DEF p
<1>2. MatchPart(p, f, r) = MatchPart(p, g, r)
  BY <1>1 DEF MatchPart
<1>3. QED
  BY <1>2 DEF p

\* The recursion over the parts of a query has a solution.
LEMMA MatchesExist ==
  ASSUME NEW q, IsQuery(q), NEW r
  PROVE  \E f : Matches(q, r, Len(q), f)
<1> DEFINE n == Len(q)
           Those == {m \in 0..n : \E f : Matches(q, r, m, f)}
<1>0. n \in Nat
  BY DEF IsQuery
<1>1. 0 \in Those
  <2>1. Matches(q, r, 0, [k \in 1..0 |-> "no"])
    BY DEF Matches
  <2>2. QED
    BY <1>0, <2>1
<1>2. ASSUME NEW m \in 0..(n - 1), m \in Those PROVE m + 1 \in Those
  <2>1. PICK f : Matches(q, r, m, f)
    BY <1>2
  <2>2. \A k \in 1..m : f[k] = MatchPart(q[k], f, r)
    BY <2>1 DEF Matches
  <2> DEFINE last == MatchPart(q[m + 1], f, r)
             g == [k \in 1..(m + 1) |-> IF k = m + 1 THEN last ELSE f[k]]
  <2>3. /\ g = [k \in 1..(m + 1) |-> g[k]]
        /\ g[m + 1] = last /\ \A k \in 1..m : g[k] = f[k]
    OBVIOUS
  <2> HIDE DEF g
  <2>4. ASSUME NEW k \in 1..(m + 1) PROVE g[k] = MatchPart(q[k], g, r)
    <3>1. k \in 1..n /\ \A l \in 1..(k - 1) : f[l] = g[l]
      <4> HIDE DEF n
      <4>1. k \in 1..n /\ \A l \in 1..(k - 1) : l \in 1..m
        BY <1>0
      <4>2. QED
        BY <2>3, <4>1
    <3>2. MatchPart(q[k], f, r) = MatchPart(q[k], g, r)
      <4> HIDE DEF n
      <4>1. k \in 1..Len(q) /\ \A l \in 1..(k - 1) : f[l] = g[l]
        BY <3>1 DEF n
      <4>2. QED
        BY <4>1, PartsBefore
    <3>3. CASE k = m + 1
      BY <2>3, <3>2, <3>3
    <3>4. CASE k # m + 1
      <4>1. k \in 1..m
        BY <3>4
      <4>2. QED
        BY <2>2, <2>3, <3>2, <4>1
    <3>5. QED
      BY <3>3, <3>4
  <2>5. g = [k \in 1..(m + 1) |-> MatchPart(q[k], g, r)]
    BY <2>3, <2>4
  <2>6. QED
    BY <1>0, <2>5 DEF Matches
<1>3. n \in Those
  <2> HIDE DEF Those, n
  <2>1. 0..n \subseteq Those
    BY <1>0, <1>1, <1>2, UpTo
  <2>2. QED
    BY <1>0, <2>1
<1>4. QED
  BY <1>3

LEMMA MatchIs ==
  ASSUME NEW q, IsQuery(q), NEW r
  PROVE  \E f : /\ \A k \in 1..Len(q) : f[k] = MatchPart(q[k], f, r)
                /\ MatchQuery(q, r) = f[Len(q)]
<1> DEFINE match[k \in 1..Len(q)] == MatchPart(q[k], match, r)
<1>1. \E f : f = [k \in 1..Len(q) |-> MatchPart(q[k], f, r)]
  <2>1. PICK f : Matches(q, r, Len(q), f)
    BY MatchesExist
  <2>2. QED
    BY <2>1 DEF Matches
<1>2. match = [k \in 1..Len(q) |-> MatchPart(q[k], match, r)]
  BY <1>1
<1>3. MatchQuery(q, r) = match[Len(q)]
  BY DEF MatchQuery
<1> HIDE DEF match
<1>4. \A k \in 1..Len(q) : match[k] = MatchPart(q[k], match, r)
  BY <1>2
<1>5. QED
  BY <1>3, <1>4

\* A query without errors matches exactly what it means.
LEMMA MatchesMeant ==
  ASSUME NEW q, IsQuery(q), \A k \in 1..Len(q) : q[k][1] # "bad", NEW r
  PROVE  MatchQuery(q, r) = IF Holds(q, r) THEN "yes" ELSE "no"
<1> DEFINE n == Len(q)
<1>0. n \in Nat /\ n # 0 /\ n \in 1..n
  BY DEF IsQuery
<1>1. PICK f : /\ \A k \in 1..n : f[k] = MatchPart(q[k], f, r)
               /\ MatchQuery(q, r) = f[n]
  BY MatchIs
<1>2. ASSUME NEW k \in 1..n
      PROVE  /\ q[k][1] \in {"==", "!=", "and", "or", "all"}
             /\ q[k][1] \in {"and", "or"} => q[k][2] \in 1..(k - 1) /\ q[k][3] \in 1..(k - 1)
  BY DEF IsQuery
<1> HIDE DEF n
\* Any valuation by which the parts mean what they should agrees with the match.
<1> DEFINE Means(truth) == \A k \in 1..n : truth[k] = Meaning(q[k], truth, r)
           Agrees(truth, k) == f[k] = IF truth[k] THEN "yes" ELSE "no"
<1>3. ASSUME NEW truth \in [1..n -> BOOLEAN], NEW k \in 1..n, truth[k] = Meaning(q[k], truth, r),
             \A l \in 1..(k - 1) : Agrees(truth, l)
      PROVE  Agrees(truth, k)
  <2> DEFINE p == q[k]
  <2>1. f[k] = MatchPart(p, f, r) /\ truth[k] = Meaning(p, truth, r)
    BY <1>1, <1>3
  <2>2. /\ p[1] \in {"==", "!=", "and", "or", "all"}
        /\ p[1] \in {"and", "or"} => /\ p[2] \in 1..n /\ p[3] \in 1..n
                                     /\ Agrees(truth, p[2]) /\ Agrees(truth, p[3])
    BY <1>0, <1>2, <1>3
  <2> HIDE DEF p
  <2>3. CASE p[1] \in {"==", "!=", "all"}
    BY <2>1, <2>3 DEF MatchPart, Meaning
  <2>4. CASE p[1] = "and"
    <3>1. f[k] = IF f[p[2]] # "yes" THEN f[p[2]] ELSE f[p[3]]
      BY <2>1, <2>4 DEF MatchPart
    <3>2. truth[k] = (truth[p[2]] /\ truth[p[3]])
      BY <2>1, <2>4 DEF Meaning
    <3>3. QED
      BY <2>2, <2>4, <3>1, <3>2
  <2>5. CASE p[1] = "or"
    <3>1. f[k] = IF f[p[2]] # "no" THEN f[p[2]] ELSE f[p[3]]
      BY <2>1, <2>5 DEF MatchPart
    <3>2. truth[k] = (truth[p[2]] \/ truth[p[3]])
      BY <2>1, <2>5 DEF Meaning
    <3>3. QED
      BY <2>2, <2>5, <3>1, <3>2
  <2>6. QED
    BY <2>2, <2>3, <2>4, <2>5
<1>4. ASSUME NEW truth \in [1..n -> BOOLEAN], Means(truth)
      PROVE  f[n] = IF truth[n] THEN "yes" ELSE "no"
  <2> DEFINE Upto == {k \in 0..n : \A l \in 1..k : Agrees(truth, l)}
  <2>1. 0 \in Upto
    BY <1>0
  <2>2. ASSUME NEW k \in 0..(n - 1), k \in Upto PROVE k + 1 \in Upto
    <3> HIDE DEF Agrees
    <3>1. k + 1 \in 1..n /\ (k + 1) - 1 = k /\ truth[k + 1] = Meaning(q[k + 1], truth, r)
      BY <1>0, <1>4
    <3>2. \A l \in 1..((k + 1) - 1) : Agrees(truth, l)
      BY <2>2, <3>1
    <3>3. Agrees(truth, k + 1)
      BY <1>3, <3>1, <3>2
    <3>4. QED
      BY <1>0, <2>2, <3>1, <3>3
  <2>3. n \in Upto
    <3> HIDE DEF Upto
    <3>1. 0..n \subseteq Upto
      BY <1>0, <2>1, <2>2, UpTo
    <3>2. QED
      BY <1>0, <3>1
  <2>4. QED
    BY <1>0, <2>3
\* There is one.
<1>5. PICK truth \in [1..n -> BOOLEAN] : Means(truth)
  <2> DEFINE yes == [k \in 1..n |-> f[k] = "yes"]
             Upto == {k \in 0..n : \A l \in 1..k : /\ f[l] \in {"yes", "no"}
                                                   /\ yes[l] = Meaning(q[l], yes, r)}
  <2>0. yes \in [1..n -> BOOLEAN] /\ \A k \in 1..n : yes[k] = (f[k] = "yes")
    OBVIOUS
  <2> HIDE DEF yes
  <2>1. 0 \in Upto
    BY <1>0
  <2>2. ASSUME NEW k \in 0..(n - 1), k \in Upto PROVE k + 1 \in Upto
    <3> DEFINE p == q[k + 1]
    <3>1. k + 1 \in 1..n /\ f[k + 1] = MatchPart(p, f, r)
      BY <1>0, <1>1
    <3>2. /\ p[1] \in {"==", "!=", "and", "or", "all"}
          /\ p[1] \in {"and", "or"} => /\ p[2] \in 1..n /\ p[3] \in 1..n
                                       /\ f[p[2]] \in {"yes", "no"} /\ f[p[3]] \in {"yes", "no"}
      BY <1>0, <1>2, <2>2, <3>1
    <3> HIDE DEF p
    <3>3. f[k + 1] \in {"yes", "no"} /\ (f[k + 1] = "yes") = Meaning(p, yes, r)
      <4>1. CASE p[1] \in {"==", "!=", "all"}
        <5>1. QueryFieldEquals(p[2], p[3], r) \in BOOLEAN
          BY DEF QueryFieldEquals
        <5>2. CASE p[1] = "all"
          BY <3>1, <5>2 DEF MatchPart, Meaning
        <5>3. CASE p[1] = "=="
          BY <3>1, <5>1, <5>3 DEF MatchPart, Meaning
        <5>4. CASE p[1] = "!="
          BY <3>1, <5>1, <5>4 DEF MatchPart, Meaning
        <5>5. QED
          BY <4>1, <5>2, <5>3, <5>4
      <4>2. CASE p[1] = "and"
        <5>1. f[k + 1] = IF f[p[2]] # "yes" THEN f[p[2]] ELSE f[p[3]]
          BY <3>1, <4>2 DEF MatchPart
        <5>2. Meaning(p, yes, r) = (yes[p[2]] /\ yes[p[3]])
          BY <4>2 DEF Meaning
        <5>3. QED
          BY <2>0, <3>2, <4>2, <5>1, <5>2
      <4>3. CASE p[1] = "or"
        <5>1. f[k + 1] = IF f[p[2]] # "no" THEN f[p[2]] ELSE f[p[3]]
          BY <3>1, <4>3 DEF MatchPart
        <5>2. Meaning(p, yes, r) = (yes[p[2]] \/ yes[p[3]])
          BY <4>3 DEF Meaning
        <5>3. QED
          BY <2>0, <3>2, <4>3, <5>1, <5>2
      <4>4. QED
        BY <3>2, <4>1, <4>2, <4>3
    <3>4. yes[k + 1] = Meaning(q[k + 1], yes, r) /\ f[k + 1] \in {"yes", "no"}
      BY <2>0, <3>1, <3>3 DEF p
    <3>5. QED
      BY <1>0, <2>2, <3>1, <3>4
  <2>3. n \in Upto
    <3> HIDE DEF Upto
    <3>1. 0..n \subseteq Upto
      BY <1>0, <2>1, <2>2, UpTo
    <3>2. QED
      BY <1>0, <3>1
  <2>4. Means(yes)
    BY <2>3
  <2>5. QED
    BY <2>0, <2>4
<1>6. CASE Holds(q, r)
  <2>1. PICK t \in [1..n -> BOOLEAN] : Means(t) /\ t[n]
    BY <1>6 DEF Holds, n
  <2>2. f[n] = "yes"
    BY <1>4, <2>1
  <2>3. QED
    BY <1>1, <1>6, <2>2
<1>7. CASE ~Holds(q, r)
  <2>1. ~truth[n]
    BY <1>5, <1>7 DEF Holds, n
  <2>2. f[n] = "no"
    BY <1>4, <1>5, <2>1
  <2>3. QED
    BY <1>1, <1>7, <2>2
<1>8. QED
  BY <1>6, <1>7

\* Of the resources in the catalog, a query without errors realizes those of its form it
\* holds of.
LEMMA RealizesMeant ==
  ASSUME IInv, NEW q, IsQuery(q), \A k \in 1..Len(q) : q[k][1] # "bad", NEW form, NEW r \in InCatalog
  PROVE  r \in Realized(q, form) <=> res[r].form = form /\ Holds(q, r)
<1> DEFINE candidate == {i \in 1..Len(order) : res[order[i]].form = form}
           reached == {i \in candidate :
                        \A j \in candidate : j <= i => MatchQuery(q, order[j]) # "error"}
<1>1. \A p : MatchQuery(q, p) = IF Holds(q, p) THEN "yes" ELSE "no"
  BY MatchesMeant
<1>2. reached = candidate
  BY <1>1
<1>3. Realized(q, form) = {order[i] : i \in {j \in candidate : Holds(q, order[j])}}
  <2>1. Realized(q, form) = {order[i] : i \in {j \in reached : MatchQuery(q, order[j]) = "yes"}}
    BY DEF Realized
  <2> HIDE DEF reached, candidate
  <2>2. \A p : MatchQuery(q, p) = "yes" <=> Holds(q, p)
    BY <1>1
  <2>3. QED
    BY <1>2, <2>1, <2>2
<1>4. \E i \in 1..Len(order) : order[i] = r
  <2>1. r \in Ref /\ Declared(State, r) /\ State.order = order
    BY DEF InCatalog, Declared, State
  <2>2. QED
    BY <2>1 DEF IInv, StateInv, Listed
<1>5. QED
  BY <1>3, <1>4

\* A collector realizes exactly the resources of its form that its query holds of, by the
\* Boolean meaning of the query, however deep (evalCollector, matchQuery).
THEOREM CollectorsMatch == Spec => CollectsMatching
<1>1. ASSUME IInv, NEW q \in Queries, NEW form \in Form \ {"regular"}, EvalCollector(q, form),
             \A k \in 1..Len(q) : q[k][1] # "bad", NEW r \in InCatalog
      PROVE  res'[r].form = IF res[r].form = form /\ Holds(q, r) THEN "regular" ELSE res[r].form
  <2>1. r \in Realized(q, form) <=> res[r].form = form /\ Holds(q, r)
    BY <1>1, AttributesAssumption, RealizesMeant
  <2>2. r \in Ref
    BY DEF InCatalog
  <2>3. res'[r] = IF r \in Realized(q, form) THEN [res[r] EXCEPT !.form = "regular"] ELSE res[r]
    BY <1>1, <2>2 DEF EvalCollector
  <2>4. res[r] = [map |-> res[r].map, tags |-> res[r].tags, form |-> res[r].form]
    <3>1. WellFormed(State) /\ State.res = res
      BY <1>1 DEF IInv, StateInv, State
    <3>2. QED
      BY <2>2, <3>1 DEF WellFormed, Map
  <2>5. [res[r] EXCEPT !.form = "regular"].form = "regular"
    BY <2>4
  <2>6. QED
    BY <2>1, <2>3, <2>5
<1>2. IInv => [\A q \in Queries, form \in Form \ {"regular"} :
                 EvalCollector(q, form) /\ (\A k \in 1..Len(q) : q[k][1] # "bad") =>
                   \A r \in InCatalog :
                     res'[r].form = IF res[r].form = form /\ Holds(q, r) THEN "regular"
                                    ELSE res[r].form]_vars
  BY <1>1
<1>3. QED
  BY <1>2, IInvariant, PTL DEF CollectsMatching
=============================================================================
