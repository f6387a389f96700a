-------------------------- MODULE IterationInputs ---------------------------
(* The collections LibraryMC iterates over, and what it draws at random. *)
EXTENDS Integers

Leaf(v) == <<"leaf", v>>

\* A tree with an empty branch and all that is nested in it.
Branch == <<"node", <<Leaf("b"), Leaf("a")>>>>
Bush == <<"node", <<Leaf("a"), <<"node", << >>>>, Branch>>>>
Trees == {Leaf("a"), Leaf("b"), <<"node", << >>>>, Branch, Bush}

\* Each kind of collection, empty and with up to three elements.
SomeCollections ==
  {<<"int", n>> : n \in -1..3} \cup {<<"arr", << >>>>, <<"arr", <<"a">>>>, <<"arr", <<"a", "b", "c">>>>,
   <<"hash", << >>>>, <<"hash", <<<<"k", "a">>, <<"l", "b">>, <<"m", "a">>>>>>} \cup
  {<<"nested", Leaf("a")>>, <<"nested", Bush>>}

SortArrays == {<<"arr", << >>>>, <<"arr", <<"a">>>>, <<"arr", <<"a", "b", "c">>>>,
               <<"arr", <<"a", "b", "c", "d">>>>}

\* Words drawn, keys shorter and longer than the state, every limit of two words of 2 bits.
RandomAsks ==
  {<<"draw">>} \cup {<<"seed", k>> : k \in UNION {[1..n -> {1, 2}] : n \in 1..7}}
    \cup {<<"rand", max>> : max \in 1..16} \cup {<<f, n>> : f \in {"shuffle", "rotate"}, n \in 0..4}
=============================================================================
