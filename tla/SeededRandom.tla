---------------------------- MODULE SeededRandom ----------------------------
(***************************************************************************)
(* eval/stdlib_random.go: the Mersenne Twister behind the functions with a *)
(* seed, the numbers below a limit drawn from it, and what rotates and     *)
(* shuffles.                                                               *)
(*                                                                         *)
(* A word of the generator is its number in the recurrence that defines    *)
(* the twister, x[k+N] from x[k], x[k+1] and x[k+M]; a word that is none   *)
(* of it is Lost. Tempering takes words to words one to one and is left    *)
(* out. While a generator is seeded, a word is the set of the words of the *)
(* key that went into it. A number is drawn from words of few bits, which  *)
(* may be any.                                                             *)
(***************************************************************************)
EXTENDS Integers, Sequences, FiniteSets

CONSTANTS
  N, M,     \* the words of the state, and the distance in the recurrence
  Base,     \* 2^w for words of w bits
  Asks,     \* what is asked for
  MaxDrawn  \* bound: words drawn from a generator

\* What can be asked: a word of a running generator, a generator for a seed of one word
\* or more, a number below a limit, and n elements to shuffle or to rotate.
Requests ==
  {<<"draw">>} \cup ({"seed"} \X (Seq(Nat) \ {<< >>})) \cup ({"rand"} \X (Nat \ {0}))
    \cup ({"shuffle", "rotate"} \X Nat)

ASSUME RandomAssumption ==
  N \in Nat /\ M \in 1..(N - 1) /\ Base \in Nat \ {0, 1} /\ Asks \subseteq Requests

VARIABLES
  ask,     \* one of Asks
  words,   \* the state of the generator
  pos,     \* the next word of it, or the next place of a shuffle
  got      \* what came out

randomVars == <<ask, words, pos, got>>

Lost == -1
Place == 0..(N - 1)

-----------------------------------------------------------------------------
(* The generator *)

Twist(a, b, c) == IF a # Lost /\ b = a + 1 /\ c = a + M THEN a + N ELSE Lost

\* One word made anew, and the words from one place to another, in this order.
Anew(s, kk, next, ahead) == [s EXCEPT ![kk] = Twist(s[kk], s[next], s[kk + ahead])]
Loop(s, from, to, ahead) ==
  LET f[k \in from..(to + 1)] == IF k = from THEN s ELSE Anew(f[k - 1], k - 1, k, ahead)
  IN f[to + 1]

\* Mutant of Regenerated: the second loop reads one word too far.
RegeneratedAhead(s) ==
  LET first == Loop(s, 0, N - M - 1, M)
      second == Loop(first, N - M, N - 2, M - N + 1)
  IN Anew(second, N - 1, 0, M - N)

Regenerated(s) ==
  LET first == Loop(s, 0, N - M - 1, M)
      second == Loop(first, N - M, N - 2, M - N)
  IN Anew(second, N - 1, 0, M - N)

Genrand ==
  /\ ask[1] = "draw" /\ Len(got) < MaxDrawn
  /\ LET all == pos >= N
         s == IF all THEN Regenerated(words) ELSE words
         p == IF all THEN 0 ELSE pos
     IN words' = s /\ got' = Append(got, s[p]) /\ pos' = p + 1
  /\ UNCHANGED ask

-----------------------------------------------------------------------------
(* Seeding *)

\* A word as the set of the words of the key in it; the first one is mixed in behind, and
\* the last one starts the next round.
Mix(s, i, j) ==
  LET t == [s EXCEPT ![i] = @ \cup s[i - 1] \cup j]
  IN IF i + 1 >= N THEN [t EXCEPT ![0] = t[N - 1]] ELSE t
Following(i) == IF i + 1 >= N THEN 1 ELSE i + 1

\* A seed of one word starts the plain recurrence; the most significant word of a longer
\* one is left out when it is 1, after that choice.
Key(seed) == IF Len(seed) > 1 /\ seed[Len(seed)] = 1 THEN SubSeq(seed, 1, Len(seed) - 1) ELSE seed
PlainSeeding == [p \in Place |-> {1}]

InitByArray(key) ==
  LET rounds == IF Len(key) > N THEN Len(key) ELSE N
      start == [s |-> [p \in Place |-> {}], i |-> 1]
      first[k \in 0..rounds] ==
        IF k = 0 THEN start
        ELSE [s |-> Mix(first[k - 1].s, first[k - 1].i, {((k - 1) % Len(key)) + 1}),
              i |-> Following(first[k - 1].i)]
      second[k \in 0..(N - 1)] ==
        IF k = 0 THEN first[rounds]
        ELSE [s |-> Mix(second[k - 1].s, second[k - 1].i, {}), i |-> Following(second[k - 1].i)]
  IN [second[N - 1].s EXCEPT ![0] = {}]

InitSeeded ==
  /\ ask[1] = "seed" /\ got = << >>
  /\ words' = (IF Len(ask[2]) = 1 THEN PlainSeeding ELSE InitByArray(Key(ask[2])))
  /\ got' = <<"seeded">> /\ pos' = N /\ UNCHANGED ask

-----------------------------------------------------------------------------
(* Numbers below a limit *)

\* The least number of the form 2^k - 1 that is not below n.
MakeMask(n) ==
  CHOOSE m \in {2^k - 1 : k \in 0..n} : m >= n /\ \A k \in 0..n : 2^k - 1 >= n => m <= 2^k - 1

\* What one attempt makes of a high and a low word. The high one is drawn only where the
\* mask has bits.
Attempt(limit, w) ==
  LET mask == MakeMask(limit)
      high == IF mask \div Base # 0 THEN (w[1] % (mask \div Base + 1)) * Base ELSE 0
  IN high + (w[2] % (IF mask >= Base THEN Base ELSE mask + 1))

\* Mutant of Outcome: a value beyond the limit is reduced and not drawn again.
OutcomeReduced(limit, w) == IF limit = 0 THEN {0} ELSE {Attempt(limit, w) % (limit + 1)}

\* The number two words give, or none, when they are drawn again.
Outcome(limit, w) ==
  IF limit = 0 THEN {0} ELSE IF Attempt(limit, w) <= limit THEN {Attempt(limit, w)} ELSE {}

Words == (0..(Base - 1)) \X (0..(Base - 1))

LimitedRand ==
  /\ ask[1] = "rand" /\ got = << >>
  /\ \E w \in Words : \E v \in Outcome(ask[2] - 1, w) : got' = <<v>>
  /\ UNCHANGED <<ask, words, pos>>

-----------------------------------------------------------------------------
(* Rotating and shuffling *)

RotateLeft(s, n) == LET k == n % Len(s) IN SubSeq(s, k + 1, Len(s)) \o SubSeq(s, 1, k)

FqdnRotate ==
  /\ ask[1] = "rotate" /\ pos = 1
  /\ IF Len(got) <= 1 THEN UNCHANGED got
     ELSE \E offset \in 0..(Len(got) - 1) : got' = RotateLeft(got, offset)
  /\ pos' = 2 /\ UNCHANGED <<ask, words>>

\* The places fisherYates may swap place i with.
Partners(i, n) == i..n
Swapped(s, i, j) == [s EXCEPT ![i] = s[j], ![j] = s[i]]

FisherYates ==
  /\ ask[1] = "shuffle" /\ pos <= Len(got)
  /\ \E j \in Partners(pos, Len(got)) : got' = Swapped(got, pos, j)
  /\ pos' = pos + 1 /\ UNCHANGED <<ask, words>>

-----------------------------------------------------------------------------

RandomInit ==
  /\ ask \in Asks
  /\ words = [p \in Place |-> p]
  /\ pos = (IF ask[1] \in {"draw", "seed"} THEN N ELSE 1)
  /\ got = (IF ask[1] \in {"shuffle", "rotate"} THEN [k \in 1..ask[2] |-> k] ELSE << >>)

RandomNext == Genrand \/ InitSeeded \/ LimitedRand \/ FqdnRotate \/ FisherYates

RandomSpec == RandomInit /\ [][RandomNext]_randomVars

-----------------------------------------------------------------------------
(* Properties *)

\* However often the state is made anew in its own place, the words drawn are those of the
\* recurrence, each once and in order (genrand).
WordsInOrder == ask[1] = "draw" => \A k \in DOMAIN got : got[k] = N + k - 1

\* Every word of the key goes into every word of the state but the first, which is fixed,
\* however short or long the key is (initByArray, newMTFromBig). What the mixing makes of
\* it is arithmetic, left out.
SeedMixed ==
  ask[1] = "seed" /\ got # << >> =>
    \A p \in Place \ {0} : words[p] = 1..(IF Len(ask[2]) = 1 THEN 1 ELSE Len(Key(ask[2])))

\* Every number up to the limit comes from equally many pairs of words, and no other does
\* (limitedRand: "a value in [0, limit] using MRI's rejection sampling").
DrawsFair ==
  ask[1] = "rand" =>
    LET Ways(v) == Cardinality({w \in Words : v \in Outcome(ask[2] - 1, w)})
    IN /\ Ways(0) > 0 /\ \A v \in 0..(ask[2] - 1) : Ways(v) = Ways(0)
       /\ got # << >> => got[1] \in 0..(ask[2] - 1)

\* Every order of the elements comes from equally many choices, so none is favoured
\* (fisherYates).
Shuffled(n, choice) ==
  LET f[k \in 0..n] == IF k = 0 THEN [p \in 1..n |-> p] ELSE Swapped(f[k - 1], k, choice[k])
  IN f[n]
ShuffleFair ==
  ask[1] = "shuffle" /\ pos > Len(got) =>
    LET n == Len(got)
        Sequences == {c \in [1..n -> 1..n] : \A k \in 1..n : c[k] \in Partners(k, n)}
        Ways(s) == Cardinality({c \in Sequences : Shuffled(n, c) = s})
    IN Ways(got) > 0 /\ Ways(got) = Ways([p \in 1..n |-> p])

\* Elements keep their neighbours, the last one next to the first (rotateLeft).
RotationKeeps ==
  ask[1] = "rotate" => \A k \in DOMAIN got : got[(k % Len(got)) + 1] = (got[k] % Len(got)) + 1

\* The words of the twister are those of its recurrence, the whole seed goes into them, and
\* rotating keeps neighbours (genrand, initByArray, rotateLeft).
RandomExact == WordsInOrder /\ SeedMixed /\ RotationKeeps

\* Numbers below a limit and orders of a shuffle are equally likely (limitedRand, fisherYates).
ChancesEqual == DrawsFair /\ ShuffleFair

=============================================================================
