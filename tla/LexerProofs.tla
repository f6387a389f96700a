----------------------------- MODULE LexerProofs -----------------------------
(***************************************************************************)
(* Theorems about Lexer. Every step has one of three shapes: it walks on,  *)
(* makes a token of what was read, or opens a heredoc. The invariants are  *)
(* shown shape by shape; what the loops of numbers and of quoted texts     *)
(* keep is shown loop by loop.                                             *)
(***************************************************************************)
EXTENDS Lexer, RecursionLemmas, FiniteSetTheorems

\* The least number of a set of naturals is in it and below the others.
LEMMA MinIs ==
  ASSUME NEW S \in SUBSET Nat, S # {}
  PROVE  Min(S) \in S /\ \A y \in S : Min(S) <= y
<1>1. \E x \in S : \A y \in S : x <= y
  BY LeastElement
<1>2. QED
  BY <1>1 DEF Min

\* The greatest number of a bounded set of naturals is in it and above the others.
LEMMA MaxIs ==
  ASSUME NEW n \in Nat, NEW S \in SUBSET (0..n), S # {}
  PROVE  Max(S) \in S /\ \A y \in S : Max(S) >= y
<1>1. \E x \in S : \A y \in S : y <= x
  BY GreatestElement
<1>2. \E x \in S : \A y \in S : x >= y
  BY <1>1
<1>3. QED
  BY <1>2 DEF Max

\* Find gives the first place from k on that holds a character of S, or the end.
LEMMA Found ==
  ASSUME src \in Seq(STRING), NEW S, NEW k \in 1..(Len(src) + 1)
  PROVE  /\ Find(k, S) \in k..(Len(src) + 1)
         /\ Find(k, S) <= Len(src) => src[Find(k, S)] \in S
         /\ \A j \in k..(Find(k, S) - 1) : src[j] \notin S
<1> DEFINE Hits == {j \in k..Len(src) : src[j] \in S}
           T == Hits \cup {Len(src) + 1}
<1>1. Len(src) \in Nat /\ T \in SUBSET Nat /\ T # {}
  OBVIOUS
<1>2. Find(k, S) = Min(T)
  BY DEF Find
<1>3. Min(T) \in T /\ \A y \in T : Min(T) <= y
  <2> HIDE DEF T
  <2>1. QED
    BY <1>1, MinIs
<1>4. \A j \in k..Len(src) : src[j] \in S => Min(T) <= j
  BY <1>3
<1>5. Min(T) \in k..(Len(src) + 1) /\ (Min(T) <= Len(src) => src[Min(T)] \in S)
  BY <1>1, <1>3
<1>6. QED
  <2> HIDE DEF T
  <2>1. QED
    BY <1>1, <1>2, <1>4, <1>5

\* What is found in a text does not depend on anything but the text.
LEMMA SameText ==
  ASSUME src' = src
  PROVE  /\ \A k, S : Find(k, S)' = Find(k, S)
         /\ \A k, tag : Beyond(k, tag)' = Beyond(k, tag)
<1>1. \A k, S : Find(k, S)' = Find(k, S)
  BY DEF Find
<1>2. \A k : LineAt(k)' = LineAt(k)
  BY <1>1 DEF LineAt
<1>3. \A k : LineStarts(k)' = LineStarts(k)
  BY DEF LineStarts
<1>4. \A k, tag : Beyond(k, tag)' = Beyond(k, tag)
  BY <1>2, <1>3 DEF Beyond, Body
<1>5. QED
  BY <1>1, <1>4

-----------------------------------------------------------------------------
(* The characters *)

Text == src \in Seq(STRING) /\ Len(src) \in Nat /\ \A k \in 1..Len(src) : src[k] # EOF

\* At reads characters of the text, and the end of it where there are none.
LEMMA Looked ==
  ASSUME Text, i \in 1..(Len(src) + 1)
  PROVE  /\ Peek = At(0)
         /\ \A k \in 0..2 : i + k <= Len(src) => At(k) = src[i + k] /\ At(k) # EOF
         /\ \A k \in 0..2 : i + k > Len(src) => At(k) = EOF
BY DEF Peek, At, Text

-----------------------------------------------------------------------------
(* What a step does *)

\* The loops that read a token.
Inside == {"variable", "word", "hex", "int", "fraction", "sign", "exponent", "single",
           "double", "doubleEscape", "regexp", "regexpEscape"}

\* The scanner goes on by m characters of one line, or crosses the end of one.
Ahead(m) ==
  /\ i' = i + m /\ col' = col + m /\ line' = line /\ resume' = resume
  /\ i + m <= Len(src) + 1 /\ \A j \in i..(i + m - 1) : src[j] # "\n"
Crossed == i <= Len(src) /\ src[i] = "\n" /\ Cross
Moved == (\E m \in 0..3 : Ahead(m)) \/ Crossed

\* No token is made; at most one is begun.
Walks ==
  /\ Moved /\ toks' = toks
  /\ \/ start' = start /\ (mode' \in Inside => mode \in Inside)
     \/ start' = Here /\ mode = "skip"
\* Token t is made of what lies behind the scanner, not a heredoc.
Makes(t) ==
  /\ \E m \in 0..3 : Ahead(m)
  /\ toks' = Append(toks, t) /\ start' = start /\ mode' \in {"skip", "done"}
  /\ t.end = i' /\ t.kind # "HEREDOC" /\ t.spaced = (t.pos.off # Ended)
  /\ (mode \in Inside /\ t.pos = start) \/ (mode = "skip" /\ t.pos = Here)
\* Token t is a heredoc, and the scanner goes on behind its body after this line.
Opens(t) ==
  /\ mode = "skip" /\ mode' = "skip" /\ toks' = Append(toks, t) /\ start' = start
  /\ src[i] = "@" /\ t.pos = Here /\ t.kind = "HEREDOC" /\ t.spaced = (t.pos.off # Ended)
  /\ t.end = i' /\ line' = line /\ col' = col + (i' - i)
  /\ i' \in (i + 1)..(Len(src) + 1) /\ \A j \in i..(i' - 1) : src[j] # "\n"
  /\ LineEnd(t) + 1 <= Len(src) + 1
  /\ Beyond(LineEnd(t) + 1, Tag(SubSeq(src, t.pos.off + 2, t.end - 2))) # {}
  /\ resume' = BodyEnd(t)

Shape == Walks \/ (\E t : Makes(t)) \/ (\E t : Opens(t))

\* The inductive form of the type invariant: tokens follow each other and end before the
\* next character, and a body to be jumped over lies behind the line being read.
TypeInv ==
  /\ src \in Sources /\ i \in 1..(Len(src) + 1) /\ resume \in 0..(Len(src) + 1)
  /\ line \in Nat \ {0} /\ col \in Nat \ {0}
  /\ start \in [off : 1..i, line : Nat \ {0}, col : Nat \ {0}]
  /\ \E A : toks \in Seq(A)
  /\ \A k \in 1..Len(toks) :
       /\ toks[k].pos \in [off : 1..i, line : Nat \ {0}, col : Nat \ {0}]
       /\ toks[k].end \in toks[k].pos.off..i
       /\ k > 1 => toks[k].pos.off >= toks[k - 1].end
  /\ mode \in Inside => start.off >= Ended
  /\ resume # 0 => Find(i, {"\n"}) < resume

\* The text is a sequence of characters none of which is the end.
LEMMA TextKnown == TypeInv => Text
BY LexerAssumption DEF TypeInv, Text

\* The scanner's ways to go on are moves within a line, unless a newline is crossed.
LEMMA Moves ==
  ASSUME TypeInv
  PROVE  /\ Stay => Ahead(0)
         /\ Adv(1) /\ At(0) \notin {"\n", EOF} => Ahead(1)
         /\ Adv(2) /\ At(0) \notin {"\n", EOF} /\ At(1) \notin {"\n", EOF} => Ahead(2)
         /\ Adv(3) /\ (\A k \in 0..2 : At(k) \notin {"\n", EOF}) => Ahead(3)
         /\ AdvAny /\ Peek # EOF => Ahead(1) \/ Crossed
<1>0. Text /\ Len(src) \in Nat /\ i \in 1..(Len(src) + 1) /\ col \in Nat
  BY TextKnown DEF Text, TypeInv
<1>1. /\ Peek = At(0)
      /\ \A k \in 0..2 : At(k) # EOF => i + k <= Len(src) /\ At(k) = src[i + k]
  BY <1>0, Looked
<1>2. Stay => Ahead(0)
  BY <1>0 DEF Stay, place, Ahead
<1>3. Adv(1) /\ At(0) \notin {"\n", EOF} => Ahead(1)
  BY <1>0, <1>1 DEF Adv, Ahead
<1>4. Adv(2) /\ At(0) \notin {"\n", EOF} /\ At(1) \notin {"\n", EOF} => Ahead(2)
  BY <1>0, <1>1 DEF Adv, Ahead
<1>5. Adv(3) /\ (\A k \in 0..2 : At(k) \notin {"\n", EOF}) => Ahead(3)
  BY <1>0, <1>1 DEF Adv, Ahead
<1>6. AdvAny /\ Peek # EOF => Ahead(1) \/ Crossed
  BY <1>0, <1>1, <1>3 DEF AdvAny, Crossed
<1>7. QED
  BY <1>2, <1>3, <1>4, <1>5, <1>6

\* What characters are not.
LEMMA NotEnd ==
  /\ EOF \notin Blank \cup Punctuation \cup Letter \cup Digit \cup Hex \cup {"x", "X", "e", "E", "0"}
  /\ "\n" \notin Punctuation \cup Letter \cup Digit \cup Hex \cup {"x", "X", "e", "E", "0"}
<1>1. EOF # Quote /\ "\n" # Quote /\ EOF # "_" /\ EOF \notin Blank /\ "\n" # "_"
  BY Zenon DEF EOF, Quote, Blank
<1>2. \A c \in Lower \cup Upper \cup Digit : c # EOF /\ c # "\n"
  BY Zenon, LexerAssumption DEF Blank
<1>3. EOF # "\n" /\ EOF \notin Punctuation /\ "\n" \notin Punctuation
  BY Zenon, <1>1 DEF Punctuation, EOF
<1>4. \A c \in {"x", "X", "e", "E", "0"} : c # EOF /\ c # "\n"
  BY Zenon DEF EOF
<1>5. \A c \in Letter \cup Digit \cup Hex : c # EOF /\ c # "\n"
  BY Zenon, <1>1, <1>2 DEF Letter, Hex
<1>6. QED
  BY Zenon, <1>1, <1>3, <1>4, <1>5

\* Space and comments are walked over.
LEMMA SkipShapes ==
  ASSUME TypeInv, SkipBlank \/ Comment \/ LineComment \/ BlockComment
  PROVE  Walks
<1>0. Peek = At(0) /\ (\A c \in {"/", "*"} : c \notin {EOF, "\n"}) /\ EOF \notin Blank
  BY TextKnown, Looked, NotEnd DEF TypeInv, Punctuation
<1>1. Moved
  <2>1. CASE SkipBlank
    BY <1>0, <2>1, Moves DEF SkipBlank, Moved
  <2>2. CASE Comment
    BY <1>0, <2>2, Moves DEF Comment, Moved
  <2>3. CASE LineComment
    BY <1>0, <2>3, Moves DEF LineComment, Moved
  <2>4. CASE BlockComment
    BY <1>0, <2>4, Moves DEF BlockComment, Fail, Moved
  <2>5. QED
    BY <2>1, <2>2, <2>3, <2>4
<1>2. /\ toks' = toks
      /\ start' = start \/ (start' = Here /\ mode = "skip")
      /\ mode' \notin Inside
  BY DEF SkipBlank, Comment, LineComment, BlockComment, Fail, token, Enter, Inside
<1>3. QED
  BY <1>1, <1>2 DEF Walks

\* The first characters of a token are walked over.
LEMMA BeginShape == ASSUME TypeInv, Begin PROVE Walks
<1>0. /\ Peek = At(0) /\ \A c \in {":", "$", "'", Quote, "/", "x", "X", "0"} : c \notin {EOF, "\n"}
  BY TextKnown, Looked, NotEnd DEF TypeInv, Punctuation
<1>1. Moved
  <2>0. CASE Stay
    BY <2>0, Moves DEF Moved
  <2>1. CASE Adv(1) /\ Peek \in {"$", "'", Quote, "/"}
    BY <1>0, <2>1, Moves DEF Moved
  <2>2. CASE Adv(2) /\ Peek = ":" /\ At(1) = ":"
    BY <1>0, <2>2, Moves DEF Moved
  <2>3. CASE Adv(2) /\ Peek = "0" /\ At(1) \in {"x", "X"}
    BY <1>0, <2>3, Moves DEF Moved
  <2>4. CASE Adv(3) /\ Peek = "$" /\ At(1) = ":" /\ At(2) = ":"
    BY <1>0, <2>4, Moves DEF Moved
  <2>5. QED
    <3>1. \/ Stay
          \/ Adv(1) /\ Peek \in {"$", "'", Quote, "/"}
          \/ Adv(2) /\ Peek = ":" /\ At(1) = ":"
          \/ Adv(2) /\ Peek = "0" /\ At(1) \in {"x", "X"}
          \/ Adv(3) /\ Peek = "$" /\ At(1) = ":" /\ At(2) = ":"
      BY DEF Begin, Fail
    <3>2. QED
      BY Zenon, <3>1, <2>0, <2>1, <2>2, <2>3, <2>4
<1>2. /\ toks' = toks
      /\ (start' = start /\ mode' \notin Inside) \/ (start' = Here /\ mode = "skip")
  BY DEF Begin, Begins, Fail, Enter, Inside
<1>3. QED
  BY <1>1, <1>2 DEF Walks

\* A token in progress that is emitted ends where the scanner is.
LEMMA Emits ==
  ASSUME TypeInv, mode \in Inside, NEW kind, kind # "HEREDOC", NEW s, NEW n \in {0, 1},
         Emit(kind, s, n), n = 1 => Peek \notin {EOF, "\n"}
  PROVE  Makes(Token(kind, s, start, i + n))
<1>1. Ahead(n)
  <2>1. CASE n = 0
    BY <2>1, TextKnown DEF Emit, TypeInv, Adv, Ahead, Text
  <2>2. CASE n = 1
    BY <2>2, TextKnown, Looked, Moves DEF Emit, TypeInv
  <2>3. QED
    BY <2>1, <2>2, TextKnown, Looked DEF TypeInv
<1> DEFINE t == Token(kind, s, start, i + n)
<1>2. t.end = i + n /\ t.kind = kind /\ t.pos = start
  BY DEF Token
<1>3. t.spaced = (t.pos.off # Ended)
  BY Zenon DEF Token
<1>4. i' = i + n /\ toks' = Append(toks, t) /\ start' = start /\ mode' = "skip"
  BY <1>1 DEF Emit, Ahead
<1>5. /\ \E m \in 0..3 : Ahead(m)
      /\ mode' \in {"skip", "done"} /\ t.end = i' /\ t.kind # "HEREDOC"
  BY <1>1, <1>2, <1>4
<1>6. Makes(t)
  <2> HIDE DEF t
  <2>1. QED
    BY Zenon, <1>2, <1>3, <1>4, <1>5 DEF Makes
<1>7. QED
  BY <1>6

\* A move that leaves tokens and start alone is a walk.
LEMMA ReadsOn ==
  ASSUME TypeInv, mode \in Inside, Moved, UNCHANGED <<toks, start>>
  PROVE  Walks
BY DEF Walks

\* No word is a heredoc.
LEMMA WordKinds == WordKind # "HEREDOC"
<1>1. \A t \in DOMAIN Keywords : Keywords[t] # "HEREDOC"
  BY Zenon, LexerAssumption DEF Kinds
<1>2. QED
  BY <1>1 DEF WordKind

\* Words and variables are walked over or made.
LEMMA WordShapes ==
  ASSUME TypeInv, Variable \/ Word
  PROVE  Walks \/ \E t : Makes(t)
<1>0. /\ Peek = At(0) /\ mode \in Inside /\ 0 \in {0, 1}
      /\ \A c \in Letter \cup Digit \cup {":"} : c \notin {EOF, "\n"}
  BY TextKnown, Looked, NotEnd DEF TypeInv, Punctuation, Variable, Word, Inside
<1>1. CASE NameChar /\ Adv(1) /\ UNCHANGED <<toks, start>>
  BY <1>0, <1>1, Moves, ReadsOn DEF NameChar, Moved
<1>2. CASE Scope /\ Adv(2) /\ UNCHANGED <<toks, start>>
  BY <1>0, <1>2, Moves, ReadsOn DEF Scope, Moved
<1>3. CASE Fail
  BY <1>0, <1>3, Moves, ReadsOn DEF Fail, Moved
<1>4. CASE Emit("VARIABLE", text, 0)
  BY <1>0, <1>4, Emits
<1>5. CASE Emit(WordKind, text, 0)
  BY <1>0, <1>5, Emits, WordKinds
<1>6. QED
  BY <1>1, <1>2, <1>3, <1>4, <1>5 DEF Variable, Word, Continue

\* Numbers are walked over or made.
LEMMA NumberShapes ==
  ASSUME TypeInv, HexDigits \/ IntDigits \/ FractionDigits \/ Sign \/ ExponentDigits
  PROVE  Walks \/ \E t : Makes(t)
<1>0. /\ Peek = At(0) /\ mode \in Inside /\ 0 \in {0, 1}
      /\ \A c \in Hex \cup Digit \cup {".", "e", "E", "+", "-"} : c \notin {EOF, "\n"}
  BY TextKnown, Looked, NotEnd
  DEF TypeInv, Punctuation, HexDigits, IntDigits, FractionDigits, Sign, ExponentDigits, Inside
<1>1. CASE Peek \in Hex \cup Digit \cup {".", "e", "E", "+", "-"} /\ Adv(1) /\ UNCHANGED <<toks, start>>
  BY <1>0, <1>1, Moves, ReadsOn DEF Moved
<1>2. CASE Stay /\ UNCHANGED <<toks, start>>
  BY <1>0, <1>2, Moves, ReadsOn DEF Moved
<1>3. CASE \E kind \in {"INT", "FLOAT"} : Emit(kind, text, 0)
  BY <1>0, <1>3, Emits
<1>4. QED
  BY <1>1, <1>2, <1>3
  DEF HexDigits, IntDigits, FractionDigits, Sign, ExponentDigits, Continue, Enough, Fail

\* Strings and regular expressions are walked over or made.
LEMMA QuotedShapes ==
  ASSUME TypeInv, Single \/ Double \/ Regexp
  PROVE  Walks \/ \E t : Makes(t)
<1>0. /\ Peek = At(0) /\ mode \in Inside /\ 1 \in {0, 1}
      /\ \A c \in {"'", Quote, "/", "\\"} : c \notin {EOF, "\n"}
  BY TextKnown, Looked, NotEnd DEF TypeInv, Punctuation, Single, Double, Regexp, Inside
<1>1. CASE Stay /\ UNCHANGED <<toks, start>>
  BY <1>0, <1>1, Moves, ReadsOn DEF Moved
<1>2. CASE Peek # EOF /\ AdvAny /\ UNCHANGED <<toks, start>>
  BY <1>0, <1>2, Moves, ReadsOn DEF Moved
<1>3. CASE Peek \notin {EOF, "\n"} /\ Adv(1) /\ UNCHANGED <<toks, start>>
  BY <1>0, <1>3, Moves, ReadsOn DEF Moved
<1>4. CASE Peek = "\\" /\ At(1) \in {"'", "\\"} /\ Adv(2) /\ UNCHANGED <<toks, start>>
  BY <1>0, <1>4, Moves, ReadsOn DEF Moved
<1>5. CASE Peek \in {"'", Quote, "/"} /\ \E kind \in {"SQSTRING", "DQSTRING", "REGEXP"} : Emit(kind, text, 1)
  BY <1>0, <1>5, Emits
<1>6. QED
  <2>1. CASE Single
    BY <2>1, <1>1, <1>2, <1>3, <1>4, <1>5 DEF Single, Fail, Continue
  <2>2. CASE Double
    BY <2>2, <1>0, <1>1, <1>2, <1>3, <1>5 DEF Double, Fail, Continue, Escape, Escaped
  <2>3. CASE Regexp
    BY <2>3, <1>0, <1>1, <1>2, <1>3, <1>5 DEF Regexp, Fail, Continue, Escape, Escaped
  <2>4. QED
    BY <2>1, <2>2, <2>3

\* The end of the file is a token made.
LEMMA EndShape == ASSUME TypeInv, EndOfFile PROVE \E t : Makes(t)
<1> DEFINE t == Token("EOF", << >>, Here, i)
<1>1. t.end = i /\ t.kind = "EOF" /\ t.pos = Here
  BY DEF Token
<1>2. t.spaced = (t.pos.off # Ended)
  BY Zenon DEF Token
<1>3. toks' = Append(toks, t) /\ mode' = "done" /\ start' = start /\ mode = "skip"
  BY DEF EndOfFile, Begins
<1>4. Ahead(0) /\ i' = i
  BY Moves DEF EndOfFile, Stay, place
<1>5. /\ \E m \in 0..3 : Ahead(m)
      /\ mode' \in {"skip", "done"} /\ t.end = i' /\ t.kind # "HEREDOC"
  BY <1>1, <1>3, <1>4
<1>6. Makes(t)
  <2> HIDE DEF t
  <2>1. QED
    BY Zenon, <1>1, <1>2, <1>3, <1>5 DEF Makes
<1>7. QED
  BY <1>6

\* Operators have one to three characters, none of them a newline.
LEMMA OperatorTexts == \A s \in Operators : Len(s) \in 1..3 /\ \A k \in 1..Len(s) : s[k] # "\n"
<1> DEFINE Long == {<<"@", "@">>, <<"=", ">">>, <<"=", "=">>, <<"=", "~">>, <<"+", ">">>, <<"+", "=">>,
                    <<"-", ">">>, <<"-", "=">>, <<"~", ">">>, <<"!", "~">>, <<"!", "=">>, <<">", "=">>,
                    <<"<", "<">>, <<"<", "<", "|">>, <<"<", "|">>, <<"<", "-">>, <<"<", "~">>, <<"<", "=">>,
                    <<"|", ">">>, <<"|", ">", ">">>}
<1>1. \A c \in Marks : c # "\n"
  BY Zenon DEF Marks
<1>2. \A s \in Long : Len(s) \in 1..3 /\ \A k \in 1..Len(s) : s[k] # "\n"
  OBVIOUS
<1>3. \A s \in {<<c>> : c \in Marks} : Len(s) \in 1..3 /\ \A k \in 1..Len(s) : s[k] # "\n"
  BY <1>1
<1>4. Operators = {<<c>> : c \in Marks} \cup Long
  BY DEF Operators
<1>5. QED
  <2> HIDE DEF Long
  <2>1. QED
    BY <1>2, <1>3, <1>4

\* The operators by their length.
LEMMA OperatorsAre ==
  ASSUME NEW c, NEW d, NEW e
  PROVE  /\ <<c>> \in Operators <=> c \in Marks
         /\ <<c, d>> \in Operators <=> d \in Second(c)
         /\ <<c, d, e>> \in Operators <=> (c = "<" /\ d = "<" /\ e = "|") \/ (c = "|" /\ d = ">" /\ e = ">")
<1> DEFINE Two == {<<"@", "@">>, <<"=", ">">>, <<"=", "=">>, <<"=", "~">>, <<"+", ">">>, <<"+", "=">>,
                   <<"-", ">">>, <<"-", "=">>, <<"~", ">">>, <<"!", "~">>, <<"!", "=">>, <<">", "=">>,
                   <<"<", "<">>, <<"<", "|">>, <<"<", "-">>, <<"<", "~">>, <<"<", "=">>, <<"|", ">">>}
           Three == {<<"<", "<", "|">>, <<"|", ">", ">">>}
           One == {<<x>> : x \in Marks}
<1>1. \A s : s \in Operators <=> s \in One \/ s \in Two \/ s \in Three
  BY Zenon DEF Operators
<1>2. \A s \in One : Len(s) = 1
  OBVIOUS
<1>3. \A s \in Two : Len(s) = 2
  OBVIOUS
<1>4. \A s \in Three : Len(s) = 3
  OBVIOUS
<1>5. Len(<<c>>) = 1 /\ Len(<<c, d>>) = 2 /\ Len(<<c, d, e>>) = 3
  OBVIOUS
<1>6. /\ <<c>> \in Operators <=> <<c>> \in One
      /\ <<c, d>> \in Operators <=> <<c, d>> \in Two
      /\ <<c, d, e>> \in Operators <=> <<c, d, e>> \in Three
  <2> HIDE DEF One, Two, Three
  <2>1. QED
    BY <1>1, <1>2, <1>3, <1>4, <1>5
<1>7. <<c>> \in One <=> c \in Marks
  <2>1. \A x : <<c>> = <<x>> => c = x
    OBVIOUS
  <2>2. QED
    BY Zenon, <2>1
<1>8. <<c, d>> \in Two <=> d \in Second(c)
  BY DEF Second
<1>9. <<c, d, e>> \in Three <=> (c = "<" /\ d = "<" /\ e = "|") \/ (c = "|" /\ d = ">" /\ e = ">")
  OBVIOUS
<1>10. QED
  <2> HIDE DEF One, Two, Three
  <2>1. QED
    BY Zenon, <1>6, <1>7, <1>8, <1>9

\* No second character of an operator is the end of the text.
LEMMA SecondIs == \A c : EOF \notin Second(c)
BY DEF Second, EOF

\* The elements of a slice.
LEMMA SliceIs ==
  ASSUME NEW S, NEW s \in Seq(S), NEW a \in 1..(Len(s) + 1), NEW b \in (a - 1)..Len(s)
  PROVE  /\ SubSeq(s, a, b) \in Seq(S) /\ Len(SubSeq(s, a, b)) = b - a + 1
         /\ \A k \in 1..(b - a + 1) : SubSeq(s, a, b)[k] = s[a + k - 1]
OBVIOUS

\* Sequences of one, two and three elements.
LEMMA SingleIs == ASSUME NEW S, NEW s \in Seq(S), Len(s) = 1 PROVE s = <<s[1]>>
OBVIOUS

\* A sequence of two.
LEMMA PairIs == ASSUME NEW S, NEW s \in Seq(S), Len(s) = 2 PROVE s = <<s[1], s[2]>>
OBVIOUS

LEMMA TripleIs == ASSUME NEW S, NEW s \in Seq(S), Len(s) = 3 PROVE s = <<s[1], s[2], s[3]>>
OBVIOUS

\* Slices of one to three characters.
LEMMA ShortSlices ==
  ASSUME NEW s \in Seq(STRING), NEW a \in 1..(Len(s) + 1)
  PROVE  /\ a <= Len(s) => SubSeq(s, a, a) = <<s[a]>>
         /\ a + 1 <= Len(s) => SubSeq(s, a, a + 1) = <<s[a], s[a + 1]>>
         /\ a + 2 <= Len(s) => SubSeq(s, a, a + 2) = <<s[a], s[a + 1], s[a + 2]>>
<1>0. Len(s) \in Nat /\ a \in Nat
  OBVIOUS
<1>1. ASSUME a <= Len(s) PROVE SubSeq(s, a, a) = <<s[a]>>
  <2> DEFINE u == SubSeq(s, a, a)
  <2>1. a \in (a - 1)..Len(s) /\ a - a + 1 = 1
    BY <1>0, <1>1
  <2>2. u \in Seq(STRING) /\ Len(u) = 1 /\ \A k \in 1..1 : u[k] = s[a + k - 1]
    BY <2>1, SliceIs
  <2> HIDE DEF u
  <2>3. u = <<u[1]>> /\ u[1] = s[a]
    BY <1>0, <2>2, SingleIs
  <2>4. QED
    BY <2>3 DEF u
<1>2. ASSUME a + 1 <= Len(s) PROVE SubSeq(s, a, a + 1) = <<s[a], s[a + 1]>>
  <2> DEFINE u == SubSeq(s, a, a + 1)
  <2>1. a + 1 \in (a - 1)..Len(s) /\ (a + 1) - a + 1 = 2
    BY <1>0, <1>2
  <2>2. u \in Seq(STRING) /\ Len(u) = 2 /\ \A k \in 1..2 : u[k] = s[a + k - 1]
    BY <2>1, SliceIs
  <2> HIDE DEF u
  <2>3. u = <<u[1], u[2]>> /\ u[1] = s[a] /\ u[2] = s[a + 1]
    BY <1>0, <2>2, PairIs
  <2>4. QED
    BY <2>3 DEF u
<1>3. ASSUME a + 2 <= Len(s) PROVE SubSeq(s, a, a + 2) = <<s[a], s[a + 1], s[a + 2]>>
  <2> DEFINE u == SubSeq(s, a, a + 2)
  <2>1. a + 2 \in (a - 1)..Len(s) /\ (a + 2) - a + 1 = 3
    BY <1>0, <1>3
  <2>2. u \in Seq(STRING) /\ Len(u) = 3 /\ \A k \in 1..3 : u[k] = s[a + k - 1]
    BY <2>1, SliceIs
  <2> HIDE DEF u
  <2>3. u = <<u[1], u[2], u[3]>> /\ u[1] = s[a] /\ u[2] = s[a + 1] /\ u[3] = s[a + 2]
    BY <1>0, <2>2, TripleIs
  <2>4. QED
    BY <2>3 DEF u
<1>4. QED
  BY <1>1, <1>2, <1>3

\* The switch finds an operator, and the longest there is room for.
LEMMA OperatorHere ==
  ASSUME TypeInv
  PROVE  /\ OperatorLen \in 0..3
         /\ OperatorLen # 0 => /\ i + OperatorLen - 1 <= Len(src)
                              /\ SubSeq(src, i, i + OperatorLen - 1) \in Operators
         /\ \A n \in 1..3 : i + n - 1 <= Len(src) /\ SubSeq(src, i, i + n - 1) \in Operators => n <= OperatorLen
<1> DEFINE Triple == (Peek = "<" /\ At(1) = "<" /\ At(2) = "|") \/ (Peek = "|" /\ At(1) = ">" /\ At(2) = ">")
           Pair == At(1) \in Second(Peek)
           Lone == Peek \in Marks
<1>0. /\ src \in Seq(STRING) /\ Len(src) \in Nat /\ i \in 1..(Len(src) + 1) /\ Peek = At(0)
      /\ \A k \in 0..2 : i + k <= Len(src) => At(k) = src[i + k]
      /\ \A k \in 0..2 : i + k > Len(src) => At(k) = EOF
  BY TextKnown, Looked DEF TypeInv, Text
<1>1. EOF \notin Marks /\ "|" # EOF /\ ">" # EOF
  BY Zenon DEF Marks, EOF
<1>2. /\ Lone => i <= Len(src)
      /\ Pair => i + 1 <= Len(src)
      /\ Triple => i + 2 <= Len(src)
  BY <1>0, <1>1, SecondIs
<1>3. /\ i <= Len(src) => SubSeq(src, i, i) = <<Peek>>
      /\ i + 1 <= Len(src) => SubSeq(src, i, i + 1) = <<Peek, At(1)>>
      /\ i + 2 <= Len(src) => SubSeq(src, i, i + 2) = <<Peek, At(1), At(2)>>
  <2>1. /\ i <= Len(src) => Peek = src[i]
        /\ i + 1 <= Len(src) => Peek = src[i] /\ At(1) = src[i + 1]
        /\ i + 2 <= Len(src) => Peek = src[i] /\ At(1) = src[i + 1] /\ At(2) = src[i + 2]
    BY <1>0
  <2>2. QED
    BY <1>0, <2>1, ShortSlices
<1>4. /\ <<Peek>> \in Operators <=> Lone
      /\ <<Peek, At(1)>> \in Operators <=> Pair
      /\ <<Peek, At(1), At(2)>> \in Operators <=> Triple
  BY OperatorsAre
<1>5. OperatorLen = IF Triple THEN 3 ELSE IF Pair THEN 2 ELSE IF Lone THEN 1 ELSE 0
  BY DEF OperatorLen
<1>6. QED
  <2> HIDE DEF Triple, Pair, Lone
  <2>1. i + 1 - 1 = i /\ i + 2 - 1 = i + 1 /\ i + 3 - 1 = i + 2
    BY <1>0
  <2>0. /\ Triple => OperatorLen = 3
        /\ ~Triple /\ Pair => OperatorLen = 2
        /\ ~Triple /\ ~Pair /\ Lone => OperatorLen = 1
        /\ ~Triple /\ ~Pair /\ ~Lone => OperatorLen = 0
    BY <1>5
  <2>2. OperatorLen \in 0..3
    BY <2>0
  <2>3. OperatorLen # 0 => i + OperatorLen - 1 <= Len(src) /\ SubSeq(src, i, i + OperatorLen - 1) \in Operators
    <3>1. CASE Triple
      BY <1>2, <1>3, <1>4, <1>5, <2>1, <3>1
    <3>2. CASE ~Triple /\ Pair
      BY <1>2, <1>3, <1>4, <1>5, <2>1, <3>2
    <3>3. CASE ~Triple /\ ~Pair /\ Lone
      BY <1>2, <1>3, <1>4, <1>5, <2>1, <3>3
    <3>4. QED
      BY <1>5, <3>1, <3>2, <3>3
  <2>4. \A n \in 1..3 : i + n - 1 <= Len(src) /\ SubSeq(src, i, i + n - 1) \in Operators => n <= OperatorLen
    <3>1. ASSUME i <= Len(src), SubSeq(src, i, i) \in Operators PROVE 1 <= OperatorLen
      <4>1. Lone
        BY <1>3, <1>4, <3>1
      <4>2. QED
        BY <2>0, <4>1
    <3>2. ASSUME i + 1 <= Len(src), SubSeq(src, i, i + 1) \in Operators PROVE 2 <= OperatorLen
      <4>1. Pair
        BY <1>3, <1>4, <3>2
      <4>2. QED
        BY <2>0, <4>1
    <3>3. ASSUME i + 2 <= Len(src), SubSeq(src, i, i + 2) \in Operators PROVE 3 <= OperatorLen
      <4>1. Triple
        BY <1>3, <1>4, <3>3
      <4>2. QED
        BY <2>0, <4>1
    <3>4. \A n \in 1..3 : n = 1 \/ n = 2 \/ n = 3
      OBVIOUS
    <3>5. QED
      BY <2>1, <3>1, <3>2, <3>3, <3>4
  <2>5. QED
    BY <2>2, <2>3, <2>4

\* An operator is made, unless there is none.
LEMMA OperatorShape ==
  ASSUME TypeInv, Operator
  PROVE  Walks \/ \E t : Makes(t)
<1>1. CASE OperatorLen = 0
  BY <1>1, Moves DEF Operator, Begins, Fail, Walks, Moved, Inside
<1>2. CASE OperatorLen # 0
  <2> DEFINE n == OperatorLen
             s == SubSeq(src, i, i + n - 1)
             t == Token(OpKind(s), s, Here, i + n)
  <2>1. n \in 1..3 /\ i + n - 1 <= Len(src) /\ s \in Operators
    BY <1>2, OperatorHere
  <2>2. Adv(n) /\ toks' = Append(toks, t) /\ mode' = "skip" /\ start' = start /\ mode = "skip"
    BY <1>2 DEF Operator, Begins
  <2>3. \A j \in i..(i + n - 1) : src[j] # "\n"
    <3>1. \A k \in 1..Len(s) : s[k] # "\n"
      BY <2>1, OperatorTexts
    <3>2. Len(s) = n /\ \A k \in 1..n : s[k] = src[i + k - 1]
      <4>1. src \in Seq(STRING) /\ Len(src) \in Nat /\ i \in 1..(Len(src) + 1)
        BY TextKnown DEF TypeInv, Text
      <4> HIDE DEF n
      <4>2. QED
        BY <2>1, <4>1
    <3>3. QED
      <4> HIDE DEF n, s
      <4>1. SUFFICES ASSUME NEW j \in i..(i + n - 1) PROVE src[j] # "\n"
        OBVIOUS
      <4>2. j - i + 1 \in 1..n /\ j = i + (j - i + 1) - 1
        BY <2>1 DEF TypeInv
      <4>3. QED
        BY <4>2, <3>1, <3>2
  <2>4. Ahead(n) /\ i' = i + n
    <3> HIDE DEF n, s, t
    <3>1. QED
      BY <2>1, <2>2, <2>3, TextKnown DEF TypeInv, Text, Adv, Ahead
  <2>5. t.end = i + n /\ t.kind = OpKind(s) /\ t.pos = Here
    BY DEF Token
  <2>6. t.spaced = (t.pos.off # Ended)
    BY Zenon DEF Token
  <2>7. OpKind(s) # "HEREDOC"
    BY Zenon DEF OpKind
  <2>8. /\ \E m \in 0..3 : Ahead(m)
        /\ mode' \in {"skip", "done"} /\ t.end = i' /\ t.kind # "HEREDOC"
    <3> HIDE DEF n, s, t
    <3>1. QED
      BY <2>1, <2>2, <2>4, <2>5, <2>7
  <2>9. Makes(t)
    <3> HIDE DEF n, s, t
    <3>1. QED
      BY Zenon, <2>2, <2>5, <2>6, <2>8 DEF Makes
  <2>10. QED
    BY <2>9
<1>3. QED
  BY <1>1, <1>2

-----------------------------------------------------------------------------
(* Heredocs *)

\* A place with nothing of S before it is the one Find gives.
LEMMA FoundAt ==
  ASSUME Text, NEW S, NEW k \in 1..(Len(src) + 1), NEW f \in k..(Len(src) + 1),
         f <= Len(src) => src[f] \in S, \A j \in k..(f - 1) : src[j] \notin S
  PROVE  Find(k, S) = f
<1>1. /\ Find(k, S) \in k..(Len(src) + 1)
      /\ Find(k, S) <= Len(src) => src[Find(k, S)] \in S
      /\ \A j \in k..(Find(k, S) - 1) : src[j] \notin S
  BY Found DEF Text
<1>2. QED
  <2> DEFINE g == Find(k, S)
  <2>1. CASE g < f
    BY <1>1, <2>1 DEF Text
  <2>2. CASE f < g
    BY <1>1, <2>2 DEF Text
  <2>3. QED
    BY <1>1, <2>1, <2>2 DEF Text

\* A heredoc is opened, unless it has no end.
LEMMA HeredocShape ==
  ASSUME TypeInv, Heredoc
  PROVE  Walks \/ \E t : Opens(t)
<1> DEFINE close == Find(i + 2, {")", "\n"})
           tag == Tag(SubSeq(src, i + 2, close - 1))
           below == Find(close, {"\n"}) + 1
           rest == Beyond(below, tag)
           Bad == At(close - i) # ")" \/ tag = << >> \/ below > Len(src) + 1 \/ rest = {}
           doc == Render(SetToSortSeq(Body(below, tag), <), Terminator(LineAt(Min(rest)), tag))
           t == Token("HEREDOC", doc, Here, close + 1)
<1>1. CASE Bad
  <2>1. Fail /\ mode = "skip"
    BY <1>1 DEF Heredoc, Begins
  <2>2. QED
    BY <2>1, Moves DEF Fail, Walks, Moved, Inside
<1>2. CASE ~Bad
  <2>0. mode = "skip" /\ Peek = "@" /\ At(1) = "("
    BY DEF Heredoc, Begins
  <2>1. /\ i' = close + 1 /\ col' = col + (close + 1 - i) /\ line' = line
        /\ resume' = Find(Min(rest), {"\n"}) /\ toks' = Append(toks, t)
        /\ mode' = mode /\ start' = start /\ mode = "skip" /\ Peek = "@" /\ At(1) = "("
    BY <1>2 DEF Heredoc, Begins
  <2>2. Len(src) \in Nat /\ i \in 1..(Len(src) + 1) /\ i + 1 <= Len(src) /\ src[i] = "@" /\ src[i + 1] = "("
    <3>1. "(" # EOF /\ "@" # EOF
      BY NotEnd DEF Punctuation
    <3>2. /\ Len(src) \in Nat /\ i \in 1..(Len(src) + 1) /\ Peek = At(0)
          /\ i + 0 <= Len(src) => At(0) = src[i + 0]
          /\ i + 1 <= Len(src) => At(1) = src[i + 1]
          /\ i + 1 > Len(src) => At(1) = EOF
      BY TextKnown, Looked DEF TypeInv, Text
    <3>3. QED
      BY <2>0, <3>1, <3>2
  <2>3. /\ close \in (i + 2)..(Len(src) + 1)
        /\ \A j \in (i + 2)..(close - 1) : src[j] \notin {")", "\n"}
    <3>1. i + 2 \in 1..(Len(src) + 1) /\ src \in Seq(STRING)
      BY <2>2, TextKnown DEF Text
    <3>2. QED
      BY <3>1, Found
  <2>4. close <= Len(src) /\ src[close] = ")"
    <3>1. ")" # EOF /\ At(close - i) = ")"
      BY <1>2, NotEnd DEF Punctuation
    <3> HIDE DEF close
    <3>2. i + (close - i) = close
      BY <2>2, <2>3
    <3>3. QED
      BY <2>2, <2>3, <3>1, <3>2 DEF At
  <2>5. Find(close, {"\n"}) = Find(close + 1, {"\n"})
    <3> DEFINE f == Find(close + 1, {"\n"})
    <3> HIDE DEF close
    <3>1. /\ close + 1 \in 1..(Len(src) + 1) /\ close \in 1..(Len(src) + 1)
          /\ f \in (close + 1)..(Len(src) + 1) /\ (f <= Len(src) => src[f] \in {"\n"})
          /\ \A j \in (close + 1)..(f - 1) : src[j] \notin {"\n"}
      BY SMTT(60), <2>2, <2>3, <2>4, TextKnown, Found DEF Text, TypeInv
    <3>2. f \in close..(Len(src) + 1) /\ \A j \in close..(f - 1) : src[j] \notin {"\n"}
      BY <3>1, <2>2, <2>4
    <3>3. QED
      <4> HIDE DEF f
      <4>1. Find(close, {"\n"}) = f
        BY <3>1, <3>2, TextKnown, FoundAt
      <4>2. QED
        BY <4>1 DEF f
  <2>6. t.pos = Here /\ t.end = close + 1 /\ t.kind = "HEREDOC" /\ t.pos.off = i
    BY DEF Token, Here
  <2>7. t.spaced = (t.pos.off # Ended)
    BY Zenon DEF Token
  <2>8. /\ LineEnd(t) = Find(close, {"\n"}) /\ LineEnd(t) + 1 = below
        /\ t.pos.off + 2 = i + 2 /\ t.end - 2 = close - 1
    <3> HIDE DEF t
    <3>1. close \in Int
      BY <2>2, <2>3
    <3> HIDE DEF close
    <3>2. t.end - 2 = close - 1
      BY <2>6, <3>1
    <3>3. QED
      BY <2>5, <2>6, <3>2 DEF LineEnd
  <2>9. Tag(SubSeq(src, t.pos.off + 2, t.end - 2)) = tag
    BY <2>8
  <2>10. /\ LineEnd(t) + 1 <= Len(src) + 1 /\ Beyond(LineEnd(t) + 1, Tag(SubSeq(src, t.pos.off + 2, t.end - 2))) # {}
         /\ resume' = BodyEnd(t)
    <3>1. below \in Int
      BY <2>2, <2>3, <2>4, TextKnown, Found DEF Text
    <3>2. below <= Len(src) + 1
      <4> HIDE DEF below
      <4>1. QED
        BY <1>2, <2>2, <3>1
    <3> HIDE DEF t, tag, below
    <3>3. QED
      BY <1>2, <2>1, <2>8, <2>9, <3>2 DEF BodyEnd
  <2>11. /\ i' \in (i + 1)..(Len(src) + 1) /\ col' = col + (i' - i) /\ \A j \in i..(i' - 1) : src[j] # "\n"
    <3>1. i' = close + 1 /\ col' = col + (close + 1 - i)
      BY <2>1
    <3> HIDE DEF close
    <3>2. QED
      BY <3>1, <2>2, <2>3, <2>4
  <2>12. Opens(t)
    <3> HIDE DEF t, close
    <3>1. QED
      BY <2>1, <2>2, <2>6, <2>7, <2>10, <2>11 DEF Opens
  <2>13. QED
    BY <2>12
<1>3. QED
  BY <1>1, <1>2

-----------------------------------------------------------------------------
(* The type invariant *)

\* Every step walks, makes a token or opens a heredoc, and the text stays.
LEMMA StepShape ==
  ASSUME TypeInv, Next
  PROVE  Shape /\ src' = src
<1>1. CASE SkipBlank \/ Comment \/ LineComment \/ BlockComment
  BY <1>1, SkipShapes DEF Next, Shape
<1>2. CASE Begin
  BY <1>2, BeginShape DEF Next, Shape
<1>3. CASE EndOfFile \/ Operator
  BY <1>3, EndShape, OperatorShape DEF Next, Shape
<1>4. CASE Heredoc
  BY <1>4, HeredocShape DEF Next, Shape
<1>5. CASE Variable \/ Word
  BY <1>5, WordShapes DEF Next, Shape
<1>6. CASE HexDigits \/ IntDigits \/ FractionDigits \/ Sign \/ ExponentDigits
  BY <1>6, NumberShapes DEF Next, Shape
<1>7. CASE Single \/ Double \/ Regexp
  BY <1>7, QuotedShapes DEF Next, Shape
<1>8. QED
  BY <1>1, <1>2, <1>3, <1>4, <1>5, <1>6, <1>7 DEF Next, Scan

\* The end of a line is the same from everywhere on it.
LEMMA FindSkips ==
  ASSUME Text, NEW k \in 1..(Len(src) + 1), NEW m \in k..(Len(src) + 1),
         \A j \in k..(m - 1) : src[j] # "\n"
  PROVE  Find(k, {"\n"}) = Find(m, {"\n"})
<1> DEFINE f == Find(m, {"\n"})
<1>1. /\ f \in m..(Len(src) + 1) /\ (f <= Len(src) => src[f] \in {"\n"})
      /\ \A j \in m..(f - 1) : src[j] \notin {"\n"}
  BY Found DEF Text
<1>2. f \in k..(Len(src) + 1) /\ \A j \in k..(f - 1) : src[j] \notin {"\n"}
  BY <1>1 DEF Text
<1>3. Find(k, {"\n"}) = f
  <2> HIDE DEF f
  <2>1. QED
    BY <1>1, <1>2, FoundAt
<1>4. QED
  BY <1>3

\* A heredoc's body lies behind the line that opens it and ends where a line does.
LEMMA BodyBehind ==
  ASSUME Text, NEW t, LineEnd(t) + 1 \in 1..(Len(src) + 1),
         Beyond(LineEnd(t) + 1, Tag(SubSeq(src, t.pos.off + 2, t.end - 2))) # {}
  PROVE  /\ BodyEnd(t) \in (LineEnd(t) + 1)..(Len(src) + 1)
         /\ BodyEnd(t) <= Len(src) => src[BodyEnd(t)] = "\n"
<1> DEFINE k == LineEnd(t) + 1
           tag == Tag(SubSeq(src, t.pos.off + 2, t.end - 2))
           S == Beyond(k, tag)
<1>0. k \in 1..(Len(src) + 1)
  OBVIOUS
<1>1. S \subseteq LineStarts(k)
  BY DEF Beyond
<1>2. LineStarts(k) \subseteq k..Len(src)
  <2> HIDE DEF k
  <2>1. QED
    BY <1>0 DEF LineStarts, Text
<1>3. S \in SUBSET Nat /\ S # {} /\ S \subseteq k..Len(src)
  <2> HIDE DEF S
  <2>1. S \subseteq k..Len(src) /\ \A j \in k..Len(src) : j \in Nat
    BY <1>0, <1>1, <1>2 DEF Text
  <2>2. S # {}
    BY DEF S
  <2>3. QED
    BY <2>1, <2>2
<1>4. Min(S) \in k..Len(src)
  <2> HIDE DEF S
  <2>1. QED
    BY <1>3, MinIs DEF Text
<1>5. /\ Find(Min(S), {"\n"}) \in Min(S)..(Len(src) + 1)
      /\ Find(Min(S), {"\n"}) <= Len(src) => src[Find(Min(S), {"\n"})] = "\n"
  <2> HIDE DEF S
  <2>1. Min(S) \in 1..(Len(src) + 1)
    BY <1>0, <1>4 DEF Text
  <2>2. QED
    BY <2>1, Found DEF Text
<1>6. BodyEnd(t) = Find(Min(S), {"\n"})
  BY DEF BodyEnd
<1>7. QED
  <2> HIDE DEF S, k
  <2>1. BodyEnd(t) \in k..(Len(src) + 1)
    BY <1>0, <1>4, <1>5, <1>6 DEF Text
  <2>2. BodyEnd(t) <= Len(src) => src[BodyEnd(t)] = "\n"
    BY <1>5, <1>6
  <2>3. QED
    BY <2>1, <2>2 DEF k

\* A column grows with the position.
LEMMA Later ==
  ASSUME NEW a \in Int, NEW b \in Int, NEW c \in Int, b > a, c > 0
  PROVE  c + (b - a) \in Int /\ c + (b - a) > 0
OBVIOUS

\* The scanner never goes back, and a pending body stays behind the line being read.
LEMMA Onward ==
  ASSUME TypeInv, src' = src, Moved \/ \E t : Opens(t)
  PROVE  /\ i' \in i..(Len(src) + 1) /\ resume' \in 0..(Len(src) + 1)
         /\ line' \in Nat \ {0} /\ col' \in Nat \ {0}
         /\ resume' # 0 => Find(i', {"\n"}) < resume'
<1>0. /\ Text /\ Len(src) \in Nat /\ i \in 1..(Len(src) + 1) /\ resume \in 0..(Len(src) + 1)
      /\ line \in Nat \ {0} /\ col \in Nat \ {0} /\ (resume # 0 => Find(i, {"\n"}) < resume)
  BY TextKnown DEF TypeInv, Text
<1>1. CASE \E m \in 0..3 : Ahead(m)
  <2>1. PICK m \in 0..3 : Ahead(m)
    BY <1>1
  <2>2. /\ i' = i + m /\ i' \in i..(Len(src) + 1) /\ resume' = resume /\ line' = line /\ col' = col + m
        /\ \A j \in i..(i' - 1) : src[j] # "\n"
    BY <1>0, <2>1 DEF Ahead
  <2>3. Find(i, {"\n"}) = Find(i', {"\n"})
    BY <1>0, <2>2, FindSkips
  <2>4. QED
    BY <1>0, <2>2, <2>3
<1>2. CASE Crossed
  <2>1. i <= Len(src) /\ src[i] = "\n" /\ line' = line + 1 /\ col' = 1 /\ resume' = 0
        /\ i' = (IF resume # 0 THEN resume ELSE i + 1)
    BY <1>2 DEF Crossed, Cross
  <2>2. Find(i, {"\n"}) >= i
    BY <1>0, Found DEF Text
  <2>3. QED
    <3> DEFINE f == Find(i, {"\n"})
    <3>1. f \in Int
      BY <1>0, Found DEF Text
    <3> HIDE DEF f
    <3>2. QED
      BY <1>0, <2>1, <2>2, <3>1 DEF f
<1>3. CASE \E t : Opens(t)
  <2>1. PICK t : Opens(t)
    BY <1>3
  <2>2. /\ t.end = i' /\ line' = line /\ col' = col + (i' - i) /\ i' \in (i + 1)..(Len(src) + 1)
        /\ resume' = BodyEnd(t) /\ LineEnd(t) + 1 <= Len(src) + 1
        /\ Beyond(LineEnd(t) + 1, Tag(SubSeq(src, t.pos.off + 2, t.end - 2))) # {}
    BY <2>1 DEF Opens
  <2>3. LineEnd(t) = Find(i', {"\n"}) /\ LineEnd(t) \in i'..(Len(src) + 1)
    <3>1. i' \in 1..(Len(src) + 1)
      BY <1>0, <2>2
    <3>2. QED
      BY <1>0, <2>2, <3>1, Found DEF LineEnd, Text
  <2>4. LineEnd(t) + 1 \in 1..(Len(src) + 1)
    BY <1>0, <2>2, <2>3
  <2>5. BodyEnd(t) \in (LineEnd(t) + 1)..(Len(src) + 1)
    BY <1>0, <2>2, <2>4, BodyBehind
  <2>6. i' \in i..(Len(src) + 1) /\ col' \in Nat \ {0}
    <3>1. i' \in (i + 1)..(Len(src) + 1) /\ col' = col + (i' - i)
      BY <2>2
    <3>2. i' \in Int /\ i' > i /\ i' <= Len(src) + 1 /\ i \in Int /\ col \in Int /\ col > 0 /\ Len(src) \in Int
      BY <1>0, <3>1
    <3>3. col + (i' - i) \in Int /\ col + (i' - i) > 0
      BY <3>2, Later
    <3>4. i' \in i..(Len(src) + 1)
      BY <1>0, <3>1
    <3>5. QED
      BY <3>1, <3>3, <3>4
  <2>7. resume' \in 0..(Len(src) + 1) /\ Find(i', {"\n"}) < resume'
    BY <1>0, <2>2, <2>3, <2>5
  <2>8. QED
    BY <1>0, <2>2, <2>6, <2>7
<1>4. QED
  BY <1>1, <1>2, <1>3 DEF Moved

\* Where the scanner is, before and after a step.
LEMMA Where ==
  ASSUME TypeInv, Next
  PROVE  /\ i \in Int /\ i >= 1 /\ i <= Len(src) + 1 /\ Len(src) \in Int
         /\ i' \in Int /\ i' >= i /\ i' <= Len(src) + 1
<1>1. src' = src /\ (Moved \/ \E t : Opens(t))
  BY StepShape DEF Shape, Walks, Makes, Moved
<1>2. i' \in i..(Len(src) + 1) /\ i \in 1..(Len(src) + 1) /\ Len(src) \in Nat
  BY <1>1, TextKnown, Onward DEF TypeInv, Text
<1> DEFINE n == Len(src)
<1> HIDE DEF n
<1>3. i' \in i..(n + 1) /\ i \in 1..(n + 1) /\ n \in Nat
  BY <1>2 DEF n
<1>4. i \in Int /\ i >= 1 /\ i <= n + 1 /\ n \in Int /\ i' \in Int /\ i' >= i /\ i' <= n + 1
  BY <1>3
<1>5. QED
  BY <1>4 DEF n

\* What a sequence is after an element is added.
LEMMA Appended ==
  ASSUME \E A : toks \in Seq(A), NEW t, toks' = Append(toks, t)
  PROVE  /\ Len(toks) \in Nat /\ Len(toks') = Len(toks) + 1 /\ \E A : toks' \in Seq(A)
         /\ toks'[Len(toks) + 1] = t /\ \A k \in 1..Len(toks) : toks'[k] = toks[k]
<1>1. PICK A : toks \in Seq(A)
  OBVIOUS
<1>2. toks' \in Seq(A \cup {t})
  BY <1>1
<1>3. QED
  BY <1>1, <1>2

\* Where the last token ended.
LEMMA EndedIs ==
  ASSUME TypeInv
  PROVE  /\ Ended \in 1..i /\ Len(toks) \in Nat /\ (toks = << >>) = (Len(toks) = 0)
         /\ toks # << >> => Ended = toks[Len(toks)].end
<1>1. Len(toks) \in Nat /\ (toks = << >>) = (Len(toks) = 0)
  BY DEF TypeInv
<1>2. i \in Nat /\ i >= 1
  BY TextKnown DEF TypeInv, Text
<1>3. toks # << >> => toks[Len(toks)].end \in 1..i
  <2>1. SUFFICES ASSUME toks # << >> PROVE toks[Len(toks)].end \in 1..i
    OBVIOUS
  <2>2. Len(toks) \in 1..Len(toks)
    BY <1>1, <2>1
  <2>3. /\ toks[Len(toks)].pos \in [off : 1..i, line : Nat \ {0}, col : Nat \ {0}]
        /\ toks[Len(toks)].end \in toks[Len(toks)].pos.off..i
    BY <2>2 DEF TypeInv
  <2>4. QED
    BY <1>2, <2>3
<1>4. QED
  BY <1>1, <1>2, <1>3 DEF Ended

\* The inductive type invariant holds after every step.
LEMMA Typed ==
  ASSUME TypeInv, Next
  PROVE  TypeInv'
<1> DEFINE P(n) == [off : 1..n, line : Nat \ {0}, col : Nat \ {0}]
<1>0. /\ Shape /\ src' = src /\ src \in Sources /\ Text /\ Len(src) \in Nat /\ i \in 1..(Len(src) + 1)
      /\ line \in Nat \ {0} /\ col \in Nat \ {0} /\ \E A : toks \in Seq(A)
  BY StepShape, TextKnown DEF TypeInv, Text
<1>1. /\ i' \in i..(Len(src) + 1) /\ resume' \in 0..(Len(src) + 1)
      /\ line' \in Nat \ {0} /\ col' \in Nat \ {0}
      /\ resume' # 0 => Find(i', {"\n"}) < resume'
  BY <1>0, Onward DEF Shape, Walks, Makes, Moved
<1>2. Find(i, {"\n"})' = Find(i', {"\n"})
  BY <1>0 DEF Find
<1>3. i' \in 1..(Len(src) + 1) /\ i' >= i
  BY <1>0, <1>1
<1>4. start' = start \/ start' = Here
  BY <1>0 DEF Shape, Walks, Makes, Opens
<1>5. start \in P(i) /\ Here \in P(i) /\ \A p \in P(i) : p \in P(i')
  <2>1. start \in P(i)
    BY DEF TypeInv
  <2>2. Here \in P(i)
    BY <1>0 DEF Here
  <2>3. \A p \in P(i) : p \in P(i')
    BY <1>0, <1>3
  <2>4. QED
    BY <2>1, <2>2, <2>3
<1>6. Ended \in 1..i /\ Len(toks) \in Nat /\ (toks = << >>) = (Len(toks) = 0)
      /\ (toks # << >> => Ended = toks[Len(toks)].end) /\ i \in Nat
  BY <1>0, EndedIs
<1>7. \A k \in 1..Len(toks) :
        toks[k].pos \in P(i) /\ toks[k].end \in toks[k].pos.off..i /\ (k > 1 => toks[k].pos.off >= toks[k - 1].end)
  BY DEF TypeInv
<1>8. mode \in Inside => start.off >= Ended
  BY DEF TypeInv
<1> DEFINE Fine == /\ \E A : toks' \in Seq(A)
                   /\ \A k \in 1..Len(toks') :
                        /\ toks'[k].pos \in P(i') /\ toks'[k].end \in toks'[k].pos.off..i'
                        /\ k > 1 => toks'[k].pos.off >= toks'[k - 1].end
                   /\ mode' \in Inside => start'.off >= Ended'
<1>9. ASSUME Walks PROVE Fine
  <2>1. toks' = toks /\ Ended' = Ended
    BY <1>9 DEF Walks, Ended
  <2>2. \A k \in 1..Len(toks) : toks[k].pos \in P(i') /\ toks[k].end \in toks[k].pos.off..i'
    <3> HIDE DEF P
    <3>1. \A k \in 1..Len(toks) : toks[k].pos \in P(i')
      BY <1>5, <1>7
    <3>2. \A k \in 1..Len(toks) : toks[k].pos.off \in 1..i
      BY <1>7 DEF P
    <3>3. QED
      BY <1>3, <1>6, <1>7, <3>1, <3>2
  <2>3. mode' \in Inside => start'.off >= Ended
    <3>1. Here.off >= Ended
      BY <1>6 DEF Here
    <3>2. QED
      BY <1>8, <1>9, <3>1 DEF Walks
  <2>4. QED
    <3> HIDE DEF P
    <3>1. QED
      BY <1>0, <1>7, <2>1, <2>2, <2>3
<1>10. ASSUME \E t : Makes(t) \/ Opens(t) PROVE Fine
  <2>1. PICK t : Makes(t) \/ Opens(t)
    BY <1>10
  <2>2. /\ toks' = Append(toks, t) /\ t.end = i' /\ mode' \notin Inside
        /\ (mode \in Inside /\ t.pos = start) \/ t.pos = Here
    BY <2>1 DEF Makes, Opens, Inside
  <2>3. t.pos \in P(i) /\ t.pos.off \in 1..i /\ t.pos.off >= Ended
    BY <1>5, <1>6, <1>8, <2>2 DEF Here
  <2>4. /\ Len(toks') = Len(toks) + 1 /\ \E A : toks' \in Seq(A)
        /\ toks'[Len(toks) + 1] = t /\ \A k \in 1..Len(toks) : toks'[k] = toks[k]
    BY <1>0, <2>2, Appended
  <2>5. SUFFICES ASSUME NEW k \in 1..Len(toks')
                 PROVE  /\ toks'[k].pos \in P(i') /\ toks'[k].end \in toks'[k].pos.off..i'
                        /\ k > 1 => toks'[k].pos.off >= toks'[k - 1].end
    BY <2>2, <2>4
  <2>6. CASE k = Len(toks) + 1
    <3>1. toks'[k] = t /\ t.pos \in P(i') /\ t.end \in t.pos.off..i'
      BY <1>0, <1>3, <1>5, <2>2, <2>3, <2>4, <2>6
    <3>2. k > 1 => toks # << >> /\ toks'[k - 1] = toks[Len(toks)]
      BY <1>6, <2>4, <2>6
    <3>3. QED
      BY <1>6, <2>3, <3>1, <3>2
  <2>7. CASE k \in 1..Len(toks)
    <3>1. toks'[k] = toks[k] /\ (k > 1 => toks'[k - 1] = toks[k - 1])
      BY <1>6, <2>4, <2>7
    <3>2. toks[k].pos \in P(i) /\ toks[k].end \in toks[k].pos.off..i /\ (k > 1 => toks[k].pos.off >= toks[k - 1].end)
      BY <1>7, <2>7
    <3>3. toks[k].pos.off \in 1..i
      BY <3>2
    <3>4. QED
      <4> HIDE DEF P
      <4>1. QED
        BY <1>3, <1>5, <1>6, <3>1, <3>2, <3>3
  <2>8. QED
    BY <1>6, <2>4, <2>6, <2>7
<1>11. Fine
  BY <1>0, <1>9, <1>10 DEF Shape
<1>12. start' \in P(i')
  <2> HIDE DEF P
  <2>1. QED
    BY <1>4, <1>5
<1>13. src' \in Sources /\ i' \in 1..(Len(src') + 1) /\ resume' \in 0..(Len(src') + 1)
       /\ (resume' # 0 => Find(i, {"\n"})' < resume')
  BY <1>0, <1>1, <1>2, <1>3
<1>14. QED
  BY <1>1, <1>11, <1>12, <1>13 DEF TypeInv

\* The inductive type invariant holds at the start.
LEMMA TypedAtFirst == Init => TypeInv
<1>1. SUFFICES ASSUME Init PROVE TypeInv
  OBVIOUS
<1>2. \A s \in Sources : s \in Seq(STRING)
  BY LexerAssumption
<1>3. src \in Seq(STRING) /\ Len(src) \in Nat
  BY <1>1, <1>2 DEF Init
<1>4. toks = << >> /\ toks \in Seq({}) /\ Len(toks) = 0
  BY <1>1 DEF Init
<1>5. /\ src \in Sources /\ i \in 1..(Len(src) + 1) /\ resume = 0 /\ line \in Nat \ {0} /\ col \in Nat \ {0}
      /\ mode \notin Inside /\ start \in [off : 1..i, line : Nat \ {0}, col : Nat \ {0}]
  BY <1>1, <1>3 DEF Init, Here, Inside
<1>6. /\ \E A : toks \in Seq(A)
      /\ \A k \in 1..Len(toks) :
           /\ toks[k].pos \in [off : 1..i, line : Nat \ {0}, col : Nat \ {0}]
           /\ toks[k].end \in toks[k].pos.off..i
           /\ k > 1 => toks[k].pos.off >= toks[k - 1].end
  <2>1. \A k \in 1..Len(toks) : FALSE
    BY <1>4
  <2>2. QED
    BY Zenon, <1>4, <2>1
<1>7. QED
  BY <1>3, <1>5, <1>6 DEF TypeInv

\* The inductive type invariant holds always.
LEMMA AlwaysTyped == Spec => []TypeInv
<1>1. TypeInv /\ UNCHANGED vars => TypeInv'
  BY DEF TypeInv, vars, place, token, Ended, Find
<1>2. QED
  BY <1>1, TypedAtFirst, Typed, PTL DEF Spec

-----------------------------------------------------------------------------
(* Heredoc bodies *)

\* The scanner at x is on the line of t, to go on behind its body, or is behind it.
Over(t, x, r) == (Find(x, {"\n"}) = LineEnd(t) /\ r = BodyEnd(t)) \/ x >= BodyEnd(t)
Clear(t, x) == x <= LineEnd(t) \/ x >= BodyEnd(t)
Bounded(t) ==
  /\ LineEnd(t) \in t.end..Len(src) /\ BodyEnd(t) \in (LineEnd(t) + 1)..(Len(src) + 1)
  /\ BodyEnd(t) <= Len(src) => src[BodyEnd(t)] = "\n"

DocInv ==
  /\ \A k \in Heredocs :
       /\ Bounded(toks[k])
       /\ Alone(k, Len(toks)) => Over(toks[k], i, resume) /\ Clear(toks[k], start.off)
  /\ resume # 0 => \E k \in Heredocs : Find(i, {"\n"}) = LineEnd(toks[k]) /\ resume = BodyEnd(toks[k])

\* Lines and bodies do not depend on anything but the text.
LEMMA SameDocs ==
  ASSUME src' = src
  PROVE  /\ \A t : LineEnd(t)' = LineEnd(t)
         /\ \A t : BodyEnd(t)' = BodyEnd(t)
         /\ \A t : Bounded(t)' = Bounded(t)
         /\ \A t, x, r : Over(t, x, r)' = Over(t, x, r)
         /\ \A t, x : Clear(t, x)' = Clear(t, x)
<1>1. \A t : LineEnd(t)' = LineEnd(t)
  BY SameText DEF LineEnd
<1>2. \A t : BodyEnd(t)' = BodyEnd(t)
  BY SameText, <1>1 DEF BodyEnd
<1>3. \A t : Bounded(t)' = Bounded(t)
  BY <1>1, <1>2 DEF Bounded
<1>4. \A t, x, r : Over(t, x, r)' = Over(t, x, r)
  BY SameText, <1>1, <1>2 DEF Over
<1>5. \A t, x : Clear(t, x)' = Clear(t, x)
  BY <1>1, <1>2 DEF Clear
<1>6. QED
  BY <1>1, <1>2, <1>3, <1>4, <1>5

\* A scanner that is on the line of a heredoc or behind its body is not in it.
LEMMA OverIsClear ==
  ASSUME Text, NEW t, Bounded(t), NEW x \in 1..(Len(src) + 1), NEW r, Over(t, x, r)
  PROVE  Clear(t, x)
<1>1. Find(x, {"\n"}) \in x..(Len(src) + 1)
  BY Found DEF Text
<1>2. QED
  BY <1>1 DEF Over, Clear, Text

\* A move within a line stays on it, and the end of the line leads behind the body.
LEMMA OverKept ==
  ASSUME TypeInv, Moved, NEW t, t.end \in Nat, Bounded(t), Over(t, i, resume)
  PROVE  Over(t, i', resume')
<1>0. Text /\ Len(src) \in Nat /\ i \in 1..(Len(src) + 1) /\ (resume # 0 => Find(i, {"\n"}) < resume)
  BY TextKnown DEF TypeInv, Text
<1>1. LineEnd(t) \in Nat /\ BodyEnd(t) \in Nat /\ BodyEnd(t) > LineEnd(t) /\ resume \in Nat
  BY <1>0 DEF Bounded, TypeInv
<1>2. CASE \E m \in 0..3 : Ahead(m)
  <2>1. PICK m \in 0..3 : Ahead(m)
    BY <1>2
  <2>2. i' = i + m /\ i' \in i..(Len(src) + 1) /\ resume' = resume /\ \A j \in i..(i' - 1) : src[j] # "\n"
    BY <1>0, <2>1 DEF Ahead
  <2>3. Find(i, {"\n"}) = Find(i', {"\n"})
    BY <1>0, <2>2, FindSkips
  <2>4. i >= BodyEnd(t) => i' >= BodyEnd(t)
    BY <1>0, <1>1, <2>2
  <2>5. QED
    BY <2>2, <2>3, <2>4 DEF Over
<1>3. CASE Crossed
  <2>1. i' = IF resume # 0 THEN resume ELSE i + 1
    BY <1>3 DEF Crossed, Cross
  <2>2. Find(i, {"\n"}) \in i..(Len(src) + 1)
    BY <1>0, Found DEF Text
  <2>3. i' \in Int /\ i' >= i
    BY <1>0, <1>1, <2>1, <2>2
  <2>4. CASE Find(i, {"\n"}) = LineEnd(t) /\ resume = BodyEnd(t)
    BY <1>1, <2>1, <2>4 DEF Over
  <2>5. CASE i >= BodyEnd(t)
    <3>1. i' >= BodyEnd(t)
      BY <1>0, <1>1, <2>3, <2>5
    <3>2. QED
      BY <3>1 DEF Over
  <2>6. QED
    BY <2>4, <2>5 DEF Over
<1>4. QED
  BY <1>2, <1>3 DEF Moved

\* What the heredocs are after a token t is added.
LEMMA HeredocsAdded ==
  ASSUME TypeInv, src' = src, NEW t, toks' = Append(toks, t)
  PROVE  /\ \A k \in Heredocs' : k \in Heredocs \/ (k = Len(toks) + 1 /\ t.kind = "HEREDOC")
         /\ \A k \in Heredocs : k \in Heredocs' /\ toks'[k] = toks[k] /\ k # Len(toks) + 1
         /\ t.kind = "HEREDOC" => Len(toks) + 1 \in Heredocs'
         /\ \A k \in Heredocs, n \in 0..Len(toks) : Alone(k, n)' => Alone(k, n)
         /\ \A k \in Heredocs : Alone(k, Len(toks))' =>
              Alone(k, Len(toks)) /\ (t.kind = "HEREDOC" => LineEnd(t) # LineEnd(toks[k]))
<1>1. /\ Len(toks) \in Nat /\ Len(toks') = Len(toks) + 1
      /\ toks'[Len(toks) + 1] = t /\ \A k \in 1..Len(toks) : toks'[k] = toks[k]
  BY Appended DEF TypeInv
<1>2. /\ \A k \in 1..Len(toks') : k \in 1..Len(toks) \/ k = Len(toks) + 1
      /\ \A k \in 1..Len(toks) : k \in 1..Len(toks') /\ k # Len(toks) + 1
      /\ Len(toks) + 1 \in 1..Len(toks')
  BY <1>1
<1>3. /\ \A k \in Heredocs' : k \in Heredocs \/ (k = Len(toks) + 1 /\ t.kind = "HEREDOC")
      /\ \A k \in Heredocs : k \in Heredocs' /\ toks'[k] = toks[k] /\ k # Len(toks) + 1
      /\ t.kind = "HEREDOC" => Len(toks) + 1 \in Heredocs'
  BY <1>1, <1>2 DEF Heredocs
<1>4. \A u : LineEnd(u)' = LineEnd(u)
  BY SameDocs
<1>5. \A k \in Heredocs, n \in 0..Len(toks) : Alone(k, n)' => Alone(k, n)
  BY <1>3, <1>4 DEF Alone
<1>6. \A k \in Heredocs : Alone(k, Len(toks))' =>
        Alone(k, Len(toks)) /\ (t.kind = "HEREDOC" => LineEnd(t) # LineEnd(toks[k]))
  <2>1. SUFFICES ASSUME NEW k \in Heredocs, \A h \in Heredocs' : h <= Len(toks') /\ h # k => LineEnd(toks'[h]) # LineEnd(toks'[k])
                 PROVE  Alone(k, Len(toks)) /\ (t.kind = "HEREDOC" => LineEnd(t) # LineEnd(toks[k]))
    BY <1>4 DEF Alone
  <2>2. Alone(k, Len(toks))
    <3>1. SUFFICES ASSUME NEW h \in Heredocs, h <= Len(toks), h # k PROVE LineEnd(toks[h]) # LineEnd(toks[k])
      BY DEF Alone
    <3>2. h \in Heredocs' /\ h <= Len(toks') /\ toks'[h] = toks[h] /\ toks'[k] = toks[k]
      BY <1>1, <1>3, <3>1 DEF Heredocs
    <3>3. QED
      BY <2>1, <3>1, <3>2
  <2>3. ASSUME t.kind = "HEREDOC" PROVE LineEnd(t) # LineEnd(toks[k])
    <3>1. Len(toks) + 1 \in Heredocs' /\ Len(toks) + 1 <= Len(toks') /\ k # Len(toks) + 1 /\ toks'[k] = toks[k]
      <4>1. Len(toks) + 1 <= Len(toks')
        BY <1>1
      <4>2. QED
        BY Zenon, <1>3, <2>3, <4>1
    <3>2. QED
      BY <1>1, <2>1, <3>1
  <2>4. QED
    BY <2>2, <2>3
<1>7. QED
  BY <1>3, <1>5, <1>6

\* No token is in the body of a heredoc that is alone on its line.
Unseen == \A k \in Heredocs, m \in 1..Len(toks) : Alone(k, m) => Clear(toks[k], toks[m].pos.off)

\* What is known of a heredoc when it is opened.
LEMMA Opened ==
  ASSUME TypeInv, src' = src, NEW t, Opens(t)
  PROVE  /\ Bounded(t) /\ t.end \in Nat /\ t.kind = "HEREDOC" /\ toks' = Append(toks, t) /\ start' = start
         /\ i' > i /\ i' = t.end /\ t.pos = Here /\ resume' = BodyEnd(t)
         /\ Find(i', {"\n"}) = LineEnd(t) /\ Find(i, {"\n"}) = LineEnd(t) /\ i <= LineEnd(t)
<1>0. Text /\ Len(src) \in Nat /\ i \in 1..(Len(src) + 1)
  BY TextKnown DEF TypeInv, Text
<1>1. /\ t.end = i' /\ resume' = BodyEnd(t) /\ i' \in (i + 1)..(Len(src) + 1) /\ LineEnd(t) + 1 <= Len(src) + 1
      /\ \A j \in i..(i' - 1) : src[j] # "\n"
      /\ Beyond(LineEnd(t) + 1, Tag(SubSeq(src, t.pos.off + 2, t.end - 2))) # {}
      /\ t.kind = "HEREDOC" /\ toks' = Append(toks, t) /\ start' = start /\ t.pos = Here
  BY DEF Opens
<1>2. i' \in 1..(Len(src) + 1) /\ i' \in i..(Len(src) + 1) /\ i' > i /\ i' \in Nat
  BY <1>0, <1>1
<1>3. LineEnd(t) = Find(i', {"\n"}) /\ LineEnd(t) \in i'..(Len(src) + 1)
  BY <1>0, <1>1, <1>2, Found DEF LineEnd, Text
<1>4. Find(i, {"\n"}) = Find(i', {"\n"})
  BY <1>0, <1>1, <1>2, FindSkips
<1>5. LineEnd(t) \in i'..Len(src) /\ LineEnd(t) + 1 \in 1..(Len(src) + 1) /\ i <= LineEnd(t)
  BY <1>0, <1>1, <1>2, <1>3
<1>6. BodyEnd(t) \in (LineEnd(t) + 1)..(Len(src) + 1) /\ (BodyEnd(t) <= Len(src) => src[BodyEnd(t)] = "\n")
  BY <1>0, <1>1, <1>5, BodyBehind
<1>7. QED
  BY <1>1, <1>2, <1>3, <1>4, <1>5, <1>6 DEF Bounded

\* Bodies are jumped over by every step.
LEMMA DocStep ==
  ASSUME TypeInv, DocInv, Unseen, Next
  PROVE  DocInv' /\ Unseen'
<1>0. /\ Shape /\ src' = src /\ Text /\ Len(src) \in Nat /\ i \in 1..(Len(src) + 1) /\ Len(toks) \in Nat
      /\ start.off \in 1..i
  BY StepShape, TextKnown, EndedIs DEF TypeInv, Text
<1>1. /\ \A t : LineEnd(t)' = LineEnd(t)
      /\ \A t : BodyEnd(t)' = BodyEnd(t)
      /\ \A t : Bounded(t)' = Bounded(t)
      /\ \A t, x, r : Over(t, x, r)' = Over(t, x, r)
      /\ \A t, x : Clear(t, x)' = Clear(t, x)
      /\ \A k, S : Find(k, S)' = Find(k, S)
  BY <1>0, SameDocs, SameText
<1>2. \A k \in Heredocs : /\ k \in 1..Len(toks) /\ toks[k].end \in Nat /\ toks[k].end <= i
                          /\ toks[k].pos.off \in Nat /\ Bounded(toks[k])
  <2>1. SUFFICES ASSUME NEW k \in Heredocs
                 PROVE  /\ k \in 1..Len(toks) /\ toks[k].end \in Nat /\ toks[k].end <= i
                        /\ toks[k].pos.off \in Nat /\ Bounded(toks[k])
    OBVIOUS
  <2>2. k \in 1..Len(toks) /\ Bounded(toks[k])
    BY DEF Heredocs, DocInv
  <2>3. /\ toks[k].pos \in [off : 1..i, line : Nat \ {0}, col : Nat \ {0}]
        /\ toks[k].end \in toks[k].pos.off..i
    BY <2>2 DEF TypeInv
  <2>4. QED
    BY <1>0, <2>2, <2>3
<1>3. \A k \in Heredocs : Alone(k, Len(toks)) =>
        Over(toks[k], i, resume) /\ Clear(toks[k], start.off) /\ Clear(toks[k], i)
  <2>1. SUFFICES ASSUME NEW k \in Heredocs, Alone(k, Len(toks))
                 PROVE  Over(toks[k], i, resume) /\ Clear(toks[k], start.off) /\ Clear(toks[k], i)
    OBVIOUS
  <2>2. Over(toks[k], i, resume) /\ Clear(toks[k], start.off)
    BY <2>1 DEF DocInv
  <2>3. QED
    BY <1>0, <1>2, <2>2, OverIsClear
<1>4. resume # 0 => \E k \in Heredocs : Find(i, {"\n"}) = LineEnd(toks[k]) /\ resume = BodyEnd(toks[k])
  BY DEF DocInv
\* The pending one stays pending, or its body is jumped over.
<1>5. ASSUME Moved, resume' # 0 PROVE resume' = resume /\ Find(i', {"\n"}) = Find(i, {"\n"})
  <2>1. PICK m \in 0..3 : Ahead(m)
    BY <1>5 DEF Moved, Crossed, Cross
  <2>2. i' = i + m /\ i' \in i..(Len(src) + 1) /\ resume' = resume /\ \A j \in i..(i' - 1) : src[j] # "\n"
    BY <1>0, <2>1 DEF Ahead
  <2>3. QED
    BY <1>0, <2>2, FindSkips
<1>6. ASSUME Moved
      PROVE  \A k \in Heredocs : Alone(k, Len(toks)) => Over(toks[k], i', resume')
  BY <1>2, <1>3, <1>6, OverKept
<1>7. ASSUME Walks PROVE DocInv' /\ Unseen'
  <2>1. toks' = toks /\ start' \in {start, Here} /\ Moved
    BY <1>7 DEF Walks
  <2>2. Heredocs' = Heredocs
    BY <2>1 DEF Heredocs
  <2>3. \A k, n : Alone(k, n)' = Alone(k, n)
    BY <1>1, <2>1, <2>2 DEF Alone
  <2>4. \A k \in Heredocs : Alone(k, Len(toks)) => Clear(toks[k], start'.off)
    BY <1>3, <2>1 DEF Here
  <2>5. DocInv'
    BY <1>1, <1>2, <1>4, <1>5, <1>6, <2>1, <2>2, <2>3, <2>4 DEF DocInv
  <2>6. Unseen'
    BY <1>1, <2>1, <2>2, <2>3 DEF Unseen
  <2>7. QED
    BY <2>5, <2>6
<1>8. ASSUME NEW t, Makes(t) \/ Opens(t) PROVE DocInv' /\ Unseen'
  <2>1. /\ toks' = Append(toks, t) /\ start' = start /\ t.pos.off \in {start.off, i}
        /\ t.kind = "HEREDOC" => Opens(t)
        /\ t.kind # "HEREDOC" => Moved
    BY <1>8 DEF Makes, Opens, Moved, Here
  <2>2. /\ \A k \in Heredocs' : k \in Heredocs \/ (k = Len(toks) + 1 /\ t.kind = "HEREDOC")
        /\ \A k \in Heredocs : k \in Heredocs' /\ toks'[k] = toks[k] /\ k # Len(toks) + 1
        /\ t.kind = "HEREDOC" => Len(toks) + 1 \in Heredocs'
        /\ \A k \in Heredocs, n \in 0..Len(toks) : Alone(k, n)' => Alone(k, n)
        /\ \A k \in Heredocs : Alone(k, Len(toks))' =>
             Alone(k, Len(toks)) /\ (t.kind = "HEREDOC" => LineEnd(t) # LineEnd(toks[k]))
    BY <1>0, <2>1, HeredocsAdded
  <2>3. /\ Len(toks') = Len(toks) + 1
        /\ toks'[Len(toks) + 1] = t /\ \A k \in 1..Len(toks) : toks'[k] = toks[k]
    BY <2>1, Appended DEF TypeInv
  <2>4. ASSUME t.kind = "HEREDOC"
        PROVE  /\ Bounded(t) /\ t.end \in Nat /\ i' > i /\ i' = t.end /\ resume' = BodyEnd(t)
               /\ Find(i', {"\n"}) = LineEnd(t) /\ Find(i, {"\n"}) = LineEnd(t) /\ i <= LineEnd(t)
    BY <1>0, <2>1, <2>4, Opened
  <2>5. \A k \in Heredocs : Alone(k, Len(toks))' => Over(toks[k], i', resume') /\ Clear(toks[k], start.off)
    <3>1. SUFFICES ASSUME NEW k \in Heredocs, Alone(k, Len(toks))'
                   PROVE  Over(toks[k], i', resume') /\ Clear(toks[k], start.off)
      OBVIOUS
    <3>2. /\ Alone(k, Len(toks)) /\ Over(toks[k], i, resume) /\ Clear(toks[k], start.off)
          /\ t.kind = "HEREDOC" => LineEnd(t) # LineEnd(toks[k])
      BY <1>3, <2>2, <3>1
    <3>3. CASE t.kind = "HEREDOC"
      <4>1. i >= BodyEnd(toks[k])
        BY <2>4, <3>2, <3>3 DEF Over
      <4>2. i' \in Int /\ BodyEnd(toks[k]) \in Int
        BY <1>0, <1>2, <2>4, <3>3 DEF Bounded
      <4>3. i' >= BodyEnd(toks[k])
        BY <1>0, <2>4, <3>3, <4>1, <4>2
      <4>4. QED
        BY <3>2, <4>3 DEF Over
    <3>4. CASE t.kind # "HEREDOC"
      BY <1>6, <2>1, <3>2, <3>4
    <3>5. QED
      BY <3>3, <3>4
  <2>6. DocInv'
    <3>1. \A k \in Heredocs' :
            Bounded(toks'[k]) /\ (Alone(k, Len(toks))' => Over(toks'[k], i', resume') /\ Clear(toks'[k], start'.off))
      <4>1. SUFFICES ASSUME NEW k \in Heredocs'
                     PROVE  Bounded(toks'[k]) /\ (Alone(k, Len(toks))' => Over(toks'[k], i', resume') /\ Clear(toks'[k], start'.off))
        OBVIOUS
      <4>2. CASE k \in Heredocs
        BY <1>2, <2>1, <2>2, <2>5, <4>2
      <4>3. CASE k = Len(toks) + 1 /\ t.kind = "HEREDOC"
        <5>1. toks'[k] = t
          BY <2>3, <4>3
        <5>2. Clear(t, start.off)
          BY <1>0, <2>4, <4>3 DEF Clear, Bounded
        <5>3. QED
          BY <2>1, <2>4, <4>3, <5>1, <5>2 DEF Over
      <4>4. QED
        BY <2>2, <4>2, <4>3
    <3>2. resume' # 0 => \E k \in Heredocs' : Find(i', {"\n"}) = LineEnd(toks'[k]) /\ resume' = BodyEnd(toks'[k])
      <4>1. CASE t.kind = "HEREDOC"
        BY <2>2, <2>3, <2>4, <4>1
      <4>2. CASE t.kind # "HEREDOC"
        BY <1>4, <1>5, <2>1, <2>2, <4>2
      <4>3. QED
        BY <4>1, <4>2
    <3>3. QED
      BY <1>1, <3>1, <3>2 DEF DocInv
  <2>7. Unseen'
    <3>1. SUFFICES ASSUME NEW k \in Heredocs', NEW m \in 1..Len(toks'), Alone(k, m)'
                   PROVE  Clear(toks'[k], toks'[m].pos.off)
      BY <1>1 DEF Unseen
    <3>2. m \in 1..Len(toks) \/ m = Len(toks')
      BY <1>0, <2>3
    <3>3. CASE k \in Heredocs /\ m \in 1..Len(toks)
      <4>1. Alone(k, m) /\ toks'[k] = toks[k] /\ toks'[m] = toks[m]
        BY <1>0, <2>2, <2>3, <3>1, <3>3
      <4>2. QED
        BY <3>3, <4>1 DEF Unseen
    <3>4. CASE k \in Heredocs /\ m = Len(toks')
      <4>1. Alone(k, Len(toks)) /\ toks'[k] = toks[k] /\ toks'[m] = t
        BY <1>0, <2>2, <2>3, <3>1, <3>4
      <4>2. QED
        BY <1>3, <2>1, <3>4, <4>1
    <3>5. CASE k = Len(toks) + 1 /\ t.kind = "HEREDOC"
      <4>1. toks'[k] = t
        BY <2>3, <3>5
      <4>2. toks'[m].pos.off \in 1..i
        BY <1>0, <2>1, <2>3, <3>2 DEF TypeInv
      <4>3. QED
        BY <1>0, <2>4, <3>5, <4>1, <4>2 DEF Clear, Bounded
    <3>6. QED
      BY <2>2, <3>2, <3>3, <3>4, <3>5
  <2>8. QED
    BY <2>6, <2>7
<1>9. QED
  BY <1>0, <1>7, <1>8 DEF Shape

\* Bodies are always jumped over.
LEMMA AlwaysDocs == Spec => [](DocInv /\ Unseen)
<1>1. Init => DocInv /\ Unseen
  BY DEF Init, DocInv, Unseen, Heredocs
<1>2. DocInv /\ Unseen /\ UNCHANGED vars => DocInv' /\ Unseen'
  <2>1. SUFFICES ASSUME DocInv, Unseen, UNCHANGED vars PROVE DocInv' /\ Unseen'
    OBVIOUS
  <2>2. src' = src /\ toks' = toks /\ i' = i /\ resume' = resume /\ start' = start
    BY <2>1 DEF vars, place, token
  <2>3. /\ \A t : LineEnd(t)' = LineEnd(t)
        /\ \A t : BodyEnd(t)' = BodyEnd(t)
        /\ \A t : Bounded(t)' = Bounded(t)
        /\ \A t, x, r : Over(t, x, r)' = Over(t, x, r)
        /\ \A t, x : Clear(t, x)' = Clear(t, x)
        /\ \A k, S : Find(k, S)' = Find(k, S)
    BY <2>2, SameDocs, SameText
  <2>4. Heredocs' = Heredocs
    BY <2>2 DEF Heredocs
  <2>5. \A k, n : Alone(k, n)' = Alone(k, n)
    BY <2>2, <2>3, <2>4 DEF Alone
  <2>6. QED
    BY <2>1, <2>2, <2>3, <2>4, <2>5 DEF DocInv, Unseen
<1>3. QED
  BY <1>1, <1>2, DocStep, AlwaysTyped, PTL DEF Spec

-----------------------------------------------------------------------------
(* The bodies that count *)

\* Of the heredocs of a line the last one says where the scanner goes on: it is on that
\* heredoc's line or behind its body. Nothing begins in a body.
JumpInv ==
  /\ \A k \in Lasts : Over(toks[k], i, resume)
  /\ resume # 0 => \E k \in Lasts : Find(i, {"\n"}) = LineEnd(toks[k]) /\ resume = BodyEnd(toks[k])
  /\ start.off \notin Bodies
  /\ \A k \in 1..Len(toks) : toks[k].pos.off \notin Bodies

\* Every heredoc has its place in the text.
LEMMA LastsAre ==
  ASSUME TypeInv, DocInv
  PROVE  \A k \in Heredocs :
           /\ k \in 1..Len(toks) /\ Bounded(toks[k]) /\ toks[k].end \in Nat
           /\ LineEnd(toks[k]) \in Nat /\ BodyEnd(toks[k]) \in Nat
<1>1. SUFFICES ASSUME NEW k \in Heredocs
               PROVE  /\ k \in 1..Len(toks) /\ Bounded(toks[k]) /\ toks[k].end \in Nat
                      /\ LineEnd(toks[k]) \in Nat /\ BodyEnd(toks[k]) \in Nat
  OBVIOUS
<1>2. k \in 1..Len(toks) /\ Bounded(toks[k]) /\ i \in Nat /\ Len(src) \in Nat
  BY TextKnown DEF Heredocs, DocInv, TypeInv, Text
<1>3. toks[k].pos \in [off : 1..i, line : Nat \ {0}, col : Nat \ {0}] /\ toks[k].end \in toks[k].pos.off..i
  BY <1>2 DEF TypeInv
<1>4. QED
  BY <1>2, <1>3 DEF Bounded

\* No character of the line being read is in a body.
LEMMA LineUnseen ==
  ASSUME TypeInv, DocInv, JumpInv, NEW n \in i..(Len(src) + 1), \A j \in i..(n - 1) : src[j] # "\n"
  PROVE  \A j \in i..n : j \notin Bodies
<1>0. Text /\ Len(src) \in Nat /\ i \in 1..(Len(src) + 1) /\ n \in 1..(Len(src) + 1)
  BY TextKnown DEF TypeInv, Text
<1>1. Find(i, {"\n"}) = Find(n, {"\n"}) /\ Find(n, {"\n"}) \in n..(Len(src) + 1)
  BY <1>0, FindSkips, Found DEF Text
<1>2. SUFFICES ASSUME NEW j \in i..n, NEW k \in Lasts, j \in BodyOf(toks[k]) PROVE FALSE
  BY DEF Bodies
<1>3. LineEnd(toks[k]) \in Nat /\ BodyEnd(toks[k]) \in Nat
  BY LastsAre DEF Lasts
<1>4. Over(toks[k], i, resume) /\ j > LineEnd(toks[k]) /\ j < BodyEnd(toks[k])
  BY <1>0, <1>2, <1>3 DEF JumpInv, BodyOf
<1>5. QED
  BY <1>0, <1>1, <1>3, <1>4 DEF Over

\* What crossing the end of a line jumps over is a body.
LEMMA CrossedBodies ==
  ASSUME TypeInv, DocInv, JumpInv, Crossed
  PROVE  i' \in (i + 1)..(Len(src) + 1) /\ \A j \in (i + 1)..(i' - 1) : j \in Bodies
<1>0. /\ Text /\ Len(src) \in Nat /\ i \in 1..Len(src) /\ src[i] = "\n" /\ resume \in 0..(Len(src) + 1)
      /\ i' = IF resume # 0 THEN resume ELSE i + 1
  BY TextKnown DEF TypeInv, Text, Crossed, Cross
<1>1. CASE resume = 0
  BY <1>0, <1>1
<1>2. CASE resume # 0
  <2>1. PICK k \in Lasts : Find(i, {"\n"}) = LineEnd(toks[k]) /\ resume = BodyEnd(toks[k])
    BY <1>2 DEF JumpInv
  <2>2. Find(i, {"\n"}) = i
    BY <1>0, FoundAt
  <2>3. BodyEnd(toks[k]) \in (LineEnd(toks[k]) + 1)..(Len(src) + 1)
    BY LastsAre DEF Lasts, Bounded
  <2>4. i' = resume /\ resume \in (i + 1)..(Len(src) + 1) /\ BodyOf(toks[k]) = (i + 1)..(resume - 1)
    BY <1>0, <1>2, <2>1, <2>2, <2>3 DEF BodyOf
  <2>5. QED
    BY <2>1, <2>4 DEF Bodies
<1>3. QED
  BY <1>1, <1>2

\* A token that is no heredoc adds no body, and a heredoc none before its line ends.
LEMMA BodiesKept ==
  ASSUME TypeInv, DocInv, Next
  PROVE  /\ Walks \/ (\E t : Makes(t)) => Heredocs' = Heredocs /\ Lasts' = Lasts /\ Bodies' = Bodies
         /\ \A t : Opens(t) => Lasts' = {Len(toks) + 1} \cup {k \in Lasts : LineEnd(toks[k]) # LineEnd(t)}
         /\ \A j \in Int : j <= i' => (j \in Bodies' <=> j \in Bodies)
<1>0. /\ Shape /\ src' = src /\ Len(src) \in Nat /\ i \in 1..(Len(src) + 1) /\ Len(toks) \in Nat
  BY StepShape, TextKnown, EndedIs DEF TypeInv, Text
<1>1. /\ \A t : LineEnd(t)' = LineEnd(t)
      /\ \A t : BodyEnd(t)' = BodyEnd(t)
  BY <1>0, SameDocs
<1>2. \A t : BodyOf(t)' = BodyOf(t)
  BY <1>1 DEF BodyOf
<1>3. ASSUME Heredocs' = Heredocs, \A k \in Heredocs : toks'[k] = toks[k]
      PROVE  Lasts' = Lasts /\ Bodies' = Bodies
  <2>1. Lasts' = Lasts
    BY <1>1, <1>3 DEF Lasts
  <2>2. \A k \in Lasts : toks'[k] = toks[k]
    BY <1>3 DEF Lasts
  <2>3. QED
    BY <1>2, <2>1, <2>2 DEF Bodies
<1>4. CASE Walks
  <2>1. toks' = toks
    BY <1>4 DEF Walks
  <2>2. Heredocs' = Heredocs
    BY <2>1 DEF Heredocs
  <2>3. Heredocs' = Heredocs /\ Lasts' = Lasts /\ Bodies' = Bodies
    BY <1>3, <2>1, <2>2
  <2>4. \A t : ~Opens(t)
    <3>1. SUFFICES ASSUME NEW t, toks' = Append(toks, t) PROVE FALSE
      BY DEF Opens
    <3>2. Len(toks') = Len(toks) + 1
      BY <3>1, Appended DEF TypeInv
    <3>3. QED
      BY <1>0, <2>1, <3>2
  <2>5. QED
    BY <2>3, <2>4
<1>5. ASSUME NEW t, Makes(t)
      PROVE  /\ Heredocs' = Heredocs /\ Lasts' = Lasts /\ Bodies' = Bodies
             /\ \A u : ~Opens(u)
  <2>1. toks' = Append(toks, t) /\ t.kind # "HEREDOC"
    BY <1>5 DEF Makes
  <2>2. Heredocs' = Heredocs /\ \A k \in Heredocs : toks'[k] = toks[k]
    BY <1>0, <2>1, HeredocsAdded
  <2>3. \A u : ~Opens(u)
    <3>1. SUFFICES ASSUME NEW u, Opens(u) PROVE FALSE
      OBVIOUS
    <3>2. toks' = Append(toks, u) /\ u.kind = "HEREDOC"
      BY <3>1 DEF Opens
    <3>3. toks'[Len(toks) + 1] = u /\ toks'[Len(toks) + 1] = t
      BY <2>1, <3>2, Appended DEF TypeInv
    <3>4. QED
      BY <2>1, <3>2, <3>3
  <2>4. QED
    BY <1>3, <2>2, <2>3
<1>6. ASSUME NEW t, Opens(t)
      PROVE  /\ Lasts' = {Len(toks) + 1} \cup {k \in Lasts : LineEnd(toks[k]) # LineEnd(t)}
             /\ \A j \in Int : j <= i' => (j \in Bodies' <=> j \in Bodies)
             /\ ~Walks /\ \A u : ~Makes(u)
  <2>1. /\ Bounded(t) /\ t.kind = "HEREDOC" /\ toks' = Append(toks, t) /\ i' = t.end /\ t.end \in Nat
    BY <1>0, <1>6, Opened
  <2>2. /\ \A k \in Heredocs' : k \in Heredocs \/ k = Len(toks) + 1
        /\ \A k \in Heredocs : k \in Heredocs' /\ toks'[k] = toks[k] /\ k # Len(toks) + 1
        /\ Len(toks) + 1 \in Heredocs'
    BY <1>0, <2>1, HeredocsAdded
  <2>3. toks'[Len(toks) + 1] = t /\ Len(toks') = Len(toks) + 1
    BY <2>1, Appended DEF TypeInv
  <2>4. \A k \in Heredocs : k \in Int /\ k <= Len(toks)
    BY <1>0 DEF Heredocs
  <2>5. Lasts' = {k \in Heredocs' : \A h \in Heredocs' : LineEnd(toks'[h]) = LineEnd(toks'[k]) => h <= k}
    BY <1>1 DEF Lasts
  <2>6. Len(toks) + 1 \in Lasts'
    <3>1. \A h \in Heredocs' : h <= Len(toks) + 1
      BY <1>0, <2>2, <2>4
    <3>2. QED
      BY <2>2, <2>5, <3>1
  <2>7. \A k \in Heredocs : k \in Lasts' <=> k \in Lasts /\ LineEnd(toks[k]) # LineEnd(t)
    <3>1. SUFFICES ASSUME NEW k \in Heredocs
                   PROVE  k \in Lasts' <=> k \in Lasts /\ LineEnd(toks[k]) # LineEnd(t)
      OBVIOUS
    <3>2. ASSUME k \in Lasts' PROVE k \in Lasts /\ LineEnd(toks[k]) # LineEnd(t)
      <4>1. \A h \in Heredocs' : LineEnd(toks'[h]) = LineEnd(toks[k]) => h <= k
        BY <2>2, <2>5, <3>2
      <4>2. \A h \in Heredocs : LineEnd(toks[h]) = LineEnd(toks[k]) => h <= k
        BY <2>2, <4>1
      <4>3. ~(Len(toks) + 1 <= k)
        BY <1>0, <2>4
      <4>4. LineEnd(toks[k]) # LineEnd(t)
        BY <2>2, <2>3, <4>1, <4>3
      <4>5. QED
        BY <4>2, <4>4 DEF Lasts
    <3>3. ASSUME k \in Lasts, LineEnd(toks[k]) # LineEnd(t) PROVE k \in Lasts'
      <4>1. \A h \in Heredocs : LineEnd(toks[h]) = LineEnd(toks[k]) => h <= k
        BY <3>3 DEF Lasts
      <4>2. \A h \in Heredocs' : LineEnd(toks'[h]) = LineEnd(toks'[k]) => h <= k
        <5>1. SUFFICES ASSUME NEW h \in Heredocs', LineEnd(toks'[h]) = LineEnd(toks'[k]) PROVE h <= k
          OBVIOUS
        <5>2. h # Len(toks) + 1
          BY <2>2, <2>3, <3>3, <5>1
        <5>3. QED
          BY <2>2, <4>1, <5>1, <5>2
      <4>3. QED
        BY <2>2, <2>5, <4>2
    <3>4. QED
      BY <3>2, <3>3
  <2>8. Lasts' = {Len(toks) + 1} \cup {k \in Lasts : LineEnd(toks[k]) # LineEnd(t)}
    <3>1. \A k \in Lasts' : k \in Heredocs \/ k = Len(toks) + 1
      BY <2>2, <2>5
    <3>2. \A k \in Lasts : k \in Heredocs
      BY DEF Lasts
    <3>3. \A k : k \in Lasts' <=> k = Len(toks) + 1 \/ (k \in Lasts /\ LineEnd(toks[k]) # LineEnd(t))
      BY <2>6, <2>7, <3>1, <3>2
    <3>4. QED
      BY <3>3
  <2>9. \A j \in Int : j <= i' => (j \in Bodies' <=> j \in Bodies)
    <3>1. SUFFICES ASSUME NEW j \in Int, j <= i' PROVE j \in Bodies' <=> j \in Bodies
      OBVIOUS
    <3>2. j <= LineEnd(t) /\ LineEnd(t) \in Int
      BY <1>0, <2>1, <3>1 DEF Bounded
    <3>3. \A u : LineEnd(u) = LineEnd(t) => j \notin BodyOf(u)
      BY <3>2 DEF BodyOf
    <3>4. Bodies' = UNION {BodyOf(toks'[k]) : k \in Lasts'}
      BY <1>2 DEF Bodies
    <3>5. \A k \in Lasts : toks'[k] = toks[k]
      BY <2>2 DEF Lasts
    <3>6. ASSUME j \in Bodies' PROVE j \in Bodies
      <4>1. PICK k \in Lasts' : j \in BodyOf(toks'[k])
        BY <3>4, <3>6
      <4>2. k # Len(toks) + 1
        BY <2>3, <3>3, <4>1
      <4>3. k \in Lasts /\ toks'[k] = toks[k]
        BY <2>8, <3>5, <4>1, <4>2
      <4>4. QED
        BY <4>1, <4>3 DEF Bodies
    <3>7. ASSUME j \in Bodies PROVE j \in Bodies'
      <4>1. PICK k \in Lasts : j \in BodyOf(toks[k])
        BY <3>7 DEF Bodies
      <4>2. LineEnd(toks[k]) # LineEnd(t)
        BY <3>3, <4>1
      <4>3. k \in Lasts' /\ toks'[k] = toks[k]
        BY <2>8, <3>5, <4>1, <4>2
      <4>4. QED
        BY <3>4, <4>1, <4>3
    <3>8. QED
      BY <3>6, <3>7
  <2>10. ~Walks
    <3>1. Len(toks') # Len(toks)
      BY <1>0, <2>3
    <3>2. QED
      BY <3>1 DEF Walks
  <2>11. \A u : ~Makes(u)
    BY <1>5, <1>6
  <2>12. QED
    BY <2>8, <2>9, <2>10, <2>11
<1>7. QED
  BY <1>0, <1>4, <1>5, <1>6 DEF Shape

\* The scanner stays out of the bodies with every step.
LEMMA JumpStep ==
  ASSUME TypeInv, DocInv, JumpInv, Next
  PROVE  JumpInv'
<1>0. /\ Shape /\ src' = src /\ Text /\ Len(src) \in Nat /\ i \in 1..(Len(src) + 1) /\ Len(toks) \in Nat
      /\ start.off \in 1..i /\ i' \in i..(Len(src) + 1)
  BY StepShape, Onward, TextKnown, EndedIs DEF TypeInv, Text, Shape, Walks, Makes, Moved
<1>1. /\ \A t : LineEnd(t)' = LineEnd(t)
      /\ \A t : BodyEnd(t)' = BodyEnd(t)
      /\ \A t, x, r : Over(t, x, r)' = Over(t, x, r)
      /\ \A k, S : Find(k, S)' = Find(k, S)
  BY <1>0, SameDocs, SameText
<1>2. i \notin Bodies
  <2>1. \A j \in i..i : j \notin Bodies
    BY <1>0, LineUnseen
  <2>2. QED
    BY <1>0, <2>1
<1>3. \A k \in Lasts : k \in Heredocs /\ Over(toks[k], i, resume)
  BY DEF JumpInv, Lasts
<1>4. \A k \in Heredocs : Bounded(toks[k]) /\ toks[k].end \in Nat /\ BodyEnd(toks[k]) \in Nat
  BY LastsAre
<1>5. \A k \in 1..Len(toks) : toks[k].pos.off \in 1..i /\ toks[k].pos.off \notin Bodies
  BY DEF JumpInv, TypeInv
<1>6. \A j \in Int : j <= i' => (j \in Bodies' <=> j \in Bodies)
  BY BodiesKept
<1>7. start'.off \notin Bodies'
  <2>1. start' \in {start, Here}
    BY <1>0 DEF Shape, Walks, Makes, Opens
  <2>2. start'.off \in 1..i /\ start'.off \notin Bodies
    BY <1>0, <1>2, <2>1 DEF Here, JumpInv
  <2>3. QED
    BY <1>0, <1>6, <2>2
<1>8. \A k \in 1..Len(toks') : toks'[k].pos.off \notin Bodies'
  <2>1. ASSUME NEW t, toks' = Append(toks, t), t.pos \in {start, Here}
        PROVE  \A k \in 1..Len(toks') : toks'[k].pos.off \in 1..i /\ toks'[k].pos.off \notin Bodies
    <3>1. t.pos.off \in 1..i /\ t.pos.off \notin Bodies
      BY <1>0, <1>2, <2>1 DEF Here, JumpInv
    <3>2. /\ Len(toks') = Len(toks) + 1 /\ toks'[Len(toks) + 1] = t
          /\ \A k \in 1..Len(toks) : toks'[k] = toks[k]
      BY <2>1, Appended DEF TypeInv
    <3>3. \A k \in 1..Len(toks') : k \in 1..Len(toks) \/ k = Len(toks) + 1
      BY <1>0, <3>2
    <3>4. QED
      BY <1>5, <3>1, <3>2, <3>3
  <2>2. \A k \in 1..Len(toks') : toks'[k].pos.off \in 1..i /\ toks'[k].pos.off \notin Bodies
    <3>1. toks' = toks \/ \E t : toks' = Append(toks, t) /\ t.pos \in {start, Here}
      BY <1>0 DEF Shape, Walks, Makes, Opens
    <3>2. QED
      BY <1>5, <2>1, <3>1
  <2>3. QED
    BY <1>0, <1>6, <2>2
<1> DEFINE Jumps == /\ \A k \in Lasts' : Over(toks'[k], i', resume')
                    /\ resume' # 0 => \E k \in Lasts' : Find(i', {"\n"}) = LineEnd(toks'[k]) /\ resume' = BodyEnd(toks'[k])
<1>9. ASSUME Walks \/ \E t : Makes(t) PROVE Jumps
  <2>1. Moved /\ Lasts' = Lasts
    BY <1>9, BodiesKept DEF Walks, Makes, Moved
  <2>2. \A k \in Lasts : toks'[k] = toks[k]
    <3>1. \A k \in Heredocs : toks'[k] = toks[k]
      <4>1. toks' = toks \/ \E t : toks' = Append(toks, t)
        BY <1>9 DEF Walks, Makes
      <4>2. QED
        BY <1>0, <4>1, HeredocsAdded
    <3>2. QED
      BY <1>3, <3>1
  <2>3. \A k \in Lasts : Over(toks[k], i', resume')
    BY <1>3, <1>4, <2>1, OverKept
  <2>4. ASSUME resume' # 0 PROVE resume' = resume /\ Find(i', {"\n"}) = Find(i, {"\n"})
    <3>1. PICK m \in 0..3 : Ahead(m)
      BY <2>1, <2>4 DEF Moved, Crossed, Cross
    <3>2. i' = i + m /\ i' \in i..(Len(src) + 1) /\ resume' = resume /\ \A j \in i..(i' - 1) : src[j] # "\n"
      BY <1>0, <3>1 DEF Ahead
    <3>3. QED
      BY <1>0, <3>2, FindSkips
  <2>5. resume # 0 => \E k \in Lasts : Find(i, {"\n"}) = LineEnd(toks[k]) /\ resume = BodyEnd(toks[k])
    BY DEF JumpInv
  <2>6. QED
    BY <2>1, <2>2, <2>3, <2>4, <2>5
<1>10. ASSUME NEW t, Opens(t) PROVE Jumps
  <2>1. /\ Bounded(t) /\ t.end \in Nat /\ t.kind = "HEREDOC" /\ toks' = Append(toks, t)
        /\ i' > i /\ i' = t.end /\ resume' = BodyEnd(t)
        /\ Find(i', {"\n"}) = LineEnd(t) /\ Find(i, {"\n"}) = LineEnd(t)
    BY <1>0, <1>10, Opened
  <2>2. Lasts' = {Len(toks) + 1} \cup {k \in Lasts : LineEnd(toks[k]) # LineEnd(t)}
    BY <1>10, BodiesKept
  <2>3. toks'[Len(toks) + 1] = t /\ \A k \in Heredocs : toks'[k] = toks[k]
    BY <1>0, <2>1, Appended, HeredocsAdded DEF TypeInv
  <2>4. Over(t, i', resume')
    BY <2>1 DEF Over
  <2>5. ASSUME NEW k \in Lasts, LineEnd(toks[k]) # LineEnd(t) PROVE Over(toks[k], i', resume')
    <3>1. i >= BodyEnd(toks[k])
      BY <1>3, <2>1, <2>5 DEF Over
    <3>2. BodyEnd(toks[k]) \in Nat
      BY <1>3, <1>4
    <3>3. i' >= BodyEnd(toks[k])
      BY <1>0, <2>1, <3>1, <3>2
    <3>4. QED
      BY <3>3 DEF Over
  <2>6. QED
    BY <1>3, <2>1, <2>2, <2>3, <2>4, <2>5
<1>11. Jumps
  BY <1>0, <1>9, <1>10 DEF Shape
<1>12. QED
  BY <1>1, <1>7, <1>8, <1>11 DEF JumpInv

\* Nothing of the lexer's state but the text and the tokens says where the bodies are.
LEMMA SameBodies ==
  ASSUME src' = src, toks' = toks
  PROVE  Heredocs' = Heredocs /\ Lasts' = Lasts /\ Bodies' = Bodies
<1>1. /\ \A t : LineEnd(t)' = LineEnd(t)
      /\ \A t : BodyEnd(t)' = BodyEnd(t)
  BY SameDocs
<1>2. Heredocs' = Heredocs
  BY DEF Heredocs
<1>3. Lasts' = Lasts
  BY <1>1, <1>2 DEF Lasts
<1>4. \A t : BodyOf(t)' = BodyOf(t)
  BY <1>1 DEF BodyOf
<1>5. QED
  BY <1>2, <1>3, <1>4 DEF Bodies

\* The scanner is always out of the bodies.
LEMMA AlwaysJumps == Spec => []JumpInv
<1>1. Init => JumpInv
  <2>1. SUFFICES ASSUME Init PROVE JumpInv
    OBVIOUS
  <2>2. resume = 0 /\ toks = << >> /\ Len(toks) = 0
    BY <2>1 DEF Init
  <2>3. Lasts = {} /\ Bodies = {}
    BY <2>2 DEF Lasts, Heredocs, Bodies
  <2>4. QED
    BY <2>2, <2>3 DEF JumpInv
<1>2. JumpInv /\ UNCHANGED vars => JumpInv'
  <2>1. SUFFICES ASSUME JumpInv, UNCHANGED vars PROVE JumpInv'
    OBVIOUS
  <2>2. src' = src /\ toks' = toks /\ i' = i /\ resume' = resume /\ start' = start
    BY <2>1 DEF vars, place, token
  <2>3. /\ Lasts' = Lasts /\ Bodies' = Bodies
        /\ \A t : LineEnd(t)' = LineEnd(t)
        /\ \A t : BodyEnd(t)' = BodyEnd(t)
        /\ \A t, x, r : Over(t, x, r)' = Over(t, x, r)
        /\ \A k, S : Find(k, S)' = Find(k, S)
    BY <2>2, SameDocs, SameText, SameBodies
  <2>4. QED
    BY <2>1, <2>2, <2>3 DEF JumpInv
<1>3. QED
  BY <1>1, <1>2, JumpStep, AlwaysTyped, AlwaysDocs, PTL DEF Spec

\* No token ever begins in a body (adv, lexHeredoc).
LEMMA AlwaysUnseen == Spec => []BodyUnseen
<1>1. JumpInv => BodyUnseen
  BY DEF JumpInv, BodyUnseen
<1>2. QED
  BY <1>1, AlwaysJumps, PTL

-----------------------------------------------------------------------------
(* Positions *)

\* Where lines of the text s end, and where a column cannot count from, before off, when
\* the bodies are at J.
LineEnds(s, J, off) == {j \in 1..(off - 1) : s[j] = "\n" /\ j \notin J}
Stops(s, J, off) == {j \in 1..(off - 1) : s[j] = "\n" \/ j \in J}
PlacedIn(s, J, p) ==
  /\ p.line = 1 + Cardinality(LineEnds(s, J, p.off))
  /\ p.col = p.off - Max({0} \cup Stops(s, J, p.off))

\* The scanner knows the line and the column of the next character and of the token or
\* the comment in progress.
PlaceInv ==
  /\ PlacedIn(src, Bodies, Here) /\ PlacedIn(src, Bodies, start)
  /\ \A k \in 1..Len(toks) : PlacedIn(src, Bodies, toks[k].pos)

\* The ends of lines before a place are finitely many, and the last stop is one of them.
LEMMA StopsAre ==
  ASSUME NEW s, NEW J, NEW off \in Nat \ {0}
  PROVE  /\ IsFiniteSet(LineEnds(s, J, off)) /\ Cardinality(LineEnds(s, J, off)) \in Nat
         /\ Max({0} \cup Stops(s, J, off)) \in 0..(off - 1)
<1>1. LineEnds(s, J, off) \subseteq 1..(off - 1)
  BY DEF LineEnds
<1>2. IsFiniteSet(LineEnds(s, J, off)) /\ Cardinality(LineEnds(s, J, off)) \in Nat
  <2>1. IsFiniteSet(1..(off - 1))
    BY FS_Interval
  <2>2. QED
    BY <1>1, <2>1, FS_Subset, FS_CardinalityType
<1> DEFINE S == {0} \cup Stops(s, J, off)
<1>3. S \in SUBSET (0..(off - 1)) /\ S # {} /\ off - 1 \in Nat
  BY DEF Stops
<1>4. Max(S) \in S
  <2> HIDE DEF S
  <2>1. QED
    BY <1>3, MaxIs
<1>5. Max(S) \in 0..(off - 1)
  <2> HIDE DEF S
  <2>1. QED
    BY <1>3, <1>4
<1>6. QED
  BY <1>2, <1>5

\* Only the bodies before a place matter to it.
LEMMA PlacedSame ==
  ASSUME NEW s, NEW J, NEW K, NEW p, p.off \in Nat \ {0}, \A j \in 1..(p.off - 1) : j \in J <=> j \in K
  PROVE  PlacedIn(s, J, p) => PlacedIn(s, K, p)
<1>1. LineEnds(s, J, p.off) = LineEnds(s, K, p.off)
  BY DEF LineEnds
<1>2. Stops(s, J, p.off) = Stops(s, K, p.off)
  BY DEF Stops
<1>3. QED
  BY <1>1, <1>2 DEF PlacedIn

\* A place further on in the line keeps its line and counts its column on.
LEMMA PlacedAhead ==
  ASSUME NEW s, NEW J, NEW p, p.off \in Nat \ {0}, p.line \in Nat, p.col \in Nat, NEW q, NEW m \in Nat,
         q.off = p.off + m, q.line = p.line, q.col = p.col + m,
         \A j \in p.off..(p.off + m - 1) : s[j] # "\n" /\ j \notin J, PlacedIn(s, J, p)
  PROVE  PlacedIn(s, J, q)
<1>1. LineEnds(s, J, q.off) = LineEnds(s, J, p.off)
  BY DEF LineEnds
<1>2. Stops(s, J, q.off) = Stops(s, J, p.off)
  BY DEF Stops
<1> DEFINE x == Max({0} \cup Stops(s, J, p.off))
<1>3. p.col = p.off - x /\ x \in 0..(p.off - 1)
  BY StopsAre DEF PlacedIn
<1>4. q.col = q.off - x
  <2> HIDE DEF x
  <2>1. p.col + m = (p.off + m) - x
    BY <1>3
  <2>2. QED
    BY <2>1
<1>5. q.col = q.off - Max({0} \cup Stops(s, J, q.off))
  <2>1. Max({0} \cup Stops(s, J, q.off)) = x
    BY <1>2
  <2>2. QED
    BY Zenon, <1>4, <2>1
<1>6. q.line = 1 + Cardinality(LineEnds(s, J, q.off))
  BY <1>1 DEF PlacedIn
<1>7. QED
  BY Zenon, <1>5, <1>6 DEF PlacedIn

\* The place behind a newline, and a body that begins there, is the first column of the
\* next line.
LEMMA PlacedCrossed ==
  ASSUME NEW s, NEW J, NEW p, p.off \in Nat \ {0}, p.line \in Nat, PlacedIn(s, J, p),
         s[p.off] = "\n", p.off \notin J, NEW n \in Nat, n > p.off, \A j \in (p.off + 1)..(n - 1) : j \in J,
         NEW q, q.off = n, q.line = p.line + 1, q.col = 1
  PROVE  PlacedIn(s, J, q)
<1> DEFINE B == LineEnds(s, J, p.off)
<1>1. LineEnds(s, J, n) = B \cup {p.off} /\ p.off \notin B
  BY DEF LineEnds
<1>2. IsFiniteSet(B) /\ Cardinality(B) \in Nat
  BY StopsAre
<1>3. Cardinality(B \cup {p.off}) = Cardinality(B) + 1
  <2> HIDE DEF B
  <2>1. QED
    BY <1>1, <1>2, FS_AddElement
<1> DEFINE S == {0} \cup Stops(s, J, n)
<1>4. S \in SUBSET (0..(n - 1)) /\ S # {} /\ n - 1 \in S /\ n - 1 \in Nat
  <2>1. n - 1 = p.off \/ n - 1 \in (p.off + 1)..(n - 1)
    OBVIOUS
  <2>2. QED
    BY <2>1 DEF Stops
<1>5. Max(S) = n - 1
  <2> HIDE DEF S
  <2>1. Max(S) \in S /\ \A y \in S : Max(S) >= y
    BY <1>4, MaxIs
  <2>2. Max(S) \in 0..(n - 1) /\ Max(S) >= n - 1
    BY <1>4, <2>1
  <2>3. QED
    BY <1>4, <2>2
<1>6. q.line = 1 + Cardinality(LineEnds(s, J, q.off))
  <2>1. p.line = 1 + Cardinality(B)
    BY DEF PlacedIn
  <2> HIDE DEF B
  <2>2. QED
    BY <1>1, <1>2, <1>3, <2>1
<1>7. q.col = q.off - Max({0} \cup Stops(s, J, q.off))
  BY <1>5
<1>8. QED
  BY <1>6, <1>7 DEF PlacedIn

\* Positions stay true with every step.
LEMMA PlaceStep ==
  ASSUME TypeInv, DocInv, JumpInv, PlaceInv, Next
  PROVE  PlaceInv'
<1>0. /\ Shape /\ src' = src /\ Text /\ Len(src) \in Nat /\ i \in 1..(Len(src) + 1)
      /\ line \in Nat \ {0} /\ col \in Nat \ {0} /\ Len(toks) \in Nat /\ start.off \in 1..i
      /\ i' \in i..(Len(src) + 1)
  BY StepShape, Onward, TextKnown, EndedIs DEF TypeInv, Text, Shape, Walks, Makes, Moved
<1>1. Here.off = i /\ Here.line = line /\ Here.col = col /\ Here' = [off |-> i', line |-> line', col |-> col']
  BY DEF Here
<1>2. PlacedIn(src, Bodies, Here) /\ PlacedIn(src, Bodies, start)
      /\ \A k \in 1..Len(toks) : PlacedIn(src, Bodies, toks[k].pos) /\ toks[k].pos.off \in 1..i
  BY DEF PlaceInv, TypeInv
<1>3. ASSUME line' = line, col' = col + (i' - i), \A j \in i..(i' - 1) : src[j] # "\n"
      PROVE  PlacedIn(src, Bodies, Here')
  <2>1. \A j \in i..(i' - 1) : j \notin Bodies
    <3>1. \A j \in i..i' : j \notin Bodies
      BY <1>0, <1>3, LineUnseen
    <3>2. QED
      BY Where, <3>1
  <2> DEFINE m == i' - i
  <2>2. m \in Nat /\ i' = i + m /\ i' - 1 = i + m - 1
    BY Where
  <2>3. /\ Here.off \in Nat \ {0} /\ Here.line \in Nat /\ Here.col \in Nat
        /\ Here'.off = i' /\ Here'.line = line' /\ Here'.col = col'
    BY <1>0, <1>1
  <2>4. Here'.off = Here.off + m /\ Here'.line = Here.line /\ Here'.col = Here.col + m
    BY <1>1, <1>3, <2>2, <2>3
  <2>5. \A j \in Here.off..(Here.off + m - 1) : src[j] # "\n" /\ j \notin Bodies
    <3>1. \A j \in i..(i + m - 1) : src[j] # "\n" /\ j \notin Bodies
      BY <1>3, <2>1, <2>2
    <3> HIDE DEF m
    <3>2. QED
      BY <1>1, <3>1
  <2> HIDE DEF m
  <2>6. QED
    BY <1>2, <2>2, <2>3, <2>4, <2>5, PlacedAhead
<1>4. ASSUME Crossed PROVE PlacedIn(src, Bodies, Here')
  <2>1. line' = line + 1 /\ col' = 1 /\ src[i] = "\n"
    BY <1>4 DEF Crossed, Cross
  <2>2. i' \in (i + 1)..(Len(src) + 1) /\ \A j \in (i + 1)..(i' - 1) : j \in Bodies
    BY <1>4, CrossedBodies
  <2>3. i \notin Bodies
    <3>1. \A j \in i..i : j \notin Bodies
      BY <1>0, LineUnseen
    <3>2. QED
      BY <1>0, <3>1
  <2>4. /\ Here.off \in Nat \ {0} /\ Here.line \in Nat /\ src[Here.off] = "\n" /\ Here.off \notin Bodies
        /\ \A j \in (Here.off + 1)..(i' - 1) : j \in Bodies
    <3>1. Here.off \in Nat \ {0} /\ Here.line \in Nat
      BY <1>0, <1>1
    <3>2. QED
      BY Zenon, <1>1, <2>1, <2>2, <2>3, <3>1
  <2>5. i' \in Nat /\ i' > Here.off
    BY Where, <1>1, <2>2
  <2>6. Here'.off = i' /\ Here'.line = Here.line + 1 /\ Here'.col = 1
    BY <1>1, <2>1
  <2>7. QED
    BY <1>2, <2>4, <2>5, <2>6, PlacedCrossed
<1>5. PlacedIn(src, Bodies, Here')
  <2>1. CASE \E m \in 0..3 : Ahead(m)
    <3>1. PICK m \in 0..3 : Ahead(m)
      BY <2>1
    <3>2. line' = line /\ col' = col + (i' - i) /\ \A j \in i..(i' - 1) : src[j] # "\n"
      BY <1>0, <3>1 DEF Ahead
    <3>3. QED
      BY <1>3, <3>2
  <2>2. CASE \E t : Opens(t)
    <3>1. line' = line /\ col' = col + (i' - i) /\ \A j \in i..(i' - 1) : src[j] # "\n"
      BY <2>2 DEF Opens
    <3>2. QED
      BY <1>3, <3>1
  <2>3. QED
    BY <1>0, <1>4, <2>1, <2>2 DEF Shape, Walks, Makes, Moved
<1>6. \A p : p.off \in 1..i' /\ PlacedIn(src, Bodies, p) => PlacedIn(src, Bodies', p)
  <2>1. \A j \in Int : j <= i' => (j \in Bodies' <=> j \in Bodies)
    BY BodiesKept
  <2>2. SUFFICES ASSUME NEW p, p.off \in 1..i', PlacedIn(src, Bodies, p) PROVE PlacedIn(src, Bodies', p)
    OBVIOUS
  <2>3. p.off \in Nat \ {0} /\ \A j \in 1..(p.off - 1) : j \in Bodies <=> j \in Bodies'
    BY <1>0, <2>1, <2>2
  <2>4. QED
    BY <2>2, <2>3, PlacedSame
<1>7. PlacedIn(src, Bodies', Here') /\ PlacedIn(src, Bodies', start')
  <2>1. start' \in {start, Here}
    BY <1>0 DEF Shape, Walks, Makes, Opens
  <2>2. start'.off \in 1..i' /\ Here'.off \in 1..i' /\ PlacedIn(src, Bodies, start')
    BY <1>0, <1>1, <1>2, <2>1
  <2>3. QED
    BY <1>5, <1>6, <2>2
<1>8. \A k \in 1..Len(toks') : PlacedIn(src, Bodies', toks'[k].pos)
  <2>1. ASSUME NEW t, toks' = Append(toks, t), t.pos \in {start, Here}
        PROVE  \A k \in 1..Len(toks') : toks'[k].pos.off \in 1..i /\ PlacedIn(src, Bodies, toks'[k].pos)
    <3>1. t.pos.off \in 1..i /\ PlacedIn(src, Bodies, t.pos)
      BY <1>0, <1>1, <1>2, <2>1
    <3>2. /\ Len(toks') = Len(toks) + 1 /\ toks'[Len(toks) + 1] = t
          /\ \A k \in 1..Len(toks) : toks'[k] = toks[k]
      BY <2>1, Appended DEF TypeInv
    <3>3. \A k \in 1..Len(toks') : k \in 1..Len(toks) \/ k = Len(toks) + 1
      BY <1>0, <3>2
    <3>4. QED
      BY <1>2, <3>1, <3>2, <3>3
  <2>2. toks' = toks \/ \E t : toks' = Append(toks, t) /\ t.pos \in {start, Here}
    BY <1>0 DEF Shape, Walks, Makes, Opens
  <2>3. \A k \in 1..Len(toks') : toks'[k].pos.off \in 1..i /\ PlacedIn(src, Bodies, toks'[k].pos)
    BY <1>2, <2>1, <2>2
  <2>4. QED
    BY <1>0, <1>6, <2>3
<1>9. QED
  BY <1>0, <1>7, <1>8 DEF PlaceInv

\* Positions are always true (adv).
LEMMA AlwaysPlaced == Spec => []PlacesTrue
<1>1. Init => PlaceInv
  <2>1. SUFFICES ASSUME Init PROVE PlaceInv
    OBVIOUS
  <2>2. Here.off = 1 /\ Here.line = 1 /\ Here.col = 1 /\ start = Here /\ toks = << >>
    BY <2>1 DEF Init, Here
  <2>3. LineEnds(src, Bodies, 1) = {} /\ Stops(src, Bodies, 1) = {}
    BY DEF LineEnds, Stops
  <2>4. Cardinality({}) = 0
    BY FS_EmptySet
  <2>5. Max({0} \cup {}) = 0
    BY DEF Max
  <2>6. PlacedIn(src, Bodies, Here)
    <3>0. 1 = 1 + 0 /\ 1 = 1 - 0
      OBVIOUS
    <3>1. Here.line = 1 + Cardinality(LineEnds(src, Bodies, 1)) /\ Here.col = 1 - Max({0} \cup Stops(src, Bodies, 1))
      BY Zenon, <2>2, <2>3, <2>4, <2>5, <3>0
    <3>2. QED
      BY Zenon, <2>2, <3>1 DEF PlacedIn
  <2>7. QED
    BY <2>2, <2>6 DEF PlaceInv
<1>2. PlaceInv /\ UNCHANGED vars => PlaceInv'
  <2>1. SUFFICES ASSUME PlaceInv, UNCHANGED vars PROVE PlaceInv'
    OBVIOUS
  <2>2. src' = src /\ toks' = toks /\ start' = start /\ Here' = Here
    BY <2>1 DEF vars, place, token, Here
  <2>3. Bodies' = Bodies
    BY <2>2, SameBodies
  <2>4. QED
    BY <2>1, <2>2, <2>3 DEF PlaceInv
<1>3. PlaceInv => PlacesTrue
  BY DEF PlaceInv, PlacesTrue, LineOf, ColumnOf, PlacedIn, LineEnds, Stops
<1>4. QED
  BY <1>1, <1>2, <1>3, PlaceStep, AlwaysTyped, AlwaysDocs, AlwaysJumps, PTL DEF Spec

-----------------------------------------------------------------------------
(* The texts of words, numbers and operators *)

\* A slice with the next element.
LEMMA SliceGrows ==
  ASSUME NEW S, NEW s \in Seq(S), NEW a \in 1..(Len(s) + 1), NEW b \in a..Len(s)
  PROVE  /\ SubSeq(s, a, b - 1) \o <<s[b]>> = SubSeq(s, a, b)
         /\ Append(SubSeq(s, a, b - 1), s[b]) = SubSeq(s, a, b)
OBVIOUS

\* A slice with the next two elements.
LEMMA SliceGrowsByTwo ==
  ASSUME NEW S, NEW s \in Seq(S), NEW a \in 1..(Len(s) + 1), NEW b \in (a + 1)..Len(s)
  PROVE  SubSeq(s, a, b - 2) \o <<s[b - 1], s[b]>> = SubSeq(s, a, b)
OBVIOUS

\* A slice that ends before it begins.
LEMMA SliceOfNone ==
  ASSUME NEW S, NEW s \in Seq(S), NEW a \in 1..(Len(s) + 1)
  PROVE  SubSeq(s, a, a - 1) = << >>
OBVIOUS

Reading == {"word", "hex", "int", "fraction", "sign", "exponent"}

\* The text of a token in progress is what has been read of it.
Read == mode \in Reading => text = SubSeq(src, start.off, i - 1)

\* Reading one character, two, or none.
LEMMA ReadMore ==
  ASSUME TypeInv, Read, mode \in Reading, src' = src, start' = start
  PROVE  /\ Adv(1) /\ Peek # EOF /\ text' = text \o <<Peek>> => text' = SubSeq(src, start.off, i' - 1)
         /\ Adv(1) /\ Peek # EOF /\ text' = Append(text, Peek) => text' = SubSeq(src, start.off, i' - 1)
         /\ Adv(2) /\ Peek # EOF /\ At(1) # EOF /\ text' = text \o <<Peek, At(1)>> =>
              text' = SubSeq(src, start.off, i' - 1)
<1>0. /\ src \in Seq(STRING) /\ Len(src) \in Nat /\ i \in 1..(Len(src) + 1) /\ start.off \in 1..i
      /\ Peek = At(0) /\ (At(0) # EOF => i <= Len(src) /\ At(0) = src[i])
      /\ (At(1) # EOF => i + 1 <= Len(src) /\ At(1) = src[i + 1])
      /\ text = SubSeq(src, start.off, i - 1)
  BY TextKnown, Looked DEF TypeInv, Text, Read
<1>1. start.off \in 1..(Len(src) + 1)
  BY <1>0
<1>2. At(0) # EOF => SubSeq(src, start.off, i - 1) \o <<src[i]>> = SubSeq(src, start.off, i)
                     /\ Append(SubSeq(src, start.off, i - 1), src[i]) = SubSeq(src, start.off, i)
  <2>1. SUFFICES ASSUME At(0) # EOF
                 PROVE  /\ SubSeq(src, start.off, i - 1) \o <<src[i]>> = SubSeq(src, start.off, i)
                        /\ Append(SubSeq(src, start.off, i - 1), src[i]) = SubSeq(src, start.off, i)
    OBVIOUS
  <2>2. i \in start.off..Len(src)
    BY <1>0, <2>1
  <2>3. QED
    BY <1>0, <1>1, <2>2, SliceGrows
<1>3. At(0) # EOF /\ At(1) # EOF => SubSeq(src, start.off, i - 1) \o <<src[i], src[i + 1]>> = SubSeq(src, start.off, i + 1)
  <2>1. SUFFICES ASSUME At(0) # EOF, At(1) # EOF
                 PROVE  SubSeq(src, start.off, i - 1) \o <<src[i], src[i + 1]>> = SubSeq(src, start.off, i + 1)
    OBVIOUS
  <2>2. i + 1 \in (start.off + 1)..Len(src) /\ (i + 1) - 2 = i - 1 /\ (i + 1) - 1 = i
    BY <1>0, <2>1
  <2>3. SubSeq(src, start.off, (i + 1) - 2) \o <<src[(i + 1) - 1], src[i + 1]>> = SubSeq(src, start.off, i + 1)
    BY <1>0, <1>1, <2>2, SliceGrowsByTwo
  <2>4. QED
    BY <2>2, <2>3
<1>4. (Adv(1) => i' - 1 = i) /\ (Adv(2) => i' - 1 = i + 1)
  BY <1>0 DEF Adv
<1>5. QED
  BY <1>0, <1>2, <1>3, <1>4

\* The text of a token in progress stays what has been read of it.
LEMMA ReadStep ==
  ASSUME TypeInv, Read, Next
  PROVE  Read'
<1>0. /\ src' = src /\ Peek = At(0) /\ src \in Seq(STRING) /\ i \in 1..(Len(src) + 1) /\ i \in Nat
      /\ (At(0) # EOF => i <= Len(src) /\ At(0) = src[i])
      /\ (At(1) # EOF => i + 1 <= Len(src) /\ At(1) = src[i + 1])
      /\ \A c \in Letter \cup Digit \cup Hex \cup {":", ".", "+", "-", "e", "E", "0", "x", "X"} : c # EOF
  <2>1. \A c \in Letter \cup Digit \cup Hex \cup {":", ".", "+", "-", "e", "E", "0", "x", "X"} : c # EOF
    BY NotEnd DEF Punctuation
  <2>2. src' = src
    BY StepShape
  <2>3. QED
    BY <2>1, <2>2, TextKnown, Looked DEF TypeInv, Text
<1>1. SUFFICES ASSUME mode' \in Reading PROVE text' = SubSeq(src, start'.off, i' - 1)
  BY <1>0 DEF Read
<1>2. CASE SkipBlank \/ Comment \/ LineComment \/ BlockComment \/ EndOfFile \/ Operator \/ Heredoc
  BY <1>1, <1>2 DEF SkipBlank, Comment, LineComment, BlockComment, EndOfFile, Operator, Heredoc, Reading, token, Fail, Begins, Enter
<1>3. CASE Begin
  <2>1. start'.off = i
    BY <1>1, <1>3 DEF Begin, Fail, Reading, Begins, Enter, Here
  <2>2. \/ Stay /\ text' = << >>
        \/ Adv(2) /\ text' = <<Peek, At(1)>> /\ Peek # EOF /\ At(1) # EOF
    BY <1>0, <1>1, <1>3 DEF Begin, Fail, Reading, Begins, Enter
  <2>3. CASE Stay /\ text' = << >>
    BY <1>0, <2>1, <2>3, SliceOfNone DEF Stay, place
  <2>4. CASE Adv(2) /\ text' = <<Peek, At(1)>> /\ Peek # EOF /\ At(1) # EOF
    <3>1. i' - 1 = i + 1 /\ text' = <<src[i], src[i + 1]>> /\ i + 1 <= Len(src) /\ i + 1 \in i..Len(src)
      BY <1>0, <2>4 DEF Adv
    <3>2. SubSeq(src, i, i + 1) = <<src[i], src[i + 1]>>
      <4>1. i + 1 \in (i - 1)..Len(src) /\ i + 1 - i + 1 = 2
        BY <1>0, <3>1
      <4>2. /\ SubSeq(src, i, i + 1) \in Seq(STRING) /\ Len(SubSeq(src, i, i + 1)) = 2
            /\ \A k \in 1..2 : SubSeq(src, i, i + 1)[k] = src[i + k - 1]
        BY <1>0, <4>1, SliceIs
      <4>3. SubSeq(src, i, i + 1)[1] = src[i] /\ SubSeq(src, i, i + 1)[2] = src[i + 1]
        <5>1. i + 1 - 1 = i /\ i + 2 - 1 = i + 1
          BY <1>0
        <5>2. QED
          BY <4>2, <5>1
      <4>4. SubSeq(src, i, i + 1) = <<SubSeq(src, i, i + 1)[1], SubSeq(src, i, i + 1)[2]>>
        BY <4>2, PairIs
      <4>5. QED
        BY Zenon, <4>3, <4>4
    <3>3. QED
      BY <2>1, <3>1, <3>2
  <2>5. QED
    BY <2>2, <2>3, <2>4
<1>4. CASE Word
  <2>1. mode \in Reading /\ start' = start
    BY <1>1, <1>4 DEF Word, Continue, Emit, Reading
  <2>2. \/ Adv(1) /\ Peek # EOF /\ text' = text \o <<Peek>>
        \/ Adv(2) /\ Peek # EOF /\ At(1) # EOF /\ text' = text \o <<Peek, At(1)>>
    BY <1>0, <1>1, <1>4 DEF Word, NameChar, Scope, Continue, Emit, Reading
  <2>3. QED
    BY <1>0, <2>1, <2>2, ReadMore
<1>5. CASE HexDigits \/ IntDigits \/ FractionDigits \/ Sign \/ ExponentDigits
  <2>1. mode \in Reading /\ start' = start
    BY <1>1, <1>5 DEF HexDigits, IntDigits, FractionDigits, Sign, ExponentDigits, Continue, Enough, Emit, Fail, Reading
  <2>2. \/ Adv(1) /\ Peek # EOF /\ text' = text \o <<Peek>>
        \/ Adv(1) /\ Peek # EOF /\ text' = Append(text, Peek)
        \/ Stay /\ text' = text
    BY <1>0, <1>1, <1>5
    DEF HexDigits, IntDigits, FractionDigits, Sign, ExponentDigits, Continue, Enough, Emit, Fail, Reading
  <2>3. CASE Stay /\ text' = text
    BY <2>1, <2>3 DEF Read, Stay, place
  <2>4. QED
    BY <1>0, <2>1, <2>2, <2>3, ReadMore
<1>6. CASE Variable
  BY <1>1, <1>6 DEF Variable, Continue, Emit, Fail, Reading
<1>7. CASE Single \/ Double \/ Regexp
  BY <1>1, <1>7 DEF Single, Double, Regexp, Continue, Emit, Fail, Escape, Escaped, Reading
<1>8. QED
  BY <1>2, <1>3, <1>4, <1>5, <1>6, <1>7 DEF Next, Scan

-----------------------------------------------------------------------------
(* Numbers *)

DigitRun(u, a, b) == \A k \in a..b : u[k] \in Digit

\* The first n characters of u: m digits, and a fraction unless m = n. Then an exponent.
Mantissa(u, m, n) ==
  /\ m \in 1..n /\ n <= Len(u) /\ DigitRun(u, 1, m)
  /\ m = n \/ (u[m + 1] = "." /\ m + 2 <= n /\ DigitRun(u, m + 2, n))
Power(u, n) ==
  /\ n + 2 <= Len(u) /\ u[n + 1] \in {"e", "E"}
  /\ DigitRun(u, n + 2, Len(u)) \/ (u[n + 2] \in {"+", "-"} /\ n + 3 <= Len(u) /\ DigitRun(u, n + 3, Len(u)))

\* Slices of digits are runs of digits.
LEMMA DigitRuns ==
  ASSUME NEW S, NEW u \in Seq(S), NEW a \in Nat \ {0}, NEW b \in 0..Len(u)
  PROVE  DigitsOf(SubSeq(u, a, b)) <=> a <= b /\ DigitRun(u, a, b)
<1>1. CASE a <= b
  <2> DEFINE w == SubSeq(u, a, b)
  <2>1. a \in 1..(Len(u) + 1) /\ b \in (a - 1)..Len(u) /\ Len(u) \in Nat
    BY <1>1
  <2>2. Len(w) = b - a + 1 /\ \A k \in 1..(b - a + 1) : w[k] = u[a + k - 1]
    BY <2>1, SliceIs
  <2>3. w # << >> /\ \A j \in a..b : j - a + 1 \in 1..(b - a + 1) /\ w[j - a + 1] = u[j]
    <3> HIDE DEF w
    <3>1. QED
      BY <1>1, <2>1, <2>2
  <2>4. \A k \in 1..(b - a + 1) : a + k - 1 \in a..b
    BY <2>1
  <2>5. QED
    <3> HIDE DEF w
    <3>1. DigitsOf(w) <=> DigitRun(u, a, b)
      BY <2>2, <2>3, <2>4 DEF DigitsOf, DigitRun
    <3>2. QED
      BY <1>1, <3>1 DEF w
<1>2. CASE a > b
  <2>1. SubSeq(u, a, b) = << >>
    BY <1>2
  <2>2. QED
    BY <1>2, <2>1 DEF DigitsOf
<1>3. QED
  BY <1>1, <1>2

\* The tail of a sequence is a slice of it.
LEMMA TailIs == ASSUME NEW S, NEW u \in Seq(S), Len(u) >= 1 PROVE Tail(u) = SubSeq(u, 2, Len(u))
OBVIOUS

\* The grammar of decimal numbers, in terms of runs of digits.
LEMMA DecimalIs ==
  ASSUME NEW S, NEW u \in Seq(S)
  PROVE  IsDecimal(u) <=> \E m, n \in 0..Len(u) : Mantissa(u, m, n) /\ (n = Len(u) \/ Power(u, n))
<1>0. Len(u) \in Nat
  OBVIOUS
<1>1. ASSUME NEW m \in 0..Len(u), NEW n \in 0..Len(u)
      PROVE  (/\ m <= n /\ DigitsOf(SubSeq(u, 1, m))
              /\ m = n \/ (u[m + 1] = "." /\ DigitsOf(SubSeq(u, m + 2, n)))) <=> Mantissa(u, m, n)
  <2>1. DigitsOf(SubSeq(u, 1, m)) <=> 1 <= m /\ DigitRun(u, 1, m)
    BY DigitRuns
  <2>2. DigitsOf(SubSeq(u, m + 2, n)) <=> m + 2 <= n /\ DigitRun(u, m + 2, n)
    BY DigitRuns
  <2>3. QED
    BY <2>1, <2>2 DEF Mantissa
<1>2. ASSUME NEW n \in 0..Len(u), n # Len(u)
      PROVE  IsExponent(SubSeq(u, n + 1, Len(u))) <=> Power(u, n)
  <2> DEFINE w == SubSeq(u, n + 1, Len(u))
  <2>1. w \in Seq(S) /\ Len(w) = Len(u) - n /\ \A k \in 1..(Len(u) - n) : w[k] = u[n + k]
    <3>1. n + 1 \in 1..(Len(u) + 1) /\ Len(u) \in (n + 1 - 1)..Len(u) /\ Len(u) - (n + 1) + 1 = Len(u) - n
      BY <1>0, <1>2
    <3> DEFINE a == n + 1
    <3>2. /\ SubSeq(u, a, Len(u)) \in Seq(S) /\ Len(SubSeq(u, a, Len(u))) = Len(u) - a + 1
          /\ \A k \in 1..(Len(u) - a + 1) : SubSeq(u, a, Len(u))[k] = u[a + k - 1]
      <4>1. a \in 1..(Len(u) + 1) /\ Len(u) \in (a - 1)..Len(u)
        BY <3>1
      <4> HIDE DEF a
      <4>2. QED
        BY <4>1, SliceIs
    <3>3. w \in Seq(S) /\ Len(w) = Len(u) - a + 1 /\ \A k \in 1..(Len(u) - a + 1) : w[k] = u[a + k - 1]
      BY <3>2
    <3>4. Len(u) - a + 1 = Len(u) - n /\ \A k \in Nat : a + k - 1 = n + k
      BY <1>0
    <3>5. QED
      <4> HIDE DEF w, a
      <4>1. \A k \in 1..(Len(u) - n) : w[k] = u[a + k - 1] /\ k \in Nat
        BY <3>3, <3>4
      <4>2. QED
        BY <3>3, <3>4, <4>1
  <2>2. DigitsOf(SubSeq(w, 3, Len(w))) <=> 3 <= Len(w) /\ DigitRun(w, 3, Len(w))
    <3> HIDE DEF w
    <3>1. QED
      BY <1>0, <2>1, DigitRuns
  <2>3. Len(w) >= 1 /\ Tail(w) = SubSeq(w, 2, Len(w))
    <3> HIDE DEF w
    <3>1. Len(w) >= 1
      BY <1>0, <1>2, <2>1
    <3>2. QED
      BY <2>1, <3>1, TailIs
  <2>4. DigitsOf(Tail(w)) <=> 2 <= Len(w) /\ DigitRun(w, 2, Len(w))
    <3> HIDE DEF w
    <3>1. DigitsOf(SubSeq(w, 2, Len(w))) <=> 2 <= Len(w) /\ DigitRun(w, 2, Len(w))
      BY <1>0, <2>1, <2>3, DigitRuns
    <3>2. QED
      BY Zenon, <2>3, <3>1
  <2>5. \A a \in 1..3 : DigitRun(w, a, Len(w)) <=> DigitRun(u, n + a, Len(u))
    <3> HIDE DEF w
    <3>1. SUFFICES ASSUME NEW a \in 1..3 PROVE DigitRun(w, a, Len(w)) <=> DigitRun(u, n + a, Len(u))
      OBVIOUS
    <3>2. \A k \in a..Len(w) : n + k \in (n + a)..Len(u) /\ w[k] = u[n + k]
      BY <1>0, <2>1
    <3>3. \A j \in (n + a)..Len(u) : j - n \in a..Len(w) /\ n + (j - n) = j
      BY <1>0, <2>1
    <3>4. QED
      BY <3>2, <3>3 DEF DigitRun
  <2>6. QED
    <3> HIDE DEF w
    <3>1. Len(w) > 1 => w[1] = u[n + 1] /\ w[2] = u[n + 2]
      BY <1>0, <2>1
    <3>2. (Len(w) > 1 <=> n + 2 <= Len(u)) /\ (3 <= Len(w) <=> n + 3 <= Len(u))
      BY <1>0, <2>1
    <3>3. /\ DigitsOf(Tail(w)) <=> Len(w) > 1 /\ DigitRun(u, n + 2, Len(u))
          /\ DigitsOf(SubSeq(w, 3, Len(w))) <=> n + 3 <= Len(u) /\ DigitRun(u, n + 3, Len(u))
      BY <1>0, <2>1, <2>2, <2>4, <2>5, <3>2
    <3>4. IsExponent(w) <=> Power(u, n)
      BY <3>1, <3>2, <3>3 DEF IsExponent, Power
    <3>5. QED
      BY <3>4 DEF w
<1>3. QED
  BY <1>0, <1>1, <1>2 DEF IsDecimal

\* The characters of a number that are no digits.
LEMMA NotDigits == \A c \in {"x", "X", "e", "E", ".", "+", "-"} : c \notin Digit
<1>1. \A c \in {"x", "X", "e", "E"} : c \notin Digit
  BY Zenon, LexerAssumption
<1>2. \A c \in {".", "+", "-"} : c \notin Digit
  BY Zenon, LexerAssumption DEF Punctuation
<1>3. QED
  BY <1>1, <1>2

\* The digits before the first other character belong to the integral part, those after the
\* point to the fraction: there is one way to read a mantissa.
LEMMA MantissaEnds ==
  ASSUME NEW S, NEW u \in Seq(S), NEW p \in 2..Len(u), NEW m \in 0..Len(u), NEW n \in 0..Len(u),
         DigitRun(u, 1, p - 1), u[p] \notin Digit, Mantissa(u, m, n), n = Len(u) \/ Power(u, n)
  PROVE  m = p - 1 /\ (n # m => u[p] = "." /\ p + 1 <= n /\ DigitRun(u, p + 1, n))
<1>0. Len(u) \in Nat /\ m >= 1 /\ m <= n
  BY DEF Mantissa
<1>1. m <= p - 1
  <2>1. m >= p => u[p] \in Digit
    BY <1>0 DEF Mantissa, DigitRun
  <2>2. QED
    BY <1>0, <2>1
<1>2. m >= p - 1
  <2>1. SUFFICES ASSUME m < p - 1 PROVE FALSE
    BY <1>0
  <2>2. m + 1 \in 1..(p - 1) /\ u[m + 1] \in Digit
    BY <1>0, <2>1 DEF DigitRun
  <2>3. u[m + 1] \notin {".", "e", "E"}
    BY <2>2, NotDigits
  <2>4. m = n /\ n # Len(u)
    BY <1>0, <2>1, <2>3 DEF Mantissa
  <2>5. QED
    BY <2>3, <2>4 DEF Power
<1>3. m = p - 1 /\ m + 1 = p /\ m + 2 = p + 1
  BY <1>0, <1>1, <1>2
<1>4. QED
  BY <1>0, <1>3 DEF Mantissa

\* A decimal number has no x in second place.
LEMMA SecondIsNoX ==
  ASSUME NEW S, NEW u \in Seq(S), NEW m \in Nat, NEW n \in Nat, Mantissa(u, m, n), n = Len(u) \/ u[n + 1] \in {"e", "E"},
         Len(u) >= 2
  PROVE  u[2] \notin {"x", "X"}
<1>0. Len(u) \in Nat /\ m >= 1 /\ m <= n /\ n <= Len(u)
  BY DEF Mantissa
<1>1. CASE m >= 2
  <2>1. u[2] \in Digit
    BY <1>0, <1>1 DEF Mantissa, DigitRun
  <2>2. QED
    BY <2>1, NotDigits
<1>2. CASE m = 1 /\ n = 1
  BY <1>0, <1>2
<1>3. CASE m = 1 /\ n # 1
  BY <1>0, <1>3 DEF Mantissa
<1>4. QED
  BY <1>0, <1>1, <1>2, <1>3

\* A hexadecimal number goes on with nothing but a hexadecimal digit.
LEMMA HexEnds ==
  ASSUME NEW S, NEW s \in Seq(S), NEW p \in 3..Len(s), s[1] = "0", s[2] \in {"x", "X"}, s[p] \notin Hex
  PROVE  ~IsNumberText(s)
<1>1. ~IsHexText(s)
  BY DEF IsHexText
<1>2. SUFFICES ASSUME NEW m \in 0..Len(s), NEW n \in 0..Len(s), Mantissa(s, m, n), n = Len(s) \/ Power(s, n)
               PROVE  FALSE
  BY <1>1, DecimalIs DEF IsNumberText
<1>3. Len(s) \in Nat /\ m >= 1 /\ m <= n /\ Len(s) >= 2
  BY <1>2 DEF Mantissa
<1>4. n = Len(s) \/ s[n + 1] \in {"e", "E"}
  BY <1>2 DEF Power
<1>5. QED
  BY <1>2, <1>3, <1>4, SecondIsNoX

\* A run of digits goes on with a digit, a fraction or an exponent only.
LEMMA IntEnds ==
  ASSUME NEW S, NEW s \in Seq(S), NEW p \in 2..Len(s), DigitRun(s, 1, p - 1), s[p] \notin Digit \cup {"e", "E"},
         ~(s[p] = "." /\ p + 1 <= Len(s) /\ s[p + 1] \in Digit),
         ~(p = 2 /\ s[1] = "0" /\ s[2] \in {"x", "X"})
  PROVE  ~IsNumberText(s)
<1>1. ~IsHexText(s)
  <2>1. CASE p = 2
    BY <2>1 DEF IsHexText
  <2>2. CASE p > 2
    <3>1. s[2] \in Digit
      BY <2>2 DEF DigitRun
    <3>2. QED
      BY <3>1, NotDigits DEF IsHexText
  <2>3. QED
    BY <2>1, <2>2
<1>2. SUFFICES ASSUME NEW m \in 0..Len(s), NEW n \in 0..Len(s), Mantissa(s, m, n), n = Len(s) \/ Power(s, n)
               PROVE  FALSE
  BY <1>1, DecimalIs DEF IsNumberText
<1>3. m = p - 1 /\ (n # m => s[p] = "." /\ p + 1 <= n /\ DigitRun(s, p + 1, n))
  BY <1>2, MantissaEnds
<1>4. n = m
  <2>1. SUFFICES ASSUME n # m PROVE FALSE
    OBVIOUS
  <2>2. p + 1 <= Len(s) /\ s[p + 1] \in Digit
    BY <1>3, <2>1 DEF DigitRun
  <2>3. QED
    BY <1>3, <2>1, <2>2
<1>5. n # Len(s) /\ n + 1 = p
  BY <1>3, <1>4
<1>6. QED
  BY <1>2, <1>5 DEF Power

\* A number with a fraction goes on with a digit or an exponent only.
LEMMA FractionEnds ==
  ASSUME NEW S, NEW s \in Seq(S), NEW m0 \in Nat \ {0}, NEW p \in (m0 + 3)..Len(s), DigitRun(s, 1, m0), s[m0 + 1] = ".",
         DigitRun(s, m0 + 2, p - 1), s[p] \notin Digit \cup {"e", "E"}
  PROVE  ~IsNumberText(s)
<1>0. /\ Len(s) \in Nat /\ m0 + 1 \in 2..Len(s) /\ (m0 + 1) - 1 = m0 /\ (m0 + 1) + 1 = m0 + 2 /\ p \in Nat /\ p <= Len(s)
      /\ m0 + 3 <= p
  OBVIOUS
<1>1. s[m0 + 1] \notin Digit
  BY NotDigits
<1>2. ~IsHexText(s)
  <2>1. CASE m0 = 1
    BY <2>1 DEF IsHexText
  <2>2. CASE m0 > 1
    <3>1. s[2] \in Digit
      BY <2>2 DEF DigitRun
    <3>2. QED
      BY <3>1, NotDigits DEF IsHexText
  <2>3. QED
    BY <2>1, <2>2
<1>3. SUFFICES ASSUME NEW m \in 0..Len(s), NEW n \in 0..Len(s), Mantissa(s, m, n), n = Len(s) \/ Power(s, n)
               PROVE  FALSE
  BY <1>2, DecimalIs DEF IsNumberText
<1>4. m = m0 /\ (n # m => m0 + 2 <= n /\ DigitRun(s, m0 + 2, n))
  BY <1>0, <1>1, <1>3, MantissaEnds
<1>5. n # m
  <2>1. SUFFICES ASSUME n = m PROVE FALSE
    OBVIOUS
  <2>2. n # Len(s) /\ s[n + 1] = "."
    BY <1>0, <1>4, <2>1
  <2>3. QED
    BY <1>3, <2>2 DEF Power
<1>6. m0 + 2 <= n /\ DigitRun(s, m0 + 2, n)
  BY <1>4, <1>5
<1>7. n < p
  <2>1. n >= p => s[p] \in Digit
    BY <1>0, <1>6 DEF DigitRun
  <2>2. QED
    BY <1>0, <2>1
<1>8. s[n + 1] \notin {"e", "E"} /\ n # Len(s)
  <2>1. CASE n + 1 = p
    BY <1>0, <1>7, <2>1
  <2>2. CASE n + 1 # p
    <3>1. n + 1 \in (m0 + 2)..(p - 1)
      BY <1>0, <1>6, <1>7, <2>2
    <3>2. s[n + 1] \in Digit
      BY <3>1 DEF DigitRun
    <3>3. QED
      BY <1>0, <1>7, <3>2, NotDigits
  <2>3. QED
    BY <2>1, <2>2
<1>9. QED
  BY <1>3, <1>8 DEF Power

\* A number with an exponent goes on with a digit only.
LEMMA ExponentEnds ==
  ASSUME NEW S, NEW s \in Seq(S), NEW m0 \in Nat, NEW n0 \in Nat, Mantissa(s, m0, n0), s[n0 + 1] \in {"e", "E"},
         NEW p \in (n0 + 3)..Len(s), s[p] \notin Digit
  PROVE  ~IsNumberText(s)
<1>0. Len(s) \in Nat /\ m0 >= 1 /\ m0 <= n0 /\ n0 + 3 <= Len(s) /\ p \in Nat /\ p <= Len(s) /\ p >= n0 + 3
  BY DEF Mantissa
<1>1. ~IsHexText(s)
  BY <1>0, SecondIsNoX DEF IsHexText
<1>2. SUFFICES ASSUME NEW m \in 0..Len(s), NEW n \in 0..Len(s), Mantissa(s, m, n), n = Len(s) \/ Power(s, n)
               PROVE  FALSE
  BY <1>1, DecimalIs DEF IsNumberText
<1>3. s[m0 + 1] \notin Digit
  <2>1. s[m0 + 1] \in {".", "e", "E"}
    BY <1>0 DEF Mantissa
  <2>2. QED
    BY <2>1, NotDigits
<1>4. m = m0 /\ (n # m => s[m0 + 1] = "." /\ m0 + 2 <= n /\ DigitRun(s, m0 + 2, n))
  <2>1. m0 + 1 \in 2..Len(s) /\ (m0 + 1) - 1 = m0 /\ (m0 + 1) + 1 = m0 + 2 /\ DigitRun(s, 1, m0)
    BY <1>0 DEF Mantissa
  <2>2. QED
    BY <1>2, <1>3, <2>1, MantissaEnds
<1>5. n = n0
  <2>1. CASE m0 = n0
    BY <1>4, <2>1
  <2>2. CASE m0 # n0
    <3>1. s[m0 + 1] = "." /\ m0 + 2 <= n0 /\ DigitRun(s, m0 + 2, n0)
      BY <2>2 DEF Mantissa
    <3>2. n # m
      <4>1. n = m => n # Len(s) /\ n + 1 = m0 + 1
        BY <1>0, <1>4
      <4>2. QED
        BY <1>2, <3>1, <4>1 DEF Power
    <3>3. m0 + 2 <= n /\ DigitRun(s, m0 + 2, n)
      BY <1>4, <3>2
    <3>4. n <= n0
      <4>1. n > n0 => s[n0 + 1] \in Digit
        BY <1>0, <3>1, <3>3 DEF DigitRun
      <4>2. QED
        BY <1>0, <4>1, NotDigits
    <3>5. n >= n0
      <4>1. n < n0 => n # Len(s) /\ s[n + 1] \in Digit
        BY <1>0, <3>1, <3>3 DEF DigitRun
      <4>2. QED
        BY <1>0, <1>2, <4>1, NotDigits DEF Power
    <3>6. QED
      BY <3>4, <3>5
  <2>3. QED
    BY <2>1, <2>2
<1>6. n # Len(s)
  BY <1>0, <1>5
<1>7. QED
  BY <1>0, <1>2, <1>5, <1>6 DEF Power, DigitRun

\* What is known of the text u of a number that mode m reads, when c and d come next.
NumIs(m, u, c, d) ==
  /\ m = "hex" =>
       /\ Len(u) >= 2 /\ u[1] = "0" /\ u[2] \in {"x", "X"} /\ \A k \in 3..Len(u) : u[k] \in Hex
       /\ Len(u) = 2 => c \in Hex
  /\ m = "int" =>
       /\ DigitRun(u, 1, Len(u))
       /\ Len(u) = 0 => c \in Digit /\ ~(c = "0" /\ d \in {"x", "X"})
       /\ Len(u) = 1 /\ u[1] = "0" => c \notin {"x", "X"}
  /\ m = "fraction" =>
       \E n \in 1..(Len(u) - 1) :
         /\ DigitRun(u, 1, n) /\ u[n + 1] = "." /\ DigitRun(u, n + 2, Len(u))
         /\ Len(u) = n + 1 => c \in Digit
  /\ m = "sign" => \E n \in 1..(Len(u) - 1) : Mantissa(u, n, Len(u) - 1) /\ u[Len(u)] \in {"e", "E"}
  /\ m = "exponent" =>
       \E n0, n \in 1..(Len(u) - 1) :
         /\ Mantissa(u, n0, n) /\ u[n + 1] \in {"e", "E"}
         /\ \/ DigitRun(u, n + 2, Len(u)) /\ (Len(u) = n + 1 => c \in Digit)
            \/ /\ n + 2 <= Len(u) /\ u[n + 2] \in {"+", "-"} /\ DigitRun(u, n + 3, Len(u))
               /\ Len(u) = n + 2 => c \in Digit

NumInv == NumIs(mode, text, Peek, At(1))

\* What a sequence is after an element is added, element by element.
LEMMA Grown ==
  ASSUME NEW S, NEW u \in Seq(S), NEW c, NEW w, w = Append(u, c) \/ w = u \o <<c>>
  PROVE  /\ Len(u) \in Nat /\ Len(w) = Len(u) + 1 /\ w[Len(u) + 1] = c
         /\ \A k \in 1..Len(u) : w[k] = u[k]
OBVIOUS

\* A mantissa stays one when the text grows.
LEMMA MantissaKept ==
  ASSUME NEW u, NEW w, Len(u) \in Nat, Len(w) \in Nat, Len(u) <= Len(w), \A k \in 1..Len(u) : w[k] = u[k],
         NEW m \in Nat, NEW n \in Nat, Mantissa(u, m, n)
  PROVE  Mantissa(w, m, n)
BY DEF Mantissa, DigitRun

\* The number in progress stays one with each character read.
LEMMA NumGrows ==
  ASSUME NEW S, NEW u \in Seq(S), NEW c, NEW d, NEW z, NEW m, NumIs(m, u, c, d),
         NEW w, w = Append(u, c) \/ w = u \o <<c>>
  PROVE  /\ m = "hex" /\ c \in Hex => NumIs("hex", w, d, z)
         /\ m = "int" /\ c \in Digit => NumIs("int", w, d, z)
         /\ m = "int" /\ c \notin Digit /\ c = "." /\ d \in Digit => NumIs("fraction", w, d, z)
         /\ m = "int" /\ c \notin Digit /\ c \in {"e", "E"} => NumIs("sign", w, d, z)
         /\ m = "fraction" /\ c \in Digit => NumIs("fraction", w, d, z)
         /\ m = "fraction" /\ c \notin Digit /\ c \in {"e", "E"} => NumIs("sign", w, d, z)
         /\ m = "sign" /\ c \in {"+", "-"} /\ d \in Digit => NumIs("exponent", w, d, z)
         /\ m = "sign" /\ c \in Digit => NumIs("exponent", u, c, d)
         /\ m = "exponent" /\ c \in Digit => NumIs("exponent", w, d, z)
<1> DEFINE L == Len(u)
<1>0. L \in Nat /\ Len(w) = L + 1 /\ w[L + 1] = c /\ \A k \in 1..L : w[k] = u[k]
  BY Grown
<1>k. ASSUME NEW n0 \in Nat, NEW n \in Nat, Mantissa(u, n0, n) PROVE Mantissa(w, n0, n)
  BY <1>0, <1>k, MantissaKept
<1>1. m = "hex" /\ c \in Hex => NumIs("hex", w, d, z)
  BY <1>0 DEF NumIs
<1>2. m = "int" /\ c \in Digit => NumIs("int", w, d, z)
  BY <1>0 DEF NumIs, DigitRun
<1>3. ASSUME m = "int", c \notin Digit, c = ".", d \in Digit PROVE NumIs("fraction", w, d, z)
  <2>1. L >= 1 /\ DigitRun(w, 1, L) /\ w[L + 1] = "." /\ DigitRun(w, L + 2, Len(w)) /\ L \in 1..(Len(w) - 1)
    BY <1>0, <1>3 DEF NumIs, DigitRun
  <2>2. QED
    BY <1>3, <2>1 DEF NumIs
<1>4. ASSUME m = "int", c \notin Digit, c \in {"e", "E"} PROVE NumIs("sign", w, d, z)
  <2>1. L >= 1 /\ DigitRun(w, 1, L) /\ L \in 1..(Len(w) - 1) /\ Len(w) - 1 = L
    BY <1>0, <1>4 DEF NumIs, DigitRun
  <2>2. Mantissa(w, L, Len(w) - 1)
    BY <1>0, <2>1 DEF Mantissa
  <2>3. QED
    BY <1>0, <1>4, <2>1, <2>2 DEF NumIs
<1>5. ASSUME m = "fraction", c \in Digit PROVE NumIs("fraction", w, d, z)
  <2>1. PICK n \in 1..(L - 1) : DigitRun(u, 1, n) /\ u[n + 1] = "." /\ DigitRun(u, n + 2, L)
    BY <1>5 DEF NumIs
  <2>2. n \in 1..(Len(w) - 1) /\ DigitRun(w, 1, n) /\ w[n + 1] = "." /\ DigitRun(w, n + 2, Len(w)) /\ Len(w) # n + 1
    BY SMTT(60), <1>0, <1>5, <2>1 DEF DigitRun
  <2>3. QED
    BY <2>2 DEF NumIs
<1>6. ASSUME m = "fraction", c \notin Digit, c \in {"e", "E"} PROVE NumIs("sign", w, d, z)
  <2>1. PICK n \in 1..(L - 1) : DigitRun(u, 1, n) /\ u[n + 1] = "." /\ DigitRun(u, n + 2, L) /\ L # n + 1
    BY <1>6 DEF NumIs
  <2>2. Mantissa(u, n, L) /\ n \in Nat
    BY <1>0, <2>1 DEF Mantissa
  <2>3. Mantissa(w, n, L) /\ n \in 1..(Len(w) - 1) /\ Len(w) - 1 = L
    BY <1>0, <1>k, <2>1, <2>2
  <2>4. QED
    BY <1>0, <1>6, <2>3 DEF NumIs
<1>7. ASSUME m = "sign", c \in {"+", "-"}, d \in Digit PROVE NumIs("exponent", w, d, z)
  <2>1. PICK n \in 1..(L - 1) : Mantissa(u, n, L - 1) /\ u[L] \in {"e", "E"}
    BY <1>7 DEF NumIs
  <2> DEFINE q == L - 1
  <2>2. q \in Nat /\ q >= 1 /\ q + 1 = L /\ q + 2 = Len(w) /\ n \in 1..(Len(w) - 1) /\ q \in 1..(Len(w) - 1)
    BY <1>0, <2>1
  <2>3. Mantissa(w, n, q)
    BY <1>k, <2>1, <2>2
  <2> HIDE DEF q
  <2>4. w[q + 1] \in {"e", "E"}
    BY <1>0, <2>1, <2>2
  <2>5. w[q + 2] \in {"+", "-"}
    BY <1>0, <1>7, <2>2
  <2>6. DigitRun(w, q + 3, Len(w))
    BY <2>2, <1>0 DEF DigitRun
  <2>7. QED
    BY <1>7, <2>2, <2>3, <2>4, <2>5, <2>6 DEF NumIs
<1>8. ASSUME m = "sign", c \in Digit PROVE NumIs("exponent", u, c, d)
  <2>1. PICK n \in 1..(L - 1) : Mantissa(u, n, L - 1) /\ u[L] \in {"e", "E"}
    BY <1>8 DEF NumIs
  <2> DEFINE q == L - 1
  <2>2. q \in 1..(L - 1) /\ q + 1 = L /\ DigitRun(u, q + 2, L)
    BY <1>0, <2>1 DEF DigitRun
  <2>3. Mantissa(u, n, q)
    BY <2>1
  <2> HIDE DEF q
  <2>4. QED
    BY <1>8, <2>1, <2>2, <2>3 DEF NumIs
<1>9. ASSUME m = "exponent", c \in Digit PROVE NumIs("exponent", w, d, z)
  <2>1. PICK n0 \in 1..(L - 1), n \in 1..(L - 1) :
           /\ Mantissa(u, n0, n) /\ u[n + 1] \in {"e", "E"}
           /\ \/ DigitRun(u, n + 2, L)
              \/ n + 2 <= L /\ u[n + 2] \in {"+", "-"} /\ DigitRun(u, n + 3, L)
    BY <1>9 DEF NumIs
  <2>2. n0 \in 1..(Len(w) - 1) /\ n \in 1..(Len(w) - 1) /\ Len(w) # n + 1 /\ w[n + 1] \in {"e", "E"}
    BY <1>0, <2>1
  <2>3. Mantissa(w, n0, n)
    BY <1>k, <2>1
  <2>4. \/ DigitRun(w, n + 2, Len(w))
        \/ n + 2 <= Len(w) /\ w[n + 2] \in {"+", "-"} /\ DigitRun(w, n + 3, Len(w)) /\ Len(w) # n + 2
    <3>1. ASSUME DigitRun(u, n + 2, L) PROVE DigitRun(w, n + 2, Len(w))
      BY <1>0, <1>9, <3>1 DEF DigitRun
    <3>2. ASSUME n + 2 <= L, u[n + 2] \in {"+", "-"}, DigitRun(u, n + 3, L)
          PROVE  n + 2 <= Len(w) /\ w[n + 2] \in {"+", "-"} /\ DigitRun(w, n + 3, Len(w)) /\ Len(w) # n + 2
      <4>1. DigitRun(w, n + 3, Len(w))
        BY SMTT(60), <1>0, <1>9, <3>2 DEF DigitRun
      <4>2. n + 2 \in 1..L /\ n + 2 <= Len(w) /\ Len(w) # n + 2
        BY <1>0, <3>2
      <4>3. QED
        BY <1>0, <3>2, <4>1, <4>2
    <3>3. QED
      BY <2>1, <3>1, <3>2
  <2>5. QED
    BY <2>2, <2>3, <2>4 DEF NumIs
<1>10. QED
  BY <1>1, <1>2, <1>3, <1>4, <1>5, <1>6, <1>7, <1>8, <1>9

\* What comes next after a move along the line.
LEMMA Shifted ==
  ASSUME src' = src, i \in Nat, NEW n \in 0..2, i' = i + n
  PROVE  Peek' = At(n) /\ At(1)' = At(n + 1)
<1>1. i' + 0 = i + n /\ i' + 1 = i + (n + 1)
  OBVIOUS
<1>2. QED
  BY <1>1 DEF Peek, At

\* The number in progress stays one with every step.
LEMMA NumStep ==
  ASSUME TypeInv, Read, NumInv, Next
  PROVE  NumInv'
<1>0. src' = src /\ i \in Nat /\ (mode \in Reading => text \in Seq(STRING))
  <2>1. src' = src /\ i \in Nat
    BY StepShape, TextKnown DEF TypeInv, Text
  <2>2. ASSUME mode \in Reading PROVE text \in Seq(STRING)
    <3>1. start.off \in 1..(Len(src) + 1) /\ i - 1 \in (start.off - 1)..Len(src) /\ src \in Seq(STRING)
      BY TextKnown DEF TypeInv, Text
    <3>2. SubSeq(src, start.off, i - 1) \in Seq(STRING)
      BY <3>1, SliceIs
    <3>3. QED
      BY <2>2, <3>2 DEF Read
  <2>3. QED
    BY <2>1, <2>2
<1>1. ASSUME mode' \notin {"hex", "int", "fraction", "sign", "exponent"} PROVE NumInv'
  BY <1>1 DEF NumInv, NumIs
<1>2. CASE Begin
  <2>1. SUFFICES ASSUME mode' \in {"hex", "int"} PROVE NumInv'
    BY <1>1, <1>2 DEF Begin, Enter, Fail
  <2>2. CASE mode' = "hex"
    <3>1. Adv(2) /\ text' = <<"0", At(1)>> /\ At(1) \in {"x", "X"} /\ At(2) \in Hex
      BY <1>2, <2>2 DEF Begin, Enter, Fail, Begins
    <3>2. Peek' = At(2)
      BY <1>0, <3>1, Shifted DEF Adv
    <3>3. QED
      BY <2>2, <3>1, <3>2 DEF NumInv, NumIs
  <2>3. CASE mode' = "int"
    <3>1. Stay /\ text' = << >> /\ Peek \in Digit /\ ~(Peek = "0" /\ At(1) \in {"x", "X"})
      BY <1>2, <2>3 DEF Begin, Enter, Fail, Begins
    <3>2. Peek' = Peek /\ At(1)' = At(1)
      BY <1>0, <3>1 DEF Stay, place, Peek, At
    <3>3. QED
      BY <2>3, <3>1, <3>2 DEF NumInv, NumIs, DigitRun
  <2>4. QED
    BY <2>1, <2>2, <2>3
<1>3. CASE HexDigits \/ IntDigits \/ FractionDigits \/ Sign \/ ExponentDigits
  <2>1. mode \in Reading
    BY <1>3 DEF HexDigits, IntDigits, FractionDigits, Sign, ExponentDigits, Reading
  <2>2. SUFFICES ASSUME mode' \in {"hex", "int", "fraction", "sign", "exponent"} PROVE NumInv'
    BY <1>1
  <2>3. \/ /\ Adv(1) /\ (text' = Append(text, Peek) \/ text' = text \o <<Peek>>)
           /\ \/ mode = "hex" /\ mode' = "hex" /\ Peek \in Hex
              \/ mode = "int" /\ mode' = "int" /\ Peek \in Digit
              \/ mode = "int" /\ mode' = "fraction" /\ Peek \notin Digit /\ Peek = "." /\ At(1) \in Digit
              \/ mode = "int" /\ mode' = "sign" /\ Peek \notin Digit /\ Peek \in {"e", "E"}
              \/ mode = "fraction" /\ mode' = "fraction" /\ Peek \in Digit
              \/ mode = "fraction" /\ mode' = "sign" /\ Peek \notin Digit /\ Peek \in {"e", "E"}
              \/ mode = "sign" /\ mode' = "exponent" /\ Peek \in {"+", "-"} /\ At(1) \in Digit
              \/ mode = "exponent" /\ mode' = "exponent" /\ Peek \in Digit
        \/ Stay /\ mode = "sign" /\ mode' = "exponent" /\ Peek \in Digit /\ text' = text
    BY <1>3, <2>2 DEF HexDigits, IntDigits, FractionDigits, Sign, ExponentDigits, Continue, Enough, Emit, Fail
  <2>4. CASE Adv(1) /\ (text' = Append(text, Peek) \/ text' = text \o <<Peek>>) /\ mode' # "exponent"
    <3>1. Peek' = At(1)
      BY <1>0, <2>4, Shifted DEF Adv
    <3>2. NumIs(mode', text', At(1), At(1)')
      BY <1>0, <2>1, <2>3, <2>4, NumGrows DEF NumInv, Stay
    <3>3. QED
      BY <3>1, <3>2 DEF NumInv
  <2>5. CASE Adv(1) /\ (text' = Append(text, Peek) \/ text' = text \o <<Peek>>) /\ mode' = "exponent"
    <3>1. Peek' = At(1)
      BY <1>0, <2>5, Shifted DEF Adv
    <3>2. \/ mode = "sign" /\ Peek \in {"+", "-"} /\ At(1) \in Digit
          \/ mode = "exponent" /\ Peek \in Digit
      BY <1>0, <2>3, <2>5 DEF Adv, Stay, place
    <3>3. NumIs("exponent", text', At(1), At(1)')
      BY <1>0, <2>1, <2>5, <3>2, NumGrows DEF NumInv
    <3>4. QED
      BY <2>5, <3>1, <3>3 DEF NumInv
  <2>6. CASE Stay /\ mode = "sign" /\ mode' = "exponent" /\ Peek \in Digit /\ text' = text
    <3>1. Peek' = Peek /\ At(1)' = At(1)
      BY <1>0, <2>6 DEF Stay, place, Peek, At
    <3>2. NumIs("exponent", text, Peek, At(1))
      BY <1>0, <2>1, <2>6, NumGrows DEF NumInv
    <3>3. QED
      BY <2>6, <3>1, <3>2 DEF NumInv
  <2>7. QED
    BY <2>3, <2>4, <2>5, <2>6
<1>4. CASE SkipBlank \/ Comment \/ LineComment \/ BlockComment \/ EndOfFile \/ Operator \/ Heredoc
  BY <1>1, <1>4 DEF SkipBlank, Comment, LineComment, BlockComment, EndOfFile, Operator, Heredoc, token, Fail, Begins, Enter
<1>5. CASE Variable \/ Word
  BY <1>1, <1>5 DEF Variable, Word, Continue, Emit, Fail
<1>6. CASE Single \/ Double \/ Regexp
  BY <1>1, <1>6 DEF Single, Double, Regexp, Continue, Emit, Fail, Escape, Escaped
<1>7. QED
  BY <1>2, <1>3, <1>4, <1>5, <1>6 DEF Next, Scan

\* A longer text than what has been read: what it begins with, and how it goes on.
LEMMA Longer ==
  ASSUME TypeInv, Read, mode \in Reading, NEW e \in i..Len(src)
  PROVE  /\ text \in Seq(STRING) /\ SubSeq(src, start.off, e) \in Seq(STRING) /\ Len(text) \in Nat
         /\ Len(SubSeq(src, start.off, e)) >= Len(text) + 1
         /\ \A k \in 1..Len(text) : SubSeq(src, start.off, e)[k] = text[k]
         /\ SubSeq(src, start.off, e)[Len(text) + 1] = Peek
         /\ Len(text) + 2 <= Len(SubSeq(src, start.off, e)) => SubSeq(src, start.off, e)[Len(text) + 2] = At(1)
<1> DEFINE a == start.off
           s == SubSeq(src, a, e)
<1>0. /\ src \in Seq(STRING) /\ Len(src) \in Nat /\ i \in 1..(Len(src) + 1) /\ i <= Len(src) /\ a \in 1..i
      /\ text = SubSeq(src, a, i - 1) /\ Peek = At(0) /\ At(0) = src[i] /\ (i + 1 <= Len(src) => At(1) = src[i + 1])
  BY TextKnown, Looked DEF TypeInv, Text, Read
<1>1. a \in 1..(Len(src) + 1) /\ e \in (a - 1)..Len(src) /\ i - 1 \in (a - 1)..Len(src)
  BY <1>0
<1>2. /\ s \in Seq(STRING) /\ Len(s) = e - a + 1 /\ \A k \in 1..(e - a + 1) : s[k] = src[a + k - 1]
  <2> HIDE DEF a
  <2>1. QED
    BY <1>0, <1>1, SliceIs
<1>3. /\ text \in Seq(STRING) /\ Len(text) = i - 1 - a + 1
      /\ \A k \in 1..(i - 1 - a + 1) : text[k] = src[a + k - 1]
  <2> HIDE DEF a, s
  <2> DEFINE b == i - 1
  <2>1. b \in (a - 1)..Len(src)
    BY <1>1
  <2>2. /\ SubSeq(src, a, b) \in Seq(STRING) /\ Len(SubSeq(src, a, b)) = b - a + 1
        /\ \A k \in 1..(b - a + 1) : SubSeq(src, a, b)[k] = src[a + k - 1]
    <3> HIDE DEF b
    <3>1. QED
      BY <1>0, <1>1, <2>1, SliceIs
  <2>3. QED
    BY <1>0, <2>2
<1>4. /\ Len(text) = i - a /\ Len(text) \in Nat /\ Len(s) >= Len(text) + 1 /\ i - 1 - a + 1 = i - a
      /\ a + (i - a + 1) - 1 = i /\ a + (i - a + 2) - 1 = i + 1 /\ i - a + 1 \in 1..(e - a + 1)
  <2> HIDE DEF a, s
  <2>1. QED
    BY <1>0, <1>1, <1>2, <1>3
<1>5. \A k \in 1..Len(text) : s[k] = text[k]
  <2> HIDE DEF a, s
  <2>1. \A k \in 1..(i - a) : k \in 1..(e - a + 1)
    BY <1>0, <1>1
  <2>2. QED
    BY <1>2, <1>3, <1>4, <2>1
<1>6. s[Len(text) + 1] = Peek
  <2> HIDE DEF a, s
  <2>1. QED
    BY <1>0, <1>2, <1>4
<1>7. Len(text) + 2 <= Len(s) => s[Len(text) + 2] = At(1)
  <2> HIDE DEF a, s
  <2>1. SUFFICES ASSUME Len(text) + 2 <= Len(s) PROVE s[Len(text) + 2] = At(1)
    OBVIOUS
  <2>2. i - a + 2 \in 1..(e - a + 1) /\ i + 1 <= Len(src)
    BY <1>0, <1>1, <1>2, <1>4, <2>1
  <2>3. QED
    BY <1>0, <1>2, <1>4, <2>2
<1>8. QED
  BY <1>2, <1>3, <1>4, <1>5, <1>6, <1>7

NumLongest(t) ==
  /\ IsNumberText(t.text)
  /\ \A e \in t.end..Len(src) : ~IsNumberText(SubSeq(src, t.pos.off, e))
  /\ (t.kind = "INT") = (DigitsOf(t.text) \/ IsHexText(t.text))

\* What the number in progress is when it ends, and that no longer text is one.
LEMMA NumberRead ==
  ASSUME TypeInv, Read, NumInv,
         \/ mode = "hex" /\ Peek \notin Hex
         \/ mode = "int" /\ Peek \notin Digit /\ ~(Peek = "." /\ At(1) \in Digit) /\ Peek \notin {"e", "E"}
         \/ mode = "fraction" /\ Peek \notin Digit /\ Peek \notin {"e", "E"}
         \/ mode = "exponent" /\ Peek \notin Digit
  PROVE  /\ IsNumberText(text) /\ \A e \in i..Len(src) : ~IsNumberText(SubSeq(src, start.off, e))
         /\ mode \in {"hex", "int"} => DigitsOf(text) \/ IsHexText(text)
         /\ mode \in {"fraction", "exponent"} => ~DigitsOf(text) /\ ~IsHexText(text)
<1> DEFINE L == Len(text)
           s(e) == SubSeq(src, start.off, e)
<1>0. text \in Seq(STRING) /\ L \in Nat /\ mode \in Reading
  <2>1. start.off \in 1..(Len(src) + 1) /\ i - 1 \in (start.off - 1)..Len(src) /\ src \in Seq(STRING)
    BY TextKnown DEF TypeInv, Text
  <2>2. SubSeq(src, start.off, i - 1) \in Seq(STRING)
    BY <2>1, SliceIs
  <2>3. mode \in Reading
    BY DEF Reading
  <2>4. text \in Seq(STRING)
    BY <2>2, <2>3 DEF Read
  <2>5. QED
    BY <2>3, <2>4
<1>1. ASSUME NEW e \in i..Len(src)
      PROVE  /\ s(e) \in Seq(STRING) /\ Len(s(e)) \in Nat /\ Len(s(e)) >= L + 1
             /\ \A k \in 1..L : s(e)[k] = text[k]
             /\ s(e)[L + 1] = Peek
             /\ L + 2 <= Len(s(e)) => s(e)[L + 2] = At(1)
  <2>1. /\ s(e) \in Seq(STRING) /\ Len(s(e)) >= L + 1
        /\ \A k \in 1..L : s(e)[k] = text[k]
        /\ s(e)[L + 1] = Peek
        /\ L + 2 <= Len(s(e)) => s(e)[L + 2] = At(1)
    BY <1>0, <1>1, Longer
  <2> HIDE DEF s
  <2>2. QED
    BY <2>1
<1>2. CASE mode = "hex" /\ Peek \notin Hex
  <2>1. /\ L > 2 /\ text[1] = "0" /\ text[2] \in {"x", "X"} /\ \A k \in 3..L : text[k] \in Hex
    <3>1. NumIs("hex", text, Peek, At(1))
      BY <1>2 DEF NumInv
    <3>2. /\ L >= 2 /\ text[1] = "0" /\ text[2] \in {"x", "X"} /\ \A k \in 3..L : text[k] \in Hex
          /\ L = 2 => Peek \in Hex
      BY Zenon, <3>1 DEF NumIs
    <3>3. L > 2
      <4> HIDE DEF L
      <4>1. QED
        BY <1>0, <1>2, <3>2
    <3>4. QED
      BY <3>2, <3>3
  <2>2. IsHexText(text)
    BY <2>1 DEF IsHexText
  <2>3. ASSUME NEW e \in i..Len(src) PROVE ~IsNumberText(s(e))
    <3> HIDE DEF s
    <3>1. L + 1 \in 3..Len(s(e)) /\ s(e)[1] = "0" /\ s(e)[2] \in {"x", "X"} /\ s(e)[L + 1] \notin Hex
      BY <1>0, <1>1, <1>2, <2>1
    <3>2. QED
      BY <1>1, <3>1, HexEnds
  <2>4. QED
    BY <1>2, <2>2, <2>3 DEF IsNumberText
<1>3. CASE mode = "int" /\ Peek \notin Digit /\ ~(Peek = "." /\ At(1) \in Digit) /\ Peek \notin {"e", "E"}
  <2>1. L >= 1 /\ DigitRun(text, 1, L) /\ (L = 1 /\ text[1] = "0" => Peek \notin {"x", "X"})
    BY <1>0, <1>3 DEF NumInv, NumIs
  <2>2. DigitsOf(text)
    BY <1>0, <2>1 DEF DigitsOf, DigitRun
  <2>3. IsDecimal(text)
    <3>1. Mantissa(text, L, L) /\ L \in 0..L
      BY <1>0, <2>1 DEF Mantissa
    <3>2. QED
      BY <1>0, <3>1, DecimalIs
  <2>4. ASSUME NEW e \in i..Len(src) PROVE ~IsNumberText(s(e))
    <3> HIDE DEF s
    <3>1. /\ L + 1 \in 2..Len(s(e)) /\ (L + 1) - 1 = L /\ (L + 1) + 1 = L + 2 /\ DigitRun(s(e), 1, L)
          /\ s(e)[L + 1] \notin Digit \cup {"e", "E"}
      BY <1>0, <1>1, <1>3, <2>1 DEF DigitRun
    <3>2. ~(s(e)[L + 1] = "." /\ L + 2 <= Len(s(e)) /\ s(e)[L + 2] \in Digit)
      BY <1>1, <1>3
    <3>3. ~(L + 1 = 2 /\ s(e)[1] = "0" /\ s(e)[2] \in {"x", "X"})
      <4>1. SUFFICES ASSUME L + 1 = 2, s(e)[1] = "0", s(e)[2] \in {"x", "X"} PROVE FALSE
        OBVIOUS
      <4>2. L = 1
        <5> HIDE DEF L
        <5>1. QED
          BY <1>0, <4>1
      <4>3. s(e)[1] = text[1] /\ s(e)[2] = Peek
        BY <1>1, <4>1, <4>2
      <4>4. QED
        BY <2>1, <4>1, <4>2, <4>3
    <3>4. QED
      BY <1>1, <3>1, <3>2, <3>3, IntEnds
  <2>5. QED
    BY <1>3, <2>2, <2>3, <2>4 DEF IsNumberText
<1>4. CASE mode = "fraction" /\ Peek \notin Digit /\ Peek \notin {"e", "E"}
  <2>1. PICK n \in 1..(L - 1) : DigitRun(text, 1, n) /\ text[n + 1] = "." /\ DigitRun(text, n + 2, L) /\ L # n + 1
    BY <1>4 DEF NumInv, NumIs
  <2>2. Mantissa(text, n, L) /\ n \in 0..L /\ L \in 0..L /\ L >= n + 2
    BY <1>0, <2>1 DEF Mantissa
  <2>3. IsDecimal(text)
    BY <1>0, <2>2, DecimalIs
  <2>4. ~DigitsOf(text)
    <3>1. text[n + 1] \notin Digit /\ n + 1 \in 1..L
      BY <1>0, <2>1, NotDigits
    <3>2. QED
      BY <3>1 DEF DigitsOf
  <2>5. ~IsHexText(text)
    <3>1. L >= 2 /\ n \in Nat
      BY <2>2
    <3>2. QED
      BY <1>0, <2>2, <3>1, SecondIsNoX DEF IsHexText
  <2>6. ASSUME NEW e \in i..Len(src) PROVE ~IsNumberText(s(e))
    <3> HIDE DEF s
    <3>1. /\ L + 1 \in (n + 3)..Len(s(e)) /\ (L + 1) - 1 = L /\ n \in Nat \ {0} /\ s(e)[n + 1] = "."
          /\ DigitRun(s(e), 1, n) /\ DigitRun(s(e), n + 2, L)
          /\ s(e)[L + 1] \notin Digit \cup {"e", "E"}
      <4>1. L + 1 \in (n + 3)..Len(s(e)) /\ (L + 1) - 1 = L /\ n \in Nat \ {0} /\ s(e)[L + 1] \notin Digit \cup {"e", "E"}
        BY <1>0, <1>1, <1>4, <2>2
      <4>2. \A k \in 1..n : k \in 1..L
        BY <1>0
      <4>3. \A k \in (n + 2)..L : k \in 1..L
        BY <1>0
      <4>4. DigitRun(s(e), 1, n) /\ DigitRun(s(e), n + 2, L)
        BY <1>1, <2>1, <4>2, <4>3 DEF DigitRun
      <4>5. n + 1 \in 1..L
        BY <1>0
      <4>6. s(e)[n + 1] = "."
        BY <1>1, <2>1, <4>5
      <4>7. QED
        BY <4>1, <4>4, <4>6
    <3>2. QED
      BY <1>1, <3>1, FractionEnds
  <2>7. QED
    BY <1>4, <2>3, <2>4, <2>5, <2>6 DEF IsNumberText
<1>5. CASE mode = "exponent" /\ Peek \notin Digit
  <2>1. PICK n0 \in 1..(L - 1), n \in 1..(L - 1) :
           /\ Mantissa(text, n0, n) /\ text[n + 1] \in {"e", "E"}
           /\ \/ DigitRun(text, n + 2, L) /\ L # n + 1
              \/ n + 2 <= L /\ text[n + 2] \in {"+", "-"} /\ DigitRun(text, n + 3, L) /\ L # n + 2
    BY <1>5 DEF NumInv, NumIs
  <2>2. Power(text, n) /\ L >= n + 2
    BY <1>0, <2>1 DEF Power
  <2>3. IsDecimal(text)
    <3>1. n0 \in 0..L /\ n \in 0..L
      BY <1>0
    <3>2. QED
      BY <1>0, <2>1, <2>2, <3>1, DecimalIs
  <2>4. ~DigitsOf(text)
    <3>1. text[n + 1] \notin Digit /\ n + 1 \in 1..L
      BY <1>0, <2>1, NotDigits
    <3>2. QED
      BY <3>1 DEF DigitsOf
  <2>5. ~IsHexText(text)
    <3>1. L >= 2 /\ n \in Nat /\ n0 \in Nat
      BY <2>2
    <3>2. QED
      BY <1>0, <2>1, <3>1, SecondIsNoX DEF IsHexText
  <2>6. ASSUME NEW e \in i..Len(src) PROVE ~IsNumberText(s(e))
    <3>1. Mantissa(s(e), n0, n)
      <4>1. n0 \in Nat /\ n \in Nat /\ L <= Len(s(e))
        BY <1>0, <1>1
      <4> HIDE DEF s
      <4>2. QED
        BY <1>0, <1>1, <2>1, <4>1, MantissaKept
    <3> HIDE DEF s
    <3>2. /\ L + 1 \in (n + 3)..Len(s(e)) /\ s(e)[n + 1] \in {"e", "E"} /\ s(e)[L + 1] \notin Digit
          /\ n0 \in Nat /\ n \in Nat
      BY <1>0, <1>1, <1>5, <2>1, <2>2
    <3>3. QED
      BY <1>1, <3>1, <3>2, ExponentEnds
  <2>7. QED
    BY <1>5, <2>3, <2>4, <2>5, <2>6 DEF IsNumberText
<1>6. QED
  BY <1>2, <1>3, <1>4, <1>5

-----------------------------------------------------------------------------
(* The tokens that are made *)

\* No longer operator begins where t does; t is the text between its ends; t is a longest match.
OpLongest(t) == t.text \in Operators /\ \A e \in t.end..Len(src) : SubSeq(src, t.pos.off, e) \notin Operators
Sliced(t) == t.text = SubSeq(src, t.pos.off, t.end - 1)
Fine(t) ==
  /\ t.kind \in {"NAME", "TYPE", "INT", "FLOAT", "op"} => Sliced(t)
  /\ t.kind \in {"op", ")", "]", "}"} => OpLongest(t)
  /\ t.kind \in {"INT", "FLOAT"} => NumLongest(t)

\* A sequence grown in two ways grew by the same element.
LEMMA AppendedIs ==
  ASSUME TypeInv, NEW t, NEW u, toks' = Append(toks, t), toks' = Append(toks, u)
  PROVE  t = u
<1>1. toks'[Len(toks) + 1] = t /\ toks'[Len(toks) + 1] = u
  BY Appended DEF TypeInv
<1>2. QED
  BY <1>1

\* What a token that is emitted holds.
LEMMA EmitIs ==
  ASSUME TypeInv, NEW t, toks' = Append(toks, t), NEW kind, NEW s, NEW n \in {0, 1}, Emit(kind, s, n)
  PROVE  t.kind = kind /\ t.text = s /\ t.pos = start /\ t.end = i + n
<1>1. t = Token(kind, s, start, i + n)
  BY AppendedIs DEF Emit
<1>2. QED
  BY <1>1 DEF Token

\* Words and operators are not of the kinds of numbers and strings.
LEMMA KindsApart ==
  /\ WordKind \notin {"INT", "FLOAT", "op", ")", "]", "}"}
  /\ WordKind \notin {"SQSTRING", "DQSTRING", "REGEXP"}
  /\ \A s : OpKind(s) \notin {"NAME", "TYPE", "INT", "FLOAT", "SQSTRING", "DQSTRING", "REGEXP"}
<1>1. \A t \in DOMAIN Keywords : Keywords[t] \notin {"INT", "FLOAT", "op", ")", "]", "}"}
                               /\ Keywords[t] \notin {"SQSTRING", "DQSTRING", "REGEXP"}
  BY Zenon, LexerAssumption DEF Kinds
<1>2. WordKind \notin {"INT", "FLOAT", "op", ")", "]", "}"} /\ WordKind \notin {"SQSTRING", "DQSTRING", "REGEXP"}
  BY Zenon, <1>1 DEF WordKind
<1>3. \A s : OpKind(s) \notin {"NAME", "TYPE", "INT", "FLOAT", "SQSTRING", "DQSTRING", "REGEXP"}
  BY Zenon DEF OpKind
<1>4. QED
  BY <1>2, <1>3

\* A token made by Operator is the longest operator there.
LEMMA OperatorFine ==
  ASSUME TypeInv, Operator, NEW t, toks' = Append(toks, t)
  PROVE  Fine(t) /\ t.kind \notin {"SQSTRING", "DQSTRING", "REGEXP"}
<1> DEFINE n == OperatorLen
           s == SubSeq(src, i, i + n - 1)
<1>0. src \in Seq(STRING) /\ Len(src) \in Nat /\ i \in 1..(Len(src) + 1)
  BY TextKnown DEF TypeInv, Text
<1>1. n # 0
  <2>1. Len(Append(toks, t)) # Len(toks)
    BY Appended DEF TypeInv
  <2>2. n = 0 => toks' = toks
    BY DEF Operator, Fail
  <2>3. QED
    BY <2>1, <2>2
<1>2. n \in 1..3 /\ i + n - 1 <= Len(src) /\ s \in Operators
      /\ \A k \in 1..3 : i + k - 1 <= Len(src) /\ SubSeq(src, i, i + k - 1) \in Operators => k <= n
  BY <1>1, OperatorHere
<1>3. toks' = Append(toks, Token(OpKind(s), s, Here, i + n))
  BY <1>1 DEF Operator
<1>4. t = Token(OpKind(s), s, Here, i + n)
  <2> HIDE DEF n, s
  <2>1. QED
    BY <1>3, AppendedIs
<1>5. t.kind = OpKind(s) /\ t.text = s /\ t.pos.off = i /\ t.end = i + n
  BY <1>4 DEF Token, Here
<1>6. Sliced(t)
  <2>1. i + n - 1 = t.end - 1
    <3>1. n \in Int /\ t.end = i + n
      BY <1>2, <1>5
    <3> HIDE DEF n, s
    <3>2. QED
      BY <1>0, <3>1
  <2>2. QED
    BY <1>5, <2>1 DEF Sliced
<1>7. OpLongest(t)
  <2>0. t.text \in Operators
    BY <1>2, <1>5
  <2>1. SUFFICES ASSUME NEW e \in t.end..Len(src), SubSeq(src, t.pos.off, e) \in Operators PROVE FALSE
    BY <2>0 DEF OpLongest
  <2> HIDE DEF n, s
  <2>2. e \in (i + n)..Len(src) /\ SubSeq(src, i, e) \in Operators
    BY <1>5, <2>1
  <2>3. Len(SubSeq(src, i, e)) = e - i + 1
    BY <1>0, <1>2, <2>2, SliceIs
  <2>4. e - i + 1 \in 1..3 /\ e = i + (e - i + 1) - 1 /\ e <= Len(src)
    <3>1. Len(SubSeq(src, i, e)) \in 1..3
      BY <2>2, OperatorTexts
    <3>2. e \in Int /\ e <= Len(src)
      BY <1>0, <1>2, <2>2
    <3>3. QED
      BY <1>0, <2>3, <3>1, <3>2
  <2>5. e - i + 1 <= n
    <3> DEFINE k == e - i + 1
    <3>1. k \in 1..3 /\ i + k - 1 = e
      BY <2>4
    <3>2. i + k - 1 <= Len(src) /\ SubSeq(src, i, i + k - 1) \in Operators
      BY <2>2, <2>4, <3>1
    <3> HIDE DEF k
    <3>3. k <= n
      BY <1>2, <3>1, <3>2
    <3>4. QED
      BY <3>3 DEF k
  <2>6. QED
    BY <1>0, <1>2, <2>2, <2>5
<1>8. QED
  <2> HIDE DEF s
  <2>1. t.kind \notin {"NAME", "TYPE", "INT", "FLOAT", "SQSTRING", "DQSTRING", "REGEXP"}
    BY <1>5, KindsApart
  <2>2. QED
    BY <1>6, <1>7, <2>1 DEF Fine

\* A token made is a longest match.
LEMMA MadeFine ==
  ASSUME TypeInv, Read, NumInv, Next, NEW t, toks' = Append(toks, t)
  PROVE  Fine(t)
<1>0. toks' # toks /\ i \in Nat
  <2>1. Len(toks') # Len(toks)
    BY Appended DEF TypeInv
  <2>2. QED
    BY <2>1, TextKnown DEF TypeInv, Text
<1>1. CASE SkipBlank \/ Comment \/ LineComment \/ BlockComment \/ Begin \/ Sign
  BY <1>0, <1>1 DEF SkipBlank, Comment, LineComment, BlockComment, Begin, Sign, token, Fail, Enter, Enough
<1>2. CASE EndOfFile
  <2>1. t = Token("EOF", << >>, Here, i)
    BY <1>2, AppendedIs DEF EndOfFile
  <2>2. t.kind = "EOF"
    BY <2>1 DEF Token
  <2>3. QED
    BY <2>2 DEF Fine
<1>3. CASE Operator
  BY <1>3, OperatorFine
<1>4. CASE Heredoc
  <2>1. t.kind = "HEREDOC"
    <3>1. \E doc, p, e : toks' = Append(toks, Token("HEREDOC", doc, p, e))
      BY <1>0, <1>4 DEF Heredoc, Fail
    <3>2. PICK doc, p, e : toks' = Append(toks, Token("HEREDOC", doc, p, e))
      BY <3>1
    <3>3. t = Token("HEREDOC", doc, p, e)
      BY <3>2, AppendedIs
    <3>4. QED
      BY <3>3 DEF Token
  <2>2. QED
    BY <2>1 DEF Fine
<1>5. CASE Variable
  <2>1. Emit("VARIABLE", text, 0)
    BY <1>0, <1>5 DEF Variable, Continue, Fail
  <2>2. t.kind = "VARIABLE"
    BY <2>1, EmitIs
  <2>3. QED
    BY <2>2 DEF Fine
<1>6. CASE Word
  <2>1. Emit(WordKind, text, 0)
    BY <1>0, <1>6 DEF Word, Continue
  <2>2. t.kind = WordKind /\ t.text = text /\ t.pos = start /\ t.end = i + 0
    BY <2>1, EmitIs
  <2>3. Sliced(t)
    <3>1. text = SubSeq(src, start.off, i - 1) /\ t.end - 1 = i - 1
      BY <1>0, <1>6, <2>2 DEF Word, Read, Reading
    <3>2. QED
      BY <2>2, <3>1 DEF Sliced
  <2>4. QED
    BY <2>2, <2>3, KindsApart DEF Fine
<1>7. CASE HexDigits \/ IntDigits \/ FractionDigits \/ ExponentDigits
  <2>1. /\ \/ mode = "hex" /\ Peek \notin Hex
           \/ mode = "int" /\ Peek \notin Digit /\ ~(Peek = "." /\ At(1) \in Digit) /\ Peek \notin {"e", "E"}
           \/ mode = "fraction" /\ Peek \notin Digit /\ Peek \notin {"e", "E"}
           \/ mode = "exponent" /\ Peek \notin Digit
        /\ mode \in {"hex", "int"} => Emit("INT", text, 0)
        /\ mode \in {"fraction", "exponent"} => Emit("FLOAT", text, 0)
    BY <1>0, <1>7 DEF HexDigits, IntDigits, FractionDigits, ExponentDigits, Continue, Enough
  <2>2. /\ mode \in {"hex", "int"} => t.kind = "INT"
        /\ mode \in {"fraction", "exponent"} => t.kind = "FLOAT"
        /\ t.text = text /\ t.pos = start /\ t.end = i
    BY <1>0, <2>1, EmitIs
  <2>3. /\ IsNumberText(text) /\ \A e \in i..Len(src) : ~IsNumberText(SubSeq(src, start.off, e))
        /\ mode \in {"hex", "int"} => DigitsOf(text) \/ IsHexText(text)
        /\ mode \in {"fraction", "exponent"} => ~DigitsOf(text) /\ ~IsHexText(text)
    BY <2>1, NumberRead
  <2>4. NumLongest(t)
    <3>1. (t.kind = "INT") = (DigitsOf(t.text) \/ IsHexText(t.text))
      BY <2>1, <2>2, <2>3
    <3>2. QED
      BY <2>2, <2>3, <3>1 DEF NumLongest
  <2>5. Sliced(t)
    BY <2>1, <2>2 DEF Sliced, Read, Reading
  <2>6. t.kind \in {"INT", "FLOAT"}
    BY <2>1, <2>2
  <2>7. QED
    BY <2>4, <2>5, <2>6 DEF Fine
<1>8. CASE Single \/ Double \/ Regexp
  <2>1. \E kind \in {"SQSTRING", "DQSTRING", "REGEXP"} : Emit(kind, text, 1)
    BY <1>0, <1>8 DEF Single, Double, Regexp, Continue, Fail, Escape, Escaped
  <2>2. t.kind \in {"SQSTRING", "DQSTRING", "REGEXP"}
    BY <2>1, EmitIs
  <2>3. QED
    BY <2>2 DEF Fine
<1>9. QED
  BY <1>1, <1>2, <1>3, <1>4, <1>5, <1>6, <1>7, <1>8 DEF Next, Scan

AllFine == \A k \in 1..Len(toks) : Fine(toks[k])

\* Being a longest match does not depend on anything but the text.
LEMMA SameFine == ASSUME src' = src PROVE \A t : Fine(t)' = Fine(t)
<1>1. \A t : OpLongest(t)' = OpLongest(t)
  BY DEF OpLongest
<1>2. \A t : NumLongest(t)' = NumLongest(t)
  BY DEF NumLongest
<1>3. \A t : Sliced(t)' = Sliced(t)
  BY DEF Sliced
<1>4. QED
  BY <1>1, <1>2, <1>3 DEF Fine

\* Tokens stay longest matches with every step.
LEMMA FineStep ==
  ASSUME TypeInv, Read, NumInv, AllFine, Next
  PROVE  AllFine'
<1>0. Shape /\ src' = src /\ Len(toks) \in Nat
  BY StepShape, EndedIs
<1>1. \A t : Fine(t)' = Fine(t)
  BY <1>0, SameFine
<1>2. CASE Walks
  BY <1>1, <1>2 DEF AllFine, Walks
<1>3. ASSUME NEW t, Makes(t) \/ Opens(t) PROVE AllFine'
  <2>1. toks' = Append(toks, t)
    BY <1>3 DEF Makes, Opens
  <2>2. Fine(t)
    BY <2>1, MadeFine
  <2>3. /\ Len(toks') = Len(toks) + 1
        /\ toks'[Len(toks) + 1] = t /\ \A k \in 1..Len(toks) : toks'[k] = toks[k]
    BY <2>1, Appended DEF TypeInv
  <2>4. \A k \in 1..Len(toks') : Fine(toks'[k])
    <3>1. \A k \in 1..Len(toks') : k \in 1..Len(toks) \/ k = Len(toks) + 1
      BY <1>0, <2>3
    <3>2. QED
      BY <2>2, <2>3, <3>1 DEF AllFine
  <2>5. QED
    BY <1>1, <2>4 DEF AllFine
<1>4. QED
  BY <1>0, <1>2, <1>3 DEF Shape

\* Tokens are always longest matches.
LEMMA AlwaysFine == Spec => [](Read /\ NumInv /\ AllFine)
<1>1. Init => Read /\ NumInv /\ AllFine
  BY DEF Init, Read, Reading, NumInv, NumIs, AllFine
<1>2. Read /\ NumInv /\ AllFine /\ UNCHANGED vars => (Read /\ NumInv /\ AllFine)'
  <2>1. SUFFICES ASSUME Read, NumInv, AllFine, UNCHANGED vars PROVE (Read /\ NumInv /\ AllFine)'
    OBVIOUS
  <2>2. src' = src /\ i' = i /\ toks' = toks /\ mode' = mode /\ start' = start /\ text' = text
    BY <2>1 DEF vars, place, token
  <2>3. Read'
    BY <2>1, <2>2 DEF Read
  <2>4. NumInv'
    <3>1. Peek' = Peek /\ At(1)' = At(1)
      BY <2>2 DEF Peek, At
    <3>2. QED
      BY <2>1, <2>2, <3>1 DEF NumInv
  <2>5. AllFine'
    BY <2>1, <2>2, SameFine DEF AllFine
  <2>6. QED
    BY <2>3, <2>4, <2>5
<1>3. QED
  BY <1>1, <1>2, ReadStep, NumStep, FineStep, AlwaysTyped, PTL DEF Spec

\* Longest matches are what NumbersLongest and OperatorsLongest ask for.
LEMMA FineMeans == AllFine => NumbersLongest /\ OperatorsLongest
<1>1. SUFFICES ASSUME AllFine PROVE NumbersLongest /\ OperatorsLongest
  OBVIOUS
<1>2. NumbersLongest
  BY <1>1 DEF NumbersLongest, AllFine, Fine, NumLongest
<1>3. OperatorsLongest
  <2>1. SUFFICES ASSUME NEW k \in 1..Len(toks), toks[k].kind \in {"op", ")", "]", "}"}
                 PROVE  /\ toks[k].text \in Operators
                        /\ \A e \in toks[k].end..Len(src) : SubSeq(src, toks[k].pos.off, e) \notin Operators
    BY Zenon DEF OperatorsLongest
  <2>2. OpLongest(toks[k])
    BY <1>1, <2>1 DEF AllFine, Fine
  <2>3. QED
    BY Zenon, <2>2 DEF OpLongest
<1>4. QED
  BY <1>2, <1>3


-----------------------------------------------------------------------------
(* What is between tokens *)

\* Where the token before ts[k] ends.
From(ts, k) == IF k = 1 THEN 1 ELSE ts[k - 1].end

SpacedInv == \A k \in 1..Len(toks) : toks[k].spaced = (toks[k].pos.off # From(toks, k))

\* A comment that was walked over: up to the end of its line, or up to the first */.
LineWalked(c) ==
  /\ src[c.off] = "#" /\ (c.end <= Len(src) => src[c.end] = "\n")
  /\ \A j \in c.off..(c.end - 1) : src[j] # "\n"
Unclosed(a, b) == \A p \in a..(b - 1) : p < Len(src) /\ p \notin Bodies => ~(src[p] = "*" /\ src[p + 1] = "/")
BlockWalked(c) ==
  /\ src[c.off] = "/" /\ src[c.off + 1] = "*" /\ c.end >= c.off + 4
  /\ c.end - 2 \notin Bodies /\ src[c.end - 2] = "*" /\ src[c.end - 1] = "/"
  /\ Unclosed(c.off + 2, c.end - 2)

\* Comments are walked over apart from the tokens, and so is the one in progress.
CommentInv ==
  /\ \A c \in comments :
       /\ c.off \in 1..Len(src) /\ c.end \in c.off..i /\ (LineWalked(c) \/ BlockWalked(c))
       /\ mode \in Inside => c.end <= start.off
       /\ \A k \in 1..Len(toks) : c.end <= toks[k].pos.off \/ toks[k].end <= c.off
  /\ mode \in {"line", "block"} =>
       start.off \in 1..Len(src) /\ \A k \in 1..Len(toks) : toks[k].end <= start.off
  /\ mode = "line" => src[start.off] = "#" /\ \A j \in start.off..(i - 1) : src[j] # "\n"
  /\ mode = "block" =>
       /\ src[start.off] = "/" /\ src[start.off + 1] = "*" /\ start.off + 2 <= i
       /\ Unclosed(start.off + 2, i)

\* What is passed between tokens.
Passed(j) == src[j] \in Blank \/ j \in Bodies \/ \E c \in comments : j \in c.off..(c.end - 1)
Gap(a, b) == \A j \in a..(b - 1) : Passed(j)
GapInv ==
  /\ mode = "skip" => Gap(Ended, i)
  /\ mode \in Inside \cup {"line", "block"} => Gap(Ended, start.off)
  /\ \A k \in 1..Len(toks) : Gap(From(toks, k), toks[k].pos.off)

\* A step skips a blank, is one of a comment, goes on in a token or makes one.
LEMMA StepKinds ==
  ASSUME TypeInv, Next
  PROVE  \/ SkipBlank \/ Comment \/ LineComment \/ BlockComment
         \/ Walks /\ mode \notin {"line", "block"} /\ mode' \notin {"skip", "line", "block"}
         \/ \E t : Makes(t) \/ Opens(t)
<1>0. Shape
  BY StepShape
<1>1. CASE SkipBlank \/ Comment \/ LineComment \/ BlockComment
  BY <1>1
<1>2. CASE ~(SkipBlank \/ Comment \/ LineComment \/ BlockComment)
  <2>1. SUFFICES ASSUME Walks PROVE mode \notin {"line", "block"} /\ mode' \notin {"skip", "line", "block"}
    BY <1>0 DEF Shape
  <2>2. ASSUME NEW t, toks' = Append(toks, t) PROVE FALSE
    <3>1. Len(toks') # Len(toks)
      BY <2>2, Appended DEF TypeInv
    <3>2. QED
      BY <2>1, <3>1 DEF Walks
  <2>3. CASE EndOfFile
    BY <2>2, <2>3 DEF EndOfFile
  <2>4. CASE Begin
    BY <2>4 DEF Begin, Begins, Enter, Fail
  <2>5. CASE Operator
    BY <2>2, <2>5 DEF Operator, Begins, Fail
  <2>6. CASE Heredoc
    BY <2>2, <2>6 DEF Heredoc, Begins, Fail
  <2>7. CASE Variable \/ Word
    BY <2>2, <2>7 DEF Variable, Word, Continue, Fail, Emit
  <2>8. CASE HexDigits \/ IntDigits \/ FractionDigits \/ Sign \/ ExponentDigits
    BY <2>2, <2>8 DEF HexDigits, IntDigits, FractionDigits, Sign, ExponentDigits, Continue, Enough, Fail, Emit
  <2>9. CASE Single \/ Double \/ Regexp
    BY <2>2, <2>9 DEF Single, Double, Regexp, Continue, Escape, Escaped, Fail, Emit
  <2>10. QED
    BY <1>2, <2>3, <2>4, <2>5, <2>6, <2>7, <2>8, <2>9 DEF Next, Scan
<1>3. QED
  BY <1>1, <1>2

\* Tokens stay spaced exactly when something was before them, with every step.
LEMMA SpacedStep ==
  ASSUME TypeInv, SpacedInv, Next
  PROVE  SpacedInv'
<1>0. Shape /\ Len(toks) \in Nat
  BY StepShape, EndedIs
<1>1. CASE Walks
  BY <1>1 DEF SpacedInv, Walks, From
<1>2. ASSUME NEW t, Makes(t) \/ Opens(t) PROVE SpacedInv'
  <2>1. toks' = Append(toks, t) /\ t.spaced = (t.pos.off # Ended)
    BY Zenon, <1>2 DEF Makes, Opens
  <2>2. /\ Len(toks') = Len(toks) + 1
        /\ toks'[Len(toks) + 1] = t /\ \A k \in 1..Len(toks) : toks'[k] = toks[k]
    BY <2>1, Appended DEF TypeInv
  <2>3. \A k \in 1..Len(toks) : From(toks', k) = From(toks, k)
    BY <1>0, <2>2 DEF From
  <2>4. From(toks', Len(toks) + 1) = Ended
    BY <1>0, <2>2, EndedIs DEF From, Ended
  <2>5. \A k \in 1..Len(toks') : k \in 1..Len(toks) \/ k = Len(toks) + 1
    BY <1>0, <2>2
  <2>6. \A k \in 1..Len(toks') : toks'[k].spaced = (toks'[k].pos.off # From(toks', k))
    BY Zenon, <2>1, <2>2, <2>3, <2>4, <2>5 DEF SpacedInv
  <2>7. QED
    BY Zenon, <2>6 DEF SpacedInv, From
<1>3. QED
  BY <1>0, <1>1, <1>2 DEF Shape

\* A comment that was walked over stays one.
LEMMA WalkedKept ==
  ASSUME TypeInv, DocInv, CommentInv, Next
  PROVE  \A c \in comments :
           c.off \in 1..Len(src) /\ c.end \in c.off..i' /\ (LineWalked(c)' \/ BlockWalked(c)')
<1>0. /\ src' = src /\ Len(src) \in Nat /\ i \in 1..(Len(src) + 1) /\ i' \in i..(Len(src) + 1)
  BY StepShape, Onward, TextKnown DEF TypeInv, Text, Shape, Walks, Makes, Moved
<1>1. \A j \in Int : j <= i' => (j \in Bodies' <=> j \in Bodies)
  BY BodiesKept
<1>2. SUFFICES ASSUME NEW c \in comments
               PROVE  c.off \in 1..Len(src) /\ c.end \in c.off..i' /\ (LineWalked(c)' \/ BlockWalked(c)')
  OBVIOUS
<1>3. c.off \in 1..Len(src) /\ c.end \in c.off..i /\ (LineWalked(c) \/ BlockWalked(c))
  BY <1>2 DEF CommentInv
<1>4. c.end \in c.off..i'
  BY <1>0, <1>3
<1>5. ASSUME LineWalked(c) PROVE LineWalked(c)'
  BY <1>0, <1>5 DEF LineWalked
<1>6. ASSUME BlockWalked(c) PROVE BlockWalked(c)'
  <2>1. c.end - 2 \in Int /\ c.end - 2 <= i' /\ c.end - 2 \notin Bodies /\ Unclosed(c.off + 2, c.end - 2)
    BY <1>0, <1>3, <1>6 DEF BlockWalked
  <2>2. Unclosed(c.off + 2, c.end - 2)'
    <3>1. \A p \in (c.off + 2)..(c.end - 2 - 1) : p \in Int /\ p <= i'
      BY <1>0, <1>3
    <3>2. QED
      BY <1>0, <1>1, <2>1, <3>1 DEF Unclosed
  <2>3. c.end - 2 \notin Bodies'
    BY <1>1, <2>1
  <2>4. QED
    BY <1>0, <1>6, <2>2, <2>3 DEF BlockWalked
<1>7. QED
  BY <1>3, <1>4, <1>5, <1>6

\* What CommentInv asks of the comments that there were, after a step that makes a token.
LEMMA CommentsMade ==
  ASSUME TypeInv, DocInv, CommentInv, Next, NEW t, Makes(t) \/ Opens(t)
  PROVE  CommentInv'
<1>0. /\ i \in Nat /\ Len(toks) \in Nat /\ src' = src
  BY StepShape, TextKnown, EndedIs DEF TypeInv, Text
<1>1. /\ toks' = Append(toks, t) /\ mode' \notin Inside \cup {"line", "block"} /\ mode \notin {"line", "block"}
      /\ (mode \in Inside /\ t.pos = start) \/ t.pos = Here
  BY DEF Makes, Opens, Inside
<1>2. comments' = comments
  BY <1>1 DEF Next, Noted
<1>3. /\ Len(toks') = Len(toks) + 1 /\ toks'[Len(toks) + 1] = t
      /\ \A k \in 1..Len(toks) : toks'[k] = toks[k]
  BY <1>1, Appended DEF TypeInv
<1>4. \A c \in comments : c.end <= t.pos.off
  <2>1. \A c \in comments : c.end \in Int /\ c.end <= i /\ (mode \in Inside => c.end <= start.off)
    BY <1>0 DEF CommentInv
  <2>2. QED
    BY <1>1, <2>1 DEF Here
<1>5. \A c \in comments : \A k \in 1..Len(toks') : c.end <= toks'[k].pos.off \/ toks'[k].end <= c.off
  <2>1. \A k \in 1..Len(toks') : k \in 1..Len(toks) \/ k = Len(toks) + 1
    BY <1>0, <1>3
  <2>2. QED
    BY <1>3, <1>4, <2>1 DEF CommentInv
<1>6. \A c \in comments : c.off \in 1..Len(src) /\ c.end \in c.off..i' /\ (LineWalked(c)' \/ BlockWalked(c)')
  BY WalkedKept
<1>7. QED
  BY <1>0, <1>1, <1>2, <1>5, <1>6 DEF CommentInv

\* After a step that makes none and ends no comment.
LEMMA CommentsWalked ==
  ASSUME TypeInv, DocInv, CommentInv, Next, toks' = toks, comments' = comments,
         mode' \notin {"line", "block"},
         mode' \in Inside => (mode \in Inside /\ start' = start) \/ start' = Here
  PROVE  CommentInv'
<1>0. i \in Nat /\ src' = src
  BY StepShape, TextKnown DEF TypeInv, Text
<1>1. \A c \in comments : c.off \in 1..Len(src) /\ c.end \in c.off..i' /\ (LineWalked(c)' \/ BlockWalked(c)')
  BY WalkedKept
<1>2. \A c \in comments : mode' \in Inside => c.end <= start'.off
  <2>1. \A c \in comments : c.end <= i /\ (mode \in Inside => c.end <= start.off)
    BY <1>0 DEF CommentInv
  <2>2. QED
    BY <2>1 DEF Here
<1>3. \A c \in comments : \A k \in 1..Len(toks) : c.end <= toks[k].pos.off \/ toks[k].end <= c.off
  BY DEF CommentInv
<1>4. QED
  BY <1>0, <1>1, <1>2, <1>3 DEF CommentInv

\* After a step that goes on in a comment, or begins one.
LEMMA CommentsGoOn ==
  ASSUME TypeInv, DocInv, CommentInv, Next, toks' = toks, comments' = comments,
         mode' \in {"line", "block"},
         start'.off \in 1..Len(src), \A k \in 1..Len(toks) : toks[k].end <= start'.off,
         mode' = "line" => src[start'.off] = "#" /\ \A j \in start'.off..(i' - 1) : src[j] # "\n",
         mode' = "block" =>
           /\ src[start'.off] = "/" /\ src[start'.off + 1] = "*" /\ start'.off + 2 <= i'
           /\ Unclosed(start.off + 2, i)'
  PROVE  CommentInv'
<1>0. src' = src /\ mode' \notin Inside
  BY StepShape DEF Inside
<1>1. \A c \in comments : c.off \in 1..Len(src) /\ c.end \in c.off..i' /\ (LineWalked(c)' \/ BlockWalked(c)')
  BY WalkedKept
<1>2. \A c \in comments : \A k \in 1..Len(toks) : c.end <= toks[k].pos.off \/ toks[k].end <= c.off
  BY DEF CommentInv
<1>3. QED
  BY <1>0, <1>1, <1>2 DEF CommentInv

\* After a step that ends one.
LEMMA CommentsEnd ==
  ASSUME TypeInv, DocInv, CommentInv, Next, toks' = toks, mode \in {"line", "block"}, mode' = "skip",
         NEW d, d = [off |-> start.off, end |-> i'], LineWalked(d)' \/ BlockWalked(d)'
  PROVE  CommentInv' /\ comments' = comments \cup {d}
<1>0. /\ src' = src /\ mode' \notin Inside \cup {"line", "block"} /\ i \in Nat /\ Len(src) \in Nat
      /\ i' \in i..(Len(src) + 1) /\ start.off \in 1..i
  BY StepShape, Onward, TextKnown DEF TypeInv, Text, Shape, Walks, Makes, Moved, Inside
<1>1. comments' = comments \cup {d}
  BY DEF Next, Noted
<1>2. \A c \in comments : c.off \in 1..Len(src) /\ c.end \in c.off..i' /\ (LineWalked(c)' \/ BlockWalked(c)')
  BY WalkedKept
<1>3. \A c \in comments : \A k \in 1..Len(toks) : c.end <= toks[k].pos.off \/ toks[k].end <= c.off
  BY DEF CommentInv
<1>4. start.off \in 1..Len(src) /\ \A k \in 1..Len(toks) : toks[k].end <= start.off
  BY DEF CommentInv
<1>5. /\ d.off \in 1..Len(src) /\ d.end \in d.off..i'
      /\ \A k \in 1..Len(toks) : toks[k].end <= d.off
  <2>1. d.off = start.off /\ d.end = i'
    OBVIOUS
  <2>2. QED
    BY <1>0, <1>4, <2>1
<1>6. \A c \in comments' :
        /\ c.off \in 1..Len(src) /\ c.end \in c.off..i' /\ (LineWalked(c)' \/ BlockWalked(c)')
        /\ \A k \in 1..Len(toks) : c.end <= toks[k].pos.off \/ toks[k].end <= c.off
  BY <1>1, <1>2, <1>3, <1>5
<1>7. QED
  BY <1>0, <1>1, <1>6 DEF CommentInv

\* A comment begins where the scanner is.
LEMMA CommentBegins ==
  ASSUME TypeInv, DocInv, CommentInv, Next, Comment
  PROVE  CommentInv' /\ comments' = comments /\ start' = Here /\ mode' \in {"line", "block"}
<1>0. /\ Text /\ Peek = At(0) /\ i \in 1..(Len(src) + 1) /\ Len(src) \in Nat /\ src' = src
      /\ "#" # EOF /\ "/" # EOF /\ "*" # EOF
  BY StepShape, TextKnown, Looked, NotEnd DEF TypeInv, Text, Punctuation
<1>1. \A k \in 0..1 : At(k) # EOF => i + k <= Len(src) /\ At(k) = src[i + k]
  BY <1>0, Looked
<1>2. mode = "skip" /\ toks' = toks /\ start' = Here /\ Here.off = i
  BY DEF Comment, Enter, Here
<1>3. comments' = comments
  BY <1>2 DEF Next, Noted
<1>4. \A k \in 1..Len(toks) : toks[k].end <= i
  <2>1. SUFFICES ASSUME NEW k \in 1..Len(toks) PROVE toks[k].end <= i
    OBVIOUS
  <2>2. toks[k].pos.off \in 1..i /\ toks[k].end \in toks[k].pos.off..i
    BY DEF TypeInv
  <2>3. QED
    BY <1>0, <2>2
<1>5. CASE Peek = "#" /\ i' = i /\ mode' = "line"
  <2>1. i \in 1..Len(src) /\ src[i] = "#"
    BY <1>0, <1>1, <1>5
  <2>2. \A j \in i..(i - 1) : FALSE
    BY <1>0
  <2>3. QED
    BY <1>2, <1>3, <1>4, <1>5, <2>1, <2>2, CommentsGoOn
<1>6. CASE Peek = "/" /\ At(1) = "*" /\ i' = i + 2 /\ mode' = "block"
  <2>1. i \in 1..Len(src) /\ src[i] = "/" /\ src[i + 1] = "*"
    BY <1>0, <1>1, <1>6
  <2>2. \A j \in (i + 2)..(i + 2 - 1) : FALSE
    BY <1>0
  <2>3. Unclosed(start.off + 2, i)'
    BY <1>2, <1>6, <2>2 DEF Unclosed
  <2>4. i + 2 <= i'
    BY <1>0, <1>6
  <2>5. QED
    BY <1>2, <1>3, <1>4, <1>6, <2>1, <2>3, <2>4, CommentsGoOn
<1>7. QED
  BY <1>5, <1>6 DEF Comment, Enter, Stay, Adv, place

\* A line comment goes on to the end of its line.
LEMMA LineCommentStep ==
  ASSUME TypeInv, DocInv, CommentInv, Next, LineComment
  PROVE  /\ CommentInv' /\ toks' = toks /\ start' = start
         /\ \/ mode' = "line" /\ comments' = comments
            \/ mode' = "skip" /\ i' = i /\ comments' = comments \cup {[off |-> start.off, end |-> i']}
<1>0. /\ Text /\ Peek = At(0) /\ i \in 1..(Len(src) + 1) /\ Len(src) \in Nat /\ src' = src
      /\ (i <= Len(src) => Peek = src[i] /\ Peek # EOF) /\ (i > Len(src) => Peek = EOF)
  BY StepShape, TextKnown, Looked DEF TypeInv, Text
<1>1. /\ mode = "line" /\ toks' = toks /\ start' = start
      /\ start.off \in 1..Len(src) /\ \A k \in 1..Len(toks) : toks[k].end <= start.off
      /\ src[start.off] = "#" /\ \A j \in start.off..(i - 1) : src[j] # "\n"
  BY DEF CommentInv, LineComment, token
<1>2. CASE Peek \in {EOF, "\n"}
  <2>1. i' = i /\ mode' = "skip"
    BY <1>2 DEF LineComment, Stay, place
  <2>0. PICK d : d = [off |-> start.off, end |-> i']
    OBVIOUS
  <2>2. d.off = start.off /\ d.end = i
    BY <2>0, <2>1
  <2>3. i <= Len(src) => src[i] = "\n"
    BY <1>0, <1>2
  <2>4. LineWalked(d)'
    BY <1>0, <1>1, <2>2, <2>3 DEF LineWalked
  <2>5. QED
    BY <1>1, <2>0, <2>1, <2>4, CommentsEnd
<1>3. CASE Peek \notin {EOF, "\n"}
  <2>1. i' = i + 1 /\ mode' = "line"
    BY <1>1, <1>3 DEF LineComment, Adv, token
  <2>2. comments' = comments
    BY <2>1 DEF Next, Noted
  <2>3. \A j \in start.off..(i' - 1) : src[j] # "\n"
    <3>1. src[i] # "\n" /\ \A j \in start.off..(i' - 1) : j \in start.off..(i - 1) \/ j = i
      BY <1>0, <1>1, <1>3, <2>1
    <3>2. QED
      BY <1>1, <3>1
  <2>4. mode' \in {"line", "block"} /\ mode' # "block"
    BY <2>1
  <2>5. CommentInv'
    BY <1>1, <2>2, <2>3, <2>4, CommentsGoOn
  <2>6. QED
    BY <1>1, <2>1, <2>2, <2>5
<1>4. QED
  BY <1>2, <1>3

\* A block comment goes on to the first end of one that is in no body.
LEMMA BlockCommentStep ==
  ASSUME TypeInv, DocInv, JumpInv, CommentInv, Next, BlockComment
  PROVE  /\ CommentInv' /\ toks' = toks /\ start' = start
         /\ \/ mode' \in {"block", "failed"} /\ comments' = comments
            \/ mode' = "skip" /\ comments' = comments \cup {[off |-> start.off, end |-> i']}
<1>0. /\ Text /\ Peek = At(0) /\ i \in 1..(Len(src) + 1) /\ Len(src) \in Nat /\ src' = src
      /\ \A k \in 0..1 : i + k <= Len(src) => At(k) = src[i + k] /\ At(k) # EOF
      /\ \A k \in 0..1 : i + k > Len(src) => At(k) = EOF
      /\ i' \in Int /\ i' >= i /\ "*" # EOF /\ "/" # EOF
  <2>1. src' = src /\ Text /\ i' \in Int /\ i' >= i
    BY StepShape, TextKnown, Where
  <2>2. i \in 1..(Len(src) + 1) /\ Len(src) \in Nat
    BY <2>1 DEF TypeInv, Text
  <2>3. "*" # EOF /\ "/" # EOF
    BY NotEnd DEF Punctuation
  <2>4. /\ Peek = At(0)
        /\ \A k \in 0..2 : i + k <= Len(src) => At(k) = src[i + k] /\ At(k) # EOF
        /\ \A k \in 0..2 : i + k > Len(src) => At(k) = EOF
    BY <2>1, <2>2, Looked
  <2>5. QED
    BY <2>1, <2>2, <2>3, <2>4
<1>1. /\ mode = "block" /\ toks' = toks /\ start' = start
      /\ start.off \in 1..Len(src) /\ (\A k \in 1..Len(toks) : toks[k].end <= start.off)
      /\ src[start.off] = "/" /\ src[start.off + 1] = "*" /\ start.off + 2 <= i
      /\ Unclosed(start.off + 2, i)
  BY DEF CommentInv, BlockComment, token, Fail
<1>2. i \notin Bodies
  <2>1. \A j \in i..i : j \notin Bodies
    BY <1>0, LineUnseen
  <2>2. QED
    BY <1>0, <2>1
<1>3. Bodies' = Bodies
  BY <1>0, <1>1, SameBodies
<1>4. CASE Peek = EOF
  <2>1. mode' = "failed"
    BY <1>4 DEF BlockComment, Fail
  <2>2. comments' = comments
    BY <2>1 DEF Next, Noted
  <2>3. CommentInv'
    BY <1>1, <2>1, <2>2, CommentsWalked DEF Inside
  <2>4. QED
    BY <1>1, <2>1, <2>2, <2>3
<1>5. CASE Peek = "*" /\ At(1) = "/"
  <2>1. i' = i + 2 /\ mode' = "skip"
    BY <1>0, <1>5 DEF BlockComment, Adv
  <2>2. i + 1 <= Len(src) /\ src[i] = "*" /\ src[i + 1] = "/"
    BY <1>0, <1>5
  <2>0. PICK d : d = [off |-> start.off, end |-> i']
    OBVIOUS
  <2>3. d.off = start.off /\ d.end = i + 2
    BY <2>0, <2>1
  <2>4. d.end - 2 = i /\ d.end - 1 = i + 1 /\ d.end >= d.off + 4
    BY <1>0, <1>1, <2>3
  <2>5. Unclosed(d.off + 2, d.end - 2)'
    BY <1>0, <1>1, <1>3, <2>3, <2>4 DEF Unclosed
  <2>6. BlockWalked(d)'
    BY <1>0, <1>1, <1>2, <1>3, <2>2, <2>3, <2>4, <2>5 DEF BlockWalked
  <2>7. QED
    BY <1>1, <2>0, <2>1, <2>6, CommentsEnd
<1>6. CASE Peek # EOF /\ ~(Peek = "*" /\ At(1) = "/")
  <2>1. AdvAny /\ mode' = "block"
    BY <1>1, <1>6 DEF BlockComment, token
  <2>2. comments' = comments
    BY <2>1 DEF Next, Noted
  <2>3. i <= Len(src) /\ ~(i < Len(src) /\ src[i] = "*" /\ src[i + 1] = "/")
    BY <1>0, <1>6
  <2>4. \A j \in (i + 1)..(i' - 1) : j \in Bodies
    <3>1. Ahead(1) \/ Crossed
      BY <1>6, <2>1, Moves
    <3>2. CASE Ahead(1)
      BY <1>0, <3>2 DEF Ahead
    <3>3. CASE Crossed
      BY <3>3, CrossedBodies
    <3>4. QED
      BY <3>1, <3>2, <3>3
  <2>5. Unclosed(start.off + 2, i)'
    <3>1. \A p \in (start.off + 2)..(i' - 1) :
            p \in (start.off + 2)..(i - 1) \/ p = i \/ p \in (i + 1)..(i' - 1)
      <4>1. PICK n \in Int : n = i'
        BY <1>0
      <4>2. \A p \in (start.off + 2)..(n - 1) :
              p \in (start.off + 2)..(i - 1) \/ p = i \/ p \in (i + 1)..(n - 1)
        BY <1>0, <1>1
      <4>3. QED
        BY <4>1, <4>2
    <3>2. QED
      BY <1>0, <1>1, <1>3, <2>3, <2>4, <3>1 DEF Unclosed
  <2>6. start.off + 2 <= i'
    BY <1>0, <1>1
  <2>7. mode' \in {"line", "block"} /\ mode' # "line"
    BY <2>1
  <2>8. CommentInv'
    BY <1>1, <2>2, <2>5, <2>6, <2>7, CommentsGoOn
  <2>9. QED
    BY <1>1, <2>1, <2>2, <2>8
<1>7. QED
  BY <1>4, <1>5, <1>6

\* Comments stay comments, apart from the tokens, with every step.
LEMMA CommentStep ==
  ASSUME TypeInv, DocInv, JumpInv, CommentInv, Next
  PROVE  CommentInv'
<1>1. CASE SkipBlank
  <2>1. toks' = toks /\ mode' = "skip" /\ mode = "skip"
    BY <1>1 DEF SkipBlank, token
  <2>2. comments' = comments /\ mode' \notin Inside \cup {"line", "block"}
    BY <2>1 DEF Next, Noted, Inside
  <2>3. QED
    BY <2>1, <2>2, CommentsWalked
<1>2. CASE Comment
  BY <1>2, CommentBegins
<1>3. CASE LineComment
  BY <1>3, LineCommentStep
<1>4. CASE BlockComment
  BY <1>4, BlockCommentStep
<1>5. CASE Walks /\ mode \notin {"line", "block"} /\ mode' \notin {"skip", "line", "block"}
  <2>1. comments' = comments
    BY <1>5 DEF Next, Noted
  <2>2. /\ toks' = toks
        /\ mode' \in Inside => (mode \in Inside /\ start' = start) \/ start' = Here
    BY <1>5 DEF Walks
  <2>3. QED
    BY <1>5, <2>1, <2>2, CommentsWalked
<1>6. CASE \E t : Makes(t) \/ Opens(t)
  BY <1>6, CommentsMade
<1>7. QED
  BY <1>1, <1>2, <1>3, <1>4, <1>5, <1>6, StepKinds

\* What has been passed stays so.
LEMMA PassedKept ==
  ASSUME TypeInv, DocInv, Next
  PROVE  /\ \A j \in Int : j <= i' /\ Passed(j) => Passed(j)'
         /\ \A a, b \in Int : b <= i' /\ Gap(a, b) => \A j \in a..(b - 1) : Passed(j)'
<1>0. src' = src /\ i' \in Int
  BY StepShape, Onward, TextKnown DEF TypeInv, Text, Shape, Walks, Makes, Moved
<1>1. \A j \in Int : j <= i' => (j \in Bodies' <=> j \in Bodies)
  BY BodiesKept
<1>2. \A c \in comments : c \in comments'
  BY DEF Next, Noted
<1>3. \A j \in Int : j <= i' /\ Passed(j) => Passed(j)'
  BY <1>0, <1>1, <1>2 DEF Passed
<1>4. \A a, b \in Int : b <= i' /\ Gap(a, b) => \A j \in a..(b - 1) : Passed(j)'
  <2>1. \A a, b \in Int : b <= i' => \A j \in a..(b - 1) : j \in Int /\ j <= i'
    BY <1>0
  <2>2. QED
    BY <1>3, <2>1 DEF Gap
<1>5. QED
  BY <1>3, <1>4

\* Only what may be passed is between tokens, with every step.
LEMMA GapStep ==
  ASSUME TypeInv, DocInv, JumpInv, CommentInv, GapInv, Next
  PROVE  GapInv'
<1>0. /\ src' = src /\ Text /\ Len(src) \in Nat /\ i \in 1..(Len(src) + 1) /\ Len(toks) \in Nat
      /\ Ended \in 1..i /\ start.off \in 1..i /\ i' \in i..(Len(src) + 1)
  BY StepShape, Onward, TextKnown, EndedIs DEF TypeInv, Text, Shape, Walks, Makes, Moved
<1>00. /\ \A j \in Ended..(i' - 1) : j \in Int /\ j <= i'
       /\ \A j \in Ended..(i' - 1) : j \in Ended..(i - 1) \/ j = i \/ j \in (i + 1)..(i' - 1)
       /\ \A j \in Ended..(i' - 1) : j \in Ended..(start.off - 1) \/ j \in start.off..(i' - 1)
       /\ \A j \in i'..(i' - 1) : FALSE
  <2>1. PICK n \in Int : n = i'
    BY Where
  <2>2. /\ \A j \in Ended..(n - 1) : j \in Int /\ j <= n
        /\ \A j \in Ended..(n - 1) : j \in Ended..(i - 1) \/ j = i \/ j \in (i + 1)..(n - 1)
        /\ \A j \in Ended..(n - 1) : j \in Ended..(start.off - 1) \/ j \in start.off..(n - 1)
        /\ \A j \in n..(n - 1) : FALSE
    <3>1. Ended \in Int /\ start.off \in Int /\ i \in Int
      BY <1>0
    <3>2. QED
      BY <3>1
  <2>3. QED
    BY <2>1, <2>2
<1>1. \A k \in 1..Len(toks) : /\ toks[k].pos.off \in 1..i /\ From(toks, k) \in Int
                              /\ Gap(From(toks, k), toks[k].pos.off)
  <2>1. SUFFICES ASSUME NEW k \in 1..Len(toks)
                 PROVE  toks[k].pos.off \in 1..i /\ From(toks, k) \in Int /\ Gap(From(toks, k), toks[k].pos.off)
    OBVIOUS
  <2>2. \A h \in 1..Len(toks) : toks[h].pos.off \in 1..i /\ toks[h].end \in toks[h].pos.off..i
    BY DEF TypeInv
  <2>3. k > 1 => k - 1 \in 1..Len(toks)
    BY <1>0
  <2>4. From(toks, k) \in Int
    BY <1>0, <2>2, <2>3 DEF From
  <2>5. QED
    BY <2>2, <2>4 DEF GapInv
<1>2. /\ \A j \in Int : j <= i' /\ Passed(j) => Passed(j)'
      /\ \A a, b \in Int : b <= i' /\ Gap(a, b) => \A j \in a..(b - 1) : Passed(j)'
  BY PassedKept
<1> DEFINE After(a, b) == \A j \in a..(b - 1) : Passed(j)'
           Now == /\ mode' = "skip" => After(Ended', i')
                  /\ mode' \in Inside \cup {"line", "block"} => After(Ended', start'.off)
                  /\ \A k \in 1..Len(toks') : After(From(toks', k), toks'[k].pos.off)
<1>3. ASSUME toks' = toks
      PROVE  /\ Ended' = Ended
             /\ \A k \in 1..Len(toks') : After(From(toks', k), toks'[k].pos.off)
  <2>1. \A k \in 1..Len(toks) : toks[k].pos.off \in Int /\ toks[k].pos.off <= i'
    BY <1>0, <1>1
  <2>2. Ended' = Ended
    BY <1>3 DEF Ended
  <2>3. QED
    BY <1>1, <1>2, <1>3, <2>1, <2>2
<1>4. /\ mode = "skip" => After(Ended, i)
      /\ mode \in Inside \cup {"line", "block"} => After(Ended, start.off)
  <2>1. /\ mode = "skip" => Gap(Ended, i)
        /\ mode \in Inside \cup {"line", "block"} => Gap(Ended, start.off)
    BY DEF GapInv
  <2>2. i \in Int /\ start.off \in Int /\ Ended \in Int /\ i <= i' /\ start.off <= i'
    BY <1>0
  <2>3. QED
    BY <1>2, <2>1, <2>2
<1>5. CASE SkipBlank
  <2>1. mode' = "skip" /\ mode = "skip" /\ toks' = toks /\ Peek \in Blank /\ AdvAny
    BY <1>5 DEF SkipBlank, token
  <2>2. Peek # EOF /\ i <= Len(src) /\ src[i] \in Blank
    <3>1. EOF \notin Blank
      BY NotEnd
    <3>2. QED
      BY <1>0, <2>1, <3>1, Looked
  <2>3. \A j \in (i + 1)..(i' - 1) : j \in Bodies
    <3>1. Ahead(1) \/ Crossed
      BY <2>1, <2>2, Moves
    <3>2. CASE Ahead(1)
      BY <1>0, <3>2 DEF Ahead
    <3>3. CASE Crossed
      BY <3>3, CrossedBodies
    <3>4. QED
      BY <3>1, <3>2, <3>3
  <2>4. After(Ended, i')
    <3>1. SUFFICES ASSUME NEW j \in Ended..(i' - 1) PROVE Passed(j)'
      OBVIOUS
    <3>2. j \in Ended..(i - 1) \/ j = i \/ j \in (i + 1)..(i' - 1)
      BY <1>00
    <3>3. CASE j \in Ended..(i - 1)
      BY <1>4, <2>1, <3>3
    <3>4. CASE j = i \/ j \in (i + 1)..(i' - 1)
      <4>1. Passed(j)
        BY <2>2, <2>3, <3>4 DEF Passed
      <4>2. j \in Int /\ j <= i'
        BY <1>00
      <4>3. QED
        BY <1>2, <4>1, <4>2
    <3>5. QED
      BY <3>2, <3>3, <3>4
  <2>5. mode' \notin Inside \cup {"line", "block"}
    BY <2>1 DEF Inside
  <2>6. Now
    BY <1>3, <2>1, <2>4, <2>5
  <2>7. QED
    BY <2>6 DEF GapInv, Gap, From
<1>6. CASE Comment
  <2>1. /\ mode' \in {"line", "block"} /\ start' = Here /\ Here.off = i
    BY <1>6, CommentBegins DEF Here
  <2>2. toks' = toks /\ mode = "skip"
    BY <1>6 DEF Comment, Enter
  <2>3. Now
    BY <1>3, <1>4, <2>1, <2>2
  <2>4. QED
    BY <2>3 DEF GapInv, Gap, From
<1>7. CASE LineComment \/ BlockComment
  <2>1. /\ toks' = toks /\ start' = start /\ mode \in {"line", "block"}
        /\ \/ mode' \in {"line", "block", "failed"}
           \/ mode' = "skip" /\ comments' = comments \cup {[off |-> start.off, end |-> i']}
    BY <1>7, LineCommentStep, BlockCommentStep DEF LineComment, BlockComment
  <2>2. ASSUME mode' = "skip" PROVE After(Ended, i')
    <3>1. comments' = comments \cup {[off |-> start.off, end |-> i']}
      BY <2>1, <2>2
    <3>2. SUFFICES ASSUME NEW j \in Ended..(i' - 1) PROVE Passed(j)'
      OBVIOUS
    <3>3. j \in Ended..(start.off - 1) \/ j \in start.off..(i' - 1)
      BY <1>00
    <3>4. CASE j \in Ended..(start.off - 1)
      BY <1>4, <2>1, <3>4
    <3>5. CASE j \in start.off..(i' - 1)
      <4> DEFINE d == [off |-> start.off, end |-> i']
      <4>1. d \in comments' /\ d.off = start.off /\ d.end = i'
        BY <3>1
      <4> HIDE DEF d
      <4>2. j \in d.off..(d.end - 1)
        BY <3>5, <4>1
      <4>3. QED
        BY <4>1, <4>2 DEF Passed
    <3>6. QED
      BY <3>3, <3>4, <3>5
  <2>3. mode' \notin Inside
    BY <2>1 DEF Inside
  <2>4. Now
    BY <1>3, <1>4, <2>1, <2>2, <2>3
  <2>5. QED
    BY <2>4 DEF GapInv, Gap, From
<1>8. CASE Walks /\ mode \notin {"line", "block"} /\ mode' \notin {"skip", "line", "block"}
  <2>1. /\ toks' = toks
        /\ mode' \in Inside => (mode \in Inside /\ start' = start) \/ (mode = "skip" /\ start' = Here)
    BY <1>8 DEF Walks
  <2>2. Now
    BY <1>3, <1>4, <1>8, <2>1 DEF Here
  <2>3. QED
    BY <2>2 DEF GapInv, Gap, From
<1>9. CASE \E t : Makes(t) \/ Opens(t)
  <2>1. PICK t : Makes(t) \/ Opens(t)
    BY <1>9
  <2>2. /\ toks' = Append(toks, t) /\ mode' \in {"skip", "done"} /\ t.end = i'
        /\ (mode \in Inside /\ t.pos = start) \/ (mode = "skip" /\ t.pos = Here)
    BY <2>1 DEF Makes, Opens
  <2>3. After(Ended, t.pos.off)
    BY <1>4, <2>2 DEF Here
  <2>4. /\ Len(toks') = Len(toks) + 1
        /\ toks'[Len(toks) + 1] = t /\ \A k \in 1..Len(toks) : toks'[k] = toks[k]
    BY <2>2, Appended DEF TypeInv
  <2>5. Ended' = i'
    <3>1. toks' # << >> /\ Ended' = toks'[Len(toks')].end
      BY <1>0, <2>4 DEF Ended
    <3>2. QED
      BY <2>2, <2>4, <3>1
  <2>6. After(Ended', i')
    <3>1. \A j \in i'..(i' - 1) : FALSE
      BY <1>00
    <3>2. QED
      BY <2>5, <3>1
  <2>7. \A k \in 1..Len(toks) : From(toks', k) = From(toks, k)
    BY <1>0, <2>4 DEF From
  <2>8. From(toks', Len(toks) + 1) = Ended
    BY <1>0, <2>4, EndedIs DEF From, Ended
  <2>9. \A k \in 1..Len(toks') : k \in 1..Len(toks) \/ k = Len(toks) + 1
    BY <1>0, <2>4
  <2>10. \A k \in 1..Len(toks) : After(From(toks, k), toks[k].pos.off)
    <3>1. \A k \in 1..Len(toks) : toks[k].pos.off \in Int /\ toks[k].pos.off <= i'
      BY <1>0, <1>1
    <3>2. QED
      BY <1>1, <1>2, <3>1
  <2>11. \A k \in 1..Len(toks') : After(From(toks', k), toks'[k].pos.off)
    BY <2>3, <2>4, <2>7, <2>8, <2>9, <2>10
  <2>12. mode' \notin Inside \cup {"line", "block"}
    BY <2>2 DEF Inside
  <2>13. Now
    BY <2>6, <2>11, <2>12
  <2>14. QED
    BY <2>13 DEF GapInv, Gap, From
<1>10. QED
  BY <1>5, <1>6, <1>7, <1>8, <1>9, StepKinds

\* A comment that was walked over is one by the language.
LEMMA WalkedIs ==
  ASSUME TypeInv, CommentInv, NEW c \in comments
  PROVE  IsLineComment(c) \/ IsBlockComment(c)
<1>0. /\ Text /\ Len(src) \in Nat /\ i \in 1..(Len(src) + 1)
      /\ c.off \in 1..Len(src) /\ c.end \in c.off..i /\ (LineWalked(c) \/ BlockWalked(c))
  BY TextKnown DEF TypeInv, Text, CommentInv
<1>1. CASE LineWalked(c)
  <2>1. /\ src[c.off] = "#" /\ (c.end <= Len(src) => src[c.end] \in {"\n"})
        /\ \A j \in c.off..(c.end - 1) : src[j] \notin {"\n"}
    BY <1>1 DEF LineWalked
  <2>2. c.off \in 1..(Len(src) + 1) /\ c.end \in c.off..(Len(src) + 1)
    BY <1>0
  <2>3. Find(c.off, {"\n"}) = c.end
    BY <1>0, <2>1, <2>2, FoundAt
  <2>4. QED
    BY <2>1, <2>3 DEF IsLineComment
<1>2. CASE BlockWalked(c)
  <2> DEFINE S == {p \in (c.off + 2)..(Len(src) - 1) : p \notin Bodies /\ src[p] = "*" /\ src[p + 1] = "/"}
             e == c.end - 2
  <2>1. /\ src[c.off] = "/" /\ src[c.off + 1] = "*" /\ c.end >= c.off + 4
        /\ e \notin Bodies /\ src[e] = "*" /\ src[c.end - 1] = "/" /\ Unclosed(c.off + 2, e)
    BY <1>2 DEF BlockWalked
  <2>2. e \in (c.off + 2)..(Len(src) - 1) /\ c.end - 1 = e + 1 /\ c.end = e + 2 /\ e \in Nat
    <3>1. c.off \in Int /\ c.off >= 1 /\ c.end \in Int /\ c.end <= Len(src) + 1 /\ c.end >= c.off + 4
      BY <1>0, <2>1
    <3>2. QED
      BY <1>0, <3>1
  <2>3. e \in S
    BY <2>1, <2>2
  <2>4. \A p \in S : p >= e
    <3>1. SUFFICES ASSUME NEW p \in S, p < e PROVE FALSE
      BY <1>0, <2>2
    <3>2. p \in (c.off + 2)..(e - 1) /\ p < Len(src) /\ p \notin Bodies /\ src[p] = "*" /\ src[p + 1] = "/"
      BY <1>0, <2>2, <3>1
    <3>3. QED
      BY <2>1, <3>2 DEF Unclosed
  <2>5. S \in SUBSET Nat /\ S # {}
    BY <1>0, <2>3
  <2>6. Min(S) = e
    <3> HIDE DEF S, e
    <3>1. Min(S) \in S /\ \A y \in S : Min(S) <= y
      BY <2>5, MinIs
    <3>2. e \in Nat /\ Min(S) \in Nat /\ Min(S) <= e /\ Min(S) >= e
      BY <2>2, <2>3, <2>4, <2>5, <3>1
    <3>3. QED
      BY <3>2
  <2>7. c.end = Min(S) + 2 /\ S # {}
    <3> HIDE DEF S, e
    <3>1. QED
      BY <2>2, <2>5, <2>6
  <2>8. QED
    BY <2>1, <2>7 DEF IsBlockComment
<1>3. QED
  BY <1>0, <1>1, <1>2

\* Nothing but blanks, comments and bodies is between tokens (next, skipSpaceAndComments).
LEMMA AlwaysBlank == Spec => []BlanksBetween
<1>1. Init => SpacedInv /\ CommentInv /\ GapInv
  <2>1. SUFFICES ASSUME Init PROVE SpacedInv /\ CommentInv /\ GapInv
    OBVIOUS
  <2>2. i = 1 /\ toks = << >> /\ Len(toks) = 0 /\ mode = "skip" /\ Ended = 1 /\ comments = {}
    BY <2>1 DEF Init, Ended
  <2>3. \A k \in 1..Len(toks) : FALSE
    BY <2>2
  <2>4. SpacedInv
    BY Zenon, <2>3 DEF SpacedInv
  <2>5. Gap(Ended, i)
    BY <2>2 DEF Gap
  <2>6. mode \notin Inside \cup {"line", "block"}
    BY <2>2 DEF Inside
  <2>7. QED
    BY <2>2, <2>3, <2>4, <2>5, <2>6 DEF CommentInv, GapInv
<1>2. SpacedInv /\ CommentInv /\ GapInv /\ UNCHANGED vars => (SpacedInv /\ CommentInv /\ GapInv)'
  <2>1. SUFFICES ASSUME SpacedInv, CommentInv, GapInv, UNCHANGED vars PROVE (SpacedInv /\ CommentInv /\ GapInv)'
    OBVIOUS
  <2>2. /\ src' = src /\ i' = i /\ toks' = toks /\ mode' = mode /\ start' = start /\ comments' = comments
        /\ Ended' = Ended
    BY <2>1 DEF vars, place, token, Ended
  <2>3. SpacedInv' = SpacedInv
    BY <2>2 DEF SpacedInv, From
  <2>4. Bodies' = Bodies
    BY <2>2, SameBodies
  <2>5. /\ \A a, b : Unclosed(a, b)' = Unclosed(a, b)
        /\ \A c : LineWalked(c)' = LineWalked(c)
    BY <2>2, <2>4 DEF Unclosed, LineWalked
  <2>6. \A c : BlockWalked(c)' = BlockWalked(c)
    BY <2>2, <2>4, <2>5 DEF BlockWalked
  <2>7. CommentInv'
    BY <2>1, <2>2, <2>4, <2>5, <2>6 DEF CommentInv
  <2>8. \A j : Passed(j)' = Passed(j)
    BY <2>2, <2>4 DEF Passed
  <2>9. GapInv'
    BY <2>1, <2>2, <2>8 DEF GapInv, Gap, From
  <2>10. QED
    BY <2>1, <2>3, <2>7, <2>9
<1>3. TypeInv /\ AllFine /\ SpacedInv /\ CommentInv /\ GapInv => BlanksBetween
  <2>1. SUFFICES ASSUME TypeInv, AllFine, SpacedInv, CommentInv, GapInv PROVE BlanksBetween
    OBVIOUS
  <2>2. \A c \in comments :
          /\ IsLineComment(c) \/ IsBlockComment(c)
          /\ \A k \in 1..Len(toks) : c.end <= toks[k].pos.off \/ toks[k].end <= c.off
    BY <2>1, WalkedIs DEF CommentInv
  <2>3. ASSUME NEW k \in 1..Len(toks)
        PROVE  /\ toks[k].pos.off >= From(toks, k) /\ toks[k].end >= toks[k].pos.off
               /\ Gap(From(toks, k), toks[k].pos.off)
               /\ toks[k].spaced = (toks[k].pos.off # From(toks, k))
               /\ toks[k].kind \in {"NAME", "TYPE", "INT", "FLOAT", "op"} =>
                    toks[k].text = SubSeq(src, toks[k].pos.off, toks[k].end - 1)
    <3>1. /\ toks[k].pos.off \in 1..i /\ toks[k].end \in toks[k].pos.off..i
          /\ (k > 1 => toks[k].pos.off >= toks[k - 1].end) /\ i \in Nat
      BY <2>1, TextKnown DEF TypeInv, Text
    <3>2. toks[k].pos.off >= From(toks, k) /\ toks[k].end >= toks[k].pos.off
      BY <3>1 DEF From
    <3>3. Gap(From(toks, k), toks[k].pos.off)
      BY <2>1 DEF GapInv
    <3>4. toks[k].spaced = (toks[k].pos.off # From(toks, k))
      BY Zenon, <2>1 DEF SpacedInv
    <3>5. toks[k].kind \in {"NAME", "TYPE", "INT", "FLOAT", "op"} =>
            toks[k].text = SubSeq(src, toks[k].pos.off, toks[k].end - 1)
      BY <2>1 DEF AllFine, Fine, Sliced
    <3>6. QED
      BY Zenon, <3>2, <3>3, <3>4, <3>5
  <2>4. QED
    BY Zenon, <2>2, <2>3 DEF BlanksBetween, From, Gap, Passed
<1>4. QED
  BY <1>1, <1>2, <1>3, SpacedStep, CommentStep, GapStep, AlwaysTyped, AlwaysDocs, AlwaysJumps, AlwaysFine,
     PTL DEF Spec

-----------------------------------------------------------------------------
(* Strings and regular expressions *)

\* The loops that read quoted texts, and what ends them.
Quoted == {"single", "double", "doubleEscape", "regexp", "regexpEscape"}
Delim(m) == CASE m = "single" -> "'" [] m \in {"double", "doubleEscape"} -> Quote [] OTHER -> "/"

\* The backslashes before p in a row.
Slashes(a, p) == p - 1 - Max({j \in a..(p - 1) : src[j] # "\\"})

\* How the backslashes in a row are counted, one character further on.
LEMMA SlashesAre ==
  ASSUME NEW a \in Nat, src[a] # "\\"
  PROVE  /\ Slashes(a, a + 1) = 0
         /\ \A p \in Nat : p > a =>
              /\ Slashes(a, p) \in Nat
              /\ src[p] = "\\" => Slashes(a, p + 1) = Slashes(a, p) + 1
              /\ src[p] # "\\" => Slashes(a, p + 1) = 0
<1> DEFINE S(p) == {j \in a..(p - 1) : src[j] # "\\"}
<1>1. ASSUME NEW p \in Nat, p > a
      PROVE  Max(S(p)) \in S(p) /\ (\A y \in S(p) : Max(S(p)) >= y) /\ Max(S(p)) \in a..(p - 1)
  <2>1. S(p) \in SUBSET (0..p) /\ a \in S(p) /\ S(p) \subseteq a..(p - 1)
    BY <1>1
  <2>2. S(p) \in SUBSET (0..p) /\ S(p) # {} /\ p \in Nat
    BY <1>1, <2>1
  <2>3. Max(S(p)) \in S(p) /\ \A y \in S(p) : Max(S(p)) >= y
    <3> HIDE DEF S
    <3>1. QED
      BY <2>2, MaxIs
  <2>4. QED
    <3> HIDE DEF S
    <3>1. QED
      BY <2>1, <2>3
<1>2. \A p : Slashes(a, p) = p - 1 - Max(S(p))
  BY DEF Slashes
<1>3. ASSUME NEW p \in Nat, p > a
      PROVE  /\ Slashes(a, p) \in Nat
             /\ src[p] = "\\" => Slashes(a, p + 1) = Slashes(a, p) + 1
             /\ src[p] # "\\" => Slashes(a, p + 1) = 0
  <2>1. Max(S(p)) \in S(p) /\ (\A y \in S(p) : Max(S(p)) >= y) /\ Max(S(p)) \in a..(p - 1)
    BY <1>1, <1>3
  <2>2. p + 1 \in Nat /\ p + 1 > a
    BY <1>3
  <2>3. Max(S(p + 1)) \in S(p + 1) /\ (\A y \in S(p + 1) : Max(S(p + 1)) >= y) /\ Max(S(p + 1)) \in a..(p + 1 - 1)
    <3> HIDE DEF S
    <3>1. QED
      BY <1>1, <2>2
  <2>4. \A j : j \in S(p + 1) <=> j \in S(p) \/ (j = p /\ src[p] # "\\")
    BY <1>3
  <2>5. S(p) \subseteq a..(p - 1)
    OBVIOUS
  <2>6. src[p] = "\\" => Max(S(p + 1)) = Max(S(p))
    <3> HIDE DEF S
    <3>1. QED
      BY <1>3, <2>1, <2>3, <2>4
  <2>7. src[p] # "\\" => Max(S(p + 1)) = p
    <3> HIDE DEF S
    <3>1. src[p] # "\\" => p \in S(p + 1)
      BY <2>4
    <3>2. QED
      BY <1>3, <2>3, <3>1
  <2>8. QED
    <3> HIDE DEF S
    <3>1. QED
      BY <1>2, <1>3, <2>1, <2>6, <2>7
<1>4. Slashes(a, a + 1) = 0
  <2>1. a + 1 \in Nat /\ a + 1 > a
    OBVIOUS
  <2>2. Max(S(a + 1)) \in a..(a + 1 - 1)
    BY <1>1, <2>1
  <2>3. Max(S(a + 1)) = a
    <3> HIDE DEF S
    <3>1. QED
      BY <2>2
  <2>4. QED
    <3> HIDE DEF S
    <3>1. QED
      BY <1>2, <2>3
<1>5. QED
  <2> HIDE DEF S
  <2>1. QED
    BY <1>3, <1>4

\* Whether a quoted text that opens at a could close at p, with the heredocs before token n.
Behind(n) == UNION {BodyOf(toks[h]) : h \in {h \in Heredocs : h < n}}
Closes(n, a, p) == p \in ((a + 1)..Len(src)) \ Behind(n) /\ src[p] = src[a] /\ Slashes(a, p) % 2 = 0
Quiet(n) == \A h \in Heredocs : h < n => Alone(h, n)

\* Where token k ends if it is a quoted text.
Shut(k) ==
  toks[k].kind \in {"SQSTRING", "DQSTRING", "REGEXP"} /\ Quiet(k) =>
    /\ toks[k].end \in Int /\ Closes(k, toks[k].pos.off, toks[k].end - 1)
    /\ \A p \in (toks[k].pos.off + 1)..(toks[k].end - 2) : ~Closes(k, toks[k].pos.off, p)

\* What follows an escape decides what the next character may be.
Parity ==
  /\ mode \in {"double", "regexp"} =>
       Slashes(start.off, i) % 2 = 0 \/ i > Len(src) \/ src[i] = "\n"
  /\ mode = "single" =>
       Slashes(start.off, i) % 2 = 0 \/ i > Len(src) \/ src[i] \notin {"'", "\\"}
  /\ mode \in {"doubleEscape", "regexpEscape"} => Slashes(start.off, i) % 2 = 1

OpenInv ==
  mode \in Quoted =>
    /\ start.off < i /\ src[start.off] = Delim(mode) /\ Parity
    /\ Quiet(Len(toks) + 1) => \A p \in (start.off + 1)..(i - 1) : ~Closes(Len(toks) + 1, start.off, p)

\* Shut is what ClosedAtFirst asks for.
LEMMA ShutMeans ==
  ASSUME TypeInv, \A k \in 1..Len(toks) : Shut(k)
  PROVE  ClosedAtFirst
<1>0. Len(src) \in Nat
  BY TextKnown DEF Text
<1>1. SUFFICES ASSUME NEW k \in 1..Len(toks), toks[k].kind \in {"SQSTRING", "DQSTRING", "REGEXP"}, Quiet(k)
               PROVE  /\ {p \in ((toks[k].pos.off + 1)..Len(src)) \ Behind(k) :
                            src[p] = src[toks[k].pos.off] /\ Slashes(toks[k].pos.off, p) % 2 = 0} # {}
                      /\ toks[k].end =
                           Min({p \in ((toks[k].pos.off + 1)..Len(src)) \ Behind(k) :
                                  src[p] = src[toks[k].pos.off] /\ Slashes(toks[k].pos.off, p) % 2 = 0}) + 1
  BY DEF ClosedAtFirst, Quiet, Behind, Slashes
<1> DEFINE a == toks[k].pos.off
           e == toks[k].end
           S == {p \in ((a + 1)..Len(src)) \ Behind(k) : src[p] = src[a] /\ Slashes(a, p) % 2 = 0}
<1>2. a \in Nat /\ e \in Int /\ Closes(k, a, e - 1) /\ \A p \in (a + 1)..(e - 2) : ~Closes(k, a, p)
  <2>1. toks[k].pos.off \in Nat
    BY <1>0 DEF TypeInv
  <2>2. QED
    BY <1>1, <2>1 DEF Shut
<1>3. \A p : p \in S <=> Closes(k, a, p)
  BY DEF Closes
<1>4. S \subseteq (a + 1)..Len(src)
  OBVIOUS
<1>5. S \in SUBSET Nat /\ S # {} /\ e - 1 \in S
  <2> HIDE DEF S, a, e
  <2>1. QED
    BY <1>0, <1>2, <1>3, <1>4
<1>6. Min(S) \in S /\ \A y \in S : Min(S) <= y
  <2> HIDE DEF S, a, e
  <2>1. QED
    BY <1>5, MinIs
<1>7. e = Min(S) + 1
  <2> HIDE DEF S, a, e
  <2>1. Min(S) \in (a + 1)..Len(src) /\ Min(S) <= e - 1 /\ Closes(k, a, Min(S))
    BY <1>3, <1>4, <1>5, <1>6
  <2>2. ~(Min(S) \in (a + 1)..(e - 2))
    BY <1>2, <2>1
  <2>3. QED
    BY <1>0, <1>2, <2>1, <2>2
<1>8. QED
  BY <1>5, <1>7

\* Delimiters are neither backslashes nor newlines.
LEMMA DelimIs ==
  /\ \A m : Delim(m) \notin {"\\", "\n"}
  /\ Delim("single") = "'" /\ Delim("double") = Quote /\ Delim("regexp") = "/"
  /\ Delim("doubleEscape") = Delim("double") /\ Delim("regexpEscape") = Delim("regexp")
<1>1. Quote # "\\" /\ Quote # "\n"
  BY Zenon DEF Quote
<1>2. \A m : Delim(m) \in {"'", Quote, "/"}
  BY Zenon DEF Delim
<1>3. QED
  BY Zenon, <1>1, <1>2 DEF Delim

\* A quoted text is begun behind its delimiter.
LEMMA QuoteBegins ==
  ASSUME TypeInv, Next, mode \notin Quoted, mode' \in Quoted
  PROVE  /\ i <= Len(src) /\ i' = i + 1 /\ start' = Here /\ toks' = toks
         /\ src[i] = Delim(mode') /\ mode' \in {"single", "double", "regexp"}
<1>0. Text /\ i \in 1..(Len(src) + 1) /\ Peek = At(0) /\ \A c \in {"'", Quote, "/"} : c # EOF
  BY TextKnown, Looked, NotEnd DEF TypeInv, Punctuation
<1>1. Begin
  <2>1. CASE SkipBlank \/ Comment \/ LineComment \/ BlockComment
    BY <2>1 DEF SkipBlank, Comment, LineComment, BlockComment, token, Fail, Enter, Quoted
  <2>2. CASE EndOfFile \/ Operator \/ Heredoc
    BY <2>2 DEF EndOfFile, Begins, Operator, Heredoc, Fail, Quoted
  <2>3. CASE Variable \/ Word
    BY <2>3 DEF Variable, Word, Continue, Fail, Emit, Quoted
  <2>4. CASE HexDigits \/ IntDigits \/ FractionDigits \/ Sign \/ ExponentDigits
    BY <2>4 DEF HexDigits, IntDigits, FractionDigits, Sign, ExponentDigits, Continue, Enough, Fail, Emit, Quoted
  <2>5. CASE Single \/ Double \/ Regexp
    BY <2>5 DEF Single, Double, Regexp, Quoted
  <2>6. QED
    BY <2>1, <2>2, <2>3, <2>4, <2>5 DEF Next, Scan
<1>2. /\ start' = Here /\ toks' = toks /\ Adv(1)
      /\ \/ Peek = "'" /\ mode' = "single"
         \/ Peek = Quote /\ mode' = "double"
         \/ Peek = "/" /\ mode' = "regexp"
  BY <1>1 DEF Begin, Enter, Fail, Quoted
<1>3. i <= Len(src) /\ Peek = src[i]
  BY <1>0, <1>2, Looked
<1>4. QED
  BY <1>2, <1>3, DelimIs DEF Adv

\* What a step within a quoted text reads.
LEMMA QuoteGoesOn ==
  ASSUME TypeInv, Next, mode \in Quoted, mode' \in Quoted
  PROVE  /\ i <= Len(src) /\ start' = start /\ toks' = toks
         /\ \/ /\ mode = "single" /\ mode' = "single" /\ i' = i + 2
               /\ src[i] = "\\" /\ i + 1 <= Len(src) /\ src[i + 1] \in {"'", "\\"}
            \/ /\ mode = "single" /\ mode' = "single" /\ AdvAny
               /\ src[i] # "'" /\ ~(src[i] = "\\" /\ i + 1 <= Len(src) /\ src[i + 1] \in {"'", "\\"})
            \/ mode \in {"double", "regexp"} /\ mode' = mode /\ AdvAny /\ src[i] \notin {Delim(mode), "\\"}
            \/ /\ (mode = "double" /\ mode' = "doubleEscape") \/ (mode = "regexp" /\ mode' = "regexpEscape")
               /\ i' = i + 1 /\ src[i] = "\\"
            \/ /\ (mode = "doubleEscape" /\ mode' = "double") \/ (mode = "regexpEscape" /\ mode' = "regexp")
               /\ AdvAny
<1>0. /\ Text /\ i \in 1..(Len(src) + 1) /\ Peek = At(0)
      /\ \A k \in 0..2 : i + k <= Len(src) => At(k) = src[i + k] /\ At(k) # EOF
      /\ \A k \in 0..2 : i + k > Len(src) => At(k) = EOF
      /\ \A c \in {"'", Quote, "/", "\\"} : c # EOF
  BY TextKnown, Looked, NotEnd DEF TypeInv, Punctuation
<1>1. Peek # EOF => i <= Len(src) /\ Peek = src[i]
  BY <1>0
<1>2. At(1) # EOF => i + 1 <= Len(src) /\ At(1) = src[i + 1]
  BY <1>0
<1>3. CASE Single
  <2>1. /\ Peek # EOF /\ start' = start /\ toks' = toks /\ mode = "single" /\ mode' = "single"
        /\ \/ Peek = "\\" /\ At(1) \in {"'", "\\"} /\ Adv(2)
           \/ ~(Peek = "\\" /\ At(1) \in {"'", "\\"}) /\ Peek # "'" /\ AdvAny
    <3>1. \/ Fail
          \/ Peek = "\\" /\ At(1) \in {"'", "\\"} /\ Adv(2) /\ Continue(<<At(1)>>)
          \/ Emit("SQSTRING", text, 1)
          \/ ~(Peek = "\\" /\ At(1) \in {"'", "\\"}) /\ Peek \notin {"'", EOF} /\ AdvAny /\ Continue(<<Peek>>)
      BY Zenon, <1>3 DEF Single
    <3>2. "skip" \notin Quoted /\ "failed" \notin Quoted /\ "'" # EOF /\ "\\" # EOF
      BY <1>0 DEF Quoted
    <3>3. QED
      BY <1>3, <3>1, <3>2 DEF Single, Continue, Fail, Emit
  <2>2. CASE Peek = "\\" /\ At(1) \in {"'", "\\"} /\ Adv(2)
    BY <1>0, <1>1, <1>2, <2>1, <2>2 DEF Adv
  <2>3. CASE ~(Peek = "\\" /\ At(1) \in {"'", "\\"}) /\ Peek # "'" /\ AdvAny
    <3>1. i + 1 <= Len(src) => At(1) = src[i + 1]
      BY <1>0
    <3>2. QED
      BY <1>1, <2>1, <2>3, <3>1
  <2>4. QED
    BY <2>1, <2>2, <2>3
<1>4. CASE Double
  <2>1. /\ Peek # EOF /\ start' = start /\ toks' = toks
        /\ \/ mode = "double" /\ mode' = "double" /\ Peek \notin {Quote, "\\"} /\ AdvAny
           \/ mode = "double" /\ mode' = "doubleEscape" /\ Peek = "\\" /\ Adv(1)
           \/ mode = "doubleEscape" /\ mode' = "double" /\ AdvAny
    <3>1. \/ Fail \/ Emit("DQSTRING", text, 1)
          \/ mode = "double" /\ Peek = "\\" /\ Escape("doubleEscape")
          \/ mode = "double" /\ Peek \notin {EOF, Quote, "\\"} /\ AdvAny /\ Continue(<<Peek>>)
          \/ mode = "doubleEscape" /\ Peek # EOF /\ Escaped("double")
      BY Zenon, <1>4 DEF Double
    <3>2. "skip" \notin Quoted /\ "failed" \notin Quoted /\ "\\" # EOF
      BY <1>0 DEF Quoted
    <3>3. QED
      BY <3>1, <3>2 DEF Continue, Fail, Emit, Escape, Escaped
  <2>2. QED
    BY <1>1, <2>1, DelimIs DEF Adv
<1>5. CASE Regexp
  <2>1. /\ Peek # EOF /\ start' = start /\ toks' = toks
        /\ \/ mode = "regexp" /\ mode' = "regexp" /\ Peek \notin {"/", "\\", "\n"} /\ Adv(1)
           \/ mode = "regexp" /\ mode' = "regexpEscape" /\ Peek = "\\" /\ Adv(1)
           \/ mode = "regexpEscape" /\ mode' = "regexp" /\ AdvAny
    <3>1. \/ Fail \/ Emit("REGEXP", text, 1)
          \/ mode' = "panic"
          \/ mode = "regexp" /\ Peek = "\\" /\ Escape("regexpEscape")
          \/ mode = "regexp" /\ Peek \notin {EOF, "/", "\\", "\n"} /\ Adv(1) /\ Continue(<<Peek>>)
          \/ mode = "regexpEscape" /\ Peek # EOF /\ Escaped("regexp")
      BY Zenon, <1>5 DEF Regexp
    <3>2. "skip" \notin Quoted /\ "failed" \notin Quoted /\ "panic" \notin Quoted /\ "\\" # EOF
      BY <1>0 DEF Quoted
    <3>3. QED
      BY <3>1, <3>2 DEF Continue, Fail, Emit, Escape, Escaped
  <2>2. Peek # "\n" /\ Adv(1) => AdvAny
    BY DEF AdvAny
  <2>3. QED
    BY <1>1, <2>1, <2>2, DelimIs DEF Adv
<1>6. Single \/ Double \/ Regexp
  <2>1. CASE SkipBlank \/ Comment \/ LineComment \/ BlockComment
    BY <2>1 DEF SkipBlank, Comment, LineComment, BlockComment, Quoted
  <2>2. CASE EndOfFile \/ Begin \/ Operator \/ Heredoc
    BY <2>2 DEF EndOfFile, Begin, Begins, Operator, Heredoc, Quoted
  <2>3. CASE Variable \/ Word
    BY <2>3 DEF Variable, Word, Quoted
  <2>4. CASE HexDigits \/ IntDigits \/ FractionDigits \/ Sign \/ ExponentDigits
    BY <2>4 DEF HexDigits, IntDigits, FractionDigits, Sign, ExponentDigits, Quoted
  <2>5. QED
    BY <2>1, <2>2, <2>3, <2>4 DEF Next, Scan
<1>7. QED
  BY <1>3, <1>4, <1>5, <1>6

\* A quoted text is emitted at its delimiter.
LEMMA QuoteEnds ==
  ASSUME TypeInv, Next, NEW t, toks' = Append(toks, t), t.kind \in {"SQSTRING", "DQSTRING", "REGEXP"}
  PROVE  /\ mode \in {"single", "double", "regexp"} /\ i <= Len(src) /\ src[i] = Delim(mode)
         /\ t.pos = start /\ t.end = i + 1
<1>0. toks' # toks /\ i \in Nat
  <2>1. Len(toks') # Len(toks)
    BY Appended DEF TypeInv
  <2>2. QED
    BY <2>1, TextKnown DEF TypeInv, Text
<1>1. CASE SkipBlank \/ Comment \/ LineComment \/ BlockComment \/ Begin \/ Sign
  BY <1>0, <1>1 DEF SkipBlank, Comment, LineComment, BlockComment, Begin, Sign, token, Fail, Enter, Enough
<1>2. CASE EndOfFile
  <2>1. t = Token("EOF", << >>, Here, i)
    BY <1>2, AppendedIs DEF EndOfFile
  <2>2. QED
    BY <2>1 DEF Token
<1>3. CASE Operator
  BY <1>3, OperatorFine
<1>4. CASE Heredoc
  <2>1. PICK u : toks' = Append(toks, u) /\ u.kind = "HEREDOC"
    BY <1>0, <1>4, HeredocShape DEF Walks, Opens
  <2>2. t = u
    BY <2>1, AppendedIs
  <2>3. QED
    BY <2>1, <2>2
<1>5. CASE Variable
  <2>1. Emit("VARIABLE", text, 0)
    BY <1>0, <1>5 DEF Variable, Continue, Fail
  <2>2. t.kind = "VARIABLE"
    BY <2>1, EmitIs
  <2>3. QED
    BY <2>2
<1>6. CASE Word
  <2>1. Emit(WordKind, text, 0)
    BY <1>0, <1>6 DEF Word, Continue
  <2>2. t.kind = WordKind
    BY <2>1, EmitIs
  <2>3. QED
    BY <2>2, KindsApart
<1>7. CASE HexDigits \/ IntDigits \/ FractionDigits \/ ExponentDigits
  <2>1. Emit("INT", text, 0) \/ Emit("FLOAT", text, 0)
    BY <1>0, <1>7 DEF HexDigits, IntDigits, FractionDigits, ExponentDigits, Continue, Enough
  <2>2. t.kind \in {"INT", "FLOAT"}
    BY <2>1, EmitIs
  <2>3. QED
    BY <2>2
<1>8. CASE Single \/ Double \/ Regexp
  <2>1. /\ \E kind \in {"SQSTRING", "DQSTRING", "REGEXP"} : Emit(kind, text, 1)
        /\ \/ mode = "single" /\ Peek = "'"
           \/ mode = "double" /\ Peek = Quote
           \/ mode = "regexp" /\ Peek = "/"
    BY <1>0, <1>8 DEF Single, Double, Regexp, Continue, Fail, Escape, Escaped
  <2>2. t.pos = start /\ t.end = i + 1
    BY <2>1, EmitIs
  <2>3. Peek # EOF
    BY <2>1, NotEnd DEF Punctuation
  <2>4. i <= Len(src) /\ Peek = src[i]
    BY <2>3, TextKnown, Looked DEF TypeInv
  <2>5. QED
    BY <2>1, <2>2, <2>4, DelimIs
<1>9. QED
  BY <1>1, <1>2, <1>3, <1>4, <1>5, <1>6, <1>7, <1>8 DEF Next, Scan

\* One character on, or behind the body that begins on the next line.
LEMMA OneOn ==
  ASSUME TypeInv, DocInv, src' = src, AdvAny, i <= Len(src)
  PROVE  \/ i' = i + 1
         \/ /\ src[i] = "\n" /\ i' \in (i + 1)..(Len(src) + 1) /\ (i' <= Len(src) => src[i'] = "\n")
            /\ \A p \in (i + 1)..(i' - 1) : p \in Behind(Len(toks) + 1)
<1>0. Text /\ Len(src) \in Nat /\ i \in 1..Len(src) /\ Peek = src[i] /\ Len(toks) \in Nat
  BY TextKnown, Looked, EndedIs DEF TypeInv, Text
<1>1. SUFFICES ASSUME i' # i + 1
               PROVE  /\ src[i] = "\n" /\ i' \in (i + 1)..(Len(src) + 1) /\ (i' <= Len(src) => src[i'] = "\n")
                      /\ \A p \in (i + 1)..(i' - 1) : p \in Behind(Len(toks) + 1)
  OBVIOUS
<1>2. src[i] = "\n" /\ resume # 0 /\ i' = resume
  BY <1>0, <1>1 DEF AdvAny, Adv, Cross
<1>3. PICK h \in Heredocs : Find(i, {"\n"}) = LineEnd(toks[h]) /\ resume = BodyEnd(toks[h])
  BY <1>2 DEF DocInv
<1>4. Find(i, {"\n"}) = i
  <2>1. \A j \in i..(i - 1) : FALSE
    BY <1>0
  <2>2. i \in 1..(Len(src) + 1) /\ i \in i..(Len(src) + 1)
    BY <1>0
  <2>3. QED
    BY <1>0, <1>2, <2>1, <2>2, FoundAt
<1>5. /\ BodyEnd(toks[h]) \in (i + 1)..(Len(src) + 1)
      /\ BodyEnd(toks[h]) <= Len(src) => src[BodyEnd(toks[h])] = "\n"
  BY <1>3, <1>4 DEF DocInv, Bounded
<1>6. BodyOf(toks[h]) = (i + 1)..(i' - 1)
  BY <1>2, <1>3, <1>4 DEF BodyOf
<1>7. h < Len(toks) + 1
  BY <1>0 DEF Heredocs
<1>8. QED
  BY <1>2, <1>3, <1>5, <1>6, <1>7 DEF Behind

\* Where a quoted text could close depends on the text and the tokens only.
LEMMA SameClosing ==
  ASSUME src' = src
  PROVE  /\ \A a, p : Slashes(a, p)' = Slashes(a, p)
         /\ toks' = toks => \A n : Quiet(n)' = Quiet(n)
         /\ toks' = toks => \A n, a, p : Closes(n, a, p)' = Closes(n, a, p)
<1>1. \A a, p : Slashes(a, p)' = Slashes(a, p)
  BY DEF Slashes
<1>2. /\ \A t : LineEnd(t)' = LineEnd(t)
      /\ \A t : BodyOf(t)' = BodyOf(t)
  BY SameDocs DEF BodyOf
<1>3. ASSUME toks' = toks
      PROVE  (\A n : Quiet(n)' = Quiet(n)) /\ \A n, a, p : Closes(n, a, p)' = Closes(n, a, p)
  <2>1. Heredocs' = Heredocs
    BY <1>3 DEF Heredocs
  <2>2. \A k, n : Alone(k, n)' = Alone(k, n)
    BY <1>2, <1>3, <2>1 DEF Alone
  <2>3. \A n : Quiet(n)' = Quiet(n)
    BY <2>1, <2>2 DEF Quiet
  <2>4. \A n : Behind(n)' = Behind(n)
    BY <1>2, <1>3, <2>1 DEF Behind
  <2>5. \A n, a, p : Closes(n, a, p)' = Closes(n, a, p)
    BY <1>1, <2>4 DEF Closes
  <2>6. QED
    BY <2>3, <2>5
<1>4. QED
  BY <1>1, <1>3

\* Nothing read of a quoted text could have closed it, with every step.
LEMMA OpenStep ==
  ASSUME TypeInv, DocInv, OpenInv, Next
  PROVE  OpenInv'
<1> DEFINE n == Len(toks) + 1
<1>0. /\ src' = src /\ Text /\ Len(src) \in Nat /\ i \in 1..(Len(src) + 1) /\ Len(toks) \in Nat
      /\ start.off \in 1..i
  BY StepShape, TextKnown, EndedIs DEF TypeInv, Text
<1>1. \A a, p : Slashes(a, p)' = Slashes(a, p)
  BY <1>0, SameClosing
<1>2. SUFFICES ASSUME mode' \in Quoted
               PROVE  /\ start'.off < i' /\ src[start'.off] = Delim(mode') /\ Parity' /\ toks' = toks
                      /\ Quiet(n) => \A p \in (start'.off + 1)..(i' - 1) : ~Closes(n, start'.off, p)
  <2>1. SUFFICES ASSUME mode' \in Quoted
                 PROVE  /\ start'.off < i' /\ src[start'.off] = Delim(mode') /\ Parity'
                        /\ Quiet(Len(toks) + 1)' =>
                             \A p \in (start'.off + 1)..(i' - 1) : ~Closes(Len(toks) + 1, start.off, p)'
    BY <1>0 DEF OpenInv
  <2>2. /\ start'.off < i' /\ src[start'.off] = Delim(mode') /\ Parity' /\ toks' = toks
        /\ Quiet(n) => \A p \in (start'.off + 1)..(i' - 1) : ~Closes(n, start'.off, p)
    BY <1>2, <2>1
  <2>3. (\A k : Quiet(k)' = Quiet(k)) /\ \A k, a, p : Closes(k, a, p)' = Closes(k, a, p)
    BY <1>0, <2>2, SameClosing
  <2>4. QED
    BY <2>2, <2>3
<1>3. CASE mode \notin Quoted
  <2>1. /\ i <= Len(src) /\ i' = i + 1 /\ start'.off = i /\ toks' = toks
        /\ src[i] = Delim(mode') /\ mode' \in {"single", "double", "regexp"}
    BY <1>2, <1>3, QuoteBegins DEF Here
  <2>2. i \in Nat /\ src[i] # "\\"
    BY <1>0, <2>1, DelimIs
  <2>3. Slashes(i, i + 1) = 0
    BY <2>2, SlashesAre
  <2>4. Parity'
    BY <1>1, <2>1, <2>3 DEF Parity
  <2>5. start'.off < i' /\ \A p \in (start'.off + 1)..(i' - 1) : FALSE
    BY <1>0, <2>1
  <2>6. QED
    BY <2>1, <2>4, <2>5
<1>4. CASE mode \in Quoted
  <2> DEFINE a == start.off
  <2>1. /\ a \in Nat /\ a < i /\ src[a] = Delim(mode) /\ Parity /\ i \in Nat
        /\ Quiet(n) => \A p \in (a + 1)..(i - 1) : ~Closes(n, a, p)
    BY <1>0, <1>4 DEF OpenInv
  <2>2. i <= Len(src) /\ start' = start /\ toks' = toks
    BY <1>2, <1>4, QuoteGoesOn
  <2>3. /\ Slashes(a, i) \in Nat
        /\ src[i] = "\\" => Slashes(a, i + 1) = Slashes(a, i) + 1
        /\ src[i] # "\\" => Slashes(a, i + 1) = 0
        /\ src[i + 1] = "\\" => Slashes(a, i + 2) = Slashes(a, i + 1) + 1
        /\ src[i + 1] # "\\" => Slashes(a, i + 2) = 0
        /\ src[a] # "\\"
    <3>1. src[a] # "\\"
      BY <2>1, DelimIs
    <3>2. i + 1 \in Nat /\ i + 1 > a /\ (i + 1) + 1 = i + 2
      BY <2>1
    <3> HIDE DEF a
    <3>3. \A p \in Nat : p > a =>
            /\ Slashes(a, p) \in Nat
            /\ src[p] = "\\" => Slashes(a, p + 1) = Slashes(a, p) + 1
            /\ src[p] # "\\" => Slashes(a, p + 1) = 0
      BY <2>1, <3>1, SlashesAre
    <3>4. QED
      BY <2>1, <3>1, <3>2, <3>3
  <2>4. \A p : Closes(n, a, p) => src[p] = Delim(mode) /\ Slashes(a, p) % 2 = 0 /\ p \notin Behind(n)
    BY <2>1 DEF Closes
  <2> HIDE DEF n
  <2>5. AdvAny => \/ i' = i + 1
                  \/ /\ src[i] = "\n" /\ i' \in (i + 1)..(Len(src) + 1) /\ (i' <= Len(src) => src[i'] = "\n")
                     /\ \A p \in (i + 1)..(i' - 1) : p \in Behind(n)
    BY <1>0, <2>2, OneOn DEF n
  \* What each step leaves to show.
  <2>6. SUFFICES ASSUME TRUE
                 PROVE  /\ i' \in Int /\ i' > i /\ Delim(mode') = Delim(mode)
                        /\ mode' \in {"double", "regexp"} =>
                             Slashes(a, i') % 2 = 0 \/ i' > Len(src) \/ src[i'] = "\n"
                        /\ mode' = "single" =>
                             Slashes(a, i') % 2 = 0 \/ i' > Len(src) \/ src[i'] \notin {"'", "\\"}
                        /\ mode' \in {"doubleEscape", "regexpEscape"} => Slashes(a, i') % 2 = 1
                        /\ \A p \in i..(i' - 1) : ~Closes(n, a, p)
    <3>1. Parity'
      BY <1>0, <1>1, <2>2, <2>6 DEF Parity
    <3>2. start'.off < i' /\ src[start'.off] = Delim(mode')
      BY <2>1, <2>2, <2>6
    <3>3. \A p \in (a + 1)..(i' - 1) : p \in (a + 1)..(i - 1) \/ p \in i..(i' - 1)
      BY <2>1, <2>6
    <3>4. Quiet(n) => \A p \in (start'.off + 1)..(i' - 1) : ~Closes(n, start'.off, p)
      BY <2>1, <2>2, <2>6, <3>3
    <3>5. QED
      BY <2>2, <3>1, <3>2, <3>4
  <2> HIDE DEF a
  <2>7. CASE /\ mode = "single" /\ mode' = "single" /\ i' = i + 2
             /\ src[i] = "\\" /\ i + 1 <= Len(src) /\ src[i + 1] \in {"'", "\\"}
    <3>1. Slashes(a, i) % 2 = 0
      BY <2>1, <2>2, <2>7 DEF Parity, a
    <3>2. Slashes(a, i + 1) % 2 = 1 /\ Slashes(a, i + 2) % 2 = 0
      BY <2>3, <2>7, <3>1
    <3>3. \A p \in i..(i' - 1) : p = i \/ p = i + 1
      BY <2>1, <2>7
    <3>4. src[i] # Delim(mode) /\ Slashes(a, i + 1) % 2 # 0
      BY <2>7, <3>2, DelimIs
    <3>5. \A p \in i..(i' - 1) : ~Closes(n, a, p)
      BY <2>4, <3>3, <3>4
    <3>6. i' \in Int /\ i' > i
      BY <2>1, <2>7
    <3>7. QED
      BY <2>7, <3>2, <3>5, <3>6
  <2>8. ASSUME AdvAny, src[i] # Delim(mode) \/ Slashes(a, i) % 2 # 0
        PROVE  /\ i' \in Int /\ i' > i /\ \A p \in i..(i' - 1) : ~Closes(n, a, p)
               /\ i' = i + 1 \/ i' > Len(src) \/ src[i'] = "\n"
    <3>1. i' \in Int /\ i' > i
      BY <1>0, <2>1, <2>5, <2>8
    <3>2. i' = i + 1 \/ i' > Len(src) \/ src[i'] = "\n"
      BY <1>0, <2>5, <2>8
    <3>3. \A p \in i..(i' - 1) : p = i \/ p \in Behind(n)
      <4>1. CASE i' = i + 1
        BY <2>1, <4>1
      <4>2. CASE \A p \in (i + 1)..(i' - 1) : p \in Behind(n)
        <5>1. \A x \in Int : \A p \in i..(x - 1) : p = i \/ p \in (i + 1)..(x - 1)
          BY <2>1
        <5>2. QED
          BY <3>1, <4>2, <5>1
      <4>3. QED
        BY <2>5, <2>8, <4>1, <4>2
    <3>4. QED
      BY <2>4, <2>8, <3>1, <3>2, <3>3
  <2>9. CASE /\ mode = "single" /\ mode' = "single" /\ AdvAny
             /\ src[i] # "'" /\ ~(src[i] = "\\" /\ i + 1 <= Len(src) /\ src[i + 1] \in {"'", "\\"})
    <3>1. src[i] # Delim(mode)
      BY <2>9, DelimIs
    <3>2. /\ i' \in Int /\ i' > i /\ \A p \in i..(i' - 1) : ~Closes(n, a, p)
          /\ i' = i + 1 \/ i' > Len(src) \/ src[i'] = "\n"
      BY <2>8, <2>9, <3>1
    <3>3. Slashes(a, i') % 2 = 0 \/ i' > Len(src) \/ src[i'] \notin {"'", "\\"}
      <4>1. CASE i' = i + 1 /\ src[i] = "\\"
        BY <2>1, <2>9, <4>1
      <4>2. CASE i' = i + 1 /\ src[i] # "\\"
        BY <2>3, <4>2
      <4>3. QED
        BY <3>2, <4>1, <4>2
    <3>4. QED
      BY <2>9, <3>2, <3>3
  <2>10. CASE mode \in {"double", "regexp"} /\ mode' = mode /\ AdvAny /\ src[i] \notin {Delim(mode), "\\"}
    <3>1. /\ i' \in Int /\ i' > i /\ \A p \in i..(i' - 1) : ~Closes(n, a, p)
          /\ i' = i + 1 \/ i' > Len(src) \/ src[i'] = "\n"
      BY <2>8, <2>10
    <3>2. Slashes(a, i') % 2 = 0 \/ i' > Len(src) \/ src[i'] = "\n"
      BY <2>3, <2>10, <3>1
    <3>3. QED
      BY <2>10, <3>1, <3>2
  <2>11. CASE /\ (mode = "double" /\ mode' = "doubleEscape") \/ (mode = "regexp" /\ mode' = "regexpEscape")
              /\ i' = i + 1 /\ src[i] = "\\"
    <3>1. Slashes(a, i) % 2 = 0
      BY <2>1, <2>2, <2>11 DEF Parity, a
    <3>2. Slashes(a, i') % 2 = 1
      BY <2>3, <2>11, <3>1
    <3>3. \A p \in i..(i' - 1) : p = i
      BY <2>1, <2>11
    <3>4. src[i] # Delim(mode)
      BY <2>11, DelimIs
    <3>5. i' \in Int /\ i' > i /\ \A p \in i..(i' - 1) : ~Closes(n, a, p)
      BY <2>1, <2>4, <2>11, <3>3, <3>4
    <3>6. Delim(mode') = Delim(mode)
      BY <2>11, DelimIs
    <3>7. QED
      BY <2>11, <3>2, <3>5, <3>6
  <2>12. CASE /\ (mode = "doubleEscape" /\ mode' = "double") \/ (mode = "regexpEscape" /\ mode' = "regexp")
              /\ AdvAny
    <3>1. Slashes(a, i) % 2 = 1
      BY <2>1, <2>12 DEF Parity, a
    <3>2. /\ i' \in Int /\ i' > i /\ \A p \in i..(i' - 1) : ~Closes(n, a, p)
          /\ i' = i + 1 \/ i' > Len(src) \/ src[i'] = "\n"
      BY <2>8, <2>12, <3>1
    <3>3. Slashes(a, i + 1) % 2 = 0
      BY <2>3, <3>1
    <3>4. Delim(mode') = Delim(mode)
      BY <2>12, DelimIs
    <3>5. QED
      BY <2>12, <3>2, <3>3, <3>4
  <2>13. QED
    BY <1>2, <1>4, <2>7, <2>9, <2>10, <2>11, <2>12, QuoteGoesOn
<1>5. QED
  BY <1>3, <1>4

\* A token that is added changes nothing about where those before it could close.
LEMMA AddedClosing ==
  ASSUME TypeInv, src' = src, NEW t, toks' = Append(toks, t)
  PROVE  /\ \A n \in 1..(Len(toks) + 1) : \A a, p : Closes(n, a, p)' = Closes(n, a, p)
         /\ \A n \in 1..Len(toks) : Quiet(n)' => Quiet(n)
         /\ t.kind # "HEREDOC" /\ Quiet(Len(toks))' => \A k \in Heredocs : Alone(k, Len(toks))
<1>0. Len(toks) \in Nat
  BY EndedIs
<1>1. /\ \A k \in Heredocs' : k \in Heredocs \/ (k = Len(toks) + 1 /\ t.kind = "HEREDOC")
      /\ \A k \in Heredocs : k \in Heredocs' /\ toks'[k] = toks[k] /\ k # Len(toks) + 1
      /\ \A k \in Heredocs, n \in 0..Len(toks) : Alone(k, n)' => Alone(k, n)
      /\ \A k \in Heredocs : Alone(k, Len(toks))' => Alone(k, Len(toks))
  BY HeredocsAdded
<1>2. Len(toks') = Len(toks) + 1
  BY Appended DEF TypeInv
<1>3. (\A u : BodyOf(u)' = BodyOf(u)) /\ \A a, p : Slashes(a, p)' = Slashes(a, p)
  BY SameDocs, SameClosing DEF BodyOf
<1>4. \A n \in 1..(Len(toks) + 1) : {h \in Heredocs' : h < n} = {h \in Heredocs : h < n}
  BY <1>0, <1>1
<1>5. \A n \in 1..(Len(toks) + 1) : Behind(n)' = Behind(n)
  <2>1. SUFFICES ASSUME NEW n \in 1..(Len(toks) + 1), NEW p
                 PROVE  p \in Behind(n)' <=> p \in Behind(n)
    OBVIOUS
  <2>2. p \in Behind(n)' <=> \E h \in {h \in Heredocs' : h < n} : p \in BodyOf(toks'[h])
    BY <1>3 DEF Behind
  <2>3. p \in Behind(n) <=> \E h \in {h \in Heredocs : h < n} : p \in BodyOf(toks[h])
    BY DEF Behind
  <2>4. \A h \in {h \in Heredocs : h < n} : toks'[h] = toks[h]
    BY <1>1
  <2>5. QED
    BY <1>4, <2>2, <2>3, <2>4
<1>6. \A n \in 1..(Len(toks) + 1) : \A a, p : Closes(n, a, p)' = Closes(n, a, p)
  BY <1>3, <1>5 DEF Closes
<1>7. \A n \in 1..Len(toks) : Quiet(n)' => Quiet(n)
  <2>1. SUFFICES ASSUME NEW n \in 1..Len(toks), \A h \in Heredocs' : h < n => Alone(h, n)',
                        NEW h \in Heredocs, h < n
                 PROVE  Alone(h, n)
    BY DEF Quiet
  <2>2. n \in 0..Len(toks)
    BY <1>0
  <2>3. QED
    BY <1>1, <2>1, <2>2
<1>8. t.kind # "HEREDOC" /\ Quiet(Len(toks))' => \A k \in Heredocs : Alone(k, Len(toks))
  <2>1. SUFFICES ASSUME \A h \in Heredocs' : h < Len(toks') => Alone(h, Len(toks))', NEW k \in Heredocs
                 PROVE  Alone(k, Len(toks))
    BY DEF Quiet
  <2>2. k \in Heredocs' /\ k < Len(toks')
    BY <1>0, <1>1, <1>2 DEF Heredocs
  <2>3. QED
    BY <1>1, <2>1, <2>2
<1>9. QED
  BY <1>6, <1>7, <1>8

\* Quoted texts stay closed at their first delimiter with every step.
LEMMA ShutStep ==
  ASSUME TypeInv, DocInv, OpenInv, \A k \in 1..Len(toks) : Shut(k), Next
  PROVE  \A k \in 1..Len(toks') : Shut(k)'
<1>0. /\ Shape /\ src' = src /\ Text /\ Len(src) \in Nat /\ i \in 1..(Len(src) + 1) /\ Len(toks) \in Nat
      /\ start.off \in 1..i
  BY StepShape, TextKnown, EndedIs DEF TypeInv, Text
<1>1. CASE Walks
  <2>1. toks' = toks
    BY <1>1 DEF Walks
  <2>2. (\A n : Quiet(n)' = Quiet(n)) /\ \A n, a, p : Closes(n, a, p)' = Closes(n, a, p)
    BY <1>0, <2>1, SameClosing
  <2>3. QED
    BY <2>1, <2>2 DEF Shut
<1>2. ASSUME NEW t, Makes(t) \/ Opens(t) PROVE \A k \in 1..Len(toks') : Shut(k)'
  <2>1. toks' = Append(toks, t)
    BY <1>2 DEF Makes, Opens
  <2>2. /\ Len(toks') = Len(toks) + 1
        /\ toks'[Len(toks) + 1] = t /\ \A k \in 1..Len(toks) : toks'[k] = toks[k]
    BY <2>1, Appended DEF TypeInv
  <2>3. /\ \A n \in 1..(Len(toks) + 1) : \A a, p : Closes(n, a, p)' = Closes(n, a, p)
        /\ \A n \in 1..Len(toks) : Quiet(n)' => Quiet(n)
        /\ t.kind # "HEREDOC" /\ Quiet(Len(toks))' => \A k \in Heredocs : Alone(k, Len(toks))
    BY <1>0, <2>1, AddedClosing
  <2>4. ASSUME NEW k \in 1..Len(toks) PROVE Shut(k)'
    <3>1. toks'[k] = toks[k] /\ (Quiet(k)' => Quiet(k)) /\ k \in 1..(Len(toks) + 1)
      BY <1>0, <2>2, <2>3, <2>4
    <3>2. \A a, p : Closes(k, a, p)' = Closes(k, a, p)
      BY <2>3, <3>1
    <3>3. QED
      BY <2>4, <3>1, <3>2 DEF Shut
  <2>5. ASSUME NEW k, k = Len(toks) + 1 PROVE Shut(k)'
    <3>1. toks'[k] = t /\ k = Len(toks')
      BY <2>2, <2>5
    <3>2. SUFFICES ASSUME t.kind \in {"SQSTRING", "DQSTRING", "REGEXP"}, Quiet(Len(toks))'
                   PROVE  /\ t.end \in Int /\ Closes(k, t.pos.off, t.end - 1)
                          /\ \A p \in (t.pos.off + 1)..(t.end - 2) : ~Closes(k, t.pos.off, p)
      <4>1. k \in 1..(Len(toks) + 1)
        BY <1>0, <2>5
      <4>2. \A a, p : Closes(k, a, p)' = Closes(k, a, p)
        BY <2>3, <4>1
      <4>3. Quiet(k)' <=> Quiet(Len(toks))'
        BY <3>1
      <4>4. QED
        BY <3>1, <3>2, <4>2, <4>3 DEF Shut
    <3>3. /\ mode \in {"single", "double", "regexp"} /\ i <= Len(src) /\ src[i] = Delim(mode)
          /\ t.pos = start /\ t.end = i + 1
      BY <2>1, <3>2, QuoteEnds
    <3>4. \A h \in Heredocs : Alone(h, Len(toks)) /\ h \in 1..Len(toks)
      BY <2>3, <3>2 DEF Heredocs
    <3>5. Quiet(k)
      <4>1. SUFFICES ASSUME NEW h \in Heredocs, NEW g \in Heredocs, g # h
                     PROVE  LineEnd(toks[g]) # LineEnd(toks[h])
        BY DEF Quiet, Alone
      <4>2. g <= Len(toks)
        BY <1>0, <3>4
      <4>3. QED
        BY <3>4, <4>1, <4>2 DEF Alone
    <3>6. /\ start.off < i /\ src[start.off] = Delim(mode) /\ Parity
          /\ \A p \in (start.off + 1)..(i - 1) : ~Closes(k, start.off, p)
      BY <2>5, <3>3, <3>5 DEF OpenInv, Quoted
    <3>7. Slashes(start.off, i) % 2 = 0
      <4>1. src[i] # "\n" /\ (mode = "single" => src[i] = "'")
        BY <3>3, DelimIs
      <4>2. QED
        BY <1>0, <3>3, <3>6, <4>1 DEF Parity
    <3>8. i \notin Behind(k)
      <4>1. SUFFICES ASSUME NEW h \in Heredocs, i \in BodyOf(toks[h]) PROVE FALSE
        BY DEF Behind
      <4>2. Bounded(toks[h]) /\ Over(toks[h], i, resume)
        BY <3>4 DEF DocInv
      <4>3. Clear(toks[h], i)
        BY <1>0, <4>2, OverIsClear
      <4>4. toks[h].end \in Int
        <5>1. toks[h].pos \in [off : 1..i, line : Nat \ {0}, col : Nat \ {0}] /\ toks[h].end \in toks[h].pos.off..i
          BY <3>4 DEF TypeInv
        <5>2. QED
          BY <1>0, <5>1
      <4>5. QED
        BY <1>0, <4>1, <4>2, <4>3, <4>4 DEF Clear, Bounded, BodyOf
    <3>9. Closes(k, start.off, i)
      BY <1>0, <3>3, <3>6, <3>7, <3>8 DEF Closes
    <3>10. t.end \in Int /\ t.end - 1 = i /\ t.end - 2 = i - 1
      BY <1>0, <3>3
    <3>11. QED
      BY <3>3, <3>6, <3>9, <3>10
  <2>6. \A k \in 1..Len(toks') : k \in 1..Len(toks) \/ k = Len(toks) + 1
    BY <1>0, <2>2
  <2>7. QED
    BY <2>4, <2>5, <2>6
<1>3. QED
  BY <1>0, <1>1, <1>2 DEF Shape

\* Quoted texts are always closed at their first delimiter (lexSingle, lexDouble, lexRegexp).
LEMMA AlwaysClosed == Spec => []ClosedAtFirst
<1> DEFINE AllShut == \A k \in 1..Len(toks) : Shut(k)
<1>1. Init => OpenInv /\ AllShut
  BY DEF Init, OpenInv, Quoted
<1>2. TypeInv /\ DocInv /\ OpenInv /\ AllShut /\ Next => (OpenInv /\ AllShut)'
  BY OpenStep, ShutStep
<1>3. OpenInv /\ AllShut /\ UNCHANGED vars => (OpenInv /\ AllShut)'
  <2>1. SUFFICES ASSUME OpenInv, AllShut, UNCHANGED vars PROVE (OpenInv /\ AllShut)'
    OBVIOUS
  <2>2. src' = src /\ i' = i /\ toks' = toks /\ mode' = mode /\ start' = start
    BY <2>1 DEF vars, place, token
  <2>3. /\ \A a, p : Slashes(a, p)' = Slashes(a, p)
        /\ \A n : Quiet(n)' = Quiet(n)
        /\ \A n, a, p : Closes(n, a, p)' = Closes(n, a, p)
    BY <2>2, SameClosing
  <2>4. Parity' = Parity
    BY <2>2, <2>3 DEF Parity
  <2>5. OpenInv'
    BY <2>1, <2>2, <2>3, <2>4 DEF OpenInv
  <2>6. AllShut'
    BY <2>1, <2>2, <2>3 DEF Shut
  <2>7. QED
    BY <2>5, <2>6
<1>4. TypeInv /\ AllShut => ClosedAtFirst
  BY ShutMeans
<1>5. QED
  <2> HIDE DEF AllShut
  <2>1. QED
    BY <1>1, <1>2, <1>3, <1>4, AlwaysTyped, AlwaysDocs, PTL DEF Spec

-----------------------------------------------------------------------------
(* The theorems *)

\* Tokens are where they say they are, behind heredocs too; nothing but space, comments
\* and heredoc bodies is between them, comments end where they must, and no body is
\* scanned as program text (next, adv, skipSpaceAndComments, lexHeredoc).
THEOREM TokensAlwaysTile == Spec => []TokensTile
<1>1. TypeInv => LexTypeOK
  <2>1. SUFFICES ASSUME TypeInv PROVE LexTypeOK
    OBVIOUS
  <2>2. Len(src) \in Nat /\ i \in 1..(Len(src) + 1)
    BY <2>1, TextKnown DEF TypeInv, Text
  <2>3. ASSUME NEW k \in 1..Len(toks) PROVE toks[k].pos.off \in 1..(Len(src) + 1) /\ toks[k].end \in 1..(Len(src) + 1)
    <3>1. toks[k].pos \in [off : 1..i, line : Nat \ {0}, col : Nat \ {0}] /\ toks[k].end \in toks[k].pos.off..i
      BY <2>1, <2>3 DEF TypeInv
    <3>2. QED
      BY <2>2, <3>1
  <2>4. QED
    BY <2>1, <2>2, <2>3 DEF TypeInv, LexTypeOK
<1>2. QED
  BY <1>1, AlwaysTyped, AlwaysBlank, AlwaysPlaced, AlwaysUnseen, PTL DEF TokensTile

\* Each token is the one the longest match gives: strings end at their first unescaped
\* delimiter, numbers by their grammar, operators greedily (lexSingle, lexDouble,
\* lexRegexp, lexNumber, lexOperator).
THEOREM TokensAlwaysLongest == Spec => []TokensLongest
<1>1. AllFine /\ ClosedAtFirst => TokensLongest
  BY FineMeans DEF TokensLongest
<1>2. QED
  BY <1>1, AlwaysFine, AlwaysClosed, PTL
=============================================================================
