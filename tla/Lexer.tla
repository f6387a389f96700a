-------------------------------- MODULE Lexer -------------------------------
(***************************************************************************)
(* lexer/lexer.go and lexer/ops.go: the scanner of manifests.              *)
(*                                                                         *)
(* A step is one round of a loop of the scanner: it consumes a character,  *)
(* or two that belong together, and the mode says which loop it is in.     *)
(* Positions count from 1. A character is a string of length one. A        *)
(* heredoc is one step: its body is not consumed but found ahead, and      *)
(* jumped over when the scanner crosses the end of its line.               *)
(***************************************************************************)
EXTENDS Integers, Sequences, SequencesExt, FiniteSetsExt

CONSTANTS
  Lower, Upper, Digit,   \* the letters and digits in use
  Keywords,              \* [texts -> keywords]
  Sources                \* the texts to be scanned

VARIABLES
  src,
  i, line, col,   \* the next character and where it is
  resume,         \* where to go on after the next newline, 0 for nowhere else
  toks,
  mode,           \* the loop in progress, "done", "failed" or "panic"
  start,          \* the position of the token or the comment in progress
  text,           \* its text so far
  comments        \* history: where the comments walked over begin and where they end

place == <<i, line, col, resume>>
token == <<toks, mode, start, text>>
vars == <<src, place, token, comments>>

EOF == "eof"
Quote == "\""
Blank == {" ", "\t", "\r", "\n"}
Letter == Lower \cup Upper \cup {"_"}
Hex == Digit \cup ({"a", "b", "c", "d", "e", "f"} \cap Lower)
             \cup ({"A", "B", "C", "D", "E", "F"} \cap Upper)

\* The kinds of tokens that are not keywords, and the characters the scanner looks for.
Kinds == {"NAME", "TYPE", "VARIABLE", "INT", "FLOAT", "SQSTRING", "DQSTRING", "HEREDOC",
          "REGEXP", "op", ")", "]", "}", "EOF"}
Punctuation == {"$", "'", Quote, "/", "\\", "*", "#", ":", ".", "+", "-", "@", "(", ")", "_"}

ASSUME LexerAssumption ==
  /\ \A s \in Sources : s \in Seq(STRING) /\ \A k \in 1..Len(s) : s[k] # EOF
  /\ (Lower \cup Upper \cup Digit) \cap (Blank \cup Punctuation \cup {EOF}) = {}
  /\ (Lower \cup Upper \cup {"e", "E", "x", "X"}) \cap Digit = {}
  /\ \A t \in DOMAIN Keywords : Keywords[t] \notin Kinds

At(k) == IF i + k <= Len(src) THEN src[i + k] ELSE EOF
Peek == At(0)

\* n characters of one line are consumed.
Adv(n) == i' = i + n /\ col' = col + n /\ UNCHANGED <<line, resume>>

\* The end of a line is crossed, and a heredoc body that begins there.
Cross ==
  /\ line' = line + 1 /\ col' = 1
  /\ i' = (IF resume # 0 THEN resume ELSE i + 1) /\ resume' = 0

\* One character, whatever it is.
AdvAny == IF Peek = "\n" THEN Cross ELSE Adv(1)

Stay == UNCHANGED place

Here == [off |-> i, line |-> line, col |-> col]

\* A token that ends before character e; next() compares where it starts with where
\* the token before it ended.
Ended == IF toks = << >> THEN 1 ELSE toks[Len(toks)].end
Token(kind, s, pos, e) ==
  [kind |-> kind, text |-> s, pos |-> pos, end |-> e, spaced |-> pos.off # Ended]

Emit(kind, s, n) ==
  /\ Adv(n) /\ toks' = Append(toks, Token(kind, s, start, i + n))
  /\ mode' = "skip" /\ UNCHANGED <<start, text>>

Continue(s) == text' = text \o s /\ UNCHANGED <<toks, mode, start>>
Enter(m, s) == mode' = m /\ text' = s /\ start' = Here /\ UNCHANGED toks
Fail == mode' = "failed" /\ Stay /\ UNCHANGED <<toks, start, text>>

-----------------------------------------------------------------------------
(* Space and comments *)

SkipBlank == mode = "skip" /\ Peek \in Blank /\ AdvAny /\ UNCHANGED token

Comment ==
  /\ mode = "skip"
  /\ \/ Peek = "#" /\ Stay /\ Enter("line", << >>)
     \/ Peek = "/" /\ At(1) = "*" /\ Adv(2) /\ Enter("block", << >>)

\* Mutant of LineComment: only the end of the text ends the comment.
LineCommentOn ==
  /\ mode = "line"
  /\ IF Peek = EOF THEN Stay /\ mode' = "skip" /\ UNCHANGED <<toks, start, text>>
     ELSE AdvAny /\ UNCHANGED token

LineComment ==
  /\ mode = "line"
  /\ IF Peek \in {EOF, "\n"} THEN Stay /\ mode' = "skip" /\ UNCHANGED <<toks, start, text>>
     ELSE Adv(1) /\ UNCHANGED token

\* Mutant of BlockComment: only the end of the comment ends the loop.
BlockCommentStuck ==
  /\ mode = "block"
  /\ IF Peek = "*" /\ At(1) = "/" THEN Adv(2) /\ mode' = "skip" /\ UNCHANGED <<toks, start, text>>
     ELSE Peek # EOF /\ AdvAny /\ UNCHANGED token

BlockComment ==
  /\ mode = "block"
  /\ IF Peek = EOF THEN Fail
     ELSE IF Peek = "*" /\ At(1) = "/" THEN Adv(2) /\ mode' = "skip" /\ UNCHANGED <<toks, start, text>>
     ELSE AdvAny /\ UNCHANGED token

-----------------------------------------------------------------------------
(* The first character of a token *)

\* A value cannot come after one of these, so a / divides.
EndsValue == {"NAME", "TYPE", "VARIABLE", "INT", "FLOAT", "SQSTRING", "DQSTRING", "HEREDOC",
              "REGEXP", ")", "]", "}", "true", "false", "default"}
RegexpAllowed == IF toks = << >> THEN TRUE ELSE toks[Len(toks)].kind \notin EndsValue

Begins == mode = "skip" /\ Peek \notin Blank \cup {"#"} /\ ~(Peek = "/" /\ At(1) = "*")

EndOfFile ==
  /\ Begins /\ Peek = EOF /\ Stay
  /\ toks' = Append(toks, Token("EOF", << >>, Here, i)) /\ mode' = "done" /\ UNCHANGED <<start, text>>

\* "::" counts as a word's or a variable's first characters.
Begin ==
  /\ Begins
  /\ CASE Peek = "$" /\ At(1) = ":" /\ At(2) = ":" -> Adv(3) /\ Enter("variable", <<":", ":">>)
       [] Peek = "$" /\ ~(At(1) = ":" /\ At(2) = ":") -> Adv(1) /\ Enter("variable", << >>)
       [] Peek = "'" -> Adv(1) /\ Enter("single", << >>)
       [] Peek = Quote -> Adv(1) /\ Enter("double", << >>)
       [] Peek = "/" /\ RegexpAllowed -> Adv(1) /\ Enter("regexp", << >>)
       [] Peek = "0" /\ At(1) \in {"x", "X"} /\ At(2) \in Hex -> Adv(2) /\ Enter("hex", <<"0", At(1)>>)
       [] Peek = "0" /\ At(1) \in {"x", "X"} /\ At(2) \notin Hex -> Fail
       [] Peek \in Digit /\ ~(Peek = "0" /\ At(1) \in {"x", "X"}) -> Stay /\ Enter("int", << >>)
       [] Peek \in Letter -> Stay /\ Enter("word", << >>)
       [] Peek = ":" /\ At(1) = ":" /\ At(2) \in Letter -> Adv(2) /\ Enter("word", <<":", ":">>)
       [] OTHER -> FALSE

-----------------------------------------------------------------------------
(* The loops *)

NameChar == Peek \in Letter \cup Digit
Scope == Peek = ":" /\ At(1) = ":"

Variable ==
  /\ mode = "variable"
  /\ IF NameChar THEN Adv(1) /\ Continue(<<Peek>>)
     ELSE IF Scope THEN Adv(2) /\ Continue(<<":", ":">>)
     ELSE IF text = << >> THEN Fail ELSE Emit("VARIABLE", text, 0)

WordKind ==
  LET first == IF text[1] = ":" THEN text[3] ELSE text[1]
  IN IF first \in Upper THEN "TYPE"
     ELSE IF text \in DOMAIN Keywords THEN Keywords[text] ELSE "NAME"

Word ==
  /\ mode = "word"
  /\ IF NameChar THEN Adv(1) /\ Continue(<<Peek>>)
     ELSE IF Scope THEN Adv(2) /\ Continue(<<":", ":">>)
     ELSE Emit(WordKind, text, 0)

Enough(m) == Adv(1) /\ mode' = m /\ text' = Append(text, Peek) /\ UNCHANGED <<toks, start>>

HexDigits ==
  mode = "hex" /\ IF Peek \in Hex THEN Adv(1) /\ Continue(<<Peek>>) ELSE Emit("INT", text, 0)

IntDigits ==
  /\ mode = "int"
  /\ IF Peek \in Digit THEN Adv(1) /\ Continue(<<Peek>>)
     ELSE IF Peek = "." /\ At(1) \in Digit THEN Enough("fraction")
     ELSE IF Peek \in {"e", "E"} THEN Enough("sign")
     ELSE Emit("INT", text, 0)

FractionDigits ==
  /\ mode = "fraction"
  /\ IF Peek \in Digit THEN Adv(1) /\ Continue(<<Peek>>)
     ELSE IF Peek \in {"e", "E"} THEN Enough("sign")
     ELSE Emit("FLOAT", text, 0)

Sign ==
  /\ mode = "sign"
  /\ IF Peek \in {"+", "-"} /\ At(1) \in Digit THEN Enough("exponent")
     ELSE IF Peek \in Digit THEN Stay /\ mode' = "exponent" /\ UNCHANGED <<toks, start, text>>
     ELSE Fail

ExponentDigits ==
  mode = "exponent" /\ IF Peek \in Digit THEN Adv(1) /\ Continue(<<Peek>>) ELSE Emit("FLOAT", text, 0)

\* Mutant of Single: a backslash escapes the quote only.
SingleQuoteOnly ==
  /\ mode = "single"
  /\ CASE Peek = EOF -> Fail
       [] Peek = "\\" /\ At(1) = "'" -> Adv(2) /\ Continue(<<At(1)>>)
       [] Peek = "'" -> Emit("SQSTRING", text, 1)
       [] OTHER -> AdvAny /\ Continue(<<Peek>>)

\* A backslash escapes a quote and a backslash, and stands for itself otherwise.
Single ==
  /\ mode = "single"
  /\ CASE Peek = EOF -> Fail
       [] Peek = "\\" /\ At(1) \in {"'", "\\"} -> Adv(2) /\ Continue(<<At(1)>>)
       [] Peek = "'" -> Emit("SQSTRING", text, 1)
       [] OTHER -> AdvAny /\ Continue(<<Peek>>)

\* The character after a backslash may end a line, so the two are consumed in turn.
Escape(m) == Adv(1) /\ mode' = m /\ text' = Append(text, "\\") /\ UNCHANGED <<toks, start>>
Escaped(m) == AdvAny /\ mode' = m /\ text' = Append(text, Peek) /\ UNCHANGED <<toks, start>>

\* The text is kept as it is; interpolation is another matter.
Double ==
  \/ /\ mode = "double"
     /\ CASE Peek = EOF -> Fail
          [] Peek = Quote -> Emit("DQSTRING", text, 1)
          [] Peek = "\\" -> Escape("doubleEscape")
          [] OTHER -> AdvAny /\ Continue(<<Peek>>)
  \/ mode = "doubleEscape" /\ IF Peek = EOF THEN Fail ELSE Escaped("double")

\* A backslash at the end of the text is followed by nothing to consume.
Regexp ==
  \/ /\ mode = "regexp"
     /\ CASE Peek \in {EOF, "\n"} -> Fail
          [] Peek = "/" -> Emit("REGEXP", text, 1)
          [] Peek = "\\" -> Escape("regexpEscape")
          [] OTHER -> Adv(1) /\ Continue(<<Peek>>)
  \/ /\ mode = "regexpEscape"
     /\ IF Peek = EOF THEN mode' = "panic" /\ Stay /\ UNCHANGED <<toks, start, text>>
        ELSE Escaped("regexp")

-----------------------------------------------------------------------------
(* Operators *)

\* The texts of the operators (kindName), those of one character in Marks.
Marks == {"{", "}", "[", "]", "(", ")", ",", ";", ":", ".", "?", "%", "/", "*", "@", "=", "+", "-",
          "!", ">", "<", "|"}
Operators ==
  {<<c>> : c \in Marks} \cup
  {<<"@", "@">>, <<"=", ">">>, <<"=", "=">>, <<"=", "~">>, <<"+", ">">>, <<"+", "=">>,
   <<"-", ">">>, <<"-", "=">>, <<"~", ">">>, <<"!", "~">>, <<"!", "=">>, <<">", "=">>,
   <<"<", "<">>, <<"<", "<", "|">>, <<"<", "|">>, <<"<", "-">>, <<"<", "~">>, <<"<", "=">>,
   <<"|", ">">>, <<"|", ">", ">">>}

\* The kinds of operators, by their text.
OpKind(s) == CASE s = <<")">> -> ")" [] s = <<"]">> -> "]" [] s = <<"}">> -> "}" [] OTHER -> "op"

\* The switch over the first character, and within it over the second.
Second(c) ==
  CASE c = "@" -> {"@"}
    [] c = "=" -> {">", "=", "~"}
    [] c \in {"+", "-"} -> {">", "="}
    [] c \in {"~", "|"} -> {">"}
    [] c = "!" -> {"~", "="}
    [] c = ">" -> {"="}
    [] c = "<" -> {"<", "|", "-", "~", "="}
    [] OTHER -> {}

\* The length of the operator here, 0 when there is none.
OperatorLen ==
  IF (Peek = "<" /\ At(1) = "<" /\ At(2) = "|") \/ (Peek = "|" /\ At(1) = ">" /\ At(2) = ">") THEN 3
  ELSE IF At(1) \in Second(Peek) THEN 2
  ELSE IF Peek \in Marks THEN 1 ELSE 0

BeginsOther ==
  \/ Peek \in {"$", "'", Quote, EOF} \cup Digit \cup Letter
  \/ Peek = "/" /\ RegexpAllowed
  \/ Peek = ":" /\ At(1) = ":" /\ At(2) \in Letter
  \/ Peek = "@" /\ At(1) = "("

Operator ==
  /\ Begins /\ ~BeginsOther
  /\ IF OperatorLen = 0 THEN Fail
     ELSE LET s == SubSeq(src, i, i + OperatorLen - 1) IN
          /\ Adv(OperatorLen) /\ toks' = Append(toks, Token(OpKind(s), s, Here, i + OperatorLen))
          /\ UNCHANGED <<mode, start, text>>

-----------------------------------------------------------------------------
(* Heredocs *)

\* The first position from k on whose character is in S, after the end if there is none.
Find(k, S) == Min({j \in k..Len(src) : src[j] \in S} \cup {Len(src) + 1})

\* The positions of s that are not blank.
Inked(s) == {k \in 1..Len(s) : s[k] \notin {" ", "\t"}}
TrimLeft(s) == IF Inked(s) = {} THEN << >> ELSE SubSeq(s, Min(Inked(s)), Len(s))
Trim(s) == IF Inked(s) = {} THEN << >> ELSE SubSeq(s, Min(Inked(s)), Max(Inked(s)))

\* What comes before the first c.
Cut(s, c) ==
  LET k == SelectInSeq(s, LAMBDA x : x = c) IN IF k = 0 THEN s ELSE SubSeq(s, 1, k - 1)

\* The tag of a spec, with or without quotes, a syntax or escapes.
Tag(spec) ==
  LET s == Trim(Cut(Trim(Cut(Trim(spec), "/")), ":")) IN
  IF Len(s) >= 2 /\ s[1] = Quote /\ s[Len(s)] = Quote THEN SubSeq(s, 2, Len(s) - 1) ELSE s

\* The lines from k on: where they start, and what is on them.
LineStarts(k) == {j \in ({k} \cup {m + 1 : m \in k..Len(src)}) :
                    j <= Len(src) /\ (j = k \/ src[j - 1] = "\n")}
LineAt(k) == SubSeq(src, k, Find(k, {"\n"}) - 1)

\* How a line ends the heredoc of a tag: indented, with | for a margin and - to cut
\* the last newline.
Terminator(l, tag) ==
  LET after(s, c) == IF s # << >> /\ Head(s) = c THEN TrimLeft(Tail(s)) ELSE s
      has(s, c) == s # << >> /\ Head(s) = c
      s0 == TrimLeft(l)
      s1 == after(s0, "|")
  IN [ok |-> after(s1, "-") = tag, chomp |-> has(s1, "-"),
      margin |-> IF has(s0, "|") THEN Len(l) - Len(s0) ELSE 0]

\* l without the blanks of its first m columns.
StripMargin(l, m) ==
  LET n == Min({k \in 0..Len(l) : k = m \/ k = Len(l) \/ (k < Len(l) /\ l[k + 1] \notin {" ", "\t"})})
  IN SubSeq(l, n + 1, Len(l))

Render(starts, t) ==
  FlattenSeq([k \in 1..Len(starts) |->
    StripMargin(LineAt(starts[k]), t.margin)
      \o (IF k < Len(starts) \/ ~t.chomp THEN <<"\n">> ELSE << >>)])

\* The lines of the body from line k on; the one that ends it and those after it.
Body(k, tag) == {s \in LineStarts(k) : \A r \in LineStarts(k) : r <= s => ~Terminator(LineAt(r), tag).ok}
Beyond(k, tag) == LineStarts(k) \ Body(k, tag)

\* @(TAG): the body is everything from the next line to the first line that ends it.
Heredoc ==
  /\ Begins /\ Peek = "@" /\ At(1) = "("
  /\ \E close \in {Find(i + 2, {")", "\n"})} :
     \E tag \in {Tag(SubSeq(src, i + 2, close - 1))}, below \in {Find(close, {"\n"}) + 1} :
     \E rest \in {Beyond(below, tag)} :
       IF At(close - i) # ")" \/ tag = << >> \/ below > Len(src) + 1 \/ rest = {} THEN Fail
       ELSE /\ i' = close + 1 /\ col' = col + (close + 1 - i) /\ UNCHANGED line
            /\ resume' = Find(Min(rest), {"\n"})
            /\ toks' = Append(toks, Token("HEREDOC",
                  Render(SetToSortSeq(Body(below, tag), <), Terminator(LineAt(Min(rest)), tag)), Here, close + 1))
            /\ UNCHANGED <<mode, start, text>>

-----------------------------------------------------------------------------
(* The scanner *)

Init ==
  /\ src \in Sources
  /\ i = 1 /\ line = 1 /\ col = 1 /\ resume = 0
  /\ toks = << >> /\ mode = "skip" /\ start = Here /\ text = << >> /\ comments = {}

Scan ==
  \/ SkipBlank \/ Comment \/ LineComment \/ BlockComment
  \/ EndOfFile \/ Begin \/ Operator \/ Heredoc
  \/ Variable \/ Word
  \/ HexDigits \/ IntDigits \/ FractionDigits \/ Sign \/ ExponentDigits
  \/ Single \/ Double \/ Regexp

\* A loop over a comment that goes back to skipSpaceAndComments has walked over one.
Noted ==
  comments' = IF mode \in {"line", "block"} /\ mode' = "skip"
                THEN comments \cup {[off |-> start.off, end |-> i']} ELSE comments

Next == Scan /\ Noted /\ UNCHANGED src

\* Lex is a loop that nothing interrupts.
Spec == Init /\ [][Next]_vars /\ WF_vars(Next)

-----------------------------------------------------------------------------
(* Properties *)

\* The scanner has come to an end of the text or to an error.
Ended1 == mode \in {"done", "failed", "panic"}

\* The type invariant.
LexTypeOK ==
  /\ i \in 1..(Len(src) + 1) /\ resume \in 0..(Len(src) + 1)
  /\ line \in Nat \ {0} /\ col \in Nat \ {0}
  /\ \A k \in 1..Len(toks) : toks[k].pos.off \in 1..(Len(src) + 1) /\ toks[k].end \in 1..(Len(src) + 1)

\* The end of the line on which token t, a heredoc, opens, where the scanner goes on
\* behind the heredoc's body, and the body between them, with the line that ends it.
LineEnd(t) == Find(t.end, {"\n"})
BodyEnd(t) ==
  Find(Min(Beyond(LineEnd(t) + 1, Tag(SubSeq(src, t.pos.off + 2, t.end - 2)))), {"\n"})
BodyOf(t) == (LineEnd(t) + 1)..(BodyEnd(t) - 1)

Heredocs == {k \in 1..Len(toks) : toks[k].kind = "HEREDOC"}

\* The bodies of the heredocs that are the last ones of their lines. (When a line opens
\* two, the second one looks for its body where that of the first one is, and what counts
\* is where the second one's ends.)
Lasts == {k \in Heredocs : \A h \in Heredocs : LineEnd(toks[h]) = LineEnd(toks[k]) => h <= k}
Bodies == UNION {BodyOf(toks[k]) : k \in Lasts}

\* The line of position off, and its column, where the lines of bodies are not counted.
LineOf(off) == 1 + Cardinality({j \in 1..(off - 1) : src[j] = "\n" /\ j \notin Bodies})
ColumnOf(off) == off - Max({0} \cup {j \in 1..(off - 1) : src[j] = "\n" \/ j \in Bodies})

\* A token is where its position says, through strings, comments and regular
\* expressions of several lines, and behind heredocs.
PlacesTrue ==
  \A k \in 1..Len(toks) :
    toks[k].pos.line = LineOf(toks[k].pos.off) /\ toks[k].pos.col = ColumnOf(toks[k].pos.off)

\* c is a comment as the language has them: from # to before the end of the line, or from
\* /* to behind the first */, where bodies do not count.
IsLineComment(c) == src[c.off] = "#" /\ c.end = Find(c.off, {"\n"})
IsBlockComment(c) ==
  LET closing == {p \in (c.off + 2)..(Len(src) - 1) : p \notin Bodies /\ src[p] = "*" /\ src[p + 1] = "/"}
  IN src[c.off] = "/" /\ src[c.off + 1] = "*" /\ closing # {} /\ c.end = Min(closing) + 2

\* Between two tokens there is nothing but blanks, comments and heredoc bodies, and no
\* comment reaches into a token; one counts as spaced exactly when something is before it
\* ("whitespace/comment/newline preceded this token").
BlanksBetween ==
  /\ \A c \in comments :
       /\ IsLineComment(c) \/ IsBlockComment(c)
       /\ \A k \in 1..Len(toks) : c.end <= toks[k].pos.off \/ toks[k].end <= c.off
  /\ \A k \in 1..Len(toks) :
       LET from == IF k = 1 THEN 1 ELSE toks[k - 1].end IN
       /\ toks[k].pos.off >= from /\ toks[k].end >= toks[k].pos.off
       /\ \A j \in from..(toks[k].pos.off - 1) :
            src[j] \in Blank \/ j \in Bodies \/ \E c \in comments : j \in c.off..(c.end - 1)
       /\ toks[k].spaced = (toks[k].pos.off # from)
       /\ toks[k].kind \in {"NAME", "TYPE", "INT", "FLOAT", "op"} =>
            toks[k].text = SubSeq(src, toks[k].pos.off, toks[k].end - 1)

\* Of the first n tokens no other is a heredoc on the line of the heredoc k.
Alone(k, n) == \A h \in Heredocs : h <= n /\ h # k => LineEnd(toks[h]) # LineEnd(toks[k])

\* A quoted text ends at the first delimiter with an even number of backslashes
\* before it that is not in a heredoc's body, whichever loop reads it (lexSingle,
\* lexDouble, lexRegexp).
ClosedAtFirst ==
  \A k \in 1..Len(toks) :
    LET open == toks[k].pos.off
        slashes(p) == p - 1 - Max({j \in open..(p - 1) : src[j] # "\\"})
        before == {h \in Heredocs : h < k}
        bodies == UNION {BodyOf(toks[h]) : h \in before}
        closing == {p \in ((open + 1)..Len(src)) \ bodies : src[p] = src[open] /\ slashes(p) % 2 = 0}
    IN toks[k].kind \in {"SQSTRING", "DQSTRING", "REGEXP"} /\ (\A h \in before : Alone(h, k)) =>
         closing # {} /\ toks[k].end = Min(closing) + 1

\* The texts of numbers, as a grammar.
DigitsOf(s) == s # << >> /\ \A k \in 1..Len(s) : s[k] \in Digit
IsHexText(s) == Len(s) > 2 /\ s[1] = "0" /\ s[2] \in {"x", "X"} /\ \A k \in 3..Len(s) : s[k] \in Hex
IsExponent(s) ==
  /\ Len(s) > 1 /\ s[1] \in {"e", "E"}
  /\ DigitsOf(Tail(s)) \/ (s[2] \in {"+", "-"} /\ DigitsOf(SubSeq(s, 3, Len(s))))
IsDecimal(s) ==
  \E m, n \in 0..Len(s) :
    /\ m <= n /\ DigitsOf(SubSeq(s, 1, m))
    /\ m = n \/ (s[m + 1] = "." /\ DigitsOf(SubSeq(s, m + 2, n)))
    /\ n = Len(s) \/ IsExponent(SubSeq(s, n + 1, Len(s)))
IsNumberText(s) == IsHexText(s) \/ IsDecimal(s)

\* A number is the longest text that is one by the grammar, and an integer exactly
\* when it has neither a fraction nor an exponent (lexNumber).
NumbersLongest ==
  \A k \in 1..Len(toks) :
    toks[k].kind \in {"INT", "FLOAT"} =>
      LET from == toks[k].pos.off IN
      /\ IsNumberText(toks[k].text)
      /\ \A e \in toks[k].end..Len(src) : ~IsNumberText(SubSeq(src, from, e))
      /\ (toks[k].kind = "INT") = (DigitsOf(toks[k].text) \/ IsHexText(toks[k].text))

\* Of the operators in a row the first is the longest the text has room for, whatever
\* the switch tells apart.
OperatorsLongest ==
  \A k \in 1..Len(toks) :
    toks[k].kind \in {"op", ")", "]", "}"} =>
      /\ toks[k].text \in Operators
      /\ \A e \in toks[k].end..Len(src) : SubSeq(src, toks[k].pos.off, e) \notin Operators

\* No part of a body is scanned as program text: the scanner jumps "past a pending
\* heredoc body when a newline is crossed" (adv), also in a string or a comment that
\* goes on after the opener's line.
BodyUnseen == \A k \in 1..Len(toks) : toks[k].pos.off \notin Bodies

\* Tokens are where they say they are, nothing but space, comments and heredoc bodies is
\* between them, comments end where they must, and no body is scanned as program text
\* (next, adv, skipSpaceAndComments, lexHeredoc).
TokensTile == LexTypeOK /\ BlanksBetween /\ PlacesTrue /\ BodyUnseen

\* Each token is the one the longest match gives: strings end at their first unescaped
\* delimiter, numbers by their grammar, operators greedily (lexNumber, lexOperator and others).
TokensLongest == ClosedAtFirst /\ NumbersLongest /\ OperatorsLongest

\* Scanning gives "the tokens (terminated by an [EOF] token) or a lexical [Error]"
\* (Lex), and never panics.
LexTotal == mode # "panic"

=============================================================================

