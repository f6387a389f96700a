---------------------------- MODULE Interpolation ---------------------------
(***************************************************************************)
(* Interpolating strings: interp.go, behind lexDouble, which cuts the      *)
(* string out of the source.  A character is a string of one character.    *)
(* The loop of interpolate is a state machine with one action for each     *)
(* case; what ParseExpression makes of an embedded expression is the       *)
(* Parser's matter, here it is accepted or refused.                        *)
(***************************************************************************)
EXTENDS Naturals, Sequences, FiniteSets

CONSTANTS
  Sources,              \* texts behind an opening quote, or bodies of heredocs
  Lower, Upper, Digit   \* the letters and digits that occur in them

VARIABLES
  src,      \* the text in the source
  heredoc,  \* it is a heredoc's and has no closing quote
  i,        \* the next character
  buf,      \* the literal text not yet a part
  parts,    \* each [kind, from, to, text], the latter what is parsed or shown
  mode      \* "scan", "done" or "failed"

vars == <<src, heredoc, i, buf, parts, mode>>

Quotes == {"'", "\""}
Word == Lower \cup Upper \cup Digit \cup {"_"}
Of(s, k) == IF k \in DOMAIN s THEN s[k] ELSE "end"

-----------------------------------------------------------------------------
(* Where things end *)

\* The quote that ends a double-quoted string, 0 for none: a backslash takes the next
\* character with it, whatever stands around.
ClosingQuote(s) ==
  LET f[k \in 1..Len(s) + 2] ==
        IF k > Len(s) THEN 0
        ELSE IF s[k] = "\"" THEN k ELSE IF s[k] = "\\" THEN f[k + 2] ELSE f[k + 1]
  IN f[1]

raw == IF heredoc THEN src ELSE SubSeq(src, 1, ClosingQuote(src) - 1)

\* The brace that closes the one at k, 0 for none; braces in quotes do not count.
BracedEnd(s, k) ==
  LET f[j \in Nat, depth \in Nat, quote \in Quotes \cup {"none"}] ==
        IF j > Len(s) THEN 0
        ELSE IF quote # "none" THEN
          IF s[j] = "\\" THEN f[j + 2, depth, quote]
          ELSE f[j + 1, depth, IF s[j] = quote THEN "none" ELSE quote]
        ELSE CASE s[j] \in Quotes -> f[j + 1, depth, s[j]]
               [] s[j] = "{" -> f[j + 1, depth + 1, "none"]
               [] s[j] = "}" -> IF depth = 1 THEN j ELSE f[j + 1, depth - 1, "none"]
               [] OTHER -> f[j + 1, depth, "none"]
  IN f[k, 0, "none"]

\* The first character behind the name at k.
NameEnd(s, k) ==
  LET f[j \in 1..Len(s) + 2] ==
        IF Of(s, j) \in Word THEN f[j + 1]
        ELSE IF Of(s, j) = ":" /\ Of(s, j + 1) = ":" THEN f[j + 2] ELSE j
  IN f[k]
IsBareVarStart(s, k) == Of(s, k) \in Word \/ (Of(s, k) = ":" /\ Of(s, k + 1) = ":")

-----------------------------------------------------------------------------
(* An embedded expression *)

Blank == {" ", "\t"}
Inked(s) == {k \in DOMAIN s : s[k] \notin Blank \cup {"\n"}}
TrimSpace(s) ==
  IF Inked(s) = {} THEN << >>
  ELSE SubSeq(s, CHOOSE k \in Inked(s) : \A l \in Inked(s) : k <= l,
                 CHOOSE k \in Inked(s) : \A l \in Inked(s) : k >= l)

\* A leading word is a variable, unless it is called.
LeadingBarewordIsVariable(s) ==
  LET after == {k \in NameEnd(s, 1)..Len(s) : s[k] \notin Blank}
  IN /\ s[1] \in Lower \cup {"_"}
     /\ \A k \in after : s[k] = "(" => \E l \in after : l < k
AllDigits(s) == \A k \in DOMAIN s : s[k] \in Digit

\* The text that is parsed in its place.
EmbedExpr(s) == IF LeadingBarewordIsVariable(s) \/ AllDigits(s) THEN <<"$">> \o s ELSE s

-----------------------------------------------------------------------------
(* Escapes *)

Meaning(c) == CASE c = "n" -> "\n" [] c = "t" -> "\t" [] c = "r" -> "\r" [] c = "s" -> " "
Known == {"n", "t", "r", "s"} \cup Quotes \cup {"$", "\\"}

\* Characters that make a code point; what a code point is, is left out.
Hex == Digit \cup ({"a", "b", "c", "d", "e", "f"} \cap Lower)
IsHex(s) == s # << >> /\ \A k \in DOMAIN s : s[k] \in Hex
CodePoint(s) == <<"rune">>

\* [text, next] of the escape \u at k.
Unicode(s, k) ==
  LET close == {j \in (k + 3)..Len(s) : s[j] = "}"}
      end == CHOOSE j \in close : \A l \in close : j <= l
      ill == [text |-> <<"\\", "u">>, next |-> k + 2]
  IN IF Of(s, k + 2) = "{"
     THEN IF close = {} THEN ill
          ELSE IF IsHex(SubSeq(s, k + 3, end - 1))
          THEN [text |-> CodePoint(SubSeq(s, k + 3, end - 1)), next |-> end + 1] ELSE ill
     ELSE IF k + 5 > Len(s) THEN ill
     ELSE IF IsHex(SubSeq(s, k + 2, k + 5))
     THEN [text |-> CodePoint(SubSeq(s, k + 2, k + 5)), next |-> k + 6] ELSE ill

\* Mutant of AppendEscape: an escaped character is looked at again.
AppendEscapeShort(s, k) ==
  LET c == Of(s, k + 1)
  IN CASE c = "u" -> Unicode(s, k)
       [] c \in {"n", "t", "r", "s"} -> [text |-> <<Meaning(c)>>, next |-> k + 2]
       [] OTHER -> [text |-> <<"\\">>, next |-> k + 1]

AppendEscape(s, k) ==
  LET c == Of(s, k + 1)
  IN CASE c = "end" -> [text |-> <<"\\">>, next |-> k + 1]
       [] c = "u" -> Unicode(s, k)
       [] c \in {"n", "t", "r", "s"} -> [text |-> <<Meaning(c)>>, next |-> k + 2]
       [] c \in Known \ {"n", "t", "r", "s"} -> [text |-> <<c>>, next |-> k + 2]
       [] OTHER -> [text |-> <<"\\", c>>, next |-> k + 2]

-----------------------------------------------------------------------------
(* The loop *)

Init ==
  /\ src \in Sources /\ heredoc \in BOOLEAN /\ (heredoc \/ ClosingQuote(src) # 0)
  /\ i = 1 /\ buf = << >> /\ parts = << >> /\ mode = "scan"

Scanning == mode = "scan" /\ i <= Len(raw)

Part(kind, from, to, s) == [kind |-> kind, from |-> from, to |-> to, text |-> s]
Covered == IF parts = << >> THEN 0 ELSE parts[Len(parts)].to
Flushed ==
  IF buf = << >> THEN parts ELSE Append(parts, Part("text", Covered + 1, i - 1, buf))

Plain ==
  /\ Scanning /\ raw[i] \notin {"\\", "$"}
  /\ buf' = Append(buf, raw[i]) /\ i' = i + 1 /\ UNCHANGED <<src, heredoc, parts, mode>>

Escape ==
  /\ Scanning /\ raw[i] = "\\"
  /\ \E e \in {AppendEscape(raw, i)} : buf' = buf \o e.text /\ i' = e.next
  /\ UNCHANGED <<src, heredoc, parts, mode>>

\* A dollar that begins nothing.
Dollar ==
  /\ Scanning /\ raw[i] = "$" /\ Of(raw, i + 1) # "{" /\ ~IsBareVarStart(raw, i + 1)
  /\ buf' = Append(buf, "$") /\ i' = i + 1 /\ UNCHANGED <<src, heredoc, parts, mode>>

BareName ==
  /\ Scanning /\ raw[i] = "$" /\ IsBareVarStart(raw, i + 1)
  /\ \E end \in {NameEnd(raw, i + 1)} :
       /\ parts' = Append(Flushed, Part("variable", i, end - 1, SubSeq(raw, i + 1, end - 1)))
       /\ i' = end
  /\ buf' = << >> /\ UNCHANGED <<src, heredoc, mode>>

Braced ==
  /\ Scanning /\ raw[i] = "$" /\ Of(raw, i + 1) = "{"
  /\ \E end \in {BracedEnd(raw, i + 1)}, accepted \in BOOLEAN :
       LET inner == TrimSpace(SubSeq(raw, i + 2, end - 1))
       IN IF end = 0 \/ inner = << >> \/ ~accepted
          THEN mode' = "failed" /\ UNCHANGED <<i, buf, parts>>
          ELSE /\ parts' = Append(Flushed, Part("expr", i, end, EmbedExpr(inner)))
               /\ i' = end + 1 /\ buf' = << >> /\ UNCHANGED mode
  /\ UNCHANGED <<src, heredoc>>

Finish ==
  /\ mode = "scan" /\ i > Len(raw)
  /\ parts' = (IF Flushed = << >> THEN <<Part("text", 1, 0, << >>)>> ELSE Flushed)
  /\ buf' = << >> /\ mode' = "done" /\ UNCHANGED <<src, heredoc, i>>

Next == Plain \/ Escape \/ Dollar \/ BareName \/ Braced \/ Finish

Spec == Init /\ [][Next]_vars

-----------------------------------------------------------------------------
(* Properties *)

\* The backslashes directly before k, not those of an earlier part.
RunBefore(k) ==
  LET low == {j \in 0..(k - 1) : IF j = 0 THEN TRUE
                ELSE \/ raw[j] # "\\"
                     \/ \E p \in DOMAIN parts : parts[p].kind # "text" /\ parts[p].to = j}
  IN k - 1 - (CHOOSE j \in low : \A l \in low : j >= l)
Odd(n) == n % 2 = 1
Inside(k) == \E p \in DOMAIN parts : parts[p].kind # "text" /\ k \in (parts[p].from + 1)..parts[p].to

\* Of the dollars of a text, those begin a part that no odd number of backslashes stands
\* before and that a name or a brace follows: none is lost and none is made up.
StartsFound ==
  mode = "done" =>
    \A k \in DOMAIN raw :
      raw[k] = "$" /\ ~Inside(k) =>
        ((\E p \in DOMAIN parts : parts[p].kind # "text" /\ parts[p].from = k)
         <=> ~Odd(RunBefore(k)) /\ (Of(raw, k + 1) = "{" \/ IsBareVarStart(raw, k + 1)))

\* The literal text between parts is the source's, less the backslashes that escape.
TextDecoded ==
  mode = "done" =>
    \A p \in DOMAIN parts :
      LET range == parts[p].from..parts[p].to
          Escapes(k) == raw[k] = "\\" /\ ~Odd(RunBefore(k))
          Kept(k) == ~(Escapes(k) /\ Of(raw, k + 1) \in Known)
          Escaped(k) == IF k - 1 \in range THEN Escapes(k - 1) ELSE FALSE
          Shown(k) == IF Escaped(k) /\ raw[k] \in {"n", "t", "r", "s"} THEN Meaning(raw[k]) ELSE raw[k]
          f[k \in 0..Len(raw)] ==
            IF k < parts[p].from THEN << >>
            ELSE IF Kept(k) THEN Append(f[k - 1], Shown(k)) ELSE f[k - 1]
      IN parts[p].kind = "text" /\ (\A k \in range : raw[k] # "u") => parts[p].text = f[parts[p].to]

\* Without its quoted pieces, an embedded expression's braces balance, and no shorter one's.
Quoted(s, k) ==
  \E a, b \in DOMAIN s :
    /\ a <= k /\ k <= b /\ s[a] \in Quotes /\ s[a] = s[b] /\ a # b
    /\ \A c \in DOMAIN s \ {a, b} : s[c] \notin Quotes
BracesBalance ==
  mode = "done" =>
    \A p \in DOMAIN parts :
      parts[p].kind = "expr" =>
        LET s == SubSeq(raw, parts[p].from + 1, parts[p].to)
            n(c, m) == Cardinality({k \in 1..m : s[k] = c /\ ~Quoted(s, k)})
            quotes == {k \in DOMAIN s : s[k] \in Quotes}
        IN (quotes = {} \/ \E a, b \in quotes : a # b /\ s[a] = s[b] /\ quotes = {a, b})
             /\ (\A k \in DOMAIN s : s[k] # "\\")
           => \A m \in DOMAIN s : (n("{", m) = n("}", m)) <=> (m = Len(s))

=============================================================================
