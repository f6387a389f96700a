---------------------------- MODULE HclTemplate -----------------------------
(***************************************************************************)
(* The parts of an HCL2 template, quoted or heredoc: templateParts of      *)
(* hcl/hcl.go.  A character is a string of one character.  What the HCL2   *)
(* parser, a library, makes of an embedded expression is accepted or       *)
(* refused.                                                                *)
(***************************************************************************)
EXTENDS Naturals, Sequences, FiniteSets

CONSTANT Templates, HexDigit

VARIABLES
  raw,      \* the body of the template
  heredoc,  \* it is a heredoc's: backslashes escape nothing
  i,        \* the next character
  lit,      \* the literal text not yet a part
  parts,    \* each [kind, text]
  mode      \* "scan", "done" or "failed"

vars == <<raw, heredoc, i, lit, parts, mode>>

Of(k) == IF k \in DOMAIN raw THEN raw[k] ELSE "end"
HasPrefix(s, k) == k + Len(s) - 1 <= Len(raw) /\ SubSeq(raw, k, k + Len(s) - 1) = s

\* The brace that closes an interpolation whose text begins at k, 0 for none.
FindClose(k) ==
  LET f[j \in 1..Len(raw) + 2, depth \in 1..Len(raw) + 1, quoted \in BOOLEAN] ==
        CASE j > Len(raw) -> 0
          [] quoted -> IF raw[j] = "\\" THEN f[j + 2, depth, TRUE] ELSE f[j + 1, depth, raw[j] # "\""]
          [] raw[j] = "\"" -> f[j + 1, depth, TRUE]
          [] raw[j] = "{" -> f[j + 1, depth + 1, FALSE]
          [] raw[j] = "}" -> IF depth = 1 THEN j ELSE f[j + 1, depth - 1, FALSE]
          [] OTHER -> f[j + 1, depth, FALSE]
  IN f[k, 1, FALSE]

\* [text, width] of the escape at k, a width of 0 for an error.  A code point is one
\* character, whatever it is.
DecodeHexEscape(k, n) ==
  IF k + n - 1 <= Len(raw) /\ \A j \in k..(k + n - 1) : raw[j] \in HexDigit
  THEN [text |-> <<"rune">>, width |-> 2 + n] ELSE [text |-> << >>, width |-> 0]
DecodeEscape(k) ==
  LET c == Of(k + 1)
      As(s) == [text |-> <<s>>, width |-> 2]
  IN CASE c = "n" -> As("\n") [] c = "t" -> As("\t") [] c = "r" -> As("\r")
       [] c \in {"\"", "\\"} -> As(c)
       [] c = "u" -> DecodeHexEscape(k + 2, 4)
       [] c = "U" -> DecodeHexEscape(k + 2, 8)
       [] OTHER -> [text |-> << >>, width |-> 0]

Part(kind, s) == [kind |-> kind, text |-> s]
Flushed == IF lit = << >> THEN parts ELSE Append(parts, Part("text", lit))

\* The tokenizer lets no quoted template end in the middle of an escape, and cuts it at
\* the first quote that none stands before.
Init ==
  /\ raw \in Templates /\ heredoc \in BOOLEAN
  /\ heredoc \/ LET run == {n \in 0..Len(raw) : \A k \in (n + 1)..Len(raw) : raw[k] = "\\"}
                IN /\ Cardinality(run) % 2 = 1
                   /\ \A k \in DOMAIN raw : raw[k] = "\"" => Of(k - 1) = "\\"
  /\ i = 1 /\ lit = << >> /\ parts = << >> /\ mode = "scan"

Scanning == mode = "scan" /\ UNCHANGED <<raw, heredoc>>
Write(s, width) == lit' = lit \o s /\ i' = i + width /\ UNCHANGED <<parts, mode>>
Refuse == mode' = "failed" /\ UNCHANGED <<i, lit, parts>>

\* "$${" and "%%{" stand for "${" and "%{".
Doubled ==
  /\ Scanning
  /\ \E c \in {"$", "%"} : HasPrefix(<<c, c, "{">>, i) /\ Write(<<c, "{">>, 3)

Interpolated ==
  /\ Scanning /\ HasPrefix(<<"$", "{">>, i)
  /\ \E end \in {FindClose(i + 2)}, accepted \in BOOLEAN :
       IF end = 0 THEN Refuse
       ELSE LET inner == SubSeq(raw, i + 2, end - 1)
                stripped == inner # << >> /\ "~" \in {inner[1], inner[Len(inner)]}
            IN IF stripped \/ ~accepted THEN Refuse
               ELSE /\ parts' = Append(Flushed, Part("expr", inner))
                    /\ lit' = << >> /\ i' = end + 1 /\ UNCHANGED mode

Directive == Scanning /\ HasPrefix(<<"%", "{">>, i) /\ Refuse

Escape ==
  /\ Scanning /\ ~heredoc /\ Of(i) = "\\"
  /\ \E e \in {DecodeEscape(i)} : IF e.width = 0 THEN Refuse ELSE Write(e.text, e.width)

Plain ==
  /\ Scanning /\ i <= Len(raw) /\ (heredoc \/ raw[i] # "\\")
  /\ \A c \in {"$", "%"} : ~HasPrefix(<<c, c, "{">>, i) /\ ~HasPrefix(<<c, "{">>, i)
  /\ Write(<<raw[i]>>, 1)

\* Without an interpolation the template is one text, empty or not.
Finish ==
  /\ Scanning /\ i > Len(raw)
  /\ parts' = (IF \E p \in DOMAIN parts : parts[p].kind = "expr" THEN Flushed ELSE <<Part("text", lit)>>)
  /\ mode' = "done" /\ lit' = << >> /\ UNCHANGED i

Next == Doubled \/ Interpolated \/ Directive \/ Escape \/ Plain \/ Finish

Spec == Init /\ [][Next]_vars

-----------------------------------------------------------------------------
(* Properties *)

\* The parts, written as a template that escapes nothing with a backslash.
Doubling(s) ==
  LET f[n \in 0..Len(s)] ==
        IF n = 0 THEN << >>
        ELSE IF s[n] \in {"$", "%"} /\ n < Len(s) /\ s[n + 1] = "{" THEN f[n - 1] \o <<s[n], s[n]>>
        ELSE Append(f[n - 1], s[n])
  IN f[Len(s)]
Written ==
  LET f[n \in 0..Len(parts)] ==
        IF n = 0 THEN << >>
        ELSE f[n - 1] \o (IF parts[n].kind = "text" THEN Doubling(parts[n].text)
                          ELSE <<"$", "{">> \o parts[n].text \o <<"}">>)
  IN f[Len(parts)]

\* Nothing of a template is lost or made up: written out again, its parts are the text,
\* as far as no backslash was decoded.
PartsReadBack ==
  mode = "done" /\ (heredoc \/ \A k \in DOMAIN raw : raw[k] # "\\") => Written = raw

\* An expression ends at its own brace: those in it balance, strings left aside, and
\* those of no shorter text did.
Quoted(s, k) == Len(SelectSeq(SubSeq(s, 1, k), LAMBDA c : c = "\"")) % 2 = 1
OwnBrace ==
  \A p \in DOMAIN parts :
    parts[p].kind = "expr" =>
      LET s == Append(parts[p].text, "}")
          Unquoted(c, n) == {k \in 1..n : s[k] = c /\ ~Quoted(s, k)}
      IN (\A k \in DOMAIN s : s[k] # "\\") =>
           \A n \in DOMAIN s : (Cardinality(Unquoted("}", n)) > Cardinality(Unquoted("{", n))) <=> (n = Len(s))
=============================================================================
