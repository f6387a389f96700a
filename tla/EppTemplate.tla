---------------------------- MODULE EppTemplate -----------------------------
(***************************************************************************)
(* How the text of an EPP template becomes a program: scanEPP cuts it into *)
(* literal text and tags, compileEPP turns those into statements, one for  *)
(* each (eval/epp.go).  A character is a string of one character.  What    *)
(* ParseParameters makes of a parameter tag is the Parser's matter, here   *)
(* it is accepted or refused; binding and rendering are Scope's and        *)
(* Evaluator's.                                                            *)
(***************************************************************************)
EXTENDS Naturals, Sequences

CONSTANT Templates  \* the texts that are scanned

VARIABLES
  tmpl,      \* the template
  i,         \* the next character, or the next segment
  text,      \* the literal text not yet a segment
  segs,      \* the segments, each [kind, text]
  saw,       \* a statement or text with ink has been compiled
  prog,      \* the statements
  declared,  \* the texts of the parameter tags
  mode       \* "scan", "compile", "done" or "failed"

vars == <<tmpl, i, text, segs, saw, prog, declared, mode>>

Seg(kind, s) == [kind |-> kind, text |-> s]

-----------------------------------------------------------------------------
(* Scanning *)

HasPrefix(s, k) == k + Len(s) - 1 <= Len(tmpl) /\ SubSeq(tmpl, k, k + Len(s) - 1) = s
Of(k) == IF k \in DOMAIN tmpl THEN tmpl[k] ELSE "end"

\* s without what set holds at its end.
TrimRight(s, set) ==
  LET f[n \in 0..Len(s)] ==
        IF n = 0 THEN << >> ELSE IF s[n] \in set THEN f[n - 1] ELSE SubSeq(s, 1, n)
  IN f[Len(s)]
TrimTrailingInlineSpace(s) == TrimRight(s, {" ", "\t"})

Space == {" ", "\t", "\r", "\n"}
TrimSpace(s) ==
  LET inked == {k \in DOMAIN s : s[k] \notin Space}
  IN TrimRight(IF inked = {} THEN << >> ELSE SubSeq(s, CHOOSE k \in inked : \A l \in inked : k <= l, Len(s)),
               Space)

\* [kind, start]: the body of the tag at k begins behind its marks.
ClassifyTag(k) ==
  LET j == IF Of(k + 2) = "-" THEN k + 3 ELSE k + 2
  IN CASE Of(j) = "=" -> [kind |-> "expr", start |-> j + 1]
       [] Of(j) = "#" -> [kind |-> "comment", start |-> j + 1]
       [] OTHER -> [kind |-> "code", start |-> j]

\* The end of the tag whose body begins at k, 0 for none; an escaped one is none.
FindTagEnd(k) ==
  LET f[j \in 1..Len(tmpl) + 3] ==
        CASE j > Len(tmpl) -> 0
          [] HasPrefix(<<"%", "%", ">">>, j) -> f[j + 3]
          [] HasPrefix(<<"-", "%", ">">>, j) \/ HasPrefix(<<"%", ">">>, j) -> j
          [] OTHER -> f[j + 1]
  IN f[k]

\* Mutant of SkipTagClose: the newline behind any tag goes.
SkipTagCloseAlways(end) ==
  LET k == IF Of(end) = "-" THEN end + 3 ELSE end + 2
      l == IF Of(k) = "\r" THEN k + 1 ELSE k
  IN IF Of(l) = "\n" THEN l + 1 ELSE l

\* What follows a tag that ends at end; one that trims takes a line end with it.
SkipTagClose(end) ==
  IF Of(end) # "-" THEN end + 2
  ELSE LET l == IF Of(end + 3) = "\r" THEN end + 4 ELSE end + 3
       IN IF Of(l) = "\n" THEN l + 1 ELSE l

Scanning == mode = "scan" /\ UNCHANGED <<tmpl, saw, prog, declared>>
AtTag == HasPrefix(<<"<", "%">>, i) /\ ~HasPrefix(<<"<", "%", "%">>, i)

Escaped ==
  /\ Scanning /\ HasPrefix(<<"<", "%", "%">>, i)
  /\ text' = text \o <<"<", "%">> /\ i' = i + 3 /\ UNCHANGED <<segs, mode>>

Tag ==
  /\ Scanning /\ AtTag
  /\ LET tag == ClassifyTag(i)
         end == FindTagEnd(tag.start)
         before == IF Of(i + 2) = "-" THEN TrimTrailingInlineSpace(text) ELSE text
     IN IF end = 0 THEN mode' = "failed" /\ UNCHANGED <<i, text, segs>>
        ELSE /\ segs' = segs \o <<Seg("text", before), Seg(tag.kind, SubSeq(tmpl, tag.start, end - 1))>>
             /\ text' = << >> /\ i' = SkipTagClose(end) /\ UNCHANGED mode

Text ==
  /\ Scanning /\ i <= Len(tmpl) /\ ~HasPrefix(<<"<", "%">>, i)
  /\ text' = Append(text, tmpl[i]) /\ i' = i + 1 /\ UNCHANGED <<segs, mode>>

LastText ==
  /\ Scanning /\ i > Len(tmpl)
  /\ segs' = Append(segs, Seg("text", text)) /\ text' = << >> /\ i' = 1 /\ mode' = "compile"

-----------------------------------------------------------------------------
(* Compiling: one statement for each segment *)

\* A literal string that stands for s.
QuoteSingle(s) ==
  LET f[n \in 0..Len(s)] ==
        IF n = 0 THEN <<"'">>
        ELSE IF s[n] \in {"\\", "'"} THEN f[n - 1] \o <<"\\", s[n]>> ELSE Append(f[n - 1], s[n])
  IN Append(f[Len(s)], "'")

ParseParamTag(s) == Len(s) >= 2 /\ s[1] = "|" /\ s[Len(s)] = "|"

Compiling(kind) ==
  /\ mode = "compile" /\ i <= Len(segs) /\ segs[i].kind = kind
  /\ i' = i + 1 /\ UNCHANGED <<tmpl, text, segs>>
Body == TrimSpace(segs[i].text)

CompileText ==
  /\ Compiling("text")
  /\ prog' = (IF segs[i].text = << >> THEN prog
              ELSE Append(prog, Seg("render", QuoteSingle(segs[i].text))))
  /\ saw' = (saw \/ Body # << >>) /\ UNCHANGED <<declared, mode>>

CompileExpr ==
  /\ Compiling("expr")
  /\ prog' = (IF Body = << >> THEN prog ELSE Append(prog, Seg("render", Body)))
  /\ saw' = (saw \/ Body # << >>) /\ UNCHANGED <<declared, mode>>

CompileCode ==
  /\ Compiling("code") /\ ~ParseParamTag(Body)
  /\ prog' = Append(prog, Seg("code", Body)) /\ saw' = TRUE /\ UNCHANGED <<declared, mode>>

CompileParams ==
  /\ Compiling("code") /\ ParseParamTag(Body)
  /\ \E accepted \in BOOLEAN :
       IF saw \/ ~accepted THEN mode' = "failed" /\ UNCHANGED <<declared, saw>>
       ELSE /\ declared' = Append(declared, SubSeq(Body, 2, Len(Body) - 1))
            /\ saw' = TRUE /\ UNCHANGED mode
  /\ UNCHANGED prog

DropComment == Compiling("comment") /\ UNCHANGED <<saw, prog, declared, mode>>

Compiled ==
  /\ mode = "compile" /\ i > Len(segs)
  /\ mode' = "done" /\ UNCHANGED <<tmpl, i, text, segs, saw, prog, declared>>

Init ==
  /\ tmpl \in Templates /\ i = 1 /\ text = << >> /\ segs = << >>
  /\ saw = FALSE /\ prog = << >> /\ declared = << >> /\ mode = "scan"

Next ==
  \/ Escaped \/ Tag \/ Text \/ LastText
  \/ CompileText \/ CompileExpr \/ CompileCode \/ CompileParams \/ DropComment \/ Compiled

Spec == Init /\ [][Next]_vars

-----------------------------------------------------------------------------
(* Properties *)

\* A template with these segments.
Mark(seg) == CASE seg.kind = "expr" -> <<"=">> [] seg.kind = "comment" -> <<"#">>
               [] OTHER -> IF seg.text = << >> \/ Head(seg.text \o <<"-">>) \in {"-", "%"} THEN <<"-">> ELSE << >>
Close(seg) ==
  IF seg.text # << >> /\ seg.text[Len(seg.text)] = "%" THEN <<"-", "%", ">", "\n">> ELSE <<"%", ">">>
EscapeText(s) ==
  LET f[n \in 0..Len(s)] ==
        IF n = 0 THEN << >>
        ELSE IF n > 1 /\ s[n] = "%" /\ s[n - 1] = "<" THEN f[n - 1] \o <<"%", "%">>
        ELSE Append(f[n - 1], s[n])
  IN f[Len(s)]
Written ==
  LET f[n \in 0..Len(segs)] ==
        IF n = 0 THEN << >>
        ELSE f[n - 1] \o (IF segs[n].kind = "text" THEN EscapeText(segs[n].text)
                          ELSE <<"<", "%">> \o Mark(segs[n]) \o segs[n].text \o Close(segs[n]))
  IN f[Len(segs)]

\* Scanning loses nothing of a template but the space its tags trim: written out again,
\* text and tags in their order are the template.
Ink(s) == SelectSeq(s, LAMBDA c : c \notin Space \cup {"-"})
TemplateKept ==
  mode \in {"compile", "done"} =>
    /\ Ink(Written) = Ink(tmpl)
    /\ (\A k \in DOMAIN tmpl : tmpl[k] # "-") => Written = tmpl

\* [text, end]: the string that begins s is text, as the lexer reads it.
LexSingle(s) ==
  LET f[k \in 2..Len(s) + 2, t \in Seq(STRING)] ==
        IF k > Len(s) THEN [text |-> t, end |-> 0]
        ELSE IF s[k] = "'" THEN [text |-> t, end |-> k]
        ELSE IF s[k] = "\\" /\ k < Len(s) /\ s[k + 1] \in {"\\", "'"} THEN f[k + 2, Append(t, s[k + 1])]
        ELSE f[k + 1, Append(t, s[k])]
  IN f[2, << >>]

\* Literal text survives the detour through a string literal of the program, whatever
\* quotes and backslashes it holds (quoteSingle against lexSingle).
TextQuoted ==
  mode = "done" =>
    \A k \in DOMAIN segs :
      segs[k].kind = "text" =>
        LET q == QuoteSingle(segs[k].text) IN LexSingle(q) = [text |-> segs[k].text, end |-> Len(q)]

\* Parameters are declared once, with nothing rendered or run before.
ParamsFirst ==
  mode = "done" /\ declared # << >> =>
    \E k \in DOMAIN segs :
      /\ declared = <<SubSeq(TrimSpace(segs[k].text), 2, Len(TrimSpace(segs[k].text)) - 1)>>
      /\ \A j \in 1..(k - 1) : segs[j].kind = "comment" \/ TrimSpace(segs[j].text) = << >>
=============================================================================
