--------------------------- MODULE TemplateInputs ---------------------------
(* The templates, the formats and the words for a shell of TextMC. *)
EXTENDS Integers, Sequences, TLC

UpTo(n, S) == UNION {[1..m -> S] : m \in 0..n}
Flat(pieces) ==
  LET f[n \in 0..Len(pieces)] == IF n = 0 THEN << >> ELSE f[n - 1] \o pieces[n] IN f[Len(pieces)]

\* Up to three of the marks of tags and escapes, and a tag between short texts.
Marks ==
  {<<"<", "%">>, <<"<", "%", "%">>, <<"%", ">">>, <<"-", "%", ">">>, <<"%", "%", ">">>,
   <<"=">>, <<"#">>, <<"|">>, <<"-">>, <<" ">>, <<"\n">>, <<"a">>, <<"'">>, <<"\\">>}
Tags == {<<"<", "%">> \o Flat(s) \o <<"%", ">">> : s \in UpTo(2, Marks)}
Around == {<< >>, <<" ">>, <<"\n">>, <<"a", " ">>, <<"<", "%", "#", "%", ">">>}
EppTemplates ==
  {Flat(s) : s \in UpTo(3, Marks)} \cup {a \o t \o b : a, b \in Around, t \in Tags}
    \cup {a \o <<"<", "%", "|", "a", "|", "%", ">">> \o b : a, b \in Around}

HclTemplates ==
  UpTo(5, {"a", "$", "%", "{", "}"}) \cup UpTo(4, {"\\", "n", "$", "{", "}", "\"", "~"})
    \cup {<<"$", "{">> \o s \o <<"}">> : s \in UpTo(4, {"a", "\"", "{", "}", "\\"})}
    \cup {<<"\\", "u">> \o s : s \in UpTo(5, {"0", "a", "n"})}

ShellChars == {"a", " ", "'", "\"", "\\", "\n"}
ShellRequests ==
  {<<"shell_join", w>> : w \in UpTo(2, UpTo(2, ShellChars)) \cup UpTo(1, UpTo(4, ShellChars))}
    \cup {<<"shell_split", s>> : s \in UpTo(5, ShellChars)}

\* Each directive with widths that bind, do not, and wrap, and what may stand behind it.
Digits == "0" :> 0 @@ "1" :> 1 @@ "9" :> 9 @@ "a" :> 10
Formats ==
  {<<"%">> \o w \o <<v>> \o e : w \in {<< >>, <<"1">>, <<"9">>, <<"1", "9">>},
     v \in {"c", "s", "d", "x", "o", "i", "f", "z"}, e \in {<< >>, <<"%", "c">>, <<"a">>, <<" ">>}}
    \cup UpTo(3, {"%", "a", " "})
ScanfInputs ==
  (UpTo(3, {"1", "0", "x", "-", " ", "."}) \cup UpTo(2, {"%", "a", " ", "1"})) \X Formats
=============================================================================
