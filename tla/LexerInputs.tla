---------------------------- MODULE LexerInputs -----------------------------
(* The texts TextMC has the Lexer scan. Keywords are spelled with one letter. *)
EXTENDS Integers, Sequences, SequencesExt, TLC

MCKeywords == <<"t">> :> "true" @@ <<"u">> :> "undef" @@ <<"i">> :> "if"

UpTo(k, s) == UNION {[1..m -> s] : m \in 0..k}

\* Quotes, numbers, words, operators, comments.
MCSources ==
  UpTo(5, {"'", "\\", "\n", "/"}) \cup UpTo(4, {"\"", "\\", "'", "a", "\n"})
  \cup UpTo(5, {"0", "x", "e", ".", "-"}) \cup {<<"1", ".">> \o s : s \in UpTo(4, {"1", "e", "+", "a"})}
  \cup UpTo(4, {"$", ":", "a", "A", "1", " "})
  \cup UpTo(3, {"<", "|", ">", "=", "~", "-", "!", "+", "@", "("}) \cup UpTo(4, {"<", "|", ">", "-"})
  \cup UpTo(4, {"/", "*", "\n", "#", "a", ")"}) \cup {<<"@", "(", "a", ")", "\n", "a", "\n">>}

Pieces == {<<"@", "(", "a", ")">>, <<"@", "(", "\"", "a", "\"", ":", "b", "/", "t", ")">>}
Rests == {<< >>, <<" ", "b">>, <<"'">>, <<"#">>, <<"/", "*">>, <<"\"", "\\">>,
          <<"@", "(", "b", ")">>}
Lines == {<< >>, <<"b">>, <<" ", "b">>, <<"a">>, <<" ", "|", "-", " ", "a">>, <<" ", " ", "'">>, <<"*", "/">>}
Joined(ls) == FlattenSeq([k \in 1..Len(ls) |-> <<"\n">> \o ls[k]])

\* A heredoc in its line, and up to three lines after it.
HeredocSources ==
  {p \o r \o Joined(ls) : p \in Pieces, r \in Rests, ls \in UpTo(3, Lines)}
=============================================================================
