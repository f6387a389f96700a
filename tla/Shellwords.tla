----------------------------- MODULE Shellwords -----------------------------
(***************************************************************************)
(* shell_join and shell_split, which quote words for a shell and read them *)
(* back (eval/stdlib_shellwords.go).  A character is a string of one       *)
(* character; a result is a record with ok FALSE for an unmatched quote.   *)
(***************************************************************************)
EXTENDS Naturals, SequencesExt

CONSTANTS
  Safe,     \* the characters that need no escape
  Requests  \* <<"shell_join", words>> and <<"shell_split", line>>

VARIABLES request, result
vars == <<request, result>>

IsShellSpace(c) == c \in {" ", "\t", "\r", "\n"}

\* A word as the shell reads it; a newline cannot be escaped, only quoted.
RubyShellEscape(s) ==
  LET f[n \in 0..Len(s)] ==
        IF n = 0 THEN << >>
        ELSE f[n - 1] \o (CASE s[n] = "\n" -> <<"'", "\n", "'">>
                            [] s[n] \in Safe -> <<s[n]>>
                            [] OTHER -> <<"\\", s[n]>>)
  IN IF s = << >> THEN <<"'", "'">> ELSE f[Len(s)]

ShellJoin(words) ==
  LET f[n \in 0..Len(words)] ==
        IF n = 0 THEN << >>
        ELSE IF n = 1 THEN RubyShellEscape(words[1])
        ELSE f[n - 1] \o <<" ">> \o RubyShellEscape(words[n])
  IN f[Len(words)]

-----------------------------------------------------------------------------
(* Splitting: a piece at a time, each [text, next] with next 0 for a quote *)
(* that nothing closes.                                                    *)

Piece(t, k) == [text |-> t, next |-> k]
Of(s, k) == IF k \in DOMAIN s THEN s[k] ELSE "end"
FirstOf(s, k, set) ==
  LET f[j \in 1..Len(s) + 1] == IF j > Len(s) \/ Of(s, j) \in set THEN j ELSE f[j + 1] IN f[k]

SingleQuoted(s, k) ==
  LET j == FirstOf(s, k + 1, {"'"})
  IN IF j > Len(s) THEN Piece(<< >>, 0) ELSE Piece(SubSeq(s, k + 1, j - 1), j + 1)

DoubleQuoted(s, k) ==
  LET f[j \in 1..Len(s) + 1] ==
        CASE Of(s, j) = "end" -> Piece(<< >>, 0)
          [] Of(s, j) = "\"" -> Piece(<< >>, j + 1)
          [] Of(s, j) = "\\" ->
               IF j = Len(s) THEN Piece(<< >>, 0) ELSE Piece(<<s[j + 1]>> \o f[j + 2].text, f[j + 2].next)
          [] OTHER -> Piece(<<s[j]>> \o f[j + 1].text, f[j + 1].next)
  IN f[k + 1]

Escape(s, k) == IF k = Len(s) THEN Piece(<<"\\">>, k + 1) ELSE Piece(<<s[k + 1]>>, k + 2)

Bare(s, k) ==
  LET j == FirstOf(s, k, {" ", "\t", "\r", "\n", "\\", "'", "\""}) IN Piece(SubSeq(s, k, j - 1), j)

NextPiece(s, k) ==
  CASE s[k] = "'" -> SingleQuoted(s, k)
    [] s[k] = "\"" -> DoubleQuoted(s, k)
    [] s[k] = "\\" -> Escape(s, k)
    [] OTHER -> Bare(s, k)

\* The words of s from k on, field being what there is of the first one: pieces up to a
\* space or the end are a word.
RECURSIVE SplitFrom(_, _, _, _)
SplitFrom(s, k, field, words) ==
  IF k > Len(s) THEN [ok |-> TRUE, words |-> words]
  ELSE IF IsShellSpace(s[k]) THEN SplitFrom(s, k + 1, field, words)
  ELSE LET p == NextPiece(s, k)
           longer == field \o p.text
       IN CASE p.next = 0 -> [ok |-> FALSE]
            [] p.next > Len(s) -> [ok |-> TRUE, words |-> Append(words, longer)]
            [] IsShellSpace(Of(s, p.next)) -> SplitFrom(s, p.next + 1, << >>, Append(words, longer))
            [] OTHER -> SplitFrom(s, p.next, longer, words)

ShellSplit(s) == SplitFrom(s, 1, << >>, << >>)

Init == request \in Requests /\ result = << >>

Next ==
  /\ result = << >> /\ UNCHANGED request
  /\ result' = IF request[1] = "shell_join" THEN <<ShellJoin(request[2])>> ELSE <<ShellSplit(request[2])>>

Spec == Init /\ [][Next]_vars

-----------------------------------------------------------------------------
(* Properties *)

\* What shell_join writes, shell_split reads back as the same words, the empty ones and
\* those with spaces, quotes, backslashes and newlines too.
JoinReadsBack ==
  result # << >> /\ request[1] = "shell_join" =>
    ShellSplit(result[1]) = [ok |-> TRUE, words |-> request[2]]

\* A shell that reads a character at a time.  open: a word has begun.
Machine(s) ==
  LET Take(st, c) == [st EXCEPT !.field = Append(@, c), !.open = TRUE]
      Step(st, c) ==
        CASE st.in = "escape" -> [Take(st, c) EXCEPT !.in = "out"]
          [] st.in = "escape in quotes" -> [Take(st, c) EXCEPT !.in = "\""]
          [] st.in = "'" -> IF c = "'" THEN [st EXCEPT !.in = "out"] ELSE Take(st, c)
          [] st.in = "\"" -> IF c = "\"" THEN [st EXCEPT !.in = "out"]
                             ELSE IF c = "\\" THEN [st EXCEPT !.in = "escape in quotes"] ELSE Take(st, c)
          [] IsShellSpace(c) ->
               IF st.open THEN [st EXCEPT !.words = Append(@, st.field), !.field = << >>, !.open = FALSE] ELSE st
          [] c \in {"'", "\""} -> [st EXCEPT !.in = c, !.open = TRUE]
          [] c = "\\" -> [st EXCEPT !.in = "escape", !.open = TRUE]
          [] OTHER -> Take(st, c)
  IN FoldLeft(Step, [in |-> "out", open |-> FALSE, field |-> << >>, words |-> << >>], s)

\* shell_split takes a line apart as the shell does that reads it a character at a time,
\* and refuses one if and only if that ends within quotes.
SplitAgrees ==
  result # << >> /\ request[1] = "shell_split" =>
    LET end == Machine(request[2])
        last == IF end.in = "escape" THEN Append(end.field, "\\") ELSE end.field
    IN result[1] =
         IF end.in \notin {"out", "escape"} THEN [ok |-> FALSE]
         ELSE [ok |-> TRUE, words |-> IF end.open THEN Append(end.words, last) ELSE end.words]
=============================================================================
