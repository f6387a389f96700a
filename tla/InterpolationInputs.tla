------------------------ MODULE InterpolationInputs -------------------------
(* The strings TextMC interpolates. *)
EXTENDS Integers, Sequences

UpTo(n, S) == UNION {[1..m -> S] : m \in 0..n}
Behind(start, n, S, end) == {start \o s \o end : s \in UpTo(n, S)}
Quote == <<"\"">>

\* Escapes and dollars; braces and quotes in an expression; names; code points.
Escaped == Behind(<< >>, 5, {"a", "\\", "$", "{", "}", "n"}, Quote)
Nested == Behind(<<"a", "$", "{">>, 5, {"a", "'", "\"", "{", "}", "$"}, <<"}", "\"">>)
Named == Behind(<<"$">>, 4, {"$", "{", "}", "a", "A", "0", ":", "(", " "}, Quote)
Points == Behind(<<"\\", "u">>, 4, {"0", "a", "n", "{", "}", "$"}, Quote)
AllSources == Escaped \cup Nested \cup Named \cup Points
=============================================================================
