---------------------------- MODULE ParserInputs ----------------------------
(* What TextMC has the Parser read. *)
EXTENDS Integers

T(kinds) == {<<k, TRUE>> : k \in kinds}
S(kinds) == [n \in DOMAIN kinds |-> <<kinds[n], TRUE>>]
Kit(start, may, max) == [start |-> S(start), may |-> may, max |-> max, late |-> 0]
OnAndOn(k) == [k EXCEPT !.late = 1]
Index == <<"[", FALSE>>

\* An operator of each tier, what groups them, and two of one tier in a chain.
Ladder == Kit(<< >>, T({"VARIABLE", "(", ")", "-", "!", "->", "=", "?", "or", "and", "==", "<",
                        "<<", "+", "*", "=~", "in"}), 5)
Groups == Kit(<<"VARIABLE", "-">>, T({"VARIABLE", "(", ")", "-", "<<", "=", "->"}), 9)
Choices == Kit(<<"VARIABLE", "?", "{">>, T({"VARIABLE", "default", "=>", ",", "{", "}", "?"}), 10)

\* Calls of every form.
Calls == Kit(<< >>, {Index} \cup T({"NAME", "VARIABLE", "[", "]", ".", "(", ")", ","}), 6)
Blocks == Kit(<<"VARIABLE", ".", "NAME">>, T({"|", "{", "}", "VARIABLE", "TYPE", ",", "*", "="}), 9)
Says == Kit(<<"NAME", "VARIABLE">>, T({"|", "{", "}", "VARIABLE", ",", ".", "NAME", "["}), 8)
Applies == OnAndOn(Kit(<<"apply">>, T({"apply", "NAME", "(", ")", "{", "}", "|"}), 6))

\* Statements with blocks.
Ifs == Kit(<<"if", "VARIABLE", "{", "}">>, T({"if", "elsif", "else", "VARIABLE", "{", "}"}), 10)
Unlesses == Kit(<< >>, T({"unless", "else", "VARIABLE", "{", "}", ";"}), 7)
Cases == Kit(<<"case", "VARIABLE", "{">>, T({"VARIABLE", "INT", "default", ",", ":", "{", "}"}), 10)

\* Resources of every form.
Declared == Kit(<<"NAME", "{">>, T({"SQSTRING", ":", "NAME", "=>", "+>", "*", ",", ";", "}"}), 9)
Referred == Kit(<<"TYPE">>, T({"NAME", "[", "]", "{", "}", "=>", "<|", "|>", "->"}), 7)
Overridden == Kit(<<"TYPE", "[", "NAME", "]", "{">>, T({"NAME", "=>", ",", "[", "]", "}"}), 12)
Virtual == OnAndOn(Kit(<<"@@">>, T({"@", "@@", "NAME", "{", "SQSTRING", ":", "}"}), 7))
Whole == Kit(<<"class">>, T({"{", "SQSTRING", ":", "}", ";", "NAME", "=>"}), 8)

\* Definitions of every form.
Classes == Kit(<<"class", "NAME">>, T({"NAME", "(", ")", "VARIABLE", "inherits", "{", "}"}), 8)
Parameters == Kit(<<"define", "NAME", "(">>, T({"TYPE", "VARIABLE", "=", "*", ",", "[", "]", ")", "{", "}"}), 9)
Defined == Kit(<< >>, T({"plan", "node", "NAME", "default", "REGEXP", ",", "{", "}"}), 6)
Functions == OnAndOn(Kit(<<"function", "NAME">>, T({"(", ")", ">", "TYPE", "[", "]", "{", "}"}), 8))

AllKits == {Ladder, Groups, Choices, Calls, Blocks, Says, Applies, Ifs, Unlesses, Cases, Declared, Referred,
            Overridden, Virtual, Whole, Classes, Parameters, Defined, Functions}
=============================================================================
