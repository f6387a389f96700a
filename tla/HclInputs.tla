----------------------------- MODULE HclInputs ------------------------------
(* The HCL2 documents TextMC has translated. Words: 1 and 2 are the roots of *)
(* traversals, 3 to 6 names.                                                 *)
EXTENDS Integers, Sequences

N(op, kids) == [op |-> op, w |-> 0, kids |-> kids]
W(op, w) == [op |-> op, w |-> w, kids |-> << >>]

Local == 1
Resource == 2
Attr(e, name) == N("attr", <<e, W("name", name)>>)
LocalX == Attr(W("var", Local), 3)
Ref == Attr(Attr(W("var", Resource), 4), 5)

\* A value of every kind, and those that are refused.
Plain == {W("INT", 6), W("true", 6), W("SQSTRING", 6), W("DQSTRING", 6), LocalX, Ref}
Refused == {W("var", 3), Attr(W("var", 3), 3), Attr(W("var", Resource), 4), N("call", << >>)}
Few == {W("INT", 6), LocalX, Ref}
Pairs(s) == s \X s

Over(s, ops, t) ==
  {N("binary", <<N(o, << >>), p[1], p[2]>>) : o \in ops, p \in s \X t}
    \cup {N("unary", <<N(o, << >>), e>>) : o \in {"-", "!"}, e \in s}
    \cup {N("index", <<p[1], p[2]>>) : p \in s \X t}
    \cup {N("index", <<Attr(W("var", Resource), 4), e>>) : e \in s}
    \cup {N("tuple", << >>), N("object", << >>)}
    \cup {N("tuple", <<p[1], p[2]>>) : p \in s \X t} \cup {N("object", <<p[1], p[2]>>) : p \in s \X t}

All == {"&&", "||", "==", "!=", "<", ">", "<=", ">=", "+", "-", "*", "/", "%"}
Some == {"&&", "||", "==", "<", "+", "-", "*"}
One == Over(Plain \cup Refused, All, Plain)
Two == Over(Over(Few, Some, {LocalX}), Some, {W("INT", 6)}) \cup Over({W("INT", 6)}, Some, Over(Few, Some, {LocalX}))
Values == Plain \cup Refused \cup One \cup Two

A(name, e) == [name |-> name, e |-> e]
Block(type, labels, attrs, nested) == [type |-> type, labels |-> labels, attrs |-> attrs, nested |-> nested]
Doc(attrs, blocks) == [attrs |-> attrs, blocks |-> blocks]
File(attrs) == Block("resource", <<4, 5>>, attrs, FALSE)

\* Each value as an attribute of a resource and behind an =, and documents of several parts.
AllDocuments ==
  {Doc(<< >>, <<File(<<A(6, e)>>)>>) : e \in Values} \cup {Doc(<<A(3, e)>>, << >>) : e \in Values}
    \cup {Doc(as, bs) :
            as \in {<< >>, <<A(3, LocalX), A(6, Ref)>>},
            bs \in UNION {[1..n -> {File(<< >>), File(<<A(3, Ref), A(6, LocalX)>>),
                                    Block("locals", << >>, <<A(3, Ref), A(5, LocalX)>>, FALSE),
                                    Block("locals", << >>, << >>, TRUE), Block("locals", <<4>>, << >>, FALSE),
                                    Block("resource", <<4>>, << >>, FALSE),
                                    Block("resource", <<4, 5>>, << >>, TRUE),
                                    Block("class", <<4>>, << >>, FALSE)}] : n \in 0..2}}
=============================================================================
