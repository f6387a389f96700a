-------------------------- MODULE ClassInclusionMC --------------------------
(* An instance of ClassInclusion: every program of a few classes and lists. *)
EXTENDS ClassInclusion, TLC

CONSTANTS ca, cb, cc, nx

Lists(names, max) == UNION {[1..n -> names] : n \in 0..max}

\* Every program of three classes with lists of at most one name.
Chains ==
  [main : Lists(ClassName, 1), body : [Class -> Lists(ClassName, 1)],
   parent : [Class -> ClassName \cup {None}]]

\* Every program of two classes with lists of at most two names.
Forks ==
  {[main |-> m, body |-> (ca :> s @@ cb :> t @@ cc :> << >>), parent |-> (ca :> p @@ cb :> q @@ cc :> None)] :
     m, s, t \in Lists({ca, cb, nx}, 2), p, q \in {ca, cb, nx, None}}

\* Programs of three classes, all defined, two of them with lists of two names.
Webs ==
  {w \in [main : {<<ca>>}, body : [Class -> Lists(Class, 2)], parent : [Class -> Class \cup {None}]] :
     Len(w.body[cc]) < 2}

Programs == Chains \cup Forks \cup Webs
NoTypes == << >>
=============================================================================
