----------------------------- MODULE HclMapping -----------------------------
(***************************************************************************)
(* How an HCL2 document becomes a program of the Puppet language (Parse,   *)
(* convertBlock and mapExpr of hcl/hcl.go), which is then written in that  *)
(* language and read by its own parser.                                    *)
(*                                                                         *)
(* A document, the tree the HCL2 library makes, has attributes [name, e],  *)
(* and blocks [type, labels, attrs, nested]. An expression is a node of    *)
(* Parser's form: a literal is a word; the others are called by the names  *)
(* of the library's types. What is in a template is HclTemplate's matter;  *)
(* here it is one word.                                                    *)
(***************************************************************************)
EXTENDS Parser

CONSTANTS
  Documents,
  Local, Resource   \* the words that are the roots of traversals

VARIABLES
  doc,   \* one of the Documents
  body   \* the program so far: a list of nodes

hclVars == <<doc, body, kit, toks, phase, result, tree>>

Pass(n) == Got(n, 0)
Unsupported == Fail(0)

-----------------------------------------------------------------------------
(* Expressions *)

MapBinOp(op) == CASE op = "&&" -> "and" [] op = "||" -> "or" [] OTHER -> op

\* The type of a reference begins with a capital.
ResourceRef(type, key) == Node("access", <<Word("TYPE", type), List(<<key>>)>>)

Rooted(e, root) == IF e.op = "var" THEN e.w = root ELSE FALSE
\* resource.TYPE, from which TITLE or an index is to be taken.
OfResource(e) == IF e.op = "attr" THEN Rooted(e.kids[1], Resource) ELSE FALSE

MapAttr(e) ==
  LET obj == e.kids[1]
      name == e.kids[2].w
  IN IF Rooted(obj, Local) THEN Pass(Word("VARIABLE", name))
     ELSE IF OfResource(obj) THEN Pass(ResourceRef(obj.kids[2].w, Word("SQSTRING", name)))
     ELSE Unsupported

RECURSIVE MapExpr(_), MapExprs(_)
MapIndex(e) ==
  LET coll == e.kids[1]
  IN IF OfResource(coll) THEN As(MapExpr(e.kids[2]), LAMBDA idx : ResourceRef(coll.kids[2].w, idx))
     ELSE As(MapExprs(e.kids), LAMBDA both : Node("access", <<both.kids[1], List(<<both.kids[2]>>)>>))

MapExpr(e) ==
  CASE e.op \in {"INT", "FLOAT", "true", "false", "undef", "SQSTRING", "DQSTRING"} -> Pass(e)
    [] e.op = "attr" -> MapAttr(e)
    [] e.op = "index" -> MapIndex(e)
    [] e.op = "unary" -> As(MapExpr(e.kids[2]), LAMBDA n : Node(e.kids[1].op, <<n>>))
    [] e.op = "binary" ->
         As(MapExprs(<<e.kids[2], e.kids[3]>>), LAMBDA both : Node(MapBinOp(e.kids[1].op), both.kids))
    [] e.op = "tuple" -> As(MapExprs(e.kids), LAMBDA els : Node("array", <<els>>))
    [] e.op = "object" ->
         As(MapExprs(e.kids), LAMBDA kvs :
           Node("hash", <<List([n \in 1..(Len(kvs.kids) \div 2) |->
                                 Node("entry", <<kvs.kids[2 * n - 1], kvs.kids[2 * n]>>)])>>))
    [] OTHER -> Unsupported

MapExprs(es) ==
  IF es = << >> THEN Pass(List(<< >>))
  ELSE Then(MapExpr(Head(es)), LAMBDA n, i :
         As(MapExprs(Tail(es)), LAMBDA rest : List(<<n>> \o rest.kids)))

-----------------------------------------------------------------------------
(* Blocks *)

\* One node made of each attribute's name and value.
Attributes(attrs, Made(_, _)) ==
  As(MapExprs([n \in DOMAIN attrs |-> attrs[n].e]),
     LAMBDA vs : List([n \in DOMAIN attrs |-> Made(attrs[n].name, vs.kids[n])]))

AttrAssignment(name, v) == Node("=", <<Word("VARIABLE", name), v>>)

ConvertLocals(b) ==
  IF b.labels # << >> \/ b.nested THEN Unsupported ELSE Attributes(b.attrs, AttrAssignment)

\* Mutant of ConvertResource: the type begins with a capital, as in a reference.
ConvertResourceCapital(b) ==
  IF Len(b.labels) # 2 \/ b.nested THEN Unsupported
  ELSE As(Attributes(b.attrs, LAMBDA name, v : Node("=>", <<Word("NAME", name), v>>)),
          LAMBDA ops : List(<<Node("resource", <<Word("TYPE", b.labels[1]),
                         List(<<Node("body", <<Word("SQSTRING", b.labels[2]), ops>>)>>)>>)>>))

ConvertResource(b) ==
  IF Len(b.labels) # 2 \/ b.nested THEN Unsupported
  ELSE As(Attributes(b.attrs, LAMBDA name, v : Node("=>", <<Word("NAME", name), v>>)),
          LAMBDA ops : List(<<Node("resource", <<Word("NAME", b.labels[1]),
                         List(<<Node("body", <<Word("SQSTRING", b.labels[2]), ops>>)>>)>>)>>))

ConvertBlock(b) ==
  CASE b.type = "locals" -> ConvertLocals(b)
    [] b.type = "resource" -> ConvertResource(b)
    [] OTHER -> Unsupported

-----------------------------------------------------------------------------
(* The document, its attributes first, then block by block *)

HclInit ==
  /\ doc \in Documents /\ body = List(<< >>)
  /\ kit = << >> /\ toks = << >> /\ phase = "attributes" /\ result = Pass(None) /\ tree = None

Add(r, next) ==
  IF r.ok THEN body' = List(body.kids \o r.node.kids) /\ phase' = next
  ELSE phase' = "refused" /\ UNCHANGED body

RootAttributes ==
  /\ phase = "attributes" /\ Add(Attributes(doc.attrs, AttrAssignment), "blocks")
  /\ UNCHANGED <<doc, kit, toks, result, tree>>

Convert ==
  /\ phase = "blocks" /\ doc.blocks # << >>
  /\ Add(ConvertBlock(Head(doc.blocks)), "blocks")
  /\ doc' = [doc EXCEPT !.blocks = Tail(@)] /\ UNCHANGED <<kit, toks, result, tree>>

\* The program, written down as Puppet.
Translated ==
  /\ phase = "blocks" /\ doc.blocks = << >>
  /\ tree' = body /\ toks' = Documented(body) /\ phase' = "printed"
  /\ UNCHANGED <<doc, body, kit, result>>

ReadBack == Read /\ UNCHANGED <<doc, body>>

HclNext == RootAttributes \/ Convert \/ Translated \/ ReadBack

HclSpec == HclInit /\ [][HclNext]_hclVars

-----------------------------------------------------------------------------
(* Properties *)

\* What a document is translated to is a program the native parser makes of a text in the
\* Puppet language, node for node: "it produces the very same ast.Program the native Puppet
\* (.pp) parser produces" (hcl/doc.go).
SameProgram == phase = "reparsed" => result.ok /\ result.node = tree
=============================================================================
