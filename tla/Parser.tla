------------------------------- MODULE Parser -------------------------------
(***************************************************************************)
(* The recursive-descent parser: parser.go, primary.go and decl.go.  A     *)
(* text is a sequence of tokens, the parser a set of operators from a      *)
(* token's position to a node and the position behind it, or to the        *)
(* position of the token an error names.  One operator stands for one      *)
(* function of the parser, one node for one struct of ast.go; a word's     *)
(* text is a number, literals are told apart by their kind only, and       *)
(* positions in nodes are left out.                                        *)
(*                                                                         *)
(* The behaviours type a text token by token, each prefix parsed anew, and *)
(* print what was accepted from its tree to parse it once more.            *)
(***************************************************************************)
EXTENDS Naturals, Sequences, FiniteSets

CONSTANTS
  Kits   \* what is typed: [start, may, max, late], the first tokens, those that may follow
         \* as <<kind, spaced>> and, two bounds, how many there are at most and how many
         \* are still typed behind an error

VARIABLES
  kit,      \* one of the Kits
  toks,     \* the tokens, each a [kind, w, spaced]
  phase,    \* "typed", "parsed", "printed" or "reparsed"
  result,   \* what the parser said last
  tree      \* what it said of the text before it was printed

vars == <<kit, toks, phase, result, tree>>

\* The word a token of kind "apply" stands for: the NAME whose calls take a block.
Apply == 999

-----------------------------------------------------------------------------
(* Nodes, and what parsing returns *)

\* A leaf has a word, a node of another kind its parts in the order of the text.
Node(op, kids) == [op |-> op, w |-> 0, kids |-> kids]
Word(op, w) == [op |-> op, w |-> w, kids |-> << >>]
List(s) == Node("list", s)
None == Node("none", << >>)

Got(n, i) == [ok |-> TRUE, node |-> n, i |-> i]
Fail(i) == [ok |-> FALSE, node |-> None, i |-> i]
Then(r, F(_, _)) == IF r.ok THEN F(r.node, r.i) ELSE r
As(r, F(_)) == IF r.ok THEN Got(F(r.node), r.i) ELSE r

\* The cursor stays on the end of the text.
Kind(i) == IF i <= Len(toks) THEN toks[i].kind ELSE "EOF"
WordAt(i) == Word(toks[i].kind, toks[i].w)
Closed(r, k) == Then(r, LAMBDA n, i : IF Kind(i) = k THEN Got(n, i + 1) ELSE Fail(i))

Literal == {"INT", "FLOAT", "SQSTRING", "DQSTRING", "HEREDOC", "REGEXP", "true", "false",
            "undef", "default"}
StartsArgument == Literal \cup {"NAME", "TYPE", "VARIABLE", "[", "(", "-", "!"}

\* The left-associative operators, from those that bind least.
Tiers == << {"or"}, {"and"}, {"==", "!="}, {"<", ">", "<=", ">="}, {"<<"}, {"+", "-"},
            {"*", "/", "%"}, {"=~", "!~"}, {"in"} >>

RECURSIVE Expr(_), Primary(_), Items(_, _, _), Statements(_, _, _)

-----------------------------------------------------------------------------
(* Blocks, parameters, types *)

Block(i) == IF Kind(i) = "{" THEN Closed(Statements(i + 1, "}", << >>), "}") ELSE Fail(i)

Access(n, i) ==
  Then(Items(i + 1, "]", << >>),
       LAMBDA keys, j : IF keys.kids = << >> \/ Kind(j) # "]" THEN Fail(j)
                        ELSE Got(Node("access", <<n, keys>>), j + 1))

Array(i) == As(Closed(Items(i + 1, "]", << >>), "]"), LAMBDA n : Node("array", <<n>>))

\* A data type takes every [ that follows, and never a {.
RECURSIVE Parameterized(_, _)
Parameterized(n, i) ==
  IF Kind(i) = "[" THEN Then(Access(n, i), LAMBDA m, j : Parameterized(m, j)) ELSE Got(n, i)
DataType(i) == Then(Primary(i), LAMBDA n, j : Parameterized(n, j))

Param(i) ==
  LET rest == IF Kind(i) = "*" THEN "rest" ELSE "param"
      j == IF Kind(i) = "*" THEN i + 1 ELSE i
  IN Then(IF Kind(j) = "TYPE" THEN DataType(j) ELSE Got(None, j),
       LAMBDA type, k :
         IF Kind(k) # "VARIABLE" THEN Fail(k)
         ELSE As(IF Kind(k + 1) = "=" THEN Expr(k + 2) ELSE Got(None, k + 1),
                 LAMBDA dflt : Node(rest, <<type, WordAt(k), dflt>>)))

RECURSIVE Params(_, _, _)
Params(i, end, done) ==
  IF Kind(i) \in {end, "EOF"} THEN Got(List(done), i)
  ELSE Then(Param(i), LAMBDA p, j : IF Kind(j) = "," THEN Params(j + 1, end, Append(done, p))
                                    ELSE Got(List(Append(done, p)), j))

ParenParams(i) ==
  IF Kind(i) = "(" THEN Closed(Params(i + 1, ")", << >>), ")") ELSE Got(List(<< >>), i)

MaybeLambda(i) ==
  IF Kind(i) # "|" THEN Got(None, i)
  ELSE Then(Closed(Params(i + 1, "|", << >>), "|"),
            LAMBDA ps, j : As(Block(j), LAMBDA b : Node("lambda", <<ps, b>>)))

\* The block of apply needs no parameters.
CallLambda(i, functor) ==
  IF Kind(i) = "{" /\ functor = Word("NAME", Apply)
  THEN As(Block(i), LAMBDA b : Node("lambda", <<List(<< >>), b>>)) ELSE MaybeLambda(i)

-----------------------------------------------------------------------------
(* Resources *)

\* Attribute operations up to a ; or a }.
RECURSIVE AttributeOps(_, _)
AttributeOps(i, done) ==
  LET splat == Kind(i) = "*"
      Named(v) == IF splat THEN Node("splat", <<v>>) ELSE Node(Kind(i + 1), <<WordAt(i), v>>)
  IN IF Kind(i) \in {"}", ";"} THEN Got(List(done), i)
     ELSE IF Kind(i) \notin {"*", "NAME"} THEN Fail(i)
     ELSE IF Kind(i + 1) \notin (IF splat THEN {"=>"} ELSE {"=>", "+>"}) THEN Fail(i + 1)
     ELSE Then(Expr(i + 2),
               LAMBDA v, j : IF Kind(j) = "," THEN AttributeOps(j + 1, Append(done, Named(v)))
                             ELSE Got(List(Append(done, Named(v))), j))

RECURSIVE Bodies(_, _)
Bodies(i, done) ==
  IF Kind(i) = "}" THEN Got(List(done), i)
  ELSE Then(Expr(i), LAMBDA title, j :
         IF Kind(j) # ":" THEN Fail(j)
         ELSE Then(AttributeOps(j + 1, << >>), LAMBDA ops, k :
                LET all == Append(done, Node("body", <<title, ops>>))
                IN IF Kind(k) = ";" THEN Bodies(k + 1, all) ELSE Got(List(all), k)))

\* i is the {.
ResourceDecl(type, i, form) ==
  As(Closed(Bodies(i + 1, << >>), "}"), LAMBDA bs : Node(form, <<type, bs>>))
ResourceOps(op, n, i) ==
  As(Closed(AttributeOps(i + 1, << >>), "}"), LAMBDA ops : Node(op, <<n, ops>>))

ResourceLike(n) ==
  n.op \in {"NAME", "TYPE"} \/ (IF n.op = "access" THEN n.kids[1].op = "TYPE" ELSE FALSE)
TryResourceLike(n, i) ==
  CASE n.op = "NAME" -> ResourceDecl(n, i, "resource")
    [] n.op = "TYPE" -> ResourceOps("defaults", n, i)
    [] n.op = "access" -> ResourceOps("override", n, i)

VirtualResource(i) ==
  IF Kind(i + 1) # "NAME" THEN Fail(i + 1)
  ELSE IF Kind(i + 2) # "{" THEN Fail(i + 2)
  ELSE ResourceDecl(WordAt(i + 1), i + 2, Kind(i))

Collector(n, i) ==
  LET end == IF Kind(i) = "<<|" THEN "|>>" ELSE "|>"
  IN As(Closed(IF Kind(i + 1) = end THEN Got(None, i + 1) ELSE Expr(i + 1), end),
        LAMBDA q : Node(Kind(i), <<n, q>>))

-----------------------------------------------------------------------------
(* Conditionals and hashes *)

\* match => value pairs of a selector or a hash, up to the }.
RECURSIVE Entries(_, _)
Entries(i, done) ==
  IF Kind(i) = "}" THEN Got(List(done), i)
  ELSE Then(Expr(i), LAMBDA k, j :
         IF Kind(j) # "=>" THEN Fail(j)
         ELSE Then(Expr(j + 1), LAMBDA v, l :
                LET all == Append(done, Node("entry", <<k, v>>))
                IN IF Kind(l) = "," THEN Entries(l + 1, all) ELSE Got(List(all), l)))

Hash(i) == As(Closed(Entries(i + 1, << >>), "}"), LAMBDA es : Node("hash", <<es>>))

RECURSIVE If(_)
\* Mutant of Else: the elsif is read and dropped.
ElseDropping(i) ==
  CASE Kind(i) = "elsif" -> As(If(i), LAMBDA n : List(<< >>))
    [] Kind(i) = "else" -> Block(i + 1)
    [] OTHER -> Got(List(<< >>), i)

Else(i) ==
  CASE Kind(i) = "elsif" -> As(If(i), LAMBDA n : List(<<n>>))
    [] Kind(i) = "else" -> Block(i + 1)
    [] OTHER -> Got(List(<< >>), i)

If(i) ==
  Then(Expr(i + 1), LAMBDA cond, j : Then(Block(j), LAMBDA then, k :
    As(Else(k), LAMBDA els : Node("if", <<cond, then, els>>))))

Unless(i) ==
  Then(Expr(i + 1), LAMBDA cond, j : Then(Block(j), LAMBDA then, k :
    As(IF Kind(k) = "else" THEN Block(k + 1) ELSE Got(List(<< >>), k),
       LAMBDA els : Node("unless", <<cond, then, els>>))))

RECURSIVE Options(_, _)
Options(i, done) ==
  IF Kind(i) \in {"}", "EOF"} THEN Got(List(done), i)
  ELSE Then(Items(i, ":", << >>), LAMBDA values, j :
         IF values.kids = << >> \/ Kind(j) # ":" THEN Fail(j)
         ELSE Then(Block(j + 1), LAMBDA b, k :
                Options(k, Append(done, Node("option", <<values, b>>)))))

Case(i) ==
  Then(Expr(i + 1), LAMBDA test, j :
    IF Kind(j) # "{" THEN Fail(j)
    ELSE As(Closed(Options(j + 1, << >>), "}"), LAMBDA os : Node("case", <<test, os>>)))

-----------------------------------------------------------------------------
(* Expressions *)

Primary(i) ==
  CASE Kind(i) \in Literal \cup {"NAME", "TYPE", "VARIABLE"} -> Got(WordAt(i), i + 1)
    [] Kind(i) = "(" -> Closed(Expr(i + 1), ")")
    [] Kind(i) = "[" -> Array(i)
    [] Kind(i) = "{" -> Hash(i)
    [] Kind(i) = "if" -> If(i)
    [] Kind(i) = "unless" -> Unless(i)
    [] Kind(i) = "case" -> Case(i)
    [] Kind(i) \in {"@", "@@"} -> VirtualResource(i)
    [] OTHER -> Fail(i)

MethodCall(n, i) ==
  IF Kind(i + 1) \notin {"NAME", "TYPE"} THEN Fail(i + 1)
  ELSE Then(IF Kind(i + 2) = "(" THEN Closed(Items(i + 3, ")", << >>), ")")
            ELSE Got(List(<< >>), i + 2),
            LAMBDA args, j : As(MaybeLambda(j),
              LAMBDA l : Node("method", <<n, WordAt(i + 1), args, l>>)))

Call(n, i) ==
  IF n.op \notin {"NAME", "TYPE"} THEN Fail(i)
  ELSE Then(Closed(Items(i + 1, ")", << >>), ")"), LAMBDA args, j :
         As(CallLambda(j, n), LAMBDA l : Node("call", <<n, args, l>>)))

\* A [ after a space begins something new, unless a type stands before it.
Indexes(n, i) == Kind(i) = "[" /\ (IF toks[i].spaced THEN n.op = "TYPE" ELSE TRUE)

RECURSIVE Postfix(_, _)
Postfix(n, i) ==
  LET More(r) == Then(r, LAMBDA m, j : Postfix(m, j))
  IN CASE Indexes(n, i) -> More(Access(n, i))
       [] Kind(i) = "." -> More(MethodCall(n, i))
       [] Kind(i) = "(" -> More(Call(n, i))
       [] Kind(i) = "{" /\ ResourceLike(n) -> More(TryResourceLike(n, i))
       [] Kind(i) \in {"<|", "<<|"} /\ n.op = "TYPE" -> More(Collector(n, i))
       [] OTHER -> Got(n, i)

RECURSIVE Unary(_)
Unary(i) ==
  IF Kind(i) \in {"-", "!", "*"} THEN As(Unary(i + 1), LAMBDA n : Node(Kind(i), <<n>>))
  ELSE Then(Primary(i), LAMBDA n, j : Postfix(n, j))

RECURSIVE Tier(_, _), TierRest(_, _, _)
\* Mutant of BinaryTier: the right operand takes the rest of the tier.
BinaryTierRight(left, i, t) ==
  IF Kind(i) \notin Tiers[t] THEN Got(left, i)
  ELSE Then(Tier(i + 1, t), LAMBDA right, j : Got(Node(Kind(i), <<left, right>>), j))

BinaryTier(left, i, t) ==
  IF Kind(i) \notin Tiers[t] THEN Got(left, i)
  ELSE Then(Tier(i + 1, t + 1), LAMBDA right, j : TierRest(Node(Kind(i), <<left, right>>), j, t))
TierRest(left, i, t) == BinaryTier(left, i, t)
Tier(i, t) ==
  IF t > Len(Tiers) THEN Unary(i) ELSE Then(Tier(i, t + 1), LAMBDA n, j : TierRest(n, j, t))

Selector(i) ==
  Then(Tier(i, 1), LAMBDA n, j :
    IF Kind(j) # "?" THEN Got(n, j)
    ELSE IF Kind(j + 1) # "{" THEN Fail(j + 1)
    ELSE As(Closed(Entries(j + 2, << >>), "}"), LAMBDA es : Node("?", <<n, es>>)))

RECURSIVE Assignment(_), Chain(_, _)
Assignment(i) ==
  Then(Selector(i), LAMBDA n, j :
    IF Kind(j) \notin {"=", "+=", "-="} THEN Got(n, j)
    ELSE As(Assignment(j + 1), LAMBDA v : Node(Kind(j), <<n, v>>)))

Chain(left, i) ==
  IF Kind(i) \notin {"->", "~>", "<-", "<~"} THEN Got(left, i)
  ELSE Then(Assignment(i + 1), LAMBDA right, j : Chain(Node(Kind(i), <<left, right>>), j))
Expr(i) == Then(Assignment(i), LAMBDA n, j : Chain(n, j))

\* Expressions separated by commas, also a trailing one, up to end.
Items(i, end, done) ==
  IF Kind(i) \in {end, "EOF"} THEN Got(List(done), i)
  ELSE Then(Expr(i), LAMBDA n, j : IF Kind(j) = "," THEN Items(j + 1, end, Append(done, n))
                                   ELSE Got(List(Append(done, n)), j))

-----------------------------------------------------------------------------
(* Statements *)

\* define and plan; a class has a parent, a function a type in between.
Signature(i, Between(_)) ==
  IF Kind(i + 1) # "NAME" THEN Fail(i + 1)
  ELSE Then(ParenParams(i + 2), LAMBDA ps, j : Then(Between(j), LAMBDA b, k :
         As(Block(k), LAMBDA body : Node(Kind(i), <<WordAt(i + 1), ps, b, body>>))))

Parent(i) ==
  IF Kind(i) # "inherits" THEN Got(None, i)
  ELSE IF Kind(i + 1) = "NAME" THEN Got(WordAt(i + 1), i + 2) ELSE Fail(i + 1)
ReturnType(i) == IF Kind(i) = ">" /\ Kind(i + 1) = ">" THEN DataType(i + 2) ELSE Got(None, i)

Class(i) ==
  IF Kind(i + 1) = "{" THEN ResourceDecl(None, i + 1, "resource") ELSE Signature(i, Parent)

NodeDef(i) ==
  Then(Items(i + 1, "{", << >>), LAMBDA ms, j :
    IF ms.kids = << >> THEN Fail(j) ELSE As(Block(j), LAMBDA b : Node("node", <<ms, b>>)))

\* name arg, arg: a call without parentheses.
StatementCall(n, i) ==
  Then(Items(i, ";", << >>), LAMBDA args, j :
    As(MaybeLambda(j), LAMBDA l : Node("statement", <<n, args, l>>)))

Statement(i) ==
  CASE Kind(i) = "class" -> Class(i)
    [] Kind(i) \in {"define", "plan"} -> Signature(i, LAMBDA j : Got(None, j))
    [] Kind(i) = "function" -> Signature(i, ReturnType)
    [] Kind(i) = "node" -> NodeDef(i)
    [] OTHER -> Then(Expr(i), LAMBDA n, j :
         IF n.op = "NAME" /\ Kind(j) \in StartsArgument THEN StatementCall(n, j) ELSE Got(n, j))

Statements(i, end, done) ==
  IF Kind(i) = ";" THEN Statements(i + 1, end, done)
  ELSE IF Kind(i) \in {end, "EOF"} THEN Got(List(done), i)
  ELSE Then(Statement(i), LAMBDA n, j : Statements(j, end, Append(done, n)))

Parse == Statements(1, "EOF", << >>)

-----------------------------------------------------------------------------
(* The form the documentation of ast.go gives each node *)

\* How tightly the operator of a node with n operands binds on the "expression precedence
\* ladder". It is set down apart from Tiers, so that a tier in the wrong place shows.
Level(op, n) ==
  CASE op \in {"->", "~>", "<-", "<~"} -> 1
    [] op \in {"=", "+=", "-="} -> 2
    [] op = "?" -> 3
    [] op = "or" -> 4
    [] op = "and" -> 5
    [] op \in {"==", "!="} -> 6
    [] op \in {"<", ">", "<=", ">="} -> 7
    [] op = "<<" -> 8
    [] op \in {"+", "-"} /\ n = 2 -> 9
    [] op \in {"*", "/", "%"} /\ n = 2 -> 10
    [] op \in {"=~", "!~"} -> 11
    [] op = "in" -> 12
    [] op \in {"-", "!", "*"} /\ n = 1 -> 13
    [] OTHER -> 14

Tok(k) == [kind |-> k, w |-> 0, spaced |-> k # "["]
OpenArray == [kind |-> "[", w |-> 0, spaced |-> TRUE]

RECURSIVE Show(_, _), Join(_, _, _)
Join(ns, sep, level) ==
  IF ns = << >> THEN << >>
  ELSE Show(Head(ns), level) \o (IF Len(ns) = 1 THEN << >> ELSE sep) \o Join(Tail(ns), sep, level)

\* A node where operators of at least this level may stand.
Show(n, level) ==
  LET a == n.kids[1]
      b == n.kids[2]
      c == n.kids[3]
      Each(m, sep) == Join(m.kids, sep, 0)
      Braces(m) == <<Tok("{")>> \o Each(m, <<Tok(";")>>) \o <<Tok("}")>>
      Listed(o, m, e) == <<Tok(o)>> \o Each(m, <<Tok(",")>>) \o <<Tok(e)>>
      Args(m) == IF m.kids = << >> THEN << >> ELSE Listed("(", m, ")")
      \* A condition stands in parentheses and a node's names end with a comma, or the last
      \* word would take the brace.
      Grouped(m) == <<Tok("(")>> \o Show(m, 0) \o <<Tok(")")>>
      Tail2(m) == IF m.kids = << >> THEN << >> ELSE <<Tok("else")>> \o Braces(m)
      l == Level(n.op, Len(n.kids))
      own ==
        CASE n.op = "none" -> << >>
          [] n.w # 0 -> <<[kind |-> n.op, w |-> n.w, spaced |-> TRUE]>>
          [] l = 1 \/ l \in 4..12 -> Show(a, l) \o <<Tok(n.op)>> \o Show(b, l + 1)
          [] l = 2 -> Show(a, 3) \o <<Tok(n.op)>> \o Show(b, 2)
          [] l = 13 -> <<Tok(n.op)>> \o Show(a, 13)
          [] n.op = "?" -> Show(a, 4) \o <<Tok("?")>> \o Listed("{", b, "}")
          [] n.op = "entry" -> Show(a, 0) \o <<Tok("=>")>> \o Show(b, 0)
          [] n.op = "array" -> <<OpenArray>> \o Each(a, <<Tok(",")>>) \o <<Tok("]")>>
          [] n.op = "hash" -> Listed("{", a, "}")
          [] n.op = "access" -> Show(a, 14) \o Listed("[", b, "]")
          [] n.op = "call" -> Show(a, 14) \o Listed("(", b, ")") \o Show(c, 0)
          [] n.op = "statement" -> Show(a, 14) \o Each(b, <<Tok(",")>>) \o Show(c, 0)
          [] n.op = "method" -> Show(a, 14) \o <<Tok(".")>> \o Show(b, 0) \o Args(c) \o Show(n.kids[4], 0)
          [] n.op = "lambda" -> Listed("|", a, "|") \o Braces(b)
          [] n.op \in {"param", "rest"} ->
               (IF n.op = "rest" THEN <<Tok("*")>> ELSE << >>) \o Show(a, 0) \o Show(b, 0)
                 \o (IF c = None THEN << >> ELSE <<Tok("=")>> \o Show(c, 0))
          [] n.op \in {"if", "unless"} -> <<Tok(n.op)>> \o Grouped(a) \o Braces(b) \o Tail2(c)
          [] n.op = "case" -> <<Tok("case")>> \o Grouped(a) \o <<Tok("{")>> \o Each(b, << >>) \o <<Tok("}")>>
          [] n.op = "option" -> Each(a, <<Tok(",")>>) \o <<Tok(":")>> \o Braces(b)
          [] n.op = "resource" -> (IF a = None THEN <<Tok("class")>> ELSE Show(a, 14)) \o Braces(b)
          [] n.op \in {"@", "@@"} -> <<Tok(n.op)>> \o Show(a, 14) \o Braces(b)
          [] n.op = "body" -> Show(a, 0) \o <<Tok(":")>> \o Each(b, <<Tok(",")>>)
          [] n.op = "splat" -> <<Tok("*"), Tok("=>")>> \o Show(a, 0)
          [] n.op \in {"=>", "+>"} -> Show(a, 0) \o <<Tok(n.op)>> \o Show(b, 0)
          [] n.op \in {"defaults", "override"} -> Show(a, 14) \o Listed("{", b, "}")
          [] n.op \in {"<|", "<<|"} ->
               Show(a, 14) \o <<Tok(n.op)>> \o Show(b, 0) \o <<Tok(IF n.op = "<|" THEN "|>" ELSE "|>>")>>
          [] n.op = "node" -> <<Tok("node")>> \o Each(a, <<Tok(",")>>) \o <<Tok(",")>> \o Braces(b)
          [] n.op \in {"class", "define", "plan", "function"} ->
               <<Tok(n.op)>> \o Show(a, 0) \o Args(b)
                 \o (IF c = None THEN << >>
                      ELSE IF n.op = "class" THEN <<Tok("inherits")>> ELSE <<Tok(">"), Tok(">")>>)
                 \o Show(c, 0) \o Braces(n.kids[4])
  IN IF l < level THEN <<Tok("(")>> \o own \o <<Tok(")")>> ELSE own

Documented(n) == Join(n.kids, <<Tok(";")>>, 0)

-----------------------------------------------------------------------------
(* Texts, typed, parsed, printed and parsed again *)

NewToken(t, n) ==
  IF t[1] = "apply" THEN [kind |-> "NAME", w |-> Apply, spaced |-> t[2]]
  ELSE [kind |-> t[1], w |-> n, spaced |-> t[2]]

Init ==
  /\ kit \in Kits /\ toks = [n \in DOMAIN kit.start |-> NewToken(kit.start[n], n)]
  /\ phase = "typed" /\ result = Fail(Len(toks)) /\ tree = None

Type ==
  /\ phase = "parsed" /\ Len(toks) < kit.max
  /\ (IF result.ok THEN TRUE ELSE result.i + kit.late >= Len(toks))
  /\ \E t \in kit.may : toks' = Append(toks, NewToken(t, Len(toks) + 1))
  /\ phase' = "typed" /\ UNCHANGED <<kit, result, tree>>

Read ==
  /\ phase \in {"typed", "printed"} /\ result' = Parse
  /\ phase' = (IF phase = "typed" THEN "parsed" ELSE "reparsed") /\ UNCHANGED <<kit, toks, tree>>

Reprint ==
  /\ phase = "parsed" /\ result.ok
  /\ toks' = Documented(result.node) /\ tree' = result.node
  /\ phase' = "printed" /\ UNCHANGED <<kit, result>>

Next == Read \/ Reprint \/ Type

Spec == Init /\ [][Next]_vars

-----------------------------------------------------------------------------
(* Properties *)

\* An accepted text, written from its tree in the forms ast.go documents with the fewest
\* parentheses the precedences ask for, is accepted and has the same tree: operators bind
\* and associate as the ladder says, and no construct is taken for another.
TreeStable == phase = "reparsed" => result.ok /\ result.node = tree

\* An accepted text's tree holds every word of the text once and in order.
RECURSIVE Fringe(_), FringeOf(_)
FringeOf(ns) == IF ns = << >> THEN << >> ELSE Fringe(Head(ns)) \o FringeOf(Tail(ns))
Fringe(n) == IF n.w # 0 THEN <<n.w>> ELSE FringeOf(n.kids)
WordsOf(s) ==
  LET words == SelectSeq(s, LAMBDA t : t.kind \in Literal \cup {"NAME", "TYPE", "VARIABLE"})
  IN [j \in DOMAIN words |-> words[j].w]
WordsKept == phase = "parsed" /\ result.ok => Fringe(result.node) = WordsOf(toks)

=============================================================================
