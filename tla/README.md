# TLA+ models of go-puppet/puppet

go-puppet compiles Puppet manifests to catalogs in one process, without Ruby. This
directory holds models of its core, the TLC configurations that check them on small
instances, and proofs for every instance. Paths below are relative to `src/`.

    tlc -config Evaluator.cfg EvaluatorMC.tla             # check a run
    tlapm EvaluatorProofs.tla                             # check proofs

`PROJECT.json` lists the runs, the theorems, the source lines of every definition, and for
every property a plausible bug (an operator called "Mutant of ..." beside the original) that
makes TLC find it violated.

## Inventory

Text becomes tokens (`lexer/`), a tree (`parser/`, `ast/`; `hcl/` makes the same tree from
HCL), and the tree is evaluated (`eval/`) into a catalog (`catalog/`). Apart from the exported
store nothing is shared between compilations, and one compilation runs on one goroutine.

| Component | State | Operations | What is hard, what must hold |
|---|---|---|---|
| catalog, `catalog/catalog.go` | ordered resources, index, edges | Add, Get, AddEdge, JSON | index and order agree, nothing is recorded twice, everything is contained |
| statements, `eval/decl.go`, `resources.go`, `eval.go` | catalog, `included`, `curContainer`, definitions, logs | declarations, overrides, collectors, relationships, node matching | errors and jumps in the middle of anything; cycles of include, inherits and instantiation |
| calls and iterators, `eval/call.go`, `iterate.go` | the Go stack | dispatch, user functions, blocks, next/break/return | each jump is caught by the right call, and state is put back on every way out |
| exported resources, `eval/exported.go` | lists by type and by node, under a mutex | StoreExported, CollectExported, the import loop | concurrent compilations, shared pointers, recompiled nodes |
| plans, `eval/plan.go` | plan definitions | EvalPlan, task functions, apply blocks in an evaluator of their own | jumps, what the inner evaluator shares |
| EPP, `eval/epp.go`, `template.go` | stack of output buffers | compile to a program, render | text reaches the right buffer; tags and trims are scanned right |
| scopes, `eval/scope.go` | variables, captures, defaults, parent | set, lookup, snapshot, setDefaults | shadowing, captures of nested scopes, qualified names |
| expressions, `eval/expr.go`, `value.go`, `sensitive.go` | none | operators, access, case, matching | 64-bit integers, slices, captures |
| library functions, `eval/stdlib*.go`, `builtins.go` | the keys already warned about | more than 200 functions, nearly all pure | a few algorithms and bounds: range, shellwords, sampling |
| lexer, parser, `lexer/`, `parser/` | offset, line, resume offset, tokens | one pass each | heredocs, regexp against division, precedence |
| HCL, `hcl/` | none | translation of blocks | the two front ends give the same tree |
| printing, facade, facts, `ast/print.go`, `puppet.go`, `eval/facts.go` | none | | |

Components meet in three ways: by calls inside one evaluator (shared catalog, `included`,
`curContainer`, buffer stack); by error results, which also carry the jumps `next`, `break`
and `return` up the Go stack; and by the exported store, where the resources of one catalog
are held by pointer and read by other compilations.

`PROJECT.json` lists the hazards at their lines, with the property that would catch each one or
the reason there is none.

## Modules

| Module | Models | Role |
|---|---|---|
| `CatalogLog` | `catalog/catalog.go` | abstract specification of a catalog |
| `Evaluator` | `eval/`: statements, calls, jumps | core; implements `CatalogLog` |
| `ClassInclusion` | include and inherits of one manifest | composes `Evaluator`'s actions with a fixed manifest |
| `PlanApply` | `eval/plan.go` | two instances of `Evaluator`, one on top of the other; the plan's implements `Evaluator` |
| `ExportedStore` | `eval/exported.go` and its users | concurrent compilations |
| `ResourceAttributes` | `eval/decl.go`, `resources.go`, the declaring functions | parameter maps as references |
| `Scope` | `eval/scope.go` and what opens a scope | variables, captures, defaults |
| `Iteration` | `eval/iterate.go`, `sort`, `range`, `tree_each` | every outcome of a block |
| `Values`, `Expressions` | `eval/value.go`, `expr.go` | operators in their order of evaluation |
| `Numbers` | integers at their width | arithmetic, slices, the loop of `range` |
| `SeededRandom` | `eval/stdlib_random.go` | generator, uniform draws, shuffles |
| `Collections` | functions on arrays and hashes, `sensitive.go` | pure functions, each against the others |
| `Lexer` | `lexer/` | scanner, one round of a loop per step |
| `Parser` | `parser/`, nodes of `ast/` | one operator per production |
| `Interpolation` | `parser/interp.go` | strings taken apart |
| `EppTemplate` | `eval/epp.go`, from text to program | templates taken apart and quoted |
| `HclTemplate` | templates of `hcl/hcl.go` | the same for the other front end |
| `HclMapping` | `hcl/hcl.go`: documents, blocks, expressions | the nodes of `Parser`, made from HCL |
| `Scanf` | `eval/stdlib_scanf.go` | a loop over directives |
| `Shellwords` | `eval/stdlib_shellwords.go` | join and split |
| `*MC` | | instances for TLC; `LibraryMC` and `TextMC` each compose several modules |
| `*Inputs` | | the values, expressions, texts that the instances enumerate |
| `*Proofs` | | theorems about the module they are named after; `CompilationProofs` about `ClassInclusion` and `PlanApply`, `LibraryProofs` about `Scope`, `Numbers`, `SeededRandom` and `Iteration` |
| `RecursionLemmas` | | induction over the naturals, recursive functions exist; for the proofs |

### CatalogLog

A log of references (`order`, the ordered list), an index (`status`: the form of each
reference, or `Absent`) and `edges`. A step records one fresh reference together with its
containment edge, or realizes some references; any step may add edges. Parameters, tags and
the JSON text are left out. `Add` and the `AddEdge` that follows it are one step, because no
caller evaluates or returns between the two.

### Evaluator

The variable `stack` is the Go call stack: programs, plans, classes, instances of defined
types, user functions, iterators, blocks and templates in progress, with the phase each is
in. `signal` is the error result on its way up: an error, or a jump. `Unwind` pops one call;
it does what that call does on its way out (`Leave`) and asks whether the call catches the
jump (`Catches`). The other variables are the evaluator's fields of the same names.

The manifest is not fixed. Where the code evaluates statements or expressions, any statement
may come next, so the behaviours are the compilations of all manifests within the bounds. A
statement can also stand inside an expression (the code evaluates both by `eval`), and
therefore in parameter defaults and node matches.

| Action | Code |
|---|---|
| `EvalProgram`, `EvalPlan`, `ApplyMatchingNode` | `EvalProgram`, `EvalPlan`, `applyMatchingNode` |
| `DeclareResource`, `InstantiateDefine` | `declareResource`, `instantiateDefine` up to its parameters |
| `DeclareClass`, `DeclareParent`, `AddClass` | `declareClass`: until the parent, the recursive call, after it |
| `EvalRelationship`, `EvalResourceOverride`, `EvalCollector` | the methods of those names |
| `CallFunction`, `CallBlock` | `dispatch`, `Block.Call` |
| `Raise` | `fail`, `next`, `break`, `return`, and all that only errs |
| `EnterBody`, `Return`, `Unwind` | parameters bound; `evalBody` finished or failed |

Abstractions: values, variables and parameter contents are gone, so a condition is the choice
of the next statement; `Scope` and `ResourceAttributes` have them. A statement with several
titles is several steps. A collector is one step: its query is a set of matches, and
evaluating the query is not interleaved with other statements. The five kinds of call stand
for all functions: `each` for the iterators that catch a break (each, map, filter, reduce),
`slice` for those that do not (slice, any, all, index), `with` for a block called once,
`func` for user functions, `epp` for templates. The exported store is absent, except that
storing may fail; imports are in `ExportedStore`.

### ClassInclusion

A program of classes only: what `main` and each body include, and each class's parent. Every
step is one of `Evaluator`'s; `todo` says what each body has yet to include. Reference
definitions compute the outcome of a program without running anything: `Reach(m, T)`, the least
set with `T` closed under the includes and inherits of program `m`, and `Lineage(m, T)`, the
least one closed under its inherits.

### PlanApply

`apply()` compiles its block in an evaluator of its own while the plan's waits. Both are
`Evaluator`: the plan's by EXTENDS, the block's as the instance `Sub` whose variables begin
with `s`. The tables of definitions, which the two share, are constants, because no evaluation
changes them. `Apply` makes the fresh evaluator, a `SubStep` is one of its steps, and when its
stack is empty the catalog goes to the executor, which may refuse it, or the error or jump
goes on in the plan. `BlockDepth` bounds its calls as `MaxDepth` does the plan's. `sCaught` is
history: whether a call in the block caught a jump. Such a jump may have left a class included and not
added (`EvaluatorJump` below), or a statement half done, so `AppliedWhole` asks for all that the block
declared only where none was caught. `PlanEvaluator` is a refinement: with the block hidden, the plan behaves
as `Evaluator` says. So nothing a block does reaches the plan's catalog, container or classes.

### ExportedStore

Several compilations, each for a node (a node can be compiled twice), with one store. Resources are
pointers in the code, so `cat[c][t]` says whose parameter map the resource with title `t` in
`c`'s catalog uses. `StoreExported` and `CollectExported` are atomic (they hold the mutex);
the import loop takes one store entry per step, and overrides of other compilations come in between.
`byNode` is written and never read by the code, and is left out; so are tags. A parameter map
is one value. Creating a resource and storing it are one step: until the store has it no
other compilation can see it.

### ResourceAttributes

What a declaration writes: attributes in their operators' order, resource defaults for what is
missing, metaparameters taken out and turned into edges, `create_resources`,
`ensure_resource(s)`, `ensure_packages`, overrides with `=>`, `+>` and `undef`, collectors with
queries over attributes. A query is the list of its parts, operands first. A parameter map is a
Go reference: `heap` holds the maps, and a resource holds the name of one, so two resources that
shared a map would change together. A statement acts on its titles one after another
(`Perform`), and what it did before one of them failed stays (`Effect`). `log` is history: for
each resource written, what the statement asked for, of which `AttributesAsWritten` computes
every attribute anew. Which container a resource is in, and where the defaults in force come
from, is left to `Evaluator` and `Scope`.

### Scope

A scope is a position on the call stack with bindings, captures, defaults and its parent:
branches and blocks open one under the current scope, bodies of functions, classes, defined
types, plans and nodes one under the top scope. Parameters are bound one by one, while the
defaults of those that follow are evaluated in the scope being filled. `LibraryMC` has it
twice, once with variables and once with resource defaults. `NothingLeaks` and `BoundOnce`
speak of steps: what an inner scope does to an outer one, and which steps change a variable.

### Iteration, Numbers, SeededRandom, Values, Expressions, Collections

`Iteration` runs one call of one function; every call of its block ends with a value, a next, a
break or an error, and `trace` records the calls. Results are compared with definitions without a
loop. `reduce` and `slice` make an array of the numbers below an integer before they begin, which
panics when the integer is negative or there is no memory for it (`Panics`, with `MaxCap` for the
memory): their result is then the panic, and the other functions go on. The sort of the Go
library is insertion for up to 20 elements, which is what `sort` does here.

`Numbers` takes small widths for large ones: integers of 5 bits, floats with a mantissa of 2
bits, bytes of 3 bits. Everything the code does at the end of 64 bits, of 53 bits of mantissa
or of a byte happens there at once, and all operands can be tried. Conversion to a float gives the
nearest one and, of two that are equally near, the even one. `RangeEnds` holds with its
condition only: a range up to the very last integer wraps and goes on for ever.

`SeededRandom` has a state of 5 words. A word is named by its number in the recurrence that
defines the generator, so each word drawn must have the next number; during seeding a word is the
set of the key's words that went into it. Numbers below a limit are drawn from words of 2 bits,
over all of which `ChancesEqual` counts: each number, and each order of a shuffled list, comes up
equally often. `RandomExact` holds what is not counting: the words are those of the recurrence,
all of the key goes into each word of a seeded state but the first, a rotation keeps neighbours.

`Expressions` evaluates trees whose leaves are probes: an operand with a value that leaves a
mark, or one that fails. Marks show what was evaluated and when. `Collections` states laws
between functions (`unique`, `union` and `intersection` as sets, `flatten` and `dig` and `get`,
`merge` leaf by leaf, conversions there and back, sorted results) and that a `Sensitive` gives
nothing away: with the contents of every secret replaced, every other function answers the
same.

### Lexer, Parser, HclMapping, Interpolation, EppTemplate, HclTemplate, Scanf, Shellwords

Characters and tokens are values of small alphabets; a keyword is a letter. `Lexer` is a state
machine whose `mode` says in which loop of the scanner it is. Finding the body of a heredoc is
one step; jumping over the body, when the end of the opener's line is crossed, belongs to the
step that crosses it, as in `adv`. `comments` is a history variable: where the comments begin and
end that `skipSpaceAndComments` walked over. `TokensTile` and `TokensLongest` conjoin what must
hold of tokens, part by part, for every text. `PlacesTrue` computes the line and the column of a
token from the text, where the lines of heredoc bodies do not count. `BlanksBetween` says that
what is between two tokens is blanks, heredoc bodies and comments, that each of these comments is
one by its definition from the text (to the end of its line, or to the first `*/`), and that none
reaches into a token. `Bodies` are the bodies of the last heredoc of each line: where a line
opens two, the second looks for its body where that of the first is (see below). `ClosedAtFirst`
says nothing of a quoted text that stands behind two heredocs of one line. `OperatorLen` follows
the switch over the first character and the next; `OperatorsLongest` compares it with the set of
all operators.

`Parser` has one operator for each function of the parser, from a position to a node and the
position behind it. The behaviours type a text token by token and parse each prefix; a text that
is accepted is printed from its tree with the fewest parentheses and parsed again (`TreeStable`),
and `WordsKept` says that no word of the text is lost or doubled. Where the printed tree needs
parentheses is decided by a second table of precedences (`Level`), apart from the parser's
`Tiers`: two tiers that change places no longer agree with it. What the tokens of the instance
spell stands in `ParserInputs`: operators of each tier, statements, declarations, calls, types,
collectors, strings.

`HclMapping` takes the tree of the HCL library for granted and translates an entry per step.
`SameProgram` asks that the result be a tree the native parser builds: it is written as Puppet,
parsed by `Parser` and compared.

`Interpolation`, `EppTemplate` and `HclTemplate` cut a text into parts, one case of their loop
per action; their properties put the parts together again or compare them with a definition
by positions. `Scanf` handles a directive per step; the fields it took must be
in order, each as long as its directive allows, and the call ends where the format does or at
the first directive that fails. `Shellwords` compares `shell_split` with a machine that reads one character at a
time, and `shell_join` with `shell_split`.

### Compositions for TLC

In `LibraryMC` and in `TextMC` a behaviour works in one module, its `part`, and the variables of
the others rest. The modules share constants and inputs, not variables, so this costs the sum
of their states and not the product. Properties conjoin parts that answer one question; each
part is stated and explained in its own module.

## Runs

| Run | Shows | Bounds, and why they are enough |
|---|---|---|
| `Evaluator` | containers, buffers, reentry, soundness of the catalog and refinement of `CatalogLog` | a class that may also be declared by `ensure_resource`, a name nobody defines, an instance; regular and exported; a user function, an iterator and a template; depth 4: a program, an iterator, its block and an owner nest, so each jump crosses each kind of call. 2.1 million states |
| `Inclusion` | outcome, set of classes, order, containment, termination | all programs of 3 classes with lists of at most 1, hence all circles of length 3; of 2 classes with lists of at most 2; and webs in which a class is included after another returned. 1.4 million states |
| `ExportedStore` | imports, stability, completeness, first export wins | a node compiled twice and another once, one title, 2 values, a query that matches one of them. 2.7 million states |
| `PlanApply` | the plan's evaluator, the applied catalog | two classes, one of them also by `ensure_resource`; one apply block; depth 2 for the plan and 5 for the block: a `with`, its block, a class and a parent that jumps out of it. 3.8 million states |
| `Attributes` | attributes, metaparameters, collectors | two files and an instance; scalars and arrays set, appended and replaced by undef, a relationship, a tag; statements until the log has 3 writes, hence two resources declared together and one of them changed, or one declared and changed twice. 0.1 million states |
| `Library` | scopes, defaults, numbers, random draws and their chances, iteration, expressions, collections | 2 variables through 3 scopes, 2 defaults through 4; all operands of the small widths; 16 words from a state of 5, made anew four times; keys shorter and longer than the state; up to 3 elements, and integers from -1 to 3 with memory for 2, with every outcome of every call; two nested operators. 0.3 million states |
| `Text` | scanner, parser, HCL documents, strings, templates, `scanf`, shell words | texts of up to 5 characters of each alphabet, heredocs in a row, up to 9 tokens behind fixed beginnings: every pair of adjacent constructs the alphabets can form. 1.7 million states |
| `EvaluatorJump`, `EvaluatorBreak`, `ExportedSettled`, `ExportedInstance`, `LexerTotal` | a behaviour of the code against what a comment says | see below |

The bounds on counters are `MaxDepth` (calls in `Evaluator`, scopes in `Scope`), `BlockDepth`
(calls in an apply block), `MaxApply` (apply blocks of a plan), `MaxLog` (writes in the log of
`ResourceAttributes` when a statement begins) and `MaxOut` (the elements a `range` may reach:
beyond it a range counts as endless), and `MaxDrawn` (words drawn from the generator in one
call). `MaxCap` is the longest array there is memory for. It is assumed that in `ClassInclusion`
`MaxDepth` never binds (`InclusionAssumption`: the depth exceeds the number of classes plus one,
and no class is on the stack twice). A user function that calls itself for ever overflows the Go
stack; the models stop such a manifest at `MaxDepth` instead, and no property says otherwise:
`NoReentry` and `Terminates` are about classes and instances.

Deadlock checking is off where a behaviour ends for good: compilations of `ClassInclusion` and
`ExportedStore`, one call in `Library`, one text in `Text`, a full log in `Attributes`. An
`Evaluator`, also that of a plan, can always be asked for another program, so there it is on.
No run uses symmetry.

**Fairness.** Three times weak fairness of a sequential loop that nothing interrupts, without
an assumption about which step it takes: of the whole relation in `InclusionSpec` (a compilation
is a recursive function), of `NumbersNext` in `LibrarySpec` (the loop of `range`) and of
`ScanNext` in `TextSpec` (the loop of `Lex`). In the last one texts with heredocs are left out,
because TLC takes minutes to decide there whether a step is enabled; their safety is checked.

### Where the code and its comments differ

Five runs state what a comment says, and TLC shows a behaviour of the code against it.

* `EvaluatorJump`: *"declareClass realizes a class into the catalog exactly once"*
  (`eval/decl.go:296`). The class counts as included before its parent is evaluated. A jump out
  of the parent that an iterator catches leaves the class included and never added.
* `EvaluatorBreak`: *"a `break()` propagates so the surrounding iterator can stop"*
  (`eval/call.go:26`). `slice` does not stop it, so the break leaves the slice as well.
* `ExportedSettled`: *"Catalog is a compiled catalog for one node"* (`catalog/catalog.go:36`).
  Importers share the exporter's parameter map, and an override on the importing side shows in
  the exporter's finished catalog.
* `ExportedInstance`: *"StoreExported is called for every `@@` resource declared during
  compilation"* (`eval/exported.go:18`). Instances of defined types are not stored.
* `LexerTotal`: *"Lex tokenizes src, returning the tokens (terminated by an [EOF] token) or a
  lexical [Error]"* (`lexer/lexer.go:36`). A backslash at the end of the text, in a regexp,
  takes a character that is not there (`lexer/lexer.go:346`), and the scanner panics.

More differences came up while the code was read for the models. The models do what the code
does, and no run is spent on these:

| Code | What it does | What is said |
|---|---|---|
| `eval/plan.go:250` | a return in an apply block ends the whole plan | `plan.go:33`: it *"unwinds a function/plan/apply body"* |
| `eval/scope.go:54` | a parameter replaces what a default of an earlier one assigned to its name | `scope.go:23`: *"Puppet variables are immutable once set within a scope"* |
| `eval/scope.go:128` | after a failed match, lookup finds the captures of the enclosing scope | `expr.go:147`: *"clearing them on a non-match"* |
| `eval/decl.go:130` | instances of defined types get no edges for their metaparameters | `decl.go:126`: *"wiring containment and metaparameter edges"* |
| `eval/decl.go:203` | nor any parameters, so `defined_with_params` never finds them | `stdlib_catalog.go:56`: *"every requested parameter matches"* |
| `eval/stdlib_array.go:430` | a break in the block of `sort` goes on comparing and then leaves `sort` | `call.go:26`, as above |
| `eval/iterate.go:242` | `reduce` and `slice` of a negative integer panic, as does one there is no memory for: the integer is the capacity of the array | `iterate.go:237`: it *"returns the ordered elements"*, and `each(-1)` has none (`iterate.go:22`) |
| `eval/stdlib_hash.go:122` | `get($h, '01')` looks for the key `1` | `stdlib_hash.go:96`: *"like dig"* |
| `lexer/lexer.go:80` | lines within a heredoc body are not counted | `token.go:136`: *"source position of the token start"* |
| `lexer/ops.go:172` | two heredocs on one line: the second looks for its body where the first one's is | `lexer.go:72`: *"jumping past a pending heredoc body"* |
| `lexer/lexer.go:177` | `undef / x` begins a regexp | `lexer.go:175`: one may start *"wherever a value is expected"* |
| `parser/decl.go:104` | `node foo { include x }` is refused: the bare name is taken for the type of a resource | `ast.go:341`: *"Matches are name/regexp/default literals"* |
| `parser/decl.go:107` | `if $x =~ String { include x }` is refused: the type begins resource defaults | `parser.go:7`: *"covering the Puppet 8 expression grammar"* |
| `parser/interp.go:187` | nodes of embedded expressions are on line 1 | `ast.go:27`: *"the node's source position"* |
| `eval/stdlib_scanf.go:61` | a width beyond the integers wraps, and `%c` then slices in front of its start and panics | `stdlib_scanf.go:14`: *"Conversion stops at the first directive that fails to match"* |
| `lexer/lexer.go:315` | `"${h["a"]}"` ends at its second quote | `README.md:60`: *"full expressions, method calls, function calls"* |

## Proofs

All proofs hold for every value of the constants, from the assumptions named in the modules:

| Assumption | Says |
|---|---|
| `EvaluatorAssumption` | classes have names; native resources, instances and classes differ; every one has a type; there is room for a call |
| `ApplyAssumption` | there is room for a call in an apply block |
| `InclusionAssumption` | programs are made of the classes' names; the bound on depth exceeds the number of classes |
| `StoreAssumption` | every compilation has a node; queries match values |
| `ScopeAssumption` | facts, captures and parameter lists are of names and values, and the mark for no value is none; there is room for a scope |
| `NumbersAssumption` | widths are positive; operands are integers of their width, lengths of arrays and strings, and bytes |
| `RandomAssumption` | the recurrence reaches ahead within the state; a seed has a word; a limit is at least 1 |
| `IterationAssumption` | a collection is an integer, an array or a hash; chunks have a natural size, and so has the memory |
| `AttributesAssumption` | statements name resources; in a query operands stand before their operators |
| `LexerAssumption` | texts are of characters; letters and digits are neither blanks nor punctuation; letters, and `e` and `x` among them, are no digits; keywords have kinds of their own |

In particular nothing bounds manifests, programs, nodes, compilations, scopes, statements or
their titles, `MaxDepth` is arbitrary, and so are the widths of integers, floats and bytes and the
size of the twister: integers of 64 bits, a mantissa of 53 and a state of 624 words are
among what the theorems are about. `CatalogAssumption` (the main class is not a
reference, the mark for absence is not a form) is a hypothesis of the theorems about
`CatalogLog`, and follows from `EvaluatorAssumption` for the catalog of an `Evaluator`.

**CatalogLogProofs.** `IndexMatchesOrder` and `Contained` are inductive together with the type
invariant.

**EvaluatorProofs.** `ContainerInForce` is not inductive: popping a body must put back what was
in force below it, so each body on the stack has to remember the right container. The
invariant `IInv` therefore adds `ChainOK` (for every body in progress, the container it saved
is the one in force beneath it) and `FramesOK` (which frames are in the catalog, or in
`included`, already). `NoReentry` rests on `FramesOK`: a class on the stack is included and an
instance on the stack is in the catalog, so neither can be entered again. Every action changes
the stack in one of five ways (not at all, a first frame, one frame more, a phase of the top
frame, one frame less), and the invariant is proved per way, then per action. `CatalogRefined`
maps every step to a step of `CatalogLog` or a stutter; the resource whose body is running is
recorded, by `FramesOK` and `ContainerInForce`, which is what makes the container of a new
resource an earlier one. `IndexCorrect` and `ContainmentCorrect`, together `CatalogKept`, then
follow from the theorems about `CatalogLog`. The lemmas on single steps are stated without `Spec`, so that the
two modules that run an evaluator can use them.

**CompilationProofs, of PlanApply.** Both evaluators satisfy the invariant of `EvaluatorProofs`: the block's is an
instance, whose lemmas are those of that module. To it the block adds `ClassesHeld`: a class that is
included is in the catalog or its declaration is still in progress, as long as no call caught a
jump. With an empty stack nothing is in progress, so the catalog handed over is whole
(`Applied`). The plan is in the middle of a statement while a block runs. `PlanRefined` maps the
end of a block to a step of the plan's own evaluator, and the block's steps to stutters;
`PlanContainer` is what `EvaluatorProofs` then gives for the plan.

**CompilationProofs, of ClassInclusion.** Every step is one of `Evaluator` (`InclusionRefined`), so `IInv` holds.
`Inclusion` meets `Reach` from both sides. Every call is of a class that each closed set holds, because
of the call beneath it (`Descends`), so what is declared was reached (`Accounted`). And what a
declared class includes or inherits is declared too, or still owed by a call in progress, or
the compilation went wrong (`Owed`); at the end nothing is in progress, so what is declared is
closed. No induction over the length of a chain is needed: the least set is below every closed
one. `ParentsFirst` and `ContainedWhere` need the shape of the stack: a call is of the parent
of the class below it, or of a name in the list of the body below it.

**ExportedStoreProofs.** The invariant says that store entries name resources their exporters
still own, that the part a collector was given is a prefix of the store, and that whatever lies
before the cursor of a collector without query is in its catalog. `ImportsAreExports`, the
action property `FirstExportWins`, `OriginStable` and `ImportComplete` follow.

**LibraryProofs, of Scope.** A step changes the current scope, opens one, or closes some; `NothingLeaks` and
`BoundOnce` follow from that (`Shapes`) and the type. For `NamesResolved` the invariant is
`Rooted`: the parent of a body is the top scope and that of a branch or a block the scope below
it. The chain of parents, a recursive function in the model as in the code, is then known in closed form
(`Path`), and each way of resolving a name is shown to give the nearest value along it:
lookup stops at the first, snapshots and defaults lay the scopes over each other.

**LibraryProofs, of Numbers.** Most of `NumbersExact` is about one step, and a lemma about each
operation gives it: division truncates and fits its remainder, a slice lies in its array. That
comparing goes through floats keeps the order is shown for rounding to the nearest of any set of
numbers: were a smaller one rounded above a greater one, both would be half way between the
two. The loop of `range` has the invariant `Progressing`: what is out so far is the progression,
every value in it was within the bound, and the loop variable is the next. The proofs corrected
the model twice: two cases of its division overlapped for a divisor of 0, and its conversion to
floats was right for the widths of the run only.

**LibraryProofs, of SeededRandom.** The twister makes its words anew in their place. `Partly` says
what the state is in the middle of that; each of the three pieces of code that do it takes the
word it needs from where it is still old, or new already (`AnewIs`, `LoopIs`), so a whole state of
consecutive words becomes the next one (`RegeneratedIs`), and `DrawInv` says that it always is
one. For a seed, the word that was mixed last holds every word of the key so far (`KeyMixed`);
the rounds that follow take it to each place (`StateMixed`), wherever the first ones ended. A
rotation is computed in closed form.

**LibraryProofs, of Iteration.** For each function the invariant `IterInv` says what the value in
progress is, as a definition without a loop of the elements the block was called with so far
(`Working`): for filter, the elements at the positions where it was true, by their rank among
those. All calls but the last ended with a value, and a result that is none is what the last one
came to (`Calling`); for sort, which goes on, it is the last failure. The chunks of `slice` are
put together one after the other (`Slicing`). While an array is sorted, it is a permutation of the
one given; the part in front of the current element is in order, and so is what that element has
passed, all of which it stays in front of (`Sorting`). Stability needs that the element moves
only where the block said "less". This is proved of insertion, which is what the library does
with arrays of up to 20 elements; it sorts longer ones by blocks and merges them, and the
model has no merging. The recursion of `tree_each` over a nested value gives the elements to
call with; that they are its leaves is the definition, and nothing is proved about it.

**ResourceAttributesProofs.** The invariant is about the state record that the titles of a
statement hand on (`StateInv`): no two resources share a map, every attribute has the value the
log gives, no map holds a metaparameter, and what was declared is wired. `Perform` keeps it, hence
so does the recursion over titles, failed or not, and the log that is one write longer decides a
value from the value before. `EnsuringKeeps` is an action property by the same recursion.
`CollectorsMatch` compares the recursion of a match, where a left side may decide, with a valuation of
all parts of the query; the two agree part by part (`MatchesMeant`).

**LexerProofs.** A step has one of three shapes (`StepShape`): it walks on, makes a token of what
was read, or opens a heredoc. The type invariant adds to `LexTypeOK` that tokens follow each
other and that a body to be jumped over lies behind the line being read. Then there is one
invariant for each part of the two properties, proved shape by shape or step by step: the body of
the last heredoc of a line is pending on that line and behind the scanner afterwards (`DocInv`,
`JumpInv`), hence a line that is crossed makes the bodies before the scanner grow by that body
and no other (`CrossedBodies`, `BodiesKept`), and the scanner's own line and column stay those
the text gives (`PlaceInv`). A comment in progress has not met its end (`CommentInv`), and behind
the last token there were only blanks, bodies and comments (`GapInv`). The switch over operators
gives the longest one character by character (`OperatorHere`). A number in progress is one by the
grammar, or will be with the next character, in a form for each loop (`NumInv`), and no character
that ends the loop could continue it (`NumberRead`). In a quoted text the number of backslashes
before the scanner is even where the loop looks for the delimiter, unless the next character
cannot be one (`OpenInv`), so no place read could have closed it. `TokensAlwaysTile` and
`TokensAlwaysLongest` put these together, for texts of any length and any alphabet.

**RecursionLemmas.** A set of numbers that holds 0 and what follows each of its elements holds all: in
this form induction needs no operator as a parameter. It proves that the functions the models define
by recursion over numbers exist, before which nothing is known of them, and what they compute.

**Only model-checked.** `Expressions` and `Collections` of `Library`, and the parts of `Text` other
than `Lexer`. What recursive operators compute (`Expressions`,
`Collections`, `Parser` and others) cannot be proved here: the prover has no arithmetic in
modules with `RECURSIVE` operators, and those recur over trees. (The queries of collectors
are trees, too; they are written as lists of their parts, so that the recursion is over
positions.)
`DefaultsResolved` is `NamesResolved` of a second instance of `Scope`, whose theorem covers it in
substance. `ChancesEqual` counts with `Cardinality` over all pairs of words and all sequences of
choices, which needs a bijection for each case. Termination (`Terminates`, `RangeEnds`, `ScanEnds`)
is liveness, which is out of reach. The five disagreements are counterexamples, and
need no proof.

Worth proving next: the loops of `Interpolation`, which are recursive functions over positions;
that draws are equally likely; stability of the merges in the sort of long arrays.

## Not modelled

* **EPP parameters and ERB.** Binding the parameters of a template does what `Scope` shows for a
  body; ERB is a function the host supplies.
* **The HCL parser** is a library; `HclMapping` begins with the tree it returns.
* **Printing** (`ast/print.go`) and the JSON of the catalog, with the order of edges that come
  from metaparameters (`eval/decl.go:173`, a map iteration): text nobody reads back.
* **Public facade, facts and lookup**: no state; data that the host supplies.
* **Random functions**: tempering, digests of seeds and strings drawn from a set of characters.
  Agreement with Ruby's numbers is a matter of tables.
* **Data formats** (JSON, YAML, TOML, PSON, HOCON, Augeas), digests, passwords, types and time:
  wrappers of libraries, or text character by character.
* **Floating point** beyond rounding, `sprintf` and most functions on strings: pure, and with
  nothing to tell apart at a small size.
