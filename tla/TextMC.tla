------------------------------- MODULE TextMC -------------------------------
(***************************************************************************)
(* An instance of what reads a manifest, for TLC: a behaviour scans one    *)
(* text, with heredocs or without (Lexer), types and parses one (Parser),  *)
(* translates an HCL document (HclMapping), takes one string apart         *)
(* (Interpolation) or a template (EppTemplate, HclTemplate), scans data by *)
(* a format (Scanf), or quotes words for a shell (Shellwords).  The        *)
(* variables of the other modules rest.                                    *)
(***************************************************************************)
EXTENDS Lexer, TLC

VARIABLES
  part,                                                    \* the module at work
  kit, typed, phase, result, tree,                         \* Parser's
  string, heredoc, at, buf, parts, state,                  \* Interpolation's
  tmpl, segs, saw, prog, declared,                         \* EppTemplate's
  raw, lit,                                                \* HclTemplate's
  doc, body,                                               \* HclMapping's
  data, format, fi,                                        \* Scanf's
  request, answer                                          \* Shellwords'

scanning == vars
parsing == <<kit, typed, phase, result, tree>>
splitting == <<string, heredoc, at, buf, parts, state>>
compiling == <<tmpl, segs, saw, prog, declared>>
mapping == <<raw, lit>>
translating == <<doc, body>>
reading == <<data, format, fi>>
quoting == <<request, answer>>
all == <<part, scanning, parsing, splitting, compiling, mapping, translating, reading, quoting>>

LexIn == INSTANCE LexerInputs
ParseIn == INSTANCE ParserInputs
StringIn == INSTANCE InterpolationInputs
TemplateIn == INSTANCE TemplateInputs
HclIn == INSTANCE HclInputs

MCLower == {"a", "b", "e", "t", "u", "i", "x"}
MCUpper == {"A", "E", "X"}
MCDigit == {"0", "1"}
MCKeywords == LexIn!MCKeywords
AllSources == LexIn!MCSources \cup LexIn!HeredocSources

Pa == INSTANCE Parser WITH Kits <- ParseIn!AllKits, toks <- typed
Ip == INSTANCE Interpolation WITH
  Lower <- {"a", "n"}, Upper <- {"A"}, Digit <- {"0"}, Sources <- StringIn!AllSources,
  src <- string, i <- at, mode <- state
Ep == INSTANCE EppTemplate WITH
  Templates <- TemplateIn!EppTemplates, i <- at, text <- buf, mode <- state
Hc == INSTANCE HclTemplate WITH
  Templates <- TemplateIn!HclTemplates, HexDigit <- {"0", "a"}, i <- at, mode <- state
Hm == INSTANCE HclMapping WITH
  Kits <- ParseIn!AllKits, toks <- typed,
  Documents <- HclIn!AllDocuments, Local <- HclIn!Local, Resource <- HclIn!Resource
Sc == INSTANCE Scanf WITH
  Half <- 16, DigitOf <- TemplateIn!Digits, Inputs <- TemplateIn!ScanfInputs,
  di <- at, out <- buf, mode <- state
Sh == INSTANCE Shellwords WITH
  Safe <- {"a"}, Requests <- TemplateIn!ShellRequests, result <- answer

ScannerRests ==
  /\ src = << >> /\ i = 1 /\ line = 1 /\ col = 1 /\ resume = 0
  /\ toks = << >> /\ mode = "rest" /\ start = << >> /\ text = << >> /\ comments = {}
ParserRests == kit = << >> /\ typed = << >> /\ phase = "rest" /\ result = << >> /\ tree = << >>
LoopRests == at = 1 /\ buf = << >> /\ state = "rest"
StringRests == string = << >> /\ heredoc = TRUE /\ parts = << >>
EppRests == tmpl = << >> /\ segs = << >> /\ saw = FALSE /\ prog = << >> /\ declared = << >>
HclRests == raw = << >> /\ lit = << >>
MappingRests == doc = << >> /\ body = << >>
ScanfRests == data = << >> /\ format = << >> /\ fi = 1
ShellRests == request = <<"rest">> /\ answer = << >>

ASSUME TextAssumption == Sc!ScanfAssumption

\* Interpolation, EppTemplate, HclTemplate and Scanf share the variables of their loops,
\* Parser and HclMapping those of the parser.
TextInit ==
  /\ part \in {"scan", "heredoc", "parse", "document", "string", "epp", "hcl", "scanf", "shell"}
  /\ IF part \in {"scan", "heredoc"}
     THEN Init /\ (part = "heredoc" <=> src # << >> /\ Head(src) = "@")
     ELSE ScannerRests
  /\ IF part = "parse" THEN Pa!Init ELSE part = "document" \/ ParserRests
  /\ IF part = "document" THEN Hm!HclInit ELSE MappingRests
  /\ part \in {"string", "epp", "hcl", "scanf"} \/ LoopRests
  /\ IF part = "string" THEN Ip!Init ELSE part = "hcl" \/ StringRests
  /\ IF part = "epp" THEN Ep!Init ELSE EppRests
  /\ IF part = "hcl" THEN Hc!Init /\ string = << >> /\ buf = << >> ELSE HclRests
  /\ IF part = "scanf" THEN Sc!Init ELSE ScanfRests
  /\ IF part = "shell" THEN Sh!Init ELSE ShellRests

\* What most parts leave alone.
elsewhere == <<part, translating, reading, quoting>>

ScanNext ==
  part = "scan" /\ Next /\ UNCHANGED <<elsewhere, parsing, splitting, compiling, mapping>>

TextNext ==
  \/ ScanNext
  \/ /\ part = "heredoc" /\ Next
     /\ UNCHANGED <<elsewhere, parsing, splitting, compiling, mapping>>
  \/ /\ part = "parse" /\ Pa!Next
     /\ UNCHANGED <<elsewhere, scanning, splitting, compiling, mapping>>
  \/ /\ part = "document" /\ Hm!HclNext
     /\ UNCHANGED <<part, scanning, splitting, compiling, mapping, reading, quoting>>
  \/ /\ part = "string" /\ Ip!Next
     /\ UNCHANGED <<elsewhere, scanning, parsing, compiling, mapping>>
  \/ /\ part = "epp" /\ Ep!Next
     /\ UNCHANGED <<elsewhere, scanning, parsing, string, heredoc, parts, mapping>>
  \/ /\ part = "hcl" /\ Hc!Next
     /\ UNCHANGED <<elsewhere, scanning, parsing, string, buf, compiling>>
  \/ /\ part = "scanf" /\ Sc!Next
     /\ UNCHANGED <<part, scanning, parsing, string, heredoc, parts, compiling, mapping,
                    translating, quoting>>
  \/ /\ part = "shell" /\ Sh!Next
     /\ UNCHANGED <<part, scanning, parsing, splitting, compiling, mapping, translating, reading>>

\* Lex is a loop that nothing interrupts.  (That heredocs are fair too is left out: TLC
\* takes minutes to see that a step over one is enabled.)
TextSpec == TextInit /\ [][TextNext]_all /\ WF_all(ScanNext)

-----------------------------------------------------------------------------
(* Properties.  The parts are stated and explained in the modules they     *)
(* come from.                                                              *)

\* Operators bind and associate as the ladder says, no construct is taken for another, and
\* no word is lost (binary, primary and others of parser.go).
TreeStable == Pa!TreeStable
WordsKept == Pa!WordsKept

\* Whatever the text, the scanner comes to its end or to an error, also in comments and
\* strings that nothing closes (Lex).
ScanEnds == part = "scan" ~> Ended1

\* The parts of a string are the ones its dollars begin, literal text is decoded once,
\* and an embedded expression ends where its braces balance (interpolate, scanBraced;
\* findClose of the HCL front end).
PartsFound ==
  /\ part = "string" => Ip!StartsFound /\ Ip!TextDecoded /\ Ip!BracesBalance
  /\ part = "hcl" => Hc!OwnBrace

\* What is written for another reader is read back as it was: the text of an EPP template
\* through the string literals it is compiled to, that of an HCL template through its
\* parts, and words through shell_join and shell_split; what scanf takes stands in the data,
\* in order and as long as a field may be (quoteSingle, scanEPP, templateParts,
\* rubyShellEscape, shellSplit, scanfParse).
ReadsBack ==
  /\ part = "epp" => Ep!TemplateKept /\ Ep!TextQuoted /\ Ep!ParamsFirst
  /\ part = "hcl" => Hc!PartsReadBack
  /\ part = "scanf" => Sc!FieldsTaken
  /\ part = "shell" => Sh!JoinReadsBack /\ Sh!SplitAgrees

\* A translated HCL document is the program the native parser makes of that program's text
\* (Parse of the HCL front end): "it produces the very same ast.Program the native Puppet
\* (.pp) parser produces".
SameProgram == part = "document" => Hm!SameProgram
=============================================================================
