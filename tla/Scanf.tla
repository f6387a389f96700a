------------------------------- MODULE Scanf --------------------------------
(***************************************************************************)
(* scanf: the loop over the directives of a format, and what each takes    *)
(* from the data (eval/stdlib_scanf.go).  A character is a string of one   *)
(* character, positions count from 1, and integers have the width of       *)
(* Numbers: from -Half to Half - 1.  What strconv.ParseFloat makes of the  *)
(* text of a float is left out.                                            *)
(***************************************************************************)
EXTENDS Integers, Sequences, FiniteSetsExt

CONSTANTS
  Half,
  DigitOf,   \* the digits in use, each with its value
  Inputs     \* <<data, format>>

ScanfAssumption == Half \in Nat \ {0}

VARIABLES
  data, format,
  di, fi,    \* the next character of each
  out,       \* the conversions: [verb, width, from, to, value], to the first character not taken
  mode       \* "scan", "done" or "panic"

vars == <<data, format, di, fi, out, mode>>

\* Those of a format; data may hold others, which are left out.
Blank == {" ", "\t", "\n"}
Sign == {"+", "-"}
Decimal == {c \in DOMAIN DigitOf : DigitOf[c] < 10}
InBase(b) == {c \in DOMAIN DigitOf : DigitOf[c] < b}
Wrap(n) == ((n + Half) % (2 * Half)) - Half

At(s, k) == IF k \in DOMAIN s THEN s[k] ELSE "end"
\* Behind the characters of a set, from i on and before end.
Behind(s, S, i, end) == Min({j \in i..end : j = end \/ s[j] \notin S})
SkipSpaces(i) == Behind(data, Blank, i, Len(data) + 1)
NumberIn(s, base) ==
  LET f[n \in 0..Len(s)] == IF n = 0 THEN 0 ELSE (f[n - 1] * base) + DigitOf[s[n]] IN f[Len(s)]

-----------------------------------------------------------------------------
(* One directive *)

Taken(from, to, v) == [ok |-> TRUE, from |-> from, to |-> to, value |-> v]
Failed == [ok |-> FALSE, from |-> 0, to |-> 0, value |-> 0]

\* The place a width behind i, an integer counted from 0, and where a number ends at the
\* latest: not behind i when that place wrapped.
Ahead(i, width) == Wrap(i - 1 + width) + 1
Limit(i, width) ==
  IF width > 0 /\ Ahead(i, width) < Len(data) + 1 THEN Max({i, Ahead(i, width)}) ELSE Len(data) + 1

\* One character, or as many as the width. to is before from when the width wrapped.
ScanChar(i, width) ==
  LET w == IF width = 0 THEN 1 ELSE width
  IN IF i > Len(data) THEN Failed
     ELSE Taken(i, IF Ahead(i, w) > Len(data) + 1 THEN Len(data) + 1 ELSE Ahead(i, w), 0)

ScanWord(k, width) ==
  LET i == SkipSpaces(k)
      end == IF width > 0 THEN Min({i + width, Len(data) + 1}) ELSE Len(data) + 1
      j == Behind(data, {data[n] : n \in DOMAIN data} \ Blank, i, end)
  IN IF j = i THEN Failed ELSE Taken(i, j, 0)

\* base 0 takes the base from the prefix.
ScanInt(k, width, base, signed) ==
  LET i == SkipSpaces(k)
      max == Limit(i, width)
      Char(j) == IF j < max THEN data[j] ELSE "end"
      digits == IF signed /\ Char(i) \in Sign THEN i + 1 ELSE i
      prefixed == base \in {0, 16} /\ Char(digits) = "0" /\ Char(digits + 1) \in {"x", "X"}
      b == CASE prefixed -> 16 [] base # 0 -> base [] OTHER -> IF Char(digits) = "0" THEN 8 ELSE 10
      start == IF prefixed THEN digits + 2 ELSE digits
      end == Behind(data, InBase(b), start, max)
      n == NumberIn(SubSeq(data, start, end - 1), b)
  IN IF start = end \/ n >= Half THEN Failed
     ELSE Taken(i, end, IF Char(i) = "-" THEN -n ELSE n)

\* An exponent counts only with digits of its own.
ScanFloat(k, width) ==
  LET i == SkipSpaces(k)
      max == Limit(i, width)
      Char(j) == IF j < max THEN data[j] ELSE "end"
      whole == IF Char(i) \in Sign THEN i + 1 ELSE i
      dot == Behind(data, Decimal, whole, max)
      frac == IF Char(dot) = "." THEN Behind(data, Decimal, dot + 1, max) ELSE dot
      some == dot > whole \/ frac > dot + 1
      sign == IF Char(frac + 1) \in Sign THEN frac + 2 ELSE frac + 1
      exp == IF Char(frac) \in {"e", "E"} THEN Behind(data, Decimal, sign, max) ELSE sign
  IN IF ~some THEN Failed ELSE Taken(i, IF exp > sign THEN exp ELSE frac, 0)

ScanOne(i, verb, width) ==
  CASE verb = "c" -> ScanChar(i, width)
    [] verb = "s" -> ScanWord(i, width)
    [] verb \in {"d", "u"} -> ScanInt(i, width, 10, TRUE)
    [] verb \in {"x", "X"} -> ScanInt(i, width, 16, FALSE)
    [] verb = "o" -> ScanInt(i, width, 8, FALSE)
    [] verb = "i" -> ScanInt(i, width, 0, TRUE)
    [] verb \in {"f", "e", "g", "E", "G", "a"} -> ScanFloat(i, width)
    [] OTHER -> Failed

-----------------------------------------------------------------------------
(* The loop over the format *)

Init ==
  /\ \E in \in Inputs : data = in[1] /\ format = in[2]
  /\ di = 1 /\ fi = 1 /\ out = << >> /\ mode = "scan"

Scanning == mode = "scan" /\ fi <= Len(format) /\ UNCHANGED <<data, format>>
Stop == mode' = "done" /\ UNCHANGED <<di, fi, out>>
Go(d, f) == di' = d /\ fi' = f /\ UNCHANGED <<out, mode>>

Percent ==
  /\ Scanning /\ format[fi] = "%" /\ At(format, fi + 1) = "%"
  /\ LET i == SkipSpaces(di) IN IF At(data, i) = "%" THEN Go(i + 1, fi + 2) ELSE Stop

\* The width is accumulated digit by digit.
Width(from, to) ==
  LET f[k \in from..to] == IF k = from THEN 0 ELSE Wrap((f[k - 1] * 10) + DigitOf[format[k - 1]])
  IN f[to]

Directive ==
  /\ Scanning /\ format[fi] = "%" /\ At(format, fi + 1) # "%"
  /\ LET verb == Behind(format, Decimal, fi + 1, Len(format) + 1)
         width == Width(fi + 1, verb)
         one == IF verb > Len(format) THEN Failed ELSE ScanOne(di, format[verb], width)
     IN IF ~one.ok THEN Stop
        ELSE IF one.to < one.from THEN mode' = "panic" /\ UNCHANGED <<di, fi, out>>
        ELSE /\ out' = Append(out, [verb |-> format[verb], width |-> width,
                                    from |-> one.from, to |-> one.to, value |-> one.value])
             /\ di' = one.to /\ fi' = verb + 1 /\ UNCHANGED mode

\* Blanks match any number of blanks.
Space == Scanning /\ format[fi] \in Blank /\ Go(SkipSpaces(di), fi + 1)

Literal ==
  /\ Scanning /\ format[fi] \notin Blank \cup {"%"}
  /\ IF At(data, di) = format[fi] THEN Go(di + 1, fi + 1) ELSE Stop

End == mode = "scan" /\ fi > Len(format) /\ Stop /\ UNCHANGED <<data, format>>

Next == Percent \/ Directive \/ Space \/ Literal \/ End

Spec == Init /\ [][Next]_vars

-----------------------------------------------------------------------------
(* Properties *)

\* The fields stand in the data one behind the other, none is empty, reaches beyond the
\* data or is longer than its width, and all that was read is before the cursor.
FieldsInOrder ==
  \A k \in DOMAIN out :
    /\ out[k].from < out[k].to /\ out[k].to <= Len(data) + 1
    /\ out[k].width > 0 => out[k].to - out[k].from <= out[k].width
    /\ IF k < Len(out) THEN out[k].to <= out[k + 1].from ELSE out[k].to <= di

\* A decimal field is the longest text that is one, after blanks: a sign and digits, as many
\* as the width allows, and its value is what it says (scanInt).
Decimals(s) ==
  /\ s # << >> /\ s[Len(s)] \notin Sign
  /\ \A k \in DOMAIN s : s[k] \in Decimal \/ (k = 1 /\ s[k] \in Sign)
LongestField ==
  \A k \in DOMAIN out :
    out[k].verb = "d" =>
      LET end(j) == SubSeq(data, out[k].from, j - 1)
          fits == {j \in (out[k].from + 1)..Limit(out[k].from, out[k].width) : Decimals(end(j))}
      IN out[k].to = Max(fits)

\* Scanning fails by stopping ("Conversion stops at the first directive that fails to
\* match"), unless a width, or the place it leads to, is beyond the integers.
StopsOrEnds ==
  mode = "panic" =>
    LET verb == Behind(format, Decimal, fi + 1, Len(format) + 1)
    IN NumberIn(SubSeq(format, fi + 1, verb - 1), 10) + Len(data) >= Half

FieldsTaken == FieldsInOrder /\ LongestField /\ StopsOrEnds
=============================================================================
