-------------------------------- MODULE Texts --------------------------------
(***************************************************************************)
(* The texts of a context, as contextgc-policy's reducers read them and    *)
(* contextgc-tokenizer counts them.                                        *)
(*                                                                         *)
(* A text is a sequence of lines.  A line is abstracted to which of the    *)
(* reducers' regular expressions and substrings it contains (marks), its   *)
(* number of words, and what changes between two rewritings: how often it  *)
(* was indented and whether it has ANSI escapes, either of which hides it  *)
(* from an expression that is anchored at the start of a line.             *)
(***************************************************************************)
EXTENDS Integers, Sequences, FiniteSetsExt

Patterns ==
  {"blank", "progress", "errorlike",                        \* ShellReducer
   "ok", "failed", "result", "duration", "header", "dashes", \* TestReducer
   "error", "bracket", "location"}                           \* CompilerReducer

(* nr tells lines of the same name apart.                                  *)
Line == [name : STRING, nr : Nat, marks : SUBSET Patterns, words : Nat,
         indent : Nat, coloured : BOOLEAN]

LineTexts == Seq(Line)

Plain(name, nr, words, marks) ==
  [name |-> name, nr |-> nr, marks |-> marks, words |-> words, indent |-> 0,
   coloured |-> FALSE]

Matches(line, pattern) ==
  /\ pattern \in line.marks
  /\ pattern \in {"blank", "ok", "failed", "dashes", "error", "location"} => ~line.coloured
  /\ pattern \in {"ok", "failed", "dashes"} => line.indent = 0

(* The places of the lines that match one of several patterns.             *)
Where(text, patterns) ==
  {i \in DOMAIN text : \E pattern \in patterns : Matches(text[i], pattern)}

Has(text, pattern) == Where(text, {pattern}) # {}

(* The n-th smallest of a set of places, and the lines at the places.      *)
Nth(places, n) == CHOOSE i \in places : Cardinality({j \in places : j <= i}) = n

Picked(text, places) == [n \in 1..Cardinality(places) |-> text[Nth(places, n)]]

Lines(text, patterns) == Picked(text, Where(text, patterns))

First(text, n) == SubSeq(text, 1, IF Len(text) < n THEN Len(text) ELSE n)

LastOnes(text, n) == SubSeq(text, IF Len(text) < n THEN 1 ELSE Len(text) - n + 1, Len(text))

(* No line is followed by itself.                                          *)
WithoutRepeats(text) ==
  Picked(text, {i \in DOMAIN text : i > 1 => text[i] # text[i - 1]})

Indented(text) == [i \in DOMAIN text |-> [text[i] EXCEPT !.indent = @ + 1]]

(* ApproximateCounter: words; white space does not count, the escapes that *)
(* turn a colour on and off do.                                            *)
EscapeWords == 6

Count(text) ==
  SumFunction([i \in DOMAIN text |->
                 text[i].words + (IF text[i].coloured THEN EscapeWords ELSE 0)])

=============================================================================
