------------------------------ MODULE Reducers ------------------------------
(***************************************************************************)
(* contextgc-policy's reducers, which rewrite the outputs of tools.        *)
(***************************************************************************)
EXTENDS Texts

CONSTANTS
  ErrorLines,    \* error-like lines an extraction keeps: 20 in the code
  TailLines,     \* last lines it repeats: 3 in the code
  FailureLines   \* lines a reduced test run keeps: 201 in the code

ASSUME ReducersAssumption ==
  ErrorLines \in Nat /\ TailLines \in Nat /\ FailureLines \in Nat

(* The names of the lines that reducers write themselves; that they are    *)
(* strings is assumed for the provers, to which strings are opaque.        *)
WrittenNames ==
  {"command", "exit_code", "errors:", "<none>", "final_status:", "tests passed", "0 failed",
   "artifact"}

ASSUME NamesAssumption == WrittenNames \subseteq STRING

-----------------------------------------------------------------------------
(* ShellReducer.                                                           *)

(* The text without its ANSI escapes.                                      *)
Uncoloured(text) == [i \in DOMAIN text |-> [text[i] EXCEPT !.coloured = FALSE]]

ShellReduce(text) ==
  LET stripped == Uncoloured(text)
      dropped == Where(stripped, {"blank", "progress"})
  IN WithoutRepeats(Picked(stripped, DOMAIN stripped \ dropped))

(* What it says of an item with a known command and exit_code.             *)
CommandLines == <<Plain("command", 0, 3, {}), Plain("exit_code", 0, 3, {})>>

(* Mutant of ShellExtract: only the last lines are kept.                   *)
ShellExtractTail(text, known) ==
  (IF known THEN CommandLines ELSE <<>>)
    \o <<Plain("final_status:", 0, 2, {})>> \o Indented(LastOnes(ShellReduce(text), TailLines))

ShellExtract(text, known) ==
  LET reduced == ShellReduce(text)
      errors == WithoutRepeats(Lines(reduced, {"errorlike"}))
      tail == LastOnes(reduced, TailLines)
  IN (IF known THEN CommandLines ELSE <<>>)
       \o <<Plain("errors:", 0, 2, {"errorlike"})>>
       \o (IF errors = <<>> THEN <<Plain("<none>", 0, 3, {})>>
           ELSE Indented(First(errors, ErrorLines)))
       \o (IF tail = <<>> THEN <<>>
           ELSE <<Plain("final_status:", 0, 2, {})>> \o Indented(tail))

-----------------------------------------------------------------------------
(* TestReducer, whose extract is its reduce.                               *)

(* The last line that names a duration, behind the word "duration".        *)
DurationPart(text) ==
  LET named == Where(text, {"duration"})
  IN IF named = {} THEN <<>>
     ELSE <<[text[Max(named)] EXCEPT
               !.words = @ + 1, !.indent = @ + 1,
               !.marks = (@ \ {"error", "location"}) \union {"duration"}]>>

(* The lines that it keeps of a run that did not pass.                     *)
FailurePatterns == {"failed", "header", "dashes"}

(* Mutant of TestReduce: a run with a passing test counts as passed.       *)
TestReducePasses(text) ==
  IF Has(text, "ok")
  THEN <<Plain("tests passed", 0, 3, {}), Plain("0 failed", 0, 2, {"errorlike"})>>
  ELSE Lines(text, FailurePatterns)

TestReduce(text) ==
  LET passed == Cardinality(Where(text, {"ok"}))
  IN IF ~Has(text, "failed") /\ passed > 0
     THEN <<Plain("tests passed", passed, 3, {}), Plain("0 failed", 0, 2, {"errorlike"})>>
            \o DurationPart(text)
     ELSE First(Lines(text, FailurePatterns), FailureLines)

-----------------------------------------------------------------------------
(* CompilerReducer, whose extract is its reduce.                           *)

CompilerReduce(text) == WithoutRepeats(Lines(text, {"error", "location"}))

-----------------------------------------------------------------------------
(* The reducer of a text: of default_reducers, the first that accepts it.  *)
(* FileReadReducer, the last one, accepts nothing.                         *)

CompilerCan(kind, text) == kind \in {"Error", "CommandOutput"} /\ Has(text, "bracket")

TestCan(kind, text) ==
  \/ kind = "TestResult"
  \/ kind = "CommandOutput" /\ (Has(text, "ok") \/ Has(text, "failed") \/ Has(text, "result"))

ShellCan(kind) == kind = "CommandOutput"

IsReducible(kind, text) == CompilerCan(kind, text) \/ TestCan(kind, text) \/ ShellCan(kind)

Reduced(kind, text) ==
  IF CompilerCan(kind, text) THEN CompilerReduce(text)
  ELSE IF TestCan(kind, text) THEN TestReduce(text)
  ELSE IF ShellCan(kind) THEN ShellReduce(text)
  ELSE text

Extracted(kind, text, known) ==
  IF CompilerCan(kind, text) THEN CompilerReduce(text)
  ELSE IF TestCan(kind, text) THEN TestReduce(text)
  ELSE IF ShellCan(kind) THEN ShellExtract(text, known)
  ELSE text

=============================================================================
