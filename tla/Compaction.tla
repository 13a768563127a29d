----------------------------- MODULE Compaction -----------------------------
(***************************************************************************)
(* Planner, contextgc-policy's reducers and the engine's materialization   *)
(* at work together: the context of a session through several compactions. *)
(* A round is a plan, pass by pass, and its materialization, after which   *)
(* the harness has submitted new items in place of those that were dropped.*)
(*                                                                         *)
(* An item's hash is its text, a sequence of lines as in module Reducers,  *)
(* and what the planner estimates is computed from the text.               *)
(*                                                                         *)
(* Simplifications:                                                        *)
(*  - an item whose command is known has an exit_code, too;                *)
(*  - the context is always of the same size: the harness submits as many  *)
(*    items as were dropped;                                               *)
(*  - artifacts are not stored: that is the subject of module Session.     *)
(***************************************************************************)
EXTENDS Planner, Reducers

CONSTANTS
  Arrivals,        \* the items the harness may submit between compactions
  ReferenceWords,  \* words of an artifact:// reference
  MaxRounds        \* bound: materializations

ASSUME CompactionAssumption ==
  /\ Arrivals \subseteq Shapes
  /\ ReferenceWords \in Nat \ {0}
  /\ MaxRounds \in Nat

VARIABLES
  round,   \* materializations so far
  origin   \* the text of every item as it was submitted

cycleVars == <<vars, round, origin>>

-----------------------------------------------------------------------------
(* An item with another text, and what the planner will make of it.        *)
WithText(it, text) ==
  [it EXCEPT !.hash = text,
             !.reducible = IsReducible(it.kind, text),
             !.reduced = Count(Reduced(it.kind, text)),
             !.extracted = Count(Extracted(it.kind, text, it.source))]

AtLeastOne(n) == IF n = 0 THEN 1 ELSE n

(* What the planner knows of an item is what the reducers make of it.  The *)
(* tokens of a new item are the harness's to say, those of a rewritten one *)
(* have been counted.                                                      *)
Consistent(it) ==
  /\ it = WithText(it, it.hash) /\ it.refTokens = ReferenceWords
  /\ it.level # L0 => it.tokens = AtLeastOne(Count(it.hash))

ASSUME ShapesAssumption == \A it \in Shapes : Consistent(it)

(* The references of different items differ.                               *)
Reference(i) == <<Plain("artifact", round * Size + i, ReferenceWords, {})>>

(* Mutant of TextAfter: extraction is mistaken for reduction.              *)
TextAfterReduced(i) ==
  LET it == item[i]
  IN CASE action[i] \in {"Keep", "Pin"} -> it.hash
       [] action[i] \in {"Reduce", "Extract"} -> Reduced(it.kind, it.hash)
       [] action[i] = "Externalize" -> Reference(i)

(* What materialize makes of the text of an item that stays.               *)
TextAfter(i) ==
  LET it == item[i]
  IN CASE action[i] \in {"Keep", "Pin"} -> it.hash
       [] action[i] = "Reduce" -> Reduced(it.kind, it.hash)
       [] action[i] = "Extract" -> Extracted(it.kind, it.hash, it.source)
       [] action[i] = "Externalize" -> Reference(i)

(* Tokens are counted again unless the item is verbatim, and an item with  *)
(* an artifact is recoverable from now on.                                 *)
Materialized(i) ==
  LET it == item[i]
      tokens == IF to[i] = L0 THEN it.tokens ELSE Count(TextAfter(i))
  IN [WithText(it, TextAfter(i)) EXCEPT
        !.level = to[i],
        !.tokens = AtLeastOne(tokens),
        !.recoverable = it.recoverable \/ action[i] = "Externalize"]

Kept == {i \in Index : to[i] # L5}

-----------------------------------------------------------------------------
CycleInit ==
  /\ Init
  /\ round = 0
  /\ origin = [i \in Index |-> item[i].hash]

PlanStep ==
  /\ PinPass \/ DedupPass \/ (\E i \in Index : Squeeze(i)) \/ Finish
  /\ UNCHANGED <<round, origin>>

(* Session::materialize, and the submissions up to the next plan.          *)
Materialize ==
  /\ phase = "done"
  /\ round < MaxRounds
  /\ round' = round + 1
  /\ \E new \in [1..(Size - Cardinality(Kept)) -> Arrivals] :
       LET kept == Cardinality(Kept)
           Stays(n) == n <= kept
       IN /\ item' = [n \in Index |-> IF Stays(n) THEN Materialized(Nth(Kept, n))
                                      ELSE new[n - kept]]
          /\ origin' = [n \in Index |-> IF Stays(n) THEN origin[Nth(Kept, n)]
                                        ELSE new[n - kept].hash]
  /\ forecast' \in Forecasts
  /\ action' = [i \in Index |-> "Keep"]
  /\ to' = [i \in Index |-> item'[i].level]
  /\ after' = [i \in Index |-> item'[i].tokens]
  /\ current' = Before'
  /\ phase' = "pin"

CycleNext == PlanStep \/ Materialize

Cycles == CycleInit /\ [][CycleNext]_cycleVars /\ WF_cycleVars(PlanStep)

-----------------------------------------------------------------------------
(* Properties.                                                             *)

(* An item that is externalized though nothing says that it is recoverable:*)
(* at L2 the planner takes the tokens of another extraction for those of a *)
(* reference.                                                              *)
Stray(i) == action[i] = "Externalize" /\ ~CanExternalize(i)

(* expected_tokens_after, which the history records before anything is     *)
(* rewritten, is what the rewritten context measures, but for the one      *)
(* token that a text of none counts for and for stray references.          *)
EstimatesMet ==
  [][Materialize /\ (\A i \in Index : ~Stray(i)) =>
       SumFunction([n \in 1..Cardinality(Kept) |-> item'[n].tokens])
         = current + Cardinality({i \in Kept : after[i] = 0})]_cycleVars

(* compute_plan's greedy loop cannot go round in circles, whatever earlier *)
(* compactions have left: every step takes a plan nearer to its end.       *)
PlansAdvance == [][PlanStep => StepsLeft' < StepsLeft]_cycleVars

(* The text of an item as far as the reducers tell lines apart.            *)
Names(text) == {<<text[i].name, text[i].nr>> : i \in DOMAIN text}

Marked(text, pattern) == {text[i] : i \in Where(text, {pattern})}

(* "test ... FAILED", at the start of a line and without colours.          *)
PlainFailures(text) ==
  {text[n] : n \in {n \in DOMAIN text : /\ "failed" \in text[n].marks
                                        /\ ~text[n].coloured /\ text[n].indent = 0}}

(* In the output of a test run (TestReducer's, not CompilerReducer's, which *)
(* comes first) the line of a failed test stays as long as the output does, *)
(* however often that is rewritten.  Two limits: the line has no colours,   *)
(* and the output has no more lines of the kinds that TestReducer keeps     *)
(* than it keeps of them.  Failures in colours are lost: DiagnosticsKept.   *)
FailuresKept ==
  \A i \in Index :
    /\ item[i].level \in {L1, L2}
    /\ ~CompilerCan(item[i].kind, origin[i]) /\ TestCan(item[i].kind, origin[i])
    /\ Cardinality(Where(origin[i], FailurePatterns)) <= FailureLines
    => PlainFailures(origin[i]) \subseteq Range(item[i].hash)

(* A line of progress is no message.                                       *)
Errors(text) == Where(text, {"errorlike"}) \ Where(text, {"blank", "progress"})

(* In the output of another command every error message stays, in colours  *)
(* or not, as long as there are no more lines with one than an extraction  *)
(* keeps.  It must not look like a test run once its colours are gone      *)
(* either: then its errors are lost, which is DiagnosticsKept, too.        *)
ErrorsKept ==
  \A i \in Index :
    LET text == Uncoloured(origin[i])
    IN /\ item[i].level \in {L1, L2} /\ item[i].kind = "CommandOutput"
       /\ ~CompilerCan(item[i].kind, text) /\ ~TestCan(item[i].kind, text)
       /\ Cardinality(Errors(text)) <= ErrorLines
       => \A n \in Errors(text) : <<text[n].name, text[n].nr>> \in Names(item[i].hash)

(* README.md: "Reduce noisy logs without throwing away useful              *)
(* diagnostics."  Of the lines in an output that ShellReducer would take   *)
(* for errors one at least stays, until the output is externalized.        *)
DiagnosticsKept ==
  \A i \in Index :
    LET text == Uncoloured(origin[i])
    IN item[i].level \in {L1, L2} /\ Errors(text) # {} =>
         \E n \in Errors(text) : <<text[n].name, text[n].nr>> \in Names(item[i].hash)

=============================================================================
