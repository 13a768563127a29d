------------------------------ MODULE Planner ------------------------------
(***************************************************************************)
(* contextgc-policy's DefaultPlanner: how compute_plan chooses an action   *)
(* and a level for every item of the active context.  One action per pass  *)
(* over the candidates and per round of the greedy loop.                   *)
(*                                                                         *)
(* Simplifications:                                                        *)
(*  - an item is a record of what the planner looks at: the tokens of its  *)
(*    present text and of what each rewriting would leave, what module     *)
(*    Importance reads, and its content, which stands for its hash;        *)
(*  - pressures, thresholds and recency are whole percentages, and         *)
(*    utilities are compared exactly; the code computes them in f32;       *)
(*  - token counts are far below 2^64, so nothing saturates.               *)
(***************************************************************************)
EXTENDS Texts, Representations, Importance

CONSTANTS
  Size,             \* number of items in the active context
  Shapes,           \* the items a context may be made of
  Forecasts,        \* predicted extra tokens of the next cycle
  Usable,           \* ContextBudget::usable_context
  TargetPressure,   \* config.context.target_pressure, in percent
  CompactPressure,  \* config.context.thresholds.compact, in percent
  EmergencyPressure,\* config.context.thresholds.emergency, in percent
  LargeResult,      \* config.tools.large_result_tokens
  Deduplicates,     \* config.tools.deduplicate
  PinConstraints,   \* config.preservation.pin_user_constraints
  PinErrors         \* config.preservation.pin_unresolved_errors

Index == 1..Size

(* The planner's view of a ContextItem.  reduced and extracted are the     *)
(* tokens the item's reducer would leave, refTokens those of its artifact  *)
(* reference, child that it has a parent_id, marked metadata.pinned.       *)
ItemShape ==
  [level : Levels \ {L5}, tokens : Nat, reducible : BOOLEAN, reduced : Nat,
   extracted : Nat, refTokens : Nat, kind : Kinds, state : States,
   hash : LineTexts, child : BOOLEAN, marked : BOOLEAN, explicit : BOOLEAN,
   recoverable : BOOLEAN, source : BOOLEAN, failed : BOOLEAN]

ASSUME PlannerAssumption ==
  /\ Size \in Nat /\ Usable \in Nat \ {0} /\ LargeResult \in Nat
  /\ Shapes \subseteq ItemShape
  /\ Forecasts \subseteq Nat
  /\ TargetPressure \in 0..100
  /\ CompactPressure \in 0..100 /\ EmergencyPressure \in CompactPressure..100
  /\ Deduplicates \in BOOLEAN
  /\ PinConstraints \in BOOLEAN /\ PinErrors \in BOOLEAN

PlanActions == {"Keep", "Pin", "Deduplicate", "Reduce", "Extract", "Externalize",
                "Evict"}

VARIABLES
  item,      \* the active context, oldest first
  forecast,  \* predicted extra tokens
  action,    \* Candidate::action of every item
  to,        \* Candidate::to_level
  after,     \* Candidate::estimated_after
  current,   \* the running token total
  phase      \* the pass compute_plan executes next

vars == <<item, forecast, action, to, after, current, phase>>

-----------------------------------------------------------------------------
(* The budget.                                                             *)

Tokens(i) == item[i].tokens

(* The sum over active_context, at the start of compute_plan.              *)
TokensOf(context) == SumFunction([i \in Index |-> context[i].tokens])

Before == TokensOf(item)

Percent(share) == (share * Usable) \div 100

(* predicted_pressure, against a threshold.                                *)
Reaches(threshold) == 100 * (Before + forecast) >= threshold * Usable

NeedsCompaction == Reaches(CompactPressure)

ConfiguredTarget == Percent(TargetPressure)

(* Mutant of ForecastTarget: the subtraction does not saturate at zero.    *)
ForecastTargetUnclamped == Percent(CompactPressure) - forecast

(* What the forecast leaves below the compact threshold.                   *)
ForecastTarget ==
  IF Percent(CompactPressure) >= forecast
  THEN Percent(CompactPressure) - forecast ELSE 0

Target ==
  IF NeedsCompaction /\ ForecastTarget < ConfiguredTarget
  THEN ForecastTarget ELSE ConfiguredTarget

-----------------------------------------------------------------------------
(* The candidates.                                                         *)

Pinned(i) == IsPinned(item[i], PinConstraints, PinErrors)

(* The items DedupIndex groups with i: those of its kind and content.      *)
Copies(i) ==
  {j \in Index : item[j].kind = item[i].kind /\ item[j].hash = item[i].hash}

(* Mutant of Canonical: the first copy is the canonical one.               *)
CanonicalFirst(i) == Min(Copies(i))

(* The item that DedupIndex takes for the canonical copy: the last one.    *)
Canonical(i) == Max(Copies(i))

IsDuplicate(i) == Canonical(i) # i

(* The total of an item's score, in ten-thousandths.                       *)
Score(i) ==
  IF Pinned(i) THEN 10000
  ELSE Total(item[i], (100 * (i - 1)) \div Size, Cardinality(Copies(i)),
             Canonical(i) = i)

CanExternalize(i) == item[i].recoverable /\ item[i].tokens >= LargeResult

(* Mutant of TokensAt: any item is estimated as if it could be referenced. *)
TokensAtAnyReference(i, level) ==
  LET it == item[i]
  IN CASE level = L1 -> IF it.reducible THEN it.reduced ELSE it.tokens
       [] level = L2 -> IF it.reducible THEN it.extracted ELSE it.tokens
       [] level = L4 -> it.refTokens
       [] level = L5 -> 0

(* The estimate for an item at a level, from the reducers and, where the   *)
(* item may be externalized, the length of its reference.                  *)
TokensAt(i, level) ==
  LET it == item[i]
      extracted == IF it.reducible THEN it.extracted ELSE it.tokens
  IN CASE level = L1 -> IF it.reducible THEN it.reduced ELSE it.tokens
       [] level = L2 -> extracted
       [] level = L4 -> IF CanExternalize(i) THEN it.refTokens ELSE extracted
       [] level = L5 -> 0

(* Mutant of NextLevel: the next level, whether it saves tokens or not.    *)
NextLevelAny(i) == Min({level \in {L1, L2, L4, L5} : level > to[i]})

(* Mutant of NextLevel: the search begins at the level an item has.        *)
NextLevelStays(i) ==
  Min({level \in {L1, L2, L4, L5} :
         /\ level >= to[i]
         /\ level = L5 \/ TokensAt(i, level) < after[i]})

(* next_effective_level: the next level that saves tokens, or eviction.    *)
NextLevel(i) ==
  Min({level \in {L1, L2, L4, L5} :
         /\ level > to[i]
         /\ level = L5 \/ TokensAt(i, level) < after[i]})

Savings(i) == after[i] - TokensAt(i, NextLevel(i))

(* Once the ordinary target is reached, a forecast alone evicts nothing.   *)
Withheld(i) == NextLevel(i) = L5 /\ current <= ConfiguredTarget

Eligible ==
  {i \in Index : /\ action[i] # "Pin" /\ to[i] # L5
                 /\ Savings(i) > 0 /\ ~Withheld(i)}

(* The denominator of an item's utility: what the code calls information   *)
(* loss, at least 1%, weighted by the level the item would go to.  It is   *)
(* the smaller, and the utility the larger, the more important the item.   *)
Cost(i) ==
  LET loss == 10000 - Score(i)
  IN (IF loss > 100 THEN loss ELSE 100) * (100 + 15 * NextLevel(i))

MoreUseful(i, j) == Savings(i) * Cost(j) > Savings(j) * Cost(i)

(* best_idx: the first item of the highest utility.                        *)
IsBest(i) ==
  /\ i \in Eligible
  /\ \A j \in Eligible : MoreUseful(i, j) \/ (~MoreUseful(j, i) /\ i <= j)

ActionFor(level) ==
  CASE level = L1 -> "Reduce"
    [] level = L2 -> "Extract"
    [] level = L4 -> "Externalize"
    [] level = L5 -> "Evict"

-----------------------------------------------------------------------------
Init ==
  /\ item \in [Index -> Shapes]
  /\ forecast \in Forecasts
  /\ action = [i \in Index |-> "Keep"]
  /\ to = [i \in Index |-> item[i].level]
  /\ after = [i \in Index |-> item[i].tokens]
  /\ current = Before
  /\ phase = "pin"

PinPass ==
  /\ phase = "pin"
  /\ action' = [i \in Index |-> IF Pinned(i) THEN "Pin" ELSE action[i]]
  /\ phase' = "dedup"
  /\ UNCHANGED <<item, forecast, to, after, current>>

(* Mutant of Repeated: pinned copies are removed as well.                  *)
RepeatedPinned ==
  {i \in Index : Deduplicates /\ IsDeduplicable(item[i]) /\ IsDuplicate(i)}

Repeated ==
  {i \in Index : /\ action[i] # "Pin" /\ Deduplicates
                 /\ IsDeduplicable(item[i]) /\ IsDuplicate(i)}

(* Mutant of DedupPass: the running total still counts the copies.         *)
DedupPassTotalKept ==
  /\ phase = "dedup"
  /\ action' = [i \in Index |-> IF i \in Repeated THEN "Deduplicate" ELSE action[i]]
  /\ to' = [i \in Index |-> IF i \in Repeated THEN L5 ELSE to[i]]
  /\ after' = [i \in Index |-> IF i \in Repeated THEN 0 ELSE after[i]]
  /\ phase' = "greedy"
  /\ UNCHANGED <<item, forecast, current>>

DedupPass ==
  /\ phase = "dedup"
  /\ action' = [i \in Index |-> IF i \in Repeated THEN "Deduplicate" ELSE action[i]]
  /\ to' = [i \in Index |-> IF i \in Repeated THEN L5 ELSE to[i]]
  /\ after' = [i \in Index |-> IF i \in Repeated THEN 0 ELSE after[i]]
  /\ current' = current - SumFunctionOnSet([i \in Index |-> Tokens(i)], Repeated)
  /\ phase' = "greedy"
  /\ UNCHANGED <<item, forecast>>

(* One round of the greedy loop.                                           *)
Squeeze(i) ==
  /\ phase = "greedy"
  /\ current > Target
  /\ IsBest(i)
  /\ action' = [action EXCEPT ![i] = ActionFor(NextLevel(i))]
  /\ to' = [to EXCEPT ![i] = NextLevel(i)]
  /\ after' = [after EXCEPT ![i] = TokensAt(i, NextLevel(i))]
  /\ current' = current - Savings(i)
  /\ UNCHANGED <<item, forecast, phase>>

(* Mutant of Finish: the loop goes on while the target is not reached.     *)
FinishAtTarget ==
  /\ phase = "greedy"
  /\ current <= Target
  /\ phase' = "done"
  /\ UNCHANGED <<item, forecast, action, to, after, current>>

Finish ==
  /\ phase = "greedy"
  /\ current <= Target \/ Eligible = {}
  /\ phase' = "done"
  /\ UNCHANGED <<item, forecast, action, to, after, current>>

Next == PinPass \/ DedupPass \/ (\E i \in Index : Squeeze(i)) \/ Finish

Spec == Init /\ [][Next]_vars /\ WF_vars(Next)

-----------------------------------------------------------------------------
(* Properties.                                                             *)

TypeOK ==
  /\ item \in [Index -> ItemShape] /\ forecast \in Forecasts
  /\ action \in [Index -> PlanActions]
  /\ to \in [Index -> Levels]
  /\ after \in [Index -> Nat]
  /\ current \in Nat
  /\ Target \in 0..ConfiguredTarget
  /\ phase \in {"pin", "dedup", "greedy", "done"}

(* expected_tokens_after, which the compaction history records, is what    *)
(* the actions of the plan add up to.                                      *)
TotalMatchesActions == current = SumFunction(after)

(* What docs/policy.md lists under "Pinned context".                       *)
MustStay(it) ==
  \/ it.kind \in Prompts
  \/ PinConstraints /\ it.kind = "Constraint"
  \/ PinErrors /\ it.kind = "Error" /\ it.state = "Active" /\ it.failed
  \/ it.marked

(* What the documentation says is pinned leaves the planner as it came,    *)
(* also when it is a repeated copy of a newer item or the one that would   *)
(* save most.                                                              *)
PinnedUntouched ==
  phase # "pin" => \A i \in Index : MustStay(item[i]) =>
    action[i] = "Pin" /\ to[i] = item[i].level /\ after[i] = item[i].tokens

(* docs/policy.md on Deduplicate: a copy is removed only if a newer one    *)
(* with the same kind and content was not removed as a copy.               *)
NewerCopyStays ==
  \A i \in Index : action[i] = "Deduplicate" =>
    \E j \in Copies(i) : j > i /\ action[j] # "Deduplicate"

(* The planner gives up above the ordinary target only when the items that *)
(* are not pinned have no token left, and above the forecast's target only *)
(* when none of them can be rewritten or referenced any shorter.           *)
GivesUpLast ==
  phase = "done" =>
    \A i \in Index : action[i] # "Pin" =>
      /\ current > ConfiguredTarget => after[i] = 0
      /\ current > Target => \A level \in {L1, L2, L4} :
           level > to[i] => TokensAt(i, level) >= after[i]

(* Every plan is one that Session allows for.                              *)
PlanAllowed ==
  phase = "done" =>
    \A i \in Index :
      LET chosen == IF action[i] \in {"Deduplicate", "Evict"} THEN "Drop" ELSE action[i]
      IN chosen \in PlanOptions(item[i].level, Pinned(i), item[i].reducible,
                               CanExternalize(i))

(* What makes the two invariants above inductive: how far an item has come *)
(* says where it started, and that its estimate is that of its level.  A   *)
(* level is only entered when it saves tokens, so a reducible item goes to *)
(* L4 without being recoverable only if it has stood at L2 all along.      *)
Chosen(i) ==
  LET it == item[i]
  IN /\ phase = "pin" => action[i] = "Keep"
     /\ phase # "pin" /\ Pinned(i) => action[i] = "Pin"
     /\ action[i] = "Pin" => Pinned(i)
     /\ action[i] \in {"Keep", "Pin"} => to[i] = it.level /\ after[i] = it.tokens
     /\ action[i] = "Reduce" =>
          it.reducible /\ it.level = L0 /\ to[i] = L1 /\ after[i] = it.reduced
     /\ action[i] = "Extract" =>
          /\ it.reducible /\ it.level \in {L0, L1}
          /\ to[i] = L2 /\ after[i] = it.extracted
     /\ action[i] = "Externalize" =>
          /\ to[i] = L4
          /\ \/ CanExternalize(i) /\ it.level \in {L0, L1, L2}
             \/ it.reducible /\ it.level = L2
     /\ action[i] \in {"Deduplicate", "Evict"} => to[i] = L5

ChosenInv ==
  /\ item \in [Index -> ItemShape]
  /\ action \in [Index -> PlanActions]
  /\ to \in [Index -> Levels]
  /\ after \in [Index -> Nat]
  /\ \A i \in Index : Chosen(i)

(* How many steps a plan has left at most: a pass each, and every level    *)
(* that an item can still be taken on.                                     *)
PassesLeft == [pin |-> 3, dedup |-> 2, greedy |-> 1, done |-> 0]

StepsLeft == PassesLeft[phase] + SumFunction([i \in Index |-> L5 - to[i]])

(* compute_plan returns: the greedy loop ends.                             *)
Returns == phase = "pin" ~> phase = "done"

(* The reason that is given for an eviction: "evict: low importance".  Of  *)
(* two items that are alike but for what makes them important, the more    *)
(* important one is not evicted while the other is kept.                   *)
Alike(i, j) ==
  /\ item[i].level = item[j].level /\ item[i].tokens = item[j].tokens
  /\ \A level \in {L1, L2, L4} : TokensAt(i, level) = TokensAt(j, level)

LowImportanceFirst ==
  phase = "done" =>
    \A i, j \in Index :
      action[i] = "Evict" /\ action[j] = "Keep" /\ Alike(i, j) =>
        Score(i) <= Score(j)

=============================================================================
