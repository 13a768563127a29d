--------------------------- MODULE PlannerProofs ---------------------------
(***************************************************************************)
(* What a plan may contain, for contexts of any size and items of any      *)
(* tokens, scores and thresholds: pinned items are left as they came, and  *)
(* every action is one that PlanOptions lists, which is all that Session   *)
(* assumes of the planner.                                                 *)
(***************************************************************************)
EXTENDS Planner, SumTheorems, WellFoundedInduction, TLAPS

(* The level of an action that changes the representation of an item.      *)
LEMMA LevelValues ==
  /\ L0 = 0 /\ L1 = 1 /\ L2 = 2 /\ L4 = 4 /\ L5 = 5
  /\ Levels = {0, 1, 2, 4, 5}
BY DEF L0, L1, L2, L4, L5, Levels

(* An estimate is a number of tokens.                                      *)
LEMMA TokensAtType ==
  ASSUME ChosenInv, NEW i \in Index, NEW level \in {L1, L2, L4, L5}
  PROVE  TokensAt(i, level) \in Nat
<1>1. item[i] \in ItemShape
  BY PlannerAssumption DEF ChosenInv
<1> QED
  BY <1>1, LevelValues DEF TokensAt, ItemShape

(* next_effective_level finds a level as long as the item is not evicted:  *)
(* a later one, that saves tokens unless it is eviction, before which no   *)
(* level saves any.                                                        *)
LEMMA NextLevelIsFirst ==
  ASSUME ChosenInv, NEW i \in Index, to[i] # L5
  PROVE  /\ NextLevel(i) \in {L1, L2, L4, L5}
         /\ NextLevel(i) > to[i]
         /\ NextLevel(i) = L5 \/ TokensAt(i, NextLevel(i)) < after[i]
         /\ \A level \in {L1, L2, L4, L5} :
              /\ level > to[i]
              /\ TokensAt(i, level) < after[i]
              => NextLevel(i) <= level
<1> DEFINE Saves(level) == level = L5 \/ TokensAt(i, level) < after[i]
           Better == {level \in {L1, L2, L4, L5} : level > to[i] /\ Saves(level)}
<1>1. to[i] \in {0, 1, 2, 4}
  BY LevelValues DEF ChosenInv
<1>2. L5 \in Better /\ Better \subseteq {1, 2, 4, 5}
  BY <1>1, LevelValues
<1>3. \E x \in Better : \A y \in Better : x =< y
  <2> HIDE DEF Better
  <2>1. CASE 1 \in Better
    BY <2>1, <1>2
  <2>2. CASE 1 \notin Better /\ 2 \in Better
    BY <2>2, <1>2
  <2>3. CASE 1 \notin Better /\ 2 \notin Better /\ 4 \in Better
    BY <2>3, <1>2
  <2>4. CASE 1 \notin Better /\ 2 \notin Better /\ 4 \notin Better
    BY <2>4, <1>2, LevelValues
  <2> QED
    BY <2>1, <2>2, <2>3, <2>4
<1>4. NextLevel(i) = Min(Better)
  BY DEF NextLevel
<1>5. NextLevel(i) \in Better /\ \A y \in Better : NextLevel(i) =< y
  <2> HIDE DEF Better
  <2> QED
    BY <1>3, <1>4 DEF Min
<1> QED
  BY <1>5

(* A plan begins with every item kept as it is, whatever items the context *)
(* consists of.                                                            *)
Fresh ==
  /\ item \in [Index -> ItemShape]
  /\ forecast \in Forecasts
  /\ action = [i \in Index |-> "Keep"]
  /\ to = [i \in Index |-> item[i].level]
  /\ after = [i \in Index |-> item[i].tokens]
  /\ current = Before
  /\ phase = "pin"

LEMMA InitFresh == Init => Fresh
BY PlannerAssumption DEF Init, Fresh

LEMMA ChosenInit == Fresh => ChosenInv
<1> SUFFICES ASSUME Fresh PROVE ChosenInv
  OBVIOUS
<1>1. \A i \in Index : item[i] \in ItemShape
  BY DEF Fresh
<1> QED
  BY <1>1, LevelValues DEF Fresh, ChosenInv, Chosen, ItemShape, PlanActions

(* A round of the greedy loop takes item i on to where it saves tokens.    *)
LEMMA ChosenSqueeze ==
  ASSUME ChosenInv, NEW i \in Index, Squeeze(i)
  PROVE  ChosenInv'
<1> DEFINE level == NextLevel(i)
           it == item[i]
<1>1. /\ it \in ItemShape /\ to[i] \in Levels /\ after[i] \in Nat
      /\ action[i] \in PlanActions /\ Chosen(i)
  BY PlannerAssumption DEF ChosenInv
<1>2. action[i] # "Pin" /\ to[i] # L5
  BY DEF Squeeze, IsBest, Eligible
<1>3. phase = "greedy" /\ ~Pinned(i)
  BY <1>1, <1>2 DEF Squeeze, Chosen
<1>4. /\ level \in {L1, L2, L4, L5} /\ level > to[i]
      /\ level = L5 \/ TokensAt(i, level) < after[i]
      /\ L2 > to[i] /\ TokensAt(i, L2) < after[i] => level <= L2
  BY <1>2, NextLevelIsFirst
<1>5. TokensAt(i, level) \in Nat
  BY <1>4, TokensAtType
<1>6. /\ item' = item /\ phase' = "greedy"
      /\ action' = [action EXCEPT ![i] = ActionFor(level)]
      /\ to' = [to EXCEPT ![i] = level]
      /\ after' = [after EXCEPT ![i] = TokensAt(i, level)]
  BY <1>3 DEF Squeeze
<1>7. /\ action[i] \in {"Keep", "Reduce", "Extract", "Externalize"}
      /\ action'[i] = ActionFor(level) /\ to'[i] = level
      /\ after'[i] = TokensAt(i, level)
  BY <1>1, <1>2, <1>6 DEF PlanActions, Chosen, ChosenInv
<1> HIDE DEF level
<1>8. Chosen(i)'
  <2>1. CASE level = L1
    <3>1. to[i] = L0 /\ action[i] = "Keep"
      BY <1>1, <1>4, <1>7, <2>1, LevelValues DEF Chosen, ItemShape
    <3>2. it.reducible /\ TokensAt(i, L1) = it.reduced
      BY <1>1, <1>4, <2>1, <3>1, LevelValues DEF Chosen, TokensAt, ItemShape
    <3> QED
      BY <1>1, <1>3, <1>6, <1>7, <2>1, <3>1, <3>2, LevelValues
      DEF Chosen, ActionFor, CanExternalize, Pinned
  <2>2. CASE level = L2
    <3>1. to[i] \in {L0, L1} /\ action[i] \in {"Keep", "Reduce"}
      BY <1>1, <1>4, <1>7, <2>2, LevelValues DEF Chosen, ItemShape
    <3>2. it.reducible /\ TokensAt(i, L2) = it.extracted
      BY <1>1, <1>4, <2>2, <3>1, LevelValues DEF Chosen, TokensAt, ItemShape
    <3> QED
      BY <1>1, <1>3, <1>6, <1>7, <2>2, <3>1, <3>2, LevelValues
      DEF Chosen, ActionFor, CanExternalize, Pinned
  <2>3. CASE level = L4
    <3>1. to[i] \in {L0, L1, L2} /\ action[i] \in {"Keep", "Reduce", "Extract"}
      BY <1>1, <1>4, <1>7, <2>3, LevelValues DEF Chosen, ItemShape
    <3>2. it.level \in {L0, L1, L2}
      BY <1>1, <3>1, LevelValues DEF Chosen
    <3>3. ~CanExternalize(i) => it.reducible /\ it.level = L2
      <4> SUFFICES ASSUME ~CanExternalize(i) PROVE it.reducible /\ it.level = L2
        OBVIOUS
      <4>1. TokensAt(i, L4) = TokensAt(i, L2) /\ TokensAt(i, L4) < after[i]
        BY <1>4, <2>3, LevelValues DEF TokensAt
      <4>2. to[i] = L2
        BY <1>4, <2>3, <3>1, <4>1, LevelValues
      <4> QED
        BY <1>1, <3>1, <4>1, <4>2, LevelValues DEF Chosen, TokensAt, ItemShape
    <3> QED
      BY <1>1, <1>3, <1>6, <1>7, <2>3, <3>2, <3>3, LevelValues
      DEF Chosen, ActionFor, CanExternalize, Pinned
  <2>4. CASE level = L5
    BY <1>1, <1>3, <1>6, <1>7, <2>4, LevelValues DEF Chosen, ActionFor, Pinned
  <2> QED
    BY <1>4, <2>1, <2>2, <2>3, <2>4
<1>9. ASSUME NEW j \in Index, j # i
      PROVE  Chosen(j)'
  <2>1. /\ action'[j] = action[j] /\ to'[j] = to[j] /\ after'[j] = after[j]
        /\ Chosen(j)
    BY <1>6, <1>9 DEF ChosenInv
  <2> QED
    BY <1>3, <1>6, <2>1 DEF Chosen, CanExternalize, Pinned
<1>10. ActionFor(level) \in PlanActions /\ level \in Levels
  BY <1>4, LevelValues DEF ActionFor, PlanActions
<1> QED
  BY <1>5, <1>6, <1>8, <1>9, <1>10 DEF ChosenInv

(* No pass and no round leaves an item with an action that is not due.     *)
LEMMA ChosenStep == ChosenInv /\ [Next]_vars => ChosenInv'
<1> SUFFICES ASSUME ChosenInv, [Next]_vars PROVE ChosenInv'
  OBVIOUS
<1>1. CASE PinPass
  <2>1. \A i \in Index :
          action'[i] = IF Pinned(i) THEN "Pin" ELSE action[i]
    BY <1>1 DEF PinPass
  <2>2. ASSUME NEW i \in Index PROVE Chosen(i)'
    <3>1. CASE Pinned(i)
      BY <1>1, <2>1, <3>1 DEF ChosenInv, Chosen, PinPass, Pinned
    <3>2. CASE ~Pinned(i)
      BY <1>1, <2>1, <3>2 DEF ChosenInv, Chosen, PinPass, CanExternalize, Pinned
    <3> QED
      BY <3>1, <3>2
  <2>3. action' \in [Index -> PlanActions]
    BY <1>1 DEF ChosenInv, PinPass, PlanActions
  <2> QED
    BY <1>1, <2>2, <2>3 DEF ChosenInv, PinPass
<1>2. CASE DedupPass
  <2>1. ASSUME NEW i \in Index PROVE Chosen(i)'
    <3>1. CASE i \in Repeated
      BY <1>2, <3>1 DEF ChosenInv, Chosen, DedupPass, Repeated, Pinned
    <3>2. CASE i \notin Repeated
      BY <1>2, <3>2 DEF ChosenInv, Chosen, DedupPass, CanExternalize, Pinned
    <3> QED
      BY <3>1, <3>2
  <2> QED
    BY <1>2, <2>1, LevelValues DEF ChosenInv, DedupPass, PlanActions
<1>3. ASSUME NEW i \in Index, Squeeze(i) PROVE ChosenInv'
  BY <1>3, ChosenSqueeze
<1>4. CASE Finish
  BY <1>4 DEF ChosenInv, Chosen, Finish, CanExternalize, Pinned
<1>5. CASE UNCHANGED vars
  BY <1>5 DEF ChosenInv, Chosen, vars, CanExternalize, Pinned
<1> QED
  BY <1>1, <1>2, <1>3, <1>4, <1>5 DEF Next

(* In every run of compute_plan the actions say how far the items are.     *)
THEOREM ChosenCorrect == Spec => []ChosenInv
BY InitFresh, ChosenInit, ChosenStep, PTL DEF Spec

LEMMA ChosenLeavesPinned == ChosenInv => PinnedUntouched
<1>1. ASSUME NEW i \in Index, MustStay(item[i])
      PROVE  Pinned(i)
  BY <1>1 DEF MustStay, Pinned, IsPinned, IsUnresolved, Prompts
<1> QED
  BY <1>1 DEF ChosenInv, Chosen, PinnedUntouched

LEMMA ChosenIsAllowed == ChosenInv => PlanAllowed
<1>1. ASSUME ChosenInv, phase = "done", NEW i \in Index
      PROVE  (IF action[i] \in {"Deduplicate", "Evict"} THEN "Drop" ELSE action[i])
               \in PlanOptions(item[i].level, Pinned(i), item[i].reducible,
                               CanExternalize(i))
  <2>1. Chosen(i) /\ action[i] \in PlanActions
    BY <1>1 DEF ChosenInv
  <2>2. Pinned(i) <=> action[i] = "Pin"
    BY <1>1, <2>1 DEF Chosen
  <2> QED
    BY <2>1, <2>2, LevelValues DEF Chosen, PlanActions, PlanOptions
<1> QED
  BY <1>1 DEF PlanAllowed

(* What is pinned leaves the planner as it came, whatever the context, and *)
(* all that the documentation lists is pinned.                             *)
THEOREM PinsAlwaysUntouched == Spec => []PinnedUntouched
BY ChosenLeavesPinned, ChosenCorrect, PTL

(* Every plan is one that Session allows for, whatever the context.        *)
THEOREM PlansAlwaysAllowed == Spec => []PlanAllowed
BY ChosenIsAllowed, ChosenCorrect, PTL

-----------------------------------------------------------------------------
(* Deduplication.                                                          *)

(* Of the numbers up to n that are in a set one is the last.               *)
LEMMA LastUpTo ==
  ASSUME NEW n \in Nat, NEW S \in SUBSET (1..n), S # {}
  PROVE  Max(S) \in S /\ \A j \in S : j <= Max(S)
<1> DEFINE T == {n - j : j \in S}
<1>1. T \subseteq Nat /\ T # {}
  OBVIOUS
<1>2. PICK m \in T : \A k \in T : <<k, m>> \notin OpToRel(<, Nat)
  <2> HIDE DEF T
  <2> QED
    BY <1>1, NatLessThanWellFounded, WFMin
<1>3. \A k \in T : ~(k < m)
  <2> HIDE DEF T
  <2> QED
    BY <1>1, <1>2 DEF OpToRel
<1>4. PICK last \in S : m = n - last
  OBVIOUS
<1>5. \A j \in S : n - j \in T /\ n - j \in Nat /\ j \in Nat
  BY <1>1
<1>6. \A j \in S : last >= j
  <2> HIDE DEF T
  <2> SUFFICES ASSUME NEW j \in S PROVE last >= j
    OBVIOUS
  <2>1. ~(n - j < n - last)
    BY <1>3, <1>4, <1>5
  <2> QED
    BY <1>5, <2>1
<1>7. \E x \in S : \A y \in S : x >= y
  BY <1>6
<1>8. Max(S) \in S /\ \A y \in S : Max(S) >= y
  BY <1>7 DEF Max
<1> QED
  BY <1>5, <1>8

LEMMA LastExists ==
  ASSUME NEW S, S \subseteq Index, S # {}
  PROVE  Max(S) \in S /\ \A j \in S : j <= Max(S)
BY PlannerAssumption, LastUpTo DEF Index

(* The newest copy of an item is that of all its copies.                   *)
LEMMA CanonicalIsNewest ==
  ASSUME NEW i \in Index
  PROVE  /\ Canonical(i) \in Copies(i) /\ Canonical(i) >= i
         /\ Canonical(Canonical(i)) = Canonical(i)
<1>1. i \in Copies(i) /\ Copies(i) \subseteq Index
  BY DEF Copies
<1>2. Canonical(i) \in Copies(i) /\ \A j \in Copies(i) : j <= Canonical(i)
  BY <1>1, LastExists DEF Canonical
<1>3. Copies(Canonical(i)) = Copies(i)
  BY <1>2 DEF Copies
<1>4. i \in Nat /\ Canonical(i) \in Nat
  BY <1>1, <1>2, PlannerAssumption DEF Index
<1> QED
  BY <1>1, <1>2, <1>3, <1>4 DEF Canonical

(* Only items that have a newer copy are removed as copies.                *)
CopiesInv == \A i \in Index : action[i] = "Deduplicate" => IsDuplicate(i)

LEMMA CopiesStep == ChosenInv /\ CopiesInv /\ [Next]_vars => CopiesInv'
<1> SUFFICES ASSUME ChosenInv, CopiesInv, [Next]_vars PROVE CopiesInv'
  OBVIOUS
<1>1. item' = item
  BY DEF Next, PinPass, DedupPass, Squeeze, Finish, vars
<1>2. \A i \in Index : IsDuplicate(i)' <=> IsDuplicate(i)
  BY <1>1 DEF IsDuplicate, Canonical, Copies
<1>3. ASSUME NEW i \in Index, action'[i] = "Deduplicate"
      PROVE  action[i] = "Deduplicate" \/ IsDuplicate(i)
  <2>1. CASE PinPass
    BY <1>3, <2>1 DEF PinPass
  <2>2. CASE DedupPass
    BY <1>3, <2>2 DEF DedupPass, Repeated
  <2>3. ASSUME NEW j \in Index, Squeeze(j)
        PROVE  action[i] = "Deduplicate"
    <3>1. to[j] # L5 /\ action' = [action EXCEPT ![j] = ActionFor(NextLevel(j))]
      BY <2>3 DEF Squeeze, IsBest, Eligible
    <3>2. NextLevel(j) \in {L1, L2, L4, L5}
      BY <3>1, NextLevelIsFirst
    <3>3. ActionFor(NextLevel(j)) # "Deduplicate"
      BY <3>2, LevelValues DEF ActionFor
    <3> QED
      BY <1>3, <3>1, <3>3 DEF ChosenInv
  <2>4. CASE Finish \/ UNCHANGED vars
    BY <1>3, <2>4 DEF Finish, vars
  <2> QED
    BY <2>1, <2>2, <2>3, <2>4 DEF Next
<1> QED
  BY <1>2, <1>3 DEF CopiesInv

LEMMA CopiesInit == Fresh => CopiesInv
BY DEF Fresh, CopiesInv

LEMMA CopiesKeepNewest == CopiesInv => NewerCopyStays
<1> SUFFICES ASSUME CopiesInv, NEW i \in Index, action[i] = "Deduplicate"
             PROVE  \E j \in Copies(i) : j > i /\ action[j] # "Deduplicate"
  BY DEF NewerCopyStays
<1>1. Canonical(i) # i
  BY DEF CopiesInv, IsDuplicate
<1>2. /\ Canonical(i) \in Copies(i) /\ Canonical(i) >= i
      /\ Canonical(Canonical(i)) = Canonical(i)
  BY CanonicalIsNewest
<1>3. Canonical(i) \in Index /\ i \in Nat /\ Canonical(i) \in Nat
  BY <1>2, PlannerAssumption DEF Copies, Index
<1>4. action[Canonical(i)] # "Deduplicate"
  BY <1>2, <1>3 DEF CopiesInv, IsDuplicate
<1> QED
  BY <1>1, <1>2, <1>3, <1>4

(* Of repeated content the newest copy is not removed as one, though the   *)
(* passes look at pins and at the running total before and after.          *)
THEOREM NewerCopyAlwaysStays == Spec => []NewerCopyStays
BY InitFresh, CopiesInit, CopiesStep, CopiesKeepNewest, ChosenInit, ChosenStep, PTL DEF Spec

-----------------------------------------------------------------------------
(* The end of the greedy loop.                                             *)

LEMMA PercentType ==
  ASSUME NEW share \in 0..100
  PROVE  Percent(share) \in Nat
<1>1. share * Usable \in Nat
  BY PlannerAssumption
<1> QED
  BY <1>1 DEF Percent

LEMMA TargetType ==
  ASSUME forecast \in Nat
  PROVE  ConfiguredTarget \in Nat /\ Target \in 0..ConfiguredTarget
<1>1. Percent(TargetPressure) \in Nat /\ Percent(CompactPressure) \in Nat
  BY PercentType, PlannerAssumption
<1>2. ConfiguredTarget \in Nat /\ ForecastTarget \in Nat
  BY <1>1 DEF ConfiguredTarget, ForecastTarget
<1> QED
  BY <1>2 DEF Target

(* What has left the context counts no tokens, and the loop has ended at   *)
(* its target or with no item that it could take on.                       *)
EndInv ==
  /\ forecast \in Nat
  /\ \A i \in Index : to[i] = L5 => after[i] = 0
  /\ phase = "done" => current <= Target \/ Eligible = {}

(* The tokens of a context depend on its items alone.                      *)
LEMMA BeforeSame == item' = item => Before' = Before
  BY DEF Before

LEMMA EndInit == Fresh => EndInv
<1> SUFFICES ASSUME Fresh PROVE EndInv
  OBVIOUS
<1>1. \A i \in Index : item[i] \in ItemShape
  BY DEF Fresh
<1>2. \A i \in Index : to[i] # L5
  BY <1>1 DEF Fresh, ItemShape
<1> QED
  BY <1>2, PlannerAssumption DEF Fresh, EndInv

LEMMA EndStep == ChosenInv /\ EndInv /\ [Next]_vars => EndInv'
<1> SUFFICES ASSUME ChosenInv, EndInv, [Next]_vars PROVE EndInv'
  OBVIOUS
<1>1. CASE PinPass
  BY <1>1 DEF EndInv, PinPass
<1>2. CASE DedupPass
  <2>1. phase' = "greedy" /\ forecast' = forecast /\ \A i \in Index : to'[i] = L5 => after'[i] = 0
    BY <1>2 DEF EndInv, DedupPass
  <2> QED
    BY <2>1 DEF EndInv
<1>3. ASSUME NEW i \in Index, Squeeze(i) PROVE EndInv'
  <2>1. /\ phase' = "greedy" /\ forecast' = forecast
        /\ to' = [to EXCEPT ![i] = NextLevel(i)]
        /\ after' = [after EXCEPT ![i] = TokensAt(i, NextLevel(i))]
    BY <1>3 DEF Squeeze
  <2>2. TokensAt(i, L5) = 0
    BY LevelValues DEF TokensAt
  <2>3. \A j \in Index : to'[j] = L5 => after'[j] = 0
    BY <2>1, <2>2 DEF EndInv, ChosenInv
  <2> QED
    BY <2>1, <2>3 DEF EndInv
<1>4. CASE Finish \/ UNCHANGED vars
  <2>1. UNCHANGED <<item, forecast, action, to, after, current>>
    BY <1>4 DEF Finish, vars
  <2>2. Target' = Target
    BY <2>1, BeforeSame DEF Target, NeedsCompaction, Reaches, ForecastTarget,
       ConfiguredTarget, Percent
  <2>3. Eligible' = Eligible
    BY <2>1 DEF Eligible, Savings, Withheld, NextLevel, TokensAt, CanExternalize,
       ConfiguredTarget, Percent
  <2>4. phase' = "done" => current <= Target \/ Eligible = {}
    BY <1>4 DEF EndInv, Finish, vars
  <2> QED
    BY <2>1, <2>2, <2>3, <2>4 DEF EndInv
<1> QED
  BY <1>1, <1>2, <1>3, <1>4 DEF Next

(* The running total.                                                      *)

(* Before the second pass nothing but pins has been decided, and a copy    *)
(* that it removes still counts what its text holds.                       *)
TotalInv ==
  /\ TotalMatchesActions
  /\ phase = "dedup" => \A i \in Index : action[i] \in {"Keep", "Pin"}
  /\ phase \in {"pin", "dedup", "greedy", "done"}
  /\ forecast \in Forecasts

LEMMA IndexFinite == IsFiniteSet(Index)
BY PlannerAssumption, FS_Interval DEF Index

LEMMA TotalIsNat ==
  ASSUME ChosenInv, TotalInv
  PROVE  current \in Nat
<1>1. after \in [Index -> Nat] /\ current = SumFunctionOnSet(after, Index)
  BY DEF ChosenInv, TotalInv, TotalMatchesActions, SumFunction
<1> QED
  BY <1>1, IndexFinite, SumNat

LEMMA TotalInit == Fresh => TotalInv
<1> SUFFICES ASSUME Fresh PROVE TotalInv
  OBVIOUS
<1>1. after = [i \in Index |-> item[i].tokens]
  BY DEF Fresh
<1>2. current = SumFunction(after)
  BY <1>1 DEF Fresh, Before, TokensOf
<1> QED
  BY <1>2 DEF Fresh, TotalInv, TotalMatchesActions

(* The pass that removes copies takes what they count off the total.       *)
LEMMA TotalDedup ==
  ASSUME ChosenInv, TotalInv, DedupPass
  PROVE  TotalMatchesActions'
<1> DEFINE tokens == [i \in Index |-> Tokens(i)]
           Rest == Index \ Repeated
<1>1. /\ current' = current - SumFunctionOnSet(tokens, Repeated)
      /\ after' = [i \in Index |-> IF i \in Repeated THEN 0 ELSE after[i]]
  BY DEF DedupPass
<1>2. after \in [Index -> Nat] /\ current = SumFunctionOnSet(after, Index)
  BY DEF ChosenInv, TotalInv, TotalMatchesActions, SumFunction
<1>3. \A i \in Repeated : i \in Index /\ after[i] = tokens[i]
  BY DEF ChosenInv, Chosen, TotalInv, DedupPass, Repeated, Tokens
<1>4. /\ Repeated \subseteq Index /\ Repeated \union Rest = Index
      /\ Repeated \intersect Rest = {} /\ IsFiniteSet(Repeated) /\ IsFiniteSet(Rest)
  BY <1>3, IndexFinite, FS_Subset
<1> HIDE DEF Rest, tokens
<1>5. SumFunctionOnSet(tokens, Repeated) = SumFunctionOnSet(after, Repeated)
  BY <1>2, <1>3, <1>4, SumSame
<1>6. SumFunctionOnSet(after', Repeated) = 0
  BY <1>1, <1>4, SumZero
<1>7. SumFunctionOnSet(after', Rest) = SumFunctionOnSet(after, Rest)
  <2>1. \A i \in Rest : after[i] \in Int /\ after'[i] = after[i]
    BY <1>1, <1>2, <1>4
  <2> QED
    BY <1>4, <2>1, SumSame
<1>8. SumFunctionOnSet(after, Index)
        = SumFunctionOnSet(after, Repeated) + SumFunctionOnSet(after, Rest)
  <2>1. \A i \in Repeated \union Rest : after[i] \in Int
    BY <1>2, <1>4
  <2> QED
    BY <1>4, <2>1, SumUnion
<1>9. SumFunctionOnSet(after', Index)
        = SumFunctionOnSet(after', Repeated) + SumFunctionOnSet(after', Rest)
  <2>1. \A i \in Repeated \union Rest : after'[i] \in Int
    BY <1>1, <1>2, <1>4
  <2> QED
    BY <1>4, <2>1, SumUnion
<1>10. SumFunctionOnSet(after, Repeated) \in Int /\ SumFunctionOnSet(after, Rest) \in Int
  <2>1. /\ \A i \in Repeated : after[i] \in Int
        /\ \A i \in Rest : after[i] \in Int
    BY <1>2, <1>4
  <2> QED
    BY <1>4, <2>1, SumType
<1>11. current' = SumFunctionOnSet(after', Index)
  BY <1>1, <1>2, <1>5, <1>6, <1>7, <1>8, <1>9, <1>10
<1> QED
  BY <1>1, <1>11 DEF TotalMatchesActions, SumFunction

(* A round of the greedy loop takes off what the item saves.               *)
LEMMA TotalSqueeze ==
  ASSUME ChosenInv, TotalInv, NEW i \in Index, Squeeze(i)
  PROVE  TotalMatchesActions'
<1> DEFINE tokens == TokensAt(i, NextLevel(i))
<1>1. /\ current' = current - (after[i] - tokens)
      /\ after' = [after EXCEPT ![i] = tokens] /\ to[i] # L5
  BY DEF Squeeze, Savings, IsBest, Eligible
<1>2. after \in [Index -> Nat] /\ current = SumFunctionOnSet(after, Index)
  BY DEF ChosenInv, TotalInv, TotalMatchesActions, SumFunction
<1>3. tokens \in Nat
  BY <1>1, NextLevelIsFirst, TokensAtType
<1> HIDE DEF tokens
<1>4. /\ after[i] \in Int /\ after'[i] = tokens /\ after'[i] \in Int
      /\ \A j \in Index \ {i} : after[j] \in Int /\ after'[j] = after[j]
  BY <1>1, <1>2, <1>3
<1>5. SumFunctionOnSet(after', Index)
        = SumFunctionOnSet(after, Index) - after[i] + after'[i]
  BY <1>4, IndexFinite, SumChange
<1>6. SumFunctionOnSet(after, Index) \in Int
  BY <1>2, IndexFinite, SumType
<1>7. current' = SumFunctionOnSet(after', Index)
  BY <1>1, <1>2, <1>4, <1>5, <1>6
<1>8. DOMAIN after' = Index
  BY <1>1, <1>2
<1> QED
  BY <1>7, <1>8 DEF TotalMatchesActions, SumFunction

LEMMA TotalStep == ChosenInv /\ TotalInv /\ [Next]_vars => TotalInv'
<1> SUFFICES ASSUME ChosenInv, TotalInv, [Next]_vars PROVE TotalInv'
  OBVIOUS
<1>1. CASE PinPass
  <2>1. TotalMatchesActions'
    BY <1>1 DEF PinPass, TotalInv, TotalMatchesActions
  <2>2. \A i \in Index : action[i] = "Keep"
    BY <1>1 DEF PinPass, ChosenInv, Chosen
  <2> QED
    BY <1>1, <2>1, <2>2 DEF PinPass, TotalInv
<1>2. CASE DedupPass
  BY <1>2, TotalDedup DEF DedupPass, TotalInv
<1>3. ASSUME NEW i \in Index, Squeeze(i) PROVE TotalInv'
  BY <1>3, TotalSqueeze DEF Squeeze, TotalInv
<1>4. CASE Finish \/ UNCHANGED vars
  BY <1>4 DEF Finish, vars, TotalInv, TotalMatchesActions
<1> QED
  BY <1>1, <1>2, <1>3, <1>4 DEF Next

(* What the compaction history records as the expected tokens is what the  *)
(* actions of the plan add up to, for every context.                       *)
THEOREM TotalAlwaysMatches == Spec => []TotalMatchesActions
<1>1. TotalInv => TotalMatchesActions
  BY DEF TotalInv
<1> QED
  BY <1>1, InitFresh, TotalInit, TotalStep, ChosenInit, ChosenStep, PTL DEF Spec

LEMMA TotalTyped == ChosenInv /\ TotalInv => TypeOK
<1> SUFFICES ASSUME ChosenInv, TotalInv PROVE TypeOK
  OBVIOUS
<1>1. current \in Nat
  BY TotalIsNat
<1>2. Target \in 0..ConfiguredTarget
  BY TargetType, PlannerAssumption DEF TotalInv
<1> QED
  BY <1>1, <1>2 DEF TypeOK, ChosenInv, TotalInv

(* The running total never falls below zero, though savings are subtracted *)
(* from it, and no forecast takes the target out of its range.             *)
THEOREM PlannerTypeCorrect == Spec => []TypeOK
BY InitFresh, TotalInit, TotalStep, TotalTyped, ChosenInit, ChosenStep, PTL DEF Spec

LEMMA EndGivesUpLast == ChosenInv /\ EndInv /\ TotalInv => GivesUpLast
<1> SUFFICES ASSUME ChosenInv, EndInv, TotalInv, phase = "done",
                    NEW i \in Index, action[i] # "Pin"
             PROVE  /\ current > ConfiguredTarget => after[i] = 0
                    /\ current > Target => \A level \in {L1, L2, L4} :
                         level > to[i] => TokensAt(i, level) >= after[i]
  BY DEF GivesUpLast
<1> current \in Int
  BY TotalIsNat
<1>1. after[i] \in Nat /\ to[i] \in Levels
  BY DEF ChosenInv
<1> forecast \in Nat
  BY DEF EndInv
<1>2. current > Target => Eligible = {}
  BY TargetType DEF EndInv
<1>3. CASE to[i] = L5
  BY <1>1, <1>3, LevelValues DEF EndInv
<1>4. CASE to[i] # L5 /\ Eligible = {}
  <2>1. /\ NextLevel(i) \in {L1, L2, L4, L5}
        /\ NextLevel(i) = L5 \/ TokensAt(i, NextLevel(i)) < after[i]
        /\ \A level \in {L1, L2, L4, L5} :
             level > to[i] /\ TokensAt(i, level) < after[i] => NextLevel(i) <= level
    BY <1>4, NextLevelIsFirst
  <2>2. ~(Savings(i) > 0) \/ Withheld(i)
    BY <1>4 DEF Eligible
  <2>3. TokensAt(i, NextLevel(i)) \in Nat
    BY <2>1, TokensAtType
  <2>4. NextLevel(i) = L5
    BY <1>1, <2>1, <2>2, <2>3 DEF Savings, Withheld
  <2>5. current > ConfiguredTarget => after[i] = 0
    <3>1. TokensAt(i, NextLevel(i)) = 0
      BY <2>4, LevelValues DEF TokensAt
    <3>2. current > ConfiguredTarget => ~Withheld(i)
      BY TargetType DEF Withheld
    <3> QED
      BY <1>1, <2>2, <3>1, <3>2 DEF Savings
  <2>6. ASSUME NEW level \in {L1, L2, L4}, level > to[i]
        PROVE  TokensAt(i, level) >= after[i]
    <3>1. TokensAt(i, level) \in Nat
      BY TokensAtType
    <3>2. ~(TokensAt(i, level) < after[i])
      BY <2>1, <2>4, <2>6, LevelValues
    <3> QED
      BY <1>1, <3>1, <3>2
  <2> QED
    BY <2>5, <2>6
<1> QED
  BY <1>2, <1>3, <1>4, TargetType

(* The planner gives up above its targets only when nothing is left to     *)
(* give up, whatever items, scores and forecast it has met.                *)
THEOREM AlwaysGivesUpLast == Spec => []GivesUpLast
BY InitFresh, EndInit, EndStep, EndGivesUpLast, TotalInit, TotalStep, ChosenInit, ChosenStep,
   PTL DEF Spec

-----------------------------------------------------------------------------
(* Every plan comes to its end: each step leaves fewer steps to take, and  *)
(* there is a step to take until the plan is done.                         *)

LEMMA StepsLeftType ==
  ASSUME ChosenInv, TotalInv
  PROVE  /\ PassesLeft[phase] \in Nat /\ StepsLeft \in Nat
         /\ \A i \in Index : to[i] \in 0..5 /\ L5 - to[i] \in Nat
         /\ StepsLeft = PassesLeft[phase]
                         + SumFunctionOnSet([i \in Index |-> L5 - to[i]], Index)
         /\ SumFunctionOnSet([i \in Index |-> L5 - to[i]], Index) \in Nat
<1> DEFINE levels == [i \in Index |-> L5 - to[i]]
<1>1. PassesLeft[phase] \in Nat
  BY DEF TotalInv, PassesLeft
<1>2. \A i \in Index : to[i] \in 0..5 /\ L5 - to[i] \in Nat
  BY LevelValues DEF ChosenInv
<1>3. \A i \in Index : levels[i] \in Nat
  BY <1>2
<1>4. SumFunction(levels) = SumFunctionOnSet(levels, Index)
  BY DEF SumFunction
<1> HIDE DEF levels
<1>5. SumFunctionOnSet(levels, Index) \in Nat
  BY <1>3, IndexFinite, SumNat
<1> QED
  BY <1>1, <1>2, <1>4, <1>5 DEF StepsLeft, levels

LEMMA StepDescends ==
  ASSUME ChosenInv, TotalInv, Next
  PROVE  StepsLeft' < StepsLeft
<1> DEFINE levels == [i \in Index |-> L5 - to[i]]
<1>1. /\ PassesLeft[phase] \in Nat /\ StepsLeft = PassesLeft[phase] + SumFunctionOnSet(levels, Index)
      /\ \A i \in Index : to[i] \in 0..5 /\ levels[i] \in Int
      /\ SumFunctionOnSet(levels, Index) \in Nat
  BY StepsLeftType
<1>2. \A i \in Index : levels'[i] = 5 - to'[i] /\ levels[i] = 5 - to[i]
  BY LevelValues
<1>3. StepsLeft' = PassesLeft[phase'] + SumFunctionOnSet(levels', Index)
  BY DEF StepsLeft, SumFunction
<1>4. /\ PassesLeft["pin"] = 3 /\ PassesLeft["dedup"] = 2
      /\ PassesLeft["greedy"] = 1 /\ PassesLeft["done"] = 0
  BY DEF PassesLeft
<1>5. CASE PinPass \/ Finish
  <2>1. levels' = levels
    BY <1>5 DEF PinPass, Finish
  <2>2. PassesLeft[phase'] < PassesLeft[phase] /\ PassesLeft[phase'] \in Nat
    BY <1>4, <1>5 DEF PinPass, Finish
  <2> HIDE DEF levels
  <2> QED
    BY <1>1, <1>3, <2>1, <2>2
<1>6. CASE DedupPass
  <2>1. phase = "dedup" /\ phase' = "greedy"
        /\ to' = [i \in Index |-> IF i \in Repeated THEN L5 ELSE to[i]]
    BY <1>6 DEF DedupPass
  <2>2. \A i \in Index : to'[i] \in 0..5 /\ to[i] <= to'[i]
    BY <1>1, <2>1, LevelValues
  <2>3. \A i \in Index : levels'[i] \in Int /\ levels[i] \in Int /\ levels'[i] <= levels[i] /\ levels'[i] \in Nat
    BY <1>1, <1>2, <2>2
  <2> HIDE DEF levels
  <2>4. SumFunctionOnSet(levels', Index) <= SumFunctionOnSet(levels, Index)
    BY <2>3, IndexFinite, SumMonotone
  <2>5. SumFunctionOnSet(levels', Index) \in Nat
    BY <2>3, IndexFinite, SumNat
  <2> QED
    BY <1>1, <1>3, <1>4, <2>1, <2>4, <2>5
<1>7. ASSUME NEW i \in Index, Squeeze(i) PROVE StepsLeft' < StepsLeft
  <2>1. phase' = phase /\ to' = [to EXCEPT ![i] = NextLevel(i)] /\ to[i] # L5
    BY <1>7 DEF Squeeze, IsBest, Eligible
  <2>2. NextLevel(i) \in 1..5 /\ NextLevel(i) > to[i]
    BY <1>1, <2>1, NextLevelIsFirst, LevelValues DEF ChosenInv
  <2>3. /\ to'[i] = NextLevel(i) /\ \A j \in Index \ {i} : to'[j] = to[j]
    BY <2>1 DEF ChosenInv
  <2>4. /\ levels[i] \in Int /\ levels'[i] \in Int /\ levels'[i] < levels[i]
        /\ \A j \in Index \ {i} : levels[j] \in Int /\ levels'[j] = levels[j]
    BY <1>1, <1>2, <2>2, <2>3
  <2> HIDE DEF levels
  <2>5. SumFunctionOnSet(levels', Index)
          = SumFunctionOnSet(levels, Index) - levels[i] + levels'[i]
    BY <2>4, IndexFinite, SumChange
  <2> QED
    BY <1>1, <1>3, <2>1, <2>4, <2>5
<1> QED
  BY <1>5, <1>6, <1>7 DEF Next

LEMMA ProductNat == \A x, y \in Nat : x * y \in Nat
  OBVIOUS

(* Utilities are fractions, compared by multiplying crosswise.             *)
LEMMA FractionsTransitive ==
  ASSUME NEW a \in Nat, NEW b \in Nat \ {0}, NEW c \in Nat, NEW d \in Nat \ {0},
         NEW e \in Nat, NEW f \in Nat \ {0}, a * d <= c * b, c * f <= e * d
  PROVE  a * f <= e * b
<1>1. \A x, y, z \in Nat : x <= y => x * z <= y * z /\ x * z \in Nat /\ y * z \in Nat
  OBVIOUS
<1>2. /\ a * d \in Nat /\ c * b \in Nat /\ c * f \in Nat /\ e * d \in Nat
      /\ a * f \in Nat /\ e * b \in Nat
  OBVIOUS
<1>3. (a * d) * f <= (c * b) * f /\ (c * f) * b <= (e * d) * b
  BY <1>1, <1>2
<1>4. (a * d) * f = (a * f) * d /\ (c * b) * f = (c * f) * b /\ (e * d) * b = (e * b) * d
  OBVIOUS
<1>5. (a * f) * d <= (e * b) * d
  <2>1. (c * f) * b \in Nat /\ (a * f) * d \in Nat /\ (e * b) * d \in Nat
    BY <1>1, <1>2
  <2> QED
    BY <1>3, <1>4, <2>1
<1> SUFFICES ASSUME e * b + 1 <= a * f PROVE FALSE
  BY <1>2
<1>6. (e * b + 1) * d <= (a * f) * d
  BY <1>1, <1>2
<1>7. (e * b + 1) * d = (e * b) * d + d
  BY <1>2
<1>8. (e * b) * d \in Nat /\ (a * f) * d \in Nat
  BY <1>1, <1>2
<1> QED
  BY <1>5, <1>6, <1>7, <1>8

(* Of finitely many fractions one is the largest.                          *)
HasLargest(f, c, S) == \E m \in S : \A x \in S : f[x] * c[m] <= f[m] * c[x]

LEMMA LargestFraction ==
  ASSUME NEW f, NEW c, NEW S, IsFiniteSet(S), S # {},
         \A x \in S : f[x] \in Nat /\ c[x] \in Nat \ {0}
  PROVE  HasLargest(f, c, S)
<1> DEFINE Bad == {T \in SUBSET S : T # {} /\ ~HasLargest(f, c, T)}
<1>1. SUFFICES ASSUME Bad # {} PROVE FALSE
  OBVIOUS
<1>2. PICK T \in Bad : \A U \in Bad : U \subseteq T => U = T
  <2> HIDE DEF Bad
  <2>1. Bad \in SUBSET (SUBSET S)
    BY DEF Bad
  <2> QED
    BY <1>1, <2>1, SmallestExists
<1>3. PICK x \in T : TRUE
  OBVIOUS
<1>4. f[x] * c[x] \in Nat /\ f[x] \in Nat /\ c[x] \in Nat \ {0}
  OBVIOUS
<1> DEFINE U == T \ {x}
<1>5. CASE U = {}
  <2>1. \A y \in T : y = x
    BY <1>5
  <2> QED
    BY <1>4, <2>1 DEF HasLargest
<1>6. CASE U # {}
  <2>1. HasLargest(f, c, U)
    BY <1>2, <1>6
  <2>2. PICK m \in U : \A y \in U : f[y] * c[m] <= f[m] * c[y]
    BY <2>1 DEF HasLargest
  <2>3. f[m] \in Nat /\ c[m] \in Nat \ {0} /\ f[m] * c[x] \in Nat /\ f[x] * c[m] \in Nat
    BY <1>4
  <2>4. CASE f[x] * c[m] <= f[m] * c[x]
    BY <2>2, <2>4 DEF HasLargest
  <2>5. CASE f[m] * c[x] <= f[x] * c[m]
    <3>1. ASSUME NEW y \in U PROVE f[y] * c[x] <= f[x] * c[y]
      <4>1. f[y] \in Nat /\ c[y] \in Nat \ {0} /\ f[y] * c[m] <= f[m] * c[y]
        BY <2>2
      <4> QED
        BY <1>4, <2>3, <2>5, <4>1, FractionsTransitive
    <3> QED
      BY <1>4, <3>1 DEF HasLargest
  <2> QED
    BY <2>3, <2>4, <2>5
<1> QED
  BY <1>5, <1>6

(* Scores are clamped, so a cost is positive.                              *)
LEMMA TotalRange ==
  ASSUME NEW it, NEW recency \in Int, NEW copies, NEW last
  PROVE  Total(it, recency, copies, last) \in 0..10000
<1> DEFINE uniqueness == IF copies <= 1 THEN 100 ELSE IF last THEN 70 ELSE 10
           child == IF it.child THEN 10 * 80 ELSE 0
           unresolved == IF IsUnresolved(it) THEN 20 * 100 ELSE 0
           repeated == IF copies > 1 THEN 15 * 100 ELSE 0
           relevance == Relevance(it)
           authority == Authority(it)
           recoverability == Recoverability(it)
           sum == 15 * relevance + 15 * recency + child + unresolved
                  + 15 * authority + 10 * uniqueness - 10 * recoverability - repeated
<1>1. relevance \in Int
  BY DEF Relevance
<1>2. authority \in Int
  BY DEF Authority
<1>3. recoverability \in Int
  BY DEF Recoverability
<1>4. uniqueness \in Int /\ child \in Int /\ unresolved \in Int /\ repeated \in Int
  OBVIOUS
<1>5. Total(it, recency, copies, last)
        = CASE sum < 0 -> 0 [] sum > 10000 -> 10000 [] OTHER -> sum
  BY DEF Total
<1> HIDE DEF uniqueness, child, unresolved, repeated, relevance, authority, recoverability
<1>6. sum \in Int
  BY <1>1, <1>2, <1>3, <1>4
<1> HIDE DEF sum
<1>7. CASE sum < 0
  BY <1>5, <1>6, <1>7
<1>8. CASE sum > 10000
  <2>1. ~(sum < 0)
    BY <1>6, <1>8
  <2> QED
    BY <1>5, <1>8, <2>1
<1>9. CASE ~(sum < 0) /\ ~(sum > 10000)
  <2>1. Total(it, recency, copies, last) = sum
    BY <1>5, <1>9
  <2> QED
    BY <1>6, <1>9, <2>1
<1> QED
  BY <1>7, <1>8, <1>9

LEMMA CostType ==
  ASSUME NEW i \in Index, NextLevel(i) \in Nat
  PROVE  Cost(i) \in Nat \ {0}
<1> DEFINE loss == 10000 - Score(i)
           larger == IF loss > 100 THEN loss ELSE 100
<1>1. Score(i) \in 0..10000
  <2> DEFINE recency == (100 * (i - 1)) \div Size
             copies  == Cardinality(Copies(i))
             last    == Canonical(i) = i
  <2>1. Size \in Nat \ {0} /\ i \in Nat
    BY PlannerAssumption DEF Index
  <2>2. recency \in Int
    BY <2>1
  <2>3. Score(i) = IF Pinned(i) THEN 10000 ELSE Total(item[i], recency, copies, last)
    BY DEF Score
  <2> HIDE DEF recency, copies, last
  <2>4. Total(item[i], recency, copies, last) \in 0..10000
    BY <2>2, TotalRange
  <2> QED
    BY <2>3, <2>4
<1>2. larger \in Nat \ {0}
  <2>1. PICK score \in 0..10000 : score = Score(i)
    BY <1>1
  <2>2. larger = IF 10000 - score > 100 THEN 10000 - score ELSE 100
    BY <2>1
  <2> HIDE DEF larger
  <2> QED
    BY <2>2
<1>3. 100 + 15 * NextLevel(i) \in Nat \ {0}
  OBVIOUS
<1>4. Cost(i) = larger * (100 + 15 * NextLevel(i))
  BY DEF Cost
<1> HIDE DEF larger
<1>5. \A x, y \in Nat \ {0} : x * y \in Nat \ {0}
  OBVIOUS
<1> QED
  BY <1>2, <1>3, <1>4, <1>5

(* Among the items that the loop may take on one is best.                  *)
LEMMA BestExists ==
  ASSUME ChosenInv, Eligible # {}
  PROVE  \E i \in Index : IsBest(i)
<1> DEFINE savings == [i \in Index |-> Savings(i)]
           cost    == [i \in Index |-> Cost(i)]
           Top     == {m \in Eligible : \A j \in Eligible : ~MoreUseful(j, m)}
<1>1. Eligible \subseteq Index /\ IsFiniteSet(Eligible)
  BY IndexFinite, FS_Subset DEF Eligible
<1>2. ASSUME NEW i \in Eligible
      PROVE  Savings(i) \in Nat /\ Cost(i) \in Nat \ {0}
  <2>1. i \in Index /\ to[i] # L5 /\ Savings(i) > 0
    BY DEF Eligible
  <2>2. NextLevel(i) \in {L1, L2, L4, L5}
    BY <2>1, NextLevelIsFirst
  <2>3. TokensAt(i, NextLevel(i)) \in Nat /\ after[i] \in Nat
    BY <2>1, <2>2, TokensAtType DEF ChosenInv
  <2>4. NextLevel(i) \in Nat
    BY <2>2, LevelValues
  <2> QED
    BY <2>1, <2>3, <2>4, CostType DEF Savings
<1>3. \A i \in Eligible : savings[i] \in Nat /\ cost[i] \in Nat \ {0}
                        /\ savings[i] = Savings(i) /\ cost[i] = Cost(i)
  BY <1>1, <1>2
<1>4. \A i, j \in Eligible :
        ~MoreUseful(i, j) <=> savings[i] * cost[j] <= savings[j] * cost[i]
  <2> SUFFICES ASSUME NEW i \in Eligible, NEW j \in Eligible
               PROVE  ~MoreUseful(i, j)
                        <=> savings[i] * cost[j] <= savings[j] * cost[i]
    OBVIOUS
  <2>1. MoreUseful(i, j) <=> savings[i] * cost[j] > savings[j] * cost[i]
    BY <1>3 DEF MoreUseful
  <2>2. /\ savings[i] \in Nat /\ cost[j] \in Nat
        /\ savings[j] \in Nat /\ cost[i] \in Nat
    BY <1>3
  <2> HIDE DEF savings, cost
  <2> DEFINE left  == savings[i] * cost[j]
             right == savings[j] * cost[i]
  <2>3. left \in Nat /\ right \in Nat
    BY <2>2, ProductNat
  <2> HIDE DEF left, right
  <2>4. ~(left > right) <=> left <= right
    BY <2>3
  <2> QED
    BY <2>1, <2>4 DEF left, right
<1> HIDE DEF savings, cost
<1>5. PICK m \in Eligible : \A x \in Eligible : savings[x] * cost[m] <= savings[m] * cost[x]
  <2>1. HasLargest(savings, cost, Eligible)
    BY <1>1, <1>3, LargestFraction
  <2> QED
    BY <2>1 DEF HasLargest
<1>6. m \in Top
  BY <1>4, <1>5
<1>7. PICK i \in Top : \A j \in Top : i <= j
  <2> DEFINE place == [j \in Index |-> j]
  <2>1. Top \subseteq Index /\ IsFiniteSet(Top)
    BY <1>1, FS_Subset
  <2>2. \A j \in Top : place[j] \in Int /\ place[j] = j
    BY <2>1 DEF Index
  <2> HIDE DEF place, Top
  <2>3. Bounded(place, Top)
    BY <1>6, <2>1, <2>2, ExtremesExist
  <2> QED
    BY <2>2, <2>3 DEF Bounded
<1>8. ASSUME NEW j \in Eligible, ~MoreUseful(i, j) PROVE i <= j
  <2>1. /\ savings[i] * cost[j] <= savings[j] * cost[i]
        /\ \A k \in Eligible : savings[k] * cost[i] <= savings[i] * cost[k]
    BY <1>4, <1>7, <1>8
  <2>2. ASSUME NEW k \in Eligible PROVE ~MoreUseful(k, j)
    <3>1. /\ savings[k] \in Nat /\ cost[k] \in Nat \ {0}
          /\ savings[i] \in Nat /\ cost[i] \in Nat \ {0}
          /\ savings[j] \in Nat /\ cost[j] \in Nat \ {0}
      BY <1>3, <1>7, <1>8, <2>2
    <3>2. savings[k] * cost[i] <= savings[i] * cost[k]
      BY <2>1, <2>2
    <3>3. savings[k] * cost[j] <= savings[j] * cost[k]
      BY <2>1, <3>1, <3>2, FractionsTransitive
    <3> QED
      BY <1>4, <1>8, <2>2, <3>3
  <2>3. j \in Top
    BY <1>8, <2>2
  <2> QED
    BY <1>7, <2>3
<1>9. IsBest(i)
  BY <1>7, <1>8 DEF IsBest
<1> QED
  BY <1>1, <1>7, <1>9

(* A step of compute_plan can be taken, as its guards say.                 *)
GoesOn ==
  \/ phase \in {"pin", "dedup"}
  \/ phase = "greedy" /\ (current <= Target \/ Eligible = {})
  \/ phase = "greedy" /\ current > Target /\ \E i \in Index : IsBest(i)

LEMMA NotStuck == ChosenInv /\ TotalInv => (phase # "done" => GoesOn)
<1> SUFFICES ASSUME ChosenInv, TotalInv, phase # "done" PROVE GoesOn
  OBVIOUS
<1>1. current \in Nat /\ Target \in Nat
  BY TotalIsNat, TargetType, PlannerAssumption DEF TotalInv
<1>2. phase \in {"pin", "dedup", "greedy"}
  BY DEF TotalInv
<1> QED
  BY <1>1, <1>2, BestExists DEF GoesOn

(* compute_plan is never stuck: while the greedy loop (policy, lib.rs:670) *)
(* is above its target with an item left to take on, one item is best, for *)
(* all the ties and the comparisons of products.                           *)
THEOREM PlansGoOn == Spec => [](phase # "done" => GoesOn)
BY NotStuck, InitFresh, TotalInit, TotalStep, ChosenInit, ChosenStep, PTL DEF Spec

(* And it cannot go on for ever: of a context of any size every step lowers *)
(* a number that is never negative.                                         *)
THEOREM PlansEnd == Spec => [](StepsLeft \in Nat) /\ [][StepsLeft' < StepsLeft]_vars
<1>1. ChosenInv /\ TotalInv => StepsLeft \in Nat
  BY StepsLeftType
<1>2. ChosenInv /\ TotalInv /\ [Next]_vars => [StepsLeft' < StepsLeft]_vars
  BY StepDescends
<1> QED
  BY <1>1, <1>2, InitFresh, TotalInit, TotalStep, ChosenInit, ChosenStep, PTL DEF Spec

=============================================================================
