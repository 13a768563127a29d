---------------------------- MODULE BudgetProofs ----------------------------
(* Theorems about module Budget.                                           *)
EXTENDS Budget, TLAPS

(* contextgc-cli, open_session: a configuration that is accepted opens a   *)
(* new session with the model it gives by itself.  Validation saturates    *)
(* where Session::new checks for overflow; the two agree up to the largest *)
(* word.                                                                   *)
THEOREM FirstModelOpens ==
  ASSUME NEW config \in Config, Accepted(config)
  PROVE  Opens(config, FirstModel(config))
<1>. DEFINE sum == config.output + config.safety
<1>1. config.window \in Word /\ config.output \in Word /\ config.safety \in Word
  BY DEF Config
<1>2. SaturatingAdd(config.output, config.safety) < config.window
  BY DEF Accepted
<1>3. sum <= MaxWord /\ sum < config.window
  BY <1>1, <1>2, MaxWordAssumption DEF SaturatingAdd, Word
<1>4. QED
  BY <1>3 DEF Opens, Accepted, FirstModel

(* contextgc-core, usable_context: a session that is open has tokens left  *)
(* for its context, none of its subtractions saturates, and no pressure is *)
(* infinite.                                                               *)
THEOREM OpenLeavesTokens ==
  ASSUME NEW config \in Config, NEW model \in Model, Opens(config, model)
  PROVE  /\ UsableContext(config, model) \in Word \ {0}
         /\ UsableContext(config, model) = model.window - model.output - config.safety
<1>1. /\ model.window \in Word /\ model.output \in Word /\ config.safety \in Word
      /\ model.output + config.safety < model.window
  BY DEF Config, Model, Opens
<1>2. QED
  BY <1>1, MaxWordAssumption DEF UsableContext, SaturatingSub, Word

(* A pressure that reaches a threshold reaches every smaller one.          *)
LEMMA ReachesLower ==
  ASSUME NEW low \in Int, NEW high \in Int, low <= high,
         NEW tokens \in Nat, NEW usable \in Nat, Reached(high, tokens, usable)
  PROVE  Reached(low, tokens, usable)
<1>1. low * usable <= high * usable
  BY SMT
<1>2. low * usable \in Int /\ high * usable \in Int
  OBVIOUS
<1>3. QED
  BY <1>1, <1>2 DEF Reached

(* Accepted thresholds do not decrease from any stage to a later one.      *)
LEMMA ThresholdsOrdered ==
  ASSUME NEW thresholds \in [Stages -> Int], ThresholdsAccepted(thresholds)
  PROVE  \A m, n \in Stages : m <= n => thresholds[m] <= thresholds[n]
<1>1. /\ thresholds[1] <= thresholds[2] /\ thresholds[2] <= thresholds[3]
      /\ thresholds[3] <= thresholds[4] /\ thresholds[4] <= thresholds[5]
  BY DEF ThresholdsAccepted, Stages
<1>2. \A n \in Stages : thresholds[n] \in Int
  OBVIOUS
<1>3. QED
  BY <1>1, <1>2 DEF Stages

(* contextgc-core, from_pressure: with accepted thresholds a stage is the  *)
(* current one or passed exactly if the pressure reaches its threshold.    *)
THEOREM StageMeansThreshold ==
  ASSUME NEW thresholds \in [Stages -> Int], ThresholdsAccepted(thresholds),
         NEW tokens \in Nat, NEW usable \in Nat, NEW n \in Stages
  PROVE  n <= Stage(thresholds, tokens, usable) <=> Reached(thresholds[n], tokens, usable)
<1>. DEFINE R(m) == Reached(thresholds[m], tokens, usable)
<1>1. \A m \in Stages : thresholds[m] \in Int
  OBVIOUS
<1>2. \A m, k \in Stages : m <= k /\ R(k) => R(m)
  BY <1>1, ThresholdsOrdered, ReachesLower
<1>3. Stage(thresholds, tokens, usable) =
        IF R(5) THEN 5 ELSE IF R(4) THEN 4 ELSE IF R(3) THEN 3
        ELSE IF R(2) THEN 2 ELSE IF R(1) THEN 1 ELSE 0
  BY DEF Stage
<1>. HIDE DEF R
<1>4. n <= Stage(thresholds, tokens, usable) <=> R(n)
  BY <1>2, <1>3 DEF Stages
<1>5. QED
  BY <1>4 DEF R

(* contextgc-core, needs_compaction: it holds from the threshold named     *)
(* compact on, which is how module Planner decides it.                     *)
THEOREM CompactionFromThreshold ==
  ASSUME NEW thresholds \in [Stages -> Int], ThresholdsAccepted(thresholds),
         NEW tokens \in Nat, NEW usable \in Nat
  PROVE  NeedsCompaction(Stage(thresholds, tokens, usable))
           <=> Reached(thresholds[3], tokens, usable)
<1>1. 3 <= Stage(thresholds, tokens, usable) <=> Reached(thresholds[3], tokens, usable)
  BY StageMeansThreshold DEF Stages
<1>2. Stage(thresholds, tokens, usable) \in 0..5
  BY DEF Stage
<1>3. QED
  BY <1>1, <1>2 DEF NeedsCompaction

(* contextgc-core, from_pressure: more tokens never lower the stage.       *)
THEOREM StageMonotone ==
  ASSUME NEW thresholds \in [Stages -> Int],
         NEW few \in Nat, NEW many \in Nat, few <= many, NEW usable \in Nat
  PROVE  Stage(thresholds, few, usable) <= Stage(thresholds, many, usable)
<1>1. ASSUME NEW m \in Stages, Reached(thresholds[m], few, usable)
      PROVE  Reached(thresholds[m], many, usable)
  <2>1. thresholds[m] * usable \in Int
    OBVIOUS
  <2>2. QED
    BY <1>1, <2>1 DEF Reached
<1>2. QED
  BY <1>1 DEF Stage, Stages

=============================================================================
