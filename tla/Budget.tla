------------------------------- MODULE Budget -------------------------------
(***************************************************************************)
(* The token budget of a model: which configurations contextgc-core        *)
(* accepts, which models contextgc-engine opens a session with, the tokens *)
(* that remain for the context and the pressure state they are in.         *)
(*                                                                         *)
(* Token numbers are words of 0..MaxWord, the code's u64; the sum of two   *)
(* saturates in one place and is checked in another.  Shares of the window *)
(* are whole percentages, and pressures are compared exactly, where the    *)
(* code divides in f32.                                                    *)
(***************************************************************************)
EXTENDS Integers

CONSTANT MaxWord    \* u64::MAX

ASSUME MaxWordAssumption == MaxWord \in Nat

Word == 0..MaxWord

SaturatingAdd(x, y) == IF x + y > MaxWord THEN MaxWord ELSE x + y
SaturatingSub(x, y) == IF x < y THEN 0 ELSE x - y

(* ModelInfo without its name.                                             *)
Model == [window : Word, output : Word]

(* PressureThresholds in order: observe, trim, compact, aggressive and     *)
(* emergency.                                                              *)
Stages == 1..5

(* The parts of Config that its validation and the budget read.            *)
Config == [thresholds : [Stages -> Int], target : Int, alpha : Int,
           window : Word, output : Word, safety : Word]

Share(x) == x \in 0..100

(* PressureThresholds::validate.                                           *)
ThresholdsAccepted(thresholds) ==
  /\ \A n \in Stages : Share(thresholds[n])
  /\ \A n \in Stages \ {1} : thresholds[n - 1] <= thresholds[n]

(* Config::validate.                                                       *)
Accepted(config) ==
  /\ ThresholdsAccepted(config.thresholds)
  /\ Share(config.target)
  /\ Share(config.alpha)
  /\ SaturatingAdd(config.output, config.safety) < config.window
  /\ config.window # 0

(* open_session: the model of a session that has none stored, unless flags *)
(* say otherwise.                                                          *)
FirstModel(config) == [window |-> config.window, output |-> config.output]

(* Session::new: the configuration is validated again and the reserves     *)
(* must leave something of the window; a sum beyond a word is refused.     *)
Opens(config, model) ==
  /\ Accepted(config)
  /\ model.output + config.safety <= MaxWord
  /\ model.window # 0
  /\ model.output + config.safety < model.window

(* ContextBudget::usable_context.                                          *)
UsableContext(config, model) ==
  SaturatingSub(SaturatingSub(model.window, model.output), config.safety)

(* ContextBudget::pressure compared with a threshold: tokens / usable,     *)
(* which is infinite if nothing is usable.                                 *)
Reached(threshold, tokens, usable) ==
  usable = 0 \/ 100 * tokens >= threshold * usable

(* PressureState::from_pressure: the number of the highest stage whose     *)
(* threshold is reached, asked from the top; 0 is Green.                   *)
Stage(thresholds, tokens, usable) ==
  IF Reached(thresholds[5], tokens, usable) THEN 5
  ELSE IF Reached(thresholds[4], tokens, usable) THEN 4
  ELSE IF Reached(thresholds[3], tokens, usable) THEN 3
  ELSE IF Reached(thresholds[2], tokens, usable) THEN 2
  ELSE IF Reached(thresholds[1], tokens, usable) THEN 1
  ELSE 0

(* PressureState::needs_compaction: Compact, Aggressive or Emergency.      *)
NeedsCompaction(stage) == stage \in {3, 4, 5}

=============================================================================
