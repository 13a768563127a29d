----------------------------- MODULE Importance -----------------------------
(***************************************************************************)
(* What contextgc-policy makes of a ContextItem before it plans: whether   *)
(* it is pinned, whether a copy of it may be removed, and how important it *)
(* is.                                                                     *)
(*                                                                         *)
(* Scores are exact, in ten-thousandths; the code computes them in f32.    *)
(* explicit stands for the regular expression that recognizes a constraint *)
(* in what a user said, source for a known file_path or command, and       *)
(* failed for an exit_code that is not zero.                               *)
(***************************************************************************)
EXTENDS Integers

Prompts == {"SystemPrompt", "DeveloperPrompt"}
Outputs == {"ToolResult", "CommandOutput"}

Kinds ==
  Prompts \union Outputs \union
  {"UserMessage", "AssistantMessage", "ToolCall", "FileContent", "Error",
   "Decision", "Constraint", "Checkpoint", "Diff", "TestResult", "Other"}

States == {"Active", "Resolved", "Superseded", "Abandoned", "Unknown"}

IsDeduplicable(it) ==
  it.kind \in Outputs \union {"FileContent", "TestResult", "Error", "AssistantMessage"}

IsUnresolved(it) ==
  it.state = "Active" /\ (it.kind = "Error" \/ it.failed)

(* What must not be touched, given config.preservation's two switches.     *)
IsPinned(it, pinConstraints, pinErrors) ==
  \/ it.marked
  \/ it.kind \in Prompts
  \/ pinConstraints /\ it.kind = "Constraint"
  \/ pinConstraints /\ it.kind = "UserMessage" /\ it.explicit
  \/ pinErrors /\ it.kind = "Error" /\ IsUnresolved(it)

(* The components, in percent.                                             *)
Relevance(it) ==
  CASE it.kind \in Prompts \union {"Constraint", "Decision"} -> 100
    [] it.kind = "UserMessage" -> 95
    [] it.kind = "Error" -> 90
    [] it.kind = "AssistantMessage" -> 85
    [] it.kind = "ToolCall" -> 75
    [] it.kind = "Diff" -> 70
    [] it.kind = "Checkpoint" -> 60
    [] it.kind = "FileContent" -> 55
    [] it.kind = "TestResult" -> 40
    [] it.kind \in Outputs -> 35
    [] OTHER -> 30

Authority(it) ==
  CASE it.kind \in Prompts \union {"Constraint"} -> 100
    [] it.kind = "UserMessage" -> 90
    [] OTHER -> 0

Recoverability(it) ==
  LET known == it.recoverable \/ it.source
  IN CASE it.kind = "FileContent" -> IF known THEN 90 ELSE 50
       [] it.kind \in Outputs -> IF known THEN 80 ELSE 40
       [] it.kind = "Diff" -> 70
       [] it.kind \in Prompts \union {"UserMessage", "Constraint", "Decision"} -> 0
       [] OTHER -> 30

(* ImportanceScore::total of an item with the given recency, the last or   *)
(* not of so many copies, under the default weights.                       *)
Total(it, recency, copies, last) ==
  LET uniqueness == IF copies <= 1 THEN 100 ELSE IF last THEN 70 ELSE 10
      sum == 15 * Relevance(it) + 15 * recency
             + (IF it.child THEN 10 * 80 ELSE 0)
             + (IF IsUnresolved(it) THEN 20 * 100 ELSE 0)
             + 15 * Authority(it) + 10 * uniqueness
             - 10 * Recoverability(it)
             - (IF copies > 1 THEN 15 * 100 ELSE 0)
  IN CASE sum < 0 -> 0
       [] sum > 10000 -> 10000
       [] OTHER -> sum

=============================================================================
