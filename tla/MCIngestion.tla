---------------------------- MODULE MCIngestion ----------------------------
(* Instances of Ingestion for TLC.                                         *)
EXTENDS Ingestion, TLC

CONSTANTS a, b

Item(id, type, tokens) ==
  [what |-> "item", id |-> id, type |-> type, tokens |-> tokens]
Blank   == [what |-> "blank"]
Start   == [what |-> "start"]
Broken  == [what |-> "bad"]

(* A file as the adapter writes it, one that names an id again after items *)
(* without ids, and one that breaks off.                                   *)
SomeFiles ==
  { <<Start, Item(a, "bash", 8), Blank, Item(b, "assistant", 4)>>,
    <<Item(None, "command", 2), Item(None, "command", 8), Item(b, "tool", 4)>>,
    <<Item(None, "assistant", 6), Broken>> }

Names == {"bash"}

Interchangeable ==
  Permutations(Uuids) \union Permutations(Procs) \union Permutations(Sessions)

=============================================================================
