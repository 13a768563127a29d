-------------------------- MODULE Representations --------------------------
(***************************************************************************)
(* The forms in which a context item can stand in the text that is sent to *)
(* a model: contextgc-core's CompressionLevel and the part of a            *)
(* MaterializedContextItem the promises are about.                         *)
(*                                                                         *)
(* Text is abstracted to the rewritings it went through: {} is the payload *)
(* as ingested, "reduced" and "extracted" say that a reducer's reduce or   *)
(* extract was applied, and "reference" that the payload was replaced by   *)
(* an artifact:// reference (and possibly rewritten after that).           *)
(***************************************************************************)
EXTENDS Naturals

(* CompressionLevel::ordinal; L3, the semantic summary, is never planned.  *)
L0 == 0     \* verbatim
L1 == 1     \* structural reduction
L2 == 2     \* extractive reduction
L4 == 4     \* external reference
L5 == 5     \* not in the active context

Levels == {L0, L1, L2, L4, L5}

Texts == SUBSET {"reduced", "extracted", "reference"}

(* A row of the working set.  An item that has no row is Absent.           *)
Entries == [level : Levels, text : Texts]

Verbatim == [level |-> L0, text |-> {}]
Absent   == [level |-> L5, text |-> {}]

(* The entry is in the context that is sent to the model.                  *)
IsActive(entry) == entry.level # L5

(***************************************************************************)
(* The contract between the planner and the engine: what a plan may do     *)
(* with an item that stands at a level.  "Drop" is Deduplicate or Evict.   *)
(* An item that is not externalizable can still be externalized from L2,   *)
(* where the planner takes the tokens of another extraction for those of   *)
(* the reference.  Planner is checked to keep to it; Session lets a plan   *)
(* be whatever it allows.                                                  *)
(***************************************************************************)
PlanOptions(level, pinned, reducible, externalizable) ==
  IF pinned THEN {"Pin"}
  ELSE {"Keep", "Drop"}
       \union {a \in {"Reduce"} : reducible /\ level = L0}
       \union {a \in {"Extract"} : reducible /\ level \in {L0, L1}}
       \union {a \in {"Externalize"} :
                 \/ externalizable /\ level \in {L0, L1, L2}
                 \/ reducible /\ level = L2}

=============================================================================
