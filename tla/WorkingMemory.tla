--------------------------- MODULE WorkingMemory ---------------------------
(***************************************************************************)
(* What a ContextGC session promises to the harness that feeds it, with no *)
(* databases, projections or processes: an item that was accepted is in    *)
(* the model's view, the view of an item only ever moves forward along the *)
(* compaction continuum, pinned items do not move at all, and whatever the *)
(* view refers to is in the archive.  Session implements this              *)
(* specification when one process at a time has the session open.          *)
(***************************************************************************)
EXTENDS Representations

CONSTANTS Items,     \* the context items a harness may submit
          Pinned,    \* the items the policy must preserve verbatim
          Inactive   \* the items submitted as abandoned or superseded

VARIABLES history,   \* the items that were stored; nothing is ever removed
          view,      \* the representation of every item in the active context
          archive,   \* the items whose payload is in the artifact store
          accepted   \* the items the harness was told are in the session

vars == <<history, view, archive, accepted>>

Init ==
  /\ history = {}
  /\ view = [i \in Items |-> Absent]
  /\ archive = {}
  /\ accepted = {}

(* An item is stored.  The harness has not heard of it yet, and it may or  *)
(* may not be visible already.                                             *)
Persist(i) ==
  /\ i \notin history
  /\ history' = history \union {i}
  /\ view' \in {view, [view EXCEPT ![i] = Verbatim]}
  /\ UNCHANGED <<archive, accepted>>

(* The harness learns that the item is in the session; from here on the    *)
(* model sees it as submitted, until a compaction changes that.            *)
Accept(i) ==
  /\ i \in history \ accepted
  /\ accepted' = accepted \union {i}
  /\ view' \in {view, [view EXCEPT ![i] = Verbatim]}
  /\ view'[i] = Verbatim \/ i \in Inactive
  /\ UNCHANGED <<history, archive>>

(* The payload of an item, as it stands in the view, is archived.          *)
Archive(i) ==
  /\ i \in history \ archive
  /\ archive' = archive \union {i}
  /\ UNCHANGED <<history, view, accepted>>

(* One item's step of a compaction.                                        *)
Forward(i, before, after) ==
  /\ after.level >= before.level
  /\ after.level = before.level => after = before
  /\ i \in Pinned => after = before
  /\ "reference" \in after.text => i \in archive

Compact ==
  /\ view' \in [Items -> Entries]
  /\ \A i \in Items : Forward(i, view[i], view'[i])
  /\ UNCHANGED <<history, archive, accepted>>

Next ==
  \/ \E i \in Items : Persist(i) \/ Accept(i) \/ Archive(i)
  \/ Compact

Spec == Init /\ [][Next]_vars

=============================================================================
