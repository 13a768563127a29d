------------------------------ MODULE Session ------------------------------
(***************************************************************************)
(* contextgc-engine's Session on contextgc-store's SQLite database, one    *)
(* action per statement or transaction that the database commits.          *)
(*                                                                         *)
(* Several processes (CLI commands, protocol servers) may have the same    *)
(* session of the same database open.  Each runs one call at a time and    *)
(* keeps a Session value in memory; the calls of different processes       *)
(* interleave between their statements.  A process may crash between two   *)
(* statements, and a statement may return an error (a busy or full         *)
(* database), which the code propagates with `?`.                          *)
(*                                                                         *)
(* Simplifications:                                                        *)
(*  - one session row; item ids are chosen by the client;                  *)
(*  - all the reads of one active_context_items call are one step;         *)
(*  - which action compute_plan chooses for an item is left open: any      *)
(*    action in Options.  Module Planner is about that choice;             *)
(*  - token counts, orders of rows and metadata other than what Options    *)
(*    needs are left out; all items feed one token statistic.              *)
(***************************************************************************)
EXTENDS Representations, FiniteSets

CONSTANTS
  Procs,              \* processes that may open the session
  Items,              \* items clients may submit, each with its own id
  Pinned,             \* items for which is_pinned holds
  Inactive,           \* items submitted in state Abandoned or Superseded
  Reducible,          \* items some reducer accepts
  Externalizable,     \* recoverable items of at least large_result_tokens
  Requests,           \* the calls clients make besides ingest
  PredictionEnabled,  \* config.prediction.enabled
  MaxCrashes,         \* bound: processes that die in the middle of a call
  MaxErrors,          \* bound: statements that return an error
  None                \* Rust's Option::None

(* ContextAction, with "Drop" for Deduplicate and Evict, which leave       *)
(* nothing behind, and "none" for an item the plan does not name.          *)
(* Summarize is never planned.                                             *)
Actions == {"Keep", "Pin", "Reduce", "Extract", "Externalize", "Drop", "none"}

ASSUME SessionAssumption ==
  /\ Pinned \subseteq Items
  /\ Inactive \subseteq Items
  /\ Reducible \subseteq Items
  /\ Externalizable \subseteq Items
  /\ Requests \subseteq {"plan", "status", "compact", "materialize"}
  /\ PredictionEnabled \in BOOLEAN
  /\ MaxCrashes \in Nat
  /\ MaxErrors \in Nat

ASSUME NoneAssumption ==
  None \notin Items /\ None \notin [Items -> Actions]

VARIABLES
  (* The database. *)
  items,        \* context_items: the ids of its rows
  events,       \* events: the items that have a context.add event
  tokenStat,    \* token_stats: the count column, 0 when there is no row
  projected,    \* working_set_meta has a row for the session
  workingSet,   \* working_set_items: the entry of every item
  artifacts,    \* artifacts: its rows
  actionRows,   \* compaction_actions: the rows that change an item
  (* The processes. *)
  pc,           \* the statement a process executes next
  current,      \* ingest's item
  snapshot,     \* the working set a call has read
  todo,         \* the externalizations materialize has still to execute
  lastPlan,     \* Session::last_plan: an action for every item, or None
  stats,        \* Session::stats: the count of the cached statistic
  (* The environment. *)
  acked,        \* items whose ingest call returned Ok
  crashes,      \* crashes in the middle of a call so far
  errors        \* statements that returned an error so far

database    == <<items, events, tokenStat, projected, workingSet, artifacts,
                 actionRows>>
process     == <<pc, current, snapshot, todo, lastPlan, stats>>
environment == <<acked, crashes, errors>>
vars        == <<database, process, environment>>

Calls == {"event", "stat", "load", "push", "record", "read", "apply"}

(* compaction_actions rows are kept for the actions that change an item.   *)
Rows == Items \X {"Reduce", "Extract", "Externalize", "Drop"}

NoEntries == [i \in Items |-> Absent]

Init ==
  /\ items = {} /\ events = {} /\ tokenStat = 0
  /\ projected = FALSE /\ workingSet = NoEntries
  /\ artifacts = {} /\ actionRows = {}
  /\ pc = [p \in Procs |-> "down"]
  /\ current = [p \in Procs |-> None]
  /\ snapshot = [p \in Procs |-> NoEntries]
  /\ todo = [p \in Procs |-> {}]
  /\ lastPlan = [p \in Procs |-> None]
  /\ stats = [p \in Procs |-> 0]
  /\ acked = {} /\ crashes = 0 /\ errors = 0

-----------------------------------------------------------------------------
(* The active context.                                                     *)

(* active_context_items: the projection once there is one, and until then  *)
(* the rows of active_items.                                               *)
View ==
  [i \in Items |-> IF projected THEN workingSet[i]
                   ELSE IF i \in items \ Inactive THEN Verbatim
                   ELSE Absent]

(* Mutant of Options: pinned items are exempt from eviction only.          *)
OptionsPinReducible(i, entry) ==
  IF ~IsActive(entry) THEN {"none"}
  ELSE IF i \in Pinned THEN {"Pin", "Reduce"}
  ELSE {"Keep", "Drop"}

(* Mutant of Options: what is external already is externalized again.      *)
OptionsAgain(i, entry) ==
  IF ~IsActive(entry) THEN {"none"}
  ELSE PlanOptions(L0, i \in Pinned, FALSE, i \in Externalizable)

(* What compute_plan may do with an item that stands as entry.             *)
Options(i, entry) ==
  IF ~IsActive(entry) THEN {"none"}
  ELSE PlanOptions(entry.level, i \in Pinned, i \in Reducible, i \in Externalizable)

Plans ==
  {plan \in [Items -> Actions] : \A i \in Items : plan[i] \in Options(i, View[i])}

(* Mutant of Applied: an item that is kept is written as verbatim.         *)
AppliedForgetsLevel(action, entry) ==
  CASE action = "Keep" -> [entry EXCEPT !.level = L0]
    [] action = "Pin" -> entry
    [] action = "Reduce" ->
         [level |-> L1, text |-> entry.text \union {"reduced"}]
    [] action = "Extract" ->
         [level |-> L2, text |-> entry.text \union {"extracted"}]
    [] action = "Externalize" -> [level |-> L4, text |-> {"reference"}]
    [] OTHER -> Absent

(* Mutant of Applied: an evicted item is written as it was.                *)
AppliedKeepsEvicted(action, entry) ==
  IF action \in {"Keep", "Pin", "Drop"} THEN entry ELSE Absent

(* The entry materialize writes for an item.                               *)
Applied(action, entry) ==
  CASE action \in {"Keep", "Pin"} -> entry
    [] action = "Reduce" ->
         [level |-> L1, text |-> entry.text \union {"reduced"}]
    [] action = "Extract" ->
         [level |-> L2, text |-> entry.text \union {"extracted"}]
    [] action = "Externalize" -> [level |-> L4, text |-> {"reference"}]
    [] OTHER -> Absent

(* The items that have a row in artifacts.                                 *)
Archived == {row.item : row \in artifacts}

(* The call of p ends, with Ok or with an error: its locals are gone.      *)
Return(p) ==
  /\ pc' = [pc EXCEPT ![p] = "idle"]
  /\ current' = [current EXCEPT ![p] = None]
  /\ snapshot' = [snapshot EXCEPT ![p] = NoEntries]
  /\ todo' = [todo EXCEPT ![p] = {}]

(* The call of p goes on with the statement named next.                    *)
Goto(p, next) == pc' = [pc EXCEPT ![p] = next]

-----------------------------------------------------------------------------
(* Session::new on a database, and the end of a process.                   *)

Open(p) ==
  /\ pc[p] = "down"
  /\ Goto(p, "idle")
  /\ stats' = [stats EXCEPT ![p] = tokenStat]
  /\ UNCHANGED <<database, current, snapshot, todo, lastPlan, environment>>

(* The Session value is dropped.                                           *)
Stop(p) ==
  /\ pc' = [pc EXCEPT ![p] = "down"]
  /\ current' = [current EXCEPT ![p] = None]
  /\ snapshot' = [snapshot EXCEPT ![p] = NoEntries]
  /\ todo' = [todo EXCEPT ![p] = {}]
  /\ lastPlan' = [lastPlan EXCEPT ![p] = None]
  /\ stats' = [stats EXCEPT ![p] = 0]

Exit(p) ==
  /\ pc[p] = "idle"
  /\ Stop(p)
  /\ UNCHANGED <<database, environment>>

Crash(p) ==
  /\ pc[p] \in Calls
  /\ crashes < MaxCrashes
  /\ crashes' = crashes + 1
  /\ Stop(p)
  /\ UNCHANGED <<database, acked, errors>>

(* The next statement of p's call returns an error.  Nothing is rolled     *)
(* back but that statement.  update_prediction_stat has taken the          *)
(* statistic out of the cache by the time its upsert fails.                *)
Fail(p) ==
  /\ pc[p] \in Calls
  /\ errors < MaxErrors
  /\ errors' = errors + 1
  /\ stats' = [stats EXCEPT ![p] = IF pc[p] = "stat" THEN 0 ELSE @]
  /\ Return(p)
  /\ UNCHANGED <<database, lastPlan, acked, crashes>>

-----------------------------------------------------------------------------
(* Session::ingest.                                                        *)

(* Mutant of InsertItem: the row is not written.                           *)
InsertItemSkipped(p, i) ==
  /\ pc[p] = "idle"
  /\ i \notin items
  /\ current' = [current EXCEPT ![p] = i]
  /\ Goto(p, "event")
  /\ UNCHANGED <<database, snapshot, todo, lastPlan, stats, environment>>

(* item_id is a primary key: an id that is in the table is refused, also   *)
(* when it was left there by an ingest call that failed.                   *)
InsertItem(p, i) ==
  /\ pc[p] = "idle"
  /\ i \notin items
  /\ items' = items \union {i}
  /\ current' = [current EXCEPT ![p] = i]
  /\ Goto(p, "event")
  /\ UNCHANGED <<events, tokenStat, projected, workingSet, artifacts,
                 actionRows, snapshot, todo, lastPlan, stats, environment>>

AppendEvent(p) ==
  /\ pc[p] = "event"
  /\ events' = events \union {current[p]}
  /\ Goto(p, IF PredictionEnabled THEN "stat" ELSE "load")
  /\ UNCHANGED <<items, tokenStat, projected, workingSet, artifacts,
                 actionRows, current, snapshot, todo, lastPlan, stats,
                 environment>>

(* Mutant of UpdateStat: the new statistic is not put back in the cache.   *)
UpdateStatUncached(p) ==
  /\ pc[p] = "stat"
  /\ stats' = [stats EXCEPT ![p] = 0]
  /\ tokenStat' = stats[p] + 1
  /\ Goto(p, "load")
  /\ UNCHANGED <<items, events, projected, workingSet, artifacts, actionRows,
                 current, snapshot, todo, lastPlan, environment>>

(* The count that is stored is the cached one plus one, not the stored one *)
(* plus one.                                                               *)
UpdateStat(p) ==
  /\ pc[p] = "stat"
  /\ stats' = [stats EXCEPT ![p] = @ + 1]
  /\ tokenStat' = stats[p] + 1
  /\ Goto(p, "load")
  /\ UNCHANGED <<items, events, projected, workingSet, artifacts, actionRows,
                 current, snapshot, todo, lastPlan, environment>>

(* Mutant of Ingested: the cached plan survives.                           *)
IngestedKeepsPlan(p) ==
  /\ acked' = acked \union {current[p]}
  /\ UNCHANGED lastPlan
  /\ Return(p)

(* The end of an ingest call that returns Ok.                              *)
Ingested(p) ==
  /\ acked' = acked \union {current[p]}
  /\ lastPlan' = [lastPlan EXCEPT ![p] = None]
  /\ Return(p)

(* Mutant of LoadNoProjection: it does not look whether there is one.      *)
LoadNoProjectionBlind(p) ==
  /\ pc[p] = "load"
  /\ Ingested(p)
  /\ UNCHANGED <<database, stats, crashes, errors>>

(* Without a projection the row in context_items is all it takes.          *)
LoadNoProjection(p) ==
  /\ pc[p] = "load"
  /\ ~projected
  /\ Ingested(p)
  /\ UNCHANGED <<database, stats, crashes, errors>>

LoadProjection(p) ==
  /\ pc[p] = "load"
  /\ projected
  /\ snapshot' = [snapshot EXCEPT ![p] = workingSet]
  /\ Goto(p, "push")
  /\ UNCHANGED <<database, current, todo, lastPlan, stats, environment>>

(* replace_working_set with the rows that were loaded and the new item's.  *)
PushItem(p) ==
  /\ pc[p] = "push"
  /\ ~IsActive(snapshot[p][current[p]])
  /\ workingSet' = [snapshot[p] EXCEPT ![current[p]] = Verbatim]
  /\ Ingested(p)
  /\ UNCHANGED <<items, events, tokenStat, projected, artifacts, actionRows,
                 stats, crashes, errors>>

(* Another process has projected the new item already: a second row for it *)
(* violates the primary key, and the transaction is rolled back.           *)
PushConflict(p) ==
  /\ pc[p] = "push"
  /\ IsActive(snapshot[p][current[p]])
  /\ Return(p)
  /\ UNCHANGED <<database, lastPlan, stats, environment>>

-----------------------------------------------------------------------------
(* Session::plan, Session::status and the first step of a compaction.      *)

(* active_context_items, then the planner, then the cache.                 *)
MakePlan(p) ==
  \E plan \in Plans : lastPlan' = [lastPlan EXCEPT ![p] = plan]

Plan(p) ==
  /\ "plan" \in Requests
  /\ pc[p] = "idle"
  /\ MakePlan(p)
  /\ UNCHANGED <<database, pc, current, snapshot, todo, stats, environment>>

(* status plans only when there is no cached plan.                         *)
Status(p) ==
  /\ "status" \in Requests
  /\ pc[p] = "idle"
  /\ lastPlan[p] = None
  /\ MakePlan(p)
  /\ UNCHANGED <<database, pc, current, snapshot, todo, stats, environment>>

(* Mutant of StartCompact: the run is not recorded.                        *)
StartCompactUnrecorded(p) ==
  /\ "compact" \in Requests
  /\ pc[p] = "idle"
  /\ MakePlan(p)
  /\ Goto(p, "read")
  /\ UNCHANGED <<database, current, snapshot, todo, stats, environment>>

(* compact records the plan before it applies it.                          *)
StartCompact(p) ==
  /\ "compact" \in Requests
  /\ pc[p] = "idle"
  /\ MakePlan(p)
  /\ Goto(p, "record")
  /\ UNCHANGED <<database, current, snapshot, todo, stats, environment>>

(* The protocol's context.materialize plans and applies without recording. *)
StartMaterialize(p) ==
  /\ "materialize" \in Requests
  /\ pc[p] = "idle"
  /\ MakePlan(p)
  /\ Goto(p, "read")
  /\ UNCHANGED <<database, current, snapshot, todo, stats, environment>>

-----------------------------------------------------------------------------
(* Session::compact and Session::materialize.  The plan a call applies is  *)
(* the one it cached: nothing changes lastPlan[p] while the call runs.     *)

RecordCompaction(p) ==
  /\ pc[p] = "record"
  /\ actionRows' = actionRows \union
                     {row \in Rows : lastPlan[p][row[1]] = row[2]}
  /\ Goto(p, "read")
  /\ UNCHANGED <<items, events, tokenStat, projected, workingSet, artifacts,
                 current, snapshot, todo, lastPlan, stats, environment>>

(* Mutant of ReadActive: materialize starts from the original rows.        *)
ReadActiveOriginals(p) ==
  /\ pc[p] = "read"
  /\ snapshot' = [snapshot EXCEPT ![p] =
        [i \in Items |-> IF i \in items \ Inactive THEN Verbatim ELSE Absent]]
  /\ todo' = [todo EXCEPT ![p] = {i \in Items : lastPlan[p][i] = "Externalize"}]
  /\ Goto(p, "apply")
  /\ UNCHANGED <<database, current, lastPlan, stats, environment>>

(* materialize reads the active context again.                             *)
ReadActive(p) ==
  /\ pc[p] = "read"
  /\ snapshot' = [snapshot EXCEPT ![p] = View]
  /\ todo' = [todo EXCEPT ![p] = {i \in Items : lastPlan[p][i] = "Externalize"}]
  /\ Goto(p, "apply")
  /\ UNCHANGED <<database, current, lastPlan, stats, environment>>

(* An item that was planned for and is not in the context any more.        *)
Missing(p) ==
  {i \in Items : lastPlan[p][i] \notin {"none", "Drop"}
                 /\ ~IsActive(snapshot[p][i])}

(* Mutant of MissingItem: materialize reads the context once more.         *)
MissingItemRetries(p) ==
  /\ pc[p] = "apply"
  /\ Missing(p) # {}
  /\ Goto(p, "read")
  /\ UNCHANGED <<database, current, snapshot, todo, lastPlan, stats, environment>>

(* The actions are applied in plan order; the order of the items is left   *)
(* open here, so the error may come before or after any externalization.   *)
MissingItem(p) ==
  /\ pc[p] = "apply"
  /\ Missing(p) # {}
  /\ Return(p)
  /\ UNCHANGED <<database, lastPlan, stats, environment>>

(* Mutant of Externalize: the reference is written without its artifact.   *)
ExternalizeUnstored(p, i) ==
  /\ pc[p] = "apply"
  /\ i \in todo[p] \ Missing(p)
  /\ todo' = [todo EXCEPT ![p] = @ \ {i}]
  /\ UNCHANGED <<database, pc, current, snapshot, lastPlan, stats, environment>>

(* insert_artifact of the text the item has in the context.                *)
Externalize(p, i) ==
  /\ pc[p] = "apply"
  /\ i \in todo[p] \ Missing(p)
  /\ i \notin Archived
  /\ artifacts' = artifacts \union {[item |-> i, text |-> snapshot[p][i].text]}
  /\ todo' = [todo EXCEPT ![p] = @ \ {i}]
  /\ UNCHANGED <<items, events, tokenStat, projected, workingSet, actionRows,
                 pc, current, snapshot, lastPlan, stats, environment>>

(* artifact_id is a primary key that is made of the item's kind and id.    *)
ExternalizeConflict(p, i) ==
  /\ pc[p] = "apply"
  /\ i \in todo[p] \ Missing(p)
  /\ i \in Archived
  /\ Return(p)
  /\ UNCHANGED <<database, lastPlan, stats, environment>>

(* Items that are in the context and not in the plan get no row.           *)
ReplaceProjection(p) ==
  /\ pc[p] = "apply"
  /\ todo[p] = {}
  /\ Missing(p) = {}
  /\ projected' = TRUE
  /\ workingSet' = [i \in Items |-> Applied(lastPlan[p][i], snapshot[p][i])]
  /\ lastPlan' = [lastPlan EXCEPT ![p] = None]
  /\ Return(p)
  /\ UNCHANGED <<items, events, tokenStat, artifacts, actionRows, stats,
                 environment>>

-----------------------------------------------------------------------------
(* The statements of the calls in progress.                                *)
Work(p) ==
  \/ AppendEvent(p)
  \/ UpdateStat(p)
  \/ LoadNoProjection(p)
  \/ LoadProjection(p)
  \/ PushItem(p)
  \/ PushConflict(p)
  \/ RecordCompaction(p)
  \/ ReadActive(p)
  \/ MissingItem(p)
  \/ \E i \in Items : Externalize(p, i)
  \/ \E i \in Items : ExternalizeConflict(p, i)
  \/ ReplaceProjection(p)

(* What starts a call, or a process.                                       *)
Begin(p) ==
  \/ Open(p)
  \/ \E i \in Items : InsertItem(p, i)
  \/ Plan(p)
  \/ Status(p)
  \/ StartCompact(p)
  \/ StartMaterialize(p)

Next == \E p \in Procs : Begin(p) \/ Work(p) \/ Exit(p) \/ Crash(p) \/ Fail(p)

(* A call is a straight line of statements: a process that is in one keeps *)
(* going.  Nobody is obliged to start one.                                 *)
Fairness == \A p \in Procs : WF_vars(Work(p))

Spec == Init /\ [][Next]_vars /\ Fairness


-----------------------------------------------------------------------------
(* Properties.                                                             *)

(* The shape of every variable, and which locals a call has.               *)
TypeOK ==
  /\ items \subseteq Items
  /\ events \subseteq items
  /\ tokenStat \in Nat
  /\ projected \in BOOLEAN
  /\ workingSet \in [Items -> Entries]
  /\ artifacts \subseteq [item : Items, text : Texts]
  /\ actionRows \subseteq Rows
  /\ pc \in [Procs -> Calls \union {"down", "idle"}]
  /\ current \in [Procs -> Items \union {None}]
  /\ snapshot \in [Procs -> [Items -> Entries]]
  /\ todo \in [Procs -> SUBSET Items]
  /\ lastPlan \in [Procs -> [Items -> Actions] \union {None}]
  /\ stats \in [Procs -> Nat]
  /\ acked \subseteq items
  /\ crashes \in 0..MaxCrashes
  /\ errors \in 0..MaxErrors
  /\ \A p \in Procs :
       /\ pc[p] \in {"event", "stat", "load", "push"} => current[p] \in items
       /\ pc[p] \in {"record", "read", "apply"} => lastPlan[p] # None

(* Whatever reference the model is shown can be fetched: the text of an    *)
(* item says artifact://... only when the artifacts table has that row.    *)
(* materialize inserts artifacts before it replaces the projection.        *)
ReferencesResolve ==
  \A i \in Items : "reference" \in View[i].text => i \in Archived

(* Every row of the projection has its row in context_items, so that       *)
(* active_context_items never fails with MissingItem.                      *)
ProjectionBacked ==
  \A i \in Items : IsActive(workingSet[i]) => i \in items

(* However the processes interleave, a pinned item that is in the context  *)
(* is there verbatim.                                                      *)
PinnedVerbatim ==
  \A i \in Pinned : IsActive(View[i]) => View[i] = Verbatim

(* A pinned item whose ingest returned Ok stays in the context, verbatim.  *)
PinnedKept ==
  \A i \in (Pinned \ Inactive) \intersect acked : View[i] = Verbatim

(* The level of an entry says what happened to its text, ...               *)
Named(entry) ==
  /\ entry.level \in {L0, L5} => entry.text = {}
  /\ entry.level = L1 => entry.text = {"reduced"}
  /\ entry.level = L2 => entry.text \in {{"extracted"}, {"reduced", "extracted"}}
  /\ entry.level = L4 => entry.text = {"reference"}

(* ... for every item, however often it was compacted.                     *)
LevelNamesText == \A i \in Items : Named(View[i])

(* The compaction history explains the context: for an item the harness    *)
(* was told is there and that does not stand as it was submitted, there is *)
(* a recorded action that made it what it is.                              *)
Explained(i) ==
  LET level == View[i].level IN
    /\ level = L1 => <<i, "Reduce">> \in actionRows
    /\ level = L2 => <<i, "Extract">> \in actionRows
    /\ level = L4 => <<i, "Externalize">> \in actionRows
    /\ level = L5 => <<i, "Drop">> \in actionRows

ChangesRecorded == \A i \in acked \ Inactive : Explained(i)

(* No call of a process is in progress.                                    *)
Quiet == \A p \in Procs : pc[p] \in {"down", "idle"}

(* ... and none was cut short so far.                                      *)
Undisturbed == Quiet /\ crashes = 0 /\ errors = 0

(* What was recorded as removed from the context is out of it, as long as  *)
(* no compaction is cut short between its recording and its application.   *)
RecordedDropsApplied ==
  Undisturbed => \A i \in Items : <<i, "Drop">> \in actionRows => ~IsActive(View[i])

(* An artifact row exists only for an item that was externalized, so that  *)
(* the primary key never refuses an externalization, with the same proviso.*)
NoOrphanArtifact ==
  Undisturbed => \A i \in Archived : View[i].level \in {L4, L5}

(* The cached plan, which status reports, is about the present context, as *)
(* long as no statement fails: an ingest that returns an error after it    *)
(* has inserted its row leaves the cache alone.                            *)
PlanFresh ==
  errors = 0 =>
    \A p \in Procs :
      pc[p] = "idle" /\ lastPlan[p] # None =>
        \A i \in Items : lastPlan[p][i] \in Options(i, View[i])

(* The statistic behind the forecast averages over every event, but for    *)
(* those whose own update was cut short by a crash, as long as no update   *)
(* is refused: the cache has lost the statistic then, and starts anew.     *)
StatCountsEvents ==
  PredictionEnabled /\ Quiet /\ errors = 0 =>
    /\ tokenStat <= Cardinality(events)
    /\ Cardinality(events) <= tokenStat + crashes

(* What docs/architecture.md says of L4: the artifact of an item that is   *)
(* shown as a reference is the item as it was submitted.                   *)
ArtifactHoldsOriginal ==
  \A row \in artifacts : row.text = {}

(* What makes the three invariants above inductive.  A set of rows is      *)
(* sound if it can be the projection: in the database, or in the memory of *)
(* a call that is going to write it back, ...                              *)
SoundRows(rows) ==
  \A i \in Items :
    /\ "reference" \in rows[i].text => i \in Archived
    /\ IsActive(rows[i]) => i \in items
    /\ i \in Pinned /\ IsActive(rows[i]) => rows[i] = Verbatim

RowsSound ==
  /\ SoundRows(workingSet)
  /\ \A p \in Procs : pc[p] \in {"push", "apply"} => SoundRows(snapshot[p])

(* ... no plan, however old, touches a pinned item, ...                    *)
PlansSparePinned ==
  \A p \in Procs : lastPlan[p] # None =>
    \A i \in Pinned : lastPlan[p][i] \in {"Pin", "none"}

(* ... and an artifact is inserted before the row that refers to it.       *)
ArtifactsFirst ==
  \A p \in Procs : pc[p] = "apply" =>
    \A i \in Items :
      lastPlan[p][i] = "Externalize" => i \in todo[p] \union Archived

SoundnessInv ==
  TypeOK /\ RowsSound /\ PlansSparePinned /\ ArtifactsFirst

(* What makes PinnedKept inductive for a process that has the session to   *)
(* itself: a call that is going to write rows has every kept item in them, *)
(* and the plan it will apply pins them all.                               *)
Kept == (Pinned \ Inactive) \intersect acked

SnapshotsCurrent ==
  \A p \in Procs :
    /\ pc[p] \in {"push", "apply"} => \A i \in Kept : snapshot[p][i] = Verbatim
    /\ pc[p] = "push" => projected

PlansPinKept ==
  \A p \in Procs : pc[p] \in {"record", "read", "apply"} =>
    \A i \in Kept : lastPlan[p][i] = "Pin"

KeptInv == TypeOK /\ PinnedKept /\ SnapshotsCurrent /\ PlansPinKept

(* A call returns, whatever the other processes do.                        *)
CallsReturn ==
  \A p \in Procs : pc[p] \in Calls ~> pc[p] \in {"idle", "down"}

(* One process at a time, the session keeps the promises of WorkingMemory, *)
(* whether calls fail or processes crash between any two statements.       *)
Promise == INSTANCE WorkingMemory
  WITH history <- items,
       view <- View,
       archive <- Archived,
       accepted <- acked

KeepsPromise == Promise!Spec

=============================================================================
