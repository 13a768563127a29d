--------------------------- MODULE SessionProofs ---------------------------
(***************************************************************************)
(* Session for any set of items and any number of crashes and errors: its  *)
(* invariants for any set of processes, and what it does for a single one, *)
(* which has the session to itself.  Then what is pinned stays as it was   *)
(* ingested, what is held in memory is about the context in the database,  *)
(* and WorkingMemory is implemented.  With a second process none of this   *)
(* holds: run session_lost_update.                                         *)
(***************************************************************************)
EXTENDS Session, TLAPS

USE DEF L0, L1, L2, L4, L5

-----------------------------------------------------------------------------
(* Operators.                                                              *)

LEMMA EntryTypes == /\ Verbatim \in Entries
                    /\ Absent \in Entries
                    /\ NoEntries \in [Items -> Entries]
BY DEF Verbatim, Absent, NoEntries, Entries, Levels, Texts

(* materialize writes an entry for whatever it is told to do.              *)
LEMMA AppliedType ==
  ASSUME NEW action, NEW entry \in Entries
  PROVE  Applied(action, entry) \in Entries
<1>1. entry.text \in Texts /\ entry.level \in Levels
  BY DEF Entries
<1>2. /\ entry.text \union {"reduced"} \in Texts
      /\ entry.text \union {"extracted"} \in Texts
      /\ {"reference"} \in Texts
  BY <1>1 DEF Texts
<1>3. QED
  BY <1>2, EntryTypes DEF Applied, Entries, Levels

LEMMA ViewType ==
  ASSUME TypeOK
  PROVE  View \in [Items -> Entries]
BY EntryTypes DEF TypeOK, View

-----------------------------------------------------------------------------
(* Type correctness.                                                       *)

LEMMA TypeInit == Init => TypeOK
<1> SUFFICES ASSUME Init
             PROVE  TypeOK
  OBVIOUS
<1>1. /\ items \subseteq Items /\ events \subseteq items
      /\ tokenStat \in Nat /\ projected \in BOOLEAN
      /\ workingSet \in [Items -> Entries]
      /\ artifacts \subseteq [item : Items, text : Texts]
      /\ actionRows \subseteq Rows
  BY EntryTypes DEF Init
<1>2. /\ pc \in [Procs -> Calls \union {"down", "idle"}]
      /\ current \in [Procs -> Items \union {None}]
      /\ snapshot \in [Procs -> [Items -> Entries]]
      /\ todo \in [Procs -> SUBSET Items]
  BY EntryTypes DEF Init
<1>3. /\ lastPlan \in [Procs -> [Items -> Actions] \union {None}]
      /\ stats \in [Procs -> Nat]
      /\ acked \subseteq items
      /\ crashes \in 0..MaxCrashes /\ errors \in 0..MaxErrors
  BY SessionAssumption DEF Init
<1>4. \A p \in Procs : pc[p] = "down"
  BY DEF Init
<1>5. QED
  BY <1>1, <1>2, <1>3, <1>4 DEF TypeOK

LEMMA TypeStep == TypeOK /\ [Next]_vars => TypeOK'
<1> SUFFICES ASSUME TypeOK, [Next]_vars
             PROVE  TypeOK'
  OBVIOUS
<1> USE DEF TypeOK
<1>1. CASE UNCHANGED vars
  BY <1>1 DEF vars, database, process, environment
<1>2. ASSUME NEW p \in Procs, Open(p)
      PROVE  TypeOK'
  BY <1>2 DEF Open, Goto, database, environment, Calls
<1>3. ASSUME NEW p \in Procs, Exit(p) \/ Crash(p)
      PROVE  TypeOK'
  <2>1. UNCHANGED <<database, acked, errors>> /\ crashes' \in 0..MaxCrashes
    BY <1>3, SessionAssumption DEF Exit, Crash, environment
  <2>2. Stop(p)
    BY <1>3 DEF Exit, Crash
  <2>3. QED
    BY <2>1, <2>2, EntryTypes DEF Stop, database, Calls
<1>4. ASSUME NEW p \in Procs, Fail(p)
      PROVE  TypeOK'
  BY <1>4, EntryTypes, SessionAssumption DEF Fail, Return, database, Calls
<1>5. ASSUME NEW p \in Procs, NEW i \in Items, InsertItem(p, i)
      PROVE  TypeOK'
  BY <1>5 DEF InsertItem, Goto, environment, Calls
<1>6. ASSUME NEW p \in Procs, AppendEvent(p)
      PROVE  TypeOK'
  BY <1>6 DEF AppendEvent, Goto, environment, Calls
<1>7. ASSUME NEW p \in Procs, UpdateStat(p)
      PROVE  TypeOK'
  BY <1>7 DEF UpdateStat, Goto, environment, Calls
<1>8. ASSUME NEW p \in Procs, LoadNoProjection(p)
      PROVE  TypeOK'
  BY <1>8, EntryTypes DEF LoadNoProjection, Ingested, Return, database, Calls
<1>9. ASSUME NEW p \in Procs, LoadProjection(p)
      PROVE  TypeOK'
  BY <1>9 DEF LoadProjection, Goto, database, environment, Calls
<1>10. ASSUME NEW p \in Procs, PushItem(p)
       PROVE  TypeOK'
  BY <1>10, EntryTypes DEF PushItem, Ingested, Return, Calls
<1>11. ASSUME NEW p \in Procs, PushConflict(p) \/ MissingItem(p)
                               \/ \E i \in Items : ExternalizeConflict(p, i)
       PROVE  TypeOK'
  <2>1. Return(p) /\ UNCHANGED <<database, lastPlan, stats, environment>>
    BY <1>11 DEF PushConflict, MissingItem, ExternalizeConflict
  <2>2. QED
    BY <2>1, EntryTypes DEF Return, database, environment, Calls
<1>12. ASSUME NEW p \in Procs,
              Plan(p) \/ Status(p) \/ StartCompact(p) \/ StartMaterialize(p)
       PROVE  TypeOK'
  <2>1. PICK plan \in Plans : lastPlan' = [lastPlan EXCEPT ![p] = plan]
    BY <1>12 DEF Plan, Status, StartCompact, StartMaterialize, MakePlan
  <2>2. plan \in [Items -> Actions] /\ plan # None
    BY NoneAssumption DEF Plans
  <2>3. pc' = pc \/ pc' = [pc EXCEPT ![p] = "record"] \/ pc' = [pc EXCEPT ![p] = "read"]
    BY <1>12 DEF Plan, Status, StartCompact, StartMaterialize, Goto
  <2>4. UNCHANGED <<database, current, snapshot, todo, stats, environment>>
    BY <1>12 DEF Plan, Status, StartCompact, StartMaterialize
  <2>5. QED
    BY <2>1, <2>2, <2>3, <2>4 DEF database, environment, Calls
<1>13. ASSUME NEW p \in Procs, RecordCompaction(p)
       PROVE  TypeOK'
  BY <1>13 DEF RecordCompaction, Goto, environment, Calls
<1>14. ASSUME NEW p \in Procs, ReadActive(p)
       PROVE  TypeOK'
  BY <1>14, ViewType DEF ReadActive, Goto, database, environment, Calls
<1>15. ASSUME NEW p \in Procs, NEW i \in Items, Externalize(p, i)
       PROVE  TypeOK'
  <2>1. [item |-> i, text |-> snapshot[p][i].text] \in [item : Items, text : Texts]
    BY DEF Entries
  <2>2. QED
    BY <1>15, <2>1 DEF Externalize, environment, Calls
<1>16. ASSUME NEW p \in Procs, ReplaceProjection(p)
       PROVE  TypeOK'
  <2>1. workingSet' \in [Items -> Entries]
    BY <1>16, AppliedType DEF ReplaceProjection
  <2>2. QED
    BY <1>16, <2>1, EntryTypes DEF ReplaceProjection, Return, environment, Calls
<1>17. QED
  BY <1>1, <1>2, <1>3, <1>4, <1>5, <1>6, <1>7, <1>8, <1>9, <1>10, <1>11,
     <1>12, <1>13, <1>14, <1>15, <1>16 DEF Next, Begin, Work

(* Every variable keeps its shape, for any number of processes.            *)
THEOREM TypeCorrect == Spec => []TypeOK
BY TypeInit, TypeStep, PTL DEF Spec

-----------------------------------------------------------------------------
(* The rows the processes hold are sound.                                  *)

(* Rows are never deleted from context_items or artifacts.                 *)
LEMMA TablesGrow ==
  ASSUME [Next]_vars
  PROVE  items \subseteq items' /\ artifacts \subseteq artifacts'
<1>1. CASE UNCHANGED vars
  BY <1>1 DEF vars, database
<1>2. ASSUME NEW p \in Procs, Begin(p)
      PROVE  items \subseteq items' /\ artifacts \subseteq artifacts'
  BY <1>2 DEF Begin, Open, InsertItem, Plan, Status, StartCompact,
              StartMaterialize, database
<1>3. ASSUME NEW p \in Procs, Work(p)
      PROVE  items \subseteq items' /\ artifacts \subseteq artifacts'
  BY <1>3 DEF Work, AppendEvent, UpdateStat, LoadNoProjection, LoadProjection,
              PushItem, PushConflict, RecordCompaction, ReadActive, MissingItem,
              Externalize, ExternalizeConflict, ReplaceProjection, database
<1>4. ASSUME NEW p \in Procs, Exit(p) \/ Crash(p) \/ Fail(p)
      PROVE  items \subseteq items' /\ artifacts \subseteq artifacts'
  BY <1>4 DEF Exit, Crash, Fail, database
<1>5. QED
  BY <1>1, <1>2, <1>3, <1>4 DEF Next

(* A step ends a call, or leaves what every process has read alone, or is  *)
(* one of the two steps that read rows.                                    *)
LEMMA ControlFlow ==
  ASSUME Next
  PROVE  \E p \in Procs :
           \/ Return(p) \/ Stop(p)
           \/ /\ UNCHANGED snapshot
              /\ \/ UNCHANGED pc
                 \/ \E next \in {"idle", "event", "stat", "load", "record", "read"} :
                      Goto(p, next)
           \/ LoadProjection(p)
           \/ ReadActive(p)
<1>1. PICK p \in Procs : Begin(p) \/ Work(p) \/ Exit(p) \/ Crash(p) \/ Fail(p)
  BY DEF Next
<1>2. CASE Begin(p)
  BY <1>2 DEF Begin, Open, InsertItem, Plan, Status, StartCompact,
              StartMaterialize
<1>3. CASE Work(p)
  BY <1>3 DEF Work, AppendEvent, UpdateStat, LoadNoProjection, Ingested,
              PushItem, PushConflict, RecordCompaction, MissingItem,
              Externalize, ExternalizeConflict, ReplaceProjection
<1>4. CASE Exit(p) \/ Crash(p) \/ Fail(p)
  BY <1>4 DEF Exit, Crash, Fail
<1>5. QED
  BY <1>1, <1>2, <1>3, <1>4

(* Only the end of an ingest and the end of a materialize write rows.      *)
LEMMA RowsWritten ==
  ASSUME [Next]_vars
  PROVE  \/ UNCHANGED <<projected, workingSet>>
         \/ \E p \in Procs : PushItem(p) \/ ReplaceProjection(p)
<1>1. CASE UNCHANGED vars
  BY <1>1 DEF vars, database
<1>2. ASSUME NEW p \in Procs, Begin(p)
      PROVE  UNCHANGED <<projected, workingSet>>
  BY <1>2 DEF Begin, Open, InsertItem, Plan, Status, StartCompact,
              StartMaterialize, database
<1>3. ASSUME NEW p \in Procs, Work(p), ~PushItem(p), ~ReplaceProjection(p)
      PROVE  UNCHANGED <<projected, workingSet>>
  BY <1>3 DEF Work, AppendEvent, UpdateStat, LoadNoProjection, LoadProjection,
              PushConflict, RecordCompaction, ReadActive, MissingItem,
              Externalize, ExternalizeConflict, database
<1>4. ASSUME NEW p \in Procs, Exit(p) \/ Crash(p) \/ Fail(p)
      PROVE  UNCHANGED <<projected, workingSet>>
  BY <1>4 DEF Exit, Crash, Fail, database
<1>5. QED
  BY <1>1, <1>2, <1>3, <1>4 DEF Next

LEMMA ViewSound ==
  ASSUME TypeOK, RowsSound
  PROVE  SoundRows(View)
<1>1. CASE projected
  BY <1>1 DEF RowsSound, SoundRows, View
<1>2. CASE ~projected
  BY <1>2 DEF SoundRows, View, Verbatim, Absent, IsActive
<1>3. QED
  BY <1>1, <1>2

(* What materialize writes is sound: a reference comes from the rows it    *)
(* has read or from an artifact it has inserted, and a row whose item is   *)
(* gone is not written.                                                    *)
LEMMA AppliedSound ==
  ASSUME SoundnessInv, NEW p \in Procs, ReplaceProjection(p)
  PROVE  SoundRows([i \in Items |-> Applied(lastPlan[p][i], snapshot[p][i])])
<1> DEFINE plan == lastPlan[p]
           rows == snapshot[p]
<1> SUFFICES ASSUME NEW i \in Items
             PROVE  LET row == Applied(plan[i], rows[i]) IN
                      /\ "reference" \in row.text => i \in Archived
                      /\ IsActive(row) => i \in items
                      /\ i \in Pinned /\ IsActive(row) => row = Verbatim
  BY DEF SoundRows
<1>1. /\ pc[p] = "apply" /\ todo[p] = {}
      /\ plan[i] \notin {"none", "Drop"} => IsActive(rows[i])
  BY DEF ReplaceProjection, Missing
<1>2. /\ plan # None /\ plan[i] \in Actions
      /\ rows[i] \in Entries /\ SoundRows(rows)
  BY <1>1 DEF SoundnessInv, TypeOK, RowsSound
<1>3. CASE plan[i] \in {"Keep", "Pin"}
  BY <1>1, <1>2, <1>3 DEF Applied, SoundRows
<1>4. CASE plan[i] \in {"none", "Drop"}
  BY <1>4 DEF Applied, Absent, IsActive
<1>5. CASE plan[i] \in {"Reduce", "Extract", "Externalize"}
  <2>1. i \in items
    BY <1>1, <1>2, <1>5 DEF SoundRows
  <2>2. i \notin Pinned
    BY <1>2, <1>5 DEF SoundnessInv, PlansSparePinned
  <2>3. plan[i] = "Externalize" => i \in Archived
    BY <1>1 DEF SoundnessInv, ArtifactsFirst
  <2>4. plan[i] \in {"Reduce", "Extract"} =>
          Applied(plan[i], rows[i]).text \in
            {rows[i].text \union {"reduced"}, rows[i].text \union {"extracted"}}
    BY DEF Applied
  <2>5. "reference" \in Applied(plan[i], rows[i]).text => i \in Archived
    BY <1>2, <1>5, <2>3, <2>4 DEF SoundRows
  <2>6. QED
    BY <2>1, <2>2, <2>5
<1>6. QED
  BY <1>2, <1>3, <1>4, <1>5 DEF Actions

LEMMA RowsSoundStep ==
  ASSUME SoundnessInv, [Next]_vars
  PROVE  RowsSound'
<1>1. items \subseteq items' /\ Archived \subseteq Archived'
  BY TablesGrow DEF Archived
<1>2. TypeOK /\ TypeOK'
  BY TypeStep DEF SoundnessInv
<1>3. SoundRows(workingSet) /\ SoundRows(View)
  BY <1>2, ViewSound DEF SoundnessInv, RowsSound
<1>4. SoundRows(workingSet)'
  <2>1. CASE UNCHANGED workingSet
    BY <1>1, <1>3, <2>1 DEF SoundRows
  <2>2. ASSUME NEW p \in Procs, PushItem(p)
        PROVE  SoundRows(workingSet)'
    <3>1. SoundRows(snapshot[p]) /\ current[p] \in items
      BY <1>2, <2>2 DEF PushItem, SoundnessInv, RowsSound, TypeOK
    <3>2. /\ snapshot[p] \in [Items -> Entries]
          /\ workingSet' = [snapshot[p] EXCEPT ![current[p]] = Verbatim]
      BY <1>2, <2>2 DEF PushItem, TypeOK
    <3>3. QED
      BY <1>1, <3>1, <3>2 DEF SoundRows, Verbatim
  <2>3. ASSUME NEW p \in Procs, ReplaceProjection(p)
        PROVE  SoundRows(workingSet)'
    <3>1. workingSet' = [i \in Items |-> Applied(lastPlan[p][i], snapshot[p][i])]
      BY <2>3 DEF ReplaceProjection
    <3>2. QED
      BY <1>1, <2>3, <3>1, AppliedSound DEF SoundRows
  <2>4. QED
    BY <2>1, <2>2, <2>3, RowsWritten
<1>5. ASSUME NEW q \in Procs, pc'[q] \in {"push", "apply"}
      PROVE  SoundRows(snapshot[q])'
  <2>1. \/ pc[q] \in {"push", "apply"} /\ snapshot'[q] = snapshot[q]
        \/ snapshot'[q] \in {workingSet, View}
    <3>1. CASE UNCHANGED vars
      BY <1>5, <3>1 DEF vars, process
    <3>2. CASE Next
      BY <1>2, <1>5, <3>2, ControlFlow
         DEF TypeOK, Return, Stop, Goto, LoadProjection, ReadActive
    <3>3. QED
      BY <3>1, <3>2
  <2>2. CASE pc[q] \in {"push", "apply"} /\ snapshot'[q] = snapshot[q]
    BY <1>1, <2>2 DEF SoundnessInv, RowsSound, SoundRows
  <2>3. CASE snapshot'[q] \in {workingSet, View}
    BY <1>1, <1>3, <2>3 DEF SoundRows
  <2>4. QED
    BY <2>1, <2>2, <2>3
<1>6. QED
  BY <1>4, <1>5 DEF RowsSound

(* A plan is a choice among the options of every item.                     *)
LEMMA PlansSparePinnedStep ==
  ASSUME SoundnessInv, [Next]_vars
  PROVE  PlansSparePinned'
<1> SUFFICES ASSUME NEW q \in Procs, lastPlan'[q] # None, NEW i \in Pinned
             PROVE  lastPlan'[q][i] \in {"Pin", "none"}
  BY DEF PlansSparePinned
<1>1. lastPlan \in [Procs -> [Items -> Actions] \union {None}]
  BY DEF SoundnessInv, TypeOK
<1>2. lastPlan'[q] \in {lastPlan[q], None} \/ lastPlan'[q] \in Plans
  <2>1. CASE UNCHANGED vars
    BY <2>1 DEF vars, process
  <2>2. ASSUME NEW p \in Procs, Begin(p)
        PROVE  lastPlan'[q] \in {lastPlan[q], None} \/ lastPlan'[q] \in Plans
    BY <1>1, <2>2 DEF Begin, Open, InsertItem, Plan, Status, StartCompact,
                      StartMaterialize, MakePlan
  <2>3. ASSUME NEW p \in Procs, Work(p)
        PROVE  lastPlan'[q] \in {lastPlan[q], None}
    BY <1>1, <2>3 DEF Work, AppendEvent, UpdateStat, LoadNoProjection,
              LoadProjection, Ingested, PushItem, PushConflict, RecordCompaction,
              ReadActive, MissingItem, Externalize, ExternalizeConflict,
              ReplaceProjection
  <2>4. ASSUME NEW p \in Procs, Exit(p) \/ Crash(p) \/ Fail(p)
        PROVE  lastPlan'[q] \in {lastPlan[q], None}
    BY <1>1, <2>4 DEF Exit, Crash, Fail, Stop
  <2>5. QED
    BY <2>1, <2>2, <2>3, <2>4 DEF Next
<1>3. ASSUME NEW plan \in Plans
      PROVE  plan[i] \in {"Pin", "none"}
  BY SessionAssumption DEF Plans, Options, PlanOptions
<1>4. QED
  BY <1>2, <1>3 DEF SoundnessInv, PlansSparePinned

(* An externalization leaves todo only when its artifact has been inserted.*)
LEMMA ArtifactsFirstStep ==
  ASSUME SoundnessInv, [Next]_vars
  PROVE  ArtifactsFirst'
<1> SUFFICES ASSUME NEW q \in Procs, pc'[q] = "apply",
                    NEW i \in Items, lastPlan'[q][i] = "Externalize"
             PROVE  i \in todo'[q] \/ i \in Archived'
  BY DEF ArtifactsFirst
<1>1. TypeOK /\ Archived \subseteq Archived'
  BY TablesGrow DEF Archived, SoundnessInv
<1>2. ASSUME pc[q] = "apply", lastPlan'[q] = lastPlan[q], todo'[q] = todo[q]
      PROVE  i \in todo'[q] \/ i \in Archived'
  BY <1>1, <1>2 DEF SoundnessInv, ArtifactsFirst
<1>3. CASE UNCHANGED vars
  BY <1>2, <1>3 DEF vars, process
<1>4. ASSUME NEW p \in Procs, Begin(p)
      PROVE  pc[q] = "apply" /\ lastPlan'[q] = lastPlan[q] /\ todo'[q] = todo[q]
  BY <1>1, <1>4 DEF TypeOK, Begin, Open, InsertItem, Plan, Status, StartCompact,
                    StartMaterialize, MakePlan, Goto
<1>5. ASSUME NEW p \in Procs, Exit(p) \/ Crash(p) \/ Fail(p)
      PROVE  pc[q] = "apply" /\ lastPlan'[q] = lastPlan[q] /\ todo'[q] = todo[q]
  BY <1>1, <1>5 DEF TypeOK, Exit, Crash, Fail, Stop, Return
<1>6. ASSUME NEW p \in Procs, ReadActive(p)
      PROVE  i \in todo'[q] \/ i \in Archived'
  <2>1. CASE q = p
    BY <1>1, <1>6, <2>1 DEF ReadActive, TypeOK
  <2>2. CASE q # p
    BY <1>1, <1>2, <1>6, <2>2 DEF ReadActive, Goto, TypeOK
  <2>3. QED
    BY <2>1, <2>2
<1>7. ASSUME NEW p \in Procs, NEW j \in Items, Externalize(p, j)
      PROVE  i \in todo'[q] \/ i \in Archived'
  <2>1. pc[q] = "apply" /\ lastPlan'[q] = lastPlan[q]
    BY <1>7 DEF Externalize
  <2>2. i \in todo[q] \/ i \in Archived
    BY <2>1 DEF SoundnessInv, ArtifactsFirst
  <2>3. j \in Archived'
    BY <1>7 DEF Externalize, Archived
  <2>4. todo'[q] = todo[q] \/ todo'[q] = todo[q] \ {j}
    BY <1>1, <1>7 DEF Externalize, TypeOK
  <2>5. QED
    BY <1>1, <2>2, <2>3, <2>4
<1>8. ASSUME NEW p \in Procs, Work(p), ~ReadActive(p),
             ~\E j \in Items : Externalize(p, j)
      PROVE  pc[q] = "apply" /\ lastPlan'[q] = lastPlan[q] /\ todo'[q] = todo[q]
  BY <1>1, <1>8 DEF TypeOK, Work, AppendEvent, UpdateStat, LoadNoProjection,
            LoadProjection, Ingested, PushItem, PushConflict, RecordCompaction,
            MissingItem, ExternalizeConflict, ReplaceProjection, Goto, Return
<1>9. QED
  BY <1>2, <1>3, <1>4, <1>5, <1>6, <1>7, <1>8 DEF Next

LEMMA SoundnessInit == Init => SoundnessInv
<1> SUFFICES ASSUME Init
             PROVE  SoundnessInv
  OBVIOUS
<1>1. SoundRows(workingSet)
  BY DEF Init, SoundRows, NoEntries, Absent, IsActive
<1>2. \A p \in Procs : pc[p] = "down" /\ lastPlan[p] = None
  BY DEF Init
<1>3. QED
  BY <1>1, <1>2, TypeInit
     DEF SoundnessInv, RowsSound, PlansSparePinned, ArtifactsFirst

LEMMA SoundnessStep == SoundnessInv /\ [Next]_vars => SoundnessInv'
BY TypeStep, RowsSoundStep, PlansSparePinnedStep, ArtifactsFirstStep
   DEF SoundnessInv

THEOREM SoundnessCorrect == Spec => []SoundnessInv
BY SoundnessInit, SoundnessStep, PTL DEF Spec

(* The model is never shown a reference that cannot be fetched, even if    *)
(* several processes compact the session at once.                          *)
THEOREM ReferencesAlwaysResolve == Spec => []ReferencesResolve
<1>1. SoundnessInv => ReferencesResolve
  BY ViewSound DEF SoundnessInv, SoundRows, ReferencesResolve
<1>2. QED
  BY <1>1, SoundnessCorrect, PTL

(* Reading the active context never fails for want of the original row.    *)
THEOREM ProjectionAlwaysBacked == Spec => []ProjectionBacked
<1>1. SoundnessInv => ProjectionBacked
  BY DEF SoundnessInv, RowsSound, SoundRows, ProjectionBacked
<1>2. QED
  BY <1>1, SoundnessCorrect, PTL

(* A pinned item in the context is verbatim, whoever compacted it.         *)
THEOREM PinnedAlwaysVerbatim == Spec => []PinnedVerbatim
<1>1. SoundnessInv => PinnedVerbatim
  BY ViewSound, SessionAssumption
     DEF SoundnessInv, SoundRows, PinnedVerbatim
<1>2. QED
  BY <1>1, SoundnessCorrect, PTL

-----------------------------------------------------------------------------
(* Pinned items, for a single process.                                     *)

(* Steps that write no row, add no item and acknowledge none leave the     *)
(* context alone.                                                          *)
LEMMA ContextSame ==
  ASSUME UNCHANGED <<items, projected, workingSet>>
  PROVE  View' = View
BY DEF View

LEMMA KeptInit == Init => KeptInv
BY TypeInit DEF Init, KeptInv, PinnedKept, SnapshotsCurrent, PlansPinKept, Kept

(* A plan pins what is pinned and in the context.                          *)
LEMMA PlanPins ==
  ASSUME KeptInv, NEW plan \in Plans, NEW i \in Kept
  PROVE  plan[i] = "Pin"
<1>1. i \in Pinned /\ i \in Items /\ IsActive(View[i])
  BY SessionAssumption DEF KeptInv, PinnedKept, Kept, IsActive, Verbatim, L0, L5
<1>2. Options(i, View[i]) = {"Pin"}
  BY <1>1 DEF Options, PlanOptions
<1>3. QED
  BY <1>1, <1>2 DEF Plans

LEMMA KeptStep ==
  ASSUME \A p, q \in Procs : p = q
  PROVE  KeptInv /\ [Next]_vars => KeptInv'
<1> SUFFICES ASSUME KeptInv, [Next]_vars
             PROVE  KeptInv'
  OBVIOUS
<1>1. TypeOK /\ TypeOK'
  BY TypeStep DEF KeptInv
<1>2. Pinned \subseteq Items
  BY SessionAssumption
<1>3. CASE UNCHANGED vars
  BY <1>1, <1>3, ContextSame DEF vars, database, process, environment, KeptInv,
     PinnedKept, SnapshotsCurrent, PlansPinKept, Kept
<1>4. ASSUME NEW p \in Procs, Open(p) \/ Exit(p) \/ Crash(p) \/ Fail(p)
      PROVE  KeptInv'
  <2>1. UNCHANGED <<database, acked>> /\ pc'[p] \in {"idle", "down"}
    BY <1>1, <1>4 DEF TypeOK, Open, Exit, Crash, Fail, Goto, Stop, Return,
       environment
  <2>2. QED
    BY <1>1, <2>1, ContextSame DEF database, KeptInv, PinnedKept,
       SnapshotsCurrent, PlansPinKept, Kept
<1>5. ASSUME NEW p \in Procs, NEW i \in Items, InsertItem(p, i)
      PROVE  KeptInv'
  <2>1. pc'[p] = "event" /\ acked' = acked /\ projected' = projected
        /\ workingSet' = workingSet /\ items \subseteq items'
    BY <1>1, <1>5 DEF TypeOK, InsertItem, Goto, environment
  <2>2. \A j \in Kept : View'[j] = View[j]
    BY <1>1, <1>2, <2>1 DEF View, Kept, TypeOK
  <2>3. QED
    BY <1>1, <2>1, <2>2 DEF KeptInv, PinnedKept, SnapshotsCurrent,
       PlansPinKept, Kept
<1>6. ASSUME NEW p \in Procs, AppendEvent(p) \/ UpdateStat(p)
      PROVE  KeptInv'
  <2>1. /\ pc'[p] \in {"stat", "load"} /\ acked' = acked
        /\ UNCHANGED <<items, projected, workingSet>>
    BY <1>1, <1>6 DEF TypeOK, AppendEvent, UpdateStat, Goto, environment
  <2>2. QED
    BY <1>1, <2>1, ContextSame DEF KeptInv, PinnedKept, SnapshotsCurrent,
       PlansPinKept, Kept
<1>7. ASSUME NEW p \in Procs, LoadNoProjection(p)
      PROVE  KeptInv'
  <2>1. /\ pc'[p] = "idle" /\ acked' = acked \union {current[p]}
        /\ current[p] \in items /\ ~projected
        /\ UNCHANGED <<items, projected, workingSet>>
    BY <1>1, <1>7 DEF TypeOK, LoadNoProjection, Ingested, Return, database
  <2>2. \A j \in (Pinned \ Inactive) \intersect items : View[j] = Verbatim
    BY <1>2, <2>1 DEF View
  <2>3. QED
    BY <1>1, <2>1, <2>2, ContextSame DEF KeptInv, PinnedKept, SnapshotsCurrent,
       PlansPinKept, Kept
<1>8. ASSUME NEW p \in Procs, LoadProjection(p)
      PROVE  KeptInv'
  <2>1. /\ pc'[p] = "push" /\ projected /\ acked' = acked
        /\ snapshot'[p] = workingSet /\ UNCHANGED <<items, projected, workingSet>>
    BY <1>1, <1>8 DEF TypeOK, LoadProjection, Goto, database, environment
  <2>2. \A j \in Kept : workingSet[j] = Verbatim
    BY <1>2, <2>1 DEF KeptInv, PinnedKept, Kept, View
  <2>3. QED
    BY <1>1, <2>1, <2>2, ContextSame DEF KeptInv, PinnedKept, SnapshotsCurrent,
       PlansPinKept, Kept
<1>9. ASSUME NEW p \in Procs, PushItem(p)
      PROVE  KeptInv'
  <2>1. /\ pc'[p] = "idle" /\ acked' = acked \union {current[p]}
        /\ current[p] \in Items
        /\ projected /\ projected' = projected
        /\ workingSet' = [snapshot[p] EXCEPT ![current[p]] = Verbatim]
        /\ snapshot[p] \in [Items -> Entries]
        /\ \A i \in Kept : snapshot[p][i] = Verbatim
    BY <1>1, <1>9 DEF TypeOK, PushItem, Ingested, Return, KeptInv,
       SnapshotsCurrent
  <2>2. \A i \in Kept' : workingSet'[i] = Verbatim
    BY <1>2, <2>1 DEF Kept
  <2>3. PinnedKept'
    BY <1>2, <2>1, <2>2 DEF PinnedKept, Kept, View
  <2>4. QED
    BY <1>1, <2>1, <2>3 DEF KeptInv, SnapshotsCurrent, PlansPinKept
<1>10. ASSUME NEW p \in Procs, PushConflict(p) \/ MissingItem(p)
                               \/ \E i \in Items : ExternalizeConflict(p, i)
       PROVE  KeptInv'
  <2>1. UNCHANGED <<database, acked>> /\ pc'[p] = "idle"
    BY <1>1, <1>10 DEF TypeOK, PushConflict, MissingItem, ExternalizeConflict,
       Return, environment
  <2>2. QED
    BY <1>1, <2>1, ContextSame DEF database, KeptInv, PinnedKept,
       SnapshotsCurrent, PlansPinKept, Kept
<1>11. ASSUME NEW p \in Procs,
              Plan(p) \/ Status(p) \/ StartCompact(p) \/ StartMaterialize(p)
       PROVE  KeptInv'
  <2>1. PICK plan \in Plans : lastPlan' = [lastPlan EXCEPT ![p] = plan]
    BY <1>11 DEF Plan, Status, StartCompact, StartMaterialize, MakePlan
  <2>2. /\ pc'[p] \in {"idle", "record", "read"} /\ acked' = acked
        /\ UNCHANGED database
    BY <1>1, <1>11 DEF TypeOK, Plan, Status, StartCompact, StartMaterialize,
       Goto, environment
  <2>3. lastPlan'[p] = plan
    BY <1>1, <2>1 DEF TypeOK
  <2>4. \A i \in Kept : plan[i] = "Pin"
    BY PlanPins
  <2>5. QED
    BY <1>1, <2>2, <2>3, <2>4, ContextSame DEF database, KeptInv, PinnedKept,
       SnapshotsCurrent, PlansPinKept, Kept
<1>12. ASSUME NEW p \in Procs, RecordCompaction(p)
       PROVE  KeptInv'
  <2>1. /\ pc[p] = "record" /\ pc'[p] = "read" /\ acked' = acked
        /\ UNCHANGED <<items, projected, workingSet, lastPlan>>
    BY <1>1, <1>12 DEF TypeOK, RecordCompaction, Goto, environment
  <2>2. QED
    BY <1>1, <2>1, ContextSame DEF KeptInv, PinnedKept, SnapshotsCurrent,
       PlansPinKept, Kept
<1>13. ASSUME NEW p \in Procs, ReadActive(p)
       PROVE  KeptInv'
  <2>1. /\ pc[p] = "read" /\ pc'[p] = "apply" /\ acked' = acked
        /\ snapshot'[p] = View /\ lastPlan' = lastPlan /\ UNCHANGED database
    BY <1>1, <1>13 DEF TypeOK, ReadActive, Goto, environment
  <2>2. QED
    BY <1>1, <2>1, ContextSame DEF database, KeptInv, PinnedKept,
       SnapshotsCurrent, PlansPinKept, Kept
<1>14. ASSUME NEW p \in Procs, NEW i \in Items, Externalize(p, i)
       PROVE  KeptInv'
  <2>1. /\ pc' = pc /\ acked' = acked /\ snapshot' = snapshot
        /\ UNCHANGED <<items, projected, workingSet, lastPlan>>
    BY <1>14 DEF Externalize, environment
  <2>2. QED
    BY <1>1, <2>1, ContextSame DEF KeptInv, PinnedKept, SnapshotsCurrent,
       PlansPinKept, Kept
<1>15. ASSUME NEW p \in Procs, ReplaceProjection(p)
       PROVE  KeptInv'
  <2>1. /\ pc[p] = "apply" /\ pc'[p] = "idle" /\ acked' = acked /\ projected'
        /\ workingSet' = [i \in Items |-> Applied(lastPlan[p][i], snapshot[p][i])]
    BY <1>1, <1>15 DEF TypeOK, ReplaceProjection, Return, environment
  <2>2. \A i \in Kept : lastPlan[p][i] = "Pin" /\ snapshot[p][i] = Verbatim
    BY <2>1 DEF KeptInv, SnapshotsCurrent, PlansPinKept
  <2>3. \A i \in Kept : workingSet'[i] = Verbatim
    BY <1>2, <2>1, <2>2 DEF Applied, Kept
  <2>4. PinnedKept'
    BY <1>2, <2>1, <2>3 DEF PinnedKept, Kept, View
  <2>5. QED
    BY <1>1, <2>1, <2>4 DEF KeptInv, SnapshotsCurrent, PlansPinKept
<1>16. QED
  BY <1>3, <1>4, <1>5, <1>6, <1>7, <1>8, <1>9, <1>10, <1>11, <1>12, <1>13,
     <1>14, <1>15 DEF Next, Begin, Work

(* While one process at a time uses the database, a pinned item whose      *)
(* ingest returned Ok stays in the context, verbatim, also when calls fail *)
(* or the process is killed between any two statements.                    *)
THEOREM PinnedAlwaysKept ==
  ASSUME \A p, q \in Procs : p = q
  PROVE  Spec => []PinnedKept
<1>1. KeptInv /\ [Next]_vars => KeptInv'
  BY KeptStep
<1>2. KeptInv => PinnedKept
  BY DEF KeptInv
<1>3. QED
  BY <1>1, <1>2, KeptInit, PTL DEF Spec

-----------------------------------------------------------------------------
(* What is written for an item in the course of a plan.                    *)

LEMMA NamedEnds == Named(Verbatim) /\ Named(Absent)
  BY DEF Named, Verbatim, Absent

(* What a plan may do with an item.                                        *)
LEMMA OptionsMean ==
  ASSUME NEW entry \in Entries, NEW i \in Items, NEW action \in Options(i, entry)
  PROVE  /\ entry.level = L5 => action = "none"
         /\ entry.level # L5 => action \in {"Pin", "Keep", "Drop", "Reduce", "Extract", "Externalize"}
         /\ i \in Pinned => action \in {"Pin", "none"}
         /\ action = "Reduce" => entry.level = L0
         /\ action = "Extract" => entry.level \in {L0, L1}
         /\ action = "Externalize" => entry.level \in {L0, L1, L2}
<1>1. CASE entry.level = L5
  BY <1>1 DEF Options, IsActive
<1>2. CASE entry.level # L5 /\ i \in Pinned
  BY <1>2 DEF Options, IsActive, PlanOptions
<1>3. CASE entry.level # L5 /\ i \notin Pinned
  <2>1. \/ action \in {"Keep", "Drop"}
        \/ action \in {a \in {"Reduce"} : i \in Reducible /\ entry.level = L0}
        \/ action \in {a \in {"Extract"} : i \in Reducible /\ entry.level \in {L0, L1}}
        \/ action \in {a \in {"Externalize"} :
              \/ i \in Externalizable /\ entry.level \in {L0, L1, L2}
              \/ i \in Reducible /\ entry.level = L2}
    BY <1>3 DEF Options, IsActive, PlanOptions
  <2>2. QED
    BY <1>3, <2>1
<1>4. QED
  BY <1>1, <1>2, <1>3

(* Applied moves an entry forward, if the action is one that a plan may    *)
(* choose for it.                                                          *)
LEMMA AppliedForward ==
  ASSUME NEW entry \in Entries, Named(entry), NEW i \in Items,
         NEW action \in Options(i, entry)
  PROVE  LET after == Applied(action, entry)
         IN /\ Named(after) /\ after.level >= entry.level
            /\ after.level = entry.level => after = entry
            /\ i \in Pinned => after = entry
            /\ "reference" \in after.text /\ action # "Externalize" =>
                 after = entry
<1>1. /\ entry.level \in {0, 1, 2, 4, 5} /\ entry = [level |-> entry.level, text |-> entry.text]
  BY DEF Entries, Levels
<1>2. CASE entry.level = L5
  <2>1. action = "none" /\ entry.text = {}
    BY <1>2, OptionsMean DEF Named
  <2>2. Applied(action, entry) = Absent /\ entry = Absent
    BY <1>1, <1>2, <2>1 DEF Applied, Absent
  <2>3. QED
    BY <2>1, <2>2, NamedEnds, <1>2
<1>3. CASE action \in {"Keep", "Pin"}
  <2>1. Applied(action, entry) = entry
    BY <1>3 DEF Applied
  <2>2. QED
    BY <1>1, <2>1
<1>4. CASE entry.level # L5 /\ action = "Drop"
  <2>1. i \notin Pinned
    BY <1>4, OptionsMean
  <2>2. Applied(action, entry) = Absent
    BY <1>4 DEF Applied
  <2>3. QED
    BY <1>1, <1>4, <2>1, <2>2, NamedEnds DEF Absent
<1>5. CASE action = "Reduce"
  <2>1. i \notin Pinned /\ entry.level = L0
    BY <1>5, OptionsMean
  <2>2. Applied(action, entry) = [level |-> L1, text |-> {"reduced"}]
    BY <1>5, <2>1 DEF Applied, Named
  <2>3. QED
    BY <2>1, <2>2 DEF Named
<1>6. CASE action = "Extract"
  <2>1. i \notin Pinned /\ entry.level \in {L0, L1}
    BY <1>6, OptionsMean
  <2>2. entry.text \in {{}, {"reduced"}}
    BY <2>1 DEF Named
  <2>3. Applied(action, entry) = [level |-> L2, text |-> entry.text \union {"extracted"}]
    BY <1>6 DEF Applied
  <2>4. entry.text \union {"extracted"} \in {{"extracted"}, {"reduced", "extracted"}}
    BY <2>2
  <2>5. QED
    BY <2>1, <2>3, <2>4 DEF Named
<1>7. CASE action = "Externalize"
  <2>1. i \notin Pinned /\ entry.level \in {L0, L1, L2}
    BY <1>7, OptionsMean
  <2>2. Applied(action, entry) = [level |-> L4, text |-> {"reference"}]
    BY <1>7 DEF Applied
  <2>3. QED
    BY <1>7, <2>1, <2>2 DEF Named
<1>8. QED
  BY <1>2, <1>3, <1>4, <1>5, <1>6, <1>7, OptionsMean

-----------------------------------------------------------------------------
(* What a process that has the session to itself holds in memory.          *)

(* The calls that end with the acknowledgement of current[p], and those    *)
(* that end with the application of lastPlan[p].                           *)
Ingesting(p) == pc[p] \in {"event", "stat", "load", "push"}
Applying(p)  == pc[p] \in {"record", "read", "apply"}

(* A call has the context before it as it is, plans for it, and ingests an *)
(* item that has no row of the projection yet.                             *)
CallCurrent(p) ==
  /\ Applying(p) => lastPlan[p] \in Plans
  /\ pc[p] = "apply" =>
       /\ snapshot[p] = View
       /\ todo[p] \subseteq {i \in Items : lastPlan[p][i] = "Externalize"}
  /\ pc[p] = "push" => projected /\ snapshot[p] = workingSet
  /\ Ingesting(p) => current[p] \notin acked
  /\ Ingesting(p) /\ projected => ~IsActive(workingSet[current[p]])
  /\ pc[p] = "down" => lastPlan[p] = None

CurrentInv == SoundnessInv /\ LevelNamesText /\ \A p \in Procs : CallCurrent(p)

LEMMA CurrentInit == Init => CurrentInv
<1> SUFFICES ASSUME Init
             PROVE  CurrentInv
  OBVIOUS
<1>1. \A p \in Procs : pc[p] = "down" /\ lastPlan[p] = None
  BY DEF Init
<1>2. View = NoEntries
  BY DEF Init, View, NoEntries
<1>3. LevelNamesText
  BY <1>2, NamedEnds DEF LevelNamesText, NoEntries
<1>4. QED
  BY <1>1, <1>3, SoundnessInit DEF CurrentInv, CallCurrent, Ingesting, Applying

(* The step of a process that is not in a call, and is not in one after it,*)
(* or only ends its call, writes no row.                                   *)
LEMMA CurrentQuiet ==
  ASSUME \A p, q \in Procs : p = q, CurrentInv, SoundnessInv',
         UNCHANGED <<items, projected, workingSet>>,
         NEW p \in Procs, pc'[p] \in {"idle", "down"},
         pc'[p] = "down" => lastPlan'[p] = None
  PROVE  CurrentInv'
<1>1. View' = View
  BY ContextSame
<1>2. LevelNamesText'
  BY <1>1 DEF CurrentInv, LevelNamesText
<1>3. CallCurrent(p)'
  BY DEF CallCurrent, Ingesting, Applying
<1>4. QED
  BY <1>2, <1>3 DEF CurrentInv

(* A call that goes on.                                                    *)
LEMMA CurrentCall ==
  ASSUME \A p, q \in Procs : p = q, CurrentInv, SoundnessInv',
         UNCHANGED <<items, projected, workingSet>>,
         NEW p \in Procs, CallCurrent(p)'
  PROVE  CurrentInv'
<1>1. View' = View
  BY ContextSame
<1>2. LevelNamesText'
  BY <1>1 DEF CurrentInv, LevelNamesText
<1>3. QED
  BY <1>2 DEF CurrentInv

LEMMA PlansSame ==
  ASSUME UNCHANGED <<items, projected, workingSet>>
  PROVE  Plans' = Plans
BY ContextSame DEF Plans, Options

LEMMA CurrentStep ==
  ASSUME \A p, q \in Procs : p = q
  PROVE  CurrentInv /\ [Next]_vars => CurrentInv'
<1> SUFFICES ASSUME CurrentInv, [Next]_vars
             PROVE  CurrentInv'
  OBVIOUS
<1>1. /\ TypeOK /\ TypeOK' /\ SoundnessInv'
      /\ \A p \in Procs : CallCurrent(p)
  BY SoundnessStep DEF CurrentInv, SoundnessInv
<1>2. CASE UNCHANGED vars
  <2>1. UNCHANGED <<items, projected, workingSet, lastPlan, pc, snapshot, todo,
                    current, acked>>
    BY <1>2 DEF vars, database, process, environment
  <2>2. \A p \in Procs : CallCurrent(p)'
    BY <1>1, <2>1, ContextSame, PlansSame DEF CallCurrent, Ingesting, Applying
  <2>3. QED
    BY <1>1, <2>1, <2>2, ContextSame DEF CurrentInv, LevelNamesText
<1>3. ASSUME NEW p \in Procs,
             \/ Open(p) \/ Exit(p) \/ Crash(p) \/ Fail(p)
             \/ PushConflict(p) \/ MissingItem(p)
             \/ \E i \in Items : ExternalizeConflict(p, i)
             \/ Plan(p) \/ Status(p) \/ LoadNoProjection(p)
      PROVE  CurrentInv'
  <2>1. UNCHANGED <<items, projected, workingSet>>
    BY <1>3 DEF Open, Exit, Crash, Fail, PushConflict, MissingItem,
       ExternalizeConflict, Plan, Status, LoadNoProjection, database
  <2>2. /\ pc'[p] \in {"idle", "down"}
        /\ pc'[p] = "down" => lastPlan'[p] = None
    BY <1>1, <1>3 DEF TypeOK, Open, Exit, Crash, Fail, PushConflict, MissingItem,
       ExternalizeConflict, Plan, Status, LoadNoProjection, Ingested, Stop,
       Return, Goto
  <2>3. QED
    BY <1>1, <2>1, <2>2, CurrentQuiet
<1>4. ASSUME NEW p \in Procs, NEW i \in Items, InsertItem(p, i)
      PROVE  CurrentInv'
  <2>1. /\ pc'[p] = "event" /\ current'[p] = i /\ acked' = acked /\ i \notin items
        /\ items' = items \union {i} /\ UNCHANGED <<projected, workingSet>>
    BY <1>1, <1>4 DEF TypeOK, InsertItem, Goto, environment
  <2>2. i \notin acked /\ ~IsActive(workingSet[i])
    BY <1>1, <2>1 DEF TypeOK, CurrentInv, SoundnessInv, RowsSound, SoundRows
  <2>3. CallCurrent(p)'
    BY <2>1, <2>2 DEF CallCurrent, Ingesting, Applying
  <2>4. \A j \in Items : View'[j] = View[j] \/ View'[j] = Verbatim
    BY <2>1 DEF View
  <2>5. LevelNamesText'
    BY <2>4, NamedEnds DEF CurrentInv, LevelNamesText, Named
  <2>6. QED
    BY <1>1, <2>3, <2>5 DEF CurrentInv
<1>5. ASSUME NEW p \in Procs, AppendEvent(p) \/ UpdateStat(p)
      PROVE  CurrentInv'
  <2>1. /\ pc[p] \in {"event", "stat"} /\ pc'[p] \in {"stat", "load"}
        /\ UNCHANGED <<acked, current, items, projected, workingSet>>
    BY <1>1, <1>5 DEF TypeOK, AppendEvent, UpdateStat, Goto, environment
  <2>2. CallCurrent(p)'
    BY <1>1, <2>1 DEF CallCurrent, Ingesting, Applying
  <2>3. QED
    BY <1>1, <2>1, <2>2, CurrentCall
<1>6. ASSUME NEW p \in Procs, LoadProjection(p)
      PROVE  CurrentInv'
  <2>1. /\ pc[p] = "load" /\ pc'[p] = "push" /\ projected
        /\ snapshot'[p] = workingSet
        /\ UNCHANGED <<acked, current, items, projected, workingSet>>
    BY <1>1, <1>6 DEF TypeOK, LoadProjection, Goto, environment, database
  <2>2. CallCurrent(p)'
    BY <1>1, <2>1 DEF CallCurrent, Ingesting, Applying
  <2>3. QED
    BY <1>1, <2>1, <2>2, CurrentCall
<1>7. ASSUME NEW p \in Procs, PushItem(p)
      PROVE  CurrentInv'
  <2>1. /\ pc'[p] = "idle" /\ projected /\ projected'
        /\ current[p] \in Items /\ workingSet \in [Items -> Entries]
        /\ workingSet' = [workingSet EXCEPT ![current[p]] = Verbatim]
    BY <1>1, <1>7 DEF TypeOK, PushItem, Ingested, Return, CallCurrent
  <2>2. \A j \in Items : View'[j] = View[j] \/ View'[j] = Verbatim
    BY <2>1 DEF View
  <2>3. LevelNamesText'
    BY <2>2, NamedEnds DEF CurrentInv, LevelNamesText, Named
  <2>4. CallCurrent(p)'
    BY <2>1 DEF CallCurrent, Ingesting, Applying
  <2>5. QED
    BY <1>1, <2>3, <2>4 DEF CurrentInv
<1>8. ASSUME NEW p \in Procs, StartCompact(p) \/ StartMaterialize(p)
      PROVE  CurrentInv'
  <2>1. PICK plan \in Plans : lastPlan' = [lastPlan EXCEPT ![p] = plan]
    BY <1>8 DEF StartCompact, StartMaterialize, MakePlan
  <2>2. /\ pc'[p] \in {"record", "read"} /\ lastPlan'[p] = plan
        /\ UNCHANGED <<items, projected, workingSet>>
    BY <1>1, <1>8, <2>1 DEF TypeOK, StartCompact, StartMaterialize, Goto, database
  <2>3. CallCurrent(p)'
    BY <2>2, PlansSame DEF CallCurrent, Ingesting, Applying
  <2>4. QED
    BY <1>1, <2>2, <2>3, CurrentCall
<1>9. ASSUME NEW p \in Procs, RecordCompaction(p) \/ ReadActive(p)
      PROVE  CurrentInv'
  <2>1. /\ pc[p] \in {"record", "read"} /\ pc'[p] \in {"read", "apply"}
        /\ lastPlan' = lastPlan /\ UNCHANGED <<items, projected, workingSet>>
        /\ pc'[p] = "apply" =>
             /\ snapshot'[p] = View
             /\ todo'[p] = {i \in Items : lastPlan[p][i] = "Externalize"}
    BY <1>1, <1>9 DEF TypeOK, RecordCompaction, ReadActive, Goto, database
  <2>2. CallCurrent(p)'
    BY <1>1, <2>1, PlansSame, ContextSame DEF CallCurrent, Ingesting, Applying
  <2>3. QED
    BY <1>1, <2>1, <2>2, CurrentCall
<1>10. ASSUME NEW p \in Procs, NEW i \in Items, Externalize(p, i)
       PROVE  CurrentInv'
  <2>1. /\ pc[p] = "apply" /\ pc'[p] = "apply" /\ todo'[p] \subseteq todo[p]
        /\ UNCHANGED <<lastPlan, snapshot, items, projected, workingSet>>
    BY <1>1, <1>10 DEF TypeOK, Externalize
  <2>2. CallCurrent(p)'
    BY <1>1, <2>1, PlansSame, ContextSame DEF CallCurrent, Ingesting, Applying
  <2>3. QED
    BY <1>1, <2>1, <2>2, CurrentCall
<1>11. ASSUME NEW p \in Procs, ReplaceProjection(p)
       PROVE  CurrentInv'
  <2>1. /\ pc[p] = "apply" /\ pc'[p] = "idle" /\ projected'
        /\ workingSet' = [i \in Items |-> Applied(lastPlan[p][i], View[i])]
        /\ lastPlan[p] \in Plans
    BY <1>1, <1>11 DEF TypeOK, ReplaceProjection, Return, CallCurrent, Applying
  <2>2. \A i \in Items : Named(View[i]) /\ lastPlan[p][i] \in Options(i, View[i])
    BY <2>1 DEF CurrentInv, LevelNamesText, Plans
  <2>3. \A i \in Items : View'[i] = Applied(lastPlan[p][i], View[i])
    BY <2>1 DEF View
  <2>4. LevelNamesText'
    BY <1>1, <2>2, <2>3, ViewType, AppliedForward DEF LevelNamesText, Named
  <2>5. CallCurrent(p)'
    BY <2>1 DEF CallCurrent, Ingesting, Applying
  <2>6. QED
    BY <1>1, <2>4, <2>5 DEF CurrentInv
<1>12. QED
  BY <1>2, <1>3, <1>4, <1>5, <1>6, <1>7, <1>8, <1>9, <1>10, <1>11
     DEF Next, Begin, Work

(* While one process at a time uses the database, the level of an item     *)
(* says what was done to its text, over any sequence of compactions,       *)
(* failures and crashes.                                                   *)
THEOREM LevelsAlwaysNameText ==
  ASSUME \A p, q \in Procs : p = q
  PROVE  Spec => []LevelNamesText
<1>1. CurrentInv /\ [Next]_vars => CurrentInv'
  BY CurrentStep
<1>2. CurrentInv => LevelNamesText
  BY DEF CurrentInv
<1>3. QED
  BY <1>1, <1>2, CurrentInit, PTL DEF Spec

-----------------------------------------------------------------------------
(* WorkingMemory is implemented.                                           *)

LEMMA SameForms == /\ Promise!Verbatim = Verbatim /\ Promise!Absent = Absent
                   /\ Promise!Entries = Entries
BY DEF Promise!Verbatim, Promise!Absent, Promise!Entries, Verbatim, Absent, Entries,
       Promise!Levels, Promise!Texts, Levels, Texts,
       Promise!L0, Promise!L1, Promise!L2, Promise!L4, Promise!L5

LEMMA PromiseInit == Init => Promise!Init
<1> SUFFICES ASSUME Init
             PROVE  Promise!Init
  OBVIOUS
<1>1. View = [i \in Items |-> Absent]
  BY DEF Init, View, NoEntries
<1>2. items = {} /\ Archived = {} /\ acked = {}
  BY DEF Init, Archived
<1>3. QED
  BY <1>1, <1>2, SameForms DEF Promise!Init

LEMMA PromiseStep ==
  ASSUME \A p, q \in Procs : p = q
  PROVE  CurrentInv /\ [Next]_vars => [Promise!Next]_(Promise!vars)
<1> SUFFICES ASSUME CurrentInv, [Next]_vars
             PROVE  Promise!Next \/ UNCHANGED <<items, View, Archived, acked>>
  BY DEF Promise!vars
<1>1. /\ TypeOK /\ TypeOK' /\ SoundnessInv
      /\ \A p \in Procs : CallCurrent(p)
  BY TypeStep DEF CurrentInv, SoundnessInv
<1>2. CASE UNCHANGED vars
  BY <1>2, ContextSame DEF vars, database, environment, Archived
<1>3. ASSUME NEW p \in Procs,
             \/ Open(p) \/ Exit(p) \/ Crash(p) \/ Fail(p)
             \/ PushConflict(p) \/ MissingItem(p)
             \/ \E i \in Items : ExternalizeConflict(p, i)
             \/ Plan(p) \/ Status(p) \/ StartCompact(p) \/ StartMaterialize(p)
             \/ AppendEvent(p) \/ UpdateStat(p) \/ LoadProjection(p)
             \/ RecordCompaction(p) \/ ReadActive(p)
      PROVE  UNCHANGED <<items, View, Archived, acked>>
  <2>1. UNCHANGED <<items, projected, workingSet, artifacts, acked>>
    BY <1>3 DEF Open, Exit, Crash, Fail, PushConflict, MissingItem,
       ExternalizeConflict, Plan, Status, StartCompact, StartMaterialize,
       AppendEvent, UpdateStat, LoadProjection, RecordCompaction, ReadActive,
       database, environment
  <2>2. QED
    BY <2>1, ContextSame DEF Archived
<1>4. ASSUME NEW p \in Procs, NEW i \in Items, InsertItem(p, i)
      PROVE  Promise!Persist(i)
  <2>1. /\ i \notin items /\ items' = items \union {i}
        /\ UNCHANGED <<projected, workingSet, artifacts, acked>>
    BY <1>4 DEF InsertItem, environment
  <2>2. CASE projected \/ i \in Inactive
    <3>1. View' = View
      BY <2>1, <2>2 DEF View
    <3>2. QED
      BY <2>1, <3>1 DEF Promise!Persist, Archived
  <2>3. CASE ~projected /\ i \notin Inactive
    <3>1. View' = [View EXCEPT ![i] = Verbatim]
      BY <2>1, <2>3 DEF View
    <3>2. QED
      BY <2>1, <3>1, SameForms DEF Promise!Persist, Archived
  <2>4. QED
    BY <2>2, <2>3
<1>5. ASSUME NEW p \in Procs, LoadNoProjection(p)
      PROVE  current[p] \in Items /\ Promise!Accept(current[p])
  <2>1. /\ pc[p] = "load" /\ ~projected /\ acked' = acked \union {current[p]}
        /\ UNCHANGED <<items, projected, workingSet, artifacts>>
    BY <1>5 DEF LoadNoProjection, Ingested, database
  <2>2. current[p] \in Items /\ current[p] \in items \ acked
    BY <1>1, <2>1 DEF TypeOK, CallCurrent, Ingesting
  <2>3. View' = View /\ Archived' = Archived
    BY <2>1, ContextSame DEF Archived
  <2>4. View[current[p]] = Verbatim \/ current[p] \in Inactive
    BY <2>1, <2>2 DEF View
  <2>5. QED
    BY <2>1, <2>2, <2>3, <2>4, SameForms DEF Promise!Accept
<1>6. ASSUME NEW p \in Procs, PushItem(p)
      PROVE  current[p] \in Items /\ Promise!Accept(current[p])
  <2>1. /\ pc[p] = "push" /\ projected /\ acked' = acked \union {current[p]}
        /\ workingSet' = [workingSet EXCEPT ![current[p]] = Verbatim]
        /\ UNCHANGED <<items, projected, artifacts>>
    BY <1>1, <1>6 DEF PushItem, Ingested, CallCurrent
  <2>2. /\ current[p] \in Items /\ current[p] \in items \ acked
        /\ workingSet \in [Items -> Entries]
    BY <1>1, <2>1 DEF TypeOK, CallCurrent, Ingesting
  <2>3. View' = [View EXCEPT ![current[p]] = Verbatim]
    BY <2>1, <2>2 DEF View
  <2>4. View'[current[p]] = Verbatim
    BY <2>2, <2>3 DEF View
  <2>5. QED
    BY <2>1, <2>2, <2>3, <2>4, SameForms DEF Promise!Accept, Archived
<1>7. ASSUME NEW p \in Procs, NEW i \in Items, Externalize(p, i)
      PROVE  Promise!Archive(i)
  <2>1. /\ pc[p] = "apply" /\ i \in todo[p] /\ i \notin Missing(p) /\ i \notin Archived
        /\ artifacts' = artifacts \union {[item |-> i, text |-> snapshot[p][i].text]}
        /\ UNCHANGED <<items, projected, workingSet, acked>>
    BY <1>7 DEF Externalize, environment
  <2>2. lastPlan[p][i] = "Externalize" /\ snapshot[p] = View
    BY <1>1, <2>1 DEF CallCurrent
  <2>3. IsActive(View[i])
    BY <2>1, <2>2 DEF Missing
  <2>4. i \in items
    BY <1>1, <2>3, ViewSound DEF SoundnessInv, SoundRows
  <2>5. View' = View
    BY <2>1, ContextSame
  <2>6. Archived' = Archived \union {i}
    <3> DEFINE row == [item |-> i, text |-> snapshot[p][i].text]
    <3>1. row.item = i /\ artifacts' = artifacts \union {row}
      BY <2>1
    <3> HIDE DEF row
    <3>2. QED
      BY <3>1 DEF Archived
  <2>7. QED
    BY <2>1, <2>4, <2>5, <2>6 DEF Promise!Archive
<1>8. ASSUME NEW p \in Procs, ReplaceProjection(p)
      PROVE  Promise!Compact
  <2>1. /\ pc[p] = "apply" /\ todo[p] = {} /\ projected'
        /\ workingSet' = [i \in Items |-> Applied(lastPlan[p][i], View[i])]
        /\ UNCHANGED <<items, artifacts, acked>>
        /\ lastPlan[p] \in Plans
    BY <1>1, <1>8 DEF ReplaceProjection, CallCurrent, Applying, environment
  <2>2. View' \in [Items -> Entries]
    BY <1>1, <2>1 DEF TypeOK, View
  <2>3. ASSUME NEW i \in Items
        PROVE  Promise!Forward(i, View[i], View'[i])
    <3>1. View'[i] = Applied(lastPlan[p][i], View[i])
      BY <2>1 DEF View
    <3>2. /\ View[i] \in Entries /\ Named(View[i])
          /\ lastPlan[p][i] \in Options(i, View[i])
      BY <1>1, <2>1, ViewType DEF CurrentInv, LevelNamesText, Plans
    <3>3. "reference" \in View[i].text => i \in Archived
      BY <1>1, ViewSound DEF SoundnessInv, SoundRows
    <3>4. lastPlan[p][i] = "Externalize" => i \in Archived
      BY <1>1, <2>1 DEF SoundnessInv, ArtifactsFirst
    <3>5. QED
      BY <3>1, <3>2, <3>3, <3>4, AppliedForward DEF Promise!Forward
  <2>4. Archived' = Archived
    BY <2>1 DEF Archived
  <2>5. QED
    BY <2>1, <2>2, <2>3, <2>4, SameForms DEF Promise!Compact
<1>9. QED
  BY <1>2, <1>3, <1>4, <1>5, <1>6, <1>7, <1>8
     DEF Next, Begin, Work, Promise!Next

(* One process at a time, Session keeps the promises of WorkingMemory: no  *)
(* call, failure or crash loses an accepted item without an action on it,  *)
(* brings one back to an earlier form, or touches a pinned one.            *)
THEOREM PromiseKept ==
  ASSUME \A p, q \in Procs : p = q
  PROVE  Spec => KeepsPromise
<1>1. CurrentInv /\ [Next]_vars => CurrentInv'
  BY CurrentStep
<1>2. CurrentInv /\ [Next]_vars => [Promise!Next]_(Promise!vars)
  BY PromiseStep
<1>3. QED
  BY <1>1, <1>2, CurrentInit, PromiseInit, PTL DEF Spec, KeepsPromise, Promise!Spec

=============================================================================
