------------------------ MODULE SessionHistoryProofs ------------------------
(***************************************************************************)
(* How Session's cached plan, history, artifacts and statistic agree with  *)
(* the context of a single process, for any set of items and any number of *)
(* crashes and errors.                                                     *)
(***************************************************************************)
EXTENDS SessionProofs, FiniteSetTheorems

USE DEF L0, L1, L2, L4, L5

-----------------------------------------------------------------------------
(* The cached plan.                                                        *)

(* A plan of any call that has one is about the context as it is.          *)
LEMMA FreshMeansPlan ==
  ASSUME TypeOK, NEW p \in Procs, lastPlan[p] # None
  PROVE  (\A i \in Items : lastPlan[p][i] \in Options(i, View[i]))
           <=> lastPlan[p] \in Plans
BY DEF TypeOK, Plans

LEMMA FreshStep ==
  ASSUME \A p, q \in Procs : p = q, CurrentInv, PlanFresh, [Next]_vars
  PROVE  PlanFresh'
<1>1. /\ TypeOK /\ TypeOK'
      /\ \A p \in Procs : CallCurrent(p)
  BY TypeStep DEF CurrentInv, SoundnessInv
<1> DEFINE Fresh == errors = 0 => \A p \in Procs :
             pc[p] = "idle" /\ lastPlan[p] # None => lastPlan[p] \in Plans
<1>2. Fresh
  BY <1>1, FreshMeansPlan DEF PlanFresh
<1>3. CASE UNCHANGED vars
  BY <1>3, ContextSame DEF vars, database, process, environment, PlanFresh, Options
<1>4. ASSUME NEW p \in Procs, pc'[p] # "idle" \/ lastPlan'[p] = None \/ errors' # 0
      PROVE  PlanFresh'
  BY <1>4 DEF PlanFresh
<1>5. ASSUME NEW p \in Procs, lastPlan'[p] \in Plans,
             UNCHANGED <<items, projected, workingSet>>
      PROVE  PlanFresh'
  BY <1>5, ContextSame DEF PlanFresh, Plans, Options
<1>6. ASSUME NEW p \in Procs, Open(p)
      PROVE  PlanFresh'
  <2>1. lastPlan'[p] = None
    BY <1>1, <1>6 DEF Open, CallCurrent
  <2>2. QED
    BY <1>4, <2>1
<1>7. ASSUME NEW p \in Procs, Exit(p) \/ Crash(p) \/ Fail(p)
      PROVE  PlanFresh'
  <2>1. pc'[p] # "idle" \/ errors' # 0
    BY <1>1, <1>7 DEF TypeOK, Exit, Crash, Fail, Stop
  <2>2. QED
    BY <1>4, <2>1
<1>8. ASSUME NEW p \in Procs, Plan(p) \/ Status(p)
      PROVE  PlanFresh'
  <2>1. PICK plan \in Plans : lastPlan' = [lastPlan EXCEPT ![p] = plan]
    BY <1>8 DEF Plan, Status, MakePlan
  <2>2. lastPlan'[p] \in Plans /\ UNCHANGED <<items, projected, workingSet>>
    BY <1>1, <1>8, <2>1 DEF TypeOK, Plan, Status, database
  <2>3. QED
    BY <1>5, <2>2
<1>9. ASSUME NEW p \in Procs,
             \/ \E i \in Items : InsertItem(p, i) \/ Externalize(p, i)
             \/ StartCompact(p) \/ StartMaterialize(p) \/ AppendEvent(p)
             \/ UpdateStat(p) \/ LoadProjection(p) \/ RecordCompaction(p)
             \/ ReadActive(p)
      PROVE  PlanFresh'
  <2>1. pc'[p] # "idle"
    BY <1>1, <1>9 DEF TypeOK, InsertItem, Externalize, StartCompact,
       StartMaterialize, AppendEvent, UpdateStat, LoadProjection,
       RecordCompaction, ReadActive, Goto
  <2>2. QED
    BY <1>4, <2>1
<1>10. ASSUME NEW p \in Procs,
              LoadNoProjection(p) \/ PushItem(p) \/ ReplaceProjection(p)
       PROVE  PlanFresh'
  <2>1. lastPlan'[p] = None
    BY <1>1, <1>10 DEF TypeOK, LoadNoProjection, PushItem, Ingested, ReplaceProjection
  <2>2. QED
    BY <1>4, <2>1
<1>11. ASSUME NEW p \in Procs, PushConflict(p)
       PROVE  FALSE
  BY <1>1, <1>11 DEF PushConflict, CallCurrent, Ingesting
<1>12. ASSUME NEW p \in Procs,
              MissingItem(p) \/ \E i \in Items : ExternalizeConflict(p, i)
       PROVE  PlanFresh'
  <2>1. /\ pc[p] = "apply" /\ lastPlan' = lastPlan
        /\ UNCHANGED <<items, projected, workingSet>>
    BY <1>12 DEF MissingItem, ExternalizeConflict, database
  <2>2. lastPlan'[p] \in Plans
    BY <1>1, <2>1 DEF CallCurrent, Applying
  <2>3. QED
    BY <1>5, <2>1, <2>2
<1>13. QED
  BY <1>3, <1>6, <1>7, <1>8, <1>9, <1>10, <1>11, <1>12 DEF Next, Begin, Work

(* The plan that status reports is about the context that the model is     *)
(* sent, as long as no statement fails: every call that changes the        *)
(* context drops the cached plan, also when a crash leaves it half done.   *)
THEOREM PlanAlwaysFresh ==
  ASSUME \A p, q \in Procs : p = q
  PROVE  Spec => []PlanFresh
<1>1. CurrentInv /\ [Next]_vars => CurrentInv'
  BY CurrentStep
<1>2. CurrentInv /\ PlanFresh /\ [Next]_vars => PlanFresh'
  BY FreshStep
<1>3. Init => PlanFresh
  BY DEF Init, PlanFresh
<1>4. QED
  BY <1>1, <1>2, <1>3, CurrentInit, PTL DEF Spec

-----------------------------------------------------------------------------
(* The history.                                                            *)

(* What an applied plan changes has been recorded.                         *)
PlansRecorded ==
  \A p \in Procs : pc[p] \in {"read", "apply"} =>
    {row \in Rows : lastPlan[p][row[1]] = row[2]} \subseteq actionRows

LEMMA ExplainedKept ==
  ASSUME NEW i \in Items, Explained(i), View'[i] = View[i],
         actionRows \subseteq actionRows'
  PROVE  Explained(i)'
BY DEF Explained

LEMMA RecordedStep ==
  ASSUME \A p, q \in Procs : p = q, "materialize" \notin Requests,
         CurrentInv, PlansRecorded, ChangesRecorded, [Next]_vars
  PROVE  PlansRecorded' /\ ChangesRecorded'
<1>1. /\ TypeOK /\ TypeOK'
      /\ \A p \in Procs : CallCurrent(p)
  BY TypeStep DEF CurrentInv, SoundnessInv
<1>2. CASE UNCHANGED vars
  BY <1>2, ContextSame DEF vars, database, process, environment, PlansRecorded,
     ChangesRecorded, Explained
<1>3. ASSUME UNCHANGED <<items, projected, workingSet, acked>>,
             actionRows \subseteq actionRows'
      PROVE  ChangesRecorded'
  <2>1. View' = View
    BY <1>3, ContextSame
  <2>2. acked \subseteq Items
    BY <1>1 DEF TypeOK
  <2>3. QED
    BY <1>3, <2>1, <2>2, ExplainedKept DEF ChangesRecorded
<1>4. ASSUME NEW p \in Procs, pc'[p] \notin {"read", "apply"}
      PROVE  PlansRecorded'
  BY <1>4 DEF PlansRecorded
<1>5. ASSUME NEW p \in Procs,
             \/ Open(p) \/ Exit(p) \/ Crash(p) \/ Fail(p)
             \/ PushConflict(p) \/ MissingItem(p)
             \/ \E i \in Items : ExternalizeConflict(p, i)
             \/ Plan(p) \/ Status(p) \/ StartCompact(p)
             \/ AppendEvent(p) \/ UpdateStat(p) \/ LoadProjection(p)
      PROVE  PlansRecorded' /\ ChangesRecorded'
  <2>1. UNCHANGED <<items, projected, workingSet, acked, actionRows>>
    BY <1>5 DEF Open, Exit, Crash, Fail, PushConflict, MissingItem,
       ExternalizeConflict, Plan, Status, StartCompact, AppendEvent, UpdateStat,
       LoadProjection, database, environment
  <2>2. pc'[p] \notin {"read", "apply"}
    BY <1>1, <1>5 DEF TypeOK, Open, Exit, Crash, Fail, PushConflict, MissingItem,
       ExternalizeConflict, Plan, Status, StartCompact, AppendEvent, UpdateStat,
       LoadProjection, Stop, Return, Goto
  <2>3. QED
    BY <1>3, <1>4, <2>1, <2>2
<1>6. ASSUME NEW p \in Procs, NEW i \in Items, InsertItem(p, i)
      PROVE  PlansRecorded' /\ ChangesRecorded'
  <2>1. /\ pc'[p] = "event" /\ acked' = acked /\ i \notin items
        /\ items' = items \union {i}
        /\ UNCHANGED <<projected, workingSet, actionRows>>
    BY <1>1, <1>6 DEF TypeOK, InsertItem, Goto, environment
  <2>2. \A j \in acked : j \in Items /\ View'[j] = View[j]
    BY <1>1, <2>1 DEF View, TypeOK
  <2>3. ChangesRecorded'
    BY <2>1, <2>2, ExplainedKept DEF ChangesRecorded
  <2>4. QED
    BY <1>4, <2>1, <2>3
<1>7. ASSUME NEW p \in Procs, LoadNoProjection(p) \/ PushItem(p)
      PROVE  PlansRecorded' /\ ChangesRecorded'
  <2>1. /\ pc'[p] = "idle" /\ acked' = acked \union {current[p]}
        /\ UNCHANGED <<items, projected, actionRows>>
        /\ current[p] \in items /\ acked \subseteq Items /\ items \subseteq Items
    BY <1>1, <1>7 DEF TypeOK, LoadNoProjection, PushItem, Ingested, Return, database
  <2>2. \A j \in acked : View'[j] = View[j] \/ View'[j] = Verbatim
    <3>1. CASE LoadNoProjection(p)
      BY <2>1, <3>1, ContextSame DEF LoadNoProjection, database
    <3>2. CASE PushItem(p)
      BY <1>1, <2>1, <3>2 DEF PushItem, CallCurrent, View, TypeOK
    <3>3. QED
      BY <1>7, <3>1, <3>2
  <2>3. current[p] \in Inactive \/ View'[current[p]] = Verbatim
    <3>1. CASE LoadNoProjection(p)
      BY <2>1, <3>1 DEF LoadNoProjection, View
    <3>2. CASE PushItem(p)
      BY <1>1, <2>1, <3>2 DEF PushItem, CallCurrent, View, TypeOK
    <3>3. QED
      BY <1>7, <3>1, <3>2
  <2>4. \A j \in Items : View'[j] = Verbatim => Explained(j)'
    BY DEF Explained, Verbatim
  <2>5. \A j \in acked' \ Inactive : Explained(j)'
    BY <2>1, <2>2, <2>3, <2>4, ExplainedKept DEF ChangesRecorded
  <2>6. QED
    BY <1>4, <2>1, <2>5 DEF ChangesRecorded
<1>8. ASSUME NEW p \in Procs, RecordCompaction(p)
      PROVE  PlansRecorded' /\ ChangesRecorded'
  <2>1. /\ UNCHANGED <<items, projected, workingSet, acked, lastPlan>>
        /\ actionRows' = actionRows \union {row \in Rows : lastPlan[p][row[1]] = row[2]}
    BY <1>8 DEF RecordCompaction, environment
  <2>2. PlansRecorded'
    BY <2>1 DEF PlansRecorded
  <2>3. QED
    BY <1>3, <2>1, <2>2
<1>9. ASSUME NEW p \in Procs, ReadActive(p) \/ \E i \in Items : Externalize(p, i)
      PROVE  PlansRecorded' /\ ChangesRecorded'
  <2>1. /\ pc[p] \in {"read", "apply"}
        /\ UNCHANGED <<items, projected, workingSet, acked, lastPlan, actionRows>>
    BY <1>9 DEF ReadActive, Externalize, database, environment
  <2>2. PlansRecorded'
    BY <2>1 DEF PlansRecorded
  <2>3. QED
    BY <1>3, <2>1, <2>2
<1>10. ASSUME NEW p \in Procs, ReplaceProjection(p)
       PROVE  PlansRecorded' /\ ChangesRecorded'
  <2>1. /\ pc[p] = "apply" /\ pc'[p] = "idle" /\ projected'
        /\ workingSet' = [i \in Items |-> Applied(lastPlan[p][i], View[i])]
        /\ UNCHANGED <<items, acked, actionRows>>
        /\ lastPlan[p] \in Plans
    BY <1>1, <1>10 DEF TypeOK, ReplaceProjection, Return, CallCurrent, Applying,
       environment
  <2>2. {row \in Rows : lastPlan[p][row[1]] = row[2]} \subseteq actionRows
    BY <2>1 DEF PlansRecorded
  <2>3. ASSUME NEW i \in acked \ Inactive
        PROVE  Explained(i)'
    <3>1. /\ i \in Items /\ View'[i] = Applied(lastPlan[p][i], View[i])
          /\ lastPlan[p][i] \in Options(i, View[i])
          /\ View[i] \in Entries
      BY <1>1, <2>1, ViewType DEF TypeOK, View, Plans
    <3>2. ASSUME NEW row \in Rows, row[1] = i, row[2] = lastPlan[p][i]
          PROVE  row \in actionRows
      BY <2>2, <3>2
    <3>3. lastPlan[p][i] \in {"Reduce", "Extract", "Externalize", "Drop"} =>
            <<i, lastPlan[p][i]>> \in actionRows
      BY <3>1, <3>2 DEF Rows
    <3>4. CASE lastPlan[p][i] \in {"Keep", "Pin"}
      <4>1. View'[i] = View[i]
        BY <3>1, <3>4 DEF Applied
      <4>2. QED
        BY <2>1, <2>3, <3>1, <4>1, ExplainedKept DEF ChangesRecorded
    <3>5. CASE lastPlan[p][i] = "none"
      <4>1. View[i].level = L5
        BY <3>1, <3>5, OptionsMean
      <4>2. <<i, "Drop">> \in actionRows
        BY <2>3, <4>1 DEF ChangesRecorded, Explained
      <4>3. View'[i] = Absent
        BY <3>1, <3>5 DEF Applied
      <4>4. QED
        BY <2>1, <4>2, <4>3 DEF Explained, Absent
    <3>6. CASE lastPlan[p][i] = "Reduce"
      BY <2>1, <3>1, <3>3, <3>6 DEF Applied, Explained
    <3>7. CASE lastPlan[p][i] = "Extract"
      BY <2>1, <3>1, <3>3, <3>7 DEF Applied, Explained
    <3>8. CASE lastPlan[p][i] = "Externalize"
      BY <2>1, <3>1, <3>3, <3>8 DEF Applied, Explained
    <3>9. CASE lastPlan[p][i] = "Drop"
      BY <2>1, <3>1, <3>3, <3>9 DEF Applied, Explained, Absent
    <3>10. QED
      BY <3>1, <3>4, <3>5, <3>6, <3>7, <3>8, <3>9, OptionsMean
  <2>4. QED
    BY <1>4, <2>1, <2>3 DEF ChangesRecorded
<1>11. ASSUME NEW p \in Procs, StartMaterialize(p)
       PROVE  FALSE
  BY <1>11 DEF StartMaterialize
<1>12. QED
  BY <1>2, <1>5, <1>6, <1>7, <1>8, <1>9, <1>10, <1>11 DEF Next, Begin, Work

(* If clients compact with context.compact, an accepted item that does not *)
(* stand as it was submitted has its action in the history, whatever was   *)
(* cut short on the way.                                                   *)
THEOREM ChangesAlwaysRecorded ==
  ASSUME \A p, q \in Procs : p = q, "materialize" \notin Requests
  PROVE  Spec => []ChangesRecorded
<1>1. CurrentInv /\ [Next]_vars => CurrentInv'
  BY CurrentStep
<1>2. /\ CurrentInv /\ PlansRecorded /\ ChangesRecorded /\ [Next]_vars
      => PlansRecorded' /\ ChangesRecorded'
  BY RecordedStep
<1>3. Init => PlansRecorded /\ ChangesRecorded
  BY DEF Init, PlansRecorded, ChangesRecorded
<1>4. QED
  BY <1>1, <1>2, <1>3, CurrentInit, PTL DEF Spec

-----------------------------------------------------------------------------
(* What history and artifacts say while nothing has been cut short: then   *)
(* every item is accepted or being ingested, what was recorded as removed  *)
(* is gone or about to be, what was archived is external, or about to be,  *)
(* and neither is the item that is being ingested.                         *)
Calm == crashes = 0 /\ errors = 0

AllAccepted ==
  \A i \in items : i \in acked \/ \E p \in Procs : Ingesting(p) /\ current[p] = i

DropsFollow ==
  \A i \in Items : <<i, "Drop">> \in actionRows =>
    /\ i \in acked
    /\ \/ ~IsActive(View[i])
       \/ \E p \in Procs : pc[p] \in {"read", "apply"} /\ lastPlan[p][i] = "Drop"

ArchivedFollow ==
  \A i \in Items : i \in Archived =>
    /\ i \in acked
    /\ \/ View[i].level \in {L4, L5}
       \/ \E p \in Procs :
            pc[p] = "apply" /\ lastPlan[p][i] = "Externalize" /\ i \notin todo[p]

TidyInv == Calm => AllAccepted /\ DropsFollow /\ ArchivedFollow

(* A call that is cut short is counted.                                    *)
LEMMA CalmBefore ==
  ASSUME TypeOK, [Next]_vars, Calm'
  PROVE  /\ Calm
         /\ \A p \in Procs : ~Crash(p) /\ ~Fail(p)
<1>1. crashes \in Nat /\ errors \in Nat
  BY SessionAssumption DEF TypeOK
<1>2. \A p \in Procs : ~Crash(p) /\ ~Fail(p)
  BY <1>1 DEF Calm, Crash, Fail
<1>3. Calm
  <2>1. CASE UNCHANGED vars
    BY <2>1 DEF Calm, vars, environment
  <2>2. ASSUME NEW p \in Procs, Begin(p) \/ Exit(p)
        PROVE  Calm
    BY <2>2 DEF Calm, Begin, Open, InsertItem, Plan, Status, StartCompact,
       StartMaterialize, Exit, environment
  <2>3. ASSUME NEW p \in Procs, Work(p)
        PROVE  Calm
    BY <2>3 DEF Calm, Work, AppendEvent, UpdateStat, LoadNoProjection,
       LoadProjection, PushItem, PushConflict, RecordCompaction, ReadActive,
       MissingItem, Externalize, ExternalizeConflict, ReplaceProjection, environment
  <2>4. QED
    BY <1>2, <2>1, <2>2, <2>3 DEF Next
<1>4. QED
  BY <1>2, <1>3

(* A process that is not ingesting has had all its items accepted.         *)
LEMMA AcceptedUnless ==
  ASSUME \A p, q \in Procs : p = q, AllAccepted, NEW p \in Procs, ~Ingesting(p)
  PROVE  items \subseteq acked
BY DEF AllAccepted

LEMMA TidyStep ==
  ASSUME \A p, q \in Procs : p = q, CurrentInv, TidyInv, [Next]_vars
  PROVE  TidyInv'
<1> SUFFICES ASSUME Calm'
             PROVE  AllAccepted' /\ DropsFollow' /\ ArchivedFollow'
  BY DEF TidyInv
<1>1. /\ TypeOK /\ TypeOK' /\ SoundnessInv
      /\ \A p \in Procs : CallCurrent(p)
  BY TypeStep DEF CurrentInv, SoundnessInv
<1>2. /\ AllAccepted /\ DropsFollow /\ ArchivedFollow
      /\ \A p \in Procs : ~Crash(p) /\ ~Fail(p)
  BY <1>1, CalmBefore DEF TidyInv
<1>3. CASE UNCHANGED vars
  <2>1. UNCHANGED <<items, acked, pc, current, actionRows, lastPlan, todo, artifacts, View>>
    BY <1>3, ContextSame DEF vars, database, process, environment
  <2>2. QED
    BY <1>2, <2>1 DEF AllAccepted, DropsFollow, ArchivedFollow, Archived, Ingesting
(* A process that neither applies a plan nor starts to.                    *)
<1>4. ASSUME NEW p \in Procs, pc[p] \notin {"read", "apply"},
             UNCHANGED <<items, projected, workingSet, acked, actionRows, artifacts>>
      PROVE  DropsFollow' /\ ArchivedFollow'
  <2>1. View' = View
    BY <1>4, ContextSame
  <2>2. \A i \in Items : <<i, "Drop">> \in actionRows => i \in acked /\ ~IsActive(View[i])
    BY <1>2, <1>4 DEF DropsFollow
  <2>3. \A i \in Items : i \in Archived => i \in acked /\ View[i].level \in {L4, L5}
    BY <1>2, <1>4 DEF ArchivedFollow
  <2>4. Archived' = Archived
    BY <1>4 DEF Archived
  <2>5. DropsFollow'
    BY <1>4, <2>1, <2>2 DEF DropsFollow
  <2>6. QED
    BY <1>4, <2>1, <2>3, <2>4, <2>5 DEF ArchivedFollow
<1>5. ASSUME NEW p \in Procs,
             \/ Open(p) \/ Exit(p) \/ Plan(p) \/ Status(p)
             \/ StartCompact(p) \/ StartMaterialize(p)
      PROVE  AllAccepted' /\ DropsFollow' /\ ArchivedFollow'
  <2>1. /\ pc[p] \in {"down", "idle"}
        /\ UNCHANGED <<items, projected, workingSet, acked, actionRows, artifacts>>
    BY <1>5 DEF Open, Exit, Plan, Status, StartCompact, StartMaterialize,
       database, environment
  <2>2. items \subseteq acked
    BY <1>2, <2>1, AcceptedUnless DEF Ingesting
  <2>3. AllAccepted'
    BY <2>1, <2>2 DEF AllAccepted
  <2>4. QED
    BY <1>4, <2>1, <2>3
<1>6. ASSUME NEW p \in Procs, AppendEvent(p) \/ UpdateStat(p) \/ LoadProjection(p)
      PROVE  AllAccepted' /\ DropsFollow' /\ ArchivedFollow'
  <2>1. /\ Ingesting(p) /\ Ingesting(p)' /\ current' = current
        /\ UNCHANGED <<items, projected, workingSet, acked, actionRows, artifacts>>
    BY <1>1, <1>6 DEF TypeOK, AppendEvent, UpdateStat, LoadProjection, Goto,
       Ingesting, database, environment
  <2>2. AllAccepted'
    BY <1>2, <2>1 DEF AllAccepted
  <2>3. QED
    BY <1>4, <2>1, <2>2 DEF Ingesting
<1>7. ASSUME NEW p \in Procs, NEW i \in Items, InsertItem(p, i)
      PROVE  AllAccepted' /\ DropsFollow' /\ ArchivedFollow'
  <2>1. /\ pc[p] = "idle" /\ pc'[p] = "event" /\ current'[p] = i /\ i \notin items
        /\ items' = items \union {i}
        /\ UNCHANGED <<projected, workingSet, acked, actionRows, artifacts>>
    BY <1>1, <1>7 DEF TypeOK, InsertItem, Goto, environment
  <2>2. items \subseteq acked
    BY <1>2, <2>1, AcceptedUnless DEF Ingesting
  <2>3. AllAccepted'
    BY <2>1, <2>2 DEF AllAccepted, Ingesting
  <2>4. \A j \in acked : j \in Items /\ View'[j] = View[j]
    BY <1>1, <2>1 DEF View, TypeOK
  <2>5. Archived' = Archived
    BY <2>1 DEF Archived
  <2>6. DropsFollow'
    BY <1>2, <2>1, <2>4 DEF DropsFollow
  <2>7. ArchivedFollow'
    BY <1>2, <2>1, <2>4, <2>5 DEF ArchivedFollow
  <2>8. QED
    BY <2>3, <2>6, <2>7
<1>8. ASSUME NEW p \in Procs, LoadNoProjection(p) \/ PushItem(p)
      PROVE  AllAccepted' /\ DropsFollow' /\ ArchivedFollow'
  <2>1. /\ Ingesting(p) /\ pc[p] \notin {"read", "apply"}
        /\ acked' = acked \union {current[p]}
        /\ current[p] \notin acked
        /\ UNCHANGED <<items, projected, actionRows, artifacts>>
    BY <1>1, <1>8 DEF LoadNoProjection, PushItem, Ingested, Ingesting, CallCurrent,
       database
  <2>2. \A j \in Items \ {current[p]} : View'[j] = View[j]
    <3>1. CASE LoadNoProjection(p)
      BY <3>1, ContextSame DEF LoadNoProjection, database
    <3>2. CASE PushItem(p)
      BY <1>1, <2>1, <3>2 DEF PushItem, CallCurrent, View, TypeOK
    <3>3. QED
      BY <1>8, <3>1, <3>2
  <2>3. AllAccepted'
    BY <1>2, <2>1 DEF AllAccepted
  <2>4. \A j \in Items : <<j, "Drop">> \in actionRows => j \in acked /\ ~IsActive(View[j])
    BY <1>2, <2>1 DEF DropsFollow
  <2>5. \A j \in Items : j \in Archived => j \in acked /\ View[j].level \in {L4, L5}
    BY <1>2, <2>1 DEF ArchivedFollow
  <2>6. Archived' = Archived
    BY <2>1 DEF Archived
  <2>7. DropsFollow'
    BY <2>1, <2>2, <2>4 DEF DropsFollow
  <2>8. ArchivedFollow'
    BY <2>1, <2>2, <2>5, <2>6 DEF ArchivedFollow
  <2>9. QED
    BY <2>3, <2>7, <2>8
<1>9. ASSUME NEW p \in Procs, RecordCompaction(p)
      PROVE  AllAccepted' /\ DropsFollow' /\ ArchivedFollow'
  <2>1. /\ pc[p] = "record" /\ pc'[p] = "read" /\ lastPlan' = lastPlan
        /\ UNCHANGED <<items, projected, workingSet, acked, artifacts>>
        /\ actionRows' = actionRows \union {row \in Rows : lastPlan[p][row[1]] = row[2]}
    BY <1>1, <1>9 DEF TypeOK, RecordCompaction, Goto, environment
  <2>2. items \subseteq acked
    BY <1>2, <2>1, AcceptedUnless DEF Ingesting
  <2>3. AllAccepted'
    BY <2>1, <2>2 DEF AllAccepted
  <2>4. View' = View /\ Archived' = Archived
    BY <2>1, ContextSame DEF Archived
  <2>5. \A i \in Items : i \in Archived => i \in acked /\ View[i].level \in {L4, L5}
    BY <1>2, <2>1 DEF ArchivedFollow
  <2>6. ASSUME NEW i \in Items, <<i, "Drop">> \in actionRows'
        PROVE  i \in acked /\ (~IsActive(View[i]) \/ lastPlan[p][i] = "Drop")
    <3>1. CASE <<i, "Drop">> \in actionRows
      BY <1>2, <2>1, <3>1 DEF DropsFollow
    <3>2. CASE lastPlan[p][i] = "Drop"
      <4>1. lastPlan[p][i] \in Options(i, View[i])
        BY <1>1, <2>1 DEF CallCurrent, Applying, Plans
      <4>2. IsActive(View[i])
        BY <3>2, <4>1 DEF Options
      <4>3. i \in items
        BY <1>1, <4>2, ViewSound DEF SoundnessInv, SoundRows
      <4>4. QED
        BY <2>2, <3>2, <4>3
    <3>3. QED
      BY <2>1, <2>6, <3>1, <3>2
  <2>7. DropsFollow'
    BY <2>1, <2>4, <2>6 DEF DropsFollow
  <2>8. ArchivedFollow'
    BY <2>1, <2>4, <2>5 DEF ArchivedFollow
  <2>9. QED
    BY <2>3, <2>7, <2>8
<1>10. ASSUME NEW p \in Procs, ReadActive(p)
       PROVE  AllAccepted' /\ DropsFollow' /\ ArchivedFollow'
  <2>1. /\ pc[p] = "read" /\ pc'[p] = "apply" /\ lastPlan' = lastPlan
        /\ UNCHANGED <<items, projected, workingSet, acked, artifacts, actionRows>>
    BY <1>1, <1>10 DEF TypeOK, ReadActive, Goto, environment, database
  <2>2. items \subseteq acked
    BY <1>2, <2>1, AcceptedUnless DEF Ingesting
  <2>3. AllAccepted'
    BY <2>1, <2>2 DEF AllAccepted
  <2>4. View' = View /\ Archived' = Archived
    BY <2>1, ContextSame DEF Archived
  <2>5. \A i \in Items : i \in Archived => i \in acked /\ View[i].level \in {L4, L5}
    BY <1>2, <2>1 DEF ArchivedFollow
  <2>6. \A i \in Items : <<i, "Drop">> \in actionRows =>
           i \in acked /\ (~IsActive(View[i]) \/ lastPlan[p][i] = "Drop")
    BY <1>2, <2>1 DEF DropsFollow
  <2>7. DropsFollow'
    BY <2>1, <2>4, <2>6 DEF DropsFollow
  <2>8. ArchivedFollow'
    BY <2>1, <2>4, <2>5 DEF ArchivedFollow
  <2>9. QED
    BY <2>3, <2>7, <2>8
<1>11. ASSUME NEW p \in Procs, NEW i \in Items, Externalize(p, i)
       PROVE  AllAccepted' /\ DropsFollow' /\ ArchivedFollow'
  <2>1. /\ pc[p] = "apply" /\ pc' = pc /\ lastPlan' = lastPlan
        /\ i \in todo[p] /\ todo'[p] = todo[p] \ {i} /\ i \notin Missing(p)
        /\ artifacts' = artifacts \union {[item |-> i, text |-> snapshot[p][i].text]}
        /\ UNCHANGED <<items, projected, workingSet, acked, actionRows>>
    BY <1>1, <1>11 DEF TypeOK, Externalize, environment
  <2>2. items \subseteq acked
    BY <1>2, <2>1, AcceptedUnless DEF Ingesting
  <2>3. AllAccepted'
    BY <2>1, <2>2 DEF AllAccepted
  <2>4. View' = View
    BY <2>1, ContextSame
  <2>5. lastPlan[p][i] = "Externalize" /\ IsActive(View[i])
    BY <1>1, <2>1 DEF CallCurrent, Missing
  <2>6. i \in acked
    BY <1>1, <2>2, <2>5, ViewSound DEF SoundnessInv, SoundRows
  <2>7. \A j \in Items : j \in Archived' => j = i \/ j \in Archived
    BY <2>1 DEF Archived
  <2>8. \A j \in Items : j \in Archived =>
          /\ j \in acked
          /\ View[j].level \in {L4, L5} \/ (lastPlan[p][j] = "Externalize" /\ j \notin todo[p])
    BY <1>2, <2>1 DEF ArchivedFollow
  <2>9. ArchivedFollow'
    BY <2>1, <2>4, <2>5, <2>6, <2>7, <2>8 DEF ArchivedFollow
  <2>10. DropsFollow'
    BY <1>2, <2>1, <2>4 DEF DropsFollow
  <2>11. QED
    BY <2>3, <2>9, <2>10
<1>12. ASSUME NEW p \in Procs, ReplaceProjection(p)
       PROVE  AllAccepted' /\ DropsFollow' /\ ArchivedFollow'
  <2>1. /\ pc[p] = "apply" /\ todo[p] = {} /\ projected' /\ pc'[p] = "idle"
        /\ workingSet' = [i \in Items |-> Applied(lastPlan[p][i], View[i])]
        /\ UNCHANGED <<items, acked, actionRows, artifacts>>
        /\ lastPlan[p] \in Plans
    BY <1>1, <1>12 DEF TypeOK, ReplaceProjection, Return, CallCurrent, Applying,
       environment
  <2>2. items \subseteq acked
    BY <1>2, <2>1, AcceptedUnless DEF Ingesting
  <2>3. AllAccepted'
    BY <2>1, <2>2 DEF AllAccepted
  <2>4. ASSUME NEW i \in Items
        PROVE  /\ View'[i] = Applied(lastPlan[p][i], View[i])
               /\ View[i] \in Entries /\ Named(View[i])
               /\ View'[i].level \in Levels
               /\ View'[i].level >= View[i].level
    <3>1. View'[i] = Applied(lastPlan[p][i], View[i])
      BY <2>1 DEF View
    <3>2. /\ View[i] \in Entries /\ Named(View[i])
          /\ lastPlan[p][i] \in Options(i, View[i])
      BY <1>1, <2>1, ViewType DEF CurrentInv, LevelNamesText, Plans
    <3>3. View'[i] \in Entries
      BY <3>1, <3>2, AppliedType
    <3>4. View'[i].level >= View[i].level
      BY <3>1, <3>2, AppliedForward
    <3>5. QED
      BY <3>1, <3>2, <3>3, <3>4 DEF Entries
  <2>5. ASSUME NEW i \in Items, <<i, "Drop">> \in actionRows
        PROVE  i \in acked /\ ~IsActive(View'[i])
    <3>1. i \in acked /\ (~IsActive(View[i]) \/ lastPlan[p][i] = "Drop")
      BY <1>2, <2>1, <2>5 DEF DropsFollow
    <3>2. CASE lastPlan[p][i] = "Drop"
      <4>1. Applied(lastPlan[p][i], View[i]) = Absent
        BY <3>2 DEF Applied
      <4>2. View'[i] = Absent
        BY <2>4, <4>1
      <4>3. QED
        BY <3>1, <4>2 DEF Absent, IsActive
    <3>3. CASE ~IsActive(View[i])
      BY <2>4, <3>1, <3>3 DEF IsActive, Levels
    <3>4. QED
      BY <3>1, <3>2, <3>3
  <2>6. ASSUME NEW i \in Items, i \in Archived
        PROVE  i \in acked /\ View'[i].level \in {L4, L5}
    <3>1. /\ i \in acked
          /\ View[i].level \in {L4, L5} \/ lastPlan[p][i] = "Externalize"
      BY <1>2, <2>1, <2>6 DEF ArchivedFollow
    <3>2. CASE lastPlan[p][i] = "Externalize"
      <4>1. Applied(lastPlan[p][i], View[i]) = [level |-> L4, text |-> {"reference"}]
        BY <3>2 DEF Applied
      <4>2. View'[i].level = L4
        BY <2>4, <4>1
      <4>3. QED
        BY <3>1, <4>2
    <3>3. CASE View[i].level \in {L4, L5}
      BY <2>4, <3>1, <3>3 DEF Levels
    <3>4. QED
      BY <3>1, <3>2, <3>3
  <2>7. Archived' = Archived
    BY <2>1 DEF Archived
  <2>8. DropsFollow'
    BY <2>1, <2>5 DEF DropsFollow
  <2>9. ArchivedFollow'
    BY <2>1, <2>6, <2>7 DEF ArchivedFollow
  <2>10. QED
    BY <2>3, <2>8, <2>9
<1>13. ASSUME NEW p \in Procs, PushConflict(p)
       PROVE  FALSE
  BY <1>1, <1>13 DEF PushConflict, CallCurrent, Ingesting
<1>14. ASSUME NEW p \in Procs, MissingItem(p)
       PROVE  FALSE
  <2>1. pc[p] = "apply" /\ lastPlan[p] \in Plans /\ snapshot[p] = View
    BY <1>1, <1>14 DEF MissingItem, CallCurrent, Applying
  <2>2. PICK i \in Items : lastPlan[p][i] \notin {"none", "Drop"} /\ ~IsActive(View[i])
    BY <1>14, <2>1 DEF MissingItem, Missing
  <2>3. lastPlan[p][i] \in Options(i, View[i])
    BY <2>1 DEF Plans
  <2>4. QED
    BY <2>2, <2>3 DEF Options
<1>15. ASSUME NEW p \in Procs, NEW i \in Items, ExternalizeConflict(p, i)
       PROVE  FALSE
  <2>1. /\ pc[p] = "apply" /\ i \in todo[p] /\ i \in Archived
        /\ lastPlan[p] \in Plans /\ lastPlan[p][i] = "Externalize"
    BY <1>1, <1>15 DEF ExternalizeConflict, CallCurrent, Applying
  <2>2. View[i].level \in {L4, L5}
    BY <1>2, <2>1 DEF ArchivedFollow
  <2>3. lastPlan[p][i] \in Options(i, View[i]) /\ View[i] \in Entries
    BY <1>1, <2>1, ViewType DEF Plans
  <2>4. QED
    BY <2>1, <2>2, <2>3, OptionsMean
<1>16. QED
  BY <1>2, <1>3, <1>5, <1>6, <1>7, <1>8, <1>9, <1>10, <1>11, <1>12, <1>13,
     <1>14, <1>15 DEF Next, Begin, Work

LEMMA TidyInit == Init => TidyInv
BY DEF Init, TidyInv, AllAccepted, DropsFollow, ArchivedFollow, Archived

(* While no call was cut short, what the history says was removed is out   *)
(* of the context.                                                         *)
THEOREM RecordedDropsAlwaysApplied ==
  ASSUME \A p, q \in Procs : p = q
  PROVE  Spec => []RecordedDropsApplied
<1>1. CurrentInv /\ [Next]_vars => CurrentInv'
  BY CurrentStep
<1>2. CurrentInv /\ TidyInv /\ [Next]_vars => TidyInv'
  BY TidyStep
<1>3. TidyInv => RecordedDropsApplied
  <2> SUFFICES ASSUME TidyInv, Undisturbed, NEW i \in Items,
                      <<i, "Drop">> \in actionRows
               PROVE  ~IsActive(View[i])
    BY DEF RecordedDropsApplied
  <2>1. DropsFollow /\ \A p \in Procs : pc[p] \in {"down", "idle"}
    BY DEF TidyInv, Calm, Undisturbed, Quiet
  <2>2. QED
    BY <2>1 DEF DropsFollow
<1>4. QED
  BY <1>1, <1>2, <1>3, CurrentInit, TidyInit, PTL DEF Spec

(* While no call was cut short, an artifact belongs to an item that was    *)
(* externalized, so that its primary key never refuses another.            *)
THEOREM NoArtifactOrphaned ==
  ASSUME \A p, q \in Procs : p = q
  PROVE  Spec => []NoOrphanArtifact
<1>1. CurrentInv /\ [Next]_vars => CurrentInv'
  BY CurrentStep
<1>2. CurrentInv /\ TidyInv /\ [Next]_vars => TidyInv'
  BY TidyStep
<1>3. CurrentInv /\ TidyInv => NoOrphanArtifact
  <2> SUFFICES ASSUME CurrentInv, TidyInv, Undisturbed, NEW i \in Archived
               PROVE  View[i].level \in {L4, L5}
    BY DEF NoOrphanArtifact
  <2>1. i \in Items
    BY DEF CurrentInv, SoundnessInv, TypeOK, Archived
  <2>2. ArchivedFollow /\ \A p \in Procs : pc[p] \in {"down", "idle"}
    BY DEF TidyInv, Calm, Undisturbed, Quiet
  <2>3. QED
    BY <2>1, <2>2 DEF ArchivedFollow
<1>4. QED
  BY <1>1, <1>2, <1>3, CurrentInit, TidyInit, PTL DEF Spec

-----------------------------------------------------------------------------
(* The statistic.                                                          *)

(* The events that the stored statistic misses are those of updates that   *)
(* were cut short, and the one whose update is due.                        *)
Due == IF \E p \in Procs : pc[p] = "stat" THEN 1 ELSE 0

StatInv ==
  PredictionEnabled /\ errors = 0 =>
    /\ IsFiniteSet(events)
    /\ tokenStat + Due <= Cardinality(events)
    /\ Cardinality(events) <= tokenStat + Due + crashes
    /\ \A p \in Procs :
         /\ pc[p] # "down" => stats[p] = tokenStat
         /\ pc[p] = "event" => current[p] \notin events

LEMMA StatInit == Init => StatInv
<1> SUFFICES ASSUME Init
             PROVE  StatInv
  OBVIOUS
<1>1. events = {} /\ tokenStat = 0 /\ crashes = 0 /\ \A p \in Procs : pc[p] = "down"
  BY DEF Init
<1>2. IsFiniteSet(events) /\ Cardinality(events) = 0
  BY <1>1, FS_EmptySet
<1>3. Due = 0
  BY <1>1 DEF Due
<1>4. QED
  BY <1>1, <1>2, <1>3 DEF StatInv

LEMMA StatStep ==
  ASSUME \A p, q \in Procs : p = q, TypeOK, StatInv, [Next]_vars
  PROVE  StatInv'
<1> SUFFICES ASSUME PredictionEnabled, errors' = 0
             PROVE  /\ IsFiniteSet(events')
                    /\ tokenStat' + Due' <= Cardinality(events')
                    /\ Cardinality(events') <= tokenStat' + Due' + crashes'
                    /\ \A p \in Procs :
                         /\ pc'[p] # "down" => stats'[p] = tokenStat'
                         /\ pc'[p] = "event" => current'[p] \notin events'
  BY DEF StatInv
<1> DEFINE Goal == /\ IsFiniteSet(events')
                   /\ tokenStat' + Due' <= Cardinality(events')
                   /\ Cardinality(events') <= tokenStat' + Due' + crashes'
                   /\ \A p \in Procs :
                        /\ pc'[p] # "down" => stats'[p] = tokenStat'
                        /\ pc'[p] = "event" => current'[p] \notin events'
<1>1. TypeOK'
  BY TypeStep
<1>2. /\ tokenStat \in Nat /\ crashes \in Nat /\ errors \in Nat /\ Due \in {0, 1}
      /\ events \subseteq items
  BY SessionAssumption DEF TypeOK, Due
<1>3. CASE UNCHANGED vars
  <2>1. UNCHANGED <<events, tokenStat, errors, crashes, pc, stats, current>>
    BY <1>3 DEF vars, database, process, environment
  <2>2. Due' = Due
    BY <2>1 DEF Due
  <2>3. QED
    BY <2>1, <2>2 DEF StatInv
<1>4. ASSUME NEW p \in Procs
      PROVE  /\ Due = IF pc[p] = "stat" THEN 1 ELSE 0
             /\ Due' = IF pc'[p] = "stat" THEN 1 ELSE 0
             /\ \A q \in Procs : q = p
  BY DEF Due
(* A step that leaves the events and the statistic alone.                  *)
<1>5. ASSUME NEW p \in Procs, UNCHANGED <<events, tokenStat, errors, crashes>>,
             pc[p] # "stat", pc'[p] # "stat",
             pc'[p] # "down" => stats'[p] = tokenStat,
             pc'[p] = "event" => current'[p] \notin events
      PROVE  Goal
  BY <1>2, <1>4, <1>5 DEF StatInv
<1>6. ASSUME NEW p \in Procs, Open(p)
      PROVE  Goal
  <2>1. /\ UNCHANGED <<events, tokenStat, errors, crashes>>
        /\ pc[p] = "down" /\ pc'[p] = "idle" /\ stats'[p] = tokenStat
    BY <1>6 DEF Open, TypeOK, Goto, database, environment
  <2>2. QED
    BY <1>5, <2>1
<1>7. ASSUME NEW p \in Procs, Exit(p)
      PROVE  Goal
  <2>1. /\ UNCHANGED <<events, tokenStat, errors, crashes>>
        /\ pc[p] = "idle" /\ pc'[p] = "down"
    BY <1>7 DEF Exit, Stop, TypeOK, database, environment
  <2>2. QED
    BY <1>5, <2>1
<1>8. ASSUME NEW p \in Procs, Crash(p)
      PROVE  Goal
  <2>1. /\ UNCHANGED <<events, tokenStat, errors>> /\ crashes' = crashes + 1
        /\ pc'[p] = "down"
    BY <1>8 DEF Crash, Stop, TypeOK, database, environment
  <2>2. IsFiniteSet(events) /\ Cardinality(events) \in Nat
    BY <2>1, FS_CardinalityType DEF StatInv
  <2>3. QED
    BY <1>2, <1>4, <2>1, <2>2 DEF StatInv
<1>9. ASSUME NEW p \in Procs, Fail(p)
      PROVE  FALSE
  BY <1>2, <1>9 DEF Fail
<1>10. ASSUME NEW p \in Procs, NEW i \in Items, InsertItem(p, i)
       PROVE  Goal
  <2>1. /\ UNCHANGED <<events, tokenStat, errors, crashes, stats>>
        /\ pc[p] = "idle" /\ pc'[p] = "event" /\ current'[p] = i /\ i \notin items
    BY <1>10 DEF InsertItem, TypeOK, Goto, environment
  <2>2. stats'[p] = tokenStat
    BY <2>1 DEF StatInv
  <2>3. QED
    BY <1>2, <1>5, <2>1, <2>2
<1>11. ASSUME NEW p \in Procs, AppendEvent(p)
       PROVE  Goal
  <2>1. /\ UNCHANGED <<tokenStat, errors, crashes, stats>>
        /\ pc[p] = "event" /\ pc'[p] = "stat"
        /\ events' = events \union {current[p]}
    BY <1>11 DEF AppendEvent, TypeOK, Goto, environment
  <2>2. IsFiniteSet(events) /\ current[p] \notin events /\ stats[p] = tokenStat
    BY <2>1 DEF StatInv
  <2>3. /\ IsFiniteSet(events') /\ Cardinality(events) \in Nat
        /\ Cardinality(events') = Cardinality(events) + 1
    BY <2>1, <2>2, FS_AddElement, FS_CardinalityType
  <2>4. Due = 0 /\ Due' = 1
    BY <1>4, <2>1
  <2>5. /\ tokenStat <= Cardinality(events)
        /\ Cardinality(events) <= tokenStat + crashes
    BY <1>2, <2>1, <2>4 DEF StatInv
  <2>6. QED
    BY <1>2, <1>4, <2>1, <2>2, <2>3, <2>4, <2>5
<1>12. ASSUME NEW p \in Procs, UpdateStat(p)
       PROVE  Goal
  <2>1. /\ UNCHANGED <<events, errors, crashes>>
        /\ pc[p] = "stat" /\ pc'[p] = "load"
        /\ tokenStat' = stats[p] + 1 /\ stats'[p] = stats[p] + 1
    BY <1>12 DEF UpdateStat, TypeOK, Goto, environment
  <2>2. stats[p] = tokenStat
    BY <2>1 DEF StatInv
  <2>3. IsFiniteSet(events) /\ Cardinality(events) \in Nat
    BY <2>1, FS_CardinalityType DEF StatInv
  <2>4. Due = 1 /\ Due' = 0
    BY <1>4, <2>1
  <2>5. /\ tokenStat + 1 <= Cardinality(events)
        /\ Cardinality(events) <= tokenStat + 1 + crashes
    BY <1>2, <2>1, <2>4 DEF StatInv
  <2>6. QED
    BY <1>2, <1>4, <2>1, <2>2, <2>3, <2>4, <2>5
<1>13. ASSUME NEW p \in Procs,
              \/ Plan(p) \/ Status(p) \/ StartCompact(p) \/ StartMaterialize(p)
              \/ LoadNoProjection(p) \/ LoadProjection(p) \/ PushItem(p)
              \/ PushConflict(p) \/ RecordCompaction(p) \/ ReadActive(p)
              \/ MissingItem(p) \/ ReplaceProjection(p)
              \/ \E i \in Items : Externalize(p, i) \/ ExternalizeConflict(p, i)
       PROVE  Goal
  <2>1. UNCHANGED <<events, tokenStat, errors, crashes, stats>>
    BY <1>13 DEF Plan, Status, StartCompact, StartMaterialize, LoadNoProjection,
       LoadProjection, PushItem, Ingested, PushConflict, RecordCompaction,
       ReadActive, MissingItem, ReplaceProjection, Externalize,
       ExternalizeConflict, database, environment
  <2>2. /\ pc[p] \notin {"stat", "down"}
        /\ pc'[p] \notin {"stat", "event", "down"}
    BY <1>13 DEF TypeOK, Plan, Status, StartCompact, StartMaterialize,
       LoadNoProjection, LoadProjection, PushItem, Ingested, PushConflict,
       RecordCompaction, ReadActive, MissingItem, ReplaceProjection,
       Externalize, ExternalizeConflict, Goto, Return
  <2>3. stats[p] = tokenStat
    BY <2>1, <2>2 DEF StatInv
  <2>4. QED
    BY <1>5, <2>1, <2>2, <2>3
<1>14. QED
  BY <1>3, <1>6, <1>7, <1>8, <1>9, <1>10, <1>11, <1>12, <1>13 DEF Next, Begin, Work

(* The average behind the forecast misses no event but those whose own     *)
(* update a crash cut off, as long as no statement fails.                  *)
THEOREM StatAlwaysCounts ==
  ASSUME \A p, q \in Procs : p = q
  PROVE  Spec => []StatCountsEvents
<1>1. TypeOK /\ StatInv /\ [Next]_vars => StatInv'
  BY StatStep
<1>2. TypeOK /\ StatInv => StatCountsEvents
  <2> SUFFICES ASSUME TypeOK, StatInv, PredictionEnabled, Quiet, errors = 0
               PROVE  /\ tokenStat <= Cardinality(events)
                      /\ Cardinality(events) <= tokenStat + crashes
    BY DEF StatCountsEvents
  <2>1. Due = 0 /\ tokenStat \in Nat
    BY DEF Due, Quiet, TypeOK
  <2>2. QED
    BY <2>1 DEF StatInv
<1>3. QED
  BY <1>1, <1>2, TypeInit, TypeStep, StatInit, PTL DEF Spec

=============================================================================
