-------------------------- MODULE IngestionProofs --------------------------
(* Theorems about module Ingestion, for any processes, sessions and files. *)
EXTENDS Ingestion, SumTheorems

-----------------------------------------------------------------------------
(* Types.                                                                  *)

LEMMA NatDivision ==
  ASSUME NEW x \in Nat, NEW w \in Nat \ {0}
  PROVE  x \div w \in Nat
  OBVIOUS

LEMMA AverageType ==
  ASSUME NEW old \in Nat, NEW tokens \in Nat
  PROVE  UpdateEma(old, tokens) \in Nat
<1>1. AlphaParts \in Nat /\ AlphaWhole - AlphaParts \in Nat /\ AlphaWhole \in Nat \ {0} /\ Scale \in Nat
  BY IngestionAssumption
<1>2. \A x, y \in Nat : x * y \in Nat
  OBVIOUS
<1>3. AlphaParts * tokens * Scale + (AlphaWhole - AlphaParts) * old \in Nat
  BY <1>1, <1>2
<1>4. QED
  BY <1>1, <1>3, NatDivision DEF UpdateEma

LEMMA StatType ==
  ASSUME NEW stat \in Stat, NEW tokens \in Nat
  PROVE  Updated(stat, tokens) \in Stat
<1>. DEFINE old == IF stat.count = 0 THEN tokens * Scale ELSE stat.ema
<1>1. tokens * Scale \in Nat
  BY IngestionAssumption
<1>2. old \in Nat
  BY <1>1 DEF Stat
<1>3. Updated(stat, tokens) = [ema |-> UpdateEma(old, tokens), count |-> stat.count + 1]
  BY DEF Updated
<1>. HIDE DEF old
<1>4. UpdateEma(old, tokens) \in Nat
  BY <1>2, AverageType
<1>5. stat.count + 1 \in Nat
  BY DEF Stat
<1>6. QED
  BY <1>3, <1>4, <1>5 DEF Stat

(* Lines of files.                                                         *)
LEMMA LineTypes ==
  ASSUME NEW f \in Files, NEW n \in DOMAIN f
  PROVE  /\ f \in Seq(Line) /\ f[n] \in Line /\ n \in 1..Len(f) /\ DOMAIN f = 1..Len(f)
         /\ f[n].what = "item" =>
              f[n].id \in Ids \union {None} /\ f[n].type \in EventTypes /\ f[n].tokens \in Nat
  BY IngestionAssumption DEF Line, Items

(* A command between the statements of an item is at that item, whose row  *)
(* is in its session.                                                      *)
AtItsItem ==
  \A p \in Procs : Running(p) /\ command[p].step # "line" =>
    /\ command[p].next <= Len(command[p].file) /\ LineOf(p).what = "item"
    /\ command[p].id \in AllIds /\ Owned(command[p].session, command[p].id)
    /\ LineOf(p).id # None => command[p].id = LineOf(p).id

TypeInv == TypeOK /\ AtItsItem

LEMMA InitType == Init => TypeInv
  BY IngestionAssumption DEF Init, TypeInv, TypeOK, AtItsItem, Running, Stat, NoStat

LEMMA CommandTypes ==
  ASSUME TypeOK, NEW p \in Procs, Running(p)
  PROVE  /\ command[p] \in Command /\ command[p] # None
         /\ command[p].session \in Sessions /\ command[p].file \in Files
         /\ command[p].next \in Nat \ {0}
         /\ command[p].next <= Len(command[p].file) =>
              command[p].next \in DOMAIN command[p].file
<1>1. command[p] \in Command /\ command[p] # None
  BY DEF TypeOK, Running
<1>2. command[p].file \in Seq(Line)
  BY <1>1, IngestionAssumption DEF Command
<1>3. QED
  BY <1>1, <1>2 DEF Command

(* A command that ends.                                                    *)
LEMMA EndType ==
  ASSUME TypeInv, NEW p \in Procs, command' = [command EXCEPT ![p] = None],
         UNCHANGED rows
  PROVE  command' \in [Procs -> Command \union {None}] /\ AtItsItem'
<1>1. command' \in [Procs -> Command \union {None}]
  BY DEF TypeInv, TypeOK
<1>2. \A q \in Procs : Running(q)' => q # p /\ Running(q) /\ command'[q] = command[q]
  BY DEF TypeInv, TypeOK, Running
<1>3. QED
  BY <1>1, <1>2 DEF TypeInv, AtItsItem, LineOf, Owned

LEMMA OpenType ==
  ASSUME TypeInv, NEW p \in Procs, NEW s \in Sessions, NEW f \in Files, Open(p, s, f)
  PROVE  TypeInv'
<1>. DEFINE new == [session |-> s, file |-> f, next |-> 1, count |-> 0, step |-> "line",
                    id |-> None, stats |-> tokenStats[s]]
<1>1. new \in Command
  BY DEF TypeInv, TypeOK, Command
<1>2. command' = [command EXCEPT ![p] = new] /\ UNCHANGED <<rows, added, tokenStats, reported, stops>>
  BY DEF Open, database
<1>3. new.step = "line"
  OBVIOUS
<1>. HIDE DEF new
<1>4. /\ command' \in [Procs -> Command \union {None}] /\ command'[p] = new
      /\ \A q \in Procs : q # p => command'[q] = command[q]
  BY <1>1, <1>2 DEF TypeInv, TypeOK
<1>5. AtItsItem'
  BY <1>2, <1>3, <1>4 DEF TypeInv, AtItsItem, LineOf, Owned, Running
<1>6. runs' \in 0..MaxRuns
  BY IngestionAssumption DEF Open, TypeInv, TypeOK
<1>7. QED
  BY <1>2, <1>4, <1>5, <1>6 DEF TypeInv, TypeOK

LEMMA InsertType ==
  ASSUME TypeInv, NEW p \in Procs, NEW id \in AllIds, Insert(p, id)
  PROVE  /\ TypeInv'
         /\ \A i \in AllIds : rows[i] # None => rows'[i] = rows[i]
<1>. DEFINE row == [session |-> command[p].session, type |-> LineOf(p).type,
                    tokens |-> LineOf(p).tokens]
<1>1. Running(p) /\ LineOf(p).what = "item" /\ command[p].next <= Len(command[p].file)
      /\ (LineOf(p).id # None => id = LineOf(p).id)
  BY DEF Insert, AtItem, AtLine, IdsFor
<1>2. row \in Row /\ row.session = command[p].session /\ row # None
  BY <1>1, CommandTypes, LineTypes, IngestionAssumption DEF TypeInv, LineOf, Row
<1>3. UNCHANGED <<added, tokenStats, reported, runs, stops>>
  BY DEF Insert
<1>4. CASE rows[id] # None
  <2>1. rows' = rows /\ command' = [command EXCEPT ![p] = None]
    BY <1>4 DEF Insert, Stored
  <2>2. QED
    BY <1>3, <2>1, EndType DEF TypeInv, TypeOK
<1>5. CASE rows[id] = None
  <2>1. rows' = [rows EXCEPT ![id] = row]
    BY <1>5 DEF Insert, Stored
  <2>2. command' = [command EXCEPT ![p] = [@ EXCEPT !.step = "event", !.id = id]]
    BY <1>5 DEF Insert, Stored
  <2>. HIDE DEF row
  <2>3. rows' \in [AllIds -> Row \union {None}] /\ \A i \in AllIds : rows[i] # None => rows'[i] = rows[i]
    BY <1>2, <1>5, <2>1 DEF TypeInv, TypeOK
  <2>4. /\ command'[p] \in Command /\ command'[p].id = id
        /\ command'[p].session = command[p].session /\ command'[p].file = command[p].file
        /\ command'[p].next = command[p].next
        /\ \A q \in Procs : q # p => command'[q] = command[q]
    BY <1>1, <2>2, CommandTypes DEF TypeInv, TypeOK, Command
  <2>5. command' \in [Procs -> Command \union {None}]
    BY <2>2, <2>4 DEF TypeInv, TypeOK
  <2>6. Owned(command[p].session, id)'
    BY <1>2, <2>1, <2>4 DEF TypeInv, TypeOK, Owned
  <2>7. AtItsItem'
    <3>1. ASSUME NEW q \in Procs, q # p, Running(q)', command'[q].step # "line"
          PROVE  /\ command'[q].next <= Len(command'[q].file) /\ LineOf(q)'.what = "item"
                 /\ command'[q].id \in AllIds /\ Owned(command[q].session, command[q].id)'
                 /\ LineOf(q)'.id # None => command'[q].id = LineOf(q)'.id
      <4>1. command'[q] = command[q] /\ Running(q)
        BY <2>4, <3>1 DEF Running
      <4>2. QED
        BY <2>3, <3>1, <4>1 DEF TypeInv, AtItsItem, LineOf, Owned
    <3>2. /\ command'[p].next <= Len(command'[p].file) /\ LineOf(p)'.what = "item"
          /\ command'[p].id \in AllIds /\ Owned(command[p].session, command[p].id)'
          /\ LineOf(p)'.id # None => command'[p].id = LineOf(p)'.id
      BY <1>1, <2>4, <2>6 DEF LineOf, Owned
    <3>3. QED
      BY <3>1, <3>2 DEF AtItsItem
  <2>8. QED
    BY <1>3, <2>3, <2>5, <2>7 DEF TypeInv, TypeOK
<1>6. QED
  BY <1>4, <1>5

(* A command that writes its statistic or goes on to another line.         *)
LEMMA CountType ==
  ASSUME TypeInv, NEW p \in Procs, Count(p)
  PROVE  TypeInv'
<1>. DEFINE c == command[p]
            stat == Updated(c.stats[LineOf(p).type], LineOf(p).tokens)
            table == [c.stats EXCEPT ![LineOf(p).type] = stat]
            new == [session |-> c.session, file |-> c.file, next |-> c.next + 1,
                    count |-> c.count + 1, step |-> "line", id |-> None, stats |-> table]
<1>1. /\ Running(p) /\ c.step = "stat" /\ UNCHANGED <<rows, added, reported, runs, stops>>
      /\ tokenStats' = [tokenStats EXCEPT ![c.session][LineOf(p).type] = stat]
      /\ command' = [command EXCEPT ![p] = new]
  BY DEF Count
<1>2. LineOf(p).type \in EventTypes /\ LineOf(p).tokens \in Nat
  BY <1>1, CommandTypes, LineTypes DEF TypeInv, AtItsItem, LineOf
<1>3. c \in Command
  BY <1>1, CommandTypes DEF TypeInv
<1>4. stat \in Stat
  BY <1>2, <1>3, StatType DEF Command
<1>. HIDE DEF stat
<1>5. tokenStats' \in [Sessions -> [EventTypes -> Stat]]
  BY <1>1, <1>2, <1>3, <1>4 DEF TypeInv, TypeOK, Command
<1>6. new \in Command /\ new.step = "line"
  <2>1. table \in [EventTypes -> Stat]
    BY <1>2, <1>3, <1>4 DEF Command
  <2>. HIDE DEF table
  <2>2. QED
    BY <1>3, <2>1 DEF Command
<1>. HIDE DEF new
<1>7. /\ command' \in [Procs -> Command \union {None}]
      /\ command'[p] = new /\ \A q \in Procs : q # p => command'[q] = command[q]
  BY <1>1, <1>6 DEF TypeInv, TypeOK
<1>8. AtItsItem'
  BY <1>1, <1>6, <1>7 DEF TypeInv, AtItsItem, LineOf, Owned, Running
<1>9. QED
  BY <1>1, <1>5, <1>7, <1>8 DEF TypeInv, TypeOK

LEMMA NextType ==
  ASSUME TypeInv, [Next]_vars
  PROVE  /\ TypeInv'
         /\ \A i \in AllIds : rows[i] # None => rows'[i] = rows[i]
<1>1. CASE UNCHANGED vars
  BY <1>1 DEF vars, database, TypeInv, TypeOK, AtItsItem, LineOf, Owned, Running
<1>2. ASSUME NEW p \in Procs, NEW s \in Sessions, NEW f \in Files, Open(p, s, f)
      PROVE  TypeInv' /\ rows' = rows
  BY <1>2, OpenType DEF Open, database
<1>3. ASSUME NEW p \in Procs, Skip(p) PROVE TypeInv' /\ rows' = rows
  <2>1. /\ command[p] \in Command /\ command[p].step = "line"
        /\ command' = [command EXCEPT ![p].next = @ + 1]
        /\ UNCHANGED <<rows, added, tokenStats, reported, runs, stops>>
    BY <1>3, CommandTypes DEF Skip, AtLine, database, TypeInv
  <2>2. /\ command' \in [Procs -> Command \union {None}] /\ command'[p].step = "line"
        /\ \A q \in Procs : q # p => command'[q] = command[q]
    <3>1. [command[p] EXCEPT !.next = command[p].next + 1] \in Command
      BY <2>1 DEF Command
    <3>2. command' = [command EXCEPT ![p] = [command[p] EXCEPT !.next = command[p].next + 1]]
      BY <2>1 DEF TypeInv, TypeOK
    <3>3. QED
      BY <2>1, <3>1, <3>2 DEF TypeInv, TypeOK, Command
  <2>3. AtItsItem'
    BY <2>1, <2>2 DEF TypeInv, AtItsItem, LineOf, Owned, Running
  <2>4. QED
    BY <2>1, <2>2, <2>3 DEF TypeInv, TypeOK
<1>4. ASSUME NEW p \in Procs, Reject(p) \/ Stop(p) PROVE TypeInv' /\ rows' = rows
  <2>1. /\ command' = [command EXCEPT ![p] = None]
        /\ UNCHANGED <<rows, added, tokenStats, reported, runs>>
    BY <1>4 DEF Reject, Stop, database
  <2>2. stops' \in 0..MaxStops
    BY <1>4, IngestionAssumption DEF Reject, Stop, TypeInv, TypeOK
  <2>3. QED
    BY <2>1, <2>2, EndType DEF TypeInv, TypeOK
<1>5. ASSUME NEW p \in Procs, Report(p) PROVE TypeInv' /\ rows' = rows
  <2>1. /\ command' = [command EXCEPT ![p] = None]
        /\ UNCHANGED <<rows, added, tokenStats, runs, stops>>
    BY <1>5 DEF Report, database
  <2>2. command[p].session \in Sessions /\ command[p].file \in Files
    BY <1>5, CommandTypes DEF Report, AtLine, TypeInv
  <2>3. reported' \in [Sessions -> [Files -> Nat]]
    BY <1>5, <2>2 DEF Report, TypeInv, TypeOK
  <2>4. QED
    BY <2>1, <2>3, EndType DEF TypeInv, TypeOK
<1>6. ASSUME NEW p \in Procs, AppendEvent(p) PROVE TypeInv' /\ rows' = rows
  <2>1. /\ command[p] \in Command /\ Running(p) /\ command[p].step = "event"
        /\ command[p].session \in Sessions /\ command[p].id \in AllIds
        /\ command' = [command EXCEPT ![p].step = "stat"]
        /\ UNCHANGED <<rows, tokenStats, reported, runs, stops>>
    BY <1>6, CommandTypes DEF AppendEvent, TypeInv, AtItsItem
  <2>2. added' \in [Sessions -> [AllIds -> Nat]]
    BY <1>6, <2>1 DEF AppendEvent, TypeInv, TypeOK
  <2>3. /\ command' \in [Procs -> Command \union {None}]
        /\ command'[p] = [command[p] EXCEPT !.step = "stat"]
        /\ \A q \in Procs : q # p => command'[q] = command[q]
    BY <2>1 DEF TypeInv, TypeOK, Command
  <2>4. AtItsItem'
    BY <2>1, <2>3 DEF TypeInv, AtItsItem, LineOf, Owned, Running, Command
  <2>5. QED
    BY <2>1, <2>2, <2>3, <2>4 DEF TypeInv, TypeOK
<1>7. QED
  BY <1>1, <1>2, <1>3, <1>4, <1>5, <1>6, InsertType, CountType DEF Next, Count

(* Tables and commands stay well formed.                                   *)
THEOREM TypeCorrect == Spec => []TypeOK
<1>1. TypeInv /\ [Next]_vars => TypeInv'
  BY NextType
<1>2. QED
  BY <1>1, InitType, PTL DEF Spec, TypeInv

(* contextgc-store, insert_item: "The original row is never mutated."      *)
THEOREM RowsKeptHolds == Spec => RowsKept
<1>1. TypeInv /\ [Next]_vars => TypeInv'
  BY NextType
<1>2. TypeInv /\ [Next]_vars =>
        [\A i \in AllIds : rows[i] # None => rows'[i] = rows[i]]_vars
  BY NextType
<1>3. QED
  BY <1>1, <1>2, InitType, PTL DEF Spec, RowsKept

-----------------------------------------------------------------------------
(* The history and the lines a command has passed.                         *)

Passed(f, k) == {n \in ItemLines(f) : n < k}

LEMMA PassedNothing ==
  ASSUME NEW f \in Files
  PROVE  Passed(f, 1) = {} /\ Cardinality(Passed(f, 1)) = 0
<1>1. Passed(f, 1) = {}
  BY LineTypes DEF Passed, ItemLines
<1>2. QED
  BY <1>1, FS_EmptySet

LEMMA PassedLine ==
  ASSUME NEW f \in Files, NEW n \in DOMAIN f
  PROVE  /\ f[n].what # "item" => Passed(f, n + 1) = Passed(f, n)
         /\ f[n].what = "item" =>
              /\ Passed(f, n + 1) = Passed(f, n) \union {n}
              /\ Cardinality(Passed(f, n + 1)) = Cardinality(Passed(f, n)) + 1
<1>1. n \in 1..Len(f) /\ Len(f) \in Nat /\ DOMAIN f = 1..Len(f)
  BY LineTypes
<1>2. f[n].what # "item" => Passed(f, n + 1) = Passed(f, n)
  BY <1>1 DEF Passed, ItemLines
<1>3. ASSUME f[n].what = "item"
      PROVE  Passed(f, n + 1) = Passed(f, n) \union {n} /\ n \notin Passed(f, n)
  BY <1>1, <1>3 DEF Passed, ItemLines
<1>4. IsFiniteSet(Passed(f, n))
  <2>1. IsFiniteSet(1..Len(f))
    BY <1>1, FS_Interval
  <2>2. Passed(f, n) \subseteq 1..Len(f)
    BY <1>1 DEF Passed, ItemLines
  <2>3. QED
    BY <2>1, <2>2, FS_Subset
<1>5. QED
  BY <1>2, <1>3, <1>4, FS_AddElement

(* No event tells of a row whose command has its event still to write, and *)
(* a command that has written its event has written one.                   *)
EventsAwaited ==
  \A p \in Procs : Running(p) =>
    /\ command[p].step = "event" =>
         /\ \A s \in Sessions : added[s][command[p].id] = 0
         /\ \A q \in Procs : q # p /\ Running(q) /\ command[q].step = "event" =>
              command[q].id # command[p].id
    /\ command[p].step = "stat" => added[command[p].session][command[p].id] = 1

(* What PrefixStored says of one command.                                  *)
ItemsStored(p) ==
  /\ command[p].count = Cardinality(Passed(command[p].file, command[p].next))
  /\ \A n \in Passed(command[p].file, command[p].next) :
       command[p].file[n].id # None =>
         /\ Owned(command[p].session, command[p].file[n].id)
         /\ added[command[p].session][command[p].file[n].id] = 1

AllStored == \A p \in Procs : Running(p) => ItemsStored(p)

LEMMA StoredIsPrefix == PrefixStored <=> AllStored
  BY DEF PrefixStored, AllStored, ItemsStored, Passed

HistoryInv == TypeInv /\ EventsOwned /\ EventsAwaited /\ AllStored

LEMMA InitHistory == Init => HistoryInv
  BY InitType DEF Init, HistoryInv, EventsOwned, EventsAwaited, AllStored, Running

(* A command a step does not touch keeps what it has stored, when rows and *)
(* events that are there stay.                                             *)
LEMMA OthersKept ==
  ASSUME HistoryInv, NEW p \in Procs, Running(p), command'[p] = command[p],
         \A i \in AllIds : rows[i] # None => rows'[i] = rows[i],
         \A s \in Sessions, i \in AllIds : added[s][i] = 1 => added'[s][i] = 1
  PROVE  ItemsStored(p)'
<1>1. command[p].session \in Sessions /\ command[p].file \in Files
  BY CommandTypes DEF HistoryInv, TypeInv
<1>2. ASSUME NEW n \in Passed(command[p].file, command[p].next),
             command[p].file[n].id # None
      PROVE  /\ Owned(command[p].session, command[p].file[n].id)'
             /\ added'[command[p].session][command[p].file[n].id] = 1
  <2>1. command[p].file[n].id \in AllIds
    BY <1>1, <1>2, LineTypes DEF Passed, ItemLines, AllIds
  <2>2. /\ Owned(command[p].session, command[p].file[n].id)
        /\ added[command[p].session][command[p].file[n].id] = 1
    BY <1>2 DEF HistoryInv, AllStored, ItemsStored
  <2>3. QED
    BY <1>1, <2>1, <2>2 DEF Owned
<1>3. command[p].count = Cardinality(Passed(command[p].file, command[p].next))
  BY DEF HistoryInv, AllStored, ItemsStored
<1>4. QED
  BY <1>2, <1>3 DEF ItemsStored, Owned

(* A step that only moves commands: one that begins has passed nothing, and *)
(* one that goes on at a line has passed what it had, and its lines.       *)
LEMMA CommandsMove ==
  ASSUME HistoryInv, UNCHANGED <<rows, added>>, NEW p \in Procs,
         \A q \in Procs : q # p => command'[q] = command[q],
         Running(p)' => command'[p].step = "line" /\ ItemsStored(p)'
  PROVE  EventsOwned' /\ EventsAwaited' /\ AllStored'
<1>1. EventsOwned'
  BY DEF HistoryInv, EventsOwned, Owned
<1>2. \A q \in Procs : Running(q)' /\ command'[q].step # "line" =>
        q # p /\ Running(q) /\ command'[q] = command[q]
  BY DEF Running
<1>3. EventsAwaited'
  BY <1>2 DEF HistoryInv, EventsAwaited
<1>4. ASSUME NEW q \in Procs, q # p, Running(q)' PROVE ItemsStored(q)'
  BY <1>4, OthersKept DEF Running
<1>5. QED
  BY <1>1, <1>3, <1>4 DEF AllStored

LEMMA OpenHistory ==
  ASSUME HistoryInv, NEW p \in Procs, NEW s \in Sessions, NEW f \in Files, Open(p, s, f)
  PROVE  EventsOwned' /\ EventsAwaited' /\ AllStored'
<1>. DEFINE new == [session |-> s, file |-> f, next |-> 1, count |-> 0, step |-> "line",
                    id |-> None, stats |-> tokenStats[s]]
<1>1. command' = [command EXCEPT ![p] = new] /\ UNCHANGED <<rows, added>>
  BY DEF Open, database
<1>2. new.step = "line" /\ new.next = 1 /\ new.count = 0 /\ new.file = f
  OBVIOUS
<1>. HIDE DEF new
<1>3. command'[p] = new /\ \A q \in Procs : q # p => command'[q] = command[q]
  BY <1>1 DEF HistoryInv, TypeInv, TypeOK
<1>4. ItemsStored(p)'
  BY <1>2, <1>3, PassedNothing DEF ItemsStored
<1>5. QED
  BY <1>1, <1>2, <1>3, <1>4, CommandsMove

LEMMA SkipHistory ==
  ASSUME HistoryInv, NEW p \in Procs, Skip(p)
  PROVE  EventsOwned' /\ EventsAwaited' /\ AllStored'
<1>1. /\ Running(p) /\ command[p].step = "line" /\ LineOf(p).what # "item"
      /\ command[p].next <= Len(command[p].file)
      /\ command' = [command EXCEPT ![p].next = @ + 1] /\ UNCHANGED <<rows, added>>
  BY DEF Skip, AtLine, database
<1>2. /\ command[p] \in Command /\ command[p].file \in Files
      /\ command[p].next \in DOMAIN command[p].file
  BY <1>1, CommandTypes DEF HistoryInv, TypeInv
<1>3. /\ command'[p].step = "line" /\ command'[p].session = command[p].session
      /\ command'[p].file = command[p].file /\ command'[p].count = command[p].count
      /\ command'[p].next = command[p].next + 1
      /\ \A q \in Procs : q # p => command'[q] = command[q]
  BY <1>1, <1>2 DEF HistoryInv, TypeInv, TypeOK, Command
<1>4. Passed(command[p].file, command[p].next + 1) = Passed(command[p].file, command[p].next)
  BY <1>1, <1>2, PassedLine DEF LineOf
<1>5. ItemsStored(p)'
  BY <1>1, <1>3, <1>4 DEF HistoryInv, AllStored, ItemsStored, Owned
<1>6. QED
  BY <1>1, <1>3, <1>5, CommandsMove

LEMMA EndHistory ==
  ASSUME HistoryInv, NEW p \in Procs, Reject(p) \/ Stop(p) \/ Report(p)
  PROVE  EventsOwned' /\ EventsAwaited' /\ AllStored'
<1>1. command' = [command EXCEPT ![p] = None] /\ UNCHANGED <<rows, added>>
  BY DEF Reject, Stop, Report, database
<1>2. ~Running(p)' /\ \A q \in Procs : q # p => command'[q] = command[q]
  BY <1>1 DEF HistoryInv, TypeInv, TypeOK, Running
<1>3. QED
  BY <1>1, <1>2, CommandsMove

LEMMA CountHistory ==
  ASSUME HistoryInv, NEW p \in Procs, Count(p)
  PROVE  EventsOwned' /\ EventsAwaited' /\ AllStored'
<1>. DEFINE c == command[p]
            table == [c.stats EXCEPT ![LineOf(p).type] =
                        Updated(c.stats[LineOf(p).type], LineOf(p).tokens)]
            new == [session |-> c.session, file |-> c.file, next |-> c.next + 1,
                    count |-> c.count + 1, step |-> "line", id |-> None, stats |-> table]
<1>1. /\ Running(p) /\ c.step = "stat" /\ UNCHANGED <<rows, added>>
      /\ command' = [command EXCEPT ![p] = new]
  BY DEF Count
<1>. HIDE DEF table
<1>2. /\ c \in Command /\ c.session \in Sessions /\ c.file \in Files /\ c.next \in DOMAIN c.file
      /\ c.file[c.next].what = "item" /\ Owned(c.session, c.id)
      /\ (c.file[c.next].id # None => c.id = c.file[c.next].id)
  BY <1>1, CommandTypes DEF HistoryInv, TypeInv, AtItsItem, LineOf
<1>3. added[c.session][c.id] = 1
  BY <1>1 DEF HistoryInv, EventsAwaited
<1>4. /\ command'[p].step = "line" /\ command'[p].session = c.session
      /\ command'[p].file = c.file /\ command'[p].count = c.count + 1
      /\ command'[p].next = c.next + 1
      /\ \A q \in Procs : q # p => command'[q] = command[q]
  BY <1>1 DEF HistoryInv, TypeInv, TypeOK
<1>5. /\ Passed(c.file, c.next + 1) = Passed(c.file, c.next) \union {c.next}
      /\ Cardinality(Passed(c.file, c.next + 1)) = Cardinality(Passed(c.file, c.next)) + 1
  BY <1>2, PassedLine
<1>6. /\ c.count = Cardinality(Passed(c.file, c.next))
      /\ \A n \in Passed(c.file, c.next) : c.file[n].id # None =>
           Owned(c.session, c.file[n].id) /\ added[c.session][c.file[n].id] = 1
  BY <1>1 DEF HistoryInv, AllStored, ItemsStored
<1>7. \A n \in Passed(c.file, c.next + 1) : c.file[n].id # None =>
        Owned(c.session, c.file[n].id) /\ added[c.session][c.file[n].id] = 1
  BY <1>2, <1>3, <1>5, <1>6
<1>8. ItemsStored(p)'
  BY <1>1, <1>4, <1>5, <1>6, <1>7 DEF ItemsStored, Owned
<1>9. QED
  BY <1>1, <1>4, <1>8, CommandsMove

LEMMA InsertHistory ==
  ASSUME HistoryInv, NEW p \in Procs, NEW id \in AllIds, Insert(p, id)
  PROVE  EventsOwned' /\ EventsAwaited' /\ AllStored'
<1>. DEFINE row == [session |-> command[p].session, type |-> LineOf(p).type,
                    tokens |-> LineOf(p).tokens]
<1>1. Running(p) /\ command[p].step = "line" /\ UNCHANGED added
  BY DEF Insert, AtItem, AtLine
<1>2. \A i \in AllIds : rows[i] # None => rows'[i] = rows[i]
  BY InsertType DEF HistoryInv
<1>3. CASE rows[id] # None
  <2>1. rows' = rows /\ command' = [command EXCEPT ![p] = None]
    BY <1>3 DEF Insert, Stored
  <2>2. ~Running(p)' /\ \A q \in Procs : q # p => command'[q] = command[q]
    BY <2>1 DEF HistoryInv, TypeInv, TypeOK, Running
  <2>3. QED
    BY <1>1, <2>1, <2>2, CommandsMove
<1>4. CASE rows[id] = None
  <2>1. command' = [command EXCEPT ![p] = [@ EXCEPT !.step = "event", !.id = id]]
    BY <1>4 DEF Insert, Stored
  <2>2. /\ command'[p].step = "event" /\ command'[p].id = id
        /\ command'[p].session = command[p].session /\ command'[p].file = command[p].file
        /\ command'[p].next = command[p].next /\ command'[p].count = command[p].count
        /\ \A q \in Procs : q # p => command'[q] = command[q]
    BY <1>1, <2>1, CommandTypes DEF HistoryInv, TypeInv, TypeOK, Command
  <2>3. EventsOwned'
    <3>1. \A s \in Sessions, i \in AllIds : Owned(s, i) => Owned(s, i)'
      BY <1>2 DEF Owned
    <3>2. QED
      BY <1>1, <3>1 DEF HistoryInv, EventsOwned
  <2>4. \A s \in Sessions : added[s][id] = 0
    BY <1>4 DEF HistoryInv, TypeInv, TypeOK, EventsOwned, Owned
  <2>5. \A q \in Procs : Running(q) /\ command[q].step # "line" => command[q].id # id
    BY <1>4 DEF HistoryInv, TypeInv, AtItsItem, Owned
  <2>6. EventsAwaited'
    BY <1>1, <2>2, <2>4, <2>5 DEF HistoryInv, EventsAwaited, Running
  <2>7. ASSUME NEW q \in Procs, q # p, Running(q)' PROVE ItemsStored(q)'
    BY <1>1, <1>2, <2>2, <2>7, OthersKept DEF Running
  <2>8. ItemsStored(p)'
    <3>1. command[p].session \in Sessions /\ command[p].file \in Files
      BY <1>1, CommandTypes DEF HistoryInv, TypeInv
    <3>2. ItemsStored(p)
      BY <1>1 DEF HistoryInv, AllStored
    <3>3. \A n \in Passed(command[p].file, command[p].next) :
            command[p].file[n].id # None => command[p].file[n].id \in AllIds
      BY <3>1, LineTypes DEF Passed, ItemLines, AllIds
    <3>4. QED
      BY <1>1, <1>2, <2>2, <3>1, <3>2, <3>3 DEF ItemsStored, Owned
  <2>9. QED
    BY <2>3, <2>6, <2>7, <2>8 DEF AllStored
<1>5. QED
  BY <1>3, <1>4

LEMMA AppendEventHistory ==
  ASSUME HistoryInv, NEW p \in Procs, AppendEvent(p)
  PROVE  EventsOwned' /\ EventsAwaited' /\ AllStored'
<1>1. /\ Running(p) /\ command[p].step = "event" /\ UNCHANGED rows
      /\ added' = [added EXCEPT ![command[p].session][command[p].id] = @ + 1]
      /\ command' = [command EXCEPT ![p].step = "stat"]
  BY DEF AppendEvent
<1>2. /\ command[p] \in Command /\ command[p].session \in Sessions
      /\ command[p].file \in Files /\ command[p].id \in AllIds
      /\ Owned(command[p].session, command[p].id)
  BY <1>1, CommandTypes DEF HistoryInv, TypeInv, AtItsItem
<1>3. \A s \in Sessions : added[s][command[p].id] = 0
  BY <1>1 DEF HistoryInv, EventsAwaited
<1>4. /\ added'[command[p].session][command[p].id] = 1
      /\ \A s \in Sessions, i \in AllIds :
           s # command[p].session \/ i # command[p].id => added'[s][i] = added[s][i]
  BY <1>1, <1>2, <1>3 DEF HistoryInv, TypeInv, TypeOK
<1>5. /\ command'[p].step = "stat" /\ command'[p].id = command[p].id
      /\ command'[p].session = command[p].session /\ command'[p].file = command[p].file
      /\ command'[p].next = command[p].next /\ command'[p].count = command[p].count
      /\ \A q \in Procs : q # p => command'[q] = command[q]
  BY <1>1, <1>2 DEF HistoryInv, TypeInv, TypeOK, Command
<1>6. EventsOwned'
  BY <1>1, <1>2, <1>4 DEF HistoryInv, EventsOwned, Owned
<1>7. EventsAwaited'
  <2>1. ASSUME NEW q \in Procs, q # p, Running(q)'
        PROVE  /\ command'[q].step = "event" =>
                    /\ \A s \in Sessions : added'[s][command'[q].id] = 0
                    /\ \A r \in Procs : r # q /\ Running(r)' /\ command'[r].step = "event" =>
                         command'[r].id # command'[q].id
               /\ command'[q].step = "stat" => added'[command'[q].session][command'[q].id] = 1
    <3>1. Running(q) /\ command'[q] = command[q] /\ command[q].session \in Sessions
      BY <1>5, <2>1, CommandTypes DEF Running, HistoryInv, TypeInv
    <3>2. CASE command[q].step = "event"
      <4>1. command[q].id # command[p].id /\ command[q].id \in AllIds
        BY <1>1, <2>1, <3>1, <3>2 DEF HistoryInv, EventsAwaited, TypeInv, AtItsItem
      <4>2. \A s \in Sessions : added'[s][command'[q].id] = 0
        BY <1>4, <3>1, <3>2, <4>1 DEF HistoryInv, EventsAwaited
      <4>3. \A r \in Procs : r # q /\ Running(r)' /\ command'[r].step = "event" =>
                         command'[r].id # command'[q].id
        BY <1>5, <3>1, <3>2 DEF HistoryInv, EventsAwaited, Running
      <4>4. QED
        BY <3>1, <3>2, <4>2, <4>3
    <3>3. CASE command[q].step = "stat"
      <4>1. added[command[q].session][command[q].id] = 1 /\ command[q].id \in AllIds
        BY <3>1, <3>3 DEF HistoryInv, EventsAwaited, TypeInv, AtItsItem
      <4>2. command[q].id # command[p].id
        BY <1>3, <3>1, <4>1
      <4>3. QED
        BY <1>4, <3>1, <3>3, <4>1, <4>2
    <3>4. QED
      BY <3>1, <3>2, <3>3
  <2>2. command'[p].step # "event" /\ added'[command'[p].session][command'[p].id] = 1
    BY <1>4, <1>5
  <2>3. QED
    BY <2>1, <2>2 DEF EventsAwaited
<1>8. \A s \in Sessions, i \in AllIds : added[s][i] = 1 => added'[s][i] = 1
  BY <1>3, <1>4
<1>9. ASSUME NEW q \in Procs, q # p, Running(q)' PROVE ItemsStored(q)'
  BY <1>1, <1>5, <1>8, <1>9, OthersKept DEF Running
<1>10. ItemsStored(p)'
  <2>1. ItemsStored(p)
    BY <1>1 DEF HistoryInv, AllStored
  <2>2. \A n \in Passed(command[p].file, command[p].next) :
          command[p].file[n].id # None => command[p].file[n].id \in AllIds
    BY <1>2, LineTypes DEF Passed, ItemLines, AllIds
  <2>3. QED
    BY <1>1, <1>2, <1>5, <1>8, <2>1, <2>2 DEF ItemsStored, Owned
<1>11. QED
  BY <1>6, <1>7, <1>9, <1>10 DEF AllStored

LEMMA NextHistory == HistoryInv /\ [Next]_vars => HistoryInv'
<1>. SUFFICES ASSUME HistoryInv, [Next]_vars PROVE HistoryInv'
  OBVIOUS
<1>1. TypeInv'
  BY NextType DEF HistoryInv
<1>2. CASE UNCHANGED vars
  BY <1>1, <1>2 DEF vars, database, HistoryInv, EventsOwned, EventsAwaited, AllStored,
       ItemsStored, Owned, Running
<1>3. CASE Next
  BY <1>1, <1>3, OpenHistory, SkipHistory, EndHistory, CountHistory, InsertHistory,
     AppendEventHistory DEF Next, HistoryInv
<1>4. QED
  BY <1>2, <1>3

(* Whatever ids the files name and whichever processes ingest them: the    *)
(* history of a session tells each of its own items once.                  *)
THEOREM EventsOwnedHolds == Spec => []EventsOwned
<1>1. QED
  BY InitHistory, NextHistory, PTL DEF Spec, HistoryInv

(* What a running command has counted is in the database with its events,  *)
(* in the command's own session.                                           *)
THEOREM PrefixStoredHolds == Spec => []PrefixStored
<1>1. HistoryInv => PrefixStored
  BY StoredIsPrefix DEF HistoryInv
<1>2. QED
  BY <1>1, InitHistory, NextHistory, PTL DEF Spec

-----------------------------------------------------------------------------
(* Reports.                                                                *)

LEMMA ReportedNat ==
  ASSUME TypeInv, NEW f \in Files
  PROVE  /\ Reported(f) = SumFunctionOnSet([s \in Sessions |-> reported[s][f]], Sessions)
         /\ Reported(f) \in Nat
<1>. DEFINE table == [s \in Sessions |-> reported[s][f]]
<1>1. \A s \in Sessions : table[s] \in Nat
  BY DEF TypeInv, TypeOK
<1>2. DOMAIN table = Sessions /\ IsFiniteSet(Sessions)
  BY IngestionAssumption
<1>3. Reported(f) = SumFunctionOnSet(table, Sessions)
  BY <1>2 DEF Reported, SumFunction
<1>. HIDE DEF table
<1>4. SumFunctionOnSet(table, Sessions) \in Nat
  BY <1>1, <1>2, SumNat
<1>5. QED
  BY <1>3, <1>4 DEF table

LEMMA ReportedRises ==
  ASSUME TypeInv, NEW s \in Sessions, NEW f \in Files,
         reported' = [reported EXCEPT ![s][f] = @ + 1]
  PROVE  /\ Reported(f)' = Reported(f) + 1
         /\ \A g \in Files : g # f => Reported(g)' = Reported(g)
<1>. DEFINE before == [r \in Sessions |-> reported[r][f]]
            now == [r \in Sessions |-> reported'[r][f]]
<1>1. reported \in [Sessions -> [Files -> Nat]] /\ IsFiniteSet(Sessions)
  BY IngestionAssumption DEF TypeInv, TypeOK
<1>2. /\ before[s] \in Int /\ now[s] = before[s] + 1 /\ now[s] \in Int
      /\ \A r \in Sessions \ {s} : before[r] \in Int /\ now[r] = before[r]
  BY <1>1
<1>3. Reported(f) = SumFunctionOnSet(before, Sessions) /\ Reported(f) \in Nat
  BY ReportedNat
<1>4. Reported(f)' = SumFunctionOnSet(now, Sessions)
  BY DEF Reported, SumFunction
<1>5. \A g \in Files : g # f => Reported(g)' = Reported(g)
  BY <1>1 DEF Reported
<1>. HIDE DEF before, now
<1>6. SumFunctionOnSet(now, Sessions) = SumFunctionOnSet(before, Sessions) - before[s] + now[s]
  BY <1>1, <1>2, SumChange
<1>7. SumFunctionOnSet(before, Sessions) \in Nat
  BY <1>3
<1>8. QED
  BY <1>2, <1>3, <1>4, <1>5, <1>6, <1>7

(* A command has taken the ids of the lines it has passed and of the item  *)
(* it has inserted.  Nobody else takes them, and no file that names one of *)
(* them has been reported: one that has would have taken it before.        *)
Claims(p, i) ==
  /\ Running(p)
  /\ \/ \E n \in Passed(command[p].file, command[p].next) : command[p].file[n].id = i
     \/ command[p].step # "line" /\ command[p].id = i

Claimed(i) ==
  /\ \A p \in Procs : Claims(p, i) =>
       /\ rows[i] # None
       /\ \A q \in Procs : Claims(q, i) => q = p
       /\ \A f \in Files : i \in Named(f) => Reported(f) = 0
  /\ \A f \in Files : i \in Named(f) /\ Reported(f) > 0 => rows[i] # None

ClaimInv == ReportedOnce /\ \A i \in Ids : Claimed(i)

LEMMA InitClaims == Init => ClaimInv
<1>. SUFFICES ASSUME Init PROVE ClaimInv
  OBVIOUS
<1>1. \A p \in Procs : ~Running(p)
  BY DEF Init, Running
<1>2. ASSUME NEW f \in Files PROVE Reported(f) = 0
  <2>. DEFINE table == [s \in Sessions |-> reported[s][f]]
  <2>1. \A s \in Sessions : table[s] = 0
    BY DEF Init
  <2>2. DOMAIN table = Sessions /\ IsFiniteSet(Sessions)
    BY IngestionAssumption
  <2>3. Reported(f) = SumFunctionOnSet(table, Sessions)
    BY <2>2 DEF Reported, SumFunction
  <2>. HIDE DEF table
  <2>4. QED
    BY <2>1, <2>2, <2>3, SumZero
<1>3. QED
  BY <1>1, <1>2 DEF ClaimInv, ReportedOnce, Claimed, Claims

(* A step that takes no id and reports no file.                            *)
LEMMA ClaimsKept ==
  ASSUME ClaimInv, UNCHANGED reported,
         \A i \in AllIds : rows[i] # None => rows'[i] = rows[i],
         \A p \in Procs, i \in Ids : Claims(p, i)' => Claims(p, i)
  PROVE  ClaimInv'
<1>1. \A f \in Files : Reported(f)' = Reported(f)
  BY DEF Reported
<1>2. ReportedOnce'
  BY <1>1 DEF ClaimInv, ReportedOnce
<1>3. \A i \in Ids : Claimed(i)'
  BY <1>1 DEF ClaimInv, Claimed, AllIds
<1>4. QED
  BY <1>2, <1>3 DEF ClaimInv

(* The ids that files name.                                                *)
LEMMA NamedIds ==
  ASSUME NEW f \in Files
  PROVE  Named(f) \subseteq Ids
  BY LineTypes DEF Named, ItemLines

(* A step of a single command that is not one of its insertions.           *)
LEMMA OthersClaim ==
  ASSUME HistoryInv, NEW p \in Procs,
         \A q \in Procs : q # p => command'[q] = command[q]
  PROVE  \A q \in Procs, i \in Ids : q # p => (Claims(q, i)' <=> Claims(q, i))
  BY DEF Claims, Running

LEMMA OpenClaims ==
  ASSUME HistoryInv, ClaimInv, NEW p \in Procs, NEW s \in Sessions, NEW f \in Files, Open(p, s, f)
  PROVE  ClaimInv'
<1>. DEFINE new == [session |-> s, file |-> f, next |-> 1, count |-> 0, step |-> "line",
                    id |-> None, stats |-> tokenStats[s]]
<1>1. command' = [command EXCEPT ![p] = new] /\ UNCHANGED <<rows, reported>>
  BY DEF Open, database
<1>2. new.step = "line" /\ new.next = 1 /\ new.file = f
  OBVIOUS
<1>. HIDE DEF new
<1>3. command'[p] = new /\ \A q \in Procs : q # p => command'[q] = command[q]
  BY <1>1 DEF HistoryInv, TypeInv, TypeOK
<1>4. \A i \in Ids : ~Claims(p, i)'
  BY <1>2, <1>3, PassedNothing DEF Claims
<1>5. QED
  BY <1>1, <1>3, <1>4, OthersClaim, ClaimsKept

LEMMA SkipClaims ==
  ASSUME HistoryInv, ClaimInv, NEW p \in Procs, Skip(p)
  PROVE  ClaimInv'
<1>1. /\ Running(p) /\ command[p].step = "line" /\ LineOf(p).what # "item"
      /\ command[p].next <= Len(command[p].file)
      /\ command' = [command EXCEPT ![p].next = @ + 1] /\ UNCHANGED <<rows, reported>>
  BY DEF Skip, AtLine, database
<1>2. /\ command[p] \in Command /\ command[p].file \in Files
      /\ command[p].next \in DOMAIN command[p].file
  BY <1>1, CommandTypes DEF HistoryInv, TypeInv
<1>3. /\ command'[p].step = "line"
      /\ command'[p].file = command[p].file /\ command'[p].next = command[p].next + 1
      /\ \A q \in Procs : q # p => command'[q] = command[q]
  BY <1>1, <1>2 DEF HistoryInv, TypeInv, TypeOK, Command
<1>4. Passed(command[p].file, command[p].next + 1) = Passed(command[p].file, command[p].next)
  BY <1>1, <1>2, PassedLine DEF LineOf
<1>5. \A i \in Ids : Claims(p, i)' => Claims(p, i)
  BY <1>1, <1>3, <1>4 DEF Claims
<1>6. QED
  BY <1>1, <1>3, <1>5, OthersClaim, ClaimsKept

LEMMA EndClaims ==
  ASSUME HistoryInv, ClaimInv, NEW p \in Procs, Reject(p) \/ Stop(p)
  PROVE  ClaimInv'
<1>1. command' = [command EXCEPT ![p] = None] /\ UNCHANGED <<rows, reported>>
  BY DEF Reject, Stop, database
<1>2. ~Running(p)' /\ \A q \in Procs : q # p => command'[q] = command[q]
  BY <1>1 DEF HistoryInv, TypeInv, TypeOK, Running
<1>3. \A i \in Ids : ~Claims(p, i)'
  BY <1>2 DEF Claims
<1>4. QED
  BY <1>1, <1>2, <1>3, OthersClaim, ClaimsKept

(* A row that is inserted was not there: no command had taken its id.      *)
LEMMA InsertClaims ==
  ASSUME HistoryInv, ClaimInv, NEW p \in Procs, NEW id \in AllIds, Insert(p, id)
  PROVE  ClaimInv'
<1>. DEFINE row == [session |-> command[p].session, type |-> LineOf(p).type,
                    tokens |-> LineOf(p).tokens]
<1>1. Running(p) /\ command[p].step = "line" /\ UNCHANGED reported
  BY DEF Insert, AtItem, AtLine
<1>2. \A i \in AllIds : rows[i] # None => rows'[i] = rows[i]
  BY InsertType DEF HistoryInv
<1>3. CASE rows[id] # None
  <2>1. command' = [command EXCEPT ![p] = None]
    BY <1>3 DEF Insert, Stored
  <2>2. ~Running(p)' /\ \A q \in Procs : q # p => command'[q] = command[q]
    BY <2>1 DEF HistoryInv, TypeInv, TypeOK, Running
  <2>3. \A i \in Ids : ~Claims(p, i)'
    BY <2>2 DEF Claims
  <2>4. QED
    BY <1>1, <1>2, <2>2, <2>3, OthersClaim, ClaimsKept
<1>4. CASE rows[id] = None
  <2>1. /\ command' = [command EXCEPT ![p] = [@ EXCEPT !.step = "event", !.id = id]]
        /\ rows' = [rows EXCEPT ![id] = row]
    BY <1>4 DEF Insert, Stored
  <2>2. /\ command'[p].id = id /\ command'[p].file = command[p].file
        /\ command'[p].next = command[p].next
        /\ \A q \in Procs : q # p => command'[q] = command[q]
    BY <1>1, <2>1, CommandTypes DEF HistoryInv, TypeInv, TypeOK, Command
  <2>3. rows'[id] # None
    <3>1. row \in Row
      BY <1>1, CommandTypes, LineTypes DEF Insert, AtItem, HistoryInv, TypeInv, LineOf, Row
    <3>2. rows'[id] = row
      BY <2>1 DEF HistoryInv, TypeInv, TypeOK
    <3>. HIDE DEF row
    <3>3. QED
      BY <3>1, <3>2, IngestionAssumption
  <2>4. \A i \in Ids : Claims(p, i)' => Claims(p, i) \/ i = id
    BY <1>1, <2>2 DEF Claims
  <2>5. \A q \in Procs, i \in Ids : q # p => (Claims(q, i)' <=> Claims(q, i))
    BY <2>2, OthersClaim
  <2>6. id \in Ids =>
          /\ \A q \in Procs : ~Claims(q, id)
          /\ \A f \in Files : id \in Named(f) => ~(Reported(f) > 0)
    BY <1>4 DEF ClaimInv, Claimed
  <2>7. \A f \in Files : Reported(f)' = Reported(f) /\ Reported(f) \in Nat
    BY <1>1, ReportedNat DEF Reported, HistoryInv
  <2>8. ASSUME NEW i \in Ids PROVE Claimed(i)'
    <3>1. CASE i = id
      BY <2>3, <2>4, <2>5, <2>6, <2>7, <3>1 DEF Claimed
    <3>2. CASE i # id
      <4>1. /\ \A q \in Procs : Claims(q, i)' => Claims(q, i)
            /\ rows[i] # None => rows'[i] # None
        BY <1>2, <2>4, <2>5, <3>2 DEF AllIds
      <4>2. QED
        BY <2>7, <4>1 DEF ClaimInv, Claimed
    <3>3. QED
      BY <3>1, <3>2
  <2>9. ReportedOnce'
    BY <2>7 DEF ClaimInv, ReportedOnce
  <2>10. QED
    BY <2>8, <2>9 DEF ClaimInv
<1>5. QED
  BY <1>3, <1>4

LEMMA AppendEventClaims ==
  ASSUME HistoryInv, ClaimInv, NEW p \in Procs, AppendEvent(p)
  PROVE  ClaimInv'
<1>1. /\ Running(p) /\ command[p].step = "event" /\ UNCHANGED <<rows, reported>>
      /\ command' = [command EXCEPT ![p].step = "stat"]
  BY DEF AppendEvent
<1>2. command[p] \in Command
  BY <1>1, CommandTypes DEF HistoryInv, TypeInv
<1>3. /\ command'[p].id = command[p].id /\ command'[p].file = command[p].file
      /\ command'[p].next = command[p].next
      /\ \A q \in Procs : q # p => command'[q] = command[q]
  BY <1>1, <1>2 DEF HistoryInv, TypeInv, TypeOK, Command
<1>4. \A i \in Ids : Claims(p, i)' => Claims(p, i)
  BY <1>1, <1>3 DEF Claims
<1>5. QED
  BY <1>1, <1>3, <1>4, OthersClaim, ClaimsKept

LEMMA CountClaims ==
  ASSUME HistoryInv, ClaimInv, NEW p \in Procs, Count(p)
  PROVE  ClaimInv'
<1>. DEFINE c == command[p]
            table == [c.stats EXCEPT ![LineOf(p).type] =
                        Updated(c.stats[LineOf(p).type], LineOf(p).tokens)]
            new == [session |-> c.session, file |-> c.file, next |-> c.next + 1,
                    count |-> c.count + 1, step |-> "line", id |-> None, stats |-> table]
<1>1. /\ Running(p) /\ c.step = "stat" /\ UNCHANGED <<rows, reported>>
      /\ command' = [command EXCEPT ![p] = new]
  BY DEF Count
<1>. HIDE DEF table
<1>2. /\ c.file \in Files /\ c.next \in DOMAIN c.file /\ c.file[c.next].what = "item"
      /\ (c.file[c.next].id # None => c.id = c.file[c.next].id)
  BY <1>1, CommandTypes DEF HistoryInv, TypeInv, AtItsItem, LineOf
<1>3. /\ command'[p].step = "line" /\ command'[p].file = c.file /\ command'[p].next = c.next + 1
      /\ \A q \in Procs : q # p => command'[q] = command[q]
  BY <1>1 DEF HistoryInv, TypeInv, TypeOK
<1>4. Passed(c.file, c.next + 1) = Passed(c.file, c.next) \union {c.next}
  BY <1>2, PassedLine
<1>5. None \notin Ids
  BY IngestionAssumption DEF AllIds
<1>6. \A i \in Ids : Claims(p, i)' => Claims(p, i)
  BY <1>1, <1>2, <1>3, <1>4, <1>5 DEF Claims
<1>7. QED
  BY <1>1, <1>3, <1>6, OthersClaim, ClaimsKept

(* A command that reports its file has taken every id the file names.      *)
LEMMA ReportClaims ==
  ASSUME HistoryInv, HistoryInv', ClaimInv, NEW p \in Procs, Report(p)
  PROVE  ClaimInv'
<1>0. /\ Running(p) /\ command[p].session \in Sessions /\ command[p].file \in Files
      /\ command[p].next \in Nat
  BY CommandTypes DEF Report, AtLine, HistoryInv, TypeInv
<1>. PICK s \in Sessions, f \in Files : s = command[p].session /\ f = command[p].file
  BY <1>0
<1>1. /\ Running(p) /\ command[p].next > Len(f) /\ rows' = rows
      /\ reported' = [reported EXCEPT ![s][f] = @ + 1]
      /\ command' = [command EXCEPT ![p] = None]
  BY DEF Report, AtLine, database
<1>2. s \in Sessions /\ f \in Files /\ command[p].next \in Nat
  BY <1>0
<1>3. \A i \in Named(f) : i \in Ids /\ Claims(p, i)
  <2>1. \A n \in ItemLines(f) : n \in Passed(f, command[p].next)
    BY <1>1, <1>2, LineTypes DEF Passed, ItemLines
  <2>2. Named(f) \subseteq Ids
    BY <1>2, NamedIds
  <2>3. QED
    BY <1>1, <2>1, <2>2 DEF Named, Claims
<1>4. /\ Reported(f)' = Reported(f) + 1
      /\ \A g \in Files : g # f => Reported(g)' = Reported(g)
  BY <1>1, <1>2, ReportedRises DEF HistoryInv
<1>5. \A g \in Files : Reported(g) \in Nat
  BY ReportedNat DEF HistoryInv
<1>6. /\ \A g \in Files : Named(f) \intersect Named(g) # {} => Reported(g) = 0
      /\ Named(f) # {} => Reported(f) = 0
  BY <1>2, <1>3 DEF ClaimInv, Claimed
<1>7. /\ ~Running(p)' /\ \A q \in Procs : q # p => command'[q] = command[q]
  BY <1>1 DEF HistoryInv, TypeInv, TypeOK, Running
<1>8. \A q \in Procs, i \in Ids : Claims(q, i)' => q # p /\ Claims(q, i)
  BY <1>7 DEF Claims, Running
<1>9. ReportedOnce'
  <2>1. ASSUME NEW g \in Files, Named(g) # {} PROVE Reported(g)' <= 1
    <3>1. CASE g = f
      BY <1>4, <1>6, <2>1, <3>1
    <3>2. CASE g # f
      BY <1>4, <2>1, <3>2 DEF ClaimInv, ReportedOnce
    <3>3. QED
      BY <3>1, <3>2
  <2>2. ASSUME NEW g \in Files, NEW h \in Files, g # h, Reported(g)' > 0, Reported(h)' > 0
        PROVE  Named(g) \intersect Named(h) = {}
    <3>1. CASE g = f
      BY <1>4, <1>5, <1>6, <2>2, <3>1
    <3>2. CASE h = f
      BY <1>4, <1>5, <1>6, <2>2, <3>2
    <3>3. CASE g # f /\ h # f
      BY <1>4, <2>2, <3>3 DEF ClaimInv, ReportedOnce
    <3>4. QED
      BY <3>1, <3>2, <3>3
  <2>3. QED
    BY <2>1, <2>2 DEF ReportedOnce
<1>10. ASSUME NEW i \in Ids PROVE Claimed(i)'
  <2>1. ASSUME NEW q \in Procs, Claims(q, i)'
        PROVE  /\ rows'[i] # None
               /\ \A r \in Procs : Claims(r, i)' => r = q
               /\ \A g \in Files : i \in Named(g) => Reported(g)' = 0
    <3>1. q # p /\ Claims(q, i)
      BY <1>8, <2>1
    <3>2. i \notin Named(f)
      BY <1>3, <3>1 DEF ClaimInv, Claimed
    <3>3. QED
      BY <1>1, <1>4, <1>8, <3>1, <3>2 DEF ClaimInv, Claimed
  <2>2. ASSUME NEW g \in Files, i \in Named(g), Reported(g)' > 0
        PROVE  rows'[i] # None
    BY <1>1, <1>3, <1>4, <2>2 DEF ClaimInv, Claimed
  <2>3. QED
    BY <2>1, <2>2 DEF Claimed
<1>11. QED
  BY <1>9, <1>10 DEF ClaimInv

LEMMA NextClaims == HistoryInv /\ ClaimInv /\ [Next]_vars => ClaimInv'
<1>. SUFFICES ASSUME HistoryInv, ClaimInv, [Next]_vars PROVE ClaimInv'
  OBVIOUS
<1>1. HistoryInv'
  BY NextHistory
<1>2. CASE UNCHANGED vars
  BY <1>2, ClaimsKept DEF vars, database, Claims, Running
<1>3. CASE Next
  BY <1>1, <1>3, OpenClaims, SkipClaims, EndClaims, InsertClaims, AppendEventClaims,
     CountClaims, ReportClaims DEF Next
<1>4. QED
  BY <1>2, <1>3

(* A file that names ids is reported at most once, and never after another *)
(* that names one of them, whichever processes ingest it into which        *)
(* session and however often they are stopped.                             *)
THEOREM ReportedOnceHolds == Spec => []ReportedOnce
<1>1. Init => HistoryInv /\ ClaimInv
  BY InitHistory, InitClaims
<1>2. HistoryInv /\ ClaimInv /\ [Next]_vars => HistoryInv' /\ ClaimInv'
  BY NextHistory, NextClaims
<1>3. ClaimInv => ReportedOnce
  BY DEF ClaimInv
<1>4. QED
  BY <1>1, <1>2, <1>3, PTL DEF Spec

-----------------------------------------------------------------------------
(* Reports and the history.                                                *)

(* The items of reported files, and those that a running command has       *)
(* counted or is about to: it counts an item two statements after it has   *)
(* inserted its row.                                                       *)
Told(s) == [f \in Files |-> reported[s][f] * Cardinality(ItemLines(f))]

Owed(s) ==
  [p \in Procs |-> IF Running(p) /\ command[p].session = s
                   THEN command[p].count + (IF command[p].step = "line" THEN 0 ELSE 1)
                   ELSE 0]

OwedInv == \A s \in Sessions : SumFunction(Told(s)) + SumFunction(Owed(s)) <= HistoryItems(s)

LEMMA ItemLinesFinite ==
  ASSUME NEW f \in Files
  PROVE  IsFiniteSet(ItemLines(f)) /\ Cardinality(ItemLines(f)) \in Nat
<1>1. IsFiniteSet(1..Len(f)) /\ ItemLines(f) \in SUBSET (1..Len(f))
  <2>1. f \in Seq(Line)
    BY IngestionAssumption
  <2>2. Len(f) \in Nat /\ DOMAIN f = 1..Len(f)
    BY <2>1
  <2>3. QED
    BY <2>2, FS_Interval DEF ItemLines
<1>2. QED
  BY <1>1, FS_Subset, FS_CardinalityType

LEMMA HistoryFinite ==
  ASSUME NEW s
  PROVE  /\ IsFiniteSet({i \in AllIds : Owned(s, i)}) /\ HistoryItems(s) \in Nat
<1>1. {i \in AllIds : Owned(s, i)} \in SUBSET AllIds
  OBVIOUS
<1>2. QED
  BY <1>1, FS_Subset, FS_CardinalityType, IngestionAssumption DEF HistoryItems

LEMMA ToldTypes ==
  ASSUME TypeInv, NEW s \in Sessions
  PROVE  /\ Told(s) \in [Files -> Nat] /\ SumFunction(Told(s)) \in Nat
         /\ SumFunction(Told(s)) = SumFunctionOnSet(Told(s), Files)
<1>1. \A f \in Files : reported[s][f] \in Nat /\ Cardinality(ItemLines(f)) \in Nat
  BY ItemLinesFinite DEF TypeInv, TypeOK
<1>2. \A x, y \in Nat : x * y \in Nat
  OBVIOUS
<1>3. Told(s) \in [Files -> Nat]
  BY <1>1, <1>2 DEF Told
<1>4. SumFunctionOnSet(Told(s), Files) \in Nat
  BY <1>3, SumNat, IngestionAssumption
<1>5. QED
  BY <1>3, <1>4 DEF SumFunction

LEMMA OwedTypes ==
  ASSUME TypeInv, NEW s \in Sessions
  PROVE  /\ Owed(s) \in [Procs -> Nat] /\ SumFunction(Owed(s)) \in Nat
         /\ SumFunction(Owed(s)) = SumFunctionOnSet(Owed(s), Procs)
<1>1. \A p \in Procs : Running(p) => command[p].count \in Nat
  BY CommandTypes DEF Command, TypeInv
<1>2. Owed(s) \in [Procs -> Nat]
  BY <1>1 DEF Owed, TypeInv
<1>3. SumFunctionOnSet(Owed(s), Procs) \in Nat
  BY <1>2, SumNat, IngestionAssumption
<1>4. QED
  BY <1>2, <1>3 DEF SumFunction

(* A step of one command changes what it owes alone.                       *)
LEMMA OwedMoves ==
  ASSUME TypeInv, TypeInv', NEW s \in Sessions, NEW p \in Procs,
         \A q \in Procs : q # p => command'[q] = command[q]
  PROVE  SumFunction(Owed(s))' = SumFunction(Owed(s)) - Owed(s)[p] + Owed(s)'[p]
<1>1. /\ Owed(s) \in [Procs -> Nat] /\ SumFunction(Owed(s)) = SumFunctionOnSet(Owed(s), Procs)
      /\ (Owed(s) \in [Procs -> Nat])'
      /\ (SumFunction(Owed(s)) = SumFunctionOnSet(Owed(s), Procs))'
  <2>1. TypeInv => Owed(s) \in [Procs -> Nat] /\ SumFunction(Owed(s)) = SumFunctionOnSet(Owed(s), Procs)
    BY OwedTypes
  <2>2. TypeInv' => /\ (Owed(s) \in [Procs -> Nat])'
                    /\ (SumFunction(Owed(s)) = SumFunctionOnSet(Owed(s), Procs))'
    BY OwedTypes, PTL
  <2>3. QED
    BY <2>1, <2>2
<1>2. \A q \in Procs : q # p => Owed(s)'[q] = Owed(s)[q]
  BY DEF Owed, Running
<1>3. /\ Owed(s)[p] \in Int /\ Owed(s)'[p] \in Int
      /\ \A q \in Procs \ {p} : Owed(s)[q] \in Int /\ Owed(s)'[q] = Owed(s)[q]
  BY <1>1, <1>2
<1>4. SumFunctionOnSet(Owed(s)', Procs)
        = SumFunctionOnSet(Owed(s), Procs) - Owed(s)[p] + Owed(s)'[p]
  BY <1>3, SumChange, IngestionAssumption
<1>5. QED
  BY <1>1, <1>4

(* Nothing is reported and no row is lost, and the command owes no more.   *)
LEMMA OwedLess ==
  ASSUME TypeInv, TypeInv', OwedInv, UNCHANGED reported,
         \A i \in AllIds : rows[i] # None => rows'[i] = rows[i],
         NEW p \in Procs, \A q \in Procs : q # p => command'[q] = command[q],
         \A s \in Sessions : Owed(s)'[p] <= Owed(s)[p]
  PROVE  OwedInv'
<1>. SUFFICES ASSUME NEW s \in Sessions
              PROVE  SumFunction(Told(s))' + SumFunction(Owed(s))' <= HistoryItems(s)'
  BY DEF OwedInv
<1>1. SumFunction(Told(s))' = SumFunction(Told(s)) /\ SumFunction(Told(s)) \in Nat
  BY ToldTypes DEF Told
<1>2. SumFunction(Owed(s))' = SumFunction(Owed(s)) - Owed(s)[p] + Owed(s)'[p]
  BY OwedMoves
<1>3. SumFunction(Owed(s)) \in Nat /\ Owed(s)[p] \in Nat
  BY OwedTypes
<1>4. Owed(s)'[p] \in Nat
  <2>1. (Owed(s) \in [Procs -> Nat])'
    <3>1. TypeInv' => (Owed(s) \in [Procs -> Nat])'
      BY OwedTypes, PTL
    <3>2. QED
      BY <3>1
  <2>2. QED
    BY <2>1
<1>5. HistoryItems(s) <= HistoryItems(s)' /\ HistoryItems(s) \in Nat /\ HistoryItems(s)' \in Nat
  <2>. DEFINE before == {i \in AllIds : Owned(s, i)}
              now == {i \in AllIds : Owned(s, i)'}
  <2>1. before \in SUBSET now
    BY DEF Owned
  <2>2. now \in SUBSET AllIds /\ before \in SUBSET AllIds
    OBVIOUS
  <2>3. HistoryItems(s) = Cardinality(before) /\ HistoryItems(s)' = Cardinality(now)
    BY DEF HistoryItems
  <2>. HIDE DEF before, now
  <2>4. QED
    BY <2>1, <2>2, <2>3, FS_Subset, FS_CardinalityType, IngestionAssumption
<1>6. SumFunction(Told(s)) + SumFunction(Owed(s)) <= HistoryItems(s)
  BY DEF OwedInv
<1>7. Owed(s)'[p] <= Owed(s)[p]
  OBVIOUS
<1>8. QED
  BY <1>1, <1>2, <1>3, <1>4, <1>5, <1>6, <1>7

(* A command that ends owes nothing.                                       *)
LEMMA OwedEnds ==
  ASSUME HistoryInv, HistoryInv', OwedInv, UNCHANGED <<rows, reported>>,
         NEW p \in Procs, command' = [command EXCEPT ![p] = None]
  PROVE  OwedInv'
<1>1. ~Running(p)' /\ \A q \in Procs : q # p => command'[q] = command[q]
  BY DEF HistoryInv, TypeInv, TypeOK, Running
<1>2. ASSUME NEW s \in Sessions PROVE Owed(s)'[p] <= Owed(s)[p]
  <2>1. Owed(s)'[p] = 0
    BY <1>1 DEF Owed
  <2>2. Owed(s)[p] \in Nat
    BY OwedTypes DEF HistoryInv
  <2>3. QED
    BY <2>1, <2>2
<1>3. QED
  BY <1>1, <1>2, OwedLess DEF HistoryInv

LEMMA OwedOpen ==
  ASSUME HistoryInv, HistoryInv', OwedInv,
         NEW p \in Procs, NEW s \in Sessions, NEW f \in Files, Open(p, s, f)
  PROVE  OwedInv'
<1>. DEFINE new == [session |-> s, file |-> f, next |-> 1, count |-> 0, step |-> "line",
                    id |-> None, stats |-> tokenStats[s]]
<1>1. command' = [command EXCEPT ![p] = new] /\ UNCHANGED <<rows, reported>>
  BY DEF Open, database
<1>2. new.step = "line" /\ new.count = 0
  OBVIOUS
<1>. HIDE DEF new
<1>3. command'[p] = new /\ \A q \in Procs : q # p => command'[q] = command[q]
  BY <1>1 DEF HistoryInv, TypeInv, TypeOK
<1>4. ASSUME NEW r \in Sessions PROVE Owed(r)'[p] <= Owed(r)[p]
  <2>1. Owed(r)'[p] = 0
    BY <1>2, <1>3 DEF Owed
  <2>2. Owed(r)[p] \in Nat
    BY OwedTypes DEF HistoryInv
  <2>3. QED
    BY <2>1, <2>2
<1>5. QED
  BY <1>1, <1>3, <1>4, OwedLess DEF HistoryInv

(* The statements after an insertion, and the lines that are no items.     *)
LEMMA OwedGoesOn ==
  ASSUME HistoryInv, HistoryInv', OwedInv, NEW p \in Procs,
         Skip(p) \/ AppendEvent(p) \/ Count(p)
  PROVE  OwedInv'
<1>1. /\ UNCHANGED <<rows, reported>> /\ Running(p) /\ command[p] \in Command
      /\ command[p] # None
  BY CommandTypes DEF Skip, AppendEvent, Count, AtLine, database, HistoryInv, TypeInv
<1>2. /\ command'[p].session = command[p].session
      /\ command'[p].count + (IF command'[p].step = "line" THEN 0 ELSE 1)
           = command[p].count + (IF command[p].step = "line" THEN 0 ELSE 1)
      /\ \A q \in Procs : q # p => command'[q] = command[q]
  <2>1. CASE Skip(p) \/ AppendEvent(p)
    <3>1. /\ command'[p].session = command[p].session
          /\ command'[p].count = command[p].count
          /\ command'[p].step = "line" <=> command[p].step = "line"
          /\ \A q \in Procs : q # p => command'[q] = command[q]
      <4>1. \/ command' = [command EXCEPT ![p].next = @ + 1]
            \/ /\ command[p].step = "event"
               /\ command' = [command EXCEPT ![p].step = "stat"]
        BY <2>1 DEF Skip, AppendEvent
      <4>2. QED
        BY <1>1, <4>1 DEF HistoryInv, TypeInv, TypeOK, Command
    <3>2. QED
      BY <3>1
  <2>2. CASE Count(p)
    <3>. DEFINE table == [command[p].stats EXCEPT ![LineOf(p).type] =
                            Updated(command[p].stats[LineOf(p).type], LineOf(p).tokens)]
    <3>1. /\ command[p].step = "stat"
          /\ command' = [command EXCEPT ![p] =
               [session |-> command[p].session, file |-> command[p].file,
                next |-> command[p].next + 1, count |-> command[p].count + 1,
                step |-> "line", id |-> None, stats |-> table]]
      BY <2>2 DEF Count
    <3>. HIDE DEF table
    <3>2. command[p].count \in Nat
      BY <1>1 DEF Command
    <3>3. QED
      BY <1>1, <3>1, <3>2 DEF HistoryInv, TypeInv, TypeOK
  <2>3. QED
    BY <2>1, <2>2
<1>3. ASSUME NEW s \in Sessions PROVE Owed(s)'[p] <= Owed(s)[p]
  <2>1. Owed(s)[p] \in Nat
    BY OwedTypes DEF HistoryInv
  <2>2. CASE command[p].session = s
    <3>1. Owed(s)[p] = command[p].count + (IF command[p].step = "line" THEN 0 ELSE 1)
      BY <1>1, <2>2 DEF Owed
    <3>2. Owed(s)'[p] = IF Running(p)' THEN command'[p].count + (IF command'[p].step = "line" THEN 0 ELSE 1)
                        ELSE 0
      BY <1>2, <2>2 DEF Owed
    <3>3. QED
      BY <1>2, <2>1, <3>1, <3>2
  <2>3. CASE command[p].session # s
    <3>1. Owed(s)'[p] = 0
      BY <1>2, <2>3 DEF Owed
    <3>2. QED
      BY <2>1, <3>1
  <2>4. QED
    BY <2>2, <2>3
<1>4. QED
  BY <1>1, <1>2, <1>3, OwedLess DEF HistoryInv

(* An inserted row is an item more in the history, and owed.               *)
LEMMA OwedInsert ==
  ASSUME HistoryInv, HistoryInv', OwedInv, NEW p \in Procs, NEW id \in AllIds, Insert(p, id)
  PROVE  OwedInv'
<1>. DEFINE row == [session |-> command[p].session, type |-> LineOf(p).type,
                    tokens |-> LineOf(p).tokens]
<1>1. /\ Running(p) /\ command[p].step = "line" /\ UNCHANGED reported
      /\ command[p] \in Command /\ command[p] # None
  BY CommandTypes DEF Insert, AtItem, AtLine, HistoryInv, TypeInv
<1>2. CASE rows[id] # None
  <2>1. rows' = rows /\ command' = [command EXCEPT ![p] = None]
    BY <1>2 DEF Insert, Stored
  <2>2. QED
    BY <1>1, <2>1, OwedEnds
<1>3. CASE rows[id] = None
  <2>1. /\ command' = [command EXCEPT ![p] = [@ EXCEPT !.step = "event", !.id = id]]
        /\ rows' = [rows EXCEPT ![id] = row]
    BY <1>3 DEF Insert, Stored
  <2>2. /\ command'[p].session = command[p].session /\ command'[p].step = "event"
        /\ command'[p].count = command[p].count
        /\ \A q \in Procs : q # p => command'[q] = command[q]
    BY <1>1, <2>1 DEF HistoryInv, TypeInv, TypeOK, Command
  <2>3. row.session = command[p].session /\ row \in Row
    BY <1>1, CommandTypes, LineTypes DEF Insert, AtItem, HistoryInv, TypeInv, LineOf, Row
  <2>4. row # None
    <3>. HIDE DEF row
    <3>1. QED
      BY <2>3, IngestionAssumption
  <2>. HIDE DEF row
  <2>5. /\ rows'[id] = row
        /\ \A i \in AllIds : i # id => rows'[i] = rows[i]
    BY <2>1 DEF HistoryInv, TypeInv, TypeOK
  <2>6. SUFFICES ASSUME NEW s \in Sessions
                 PROVE  SumFunction(Told(s))' + SumFunction(Owed(s))' <= HistoryItems(s)'
    BY DEF OwedInv
  <2>. DEFINE before == {i \in AllIds : Owned(s, i)}
              now == {i \in AllIds : Owned(s, i)'}
              more == IF command[p].session = s THEN 1 ELSE 0
  <2>7. SumFunction(Told(s))' = SumFunction(Told(s)) /\ SumFunction(Told(s)) \in Nat
    BY <1>1, ToldTypes DEF Told, HistoryInv
  <2>8. SumFunction(Owed(s))' = SumFunction(Owed(s)) - Owed(s)[p] + Owed(s)'[p]
    BY <2>2, OwedMoves DEF HistoryInv
  <2>9. SumFunction(Owed(s)) \in Nat /\ Owed(s)[p] \in Nat
    BY OwedTypes DEF HistoryInv
  <2>10. Owed(s)'[p] = Owed(s)[p] + more
    <3>1. Running(p)'
      <4>1. HistoryInv' => command'[p] \in Command \union {None}
        BY DEF HistoryInv, TypeInv, TypeOK
      <4>2. command'[p] = [command[p] EXCEPT !.step = "event", !.id = id]
        BY <1>1, <2>1 DEF HistoryInv, TypeInv, TypeOK
      <4>3. command'[p] \in Command
        BY <1>1, <4>2 DEF Command
      <4>4. QED
        BY <4>3, IngestionAssumption DEF Running
    <3>2. command[p].count \in Nat
      BY <1>1 DEF Command
    <3>3. Owed(s)[p] = IF command[p].session = s THEN command[p].count ELSE 0
      BY <1>1, <3>2 DEF Owed
    <3>4. Owed(s)'[p] = IF command[p].session = s THEN command[p].count + 1 ELSE 0
      BY <2>2, <3>1 DEF Owed
    <3>5. QED
      BY <3>2, <3>3, <3>4
  <2>11. HistoryItems(s)' = HistoryItems(s) + more /\ HistoryItems(s) \in Nat
    <3>1. HistoryItems(s) = Cardinality(before) /\ HistoryItems(s)' = Cardinality(now)
      BY DEF HistoryItems
    <3>2. IsFiniteSet(before) /\ HistoryItems(s) \in Nat
      BY HistoryFinite
    <3>3. id \notin before
      BY <1>3 DEF Owned
    <3>4. CASE command[p].session = s
      <4>1. now = before \union {id}
        BY <2>3, <2>4, <2>5, <3>4 DEF Owned
      <4>. HIDE DEF before, now
      <4>2. Cardinality(now) = Cardinality(before) + 1
        BY <3>2, <3>3, <4>1, FS_AddElement
      <4>3. QED
        BY <3>1, <3>2, <3>4, <4>2
    <3>5. CASE command[p].session # s
      <4>1. now = before
        BY <1>3, <2>3, <2>4, <2>5, <3>5 DEF Owned
      <4>. HIDE DEF before, now
      <4>2. QED
        BY <3>1, <3>2, <3>5, <4>1
    <3>6. QED
      BY <3>4, <3>5
  <2>12. SumFunction(Told(s)) + SumFunction(Owed(s)) <= HistoryItems(s)
    BY DEF OwedInv
  <2>13. more \in Nat
    OBVIOUS
  <2>. HIDE DEF more
  <2>14. QED
    BY <2>7, <2>8, <2>9, <2>10, <2>11, <2>12, <2>13
<1>4. QED
  BY <1>2, <1>3

(* A command reports as many items as its file has lines with one.         *)
LEMMA OwedReport ==
  ASSUME HistoryInv, HistoryInv', OwedInv, NEW p \in Procs, Report(p)
  PROVE  OwedInv'
<1>1. /\ Running(p) /\ command[p].session \in Sessions /\ command[p].file \in Files
      /\ command[p].next \in Nat /\ command[p].step = "line"
  BY CommandTypes DEF Report, AtLine, HistoryInv, TypeInv
<1>. PICK s \in Sessions, f \in Files : s = command[p].session /\ f = command[p].file
  BY <1>1
<1>2. /\ command[p].next > Len(f) /\ rows' = rows
      /\ reported' = [reported EXCEPT ![s][f] = @ + 1]
      /\ command' = [command EXCEPT ![p] = None]
  BY DEF Report, AtLine, database
<1>3. ~Running(p)' /\ \A q \in Procs : q # p => command'[q] = command[q]
  BY <1>2 DEF HistoryInv, TypeInv, TypeOK, Running
<1>. DEFINE items == Cardinality(ItemLines(f))
<1>4. items \in Nat
  BY ItemLinesFinite
<1>5. command[p].count = items
  <2>1. \A n \in ItemLines(f) : n < command[p].next
    BY <1>1, <1>2, LineTypes DEF ItemLines
  <2>2. Passed(f, command[p].next) = ItemLines(f)
    BY <2>1 DEF Passed
  <2>3. QED
    BY <1>1, <2>2 DEF HistoryInv, AllStored, ItemsStored
<1>. SUFFICES ASSUME NEW r \in Sessions
              PROVE  SumFunction(Told(r))' + SumFunction(Owed(r))' <= HistoryItems(r)'
  BY DEF OwedInv
<1>. DEFINE more == IF r = s THEN items ELSE 0
<1>6. SumFunction(Owed(r))' = SumFunction(Owed(r)) - Owed(r)[p] + Owed(r)'[p]
  BY <1>3, OwedMoves DEF HistoryInv
<1>7. Owed(r)'[p] = 0 /\ Owed(r)[p] = more
  BY <1>1, <1>3, <1>4, <1>5 DEF Owed
<1>8. SumFunction(Owed(r)) \in Nat /\ SumFunction(Told(r)) \in Nat
  BY OwedTypes, ToldTypes DEF HistoryInv
<1>9. SumFunction(Told(r))' = SumFunction(Told(r)) + more
  <2>1. CASE r # s
    <3>1. Told(r)' = Told(r)
      BY <1>2, <2>1 DEF Told, HistoryInv, TypeInv, TypeOK
    <3>2. QED
      BY <1>8, <2>1, <3>1
  <2>2. CASE r = s
    <3>1. /\ Told(s) \in [Files -> Nat]
          /\ SumFunction(Told(s)) = SumFunctionOnSet(Told(s), Files)
      BY ToldTypes DEF HistoryInv
    <3>2. DOMAIN Told(s)' = Files
      BY DEF Told
    <3>3. SumFunction(Told(s))' = SumFunctionOnSet(Told(s)', Files)
      BY <3>2 DEF SumFunction
    <3>4. reported \in [Sessions -> [Files -> Nat]]
      BY DEF HistoryInv, TypeInv, TypeOK
    <3>5. Told(s)'[f] = Told(s)[f] + items
      <4>1. Told(s)'[f] = (reported[s][f] + 1) * items /\ Told(s)[f] = reported[s][f] * items
        BY <1>2, <3>4 DEF Told
      <4>2. reported[s][f] \in Nat
        BY <3>4
      <4>. HIDE DEF items
      <4>3. QED
        BY <1>4, <4>1, <4>2
    <3>6. \A g \in Files \ {f} : Told(s)'[g] = Told(s)[g]
      BY <1>2, <3>4 DEF Told
    <3>. HIDE DEF items
    <3>7. /\ Told(s)[f] \in Int /\ Told(s)'[f] \in Int
          /\ \A g \in Files \ {f} : Told(s)[g] \in Int /\ Told(s)'[g] = Told(s)[g]
      BY <1>4, <3>1, <3>5, <3>6
    <3>8. SumFunctionOnSet(Told(s)', Files)
            = SumFunctionOnSet(Told(s), Files) - Told(s)[f] + Told(s)'[f]
      BY <3>7, SumChange, IngestionAssumption
    <3>9. SumFunctionOnSet(Told(s), Files) \in Nat /\ Told(s)[f] \in Nat
      BY <1>8, <2>2, <3>1
    <3>10. QED
      BY <1>4, <2>2, <3>1, <3>3, <3>5, <3>8, <3>9
  <2>3. QED
    BY <2>1, <2>2
<1>10. HistoryItems(r)' = HistoryItems(r) /\ HistoryItems(r) \in Nat
  BY <1>2, HistoryFinite DEF HistoryItems, Owned
<1>11. SumFunction(Told(r)) + SumFunction(Owed(r)) <= HistoryItems(r)
  BY DEF OwedInv
<1>12. more \in Nat
  BY <1>4
<1>. HIDE DEF more
<1>13. QED
  BY <1>6, <1>7, <1>8, <1>9, <1>10, <1>11, <1>12

LEMMA InitOwed == Init => OwedInv
<1>. SUFFICES ASSUME Init, NEW s \in Sessions
              PROVE  SumFunction(Told(s)) + SumFunction(Owed(s)) <= HistoryItems(s)
  BY DEF OwedInv
<1>1. TypeInv
  BY InitType
<1>2. \A f \in Files : Told(s)[f] = 0
  <2>1. \A f \in Files : reported[s][f] = 0 /\ Cardinality(ItemLines(f)) \in Nat
    BY ItemLinesFinite DEF Init
  <2>2. \A x \in Nat : 0 * x = 0
    OBVIOUS
  <2>3. QED
    BY <2>1, <2>2 DEF Told
<1>3. \A p \in Procs : Owed(s)[p] = 0
  BY DEF Init, Owed, Running
<1>4. SumFunctionOnSet(Told(s), Files) = 0 /\ SumFunctionOnSet(Owed(s), Procs) = 0
  BY <1>2, <1>3, SumZero, IngestionAssumption
<1>5. SumFunction(Told(s)) = 0 /\ SumFunction(Owed(s)) = 0
  BY <1>1, <1>4, ToldTypes, OwedTypes
<1>6. HistoryItems(s) \in Nat
  BY HistoryFinite
<1>7. QED
  BY <1>5, <1>6

LEMMA NextOwed == HistoryInv /\ OwedInv /\ [Next]_vars => OwedInv'
<1>. SUFFICES ASSUME HistoryInv, OwedInv, [Next]_vars PROVE OwedInv'
  OBVIOUS
<1>1. HistoryInv'
  BY NextHistory
<1>2. CASE UNCHANGED vars
  <2>1. UNCHANGED <<rows, reported, command>>
    BY <1>2 DEF vars, database
  <2>2. ASSUME NEW s \in Sessions
        PROVE  /\ Told(s)' = Told(s) /\ Owed(s)' = Owed(s)
               /\ HistoryItems(s)' = HistoryItems(s)
    BY <2>1 DEF Told, Owed, Running, HistoryItems, Owned
  <2>3. QED
    BY <2>2 DEF OwedInv
<1>3. ASSUME NEW p \in Procs, Reject(p) \/ Stop(p) PROVE OwedInv'
  <2>1. UNCHANGED <<rows, reported>> /\ command' = [command EXCEPT ![p] = None]
    BY <1>3 DEF Reject, Stop, database
  <2>2. QED
    BY <1>1, <2>1, OwedEnds
<1>4. CASE Next
  BY <1>1, <1>3, <1>4, OwedOpen, OwedGoesOn, OwedInsert, OwedReport DEF Next
<1>5. QED
  BY <1>2, <1>4

(* What has been reported for a session, and counted by a command that     *)
(* runs, is in its history, whatever is stopped, refused or run again.     *)
THEOREM HistoryAlwaysHoldsReports == Spec => []HistoryHoldsReports
<1>1. ASSUME HistoryInv, OwedInv PROVE HistoryHoldsReports
  <2>. SUFFICES ASSUME NEW s \in Sessions
                PROVE  SumFunction([f \in Files |-> reported[s][f] * Cardinality(ItemLines(f))])
                       + SumFunction([p \in {q \in Procs : Running(q) /\ command[q].session = s} |->
                                        command[p].count])
                       <= HistoryItems(s)
    BY DEF HistoryHoldsReports
  <2>. DEFINE active == {q \in Procs : Running(q) /\ command[q].session = s}
              counts == [p \in active |-> command[p].count]
  <2>1. active \in SUBSET Procs /\ IsFiniteSet(Procs) /\ DOMAIN counts = active
    BY IngestionAssumption
  <2>2. \A p \in active : /\ counts[p] \in Int /\ Owed(s)[p] \in Int
                          /\ counts[p] <= Owed(s)[p] /\ counts[p] \in Nat
    <3> TAKE p \in active
    <3>1. command[p].count \in Nat
      BY <1>1, CommandTypes DEF HistoryInv, TypeInv, Command
    <3>2. Owed(s)[p] = command[p].count + (IF command[p].step = "line" THEN 0 ELSE 1)
      BY DEF Owed
    <3>3. QED
      BY <3>1, <3>2
  <2>3. Owed(s) \in [Procs -> Nat] /\ SumFunction(Owed(s)) = SumFunctionOnSet(Owed(s), Procs)
    BY <1>1, OwedTypes DEF HistoryInv
  <2>4. SumFunction(counts) = SumFunctionOnSet(counts, active)
    BY <2>1 DEF SumFunction
  <2>. HIDE DEF active, counts
  <2>5. IsFiniteSet(active)
    BY <2>1, FS_Subset
  <2>6. SumFunctionOnSet(counts, active) <= SumFunctionOnSet(Owed(s), active)
    BY <2>2, <2>5, SumMonotone
  <2>7. SumFunctionOnSet(Owed(s), active) <= SumFunctionOnSet(Owed(s), Procs)
    BY <2>1, <2>3, SumSubset
  <2>8. /\ SumFunctionOnSet(counts, active) \in Nat
        /\ SumFunctionOnSet(Owed(s), active) \in Nat
    <3>1. \A p \in active : Owed(s)[p] \in Nat /\ counts[p] \in Nat
      BY <2>1, <2>2, <2>3
    <3>2. QED
      BY <2>5, <3>1, SumNat
  <2>9. SumFunction(Told(s)) + SumFunction(Owed(s)) <= HistoryItems(s)
    BY <1>1 DEF OwedInv
  <2>10. SumFunction(Told(s)) \in Nat /\ SumFunction(Owed(s)) \in Nat /\ HistoryItems(s) \in Nat
    BY <1>1, ToldTypes, OwedTypes, HistoryFinite DEF HistoryInv
  <2>11. SumFunction(Told(s)) + SumFunction(counts) <= HistoryItems(s)
    BY <2>3, <2>4, <2>6, <2>7, <2>8, <2>9, <2>10
  <2>12. QED
    BY <2>11 DEF Told, counts, active
<1>2. Init => HistoryInv /\ OwedInv
  BY InitHistory, InitOwed
<1>3. HistoryInv /\ OwedInv /\ [Next]_vars => HistoryInv' /\ OwedInv'
  BY NextHistory, NextOwed
<1>4. QED
  BY <1>1, <1>2, <1>3, PTL DEF Spec

-----------------------------------------------------------------------------
(* Averages.                                                               *)

LEMMA MonotoneProduct ==
  ASSUME NEW x \in Nat, NEW y \in Nat, NEW w \in Nat, x <= y
  PROVE  w * x <= w * y /\ w * x \in Nat /\ w * y \in Nat
  OBVIOUS

LEMMA DivisionBetween ==
  ASSUME NEW n \in Nat, NEW w \in Nat \ {0}, NEW low \in Nat, NEW high \in Nat,
         w * low <= n, n <= w * high
  PROVE  low <= n \div w /\ n \div w <= high
<1>. DEFINE q == n \div w
<1>1. q \in Nat /\ w * q <= n /\ n < w * q + w
  OBVIOUS
<1>. HIDE DEF q
<1>2. low <= q
  <2>1. SUFFICES ASSUME q + 1 <= low PROVE FALSE
    BY <1>1
  <2>2. w * (q + 1) <= w * low /\ w * (q + 1) = w * q + w
    BY <1>1, <2>1, MonotoneProduct
  <2>3. w * (q + 1) \in Nat /\ w * low \in Nat /\ w * q \in Nat
    BY <1>1
  <2>4. QED
    BY <1>1, <2>2, <2>3
<1>3. q <= high
  <2>1. SUFFICES ASSUME high + 1 <= q PROVE FALSE
    BY <1>1
  <2>2. w * (high + 1) <= w * q /\ w * (high + 1) = w * high + w
    BY <1>1, <2>1, MonotoneProduct
  <2>3. w * (high + 1) \in Nat /\ w * high \in Nat /\ w * q \in Nat
    BY <1>1
  <2>4. QED
    BY <1>1, <2>2, <2>3
<1>4. QED
  BY <1>2, <1>3 DEF q

(* An average that is updated with a value stays between bounds of both.   *)
LEMMA EmaBetween ==
  ASSUME NEW old \in Nat, NEW tokens \in Nat, NEW low \in Nat, NEW high \in Nat,
         low <= old, old <= high, low <= tokens * Scale, tokens * Scale <= high
  PROVE  low <= UpdateEma(old, tokens) /\ UpdateEma(old, tokens) <= high
<1>. DEFINE value == tokens * Scale
            rest == AlphaWhole - AlphaParts
            n == AlphaParts * value + rest * old
<1>1. AlphaParts \in Nat /\ rest \in Nat /\ AlphaWhole \in Nat \ {0} /\ Scale \in Nat
  BY IngestionAssumption
<1>2. value \in Nat /\ AlphaParts + rest = AlphaWhole
  BY <1>1
<1>3. UpdateEma(old, tokens) = n \div AlphaWhole
  BY <1>1 DEF UpdateEma
<1>. HIDE DEF value, rest
<1>4. /\ AlphaParts * low <= AlphaParts * value /\ AlphaParts * value <= AlphaParts * high
      /\ rest * low <= rest * old /\ rest * old <= rest * high
  BY <1>1, <1>2, MonotoneProduct DEF value
<1>5. /\ AlphaParts * low + rest * low = AlphaWhole * low
      /\ AlphaParts * high + rest * high = AlphaWhole * high
  BY <1>1, <1>2
<1>6. /\ AlphaParts * low \in Nat /\ AlphaParts * value \in Nat /\ AlphaParts * high \in Nat
      /\ rest * low \in Nat /\ rest * old \in Nat /\ rest * high \in Nat
  BY <1>1, <1>2
<1>7. n \in Nat /\ AlphaWhole * low <= n /\ n <= AlphaWhole * high
  BY <1>4, <1>5, <1>6
<1>. HIDE DEF n
<1>8. QED
  BY <1>1, <1>3, <1>7, DivisionBetween

(* A statistic is within a history if it is the average of events in it,   *)
(* and counts no more of them than there are but a number of them.         *)
Within(s, t, stat, uncounted) ==
  /\ stat.count + uncounted <= Cardinality(History(s, t))
  /\ stat.count > 0 => \E i, j \in History(s, t) :
       rows[i].tokens * Scale <= stat.ema /\ stat.ema <= rows[j].tokens * Scale

LEMMA HistoryTypes ==
  ASSUME HistoryInv, NEW s \in Sessions, NEW t \in EventTypes
  PROVE  /\ IsFiniteSet(History(s, t)) /\ Cardinality(History(s, t)) \in Nat
         /\ \A i \in History(s, t) : i \in AllIds /\ rows[i] # None /\ rows[i].tokens \in Nat
<1>1. History(s, t) \in SUBSET AllIds
  BY DEF History
<1>2. ASSUME NEW i \in History(s, t) PROVE rows[i] # None /\ rows[i].tokens \in Nat
  <2>1. i \in AllIds /\ added[s][i] > 0
    BY DEF History
  <2>2. rows[i] # None
    BY <2>1 DEF HistoryInv, EventsOwned, Owned
  <2>3. rows[i] \in Row
    BY <2>1, <2>2 DEF HistoryInv, TypeInv, TypeOK
  <2>4. QED
    BY <2>2, <2>3 DEF Row
<1>3. QED
  BY <1>1, <1>2, FS_Subset, FS_CardinalityType, IngestionAssumption

(* One event more is averaged.                                             *)
LEMMA UpdatedWithin ==
  ASSUME HistoryInv, NEW s \in Sessions, NEW t \in EventTypes, NEW stat \in Stat,
         NEW tokens \in Nat, Within(s, t, stat, 1),
         NEW i \in History(s, t), rows[i].tokens = tokens
  PROVE  Within(s, t, Updated(stat, tokens), 0)
<1>. DEFINE value == tokens * Scale
            old == IF stat.count = 0 THEN value ELSE stat.ema
            new == Updated(stat, tokens)
<1>1. Scale \in Nat /\ value \in Nat /\ stat.count \in Nat /\ stat.ema \in Nat
  BY IngestionAssumption DEF Stat
<1>2. new.ema = UpdateEma(old, tokens) /\ new.count = stat.count + 1 /\ old \in Nat
  BY <1>1 DEF Updated
<1>3. PICK low \in History(s, t), high \in History(s, t) :
        /\ rows[low].tokens * Scale <= old /\ old <= rows[high].tokens * Scale
  BY <1>1 DEF Within
<1>4. rows[low].tokens * Scale \in Nat /\ rows[high].tokens * Scale \in Nat
  BY <1>1, HistoryTypes
<1>. HIDE DEF old, value
<1>5. PICK least \in History(s, t) :
        rows[least].tokens * Scale <= old /\ rows[least].tokens * Scale <= value
  <2>1. CASE rows[low].tokens * Scale <= value
    BY <1>3, <2>1
  <2>2. CASE value < rows[low].tokens * Scale
    BY <1>1, <1>2, <1>3, <1>4, <2>2 DEF value
  <2>3. QED
    BY <1>1, <1>4, <2>1, <2>2
<1>6. PICK most \in History(s, t) :
        rows[most].tokens * Scale >= old /\ rows[most].tokens * Scale >= value
  <2>1. CASE rows[high].tokens * Scale >= value
    BY <1>1, <1>2, <1>3, <1>4, <2>1
  <2>2. CASE value > rows[high].tokens * Scale
    BY <1>1, <1>2, <1>3, <1>4, <2>2 DEF value
  <2>3. QED
    BY <1>1, <1>4, <2>1, <2>2
<1>7. rows[least].tokens * Scale \in Nat /\ rows[most].tokens * Scale \in Nat
  BY <1>1, HistoryTypes
<1>8. rows[least].tokens * Scale <= new.ema /\ new.ema <= rows[most].tokens * Scale
  <2>. DEFINE lower == rows[least].tokens * Scale
              upper == rows[most].tokens * Scale
  <2>1. /\ lower \in Nat /\ upper \in Nat /\ lower <= old /\ old <= upper
        /\ lower <= tokens * Scale /\ tokens * Scale <= upper
    BY <1>1, <1>2, <1>5, <1>6, <1>7 DEF value
  <2>. HIDE DEF lower, upper, new
  <2>2. lower <= UpdateEma(old, tokens) /\ UpdateEma(old, tokens) <= upper
    BY <1>2, <2>1, EmaBetween
  <2>3. QED
    BY <1>2, <2>2 DEF lower, upper
<1>9. new.count + 0 <= Cardinality(History(s, t))
  <2>1. stat.count + 1 <= Cardinality(History(s, t)) /\ Cardinality(History(s, t)) \in Nat
    BY HistoryTypes DEF Within
  <2>2. QED
    BY <1>1, <1>2, <2>1
<1>10. QED
  BY <1>8, <1>9 DEF Within

(* The averages of every session, and those a command has in memory, are   *)
(* within the history of the session; a command that has written its event *)
(* has that event still to count, and the row of its item is that item's.  *)
StoredWithin ==
  \A s \in Sessions, t \in EventTypes : Within(s, t, tokenStats[s][t], 0)

Uncounted(p, t) == IF command[p].step = "stat" /\ LineOf(p).type = t THEN 1 ELSE 0

StatsWithin(p) ==
  \A s \in Sessions, t \in EventTypes :
    s = command[p].session => Within(s, t, command[p].stats[t], Uncounted(p, t))

RowOfItem(p) ==
  command[p].step # "line" =>
    rows[command[p].id] = [session |-> command[p].session, type |-> LineOf(p).type,
                           tokens |-> LineOf(p).tokens]

AverageInv ==
  StoredWithin /\ \A p \in Procs : Running(p) => StatsWithin(p) /\ RowOfItem(p)

LEMMA HistoryFiniteNext ==
  ASSUME NEW s \in Sessions, NEW t \in EventTypes
  PROVE  HistoryInv' => (IsFiniteSet(History(s, t)) /\ Cardinality(History(s, t)) \in Nat)'
<1>1. HistoryInv => IsFiniteSet(History(s, t)) /\ Cardinality(History(s, t)) \in Nat
  BY HistoryTypes
<1>2. QED
  BY <1>1, PTL

(* Histories only grow.                                                    *)
LEMMA HistoryGrows ==
  ASSUME HistoryInv, [Next]_vars, NEW s \in Sessions, NEW t \in EventTypes
  PROVE  /\ \A i \in History(s, t) : i \in History(s, t)' /\ rows'[i] = rows[i]
         /\ Cardinality(History(s, t)) <= Cardinality(History(s, t)')
         /\ Cardinality(History(s, t)) \in Nat /\ Cardinality(History(s, t)') \in Nat
         /\ IsFiniteSet(History(s, t))
<1>1. HistoryInv'
  BY NextHistory
<1>2. \A i \in AllIds : rows[i] # None => rows'[i] = rows[i]
  BY NextType DEF HistoryInv
<1>3. \A i \in AllIds : added[s][i] > 0 => added'[s][i] > 0
  <2>1. ASSUME NEW p \in Procs, AppendEvent(p)
        PROVE  \A i \in AllIds : added[s][i] > 0 => added'[s][i] > 0
    <3>1. /\ added' = [added EXCEPT ![command[p].session][command[p].id] = @ + 1]
          /\ command[p].session \in Sessions /\ command[p].id \in AllIds
      BY <2>1, CommandTypes DEF AppendEvent, HistoryInv, TypeInv, AtItsItem
    <3>2. QED
      BY <3>1 DEF HistoryInv, TypeInv, TypeOK
  <2>2. UNCHANGED added \/ \E p \in Procs : AppendEvent(p)
    BY DEF Next, vars, database, Open, Skip, Reject, Insert, Count, Report, Stop
  <2>3. QED
    BY <2>1, <2>2
<1>4. \A i \in History(s, t) : i \in AllIds /\ rows[i] # None
  BY HistoryTypes
<1>5. \A i \in History(s, t) : i \in History(s, t)' /\ rows'[i] = rows[i]
  BY <1>2, <1>3, <1>4 DEF History
<1>6. IsFiniteSet(History(s, t)') /\ Cardinality(History(s, t)') \in Nat
  BY <1>1, HistoryFiniteNext
<1>7. Cardinality(History(s, t)) <= Cardinality(History(s, t)')
  BY <1>1, <1>5, <1>6, FS_Subset
<1>8. QED
  BY <1>1, <1>5, <1>6, <1>7, HistoryTypes

(* What a step leaves alone stays within a history that grows.             *)
LEMMA StoredStays ==
  ASSUME HistoryInv, AverageInv, [Next]_vars, NEW s \in Sessions, NEW t \in EventTypes,
         tokenStats'[s][t] = tokenStats[s][t]
  PROVE  Within(s, t, tokenStats[s][t], 0)'
<1>1. Within(s, t, tokenStats[s][t], 0)
  BY DEF AverageInv, StoredWithin
<1>2. tokenStats[s][t].count \in Nat
  BY DEF HistoryInv, TypeInv, TypeOK, Stat
<1>3. QED
  BY <1>1, <1>2, HistoryGrows DEF Within

LEMMA OthersWithin ==
  ASSUME HistoryInv, AverageInv, [Next]_vars, NEW q \in Procs, Running(q),
         command'[q] = command[q]
  PROVE  StatsWithin(q)' /\ RowOfItem(q)'
<1>1. StatsWithin(q) /\ RowOfItem(q)
  BY DEF AverageInv
<1>2. command[q] \in Command /\ LineOf(q)' = LineOf(q)
  BY CommandTypes DEF HistoryInv, TypeInv, LineOf
<1>3. ASSUME NEW s \in Sessions, NEW t \in EventTypes, s = command[q].session
      PROVE  Within(s, t, command[q].stats[t], Uncounted(q, t))'
  <2>1. Within(s, t, command[q].stats[t], Uncounted(q, t))
    BY <1>1, <1>3 DEF StatsWithin
  <2>2. command[q].stats[t].count \in Nat /\ Uncounted(q, t) \in Nat
    BY <1>2 DEF Command, Stat, Uncounted
  <2>3. Uncounted(q, t)' = Uncounted(q, t)
    BY <1>2 DEF Uncounted
  <2>4. QED
    BY <2>1, <2>2, <2>3, HistoryGrows DEF Within
<1>4. RowOfItem(q)'
  <2>1. command[q].step # "line" => command[q].id \in AllIds /\ rows[command[q].id] # None
    BY DEF HistoryInv, TypeInv, AtItsItem, Owned
  <2>2. \A i \in AllIds : rows[i] # None => rows'[i] = rows[i]
    BY NextType DEF HistoryInv
  <2>3. QED
    BY <1>1, <1>2, <2>1, <2>2 DEF RowOfItem
<1>5. QED
  BY <1>3, <1>4 DEF StatsWithin

(* A step that changes one command and no statistics.                      *)
LEMMA OneCommandWithin ==
  ASSUME HistoryInv, AverageInv, [Next]_vars, NEW p \in Procs, UNCHANGED tokenStats,
         \A q \in Procs : q # p => command'[q] = command[q],
         Running(p)' => StatsWithin(p)' /\ RowOfItem(p)'
  PROVE  AverageInv'
<1>1. StoredWithin'
  BY StoredStays DEF StoredWithin
<1>2. \A q \in Procs : q # p /\ Running(q)' => StatsWithin(q)' /\ RowOfItem(q)'
  BY OthersWithin DEF Running
<1>3. QED
  BY <1>1, <1>2 DEF AverageInv

LEMMA OpenWithin ==
  ASSUME HistoryInv, AverageInv, [Next]_vars, NEW p \in Procs, NEW r \in Sessions,
         NEW f \in Files, Open(p, r, f)
  PROVE  AverageInv'
<1>1. /\ command' = [command EXCEPT ![p] =
             [session |-> r, file |-> f, next |-> 1, count |-> 0, step |-> "line",
              id |-> None, stats |-> tokenStats[r]]]
      /\ UNCHANGED tokenStats
  BY DEF Open, database
<1>2. /\ command'[p].step = "line" /\ command'[p].stats = tokenStats[r]
      /\ command'[p].session = r /\ \A q \in Procs : q # p => command'[q] = command[q]
  BY <1>1 DEF HistoryInv, TypeInv, TypeOK
<1>3. StatsWithin(p)'
  <2>1. ASSUME NEW t \in EventTypes
        PROVE  Within(r, t, command[p].stats[t], Uncounted(p, t))'
    <3>1. Within(r, t, tokenStats[r][t], 0)'
      BY <1>1, StoredStays
    <3>2. Uncounted(p, t)' = 0
      BY <1>2 DEF Uncounted
    <3>3. QED
      BY <1>1, <1>2, <3>1, <3>2 DEF Within
  <2>2. QED
    BY <1>2, <2>1 DEF StatsWithin
<1>4. RowOfItem(p)'
  BY <1>2 DEF RowOfItem
<1>5. QED
  BY <1>1, <1>2, <1>3, <1>4, OneCommandWithin

(* A command that goes on to a step in which no event is uncounted.        *)
LEMMA StatsStay ==
  ASSUME HistoryInv, AverageInv, [Next]_vars, NEW p \in Procs, Running(p),
         command[p].step # "stat", command'[p].step # "stat",
         command'[p].session = command[p].session, command'[p].stats = command[p].stats
  PROVE  StatsWithin(p)'
<1>1. command[p] \in Command
  BY CommandTypes DEF HistoryInv, TypeInv
<1>2. ASSUME NEW s \in Sessions, NEW t \in EventTypes, s = command[p].session
      PROVE  Within(s, t, command[p].stats[t], Uncounted(p, t))'
  <2>1. Within(s, t, command[p].stats[t], Uncounted(p, t))
    BY <1>2 DEF AverageInv, StatsWithin
  <2>2. command[p].stats[t].count \in Nat /\ Uncounted(p, t) = 0 /\ Uncounted(p, t)' = 0
    BY <1>1 DEF Command, Stat, Uncounted
  <2>3. QED
    BY <2>1, <2>2, HistoryGrows DEF Within
<1>3. QED
  BY <1>2 DEF StatsWithin

LEMMA SkipWithin ==
  ASSUME HistoryInv, AverageInv, [Next]_vars, NEW p \in Procs, Skip(p)
  PROVE  AverageInv'
<1>1. /\ Running(p) /\ command[p].step = "line" /\ UNCHANGED tokenStats
      /\ command' = [command EXCEPT ![p].next = @ + 1]
  BY DEF Skip, AtLine, database
<1>2. /\ command'[p].step = "line" /\ command'[p].stats = command[p].stats
      /\ command'[p].session = command[p].session
      /\ \A q \in Procs : q # p => command'[q] = command[q]
  BY <1>1, CommandTypes DEF HistoryInv, TypeInv, TypeOK, Command
<1>3. QED
  BY <1>1, <1>2, StatsStay, OneCommandWithin DEF RowOfItem

LEMMA InsertWithin ==
  ASSUME HistoryInv, AverageInv, [Next]_vars, NEW p \in Procs, NEW id \in AllIds,
         Insert(p, id)
  PROVE  AverageInv'
<1>. DEFINE row == [session |-> command[p].session, type |-> LineOf(p).type,
                    tokens |-> LineOf(p).tokens]
<1>1. Running(p) /\ command[p].step = "line" /\ UNCHANGED tokenStats
  BY DEF Insert, AtItem, AtLine
<1>2. CASE rows[id] # None
  <2>1. command' = [command EXCEPT ![p] = None]
    BY <1>2 DEF Insert, Stored
  <2>2. ~Running(p)' /\ \A q \in Procs : q # p => command'[q] = command[q]
    BY <2>1 DEF HistoryInv, TypeInv, TypeOK, Running
  <2>3. QED
    BY <1>1, <2>2, OneCommandWithin
<1>3. CASE rows[id] = None
  <2>1. /\ command' = [command EXCEPT ![p] = [@ EXCEPT !.step = "event", !.id = id]]
        /\ rows' = [rows EXCEPT ![id] = row]
    BY <1>3 DEF Insert, Stored
  <2>. HIDE DEF row
  <2>2. /\ command'[p].step = "event" /\ command'[p].id = id
        /\ command'[p].session = command[p].session /\ command'[p].file = command[p].file
        /\ command'[p].next = command[p].next /\ command'[p].stats = command[p].stats
        /\ \A q \in Procs : q # p => command'[q] = command[q]
    BY <1>1, <2>1, CommandTypes DEF HistoryInv, TypeInv, TypeOK, Command
  <2>3. StatsWithin(p)'
    BY <1>1, <2>2, StatsStay
  <2>4. RowOfItem(p)'
    <3>1. rows'[id] = row /\ LineOf(p)' = LineOf(p)
      BY <2>1, <2>2 DEF HistoryInv, TypeInv, TypeOK, LineOf
    <3>2. QED
      BY <2>2, <3>1 DEF RowOfItem, row
  <2>5. QED
    BY <1>1, <2>2, <2>3, <2>4, OneCommandWithin
<1>4. QED
  BY <1>2, <1>3

(* The event a command writes joins the history it is still to be counted  *)
(* in.                                                                     *)
LEMMA AppendEventWithin ==
  ASSUME HistoryInv, AverageInv, [Next]_vars, NEW p \in Procs, AppendEvent(p)
  PROVE  AverageInv'
<1>1. /\ Running(p) /\ command[p].step = "event" /\ UNCHANGED <<rows, tokenStats>>
      /\ added' = [added EXCEPT ![command[p].session][command[p].id] = @ + 1]
      /\ command' = [command EXCEPT ![p].step = "stat"]
  BY DEF AppendEvent
<1>2. /\ command[p] \in Command /\ command[p].session \in Sessions /\ command[p].id \in AllIds
  BY <1>1, CommandTypes DEF HistoryInv, TypeInv, AtItsItem
<1>3. /\ command'[p].step = "stat" /\ command'[p].stats = command[p].stats
      /\ command'[p].session = command[p].session /\ command'[p].file = command[p].file
      /\ command'[p].next = command[p].next /\ command'[p].id = command[p].id
      /\ \A q \in Procs : q # p => command'[q] = command[q]
  BY <1>1, <1>2 DEF HistoryInv, TypeInv, TypeOK, Command
<1>4. LineOf(p)' = LineOf(p)
  BY <1>3 DEF LineOf
<1>5. RowOfItem(p) /\ StatsWithin(p)
  BY <1>1 DEF AverageInv
<1>6. RowOfItem(p)'
  BY <1>1, <1>3, <1>4, <1>5 DEF RowOfItem
<1>7. ASSUME NEW s \in Sessions, NEW t \in EventTypes, s = command[p].session
      PROVE  Within(s, t, command[p].stats[t], Uncounted(p, t))'
  <2>1. Within(s, t, command[p].stats[t], Uncounted(p, t)) /\ Uncounted(p, t) = 0
    BY <1>1, <1>5, <1>7 DEF StatsWithin, Uncounted
  <2>2. command[p].stats[t].count \in Nat
    BY <1>2 DEF Command, Stat
  <2>3. CASE LineOf(p).type # t
    <3>1. Uncounted(p, t)' = 0
      BY <1>4, <2>3 DEF Uncounted
    <3>2. QED
      BY <1>3, <2>1, <2>2, <3>1, HistoryGrows DEF Within
  <2>4. CASE LineOf(p).type = t
    <3>1. Uncounted(p, t)' = 1
      BY <1>3, <1>4, <2>4 DEF Uncounted
    <3>2. PICK id \in AllIds : id = command[p].id
      BY <1>2
    <3>3. rows[id].type = t /\ added[s][id] = 0
      BY <1>1, <1>5, <1>7, <2>4, <3>2 DEF RowOfItem, HistoryInv, EventsAwaited
    <3>4. added[s][id] = 0 /\ added'[s][id] = 1 /\ \A i \in AllIds : i # id => added'[s][i] = added[s][i]
      BY <1>1, <1>2, <1>7, <3>2, <3>3 DEF HistoryInv, TypeInv, TypeOK
    <3>5. History(s, t)' = History(s, t) \union {id} /\ id \notin History(s, t)
      BY <1>1, <3>3, <3>4 DEF History
    <3>6. Cardinality(History(s, t)') = Cardinality(History(s, t)) + 1
      BY <3>5, HistoryGrows, FS_AddElement
    <3>7. QED
      BY <1>3, <2>1, <2>2, <3>1, <3>6, HistoryGrows DEF Within
  <2>5. QED
    BY <2>3, <2>4
<1>8. StatsWithin(p)'
  BY <1>3, <1>7 DEF StatsWithin
<1>9. QED
  BY <1>1, <1>3, <1>6, <1>8, OneCommandWithin

LEMMA CountWithin ==
  ASSUME HistoryInv, AverageInv, [Next]_vars, NEW p \in Procs, Count(p)
  PROVE  AverageInv'
<1>. DEFINE c == command[p]
            type == LineOf(p).type
            stat == Updated(c.stats[type], LineOf(p).tokens)
            table == [c.stats EXCEPT ![type] = stat]
            new == [session |-> c.session, file |-> c.file, next |-> c.next + 1,
                    count |-> c.count + 1, step |-> "line", id |-> None, stats |-> table]
<1>1. /\ Running(p) /\ c.step = "stat" /\ UNCHANGED <<rows, added>>
      /\ tokenStats' = [tokenStats EXCEPT ![c.session][type] = stat]
      /\ command' = [command EXCEPT ![p] = new]
  BY DEF Count
<1>2. /\ c \in Command /\ c.session \in Sessions /\ c.id \in AllIds /\ c.stats \in [EventTypes -> Stat]
      /\ type \in EventTypes /\ LineOf(p).tokens \in Nat
  BY <1>1, CommandTypes, LineTypes DEF HistoryInv, TypeInv, AtItsItem, LineOf, Command
<1>3. PICK s \in Sessions, t \in EventTypes : s = c.session /\ t = type
  BY <1>2
<1>4. c.id \in History(s, t) /\ rows[c.id].tokens = LineOf(p).tokens
  <2>1. added[s][c.id] = 1
    BY <1>1, <1>3 DEF HistoryInv, EventsAwaited
  <2>2. rows[c.id].type = t /\ rows[c.id].tokens = LineOf(p).tokens
    <3>1. RowOfItem(p)
      BY <1>1 DEF AverageInv
    <3>2. rows[c.id] = [session |-> c.session, type |-> type, tokens |-> LineOf(p).tokens]
      BY <1>1, <3>1 DEF RowOfItem
    <3>3. QED
      BY <1>3, <3>2
  <2>3. QED
    BY <1>2, <2>1, <2>2 DEF History
<1>5. Within(s, t, c.stats[t], 1)
  BY <1>1, <1>3 DEF AverageInv, StatsWithin, Uncounted
<1>6. Within(s, t, stat, 0)
  BY <1>2, <1>3, <1>4, <1>5, UpdatedWithin
<1>. HIDE DEF stat
<1>7. /\ tokenStats'[s][t] = stat
      /\ \A r \in Sessions, u \in EventTypes :
           r # s \/ u # t => tokenStats'[r][u] = tokenStats[r][u]
  BY <1>1, <1>2, <1>3 DEF HistoryInv, TypeInv, TypeOK
<1>8. StoredWithin'
  <2>1. ASSUME NEW r \in Sessions, NEW u \in EventTypes, r # s \/ u # t
        PROVE  Within(r, u, tokenStats[r][u], 0)'
    BY <1>7, <2>1, StoredStays
  <2>2. Within(s, t, tokenStats[s][t], 0)'
    <3>1. History(s, t)' = History(s, t)
      BY <1>1 DEF History
    <3>2. QED
      BY <1>1, <1>6, <1>7, <3>1 DEF Within
  <2>3. QED
    BY <2>1, <2>2 DEF StoredWithin
<1>9. /\ table[t] = stat /\ \A u \in EventTypes : u # t => table[u] = c.stats[u]
  BY <1>2, <1>3
<1>. HIDE DEF table
<1>10. /\ command'[p].step = "line" /\ command'[p].stats = table /\ command'[p].session = s
       /\ \A q \in Procs : q # p => command'[q] = command[q]
  BY <1>1, <1>3 DEF HistoryInv, TypeInv, TypeOK
<1>11. StatsWithin(p)'
  <2>1. ASSUME NEW u \in EventTypes
        PROVE  Within(s, u, command[p].stats[u], Uncounted(p, u))'
    <3>1. History(s, u)' = History(s, u) /\ Uncounted(p, u)' = 0
      BY <1>1, <1>10 DEF History, Uncounted
    <3>2. CASE u = t
      BY <1>1, <1>6, <1>9, <1>10, <3>1, <3>2 DEF Within
    <3>3. CASE u # t
      <4>1. Within(s, u, c.stats[u], 0)
        BY <1>1, <1>3, <3>3 DEF AverageInv, StatsWithin, Uncounted
      <4>2. QED
        BY <1>1, <1>9, <1>10, <3>1, <3>3, <4>1 DEF Within
    <3>4. QED
      BY <3>2, <3>3
  <2>2. QED
    BY <1>10, <2>1 DEF StatsWithin
<1>12. RowOfItem(p)'
  BY <1>10 DEF RowOfItem
<1>13. \A q \in Procs : q # p /\ Running(q)' => StatsWithin(q)' /\ RowOfItem(q)'
  BY <1>10, OthersWithin DEF Running
<1>14. QED
  BY <1>8, <1>11, <1>12, <1>13 DEF AverageInv

LEMMA EndWithin ==
  ASSUME HistoryInv, AverageInv, [Next]_vars, NEW p \in Procs,
         Reject(p) \/ Report(p) \/ Stop(p)
  PROVE  AverageInv'
<1>1. command' = [command EXCEPT ![p] = None] /\ UNCHANGED tokenStats
  BY DEF Reject, Report, Stop, database
<1>2. ~Running(p)' /\ \A q \in Procs : q # p => command'[q] = command[q]
  BY <1>1 DEF HistoryInv, TypeInv, TypeOK, Running
<1>3. QED
  BY <1>1, <1>2, OneCommandWithin

LEMMA InitAverage == Init => AverageInv
<1>. SUFFICES ASSUME Init PROVE AverageInv
  OBVIOUS
<1>1. HistoryInv
  BY InitHistory
<1>2. ASSUME NEW s \in Sessions, NEW t \in EventTypes
      PROVE  Within(s, t, tokenStats[s][t], 0)
  <2>1. tokenStats[s][t] = NoStat /\ Cardinality(History(s, t)) \in Nat
    BY <1>1, HistoryTypes DEF Init
  <2>2. NoStat.count = 0
    BY DEF NoStat
  <2>3. QED
    BY <2>1, <2>2 DEF Within
<1>3. \A p \in Procs : ~Running(p)
  BY DEF Init, Running
<1>4. QED
  BY <1>2, <1>3 DEF AverageInv, StoredWithin

LEMMA NextAverage == HistoryInv /\ AverageInv /\ [Next]_vars => AverageInv'
<1>. SUFFICES ASSUME HistoryInv, AverageInv, [Next]_vars PROVE AverageInv'
  OBVIOUS
<1>1. CASE UNCHANGED vars
  <2>1. StoredWithin'
    BY <1>1, StoredStays DEF vars, database, StoredWithin
  <2>2. \A p \in Procs : Running(p)' => StatsWithin(p)' /\ RowOfItem(p)'
    BY <1>1, OthersWithin DEF vars, Running
  <2>3. QED
    BY <2>1, <2>2 DEF AverageInv
<1>2. CASE Next
  BY <1>2, OpenWithin, SkipWithin, InsertWithin, AppendEventWithin, CountWithin, EndWithin
     DEF Next
<1>3. QED
  BY <1>1, <1>2

(* Whatever the commands of a session overwrite of each other's counts, a  *)
(* stored average (update_prediction_stat) lies between the smallest and   *)
(* the largest of the session's events of its type, and counts no more of  *)
(* them than there are.                                                    *)
THEOREM AveragesAlwaysWithinHistory == Spec => []AveragesWithinHistory
<1>1. ASSUME HistoryInv, AverageInv PROVE AveragesWithinHistory
  <2>. SUFFICES ASSUME NEW s \in Sessions, NEW t \in Known(tokenStats[s])
                PROVE  /\ tokenStats[s][t].count <= Cardinality(History(s, t))
                       /\ Min(Tokens(s, t)) * Scale <= tokenStats[s][t].ema
                       /\ tokenStats[s][t].ema <= Max(Tokens(s, t)) * Scale
    BY DEF AveragesWithinHistory
  <2>. DEFINE stat == tokenStats[s][t]
              tokens == [i \in History(s, t) |-> rows[i].tokens]
  <2>1. t \in EventTypes /\ stat.count > 0
    BY DEF Known
  <2>2. stat \in Stat /\ Within(s, t, stat, 0)
    BY <1>1, <2>1 DEF HistoryInv, TypeInv, TypeOK, AverageInv, StoredWithin
  <2>3. PICK i \in History(s, t), j \in History(s, t) :
          rows[i].tokens * Scale <= stat.ema /\ stat.ema <= rows[j].tokens * Scale
    BY <2>1, <2>2 DEF Within
  <2>4. /\ IsFiniteSet(History(s, t)) /\ History(s, t) # {} /\ Cardinality(History(s, t)) \in Nat
        /\ \A k \in History(s, t) : tokens[k] = rows[k].tokens /\ tokens[k] \in Nat
    BY <1>1, <2>1, <2>3, HistoryTypes
  <2>5. Tokens(s, t) = {rows[k].tokens : k \in History(s, t)}
    BY DEF Tokens
  <2>. HIDE DEF tokens
  <2>6. Bounded(tokens, History(s, t))
    BY <2>4, ExtremesExist
  <2>7. PICK least \in History(s, t) : \A k \in History(s, t) : tokens[least] <= tokens[k]
    BY <2>6 DEF Bounded
  <2>8. PICK most \in History(s, t) : \A k \in History(s, t) : tokens[most] >= tokens[k]
    BY <2>6 DEF Bounded
  <2>9. Min(Tokens(s, t)) \in Tokens(s, t) /\ \A y \in Tokens(s, t) : Min(Tokens(s, t)) <= y
    BY <2>4, <2>5, <2>7 DEF Min
  <2>10. Max(Tokens(s, t)) \in Tokens(s, t) /\ \A y \in Tokens(s, t) : Max(Tokens(s, t)) >= y
    BY <2>4, <2>5, <2>8 DEF Max
  <2>11. /\ Min(Tokens(s, t)) \in Nat /\ Min(Tokens(s, t)) <= rows[i].tokens
         /\ Max(Tokens(s, t)) \in Nat /\ rows[j].tokens <= Max(Tokens(s, t))
         /\ rows[i].tokens \in Nat /\ rows[j].tokens \in Nat
    BY <2>4, <2>5, <2>9, <2>10
  <2>. DEFINE lower == Min(Tokens(s, t))
              upper == Max(Tokens(s, t))
  <2>. HIDE DEF lower, upper
  <2>12. lower * Scale <= rows[i].tokens * Scale /\ rows[j].tokens * Scale <= upper * Scale
    <3>1. /\ lower \in Nat /\ upper \in Nat /\ lower <= rows[i].tokens
          /\ rows[j].tokens <= upper /\ rows[i].tokens \in Nat /\ rows[j].tokens \in Nat
      BY <2>11 DEF lower, upper
    <3>2. \A x, y \in Nat : x <= y => x * Scale <= y * Scale
      BY IngestionAssumption, MonotoneProduct
    <3>3. QED
      BY <3>1, <3>2
  <2>13. /\ lower * Scale \in Nat /\ upper * Scale \in Nat /\ stat.ema \in Nat /\ stat.count \in Nat
         /\ rows[i].tokens * Scale \in Nat /\ rows[j].tokens * Scale \in Nat
    <3>1. \A x \in Nat : x * Scale \in Nat
      BY IngestionAssumption
    <3>2. QED
      BY <2>2, <2>11, <3>1 DEF Stat, lower, upper
  <2>14. lower * Scale <= stat.ema /\ stat.ema <= upper * Scale
    BY <2>3, <2>12, <2>13
  <2>15. stat.count <= Cardinality(History(s, t))
    BY <2>2, <2>4, <2>13 DEF Within
  <2>16. QED
    BY <2>14, <2>15 DEF lower, upper
<1>2. Init => HistoryInv /\ AverageInv
  BY InitHistory, InitAverage
<1>3. HistoryInv /\ AverageInv /\ [Next]_vars => HistoryInv' /\ AverageInv'
  BY NextHistory, NextAverage
<1>4. QED
  BY <1>1, <1>2, <1>3, PTL DEF Spec

=============================================================================
