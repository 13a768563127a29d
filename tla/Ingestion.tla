----------------------------- MODULE Ingestion -----------------------------
(***************************************************************************)
(* `contextgc ingest`: commands of contextgc-cli that load files of JSON   *)
(* lines into the sessions of one database, with the token statistics and  *)
(* the forecast of contextgc-engine that are built from them.              *)
(*                                                                         *)
(* A command opens its session, which loads the statistics into memory,    *)
(* reads the whole file and then ingests it line by line, three statements *)
(* for an item.  Commands of different processes interleave between their  *)
(* statements.  A command ends early when it meets a line it cannot use,   *)
(* when a statement is refused (an item id is unique over all sessions),   *)
(* or when it is killed or the database fails; nothing it has stored is    *)
(* taken back, and the user may run the same file again.                   *)
(*                                                                         *)
(* Simplifications:                                                        *)
(*  - no session has been compacted, so that ingest finds no projection to *)
(*    append to; module Session has that part of ingest;                   *)
(*  - of an item only its id, event type and token count remain;           *)
(*  - averages are integers, rounded down, of parts of a token (Scale).    *)
(***************************************************************************)
EXTENDS Integers, Sequences, FiniteSets, FiniteSetsExt

CONSTANTS
  Procs,          \* processes that run commands
  Sessions,       \* sessions of the database
  Ids,            \* ids that lines name
  Uuids,          \* bound: ids ContextId::default may draw
  Files,          \* the files, sequences of lines
  ToolNames,      \* metadata.tool_name of tool calls and results
  AlphaParts,     \* config.prediction.ema_alpha is AlphaParts / AlphaWhole
  AlphaWhole,
  Scale,          \* parts of a token an average is kept in
  MaxRuns,        \* bound: commands
  MaxStops,       \* bound: commands killed, or stopped by the database
  None            \* Rust's Option::None

(* The four words max_tool_ema looks for in the name of an event type, and *)
(* the types of events that are no tool's.  "tool" is that of a tool event *)
(* without a name.                                                         *)
ToolWords  == {"tool", "command", "file-read", "test"}
PlainTypes == {"command", "file-read", "assistant", "other"}
EventTypes == PlainTypes \union {"tool"} \union ToolNames

AllIds == Ids \union Uuids

(* A line is blank, a session.start record, unusable, or an item.          *)
Items == [what : {"item"}, id : Ids \union {None}, type : EventTypes, tokens : Nat]
Line  == [what : {"blank", "start", "bad"}] \union Items

(* Rows, statistics and commands.                                          *)
Row     == [session : Sessions, type : EventTypes, tokens : Nat]
Stat    == [ema : Nat, count : Nat]
NoStat  == [ema |-> 0, count |-> 0]
Command == [session : Sessions, file : Files, next : Nat \ {0}, count : Nat,
            step : {"line", "event", "stat"}, id : AllIds \union {None},
            stats : [EventTypes -> Stat]]

ASSUME IngestionAssumption ==
  /\ IsFiniteSet(Procs) /\ IsFiniteSet(Sessions) /\ IsFiniteSet(Files)
  /\ IsFiniteSet(AllIds) /\ Ids \intersect Uuids = {}
  /\ None \notin AllIds \union Row \union Command
  /\ Files \subseteq Seq(Line)
  /\ ToolNames \intersect (PlainTypes \union ToolWords) = {}
  /\ AlphaWhole \in Nat \ {0} /\ AlphaParts \in 0..AlphaWhole
  /\ Scale \in Nat \ {0}
  /\ MaxRuns \in Nat /\ MaxStops \in Nat

VARIABLES
  rows,        \* context_items: the row of every id, or None
  added,       \* events: how many context.add events name an id in a session
  tokenStats,  \* token_stats of every session, one entry per event type
  command,     \* the command a process is running, or None
  reported,    \* environment: the files a command reported as ingested
  runs,        \* commands so far
  stops        \* commands stopped so far

database == <<rows, added, tokenStats>>
vars     == <<database, command, reported, runs, stops>>

Init ==
  /\ rows = [i \in AllIds |-> None]
  /\ added = [s \in Sessions |-> [i \in AllIds |-> 0]]
  /\ tokenStats = [s \in Sessions |-> [t \in EventTypes |-> NoStat]]
  /\ command = [p \in Procs |-> None]
  /\ reported = [s \in Sessions |-> [f \in Files |-> 0]]
  /\ runs = 0 /\ stops = 0

-----------------------------------------------------------------------------
(* Token statistics.                                                       *)

(* Mutant of UpdateEma: the weight of the old average has the wrong sign.  *)
UpdateEmaNegated(old, tokens) ==
  (AlphaParts * tokens * Scale + (AlphaParts - AlphaWhole) * old) \div AlphaWhole

UpdateEma(old, tokens) ==
  (AlphaParts * tokens * Scale + (AlphaWhole - AlphaParts) * old) \div AlphaWhole

(* Mutant of Updated: the first event is averaged with a statistic of 0.   *)
UpdatedFromZero(stat, tokens) ==
  [ema |-> UpdateEma(stat.ema, tokens), count |-> stat.count + 1]

(* update_prediction_stat; the average starts at the first event's tokens. *)
Updated(stat, tokens) ==
  LET old == IF stat.count = 0 THEN tokens * Scale ELSE stat.ema
  IN [ema |-> UpdateEma(old, tokens), count |-> stat.count + 1]

Known(stats) == {t \in EventTypes : stats[t].count > 0}

(* avg_ema.                                                                *)
AverageEma(stats) ==
  LET known == Known(stats) IN
  IF known = {} THEN 0
  ELSE SumFunction([t \in known |-> stats[t].ema]) \div Cardinality(known)

(* max_tool_ema; the names of ToolNames contain none of the words.         *)
MaxToolEma(stats) ==
  Max({0} \union {stats[t].ema : t \in Known(stats) \intersect ToolWords})

(* predicted_extra_tokens.                                                 *)
Forecast(stats) ==
  LET assistant == IF "assistant" \in Known(stats) THEN stats["assistant"].ema
                   ELSE AverageEma(stats) \div 2
  IN [input     |-> AverageEma(stats) \div Scale,
      tool      |-> MaxToolEma(stats) \div Scale,
      assistant |-> assistant \div Scale]

-----------------------------------------------------------------------------
(* A command.                                                              *)

Running(p)   == command[p] # None
LineOf(p)    == command[p].file[command[p].next]
AtLine(p)    == Running(p) /\ command[p].step = "line"
AtItem(p)    == AtLine(p) /\ command[p].next <= Len(command[p].file)
                          /\ LineOf(p).what = "item"

(* open_session, whose Session::new loads the statistics; after it the     *)
(* file is read into memory.                                               *)
Open(p, s, f) ==
  /\ ~Running(p) /\ runs < MaxRuns
  /\ command' = [command EXCEPT ![p] =
       [session |-> s, file |-> f, next |-> 1, count |-> 0, step |-> "line",
        id |-> None, stats |-> tokenStats[s]]]
  /\ runs' = runs + 1
  /\ UNCHANGED <<database, reported, stops>>

(* Mutant of Skip: blank lines are counted as items.                       *)
SkipCounts(p) ==
  /\ AtLine(p) /\ command[p].next <= Len(command[p].file)
  /\ LineOf(p).what \in {"blank", "start"}
  /\ command' = [command EXCEPT ![p].next = @ + 1, ![p].count = @ + 1]
  /\ UNCHANGED <<database, reported, runs, stops>>

(* ingest_lines passes over blank lines and session.start records.         *)
Skip(p) ==
  /\ AtLine(p) /\ command[p].next <= Len(command[p].file)
  /\ LineOf(p).what \in {"blank", "start"}
  /\ command' = [command EXCEPT ![p].next = @ + 1]
  /\ UNCHANGED <<database, reported, runs, stops>>

(* Mutant of Reject: the error of a line is lost and the line is counted.  *)
RejectPasses(p) ==
  /\ AtLine(p) /\ command[p].next <= Len(command[p].file)
  /\ LineOf(p).what = "bad"
  /\ command' = [command EXCEPT ![p].next = @ + 1, ![p].count = @ + 1]
  /\ UNCHANGED <<database, reported, runs, stops>>

(* A line that is no JSON or no item, or whose hash or token count ingest  *)
(* refuses, ends the command.                                              *)
Reject(p) ==
  /\ AtLine(p) /\ command[p].next <= Len(command[p].file)
  /\ LineOf(p).what = "bad"
  /\ command' = [command EXCEPT ![p] = None]
  /\ UNCHANGED <<database, reported, runs, stops>>

(* Mutants of Stored: INSERT OR IGNORE and INSERT OR REPLACE.              *)
StoredOrIgnored(table, id, row)  ==
  [ok |-> TRUE, table |-> IF table[id] = None THEN [table EXCEPT ![id] = row] ELSE table]
StoredOrReplaced(table, id, row) ==
  [ok |-> TRUE, table |-> [table EXCEPT ![id] = row]]

(* insert_item on context_items, which the primary key may refuse.         *)
Stored(table, id, row) ==
  [ok    |-> table[id] = None,
   table |-> IF table[id] = None THEN [table EXCEPT ![id] = row] ELSE table]

(* The id of an item: its own, or one drawn when the line is parsed.       *)
IdsFor(line) ==
  IF line.id # None THEN {line.id} ELSE {u \in Uuids : rows[u] = None}

(* ingest's first statement; the command ends if it is refused.            *)
Insert(p, id) ==
  LET row == [session |-> command[p].session, type |-> LineOf(p).type,
              tokens |-> LineOf(p).tokens]
      insert == Stored(rows, id, row)
  IN /\ AtItem(p) /\ id \in IdsFor(LineOf(p))
     /\ rows' = insert.table
     /\ command' = [command EXCEPT ![p] =
          IF insert.ok THEN [@ EXCEPT !.step = "event", !.id = id] ELSE None]
     /\ UNCHANGED <<added, tokenStats, reported, runs, stops>>

(* ingest's second statement.                                              *)
AppendEvent(p) ==
  /\ Running(p) /\ command[p].step = "event"
  /\ added' = [added EXCEPT ![command[p].session][command[p].id] = @ + 1]
  /\ command' = [command EXCEPT ![p].step = "stat"]
  /\ UNCHANGED <<rows, tokenStats, reported, runs, stops>>

(* ingest's third statement, and the next line.  The new statistic is made *)
(* from the one in memory.                                                 *)
Count(p) ==
  LET c == command[p]
      stat == Updated(c.stats[LineOf(p).type], LineOf(p).tokens)
  IN /\ Running(p) /\ c.step = "stat"
     /\ tokenStats' = [tokenStats EXCEPT ![c.session][LineOf(p).type] = stat]
     /\ command' = [command EXCEPT ![p] =
          [session |-> c.session, file |-> c.file, next |-> c.next + 1,
           count |-> c.count + 1, step |-> "line", id |-> None,
           stats |-> [c.stats EXCEPT ![LineOf(p).type] = stat]]]
     /\ UNCHANGED <<rows, added, reported, runs, stops>>

(* After the last line the command prints what it has ingested.            *)
Report(p) ==
  /\ AtLine(p) /\ command[p].next > Len(command[p].file)
  /\ reported' = [reported EXCEPT ![command[p].session][command[p].file] = @ + 1]
  /\ command' = [command EXCEPT ![p] = None]
  /\ UNCHANGED <<database, runs, stops>>

(* A command is killed, or one of its statements returns an error.         *)
Stop(p) ==
  /\ Running(p) /\ stops < MaxStops
  /\ stops' = stops + 1
  /\ command' = [command EXCEPT ![p] = None]
  /\ UNCHANGED <<database, reported, runs>>

Next ==
  \E p \in Procs :
    \/ \E s \in Sessions, f \in Files : Open(p, s, f)
    \/ Skip(p)
    \/ Reject(p)
    \/ \E id \in AllIds : Insert(p, id)
    \/ AppendEvent(p)
    \/ Count(p)
    \/ Report(p)
    \/ Stop(p)

Spec == Init /\ [][Next]_vars

-----------------------------------------------------------------------------
(* Properties.                                                             *)

(* Rows hold items, statistics are counted per session and event type, and *)
(* a command that has an event or a statistic to write is at an item.      *)
TypeOK ==
  /\ rows \in [AllIds -> Row \union {None}]
  /\ added \in [Sessions -> [AllIds -> Nat]]
  /\ tokenStats \in [Sessions -> [EventTypes -> Stat]]
  /\ command \in [Procs -> Command \union {None}]
  /\ reported \in [Sessions -> [Files -> Nat]]
  /\ runs \in 0..MaxRuns
  /\ stops \in 0..MaxStops

(* "The original row is never mutated" (contextgc-store, insert_item): no  *)
(* command of any session takes or changes a row that is there.            *)
RowsKept == [][\A i \in AllIds : rows[i] # None => rows'[i] = rows[i]]_vars

ItemLines(f) == {n \in DOMAIN f : f[n].what = "item"}

Owned(s, i) == rows[i] # None /\ rows[i].session = s

(* The history of a session tells each of its items once and no other      *)
(* session's, although ids are unique over the whole database and commands *)
(* of other sessions may name them too.                                    *)
EventsOwned ==
  \A s \in Sessions, i \in AllIds :
    added[s][i] > 0 => added[s][i] = 1 /\ Owned(s, i)

(* A command has stored in its own session every item of the lines it has  *)
(* passed, each with its event, and has counted each of them once.         *)
PrefixStored ==
  \A p \in Procs : Running(p) =>
    LET c == command[p]
        passed == {n \in ItemLines(c.file) : n < c.next}
    IN /\ c.count = Cardinality(passed)
       /\ \A n \in passed : c.file[n].id # None =>
            Owned(c.session, c.file[n].id) /\ added[c.session][c.file[n].id] = 1

Reported(f) == SumFunction([s \in Sessions |-> reported[s][f]])
Named(f)    == {f[n].id : n \in ItemLines(f)} \ {None}

(* A file that names ids is reported as ingested at most once, into        *)
(* whatever session, and never after another file that names one of them:  *)
(* a repeated or resumed run must not pass for an ingestion.               *)
ReportedOnce ==
  /\ \A f \in Files : Named(f) # {} => Reported(f) <= 1
  /\ \A f, g \in Files :
       f # g /\ Reported(f) > 0 /\ Reported(g) > 0 => Named(f) \intersect Named(g) = {}

HistoryItems(s) == Cardinality({i \in AllIds : Owned(s, i)})

(* What commands have reported for a session, and what the running ones    *)
(* have counted, is in the history that `contextgc stats` totals.          *)
HistoryHoldsReports ==
  \A s \in Sessions :
    SumFunction([f \in Files |-> reported[s][f] * Cardinality(ItemLines(f))])
    + SumFunction([p \in {q \in Procs : Running(q) /\ command[q].session = s} |->
                     command[p].count])
    <= HistoryItems(s)

(* The tokens of a session's events of a type.                             *)
History(s, t) == {i \in AllIds : added[s][i] > 0 /\ rows[i].type = t}
Tokens(s, t)  == {rows[i].tokens : i \in History(s, t)}

(* Whatever the commands of a session overwrite of each other's counts, an *)
(* average stays between the smallest and the largest of the events it is  *)
(* the average of, and counts no more of them than there are.              *)
AveragesWithinHistory ==
  \A s \in Sessions : \A t \in Known(tokenStats[s]) :
    LET stat == tokenStats[s][t] IN
    /\ stat.count <= Cardinality(History(s, t))
    /\ Min(Tokens(s, t)) * Scale <= stat.ema
    /\ stat.ema <= Max(Tokens(s, t)) * Scale

(* "Before an expensive tool call, ContextGC predicts the projected        *)
(* pressure" (docs/policy.md): once a session has had events of a tool,    *)
(* some tool output is forecast.                                           *)
ForecastCoversTools ==
  \A s \in Sessions : \A t \in Known(tokenStats[s]) \intersect ({"tool"} \union ToolNames) :
    tokenStats[s][t].ema >= Scale => Forecast(tokenStats[s]).tool > 0

=============================================================================
