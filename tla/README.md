# A verification of ContextGC

ContextGC keeps the working memory of a coding agent below a token limit: an
agent harness submits context items (prompts, messages, tool results, files),
ContextGC stores them in SQLite, decides which of them to shorten, move out or
drop, and hands back the items that should be sent to the model.

This directory models that program in TLA+, checks the models with TLC and proves every
safety property that the runs check, and that a session keeps its promise, with TLAPS.
It is written against the Rust code in `crates/` and the TypeScript client in `adapters/pi`; paths
below are relative to the repository. `PROJECT.json` lists, machine-readably, every run,
every definition with the lines it models, the findings, the hazards and the theorems.

Contents: [the system](#1-the-system), [the modules](#2-the-modules),
[the runs](#3-the-runs), [fairness](#4-fairness), [the proofs](#5-the-proofs),
[the findings](#6-findings), [what is not modelled](#7-what-is-not-modelled),
[the plan](#8-plan).

## 1. The system

| Component | State | Operations | Modelled in |
|---|---|---|---|
| `contextgc-engine` `Session` | the cached plan `last_plan`, the cached token statistics `stats`, configuration, model, a SQLite connection | `new`, `ingest`, `ingest_checkpoint`, `plan`, `compact`, `materialize`, `status` | `Session`; the statistics and the forecast in `Ingestion`; what `materialize` does to texts in `Compaction`; the checks of `new` in `Budget` |
| `contextgc-store` `Store` | SQLite tables `context_items`, `events`, `token_stats`, `working_set_meta`, `working_set_items`, `artifacts`, `compaction_runs`, `compaction_actions` | one statement or one transaction per method | `Session` (the first group of its variables), `Ingestion` for several sessions, `Protocol` (the stored model) |
| `contextgc-policy` `DefaultPlanner`, `DedupIndex` | the candidates of one `compute_plan` call | budget and target, pin pass, deduplication pass, greedy loop | `Planner` |
| `contextgc-policy` scoring and pins | none (pure functions) | `is_pinned`, `is_deduplicable`, `importance_score` and its components | `Importance` |
| `contextgc-policy` reducers | none (pure functions) | `can_reduce`, `reduce`, `extract` of `CompilerReducer`, `TestReducer`, `ShellReducer` | `Reducers` on the texts of `Texts`, at work in `Compaction` |
| `contextgc-core` | types, thresholds, configuration | `usable_context`, `from_pressure`, `validate` | levels in `Representations`, the rest in `Budget` and `Planner` |
| `contextgc-tokenizer` | none | `count` | `Texts` (`Count`) |
| `contextgc-protocol` and the stdio server | `ServerState::session` | `session.start`, `context.*`, end of input | `Protocol`, and which `Session` calls a request makes in `Session` |
| command line | none between commands | open the session, make a call or two, exit; `ingest` a file | `Ingestion` (`ingest`), `Protocol` (`LoadModel`, `KeepModel`), `Session` (`Open` ... `Exit`) |
| `adapters/pi` `ContextGCClient` | `pending` promises, the child process | `request`, `close`, `handleResponse`, `rejectAll`, event handlers | `Protocol` |
| `contextgc-memory` | none in use | a trait and an in-process stub | not modelled |

How they interact. The harness's client writes one JSON request per line into the
server's stdin without waiting for the previous answer. The server handles the
lines one at a time, each with a call of `Session`. A `Session` call is a
straight line of statements on the database, *without one transaction around
them*. Several processes (servers, commands) can have the same session open, since
it is only a row in a file. `Session::plan` reads the active context and runs the
planner on it; `compact` records that plan and then applies it; `materialize`
reads the context again, applies the plan to what it has read, inserts artifacts,
and replaces the projection (`working_set_items`), which from then on *is* the
active context: later items are appended to it and later compactions start from
it. `contextgc ingest` loads a whole file through the same `ingest`, line by line,
each line in statements of its own; the statistics that `ingest` keeps are what
`plan` forecasts the next cycle from.

Where it is hard:

* the gap between the statements of one call: a crash, a failing statement, or a
  call of another process falls into it;
* a second compaction works on texts that the first has rewritten, by level alone,
  and its reducers are given the output of reducers;
* the planner estimates by reducing a text, the engine reduces it again later;
* the greedy loop has to pass over levels that do not shorten an item, keep its
  running total right, respect pins and stop;
* answers, write errors and the exit of the server race for the same promises;
* the model of a session is stored before it is validated;
* ids are unique over all sessions of a database, statistics are cached per process,
  and a file that was ingested in part is ingested again.

What makes each component correct: for the store and the session, that what the model is
shown can always be traced to what was submitted (originals kept, references resolved,
levels truthful, pinned items verbatim, changes explained by the history); for the
planner, that it ends, adds up, keeps what it must keep and gives up only what it has
to; for the reducers, that diagnostics survive being rewritten again and again, and that
estimates come true; for ingestion, that history, reports and averages agree with what
was stored; for the protocol, that every promise is settled, with its own answer, on the
session the client started.

## 2. The modules

| Module | What it is |
|---|---|
| `Representations` | levels, texts, entries of the working set, and `PlanOptions`, the contract between planner and engine |
| `WorkingMemory` | the abstract specification: what a session promises to its harness |
| `Session` | engine and store, one action per committed statement |
| `Importance` | pins and importance scores |
| `Texts` | texts as sequences of lines, picking lines from them, and the token counter |
| `Reducers` | the reducers |
| `Planner` | `compute_plan` |
| `Compaction` | `Planner`, `Reducers` and `materialize` composed, compaction after compaction |
| `Budget` | configurations, models, the usable context and pressure stages, in words of a fixed width |
| `Protocol` | client, pipes, server, stored model, command line; models are those of `Budget` |
| `Ingestion` | `contextgc ingest` of several processes into several sessions, token statistics, forecast |
| `MCSession`, `MCCompaction`, `MCProtocol`, `MCIngestion` | what TLC needs: symmetry sets, texts, models, files |
| `SessionProofs`, `SessionHistoryProofs` | proofs about `Session` |
| `PlannerProofs`, `CompactionProofs`, `BudgetProofs`, `ProtocolProofs`, `IngestionProofs` | proofs about those modules |
| `SumTheorems` | sums and extremes of finitely many numbers, for the proofs |

`Session` and `Planner` are composed through `PlanOptions`. `Session` lets a plan
be *any* choice that `PlanOptions` allows for the items in the context; `Planner`
is checked, and proved, to make only such choices (`PlanAllowed`). So what holds
of `Session` holds with the real planner, whatever scores, budgets and
predictions it sees. `Compaction` runs the real planner on real (abstracted) texts
and feeds it what its own plans have left, so that the contexts `Planner` is checked on
are those of later compactions, too. `Protocol` takes the models a client may send,
and which of them `Session::new` accepts, from `Budget`.

### Session

Variables `items`, `events`, `tokenStat`, `projected`, `workingSet`, `artifacts`
and `actionRows` are the tables; `pc`, `current`, `snapshot`, `todo`, `lastPlan` and
`stats` are what every process has in memory; `acked`, `crashes` and `errors` belong
to the environment. `View` is `active_context_items`: the rows of the projection
if there is one, and the active rows of `context_items` until then.

| Code | Actions |
|---|---|
| `Session::new`, drop, kill | `Open`, `Exit`, `Crash` |
| `ingest`: `insert_item`, `append_event`, `update_prediction_stat` | `InsertItem`, `AppendEvent`, `UpdateStat` |
| `ingest`: `load_working_set`, `replace_working_set` | `LoadNoProjection`, `LoadProjection`, `PushItem`, `PushConflict` |
| `plan`, `status` | `Plan`, `Status` |
| `compact`: `plan`, `record_compaction` | `StartCompact`, `RecordCompaction` |
| `context.materialize` | `StartMaterialize` |
| `materialize`: read, externalize each, replace | `ReadActive`, `MissingItem`, `Externalize`, `ExternalizeConflict`, `ReplaceProjection` |
| any `?` on a statement | `Fail` |

`ingest_checkpoint` builds an item and calls `ingest`. Primary keys are modelled
where they bite: an item id that is in the table is refused (`InsertItem`), so is a
second row for an item in the projection (`PushConflict`) and a second artifact
for an item (`ExternalizeConflict`). Texts are the set of rewritings they went
through, so that "the original" is `{}` and a reference is `"reference"`.

Simplifications: one session (several are in `Ingestion`); the reads of one
`active_context_items` call are one step; whether an item is pinned, reducible or
externalizable does not change with its text; one token statistic for all items; the
checks of `ingest` and `new` that return before anything has changed are left out; the
order of rows, token counts and metadata are left out. In `materialize` the order in
which a plan lists its actions is left open, so that a missing item may stop it before
or after any of its externalizations.

### WorkingMemory

The promise of one process, in four variables: the submitted `history`, the `view`,
the `archive` of artifacts, and the `accepted` items. Its `Next` allows items to be
submitted and accepted, the view to move forward (an item never returns to a less
compressed form, nor into the context once it has left it), and artifacts to be
added; `KeepsPromise` (run `session_single`) is `WorkingMemory!Spec` under the
mapping `history <- items`, `view <- View`, `archive <- Archived`,
`accepted <- acked`.

### Importance and Planner

`Planner` is one execution of `compute_plan`: `PinPass`, `DedupPass`, any number of
rounds `Squeeze(i)` of the greedy loop, and `Finish`. The context `item` and the
`forecast` are chosen by `Init`. Scores come from `Importance`, in ten-thousandths,
from an item's kind, state, metadata, position and number of copies. The tokens
that a reducer or a reference would leave are fields of the item; `Compaction` computes
them from the item's text.

Simplifications: pressures, thresholds and recency are whole percentages and utilities
are compared exactly, where the code uses `f32`; token counts are far from 2^64, so
nothing saturates but the forecast's target (`Budget` has the widths);
`externalize_large_results` and `reduce_logs` are on (off, they only take options away);
whether the regular expression for explicit constraints matches is a Boolean of the
item.

### Texts, Reducers and Compaction

A text (`Texts`) is a sequence of lines. A line carries the set of patterns of the
reducers that it contains (`marks`), its number of words, its indentation and whether it has ANSI
escapes; an expression that is anchored at the start of a line does not match one that
was indented or is coloured. On such lines `ShellReduce`, `ShellExtract`, `TestReduce`
and `CompilerReduce` do what the code does: which lines they keep, in which order,
what they collapse, repeat and indent. `TestCan`, `CompilerCan`, `ShellCan` are the
`can_reduce` functions, and `Reduced` and `Extracted` the choice between them. How many
lines an extraction keeps are constants (20, 3 and 201 in the code). An item's content
stands for its hash.

A step of `Compaction` is a step of `Planner` (`PlanStep`) or `Materialize`: every kept
item gets the text its action leaves (`TextAfter`), the tokens that it measures, and
new estimates; as many items as were dropped are submitted by the harness; and planning
starts again. `origin` remembers every item's text as submitted, for the properties.
Artifacts are left to `Session`.

### Budget

Pure operators: `Accepted` (`Config::validate`), `Opens` (the checks of `Session::new`),
`UsableContext`, `Stage` (`PressureState::from_pressure`) and `NeedsCompaction`. Words
are `0..MaxWord`; one sum of reserves saturates, the other is checked, as in the code.

### Ingestion

A command opens a session (`Open`, which loads the statistics into memory), skips blank
lines and `session.start` records (`Skip`), and takes every item through three
statements: the insert (`Insert`), the event (`AppendEvent`) and the statistic
(`Count`). It ends with a report (`Report`), at a line it cannot use (`Reject`), at an
id that has a row already (`Insert`), or killed or failed by the database at any point
(`Stop`). The same file may be run again, into any session. An item without an id draws
a fresh one. The event types are those of `event_type_for`, and `Forecast` is
`predicted_extra_tokens` over the averages.

Simplifications: no session has a projection (that part of `ingest` is in `Session`);
averages are rounded down to parts of a token (`Scale`).

### Protocol

A request is identified by its position in the order of sending. `Send` writes it,
`WriteFails` is the callback of a write that failed, `Receive` and `ReceiveTorn` are
`handleResponse`, `ExitEvent` the child's exit handler, `Close` ends stdin. On the
server side `SaveModel` and `NewSession` are the two halves of `start_session`,
`Handle` is every other request, `Refuse` a line that does not parse, `Answer`
writes the answer, `EndOfInput` ends the loop and `Crash` may cut off an answer.
`LoadModel` and `KeepModel` are `open_session` of the command line, which reads
and writes the stored model. What a call does to the session is not repeated
here. The exit event may overtake the last lines of stdout.

## 3. The runs

All bounds are constants of the modules (`MaxCrashes`, `MaxErrors`, `MaxRequests`,
`MaxCommands`, the sets of processes, items and shapes); no run has a state
constraint.

| Run | Instance | Checks |
|---|---|---|
| `session_single` | 1 process; a pinned, a reducible-and-recoverable and an abandoned, recoverable item; plan, status, compact; prediction on; 1 crash, 1 failing statement (635,496 states) | `TypeOK`, `PinnedKept`, `LevelNamesText`, `ChangesRecorded`, `StatCountsEvents`, `PlanFresh`, `RecordedDropsApplied`, `NoOrphanArtifact`, `KeepsPromise` |
| `session_shared` | 2 processes, 2 items, ingest and `context.materialize` | `ReferencesResolve`, `ProjectionBacked`, `PinnedVerbatim`, `CallsReturn` |
| `planner` | all contexts of 3 items out of 14 shapes, forecasts 0, 16 and 40 in a window of 50; 4 plans with 3 materializations between them | `TypeOK`, `TotalMatchesActions`, `PinnedUntouched`, `NewerCopyStays`, `GivesUpLast`, `PlanAllowed`, `FailuresKept`, `ErrorsKept`, `Returns`, `EstimatesMet`, `PlansAdvance` |
| `protocol` | 2 sessions, models that open and models that do not, 3 requests, 1 command, 1 crash (1.1 million states) | `TypeOK`, `OwnAnswer`, `RunsOnLastStart`, `CloseDrains`, `Settles` |
| `ingestion` | 2 processes, 2 sessions, 3 files that share ids, 3 commands, 1 of them stopped; symmetry of processes, sessions and fresh ids (55,516 states) | `TypeOK`, `EventsOwned`, `PrefixStored`, `ReportedOnce`, `HistoryHoldsReports`, `AveragesWithinHistory`, `RowsKept` |
| `session_lost_update`, `session_artifact`, `planner_importance`, `planner_diagnostics`, `ingestion_forecast`, `protocol_malformed`, `protocol_stored` | small | one property each, violated: see the findings |

What the properties say:

* `KeepsPromise`, `PinnedKept`: no sequence of calls, failures and crashes of one
  process brings a dropped item back, makes one less compressed, or touches an accepted
  pinned one. `WorkingMemory` lets an unpinned item leave the view at any time; that it
  does so only by an action on record is `ChangesRecorded`.
* `LevelNamesText`: however often an item is compacted, its level, which is all the
  planner goes by, says what was done to its text.
* `ChangesRecorded`: every accepted item that is not as submitted has its recorded
  action, if the client uses `context.compact`.
* `RecordedDropsApplied`, `NoOrphanArtifact`: history and artifacts agree with the
  context while nothing was cut short. Both are false afterwards; that is stated in the
  properties.
* `PlanFresh`: the plan that `status` reports is about the present context; again not
  after a failed statement.
* `StatCountsEvents`: the count behind the forecast's moving average misses only events
  whose own update was cut short by a crash; it says nothing after a failed statement,
  which loses the statistic from the cache.
  These four, which ask that nothing was cut short or failed, say nothing about the
  partial failures themselves: what the code leaves behind then is under "Observed".
* `ReferencesResolve`, `ProjectionBacked`, `PinnedVerbatim`: hold under any interleaving
  of two processes, although updates may be lost.
* `CallsReturn`: processes that refuse each other's rows still return.
* `TotalMatchesActions`: `expected_tokens_after` is the sum over the actions.
* `PinnedUntouched`: whatever `docs/policy.md` lists under "Pinned context" keeps its
  level and tokens, even as a copy of a newer item.
* `NewerCopyStays`: every removed copy has a newer one that was not removed as a copy.
* `GivesUpLast`: the planner stops above its target only when nothing is left to do.
* `Returns`, `PlansAdvance`: every plan ends, and every step of it lowers what is left to
  do: the passes and the levels that items can still be taken on (`StepsLeft`).
* `OwnAnswer`, `Settles`: no promise gets another request's result, and every promise of
  a readable request settles.
* `RunsOnLastStart`: pipelined calls run on the last *accepted* `session.start` before
  them, where accepted is decided by the arithmetic of `Budget`.
* `CloseDrains`: everything written before `close` is handled.
* `EstimatesMet`: `expected_tokens_after`, recorded before anything is rewritten, is
  what the rewritten context measures, but for the one token that `materialize` counts
  for an empty text and for items that are externalized by the L2 fallback (an
  observation below).
* `FailuresKept`: in an output that `TestReducer` takes, the lines `test ... FAILED` stay
  as long as the output does, through any number of reductions and extractions. Its
  limits are those of the code: the line has no colours and no indentation, since the
  expressions are anchored; the output has no more lines of the kinds that are kept than
  `FailureLines` (201 in the code); and `CompilerReducer`, which comes first, does not
  take it, which drops the failed tests beside a compiler error.
* `ErrorsKept`: in the output of another command every error message stays, in colours or
  not. Its limits: no more lines with one than an extraction keeps (`ErrorLines`, 20 in
  the code), and neither `TestReducer` nor `CompilerReducer` takes the output with its
  colours or without. The last clause is needed: `ShellReducer` strips the colours of a
  log, and if that lays bare a line of a test run, `TestReducer` takes the log in the
  next compaction and its errors are lost (finding 4).
* `RowsKept`, `EventsOwned`, `PrefixStored`: commands of several sessions, whatever ids
  they share and wherever they are cut off, never change a stored row, tell each item
  once in the history of its own session, and have stored what they have counted.
* `ReportedOnce`, `HistoryHoldsReports`: a file that names ids is reported as ingested
  at most once, and what was reported is in the history.
* `AveragesWithinHistory`: processes overwrite each other's statistics; what remains is
  still an average of the session's events.

Why the bounds are enough. `Session`: two processes are all that an interference needs
(each step reads or writes whole tables), one item to lose and one to lose it to; two
compactions of the same item exercise every chain of levels; of a
crash and a failing statement, each may fall into the recovery from the other.
Where two processes are checked without failures, the three
safety properties are proved for every number of processes, items, crashes and errors.
`Planner`: three items allow a copy beside a competitor, and four plans in a row take an
item through every level it can pass, with new arrivals in between; the shapes cover
passing, failing and foreign test runs, builds, logs with progress and repetitions, more
errors than an extraction keeps, a failing run with one of its failed tests in colours,
a log with errors in colours and without, recoverable sources, marked copies,
prompts, resolved and unresolved errors. `Ingestion`: three commands allow an
interrupted run, its repetition and a rival; two items of one event type are the
smallest average, and four fresh ids are enough for two runs of the file without ids.
`Protocol`: three requests allow an accepted start, a refused start and a call; one
crash is all a server has; `MaxWord` is 255, and the models of `protocol_stored` include
one whose reserves overflow it.

Deadlock is checked in the runs of `Session` (a process can always be opened
again) and not in those of `Compaction`, `Protocol` and `Ingestion`, which come to an end:
the last plan has returned, the requests are used up and the server has exited, the commands
are done.

Every property of a passing run has a mutant: a plausible bug in the modelled code,
written beside the definition it changes (`...Blind`, `...Skipped`, `...Unchecked`), under
which TLC finds the property violated with the run's own bounds.

## 4. Fairness

* `Session`: `WF(Work(p))` for every process. A call is a straight line of code on a
  local database: a process that is neither killed nor refused executes its next
  statement. Nobody is obliged to start a call, and neither crashes nor errors are fair.
* `Planner`: `WF(Next)`, a loop without any waiting; in `Compaction`, `WF(PlanStep)`,
  since the harness need not ask for another compaction.
* `Ingestion`: none; its properties are safety properties.
* `Protocol`: `WF(ServerStep)` (the server reads as long as it lives, and `CallsReturn`
  says that handling a line ends), and weak fairness of the client's event callbacks,
  which the event loop delivers. Sending, closing, crashing and commands are not fair.

## 5. The proofs

All theorems hold for every value of the constants that satisfies the modules'
named assumptions (`SessionAssumption`, `NoneAssumption`, `PlannerAssumption`,
`CompactionAssumption`, `ShapesAssumption`, `ReducersAssumption`, `NamesAssumption`,
`ProtocolAssumption`, `MaxWordAssumption`, `IngestionAssumption`): any
number of processes, items, crashes and errors; any context, forecast and threshold.

`SessionProofs`:
* `TypeCorrect`: `Spec => []TypeOK`.
* `ReferencesAlwaysResolve`, `ProjectionAlwaysBacked`, `PinnedAlwaysVerbatim`. None is
  inductive: a call may hold an old copy of the projection in memory and write it back.
  The inductive invariant `SoundnessInv` adds (1) `RowsSound`: the same three facts for
  the copies that calls in `push` and `apply` hold; (2) `PlansSparePinned`: no cached
  plan, however old, touches a pinned item; (3) `ArtifactsFirst`: an externalization
  that a call still has to write is either in `todo` or in `artifacts`. Old copies stay
  sound because rows of `items` and `artifacts` are never removed.

* `PinnedAlwaysKept`: if there is at most one process
  (`\A p, q \in Procs : p = q`), accepted pinned items stay in the context verbatim. The
  inductive invariant `KeptInv` adds that the copies a call holds are *current* for kept
  items and that the plan about to be applied pins them. Both are false with two
  processes, as is the property: run `session_lost_update`.
* Again for one process, `LevelsAlwaysNameText` and `PromiseKept`, the refinement of
  `WorkingMemory` (one step lemma per action of `Session`: each is a step of the promise
  or a stutter). The inductive invariant `CurrentInv` adds to `SoundnessInv` that what a call in progress
  holds is current (`CallCurrent`): the context that `materialize` has read is the
  present one and the artifacts it still has to write are those of its plan, the rows
  that `ingest` is going to write back are those of the projection, and the item it adds
  is neither among them nor acknowledged.

`SessionHistoryProofs`, on top of `CurrentInv`:
* `PlanAlwaysFresh`; `ChangesAlwaysRecorded`, which needs `PlansRecorded` (a plan that
  is being applied has its rows in the history) and clients that do not use
  `context.materialize` (`"materialize" \notin Requests`).
* `RecordedDropsAlwaysApplied` and `NoArtifactOrphaned`, from `TidyInv`: while no call
  has been cut short, every stored item is accepted or its ingest is running
  (`AllAccepted`), and recorded drops and artifacts *follow*: they are in the context
  already or in the plan the running call is applying.
* `StatAlwaysCounts`, from `StatInv`, which counts the update that is still due (`Due`)
  and the crashes; the cardinalities are those of `FiniteSetTheorems`.

`SumTheorems`: the models add up with the community modules' `SumFunctionOnSet`, a fold
that takes its elements in an order that `CHOOSE` picks. Its lemmas say that the order
does not matter (`SumRemove`), what happens when summands are changed, added, renamed or
compared, and that of finitely many numbers one is the largest and one the smallest.
They need induction over finite sets, which is done by taking a smallest set for which
the fact fails (`SmallestExists`).

`PlannerProofs`, about one plan (`Planner`'s `Spec`) for any context of any shapes:
* `ChosenCorrect`, and from it `PinsAlwaysUntouched` and `PlansAlwaysAllowed`. The
  invariant `ChosenInv` says for every action how the item started, where it is now and
  that its estimate is that of its level. The step that needs it is
  the greedy loop's choice of L4 for an item that cannot be externalized: it saves
  tokens only if the item has stood at L2 all along.
* `NewerCopyAlwaysStays`: `CopiesInv` (only duplicates are removed as such), and that a
  finite set of positions has a last one (`LastExists`, by well-founded induction).
* `TotalAlwaysMatches` and `PlannerTypeCorrect`, from `TotalInv`: the deduplication pass
  subtracts the tokens of all copies at once, which is right only because it finds every
  item as the pin pass left it, and the greedy loop subtracts one item's savings.
* `AlwaysGivesUpLast`: `EndInv`, what was evicted or removed counts no tokens, and
  the loop ends at its target or without an eligible item.
* `PlansEnd` and `PlansGoOn`, the two halves of termination for contexts of any size:
  every step lowers `StepsLeft`, which is a natural number, and until the plan is done
  the guard of some step holds (`GoesOn`). The second is the harder one: `IsBest`
  compares products of savings and costs, and that one of the eligible items comes out
  best takes that costs are positive (`CostType`), that fractions compared crosswise are
  ordered transitively (`FractionsTransitive`) and that finitely many have a largest.

`CompactionProofs`, about `Cycles`: plans and materializations in turn, for contexts of
any size, texts of any lines, any limits of the extractions and any number of rounds.
* `CyclesCorrect`: the invariant `CycleInv` is that of a plan (`PlanInv`, the four
  above) together with `RoundInv`: every item's estimates are what the reducers make of
  the text it has *now* (`Consistent`), and its text still has what the text it was
  submitted with had to keep (`NamesFailures`, `HoldsErrors`). `Materialize` starts a new
  plan, so its step shows that what it writes is a context that `Init` could have chosen.
* `EveryPlanIsGood`: therefore every plan of every round, not only the first one, is
  typed, adds up, spares what is pinned, keeps newest copies, gives up last and is one
  that `Session` allows for; and `EveryPlanAdvances`: it comes nearer to its end with
  every step and is never stuck.
* `FailuresAlwaysKept` and `ErrorsAlwaysKept`, with the limits that section 3 names, for
  outputs of any lines and length within them: rewriting a text that was rewritten before
  keeps what the first rewriting had kept. For errors the invariant has to be about the
  text without its colours (`HoldsErrors`), since the first rewriting may or may not have
  stripped them, and a reducer that refuses the text in both forms refuses every
  rewriting of it (`UncolouredMatches`). They rest on lemmas about
  what each reducer returns (`ShellReduceLines`, `TestReduceType`,
  `ShellExtractLines`...), which rest on how the n-th of a set of places is picked
  (`NthBijection`) and on what dropping repeated lines leaves (`RepeatsLeftOut`).
* `EstimatesAlwaysMet`, a property of steps: the sum over the plan is the sum over the
  items that stay, renumbered (`SumRenamed`).

`BudgetProofs`: an accepted configuration opens a new session (`FirstModelOpens`) and an
open session has a positive usable context (`OpenLeavesTokens`), up to the largest word,
although the three places that add the reserves treat overflow differently;
`StageMeansThreshold`, `CompactionFromThreshold` and `StageMonotone` about the pressure
state.

`ProtocolProofs`, for any number of requests, sessions, models and commands:
* `TypeCorrect`, with the server's state added (`AnswersServed`, `ValidatesStart`).
* `OwnAnswerHolds`: every answer in the pipe is what was served for its id
  (`AnswersOwn`).
* `CloseDrainsHolds`: unless the server crashes, every request written is served, in
  work or in the pipe (`NothingLost`).
* `RunsOnLastStartHolds`: the pipe holds the requests in order (`InOrder`), and the
  server's active session is that of the last accepted start so far (`ActiveIsLast`).

`IngestionProofs`, for any processes, sessions and files:
* `TypeCorrect` and `RowsKeptHolds`; `EventsOwnedHolds` and `PrefixStoredHolds`, from
  `HistoryInv`: an item whose event a command still has to write has none yet
  (`EventsAwaited`), and every line that a command has passed is stored (`AllStored`).

* `ReportedOnceHolds`, from `ClaimInv`: an id that a running command has passed or
  inserted is stored, is claimed by no other running command, and is named by no file
  that has been reported; so of two commands over files that share it one is refused.
* `HistoryAlwaysHoldsReports`, from `OwedInv`: in the place of what running commands
  have counted it puts what they *owe* (`Owed`), which is one more from the moment the
  row is inserted. Without it the property is not inductive: a count grows two
  statements after the row.
* `AveragesAlwaysWithinHistory`, for any weight of the moving average, from
  `AverageInv`: the statistics in the database and those that every command holds in
  memory, however old, are within the history of their session (`Within`: two of its
  events bound the average, and it counts no more than there are), and between its
  second and its third statement a command has one event in the history that its own
  statistic does not count (`Uncounted`). Histories only grow, so what was within one
  stays within it, and overwriting a newer statistic with an older one does no harm
  (`EmaBetween` and `UpdatedWithin` are the arithmetic, rounding included).

Every invariant and every action property of a passing run is stated by a theorem, for
every value of the constants. Assumed of the constants, besides their types: processes,
sessions, files and ids are finite sets (`IngestionAssumption`), the shapes that items
are submitted in agree with their texts (`ShapesAssumption`: their estimates are what
the reducers make of them, as the planner computes them), and the names of the lines
that reducers write are strings (`NamesAssumption`, which is true and which the provers,
to which strings are opaque, have to be told). TLC evaluates all of them in the runs.

Only model-checked: all liveness (`CallsReturn`, `Returns`, `Settles`), since neither
ENABLED nor reasoning from fairness is within the prover's reach. Of `Returns` only that
last step is missing: that a step whose guard holds is taken. The properties of the runs that expect a
violation are false.

## 6. Findings

Each is a run whose counterexample shows it.

1. `planner_importance` (`LowImportanceFirst`): `compute_plan` divides savings by `1 -
   importance`, so of two alike items the *more* important one is given up first, with
   the reason "evict: low importance".
2. `session_lost_update` (`PinnedKept`): `ingest` reads and rewrites the projection in
   two transactions; two processes can lose an accepted item, a pinned one too.
3. `session_artifact` (`ArtifactHoldsOriginal`): the artifact of an externalized item
   holds the text the item had in the projection, which may have been reduced before,
   not the original.
4. `planner_diagnostics` (`DiagnosticsKept`): an output can lose every line with an error,
   in four ways that the run's shapes have one of each: the run of a test tool other
   than cargo, of which `TestReducer` keeps nothing; a failing run whose `... FAILED`
   line is coloured, which its anchored expression does not match; the summary of a
   passing run that is reduced a second time; and a log with an error beside a coloured
   `test ... ok`: `ShellReducer` strips the colours in one compaction, `TestReducer`
   takes the log in the next, and "1 tests passed, 0 failed" takes the error's place.
   Each of the four shapes gives a counterexample without the others.
5. `ingestion_forecast` (`ForecastCoversTools`): events of a tool with a name of its own
   (`bash`) are not found by `max_tool_ema`, which looks for `tool`, `command`,
   `file-read` and `test`: no tool output is forecast for them.
6. `protocol_malformed` (`AllSettle`): an unreadable line is answered with id `unknown`,
   and the promise of its request stays open.
7. `protocol_stored` (`StoredModelsOpen`): a model that `Session::new` refuses has been
   stored, and is the one that the command line opens the session with from then on.

Observed while modelling, without a run of their own:

* a crash between `insert_item` and `append_event` leaves an item without event, and
  with a projection one that is never shown and cannot be submitted again;
* `context.materialize` applies a plan without recording it;
* `compact` records before it applies: a failure in between leaves a run in the history
  that never happened, and artifacts inserted by it refuse later externalizations;
* an ingest that fails after its insert does not drop the cached plan;
* items submitted as `Abandoned` or `Superseded` are hidden before the first compaction
  and shown after it;
* the greedy loop may evict one item although rewriting others would have sufficed;
* `is_pinned` pins every active error, where `docs/policy.md` asks for a non-zero exit
  code, and user messages that read like constraints, which it does not mention;
* an answer that arrives after the exit event is dropped: a request may be reported as
  failed and have been carried out;
* `item_id` is a key of the whole database, not of a session;
* `current_budget` adds token counts with an unchecked sum, and SQLite's `SUM` overflows
  in `history_totals`, where the planner saturates;
* a failing upsert leaves the statistic out of the cache (engine `lib.rs:453`), and the
  next event of that type overwrites the stored one;
* evictions stop at the ordinary target under emergency pressure too (policy
  `lib.rs:688`), where README.md:289 promises room for another cycle;
* L2 fallback (policy `lib.rs:620`): an item that cannot be externalized is estimated at
  L4 with the tokens of one more extraction; if that is shorter, the item is
  externalized, to a reference that may be longer than its text (README.md:87);
* the "reclaimed" tokens of `contextgc stats` are those planned, not those measured;
* `CompilerReducer` takes an output that also holds failed tests, and drops their lines;
* `ShellReducer::extract` drops only errors that repeat the line before them
  (`errors.dedup()`, policy `lib.rs:106`, "Avoid flooding with repeated errors"): two
  errors that alternate fill the 20 lines it keeps, and an error after them is lost
  unless it is near the end.
  `ErrorsKept` therefore counts lines, not different lines;
* a failed write is reported twice: the request's promise is rejected, and the child's
  stdin, for which the adapter has no `error` listener, raises an uncaught event;
* items of the same millisecond are ordered by their random ids;
* a file that was ingested in part is refused when run again if its items have ids, and
  stored twice if they have not.

## 7. What is not modelled

Parsing of TOML and JSON; printing and argument parsing of the command line; the
contents of reports (`status`, `plan`, `stats`), which change nothing; the translation
of Pi messages to items; memory backends, which nothing calls; rounding of `f32`; 64-bit
limits of token counts outside `Budget`; which characters make a word; `created_at` and
the order of rows it gives; `ensure_session`'s row and the checkpoint's fields, which no
code reads; custom importance weights, which nothing passes.

## 8. Plan

Done: every module above, its runs and the proofs of their safety properties. What could
follow:

1. `Ingestion` with projections, that is, composed with `Session`'s `materialize`, for
   several sessions and processes at once; the state space needs a coarser `Session`
   first.
2. `created_at` and the random order of items of the same millisecond, with what it does
   to `NewerCopyStays` and to recency.
3. 64-bit limits in `Planner`: its saturating sums beside the unchecked one of
   `current_budget`.
