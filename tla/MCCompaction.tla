---------------------------- MODULE MCCompaction ----------------------------
(* Contexts for TLC: what tools print, in lines of a few words.            *)
EXTENDS Compaction

Blank(kind, text) ==
  WithText([level |-> L0, tokens |-> AtLeastOne(Count(text)), reducible |-> FALSE,
            reduced |-> 0, extracted |-> 0, refTokens |-> ReferenceWords,
            kind |-> kind, state |-> "Active", hash |-> <<>>, child |-> FALSE,
            marked |-> FALSE, explicit |-> FALSE, recoverable |-> FALSE,
            source |-> FALSE, failed |-> FALSE],
           text)

Note(nr) == Plain("note", nr, 5, {})
Progress == Plain("10%", 0, 4, {"progress"})
Passed(nr) == Plain("test ... ok", nr, 6, {"ok"})
Failed(nr) == Plain("test ... FAILED", nr, 6, {"failed", "errorlike"})
Summary == Plain("test result: ...", 0, 11, {"result", "duration", "errorlike"})
Fatal(nr) == Plain("fatal: ...", nr, 6, {"errorlike"})
Mismatch == Plain("error[E0308]: ...", 0, 8, {"error", "bracket", "errorlike"})
Location == Plain("--> lib.rs:1:2", 0, 7, {"location"})
InColour(line) == [line EXCEPT !.coloured = TRUE]

(* A run of cargo test that passes, one that fails, one of another tool.   *)
PassingRun == Blank("TestResult", <<Passed(1), Passed(2), Passed(3), Summary>>)
FailingRun ==
  Blank("TestResult", <<Passed(1), Failed(2), InColour(Failed(3)), Note(1), Note(2), Summary>>)
OtherRun == Blank("TestResult", <<Note(1), Note(2), Fatal(1)>>)

(* A build that fails before its tests run, and a log.                     *)
Build == Blank("CommandOutput", <<Note(1), Mismatch, Location, Note(2)>>)
Log == Blank("CommandOutput", <<Progress, Note(1), Note(1), Fatal(1), Note(2), Note(3), Note(4)>>)
Storm == Blank("CommandOutput",
               <<Fatal(1), [Fatal(2) EXCEPT !.words = 12], Note(1), Note(2), Note(3), Fatal(3)>>)
Chat == Blank("UserMessage", <<Note(7)>>)
Prompt == Blank("SystemPrompt", <<Note(8), Note(9)>>)
File == [Blank("FileContent", <<Note(1), Note(2), Note(3), Note(4), Note(5)>>) EXCEPT
           !.recoverable = TRUE, !.source = TRUE]

(* A copy of it that the harness has marked as pinned.                     *)
PinnedFile == [File EXCEPT !.marked = TRUE]

(* A compiler error that is not resolved, and one that is.                 *)
Failure == [Blank("Error", <<Mismatch, Location>>) EXCEPT !.failed = TRUE]
OldFailure == [Blank("Error", <<Note(3), Mismatch, Location>>) EXCEPT !.state = "Resolved"]

(* A log in colours, whose tests are only recognized without them.         *)
ColouredLog ==
  Blank("CommandOutput", <<InColour(Passed(1)), Note(1), Note(1), Note(2)>>)

(* A log whose errors are in colours.                                      *)
ColouredErrors ==
  Blank("CommandOutput", <<InColour(Fatal(1)), Progress, Note(1), Note(1), InColour(Fatal(2)),
                           Note(2), Note(3)>>)

(* A failing run all in colours, and a log in which an error follows a test*)
(* in colours.                                                             *)
ColouredRun == Blank("TestResult", <<InColour(Passed(1)), InColour(Failed(2)), Note(1)>>)
MixedLog ==
  Blank("CommandOutput", <<InColour(Passed(1)), Fatal(1), Note(1), Note(1), Note(2)>>)

AllShapes == {PassingRun, FailingRun, OtherRun, Build, Log, Storm, Chat, Prompt, File,
              PinnedFile, Failure, OldFailure, ColouredLog, ColouredErrors}

NewShapes == {Chat, Log}

LossyShapes == {PassingRun, OtherRun, ColouredRun, MixedLog, Prompt}

(* Two short results: of a tool, and of another tool, in answer to a call. *)
Answer == Blank("ToolResult", <<Note(1)>>)
Rambling == Blank("AssistantMessage", <<Note(2)>>)
ShortShapes == {Answer, Rambling}

=============================================================================
