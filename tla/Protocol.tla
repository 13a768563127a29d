------------------------------ MODULE Protocol ------------------------------
(***************************************************************************)
(* The newline-delimited JSON protocol: the Pi adapter's ContextGCClient,  *)
(* the server process it spawns, the two pipes between them, and the model *)
(* information that server and command line keep in the database.          *)
(*                                                                         *)
(* The client numbers its requests, does not wait for an answer before it  *)
(* sends the next one, and settles the promise of a request when its       *)
(* answer, the error of its write, or the end of the server arrives.       *)
(*                                                                         *)
(* Simplifications:                                                        *)
(*  - what a call does to the session is the subject of module Session:    *)
(*    here it returns Ok or an error;                                      *)
(*  - a request is identified by its position in the order of sending;     *)
(*  - a session.start is cut in two at the point where the model is saved. *)
(***************************************************************************)
EXTENDS Integers, Sequences, FiniteSets, FiniteSetsExt

CONSTANTS
  Sessions,       \* session ids
  Models,         \* models that clients name
  ValidModels,    \* those whose window exceeds the reserves
  DefaultModel,   \* what the configuration gives for a model
  Unreadable,     \* clients send lines that do not parse as a Request
  MaxRequests,    \* bound: requests the client sends
  MaxCommands,    \* bound: commands run from the command line
  MaxCrashes,     \* bound: the server dies, 0 or 1
  None            \* Rust's Option::None, and a promise that is not settled

Starts     == [type : {"start"}, session : Sessions, model : Models]
Call       == [type |-> "call"]
Garbled    == [type |-> "unreadable"]
Payloads   == Starts \union {Call} \union (IF Unreadable THEN {Garbled} ELSE {})

(* The request_id of the answer to a line that has no readable one.        *)
Unknown == 0

(* A line that does not parse as an answer: the beginning of one.          *)
Torn == [id |-> Unknown, result |-> "torn"]

ASSUME ProtocolAssumption ==
  /\ ValidModels \subseteq Models
  /\ DefaultModel \in ValidModels
  /\ None \notin Sessions \union Models \union Nat \union {"ok", "error", "rejected"}
  /\ None \notin [session : Sessions, model : Models]
  /\ Unreadable \in BOOLEAN
  /\ MaxRequests \in Nat /\ MaxCommands \in Nat /\ MaxCrashes \in {0, 1}

VARIABLES
  (* The client. *)
  sent,      \* the payloads of its requests; the request_id is the index
  pending,   \* ContextGCClient.pending
  written,   \* requests whose line went into the pipe
  outcome,   \* how the promise of every request was settled, or None
  closed,    \* close was called: stdin has ended
  exitSeen,  \* the exit event of the server has been handled
  (* The pipes. *)
  toServer,  \* request ids
  toClient,  \* answers
  (* The server. *)
  server,    \* what it does next: read, validate, answer, or it has exited
  request,   \* the request it is handling
  active,    \* ServerState::session, with its model, or None
  served,    \* for every request its result and the session it ran on
  crashes,
  (* The database and the command line. *)
  stored,    \* the newest session.start event of every session, or None
  command,   \* the command that has read the stored model, or None
  commands

client   == <<sent, pending, written, outcome, closed, exitSeen>>
pipes    == <<toServer, toClient>>
serving  == <<server, request, active, served, crashes>>
database == <<stored, command, commands>>
vars     == <<client, pipes, serving, database>>

Ids == 1..MaxRequests

NotServed == [result |-> "none", session |-> None]

Init ==
  /\ sent = <<>> /\ pending = {} /\ written = {} /\ closed = FALSE
  /\ outcome = [n \in Ids |-> None] /\ exitSeen = FALSE
  /\ toServer = <<>> /\ toClient = <<>>
  /\ server = "read" /\ request = None /\ active = None
  /\ served = [n \in Ids |-> NotServed] /\ crashes = 0
  /\ stored = [s \in Sessions |-> None]
  /\ command = None /\ commands = 0

-----------------------------------------------------------------------------
(* The client.                                                             *)

(* request: a promise for the answer, and a write, which fails if the      *)
(* server is gone or stdin has ended.                                      *)
Send(payload) ==
  LET n == Len(sent) + 1 IN
  /\ n <= MaxRequests
  /\ sent' = Append(sent, payload)
  /\ pending' = pending \union {n}
  /\ IF closed \/ server = "exited"
     THEN UNCHANGED <<written, toServer>>
     ELSE written' = written \union {n} /\ toServer' = Append(toServer, n)
  /\ UNCHANGED <<outcome, closed, exitSeen, toClient, serving, database>>

(* The callback of a write that failed.                                    *)
WriteFails(n) ==
  /\ n \in pending \ written
  /\ pending' = pending \ {n}
  /\ outcome' = [outcome EXCEPT ![n] = "rejected"]
  /\ UNCHANGED <<sent, written, closed, exitSeen, pipes, serving, database>>

Close ==
  /\ ~closed
  /\ closed' = TRUE
  /\ UNCHANGED <<sent, pending, written, outcome, exitSeen, pipes, serving,
                 database>>

RejectAll ==
  /\ pending' = {}
  /\ outcome' = [n \in Ids |-> IF n \in pending THEN "rejected" ELSE outcome[n]]

(* Mutant of Receive: it settles the oldest pending request.               *)
ReceiveOldest ==
  /\ toClient # <<>>
  /\ Head(toClient) # Torn
  /\ toClient' = Tail(toClient)
  /\ IF pending # {}
     THEN /\ pending' = pending \ {Min(pending)}
          /\ outcome' = [outcome EXCEPT ![Min(pending)] = Head(toClient).result]
     ELSE UNCHANGED <<pending, outcome>>
  /\ UNCHANGED <<sent, written, closed, exitSeen, toServer, serving, database>>

(* handleResponse of an answer.                                            *)
Receive ==
  /\ toClient # <<>>
  /\ Head(toClient) # Torn
  /\ toClient' = Tail(toClient)
  /\ LET answer == Head(toClient) IN
       IF answer.id \in pending
       THEN /\ pending' = pending \ {answer.id}
            /\ outcome' = [outcome EXCEPT ![answer.id] = answer.result]
       ELSE UNCHANGED <<pending, outcome>>
  /\ UNCHANGED <<sent, written, closed, exitSeen, toServer, serving, database>>

(* handleResponse of a line that JSON.parse refuses.                       *)
ReceiveTorn ==
  /\ toClient # <<>>
  /\ Head(toClient) = Torn
  /\ toClient' = Tail(toClient)
  /\ RejectAll
  /\ UNCHANGED <<sent, written, closed, exitSeen, toServer, serving, database>>

(* Mutant of ExitEvent: the map is cleared before its promises are rejected.*)
ExitEventForgets ==
  /\ server = "exited"
  /\ ~exitSeen
  /\ exitSeen' = TRUE
  /\ pending' = {}
  /\ UNCHANGED <<sent, written, outcome, closed, pipes, serving, database>>

(* The exit event of the child process, which does not wait for the lines  *)
(* that are still in its stdout.                                           *)
ExitEvent ==
  /\ server = "exited"
  /\ ~exitSeen
  /\ exitSeen' = TRUE
  /\ RejectAll
  /\ UNCHANGED <<sent, written, closed, pipes, serving, database>>

-----------------------------------------------------------------------------
(* The server: run and handle_request.                                     *)

(* The result of the request is known; it remains to write the answer.     *)
Result(result, session) ==
  /\ served' = [served EXCEPT ![request'] = [result |-> result, session |-> session]]
  /\ server' = "answer"

Take(n) ==
  /\ server = "read"
  /\ toServer # <<>>
  /\ n = Head(toServer)
  /\ request' = n
  /\ toServer' = Tail(toServer)

(* start_session up to save_model_info.                                    *)
SaveModel(n) ==
  /\ Take(n)
  /\ sent[n].type = "start"
  /\ stored' = [stored EXCEPT ![sent[n].session] = sent[n].model]
  /\ server' = "validate"
  /\ UNCHANGED <<client, toClient, active, served, crashes, command, commands>>

(* Mutant of NewSession: the model is not checked.                         *)
NewSessionUnchecked ==
  /\ server = "validate"
  /\ UNCHANGED request
  /\ active' = [session |-> sent[request].session, model |-> sent[request].model]
  /\ Result("ok", sent[request].session)
  /\ UNCHANGED <<client, pipes, crashes, database>>

(* Mutant of NewSession: the old session is dropped first.                 *)
NewSessionDropsOld ==
  /\ server = "validate"
  /\ UNCHANGED request
  /\ LET start == sent[request] IN
       IF start.model \in ValidModels
       THEN /\ active' = [session |-> start.session, model |-> start.model]
            /\ Result("ok", start.session)
       ELSE active' = None /\ Result("error", None)
  /\ UNCHANGED <<client, pipes, crashes, database>>

(* Session::new and the assignment that makes it the active one.           *)
NewSession ==
  /\ server = "validate"
  /\ UNCHANGED request
  /\ LET start == sent[request] IN
       IF start.model \in ValidModels
       THEN /\ active' = [session |-> start.session, model |-> start.model]
            /\ Result("ok", start.session)
       ELSE /\ UNCHANGED active
            /\ Result("error", None)
  /\ UNCHANGED <<client, pipes, crashes, database>>

(* The other requests need a session, and may fail in it.                  *)
Handle(n) ==
  /\ Take(n)
  /\ sent[n].type = "call"
  /\ \/ active = None /\ Result("error", None)
     \/ active # None /\ \E result \in {"ok", "error"} : Result(result, active.session)
  /\ UNCHANGED <<client, toClient, active, crashes, database>>

(* A line that read_request refuses.                                       *)
Refuse(n) ==
  /\ Take(n)
  /\ sent[n].type = "unreadable"
  /\ Result("refused", None)
  /\ UNCHANGED <<client, toClient, active, crashes, database>>

Answer ==
  /\ server = "answer"
  /\ LET result == served[request].result IN
       toClient' = Append(toClient,
         IF result = "refused" THEN [id |-> Unknown, result |-> "error"]
         ELSE [id |-> request, result |-> result])
  /\ server' = "read"
  /\ request' = None
  /\ UNCHANGED <<client, toServer, active, served, crashes, database>>

(* Mutant of EndOfInput: the server leaves as soon as stdin is closed.     *)
EndOfInputEager ==
  /\ server = "read"
  /\ closed
  /\ server' = "exited"
  /\ active' = None
  /\ UNCHANGED <<client, pipes, request, served, crashes, database>>

(* EOF on stdin.                                                           *)
EndOfInput ==
  /\ server = "read"
  /\ closed /\ toServer = <<>>
  /\ server' = "exited"
  /\ active' = None
  /\ UNCHANGED <<client, pipes, request, served, crashes, database>>

(* The process dies, possibly in the middle of a write.  What is in its    *)
(* stdin is lost.                                                          *)
Crash ==
  /\ server # "exited"
  /\ crashes < MaxCrashes
  /\ crashes' = crashes + 1
  /\ toClient' \in {toClient} \union
                   {Append(toClient, Torn) : x \in {server} \intersect {"answer"}}
  /\ toServer' = <<>>
  /\ server' = "exited" /\ request' = None /\ active' = None
  /\ UNCHANGED <<client, served, database>>

-----------------------------------------------------------------------------
(* open_session of the command line.                                       *)

(* load_model_info, or the default, with the model given as a flag.        *)
LoadModel(s, flag) ==
  /\ command = None
  /\ commands < MaxCommands
  /\ commands' = commands + 1
  /\ command' = [session |-> s,
                 model |-> IF flag # None THEN flag
                           ELSE IF stored[s] # None THEN stored[s]
                           ELSE DefaultModel]
  /\ UNCHANGED <<client, pipes, serving, stored>>

(* save_model_info; Session::new, which follows, changes nothing here.     *)
KeepModel ==
  /\ command # None
  /\ stored' = [stored EXCEPT ![command.session] = command.model]
  /\ command' = None
  /\ UNCHANGED <<client, pipes, serving, commands>>

-----------------------------------------------------------------------------
ServerStep ==
  \/ \E n \in Ids : SaveModel(n) \/ Handle(n) \/ Refuse(n)
  \/ NewSession
  \/ Answer
  \/ EndOfInput

ClientEvent ==
  \/ Receive
  \/ ReceiveTorn
  \/ ExitEvent
  \/ \E n \in Ids : WriteFails(n)

CommandStep ==
  \/ \E s \in Sessions, flag \in Models \union {None} : LoadModel(s, flag)
  \/ KeepModel

Next ==
  \/ \E payload \in Payloads : Send(payload)
  \/ Close
  \/ ClientEvent
  \/ ServerStep
  \/ Crash
  \/ CommandStep

(* The server reads and answers as long as it lives (Session's calls       *)
(* return), and the event loop of the client delivers what has happened.   *)
Spec == Init /\ [][Next]_vars /\ WF_vars(ServerStep)
             /\ WF_vars(Receive \/ ReceiveTorn) /\ WF_vars(ExitEvent)
             /\ \A n \in Ids : WF_vars(WriteFails(n))

-----------------------------------------------------------------------------
(* Properties.                                                             *)

Answers == [id : Ids \union {Unknown}, result : {"ok", "error"}] \union {Torn}

TypeOK ==
  /\ sent \in Seq(Payloads) /\ Len(sent) <= MaxRequests
  /\ pending \subseteq DOMAIN sent /\ written \subseteq DOMAIN sent
  /\ outcome \in [Ids -> {"ok", "error", "rejected", None}]
  /\ closed \in BOOLEAN /\ exitSeen \in BOOLEAN
  /\ toServer \in Seq(DOMAIN sent)
  /\ toClient \in Seq(Answers)
  /\ server \in {"read", "validate", "answer", "exited"}
  /\ request \in DOMAIN sent \union {None}
  /\ request # None <=> server \in {"validate", "answer"}
  /\ active \in [session : Sessions, model : ValidModels] \union {None}
  /\ served \in [Ids -> [result : {"none", "ok", "error", "refused"},
                         session : Sessions \union {None}]]
  /\ crashes \in 0..MaxCrashes /\ commands \in 0..MaxCommands
  /\ stored \in [Sessions -> Models \union {None}]
  /\ command \in [session : Sessions, model : Models] \union {None}

(* A promise settles with the result of its own request, in whatever       *)
(* company its answer arrives: answers to unreadable lines, answers that   *)
(* come after their promise was rejected.                                  *)
OwnAnswer ==
  \A n \in Ids : outcome[n] \in {"ok", "error"} => served[n].result = outcome[n]

(* The session of the last session.start before request n that was         *)
(* accepted, None if there is none.                                        *)
AcceptedStart(k) == sent[k].type = "start" /\ served[k].result = "ok"

IsLastStart(session, n) ==
  IF session = None THEN \A k \in 1..(n - 1) : ~AcceptedStart(k)
  ELSE \E k \in 1..(n - 1) : /\ AcceptedStart(k) /\ sent[k].session = session
                            /\ \A j \in (k + 1)..(n - 1) : ~AcceptedStart(j)

(* A call runs on the session of the last session.start before it that was *)
(* accepted, though the client does not wait for the outcome of a start.   *)
RunsOnLastStart ==
  \A n \in DOMAIN sent :
    sent[n].type = "call" /\ served[n].result # "none" =>
      IsLastStart(served[n].session, n)

(* close is graceful: a server that comes to the end of its input has      *)
(* handled every line that was written before it.                          *)
CloseDrains ==
  server = "exited" /\ crashes = 0 =>
    \A n \in written : served[n].result # "none"

(* A promise whose request the server can read is settled, by an answer,   *)
(* a failed write or the end of the server: once the client stops sending, *)
(* as the bound makes it do, none is left open.                            *)
Open(n) == n \in DOMAIN sent /\ sent[n] # Garbled /\ outcome[n] = None

Settles == (\E n \in Ids : Open(n)) ~> (\A n \in Ids : ~Open(n))

(* protocol/src/lib.rs on request_id: "A unique request id echoed back in  *)
(* the response."  Every promise is settled.                               *)
AllSettle == \A n \in Ids : (n \in pending) ~> (outcome[n] # None)

(* common.rs on open_session: "Open the session, creating it on first      *)
(* use."  It starts from the stored model, which therefore has to be one   *)
(* that Session::new accepts.                                              *)
StoredModelsOpen == \A s \in Sessions : stored[s] \in ValidModels \union {None}

=============================================================================
