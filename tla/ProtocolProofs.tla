--------------------------- MODULE ProtocolProofs ---------------------------
(* Theorems about module Protocol, for any number of requests, sessions,   *)
(* models and commands, and whether or not the server dies.                *)
EXTENDS Protocol, TLAPS

(* The server writes an answer only when it has served a request.          *)
AnswersServed == server = "answer" => served[request].result # "none"

(* It checks a model only for a session.start.                             *)
ValidatesStart == server = "validate" => sent[request].type = "start"

TypeInv == TypeOK /\ AnswersServed /\ ValidatesStart

LEMMA InitType == Init => TypeInv
<1>. SUFFICES ASSUME Init PROVE TypeInv
  OBVIOUS
<1>1. sent \in Seq(Payloads) /\ Len(sent) = 0 /\ DOMAIN sent = {}
  BY DEF Init
<1>2. toServer \in Seq(DOMAIN sent) /\ toClient \in Seq(Answers)
  BY DEF Init
<1>3. request \in DOMAIN sent \union {None} /\ (request # None <=> server \in {"validate", "answer"})
  BY DEF Init
<1>4. served \in [Ids -> [result : {"none", "ok", "error", "refused"},
                         session : Sessions \union {None}]]
  BY DEF Init, NotServed
<1>5. /\ crashes \in 0..MaxCrashes /\ commands \in 0..MaxCommands
      /\ Len(sent) <= MaxRequests
  BY <1>1, ProtocolAssumption DEF Init
<1>6. QED
  BY <1>1, <1>2, <1>3, <1>4, <1>5 DEF Init, TypeInv, TypeOK, AnswersServed, ValidatesStart

USE DEF TypeInv

LEMMA SentIds == TypeInv => DOMAIN sent \subseteq Ids
  BY ProtocolAssumption DEF TypeOK, Ids

LEMMA SeqMonotone ==
  ASSUME NEW S, NEW T, S \subseteq T, NEW seq \in Seq(S)
  PROVE  seq \in Seq(T)
  OBVIOUS

LEMMA PayloadTypes ==
  ASSUME NEW payload \in Payloads
  PROVE  /\ payload.type \in {"start", "call", "unreadable"}
         /\ payload.type = "start" => payload.session \in Sessions /\ payload.model \in Models
  BY DEF Payloads, Starts, Call, Garbled

LEMMA SendType ==
  ASSUME TypeInv, NEW payload \in Payloads, Send(payload)
  PROVE  TypeInv'
<1>1. /\ sent' \in Seq(Payloads) /\ Len(sent') = Len(sent) + 1 /\ Len(sent') <= MaxRequests
      /\ DOMAIN sent' = DOMAIN sent \union {Len(sent) + 1}
  BY DEF Send, TypeOK
<1>2. toServer' \in Seq(DOMAIN sent')
  <2>1. toServer \in Seq(DOMAIN sent')
    BY <1>1, SeqMonotone DEF TypeOK
  <2>2. Append(toServer, Len(sent) + 1) \in Seq(DOMAIN sent')
    BY <1>1, <2>1
  <2>3. QED
    BY <2>1, <2>2 DEF Send
<1>3. QED
  BY <1>1, <1>2 DEF Send, TypeOK, AnswersServed, ValidatesStart, serving, database

LEMMA RejectAllType ==
  ASSUME TypeInv, RejectAll, UNCHANGED <<sent, served>>
  PROVE  /\ pending' \subseteq DOMAIN sent'
         /\ outcome' \in [Ids -> {"ok", "error", "rejected", None}]
  BY DEF RejectAll, TypeOK

LEMMA ClientType ==
  ASSUME TypeInv, ClientEvent \/ Close
  PROVE  TypeInv'
<1>1. CASE Close
  BY <1>1 DEF Close, TypeOK, AnswersServed, ValidatesStart, pipes, serving, database
<1>2. CASE Receive
  <2>1. Head(toClient) \in Answers /\ toClient' \in Seq(Answers)
    BY <1>2 DEF Receive, TypeOK
  <2>2. Head(toClient).result \in {"ok", "error"}
    BY <1>2, <2>1 DEF Receive, Answers
  <2>3. QED
    BY <1>2, <2>1, <2>2 DEF Receive, TypeOK, AnswersServed, ValidatesStart, serving, database
<1>3. CASE ReceiveTorn
  BY <1>3, RejectAllType DEF ReceiveTorn, TypeOK, AnswersServed, ValidatesStart, serving, database
<1>4. CASE ExitEvent
  BY <1>4, RejectAllType DEF ExitEvent, TypeOK, AnswersServed, ValidatesStart, pipes, serving, database
<1>5. CASE \E n \in Ids : WriteFails(n)
  BY <1>5 DEF WriteFails, TypeOK, AnswersServed, ValidatesStart, pipes, serving, database
<1>6. QED
  BY <1>1, <1>2, <1>3, <1>4, <1>5 DEF ClientEvent

(* What taking a request from stdin leaves.                                *)
LEMMA TakeType ==
  ASSUME TypeInv, NEW n \in Ids, Take(n)
  PROVE  /\ n \in DOMAIN sent /\ sent[n] \in Payloads
         /\ toServer' \in Seq(DOMAIN sent)
         /\ request' = n /\ n # None
<1>1. toServer # <<>> /\ toServer \in Seq(DOMAIN sent)
  BY DEF Take, TypeOK
<1>2. Head(toServer) \in DOMAIN sent /\ Tail(toServer) \in Seq(DOMAIN sent)
  BY <1>1
<1>3. n # None
  BY ProtocolAssumption DEF Ids
<1>4. QED
  BY <1>2, <1>3 DEF Take, TypeOK

LEMMA ServerType ==
  ASSUME TypeInv, ServerStep \/ Crash
  PROVE  TypeInv'
<1>1. ASSUME NEW n \in Ids, SaveModel(n) PROVE TypeInv'
  <2>1. sent[n].session \in Sessions /\ sent[n].model \in Models
    BY <1>1, TakeType, PayloadTypes DEF SaveModel
  <2>2. QED
    BY <1>1, <2>1, TakeType DEF SaveModel, Take, TypeOK, AnswersServed, ValidatesStart, client
<1>2. ASSUME NEW n \in Ids, Handle(n) PROVE TypeInv'
  <2>1. PICK result \in {"ok", "error"}, session \in Sessions \union {None} : Result(result, session)
    BY <1>2 DEF Handle, TypeOK
  <2>2. QED
    BY <1>2, <2>1, TakeType
    DEF Handle, Take, Result, TypeOK, AnswersServed, ValidatesStart, client, database
<1>3. ASSUME NEW n \in Ids, Refuse(n) PROVE TypeInv'
  BY <1>3, TakeType DEF Refuse, Take, Result, TypeOK, AnswersServed, ValidatesStart, client, database
<1>4. CASE NewSession
  <2>1. request \in DOMAIN sent /\ request \in Ids
    BY <1>4, SentIds DEF NewSession, TypeOK
  <2>2. sent[request].type = "start" /\ sent[request].session \in Sessions
    BY <1>4, <2>1, PayloadTypes DEF NewSession, TypeOK, ValidatesStart
  <2>3. active' \in [session : Sessions, model : ValidModels] \union {None}
    BY <1>4, <2>2 DEF NewSession, TypeOK
  <2>4. \E result \in {"ok", "error"}, session \in Sessions \union {None} :
          served' = [served EXCEPT ![request] = [result |-> result, session |-> session]]
    BY <1>4, <2>2 DEF NewSession, Result
  <2>5. /\ served' \in [Ids -> [result : {"none", "ok", "error", "refused"},
                                session : Sessions \union {None}]]
        /\ served'[request].result # "none"
    BY <2>1, <2>4 DEF TypeOK
  <2>6. server' = "answer" /\ request' = request
    BY <1>4 DEF NewSession, Result
  <2>7. QED
    BY <1>4, <2>1, <2>3, <2>5, <2>6
    DEF NewSession, TypeOK, AnswersServed, ValidatesStart, client, pipes, database
<1>5. CASE Answer
  <2>1. request \in DOMAIN sent /\ request \in Ids
    BY <1>5, SentIds DEF Answer, TypeOK
  <2>2. served[request].result \in {"ok", "error", "refused"}
    BY <1>5, <2>1 DEF Answer, TypeOK, AnswersServed, ValidatesStart
  <2>3. toClient' \in Seq(Answers)
    BY <1>5, <2>1, <2>2 DEF Answer, Answers, TypeOK
  <2>4. QED
    BY <1>5, <2>3 DEF Answer, TypeOK, AnswersServed, ValidatesStart, client, database
<1>6. CASE EndOfInput
  BY <1>6 DEF EndOfInput, TypeOK, AnswersServed, ValidatesStart, client, pipes, database
<1>7. CASE Crash
  <2>1. toClient' \in Seq(Answers)
    BY <1>7 DEF Crash, Answers, TypeOK
  <2>2. toServer' \in Seq(DOMAIN sent')
    BY <1>7 DEF Crash, client
  <2>3. crashes' \in 0..MaxCrashes
    BY <1>7, ProtocolAssumption DEF Crash, TypeOK
  <2>4. QED
    BY <1>7, <2>1, <2>2, <2>3 DEF Crash, TypeOK, AnswersServed, ValidatesStart, client, database
<1>8. QED
  BY <1>1, <1>2, <1>3, <1>4, <1>5, <1>6, <1>7 DEF ServerStep

LEMMA CommandType ==
  ASSUME TypeInv, CommandStep
  PROVE  TypeInv'
<1>1. ASSUME NEW s \in Sessions, NEW flag \in Models \union {None}, LoadModel(s, flag)
      PROVE  TypeInv'
  <2>1. command'.model \in Models /\ command' \in [session : Sessions, model : Models]
    BY <1>1, ProtocolAssumption DEF LoadModel, TypeOK
  <2>2. commands' \in 0..MaxCommands
    BY <1>1, ProtocolAssumption DEF LoadModel, TypeOK
  <2>3. QED
    BY <1>1, <2>1, <2>2 DEF LoadModel, TypeOK, AnswersServed, ValidatesStart, client, pipes, serving
<1>2. CASE KeepModel
  BY <1>2 DEF KeepModel, TypeOK, AnswersServed, ValidatesStart, client, pipes, serving
<1>3. QED
  BY <1>1, <1>2 DEF CommandStep

LEMMA NextType == TypeInv /\ [Next]_vars => TypeInv'
<1>. SUFFICES ASSUME TypeInv, [Next]_vars PROVE TypeInv'
  OBVIOUS
<1>1. CASE UNCHANGED vars
  BY <1>1 DEF vars, client, pipes, serving, database, TypeOK, AnswersServed, ValidatesStart
<1>2. QED
  BY <1>1, SendType, ClientType, ServerType, CommandType DEF Next

(* Requests, promises, pipes and the stored models stay well formed.       *)
THEOREM TypeCorrect == Spec => []TypeOK
<1>1. Spec => []TypeInv
  BY InitType, NextType, PTL DEF Spec
<1>2. QED
  BY <1>1, PTL

-----------------------------------------------------------------------------
(* The server serves requests in the order of sending, each of them once.  *)

Served(n) == served[n].result # "none"

(* Every request in stdin was sent after those that are served or being    *)
(* served, and before those behind it.                                     *)
InOrder ==
  /\ \A n \in Ids : Served(n) => n \in DOMAIN sent
  /\ \A j, k \in DOMAIN toServer : j < k => toServer[j] < toServer[k]
  /\ \A k \in DOMAIN toServer, n \in Ids :
       Served(n) \/ n = request => n < toServer[k]
  /\ server = "validate" => \A n \in Ids : Served(n) => n < request

LEMMA InitOrder == Init => InOrder
  BY DEF Init, InOrder, Served, NotServed

(* What serving the request at the head of stdin does to the order.        *)
LEMMA TakeOrder ==
  ASSUME TypeInv, InOrder, NEW n \in Ids, Take(n)
  PROVE  /\ ~Served(n)
         /\ \A m \in Ids : Served(m) => m < n
         /\ \A k \in DOMAIN toServer' : n < toServer'[k]
         /\ \A j, k \in DOMAIN toServer' : j < k => toServer'[j] < toServer'[k]
<1>1. /\ toServer \in Seq(DOMAIN sent) /\ Len(toServer) > 0 /\ 1 \in DOMAIN toServer
      /\ toServer[1] = n /\ toServer' = Tail(toServer)
  BY DEF Take, TypeOK
<1>2. \A k \in DOMAIN toServer' : /\ k + 1 \in DOMAIN toServer /\ 1 < k + 1 /\ k \in Int
                                 /\ toServer'[k] = toServer[k + 1]
  BY <1>1
<1>3. \A m \in Ids : Served(m) => m < n
  BY <1>1 DEF InOrder
<1>4. QED
  BY <1>1, <1>2, <1>3 DEF InOrder, Ids

LEMMA SendOrder ==
  ASSUME TypeInv, InOrder, NEW payload \in Payloads, Send(payload)
  PROVE  InOrder'
<1>. DEFINE new == Len(sent) + 1
<1>1. /\ DOMAIN sent = 1..Len(sent) /\ Len(sent) \in Nat
      /\ DOMAIN sent' = 1..new /\ served' = served /\ request' = request /\ server' = server
  BY DEF Send, TypeOK, serving
<1>2. \A m \in Ids : Served(m) \/ m = request => m < new
  BY <1>1, ProtocolAssumption DEF InOrder, TypeOK, Ids
<1>3. CASE toServer' = toServer
  BY <1>1, <1>3 DEF InOrder, Served
<1>4. CASE toServer' = Append(toServer, new)
  <2>1. \A k \in DOMAIN toServer' :
          \/ k \in DOMAIN toServer /\ toServer'[k] = toServer[k] /\ toServer[k] \in DOMAIN sent
          \/ k = Len(toServer) + 1 /\ toServer'[k] = new
    BY <1>4 DEF TypeOK
  <2>2. \A k \in DOMAIN toServer : k \in Int /\ k < Len(toServer) + 1 /\ toServer[k] < new
    BY <1>1 DEF TypeOK
  <2>3. \A j, k \in DOMAIN toServer' : j < k => toServer'[j] < toServer'[k]
    BY <2>1, <2>2, <1>4 DEF InOrder, TypeOK
  <2>4. \A k \in DOMAIN toServer', m \in Ids : Served(m) \/ m = request => m < toServer'[k]
    BY <2>1, <1>2 DEF InOrder
  <2>5. QED
    BY <1>1, <2>3, <2>4 DEF InOrder, Served
<1>5. QED
  BY <1>3, <1>4 DEF Send

(* A request that is taken and served at once.                             *)
LEMMA ServeOrder ==
  ASSUME TypeInv, InOrder, NEW n \in Ids, Take(n), UNCHANGED sent,
         \E result, session : Result(result, session)
  PROVE  InOrder'
<1>1. n \in DOMAIN sent /\ request' = n
  BY TakeType
<1>2. \A m \in Ids : m # n => served'[m] = served[m]
  BY <1>1 DEF Result, TypeOK
<1>3. \A k \in DOMAIN toServer' : toServer'[k] \in Ids
  BY TakeType, SentIds
<1>4. \A k \in DOMAIN toServer', m \in Ids : Served(m) => m < toServer'[k]
  BY <1>3, TakeOrder DEF Ids
<1>5. server' = "answer"
  BY DEF Result
<1>6. QED
  BY <1>1, <1>2, <1>4, <1>5, TakeOrder DEF InOrder, Served

LEMMA NextOrder == TypeInv /\ InOrder /\ [Next]_vars => InOrder'
<1>. SUFFICES ASSUME TypeInv, InOrder, [Next]_vars PROVE InOrder'
  OBVIOUS
<1>1. CASE UNCHANGED vars \/ CommandStep \/ Close \/ ClientEvent
  <2>1. UNCHANGED <<sent, toServer, served, request, server>>
    BY <1>1 DEF vars, client, pipes, serving, database, CommandStep, LoadModel, KeepModel,
       Close, ClientEvent, Receive, ReceiveTorn, ExitEvent, WriteFails
  <2>2. QED
    BY <2>1 DEF InOrder, Served
<1>2. CASE \E payload \in Payloads : Send(payload)
  BY <1>2, SendOrder
<1>3. ASSUME NEW n \in Ids, SaveModel(n) PROVE InOrder'
  <2>1. /\ UNCHANGED <<sent, served>> /\ server' = "validate" /\ request' = n /\ Take(n)
    BY <1>3 DEF SaveModel, Take, client
  <2>2. \A k \in DOMAIN toServer', m \in Ids : Served(m) => m < toServer'[k]
    <3>1. \A k \in DOMAIN toServer' : toServer'[k] \in Ids
      BY <2>1, TakeType, SentIds
    <3>2. QED
      BY <3>1, <2>1, TakeOrder DEF Ids
  <2>3. QED
    BY <2>1, <2>2, TakeOrder DEF InOrder, Served
<1>4. ASSUME NEW n \in Ids, Handle(n) \/ Refuse(n) PROVE InOrder'
  <2>1. Take(n) /\ UNCHANGED sent /\ \E result, session : Result(result, session)
    BY <1>4 DEF Handle, Refuse, client
  <2>2. QED
    BY <2>1, ServeOrder
<1>5. CASE NewSession
  <2>1. /\ UNCHANGED <<sent, toServer, request>> /\ server' = "answer"
        /\ server = "validate" /\ request \in DOMAIN sent
        /\ \A m \in Ids : m # request => served'[m] = served[m]
    BY <1>5, SentIds DEF NewSession, Result, client, pipes, TypeOK
  <2>2. QED
    BY <2>1 DEF InOrder, Served
<1>6. CASE Answer
  <2>1. UNCHANGED <<sent, toServer, served>> /\ request' = None /\ server' = "read"
    BY <1>6 DEF Answer, client
  <2>2. None \notin Ids
    BY ProtocolAssumption DEF Ids
  <2>3. QED
    BY <2>1, <2>2 DEF InOrder, Served
<1>7. CASE EndOfInput
  <2>1. UNCHANGED <<sent, toServer, served, request>> /\ server' = "exited"
    BY <1>7 DEF EndOfInput, client, pipes
  <2>2. QED
    BY <2>1 DEF InOrder, Served
<1>8. CASE Crash
  <2>1. UNCHANGED <<sent, served>> /\ toServer' = <<>> /\ server' = "exited"
    BY <1>8 DEF Crash, client
  <2>2. QED
    BY <2>1 DEF InOrder, Served
<1>9. QED
  BY <1>1, <1>2, <1>3, <1>4, <1>5, <1>6, <1>7, <1>8 DEF Next, ServerStep

(* What a step does to what is served: nothing, or it serves one request   *)
(* that was not served before and is later than all that were.             *)
Serves(n, result, session) ==
  /\ n \in DOMAIN sent /\ ~Served(n)
  /\ \A m \in Ids : Served(m) => m < n
  /\ server # "exited" /\ server' = "answer" /\ request' = n
  /\ sent' = sent
  /\ result \in {"ok", "error", "refused"}
  /\ served' = [served EXCEPT ![n] = [result |-> result, session |-> session]]

LEMMA HandleServes ==
  ASSUME TypeInv, InOrder, NEW n \in Ids, Handle(n) \/ Refuse(n)
  PROVE  /\ UNCHANGED active
         /\ \E result \in {"ok", "error", "refused"} :
              Serves(n, result, IF Handle(n) /\ active # None THEN active.session ELSE None)
<1>1. Take(n) /\ UNCHANGED <<sent, active>> /\ server = "read"
  BY DEF Handle, Refuse, Take, client
<1>2. /\ n \in DOMAIN sent /\ ~Served(n) /\ request' = n
      /\ \A m \in Ids : Served(m) => m < n
  BY <1>1, TakeType, TakeOrder
<1>3. CASE Handle(n)
  <2>1. PICK result \in {"ok", "error"} :
          Result(result, IF active # None THEN active.session ELSE None)
    BY <1>3 DEF Handle
  <2>2. QED
    BY <1>1, <1>2, <1>3, <2>1 DEF Serves, Result
<1>4. CASE Refuse(n) /\ ~Handle(n)
  <2>1. Result("refused", None)
    BY <1>4 DEF Refuse
  <2>2. QED
    BY <1>1, <1>2, <1>4, <2>1 DEF Serves, Result
<1>5. QED
  BY <1>3, <1>4

LEMMA NewSessionServes ==
  ASSUME TypeInv, InOrder, NewSession
  PROVE  /\ sent[request].type = "start"
         /\ \/ /\ Serves(request, "ok", sent[request].session)
               /\ active' # None /\ active'.session = sent[request].session
               /\ sent[request].session # None
            \/ Serves(request, "error", None) /\ UNCHANGED active
<1>1. /\ server = "validate" /\ request \in DOMAIN sent /\ request \in Ids
      /\ UNCHANGED <<request, sent>>
  BY SentIds DEF NewSession, TypeOK, client
<1>2. /\ ~Served(request) /\ \A m \in Ids : Served(m) => m < request
  BY <1>1 DEF InOrder, Ids
<1>3. sent[request].type = "start" /\ sent[request].session \in Sessions
       /\ sent[request].model \in Models
  BY <1>1, PayloadTypes DEF TypeOK, ValidatesStart
<1>4. CASE sent[request].model \in ValidModels
  <2>1. /\ active' = [session |-> sent[request].session, model |-> sent[request].model]
        /\ Result("ok", sent[request].session)
    BY <1>4 DEF NewSession
  <2>2. active' # None
    BY <2>1, <1>3, ProtocolAssumption
  <2>3. QED
    BY <1>1, <1>2, <1>3, <2>1, <2>2, ProtocolAssumption DEF Serves, Result
<1>5. CASE sent[request].model \notin ValidModels
  <2>1. UNCHANGED active /\ Result("error", None)
    BY <1>5 DEF NewSession
  <2>2. QED
    BY <1>1, <1>2, <1>3, <2>1 DEF Serves, Result
<1>6. QED
  BY <1>4, <1>5

LEMMA ServedSteps ==
  ASSUME TypeInv, InOrder, [Next]_vars
  PROVE  served' = served \/ \E n \in Ids : \E result, session : Serves(n, result, session)
<1>1. CASE \E n \in Ids : Handle(n) \/ Refuse(n)
  BY <1>1, HandleServes
<1>2. CASE NewSession
  BY <1>2, NewSessionServes, SentIds DEF Serves
<1>3. CASE ~NewSession /\ ~\E n \in Ids : Handle(n) \/ Refuse(n)
  BY <1>3 DEF Next, ServerStep, ClientEvent, CommandStep, vars, serving, Send, Close,
     Receive, ReceiveTorn, ExitEvent, WriteFails, SaveModel, Answer, EndOfInput, Crash,
     LoadModel, KeepModel
<1>4. QED
  BY <1>1, <1>2, <1>3

(* What is served stays as it is.                                          *)
LEMMA ServedKept ==
  ASSUME TypeInv, InOrder, [Next]_vars, NEW n \in Ids, Served(n)
  PROVE  served'[n] = served[n]
  BY ServedSteps DEF Serves, TypeOK

-----------------------------------------------------------------------------
(* Answers.                                                                *)

(* An answer in the pipe that names a request carries its result.          *)
AnswersOwn ==
  \A k \in DOMAIN toClient :
    toClient[k].id \in Ids =>
      /\ Served(toClient[k].id)
      /\ served[toClient[k].id].result = toClient[k].result

AnswerInv == AnswersOwn /\ OwnAnswer

LEMMA InitAnswer == Init => AnswerInv
  BY ProtocolAssumption DEF Init, AnswerInv, AnswersOwn, OwnAnswer, NotServed

LEMMA NextAnswer == TypeInv /\ InOrder /\ AnswerInv /\ [Next]_vars => AnswerInv'
<1>. SUFFICES ASSUME TypeInv, InOrder, AnswerInv, [Next]_vars PROVE AnswerInv'
  OBVIOUS
<1>1. \A n \in Ids : Served(n) => Served(n)' /\ served'[n] = served[n]
  BY ServedKept DEF Served
<1>2. CASE UNCHANGED <<outcome, toClient>>
  <2>1. AnswersOwn'
    BY <1>1, <1>2 DEF AnswerInv, AnswersOwn
  <2>2. OwnAnswer'
    BY <1>1, <1>2 DEF AnswerInv, OwnAnswer, Served
  <2>3. QED
    BY <2>1, <2>2 DEF AnswerInv
<1>3. CASE Receive
  <2>1. /\ toClient \in Seq(Answers) /\ Len(toClient) > 0 /\ 1 \in DOMAIN toClient
        /\ toClient' = Tail(toClient) /\ Head(toClient) = toClient[1] /\ served' = served
    BY <1>3 DEF Receive, TypeOK, serving
  <2>2. \A k \in DOMAIN toClient' : k + 1 \in DOMAIN toClient /\ toClient'[k] = toClient[k + 1]
    BY <2>1
  <2>3. AnswersOwn'
    BY <2>1, <2>2 DEF AnswerInv, AnswersOwn, Served
  <2>4. CASE toClient[1].id \in pending
    <3>1. outcome' = [outcome EXCEPT ![toClient[1].id] = toClient[1].result]
      BY <1>3, <2>1, <2>4 DEF Receive
    <3>2. toClient[1].id \in Ids
      BY <2>4, SentIds DEF TypeOK
    <3>3. served[toClient[1].id].result = toClient[1].result
      BY <2>1, <3>2 DEF AnswerInv, AnswersOwn
    <3>4. OwnAnswer'
      BY <2>1, <3>1, <3>2, <3>3 DEF AnswerInv, OwnAnswer, TypeOK
    <3>5. QED
      BY <2>3, <3>4 DEF AnswerInv
  <2>5. CASE toClient[1].id \notin pending
    <3>1. outcome' = outcome
      BY <1>3, <2>1, <2>5 DEF Receive
    <3>2. QED
      BY <2>1, <2>3, <3>1 DEF AnswerInv, OwnAnswer
  <2>6. QED
    BY <2>4, <2>5
<1>4. CASE ReceiveTorn \/ ExitEvent \/ \E n \in Ids : WriteFails(n)
  <2>1. /\ served' = served
        /\ \A n \in Ids : outcome'[n] \in {"rejected", outcome[n]}
    BY <1>4 DEF ReceiveTorn, ExitEvent, WriteFails, RejectAll, TypeOK, serving
  <2>2. OwnAnswer'
    BY <2>1 DEF AnswerInv, OwnAnswer
  <2>3. toClient' = toClient \/ (toClient # <<>> /\ toClient' = Tail(toClient))
    BY <1>4 DEF ReceiveTorn, ExitEvent, WriteFails, pipes
  <2>4. toClient \in Seq(Answers)
    BY DEF TypeOK
  <2>5. \A k \in DOMAIN toClient' : \E j \in DOMAIN toClient : toClient'[k] = toClient[j]
    BY <2>3, <2>4
  <2>6. AnswersOwn'
    BY <2>1, <2>5 DEF AnswerInv, AnswersOwn, Served
  <2>7. QED
    BY <2>2, <2>6 DEF AnswerInv
<1>5. CASE Answer \/ Crash
  <2>1. /\ served' = served /\ outcome' = outcome /\ toClient \in Seq(Answers)
    BY <1>5 DEF Answer, Crash, client, TypeOK
  <2>2. \/ toClient' = toClient
        \/ \E a : toClient' = Append(toClient, a) /\
             (a.id \in Ids => Served(a.id) /\ served[a.id].result = a.result)
    <3>1. Unknown \notin Ids /\ Torn.id \notin Ids
      BY DEF Unknown, Torn, Ids
    <3>2. CASE Answer
      <4>1. Served(request)
        BY <3>2 DEF Answer, AnswersServed, Served
      <4>2. CASE served[request].result = "refused"
        BY <3>1, <3>2, <4>2 DEF Answer
      <4>3. CASE served[request].result # "refused"
        <5>1. toClient' = Append(toClient, [id |-> request, result |-> served[request].result])
          BY <3>2, <4>3 DEF Answer
        <5>2. QED
          BY <4>1, <5>1
      <4>4. QED
        BY <4>2, <4>3
    <3>3. CASE Crash
      BY <3>1, <3>3 DEF Crash
    <3>4. QED
      BY <1>5, <3>2, <3>3
  <2>3. AnswersOwn'
    <3>1. CASE toClient' = toClient
      BY <2>1, <3>1 DEF AnswerInv, AnswersOwn, Served
    <3>2. ASSUME NEW a, toClient' = Append(toClient, a),
                 a.id \in Ids => Served(a.id) /\ served[a.id].result = a.result
          PROVE  AnswersOwn'
      <4>1. \A k \in DOMAIN toClient' : toClient'[k] = a \/ (k \in DOMAIN toClient /\ toClient'[k] = toClient[k])
        BY <2>1, <3>2
      <4>2. QED
        BY <2>1, <3>2, <4>1 DEF AnswerInv, AnswersOwn, Served
    <3>3. QED
      BY <2>2, <3>1, <3>2
  <2>4. QED
    BY <2>1, <2>3 DEF AnswerInv, OwnAnswer
<1>6. CASE ~(Receive \/ ReceiveTorn \/ ExitEvent \/ Answer \/ Crash \/ \E n \in Ids : WriteFails(n))
  <2>1. UNCHANGED <<outcome, toClient>>
    BY <1>6 DEF Next, ServerStep, ClientEvent, CommandStep, vars, client, pipes, Send, Close,
       SaveModel, Handle, Refuse, NewSession, EndOfInput, LoadModel, KeepModel
  <2>2. QED
    BY <1>2, <2>1
<1>7. QED
  BY <1>3, <1>4, <1>5, <1>6

(* ContextGCClient settles a promise only with the result the server had   *)
(* for the request of that promise.                                        *)
THEOREM OwnAnswerHolds == Spec => []OwnAnswer
<1>1. Init => TypeInv /\ InOrder /\ AnswerInv
  BY InitType, InitOrder, InitAnswer
<1>2. TypeInv /\ InOrder /\ AnswerInv /\ [Next]_vars => (TypeInv /\ InOrder /\ AnswerInv)'
  BY NextType, NextOrder, NextAnswer
<1>3. AnswerInv => OwnAnswer
  BY DEF AnswerInv
<1>4. QED
  BY <1>1, <1>2, <1>3, PTL DEF Spec

-----------------------------------------------------------------------------
(* Closing.                                                                *)

(* While the server has not crashed, a request that was written is served, *)
(* being served, or in the server's stdin.                                 *)
NothingLost ==
  crashes = 0 =>
    /\ \A n \in written : \/ Served(n) \/ (server = "validate" /\ n = request)
                         \/ \E k \in DOMAIN toServer : toServer[k] = n
    /\ server = "exited" => toServer = <<>>

LEMMA InitLost == Init => NothingLost
  BY DEF Init, NothingLost

LEMMA NextLost == TypeInv /\ InOrder /\ NothingLost /\ [Next]_vars => NothingLost'
<1>. SUFFICES ASSUME TypeInv, InOrder, NothingLost, [Next]_vars, crashes' = 0
              PROVE  NothingLost'
  BY DEF NothingLost
<1>0. /\ \A n \in Ids : Served(n) => Served(n)'
      /\ written \subseteq Ids /\ toServer \in Seq(DOMAIN sent)
  BY ServedKept, SentIds DEF Served, TypeOK
<1>1. ~Crash /\ crashes = 0
  BY DEF TypeOK, Next, ServerStep, ClientEvent, CommandStep, vars, serving, Send, Close,
     Receive, ReceiveTorn, ExitEvent, WriteFails, SaveModel, Handle, Refuse, NewSession,
     Answer, EndOfInput, Crash, LoadModel, KeepModel
<1>2. CASE UNCHANGED vars \/ CommandStep \/ Close \/ ClientEvent
  <2>1. UNCHANGED <<written, toServer, served, request, server>>
    BY <1>2 DEF vars, client, pipes, serving, database, CommandStep, LoadModel, KeepModel,
       Close, ClientEvent, Receive, ReceiveTorn, ExitEvent, WriteFails
  <2>2. QED
    BY <1>1, <2>1 DEF NothingLost, Served
<1>3. ASSUME NEW payload \in Payloads, Send(payload) PROVE NothingLost'
  <2>1. UNCHANGED <<served, request, server>>
    BY <1>3 DEF Send, serving
  <2>2. CASE closed \/ server = "exited"
    <3>1. UNCHANGED <<written, toServer>>
      BY <1>3, <2>2 DEF Send
    <3>2. QED
      BY <1>1, <2>1, <3>1 DEF NothingLost, Served
  <2>3. CASE ~(closed \/ server = "exited")
    <3>1. /\ written' = written \union {Len(sent) + 1}
          /\ toServer' = Append(toServer, Len(sent) + 1)
      BY <1>3, <2>3 DEF Send
    <3>2. /\ \A k \in DOMAIN toServer : k \in DOMAIN toServer' /\ toServer'[k] = toServer[k]
          /\ \E k \in DOMAIN toServer' : toServer'[k] = Len(sent) + 1
      BY <1>0, <3>1
    <3>3. QED
      BY <1>1, <2>1, <2>3, <3>1, <3>2 DEF NothingLost, Served
  <2>4. QED
    BY <2>2, <2>3
<1>4. ASSUME NEW n \in Ids, Take(n), written' = written,
             server' \in {"validate", "answer"}, server' = "answer" => Served(n)'
      PROVE  NothingLost'
  <2>1. toServer # <<>> /\ toServer[1] = n /\ toServer' = Tail(toServer) /\ request' = n
        /\ server = "read"
    BY <1>0, <1>4 DEF Take
  <2>2. \A k \in DOMAIN toServer : k = 1 \/ (k - 1 \in DOMAIN toServer' /\ toServer'[k - 1] = toServer[k])
    BY <1>0, <2>1
  <2>3. \A m \in written : Served(m)' \/ m = n \/ \E k \in DOMAIN toServer' : toServer'[k] = m
    BY <1>0, <1>1, <2>1, <2>2 DEF NothingLost
  <2>4. \A m \in written' : \/ Served(m)' \/ (server' = "validate" /\ m = request')
                           \/ \E k \in DOMAIN toServer' : toServer'[k] = m
    BY <1>4, <2>1, <2>3
  <2>5. server' # "exited"
    BY <1>4
  <2>6. QED
    BY <2>4, <2>5 DEF NothingLost
<1>5. ASSUME NEW n \in Ids, SaveModel(n) PROVE NothingLost'
  BY <1>4, <1>5 DEF SaveModel, client
<1>6. ASSUME NEW n \in Ids, Handle(n) \/ Refuse(n) PROVE NothingLost'
  <2>1. Served(n)' /\ server' = "answer"
    BY <1>6, HandleServes DEF Serves, Served, TypeOK
  <2>2. QED
    BY <1>4, <1>6, <2>1 DEF Handle, Refuse, client
<1>7. CASE NewSession
  <2>1. Served(request)' /\ server' = "answer" /\ request \in Ids
    BY <1>7, NewSessionServes, SentIds DEF Serves, Served, TypeOK
  <2>2. UNCHANGED <<written, toServer, request>>
    BY <1>7 DEF NewSession, client, pipes
  <2>3. QED
    BY <1>0, <1>1, <2>1, <2>2 DEF NothingLost
<1>8. CASE Answer \/ EndOfInput
  <2>1. UNCHANGED <<written, toServer, served>> /\ server \in {"answer", "read"}
        /\ server' \in {"read", "exited"} /\ (server' = "exited" => toServer = <<>>)
    BY <1>8 DEF Answer, EndOfInput, client, pipes
  <2>2. \A m \in written' : Served(m)' \/ \E k \in DOMAIN toServer' : toServer'[k] = m
    BY <1>1, <2>1 DEF NothingLost, Served
  <2>3. QED
    BY <2>1, <2>2 DEF NothingLost
<1>9. QED
  BY <1>1, <1>2, <1>3, <1>5, <1>6, <1>7, <1>8 DEF Next, ServerStep

(* The server's loop, run, ends only with its input: it has then handled   *)
(* every line that was written before close.                               *)
THEOREM CloseDrainsHolds == Spec => []CloseDrains
<1>1. Init => TypeInv /\ InOrder /\ NothingLost
  BY InitType, InitOrder, InitLost
<1>2. TypeInv /\ InOrder /\ NothingLost /\ [Next]_vars => (TypeInv /\ InOrder /\ NothingLost)'
  BY NextType, NextOrder, NextLost
<1>3. NothingLost => CloseDrains
  BY DEF NothingLost, CloseDrains, Served
<1>4. QED
  BY <1>1, <1>2, <1>3, PTL DEF Spec

-----------------------------------------------------------------------------
(* Sessions.                                                               *)

(* The active session is that of the last accepted session.start of all    *)
(* that were sent.                                                         *)
ActiveIsLast ==
  server # "exited" =>
    IsLastStart(IF active = None THEN None ELSE active.session, Len(sent) + 1)

StartInv == ActiveIsLast /\ RunsOnLastStart

LEMMA InitStart == Init => StartInv
  BY DEF Init, StartInv, ActiveIsLast, RunsOnLastStart, IsLastStart, AcceptedStart

(* Whether a session is that of the last start before a request depends    *)
(* on the earlier requests only.                                           *)
LEMMA StartsKept ==
  ASSUME TypeInv, NEW n \in Nat \ {0}, NEW session, IsLastStart(session, n),
         \A k \in 1..(n - 1) :
           /\ sent'[k] = sent[k]
           /\ sent[k].type = "start" => (served'[k].result = "ok" <=> served[k].result = "ok")
  PROVE  IsLastStart(session, n)'
<1>1. \A k \in 1..(n - 1) : AcceptedStart(k)' <=> AcceptedStart(k)
  BY DEF AcceptedStart
<1>2. CASE session = None
  BY <1>1, <1>2 DEF IsLastStart
<1>3. CASE session # None
  <2>1. PICK k \in 1..(n - 1) : /\ AcceptedStart(k) /\ sent[k].session = session
                                /\ \A j \in (k + 1)..(n - 1) : ~AcceptedStart(j)
    BY <1>3 DEF IsLastStart
  <2>2. \A j \in (k + 1)..(n - 1) : ~AcceptedStart(j)'
    BY <1>1, <2>1
  <2>3. AcceptedStart(k)' /\ sent'[k].session = session
    BY <1>1, <2>1
  <2>4. QED
    BY <1>3, <2>2, <2>3 DEF IsLastStart
<1>4. QED
  BY <1>2, <1>3

(* A start that is not accepted moves the end of the range.                *)
LEMMA StartsExtended ==
  ASSUME NEW n \in Nat \ {0}, NEW m \in Nat \ {0}, NEW session,
         IsLastStart(session, n),
         \A k \in Nat \ {0} : (n <= k /\ k < m) \/ (m <= k /\ k < n) => ~AcceptedStart(k)
  PROVE  IsLastStart(session, m)
<1>1. CASE session = None
  BY <1>1 DEF IsLastStart
<1>2. CASE session # None
  <2>1. PICK k \in 1..(n - 1) : /\ AcceptedStart(k) /\ sent[k].session = session
                                /\ \A j \in (k + 1)..(n - 1) : ~AcceptedStart(j)
    BY <1>2 DEF IsLastStart
  <2>2. k \in 1..(m - 1)
    BY <2>1
  <2>3. \A j \in (k + 1)..(m - 1) : ~AcceptedStart(j)
    BY <2>1
  <2>4. QED
    BY <1>2, <2>1, <2>2, <2>3 DEF IsLastStart
<1>3. QED
  BY <1>1, <1>2

LEMMA SentKept ==
  ASSUME TypeInv, [Next]_vars
  PROVE  /\ Len(sent) \in Nat /\ DOMAIN sent = 1..Len(sent) /\ Len(sent) <= Len(sent')
         /\ \A k \in DOMAIN sent : k \in DOMAIN sent' /\ sent'[k] = sent[k]
         /\ sent' = sent \/ \E payload \in Payloads : Send(payload)
<1>1. sent \in Seq(Payloads)
  BY DEF TypeOK
<1>2. ASSUME NEW payload \in Payloads, Send(payload)
      PROVE  Len(sent) <= Len(sent') /\ \A k \in DOMAIN sent : k \in DOMAIN sent' /\ sent'[k] = sent[k]
  BY <1>1, <1>2 DEF Send
<1>3. sent' = sent \/ \E payload \in Payloads : Send(payload)
  BY DEF Next, ServerStep, ClientEvent, CommandStep, vars, client, Close, Receive,
     ReceiveTorn, ExitEvent, WriteFails, SaveModel, Handle, Refuse, NewSession, Answer,
     EndOfInput, Crash, LoadModel, KeepModel
<1>4. QED
  BY <1>1, <1>2, <1>3

(* A call that is served now runs on the session that is active.           *)
LEMMA CallRuns ==
  ASSUME TypeInv, InOrder, ActiveIsLast, NEW n \in Ids, Handle(n) \/ Refuse(n),
         sent[n].type = "call",
         NEW session, session = IF active = None THEN None ELSE active.session
  PROVE  served'[n].session = session /\ IsLastStart(session, n)'
<1>1. Handle(n)
  BY DEF Refuse
<1>2. PICK result \in {"ok", "error", "refused"} : Serves(n, result, session)
  BY <1>1, HandleServes
<1>3. /\ served'[n].session = session /\ n \in DOMAIN sent /\ sent' = sent
      /\ \A k \in Ids : k # n => served'[k] = served[k]
      /\ \A k \in Ids : Served(k) => k < n
      /\ n \in Nat \ {0} /\ DOMAIN sent = 1..Len(sent) /\ Len(sent) \in Nat
  BY <1>2 DEF Serves, TypeOK, Ids
<1>4. ASSUME NEW last \in Nat \ {0}, last = Len(sent) + 1
      PROVE  IsLastStart(session, n)
  <2>1. IsLastStart(session, last)
    BY <1>2, <1>4 DEF ActiveIsLast, Serves
  <2>2. ASSUME NEW k \in Nat \ {0}, n <= k, k < last PROVE ~AcceptedStart(k)
    <3>1. k \in Ids
      BY <1>3, <1>4, <2>2, SentIds
    <3>2. QED
      BY <1>3, <2>2, <3>1 DEF AcceptedStart, Served
  <2>3. \A k \in Nat \ {0} : ~(last <= k /\ k < n)
    BY <1>3, <1>4
  <2>4. QED
    BY <1>3, <2>1, <2>2, <2>3, StartsExtended
<1>5. \A k \in 1..(n - 1) : sent'[k] = sent[k] /\ served'[k] = served[k]
  <2>1. \A k \in 1..(n - 1) : k \in DOMAIN sent /\ k # n
    BY <1>3
  <2>2. QED
    BY <1>3, <2>1, SentIds
<1>6. QED
  BY <1>3, <1>4, <1>5, StartsKept

LEMMA NextRuns == TypeInv /\ InOrder /\ StartInv /\ [Next]_vars => RunsOnLastStart'
<1>. SUFFICES ASSUME TypeInv, InOrder, StartInv, [Next]_vars,
                     NEW n \in DOMAIN sent', sent'[n].type = "call", Served(n)',
                     NEW session, session = served'[n].session
              PROVE  IsLastStart(session, n)'
  BY DEF RunsOnLastStart, Served
<1>1. n \in Ids /\ n \in Nat \ {0}
  <2>1. sent' \in Seq(Payloads) /\ Len(sent') <= MaxRequests
    BY NextType DEF TypeOK
  <2>2. QED
    BY <2>1, ProtocolAssumption DEF Ids
<1>2. CASE Served(n)
  <2>1. n \in DOMAIN sent /\ sent[n].type = "call" /\ served'[n] = served[n]
    BY <1>1, <1>2, SentKept, ServedKept DEF InOrder
  <2>2. IsLastStart(session, n)
    BY <1>2, <2>1 DEF StartInv, RunsOnLastStart, Served
  <2>3. \A k \in 1..(n - 1) : k \in DOMAIN sent /\ k \in Ids /\ sent'[k] = sent[k]
    BY <1>1, <2>1, SentKept, SentIds
  <2>4. \A k \in 1..(n - 1) : served'[k] = served[k]
    <3>1. CASE served' = served
      BY <3>1
    <3>2. ASSUME NEW m \in Ids, NEW result, NEW other, Serves(m, result, other)
          PROVE  \A k \in 1..(n - 1) : served'[k] = served[k]
      <4>1. n < m
        BY <1>1, <1>2, <3>2 DEF Serves
      <4>2. QED
        BY <1>1, <3>2, <4>1 DEF Serves, TypeOK, Ids
    <3>3. QED
      BY <3>1, <3>2, ServedSteps
  <2>5. QED
    BY <1>1, <2>2, <2>3, <2>4, StartsKept
<1>3. CASE ~Served(n)
  <2>1. served' # served
    BY <1>3 DEF Served
  <2>2. ~NewSession
    <3>1. ASSUME NewSession PROVE FALSE
      <4>1. request = n /\ sent' = sent
        BY <1>1, <1>3, <3>1, NewSessionServes DEF Serves, Served, TypeOK
      <4>2. QED
        BY <3>1, <4>1, NewSessionServes
    <3>2. QED
      BY <3>1
  <2>3. PICK m \in Ids : Handle(m) \/ Refuse(m)
    BY <2>1, <2>2 DEF Next, ServerStep, ClientEvent, CommandStep, vars, serving, Send,
       Close, Receive, ReceiveTorn, ExitEvent, WriteFails, SaveModel, Answer, EndOfInput,
       Crash, LoadModel, KeepModel
  <2>4. m = n /\ sent' = sent
    BY <1>1, <1>3, <2>3, HandleServes DEF Serves, Served, TypeOK
  <2>5. ASSUME NEW now, now = IF active = None THEN None ELSE active.session
        PROVE  IsLastStart(session, n)'
    <3>1. served'[n].session = now /\ IsLastStart(now, n)'
      BY <1>1, <2>3, <2>4, <2>5, CallRuns DEF StartInv
    <3>2. now = session
      BY <3>1
    <3>3. QED
      BY <3>1, <3>2
  <2>6. QED
    BY <2>5
<1>4. QED
  BY <1>2, <1>3

LEMMA NextActive == TypeInv /\ InOrder /\ StartInv /\ [Next]_vars => ActiveIsLast'
<1>. SUFFICES ASSUME TypeInv, InOrder, StartInv, [Next]_vars, server' # "exited"
              PROVE  IsLastStart(IF active = None THEN None ELSE active.session, Len(sent) + 1)'
  BY DEF ActiveIsLast
<1>. DEFINE session == IF active = None THEN None ELSE active.session
<1>1. /\ server # "exited" /\ DOMAIN sent = 1..Len(sent) /\ Len(sent) \in Nat
      /\ Len(sent) + 1 \in Nat \ {0} /\ DOMAIN sent \subseteq Ids
  <2>1. server # "exited"
    BY DEF Next, ServerStep, ClientEvent, CommandStep, vars, serving, Send, Close, Receive,
       ReceiveTorn, ExitEvent, WriteFails, SaveModel, Handle, Refuse, NewSession, Answer,
       EndOfInput, Crash, LoadModel, KeepModel, Take
  <2>2. QED
    BY <2>1, SentKept, SentIds
<1>2. IsLastStart(session, Len(sent) + 1)
  BY <1>1 DEF StartInv, ActiveIsLast
<1>3. ASSUME UNCHANGED active, sent' = sent,
             \A k \in DOMAIN sent :
               sent[k].type = "start" => (served'[k].result = "ok" <=> served[k].result = "ok")
      PROVE  IsLastStart(session, Len(sent) + 1)'
  <2>1. session' = session /\ Len(sent') = Len(sent)
    BY <1>3
  <2>. HIDE DEF session
  <2>2. \A k \in 1..(Len(sent) + 1 - 1) : k \in DOMAIN sent
    BY <1>1
  <2>3. IsLastStart(session, Len(sent) + 1) /\ Len(sent) + 1 \in Nat \ {0}
    BY <1>1, <1>2
  <2>4. ASSUME NEW last \in Nat \ {0}, last = Len(sent) + 1, NEW same, same = session
        PROVE  IsLastStart(same, last)'
    BY <1>3, <2>2, <2>3, <2>4, StartsKept
  <2>5. QED
    BY <1>1, <2>1, <2>4
<1>4. CASE NewSession
  <2>1. CASE Serves(request, "error", None) /\ UNCHANGED active
    BY <1>3, <2>1 DEF Serves, Served, TypeOK
  <2>2. CASE /\ Serves(request, "ok", sent[request].session)
             /\ active' # None /\ active'.session = sent[request].session
             /\ sent[request].session # None
    <3>1. /\ request \in 1..Len(sent) /\ sent' = sent
          /\ served'[request].result = "ok"
          /\ \A k \in Ids : Served(k) => k < request
          /\ \A k \in Ids : k # request => served'[k] = served[k]
      BY <1>1, <2>2 DEF Serves, TypeOK
    <3>2. AcceptedStart(request)'
      <4>1. request' = request
        BY <2>2 DEF Serves
      <4>2. QED
        BY <1>4, <3>1, <4>1, NewSessionServes DEF AcceptedStart
    <3>3. \A j \in (request + 1)..Len(sent) : ~AcceptedStart(j)'
      BY <1>1, <3>1 DEF AcceptedStart, Served
    <3>4. QED
      BY <1>1, <2>2, <3>1, <3>2, <3>3 DEF IsLastStart, Serves
  <2>3. QED
    BY <1>4, <2>1, <2>2, NewSessionServes
<1>5. ASSUME NEW n \in Ids, Handle(n) \/ Refuse(n)
      PROVE  IsLastStart(session, Len(sent) + 1)'
  <2>1. sent[n].type # "start"
    BY <1>5 DEF Handle, Refuse
  <2>2. UNCHANGED active /\ sent' = sent /\ \A k \in Ids : k # n => served'[k] = served[k]
    BY <1>5, HandleServes DEF Serves, TypeOK
  <2>3. QED
    BY <1>1, <1>3, <2>1, <2>2
<1>6. ASSUME NEW payload \in Payloads, Send(payload)
      PROVE  IsLastStart(session, Len(sent) + 1)'
  <2>1. UNCHANGED <<active, served>> /\ Len(sent') = Len(sent) + 1
    BY <1>6 DEF Send, serving, TypeOK
  <2>2. session' = session
    BY <2>1
  <2>. HIDE DEF session
  <2>3. ASSUME NEW last \in Nat \ {0}, last = Len(sent) + 1, NEW same, same = session
        PROVE  IsLastStart(same, last + 1)'
    <3>1. IsLastStart(same, last)'
      BY <1>1, <1>2, <2>1, <2>3, SentKept, StartsKept
    <3>2. last \in Ids /\ ~AcceptedStart(last)'
      <4>1. last \in Ids
        BY <1>1, <2>3, <2>1, NextType, SentKept, ProtocolAssumption DEF Ids, TypeOK
      <4>2. ~Served(last)
        BY <1>1, <2>3, <4>1 DEF InOrder
      <4>3. QED
        BY <2>1, <4>1, <4>2 DEF AcceptedStart, Served
    <3>3. CASE same = None
      BY <2>3, <3>1, <3>2, <3>3 DEF IsLastStart
    <3>4. CASE same # None
      <4>1. PICK k \in 1..(last - 1) : /\ AcceptedStart(k)' /\ sent'[k].session = same
                                       /\ \A j \in (k + 1)..(last - 1) : ~AcceptedStart(j)'
        BY <3>1, <3>4 DEF IsLastStart
      <4>2. \A j \in (k + 1)..last : ~AcceptedStart(j)'
        BY <3>2, <4>1
      <4>3. QED
        BY <2>3, <3>4, <4>1, <4>2 DEF IsLastStart
    <3>5. QED
      BY <3>3, <3>4
  <2>4. QED
    BY <1>1, <2>1, <2>2, <2>3
<1>7. CASE ~NewSession /\ ~(\E n \in Ids : Handle(n) \/ Refuse(n))
           /\ ~\E payload \in Payloads : Send(payload)
  <2>1. UNCHANGED <<active, served, sent>>
    BY <1>1, <1>7 DEF Next, ServerStep, ClientEvent, CommandStep, vars, client, serving,
       Close, Receive, ReceiveTorn, ExitEvent, WriteFails, SaveModel, Answer, EndOfInput,
       Crash, LoadModel, KeepModel
  <2>2. QED
    BY <1>3, <2>1
<1>8. QED
  BY <1>4, <1>5, <1>6, <1>7

(* start_session and handle_request: however the client runs ahead, a call *)
(* is carried out in the session of the last accepted start before it.     *)
THEOREM RunsOnLastStartHolds == Spec => []RunsOnLastStart
<1>1. Init => TypeInv /\ InOrder /\ StartInv
  BY InitType, InitOrder, InitStart
<1>2. TypeInv /\ InOrder /\ StartInv /\ [Next]_vars => (TypeInv /\ InOrder /\ StartInv)'
  BY NextType, NextOrder, NextRuns, NextActive DEF StartInv
<1>3. StartInv => RunsOnLastStart
  BY DEF StartInv
<1>4. QED
  BY <1>1, <1>2, <1>3, PTL DEF Spec

=============================================================================
