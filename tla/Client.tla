------------------------------- MODULE Client -------------------------------
(***************************************************************************)
(* A client, its connection and the server (Client.swift, Connection.swift)*)
(* from connect to the loss of the connection.  Three threads take part:   *)
(*   - the program, which calls connect, exec, prepare and disconnect;     *)
(*   - the connection's queue, which processes the server's messages:      *)
(*     transactionStatus and the emitting of events (Process);             *)
(*   - the client's queue, which runs everything else: the operations of   *)
(*     exec and prepare and the observers of events, one task at a time.   *)
(* An emitted event becomes one task on the client's queue for each        *)
(* observer registered at that moment.  A task that is already there is    *)
(* run even if its observer is removed in the meantime, which is why the   *)
(* same `once' observer may be called for two events.                      *)
(*                                                                         *)
(* Requests (calls of exec and prepare) are numbered in the order of the   *)
(* calls.  0 stands for the login and for the observers startup registers. *)
(* A message, a task and an answer carry the request they are about, so    *)
(* that the properties can tell whose rows are whose.                      *)
(***************************************************************************)
EXTENDS Integers, Sequences, FiniteSets

CONSTANTS
  Kinds,          \* the requests the program makes
  Names,          \* names of prepared statements
  Versions,       \* how many statements there are of each name
  ShareQueries,   \* whether a Query may be executed by several calls
  Replies,        \* how the server may reply
  Faults,         \* what may happen to the connection
  MaxRequests     \* bound: calls of exec and prepare

(* simple:   a Query without bindings; extended: one with bindings;        *)
(* named:    a Query with a prepared statement.                            *)
ExecKinds  == {"simple", "extended", "named"}
LoginKinds == {"startup", "password"}

(* "drop" closes the channel, "break" closes it after a socket error,      *)
(* "disconnect" is the program's call.                                     *)
FaultKinds == {"drop", "break", "disconnect"}

LoginReplies == {"challenge", "md5", "accept", "reject"}
QueryReplies ==
  {"command", "rows", "error", "lateError", "setting", "begin", "empty", "fatal"}

ASSUME ClientAssumption ==
  /\ Kinds \subseteq ExecKinds \cup {"prepare"}
  /\ Versions \in Nat /\ MaxRequests \in Nat /\ ShareQueries \in BOOLEAN
  /\ Replies \subseteq LoginReplies \cup QueryReplies
  /\ Faults \subseteq FaultKinds

Requests   == 1 .. MaxRequests
Statements == Names \X (1 .. Versions)   \* <<name, version>>
None       == <<"", 0>>                  \* no prepared statement

Name(s) == s[1]

VARIABLES
  (* the program: its calls, the callbacks waiting on Query.completed, and *)
  (* what the callbacks have been called with                              *)
  called, request, listening, answers,
  (* Client: its dispatch queue, queryQueue, preparedStatements, whether   *)
  (* it has a connection, and connect's completion                         *)
  queue, queryQueue, preparedStatements, connection, completion,
  (* the observers of each event, and what those of exec have gathered     *)
  observers, fields, rows,
  (* Connection and socket: messages received and not processed yet        *)
  transactionStatus, inbound, link, closing,
  (* what is on its way to the server, and whether a write has failed and  *)
  (* its completion was not called yet                                     *)
  toServer, writeFailed,
  (* the server: its statements, how it has replied                        *)
  serverStatements, reply

programVars == <<called, request, listening, answers>>
clientVars  == <<queryQueue, preparedStatements, connection, completion>>
gathered    == <<fields, rows>>
socketVars  == <<link, closing>>
serverVars  == <<serverStatements, reply>>
vars == <<programVars, queue, clientVars, observers, gathered,
          transactionStatus, inbound, socketVars, toServer, writeFailed, serverVars>>

Events == {"description", "row", "complete", "parseComplete", "error", "closed"}

ExecEventsOpen == {"description", "row", "error", "complete"}   \* a mutant: not closed
\* What an operation of exec, and one of prepare, observes while it runs.
ExecEvents    == {"description", "row", "closed", "error", "complete"}
PrepareEvents == {"parseComplete", "error"}

\* uncounted: a CommandComplete whose tag QueryResult does not read (SET, BEGIN).
MessageTypes == {"description", "row", "complete", "uncounted", "parseComplete",
                 "error", "fatal", "ready", "begun", "challenge", "md5"}

TaskTypes == Events \cup {"uncounted", "operation", "ready", "challenge", "fatal"}

Task(t, id, of)  == [type |-> t, id |-> id, of |-> of]
Message(t, of)   == [type |-> t, of |-> of]

\* unreadable: the command completed, but QueryResult.init threw.
AnswerTypes == {"success", "unreadable", "failure", "notConnected", "connectionLost",
                "prepared", "alreadyPrepared", "nameExists"}

\* of: the request whose message caused the answer, 0 when none did.
Answer(t, of) == [type |-> t, of |-> of, fields |-> 0, rows |-> <<>>]

TypeOK ==
  /\ called \in 0 .. MaxRequests
  /\ request \in [Requests -> [kind : Kinds \cup {"none"}, query : 0 .. MaxRequests,
                               statement : Statements \cup {None}]]
  /\ listening \subseteq Requests
  /\ answers \in [Requests -> Seq([type : AnswerTypes, of : 0 .. MaxRequests,
                     fields : 0 .. MaxRequests, rows : Seq(Requests)])]
  /\ queue \in Seq([type : TaskTypes, id : 0 .. MaxRequests, of : 0 .. MaxRequests])
  /\ queryQueue \in Seq(Requests)
  /\ preparedStatements \subseteq Statements
  /\ connection \in {"none", "open", "nil"}
  /\ completion \in {"none", "owed", "succeeded", "failed"}
  /\ observers \in [Events -> SUBSET (0 .. MaxRequests)]
  /\ fields \in [Requests -> 0 .. MaxRequests]
  /\ rows \in [Requests -> Seq(Requests)]
  /\ transactionStatus \in {"notReady", "idle", "inTransaction"}
  /\ inbound \in Seq([type : MessageTypes, of : 0 .. MaxRequests])
  /\ link \in {"none", "up", "broken", "down"} /\ closing \in BOOLEAN
  /\ toServer \in Seq([kind : Kinds \cup LoginKinds, of : 0 .. MaxRequests,
                       statement : Statements \cup {None}, parse : BOOLEAN])
  /\ Len(toServer) <= 1        \* one request at a time
  /\ writeFailed \in BOOLEAN
  /\ serverStatements \in [Names -> 0 .. Versions]
  /\ reply \in [0 .. MaxRequests -> Seq(MessageTypes)]

Init ==
  /\ called = 0 /\ listening = {}
  /\ request = [r \in Requests |-> [kind |-> "none", query |-> 0, statement |-> None]]
  /\ answers = [r \in Requests |-> <<>>]
  /\ queue = <<>> /\ queryQueue = <<>> /\ preparedStatements = {}
  /\ connection = "none" /\ completion = "none"
  /\ observers = [e \in Events |-> {}]
  /\ fields = [r \in Requests |-> 0] /\ rows = [r \in Requests |-> <<>>]
  /\ transactionStatus = "notReady" /\ inbound = <<>>
  /\ link = "none" /\ closing = FALSE
  /\ toServer = <<>> /\ writeFailed = FALSE
  /\ serverStatements = [n \in Names |-> 0]
  /\ reply = [r \in 0 .. MaxRequests |-> <<>>]

-----------------------------------------------------------------------------
(* Sending, answering, observing.                                          *)

\* NIOSocket.write fails on a closed channel, and drops what it is given
\* once `channel' is nil, some time after the channel has closed.
Send(kind, r, s, parse) ==
  /\ toServer' = IF link = "up"
                 THEN Append(toServer, [kind |-> kind, of |-> r, statement |-> s,
                                        parse |-> parse])
                 ELSE toServer
  /\ writeFailed' \in CASE link = "up"     -> {writeFailed}
                         [] link = "broken" -> {TRUE}
                         [] OTHER           -> {writeFailed, TRUE}

Listeners(q) == {p \in listening : request[p].query = q}

\* query.completed.emit: each callback is a `once' observer of its own.
Tell(hearing, answer) ==
  /\ answers' = [p \in Requests |-> IF p \in hearing THEN Append(answers[p], answer)
                                                     ELSE answers[p]]
  /\ listening' = listening \ hearing

\* The answer to an operation: exec emits completed, prepare calls back.
Conclude(r, answer) ==
  Tell(IF request[r].kind = "prepare" THEN {r} ELSE Listeners(request[r].query), answer)

Observe(r, events) ==
  observers' = [e \in Events |-> IF e \in events THEN observers[e] \cup {r}
                                                 ELSE observers[e]]

\* A mutant: only the observers that are called once.
ForgetOnce(r) == observers' = [e \in Events |-> IF e = "row" THEN observers[e]
                                                          ELSE observers[e] \ {r}]

Forget(r) == observers' = [e \in Events |-> observers[e] \ {r}]

\* Observers are called in the order they were registered.
InOrder(S) ==
  {f \in [1 .. Cardinality(S) -> S] : \A i, j \in DOMAIN f : i < j => f[i] < f[j]}

\* Both kinds of CommandComplete are the event commandComplete.
EventOf(type) == IF type = "uncounted" THEN "complete" ELSE type

Emit(type, of, more) ==
  \E f \in InOrder(observers[EventOf(type)]) :
    queue' = queue \o [i \in DOMAIN f |-> Task(type, f[i], of)] \o more

-----------------------------------------------------------------------------
(* Operations: the closures that exec and prepare enqueue.                 *)

NeverTaken(s) == FALSE    \* a mutant

NameTaken(s) == \E p \in preparedStatements : Name(p) = Name(s)

\* Nothing is sent, and transactionStatus stays idle.
Skip(r, t) ==
  /\ Conclude(r, Answer(t, 0))
  /\ UNCHANGED <<preparedStatements, observers, transactionStatus, toServer, writeFailed>>

SkipPrepared(r) ==
  /\ request[r].kind = "prepare" /\ request[r].statement \in preparedStatements
  /\ Skip(r, "alreadyPrepared")

NameClash(r) ==
  /\ request[r].statement # None
  /\ request[r].statement \notin preparedStatements
  /\ NameTaken(request[r].statement)
  /\ Skip(r, "nameExists")

\* A mutant: the status stays what it was.
TransmitAnytime(r, s, parse) ==
  /\ Send(request[r].kind, r, s, parse)
  /\ UNCHANGED <<answers, listening, transactionStatus>>

\* Every send but sync's sets transactionStatus.
Transmit(r, s, parse) ==
  /\ transactionStatus' = "notReady"
  /\ Send(request[r].kind, r, s, parse)
  /\ UNCHANGED <<answers, listening>>

ExecUnnamed(r) ==
  /\ request[r].kind \in {"simple", "extended"}
  /\ Observe(r, ExecEvents)
  /\ Transmit(r, None, request[r].kind = "extended")
  /\ UNCHANGED preparedStatements

ExecPrepared(r) ==
  /\ request[r].kind = "named" /\ request[r].statement \in preparedStatements
  /\ Observe(r, ExecEvents)
  /\ Transmit(r, request[r].statement, FALSE)
  /\ UNCHANGED preparedStatements

Parse(r) ==
  LET s == request[r].statement
  IN /\ s # None /\ s \notin preparedStatements /\ ~NameTaken(s)
     /\ preparedStatements' = preparedStatements \cup {s}
     /\ Observe(r, IF request[r].kind = "prepare" THEN PrepareEvents ELSE ExecEvents)
     /\ Transmit(r, s, TRUE)

Operation(r) ==
  SkipPrepared(r) \/ NameClash(r) \/ ExecUnnamed(r) \/ ExecPrepared(r) \/ Parse(r)

CanExecuteAnytime == connection = "open"    \* a mutant
CanExecute == connection = "open" /\ transactionStatus = "idle"

\* A mutant: the latest operation first.
ExecuteLatest(ops) ==
  \/ /\ CanExecute /\ ops # <<>>
     /\ queryQueue' = SubSeq(ops, 1, Len(ops) - 1)
     /\ Operation(ops[Len(ops)])
  \/ /\ ~CanExecute \/ ops = <<>>
     /\ queryQueue' = ops
     /\ UNCHANGED <<answers, listening, preparedStatements, observers,
                    transactionStatus, toServer, writeFailed>>

\* executeQuery, when the queue of operations is `ops'.
ExecuteQuery(ops) ==
  \/ /\ CanExecute /\ ops # <<>>
     /\ queryQueue' = Tail(ops)
     /\ Operation(Head(ops))
  \/ /\ ~CanExecute \/ ops = <<>>
     /\ queryQueue' = ops
     /\ UNCHANGED <<answers, listening, preparedStatements, observers,
                    transactionStatus, toServer, writeFailed>>

-----------------------------------------------------------------------------
(* The program.                                                            *)

isConnected == connection = "open" /\ link = "up"

\* connect's socket is connected; startup runs on its thread.
Startup ==
  /\ connection = "none"
  /\ connection' = "open" /\ completion' = "owed" /\ link' = "up"
  /\ observers' = [observers EXCEPT !["closed"] = {0}]
  /\ toServer' = Append(toServer, [kind |-> "startup", of |-> 0,
                                   statement |-> None, parse |-> FALSE])
  /\ UNCHANGED <<programVars, queue, queryQueue, preparedStatements, gathered,
                 transactionStatus, inbound, closing, writeFailed, serverVars>>

\* A Query may be the one of an earlier call, or a copy of it.
QueriesFor(r) ==
  {r} \cup IF ShareQueries THEN {request[p].query : p \in 1 .. r - 1} \ {0} ELSE {}

NewRequest(r, kind, q, s) ==
  /\ called < MaxRequests /\ r = called + 1
  /\ called' = r
  /\ request' = [request EXCEPT ![r] = [kind |-> kind, query |-> q, statement |-> s]]
  /\ UNCHANGED <<clientVars, observers, gathered, transactionStatus, inbound,
                 socketVars, toServer, writeFailed, serverVars>>

\* queue.async in enqueuQueryOperation
Enqueue(r) == queue' = Append(queue, Task("operation", r, 0))

StatementsFor(kind) == IF kind \in {"named", "prepare"} THEN Statements ELSE {None}

Exec(r) ==
  \E kind \in Kinds \ {"prepare"}, q \in QueriesFor(r) : \E s \in StatementsFor(kind) :
    /\ NewRequest(r, kind, q, s)
    /\ \/ /\ isConnected
          /\ listening' = listening \cup {r} /\ Enqueue(r)
          /\ UNCHANGED answers
       \/ /\ ~isConnected
          /\ Tell(Listeners(q) \cup {r}, Answer("notConnected", 0))
          /\ UNCHANGED queue

Prepare(r) ==
  \E s \in StatementsFor("prepare") :
    /\ "prepare" \in Kinds
    /\ NewRequest(r, "prepare", 0, s)
    /\ Enqueue(r)
    /\ UNCHANGED <<listening, answers>>

\* Only asks: the channel closes later.
Disconnect ==
  /\ "disconnect" \in Faults
  /\ connection = "open" /\ ~closing
  /\ closing' = TRUE
  /\ UNCHANGED <<programVars, queue, clientVars, observers, gathered, transactionStatus,
                 inbound, link, toServer, writeFailed, serverVars>>

-----------------------------------------------------------------------------
(* The socket, on its event loop.                                          *)

\* What was still on its way in either direction is lost; a write that was
\* not flushed yet fails.
Cut(l) ==
  /\ link' = l
  /\ \E n \in 0 .. Len(inbound) : inbound' = SubSeq(inbound, 1, n)
  /\ toServer' = <<>>
  /\ writeFailed' \in IF toServer = <<>> THEN {writeFailed} ELSE {writeFailed, TRUE}
  /\ Emit("closed", 0, <<>>)
  /\ UNCHANGED <<programVars, clientVars, observers, gathered, transactionStatus,
                 closing, serverVars>>

Close == link = "up" /\ (closing \/ "drop" \in Faults) /\ Cut("down")

\* errorCaught emits closed, and so does the channel that it closes.
Break == link = "up" /\ "break" \in Faults /\ Cut("broken")

CloseAgain ==
  /\ link = "broken" /\ link' = "down"
  /\ Emit("closed", 0, <<>>)
  /\ UNCHANGED <<programVars, clientVars, observers, gathered, transactionStatus,
                 inbound, closing, toServer, writeFailed, serverVars>>

\* The completion of a failed write emits Connection.error, which startup
\* observes.  (Several writes of one request that fail count as one: the
\* observer does nothing more for the second.)
ReportFailedWrite ==
  /\ writeFailed /\ writeFailed' = FALSE
  /\ queue' = Append(queue, Task("error", 0, 0))
  /\ UNCHANGED <<programVars, clientVars, observers, gathered, transactionStatus,
                 inbound, socketVars, toServer, serverVars>>

-----------------------------------------------------------------------------
(* The server.                                                             *)

Body == [command   |-> <<"complete">>,
         rows      |-> <<"description", "row", "row", "complete">>,
         error     |-> <<"error">>,
         lateError |-> <<"description", "row", "error">>,
         setting   |-> <<"uncounted">>,
         begin     |-> <<"uncounted">>,
         empty     |-> <<>>,
         fatal     |-> <<"fatal">>]

ReplyTo(r, types) ==
  /\ toServer # <<>> /\ link = "up" /\ r = toServer[1].of
  /\ toServer' = Tail(toServer)
  /\ inbound' = inbound \o [i \in DOMAIN types |-> Message(types[i], r)]
  /\ reply' = [reply EXCEPT ![r] = types]
  /\ closing' = (closing \/ types[Len(types)] = "fatal")   \* the server closes
  /\ UNCHANGED <<programVars, queue, clientVars, observers, gathered,
                 transactionStatus, link, writeFailed>>

ServeLogin ==
  /\ UNCHANGED serverStatements
  /\ \/ toServer[1].kind = "startup" /\ "challenge" \in Replies /\ ReplyTo(0, <<"challenge">>)
     \/ toServer[1].kind = "startup" /\ "md5" \in Replies /\ ReplyTo(0, <<"md5">>)
     \/ "accept" \in Replies /\ ReplyTo(0, <<"ready">>)
     \/ "reject" \in Replies /\ ReplyTo(0, <<"fatal">>)

Known(s) == serverStatements[Name(s)] = s[2]

Parsed(b) == IF b.parse THEN <<"parseComplete">> ELSE <<>>

\* The server keeps the first statement of a name.
Taken(b) == b.parse /\ b.statement # None /\ serverStatements[Name(b.statement)] # 0

\* Parse fails, and defines nothing.
ServeParseError(b) ==
  /\ b.parse /\ ("error" \in Replies \/ Taken(b))
  /\ ReplyTo(b.of, <<"error", "ready">>)
  /\ UNCHANGED serverStatements

\* Bind of a statement the server does not know.
ServeUnknown(b) ==
  /\ ~b.parse /\ b.statement # None /\ ~Known(b.statement)
  /\ ReplyTo(b.of, <<"error", "ready">>)
  /\ UNCHANGED serverStatements

Defines(b) ==
  /\ ~Taken(b)
  /\ b.statement # None /\ ~b.parse => Known(b.statement)
  /\ serverStatements' = IF b.parse /\ b.statement # None
       THEN [serverStatements EXCEPT ![Name(b.statement)] = b.statement[2]]
       ELSE serverStatements

ServePrepare(b) ==
  /\ b.kind = "prepare" /\ Defines(b)
  /\ ReplyTo(b.of, Parsed(b) \o <<"ready">>)

ServeExec(b) ==
  /\ b.kind \in ExecKinds /\ Defines(b)
  /\ \E answer \in Replies \cap QueryReplies :
       ReplyTo(b.of, Parsed(b) \o Body[answer]
         \o (CASE answer = "fatal" -> <<>> [] answer = "begin" -> <<"begun">>
               [] OTHER -> <<"ready">>))

Serve ==
  /\ toServer # <<>>
  /\ \/ toServer[1].kind \in LoginKinds /\ ServeLogin
     \/ /\ toServer[1].kind \notin LoginKinds
        /\ \/ ServeParseError(toServer[1]) \/ ServeUnknown(toServer[1])
           \/ ServePrepare(toServer[1]) \/ ServeExec(toServer[1])

-----------------------------------------------------------------------------
(* Connection.process, on the connection's queue.                          *)

Received(types) == inbound # <<>> /\ Head(inbound).type \in types

Processed ==
  /\ inbound' = Tail(inbound)
  /\ UNCHANGED <<programVars, clientVars, observers, gathered, socketVars, serverVars>>

ProcessEvent ==
  /\ Received({"description", "row", "complete", "uncounted", "parseComplete"})
  /\ Emit(Head(inbound).type, Head(inbound).of, <<>>)
  /\ Processed
  /\ UNCHANGED <<transactionStatus, toServer, writeFailed>>

\* errorResponse.emit, then error.emit, which startup observes
ProcessError ==
  /\ Received({"error", "fatal"})
  /\ Emit("error", Head(inbound).of,
          <<Task(IF Head(inbound).type = "fatal" THEN "fatal" ELSE "error",
                 0, Head(inbound).of)>>)
  /\ Processed
  /\ UNCHANGED <<transactionStatus, toServer, writeFailed>>

\* The status changes here; the client's queue learns of it later.
ProcessReadyForQuery ==
  /\ Received({"ready", "begun"})
  /\ transactionStatus' = IF Head(inbound).type = "ready" THEN "idle" ELSE "inTransaction"
  /\ queue' = Append(queue, Task("ready", 0, Head(inbound).of))
  /\ Processed
  /\ UNCHANGED <<toServer, writeFailed>>

ProcessCleartextPassword ==
  /\ Received({"challenge"})
  /\ queue' = Append(queue, Task("challenge", 0, 0))
  /\ Processed
  /\ UNCHANGED <<transactionStatus, toServer, writeFailed>>

\* The observer has no queue: it answers from here.
ProcessMD5Password ==
  /\ Received({"md5"})
  /\ Send("password", 0, None, FALSE)
  /\ Processed
  /\ UNCHANGED <<queue, transactionStatus>>

Process ==
  \/ ProcessEvent \/ ProcessError \/ ProcessReadyForQuery
  \/ ProcessCleartextPassword \/ ProcessMD5Password

-----------------------------------------------------------------------------
(* The client's queue: one task at a time.                                 *)

At(t) == queue # <<>> /\ Head(queue).type = t

Ran == queue' = Tail(queue) /\ UNCHANGED <<called, request, inbound, link, serverVars>>

\* enqueuQueryOperation
RunOperation ==
  /\ At("operation") /\ Ran
  /\ ExecuteQuery(Append(queryQueue, Head(queue).id))
  /\ UNCHANGED <<connection, completion, gathered, closing>>

\* Mutants of the next action: the completion is kept; nothing is executed.
RunReadyKeeping ==
  /\ At("ready") /\ Ran
  /\ ExecuteQuery(queryQueue)
  /\ UNCHANGED <<connection, completion, gathered, closing>>

RunReadyOnly ==
  /\ At("ready") /\ Ran
  /\ completion' = IF completion = "owed" THEN "succeeded" ELSE completion
  /\ UNCHANGED <<listening, answers, queryQueue, preparedStatements, connection,
                 observers, gathered, transactionStatus, toServer, writeFailed, closing>>

\* startup's observer of readyForQuery
RunReady ==
  /\ At("ready") /\ Ran
  /\ completion' = IF completion = "owed" THEN "succeeded" ELSE completion
  /\ ExecuteQuery(queryQueue)
  /\ UNCHANGED <<connection, gathered, closing>>

\* startup's observer of error: the completion is called with it
RunError ==
  /\ (At("error") /\ Head(queue).id = 0) \/ At("fatal")
  /\ Ran
  /\ completion' = IF completion = "owed" THEN "failed" ELSE completion
  /\ closing' = (closing \/ At("fatal"))
  /\ UNCHANGED <<listening, answers, queryQueue, preparedStatements, connection,
                 observers, gathered, transactionStatus, toServer, writeFailed>>

\* startup's observer of closed
RunClosed ==
  /\ At("closed") /\ Head(queue).id = 0 /\ Ran
  /\ connection' = "nil"
  /\ observers' = [observers EXCEPT !["closed"] = @ \ {0}]
  /\ UNCHANGED <<listening, answers, queryQueue, preparedStatements, completion,
                 gathered, transactionStatus, closing, toServer, writeFailed>>

RunCleartextPassword ==
  /\ At("challenge") /\ Ran
  /\ Send("password", 0, None, FALSE)
  /\ UNCHANGED <<listening, answers, clientVars, observers, gathered,
                 transactionStatus, closing>>

\* The observers of exec: what they change besides the answer.
Observing ==
  /\ Ran
  /\ UNCHANGED <<clientVars, transactionStatus, closing, toServer, writeFailed>>

RunDescription ==
  /\ At("description") /\ Observing
  /\ fields' = [fields EXCEPT ![Head(queue).id] = Head(queue).of]
  /\ observers' = [observers EXCEPT !["description"] = @ \ {Head(queue).id}]
  /\ UNCHANGED <<listening, answers, rows>>

RunRow ==
  /\ At("row") /\ Observing
  /\ rows' = [rows EXCEPT ![Head(queue).id] = Append(@, Head(queue).of)]
  /\ UNCHANGED <<listening, answers, observers, fields>>

Result(r, of) ==
  [type |-> "success", of |-> of, fields |-> fields[r], rows |-> rows[r]]

Occurrences(t, r) == Cardinality({i \in DOMAIN reply[r] : reply[r][i] = t})

\* QueryResult.init: the tag is read, and that of a SELECT counts the rows
\* the server has sent.
Readable(type, r, of) ==
  /\ type = "complete"
  /\ Occurrences("description", of) > 0 => Len(rows[r]) = Occurrences("row", of)

\* commandComplete: the command is over, whatever QueryResult makes of it
RunComplete ==
  /\ At("complete") \/ At("uncounted")
  /\ Observing
  /\ Conclude(Head(queue).id,
              IF Readable(Head(queue).type, Head(queue).id, Head(queue).of)
              THEN Result(Head(queue).id, Head(queue).of)
              ELSE Answer("unreadable", Head(queue).of))
  /\ Forget(Head(queue).id)
  /\ UNCHANGED gathered

\* errorResponse: of an exec or of a prepare
RunErrorResponse ==
  /\ At("error") /\ Head(queue).id # 0 /\ Observing
  /\ Conclude(Head(queue).id, Answer("failure", Head(queue).of))
  /\ Forget(Head(queue).id)
  /\ UNCHANGED gathered

RunConnectionLost ==
  /\ At("closed") /\ Head(queue).id # 0 /\ Observing
  /\ Conclude(Head(queue).id, Answer("connectionLost", 0))
  /\ Forget(Head(queue).id)
  /\ UNCHANGED gathered

\* parseComplete, which only prepare observes
RunPrepared ==
  /\ At("parseComplete") /\ Observing
  /\ Conclude(Head(queue).id, Answer("prepared", Head(queue).of))
  /\ Forget(Head(queue).id)
  /\ UNCHANGED gathered

RunTask ==
  \/ RunOperation \/ RunReady \/ RunError \/ RunClosed \/ RunCleartextPassword
  \/ RunDescription \/ RunRow \/ RunComplete \/ RunErrorResponse
  \/ RunConnectionLost \/ RunPrepared

Program == Startup \/ Disconnect \/ \E r \in Requests : Exec(r) \/ Prepare(r)
Socket  == Close \/ Break \/ CloseAgain \/ ReportFailedWrite

Next == Program \/ Socket \/ Serve \/ Process \/ RunTask

Spec == Init /\ [][Next]_vars

(***************************************************************************)
(* Dispatch queues run what they hold, messages that arrived are           *)
(* processed, the server replies to what it was sent, and a close that was *)
(* asked for happens.  Nothing is assumed of the program or of faults.     *)
(***************************************************************************)
Fairness ==
  /\ WF_vars(RunTask) /\ WF_vars(Process) /\ WF_vars(Serve)
  /\ WF_vars(closing /\ Close) /\ WF_vars(CloseAgain)

FairSpec == Spec /\ Fairness
-----------------------------------------------------------------------------
(* Properties.                                                             *)

IsExec(r) == request[r].kind \in ExecKinds

Shared(r) == \E p \in Requests \ {r} : IsExec(p) /\ request[p].query = request[r].query

\* The server's reply to x has one of these messages.
Said(x, types) == \E i \in DOMAIN reply[x] : reply[x][i] \in types

(* The callback of exec is told an outcome of its own Query, whole: the    *)
(* error the server sent for it, its result with all its rows and no       *)
(* others, or, of a command that completed with a tag QueryResult does not *)
(* read, that it is invalid; never that rows are missing.  It is the       *)
(* outcome of its own call, unless an earlier call with the same Query was *)
(* still to be answered: both are told of that one.                        *)
(* The callback of prepare is told its own outcome first; it may then be   *)
(* called again, with a success or an error, but only with what the server *)
(* replied to a later request (see the README).                            *)
(* Violated if two queries are on the wire at once, or if observers are    *)
(* registered too early or stay too long.                                  *)
OwnAnswer(r, a) ==
  /\ a.type \in {"success", "unreadable", "failure"} =>
       a.of = r \/ (a.of < r /\ IsExec(a.of) /\ request[a.of].query = request[r].query)
  /\ a.type = "failure" => Said(a.of, {"error", "fatal"})
  /\ a.type = "unreadable" => Said(a.of, {"uncounted"})
  /\ a.type = "success" =>
       /\ Said(a.of, {"complete"})
       /\ a.fields = IF Occurrences("description", a.of) > 0 THEN a.of ELSE 0
       /\ Len(a.rows) = Occurrences("row", a.of)
       /\ \A i \in DOMAIN a.rows : a.rows[i] = a.of

PreparedAnswer(r, i, a) ==
  /\ IF i = 1 THEN a.of \in {0, r} ELSE a.of > r
  /\ a.type = "prepared" => Said(a.of, {"parseComplete"})
  /\ a.type = "failure" => Said(a.of, {"error", "fatal"})

OwnAnswers ==
  \A r \in Requests :
    /\ IsExec(r) => /\ Len(answers[r]) <= 1
                    /\ \A i \in DOMAIN answers[r] : OwnAnswer(r, answers[r][i])
    /\ request[r].kind = "prepare" =>
         \A i \in DOMAIN answers[r] : PreparedAnswer(r, i, answers[r][i])

LoginFailed == \/ reply[0] = <<"fatal">>
               \/ link \in {"broken", "down"} /\ reply[0] # <<"ready">>

(* connect's completion reports the login: it succeeds only if the server  *)
(* accepted it, and it fails only if the server rejected it, or did not    *)
(* accept it before the connection was lost.  No error of a later query,   *)
(* and no write of one that failed, is mistaken for the login's, although  *)
(* one observer of error serves them all and a query may be sent before    *)
(* the completion has been called.  (So says Client.swift:237; the comment *)
(* on the other connect, line 220, says the opposite: see the README.)     *)
CompletionReportsLogin ==
  /\ completion = "succeeded" => reply[0] = <<"ready">>
  /\ completion = "failed" => LoginFailed

(* The client's list of prepared statements is the server's: a statement   *)
(* in it is known to the server under its name, or its Parse is on its way *)
(* or was refused; and the client never parses a name that is in use.      *)
Refused(s) == \E r \in Requests :
                request[r].statement = s /\ reply[r] = <<"error", "ready">>

StatementsAgree ==
  link = "up" =>
    /\ \A s \in preparedStatements :
         \/ Known(s) \/ Refused(s)
         \/ \E i \in DOMAIN toServer : toServer[i].statement = s /\ toServer[i].parse
    /\ \A i \in DOMAIN toServer : ~Taken(toServer[i])

(* The observers of an exec are registered exactly as long as it runs: it  *)
(* misses no row, error or loss while its callback waits, and once it has  *)
(* been answered nothing of it is left to see the rows of the next query.  *)
(* (An earlier call with the same Query may have answered it before.)      *)
Running(r) == r \in UNION {observers[e] : e \in Events}

ObservedWhileRunning ==
  \A r \in Requests : IsExec(r) /\ Running(r) =>
    /\ Shared(r) \/ (answers[r] = <<>> /\ r \in listening)
    /\ \A e \in ExecEvents \ {"description"} : r \in observers[e]

(* What the server is busy with, or has said and was not processed yet.    *)
Exchange ==
  {toServer[i].of : i \in DOMAIN toServer} \cup {inbound[i].of : i \in DOMAIN inbound}

Waiting ==
  {queryQueue[i] : i \in DOMAIN queryQueue}
    \cup {queue[i].id : i \in {j \in DOMAIN queue : queue[j].type = "operation"}}

(* The client is an executor: requests begin in the order of the calls,    *)
(* after the login, and never while another has the connection.            *)
Promise == INSTANCE Executor
             WITH waiting <- Waiting, exchange <- Exchange,
                  accepted <- reply[0] = <<"ready">> /\ 0 \notin Exchange

Executes == Promise!Spec

(* A query the server was sent is answered in the end, also if the         *)
(* connection is lost before the server's answer has been processed.       *)
SentQueriesAnswered ==
  \A r \in Requests : IsExec(r) /\ r \in Exchange ~> answers[r] # <<>>

(* While the connection lasts, no transaction is left open and no request  *)
(* is concluded without the server, every request is answered.             *)
Undisturbed ==
  /\ ~closing /\ link \notin {"broken", "down"}
  /\ transactionStatus # "inTransaction"
  /\ \A r \in Requests, i \in 1 .. MaxRequests :
       i \in DOMAIN answers[r] => answers[r][i].type \notin {"alreadyPrepared", "nameExists"}

EveryRequestAnswered ==
  []Undisturbed =>
    \A r \in Requests : called >= r /\ link = "up" ~> answers[r] # <<>>

(* Expected of the code, and violated by it: "Called once the query has    *)
(* been executed and all data returned, or when an error occurs": on a     *)
(* connection that lasts, every exec is answered, also after a prepare     *)
(* that had nothing to prepare.                                            *)
EveryExecAnswered == \A r \in Requests : IsExec(r) ~> answers[r] # <<>>
=============================================================================
