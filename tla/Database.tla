------------------------------ MODULE Database ------------------------------
(***************************************************************************)
(* Client.createDatabase and Client.dropDatabase: several calls at once,   *)
(* each with a client and a connection of its own, on one server.          *)
(*                                                                         *)
(* A call is a chain of callbacks: connect, exec of a lookup (create only),*)
(* exec of the statement, completion.  Of exec it uses what the module     *)
(* Client establishes: a query is sent once the connection is ready, and a *)
(* query that was sent is answered by its own result or error or, if the   *)
(* connection is lost, by connecitonLost; one that was only queued by then *)
(* is never answered, and exec without a connection answers at once.       *)
(***************************************************************************)
EXTENDS Naturals, FiniteSets

CONSTANTS
  Calls,          \* bound: the calls of the two functions
  Names,          \* names of databases
  NoName,         \* neither a name nor a database in the configuration
  Faults          \* what may go wrong

(* "refuse": no connection; "reject": no login; "lose": the connection is  *)
(* lost; "fail": the server answers a query with an error of its own.      *)
FaultKinds == {"refuse", "reject", "lose", "fail"}

ASSUME DatabaseAssumption == NoName \notin Names /\ Faults \subseteq FaultKinds

VARIABLES
  databases,      \* the server's databases
  request,        \* what each call was asked for
  stage,          \* how far it is: what it waits for
  link,           \* its connection,
  closing,        \*   and whether disconnect was called
  exchange,       \* its query, on the way to the server and back
  told,           \* what its completion was called with, "nil" for no error,
                  \*   the last answer the call has heard, and at what stage
  history         \* whether its database has existed, has been missing, and
                  \*   was created or dropped by the call, since it began

vars == <<databases, request, stage, link, closing, exchange, told, history>>

Silent == [error |-> "none", heard |-> "none", at |-> "none"]

Failures == {"error", "connectionLost", "notConnected", "writeFailed"}
Answers  == {"ok", "zero", "some"} \cup Failures

Init ==
  /\ databases \in SUBSET Names
  /\ request = [c \in Calls |-> <<"none", NoName>>]
  /\ stage = [c \in Calls |-> "none"]
  /\ link = [c \in Calls |-> "none"] /\ closing = [c \in Calls |-> FALSE]
  /\ exchange = [c \in Calls |-> "idle"]
  /\ told = [c \in Calls |-> Silent]
  /\ history = [c \in Calls |-> [existed |-> FALSE, missing |-> FALSE, changed |-> FALSE]]

Operation(c) == request[c][1]
Database(c)  == request[c][2]
Active(c)    == stage[c] \notin {"none", "done"}

-----------------------------------------------------------------------------
(* Callbacks.                                                              *)

\* exec, and what its callback does when it is called without a connection.
Exec(c, s, unconnected) ==
  IF link[c] = "up"
  THEN /\ stage' = [stage EXCEPT ![c] = s]
       /\ exchange' = [exchange EXCEPT ![c] = "queued"]
       /\ UNCHANGED <<told, closing>>
  ELSE unconnected

Complete(c, error, answer) ==
  /\ stage' = [stage EXCEPT ![c] = "done"]
  /\ exchange' = [exchange EXCEPT ![c] = "idle"]
  /\ told' = [told EXCEPT ![c] = [error |-> error, heard |-> answer, at |-> stage[c]]]

\* A mutant: the statement's client is not disconnected.
FinishOpen(c, answer) ==
  /\ Complete(c, IF answer = "ok" THEN "nil" ELSE answer, answer)
  /\ UNCHANGED closing

\* The callback of CREATE and of DROP
Finish(c, answer) ==
  /\ Complete(c, IF answer = "ok" THEN "nil" ELSE answer, answer)
  /\ closing' = [closing EXCEPT ![c] = TRUE]

\* A mutant: rows[0][0] == 0 the other way round.
LookedUpInverted(c, answer) ==
  IF answer = "some" THEN Exec(c, "create", Finish(c, "notConnected"))
                     ELSE Complete(c, "nil", answer) /\ UNCHANGED closing

\* The callback of the lookup.  `error' is still the one of connect: nil.
LookedUp(c, answer) ==
  IF answer = "zero" THEN Exec(c, "create", Finish(c, "notConnected"))
                     ELSE Complete(c, "nil", answer) /\ UNCHANGED closing

\* A mutant: a rejected login is not reported.
LoggedInSilent(c, answer) ==
  IF answer # "ok" THEN UNCHANGED <<stage, exchange, told, closing>>
  ELSE IF Operation(c) = "create"
       THEN Exec(c, "lookup", LookedUp(c, "notConnected"))
       ELSE Exec(c, "drop", Finish(c, "notConnected"))

\* connect's completion; the error of a rejected login is fatal and closes.
LoggedIn(c, answer) ==
  IF answer # "ok"
  THEN /\ Complete(c, answer, answer)
       /\ closing' = [closing EXCEPT ![c] = closing[c] \/ answer = "error"]
  ELSE IF Operation(c) = "create"
       THEN Exec(c, "lookup", LookedUp(c, "notConnected"))
       ELSE Exec(c, "drop", Finish(c, "notConnected"))

Continue(c, answer) ==
  /\ CASE stage[c] = "login"  -> LoggedIn(c, answer)
       [] stage[c] = "lookup" -> LookedUp(c, answer)
       [] stage[c] \in {"create", "drop"} -> Finish(c, answer)
  /\ UNCHANGED <<databases, request, link, history>>

-----------------------------------------------------------------------------
(* Steps.                                                                  *)

Call(c) ==
  /\ stage[c] = "none"
  /\ \E operation \in {"create", "drop"}, name \in Names \cup {NoName} :
       /\ request' = [request EXCEPT ![c] = <<operation, name>>]
       /\ IF name = NoName
          THEN /\ Complete(c, "noDatabaseNameProvided", "none")
               /\ UNCHANGED <<link, history>>
          ELSE /\ stage' = [stage EXCEPT ![c] = "connecting"]
               /\ link' = [link EXCEPT ![c] = "opening"]
               /\ history' = [history EXCEPT ![c] =
                    [existed |-> name \in databases, missing |-> name \notin databases,
                     changed |-> FALSE]]
               /\ UNCHANGED <<exchange, told>>
  /\ UNCHANGED <<databases, closing>>

\* The socket is connected; startup sends the startup message.
Connect(c) ==
  /\ link[c] = "opening"
  /\ link' = [link EXCEPT ![c] = "up"]
  /\ stage' = [stage EXCEPT ![c] = "login"]
  /\ exchange' = [exchange EXCEPT ![c] = "sent"]
  /\ UNCHANGED <<databases, request, closing, told, history>>

\* NIOSocket.connect has no handler for it: nobody is told.
Refuse(c) ==
  /\ link[c] = "opening" /\ "refuse" \in Faults
  /\ link' = [link EXCEPT ![c] = "refused"]
  /\ UNCHANGED <<databases, request, stage, closing, exchange, told, history>>

\* ReadyForQuery has been processed: the queued query is sent.
Send(c) ==
  /\ exchange[c] = "queued" /\ link[c] = "up"
  /\ exchange' = [exchange EXCEPT ![c] = "sent"]
  /\ UNCHANGED <<databases, request, stage, link, closing, told, history>>

\* The server executes what it was sent, also if nobody hears of it any more.
Replied(c, answer) ==
  exchange' = [exchange EXCEPT ![c] = IF link[c] = "up" THEN answer ELSE "lost"]

Change(c, after) ==
  /\ databases' = after
  /\ history' = [d \in Calls |->
       [existed |-> history[d].existed \/ (Active(d) /\ Database(d) \in after),
        missing |-> history[d].missing \/ (Active(d) /\ Database(d) \notin after),
        changed |-> history[d].changed \/ (d = c /\ after # databases)]]

Fails(c) ==
  \/ stage[c] = "login" /\ "reject" \in Faults
  \/ stage[c] # "login" /\ "fail" \in Faults
  \/ stage[c] = "create" /\ Database(c) \in databases
  \/ stage[c] = "drop" /\ Database(c) \notin databases

Serve(c) ==
  /\ exchange[c] = "sent"
  /\ \/ Fails(c) /\ Replied(c, "error") /\ Change(c, databases)
     \/ stage[c] = "login" /\ Replied(c, "ok") /\ Change(c, databases)
     \/ /\ stage[c] = "lookup" /\ Change(c, databases)
        /\ Replied(c, IF Database(c) \in databases THEN "some" ELSE "zero")
     \/ /\ stage[c] = "create" /\ Database(c) \notin databases
        /\ Replied(c, "ok") /\ Change(c, databases \cup {Database(c)})
     \/ /\ stage[c] = "drop" /\ Database(c) \in databases
        /\ Replied(c, "ok") /\ Change(c, databases \ {Database(c)})
  /\ UNCHANGED <<request, stage, link, closing, told>>

Hear(c) == Active(c) /\ exchange[c] \in Answers /\ Continue(c, exchange[c])

\* The login's message could not be written: the completion hears of it.
HearFailedWrite(c) ==
  /\ stage[c] = "login" /\ link[c] = "down" /\ exchange[c] \in {"sent", "lost"}
  /\ Continue(c, "writeFailed")

\* exec's observer of closed; the login has none.  What the server has not
\* executed when the loss is noticed it does not execute in this model.
HearLost(c) ==
  /\ stage[c] \in {"lookup", "create", "drop"} /\ exchange[c] \notin {"queued", "idle"}
  /\ link[c] = "down"
  /\ Continue(c, "connectionLost")

Close(c) ==
  /\ link[c] = "up" /\ (closing[c] \/ "lose" \in Faults)
  /\ link' = [link EXCEPT ![c] = "down"]
  /\ UNCHANGED <<databases, request, stage, closing, exchange, told, history>>

Next ==
  \E c \in Calls :
    \/ Call(c) \/ Connect(c) \/ Refuse(c) \/ Send(c) \/ Serve(c)
    \/ Hear(c) \/ HearLost(c) \/ HearFailedWrite(c) \/ Close(c)

Spec == Init /\ [][Next]_vars

\* Sockets connect, the server serves, queues run; nothing has to go wrong.
Fairness ==
  \A c \in Calls :
    /\ WF_vars(Connect(c) \/ Refuse(c)) /\ WF_vars(Send(c)) /\ WF_vars(Serve(c))
    /\ WF_vars(Hear(c) \/ HearLost(c)) /\ WF_vars(closing[c] /\ Close(c))

FairSpec == Spec /\ Fairness
-----------------------------------------------------------------------------
(* Properties.                                                             *)

\* A create that ended because its lookup failed.
LookupFailed(c) ==
  Operation(c) = "create" /\ told[c].at \in {"login", "lookup"} /\ told[c].heard \in Failures

(* What the completion is told is true of the server, whatever other calls *)
(* do at the same time: after a drop without an error the database did not *)
(* exist at some moment of the call, and after a create without an error   *)
(* it did; an error that is not the loss of the connection means that this *)
(* call changed nothing.  Nothing is claimed of what is told when the      *)
(* lookup of a create failed: the code tells no error there, against its   *)
(* documentation (Client.swift:144 and 129).                               *)
OutcomeIsTold ==
  \A c \in Calls :
    /\ told[c].error = "nil" /\ ~LookupFailed(c) =>
         \/ Operation(c) = "drop" /\ history[c].missing /\ history[c].changed
         \/ Operation(c) = "create" /\ history[c].existed
    /\ told[c].error \notin {"none", "nil", "connectionLost"} => ~history[c].changed

(* The connection of a call that has ended is closed, or about to be,      *)
(* except after a create that found its database or failed to look it up.  *)
(* (That client is not freed either, deinit does not disconnect it: the    *)
(* callback of a `once' observer holds on to the observer that holds it.)  *)
ConnectionsAreReturned ==
  \A c \in Calls :
    told[c] # Silent /\ link[c] = "up" /\ ~closing[c] =>
      /\ Operation(c) = "create" /\ told[c].error = "nil"
      /\ ~history[c].changed

(* Nobody is told of a connection that was refused, of one that is lost    *)
(* during the login, and of one that is lost before a query was sent.      *)
Forgotten(c) ==
  \/ link[c] = "refused"
  \/ link[c] = "down" /\ (stage[c] = "login" \/ exchange[c] = "queued")

(* Every other call calls its completion in the end, and the connections   *)
(* it is done with are closed.                                             *)
EveryCallIsAnswered ==
  \A c \in Calls :
    /\ stage[c] # "none" ~> told[c] # Silent \/ Forgotten(c)
    /\ closing[c] ~> link[c] = "down"
=============================================================================
