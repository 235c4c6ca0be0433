--------------------------- MODULE DatabaseProofs ---------------------------
(***************************************************************************)
(* Theorems about Database, for any number of calls, any names and any     *)
(* faults, with their proofs.                                              *)
(***************************************************************************)
EXTENDS Database, TLAPS

Operations == {"none", "create", "drop"}
Stages     == {"none", "connecting", "login", "lookup", "create", "drop", "done"}
Links      == {"none", "opening", "refused", "up", "down"}
Exchanges  == Answers \cup {"idle", "queued", "sent", "lost"}
Outcomes   == [error : Answers \cup {"none", "nil", "noDatabaseNameProvided"},
               heard : Answers \cup {"none"}, at : Stages]
Histories  == [existed : BOOLEAN, missing : BOOLEAN, changed : BOOLEAN]

Typed ==
  /\ databases \subseteq Names
  /\ request \in [Calls -> Operations \X (Names \cup {NoName})]
  /\ stage \in [Calls -> Stages]
  /\ link \in [Calls -> Links]
  /\ closing \in [Calls -> BOOLEAN]
  /\ exchange \in [Calls -> Exchanges]
  /\ told \in [Calls -> Outcomes]
  /\ history \in [Calls -> Histories]

-----------------------------------------------------------------------------
(***************************************************************************)
(* The inductive invariant: what a call knows, stage by stage.             *)
(***************************************************************************)

\* The answers that may be on their way, and how the connection is.
Possible(c) ==
  /\ stage[c] = "none" => exchange[c] = "idle" /\ link[c] = "none"
  /\ stage[c] = "connecting" => exchange[c] = "idle" /\ link[c] \in {"opening", "refused"}
  /\ stage[c] = "login" => exchange[c] \in {"sent", "ok", "error", "lost"}
  /\ stage[c] = "lookup" => exchange[c] \in {"queued", "sent", "some", "zero", "error", "lost"}
  /\ stage[c] \in {"create", "drop"} => exchange[c] \in {"queued", "sent", "ok", "error", "lost"}
  /\ stage[c] = "done" => exchange[c] = "idle"
  /\ stage[c] \in {"login", "lookup", "create", "drop"} => link[c] \in {"up", "down"}
  /\ stage[c] = "done" => link[c] \in {"none", "up", "down"}

\* What the call was asked for is what it does.
AsAsked(c) ==
  /\ stage[c] \in {"lookup", "create"} => Operation(c) = "create"
  /\ stage[c] = "drop" => Operation(c) = "drop"
  /\ stage[c] \in {"connecting", "login"} => Operation(c) \in {"create", "drop"}
  /\ Active(c) => Database(c) \in Names

\* The call has changed the server only if its statement was executed.
Changed(c) ==
  history[c].changed =>
    \/ stage[c] \in {"create", "drop"} /\ exchange[c] \in {"ok", "lost"}
    \/ stage[c] = "done"

\* The call's history has seen the database as it is.
Follows(c) ==
  Active(c) => /\ Database(c) \in databases => history[c].existed
               /\ Database(c) \notin databases => history[c].missing

\* An answer on its way was true when it was given.
Answered(c) ==
  /\ stage[c] = "lookup" /\ exchange[c] = "some" => history[c].existed
  /\ stage[c] = "create" /\ exchange[c] = "ok" => history[c].existed
  /\ stage[c] = "drop" /\ exchange[c] = "ok" => history[c].missing /\ history[c].changed

\* What has been told is true.
Told(c) ==
  /\ told[c] # Silent <=> stage[c] = "done"
  /\ told[c].error = "nil" /\ ~LookupFailed(c) =>
       \/ Operation(c) = "drop" /\ history[c].missing /\ history[c].changed
       \/ Operation(c) = "create" /\ history[c].existed
  /\ told[c].error \notin {"none", "nil", "connectionLost"} => ~history[c].changed

\* What is left open.
Returned(c) ==
  stage[c] = "done" /\ link[c] = "up" /\ ~closing[c] =>
    Operation(c) = "create" /\ told[c].error = "nil" /\ ~history[c].changed

Good(c) ==
  /\ Possible(c) /\ AsAsked(c) /\ Changed(c) /\ Follows(c)
  /\ Answered(c) /\ Told(c) /\ Returned(c)

Inv == Typed /\ \A c \in Calls : Good(c)

-----------------------------------------------------------------------------
(***************************************************************************)
(* A step of one call leaves the others as they are, except for what       *)
(* Change tells them of.                                                   *)
(***************************************************************************)
Same(d) ==
  /\ request'[d] = request[d] /\ stage'[d] = stage[d] /\ link'[d] = link[d]
  /\ closing'[d] = closing[d] /\ exchange'[d] = exchange[d] /\ told'[d] = told[d]

LEMMA OthersStayGood ==
  ASSUME NEW d \in Calls, Good(d), Same(d),
         history'[d] = history[d], databases' = databases
  PROVE  Good(d)'
  BY DEF Good, Same, Possible, AsAsked, Changed, Follows, Answered, Told, Returned,
         LookupFailed, Operation, Database, Active

LEMMA OthersFollow ==
  ASSUME NEW d \in Calls, Typed, Good(d), Same(d), NEW after,
         databases' = after,
         history'[d].existed <=> history[d].existed \/ (Active(d) /\ Database(d) \in after),
         history'[d].missing <=> history[d].missing \/ (Active(d) /\ Database(d) \notin after),
         history'[d].changed <=> history[d].changed
  PROVE  Good(d)'
<1>1. /\ Operation(d)' = Operation(d) /\ Database(d)' = Database(d)
      /\ Active(d)' <=> Active(d)
  BY DEF Same, Operation, Database, Active
<1>2. Possible(d)' /\ AsAsked(d)'
  BY <1>1 DEF Good, Same, Possible, AsAsked
<1>3. Changed(d)'
  BY DEF Good, Same, Changed
<1>4. Follows(d)'
  BY <1>1 DEF Follows
<1>5. Answered(d)'
  BY DEF Good, Same, Answered
<1>6. Told(d)'
  BY <1>1 DEF Good, Same, Told, LookupFailed
<1>7. Returned(d)'
  BY <1>1 DEF Good, Same, Returned
<1> QED  BY <1>2, <1>3, <1>4, <1>5, <1>6, <1>7 DEF Good

-----------------------------------------------------------------------------
(***************************************************************************)
(* What a callback does to its call: it has a query enqueued, or the call  *)
(* is over.                                                                *)
(***************************************************************************)
Untouched == UNCHANGED <<databases, request, link, history>>

Queues(c, s) ==
  /\ link[c] = "up"
  /\ stage' = [stage EXCEPT ![c] = s]
  /\ exchange' = [exchange EXCEPT ![c] = "queued"]
  /\ UNCHANGED <<told, closing>>

Ends(c, error, answer) == Complete(c, error, answer) /\ UNCHANGED closing

Closes(c, error, answer) ==
  Complete(c, error, answer) /\ closing' = [closing EXCEPT ![c] = TRUE]

LEMMA CallbackOfLogin ==
  ASSUME Typed, NEW c \in Calls, NEW answer \in {"ok", "error", "writeFailed"},
         stage[c] = "login", Continue(c, answer)
  PROVE  /\ Untouched
         /\ \/ Closes(c, "error", "error")
            \/ answer = "writeFailed" /\ Ends(c, "writeFailed", "writeFailed")
            \/ Operation(c) = "create" /\ Queues(c, "lookup")
            \/ Operation(c) # "create" /\ Queues(c, "drop")
            \/ Operation(c) = "create" /\ Ends(c, "nil", "notConnected")
            \/ Operation(c) # "create" /\ Closes(c, "notConnected", "notConnected")
<1>1. LoggedIn(c, answer) /\ Untouched
  BY DEF Continue, Untouched
<1>2. CASE answer = "error"
  BY <1>1, <1>2 DEF LoggedIn, Closes
<1>5. CASE answer = "writeFailed"
  <2>1. Complete(c, answer, answer) /\ closing' = [closing EXCEPT ![c] = closing[c] \/ FALSE]
    BY <1>1, <1>5 DEF LoggedIn
  <2>2. closing \in [Calls -> BOOLEAN]
    BY DEF Typed
  <2>3. closing' = closing
    BY <2>1, <2>2
  <2> QED  BY <1>1, <1>5, <2>1, <2>3 DEF Ends
<1>3. CASE answer = "ok" /\ Operation(c) = "create"
  <2>1. Exec(c, "lookup", LookedUp(c, "notConnected"))
    BY <1>1, <1>3 DEF LoggedIn
  <2>2. CASE link[c] = "up"
    BY <1>1, <1>3, <2>1, <2>2 DEF Exec, Queues
  <2>3. CASE link[c] # "up"
    BY <1>1, <1>3, <2>1, <2>3 DEF Exec, LookedUp, Ends
  <2> QED  BY <2>2, <2>3
<1>4. CASE answer = "ok" /\ Operation(c) # "create"
  <2>1. Exec(c, "drop", Finish(c, "notConnected"))
    BY <1>1, <1>4 DEF LoggedIn
  <2>2. CASE link[c] = "up"
    BY <1>1, <1>4, <2>1, <2>2 DEF Exec, Queues
  <2>3. CASE link[c] # "up"
    BY <1>1, <1>4, <2>1, <2>3 DEF Exec, Finish, Closes
  <2> QED  BY <2>2, <2>3
<1> QED  BY <1>2, <1>3, <1>4, <1>5

LEMMA CallbackOfLookup ==
  ASSUME NEW c \in Calls, NEW answer \in Answers, stage[c] = "lookup", Continue(c, answer)
  PROVE  /\ Untouched
         /\ \/ Queues(c, "create")
            \/ Closes(c, "notConnected", "notConnected")
            \/ answer # "zero" /\ Ends(c, "nil", answer)
<1>1. LookedUp(c, answer) /\ Untouched
  BY DEF Continue, Untouched
<1>2. CASE answer = "zero"
  <2>1. Exec(c, "create", Finish(c, "notConnected"))
    BY <1>1, <1>2 DEF LookedUp
  <2>2. CASE link[c] = "up"
    BY <1>1, <2>1, <2>2 DEF Exec, Queues
  <2>3. CASE link[c] # "up"
    BY <1>1, <2>1, <2>3 DEF Exec, Finish, Closes
  <2> QED  BY <2>2, <2>3
<1>3. CASE answer # "zero"
  BY <1>1, <1>3 DEF LookedUp, Ends
<1> QED  BY <1>2, <1>3

LEMMA CallbackOfStatement ==
  ASSUME NEW c \in Calls, NEW answer \in Answers, stage[c] \in {"create", "drop"},
         Continue(c, answer)
  PROVE  /\ Untouched
         /\ Closes(c, IF answer = "ok" THEN "nil" ELSE answer, answer)
<1>1. Finish(c, answer) /\ Untouched
  BY DEF Continue, Untouched
<1> QED  BY <1>1 DEF Finish, Closes

\* Both kinds of outcome, for the call and for the others.
LEMMA AfterQueues ==
  ASSUME NEW c \in Calls, Typed, Untouched,
         NEW s \in {"lookup", "create", "drop"}, Queues(c, s)
  PROVE  /\ Typed' /\ \A d \in Calls \ {c} : Same(d)
         /\ stage'[c] = s /\ exchange'[c] = "queued" /\ link[c] = "up"
         /\ told'[c] = told[c] /\ closing'[c] = closing[c]
<1>1. s \in Stages /\ "queued" \in Exchanges
  BY DEF Stages, Exchanges
<1>2. Typed'
  BY <1>1 DEF Typed, Untouched, Queues
<1>3. \A d \in Calls \ {c} : Same(d)
  BY DEF Typed, Untouched, Queues, Same
<1> QED  BY <1>2, <1>3 DEF Typed, Queues

LEMMA AfterComplete ==
  ASSUME NEW c \in Calls, Typed, Untouched,
         NEW error \in Answers \cup {"none", "nil", "noDatabaseNameProvided"},
         NEW answer \in Answers \cup {"none"},
         Ends(c, error, answer) \/ Closes(c, error, answer)
  PROVE  /\ Typed' /\ \A d \in Calls \ {c} : Same(d)
         /\ stage'[c] = "done" /\ exchange'[c] = "idle"
         /\ told'[c].error = error /\ told'[c].heard = answer
         /\ told'[c] = [error |-> error, heard |-> answer, at |-> stage[c]]
         /\ closing'[c] = closing[c] \/ closing'[c] = TRUE
         /\ Closes(c, error, answer) => closing'[c] = TRUE
<1>1. /\ "done" \in Stages /\ "idle" \in Exchanges
      /\ [error |-> error, heard |-> answer, at |-> stage[c]] \in Outcomes
  BY DEF Typed, Stages, Exchanges, Outcomes
<1>2. Complete(c, error, answer)
  BY DEF Ends, Closes
<1>3. /\ stage' \in [Calls -> Stages] /\ exchange' \in [Calls -> Exchanges]
      /\ told' \in [Calls -> Outcomes] /\ closing' \in [Calls -> BOOLEAN]
  BY <1>1, <1>2 DEF Typed, Complete, Ends, Closes
<1>4. Typed'
  BY <1>3 DEF Typed, Untouched
<1>5. \A d \in Calls \ {c} : Same(d)
  BY <1>2 DEF Typed, Untouched, Complete, Ends, Closes, Same
<1>6. /\ stage'[c] = "done" /\ exchange'[c] = "idle"
      /\ told'[c] = [error |-> error, heard |-> answer, at |-> stage[c]]
  BY <1>2 DEF Typed, Complete
<1>7. /\ closing'[c] = closing[c] \/ closing'[c] = TRUE
      /\ Closes(c, error, answer) => closing'[c] = TRUE
  BY DEF Typed, Ends, Closes
<1> QED  BY <1>4, <1>5, <1>6, <1>7

LEMMA GoodAfterQueues ==
  ASSUME NEW c \in Calls, Typed, Good(c), Untouched,
         NEW s \in {"lookup", "create", "drop"}, Queues(c, s),
         \/ stage[c] = "login" /\ Operation(c) = "create" /\ s = "lookup"
         \/ stage[c] = "login" /\ Operation(c) # "create" /\ s = "drop"
         \/ stage[c] = "lookup" /\ s = "create"
  PROVE  Good(c)'
<1>1. /\ stage'[c] = s /\ exchange'[c] = "queued" /\ link[c] = "up"
      /\ told'[c] = told[c] /\ closing'[c] = closing[c]
      /\ databases' = databases /\ request' = request /\ link' = link /\ history' = history
  BY AfterQueues DEF Untouched
<1>2. /\ Operation(c)' = Operation(c) /\ Database(c)' = Database(c)
      /\ Active(c) /\ Active(c)'
  BY <1>1 DEF Operation, Database, Active
<1>3. ~ history[c].changed
  BY DEF Good, Changed
<1>4. Possible(c)'
  BY <1>1 DEF Possible
<1>5. AsAsked(c)'
  BY <1>1, <1>2 DEF Good, AsAsked
<1>6. Changed(c)' /\ Answered(c)'
  BY <1>1, <1>3 DEF Changed, Answered
<1>7. Follows(c)'
  BY <1>1, <1>2 DEF Good, Follows
<1>8. Told(c)'
  BY <1>1, <1>2 DEF Good, Told, LookupFailed
<1>9. Returned(c)'
  BY <1>1 DEF Returned
<1> QED  BY <1>4, <1>5, <1>6, <1>7, <1>8, <1>9 DEF Good

\* A call that is over is good if what it told is true, and it closes what it
\* opened or was a create that changed nothing.
LEMMA GoodAfterComplete ==
  ASSUME NEW c \in Calls, Typed, Good(c), Untouched, Active(c), link[c] \in {"up", "down"},
         NEW error \in Answers \cup {"nil"}, NEW answer \in Answers,
         Ends(c, error, answer) \/ Closes(c, error, answer),
         error = "nil" =>
           \/ Operation(c) = "drop" /\ history[c].missing /\ history[c].changed
           \/ Operation(c) = "create" /\ history[c].existed
           \/ Operation(c) = "create" /\ stage[c] \in {"login", "lookup"} /\ answer \in Failures,
         error \notin {"nil", "connectionLost"} => ~history[c].changed,
         \/ Closes(c, error, answer) \/ link[c] = "down"
         \/ Operation(c) = "create" /\ error = "nil" /\ ~history[c].changed
  PROVE  Good(c)'
<1>1. /\ stage'[c] = "done" /\ exchange'[c] = "idle"
      /\ told'[c].error = error /\ told'[c].heard = answer /\ told'[c].at = stage[c]
      /\ Closes(c, error, answer) => closing'[c] = TRUE
      /\ databases' = databases /\ request' = request /\ link' = link /\ history' = history
  <2>1. Complete(c, error, answer)
    BY DEF Ends, Closes
  <2>2. /\ stage'[c] = "done" /\ exchange'[c] = "idle"
        /\ told'[c] = [error |-> error, heard |-> answer, at |-> stage[c]]
    BY <2>1 DEF Typed, Complete
  <2>3. Closes(c, error, answer) => closing'[c] = TRUE
    BY DEF Typed, Closes
  <2> QED  BY <2>2, <2>3 DEF Untouched
<1>2. Operation(c)' = Operation(c) /\ ~ Active(c)'
  BY <1>1 DEF Operation, Active
<1>3. told'[c] # Silent /\ error # "none"
  BY <1>1 DEF Silent, Answers, Failures
<1>4. Possible(c)' /\ AsAsked(c)' /\ Changed(c)' /\ Follows(c)' /\ Answered(c)'
  BY <1>1, <1>2 DEF Possible, AsAsked, Changed, Follows, Answered
<1>5. Told(c)'
  BY <1>1, <1>2, <1>3 DEF Told, LookupFailed
<1>6. Returned(c)'
  BY <1>1, <1>2 DEF Returned
<1> QED  BY <1>4, <1>5, <1>6 DEF Good

LEMMA ContinueKeepsInv ==
  ASSUME NEW c \in Calls, Inv, NEW answer \in Answers, Continue(c, answer),
         \/ /\ stage[c] = "login" /\ answer \in {"ok", "error", "writeFailed"}
            /\ answer = "writeFailed" => link[c] = "down"
         \/ /\ stage[c] = "lookup"
            /\ answer \in {"some", "zero", "error", "connectionLost"}
            /\ answer = "some" => exchange[c] = "some"
         \/ /\ stage[c] \in {"create", "drop"} /\ answer \in {"ok", "error", "connectionLost"}
            /\ answer # "connectionLost" => exchange[c] = answer
  PROVE  Inv'
<1>1. Typed /\ Good(c) /\ \A d \in Calls : Good(d)
  BY DEF Inv
<1>2. Active(c) /\ link[c] \in {"up", "down"}
  BY <1>1 DEF Active, Good, Possible
<1>3. Untouched
  BY DEF Continue, Untouched
<1>4. SUFFICES Typed' /\ Good(c)' /\ \A d \in Calls \ {c} : Same(d)
  <2>1. ASSUME NEW d \in Calls \ {c}, Same(d)
        PROVE  Good(d)'
    BY <1>1, <1>3, <2>1, OthersStayGood DEF Untouched
  <2> QED  BY <2>1 DEF Inv
<1>5. CASE stage[c] = "login"
  <2>1. Operation(c) \in {"create", "drop"} /\ ~ history[c].changed
    BY <1>1, <1>5 DEF Good, AsAsked, Changed
  <2>2. \/ Closes(c, "error", "error")
        \/ link[c] = "down" /\ Ends(c, "writeFailed", "writeFailed")
        \/ Operation(c) = "create" /\ Queues(c, "lookup")
        \/ Operation(c) # "create" /\ Queues(c, "drop")
        \/ Operation(c) = "create" /\ Ends(c, "nil", "notConnected")
        \/ Operation(c) # "create" /\ Closes(c, "notConnected", "notConnected")
    <3>1. answer \in {"ok", "error", "writeFailed"} /\ (answer = "writeFailed" => link[c] = "down")
      BY <1>5
    <3> QED  BY <1>1, <1>5, <3>1, CallbackOfLogin
  <2>3. CASE Closes(c, "error", "error")
    <3>1. "error" \in Answers
      BY DEF Answers, Failures
    <3> QED  BY <1>1, <1>2, <1>3, <2>1, <2>3, <3>1, AfterComplete, GoodAfterComplete
  <2>8. CASE link[c] = "down" /\ Ends(c, "writeFailed", "writeFailed")
    <3>1. "writeFailed" \in Answers
      BY DEF Answers, Failures
    <3> QED  BY <1>1, <1>2, <1>3, <2>1, <2>8, <3>1, AfterComplete, GoodAfterComplete
  <2>4. CASE Operation(c) = "create" /\ Queues(c, "lookup")
    BY <1>1, <1>3, <1>5, <2>4, AfterQueues, GoodAfterQueues
  <2>5. CASE Operation(c) # "create" /\ Queues(c, "drop")
    BY <1>1, <1>3, <1>5, <2>5, AfterQueues, GoodAfterQueues
  <2>6. CASE Operation(c) = "create" /\ Ends(c, "nil", "notConnected")
    <3>1. "notConnected" \in Answers /\ "notConnected" \in Failures
      BY DEF Answers, Failures
    <3> QED  BY <1>1, <1>2, <1>3, <1>5, <2>1, <2>6, <3>1, AfterComplete, GoodAfterComplete
  <2>7. CASE Operation(c) # "create" /\ Closes(c, "notConnected", "notConnected")
    <3>1. "notConnected" \in Answers
      BY DEF Answers, Failures
    <3> QED  BY <1>1, <1>2, <1>3, <2>1, <2>7, <3>1, AfterComplete, GoodAfterComplete
  <2> QED  BY <2>2, <2>3, <2>4, <2>5, <2>6, <2>7, <2>8
<1>6. CASE stage[c] = "lookup"
  <2>1. Operation(c) = "create" /\ ~ history[c].changed
    BY <1>1, <1>6 DEF Good, AsAsked, Changed
  <2>2. \/ Queues(c, "create")
        \/ Closes(c, "notConnected", "notConnected")
        \/ answer # "zero" /\ Ends(c, "nil", answer)
    BY <1>6, CallbackOfLookup
  <2>3. CASE Queues(c, "create")
    BY <1>1, <1>3, <1>6, <2>3, AfterQueues, GoodAfterQueues
  <2>4. CASE Closes(c, "notConnected", "notConnected")
    <3>1. "notConnected" \in Answers
      BY DEF Answers, Failures
    <3> QED  BY <1>1, <1>2, <1>3, <2>1, <2>4, <3>1, AfterComplete, GoodAfterComplete
  <2>5. CASE answer # "zero" /\ Ends(c, "nil", answer)
    <3>1. history[c].existed \/ answer \in Failures
      BY <1>1, <1>6, <2>5 DEF Good, Answered, Failures
    <3> QED  BY <1>1, <1>2, <1>3, <1>6, <2>1, <2>5, <3>1, AfterComplete, GoodAfterComplete
  <2> QED  BY <2>2, <2>3, <2>4, <2>5
<1>7. CASE stage[c] \in {"create", "drop"}
  <2>1. Operation(c) = stage[c]
    BY <1>1, <1>7 DEF Good, AsAsked
  <2>2. Closes(c, IF answer = "ok" THEN "nil" ELSE answer, answer)
    BY <1>7, CallbackOfStatement
  <2>3. CASE answer = "ok"
    <3>1. Closes(c, "nil", answer)
      BY <2>2, <2>3
    <3>2. \/ Operation(c) = "drop" /\ history[c].missing /\ history[c].changed
          \/ Operation(c) = "create" /\ history[c].existed
      BY <1>1, <1>7, <2>1, <2>3 DEF Good, Answered
    <3> QED  BY <1>1, <1>2, <1>3, <3>1, <3>2, AfterComplete, GoodAfterComplete
  <2>4. CASE answer # "ok"
    <3>1. Closes(c, answer, answer) /\ answer # "nil"
      BY <2>2, <2>4 DEF Answers, Failures
    <3>2. answer # "connectionLost" => ~ history[c].changed
      BY <1>1, <1>7, <2>4 DEF Good, Changed
    <3> QED  BY <1>1, <1>2, <1>3, <3>1, <3>2, AfterComplete, GoodAfterComplete
  <2> QED  BY <2>3, <2>4
<1> QED  BY <1>5, <1>6, <1>7

-----------------------------------------------------------------------------
(***************************************************************************)
(* The initial states, and each action.                                    *)
(***************************************************************************)
LEMMA InvInitially == Init => Inv
<1> SUFFICES ASSUME Init PROVE Inv
  OBVIOUS
<1>1. Typed
  BY DEF Init, Typed, Operations, Stages, Links, Exchanges, Outcomes, Histories, Silent
<1>2. ASSUME NEW c \in Calls
      PROVE  Good(c)
  <2>1. /\ stage[c] = "none" /\ exchange[c] = "idle" /\ link[c] = "none"
        /\ told[c] = Silent /\ told[c].error = "none" /\ ~ history[c].changed
    BY DEF Init, Silent
  <2> QED  BY <2>1 DEF Good, Possible, AsAsked, Active, Changed, Follows, Answered, Told, Returned, LookupFailed
<1> QED  BY <1>1, <1>2 DEF Inv

LEMMA HearKeepsInv ==
  ASSUME NEW c \in Calls, Inv, Hear(c) \/ HearLost(c) \/ HearFailedWrite(c)
  PROVE  Inv'
<1>1. Good(c)
  BY DEF Inv
<1>2. CASE Hear(c)
  <2>1. /\ exchange[c] \in Answers /\ Continue(c, exchange[c])
        /\ stage[c] \in {"login", "lookup", "create", "drop"}
    <3>1. /\ exchange[c] \in Answers /\ Continue(c, exchange[c]) /\ Active(c)
      BY <1>2 DEF Hear
    <3>2. exchange[c] # "idle"
      BY <3>1 DEF Answers, Failures
    <3>3. stage[c] \in Stages
      BY DEF Inv, Typed
    <3> QED  BY <1>1, <3>1, <3>2, <3>3 DEF Active, Good, Possible, Stages
  <2>2. /\ stage[c] = "login" => exchange[c] \in {"ok", "error"}
        /\ stage[c] = "lookup" => exchange[c] \in {"some", "zero", "error"}
        /\ stage[c] \in {"create", "drop"} => exchange[c] \in {"ok", "error"}
    BY <1>1, <2>1 DEF Good, Possible, Answers, Failures
  <2> QED  BY <2>1, <2>2, ContinueKeepsInv
<1>3. CASE HearLost(c)
  <2>1. /\ stage[c] \in {"lookup", "create", "drop"} /\ Continue(c, "connectionLost")
        /\ "connectionLost" \in Answers
    BY <1>3 DEF HearLost, Answers, Failures
  <2> QED  BY <2>1, ContinueKeepsInv
<1>4. CASE HearFailedWrite(c)
  <2>1. /\ stage[c] = "login" /\ link[c] = "down" /\ Continue(c, "writeFailed")
        /\ "writeFailed" \in Answers
    BY <1>4 DEF HearFailedWrite, Answers, Failures
  <2> QED  BY <2>1, ContinueKeepsInv
<1> QED  BY <1>2, <1>3, <1>4

LEMMA CallKeepsInv == ASSUME NEW c \in Calls, Inv, Call(c) PROVE Inv'
<1>1. /\ Typed /\ Good(c) /\ stage[c] = "none" /\ databases' = databases /\ closing' = closing
      /\ \A d \in Calls : Good(d)
  BY DEF Inv, Call
<1>2. PICK operation \in {"create", "drop"}, name \in Names \cup {NoName} :
        /\ request' = [request EXCEPT ![c] = <<operation, name>>]
        /\ IF name = NoName
           THEN /\ Complete(c, "noDatabaseNameProvided", "none")
                /\ UNCHANGED <<link, history>>
           ELSE /\ stage' = [stage EXCEPT ![c] = "connecting"]
                /\ link' = [link EXCEPT ![c] = "opening"]
                /\ history' = [history EXCEPT ![c] =
                     [existed |-> name \in databases, missing |-> name \notin databases,
                      changed |-> FALSE]]
                /\ UNCHANGED <<exchange, told>>
  BY DEF Call
<1>3. /\ exchange[c] = "idle" /\ link[c] = "none" /\ told[c] = Silent /\ ~ history[c].changed
  BY <1>1 DEF Good, Possible, Told, Changed
<1>4. /\ request' \in [Calls -> Operations \X (Names \cup {NoName})]
      /\ Operation(c)' = operation /\ Database(c)' = name
  BY <1>1, <1>2 DEF Typed, Operations, Operation, Database
<1>5. SUFFICES /\ Typed' /\ Good(c)'
               /\ \A d \in Calls \ {c} : Same(d) /\ history'[d] = history[d]
  <2>1. ASSUME NEW d \in Calls \ {c}, Same(d), history'[d] = history[d]
        PROVE  Good(d)'
    BY <1>1, <2>1, OthersStayGood
  <2> QED  BY <2>1 DEF Inv
<1>6. CASE name = NoName
  <2>1. /\ stage' = [stage EXCEPT ![c] = "done"]
        /\ exchange' = [exchange EXCEPT ![c] = "idle"]
        /\ told' = [told EXCEPT ![c] =
             [error |-> "noDatabaseNameProvided", heard |-> "none", at |-> "none"]]
        /\ link' = link /\ history' = history
    BY <1>1, <1>2, <1>6 DEF Complete
  <2>2. Typed'
    BY <1>1, <1>4, <2>1 DEF Typed, Stages, Exchanges, Outcomes
  <2>3. /\ stage'[c] = "done" /\ exchange'[c] = "idle" /\ link'[c] = "none"
        /\ told'[c] = [error |-> "noDatabaseNameProvided", heard |-> "none", at |-> "none"]
        /\ history'[c] = history[c]
    BY <1>1, <1>3, <2>1 DEF Typed
  <2>4. told'[c].error = "noDatabaseNameProvided" /\ told'[c] # Silent
    BY <2>3 DEF Silent
  <2>5. Good(c)'
    BY <1>3, <2>3, <2>4
       DEF Good, Possible, AsAsked, Active, Changed, Follows, Answered, Told, Returned, LookupFailed
  <2>6. \A d \in Calls \ {c} : Same(d) /\ history'[d] = history[d]
    BY <1>1, <1>2, <2>1 DEF Typed, Same
  <2> QED  BY <2>2, <2>5, <2>6
<1>7. CASE name # NoName
  <2>1. /\ stage' = [stage EXCEPT ![c] = "connecting"]
        /\ link' = [link EXCEPT ![c] = "opening"]
        /\ history' = [history EXCEPT ![c] =
             [existed |-> name \in databases, missing |-> name \notin databases,
              changed |-> FALSE]]
        /\ exchange' = exchange /\ told' = told /\ name \in Names
    BY <1>2, <1>7
  <2>2. history' \in [Calls -> Histories]
    <3>1. [existed |-> name \in databases, missing |-> name \notin databases,
           changed |-> FALSE] \in Histories
      BY DEF Histories
    <3> QED  BY <1>1, <2>1, <3>1 DEF Typed
  <2>3. Typed'
    BY <1>1, <1>4, <2>1, <2>2 DEF Typed, Stages, Links
  <2>4. /\ stage'[c] = "connecting" /\ link'[c] = "opening"
        /\ exchange'[c] = "idle" /\ told'[c] = Silent
    BY <1>1, <1>3, <2>1 DEF Typed
  <2>5. /\ history'[c].existed <=> name \in databases
        /\ history'[c].missing <=> name \notin databases
        /\ ~ history'[c].changed
    BY <1>1, <2>1 DEF Typed
  <2>6. told'[c].error = "none"
    BY <2>4 DEF Silent
  <2>7. Good(c)'
    BY <1>1, <1>3, <1>4, <2>1, <2>4, <2>5, <2>6
       DEF Good, Possible, AsAsked, Active, Changed, Follows, Answered, Told, Returned, LookupFailed
  <2>8. \A d \in Calls \ {c} : Same(d) /\ history'[d] = history[d]
    BY <1>1, <1>2, <2>1 DEF Typed, Same
  <2> QED  BY <2>3, <2>7, <2>8
<1> QED  BY <1>6, <1>7

\* The steps of a connection, and a query that is sent.
LEMMA LinkKeepsInv ==
  ASSUME NEW c \in Calls, Inv, Connect(c) \/ Refuse(c) \/ Send(c) \/ Close(c)
  PROVE  Inv'
<1>1. /\ Typed /\ Good(c) /\ \A d \in Calls : Good(d)
      /\ databases' = databases /\ request' = request /\ closing' = closing
      /\ told' = told /\ history' = history
  BY DEF Inv, Connect, Refuse, Send, Close
<1>2. Operation(c)' = Operation(c) /\ Database(c)' = Database(c)
  BY <1>1 DEF Operation, Database
<1>3. SUFFICES /\ Typed' /\ Good(c)'
               /\ \A d \in Calls \ {c} : Same(d)
  <2>1. ASSUME NEW d \in Calls \ {c}, Same(d)
        PROVE  Good(d)'
    BY <1>1, <2>1, OthersStayGood
  <2> QED  BY <2>1 DEF Inv
<1>4. /\ "up" \in Links /\ "refused" \in Links /\ "down" \in Links
      /\ "login" \in Stages /\ "sent" \in Exchanges
  BY DEF Links, Stages, Exchanges
<1>5. \A d \in Calls \ {c} : Same(d)
  BY <1>1 DEF Typed, Same, Connect, Refuse, Send, Close
<1>6. Typed'
  BY <1>1, <1>4 DEF Typed, Connect, Refuse, Send, Close
<1>7. stage[c] \in Stages
  BY <1>1 DEF Typed
<1>8. CASE Connect(c)
  <2>1. /\ stage[c] = "connecting" /\ stage'[c] = "login" /\ link'[c] = "up"
        /\ exchange'[c] = "sent"
    BY <1>1, <1>7, <1>8 DEF Typed, Connect, Good, Possible, Stages
  <2>2. Operation(c) \in {"create", "drop"}
    BY <1>1, <2>1 DEF Good, AsAsked
  <2> QED
    BY <1>1, <1>2, <1>5, <1>6, <2>1, <2>2
       DEF Good, Possible, AsAsked, Active, Changed, Follows, Answered, Told, Returned, LookupFailed
<1>9. CASE Refuse(c)
  <2>1. stage[c] = "connecting" /\ stage'[c] = stage[c] /\ link'[c] = "refused"
        /\ exchange'[c] = exchange[c]
    BY <1>1, <1>7, <1>9 DEF Typed, Refuse, Good, Possible, Stages
  <2> QED
    BY <1>1, <1>2, <1>5, <1>6, <2>1
       DEF Good, Possible, AsAsked, Active, Changed, Follows, Answered, Told, Returned, LookupFailed
<1>10. CASE Send(c)
  <2>1. /\ stage[c] \in {"lookup", "create", "drop"} /\ stage'[c] = stage[c]
        /\ link'[c] = link[c] /\ exchange[c] = "queued" /\ exchange'[c] = "sent"
    BY <1>1, <1>7, <1>10 DEF Typed, Send, Good, Possible, Stages
  <2> QED
    BY <1>1, <1>2, <1>5, <1>6, <2>1
       DEF Good, Possible, AsAsked, Active, Changed, Follows, Answered, Told, Returned, LookupFailed
<1>11. CASE Close(c)
  <2>1. /\ stage[c] \in {"login", "lookup", "create", "drop", "done"} /\ stage'[c] = stage[c]
        /\ link'[c] = "down" /\ exchange'[c] = exchange[c]
    BY <1>1, <1>7, <1>11 DEF Typed, Close, Good, Possible, Stages
  <2> QED
    BY <1>1, <1>2, <1>5, <1>6, <2>1
       DEF Good, Possible, AsAsked, Active, Changed, Follows, Answered, Told, Returned, LookupFailed
<1> QED  BY <1>8, <1>9, <1>10, <1>11

\* What an execution does to the histories, and what it leaves to prove.
LEMMA AfterChange ==
  ASSUME NEW c \in Calls, Inv, NEW after \in SUBSET Names, NEW x \in Exchanges,
         Change(c, after), exchange' = [exchange EXCEPT ![c] = x],
         UNCHANGED <<request, stage, link, closing, told>>
  PROVE  /\ Typed' /\ \A d \in Calls \ {c} : Good(d)'
         /\ history'[c].existed <=> history[c].existed \/ (Active(c) /\ Database(c) \in after)
         /\ history'[c].missing <=> history[c].missing \/ (Active(c) /\ Database(c) \notin after)
         /\ history'[c].changed <=> history[c].changed \/ after # databases
<1>1. Typed /\ databases' = after /\ \A d \in Calls : Good(d)
  BY DEF Inv, Change
<1>2. history' = [d \in Calls |->
         [existed |-> history[d].existed \/ (Active(d) /\ Database(d) \in after),
          missing |-> history[d].missing \/ (Active(d) /\ Database(d) \notin after),
          changed |-> history[d].changed \/ (d = c /\ after # databases)]]
  BY DEF Change
<1>3. ASSUME NEW d \in Calls
      PROVE  /\ history'[d] \in Histories
             /\ history'[d].existed <=>
                  history[d].existed \/ (Active(d) /\ Database(d) \in after)
             /\ history'[d].missing <=>
                  history[d].missing \/ (Active(d) /\ Database(d) \notin after)
             /\ history'[d].changed <=> history[d].changed \/ (d = c /\ after # databases)
  <2>1. history[d].existed \in BOOLEAN /\ history[d].missing \in BOOLEAN
        /\ history[d].changed \in BOOLEAN
    BY <1>1 DEF Typed, Histories
  <2>2. /\ history'[d].existed =
             (history[d].existed \/ (Active(d) /\ Database(d) \in after))
        /\ history'[d].missing =
             (history[d].missing \/ (Active(d) /\ Database(d) \notin after))
        /\ history'[d].changed = (history[d].changed \/ (d = c /\ after # databases))
    BY <1>2
  <2>3. history'[d] \in Histories
    BY <1>2, <2>1 DEF Histories
  <2> QED  BY <2>1, <2>2, <2>3
<1>4. history' \in [Calls -> Histories]
  BY <1>2, <1>3
<1>5. Typed'
  BY <1>1, <1>4 DEF Typed
<1>6. ASSUME NEW d \in Calls \ {c}
      PROVE  Good(d)'
  <2>1. Same(d)
    BY <1>1 DEF Same, Typed
  <2>2. /\ history'[d].existed <=>
             history[d].existed \/ (Active(d) /\ Database(d) \in after)
        /\ history'[d].missing <=>
             history[d].missing \/ (Active(d) /\ Database(d) \notin after)
        /\ history'[d].changed <=> history[d].changed
    BY <1>3
  <2> QED  BY <1>1, <2>1, <2>2, OthersFollow
<1> QED  BY <1>3, <1>5, <1>6

LEMMA ServeKeepsInv == ASSUME NEW c \in Calls, Inv, Serve(c) PROVE Inv'
<1>1. /\ Typed /\ Good(c) /\ exchange[c] = "sent"
      /\ UNCHANGED <<request, stage, link, closing, told>>
  BY DEF Inv, Serve
<1>2. stage[c] \in {"login", "lookup", "create", "drop"} /\ Active(c)
  <2>1. stage[c] \in Stages
    BY <1>1 DEF Typed
  <2> QED  BY <1>1, <2>1 DEF Good, Possible, Stages, Active
<1>3. /\ Operation(c)' = Operation(c) /\ Database(c)' = Database(c)
      /\ stage'[c] = stage[c] /\ link'[c] = link[c] /\ told'[c] = told[c]
      /\ Active(c)' <=> Active(c)
  BY <1>1 DEF Operation, Database, Active
<1>4. /\ ~ history[c].changed /\ Database(c) \in Names /\ told[c] = Silent
      /\ told[c].error = "none"
  <2>1. ~ history[c].changed /\ Database(c) \in Names /\ told[c] = Silent
    BY <1>1, <1>2 DEF Good, Changed, AsAsked, Told
  <2> QED  BY <2>1 DEF Silent
<1>5. PICK answer \in {"ok", "some", "zero", "error"}, after \in SUBSET Names :
        /\ Replied(c, answer) /\ Change(c, after)
        /\ \/ answer = "error" /\ after = databases
           \/ stage[c] = "login" /\ answer = "ok" /\ after = databases
           \/ /\ stage[c] = "lookup" /\ answer = "some" /\ after = databases
              /\ Database(c) \in databases
           \/ stage[c] = "lookup" /\ answer = "zero" /\ after = databases
           \/ stage[c] = "create" /\ answer = "ok" /\ Database(c) \in after
           \/ /\ stage[c] = "drop" /\ answer = "ok" /\ Database(c) \notin after
              /\ after # databases
  <2>1. databases \subseteq Names
    BY <1>1 DEF Typed
  <2>2. CASE Fails(c) /\ Replied(c, "error") /\ Change(c, databases)
    BY <2>1, <2>2
  <2>3. CASE stage[c] = "login" /\ Replied(c, "ok") /\ Change(c, databases)
    BY <2>1, <2>3
  <2>4. CASE /\ stage[c] = "lookup" /\ Change(c, databases)
             /\ Replied(c, IF Database(c) \in databases THEN "some" ELSE "zero")
    <3>1. CASE Database(c) \in databases
      BY <2>1, <2>4, <3>1
    <3>2. CASE Database(c) \notin databases
      BY <2>1, <2>4, <3>2
    <3> QED  BY <3>1, <3>2
  <2>5. CASE /\ stage[c] = "create" /\ Database(c) \notin databases
             /\ Replied(c, "ok") /\ Change(c, databases \cup {Database(c)})
    <3>1. databases \cup {Database(c)} \in SUBSET Names
      BY <1>4, <2>1
    <3> QED  BY <2>5, <3>1
  <2>6. CASE /\ stage[c] = "drop" /\ Database(c) \in databases
             /\ Replied(c, "ok") /\ Change(c, databases \ {Database(c)})
    <3>1. databases \ {Database(c)} \in SUBSET Names /\ databases \ {Database(c)} # databases
      BY <2>1, <2>6
    <3> QED  BY <2>6, <3>1
  <2> QED  BY <2>2, <2>3, <2>4, <2>5, <2>6 DEF Serve
<1>6. PICK x \in {answer, "lost"} : exchange' = [exchange EXCEPT ![c] = x]
  BY <1>5 DEF Replied
<1>7. x \in Exchanges /\ exchange'[c] = x
  BY <1>1, <1>6 DEF Typed, Exchanges, Answers, Failures
<1>8. /\ Typed' /\ \A d \in Calls \ {c} : Good(d)'
      /\ history'[c].existed <=> history[c].existed \/ (Active(c) /\ Database(c) \in after)
      /\ history'[c].missing <=> history[c].missing \/ (Active(c) /\ Database(c) \notin after)
      /\ history'[c].changed <=> history[c].changed \/ after # databases
  BY <1>1, <1>5, <1>6, <1>7, AfterChange
<1>9. databases' = after
  BY <1>5 DEF Change
<1>10. Possible(c)' /\ AsAsked(c)'
  <2>1. Possible(c)'
    BY <1>1, <1>2, <1>3, <1>5, <1>6, <1>7 DEF Good, Possible
  <2>2. AsAsked(c)'
    BY <1>1, <1>2, <1>3 DEF Good, AsAsked
  <2> QED  BY <2>1, <2>2
<1>11. Changed(c)'
  <2>1. history'[c].changed => after # databases
    BY <1>4, <1>8
  <2> QED  BY <1>3, <1>5, <1>6, <1>7, <2>1 DEF Changed
<1>12. Follows(c)'
  BY <1>2, <1>3, <1>8, <1>9 DEF Follows
<1>13. Answered(c)'
  BY <1>2, <1>3, <1>5, <1>6, <1>7, <1>8 DEF Answered
<1>14. Told(c)'
  <2>1. told'[c] = Silent /\ told'[c].error = "none" /\ stage'[c] # "done"
    BY <1>2, <1>3, <1>4
  <2> QED  BY <2>1 DEF Told
<1>15. Returned(c)'
  BY <1>2, <1>3 DEF Returned
<1> QED  BY <1>8, <1>10, <1>11, <1>12, <1>13, <1>14, <1>15 DEF Inv, Good

LEMMA NextKeepsInv == Inv /\ [Next]_vars => Inv'
<1> SUFFICES ASSUME Inv, [Next]_vars PROVE Inv'
  OBVIOUS
<1>1. CASE UNCHANGED vars
  <2>1. Typed'
    BY <1>1 DEF Inv, Typed, vars
  <2>2. ASSUME NEW d \in Calls
        PROVE  Good(d)'
    <3>1. Good(d) /\ Same(d) /\ history'[d] = history[d] /\ databases' = databases
      BY <1>1 DEF Inv, Same, vars
    <3> QED  BY <3>1, OthersStayGood
  <2> QED  BY <2>1, <2>2 DEF Inv
<1>2. ASSUME NEW c \in Calls, Call(c)
      PROVE  Inv'
  BY <1>2, CallKeepsInv
<1>3. ASSUME NEW c \in Calls, Connect(c) \/ Refuse(c) \/ Send(c) \/ Close(c)
      PROVE  Inv'
  BY <1>3, LinkKeepsInv
<1>4. ASSUME NEW c \in Calls, Serve(c)
      PROVE  Inv'
  BY <1>4, ServeKeepsInv
<1>5. ASSUME NEW c \in Calls, Hear(c) \/ HearLost(c) \/ HearFailedWrite(c)
      PROVE  Inv'
  BY <1>5, HearKeepsInv
<1> QED  BY <1>1, <1>2, <1>3, <1>4, <1>5 DEF Next

LEMMA InvAlways == Spec => []Inv
<1> QED  BY InvInitially, NextKeepsInv, PTL DEF Spec

-----------------------------------------------------------------------------
(* Whatever a call of createDatabase or dropDatabase reports was true of   *)
(* the server at a moment of the call, however many calls create and drop  *)
(* the same database at the same time and whatever fails.  What a create   *)
(* whose lookup failed is told (Client.swift:144) is left open.            *)
THEOREM DatabaseTellsTheOutcome == Spec => []OutcomeIsTold
<1>1. Inv => OutcomeIsTold
  BY DEF Inv, Good, Told, OutcomeIsTold
<1> QED  BY <1>1, InvAlways, PTL

(* A call that has ended keeps its connection open only if it was a create *)
(* that reported no error and created nothing: the early return of the     *)
(* lookup's callback (Client.swift:148) is the only leak there is.         *)
THEOREM DatabaseReturnsConnections == Spec => []ConnectionsAreReturned
<1>1. Inv => ConnectionsAreReturned
  BY DEF Inv, Good, Told, Returned, ConnectionsAreReturned
<1> QED  BY <1>1, InvAlways, PTL
=============================================================================
