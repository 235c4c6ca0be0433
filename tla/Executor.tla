------------------------------ MODULE Executor ------------------------------
(***************************************************************************)
(* What a client promises the program that calls exec and prepare: once    *)
(* the server has accepted the login, requests are taken in the order of   *)
(* the calls, and the connection carries the exchange of one request at a  *)
(* time.  How the exchanges end, and which requests need none, is no part  *)
(* of the promise.                                                         *)
(***************************************************************************)
EXTENDS Naturals, FiniteSets

CONSTANT MaxRequests

VARIABLES
  called,       \* calls so far: requests are numbered 1, 2, 3, ...
  waiting,      \* requests that were enqueued and not begun yet
  accepted,     \* whether the server has accepted the login
  exchange      \* the request whose exchange the connection carries, if any

vars == <<called, waiting, accepted, exchange>>

Init == called = 0 /\ waiting = {} /\ accepted = FALSE /\ exchange = {}

\* A call is enqueued, or it is answered at once.
Call ==
  /\ called < MaxRequests
  /\ called' = called + 1
  /\ waiting' \in {waiting, waiting \cup {called + 1}}
  /\ UNCHANGED <<accepted, exchange>>

\* The login, request 0, has an exchange (or two: the password) of its own.
Login ==
  /\ ~accepted /\ exchange = {}
  /\ exchange' = {0}
  /\ UNCHANGED <<called, waiting, accepted>>

\* The oldest request is begun; it may need no exchange.
Begin(r) ==
  /\ accepted /\ exchange = {}
  /\ r \in waiting /\ \A w \in waiting : r <= w
  /\ waiting' = waiting \ {r}
  /\ exchange' \in {{}, {r}}
  /\ UNCHANGED <<called, accepted>>

End ==
  /\ exchange # {}
  /\ exchange' = {}
  /\ accepted' \in {accepted, 0 \in exchange \/ accepted}
  /\ UNCHANGED <<called, waiting>>

Next == Call \/ Login \/ End \/ \E r \in 1 .. MaxRequests : Begin(r)

Spec == Init /\ [][Next]_vars
=============================================================================
