----------------------------- MODULE Dispatcher -----------------------------
(***************************************************************************)
(* What a pool of connections promises the program that calls              *)
(* Pool.perform: blocks are handed to clients in the order they were       *)
(* submitted, each exactly once, and a client that has been handed a block *)
(* is not handed another one before that block has called its completion. *)
(* How clients come and go is no part of the promise.                      *)
(***************************************************************************)
EXTENDS Naturals

CONSTANT Clients     \* the clients the pool may ever create

VARIABLES
  submitted,         \* how many blocks have been submitted: 1, 2, 3, ...
  started,           \* the last block that was handed to a client
  running            \* the block each client is running, 0 when none

vars == <<submitted, started, running>>

Init ==
  /\ submitted = 0
  /\ started = 0
  /\ running = [c \in Clients |-> 0]

Submit ==
  /\ submitted' = submitted + 1
  /\ UNCHANGED <<started, running>>

Start(c) ==
  /\ started < submitted
  /\ running[c] = 0
  /\ started' = started + 1
  /\ running' = [running EXCEPT ![c] = started + 1]
  /\ UNCHANGED submitted

Finish(c) ==
  /\ running[c] # 0
  /\ running' = [running EXCEPT ![c] = 0]
  /\ UNCHANGED <<submitted, started>>

Next == Submit \/ \E c \in Clients : Start(c) \/ Finish(c)

Spec == Init /\ [][Next]_vars
=============================================================================
