------------------------------ MODULE Channel ------------------------------
(***************************************************************************)
(* What the reading side of a connection promises: the server's messages   *)
(* are handed over whole, in the order they were sent, each exactly once,  *)
(* however the network cuts the stream of their bytes.                     *)
(***************************************************************************)
EXTENDS Naturals, Sequences

VARIABLES
  sent,                \* the messages the server has sent
  handed               \* the messages handed over for processing

vars == <<sent, handed>>

Init == sent = <<>> /\ handed = <<>>

\* A message of any content.
Send ==
  /\ Len(sent') = Len(sent) + 1
  /\ SubSeq(sent', 1, Len(sent)) = sent
  /\ UNCHANGED handed

Hand ==
  /\ Len(handed) < Len(sent)
  /\ handed' = Append(handed, sent[Len(handed) + 1])
  /\ UNCHANGED sent

Next == Send \/ Hand

Spec == Init /\ [][Next]_vars
=============================================================================
