------------------------------ MODULE Reading ------------------------------
(***************************************************************************)
(* How the server's messages are read (NIOSocket in AsyncSocket.swift and  *)
(* Connection.read): the event loop hands over chunks of bytes, cut        *)
(* anywhere; the socket's queue collects them in inputBuffer and serves    *)
(* requests for a number of bytes; the connection asks for a header, then  *)
(* for the body the header announces, then for the next header.            *)
(*                                                                         *)
(* A byte is its position (1, 2, ...) in the server's stream.  What a      *)
(* header says is looked up by the position it is read at, so that a       *)
(* reader which has lost its place reads garbage, as it would from the     *)
(* real bytes.                                                             *)
(***************************************************************************)
EXTENDS Integers, FiniteSets, SequencesExt

CONSTANTS
  BodyLengths,     \* the lengths the bodies of messages have
  MaxMessages,     \* bound: messages the server sends
  MaxChunks        \* bound: chunks that wait in the socket's queue

ASSUME ReadingAssumption ==
  /\ BodyLengths \subseteq Nat
  /\ MaxMessages \in Nat /\ MaxChunks \in Nat

HeaderLength == 1 + 4

VARIABLES
  sent,           \* the messages sent: [start, length of the body]
  arrived,        \* how many bytes the event loop has handed over
  (* NIOSocket: its dispatch queue and its properties *)
  queue, inputBuffer, readQueue,
  (* performRead: whether it is running, its offset, and whether it has    *)
  (* taken a range the buffer does not have, which stops the process       *)
  performing, offset, trapped,
  (* Connection: its queue of messages, and those processed *)
  messages, processed

netVars    == <<sent, arrived>>
socketVars == <<inputBuffer, readQueue>>
loopVars   == <<performing, offset, trapped>>
vars == <<netVars, queue, socketVars, loopVars, messages, processed>>

\* A request for bytes; `start' is where in the stream its message began.
Request(kind, length, start) == [kind |-> kind, length |-> length, start |-> start]

HeaderRequest == Request("header", HeaderLength, 0)

Bytes(from, to) == [i \in 1 .. to - from |-> from + i]

\* The two blocks that are dispatched to the socket's queue.
Data(bytes)   == [type |-> "data", bytes |-> bytes, request |-> HeaderRequest]
Read(request) == [type |-> "read", bytes |-> <<>>, request |-> request]

End(m) == m.start + HeaderLength + m.length

StreamEnd == IF sent = <<>> THEN 0 ELSE End(sent[Len(sent)])

Init ==
  /\ sent = <<>> /\ arrived = 0
  /\ queue = <<Read(HeaderRequest)>>
  /\ inputBuffer = <<>> /\ readQueue = <<>>
  /\ performing = FALSE /\ offset = 0 /\ trapped = FALSE
  /\ messages = <<>> /\ processed = <<>>

-----------------------------------------------------------------------------
(* The server and the event loop.                                          *)

Send ==
  /\ Len(sent) < MaxMessages
  /\ \E length \in BodyLengths :
       sent' = Append(sent, [start |-> StreamEnd, length |-> length])
  /\ UNCHANGED <<arrived, queue, socketVars, loopVars, messages, processed>>

Chunks == {i \in DOMAIN queue : queue[i].type = "data"}

ChannelRead ==
  /\ ~trapped /\ Cardinality(Chunks) < MaxChunks
  /\ \E to \in arrived + 1 .. StreamEnd :
       arrived' = to /\ queue' = Append(queue, Data(Bytes(arrived, to)))
  /\ UNCHANGED <<sent, socketVars, loopVars, messages, processed>>

-----------------------------------------------------------------------------
(* NIOSocket's queue.  Both blocks go on to performRead, whose loop copies *)
(* the buffer first: an iteration is a step, since the completions it      *)
(* calls race with the event loop for the next place in the queue.         *)

At(t) == ~performing /\ ~trapped /\ queue # <<>> /\ Head(queue).type = t

Perform ==
  /\ queue' = Tail(queue)
  /\ performing' = TRUE /\ offset' = 0
  /\ UNCHANGED <<netVars, trapped, messages, processed>>

RunData ==
  /\ At("data")
  /\ inputBuffer' = inputBuffer \o Head(queue).bytes
  /\ Perform
  /\ UNCHANGED readQueue

RunRead ==
  /\ At("read")
  /\ readQueue' = Append(readQueue, Head(queue).request)
  /\ Perform
  /\ UNCHANGED inputBuffer

HasEnoughAlways == readQueue # <<>>     \* a mutant

\* The guard of the loop counts the bytes already taken as well.
HasEnough == readQueue # <<>> /\ Len(inputBuffer) >= Head(readQueue).length

\* What the header read at this position announces.
Announced(start) ==
  LET found == {i \in DOMAIN sent : sent[i].start = start}
  IN IF found = {} THEN BodyLengths ELSE {sent[i].length : i \in found}

\* A mutant: asks for the next header without waiting for the body.
HeaderReadAhead(bytes) ==
  LET start == bytes[1] - 1
  IN /\ \E length \in Announced(start) :
          queue' = queue \o <<Read(Request("body", length, start)), Read(HeaderRequest)>>
     /\ UNCHANGED messages

\* Connection.read's completion of a header
HeaderRead(bytes) ==
  LET start == bytes[1] - 1
  IN /\ \E length \in Announced(start) :
          queue' = Append(queue, Read(Request("body", length, start)))
     /\ UNCHANGED messages

\* A mutant: never asks for another header.
BodyReadLast(start, bytes) ==
  /\ messages' = Append(messages, [start |-> start, body |-> bytes])
  /\ UNCHANGED queue

\* and of a body
BodyRead(start, bytes) ==
  /\ messages' = Append(messages, [start |-> start, body |-> bytes])
  /\ queue' = Append(queue, Read(HeaderRequest))

\* What is taken from beyond the buffer is nothing that was sent.
ByteAt(i) == IF i <= Len(inputBuffer) THEN inputBuffer[i] ELSE 0

\* One turn of the loop.  A range that ends beyond the buffer is a trap.
Complete ==
  LET r == Head(readQueue)
      bytes == [i \in 1 .. r.length |-> ByteAt(offset + i)]
  IN /\ performing /\ ~trapped /\ HasEnough
     /\ readQueue' = Tail(readQueue)
     /\ offset' = offset + r.length
     /\ trapped' = (offset + r.length > Len(inputBuffer))
     /\ \/ r.kind = "header" /\ HeaderRead(bytes)
        \/ r.kind = "body" /\ BodyRead(r.start, bytes)
     /\ UNCHANGED <<netVars, inputBuffer, performing, processed>>

\* Mutants of the next action: nothing is removed; one byte too many is.
EndPerformKeeping ==
  /\ performing /\ ~trapped /\ ~HasEnough
  /\ performing' = FALSE /\ offset' = 0
  /\ UNCHANGED <<netVars, queue, socketVars, trapped, messages, processed>>

EndPerformOneMore ==
  /\ performing /\ ~trapped /\ ~HasEnough
  /\ inputBuffer' = SubSeq(inputBuffer, offset + 2, Len(inputBuffer))
  /\ performing' = FALSE /\ offset' = 0
  /\ UNCHANGED <<netVars, queue, readQueue, trapped, messages, processed>>

EndPerform ==
  /\ performing /\ ~trapped /\ ~HasEnough
  /\ inputBuffer' = SubSeq(inputBuffer, offset + 1, Len(inputBuffer))
  /\ performing' = FALSE /\ offset' = 0
  /\ UNCHANGED <<netVars, queue, readQueue, trapped, messages, processed>>

-----------------------------------------------------------------------------
(* The connection's queue.                                                 *)

Process ==
  /\ messages # <<>>
  /\ processed' = Append(processed, Head(messages))
  /\ messages' = Tail(messages)
  /\ UNCHANGED <<netVars, queue, socketVars, loopVars>>

SocketQueue == RunData \/ RunRead \/ Complete \/ EndPerform

Next == Send \/ ChannelRead \/ SocketQueue \/ Process

Spec == Init /\ [][Next]_vars

(* Dispatch queues run what they hold; the network delivers what was sent. *)
Fairness == WF_vars(ChannelRead) /\ WF_vars(SocketQueue) /\ WF_vars(Process)

FairSpec == Spec /\ Fairness
-----------------------------------------------------------------------------
(* Properties.                                                             *)

Kinds    == {"header", "body"}
Requests == [kind : Kinds, length : BodyLengths \cup {HeaderLength}, start : Nat]
Messages == [start : Nat, body : Seq(Nat)]

(* Every variable has its type; what performRead has taken is in the       *)
(* buffer, and between its runs nothing is taken.                          *)
TypeOK ==
  /\ sent \in Seq([start : Nat, length : BodyLengths]) /\ arrived \in 0 .. StreamEnd
  /\ queue \in Seq([type : {"data", "read"}, bytes : Seq(Nat), request : Requests])
  /\ inputBuffer \in Seq(Nat) /\ readQueue \in Seq(Requests)
  /\ performing \in BOOLEAN /\ trapped \in BOOLEAN
  /\ offset \in 0 .. Len(inputBuffer) /\ (performing \/ offset = 0)
  /\ messages \in Seq(Messages) /\ processed \in Seq(Messages)

(* The loop's guard compares a request with the whole buffer, although the *)
(* requests before it have taken their part: no request may ever find less *)
(* than it asks for, or the process traps.                                 *)
NeverTrapped == ~trapped

(* What saves it: the connection has one request outstanding at any time,  *)
(* in the socket's queue or in readQueue, and never none.                  *)
Reads == {i \in DOMAIN queue : queue[i].type = "read"}

OneReadAtATime == ~trapped => Cardinality(Reads) + Len(readQueue) = 1

(* The reader keeps its place in the stream.  What is in the buffer and    *)
(* not taken, followed by the chunks that wait in the queue, is everything *)
(* that has arrived behind the last message read, and behind the header of *)
(* the next if its body has been asked for: no byte is lost or repeated.   *)
Unread ==
  SubSeq(inputBuffer, offset + 1, Len(inputBuffer))
    \o FlattenSeq([i \in DOMAIN queue |-> queue[i].bytes])

MessagesRead == Len(processed) + Len(messages)

AwaitsBody ==
  \/ \E i \in Reads : queue[i].request.kind = "body"
  \/ \E i \in DOMAIN readQueue : readQueue[i].kind = "body"

Place ==
  (IF MessagesRead = 0 THEN 0 ELSE End(sent[MessagesRead]))
    + (IF AwaitsBody THEN HeaderLength ELSE 0)

KeepsItsPlace == ~trapped => Unread = Bytes(Place, arrived)

(* The reader is a channel of whole messages, in order, each exactly once, *)
(* with the bytes of its body and no others.                               *)
Body(m) == [start |-> m.start, body |-> Bytes(m.start + HeaderLength, End(m))]

Promise == INSTANCE Channel
             WITH sent <- [i \in DOMAIN sent |-> Body(sent[i])], handed <- processed

Delivers == Promise!Spec

(* Every message the server sends is processed in the end: the reader      *)
(* never waits for bytes that are in its buffer already.                   *)
EveryMessageProcessed ==
  \A n \in 1 .. MaxMessages : Len(sent) >= n ~> Len(processed) >= n
=============================================================================
