---------------------------- MODULE ReadingProofs ----------------------------
(***************************************************************************)
(* Theorems about Reading, for any lengths of bodies and any number of     *)
(* messages and chunks, with their proofs.                                 *)
(***************************************************************************)
EXTENDS Reading, RecursionLemmas, FiniteSetTheorems

Blocks       == [type : {"data", "read"}, bytes : Seq(Nat), request : Requests]
SentMessages == [start : Nat, length : BodyLengths]

(***************************************************************************)
(* Sequences: what an element added or taken leaves, and what is joined or *)
(* cut off.                                                                *)
(***************************************************************************)
LEMMA Added ==
  ASSUME NEW S, NEW s \in Seq(S), NEW e \in S
  PROVE  /\ Append(s, e) \in Seq(S)
         /\ Len(Append(s, e)) = Len(s) + 1 /\ Len(s) \in Nat
         /\ \A i \in 1 .. Len(s) : Append(s, e)[i] = s[i]
         /\ Append(s, e)[Len(s) + 1] = e
  OBVIOUS

LEMMA Shifted ==
  ASSUME NEW S, NEW s \in Seq(S), s # <<>>
  PROVE  /\ Head(s) = s[1] /\ Head(s) \in S
         /\ Tail(s) \in Seq(S)
         /\ Len(s) \in Nat \ {0} /\ Len(Tail(s)) = Len(s) - 1
         /\ \A i \in 1 .. Len(Tail(s)) : Tail(s)[i] = s[i + 1]
  OBVIOUS

LEMMA Joined ==
  ASSUME NEW S, NEW s \in Seq(S), NEW t \in Seq(S)
  PROVE  /\ s \o t \in Seq(S)
         /\ Len(s \o t) = Len(s) + Len(t) /\ Len(s) \in Nat /\ Len(t) \in Nat
         /\ \A i \in 1 .. Len(s) : (s \o t)[i] = s[i]
         /\ \A i \in 1 .. Len(t) : (s \o t)[Len(s) + i] = t[i]
  OBVIOUS

LEMMA CutOff ==
  ASSUME NEW S, NEW s \in Seq(S), NEW n \in 0 .. Len(s)
  PROVE  /\ SubSeq(s, n + 1, Len(s)) \in Seq(S)
         /\ Len(SubSeq(s, n + 1, Len(s))) = Len(s) - n
         /\ \A i \in 1 .. Len(s) - n : SubSeq(s, n + 1, Len(s))[i] = s[n + i]
  OBVIOUS

LEMMA OfElements ==
  ASSUME NEW S, NEW n \in Nat, NEW f, DOMAIN f = 1 .. n, f = [i \in 1 .. n |-> f[i]],
         \A i \in 1 .. n : f[i] \in S
  PROVE  f \in Seq(S) /\ Len(f) = n
  OBVIOUS

-----------------------------------------------------------------------------
(***************************************************************************)
(* The inductive invariant, in parts.  The server's stream: where its n-th *)
(* message ends, and that each begins there.                               *)
(***************************************************************************)
Position(s, n) == IF n = 0 THEN 0 ELSE End(s[n])

Chained(s) ==
  /\ \A n \in 1 .. Len(s) : s[n].start = Position(s, n - 1)
  /\ \A m, n \in 1 .. Len(s) : m < n => End(s[m]) <= s[n].start

\* What is handed over, and what is about to be, are the first messages.
Handed(s, done, todo) ==
  /\ Len(done) + Len(todo) <= Len(s)
  /\ \A n \in 1 .. Len(done) : done[n] = Body(s[n])
  /\ \A n \in 1 .. Len(todo) : todo[n] = Body(s[Len(done) + n])

\* `r' is the one request, in the socket's queue or in readQueue; nothing of
\* the buffer is taken while it waits there.
Outstanding(q, rq, off, r) ==
  \/ /\ rq = <<r>> /\ off = 0
     /\ \A i \in 1 .. Len(q) : q[i].type = "data"
  \/ /\ rq = <<>>
     /\ \E k \in 1 .. Len(q) :
          /\ q[k].type = "read" /\ q[k].request = r
          /\ \A i \in 1 .. Len(q) : i # k => q[i].type = "data"

\* It asks for the header behind the n-th message, or for the body behind it.
Asks(s, n, r) ==
  \/ r = HeaderRequest
  \/ n < Len(s) /\ r = Request("body", s[n + 1].length, s[n + 1].start)

Reached(s, n, r) == Position(s, n) + (IF r.kind = "body" THEN HeaderLength ELSE 0)

\* What is left of the buffer are the bytes between two positions.
Buffered(buf, off, from, to) ==
  /\ Len(buf) - off = to - from
  /\ \A k \in 1 .. to - from : buf[off + k] = from + k

\* The i-th block of the queue holds the bytes from pos[i] to pos[i + 1].
Waiting(q, upto, pos) ==
  /\ pos[Len(q) + 1] = upto
  /\ \A i \in 1 .. Len(q) :
       /\ Len(q[i].bytes) = pos[i + 1] - pos[i]
       /\ \A k \in 1 .. Len(q[i].bytes) : q[i].bytes[k] = pos[i] + k
       /\ q[i].type = "read" => pos[i + 1] = pos[i]

Places(q, upto) == [1 .. Len(q) + 1 -> 0 .. upto]

Keeps(s, n, upto, q, rq, buf, off, r, pos) ==
  /\ Outstanding(q, rq, off, r)
  /\ Asks(s, n, r)
  /\ Buffered(buf, off, Reached(s, n, r), pos[1])
  /\ Waiting(q, upto, pos)

InPlace(s, n, upto, q, rq, buf, off) ==
  \E r \in Requests, pos \in Places(q, upto) :
    Keeps(s, n, upto, q, rq, buf, off, r, pos)

Inv ==
  /\ TypeOK
  /\ NeverTrapped
  /\ Chained(sent)
  /\ Handed(sent, processed, messages)
  /\ InPlace(sent, MessagesRead, arrived, queue, readQueue, inputBuffer, offset)

-----------------------------------------------------------------------------
(***************************************************************************)
(* The stream.                                                             *)
(***************************************************************************)
LEMMA Lengths == BodyLengths \subseteq Nat /\ HeaderLength = 5 /\ HeaderRequest \in Requests
  BY ReadingAssumption DEF HeaderLength, HeaderRequest, Request, Requests, Kinds

LEMMA EndTypes ==
  ASSUME NEW m \in SentMessages
  PROVE  /\ m.start \in Nat /\ m.length \in Nat /\ m.length \in BodyLengths
         /\ End(m) \in Nat /\ End(m) = m.start + 5 + m.length
<1>1. m.start \in Nat /\ m.length \in BodyLengths
  BY DEF SentMessages
<1>2. m.length \in Nat /\ HeaderLength = 5
  BY <1>1, Lengths
<1> QED  BY <1>1, <1>2 DEF End

LEMMA EndsBehind ==
  \A m \in SentMessages : End(m) > m.start /\ m.start \in Nat /\ End(m) \in Nat
<1> SUFFICES ASSUME NEW m \in SentMessages
             PROVE  End(m) > m.start /\ m.start \in Nat /\ End(m) \in Nat
  OBVIOUS
<1>1. m.start \in Nat /\ m.length \in Nat /\ End(m) = m.start + 5 + m.length
  BY EndTypes
<1> QED  BY <1>1

LEMMA Positions ==
  ASSUME NEW s \in Seq(SentMessages), NEW n \in 0 .. Len(s), Chained(s)
  PROVE  /\ Position(s, n) \in Nat
         /\ n < Len(s) => /\ s[n + 1] \in SentMessages
                          /\ s[n + 1].start = Position(s, n)
                          /\ Position(s, n + 1) = Position(s, n) + 5 + s[n + 1].length
<1>1. \A k \in 1 .. Len(s) : s[k] \in SentMessages
  OBVIOUS
<1>2. Position(s, n) \in Nat
  <2>1. CASE n = 0
    BY <2>1 DEF Position
  <2>2. CASE n # 0
    <3>1. n \in 1 .. Len(s)
      BY <2>2
    <3>2. End(s[n]) \in Nat
      BY <3>1, <1>1, EndTypes
    <3> QED  BY <3>2, <2>2 DEF Position
  <2> QED  BY <2>1, <2>2
<1>3. ASSUME n < Len(s)
      PROVE  /\ s[n + 1] \in SentMessages
             /\ s[n + 1].start = Position(s, n)
             /\ Position(s, n + 1) = Position(s, n) + 5 + s[n + 1].length
  <2>1. n + 1 \in 1 .. Len(s) /\ n + 1 # 0 /\ (n + 1) - 1 = n
    BY <1>3
  <2>2. s[n + 1] \in SentMessages
    BY <2>1, <1>1
  <2>3. s[n + 1].start = Position(s, n)
    BY <2>1 DEF Chained
  <2>4. Position(s, n + 1) = End(s[n + 1])
    BY <2>1 DEF Position
  <2>5. End(s[n + 1]) = s[n + 1].start + 5 + s[n + 1].length
    BY <2>2, EndTypes
  <2> QED  BY <2>2, <2>3, <2>4, <2>5
<1> QED  BY <1>2, <1>3

LEMMA StreamEnds ==
  ASSUME TypeOK
  PROVE  StreamEnd = Position(sent, Len(sent))
<1>1. sent \in Seq(SentMessages)
  BY DEF TypeOK, SentMessages
<1>2. sent = <<>> <=> Len(sent) = 0
  BY <1>1
<1> QED  BY <1>2 DEF StreamEnd, Position

\* The header of a message is found nowhere else.
LEMMA OneHeader ==
  ASSUME NEW s \in Seq(SentMessages), NEW n \in 0 .. Len(s), n < Len(s), Chained(s),
         NEW i \in 1 .. Len(s), s[i].start = Position(s, n)
  PROVE  i = n + 1
<1>1. /\ n + 1 \in 1 .. Len(s) /\ s[n + 1].start = Position(s, n)
      /\ s[i] \in SentMessages /\ s[n + 1] \in SentMessages
  BY Positions
<1>2. /\ End(s[i]) > s[i].start /\ End(s[n + 1]) > s[n + 1].start
      /\ s[i].start \in Nat /\ End(s[i]) \in Nat /\ End(s[n + 1]) \in Nat
  BY <1>1, EndsBehind
<1>3. /\ i < n + 1 => End(s[i]) <= s[n + 1].start
      /\ n + 1 < i => End(s[n + 1]) <= s[i].start
  BY <1>1 DEF Chained
<1> QED  BY <1>1, <1>2, <1>3

LEMMA StreamGrows ==
  ASSUME NEW s \in Seq(SentMessages), NEW m \in SentMessages, Chained(s),
         m.start = Position(s, Len(s)),
         NEW t \in Seq(SentMessages), t = Append(s, m)
  PROVE  /\ t \in Seq(SentMessages) /\ Len(t) = Len(s) + 1 /\ Len(s) \in Nat
         /\ \A n \in 1 .. Len(s) : t[n] = s[n]
         /\ \A n \in 0 .. Len(s) : Position(t, n) = Position(s, n)
         /\ Position(t, Len(t)) >= Position(s, Len(s)) 
         /\ Chained(t)
<1>1. Len(s) \in Nat /\ Len(s) \in 0 .. Len(s)
  OBVIOUS
<1>2. Position(s, Len(s)) \in Nat
  BY <1>1, Positions
<1>3. m.start = Position(s, Len(s))
  OBVIOUS
<1>4. /\ Len(t) = Len(s) + 1
      /\ \A n \in 1 .. Len(s) : t[n] = s[n]
      /\ t[Len(s) + 1] = m
  BY Added
<1>5. \A n \in 0 .. Len(s) : Position(t, n) = Position(s, n)
  BY <1>1, <1>4 DEF Position
<1>6. End(m) \in Nat /\ End(m) >= Position(s, Len(s))
  BY <1>2, <1>3, EndTypes, Lengths
<1>7. Position(t, Len(t)) >= Position(s, Len(s))
  BY <1>1, <1>4, <1>6 DEF Position
<1>8. ASSUME NEW n \in 1 .. Len(t)
      PROVE  t[n].start = Position(t, n - 1)
  <2>1. CASE n = Len(s) + 1
    BY <1>1, <1>3, <1>4, <1>5, <2>1
  <2>2. CASE n \in 1 .. Len(s)
    <3>1. s[n].start = Position(s, n - 1) /\ n - 1 \in 0 .. Len(s)
      BY <1>1, <2>2 DEF Chained
    <3> QED  BY <3>1, <1>4, <1>5, <2>2
  <2> QED  BY <1>1, <1>4, <2>1, <2>2
<1>9. ASSUME NEW k \in 1 .. Len(t), NEW n \in 1 .. Len(t), k < n
      PROVE  End(t[k]) <= t[n].start
  <2>1. k \in 1 .. Len(s) /\ t[k] = s[k] /\ s[k] \in SentMessages
    BY <1>1, <1>4, <1>9
  <2>2. CASE n \in 1 .. Len(s)
    BY <1>4, <1>9, <2>1, <2>2 DEF Chained
  <2>3. CASE n = Len(s) + 1
    <3>1. CASE k = Len(s)
      <4>1. End(s[k]) = Position(s, Len(s))
        BY <3>1, <2>1, <1>1 DEF Position
      <4> QED  BY <4>1, <2>1, <2>3, <1>2, <1>3, <1>4
    <3>2. CASE k < Len(s)
      <4>1. /\ Len(s) \in 1 .. Len(s) /\ s[Len(s)] \in SentMessages
            /\ Position(s, Len(s)) = End(s[Len(s)])
        BY <1>1, <3>2, <2>1 DEF Position
      <4>2. End(s[k]) <= s[Len(s)].start
        BY <2>1, <3>2, <4>1 DEF Chained
      <4>3. s[Len(s)].start <= End(s[Len(s)]) /\ s[Len(s)].start \in Nat /\ End(s[k]) \in Nat
        BY <4>1, <2>1, EndsBehind
      <4> QED  BY <4>1, <4>2, <4>3, <2>1, <2>3, <1>2, <1>3, <1>4
    <3> QED  BY <2>1, <1>1, <3>1, <3>2
  <2> QED  BY <1>1, <1>4, <2>2, <2>3
<1>10. Chained(t)
  BY <1>8, <1>9 DEF Chained
<1> QED  BY <1>1, <1>4, <1>5, <1>7, <1>10

-----------------------------------------------------------------------------
(***************************************************************************)
(* The socket's queue.  A block added at its end holds what comes next;    *)
(* one taken from its front leaves the others where they are.              *)
(***************************************************************************)
LEMMA BlockTypes ==
  ASSUME NEW q \in Seq(Blocks), NEW i \in 1 .. Len(q)
  PROVE  /\ q[i] \in Blocks /\ q[i].type \in {"data", "read"}
         /\ q[i].bytes \in Seq(Nat) /\ q[i].request \in Requests
<1>1. q[i] \in Blocks
  OBVIOUS
<1> QED  BY <1>1 DEF Blocks

LEMMA FirstBlock ==
  ASSUME NEW q \in Seq(Blocks), q # <<>>
  PROVE  /\ Head(q).bytes \in Seq(Nat) /\ Head(q).request \in Requests
         /\ Tail(q) \in Seq(Blocks)
<1>1. Head(q) \in Blocks /\ Tail(q) \in Seq(Blocks)
  BY Shifted
<1> QED  BY <1>1 DEF Blocks

LEMMA WaitingAdded ==
  ASSUME NEW q \in Seq(Blocks), NEW b \in Blocks, NEW upto \in Nat, NEW to \in Nat,
         NEW pos \in Places(q, upto), upto <= to,
         Waiting(q, upto, pos), Len(b.bytes) = to - upto, b.type = "read" => to = upto,
         \A k \in 1 .. Len(b.bytes) : b.bytes[k] = upto + k
  PROVE  \E pos2 \in Places(Append(q, b), to) :
           pos2[1] = pos[1] /\ Waiting(Append(q, b), to, pos2)
<1> DEFINE r == Append(q, b)
           pos2 == [i \in 1 .. Len(q) + 2 |-> IF i = Len(q) + 2 THEN to ELSE pos[i]]
<1>1. /\ r \in Seq(Blocks) /\ Len(r) = Len(q) + 1 /\ Len(q) \in Nat
      /\ \A i \in 1 .. Len(q) : r[i] = q[i]
      /\ r[Len(q) + 1] = b
  BY Added
<1> HIDE DEF r
<1>2. \A i \in 1 .. Len(q) + 1 : pos[i] \in 0 .. upto
  BY DEF Places
<1>3. pos2 \in [1 .. Len(q) + 2 -> 0 .. to]
  BY <1>1, <1>2
<1>4. /\ \A i \in 1 .. Len(q) + 1 : pos2[i] = pos[i]
      /\ pos2[Len(q) + 2] = to
  BY <1>1
<1> HIDE DEF pos2
<1>5. pos2 \in Places(r, to)
  BY <1>1, <1>3 DEF Places
<1>6. pos2[1] = pos[1] /\ pos2[Len(r) + 1] = to /\ pos[Len(q) + 1] = upto
  BY <1>1, <1>4 DEF Waiting
<1>7. ASSUME NEW i \in 1 .. Len(r)
      PROVE  /\ Len(r[i].bytes) = pos2[i + 1] - pos2[i]
             /\ \A k \in 1 .. Len(r[i].bytes) : r[i].bytes[k] = pos2[i] + k
             /\ r[i].type = "read" => pos2[i + 1] = pos2[i]
  <2>1. CASE i = Len(q) + 1
    <3>1. r[i] = b /\ pos2[i] = upto /\ pos2[i + 1] = to
      <4>1. i + 1 = Len(q) + 2 /\ i \in 1 .. Len(q) + 1
        BY <1>1, <2>1
      <4>2. r[i] = b /\ pos2[i] = upto
        BY <1>1, <1>4, <1>6, <2>1, <4>1
      <4>3. pos2[i + 1] = to
        BY <1>4, <4>1
      <4> QED  BY <4>2, <4>3
    <3> QED  BY <3>1
  <2>2. CASE i \in 1 .. Len(q)
    <3>1. i \in 1 .. Len(q) + 1 /\ i + 1 \in 1 .. Len(q) + 1
      BY <1>1, <2>2
    <3>2. r[i] = q[i] /\ pos2[i] = pos[i] /\ pos2[i + 1] = pos[i + 1]
      BY <1>1, <1>4, <2>2, <3>1
    <3> QED  BY <3>2, <2>2 DEF Waiting
  <2> QED  BY <1>1, <2>1, <2>2
<1>8. Waiting(r, to, pos2)
  BY <1>6, <1>7 DEF Waiting
<1> QED  BY <1>5, <1>6, <1>8 DEF r

LEMMA WaitingTaken ==
  ASSUME NEW q \in Seq(Blocks), NEW upto \in Nat, NEW pos \in Places(q, upto),
         q # <<>>, Waiting(q, upto, pos)
  PROVE  /\ pos[1] \in 0 .. upto /\ pos[2] \in 0 .. upto
         /\ Len(Head(q).bytes) = pos[2] - pos[1]
         /\ \A k \in 1 .. Len(Head(q).bytes) : Head(q).bytes[k] = pos[1] + k
         /\ Head(q).type = "read" => pos[2] = pos[1]
         /\ \E pos2 \in Places(Tail(q), upto) :
              pos2[1] = pos[2] /\ Waiting(Tail(q), upto, pos2)
<1> DEFINE r == Tail(q)
           pos2 == [i \in 1 .. Len(q) |-> pos[i + 1]]
<1>1. /\ r \in Seq(Blocks) /\ Len(r) = Len(q) - 1 /\ Len(q) \in Nat \ {0}
      /\ \A i \in 1 .. Len(r) : r[i] = q[i + 1]
      /\ Head(q) = q[1]
  BY Shifted
<1> HIDE DEF r
<1>2. \A i \in 1 .. Len(q) + 1 : pos[i] \in 0 .. upto
  BY DEF Places
<1>3. pos2 \in [1 .. Len(q) -> 0 .. upto]
  BY <1>1, <1>2
<1>4. \A i \in 1 .. Len(q) : pos2[i] = pos[i + 1]
  OBVIOUS
<1> HIDE DEF pos2
<1>5. pos2 \in Places(r, upto)
  BY <1>1, <1>3 DEF Places
<1>6. /\ pos2[1] = pos[2] /\ pos2[Len(r) + 1] = upto
      /\ pos[1] \in 0 .. upto /\ pos[2] \in 0 .. upto
  BY <1>1, <1>2, <1>4 DEF Waiting
<1>7. /\ Len(q[1].bytes) = pos[2] - pos[1]
      /\ \A k \in 1 .. Len(q[1].bytes) : q[1].bytes[k] = pos[1] + k
      /\ q[1].type = "read" => pos[2] = pos[1]
  <2>1. 1 \in 1 .. Len(q) /\ 1 + 1 = 2
    BY <1>1
  <2> QED  BY <2>1 DEF Waiting
<1>8. ASSUME NEW i \in 1 .. Len(r)
      PROVE  /\ Len(r[i].bytes) = pos2[i + 1] - pos2[i]
             /\ \A k \in 1 .. Len(r[i].bytes) : r[i].bytes[k] = pos2[i] + k
             /\ r[i].type = "read" => pos2[i + 1] = pos2[i]
  <2>1. /\ i + 1 \in 1 .. Len(q) /\ r[i] = q[i + 1]
        /\ pos2[i] = pos[i + 1] /\ pos2[i + 1] = pos[(i + 1) + 1]
    BY <1>1, <1>4
  <2> QED  BY <2>1 DEF Waiting
<1>9. Waiting(r, upto, pos2)
  BY <1>6, <1>8 DEF Waiting
<1> QED  BY <1>1, <1>5, <1>6, <1>7, <1>9 DEF r

\* The request outstanding, when a block is added or taken.
LEMMA StillOutstanding ==
  ASSUME NEW q \in Seq(Blocks), NEW b \in Blocks, NEW rq, NEW off, NEW r,
         Outstanding(q, rq, off, r), b.type = "data"
  PROVE  Outstanding(Append(q, b), rq, off, r)
<1> DEFINE p == Append(q, b)
<1>1. /\ p \in Seq(Blocks) /\ Len(p) = Len(q) + 1 /\ Len(q) \in Nat
      /\ \A i \in 1 .. Len(q) : p[i] = q[i]
      /\ p[Len(q) + 1] = b
  BY Added
<1> HIDE DEF p
<1>2. CASE rq = <<r>> /\ off = 0 /\ \A i \in 1 .. Len(q) : q[i].type = "data"
  <2>1. \A i \in 1 .. Len(p) : p[i].type = "data"
    BY <1>1, <1>2
  <2> QED  BY <1>2, <2>1 DEF Outstanding, p
<1>3. CASE rq = <<>> /\ \E k \in 1 .. Len(q) :
                          /\ q[k].type = "read" /\ q[k].request = r
                          /\ \A i \in 1 .. Len(q) : i # k => q[i].type = "data"
  <2>1. PICK k \in 1 .. Len(q) : /\ q[k].type = "read" /\ q[k].request = r
                                 /\ \A i \in 1 .. Len(q) : i # k => q[i].type = "data"
    BY <1>3
  <2>2. /\ k \in 1 .. Len(p) /\ p[k].type = "read" /\ p[k].request = r
        /\ \A i \in 1 .. Len(p) : i # k => p[i].type = "data"
    BY <1>1, <2>1
  <2> QED  BY <1>3, <2>2 DEF Outstanding, p
<1> QED  BY <1>2, <1>3 DEF Outstanding

LEMMA NowOutstanding ==
  ASSUME NEW q \in Seq(Blocks), NEW b \in Blocks, NEW off,
         \A i \in 1 .. Len(q) : q[i].type = "data", b.type = "read"
  PROVE  Outstanding(Append(q, b), <<>>, off, b.request)
<1> DEFINE p == Append(q, b)
<1>1. /\ Len(p) = Len(q) + 1 /\ Len(q) \in Nat
      /\ \A i \in 1 .. Len(q) : p[i] = q[i]
      /\ p[Len(q) + 1] = b
  BY Added
<1> HIDE DEF p
<1>2. /\ Len(q) + 1 \in 1 .. Len(p) /\ p[Len(q) + 1].type = "read"
      /\ p[Len(q) + 1].request = b.request
      /\ \A i \in 1 .. Len(p) : i # Len(q) + 1 => p[i].type = "data"
  BY <1>1
<1> QED  BY <1>2 DEF Outstanding, p

LEMMA OutstandingTaken ==
  ASSUME NEW q \in Seq(Blocks), q # <<>>, NEW rq, NEW off, NEW r,
         Outstanding(q, rq, off, r)
  PROVE  /\ Head(q).type = "data" => Outstanding(Tail(q), rq, 0, r)
         /\ Head(q).type = "read" => /\ rq = <<>> /\ Head(q).request = r
                                     /\ Outstanding(Tail(q), <<r>>, 0, r)
<1> DEFINE p == Tail(q)
<1>1. /\ Len(p) = Len(q) - 1 /\ Len(q) \in Nat \ {0}
      /\ \A i \in 1 .. Len(p) : p[i] = q[i + 1]
      /\ Head(q) = q[1]
  BY Shifted
<1> HIDE DEF p
<1>2. CASE rq = <<r>> /\ off = 0 /\ \A i \in 1 .. Len(q) : q[i].type = "data"
  <2>1. Head(q).type = "data" /\ \A i \in 1 .. Len(p) : p[i].type = "data"
    BY <1>1, <1>2
  <2> QED  BY <1>2, <2>1 DEF Outstanding, p
<1>3. CASE rq = <<>> /\ \E k \in 1 .. Len(q) :
                          /\ q[k].type = "read" /\ q[k].request = r
                          /\ \A i \in 1 .. Len(q) : i # k => q[i].type = "data"
  <2>1. PICK k \in 1 .. Len(q) : /\ q[k].type = "read" /\ q[k].request = r
                                 /\ \A i \in 1 .. Len(q) : i # k => q[i].type = "data"
    BY <1>3
  <2>2. CASE k = 1
    <3>1. Head(q).type = "read" /\ Head(q).request = r
          /\ \A i \in 1 .. Len(p) : p[i].type = "data"
      BY <1>1, <2>1, <2>2
    <3> QED  BY <1>3, <3>1 DEF Outstanding, p
  <2>3. CASE k # 1
    <3>1. Head(q).type = "data" /\ k - 1 \in 1 .. Len(p) /\ (k - 1) + 1 = k
      BY <1>1, <2>1, <2>3
    <3>2. p[k - 1].type = "read" /\ p[k - 1].request = r
      BY <1>1, <2>1, <3>1
    <3>3. ASSUME NEW i \in 1 .. Len(p), i # k - 1
          PROVE  p[i].type = "data"
      <4>1. i + 1 \in 1 .. Len(q) /\ i + 1 # k /\ p[i] = q[i + 1]
        BY <1>1, <3>3
      <4> QED  BY <4>1, <2>1
    <3> QED  BY <1>3, <3>1, <3>2, <3>3 DEF Outstanding, p
  <2> QED  BY <2>2, <2>3
<1> QED  BY <1>2, <1>3 DEF Outstanding

-----------------------------------------------------------------------------
(***************************************************************************)
(* Facts that follow from the invariant in every state.                    *)
(***************************************************************************)
LEMMA Facts ==
  ASSUME Inv
  PROVE  /\ sent \in Seq(SentMessages) /\ queue \in Seq(Blocks)
         /\ inputBuffer \in Seq(Nat) /\ readQueue \in Seq(Requests)
         /\ messages \in Seq(Messages) /\ processed \in Seq(Messages)
         /\ Len(sent) \in Nat /\ Len(processed) \in Nat /\ Len(messages) \in Nat
         /\ MessagesRead = Len(processed) + Len(messages)
         /\ MessagesRead \in 0 .. Len(sent)
         /\ Chained(sent)
         /\ StreamEnd = Position(sent, Len(sent)) /\ StreamEnd \in Nat
         /\ arrived \in Nat /\ arrived <= StreamEnd
         /\ offset \in 0 .. Len(inputBuffer)
<1>1. /\ sent \in Seq(SentMessages) /\ queue \in Seq(Blocks)
      /\ inputBuffer \in Seq(Nat) /\ readQueue \in Seq(Requests)
      /\ messages \in Seq(Messages) /\ processed \in Seq(Messages)
  BY DEF Inv, TypeOK, SentMessages, Blocks
<1>2. Len(sent) \in Nat /\ Len(processed) \in Nat /\ Len(messages) \in Nat
  BY <1>1
<1>3. MessagesRead = Len(processed) + Len(messages) /\ MessagesRead \in 0 .. Len(sent)
  BY <1>2 DEF Inv, Handed, MessagesRead
<1>4. Chained(sent) /\ StreamEnd = Position(sent, Len(sent))
  BY StreamEnds DEF Inv
<1>5. StreamEnd \in Nat
  <2>1. Len(sent) \in 0 .. Len(sent)
    BY <1>2
  <2> QED  BY <1>1, <1>4, <2>1, Positions
<1>6. arrived \in Nat /\ arrived <= StreamEnd /\ offset \in 0 .. Len(inputBuffer)
  BY <1>5 DEF Inv, TypeOK
<1> QED  BY <1>1, <1>2, <1>3, <1>4, <1>5, <1>6

-----------------------------------------------------------------------------
(***************************************************************************)
(* The initial state, and each action.                                     *)
(***************************************************************************)
LEMMA InvInitially == Init => Inv
<1> SUFFICES ASSUME Init PROVE Inv
  OBVIOUS
<1> DEFINE b == Read(HeaderRequest)
<1>1. b \in Blocks /\ b.type = "read" /\ b.request = HeaderRequest /\ b.bytes = <<>>
  BY Lengths DEF Read, Blocks
<1> HIDE DEF b
<1>2. /\ queue = <<b>> /\ queue \in Seq(Blocks) /\ Len(queue) = 1 /\ queue[1] = b
  BY <1>1 DEF Init, b
<1>3. /\ sent \in Seq(SentMessages) /\ inputBuffer \in Seq(Nat) /\ readQueue \in Seq(Requests)
      /\ messages \in Seq(Messages) /\ processed \in Seq(Messages)
      /\ Len(sent) = 0 /\ Len(messages) = 0 /\ Len(processed) = 0 /\ Len(inputBuffer) = 0
  BY DEF Init
<1>4. arrived = 0 /\ offset = 0 /\ StreamEnd = 0 /\ performing = FALSE /\ trapped = FALSE
  BY DEF Init, StreamEnd
<1>5. TypeOK /\ NeverTrapped
  <2>1. queue \in Seq([type : {"data", "read"}, bytes : Seq(Nat), request : Requests])
    BY <1>2 DEF Blocks
  <2>2. sent \in Seq([start : Nat, length : BodyLengths])
    BY <1>3 DEF SentMessages
  <2>3. offset \in 0 .. Len(inputBuffer) /\ arrived \in 0 .. StreamEnd
    BY <1>3, <1>4
  <2> QED  BY <1>3, <1>4, <2>1, <2>2, <2>3 DEF TypeOK, NeverTrapped
<1>6. Chained(sent) /\ Handed(sent, processed, messages)
  BY <1>3 DEF Chained, Handed
<1>7. InPlace(sent, MessagesRead, arrived, queue, readQueue, inputBuffer, offset)
  <2>1. PICK pos : pos = [i \in 1 .. 2 |-> 0]
    OBVIOUS
  <2>2. pos \in Places(queue, arrived)
    BY <1>2, <1>4, <2>1 DEF Places
  <2>3. Waiting(queue, arrived, pos)
    BY <1>1, <1>2, <1>4, <2>1 DEF Waiting
  <2>4. Outstanding(queue, readQueue, offset, HeaderRequest)
    BY <1>1, <1>2 DEF Outstanding, Init
  <2>5. Reached(sent, MessagesRead, HeaderRequest) = 0
    BY <1>3 DEF Reached, Position, MessagesRead, HeaderRequest, Request
  <2>6. Buffered(inputBuffer, offset, Reached(sent, MessagesRead, HeaderRequest), pos[1])
    BY <1>3, <1>4, <2>1, <2>5 DEF Buffered
  <2>7. Keeps(sent, MessagesRead, arrived, queue, readQueue, inputBuffer, offset,
              HeaderRequest, pos)
    BY <2>3, <2>4, <2>6 DEF Keeps, Asks
  <2> QED  BY <2>2, <2>7, Lengths DEF InPlace
<1> QED  BY <1>5, <1>6, <1>7 DEF Inv

LEMMA SendKeepsInv == Inv /\ Send => Inv'
<1> SUFFICES ASSUME Inv, Send PROVE Inv'
  OBVIOUS
<1>1. PICK m \in SentMessages : sent' = Append(sent, m) /\ m.start = Position(sent, Len(sent))
  <2>1. PICK l \in BodyLengths : sent' = Append(sent, [start |-> StreamEnd, length |-> l])
    BY DEF Send
  <2>2. [start |-> StreamEnd, length |-> l] \in SentMessages
    BY Facts DEF SentMessages
  <2> QED  BY <2>1, <2>2, Facts
<1>2. /\ sent' \in Seq(SentMessages) /\ Len(sent') = Len(sent) + 1 /\ Len(sent) \in Nat
      /\ \A n \in 1 .. Len(sent) : sent'[n] = sent[n]
      /\ \A n \in 0 .. Len(sent) : Position(sent', n) = Position(sent, n)
      /\ Position(sent', Len(sent')) >= Position(sent, Len(sent))
      /\ Chained(sent')
  <2>1. sent \in Seq(SentMessages) /\ Chained(sent)
    BY Facts
  <2>2. sent' \in Seq(SentMessages) /\ Len(sent') = Len(sent) + 1 /\ Len(sent) \in Nat
    BY <1>1, <2>1
  <2> QED  BY <1>1, <2>1, <2>2, StreamGrows
<1>3. UNCHANGED <<arrived, queue, inputBuffer, readQueue, performing, offset, trapped, messages, processed>>
  BY DEF Send, socketVars, loopVars
<1>4. TypeOK'
  <2>1. StreamEnd' = Position(sent', Len(sent'))
    <3>1. sent' # <<>>
      BY <1>2
    <3> QED  BY <1>2, <3>1 DEF StreamEnd, Position
  <2>2. StreamEnd' \in Nat
    <3>1. Len(sent') \in 0 .. Len(sent')
      BY <1>2
    <3> QED  BY <1>2, <2>1, <3>1, Positions
  <2>3. arrived' \in 0 .. StreamEnd'
    BY <1>2, <1>3, <2>1, <2>2, Facts
  <2>4. sent' \in Seq([start : Nat, length : BodyLengths])
    BY <1>2 DEF SentMessages
  <2>5. TypeOK
    BY DEF Inv
  <2> QED  BY <1>3, <2>3, <2>4, <2>5 DEF TypeOK
<1>5. Handed(sent', processed', messages')
  <2>1. /\ Len(processed) + Len(messages) <= Len(sent)
        /\ Len(processed) \in Nat /\ Len(messages) \in Nat
        /\ \A n \in 1 .. Len(processed) : processed[n] = Body(sent[n])
        /\ \A n \in 1 .. Len(messages) : messages[n] = Body(sent[Len(processed) + n])
    BY Facts DEF Inv, Handed
  <2>2. ASSUME NEW n \in 1 .. Len(processed)
        PROVE  processed[n] = Body(sent'[n])
    <3>1. n \in 1 .. Len(sent)
      BY <1>2, <2>1
    <3> QED  BY <1>2, <2>1, <3>1
  <2>3. ASSUME NEW n \in 1 .. Len(messages)
        PROVE  messages[n] = Body(sent'[Len(processed) + n])
    <3>1. Len(processed) + n \in 1 .. Len(sent)
      BY <1>2, <2>1
    <3> QED  BY <1>2, <2>1, <3>1
  <2> QED  BY <1>2, <1>3, <2>1, <2>2, <2>3 DEF Handed
<1>6. InPlace(sent', MessagesRead', arrived', queue', readQueue', inputBuffer', offset')
  <2>1. MessagesRead' = MessagesRead /\ MessagesRead \in 0 .. Len(sent)
    BY <1>3, Facts DEF MessagesRead
  <2>2. PICK r \in Requests, pos \in Places(queue, arrived) :
          Keeps(sent, MessagesRead, arrived, queue, readQueue, inputBuffer, offset, r, pos)
    BY DEF Inv, InPlace
  <2>3. Reached(sent', MessagesRead, r) = Reached(sent, MessagesRead, r)
    BY <1>2, <2>1 DEF Reached
  <2>4. Asks(sent', MessagesRead, r)
    <3>1. CASE r = HeaderRequest
      BY <3>1 DEF Asks
    <3>2. CASE r # HeaderRequest
      <4>1. /\ MessagesRead < Len(sent)
            /\ r = Request("body", sent[MessagesRead + 1].length, sent[MessagesRead + 1].start)
        BY <2>2, <3>2 DEF Keeps, Asks
      <4>2. sent'[MessagesRead + 1] = sent[MessagesRead + 1] /\ MessagesRead < Len(sent')
        BY <1>2, <2>1, <4>1
      <4> QED  BY <4>1, <4>2 DEF Asks
    <3> QED  BY <3>1, <3>2
  <2>5. Keeps(sent', MessagesRead, arrived, queue, readQueue, inputBuffer, offset, r, pos)
    BY <2>2, <2>3, <2>4 DEF Keeps
  <2> QED  BY <1>3, <2>1, <2>5 DEF InPlace
<1>7. NeverTrapped'
  BY <1>3 DEF Inv, NeverTrapped
<1> QED  BY <1>2, <1>4, <1>5, <1>6, <1>7 DEF Inv

LEMMA ChannelReadKeepsInv == Inv /\ ChannelRead => Inv'
<1> SUFFICES ASSUME Inv, ChannelRead PROVE Inv'
  OBVIOUS
<1>1. PICK to \in arrived + 1 .. StreamEnd :
        arrived' = to /\ queue' = Append(queue, Data(Bytes(arrived, to)))
  BY DEF ChannelRead
<1>2. UNCHANGED <<sent, inputBuffer, readQueue, performing, offset, trapped, messages, processed>>
  BY DEF ChannelRead, socketVars, loopVars
<1> DEFINE b == Data(Bytes(arrived, to))
<1>3. to \in Nat /\ arrived <= to /\ to <= StreamEnd
  BY <1>1, Facts
<1>4. /\ b \in Blocks /\ b.type = "data" /\ Len(b.bytes) = to - arrived
      /\ \A k \in 1 .. Len(b.bytes) : b.bytes[k] = arrived + k
  <2>1. to - arrived \in Nat /\ arrived \in Nat
    BY <1>3, Facts
  <2>2. /\ Bytes(arrived, to) \in Seq(Nat) /\ Len(Bytes(arrived, to)) = to - arrived
        /\ \A k \in 1 .. to - arrived : Bytes(arrived, to)[k] = arrived + k
    BY <2>1 DEF Bytes
  <2> QED  BY <2>2, Lengths DEF Data, Blocks
<1> HIDE DEF b
<1>5. queue' = Append(queue, b)
  BY <1>1 DEF b
<1>6. TypeOK'
  <2>1. StreamEnd' = StreamEnd
    BY <1>2 DEF StreamEnd
  <2>2. queue' \in Seq(Blocks)
    BY <1>4, <1>5, Facts, Added
  <2> QED  BY <1>1, <1>2, <1>3, <2>1, <2>2 DEF TypeOK, Inv, Blocks
<1>7. InPlace(sent', MessagesRead', arrived', queue', readQueue', inputBuffer', offset')
  <2>1. MessagesRead' = MessagesRead
    BY <1>2 DEF MessagesRead
  <2>2. PICK r \in Requests, pos \in Places(queue, arrived) :
          Keeps(sent, MessagesRead, arrived, queue, readQueue, inputBuffer, offset, r, pos)
    BY DEF Inv, InPlace
  <2>3. PICK pos2 \in Places(Append(queue, b), to) :
          pos2[1] = pos[1] /\ Waiting(Append(queue, b), to, pos2)
    BY <1>3, <1>4, <2>2, Facts, WaitingAdded DEF Keeps
  <2>4. Outstanding(Append(queue, b), readQueue, offset, r)
    BY <1>4, <2>2, Facts, StillOutstanding DEF Keeps
  <2>5. Keeps(sent, MessagesRead, to, Append(queue, b), readQueue, inputBuffer, offset, r, pos2)
    BY <2>2, <2>3, <2>4 DEF Keeps
  <2>6. InPlace(sent, MessagesRead, to, Append(queue, b), readQueue, inputBuffer, offset)
    BY <2>3, <2>5 DEF InPlace
  <2> QED  BY <1>1, <1>2, <1>5, <2>1, <2>6
<1> QED  BY <1>2, <1>6, <1>7 DEF Inv, NeverTrapped

LEMMA BufferedMore ==
  ASSUME NEW buf \in Seq(Nat), NEW more \in Seq(Nat), NEW buf2 \in Seq(Nat),
         NEW from \in Nat, NEW mid \in Nat, NEW to \in Nat,
         Len(buf2) = Len(buf) + Len(more),
         \A i \in 1 .. Len(buf) : buf2[i] = buf[i],
         \A i \in 1 .. Len(more) : buf2[Len(buf) + i] = more[i],
         Buffered(buf, 0, from, mid),
         Len(more) = to - mid, \A k \in 1 .. Len(more) : more[k] = mid + k
  PROVE  Buffered(buf2, 0, from, to)
<1>1. Len(buf) \in Nat /\ Len(more) \in Nat /\ Len(buf2) \in Nat
  OBVIOUS
<1>2. Len(buf) = mid - from /\ \A k \in 1 .. mid - from : buf[k] = from + k
  <2>1. Len(buf) - 0 = mid - from /\ \A k \in 1 .. mid - from : buf[0 + k] = from + k
    BY DEF Buffered
  <2>2. \A k \in 1 .. mid - from : 0 + k = k
    OBVIOUS
  <2> QED  BY <1>1, <2>1, <2>2
<1>3. Len(buf2) - 0 = to - from
  BY <1>1, <1>2
<1>4. ASSUME NEW k \in 1 .. to - from
      PROVE  buf2[0 + k] = from + k
  <2>1. k \in Nat /\ 0 + k = k
    OBVIOUS
  <2>2. CASE k <= Len(buf)
    <3>1. k \in 1 .. Len(buf)
      BY <1>1, <2>2
    <3> QED  BY <3>1, <1>2, <2>1
  <2>3. CASE k > Len(buf)
    <3>1. k \in Int /\ Len(buf) \in Int /\ k - Len(buf) \in Int
      BY <1>1, <2>1
    <3> DEFINE j == k - Len(buf)
    <3>2. j \in 1 .. Len(more) /\ k = Len(buf) + j
      BY <1>1, <1>2, <2>1, <2>3, <3>1
    <3>3. buf2[k] = mid + j
      BY <3>2
    <3> QED  BY <1>1, <1>2, <2>1, <3>2, <3>3
  <2> QED  BY <1>1, <2>1, <2>2, <2>3
<1> QED  BY <1>3, <1>4 DEF Buffered

LEMMA RunDataKeepsInv == Inv /\ RunData => Inv'
<1> SUFFICES ASSUME Inv, RunData PROVE Inv'
  OBVIOUS
<1>1. /\ queue # <<>> /\ Head(queue).type = "data" /\ offset = 0
      /\ queue' = Tail(queue) /\ offset' = 0 /\ performing' = TRUE
      /\ inputBuffer' = inputBuffer \o Head(queue).bytes
      /\ UNCHANGED <<sent, arrived, readQueue, trapped, messages, processed>>
  BY DEF RunData, At, Perform, netVars, Inv, TypeOK
<1> DEFINE bytes == Head(queue).bytes
<1>2. bytes \in Seq(Nat) /\ Tail(queue) \in Seq(Blocks)
  BY <1>1, Facts, FirstBlock
<1>3. /\ inputBuffer' \in Seq(Nat) /\ Len(inputBuffer') = Len(inputBuffer) + Len(bytes)
      /\ Len(inputBuffer) \in Nat /\ Len(bytes) \in Nat
      /\ \A i \in 1 .. Len(inputBuffer) : inputBuffer'[i] = inputBuffer[i]
      /\ \A i \in 1 .. Len(bytes) : inputBuffer'[Len(inputBuffer) + i] = bytes[i]
  <2>1. inputBuffer \in Seq(Nat)
    BY Facts
  <2> QED  BY <1>1, <1>2, <2>1, Joined
<1> HIDE DEF bytes
<1>4. TypeOK'
  <2>1. TypeOK /\ StreamEnd' = StreamEnd
    BY <1>1 DEF Inv, StreamEnd
  <2>2. offset' \in 0 .. Len(inputBuffer')
    BY <1>1, <1>3
  <2> QED  BY <1>1, <1>2, <1>3, <2>1, <2>2 DEF TypeOK, Blocks
<1>5. InPlace(sent', MessagesRead', arrived', queue', readQueue', inputBuffer', offset')
  <2>1. MessagesRead' = MessagesRead
    BY <1>1 DEF MessagesRead
  <2>2. PICK r \in Requests, pos \in Places(queue, arrived) :
          Keeps(sent, MessagesRead, arrived, queue, readQueue, inputBuffer, offset, r, pos)
    BY DEF Inv, InPlace
  <2>3. /\ pos[1] \in 0 .. arrived /\ pos[2] \in 0 .. arrived
        /\ Len(bytes) = pos[2] - pos[1]
        /\ \A k \in 1 .. Len(bytes) : bytes[k] = pos[1] + k
        /\ \E pos2 \in Places(Tail(queue), arrived) :
             pos2[1] = pos[2] /\ Waiting(Tail(queue), arrived, pos2)
    BY <1>1, <2>2, Facts, WaitingTaken DEF Keeps, bytes
  <2>4. PICK pos2 \in Places(Tail(queue), arrived) :
          pos2[1] = pos[2] /\ Waiting(Tail(queue), arrived, pos2)
    BY <2>3
  <2>5. Outstanding(Tail(queue), readQueue, 0, r)
    BY <1>1, <2>2, Facts, OutstandingTaken DEF Keeps
  <2>6. pos[1] \in Nat /\ pos[2] \in Nat
    BY <2>3, Facts
  <2>7. Reached(sent, MessagesRead, r) \in Nat
    BY Facts, Positions, Lengths DEF Reached
  <2>8. Buffered(inputBuffer', 0, Reached(sent, MessagesRead, r), pos2[1])
    <3>1. Buffered(inputBuffer, 0, Reached(sent, MessagesRead, r), pos[1])
      BY <1>1, <2>2 DEF Keeps
    <3>2. inputBuffer \in Seq(Nat)
      BY Facts
    <3> DEFINE from == Reached(sent, MessagesRead, r)
    <3>3. from \in Nat
      BY <2>7
    <3>4. Buffered(inputBuffer, 0, from, pos[1])
      BY <3>1
    <3> HIDE DEF from
    <3>5. ASSUME NEW mid \in Nat, NEW to \in Nat, mid = pos[1], to = pos[2]
          PROVE  Buffered(inputBuffer', 0, from, to)
      <4>1. /\ inputBuffer' \in Seq(Nat) /\ bytes \in Seq(Nat)
            /\ Len(inputBuffer') = Len(inputBuffer) + Len(bytes)
        BY <1>2, <1>3
      <4>2. /\ \A i \in 1 .. Len(inputBuffer) : inputBuffer'[i] = inputBuffer[i]
            /\ \A i \in 1 .. Len(bytes) : inputBuffer'[Len(inputBuffer) + i] = bytes[i]
        BY <1>3
      <4>3. Buffered(inputBuffer, 0, from, mid)
        BY <3>4, <3>5
      <4>4. Len(bytes) = to - mid /\ \A k \in 1 .. Len(bytes) : bytes[k] = mid + k
        BY <2>3, <3>5
      <4> QED  BY <3>2, <3>3, <4>1, <4>2, <4>3, <4>4, BufferedMore
    <3> QED  BY <2>4, <2>6, <3>5 DEF from
  <2>9. Keeps(sent, MessagesRead, arrived, Tail(queue), readQueue, inputBuffer', 0, r, pos2)
    BY <2>2, <2>4, <2>5, <2>8 DEF Keeps
  <2>10. InPlace(sent, MessagesRead, arrived, Tail(queue), readQueue, inputBuffer', 0)
    BY <2>4, <2>9 DEF InPlace
  <2> QED  BY <1>1, <2>1, <2>10
<1> QED  BY <1>1, <1>4, <1>5 DEF Inv, NeverTrapped

LEMMA RunReadKeepsInv == Inv /\ RunRead => Inv'
<1> SUFFICES ASSUME Inv, RunRead PROVE Inv'
  OBVIOUS
<1>1. /\ queue # <<>> /\ Head(queue).type = "read" /\ offset = 0
      /\ queue' = Tail(queue) /\ offset' = 0 /\ performing' = TRUE
      /\ readQueue' = Append(readQueue, Head(queue).request)
      /\ UNCHANGED <<sent, arrived, inputBuffer, trapped, messages, processed>>
  BY DEF RunRead, At, Perform, netVars, Inv, TypeOK
<1>2. Head(queue).request \in Requests /\ Tail(queue) \in Seq(Blocks)
  BY <1>1, Facts, FirstBlock
<1>3. TypeOK'
  <2>1. TypeOK /\ StreamEnd' = StreamEnd
    BY <1>1 DEF Inv, StreamEnd
  <2>2. readQueue' \in Seq(Requests)
    BY <1>1, <1>2, Facts, Added
  <2> QED  BY <1>1, <1>2, <2>1, <2>2 DEF TypeOK, Blocks
<1>4. InPlace(sent', MessagesRead', arrived', queue', readQueue', inputBuffer', offset')
  <2>1. MessagesRead' = MessagesRead
    BY <1>1 DEF MessagesRead
  <2>2. PICK r \in Requests, pos \in Places(queue, arrived) :
          Keeps(sent, MessagesRead, arrived, queue, readQueue, inputBuffer, offset, r, pos)
    BY DEF Inv, InPlace
  <2>3. /\ pos[2] = pos[1]
        /\ \E pos2 \in Places(Tail(queue), arrived) :
             pos2[1] = pos[2] /\ Waiting(Tail(queue), arrived, pos2)
    BY <1>1, <2>2, Facts, WaitingTaken DEF Keeps
  <2>4. PICK pos2 \in Places(Tail(queue), arrived) :
          pos2[1] = pos[2] /\ Waiting(Tail(queue), arrived, pos2)
    BY <2>3
  <2>5. /\ readQueue = <<>> /\ Head(queue).request = r
        /\ Outstanding(Tail(queue), <<r>>, 0, r)
    BY <1>1, <2>2, Facts, OutstandingTaken DEF Keeps
  <2>6. readQueue' = <<r>>
    BY <1>1, <2>5
  <2>7. Keeps(sent, MessagesRead, arrived, Tail(queue), <<r>>, inputBuffer, 0, r, pos2)
    BY <1>1, <2>2, <2>3, <2>4, <2>5 DEF Keeps
  <2>8. InPlace(sent, MessagesRead, arrived, Tail(queue), <<r>>, inputBuffer, 0)
    BY <2>4, <2>7 DEF InPlace
  <2> QED  BY <1>1, <2>1, <2>6, <2>8
<1> QED  BY <1>1, <1>3, <1>4 DEF Inv, NeverTrapped

LEMMA EndPerformKeepsInv == Inv /\ EndPerform => Inv'
<1> SUFFICES ASSUME Inv, EndPerform PROVE Inv'
  OBVIOUS
<1>1. /\ inputBuffer' = SubSeq(inputBuffer, offset + 1, Len(inputBuffer))
      /\ performing' = FALSE /\ offset' = 0
      /\ UNCHANGED <<sent, arrived, queue, readQueue, trapped, messages, processed>>
  BY DEF EndPerform, netVars
<1>2. /\ inputBuffer' \in Seq(Nat) /\ Len(inputBuffer') = Len(inputBuffer) - offset
      /\ \A i \in 1 .. Len(inputBuffer) - offset : inputBuffer'[i] = inputBuffer[offset + i]
      /\ Len(inputBuffer) \in Nat /\ offset \in 0 .. Len(inputBuffer)
  <2>1. inputBuffer \in Seq(Nat) /\ offset \in 0 .. Len(inputBuffer)
    BY Facts
  <2> QED  BY <1>1, <2>1, CutOff
<1>3. TypeOK'
  <2>1. TypeOK /\ StreamEnd' = StreamEnd
    BY <1>1 DEF Inv, StreamEnd
  <2>2. offset' \in 0 .. Len(inputBuffer')
    BY <1>1, <1>2
  <2> QED  BY <1>1, <1>2, <2>1, <2>2 DEF TypeOK
<1>4. InPlace(sent', MessagesRead', arrived', queue', readQueue', inputBuffer', offset')
  <2>1. MessagesRead' = MessagesRead
    BY <1>1 DEF MessagesRead
  <2>2. PICK r \in Requests, pos \in Places(queue, arrived) :
          Keeps(sent, MessagesRead, arrived, queue, readQueue, inputBuffer, offset, r, pos)
    BY DEF Inv, InPlace
  <2>3. Outstanding(queue, readQueue, 0, r)
    BY <2>2 DEF Keeps, Outstanding
  <2>4. Buffered(inputBuffer', 0, Reached(sent, MessagesRead, r), pos[1])
    BY <1>2, <2>2 DEF Keeps, Buffered
  <2>5. Keeps(sent, MessagesRead, arrived, queue, readQueue, inputBuffer', 0, r, pos)
    BY <2>2, <2>3, <2>4 DEF Keeps
  <2>6. InPlace(sent, MessagesRead, arrived, queue, readQueue, inputBuffer', 0)
    BY <2>2, <2>5 DEF InPlace
  <2> QED  BY <1>1, <2>1, <2>6
<1> QED  BY <1>1, <1>3, <1>4 DEF Inv, NeverTrapped

LEMMA ProcessKeepsInv == Inv /\ Process => Inv'
<1> SUFFICES ASSUME Inv, Process PROVE Inv'
  OBVIOUS
<1>1. /\ messages # <<>>
      /\ processed' = Append(processed, Head(messages)) /\ messages' = Tail(messages)
      /\ UNCHANGED <<sent, arrived, queue, inputBuffer, readQueue, performing, offset, trapped>>
  BY DEF Process, netVars, socketVars, loopVars
<1>2. /\ Head(messages) = messages[1] /\ Head(messages) \in Messages
      /\ messages' \in Seq(Messages)
      /\ Len(messages) \in Nat \ {0} /\ Len(messages') = Len(messages) - 1
      /\ \A i \in 1 .. Len(messages') : messages'[i] = messages[i + 1]
  BY <1>1, Facts, Shifted
<1>3. /\ processed' \in Seq(Messages)
      /\ Len(processed') = Len(processed) + 1 /\ Len(processed) \in Nat
      /\ \A i \in 1 .. Len(processed) : processed'[i] = processed[i]
      /\ processed'[Len(processed) + 1] = Head(messages)
  BY <1>1, <1>2, Facts, Added
<1>4. TypeOK'
  <2>1. TypeOK /\ StreamEnd' = StreamEnd
    BY <1>1 DEF Inv, StreamEnd
  <2> QED  BY <1>1, <1>2, <1>3, <2>1 DEF TypeOK
<1>5. Handed(sent', processed', messages')
  <2>1. /\ Len(processed) + Len(messages) <= Len(sent) /\ Len(sent) \in Nat
        /\ \A n \in 1 .. Len(processed) : processed[n] = Body(sent[n])
        /\ \A n \in 1 .. Len(messages) : messages[n] = Body(sent[Len(processed) + n])
    BY Facts DEF Inv, Handed
  <2>2. ASSUME NEW n \in 1 .. Len(processed')
        PROVE  processed'[n] = Body(sent[n])
    <3>1. CASE n \in 1 .. Len(processed)
      BY <1>3, <2>1, <3>1
    <3>2. CASE n = Len(processed) + 1
      <4>1. 1 \in 1 .. Len(messages)
        BY <1>2
      <4> QED  BY <1>2, <1>3, <2>1, <3>2, <4>1
    <3> QED  BY <1>3, <3>1, <3>2
  <2>3. ASSUME NEW n \in 1 .. Len(messages')
        PROVE  messages'[n] = Body(sent[Len(processed') + n])
    <3>1. /\ n + 1 \in 1 .. Len(messages) /\ messages'[n] = messages[n + 1]
          /\ Len(processed) + (n + 1) = Len(processed') + n
      BY <1>2, <1>3
    <3>2. messages[n + 1] = Body(sent[Len(processed) + (n + 1)])
      BY <2>1, <3>1
    <3> QED  BY <3>1, <3>2
  <2>4. Len(processed') + Len(messages') <= Len(sent)
    BY <1>2, <1>3, <2>1
  <2> QED  BY <1>1, <2>2, <2>3, <2>4 DEF Handed
<1>6. MessagesRead' = MessagesRead
  BY <1>2, <1>3 DEF MessagesRead
<1> QED  BY <1>1, <1>4, <1>5, <1>6 DEF Inv, NeverTrapped

\* The loop is given its one request when it has taken nothing yet, and finds
\* what it asks for; what it copies are the bytes behind the reader's place.
LEMMA Taken ==
  ASSUME Inv, Complete
  PROVE  \E r \in Requests, pos \in Places(queue, arrived) :
           /\ Keeps(sent, MessagesRead, arrived, queue, readQueue, inputBuffer, offset, r, pos)
           /\ readQueue = <<r>> /\ Head(readQueue) = r /\ Tail(readQueue) = <<>>
           /\ offset = 0 /\ r.length \in Nat /\ r.length <= Len(inputBuffer)
           /\ \A i \in 1 .. Len(queue) : queue[i].type = "data"
           /\ Reached(sent, MessagesRead, r) \in Nat
           /\ Reached(sent, MessagesRead, r) + r.length <= arrived
           /\ [i \in 1 .. r.length |-> ByteAt(offset + i)] =
                Bytes(Reached(sent, MessagesRead, r), Reached(sent, MessagesRead, r) + r.length)
<1>1. PICK r \in Requests, pos \in Places(queue, arrived) :
        Keeps(sent, MessagesRead, arrived, queue, readQueue, inputBuffer, offset, r, pos)
  BY DEF Inv, InPlace
<1>2. /\ readQueue # <<>> /\ Len(inputBuffer) >= Head(readQueue).length
  BY DEF Complete, HasEnough
<1>3. /\ readQueue = <<r>> /\ offset = 0
      /\ \A i \in 1 .. Len(queue) : queue[i].type = "data"
  BY <1>1, <1>2 DEF Keeps, Outstanding
<1>4. Head(readQueue) = r /\ Tail(readQueue) = <<>>
  BY <1>3
<1>5. r.length \in Nat /\ r.length <= Len(inputBuffer) /\ Len(inputBuffer) \in Nat
  <2>1. r.length \in BodyLengths \cup {HeaderLength}
    BY DEF Requests
  <2>2. r.length \in Nat
    <3>1. CASE r.length \in BodyLengths
      BY <3>1, Lengths
    <3>2. CASE r.length = HeaderLength
      BY <3>2 DEF HeaderLength
    <3> QED  BY <2>1, <3>1, <3>2
  <2> QED  BY <2>2, <1>2, <1>4, Facts
<1> DEFINE from == Reached(sent, MessagesRead, r)
<1>6. from \in Nat
  BY Facts, Positions, Lengths DEF Reached
<1>7. /\ Len(inputBuffer) - 0 = pos[1] - from
      /\ \A k \in 1 .. pos[1] - from : inputBuffer[0 + k] = from + k
  BY <1>1, <1>3 DEF Keeps, Buffered
<1> HIDE DEF from
<1>8. pos[1] \in 0 .. arrived /\ arrived \in Nat
  <2>1. Len(queue) \in Nat
    BY Facts
  <2> QED  BY <2>1, Facts DEF Places
<1>9. from + r.length <= arrived
  BY <1>5, <1>6, <1>7, <1>8
<1>10. ASSUME NEW i \in 1 .. r.length
       PROVE  ByteAt(offset + i) = from + i
  <2>1. i \in 1 .. pos[1] - from /\ 0 + i <= Len(inputBuffer)
    BY <1>5, <1>6, <1>7, <1>8
  <2> QED  BY <1>3, <1>7, <2>1 DEF ByteAt
<1>11. (from + r.length) - from = r.length
  BY <1>5, <1>6
<1>12. [i \in 1 .. r.length |-> ByteAt(offset + i)] = Bytes(from, from + r.length)
  BY <1>10, <1>11 DEF Bytes
<1> QED  BY <1>1, <1>3, <1>4, <1>5, <1>6, <1>9, <1>12 DEF from

\* The queue, after a request has been added to it.
LEMMA Requested ==
  ASSUME NEW q \in Seq(Blocks), NEW upto \in Nat, NEW pos \in Places(q, upto),
         NEW r \in Requests, NEW off, Waiting(q, upto, pos),
         \A i \in 1 .. Len(q) : q[i].type = "data"
  PROVE  /\ Append(q, Read(r)) \in Seq(Blocks)
         /\ Outstanding(Append(q, Read(r)), <<>>, off, r)
         /\ \E pos2 \in Places(Append(q, Read(r)), upto) :
              pos2[1] = pos[1] /\ Waiting(Append(q, Read(r)), upto, pos2)
<1> DEFINE b == Read(r)
<1>1. b \in Blocks /\ b.type = "read" /\ b.request = r /\ b.bytes = <<>> /\ Len(b.bytes) = 0
  BY DEF Read, Blocks
<1> HIDE DEF b
<1>2. Append(q, b) \in Seq(Blocks)
  BY <1>1
<1>3. Outstanding(Append(q, b), <<>>, off, b.request)
  BY <1>1, NowOutstanding
<1>4. /\ Len(b.bytes) = upto - upto /\ upto <= upto
      /\ \A k \in 1 .. Len(b.bytes) : b.bytes[k] = upto + k
  BY <1>1
<1>5. \E pos2 \in Places(Append(q, b), upto) :
        pos2[1] = pos[1] /\ Waiting(Append(q, b), upto, pos2)
  BY <1>1, <1>4, WaitingAdded
<1> QED  BY <1>1, <1>2, <1>3, <1>5 DEF b

\* A header is found, and announces the next message that was sent.
LEMMA HeaderIsNext ==
  ASSUME Inv, Position(sent, MessagesRead) + HeaderLength <= arrived
  PROVE  /\ MessagesRead < Len(sent) /\ sent[MessagesRead + 1] \in SentMessages
         /\ sent[MessagesRead + 1].start = Position(sent, MessagesRead)
         /\ Announced(Position(sent, MessagesRead)) = {sent[MessagesRead + 1].length}
<1> DEFINE n == MessagesRead
<1>1. /\ n \in 0 .. Len(sent) /\ Len(sent) \in Nat /\ sent \in Seq(SentMessages)
      /\ Chained(sent) /\ arrived <= Position(sent, Len(sent)) /\ arrived \in Nat
  BY Facts
<1> HIDE DEF n
<1>2. Position(sent, n) \in Nat /\ Position(sent, Len(sent)) \in Nat
  <2>1. Len(sent) \in 0 .. Len(sent)
    BY <1>1
  <2> QED  BY <1>1, <2>1, Positions
<1>3. Position(sent, n) + 5 <= arrived
  BY Lengths DEF n
<1>4. n < Len(sent)
  <2>1. n # Len(sent)
    BY <1>1, <1>2, <1>3
  <2> QED  BY <1>1, <2>1
<1>5. sent[n + 1] \in SentMessages /\ sent[n + 1].start = Position(sent, n)
  BY <1>1, <1>4, Positions
<1>6. \A i \in 1 .. Len(sent) : sent[i].start = Position(sent, n) => i = n + 1
  BY <1>1, <1>4, OneHeader
<1>7. {i \in DOMAIN sent : sent[i].start = Position(sent, n)} = {n + 1}
  <2>1. DOMAIN sent = 1 .. Len(sent) /\ n + 1 \in 1 .. Len(sent)
    BY <1>1, <1>4
  <2> QED  BY <1>5, <1>6, <2>1
<1>8. Announced(Position(sent, n)) = {sent[n + 1].length}
  BY <1>7 DEF Announced
<1> QED  BY <1>4, <1>5, <1>8 DEF n

LEMMA CompleteKeepsInv == Inv /\ Complete => Inv'
<1> SUFFICES ASSUME Inv, Complete PROVE Inv'
  OBVIOUS
<1>1. PICK r \in Requests, pos \in Places(queue, arrived) :
        /\ Keeps(sent, MessagesRead, arrived, queue, readQueue, inputBuffer, offset, r, pos)
        /\ readQueue = <<r>> /\ Head(readQueue) = r /\ Tail(readQueue) = <<>>
        /\ offset = 0 /\ r.length \in Nat /\ r.length <= Len(inputBuffer)
        /\ \A i \in 1 .. Len(queue) : queue[i].type = "data"
        /\ Reached(sent, MessagesRead, r) \in Nat
        /\ Reached(sent, MessagesRead, r) + r.length <= arrived
        /\ [i \in 1 .. r.length |-> ByteAt(offset + i)] =
             Bytes(Reached(sent, MessagesRead, r), Reached(sent, MessagesRead, r) + r.length)
  BY Taken
<1> DEFINE n == MessagesRead
           from == Reached(sent, n, r)
           bytes == Bytes(from, from + r.length)
<1>2. /\ readQueue' = <<>> /\ offset' = 0 + r.length
      /\ trapped' = (0 + r.length > Len(inputBuffer))
      /\ \/ r.kind = "header" /\ HeaderRead(bytes)
         \/ r.kind = "body" /\ BodyRead(r.start, bytes)
      /\ UNCHANGED <<sent, arrived, inputBuffer, performing, processed>>
      /\ performing
  BY <1>1 DEF Complete, netVars
<1>3. /\ sent \in Seq(SentMessages) /\ Len(sent) \in Nat /\ n \in 0 .. Len(sent)
      /\ queue \in Seq(Blocks) /\ inputBuffer \in Seq(Nat) /\ messages \in Seq(Messages)
      /\ Len(inputBuffer) \in Nat /\ arrived \in Nat /\ Chained(sent)
      /\ Len(processed) \in Nat /\ Len(messages) \in Nat
      /\ n = Len(processed) + Len(messages)
  <2>1. /\ sent \in Seq(SentMessages) /\ Len(sent) \in Nat /\ n \in 0 .. Len(sent)
        /\ queue \in Seq(Blocks) /\ inputBuffer \in Seq(Nat) /\ messages \in Seq(Messages)
        /\ arrived \in Nat /\ Chained(sent)
        /\ Len(processed) \in Nat /\ Len(messages) \in Nat
        /\ n = Len(processed) + Len(messages)
    BY Facts
  <2> QED  BY <2>1
<1>4. offset' = r.length /\ trapped' = FALSE /\ NeverTrapped'
  <2>1. ~ (0 + r.length > Len(inputBuffer)) /\ 0 + r.length = r.length
    BY <1>1, <1>3
  <2>2. offset' = r.length
    BY <1>2, <2>1
  <2>3. trapped' = FALSE
    <3>1. (0 + r.length > Len(inputBuffer)) = FALSE
      BY <2>1
    <3>2. trapped' = (0 + r.length > Len(inputBuffer))
      BY <1>2
    <3> QED  BY <3>1, <3>2
  <2> QED  BY <2>2, <2>3 DEF NeverTrapped
<1>5. /\ from \in Nat /\ from + r.length <= arrived /\ r.length \in Nat
      /\ Position(sent, n) \in Nat
      /\ from = Position(sent, n) + (IF r.kind = "body" THEN 5 ELSE 0)
  BY <1>1, <1>3, Positions, Lengths DEF Reached
<1>6. Waiting(queue, arrived, pos) /\ Asks(sent, n, r) /\ Buffered(inputBuffer, 0, from, pos[1])
  BY <1>1 DEF Keeps
<1> HIDE DEF n, from
<1>7. Buffered(inputBuffer, r.length, from + r.length, pos[1])
  <2>1. pos[1] \in Nat
    <3>1. Len(queue) \in Nat
      BY <1>3
    <3>2. 1 \in 1 .. Len(queue) + 1
      BY <3>1
    <3>3. pos[1] \in 0 .. arrived
      BY <3>2 DEF Places
    <3> QED  BY <1>3, <3>3
  <2>2. /\ Len(inputBuffer) = pos[1] - from
        /\ \A k \in 1 .. pos[1] - from : inputBuffer[0 + k] = from + k
    BY <1>3, <1>5, <1>6, <2>1 DEF Buffered
  <2>3. Len(inputBuffer) - r.length = pos[1] - (from + r.length)
    BY <1>3, <1>5, <2>1, <2>2
  <2>4. ASSUME NEW k \in 1 .. pos[1] - (from + r.length)
        PROVE  inputBuffer[r.length + k] = (from + r.length) + k
    <3>1. /\ r.length + k \in 1 .. pos[1] - from /\ 0 + (r.length + k) = r.length + k
          /\ from + (r.length + k) = (from + r.length) + k
      BY <1>5, <2>1
    <3>2. inputBuffer[0 + (r.length + k)] = from + (r.length + k)
      BY <2>2, <3>1
    <3> QED  BY <3>1, <3>2
  <2> QED  BY <2>3, <2>4 DEF Buffered
<1>8. ASSUME NEW r2 \in Requests, NEW n2 \in Nat,
             Asks(sent, n2, r2), Reached(sent, n2, r2) = from + r.length
      PROVE  /\ Append(queue, Read(r2)) \in Seq(Blocks)
             /\ InPlace(sent, n2, arrived, Append(queue, Read(r2)), <<>>, inputBuffer, r.length)
  <2>1. /\ Append(queue, Read(r2)) \in Seq(Blocks)
        /\ Outstanding(Append(queue, Read(r2)), <<>>, r.length, r2)
        /\ \E pos2 \in Places(Append(queue, Read(r2)), arrived) :
             pos2[1] = pos[1] /\ Waiting(Append(queue, Read(r2)), arrived, pos2)
    BY <1>1, <1>3, <1>6, Requested
  <2>2. PICK pos2 \in Places(Append(queue, Read(r2)), arrived) :
             pos2[1] = pos[1] /\ Waiting(Append(queue, Read(r2)), arrived, pos2)
    BY <2>1
  <2>3. Keeps(sent, n2, arrived, Append(queue, Read(r2)), <<>>, inputBuffer, r.length, r2, pos2)
    BY <1>7, <1>8, <2>1, <2>2 DEF Keeps
  <2> QED  BY <2>1, <2>2, <2>3 DEF InPlace
<1>9. TypeOK /\ StreamEnd' = StreamEnd /\ Handed(sent, processed, messages)
  BY <1>2 DEF Inv, StreamEnd
<1>10. ASSUME NEW r2 \in Requests, queue' = Append(queue, Read(r2)),
              messages' \in Seq(Messages), Handed(sent, processed, messages'),
              Asks(sent, MessagesRead', r2), Reached(sent, MessagesRead', r2) = from + r.length
       PROVE  Inv'
  <2>1. MessagesRead' \in Nat
    <3>1. Len(processed') \in Nat /\ Len(messages') \in Nat
      BY <1>2, <1>3, <1>10
    <3> QED  BY <3>1 DEF MessagesRead
  <2>2. /\ queue' \in Seq(Blocks)
        /\ InPlace(sent, MessagesRead', arrived, queue', <<>>, inputBuffer, r.length)
    BY <1>8, <1>10, <2>1
  <2>3. TypeOK'
    <3>1. readQueue' \in Seq(Requests) /\ offset' \in 0 .. Len(inputBuffer')
      BY <1>1, <1>2, <1>3, <1>4
    <3> QED  BY <1>2, <1>4, <1>9, <1>10, <2>2, <3>1 DEF TypeOK, Blocks
  <2> QED  BY <1>2, <1>3, <1>4, <1>10, <2>2, <2>3 DEF Inv
<1>11. CASE r.kind = "header" /\ HeaderRead(bytes)
  <2>1. r = HeaderRequest /\ r.length = 5 /\ HeaderLength = 5
    BY <1>6, <1>11, Lengths DEF Asks, Request, HeaderRequest
  <2>2. from = Position(sent, n) /\ Position(sent, n) + HeaderLength <= arrived
    BY <1>5, <1>11, <2>1
  <2>3. /\ n < Len(sent) /\ sent[n + 1] \in SentMessages
        /\ sent[n + 1].start = from /\ Announced(from) = {sent[n + 1].length}
    BY <2>2, HeaderIsNext DEF n
  <2>4. bytes[1] - 1 = from
    <3>1. bytes = [i \in 1 .. (from + r.length) - from |-> from + i]
      BY DEF Bytes
    <3>2. 1 \in 1 .. (from + r.length) - from
      BY <1>5, <2>1
    <3>3. bytes[1] = from + 1
      BY <3>1, <3>2
    <3> QED  BY <1>5, <3>3
  <2> DEFINE r2 == Request("body", sent[n + 1].length, sent[n + 1].start)
  <2>5. queue' = Append(queue, Read(r2)) /\ messages' = messages
    BY <1>11, <2>3, <2>4 DEF HeaderRead
  <2>6. r2 \in Requests /\ r2.kind = "body"
    <3>1. sent[n + 1].length \in BodyLengths /\ sent[n + 1].start \in Nat
      BY <2>3, EndTypes
    <3> QED  BY <3>1 DEF Requests, Request, Kinds
  <2>7. MessagesRead' = n
    BY <1>2, <2>5 DEF MessagesRead, n
  <2>8. Asks(sent, n, r2)
    BY <2>3 DEF Asks
  <2>9. Reached(sent, n, r2) = from + r.length
    BY <1>5, <2>1, <2>2, <2>6 DEF Reached
  <2> HIDE DEF r2
  <2> QED  BY <1>3, <1>9, <1>10, <2>5, <2>6, <2>7, <2>8, <2>9
<1>12. CASE r.kind = "body" /\ BodyRead(r.start, bytes)
  <2>1. n < Len(sent) /\ r = Request("body", sent[n + 1].length, sent[n + 1].start)
    BY <1>6, <1>12 DEF Asks, HeaderRequest, Request
  <2>2. /\ sent[n + 1] \in SentMessages /\ sent[n + 1].start = Position(sent, n)
        /\ Position(sent, n + 1) = Position(sent, n) + 5 + sent[n + 1].length
    BY <1>3, <2>1, Positions
  <2>3. r.length = sent[n + 1].length /\ r.start = sent[n + 1].start
    BY <2>1 DEF Request
  <2>4. from = Position(sent, n) + 5 /\ from + r.length = Position(sent, n + 1)
    BY <1>5, <1>12, <2>2, <2>3
  <2> DEFINE m == [start |-> r.start, body |-> bytes]
  <2>5. m = Body(sent[n + 1])
    <3>1. sent[n + 1].start + HeaderLength = from
      BY <1>5, <2>2, <2>4, Lengths
    <3>2. End(sent[n + 1]) = from + r.length
      <4>1. End(sent[n + 1]) = sent[n + 1].start + 5 + sent[n + 1].length
        BY <2>2, EndTypes
      <4> QED  BY <4>1, <2>2, <2>4
    <3> QED  BY <2>3, <3>1, <3>2 DEF Body
  <2>6. m \in Messages
    <3>1. bytes \in Seq(Nat)
      <4>1. (from + r.length) - from \in Nat /\ from \in Nat
        BY <1>5
      <4> QED  BY <4>1 DEF Bytes
    <3>2. r.start \in Nat
      BY <1>5, <2>2, <2>3
    <3> QED  BY <3>1, <3>2 DEF Messages
  <2> HIDE DEF m
  <2>7. messages' = Append(messages, m) /\ queue' = Append(queue, Read(HeaderRequest))
    BY <1>12 DEF BodyRead, m
  <2>8. /\ messages' \in Seq(Messages) /\ Len(messages') = Len(messages) + 1
        /\ \A i \in 1 .. Len(messages) : messages'[i] = messages[i]
        /\ messages'[Len(messages) + 1] = m
    BY <1>3, <2>6, <2>7, Added
  <2>9. MessagesRead' = n + 1
    BY <1>2, <1>3, <2>8 DEF MessagesRead
  <2>10. Handed(sent, processed, messages')
    <3>1. /\ \A i \in 1 .. Len(processed) : processed[i] = Body(sent[i])
          /\ \A i \in 1 .. Len(messages) : messages[i] = Body(sent[Len(processed) + i])
      BY <1>9 DEF Handed
    <3>2. Len(processed) + Len(messages') <= Len(sent)
      BY <1>3, <2>1, <2>8
    <3>3. ASSUME NEW i \in 1 .. Len(messages')
          PROVE  messages'[i] = Body(sent[Len(processed) + i])
      <4>1. CASE i \in 1 .. Len(messages)
        BY <2>8, <3>1, <4>1
      <4>2. CASE i = Len(messages) + 1
        <5>1. Len(processed) + i = n + 1
          BY <1>3, <4>2
        <5> QED  BY <2>5, <2>8, <4>2, <5>1
      <4> QED  BY <1>3, <2>8, <4>1, <4>2
    <3> QED  BY <3>1, <3>2, <3>3 DEF Handed
  <2>11. Reached(sent, n + 1, HeaderRequest) = from + r.length
    BY <1>5, <2>4 DEF Reached, HeaderRequest, Request
  <2>12. Asks(sent, n + 1, HeaderRequest) /\ HeaderRequest \in Requests
    BY Lengths DEF Asks
  <2> QED  BY <1>10, <2>7, <2>8, <2>9, <2>10, <2>11, <2>12
<1> QED  BY <1>2, <1>11, <1>12

-----------------------------------------------------------------------------
(***************************************************************************)
(* The theorems.                                                           *)
(***************************************************************************)
LEMMA NextKeepsInv == Inv /\ [Next]_vars => Inv'
<1> SUFFICES ASSUME Inv, [Next]_vars PROVE Inv'
  OBVIOUS
<1>1. CASE Send
  BY <1>1, SendKeepsInv
<1>2. CASE ChannelRead
  BY <1>2, ChannelReadKeepsInv
<1>3. CASE RunData
  BY <1>3, RunDataKeepsInv
<1>4. CASE RunRead
  BY <1>4, RunReadKeepsInv
<1>5. CASE Complete
  BY <1>5, CompleteKeepsInv
<1>6. CASE EndPerform
  BY <1>6, EndPerformKeepsInv
<1>7. CASE Process
  BY <1>7, ProcessKeepsInv
<1>8. CASE UNCHANGED vars
  BY <1>8 DEF vars, netVars, socketVars, loopVars, Inv, TypeOK, NeverTrapped, StreamEnd, MessagesRead
<1> QED  BY <1>1, <1>2, <1>3, <1>4, <1>5, <1>6, <1>7, <1>8 DEF Next, SocketQueue

LEMMA InvAlways == Spec => []Inv
<1>1. Init => Inv
  BY InvInitially
<1>2. Inv /\ [Next]_vars => Inv'
  BY NextKeepsInv
<1> QED  BY <1>1, <1>2, PTL DEF Spec

(* Every variable has its type; in particular what performRead has taken   *)
(* never exceeds what is in inputBuffer, however the stream is cut.        *)
THEOREM ReadingTypeCorrect == Spec => []TypeOK
<1>1. Inv => TypeOK
  BY DEF Inv
<1> QED  BY <1>1, InvAlways, PTL

(* performRead never takes a range that inputBuffer does not have, although *)
(* the guard of its loop does not count what the loop has taken.           *)
THEOREM ReadingNeverTraps == Spec => []NeverTrapped
<1>1. Inv => NeverTrapped
  BY DEF Inv
<1> QED  BY <1>1, InvAlways, PTL

(* The connection has exactly one request outstanding, in the socket's     *)
(* queue or in readQueue.                                                  *)
THEOREM ReadingAsksOnce == Spec => []OneReadAtATime
<1>1. ASSUME Inv PROVE OneReadAtATime
  <2>1. PICK r \in Requests : Outstanding(queue, readQueue, offset, r)
    BY <1>1 DEF Inv, InPlace, Keeps
  <2>2. queue \in Seq(Blocks) /\ DOMAIN queue = 1 .. Len(queue)
    BY <1>1, Facts
  <2>3. CASE readQueue = <<r>> /\ \A i \in 1 .. Len(queue) : queue[i].type = "data"
    <3>1. Reads = {}
      BY <2>2, <2>3 DEF Reads
    <3>2. Cardinality(Reads) = 0 /\ Len(readQueue) = 1
      BY <2>3, <3>1, FS_EmptySet
    <3> QED  BY <3>2 DEF OneReadAtATime
  <2>4. CASE readQueue = <<>> /\ \E k \in 1 .. Len(queue) :
                 /\ queue[k].type = "read"
                 /\ \A i \in 1 .. Len(queue) : i # k => queue[i].type = "data"
    <3>1. PICK k \in 1 .. Len(queue) :
                 /\ queue[k].type = "read"
                 /\ \A i \in 1 .. Len(queue) : i # k => queue[i].type = "data"
      BY <2>4
    <3>2. Reads = {k}
      BY <2>2, <3>1 DEF Reads
    <3>3. Cardinality(Reads) = 1 /\ Len(readQueue) = 0
      BY <2>4, <3>2, FS_Singleton
    <3> QED  BY <3>3 DEF OneReadAtATime
  <2> QED  BY <2>1, <2>3, <2>4 DEF Outstanding
<1> QED  BY <1>1, InvAlways, PTL

\* The sequence the abstract channel sees.
Bodies(s) == [i \in DOMAIN s |-> Body(s[i])]

LEMMA BodiesOf ==
  ASSUME NEW s \in Seq(SentMessages)
  PROVE  /\ Bodies(s) \in Seq(Messages) /\ Len(Bodies(s)) = Len(s) /\ Len(s) \in Nat
         /\ \A i \in 1 .. Len(s) : Bodies(s)[i] = Body(s[i])
<1>1. DOMAIN s = 1 .. Len(s) /\ Len(s) \in Nat
  OBVIOUS
<1>2. ASSUME NEW m \in SentMessages
      PROVE  Body(m) \in Messages
  <2>1. m.start \in Nat /\ m.length \in Nat /\ End(m) = m.start + 5 + m.length /\ HeaderLength = 5
    BY EndTypes, Lengths
  <2>2. End(m) - (m.start + HeaderLength) \in Nat /\ m.start + HeaderLength \in Nat
    BY <2>1
  <2>3. Bytes(m.start + HeaderLength, End(m)) \in Seq(Nat)
    BY <2>2 DEF Bytes
  <2> QED  BY <2>1, <2>3 DEF Body, Messages
<1>3. \A i \in 1 .. Len(s) : Body(s[i]) \in Messages
  BY <1>1, <1>2
<1> QED  BY <1>1, <1>3 DEF Bodies

LEMMA NothingIn ==
  ASSUME NEW S, NEW s \in Seq(S), Len(s) = 0
  PROVE  s = <<>>
  OBVIOUS

\* A sequence that continues another begins with it.
LEMMA Continues ==
  ASSUME NEW S, NEW s \in Seq(S), NEW t \in Seq(S), Len(t) = Len(s) + 1,
         \A i \in 1 .. Len(s) : t[i] = s[i]
  PROVE  SubSeq(t, 1, Len(s)) = s
  OBVIOUS

(* Reading implements Channel: however the stream is cut into chunks, the  *)
(* messages are handed over whole, in the order they were sent, each once. *)
THEOREM ReadingDelivers == Spec => Delivers
<1>1. Init => Promise!Init
  <2> SUFFICES ASSUME Init PROVE Promise!Init
    OBVIOUS
  <2>1. sent \in Seq(SentMessages) /\ Len(sent) = 0
    BY DEF Init
  <2>2. Bodies(sent) = <<>>
    <3>1. Bodies(sent) \in Seq(Messages) /\ Len(Bodies(sent)) = 0
      BY <2>1, BodiesOf
    <3> QED  BY <3>1, NothingIn
  <2> QED  BY <2>2 DEF Promise!Init, Init, Bodies
<1>2. ASSUME Inv, [Next]_vars PROVE [Promise!Next]_Promise!vars
  <2>1. CASE Send
    <3>1. /\ sent \in Seq(SentMessages) /\ sent' \in Seq(SentMessages)
          /\ Len(sent') = Len(sent) + 1 /\ \A i \in 1 .. Len(sent) : sent'[i] = sent[i]
      <4>1. PICK l \in BodyLengths : sent' = Append(sent, [start |-> StreamEnd, length |-> l])
        BY <2>1 DEF Send
      <4>2. [start |-> StreamEnd, length |-> l] \in SentMessages /\ sent \in Seq(SentMessages)
        BY <1>2, Facts DEF SentMessages
      <4> QED  BY <4>1, <4>2, Added
    <3>2. /\ Bodies(sent) \in Seq(Messages) /\ Bodies(sent)' \in Seq(Messages)
          /\ Len(Bodies(sent)') = Len(Bodies(sent)) + 1
          /\ \A i \in 1 .. Len(Bodies(sent)) : Bodies(sent)'[i] = Bodies(sent)[i]
      <4>1. /\ Bodies(sent) \in Seq(Messages) /\ Len(Bodies(sent)) = Len(sent) /\ Len(sent) \in Nat
            /\ \A i \in 1 .. Len(sent) : Bodies(sent)[i] = Body(sent[i])
        BY <3>1, BodiesOf
      <4>2. /\ Bodies(sent') \in Seq(Messages) /\ Len(Bodies(sent')) = Len(sent')
            /\ \A i \in 1 .. Len(sent') : Bodies(sent')[i] = Body(sent'[i])
        BY <3>1, BodiesOf
      <4>3. Bodies(sent)' = Bodies(sent')
        OBVIOUS
      <4> QED  BY <3>1, <4>1, <4>2, <4>3
    <3>3. SubSeq(Bodies(sent)', 1, Len(Bodies(sent))) = Bodies(sent)
      BY <3>2, Continues
    <3>4. processed' = processed
      BY <2>1 DEF Send
    <3> QED  BY <3>2, <3>3, <3>4 DEF Promise!Next, Promise!Send, Bodies
  <2>2. CASE Process
    <3>1. /\ messages # <<>> /\ processed' = Append(processed, Head(messages))
          /\ sent' = sent
      BY <2>2 DEF Process, netVars
    <3>2. /\ sent \in Seq(SentMessages) /\ messages \in Seq(Messages)
          /\ Len(processed) \in Nat /\ Len(messages) \in Nat /\ Len(sent) \in Nat
          /\ Len(processed) + Len(messages) <= Len(sent)
          /\ \A i \in 1 .. Len(messages) : messages[i] = Body(sent[Len(processed) + i])
      BY <1>2, Facts DEF Inv, Handed
    <3>3. Head(messages) = messages[1] /\ 1 \in 1 .. Len(messages)
      BY <3>1, <3>2
    <3>4. Head(messages) = Body(sent[Len(processed) + 1])
      BY <3>2, <3>3
    <3>5. /\ Len(Bodies(sent)) = Len(sent)
          /\ Bodies(sent)[Len(processed) + 1] = Body(sent[Len(processed) + 1])
      BY <3>2, <3>3, BodiesOf
    <3>6. /\ Len(processed) < Len(Bodies(sent))
          /\ processed' = Append(processed, Bodies(sent)[Len(processed) + 1])
          /\ Bodies(sent)' = Bodies(sent)
      BY <3>1, <3>2, <3>3, <3>4, <3>5
    <3> QED  BY <3>6 DEF Promise!Next, Promise!Hand, Bodies
  <2>3. CASE UNCHANGED <<sent, processed>>
    BY <2>3 DEF Promise!vars
  <2> QED  BY <1>2, <2>1, <2>2, <2>3
           DEF Next, SocketQueue, ChannelRead, RunData, RunRead, Perform, Complete, EndPerform,
               vars, netVars
<1> QED  BY <1>1, <1>2, InvAlways, PTL DEF Spec, Delivers, Promise!Spec
-----------------------------------------------------------------------------
(***************************************************************************)
(* The bytes of the blocks in the queue, joined.                           *)
(***************************************************************************)
LEMMA BytesType ==
  ASSUME NEW from \in Nat, NEW to \in Nat, from <= to
  PROVE  /\ Bytes(from, to) \in Seq(Nat) /\ Len(Bytes(from, to)) = to - from
         /\ \A k \in 1 .. to - from : Bytes(from, to)[k] = from + k
<1>1. to - from \in Nat /\ \A k \in 1 .. to - from : from + k \in Nat
  OBVIOUS
<1> QED  BY <1>1 DEF Bytes

LEMMA BytesAre ==
  ASSUME NEW from \in Nat, NEW to \in Nat, from <= to, NEW s \in Seq(Nat),
         Len(s) = to - from, \A k \in 1 .. to - from : s[k] = from + k
  PROVE  s = Bytes(from, to)
<1> DEFINE b == Bytes(from, to)
<1>1. b \in Seq(Nat) /\ Len(b) = to - from /\ \A k \in 1 .. to - from : b[k] = from + k
  BY BytesType
<1> HIDE DEF b
<1>2. Len(s) = Len(b) /\ \A k \in 1 .. Len(s) : s[k] = b[k]
  BY <1>1
<1>3. s = b
  BY <1>1, <1>2
<1> QED  BY <1>3 DEF b

LEMMA BytesJoined ==
  ASSUME NEW from \in Nat, NEW mid \in Nat, NEW to \in Nat, from <= mid, mid <= to
  PROVE  Bytes(from, mid) \o Bytes(mid, to) = Bytes(from, to)
<1> DEFINE a == Bytes(from, mid)
           b == Bytes(mid, to)
<1>1. /\ a \in Seq(Nat) /\ Len(a) = mid - from /\ \A k \in 1 .. mid - from : a[k] = from + k
      /\ b \in Seq(Nat) /\ Len(b) = to - mid /\ \A k \in 1 .. to - mid : b[k] = mid + k
  BY BytesType
<1> HIDE DEF a, b
<1>2. /\ a \o b \in Seq(Nat) /\ Len(a \o b) = to - from
      /\ \A i \in 1 .. mid - from : (a \o b)[i] = a[i]
      /\ \A i \in 1 .. to - mid : (a \o b)[(mid - from) + i] = b[i]
  BY <1>1, Joined
<1>3. ASSUME NEW k \in 1 .. to - from
      PROVE  (a \o b)[k] = from + k
  <2>1. CASE k <= mid - from
    <3>1. k \in 1 .. mid - from
      BY <2>1
    <3>2. (a \o b)[k] = a[k]
      BY <1>2, <3>1
    <3>3. a[k] = from + k
      BY <1>1, <3>1
    <3> QED  BY <3>2, <3>3
  <2>2. CASE k > mid - from
    <3>1. PICK j \in 1 .. to - mid : (mid - from) + j = k
      <4>1. k - (mid - from) \in 1 .. to - mid /\ (mid - from) + (k - (mid - from)) = k
        BY <2>2
      <4> QED  BY <4>1
    <3>2. (a \o b)[(mid - from) + j] = b[j]
      BY <1>2
    <3>3. b[j] = mid + j
      BY <1>1
    <3>4. mid + j = from + k
      BY <3>1
    <3>5. (a \o b)[k] = b[j]
      BY <3>1, <3>2, Zenon
    <3> QED  BY <3>3, <3>4, <3>5, Zenon
  <2>3. k <= mid - from \/ k > mid - from
    OBVIOUS
  <2> QED  BY <2>1, <2>2, <2>3, Zenon
<1>4. from <= to
  OBVIOUS
<1>5. a \o b = Bytes(from, to)
  BY <1>2, <1>3, <1>4, BytesAre
<1> QED  BY <1>5 DEF a, b

LEMMA BlocksJoined ==
  ASSUME NEW q \in Seq(Blocks), NEW upto \in Nat, NEW pos \in Places(q, upto),
         Waiting(q, upto, pos)
  PROVE  /\ FlattenSeq([i \in DOMAIN q |-> q[i].bytes]) = Bytes(pos[1], upto)
         /\ pos[1] \in Nat /\ pos[1] <= upto
<1> DEFINE seqs == [i \in DOMAIN q |-> q[i].bytes]
<1>0. PICK n \in Nat : n = Len(q)
  OBVIOUS
<1>1. DOMAIN q = 1 .. n /\ \A i \in 1 .. n : q[i].bytes \in Seq(Nat)
  <2>1. DOMAIN q = 1 .. n /\ \A i \in 1 .. n : q[i] \in Blocks
    BY <1>0
  <2> QED  BY <2>1 DEF Blocks
<1>2. seqs = [i \in 1 .. n |-> q[i].bytes]
  BY <1>1
<1>3. \A i \in 1 .. n : seqs[i] \in Seq(Nat)
  BY <1>1, <1>2
<1> HIDE DEF seqs
<1>4. seqs \in Seq(Seq(Nat)) /\ Len(seqs) = n
  BY <1>1, <1>2, <1>3
<1>5. /\ \A i \in 1 .. n + 1 : pos[i] \in Nat /\ pos[i] <= upto
      /\ pos[n + 1] = upto
  BY <1>0 DEF Places, Waiting
<1>6. \A i \in 1 .. n : pos[i] <= pos[i + 1] /\ seqs[i] = Bytes(pos[i], pos[i + 1])
  <2> SUFFICES ASSUME NEW i \in 1 .. n
               PROVE  pos[i] <= pos[i + 1] /\ seqs[i] = Bytes(pos[i], pos[i + 1])
    OBVIOUS
  <2>1. /\ seqs[i] = q[i].bytes /\ seqs[i] \in Seq(Nat)
        /\ Len(seqs[i]) = pos[i + 1] - pos[i] /\ Len(seqs[i]) \in Nat
        /\ \A k \in 1 .. Len(seqs[i]) : seqs[i][k] = pos[i] + k
    BY <1>0, <1>2, <1>3 DEF Waiting
  <2>2. pos[i] \in Nat /\ pos[i + 1] \in Nat
    BY <1>1, <1>5
  <2>3. pos[i] <= pos[i + 1]
    BY <2>1, <2>2
  <2> QED  BY <2>1, <2>2, <2>3, BytesAre
<1>7. CASE n = 0
  <2>1. seqs = <<>>
    BY <1>4, <1>7
  <2>2. FlattenSeq(seqs) = <<>>
    BY <1>4, <1>7, <2>1 DEF FlattenSeq
  <2>3. pos[1] = upto
    BY <1>5, <1>7
  <2>4. Bytes(upto, upto) = <<>>
    <3>1. Bytes(upto, upto) \in Seq(Nat) /\ Len(Bytes(upto, upto)) = 0
      BY BytesType
    <3> QED  BY <3>1
  <2> QED  BY <2>2, <2>3, <2>4 DEF seqs
<1>8. CASE n # 0
  <2> DEFINE g == [i \in 1 .. n |-> Bytes(pos[1], pos[i + 1])]
  <2>1. \A i \in 1 .. n : pos[1] <= pos[i]
    <3> DEFINE Low == {i \in 1 .. n : ~ (pos[1] <= pos[i])}
    <3> SUFFICES ASSUME Low # {}
                 PROVE  FALSE
      OBVIOUS
    <3>1. PICK m \in Low : \A k \in Low : m <= k
      <4>1. Low \subseteq Nat
        BY <1>1
      <4> HIDE DEF Low
      <4> QED  BY <4>1, Least
    <3>2. m \in 1 .. n /\ m # 1 /\ ~ (pos[1] <= pos[m])
      BY <1>1, <1>5, <3>1
    <3>3. m - 1 \in 1 .. n /\ (m - 1) + 1 = m
      BY <1>1, <3>2
    <3>4. pos[1] <= pos[m - 1]
      BY <3>1, <3>3
    <3>5. pos[m - 1] <= pos[m]
      BY <1>6, <3>3
    <3>6. pos[1] \in Nat /\ pos[m - 1] \in Nat /\ pos[m] \in Nat
      BY <1>1, <1>5, <3>2, <3>3
    <3> QED  BY <3>2, <3>4, <3>5, <3>6
  <2>2. \A i \in 1 .. n : g[i] = Bytes(pos[1], pos[i + 1])
    OBVIOUS
  <2>3. ASSUME NEW i \in 1 .. n
        PROVE  g[i] = IF i = 1 THEN seqs[i] ELSE g[i - 1] \o seqs[i]
    <3>1. CASE i = 1
      BY <1>6, <2>2, <3>1
    <3>2. CASE i # 1
      <4>1. i - 1 \in 1 .. n /\ (i - 1) + 1 = i
        BY <1>1, <3>2
      <4>2. g[i - 1] = Bytes(pos[1], pos[i]) /\ seqs[i] = Bytes(pos[i], pos[i + 1])
        BY <1>6, <2>2, <4>1
      <4>3. /\ pos[1] \in Nat /\ pos[i] \in Nat /\ pos[i + 1] \in Nat
            /\ pos[1] <= pos[i] /\ pos[i] <= pos[i + 1]
        BY <1>1, <1>5, <1>6, <2>1
      <4>4. Bytes(pos[1], pos[i]) \o Bytes(pos[i], pos[i + 1]) = Bytes(pos[1], pos[i + 1])
        BY <4>3, BytesJoined
      <4> QED  BY <2>2, <3>2, <4>2, <4>4
    <3> QED  BY <3>1, <3>2
  <2>4. IsFlat(g, seqs, n)
    BY <2>3 DEF IsFlat
  <2> HIDE DEF g
  <2>5. FlattenSeq(seqs) = g[n]
    BY <1>1, <1>4, <1>8, <2>4, Flattened
  <2>6. g[n] = Bytes(pos[1], upto)
    BY <1>1, <1>5, <1>8, <2>2
  <2>7. 1 \in 1 .. n + 1
    BY <1>1
  <2> QED  BY <1>5, <2>5, <2>6, <2>7 DEF seqs
<1>9. 1 \in 1 .. n + 1
  BY <1>1
<1> QED  BY <1>5, <1>7, <1>8, <1>9 DEF seqs

(* The reader keeps its place in the stream: what performRead has not      *)
(* taken of inputBuffer, followed by the chunks that wait in the socket's  *)
(* queue, are the bytes that have arrived behind what was read.            *)
THEOREM ReadingKeepsItsPlace == Spec => []KeepsItsPlace
<1>1. ASSUME Inv PROVE KeepsItsPlace
  <2>1. PICK r \in Requests, pos \in Places(queue, arrived) :
          Keeps(sent, MessagesRead, arrived, queue, readQueue, inputBuffer, offset, r, pos)
    BY <1>1 DEF Inv, InPlace
  <2>2. /\ queue \in Seq(Blocks) /\ DOMAIN queue = 1 .. Len(queue)
        /\ inputBuffer \in Seq(Nat) /\ offset \in 0 .. Len(inputBuffer)
        /\ arrived \in Nat /\ MessagesRead \in 0 .. Len(sent) /\ sent \in Seq(SentMessages)
        /\ Chained(sent)
    BY <1>1, Facts
  <2>3. FlattenSeq([i \in DOMAIN queue |-> queue[i].bytes]) = Bytes(pos[1], arrived)
        /\ pos[1] \in Nat /\ pos[1] <= arrived
    BY <2>1, <2>2, BlocksJoined DEF Keeps
  <2>4. AwaitsBody <=> r.kind = "body"
    <3>1. CASE readQueue = <<r>> /\ \A i \in 1 .. Len(queue) : queue[i].type = "data"
      <4>1. DOMAIN readQueue = {1} /\ readQueue[1] = r
        BY <3>1
      <4>2. Reads = {}
        BY <2>2, <3>1 DEF Reads
      <4> QED  BY <4>1, <4>2 DEF AwaitsBody
    <3>2. CASE readQueue = <<>> /\ \E k \in 1 .. Len(queue) :
                   /\ queue[k].type = "read" /\ queue[k].request = r
                   /\ \A i \in 1 .. Len(queue) : i # k => queue[i].type = "data"
      <4>1. PICK k \in 1 .. Len(queue) :
                   /\ queue[k].type = "read" /\ queue[k].request = r
                   /\ \A i \in 1 .. Len(queue) : i # k => queue[i].type = "data"
        BY <3>2
      <4>2. Reads = {k}
        BY <2>2, <4>1 DEF Reads
      <4>3. DOMAIN readQueue = {}
        BY <3>2
      <4> QED  BY <4>1, <4>2, <4>3 DEF AwaitsBody
    <3> QED  BY <2>1, <3>1, <3>2 DEF Keeps, Outstanding
  <2> DEFINE from == Reached(sent, MessagesRead, r)
             rest == SubSeq(inputBuffer, offset + 1, Len(inputBuffer))
  <2>5. Place = from
    BY <2>2, <2>4 DEF Place, Reached, Position
  <2>6. from \in Nat
    <3>1. Position(sent, MessagesRead) \in Nat
      BY <2>2, Positions
    <3> QED  BY <3>1, Lengths DEF Reached
  <2>7. Len(inputBuffer) - offset = pos[1] - from
        /\ \A k \in 1 .. pos[1] - from : inputBuffer[offset + k] = from + k
    BY <2>1 DEF Keeps, Buffered
  <2> HIDE DEF from
  <2>8. /\ rest \in Seq(Nat) /\ Len(rest) = Len(inputBuffer) - offset
        /\ \A i \in 1 .. Len(inputBuffer) - offset : rest[i] = inputBuffer[offset + i]
    BY <2>2, CutOff
  <2> HIDE DEF rest
  <2>9. from <= pos[1]
    BY <2>2, <2>3, <2>6, <2>7
  <2>10. rest = Bytes(from, pos[1])
    BY <2>3, <2>6, <2>7, <2>8, <2>9, BytesAre
  <2>11. Unread = Bytes(from, arrived)
    BY <2>2, <2>3, <2>6, <2>9, <2>10, BytesJoined DEF Unread, rest
  <2> QED  BY <2>5, <2>11 DEF KeepsItsPlace
<1> QED  BY <1>1, InvAlways, PTL
=============================================================================
