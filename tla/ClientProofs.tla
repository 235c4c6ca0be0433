---------------------------- MODULE ClientProofs ----------------------------
(***************************************************************************)
(* Theorems about Client, for any statements, replies, faults and number   *)
(* of requests, with their proofs.                                         *)
(***************************************************************************)
EXTENDS Client, FiniteSetTheorems, TLAPS

TaskRecords    == [type : TaskTypes, id : 0 .. MaxRequests, of : 0 .. MaxRequests]
MessageRecords == [type : MessageTypes, of : 0 .. MaxRequests]
AnswerRecords  == [type : AnswerTypes, of : 0 .. MaxRequests, fields : 0 .. MaxRequests,
                   rows : Seq(Requests)]
BodyRecords    == [kind : Kinds \cup LoginKinds, of : 0 .. MaxRequests,
                   statement : Statements \cup {None}, parse : BOOLEAN]

\* The last message of a reply is one of these, and no other message is.
Terminal == {"ready", "begun", "fatal", "challenge", "md5"}

\* What only a request is replied to with.
Replied == {"description", "row", "complete", "uncounted", "parseComplete", "error"}

Has(q, t) == \E i \in 1 .. Len(q) : q[i].type = t

-----------------------------------------------------------------------------
(***************************************************************************)
(* The client's queue.                                                     *)
(***************************************************************************)

\* The operations, in queryQueue and then on the queue, are in order.
Ordered(ops, q, n) ==
  /\ \A i \in 1 .. Len(ops) : ops[i] \in 1 .. n
  /\ \A i, j \in 1 .. Len(ops) : i < j => ops[i] < ops[j]
  /\ \A i \in 1 .. Len(q) : q[i].type = "operation" => q[i].id \in 1 .. n
  /\ \A i, j \in 1 .. Len(q) :
       i < j /\ q[i].type = "operation" /\ q[j].type = "operation" => q[i].id < q[j].id
  /\ \A i \in 1 .. Len(ops), j \in 1 .. Len(q) :
       q[j].type = "operation" => ops[i] < q[j].id

Pending(ops, q, r) ==
  \/ \E i \in 1 .. Len(ops) : ops[i] = r
  \/ \E i \in 1 .. Len(q) : q[i].type = "operation" /\ q[i].id = r

\* A task is for an observer, and of the message it observes.
Tasks(q, n) ==
  \A i \in 1 .. Len(q) :
    /\ q[i].id \in 0 .. n
    /\ q[i].type \in Replied \ {"error"} => q[i].id # 0
    /\ q[i].type \in Replied /\ q[i].id # 0 => q[i].of # 0

LEMMA One == \A n \in Nat : n # 0 /\ n <= 1 => n = 1
  OBVIOUS

LEMMA TailFacts ==
  ASSUME NEW S, NEW q \in Seq(S), q # <<>>
  PROVE  /\ Tail(q) \in Seq(S) /\ Len(Tail(q)) = Len(q) - 1 /\ Len(q) \in Nat \ {0}
         /\ \A i \in 1 .. Len(q) - 1 : Tail(q)[i] = q[i + 1]
         /\ Head(q) = q[1] /\ Head(q) \in S
  OBVIOUS

LEMMA AppendFacts ==
  ASSUME NEW S, NEW q \in Seq(S), NEW x \in S
  PROVE  /\ Append(q, x) \in Seq(S) /\ Len(Append(q, x)) = Len(q) + 1 /\ Len(q) \in Nat
         /\ \A i \in 1 .. Len(q) : Append(q, x)[i] = q[i]
         /\ Append(q, x)[Len(q) + 1] = x
  OBVIOUS

LEMMA ConcatFacts ==
  ASSUME NEW S, NEW q \in Seq(S), NEW new \in Seq(S)
  PROVE  /\ q \o new \in Seq(S) /\ Len(q \o new) = Len(q) + Len(new)
         /\ Len(q) \in Nat /\ Len(new) \in Nat
         /\ \A i \in 1 .. Len(q) : (q \o new)[i] = q[i]
         /\ \A i \in Len(q) + 1 .. Len(q) + Len(new) : (q \o new)[i] = new[i - Len(q)]
  OBVIOUS

LEMMA HasTail ==
  ASSUME NEW q \in Seq(TaskRecords), q # <<>>, NEW t
  PROVE  /\ Has(Tail(q), t) => Has(q, t)
         /\ Has(q, t) => Has(Tail(q), t) \/ Head(q).type = t
         /\ Head(q).type = t => Has(q, t)
<1>1. /\ Len(Tail(q)) = Len(q) - 1 /\ Len(q) \in Nat \ {0}
      /\ \A i \in 1 .. Len(q) - 1 : Tail(q)[i] = q[i + 1]
      /\ Head(q) = q[1]
  BY TailFacts
<1>2. ASSUME Has(Tail(q), t)
      PROVE  Has(q, t)
  <2>1. PICK i \in 1 .. Len(q) - 1 : q[i + 1].type = t
    BY <1>1, <1>2 DEF Has
  <2> QED  BY <1>1, <2>1 DEF Has
<1>3. ASSUME Has(q, t), Head(q).type # t
      PROVE  Has(Tail(q), t)
  <2>1. PICK i \in 1 .. Len(q) : q[i].type = t
    BY <1>3 DEF Has
  <2>2. i - 1 \in 1 .. Len(q) - 1 /\ Tail(q)[i - 1] = q[i]
    BY <1>1, <1>3, <2>1
  <2> QED  BY <1>1, <2>1, <2>2 DEF Has
<1> QED  BY <1>1, <1>2, <1>3 DEF Has

LEMMA HasConcat ==
  ASSUME NEW q \in Seq(TaskRecords), NEW new \in Seq(TaskRecords), NEW t
  PROVE  Has(q \o new, t) <=> Has(q, t) \/ Has(new, t)
<1>1. /\ Len(q \o new) = Len(q) + Len(new) /\ Len(q) \in Nat /\ Len(new) \in Nat
      /\ \A i \in 1 .. Len(q) : (q \o new)[i] = q[i]
      /\ \A i \in Len(q) + 1 .. Len(q) + Len(new) : (q \o new)[i] = new[i - Len(q)]
  BY ConcatFacts
<1>2. ASSUME Has(q \o new, t)
      PROVE  Has(q, t) \/ Has(new, t)
  <2>1. PICK i \in 1 .. Len(q) + Len(new) : (q \o new)[i].type = t
    BY <1>1, <1>2 DEF Has
  <2>2. CASE i \in 1 .. Len(q)
    BY <1>1, <2>1, <2>2 DEF Has
  <2>3. CASE i \in Len(q) + 1 .. Len(q) + Len(new)
    <3>1. i - Len(q) \in 1 .. Len(new) /\ new[i - Len(q)].type = t
      BY <1>1, <2>1, <2>3
    <3> QED  BY <3>1 DEF Has
  <2> QED  BY <1>1, <2>1, <2>2, <2>3
<1>3. ASSUME Has(q, t)
      PROVE  Has(q \o new, t)
  <2>1. PICK i \in 1 .. Len(q) : q[i].type = t
    BY <1>3 DEF Has
  <2>2. i \in 1 .. Len(q) + Len(new) /\ (q \o new)[i].type = t
    BY <1>1, <2>1
  <2> QED  BY <1>1, <2>2 DEF Has
<1>4. ASSUME Has(new, t)
      PROVE  Has(q \o new, t)
  <2>1. PICK i \in 1 .. Len(new) : new[i].type = t
    BY <1>4 DEF Has
  <2>2. i + Len(q) \in Len(q) + 1 .. Len(q) + Len(new) /\ (q \o new)[i + Len(q)].type = t
    BY <1>1, <2>1
  <2> QED  BY <1>1, <2>2 DEF Has
<1> QED  BY <1>2, <1>3, <1>4

\* Tasks that are no operations leave the operations as they are.
LEMMA OrderedConcat ==
  ASSUME NEW ops \in Seq(Requests), NEW q \in Seq(TaskRecords), NEW n \in Nat,
         NEW new \in Seq(TaskRecords), ~ Has(new, "operation"), Ordered(ops, q, n)
  PROVE  /\ Ordered(ops, q \o new, n)
         /\ \A r : Pending(ops, q \o new, r) <=> Pending(ops, q, r)
<1>1. /\ Len(q \o new) = Len(q) + Len(new) /\ Len(q) \in Nat /\ Len(new) \in Nat
      /\ \A i \in 1 .. Len(q) : (q \o new)[i] = q[i]
      /\ \A i \in Len(q) + 1 .. Len(q) + Len(new) : (q \o new)[i] = new[i - Len(q)]
  BY ConcatFacts
<1>2. ASSUME NEW i \in 1 .. Len(q \o new), (q \o new)[i].type = "operation"
      PROVE  i \in 1 .. Len(q) /\ (q \o new)[i] = q[i]
  <2>1. CASE i \in Len(q) + 1 .. Len(q) + Len(new)
    <3>1. i - Len(q) \in 1 .. Len(new) /\ new[i - Len(q)].type = "operation"
      BY <1>1, <1>2, <2>1
    <3> QED  BY <3>1 DEF Has
  <2> QED  BY <1>1, <1>2, <2>1
<1>3. Ordered(ops, q \o new, n)
  BY <1>1, <1>2 DEF Ordered
<1>4. ASSUME NEW r
      PROVE  Pending(ops, q \o new, r) <=> Pending(ops, q, r)
  <2>1. ASSUME NEW i \in 1 .. Len(q), q[i].type = "operation", q[i].id = r
        PROVE  Pending(ops, q \o new, r)
    <3>1. i \in 1 .. Len(q \o new) /\ (q \o new)[i] = q[i]
      BY <1>1
    <3> QED  BY <2>1, <3>1 DEF Pending
  <2>2. ASSUME NEW i \in 1 .. Len(q \o new), (q \o new)[i].type = "operation",
               (q \o new)[i].id = r
        PROVE  Pending(ops, q, r)
    BY <1>2, <2>2 DEF Pending
  <2> QED  BY <2>1, <2>2 DEF Pending
<1> QED  BY <1>3, <1>4

LEMMA OrderedTail ==
  ASSUME NEW ops \in Seq(Requests), NEW q \in Seq(TaskRecords), NEW n \in Nat,
         q # <<>>, Ordered(ops, q, n)
  PROVE  /\ Ordered(ops, Tail(q), n)
         /\ Head(q).type # "operation" =>
              \A r : Pending(ops, Tail(q), r) <=> Pending(ops, q, r)
<1>1. /\ Len(Tail(q)) = Len(q) - 1 /\ Len(q) \in Nat \ {0}
      /\ \A i \in 1 .. Len(q) - 1 : Tail(q)[i] = q[i + 1] /\ i + 1 \in 1 .. Len(q)
      /\ Head(q) = q[1]
  BY TailFacts
<1>2. Ordered(ops, Tail(q), n)
  BY <1>1 DEF Ordered
<1>3. ASSUME Head(q).type # "operation", NEW r
      PROVE  Pending(ops, Tail(q), r) <=> Pending(ops, q, r)
  <2>1. ASSUME NEW i \in 1 .. Len(q), q[i].type = "operation", q[i].id = r
        PROVE  Pending(ops, Tail(q), r)
    <3>1. i - 1 \in 1 .. Len(q) - 1 /\ Tail(q)[i - 1] = q[i]
      BY <1>1, <1>3, <2>1
    <3> QED  BY <1>1, <2>1, <3>1 DEF Pending
  <2>2. ASSUME NEW i \in 1 .. Len(Tail(q)), Tail(q)[i].type = "operation", Tail(q)[i].id = r
        PROVE  Pending(ops, q, r)
    <3>1. i + 1 \in 1 .. Len(q) /\ Tail(q)[i] = q[i + 1]
      BY <1>1
    <3> QED  BY <2>2, <3>1 DEF Pending
  <2> QED  BY <2>1, <2>2 DEF Pending
<1> QED  BY <1>2, <1>3

\* The operation at the head of the queue goes to the end of queryQueue.
LEMMA OrderedTake ==
  ASSUME NEW ops \in Seq(Requests), NEW q \in Seq(TaskRecords), NEW n \in Nat,
         q # <<>>, Ordered(ops, q, n), Head(q).type = "operation", Head(q).id \in Requests
  PROVE  /\ Ordered(Append(ops, Head(q).id), Tail(q), n)
         /\ \A r : Pending(Append(ops, Head(q).id), Tail(q), r) <=> Pending(ops, q, r)
<1> DEFINE more == Append(ops, Head(q).id)
<1>1. /\ Len(Tail(q)) = Len(q) - 1 /\ Len(q) \in Nat \ {0}
      /\ \A i \in 1 .. Len(q) - 1 : Tail(q)[i] = q[i + 1] /\ i + 1 \in 2 .. Len(q)
      /\ Head(q) = q[1] /\ 1 \in 1 .. Len(q)
  BY TailFacts
<1>2. /\ Len(more) = Len(ops) + 1 /\ Len(ops) \in Nat
      /\ \A i \in 1 .. Len(ops) : more[i] = ops[i]
      /\ more[Len(ops) + 1] = q[1].id
  BY <1>1, AppendFacts
<1>3. ASSUME NEW i \in 1 .. Len(more)
      PROVE  \/ i \in 1 .. Len(ops) /\ more[i] = ops[i]
             \/ i = Len(ops) + 1 /\ more[i] = q[1].id
  BY <1>2
<1>4. q[1].type = "operation"
  BY <1>1
<1> HIDE DEF more
<1>5. \A i \in 1 .. Len(more) : more[i] \in 1 .. n
  BY <1>1, <1>3, <1>4 DEF Ordered
<1>6. \A i, j \in 1 .. Len(more) : i < j => more[i] < more[j]
  BY <1>1, <1>2, <1>3, <1>4 DEF Ordered
<1>7. \A i \in 1 .. Len(more), j \in 1 .. Len(Tail(q)) :
        Tail(q)[j].type = "operation" => more[i] < Tail(q)[j].id
  BY <1>1, <1>2, <1>3, <1>4 DEF Ordered
<1>8. Ordered(more, Tail(q), n)
  <2>1. \A i \in 1 .. Len(Tail(q)) : Tail(q)[i].type = "operation" => Tail(q)[i].id \in 1 .. n
    BY <1>1 DEF Ordered
  <2>2. \A i, j \in 1 .. Len(Tail(q)) :
          i < j /\ Tail(q)[i].type = "operation" /\ Tail(q)[j].type = "operation"
            => Tail(q)[i].id < Tail(q)[j].id
    BY <1>1 DEF Ordered
  <2> QED  BY <1>5, <1>6, <1>7, <2>1, <2>2 DEF Ordered
<1>9. ASSUME NEW r
      PROVE  Pending(more, Tail(q), r) <=> Pending(ops, q, r)
  <2>1. ASSUME NEW i \in 1 .. Len(ops), ops[i] = r
        PROVE  Pending(more, Tail(q), r)
    BY <1>2, <2>1 DEF Pending
  <2>2. ASSUME NEW i \in 1 .. Len(q), q[i].type = "operation", q[i].id = r
        PROVE  Pending(more, Tail(q), r)
    <3>1. CASE i = 1
      BY <1>2, <2>2, <3>1 DEF Pending
    <3>2. CASE i # 1
      <4>1. i - 1 \in 1 .. Len(Tail(q)) /\ Tail(q)[i - 1] = q[i]
        BY <1>1, <3>2
      <4> QED  BY <2>2, <4>1 DEF Pending
    <3> QED  BY <3>1, <3>2
  <2>3. ASSUME NEW i \in 1 .. Len(more), more[i] = r
        PROVE  Pending(ops, q, r)
    BY <1>1, <1>3, <1>4, <2>3 DEF Pending
  <2>4. ASSUME NEW i \in 1 .. Len(Tail(q)), Tail(q)[i].type = "operation", Tail(q)[i].id = r
        PROVE  Pending(ops, q, r)
    <3>1. i + 1 \in 1 .. Len(q) /\ Tail(q)[i] = q[i + 1]
      BY <1>1
    <3> QED  BY <2>4, <3>1 DEF Pending
  <2> QED  BY <2>1, <2>2, <2>3, <2>4 DEF Pending
<1> QED  BY <1>8, <1>9 DEF more

\* The first operation is the oldest of all.
LEMMA OrderedBegin ==
  ASSUME NEW ops \in Seq(Requests), NEW q \in Seq(TaskRecords), NEW n \in Nat,
         ops # <<>>, Ordered(ops, q, n)
  PROVE  /\ Ordered(Tail(ops), q, n)
         /\ Pending(ops, q, Head(ops)) /\ ~ Pending(Tail(ops), q, Head(ops))
         /\ \A r : Pending(ops, q, r) => r \in 1 .. n /\ r >= Head(ops)
         /\ \A r : Pending(Tail(ops), q, r) <=> Pending(ops, q, r) /\ r # Head(ops)
<1>1. /\ Len(Tail(ops)) = Len(ops) - 1 /\ Len(ops) \in Nat \ {0}
      /\ \A i \in 1 .. Len(ops) - 1 : Tail(ops)[i] = ops[i + 1] /\ i + 1 \in 2 .. Len(ops)
      /\ Head(ops) = ops[1] /\ 1 \in 1 .. Len(ops)
  BY TailFacts
<1>2. Ordered(Tail(ops), q, n)
  BY <1>1 DEF Ordered
<1>3. \A i \in 2 .. Len(ops) : ops[1] < ops[i]
  BY <1>1 DEF Ordered
<1>4. \A j \in 1 .. Len(q) : q[j].type = "operation" => ops[1] < q[j].id
  BY <1>1 DEF Ordered
<1>5. \A i \in 1 .. Len(ops) : ops[i] \in 1 .. n /\ ops[i] >= ops[1]
  BY <1>1, <1>3 DEF Ordered
<1>6. \A j \in 1 .. Len(q) : q[j].type = "operation" => q[j].id \in 1 .. n
  BY DEF Ordered
<1>7. ops[1] \in 1 .. n
  BY <1>1, <1>5
<1>8. \A r : Pending(ops, q, r) => r \in 1 .. n /\ r >= ops[1]
  BY <1>4, <1>5, <1>6, <1>7 DEF Pending
<1>9. \A r : Pending(Tail(ops), q, r) => Pending(ops, q, r) /\ r # ops[1]
  <2>1. ASSUME NEW r, NEW i \in 1 .. Len(Tail(ops)), Tail(ops)[i] = r
        PROVE  Pending(ops, q, r) /\ r # ops[1]
    <3>1. i + 1 \in 2 .. Len(ops) /\ i + 1 \in 1 .. Len(ops) /\ ops[i + 1] = r
      BY <1>1, <2>1
    <3> QED  BY <1>3, <1>5, <1>7, <3>1 DEF Pending
  <2>2. ASSUME NEW r, NEW i \in 1 .. Len(q), q[i].type = "operation", q[i].id = r
        PROVE  Pending(ops, q, r) /\ r # ops[1]
    BY <1>4, <1>6, <1>7, <2>2 DEF Pending
  <2> QED  BY <2>1, <2>2 DEF Pending
<1>10. \A r : Pending(ops, q, r) /\ r # ops[1] => Pending(Tail(ops), q, r)
  <2>1. ASSUME NEW r, r # ops[1], NEW i \in 1 .. Len(ops), ops[i] = r
        PROVE  Pending(Tail(ops), q, r)
    <3>1. i - 1 \in 1 .. Len(Tail(ops)) /\ Tail(ops)[i - 1] = r
      BY <1>1, <2>1
    <3> QED  BY <3>1 DEF Pending
  <2> QED  BY <2>1 DEF Pending
<1>11. Pending(ops, q, ops[1])
  BY <1>1 DEF Pending
<1> QED  BY <1>1, <1>2, <1>8, <1>9, <1>10, <1>11

\* A call is the youngest operation.
LEMMA OrderedCall ==
  ASSUME NEW ops \in Seq(Requests), NEW q \in Seq(TaskRecords), NEW n \in Nat,
         n + 1 \in Requests, Ordered(ops, q, n)
  PROVE  /\ Ordered(ops, Append(q, Task("operation", n + 1, 0)), n + 1)
         /\ \A r : Pending(ops, Append(q, Task("operation", n + 1, 0)), r)
                     <=> Pending(ops, q, r) \/ r = n + 1
<1> DEFINE x == Task("operation", n + 1, 0)
           longer == Append(q, x)
<1>1. x \in TaskRecords /\ x.type = "operation" /\ x.id = n + 1
  BY ClientAssumption DEF Task, TaskRecords, TaskTypes, Requests
<1> HIDE DEF x
<1>2. /\ Len(longer) = Len(q) + 1 /\ Len(q) \in Nat
      /\ \A i \in 1 .. Len(q) : longer[i] = q[i]
      /\ longer[Len(q) + 1] = x
  BY <1>1, AppendFacts
<1> HIDE DEF longer
<1>3. Ordered(ops, longer, n + 1)
  <2>1. \A i \in 1 .. Len(ops) : ops[i] \in 1 .. n
    BY DEF Ordered
  <2>2. \A i \in 1 .. Len(q) : q[i].type = "operation" => q[i].id \in 1 .. n
    BY DEF Ordered
  <2>3. \A i \in 1 .. Len(longer) : i \in 1 .. Len(q) \/ i = Len(q) + 1
    BY <1>2
  <2>4. \A i \in 1 .. Len(longer) : longer[i].type = "operation" => longer[i].id \in 1 .. n + 1
    BY <1>1, <1>2, <2>2, <2>3
  <2>5. \A i, j \in 1 .. Len(longer) :
          i < j /\ longer[i].type = "operation" /\ longer[j].type = "operation"
            => longer[i].id < longer[j].id
    <3>1. ASSUME NEW i \in 1 .. Len(longer), NEW j \in 1 .. Len(longer), i < j,
                 longer[i].type = "operation", longer[j].type = "operation"
          PROVE  longer[i].id < longer[j].id
      <4>1. i \in 1 .. Len(q)
        BY <1>2, <2>3, <3>1
      <4>2. CASE j \in 1 .. Len(q)
        BY <1>2, <3>1, <4>1, <4>2 DEF Ordered
      <4>3. CASE j = Len(q) + 1
        BY <1>1, <1>2, <2>2, <3>1, <4>1, <4>3
      <4> QED  BY <2>3, <4>2, <4>3
    <3> QED  BY <3>1
  <2>6. \A i \in 1 .. Len(ops), j \in 1 .. Len(longer) :
          longer[j].type = "operation" => ops[i] < longer[j].id
    <3>1. ASSUME NEW i \in 1 .. Len(ops), NEW j \in 1 .. Len(longer),
                 longer[j].type = "operation"
          PROVE  ops[i] < longer[j].id
      <4>1. CASE j \in 1 .. Len(q)
        BY <1>2, <3>1, <4>1 DEF Ordered
      <4>2. CASE j = Len(q) + 1
        BY <1>1, <1>2, <2>1, <3>1, <4>2
      <4> QED  BY <2>3, <4>1, <4>2
    <3> QED  BY <3>1
  <2>7. \A i, j \in 1 .. Len(ops) : i < j => ops[i] < ops[j]
    BY DEF Ordered
  <2>8. \A i \in 1 .. Len(ops) : ops[i] \in 1 .. n + 1
    BY <2>1
  <2> QED  BY <2>4, <2>5, <2>6, <2>7, <2>8 DEF Ordered
<1>4. ASSUME NEW r
      PROVE  Pending(ops, longer, r) <=> Pending(ops, q, r) \/ r = n + 1
  <2>1. ASSUME NEW i \in 1 .. Len(longer), longer[i].type = "operation", longer[i].id = r
        PROVE  Pending(ops, q, r) \/ r = n + 1
    <3>1. CASE i \in 1 .. Len(q)
      BY <1>2, <2>1, <3>1 DEF Pending
    <3>2. CASE i = Len(q) + 1
      BY <1>1, <1>2, <2>1, <3>2
    <3> QED  BY <1>2, <3>1, <3>2
  <2>2. ASSUME NEW i \in 1 .. Len(q), q[i].type = "operation", q[i].id = r
        PROVE  Pending(ops, longer, r)
    <3>1. i \in 1 .. Len(longer) /\ longer[i] = q[i]
      BY <1>2
    <3> QED  BY <2>2, <3>1 DEF Pending
  <2>3. ASSUME r = n + 1
        PROVE  Pending(ops, longer, r)
    <3>1. Len(q) + 1 \in 1 .. Len(longer) /\ longer[Len(q) + 1].type = "operation"
          /\ longer[Len(q) + 1].id = r
      BY <1>1, <1>2, <2>3
    <3> QED  BY <3>1 DEF Pending
  <2> QED  BY <2>1, <2>2, <2>3 DEF Pending
<1> QED  BY <1>3, <1>4 DEF longer, x

\* What emit puts on the queue.
Emitted(type, of, more, new) ==
  /\ queue' = queue \o (new \o more)
  /\ \A i \in 1 .. Len(new) :
       new[i].type = type /\ new[i].of = of /\ new[i].id \in observers[EventOf(type)]

LEMMA EventOfFacts ==
  /\ \A type \in Events \cup {"uncounted"} : EventOf(type) \in Events
  /\ EventOf("uncounted") = "complete"
  /\ \A type : type # "uncounted" => EventOf(type) = type
  BY DEF EventOf, Events

LEMMA EmitFacts ==
  ASSUME NEW type \in Events \cup {"uncounted"}, NEW of \in 0 .. MaxRequests,
         NEW more \in Seq(TaskRecords),
         observers[EventOf(type)] \subseteq 0 .. MaxRequests, Emit(type, of, more),
         queue \in Seq(TaskRecords)
  PROVE  \E new \in Seq(TaskRecords) : Emitted(type, of, more, new)
<1> DEFINE S == observers[EventOf(type)]
<1>0. S \subseteq 0 .. MaxRequests
  OBVIOUS
<1>1. PICK f \in InOrder(S) :
        queue' = queue \o [i \in DOMAIN f |-> Task(type, f[i], of)] \o more
  BY DEF Emit
<1> HIDE DEF S
<1> DEFINE new == [i \in DOMAIN f |-> Task(type, f[i], of)]
<1>2. Cardinality(S) \in Nat
  <2>1. IsFiniteSet(0 .. MaxRequests)
    BY FS_Interval, ClientAssumption
  <2> QED  BY <1>0, <2>1, FS_Subset, FS_CardinalityType
<1>3. f \in [1 .. Cardinality(S) -> S] /\ DOMAIN f = 1 .. Cardinality(S)
  BY <1>1 DEF InOrder
<1>4. \A i \in DOMAIN f : Task(type, f[i], of) \in TaskRecords
  BY <1>0, <1>3 DEF Task, TaskRecords, TaskTypes
<1>5. new \in Seq(TaskRecords) /\ Len(new) = Cardinality(S)
  BY <1>2, <1>3, <1>4
<1>6. \A i \in 1 .. Len(new) :
        new[i].type = type /\ new[i].of = of /\ new[i].id \in S
  BY <1>3, <1>5 DEF Task
<1>7. queue \o new \o more = queue \o (new \o more)
  BY <1>5, SMTT(30)
<1> QED  BY <1>1, <1>5, <1>6, <1>7 DEF Emitted, S

-----------------------------------------------------------------------------
(***************************************************************************)
(* The inductive invariant.                                                *)
(***************************************************************************)
Typed ==
  /\ called \in 0 .. MaxRequests
  /\ request \in [Requests -> [kind : Kinds \cup {"none"}, query : 0 .. MaxRequests,
                               statement : Statements \cup {None}]]
  /\ listening \subseteq Requests
  /\ answers \in [Requests -> Seq(AnswerRecords)]
  /\ queue \in Seq(TaskRecords) /\ queryQueue \in Seq(Requests)
  /\ preparedStatements \subseteq Statements
  /\ connection \in {"none", "open", "nil"}
  /\ completion \in {"none", "owed", "succeeded", "failed"}
  /\ observers \in [Events -> SUBSET (0 .. MaxRequests)]
  /\ fields \in [Requests -> 0 .. MaxRequests] /\ rows \in [Requests -> Seq(Requests)]
  /\ transactionStatus \in {"notReady", "idle", "inTransaction"}
  /\ inbound \in Seq(MessageRecords)
  /\ link \in {"none", "up", "broken", "down"} /\ closing \in BOOLEAN
  /\ toServer \in Seq(BodyRecords) /\ writeFailed \in BOOLEAN
  /\ serverStatements \in [Names -> 0 .. Versions]
  /\ reply \in [0 .. MaxRequests -> Seq(MessageTypes)]

\* The requests that were made, and those that were not.
Asked ==
  /\ \A r \in Requests : r <= called => request[r].kind \in Kinds
  /\ \A r \in Requests : r > called =>
       request[r].kind = "none" /\ answers[r] = <<>> /\ r \notin listening
  /\ \A r \in Requests : request[r].kind \in {"simple", "extended"} => request[r].statement = None
  /\ \A e \in Events : observers[e] \subseteq 0 .. called /\ (e # "closed" => 0 \notin observers[e])

Queued == Ordered(queryQueue, queue, called) /\ Tasks(queue, called)

\* What has the connection: a message to the server, its reply, the challenge
\* that the client has yet to answer, or nothing.
Turn ==
  /\ Len(toServer) <= 1
  /\ \A i, j \in 1 .. Len(inbound) :
       inbound[i].of = inbound[j].of /\ (i < j => inbound[i].type \notin Terminal)
  /\ \A i \in 1 .. Len(inbound) :
       /\ inbound[i].type \in Replied => inbound[i].of # 0
       /\ inbound[i].type \in {"challenge", "md5"} => inbound[i].of = 0
  /\ toServer # <<>> \/ inbound # <<>> \/ Has(queue, "challenge") => transactionStatus # "idle"
  /\ toServer # <<>> => inbound = <<>>
  /\ Has(queue, "challenge") => toServer = <<>> /\ inbound = <<>>
  /\ \A i, j \in 1 .. Len(queue) :
       queue[i].type = "challenge" /\ queue[j].type = "challenge" => i = j
  /\ link # "up" => toServer = <<>>

\* Nothing happens before startup.
Unstarted ==
  /\ connection = "none" <=> link = "none"
  /\ link = "none" =>
       /\ inbound = <<>> /\ reply[0] = <<>> /\ completion = "none" /\ ~ writeFailed
       /\ transactionStatus = "notReady" /\ preparedStatements = {}
       /\ \A i \in 1 .. Len(queue) : queue[i].type = "operation"

\* Requests follow the login.
LoggedIn ==
  /\ reply[0] \in {<<>>, <<"challenge">>, <<"md5">>, <<"ready">>, <<"fatal">>}
  /\ \A e \in Events : observers[e] \subseteq {0} \/ reply[0] = <<"ready">>
  /\ \A i \in 1 .. Len(toServer) :
       IF toServer[i].of = 0
       THEN /\ toServer[i].kind \in LoginKinds
            /\ reply[0] \in {<<>>, <<"challenge">>, <<"md5">>}
       ELSE toServer[i].kind \notin LoginKinds /\ reply[0] = <<"ready">>
  /\ \A i \in 1 .. Len(inbound) :
       IF inbound[i].of = 0 THEN reply[0] = <<inbound[i].type>> ELSE reply[0] = <<"ready">>
  /\ transactionStatus # "notReady" => reply[0] = <<"ready">>
  /\ Has(queue, "ready") => reply[0] = <<"ready">>
  /\ Has(queue, "challenge") => reply[0] = <<"challenge">>

\* The completion has been called, or will be before what follows on the queue.
Past == completion # "owed" \/ Has(queue, "ready")

Completed ==
  /\ CompletionReportsLogin
  /\ \A i \in 1 .. Len(toServer) : toServer[i].of # 0 => Past
  /\ \A i \in 1 .. Len(inbound) : inbound[i].of # 0 => Past
  /\ transactionStatus # "notReady" => Past
  /\ writeFailed => Past \/ LoginFailed
  /\ \A i \in 1 .. Len(queue) : queue[i].type \in {"error", "fatal"} =>
       \/ LoginFailed
       \/ completion # "owed" \/ \E j \in 1 .. i - 1 : queue[j].type = "ready"

\* The client's statements and the server's.
Parses ==
  /\ \A i \in 1 .. Len(toServer) :
       /\ toServer[i].of \in 0 .. called /\ ~ Pending(queryQueue, queue, toServer[i].of)
       /\ toServer[i].of # 0 => /\ toServer[i].statement = request[toServer[i].of].statement
                                /\ reply[toServer[i].of] = <<>>
       /\ toServer[i].of = 0 => ~ toServer[i].parse
       /\ toServer[i].parse /\ toServer[i].statement # None =>
            /\ toServer[i].statement \in preparedStatements
            /\ serverStatements[Name(toServer[i].statement)] = 0
  /\ \A n \in Names : serverStatements[n] # 0 => <<n, serverStatements[n]>> \in preparedStatements
  /\ \A r \in Requests : r > called \/ Pending(queryQueue, queue, r) => reply[r] = <<>>
  /\ StatementsAgree

\* Who observes has begun, and is waited for unless its Query is shared.
Told(r) == Shared(r) \/ (answers[r] = <<>> /\ r \in listening)

Observed ==
  /\ \A r \in Requests : Pending(queryQueue, queue, r) => ~ Running(r)
  /\ \A i \in 1 .. Len(queue) :
       queue[i].type # "operation" => ~ Pending(queryQueue, queue, queue[i].id)
  /\ \A r \in Requests : request[r].kind \in ExecKinds =>
       /\ Pending(queryQueue, queue, r) \/ Running(r) => Told(r)
       /\ Running(r) => \A e \in ExecEvents \ {"description"} : r \in observers[e]

Inv ==
  /\ Typed /\ Asked /\ Queued /\ Turn /\ Unstarted /\ LoggedIn /\ Completed
  /\ Parses /\ Observed

-----------------------------------------------------------------------------
(***************************************************************************)
(* The effects of the steps, in the terms of the invariant.                *)
(***************************************************************************)

\* The connection is lost, in one step or in two.
Loses(new) ==
  /\ link \in {"up", "broken"} /\ link' \in {"broken", "down"}
  /\ inbound' \in Seq(MessageRecords) /\ Len(inbound') <= Len(inbound)
  /\ \A i \in 1 .. Len(inbound') : i \in 1 .. Len(inbound) /\ inbound'[i] = inbound[i]
  /\ toServer' = <<>>
  /\ writeFailed' \in BOOLEAN /\ (writeFailed' => writeFailed \/ toServer # <<>>)
  /\ new \in Seq(TaskRecords) /\ queue' = queue \o new
  /\ \A i \in 1 .. Len(new) :
       new[i].type = "closed" /\ new[i].of = 0 /\ new[i].id \in observers["closed"]
  /\ UNCHANGED <<programVars, clientVars, observers, gathered, transactionStatus,
                 closing, serverVars>>

\* A write that failed is reported to the observer of startup.
Reports(new) ==
  /\ writeFailed /\ writeFailed' = FALSE
  /\ new = <<Task("error", 0, 0)>> /\ queue' = queue \o new
  /\ UNCHANGED <<programVars, clientVars, observers, gathered, transactionStatus,
                 inbound, socketVars, toServer, serverVars>>

\* A message is processed; its tasks are of its type, or of that of an error.
Processes(new) ==
  /\ inbound # <<>> /\ inbound' = Tail(inbound)
  /\ new \in Seq(TaskRecords) /\ queue' = queue \o new
  /\ \A i \in 1 .. Len(new) :
       /\ new[i].of = Head(inbound).of
       /\ \/ new[i].type = Head(inbound).type
          \/ /\ new[i].type = "error" /\ Head(inbound).type = "fatal"
             /\ new[i].id \in observers["error"]
          \/ new[i].type = "ready" /\ Head(inbound).type = "begun"
       /\ \/ /\ new[i].type \in Events \cup {"uncounted"}
             /\ new[i].id \in observers[EventOf(new[i].type)]
          \/ new[i].type \in {"error", "fatal", "ready", "challenge"} /\ new[i].id = 0
  /\ Has(new, "challenge") => Len(new) = 1
  /\ Head(inbound).type \in {"ready", "begun"} => Has(new, "ready")
  /\ transactionStatus' = IF Head(inbound).type = "ready" THEN "idle"
                          ELSE IF Head(inbound).type = "begun" THEN "inTransaction"
                          ELSE transactionStatus
  /\ Head(inbound).type = "md5" => Send("password", 0, None, FALSE)
  /\ Head(inbound).type # "md5" => UNCHANGED <<toServer, writeFailed>>
  /\ UNCHANGED <<programVars, clientVars, observers, gathered, socketVars, serverVars>>

\* The server replies, to the login with one message.
Burst(types) ==
  /\ types \in Seq(MessageTypes) /\ types # <<>>
  /\ \A i \in 1 .. Len(types) :
       /\ types[i] \notin {"challenge", "md5"}
       /\ i < Len(types) => types[i] \in Replied

RepliesToLogin(types) ==
  /\ toServer[1].of = 0
  /\ \E x \in {"challenge", "md5", "ready", "fatal"} : types = <<x>>
  /\ UNCHANGED serverStatements

RepliesToRequest(b, types) ==
  /\ b.of # 0 /\ Burst(types)
  /\ \/ /\ b.parse => types = <<"error", "ready">> \/ b.statement = None
        /\ UNCHANGED serverStatements
     \/ /\ b.parse /\ b.statement # None /\ ~ Taken(b)
        /\ serverStatements' =
             [serverStatements EXCEPT ![Name(b.statement)] = b.statement[2]]

ServerReplies(types) ==
  /\ link = "up" /\ toServer # <<>> /\ toServer' = Tail(toServer)
  /\ RepliesToLogin(types) \/ RepliesToRequest(toServer[1], types)
  /\ inbound' = inbound \o [i \in DOMAIN types |-> Message(types[i], toServer[1].of)]
  /\ reply' = [reply EXCEPT ![toServer[1].of] = types]
  /\ closing' \in BOOLEAN
  /\ UNCHANGED <<programVars, queue, clientVars, observers, gathered,
                 transactionStatus, link, writeFailed>>

\* An operation is begun: it is skipped, or sends something.
Skips(r) == \E t \in {"alreadyPrepared", "nameExists"} : Skip(r, t)

Sends(r) ==
  \E parse \in BOOLEAN :
    /\ request[r].kind = "prepare" => parse
    /\ Observe(r, IF request[r].kind = "prepare" THEN PrepareEvents ELSE ExecEvents)
    /\ transactionStatus' = "notReady"
    /\ Send(request[r].kind, r, request[r].statement, parse)
    /\ IF parse /\ request[r].statement # None
       THEN /\ ~ NameTaken(request[r].statement)
            /\ preparedStatements' = preparedStatements \cup {request[r].statement}
       ELSE UNCHANGED preparedStatements
    /\ UNCHANGED <<answers, listening>>

Begins(ops) ==
  /\ connection = "open" /\ transactionStatus = "idle" /\ ops # <<>>
  /\ queryQueue' = Tail(ops)
  /\ Skips(Head(ops)) \/ Sends(Head(ops))

Rests(ops) ==
  /\ queryQueue' = ops
  /\ UNCHANGED <<answers, listening, preparedStatements, observers,
                 transactionStatus, toServer, writeFailed>>

\* A task that may begin an operation.
Executed(ops) ==
  /\ queue # <<>> /\ queue' = Tail(queue)
  /\ \/ /\ Head(queue).type = "operation" /\ ops = Append(queryQueue, Head(queue).id)
        /\ completion' = completion
     \/ /\ Head(queue).type = "ready" /\ ops = queryQueue
        /\ completion' = IF completion = "owed" THEN "succeeded" ELSE completion
  /\ Begins(ops) \/ Rests(ops)
  /\ UNCHANGED <<called, request, inbound, link, serverVars, connection, gathered, closing>>

\* A task of an observer of exec or prepare.
Gathers(r) ==
  /\ \A e \in Events \ {"description"} : observers'[e] = observers[e]
  /\ observers'["description"] \subseteq observers["description"]
  /\ observers' \in [Events -> SUBSET (0 .. MaxRequests)]
  /\ UNCHANGED <<answers, listening>>

Concludes(r) ==
  /\ \E answer \in AnswerRecords : Conclude(r, answer)
  /\ Forget(r)

ObserverRuns ==
  /\ queue # <<>> /\ queue' = Tail(queue)
  /\ Head(queue).type \in Events \cup {"uncounted"} /\ Head(queue).id \in Requests
  /\ Gathers(Head(queue).id) \/ Concludes(Head(queue).id)
  /\ fields' \in [Requests -> 0 .. MaxRequests] /\ rows' \in [Requests -> Seq(Requests)]
  /\ UNCHANGED <<called, request, inbound, link, serverVars, clientVars,
                 transactionStatus, closing, toServer, writeFailed>>

\* A call is enqueued, or answered at once with the others waiting for its Query.
Calls(r, x) ==
  /\ r \in Requests /\ r = called + 1 /\ called' = r
  /\ request' = [request EXCEPT ![r] = x]
  /\ x \in [kind : Kinds, query : 0 .. MaxRequests, statement : Statements \cup {None}]
  /\ x.kind \in {"simple", "extended"} => x.statement = None
  /\ x.kind # "prepare" => x.query \in QueriesFor(r)
  /\ \/ /\ queue' = Append(queue, Task("operation", r, 0)) /\ answers' = answers
        /\ listening' = IF x.kind = "prepare" THEN listening ELSE listening \cup {r}
     \/ /\ x.kind # "prepare" /\ queue' = queue
        /\ Tell(Listeners(x.query) \cup {r}, Answer("notConnected", 0))
  /\ UNCHANGED <<clientVars, observers, gathered, transactionStatus, inbound,
                 socketVars, toServer, writeFailed, serverVars>>

LEMMA Constants ==
  /\ MaxRequests \in Nat /\ Requests = 1 .. MaxRequests /\ Versions \in Nat
  /\ "none" \notin Kinds /\ Kinds \subseteq ExecKinds \cup {"prepare"}
  /\ None \notin Statements
<1>1. MaxRequests \in Nat /\ Versions \in Nat /\ Kinds \subseteq ExecKinds \cup {"prepare"}
  BY ClientAssumption
<1>2. "none" \notin Kinds
  BY <1>1 DEF ExecKinds
<1>3. None \notin Statements
  <2>1. None[2] = 0
    BY DEF None
  <2>2. \A s \in Statements : s[2] \in 1 .. Versions
    BY DEF Statements
  <2> QED  BY <1>1, <2>1, <2>2
<1> QED  BY <1>1, <1>2, <1>3 DEF Requests

LEMMA SendFacts ==
  ASSUME writeFailed \in BOOLEAN, NEW kind, NEW r, NEW s, NEW parse, Send(kind, r, s, parse)
  PROVE  writeFailed' \in BOOLEAN /\ (writeFailed' => writeFailed \/ link # "up")
BY DEF Send

LEMMA SocketEffect ==
  ASSUME Inv, Socket
  PROVE  \E new \in Seq(TaskRecords) : Loses(new) \/ Reports(new)
<1>1. /\ queue \in Seq(TaskRecords) /\ inbound \in Seq(MessageRecords)
      /\ observers["closed"] \subseteq 0 .. MaxRequests /\ 0 \in 0 .. MaxRequests
      /\ "closed" \in Events /\ <<>> \in Seq(TaskRecords)
  BY Constants DEF Inv, Typed, Events
<1>2. ASSUME Emit("closed", 0, <<>>)
      PROVE  \E new \in Seq(TaskRecords) :
               /\ queue' = queue \o new
               /\ \A i \in 1 .. Len(new) :
                    new[i].type = "closed" /\ new[i].of = 0 /\ new[i].id \in observers["closed"]
  <2>1. EventOf("closed") = "closed"
    BY EventOfFacts
  <2>2. PICK new \in Seq(TaskRecords) : Emitted("closed", 0, <<>>, new)
    BY <1>1, <1>2, <2>1, EmitFacts
  <2>3. new \o <<>> = new
    OBVIOUS
  <2> QED  BY <2>1, <2>2, <2>3 DEF Emitted
<1>3. ASSUME NEW l \in {"broken", "down"}, link = "up", Cut(l)
      PROVE  \E new \in Seq(TaskRecords) : Loses(new)
  <2>1. PICK n \in 0 .. Len(inbound) : inbound' = SubSeq(inbound, 1, n)
    BY <1>3 DEF Cut
  <2>2. /\ inbound' \in Seq(MessageRecords) /\ Len(inbound') <= Len(inbound)
        /\ \A i \in 1 .. Len(inbound') : i \in 1 .. Len(inbound) /\ inbound'[i] = inbound[i]
    BY <1>1, <2>1
  <2>3. writeFailed' \in BOOLEAN /\ (writeFailed' => writeFailed \/ toServer # <<>>)
    BY <1>3 DEF Cut, Inv, Typed
  <2> QED  BY <1>2, <1>3, <2>2, <2>3 DEF Cut, Loses
<1>4. CASE Close \/ Break
  BY <1>3, <1>4 DEF Close, Break
<1>5. CASE CloseAgain
  <2>1. toServer' = <<>> /\ inbound' = inbound /\ writeFailed' = writeFailed
        /\ writeFailed \in BOOLEAN
    BY <1>5 DEF CloseAgain, Inv, Turn, Typed
  <2>2. inbound' \in Seq(MessageRecords) /\ Len(inbound') <= Len(inbound)
        /\ \A i \in 1 .. Len(inbound') : i \in 1 .. Len(inbound) /\ inbound'[i] = inbound[i]
    BY <1>1, <2>1
  <2>3. PICK new \in Seq(TaskRecords) :
          /\ queue' = queue \o new
          /\ \A i \in 1 .. Len(new) :
               new[i].type = "closed" /\ new[i].of = 0 /\ new[i].id \in observers["closed"]
    BY <1>2, <1>5 DEF CloseAgain
  <2>4. Loses(new)
    BY <1>5, <2>1, <2>2, <2>3 DEF CloseAgain, Loses
  <2> QED  BY <2>4
<1>6. CASE ReportFailedWrite
  <2> DEFINE x == Task("error", 0, 0)
  <2>1. x \in TaskRecords
    BY <1>1 DEF Task, TaskRecords, TaskTypes, Events
  <2>2. <<x>> \in Seq(TaskRecords) /\ queue' = queue \o <<x>>
    BY <1>1, <1>6, <2>1 DEF ReportFailedWrite
  <2>3. Reports(<<x>>)
    BY <1>6, <2>2 DEF ReportFailedWrite, Reports
  <2> QED  BY <2>2, <2>3
<1> QED  BY <1>4, <1>5, <1>6 DEF Socket

LEMMA ProcessEffect ==
  ASSUME Inv, Process
  PROVE  \E new \in Seq(TaskRecords) : Processes(new)
<1> DEFINE m == Head(inbound)
<1>1. /\ queue \in Seq(TaskRecords) /\ inbound \in Seq(MessageRecords)
      /\ \A e \in Events : observers[e] \subseteq 0 .. MaxRequests
      /\ 0 \in 0 .. MaxRequests
  BY Constants DEF Inv, Typed
<1>2. inbound # <<>>
  BY DEF Process, ProcessEvent, ProcessError, ProcessReadyForQuery,
         ProcessCleartextPassword, ProcessMD5Password, Received
<1>3. m \in MessageRecords /\ m = inbound[1] /\ 1 \in 1 .. Len(inbound)
  BY <1>1, <1>2
<1>4. m.of \in 0 .. MaxRequests /\ m.type \in MessageTypes
  BY <1>3 DEF MessageRecords
<1>5. CASE ProcessEvent
  <2>1. m.type \in {"description", "row", "complete", "uncounted", "parseComplete"}
        /\ m.type \in Events \cup {"uncounted"} /\ EventOf(m.type) \in Events
        /\ Emit(m.type, m.of, <<>>) /\ <<>> \in Seq(TaskRecords)
    BY <1>5, EventOfFacts DEF ProcessEvent, Received, Events
  <2>2. PICK new \in Seq(TaskRecords) : Emitted(m.type, m.of, <<>>, new)
    BY <1>1, <1>4, <2>1, EmitFacts
  <2>3. new \o <<>> = new /\ ~ Has(new, "challenge")
    BY <2>1, <2>2 DEF Emitted, Has
  <2>4. Processes(new)
    BY <1>2, <1>5, <2>1, <2>2, <2>3 DEF ProcessEvent, Processed, Processes, Emitted
  <2> QED  BY <2>4
<1>6. CASE ProcessError
  <2> DEFINE x == Task(IF m.type = "fatal" THEN "fatal" ELSE "error", 0, m.of)
  <2>1. m.type \in {"error", "fatal"} /\ "error" \in Events /\ Emit("error", m.of, <<x>>)
        /\ EventOf("error") = "error"
    BY <1>6, EventOfFacts DEF ProcessError, Received, Events
  <2>2. x \in TaskRecords /\ x.id = 0 /\ x.of = m.of
        /\ x.type = IF m.type = "fatal" THEN "fatal" ELSE "error"
    BY <1>1, <1>4 DEF Task, TaskRecords, TaskTypes, Events
  <2> HIDE DEF x
  <2>3. PICK new \in Seq(TaskRecords) : Emitted("error", m.of, <<x>>, new)
    <3>1. <<x>> \in Seq(TaskRecords)
      BY <2>2
    <3> QED  BY <1>1, <1>4, <2>1, <3>1, EmitFacts
  <2>4. /\ new \o <<x>> \in Seq(TaskRecords)
        /\ \A i \in 1 .. Len(new \o <<x>>) : i \in 1 .. Len(new) \/ (new \o <<x>>)[i] = x
        /\ \A i \in 1 .. Len(new) : (new \o <<x>>)[i] = new[i]
    BY <2>2, <2>3
  <2>5. \A i \in 1 .. Len(new \o <<x>>) :
          LET t == (new \o <<x>>)[i]
          IN /\ t.of = m.of
             /\ \/ t.type = m.type
                \/ t.type = "error" /\ m.type = "fatal" /\ t.id \in observers["error"]
             /\ \/ /\ t.type \in Events \cup {"uncounted"}
                   /\ t.id \in observers[EventOf(t.type)]
                \/ t.type \in {"error", "fatal"} /\ t.id = 0
    BY <2>1, <2>2, <2>3, <2>4 DEF Emitted
  <2>6. ~ Has(new \o <<x>>, "challenge")
    BY <2>1, <2>5 DEF Has
  <2>7. Processes(new \o <<x>>)
    BY <1>2, <1>6, <2>1, <2>3, <2>4, <2>5, <2>6
       DEF ProcessError, Processed, Processes, Emitted
  <2> QED  BY <2>4, <2>7
<1>7. CASE ProcessReadyForQuery
  <2> DEFINE x == Task("ready", 0, m.of)
  <2>1. m.type \in {"ready", "begun"} /\ queue' = queue \o <<x>>
    BY <1>1, <1>7 DEF ProcessReadyForQuery, Received
  <2>2. x \in TaskRecords /\ x.id = 0 /\ x.of = m.of /\ x.type = "ready"
    BY <1>1, <1>4 DEF Task, TaskRecords, TaskTypes
  <2> HIDE DEF x
  <2> DEFINE new == <<x>>
  <2>3. new \in Seq(TaskRecords) /\ Len(new) = 1 /\ new[1] = x
    BY <2>2
  <2>4. queue' = queue \o new
    BY <2>1
  <2> HIDE DEF new
  <2>5. Has(new, "ready") /\ ~ Has(new, "challenge")
    BY <2>2, <2>3 DEF Has
  <2>6. \A i \in 1 .. Len(new) : new[i].type = "ready" /\ new[i].id = 0 /\ new[i].of = m.of
    BY <2>2, <2>3
  <2>7. /\ inbound' = Tail(inbound) /\ UNCHANGED <<toServer, writeFailed>>
        /\ transactionStatus' = IF m.type = "ready" THEN "idle" ELSE "inTransaction"
        /\ UNCHANGED <<programVars, clientVars, observers, gathered, socketVars, serverVars>>
    BY <1>7 DEF ProcessReadyForQuery, Processed
  <2>8. Processes(new)
    BY <1>2, <2>1, <2>3, <2>4, <2>5, <2>6, <2>7 DEF Processes
  <2> QED  BY <2>3, <2>8
<1>8. CASE ProcessCleartextPassword
  <2> DEFINE x == Task("challenge", 0, 0)
  <2>1. m.type = "challenge" /\ queue' = queue \o <<x>>
    BY <1>1, <1>8 DEF ProcessCleartextPassword, Received
  <2>2. x \in TaskRecords /\ x.id = 0 /\ x.of = 0 /\ x.type = "challenge"
    BY <1>1 DEF Task, TaskRecords, TaskTypes
  <2> HIDE DEF x
  <2> DEFINE new == <<x>>
  <2>3. new \in Seq(TaskRecords) /\ Len(new) = 1 /\ new[1] = x
    BY <2>2
  <2>4. queue' = queue \o new
    BY <2>1
  <2> HIDE DEF new
  <2>5. m.of = 0
    BY <1>3, <2>1 DEF Inv, Turn
  <2>6. \A i \in 1 .. Len(new) :
          new[i].type = "challenge" /\ new[i].id = 0 /\ new[i].of = m.of
    BY <2>2, <2>3, <2>5
  <2>7. /\ inbound' = Tail(inbound) /\ UNCHANGED <<toServer, writeFailed>>
        /\ transactionStatus' = transactionStatus
        /\ UNCHANGED <<programVars, clientVars, observers, gathered, socketVars, serverVars>>
    BY <1>8 DEF ProcessCleartextPassword, Processed
  <2>8. Processes(new)
    BY <1>2, <2>1, <2>3, <2>4, <2>6, <2>7 DEF Processes
  <2> QED  BY <2>3, <2>8
<1>9. CASE ProcessMD5Password
  <2> DEFINE new == <<>>
  <2>1. new \in Seq(TaskRecords) /\ Len(new) = 0
    OBVIOUS
  <2>2. m.type = "md5" /\ queue' = queue \o new
    BY <1>1, <1>9 DEF ProcessMD5Password, Received
  <2> HIDE DEF new
  <2>3. ~ Has(new, "challenge")
    BY <2>1 DEF Has
  <2>4. /\ inbound' = Tail(inbound) /\ Send("password", 0, None, FALSE)
        /\ transactionStatus' = transactionStatus
        /\ UNCHANGED <<programVars, clientVars, observers, gathered, socketVars, serverVars>>
    BY <1>9 DEF ProcessMD5Password, Processed
  <2>5. Head(inbound).type = "md5" /\ \A i \in 1 .. Len(new) : FALSE
    BY <2>1, <2>2
  <2>6. Processes(new)
    BY <1>2, <2>1, <2>2, <2>3, <2>4, <2>5 DEF Processes
  <2> QED  BY <2>1, <2>6
<1> QED  BY <1>5, <1>6, <1>7, <1>8, <1>9 DEF Process

LEMMA BurstFacts ==
  ASSUME NEW p \in Seq(Replied), NEW x \in {"ready", "begun", "fatal"}
  PROVE  Burst(p \o <<x>>)
<1>1. /\ p \in Seq(MessageTypes) /\ <<x>> \in Seq(MessageTypes)
      /\ \A i \in 1 .. Len(p) : p[i] \in Replied
  <2>1. Replied \subseteq MessageTypes /\ x \in MessageTypes
    BY DEF Replied, MessageTypes
  <2>2. \A i \in 1 .. Len(p) : p[i] \in Replied
    OBVIOUS
  <2>3. p \in Seq(MessageTypes)
    <3>1. Len(p) \in Nat /\ p = [i \in 1 .. Len(p) |-> p[i]]
      OBVIOUS
    <3>2. [i \in 1 .. Len(p) |-> p[i]] \in Seq(MessageTypes)
      BY <2>1, <2>2, <3>1
    <3> QED  BY <3>1, <3>2
  <2> QED  BY <2>1, <2>2, <2>3
<1>2. /\ p \o <<x>> \in Seq(MessageTypes) /\ Len(p \o <<x>>) = Len(p) + 1 /\ Len(p) \in Nat
      /\ \A i \in 1 .. Len(p) : (p \o <<x>>)[i] = p[i]
      /\ (p \o <<x>>)[Len(p) + 1] = x
  BY <1>1
<1> DEFINE q == p \o <<x>>
<1> HIDE DEF q
<1>3. ASSUME NEW i \in 1 .. Len(q)
      PROVE  /\ q[i] \notin {"challenge", "md5"}
             /\ i < Len(q) => q[i] \in Replied
  <2>1. CASE i \in 1 .. Len(p)
    BY <1>1, <1>2, <2>1 DEF q, Replied
  <2>2. CASE i = Len(p) + 1
    BY <1>2, <2>2 DEF q
  <2> QED  BY <1>2, <2>1, <2>2 DEF q
<1>4. q # <<>>
  BY <1>2 DEF q
<1> QED  BY <1>2, <1>3, <1>4 DEF Burst, q

LEMMA RepliedSequences ==
  /\ <<>> \in Seq(Replied) /\ <<"error">> \in Seq(Replied) /\ <<"complete">> \in Seq(Replied)
  /\ <<"uncounted">> \in Seq(Replied)
  /\ <<"parseComplete">> \in Seq(Replied)
  /\ <<"description", "row", "row", "complete">> \in Seq(Replied)
  /\ <<"description", "row", "error">> \in Seq(Replied)
<1>1. /\ "error" \in Replied /\ "complete" \in Replied /\ "parseComplete" \in Replied
      /\ "description" \in Replied /\ "row" \in Replied /\ "uncounted" \in Replied
  BY DEF Replied
<1> QED  BY <1>1

LEMMA ErrorBurst == Burst(<<"error", "ready">>)
<1> DEFINE q == <<"error", "ready">>
<1>1. q[1] = "error" /\ q[2] = "ready" /\ Len(q) = 2
  OBVIOUS
<1>2. q \in Seq(MessageTypes)
  BY DEF MessageTypes
<1> HIDE DEF q
<1>3. q # <<>> /\ \A i \in 1 .. Len(q) : i = 1 \/ i = 2
  BY <1>1
<1> QED  BY <1>1, <1>2, <1>3 DEF Burst, Replied, q

LEMMA ServeEffect ==
  ASSUME Inv, Serve
  PROVE  \E types : ServerReplies(types)
<1> DEFINE b == toServer[1]
<1>1. toServer # <<>> /\ b \in BodyRecords /\ 1 \in 1 .. Len(toServer)
  BY DEF Serve, Inv, Typed
<1>2. IF b.of = 0 THEN b.kind \in LoginKinds ELSE b.kind \notin LoginKinds
  BY <1>1 DEF Inv, LoggedIn
<1>3. ASSUME NEW types, NEW r, ReplyTo(r, types),
             RepliesToLogin(types) \/ RepliesToRequest(b, types)
      PROVE  ServerReplies(types)
  <2>1. closing' \in BOOLEAN
    BY <1>3 DEF ReplyTo, Inv, Typed
  <2> QED  BY <1>3, <2>1 DEF ReplyTo, ServerReplies
<1>4. CASE b.kind \in LoginKinds /\ ServeLogin
  <2>1. PICK x \in {"challenge", "md5", "ready", "fatal"} : ReplyTo(0, <<x>>)
    BY <1>4 DEF ServeLogin
  <2>2. RepliesToLogin(<<x>>)
    BY <1>2, <1>4 DEF ServeLogin, RepliesToLogin
  <2> QED  BY <1>3, <2>1, <2>2
<1>5. CASE b.kind \notin LoginKinds /\ ServeParseError(b)
  <2>1. Burst(<<"error", "ready">>)
    BY ErrorBurst
  <2>2. RepliesToRequest(b, <<"error", "ready">>)
    BY <1>2, <1>5, <2>1 DEF ServeParseError, RepliesToRequest
  <2> QED  BY <1>3, <1>5, <2>2 DEF ServeParseError
<1>6. CASE b.kind \notin LoginKinds /\ ServeUnknown(b)
  <2>1. Burst(<<"error", "ready">>)
    BY ErrorBurst
  <2>2. RepliesToRequest(b, <<"error", "ready">>)
    BY <1>2, <1>6, <2>1 DEF ServeUnknown, RepliesToRequest
  <2> QED  BY <1>3, <1>6, <2>2 DEF ServeUnknown
<1>7. Parsed(b) \in Seq(Replied)
  BY RepliedSequences DEF Parsed
<1>8. ASSUME Defines(b), b.kind \notin LoginKinds, NEW types, Burst(types)
      PROVE  RepliesToRequest(b, types)
  BY <1>2, <1>8 DEF Defines, RepliesToRequest
<1>9. CASE b.kind \notin LoginKinds /\ ServePrepare(b)
  <2>1. Burst(Parsed(b) \o <<"ready">>)
    BY <1>7, BurstFacts
  <2> QED  BY <1>3, <1>8, <1>9, <2>1 DEF ServePrepare
<1>10. CASE b.kind \notin LoginKinds /\ ServeExec(b)
  <2>1. PICK answer \in QueryReplies :
           ReplyTo(b.of, Parsed(b) \o Body[answer]
             \o (CASE answer = "fatal" -> <<>> [] answer = "begin" -> <<"begun">>
                   [] OTHER -> <<"ready">>))
    BY <1>10 DEF ServeExec
  <2>2. CASE answer = "fatal"
    <3>1. Parsed(b) \o Body[answer]
             \o (CASE answer = "fatal" -> <<>> [] answer = "begin" -> <<"begun">>
                   [] OTHER -> <<"ready">>) = Parsed(b) \o <<"fatal">>
      <4>1. Body[answer] = <<"fatal">>
        BY <2>2 DEF Body
      <4>2. (Parsed(b) \o <<"fatal">>) \o <<>> = Parsed(b) \o <<"fatal">>
        BY <1>7
      <4> QED  BY <2>2, <4>1, <4>2
    <3>2. Burst(Parsed(b) \o <<"fatal">>)
      BY <1>7, BurstFacts
    <3> QED  BY <1>3, <1>8, <1>10, <2>1, <3>1, <3>2 DEF ServeExec
  <2>3. CASE answer # "fatal"
    <3>1. Body[answer] \in Seq(Replied)
      <4>1. /\ Body["command"] = <<"complete">> /\ Body["error"] = <<"error">>
            /\ Body["rows"] = <<"description", "row", "row", "complete">>
            /\ Body["lateError"] = <<"description", "row", "error">>
            /\ Body["setting"] = <<"uncounted">> /\ Body["begin"] = <<"uncounted">>
            /\ Body["empty"] = <<>>
        BY DEF Body
      <4>2. answer \in {"command", "rows", "error", "lateError", "setting", "begin", "empty"}
        BY <2>3 DEF QueryReplies
      <4> QED  BY <4>1, <4>2, RepliedSequences
    <3>2. Parsed(b) \o Body[answer] \in Seq(Replied)
      BY <1>7, <3>1
    <3>3. PICK x \in {"ready", "begun"} :
            ReplyTo(b.of, Parsed(b) \o Body[answer] \o <<x>>)
      BY <2>1, <2>3
    <3>4. Burst(Parsed(b) \o Body[answer] \o <<x>>)
      BY <3>2, BurstFacts
    <3> QED  BY <1>3, <1>8, <1>10, <3>3, <3>4 DEF ServeExec
  <2> QED  BY <2>2, <2>3
<1> QED  BY <1>1, <1>4, <1>5, <1>6, <1>9, <1>10 DEF Serve

-----------------------------------------------------------------------------
(***************************************************************************)
(* The steps keep the invariant.                                           *)
(***************************************************************************)
LEMMA EnqueueFacts ==
  ASSUME Inv, NEW new \in Seq(TaskRecords), queue' = queue \o new, ~ Has(new, "operation")
  PROVE  /\ queue' \in Seq(TaskRecords) /\ Len(queue) \in Nat
         /\ \A i \in 1 .. Len(queue) : i \in 1 .. Len(queue') /\ queue'[i] = queue[i]
         /\ \A i \in 1 .. Len(queue') :
              \/ i \in 1 .. Len(queue) /\ queue'[i] = queue[i]
              \/ \E j \in 1 .. Len(new) : i = Len(queue) + j /\ queue'[i] = new[j]
         /\ \A t : Has(queue', t) <=> Has(queue, t) \/ Has(new, t)
         /\ Ordered(queryQueue, queue', called)
         /\ \A r : Pending(queryQueue, queue', r) <=> Pending(queryQueue, queue, r)
<1>1. /\ queue \in Seq(TaskRecords) /\ queryQueue \in Seq(Requests) /\ called \in Nat
      /\ Ordered(queryQueue, queue, called)
  BY Constants DEF Inv, Typed, Queued
<1>2. /\ Len(queue') = Len(queue) + Len(new) /\ Len(queue) \in Nat /\ Len(new) \in Nat
      /\ \A i \in 1 .. Len(queue) : queue'[i] = queue[i]
      /\ \A i \in Len(queue) + 1 .. Len(queue) + Len(new) : queue'[i] = new[i - Len(queue)]
      /\ queue' \in Seq(TaskRecords)
  BY <1>1, ConcatFacts
<1>3. ASSUME NEW i \in 1 .. Len(queue')
      PROVE  \/ i \in 1 .. Len(queue) /\ queue'[i] = queue[i]
             \/ \E j \in 1 .. Len(new) : i = Len(queue) + j /\ queue'[i] = new[j]
  <2>1. CASE i > Len(queue)
    <3>1. i - Len(queue) \in 1 .. Len(new) /\ queue'[i] = new[i - Len(queue)]
          /\ i = Len(queue) + (i - Len(queue))
      BY <1>2, <2>1
    <3> QED  BY <3>1
  <2> QED  BY <1>2, <2>1
<1>4. \A i \in 1 .. Len(queue) : i \in 1 .. Len(queue') /\ queue'[i] = queue[i]
  BY <1>2
<1>5. \A t : Has(queue', t) <=> Has(queue, t) \/ Has(new, t)
  BY <1>1, HasConcat
<1>6. /\ Ordered(queryQueue, queue', called)
      /\ \A r : Pending(queryQueue, queue', r) <=> Pending(queryQueue, queue, r)
  BY <1>1, OrderedConcat
<1> QED  BY <1>2, <1>3, <1>4, <1>5, <1>6

LEMMA DequeueFacts ==
  ASSUME Inv, queue # <<>>, queue' = Tail(queue)
  PROVE  /\ queue' \in Seq(TaskRecords) /\ Head(queue) = queue[1] /\ 1 \in 1 .. Len(queue)
         /\ Head(queue) \in TaskRecords
         /\ \A i \in 1 .. Len(queue') : i + 1 \in 1 .. Len(queue) /\ queue'[i] = queue[i + 1]
         /\ \A i \in 2 .. Len(queue) : i - 1 \in 1 .. Len(queue') /\ queue'[i - 1] = queue[i]
<1>1. queue \in Seq(TaskRecords)
  BY DEF Inv, Typed
<1>2. /\ queue' \in Seq(TaskRecords) /\ Len(queue') = Len(queue) - 1 /\ Len(queue) \in Nat \ {0}
      /\ \A i \in 1 .. Len(queue) - 1 : queue'[i] = queue[i + 1]
      /\ Head(queue) = queue[1] /\ Head(queue) \in TaskRecords
  BY <1>1, TailFacts
<1>3. \A i \in 2 .. Len(queue) : i - 1 \in 1 .. Len(queue') /\ queue'[i - 1] = queue[i]
  BY <1>2
<1>4. \A i \in 1 .. Len(queue') : i + 1 \in 1 .. Len(queue) /\ queue'[i] = queue[i + 1]
  BY <1>2
<1> QED  BY <1>2, <1>3, <1>4

LEMMA DequeueHas ==
  ASSUME Inv, queue # <<>>, queue' = Tail(queue), NEW t
  PROVE  /\ Has(queue', t) => Has(queue, t)
         /\ Has(queue, t) => Has(queue', t) \/ Head(queue).type = t
         /\ Head(queue).type = t => Has(queue, t)
  BY HasTail DEF Inv, Typed

LEMMA DequeueOperations ==
  ASSUME Inv, queue # <<>>, queue' = Tail(queue)
  PROVE  /\ Ordered(queryQueue, queue', called)
         /\ Head(queue).type # "operation" =>
              \A r : Pending(queryQueue, queue', r) <=> Pending(queryQueue, queue, r)
  BY Constants, OrderedTail DEF Inv, Typed, Queued

\* No observer of an event is an operation that was not begun.
LEMMA NotPending ==
  ASSUME Inv, NEW e \in Events, NEW r \in observers[e]
  PROVE  ~ Pending(queryQueue, queue, r)
<1>1. r \in 0 .. called /\ called \in 0 .. MaxRequests
  BY DEF Inv, Asked, Typed
<1>2. CASE r = 0
  BY <1>1, <1>2 DEF Inv, Queued, Ordered, Pending
<1>3. CASE r # 0
  <2>1. r \in Requests /\ Running(r)
    BY <1>1, <1>3, Constants DEF Running
  <2> QED  BY <2>1 DEF Inv, Observed
<1> QED  BY <1>2, <1>3

LEMMA ZeroNotPending ==
  ASSUME Inv
  PROVE  ~ Pending(queryQueue, queue, 0)
<1>1. /\ \A i \in 1 .. Len(queryQueue) : queryQueue[i] \in 1 .. called
      /\ \A i \in 1 .. Len(queue) : queue[i].type = "operation" => queue[i].id \in 1 .. called
  BY DEF Inv, Queued, Ordered
<1>2. 0 \notin 1 .. called
  OBVIOUS
<1> QED  BY <1>1, <1>2 DEF Pending

LEMMA LosesKeeps ==
  ASSUME Inv, NEW new \in Seq(TaskRecords), Loses(new)
  PROVE  Inv'
<1>1. \A t : t # "closed" => ~ Has(new, t)
  BY DEF Loses, Has
<1>2. /\ queue' \in Seq(TaskRecords) /\ Len(queue) \in Nat
      /\ \A i \in 1 .. Len(queue) : i \in 1 .. Len(queue') /\ queue'[i] = queue[i]
      /\ \A i \in 1 .. Len(queue') :
           \/ i \in 1 .. Len(queue) /\ queue'[i] = queue[i]
           \/ queue'[i].type = "closed" /\ queue'[i].id \in observers["closed"]
      /\ \A t : t # "closed" => (Has(queue', t) <=> Has(queue, t))
      /\ Ordered(queryQueue, queue', called)
      /\ \A r : Pending(queryQueue, queue', r) <=> Pending(queryQueue, queue, r)
  <2>1. queue' = queue \o new
    BY DEF Loses
  <2>2. \A i \in 1 .. Len(queue') :
           \/ i \in 1 .. Len(queue) /\ queue'[i] = queue[i]
           \/ \E j \in 1 .. Len(new) : queue'[i] = new[j]
    BY <1>1, <2>1, EnqueueFacts
  <2>3. \A i \in 1 .. Len(new) :
           new[i].type = "closed" /\ new[i].id \in observers["closed"]
    BY DEF Loses
  <2>4. \A i \in 1 .. Len(queue') :
           \/ i \in 1 .. Len(queue) /\ queue'[i] = queue[i]
           \/ queue'[i].type = "closed" /\ queue'[i].id \in observers["closed"]
    BY <2>2, <2>3
  <2> QED  BY <1>1, <2>1, <2>4, EnqueueFacts
<1>3. Typed'
  <2>1. Typed
    BY DEF Inv
  <2> QED  BY <1>2, <2>1, SMTT(30) DEF Typed, Loses, programVars, clientVars, gathered, serverVars
<1>4. Asked'
  BY DEF Inv, Asked, Loses, programVars, clientVars, gathered, serverVars
<1>5. Queued'
  <2>1. Tasks(queue', called)
    BY <1>2 DEF Inv, Queued, Asked, Tasks, Events, Replied
  <2> QED  BY <1>2, <2>1 DEF Queued, Loses, programVars, clientVars
<1>6. Turn'
  <2>1. /\ Len(toServer') <= 1 /\ toServer' = <<>>
        /\ inbound' # <<>> => inbound # <<>>
        /\ inbound = <<>> => inbound' = <<>>
    BY DEF Loses
  <2>2. /\ \A i, j \in 1 .. Len(inbound') :
             inbound'[i].of = inbound'[j].of /\ (i < j => inbound'[i].type \notin Terminal)
        /\ \A i \in 1 .. Len(inbound') :
             /\ inbound'[i].type \in Replied => inbound'[i].of # 0
             /\ inbound'[i].type \in {"challenge", "md5"} => inbound'[i].of = 0
    <3>1. \A i \in 1 .. Len(inbound') : i \in 1 .. Len(inbound) /\ inbound'[i] = inbound[i]
      BY DEF Loses
    <3> QED  BY <3>1 DEF Inv, Turn
  <2>3. /\ inbound' # <<>> \/ Has(queue', "challenge") => transactionStatus' # "idle"
        /\ Has(queue', "challenge") => inbound' = <<>>
    BY <1>2, <2>1 DEF Inv, Turn, Loses
  <2>4. \A i, j \in 1 .. Len(queue') :
          queue'[i].type = "challenge" /\ queue'[j].type = "challenge" => i = j
    BY <1>2 DEF Inv, Turn
  <2> QED  BY <2>1, <2>2, <2>3, <2>4 DEF Turn
<1>7. Unstarted'
  BY DEF Inv, Unstarted, Loses, clientVars
<1>8. LoggedIn'
  <2>1. /\ reply'[0] \in {<<>>, <<"challenge">>, <<"md5">>, <<"ready">>, <<"fatal">>}
        /\ \A e \in Events : observers'[e] \subseteq {0} \/ reply'[0] = <<"ready">>
    BY DEF Inv, LoggedIn, Loses, serverVars
  <2>2. /\ \A i \in 1 .. Len(inbound') : IF inbound'[i].of = 0 THEN reply'[0] = <<inbound'[i].type>>
                                                             ELSE reply'[0] = <<"ready">>
        /\ toServer' = <<>>
    BY DEF Inv, LoggedIn, Loses, serverVars
  <2>3. /\ transactionStatus' # "notReady" => reply'[0] = <<"ready">>
        /\ Has(queue', "ready") => reply'[0] = <<"ready">>
        /\ Has(queue', "challenge") => reply'[0] = <<"challenge">>
    BY <1>2 DEF Inv, LoggedIn, Loses, serverVars
  <2> QED  BY <2>1, <2>2, <2>3 DEF LoggedIn
<1>9. Completed'
  <2>1. Past => Past'
    BY <1>2 DEF Past, Loses, clientVars
  <2>2. /\ LoginFailed => LoginFailed'
        /\ toServer # <<>> => Past \/ LoginFailed'
    <3>1. LoginFailed => LoginFailed'
      BY DEF LoginFailed, Loses, serverVars
    <3>2. ASSUME toServer # <<>>
          PROVE  Past \/ LoginFailed'
      <4>1. 1 \in 1 .. Len(toServer)
        BY <3>2 DEF Inv, Typed
      <4>2. CASE toServer[1].of # 0
        BY <4>1, <4>2 DEF Inv, Completed
      <4>3. CASE toServer[1].of = 0
        <5>1. reply[0] \in {<<>>, <<"challenge">>, <<"md5">>}
          BY <4>1, <4>3 DEF Inv, LoggedIn
        <5>2. reply'[0] # <<"ready">>
          BY <5>1 DEF Loses, serverVars
        <5> QED  BY <5>2 DEF LoginFailed, Loses
      <4> QED  BY <4>2, <4>3
    <3> QED  BY <3>1, <3>2
  <2>3. UNCHANGED <<completion, reply, transactionStatus>> /\ toServer' = <<>>
    BY DEF Loses, clientVars, serverVars
  <2>4. \A i \in 1 .. Len(inbound') : i \in 1 .. Len(inbound) /\ inbound'[i] = inbound[i]
    BY DEF Loses
  <2>5. CompletionReportsLogin'
    BY <2>2, <2>3 DEF Inv, Completed, CompletionReportsLogin
  <2>6. \A i \in 1 .. Len(toServer') : toServer'[i].of # 0 => Past'
    BY <2>3
  <2>7. \A i \in 1 .. Len(inbound') : inbound'[i].of # 0 => Past'
    BY <2>1, <2>4 DEF Inv, Completed
  <2>8. transactionStatus' # "notReady" => Past'
    BY <2>1, <2>3 DEF Inv, Completed
  <2>9. ASSUME NEW i \in 1 .. Len(queue'), queue'[i].type \in {"error", "fatal"}
        PROVE  \/ LoginFailed'
               \/ completion' # "owed" \/ \E j \in 1 .. i - 1 : queue'[j].type = "ready"
    <3>1. /\ i \in 1 .. Len(queue) /\ queue'[i] = queue[i]
          /\ \A j \in 1 .. i - 1 : j \in 1 .. Len(queue) /\ queue'[j] = queue[j]
      BY <1>2, <2>9
    <3> QED  BY <2>2, <2>3, <2>9, <3>1 DEF Inv, Completed
  <2>10. writeFailed' => Past' \/ LoginFailed'
    BY <2>1, <2>2 DEF Inv, Completed, Loses
  <2> QED  BY <2>5, <2>6, <2>7, <2>8, <2>9, <2>10 DEF Completed
<1>10. Parses'
  BY <1>2 DEF Inv, Parses, StatementsAgree, Loses, programVars, clientVars, serverVars
<1>11. Observed'
  <2>1. /\ \A r : Running(r)' <=> Running(r)
        /\ \A r : Told(r)' <=> Told(r)
    BY DEF Running, Told, Shared, IsExec, Loses, programVars
  <2>2. ASSUME NEW i \in 1 .. Len(queue'), queue'[i].type # "operation"
        PROVE  ~ Pending(queryQueue, queue, queue'[i].id)
    <3>1. CASE i \in 1 .. Len(queue) /\ queue'[i] = queue[i]
      BY <2>2, <3>1 DEF Inv, Observed
    <3>2. CASE queue'[i].id \in observers["closed"]
      BY <3>2, NotPending DEF Events
    <3> QED  BY <1>2, <3>1, <3>2
  <2> QED  BY <1>2, <2>1, <2>2 DEF Inv, Observed, Loses, programVars, clientVars
<1> QED  BY <1>3, <1>4, <1>5, <1>6, <1>7, <1>8, <1>9, <1>10, <1>11 DEF Inv

LEMMA ParsesKept ==
  ASSUME Inv,
         UNCHANGED <<called, request, toServer, reply, serverStatements, preparedStatements, link>>,
         \A r : Pending(queryQueue', queue', r) => Pending(queryQueue, queue, r)
  PROVE  Parses'
<1>1. StatementsAgree'
  <2>1. \A s : (Known(s)' <=> Known(s)) /\ (Refused(s)' <=> Refused(s))
    BY DEF Known, Refused
  <2>2. \A i \in DOMAIN toServer : Taken(toServer[i])' <=> Taken(toServer[i])
    BY DEF Taken
  <2> QED  BY <2>1, <2>2 DEF Inv, Parses, StatementsAgree
<1>2. \A i \in 1 .. Len(toServer) :
       /\ toServer[i].of \in 0 .. called /\ ~ Pending(queryQueue', queue', toServer[i].of)
       /\ toServer[i].of # 0 => /\ toServer[i].statement = request[toServer[i].of].statement
                                /\ reply[toServer[i].of] = <<>>
       /\ toServer[i].of = 0 => ~ toServer[i].parse
       /\ toServer[i].parse /\ toServer[i].statement # None =>
            /\ toServer[i].statement \in preparedStatements
            /\ serverStatements[Name(toServer[i].statement)] = 0
  BY DEF Inv, Parses
<1>3. \A r \in Requests : r > called \/ Pending(queryQueue', queue', r) => reply[r] = <<>>
  BY DEF Inv, Parses
<1>4. \A n \in Names : serverStatements[n] # 0 => <<n, serverStatements[n]>> \in preparedStatements
  BY DEF Inv, Parses
<1> QED  BY <1>1, <1>2, <1>3, <1>4 DEF Parses

LEMMA ReportsKeeps ==
  ASSUME Inv, NEW new \in Seq(TaskRecords), Reports(new)
  PROVE  Inv'
<1>1. /\ Len(new) = 1 /\ new[1].type = "error" /\ new[1].id = 0 /\ new[1].of = 0
      /\ \A t : t # "error" => ~ Has(new, t)
  BY DEF Reports, Task, Has
<1>2. /\ queue' \in Seq(TaskRecords) /\ Len(queue) \in Nat
      /\ \A i \in 1 .. Len(queue) : i \in 1 .. Len(queue') /\ queue'[i] = queue[i]
      /\ \A i \in 1 .. Len(queue') :
           \/ i \in 1 .. Len(queue) /\ queue'[i] = queue[i]
           \/ i = Len(queue) + 1 /\ queue'[i] = new[1]
      /\ \A t : t # "error" => (Has(queue', t) <=> Has(queue, t))
      /\ Ordered(queryQueue, queue', called)
      /\ \A r : Pending(queryQueue, queue', r) <=> Pending(queryQueue, queue, r)
  <2>1. queue' = queue \o new
    BY DEF Reports
  <2>2. \A i \in 1 .. Len(queue') :
           \/ i \in 1 .. Len(queue) /\ queue'[i] = queue[i]
           \/ \E j \in 1 .. Len(new) : i = Len(queue) + j /\ queue'[i] = new[j]
    BY <1>1, <2>1, EnqueueFacts
  <2>3. \A i \in 1 .. Len(queue') :
           \/ i \in 1 .. Len(queue) /\ queue'[i] = queue[i]
           \/ i = Len(queue) + 1 /\ queue'[i] = new[1]
    BY <1>1, <2>2
  <2> QED  BY <1>1, <2>1, <2>3, EnqueueFacts
<1>3. UNCHANGED <<called, request, listening, answers, queryQueue, preparedStatements,
                  connection, completion, observers, fields, rows, transactionStatus,
                  inbound, link, closing, toServer, serverStatements, reply>>
  BY DEF Reports, programVars, clientVars, gathered, socketVars, serverVars
<1>4. Typed'
  <2>1. Typed /\ writeFailed' \in BOOLEAN
    BY DEF Inv, Reports
  <2> QED  BY <1>2, <1>3, <2>1 DEF Typed
<1>5. Asked'
  BY <1>3 DEF Inv, Asked
<1>6. Queued'
  <2>1. Tasks(queue', called)
    <3>1. 0 \in 0 .. called
      BY DEF Inv, Typed
    <3> QED  BY <1>1, <1>2, <3>1 DEF Inv, Queued, Tasks
  <2> QED  BY <1>2, <1>3, <2>1 DEF Queued
<1>7. Turn'
  <2>1. \A i, j \in 1 .. Len(queue') :
          queue'[i].type = "challenge" /\ queue'[j].type = "challenge" => i = j
    BY <1>1, <1>2 DEF Inv, Turn
  <2> QED  BY <1>2, <1>3, <2>1 DEF Inv, Turn
<1>8. Unstarted'
  BY <1>3 DEF Inv, Unstarted, Reports
<1>9. LoggedIn'
  BY <1>2, <1>3 DEF Inv, LoggedIn
<1>10. Completed'
  <2>1. (Past' <=> Past) /\ (LoginFailed' <=> LoginFailed)
    BY <1>2, <1>3 DEF Past, LoginFailed
  <2>2. CompletionReportsLogin'
    BY <1>3, <2>1 DEF Inv, Completed, CompletionReportsLogin
  <2>3. ASSUME NEW i \in 1 .. Len(queue'), queue'[i].type \in {"error", "fatal"}
        PROVE  \/ LoginFailed
               \/ completion # "owed" \/ \E j \in 1 .. i - 1 : queue'[j].type = "ready"
    <3>1. CASE i \in 1 .. Len(queue) /\ queue'[i] = queue[i]
      <4>1. \A j \in 1 .. i - 1 : j \in 1 .. Len(queue) /\ queue'[j] = queue[j]
        BY <1>2, <3>1
      <4> QED  BY <2>3, <3>1, <4>1 DEF Inv, Completed
    <3>2. CASE i = Len(queue) + 1
      <4>1. Past \/ LoginFailed
        BY DEF Inv, Completed, Reports
      <4>2. ASSUME Has(queue, "ready")
            PROVE  \E j \in 1 .. i - 1 : queue'[j].type = "ready"
        BY <1>2, <3>2, <4>2 DEF Has
      <4> QED  BY <4>1, <4>2 DEF Past
    <3> QED  BY <1>2, <3>1, <3>2
  <2>4. writeFailed' = FALSE
    BY DEF Reports
  <2> QED  BY <1>3, <2>1, <2>2, <2>3, <2>4 DEF Inv, Completed
<1>11. Parses'
  BY <1>2, <1>3, ParsesKept
<1>12. Observed'
  <2>1. /\ \A r : Running(r)' <=> Running(r)
        /\ \A r : Told(r)' <=> Told(r)
    BY <1>3 DEF Running, Told, Shared, IsExec
  <2>2. \A i \in 1 .. Len(queue') :
          queue'[i].type # "operation" => ~ Pending(queryQueue, queue, queue'[i].id)
    BY <1>1, <1>2, ZeroNotPending DEF Inv, Observed
  <2> QED  BY <1>2, <1>3, <2>1, <2>2 DEF Inv, Observed
<1> QED  BY <1>4, <1>5, <1>6, <1>7, <1>8, <1>9, <1>10, <1>11, <1>12 DEF Inv

LEMMA ProcessesKeeps ==
  ASSUME Inv, NEW new \in Seq(TaskRecords), Processes(new)
  PROVE  Inv'
<1> DEFINE m == Head(inbound)
<1>1. /\ inbound' \in Seq(MessageRecords) /\ m \in MessageRecords
      /\ m = inbound[1] /\ 1 \in 1 .. Len(inbound)
      /\ \A i \in 1 .. Len(inbound') : i + 1 \in 2 .. Len(inbound) /\ inbound'[i] = inbound[i + 1]
      /\ inbound # <<>> /\ (inbound' # <<>> => 2 \in 1 .. Len(inbound))
  <2>1. inbound \in Seq(MessageRecords) /\ inbound # <<>> /\ inbound' = Tail(inbound)
    BY DEF Inv, Typed, Processes
  <2>2. /\ inbound' \in Seq(MessageRecords) /\ Len(inbound') = Len(inbound) - 1
        /\ Len(inbound) \in Nat \ {0} /\ m = inbound[1] /\ m \in MessageRecords
        /\ \A i \in 1 .. Len(inbound) - 1 : inbound'[i] = inbound[i + 1]
    BY <2>1, TailFacts
  <2>3. inbound' # <<>> => Len(inbound') # 0
    BY <2>2
  <2> QED  BY <2>1, <2>2, <2>3
<1> HIDE DEF m
<1>2. /\ m.of \in 0 .. MaxRequests /\ m.type \in MessageTypes
      /\ m.type \in Replied => m.of # 0
      /\ m.type \in {"challenge", "md5"} => m.of = 0
      /\ inbound' # <<>> => m.type \notin Terminal
      /\ toServer = <<>> /\ transactionStatus # "idle" /\ ~ Has(queue, "challenge")
  <2>1. m.of \in 0 .. MaxRequests /\ m.type \in MessageTypes
    BY <1>1 DEF MessageRecords
  <2>2. inbound' # <<>> => m.type \notin Terminal
    BY <1>1 DEF Inv, Turn
  <2> QED  BY <1>1, <2>1, <2>2 DEF Inv, Turn
<1>3. /\ IF m.of = 0 THEN reply[0] = <<m.type>> ELSE reply[0] = <<"ready">> /\ Past
      /\ m.type \in {"ready", "begun"} => reply[0] = <<"ready">>
  <2>1. IF m.of = 0 THEN reply[0] = <<m.type>> ELSE reply[0] = <<"ready">>
    BY <1>1 DEF Inv, LoggedIn
  <2>2. m.of # 0 => Past
    BY <1>1 DEF Inv, Completed
  <2>3. m.of = 0 => m.type # "begun"
    <3>1. reply[0] \in {<<>>, <<"challenge">>, <<"md5">>, <<"ready">>, <<"fatal">>}
      BY DEF Inv, LoggedIn
    <3>2. \A q \in {<<>>, <<"challenge">>, <<"md5">>, <<"ready">>, <<"fatal">>} :
            Len(q) = 1 => q[1] # "begun"
      OBVIOUS
    <3>3. Len(<<m.type>>) = 1 /\ <<m.type>>[1] = m.type
      OBVIOUS
    <3> QED  BY <2>1, <3>1, <3>2, <3>3
  <2> QED  BY <2>1, <2>2, <2>3
<1>4. \A j \in 1 .. Len(new) :
        /\ new[j].of = m.of
        /\ \/ new[j].type = m.type
           \/ new[j].type = "error" /\ m.type = "fatal" /\ new[j].id \in observers["error"]
           \/ new[j].type = "ready" /\ m.type = "begun"
        /\ \/ /\ new[j].type \in Events \cup {"uncounted"}
              /\ new[j].id \in observers[EventOf(new[j].type)]
           \/ new[j].type \in {"error", "fatal", "ready", "challenge"} /\ new[j].id = 0
  BY DEF Processes, m
<1>5. \A j \in 1 .. Len(new) :
        /\ new[j].type # "operation" /\ new[j].id \in 0 .. called
        /\ new[j].type \in Replied \ {"error"} => new[j].id # 0
        /\ new[j].type \in Replied => new[j].of # 0
        /\ ~ Pending(queryQueue, queue, new[j].id)
  <2> SUFFICES ASSUME NEW j \in 1 .. Len(new)
               PROVE  /\ new[j].type # "operation" /\ new[j].id \in 0 .. called
                      /\ new[j].type \in Replied \ {"error"} => new[j].id # 0
                      /\ new[j].type \in Replied => new[j].of # 0
                      /\ ~ Pending(queryQueue, queue, new[j].id)
    OBVIOUS
  <2>1. new[j].type # "operation"
    BY <1>4 DEF Events
  <2>2. new[j].id \in 0 .. called /\ ~ Pending(queryQueue, queue, new[j].id)
    <3>1. CASE /\ new[j].type \in Events \cup {"uncounted"}
               /\ new[j].id \in observers[EventOf(new[j].type)]
      BY <3>1, NotPending, EventOfFacts DEF Inv, Asked
    <3>2. CASE new[j].id = 0
      BY <3>2, ZeroNotPending DEF Inv, Typed
    <3> QED  BY <1>4, <3>1, <3>2
  <2>3. new[j].type \in Replied \ {"error"} => new[j].id # 0
    <3>1. ASSUME new[j].type \in Replied \ {"error"}
          PROVE  /\ EventOf(new[j].type) \in Events /\ EventOf(new[j].type) # "closed"
                 /\ new[j].id \in observers[EventOf(new[j].type)]
      BY <1>4, <3>1, EventOfFacts DEF Replied, Events, EventOf
    <3> QED  BY <3>1 DEF Inv, Asked
  <2>4. new[j].type \in Replied => new[j].of # 0
    <3>1. CASE new[j].type = m.type
      BY <1>2, <1>4, <3>1
    <3>2. CASE m.type = "fatal" /\ new[j].id \in observers["error"]
      <4>1. reply[0] = <<"ready">>
        BY <3>2 DEF Inv, LoggedIn, Asked, Events
      <4> QED  BY <1>3, <1>4, <3>2, <4>1
    <3> QED  BY <1>4, <3>1, <3>2 DEF Replied
  <2> QED  BY <2>1, <2>2, <2>3, <2>4
<1>6. /\ queue' \in Seq(TaskRecords) /\ Len(queue) \in Nat
      /\ \A i \in 1 .. Len(queue) : i \in 1 .. Len(queue') /\ queue'[i] = queue[i]
      /\ \A i \in 1 .. Len(queue') :
           \/ i \in 1 .. Len(queue) /\ queue'[i] = queue[i]
           \/ \E j \in 1 .. Len(new) : i = Len(queue) + j /\ queue'[i] = new[j]
      /\ \A t : Has(queue', t) <=> Has(queue, t) \/ Has(new, t)
      /\ Ordered(queryQueue, queue', called)
      /\ \A r : Pending(queryQueue, queue', r) <=> Pending(queryQueue, queue, r)
  <2>1. queue' = queue \o new /\ ~ Has(new, "operation")
    BY <1>5 DEF Processes, Has
  <2> QED  BY <2>1, EnqueueFacts
<1>7. /\ transactionStatus' = IF m.type = "ready" THEN "idle"
                              ELSE IF m.type = "begun" THEN "inTransaction"
                              ELSE transactionStatus
      /\ m.type \in {"ready", "begun"} => Has(new, "ready")
      /\ Has(new, "ready") => m.type \in {"ready", "begun"}
      /\ Has(new, "challenge") => Len(new) = 1 /\ m.type = "challenge"
  BY <1>4 DEF Processes, m, Has
<1>8. /\ Len(toServer') <= 1 /\ toServer' \in Seq(BodyRecords)
      /\ toServer' # <<>> => m.type = "md5" /\ link = "up"
      /\ \A i \in 1 .. Len(toServer') : /\ toServer'[i].of = 0 /\ toServer'[i].kind \in LoginKinds
                                        /\ toServer'[i].statement = None /\ ~ toServer'[i].parse
  <2> DEFINE b == [kind |-> "password", of |-> 0, statement |-> None, parse |-> FALSE]
  <2>1. b \in BodyRecords
    BY Constants DEF BodyRecords, LoginKinds
  <2>2. CASE toServer' = <<>>
    BY <2>2
  <2>3. CASE toServer' = <<b>> /\ m.type = "md5" /\ link = "up"
    BY <2>1, <2>3 DEF LoginKinds
  <2>4. m.type = "md5" => toServer' = IF link = "up" THEN Append(<<>>, b) ELSE <<>>
    BY <1>2 DEF Processes, m, Send
  <2>5. m.type # "md5" => toServer' = <<>>
    BY <1>2 DEF Processes, m
  <2>6. Append(<<>>, b) = <<b>>
    OBVIOUS
  <2> QED  BY <2>2, <2>3, <2>4, <2>5, <2>6
<1>9. UNCHANGED <<called, request, listening, answers, queryQueue, preparedStatements,
                  connection, completion, observers, fields, rows, link, closing,
                  serverStatements, reply>>
  BY DEF Processes, programVars, clientVars, gathered, socketVars, serverVars
<1>10. Typed'
  <2>1. Typed
    BY DEF Inv
  <2>2. writeFailed' \in BOOLEAN
    BY <2>1, SendFacts DEF Typed, Processes
  <2>3. transactionStatus' \in {"notReady", "idle", "inTransaction"}
    BY <1>7, <2>1 DEF Typed
  <2> QED  BY <1>1, <1>6, <1>8, <1>9, <2>1, <2>2, <2>3, SMTT(30) DEF Typed
<1>11. Asked'
  BY <1>9 DEF Inv, Asked
<1>12. Queued'
  <2>1. Tasks(queue', called)
    BY <1>5, <1>6 DEF Inv, Queued, Tasks
  <2> QED  BY <1>6, <1>9, <2>1 DEF Queued
<1>13. Turn'
  <2>1. /\ \A i, j \in 1 .. Len(inbound') :
             inbound'[i].of = inbound'[j].of /\ (i < j => inbound'[i].type \notin Terminal)
        /\ \A i \in 1 .. Len(inbound') :
             /\ inbound'[i].type \in Replied => inbound'[i].of # 0
             /\ inbound'[i].type \in {"challenge", "md5"} => inbound'[i].of = 0
    <3>1. ASSUME NEW i \in 1 .. Len(inbound'), NEW j \in 1 .. Len(inbound')
          PROVE  /\ inbound'[i].of = inbound'[j].of
                 /\ i < j => inbound'[i].type \notin Terminal
      <4>1. i + 1 \in 1 .. Len(inbound) /\ j + 1 \in 1 .. Len(inbound)
            /\ (i < j => i + 1 < j + 1)
            /\ inbound'[i] = inbound[i + 1] /\ inbound'[j] = inbound[j + 1]
        BY <1>1
      <4> QED  BY <4>1 DEF Inv, Turn
    <3>2. ASSUME NEW i \in 1 .. Len(inbound')
          PROVE  /\ inbound'[i].type \in Replied => inbound'[i].of # 0
                 /\ inbound'[i].type \in {"challenge", "md5"} => inbound'[i].of = 0
      <4>1. i + 1 \in 1 .. Len(inbound) /\ inbound'[i] = inbound[i + 1]
        BY <1>1
      <4> QED  BY <4>1 DEF Inv, Turn
    <3> QED  BY <3>1, <3>2
  <2>2. toServer' # <<>> \/ inbound' # <<>> \/ Has(queue', "challenge")
          => transactionStatus' # "idle"
    BY <1>2, <1>6, <1>7, <1>8 DEF Terminal
  <2>3. Has(queue', "challenge") => toServer' = <<>> /\ inbound' = <<>>
    BY <1>2, <1>6, <1>7, <1>8 DEF Terminal
  <2>4. toServer' # <<>> => inbound' = <<>>
    BY <1>2, <1>8 DEF Terminal
  <2>5. ASSUME NEW i \in 1 .. Len(queue'), NEW j \in 1 .. Len(queue'),
               queue'[i].type = "challenge", queue'[j].type = "challenge"
        PROVE  i = j
    <3>1. \A k \in 1 .. Len(queue) : queue[k].type # "challenge"
      BY <1>2 DEF Has
    <3>2. \A k \in 1 .. Len(queue') : queue'[k].type = "challenge" => k = Len(queue) + 1
      <4>1. ASSUME NEW k \in 1 .. Len(queue'), queue'[k].type = "challenge"
            PROVE  k = Len(queue) + 1
        <5>1. PICK l \in 1 .. Len(new) : k = Len(queue) + l /\ queue'[k] = new[l]
          BY <1>6, <3>1, <4>1
        <5>2. Has(new, "challenge")
          BY <4>1, <5>1 DEF Has
        <5>3. Len(new) = 1
          BY <1>7, <5>2
        <5> QED  BY <5>1, <5>3
      <4> QED  BY <4>1
    <3> QED  BY <2>5, <3>2
  <2>6. link' # "up" => toServer' = <<>>
    BY <1>8, <1>9
  <2> QED  BY <1>8, <2>1, <2>2, <2>3, <2>4, <2>5, <2>6 DEF Turn
<1>14. Unstarted'
  <2>1. link # "none" /\ connection # "none"
    BY <1>1 DEF Inv, Unstarted
  <2> QED  BY <1>9, <2>1 DEF Unstarted
<1>15. LoggedIn'
  <2>1. \A i \in 1 .. Len(toServer') : reply[0] = <<"md5">>
    BY <1>2, <1>3, <1>8
  <2>2. \A i \in 1 .. Len(inbound') :
          IF inbound'[i].of = 0 THEN reply[0] = <<inbound'[i].type>> ELSE reply[0] = <<"ready">>
    <3>1. ASSUME NEW i \in 1 .. Len(inbound')
          PROVE  i + 1 \in 1 .. Len(inbound) /\ inbound'[i] = inbound[i + 1]
      BY <1>1
    <3> QED  BY <3>1 DEF Inv, LoggedIn
  <2>3. transactionStatus' # "notReady" => reply[0] = <<"ready">>
    BY <1>3, <1>7 DEF Inv, LoggedIn
  <2>4. Has(queue', "ready") => reply[0] = <<"ready">>
    BY <1>3, <1>6, <1>7 DEF Inv, LoggedIn
  <2>5. Has(queue', "challenge") => reply[0] = <<"challenge">>
    BY <1>2, <1>3, <1>6, <1>7
  <2>6. \A i \in 1 .. Len(toServer') : toServer'[i].of = 0 /\ toServer'[i].kind \in LoginKinds
    BY <1>8
  <2>7. /\ reply'[0] \in {<<>>, <<"challenge">>, <<"md5">>, <<"ready">>, <<"fatal">>}
        /\ \A e \in Events : observers'[e] \subseteq {0} \/ reply'[0] = <<"ready">>
    BY <1>9 DEF Inv, LoggedIn
  <2>8. reply' = reply
    BY <1>9
  <2> QED  BY <2>1, <2>2, <2>3, <2>4, <2>5, <2>6, <2>7, <2>8 DEF LoggedIn
<1>16. Completed'
  <2>1. Past => Past'
    BY <1>6, <1>9 DEF Past
  <2>2. \A i \in 1 .. Len(inbound') : inbound'[i].of # 0 => Past'
    <3>1. ASSUME NEW i \in 1 .. Len(inbound')
          PROVE  i + 1 \in 1 .. Len(inbound) /\ inbound'[i] = inbound[i + 1]
      BY <1>1
    <3> QED  BY <2>1, <3>1 DEF Inv, Completed
  <2>3. transactionStatus' # "notReady" => Past'
    BY <1>6, <1>7, <2>1 DEF Inv, Completed, Past
  <2>4. LoginFailed' <=> LoginFailed
    BY <1>9 DEF LoginFailed
  <2>5. ASSUME NEW i \in 1 .. Len(queue'), queue'[i].type \in {"error", "fatal"}
        PROVE  \/ LoginFailed
               \/ completion # "owed" \/ \E j \in 1 .. i - 1 : queue'[j].type = "ready"
    <3>1. CASE i \in 1 .. Len(queue) /\ queue'[i] = queue[i]
      <4>1. \A j \in 1 .. i - 1 : j \in 1 .. Len(queue) /\ queue'[j] = queue[j]
        BY <1>6, <3>1
      <4> QED  BY <2>5, <3>1, <4>1 DEF Inv, Completed
    <3>2. ASSUME NEW j \in 1 .. Len(new), i = Len(queue) + j, queue'[i] = new[j]
          PROVE  \/ LoginFailed
                 \/ completion # "owed" \/ \E k \in 1 .. i - 1 : queue'[k].type = "ready"
      <4>1. CASE m.of = 0
        <5>1. m.type = "fatal"
          BY <1>2, <1>4, <2>5, <3>2, <4>1 DEF Replied
        <5> QED  BY <1>3, <4>1, <5>1 DEF LoginFailed
      <4>2. CASE m.of # 0 /\ completion = "owed"
        <5>1. Has(queue, "ready")
          BY <1>3, <1>4, <3>2, <4>2 DEF Past
        <5>2. PICK k \in 1 .. Len(queue) : queue[k].type = "ready"
          BY <5>1 DEF Has
        <5>3. k \in 1 .. i - 1 /\ queue'[k].type = "ready"
          BY <1>6, <3>2, <5>2
        <5> QED  BY <4>2, <5>3
      <4> QED  BY <4>1, <4>2
    <3> QED  BY <1>6, <3>1, <3>2
  <2>6. /\ completion' = completion /\ reply' = reply
        /\ \A i \in 1 .. Len(toServer') : toServer'[i].of = 0
    BY <1>8, <1>9
  <2>7. CompletionReportsLogin'
    BY <2>4, <2>6 DEF Inv, Completed, CompletionReportsLogin
  <2>8. writeFailed' => Past' \/ LoginFailed'
    <3>1. CASE m.type = "md5" /\ link # "up"
      <4>1. link \in {"broken", "down"}
        BY <1>1, <3>1 DEF Inv, Typed, Unstarted
      <4>2. reply[0] = <<"md5">>
        BY <1>2, <1>3, <3>1
      <4>3. reply[0] # <<"ready">>
        BY <4>2
      <4> QED  BY <2>4, <4>1, <4>3 DEF LoginFailed
    <3>2. CASE ~ (m.type = "md5" /\ link # "up")
      <4>1. writeFailed' = writeFailed
        BY <3>2 DEF Processes, Send, m
      <4> QED  BY <2>1, <2>4, <4>1 DEF Inv, Completed
    <3> QED  BY <3>1, <3>2
  <2> QED  BY <2>2, <2>3, <2>4, <2>5, <2>6, <2>7, <2>8 DEF Completed
<1>17. Parses'
  <2>1. StatementsAgree'
    <3>1. ASSUME link = "up"
          PROVE  \A s \in preparedStatements : Known(s) \/ Refused(s)
      BY <1>2, <3>1 DEF Inv, Parses, StatementsAgree
    <3>2. \A i \in 1 .. Len(toServer') : ~ toServer'[i].parse
      BY <1>8
    <3>3. DOMAIN toServer' = 1 .. Len(toServer')
      BY <1>8
    <3>4. \A s : (Known(s)' <=> Known(s)) /\ (Refused(s)' <=> Refused(s))
      BY <1>9 DEF Known, Refused
    <3>5. \A i \in DOMAIN toServer' : ~ Taken(toServer[i])'
      BY <3>2, <3>3 DEF Taken
    <3> QED  BY <1>9, <3>1, <3>4, <3>5 DEF StatementsAgree
  <2>2. \A i \in 1 .. Len(toServer') :
          /\ toServer'[i].of = 0 /\ ~ toServer'[i].parse /\ 0 \in 0 .. called
          /\ ~ Pending(queryQueue, queue', 0)
    BY <1>6, <1>8, ZeroNotPending DEF Inv, Typed
  <2>3. \A r \in Requests : r > called \/ Pending(queryQueue, queue', r) => reply[r] = <<>>
    BY <1>6 DEF Inv, Parses
  <2>4. \A n \in Names : serverStatements[n] # 0 => <<n, serverStatements[n]>> \in preparedStatements
    BY DEF Inv, Parses
  <2> QED  BY <1>9, <2>1, <2>2, <2>3, <2>4 DEF Parses
<1>18. Observed'
  <2>1. /\ \A r : Running(r)' <=> Running(r)
        /\ \A r : Told(r)' <=> Told(r)
    BY <1>9 DEF Running, Told, Shared, IsExec
  <2>2. \A i \in 1 .. Len(queue') :
          queue'[i].type # "operation" => ~ Pending(queryQueue, queue, queue'[i].id)
    BY <1>5, <1>6 DEF Inv, Observed
  <2> QED  BY <1>6, <1>9, <2>1, <2>2 DEF Inv, Observed
<1> QED  BY <1>10, <1>11, <1>12, <1>13, <1>14, <1>15, <1>16, <1>17, <1>18 DEF Inv

LEMMA ServerRepliesKeeps ==
  ASSUME Inv, NEW types, ServerReplies(types)
  PROVE  Inv'
<1> DEFINE b == toServer[1]
<1>1. /\ toServer # <<>> /\ b \in BodyRecords /\ 1 \in 1 .. Len(toServer)
      /\ toServer' = <<>> /\ inbound = <<>> /\ b.of \in 0 .. called
      /\ Len(toServer) = 1 /\ DOMAIN toServer = {1}
  <2>1. toServer # <<>> /\ toServer \in Seq(BodyRecords) /\ Len(toServer) <= 1
        /\ toServer' = Tail(toServer)
    BY DEF ServerReplies, Inv, Typed, Turn
  <2>2. Len(toServer) = 1 /\ DOMAIN toServer = {1} /\ toServer' = <<>>
    <3>1. Len(toServer) = 1
      <4>1. Len(toServer) \in Nat /\ Len(toServer) # 0
        BY <2>1, TailFacts
      <4> QED  BY <2>1, <4>1, One
    <3>2. DOMAIN toServer = 1 .. 1
      BY <2>1, <3>1
    <3>3. 1 .. 1 = {1}
      OBVIOUS
    <3>4. Tail(toServer) = <<>>
      BY <2>1, <3>1
    <3> QED  BY <2>1, <3>1, <3>2, <3>3, <3>4
  <2>3. 1 \in 1 .. Len(toServer) /\ b \in BodyRecords
    BY <2>1
  <2>4. inbound = <<>> /\ b.of \in 0 .. called
    BY <2>1, <2>3 DEF Inv, Turn, Parses
  <2> QED  BY <2>1, <2>2, <2>3, <2>4
<1> HIDE DEF b
<1>2. UNCHANGED <<called, request, listening, answers, queue, queryQueue, preparedStatements,
                  connection, completion, observers, fields, rows, transactionStatus, link,
                  writeFailed>>
  BY DEF ServerReplies, programVars, clientVars, gathered
<1>3. /\ transactionStatus # "idle" /\ ~ Has(queue, "challenge")
      /\ reply' = [reply EXCEPT ![b.of] = types] /\ link = "up" /\ closing' \in BOOLEAN
      /\ b.of \in 0 .. MaxRequests
  <2>1. transactionStatus # "idle" /\ ~ Has(queue, "challenge")
    BY <1>1 DEF Inv, Turn
  <2>2. reply' = [reply EXCEPT ![b.of] = types] /\ link = "up" /\ closing' \in BOOLEAN
    BY DEF ServerReplies, b
  <2>3. b.of \in 0 .. MaxRequests
    BY <1>1 DEF BodyRecords
  <2> QED  BY <2>1, <2>2, <2>3
<1>4. /\ types \in Seq(MessageTypes) /\ types # <<>>
      /\ \A i \in 1 .. Len(types) :
           /\ i < Len(types) => types[i] \in Replied
           /\ types[i] \in Replied => b.of # 0
           /\ types[i] \in {"challenge", "md5"} => b.of = 0
  <2>1. CASE RepliesToLogin(types)
    <3>1. PICK x \in {"challenge", "md5", "ready", "fatal"} : types = <<x>>
      BY <2>1 DEF RepliesToLogin
    <3>2. x \in MessageTypes /\ x \notin Replied /\ b.of = 0
      BY <2>1 DEF MessageTypes, Replied, RepliesToLogin, b
    <3>3. <<x>> \in Seq(MessageTypes) /\ <<x>> # <<>>
      BY <3>2
    <3>4. types \in Seq(MessageTypes) /\ types # <<>>
      BY <3>1, <3>3
    <3>5. ASSUME NEW i \in 1 .. Len(types)
          PROVE  types[i] = x /\ ~ (i < Len(types))
      BY <3>1
    <3>6. ASSUME NEW i \in 1 .. Len(types)
          PROVE  /\ i < Len(types) => types[i] \in Replied
                 /\ types[i] \in Replied => b.of # 0
                 /\ types[i] \in {"challenge", "md5"} => b.of = 0
      BY <3>2, <3>5
    <3>7. \A i \in 1 .. Len(types) :
             /\ i < Len(types) => types[i] \in Replied
             /\ types[i] \in Replied => b.of # 0
             /\ types[i] \in {"challenge", "md5"} => b.of = 0
      BY <3>6
    <3> QED  BY <3>4, <3>7
  <2>2. CASE RepliesToRequest(b, types)
    BY <2>2 DEF RepliesToRequest, Burst
  <2> QED  BY <2>1, <2>2 DEF ServerReplies, b
<1>5. /\ inbound' \in Seq(MessageRecords)
      /\ Len(inbound') = Len(types) /\ Len(types) \in Nat \ {0}
      /\ \A i \in 1 .. Len(inbound') : inbound'[i].type = types[i] /\ inbound'[i].of = b.of
  <2> DEFINE new == [i \in DOMAIN types |-> Message(types[i], b.of)]
  <2>1. DOMAIN types = 1 .. Len(types) /\ Len(types) \in Nat \ {0}
    BY <1>4
  <2>2. \A i \in DOMAIN types : Message(types[i], b.of) \in MessageRecords
    BY <1>1, <1>3, <1>4, <2>1 DEF Message, MessageRecords, Inv, Typed
  <2>3. new \in Seq(MessageRecords) /\ Len(new) = Len(types)
        /\ \A i \in 1 .. Len(new) : new[i] = Message(types[i], b.of)
    BY <2>1, <2>2
  <2>4. inbound' = inbound \o new
    BY DEF ServerReplies, b
  <2> HIDE DEF new
  <2>5. /\ inbound' \in Seq(MessageRecords) /\ Len(inbound') = Len(new)
        /\ \A i \in 1 .. Len(new) : inbound'[i] = new[i]
    <3>1. inbound \in Seq(MessageRecords) /\ Len(inbound) = 0
      BY <1>1 DEF Inv, Typed
    <3>2. /\ inbound' \in Seq(MessageRecords) /\ Len(inbound') = Len(inbound) + Len(new)
          /\ Len(new) \in Nat
          /\ \A i \in Len(inbound) + 1 .. Len(inbound) + Len(new) :
               inbound'[i] = new[i - Len(inbound)]
      BY <2>3, <2>4, <3>1, ConcatFacts
    <3>3. \A i \in 1 .. Len(new) : i \in Len(inbound) + 1 .. Len(inbound) + Len(new)
                                /\ i - Len(inbound) = i
      BY <3>1, <3>2
    <3> QED  BY <3>1, <3>2, <3>3
  <2>6. Len(inbound') = Len(types) /\ Len(types) \in Nat \ {0}
    BY <2>1, <2>3, <2>5
  <2>7. ASSUME NEW i \in 1 .. Len(inbound')
        PROVE  inbound'[i].type = types[i] /\ inbound'[i].of = b.of
    <3>1. inbound'[i] = Message(types[i], b.of)
      BY <2>3, <2>5, <2>6, <2>7
    <3> QED  BY <3>1 DEF Message
  <2> QED  BY <2>5, <2>6, <2>7
<1>6. /\ reply' \in [0 .. MaxRequests -> Seq(MessageTypes)] /\ reply'[b.of] = types
      /\ \A r \in 0 .. MaxRequests : r # b.of => reply'[r] = reply[r]
  BY <1>3, <1>4 DEF Inv, Typed
<1>7. ASSUME b.of = 0
      PROVE  /\ reply'[0] = <<types[1]>> /\ types[1] \in {"challenge", "md5", "ready", "fatal"}
             /\ Len(types) = 1 /\ serverStatements' = serverStatements
             /\ reply[0] \notin {<<"ready">>, <<"fatal">>}
             /\ transactionStatus = "notReady" /\ ~ Has(queue, "ready")
             /\ completion \notin {"succeeded", "failed"}
  <2>1. RepliesToLogin(types)
    BY <1>7 DEF ServerReplies, RepliesToRequest, b
  <2>2. PICK x \in {"challenge", "md5", "ready", "fatal"} : types = <<x>>
    BY <2>1 DEF RepliesToLogin
  <2>3. reply[0] \in {<<>>, <<"challenge">>, <<"md5">>}
    BY <1>1, <1>7 DEF Inv, LoggedIn, b
  <2>4. /\ reply[0] # <<"ready">> /\ reply[0] # <<"fatal">>
        /\ ~ LoginFailed
    <3>1. reply[0] # <<"ready">> /\ reply[0] # <<"fatal">>
      BY <2>3
    <3>2. link = "up"
      BY DEF ServerReplies
    <3> QED  BY <3>1, <3>2 DEF LoginFailed
  <2>5. /\ transactionStatus = "notReady" /\ ~ Has(queue, "ready")
        /\ completion \notin {"succeeded", "failed"}
    BY <2>4 DEF Inv, LoggedIn, Completed, CompletionReportsLogin
  <2>6. types[1] = x /\ Len(types) = 1
    BY <2>2
  <2>7. reply'[0] = <<types[1]>>
    BY <1>6, <1>7, <2>2, <2>6
  <2> QED  BY <2>1, <2>4, <2>5, <2>6, <2>7 DEF RepliesToLogin
<1>8. ASSUME b.of # 0
      PROVE  /\ reply'[0] = <<"ready">> /\ reply[0] = <<"ready">> /\ Past
             /\ b.of \in Requests /\ reply[b.of] = <<>>
             /\ b.statement = request[b.of].statement
             /\ ~ Pending(queryQueue, queue, b.of)
             /\ RepliesToRequest(b, types)
  <2>1. RepliesToRequest(b, types)
    BY <1>8 DEF ServerReplies, RepliesToLogin, b
  <2>2. reply[0] = <<"ready">> /\ Past
    BY <1>1, <1>8 DEF Inv, LoggedIn, Completed, b
  <2>3. reply'[0] = reply[0]
    BY <1>6, <1>8, Constants
  <2>4. b.of \in Requests
    BY <1>3, <1>8, Constants
  <2>5. /\ reply[b.of] = <<>> /\ b.statement = request[b.of].statement
        /\ ~ Pending(queryQueue, queue, b.of)
    BY <1>1, <1>8 DEF Inv, Parses, b
  <2> QED  BY <2>1, <2>2, <2>3, <2>4, <2>5
<1>9. /\ serverStatements' \in [Names -> 0 .. Versions]
      /\ \/ serverStatements' = serverStatements
         \/ /\ b.of # 0 /\ b.parse /\ b.statement # None /\ ~ Taken(b)
            /\ b.statement \in Statements
            /\ Name(b.statement) \in Names /\ b.statement[2] \in 1 .. Versions
            /\ b.statement = <<Name(b.statement), b.statement[2]>>
            /\ serverStatements' =
                 [serverStatements EXCEPT ![Name(b.statement)] = b.statement[2]]
  <2>1. CASE serverStatements' = serverStatements
    BY <2>1 DEF Inv, Typed
  <2>2. CASE /\ b.of # 0 /\ b.parse /\ b.statement # None /\ ~ Taken(b)
             /\ serverStatements' =
                  [serverStatements EXCEPT ![Name(b.statement)] = b.statement[2]]
    <3>1. b.statement \in Names \X (1 .. Versions)
      BY <1>1, <2>2 DEF BodyRecords, Statements
    <3>2. Name(b.statement) \in Names /\ b.statement[2] \in 1 .. Versions
          /\ b.statement = <<Name(b.statement), b.statement[2]>>
      BY <3>1 DEF Name
    <3> QED  BY <2>2, <3>1, <3>2, Constants DEF Inv, Typed, Statements
  <2>3. b.of # 0 => \/ serverStatements' = serverStatements
                   \/ /\ b.of # 0 /\ b.parse /\ b.statement # None /\ ~ Taken(b)
                      /\ serverStatements' =
                           [serverStatements EXCEPT ![Name(b.statement)] = b.statement[2]]
    BY <1>8 DEF RepliesToRequest
  <2> QED  BY <1>7, <2>1, <2>2, <2>3
<1>10. Typed'
  <2>1. toServer' \in Seq(BodyRecords)
    BY <1>1
  <2> QED  BY <1>2, <1>3, <1>5, <1>6, <1>9, <2>1 DEF Inv, Typed
<1>11. Asked'
  BY <1>2 DEF Inv, Asked
<1>12. Queued'
  BY <1>2 DEF Inv, Queued
<1>13. Turn'
  <2>1. \A i, j \in 1 .. Len(inbound') :
          inbound'[i].of = inbound'[j].of /\ (i < j => inbound'[i].type \notin Terminal)
    <3>1. ASSUME NEW i \in 1 .. Len(inbound'), NEW j \in 1 .. Len(inbound'), i < j
          PROVE  inbound'[i].type \notin Terminal
      <4>1. i \in 1 .. Len(types) /\ i < Len(types) /\ inbound'[i].type = types[i]
        BY <1>5, <3>1
      <4> QED  BY <1>4, <4>1 DEF Terminal, Replied
    <3> QED  BY <1>5, <3>1
  <2>2. \A i \in 1 .. Len(inbound') :
          /\ inbound'[i].type \in Replied => inbound'[i].of # 0
          /\ inbound'[i].type \in {"challenge", "md5"} => inbound'[i].of = 0
    BY <1>4, <1>5
  <2>3. Len(toServer') <= 1
    BY <1>1
  <2>4. \A i, j \in 1 .. Len(queue') :
          queue'[i].type = "challenge" /\ queue'[j].type = "challenge" => i = j
    BY <1>2 DEF Inv, Turn
  <2>5. ~ Has(queue', "challenge") /\ transactionStatus' # "idle"
    BY <1>2, <1>3
  <2> QED  BY <1>1, <2>1, <2>2, <2>3, <2>4, <2>5 DEF Turn
<1>14. Unstarted'
  BY <1>2, <1>3 DEF Inv, Unstarted
<1>15. LoggedIn'
  <2>1. reply'[0] \in {<<>>, <<"challenge">>, <<"md5">>, <<"ready">>, <<"fatal">>}
    BY <1>7, <1>8
  <2>2. ~ (reply[0] = <<"ready">>) \/ reply'[0] = <<"ready">>
    BY <1>7, <1>8
  <2>3. \A e \in Events : observers'[e] \subseteq {0} \/ reply'[0] = <<"ready">>
    BY <1>2, <2>2 DEF Inv, LoggedIn
  <2>4. \A i \in 1 .. Len(inbound') : IF inbound'[i].of = 0 THEN reply'[0] = <<inbound'[i].type>>
                                                         ELSE reply'[0] = <<"ready">>
    BY <1>5, <1>7, <1>8
  <2>5. /\ transactionStatus' # "notReady" => reply'[0] = <<"ready">>
        /\ Has(queue', "ready") => reply'[0] = <<"ready">>
    BY <1>2, <1>7, <1>8
  <2>6. ~ Has(queue', "challenge")
    BY <1>2, <1>3
  <2> QED  BY <1>1, <2>1, <2>3, <2>4, <2>5, <2>6 DEF LoggedIn
<1>16. Completed'
  <2>1. LoginFailed => LoginFailed'
    <3>1. ASSUME LoginFailed
          PROVE  reply[0] = <<"fatal">> /\ <<"fatal">> # <<"ready">>
      BY <1>3, <3>1 DEF LoginFailed
    <3> QED  BY <1>7, <1>8, <3>1
  <2>2. CompletionReportsLogin'
    BY <1>2, <1>7, <1>8, <2>1 DEF Inv, Completed, CompletionReportsLogin
  <2>3. \A i \in 1 .. Len(inbound') : inbound'[i].of # 0 => Past'
    BY <1>2, <1>5, <1>8 DEF Past
  <2>4. transactionStatus' # "notReady" => Past'
    BY <1>2 DEF Inv, Completed, Past
  <2>5. Past' <=> Past
    BY <1>2 DEF Past
  <2>6. writeFailed' => Past' \/ LoginFailed'
    BY <2>1, <2>5 DEF Inv, Completed, ServerReplies
  <2>7. \A i \in 1 .. Len(queue) : queue[i].type \in {"error", "fatal"} =>
          \/ LoginFailed'
          \/ completion # "owed" \/ \E j \in 1 .. i - 1 : queue[j].type = "ready"
    BY <2>1 DEF Inv, Completed
  <2> QED  BY <1>1, <1>2, <2>2, <2>3, <2>4, <2>6, <2>7 DEF Completed
<1>17. Parses'
  <2>1. \A n \in Names : serverStatements'[n] # 0 => <<n, serverStatements'[n]>> \in preparedStatements
    <3>1. CASE serverStatements' = serverStatements
      BY <3>1 DEF Inv, Parses
    <3>2. CASE serverStatements' # serverStatements
      <4>1. b.statement \in preparedStatements
        BY <1>1, <1>9, <3>2 DEF Inv, Parses, b
      <4>2. \A n \in Names : n # Name(b.statement) => serverStatements'[n] = serverStatements[n]
        BY <1>9, <3>2 DEF Inv, Typed
      <4>3. serverStatements'[Name(b.statement)] = b.statement[2]
        BY <1>9, <3>2 DEF Inv, Typed
      <4> QED  BY <1>9, <3>2, <4>1, <4>2, <4>3 DEF Inv, Parses
    <3> QED  BY <3>1, <3>2
  <2>2. \A r \in Requests : r > called \/ Pending(queryQueue, queue, r) => reply'[r] = <<>>
    <3>1. \A r \in Requests : r > called \/ Pending(queryQueue, queue, r) => r # b.of
      <4>1. \A r \in Requests : r > called => r # b.of
        BY <1>1, Constants DEF Inv, Typed
      <4>2. \A r \in Requests : Pending(queryQueue, queue, r) => r # b.of
        BY <1>8, Constants
      <4> QED  BY <4>1, <4>2
    <3>2. \A r \in Requests : r # b.of => reply'[r] = reply[r]
      BY <1>6, Constants
    <3> QED  BY <3>1, <3>2 DEF Inv, Parses
  <2>3. ASSUME NEW s \in preparedStatements
        PROVE  Known(s)' \/ Refused(s)'
    <3>1. s \in Statements /\ s # None /\ Name(s) \in Names /\ s[2] \in 1 .. Versions
      BY <2>3, Constants DEF Inv, Typed, Statements, Name
    <3>2. CASE Known(s)
      <4>1. CASE serverStatements' # serverStatements
        <5>1. serverStatements[Name(b.statement)] = 0
          BY <1>9, <4>1 DEF Taken
        <5>2. Name(s) # Name(b.statement)
          BY <3>1, <3>2, <5>1, Constants DEF Known
        <5> QED  BY <1>9, <3>1, <3>2, <4>1, <5>2 DEF Known, Inv, Typed
      <4> QED  BY <3>2, <4>1 DEF Known
    <3>3. CASE Refused(s)
      <4>1. PICK r \in Requests : request[r].statement = s /\ reply[r] = <<"error", "ready">>
        BY <3>3 DEF Refused
      <4>2. r # b.of
        <5>1. <<"error", "ready">> # <<>>
          OBVIOUS
        <5> QED  BY <1>8, <4>1, <5>1, Constants
      <4>3. reply'[r] = reply[r] /\ request' = request
        BY <1>2, <1>6, <4>2, Constants
      <4> QED  BY <4>1, <4>3 DEF Refused
    <3>4. CASE b.statement = s /\ b.parse
      <4>1. b.of # 0
        BY <1>1, <3>4 DEF Inv, Parses, b
      <4>2. CASE types = <<"error", "ready">>
        BY <1>2, <1>6, <1>8, <3>4, <4>1, <4>2 DEF Refused
      <4>3. CASE serverStatements' =
                   [serverStatements EXCEPT ![Name(b.statement)] = b.statement[2]]
        BY <3>1, <3>4, <4>3 DEF Known, Inv, Typed
      <4> QED  BY <1>8, <3>1, <3>4, <4>1, <4>2, <4>3 DEF RepliesToRequest
    <3>5. Known(s) \/ Refused(s) \/ (b.statement = s /\ b.parse)
      <4>1. Known(s) \/ Refused(s)
              \/ \E i \in DOMAIN toServer : toServer[i].statement = s /\ toServer[i].parse
        BY <1>3, <2>3 DEF Inv, Parses, StatementsAgree
      <4> QED  BY <1>1, <4>1 DEF b
    <3> QED  BY <3>2, <3>3, <3>4, <3>5
  <2>4. StatementsAgree'
    <3>1. DOMAIN toServer' = {}
      BY <1>1
    <3> QED  BY <1>2, <2>3, <3>1 DEF StatementsAgree
  <2> QED  BY <1>1, <1>2, <2>1, <2>2, <2>4 DEF Parses
<1>18. Observed'
  BY <1>2 DEF Inv, Observed, Running, Told, Shared, IsExec
<1> QED  BY <1>10, <1>11, <1>12, <1>13, <1>14, <1>15, <1>16, <1>17, <1>18 DEF Inv

\* Any task is run: what does not depend on what it does.
LEMMA DequeueKeeps ==
  ASSUME Inv, queue # <<>>, queue' = Tail(queue),
         UNCHANGED <<called, toServer, inbound, transactionStatus, link, reply>>,
         \A e \in Events : observers'[e] \subseteq observers[e]
  PROVE  Turn' /\ LoggedIn' /\ Tasks(queue', called)
<1>1. /\ \A i \in 1 .. Len(queue') : i + 1 \in 1 .. Len(queue) /\ queue'[i] = queue[i + 1]
      /\ \A t : Has(queue', t) => Has(queue, t)
  BY DequeueFacts, DequeueHas
<1>2. ASSUME NEW i \in 1 .. Len(queue'), NEW j \in 1 .. Len(queue'),
             queue'[i].type = "challenge", queue'[j].type = "challenge"
      PROVE  i = j
  <2>1. i + 1 \in 1 .. Len(queue) /\ j + 1 \in 1 .. Len(queue)
        /\ queue[i + 1].type = "challenge" /\ queue[j + 1].type = "challenge"
    BY <1>1, <1>2
  <2>2. i + 1 = j + 1
    BY <2>1 DEF Inv, Turn
  <2> QED  BY <2>2
<1>3. Turn'
  <2>1. toServer' # <<>> \/ inbound' # <<>> \/ Has(queue', "challenge") =>
          transactionStatus' # "idle"
    BY <1>1 DEF Inv, Turn
  <2>2. Has(queue', "challenge") => toServer' = <<>> /\ inbound' = <<>>
    BY <1>1 DEF Inv, Turn
  <2>3. /\ Len(toServer') <= 1 /\ (link' # "up" => toServer' = <<>>)
        /\ toServer' # <<>> => inbound' = <<>>
    BY DEF Inv, Turn
  <2>4. /\ \A i, j \in 1 .. Len(inbound) :
             inbound[i].of = inbound[j].of /\ (i < j => inbound[i].type \notin Terminal)
        /\ \A i \in 1 .. Len(inbound) :
             /\ inbound[i].type \in Replied => inbound[i].of # 0
             /\ inbound[i].type \in {"challenge", "md5"} => inbound[i].of = 0
    BY DEF Inv, Turn
  <2> QED  BY <1>2, <2>1, <2>2, <2>3, <2>4 DEF Turn
<1>4. LoggedIn'
  <2>1. \A e \in Events : observers'[e] \subseteq {0} \/ reply[0] = <<"ready">>
    BY DEF Inv, LoggedIn
  <2>2. \A i \in 1 .. Len(toServer) :
          IF toServer[i].of = 0
          THEN /\ toServer[i].kind \in LoginKinds
               /\ reply[0] \in {<<>>, <<"challenge">>, <<"md5">>}
          ELSE toServer[i].kind \notin LoginKinds /\ reply[0] = <<"ready">>
    BY DEF Inv, LoggedIn
  <2>3. \A i \in 1 .. Len(inbound) :
          IF inbound[i].of = 0 THEN reply[0] = <<inbound[i].type>> ELSE reply[0] = <<"ready">>
    BY DEF Inv, LoggedIn
  <2>4. /\ transactionStatus # "notReady" => reply[0] = <<"ready">>
        /\ Has(queue', "ready") => reply[0] = <<"ready">>
        /\ Has(queue', "challenge") => reply[0] = <<"challenge">>
        /\ reply[0] \in {<<>>, <<"challenge">>, <<"md5">>, <<"ready">>, <<"fatal">>}
    BY <1>1 DEF Inv, LoggedIn
  <2> QED  BY <2>1, <2>2, <2>3, <2>4 DEF LoggedIn
<1>5. Tasks(queue', called)
  BY <1>1 DEF Inv, Queued, Tasks
<1> QED  BY <1>3, <1>4, <1>5

\* A task that is no operation is run.
LEMMA OtherTaskKeeps ==
  ASSUME Inv, queue # <<>>, queue' = Tail(queue), Head(queue).type # "operation"
  PROVE  /\ Ordered(queryQueue, queue', called)
         /\ \A r : Pending(queryQueue, queue', r) <=> Pending(queryQueue, queue, r)
         /\ ~ Pending(queryQueue, queue, Head(queue).id)
         /\ \A i \in 1 .. Len(queue') :
              queue'[i].type # "operation" => ~ Pending(queryQueue, queue', queue'[i].id)
<1>1. /\ Ordered(queryQueue, queue', called)
      /\ \A r : Pending(queryQueue, queue', r) <=> Pending(queryQueue, queue, r)
  BY DequeueOperations
<1>2. /\ \A i \in 1 .. Len(queue') : i + 1 \in 1 .. Len(queue) /\ queue'[i] = queue[i + 1]
      /\ Head(queue) = queue[1] /\ 1 \in 1 .. Len(queue)
  BY DequeueFacts
<1>3. \A i \in 1 .. Len(queue) :
        queue[i].type # "operation" => ~ Pending(queryQueue, queue, queue[i].id)
  BY DEF Inv, Observed
<1>4. ~ Pending(queryQueue, queue, Head(queue).id)
  BY <1>2, <1>3
<1>5. \A i \in 1 .. Len(queue') :
        queue'[i].type # "operation" => ~ Pending(queryQueue, queue', queue'[i].id)
  BY <1>1, <1>2, <1>3
<1> QED  BY <1>1, <1>4, <1>5

\* The completion is called before the errors of requests are observed.
ErrorsAfter(q, c) ==
  \A i \in 1 .. Len(q) : q[i].type \in {"error", "fatal"} =>
    LoginFailed \/ c # "owed" \/ \E j \in 1 .. i - 1 : q[j].type = "ready"

LEMMA LoginFailedKept ==
  ASSUME UNCHANGED <<link, reply>>
  PROVE  LoginFailed' <=> LoginFailed
BY DEF LoginFailed

LEMMA ErrorsAfterTail ==
  ASSUME Inv, queue # <<>>, queue' = Tail(queue),
         NEW c, c # "owed" \/ (c = completion /\ Head(queue).type # "ready")
  PROVE  ErrorsAfter(queue', c)
<1>1. /\ \A i \in 1 .. Len(queue') : i + 1 \in 1 .. Len(queue) /\ queue'[i] = queue[i + 1]
      /\ \A i \in 2 .. Len(queue) : i - 1 \in 1 .. Len(queue') /\ queue'[i - 1] = queue[i]
      /\ Head(queue) = queue[1]
  BY DequeueFacts
<1>2. ASSUME NEW i \in 1 .. Len(queue'), queue'[i].type \in {"error", "fatal"}
      PROVE  LoginFailed \/ c # "owed" \/ \E j \in 1 .. i - 1 : queue'[j].type = "ready"
  <2>1. LoginFailed \/ completion # "owed"
          \/ \E j \in 1 .. i + 1 - 1 : queue[j].type = "ready"
    BY <1>1, <1>2 DEF Inv, Completed
  <2>2. CASE ~ LoginFailed /\ c = completion /\ Head(queue).type # "ready"
             /\ completion = "owed"
    <3>1. PICK j \in 1 .. i + 1 - 1 : queue[j].type = "ready"
      BY <2>1, <2>2
    <3>2. j \in 2 .. Len(queue) /\ j - 1 \in 1 .. i - 1
      <4>1. i + 1 \in 1 .. Len(queue) /\ j # 1
        BY <1>1, <2>2, <3>1
      <4> QED  BY <4>1
    <3>3. queue'[j - 1].type = "ready"
      BY <1>1, <3>1, <3>2
    <3> QED  BY <2>2, <3>2, <3>3
  <2> QED  BY <2>1, <2>2
<1> QED  BY <1>2 DEF ErrorsAfter

LEMMA RunErrorKeeps ==
  ASSUME Inv, RunError
  PROVE  Inv'
<1>1. /\ queue # <<>> /\ queue' = Tail(queue)
      /\ UNCHANGED <<called, request, inbound, link, reply, serverStatements, listening, answers,
                     queryQueue, preparedStatements, connection, observers, fields, rows,
                     transactionStatus, toServer, writeFailed>>
      /\ Head(queue).type \in {"error", "fatal"}
      /\ completion' = IF completion = "owed" THEN "failed" ELSE completion
      /\ closing' = (closing \/ At("fatal"))
  BY DEF RunError, Ran, At, serverVars, gathered
<1>2. /\ queue' \in Seq(TaskRecords) /\ Head(queue) = queue[1] /\ 1 \in 1 .. Len(queue)
      /\ \A i \in 1 .. Len(queue') : i + 1 \in 1 .. Len(queue) /\ queue'[i] = queue[i + 1]
  BY <1>1, DequeueFacts
<1>3. Turn' /\ LoggedIn' /\ Tasks(queue', called)
  BY <1>1, DequeueKeeps
<1>4. /\ Ordered(queryQueue, queue', called)
      /\ \A r : Pending(queryQueue, queue', r) <=> Pending(queryQueue, queue, r)
      /\ \A i \in 1 .. Len(queue') :
           queue'[i].type # "operation" => ~ Pending(queryQueue, queue', queue'[i].id)
  BY <1>1, OtherTaskKeeps
<1>5. Typed'
  <2>1. closing' \in BOOLEAN
    BY <1>1
  <2>2. completion' \in {"none", "owed", "succeeded", "failed"}
    BY <1>1 DEF Inv, Typed
  <2> QED  BY <1>1, <1>2, <2>1, <2>2 DEF Inv, Typed
<1>6. Asked'
  BY <1>1 DEF Inv, Asked
<1>7. Queued'
  BY <1>1, <1>3, <1>4 DEF Queued
<1>8. Unstarted'
  <2>1. link # "none"
    BY <1>1, <1>2 DEF Inv, Unstarted
  <2> QED  BY <1>1, <2>1 DEF Inv, Unstarted
<1>9. Completed'
  <2>1. completion = "owed" => LoginFailed
    <3>1. ~ \E j \in 1 .. 1 - 1 : queue[j].type = "ready"
      OBVIOUS
    <3> QED  BY <1>1, <1>2, <3>1 DEF Inv, Completed
  <2>2. LoginFailed' <=> LoginFailed
    BY <1>1, LoginFailedKept
  <2>3. CompletionReportsLogin'
    BY <1>1, <2>1, <2>2 DEF Inv, Completed, CompletionReportsLogin
  <2>4. completion' # "owed"
    BY <1>1
  <2>5. ErrorsAfter(queue', completion')
    BY <1>1, <2>4, ErrorsAfterTail
  <2> QED  BY <1>1, <2>2, <2>3, <2>4, <2>5 DEF Completed, Past, ErrorsAfter
<1>10. Parses'
  BY <1>1, <1>4, ParsesKept
<1>11. Observed'
  BY <1>1, <1>4 DEF Inv, Observed, Running, Told, Shared, IsExec
<1> QED  BY <1>3, <1>5, <1>6, <1>7, <1>8, <1>9, <1>10, <1>11 DEF Inv

LEMMA RunClosedKeeps ==
  ASSUME Inv, RunClosed
  PROVE  Inv'
<1>1. /\ queue # <<>> /\ queue' = Tail(queue)
      /\ UNCHANGED <<called, request, inbound, link, reply, serverStatements, listening, answers,
                     queryQueue, preparedStatements, completion, fields, rows,
                     transactionStatus, closing, toServer, writeFailed>>
      /\ Head(queue).type = "closed" /\ connection' = "nil"
      /\ observers' = [observers EXCEPT !["closed"] = @ \ {0}]
  BY DEF RunClosed, Ran, At, serverVars, gathered
<1>2. /\ queue' \in Seq(TaskRecords) /\ Head(queue) = queue[1] /\ 1 \in 1 .. Len(queue)
  BY <1>1, DequeueFacts
<1>3. /\ observers' \in [Events -> SUBSET (0 .. MaxRequests)]
      /\ \A e \in Events : observers'[e] = observers[e] \/ observers'[e] = observers[e] \ {0}
  BY <1>1 DEF Inv, Typed
<1>4. Turn' /\ LoggedIn' /\ Tasks(queue', called)
  BY <1>1, <1>3, DequeueKeeps
<1>5. /\ Ordered(queryQueue, queue', called)
      /\ \A r : Pending(queryQueue, queue', r) <=> Pending(queryQueue, queue, r)
      /\ \A i \in 1 .. Len(queue') :
           queue'[i].type # "operation" => ~ Pending(queryQueue, queue', queue'[i].id)
  BY <1>1, OtherTaskKeeps
<1>6. Typed'
  BY <1>1, <1>2, <1>3 DEF Inv, Typed
<1>7. Asked'
  BY <1>1, <1>3 DEF Inv, Asked
<1>8. Queued'
  BY <1>1, <1>4, <1>5 DEF Queued
<1>9. Unstarted'
  <2>1. link # "none"
    BY <1>1, <1>2 DEF Inv, Unstarted
  <2> QED  BY <1>1, <2>1 DEF Inv, Unstarted
<1>10. Completed'
  <2>1. Past => Past'
    BY <1>1, DequeueHas DEF Past
  <2>2. ErrorsAfter(queue', completion')
    BY <1>1, ErrorsAfterTail
  <2>3. LoginFailed' <=> LoginFailed
    BY <1>1, LoginFailedKept
  <2> QED  BY <1>1, <2>1, <2>2, <2>3 DEF Inv, Completed, CompletionReportsLogin, ErrorsAfter
<1>11. Parses'
  BY <1>1, <1>5, ParsesKept
<1>12. Observed'
  <2>1. \A r \in Requests : (Running(r)' <=> Running(r)) /\ (Told(r)' <=> Told(r))
    BY <1>1, <1>3, Constants DEF Running, Told, Shared, IsExec
  <2>2. \A r \in Requests, e \in Events : r \in observers[e] => r \in observers'[e]
    BY <1>3, Constants
  <2>3. ExecEvents \subseteq Events
    BY DEF ExecEvents, Events
  <2> QED  BY <1>1, <1>5, <2>1, <2>2, <2>3 DEF Inv, Observed
<1> QED  BY <1>4, <1>6, <1>7, <1>8, <1>9, <1>10, <1>11, <1>12 DEF Inv

LEMMA PasswordSent ==
  ASSUME toServer = <<>>, Send("password", 0, None, FALSE), writeFailed \in BOOLEAN
  PROVE  /\ Len(toServer') <= 1 /\ toServer' \in Seq(BodyRecords)
         /\ writeFailed' \in BOOLEAN /\ (writeFailed' => writeFailed \/ link # "up")
         /\ toServer' # <<>> => link = "up"
         /\ \A i \in 1 .. Len(toServer') :
              /\ toServer'[i].of = 0 /\ toServer'[i].kind \in LoginKinds
              /\ ~ toServer'[i].parse
<1> DEFINE b == [kind |-> "password", of |-> 0, statement |-> None, parse |-> FALSE]
<1>1. b \in BodyRecords
  BY Constants DEF BodyRecords, LoginKinds
<1>6. writeFailed' \in BOOLEAN /\ (writeFailed' => writeFailed \/ link # "up")
  BY SendFacts
<1>2. CASE toServer' = <<>>
  BY <1>2, <1>6
<1>3. CASE toServer' = <<b>> /\ link = "up"
  BY <1>1, <1>3, <1>6 DEF LoginKinds
<1>4. toServer' = IF link = "up" THEN Append(<<>>, b) ELSE <<>>
  BY DEF Send
<1>5. Append(<<>>, b) = <<b>>
  OBVIOUS
<1> QED  BY <1>2, <1>3, <1>4, <1>5

\* Parses, when nothing or a message of the login is sent.
LEMMA ParsesLogin ==
  ASSUME Inv, toServer = <<>>,
         UNCHANGED <<called, request, reply, serverStatements, preparedStatements>>,
         link' = "up" => link = "up" \/ preparedStatements = {},
         \A r : Pending(queryQueue', queue', r) => Pending(queryQueue, queue, r),
         toServer' \in Seq(BodyRecords),
         \A i \in 1 .. Len(toServer') : toServer'[i].of = 0 /\ ~ toServer'[i].parse
  PROVE  Parses'
<1>1. StatementsAgree'
  <2>1. ASSUME link = "up" \/ preparedStatements = {}
        PROVE  \A s \in preparedStatements : Known(s) \/ Refused(s)
    <3>1. DOMAIN toServer = {}
      OBVIOUS
    <3> QED  BY <2>1, <3>1 DEF Inv, Parses, StatementsAgree
  <2>2. \A s : (Known(s)' <=> Known(s)) /\ (Refused(s)' <=> Refused(s))
    BY DEF Known, Refused
  <2>3. DOMAIN toServer' = 1 .. Len(toServer')
    OBVIOUS
  <2>4. \A i \in DOMAIN toServer' : ~ Taken(toServer[i])'
    BY <2>3 DEF Taken
  <2> QED  BY <2>1, <2>2, <2>4 DEF StatementsAgree
<1>2. \A i \in 1 .. Len(toServer') :
        toServer'[i].of \in 0 .. called /\ ~ Pending(queryQueue', queue', toServer'[i].of)
  BY ZeroNotPending DEF Inv, Typed
<1>3. \A r \in Requests : r > called \/ Pending(queryQueue', queue', r) => reply[r] = <<>>
  BY DEF Inv, Parses
<1>4. \A n \in Names : serverStatements[n] # 0 => <<n, serverStatements[n]>> \in preparedStatements
  BY DEF Inv, Parses
<1> QED  BY <1>1, <1>2, <1>3, <1>4 DEF Parses

LEMMA RunCleartextPasswordKeeps ==
  ASSUME Inv, RunCleartextPassword
  PROVE  Inv'
<1>1. /\ queue # <<>> /\ queue' = Tail(queue)
      /\ UNCHANGED <<called, request, inbound, link, reply, serverStatements, listening, answers,
                     queryQueue, preparedStatements, connection, completion, observers, fields,
                     rows, transactionStatus, closing>>
      /\ Head(queue).type = "challenge" /\ Send("password", 0, None, FALSE)
  BY DEF RunCleartextPassword, Ran, At, serverVars, gathered, clientVars
<1>2. /\ queue' \in Seq(TaskRecords) /\ Head(queue) = queue[1] /\ 1 \in 1 .. Len(queue)
      /\ \A i \in 1 .. Len(queue') : i + 1 \in 1 .. Len(queue) /\ queue'[i] = queue[i + 1]
      /\ Has(queue, "challenge") /\ (Has(queue', "ready") => Has(queue, "ready"))
      /\ (Has(queue, "ready") => Has(queue', "ready"))
  BY <1>1, DequeueFacts, DequeueHas
<1>3. /\ toServer = <<>> /\ inbound = <<>> /\ transactionStatus # "idle"
      /\ reply[0] = <<"challenge">>
  BY <1>2 DEF Inv, Turn, LoggedIn
<1>4. ~ Has(queue', "challenge")
  <2>1. ASSUME NEW i \in 1 .. Len(queue'), queue'[i].type = "challenge"
        PROVE  FALSE
    <3>1. i + 1 \in 1 .. Len(queue) /\ queue[i + 1].type = "challenge" /\ i + 1 # 1
      BY <1>2, <2>1
    <3> QED  BY <1>1, <1>2, <3>1 DEF Inv, Turn
  <2> QED  BY <2>1 DEF Has
<1>5. /\ Len(toServer') <= 1 /\ toServer' \in Seq(BodyRecords)
      /\ toServer' # <<>> => link = "up"
      /\ \A i \in 1 .. Len(toServer') :
           /\ toServer'[i].of = 0 /\ toServer'[i].kind \in LoginKinds
           /\ ~ toServer'[i].parse
      /\ writeFailed' \in BOOLEAN /\ (writeFailed' => writeFailed \/ link # "up")
  BY <1>1, <1>3, PasswordSent DEF Inv, Typed
<1>6. /\ Ordered(queryQueue, queue', called)
      /\ \A r : Pending(queryQueue, queue', r) <=> Pending(queryQueue, queue, r)
      /\ \A i \in 1 .. Len(queue') :
           queue'[i].type # "operation" => ~ Pending(queryQueue, queue', queue'[i].id)
  BY <1>1, OtherTaskKeeps
<1>7. Typed'
  BY <1>1, <1>2, <1>5 DEF Inv, Typed
<1>8. Asked'
  BY <1>1 DEF Inv, Asked
<1>9. Queued'
  <2>1. Tasks(queue', called)
    BY <1>2 DEF Inv, Queued, Tasks
  <2> QED  BY <1>1, <1>6, <2>1 DEF Queued
<1>10. Turn'
  <2>1. \A i, j \in 1 .. Len(queue') :
          queue'[i].type = "challenge" /\ queue'[j].type = "challenge" => i = j
    BY <1>4 DEF Has
  <2> QED  BY <1>1, <1>3, <1>4, <1>5, <2>1 DEF Inv, Turn
<1>11. Unstarted'
  <2>1. link # "none"
    BY <1>1, <1>2 DEF Inv, Unstarted
  <2> QED  BY <1>1, <2>1 DEF Inv, Unstarted
<1>12. LoggedIn'
  <2>1. \A i \in 1 .. Len(toServer') :
          IF toServer'[i].of = 0
          THEN /\ toServer'[i].kind \in LoginKinds
               /\ reply[0] \in {<<>>, <<"challenge">>, <<"md5">>}
          ELSE toServer'[i].kind \notin LoginKinds /\ reply[0] = <<"ready">>
    BY <1>3, <1>5
  <2> QED  BY <1>1, <1>2, <1>3, <1>4, <2>1 DEF Inv, LoggedIn
<1>13. Completed'
  <2>1. ErrorsAfter(queue', completion')
    BY <1>1, ErrorsAfterTail
  <2>2. transactionStatus' # "notReady" => Past'
    BY <1>1, <1>2 DEF Inv, Completed, Past
  <2>3. inbound' = <<>> /\ reply' = reply /\ completion' = completion
    BY <1>1, <1>3
  <2>4. LoginFailed' <=> LoginFailed
    BY <1>1, LoginFailedKept
  <2>5. CompletionReportsLogin'
    BY <2>3, <2>4 DEF Inv, Completed, CompletionReportsLogin
  <2>6. writeFailed' => Past' \/ LoginFailed'
    <3>1. CASE writeFailed
      <4>1. Past => Past'
        BY <1>2, <2>3 DEF Past
      <4> QED  BY <2>4, <3>1, <4>1 DEF Inv, Completed
    <3>2. CASE link # "up"
      <4>1. link \in {"broken", "down"} /\ reply[0] # <<"ready">>
        <5>1. link # "none"
          BY <1>1, <1>2 DEF Inv, Unstarted
        <5>2. <<"challenge">> # <<"ready">>
          OBVIOUS
        <5> QED  BY <1>3, <3>2, <5>1, <5>2 DEF Inv, Typed
      <4> QED  BY <2>4, <4>1 DEF LoginFailed
    <3> QED  BY <1>5, <3>1, <3>2
  <2> QED  BY <1>5, <2>1, <2>2, <2>3, <2>4, <2>5, <2>6 DEF Completed, ErrorsAfter
<1>14. Parses'
  BY <1>1, <1>3, <1>5, <1>6, ParsesLogin
<1>15. Observed'
  BY <1>1, <1>6 DEF Inv, Observed, Running, Told, Shared, IsExec
<1> QED  BY <1>7, <1>8, <1>9, <1>10, <1>11, <1>12, <1>13, <1>14, <1>15 DEF Inv

LEMMA ObserverEffect ==
  ASSUME Inv, RunDescription \/ RunRow \/ RunComplete \/ RunErrorResponse
                \/ RunConnectionLost \/ RunPrepared
  PROVE  ObserverRuns
<1> DEFINE t == Head(queue)
           r == t.id
<1>1. queue # <<>> /\ queue' = Tail(queue)
  BY DEF RunDescription, RunRow, RunComplete, RunErrorResponse, RunConnectionLost,
         RunPrepared, Observing, Ran, At
<1>2. t \in TaskRecords /\ t = queue[1] /\ 1 \in 1 .. Len(queue)
  BY <1>1, DequeueFacts
<1>3. /\ t.type \in {"description", "row", "complete", "uncounted", "error", "closed",
                      "parseComplete"}
      /\ r # 0
  BY <1>2 DEF RunDescription, RunRow, RunComplete, RunErrorResponse, RunConnectionLost,
         RunPrepared, At, Inv, Queued, Tasks, Replied
<1>4. /\ r \in Requests /\ t.type \in Events \cup {"uncounted"} /\ t.of \in 0 .. MaxRequests
      /\ t.type \in Replied => t.of \in Requests
  <2>1. r \in Requests /\ t.type \in Events \cup {"uncounted"} /\ t.of \in 0 .. MaxRequests
    BY <1>2, <1>3, Constants DEF TaskRecords, Events
  <2>2. t.type \in Replied => t.of # 0
    BY <1>2, <1>3 DEF Inv, Queued, Tasks
  <2> QED  BY <2>1, <2>2, Constants
<1>5. /\ fields \in [Requests -> 0 .. MaxRequests] /\ rows \in [Requests -> Seq(Requests)]
      /\ observers \in [Events -> SUBSET (0 .. MaxRequests)]
  BY DEF Inv, Typed
<1> HIDE DEF r, t
<1>6. CASE RunDescription
  <2>1. /\ fields' = [fields EXCEPT ![r] = t.of] /\ rows' = rows
        /\ observers' = [observers EXCEPT !["description"] = @ \ {r}]
        /\ UNCHANGED <<listening, answers>>
        /\ UNCHANGED <<called, request, inbound, link, serverVars, clientVars,
                       transactionStatus, closing, toServer, writeFailed>>
    BY <1>6 DEF RunDescription, Observing, Ran, r, t
  <2>2. Gathers(r)
    BY <1>5, <2>1 DEF Gathers, Events
  <2>3. fields' \in [Requests -> 0 .. MaxRequests] /\ rows' \in [Requests -> Seq(Requests)]
    BY <1>4, <1>5, <2>1
  <2> QED  BY <1>1, <1>4, <2>1, <2>2, <2>3 DEF ObserverRuns, r, t
<1>7. CASE RunRow
  <2>1. /\ rows' = [rows EXCEPT ![r] = Append(@, t.of)] /\ fields' = fields
        /\ UNCHANGED <<listening, answers, observers>> /\ t.type = "row"
        /\ UNCHANGED <<called, request, inbound, link, serverVars, clientVars,
                       transactionStatus, closing, toServer, writeFailed>>
    BY <1>7 DEF RunRow, Observing, Ran, At, r, t
  <2>2. Gathers(r)
    BY <1>5, <2>1 DEF Gathers
  <2>3. rows' \in [Requests -> Seq(Requests)]
    <3>1. t.of \in Requests
      BY <1>4, <2>1 DEF Replied
    <3>2. Append(rows[r], t.of) \in Seq(Requests)
      BY <1>4, <1>5, <3>1, AppendFacts
    <3> QED  BY <1>4, <1>5, <2>1, <3>2
  <2> QED  BY <1>1, <1>4, <1>5, <2>1, <2>2, <2>3 DEF ObserverRuns, r, t
<1>8. ASSUME NEW answer \in AnswerRecords, Conclude(r, answer), Forget(r), Observing,
             UNCHANGED gathered
      PROVE  ObserverRuns
  <2>1. Concludes(r)
    BY <1>8 DEF Concludes
  <2>2. /\ fields' = fields /\ rows' = rows
        /\ UNCHANGED <<called, request, inbound, link, serverVars, clientVars,
                       transactionStatus, closing, toServer, writeFailed>>
    BY <1>8 DEF Observing, Ran, gathered
  <2> QED  BY <1>1, <1>4, <1>5, <2>1, <2>2 DEF ObserverRuns, r, t
<1>9. \A a \in AnswerTypes, of \in 0 .. MaxRequests : Answer(a, of) \in AnswerRecords
  BY Constants DEF Answer, AnswerRecords
<1>10. CASE RunComplete
  <2>1. Result(r, t.of) \in AnswerRecords /\ Answer("unreadable", t.of) \in AnswerRecords
    BY <1>4, <1>5, <1>9 DEF Result, AnswerRecords, AnswerTypes
  <2> QED  BY <1>8, <1>10, <2>1 DEF RunComplete, r, t
<1>11. CASE RunErrorResponse
  BY <1>4, <1>8, <1>9, <1>11 DEF RunErrorResponse, AnswerTypes, r, t
<1>12. CASE RunConnectionLost
  BY <1>8, <1>9, <1>12, Constants DEF RunConnectionLost, AnswerTypes, r, t
<1>13. CASE RunPrepared
  BY <1>4, <1>8, <1>9, <1>13 DEF RunPrepared, AnswerTypes, r, t
<1> QED  BY <1>6, <1>7, <1>10, <1>11, <1>12, <1>13

\* An answer goes to the request, or to all that wait for its Query.
LEMMA ConcludeFacts ==
  ASSUME Inv, NEW c \in Requests, NEW answer \in AnswerRecords, Conclude(c, answer)
  PROVE  /\ listening' \subseteq listening /\ answers' \in [Requests -> Seq(AnswerRecords)]
         /\ \A r \in Requests :
              \/ answers'[r] = answers[r] /\ (r \in listening' <=> r \in listening)
              \/ r = c
              \/ /\ request[c].kind # "prepare" /\ r \in listening
                 /\ request[r].query = request[c].query
<1> DEFINE hearing == IF request[c].kind = "prepare" THEN {c} ELSE Listeners(request[c].query)
<1>1. Tell(hearing, answer)
  BY DEF Conclude
<1>2. \A r \in hearing : r = c \/ (/\ request[c].kind # "prepare" /\ r \in listening
                                   /\ request[r].query = request[c].query)
  BY DEF Listeners
<1> HIDE DEF hearing
<1>3. \A r \in Requests : Append(answers[r], answer) \in Seq(AnswerRecords)
  BY AppendFacts DEF Inv, Typed
<1>4. answers' \in [Requests -> Seq(AnswerRecords)] /\ listening' = listening \ hearing
  BY <1>1, <1>3 DEF Tell, Inv, Typed
<1>5. \A r \in Requests : r \notin hearing =>
        answers'[r] = answers[r] /\ (r \in listening' <=> r \in listening)
  BY <1>1, <1>4 DEF Tell
<1> QED  BY <1>2, <1>4, <1>5

LEMMA ObserverRunsKeeps ==
  ASSUME Inv, ObserverRuns
  PROVE  Inv'
<1> DEFINE c == Head(queue).id
<1>1. /\ queue # <<>> /\ queue' = Tail(queue)
      /\ UNCHANGED <<called, request, inbound, link, reply, serverStatements, queryQueue,
                     preparedStatements, connection, completion, transactionStatus, closing,
                     toServer, writeFailed>>
      /\ Head(queue).type \in Events \cup {"uncounted"} /\ c \in Requests
      /\ Gathers(c) \/ Concludes(c)
      /\ fields' \in [Requests -> 0 .. MaxRequests] /\ rows' \in [Requests -> Seq(Requests)]
  BY DEF ObserverRuns, serverVars, clientVars
<1>2. /\ queue' \in Seq(TaskRecords) /\ Head(queue) = queue[1] /\ 1 \in 1 .. Len(queue)
      /\ Head(queue).type \notin {"operation", "ready"} /\ c <= called
      /\ ~ Pending(queryQueue, queue, c)
  <2>1. Head(queue).type \notin {"operation", "ready"}
    BY <1>1 DEF Events
  <2>2. queue' \in Seq(TaskRecords) /\ Head(queue) = queue[1] /\ 1 \in 1 .. Len(queue)
    BY <1>1, DequeueFacts
  <2>3. c \in 0 .. called
    BY <2>2 DEF Inv, Queued, Tasks
  <2>4. ~ Pending(queryQueue, queue, c)
    BY <1>1, <2>1, OtherTaskKeeps
  <2>5. c <= called
    BY <2>3
  <2> QED  BY <2>1, <2>2, <2>4, <2>5
<1> HIDE DEF c
<1>3. /\ observers' \in [Events -> SUBSET (0 .. MaxRequests)]
      /\ \A e \in Events : observers'[e] \subseteq observers[e]
      /\ Concludes(c) => \A e \in Events : observers'[e] = observers[e] \ {c}
      /\ Gathers(c) => \A e \in Events \ {"description"} : observers'[e] = observers[e]
  <2>1. CASE Gathers(c)
    <3>1. \A e \in Events : e = "description" \/ e \in Events \ {"description"}
      OBVIOUS
    <3>2. \A e \in Events : observers'[e] \subseteq observers[e]
      BY <2>1, <3>1 DEF Gathers
    <3>3. Concludes(c) => \A e \in Events : observers'[e] = observers[e] \ {c}
      BY DEF Concludes, Forget
    <3> QED  BY <2>1, <3>2, <3>3 DEF Gathers
  <2>2. CASE Concludes(c)
    BY <2>2 DEF Concludes, Forget, Gathers, Inv, Typed
  <2> QED  BY <1>1, <2>1, <2>2
<1>4. /\ listening' \subseteq listening /\ answers' \in [Requests -> Seq(AnswerRecords)]
      /\ Gathers(c) => UNCHANGED <<answers, listening>>
      /\ Concludes(c) => \A r \in Requests :
           \/ answers'[r] = answers[r] /\ (r \in listening' <=> r \in listening)
           \/ r = c
           \/ /\ request[c].kind # "prepare" /\ r \in listening
              /\ request[r].query = request[c].query
  <2>1. CASE Gathers(c)
    <3>1. UNCHANGED <<answers, listening>>
      BY <2>1 DEF Gathers
    <3> QED  BY <3>1 DEF Inv, Typed
  <2>2. CASE Concludes(c)
    <3>1. PICK answer \in AnswerRecords : Conclude(c, answer)
      BY <2>2 DEF Concludes
    <3>2. Gathers(c) => UNCHANGED <<answers, listening>>
      BY DEF Gathers
    <3> QED  BY <1>1, <3>1, <3>2, ConcludeFacts
  <2> QED  BY <1>1, <2>1, <2>2
<1>5. Turn' /\ LoggedIn' /\ Tasks(queue', called)
  BY <1>1, <1>3, DequeueKeeps
<1>6. /\ Ordered(queryQueue, queue', called)
      /\ \A r : Pending(queryQueue, queue', r) <=> Pending(queryQueue, queue, r)
      /\ \A i \in 1 .. Len(queue') :
           queue'[i].type # "operation" => ~ Pending(queryQueue, queue', queue'[i].id)
  BY <1>1, <1>2, OtherTaskKeeps
<1>7. Typed'
  BY <1>1, <1>2, <1>3, <1>4 DEF Inv, Typed
<1>8. Asked'
  <2>1. ASSUME NEW r \in Requests, r > called
        PROVE  answers'[r] = <<>> /\ r \notin listening'
    <3>1. r \notin listening /\ answers[r] = <<>>
      BY <2>1 DEF Inv, Asked
    <3>2. r # c
      BY <1>1, <1>2, <2>1, Constants DEF Inv, Typed
    <3> QED  BY <1>1, <1>4, <3>1, <3>2
  <2>2. \A e \in Events : observers'[e] \subseteq 0 .. called /\ (e # "closed" => 0 \notin observers'[e])
    BY <1>3 DEF Inv, Asked
  <2> QED  BY <1>1, <2>1, <2>2 DEF Inv, Asked
<1>9. Queued'
  BY <1>1, <1>5, <1>6 DEF Queued
<1>10. Unstarted'
  <2>1. link # "none"
    BY <1>1, <1>2 DEF Inv, Unstarted
  <2> QED  BY <1>1, <2>1 DEF Inv, Unstarted
<1>11. Completed'
  <2>1. Past => Past'
    BY <1>1, <1>2, DequeueHas DEF Past
  <2>2. ErrorsAfter(queue', completion')
    BY <1>1, <1>2, ErrorsAfterTail
  <2>3. LoginFailed' <=> LoginFailed
    BY <1>1, LoginFailedKept
  <2> QED  BY <1>1, <2>1, <2>2, <2>3 DEF Inv, Completed, CompletionReportsLogin, ErrorsAfter
<1>12. Parses'
  BY <1>1, <1>6, ParsesKept
<1>13. Observed'
  <2>1. \A r : Running(r)' => Running(r)
    BY <1>3 DEF Running
  <2>2. \A r \in Requests : Shared(r)' <=> Shared(r)
    BY <1>1 DEF Shared, IsExec
  <2>3. ASSUME NEW r \in Requests, IsExec(r), Pending(queryQueue, queue', r) \/ Running(r)'
        PROVE  Told(r)'
    <3>1. Told(r)
      BY <1>6, <2>1, <2>3 DEF Inv, Observed, IsExec
    <3>2. CASE Gathers(c)
      BY <1>4, <2>2, <3>1, <3>2 DEF Told
    <3>3. CASE Concludes(c)
      <4>1. r # c
        <5>1. CASE Running(r)'
          BY <1>3, <3>3, <5>1 DEF Running
        <5>2. CASE Pending(queryQueue, queue', r)
          BY <1>2, <1>6, <5>2
        <5> QED  BY <2>3, <5>1, <5>2
      <4>2. CASE answers'[r] = answers[r] /\ (r \in listening' <=> r \in listening)
        BY <2>2, <3>1, <4>2 DEF Told
      <4>3. CASE request[c].kind # "prepare" /\ request[r].query = request[c].query
        <5>1. request[c].kind \in Kinds
          BY <1>1, <1>2 DEF Inv, Asked
        <5>2. IsExec(c)
          BY <4>3, <5>1, Constants DEF IsExec
        <5>3. Shared(r)
          BY <1>1, <4>1, <4>3, <5>2 DEF Shared
        <5> QED  BY <2>2, <5>3 DEF Told
      <4> QED  BY <1>4, <3>3, <4>1, <4>2, <4>3
    <3> QED  BY <1>1, <3>2, <3>3
  <2>4. ASSUME NEW r \in Requests, IsExec(r), Running(r)', NEW e \in ExecEvents \ {"description"}
        PROVE  r \in observers'[e]
    <3>1. r \in observers[e] /\ e \in Events \ {"description"}
      BY <2>1, <2>4 DEF Inv, Observed, IsExec, ExecEvents, Events
    <3>2. CASE Gathers(c)
      BY <1>3, <3>1, <3>2
    <3>3. CASE Concludes(c)
      <4>1. r # c
        BY <1>3, <2>4, <3>3 DEF Running
      <4> QED  BY <1>3, <3>1, <3>3, <4>1
    <3> QED  BY <1>1, <3>2, <3>3
  <2>5. \A r \in Requests : Pending(queryQueue, queue', r) => ~ Running(r)'
    BY <1>6, <2>1 DEF Inv, Observed
  <2> QED  BY <1>1, <1>6, <2>3, <2>4, <2>5 DEF Observed, IsExec
<1> QED  BY <1>5, <1>7, <1>8, <1>9, <1>10, <1>11, <1>12, <1>13 DEF Inv

LEMMA DisconnectKeeps ==
  ASSUME Inv, Disconnect
  PROVE  Inv'
<1>1. /\ UNCHANGED <<called, request, listening, answers, queue, queryQueue,
                     preparedStatements, connection, completion, observers, fields, rows,
                     transactionStatus, inbound, link, toServer, writeFailed,
                     serverStatements, reply>>
      /\ closing' = TRUE
  BY DEF Disconnect, programVars, clientVars, gathered, serverVars
<1>2. Typed'
  BY <1>1 DEF Inv, Typed
<1>3. Asked' /\ Queued' /\ Turn' /\ Unstarted'
  BY <1>1 DEF Inv, Asked, Queued, Turn, Unstarted
<1>4. LoggedIn' /\ Completed'
  BY <1>1 DEF Inv, LoggedIn, Completed, CompletionReportsLogin, Past, LoginFailed
<1>5. Parses'
  BY <1>1, ParsesKept
<1>6. Observed'
  BY <1>1 DEF Inv, Observed, Running, Told, Shared, IsExec
<1> QED  BY <1>2, <1>3, <1>4, <1>5, <1>6 DEF Inv

LEMMA StartupKeeps ==
  ASSUME Inv, Startup
  PROVE  Inv'
<1> DEFINE b == [kind |-> "startup", of |-> 0, statement |-> None, parse |-> FALSE]
<1>1. /\ UNCHANGED <<called, request, listening, answers, queue, queryQueue,
                     preparedStatements, fields, rows, transactionStatus, inbound, closing,
                     writeFailed, serverStatements, reply>>
      /\ connection = "none" /\ connection' = "open" /\ completion' = "owed" /\ link' = "up"
      /\ observers' = [observers EXCEPT !["closed"] = {0}]
      /\ toServer' = Append(toServer, b)
  BY DEF Startup, programVars, gathered, serverVars
<1>2. /\ link = "none" /\ inbound = <<>> /\ reply[0] = <<>> /\ completion = "none"
      /\ transactionStatus = "notReady" /\ toServer = <<>> /\ preparedStatements = {}
      /\ ~ writeFailed /\ \A i \in 1 .. Len(queue) : queue[i].type = "operation"
  BY <1>1 DEF Inv, Unstarted, Turn
<1>3. <<>> # <<"ready">> /\ <<>> # <<"fatal">> /\ <<>> # <<"challenge">>
  OBVIOUS
<1>4. /\ b \in BodyRecords /\ toServer' = <<b>>
      /\ toServer' \in Seq(BodyRecords) /\ Len(toServer') <= 1
      /\ \A i \in 1 .. Len(toServer') :
           toServer'[i].of = 0 /\ toServer'[i].kind \in LoginKinds /\ ~ toServer'[i].parse
  <2>1. b \in BodyRecords
    BY Constants DEF BodyRecords, LoginKinds
  <2>2. toServer' = <<b>>
    BY <1>1, <1>2
  <2>3. <<b>> \in Seq(BodyRecords) /\ Len(<<b>>) <= 1
        /\ \A i \in 1 .. Len(<<b>>) :
             <<b>>[i].of = 0 /\ <<b>>[i].kind \in LoginKinds /\ ~ <<b>>[i].parse
    BY <2>1 DEF LoginKinds
  <2> QED  BY <2>1, <2>2, <2>3
<1>5. /\ observers' \in [Events -> SUBSET (0 .. MaxRequests)]
      /\ \A e \in Events : observers'[e] = observers[e] \/ observers'[e] = {0}
      /\ \A e \in Events : e # "closed" => observers'[e] = observers[e]
      /\ \A e \in Events : observers[e] \subseteq {0}
  <2>1. \A e \in Events : observers[e] \subseteq {0}
    BY <1>2, <1>3 DEF Inv, LoggedIn
  <2>2. observers \in [Events -> SUBSET (0 .. MaxRequests)] /\ {0} \in SUBSET (0 .. MaxRequests)
    BY Constants DEF Inv, Typed
  <2>3. observers' \in [Events -> SUBSET (0 .. MaxRequests)]
    BY <1>1, <2>2
  <2>4. \A e \in Events : observers'[e] = observers[e] \/ observers'[e] = {0}
    BY <1>1, <2>2
  <2>5. \A e \in Events : e # "closed" => observers'[e] = observers[e]
    BY <1>1, <2>2
  <2> QED  BY <2>1, <2>3, <2>4, <2>5
<1>6. \A t : t # "operation" => ~ Has(queue, t)
  BY <1>2 DEF Has
<1>7. Typed'
  BY <1>1, <1>4, <1>5 DEF Inv, Typed
<1>8. Asked'
  BY <1>1, <1>5 DEF Inv, Asked, Typed
<1>9. Queued'
  BY <1>1 DEF Inv, Queued
<1>10. Turn'
  BY <1>1, <1>2, <1>4, <1>6 DEF Inv, Turn
<1>11. Unstarted'
  BY <1>1 DEF Unstarted
<1>12. LoggedIn'
  BY <1>1, <1>2, <1>3, <1>4, <1>5, <1>6 DEF Inv, LoggedIn
<1>13. Completed'
  BY <1>1, <1>2, <1>4 DEF Completed, CompletionReportsLogin
<1>14. Parses'
  BY <1>1, <1>2, <1>4, ParsesLogin
<1>15. Observed'
  <2>1. \A r \in Requests : ~ Running(r) /\ ~ Running(r)'
    BY <1>5, Constants DEF Running
  <2> QED  BY <1>1, <2>1 DEF Inv, Observed, Told, Shared, IsExec
<1> QED  BY <1>7, <1>8, <1>9, <1>10, <1>11, <1>12, <1>13, <1>14, <1>15 DEF Inv

\* Parses, when a request is made: the server knows nothing of it yet.
LEMMA CalledParses ==
  ASSUME Inv, NEW r \in Requests, r = called + 1, called' = r, reply[r] = <<>>,
         \A p \in Requests : p # r => request'[p] = request[p],
         UNCHANGED <<toServer, reply, serverStatements, preparedStatements, link>>,
         \A p : Pending(queryQueue', queue', p) => Pending(queryQueue, queue, p) \/ p = r
  PROVE  Parses'
<1>1. StatementsAgree'
  <2>1. \A s : Known(s)' <=> Known(s)
    BY DEF Known
  <2>2. ASSUME NEW s, Refused(s)
        PROVE  Refused(s)'
    <3>1. PICK p \in Requests : request[p].statement = s /\ reply[p] = <<"error", "ready">>
      BY <2>2 DEF Refused
    <3>2. <<"error", "ready">> # <<>>
      OBVIOUS
    <3>3. p # r
      BY <3>1, <3>2
    <3> QED  BY <3>1, <3>3 DEF Refused
  <2>3. \A i \in DOMAIN toServer : Taken(toServer[i])' <=> Taken(toServer[i])
    BY DEF Taken
  <2> QED  BY <2>1, <2>2, <2>3 DEF Inv, Parses, StatementsAgree
<1>2. ASSUME NEW i \in 1 .. Len(toServer)
      PROVE  /\ toServer[i].of \in 0 .. called' /\ ~ Pending(queryQueue', queue', toServer[i].of)
             /\ toServer[i].of # 0 =>
                  toServer[i].statement = request'[toServer[i].of].statement
  <2>1. toServer[i].of \in 0 .. called /\ ~ Pending(queryQueue, queue, toServer[i].of)
        /\ (toServer[i].of # 0 => toServer[i].statement = request[toServer[i].of].statement)
    BY DEF Inv, Parses
  <2>2. called \in 0 .. MaxRequests
    BY DEF Inv, Typed
  <2>3. toServer[i].of # r /\ toServer[i].of \in 0 .. called'
        /\ (toServer[i].of # 0 => toServer[i].of \in Requests)
    BY <2>1, <2>2, Constants
  <2> QED  BY <2>1, <2>3
<1>3. \A i \in 1 .. Len(toServer) :
       /\ toServer[i].of # 0 => reply[toServer[i].of] = <<>>
       /\ toServer[i].of = 0 => ~ toServer[i].parse
       /\ toServer[i].parse /\ toServer[i].statement # None =>
            /\ toServer[i].statement \in preparedStatements
            /\ serverStatements[Name(toServer[i].statement)] = 0
  BY DEF Inv, Parses
<1>4. ASSUME NEW p \in Requests, p > called' \/ Pending(queryQueue', queue', p)
      PROVE  reply[p] = <<>>
  <2>1. called \in 0 .. MaxRequests
    BY DEF Inv, Typed
  <2>2. p > called \/ Pending(queryQueue, queue, p) \/ p = r
    BY <1>4, <2>1, Constants
  <2> QED  BY <2>2 DEF Inv, Parses
<1>5. \A n \in Names : serverStatements[n] # 0 => <<n, serverStatements[n]>> \in preparedStatements
  BY DEF Inv, Parses
<1> QED  BY <1>1, <1>2, <1>3, <1>4, <1>5 DEF Parses

LEMMA CallEffect ==
  ASSUME Inv, NEW r \in Requests, Exec(r) \/ Prepare(r)
  PROVE  \E x : Calls(r, x)
<1>1. /\ request \in [Requests -> [kind : Kinds \cup {"none"}, query : 0 .. MaxRequests,
                                  statement : Statements \cup {None}]]
      /\ MaxRequests \in Nat /\ Requests = 1 .. MaxRequests
  BY Constants DEF Inv, Typed
<1>2. CASE Exec(r)
  <2> DEFINE Asks(kind, q, s) ==
               /\ NewRequest(r, kind, q, s)
               /\ \/ /\ listening' = listening \cup {r} /\ Enqueue(r)
                     /\ UNCHANGED answers
                  \/ /\ Tell(Listeners(q) \cup {r}, Answer("notConnected", 0))
                     /\ UNCHANGED queue
  <2>0. PICK kind \in Kinds \ {"prepare"}, q \in QueriesFor(r) :
          \E s \in StatementsFor(kind) : Asks(kind, q, s)
    BY <1>2 DEF Exec
  <2>1. PICK s \in StatementsFor(kind) : Asks(kind, q, s)
    BY <2>0
  <2> DEFINE x == [kind |-> kind, query |-> q, statement |-> s]
  <2>2. q \in 0 .. MaxRequests
    <3>1. \A p \in 1 .. r - 1 : p \in Requests
      BY <1>1
    <3> QED  BY <1>1, <3>1 DEF QueriesFor
  <2>3. s \in Statements \cup {None} /\ (kind \in {"simple", "extended"} => s = None)
    BY DEF StatementsFor
  <2>4. /\ x \in [kind : Kinds, query : 0 .. MaxRequests, statement : Statements \cup {None}]
        /\ x.kind \in {"simple", "extended"} => x.statement = None
        /\ x.kind # "prepare" /\ x.query = q
    BY <2>2, <2>3
  <2>5. Calls(r, x)
    BY <2>1, <2>4 DEF Calls, NewRequest, Enqueue
  <2> QED  BY <2>5
<1>3. CASE Prepare(r)
  <2>1. PICK s \in StatementsFor("prepare") :
          /\ "prepare" \in Kinds
          /\ NewRequest(r, "prepare", 0, s)
          /\ Enqueue(r)
          /\ UNCHANGED <<listening, answers>>
    BY <1>3 DEF Prepare
  <2> DEFINE x == [kind |-> "prepare", query |-> 0, statement |-> s]
  <2>2. /\ x \in [kind : Kinds, query : 0 .. MaxRequests, statement : Statements \cup {None}]
        /\ x.kind = "prepare"
    BY <1>1, <2>1 DEF StatementsFor
  <2>3. Calls(r, x)
    BY <2>1, <2>2 DEF Calls, NewRequest, Enqueue
  <2> QED  BY <2>3
<1> QED  BY <1>2, <1>3

LEMMA CallsKeeps ==
  ASSUME Inv, NEW r, NEW x, Calls(r, x)
  PROVE  Inv'
<1>1. /\ r \in Requests /\ r = called + 1 /\ called' = r /\ called \in Nat
      /\ request' = [request EXCEPT ![r] = x]
      /\ x \in [kind : Kinds, query : 0 .. MaxRequests, statement : Statements \cup {None}]
      /\ x.kind \in {"simple", "extended"} => x.statement = None
      /\ UNCHANGED <<queryQueue, preparedStatements, connection, completion, observers,
                     fields, rows, transactionStatus, inbound, link, closing, toServer,
                     writeFailed, serverStatements, reply>>
  BY Constants DEF Calls, clientVars, gathered, socketVars, serverVars, Inv, Typed
<1>2. /\ request' \in [Requests -> [kind : Kinds \cup {"none"}, query : 0 .. MaxRequests,
                                    statement : Statements \cup {None}]]
      /\ request'[r] = x
      /\ \A p \in Requests : p # r => request'[p] = request[p]
      /\ x.kind \in Kinds /\ x.kind # "none"
  BY <1>1, Constants DEF Inv, Typed
<1>3. /\ request[r].kind = "none" /\ answers[r] = <<>> /\ r \notin listening
      /\ reply[r] = <<>> /\ ~ Running(r) /\ ~ Pending(queryQueue, queue, r)
  <2>1. r > called /\ r \notin 0 .. called /\ r \notin 1 .. called
    BY <1>1
  <2>2. reply[r] = <<>>
    BY <1>1, <2>1 DEF Inv, Parses
  <2>3. ~ Running(r)
    BY <2>1 DEF Running, Inv, Asked
  <2>4. ~ Pending(queryQueue, queue, r)
    BY <2>1 DEF Pending, Inv, Queued, Ordered
  <2> QED  BY <1>1, <2>1, <2>2, <2>3, <2>4 DEF Inv, Asked
<1> DEFINE task == Task("operation", r, 0)
<1>4. task \in TaskRecords /\ task.type = "operation" /\ task.id = r
  BY <1>1, Constants DEF Task, TaskRecords, TaskTypes
<1>5. CASE /\ queue' = Append(queue, task) /\ answers' = answers
           /\ listening' = IF x.kind = "prepare" THEN listening ELSE listening \cup {r}
  <2>1. /\ queue' \in Seq(TaskRecords) /\ Len(queue) \in Nat
        /\ \A i \in 1 .. Len(queue) : i \in 1 .. Len(queue') /\ queue'[i] = queue[i]
        /\ \A i \in 1 .. Len(queue') :
             \/ i \in 1 .. Len(queue) /\ queue'[i] = queue[i]
             \/ queue'[i] = task
    <3>1. queue \in Seq(TaskRecords)
      BY DEF Inv, Typed
    <3>2. /\ queue' \in Seq(TaskRecords) /\ Len(queue') = Len(queue) + 1 /\ Len(queue) \in Nat
          /\ \A i \in 1 .. Len(queue) : queue'[i] = queue[i]
          /\ queue'[Len(queue) + 1] = task
      BY <1>4, <1>5, <3>1, AppendFacts
    <3>3. \A i \in 1 .. Len(queue') : i \in 1 .. Len(queue) \/ i = Len(queue) + 1
      BY <3>2
    <3>4. \A i \in 1 .. Len(queue) : i \in 1 .. Len(queue')
      BY <3>2
    <3> QED  BY <3>2, <3>3, <3>4
  <2>2. /\ Ordered(queryQueue, queue', called')
        /\ \A p : Pending(queryQueue, queue', p) <=> Pending(queryQueue, queue, p) \/ p = r
    BY <1>1, <1>5, OrderedCall DEF Inv, Typed, Queued
  <2> HIDE DEF task
  <2>3. \A t : t # "operation" => (Has(queue', t) <=> Has(queue, t))
    <3>1. ASSUME NEW t, t # "operation", Has(queue', t)
          PROVE  Has(queue, t)
      BY <1>4, <2>1, <3>1 DEF Has
    <3>2. ASSUME NEW t, Has(queue, t)
          PROVE  Has(queue', t)
      BY <2>1, <3>2 DEF Has
    <3> QED  BY <3>1, <3>2
  <2>4. Typed'
    <3>1. called' \in 0 .. MaxRequests
      BY <1>1, Constants
    <3>2. listening' \subseteq Requests /\ answers' \in [Requests -> Seq(AnswerRecords)]
      BY <1>1, <1>5 DEF Inv, Typed
    <3>3. Typed
      BY DEF Inv
    <3> QED  BY <1>1, <1>2, <2>1, <3>1, <3>2, <3>3 DEF Typed
  <2>5. Asked'
    <3>1. \A p \in Requests : p <= called' => p = r \/ p <= called
      BY <1>1, Constants
    <3>2. \A p \in Requests : p > called' => p # r /\ p > called
      BY <1>1, Constants
    <3>3. 0 .. called \subseteq 0 .. called'
      BY <1>1
    <3>4. \A p \in Requests : p > called' => p \notin listening'
      BY <1>5, <3>2 DEF Inv, Asked
    <3>5. \A p \in Requests : p > called' => request'[p].kind = "none" /\ answers'[p] = <<>>
      BY <1>2, <1>5, <3>2 DEF Inv, Asked
    <3>6. \A p \in Requests : p <= called' => request'[p].kind \in Kinds
      BY <1>2, <3>1 DEF Inv, Asked
    <3>7. \A p \in Requests : request'[p].kind \in {"simple", "extended"}
                               => request'[p].statement = None
      BY <1>1, <1>2 DEF Inv, Asked
    <3>8. \A e \in Events :
            observers'[e] \subseteq 0 .. called' /\ (e # "closed" => 0 \notin observers'[e])
      BY <1>1, <3>3 DEF Inv, Asked
    <3> QED  BY <3>4, <3>5, <3>6, <3>7, <3>8 DEF Asked
  <2>6. Queued'
    <3>1. Tasks(queue', called')
      <4>1. \A i \in 1 .. Len(queue) : queue[i].id \in 0 .. called'
        BY <1>1 DEF Inv, Queued, Tasks
      <4>2. r \in 0 .. called'
        BY <1>1
      <4> QED  BY <1>4, <2>1, <4>1, <4>2 DEF Inv, Queued, Tasks, Replied
    <3> QED  BY <1>1, <2>2, <3>1 DEF Queued
  <2>7. Turn'
    <3>1. \A i, j \in 1 .. Len(queue') :
            queue'[i].type = "challenge" /\ queue'[j].type = "challenge" => i = j
      BY <1>4, <2>1 DEF Inv, Turn
    <3> QED  BY <1>1, <2>3, <3>1 DEF Inv, Turn
  <2>8. Unstarted'
    BY <1>1, <1>4, <2>1 DEF Inv, Unstarted
  <2>9. LoggedIn'
    BY <1>1, <2>3 DEF Inv, LoggedIn
  <2>10. Completed'
    <3>1. ErrorsAfter(queue', completion)
      <4>1. ASSUME NEW i \in 1 .. Len(queue'), queue'[i].type \in {"error", "fatal"}
            PROVE  /\ i \in 1 .. Len(queue) /\ queue'[i] = queue[i]
                   /\ \A j \in 1 .. i - 1 : j \in 1 .. Len(queue) /\ queue'[j] = queue[j]
        <5>1. i \in 1 .. Len(queue) /\ queue'[i] = queue[i]
          BY <1>4, <2>1, <4>1
        <5>2. \A j \in 1 .. i - 1 : j \in 1 .. Len(queue)
          BY <2>1, <5>1
        <5> QED  BY <2>1, <5>1, <5>2
      <4> QED  BY <4>1, SMTT(30) DEF Inv, Completed, ErrorsAfter
    <3>2. Past' <=> Past
      BY <1>1, <2>3 DEF Past
    <3>3. LoginFailed' <=> LoginFailed
      BY <1>1, LoginFailedKept
    <3> QED  BY <1>1, <3>1, <3>2, <3>3 DEF Inv, Completed, CompletionReportsLogin, ErrorsAfter
  <2>11. Parses'
    BY <1>1, <1>2, <1>3, <2>2, CalledParses
  <2>12. Observed'
    <3>1. \A p : Running(p)' <=> Running(p)
      BY <1>1 DEF Running
    <3>2. \A p \in Requests : Pending(queryQueue, queue', p) => ~ Running(p)
      BY <1>3, <2>2 DEF Inv, Observed
    <3>3. ASSUME NEW i \in 1 .. Len(queue'), queue'[i].type # "operation"
          PROVE  ~ Pending(queryQueue, queue', queue'[i].id)
      <4>1. i \in 1 .. Len(queue) /\ queue'[i] = queue[i]
        BY <1>4, <2>1, <3>3
      <4>2. queue[i].id # r
        BY <1>1, <4>1 DEF Inv, Queued, Tasks
      <4> QED  BY <2>2, <3>3, <4>1, <4>2 DEF Inv, Observed
    <3>4. ASSUME NEW p \in Requests, request'[p].kind \in ExecKinds,
                 Pending(queryQueue, queue', p) \/ Running(p)
          PROVE  Told(p)'
      <4>1. CASE p = r
        <5>1. x.kind # "prepare"
          BY <1>2, <3>4, <4>1 DEF ExecKinds
        <5> QED  BY <1>3, <1>5, <4>1, <5>1 DEF Told
      <4>2. CASE p # r
        <5>1. Told(p)
          BY <1>2, <2>2, <3>4, <4>2 DEF Inv, Observed
        <5>2. Shared(p) => Shared(p)'
          BY <1>1, <1>2, <1>3, <4>2 DEF Shared, IsExec, ExecKinds
        <5> QED  BY <1>5, <5>1, <5>2 DEF Told
      <4> QED  BY <4>1, <4>2
    <3>5. \A p \in Requests : request'[p].kind \in ExecKinds /\ Running(p) =>
            \A e \in ExecEvents \ {"description"} : p \in observers[e]
      BY <1>2, <1>3 DEF Inv, Observed
    <3> QED  BY <1>1, <3>1, <3>2, <3>3, <3>4, <3>5 DEF Observed
  <2> QED  BY <2>4, <2>5, <2>6, <2>7, <2>8, <2>9, <2>10, <2>11, <2>12 DEF Inv
<1>6. CASE /\ x.kind # "prepare" /\ queue' = queue
           /\ Tell(Listeners(x.query) \cup {r}, Answer("notConnected", 0))
  <2> DEFINE hearing == Listeners(x.query) \cup {r}
  <2>1. /\ answers' \in [Requests -> Seq(AnswerRecords)] /\ listening' = listening \ hearing
        /\ \A p \in Requests : p \notin hearing =>
             answers'[p] = answers[p] /\ (p \in listening' <=> p \in listening)
        /\ \A p \in hearing : p = r \/ (p \in listening /\ request[p].query = x.query)
    <3>1. Answer("notConnected", 0) \in AnswerRecords
      BY Constants DEF Answer, AnswerRecords, AnswerTypes
    <3>2. \A p \in Requests : Append(answers[p], Answer("notConnected", 0)) \in Seq(AnswerRecords)
      BY <3>1, AppendFacts DEF Inv, Typed
    <3>3. \A p \in hearing : p = r \/ (p \in listening /\ request[p].query = x.query)
      BY DEF Listeners
    <3> HIDE DEF hearing
    <3>4. Tell(hearing, Answer("notConnected", 0))
      BY <1>6 DEF hearing
    <3>5. answers' \in [Requests -> Seq(AnswerRecords)] /\ listening' = listening \ hearing
      BY <3>2, <3>4 DEF Tell, Inv, Typed
    <3>6. \A p \in Requests : p \notin hearing =>
             answers'[p] = answers[p] /\ (p \in listening' <=> p \in listening)
      BY <3>4, <3>5 DEF Tell
    <3> QED  BY <3>3, <3>5, <3>6
  <2> HIDE DEF hearing
  <2>2. /\ Ordered(queryQueue, queue, called') /\ Tasks(queue, called')
        /\ \A p : Pending(queryQueue, queue, p) => p # r
    <3>1. 0 .. called \subseteq 0 .. called' /\ 1 .. called \subseteq 1 .. called'
      BY <1>1
    <3> QED  BY <1>3, <3>1 DEF Inv, Queued, Ordered, Tasks
  <2>3. Typed'
    <3>1. called' \in 0 .. MaxRequests
      BY <1>1, Constants
    <3>2. Typed
      BY DEF Inv
    <3>3. listening' \subseteq Requests /\ queue' \in Seq(TaskRecords)
      BY <1>6, <2>1, <3>2 DEF Typed
    <3> QED  BY <1>1, <1>2, <2>1, <3>1, <3>2, <3>3 DEF Typed
  <2>4. Asked'
    <3>1. \A p \in Requests : p <= called' => p = r \/ p <= called
      BY <1>1, Constants
    <3>2. \A p \in Requests : p > called' => p # r /\ p > called
      BY <1>1, Constants
    <3>3. 0 .. called \subseteq 0 .. called'
      BY <1>1
    <3>4. \A p \in Requests : p > called' => p \notin listening /\ p \notin hearing
      BY <2>1, <3>2 DEF Inv, Asked
    <3>5. \A p \in Requests : p > called' =>
            request'[p].kind = "none" /\ answers'[p] = <<>> /\ p \notin listening'
      BY <1>2, <2>1, <3>2, <3>4 DEF Inv, Asked
    <3>6. \A p \in Requests : p <= called' => request'[p].kind \in Kinds
      BY <1>2, <3>1 DEF Inv, Asked
    <3>7. \A p \in Requests : request'[p].kind \in {"simple", "extended"}
                               => request'[p].statement = None
      BY <1>1, <1>2 DEF Inv, Asked
    <3>8. \A e \in Events :
            observers'[e] \subseteq 0 .. called' /\ (e # "closed" => 0 \notin observers'[e])
      BY <1>1, <3>3 DEF Inv, Asked
    <3> QED  BY <3>5, <3>6, <3>7, <3>8 DEF Asked
  <2>5. Queued'
    BY <1>1, <1>6, <2>2 DEF Queued
  <2>6. Turn' /\ Unstarted'
    BY <1>1, <1>6 DEF Inv, Turn, Unstarted
  <2>7. LoggedIn' /\ Completed'
    BY <1>1, <1>6 DEF Inv, LoggedIn, Completed, CompletionReportsLogin, Past, LoginFailed
  <2>8. Parses'
    BY <1>1, <1>2, <1>3, <1>6, CalledParses
  <2>9. Observed'
    <3>1. \A p : Running(p)' <=> Running(p)
      BY <1>1 DEF Running
    <3>2. ASSUME NEW p \in Requests, request'[p].kind \in ExecKinds,
                 Pending(queryQueue, queue, p) \/ Running(p)
          PROVE  Told(p)'
      <4>1. p # r
        BY <1>3, <2>2, <3>2
      <4>2. Told(p)
        BY <1>2, <3>2, <4>1 DEF Inv, Observed
      <4>3. Shared(p) => Shared(p)'
        BY <1>1, <1>2, <1>3, <4>1 DEF Shared, IsExec, ExecKinds
      <4>4. CASE p \notin hearing
        BY <2>1, <4>2, <4>3, <4>4 DEF Told
      <4>5. CASE p \in hearing
        <5>1. request'[p].query = request'[r].query
          BY <1>2, <2>1, <4>1, <4>5
        <5>2. request'[r].kind \in ExecKinds
          BY <1>2, <1>6, Constants
        <5>3. Shared(p)'
          BY <1>1, <4>1, <5>1, <5>2 DEF Shared, IsExec
        <5> QED  BY <5>3 DEF Told
      <4> QED  BY <4>4, <4>5
    <3>3. \A p \in Requests : request'[p].kind \in ExecKinds /\ Running(p) =>
            \A e \in ExecEvents \ {"description"} : p \in observers[e]
      BY <1>2, <1>3 DEF Inv, Observed
    <3>4. /\ \A p \in Requests : Pending(queryQueue, queue, p) => ~ Running(p)
          /\ \A i \in 1 .. Len(queue) :
               queue[i].type # "operation" => ~ Pending(queryQueue, queue, queue[i].id)
      BY DEF Inv, Observed
    <3> QED  BY <1>1, <1>6, <3>1, <3>2, <3>3, <3>4 DEF Observed
  <2> QED  BY <2>3, <2>4, <2>5, <2>6, <2>7, <2>8, <2>9 DEF Inv
<1> QED  BY <1>5, <1>6 DEF Calls

\* Only an operation is begun that has a statement, if it needs one.
LEMMA ExecuteEffect ==
  ASSUME Inv, RunOperation \/ RunReady
  PROVE  \E ops \in Seq(Requests) : Executed(ops)
<1>1. /\ queue # <<>> /\ queue' = Tail(queue)
      /\ UNCHANGED <<called, request, inbound, link, serverVars, connection, gathered, closing>>
  BY DEF RunOperation, RunReady, At, Ran
<1>2. queryQueue \in Seq(Requests)
  BY DEF Inv, Typed
<1>3. ASSUME NEW ops \in Seq(Requests), ExecuteQuery(ops)
      PROVE  Begins(ops) \/ Rests(ops)
  <2>1. CASE /\ CanExecute /\ ops # <<>> /\ queryQueue' = Tail(ops)
             /\ Operation(Head(ops))
    <3> DEFINE r == Head(ops)
    <3>1. r \in Requests
      BY <2>1, TailFacts
    <3>2. request[r].kind \in {"simple", "extended"} => request[r].statement = None
      BY <3>1 DEF Inv, Asked
    <3> HIDE DEF r
    <3>3. CASE SkipPrepared(r) \/ NameClash(r)
      BY <2>1, <3>3 DEF SkipPrepared, NameClash, Skips, Begins, CanExecute, r
    <3>4. CASE ExecUnnamed(r) \/ ExecPrepared(r) \/ Parse(r)
      <4>1. Sends(r)
        <5>1. CASE ExecUnnamed(r)
          <6>1. request[r].statement = None /\ request[r].kind # "prepare"
            BY <3>2, <5>1 DEF ExecUnnamed
          <6> QED  BY <5>1, <6>1 DEF ExecUnnamed, Transmit, Sends
        <5>2. CASE ExecPrepared(r)
          <6>1. request[r].kind # "prepare"
            BY <5>2 DEF ExecPrepared
          <6> QED  BY <5>2, <6>1 DEF ExecPrepared, Transmit, Sends
        <5>3. CASE Parse(r)
          BY <5>3 DEF Parse, Transmit, Sends
        <5> QED  BY <3>4, <5>1, <5>2, <5>3
      <4> QED  BY <2>1, <4>1 DEF Begins, CanExecute, r
    <3> QED  BY <2>1, <3>3, <3>4 DEF Operation, r
  <2> QED  BY <1>3, <2>1 DEF ExecuteQuery, Rests
<1>4. CASE RunOperation
  <2>1. Head(queue).type = "operation" /\ ExecuteQuery(Append(queryQueue, Head(queue).id))
        /\ completion' = completion
    BY <1>4 DEF RunOperation, At
  <2>2. Head(queue).id \in 1 .. called /\ called \in 0 .. MaxRequests
    <3>1. Head(queue) = queue[1] /\ 1 \in 1 .. Len(queue)
      BY <1>1, DequeueFacts
    <3> QED  BY <2>1, <3>1 DEF Inv, Queued, Ordered, Typed
  <2>3. Head(queue).id \in Requests
    BY <2>2, Constants
  <2>4. Append(queryQueue, Head(queue).id) \in Seq(Requests)
    BY <1>2, <2>3, AppendFacts
  <2>5. Executed(Append(queryQueue, Head(queue).id))
    BY <1>1, <1>3, <2>1, <2>4 DEF Executed
  <2> QED  BY <2>4, <2>5
<1>5. CASE RunReady
  <2>1. Head(queue).type = "ready" /\ ExecuteQuery(queryQueue)
        /\ completion' = IF completion = "owed" THEN "succeeded" ELSE completion
    BY <1>5 DEF RunReady, At
  <2>2. Executed(queryQueue)
    BY <1>1, <1>2, <1>3, <2>1 DEF Executed
  <2> QED  BY <1>2, <2>2
<1> QED  BY <1>4, <1>5

\* The queue, and the completion, whatever the operation does.
LEMMA ExecutedFacts ==
  ASSUME Inv, NEW ops \in Seq(Requests), Executed(ops)
  PROVE  /\ queue' \in Seq(TaskRecords)
         /\ Ordered(ops, queue', called) /\ Tasks(queue', called)
         /\ \A r : Pending(ops, queue', r) <=> Pending(queryQueue, queue, r)
         /\ \A i \in 1 .. Len(queue') :
              queue'[i].type # "operation" => ~ Pending(ops, queue', queue'[i].id)
         /\ completion' \in {"none", "owed", "succeeded", "failed"}
         /\ link = "none" =>
              completion' = completion /\ \A i \in 1 .. Len(queue') : queue'[i].type = "operation"
         /\ Past => Past'
         /\ CompletionReportsLogin' /\ ErrorsAfter(queue', completion')
         /\ LoginFailed' <=> LoginFailed
<1>1. /\ queue # <<>> /\ queue' = Tail(queue) /\ reply' = reply
      /\ \/ /\ Head(queue).type = "operation" /\ ops = Append(queryQueue, Head(queue).id)
            /\ completion' = completion
         \/ /\ Head(queue).type = "ready" /\ ops = queryQueue
            /\ completion' = IF completion = "owed" THEN "succeeded" ELSE completion
  BY DEF Executed, serverVars
<1>2. /\ queue' \in Seq(TaskRecords) /\ Head(queue) = queue[1] /\ 1 \in 1 .. Len(queue)
      /\ \A i \in 1 .. Len(queue') : i + 1 \in 1 .. Len(queue) /\ queue'[i] = queue[i + 1]
  BY <1>1, DequeueFacts
<1>3. /\ Ordered(ops, queue', called)
      /\ \A r : Pending(ops, queue', r) <=> Pending(queryQueue, queue, r)
  <2>1. CASE Head(queue).type = "operation"
    <3>1. Head(queue).id \in 1 .. called /\ called \in 0 .. MaxRequests
      BY <1>2, <2>1 DEF Inv, Queued, Ordered, Typed
    <3>2. Head(queue).id \in Requests /\ called \in Nat
      BY <3>1, Constants
    <3>3. queryQueue \in Seq(Requests) /\ queue \in Seq(TaskRecords)
          /\ Ordered(queryQueue, queue, called)
      BY DEF Inv, Typed, Queued
    <3>4. /\ Ordered(Append(queryQueue, Head(queue).id), Tail(queue), called)
          /\ \A r : Pending(Append(queryQueue, Head(queue).id), Tail(queue), r)
                      <=> Pending(queryQueue, queue, r)
      BY <1>1, <2>1, <3>2, <3>3, OrderedTake
    <3> QED  BY <1>1, <2>1, <3>4
  <2>2. CASE Head(queue).type = "ready"
    BY <1>1, <2>2, DequeueOperations
  <2> QED  BY <1>1, <2>1, <2>2
<1>4. Tasks(queue', called)
  BY <1>2 DEF Inv, Queued, Tasks
<1>5. ASSUME NEW i \in 1 .. Len(queue'), queue'[i].type # "operation"
      PROVE  ~ Pending(ops, queue', queue'[i].id)
  <2>1. ~ Pending(queryQueue, queue, queue'[i].id)
    BY <1>2, <1>5 DEF Inv, Observed
  <2> QED  BY <1>3, <2>1
<1>6. completion' \in {"none", "owed", "succeeded", "failed"}
  BY <1>1 DEF Inv, Typed
<1>7. ASSUME link = "none"
      PROVE  completion' = completion /\ \A i \in 1 .. Len(queue') : queue'[i].type = "operation"
  BY <1>1, <1>2, <1>7 DEF Inv, Unstarted
<1>8. Past => Past'
  BY <1>1, DequeueHas DEF Past
<1>9. CompletionReportsLogin' /\ (LoginFailed' <=> LoginFailed)
  <2>0. LoginFailed' <=> LoginFailed
    BY LoginFailedKept DEF Executed, serverVars
  <2>1. CASE Head(queue).type = "ready"
    <3>1. Has(queue, "ready")
      BY <1>1, <2>1, DequeueHas
    <3>2. reply[0] = <<"ready">>
      BY <3>1 DEF Inv, LoggedIn
    <3>3. completion = "failed" => LoginFailed
      BY DEF Inv, Completed, CompletionReportsLogin
    <3> QED  BY <1>1, <2>0, <2>1, <3>2, <3>3 DEF CompletionReportsLogin
  <2>2. CASE completion' = completion
    BY <1>1, <2>0, <2>2 DEF Inv, Completed, CompletionReportsLogin
  <2> QED  BY <1>1, <2>0, <2>1, <2>2
<1>10. ErrorsAfter(queue', completion')
  <2>1. completion' # "owed" \/ (completion' = completion /\ Head(queue).type # "ready")
    BY <1>1
  <2> QED  BY <1>1, <2>1, ErrorsAfterTail
<1> QED  BY <1>2, <1>3, <1>4, <1>5, <1>6, <1>7, <1>8, <1>9, <1>10

LEMMA RestsKeeps ==
  ASSUME Inv, NEW ops \in Seq(Requests), Executed(ops), Rests(ops)
  PROVE  Inv'
<1>1. /\ queue # <<>> /\ queue' = Tail(queue) /\ queryQueue' = ops
      /\ UNCHANGED <<called, request, inbound, link, serverStatements, reply, connection,
                     fields, rows, closing, answers, listening, preparedStatements,
                     observers, transactionStatus, toServer, writeFailed>>
  BY DEF Executed, Rests, serverVars, gathered
<1>2. /\ queue' \in Seq(TaskRecords)
      /\ Ordered(ops, queue', called) /\ Tasks(queue', called)
      /\ \A r : Pending(ops, queue', r) <=> Pending(queryQueue, queue, r)
      /\ \A i \in 1 .. Len(queue') :
           queue'[i].type # "operation" => ~ Pending(ops, queue', queue'[i].id)
      /\ completion' \in {"none", "owed", "succeeded", "failed"}
      /\ link = "none" =>
           completion' = completion /\ \A i \in 1 .. Len(queue') : queue'[i].type = "operation"
      /\ Past => Past'
      /\ CompletionReportsLogin' /\ ErrorsAfter(queue', completion')
      /\ LoginFailed' <=> LoginFailed
  BY ExecutedFacts
<1>3. Typed'
  BY <1>1, <1>2 DEF Inv, Typed
<1>4. Asked'
  BY <1>1 DEF Inv, Asked
<1>5. Queued'
  BY <1>1, <1>2 DEF Queued
<1>6. Turn' /\ LoggedIn'
  BY <1>1, DequeueKeeps
<1>7. Unstarted'
  BY <1>1, <1>2 DEF Inv, Unstarted
<1>8. Completed'
  BY <1>1, <1>2 DEF Inv, Completed, ErrorsAfter
<1>9. Parses'
  BY <1>1, <1>2, ParsesKept
<1>10. Observed'
  <2>1. \A r : (Running(r)' <=> Running(r)) /\ (Told(r)' <=> Told(r))
    BY <1>1 DEF Running, Told, Shared, IsExec
  <2> QED  BY <1>1, <1>2, <2>1 DEF Inv, Observed
<1> QED  BY <1>3, <1>4, <1>5, <1>6, <1>7, <1>8, <1>9, <1>10 DEF Inv

LEMMA SkipsKeeps ==
  ASSUME Inv, NEW ops \in Seq(Requests), Executed(ops), Begins(ops), Skips(Head(ops))
  PROVE  Inv'
<1> DEFINE c == Head(ops)
<1>1. /\ queue # <<>> /\ queue' = Tail(queue) /\ queryQueue' = Tail(ops) /\ ops # <<>>
      /\ UNCHANGED <<called, request, inbound, link, serverStatements, reply, connection,
                     fields, rows, closing, preparedStatements, observers,
                     transactionStatus, toServer, writeFailed>>
  BY DEF Executed, Begins, Skips, Skip, serverVars, gathered
<1>2. /\ queue' \in Seq(TaskRecords)
      /\ Ordered(ops, queue', called) /\ Tasks(queue', called)
      /\ \A r : Pending(ops, queue', r) <=> Pending(queryQueue, queue, r)
      /\ \A i \in 1 .. Len(queue') :
           queue'[i].type # "operation" => ~ Pending(ops, queue', queue'[i].id)
      /\ completion' \in {"none", "owed", "succeeded", "failed"}
      /\ link = "none" =>
           completion' = completion /\ \A i \in 1 .. Len(queue') : queue'[i].type = "operation"
      /\ Past => Past'
      /\ CompletionReportsLogin' /\ ErrorsAfter(queue', completion')
      /\ LoginFailed' <=> LoginFailed
  BY ExecutedFacts
<1>3. /\ Ordered(queryQueue', queue', called)
      /\ \A r : Pending(queryQueue', queue', r) <=> Pending(queryQueue, queue, r) /\ r # c
      /\ Pending(queryQueue, queue, c) /\ c \in 1 .. called
      /\ queryQueue' \in Seq(Requests) /\ c \in Requests
  <2>1. called \in Nat
    BY Constants DEF Inv, Typed
  <2>2. /\ Ordered(Tail(ops), queue', called)
        /\ Pending(ops, queue', c)
        /\ \A r : Pending(ops, queue', r) => r \in 1 .. called /\ r >= c
        /\ \A r : Pending(Tail(ops), queue', r) <=> Pending(ops, queue', r) /\ r # c
    BY <1>1, <1>2, <2>1, OrderedBegin
  <2>3. Tail(ops) \in Seq(Requests) /\ c \in Requests
    BY <1>1, TailFacts
  <2> HIDE DEF c
  <2> QED  BY <1>1, <1>2, <2>2, <2>3
<1>4. /\ listening' \subseteq listening /\ answers' \in [Requests -> Seq(AnswerRecords)]
      /\ \A r \in Requests :
           \/ answers'[r] = answers[r] /\ (r \in listening' <=> r \in listening)
           \/ r = c
           \/ /\ request[c].kind # "prepare" /\ r \in listening
              /\ request[r].query = request[c].query
  <2>1. PICK t \in {"alreadyPrepared", "nameExists"} : Conclude(c, Answer(t, 0))
    BY DEF Skips, Skip
  <2>2. Answer(t, 0) \in AnswerRecords
    BY Constants DEF Answer, AnswerRecords, AnswerTypes
  <2> HIDE DEF c
  <2> QED  BY <1>3, <2>1, <2>2, ConcludeFacts
<1> HIDE DEF c
<1>5. Typed'
  BY <1>1, <1>2, <1>3, <1>4 DEF Inv, Typed
<1>6. Asked'
  <2>1. ASSUME NEW r \in Requests, r > called
        PROVE  answers'[r] = <<>> /\ r \notin listening'
    <3>1. r \notin listening /\ answers[r] = <<>>
      BY <2>1 DEF Inv, Asked
    <3>2. called \in Nat /\ r \in Nat /\ c <= called
      BY <1>3, Constants DEF Inv, Typed
    <3>3. r # c
      BY <2>1, <3>2
    <3> QED  BY <1>4, <3>1, <3>3
  <2> QED  BY <1>1, <2>1 DEF Inv, Asked
<1>7. Queued'
  BY <1>1, <1>2, <1>3 DEF Queued
<1>8. Turn' /\ LoggedIn'
  BY <1>1, DequeueKeeps
<1>9. Unstarted'
  BY <1>1, <1>2 DEF Inv, Unstarted
<1>10. Completed'
  BY <1>1, <1>2 DEF Inv, Completed, ErrorsAfter
<1>11. Parses'
  BY <1>1, <1>3, ParsesKept
<1>12. Observed'
  <2>1. \A r : (Running(r)' <=> Running(r)) /\ (Shared(r)' <=> Shared(r))
    BY <1>1 DEF Running, Shared, IsExec
  <2>2. ASSUME NEW r \in Requests, request[r].kind \in ExecKinds,
               Pending(queryQueue', queue', r) \/ Running(r)
        PROVE  Told(r)'
    <3>1. Told(r)
      BY <1>3, <2>2 DEF Inv, Observed
    <3>2. r # c
      <4>1. ~ Running(c)
        BY <1>3 DEF Inv, Observed
      <4> QED  BY <1>3, <2>2, <4>1
    <3>3. CASE answers'[r] = answers[r] /\ (r \in listening' <=> r \in listening)
      BY <2>1, <3>1, <3>3 DEF Told
    <3>4. CASE request[c].kind # "prepare" /\ request[r].query = request[c].query
      <4>1. request[c].kind \in Kinds
        BY <1>3 DEF Inv, Asked
      <4>2. IsExec(c)
        BY <3>4, <4>1, Constants DEF IsExec
      <4>3. Shared(r)
        BY <1>3, <3>2, <3>4, <4>2 DEF Shared
      <4> QED  BY <2>1, <4>3 DEF Told
    <3> QED  BY <1>4, <3>2, <3>3, <3>4
  <2>3. \A r \in Requests : Pending(queryQueue', queue', r) => ~ Running(r)
    BY <1>3 DEF Inv, Observed
  <2>4. \A i \in 1 .. Len(queue') :
          queue'[i].type # "operation" => ~ Pending(queryQueue', queue', queue'[i].id)
    BY <1>2, <1>3
  <2>5. \A r \in Requests : request[r].kind \in ExecKinds /\ Running(r) =>
          \A e \in ExecEvents \ {"description"} : r \in observers[e]
    BY DEF Inv, Observed
  <2> QED  BY <1>1, <2>1, <2>2, <2>3, <2>4, <2>5 DEF Observed
<1> QED  BY <1>5, <1>6, <1>7, <1>8, <1>9, <1>10, <1>11, <1>12 DEF Inv

LEMMA SendsKeeps ==
  ASSUME Inv, NEW ops \in Seq(Requests), Executed(ops), Begins(ops), Sends(Head(ops))
  PROVE  Inv'
<1> DEFINE c == Head(ops)
           s == request[c].statement
<1>1. /\ queue # <<>> /\ queue' = Tail(queue) /\ queryQueue' = Tail(ops) /\ ops # <<>>
      /\ connection = "open" /\ transactionStatus = "idle" /\ transactionStatus' = "notReady"
      /\ UNCHANGED <<called, request, inbound, link, serverStatements, reply, connection,
                     fields, rows, closing, listening, answers>>
  BY DEF Executed, Begins, Sends, serverVars, gathered
<1>2. /\ queue' \in Seq(TaskRecords)
      /\ Ordered(ops, queue', called) /\ Tasks(queue', called)
      /\ \A r : Pending(ops, queue', r) <=> Pending(queryQueue, queue, r)
      /\ \A i \in 1 .. Len(queue') :
           queue'[i].type # "operation" => ~ Pending(ops, queue', queue'[i].id)
      /\ completion' \in {"none", "owed", "succeeded", "failed"}
      /\ link = "none" =>
           completion' = completion /\ \A i \in 1 .. Len(queue') : queue'[i].type = "operation"
      /\ Past => Past'
      /\ CompletionReportsLogin' /\ ErrorsAfter(queue', completion')
      /\ LoginFailed' <=> LoginFailed
  BY ExecutedFacts
<1>3. /\ Ordered(queryQueue', queue', called)
      /\ \A r : Pending(queryQueue', queue', r) <=> Pending(queryQueue, queue, r) /\ r # c
      /\ Pending(queryQueue, queue, c) /\ c \in 1 .. called
      /\ queryQueue' \in Seq(Requests) /\ c \in Requests
  <2>1. called \in Nat
    BY Constants DEF Inv, Typed
  <2>2. /\ Ordered(Tail(ops), queue', called)
        /\ Pending(ops, queue', c)
        /\ \A r : Pending(ops, queue', r) => r \in 1 .. called /\ r >= c
        /\ \A r : Pending(Tail(ops), queue', r) <=> Pending(ops, queue', r) /\ r # c
    BY <1>1, <1>2, <2>1, OrderedBegin
  <2>3. Tail(ops) \in Seq(Requests) /\ c \in Requests
    BY <1>1, TailFacts
  <2> HIDE DEF c
  <2> QED  BY <1>1, <1>2, <2>2, <2>3
<1>4. PICK parse \in BOOLEAN :
        /\ Observe(c, IF request[c].kind = "prepare" THEN PrepareEvents ELSE ExecEvents)
        /\ Send(request[c].kind, c, s, parse)
        /\ IF parse /\ s # None
           THEN ~ NameTaken(s) /\ preparedStatements' = preparedStatements \cup {s}
           ELSE UNCHANGED preparedStatements
  BY DEF Sends
<1> DEFINE b == [kind |-> request[c].kind, of |-> c, statement |-> s, parse |-> parse]
<1> HIDE DEF c, s
\* Nothing else has the connection, and the server has accepted the login.
<1>5. /\ toServer = <<>> /\ inbound = <<>> /\ ~ Has(queue, "challenge")
      /\ reply[0] = <<"ready">> /\ Past /\ link # "none" /\ reply[c] = <<>>
  BY <1>1, <1>3 DEF Inv, Turn, LoggedIn, Completed, Unstarted, Parses
<1>6. /\ request[c].kind \in Kinds /\ request[c].kind \notin LoginKinds
      /\ s \in Statements \cup {None} /\ c # 0 /\ c \in 0 .. MaxRequests
  <2>1. request[c].kind \in Kinds
    BY <1>3 DEF Inv, Asked
  <2>2. request[c].kind \notin LoginKinds
    BY <2>1, Constants DEF ExecKinds, LoginKinds
  <2>3. s \in Statements \cup {None}
    BY <1>3 DEF Inv, Typed, s
  <2> QED  BY <1>3, <2>1, <2>2, <2>3, Constants
<1>7. /\ b \in BodyRecords /\ b.of = c /\ b.statement = s /\ b.parse = parse
      /\ b.kind \notin LoginKinds
  BY <1>4, <1>6 DEF BodyRecords
<1>8. /\ toServer' = IF link = "up" THEN <<b>> ELSE <<>>
      /\ writeFailed' \in BOOLEAN
  <2>1. toServer' = IF link = "up" THEN <<b>> ELSE <<>>
    BY <1>4, <1>5 DEF Send
  <2>2. writeFailed' \in BOOLEAN
    BY <1>4, SendFacts DEF Inv, Typed
  <2> QED  BY <2>1, <2>2
<1> HIDE DEF b
<1>9. /\ toServer' \in Seq(BodyRecords) /\ Len(toServer') <= 1
      /\ \A i \in 1 .. Len(toServer') : toServer'[i] = b
      /\ link # "up" => toServer' = <<>>
      /\ link = "up" => 1 \in DOMAIN toServer' /\ toServer'[1] = b
      /\ \A i \in DOMAIN toServer' : i \in 1 .. Len(toServer')
  BY <1>7, <1>8
<1>10. /\ preparedStatements' \subseteq Statements
       /\ preparedStatements \subseteq preparedStatements'
       /\ parse /\ s # None => s \in preparedStatements' /\ ~ NameTaken(s)
       /\ \A p \in preparedStatements' : p \in preparedStatements \/ (p = s /\ parse /\ s # None)
  BY <1>4, <1>6 DEF Inv, Typed
<1>11. /\ observers' \in [Events -> SUBSET (0 .. MaxRequests)]
       /\ \A e \in Events : observers[e] \subseteq observers'[e]
       /\ \A e \in Events : \A r \in observers'[e] : r \in observers[e] \/ r = c
       /\ request[c].kind # "prepare" => \A e \in ExecEvents : c \in observers'[e]
  <2>1. observers \in [Events -> SUBSET (0 .. MaxRequests)]
    BY DEF Inv, Typed
  <2>2. PICK E : /\ observers' = [e \in Events |-> IF e \in E THEN observers[e] \cup {c}
                                                              ELSE observers[e]]
                 /\ request[c].kind # "prepare" => E = ExecEvents
    BY <1>4 DEF Observe
  <2>3. ExecEvents \subseteq Events
    BY DEF ExecEvents, Events
  <2> QED  BY <1>6, <2>1, <2>2, <2>3
<1>12. Typed'
  BY <1>1, <1>2, <1>3, <1>8, <1>9, <1>10, <1>11 DEF Inv, Typed
<1>13. Asked'
  <2>1. \A e \in Events :
          observers'[e] \subseteq 0 .. called /\ (e # "closed" => 0 \notin observers'[e])
    <3>1. c \in 0 .. called
      BY <1>3
    <3> QED  BY <1>6, <1>11, <3>1 DEF Inv, Asked
  <2> QED  BY <1>1, <2>1 DEF Inv, Asked
<1>14. Queued'
  BY <1>1, <1>2, <1>3 DEF Queued
<1>15. \A t : Has(queue', t) => Has(queue, t)
  BY <1>1, DequeueHas
<1>16. Turn'
  <2>1. ~ Has(queue', "challenge")
    BY <1>5, <1>15
  <2>2. \A i, j \in 1 .. Len(queue') :
          queue'[i].type = "challenge" /\ queue'[j].type = "challenge" => i = j
    BY <2>1 DEF Has
  <2>3. inbound' = <<>> /\ Len(inbound') = 0
    BY <1>1, <1>5
  <2> QED  BY <1>1, <1>9, <2>1, <2>2, <2>3 DEF Turn
<1>17. Unstarted'
  BY <1>1, <1>5 DEF Inv, Unstarted
<1>18. LoggedIn'
  <2>1. \A i \in 1 .. Len(toServer') :
          toServer'[i].of # 0 /\ toServer'[i].kind \notin LoginKinds
    BY <1>6, <1>7, <1>9
  <2>2. inbound' = <<>> /\ Len(inbound') = 0 /\ reply'[0] = <<"ready">>
    BY <1>1, <1>5
  <2>3. ~ Has(queue', "challenge")
    BY <1>5, <1>15
  <2> QED  BY <1>1, <2>1, <2>2, <2>3 DEF LoggedIn
<1>19. Completed'
  BY <1>1, <1>2, <1>5 DEF Completed, ErrorsAfter
<1>20. parse /\ s # None => serverStatements[Name(s)] = 0
  <2>1. ASSUME parse, s # None, serverStatements[Name(s)] # 0
        PROVE  FALSE
    <3>1. Name(s) \in Names
      BY <1>6, <2>1 DEF Name, Statements
    <3>2. <<Name(s), serverStatements[Name(s)]>> \in preparedStatements
      BY <2>1, <3>1 DEF Inv, Parses
    <3>3. NameTaken(s)
      BY <3>2 DEF NameTaken, Name
    <3> QED  BY <1>10, <2>1, <3>3
  <2> QED  BY <2>1
<1>21. Parses'
  <2>1. StatementsAgree'
    <3>1. ASSUME link = "up", NEW p \in preparedStatements'
          PROVE  \/ Known(p)' \/ Refused(p)'
                 \/ \E i \in DOMAIN toServer' : toServer'[i].statement = p /\ toServer'[i].parse
      <4>1. CASE p \in preparedStatements
        <5>1. Known(p) \/ Refused(p)
          BY <1>5, <3>1, <4>1 DEF Inv, Parses, StatementsAgree
        <5> QED  BY <1>1, <5>1 DEF Known, Refused
      <4>2. CASE p = s /\ parse
        BY <1>7, <1>9, <3>1, <4>2
      <4> QED  BY <1>10, <4>1, <4>2
    <3>2. ASSUME NEW i \in DOMAIN toServer'
          PROVE  ~ Taken(toServer[i])'
      <4>1. toServer'[i] = b
        BY <1>9
      <4> QED  BY <1>1, <1>7, <1>20, <4>1 DEF Taken
    <3> QED  BY <1>1, <3>1, <3>2 DEF StatementsAgree
  <2>2. ASSUME NEW i \in 1 .. Len(toServer')
        PROVE  /\ toServer'[i].of \in 0 .. called
               /\ ~ Pending(queryQueue', queue', toServer'[i].of)
               /\ toServer'[i].of # 0 =>
                    /\ toServer'[i].statement = request[toServer'[i].of].statement
                    /\ reply[toServer'[i].of] = <<>>
               /\ toServer'[i].of = 0 => ~ toServer'[i].parse
               /\ toServer'[i].parse /\ toServer'[i].statement # None =>
                    /\ toServer'[i].statement \in preparedStatements'
                    /\ serverStatements[Name(toServer'[i].statement)] = 0
    <3>1. /\ toServer'[i] = b /\ c \in 0 .. called /\ s = request[c].statement
          /\ ~ Pending(queryQueue', queue', c)
      BY <1>3, <1>9 DEF s
    <3> QED  BY <1>5, <1>6, <1>7, <1>10, <1>20, <3>1
  <2>3. \A n \in Names :
          serverStatements[n] # 0 => <<n, serverStatements[n]>> \in preparedStatements'
    BY <1>10 DEF Inv, Parses
  <2>4. \A r \in Requests : r > called \/ Pending(queryQueue', queue', r) => reply[r] = <<>>
    BY <1>3 DEF Inv, Parses
  <2> QED  BY <1>1, <2>1, <2>2, <2>3, <2>4 DEF Parses
<1>22. Observed'
  <2>1. \A r : r # c => (Running(r)' <=> Running(r))
    BY <1>11 DEF Running
  <2>2. \A r : Told(r)' <=> Told(r)
    BY <1>1 DEF Told, Shared, IsExec
  <2>3. \A r \in Requests : Pending(queryQueue', queue', r) => ~ Running(r)'
    BY <1>3, <2>1 DEF Inv, Observed
  <2>4. \A i \in 1 .. Len(queue') :
          queue'[i].type # "operation" => ~ Pending(queryQueue', queue', queue'[i].id)
    BY <1>2, <1>3
  <2>5. ASSUME NEW r \in Requests, request[r].kind \in ExecKinds,
               Pending(queryQueue', queue', r) \/ Running(r)'
        PROVE  Told(r)'
    BY <1>3, <2>1, <2>2, <2>5 DEF Inv, Observed
  <2>6. ASSUME NEW r \in Requests, request[r].kind \in ExecKinds, Running(r)',
               NEW e \in ExecEvents \ {"description"}
        PROVE  r \in observers'[e]
    <3>1. CASE r = c
      <4>1. request[c].kind # "prepare"
        BY <2>6, <3>1 DEF ExecKinds
      <4> QED  BY <1>11, <3>1, <4>1
    <3>2. CASE r # c
      <4>1. r \in observers[e] /\ e \in Events
        BY <2>1, <2>6, <3>2 DEF Inv, Observed, ExecEvents, Events
      <4> QED  BY <1>11, <4>1
    <3> QED  BY <3>1, <3>2
  <2> QED  BY <1>1, <2>3, <2>4, <2>5, <2>6 DEF Observed
<1> QED  BY <1>12, <1>13, <1>14, <1>16, <1>17, <1>18, <1>19, <1>21, <1>22 DEF Inv

-----------------------------------------------------------------------------
(***************************************************************************)
(* The theorems.                                                           *)
(***************************************************************************)
LEMMA InitInv == Init => Inv
<1> SUFFICES ASSUME Init
             PROVE  Inv
  OBVIOUS
<1>1. /\ called = 0 /\ listening = {}
      /\ request = [r \in Requests |-> [kind |-> "none", query |-> 0, statement |-> None]]
      /\ answers = [r \in Requests |-> <<>>]
      /\ queue = <<>> /\ queryQueue = <<>> /\ preparedStatements = {}
      /\ connection = "none" /\ completion = "none"
      /\ observers = [e \in Events |-> {}]
      /\ fields = [r \in Requests |-> 0] /\ rows = [r \in Requests |-> <<>>]
      /\ transactionStatus = "notReady" /\ inbound = <<>>
      /\ link = "none" /\ closing = FALSE /\ toServer = <<>> /\ writeFailed = FALSE
      /\ serverStatements = [n \in Names |-> 0]
      /\ reply = [r \in 0 .. MaxRequests |-> <<>>]
  BY DEF Init
<1>2. 0 \in 0 .. MaxRequests /\ 0 \in 0 .. Versions /\ \A r \in Requests : r > 0 /\ r \in 0 .. MaxRequests
  BY Constants
<1>3. /\ Len(queue) = 0 /\ Len(queryQueue) = 0 /\ Len(inbound) = 0 /\ Len(toServer) = 0
      /\ \A t : ~ Has(queue, t)
  <2>1. Len(queue) = 0 /\ Len(queryQueue) = 0 /\ Len(inbound) = 0 /\ Len(toServer) = 0
    BY <1>1
  <2> QED  BY <2>1 DEF Has
<1>4. \A r : ~ Pending(queryQueue, queue, r) /\ ~ Running(r)
  <2>1. \A r : ~ Pending(queryQueue, queue, r)
    BY <1>3 DEF Pending
  <2>2. \A r : ~ Running(r)
    BY <1>1 DEF Running
  <2> QED  BY <2>1, <2>2
<1>5. Typed
  <2>1. /\ <<>> \in Seq(AnswerRecords) /\ <<>> \in Seq(TaskRecords) /\ <<>> \in Seq(Requests)
        /\ <<>> \in Seq(MessageRecords) /\ <<>> \in Seq(BodyRecords) /\ <<>> \in Seq(MessageTypes)
    OBVIOUS
  <2>2. request \in [Requests -> [kind : Kinds \cup {"none"}, query : 0 .. MaxRequests,
                                  statement : Statements \cup {None}]]
    BY <1>1, <1>2
  <2>3. /\ answers \in [Requests -> Seq(AnswerRecords)] /\ rows \in [Requests -> Seq(Requests)]
        /\ fields \in [Requests -> 0 .. MaxRequests]
        /\ observers \in [Events -> SUBSET (0 .. MaxRequests)]
        /\ reply \in [0 .. MaxRequests -> Seq(MessageTypes)]
        /\ serverStatements \in [Names -> 0 .. Versions]
    BY <1>1, <1>2, <2>1
  <2> QED  BY <1>1, <1>2, <2>1, <2>2, <2>3 DEF Typed
<1>6. Asked
  BY <1>1, <1>2 DEF Asked
<1>7. Queued
  BY <1>3 DEF Queued, Ordered, Tasks
<1>8. Turn
  BY <1>1, <1>3 DEF Turn
<1>9. Unstarted
  BY <1>1, <1>2, <1>3 DEF Unstarted
<1>10. LoggedIn
  BY <1>1, <1>2, <1>3 DEF LoggedIn
<1>11. Completed
  BY <1>1, <1>3 DEF Completed, CompletionReportsLogin
<1>12. Parses
  <2>1. StatementsAgree
    BY <1>1 DEF StatementsAgree
  <2>2. \A r \in Requests : reply[r] = <<>>
    BY <1>1, <1>2
  <2>3. \A n \in Names : serverStatements[n] = 0
    BY <1>1
  <2> QED  BY <1>3, <2>1, <2>2, <2>3 DEF Parses
<1>13. Observed
  BY <1>3, <1>4 DEF Observed
<1> QED  BY <1>5, <1>6, <1>7, <1>8, <1>9, <1>10, <1>11, <1>12, <1>13 DEF Inv

LEMMA StutterKeeps ==
  ASSUME Inv, UNCHANGED vars
  PROVE  Inv'
<1>1. UNCHANGED <<called, request, listening, answers, queue, queryQueue, preparedStatements,
                  connection, completion, observers, fields, rows, transactionStatus, inbound,
                  link, closing, toServer, writeFailed, serverStatements, reply>>
  BY DEF vars, programVars, clientVars, gathered, socketVars, serverVars
<1>2. Typed' /\ Asked' /\ Queued' /\ Turn' /\ Unstarted'
  BY <1>1 DEF Inv, Typed, Asked, Queued, Turn, Unstarted
<1>3. LoggedIn' /\ Completed'
  BY <1>1 DEF Inv, LoggedIn, Completed, CompletionReportsLogin, Past, LoginFailed
<1>4. Parses'
  BY <1>1, ParsesKept
<1>5. Observed'
  BY <1>1 DEF Inv, Observed, Running, Told, Shared, IsExec
<1> QED  BY <1>2, <1>3, <1>4, <1>5 DEF Inv

LEMMA StepKeeps == Inv /\ [Next]_vars => Inv'
<1> SUFFICES ASSUME Inv, [Next]_vars
             PROVE  Inv'
  OBVIOUS
<1>1. CASE Program
  <2>1. ASSUME NEW r \in Requests, Exec(r) \/ Prepare(r)
        PROVE  Inv'
    BY <2>1, CallEffect, CallsKeeps
  <2> QED  BY <1>1, <2>1, StartupKeeps, DisconnectKeeps DEF Program
<1>2. CASE Socket
  BY <1>2, SocketEffect, LosesKeeps, ReportsKeeps
<1>3. CASE Serve
  BY <1>3, ServeEffect, ServerRepliesKeeps
<1>4. CASE Process
  BY <1>4, ProcessEffect, ProcessesKeeps
<1>5. CASE RunOperation \/ RunReady
  <2>1. PICK ops \in Seq(Requests) : Executed(ops)
    BY <1>5, ExecuteEffect
  <2>2. CASE Rests(ops)
    BY <2>1, <2>2, RestsKeeps
  <2>3. CASE Begins(ops)
    BY <2>1, <2>3, SkipsKeeps, SendsKeeps DEF Begins
  <2> QED  BY <2>1, <2>2, <2>3 DEF Executed
<1>6. CASE \/ RunDescription \/ RunRow \/ RunComplete \/ RunErrorResponse
           \/ RunConnectionLost \/ RunPrepared
  BY <1>6, ObserverEffect, ObserverRunsKeeps
<1>7. CASE RunError \/ RunClosed \/ RunCleartextPassword
  BY <1>7, RunErrorKeeps, RunClosedKeeps, RunCleartextPasswordKeeps
<1>8. CASE RunTask
  BY <1>5, <1>6, <1>7, <1>8 DEF RunTask
<1>9. CASE UNCHANGED vars
  BY <1>9, StutterKeeps
<1> QED  BY <1>1, <1>2, <1>3, <1>4, <1>8, <1>9 DEF Next

LEMMA InvHolds == Spec => []Inv
  BY InitInv, StepKeeps, PTL DEF Spec

(* Every variable has its type, and the server is never sent a request     *)
(* before it has replied to the one before (executeQuery).                 *)
THEOREM ClientTypeCorrect == Spec => []TypeOK
<1>1. Inv => TypeOK
  BY DEF Inv, Typed, Turn, TypeOK, TaskRecords, MessageRecords, AnswerRecords, BodyRecords
<1> QED  BY <1>1, InvHolds, PTL

(* connect's completion reports what became of the login (the observers    *)
(* of readyForQuery and error that startup registers): it fails only if    *)
(* the server rejected the login or the connection was lost before the     *)
(* login was accepted; no error of a query, and no query that could not be *)
(* written, is taken for the login's, whatever is sent before it is called.*)
THEOREM ClientReportsLogin == Spec => []CompletionReportsLogin
<1>1. Inv => CompletionReportsLogin
  BY DEF Inv, Completed
<1> QED  BY <1>1, InvHolds, PTL

(* While the connection lasts, preparedStatements is what the server knows *)
(* or was asked to parse, and a name is parsed once (exec, prepare).       *)
THEOREM ClientStatementsAgree == Spec => []StatementsAgree
<1>1. Inv => StatementsAgree
  BY DEF Inv, Parses
<1> QED  BY <1>1, InvHolds, PTL

(* The observers of an exec are registered together and removed together,  *)
(* and while they are its callback has not been called and waits, unless   *)
(* another call shares its Query (exec's executeQuery and cleanUp).        *)
THEOREM ClientObservesWhileRunning == Spec => []ObservedWhileRunning
<1>1. Inv => ObservedWhileRunning
  BY DEF Inv, Observed, Told, ObservedWhileRunning, IsExec
<1> QED  BY <1>1, InvHolds, PTL

-----------------------------------------------------------------------------
(***************************************************************************)
(* The client is an executor.                                              *)
(***************************************************************************)

\* x has the connection.
Carries(ts, ib, x) ==
  (\E i \in 1 .. Len(ts) : ts[i].of = x) \/ (\E i \in 1 .. Len(ib) : ib[i].of = x)

LEMMA WaitingOf ==
  ASSUME NEW ops \in Seq(Requests), NEW q \in Seq(TaskRecords), NEW r
  PROVE  r \in {ops[i] : i \in DOMAIN ops}
                 \cup {q[i].id : i \in {j \in DOMAIN q : q[j].type = "operation"}}
           <=> Pending(ops, q, r)
<1>1. DOMAIN ops = 1 .. Len(ops) /\ DOMAIN q = 1 .. Len(q)
  OBVIOUS
<1> QED  BY <1>1 DEF Pending

LEMMA ExchangeOf ==
  ASSUME NEW ts \in Seq(BodyRecords), NEW ib \in Seq(MessageRecords), NEW x
  PROVE  x \in {ts[i].of : i \in DOMAIN ts} \cup {ib[i].of : i \in DOMAIN ib}
           <=> Carries(ts, ib, x)
<1>1. DOMAIN ts = 1 .. Len(ts) /\ DOMAIN ib = 1 .. Len(ib)
  OBVIOUS
<1> QED  BY <1>1 DEF Carries

\* What is mapped to the executor's variables, before and after a step.
LEMMA Mapped ==
  ASSUME Inv, Inv'
  PROVE  /\ \A r : r \in Waiting <=> Pending(queryQueue, queue, r)
         /\ \A r : r \in Waiting' <=> Pending(queryQueue', queue', r)
         /\ \A x : x \in Exchange <=> Carries(toServer, inbound, x)
         /\ \A x : x \in Exchange' <=> Carries(toServer', inbound', x)
<1>1. /\ queryQueue \in Seq(Requests) /\ queue \in Seq(TaskRecords)
      /\ toServer \in Seq(BodyRecords) /\ inbound \in Seq(MessageRecords)
  BY DEF Inv, Typed
<1>2. /\ queryQueue' \in Seq(Requests) /\ queue' \in Seq(TaskRecords)
      /\ toServer' \in Seq(BodyRecords) /\ inbound' \in Seq(MessageRecords)
  BY DEF Inv, Typed
<1>3. \A r : r \in Waiting <=> Pending(queryQueue, queue, r)
  BY <1>1, WaitingOf DEF Waiting
<1>4. \A r : r \in Waiting' <=> Pending(queryQueue', queue', r)
  BY <1>2, WaitingOf DEF Waiting
<1>5. \A x : x \in Exchange <=> Carries(toServer, inbound, x)
  BY <1>1, ExchangeOf DEF Exchange
<1>6. \A x : x \in Exchange' <=> Carries(toServer', inbound', x)
  BY <1>2, ExchangeOf DEF Exchange
<1> QED  BY <1>3, <1>4, <1>5, <1>6

LEMMA MapsToStutter ==
  ASSUME called' = called, Waiting' = Waiting, Exchange' = Exchange,
         reply'[0] = reply[0] \/ 0 \in Exchange
  PROVE  UNCHANGED Promise!vars
<1>1. (reply[0] = <<"ready">> /\ 0 \notin Exchange)' = (reply[0] = <<"ready">> /\ 0 \notin Exchange)
  OBVIOUS
<1> QED  BY <1>1 DEF Promise!vars

LEMMA MapsToEnd ==
  ASSUME called' = called, Waiting' = Waiting, Exchange # {}, Exchange' = {},
         reply'[0] = reply[0]
  PROVE  Promise!Next
<1>1. \/ (reply[0] = <<"ready">> /\ 0 \notin Exchange)'
           = (reply[0] = <<"ready">> /\ 0 \notin Exchange)
      \/ (reply[0] = <<"ready">> /\ 0 \notin Exchange)'
           = (0 \in Exchange \/ (reply[0] = <<"ready">> /\ 0 \notin Exchange))
  OBVIOUS
<1>2. Promise!End
  BY <1>1 DEF Promise!End
<1> QED  BY <1>2 DEF Promise!Next

LEMMA MapsToLogin ==
  ASSUME called' = called, Waiting' = Waiting, Exchange = {}, Exchange' = {0},
         reply'[0] = reply[0], reply[0] # <<"ready">>
  PROVE  Promise!Next
<1>1. Promise!Login
  BY DEF Promise!Login
<1> QED  BY <1>1 DEF Promise!Next

LEMMA MapsToCall ==
  ASSUME called < MaxRequests, called' = called + 1,
         Waiting' = Waiting \/ Waiting' = Waiting \cup {called + 1},
         Exchange' = Exchange, reply' = reply
  PROVE  Promise!Next
<1>1. (reply[0] = <<"ready">> /\ 0 \notin Exchange)' = (reply[0] = <<"ready">> /\ 0 \notin Exchange)
  OBVIOUS
<1>2. Promise!Call
  BY <1>1 DEF Promise!Call
<1> QED  BY <1>2 DEF Promise!Next

LEMMA MapsToBegin ==
  ASSUME NEW r \in 1 .. MaxRequests, r \in Waiting, \A w \in Waiting : r <= w,
         called' = called, Waiting' = Waiting \ {r},
         Exchange = {}, Exchange' \in {{}, {r}}, reply' = reply, reply[0] = <<"ready">>
  PROVE  Promise!Next
<1>1. /\ (reply[0] = <<"ready">> /\ 0 \notin Exchange)
      /\ (reply[0] = <<"ready">> /\ 0 \notin Exchange)'
  BY Constants
<1>2. Promise!Begin(r)
  BY <1>1 DEF Promise!Begin
<1> QED  BY <1>2 DEF Promise!Next

\* The connection carries one exchange, and one is over when what is left of it is gone.
LEMMA Alone ==
  ASSUME Inv, NEW x, NEW y, Carries(toServer, inbound, x), Carries(toServer, inbound, y)
  PROVE  x = y
<1>1. Len(toServer) \in Nat /\ Len(toServer) <= 1 /\ (toServer # <<>> => inbound = <<>>)
  BY DEF Inv, Turn, Typed
<1>2. \A i, j \in 1 .. Len(inbound) : inbound[i].of = inbound[j].of
  BY DEF Inv, Turn
<1>3. \A i, j \in 1 .. Len(toServer) : i = j
  BY <1>1
<1>4. ASSUME NEW i \in 1 .. Len(toServer), NEW j \in 1 .. Len(inbound)
      PROVE  FALSE
  <2>1. toServer # <<>> /\ inbound # <<>>
    <3>1. toServer = <<>> => Len(toServer) = 0
      OBVIOUS
    <3>2. inbound = <<>> => Len(inbound) = 0
      OBVIOUS
    <3> QED  BY <3>1, <3>2
  <2> QED  BY <1>1, <2>1
<1> QED  BY <1>2, <1>3, <1>4 DEF Carries

LEMMA LessMaps ==
  ASSUME Inv, Inv', called' = called, Waiting' = Waiting, reply' = reply,
         Exchange' \subseteq Exchange
  PROVE  [Promise!Next]_(Promise!vars)
<1>1. CASE Exchange' = Exchange
  BY <1>1, MapsToStutter
<1>2. CASE Exchange' # Exchange
  <2>1. \A x, y \in Exchange : x = y
    BY Mapped, Alone
  <2>2. Exchange # {} /\ Exchange' = {}
    BY <1>2, <2>1
  <2> QED  BY <2>2, MapsToEnd
<1> QED  BY <1>1, <1>2

\* A task that has nothing to do with the server.
LEMMA AsideMaps ==
  ASSUME Inv, Inv', UNCHANGED <<called, queryQueue, toServer, inbound, reply>>,
         \A r : Pending(queryQueue, queue', r) <=> Pending(queryQueue, queue, r)
  PROVE  [Promise!Next]_(Promise!vars)
<1>1. Waiting' = Waiting
  <2>1. \A r : r \in Waiting' <=> r \in Waiting
    BY Mapped
  <2>2. \A r \in Waiting : r \in Waiting'
    BY <2>1
  <2> QED  BY <2>1
<1>2. Exchange' = Exchange
  BY DEF Exchange
<1> QED  BY <1>1, <1>2, MapsToStutter

LEMMA LosesMaps ==
  ASSUME Inv, Inv', NEW new, Loses(new)
  PROVE  [Promise!Next]_(Promise!vars)
<1>1. /\ Len(inbound') \in Nat /\ new \in Seq(TaskRecords) /\ queue' = queue \o new
      /\ \A i \in 1 .. Len(inbound') : i \in 1 .. Len(inbound) /\ inbound'[i] = inbound[i]
      /\ toServer' = <<>> /\ ~ Has(new, "operation")
      /\ UNCHANGED <<called, queryQueue, reply>>
  <2>1. inbound' \in Seq(MessageRecords)
    BY DEF Loses
  <2> QED  BY <2>1 DEF Loses, Has, programVars, clientVars, serverVars
<1>2. Waiting' = Waiting
  <2>1. called \in Nat
    BY Constants DEF Inv, Typed
  <2>2. \A r : Pending(queryQueue, queue', r) <=> Pending(queryQueue, queue, r)
    BY <1>1, <2>1, OrderedConcat DEF Inv, Typed, Queued
  <2>3. \A r : r \in Waiting' <=> r \in Waiting
    BY <1>1, <2>2, Mapped
  <2> QED  BY <2>3
<1>3. Exchange' \subseteq Exchange
  <2>1. Len(toServer') = 0
    BY <1>1
  <2>2. \A x : Carries(toServer', inbound', x) => Carries(toServer, inbound, x)
    BY <1>1, <2>1 DEF Carries
  <2> QED  BY <2>2, Mapped
<1> QED  BY <1>1, <1>2, <1>3, LessMaps

LEMMA ReportsMaps ==
  ASSUME Inv, Inv', NEW new \in Seq(TaskRecords), Reports(new)
  PROVE  [Promise!Next]_(Promise!vars)
<1>1. /\ queue' = queue \o new /\ ~ Has(new, "operation")
      /\ UNCHANGED <<called, queryQueue, toServer, inbound, reply>>
  <2>1. \A i \in 1 .. Len(new) : new[i].type = "error"
    BY DEF Reports, Task
  <2> QED  BY <2>1 DEF Reports, Has, programVars, clientVars, serverVars
<1>2. \A r : Pending(queryQueue, queue', r) <=> Pending(queryQueue, queue, r)
  <2>1. called \in Nat
    BY Constants DEF Inv, Typed
  <2> QED  BY <1>1, <2>1, OrderedConcat DEF Inv, Typed, Queued
<1> QED  BY <1>1, <1>2, AsideMaps

LEMMA ProcessesMaps ==
  ASSUME Inv, Inv', NEW new, Processes(new)
  PROVE  [Promise!Next]_(Promise!vars)
<1>1. /\ inbound # <<>> /\ inbound' = Tail(inbound) /\ new \in Seq(TaskRecords)
      /\ queue' = queue \o new
      /\ UNCHANGED <<called, queryQueue, reply>>
      /\ Head(inbound).type = "md5" => Send("password", 0, None, FALSE)
      /\ Head(inbound).type # "md5" => toServer' = toServer
      /\ writeFailed \in BOOLEAN
  BY DEF Processes, programVars, clientVars, serverVars, Inv, Typed
<1>2. ~ Has(new, "operation")
  BY DEF Processes, Has, Events
<1>3. Waiting' = Waiting
  <2>1. called \in Nat
    BY Constants DEF Inv, Typed
  <2>2. \A r : Pending(queryQueue, queue', r) <=> Pending(queryQueue, queue, r)
    BY <1>1, <1>2, <2>1, OrderedConcat DEF Inv, Typed, Queued
  <2>3. \A r : r \in Waiting' <=> r \in Waiting
    BY <1>1, <2>2, Mapped
  <2> QED  BY <2>3
<1>4. /\ toServer = <<>> /\ Head(inbound) = inbound[1] /\ 1 \in 1 .. Len(inbound)
      /\ \A i \in 1 .. Len(inbound') : i + 1 \in 1 .. Len(inbound) /\ inbound'[i] = inbound[i + 1]
  <2>1. inbound \in Seq(MessageRecords)
    BY DEF Inv, Typed
  <2>2. /\ Len(inbound') = Len(inbound) - 1 /\ Len(inbound) \in Nat \ {0}
        /\ \A i \in 1 .. Len(inbound) - 1 : inbound'[i] = inbound[i + 1]
        /\ Head(inbound) = inbound[1]
    BY <1>1, <2>1, TailFacts
  <2>3. toServer = <<>>
    BY <1>1 DEF Inv, Turn
  <2>4. \A i \in 1 .. Len(inbound') : i + 1 \in 1 .. Len(inbound) /\ inbound'[i] = inbound[i + 1]
    BY <2>2
  <2>5. 1 \in 1 .. Len(inbound)
    BY <2>2
  <2> QED  BY <2>2, <2>3, <2>4, <2>5
<1>5. Exchange' \subseteq Exchange
  <2>1. ASSUME NEW x, NEW i \in 1 .. Len(inbound'), inbound'[i].of = x
        PROVE  Carries(toServer, inbound, x)
    BY <1>4, <2>1 DEF Carries
  <2>2. ASSUME NEW x, NEW i \in 1 .. Len(toServer'), toServer'[i].of = x
        PROVE  Carries(toServer, inbound, x)
    <3>1. CASE Head(inbound).type = "md5"
      <4>1. toServer'[i].of = 0
        BY <1>1, <1>4, <2>2, <3>1, PasswordSent
      <4>2. inbound[1].of = 0
        BY <1>4, <3>1 DEF Inv, Turn
      <4> QED  BY <1>4, <2>2, <4>1, <4>2 DEF Carries
    <3>2. CASE Head(inbound).type # "md5"
      BY <1>1, <2>2, <3>2 DEF Carries
    <3> QED  BY <3>1, <3>2
  <2>3. \A x : Carries(toServer', inbound', x) => Carries(toServer, inbound, x)
    BY <2>1, <2>2 DEF Carries
  <2> QED  BY <2>3, Mapped
<1> QED  BY <1>1, <1>3, <1>5, LessMaps

LEMMA ServerRepliesMaps ==
  ASSUME Inv, Inv', NEW types, ServerReplies(types)
  PROVE  [Promise!Next]_(Promise!vars)
<1> DEFINE b == toServer[1]
           new == [i \in DOMAIN types |-> Message(types[i], b.of)]
<1>1. /\ toServer # <<>> /\ toServer' = Tail(toServer) /\ inbound' = inbound \o new
      /\ reply' = [reply EXCEPT ![b.of] = types]
      /\ UNCHANGED <<called, queryQueue, queue>>
  BY DEF ServerReplies, programVars, clientVars
<1>2. /\ toServer \in Seq(BodyRecords) /\ Len(toServer) \in Nat /\ Len(toServer) <= 1
      /\ Len(toServer) # 0 /\ b.of \in 0 .. MaxRequests /\ inbound = <<>>
      /\ reply \in [0 .. MaxRequests -> Seq(MessageTypes)]
  <2>1. toServer \in Seq(BodyRecords) /\ reply \in [0 .. MaxRequests -> Seq(MessageTypes)]
    BY DEF Inv, Typed
  <2>2. Len(toServer) \in Nat \ {0} /\ Head(toServer) = toServer[1] /\ Head(toServer) \in BodyRecords
    BY <1>1, <2>1, TailFacts
  <2>3. b.of \in 0 .. MaxRequests
    BY <2>2 DEF BodyRecords
  <2> QED  BY <1>1, <2>1, <2>2, <2>3 DEF Inv, Turn
<1>3. types \in Seq(MessageTypes) /\ types # <<>>
  <2>1. ASSUME RepliesToLogin(types)
        PROVE  types \in Seq(MessageTypes) /\ types # <<>>
    <3>1. PICK y \in {"challenge", "md5", "ready", "fatal"} : types = <<y>>
      BY <2>1 DEF RepliesToLogin
    <3>2. y \in MessageTypes
      BY DEF MessageTypes
    <3> QED  BY <3>1, <3>2
  <2> QED  BY <2>1 DEF ServerReplies, RepliesToRequest, Burst
<1> HIDE DEF b
<1>4. /\ new \in Seq(MessageRecords) /\ Len(new) = Len(types) /\ Len(types) \in Nat \ {0}
      /\ \A i \in 1 .. Len(new) : new[i].of = b.of
  <2>1. \A i \in 1 .. Len(types) : Message(types[i], b.of) \in MessageRecords
                                   /\ Message(types[i], b.of).of = b.of
    BY <1>2, <1>3 DEF Message, MessageRecords
  <2> QED  BY <1>3, <2>1
<1> HIDE DEF new
<1>5. Len(toServer) = 1
  BY <1>2, One
<1>6. Len(toServer') = 0 /\ inbound' = new
  BY <1>1, <1>2, <1>4, <1>5, TailFacts
<1>7. Exchange' = Exchange
  <2>1. \A x : Carries(toServer', inbound', x) <=> x = b.of
    BY <1>4, <1>6 DEF Carries
  <2>2. \A x : Carries(toServer, inbound, x) <=> x = b.of
    <3>1. Carries(toServer, inbound, b.of)
      BY <1>5 DEF Carries, b
    <3> QED  BY <3>1, Alone
  <2>3. \A x : x \in Exchange' <=> x \in Exchange
    BY <2>1, <2>2, Mapped
  <2> QED  BY <2>3
<1>8. reply'[0] = reply[0] \/ 0 \in Exchange
  <2>1. CASE b.of = 0
    <3>1. Carries(toServer, inbound, 0)
      BY <1>5, <2>1 DEF Carries, b
    <3> QED  BY <3>1, Mapped
  <2>2. CASE b.of # 0
    BY <1>1, <1>2, <2>2, Constants
  <2> QED  BY <2>1, <2>2
<1>9. Waiting' = Waiting
  BY <1>1 DEF Waiting
<1> QED  BY <1>1, <1>7, <1>8, <1>9, MapsToStutter

\* The login is sent, or the password.
LEMMA LoginMaps ==
  ASSUME Inv, Inv', called' = called, Waiting' = Waiting, reply' = reply,
         toServer = <<>>, inbound = <<>>, inbound' = <<>>, reply[0] # <<"ready">>,
         \A i \in 1 .. Len(toServer') : toServer'[i].of = 0
  PROVE  [Promise!Next]_(Promise!vars)
<1>1. Len(toServer) = 0 /\ Len(inbound) = 0 /\ Len(inbound') = 0
  OBVIOUS
<1>2. Exchange = {}
  BY <1>1, Mapped DEF Carries
<1>3. \A x \in Exchange' : x = 0
  BY <1>1, Mapped DEF Carries
<1>4. CASE Exchange' = {}
  BY <1>2, <1>4, MapsToStutter
<1>5. CASE Exchange' # {}
  <2>1. Exchange' = {0}
    BY <1>3, <1>5
  <2> QED  BY <1>2, <2>1, MapsToLogin
<1> QED  BY <1>4, <1>5

LEMMA StartupMaps ==
  ASSUME Inv, Inv', Startup
  PROVE  [Promise!Next]_(Promise!vars)
<1> DEFINE b == [kind |-> "startup", of |-> 0, statement |-> None, parse |-> FALSE]
<1>1. /\ UNCHANGED <<called, queue, queryQueue, inbound, reply>>
      /\ connection = "none" /\ toServer' = Append(toServer, b)
  BY DEF Startup, programVars, serverVars
<1>2. link = "none" /\ inbound = <<>> /\ reply[0] = <<>> /\ toServer = <<>>
  BY <1>1 DEF Inv, Unstarted, Turn
<1>3. \A i \in 1 .. Len(toServer') : toServer'[i].of = 0
  <2>1. toServer' = <<b>>
    BY <1>1, <1>2
  <2>2. \A i \in 1 .. Len(<<b>>) : <<b>>[i].of = 0
    OBVIOUS
  <2> QED  BY <2>1, <2>2
<1>4. <<>> # <<"ready">>
  OBVIOUS
<1>5. Waiting' = Waiting
  BY <1>1 DEF Waiting
<1> QED  BY <1>1, <1>2, <1>3, <1>4, <1>5, LoginMaps

LEMMA RunCleartextPasswordMaps ==
  ASSUME Inv, Inv', RunCleartextPassword
  PROVE  [Promise!Next]_(Promise!vars)
<1>1. /\ queue # <<>> /\ queue' = Tail(queue) /\ Head(queue).type = "challenge"
      /\ Send("password", 0, None, FALSE)
      /\ UNCHANGED <<called, queryQueue, inbound, reply>>
  BY DEF RunCleartextPassword, At, Ran, clientVars, serverVars
<1>2. Has(queue, "challenge")
  BY <1>1, DequeueHas
<1>3. toServer = <<>> /\ inbound = <<>> /\ reply[0] = <<"challenge">>
  BY <1>2 DEF Inv, Turn, LoggedIn
<1>4. <<"challenge">> # <<"ready">>
  OBVIOUS
<1>5. \A i \in 1 .. Len(toServer') : toServer'[i].of = 0
  BY <1>1, <1>3, PasswordSent DEF Inv, Typed
<1>6. Waiting' = Waiting
  <2>1. \A r : Pending(queryQueue, queue', r) <=> Pending(queryQueue, queue, r)
    BY <1>1, OtherTaskKeeps
  <2>2. \A r : r \in Waiting' <=> r \in Waiting
    BY <1>1, <2>1, Mapped
  <2> QED  BY <2>2
<1> QED  BY <1>1, <1>3, <1>4, <1>5, <1>6, LoginMaps

LEMMA CallsMaps ==
  ASSUME Inv, Inv', NEW r, NEW x, Calls(r, x)
  PROVE  [Promise!Next]_(Promise!vars)
<1>1. /\ r = called + 1 /\ called' = r /\ called < MaxRequests /\ called \in Nat
      /\ UNCHANGED <<queryQueue, toServer, inbound, reply>> /\ r \in Requests
  BY Constants DEF Calls, clientVars, serverVars, Inv, Typed
<1>2. Exchange' = Exchange
  BY <1>1 DEF Exchange
<1>3. CASE queue' = queue
  <2>1. Waiting' = Waiting
    BY <1>1, <1>3 DEF Waiting
  <2> QED  BY <1>1, <1>2, <2>1, MapsToCall
<1>4. CASE queue' = Append(queue, Task("operation", r, 0))
  <2>1. \A p : Pending(queryQueue, queue', p) <=> Pending(queryQueue, queue, p) \/ p = r
    BY <1>1, <1>4, OrderedCall DEF Inv, Typed, Queued
  <2>2. \A p : p \in Waiting' <=> p \in Waiting \cup {r}
    BY <1>1, <2>1, Mapped
  <2>3. Waiting' = Waiting \cup {called + 1}
    BY <1>1, <2>2
  <2> QED  BY <1>1, <1>2, <2>3, MapsToCall
<1> QED  BY <1>3, <1>4 DEF Calls

LEMMA ExecutedMaps ==
  ASSUME Inv, Inv', NEW ops \in Seq(Requests), Executed(ops)
  PROVE  [Promise!Next]_(Promise!vars)
<1>1. /\ UNCHANGED <<called, inbound, reply>>
      /\ \A r : Pending(ops, queue', r) <=> Pending(queryQueue, queue, r)
      /\ Ordered(ops, queue', called) /\ queue' \in Seq(TaskRecords)
  BY ExecutedFacts DEF Executed, serverVars
<1>2. CASE Rests(ops)
  <2>1. queryQueue' = ops /\ toServer' = toServer
    BY <1>2 DEF Rests
  <2>2. \A r : r \in Waiting' <=> r \in Waiting
    BY <1>1, <2>1, Mapped
  <2>3. Waiting' = Waiting
    BY <2>2
  <2>4. Exchange' = Exchange
    BY <1>1, <2>1 DEF Exchange
  <2> QED  BY <1>1, <2>3, <2>4, MapsToStutter
<1>3. CASE Begins(ops)
  <2> DEFINE c == Head(ops)
  <2>1. queryQueue' = Tail(ops) /\ ops # <<>> /\ transactionStatus = "idle"
    BY <1>3 DEF Begins
  <2>2. /\ Pending(ops, queue', c)
        /\ \A r : Pending(ops, queue', r) => r \in 1 .. called /\ r >= c
        /\ \A r : Pending(Tail(ops), queue', r) <=> Pending(ops, queue', r) /\ r # c
    <3>1. called \in Nat
      BY Constants DEF Inv, Typed
    <3> QED  BY <1>1, <2>1, <3>1, OrderedBegin
  <2>3. c \in Requests
    BY <2>1, TailFacts
  <2>4. toServer = <<>> /\ inbound = <<>> /\ reply[0] = <<"ready">>
    BY <2>1 DEF Inv, Turn, LoggedIn
  <2>5. \A i \in 1 .. Len(toServer') : toServer'[i].of = c
    <3>1. CASE Skips(c)
      BY <2>4, <3>1 DEF Skips, Skip
    <3>2. CASE Sends(c)
      <4>1. PICK parse \in BOOLEAN : Send(request[c].kind, c, request[c].statement, parse)
        BY <3>2 DEF Sends
      <4> DEFINE b == [kind |-> request[c].kind, of |-> c, statement |-> request[c].statement,
                       parse |-> parse]
      <4>2. b.of = c
        OBVIOUS
      <4>3. toServer' = IF link = "up" THEN Append(<<>>, b) ELSE <<>>
        BY <2>4, <4>1 DEF Send
      <4> HIDE DEF b
      <4>4. toServer' = <<b>> \/ toServer' = <<>>
        BY <4>3
      <4> QED  BY <4>2, <4>4
    <3> QED  BY <1>3, <3>1, <3>2 DEF Begins
  <2> HIDE DEF c
  <2>6. /\ c \in Waiting /\ \A w \in Waiting : c <= w
        /\ \A r : r \in Waiting' <=> r \in Waiting /\ r # c
    <3>1. \A w \in Waiting : w \in 1 .. called /\ w >= c
      BY <1>1, <2>2, Mapped
    <3>2. \A w \in Waiting : c <= w
      BY <2>3, <3>1, Constants
    <3> QED  BY <1>1, <2>1, <2>2, <3>2, Mapped
  <2>7. Waiting' = Waiting \ {c}
    BY <2>6
  <2>8. Exchange = {} /\ \A x \in Exchange' : x = c
    <3>1. Len(toServer) = 0 /\ Len(inbound) = 0 /\ Len(inbound') = 0
      BY <1>1, <2>4
    <3> QED  BY <2>5, <3>1, Mapped DEF Carries
  <2>9. Exchange' \in {{}, {c}}
    BY <2>8
  <2>10. c \in 1 .. MaxRequests
    BY <2>3, Constants
  <2> QED  BY <1>1, <2>4, <2>6, <2>7, <2>8, <2>9, <2>10, MapsToBegin
<1> QED  BY <1>2, <1>3 DEF Executed

LEMMA StepMaps == Inv /\ Inv' /\ [Next]_vars => [Promise!Next]_(Promise!vars)
<1> SUFFICES ASSUME Inv, Inv', [Next]_vars
             PROVE  [Promise!Next]_(Promise!vars)
  OBVIOUS
<1>1. ASSUME UNCHANGED <<called, queryQueue, toServer, inbound, reply, queue>>
      PROVE  [Promise!Next]_(Promise!vars)
  BY <1>1, AsideMaps
<1>2. CASE Program
  <2>1. ASSUME NEW r \in Requests, Exec(r) \/ Prepare(r)
        PROVE  [Promise!Next]_(Promise!vars)
    BY <2>1, CallEffect, CallsMaps
  <2>2. CASE Disconnect
    BY <1>1, <2>2 DEF Disconnect, programVars, clientVars, serverVars
  <2> QED  BY <1>2, <2>1, <2>2, StartupMaps DEF Program
<1>3. CASE Socket
  BY <1>3, SocketEffect, LosesMaps, ReportsMaps
<1>4. CASE Serve
  BY <1>4, ServeEffect, ServerRepliesMaps
<1>5. CASE Process
  BY <1>5, ProcessEffect, ProcessesMaps
<1>6. ASSUME queue # <<>>, queue' = Tail(queue), Head(queue).type # "operation",
             UNCHANGED <<called, queryQueue, toServer, inbound, reply>>
      PROVE  [Promise!Next]_(Promise!vars)
  BY <1>6, OtherTaskKeeps, AsideMaps
<1>7. CASE RunOperation \/ RunReady
  BY <1>7, ExecuteEffect, ExecutedMaps
<1>8. CASE \/ RunDescription \/ RunRow \/ RunComplete \/ RunErrorResponse
           \/ RunConnectionLost \/ RunPrepared
  <2>1. ObserverRuns
    BY <1>8, ObserverEffect
  <2>2. Head(queue).type # "operation"
    BY <2>1 DEF ObserverRuns, Events
  <2> QED  BY <1>6, <2>1, <2>2 DEF ObserverRuns, clientVars, serverVars
<1>9. CASE RunError \/ RunClosed
  BY <1>6, <1>9 DEF RunError, RunClosed, At, Ran, serverVars
<1>10. CASE RunTask
  BY <1>7, <1>8, <1>9, <1>10, RunCleartextPasswordMaps DEF RunTask
<1>11. CASE UNCHANGED vars
  BY <1>1, <1>11 DEF vars, programVars, clientVars, serverVars
<1> QED  BY <1>2, <1>3, <1>4, <1>5, <1>10, <1>11 DEF Next

LEMMA InitMaps == Init => Promise!Init
<1> SUFFICES ASSUME Init
             PROVE  Promise!Init
  OBVIOUS
<1>1. called = 0 /\ Waiting = {} /\ Exchange = {}
  BY DEF Init, Waiting, Exchange
<1>2. reply[0] = <<>>
  BY Constants DEF Init
<1>3. <<>> # <<"ready">>
  OBVIOUS
<1> QED  BY <1>1, <1>2, <1>3 DEF Promise!Init

(* The client is an executor: requests are begun in the order of the calls *)
(* of exec and prepare, not before the server has accepted the login, and  *)
(* only while no other has the connection (executeQuery and queryQueue),   *)
(* whatever the server replies and whenever the connection is lost.        *)
THEOREM ClientExecutes == Spec => Executes
  BY InitMaps, StepMaps, InvHolds, PTL DEF Spec, Executes, Promise!Spec

=============================================================================
