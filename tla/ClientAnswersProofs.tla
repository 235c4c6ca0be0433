------------------------- MODULE ClientAnswersProofs -------------------------
(***************************************************************************)
(* Theorems about Client: the callbacks of exec and prepare are told the   *)
(* outcome of their own request.  The inductive invariant says where the   *)
(* messages of the server's reply to a request are: not yet received, on   *)
(* the client's queue, or gathered by the observers of the request.        *)
(***************************************************************************)
EXTENDS ClientProofs

-----------------------------------------------------------------------------
(***************************************************************************)
(* Counting what a sequence holds.                                         *)
(***************************************************************************)
Holds(q, x) == \E i \in 1 .. Len(q) : q[i] = x

PlacesOf(q, x) == {i \in 1 .. Len(q) : q[i] = x}
NumberOf(q, x) == Cardinality(PlacesOf(q, x))

LEMMA NumberType ==
  ASSUME NEW S, NEW q \in Seq(S), NEW x
  PROVE  /\ IsFiniteSet(PlacesOf(q, x)) /\ NumberOf(q, x) \in Nat
         /\ NumberOf(q, x) = 0 <=> ~ Holds(q, x)
<1>1. Len(q) \in Nat /\ IsFiniteSet(1 .. Len(q))
  BY FS_Interval
<1>2. PlacesOf(q, x) \in SUBSET (1 .. Len(q))
  BY DEF PlacesOf
<1>3. IsFiniteSet(PlacesOf(q, x)) /\ NumberOf(q, x) \in Nat
  BY <1>1, <1>2, FS_Subset, FS_CardinalityType DEF NumberOf
<1>4. NumberOf(q, x) = 0 <=> PlacesOf(q, x) = {}
  BY <1>3, FS_EmptySet DEF NumberOf
<1>5. PlacesOf(q, x) = {} <=> ~ Holds(q, x)
  BY DEF PlacesOf, Holds
<1> QED  BY <1>3, <1>4, <1>5

LEMMA NumberTail ==
  ASSUME NEW S, NEW q \in Seq(S), q # <<>>, NEW x
  PROVE  /\ NumberOf(q, x) = NumberOf(Tail(q), x) + (IF Head(q) = x THEN 1 ELSE 0)
         /\ NumberOf(Tail(q), x) \in Nat
         /\ Holds(q, x) <=> Holds(Tail(q), x) \/ Head(q) = x
<1> DEFINE A == PlacesOf(q, x)
           B == PlacesOf(Tail(q), x)
           f == [i \in B |-> i + 1]
<1>1. /\ Tail(q) \in Seq(S) /\ Len(Tail(q)) = Len(q) - 1 /\ Len(q) \in Nat \ {0}
      /\ \A i \in 1 .. Len(q) - 1 : Tail(q)[i] = q[i + 1]
      /\ Head(q) = q[1]
  BY TailFacts
<1>2. IsFiniteSet(A) /\ IsFiniteSet(B) /\ NumberOf(q, x) \in Nat /\ NumberOf(Tail(q), x) \in Nat
  BY <1>1, NumberType
<1>3. \A i : i \in A <=> i \in 1 .. Len(q) /\ q[i] = x
  BY DEF PlacesOf
<1>4. \A i : i \in B <=> i \in 1 .. Len(q) - 1 /\ q[i + 1] = x
  BY <1>1 DEF PlacesOf
<1> HIDE DEF A, B
<1>5. ExistsBijection(B, A \ {1})
  <2>1. f \in [B -> A \ {1}]
    BY <1>1, <1>3, <1>4
  <2>2. \A i, j \in B : f[i] = f[j] => i = j
    BY <1>4
  <2>3. ASSUME NEW i \in A \ {1}
        PROVE  \E j \in B : f[j] = i
    <3>1. i - 1 \in B /\ f[i - 1] = i
      BY <1>1, <1>3, <1>4
    <3> QED  BY <3>1
  <2>4. f \in Bijection(B, A \ {1})
    BY <2>1, <2>2, <2>3 DEF Bijection, Injection, Surjection, IsInjective
  <2> QED  BY <2>4 DEF ExistsBijection
<1>6. Cardinality(A \ {1}) = Cardinality(B)
  BY <1>2, <1>5, FS_Bijection
<1>7. Cardinality(A \ {1}) = IF 1 \in A THEN Cardinality(A) - 1 ELSE Cardinality(A)
  BY <1>2, FS_RemoveElement
<1>8. 1 \in A <=> Head(q) = x
  BY <1>1, <1>3
<1>9. NumberOf(q, x) = Cardinality(A) /\ NumberOf(Tail(q), x) = Cardinality(B)
  BY DEF NumberOf, A, B
<1>10. NumberOf(q, x) = NumberOf(Tail(q), x) + (IF Head(q) = x THEN 1 ELSE 0)
  BY <1>2, <1>6, <1>7, <1>8, <1>9
<1>11. Holds(q, x) <=> Holds(Tail(q), x) \/ Head(q) = x
  <2>1. NumberOf(q, x) = 0 <=> ~ Holds(q, x)
    BY NumberType
  <2>2. NumberOf(Tail(q), x) = 0 <=> ~ Holds(Tail(q), x)
    BY <1>1, NumberType
  <2> QED  BY <1>2, <1>10, <2>1, <2>2
<1> QED  BY <1>2, <1>10, <1>11

LEMMA NumberConcat ==
  ASSUME NEW S, NEW q \in Seq(S), NEW new \in Seq(S), NEW x
  PROVE  /\ Holds(q \o new, x) <=> Holds(q, x) \/ Holds(new, x)
         /\ ~ Holds(new, x) => NumberOf(q \o new, x) = NumberOf(q, x)
         /\ \A k \in 1 .. Len(new) :
              new[k] = x /\ (\A j \in 1 .. Len(new) : new[j] = x => j = k)
                => NumberOf(q \o new, x) = NumberOf(q, x) + 1
<1> DEFINE A == PlacesOf(q, x)
           B == PlacesOf(q \o new, x)
<1>1. /\ q \o new \in Seq(S) /\ Len(q \o new) = Len(q) + Len(new)
      /\ Len(q) \in Nat /\ Len(new) \in Nat
      /\ \A i \in 1 .. Len(q) : (q \o new)[i] = q[i]
      /\ \A i \in Len(q) + 1 .. Len(q) + Len(new) : (q \o new)[i] = new[i - Len(q)]
  BY ConcatFacts
<1>2. IsFiniteSet(A) /\ NumberOf(q, x) \in Nat /\ NumberOf(q, x) = Cardinality(A)
      /\ NumberOf(q \o new, x) = Cardinality(B)
  BY NumberType DEF NumberOf
<1>3. \A i : i \in A <=> i \in 1 .. Len(q) /\ q[i] = x
  BY DEF PlacesOf
<1>4. \A i : i \in B <=> i \in A \/ (i \in Len(q) + 1 .. Len(q) + Len(new) /\ new[i - Len(q)] = x)
  <2>1. \A i : i \in B <=> i \in 1 .. Len(q) + Len(new) /\ (q \o new)[i] = x
    BY <1>1 DEF PlacesOf
  <2>2. \A i \in 1 .. Len(q) + Len(new) : i \in 1 .. Len(q) \/ i \in Len(q) + 1 .. Len(q) + Len(new)
    BY <1>1
  <2> QED  BY <1>1, <1>3, <2>1, <2>2
<1>5. Holds(q, x) <=> A # {}
  BY DEF Holds, PlacesOf
<1>6. Holds(q \o new, x) <=> B # {}
  BY DEF Holds, PlacesOf
<1> HIDE DEF A, B
<1>7. \A j \in 1 .. Len(new) : j + Len(q) \in Len(q) + 1 .. Len(q) + Len(new)
                              /\ (j + Len(q)) - Len(q) = j
  BY <1>1
<1>8. \A i \in Len(q) + 1 .. Len(q) + Len(new) : i - Len(q) \in 1 .. Len(new)
  BY <1>1
<1>9. Holds(q \o new, x) <=> Holds(q, x) \/ Holds(new, x)
  BY <1>4, <1>5, <1>6, <1>7, <1>8 DEF Holds
<1>10. ASSUME ~ Holds(new, x)
       PROVE  NumberOf(q \o new, x) = NumberOf(q, x)
  <2>1. B = A
    BY <1>4, <1>8, <1>10 DEF Holds
  <2> QED  BY <1>2, <2>1
<1>11. ASSUME NEW k \in 1 .. Len(new), new[k] = x, \A j \in 1 .. Len(new) : new[j] = x => j = k
       PROVE  NumberOf(q \o new, x) = NumberOf(q, x) + 1
  <2>1. \A i \in Len(q) + 1 .. Len(q) + Len(new) : new[i - Len(q)] = x => i = k + Len(q)
    BY <1>1, <1>8, <1>11
  <2>2. B = A \cup {k + Len(q)}
    BY <1>4, <1>7, <1>11, <2>1
  <2>3. k + Len(q) \notin A
    BY <1>1, <1>3
  <2> QED  BY <1>2, <2>2, <2>3, FS_AddElement
<1> QED  BY <1>9, <1>10, <1>11

\* What is cut off a sequence, or renamed in it, may not matter.
LEMMA NumberSame ==
  ASSUME NEW p, NEW q, NEW x, NEW y,
         \A i : i \in 1 .. Len(p) /\ p[i] = x <=> i \in 1 .. Len(q) /\ q[i] = y
  PROVE  NumberOf(p, x) = NumberOf(q, y) /\ (Holds(p, x) <=> Holds(q, y))
<1>1. PlacesOf(p, x) = PlacesOf(q, y)
  BY DEF PlacesOf
<1> QED  BY <1>1 DEF NumberOf, Holds

-----------------------------------------------------------------------------
(***************************************************************************)
(* The tasks of a request r of kind k on a queue.  Those that conclude it  *)
(* are about its own reply; others of its observers may follow them.       *)
(***************************************************************************)
EndsOf(k) == IF k = "prepare" THEN {"parseComplete", "error"}
                              ELSE {"complete", "uncounted", "error"}

Ends(t, k, r) == t.type \in EndsOf(k) /\ t.id = r /\ t.of = r

Ended(q, k, r) == \E i \in 1 .. Len(q) : Ends(q[i], k, r)

\* Tasks of other replies come after one that concludes the request ...
OwnFirst(q, k, r) ==
  \A i \in 1 .. Len(q) : q[i].type \in Replied /\ q[i].id = r /\ q[i].of # r =>
    \E j \in 1 .. i - 1 : Ends(q[j], k, r)

\* ... and tasks of its own before it.
EndsLast(q, k, r) ==
  \A i, j \in 1 .. Len(q) : i < j /\ Ends(q[i], k, r) /\ q[j].id = r /\ q[j].of = r =>
    q[j].type \notin EndsOf(k) \cup {"description", "row"}

LEMMA SiftTail ==
  ASSUME NEW q \in Seq(TaskRecords), q # <<>>, NEW k, NEW r
  PROVE  /\ Ended(Tail(q), k, r) => Ended(q, k, r)
         /\ EndsLast(q, k, r) => EndsLast(Tail(q), k, r)
         /\ ~ Ends(Head(q), k, r) =>
              /\ Ended(q, k, r) => Ended(Tail(q), k, r)
              /\ OwnFirst(q, k, r) => OwnFirst(Tail(q), k, r)
<1>1. /\ Len(Tail(q)) = Len(q) - 1 /\ Len(q) \in Nat \ {0}
      /\ \A i \in 1 .. Len(q) - 1 : Tail(q)[i] = q[i + 1] /\ i + 1 \in 1 .. Len(q)
      /\ Head(q) = q[1]
  BY TailFacts
<1>2. Ended(Tail(q), k, r) => Ended(q, k, r)
  BY <1>1 DEF Ended
<1>3. ASSUME EndsLast(q, k, r)
      PROVE  EndsLast(Tail(q), k, r)
  <2>1. ASSUME NEW i \in 1 .. Len(q) - 1, NEW j \in 1 .. Len(q) - 1, i < j,
               Ends(q[i + 1], k, r), q[j + 1].id = r, q[j + 1].of = r
        PROVE  q[j + 1].type \notin EndsOf(k) \cup {"description", "row"}
    <3>1. i + 1 \in 1 .. Len(q) /\ j + 1 \in 1 .. Len(q) /\ i + 1 < j + 1
      BY <1>1, <2>1
    <3> QED  BY <1>3, <2>1, <3>1 DEF EndsLast
  <2> QED  BY <1>1, <2>1 DEF EndsLast
<1>4. ASSUME ~ Ends(Head(q), k, r), Ended(q, k, r)
      PROVE  Ended(Tail(q), k, r)
  <2>1. PICK i \in 1 .. Len(q) : Ends(q[i], k, r)
    BY <1>4 DEF Ended
  <2>2. i - 1 \in 1 .. Len(Tail(q)) /\ Tail(q)[i - 1] = q[i]
    BY <1>1, <1>4, <2>1
  <2> QED  BY <2>1, <2>2 DEF Ended
<1>5. ASSUME ~ Ends(Head(q), k, r), OwnFirst(q, k, r)
      PROVE  OwnFirst(Tail(q), k, r)
  <2>1. ASSUME NEW i \in 1 .. Len(Tail(q)), Tail(q)[i].type \in Replied,
               Tail(q)[i].id = r, Tail(q)[i].of # r
        PROVE  \E j \in 1 .. i - 1 : Ends(Tail(q)[j], k, r)
    <3>1. i + 1 \in 1 .. Len(q) /\ Tail(q)[i] = q[i + 1]
      BY <1>1
    <3>2. PICK j \in 1 .. (i + 1) - 1 : Ends(q[j], k, r)
      BY <1>5, <2>1, <3>1 DEF OwnFirst
    <3>3. j - 1 \in 1 .. i - 1 /\ Tail(q)[j - 1] = q[j]
      BY <1>1, <1>5, <3>1, <3>2
    <3> QED  BY <3>2, <3>3
  <2> QED  BY <2>1 DEF OwnFirst
<1> QED  BY <1>2, <1>3, <1>4, <1>5

LEMMA SiftHead ==
  ASSUME NEW q \in Seq(TaskRecords), q # <<>>, NEW k, NEW r
  PROVE  /\ OwnFirst(q, k, r) /\ Head(q).type \in Replied /\ Head(q).id = r => Head(q).of = r
         /\ EndsLast(q, k, r) /\ Ends(Head(q), k, r) =>
              \A i \in 1 .. Len(Tail(q)) :
                Tail(q)[i].id = r /\ Tail(q)[i].of = r =>
                  Tail(q)[i].type \notin EndsOf(k) \cup {"description", "row"}
<1>1. /\ Len(Tail(q)) = Len(q) - 1 /\ Len(q) \in Nat \ {0}
      /\ \A i \in 1 .. Len(q) - 1 : Tail(q)[i] = q[i + 1] /\ i + 1 \in 2 .. Len(q)
      /\ Head(q) = q[1] /\ 1 \in 1 .. Len(q)
  BY TailFacts
<1>2. ASSUME OwnFirst(q, k, r), Head(q).type \in Replied, Head(q).id = r, Head(q).of # r
      PROVE  FALSE
  <2>1. PICK j \in 1 .. 1 - 1 : Ends(q[j], k, r)
    BY <1>1, <1>2 DEF OwnFirst
  <2> QED  BY <2>1
<1>3. ASSUME EndsLast(q, k, r), Ends(Head(q), k, r), NEW i \in 1 .. Len(Tail(q)),
             Tail(q)[i].id = r, Tail(q)[i].of = r
      PROVE  Tail(q)[i].type \notin EndsOf(k) \cup {"description", "row"}
  <2>1. i + 1 \in 1 .. Len(q) /\ 1 < i + 1 /\ Tail(q)[i] = q[i + 1]
    BY <1>1
  <2> QED  BY <1>1, <1>3, <2>1 DEF EndsLast
<1> QED  BY <1>2, <1>3

LEMMA SiftConcat ==
  ASSUME NEW q \in Seq(TaskRecords), NEW new \in Seq(TaskRecords), NEW k, NEW r
  PROVE  /\ Ended(q \o new, k, r) <=> Ended(q, k, r) \/ Ended(new, k, r)
         /\ /\ OwnFirst(q, k, r)
            /\ \A i \in 1 .. Len(new) :
                 new[i].type \in Replied /\ new[i].id = r /\ new[i].of # r => Ended(q, k, r)
            => OwnFirst(q \o new, k, r)
         /\ /\ EndsLast(q, k, r)
            /\ \A i, j \in 1 .. Len(new) : new[i].id = r /\ new[j].id = r => i = j
            /\ \A i \in 1 .. Len(new) :
                 new[i].id = r /\ new[i].of = r
                   /\ new[i].type \in EndsOf(k) \cup {"description", "row"} => ~ Ended(q, k, r)
            => EndsLast(q \o new, k, r)
<1>1. /\ Len(q \o new) = Len(q) + Len(new) /\ Len(q) \in Nat /\ Len(new) \in Nat
      /\ \A i \in 1 .. Len(q) : (q \o new)[i] = q[i]
      /\ \A i \in Len(q) + 1 .. Len(q) + Len(new) : (q \o new)[i] = new[i - Len(q)]
  BY ConcatFacts
<1> DEFINE qn == q \o new
<1>2. \A i \in 1 .. Len(qn) :
        \/ i \in 1 .. Len(q) /\ qn[i] = q[i]
        \/ i - Len(q) \in 1 .. Len(new) /\ i > Len(q) /\ qn[i] = new[i - Len(q)]
  BY <1>1
<1>3. \A i \in 1 .. Len(q) : i \in 1 .. Len(qn) /\ qn[i] = q[i]
  BY <1>1
<1>4. \A i \in 1 .. Len(new) : i + Len(q) \in 1 .. Len(qn) /\ qn[i + Len(q)] = new[i]
  <2>1. ASSUME NEW i \in 1 .. Len(new)
        PROVE  i + Len(q) \in Len(q) + 1 .. Len(q) + Len(new) /\ (i + Len(q)) - Len(q) = i
               /\ i + Len(q) \in 1 .. Len(qn)
    BY <1>1
  <2> QED  BY <1>1, <2>1
<1>5. Len(q) \in Nat
  BY <1>1
<1> HIDE DEF qn
<1>6. Ended(qn, k, r) <=> Ended(q, k, r) \/ Ended(new, k, r)
  BY <1>2, <1>3, <1>4 DEF Ended
<1>7. ASSUME OwnFirst(q, k, r),
             \A i \in 1 .. Len(new) :
               new[i].type \in Replied /\ new[i].id = r /\ new[i].of # r => Ended(q, k, r)
      PROVE  OwnFirst(qn, k, r)
  <2>1. ASSUME NEW i \in 1 .. Len(qn), qn[i].type \in Replied, qn[i].id = r, qn[i].of # r
        PROVE  \E j \in 1 .. i - 1 : Ends(qn[j], k, r)
    <3>1. CASE i \in 1 .. Len(q) /\ qn[i] = q[i]
      <4>1. PICK j \in 1 .. i - 1 : Ends(q[j], k, r)
        BY <1>7, <2>1, <3>1 DEF OwnFirst
      <4>2. j \in 1 .. Len(q)
        BY <1>5, <3>1, <4>1
      <4> QED  BY <1>3, <4>1, <4>2
    <3>2. CASE i - Len(q) \in 1 .. Len(new) /\ i > Len(q) /\ qn[i] = new[i - Len(q)]
      <4>1. PICK j \in 1 .. Len(q) : Ends(q[j], k, r)
        BY <1>7, <2>1, <3>2 DEF Ended
      <4>2. j \in 1 .. i - 1
        BY <1>5, <3>2, <4>1
      <4> QED  BY <1>3, <4>1, <4>2
    <3> QED  BY <1>2, <3>1, <3>2
  <2> QED  BY <2>1 DEF OwnFirst
<1>8. ASSUME EndsLast(q, k, r),
             \A i, j \in 1 .. Len(new) : new[i].id = r /\ new[j].id = r => i = j,
             \A i \in 1 .. Len(new) :
               new[i].id = r /\ new[i].of = r
                 /\ new[i].type \in EndsOf(k) \cup {"description", "row"} => ~ Ended(q, k, r)
      PROVE  EndsLast(qn, k, r)
  <2>1. ASSUME NEW i \in 1 .. Len(qn), NEW j \in 1 .. Len(qn), i < j,
               Ends(qn[i], k, r), qn[j].id = r, qn[j].of = r,
               qn[j].type \in EndsOf(k) \cup {"description", "row"}
        PROVE  FALSE
    <3>1. CASE j \in 1 .. Len(q) /\ qn[j] = q[j]
      <4>1. i \in 1 .. Len(q) /\ qn[i] = q[i]
        BY <1>3, <1>5, <2>1, <3>1
      <4> QED  BY <1>8, <2>1, <3>1, <4>1 DEF EndsLast
    <3>2. CASE j - Len(q) \in 1 .. Len(new) /\ j > Len(q) /\ qn[j] = new[j - Len(q)]
      <4>1. ~ Ended(q, k, r)
        BY <1>8, <2>1, <3>2
      <4>2. CASE i \in 1 .. Len(q) /\ qn[i] = q[i]
        BY <2>1, <4>1, <4>2 DEF Ended
      <4>3. CASE i - Len(q) \in 1 .. Len(new) /\ i > Len(q) /\ qn[i] = new[i - Len(q)]
        <5>1. new[i - Len(q)].id = r /\ new[j - Len(q)].id = r
          BY <2>1, <3>2, <4>3 DEF Ends
        <5>2. i - Len(q) = j - Len(q)
          BY <1>8, <3>2, <4>3, <5>1
        <5> QED  BY <1>5, <2>1, <5>2
      <4> QED  BY <1>2, <4>2, <4>3
    <3> QED  BY <1>2, <3>1, <3>2
  <2> QED  BY <2>1 DEF EndsLast
<1> QED  BY <1>6, <1>7, <1>8 DEF qn

-----------------------------------------------------------------------------
(***************************************************************************)
(* The inductive invariant, on top of that of ClientProofs.                *)
(***************************************************************************)
Kind(r)      == request[r].kind
IsPrepare(r) == Kind(r) = "prepare"
Waits(r)     == Pending(queryQueue, queue, r)

\* The server's reply is not one the client recognises as an outcome.
Silent(r) == reply[r] # <<>> /\ ~ Said(r, EndsOf(Kind(r)) \cup {"fatal"})

\* Only its own callback hears of the request.
Sole(r) == IsPrepare(r) \/ (IsExec(r) /\ ~ Shared(r))

\* The request is to be told its own outcome.
Owns(r) == Running(r) /\ Sole(r) /\ ~ Silent(r)

\* Who has a Query of its own, what is sent for whom, and who is answered.
Asking ==
  /\ ~ ShareQueries => \A r \in Requests : IsExec(r) => request[r].query = r
  /\ \A i \in 1 .. Len(toServer) : toServer[i].of # 0 =>
       /\ toServer[i].kind = Kind(toServer[i].of)
       /\ toServer[i].kind = "prepare" => toServer[i].parse
  /\ \A r \in Requests : IsPrepare(r) \/ "empty" \notin Replies => ~ Silent(r)

\* Messages and tasks are of what the server replied.
Cause(t) == IF t = "error" THEN {"error", "fatal"} ELSE {t}

Sourced ==
  /\ \A i \in 1 .. Len(inbound) : inbound[i].of # 0 => Said(inbound[i].of, {inbound[i].type})
  /\ \A i \in 1 .. Len(queue) : queue[i].type \in Replied /\ queue[i].id # 0 =>
       Said(queue[i].of, Cause(queue[i].type))

\* What a task for an observer may be of.
Observable == Events \cup {"uncounted"}

\* Who observes which events, and whose callback waits on its Query.
MayHear(e, r) ==
  /\ e = "parseComplete" => IsPrepare(r)
  /\ e \in {"description", "row", "complete", "uncounted", "closed"} => IsExec(r)

Roles ==
  /\ \A r \in listening : IsExec(r)
  /\ \A e \in Events, r \in Requests : r \in observers[e] => MayHear(e, r)
  /\ \A r \in Requests : IsPrepare(r) /\ Running(r) =>
       r \in observers["parseComplete"] /\ r \in observers["error"]
  /\ \A i \in 1 .. Len(queue) : queue[i].type \in Observable /\ queue[i].id # 0 =>
       MayHear(queue[i].type, queue[i].id)

\* What is on its way is not older than who observes it.
Sequel ==
  /\ \A r, p \in Requests : Running(r) /\ Waits(p) => r < p
  /\ \A r \in Requests : Running(r) =>
       /\ \A i \in 1 .. Len(toServer) : toServer[i].of >= r
       /\ \A i \in 1 .. Len(inbound) : inbound[i].of >= r
  /\ \A i \in 1 .. Len(queue) :
       queue[i].type \in Replied /\ queue[i].id # 0 => queue[i].of >= queue[i].id

\* A reply comes to its end, and describes its rows once.
Closing == {"ready", "begun"}

Replying ==
  \A i, j \in 1 .. Len(inbound) : i < j =>
    /\ inbound[i].of # 0 /\ inbound[i].type \in EndsOf(Kind(inbound[i].of)) =>
         inbound[j].type \in Closing
    /\ inbound[i].type = "description" => inbound[j].type # "description"

\* The connection is still busy with the request, or was lost while it was.
Serves(r) ==
  /\ transactionStatus # "idle"
  /\ \A i \in 1 .. Len(toServer) : toServer[i].of = r
  /\ \A i \in 1 .. Len(inbound) : inbound[i].of = r
  /\ \/ toServer # <<>>
     \/ \E i \in 1 .. Len(inbound) : inbound[i].type \in EndsOf(Kind(r)) \cup {"fatal"}
     \/ link # "up" /\ \A i \in 1 .. Len(inbound) : inbound[i].type \notin Closing

Exclusive(r) == Owns(r) =>
  /\ Ended(queue, Kind(r), r) \/ Serves(r)
  /\ OwnFirst(queue, Kind(r), r)

Final(r) ==
  /\ EndsLast(queue, Kind(r), r)
  /\ Ended(queue, Kind(r), r) =>
       \A i \in 1 .. Len(inbound) : inbound[i].of = r => inbound[i].type \in Closing

\* Nothing is gathered before the server replies.
Asks(r) == \E i \in 1 .. Len(toServer) : toServer[i].of = r

Fresh(r) == Waits(r) \/ r > called \/ (Owns(r) /\ Asks(r)) =>
  rows[r] = <<>> /\ fields[r] = 0

\* The result, once it is complete, is in three parts: gathered, on the client's
\* queue, and not yet processed.
Announced(r) == Holds(queue, Task("complete", r, r)) \/ Holds(inbound, Message("complete", r))

Described(r) ==
  \/ fields[r] = r
  \/ Holds(queue, Task("description", r, r)) \/ Holds(inbound, Message("description", r))

RowsOf(r) ==
  Len(rows[r]) + NumberOf(queue, Task("row", r, r)) + NumberOf(inbound, Message("row", r))

Whole(r) == Owns(r) /\ IsExec(r) =>
  /\ fields[r] \in {0, r}
  /\ \A i \in 1 .. Len(rows[r]) : rows[r][i] = r
  /\ Announced(r) => /\ RowsOf(r) = Occurrences("row", r)
                     /\ Described(r) <=> Occurrences("description", r) > 0

\* The description of the rows will be observed.
Describable(r) == Owns(r) /\ IsExec(r) =>
  /\ Asks(r) => r \in observers["description"]
  /\ Holds(inbound, Message("description", r)) =>
       r \in observers["description"] /\ ~ Holds(queue, Task("description", r, r))

\* An exec waits for one answer, a prepare has been told its own.
OwnOutcome(r, a) ==
  /\ a.type \in {"success", "unreadable", "failure"} => a.of = r
  /\ OwnAnswer(r, a)

Heard(r) ==
  /\ r \in listening => (Waits(r) \/ Running(r)) /\ answers[r] = <<>>
  /\ ~ Silent(r) => /\ Len(answers[r]) <= 1
                    /\ \A i \in 1 .. Len(answers[r]) : OwnOutcome(r, answers[r][i])

Prepared(r) ==
  /\ Waits(r) \/ Running(r) => answers[r] = <<>>
  /\ \A i \in 1 .. Len(answers[r]) : PreparedAnswer(r, i, answers[r][i])
  /\ ~ Running(r) => \A i \in 1 .. Len(queue) :
       queue[i].type \in Replied /\ queue[i].id = r => queue[i].of > r /\ answers[r] # <<>>

Answered(r) ==
  /\ IsExec(r) /\ Sole(r) => Heard(r)
  /\ IsPrepare(r) => Prepared(r)

Follows(r) ==
  Exclusive(r) /\ Final(r) /\ Fresh(r) /\ Whole(r) /\ Describable(r) /\ Answered(r)

Common == Asking /\ Sourced /\ Roles /\ Sequel /\ Replying

Matches == Common /\ \A r \in Requests : Follows(r)

-----------------------------------------------------------------------------
(***************************************************************************)
(* What the steps have in common.                                          *)
(***************************************************************************)
LEMMA Basics ==
  ASSUME Inv
  PROVE  /\ MaxRequests \in Nat /\ Requests = 1 .. MaxRequests /\ called \in 0 .. MaxRequests
         /\ queue \in Seq(TaskRecords) /\ inbound \in Seq(MessageRecords)
         /\ toServer \in Seq(BodyRecords) /\ answers \in [Requests -> Seq(AnswerRecords)]
         /\ fields \in [Requests -> 0 .. MaxRequests] /\ rows \in [Requests -> Seq(Requests)]
         /\ reply \in [0 .. MaxRequests -> Seq(MessageTypes)]
         /\ observers \in [Events -> SUBSET (0 .. MaxRequests)]
         /\ \A e \in Events : observers[e] \subseteq 0 .. called
         /\ \A i \in 1 .. Len(queue) :
              /\ queue[i].id \in 0 .. called /\ queue[i].of \in 0 .. MaxRequests
              /\ queue[i].type \in TaskTypes
              /\ queue[i].type \in Replied /\ queue[i].id # 0 => queue[i].of # 0
         /\ \A i \in 1 .. Len(inbound) :
              inbound[i].of \in 0 .. MaxRequests /\ inbound[i].type \in MessageTypes
<1>1. Typed /\ Asked /\ Tasks(queue, called)
  BY DEF Inv, Queued
<1>2. \A e \in Events : observers[e] \subseteq 0 .. called
  BY <1>1 DEF Asked
<1>3. \A i \in 1 .. Len(queue) :
        /\ queue[i].id \in 0 .. called /\ queue[i].of \in 0 .. MaxRequests
        /\ queue[i].type \in TaskTypes
        /\ queue[i].type \in Replied /\ queue[i].id # 0 => queue[i].of # 0
  <2>1. \A i \in 1 .. Len(queue) : queue[i] \in TaskRecords
    BY <1>1 DEF Typed
  <2> QED  BY <1>1, <2>1 DEF Tasks, TaskRecords
<1>4. \A i \in 1 .. Len(inbound) :
        inbound[i].of \in 0 .. MaxRequests /\ inbound[i].type \in MessageTypes
  <2>1. \A i \in 1 .. Len(inbound) : inbound[i] \in MessageRecords
    BY <1>1 DEF Typed
  <2> QED  BY <2>1 DEF MessageRecords
<1> QED  BY <1>1, <1>2, <1>3, <1>4, Constants DEF Typed

\* Who observes, and who is asked about, was called.
LEMMA CalledBefore ==
  ASSUME Inv, NEW r \in Requests
  PROVE  /\ Running(r) \/ IsExec(r) \/ IsPrepare(r) \/ Waits(r) => r <= called
         /\ ~ (IsExec(r) /\ IsPrepare(r))
         /\ r > called => reply[r] = <<>> /\ answers[r] = <<>> /\ r \notin listening
         /\ Waits(r) => ~ Running(r) /\ reply[r] = <<>>
<1>1. Running(r) => r <= called
  BY Basics DEF Running
<1>2. r > called => Kind(r) = "none" /\ answers[r] = <<>> /\ r \notin listening
  BY DEF Inv, Asked, Kind
<1>3. r > called => reply[r] = <<>>
  BY DEF Inv, Parses
<1>4. Waits(r) => ~ Running(r) /\ reply[r] = <<>>
  BY DEF Inv, Observed, Parses, Waits
<1>5. Waits(r) => r <= called
  <2>1. SUFFICES ASSUME Waits(r)
                 PROVE  r <= called
    OBVIOUS
  <2>2. r \in 1 .. called
    BY <2>1 DEF Waits, Pending, Inv, Queued, Ordered
  <2> QED  BY <2>2, Basics
<1>6. IsExec(r) \/ IsPrepare(r) => r <= called
  BY <1>2, Basics DEF IsExec, IsPrepare, Kind, ExecKinds
<1>7. ~ (IsExec(r) /\ IsPrepare(r))
  BY DEF IsExec, IsPrepare, Kind, ExecKinds
<1> QED  BY <1>1, <1>2, <1>3, <1>4, <1>5, <1>6, <1>7

\* A reply that is given stays.
Keeps(x) == reply'[x] = reply[x] \/ reply[x] \in {<<>>, <<"challenge">>, <<"md5">>}

LEMMA SaidKept ==
  ASSUME NEW x, NEW S, Keeps(x), S \subseteq Replied \cup {"fatal"}
  PROVE  Said(x, S) => Said(x, S)'
<1>1. reply[x] \in {<<>>, <<"challenge">>, <<"md5">>} => ~ Said(x, S)
  BY DEF Said, Replied
<1> QED  BY <1>1 DEF Keeps, Said

LEMMA OwnsBefore ==
  ASSUME Inv, NEW r \in Requests,
         \A e \in Events : r \in observers'[e] => r \in observers[e],
         \A p \in Requests : p <= called => request'[p] = request[p],
         reply'[r] = reply[r] \/ reply[r] = <<>>
  PROVE  /\ Running(r)' => Running(r)
         /\ r <= called => Kind(r)' = Kind(r) /\ (Sole(r)' => Sole(r))
                           /\ (IsExec(r)' <=> IsExec(r)) /\ (IsPrepare(r)' <=> IsPrepare(r))
         /\ Owns(r)' => Owns(r)
<1>1. Running(r)' => Running(r)
  BY DEF Running
<1>2. Running(r) => r <= called
  BY CalledBefore
<1>3. ASSUME r <= called
      PROVE  /\ Kind(r)' = Kind(r) /\ (Sole(r)' => Sole(r))
             /\ (IsExec(r)' <=> IsExec(r)) /\ (IsPrepare(r)' <=> IsPrepare(r))
  <2>1. request'[r] = request[r]
    BY <1>3
  <2>2. Kind(r)' = Kind(r) /\ (IsExec(r)' <=> IsExec(r)) /\ (IsPrepare(r)' <=> IsPrepare(r))
    BY <2>1 DEF Kind, IsExec, IsPrepare
  <2>3. ASSUME Shared(r)
        PROVE  Shared(r)'
    <3>1. PICK p \in Requests \ {r} : IsExec(p) /\ request[p].query = request[r].query
      BY <2>3 DEF Shared
    <3>2. request'[p] = request[p]
      BY <3>1, CalledBefore
    <3> QED  BY <2>1, <3>1, <3>2 DEF Shared, IsExec
  <2> QED  BY <2>2, <2>3 DEF Sole
<1>4. ASSUME r <= called, Silent(r)
      PROVE  Silent(r)'
  <2>1. reply'[r] = reply[r] /\ Kind(r)' = Kind(r)
    BY <1>3, <1>4 DEF Silent
  <2> QED  BY <1>4, <2>1 DEF Silent, Said
<1>5. Owns(r)' => Owns(r)
  BY <1>1, <1>2, <1>3, <1>4 DEF Owns
<1> QED  BY <1>1, <1>3, <1>5

-----------------------------------------------------------------------------
(***************************************************************************)
(* A step that does not touch the tasks of r on the client's queue.        *)
(***************************************************************************)
Steady(q, qn, r) ==
  /\ \A k : Ended(qn, k, r) <=> Ended(q, k, r)
  /\ \A k : OwnFirst(q, k, r) => OwnFirst(qn, k, r)
  /\ \A k : EndsLast(q, k, r) => EndsLast(qn, k, r)
  /\ \A t \in Replied : /\ NumberOf(qn, Task(t, r, r)) = NumberOf(q, Task(t, r, r))
                        /\ Holds(qn, Task(t, r, r)) <=> Holds(q, Task(t, r, r))
  /\ \A i \in 1 .. Len(qn) : qn[i].type \in Replied /\ qn[i].id = r =>
       \E j \in 1 .. Len(q) : q[j] = qn[i]

Concerns(t, r) == t.type \in Replied /\ t.id = r

LEMMA EndsReplied ==
  ASSUME NEW t, NEW k, NEW r, Ends(t, k, r)
  PROVE  Concerns(t, r)
BY DEF Ends, EndsOf, Concerns, Replied

LEMMA SteadySame ==
  ASSUME NEW q, NEW r
  PROVE  Steady(q, q, r)
BY DEF Steady

LEMMA SteadyTail ==
  ASSUME NEW q \in Seq(TaskRecords), q # <<>>, NEW r, ~ Concerns(Head(q), r)
  PROVE  Steady(q, Tail(q), r)
<1>1. \A k : ~ Ends(Head(q), k, r)
  BY EndsReplied
<1>2. \A k : Ended(Tail(q), k, r) <=> Ended(q, k, r)
  BY <1>1, SiftTail
<1>3. \A k : OwnFirst(q, k, r) => OwnFirst(Tail(q), k, r)
  BY <1>1, SiftTail
<1>4. \A k : EndsLast(q, k, r) => EndsLast(Tail(q), k, r)
  BY SiftTail
<1>5. ASSUME NEW t \in Replied
      PROVE  /\ NumberOf(Tail(q), Task(t, r, r)) = NumberOf(q, Task(t, r, r))
             /\ Holds(Tail(q), Task(t, r, r)) <=> Holds(q, Task(t, r, r))
  <2>1. Head(q) # Task(t, r, r)
    BY DEF Concerns, Task
  <2>2. /\ NumberOf(q, Task(t, r, r)) = NumberOf(Tail(q), Task(t, r, r)) + 0
        /\ NumberOf(Tail(q), Task(t, r, r)) \in Nat
        /\ Holds(q, Task(t, r, r)) <=> Holds(Tail(q), Task(t, r, r))
    BY <2>1, NumberTail
  <2> QED  BY <2>2
<1>6. ASSUME NEW i \in 1 .. Len(Tail(q))
      PROVE  \E j \in 1 .. Len(q) : q[j] = Tail(q)[i]
  <2>1. i + 1 \in 1 .. Len(q) /\ Tail(q)[i] = q[i + 1]
    BY TailFacts
  <2> QED  BY <2>1
<1> QED  BY <1>2, <1>3, <1>4, <1>5, <1>6 DEF Steady

LEMMA SteadyConcat ==
  ASSUME NEW q \in Seq(TaskRecords), NEW new \in Seq(TaskRecords), NEW r,
         \A i \in 1 .. Len(new) : ~ Concerns(new[i], r)
  PROVE  Steady(q, q \o new, r)
<1>1. \A k : ~ Ended(new, k, r)
  BY EndsReplied DEF Ended
<1>2. \A k : Ended(q \o new, k, r) <=> Ended(q, k, r)
  BY <1>1, SiftConcat
<1>3. ASSUME NEW k, OwnFirst(q, k, r)
      PROVE  OwnFirst(q \o new, k, r)
  <2>1. \A i \in 1 .. Len(new) :
          new[i].type \in Replied /\ new[i].id = r /\ new[i].of # r => Ended(q, k, r)
    BY DEF Concerns
  <2> QED  BY <1>3, <2>1, SiftConcat
<1>4. ASSUME NEW k, EndsLast(q, k, r)
      PROVE  EndsLast(q \o new, k, r)
  <2>1. ASSUME NEW i \in 1 .. Len(q \o new), NEW j \in 1 .. Len(q \o new), i < j,
               Ends((q \o new)[i], k, r), (q \o new)[j].id = r, (q \o new)[j].of = r,
               (q \o new)[j].type \in EndsOf(k) \cup {"description", "row"}
        PROVE  FALSE
    <3>1. Concerns((q \o new)[i], r) /\ Concerns((q \o new)[j], r)
      BY <2>1, EndsReplied DEF Concerns, EndsOf, Replied
    <3>2. ASSUME NEW n \in 1 .. Len(q \o new), Concerns((q \o new)[n], r)
          PROVE  n \in 1 .. Len(q) /\ (q \o new)[n] = q[n]
      <4>1. CASE n \in Len(q) + 1 .. Len(q) + Len(new)
        <5>1. n - Len(q) \in 1 .. Len(new) /\ (q \o new)[n] = new[n - Len(q)]
          BY <4>1, ConcatFacts
        <5> QED  BY <3>2, <5>1
      <4> QED  BY <4>1, ConcatFacts
    <3>3. i \in 1 .. Len(q) /\ (q \o new)[i] = q[i] /\ j \in 1 .. Len(q) /\ (q \o new)[j] = q[j]
      BY <3>1, <3>2
    <3> QED  BY <1>4, <2>1, <3>3 DEF EndsLast
  <2> QED  BY <2>1 DEF EndsLast
<1>5. ASSUME NEW t \in Replied
      PROVE  /\ NumberOf(q \o new, Task(t, r, r)) = NumberOf(q, Task(t, r, r))
             /\ Holds(q \o new, Task(t, r, r)) <=> Holds(q, Task(t, r, r))
  <2>1. ~ Holds(new, Task(t, r, r))
    BY DEF Concerns, Task, Holds
  <2> QED  BY <2>1, NumberConcat
<1>6. ASSUME NEW i \in 1 .. Len(q \o new), Concerns((q \o new)[i], r)
      PROVE  \E j \in 1 .. Len(q) : q[j] = (q \o new)[i]
  <2>1. CASE i \in Len(q) + 1 .. Len(q) + Len(new)
    <3>1. i - Len(q) \in 1 .. Len(new) /\ (q \o new)[i] = new[i - Len(q)]
      BY <2>1, ConcatFacts
    <3> QED  BY <1>6, <3>1
  <2>2. CASE i \in 1 .. Len(q)
    <3>1. (q \o new)[i] = q[i]
      BY <2>2, ConcatFacts
    <3> QED  BY <2>2, <3>1
  <2> QED  BY <2>1, <2>2, ConcatFacts
<1> QED  BY <1>2, <1>3, <1>4, <1>5, <1>6 DEF Steady, Concerns

-----------------------------------------------------------------------------
(***************************************************************************)
(* A step that does not concern r.                                         *)
(***************************************************************************)

\* What was asked and replied stays.
Stays ==
  /\ called' \in Nat /\ called' >= called
  /\ \A p \in Requests : p <= called => request'[p] = request[p]
  /\ \A x \in 0 .. MaxRequests : Keeps(x)

AnsweredAside(r) ==
  /\ request'[r] = request[r]
  /\ Sole(r)' => Sole(r)
  /\ Silent(r) => Silent(r)'
  /\ Sole(r)' => answers'[r] = answers[r] /\ (r \in listening' <=> r \in listening)
  /\ Waits(r)' \/ Running(r)' <=> Waits(r) \/ Running(r)
  /\ ~ Running(r)' => ~ Running(r)
  /\ ~ Running(r)' => \A i \in 1 .. Len(queue') :
       Concerns(queue'[i], r) => \E j \in 1 .. Len(queue) : queue[j] = queue'[i]

Aside(r) ==
  /\ request'[r] = request[r] /\ reply'[r] = reply[r]
  /\ Sole(r)' => answers'[r] = answers[r] /\ (r \in listening' <=> r \in listening)
  /\ rows'[r] = rows[r] /\ fields'[r] = fields[r]
  /\ \A e \in Events : r \in observers'[e] <=> r \in observers[e]
  /\ Waits(r)' <=> Waits(r)
  /\ Steady(queue, queue', r)
  /\ Owns(r) /\ Serves(r) => Serves(r)'
  /\ Asks(r)' => Asks(r)
  /\ \A i \in 1 .. Len(inbound') : inbound'[i].of = r =>
       \E j \in 1 .. Len(inbound) : inbound[j] = inbound'[i]
  /\ Owns(r) /\ IsExec(r) /\ Announced(r)' =>
       /\ NumberOf(inbound', Message("row", r)) = NumberOf(inbound, Message("row", r))
       /\ Holds(inbound', Message("description", r)) <=> Holds(inbound, Message("description", r))

LEMMA ReplyStays ==
  ASSUME NEW x \in 0 .. MaxRequests, Stays, NEW S \in SUBSET (Replied \cup {"fatal"}), Said(x, S)
  PROVE  Said(x, S)' /\ reply'[x] = reply[x]
<1>1. Keeps(x)
  BY DEF Stays
<1>2. reply[x] \notin {<<>>, <<"challenge">>, <<"md5">>}
  BY DEF Said, Replied
<1> QED  BY <1>1, <1>2 DEF Keeps, Said

LEMMA AnswerStays ==
  ASSUME Inv, Stays, NEW r \in Requests, NEW a \in AnswerRecords
  PROVE  /\ OwnOutcome(r, a) => OwnOutcome(r, a)'
         /\ \A i \in Nat : PreparedAnswer(r, i, a) => PreparedAnswer(r, i, a)'
<1>1. a.of \in 0 .. MaxRequests
  BY DEF AnswerRecords
<1>2. \A t \in Replied \cup {"fatal"} : {t} \in SUBSET (Replied \cup {"fatal"})
  OBVIOUS
<1>3. /\ {"complete"} \in SUBSET (Replied \cup {"fatal"})
      /\ {"uncounted"} \in SUBSET (Replied \cup {"fatal"})
      /\ {"parseComplete"} \in SUBSET (Replied \cup {"fatal"})
      /\ {"error", "fatal"} \in SUBSET (Replied \cup {"fatal"})
  BY DEF Replied
<1>4. /\ Said(a.of, {"complete"}) => Said(a.of, {"complete"})' /\ reply'[a.of] = reply[a.of]
      /\ Said(a.of, {"uncounted"}) => Said(a.of, {"uncounted"})'
      /\ Said(a.of, {"parseComplete"}) => Said(a.of, {"parseComplete"})'
      /\ Said(a.of, {"error", "fatal"}) => Said(a.of, {"error", "fatal"})'
  BY <1>1, <1>3, ReplyStays
<1>5. ASSUME OwnOutcome(r, a)
      PROVE  OwnOutcome(r, a)'
  <2>1. a.type \in {"success", "unreadable", "failure"} => a.of = r
    BY <1>5 DEF OwnOutcome
  <2>2. /\ a.type = "failure" => Said(a.of, {"error", "fatal"})'
        /\ a.type = "unreadable" => Said(a.of, {"uncounted"})'
    BY <1>4, <1>5 DEF OwnOutcome, OwnAnswer
  <2>3. ASSUME a.type = "success"
        PROVE  /\ Said(a.of, {"complete"})'
               /\ a.fields = IF Occurrences("description", a.of)' > 0 THEN a.of ELSE 0
               /\ Len(a.rows) = Occurrences("row", a.of)'
               /\ \A i \in DOMAIN a.rows : a.rows[i] = a.of
    <3>1. /\ Said(a.of, {"complete"})
          /\ a.fields = IF Occurrences("description", a.of) > 0 THEN a.of ELSE 0
          /\ Len(a.rows) = Occurrences("row", a.of)
          /\ \A i \in DOMAIN a.rows : a.rows[i] = a.of
      BY <1>5, <2>3 DEF OwnOutcome, OwnAnswer
    <3>2. reply'[a.of] = reply[a.of] /\ Said(a.of, {"complete"})'
      BY <1>4, <3>1
    <3>3. \A t : Occurrences(t, a.of)' = Occurrences(t, a.of)
      BY <3>2 DEF Occurrences
    <3> QED  BY <3>1, <3>2, <3>3
  <2> QED  BY <2>1, <2>2, <2>3 DEF OwnOutcome, OwnAnswer
<1>6. ASSUME NEW i \in Nat, PreparedAnswer(r, i, a)
      PROVE  PreparedAnswer(r, i, a)'
  BY <1>4, <1>6 DEF PreparedAnswer
<1> QED  BY <1>5, <1>6

LEMMA AnsweredOn ==
  ASSUME Inv, NEW r \in Requests, Answered(r), Stays, AnsweredAside(r)
  PROVE  Answered(r)'
<1>1. /\ IsExec(r)' <=> IsExec(r)
      /\ IsPrepare(r)' <=> IsPrepare(r)
  BY DEF AnsweredAside, IsExec, IsPrepare, Kind
<1>2. answers[r] \in Seq(AnswerRecords)
  BY Basics
<1>3. \A i \in 1 .. Len(answers[r]) : i \in Nat /\ answers[r][i] \in AnswerRecords
  BY <1>2
<1>4. ASSUME IsExec(r)', Sole(r)'
      PROVE  Heard(r)'
  <2>1. /\ Heard(r) /\ answers'[r] = answers[r] /\ (r \in listening' <=> r \in listening)
        /\ (Waits(r)' \/ Running(r)' <=> Waits(r) \/ Running(r)) /\ (Silent(r) => Silent(r)')
    BY <1>1, <1>4 DEF AnsweredAside, Answered
  <2>2. ~ Silent(r)' => \A i \in 1 .. Len(answers[r]) : OwnOutcome(r, answers[r][i])'
    BY <1>3, <2>1, AnswerStays DEF Heard
  <2>3. r \in listening' => (Waits(r)' \/ Running(r)') /\ answers'[r] = <<>>
    BY <2>1 DEF Heard
  <2>4. ASSUME ~ Silent(r)'
        PROVE  /\ Len(answers'[r]) <= 1
               /\ \A i \in 1 .. Len(answers'[r]) : OwnOutcome(r, answers[r][i])'
    BY <2>1, <2>2, <2>4 DEF Heard
  <2> QED  BY <2>3, <2>4 DEF Heard
<1>5. ASSUME IsPrepare(r)'
      PROVE  Prepared(r)'
  BY <1>1, <1>3, <1>5, AnswerStays DEF AnsweredAside, Answered, Prepared, Sole, Concerns
<1> QED  BY <1>4, <1>5 DEF Answered

LEMMA FollowsOn ==
  ASSUME Inv, NEW r \in Requests, Follows(r), Stays, Aside(r)
  PROVE  Follows(r)'
<1>1. /\ request'[r] = request[r] /\ reply'[r] = reply[r]
      /\ rows'[r] = rows[r] /\ fields'[r] = fields[r]
      /\ \A e \in Events : r \in observers'[e] <=> r \in observers[e]
      /\ Waits(r)' <=> Waits(r)
      /\ Asks(r)' => Asks(r)
  BY DEF Aside
<1>2. Kind(r)' = Kind(r) /\ (IsExec(r)' <=> IsExec(r)) /\ (IsPrepare(r)' <=> IsPrepare(r))
  BY <1>1 DEF Kind, IsExec, IsPrepare
<1>3. (Running(r)' <=> Running(r)) /\ (Silent(r)' <=> Silent(r))
  BY <1>1, <1>2 DEF Running, Silent, Said
<1>4. /\ Owns(r)' => Owns(r)
      /\ Sole(r)' => Sole(r)
  <2>1. Owns(r)' => Owns(r)
    BY <1>1, OwnsBefore DEF Stays
  <2>2. r <= called => (Sole(r)' => Sole(r))
    BY <1>1, OwnsBefore DEF Stays
  <2>3. r <= called \/ ~ (IsExec(r)' \/ IsPrepare(r)')
    BY <1>2, CalledBefore
  <2> QED  BY <2>1, <2>2, <2>3 DEF Sole
<1>5. /\ \A k : Ended(queue', k, r) <=> Ended(queue, k, r)
      /\ \A k : OwnFirst(queue, k, r) => OwnFirst(queue', k, r)
      /\ \A k : EndsLast(queue, k, r) => EndsLast(queue', k, r)
      /\ \A t \in Replied : NumberOf(queue', Task(t, r, r)) = NumberOf(queue, Task(t, r, r))
      /\ \A t \in Replied : Holds(queue', Task(t, r, r)) <=> Holds(queue, Task(t, r, r))
      /\ \A i \in 1 .. Len(queue') : Concerns(queue'[i], r) =>
           \E j \in 1 .. Len(queue) : queue[j] = queue'[i]
  BY DEF Aside, Steady, Concerns
<1>6. \A t : Holds(inbound', Message(t, r)) => Holds(inbound, Message(t, r))
  <2>1. \A i \in 1 .. Len(inbound') : inbound'[i].of = r =>
          \E j \in 1 .. Len(inbound) : inbound[j] = inbound'[i]
    BY DEF Aside
  <2>2. \A t : Message(t, r).of = r
    BY DEF Message
  <2> QED  BY <2>1, <2>2 DEF Holds
<1>7. "complete" \in Replied /\ "row" \in Replied /\ "description" \in Replied
  BY DEF Replied
<1>8. Exclusive(r)'
  <2>1. Owns(r) => (Ended(queue, Kind(r), r) \/ Serves(r)) /\ OwnFirst(queue, Kind(r), r)
    BY DEF Follows, Exclusive
  <2>2. Owns(r) /\ Serves(r) => Serves(r)'
    BY DEF Aside
  <2>3. Owns(r)' => Ended(queue', Kind(r)', r) \/ Serves(r)'
    BY <1>2, <1>4, <1>5, <2>1, <2>2
  <2>4. Owns(r)' => OwnFirst(queue', Kind(r)', r)
    BY <1>2, <1>4, <1>5, <2>1
  <2> QED  BY <2>3, <2>4 DEF Exclusive
<1>9. Final(r)'
  <2>1. /\ EndsLast(queue, Kind(r), r)
        /\ Ended(queue, Kind(r), r) =>
             \A i \in 1 .. Len(inbound) : inbound[i].of = r => inbound[i].type \in Closing
    BY DEF Follows, Final
  <2>2. EndsLast(queue', Kind(r)', r)
    BY <1>2, <1>5, <2>1
  <2>3. Ended(queue', Kind(r)', r) =>
          \A i \in 1 .. Len(inbound') : inbound'[i].of = r => inbound'[i].type \in Closing
    BY <1>2, <1>5, <2>1 DEF Aside
  <2> QED  BY <2>2, <2>3 DEF Final
<1>10. Fresh(r)'
  <2>1. r > called' => r > called
    <3>1. called \in Nat /\ r \in Nat
      BY Basics
    <3> QED  BY <3>1 DEF Stays
  <2> QED  BY <1>1, <1>4, <2>1 DEF Follows, Fresh
<1>11. Whole(r)'
  <2>1. SUFFICES ASSUME Owns(r)', IsExec(r)'
                 PROVE  /\ fields'[r] \in {0, r}
                        /\ \A i \in 1 .. Len(rows'[r]) : rows'[r][i] = r
                        /\ Announced(r)' => /\ RowsOf(r)' = Occurrences("row", r)'
                                            /\ Described(r)' <=> Occurrences("description", r)' > 0
    BY DEF Whole
  <2>2. /\ Owns(r) /\ IsExec(r)
        /\ fields[r] \in {0, r} /\ \A i \in 1 .. Len(rows[r]) : rows[r][i] = r
        /\ Announced(r) => /\ RowsOf(r) = Occurrences("row", r)
                           /\ Described(r) <=> Occurrences("description", r) > 0
    BY <1>2, <1>4, <2>1 DEF Follows, Whole
  <2>3. Announced(r)' => Announced(r)
    BY <1>5, <1>6, <1>7 DEF Announced
  <2>4. ASSUME Announced(r)'
        PROVE  RowsOf(r)' = RowsOf(r) /\ (Described(r)' <=> Described(r))
    <3>1. /\ NumberOf(inbound', Message("row", r)) = NumberOf(inbound, Message("row", r))
          /\ Holds(inbound', Message("description", r)) <=> Holds(inbound, Message("description", r))
      BY <2>2, <2>4 DEF Aside
    <3>2. RowsOf(r)' = RowsOf(r)
      BY <1>1, <1>5, <1>7, <3>1 DEF RowsOf
    <3>3. Described(r)' <=> Described(r)
      BY <1>1, <1>5, <1>7, <3>1 DEF Described
    <3> QED  BY <3>2, <3>3
  <2>5. \A t : Occurrences(t, r)' = Occurrences(t, r)
    BY <1>1 DEF Occurrences
  <2>6. fields'[r] \in {0, r} /\ \A i \in 1 .. Len(rows'[r]) : rows'[r][i] = r
    BY <1>1, <2>2
  <2>7. ASSUME Announced(r)'
        PROVE  /\ RowsOf(r)' = Occurrences("row", r)'
               /\ Described(r)' <=> Occurrences("description", r)' > 0
    BY <2>2, <2>3, <2>4, <2>5, <2>7
  <2> QED  BY <2>6, <2>7
<1>12. Describable(r)'
  <2>1. "description" \in Events
    BY DEF Events
  <2> QED  BY <1>1, <1>2, <1>4, <1>5, <1>6, <1>7, <2>1 DEF Follows, Describable
<1>13. Answered(r)'
  <2>1. AnsweredAside(r)
    BY <1>1, <1>3, <1>4, <1>5 DEF AnsweredAside, Aside
  <2> QED  BY <2>1, AnsweredOn DEF Follows
<1> QED  BY <1>8, <1>9, <1>10, <1>11, <1>12, <1>13 DEF Follows

-----------------------------------------------------------------------------
(***************************************************************************)
(* A step by which nothing is asked or replied.                            *)
(***************************************************************************)

\* Messages are received and processed in order.
Onward == \E d \in Nat : \A i \in 1 .. Len(inbound') :
            i + d \in 1 .. Len(inbound) /\ inbound'[i] = inbound[i + d]

\* A task of a message that was received.
Stems(t) ==
  /\ t.type \in Observable /\ t.id # 0 => t.id \in observers[EventOf(t.type)]
  /\ t.type \in Replied /\ t.id # 0 =>
       \E j \in 1 .. Len(inbound) : inbound[j].of = t.of /\ inbound[j].type \in Cause(t.type)

Proceeds ==
  /\ UNCHANGED <<called, request, reply>>
  /\ \A e \in Events, r \in Requests : r \in observers'[e] => r \in observers[e]
  /\ \A e \in PrepareEvents, r \in Requests :
       Running(r)' /\ r \in observers[e] => r \in observers'[e]
  /\ listening' \subseteq listening
  /\ Onward
  /\ \A i \in 1 .. Len(queue') :
       (\E j \in 1 .. Len(queue) : queue[j] = queue'[i]) \/ Stems(queue'[i])
  /\ \A p \in Requests : Waits(p)' => Waits(p)
  /\ \A i \in 1 .. Len(toServer') :
       \/ \E j \in 1 .. Len(toServer) : toServer[j] = toServer'[i]
       \/ toServer'[i].of = 0 /\ \A r \in Requests : ~ Running(r)

LEMMA CommonOn ==
  ASSUME Inv, Inv', Common, Proceeds
  PROVE  Common'
<1>1. /\ UNCHANGED <<called, request, reply>>
      /\ \A e \in Events, r \in Requests : r \in observers'[e] => r \in observers[e]
      /\ listening' \subseteq listening
      /\ \A i \in 1 .. Len(queue') :
           (\E j \in 1 .. Len(queue) : queue[j] = queue'[i]) \/ Stems(queue'[i])
      /\ \A i \in 1 .. Len(toServer') :
           \/ \E j \in 1 .. Len(toServer) : toServer[j] = toServer'[i]
           \/ toServer'[i].of = 0 /\ \A r \in Requests : ~ Running(r)
  BY DEF Proceeds
<1>2. PICK d \in Nat : \A i \in 1 .. Len(inbound') :
        i + d \in 1 .. Len(inbound) /\ inbound'[i] = inbound[i + d]
  BY DEF Proceeds, Onward
<1>3. /\ \A r : Kind(r)' = Kind(r) /\ (IsExec(r)' <=> IsExec(r)) /\ (IsPrepare(r)' <=> IsPrepare(r))
      /\ \A x, S : Said(x, S)' <=> Said(x, S)
  BY <1>1 DEF Kind, IsExec, IsPrepare, Said
<1>4. \A r \in Requests : Running(r)' => Running(r)
  BY <1>1 DEF Running
<1>5. \A i \in 1 .. Len(queue') :
        /\ queue'[i].id \in 0 .. called /\ queue'[i].of \in 0 .. MaxRequests
        /\ queue'[i].type \in TaskTypes
        /\ queue'[i].type \in Replied /\ queue'[i].id # 0 => queue'[i].of # 0
  <2>1. /\ queue' \in Seq(TaskRecords) /\ Tasks(queue', called)
    BY <1>1 DEF Inv, Typed, Queued
  <2>2. \A i \in 1 .. Len(queue') : queue'[i] \in TaskRecords
    BY <2>1
  <2> QED  BY <2>1, <2>2 DEF TaskRecords, Tasks
<1>6. Asking'
  <2>1. \A r : Silent(r)' <=> Silent(r)
    BY <1>1, <1>3 DEF Silent
  <2>2. \A i \in 1 .. Len(toServer') : toServer'[i].of # 0 =>
          /\ toServer'[i].kind = Kind(toServer'[i].of)
          /\ toServer'[i].kind = "prepare" => toServer'[i].parse
    BY <1>1 DEF Common, Asking
  <2>3. ~ ShareQueries => \A r \in Requests : IsExec(r)' => request'[r].query = r
    BY <1>1, <1>3 DEF Common, Asking
  <2>4. \A r \in Requests : IsPrepare(r)' \/ "empty" \notin Replies => ~ Silent(r)'
    BY <1>3, <2>1 DEF Common, Asking
  <2>5. \A i : Kind(toServer'[i].of) = request'[toServer'[i].of].kind
    BY <1>1 DEF Kind
  <2> QED  BY <2>2, <2>3, <2>4, <2>5 DEF Asking, Kind
<1>7. Sourced'
  <2>1. \A i \in 1 .. Len(inbound') :
          inbound'[i].of # 0 => Said(inbound'[i].of, {inbound'[i].type})
    BY <1>2 DEF Common, Sourced
  <2>2. ASSUME NEW i \in 1 .. Len(queue'), queue'[i].type \in Replied, queue'[i].id # 0
        PROVE  Said(queue'[i].of, Cause(queue'[i].type))
    <3>1. CASE \E j \in 1 .. Len(queue) : queue[j] = queue'[i]
      BY <2>2, <3>1 DEF Common, Sourced
    <3>2. CASE Stems(queue'[i])
      <4>1. PICK j \in 1 .. Len(inbound) :
              inbound[j].of = queue'[i].of /\ inbound[j].type \in Cause(queue'[i].type)
        BY <2>2, <3>2 DEF Stems
      <4>2. Said(inbound[j].of, {inbound[j].type})
        BY <1>5, <2>2, <4>1 DEF Common, Sourced
      <4> QED  BY <4>1, <4>2 DEF Said
    <3> QED  BY <1>1, <3>1, <3>2
  <2>3. /\ \A i : Said(inbound'[i].of, {inbound'[i].type})
                    => \E n \in DOMAIN reply'[inbound'[i].of] :
                         reply'[inbound'[i].of][n] \in {inbound'[i].type}
        /\ \A i : Said(queue'[i].of, Cause(queue'[i].type))
                    => \E n \in DOMAIN reply'[queue'[i].of] :
                         reply'[queue'[i].of][n] \in Cause(queue'[i].type)
    BY <1>1 DEF Said
  <2> QED  BY <2>1, <2>2, <2>3 DEF Sourced, Said
<1>8. Roles'
  <2>1. \A e, r : MayHear(e, r)' <=> MayHear(e, r)
    BY <1>3 DEF MayHear
  <2>2. \A r \in listening' : IsExec(r)'
    BY <1>1, <1>3 DEF Common, Roles
  <2>3. \A e \in Events, r \in Requests : r \in observers'[e] => MayHear(e, r)'
    BY <1>1, <2>1 DEF Common, Roles
  <2>4. ASSUME NEW r \in Requests, IsPrepare(r)', Running(r)'
        PROVE  r \in observers'["parseComplete"] /\ r \in observers'["error"]
    BY <1>3, <1>4, <2>4 DEF Common, Roles, Proceeds, PrepareEvents
  <2>5. ASSUME NEW i \in 1 .. Len(queue'), queue'[i].type \in Observable, queue'[i].id # 0
        PROVE  MayHear(queue'[i].type, queue'[i].id)
    <3>1. CASE \E j \in 1 .. Len(queue) : queue[j] = queue'[i]
      BY <2>5, <3>1 DEF Common, Roles
    <3>2. CASE Stems(queue'[i])
      <4>1. queue'[i].id \in observers[EventOf(queue'[i].type)] /\ queue'[i].id \in Requests
        BY <1>5, <2>5, <3>2, Basics DEF Stems
      <4>2. EventOf(queue'[i].type) \in Events
        BY <2>5, EventOfFacts DEF Observable
      <4>3. MayHear(EventOf(queue'[i].type), queue'[i].id)
        BY <4>1, <4>2 DEF Common, Roles
      <4> QED  BY <4>3 DEF MayHear, EventOf
    <3> QED  BY <1>1, <3>1, <3>2
  <2>6. \A i : MayHear(queue'[i].type, queue'[i].id) =>
          /\ queue'[i].type = "parseComplete" => request'[queue'[i].id].kind = "prepare"
          /\ queue'[i].type \in {"description", "row", "complete", "uncounted", "closed"} =>
               request'[queue'[i].id].kind \in ExecKinds
    BY <1>1 DEF MayHear, IsPrepare, IsExec, Kind
  <2>7. \A i \in 1 .. Len(queue') : queue'[i].type \in Observable /\ queue'[i].id # 0 =>
          /\ queue'[i].type = "parseComplete" => request'[queue'[i].id].kind = "prepare"
          /\ queue'[i].type \in {"description", "row", "complete", "uncounted", "closed"} =>
               request'[queue'[i].id].kind \in ExecKinds
    BY <2>5, <2>6
  <2> QED  BY <2>2, <2>3, <2>4, <2>7 DEF Roles, MayHear, IsPrepare, IsExec, Kind
<1>9. Sequel'
  <2>1. \A r, p \in Requests : Running(r)' /\ Waits(p)' => r < p
    BY <1>4 DEF Common, Sequel, Proceeds
  <2>2. ASSUME NEW r \in Requests, Running(r)'
        PROVE  /\ \A i \in 1 .. Len(toServer') : toServer'[i].of >= r
               /\ \A i \in 1 .. Len(inbound') : inbound'[i].of >= r
    BY <1>1, <1>2, <1>4, <2>2 DEF Common, Sequel
  <2>3. ASSUME NEW i \in 1 .. Len(queue'), queue'[i].type \in Replied, queue'[i].id # 0
        PROVE  queue'[i].of >= queue'[i].id
    <3>1. CASE \E j \in 1 .. Len(queue) : queue[j] = queue'[i]
      BY <2>3, <3>1 DEF Common, Sequel
    <3>2. CASE Stems(queue'[i])
      <4>1. PICK j \in 1 .. Len(inbound) : inbound[j].of = queue'[i].of
        BY <2>3, <3>2 DEF Stems
      <4>2. queue'[i].type \in Observable /\ EventOf(queue'[i].type) \in Events
        BY <2>3, EventOfFacts DEF Replied, Observable, Events
      <4>3. queue'[i].id \in Requests /\ Running(queue'[i].id)
        BY <1>5, <2>3, <3>2, <4>2, Basics DEF Stems, Running
      <4> QED  BY <4>1, <4>3 DEF Common, Sequel
    <3> QED  BY <1>1, <3>1, <3>2
  <2> QED  BY <2>1, <2>2, <2>3 DEF Sequel
<1>10. Replying'
  <2>1. ASSUME NEW i \in 1 .. Len(inbound'), NEW j \in 1 .. Len(inbound'), i < j
        PROVE  /\ inbound'[i].of # 0 /\ inbound'[i].type \in EndsOf(Kind(inbound'[i].of)) =>
                    inbound'[j].type \in Closing
               /\ inbound'[i].type = "description" => inbound'[j].type # "description"
    <3>1. /\ i + d \in 1 .. Len(inbound) /\ inbound'[i] = inbound[i + d]
          /\ j + d \in 1 .. Len(inbound) /\ inbound'[j] = inbound[j + d]
          /\ i + d < j + d
      BY <1>2, <2>1
    <3> QED  BY <3>1 DEF Common, Replying
  <2>2. \A i : Kind(inbound'[i].of) = request'[inbound'[i].of].kind
    BY <1>1 DEF Kind
  <2> QED  BY <2>1, <2>2 DEF Replying, Kind
<1> QED  BY <1>6, <1>7, <1>8, <1>9, <1>10 DEF Common

LEMMA ProceedsStays ==
  ASSUME Inv, Proceeds
  PROVE  Stays
BY Basics DEF Proceeds, Stays, Keeps

\* When it concerns nobody.
LEMMA AsideMatches ==
  ASSUME Inv, Inv', Matches, Proceeds, \A r \in Requests : Aside(r)
  PROVE  Matches'
<1>1. Common'
  BY CommonOn DEF Matches
<1>2. \A r \in Requests : Follows(r)'
  BY ProceedsStays, FollowsOn DEF Matches
<1> QED  BY <1>1, <1>2 DEF Matches

-----------------------------------------------------------------------------
(***************************************************************************)
(* The connection is lost.                                                 *)
(***************************************************************************)
LEMMA LosesMatches ==
  ASSUME Inv, Inv', Matches, NEW new \in Seq(TaskRecords), Loses(new)
  PROVE  Matches'
<1>1. /\ UNCHANGED <<called, request, listening, answers, queryQueue, observers, fields, rows,
                     transactionStatus, reply>>
      /\ toServer' = <<>> /\ link' \in {"broken", "down"} /\ link \in {"up", "broken"}
      /\ inbound' \in Seq(MessageRecords) /\ Len(inbound') <= Len(inbound)
      /\ \A i \in 1 .. Len(inbound') : i \in 1 .. Len(inbound) /\ inbound'[i] = inbound[i]
      /\ queue' = queue \o new
      /\ \A i \in 1 .. Len(new) :
           new[i].type = "closed" /\ new[i].of = 0 /\ new[i].id \in observers["closed"]
  BY DEF Loses, programVars, clientVars, gathered, serverVars
<1>2. /\ queue \in Seq(TaskRecords) /\ inbound \in Seq(MessageRecords)
      /\ Len(inbound) \in Nat /\ Len(inbound') \in Nat
  <2>1. queue \in Seq(TaskRecords) /\ inbound \in Seq(MessageRecords)
    BY Basics
  <2> QED  BY <1>1, <2>1
<1>3. ~ Has(new, "operation")
  BY <1>1 DEF Has
<1>4. /\ \A i \in 1 .. Len(queue') :
           \/ i \in 1 .. Len(queue) /\ queue'[i] = queue[i]
           \/ \E j \in 1 .. Len(new) : i = Len(queue) + j /\ queue'[i] = new[j]
      /\ \A p : Waits(p)' <=> Waits(p)
  <2>1. \A p : Pending(queryQueue, queue', p) <=> Pending(queryQueue, queue, p)
    BY <1>1, <1>3, EnqueueFacts
  <2>2. \A p : Waits(p)' <=> Waits(p)
    BY <1>1, <2>1 DEF Waits
  <2> QED  BY <1>1, <1>3, <2>2, EnqueueFacts
<1>5. Proceeds
  <2>1. Onward
    <3>1. \A i \in 1 .. Len(inbound') : i + 0 \in 1 .. Len(inbound) /\ inbound'[i] = inbound[i + 0]
      BY <1>1
    <3> QED  BY <3>1 DEF Onward
  <2>2. \A i \in 1 .. Len(queue') :
          (\E j \in 1 .. Len(queue) : queue[j] = queue'[i]) \/ Stems(queue'[i])
    <3>1. \A j \in 1 .. Len(new) : Stems(new[j])
      BY <1>1 DEF Stems, Replied, EventOf
    <3> QED  BY <1>4, <3>1
  <2>3. Len(toServer') = 0
    BY <1>1
  <2>4. \A i \in 1 .. Len(toServer') : FALSE
    BY <2>3
  <2> QED  BY <1>1, <1>4, <2>1, <2>2, <2>4 DEF Proceeds
\* A message after which the connection is free is the last.
<1>6. ASSUME NEW i \in 1 .. Len(inbound'), inbound'[i].type \in Closing
      PROVE  Len(inbound') = Len(inbound)
  <2>1. i \in 1 .. Len(inbound) /\ inbound[i].type \in Terminal
    BY <1>1, <1>6 DEF Closing, Terminal
  <2>2. \A j \in 1 .. Len(inbound) : ~ (i < j)
    BY <2>1 DEF Inv, Turn
  <2> QED  BY <1>1, <1>2, <2>1, <2>2
<1>7. ASSUME NEW r \in Requests
      PROVE  Aside(r)
  <2>1. Follows(r)
    BY DEF Matches
  <2>2. Steady(queue, queue', r)
    <3>1. \A i \in 1 .. Len(new) : ~ Concerns(new[i], r)
      BY <1>1 DEF Concerns, Replied
    <3> QED  BY <1>1, <1>2, <3>1, SteadyConcat
  <2>3. ASSUME Serves(r)
        PROVE  Serves(r)'
    <3>1. /\ transactionStatus' # "idle" /\ \A i \in 1 .. Len(toServer') : toServer'[i].of = r
          /\ \A i \in 1 .. Len(inbound') : inbound'[i].of = r
      BY <1>1, <2>3 DEF Serves
    <3>2. CASE \E i \in 1 .. Len(inbound') : inbound'[i].type \in Closing
      <4>1. Len(inbound') = Len(inbound)
        BY <1>6, <3>2
      <4>2. \A i \in 1 .. Len(inbound) : inbound'[i] = inbound[i]
        BY <1>1, <4>1
      <4>3. toServer = <<>>
        <5>1. Len(inbound) # 0
          BY <1>2, <3>2, <4>1
        <5>2. inbound # <<>>
          BY <5>1
        <5> QED  BY <5>2 DEF Inv, Turn
      <4>4. \E i \in 1 .. Len(inbound) : inbound[i].type \in EndsOf(Kind(r)) \cup {"fatal"}
        BY <1>1, <2>3, <3>2, <4>3 DEF Serves
      <4>5. \E i \in 1 .. Len(inbound') : inbound'[i].type \in EndsOf(Kind(r)') \cup {"fatal"}
        BY <1>1, <4>1, <4>2, <4>4 DEF Kind
      <4> QED  BY <3>1, <4>5 DEF Serves
    <3>3. CASE \A i \in 1 .. Len(inbound') : inbound'[i].type \notin Closing
      BY <1>1, <3>1, <3>3 DEF Serves
    <3> QED  BY <3>2, <3>3
  <2>4. ASSUME Owns(r), IsExec(r), Announced(r)'
        PROVE  \A t \in {"row", "description"} :
                 /\ NumberOf(inbound', Message(t, r)) = NumberOf(inbound, Message(t, r))
                 /\ Holds(inbound', Message(t, r)) <=> Holds(inbound, Message(t, r))
    <3>1. ASSUME NEW t \in {"row", "description"}, NEW i \in 1 .. Len(inbound),
                 inbound[i] = Message(t, r)
          PROVE  i \in 1 .. Len(inbound')
      <4>1. inbound[i].type = t /\ inbound[i].of = r /\ t \notin Closing
        BY <3>1 DEF Message, Closing
      <4>2. CASE Holds(queue', Task("complete", r, r))
        <5>1. Holds(queue, Task("complete", r, r))
          BY <2>2, <4>2 DEF Steady, Replied
        <5>2. Ends(Task("complete", r, r), Kind(r), r)
          BY <2>4 DEF Ends, EndsOf, Task, IsExec, Kind, ExecKinds
        <5>3. Ended(queue, Kind(r), r)
          BY <5>1, <5>2 DEF Holds, Ended
        <5> QED  BY <2>1, <4>1, <5>3 DEF Follows, Final
      <4>3. CASE Holds(inbound', Message("complete", r))
        <5>1. PICK j \in 1 .. Len(inbound') : inbound'[j] = Message("complete", r)
          BY <4>3 DEF Holds
        <5>2. j \in 1 .. Len(inbound) /\ inbound[j].type = "complete" /\ inbound[j].of = r
          BY <1>1, <5>1 DEF Message
        <5>3. inbound[j].of # 0 /\ inbound[j].type \in EndsOf(Kind(inbound[j].of))
          BY <2>4, <5>2, Basics DEF EndsOf, IsExec, Kind, ExecKinds
        <5>4. ~ (j < i)
          BY <4>1, <5>2, <5>3 DEF Matches, Common, Replying
        <5> QED  BY <1>2, <5>1, <5>2, <5>4
      <4> QED  BY <2>4, <4>2, <4>3 DEF Announced
    <3>2. ASSUME NEW t \in {"row", "description"}
          PROVE  \A i : i \in 1 .. Len(inbound') /\ inbound'[i] = Message(t, r)
                          <=> i \in 1 .. Len(inbound) /\ inbound[i] = Message(t, r)
      BY <1>1, <3>1, <3>2
    <3> QED  BY <3>2, NumberSame
  <2>5. ~ Asks(r)'
    <3>1. Len(toServer') = 0
      BY <1>1
    <3> QED  BY <3>1 DEF Asks
  <2>6. "row" \in {"row", "description"} /\ "description" \in {"row", "description"}
    OBVIOUS
  <2> QED  BY <1>1, <1>4, <2>2, <2>3, <2>4, <2>5, <2>6 DEF Aside
<1> QED  BY <1>5, <1>7, AsideMatches

-----------------------------------------------------------------------------
(***************************************************************************)
(* Steps that concern no request: those of startup's observers, of the     *)
(* program but for its calls, and of an operation that has to wait.        *)
(***************************************************************************)
LEMMA QuietMatches ==
  ASSUME Inv, Inv', Matches,
         UNCHANGED <<called, request, listening, answers, fields, rows, transactionStatus,
                     inbound, reply>>,
         \/ queue' = queue
         \/ /\ queue # <<>> /\ queue' = Tail(queue)
            /\ \A r \in Requests : ~ Concerns(Head(queue), r)
         \/ \E new \in Seq(TaskRecords) :
              queue' = queue \o new /\ \A i \in 1 .. Len(new) : new[i].id = 0,
         \A e \in Events, r \in Requests : r \in observers'[e] <=> r \in observers[e],
         \A p \in Requests : Waits(p)' <=> Waits(p),
         \/ UNCHANGED <<link, toServer>>
         \/ /\ \A r \in Requests : ~ Running(r)
            /\ \A i \in 1 .. Len(toServer') :
                 (\E j \in 1 .. Len(toServer) : toServer[j] = toServer'[i]) \/ toServer'[i].of = 0
  PROVE  Matches'
<1>1. Onward
  <2>1. Len(inbound) \in Nat
    BY Basics
  <2>2. \A i \in 1 .. Len(inbound') : i + 0 \in 1 .. Len(inbound) /\ inbound'[i] = inbound[i + 0]
    BY <2>1
  <2> QED  BY <2>2 DEF Onward
<1>2. \A i \in 1 .. Len(queue') :
        (\E j \in 1 .. Len(queue) : queue[j] = queue'[i]) \/ Stems(queue'[i])
  <2>1. CASE queue' = queue
    BY <2>1
  <2>2. CASE queue # <<>> /\ queue' = Tail(queue)
    BY <2>2, DequeueFacts
  <2>3. ASSUME NEW new \in Seq(TaskRecords), queue' = queue \o new,
               \A i \in 1 .. Len(new) : new[i].id = 0
        PROVE  \A i \in 1 .. Len(queue') :
                 (\E j \in 1 .. Len(queue) : queue[j] = queue'[i]) \/ Stems(queue'[i])
    <3>1. \A i \in 1 .. Len(new) : Stems(new[i])
      BY <2>3 DEF Stems
    <3>2. \A i \in 1 .. Len(queue') :
            \/ i \in 1 .. Len(queue) /\ queue'[i] = queue[i]
            \/ i - Len(queue) \in 1 .. Len(new) /\ queue'[i] = new[i - Len(queue)]
      <4>1. queue \in Seq(TaskRecords)
        BY Basics
      <4> QED  BY <2>3, <4>1, ConcatFacts
    <3> QED  BY <3>1, <3>2
  <2> QED  BY <2>1, <2>2, <2>3
<1>3. \A i \in 1 .. Len(toServer') :
        \/ \E j \in 1 .. Len(toServer) : toServer[j] = toServer'[i]
        \/ toServer'[i].of = 0 /\ \A r \in Requests : ~ Running(r)
  OBVIOUS
<1>4. \A e \in PrepareEvents, r \in Requests : r \in observers[e] => r \in observers'[e]
  BY DEF PrepareEvents, Events
<1>5. Proceeds
  BY <1>1, <1>2, <1>3, <1>4 DEF Proceeds
<1>6. ASSUME NEW r \in Requests
      PROVE  Aside(r)
  <2>1. Steady(queue, queue', r)
    <3>1. CASE queue' = queue
      BY <3>1, SteadySame
    <3>2. CASE queue # <<>> /\ queue' = Tail(queue) /\ ~ Concerns(Head(queue), r)
      BY <3>2, SteadyTail, Basics
    <3>3. ASSUME NEW new \in Seq(TaskRecords), queue' = queue \o new,
                 \A i \in 1 .. Len(new) : new[i].id = 0
          PROVE  Steady(queue, queue', r)
      <4>1. queue \in Seq(TaskRecords) /\ r # 0
        BY Basics
      <4>2. \A i \in 1 .. Len(new) : ~ Concerns(new[i], r)
        BY <3>3, <4>1 DEF Concerns
      <4> QED  BY <3>3, <4>1, <4>2, SteadyConcat
    <3> QED  BY <3>1, <3>2, <3>3
  <2>2. Owns(r) /\ Serves(r) => Serves(r)'
    <3>1. CASE UNCHANGED <<link, toServer>>
      BY <3>1 DEF Serves, Kind
    <3>2. CASE ~ Running(r)
      BY <3>2 DEF Owns
    <3> QED  BY <3>1, <3>2
  <2>3. Asks(r)' => Asks(r)
    <3>1. r # 0
      BY Basics
    <3> QED  BY <1>3, <3>1 DEF Asks
  <2> QED  BY <2>1, <2>2, <2>3 DEF Aside
<1> QED  BY <1>5, <1>6, AsideMatches

LEMMA ReportsMatches ==
  ASSUME Inv, Inv', Matches, NEW new \in Seq(TaskRecords), Reports(new)
  PROVE  Matches'
<1>1. /\ UNCHANGED <<called, request, listening, answers, fields, rows, transactionStatus,
                     inbound, reply, queryQueue, observers, link, toServer>>
      /\ queue' = queue \o new /\ new = <<Task("error", 0, 0)>>
  BY DEF Reports, programVars, clientVars, gathered, serverVars, socketVars
<1>2. \A i \in 1 .. Len(new) : new[i].id = 0 /\ new[i].type = "error"
  BY <1>1 DEF Task
<1>3. ~ Has(new, "operation")
  BY <1>2 DEF Has
<1>4. queue \in Seq(TaskRecords)
  BY Basics
<1>5. \A p : Pending(queryQueue, queue', p) <=> Pending(queryQueue, queue, p)
  BY <1>1, <1>3, <1>4, EnqueueFacts
<1>6. \A p \in Requests : Waits(p)' <=> Waits(p)
  BY <1>1, <1>5 DEF Waits
<1> QED  BY <1>1, <1>2, <1>6, QuietMatches

\* Before the login is accepted nobody observes.
LEMMA LoginUnheard ==
  ASSUME Inv, reply[0] # <<"ready">>, NEW r \in Requests
  PROVE  ~ Running(r)
<1>1. \A e \in Events : observers[e] \subseteq {0}
  BY DEF Inv, LoggedIn
<1>2. r # 0
  BY Basics
<1> QED  BY <1>1, <1>2 DEF Running

\* What the login is sent.
LEMMA SentWith ==
  ASSUME Inv, NEW x, toServer' = Append(toServer, x) \/ toServer' = toServer
  PROVE  \A i \in 1 .. Len(toServer') :
           (\E j \in 1 .. Len(toServer) : toServer[j] = toServer'[i]) \/ toServer'[i] = x
<1>1. CASE toServer' = toServer
  BY <1>1
<1>2. CASE toServer' = Append(toServer, x)
  <2>1. toServer \in Seq(BodyRecords \cup {x}) /\ x \in BodyRecords \cup {x}
    BY Basics
  <2>2. /\ Len(toServer') = Len(toServer) + 1 /\ Len(toServer) \in Nat
        /\ \A i \in 1 .. Len(toServer) : toServer'[i] = toServer[i]
        /\ toServer'[Len(toServer) + 1] = x
    BY <1>2, <2>1, AppendFacts
  <2> QED  BY <2>2
<1> QED  BY <1>1, <1>2

LEMMA ProgramMatches ==
  ASSUME Inv, Inv', Matches, Disconnect \/ Startup \/ UNCHANGED vars
  PROVE  Matches'
<1>1. /\ UNCHANGED <<called, request, listening, answers, fields, rows, transactionStatus,
                     inbound, reply, queue, queryQueue>>
      /\ \A p \in Requests : Waits(p)' <=> Waits(p)
  <2>1. UNCHANGED <<called, request, listening, answers, fields, rows, transactionStatus,
                    inbound, reply, queue, queryQueue>>
    BY DEF Disconnect, Startup, programVars, clientVars, gathered, serverVars, socketVars, vars
  <2> QED  BY <2>1 DEF Waits, Pending
<1>2. CASE Disconnect \/ UNCHANGED vars
  <2>1. UNCHANGED <<observers, link, toServer>>
    BY <1>2 DEF Disconnect, vars, socketVars
  <2> QED  BY <1>1, <2>1, QuietMatches
<1>3. CASE Startup
  <2>1. \A r \in Requests : ~ Running(r)
    <3>1. connection = "none"
      BY <1>3 DEF Startup
    <3>2. reply[0] = <<>>
      BY <3>1 DEF Inv, Unstarted
    <3> QED  BY <3>2, LoginUnheard
  <2> DEFINE x == [kind |-> "startup", of |-> 0, statement |-> None, parse |-> FALSE]
  <2>2. \A i \in 1 .. Len(toServer') :
          (\E j \in 1 .. Len(toServer) : toServer[j] = toServer'[i]) \/ toServer'[i].of = 0
    <3>1. toServer' = Append(toServer, x) /\ x.of = 0
      BY <1>3 DEF Startup
    <3> HIDE DEF x
    <3> QED  BY <3>1, SentWith
  <2>3. \A e \in Events, r \in Requests : r \in observers'[e] <=> r \in observers[e]
    <3>1. \A e \in Events, r \in Requests : r \notin observers[e]
      BY <2>1 DEF Running
    <3>2. observers' = [observers EXCEPT !["closed"] = {0}] /\ \A r \in Requests : r # 0
      BY <1>3, Basics DEF Startup
    <3>3. observers \in [Events -> SUBSET (0 .. MaxRequests)]
      BY Basics
    <3> QED  BY <3>1, <3>2, <3>3
  <2> QED  BY <1>1, <2>1, <2>2, <2>3, QuietMatches
<1> QED  BY <1>2, <1>3

LEMMA StartupRunsMatches ==
  ASSUME Inv, Inv', Matches, RunError \/ RunClosed \/ RunCleartextPassword
  PROVE  Matches'
<1>1. /\ queue # <<>> /\ queue' = Tail(queue)
      /\ UNCHANGED <<called, request, listening, answers, fields, rows, transactionStatus,
                     inbound, reply, queryQueue, link>>
      /\ Head(queue).type \in {"fatal", "closed", "challenge"} \/ Head(queue).id = 0
  BY DEF RunError, RunClosed, RunCleartextPassword, At, Ran, gathered, clientVars, serverVars
<1>2. \A r \in Requests : ~ Concerns(Head(queue), r)
  <2>1. \A r \in Requests : r # 0
    BY Basics
  <2> QED  BY <1>1, <2>1 DEF Concerns, Replied
<1>3. \A p \in Requests : Waits(p)' <=> Waits(p)
  <2>1. Head(queue).type # "operation"
    BY DEF RunError, RunClosed, RunCleartextPassword, At
  <2>2. \A p : Pending(queryQueue, queue', p) <=> Pending(queryQueue, queue, p)
    BY <1>1, <2>1, DequeueOperations
  <2> QED  BY <1>1, <2>2 DEF Waits
<1>4. \A e \in Events, r \in Requests : r \in observers'[e] <=> r \in observers[e]
  <2>1. observers' = observers \/ observers' = [observers EXCEPT !["closed"] = @ \ {0}]
    BY DEF RunError, RunClosed, RunCleartextPassword
  <2>2. observers \in [Events -> SUBSET (0 .. MaxRequests)] /\ \A r \in Requests : r # 0
    BY Basics
  <2> QED  BY <2>1, <2>2
<1>5. CASE RunError \/ RunClosed
  <2>1. toServer' = toServer
    BY <1>5 DEF RunError, RunClosed
  <2> QED  BY <1>1, <1>2, <1>3, <1>4, <2>1, QuietMatches
<1>6. CASE RunCleartextPassword
  <2>1. Has(queue, "challenge")
    BY <1>1, <1>6, DequeueHas DEF RunCleartextPassword, At
  <2>2. \A r \in Requests : ~ Running(r)
    <3>1. reply[0] = <<"challenge">>
      BY <2>1 DEF Inv, LoggedIn
    <3>2. <<"challenge">> # <<"ready">>
      OBVIOUS
    <3> QED  BY <3>1, <3>2, LoginUnheard
  <2> DEFINE x == [kind |-> "password", of |-> 0, statement |-> None, parse |-> FALSE]
  <2>3. \A i \in 1 .. Len(toServer') :
          (\E j \in 1 .. Len(toServer) : toServer[j] = toServer'[i]) \/ toServer'[i].of = 0
    <3>1. (toServer' = Append(toServer, x) \/ toServer' = toServer) /\ x.of = 0
      BY <1>6 DEF RunCleartextPassword, Send
    <3> HIDE DEF x
    <3> QED  BY <3>1, SentWith
  <2> QED  BY <1>1, <1>2, <1>3, <1>4, <2>2, <2>3, QuietMatches
<1> QED  BY <1>5, <1>6

LEMMA RestsMatches ==
  ASSUME Inv, Inv', Matches, NEW ops \in Seq(Requests), Executed(ops), Rests(ops)
  PROVE  Matches'
<1>1. /\ queue # <<>> /\ queue' = Tail(queue) /\ queryQueue' = ops
      /\ UNCHANGED <<called, request, listening, answers, fields, rows, transactionStatus,
                     inbound, reply, link, toServer, observers>>
      /\ Head(queue).type \in {"operation", "ready"}
  BY DEF Executed, Rests, gathered, serverVars
<1>2. \A r \in Requests : ~ Concerns(Head(queue), r)
  BY <1>1 DEF Concerns, Replied
<1>3. \A p \in Requests : Waits(p)' <=> Waits(p)
  <2>1. \A p : Pending(ops, queue', p) <=> Pending(queryQueue, queue, p)
    BY ExecutedFacts
  <2> QED  BY <1>1, <2>1 DEF Waits
<1> QED  BY <1>1, <1>2, <1>3, QuietMatches

-----------------------------------------------------------------------------
(***************************************************************************)
(* Who is told.                                                            *)
(***************************************************************************)
LEMMA TellsOwn ==
  ASSUME Inv, NEW c \in Requests, NEW answer, Conclude(c, answer)
  PROVE  /\ IsPrepare(c) \/ c \in listening => answers'[c] = Append(answers[c], answer)
         /\ ~ IsPrepare(c) /\ c \notin listening => answers'[c] = answers[c]
         /\ ~ IsPrepare(c) => c \notin listening'
         /\ listening' \subseteq listening
<1> DEFINE hearing == IF request[c].kind = "prepare" THEN {c} ELSE Listeners(request[c].query)
<1>1. /\ answers' = [p \in Requests |-> IF p \in hearing THEN Append(answers[p], answer)
                                                         ELSE answers[p]]
      /\ listening' = listening \ hearing
  BY DEF Conclude, Tell
<1>2. /\ IsPrepare(c) => c \in hearing
      /\ ~ IsPrepare(c) => (c \in hearing <=> c \in listening)
  BY DEF Listeners, IsPrepare, Kind
<1> QED  BY <1>1, <1>2

\* Nobody else whose Query is its own.
LEMMA TellsNoOther ==
  ASSUME Inv, Common, NEW c \in Requests, c <= called, NEW answer \in AnswerRecords,
         Conclude(c, answer), NEW r \in Requests, r # c, Sole(r)
  PROVE  answers'[r] = answers[r] /\ (r \in listening' <=> r \in listening)
<1>1. ASSUME request[c].kind # "prepare", r \in listening, request[r].query = request[c].query
      PROVE  FALSE
  <2>1. IsExec(c)
    <3>1. request[c].kind \in Kinds
      BY DEF Inv, Asked
    <3> QED  BY <1>1, <3>1, Constants DEF IsExec
  <2>2. IsExec(r)
    BY <1>1 DEF Common, Roles
  <2>3. Shared(r)
    BY <1>1, <2>1 DEF Shared
  <2> QED  BY <2>2, <2>3, CalledBefore DEF Sole
<1> QED  BY <1>1, ConcludeFacts

-----------------------------------------------------------------------------
(***************************************************************************)
(* An operation is begun.                                                  *)
(***************************************************************************)
LEMMA BeginsFacts ==
  ASSUME Inv, NEW ops \in Seq(Requests), Executed(ops), Begins(ops), NEW c, c = Head(ops)
  PROVE  /\ c \in Requests /\ c <= called /\ Waits(c) /\ ~ Running(c) /\ reply[c] = <<>>
         /\ \A p \in Requests : Waits(p)' <=> Waits(p) /\ p # c
         /\ \A p \in Requests : Waits(p) => p >= c
         /\ queue # <<>> /\ queue' = Tail(queue) /\ \A r \in Requests : ~ Concerns(Head(queue), r)
         /\ toServer = <<>> /\ inbound = <<>> /\ transactionStatus = "idle"
         /\ \A i \in 1 .. Len(queue) : ~ Concerns(queue[i], c)
<1>1. /\ queue # <<>> /\ queue' = Tail(queue) /\ queryQueue' = Tail(ops) /\ ops # <<>>
      /\ transactionStatus = "idle" /\ Head(queue).type \in {"operation", "ready"}
  BY DEF Executed, Begins
<1>2. /\ queue' \in Seq(TaskRecords) /\ Ordered(ops, queue', called) /\ called \in Nat
      /\ \A r : Pending(ops, queue', r) <=> Pending(queryQueue, queue, r)
  BY ExecutedFacts, Basics
<1>3. /\ Pending(ops, queue', c)
      /\ \A r : Pending(ops, queue', r) => r \in 1 .. called /\ r >= c
      /\ \A r : Pending(Tail(ops), queue', r) <=> Pending(ops, queue', r) /\ r # c
  BY <1>1, <1>2, OrderedBegin
<1>4. c \in Requests /\ c <= called /\ Waits(c)
  BY <1>2, <1>3, Basics DEF Waits
<1>5. ~ Running(c) /\ reply[c] = <<>>
  BY <1>4, CalledBefore
<1>6. /\ \A p \in Requests : Waits(p)' <=> Waits(p) /\ p # c
      /\ \A p \in Requests : Waits(p) => p >= c
  BY <1>1, <1>2, <1>3 DEF Waits
<1>7. toServer = <<>> /\ inbound = <<>>
  BY <1>1 DEF Inv, Turn
<1>8. \A i \in 1 .. Len(queue) : ~ Concerns(queue[i], c)
  BY <1>4 DEF Inv, Observed, Waits, Concerns, Replied
<1>9. \A r \in Requests : ~ Concerns(Head(queue), r)
  BY <1>1 DEF Concerns, Replied
<1> QED  BY <1>1, <1>4, <1>5, <1>6, <1>7, <1>8, <1>9

LEMMA SkipsMatches ==
  ASSUME Inv, Inv', Matches, NEW ops \in Seq(Requests), Executed(ops), Begins(ops),
         Skips(Head(ops))
  PROVE  Matches'
<1> DEFINE c == Head(ops)
<1>1. /\ UNCHANGED <<called, request, inbound, link, reply, fields, rows, observers,
                     transactionStatus, toServer>>
      /\ \E t \in {"alreadyPrepared", "nameExists"} : Conclude(c, Answer(t, 0))
  BY DEF Executed, Skips, Skip, serverVars, gathered
<1>2. /\ c \in Requests /\ c <= called /\ Waits(c) /\ ~ Running(c)
      /\ \A p \in Requests : Waits(p)' <=> Waits(p) /\ p # c
      /\ queue # <<>> /\ queue' = Tail(queue) /\ \A r \in Requests : ~ Concerns(Head(queue), r)
      /\ toServer = <<>> /\ inbound = <<>> /\ transactionStatus = "idle"
      /\ \A i \in 1 .. Len(queue) : ~ Concerns(queue[i], c)
  BY BeginsFacts
<1> HIDE DEF c
<1>3. PICK answer \in AnswerRecords :
        /\ Conclude(c, answer)
        /\ answer.type \in {"alreadyPrepared", "nameExists"} /\ answer.of = 0
  <2>1. PICK t \in {"alreadyPrepared", "nameExists"} : Conclude(c, Answer(t, 0))
    BY <1>1
  <2>2. /\ Answer(t, 0) \in AnswerRecords
        /\ Answer(t, 0).type = t /\ Answer(t, 0).of = 0
    BY Constants DEF Answer, AnswerRecords, AnswerTypes
  <2> QED  BY <2>1, <2>2
<1>4. \A i \in 1 .. Len(queue') : i + 1 \in 1 .. Len(queue) /\ queue'[i] = queue[i + 1]
  BY <1>2, DequeueFacts
<1>5. Proceeds
  <2>1. Onward
    <3>1. \A i \in 1 .. Len(inbound') : i + 0 \in 1 .. Len(inbound) /\ inbound'[i] = inbound[i + 0]
      BY <1>1, <1>2
    <3> QED  BY <3>1 DEF Onward
  <2>2. listening' \subseteq listening
    BY <1>2, <1>3, TellsOwn
  <2>3. \A i \in 1 .. Len(queue') : \E j \in 1 .. Len(queue) : queue[j] = queue'[i]
    BY <1>4
  <2> QED  BY <1>1, <1>2, <2>1, <2>2, <2>3 DEF Proceeds
<1>6. Stays
  BY <1>5, ProceedsStays
<1>7. ASSUME NEW r \in Requests, r # c
      PROVE  Follows(r)'
  <2>1. Steady(queue, queue', r)
    BY <1>2, SteadyTail, Basics
  <2>2. Sole(r)' => Sole(r)
    BY <1>1 DEF Sole, IsPrepare, IsExec, Kind, Shared
  <2>3. Sole(r)' => answers'[r] = answers[r] /\ (r \in listening' <=> r \in listening)
    BY <1>2, <1>3, <1>7, <2>2, TellsNoOther DEF Matches
  <2>4. ~ Serves(r)
    BY <1>2 DEF Serves
  <2>5. Aside(r)
    BY <1>1, <1>2, <1>7, <2>1, <2>3, <2>4 DEF Aside, Asks
  <2> QED  BY <1>6, <2>5, FollowsOn DEF Matches
<1>8. Follows(c)'
  <2>1. Follows(c)
    BY <1>2 DEF Matches
  <2>2. ~ Running(c)' /\ ~ Owns(c)' /\ ~ Waits(c)' /\ ~ (c > called')
    <3>1. ~ Running(c)'
      BY <1>1, <1>2 DEF Running
    <3>2. called \in Nat /\ c \in Nat
      BY <1>2, Basics
    <3> QED  BY <1>1, <1>2, <3>1, <3>2 DEF Owns
  <2>3. \A i \in 1 .. Len(queue') : ~ Concerns(queue'[i], c)
    BY <1>2, <1>4
  <2>4. Final(c)'
    <3>1. \A k, i : Ends(queue'[i], k, c) => Concerns(queue'[i], c)
      BY EndsReplied
    <3>2. \A k : EndsLast(queue', k, c) /\ ~ Ended(queue', k, c)
      BY <2>3, <3>1 DEF EndsLast, Ended
    <3> QED  BY <3>2 DEF Final
  <2>5. Exclusive(c)' /\ Fresh(c)' /\ Whole(c)' /\ Describable(c)'
    BY <2>2 DEF Exclusive, Fresh, Whole, Describable
  <2>6. Answered(c)'
    <3>1. /\ IsExec(c)' <=> IsExec(c)
          /\ Sole(c)' <=> Sole(c)
          /\ IsPrepare(c)' <=> IsPrepare(c)
      BY <1>1 DEF Sole, IsPrepare, IsExec, Kind, Shared
    <3>2. answers[c] \in Seq(AnswerRecords) /\ answers'[c] \in Seq(AnswerRecords)
      <4>1. answers' \in [Requests -> Seq(AnswerRecords)]
        BY DEF Inv, Typed
      <4> QED  BY <1>2, <4>1, Basics
    <3>3. ASSUME answers[c] = <<>>, answers'[c] = Append(answers[c], answer)
          PROVE  Len(answers'[c]) = 1 /\ answers'[c][1] = answer /\ answers'[c] # <<>>
      BY <3>3
    <3>4. ASSUME IsExec(c), Sole(c)
          PROVE  Heard(c)'
      <4>1. ~ IsPrepare(c)
        BY <1>2, <3>4, CalledBefore
      <4>2. answers[c] = <<>> /\ c \in listening
        <5>1. Told(c)
          BY <1>2, <3>4 DEF Inv, Observed, Waits, IsExec
        <5> QED  BY <3>4, <4>1, <5>1 DEF Told, Sole
      <4>3. /\ answers'[c] = Append(answers[c], answer)
            /\ c \notin listening'
        BY <1>2, <1>3, <4>1, <4>2, TellsOwn
      <4>4. Len(answers'[c]) = 1 /\ answers'[c][1] = answer
        BY <3>3, <4>2, <4>3
      <4>5. OwnOutcome(c, answers[c][1])'
        BY <1>3, <4>4 DEF OwnOutcome, OwnAnswer
      <4> QED  BY <4>3, <4>4, <4>5 DEF Heard
    <3>5. ASSUME IsPrepare(c)
          PROVE  Prepared(c)'
      <4>1. answers[c] = <<>>
        BY <1>2, <2>1, <3>5 DEF Follows, Answered, Prepared
      <4>2. Len(answers'[c]) = 1 /\ answers'[c][1] = answer
        BY <1>2, <1>3, <3>3, <3>5, <4>1, TellsOwn
      <4>3. PreparedAnswer(c, 1, answers[c][1])'
        BY <1>3, <4>2 DEF PreparedAnswer
      <4>4. \A i \in 1 .. Len(answers'[c]) : i = 1
        BY <4>2
      <4>5. \A i \in 1 .. Len(answers'[c]) : PreparedAnswer(c, i, answers[c][i])'
        BY <4>3, <4>4
      <4> QED  BY <2>2, <2>3, <4>5 DEF Prepared, Concerns
    <3> QED  BY <3>1, <3>4, <3>5 DEF Answered
  <2> QED  BY <2>4, <2>5, <2>6 DEF Follows
<1>9. Common'
  BY <1>5, CommonOn DEF Matches
<1> QED  BY <1>7, <1>8, <1>9 DEF Matches

LEMMA SendsMatches ==
  ASSUME Inv, Inv', Matches, NEW ops \in Seq(Requests), Executed(ops), Begins(ops),
         Sends(Head(ops))
  PROVE  Matches'
<1> DEFINE c == Head(ops)
<1>1. /\ UNCHANGED <<called, request, inbound, link, reply, fields, rows, answers, listening>>
      /\ transactionStatus' = "notReady"
      /\ \E parse \in BOOLEAN :
           /\ request[c].kind = "prepare" => parse
           /\ Observe(c, IF request[c].kind = "prepare" THEN PrepareEvents ELSE ExecEvents)
           /\ Send(request[c].kind, c, request[c].statement, parse)
  BY DEF Executed, Sends, serverVars, gathered
<1>2. /\ c \in Requests /\ c <= called /\ Waits(c) /\ ~ Running(c) /\ reply[c] = <<>>
      /\ \A p \in Requests : Waits(p)' <=> Waits(p) /\ p # c
      /\ \A p \in Requests : Waits(p) => p >= c
      /\ queue # <<>> /\ queue' = Tail(queue) /\ \A r \in Requests : ~ Concerns(Head(queue), r)
      /\ toServer = <<>> /\ inbound = <<>> /\ transactionStatus = "idle"
      /\ \A i \in 1 .. Len(queue) : ~ Concerns(queue[i], c)
  BY BeginsFacts
<1> HIDE DEF c
<1>3. PICK parse \in BOOLEAN :
        /\ request[c].kind = "prepare" => parse
        /\ Observe(c, IF request[c].kind = "prepare" THEN PrepareEvents ELSE ExecEvents)
        /\ Send(request[c].kind, c, request[c].statement, parse)
  BY <1>1
<1> DEFINE b == [kind |-> request[c].kind, of |-> c, statement |-> request[c].statement,
                 parse |-> parse]
           X == IF request[c].kind = "prepare" THEN PrepareEvents ELSE ExecEvents
<1>4. /\ \A i \in 1 .. Len(toServer') :
           toServer'[i].of = c /\ toServer'[i].kind = Kind(c)
             /\ (toServer'[i].kind = "prepare" => toServer'[i].parse)
      /\ toServer' # <<>> \/ link' # "up"
  <2>1. toServer' = IF link = "up" THEN Append(toServer, b) ELSE toServer
    BY <1>3 DEF Send
  <2>2. b.of = c /\ b.kind = Kind(c) /\ (b.kind = "prepare" => b.parse)
    BY <1>3 DEF Kind
  <2> HIDE DEF b
  <2>3. \A i \in 1 .. Len(toServer') :
          (\E j \in 1 .. Len(toServer) : toServer[j] = toServer'[i]) \/ toServer'[i] = b
    BY <2>1, SentWith
  <2>4. Len(toServer) = 0 /\ Append(<<>>, b) # <<>>
    BY <1>2
  <2>5. \A i \in 1 .. Len(toServer') : toServer'[i] = b
    BY <2>3, <2>4
  <2> QED  BY <1>1, <1>2, <2>1, <2>2, <2>4, <2>5
<1>5. /\ \A e \in Events, r \in Requests :
           r \in observers'[e] <=> r \in observers[e] \/ (r = c /\ e \in X)
      /\ X \subseteq Events /\ X # {}
  <2>1. observers' = [e \in Events |-> IF e \in X THEN observers[e] \cup {c} ELSE observers[e]]
    BY <1>3 DEF Observe
  <2>2. X \subseteq Events /\ X # {}
    BY DEF PrepareEvents, ExecEvents, Events
  <2> QED  BY <2>1, <2>2
<1>6. IsPrepare(c) \/ IsExec(c)
  <2>1. request[c].kind \in Kinds
    BY <1>2 DEF Inv, Asked
  <2> QED  BY <2>1, Constants DEF IsExec, IsPrepare, Kind
<1>7. /\ (X = PrepareEvents /\ IsPrepare(c)) \/ (X = ExecEvents /\ IsExec(c))
      /\ \A r : (IsExec(r)' <=> IsExec(r)) /\ (IsPrepare(r)' <=> IsPrepare(r)) /\ Kind(r)' = Kind(r)
      /\ \A r : Sole(r)' <=> Sole(r)
      /\ \A r : Silent(r)' <=> Silent(r)
      /\ \A r \in Requests : Running(r)' <=> Running(r) \/ r = c
  <2>1. (X = PrepareEvents /\ IsPrepare(c)) \/ (X = ExecEvents /\ IsExec(c))
    BY <1>6 DEF IsExec, IsPrepare, Kind, ExecKinds
  <2>2. \A r : (IsExec(r)' <=> IsExec(r)) /\ (IsPrepare(r)' <=> IsPrepare(r)) /\ Kind(r)' = Kind(r)
    BY <1>1 DEF IsExec, IsPrepare, Kind
  <2>3. \A r : Sole(r)' <=> Sole(r)
    BY <1>1 DEF Sole, IsPrepare, IsExec, Kind, Shared
  <2>4. \A r : Silent(r)' <=> Silent(r)
    BY <1>1 DEF Silent, Said, Kind
  <2>5. \A r \in Requests : Running(r)' <=> Running(r) \/ r = c
    BY <1>5 DEF Running
  <2> QED  BY <2>1, <2>2, <2>3, <2>4, <2>5
<1> HIDE DEF X, b
<1>8. \A i \in 1 .. Len(queue') : i + 1 \in 1 .. Len(queue) /\ queue'[i] = queue[i + 1]
  BY <1>2, DequeueFacts
<1>9. /\ Len(inbound) = 0 /\ Len(inbound') = 0 /\ called \in Nat
      /\ \A r \in Requests : r \in Nat \ {0}
  <2>1. Len(inbound) = 0 /\ Len(inbound') = 0
    BY <1>1, <1>2
  <2>2. called \in Nat /\ \A r \in Requests : r \in Nat \ {0}
    BY Basics
  <2> QED  BY <2>1, <2>2
<1>10. Common'
  <2>1. Asking'
    <3>1. ~ ShareQueries => \A r \in Requests : IsExec(r)' => request'[r].query = r
      BY <1>1, <1>7 DEF Matches, Common, Asking
    <3>2. \A r \in Requests : IsPrepare(r)' \/ "empty" \notin Replies => ~ Silent(r)'
      BY <1>7 DEF Matches, Common, Asking
    <3>3. \A i \in 1 .. Len(toServer') : Kind(toServer[i].of)' = Kind(c)
      BY <1>1, <1>4 DEF Kind
    <3> QED  BY <1>4, <3>1, <3>2, <3>3 DEF Asking
  <2>2. Sourced'
    <3>1. \A i \in 1 .. Len(queue') : queue'[i].type \in Replied /\ queue'[i].id # 0 =>
            Said(queue'[i].of, Cause(queue'[i].type))
      BY <1>8 DEF Matches, Common, Sourced
    <3>2. \A i \in 1 .. Len(queue') : queue'[i].type \in Replied /\ queue'[i].id # 0 =>
            Said(queue[i].of, Cause(queue[i].type))'
      BY <1>1, <3>1 DEF Said
    <3> QED  BY <1>9, <3>2 DEF Sourced
  <2>3. Roles'
    <3>1. \A e, r : MayHear(e, r)' <=> MayHear(e, r)
      BY <1>7 DEF MayHear
    <3>2. \A r \in listening' : IsExec(r)'
      BY <1>1, <1>7 DEF Matches, Common, Roles
    <3>3. ASSUME NEW e \in Events, NEW r \in Requests, r \in observers'[e]
          PROVE  MayHear(e, r)'
      <4>1. CASE r \in observers[e]
        BY <3>1, <4>1 DEF Matches, Common, Roles
      <4>2. CASE r = c /\ e \in X
        BY <1>7, <3>1, <4>2 DEF MayHear, PrepareEvents, ExecEvents
      <4> QED  BY <1>5, <3>3, <4>1, <4>2
    <3>4. ASSUME NEW r \in Requests, IsPrepare(r)', Running(r)'
          PROVE  r \in observers'["parseComplete"] /\ r \in observers'["error"]
      <4>1. "parseComplete" \in Events /\ "error" \in Events
        BY DEF Events
      <4>2. CASE r = c
        <5>1. IsPrepare(c) /\ ~ IsExec(c)
          BY <1>2, <1>7, <3>4, <4>2, CalledBefore
        <5>2. X = PrepareEvents
          BY <1>7, <5>1
        <5> QED  BY <1>5, <4>1, <4>2, <5>2 DEF PrepareEvents
      <4>3. CASE Running(r)
        BY <1>5, <1>7, <3>4, <4>1, <4>3 DEF Matches, Common, Roles
      <4> QED  BY <1>7, <3>4, <4>2, <4>3
    <3>5. \A i \in 1 .. Len(queue') : queue'[i].type \in Observable /\ queue'[i].id # 0 =>
            MayHear(queue'[i].type, queue'[i].id)
      BY <1>8 DEF Matches, Common, Roles
    <3>6. \A i \in 1 .. Len(queue') : queue'[i].type \in Observable /\ queue'[i].id # 0 =>
            MayHear(queue[i].type, queue[i].id)'
      BY <1>1, <3>5 DEF MayHear, IsPrepare, IsExec, Kind
    <3> QED  BY <3>2, <3>3, <3>4, <3>6 DEF Roles
  <2>4. Sequel'
    <3>1. ASSUME NEW r \in Requests, NEW p \in Requests, Running(r)', Waits(p)'
          PROVE  r < p
      <4>1. CASE Running(r)
        BY <1>2, <3>1, <4>1 DEF Matches, Common, Sequel
      <4>2. CASE r = c
        BY <1>2, <1>9, <3>1, <4>2
      <4> QED  BY <1>7, <3>1, <4>1, <4>2
    <3>2. ASSUME NEW r \in Requests, Running(r)'
          PROVE  c >= r
      <4>1. CASE Running(r)
        <5>1. r < c
          BY <1>2, <4>1 DEF Matches, Common, Sequel
        <5> QED  BY <1>2, <1>9, <5>1
      <4>2. CASE r = c
        BY <1>9, <4>2
      <4> QED  BY <1>7, <3>2, <4>1, <4>2
    <3>3. \A r \in Requests : Running(r)' =>
            /\ \A i \in 1 .. Len(toServer') : toServer'[i].of >= r
            /\ \A i \in 1 .. Len(inbound') : inbound'[i].of >= r
      BY <1>4, <1>9, <3>2
    <3>4. \A i \in 1 .. Len(queue') :
            queue'[i].type \in Replied /\ queue'[i].id # 0 => queue'[i].of >= queue'[i].id
      BY <1>8 DEF Matches, Common, Sequel
    <3> QED  BY <3>1, <3>3, <3>4 DEF Sequel
  <2>5. Replying'
    BY <1>9 DEF Replying
  <2> QED  BY <2>1, <2>2, <2>3, <2>4, <2>5 DEF Common
<1>11. Stays
  BY <1>1, <1>9 DEF Stays, Keeps
<1>12. ASSUME NEW r \in Requests, r # c
       PROVE  Follows(r)'
  <2>1. Steady(queue, queue', r)
    BY <1>2, SteadyTail, Basics
  <2>2. ~ Serves(r)
    BY <1>2 DEF Serves
  <2>3. ~ Asks(r)'
    BY <1>4, <1>12 DEF Asks
  <2>4. \A e \in Events : r \in observers'[e] <=> r \in observers[e]
    BY <1>5, <1>12
  <2>5. Aside(r)
    BY <1>1, <1>2, <1>12, <2>1, <2>2, <2>3, <2>4 DEF Aside
  <2> QED  BY <1>11, <2>5, FollowsOn DEF Matches
<1>13. Follows(c)'
  <2>1. Follows(c)
    BY <1>2 DEF Matches
  <2>2. \A i \in 1 .. Len(queue') : ~ Concerns(queue'[i], c)
    BY <1>2, <1>8
  <2>3. \A k : EndsLast(queue', k, c) /\ ~ Ended(queue', k, c) /\ OwnFirst(queue', k, c)
    <3>1. \A k, i : Ends(queue'[i], k, c) => Concerns(queue'[i], c)
      BY EndsReplied
    <3> QED  BY <2>2, <3>1 DEF EndsLast, Ended, OwnFirst, Concerns
  <2>4. \A t \in Replied : ~ Holds(queue', Task(t, c, c))
    <3>1. \A t \in Replied : Concerns(Task(t, c, c), c)
      BY DEF Concerns, Task
    <3> QED  BY <2>2, <3>1 DEF Holds
  <2>5. \A m : ~ Holds(inbound', m)
    BY <1>9 DEF Holds
  <2>6. rows[c] = <<>> /\ fields[c] = 0
    BY <1>2, <2>1 DEF Follows, Fresh
  <2>7. Exclusive(c)'
    <3>1. Serves(c)'
      BY <1>1, <1>4, <1>9 DEF Serves
    <3> QED  BY <2>3, <3>1 DEF Exclusive
  <2>8. Final(c)'
    BY <2>3 DEF Final
  <2>9. Fresh(c)'
    BY <1>1, <2>6 DEF Fresh
  <2>10. Whole(c)'
    <3>1. ~ Announced(c)'
      BY <2>4, <2>5 DEF Announced, Replied
    <3>2. Len(rows'[c]) = 0 /\ fields'[c] = 0
      BY <1>1, <2>6
    <3> QED  BY <3>1, <3>2 DEF Whole
  <2>11. Describable(c)'
    <3>1. IsExec(c)' => c \in observers'["description"]
      <4>1. ASSUME IsExec(c)
            PROVE  X = ExecEvents
        BY <1>2, <1>7, <4>1, CalledBefore
      <4> QED  BY <1>2, <1>5, <1>7, <4>1 DEF ExecEvents, Events
    <3> QED  BY <2>5, <3>1 DEF Describable
  <2>12. Answered(c)'
    <3>1. AnsweredAside(c)
      BY <1>1, <1>2, <1>7 DEF AnsweredAside
    <3> QED  BY <1>2, <1>11, <2>1, <3>1, AnsweredOn DEF Follows
  <2> QED  BY <2>7, <2>8, <2>9, <2>10, <2>11, <2>12 DEF Follows
<1> QED  BY <1>10, <1>12, <1>13 DEF Matches

-----------------------------------------------------------------------------
(***************************************************************************)
(* A call of exec or prepare.                                              *)
(***************************************************************************)
LEMMA CallsFacts ==
  ASSUME Inv, NEW c, NEW x, Calls(c, x)
  PROVE  /\ c \in Requests /\ c = called + 1 /\ called \in Nat /\ called' = c
         /\ request'[c] = x /\ x.kind \in Kinds
         /\ \A r \in Requests : r # c => request'[r] = request[r]
         /\ x.kind # "prepare" => x.kind \in ExecKinds /\ x.query \in QueriesFor(c)
         /\ ~ Running(c) /\ ~ Waits(c) /\ reply[c] = <<>> /\ answers[c] = <<>>
         /\ c \notin listening
         /\ \A i \in 1 .. Len(queue') : \/ \E j \in 1 .. Len(queue) : queue[j] = queue'[i]
                                        \/ queue'[i] = Task("operation", c, 0)
         /\ \A i \in 1 .. Len(queue) : queue[i].id # c
         /\ \A r : Steady(queue, queue', r)
         /\ \A p \in Requests : Waits(p)' => Waits(p) \/ p = c
         /\ \A p \in Requests : Waits(p) => Waits(p)'
         /\ queue' # queue => Waits(c)'
<1>1. /\ c \in Requests /\ c = called + 1 /\ called' = c /\ request' = [request EXCEPT ![c] = x]
      /\ x.kind \in Kinds
      /\ x.kind # "prepare" => x.query \in QueriesFor(c)
      /\ queue' = Append(queue, Task("operation", c, 0)) \/ queue' = queue
      /\ queryQueue' = queryQueue
  BY DEF Calls, clientVars
<1>2. called \in Nat /\ queue \in Seq(TaskRecords) /\ queryQueue \in Seq(Requests)
      /\ Ordered(queryQueue, queue, called)
  BY Basics DEF Inv, Typed, Queued
<1>3. c > called
  BY <1>1, <1>2
<1>4. ~ Running(c) /\ ~ Waits(c) /\ reply[c] = <<>> /\ answers[c] = <<>> /\ c \notin listening
  <2>1. ~ (c <= called)
    BY <1>1, <1>2
  <2> QED  BY <1>1, <1>3, <2>1, CalledBefore
<1>5. request'[c] = x /\ \A r \in Requests : r # c => request'[r] = request[r]
  BY <1>1 DEF Inv, Typed
<1>6. x.kind # "prepare" => x.kind \in ExecKinds
  BY <1>1, Constants
<1>7. \A i \in 1 .. Len(queue) : queue[i].id # c
  <2>1. \A i \in 1 .. Len(queue) : queue[i].id \in 0 .. called
    BY Basics
  <2> QED  BY <1>1, <1>2, <2>1
<1> DEFINE t == Task("operation", c, 0)
<1>8. t \in TaskRecords /\ t.type = "operation"
  BY <1>1, Basics DEF Task, TaskRecords, TaskTypes
<1> HIDE DEF t
<1>9. CASE queue' = queue
  <2>1. \A r : Steady(queue, queue', r)
    BY <1>9, SteadySame
  <2>2. \A p : Waits(p)' <=> Waits(p)
    BY <1>1, <1>9 DEF Waits
  <2> QED  BY <1>1, <1>2, <1>4, <1>5, <1>6, <1>7, <1>9, <2>1, <2>2
<1>10. CASE queue' = Append(queue, t)
  <2>1. \A i \in 1 .. Len(queue') : (\E j \in 1 .. Len(queue) : queue[j] = queue'[i]) \/ queue'[i] = t
    <3>1. /\ Len(queue') = Len(queue) + 1 /\ Len(queue) \in Nat
          /\ \A i \in 1 .. Len(queue) : queue'[i] = queue[i]
          /\ queue'[Len(queue) + 1] = t
      BY <1>2, <1>8, <1>10, AppendFacts
    <3> QED  BY <3>1
  <2>2. \A r : Steady(queue, queue', r)
    <3> DEFINE new == <<t>>
    <3>1. new \in Seq(TaskRecords) /\ Len(new) = 1 /\ new[1] = t /\ queue' = queue \o new
      BY <1>2, <1>8, <1>10
    <3> HIDE DEF new
    <3>2. \A i \in 1 .. Len(new) : \A r : ~ Concerns(new[i], r)
      BY <1>8, <3>1 DEF Concerns, Replied
    <3> QED  BY <1>2, <3>1, <3>2, SteadyConcat
  <2>3. \A p : Pending(queryQueue, queue', p) <=> Pending(queryQueue, queue, p) \/ p = c
    BY <1>1, <1>2, <1>10, OrderedCall DEF t
  <2>4. \A p : Waits(p)' <=> Waits(p) \/ p = c
    BY <1>1, <2>3 DEF Waits
  <2> QED  BY <1>1, <1>2, <1>4, <1>5, <1>6, <1>7, <2>1, <2>2, <2>4 DEF t
<1> QED  BY <1>1, <1>9, <1>10 DEF t

LEMMA CallsCommon ==
  ASSUME Inv, Common, NEW c, NEW x, Calls(c, x)
  PROVE  Common'
<1>1. /\ c \in Requests /\ c = called + 1 /\ called \in Nat
      /\ request'[c] = x /\ x.kind \in Kinds
      /\ \A r \in Requests : r # c => request'[r] = request[r]
      /\ x.kind # "prepare" => x.kind \in ExecKinds /\ x.query \in QueriesFor(c)
      /\ ~ Running(c) /\ reply[c] = <<>> /\ c \notin listening
      /\ \A i \in 1 .. Len(queue') : \/ \E j \in 1 .. Len(queue) : queue[j] = queue'[i]
                                     \/ queue'[i] = Task("operation", c, 0)
      /\ \A i \in 1 .. Len(queue) : queue[i].id # c
      /\ \A p \in Requests : Waits(p)' => Waits(p) \/ p = c
  BY CallsFacts
<1>2. /\ UNCHANGED <<observers, inbound, toServer, reply>>
      /\ listening' \subseteq listening \/ (x.kind # "prepare" /\ listening' \subseteq listening \cup {c})
  <2>1. UNCHANGED <<observers, inbound, toServer, reply>>
    BY DEF Calls, serverVars
  <2>2. \/ listening' = IF x.kind = "prepare" THEN listening ELSE listening \cup {c}
        \/ Tell(Listeners(x.query) \cup {c}, Answer("notConnected", 0))
    BY DEF Calls
  <2>3. listening' \subseteq listening \/ (x.kind # "prepare" /\ listening' \subseteq listening \cup {c})
    BY <2>2 DEF Tell
  <2> QED  BY <2>1, <2>3
<1>3. /\ \A r \in Requests : r # c => /\ Kind(r)' = Kind(r)
                                      /\ IsExec(r)' <=> IsExec(r)
                                      /\ IsPrepare(r)' <=> IsPrepare(r)
      /\ IsExec(c)' <=> x.kind # "prepare"
  BY <1>1 DEF Kind, IsExec, IsPrepare, ExecKinds
<1>4. Asking'
  <2>1. ASSUME ~ ShareQueries, NEW r \in Requests, IsExec(r)'
        PROVE  request'[r].query = r
    <3>1. CASE r = c
      <4>1. x.query \in QueriesFor(c)
        BY <1>1, <1>3, <2>1, <3>1
      <4> QED  BY <1>1, <2>1, <3>1, <4>1 DEF QueriesFor
    <3>2. CASE r # c
      BY <1>1, <1>3, <2>1, <3>2 DEF Common, Asking
    <3> QED  BY <3>1, <3>2
  <2>2. ASSUME NEW i \in 1 .. Len(toServer'), toServer'[i].of # 0
        PROVE  /\ toServer'[i].kind = Kind(toServer[i].of)'
               /\ toServer'[i].kind = "prepare" => toServer'[i].parse
    <3>1. i \in 1 .. Len(toServer) /\ toServer'[i] = toServer[i] /\ toServer[i].of \in 0 .. called
      BY <1>2 DEF Inv, Parses
    <3>2. toServer[i].of \in Requests /\ toServer[i].of # c
      <4>1. MaxRequests \in Nat /\ Requests = 1 .. MaxRequests /\ called \in 0 .. MaxRequests
        BY Basics
      <4>2. toServer[i].of # 0
        BY <2>2, <3>1
      <4> QED  BY <1>1, <3>1, <4>1, <4>2
    <3>3. request'[toServer[i].of] = request[toServer[i].of]
      BY <1>1, <3>2
    <3> QED  BY <1>2, <2>2, <3>1, <3>3 DEF Common, Asking, Kind
  <2>3. ASSUME NEW r \in Requests, IsPrepare(r)' \/ "empty" \notin Replies
        PROVE  ~ Silent(r)'
    <3>1. CASE r = c
      BY <1>1, <1>2, <3>1 DEF Silent
    <3>2. CASE r # c
      BY <1>2, <1>3, <2>3, <3>2 DEF Common, Asking, Silent, Said
    <3> QED  BY <3>1, <3>2
  <2> QED  BY <2>1, <2>2, <2>3 DEF Asking
<1>5. \A i \in 1 .. Len(queue') : queue'[i].type # "operation" =>
        \E j \in 1 .. Len(queue) : queue[j] = queue'[i]
  <2>1. Task("operation", c, 0).type = "operation"
    BY DEF Task
  <2> QED  BY <1>1, <2>1
<1>6. Sourced'
  <2>1. \A i \in 1 .. Len(queue') : queue'[i].type \in Replied /\ queue'[i].id # 0 =>
          Said(queue'[i].of, Cause(queue'[i].type))
    <3>1. "operation" \notin Replied
      BY DEF Replied
    <3> QED  BY <1>5, <3>1 DEF Common, Sourced
  <2>2. \A i \in 1 .. Len(queue') : queue'[i].type \in Replied /\ queue'[i].id # 0 =>
          Said(queue[i].of, Cause(queue[i].type))'
    BY <1>2, <2>1 DEF Said
  <2>3. \A i \in 1 .. Len(inbound') : inbound'[i].of # 0 =>
          Said(inbound[i].of, {inbound[i].type})'
    BY <1>2 DEF Common, Sourced, Said
  <2> QED  BY <2>2, <2>3 DEF Sourced
<1>7. Roles'
  <2>1. ASSUME NEW e, NEW r \in Requests, r # c
        PROVE  MayHear(e, r)' <=> MayHear(e, r)
    BY <1>3, <2>1 DEF MayHear
  <2>2. \A r \in listening' : IsExec(r)'
    <3>1. \A r \in listening : IsExec(r)'
      <4>1. listening \subseteq Requests
        BY DEF Inv, Typed
      <4> QED  BY <1>1, <1>3, <4>1 DEF Common, Roles
    <3> QED  BY <1>2, <1>3, <3>1
  <2>3. ASSUME NEW e \in Events, NEW r \in Requests, r \in observers'[e]
        PROVE  MayHear(e, r)'
    <3>1. r # c /\ r \in observers[e]
      BY <1>1, <1>2, <2>3 DEF Running
    <3> QED  BY <2>1, <3>1 DEF Common, Roles
  <2>4. ASSUME NEW r \in Requests, IsPrepare(r)', Running(r)'
        PROVE  r \in observers'["parseComplete"] /\ r \in observers'["error"]
    <3>1. Running(r) /\ r # c
      BY <1>1, <1>2, <2>4 DEF Running
    <3> QED  BY <1>2, <1>3, <2>4, <3>1 DEF Common, Roles
  <2>5. ASSUME NEW i \in 1 .. Len(queue'), queue'[i].type \in Observable, queue'[i].id # 0
        PROVE  MayHear(queue[i].type, queue[i].id)'
    <3>1. PICK j \in 1 .. Len(queue) : queue[j] = queue'[i]
      BY <1>5, <2>5 DEF Observable, Events
    <3>2. queue[j].id \in Requests /\ queue[j].id # c
      <4>1. queue[j].id \in 0 .. called /\ queue[j].id # 0
        BY <2>5, <3>1, Basics
      <4>2. called \in 0 .. MaxRequests /\ MaxRequests \in Nat /\ Requests = 1 .. MaxRequests
        BY Basics
      <4> QED  BY <1>1, <4>1, <4>2
    <3>3. MayHear(queue[j].type, queue[j].id)
      BY <2>5, <3>1 DEF Common, Roles
    <3>4. request'[queue[j].id] = request[queue[j].id]
      BY <1>1, <3>2
    <3> QED  BY <3>1, <3>3, <3>4 DEF MayHear, IsExec, IsPrepare, Kind
  <2> QED  BY <2>2, <2>3, <2>4, <2>5 DEF Roles
<1>8. Sequel'
  <2>1. \A r \in Requests : Running(r)' => Running(r) /\ r < c
    <3>1. \A r \in Requests : Running(r)' => Running(r)
      BY <1>2 DEF Running
    <3>2. \A r \in Requests : Running(r) => r <= called
      BY CalledBefore
    <3>3. called \in Nat /\ \A r \in Requests : r \in Nat
      BY Basics
    <3>4. \A r \in Requests : r <= called => r < c
      <4>1. c = called + 1
        BY <1>1
      <4> QED  BY <3>3, <4>1
    <3> QED  BY <3>1, <3>2, <3>4
  <2>2. \A r, p \in Requests : Running(r)' /\ Waits(p)' => r < p
    BY <1>1, <2>1 DEF Common, Sequel
  <2>3. \A r \in Requests : Running(r)' =>
          /\ \A i \in 1 .. Len(toServer') : toServer'[i].of >= r
          /\ \A i \in 1 .. Len(inbound') : inbound'[i].of >= r
    BY <1>2, <2>1 DEF Common, Sequel
  <2>4. \A i \in 1 .. Len(queue') :
          queue'[i].type \in Replied /\ queue'[i].id # 0 => queue'[i].of >= queue'[i].id
    BY <1>5 DEF Common, Sequel, Replied
  <2> QED  BY <2>2, <2>3, <2>4 DEF Sequel
<1>9. Replying'
  <2>1. ASSUME NEW i \in 1 .. Len(inbound), inbound[i].of # 0
        PROVE  Kind(inbound[i].of)' = Kind(inbound[i].of)
    <3>1. Said(inbound[i].of, {inbound[i].type})
      BY <2>1 DEF Common, Sourced
    <3>2. reply[inbound[i].of] # <<>>
      BY <3>1 DEF Said
    <3>3. inbound[i].of \in Requests
      BY <2>1, Basics
    <3>4. request'[inbound[i].of] = request[inbound[i].of]
      BY <1>1, <3>2, <3>3
    <3> QED  BY <1>2, <3>4 DEF Kind
  <2>2. ASSUME NEW i \in 1 .. Len(inbound'), NEW j \in 1 .. Len(inbound'), i < j
        PROVE  /\ inbound'[i].of # 0 /\ inbound'[i].type \in EndsOf(Kind(inbound[i].of)') =>
                    inbound'[j].type \in Closing
               /\ inbound'[i].type = "description" => inbound'[j].type # "description"
    BY <1>2, <2>1, <2>2 DEF Common, Replying
  <2> QED  BY <2>2 DEF Replying
<1> QED  BY <1>4, <1>6, <1>7, <1>8, <1>9 DEF Common

LEMMA CallsMatches ==
  ASSUME Inv, Inv', Matches, NEW c, NEW x, Calls(c, x)
  PROVE  Matches'
<1>1. /\ c \in Requests /\ c = called + 1 /\ called \in Nat /\ called' = c
      /\ request'[c] = x /\ x.kind \in Kinds
      /\ \A r \in Requests : r # c => request'[r] = request[r]
      /\ x.kind # "prepare" => x.kind \in ExecKinds
      /\ ~ Running(c) /\ answers[c] = <<>> /\ c \notin listening
      /\ \A i \in 1 .. Len(queue') : \/ \E j \in 1 .. Len(queue) : queue[j] = queue'[i]
                                     \/ queue'[i] = Task("operation", c, 0)
      /\ \A i \in 1 .. Len(queue) : queue[i].id # c
      /\ \A r : Steady(queue, queue', r)
      /\ \A p \in Requests : Waits(p)' => Waits(p) \/ p = c
      /\ \A p \in Requests : Waits(p) => Waits(p)'
      /\ queue' # queue => Waits(c)'
  BY CallsFacts
<1>2. UNCHANGED <<observers, inbound, toServer, reply, fields, rows, transactionStatus, link>>
  BY DEF Calls, serverVars, gathered, socketVars
<1>3. Common'
  BY CallsCommon DEF Matches
<1>4. Stays
  <2>1. \A p \in Requests : p <= called => p # c
    BY <1>1
  <2> QED  BY <1>1, <1>2, <2>1 DEF Stays, Keeps
<1>5. ASSUME NEW r \in Requests, r # c
      PROVE  Follows(r)'
  <2>1. ASSUME Sole(r)'
        PROVE  answers'[r] = answers[r] /\ (r \in listening' <=> r \in listening)
    <3>1. CASE answers' = answers /\ listening' = IF x.kind = "prepare" THEN listening
                                                                   ELSE listening \cup {c}
      BY <1>5, <3>1
    <3>2. CASE x.kind # "prepare" /\ Tell(Listeners(x.query) \cup {c}, Answer("notConnected", 0))
      <4>1. r \notin Listeners(x.query)
        <5>1. SUFFICES ASSUME r \in listening, request[r].query = x.query
                       PROVE  FALSE
          BY DEF Listeners
        <5>2. IsExec(r)'
          BY <1>1, <1>5, <5>1 DEF Matches, Common, Roles, IsExec
        <5>3. Shared(r)'
          <6>1. IsExec(c)' /\ request'[c].query = request'[r].query /\ c \in Requests \ {r}
            BY <1>1, <1>5, <3>2, <5>1 DEF IsExec
          <6> QED  BY <6>1 DEF Shared
        <5>4. ~ IsPrepare(r)'
          BY <5>2 DEF IsExec, IsPrepare, Kind, ExecKinds
        <5> QED  BY <2>1, <5>3, <5>4 DEF Sole
      <4> QED  BY <1>5, <3>2, <4>1 DEF Tell
    <3> QED  BY <3>1, <3>2 DEF Calls
  <2>2. Waits(r)' <=> Waits(r)
    BY <1>1, <1>5
  <2>3. Serves(r) => Serves(r)'
    BY <1>1, <1>2, <1>5 DEF Serves, Kind
  <2>4. Aside(r)
    BY <1>1, <1>2, <1>5, <2>1, <2>2, <2>3 DEF Aside, Asks
  <2> QED  BY <1>4, <2>4, FollowsOn DEF Matches
<1>6. Follows(c)'
  <2>1. ~ Running(c)' /\ ~ Owns(c)'
    BY <1>1, <1>2 DEF Running, Owns
  <2>2. \A i \in 1 .. Len(queue') : ~ Concerns(queue'[i], c)
    <3>1. ~ Concerns(Task("operation", c, 0), c)
      BY DEF Concerns, Task, Replied
    <3>2. \A i \in 1 .. Len(queue) : ~ Concerns(queue[i], c)
      BY <1>1 DEF Concerns
    <3> QED  BY <1>1, <3>1, <3>2
  <2>3. Final(c)'
    <3>1. \A k, i : Ends(queue'[i], k, c) => Concerns(queue'[i], c)
      BY EndsReplied
    <3>2. \A k : EndsLast(queue', k, c) /\ ~ Ended(queue', k, c)
      BY <2>2, <3>1 DEF EndsLast, Ended
    <3> QED  BY <3>2 DEF Final
  <2>4. Fresh(c)'
    <3>1. c > called
      BY <1>1
    <3>2. rows[c] = <<>> /\ fields[c] = 0
      BY <1>1, <3>1 DEF Matches, Follows, Fresh
    <3> QED  BY <1>2, <3>2 DEF Fresh
  <2>5. Exclusive(c)' /\ Whole(c)' /\ Describable(c)'
    BY <2>1 DEF Exclusive, Whole, Describable
  <2>6. CASE answers' = answers /\ listening' = (IF x.kind = "prepare" THEN listening
                                                                  ELSE listening \cup {c})
             /\ Waits(c)'
    <3>1. Len(answers'[c]) = 0 /\ answers'[c] = <<>>
      BY <1>1, <2>6
    <3>2. Heard(c)'
      BY <2>6, <3>1 DEF Heard
    <3>3. Prepared(c)'
      BY <2>2, <3>1 DEF Prepared, Concerns
    <3> QED  BY <2>3, <2>4, <2>5, <3>2, <3>3 DEF Follows, Answered
  <2>7. CASE x.kind # "prepare" /\ Tell(Listeners(x.query) \cup {c}, Answer("notConnected", 0))
    <3> DEFINE a == Answer("notConnected", 0)
    <3>1. answers'[c] = Append(answers[c], a) /\ c \notin listening'
      BY <1>1, <2>7 DEF Tell
    <3>2. a.type = "notConnected" /\ a.of = 0
      BY DEF Answer
    <3> HIDE DEF a
    <3>3. Len(answers'[c]) = 1 /\ answers'[c][1] = a
      BY <1>1, <3>1
    <3>4. OwnOutcome(c, answers[c][1])'
      BY <3>2, <3>3 DEF OwnOutcome, OwnAnswer
    <3>5. \A i \in 1 .. Len(answers'[c]) : i = 1
      BY <3>3
    <3>6. \A i \in 1 .. Len(answers'[c]) : OwnOutcome(c, answers[c][i])'
      BY <3>4, <3>5
    <3>7. Heard(c)'
      BY <3>1, <3>3, <3>6 DEF Heard
    <3>8. ~ IsPrepare(c)'
      BY <1>1, <2>7 DEF IsPrepare, Kind
    <3> QED  BY <2>3, <2>4, <2>5, <3>7, <3>8 DEF Follows, Answered
  <2>8. Append(queue, Task("operation", c, 0)) # queue
    <3>1. Task("operation", c, 0) \in TaskRecords /\ queue \in Seq(TaskRecords)
      BY <1>1, Basics DEF Task, TaskRecords, TaskTypes
    <3>2. Len(Append(queue, Task("operation", c, 0))) = Len(queue) + 1 /\ Len(queue) \in Nat
      BY <3>1, AppendFacts
    <3>3. Len(queue) # Len(queue) + 1
      BY <3>2
    <3> QED  BY <3>2, <3>3
  <2> QED  BY <1>1, <2>6, <2>7, <2>8 DEF Calls
<1> QED  BY <1>3, <1>5, <1>6 DEF Matches

-----------------------------------------------------------------------------
(***************************************************************************)
(* The server replies.                                                     *)
(***************************************************************************)

\* What concludes a request of kind k is the last but for the status, and what
\* describes the rows is said once.
Orderly(types, k) ==
  \A i, j \in 1 .. Len(types) : i < j =>
    /\ types[i] \in EndsOf(k) => types[j] \in Closing
    /\ types[i] = "description" => types[j] # "description"

Reaches(types, k) == \E i \in 1 .. Len(types) : types[i] \in EndsOf(k) \cup {"fatal"}

LEMMA OrderlyConcat ==
  ASSUME NEW p \in Seq(MessageTypes), NEW q \in Seq(MessageTypes), NEW k,
         Orderly(p, k), Orderly(q, k),
         \A i \in 1 .. Len(p), j \in 1 .. Len(q) :
           /\ p[i] \in EndsOf(k) => q[j] \in Closing
           /\ p[i] = "description" => q[j] # "description"
  PROVE  /\ p \o q \in Seq(MessageTypes) /\ Orderly(p \o q, k)
         /\ Reaches(p, k) \/ Reaches(q, k) => Reaches(p \o q, k)
<1> DEFINE pq == p \o q
<1>1. /\ pq \in Seq(MessageTypes) /\ Len(pq) = Len(p) + Len(q)
      /\ Len(p) \in Nat /\ Len(q) \in Nat
      /\ \A i \in 1 .. Len(p) : pq[i] = p[i]
      /\ \A i \in Len(p) + 1 .. Len(p) + Len(q) : pq[i] = q[i - Len(p)]
  BY ConcatFacts
<1> HIDE DEF pq
<1>2. \A i \in 1 .. Len(pq) :
        \/ i \in 1 .. Len(p) /\ pq[i] = p[i]
        \/ i - Len(p) \in 1 .. Len(q) /\ i > Len(p) /\ pq[i] = q[i - Len(p)]
  BY <1>1
<1>3. ASSUME NEW i \in 1 .. Len(pq), NEW j \in 1 .. Len(pq), i < j
      PROVE  /\ pq[i] \in EndsOf(k) => pq[j] \in Closing
             /\ pq[i] = "description" => pq[j] # "description"
  <2>1. CASE i \in 1 .. Len(p) /\ pq[i] = p[i] /\ j \in 1 .. Len(p) /\ pq[j] = p[j]
    BY <1>3, <2>1 DEF Orderly
  <2>2. CASE /\ i \in 1 .. Len(p) /\ pq[i] = p[i]
             /\ j - Len(p) \in 1 .. Len(q) /\ pq[j] = q[j - Len(p)]
    BY <2>2
  <2>3. CASE /\ i - Len(p) \in 1 .. Len(q) /\ pq[i] = q[i - Len(p)]
             /\ j - Len(p) \in 1 .. Len(q) /\ pq[j] = q[j - Len(p)]
    <3>1. i - Len(p) < j - Len(p)
      BY <1>1, <1>3
    <3> QED  BY <2>3, <3>1 DEF Orderly
  <2>4. ~ (i > Len(p) /\ j \in 1 .. Len(p))
    BY <1>1, <1>3
  <2> QED  BY <1>2, <2>1, <2>2, <2>3, <2>4
<1>4. \A i \in 1 .. Len(p) : i \in 1 .. Len(pq) /\ pq[i] = p[i]
  BY <1>1
<1>5. ASSUME NEW i \in 1 .. Len(q)
      PROVE  i + Len(p) \in 1 .. Len(pq) /\ pq[i + Len(p)] = q[i]
  <2>1. i + Len(p) \in Len(p) + 1 .. Len(p) + Len(q) /\ (i + Len(p)) - Len(p) = i
        /\ i + Len(p) \in 1 .. Len(pq)
    BY <1>1
  <2> QED  BY <1>1, <2>1
<1>6. Orderly(pq, k)
  BY <1>3 DEF Orderly
<1>7. Reaches(p, k) \/ Reaches(q, k) => Reaches(pq, k)
  BY <1>4, <1>5 DEF Reaches
<1> QED  BY <1>1, <1>6, <1>7 DEF pq

LEMMA BodiesOrderly ==
  ASSUME NEW k, k # "prepare", NEW answer \in QueryReplies
  PROVE  /\ Body[answer] \in Seq(MessageTypes) /\ Orderly(Body[answer], k)
         /\ answer # "empty" => Reaches(Body[answer], k)
<1>1. /\ Body["command"] = <<"complete">> /\ Body["error"] = <<"error">>
      /\ Body["rows"] = <<"description", "row", "row", "complete">>
      /\ Body["lateError"] = <<"description", "row", "error">>
      /\ Body["setting"] = <<"uncounted">> /\ Body["begin"] = <<"uncounted">>
      /\ Body["empty"] = <<>>
      /\ Body["fatal"] = <<"fatal">>
  BY DEF Body
<1>2. /\ <<"complete">> \in Seq(MessageTypes) /\ <<"error">> \in Seq(MessageTypes)
      /\ <<"description", "row", "row", "complete">> \in Seq(MessageTypes)
      /\ <<"description", "row", "error">> \in Seq(MessageTypes)
      /\ <<>> \in Seq(MessageTypes) /\ <<"fatal">> \in Seq(MessageTypes)
      /\ <<"uncounted">> \in Seq(MessageTypes)
  BY DEF MessageTypes
<1>3. CASE answer \in {"command", "setting", "begin"}
  <2>1. \A t \in {"complete", "uncounted"} : Orderly(<<t>>, k) /\ Reaches(<<t>>, k)
    BY DEF Orderly, Reaches, EndsOf
  <2> QED  BY <1>1, <1>2, <1>3, <2>1
<1>4. CASE answer = "rows"
  <2> DEFINE q == <<"description", "row", "row", "complete">>
  <2>1. Orderly(q, k)
    BY SMTT(30) DEF Orderly, EndsOf
  <2>2. 4 \in 1 .. Len(q) /\ q[4] \in EndsOf(k)
    BY DEF EndsOf
  <2>3. Reaches(q, k)
    BY <2>2 DEF Reaches
  <2> QED  BY <1>1, <1>2, <1>4, <2>1, <2>3
<1>5. CASE answer = "error"
  <2>1. Orderly(<<"error">>, k) /\ Reaches(<<"error">>, k)
    BY DEF Orderly, Reaches, EndsOf
  <2> QED  BY <1>1, <1>2, <1>5, <2>1
<1>6. CASE answer = "lateError"
  <2> DEFINE q == <<"description", "row", "error">>
  <2>1. Orderly(q, k)
    BY SMTT(30) DEF Orderly, EndsOf
  <2>2. 3 \in 1 .. Len(q) /\ q[3] \in EndsOf(k)
    BY DEF EndsOf
  <2>3. Reaches(q, k)
    BY <2>2 DEF Reaches
  <2> QED  BY <1>1, <1>2, <1>6, <2>1, <2>3
<1>7. CASE answer = "empty"
  <2>1. Orderly(<<>>, k)
    BY DEF Orderly
  <2> QED  BY <1>1, <1>2, <1>7, <2>1
<1>8. CASE answer = "fatal"
  <2>1. Orderly(<<"fatal">>, k) /\ Reaches(<<"fatal">>, k)
    BY DEF Orderly, Reaches
  <2> QED  BY <1>1, <1>2, <1>8, <2>1
<1> QED  BY <1>3, <1>4, <1>5, <1>6, <1>7, <1>8 DEF QueryReplies

LEMMA ServeOrderly ==
  ASSUME Inv, Asking, Serve, NEW r, r = toServer[1].of, r # 0
  PROVE  /\ Orderly(reply'[r], Kind(r))
         /\ Kind(r) = "prepare" \/ "empty" \notin Replies => Reaches(reply'[r], Kind(r))
<1> DEFINE b == toServer[1]
           k == Kind(r)
<1>1. toServer # <<>> /\ b \in BodyRecords /\ 1 \in 1 .. Len(toServer)
  BY DEF Serve, Inv, Typed
<1>2. b.kind \notin LoginKinds /\ b.kind = k /\ (k = "prepare" => b.parse)
  BY <1>1 DEF Inv, LoggedIn, Asking
<1>3. ASSUME NEW types, ReplyTo(b.of, types)
      PROVE  reply'[r] = types
  <2>1. r \in 0 .. MaxRequests /\ reply \in [0 .. MaxRequests -> Seq(MessageTypes)]
    BY <1>1, Basics DEF BodyRecords
  <2>2. reply' = [reply EXCEPT ![r] = types]
    BY <1>3 DEF ReplyTo
  <2> QED  BY <2>1, <2>2
<1>4. /\ <<"ready">> \in Seq(MessageTypes) /\ <<"begun">> \in Seq(MessageTypes)
      /\ <<"parseComplete">> \in Seq(MessageTypes) /\ <<>> \in Seq(MessageTypes)
      /\ <<"fatal">> \in Seq(MessageTypes)
  BY DEF MessageTypes
<1>5. /\ Orderly(<<"ready">>, k) /\ Orderly(<<"begun">>, k) /\ Orderly(<<"parseComplete">>, k)
      /\ Orderly(<<>>, k) /\ Orderly(<<"fatal">>, k) /\ Reaches(<<"fatal">>, k)
  BY DEF Orderly, Reaches
<1>6. CASE ServeParseError(b) \/ ServeUnknown(b)
  <2> DEFINE q == <<"error", "ready">>
  <2>1. q[1] = "error" /\ q[2] = "ready" /\ Len(q) = 2
    OBVIOUS
  <2>2. reply'[r] = q
    BY <1>3, <1>6 DEF ServeParseError, ServeUnknown
  <2> HIDE DEF q
  <2>3. \A i \in 1 .. Len(q) : i = 1 \/ i = 2
    BY <2>1
  <2>4. Orderly(q, k)
    BY <2>1, <2>3 DEF Orderly, Closing
  <2>5. Reaches(q, k)
    BY <2>1 DEF Reaches, EndsOf
  <2> QED  BY <2>2, <2>4, <2>5
<1>7. Parsed(b) \in {<<>>, <<"parseComplete">>}
  BY DEF Parsed
<1>8. ASSUME NEW p \in Seq(MessageTypes), Orderly(p, k), NEW x \in {"ready", "begun"}
      PROVE  Orderly(p \o <<x>>, k) /\ (Reaches(p, k) => Reaches(p \o <<x>>, k))
  <2>1. <<x>> \in Seq(MessageTypes) /\ Orderly(<<x>>, k)
    BY <1>4, <1>5
  <2>2. \A j \in 1 .. Len(<<x>>) : <<x>>[j] \in Closing /\ <<x>>[j] # "description"
    BY DEF Closing
  <2> QED  BY <1>8, <2>1, <2>2, OrderlyConcat
<1>9. CASE ServePrepare(b)
  <2>1. k = "prepare" /\ Parsed(b) = <<"parseComplete">>
    BY <1>2, <1>9 DEF ServePrepare, Parsed
  <2>2. Reaches(<<"parseComplete">>, k)
    BY <2>1 DEF Reaches, EndsOf
  <2>3. reply'[r] = <<"parseComplete">> \o <<"ready">>
    BY <1>3, <1>9, <2>1 DEF ServePrepare
  <2> QED  BY <1>4, <1>5, <1>8, <2>2, <2>3
<1>10. CASE ServeExec(b)
  <2>1. k # "prepare"
    BY <1>2, <1>10 DEF ServeExec, ExecKinds
  <2>2. PICK answer \in Replies \cap QueryReplies :
           reply'[r] = Parsed(b) \o Body[answer]
             \o (CASE answer = "fatal" -> <<>> [] answer = "begin" -> <<"begun">>
                   [] OTHER -> <<"ready">>)
    BY <1>3, <1>10 DEF ServeExec
  <2>3. /\ Body[answer] \in Seq(MessageTypes) /\ Orderly(Body[answer], k)
        /\ answer # "empty" => Reaches(Body[answer], k)
    BY <2>1, BodiesOrderly
  <2>4. /\ Parsed(b) \o Body[answer] \in Seq(MessageTypes) /\ Orderly(Parsed(b) \o Body[answer], k)
        /\ answer # "empty" => Reaches(Parsed(b) \o Body[answer], k)
    <3>1. Parsed(b) \in Seq(MessageTypes) /\ Orderly(Parsed(b), k)
      BY <1>4, <1>5, <1>7
    <3>2. \A i \in 1 .. Len(Parsed(b)) : Parsed(b)[i] = "parseComplete"
      BY <1>7
    <3>3. \A i \in 1 .. Len(Parsed(b)) : Parsed(b)[i] \notin EndsOf(k) \cup {"description"}
      BY <2>1, <3>2 DEF EndsOf
    <3> QED  BY <2>3, <3>1, <3>3, OrderlyConcat
  <2>5. CASE answer = "fatal"
    <3>1. reply'[r] = Parsed(b) \o Body[answer] \o <<>>
      BY <2>2, <2>5
    <3>2. \A q \in Seq(MessageTypes) : q \o <<>> = q
      OBVIOUS
    <3> QED  BY <2>4, <2>5, <3>1, <3>2
  <2>6. CASE answer # "fatal"
    <3>1. PICK x \in {"ready", "begun"} : reply'[r] = Parsed(b) \o Body[answer] \o <<x>>
      BY <2>2, <2>6
    <3> QED  BY <1>8, <2>1, <2>4, <3>1
  <2> QED  BY <2>5, <2>6
<1> QED  BY <1>1, <1>2, <1>6, <1>9, <1>10 DEF Serve

LEMMA ServeFacts ==
  ASSUME Inv, NEW types, ServerReplies(types), NEW c, c = toServer[1].of
  PROVE  /\ UNCHANGED <<called, request, listening, answers, queue, queryQueue, observers,
                        fields, rows, transactionStatus, link>>
         /\ toServer # <<>> /\ Len(toServer) = 1 /\ toServer' = <<>> /\ inbound = <<>>
         /\ c \in 0 .. MaxRequests /\ transactionStatus # "idle" /\ link = "up"
         /\ reply[c] \in {<<>>, <<"challenge">>, <<"md5">>} /\ (c # 0 => reply[c] = <<>>)
         /\ reply'[c] = types /\ types \in Seq(MessageTypes) /\ types # <<>>
         /\ \A x \in 0 .. MaxRequests : x # c => reply'[x] = reply[x]
         /\ c = 0 => Len(types) = 1
         /\ inbound' \in Seq(MessageRecords) /\ Len(inbound') = Len(types)
         /\ \A i \in 1 .. Len(types) : inbound'[i] = Message(types[i], c)
<1>1. /\ toServer # <<>> /\ toServer \in Seq(BodyRecords) /\ Len(toServer) <= 1
      /\ toServer' = Tail(toServer)
  BY DEF ServerReplies, Inv, Typed, Turn
<1>2. Len(toServer) = 1 /\ 1 \in 1 .. Len(toServer)
  <2>1. Len(toServer) \in Nat /\ Len(toServer) # 0
    BY <1>1, TailFacts
  <2>2. Len(toServer) = 1
    BY <1>1, <2>1, One
  <2> QED  BY <2>2
<1>3. toServer' = <<>>
  BY <1>1, <1>2
<1>4. inbound = <<>> /\ transactionStatus # "idle" /\ link = "up"
  BY <1>1 DEF ServerReplies, Inv, Turn
<1>5. /\ c \in 0 .. MaxRequests
      /\ reply[c] \in {<<>>, <<"challenge">>, <<"md5">>} /\ (c # 0 => reply[c] = <<>>)
  <2>1. toServer[1] \in BodyRecords
    BY <1>1, <1>2
  <2>2. c \in 0 .. MaxRequests
    BY <2>1 DEF BodyRecords
  <2>3. c # 0 => reply[c] = <<>>
    BY <1>2 DEF Inv, Parses
  <2>4. c = 0 => reply[c] \in {<<>>, <<"challenge">>, <<"md5">>}
    BY <1>2 DEF Inv, LoggedIn
  <2> QED  BY <2>2, <2>3, <2>4
<1>6. /\ types \in Seq(MessageTypes) /\ types # <<>> /\ (c = 0 => Len(types) = 1)
  <2>1. CASE RepliesToLogin(types)
    <3>1. PICK x \in {"challenge", "md5", "ready", "fatal"} : types = <<x>>
      BY <2>1 DEF RepliesToLogin
    <3>2. x \in MessageTypes
      BY DEF MessageTypes
    <3>3. <<x>> \in Seq(MessageTypes) /\ <<x>> # <<>> /\ Len(<<x>>) = 1
      BY <3>2
    <3> QED  BY <3>1, <3>3
  <2>2. CASE RepliesToRequest(toServer[1], types)
    BY <2>2 DEF RepliesToRequest, Burst
  <2> QED  BY <2>1, <2>2 DEF ServerReplies
<1>7. reply'[c] = types /\ \A x \in 0 .. MaxRequests : x # c => reply'[x] = reply[x]
  <2>1. reply' = [reply EXCEPT ![c] = types]
    BY DEF ServerReplies
  <2>2. reply \in [0 .. MaxRequests -> Seq(MessageTypes)]
    BY Basics
  <2> QED  BY <1>5, <2>1, <2>2
<1>8. /\ inbound' \in Seq(MessageRecords) /\ Len(inbound') = Len(types)
      /\ \A i \in 1 .. Len(types) : inbound'[i] = Message(types[i], c)
  <2> DEFINE new == [i \in DOMAIN types |-> Message(types[i], c)]
  <2>1. DOMAIN types = 1 .. Len(types) /\ Len(types) \in Nat
        /\ \A i \in DOMAIN types : types[i] \in MessageTypes
    BY <1>6
  <2>2. \A i \in DOMAIN types : Message(types[i], c) \in MessageRecords
    BY <1>5, <2>1 DEF Message, MessageRecords
  <2>3. new \in Seq(MessageRecords) /\ Len(new) = Len(types)
        /\ \A i \in 1 .. Len(types) : new[i] = Message(types[i], c)
    BY <2>1, <2>2
  <2>4. inbound' = inbound \o new
    BY DEF ServerReplies
  <2> HIDE DEF new
  <2>5. inbound' = new
    BY <1>4, <2>3, <2>4
  <2> QED  BY <2>3, <2>5
<1>9. UNCHANGED <<called, request, listening, answers, queue, queryQueue, observers,
                  fields, rows, transactionStatus, link>>
  BY DEF ServerReplies, programVars, clientVars, gathered
<1> QED  BY <1>1, <1>2, <1>3, <1>4, <1>5, <1>6, <1>7, <1>8, <1>9

LEMMA ServesCommon ==
  ASSUME Inv, Common, Stays, NEW types, ServerReplies(types), NEW c, c = toServer[1].of,
         c # 0 => /\ Orderly(types, Kind(c))
                  /\ Kind(c) = "prepare" \/ "empty" \notin Replies => Reaches(types, Kind(c))
  PROVE  Common'
<1>1. /\ UNCHANGED <<called, request, listening, answers, queue, queryQueue, observers>>
      /\ toServer # <<>> /\ Len(toServer) = 1 /\ toServer' = <<>>
      /\ c \in 0 .. MaxRequests
      /\ reply'[c] = types /\ types \in Seq(MessageTypes) /\ types # <<>>
      /\ \A x \in 0 .. MaxRequests : x # c => reply'[x] = reply[x]
      /\ c = 0 => Len(types) = 1
      /\ Len(inbound') = Len(types)
      /\ \A i \in 1 .. Len(types) : inbound'[i] = Message(types[i], c)
  BY ServeFacts
<1>2. /\ \A r : Kind(r)' = Kind(r) /\ (IsExec(r)' <=> IsExec(r)) /\ (IsPrepare(r)' <=> IsPrepare(r))
      /\ \A r : Running(r)' <=> Running(r)
      /\ \A r : Waits(r)' <=> Waits(r)
  BY <1>1 DEF Kind, IsExec, IsPrepare, Running, Waits
<1>3. \A i \in 1 .. Len(inbound') : inbound'[i].of = c /\ inbound'[i].type = types[i]
  <2>1. \A t : Message(t, c).of = c /\ Message(t, c).type = t
    BY DEF Message
  <2> QED  BY <1>1, <2>1
<1>4. DOMAIN types = 1 .. Len(types)
  BY <1>1
<1>5. Asking'
  <2>1. ASSUME NEW r \in Requests, IsPrepare(r)' \/ "empty" \notin Replies
        PROVE  ~ Silent(r)'
    <3>1. CASE r # c
      <4>1. reply'[r] = reply[r]
        BY <1>1, <3>1, Basics
      <4> QED  BY <1>2, <2>1, <4>1 DEF Common, Asking, Silent, Said
    <3>2. CASE r = c
      <4>1. c # 0
        BY <3>2, Basics
      <4>2. Reaches(types, Kind(r))
        BY <1>2, <2>1, <3>2, <4>1 DEF IsPrepare
      <4> QED  BY <1>1, <1>2, <1>4, <3>2, <4>2 DEF Silent, Said, Reaches
    <3> QED  BY <3>1, <3>2
  <2>2. ~ ShareQueries => \A r \in Requests : IsExec(r)' => request'[r].query = r
    BY <1>1, <1>2 DEF Common, Asking
  <2>3. 1 .. Len(toServer') = {}
    BY <1>1
  <2> QED  BY <2>1, <2>2, <2>3 DEF Asking
<1>6. Sourced'
  <2>1. ASSUME NEW i \in 1 .. Len(inbound')
        PROVE  Said(inbound[i].of, {inbound[i].type})'
    <3>1. i \in DOMAIN types /\ inbound'[i].of = c /\ inbound'[i].type = types[i]
      BY <1>1, <1>3, <1>4, <2>1
    <3> QED  BY <1>1, <3>1 DEF Said
  <2>2. ASSUME NEW i \in 1 .. Len(queue), queue[i].type \in Replied, queue[i].id # 0
        PROVE  Said(queue[i].of, Cause(queue[i].type))'
    <3>1. /\ queue[i].of \in 0 .. MaxRequests /\ Said(queue[i].of, Cause(queue[i].type))
          /\ Cause(queue[i].type) \in SUBSET (Replied \cup {"fatal"})
      BY <2>2, Basics DEF Common, Sourced, Cause, Replied
    <3>2. \A x \in 0 .. MaxRequests, S \in SUBSET (Replied \cup {"fatal"}) :
            Said(x, S) => Said(x, S)'
      BY ReplyStays
    <3>3. queue' = queue
      BY <1>1
    <3> QED  BY <3>1, <3>2, <3>3
  <2>3. 1 .. Len(queue') = 1 .. Len(queue) /\ \A i \in 1 .. Len(queue) : queue'[i] = queue[i]
    BY <1>1
  <2> QED  BY <2>1, <2>2, <2>3 DEF Sourced
<1>7. Roles'
  <2>1. \A e, r : MayHear(e, r)' <=> MayHear(e, r)
    BY <1>2 DEF MayHear
  <2> QED  BY <1>1, <1>2, <2>1 DEF Common, Roles
<1>8. Sequel'
  <2>1. \A r \in Requests : Running(r)' => \A i \in 1 .. Len(inbound') : inbound'[i].of >= r
    <3>1. 1 \in 1 .. Len(toServer)
      BY <1>1
    <3>2. \A r \in Requests : Running(r) => c >= r
      BY <3>1 DEF Common, Sequel
    <3> QED  BY <1>2, <1>3, <3>2
  <2>2. 1 .. Len(toServer') = {}
    BY <1>1
  <2> QED  BY <1>1, <1>2, <2>1, <2>2 DEF Common, Sequel
<1>9. Replying'
  <2>1. ASSUME NEW i \in 1 .. Len(inbound'), NEW j \in 1 .. Len(inbound'), i < j
        PROVE  /\ inbound'[i].of # 0 /\ inbound'[i].type \in EndsOf(Kind(inbound[i].of)') =>
                    inbound'[j].type \in Closing
               /\ inbound'[i].type = "description" => inbound'[j].type # "description"
    <3>1. /\ inbound'[i].of = c /\ inbound'[i].type = types[i] /\ inbound'[j].type = types[j]
          /\ i \in 1 .. Len(types) /\ j \in 1 .. Len(types)
      BY <1>1, <1>3
    <3>2. c # 0
      <4>1. Len(types) # 1
        BY <2>1, <3>1
      <4> QED  BY <1>1, <4>1
    <3>3. Orderly(types, Kind(c)) /\ Kind(inbound[i].of)' = Kind(c)
      BY <1>1, <3>1, <3>2 DEF Kind
    <3> QED  BY <2>1, <3>1, <3>3 DEF Orderly
  <2> QED  BY <2>1 DEF Replying
<1> QED  BY <1>5, <1>6, <1>7, <1>8, <1>9 DEF Common

LEMMA ServesMatches ==
  ASSUME Inv, Inv', Matches, Serve
  PROVE  Matches'
<1>0. PICK c : c = toServer[1].of
  OBVIOUS
<1>1. PICK types : ServerReplies(types)
  BY ServeEffect
<1>2. /\ UNCHANGED <<called, request, listening, answers, queue, queryQueue, observers,
                     fields, rows, transactionStatus, link>>
      /\ toServer # <<>> /\ Len(toServer) = 1 /\ toServer' = <<>> /\ inbound = <<>>
      /\ c \in 0 .. MaxRequests /\ transactionStatus # "idle" /\ link = "up"
      /\ reply[c] \in {<<>>, <<"challenge">>, <<"md5">>} /\ (c # 0 => reply[c] = <<>>)
      /\ reply'[c] = types /\ types \in Seq(MessageTypes) /\ types # <<>>
      /\ \A x \in 0 .. MaxRequests : x # c => reply'[x] = reply[x]
      /\ inbound' \in Seq(MessageRecords) /\ Len(inbound') = Len(types)
      /\ \A i \in 1 .. Len(types) : inbound'[i] = Message(types[i], c)
  BY <1>0, <1>1, ServeFacts
<1>3. c # 0 => /\ Orderly(types, Kind(c))
               /\ Kind(c) = "prepare" \/ "empty" \notin Replies => Reaches(types, Kind(c))
  <2>1. reply'[c] = types
    BY <1>2
  <2> QED  BY <1>0, <2>1, ServeOrderly DEF Matches, Common
<1>4. c = toServer[1].of /\ 1 \in 1 .. Len(toServer)
  BY <1>0, <1>2
<1>5. Stays
  <2>1. called' \in Nat /\ called' >= called /\ UNCHANGED request
    BY <1>2, Basics
  <2>2. \A x \in 0 .. MaxRequests : Keeps(x)
    BY <1>2 DEF Keeps
  <2> QED  BY <2>1, <2>2 DEF Stays
<1>6. Common'
  BY <1>1, <1>3, <1>4, <1>5, ServesCommon DEF Matches
<1>7. \A i \in 1 .. Len(inbound') : inbound'[i].of = c /\ inbound'[i].type = types[i]
  <2>1. \A t : Message(t, c).of = c /\ Message(t, c).type = t
    BY DEF Message
  <2> QED  BY <1>2, <2>1
<1>8. \A r : Steady(queue, queue', r)
  BY <1>2, SteadySame
<1>9. \A r : Asks(r)' <=> FALSE
  <2>1. 1 .. Len(toServer') = {}
    BY <1>2
  <2> QED  BY <2>1 DEF Asks
<1>10. ASSUME NEW r \in Requests, r # c
       PROVE  Follows(r)'
  <2>1. reply'[r] = reply[r]
    BY <1>2, <1>10, Basics
  <2>2. \A i \in 1 .. Len(inbound') : inbound'[i].of # r
    BY <1>7, <1>10
  <2>3. ~ Serves(r)
    BY <1>4, <1>10 DEF Serves
  <2>4. Waits(r)' <=> Waits(r)
    BY <1>2 DEF Waits
  <2>5. \A t : /\ NumberOf(inbound', Message(t, r)) = NumberOf(inbound, Message(t, r))
               /\ Holds(inbound', Message(t, r)) <=> Holds(inbound, Message(t, r))
    <3>1. \A t : Message(t, r).of = r
      BY DEF Message
    <3>2. 1 .. Len(inbound) = {}
      BY <1>2
    <3> QED  BY <2>2, <3>1, <3>2, NumberSame
  <2>6. Aside(r)
    BY <1>2, <1>8, <1>9, <2>1, <2>2, <2>3, <2>4, <2>5 DEF Aside
  <2> QED  BY <1>5, <2>6, FollowsOn DEF Matches
<1>11. ASSUME c \in Requests
       PROVE  Follows(c)'
  <2>1. c # 0 /\ reply[c] = <<>>
    BY <1>2, <1>11, Basics
  <2>2. /\ Kind(c)' = Kind(c) /\ (IsExec(c)' <=> IsExec(c)) /\ (IsPrepare(c)' <=> IsPrepare(c))
        /\ (Running(c)' <=> Running(c)) /\ (Sole(c)' <=> Sole(c)) /\ (Waits(c)' <=> Waits(c))
    BY <1>2 DEF Kind, IsExec, IsPrepare, Running, Sole, Waits, Shared
  <2>3. ~ Silent(c) /\ (Owns(c)' => Owns(c)) /\ Asks(c)
    BY <1>4, <2>1, <2>2 DEF Silent, Owns, Asks
  <2>4. ASSUME NEW i \in 1 .. Len(queue), queue[i].type \in Replied, queue[i].id # 0
        PROVE  queue[i].of # c
    BY <2>1, <2>4 DEF Matches, Common, Sourced, Said
  <2>5. ~ Ended(queue, Kind(c), c)
    BY <2>1, <2>4 DEF Ended, Ends, EndsOf, Replied
  <2>6. \A t \in Replied : ~ Holds(queue, Task(t, c, c)) /\ NumberOf(queue, Task(t, c, c)) = 0
    <3>1. ASSUME NEW t \in Replied
          PROVE  ~ Holds(queue, Task(t, c, c))
      BY <2>1, <2>4, <3>1 DEF Holds, Task
    <3> QED  BY <3>1, Basics, NumberType
  <2>7. ASSUME NEW t
        PROVE  /\ NumberOf(inbound', Message(t, c)) = Occurrences(t, c)'
               /\ Holds(inbound', Message(t, c)) <=> Occurrences(t, c)' > 0
    <3>1. \A i \in 1 .. Len(types) : inbound'[i] = Message(t, c) <=> types[i] = t
      <4>1. \A x : Message(x, c) = Message(t, c) <=> x = t
        BY DEF Message
      <4> QED  BY <1>2, <4>1
    <3>2. \A i : i \in 1 .. Len(inbound') /\ inbound'[i] = Message(t, c)
                   <=> i \in 1 .. Len(types) /\ types[i] = t
      BY <1>2, <3>1
    <3>3. /\ NumberOf(inbound', Message(t, c)) = NumberOf(types, t)
          /\ Holds(inbound', Message(t, c)) <=> Holds(types, t)
      BY <3>2, NumberSame
    <3>4. NumberOf(types, t) \in Nat /\ (NumberOf(types, t) = 0 <=> ~ Holds(types, t))
      BY <1>2, NumberType
    <3>5. Occurrences(t, c)' = NumberOf(types, t)
      <4>1. DOMAIN reply'[c] = 1 .. Len(types)
        BY <1>2
      <4> QED  BY <1>2, <4>1 DEF Occurrences, NumberOf, PlacesOf
    <3> QED  BY <3>3, <3>4, <3>5
  <2>8. Follows(c)
    BY <1>11 DEF Matches
  <2>9. Exclusive(c)'
    <3>1. ASSUME Owns(c)'
          PROVE  Serves(c)' /\ OwnFirst(queue', Kind(c)', c)
      <4>1. OwnFirst(queue, Kind(c), c)
        BY <2>3, <2>8, <3>1 DEF Follows, Exclusive
      <4>2. Said(c, EndsOf(Kind(c)) \cup {"fatal"})'
        BY <1>2, <3>1 DEF Owns, Silent
      <4>3. DOMAIN reply'[c] = 1 .. Len(types)
        BY <1>2
      <4>4. PICK i \in 1 .. Len(types) : types[i] \in EndsOf(Kind(c)) \cup {"fatal"}
        BY <1>2, <2>2, <4>2, <4>3 DEF Said
      <4>5. i \in 1 .. Len(inbound') /\ inbound'[i].type \in EndsOf(Kind(c)') \cup {"fatal"}
        BY <1>2, <1>7, <2>2, <4>4
      <4>6. 1 .. Len(toServer') = {}
        BY <1>2
      <4>7. Serves(c)'
        BY <1>2, <1>7, <4>5, <4>6 DEF Serves
      <4> QED  BY <1>2, <2>2, <4>1, <4>7
    <3> QED  BY <3>1 DEF Exclusive
  <2>10. Final(c)'
    BY <1>2, <2>2, <2>5, <2>8 DEF Follows, Final
  <2>11. Fresh(c)'
    BY <1>2, <1>9, <2>2, <2>8 DEF Follows, Fresh
  <2>12. Whole(c)'
    <3>1. ASSUME Owns(c)', IsExec(c)'
          PROVE  /\ fields'[c] \in {0, c}
                 /\ \A i \in 1 .. Len(rows'[c]) : rows'[c][i] = c
                 /\ RowsOf(c)' = Occurrences("row", c)'
                 /\ Described(c)' <=> Occurrences("description", c)' > 0
      <4>1. rows'[c] = <<>> /\ fields'[c] = 0 /\ Len(rows'[c]) = 0
        BY <1>2, <2>3, <2>8, <3>1 DEF Follows, Fresh
      <4>2. NumberOf(inbound', Message("row", c)) = Occurrences("row", c)'
        BY <2>7
      <4>3. Occurrences("row", c)' \in Nat
        BY <1>2, <4>2, NumberType
      <4>4. NumberOf(queue', Task("row", c, c)) = 0 /\ ~ Holds(queue', Task("description", c, c))
        BY <1>2, <2>6 DEF Replied
      <4>5. RowsOf(c)' = Occurrences("row", c)'
        BY <4>1, <4>2, <4>3, <4>4 DEF RowsOf
      <4>6. Described(c)' <=> Occurrences("description", c)' > 0
        BY <2>1, <2>7, <4>1, <4>4 DEF Described
      <4>7. 1 .. Len(rows'[c]) = {}
        BY <4>1
      <4> QED  BY <4>1, <4>5, <4>6, <4>7
    <3> QED  BY <3>1 DEF Whole
  <2>13. Describable(c)'
    <3>1. ~ Holds(queue', Task("description", c, c))
      BY <1>2, <2>6 DEF Replied
    <3> QED  BY <1>2, <1>9, <2>2, <2>3, <2>8, <3>1 DEF Follows, Describable
  <2>14. Answered(c)'
    <3>1. AnsweredAside(c)
      BY <1>2, <2>2, <2>3 DEF AnsweredAside
    <3> QED  BY <1>5, <1>11, <2>8, <3>1, AnsweredOn DEF Follows
  <2> QED  BY <2>9, <2>10, <2>11, <2>12, <2>13, <2>14 DEF Follows
<1> QED  BY <1>6, <1>10, <1>11 DEF Matches

-----------------------------------------------------------------------------
(***************************************************************************)
(* A message is processed: each observer gets one task.                    *)
(***************************************************************************)
LEMMA ConcatCancel ==
  ASSUME NEW S, NEW q \in Seq(S), NEW a \in Seq(S), NEW b \in Seq(S), q \o a = q \o b
  PROVE  a = b
<1>1. /\ Len(q \o a) = Len(q) + Len(a) /\ Len(q \o b) = Len(q) + Len(b)
      /\ Len(q) \in Nat /\ Len(a) \in Nat /\ Len(b) \in Nat
      /\ \A i \in Len(q) + 1 .. Len(q) + Len(a) : (q \o a)[i] = a[i - Len(q)]
      /\ \A i \in Len(q) + 1 .. Len(q) + Len(b) : (q \o b)[i] = b[i - Len(q)]
  BY ConcatFacts
<1>2. Len(a) = Len(b)
  BY <1>1
<1>3. ASSUME NEW i \in 1 .. Len(a)
      PROVE  a[i] = b[i]
  <2>1. i + Len(q) \in Len(q) + 1 .. Len(q) + Len(a) /\ (i + Len(q)) - Len(q) = i
    BY <1>1
  <2> QED  BY <1>1, <1>2, <2>1
<1> QED  BY <1>2, <1>3

\* One task of type e for each observer of its event, about the request `of'.
Exactly(new, e, of) ==
  /\ \A i, j \in 1 .. Len(new) : new[i].id = new[j].id /\ new[i].id # 0 => i = j
  /\ \A r \in observers[EventOf(e)] : \E i \in 1 .. Len(new) : new[i] = Task(e, r, of)

LEMMA UpTo ==
  ASSUME NEW n \in Nat
  PROVE  Cardinality(1 .. n) = n
<1>1. 1 \in Int /\ n \in Int
  OBVIOUS
<1>2. Cardinality(1 .. n) = IF 1 > n THEN 0 ELSE n - 1 + 1
  BY <1>1, FS_Interval
<1> QED  BY <1>2

LEMMA SeqOf ==
  ASSUME NEW S, NEW n \in Nat, NEW g \in [1 .. n -> S]
  PROVE  g \in Seq(S) /\ Len(g) = n
OBVIOUS

LEMMA EmitExactly ==
  ASSUME NEW event \in Observable, NEW of \in 0 .. MaxRequests, NEW more \in Seq(TaskRecords),
         observers[EventOf(event)] \subseteq 1 .. MaxRequests, Emit(event, of, more),
         \A i \in 1 .. Len(more) : more[i].id = 0,
         queue \in Seq(TaskRecords), NEW new \in Seq(TaskRecords), queue' = queue \o new
  PROVE  Exactly(new, event, of)
<1> DEFINE S == observers[EventOf(event)]
<1>1. PICK f \in InOrder(S) :
        queue' = queue \o [i \in DOMAIN f |-> Task(event, f[i], of)] \o more
  BY DEF Emit
<1> DEFINE told == [i \in DOMAIN f |-> Task(event, f[i], of)]
           n == Cardinality(S)
<1>2. n \in Nat /\ IsFiniteSet(S) /\ MaxRequests \in Nat
  <2>1. MaxRequests \in Nat
    BY ClientAssumption
  <2>2. IsFiniteSet(1 .. MaxRequests)
    BY <2>1, FS_Interval
  <2> QED  BY <2>1, <2>2, FS_Subset, FS_CardinalityType
<1>3. /\ f \in [1 .. n -> S] /\ DOMAIN f = 1 .. n
      /\ \A i, j \in 1 .. n : i < j => f[i] < f[j]
  BY <1>1 DEF InOrder
<1>4. \A i \in 1 .. n : f[i] \in S /\ f[i] \in 1 .. MaxRequests
  BY <1>3
<1> HIDE DEF n, S
<1>5. told \in Seq(TaskRecords) /\ Len(told) = n
      /\ \A i \in 1 .. n : told[i] = Task(event, f[i], of)
  <2>1. \A i \in 1 .. n : Task(event, f[i], of) \in TaskRecords
    BY <1>3, <1>4 DEF Task, TaskRecords, TaskTypes, Observable
  <2>2. told = [i \in 1 .. n |-> Task(event, f[i], of)]
    BY <1>3
  <2> HIDE DEF told
  <2>3. told \in [1 .. n -> TaskRecords]
    BY <2>1, <2>2
  <2>4. told \in Seq(TaskRecords) /\ Len(told) = n
    BY <1>2, <2>3, SeqOf
  <2> QED  BY <2>2, <2>4
<1> HIDE DEF told
<1>6. \A i \in 1 .. n : told[i].id = f[i]
  BY <1>5 DEF Task
<1>7. \A i, j \in 1 .. n : f[i] = f[j] => i = j
  <2>1. \A i, j \in 1 .. n : ~ (f[i] = f[j] /\ i < j)
    BY <1>3, <1>4
  <2> QED  BY <1>2, <2>1
<1>8. new = told \o more
  <2>1. queue' = queue \o (told \o more)
    <3>1. queue' = (queue \o told) \o more
      BY <1>1 DEF told
    <3> QED  BY <1>5, <3>1, SMTT(30)
  <2>2. told \o more \in Seq(TaskRecords)
    BY <1>5
  <2> QED  BY <2>1, <2>2, ConcatCancel
<1>9. /\ Len(new) = n + Len(more) /\ Len(more) \in Nat
      /\ \A i \in 1 .. n : i \in 1 .. Len(new) /\ new[i] = told[i]
      /\ \A i \in 1 .. Len(new) : i \in 1 .. n \/ new[i].id = 0
  <2>1. /\ Len(new) = n + Len(more) /\ Len(more) \in Nat
        /\ \A i \in 1 .. n : new[i] = told[i]
        /\ \A i \in n + 1 .. n + Len(more) : new[i] = more[i - n]
    <3>1. /\ Len(told \o more) = Len(told) + Len(more)
          /\ \A i \in 1 .. Len(told) : (told \o more)[i] = told[i]
          /\ \A i \in Len(told) + 1 .. Len(told) + Len(more) :
               (told \o more)[i] = more[i - Len(told)]
      BY <1>5, ConcatFacts
    <3>2. Len(more) \in Nat
      OBVIOUS
    <3> QED  BY <1>5, <1>8, <3>1, <3>2
  <2>2. \A i \in n + 1 .. n + Len(more) : i - n \in 1 .. Len(more)
    BY <1>2, <2>1
  <2>3. \A i \in 1 .. Len(new) : i \in 1 .. n \/ i \in n + 1 .. n + Len(more)
    BY <1>2, <2>1
  <2>4. \A i \in 1 .. n : i \in 1 .. Len(new) /\ new[i] = told[i]
    BY <1>2, <2>1
  <2>5. \A i \in n + 1 .. n + Len(more) : new[i].id = 0
    BY <2>1, <2>2
  <2>6. \A i \in 1 .. Len(new) : i \in 1 .. n \/ new[i].id = 0
    BY <2>3, <2>5
  <2> QED  BY <2>1, <2>4, <2>6
<1>10. \A i, j \in 1 .. Len(new) : new[i].id = new[j].id /\ new[i].id # 0 => i = j
  <2>1. ASSUME NEW i \in 1 .. Len(new), NEW j \in 1 .. Len(new), new[i].id = new[j].id, new[i].id # 0
        PROVE  i = j
    <3>1. i \in 1 .. n /\ j \in 1 .. n
      BY <1>9, <2>1
    <3>2. f[i] = f[j]
      BY <1>6, <1>9, <2>1, <3>1
    <3> QED  BY <1>7, <3>1, <3>2
  <2> QED  BY <2>1
<1>11. ASSUME NEW r \in S
       PROVE  \E i \in 1 .. Len(new) : new[i] = Task(event, r, of)
  <2>1. f \in Injection(1 .. n, S)
    BY <1>3, <1>7 DEF Injection, IsInjective
  <2>2. Cardinality(1 .. n) = Cardinality(S)
    <3>1. Cardinality(1 .. n) = n
      BY <1>2, UpTo
    <3> QED  BY <3>1 DEF n
  <2>3. f \in Surjection(1 .. n, S)
    BY <1>2, <2>1, <2>2, FS_Injection
  <2>4. PICK i \in 1 .. n : f[i] = r
    BY <2>3 DEF Surjection
  <2> QED  BY <1>5, <1>9, <2>4
<1> QED  BY <1>10, <1>11 DEF Exactly, S

\* The tasks of the observers of a message of type t.
HeardAs(t) == IF t = "fatal" THEN "error" ELSE t

LEMMA ProcessExactly ==
  ASSUME Inv, Process, NEW new \in Seq(TaskRecords), Processes(new)
  PROVE  HeardAs(Head(inbound).type) \in Observable =>
           Exactly(new, HeardAs(Head(inbound).type), Head(inbound).of)
<1> DEFINE m == Head(inbound)
<1>1. /\ queue \in Seq(TaskRecords) /\ inbound # <<>> /\ inbound \in Seq(MessageRecords)
      /\ queue' = queue \o new
  BY Basics DEF Processes
<1>2. \A e \in Events \ {"closed"} : observers[e] \subseteq 1 .. MaxRequests
  <2>1. \A e \in Events : observers[e] \subseteq 0 .. MaxRequests /\ MaxRequests \in Nat
    BY Basics
  <2>2. \A e \in Events : e # "closed" => 0 \notin observers[e]
    BY DEF Inv, Asked
  <2> QED  BY <2>1, <2>2
<1>3. m \in MessageRecords /\ m.of \in 0 .. MaxRequests
  <2>1. m \in MessageRecords
    BY <1>1, TailFacts
  <2> QED  BY <2>1 DEF MessageRecords
<1>4. CASE ProcessEvent
  <2>1. /\ m.type \in {"description", "row", "complete", "uncounted", "parseComplete"}
        /\ HeardAs(m.type) = m.type
        /\ Emit(m.type, m.of, <<>>) /\ <<>> \in Seq(TaskRecords)
    BY <1>4 DEF ProcessEvent, Received, HeardAs
  <2>2. observers[EventOf(m.type)] \subseteq 1 .. MaxRequests /\ m.type \in Observable
    BY <1>2, <2>1 DEF Events, Observable, EventOf
  <2>3. \A i, j \in 1 .. Len(<<>>) : <<>>[i].id = 0
    OBVIOUS
  <2>4. Exactly(new, m.type, m.of)
    BY <1>1, <1>3, <2>1, <2>2, <2>3, EmitExactly
  <2> QED  BY <2>1, <2>4
<1>5. CASE ProcessError
  <2> DEFINE x == Task(IF m.type = "fatal" THEN "fatal" ELSE "error", 0, m.of)
  <2>1. m.type \in {"error", "fatal"} /\ Emit("error", m.of, <<x>>)
    BY <1>5 DEF ProcessError, Received
  <2>2. x \in TaskRecords /\ x.id = 0
    BY <1>3, Basics DEF Task, TaskRecords, TaskTypes, Events
  <2> HIDE DEF x
  <2>3. <<x>> \in Seq(TaskRecords) /\ \A i, j \in 1 .. Len(<<x>>) : <<x>>[i].id = 0
    BY <2>2
  <2>4. observers[EventOf("error")] \subseteq 1 .. MaxRequests /\ "error" \in Observable
    BY <1>2 DEF Events, Observable, EventOf
  <2>5. Exactly(new, "error", m.of)
    BY <1>1, <1>3, <2>1, <2>3, <2>4, EmitExactly
  <2>6. HeardAs(m.type) = "error"
    BY <2>1 DEF HeardAs
  <2> QED  BY <2>5, <2>6
<1>6. CASE ProcessReadyForQuery \/ ProcessCleartextPassword \/ ProcessMD5Password
  <2>1. m.type \in {"ready", "begun", "challenge", "md5"}
    BY <1>6 DEF ProcessReadyForQuery, ProcessCleartextPassword, ProcessMD5Password, Received
  <2>2. HeardAs(m.type) \notin Observable
    BY <2>1 DEF HeardAs, Observable, Events
  <2> QED  BY <2>2
<1> QED  BY <1>4, <1>5, <1>6 DEF Process

\* The tasks of r among those of the message m.
Heeds(new, m, r) ==
  /\ \A i \in 1 .. Len(new) : Concerns(new[i], r) =>
       /\ new[i] = Task(HeardAs(m.type), r, m.of)
       /\ HeardAs(m.type) \in Replied /\ r \in observers[EventOf(HeardAs(m.type))]
  /\ \A i, j \in 1 .. Len(new) : Concerns(new[i], r) /\ Concerns(new[j], r) => i = j
  /\ HeardAs(m.type) \in Replied /\ r \in observers[EventOf(HeardAs(m.type))] =>
       \E i \in 1 .. Len(new) : new[i] = Task(HeardAs(m.type), r, m.of)

LEMMA ProcessFacts ==
  ASSUME Inv, Process, NEW new \in Seq(TaskRecords), Processes(new), NEW m, m = Head(inbound)
  PROVE  /\ UNCHANGED <<called, request, listening, answers, queryQueue, observers,
                        fields, rows, link, reply>>
         /\ queue' = queue \o new /\ inbound # <<>> /\ inbound' = Tail(inbound)
         /\ m \in MessageRecords /\ toServer = <<>>
         /\ \A i \in 1 .. Len(inbound') : i + 1 \in 1 .. Len(inbound) /\ inbound'[i] = inbound[i + 1]
         /\ \A i \in 1 .. Len(inbound) : inbound[i].of = m.of
         /\ m.type \in Terminal => inbound' = <<>>
         /\ \A r \in Requests : Waits(r)' <=> Waits(r)
         /\ \A r \in Requests : Heeds(new, m, r)
         /\ transactionStatus' = IF m.type = "ready" THEN "idle"
                                 ELSE IF m.type = "begun" THEN "inTransaction"
                                 ELSE transactionStatus
         /\ \/ toServer' = <<>>
            \/ /\ \A r \in Requests : ~ Running(r)
               /\ \A i \in 1 .. Len(toServer') : toServer'[i].of = 0
<1>1. /\ UNCHANGED <<called, request, listening, answers, queryQueue, observers,
                     fields, rows, link, reply>>
      /\ queue' = queue \o new /\ inbound # <<>> /\ inbound' = Tail(inbound)
      /\ transactionStatus' = IF m.type = "ready" THEN "idle"
                              ELSE IF m.type = "begun" THEN "inTransaction"
                              ELSE transactionStatus
  BY DEF Processes, programVars, clientVars, gathered, socketVars, serverVars
<1>2. queue \in Seq(TaskRecords) /\ inbound \in Seq(MessageRecords)
  BY Basics
<1>3. /\ m \in MessageRecords /\ m = inbound[1] /\ Len(inbound) \in Nat \ {0}
      /\ Len(inbound') = Len(inbound) - 1
      /\ \A i \in 1 .. Len(inbound) - 1 : inbound'[i] = inbound[i + 1]
  BY <1>1, <1>2, TailFacts
<1>4. /\ 1 \in 1 .. Len(inbound)
      /\ \A i \in 1 .. Len(inbound') : i + 1 \in 1 .. Len(inbound) /\ inbound'[i] = inbound[i + 1]
  BY <1>3
<1>5. \A i \in 1 .. Len(inbound) : inbound[i].of = m.of
  BY <1>3, <1>4 DEF Inv, Turn
<1>6. m.type \in Terminal => inbound' = <<>>
  <2>1. ASSUME m.type \in Terminal
        PROVE  Len(inbound') = 0
    <3>1. \A j \in 1 .. Len(inbound) : ~ (1 < j)
      BY <1>3, <1>4, <2>1 DEF Inv, Turn
    <3>2. Len(inbound) \in 1 .. Len(inbound)
      BY <1>3
    <3> QED  BY <1>3, <3>1, <3>2
  <2>2. inbound' \in Seq(MessageRecords)
    BY <1>1, <1>2, TailFacts
  <2> QED  BY <2>1, <2>2
<1>7. toServer = <<>>
  BY <1>1 DEF Inv, Turn
<1>8. \A r \in Requests : Waits(r)' <=> Waits(r)
  <2>1. \A i \in 1 .. Len(new) : new[i].type # "operation"
    BY DEF Processes, Events
  <2>2. ~ Has(new, "operation")
    BY <2>1 DEF Has
  <2>3. \A r : Pending(queryQueue, queue', r) <=> Pending(queryQueue, queue, r)
    BY <1>1, <2>2, EnqueueFacts
  <2> QED  BY <1>1, <2>3 DEF Waits
<1>9. ASSUME NEW r \in Requests
      PROVE  Heeds(new, m, r)
  <2> DEFINE e == HeardAs(m.type)
  <2>1. r # 0
    BY Basics
  <2>2. ASSUME NEW i \in 1 .. Len(new), Concerns(new[i], r)
        PROVE  new[i] = Task(e, r, m.of) /\ e \in Replied /\ r \in observers[EventOf(e)]
    <3>1. /\ new[i].of = m.of
          /\ \/ new[i].type = m.type
             \/ /\ new[i].type = "error" /\ m.type = "fatal"
             \/ new[i].type = "ready" /\ m.type = "begun"
          /\ \/ /\ new[i].type \in Observable
                /\ new[i].id \in observers[EventOf(new[i].type)]
             \/ new[i].type \in {"error", "fatal", "ready", "challenge"} /\ new[i].id = 0
      BY <1>1 DEF Processes, Observable
    <3>2. new[i].type \in Replied /\ new[i].id = r
      BY <2>2 DEF Concerns
    <3>3. new[i].type = e /\ e \in Replied /\ r \in observers[EventOf(e)]
      BY <2>1, <3>1, <3>2 DEF HeardAs, Replied
    <3>4. new[i] \in TaskRecords
      BY <2>2
    <3>5. new[i] = Task(e, r, m.of)
      BY <3>1, <3>2, <3>3, <3>4 DEF Task, TaskRecords
    <3> QED  BY <3>3, <3>5
  <2>3. e \in Replied => Exactly(new, e, m.of)
    <3>1. Replied \subseteq Observable
      BY DEF Replied, Observable, Events
    <3> QED  BY <3>1, ProcessExactly
  <2>4. ASSUME NEW i \in 1 .. Len(new), NEW j \in 1 .. Len(new),
               Concerns(new[i], r), Concerns(new[j], r)
        PROVE  i = j
    <3>1. Exactly(new, e, m.of)
      BY <2>2, <2>3, <2>4
    <3> QED  BY <2>1, <2>4, <3>1 DEF Exactly, Concerns
  <2>5. ASSUME e \in Replied, r \in observers[EventOf(e)]
        PROVE  \E i \in 1 .. Len(new) : new[i] = Task(e, r, m.of)
    BY <2>3, <2>5 DEF Exactly
  <2> QED  BY <2>2, <2>4, <2>5 DEF Heeds
<1>10. \/ toServer' = <<>>
       \/ /\ \A r \in Requests : ~ Running(r)
          /\ \A i \in 1 .. Len(toServer') : toServer'[i].of = 0
  <2>1. CASE m.type # "md5"
    BY <1>7, <2>1 DEF Processes
  <2>2. CASE m.type = "md5"
    <3>1. m.of = 0 /\ reply[0] = <<"md5">>
      BY <1>3, <1>4, <2>2 DEF Inv, Turn, LoggedIn
    <3>2. reply[0] # <<"ready">>
      BY <3>1
    <3>3. \A r \in Requests : ~ Running(r)
      BY <3>2, LoginUnheard
    <3> DEFINE x == [kind |-> "password", of |-> 0, statement |-> None, parse |-> FALSE]
    <3>4. toServer' = Append(toServer, x) \/ toServer' = toServer
      BY <2>2 DEF Processes, Send
    <3>5. x.of = 0
      OBVIOUS
    <3> HIDE DEF x
    <3>6. \A i \in 1 .. Len(toServer') :
            (\E j \in 1 .. Len(toServer) : toServer[j] = toServer'[i]) \/ toServer'[i] = x
      BY <3>4, SentWith
    <3>7. 1 .. Len(toServer) = {}
      BY <1>7
    <3> QED  BY <3>3, <3>5, <3>6, <3>7
  <2> QED  BY <2>1, <2>2
<1> QED  BY <1>1, <1>3, <1>4, <1>5, <1>6, <1>7, <1>8, <1>9, <1>10

LEMMA ProcessesProceed ==
  ASSUME Inv, Process, NEW new \in Seq(TaskRecords), Processes(new), NEW m, m = Head(inbound)
  PROVE  Proceeds
<1>1. /\ UNCHANGED <<called, request, listening, observers, reply>>
      /\ queue' = queue \o new /\ inbound # <<>>
      /\ \A i \in 1 .. Len(inbound') : i + 1 \in 1 .. Len(inbound) /\ inbound'[i] = inbound[i + 1]
      /\ \A r \in Requests : Waits(r)' <=> Waits(r)
      /\ \/ toServer' = <<>>
         \/ /\ \A r \in Requests : ~ Running(r)
            /\ \A i \in 1 .. Len(toServer') : toServer'[i].of = 0
  BY ProcessFacts
<1>2. queue \in Seq(TaskRecords) /\ inbound \in Seq(MessageRecords)
  BY Basics
<1>3. Onward
  BY <1>1 DEF Onward
<1>4. 1 \in 1 .. Len(inbound) /\ m = inbound[1]
  BY <1>1, <1>2, TailFacts
<1>5. ASSUME NEW i \in 1 .. Len(new)
      PROVE  Stems(new[i])
  <2>1. /\ new[i].of = m.of
        /\ \/ new[i].type = m.type
           \/ new[i].type = "error" /\ m.type = "fatal"
           \/ new[i].type = "ready" /\ m.type = "begun"
        /\ \/ new[i].type \in Observable /\ new[i].id \in observers[EventOf(new[i].type)]
           \/ new[i].type \in {"error", "fatal", "ready", "challenge"} /\ new[i].id = 0
    BY DEF Processes, Observable
  <2>2. new[i].type \in Replied => m.type \in Cause(new[i].type)
    BY <2>1 DEF Cause, Replied
  <2> QED  BY <1>4, <2>1, <2>2 DEF Stems, Observable, Events
<1>6. \A i \in 1 .. Len(queue') :
        (\E j \in 1 .. Len(queue) : queue[j] = queue'[i]) \/ Stems(queue'[i])
  <2>1. /\ Len(queue') = Len(queue) + Len(new) /\ Len(queue) \in Nat /\ Len(new) \in Nat
        /\ \A i \in 1 .. Len(queue) : queue'[i] = queue[i]
        /\ \A i \in Len(queue) + 1 .. Len(queue) + Len(new) : queue'[i] = new[i - Len(queue)]
    BY <1>1, <1>2, ConcatFacts
  <2>2. ASSUME NEW i \in 1 .. Len(queue')
        PROVE  (\E j \in 1 .. Len(queue) : queue[j] = queue'[i]) \/ Stems(queue'[i])
    <3>1. CASE i \in 1 .. Len(queue)
      BY <2>1, <3>1
    <3>2. CASE i \notin 1 .. Len(queue)
      <4>1. i - Len(queue) \in 1 .. Len(new) /\ queue'[i] = new[i - Len(queue)]
        BY <2>1, <3>2
      <4> QED  BY <1>5, <4>1
    <3> QED  BY <3>1, <3>2
  <2> QED  BY <2>2
<1>7. \A i \in 1 .. Len(toServer') :
        \/ \E j \in 1 .. Len(toServer) : toServer[j] = toServer'[i]
        \/ toServer'[i].of = 0 /\ \A r \in Requests : ~ Running(r)
  <2>1. toServer' = <<>> => 1 .. Len(toServer') = {}
    OBVIOUS
  <2> QED  BY <1>1, <2>1
<1> QED  BY <1>1, <1>3, <1>6, <1>7 DEF Proceeds

\* Nobody observes for r.
LEMMA ProcessesAside ==
  ASSUME Inv, Matches, Process, NEW new \in Seq(TaskRecords), Processes(new),
         NEW r \in Requests, ~ Running(r)
  PROVE  Aside(r)
<1>0. PICK m : m = Head(inbound)
  OBVIOUS
<1>1. /\ UNCHANGED <<called, request, listening, answers, queryQueue, observers,
                     fields, rows, link, reply>>
      /\ queue' = queue \o new
      /\ \A i \in 1 .. Len(inbound') : i + 1 \in 1 .. Len(inbound) /\ inbound'[i] = inbound[i + 1]
      /\ \A p \in Requests : Waits(p)' <=> Waits(p)
      /\ Heeds(new, m, r)
      /\ \/ toServer' = <<>>
         \/ \A i \in 1 .. Len(toServer') : toServer'[i].of = 0
  BY <1>0, ProcessFacts
<1>2. \A i \in 1 .. Len(new) : ~ Concerns(new[i], r)
  <2>1. \A e \in Replied : r \notin observers[EventOf(e)]
    BY DEF Running, Replied, Events, EventOf
  <2> QED  BY <1>1, <2>1 DEF Heeds
<1>3. Steady(queue, queue', r)
  BY <1>1, <1>2, Basics, SteadyConcat
<1>4. ~ Owns(r)
  BY DEF Owns
<1>5. ~ Asks(r)'
  <2>1. r # 0
    BY Basics
  <2>2. \A i \in 1 .. Len(toServer') : toServer'[i].of # r
    BY <1>1, <2>1
  <2> QED  BY <2>2 DEF Asks
<1> QED  BY <1>1, <1>3, <1>4, <1>5 DEF Aside

LEMMA ProcessesFollow ==
  ASSUME Inv, Matches, Process, NEW new \in Seq(TaskRecords), Processes(new),
         NEW r \in Requests, Running(r)
  PROVE  Follows(r)'
<1>0. PICK m : m = Head(inbound)
  OBVIOUS
<1>1. /\ UNCHANGED <<called, request, listening, answers, queryQueue, observers,
                     fields, rows, link, reply>>
      /\ queue' = queue \o new /\ inbound # <<>> /\ inbound' = Tail(inbound)
      /\ m \in MessageRecords /\ toServer = <<>>
      /\ \A i \in 1 .. Len(inbound') : i + 1 \in 1 .. Len(inbound) /\ inbound'[i] = inbound[i + 1]
      /\ \A i \in 1 .. Len(inbound) : inbound[i].of = m.of
      /\ m.type \in Terminal => inbound' = <<>>
      /\ Waits(r)' <=> Waits(r)
      /\ Heeds(new, m, r)
      /\ transactionStatus' = IF m.type = "ready" THEN "idle"
                              ELSE IF m.type = "begun" THEN "inTransaction"
                              ELSE transactionStatus
      /\ toServer' = <<>>
  BY <1>0, ProcessFacts
<1>2. /\ queue \in Seq(TaskRecords) /\ inbound \in Seq(MessageRecords) /\ queue' \in Seq(TaskRecords)
      /\ 1 \in 1 .. Len(inbound) /\ inbound[1] = m
  <2>1. queue \in Seq(TaskRecords) /\ inbound \in Seq(MessageRecords)
    BY Basics
  <2> QED  BY <1>0, <1>1, <2>1, ConcatFacts, TailFacts
<1>3. /\ \A i \in 1 .. Len(toServer') : FALSE
      /\ \A i \in 1 .. Len(toServer) : FALSE
  <2>1. 1 .. Len(toServer') = {} /\ 1 .. Len(toServer) = {}
    BY <1>1
  <2> QED  BY <2>1
<1>4. \A x : /\ NumberOf(inbound, x) = NumberOf(inbound', x) + (IF m = x THEN 1 ELSE 0)
             /\ NumberOf(inbound', x) \in Nat
             /\ Holds(inbound, x) <=> Holds(inbound', x) \/ m = x
  BY <1>0, <1>1, <1>2, NumberTail
<1>5. /\ Kind(r)' = Kind(r) /\ (IsExec(r)' <=> IsExec(r)) /\ (IsPrepare(r)' <=> IsPrepare(r))
      /\ (Running(r)' <=> Running(r)) /\ (Sole(r)' <=> Sole(r)) /\ (Owns(r)' <=> Owns(r))
      /\ (Silent(r)' <=> Silent(r))
  <2>1. Kind(r)' = Kind(r) /\ (IsExec(r)' <=> IsExec(r)) /\ (IsPrepare(r)' <=> IsPrepare(r))
        /\ (Running(r)' <=> Running(r)) /\ (Shared(r)' <=> Shared(r))
    BY <1>1 DEF Kind, IsExec, IsPrepare, Running, Shared
  <2>2. Silent(r)' <=> Silent(r)
    BY <1>1, <2>1 DEF Silent, Said
  <2> QED  BY <2>1, <2>2 DEF Sole, Owns
<1>6. Follows(r) /\ Common /\ ~ Waits(r) /\ r <= called
  BY CalledBefore DEF Matches
\* A task of r is of m, and m gets a task.
<1>7. \A i \in 1 .. Len(new) : Concerns(new[i], r) =>
        /\ new[i].of = m.of /\ new[i].type = HeardAs(m.type)
        /\ m.type \in Replied \cup {"fatal"}
        /\ HeardAs(m.type) \in Replied /\ r \in observers[EventOf(HeardAs(m.type))]
  BY <1>1 DEF Heeds, Task, HeardAs
<1>8. ASSUME m.of = r, m.type \in Replied, r \in observers[EventOf(m.type)]
      PROVE  \E i \in 1 .. Len(new) : new[i] = Task(m.type, r, r)
  <2>1. HeardAs(m.type) = m.type
    BY <1>8 DEF HeardAs, Replied
  <2> QED  BY <1>1, <1>8, <2>1 DEF Heeds
<1>9. ASSUME ~ Ended(queue, Kind(r), r), Owns(r)
      PROVE  Serves(r) /\ m.of = r
  <2>1. Serves(r)
    BY <1>6, <1>9 DEF Follows, Exclusive
  <2> QED  BY <1>2, <2>1 DEF Serves
<1>10. Ended(queue', Kind(r), r) <=> Ended(queue, Kind(r), r) \/ Ended(new, Kind(r), r)
  BY <1>1, <1>2, SiftConcat
<1>11. ASSUME Ended(new, Kind(r), r)
       PROVE  m.of = r /\ m.type \in EndsOf(Kind(r)) \cup {"fatal"}
  <2>1. PICK i \in 1 .. Len(new) : Ends(new[i], Kind(r), r)
    BY <1>11 DEF Ended
  <2>2. Concerns(new[i], r) /\ new[i].of = r /\ new[i].type \in EndsOf(Kind(r))
    BY <2>1, EndsReplied DEF Ends
  <2> QED  BY <1>7, <2>2 DEF HeardAs
<1>12. Exclusive(r)'
  <2>1. ASSUME Owns(r), ~ Ended(queue, Kind(r), r)
        PROVE  Ended(new, Kind(r), r) \/ Serves(r)'
    <3>1. Serves(r) /\ m.of = r
      BY <1>9, <2>1
    <3>2. CASE m.type \in EndsOf(Kind(r)) \cup {"fatal"}
      <4> DEFINE e == HeardAs(m.type)
      <4>1. e \in EndsOf(Kind(r)) /\ e \in Replied
        BY <3>2 DEF HeardAs, EndsOf, Replied
      <4>2. r \in observers[EventOf(e)]
        <5>1. CASE IsPrepare(r)
          <6>1. EventOf(e) \in {"parseComplete", "error"}
            BY <4>1, <5>1 DEF EndsOf, IsPrepare, EventOf
          <6> QED  BY <1>6, <5>1, <6>1 DEF Common, Roles
        <5>2. CASE IsExec(r)
          <6>1. EventOf(e) \in {"complete", "error"}
            BY <4>1, <5>2 DEF EndsOf, IsExec, ExecKinds, Kind, EventOf
          <6>2. EventOf(e) \in ExecEvents \ {"description"}
            BY <6>1 DEF ExecEvents
          <6> QED  BY <5>2, <6>2 DEF Inv, Observed, IsExec
        <5> QED  BY <2>1, <5>1, <5>2 DEF Owns, Sole
      <4>3. PICK i \in 1 .. Len(new) : new[i] = Task(e, r, r)
        BY <1>1, <3>1, <4>1, <4>2 DEF Heeds
      <4>4. Ends(new[i], Kind(r), r)
        BY <4>1, <4>3 DEF Ends, Task
      <4> QED  BY <4>4 DEF Ended
    <3>3. CASE m.type \notin EndsOf(Kind(r)) \cup {"fatal"}
      <4>1. m.type \notin Closing
        <5>1. ASSUME m.type \in Closing
              PROVE  FALSE
          <6>1. m.type \in Terminal
            BY <5>1 DEF Closing, Terminal
          <6>2. \A i \in 1 .. Len(inbound) : inbound[i] = m
            <7>1. \A i \in 1 .. Len(inbound) : ~ (1 < i)
              BY <1>2, <6>1 DEF Inv, Turn
            <7>2. \A i \in 1 .. Len(inbound) : i = 1
              BY <1>2, <7>1
            <7> QED  BY <1>2, <7>2
          <6> QED  BY <1>1, <1>2, <3>1, <3>3, <5>1, <6>2 DEF Serves
        <5> QED  BY <5>1
      <4>2. transactionStatus' # "idle"
        BY <1>1, <3>1, <4>1 DEF Serves, Closing
      <4>3. \A i \in 1 .. Len(inbound') : inbound'[i].of = r
        BY <1>1, <3>1
      <4>4. \/ \E i \in 1 .. Len(inbound) : inbound[i].type \in EndsOf(Kind(r)) \cup {"fatal"}
            \/ link # "up" /\ \A i \in 1 .. Len(inbound) : inbound[i].type \notin Closing
        BY <1>1, <3>1 DEF Serves
      <4>5. ASSUME NEW i \in 1 .. Len(inbound), inbound[i].type \in EndsOf(Kind(r)) \cup {"fatal"}
            PROVE  \E j \in 1 .. Len(inbound') : inbound'[j].type \in EndsOf(Kind(r)) \cup {"fatal"}
        <5>1. i # 1
          BY <1>2, <3>3, <4>5
        <5>2. Len(inbound') = Len(inbound) - 1 /\ Len(inbound) \in Nat
          BY <1>1, <1>2, TailFacts
        <5>3. i - 1 \in 1 .. Len(inbound') /\ (i - 1) + 1 = i
          BY <5>1, <5>2
        <5>4. inbound'[i - 1] = inbound[i]
          BY <1>1, <5>3
        <5> QED  BY <4>5, <5>3, <5>4
      <4>6. Serves(r)'
        BY <1>1, <1>3, <1>5, <4>2, <4>3, <4>4, <4>5 DEF Serves
      <4> QED  BY <4>6
    <3> QED  BY <3>2, <3>3
  <2>2. ASSUME Owns(r)
        PROVE  OwnFirst(queue', Kind(r), r)
    <3>1. OwnFirst(queue, Kind(r), r)
      BY <1>6, <2>2 DEF Follows, Exclusive
    <3>2. ASSUME NEW i \in 1 .. Len(new), new[i].type \in Replied, new[i].id = r, new[i].of # r
          PROVE  Ended(queue, Kind(r), r)
      <4>1. Concerns(new[i], r)
        BY <3>2 DEF Concerns
      <4> QED  BY <1>7, <1>9, <2>2, <3>2, <4>1
    <3> QED  BY <1>1, <1>2, <3>1, <3>2, SiftConcat
  <2> QED  BY <1>5, <1>10, <2>1, <2>2 DEF Exclusive
<1>13. Final(r)'
  <2>1. EndsLast(queue', Kind(r), r)
    <3>1. EndsLast(queue, Kind(r), r)
      BY <1>6 DEF Follows, Final
    <3>2. ASSUME NEW i \in 1 .. Len(new), new[i].id = r, new[i].of = r,
                 new[i].type \in EndsOf(Kind(r)) \cup {"description", "row"}
          PROVE  ~ Ended(queue, Kind(r), r)
      <4>1. Concerns(new[i], r)
        BY <3>2 DEF Concerns, EndsOf, Replied
      <4>2. m.of = r /\ m.type \notin Closing
        BY <1>7, <3>2, <4>1 DEF Closing, Replied
      <4> QED  BY <1>2, <1>6, <4>2 DEF Follows, Final
    <3>3. \A i, j \in 1 .. Len(new) :
            new[i].id = r /\ new[j].id = r => i = j
      <4>1. ASSUME NEW i \in 1 .. Len(new), NEW j \in 1 .. Len(new), new[i].id = r, new[j].id = r
            PROVE  i = j
        <5>1. r # 0
          BY Basics
        <5>2. new[i].type \in Observable /\ new[j].type \in Observable
          BY <4>1, <5>1 DEF Processes, Observable
        <5>3. /\ new[i].type = m.type \/ new[i].type \in {"error", "ready"}
              /\ new[j].type = m.type \/ new[j].type \in {"error", "ready"}
              /\ m.type # "closed"
          BY <1>0, <1>1 DEF Processes, MessageRecords, MessageTypes
        <5>4. new[i].type \in Replied /\ new[j].type \in Replied
          BY <5>2, <5>3 DEF Observable, Events, Replied
        <5> QED  BY <1>1, <4>1, <5>4 DEF Heeds, Concerns
      <4> QED  BY <4>1
    <3> QED  BY <1>1, <1>2, <3>1, <3>2, <3>3, SiftConcat
  <2>2. ASSUME Ended(queue', Kind(r), r), NEW i \in 1 .. Len(inbound'), inbound'[i].of = r
        PROVE  inbound'[i].type \in Closing
    <3>1. i + 1 \in 1 .. Len(inbound) /\ inbound'[i] = inbound[i + 1] /\ 1 < i + 1
      BY <1>1
    <3>2. CASE Ended(queue, Kind(r), r)
      BY <1>6, <2>2, <3>1, <3>2 DEF Follows, Final
    <3>3. CASE Ended(new, Kind(r), r)
      <4>1. m.of = r /\ m.type \in EndsOf(Kind(r)) \cup {"fatal"}
        BY <1>11, <3>3
      <4>2. CASE m.type = "fatal"
        <5>1. inbound' = <<>>
          BY <1>1, <4>2 DEF Terminal
        <5> QED  BY <5>1
      <4>3. CASE m.type \in EndsOf(Kind(r))
        <5>1. inbound[1].of # 0 /\ inbound[1].type \in EndsOf(Kind(inbound[1].of))
          BY <1>2, <4>1, <4>3, Basics
        <5>2. inbound[i + 1].type \in Closing
          BY <1>2, <1>6, <3>1, <5>1 DEF Common, Replying
        <5> QED  BY <3>1, <5>2
      <4> QED  BY <4>1, <4>2, <4>3
    <3> QED  BY <1>10, <2>2, <3>2, <3>3
  <2> QED  BY <1>5, <2>1, <2>2 DEF Final
<1>14. Fresh(r)'
  <2>1. ~ Asks(r)'
    BY <1>3 DEF Asks
  <2>2. ~ (r > called') /\ ~ Waits(r)'
    BY <1>1, <1>6, Basics
  <2> QED  BY <2>1, <2>2 DEF Fresh
\* What leaves inbound reaches the queue.
<1>15. ASSUME NEW t \in {"description", "row", "complete"},
              m = Message(t, r) => r \in observers[t]
       PROVE  /\ Holds(queue', Task(t, r, r)) <=> Holds(queue, Task(t, r, r)) \/ m = Message(t, r)
              /\ NumberOf(queue', Task(t, r, r)) =
                   NumberOf(queue, Task(t, r, r)) + (IF m = Message(t, r) THEN 1 ELSE 0)
  <2>1. \A i \in 1 .. Len(new) : new[i] = Task(t, r, r) => Concerns(new[i], r)
    BY DEF Concerns, Task, Replied
  <2>2. ASSUME Holds(new, Task(t, r, r))
        PROVE  m = Message(t, r)
    <3>1. PICK i \in 1 .. Len(new) : new[i] = Task(t, r, r)
      BY <2>2 DEF Holds
    <3>2. m.of = r /\ HeardAs(m.type) = t
      BY <1>7, <2>1, <3>1 DEF Task
    <3>3. m.type = t
      BY <3>2 DEF HeardAs
    <3> QED  BY <1>1, <3>2, <3>3 DEF Message, MessageRecords
  <2>3. ASSUME m = Message(t, r)
        PROVE  \E i \in 1 .. Len(new) :
                 new[i] = Task(t, r, r) /\ \A j \in 1 .. Len(new) : new[j] = Task(t, r, r) => j = i
    <3>1. m.of = r /\ m.type = t /\ t \in Replied
      BY <2>3 DEF Message, Replied
    <3>2. PICK i \in 1 .. Len(new) : new[i] = Task(t, r, r)
      BY <1>8, <1>15, <2>3, <3>1 DEF EventOf
    <3> QED  BY <1>1, <2>1, <3>2 DEF Heeds
  <2>4. CASE m # Message(t, r)
    <3>1. ~ Holds(new, Task(t, r, r))
      BY <2>2, <2>4
    <3>2. NumberOf(queue, Task(t, r, r)) \in Nat
      BY <1>2, NumberType
    <3> QED  BY <1>1, <1>2, <2>4, <3>1, <3>2, NumberConcat
  <2>5. CASE m = Message(t, r)
    <3>1. PICK i \in 1 .. Len(new) :
            new[i] = Task(t, r, r) /\ \A j \in 1 .. Len(new) : new[j] = Task(t, r, r) => j = i
      BY <2>3, <2>5
    <3>2. Holds(new, Task(t, r, r))
      BY <3>1 DEF Holds
    <3> QED  BY <1>1, <1>2, <2>5, <3>1, <3>2, NumberConcat
  <2> QED  BY <2>4, <2>5
<1>16. Whole(r)'
  <2>1. ASSUME Owns(r), IsExec(r)
        PROVE  /\ Announced(r)' => Announced(r)
               /\ RowsOf(r)' = RowsOf(r)
               /\ Described(r)' <=> Described(r)
    <3>1. r \in observers["row"] /\ r \in observers["complete"]
      BY <2>1 DEF Inv, Observed, IsExec, ExecEvents
    <3>2. Holds(inbound, Message("description", r)) => r \in observers["description"]
      BY <1>6, <2>1 DEF Follows, Describable
    <3>3. m = Message("description", r) => r \in observers["description"]
      BY <1>4, <3>2
    <3>4. Announced(r)' => Announced(r)
      BY <1>4, <1>15, <3>1 DEF Announced
    <3>5. Described(r)' <=> Described(r)
      BY <1>1, <1>4, <1>15, <3>3 DEF Described
    <3>6. /\ NumberOf(queue', Task("row", r, r)) =
               NumberOf(queue, Task("row", r, r)) + (IF m = Message("row", r) THEN 1 ELSE 0)
          /\ NumberOf(inbound, Message("row", r)) =
               NumberOf(inbound', Message("row", r)) + (IF m = Message("row", r) THEN 1 ELSE 0)
          /\ NumberOf(inbound', Message("row", r)) \in Nat
      BY <1>4, <1>15, <3>1
    <3>7. NumberOf(queue, Task("row", r, r)) \in Nat /\ Len(rows[r]) \in Nat /\ rows'[r] = rows[r]
      <4>1. rows[r] \in Seq(Requests)
        BY Basics
      <4> QED  BY <1>1, <1>2, <4>1, NumberType
    <3>8. RowsOf(r)' = RowsOf(r)
      BY <3>6, <3>7 DEF RowsOf
    <3> QED  BY <3>4, <3>5, <3>8
  <2>2. \A t : Occurrences(t, r)' = Occurrences(t, r)
    BY <1>1 DEF Occurrences
  <2>3. Whole(r)
    BY <1>6 DEF Follows
  <2> QED  BY <1>1, <1>5, <2>1, <2>2, <2>3 DEF Whole
<1>17. Describable(r)'
  <2>1. ~ Asks(r)'
    BY <1>3 DEF Asks
  <2>2. ASSUME Owns(r), IsExec(r), Holds(inbound', Message("description", r))
        PROVE  r \in observers'["description"] /\ ~ Holds(queue', Task("description", r, r))
    <3>1. Holds(inbound, Message("description", r))
      BY <1>4, <2>2
    <3>2. r \in observers["description"] /\ ~ Holds(queue, Task("description", r, r))
      BY <1>6, <2>2, <3>1 DEF Follows, Describable
    <3>3. m # Message("description", r)
      <4>1. PICK i \in 1 .. Len(inbound') : inbound'[i] = Message("description", r)
        BY <2>2 DEF Holds
      <4>2. i + 1 \in 1 .. Len(inbound) /\ inbound[i + 1].type = "description" /\ 1 < i + 1
        BY <1>1, <4>1 DEF Message
      <4>3. inbound[1].type # "description"
        BY <1>2, <1>6, <4>2 DEF Common, Replying
      <4> QED  BY <1>2, <4>3 DEF Message
    <3> QED  BY <1>1, <1>15, <3>2, <3>3
  <2> QED  BY <1>5, <2>1, <2>2 DEF Describable
<1>18. Answered(r)'
  <2>1. AnsweredAside(r)
    BY <1>1, <1>5 DEF AnsweredAside
  <2>2. Stays
    BY <1>0, ProcessesProceed, ProceedsStays
  <2> QED  BY <1>6, <2>1, <2>2, AnsweredOn DEF Follows
<1> QED  BY <1>12, <1>13, <1>14, <1>16, <1>17, <1>18 DEF Follows

LEMMA ProcessesMatches ==
  ASSUME Inv, Inv', Matches, Process
  PROVE  Matches'
<1>1. PICK new \in Seq(TaskRecords) : Processes(new)
  BY ProcessEffect
<1>2. Proceeds
  BY <1>1, ProcessesProceed
<1>3. Stays
  BY <1>2, ProceedsStays
<1>4. Common'
  BY <1>2, CommonOn DEF Matches
<1>5. \A r \in Requests : Follows(r)'
  <2>1. \A r \in Requests : ~ Running(r) => Follows(r)'
    BY <1>1, <1>3, ProcessesAside, FollowsOn DEF Matches
  <2> QED  BY <1>1, <2>1, ProcessesFollow
<1> QED  BY <1>4, <1>5 DEF Matches

-----------------------------------------------------------------------------
(***************************************************************************)
(* An observer of exec or prepare is called.                               *)
(***************************************************************************)
Gathered(t, c) ==
  /\ t.type \in {"description", "row"} /\ UNCHANGED <<answers, listening>>
  /\ \A e \in Events \ {"description"} : observers'[e] = observers[e]
  /\ IF t.type = "row"
     THEN /\ rows' = [rows EXCEPT ![c] = Append(@, t.of)]
          /\ UNCHANGED <<observers, fields>>
     ELSE /\ fields' = [fields EXCEPT ![c] = t.of]
          /\ UNCHANGED rows

\* How c is answered, when it is.
AnswerOf(t, c) ==
  CASE t.type \in {"complete", "uncounted"} ->
         IF Readable(t.type, c, t.of) THEN Result(c, t.of) ELSE Answer("unreadable", t.of)
    [] t.type = "error"         -> Answer("failure", t.of)
    [] t.type = "closed"        -> Answer("connectionLost", 0)
    [] t.type = "parseComplete" -> Answer("prepared", t.of)

Concluded(t, c) ==
  /\ t.type \in {"complete", "uncounted", "error", "closed", "parseComplete"}
  /\ AnswerOf(t, c) \in AnswerRecords /\ Conclude(c, AnswerOf(t, c))
  /\ Forget(c) /\ UNCHANGED <<fields, rows>>

Observes ==
  \/ RunDescription \/ RunRow \/ RunComplete \/ RunErrorResponse
  \/ RunConnectionLost \/ RunPrepared

LEMMA ObservesFacts ==
  ASSUME Inv, Common, Observes, NEW t, t = Head(queue), NEW c, c = t.id
  PROVE  /\ queue # <<>> /\ queue' = Tail(queue)
         /\ UNCHANGED <<called, request, inbound, link, reply, transactionStatus, toServer,
                        queryQueue>>
         /\ t \in TaskRecords /\ c \in Requests /\ c <= called /\ t.type \in Observable
         /\ MayHear(t.type, c) /\ ~ Waits(c)
         /\ t.type \in Replied => Said(t.of, Cause(t.type)) /\ t.of >= c
         /\ \A r \in Requests : Waits(r)' <=> Waits(r)
         /\ Gathered(t, c) \/ Concluded(t, c)
         /\ \A r \in Requests : r # c =>
              /\ rows'[r] = rows[r] /\ fields'[r] = fields[r]
              /\ \A e \in Events : r \in observers'[e] <=> r \in observers[e]
         /\ \A e \in Events : observers'[e] \subseteq observers[e]
         /\ listening' \subseteq listening
<1>1. queue # <<>> /\ queue' = Tail(queue)
      /\ UNCHANGED <<called, request, inbound, link, reply, transactionStatus, toServer,
                     queryQueue>>
  BY DEF Observes, RunDescription, RunRow, RunComplete, RunErrorResponse, RunConnectionLost,
         RunPrepared, Observing, Ran, At, serverVars, clientVars
<1>2. t \in TaskRecords /\ t = queue[1] /\ 1 \in 1 .. Len(queue)
  BY <1>1, DequeueFacts
<1>3. /\ t.type \in {"description", "row", "complete", "uncounted", "error", "closed",
                       "parseComplete"}
      /\ c # 0
  <2>1. t.type \in {"description", "row", "complete", "uncounted", "error", "closed",
                       "parseComplete"}
    BY DEF Observes, RunDescription, RunRow, RunComplete, RunErrorResponse, RunConnectionLost,
           RunPrepared, At
  <2>2. t.type \in {"error", "closed"} => c # 0
    BY DEF Observes, RunDescription, RunRow, RunComplete, RunErrorResponse, RunConnectionLost,
           RunPrepared, At
  <2>3. t.type \in {"description", "row", "complete", "uncounted", "parseComplete"} => c # 0
    BY <1>2 DEF Inv, Queued, Tasks, Replied
  <2> QED  BY <2>1, <2>2, <2>3
<1>4. /\ c \in Requests /\ c <= called /\ t.type \in Observable /\ t.of \in 0 .. MaxRequests
      /\ t.type \in Replied => t.of \in Requests
  <2>1. queue[1].id \in 0 .. called /\ queue[1].of \in 0 .. MaxRequests
        /\ (queue[1].type \in Replied /\ queue[1].id # 0 => queue[1].of # 0)
    BY <1>2, Basics
  <2>2. called \in 0 .. MaxRequests /\ MaxRequests \in Nat /\ Requests = 1 .. MaxRequests
    BY Basics
  <2>3. c \in Requests /\ c <= called
    BY <1>2, <1>3, <2>1, <2>2
  <2>4. t.of \in 0 .. MaxRequests /\ (t.type \in Replied => t.of \in Requests)
    BY <1>2, <1>3, <2>1, <2>2
  <2> QED  BY <1>3, <2>3, <2>4 DEF Observable, Events
<1>5. MayHear(t.type, c) /\ (t.type \in Replied => Said(t.of, Cause(t.type)) /\ t.of >= c)
  BY <1>2, <1>3, <1>4 DEF Common, Roles, Sourced, Sequel
<1>6. ~ Waits(c) /\ \A r \in Requests : Waits(r)' <=> Waits(r)
  <2>1. t.type # "operation"
    BY <1>3
  <2>2. \A p : Pending(queryQueue, queue', p) <=> Pending(queryQueue, queue, p)
    BY <1>1, <2>1, DequeueOperations
  <2>3. ~ Pending(queryQueue, queue, c)
    BY <1>2, <2>1 DEF Inv, Observed
  <2> QED  BY <1>1, <2>2, <2>3 DEF Waits
<1>7. /\ fields \in [Requests -> 0 .. MaxRequests] /\ rows \in [Requests -> Seq(Requests)]
      /\ observers \in [Events -> SUBSET (0 .. MaxRequests)]
  BY Basics
<1>8. \A a \in AnswerTypes, of \in 0 .. MaxRequests : Answer(a, of) \in AnswerRecords
  BY Constants DEF Answer, AnswerRecords
<1>9. Gathered(t, c) \/ Concluded(t, c)
  <2>1. CASE RunDescription
    BY <1>7, <2>1 DEF RunDescription, Gathered, At, Observing
  <2>2. CASE RunRow
    BY <1>7, <2>2 DEF RunRow, Gathered, At, Observing
  <2>3. CASE RunComplete
    <3>1. /\ t.type \in {"complete", "uncounted"} /\ Forget(c) /\ UNCHANGED <<fields, rows>>
          /\ Conclude(c, IF Readable(t.type, c, t.of) THEN Result(c, t.of)
                                                      ELSE Answer("unreadable", t.of))
      BY <2>3 DEF RunComplete, At, gathered
    <3>2. Result(c, t.of) \in AnswerRecords
      BY <1>4, <1>7 DEF Result, AnswerRecords, AnswerTypes
    <3>3. Answer("unreadable", t.of) \in AnswerRecords
      BY <1>4, <1>8 DEF AnswerTypes
    <3>4. AnswerOf(t, c) = IF Readable(t.type, c, t.of) THEN Result(c, t.of)
                                                        ELSE Answer("unreadable", t.of)
      BY <3>1 DEF AnswerOf
    <3> QED  BY <3>1, <3>2, <3>3, <3>4 DEF Concluded
  <2>4. CASE RunErrorResponse
    <3>1. t.type = "error" /\ Conclude(c, Answer("failure", t.of)) /\ Forget(c)
          /\ UNCHANGED <<fields, rows>>
      BY <2>4 DEF RunErrorResponse, At, gathered
    <3>2. Answer("failure", t.of) \in AnswerRecords
      BY <1>4, <1>8 DEF AnswerTypes
    <3> QED  BY <3>1, <3>2 DEF Concluded, AnswerOf
  <2>5. CASE RunConnectionLost
    <3>1. t.type = "closed" /\ Conclude(c, Answer("connectionLost", 0)) /\ Forget(c)
          /\ UNCHANGED <<fields, rows>>
      BY <2>5 DEF RunConnectionLost, At, gathered
    <3>2. Answer("connectionLost", 0) \in AnswerRecords
      BY <1>8, Constants DEF AnswerTypes
    <3> QED  BY <3>1, <3>2 DEF Concluded, AnswerOf
  <2>6. CASE RunPrepared
    <3>1. t.type = "parseComplete" /\ Conclude(c, Answer("prepared", t.of)) /\ Forget(c)
          /\ UNCHANGED <<fields, rows>>
      BY <2>6 DEF RunPrepared, At, gathered
    <3>2. Answer("prepared", t.of) \in AnswerRecords
      BY <1>4, <1>8 DEF AnswerTypes
    <3> QED  BY <3>1, <3>2 DEF Concluded, AnswerOf
  <2> QED  BY <2>1, <2>2, <2>3, <2>4, <2>5, <2>6 DEF Observes
<1>10. \A e \in Events : observers'[e] \subseteq observers[e] /\ observers[e] \subseteq observers'[e] \cup {c}
  <2>1. CASE observers' = observers
    BY <2>1
  <2>2. CASE Forget(c)
    BY <1>7, <2>2 DEF Forget
  <2>3. CASE observers' = [observers EXCEPT !["description"] = @ \ {c}]
    BY <1>7, <2>3
  <2>4. \/ observers' = observers \/ Forget(c)
        \/ observers' = [observers EXCEPT !["description"] = @ \ {c}]
    BY DEF Observes, RunDescription, RunRow, RunComplete, RunErrorResponse, RunConnectionLost,
           RunPrepared
  <2> QED  BY <2>1, <2>2, <2>3, <2>4
<1>11. \A r \in Requests : r # c => rows'[r] = rows[r] /\ fields'[r] = fields[r]
  BY <1>4, <1>7, <1>9 DEF Gathered, Concluded
<1>12. listening' \subseteq listening
  <2>1. CASE Gathered(t, c)
    BY <2>1 DEF Gathered
  <2>2. CASE Concluded(t, c)
    BY <1>4, <2>2, TellsOwn DEF Concluded
  <2> QED  BY <1>9, <2>1, <2>2
<1>13. \A r \in Requests : r # c =>
         \A e \in Events : r \in observers'[e] <=> r \in observers[e]
  BY <1>10
<1>14. \A e \in Events : observers'[e] \subseteq observers[e]
  BY <1>10
<1> QED  BY <1>1, <1>2, <1>4, <1>5, <1>6, <1>9, <1>11, <1>12, <1>13, <1>14

LEMMA ObservesProceed ==
  ASSUME Inv, Common, Observes
  PROVE  Proceeds
<1>0. PICK t, c : t = Head(queue) /\ c = t.id
  OBVIOUS
<1>1. /\ queue # <<>> /\ queue' = Tail(queue)
      /\ UNCHANGED <<called, request, inbound, reply, toServer>>
      /\ \A r \in Requests : Waits(r)' <=> Waits(r)
      /\ Gathered(t, c) \/ Concluded(t, c)
      /\ \A r \in Requests : r # c =>
           \A e \in Events : r \in observers'[e] <=> r \in observers[e]
      /\ \A e \in Events : observers'[e] \subseteq observers[e]
      /\ listening' \subseteq listening
  BY <1>0, ObservesFacts
<1>2. Onward
  <2>1. inbound \in Seq(MessageRecords)
    BY Basics
  <2>2. \A i \in 1 .. Len(inbound') : i + 0 \in 1 .. Len(inbound) /\ inbound'[i] = inbound[i + 0]
    BY <1>1, <2>1
  <2> QED  BY <2>2 DEF Onward
<1>3. \A i \in 1 .. Len(queue') : \E j \in 1 .. Len(queue) : queue[j] = queue'[i]
  <2>1. /\ Len(queue') = Len(queue) - 1 /\ Len(queue) \in Nat \ {0}
        /\ \A i \in 1 .. Len(queue) - 1 : queue'[i] = queue[i + 1]
    BY <1>1, Basics, TailFacts
  <2>2. \A i \in 1 .. Len(queue') : i + 1 \in 1 .. Len(queue)
    BY <2>1
  <2> QED  BY <2>1, <2>2
<1>4. \A e \in PrepareEvents, r \in Requests :
        Running(r)' /\ r \in observers[e] => r \in observers'[e]
  <2>1. PrepareEvents \subseteq Events \ {"description"}
    BY DEF PrepareEvents, Events
  <2>2. CASE Gathered(t, c)
    BY <2>1, <2>2 DEF Gathered
  <2>3. CASE Concluded(t, c)
    <3>1. ~ Running(c)'
      BY <2>3 DEF Concluded, Forget, Running
    <3> QED  BY <1>1, <2>1, <3>1
  <2> QED  BY <1>1, <2>2, <2>3
<1> QED  BY <1>1, <1>2, <1>3, <1>4 DEF Proceeds

\* Others than the one whose observer it is.
LEMMA ObservesAside ==
  ASSUME Inv, Common, Observes, NEW r \in Requests, r # Head(queue).id
  PROVE  Aside(r)
<1>0. PICK t, c : t = Head(queue) /\ c = t.id
  OBVIOUS
<1>1. /\ queue # <<>> /\ queue' = Tail(queue)
      /\ UNCHANGED <<called, request, inbound, link, reply, transactionStatus, toServer,
                     queryQueue>>
      /\ c \in Requests /\ c <= called
      /\ Waits(r)' <=> Waits(r)
      /\ Gathered(t, c) \/ Concluded(t, c)
      /\ rows'[r] = rows[r] /\ fields'[r] = fields[r]
      /\ \A e \in Events : r \in observers'[e] <=> r \in observers[e]
  BY <1>0, ObservesFacts
<1>2. Sole(r)' <=> Sole(r)
  BY <1>1 DEF Sole, IsPrepare, IsExec, Kind, Shared
<1>3. Sole(r)' => answers'[r] = answers[r] /\ (r \in listening' <=> r \in listening)
  <2>1. CASE Gathered(t, c)
    BY <2>1 DEF Gathered
  <2>2. CASE Concluded(t, c)
    BY <1>0, <1>1, <1>2, <2>2, TellsNoOther DEF Concluded
  <2> QED  BY <1>1, <2>1, <2>2
<1>4. Steady(queue, queue', r)
  <2>1. ~ Concerns(Head(queue), r)
    BY <1>0 DEF Concerns
  <2> QED  BY <1>1, <2>1, Basics, SteadyTail
<1>5. /\ Serves(r)' <=> Serves(r)
      /\ Asks(r)' <=> Asks(r)
  BY <1>1 DEF Serves, Asks, Kind
<1> QED  BY <1>1, <1>3, <1>4, <1>5 DEF Aside

\* What the first task of c is, if c is to be told its own outcome.
LEMMA OwnTask ==
  ASSUME Inv, Common, Observes, NEW t, t = Head(queue), NEW c, c = t.id, Follows(c), Owns(c),
         t.type \in Replied
  PROVE  t.of = c /\ t = Task(t.type, c, c) /\ ~ Asks(c)
<1>1. queue # <<>> /\ t \in TaskRecords /\ Said(t.of, Cause(t.type))
  BY ObservesFacts
<1>2. t.of = c
  BY <1>1, Basics, SiftHead DEF Follows, Exclusive
<1>3. t = Task(t.type, c, c)
  BY <1>1, <1>2 DEF Task, TaskRecords
<1>4. reply[c] # <<>>
  BY <1>1, <1>2 DEF Said
<1>5. c # 0
  <2>1. c \in Requests
    BY ObservesFacts
  <2> QED  BY <2>1, Basics
<1>6. ~ Asks(c)
  BY <1>4, <1>5 DEF Asks, Inv, Parses
<1> QED  BY <1>2, <1>3, <1>6

LEMMA GathersFollow ==
  ASSUME Inv, Matches, Observes, NEW t, t = Head(queue), NEW c, c = t.id, Gathered(t, c)
  PROVE  Follows(c)'
<1>1. /\ queue # <<>> /\ queue' = Tail(queue)
      /\ UNCHANGED <<called, request, inbound, link, reply, transactionStatus, toServer,
                     queryQueue>>
      /\ t \in TaskRecords /\ c \in Requests /\ c <= called /\ MayHear(t.type, c) /\ ~ Waits(c)
      /\ Waits(c)' <=> Waits(c)
      /\ \A e \in Events : observers'[e] \subseteq observers[e]
  BY ObservesFacts DEF Matches
<1>2. /\ t.type \in {"description", "row"} /\ UNCHANGED <<answers, listening>>
      /\ \A e \in Events \ {"description"} : observers'[e] = observers[e]
  BY DEF Gathered
<1>3. queue \in Seq(TaskRecords) /\ Common /\ Follows(c)
  BY <1>1, Basics DEF Matches
<1>4. IsExec(c) /\ ~ IsPrepare(c) /\ t.type \in Replied /\ t.type \notin EndsOf(Kind(c))
  <2>1. IsExec(c) /\ ~ IsPrepare(c)
    BY <1>1, <1>2, CalledBefore DEF MayHear
  <2> QED  BY <1>2, <2>1 DEF Replied, EndsOf, IsPrepare
<1>5. Running(c)' <=> Running(c)
  <2>1. Running(c)' => Running(c)
    BY <1>1 DEF Running
  <2>2. ASSUME Running(c)
        PROVE  Running(c)'
    <3>1. c \in observers["row"]
      BY <1>1, <1>4, <2>2 DEF Inv, Observed, IsExec, ExecEvents
    <3>2. c \in observers'["row"] /\ "row" \in Events
      BY <1>2, <3>1 DEF Events
    <3> QED  BY <3>2 DEF Running
  <2> QED  BY <2>1, <2>2
<1>6. /\ Kind(c)' = Kind(c) /\ (IsExec(c)' <=> IsExec(c)) /\ (IsPrepare(c)' <=> IsPrepare(c))
      /\ (Sole(c)' <=> Sole(c)) /\ (Owns(c)' <=> Owns(c)) /\ (Silent(c)' <=> Silent(c))
      /\ (Serves(c)' <=> Serves(c)) /\ (Asks(c)' <=> Asks(c))
  <2>1. Kind(c)' = Kind(c) /\ (IsExec(c)' <=> IsExec(c)) /\ (IsPrepare(c)' <=> IsPrepare(c))
        /\ (Shared(c)' <=> Shared(c))
    BY <1>1 DEF Kind, IsExec, IsPrepare, Shared
  <2>2. Silent(c)' <=> Silent(c)
    BY <1>1, <2>1 DEF Silent, Said
  <2>3. (Serves(c)' <=> Serves(c)) /\ (Asks(c)' <=> Asks(c))
    BY <1>1, <2>1 DEF Serves, Asks
  <2> QED  BY <1>5, <2>1, <2>2, <2>3 DEF Sole, Owns
<1>7. ~ Ends(Head(queue), Kind(c), c)
  BY <1>4 DEF Ends
<1>8. \A x : /\ NumberOf(queue, x) = NumberOf(queue', x) + (IF t = x THEN 1 ELSE 0)
             /\ NumberOf(queue', x) \in Nat
             /\ Holds(queue, x) <=> Holds(queue', x) \/ t = x
  BY <1>1, <1>3, NumberTail
<1>9. Owns(c) => t.of = c /\ t = Task(t.type, c, c) /\ ~ Asks(c)
  BY <1>3, <1>4, OwnTask
<1>10. Exclusive(c)'
  BY <1>1, <1>3, <1>6, <1>7, SiftTail DEF Follows, Exclusive
<1>11. Final(c)'
  <2>1. EndsLast(queue', Kind(c), c)
    BY <1>1, <1>3, SiftTail DEF Follows, Final
  <2>2. Ended(queue', Kind(c), c) => Ended(queue, Kind(c), c)
    BY <1>1, <1>3, SiftTail
  <2> QED  BY <1>1, <1>3, <1>6, <2>1, <2>2 DEF Follows, Final
<1>12. Fresh(c)'
  BY <1>1, <1>6, <1>9, Basics DEF Fresh
<1>13. \A x : Task("complete", c, c) # t
  BY <1>2 DEF Task
<1>14. rows[c] \in Seq(Requests) /\ rows \in [Requests -> Seq(Requests)]
       /\ fields \in [Requests -> 0 .. MaxRequests] /\ c \in Nat
  BY <1>1, Basics
<1>15. Whole(c)'
  <2>1. ASSUME Owns(c)
        PROVE  /\ fields'[c] \in {0, c}
               /\ \A i \in 1 .. Len(rows'[c]) : rows'[c][i] = c
               /\ RowsOf(c)' = RowsOf(c)
               /\ Described(c)' <=> Described(c)
    <3>1. t.of = c /\ t = Task(t.type, c, c)
      BY <1>9, <2>1
    <3>2. fields[c] \in {0, c} /\ \A i \in 1 .. Len(rows[c]) : rows[c][i] = c
      BY <1>3, <1>4, <2>1 DEF Follows, Whole
    <3>3. /\ NumberOf(queue, Task("row", c, c)) \in Nat /\ NumberOf(inbound, Message("row", c)) \in Nat
          /\ Len(rows[c]) \in Nat
      BY <1>3, <1>14, Basics, NumberType
    <3>4. CASE t.type = "row"
      <4>1. rows' = [rows EXCEPT ![c] = Append(@, c)] /\ fields' = fields
        BY <3>1, <3>4 DEF Gathered
      <4>2. rows'[c] = Append(rows[c], c)
        BY <1>1, <1>14, <4>1
      <4>3. /\ Len(rows'[c]) = Len(rows[c]) + 1
            /\ \A i \in 1 .. Len(rows[c]) : rows'[c][i] = rows[c][i]
            /\ rows'[c][Len(rows[c]) + 1] = c
        BY <1>1, <1>14, <4>2, AppendFacts
      <4>4. \A i \in 1 .. Len(rows'[c]) : rows'[c][i] = c
        BY <3>2, <3>3, <4>3
      <4>5. t = Task("row", c, c) /\ t # Task("description", c, c)
        BY <3>1, <3>4 DEF Task
      <4>6. NumberOf(queue, Task("row", c, c)) = NumberOf(queue', Task("row", c, c)) + 1
        BY <1>8, <4>5
      <4>7. NumberOf(queue', Task("row", c, c)) \in Nat
        BY <1>8
      <4>8. RowsOf(c)' = RowsOf(c)
        <5>1. NumberOf(inbound', Message("row", c)) = NumberOf(inbound, Message("row", c))
          BY <1>1
        <5>2. \A k, l, m \in Nat : (k + 1) + l + m = k + (l + 1) + m
          OBVIOUS
        <5>3. (Len(rows[c]) + 1) + NumberOf(queue', Task("row", c, c))
              + NumberOf(inbound, Message("row", c))
              = Len(rows[c]) + (NumberOf(queue', Task("row", c, c)) + 1)
                + NumberOf(inbound, Message("row", c))
          BY <3>3, <4>7, <5>2
        <5>4. Len(rows'[c]) + NumberOf(queue', Task("row", c, c))
              + NumberOf(inbound', Message("row", c))
              = Len(rows[c]) + NumberOf(queue, Task("row", c, c))
                + NumberOf(inbound, Message("row", c))
          BY <4>3, <4>6, <5>1, <5>3
        <5> QED  BY <5>4 DEF RowsOf
      <4>9. Described(c)' <=> Described(c)
        BY <1>1, <1>8, <4>1, <4>5 DEF Described
      <4> QED  BY <3>2, <4>1, <4>4, <4>8, <4>9
    <3>5. CASE t.type = "description"
      <4>1. fields' = [fields EXCEPT ![c] = c] /\ rows' = rows
        BY <3>1, <3>5 DEF Gathered
      <4>2. fields'[c] = c
        BY <1>1, <1>14, <4>1
      <4>3. t = Task("description", c, c) /\ t # Task("row", c, c)
        BY <3>1, <3>5 DEF Task
      <4>4. NumberOf(queue, Task("row", c, c)) = NumberOf(queue', Task("row", c, c))
        BY <1>8, <4>3
      <4>5. RowsOf(c)' = RowsOf(c)
        BY <1>1, <4>1, <4>4 DEF RowsOf
      <4>6. Described(c)' /\ Described(c)
        BY <1>8, <4>2, <4>3 DEF Described
      <4> QED  BY <3>2, <4>1, <4>2, <4>5, <4>6
    <3> QED  BY <1>2, <3>4, <3>5
  <2>2. Announced(c)' <=> Announced(c)
    BY <1>1, <1>8, <1>13 DEF Announced
  <2>3. \A x : Occurrences(x, c)' = Occurrences(x, c)
    BY <1>1 DEF Occurrences
  <2> QED  BY <1>3, <1>6, <2>1, <2>2, <2>3 DEF Follows, Whole
<1>16. Describable(c)'
  <2>1. ASSUME Owns(c), Holds(inbound, Message("description", c))
        PROVE  c \in observers'["description"] /\ ~ Holds(queue', Task("description", c, c))
    <3>1. c \in observers["description"] /\ ~ Holds(queue, Task("description", c, c))
      BY <1>3, <1>4, <2>1 DEF Follows, Describable
    <3>2. t.type = "row"
      BY <1>2, <1>8, <1>9, <2>1, <3>1
    <3>3. observers' = observers
      BY <3>2 DEF Gathered
    <3> QED  BY <1>8, <3>1, <3>3
  <2> QED  BY <1>1, <1>6, <1>9, <2>1 DEF Describable
<1>17. Answered(c)'
  <2>1. \A i \in 1 .. Len(queue') : \E j \in 1 .. Len(queue) : queue[j] = queue'[i]
    <3>1. /\ Len(queue') = Len(queue) - 1 /\ Len(queue) \in Nat \ {0}
          /\ \A i \in 1 .. Len(queue) - 1 : queue'[i] = queue[i + 1]
      BY <1>1, <1>3, TailFacts
    <3>2. \A i \in 1 .. Len(queue') : i + 1 \in 1 .. Len(queue)
      BY <3>1
    <3> QED  BY <3>1, <3>2
  <2>2. AnsweredAside(c)
    BY <1>1, <1>2, <1>5, <1>6, <2>1 DEF AnsweredAside
  <2>3. Stays
    BY <1>3, ObservesProceed, ProceedsStays
  <2> QED  BY <1>1, <1>3, <2>2, <2>3, AnsweredOn DEF Follows
<1> QED  BY <1>10, <1>11, <1>12, <1>15, <1>16, <1>17 DEF Follows

\* The result that an exec of its own Query is told is whole.
LEMMA ResultWhole ==
  ASSUME Inv, Matches, Observes, NEW t, t = Head(queue), NEW c, c = t.id, Owns(c), IsExec(c),
         t.type = "complete"
  PROVE  OwnOutcome(c, Result(c, t.of)) /\ Readable(t.type, c, t.of)
<1>1. queue # <<>> /\ queue' = Tail(queue) /\ c \in Requests
  BY ObservesFacts DEF Matches
<1>2. queue \in Seq(TaskRecords) /\ inbound \in Seq(MessageRecords)
      /\ rows[c] \in Seq(Requests) /\ c \in Nat /\ c # 0
  BY <1>1, Basics
<1>3. Common /\ Follows(c)
  BY <1>1 DEF Matches
<1>4. t.of = c /\ t = Task("complete", c, c)
  <2>1. t.type \in Replied
    BY DEF Replied
  <2> QED  BY <1>3, <2>1, OwnTask
<1>5. Said(c, {"complete"})
  <2>1. Said(t.of, Cause(t.type))
    BY <1>3, ObservesFacts DEF Replied
  <2> QED  BY <1>4, <2>1 DEF Cause
<1>6. EndsOf(Kind(c)) = {"complete", "uncounted", "error"}
  BY <1>1, CalledBefore DEF EndsOf, IsPrepare
<1>7. Ends(Head(queue), Kind(c), c)
  BY <1>4, <1>6 DEF Ends, Task
<1>8. t = queue[1] /\ 1 \in 1 .. Len(queue)
  BY <1>1, DequeueFacts
<1>9. \A x : /\ NumberOf(queue, x) = NumberOf(queue', x) + (IF t = x THEN 1 ELSE 0)
             /\ Holds(queue, x) <=> Holds(queue', x) \/ t = x
             /\ NumberOf(queue', x) \in Nat
  BY <1>1, <1>2, NumberTail
<1>10. /\ ~ Holds(queue', Task("row", c, c)) /\ ~ Holds(queue', Task("description", c, c))
       /\ t # Task("row", c, c) /\ t # Task("description", c, c)
  <2>1. \A i \in 1 .. Len(queue') : queue'[i].id = c /\ queue'[i].of = c =>
          queue'[i].type \notin {"description", "row"}
    BY <1>1, <1>2, <1>3, <1>7, SiftHead DEF Follows, Final
  <2>2. /\ Task("row", c, c).id = c /\ Task("row", c, c).of = c /\ Task("row", c, c).type = "row"
        /\ Task("description", c, c).id = c /\ Task("description", c, c).of = c
        /\ Task("description", c, c).type = "description"
    BY DEF Task
  <2>3. t.type # "row" /\ t.type # "description"
    OBVIOUS
  <2>4. ~ Holds(queue', Task("row", c, c)) /\ ~ Holds(queue', Task("description", c, c))
    BY <2>1, <2>2 DEF Holds
  <2> QED  BY <2>2, <2>3, <2>4
<1>11. ~ Holds(inbound, Message("row", c)) /\ ~ Holds(inbound, Message("description", c))
  <2>1. Ended(queue, Kind(c), c)
    BY <1>7, <1>8 DEF Ended
  <2>2. \A i \in 1 .. Len(inbound) : inbound[i].of = c => inbound[i].type \notin {"row", "description"}
    BY <1>3, <2>1 DEF Follows, Final, Closing
  <2> QED  BY <2>2 DEF Holds, Message
<1>12. Announced(c)
  BY <1>4, <1>8 DEF Announced, Holds
<1>13. /\ fields[c] \in {0, c} /\ \A i \in 1 .. Len(rows[c]) : rows[c][i] = c
       /\ RowsOf(c) = Occurrences("row", c)
       /\ Described(c) <=> Occurrences("description", c) > 0
  BY <1>3, <1>12 DEF Follows, Whole
<1>14. Len(rows[c]) = Occurrences("row", c)
  <2>1. NumberOf(inbound, Message("row", c)) = 0
    BY <1>2, <1>11, NumberType
  <2>2. NumberOf(queue, Task("row", c, c)) = 0
    <3>1. ~ Holds(queue, Task("row", c, c))
      BY <1>9, <1>10
    <3> QED  BY <1>2, <3>1, NumberType
  <2>3. Len(rows[c]) \in Nat
    BY <1>2
  <2>4. Len(rows[c]) + NumberOf(queue, Task("row", c, c)) + NumberOf(inbound, Message("row", c))
        = Len(rows[c])
    BY <2>1, <2>2, <2>3
  <2> QED  BY <1>13, <2>4 DEF RowsOf
<1>15. fields[c] = c <=> Occurrences("description", c) > 0
  <2>1. ~ Holds(queue, Task("description", c, c))
    BY <1>9, <1>10
  <2> QED  BY <1>11, <1>13, <2>1 DEF Described
<1>16. fields[c] = IF Occurrences("description", c) > 0 THEN c ELSE 0
  BY <1>2, <1>13, <1>15
<1> DEFINE a == Result(c, t.of)
<1>17. a.type = "success" /\ a.of = c /\ a.fields = fields[c] /\ a.rows = rows[c]
  BY <1>4 DEF Result
<1>18. \A i \in DOMAIN rows[c] : rows[c][i] = c
  <2>1. DOMAIN rows[c] = 1 .. Len(rows[c])
    BY <1>2
  <2> QED  BY <1>13, <2>1
<1> HIDE DEF a
<1>19. OwnOutcome(c, a)
  BY <1>5, <1>14, <1>16, <1>17, <1>18 DEF OwnOutcome, OwnAnswer
<1>20. Readable(t.type, c, t.of)
  BY <1>4, <1>14 DEF Readable
<1> QED  BY <1>19, <1>20 DEF a

LEMMA ConcludesExec ==
  ASSUME Inv, Matches, Observes, NEW t, t = Head(queue), NEW c, c = t.id, Concluded(t, c),
         IsExec(c), Sole(c)
  PROVE  Heard(c)'
<1>1. /\ c \in Requests /\ ~ Waits(c) /\ MayHear(t.type, c) /\ t \in TaskRecords
      /\ reply' = reply /\ request' = request
      /\ t.type \in Replied => Said(t.of, Cause(t.type))
  BY ObservesFacts DEF Matches
<1>2. Common /\ Follows(c) /\ Heard(c)
  BY <1>1 DEF Matches, Follows, Answered
<1>3. ~ IsPrepare(c)
  BY <1>1, CalledBefore
<1>4. Silent(c)' <=> Silent(c)
  BY <1>1 DEF Silent, Said, Kind
<1>5. Stays
  BY <1>2, ObservesProceed, ProceedsStays
<1>6. PICK a \in AnswerRecords : a = AnswerOf(t, c) /\ Conclude(c, a)
  BY DEF Concluded
<1>7. answers[c] \in Seq(AnswerRecords)
  BY <1>1, Basics
<1>8. /\ c \in listening => answers'[c] = Append(answers[c], a)
      /\ c \notin listening => answers'[c] = answers[c]
      /\ c \notin listening'
  BY <1>1, <1>3, <1>6, TellsOwn
<1>9. CASE c \notin listening
  <2>1. ASSUME ~ Silent(c)
        PROVE  \A i \in 1 .. Len(answers'[c]) : OwnOutcome(c, answers[c][i])'
    <3>1. SUFFICES ASSUME NEW i \in 1 .. Len(answers'[c])
                   PROVE  OwnOutcome(c, answers[c][i])'
      OBVIOUS
    <3>2. PICK b \in AnswerRecords : b = answers[c][i] /\ OwnOutcome(c, b)
      BY <1>2, <1>7, <1>8, <1>9, <2>1 DEF Heard
    <3>3. OwnOutcome(c, b)'
      BY <1>1, <1>5, <3>2, AnswerStays
    <3>4. answers'[c][i] = b
      BY <1>8, <1>9, <3>2
    <3> QED  BY <3>3, <3>4
  <2>2. ~ Silent(c) => Len(answers[c]) <= 1
    BY <1>2 DEF Heard
  <2> QED  BY <1>4, <1>8, <1>9, <2>1, <2>2 DEF Heard
<1>10. CASE c \in listening
  <2>1. Running(c) /\ answers[c] = <<>>
    BY <1>1, <1>2, <1>10 DEF Heard
  <2>2. Len(answers'[c]) = 1 /\ answers'[c][1] = a
    <3>1. Len(Append(<<>>, a)) = 1 /\ Append(<<>>, a)[1] = a
      OBVIOUS
    <3> QED  BY <1>8, <1>10, <2>1, <3>1
  <2>3. ASSUME ~ Silent(c)
        PROVE  OwnOutcome(c, a)
    <3>1. Owns(c)
      BY <2>1, <2>3 DEF Owns
    <3>2. CASE t.type = "complete"
      <4>1. OwnOutcome(c, Result(c, t.of)) /\ Readable(t.type, c, t.of)
        BY <3>1, <3>2, ResultWhole
      <4>2. a = Result(c, t.of)
        BY <1>6, <3>2, <4>1 DEF AnswerOf
      <4> QED  BY <4>1, <4>2
    <3>6. CASE t.type = "uncounted"
      <4>1. a = Answer("unreadable", t.of)
        BY <1>6, <3>6 DEF AnswerOf, Readable
      <4>2. t.type \in Replied
        BY <3>6 DEF Replied
      <4>3. t.of = c
        BY <1>2, <3>1, <4>2, OwnTask
      <4>4. Said(c, {"uncounted"})
        BY <1>1, <3>6, <4>2, <4>3 DEF Cause
      <4>5. a.type = "unreadable" /\ a.of = c
        BY <4>1, <4>3 DEF Answer
      <4> QED  BY <4>4, <4>5 DEF OwnOutcome, OwnAnswer
    <3>3. CASE t.type = "error"
      <4>1. a = Answer("failure", t.of)
        BY <1>6, <3>3 DEF AnswerOf
      <4>2. t.type \in Replied
        BY <3>3 DEF Replied
      <4>3. t.of = c
        BY <1>2, <3>1, <4>2, OwnTask
      <4>4. Said(c, {"error", "fatal"})
        BY <1>1, <3>3, <4>2, <4>3 DEF Cause
      <4>5. a.type = "failure" /\ a.of = c
        BY <4>1, <4>3 DEF Answer
      <4> QED  BY <4>4, <4>5 DEF OwnOutcome, OwnAnswer
    <3>4. CASE t.type = "closed"
      <4>1. a = Answer("connectionLost", 0)
        BY <1>6, <3>4 DEF AnswerOf
      <4>2. a.type = "connectionLost"
        BY <4>1 DEF Answer
      <4> QED  BY <4>2 DEF OwnOutcome, OwnAnswer
    <3>5. t.type # "parseComplete"
      BY <1>1, <1>3 DEF MayHear
    <3> QED  BY <3>2, <3>3, <3>4, <3>5, <3>6 DEF Concluded
  <2>4. ~ Silent(c) => OwnOutcome(c, a)'
    BY <1>1, <1>5, <2>3, AnswerStays
  <2>5. ~ Silent(c)' => Len(answers'[c]) <= 1
    BY <2>2
  <2>6. ~ Silent(c)' => \A i \in 1 .. Len(answers'[c]) : OwnOutcome(c, a)' /\ answers'[c][i] = a
    BY <1>4, <2>2, <2>4
  <2>7. ~ Silent(c)' => \A i \in 1 .. Len(answers'[c]) : OwnOutcome(c, answers[c][i])'
    BY <2>6
  <2> QED  BY <1>8, <2>5, <2>7 DEF Heard
<1> QED  BY <1>9, <1>10

LEMMA ConcludesPrepare ==
  ASSUME Inv, Matches, Observes, NEW t, t = Head(queue), NEW c, c = t.id, Concluded(t, c),
         IsPrepare(c)
  PROVE  Prepared(c)'
<1>1. /\ queue # <<>> /\ queue' = Tail(queue)
      /\ c \in Requests /\ ~ Waits(c) /\ (Waits(c)' <=> Waits(c)) /\ MayHear(t.type, c)
      /\ reply' = reply /\ request' = request
      /\ t \in TaskRecords
      /\ t.type \in Replied => Said(t.of, Cause(t.type)) /\ t.of >= c
  BY ObservesFacts DEF Matches
<1>2. Common /\ Follows(c) /\ Prepared(c)
  BY <1>1 DEF Matches, Follows, Answered
<1>3. ~ IsExec(c) /\ c \in Nat /\ c # 0 /\ queue \in Seq(TaskRecords)
  BY <1>1, CalledBefore, Basics
<1>4. t.type \in {"parseComplete", "error"} /\ t.type \in Replied
  BY <1>1, <1>3 DEF MayHear, Concluded, Replied
<1>5. Stays
  BY <1>2, ObservesProceed, ProceedsStays
<1>6. PICK a \in AnswerRecords : a = AnswerOf(t, c) /\ Conclude(c, a)
  BY DEF Concluded
<1>7. answers[c] \in Seq(AnswerRecords) /\ answers'[c] = Append(answers[c], a)
  BY <1>1, <1>6, Basics, TellsOwn
<1>8. /\ Len(answers'[c]) = Len(answers[c]) + 1 /\ Len(answers[c]) \in Nat
      /\ \A i \in 1 .. Len(answers[c]) : answers'[c][i] = answers[c][i]
      /\ answers'[c][Len(answers[c]) + 1] = a
  BY <1>7, AppendFacts
<1>9. ~ Running(c)'
  BY DEF Concluded, Forget, Running
<1>10. \A i \in 1 .. Len(queue') : i + 1 \in 1 .. Len(queue) /\ queue'[i] = queue[i + 1]
  BY <1>1, DequeueFacts
<1>11. t = queue[1] /\ 1 \in 1 .. Len(queue)
  BY <1>1, DequeueFacts
<1>12. Running(c) => Owns(c)
  BY <1>1 DEF Owns, Sole, Matches, Common, Asking
<1>13. Running(c) => t.of = c
  BY <1>2, <1>4, <1>12, OwnTask
<1>14. ~ Running(c) => t.of > c /\ answers[c] # <<>>
  BY <1>2, <1>4, <1>11 DEF Prepared
<1>15. PreparedAnswer(c, Len(answers[c]) + 1, a)
  <2>1. IF Len(answers[c]) + 1 = 1 THEN t.of = c ELSE t.of > c
    <3>1. CASE Running(c)
      <4>1. Len(answers[c]) = 0
        BY <1>2, <3>1 DEF Prepared
      <4> QED  BY <1>13, <3>1, <4>1
    <3>2. CASE ~ Running(c)
      <4>1. Len(answers[c]) # 0
        BY <1>7, <1>14, <3>2
      <4> QED  BY <1>8, <1>14, <3>2, <4>1
    <3> QED  BY <3>1, <3>2
  <2>2. CASE t.type = "parseComplete"
    <3>1. a.type = "prepared" /\ a.of = t.of
      BY <1>6, <2>2 DEF AnswerOf, Answer
    <3>2. Said(t.of, {"parseComplete"})
      BY <1>1, <1>4, <2>2 DEF Cause
    <3> QED  BY <2>1, <3>1, <3>2 DEF PreparedAnswer
  <2>3. CASE t.type = "error"
    <3>1. a.type = "failure" /\ a.of = t.of
      BY <1>6, <2>3 DEF AnswerOf, Answer
    <3>2. Said(t.of, {"error", "fatal"})
      BY <1>1, <1>4, <2>3 DEF Cause
    <3> QED  BY <2>1, <3>1, <3>2 DEF PreparedAnswer
  <2> QED  BY <1>4, <2>2, <2>3
<1>16. \A i \in 1 .. Len(answers'[c]) : PreparedAnswer(c, i, answers[c][i])'
  <2>1. SUFFICES ASSUME NEW i \in 1 .. Len(answers'[c])
                 PROVE  PreparedAnswer(c, i, answers[c][i])'
    OBVIOUS
  <2>2. CASE i \in 1 .. Len(answers[c])
    <3>1. PICK b \in AnswerRecords : b = answers[c][i] /\ PreparedAnswer(c, i, b)
      BY <1>2, <1>7, <2>2 DEF Prepared
    <3>2. PreparedAnswer(c, i, b)'
      BY <1>1, <1>5, <3>1, AnswerStays
    <3>3. answers'[c][i] = b
      BY <1>8, <2>2, <3>1
    <3> QED  BY <3>2, <3>3
  <2>3. CASE i = Len(answers[c]) + 1
    <3>1. PICK n \in Nat : n = Len(answers[c]) + 1 /\ i = n
      BY <1>8, <2>3
    <3>2. PreparedAnswer(c, n, a)'
      BY <1>1, <1>5, <1>15, <3>1, AnswerStays
    <3>3. answers'[c][i] = a
      BY <1>8, <2>3
    <3> QED  BY <3>1, <3>2, <3>3
  <2> QED  BY <1>8, <2>2, <2>3
<1>17. ASSUME NEW i \in 1 .. Len(queue'), queue'[i].type \in Replied, queue'[i].id = c
       PROVE  queue'[i].of > c
  <2>1. /\ i + 1 \in 1 .. Len(queue) /\ queue[i + 1] = queue'[i]
        /\ queue[i + 1].type \in Replied /\ queue[i + 1].id = c
    BY <1>10, <1>17
  <2>2. CASE ~ Running(c)
    BY <1>2, <2>1, <2>2 DEF Prepared
  <2>3. CASE Running(c)
    <3>1. EndsOf(Kind(c)) = {"parseComplete", "error"}
      BY DEF IsPrepare, EndsOf
    <3>2. Ends(Head(queue), Kind(c), c)
      BY <1>4, <1>13, <2>3, <3>1 DEF Ends
    <3>3. queue'[i].of = c => queue'[i].type \notin {"parseComplete", "error", "description", "row"}
      BY <1>1, <1>2, <1>3, <1>17, <3>1, <3>2, SiftHead DEF Follows, Final
    <3>4. queue[i + 1].type \in Observable /\ queue[i + 1].type \notin {"complete", "uncounted"}
      <4>1. queue[i + 1].type \in Observable
        BY <2>1 DEF Replied, Observable, Events
      <4>2. MayHear(queue[i + 1].type, c)
        BY <1>2, <1>3, <2>1, <4>1 DEF Common, Roles
      <4> QED  BY <1>3, <4>1, <4>2 DEF MayHear
    <3>5. queue'[i].of # c
      BY <1>17, <2>1, <3>3, <3>4 DEF Replied
    <3>6. queue[i + 1].of >= c /\ queue[i + 1].of \in 0 .. MaxRequests
      BY <1>2, <1>3, <2>1, Basics DEF Common, Sequel
    <3> QED  BY <1>3, <2>1, <3>5, <3>6, Basics
  <2> QED  BY <2>2, <2>3
<1>18. answers'[c] # <<>>
  <2>1. Len(answers'[c]) # 0
    BY <1>8
  <2> QED  BY <2>1
<1>19. ~ (Waits(c)' \/ Running(c)')
  BY <1>1, <1>9
<1>20. \A i \in 1 .. Len(queue') : queue'[i].type \in Replied /\ queue'[i].id = c =>
         queue'[i].of > c /\ answers'[c] # <<>>
  BY <1>17, <1>18
<1> QED  BY <1>16, <1>19, <1>20 DEF Prepared

LEMMA ConcludesFollow ==
  ASSUME Inv, Matches, Observes, NEW t, t = Head(queue), NEW c, c = t.id, Concluded(t, c)
  PROVE  Follows(c)'
<1>1. /\ queue # <<>> /\ queue' = Tail(queue)
      /\ UNCHANGED <<called, request, inbound>>
      /\ c \in Requests /\ c <= called /\ ~ Waits(c) /\ (Waits(c)' <=> Waits(c))
  BY ObservesFacts DEF Matches
<1>2. Common /\ Follows(c) /\ queue \in Seq(TaskRecords)
  BY <1>1, Basics DEF Matches
<1>3. ~ Running(c)'
  BY DEF Concluded, Forget, Running
<1>4. ~ Owns(c)'
  BY <1>3 DEF Owns
<1>5. Kind(c)' = Kind(c) /\ (IsExec(c)' <=> IsExec(c)) /\ (IsPrepare(c)' <=> IsPrepare(c))
      /\ (Sole(c)' <=> Sole(c))
  BY <1>1 DEF Kind, IsExec, IsPrepare, Sole, Shared
<1>6. Exclusive(c)' /\ Whole(c)' /\ Describable(c)'
  BY <1>4 DEF Exclusive, Whole, Describable
<1>7. Fresh(c)'
  <2>1. ~ (c > called')
    BY <1>1, Basics
  <2> QED  BY <1>1, <1>4, <2>1 DEF Fresh
<1>8. Final(c)'
  <2>1. EndsLast(queue', Kind(c), c)
    BY <1>1, <1>2, SiftTail DEF Follows, Final
  <2>2. Ended(queue', Kind(c), c) => Ended(queue, Kind(c), c)
    BY <1>1, <1>2, SiftTail
  <2> QED  BY <1>1, <1>2, <1>5, <2>1, <2>2 DEF Follows, Final
<1>9. Answered(c)'
  BY <1>5, ConcludesExec, ConcludesPrepare DEF Answered
<1> QED  BY <1>6, <1>7, <1>8, <1>9 DEF Follows

LEMMA ObservesMatches ==
  ASSUME Inv, Inv', Matches, Observes
  PROVE  Matches'
<1>0. PICK t, c : t = Head(queue) /\ c = t.id
  OBVIOUS
<1>1. Proceeds
  BY ObservesProceed DEF Matches
<1>2. Common'
  BY <1>1, CommonOn DEF Matches
<1>3. ASSUME NEW r \in Requests
      PROVE  Follows(r)'
  <2>1. CASE r # c
    <3>1. Aside(r)
      BY <1>0, <2>1, ObservesAside DEF Matches
    <3> QED  BY <1>1, <3>1, ProceedsStays, FollowsOn DEF Matches
  <2>2. CASE r = c
    <3>1. Gathered(t, c) \/ Concluded(t, c)
      BY <1>0, ObservesFacts DEF Matches
    <3> QED  BY <1>0, <2>2, <3>1, GathersFollow, ConcludesFollow
  <2> QED  BY <2>1, <2>2
<1> QED  BY <1>2, <1>3 DEF Matches

-----------------------------------------------------------------------------
(***************************************************************************)
(* The invariant holds.                                                    *)
(***************************************************************************)
LEMMA InitMatches == Init => Matches
<1> SUFFICES ASSUME Init
             PROVE  Matches
  OBVIOUS
<1>1. /\ called = 0 /\ listening = {}
      /\ request = [r \in Requests |-> [kind |-> "none", query |-> 0, statement |-> None]]
      /\ answers = [r \in Requests |-> <<>>]
      /\ queue = <<>> /\ queryQueue = <<>> /\ inbound = <<>> /\ toServer = <<>>
      /\ observers = [e \in Events |-> {}]
      /\ fields = [r \in Requests |-> 0] /\ rows = [r \in Requests |-> <<>>]
      /\ reply = [r \in 0 .. MaxRequests |-> <<>>]
  BY DEF Init
<1>2. Len(queue) = 0 /\ Len(queryQueue) = 0 /\ Len(inbound) = 0 /\ Len(toServer) = 0
  BY <1>1
<1>3. \A r \in Requests : ~ IsExec(r) /\ ~ IsPrepare(r) /\ ~ Silent(r)
  <2>1. \A r \in Requests : request[r].kind = "none" /\ reply[r] = <<>>
    BY <1>1, Constants
  <2> QED  BY <2>1 DEF IsExec, ExecKinds, IsPrepare, Kind, Silent
<1>4. \A r : ~ Running(r)
  BY <1>1 DEF Running
<1>5. Asking
  BY <1>2, <1>3 DEF Asking
<1>6. Sourced
  BY <1>2 DEF Sourced
<1>7. Roles
  BY <1>1, <1>2, <1>3 DEF Roles
<1>8. Sequel
  BY <1>2, <1>4 DEF Sequel
<1>9. Replying
  BY <1>2 DEF Replying
<1>10. ASSUME NEW r \in Requests
       PROVE  Follows(r)
  <2>1. ~ Owns(r)
    BY <1>4 DEF Owns
  <2>2. Exclusive(r) /\ Whole(r) /\ Describable(r)
    BY <2>1 DEF Exclusive, Whole, Describable
  <2>3. Final(r)
    BY <1>2 DEF Final, EndsLast
  <2>4. rows[r] = <<>> /\ fields[r] = 0
    BY <1>1
  <2>5. Fresh(r) /\ Answered(r)
    BY <1>3, <2>4 DEF Fresh, Answered
  <2> QED  BY <2>2, <2>3, <2>5 DEF Follows
<1> QED  BY <1>5, <1>6, <1>7, <1>8, <1>9, <1>10 DEF Matches, Common

LEMMA StepMatches == Inv /\ Inv' /\ Matches /\ [Next]_vars => Matches'
<1> SUFFICES ASSUME Inv, Inv', Matches, [Next]_vars
             PROVE  Matches'
  OBVIOUS
<1>1. CASE Program
  <2>1. ASSUME NEW r \in Requests, Exec(r) \/ Prepare(r)
        PROVE  Matches'
    BY <2>1, CallEffect, CallsMatches
  <2> QED  BY <1>1, <2>1, ProgramMatches DEF Program
<1>2. CASE Socket
  BY <1>2, SocketEffect, LosesMatches, ReportsMatches
<1>3. CASE Serve
  BY <1>3, ServesMatches
<1>4. CASE Process
  BY <1>4, ProcessesMatches
<1>5. CASE RunOperation \/ RunReady
  <2>1. PICK ops \in Seq(Requests) : Executed(ops)
    BY <1>5, ExecuteEffect
  <2>2. CASE Rests(ops)
    BY <2>1, <2>2, RestsMatches
  <2>3. CASE Begins(ops)
    BY <2>1, <2>3, SkipsMatches, SendsMatches DEF Begins
  <2> QED  BY <2>1, <2>2, <2>3 DEF Executed
<1>6. CASE Observes
  BY <1>6, ObservesMatches
<1>7. CASE RunError \/ RunClosed \/ RunCleartextPassword
  BY <1>7, StartupRunsMatches
<1>8. CASE RunTask
  BY <1>5, <1>6, <1>7, <1>8 DEF RunTask, Observes
<1>9. CASE UNCHANGED vars
  BY <1>9, ProgramMatches
<1> QED  BY <1>1, <1>2, <1>3, <1>4, <1>8, <1>9 DEF Next

LEMMA MatchesHolds == Spec => [](Inv /\ Matches)
<1>1. Init => Inv /\ Matches
  BY InitInv, InitMatches
<1>2. Inv /\ Matches /\ [Next]_vars => (Inv /\ Matches)'
  BY StepKeeps, StepMatches
<1> QED  BY <1>1, <1>2, PTL DEF Spec

\* What is said of a request whose Query no other exec runs, and whose reply the
\* client recognises, whoever else shares a Query and whatever else is replied.
Unmistaken(r) ==
  /\ IsExec(r) => /\ Len(answers[r]) <= 1
                  /\ \A i \in DOMAIN answers[r] :
                       /\ answers[r][i].type \in {"success", "unreadable", "failure"} =>
                            answers[r][i].of = r
                       /\ OwnAnswer(r, answers[r][i])
  /\ IsPrepare(r) => \A i \in DOMAIN answers[r] : PreparedAnswer(r, i, answers[r][i])

LEMMA AnsweredUnmistaken ==
  ASSUME Inv, NEW r \in Requests, Answered(r), IsExec(r) => ~ Shared(r) /\ ~ Silent(r)
  PROVE  Unmistaken(r)
<1>1. answers[r] \in Seq(AnswerRecords)
  BY Basics
<1>2. DOMAIN answers[r] = 1 .. Len(answers[r])
  BY <1>1
<1>3. ASSUME IsExec(r)
      PROVE  /\ Len(answers[r]) <= 1
             /\ \A i \in DOMAIN answers[r] : OwnOutcome(r, answers[r][i])
  BY <1>2, <1>3 DEF Answered, Sole, Heard
<1>4. IsPrepare(r) => \A i \in DOMAIN answers[r] : PreparedAnswer(r, i, answers[r][i])
  BY <1>2 DEF Answered, Prepared
<1> QED  BY <1>3, <1>4 DEF Unmistaken, OwnOutcome

(* Whatever the others do (share a Query among them, get replies that the  *)
(* client does not recognise), the callback of an exec that shares its     *)
(* Query with no other is called at most once and is told its own outcome, *)
(* whole, unless it is its own reply that is not recognised, and the       *)
(* callback of prepare is told its own outcome first (executeQuery, exec,  *)
(* prepare).  The outcomes are those of exec's observers, the catch around *)
(* QueryResult included: an exec is told a failure only if the server sent *)
(* an error for it, and that its command is invalid only if it completed   *)
(* with a tag that QueryResult does not read; that a row is missing it is  *)
(* never told.                                                             *)
THEOREM ClientUnsharedAnswers ==
  Spec => [](\A r \in Requests : (IsExec(r) => ~ Shared(r) /\ ~ Silent(r)) => Unmistaken(r))
<1>1. Inv /\ Matches =>
        \A r \in Requests : (IsExec(r) => ~ Shared(r) /\ ~ Silent(r)) => Unmistaken(r)
  BY AnsweredUnmistaken DEF Matches, Follows
<1> QED  BY <1>1, MatchesHolds, PTL

(* Each callback is told an outcome of its own request, whole: where every *)
(* exec has a Query of its own and the server sends no EmptyQueryResponse. *)
(* Both are needed: callers that share a Query are told of one another's   *)
(* outcome, and after an EmptyQueryResponse, which the client does not     *)
(* recognise, an exec is told the next one's.  The outcome of a command    *)
(* that completed with a tag QueryResult does not read (BEGIN, SET) is that*)
(* it is invalid: the server's success is told as an error.                *)
THEOREM ClientOwnAnswers ==
  ~ ShareQueries /\ "empty" \notin Replies => (Spec => []OwnAnswers)
<1> SUFFICES ASSUME ~ ShareQueries /\ "empty" \notin Replies
             PROVE  Spec => []OwnAnswers
  OBVIOUS
<1>1. Inv /\ Matches => OwnAnswers
  <2> SUFFICES ASSUME Inv, Matches
               PROVE  OwnAnswers
    OBVIOUS
  <2>1. ASSUME NEW r \in Requests
        PROVE  Unmistaken(r)
    <3>1. IsExec(r) => ~ Shared(r) /\ ~ Silent(r)
      BY DEF Matches, Common, Asking, Shared
    <3> QED  BY <3>1, AnsweredUnmistaken DEF Matches, Follows
  <2> QED  BY <2>1 DEF OwnAnswers, Unmistaken, IsPrepare, Kind
<1> QED  BY <1>1, MatchesHolds, PTL

=============================================================================
