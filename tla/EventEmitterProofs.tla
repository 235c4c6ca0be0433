------------------------- MODULE EventEmitterProofs -------------------------
(***************************************************************************)
(* Theorems about EventEmitter, for any observers and threads and any      *)
(* number of events, with their proofs.                                    *)
(***************************************************************************)
EXTENDS EventEmitter, Integers, TLAPS

(***************************************************************************)
(* Sequences: what an element added, taken or removed leaves.              *)
(***************************************************************************)
LEMMA Added ==
  ASSUME NEW S, NEW s \in Seq(S), NEW e \in S
  PROVE  /\ Append(s, e) \in Seq(S)
         /\ Len(Append(s, e)) = Len(s) + 1
         /\ \A i \in 1 .. Len(s) : Append(s, e)[i] = s[i]
         /\ Append(s, e)[Len(s) + 1] = e
  OBVIOUS

LEMMA Shifted ==
  ASSUME NEW S, NEW s \in Seq(S), s # <<>>
  PROVE  /\ Head(s) = s[1] /\ Head(s) \in S
         /\ Tail(s) \in Seq(S)
         /\ Len(s) \in Nat \ {0} /\ Len(Tail(s)) = Len(s) - 1
         /\ \A i \in 1 .. Len(Tail(s)) : Tail(s)[i] = s[i + 1]
  OBVIOUS

LEMMA Without ==
  ASSUME NEW S, NEW s \in Seq(S), NEW i \in 1 .. Len(s)
  PROVE  /\ Omit(s, i) \in Seq(S) /\ Len(Omit(s, i)) = Len(s) - 1
         /\ \A k \in 1 .. Len(Omit(s, i)) :
              Omit(s, i)[k] = s[IF k < i THEN k ELSE k + 1]
  BY DEF Omit

LEMMA BlockTypes ==
  /\ \A o \in Observers : Block("observe", o) \in Blocks /\ Block("remove", o) \in Blocks
  /\ \A e \in Events : Block("emit", e) \in Blocks
  /\ \A b \in Blocks : /\ b.type \in {"observe", "remove", "emit"}
                       /\ b.type # "emit" => b.arg \in Observers
                       /\ b.type = "emit" => b.arg \in Events
  BY DEF Block, Blocks

LEMMA ElementsAreBlocks ==
  ASSUME NEW q \in Seq(Blocks), NEW i \in 1 .. Len(q)
  PROVE  q[i] \in Blocks
  OBVIOUS

-----------------------------------------------------------------------------
(***************************************************************************)
(* The inductive invariant.  The emitter's queue `q' is a parameter of     *)
(* what is said of it, since one step may add two blocks.                  *)
(***************************************************************************)
Is(q, i, type, arg) == i \in 1 .. Len(q) /\ q[i].type = type /\ q[i].arg = arg

IsEmit(q, i) == i \in 1 .. Len(q) /\ q[i].type = "emit"

\* An observer is registered once, and removed behind that.
Registered(q, obs, kn) ==
  /\ \A i \in 1 .. Len(q) : q[i].type # "emit" => q[i].arg \in kn
  /\ \A k \in 1 .. Len(obs) : obs[k] \in kn
  /\ \A k, l \in 1 .. Len(obs) : obs[k] = obs[l] => k = l
  /\ \A k \in 1 .. Len(obs), i \in 1 .. Len(q) : ~ Is(q, i, "observe", obs[k])
  /\ \A o \in Observers : \A i, j \in 1 .. Len(q) :
       Is(q, i, "observe", o) /\ Is(q, j, "observe", o) => i = j
  /\ \A o \in Observers : \A i, j \in 1 .. Len(q) :
       Is(q, i, "observe", o) /\ Is(q, j, "remove", o) => i < j

\* Events are emitted in their order, behind the one being emitted.
Ordered(q, ev, em) ==
  /\ ev <= em
  /\ \A i \in 1 .. Len(q) : IsEmit(q, i) => ev < q[i].arg /\ q[i].arg <= em
  /\ \A i, j \in 1 .. Len(q) : i < j /\ IsEmit(q, i) /\ IsEmit(q, j) => q[i].arg < q[j].arg

\* Whom the n-th block would find in the list.
Finds(q, obs, n, o) ==
  /\ \/ \E k \in 1 .. Len(obs) : obs[k] = o
     \/ \E i \in 1 .. n - 1 : Is(q, i, "observe", o)
  /\ \A i \in 1 .. n - 1 : ~ Is(q, i, "remove", o)

\* An emit's block finds the audience its caller had, and so would a new one.
Reaching(q, obs, kn, rm, aud) ==
  /\ \A i \in 1 .. Len(q) : IsEmit(q, i) =>
       \A o \in Observers : o \in aud[q[i].arg] <=> Finds(q, obs, i, o)
  /\ \A o \in Observers : o \in kn \ rm <=> Finds(q, obs, Len(q) + 1, o)

\* Someone waits for every emit.
Awaited(q, ev, wt) ==
  /\ \A i \in 1 .. Len(q) : IsEmit(q, i) => \E c \in Callers : wt[c] = q[i].arg
  /\ ev # 0 => \E c \in Callers : wt[c] = ev

LEMMA SameBefore ==
  ASSUME NEW q, NEW r, NEW obs, NEW n \in Nat, NEW o,
         \A j \in 1 .. n - 1 : j \in 1 .. Len(q) /\ j \in 1 .. Len(r) /\ r[j] = q[j]
  PROVE  Finds(r, obs, n, o) <=> Finds(q, obs, n, o)
<1>1. (\E j \in 1 .. n - 1 : Is(r, j, "observe", o))
        <=> (\E j \in 1 .. n - 1 : Is(q, j, "observe", o))
  BY DEF Is
<1>2. (\A j \in 1 .. n - 1 : ~ Is(r, j, "remove", o))
        <=> (\A j \in 1 .. n - 1 : ~ Is(q, j, "remove", o))
  BY DEF Is
<1> QED  BY <1>1, <1>2, Zenon DEF Finds

(***************************************************************************)
(* A block added to the queue.                                             *)
(***************************************************************************)
LEMMA RegisteredAdded ==
  ASSUME NEW q \in Seq(Blocks), NEW obs \in Seq(Observers), NEW kn, NEW b \in Blocks,
         NEW kn2, kn \subseteq kn2,
         Registered(q, obs, kn), b.type # "emit" => b.arg \in kn2,
         b.type = "observe" => b.arg \notin kn
  PROVE  Registered(Append(q, b), obs, kn2)
<1> DEFINE r == Append(q, b)
<1>1. /\ r \in Seq(Blocks) /\ Len(r) = Len(q) + 1 /\ Len(q) \in Nat
      /\ \A i \in 1 .. Len(q) : r[i] = q[i]
      /\ r[Len(q) + 1] = b
  BY Added
<1> HIDE DEF r
<1> SUFFICES Registered(r, obs, kn2)
  BY DEF r
<1>2. \A i \in 1 .. Len(r) : i \in 1 .. Len(q) \/ i = Len(q) + 1
  BY <1>1
<1>3. \A i \in 1 .. Len(r) : r[i].type # "emit" => r[i].arg \in kn2
  BY <1>1, <1>2 DEF Registered
<1>4. /\ \A k \in 1 .. Len(obs) : obs[k] \in kn2
      /\ \A k, l \in 1 .. Len(obs) : obs[k] = obs[l] => k = l
  BY DEF Registered
<1>5. \A k \in 1 .. Len(obs), i \in 1 .. Len(r) : ~ Is(r, i, "observe", obs[k])
  BY <1>1, <1>2 DEF Registered, Is
<1>6. \A o \in Observers : \A i, j \in 1 .. Len(r) :
       Is(r, i, "observe", o) /\ Is(r, j, "observe", o) => i = j
  BY <1>1, <1>2 DEF Registered, Is
<1>7. \A o \in Observers : \A i, j \in 1 .. Len(r) :
       Is(r, i, "observe", o) /\ Is(r, j, "remove", o) => i < j
  BY <1>1, <1>2 DEF Registered, Is
<1> QED  BY <1>3, <1>4, <1>5, <1>6, <1>7 DEF Registered

LEMMA ReachingAdded ==
  ASSUME NEW q \in Seq(Blocks), NEW obs \in Seq(Observers), NEW kn, NEW rm, NEW aud,
         NEW b \in Blocks, NEW kn2, NEW rm2,
         Reaching(q, obs, kn, rm, aud), Registered(q, obs, kn),
         \/ \E o \in Observers : /\ b = Block("observe", o) /\ o \notin kn \cup rm
                               /\ kn2 = kn \cup {o} /\ rm2 = rm
         \/ \E o \in Observers : /\ b = Block("remove", o)
                               /\ kn2 = kn /\ rm2 = rm \cup {o}
  PROVE  Reaching(Append(q, b), obs, kn2, rm2, aud)
<1> DEFINE r == Append(q, b)
<1>1. /\ r \in Seq(Blocks) /\ Len(r) = Len(q) + 1 /\ Len(q) \in Nat
      /\ \A i \in 1 .. Len(q) : r[i] = q[i]
      /\ r[Len(q) + 1] = b
  BY Added
<1> HIDE DEF r
<1> SUFFICES Reaching(r, obs, kn2, rm2, aud)
  BY DEF r
<1>2. ASSUME NEW i \in 1 .. Len(q) + 1, NEW o \in Observers
      PROVE  Finds(r, obs, i, o) <=> Finds(q, obs, i, o)
  <2>1. \A j \in 1 .. i - 1 : j \in 1 .. Len(q) /\ j \in 1 .. Len(r) /\ r[j] = q[j]
    BY <1>1
  <2> QED  BY <2>1, SameBefore
<1>3. ASSUME NEW i \in 1 .. Len(r), IsEmit(r, i), NEW o \in Observers
      PROVE  o \in aud[r[i].arg] <=> Finds(r, obs, i, o)
  <2>1. i \in 1 .. Len(q) /\ IsEmit(q, i) /\ r[i] = q[i]
    BY <1>1, <1>3 DEF IsEmit, Block
  <2> QED  BY <2>1, <1>2 DEF Reaching
<1>4. ASSUME NEW o \in Observers
      PROVE  o \in kn2 \ rm2 <=> Finds(r, obs, Len(r) + 1, o)
  <2>1. o \in kn \ rm <=> Finds(r, obs, Len(q) + 1, o)
    BY <1>1, <1>2 DEF Reaching
  <2>2. CASE b = Block("observe", o)
    <3>1. o \in kn2 \ rm2 /\ o \notin kn
      BY <2>2 DEF Block
    <3>2. \A i \in 1 .. Len(q) + 1 : ~ Is(r, i, "remove", o)
      BY <1>1, <2>2, <3>1 DEF Registered, Is, Block
    <3>3. Is(r, Len(q) + 1, "observe", o)
      BY <1>1, <2>2 DEF Is, Block
    <3> QED  BY <1>1, <3>1, <3>2, <3>3 DEF Finds
  <2>3. CASE b = Block("remove", o)
    <3>1. o \notin kn2 \ rm2
      BY <2>3 DEF Block
    <3>2. Is(r, Len(q) + 1, "remove", o)
      BY <1>1, <2>3 DEF Is, Block
    <3> QED  BY <1>1, <3>1, <3>2 DEF Finds
  <2>4. CASE b # Block("observe", o) /\ b # Block("remove", o)
    <3>1. o \in kn2 \ rm2 <=> o \in kn \ rm
      BY <2>4
    <3>2. ~ Is(r, Len(q) + 1, "observe", o) /\ ~ Is(r, Len(q) + 1, "remove", o)
      BY <1>1, <2>4 DEF Is, Block, Blocks
    <3>3. Finds(r, obs, Len(r) + 1, o) <=> Finds(r, obs, Len(q) + 1, o)
      BY <1>1, <3>2 DEF Finds
    <3> QED  BY <2>1, <3>1, <3>3
  <2> QED  BY <2>2, <2>3, <2>4
<1> QED  BY <1>3, <1>4 DEF Reaching

LEMMA EmitAdded ==
  ASSUME NEW q \in Seq(Blocks), NEW obs \in Seq(Observers), NEW kn, NEW rm, NEW aud,
         NEW ev \in 0 .. MaxEvents, NEW em \in 0 .. MaxEvents - 1,
         aud \in [Events -> SUBSET Observers], kn \subseteq Observers,
         Registered(q, obs, kn), Ordered(q, ev, em), Reaching(q, obs, kn, rm, aud)
  PROVE  /\ Append(q, Block("emit", em + 1)) \in Seq(Blocks)
         /\ Registered(Append(q, Block("emit", em + 1)), obs, kn)
         /\ Ordered(Append(q, Block("emit", em + 1)), ev, em + 1)
         /\ Reaching(Append(q, Block("emit", em + 1)), obs, kn, rm,
                     [aud EXCEPT ![em + 1] = kn \ rm])
<1> DEFINE b == Block("emit", em + 1)
           r == Append(q, b)
           aud2 == [aud EXCEPT ![em + 1] = kn \ rm]
<1>1. em \in Nat /\ ev \in Nat /\ em + 1 \in Events
  BY EmitterAssumption DEF Events
<1>2. b \in Blocks /\ b.type = "emit" /\ b.arg = em + 1
  BY <1>1, BlockTypes DEF Block
<1> HIDE DEF b
<1>3. /\ r \in Seq(Blocks) /\ Len(r) = Len(q) + 1 /\ Len(q) \in Nat
      /\ \A i \in 1 .. Len(q) : r[i] = q[i]
      /\ r[Len(q) + 1] = b
  BY <1>2, Added
<1>4. Registered(r, obs, kn)
  BY <1>2, RegisteredAdded
<1> HIDE DEF r
<1>5. Ordered(r, ev, em + 1)
  <2>1. \A i \in 1 .. Len(q) : IsEmit(q, i) => q[i].arg \in Nat
    BY ElementsAreBlocks, BlockTypes, EmitterAssumption DEF IsEmit, Events
  <2>2. \A i \in 1 .. Len(r) : IsEmit(r, i) => ev < r[i].arg /\ r[i].arg <= em + 1
    BY <1>1, <1>2, <1>3, <2>1 DEF Ordered, IsEmit
  <2>3. ASSUME NEW i \in 1 .. Len(r), NEW j \in 1 .. Len(r),
               i < j, IsEmit(r, i), IsEmit(r, j)
        PROVE  r[i].arg < r[j].arg
    <3>1. i \in 1 .. Len(q) /\ IsEmit(q, i) /\ r[i] = q[i]
      BY <1>3, <2>3 DEF IsEmit
    <3>2. CASE j = Len(q) + 1
      BY <1>1, <1>2, <1>3, <2>1, <3>1, <3>2 DEF Ordered
    <3>3. CASE j \in 1 .. Len(q)
      BY <1>3, <2>3, <3>1, <3>3 DEF Ordered, IsEmit
    <3> QED  BY <1>3, <3>2, <3>3
  <2> QED  BY <1>1, <2>2, <2>3 DEF Ordered
<1>6. aud2[em + 1] = kn \ rm /\ \A e \in Events : e # em + 1 => aud2[e] = aud[e]
  BY <1>1
<1> HIDE DEF aud2
<1>7. Reaching(r, obs, kn, rm, aud2)
  <2>1. ASSUME NEW i \in 1 .. Len(q) + 1, NEW o \in Observers
        PROVE  Finds(r, obs, i, o) <=> Finds(q, obs, i, o)
    <3>1. \A j \in 1 .. i - 1 : j \in 1 .. Len(q) /\ j \in 1 .. Len(r) /\ r[j] = q[j]
      BY <1>3
    <3> QED  BY <3>1, SameBefore
  <2>2. ASSUME NEW i \in 1 .. Len(r), IsEmit(r, i), NEW o \in Observers
        PROVE  o \in aud2[r[i].arg] <=> Finds(r, obs, i, o)
    <3>1. CASE i = Len(q) + 1
      BY <1>2, <1>3, <1>6, <2>1, <3>1 DEF Reaching
    <3>2. CASE i \in 1 .. Len(q)
      <4>1. IsEmit(q, i) /\ r[i] = q[i] /\ q[i].arg \in Events /\ q[i].arg # em + 1
        BY <1>1, <1>3, <2>2, <3>2, ElementsAreBlocks, BlockTypes
           DEF IsEmit, Ordered, Events
      <4> QED  BY <1>6, <2>1, <3>2, <4>1 DEF Reaching
    <3> QED  BY <1>3, <3>1, <3>2
  <2>3. ASSUME NEW o \in Observers
        PROVE  o \in kn \ rm <=> Finds(r, obs, Len(r) + 1, o)
    <3>1. ~ Is(r, Len(q) + 1, "observe", o) /\ ~ Is(r, Len(q) + 1, "remove", o)
      BY <1>2, <1>3 DEF Is
    <3>2. Finds(r, obs, Len(r) + 1, o) <=> Finds(r, obs, Len(q) + 1, o)
      BY <1>3, <3>1 DEF Finds
    <3> QED  BY <1>3, <2>1, <3>2 DEF Reaching
  <2> QED  BY <2>2, <2>3 DEF Reaching
<1> QED  BY <1>3, <1>4, <1>5, <1>7 DEF r, aud2, b

(***************************************************************************)
(* The first block of the queue, and what it does to the list.             *)
(***************************************************************************)
Effect(b, obs, obs2) ==
  \/ b.type = "emit" /\ obs2 = obs
  \/ b.type = "observe" /\ obs2 = Append(obs, b.arg)
  \/ /\ b.type = "remove"
     /\ \/ \E i \in DOMAIN obs : obs[i] = b.arg /\ obs2 = Omit(obs, i)
        \/ (\A i \in DOMAIN obs : obs[i] # b.arg) /\ obs2 = obs

\* The list has gained an observer, lost one, or kept all of them.
LEMMA ListAfter ==
  ASSUME NEW b \in Blocks, NEW obs \in Seq(Observers), NEW obs2,
         Effect(b, obs, obs2),
         \A k, l \in 1 .. Len(obs) : obs[k] = obs[l] => k = l,
         b.type = "observe" => \A k \in 1 .. Len(obs) : obs[k] # b.arg
  PROVE  /\ obs2 \in Seq(Observers)
         /\ \A k, l \in 1 .. Len(obs2) : obs2[k] = obs2[l] => k = l
         /\ \A o \in Observers : (\E k \in 1 .. Len(obs2) : obs2[k] = o) <=>
              \/ b.type = "observe" /\ b.arg = o
              \/ /\ \E k \in 1 .. Len(obs) : obs[k] = o
                 /\ ~ (b.type = "remove" /\ b.arg = o)
<1>1. CASE b.type = "emit" \/ obs2 = obs
  <2>1. obs2 = obs /\ b.type # "observe"
    <3>1. Len(obs) \in Nat /\ Len(Append(obs, b.arg)) = Len(obs) + 1
      OBVIOUS
    <3>2. Append(obs, b.arg) # obs
      BY <3>1
    <3> QED  BY <1>1, <3>2 DEF Effect
  <2>2. b.type = "remove" => \A k \in 1 .. Len(obs) : obs[k] # b.arg
    <3>1. \A i \in 1 .. Len(obs) : Len(Omit(obs, i)) = Len(obs) - 1 /\ Len(obs) \in Nat
      BY Without
    <3>2. \A i \in 1 .. Len(obs) : Omit(obs, i) # obs
      BY <3>1
    <3> QED  BY <2>1, <3>2 DEF Effect
  <2> QED  BY <2>1, <2>2
<1>2. CASE b.type = "observe"
  <2>1. b.arg \in Observers
    BY <1>2, BlockTypes
  <2>2. /\ obs2 \in Seq(Observers) /\ Len(obs2) = Len(obs) + 1 /\ Len(obs) \in Nat
        /\ \A k \in 1 .. Len(obs) : obs2[k] = obs[k]
        /\ obs2[Len(obs) + 1] = b.arg
    BY <1>2, <2>1, Added DEF Effect
  <2>3. \A k \in 1 .. Len(obs2) : k \in 1 .. Len(obs) \/ k = Len(obs) + 1
    BY <2>2
  <2>4. \A k, l \in 1 .. Len(obs2) : obs2[k] = obs2[l] => k = l
    BY <1>2, <2>2, <2>3
  <2>5. ASSUME NEW o \in Observers
        PROVE  (\E k \in 1 .. Len(obs2) : obs2[k] = o) <=>
                 b.arg = o \/ \E k \in 1 .. Len(obs) : obs[k] = o
    BY <2>2, <2>3
  <2> QED  BY <1>2, <2>2, <2>4, <2>5
<1>3. CASE b.type = "remove" /\ obs2 # obs
  <2>1. PICK i \in 1 .. Len(obs) : obs[i] = b.arg /\ obs2 = Omit(obs, i)
    BY <1>3 DEF Effect
  <2>2. /\ obs2 \in Seq(Observers) /\ Len(obs2) = Len(obs) - 1 /\ Len(obs) \in Nat
        /\ \A k \in 1 .. Len(obs2) : obs2[k] = obs[IF k < i THEN k ELSE k + 1]
    BY <2>1, Without
  <2>3. ASSUME NEW k \in 1 .. Len(obs2), NEW l \in 1 .. Len(obs2), obs2[k] = obs2[l]
        PROVE  k = l
    <3>1. /\ (IF k < i THEN k ELSE k + 1) \in 1 .. Len(obs)
          /\ (IF l < i THEN l ELSE l + 1) \in 1 .. Len(obs)
      BY <2>2
    <3>2. (IF k < i THEN k ELSE k + 1) = (IF l < i THEN l ELSE l + 1)
      BY <2>2, <2>3, <3>1
    <3> QED  BY <2>2, <3>2
  <2>4. ASSUME NEW k \in 1 .. Len(obs2)
        PROVE  obs2[k] # b.arg /\ \E l \in 1 .. Len(obs) : obs[l] = obs2[k]
    <3>1. (IF k < i THEN k ELSE k + 1) \in 1 .. Len(obs) \ {i}
      BY <2>2
    <3> QED  BY <2>1, <2>2, <3>1
  <2>5. ASSUME NEW l \in 1 .. Len(obs), obs[l] # b.arg
        PROVE  \E k \in 1 .. Len(obs2) : obs2[k] = obs[l]
    <3>1. CASE l < i
      BY <2>2, <3>1
    <3>2. CASE l > i
      <4>1. l - 1 \in 1 .. Len(obs2) /\ ~ (l - 1 < i) /\ (l - 1) + 1 = l
        BY <2>2, <3>2
      <4> QED  BY <2>2, <4>1
    <3>3. l # i
      BY <2>1, <2>5
    <3> QED  BY <3>1, <3>2, <3>3
  <2>6. ASSUME NEW o \in Observers
        PROVE  (\E k \in 1 .. Len(obs2) : obs2[k] = o) <=>
                 b.arg # o /\ \E k \in 1 .. Len(obs) : obs[k] = o
    BY <2>4, <2>5
  <2> QED  BY <1>3, <2>2, <2>3, <2>6
<1> QED  BY <1>1, <1>2, <1>3 DEF Effect

LEMMA HeadTaken ==
  ASSUME NEW q \in Seq(Blocks), q # <<>>, NEW obs \in Seq(Observers), NEW obs2,
         NEW kn, NEW rm, NEW aud, NEW em \in Nat,
         kn \subseteq Observers, Effect(Head(q), obs, obs2),
         Registered(q, obs, kn), Ordered(q, 0, em), Reaching(q, obs, kn, rm, aud)
  PROVE  /\ Tail(q) \in Seq(Blocks) /\ obs2 \in Seq(Observers)
         /\ Registered(Tail(q), obs2, kn)
         /\ Ordered(Tail(q), IF Head(q).type = "emit" THEN Head(q).arg ELSE 0, em)
         /\ Reaching(Tail(q), obs2, kn, rm, aud)
<1>1. /\ Head(q) = q[1] /\ Head(q) \in Blocks
      /\ Tail(q) \in Seq(Blocks)
      /\ Len(q) \in Nat \ {0} /\ Len(Tail(q)) = Len(q) - 1
      /\ \A i \in 1 .. Len(Tail(q)) : Tail(q)[i] = q[i + 1]
  BY Shifted
<1> DEFINE h == q[1]
           r == Tail(q)
<1>2. /\ h \in Blocks /\ Effect(h, obs, obs2)
      /\ r \in Seq(Blocks) /\ Len(r) = Len(q) - 1 /\ 1 \in 1 .. Len(q)
      /\ \A i \in 1 .. Len(r) : r[i] = q[i + 1] /\ i + 1 \in 1 .. Len(q)
  BY <1>1
<1> HIDE DEF r
<1>3. h.type = "observe" => \A k \in 1 .. Len(obs) : obs[k] # h.arg
  BY <1>2 DEF Registered, Is
<1>4. /\ obs2 \in Seq(Observers)
      /\ \A k, l \in 1 .. Len(obs2) : obs2[k] = obs2[l] => k = l
      /\ \A o \in Observers : (\E k \in 1 .. Len(obs2) : obs2[k] = o) <=>
           \/ h.type = "observe" /\ h.arg = o
           \/ /\ \E k \in 1 .. Len(obs) : obs[k] = o
              /\ ~ (h.type = "remove" /\ h.arg = o)
  <2>1. \A k, l \in 1 .. Len(obs) : obs[k] = obs[l] => k = l
    BY DEF Registered
  <2> QED  BY <1>2, <1>3, <2>1, ListAfter
<1>5. ASSUME NEW i \in 1 .. Len(r), NEW type, NEW o
      PROVE  Is(r, i, type, o) <=> Is(q, i + 1, type, o)
  BY <1>2 DEF Is
<1>6. \A k \in 1 .. Len(obs2) : obs2[k] \in Observers
  BY <1>4
<1>7. Registered(r, obs2, kn)
  <2>1. \A i \in 1 .. Len(r) : r[i].type # "emit" => r[i].arg \in kn
    BY <1>2 DEF Registered
  <2>2. ASSUME NEW k \in 1 .. Len(obs2)
        PROVE  obs2[k] \in kn /\ \A i \in 1 .. Len(r) : ~ Is(r, i, "observe", obs2[k])
    <3>1. CASE h.type = "observe" /\ h.arg = obs2[k]
      <4>1. h.arg \in kn
        BY <1>2, <3>1 DEF Registered
      <4>2. \A i \in 1 .. Len(r) : ~ Is(q, i + 1, "observe", obs2[k])
        BY <1>2, <1>6, <3>1 DEF Registered, Is
      <4> QED  BY <1>5, <3>1, <4>1, <4>2
    <3>2. CASE \E l \in 1 .. Len(obs) : obs[l] = obs2[k]
      <4>1. \A i \in 1 .. Len(r) : ~ Is(q, i + 1, "observe", obs2[k])
        BY <1>2, <3>2 DEF Registered
      <4> QED  BY <1>5, <3>2, <4>1 DEF Registered
    <3> QED  BY <1>4, <1>6, <3>1, <3>2
  <2>3. ASSUME NEW o \in Observers, NEW i \in 1 .. Len(r), NEW j \in 1 .. Len(r)
        PROVE  /\ Is(r, i, "observe", o) /\ Is(r, j, "observe", o) => i = j
               /\ Is(r, i, "observe", o) /\ Is(r, j, "remove", o) => i < j
    <3>1. i + 1 \in 1 .. Len(q) /\ j + 1 \in 1 .. Len(q)
      BY <1>2
    <3> QED  BY <1>5, <3>1 DEF Registered
  <2> QED  BY <1>4, <2>1, <2>2, <2>3 DEF Registered
<1>8. Ordered(r, IF h.type = "emit" THEN h.arg ELSE 0, em)
  <2>1. \A i \in 1 .. Len(r) : IsEmit(r, i) => IsEmit(q, i + 1) /\ r[i] = q[i + 1]
    BY <1>2 DEF IsEmit
  <2>2. h.type = "emit" => IsEmit(q, 1)
    BY <1>2 DEF IsEmit
  <2>3. ASSUME NEW i \in 1 .. Len(r), IsEmit(r, i)
        PROVE  /\ 0 < r[i].arg /\ r[i].arg <= em
               /\ h.type = "emit" => h.arg < r[i].arg
    <3>1. i + 1 \in 1 .. Len(q) /\ 1 < i + 1
      BY <1>2
    <3> QED  BY <1>2, <2>1, <2>2, <2>3, <3>1 DEF Ordered
  <2>4. ASSUME NEW i \in 1 .. Len(r), NEW j \in 1 .. Len(r),
               i < j, IsEmit(r, i), IsEmit(r, j)
        PROVE  r[i].arg < r[j].arg
    <3>1. i + 1 \in 1 .. Len(q) /\ j + 1 \in 1 .. Len(q) /\ i + 1 < j + 1
      BY <1>2, <2>4
    <3> QED  BY <2>1, <2>4, <3>1 DEF Ordered
  <2> QED  BY <1>2, <2>2, <2>3, <2>4 DEF Ordered
<1>9. ASSUME NEW n \in 1 .. Len(r) + 1, NEW o \in Observers
      PROVE  Finds(r, obs2, n, o) <=> Finds(q, obs, n + 1, o)
  <2>1. n + 1 - 1 = n /\ n \in Nat /\ \A i \in 1 .. n - 1 : i \in 1 .. Len(r) /\ i + 1 \in 1 .. n
    BY <1>2
  <2>2. ASSUME NEW type
        PROVE  (\E j \in 1 .. n : Is(q, j, type, o)) <=>
                 Is(q, 1, type, o) \/ \E i \in 1 .. n - 1 : Is(r, i, type, o)
    <3>1. ASSUME NEW j \in 1 .. n, Is(q, j, type, o), j # 1
          PROVE  \E i \in 1 .. n - 1 : Is(r, i, type, o)
      <4>1. j - 1 \in 1 .. n - 1 /\ j - 1 \in 1 .. Len(r) /\ (j - 1) + 1 = j
        BY <1>2, <3>1
      <4>2. Is(r, j - 1, type, o)
        BY <1>2, <3>1, <4>1 DEF Is
      <4> QED  BY <4>1, <4>2
    <3>2. ASSUME NEW i \in 1 .. n - 1, Is(r, i, type, o)
          PROVE  \E j \in 1 .. n : Is(q, j, type, o)
      <4>1. i \in 1 .. Len(r) /\ i + 1 \in 1 .. n
        BY <2>1
      <4>2. Is(q, i + 1, type, o)
        BY <1>2, <3>2, <4>1 DEF Is
      <4> QED  BY <4>1, <4>2
    <3>3. 1 \in 1 .. n
      BY <2>1
    <3> QED  BY <3>1, <3>2, <3>3, Zenon
  <2>3. (\E j \in 1 .. n : Is(q, j, "observe", o)) <=>
          Is(q, 1, "observe", o) \/ \E i \in 1 .. n - 1 : Is(r, i, "observe", o)
    BY <2>2, Zenon
  <2>4. (\A j \in 1 .. n : ~ Is(q, j, "remove", o)) <=>
          ~ Is(q, 1, "remove", o) /\ \A i \in 1 .. n - 1 : ~ Is(r, i, "remove", o)
    <3>1. (\E j \in 1 .. n : Is(q, j, "remove", o)) <=>
            Is(q, 1, "remove", o) \/ \E i \in 1 .. n - 1 : Is(r, i, "remove", o)
      BY <2>2, Zenon
    <3> QED  BY <3>1, Zenon
  <2>5. /\ Is(q, 1, "observe", o) <=> h.type = "observe" /\ h.arg = o
        /\ Is(q, 1, "remove", o) <=> h.type = "remove" /\ h.arg = o
    BY <1>2 DEF Is
  <2>6. Is(q, 1, "remove", o) => \A i \in 1 .. n - 1 : ~ Is(r, i, "observe", o)
    <3>1. ASSUME NEW i \in 1 .. n - 1, Is(q, 1, "remove", o), Is(r, i, "observe", o)
          PROVE  FALSE
      <4>1. i + 1 \in 1 .. Len(q) /\ Is(q, i + 1, "observe", o) /\ ~ (i + 1 < 1)
        BY <1>2, <1>5, <2>1, <3>1
      <4> QED  BY <1>2, <3>1, <4>1 DEF Registered
    <3> QED  BY <3>1
  <2>7. Finds(q, obs, n + 1, o) <=>
          /\ \/ \E k \in 1 .. Len(obs) : obs[k] = o
             \/ \E j \in 1 .. n : Is(q, j, "observe", o)
          /\ \A j \in 1 .. n : ~ Is(q, j, "remove", o)
    BY <2>1 DEF Finds
  <2> QED  BY <1>4, <2>3, <2>4, <2>5, <2>6, <2>7 DEF Finds
<1>10. Reaching(r, obs2, kn, rm, aud)
  <2>1. ASSUME NEW i \in 1 .. Len(r), IsEmit(r, i), NEW o \in Observers
        PROVE  o \in aud[r[i].arg] <=> Finds(r, obs2, i, o)
    <3>1. i + 1 \in 1 .. Len(q) /\ IsEmit(q, i + 1) /\ r[i] = q[i + 1]
      BY <1>2, <2>1 DEF IsEmit
    <3> QED  BY <1>2, <1>9, <3>1 DEF Reaching
  <2>2. ASSUME NEW o \in Observers
        PROVE  o \in kn \ rm <=> Finds(r, obs2, Len(r) + 1, o)
    <3>1. Len(r) + 1 \in 1 .. Len(r) + 1 /\ Len(r) + 1 + 1 = Len(q) + 1
      BY <1>2
    <3> QED  BY <1>9, <3>1 DEF Reaching
  <2> QED  BY <2>1, <2>2 DEF Reaching
<1> QED  BY <1>1, <1>2, <1>4, <1>7, <1>8, <1>10 DEF r

-----------------------------------------------------------------------------
(***************************************************************************)
(* Type correctness.                                                       *)
(***************************************************************************)
Tasks == [observer : Observers, event : Events]

Typed ==
  /\ queue \in Seq(Blocks) /\ observers \in Seq(Observers)
  /\ event \in 0 .. MaxEvents /\ rest \in Seq(Observers)
  /\ target \in Seq(Tasks)
  /\ waiting \in [Callers -> 0 .. MaxEvents] /\ emitted \in 0 .. MaxEvents
  /\ known \subseteq Observers /\ assigned \subseteq known \cap Once
  /\ removed \subseteq known
  /\ audience \in [Events -> SUBSET Observers]
  /\ calls \in [Observers -> Seq(Calls)]

\* The queue, the list and the callers agree.
QueueInv ==
  /\ Registered(queue, observers, known)
  /\ Ordered(queue, event, emitted)
  /\ Reaching(queue, observers, known, removed, audience)
  /\ Awaited(queue, event, waiting)

\* The events that wait in the queue.
Waiting(q) == {e \in Events : \E n \in 1 .. Len(q) : Is(q, n, "emit", e)}

LEMMA WaitingAdded ==
  ASSUME NEW q \in Seq(Blocks), NEW b \in Blocks
  PROVE  /\ b.type # "emit" => Waiting(Append(q, b)) = Waiting(q)
         /\ b.type = "emit" => Waiting(Append(q, b)) = Waiting(q) \cup {b.arg}
<1> DEFINE r == Append(q, b)
<1>1. /\ r \in Seq(Blocks) /\ Len(r) = Len(q) + 1 /\ Len(q) \in Nat
      /\ \A i \in 1 .. Len(q) : r[i] = q[i]
      /\ r[Len(q) + 1] = b
  BY Added
<1> HIDE DEF r
<1>2. ASSUME NEW e \in Events
      PROVE  e \in Waiting(r) <=> e \in Waiting(q) \/ (b.type = "emit" /\ b.arg = e)
  <2>1. ASSUME NEW n \in 1 .. Len(q), Is(q, n, "emit", e) PROVE e \in Waiting(r)
    BY <1>1, <2>1 DEF Waiting, Is
  <2>2. ASSUME b.type = "emit", b.arg = e PROVE e \in Waiting(r)
    BY <1>1, <2>2 DEF Waiting, Is
  <2>3. ASSUME NEW n \in 1 .. Len(r), Is(r, n, "emit", e)
        PROVE  e \in Waiting(q) \/ (b.type = "emit" /\ b.arg = e)
    <3>1. CASE n \in 1 .. Len(q)
      BY <1>1, <2>3, <3>1 DEF Waiting, Is
    <3>2. CASE n = Len(q) + 1
      BY <1>1, <2>3, <3>2 DEF Is
    <3> QED  BY <1>1, <3>1, <3>2
  <2> QED  BY <2>1, <2>2, <2>3 DEF Waiting
<1>3. b.type = "emit" => b.arg \in Events
  BY BlockTypes
<1> QED  BY <1>2, <1>3 DEF r, Waiting

LEMMA WaitingTaken ==
  ASSUME NEW q \in Seq(Blocks), q # <<>>
  PROVE  /\ Head(q).type # "emit" => Waiting(Tail(q)) = Waiting(q)
         /\ Head(q).type = "emit" => Waiting(q) = Waiting(Tail(q)) \cup {Head(q).arg}
<1> DEFINE h == q[1]
           r == Tail(q)
<1>1. /\ h = Head(q) /\ h \in Blocks
      /\ r \in Seq(Blocks) /\ Len(r) = Len(q) - 1 /\ Len(q) \in Nat \ {0}
      /\ \A i \in 1 .. Len(r) : r[i] = q[i + 1]
  BY Shifted
<1> HIDE DEF r
<1>2. ASSUME NEW e \in Events
      PROVE  e \in Waiting(q) <=> e \in Waiting(r) \/ (h.type = "emit" /\ h.arg = e)
  <2>1. ASSUME NEW n \in 1 .. Len(r), Is(r, n, "emit", e) PROVE e \in Waiting(q)
    <3>1. n + 1 \in 1 .. Len(q) /\ Is(q, n + 1, "emit", e)
      BY <1>1, <2>1 DEF Is
    <3> QED  BY <3>1 DEF Waiting
  <2>2. ASSUME h.type = "emit", h.arg = e PROVE e \in Waiting(q)
    BY <1>1, <2>2 DEF Waiting, Is
  <2>3. ASSUME NEW n \in 1 .. Len(q), Is(q, n, "emit", e), n # 1
        PROVE  e \in Waiting(r)
    <3>1. n - 1 \in 1 .. Len(r) /\ (n - 1) + 1 = n
      BY <1>1, <2>3
    <3>2. Is(r, n - 1, "emit", e)
      BY <1>1, <2>3, <3>1 DEF Is
    <3> QED  BY <3>1, <3>2 DEF Waiting
  <2>4. Is(q, 1, "emit", e) => h.type = "emit" /\ h.arg = e
    BY DEF Is
  <2> QED  BY <2>1, <2>2, <2>3, <2>4 DEF Waiting
<1>3. h.type = "emit" => h.arg \in Events
  BY <1>1, BlockTypes
<1> QED  BY <1>1, <1>2, <1>3 DEF r, Waiting

(***************************************************************************)
(* What a step does to the queue, in the terms the other parts of the      *)
(* invariant need: it adds no event, or it emits the next one.             *)
(***************************************************************************)
Quiet ==
  /\ Waiting(queue') = Waiting(queue) /\ UNCHANGED <<emitted, audience>>
  /\ removed \subseteq removed'

Emits ==
  /\ Waiting(queue') = Waiting(queue) \cup {emitted + 1}
  /\ emitted + 1 \in Events /\ emitted' = emitted + 1
  /\ audience' = [audience EXCEPT ![emitted + 1] = known \ removed']
  /\ removed \subseteq removed'

LEMMA EmissionStep ==
  ASSUME Typed, NEW c \in Callers, waiting[c] = 0, NEW q \in Seq(Blocks),
         removed' \subseteq known, removed \subseteq removed',
         Registered(q, observers, known), Ordered(q, event, emitted),
         Reaching(q, observers, known, removed', audience),
         Awaited(q, event, waiting), Waiting(q) = Waiting(queue),
         Emission(c, q), UNCHANGED <<observers, event, known>>
  PROVE  /\ queue' \in Seq(Blocks) /\ emitted' \in 0 .. MaxEvents
         /\ waiting' \in [Callers -> 0 .. MaxEvents]
         /\ audience' \in [Events -> SUBSET Observers]
         /\ QueueInv' /\ Emits
<1>1. /\ emitted \in 0 .. MaxEvents - 1 /\ emitted + 1 \in Events /\ emitted' = emitted + 1
      /\ emitted + 1 \in 0 .. MaxEvents /\ event \in 0 .. MaxEvents
  BY EmitterAssumption DEF Typed, Emission, Events
<1>2. /\ queue' = Append(q, Block("emit", emitted + 1))
      /\ audience' = [audience EXCEPT ![emitted + 1] = known \ removed']
      /\ waiting' = [waiting EXCEPT ![c] = emitted + 1]
  BY <1>1 DEF Emission
<1>3. /\ queue' \in Seq(Blocks)
      /\ Registered(queue', observers, known)
      /\ Ordered(queue', event, emitted + 1)
      /\ Reaching(queue', observers, known, removed', audience')
  BY <1>1, <1>2, EmitAdded DEF Typed
<1>4. Awaited(queue', event, waiting')
  <2>1. \A i \in 1 .. Len(q) : IsEmit(q, i) => q[i].arg # 0 /\ q[i].arg \in Nat
    BY ElementsAreBlocks, BlockTypes, EmitterAssumption DEF IsEmit, Events
  <2>2. \A d \in Callers : waiting[d] # 0 => waiting'[d] = waiting[d]
    BY <1>2 DEF Typed
  <2>3. waiting'[c] = emitted + 1
    BY <1>2 DEF Typed
  <2>4. Block("emit", emitted + 1) \in Blocks
    BY <1>1, BlockTypes
  <2>5. ASSUME NEW i \in 1 .. Len(queue'), IsEmit(queue', i)
        PROVE  \E d \in Callers : waiting'[d] = queue'[i].arg
    <3>1. CASE i \in 1 .. Len(q)
      <4>1. queue'[i] = q[i] /\ IsEmit(q, i)
        BY <1>2, <2>4, <2>5, <3>1, Added DEF IsEmit
      <4>2. PICK d \in Callers : waiting[d] = q[i].arg
        BY <3>1, <4>1 DEF Awaited
      <4> QED  BY <2>1, <2>2, <3>1, <4>1, <4>2
    <3>2. CASE i = Len(q) + 1
      <4>1. queue'[i] = Block("emit", emitted + 1)
        BY <1>2, <2>4, <3>2, Added
      <4> QED  BY <2>3, <4>1 DEF Block
    <3>3. Len(queue') = Len(q) + 1 /\ Len(q) \in Nat
      BY <1>2, <2>4, Added
    <3> QED  BY <3>1, <3>2, <3>3
  <2>6. event # 0 => \E d \in Callers : waiting'[d] = event
    BY <2>2 DEF Awaited
  <2> QED  BY <2>5, <2>6 DEF Awaited
<1>5. waiting' \in [Callers -> 0 .. MaxEvents] /\ audience' \in [Events -> SUBSET Observers]
  BY <1>1, <1>2 DEF Typed
<1>6. Waiting(queue') = Waiting(queue) \cup {emitted + 1}
  <2>1. /\ Block("emit", emitted + 1) \in Blocks
        /\ Block("emit", emitted + 1).type = "emit"
        /\ Block("emit", emitted + 1).arg = emitted + 1
    BY <1>1, BlockTypes DEF Block
  <2> QED  BY <1>2, <2>1, WaitingAdded
<1>7. QueueInv'
  BY <1>1, <1>3, <1>4 DEF QueueInv
<1> QED  BY <1>1, <1>2, <1>3, <1>5, <1>6, <1>7 DEF Emits

LEMMA StillOrdered ==
  ASSUME NEW q \in Seq(Blocks), NEW b \in Blocks, b.type # "emit", NEW ev, NEW em, NEW wt,
         Ordered(q, ev, em), Awaited(q, ev, wt)
  PROVE  Ordered(Append(q, b), ev, em) /\ Awaited(Append(q, b), ev, wt)
<1> DEFINE r == Append(q, b)
<1>1. /\ r \in Seq(Blocks) /\ Len(r) = Len(q) + 1 /\ Len(q) \in Nat
      /\ \A i \in 1 .. Len(q) : r[i] = q[i]
      /\ r[Len(q) + 1] = b
  BY Added
<1> HIDE DEF r
<1>2. \A i \in 1 .. Len(r) : IsEmit(r, i) => i \in 1 .. Len(q) /\ r[i] = q[i] /\ IsEmit(q, i)
  BY <1>1 DEF IsEmit
<1>3. Ordered(r, ev, em)
  BY <1>2 DEF Ordered
<1>4. Awaited(r, ev, wt)
  BY <1>2 DEF Awaited
<1> QED  BY <1>3, <1>4 DEF r

LEMMA CallStep ==
  ASSUME Typed, QueueInv, NEW c \in Callers, waiting[c] = 0,
         NEW o \in Observers, NEW e \in Events, e <= emitted,
         Call(c, o, e), UNCHANGED <<observers, event, known>>
  PROVE  /\ queue' \in Seq(Blocks) /\ emitted' \in 0 .. MaxEvents
         /\ waiting' \in [Callers -> 0 .. MaxEvents]
         /\ audience' \in [Events -> SUBSET Observers]
         /\ removed' \subseteq known /\ calls' \in [Observers -> Seq(Calls)]
         /\ QueueInv' /\ (Quiet \/ Emits)
<1> DEFINE q == IF o \in assigned THEN Append(queue, Block("remove", o)) ELSE queue
<1>1. removed' \subseteq known /\ removed \subseteq removed'
  BY DEF Call, Typed
<1>2. /\ q \in Seq(Blocks) /\ Waiting(q) = Waiting(queue)
      /\ Registered(q, observers, known) /\ Ordered(q, event, emitted)
      /\ Reaching(q, observers, known, removed', audience)
      /\ Awaited(q, event, waiting)
  <2>1. CASE o \in assigned
    <3>1. Block("remove", o) \in Blocks /\ o \in known /\ removed' = removed \cup {o}
      BY <2>1, BlockTypes DEF Call, Typed
    <3>2. Block("remove", o).type = "remove" /\ Block("remove", o).arg = o
      BY DEF Block
    <3>3. Registered(q, observers, known)
      BY <2>1, <3>1, <3>2, RegisteredAdded DEF Typed, QueueInv
    <3>4. Reaching(q, observers, known, removed', audience)
      BY <2>1, <3>1, ReachingAdded DEF Typed, QueueInv
    <3>5. Ordered(q, event, emitted) /\ Awaited(q, event, waiting)
      BY <2>1, <3>1, <3>2, StillOrdered DEF Typed, QueueInv
    <3>6. q \in Seq(Blocks) /\ Waiting(q) = Waiting(queue)
      BY <2>1, <3>1, <3>2, Added, WaitingAdded DEF Typed
    <3> QED  BY <3>3, <3>4, <3>5, <3>6
  <2>2. CASE o \notin assigned
    BY <2>2 DEF Call, Typed, QueueInv
  <2> QED  BY <2>1, <2>2
<1>3. calls' \in [Observers -> Seq(Calls)]
  <2>1. emitted \in Events
    BY EmitterAssumption DEF Typed, Events
  <2>2. [event |-> e, after |-> emitted, removing |-> o \in assigned] \in Calls
    BY <2>1 DEF Calls
  <2>3. Append(calls[o], [event |-> e, after |-> emitted, removing |-> o \in assigned])
          \in Seq(Calls)
    BY <2>2, Added DEF Typed
  <2> QED  BY <2>3 DEF Call, Typed
<1>4. CASE queue' = q /\ UNCHANGED <<waiting, emitted, audience>>
  BY <1>1, <1>2, <1>3, <1>4 DEF Typed, QueueInv, Quiet
<1>5. CASE Emission(c, q)
  <2> HIDE DEF q
  <2>1. /\ queue' \in Seq(Blocks) /\ emitted' \in 0 .. MaxEvents
        /\ waiting' \in [Callers -> 0 .. MaxEvents]
        /\ audience' \in [Events -> SUBSET Observers]
        /\ QueueInv' /\ Emits
    BY <1>1, <1>2, <1>5, EmissionStep
  <2> QED  BY <1>1, <1>3, <2>1
<1> QED  BY <1>4, <1>5 DEF Call

-----------------------------------------------------------------------------
(***************************************************************************)
(* Each action keeps the types and QueueInv, and says how it changed the   *)
(* queue.                                                                  *)
(***************************************************************************)
QueueStep == Typed' /\ QueueInv'

LEMMA ObserveStep ==
  ASSUME Typed, QueueInv, NEW o \in Observers, Observe(o)
  PROVE  QueueStep /\ Quiet
<1>1. /\ Block("observe", o) \in Blocks /\ Block("observe", o).type = "observe"
      /\ Block("observe", o).arg = o
  BY BlockTypes DEF Block
<1>2. /\ queue' = Append(queue, Block("observe", o)) /\ known' = known \cup {o}
      /\ o \notin known /\ o \notin removed
      /\ UNCHANGED <<observers, event, rest, target, waiting, emitted, assigned,
                     removed, audience, calls>>
  BY DEF Observe, Typed
<1>3. queue' \in Seq(Blocks) /\ Waiting(queue') = Waiting(queue)
  BY <1>1, <1>2, Added, WaitingAdded DEF Typed
<1>4. Registered(queue', observers, known')
  BY <1>1, <1>2, RegisteredAdded DEF Typed, QueueInv
<1>5. Reaching(queue', observers, known', removed, audience)
  BY <1>1, <1>2, ReachingAdded DEF Typed, QueueInv
<1>6. Ordered(queue', event, emitted) /\ Awaited(queue', event, waiting)
  BY <1>1, <1>2, StillOrdered DEF Typed, QueueInv
<1>7. Typed'
  BY <1>2, <1>3 DEF Typed
<1> QED  BY <1>2, <1>3, <1>4, <1>5, <1>6, <1>7 DEF QueueStep, QueueInv, Quiet

LEMMA RemoveStep ==
  ASSUME Typed, QueueInv, NEW o \in Observers, Remove(o)
  PROVE  QueueStep /\ Quiet
<1>1. /\ Block("remove", o) \in Blocks /\ Block("remove", o).type = "remove"
      /\ Block("remove", o).arg = o
  BY BlockTypes DEF Block
<1>2. /\ queue' = Append(queue, Block("remove", o)) /\ removed' = removed \cup {o}
      /\ o \in known
      /\ UNCHANGED <<observers, event, rest, target, waiting, emitted, known, assigned,
                     audience, calls>>
  BY DEF Remove
<1>3. queue' \in Seq(Blocks) /\ Waiting(queue') = Waiting(queue)
  BY <1>1, <1>2, Added, WaitingAdded DEF Typed
<1>4. Registered(queue', observers, known)
  BY <1>1, <1>2, RegisteredAdded DEF Typed, QueueInv
<1>5. Reaching(queue', observers, known, removed', audience)
  BY <1>1, <1>2, ReachingAdded DEF Typed, QueueInv
<1>6. Ordered(queue', event, emitted) /\ Awaited(queue', event, waiting)
  BY <1>1, <1>2, StillOrdered DEF Typed, QueueInv
<1>7. Typed'
  BY <1>2, <1>3 DEF Typed
<1> QED  BY <1>2, <1>3, <1>4, <1>5, <1>6, <1>7 DEF QueueStep, QueueInv, Quiet

LEMMA AssignStep ==
  ASSUME Typed, QueueInv, NEW o \in Observers, Assign(o)
  PROVE  QueueStep /\ Quiet
  BY DEF Assign, Typed, QueueInv, QueueStep, Quiet

LEMMA EmitStep ==
  ASSUME Typed, QueueInv, NEW t \in Threads, Emit(t)
  PROVE  QueueStep /\ Emits
<1>1. t \in Callers /\ waiting[t] = 0 /\ Emission(t, queue)
      /\ UNCHANGED <<observers, event, rest, target, known, assigned, calls, removed>>
  BY DEF Emit, Callers
<1>2. /\ queue' \in Seq(Blocks) /\ emitted' \in 0 .. MaxEvents
      /\ waiting' \in [Callers -> 0 .. MaxEvents]
      /\ audience' \in [Events -> SUBSET Observers]
      /\ QueueInv' /\ Emits
  <2>1. /\ queue \in Seq(Blocks) /\ removed' \subseteq known
        /\ removed \subseteq removed' /\ removed' = removed
    BY <1>1 DEF Typed
  <2>2. /\ Registered(queue, observers, known) /\ Ordered(queue, event, emitted)
        /\ Reaching(queue, observers, known, removed', audience)
        /\ Awaited(queue, event, waiting)
    BY <2>1 DEF QueueInv
  <2> QED  BY <1>1, <2>1, <2>2, EmissionStep
<1>3. Typed'
  BY <1>1, <1>2 DEF Typed
<1> QED  BY <1>2, <1>3 DEF QueueStep

\* What the three blocks share.
LEMMA HeadRun ==
  ASSUME Typed, QueueInv, event = 0, queue # <<>>,
         queue' = Tail(queue), Effect(Head(queue), observers, observers'),
         event' = IF Head(queue).type = "emit" THEN Head(queue).arg ELSE 0,
         UNCHANGED <<waiting, emitted, known, removed, audience>>
  PROVE  /\ queue' \in Seq(Blocks) /\ observers' \in Seq(Observers)
         /\ event' \in 0 .. MaxEvents /\ QueueInv'
         /\ Head(queue) \in Blocks
         /\ Head(queue).type # "emit" => Quiet
<1>1. /\ queue \in Seq(Blocks) /\ observers \in Seq(Observers) /\ emitted \in Nat
      /\ known \subseteq Observers
      /\ Registered(queue, observers, known) /\ Ordered(queue, 0, emitted)
      /\ Reaching(queue, observers, known, removed, audience)
      /\ Awaited(queue, event, waiting)
  BY EmitterAssumption DEF Typed, QueueInv
<1>2. /\ Tail(queue) \in Seq(Blocks) /\ observers' \in Seq(Observers)
      /\ Registered(Tail(queue), observers', known)
      /\ Ordered(Tail(queue), event', emitted)
      /\ Reaching(Tail(queue), observers', known, removed, audience)
  BY <1>1, HeadTaken
<1>3. /\ Head(queue) = queue[1] /\ Head(queue) \in Blocks
      /\ Len(queue) \in Nat \ {0} /\ Len(Tail(queue)) = Len(queue) - 1
      /\ \A i \in 1 .. Len(Tail(queue)) : Tail(queue)[i] = queue[i + 1]
  BY <1>1, Shifted
<1>4. event' \in 0 .. MaxEvents
  BY <1>3, BlockTypes, EmitterAssumption DEF Events
<1>5. Awaited(Tail(queue), event', waiting)
  <2>1. ASSUME NEW i \in 1 .. Len(Tail(queue)), IsEmit(Tail(queue), i)
        PROVE  \E c \in Callers : waiting[c] = Tail(queue)[i].arg
    <3>1. i + 1 \in 1 .. Len(queue) /\ IsEmit(queue, i + 1) /\ Tail(queue)[i] = queue[i + 1]
      BY <1>3, <2>1 DEF IsEmit
    <3> QED  BY <1>1, <3>1 DEF Awaited
  <2>2. event' # 0 => \E c \in Callers : waiting[c] = event'
    <3>1. event' # 0 => IsEmit(queue, 1) /\ 1 \in 1 .. Len(queue) /\ event' = queue[1].arg
      BY <1>3 DEF IsEmit
    <3> QED  BY <1>1, <3>1 DEF Awaited
  <2> QED  BY <2>1, <2>2 DEF Awaited
<1>6. Head(queue).type # "emit" => Waiting(queue') = Waiting(queue)
  BY <1>1, WaitingTaken
<1> QED  BY <1>2, <1>3, <1>4, <1>5, <1>6 DEF QueueInv, Quiet

LEMMA RunObserveStep ==
  ASSUME Typed, QueueInv, RunObserve
  PROVE  QueueStep /\ Quiet
<1>1. /\ event = 0 /\ queue # <<>> /\ Head(queue).type = "observe"
      /\ queue' = Tail(queue) /\ Effect(Head(queue), observers, observers')
      /\ event' = IF Head(queue).type = "emit" THEN Head(queue).arg ELSE 0
      /\ UNCHANGED <<rest, target, waiting, emitted, known, assigned, removed, audience, calls>>
  BY DEF RunObserve, At, Effect
<1>2. /\ queue' \in Seq(Blocks) /\ observers' \in Seq(Observers)
      /\ event' \in 0 .. MaxEvents /\ QueueInv' /\ Quiet
  BY <1>1, HeadRun
<1>3. Typed'
  BY <1>1, <1>2 DEF Typed
<1> QED  BY <1>2, <1>3 DEF QueueStep

LEMMA RunRemoveStep ==
  ASSUME Typed, QueueInv, RunRemove
  PROVE  QueueStep /\ Quiet
<1>1. /\ event = 0 /\ queue # <<>> /\ Head(queue).type = "remove"
      /\ queue' = Tail(queue) /\ Effect(Head(queue), observers, observers')
      /\ event' = IF Head(queue).type = "emit" THEN Head(queue).arg ELSE 0
      /\ UNCHANGED <<rest, target, waiting, emitted, known, assigned, removed, audience, calls>>
  BY DEF RunRemove, At, Effect
<1>2. /\ queue' \in Seq(Blocks) /\ observers' \in Seq(Observers)
      /\ event' \in 0 .. MaxEvents /\ QueueInv' /\ Quiet
  BY <1>1, HeadRun
<1>3. Typed'
  BY <1>1, <1>2 DEF Typed
<1> QED  BY <1>2, <1>3 DEF QueueStep

LEMMA RunEmitStep ==
  ASSUME Typed, QueueInv, RunEmit
  PROVE  /\ QueueStep
         /\ event' \in Events /\ rest' = observers
         /\ Waiting(queue) = Waiting(queue') \cup {event'}
         /\ \A o \in Observers :
              o \in audience[event'] <=> \E k \in 1 .. Len(rest') : rest'[k] = o
         /\ \A k, l \in 1 .. Len(rest') : rest'[k] = rest'[l] => k = l
<1>1. /\ event = 0 /\ queue # <<>> /\ Head(queue).type = "emit"
      /\ queue' = Tail(queue) /\ Effect(Head(queue), observers, observers')
      /\ event' = Head(queue).arg /\ rest' = observers
      /\ UNCHANGED <<observers, target, waiting, emitted, known, assigned, removed,
                     audience, calls>>
  BY DEF RunEmit, At, Effect
<1>2. /\ queue' \in Seq(Blocks) /\ observers' \in Seq(Observers)
      /\ event' \in 0 .. MaxEvents /\ QueueInv' /\ Head(queue) \in Blocks
  BY <1>1, HeadRun
<1>3. Typed'
  BY <1>1, <1>2 DEF Typed
<1>4. event' \in Events
  BY <1>1, <1>2, BlockTypes
<1>5. Waiting(queue) = Waiting(queue') \cup {event'}
  BY <1>1, WaitingTaken DEF Typed
<1>6. IsEmit(queue, 1) /\ queue[1].arg = event' /\ 1 \in 1 .. Len(queue)
  BY <1>1, Shifted DEF Typed, IsEmit
<1>7. \A o \in Observers : o \in audience[event'] <=> Finds(queue, observers, 1, o)
  BY <1>6 DEF QueueInv, Reaching
<1>8. \A o \in Observers :
        Finds(queue, observers, 1, o) <=> \E k \in 1 .. Len(observers) : observers[k] = o
  BY DEF Finds
<1>9. \A k, l \in 1 .. Len(observers) : observers[k] = observers[l] => k = l
  BY DEF QueueInv, Registered
<1> QED  BY <1>1, <1>2, <1>3, <1>4, <1>5, <1>7, <1>8, <1>9 DEF QueueStep

LEMMA DispatchStep ==
  ASSUME Typed, QueueInv, Dispatch
  PROVE  QueueStep /\ Quiet
<1>1. Head(rest) \in Observers /\ rest' \in Seq(Observers) /\ event \in Events
  BY Shifted DEF Dispatch, Looping, Typed, Events
<1>2. [observer |-> Head(rest), event |-> event] \in Tasks
  BY <1>1 DEF Tasks
<1>3. target' \in Seq(Tasks)
  BY <1>2, Added DEF Dispatch, Typed
<1> QED  BY <1>1, <1>3 DEF Dispatch, Typed, QueueInv, QueueStep, Quiet

LEMMA CallDirectlyStep ==
  ASSUME Typed, QueueInv, CallDirectly
  PROVE  QueueStep /\ (Quiet \/ Emits)
<1>1. /\ rest # <<>> /\ Head(rest) \in Observers /\ rest' \in Seq(Observers)
      /\ event \in Events /\ event <= emitted
      /\ "emitter" \in Callers /\ waiting["emitter"] = 0
      /\ Call("emitter", Head(rest), event)
      /\ UNCHANGED <<observers, event, target, known, assigned>>
  BY Shifted DEF CallDirectly, Looping, Typed, Events, QueueInv, Ordered, Callers
<1>2. /\ queue' \in Seq(Blocks) /\ emitted' \in 0 .. MaxEvents
      /\ waiting' \in [Callers -> 0 .. MaxEvents]
      /\ audience' \in [Events -> SUBSET Observers]
      /\ removed' \subseteq known /\ calls' \in [Observers -> Seq(Calls)]
      /\ QueueInv' /\ (Quiet \/ Emits)
  BY <1>1, CallStep
<1>3. Typed'
  BY <1>1, <1>2 DEF Typed
<1> QED  BY <1>2, <1>3 DEF QueueStep

LEMMA EndEmitStep ==
  ASSUME Typed, QueueInv, EndEmit
  PROVE  QueueStep /\ Quiet
<1>1. /\ event # 0 /\ event' = 0
      /\ waiting' = [c \in Callers |-> IF waiting[c] = event THEN 0 ELSE waiting[c]]
      /\ UNCHANGED <<queue, observers, rest, target, emitted, known, assigned, removed,
                     audience, calls>>
  BY DEF EndEmit, Looping
<1>2. Typed'
  BY <1>1, EmitterAssumption DEF Typed
<1>3. ASSUME NEW i \in 1 .. Len(queue), IsEmit(queue, i)
      PROVE  /\ queue[i].arg \in Nat /\ queue[i].arg # 0 /\ event < queue[i].arg
             /\ queue[i].arg <= emitted
             /\ \E c \in Callers : waiting[c] = queue[i].arg
  BY <1>3, ElementsAreBlocks, BlockTypes, EmitterAssumption
     DEF Typed, QueueInv, Ordered, Awaited, IsEmit, Events
<1>4. Ordered(queue, 0, emitted)
  BY <1>3, EmitterAssumption DEF QueueInv, Ordered, Typed
<1>5. Awaited(queue, 0, waiting')
  <2>1. ASSUME NEW i \in 1 .. Len(queue), IsEmit(queue, i)
        PROVE  \E c \in Callers : waiting'[c] = queue[i].arg
    <3>1. PICK c \in Callers : waiting[c] = queue[i].arg
      BY <1>3, <2>1
    <3>2. queue[i].arg # event
      BY <1>3, <2>1 DEF Typed
    <3> QED  BY <1>1, <3>1, <3>2
  <2> QED  BY <2>1 DEF Awaited
<1> QED  BY <1>1, <1>2, <1>4, <1>5 DEF QueueInv, QueueStep, Quiet

LEMMA RunTargetStep ==
  ASSUME Typed, QueueInv, RunTarget, Head(target).event <= emitted
  PROVE  QueueStep /\ (Quiet \/ Emits)
<1>1. /\ Head(target) \in Tasks /\ target' \in Seq(Tasks)
      /\ "target" \in Callers /\ waiting["target"] = 0
      /\ Call("target", Head(target).observer, Head(target).event)
      /\ UNCHANGED <<observers, event, rest, known, assigned>>
  BY Shifted DEF RunTarget, Typed, Callers
<1>2. Head(target).observer \in Observers /\ Head(target).event \in Events
  BY <1>1 DEF Tasks
<1>3. /\ queue' \in Seq(Blocks) /\ emitted' \in 0 .. MaxEvents
      /\ waiting' \in [Callers -> 0 .. MaxEvents]
      /\ audience' \in [Events -> SUBSET Observers]
      /\ removed' \subseteq known /\ calls' \in [Observers -> Seq(Calls)]
      /\ QueueInv' /\ (Quiet \/ Emits)
  BY <1>1, <1>2, CallStep
<1>4. Typed'
  BY <1>1, <1>3 DEF Typed
<1> QED  BY <1>3, <1>4 DEF QueueStep

-----------------------------------------------------------------------------
(***************************************************************************)
(* Whom the events have reached: those called, and those with a task.      *)
(***************************************************************************)
Reached(cs, ts, o) ==
  {e \in Events : \/ \E i \in 1 .. Len(cs[o]) : cs[o][i].event = e
                  \/ \E j \in 1 .. Len(ts) : ts[j].observer = o /\ ts[j].event = e}

\* An event reaches the observers left in `rest', and everyone before the next.
ReachedInv ==
  /\ \A o \in Observers : \A e \in Reached(calls, target, o) :
       e <= emitted /\ \A f \in Waiting(queue) : e < f
  /\ rest # <<>> => event # 0
  /\ \A k, l \in 1 .. Len(rest) : rest[k] = rest[l] => k = l
  /\ \A k \in 1 .. Len(rest) : \A e \in Reached(calls, target, rest[k]) : e < event

\* It has reached, or will reach, its audience; and so have the others.
AudienceInv ==
  /\ event # 0 => \A o \in Observers :
       o \in audience[event] <=>
         (\E k \in 1 .. Len(rest) : rest[k] = o) \/ event \in Reached(calls, target, o)
  /\ \A e \in Events : e <= emitted /\ e # event /\ e \notin Waiting(queue) =>
       \A o \in Observers : o \in audience[e] <=> e \in Reached(calls, target, o)

\* Calls and tasks are in the order of the events.
OrderInv ==
  /\ \A o \in Observers : \A i, j \in 1 .. Len(calls[o]) :
       i < j => calls[o][i].event < calls[o][j].event
  /\ \A j, l \in 1 .. Len(target) :
       j < l /\ target[j].observer = target[l].observer => target[j].event < target[l].event
  /\ \A o \in Observers : \A i \in 1 .. Len(calls[o]), j \in 1 .. Len(target) :
       target[j].observer = o => calls[o][i].event < target[j].event
  /\ \A j \in 1 .. Len(target) : target[j].observer \in Queued

\* Who has removed itself is in the audience of no later event.
OnceInv ==
  \A o \in Observers : \A i \in 1 .. Len(calls[o]) : calls[o][i].removing =>
    /\ o \in removed
    /\ \A e \in Events : calls[o][i].after < e /\ e <= emitted => o \notin audience[e]

Inv == Typed /\ QueueInv /\ ReachedInv /\ AudienceInv /\ OrderInv /\ OnceInv

LEMMA WaitingBounds ==
  ASSUME Typed, QueueInv, NEW f \in Waiting(queue)
  PROVE  f \in Events /\ event < f /\ f <= emitted /\ \E c \in Callers : waiting[c] = f
<1>1. PICK n \in 1 .. Len(queue) : Is(queue, n, "emit", f)
  BY DEF Waiting
<1>2. IsEmit(queue, n) /\ queue[n].arg = f
  BY <1>1 DEF Is, IsEmit
<1>3. f \in Events
  BY DEF Waiting
<1>4. event < f /\ f <= emitted
  BY <1>2 DEF QueueInv, Ordered
<1>5. \E c \in Callers : waiting[c] = f
  BY <1>2 DEF QueueInv, Awaited
<1> QED  BY <1>3, <1>4, <1>5

LEMMA ReachedWithTask ==
  ASSUME NEW cs, NEW ts \in Seq(Tasks), NEW t \in Tasks, NEW o
  PROVE  Reached(cs, Append(ts, t), o)
           = Reached(cs, ts, o) \cup (IF t.observer = o THEN {t.event} ELSE {})
<1> DEFINE us == Append(ts, t)
<1>1. /\ Len(us) = Len(ts) + 1 /\ Len(ts) \in Nat
      /\ \A i \in 1 .. Len(ts) : us[i] = ts[i]
      /\ us[Len(ts) + 1] = t
  BY Added
<1> HIDE DEF us
<1>2. t.event \in Events
  BY DEF Tasks
<1>3. ASSUME NEW e
      PROVE  (\E j \in 1 .. Len(us) : us[j].observer = o /\ us[j].event = e) <=>
               \/ \E j \in 1 .. Len(ts) : ts[j].observer = o /\ ts[j].event = e
               \/ t.observer = o /\ t.event = e
  <2>1. \A j \in 1 .. Len(us) : j \in 1 .. Len(ts) \/ j = Len(ts) + 1
    BY <1>1
  <2>2. Len(ts) + 1 \in 1 .. Len(us) /\ \A j \in 1 .. Len(ts) : j \in 1 .. Len(us)
    BY <1>1
  <2> QED  BY <1>1, <2>1, <2>2
<1> QED  BY <1>2, <1>3 DEF us, Reached

LEMMA ReachedWithoutTask ==
  ASSUME NEW cs, NEW ts \in Seq(Tasks), ts # <<>>, NEW o
  PROVE  Reached(cs, ts, o)
           = Reached(cs, Tail(ts), o)
               \cup (IF Head(ts).observer = o THEN {Head(ts).event} ELSE {})
<1> DEFINE us == Tail(ts)
           t == ts[1]
<1>1. /\ t = Head(ts) /\ t \in Tasks
      /\ Len(us) = Len(ts) - 1 /\ Len(ts) \in Nat \ {0}
      /\ \A i \in 1 .. Len(us) : us[i] = ts[i + 1]
  BY Shifted
<1> HIDE DEF us
<1>2. t.event \in Events
  BY <1>1 DEF Tasks
<1>3. ASSUME NEW e
      PROVE  (\E j \in 1 .. Len(ts) : ts[j].observer = o /\ ts[j].event = e) <=>
               \/ \E j \in 1 .. Len(us) : us[j].observer = o /\ us[j].event = e
               \/ t.observer = o /\ t.event = e
  <2>1. \A j \in 1 .. Len(ts) : j = 1 \/ (j - 1 \in 1 .. Len(us) /\ us[j - 1] = ts[j])
    BY <1>1
  <2>2. 1 \in 1 .. Len(ts)
        /\ \A j \in 1 .. Len(us) : j + 1 \in 1 .. Len(ts) /\ us[j] = ts[j + 1]
    BY <1>1
  <2> QED  BY <2>1, <2>2
<1> QED  BY <1>1, <1>2, <1>3 DEF us, Reached

LEMMA ReachedWithCall ==
  ASSUME NEW cs \in [Observers -> Seq(Calls)], NEW p \in Observers, NEW c \in Calls,
         NEW ds, ds[p] = Append(cs[p], c), NEW ts, NEW o \in Observers,
         o # p => ds[o] = cs[o]
  PROVE  Reached(ds, ts, o) = Reached(cs, ts, o) \cup (IF p = o THEN {c.event} ELSE {})
<1>1. ds[p] = Append(cs[p], c) /\ (o # p => ds[o] = cs[o])
  OBVIOUS
<1>2. /\ Len(ds[p]) = Len(cs[p]) + 1 /\ Len(cs[p]) \in Nat
      /\ \A i \in 1 .. Len(cs[p]) : ds[p][i] = cs[p][i]
      /\ ds[p][Len(cs[p]) + 1] = c
  BY <1>1, Added
<1>3. c.event \in Events
  BY DEF Calls
<1>4. ASSUME NEW e
      PROVE  (\E i \in 1 .. Len(ds[o]) : ds[o][i].event = e) <=>
               \/ \E i \in 1 .. Len(cs[o]) : cs[o][i].event = e
               \/ p = o /\ c.event = e
  <2>1. CASE o # p
    BY <1>1, <2>1
  <2>2. CASE o = p
    <3>1. \A j \in 1 .. Len(ds[p]) : j \in 1 .. Len(cs[p]) \/ j = Len(cs[p]) + 1
      BY <1>2
    <3>2. /\ Len(cs[p]) + 1 \in 1 .. Len(ds[p])
          /\ \A j \in 1 .. Len(cs[p]) : j \in 1 .. Len(ds[p])
      BY <1>2
    <3> QED  BY <1>2, <2>2, <3>1, <3>2
  <2> QED  BY <2>1, <2>2
<1> QED  BY <1>3, <1>4 DEF Reached

(***************************************************************************)
(* The steps, by what they change of the event being emitted.              *)
(***************************************************************************)
\* Nobody new is reached.
LEMMA SameReached ==
  ASSUME Typed, QueueInv, Typed', QueueInv', ReachedInv, AudienceInv, Quiet \/ Emits,
         UNCHANGED <<event, rest>>,
         \A o \in Observers : Reached(calls', target', o) = Reached(calls, target, o)
  PROVE  ReachedInv' /\ AudienceInv'
<1>1. emitted \in Nat /\ event \in Nat /\ \A k \in 1 .. Len(rest) : rest[k] \in Observers
  BY EmitterAssumption DEF Typed
<1>2. \A o \in Observers : \A e \in Reached(calls, target, o) : e \in Nat
  BY EmitterAssumption DEF Reached, Events
<1>3. ASSUME NEW o \in Observers, NEW e \in Reached(calls', target', o)
      PROVE  e <= emitted' /\ \A f \in Waiting(queue') : e < f
  BY <1>1, <1>2, <1>3 DEF ReachedInv, Quiet, Emits
<1>4. ReachedInv'
  <2>1. \A k \in 1 .. Len(rest) : \A e \in Reached(calls', target', rest[k]) : e < event
    BY <1>1 DEF ReachedInv
  <2> QED  BY <1>3, <2>1 DEF ReachedInv
<1>5. event # 0 => event \in Events /\ event <= emitted
  BY <1>1, EmitterAssumption DEF Typed, QueueInv, Ordered, Events
<1>6. \A e \in Events : e <= emitted => audience'[e] = audience[e]
  BY <1>1 DEF Quiet, Emits, Typed
<1>7. event # 0 => \A o \in Observers :
        o \in audience'[event] <=>
          (\E k \in 1 .. Len(rest) : rest[k] = o) \/ event \in Reached(calls', target', o)
  BY <1>5, <1>6 DEF AudienceInv
<1>8. ASSUME NEW e \in Events, e <= emitted', e # event, e \notin Waiting(queue'),
             NEW o \in Observers
      PROVE  o \in audience'[e] <=> e \in Reached(calls', target', o)
  <2>1. e <= emitted /\ e \notin Waiting(queue)
    BY <1>1, <1>8, EmitterAssumption DEF Quiet, Emits, Events
  <2> QED  BY <1>6, <1>8, <2>1 DEF AudienceInv
<1> QED  BY <1>4, <1>7, <1>8 DEF AudienceInv

\* The event reaches the next observer.
LEMMA NextReached ==
  ASSUME Typed, QueueInv, Typed', QueueInv', ReachedInv, AudienceInv, Quiet \/ Emits,
         rest # <<>>, rest' = Tail(rest), UNCHANGED event,
         \A o \in Observers :
           Reached(calls', target', o)
             = Reached(calls, target, o) \cup (IF Head(rest) = o THEN {event} ELSE {})
  PROVE  ReachedInv' /\ AudienceInv'
<1>1. /\ emitted \in Nat /\ event \in Events /\ event <= emitted
      /\ \A k \in 1 .. Len(rest) : rest[k] \in Observers
  BY EmitterAssumption DEF Typed, ReachedInv, QueueInv, Ordered, Events
<1>2. \A o \in Observers : \A e \in Reached(calls, target, o) : e \in Nat
  BY EmitterAssumption DEF Reached, Events
<1>3. /\ Head(rest) = rest[1] /\ 1 \in 1 .. Len(rest) /\ Len(rest) \in Nat
      /\ Len(rest') = Len(rest) - 1
      /\ \A k \in 1 .. Len(rest') : rest'[k] = rest[k + 1] /\ k + 1 \in 1 .. Len(rest)
  BY Shifted DEF Typed
<1>4. \A f \in Waiting(queue') : f \in Nat /\ event < f
  <2>1. \A f \in Waiting(queue) : f \in Nat /\ event < f
    BY WaitingBounds, EmitterAssumption DEF Events
  <2> QED  BY <1>1, <2>1, EmitterAssumption DEF Quiet, Emits, Events
<1>5. ASSUME NEW o \in Observers, NEW e \in Reached(calls', target', o)
      PROVE  e <= emitted' /\ \A f \in Waiting(queue') : e < f
  <2>1. CASE e \in Reached(calls, target, o)
    BY <1>1, <1>2, <2>1 DEF ReachedInv, Quiet, Emits
  <2>2. CASE e = event
    BY <1>1, <1>4, <2>2, EmitterAssumption DEF Quiet, Emits, Events
  <2> QED  BY <1>5, <2>1, <2>2
<1>6. ASSUME NEW k \in 1 .. Len(rest')
      PROVE  /\ rest'[k] # Head(rest) /\ rest'[k] \in Observers
             /\ \A l \in 1 .. Len(rest') : rest'[k] = rest'[l] => k = l
             /\ \A e \in Reached(calls', target', rest'[k]) : e < event
  <2>1. k + 1 \in 1 .. Len(rest) /\ k + 1 # 1 /\ rest'[k] = rest[k + 1]
    BY <1>3
  <2>2. rest[k + 1] # rest[1] /\ rest[k + 1] \in Observers
    BY <1>1, <1>3, <2>1 DEF ReachedInv
  <2>3. ASSUME NEW l \in 1 .. Len(rest'), rest'[k] = rest'[l] PROVE k = l
    <3>1. l + 1 \in 1 .. Len(rest) /\ rest'[l] = rest[l + 1]
      BY <1>3
    <3>2. k + 1 = l + 1
      BY <2>1, <2>3, <3>1 DEF ReachedInv
    <3> QED  BY <1>3, <3>2
  <2>4. Reached(calls', target', rest'[k]) = Reached(calls, target, rest[k + 1])
    BY <1>3, <2>1, <2>2
  <2>5. \A e \in Reached(calls, target, rest[k + 1]) : e < event
    BY <2>1 DEF ReachedInv
  <2> QED  BY <1>3, <2>1, <2>2, <2>3, <2>4, <2>5
<1>7. ReachedInv'
  <2>1. event # 0
    BY <1>1, EmitterAssumption DEF Events
  <2> QED  BY <1>5, <1>6, <2>1 DEF ReachedInv
<1>8. \A e \in Events : e <= emitted => audience'[e] = audience[e]
  BY <1>1 DEF Quiet, Emits, Typed
<1>9. ASSUME NEW o \in Observers
      PROVE  (\E k \in 1 .. Len(rest) : rest[k] = o) <=>
               Head(rest) = o \/ \E k \in 1 .. Len(rest') : rest'[k] = o
  <2>1. ASSUME NEW k \in 1 .. Len(rest), rest[k] = o, k # 1
        PROVE  \E l \in 1 .. Len(rest') : rest'[l] = o
    <3>1. k - 1 \in 1 .. Len(rest') /\ (k - 1) + 1 = k
      BY <1>3, <2>1
    <3> QED  BY <1>3, <2>1, <3>1
  <2>2. ASSUME NEW k \in 1 .. Len(rest'), rest'[k] = o
        PROVE  \E l \in 1 .. Len(rest) : rest[l] = o
    BY <1>3, <2>2
  <2> QED  BY <1>3, <2>1, <2>2
<1>10. ASSUME NEW o \in Observers
       PROVE  o \in audience'[event] <=>
                \/ \E k \in 1 .. Len(rest') : rest'[k] = o
                \/ event \in Reached(calls', target', o)
  <2>1. event # 0
    BY <1>1, EmitterAssumption DEF Events
  <2>2. o \in audience[event] <=>
          (\E k \in 1 .. Len(rest) : rest[k] = o) \/ event \in Reached(calls, target, o)
    BY <2>1 DEF AudienceInv
  <2> QED  BY <1>1, <1>8, <1>9, <2>2
<1>11. ASSUME NEW e \in Events, e <= emitted', e # event, e \notin Waiting(queue'),
              NEW o \in Observers
       PROVE  o \in audience'[e] <=> e \in Reached(calls', target', o)
  <2>1. e <= emitted /\ e \notin Waiting(queue)
    BY <1>1, <1>11, EmitterAssumption DEF Quiet, Emits, Events
  <2> QED  BY <1>8, <1>11, <2>1 DEF AudienceInv
<1> QED  BY <1>7, <1>10, <1>11 DEF AudienceInv

\* The next event is emitted.
LEMMA EventBegins ==
  ASSUME Typed, QueueInv, ReachedInv, AudienceInv, RunEmit
  PROVE  ReachedInv' /\ AudienceInv'
<1>1. /\ Typed' /\ QueueInv' /\ event' \in Events /\ rest' = observers /\ event = 0
      /\ Waiting(queue) = Waiting(queue') \cup {event'}
      /\ \A o \in Observers :
           o \in audience[event'] <=> \E k \in 1 .. Len(rest') : rest'[k] = o
      /\ \A k, l \in 1 .. Len(rest') : rest'[k] = rest'[l] => k = l
      /\ UNCHANGED <<calls, target, emitted, audience>>
  BY RunEmitStep DEF QueueStep, RunEmit, At
<1>2. \A k \in 1 .. Len(rest') : rest'[k] \in Observers
  BY <1>1 DEF Typed
<1>3. event' # 0 /\ event' \in Nat
  BY <1>1, EmitterAssumption DEF Events
<1>4. ASSUME NEW o \in Observers, NEW e \in Reached(calls, target, o)
      PROVE  e \in Nat /\ e < event'
  <2>1. e < event'
    BY <1>1 DEF ReachedInv
  <2>2. e \in Nat
    BY EmitterAssumption DEF Reached, Events
  <2> QED  BY <2>1, <2>2
<1>5. ReachedInv'
  <2>1. ASSUME NEW o \in Observers, NEW e \in Reached(calls, target, o)
        PROVE  e <= emitted /\ \A f \in Waiting(queue') : e < f
    BY <1>1 DEF ReachedInv
  <2> QED  BY <1>1, <1>2, <1>3, <1>4, <2>1 DEF ReachedInv
<1>6. \A o \in Observers : event' \notin Reached(calls, target, o)
  BY <1>3, <1>4
<1>7. ASSUME NEW e \in Events, e <= emitted, e # event', e \notin Waiting(queue'),
             NEW o \in Observers
      PROVE  o \in audience[e] <=> e \in Reached(calls, target, o)
  <2>1. e \notin Waiting(queue) /\ e # event
    BY <1>1, <1>7, EmitterAssumption DEF Events
  <2> QED  BY <1>7, <2>1 DEF AudienceInv
<1> QED  BY <1>1, <1>5, <1>6, <1>7 DEF AudienceInv

\* The event has reached everyone.
LEMMA EventEnds ==
  ASSUME Typed, QueueInv, ReachedInv, AudienceInv, EndEmit
  PROVE  ReachedInv' /\ AudienceInv'
<1>1. /\ event # 0 /\ rest = <<>> /\ event' = 0
      /\ UNCHANGED <<queue, rest, calls, target, emitted, audience>>
  BY DEF EndEmit, Looping
<1>2. ReachedInv'
  BY <1>1 DEF ReachedInv
<1>3. \A o \in Observers : o \in audience[event] <=> event \in Reached(calls, target, o)
  BY <1>1 DEF AudienceInv
<1>4. ASSUME NEW e \in Events, e <= emitted, e \notin Waiting(queue), NEW o \in Observers
      PROVE  o \in audience[e] <=> e \in Reached(calls, target, o)
  BY <1>3, <1>4 DEF AudienceInv
<1> QED  BY <1>1, <1>2, <1>4 DEF AudienceInv

\* What a call of p for e changes of the calls.
Told(p, e) ==
  /\ \A o \in Observers : Reached(calls', target, o)
       = Reached(calls, target, o) \cup (IF p = o THEN {e} ELSE {})
  /\ \A o \in Observers : \A i \in 1 .. Len(calls'[o]) :
       \/ i \in 1 .. Len(calls[o]) /\ calls'[o][i] = calls[o][i]
       \/ o = p /\ calls'[o][i].event = e
  /\ \E i \in 1 .. Len(calls'[p]) : calls'[p][i].event = e
  /\ \A i, j \in 1 .. Len(calls'[p]) : i < j => calls'[p][i].event < calls'[p][j].event
  /\ \A o \in Observers : o # p => calls'[o] = calls[o]

(***************************************************************************)
(* A call, of whoever makes it: what it adds to the observer's calls.      *)
(***************************************************************************)
LEMMA CallRecord ==
  ASSUME Typed, Typed', OnceInv, NEW c, NEW p \in Observers, NEW e \in Events,
         Call(c, p, e), Quiet \/ Emits, e <= emitted, OrderInv,
         \A i \in 1 .. Len(calls[p]) : calls[p][i].event < e
  PROVE  Told(p, e) /\ OnceInv'
<1> DEFINE r == [event |-> e, after |-> emitted, removing |-> p \in assigned]
<1>1. emitted \in Events /\ emitted \in Nat
  BY EmitterAssumption DEF Typed, Events
<1>2. r \in Calls /\ r.event = e /\ r.after = emitted /\ r.removing = (p \in assigned)
  BY <1>1 DEF Calls
<1>3. /\ calls' = [calls EXCEPT ![p] = Append(calls[p], r)]
      /\ removed' = IF p \in assigned THEN removed \cup {p} ELSE removed
  BY DEF Call
<1> HIDE DEF r
<1>4. ASSUME NEW o \in Observers
      PROVE  /\ Reached(calls', target, o)
                  = Reached(calls, target, o) \cup (IF p = o THEN {e} ELSE {})
             /\ o # p => calls'[o] = calls[o]
  <2>1. calls \in [Observers -> Seq(Calls)]
    BY DEF Typed
  <2>2. calls'[p] = Append(calls[p], r) /\ (o # p => calls'[o] = calls[o])
    BY <1>3, <2>1
  <2>3. Reached(calls', target, o)
          = Reached(calls, target, o) \cup (IF p = o THEN {r.event} ELSE {})
    BY <1>2, <2>1, <2>2, ReachedWithCall
  <2> QED  BY <1>2, <2>2, <2>3
<1>5. /\ Len(calls'[p]) = Len(calls[p]) + 1 /\ Len(calls[p]) \in Nat
      /\ \A i \in 1 .. Len(calls[p]) : calls'[p][i] = calls[p][i]
      /\ calls'[p][Len(calls[p]) + 1] = r
  <2>1. calls[p] \in Seq(Calls) /\ calls'[p] = Append(calls[p], r)
    BY <1>3 DEF Typed
  <2> QED  BY <1>2, <2>1, Added
<1>6. ASSUME NEW o \in Observers, NEW i \in 1 .. Len(calls'[o])
      PROVE  \/ i \in 1 .. Len(calls[o]) /\ calls'[o][i] = calls[o][i]
             \/ o = p /\ calls'[o][i] = r
  <2>1. CASE o # p
    BY <1>4, <1>6, <2>1
  <2>2. CASE o = p
    <3>1. i \in 1 .. Len(calls[p]) \/ i = Len(calls[p]) + 1
      BY <1>5, <1>6, <2>2
    <3> QED  BY <1>5, <2>2, <3>1
  <2> QED  BY <2>1, <2>2
<1>7. ASSUME NEW i \in 1 .. Len(calls'[p]), NEW j \in 1 .. Len(calls'[p]), i < j
      PROVE  calls'[p][i].event < calls'[p][j].event
  <2>1. i \in 1 .. Len(calls[p]) /\ (j \in 1 .. Len(calls[p]) \/ j = Len(calls[p]) + 1)
    BY <1>5, <1>7
  <2> QED  BY <1>2, <1>5, <1>7, <2>1 DEF OrderInv
<1>8. OnceInv'
  <2>1. \A f \in Events : f <= emitted => audience'[f] = audience[f]
    BY <1>1 DEF Quiet, Emits, Typed
  <2>2. ASSUME NEW o \in removed', NEW f \in Events, emitted < f, f <= emitted'
        PROVE  o \notin audience'[f]
    <3>1. f = emitted + 1 /\ Emits
      BY <1>1, <2>2, EmitterAssumption DEF Quiet, Emits, Events
    <3> QED  BY <2>2, <3>1 DEF Emits, Typed
  <2>3. ASSUME NEW o \in Observers, NEW i \in 1 .. Len(calls'[o]), calls'[o][i].removing
        PROVE  /\ o \in removed'
               /\ \A f \in Events : calls'[o][i].after < f /\ f <= emitted'
                                   => o \notin audience'[f]
    <3>1. CASE i \in 1 .. Len(calls[o]) /\ calls'[o][i] = calls[o][i]
      <4>1. /\ o \in removed /\ removed \subseteq removed'
            /\ \A f \in Events : calls[o][i].after < f /\ f <= emitted
                                 => o \notin audience[f]
        BY <2>3, <3>1 DEF OnceInv, Quiet, Emits
      <4>2. \A f \in Events : f <= emitted \/ emitted < f
        BY <1>1, EmitterAssumption DEF Events
      <4> QED  BY <2>1, <2>2, <3>1, <4>1, <4>2
    <3>2. CASE o = p /\ calls'[o][i] = r
      <4>1. p \in assigned /\ o \in removed'
        BY <1>2, <1>3, <2>3, <3>2
      <4> QED  BY <1>2, <2>2, <3>2, <4>1
    <3> QED  BY <1>6, <3>1, <3>2
  <2> QED  BY <2>3 DEF OnceInv
<1>9. \E i \in 1 .. Len(calls'[p]) : calls'[p][i].event = e
  <2>1. Len(calls[p]) + 1 \in 1 .. Len(calls'[p])
    BY <1>5
  <2> QED  BY <1>2, <1>5, <2>1
<1> QED  BY <1>2, <1>4, <1>6, <1>7, <1>8, <1>9 DEF Told

\* Without a call.
LEMMA OnceKept ==
  ASSUME Typed, OnceInv, UNCHANGED calls, removed \subseteq removed',
         Emits \/ UNCHANGED <<emitted, audience>>
  PROVE  OnceInv'
<1>1. emitted \in Nat
  BY EmitterAssumption DEF Typed
<1>2. ASSUME NEW o \in removed, NEW e \in Events, e <= emitted', o \in audience'[e]
      PROVE  e <= emitted /\ o \in audience[e]
  <2>1. CASE UNCHANGED <<emitted, audience>>
    BY <1>2, <2>1
  <2>2. CASE Emits
    BY <1>1, <1>2, <2>2, EmitterAssumption DEF Emits, Typed, Events
  <2> QED  BY <2>1, <2>2
<1> QED  BY <1>2 DEF OnceInv

LEMMA NoTaskYet ==
  ASSUME Typed, ReachedInv, rest # <<>>
  PROVE  /\ Head(rest) \in Observers
         /\ \A e \in Reached(calls, target, Head(rest)) : e < event
         /\ \A i \in 1 .. Len(calls[Head(rest)]) : calls[Head(rest)][i].event < event
         /\ \A j \in 1 .. Len(target) :
              target[j].observer = Head(rest) => target[j].event < event
<1>1. Head(rest) = rest[1] /\ Head(rest) \in Observers /\ 1 \in 1 .. Len(rest)
  BY Shifted DEF Typed
<1>2. \A e \in Reached(calls, target, Head(rest)) : e < event
  BY <1>1 DEF ReachedInv
<1>3. ASSUME NEW i \in 1 .. Len(calls[Head(rest)])
      PROVE  calls[Head(rest)][i].event < event
  <2>1. calls[Head(rest)] \in Seq(Calls)
    BY <1>1 DEF Typed
  <2>2. calls[Head(rest)][i] \in Calls
    BY <2>1
  <2>3. calls[Head(rest)][i].event \in Reached(calls, target, Head(rest))
    BY <2>2 DEF Calls, Reached
  <2> QED  BY <1>2, <2>3
<1>4. ASSUME NEW j \in 1 .. Len(target), target[j].observer = Head(rest)
      PROVE  target[j].event < event
  <2>1. target[j] \in Tasks
    BY DEF Typed
  <2>2. target[j].event \in Reached(calls, target, Head(rest))
    BY <1>4, <2>1 DEF Tasks, Reached
  <2> QED  BY <1>2, <2>2
<1> QED  BY <1>1, <1>2, <1>3, <1>4

LEMMA DispatchKeeps ==
  ASSUME Inv, Dispatch
  PROVE  ReachedInv' /\ AudienceInv' /\ OrderInv' /\ OnceInv'
<1> DEFINE t == [observer |-> Head(rest), event |-> event]
<1>1. /\ Typed /\ QueueInv /\ ReachedInv /\ AudienceInv /\ OrderInv /\ OnceInv
      /\ Typed' /\ QueueInv' /\ Quiet
  BY DispatchStep DEF Inv, QueueStep
<1>2. /\ rest # <<>> /\ Head(rest) \in Queued /\ target' = Append(target, t)
      /\ rest' = Tail(rest) /\ Head(rest) \in Observers /\ event \in Events
      /\ UNCHANGED <<event, calls, removed, emitted, audience>>
  BY <1>1, NoTaskYet DEF Dispatch, Looping, Typed, Events
<1>3. t \in Tasks /\ t.observer = Head(rest) /\ t.event = event
  BY <1>2 DEF Tasks
<1> HIDE DEF t
<1>4. \A o \in Observers :
        Reached(calls', target', o)
          = Reached(calls, target, o) \cup (IF Head(rest) = o THEN {event} ELSE {})
  BY <1>1, <1>2, <1>3, ReachedWithTask DEF Typed
<1>5. ReachedInv' /\ AudienceInv'
  BY <1>1, <1>2, <1>4, NextReached
<1>6. /\ Len(target') = Len(target) + 1 /\ Len(target) \in Nat
      /\ \A j \in 1 .. Len(target) : target'[j] = target[j]
      /\ target'[Len(target) + 1] = t
  BY <1>1, <1>2, <1>3, Added DEF Typed
<1>7. \A j \in 1 .. Len(target') :
        (j \in 1 .. Len(target) /\ target'[j] = target[j])
          \/ (j = Len(target) + 1 /\ target'[j] = t)
  BY <1>6
<1>8. OrderInv'
  <2>1. ASSUME NEW j \in 1 .. Len(target'), NEW l \in 1 .. Len(target'),
               j < l, target'[j].observer = target'[l].observer
        PROVE  target'[j].event < target'[l].event
    <3>1. j \in 1 .. Len(target) /\ target'[j] = target[j]
      BY <1>6, <2>1
    <3>2. CASE l = Len(target) + 1
      BY <1>1, <1>2, <1>3, <1>6, <2>1, <3>1, <3>2, NoTaskYet
    <3>3. CASE l \in 1 .. Len(target) /\ target'[l] = target[l]
      BY <1>1, <2>1, <3>1, <3>3 DEF OrderInv
    <3> QED  BY <1>7, <3>2, <3>3
  <2>2. ASSUME NEW o \in Observers, NEW i \in 1 .. Len(calls[o]),
               NEW j \in 1 .. Len(target'), target'[j].observer = o
        PROVE  calls[o][i].event < target'[j].event
    <3>1. CASE j = Len(target) + 1
      BY <1>1, <1>2, <1>3, <1>6, <2>2, <3>1, NoTaskYet
    <3>2. CASE j \in 1 .. Len(target) /\ target'[j] = target[j]
      BY <1>1, <2>2, <3>2 DEF OrderInv
    <3> QED  BY <1>7, <3>1, <3>2
  <2>3. \A j \in 1 .. Len(target') : target'[j].observer \in Queued
    BY <1>1, <1>2, <1>3, <1>7 DEF OrderInv
  <2> QED  BY <1>1, <1>2, <2>1, <2>2, <2>3 DEF OrderInv
<1>9. OnceInv'
  BY <1>1, <1>2, OnceKept
<1> QED  BY <1>5, <1>8, <1>9

LEMMA CallDirectlyKeeps ==
  ASSUME Inv, CallDirectly
  PROVE  ReachedInv' /\ AudienceInv' /\ OrderInv' /\ OnceInv'
<1> DEFINE p == Head(rest)
<1>1. /\ Typed /\ QueueInv /\ ReachedInv /\ AudienceInv /\ OrderInv /\ OnceInv
      /\ Typed' /\ QueueInv' /\ (Quiet \/ Emits)
  BY CallDirectlyStep DEF Inv, QueueStep
<1>2. /\ rest # <<>> /\ p \notin Queued /\ rest' = Tail(rest) /\ p \in Observers
      /\ event \in Events /\ event <= emitted /\ Call("emitter", p, event)
      /\ UNCHANGED <<event, target>>
  BY <1>1, NoTaskYet DEF CallDirectly, Looping, Typed, Events, QueueInv, Ordered
<1>3. \A i \in 1 .. Len(calls[p]) : calls[p][i].event < event
  BY <1>1, <1>2, NoTaskYet
<1> HIDE DEF p
<1>4. Told(p, event) /\ OnceInv'
  BY <1>1, <1>2, <1>3, CallRecord
<1>5. ReachedInv' /\ AudienceInv'
  <2>1. \A o \in Observers :
          Reached(calls', target', o)
            = Reached(calls, target, o) \cup (IF Head(rest) = o THEN {event} ELSE {})
    BY <1>2, <1>4 DEF p, Told
  <2> QED  BY <1>1, <1>2, <2>1, NextReached
<1>6. OrderInv'
  <2>1. ASSUME NEW o \in Observers, NEW i \in 1 .. Len(calls'[o]), NEW j \in 1 .. Len(calls'[o]),
               i < j
        PROVE  calls'[o][i].event < calls'[o][j].event
    BY <1>1, <1>4, <2>1 DEF OrderInv, Told
  <2>2. ASSUME NEW o \in Observers, NEW i \in 1 .. Len(calls'[o]), NEW j \in 1 .. Len(target),
               target[j].observer = o
        PROVE  calls'[o][i].event < target[j].event
    <3>1. o # p
      BY <1>1, <1>2, <2>2 DEF OrderInv, Told
    <3> QED  BY <1>1, <1>4, <2>2, <3>1 DEF OrderInv, Told
  <2> QED  BY <1>1, <1>2, <2>1, <2>2 DEF OrderInv, Told
<1> QED  BY <1>4, <1>5, <1>6

LEMMA RunTargetKeeps ==
  ASSUME Inv, RunTarget
  PROVE  Typed' /\ QueueInv' /\ ReachedInv' /\ AudienceInv' /\ OrderInv' /\ OnceInv'
<1> DEFINE p == Head(target).observer
           e == Head(target).event
<1>1. Typed /\ QueueInv /\ ReachedInv /\ AudienceInv /\ OrderInv /\ OnceInv
  BY DEF Inv
<1>2. /\ target # <<>> /\ target \in Seq(Tasks)
      /\ target' = Tail(target) /\ Call("target", p, e) /\ UNCHANGED <<event, rest>>
  BY <1>1 DEF RunTarget, Typed
<1>3. /\ Head(target) = target[1] /\ Head(target) \in Tasks
       /\ Len(target) \in Nat \ {0} /\ Len(Tail(target)) = Len(target) - 1
       /\ \A j \in 1 .. Len(Tail(target)) : Tail(target)[j] = target[j + 1]
  BY <1>2, Shifted
<1>4. /\ 1 \in 1 .. Len(target) /\ Len(target') = Len(target) - 1 /\ Len(target) \in Nat
       /\ \A j \in 1 .. Len(target') : target'[j] = target[j + 1] /\ j + 1 \in 1 .. Len(target)
  BY <1>2, <1>3
<1>5. p \in Observers /\ e \in Events /\ target[1].observer = p /\ target[1].event = e
  BY <1>3 DEF Tasks
<1>6. \A i \in 1 .. Len(calls[p]) : calls[p][i].event < e
  BY <1>1, <1>4, <1>5 DEF OrderInv
<1>7. e \in Reached(calls, target, p)
  BY <1>4, <1>5 DEF Reached
<1>8. e <= emitted
  BY <1>1, <1>7, <1>5 DEF ReachedInv
<1>9. Typed' /\ QueueInv' /\ (Quiet \/ Emits)
  BY <1>1, <1>8, RunTargetStep DEF QueueStep
<1>10. \A o \in Observers :
        Reached(calls, target, o)
          = Reached(calls, target', o) \cup (IF p = o THEN {e} ELSE {})
  BY <1>2, ReachedWithoutTask
<1> HIDE DEF p, e
<1>11. Told(p, e) /\ OnceInv'
  BY <1>1, <1>2, <1>6, <1>8, <1>9, <1>5, CallRecord
<1>12. ASSUME NEW o \in Observers
      PROVE  Reached(calls', target', o) = Reached(calls, target, o)
  <2>1. Reached(calls', target, o)
          = Reached(calls', target', o) \cup (IF p = o THEN {e} ELSE {})
    BY <1>2, ReachedWithoutTask DEF p, e
  <2>2. p = o => e \in Reached(calls', target', o)
    BY <1>11, <1>5 DEF Reached, Told
  <2> QED  BY <1>7, <1>11, <2>1, <2>2 DEF Told
<1>13. ReachedInv' /\ AudienceInv'
  BY <1>1, <1>2, <1>9, <1>12, SameReached
<1>14. OrderInv'
  <2>1. ASSUME NEW o \in Observers, NEW i \in 1 .. Len(calls'[o]), NEW j \in 1 .. Len(calls'[o]),
               i < j
        PROVE  calls'[o][i].event < calls'[o][j].event
    BY <1>1, <1>11, <2>1 DEF OrderInv, Told
  <2>2. ASSUME NEW j \in 1 .. Len(target'), NEW l \in 1 .. Len(target'),
               j < l, target'[j].observer = target'[l].observer
        PROVE  target'[j].event < target'[l].event
    <3>1. j + 1 \in 1 .. Len(target) /\ l + 1 \in 1 .. Len(target) /\ j + 1 < l + 1
      BY <1>4, <2>2
    <3> QED  BY <1>1, <1>4, <2>2, <3>1 DEF OrderInv
  <2>3. ASSUME NEW o \in Observers, NEW i \in 1 .. Len(calls'[o]), NEW j \in 1 .. Len(target'),
               target'[j].observer = o
        PROVE  calls'[o][i].event < target'[j].event
    <3>1. /\ j + 1 \in 1 .. Len(target) /\ 1 < j + 1 /\ target'[j] = target[j + 1]
      BY <1>4
    <3>2. CASE i \in 1 .. Len(calls[o]) /\ calls'[o][i] = calls[o][i]
      BY <1>1, <2>3, <3>1, <3>2 DEF OrderInv
    <3>3. CASE o = p /\ calls'[o][i].event = e
      BY <1>1, <1>4, <1>5, <2>3, <3>1, <3>3 DEF OrderInv
    <3> QED  BY <1>11, <2>3, <3>2, <3>3 DEF Told
  <2>4. \A j \in 1 .. Len(target') : target'[j].observer \in Queued
    BY <1>1, <1>4 DEF OrderInv
  <2> QED  BY <2>1, <2>2, <2>3, <2>4 DEF OrderInv
<1> QED  BY <1>9, <1>11, <1>13, <1>14

-----------------------------------------------------------------------------
(***************************************************************************)
(* The invariant is inductive.                                             *)
(***************************************************************************)
LEMMA InvInit == Init => Inv
<1> SUFFICES ASSUME Init PROVE Inv
  OBVIOUS
<1>1. Typed
  BY EmitterAssumption DEF Init, Typed
<1>2. queue = <<>> /\ Len(queue) = 0 /\ observers = <<>> /\ Len(observers) = 0
  BY DEF Init
<1>3. Registered(queue, observers, known)
  BY <1>2 DEF Registered
<1>4. Ordered(queue, event, emitted)
  BY <1>2 DEF Init, Ordered
<1>5. Reaching(queue, observers, known, removed, audience)
  BY <1>2 DEF Init, Reaching, Finds
<1>6. Awaited(queue, event, waiting)
  BY <1>2 DEF Init, Awaited
<1>7. /\ Waiting(queue) = {}
      /\ \A o \in Observers : Reached(calls, target, o) = {}
  BY <1>2 DEF Init, Waiting, Reached
<1>8. ReachedInv
  BY <1>7 DEF Init, ReachedInv
<1>9. AudienceInv
  BY <1>7, EmitterAssumption DEF Init, AudienceInv, Events
<1>10. OrderInv /\ OnceInv
  BY DEF Init, OrderInv, OnceInv
<1> QED  BY <1>1, <1>3, <1>4, <1>5, <1>6, <1>8, <1>9, <1>10 DEF Inv, QueueInv

\* Steps of which the calls, the tasks and the event know nothing.
LEMMA QuietKeeps ==
  ASSUME Inv, Typed', QueueInv', Quiet \/ Emits, UNCHANGED <<event, rest, calls, target>>
  PROVE  Inv'
<1>1. ReachedInv' /\ AudienceInv'
  BY SameReached DEF Inv
<1>2. OrderInv'
  BY DEF Inv, OrderInv
<1>3. OnceInv'
  BY OnceKept DEF Inv, Quiet, Emits
<1> QED  BY <1>1, <1>2, <1>3 DEF Inv

LEMMA InvStep == Inv /\ [Next]_vars => Inv'
<1> SUFFICES ASSUME Inv, [Next]_vars PROVE Inv'
  OBVIOUS
<1>1. Typed /\ QueueInv /\ ReachedInv /\ AudienceInv /\ OrderInv /\ OnceInv
  BY DEF Inv
<1>2. CASE UNCHANGED vars
  BY <1>1, <1>2 DEF vars, Inv, Typed, QueueInv, ReachedInv, AudienceInv, OrderInv, OnceInv
<1>3. ASSUME NEW o \in Observers, Observe(o) PROVE Inv'
  BY <1>1, <1>3, ObserveStep, QuietKeeps DEF QueueStep, Observe
<1>4. ASSUME NEW o \in Observers, Assign(o) PROVE Inv'
  BY <1>1, <1>4, AssignStep, QuietKeeps DEF QueueStep, Assign
<1>5. ASSUME NEW o \in Observers, Remove(o) PROVE Inv'
  BY <1>1, <1>5, RemoveStep, QuietKeeps DEF QueueStep, Remove
<1>6. ASSUME NEW t \in Threads, Emit(t) PROVE Inv'
  BY <1>1, <1>6, EmitStep, QuietKeeps DEF QueueStep, Emit
<1>7. CASE RunObserve
  BY <1>1, <1>7, RunObserveStep, QuietKeeps DEF QueueStep, RunObserve, At
<1>8. CASE RunRemove
  BY <1>1, <1>8, RunRemoveStep, QuietKeeps DEF QueueStep, RunRemove, At
<1>9. CASE RunEmit
  <2>1. Typed' /\ QueueInv' /\ ReachedInv' /\ AudienceInv'
    BY <1>1, <1>9, RunEmitStep, EventBegins DEF QueueStep
  <2>2. UNCHANGED <<target, emitted, removed, audience, calls>>
    BY <1>9 DEF RunEmit
  <2>3. OrderInv'
    BY <1>1, <2>2 DEF OrderInv
  <2>4. OnceInv'
    BY <1>1, <2>2, OnceKept
  <2> QED  BY <2>1, <2>3, <2>4 DEF Inv
<1>10. CASE Dispatch
  BY <1>1, <1>10, DispatchStep, DispatchKeeps DEF QueueStep, Inv
<1>11. CASE CallDirectly
  BY <1>1, <1>11, CallDirectlyStep, CallDirectlyKeeps DEF QueueStep, Inv
<1>12. CASE EndEmit
  <2>1. Typed' /\ QueueInv' /\ ReachedInv' /\ AudienceInv'
    BY <1>1, <1>12, EndEmitStep, EventEnds DEF QueueStep
  <2>2. UNCHANGED <<target, emitted, removed, audience, calls>>
    BY <1>12 DEF EndEmit
  <2>3. OrderInv'
    BY <1>1, <2>2 DEF OrderInv
  <2>4. OnceInv'
    BY <1>1, <2>2, OnceKept
  <2> QED  BY <2>1, <2>3, <2>4 DEF Inv
<1>13. CASE RunTarget
  BY <1>13, RunTargetKeeps DEF Inv
<1> QED
  BY <1>2, <1>3, <1>4, <1>5, <1>6, <1>7, <1>8, <1>9, <1>10, <1>11, <1>12, <1>13
     DEF Next, EmitterQueue

LEMMA AlwaysInv == Spec => []Inv
  BY InvInit, InvStep, PTL DEF Spec

-----------------------------------------------------------------------------
(* The variables keep their types, an observer is never in the list twice, *)
(* and while an event is emitted its caller waits for it.                  *)
THEOREM EmitterTypeCorrect == Spec => []TypeOK
<1>1. ASSUME Inv PROVE TypeOK
  <2>1. Typed /\ Registered(queue, observers, known) /\ Awaited(queue, event, waiting)
    BY <1>1 DEF Inv, QueueInv
  <2>2. DOMAIN observers = 1 .. Len(observers)
    BY <2>1 DEF Typed
  <2>3. \A k, l \in DOMAIN observers : observers[k] = observers[l] => k = l
    BY <2>1, <2>2 DEF Registered
  <2>4. event # 0 => \E c \in Callers : waiting[c] = event
    BY <2>1 DEF Awaited
  <2> QED  BY <2>1, <2>3, <2>4 DEF Typed, Tasks, TypeOK
<1> QED  BY <1>1, AlwaysInv, PTL

(* An event whose emit has returned reached exactly the observers that had *)
(* been registered and not removed when emit was called, however observe,  *)
(* remove and other emits interleave with it: the queue's blocks find in   *)
(* the list what the callers had in mind when they added them.             *)
THEOREM EmitterReachesItsAudience == Spec => []ReachesItsAudience
<1>1. ASSUME Inv, NEW e \in 1 .. emitted, \A c \in Callers : waiting[c] # e,
             NEW o \in Observers
      PROVE  e \in Called(o) \cup Dispatched(o) <=> o \in audience[e]
  <2>1. Typed /\ QueueInv /\ AudienceInv
    BY <1>1 DEF Inv
  <2>2. e \in Events /\ e <= emitted
    BY <2>1, EmitterAssumption DEF Typed, Events
  <2>3. e \notin Waiting(queue)
    BY <1>1, <2>1, WaitingBounds
  <2>4. e # event
    BY <1>1, <2>1, <2>2, EmitterAssumption DEF QueueInv, Awaited, Events
  <2>5. o \in audience[e] <=> e \in Reached(calls, target, o)
    BY <2>1, <2>2, <2>3, <2>4 DEF AudienceInv
  <2>6. e \in Called(o) \cup Dispatched(o) <=> e \in Reached(calls, target, o)
    BY <2>1, <2>2 DEF Called, Dispatched, Reached, Typed
  <2> QED  BY <2>5, <2>6
<1>2. Inv => ReachesItsAudience
  BY <1>1 DEF ReachesItsAudience
<1> QED  BY <1>2, AlwaysInv, PTL

(* An observer is called for events in the order of their emits, each at   *)
(* most once, whichever thread emits them and on whatever queue it runs.   *)
THEOREM EmitterCallsInOrder == Spec => []CalledInOrder
<1>1. ASSUME Inv, NEW o \in Observers
      PROVE  \A i, j \in DOMAIN calls[o] : i < j => calls[o][i].event < calls[o][j].event
  <2>1. calls[o] \in Seq(Calls) /\ DOMAIN calls[o] = 1 .. Len(calls[o])
    BY <1>1 DEF Inv, Typed
  <2> QED  BY <1>1, <2>1 DEF Inv, OrderInv
<1>2. Inv => CalledInOrder
  BY <1>1 DEF CalledInOrder
<1> QED  BY <1>2, AlwaysInv, PTL

(* After the first call that removed a `once' observer, no event emitted   *)
(* later than that call reaches it.                                        *)
THEOREM EmitterOnceIsLastCall == Spec => []OnceIsLastCall
<1>1. ASSUME Inv, NEW o \in Once, NEW i \in DOMAIN calls[o], NEW j \in DOMAIN calls[o],
             i < j, calls[o][i].removing, ~ (calls[o][j].event <= calls[o][i].after)
      PROVE  FALSE
  <2>1. Typed /\ QueueInv /\ ReachedInv /\ AudienceInv /\ OnceInv /\ o \in Observers
    BY <1>1, EmitterAssumption DEF Inv
  <2>2. calls[o] \in Seq(Calls)
    BY <2>1 DEF Typed
  <2>3. /\ i \in 1 .. Len(calls[o]) /\ j \in 1 .. Len(calls[o])
        /\ calls[o][i] \in Calls /\ calls[o][j] \in Calls
    BY <2>2
  <2> DEFINE e == calls[o][j].event
  <2>4. e \in Events /\ calls[o][i].after < e
    BY <1>1, <2>3, EmitterAssumption DEF Calls, Events
  <2>5. e \in Reached(calls, target, o)
    BY <2>3, <2>4 DEF Reached
  <2>6. e <= emitted /\ e \notin Waiting(queue)
    BY <2>1, <2>4, <2>5, EmitterAssumption DEF ReachedInv, Events
  <2>7. o \in audience[e]
    <3>1. CASE e = event
      <4>1. event # 0
        BY <2>4, <3>1, EmitterAssumption DEF Events
      <4> QED  BY <2>1, <2>5, <3>1, <4>1 DEF AudienceInv
    <3>2. CASE e # event
      BY <2>1, <2>4, <2>5, <2>6, <3>2 DEF AudienceInv
    <3> QED  BY <3>1, <3>2
  <2> QED  BY <1>1, <2>1, <2>3, <2>4, <2>6, <2>7 DEF OnceInv
<1>2. ASSUME Inv, NEW o \in Once, NEW i \in DOMAIN calls[o]
      PROVE  calls[o][i].after \in Nat
             /\ \A j \in DOMAIN calls[o] : calls[o][j].event \in Nat
  <2>1. calls[o] \in Seq(Calls)
    BY <1>2, EmitterAssumption DEF Inv, Typed
  <2>2. \A j \in DOMAIN calls[o] : calls[o][j] \in Calls
    BY <2>1
  <2>3. \A c \in Calls : c.after \in Nat /\ c.event \in Nat
    BY EmitterAssumption DEF Calls, Events
  <2> QED  BY <1>2, <2>2, <2>3
<1>3. Inv => OnceIsLastCall
  BY <1>1, <1>2 DEF OnceIsLastCall
<1> QED  BY <1>3, AlwaysInv, PTL
=============================================================================
