--------------------------- MODULE RecursionLemmas ---------------------------
(***************************************************************************)
(* Lemmas about recursive functions and the sequences they build: what the *)
(* proofs about the reader and about the messages share.                   *)
(*                                                                         *)
(* A recursive function is the one that CHOOSE picks among those that      *)
(* satisfy its equations.  Runs says that there is one, Induct what it is. *)
(***************************************************************************)
EXTENDS Integers, SequencesExt, SequenceTheorems, WellFoundedInduction, TLAPS

(***************************************************************************)
(* Induction up to a number, for sets.                                     *)
(***************************************************************************)
LEMMA Least ==
  ASSUME NEW S, S \subseteq Nat, S # {}
  PROVE  \E m \in S : \A k \in S : m <= k
<1> DEFINE R == {p \in Nat \X Nat : p[1] < p[2]}
<1>1. IsWellFoundedOn(R, Nat)
  BY NatLessThanWellFounded DEF OpToRel
<1>2. PICK m \in S : \A k \in S : ~ (<<k, m>> \in R)
  <2> HIDE DEF R
  <2> QED  BY <1>1, WFMin
<1>3. \A k \in S : ~ (k < m)
  BY <1>2
<1> QED  BY <1>2, <1>3

\* What holds at 0 and is passed on holds up to n.
LEMMA Induct ==
  ASSUME NEW n \in Nat, NEW S, 0 \in S, \A i \in 1 .. n : i - 1 \in S => i \in S
  PROVE  \A i \in 0 .. n : i \in S
<1> SUFFICES ASSUME NEW k \in 0 .. n, k \notin S
             PROVE  FALSE
  OBVIOUS
<1> DEFINE M == {i \in 0 .. n : i \notin S}
<1>1. M \subseteq Nat /\ k \in M
  OBVIOUS
<1>2. PICK m \in M : \A i \in M : m <= i
  <2> HIDE DEF M
  <2> QED  BY <1>1, Least
<1>3. m \in 1 .. n /\ m - 1 \in 0 .. n
  BY <1>2
<1>4. m - 1 \in S
  BY <1>2, <1>3
<1> QED  BY <1>2, <1>3, <1>4

(***************************************************************************)
(* The turns of a loop that stay within S, as a function of their number.  *)
(***************************************************************************)
IsRun(f, n, S, first, step) ==
  /\ f \in [0 .. n -> S] /\ f[0] = first
  /\ \A i \in 1 .. n : f[i] = step[i][f[i - 1]]

\* A loop of n turns has a state after each of its turns.
LEMMA Runs ==
  ASSUME NEW n \in Nat, NEW S, NEW first \in S, NEW step \in [1 .. n -> [S -> S]]
  PROVE  \E f : IsRun(f, n, S, first, step)
<1> DEFINE Run(f, m) == /\ f \in [0 .. m -> S] /\ f[0] = first
                        /\ \A i \in 1 .. m : f[i] = step[i][f[i - 1]]
           Reached == {m \in 0 .. n : \E f : Run(f, m)}
<1>1. 0 \in Reached
  <2> DEFINE f == [i \in 0 .. 0 |-> first]
  <2>1. Run(f, 0)
    OBVIOUS
  <2> HIDE DEF Run, f
  <2> QED  BY <2>1
<1>2. ASSUME NEW m \in 1 .. n, m - 1 \in Reached
      PROVE  m \in Reached
  <2>1. PICK g : Run(g, m - 1)
    BY <1>2
  <2> DEFINE f == [i \in 0 .. m |-> IF i = m THEN step[m][g[m - 1]] ELSE g[i]]
  <2>2. /\ m - 1 \in 0 .. m - 1 /\ m \in Nat /\ m # 0 /\ 0 \in 0 .. m - 1
        /\ \A i \in 0 .. m : i # m => i \in 0 .. m - 1
        /\ \A i \in 1 .. m : i # m => i \in 1 .. m - 1
        /\ \A i \in 1 .. m : i - 1 \in 0 .. m - 1 /\ i \in 0 .. m
    OBVIOUS
  <2>3. /\ g \in [0 .. m - 1 -> S] /\ g[0] = first
        /\ \A i \in 1 .. m - 1 : g[i] = step[i][g[i - 1]]
    BY <2>1
  <2>4. f \in [0 .. m -> S] /\ f[0] = first
    BY <2>2, <2>3
  <2>5. \A i \in 1 .. m : f[i] = step[i][f[i - 1]]
    BY <2>2, <2>3
  <2>6. Run(f, m)
    BY <2>4, <2>5
  <2> HIDE DEF Run, f
  <2> QED  BY <2>6
<1> HIDE DEF Reached
<1>3. n \in Reached
  <2>1. \A i \in 0 .. n : i \in Reached
    BY <1>1, <1>2, Induct
  <2> QED  BY <2>1
<1>4. PICK f : Run(f, n)
  BY <1>3 DEF Reached
<1>5. IsRun(f, n, S, first, step)
  BY <1>4 DEF IsRun
<1> QED  BY <1>5

(***************************************************************************)
(* What a fold joins, and what a reader leaves of it.                      *)
(***************************************************************************)
IsFlat(f, seqs, n) ==
  f = [i \in 1 .. n |-> IF i = 1 THEN seqs[i] ELSE f[i - 1] \o seqs[i]]

\* FlattenSeq joins one sequence after the other.
LEMMA Flattened ==
  ASSUME NEW n \in Nat \ {0}, NEW seqs, Len(seqs) = n, NEW g, IsFlat(g, seqs, n)
  PROVE  FlattenSeq(seqs) = g[n]
<1> DEFINE Flat(f) == f = [i \in 1 .. n |-> IF i = 1 THEN seqs[i] ELSE f[i - 1] \o seqs[i]]
           Differ(f) == {i \in 1 .. n : f[i] # g[i]}
<1>1. PICK f : Flat(f) /\ f = CHOOSE h : Flat(h)
  <2>1. Flat(g)
    BY DEF IsFlat
  <2> HIDE DEF Flat
  <2> QED  BY <2>1
<1>2. FlattenSeq(seqs) = f[n]
  <2>1. FlattenSeq(seqs) = (CHOOSE h : Flat(h))[n]
    BY DEF FlattenSeq
  <2> HIDE DEF Flat
  <2> QED  BY <1>1, <2>1
<1>3. Differ(f) = {}
  <2> SUFFICES ASSUME Differ(f) # {}
               PROVE  FALSE
    OBVIOUS
  <2>1. PICK m \in Differ(f) : \A k \in Differ(f) : m <= k
    <3>1. Differ(f) \subseteq Nat
      OBVIOUS
    <3> HIDE DEF Differ
    <3> QED  BY <3>1, Least
  <2>2. m \in 1 .. n /\ f[m] # g[m]
    BY <2>1
  <2>3. m # 1
    BY <1>1, <2>2 DEF IsFlat
  <2>4. m - 1 \in 1 .. n /\ f[m - 1] = g[m - 1]
    BY <2>1, <2>2, <2>3
  <2>5. f[m] = f[m - 1] \o seqs[m] /\ g[m] = g[m - 1] \o seqs[m]
    BY <1>1, <2>2, <2>3 DEF IsFlat
  <2> QED  BY <2>2, <2>4, <2>5
<1>4. f[n] = g[n]
  <2>1. n \in 1 .. n
    OBVIOUS
  <2> QED  BY <1>3, <2>1
<1> QED  BY <1>2, <1>4

(***************************************************************************)
(* Bytes, as sequences of numbers.                                         *)
(***************************************************************************)
Octets == Seq(Int)

LEMMA OctetsConcat ==
  ASSUME NEW x \in Octets, NEW y \in Octets
  PROVE  x \o y \in Octets
BY DEF Octets

LEMMA OctetsConcatEmpty ==
  /\ <<>> \in Octets
  /\ \A x \in Octets : x \o <<>> = x /\ <<>> \o x = x
BY ConcatEmptySeq DEF Octets

LEMMA OctetsRegroup ==
  ASSUME NEW x \in Octets, NEW y \in Octets, NEW z \in Octets
  PROVE  (x \o y) \o z = x \o (y \o z)
BY ConcatAssociative DEF Octets

Joins(f, parts, n) ==
  f[0] = <<>> /\ \A i \in 1 .. n : f[i] = f[i - 1] \o parts[i]

Leaves(rest, parts, n) ==
  rest[n] = <<>> /\ \A i \in 1 .. n : rest[i - 1] = parts[i] \o rest[i]

\* What has been joined and what is left of it make the whole.
LEMMA JoinedInTurn ==
  ASSUME NEW n \in Nat, NEW parts \in [1 .. n -> Octets],
         NEW f \in [0 .. n -> Octets], NEW left \in [0 .. n -> Octets],
         Joins(f, parts, n), Leaves(left, parts, n)
  PROVE  \A i \in 0 .. n : f[i] \o left[i] = left[0]
<1> DEFINE T == {i \in 0 .. n : f[i] \o left[i] = left[0]}
<1>1. 0 \in T
  <2>1. left[0] \in Octets /\ 0 \in 0 .. n
    OBVIOUS
  <2>2. <<>> \o left[0] = left[0]
    BY <2>1, OctetsConcatEmpty
  <2> QED  BY <2>1, <2>2 DEF Joins
<1>2. ASSUME NEW i \in 1 .. n, i - 1 \in T
      PROVE  i \in T
  <2>1. i \in 0 .. n /\ i - 1 \in 0 .. n
    OBVIOUS
  <2>2. f[i - 1] \in Octets /\ parts[i] \in Octets /\ left[i] \in Octets
    BY <2>1
  <2>3. (f[i - 1] \o parts[i]) \o left[i] = f[i - 1] \o (parts[i] \o left[i])
    BY <2>2, OctetsRegroup
  <2>4. f[i - 1] \o left[i - 1] = left[0]
    BY <1>2
  <2>5. f[i] = f[i - 1] \o parts[i] /\ left[i - 1] = parts[i] \o left[i]
    BY DEF Joins, Leaves
  <2> QED  BY <2>1, <2>3, <2>4, <2>5
<1> HIDE DEF T
<1>3. \A i \in 0 .. n : i \in T
  BY <1>1, <1>2, Induct
<1> QED  BY <1>3 DEF T

LEMMA FlattenedInTurn ==
  ASSUME NEW n \in Nat, NEW parts \in [1 .. n -> Octets], NEW f, Joins(f, parts, n)
  PROVE  FlattenSeq(parts) = f[n]
<1>1. CASE n = 0
  <2>1. parts = <<>> /\ Len(parts) = 0
    BY <1>1
  <2> QED  BY <1>1, <2>1 DEF FlattenSeq, Joins
<1>2. CASE n # 0
  <2> DEFINE g == [i \in 1 .. n |-> f[i]]
  <2>1. f[1] = parts[1]
    <3>1. 1 \in 1 .. n /\ parts[1] \in Octets /\ 1 - 1 = 0
      BY <1>2
    <3>2. <<>> \o parts[1] = parts[1]
      BY <3>1, OctetsConcatEmpty
    <3> QED  BY <3>1, <3>2 DEF Joins
  <2>2. \A i \in 1 .. n : i # 1 => i - 1 \in 1 .. n
    OBVIOUS
  <2>3. IsFlat(g, parts, n)
    BY <2>1, <2>2 DEF Joins, IsFlat
  <2>4. n \in 1 .. n /\ n \in Nat \ {0}
    BY <1>2
  <2>5. g[n] = f[n]
    BY <2>4
  <2> HIDE DEF g
  <2>6. Len(parts) = n
    OBVIOUS
  <2>7. FlattenSeq(parts) = g[n]
    BY <2>3, <2>4, <2>6, Flattened
  <2> QED  BY <2>5, <2>7
<1> QED  BY <1>1, <1>2

\* What FlattenSeq makes can be taken apart again, front first.
LEMMA Remainders ==
  ASSUME NEW n \in Nat, NEW parts \in [1 .. n -> Octets]
  PROVE  \E rest \in [0 .. n -> Octets] :
           rest[0] = FlattenSeq(parts) /\ Leaves(rest, parts, n)
<1>1. <<>> \in Octets
  BY OctetsConcatEmpty
<1>3. PICK f : f \in [0 .. n -> Octets] /\ Joins(f, parts, n)
  <2> DEFINE step == [i \in 1 .. n |-> [s \in Octets |-> s \o parts[i]]]
  <2>1. step \in [1 .. n -> [Octets -> Octets]]
    BY OctetsConcat
  <2>2. \A i \in 1 .. n : \A s \in Octets : step[i][s] = s \o parts[i]
    OBVIOUS
  <2> HIDE DEF step
  <2>3. PICK f : IsRun(f, n, Octets, <<>>, step)
    BY <1>1, <2>1, Runs
  <2>4. \A i \in 1 .. n : f[i - 1] \in Octets
    BY <2>3 DEF IsRun
  <2>5. f \in [0 .. n -> Octets] /\ Joins(f, parts, n)
    BY <2>2, <2>3, <2>4 DEF IsRun, Joins
  <2> QED  BY <2>5
<1>4. PICK b : /\ b \in [0 .. n -> Octets] /\ b[0] = <<>>
               /\ \A i \in 1 .. n : b[i] = parts[n - i + 1] \o b[i - 1]
  <2> DEFINE step == [i \in 1 .. n |-> [s \in Octets |-> parts[n - i + 1] \o s]]
  <2>1. step \in [1 .. n -> [Octets -> Octets]]
    BY OctetsConcat
  <2>2. \A i \in 1 .. n : \A s \in Octets : step[i][s] = parts[n - i + 1] \o s
    OBVIOUS
  <2> HIDE DEF step
  <2>3. PICK h : IsRun(h, n, Octets, <<>>, step)
    BY <1>1, <2>1, Runs
  <2>4. \A i \in 1 .. n : h[i - 1] \in Octets
    BY <2>3 DEF IsRun
  <2>5. /\ h \in [0 .. n -> Octets] /\ h[0] = <<>>
        /\ \A i \in 1 .. n : h[i] = parts[n - i + 1] \o h[i - 1]
    BY <2>2, <2>3, <2>4 DEF IsRun
  <2> QED  BY <2>5
<1> DEFINE left == [i \in 0 .. n |-> b[n - i]]
<1>5. left \in [0 .. n -> Octets] /\ Leaves(left, parts, n)
  <2>1. \A i \in 0 .. n : n - i \in 0 .. n
    OBVIOUS
  <2>2. ASSUME NEW i \in 1 .. n
        PROVE  left[i - 1] = parts[i] \o left[i]
    <3>1. PICK k \in 1 .. n : k = n - i + 1
      OBVIOUS
    <3>2. n - k + 1 = i /\ k - 1 = n - i /\ n - (i - 1) = k /\ i \in 0 .. n /\ i - 1 \in 0 .. n
      BY <3>1
    <3>3. b[k] = parts[i] \o b[n - i]
      BY <1>4, <3>2
    <3> QED  BY <3>2, <3>3
  <2>3. n \in 0 .. n /\ n - n = 0
    OBVIOUS
  <2> QED  BY <1>4, <2>1, <2>2, <2>3 DEF Leaves
<1> HIDE DEF left
<1>7. \A i \in 0 .. n : f[i] \o left[i] = left[0]
  BY <1>3, <1>5, JoinedInTurn
<1>8. FlattenSeq(parts) = f[n]
  BY <1>3, FlattenedInTurn
<1>9. left[0] = f[n]
  <2>1. f[n] \in Octets /\ n \in 0 .. n
    BY <1>3
  <2>2. f[n] \o <<>> = f[n]
    BY <2>1, OctetsConcatEmpty
  <2>3. left[n] = <<>>
    BY <1>5 DEF Leaves
  <2> QED  BY <1>7, <2>1, <2>2, <2>3
<1>10. left \in [0 .. n -> Octets] /\ left[0] = FlattenSeq(parts)
  BY <1>5, <1>8, <1>9
<1> QED  BY <1>5, <1>10
=============================================================================
