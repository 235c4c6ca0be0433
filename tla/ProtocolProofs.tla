--------------------------- MODULE ProtocolProofs ---------------------------
(***************************************************************************)
(* What Protocol's properties say of bounded messages and of bytes of one  *)
(* bit, for every value of the constants: strings of any letters, numbers  *)
(* and lists of any length that the protocol's counts can hold, and bytes  *)
(* of any even number of values.  A step is a message of its own, so what  *)
(* is to be shown is not an induction over the steps but over the bytes:   *)
(* every reader, given what was written and anything behind it, returns    *)
(* what was meant and leaves what is behind.  Such facts compose: a number *)
(* is read, then a string, a column, a list of columns, a row.  Integers   *)
(* are read by the powers of the base their digits are written in.         *)
(***************************************************************************)
EXTENDS Protocol, RecursionLemmas, TLAPS

-----------------------------------------------------------------------------
(* Numbers to a base.                                                      *)

\* Division and its remainder.
LEMMA DivMod ==
  ASSUME NEW n \in Int, NEW base \in Nat, base > 1
  PROVE  /\ n \div base \in Int /\ n % base \in 0 .. base - 1
         /\ n = (n \div base) * base + (n % base)
OBVIOUS

LEMMA Quotient ==
  ASSUME NEW n \in Int, NEW base \in Nat, base > 1,
         NEW a \in Int, NEW r \in 0 .. base - 1, n = a * base + r
  PROVE  n \div base = a /\ n % base = r
OBVIOUS

\* A quotient is bounded as its dividend is.
LEMMA DivBounds ==
  ASSUME NEW n \in Int, NEW base \in Nat, base > 1, NEW m \in Int
  PROVE  /\ n < m * base => n \div base < m
         /\ m * base <= n => m <= n \div base
OBVIOUS

(***************************************************************************)
(* What is left of a number when its lowest digits are removed.            *)
(***************************************************************************)
IsQuotients(q, n, w, base) ==
  /\ q \in [0 .. w -> Int] /\ q[0] = n
  /\ \A i \in 1 .. w : q[i] = q[i - 1] \div base

LEMMA Quotients ==
  ASSUME NEW n \in Int, NEW w \in Nat, NEW base \in Nat, base > 1
  PROVE  \E q : IsQuotients(q, n, w, base)
<1> DEFINE step == [i \in 1 .. w |-> [x \in Int |-> x \div base]]
<1>1. step \in [1 .. w -> [Int -> Int]]
  BY DivMod
<1>2. \A i \in 1 .. w : \A x \in Int : step[i][x] = x \div base
  OBVIOUS
<1> HIDE DEF step
<1>3. PICK q : IsRun(q, w, Int, n, step)
  BY <1>1, Runs
<1>4. \A i \in 1 .. w : q[i - 1] \in Int
  BY <1>3 DEF IsRun
<1>5. IsQuotients(q, n, w, base)
  BY <1>2, <1>3, <1>4 DEF IsRun, IsQuotients
<1> QED  BY <1>5

\* Repeated division leaves the high digits of a number.
LEMMA HighDigits ==
  ASSUME NEW n \in Int, NEW w \in Nat, NEW base \in Nat, base > 1,
         NEW q, IsQuotients(q, n, w, base), NEW m \in 0 .. w
  PROVE  Repeat(LAMBDA j, high : high \div base, m, n) = q[m]
<1> DEFINE Fits(f) == f = [i \in 0 .. m |-> IF i = 0 THEN n ELSE f[i - 1] \div base]
           g == [i \in 0 .. m |-> q[i]]
<1>1. Fits(g)
  BY DEF IsQuotients
<1>2. PICK h : Fits(h) /\ h = CHOOSE f : Fits(f)
  <2> HIDE DEF Fits, g
  <2> QED  BY <1>1
<1>3. Repeat(LAMBDA j, high : high \div base, m, n) = h[m]
  <2>1. Repeat(LAMBDA j, high : high \div base, m, n) = (CHOOSE f : Fits(f))[m]
    BY DEF Repeat
  <2> HIDE DEF Fits
  <2> QED  BY <1>2, <2>1
<1>4. \A i \in 0 .. m : h[i] = q[i]
  <2> DEFINE T == {i \in 0 .. m : h[i] = q[i]}
  <2>1. 0 \in T
    BY <1>2 DEF IsQuotients
  <2>2. \A i \in 1 .. m : i - 1 \in T => i \in T
    BY <1>2 DEF IsQuotients
  <2> HIDE DEF T
  <2>3. \A i \in 0 .. m : i \in T
    BY <2>1, <2>2, Induct
  <2> QED  BY <2>3 DEF T
<1>5. h[m] = q[m]
  BY <1>4
<1> QED  BY <1>3, <1>5

LEMMA BigEndianDigits ==
  ASSUME NEW n \in Int, NEW w \in Nat, NEW base \in Nat, base > 1,
         NEW q, IsQuotients(q, n, w, base)
  PROVE  BigEndian(n, w, base) = [i \in 1 .. w |-> q[w - i] % base]
<1>1. \A i \in 1 .. w : w - i \in 0 .. w
  OBVIOUS
<1>2. \A i \in 1 .. w : Repeat(LAMBDA j, high : high \div base, w - i, n) = q[w - i]
  BY <1>1, HighDigits
<1> QED  BY <1>2 DEF BigEndian

\* An encoded number has as many bytes as it is given, and each of them is a digit.
LEMMA BigEndianType ==
  ASSUME NEW n \in Int, NEW w \in Nat, NEW base \in Nat, base > 1
  PROVE  /\ BigEndian(n, w, base) \in [1 .. w -> 0 .. base - 1]
         /\ BigEndian(n, w, base) \in Octets /\ Len(BigEndian(n, w, base)) = w
<1>1. PICK q : IsQuotients(q, n, w, base)
  BY Quotients
<1>2. BigEndian(n, w, base) = [i \in 1 .. w |-> q[w - i] % base]
  BY <1>1, BigEndianDigits
<1>3. \A i \in 1 .. w : q[w - i] \in Int
  BY <1>1 DEF IsQuotients
<1>4. \A i \in 1 .. w : q[w - i] % base \in 0 .. base - 1
  BY <1>3, DivMod
<1>5. BigEndian(n, w, base) \in [1 .. w -> 0 .. base - 1]
  BY <1>2, <1>4
<1>6. \A b \in [1 .. w -> 0 .. base - 1] : b \in Octets /\ Len(b) = w
  BY DEF Octets
<1> QED  BY <1>5, <1>6

(***************************************************************************)
(* A decoder adds the digits to the sign, the highest first.               *)
(***************************************************************************)
Sign(bytes, signed, base) == IF signed /\ bytes[1] >= base \div 2 THEN -1 ELSE 0

IsSum(d, bytes, sign, w, base) ==
  /\ d \in [0 .. w -> Int] /\ d[0] = sign
  /\ \A i \in 1 .. w : d[i] = d[i - 1] * base + bytes[i]

\* What the decoder computes is the sum of the digits.
LEMMA DecodedSum ==
  ASSUME NEW bytes, NEW w \in Nat, Len(bytes) = w, NEW base \in Nat, base > 1,
         NEW signed \in BOOLEAN, NEW d, IsSum(d, bytes, Sign(bytes, signed, base), w, base)
  PROVE  Decoded(bytes, signed, base) = d[w]
<1> DEFINE sign == Sign(bytes, signed, base)
           Fits(f) == f = [i \in 0 .. w |-> IF i = 0 THEN sign ELSE f[i - 1] * base + bytes[i]]
           g == [i \in 0 .. w |-> d[i]]
<1>1. Fits(g)
  <2> HIDE DEF sign
  <2> QED  BY DEF IsSum, sign
<1>2. PICK h : Fits(h) /\ h = CHOOSE f : Fits(f)
  <2> HIDE DEF Fits, g
  <2> QED  BY <1>1
<1>3. Decoded(bytes, signed, base) = h[w]
  <2>1. Decoded(bytes, signed, base) = (CHOOSE f : Fits(f))[w]
    BY DEF Decoded, Repeat, Sign
  <2> HIDE DEF Fits
  <2> QED  BY <1>2, <2>1
<1> HIDE DEF sign
<1>4. \A i \in 0 .. w : h[i] = d[i]
  <2> DEFINE T == {i \in 0 .. w : h[i] = d[i]}
  <2>1. 0 \in T
    BY <1>2 DEF IsSum, sign
  <2>2. \A i \in 1 .. w : i - 1 \in T => i \in T
    BY <1>2 DEF IsSum, sign
  <2> HIDE DEF T
  <2>3. \A i \in 0 .. w : i \in T
    BY <2>1, <2>2, Induct
  <2> QED  BY <2>3 DEF T
<1> QED  BY <1>3, <1>4

\* If what is left above the digits is their sign, decoding gives back the number.
LEMMA DecodesDigits ==
  ASSUME NEW n \in Int, NEW w \in Nat, NEW base \in Nat, base > 1,
         NEW signed \in BOOLEAN, NEW q, IsQuotients(q, n, w, base),
         q[w] = Sign(BigEndian(n, w, base), signed, base)
  PROVE  Decoded(BigEndian(n, w, base), signed, base) = n
<1> DEFINE bytes == BigEndian(n, w, base)
           d == [i \in 0 .. w |-> q[w - i]]
<1>1. bytes = [i \in 1 .. w |-> q[w - i] % base] /\ Len(bytes) = w
  BY BigEndianDigits, BigEndianType
<1>2. \A i \in 0 .. w : w - i \in 0 .. w
  OBVIOUS
<1>3. d \in [0 .. w -> Int]
  BY <1>2 DEF IsQuotients
<1>4. ASSUME NEW i \in 1 .. w
      PROVE  d[i] = d[i - 1] * base + bytes[i]
  <2>1. PICK k \in 1 .. w : k = w - i + 1
    OBVIOUS
  <2>2. k - 1 = w - i /\ k = w - (i - 1) /\ i \in 0 .. w /\ i - 1 \in 0 .. w /\ k - 1 \in 0 .. w
    BY <2>1
  <2>3. q[k] = q[k - 1] \div base /\ q[k - 1] \in Int
    BY <2>2 DEF IsQuotients
  <2>4. q[k - 1] = q[k] * base + (q[k - 1] % base)
    BY <2>3, DivMod
  <2>5. d[i] = q[k - 1] /\ d[i - 1] = q[k] /\ bytes[i] = q[k - 1] % base
    BY <1>1, <2>2
  <2> QED  BY <2>4, <2>5
<1>5. d[0] = q[w] /\ d[w] = n
  BY DEF IsQuotients
<1>6. IsSum(d, bytes, Sign(bytes, signed, base), w, base)
  <2> HIDE DEF d
  <2> QED  BY <1>3, <1>4, <1>5 DEF IsSum
<1> HIDE DEF d, bytes
<1>7. Decoded(bytes, signed, base) = d[w]
  BY <1>1, <1>6, DecodedSum
<1> QED  BY <1>5, <1>7 DEF bytes

(***************************************************************************)
(* The numbers of a width.                                                 *)
(***************************************************************************)
IsPowers(p, w, base) ==
  /\ p \in [0 .. w -> Nat \ {0}] /\ p[0] = 1
  /\ \A i \in 1 .. w : p[i] = p[i - 1] * base

LEMMA Powers ==
  ASSUME NEW w \in Nat, NEW base \in Nat, base > 1
  PROVE  \E p : IsPowers(p, w, base)
<1> DEFINE P == Nat \ {0}
           step == [i \in 1 .. w |-> [x \in P |-> x * base]]
<1>1. \A x \in P : x * base \in P
  OBVIOUS
<1>2. step \in [1 .. w -> [P -> P]] /\ 1 \in P
  BY <1>1
<1>3. \A i \in 1 .. w : \A x \in P : step[i][x] = x * base
  OBVIOUS
<1> HIDE DEF step, P
<1>4. PICK p : IsRun(p, w, P, 1, step)
  BY <1>2, Runs
<1>5. \A i \in 1 .. w : p[i - 1] \in P
  BY <1>4 DEF IsRun
<1>6. p \in [0 .. w -> P] /\ p[0] = 1 /\ \A i \in 1 .. w : p[i] = p[i - 1] * base
  BY <1>3, <1>4, <1>5 DEF IsRun
<1>7. IsPowers(p, w, base)
  BY <1>6 DEF IsPowers, P
<1> QED  BY <1>7

LEMMA PowerSteps ==
  ASSUME NEW w \in Nat, NEW base \in Nat, NEW p, IsPowers(p, w, base)
  PROVE  \A i \in 1 .. w : p[i] = p[i - 1] * base /\ p[i - 1] \in Nat \ {0}
BY DEF IsPowers

\* As many values as there are digits.
LEMMA ValuesArePowers ==
  ASSUME NEW w \in Nat, NEW p, IsPowers(p, w, Radix), NEW m \in 0 .. w
  PROVE  Values(m) = p[m]
<1> DEFINE Fits(f) == f = [i \in 0 .. m |-> IF i = 0 THEN 1 ELSE f[i - 1] * Radix]
           g == [i \in 0 .. m |-> p[i]]
<1>1. Fits(g)
  BY DEF IsPowers
<1>2. PICK h : Fits(h) /\ h = CHOOSE f : Fits(f)
  <2> HIDE DEF Fits, g
  <2> QED  BY <1>1
<1>3. Values(m) = h[m]
  <2>1. Values(m) = (CHOOSE f : Fits(f))[m]
    BY DEF Values, Repeat
  <2> HIDE DEF Fits
  <2> QED  BY <1>2, <2>1
<1>4. \A i \in 0 .. m : h[i] = p[i]
  <2> DEFINE T == {i \in 0 .. m : h[i] = p[i]}
  <2>1. 0 \in T
    BY <1>2 DEF IsPowers
  <2>2. \A i \in 1 .. m : i - 1 \in T => i \in T
    BY <1>2 DEF IsPowers
  <2> HIDE DEF T
  <2>3. \A i \in 0 .. m : i \in T
    BY <2>1, <2>2, Induct
  <2> QED  BY <2>3 DEF T
<1>5. h[m] = p[m]
  BY <1>4
<1> QED  BY <1>3, <1>5

(***************************************************************************)
(* Quotients of a number stay within the powers that bound it.             *)
(***************************************************************************)
LEMMA QuotientsUnsigned ==
  ASSUME NEW n \in Int, NEW w \in Nat, NEW base \in Nat, base > 1,
         NEW q, IsQuotients(q, n, w, base), NEW p, IsPowers(p, w, base),
         0 <= n, n < p[w]
  PROVE  q[w] = 0
<1> DEFINE T == {i \in 0 .. w : 0 <= q[i] /\ q[i] < p[w - i]}
<1>1. 0 \in T
  BY DEF IsQuotients
<1>2. ASSUME NEW i \in 1 .. w, i - 1 \in T
      PROVE  i \in T
  <2>1. PICK k \in 1 .. w : k = w - i + 1
    OBVIOUS
  <2>2. k - 1 = w - i /\ k = w - (i - 1) /\ i \in 0 .. w /\ i - 1 \in 0 .. w /\ k - 1 \in 0 .. w
    BY <2>1
  <2>3. q[i] = q[i - 1] \div base /\ q[i - 1] \in Int /\ p[k] = p[k - 1] * base /\ p[k - 1] \in Int
    <3>1. q[i] = q[i - 1] \div base /\ q[i - 1] \in Int
      BY <2>2 DEF IsQuotients
    <3>2. p[k] = p[k - 1] * base
      BY DEF IsPowers
    <3>3. p[k - 1] \in Nat \ {0}
      BY <2>2 DEF IsPowers
    <3> QED  BY <3>1, <3>2, <3>3
  <2>4. 0 <= q[i - 1] /\ q[i - 1] < p[k - 1] * base
    BY <1>2, <2>2, <2>3
  <2>5. 0 * base <= q[i - 1]
    BY <2>4
  <2>6. 0 <= q[i - 1] \div base /\ q[i - 1] \div base < p[k - 1]
    BY <2>3, <2>4, <2>5, DivBounds
  <2> QED  BY <2>2, <2>3, <2>6
<1> HIDE DEF T
<1>3. \A i \in 0 .. w : i \in T
  BY <1>1, <1>2, Induct
<1>4. w \in T
  BY <1>3
<1>5. 0 <= q[w] /\ q[w] < p[w - w]
  BY <1>4 DEF T
<1>6. w - w = 0 /\ p[0] = 1 /\ q[w] \in Int
  BY DEF IsPowers, IsQuotients
<1> QED  BY <1>5, <1>6

\* The highest digit of a signed number says its sign.
LEMMA QuotientsSigned ==
  ASSUME NEW n \in Int, NEW w \in Nat \ {0}, NEW base \in Nat, NEW half \in Nat \ {0}, base = 2 * half,
         NEW q, IsQuotients(q, n, w, base), NEW p, IsPowers(p, w, base),
         -(p[w - 1] * half) <= n, n < p[w - 1] * half
  PROVE  -half <= q[w - 1] /\ q[w - 1] < half
<1> DEFINE v == w - 1
           T == {i \in 0 .. v : -(p[v - i] * half) <= q[i] /\ q[i] < p[v - i] * half}
<1>0. v \in Nat /\ base > 1 /\ \A i \in 0 .. v : i \in 0 .. w /\ v - i \in 0 .. v
  OBVIOUS
<1>1. 0 \in T
  BY <1>0 DEF IsQuotients
<1>2. ASSUME NEW i \in 1 .. v, i - 1 \in T
      PROVE  i \in T
  <2>1. PICK k \in 1 .. v : k = v - i + 1
    BY <1>0
  <2>2. /\ k - 1 = v - i /\ k = v - (i - 1) /\ i \in 0 .. v /\ i - 1 \in 0 .. v /\ k - 1 \in 0 .. v
        /\ i \in 1 .. w /\ i - 1 \in 0 .. w /\ k \in 1 .. w /\ k - 1 \in 0 .. w
    BY <1>0, <2>1
  <2>3. q[i] = q[i - 1] \div base /\ q[i - 1] \in Int
    BY <2>2 DEF IsQuotients
  <2>4. p[k] = p[k - 1] * base /\ p[k - 1] \in Int
    <3>1. \A j \in 1 .. w : p[j] = p[j - 1] * base /\ p[j - 1] \in Nat \ {0}
      BY <1>0, PowerSteps
    <3> QED  BY <2>2, <3>1
  <2> HIDE DEF v
  <2>5. -(p[k] * half) <= q[i - 1] /\ q[i - 1] < p[k] * half
    BY <1>2, <2>2
  <2>6. PICK m \in Int : m = p[k - 1] * half
    BY <2>4
  <2>7. p[k] * half = m * base
    <3>1. \A a \in Int : (a * base) * half = (a * half) * base
      OBVIOUS
    <3> QED  BY <2>4, <2>6, <3>1
  <2>8. (-m) * base <= q[i - 1] /\ q[i - 1] < m * base
    <3>1. \A a, b \in Int : (-a) * b = -(a * b)
      OBVIOUS
    <3>2. (-m) * base = -(m * base)
      BY <3>1
    <3> QED  BY <2>5, <2>7, <3>2
  <2>9. -m <= q[i - 1] \div base /\ q[i - 1] \div base < m
    BY <1>0, <2>3, <2>8, DivBounds
  <2> QED  BY <2>2, <2>3, <2>6, <2>9
<1>3. \A i \in 0 .. v : i \in T
  <2> HIDE DEF T, v
  <2> QED  BY <1>0, <1>1, <1>2, Induct
<1>4. v \in T
  BY <1>0, <1>3
<1>5. -(p[v - v] * half) <= q[v] /\ q[v] < p[v - v] * half
  BY <1>4
<1>6. v - v = 0 /\ p[0] * half = half
  BY <1>0 DEF IsPowers
<1> QED  BY <1>5, <1>6

(***************************************************************************)
(* Integers are decoded as they were encoded, if they fit; those that are  *)
(* a power apart are encoded alike.                                        *)
(***************************************************************************)
WithinUnsigned(n, p, w) == 0 <= n /\ n < p[w]

\* An unsigned number that fits is decoded as it was.
LEMMA DecodesUnsigned ==
  ASSUME NEW n \in Int, NEW w \in Nat, NEW base \in Nat, base > 1,
         NEW p, IsPowers(p, w, base), WithinUnsigned(n, p, w)
  PROVE  Decoded(BigEndian(n, w, base), FALSE, base) = n
<1>1. PICK q : IsQuotients(q, n, w, base)
  BY Quotients
<1>2. q[w] = 0
  BY <1>1, QuotientsUnsigned DEF WithinUnsigned
<1>3. Sign(BigEndian(n, w, base), FALSE, base) = 0
  BY DEF Sign
<1> QED  BY <1>1, <1>2, <1>3, DecodesDigits

IsHalf(half, base) == half \in Nat \ {0} /\ base = 2 * half

HighDigit(x, half, base) ==
  /\ x < 0 => x \div base = -1 /\ x % base >= half
  /\ x >= 0 => x \div base = 0 /\ ~ (x % base >= half)
  /\ base \div 2 = half

\* A negative number has a high digit in the upper half.
LEMMA SignDigit ==
  ASSUME NEW x \in Int, NEW half, NEW base \in Nat, IsHalf(half, base),
         -half <= x, x < half
  PROVE  HighDigit(x, half, base)
<1>1. half \in Nat \ {0} /\ base = 2 * half /\ base \div 2 = half /\ base > 1
  BY DEF IsHalf
<1>2. ASSUME x < 0
      PROVE  x \div base = -1 /\ x % base >= half
  <2>1. x = (-1) * base + (x + base) /\ x + base \in half .. base - 1
    BY <1>1, <1>2
  <2>2. x + base \in 0 .. base - 1
    BY <1>1, <2>1
  <2>3. x \div base = -1 /\ x % base = x + base
    BY <1>1, <2>1, <2>2, Quotient
  <2> QED  BY <2>1, <2>3
<1>3. ASSUME x >= 0
      PROVE  x \div base = 0 /\ ~ (x % base >= half)
  <2>1. x = 0 * base + x /\ x \in 0 .. base - 1
    BY <1>1, <1>3
  <2>2. x \div base = 0 /\ x % base = x
    BY <1>1, <2>1, Quotient
  <2> QED  BY <1>1, <2>2
<1> QED  BY <1>1, <1>2, <1>3 DEF HighDigit

Within(n, p, w, half) == -(p[w - 1] * half) <= n /\ n < p[w - 1] * half

\* A signed number that fits is decoded as it was.
LEMMA DecodesSigned ==
  ASSUME NEW n \in Int, NEW w \in Nat \ {0}, NEW base \in Nat, NEW half, IsHalf(half, base),
         NEW p, IsPowers(p, w, base), Within(n, p, w, half)
  PROVE  Decoded(BigEndian(n, w, base), TRUE, base) = n
<1>0. w \in Nat /\ base > 1
  BY DEF IsHalf
<1>1. PICK q : IsQuotients(q, n, w, base)
  BY <1>0, Quotients
<1>2. -half <= q[w - 1] /\ q[w - 1] < half
  BY <1>1, QuotientsSigned DEF Within, IsHalf
<1>3. BigEndian(n, w, base)[1] = q[w - 1] % base
  <2>1. BigEndian(n, w, base) = [i \in 1 .. w |-> q[w - i] % base]
    BY <1>0, <1>1, BigEndianDigits
  <2> QED  BY <2>1
<1>4. q[w - 1] \in Int /\ q[w] = q[w - 1] \div base
  <2>1. w - 1 \in 0 .. w /\ w \in 1 .. w
    OBVIOUS
  <2> QED  BY <1>1, <2>1 DEF IsQuotients
<1>5. /\ q[w - 1] < 0 => q[w - 1] \div base = -1 /\ q[w - 1] % base >= half
      /\ q[w - 1] >= 0 => q[w - 1] \div base = 0 /\ ~ (q[w - 1] % base >= half)
      /\ base \div 2 = half
  <2>1. PICK x \in Int : x = q[w - 1]
    BY <1>4
  <2>2. -half <= x /\ x < half
    BY <1>2, <2>1
  <2>3. HighDigit(x, half, base)
    BY <2>2, SignDigit
  <2> QED  BY <2>1, <2>3 DEF HighDigit
<1>6. q[w] = Sign(BigEndian(n, w, base), TRUE, base)
  <2>1. CASE q[w - 1] < 0
    BY <1>3, <1>4, <1>5, <2>1 DEF Sign
  <2>2. CASE q[w - 1] >= 0
    BY <1>3, <1>4, <1>5, <2>2 DEF Sign
  <2>3. q[w - 1] < 0 \/ q[w - 1] >= 0
    BY <1>4
  <2> QED  BY <2>1, <2>2, <2>3
<1> QED  BY <1>0, <1>1, <1>6, DecodesDigits

LEMMA Shifted ==
  ASSUME NEW n \in Int, NEW base \in Nat, base > 1, NEW m \in Int
  PROVE  (n - m * base) \div base = n \div base - m /\ (n - m * base) % base = n % base
<1> DEFINE a == n \div base
           d == n % base
<1>1. a \in Int /\ d \in 0 .. base - 1 /\ n = a * base + d
  BY DivMod
<1> HIDE DEF a, d
<1>2. PICK k \in Int : k = n - m * base
  OBVIOUS
<1>3. PICK c \in Int : c = a - m
  BY <1>1
<1>4. \A x, y, z \in Int : (x - y) * z = x * z - y * z
  OBVIOUS
<1>5. c * base = a * base - m * base
  BY <1>1, <1>3, <1>4
<1>6. k = c * base + d
  BY <1>1, <1>2, <1>5
<1>7. k \div base = c /\ k % base = d
  BY <1>1, <1>6, Quotient
<1> QED  BY <1>2, <1>3, <1>7 DEF a, d

\* A number and the one that is smaller by all the values have the same bytes.
LEMMA EncodedAlike ==
  ASSUME NEW n \in Int, NEW w \in Nat, NEW base \in Nat, base > 1, NEW p, IsPowers(p, w, base)
  PROVE  BigEndian(n - p[w], w, base) = BigEndian(n, w, base)
<1>1. PICK q : IsQuotients(q, n, w, base)
  BY Quotients
<1>2. PICK r : r = [i \in 0 .. w |-> q[i] - p[w - i]]
  OBVIOUS
<1>3. /\ \A i \in 0 .. w : w - i \in 0 .. w /\ q[i] \in Int /\ p[i] \in Int
      /\ \A i \in 1 .. w : i - 1 \in 0 .. w /\ q[i] = q[i - 1] \div base
  BY <1>1 DEF IsQuotients, IsPowers
<1>4. ASSUME NEW i \in 1 .. w
      PROVE  r[i] = r[i - 1] \div base /\ r[i - 1] % base = q[i - 1] % base
  <2>1. PICK k \in 1 .. w : k = w - i + 1
    OBVIOUS
  <2>2. k - 1 = w - i /\ k = w - (i - 1) /\ i \in 0 .. w /\ i - 1 \in 0 .. w /\ k - 1 \in 0 .. w
    BY <2>1
  <2>3. p[k] = p[k - 1] * base
    BY PowerSteps
  <2>4. r[i] = q[i] - p[k - 1] /\ r[i - 1] = q[i - 1] - p[k]
    BY <1>2, <2>2
  <2>5. /\ (q[i - 1] - p[k - 1] * base) \div base = q[i - 1] \div base - p[k - 1]
        /\ (q[i - 1] - p[k - 1] * base) % base = q[i - 1] % base
    <3>1. PICK x \in Int, m \in Int : x = q[i - 1] /\ m = p[k - 1]
      BY <1>3, <2>2
    <3>2. (x - m * base) \div base = x \div base - m /\ (x - m * base) % base = x % base
      BY Shifted
    <3> QED  BY <3>1, <3>2
  <2> QED  BY <1>3, <2>3, <2>4, <2>5
<1>5. r \in [0 .. w -> Int] /\ r[0] = n - p[w]
  BY <1>1, <1>2, <1>3 DEF IsQuotients
<1>6. n - p[w] \in Int
  BY <1>3
<1>7. IsQuotients(r, n - p[w], w, base)
  BY <1>4, <1>5 DEF IsQuotients
<1>8. BigEndian(n - p[w], w, base) = [i \in 1 .. w |-> r[w - i] % base]
  BY <1>6, <1>7, BigEndianDigits
<1>9. BigEndian(n, w, base) = [i \in 1 .. w |-> q[w - i] % base]
  BY <1>1, BigEndianDigits
<1>10. ASSUME NEW i \in 1 .. w
       PROVE  r[w - i] % base = q[w - i] % base
  <2>1. PICK k \in 1 .. w : k - 1 = w - i
    <3>1. w - i + 1 \in 1 .. w /\ w - i + 1 - 1 = w - i
      OBVIOUS
    <3> QED  BY <3>1
  <2> QED  BY <1>4, <2>1
<1> QED  BY <1>8, <1>9, <1>10

-----------------------------------------------------------------------------
(* Reading what was written.                                               *)

LEMMA OctetsLen ==
  ASSUME NEW a \in Octets
  PROVE  Len(a) \in Nat /\ \A i \in 1 .. Len(a) : a[i] \in Int
BY DEF Octets

LEMMA OctetsConcatLen ==
  ASSUME NEW a \in Octets, NEW b \in Octets
  PROVE  /\ Len(a \o b) = Len(a) + Len(b)
         /\ \A i \in 1 .. Len(a) : (a \o b)[i] = a[i]
         /\ \A i \in 1 .. Len(b) : (a \o b)[Len(a) + i] = b[i]
BY DEF Octets

\* The front of what was joined, and the rest.
LEMMA Parted ==
  ASSUME NEW a \in Octets, NEW b \in Octets
  PROVE  /\ SubSeq(a \o b, 1, Len(a)) = a
         /\ SubSeq(a \o b, Len(a) + 1, Len(a \o b)) = b
<1>1. /\ Len(a) \in Nat /\ Len(b) \in Nat /\ a \o b \in Seq(Int)
      /\ Len(a \o b) = Len(a) + Len(b) /\ a \in Seq(Int) /\ b \in Seq(Int)
      /\ \A i \in 1 .. Len(a) : (a \o b)[i] = a[i]
      /\ \A i \in 1 .. Len(b) : (a \o b)[Len(a) + i] = b[i]
  BY OctetsLen, OctetsConcatLen, OctetsConcat DEF Octets
<1> DEFINE c == a \o b
           x == SubSeq(c, 1, Len(a))
           y == SubSeq(c, Len(a) + 1, Len(c))
<1>2. \A i \in 1 .. Len(c) : c[i] \in Int
  BY <1>1
<1> HIDE DEF c
<1>3. /\ x \in Seq(Int) /\ Len(x) = Len(a)
      /\ \A i \in 1 .. Len(a) : x[i] = c[i]
  <2>1. \A i \in 1 .. Len(a) : c[i] \in Int
    BY <1>1, <1>2 DEF c
  <2>2. /\ x \in Seq(Int) /\ Len(x) = IF 1 <= Len(a) THEN Len(a) - 1 + 1 ELSE 0
        /\ \A i \in 1 .. Len(a) - 1 + 1 : x[i] = c[1 + i - 1]
    BY <1>1, <2>1, SubSeqProperties
  <2> HIDE DEF x
  <2>3. Len(x) = Len(a)
    BY <1>1, <2>2
  <2>4. Len(a) - 1 + 1 = Len(a) /\ \A i \in 1 .. Len(a) : 1 + i - 1 = i
    BY <1>1
  <2> QED  BY <2>2, <2>3, <2>4
<1>4. /\ y \in Seq(Int) /\ Len(y) = Len(b)
      /\ \A i \in 1 .. Len(b) : y[i] = c[Len(a) + i]
  <2>0. Len(c) \in Nat /\ Len(c) = Len(a) + Len(b)
    BY <1>1 DEF c
  <2>1. \A i \in Len(a) + 1 .. Len(c) : c[i] \in Int
    BY <1>1, <1>2, <2>0
  <2>2. /\ y \in Seq(Int) /\ Len(y) = IF Len(a) + 1 <= Len(c) THEN Len(c) - (Len(a) + 1) + 1 ELSE 0
        /\ \A i \in 1 .. Len(c) - (Len(a) + 1) + 1 : y[i] = c[(Len(a) + 1) + i - 1]
    BY <1>1, <2>0, <2>1, SubSeqProperties
  <2> HIDE DEF y
  <2>3. Len(y) = Len(b)
    BY <1>1, <2>0, <2>2
  <2>4. Len(c) - (Len(a) + 1) + 1 = Len(b) /\ \A i \in 1 .. Len(b) : (Len(a) + 1) + i - 1 = Len(a) + i
    BY <1>1, <2>0
  <2> QED  BY <2>2, <2>3, <2>4
<1> HIDE DEF x, y
<1>5. x = a
  BY <1>1, <1>3, SeqEqual DEF c
<1>6. y = b
  BY <1>1, <1>4, SeqEqual DEF c
<1> QED  BY <1>5, <1>6 DEF x, y, c

LEMMA DoneRead ==
  ASSUME NEW v, NEW r
  PROVE  Done(v, r).ok /\ Done(v, r).value = v /\ Done(v, r).rest = r
BY DEF Done

\* Read returns the bytes in front and leaves those behind.
LEMMA ReadFront ==
  ASSUME NEW a \in Octets, NEW b \in Octets
  PROVE  Read(Len(a), a \o b) = Done(a, b)
<1>1. ~ (Len(a \o b) < Len(a))
  BY OctetsLen, OctetsConcatLen
<1> QED  BY <1>1, Parted DEF Read

(***************************************************************************)
(* Numbers of one, two and four bytes.                                     *)
(***************************************************************************)
Largest(w) == IF w = 1 THEN 256 ELSE IF w = 2 THEN 65536 ELSE 4294967296
Half(w)    == IF w = 1 THEN 128 ELSE IF w = 2 THEN 32768 ELSE 2147483648

Storable(n, w, signed) ==
  /\ n \in Int /\ w \in {1, 2, 4} /\ signed \in BOOLEAN
  /\ IF signed THEN -Half(w) <= n /\ n < Half(w) ELSE 0 <= n /\ n < Largest(w)

\* The numbers of one, two and four bytes.
LEMMA PowersOf256 ==
  ASSUME NEW w \in {1, 2, 4}, NEW p, IsPowers(p, w, 256)
  PROVE  p[w] = Largest(w) /\ p[w - 1] * 128 = Half(w)
<1>1. \A i \in 1 .. w : p[i] = p[i - 1] * 256 /\ p[i - 1] \in Nat \ {0}
  BY PowerSteps
<1>2. p[0] = 1 /\ p[1] = 256
  BY <1>1 DEF IsPowers
<1>3. w # 1 => p[2] = 65536
  BY <1>1, <1>2
<1>4. w = 4 => p[3] = 16777216
  BY <1>1, <1>3
<1>5. w = 4 => p[4] = 4294967296
  BY <1>1, <1>4
<1> QED  BY <1>2, <1>3, <1>4, <1>5 DEF Largest, Half

LEMMA BytesType ==
  ASSUME NEW n \in Int, NEW w \in Nat
  PROVE  Bytes(n, w) \in Octets /\ Len(Bytes(n, w)) = w
BY BigEndianType DEF Bytes

\* A number that fits its bytes is decoded as it was.
LEMMA BytesDecoded ==
  ASSUME NEW n, NEW w, NEW signed, Storable(n, w, signed)
  PROVE  Decoded(Bytes(n, w), signed, 256) = n
<1>1. n \in Int /\ w \in {1, 2, 4} /\ w \in Nat \ {0} /\ signed \in BOOLEAN
  BY DEF Storable
<1>2. PICK p : IsPowers(p, w, 256)
  BY <1>1, Powers
<1>3. p[w] = Largest(w) /\ p[w - 1] * 128 = Half(w)
  BY <1>1, <1>2, PowersOf256
<1>4. CASE signed = TRUE
  <2>1. -Half(w) <= n /\ n < Half(w)
    BY <1>4 DEF Storable
  <2>2. Within(n, p, w, 128) /\ IsHalf(128, 256)
    BY <1>3, <2>1 DEF Within, IsHalf
  <2>3. 256 \in Nat
    OBVIOUS
  <2>4. Decoded(BigEndian(n, w, 256), TRUE, 256) = n
    BY <1>1, <1>2, <2>2, <2>3, DecodesSigned
  <2> QED  BY <1>4, <2>4 DEF Bytes
<1>5. CASE signed = FALSE
  <2>1. WithinUnsigned(n, p, w)
    BY <1>3, <1>5 DEF Storable, WithinUnsigned
  <2>2. 256 \in Nat /\ 256 > 1
    OBVIOUS
  <2>3. Decoded(BigEndian(n, w, 256), FALSE, 256) = n
    BY <1>1, <1>2, <2>1, <2>2, DecodesUnsigned
  <2> QED  BY <1>5, <2>3 DEF Bytes
<1> QED  BY <1>1, <1>4, <1>5

\* A number that fits is read as it was written, and what follows it is left.
LEMMA NumberRead ==
  ASSUME NEW n, NEW w, NEW signed, Storable(n, w, signed), NEW rest \in Octets
  PROVE  ReadNumber(w, signed, Bytes(n, w) \o rest) = Done(n, rest)
<1>1. n \in Int /\ w \in Nat
  BY DEF Storable
<1>2. Bytes(n, w) \in Octets /\ Len(Bytes(n, w)) = w
  BY <1>1, BytesType
<1>3. Read(w, Bytes(n, w) \o rest) = Done(Bytes(n, w), rest)
  BY <1>2, ReadFront
<1>4. Decoded(Bytes(n, w), signed, 256) = n
  BY BytesDecoded
<1> QED  BY <1>3, <1>4, DoneRead DEF ReadNumber

(***************************************************************************)
(* Strings.                                                                *)
(***************************************************************************)
IsText(s) == s \in Octets /\ \A i \in 1 .. Len(s) : s[i] # 0

\* What the assumption on the constants says of the numbers in messages.
LEMMA Bounds ==
  /\ \A x \in Letters : x \in Int /\ x # 0
  /\ \A x \in Sent : x \in Int /\ x # 0
  /\ \A x \in Shorts : x \in Nat /\ Storable(x, 2, FALSE) /\ Storable(x, 2, TRUE) /\ Storable(x, 4, TRUE)
  /\ \A x \in Longs : x \in Nat /\ Storable(x, 4, FALSE) /\ Storable(x, 4, TRUE)
  /\ MaxLetters \in Nat /\ \A x \in Nat : x <= MaxLetters => Storable(x + 4, 4, TRUE) /\ Storable(x, 4, TRUE)
  /\ MaxColumns \in Nat /\ \A x \in Nat : x <= MaxColumns => Storable(x, 2, FALSE)
  /\ MaxItems \in Nat /\ \A x \in Nat : x <= MaxItems => Storable(x, 2, FALSE)
<1>1. MaxUInt8 \in Nat /\ MaxInt16 \in Nat /\ MaxUInt16 \in Nat /\ MaxInt32 \in Nat
  BY SMT DEF MaxUInt8, MaxInt16, MaxUInt16, MaxInt32
<1>2. /\ \A x \in Letters : x \in Nat /\ 1 <= x /\ x <= MaxUInt8
      /\ \A x \in Sent : x \in Nat /\ 1 <= x /\ x <= MaxUInt8
      /\ \A x \in Shorts : x \in Nat /\ x <= MaxInt16
      /\ \A x \in Longs : x \in Nat /\ x <= MaxInt32
      /\ MaxLetters \in Int /\ 0 <= MaxLetters /\ MaxLetters <= MaxInt32 - 4
      /\ MaxColumns \in Nat /\ MaxColumns <= MaxUInt16
      /\ MaxItems \in Nat /\ MaxItems <= MaxUInt16
  BY <1>1, ProtocolAssumption
<1>4. \A x \in Nat : x <= MaxInt16 => Storable(x, 2, FALSE) /\ Storable(x, 2, TRUE) /\ Storable(x, 4, TRUE)
  BY SMT DEF MaxInt16, Storable, Largest, Half
<1>5. \A x \in Nat : x <= MaxInt32 => Storable(x, 4, FALSE) /\ Storable(x, 4, TRUE)
  BY SMT DEF MaxInt32, Storable, Largest, Half
<1>6. \A x \in Nat : x <= MaxUInt16 => Storable(x, 2, FALSE)
  BY SMT DEF MaxUInt16, Storable, Largest, Half
<1>7. ASSUME NEW x \in Nat, x <= MaxLetters
      PROVE  Storable(x + 4, 4, TRUE) /\ Storable(x, 4, TRUE)
  <2>1. x + 4 \in Nat /\ x + 4 <= MaxInt32 /\ x <= MaxInt32
    BY <1>1, <1>2, <1>7
  <2> QED  BY <1>5, <2>1
<1>8. MaxLetters \in Nat
  BY <1>2
<1>9. ASSUME NEW x \in Nat, x <= MaxColumns
      PROVE  Storable(x, 2, FALSE)
  <2>1. x <= MaxUInt16
    BY <1>1, <1>2, <1>9
  <2> QED  BY <1>6, <2>1
<1>10. ASSUME NEW x \in Nat, x <= MaxItems
       PROVE  Storable(x, 2, FALSE)
  <2>1. x <= MaxUInt16
    BY <1>1, <1>2, <1>10
  <2> QED  BY <1>6, <2>1
<1>11. \A x \in Letters : x \in Int /\ x # 0
  BY <1>2
<1>12. \A x \in Sent : x \in Int /\ x # 0
  BY <1>2
<1>13. \A x \in Shorts : x \in Nat /\ Storable(x, 2, FALSE) /\ Storable(x, 2, TRUE) /\ Storable(x, 4, TRUE)
  BY <1>2, <1>4
<1>14. \A x \in Longs : x \in Nat /\ Storable(x, 4, FALSE) /\ Storable(x, 4, TRUE)
  BY <1>2, <1>5
<1>15. MaxLetters \in Nat /\ \A x \in Nat : x <= MaxLetters => Storable(x + 4, 4, TRUE) /\ Storable(x, 4, TRUE)
  BY <1>7, <1>8
<1>16. MaxColumns \in Nat /\ \A x \in Nat : x <= MaxColumns => Storable(x, 2, FALSE)
  BY <1>2, <1>9
<1>17. MaxItems \in Nat /\ \A x \in Nat : x <= MaxItems => Storable(x, 2, FALSE)
  BY <1>2, <1>10
<1> QED  BY <1>11, <1>12, <1>13, <1>14, <1>15, <1>16, <1>17

\* The strings of the model have no 0 in them.
LEMMA StringsAreText ==
  ASSUME NEW s \in Strings
  PROVE  IsText(s) /\ Len(s) <= MaxLetters
<1>1. (\A x \in Letters : x \in Int /\ x # 0) /\ MaxLetters \in Nat
  BY Bounds
<1>2. PICK m \in 0 .. MaxLetters : s \in [1 .. m -> Letters]
  BY DEF Strings, BoundedSeq, SeqOf
<1>3. m \in Nat /\ m <= MaxLetters
  BY <1>1
<1>4. s \in Seq(Int) /\ Len(s) = m /\ \A i \in 1 .. m : s[i] \in Letters
  <2>1. \A i \in 1 .. m : s[i] \in Int
    BY <1>1, <1>2
  <2>2. s \in [1 .. m -> Int]
    BY <1>2, <2>1
  <2> QED  BY <1>2, <1>3, <2>2
<1> QED  BY <1>1, <1>3, <1>4 DEF IsText, Octets

LEMMA TerminatedType ==
  ASSUME NEW s, IsText(s)
  PROVE  Terminated(s) \in Octets /\ Len(Terminated(s)) = Len(s) + 1
<1>1. << 0 >> \in Octets /\ Len(<< 0 >>) = 1 /\ s \in Octets
  BY DEF Octets, IsText
<1> QED  BY <1>1, OctetsConcat, OctetsConcatLen DEF Terminated

\* A string is read up to its terminator, and what follows is left.
LEMMA StringRead ==
  ASSUME NEW s, IsText(s), NEW rest \in Octets
  PROVE  ReadString(Terminated(s) \o rest) = Done(s, rest)
<1>1. << 0 >> \in Octets /\ Len(<< 0 >>) = 1 /\ s \in Octets /\ << 0 >>[1] = 0
  BY DEF Octets, IsText
<1> DEFINE t == Terminated(s)
           data == t \o rest
           ends == {i \in DOMAIN data : data[i] = 0}
           end == CHOOSE i \in ends : \A j \in ends : i <= j
<1>2. /\ t \in Octets /\ Len(t) = Len(s) + 1 /\ Len(s) \in Nat
      /\ t[Len(s) + 1] = 0 /\ \A i \in 1 .. Len(s) : t[i] = s[i]
  BY <1>1, OctetsLen, OctetsConcat, OctetsConcatLen DEF Terminated
<1> HIDE DEF t
<1>3. /\ data \in Octets /\ Len(data) = Len(s) + 1 + Len(rest) /\ Len(rest) \in Nat
      /\ \A i \in 1 .. Len(s) + 1 : data[i] = t[i]
  <2>1. /\ Len(data) = Len(t) + Len(rest)
        /\ \A i \in 1 .. Len(t) : data[i] = t[i]
    BY <1>2, OctetsConcatLen
  <2>2. data \in Octets /\ Len(rest) \in Nat
    BY <1>2, OctetsLen, OctetsConcat
  <2> HIDE DEF data
  <2> QED  BY <1>2, <2>1, <2>2
<1> HIDE DEF data
<1>4. DOMAIN data = 1 .. Len(data)
  BY <1>3 DEF Octets
<1>5. Len(s) + 1 \in ends
  BY <1>2, <1>3, <1>4
<1>6. \A i \in ends : Len(s) + 1 <= i
  <2> SUFFICES ASSUME NEW i \in ends, i <= Len(s)
               PROVE  FALSE
    BY <1>2, <1>4
  <2>1. i \in 1 .. Len(s) /\ data[i] = 0
    BY <1>2, <1>4
  <2> QED  BY <1>2, <1>3, <2>1 DEF IsText
<1>7. \A i \in ends : i \in Int
  BY <1>4
<1> HIDE DEF ends
<1>8. end = Len(s) + 1
  <2>1. end \in ends /\ \A j \in ends : end <= j
    BY <1>5, <1>6
  <2> HIDE DEF end
  <2>2. end <= Len(s) + 1 /\ Len(s) + 1 <= end /\ end \in Int
    BY <1>5, <1>6, <1>7, <2>1
  <2> QED  BY <1>2, <2>2
<1>9. ends # {}
  BY <1>5
<1>10. ReadString(data) = IF ends = {} THEN Thrown
                          ELSE Done(SubSeq(data, 1, end - 1), SubSeq(data, end + 1, Len(data)))
  BY DEF ReadString, ends
<1>11. SubSeq(data, end + 1, Len(data)) = rest
  <2>1. SubSeq(t \o rest, Len(t) + 1, Len(t \o rest)) = rest
    BY <1>2, Parted
  <2> HIDE DEF end
  <2> QED  BY <1>2, <1>8, <2>1 DEF data
<1>12. SubSeq(data, 1, end - 1) = s
  <2>1. data = s \o (<< 0 >> \o rest)
    BY <1>1, OctetsRegroup DEF data, t, Terminated
  <2>2. << 0 >> \o rest \in Octets
    BY <1>1, OctetsConcat
  <2>3. SubSeq(s \o (<< 0 >> \o rest), 1, Len(s)) = s
    BY <1>1, <2>2, Parted
  <2> HIDE DEF end
  <2>4. end - 1 = Len(s)
    BY <1>2, <1>8
  <2> QED  BY <2>1, <2>3, <2>4
<1> HIDE DEF end
<1>13. ReadString(data) = Done(s, rest)
  BY <1>9, <1>10, <1>11, <1>12
<1> QED  BY <1>13 DEF data, t

-----------------------------------------------------------------------------
(* Lists: the items are read one by one, each from what the ones before    *)
(* have left (Unread).                                                     *)

Unread(left, parts, n, tail) ==
  /\ left \in [0 .. n -> Octets]
  /\ left[0] = FlattenSeq(parts) \o tail /\ left[n] = tail
  /\ \A i \in 1 .. n : left[i - 1] = parts[i] \o left[i]

LEMMA UnreadItems ==
  ASSUME NEW n \in Nat, NEW parts \in [1 .. n -> Octets], NEW tail \in Octets
  PROVE  \E left : Unread(left, parts, n, tail)
<1>1. PICK rest \in [0 .. n -> Octets] : rest[0] = FlattenSeq(parts) /\ Leaves(rest, parts, n)
  BY Remainders
<1> DEFINE left == [i \in 0 .. n |-> rest[i] \o tail]
<1>2. left \in [0 .. n -> Octets]
  BY OctetsConcat
<1>3. left[0] = FlattenSeq(parts) \o tail /\ left[n] = tail
  <2>1. left[n] = <<>> \o tail /\ left[0] = rest[0] \o tail
    <3>1. n \in 0 .. n /\ 0 \in 0 .. n /\ rest[n] = <<>>
      BY <1>1 DEF Leaves
    <3> QED  BY <3>1
  <2> HIDE DEF left
  <2> QED  BY <1>1, <2>1, OctetsConcatEmpty
<1>4. ASSUME NEW i \in 1 .. n
      PROVE  left[i - 1] = parts[i] \o left[i]
  <2>1. i \in 0 .. n /\ i - 1 \in 0 .. n
    OBVIOUS
  <2>2. rest[i - 1] = parts[i] \o rest[i]
    BY <1>1 DEF Leaves
  <2>3. parts[i] \in Octets /\ rest[i] \in Octets
    BY <2>1
  <2>4. (parts[i] \o rest[i]) \o tail = parts[i] \o (rest[i] \o tail)
    BY <2>3, OctetsRegroup
  <2> QED  BY <2>1, <2>2, <2>4
<1> HIDE DEF left
<1>5. Unread(left, parts, n, tail)
  BY <1>2, <1>3, <1>4 DEF Unread
<1> QED  BY <1>5

Fronts(front, seq, n) ==
  /\ front[0] = <<>> /\ front[n] = seq
  /\ \A i \in 0 .. n : front[i] = SubSeq(seq, 1, i)
  /\ \A i \in 1 .. n : Append(front[i - 1], seq[i]) = front[i]

\* The fronts of a list, each an item longer than the one before.
LEMMA ItemByItem ==
  ASSUME NEW S, NEW n \in Nat, NEW seq \in [1 .. n -> S]
  PROVE  \E front : Fronts(front, seq, n)
<1>1. PICK front : front = [i \in 0 .. n |-> SubSeq(seq, 1, i)]
  OBVIOUS
<1>2. front[0] = <<>> /\ front[n] = seq
  BY <1>1
<1>3. ASSUME NEW i \in 1 .. n
      PROVE  Append(front[i - 1], seq[i]) = front[i]
  <2>1. i \in 0 .. n /\ i - 1 \in 0 .. n /\ seq \in Seq(S) /\ Len(seq) = n /\ seq[i] \in S
    OBVIOUS
  <2>2. PICK a, b : a = SubSeq(seq, 1, i - 1) /\ b = SubSeq(seq, 1, i)
    OBVIOUS
  <2>3. /\ a \in Seq(S) /\ Len(a) = i - 1
        /\ \A k \in 1 .. i - 1 : a[k] = seq[k]
    BY <2>1, <2>2
  <2>4. /\ b \in Seq(S) /\ Len(b) = i
        /\ \A k \in 1 .. i : b[k] = seq[k]
    BY <2>1, <2>2
  <2>5. PICK c : c = Append(a, seq[i])
    OBVIOUS
  <2>6. /\ c \in Seq(S) /\ Len(c) = i
        /\ \A k \in 1 .. i : c[k] = seq[k]
    BY <2>1, <2>3, <2>5
  <2>7. c = b
    <3>1. \A k \in 1 .. Len(c) : c[k] = b[k]
      BY <2>4, <2>6
    <3> QED  BY <2>4, <2>6, <3>1, SeqEqual
  <2>8. front[i - 1] = a /\ front[i] = b
    BY <1>1, <2>1, <2>2
  <2> QED  BY <2>5, <2>7, <2>8
<1>4. \A i \in 0 .. n : front[i] = SubSeq(seq, 1, i)
  BY <1>1
<1>5. Fronts(front, seq, n)
  BY <1>2, <1>3, <1>4 DEF Fronts
<1> QED  BY <1>5

\* A turn of ReadList whose item was read.
LEMMA AddedTo ==
  ASSUME NEW v, NEW data, NEW x, NEW more
  PROVE  /\ Done(v, data).rest = data
         /\ Added(Done(v, data), Done(x, more)) = Done(Append(v, x), more)
BY DEF Done, Added

(***************************************************************************)
(* Columns of a row.                                                       *)
(***************************************************************************)
Columns == Strings \cup {Null}

\* -1 fits the length of a column and the size in a description.
LEMMA NullRead ==
  Storable(-1, 4, TRUE) /\ Storable(-1, 2, TRUE) /\ ~ (Null \in Strings)
<1>1. Storable(-1, 4, TRUE) /\ Storable(-1, 2, TRUE)
  BY SMT DEF Storable, Half
<1>2. ASSUME Null \in Strings
      PROVE  FALSE
  <2>1. PICK m \in 0 .. MaxLetters : Null \in [1 .. m -> Letters]
    BY <1>2 DEF Strings, BoundedSeq, SeqOf
  <2>2. Len(Null) = 1 /\ Null[1] = -1
    BY DEF Null
  <2>3. MaxLetters \in Nat /\ \A x \in Letters : 1 <= x
    <3>1. \A x \in Letters : 1 <= x
      BY ProtocolAssumption
    <3> QED  BY <3>1, Bounds
  <2>4. m \in Nat /\ DOMAIN Null = 1 .. m
    BY <2>1, <2>3
  <2>5. DOMAIN Null = 1 .. 1
    BY DEF Null
  <2>6. 1 \in 1 .. m
    BY <2>4, <2>5
  <2>7. Null[1] \in Letters
    BY <2>1, <2>6
  <2> QED  BY <2>2, <2>3, <2>7
<1> QED  BY <1>1, <1>2

LEMMA ColumnType ==
  ASSUME NEW c \in Columns
  PROVE  WriteColumn(c) \in Octets
<1>1. CASE c = Null
  BY <1>1, BytesType DEF WriteColumn
<1>2. CASE c # Null
  <2>1. c \in Strings
    BY <1>2 DEF Columns
  <2>2. c \in Octets /\ Len(c) \in Int
    BY <2>1, StringsAreText, OctetsLen DEF IsText
  <2>3. Bytes(Len(c), 4) \in Octets
    BY <2>2, BytesType
  <2> QED  BY <1>2, <2>2, <2>3, OctetsConcat DEF WriteColumn
<1> QED  BY <1>1, <1>2

\* A column is read as it was written; -1 is NULL, and the empty string is not.
LEMMA ColumnRead ==
  ASSUME NEW c \in Columns, NEW rest \in Octets
  PROVE  ReadColumn(WriteColumn(c) \o rest) = Done(c, rest)
<1>1. CASE c = Null
  <2>1. ReadNumber(4, TRUE, Bytes(-1, 4) \o rest) = Done(-1, rest)
    BY NullRead, NumberRead
  <2>2. WriteColumn(c) = Bytes(-1, 4)
    BY <1>1 DEF WriteColumn
  <2>3. PICK v : v = -1
    OBVIOUS
  <2>4. ReadNumber(4, TRUE, WriteColumn(c) \o rest) = Done(v, rest)
    BY <2>1, <2>2, <2>3
  <2>5. Done(v, rest).ok /\ Done(v, rest).value = v /\ Done(v, rest).rest = rest
    BY DoneRead
  <2>6. v < 0
    BY <2>3
  <2> QED  BY <1>1, <2>4, <2>5, <2>6 DEF ReadColumn
<1>2. CASE c # Null
  <2>1. c \in Strings
    BY <1>2 DEF Columns
  <2>2. c \in Octets /\ Len(c) \in Nat /\ Len(c) <= MaxLetters
    BY <2>1, StringsAreText, OctetsLen DEF IsText
  <2>3. Storable(Len(c), 4, TRUE)
    BY <2>2, Bounds
  <2>4. c \o rest \in Octets /\ Bytes(Len(c), 4) \in Octets
    BY <2>2, OctetsConcat, BytesType
  <2>5. ReadNumber(4, TRUE, Bytes(Len(c), 4) \o (c \o rest)) = Done(Len(c), c \o rest)
    BY <2>3, <2>4, NumberRead
  <2>6. WriteColumn(c) \o rest = Bytes(Len(c), 4) \o (c \o rest)
    BY <1>2, <2>2, <2>4, OctetsRegroup DEF WriteColumn
  <2>7. Read(Len(c), c \o rest) = Done(c, rest)
    BY <2>2, ReadFront
  <2>8. PICK v, more : v = Len(c) /\ more = c \o rest
    OBVIOUS
  <2>9. ReadNumber(4, TRUE, WriteColumn(c) \o rest) = Done(v, more)
    BY <2>5, <2>6, <2>8
  <2>10. Done(v, more).ok /\ Done(v, more).value = v /\ Done(v, more).rest = more
    BY DoneRead
  <2>11. Read(v, more) = Done(c, rest) /\ ~ (v < 0)
    BY <2>2, <2>7, <2>8
  <2> QED  BY <2>9, <2>10, <2>11 DEF ReadColumn
<1> QED  BY <1>1, <1>2

\* So are all the columns of a row, one after the other.
LEMMA ColumnsRead ==
  ASSUME NEW n \in Nat, NEW row \in [1 .. n -> Columns], NEW tail \in Octets
  PROVE  ReadList(ReadColumn, n, FlattenSeq([i \in 1 .. n |-> WriteColumn(row[i])]) \o tail)
           = Done(row, tail)
<1> DEFINE parts == [i \in 1 .. n |-> WriteColumn(row[i])]
           data == FlattenSeq(parts) \o tail
<1>1. parts \in [1 .. n -> Octets]
  BY ColumnType
<1>2. \A i \in 1 .. n : parts[i] = WriteColumn(row[i])
  OBVIOUS
<1> HIDE DEF parts
<1>3. PICK left : Unread(left, parts, n, tail)
  BY <1>1, UnreadItems
<1>12. PICK front : Fronts(front, row, n)
  BY ItemByItem
<1> DEFINE Turn(s) == Added(s, ReadColumn(s.rest))
           Fits(f) == f = [i \in 0 .. n |-> IF i = 0 THEN Done(<<>>, data) ELSE Turn(f[i - 1])]
           g == [i \in 0 .. n |-> Done(front[i], left[i])]
<1>4. g[0] = Done(<<>>, data)
  <2>1. 0 \in 0 .. n /\ left[0] = data /\ front[0] = <<>>
    BY <1>3, <1>12 DEF Unread, Fronts
  <2>2. g[0] = Done(front[0], left[0])
    BY <2>1
  <2> HIDE DEF g, data
  <2> QED  BY <2>1, <2>2
<1>5. ASSUME NEW i \in 1 .. n
      PROVE  g[i] = Turn(g[i - 1])
  <2>1. i \in 0 .. n /\ i - 1 \in 0 .. n /\ row[i] \in Columns
    OBVIOUS
  <2>2. left[i - 1] = WriteColumn(row[i]) \o left[i] /\ left[i] \in Octets
    BY <1>2, <1>3, <2>1 DEF Unread
  <2>3. ReadColumn(left[i - 1]) = Done(row[i], left[i])
    BY <2>1, <2>2, ColumnRead
  <2>4. Append(front[i - 1], row[i]) = front[i]
    BY <1>12 DEF Fronts
  <2>5. g[i] = Done(front[i], left[i]) /\ g[i - 1] = Done(front[i - 1], left[i - 1])
    BY <2>1
  <2> HIDE DEF g
  <2>6. PICK v, more, x, rest : v = front[i - 1] /\ more = left[i - 1] /\ x = row[i] /\ rest = left[i]
    OBVIOUS
  <2>7. Turn(Done(v, more)) = Done(Append(v, x), rest)
    <3>1. Done(v, more).rest = more /\ ReadColumn(more) = Done(x, rest)
      BY <2>3, <2>6, AddedTo
    <3>2. Added(Done(v, more), Done(x, rest)) = Done(Append(v, x), rest)
      BY AddedTo
    <3> QED  BY <3>1, <3>2
  <2> HIDE DEF Turn
  <2> QED  BY <2>4, <2>5, <2>6, <2>7
<1>6. Fits(g)
  <2>2. g = [i \in 0 .. n |-> g[i]]
    OBVIOUS
  <2> HIDE DEF Turn, data, g
  <2>1. \A i \in 0 .. n : g[i] = IF i = 0 THEN Done(<<>>, data) ELSE Turn(g[i - 1])
    <3>1. \A i \in 0 .. n : i = 0 \/ (i # 0 /\ i \in 1 .. n)
      OBVIOUS
    <3> QED  BY <1>4, <1>5, <3>1
  <2> QED  BY <2>1, <2>2
<1>7. PICK h : Fits(h) /\ h = CHOOSE f : Fits(f)
  <2> HIDE DEF Fits, g
  <2> QED  BY <1>6
<1>8. ReadList(ReadColumn, n, data) = h[n]
  <2>1. ReadList(ReadColumn, n, data) = (CHOOSE f : Fits(f))[n]
    BY DEF ReadList, Repeat
  <2> HIDE DEF Fits, data
  <2> QED  BY <1>7, <2>1
<1> HIDE DEF Turn, data, g
<1>9. \A i \in 0 .. n : h[i] = g[i]
  <2> DEFINE T == {i \in 0 .. n : h[i] = g[i]}
  <2>1. 0 \in T
    BY <1>4, <1>7
  <2>2. \A i \in 1 .. n : i - 1 \in T => i \in T
    BY <1>5, <1>7
  <2> HIDE DEF T
  <2>3. \A i \in 0 .. n : i \in T
    BY <2>1, <2>2, Induct
  <2> QED  BY <2>3 DEF T
<1>10. h[n] = Done(row, tail)
  <2>1. n \in 0 .. n
    OBVIOUS
  <2>2. g[n] = Done(front[n], left[n])
    BY <2>1 DEF g
  <2>3. left[n] = tail /\ front[n] = row
    BY <1>3, <1>12 DEF Unread, Fronts
  <2> QED  BY <1>9, <2>1, <2>2, <2>3
<1>11. ReadList(ReadColumn, n, data) = Done(row, tail)
  BY <1>8, <1>10
<1> QED  BY <1>11 DEF data, parts

(***************************************************************************)
(* The description of a column.                                            *)
(***************************************************************************)
Shown(c) == [c EXCEPT !.mode = IF @ = 1 THEN 1 ELSE 0]

LEMMA PrefixedLen ==
  ASSUME NEW w \in Nat, NEW n \in Int, NEW rest \in Octets
  PROVE  Bytes(n, w) \o rest \in Octets /\ Len(Bytes(n, w) \o rest) = w + Len(rest)
BY BytesType, OctetsConcat, OctetsConcatLen

LEMMA DescriptionType ==
  ASSUME NEW c \in Descriptions
  PROVE  /\ IsText(c.name)
         /\ Storable(c.tableID, 4, FALSE) /\ Storable(c.columnID, 2, FALSE)
         /\ Storable(c.dataTypeID, 4, FALSE) /\ Storable(c.dataTypeSize, 2, TRUE)
         /\ Storable(c.dataTypeModifier, 4, TRUE) /\ Storable(c.mode, 2, FALSE)
         /\ WriteDescription(c) \in Octets
<1>1. /\ c.name \in Strings /\ c.tableID \in Longs /\ c.columnID \in Shorts /\ c.dataTypeID \in Longs
      /\ c.dataTypeSize \in Shorts \cup {-1} /\ c.dataTypeModifier = -1 /\ c.mode \in Shorts
  BY DEF Descriptions
<1>2. IsText(c.name)
  BY <1>1, StringsAreText
<1>3. Storable(c.dataTypeSize, 2, TRUE) /\ Storable(c.dataTypeModifier, 4, TRUE)
  BY <1>1, Bounds, NullRead
<1>4. /\ Storable(c.tableID, 4, FALSE) /\ Storable(c.columnID, 2, FALSE)
      /\ Storable(c.dataTypeID, 4, FALSE) /\ Storable(c.mode, 2, FALSE)
  BY <1>1, Bounds
<1>5. WriteDescription(c) \in Octets
  <2>1. /\ Terminated(c.name) \in Octets /\ Bytes(c.tableID, 4) \in Octets
        /\ Bytes(c.columnID, 2) \in Octets /\ Bytes(c.dataTypeID, 4) \in Octets
        /\ Bytes(c.dataTypeSize, 2) \in Octets /\ Bytes(c.dataTypeModifier, 4) \in Octets
        /\ Bytes(c.mode, 2) \in Octets
    BY <1>2, <1>3, <1>4, TerminatedType, BytesType DEF Storable
  <2> QED  BY <2>1, OctetsConcat DEF WriteDescription
<1> QED  BY <1>2, <1>3, <1>4, <1>5

\* The parts of what was read.
LEMMA DoneParts ==
  ASSUME NEW d, NEW v, NEW rest, d = Done(v, rest)
  PROVE  d.ok /\ d.value = v /\ d.rest = rest
BY DoneRead

IsDescription(data, name, table, column, oid, size, modifier, mode) ==
  /\ IsText(name) /\ Storable(table, 4, FALSE) /\ Storable(column, 2, FALSE)
  /\ Storable(oid, 4, FALSE) /\ Storable(size, 2, TRUE)
  /\ Storable(modifier, 4, TRUE) /\ Storable(mode, 2, FALSE)
  /\ data = Terminated(name) \o Bytes(table, 4) \o Bytes(column, 2) \o Bytes(oid, 4)
              \o Bytes(size, 2) \o Bytes(modifier, 4) \o Bytes(mode, 2)

\* The fields of a description are read one by one, in the order they were written.
LEMMA DescriptionParts ==
  ASSUME NEW data, NEW name, NEW table, NEW column, NEW oid, NEW size, NEW modifier, NEW mode,
         IsDescription(data, name, table, column, oid, size, modifier, mode), NEW rest \in Octets
  PROVE  ReadDescription(data \o rest)
           = Done([name |-> name, tableID |-> table, columnID |-> column, dataTypeID |-> oid,
                   dataTypeSize |-> size, dataTypeModifier |-> modifier,
                   mode |-> IF mode \in {0, 1} THEN mode ELSE 0], rest)
<1>1. PICK t, b1, b2, b3, b4, b5, b6 :
        /\ t = Terminated(name) /\ b1 = Bytes(table, 4) /\ b2 = Bytes(column, 2)
        /\ b3 = Bytes(oid, 4) /\ b4 = Bytes(size, 2)
        /\ b5 = Bytes(modifier, 4) /\ b6 = Bytes(mode, 2)
  OBVIOUS
<1>0. /\ IsText(name) /\ Storable(table, 4, FALSE) /\ Storable(column, 2, FALSE)
      /\ Storable(oid, 4, FALSE) /\ Storable(size, 2, TRUE)
      /\ Storable(modifier, 4, TRUE) /\ Storable(mode, 2, FALSE)
  BY DEF IsDescription
<1>2. Len(b1) = 4 /\ Len(b2) = 2 /\ Len(b3) = 4 /\ Len(b4) = 2 /\ Len(b5) = 4 /\ Len(b6) = 2
  BY <1>0, <1>1, BytesType DEF Storable
<1>3. t \in Octets
  BY <1>0, <1>1, TerminatedType
<1>4. b1 \in Octets /\ b1 = Bytes(table, 4)
  BY <1>0, <1>1, BytesType DEF Storable
<1>5. b2 \in Octets /\ b2 = Bytes(column, 2)
  BY <1>0, <1>1, BytesType DEF Storable
<1>6. b3 \in Octets /\ b3 = Bytes(oid, 4)
  BY <1>0, <1>1, BytesType DEF Storable
<1>7. b4 \in Octets /\ b4 = Bytes(size, 2)
  BY <1>0, <1>1, BytesType DEF Storable
<1>8. b5 \in Octets /\ b5 = Bytes(modifier, 4)
  BY <1>0, <1>1, BytesType DEF Storable
<1>9. b6 \in Octets /\ b6 = Bytes(mode, 2)
  BY <1>0, <1>1, BytesType DEF Storable
<1>10. PICK r6 : r6 = b6 \o rest
  OBVIOUS
<1>11. PICK r5 : r5 = b5 \o r6
  OBVIOUS
<1>12. PICK r4 : r4 = b4 \o r5
  OBVIOUS
<1>13. PICK r3 : r3 = b3 \o r4
  OBVIOUS
<1>14. PICK r2 : r2 = b2 \o r3
  OBVIOUS
<1>15. PICK r1 : r1 = b1 \o r2
  OBVIOUS
<1>16. r6 \in Octets /\ Len(r6) = Len(b6) + Len(rest)
  BY <1>9, <1>10, OctetsConcat, OctetsConcatLen
<1>17. r5 \in Octets /\ Len(r5) = Len(b5) + Len(r6)
  BY <1>8, <1>11, <1>16, OctetsConcat, OctetsConcatLen
<1>18. r4 \in Octets /\ Len(r4) = Len(b4) + Len(r5)
  BY <1>7, <1>12, <1>17, OctetsConcat, OctetsConcatLen
<1>19. r3 \in Octets /\ Len(r3) = Len(b3) + Len(r4)
  BY <1>6, <1>13, <1>18, OctetsConcat, OctetsConcatLen
<1>20. r2 \in Octets /\ Len(r2) = Len(b2) + Len(r3)
  BY <1>5, <1>14, <1>19, OctetsConcat, OctetsConcatLen
<1>21. r1 \in Octets /\ Len(r1) = Len(b1) + Len(r2)
  BY <1>4, <1>15, <1>20, OctetsConcat, OctetsConcatLen
<1>22. ~ (Len(r1) < 18)
  BY <1>2, <1>16, <1>17, <1>18, <1>19, <1>20, <1>21, OctetsLen
<1>23. PICK a1 : a1 = t \o b1
  OBVIOUS
<1>24. PICK a2 : a2 = a1 \o b2
  OBVIOUS
<1>25. PICK a3 : a3 = a2 \o b3
  OBVIOUS
<1>26. PICK a4 : a4 = a3 \o b4
  OBVIOUS
<1>27. PICK a5 : a5 = a4 \o b5
  OBVIOUS
<1>28. PICK a6 : a6 = a5 \o b6
  OBVIOUS
<1>29. data = a6
  BY <1>1, <1>23, <1>24, <1>25, <1>26, <1>27, <1>28 DEF IsDescription
<1>30. t \o b1 \in Octets /\ (t \o b1) \o r2 = t \o (b1 \o r2)
  BY <1>4, <1>20, <1>3, OctetsConcat, OctetsRegroup
<1>31. a1 \in Octets /\ a1 \o r2 = t \o r1
  BY <1>23, <1>15, <1>30
<1>32. a1 \o b2 \in Octets /\ (a1 \o b2) \o r3 = a1 \o (b2 \o r3)
  BY <1>5, <1>19, <1>31, OctetsConcat, OctetsRegroup
<1>33. a2 \in Octets /\ a2 \o r3 = a1 \o r2
  BY <1>24, <1>14, <1>32
<1>34. a2 \o b3 \in Octets /\ (a2 \o b3) \o r4 = a2 \o (b3 \o r4)
  BY <1>6, <1>18, <1>33, OctetsConcat, OctetsRegroup
<1>35. a3 \in Octets /\ a3 \o r4 = a2 \o r3
  BY <1>25, <1>13, <1>34
<1>36. a3 \o b4 \in Octets /\ (a3 \o b4) \o r5 = a3 \o (b4 \o r5)
  BY <1>7, <1>17, <1>35, OctetsConcat, OctetsRegroup
<1>37. a4 \in Octets /\ a4 \o r5 = a3 \o r4
  BY <1>26, <1>12, <1>36
<1>38. a4 \o b5 \in Octets /\ (a4 \o b5) \o r6 = a4 \o (b5 \o r6)
  BY <1>8, <1>16, <1>37, OctetsConcat, OctetsRegroup
<1>39. a5 \in Octets /\ a5 \o r6 = a4 \o r5
  BY <1>27, <1>11, <1>38
<1>40. a5 \o b6 \in Octets /\ (a5 \o b6) \o rest = a5 \o (b6 \o rest)
  BY <1>9, <1>39, OctetsConcat, OctetsRegroup
<1>41. a6 \in Octets /\ a6 \o rest = a5 \o r6
  BY <1>28, <1>10, <1>40
<1>42. data \o rest = t \o r1
  BY <1>29, <1>31, <1>33, <1>35, <1>37, <1>39, <1>41
<1>43. PICK all : all = data \o rest
  OBVIOUS
<1>44. ReadString(all) = Done(name, r1)
  BY <1>0, <1>1, <1>21, <1>42, <1>43, StringRead
<1>45. ReadString(all).ok /\ ReadString(all).value = name /\ ReadString(all).rest = r1
  BY <1>44, DoneParts
<1>46. ReadNumber(4, FALSE, Bytes(table, 4) \o r2) = Done(table, r2)
  BY <1>0, <1>20, NumberRead
<1>47. r1 = Bytes(table, 4) \o r2
  BY <1>4, <1>15
<1>48. ReadNumber(4, FALSE, r1) = Done(table, r2)
  BY <1>47, <1>46
<1>49. ReadNumber(4, FALSE, r1).value = table /\ ReadNumber(4, FALSE, r1).rest = r2
  BY <1>48, DoneParts
<1>50. ReadNumber(2, FALSE, Bytes(column, 2) \o r3) = Done(column, r3)
  BY <1>0, <1>19, NumberRead
<1>51. r2 = Bytes(column, 2) \o r3
  BY <1>5, <1>14
<1>52. ReadNumber(2, FALSE, r2) = Done(column, r3)
  BY <1>51, <1>50
<1>53. ReadNumber(2, FALSE, r2).value = column /\ ReadNumber(2, FALSE, r2).rest = r3
  BY <1>52, DoneParts
<1>54. ReadNumber(4, FALSE, Bytes(oid, 4) \o r4) = Done(oid, r4)
  BY <1>0, <1>18, NumberRead
<1>55. r3 = Bytes(oid, 4) \o r4
  BY <1>6, <1>13
<1>56. ReadNumber(4, FALSE, r3) = Done(oid, r4)
  BY <1>55, <1>54
<1>57. ReadNumber(4, FALSE, r3).value = oid /\ ReadNumber(4, FALSE, r3).rest = r4
  BY <1>56, DoneParts
<1>58. ReadNumber(2, TRUE, Bytes(size, 2) \o r5) = Done(size, r5)
  BY <1>0, <1>17, NumberRead
<1>59. r4 = Bytes(size, 2) \o r5
  BY <1>7, <1>12
<1>60. ReadNumber(2, TRUE, r4) = Done(size, r5)
  BY <1>59, <1>58
<1>61. ReadNumber(2, TRUE, r4).value = size /\ ReadNumber(2, TRUE, r4).rest = r5
  BY <1>60, DoneParts
<1>62. ReadNumber(4, TRUE, Bytes(modifier, 4) \o r6) = Done(modifier, r6)
  BY <1>0, <1>16, NumberRead
<1>63. r5 = Bytes(modifier, 4) \o r6
  BY <1>8, <1>11
<1>64. ReadNumber(4, TRUE, r5) = Done(modifier, r6)
  BY <1>63, <1>62
<1>65. ReadNumber(4, TRUE, r5).value = modifier /\ ReadNumber(4, TRUE, r5).rest = r6
  BY <1>64, DoneParts
<1>66. ReadNumber(2, FALSE, Bytes(mode, 2) \o rest) = Done(mode, rest)
  BY <1>0, NumberRead
<1>67. r6 = Bytes(mode, 2) \o rest
  BY <1>9, <1>10
<1>68. ReadNumber(2, FALSE, r6) = Done(mode, rest)
  BY <1>67, <1>66
<1>69. ReadNumber(2, FALSE, r6).value = mode /\ ReadNumber(2, FALSE, r6).rest = rest
  BY <1>68, DoneParts
<1>70. ReadDescription(all)
        = Done([name |-> name, tableID |-> table, columnID |-> column, dataTypeID |-> oid,
                dataTypeSize |-> size, dataTypeModifier |-> modifier,
                mode |-> IF mode \in {0, 1} THEN mode ELSE 0], rest)
  BY <1>22, <1>45, <1>49, <1>53, <1>57, <1>61, <1>65, <1>69 DEF ReadDescription
<1> QED  BY <1>70, <1>43

\* The description of a column is read as it was written, but for a mode that is unknown.
LEMMA DescriptionRead ==
  ASSUME NEW c \in Descriptions, NEW rest \in Octets
  PROVE  ReadDescription(WriteDescription(c) \o rest) = Done(Shown(c), rest)
<1>1. PICK name, table, column, oid, size, modifier, mode :
        /\ name = c.name /\ table = c.tableID /\ column = c.columnID /\ oid = c.dataTypeID
        /\ size = c.dataTypeSize /\ modifier = c.dataTypeModifier /\ mode = c.mode
  OBVIOUS
<1>2. /\ IsText(name) /\ Storable(table, 4, FALSE) /\ Storable(column, 2, FALSE)
      /\ Storable(oid, 4, FALSE) /\ Storable(size, 2, TRUE)
      /\ Storable(modifier, 4, TRUE) /\ Storable(mode, 2, FALSE)
  BY <1>1, DescriptionType
<1>3. PICK data : data = WriteDescription(c)
  OBVIOUS
<1>6. data
        = Terminated(name) \o Bytes(table, 4) \o Bytes(column, 2) \o Bytes(oid, 4)
            \o Bytes(size, 2) \o Bytes(modifier, 4) \o Bytes(mode, 2)
  BY <1>1, <1>3 DEF WriteDescription
<1>7. IsDescription(data, name, table, column, oid, size, modifier, mode)
  BY <1>2, <1>6 DEF IsDescription
<1>4. ReadDescription(data \o rest)
        = Done([name |-> name, tableID |-> table, columnID |-> column, dataTypeID |-> oid,
                dataTypeSize |-> size, dataTypeModifier |-> modifier,
                mode |-> IF mode \in {0, 1} THEN mode ELSE 0], rest)
  BY <1>7, DescriptionParts
<1>5. Shown(c) = [name |-> name, tableID |-> table, columnID |-> column, dataTypeID |-> oid,
                  dataTypeSize |-> size, dataTypeModifier |-> modifier,
                  mode |-> IF mode \in {0, 1} THEN mode ELSE 0]
  BY <1>1 DEF Shown, Descriptions
<1> QED  BY <1>3, <1>4, <1>5

\* The type of a parameter is read as it was written.
LEMMA OIDRead ==
  ASSUME NEW n \in Longs \cup {0}, NEW rest \in Octets
  PROVE  ReadOID(Bytes(n, 4) \o rest) = Done(n, rest)
<1>1. Storable(n, 4, FALSE)
  BY Bounds, SMT DEF Storable, Largest
<1> QED  BY <1>1, NumberRead DEF ReadOID

LEMMA OIDType ==
  ASSUME NEW n \in Longs \cup {0}
  PROVE  Bytes(n, 4) \in Octets
<1>1. n \in Int
  <2>1. \A x \in Longs : x \in Nat
    BY Bounds
  <2> QED  BY <2>1
<1> QED  BY <1>1, BytesType

\* The format of a parameter is read as it was written.
LEMMA ModeRead ==
  ASSUME NEW b \in BOOLEAN, NEW rest \in Octets
  PROVE  ReadMode(Bytes(Mode(b), 2) \o rest) = Done(Mode(b), rest)
<1>1. Storable(Mode(b), 2, FALSE)
  BY SMT DEF Storable, Largest, Mode
<1> QED  BY <1>1, NumberRead DEF ReadMode

LEMMA ModeType ==
  ASSUME NEW b \in BOOLEAN
  PROVE  Bytes(Mode(b), 2) \in Octets
BY BytesType DEF Mode

\* All the descriptions of a result, one after the other.
LEMMA DescriptionsRead ==
  ASSUME NEW n \in Nat, NEW row \in [1 .. n -> Descriptions], NEW tail \in Octets,
         NEW read, read = [i \in 1 .. n |-> Shown(row[i])]
  PROVE  ReadList(ReadDescription, n, FlattenSeq([i \in 1 .. n |-> WriteDescription(row[i])]) \o tail)
           = Done(read, tail)
<1> DEFINE parts == [i \in 1 .. n |-> WriteDescription(row[i])]
           data == FlattenSeq(parts) \o tail
<1>1. parts \in [1 .. n -> Octets]
  BY DescriptionType
<1>2. \A i \in 1 .. n : parts[i] = WriteDescription(row[i])
  OBVIOUS
<1> HIDE DEF parts
<1>3. PICK left : Unread(left, parts, n, tail)
  BY <1>1, UnreadItems
<1>13. PICK S : S = {read[i] : i \in 1 .. n}
  OBVIOUS
<1>14. read \in [1 .. n -> S]
  BY <1>13
<1>12. PICK front : Fronts(front, read, n)
  BY <1>14, ItemByItem
<1> DEFINE Turn(s) == Added(s, ReadDescription(s.rest))
           Fits(f) == f = [i \in 0 .. n |-> IF i = 0 THEN Done(<<>>, data) ELSE Turn(f[i - 1])]
           g == [i \in 0 .. n |-> Done(front[i], left[i])]
<1>4. g[0] = Done(<<>>, data)
  <2>1. 0 \in 0 .. n /\ left[0] = data /\ front[0] = <<>>
    BY <1>3, <1>12 DEF Unread, Fronts
  <2>2. g[0] = Done(front[0], left[0])
    BY <2>1
  <2> HIDE DEF g, data
  <2> QED  BY <2>1, <2>2
<1>5. ASSUME NEW i \in 1 .. n
      PROVE  g[i] = Turn(g[i - 1])
  <2>1. i \in 0 .. n /\ i - 1 \in 0 .. n /\ row[i] \in Descriptions
    OBVIOUS
  <2>2. left[i - 1] = WriteDescription(row[i]) \o left[i] /\ left[i] \in Octets
    BY <1>2, <1>3, <2>1 DEF Unread
  <2>3. ReadDescription(left[i - 1]) = Done(read[i], left[i])
    BY <2>1, <2>2, DescriptionRead
  <2>4. Append(front[i - 1], read[i]) = front[i]
    BY <1>12 DEF Fronts
  <2>5. g[i] = Done(front[i], left[i]) /\ g[i - 1] = Done(front[i - 1], left[i - 1])
    BY <2>1
  <2> HIDE DEF g
  <2>6. PICK v, more, x, rest : v = front[i - 1] /\ more = left[i - 1] /\ x = read[i] /\ rest = left[i]
    OBVIOUS
  <2>7. Turn(Done(v, more)) = Done(Append(v, x), rest)
    <3>1. Done(v, more).rest = more /\ ReadDescription(more) = Done(x, rest)
      BY <2>3, <2>6, AddedTo
    <3>2. Added(Done(v, more), Done(x, rest)) = Done(Append(v, x), rest)
      BY AddedTo
    <3> QED  BY <3>1, <3>2
  <2> HIDE DEF Turn
  <2> QED  BY <2>4, <2>5, <2>6, <2>7
<1>6. Fits(g)
  <2>2. g = [i \in 0 .. n |-> g[i]]
    OBVIOUS
  <2> HIDE DEF Turn, data, g
  <2>1. \A i \in 0 .. n : g[i] = IF i = 0 THEN Done(<<>>, data) ELSE Turn(g[i - 1])
    <3>1. \A i \in 0 .. n : i = 0 \/ (i # 0 /\ i \in 1 .. n)
      OBVIOUS
    <3> QED  BY <1>4, <1>5, <3>1
  <2> QED  BY <2>1, <2>2
<1>7. PICK h : Fits(h) /\ h = CHOOSE f : Fits(f)
  <2> HIDE DEF Fits, g
  <2> QED  BY <1>6
<1>8. ReadList(ReadDescription, n, data) = h[n]
  <2>1. ReadList(ReadDescription, n, data) = (CHOOSE f : Fits(f))[n]
    BY DEF ReadList, Repeat
  <2> HIDE DEF Fits, data
  <2> QED  BY <1>7, <2>1
<1> HIDE DEF Turn, data, g
<1>9. \A i \in 0 .. n : h[i] = g[i]
  <2> DEFINE T == {i \in 0 .. n : h[i] = g[i]}
  <2>1. 0 \in T
    BY <1>4, <1>7
  <2>2. \A i \in 1 .. n : i - 1 \in T => i \in T
    BY <1>5, <1>7
  <2> HIDE DEF T
  <2>3. \A i \in 0 .. n : i \in T
    BY <2>1, <2>2, Induct
  <2> QED  BY <2>3 DEF T
<1>10. h[n] = Done(read, tail)
  <2>1. n \in 0 .. n
    OBVIOUS
  <2>2. g[n] = Done(front[n], left[n])
    BY <2>1 DEF g
  <2>3. left[n] = tail /\ front[n] = read
    BY <1>3, <1>12 DEF Unread, Fronts
  <2> QED  BY <1>9, <2>1, <2>2, <2>3
<1>11. ReadList(ReadDescription, n, data) = Done(read, tail)
  BY <1>8, <1>10
<1> QED  BY <1>11 DEF data, parts

\* All the types of a Parse, one after the other.
LEMMA OIDsRead ==
  ASSUME NEW n \in Nat, NEW row \in [1 .. n -> (Longs \cup {0})], NEW tail \in Octets
  PROVE  ReadList(ReadOID, n, FlattenSeq([i \in 1 .. n |-> Bytes(row[i], 4)]) \o tail)
           = Done(row, tail)
<1> DEFINE parts == [i \in 1 .. n |-> Bytes(row[i], 4)]
           data == FlattenSeq(parts) \o tail
<1>1. parts \in [1 .. n -> Octets]
  BY OIDType
<1>2. \A i \in 1 .. n : parts[i] = Bytes(row[i], 4)
  OBVIOUS
<1> HIDE DEF parts
<1>3. PICK left : Unread(left, parts, n, tail)
  BY <1>1, UnreadItems
<1>12. PICK front : Fronts(front, row, n)
  BY ItemByItem
<1> DEFINE Turn(s) == Added(s, ReadOID(s.rest))
           Fits(f) == f = [i \in 0 .. n |-> IF i = 0 THEN Done(<<>>, data) ELSE Turn(f[i - 1])]
           g == [i \in 0 .. n |-> Done(front[i], left[i])]
<1>4. g[0] = Done(<<>>, data)
  <2>1. 0 \in 0 .. n /\ left[0] = data /\ front[0] = <<>>
    BY <1>3, <1>12 DEF Unread, Fronts
  <2>2. g[0] = Done(front[0], left[0])
    BY <2>1
  <2> HIDE DEF g, data
  <2> QED  BY <2>1, <2>2
<1>5. ASSUME NEW i \in 1 .. n
      PROVE  g[i] = Turn(g[i - 1])
  <2>1. i \in 0 .. n /\ i - 1 \in 0 .. n /\ row[i] \in (Longs \cup {0})
    OBVIOUS
  <2>2. left[i - 1] = Bytes(row[i], 4) \o left[i] /\ left[i] \in Octets
    BY <1>2, <1>3, <2>1 DEF Unread
  <2>3. ReadOID(left[i - 1]) = Done(row[i], left[i])
    BY <2>1, <2>2, OIDRead
  <2>4. Append(front[i - 1], row[i]) = front[i]
    BY <1>12 DEF Fronts
  <2>5. g[i] = Done(front[i], left[i]) /\ g[i - 1] = Done(front[i - 1], left[i - 1])
    BY <2>1
  <2> HIDE DEF g
  <2>6. PICK v, more, x, rest : v = front[i - 1] /\ more = left[i - 1] /\ x = row[i] /\ rest = left[i]
    OBVIOUS
  <2>7. Turn(Done(v, more)) = Done(Append(v, x), rest)
    <3>1. Done(v, more).rest = more /\ ReadOID(more) = Done(x, rest)
      BY <2>3, <2>6, AddedTo
    <3>2. Added(Done(v, more), Done(x, rest)) = Done(Append(v, x), rest)
      BY AddedTo
    <3> QED  BY <3>1, <3>2
  <2> HIDE DEF Turn
  <2> QED  BY <2>4, <2>5, <2>6, <2>7
<1>6. Fits(g)
  <2>2. g = [i \in 0 .. n |-> g[i]]
    OBVIOUS
  <2> HIDE DEF Turn, data, g
  <2>1. \A i \in 0 .. n : g[i] = IF i = 0 THEN Done(<<>>, data) ELSE Turn(g[i - 1])
    <3>1. \A i \in 0 .. n : i = 0 \/ (i # 0 /\ i \in 1 .. n)
      OBVIOUS
    <3> QED  BY <1>4, <1>5, <3>1
  <2> QED  BY <2>1, <2>2
<1>7. PICK h : Fits(h) /\ h = CHOOSE f : Fits(f)
  <2> HIDE DEF Fits, g
  <2> QED  BY <1>6
<1>8. ReadList(ReadOID, n, data) = h[n]
  <2>1. ReadList(ReadOID, n, data) = (CHOOSE f : Fits(f))[n]
    BY DEF ReadList, Repeat
  <2> HIDE DEF Fits, data
  <2> QED  BY <1>7, <2>1
<1> HIDE DEF Turn, data, g
<1>9. \A i \in 0 .. n : h[i] = g[i]
  <2> DEFINE T == {i \in 0 .. n : h[i] = g[i]}
  <2>1. 0 \in T
    BY <1>4, <1>7
  <2>2. \A i \in 1 .. n : i - 1 \in T => i \in T
    BY <1>5, <1>7
  <2> HIDE DEF T
  <2>3. \A i \in 0 .. n : i \in T
    BY <2>1, <2>2, Induct
  <2> QED  BY <2>3 DEF T
<1>10. h[n] = Done(row, tail)
  <2>1. n \in 0 .. n
    OBVIOUS
  <2>2. g[n] = Done(front[n], left[n])
    BY <2>1 DEF g
  <2>3. left[n] = tail /\ front[n] = row
    BY <1>3, <1>12 DEF Unread, Fronts
  <2> QED  BY <1>9, <2>1, <2>2, <2>3
<1>11. ReadList(ReadOID, n, data) = Done(row, tail)
  BY <1>8, <1>10
<1> QED  BY <1>11 DEF data, parts

\* All the formats of a Bind, one after the other.
LEMMA ModesRead ==
  ASSUME NEW n \in Nat, NEW row \in [1 .. n -> BOOLEAN], NEW tail \in Octets,
         NEW read, read = [i \in 1 .. n |-> Mode(row[i])]
  PROVE  ReadList(ReadMode, n, FlattenSeq([i \in 1 .. n |-> Bytes(Mode(row[i]), 2)]) \o tail)
           = Done(read, tail)
<1> DEFINE parts == [i \in 1 .. n |-> Bytes(Mode(row[i]), 2)]
           data == FlattenSeq(parts) \o tail
<1>1. parts \in [1 .. n -> Octets]
  BY ModeType
<1>2. \A i \in 1 .. n : parts[i] = Bytes(Mode(row[i]), 2)
  OBVIOUS
<1> HIDE DEF parts
<1>3. PICK left : Unread(left, parts, n, tail)
  BY <1>1, UnreadItems
<1>13. PICK S : S = {read[i] : i \in 1 .. n}
  OBVIOUS
<1>14. read \in [1 .. n -> S]
  BY <1>13
<1>12. PICK front : Fronts(front, read, n)
  BY <1>14, ItemByItem
<1> DEFINE Turn(s) == Added(s, ReadMode(s.rest))
           Fits(f) == f = [i \in 0 .. n |-> IF i = 0 THEN Done(<<>>, data) ELSE Turn(f[i - 1])]
           g == [i \in 0 .. n |-> Done(front[i], left[i])]
<1>4. g[0] = Done(<<>>, data)
  <2>1. 0 \in 0 .. n /\ left[0] = data /\ front[0] = <<>>
    BY <1>3, <1>12 DEF Unread, Fronts
  <2>2. g[0] = Done(front[0], left[0])
    BY <2>1
  <2> HIDE DEF g, data
  <2> QED  BY <2>1, <2>2
<1>5. ASSUME NEW i \in 1 .. n
      PROVE  g[i] = Turn(g[i - 1])
  <2>1. i \in 0 .. n /\ i - 1 \in 0 .. n /\ row[i] \in BOOLEAN
    OBVIOUS
  <2>2. left[i - 1] = Bytes(Mode(row[i]), 2) \o left[i] /\ left[i] \in Octets
    BY <1>2, <1>3, <2>1 DEF Unread
  <2>3. ReadMode(left[i - 1]) = Done(read[i], left[i])
    BY <2>1, <2>2, ModeRead
  <2>4. Append(front[i - 1], read[i]) = front[i]
    BY <1>12 DEF Fronts
  <2>5. g[i] = Done(front[i], left[i]) /\ g[i - 1] = Done(front[i - 1], left[i - 1])
    BY <2>1
  <2> HIDE DEF g
  <2>6. PICK v, more, x, rest : v = front[i - 1] /\ more = left[i - 1] /\ x = read[i] /\ rest = left[i]
    OBVIOUS
  <2>7. Turn(Done(v, more)) = Done(Append(v, x), rest)
    <3>1. Done(v, more).rest = more /\ ReadMode(more) = Done(x, rest)
      BY <2>3, <2>6, AddedTo
    <3>2. Added(Done(v, more), Done(x, rest)) = Done(Append(v, x), rest)
      BY AddedTo
    <3> QED  BY <3>1, <3>2
  <2> HIDE DEF Turn
  <2> QED  BY <2>4, <2>5, <2>6, <2>7
<1>6. Fits(g)
  <2>2. g = [i \in 0 .. n |-> g[i]]
    OBVIOUS
  <2> HIDE DEF Turn, data, g
  <2>1. \A i \in 0 .. n : g[i] = IF i = 0 THEN Done(<<>>, data) ELSE Turn(g[i - 1])
    <3>1. \A i \in 0 .. n : i = 0 \/ (i # 0 /\ i \in 1 .. n)
      OBVIOUS
    <3> QED  BY <1>4, <1>5, <3>1
  <2> QED  BY <2>1, <2>2
<1>7. PICK h : Fits(h) /\ h = CHOOSE f : Fits(f)
  <2> HIDE DEF Fits, g
  <2> QED  BY <1>6
<1>8. ReadList(ReadMode, n, data) = h[n]
  <2>1. ReadList(ReadMode, n, data) = (CHOOSE f : Fits(f))[n]
    BY DEF ReadList, Repeat
  <2> HIDE DEF Fits, data
  <2> QED  BY <1>7, <2>1
<1> HIDE DEF Turn, data, g
<1>9. \A i \in 0 .. n : h[i] = g[i]
  <2> DEFINE T == {i \in 0 .. n : h[i] = g[i]}
  <2>1. 0 \in T
    BY <1>4, <1>7
  <2>2. \A i \in 1 .. n : i - 1 \in T => i \in T
    BY <1>5, <1>7
  <2> HIDE DEF T
  <2>3. \A i \in 0 .. n : i \in T
    BY <2>1, <2>2, Induct
  <2> QED  BY <2>3 DEF T
<1>10. h[n] = Done(read, tail)
  <2>1. n \in 0 .. n
    OBVIOUS
  <2>2. g[n] = Done(front[n], left[n])
    BY <2>1 DEF g
  <2>3. left[n] = tail /\ front[n] = read
    BY <1>3, <1>12 DEF Unread, Fronts
  <2> QED  BY <1>9, <2>1, <2>2, <2>3
<1>11. ReadList(ReadMode, n, data) = Done(read, tail)
  BY <1>8, <1>10
<1> QED  BY <1>11 DEF data, parts

LEMMA FlatType ==
  ASSUME NEW n \in Nat, NEW parts \in [1 .. n -> Octets]
  PROVE  FlattenSeq(parts) \in Octets
<1>1. PICK rest \in [0 .. n -> Octets] : rest[0] = FlattenSeq(parts)
  BY Remainders
<1>2. 0 \in 0 .. n
  OBVIOUS
<1> QED  BY <1>1, <1>2

\* A list of the model, and its length fits the two bytes of a count.
LEMMA ListsAreBounded ==
  ASSUME NEW S, NEW list \in Lists(S)
  PROVE  /\ Len(list) \in Nat /\ Len(list) <= MaxItems /\ DOMAIN list = 1 .. Len(list)
         /\ list \in [1 .. Len(list) -> S] /\ Storable(Len(list), 2, FALSE)
<1>1. PICK n \in 0 .. MaxItems : list \in [1 .. n -> S]
  BY DEF Lists, BoundedSeq, SeqOf
<1>2. MaxItems \in Nat
  BY Bounds
<1>3. n \in Nat /\ n <= MaxItems
  BY <1>2
<1>4. Len(list) = n /\ DOMAIN list = 1 .. n
  BY <1>1, <1>3
<1>5. Storable(n, 2, FALSE)
  BY <1>3, Bounds
<1> QED  BY <1>1, <1>3, <1>4, <1>5

\* A whole row is read as it was written, whatever follows it.
LEMMA RowRead ==
  ASSUME NEW row \in Lists(Columns), NEW tail \in Octets
  PROVE  /\ WriteRow(row) \in Octets
         /\ ReadRow(WriteRow(row) \o tail) = Done(row, tail)
<1>1. PICK n \in Nat : n = Len(row)
  BY ListsAreBounded
<1>2. row \in [1 .. n -> Columns] /\ DOMAIN row = 1 .. n /\ Storable(n, 2, FALSE)
  BY <1>1, ListsAreBounded
<1>3. PICK parts : parts = [i \in 1 .. n |-> WriteColumn(row[i])]
  OBVIOUS
<1>4. parts \in [1 .. n -> Octets]
  BY <1>2, <1>3, ColumnType
<1>5. PICK flat : flat = FlattenSeq(parts)
  OBVIOUS
<1>6. flat \in Octets
  BY <1>4, <1>5, FlatType
<1>7. flat \o tail \in Octets
  BY <1>6, OctetsConcat
<1>8. Bytes(n, 2) \in Octets
  BY BytesType
<1>9. WriteRow(row) = Bytes(n, 2) \o flat
  BY <1>1, <1>2, <1>3, <1>5 DEF WriteRow
<1>10. WriteRow(row) \in Octets
  BY <1>6, <1>8, <1>9, OctetsConcat
<1>11. (Bytes(n, 2) \o flat) \o tail = Bytes(n, 2) \o (flat \o tail)
  BY <1>6, <1>8, OctetsRegroup
<1>12. ReadNumber(2, FALSE, Bytes(n, 2) \o (flat \o tail)) = Done(n, flat \o tail)
  BY <1>2, <1>7, NumberRead
<1>13. PICK data, more : data = WriteRow(row) \o tail /\ more = flat \o tail
  OBVIOUS
<1>14. ReadNumber(2, FALSE, data) = Done(n, more)
  BY <1>9, <1>11, <1>12, <1>13
<1>15. PICK count : count = ReadNumber(2, FALSE, data)
  OBVIOUS
<1>19. count = Done(n, more)
  BY <1>14, <1>15
<1>16. count.ok /\ count.value = n /\ count.rest = more
  BY <1>19, DoneParts
<1>17. ReadList(ReadColumn, n, more) = Done(row, tail)
  BY <1>2, <1>3, <1>5, <1>13, ColumnsRead
<1>18. ReadRow(data) = ReadList(ReadColumn, n, more)
  BY <1>15, <1>16 DEF ReadRow
<1> QED  BY <1>10, <1>13, <1>17, <1>18

\* So is the description of a whole row.
LEMMA DescriptionsWhole ==
  ASSUME NEW row \in BoundedSeq(Descriptions, MaxColumns), NEW data,
         data = Bytes(Len(row), 2) \o FlattenSeq([i \in DOMAIN row |-> WriteDescription(row[i])])
  PROVE  LET count == ReadNumber(2, FALSE, data)
         IN ReadList(ReadDescription, count.value, count.rest)
              = Done([i \in DOMAIN row |-> Shown(row[i])], <<>>)
<1>1. PICK n \in 0 .. MaxColumns : row \in [1 .. n -> Descriptions]
  BY DEF BoundedSeq, SeqOf
<1>2. MaxColumns \in Nat
  BY Bounds
<1>3. n \in Nat /\ n <= MaxColumns
  BY <1>2
<1>4. Len(row) = n /\ DOMAIN row = 1 .. n
  BY <1>1, <1>3
<1>5. Storable(n, 2, FALSE)
  BY <1>3, Bounds
<1>6. PICK parts : parts = [i \in 1 .. n |-> WriteDescription(row[i])]
  OBVIOUS
<1>7. parts \in [1 .. n -> Octets]
  BY <1>1, <1>6, DescriptionType
<1>8. PICK flat : flat = FlattenSeq(parts)
  OBVIOUS
<1>9. flat \in Octets /\ <<>> \in Octets /\ flat \o <<>> = flat
  BY <1>3, <1>7, <1>8, FlatType, OctetsConcatEmpty
<1>10. ReadNumber(2, FALSE, Bytes(n, 2) \o flat) = Done(n, flat)
  BY <1>5, <1>9, NumberRead
<1>11. data = Bytes(n, 2) \o flat
  BY <1>4, <1>6, <1>8
<1>12. PICK count : count = ReadNumber(2, FALSE, data)
  OBVIOUS
<1>13. count = Done(n, flat)
  BY <1>10, <1>11, <1>12
<1>14. count.value = n /\ count.rest = flat
  BY <1>13, DoneParts
<1>15. PICK read : read = [i \in 1 .. n |-> Shown(row[i])]
  OBVIOUS
<1>16. ReadList(ReadDescription, n, FlattenSeq([i \in 1 .. n |-> WriteDescription(row[i])]) \o <<>>)
         = Done(read, <<>>)
  BY <1>1, <1>3, <1>9, <1>15, DescriptionsRead
<1>17. ReadList(ReadDescription, n, flat) = Done(read, <<>>)
  BY <1>6, <1>8, <1>9, <1>16
<1> QED  BY <1>4, <1>12, <1>14, <1>15, <1>17

(***************************************************************************)
(* Rows that are cut short.                                                *)
(***************************************************************************)
Joined(whole, front, rest) ==
  whole = front \o rest /\ Len(whole) = Len(front) + Len(rest)

LEMMA JoinedParts ==
  ASSUME NEW a \in Octets, NEW b \in Octets
  PROVE  Joined(a \o b, a, b)
BY OctetsConcatLen DEF Joined

LEMMA JoinedSplit ==
  ASSUME NEW a \in Octets, NEW b \in Octets, NEW whole, Joined(whole, a, b)
  PROVE  SubSeq(whole, 1, Len(a)) = a /\ SubSeq(whole, Len(a) + 1, Len(whole)) = b
BY Parted DEF Joined

\* Bytes can be cut anywhere.
LEMMA Divided ==
  ASSUME NEW a \in Octets, NEW n \in 0 .. Len(a)
  PROVE  \E x, y \in Octets : x = SubSeq(a, 1, n) /\ Len(x) = n /\ Joined(a, x, y)
<1>1. a \in Seq(Int) /\ Len(a) \in Nat /\ \A i \in 1 .. Len(a) : a[i] \in Int
  BY OctetsLen DEF Octets
<1> DEFINE x == SubSeq(a, 1, n)
           y == SubSeq(a, n + 1, Len(a))
<1>2. /\ x \in Seq(Int) /\ Len(x) = n
      /\ \A i \in 1 .. n : x[i] = a[i]
  <2>1. \A i \in 1 .. n : a[i] \in Int
    BY <1>1
  <2>2. /\ x \in Seq(Int) /\ Len(x) = IF 1 <= n THEN n - 1 + 1 ELSE 0
        /\ \A i \in 1 .. n - 1 + 1 : x[i] = a[1 + i - 1]
    BY <1>1, <2>1, SubSeqProperties
  <2> HIDE DEF x
  <2>3. Len(x) = n
    BY <1>1, <2>2
  <2>4. n - 1 + 1 = n /\ \A i \in 1 .. n : 1 + i - 1 = i
    BY <1>1
  <2> QED  BY <2>2, <2>3, <2>4
<1>3. /\ y \in Seq(Int) /\ Len(y) = Len(a) - n
      /\ \A i \in 1 .. Len(a) - n : y[i] = a[n + i]
  <2>1. \A i \in n + 1 .. Len(a) : a[i] \in Int
    BY <1>1
  <2>2. /\ y \in Seq(Int) /\ Len(y) = IF n + 1 <= Len(a) THEN Len(a) - (n + 1) + 1 ELSE 0
        /\ \A i \in 1 .. Len(a) - (n + 1) + 1 : y[i] = a[(n + 1) + i - 1]
    BY <1>1, <2>1, SubSeqProperties
  <2> HIDE DEF y
  <2>3. Len(y) = Len(a) - n
    BY <1>1, <2>2
  <2>4. Len(a) - (n + 1) + 1 = Len(a) - n /\ \A i \in 1 .. Len(a) - n : (n + 1) + i - 1 = n + i
    BY <1>1
  <2> QED  BY <2>2, <2>3, <2>4
<1> HIDE DEF x, y
<1>4. PICK z : z = x \o y
  OBVIOUS
<1>5. /\ z \in Seq(Int) /\ Len(z) = n + Len(y)
      /\ \A i \in 1 .. n : z[i] = x[i]
      /\ \A i \in 1 .. Len(y) : z[n + i] = y[i]
  <2>1. x \in Octets /\ y \in Octets
    BY <1>2, <1>3 DEF Octets
  <2> QED  BY <1>2, <1>4, <2>1, OctetsConcat, OctetsConcatLen DEF Octets
<1>6. Len(z) = Len(a) /\ \A i \in 1 .. Len(z) : z[i] = a[i]
  <2>1. Len(z) = Len(a)
    BY <1>1, <1>3, <1>5
  <2>2. \A i \in 1 .. n : z[i] = a[i]
    BY <1>2, <1>5
  <2>3. ASSUME NEW i \in n + 1 .. Len(a)
        PROVE  z[i] = a[i]
    <3>1. PICK j \in 1 .. Len(a) - n : i = n + j
      <4>1. i - n \in 1 .. Len(a) - n /\ i = n + (i - n)
        BY <1>1
      <4> QED  BY <4>1
    <3> QED  BY <1>3, <1>5, <3>1
  <2>4. \A i \in 1 .. Len(a) : i \in 1 .. n \/ i \in n + 1 .. Len(a)
    BY <1>1
  <2> QED  BY <2>1, <2>2, <2>3, <2>4
<1>7. z = a
  BY <1>1, <1>5, <1>6, SeqEqual
<1>8. x \in Octets /\ y \in Octets
  BY <1>2, <1>3 DEF Octets
<1>9. x = SubSeq(a, 1, n)
  BY DEF x
<1>10. Joined(a, x, y)
  BY <1>4, <1>7, <1>8, JoinedParts
<1> QED  BY <1>2, <1>8, <1>9, <1>10

\* Of two ways to cut the same bytes, the shorter front is the front of the longer.
LEMMA Overlapping ==
  ASSUME NEW a \in Octets, NEW b \in Octets, NEW x \in Octets, NEW y \in Octets, NEW whole,
         Joined(whole, a, b), Joined(whole, x, y), Len(a) <= Len(x)
  PROVE  \E m \in Octets : Joined(x, a, m) /\ Joined(b, m, y)
<1>1. Len(a) \in Nat /\ Len(x) \in Nat /\ Len(a) \in 0 .. Len(x)
  BY OctetsLen
<1>2. PICK p, m \in Octets : Len(p) = Len(a) /\ Joined(x, p, m)
  <2>1. PICK n \in 0 .. Len(x) : n = Len(a)
    BY <1>1
  <2>2. \E p, m \in Octets : Len(p) = n /\ Joined(x, p, m)
    BY Divided
  <2> QED  BY <2>1, <2>2
<1>3. PICK q : q = m \o y
  OBVIOUS
<1>4. q \in Octets /\ Joined(q, m, y)
  BY <1>2, <1>3, OctetsConcat, JoinedParts
<1>5. whole = p \o q
  <2>1. (p \o m) \o y = p \o (m \o y)
    BY <1>2, OctetsRegroup
  <2>2. whole = x \o y
    BY DEF Joined
  <2>3. x = p \o m
    BY <1>2 DEF Joined
  <2> QED  BY <1>3, <2>1, <2>2, <2>3
<1>6. Joined(whole, p, q) /\ Joined(x, p, m)
  BY <1>2, <1>4, <1>5, JoinedParts
<1>7. SubSeq(whole, 1, Len(a)) = a /\ SubSeq(whole, Len(a) + 1, Len(whole)) = b
  BY JoinedSplit
<1>8. SubSeq(whole, 1, Len(p)) = p /\ SubSeq(whole, Len(p) + 1, Len(whole)) = q
  BY <1>2, <1>4, <1>6, JoinedSplit
<1>9. p = a /\ q = b
  BY <1>2, <1>7, <1>8
<1> QED  BY <1>2, <1>4, <1>6, <1>9

\* A number of which bytes are missing is an error.
LEMMA NotRead ==
  ASSUME NEW w \in Nat, NEW signed \in BOOLEAN, NEW data \in Octets, Len(data) < w
  PROVE  ReadNumber(w, signed, data) = Thrown /\ Read(w, data) = Thrown /\ ~Thrown.ok
<1>1. Read(w, data) = Thrown /\ ~Thrown.ok
  BY DEF Read, Thrown
<1> QED  BY <1>1 DEF ReadNumber

\* A column that is cut short is not read.
LEMMA CutColumnThrown ==
  ASSUME NEW c \in Columns, NEW d \in Octets, NEW m \in Octets, NEW w, w = WriteColumn(c),
         Joined(w, d, m), Len(d) < Len(w)
  PROVE  ReadColumn(d) = Thrown
<1>1. Len(d) \in Nat /\ Len(m) \in Nat
  BY OctetsLen
<1>2. CASE Len(d) < 4
  <2>1. ReadNumber(4, TRUE, d) = Thrown /\ ~Thrown.ok
    BY <1>2, NotRead
  <2> QED  BY <2>1 DEF ReadColumn
<1>3. CASE ~ (Len(d) < 4)
  <2>1. c # Null
    <3> SUFFICES ASSUME c = Null
                 PROVE  FALSE
      OBVIOUS
    <3>4. PICK v \in Int : v = -1
      OBVIOUS
    <3>1. Len(Bytes(v, 4)) = 4
      BY BytesType
    <3>2. w = Bytes(v, 4)
      BY <3>4 DEF WriteColumn
    <3>3. Len(w) = 4
      BY <3>1, <3>2
    <3> QED  BY <1>1, <1>3, <3>3
  <2>2. c \in Strings
    BY <2>1 DEF Columns
  <2>3. c \in Octets /\ Len(c) \in Nat /\ Len(c) \in Int /\ Len(c) <= MaxLetters
    BY <2>2, StringsAreText, OctetsLen DEF IsText
  <2>4. Storable(Len(c), 4, TRUE)
    BY <2>3, Bounds
  <2>5. PICK size, v : v = Len(c) /\ size = Bytes(v, 4)
    OBVIOUS
  <2>6. size \in Octets /\ Len(size) = 4
    <3>1. v \in Int
      BY <2>3, <2>5
    <3>2. Bytes(v, 4) \in Octets /\ Len(Bytes(v, 4)) = 4
      BY <3>1, BytesType
    <3> QED  BY <2>5, <3>2
  <2>7. w = size \o c
    BY <2>1, <2>5 DEF WriteColumn
  <2>8. Joined(w, size, c) /\ Len(size) <= Len(d)
    BY <1>1, <1>3, <2>3, <2>6, <2>7, JoinedParts
  <2>9. PICK e \in Octets : Joined(d, size, e) /\ Joined(c, e, m)
    BY <2>3, <2>6, <2>8, Overlapping
  <2>10. ReadNumber(4, TRUE, Bytes(v, 4) \o e) = Done(v, e)
    BY <2>4, <2>5, <2>9, NumberRead
  <2>11. PICK length : length = ReadNumber(4, TRUE, d)
    OBVIOUS
  <2>12. d = Bytes(v, 4) \o e
    BY <2>5, <2>9 DEF Joined
  <2>13. length = Done(v, e)
    BY <2>10, <2>11, <2>12
  <2>14. length.ok /\ length.value = v /\ length.rest = e
    BY <2>13, DoneParts
  <2>15. Len(e) < v
    <3>1. Len(w) = Len(size) + Len(c) /\ Len(d) = Len(size) + Len(e)
      BY <2>8, <2>9 DEF Joined
    <3>2. Len(e) \in Nat
      BY <2>9, OctetsLen
    <3> QED  BY <2>3, <2>5, <2>6, <3>1, <3>2
  <2>16. v \in Nat /\ ~ (v < 0)
    BY <2>3, <2>5
  <2>17. Read(v, e) = Thrown
    BY <2>9, <2>15, <2>16, NotRead
  <2> QED  BY <2>11, <2>14, <2>16, <2>17 DEF ReadColumn
<1> QED  BY <1>2, <1>3

\* Of bytes that are cut, a column is an error or is read as if they were whole.
LEMMA CutColumn ==
  ASSUME NEW c \in Columns, NEW rest \in Octets, NEW d \in Octets, NEW e \in Octets,
         NEW whole, whole = WriteColumn(c) \o rest, Joined(whole, d, e)
  PROVE  \/ ReadColumn(d) = Thrown
         \/ \E f \in Octets : Joined(rest, f, e) /\ ReadColumn(d) = Done(c, f)
<1>1. PICK w : w = WriteColumn(c)
  OBVIOUS
<1>2. w \in Octets /\ Len(w) \in Nat /\ Len(d) \in Nat
  BY <1>1, ColumnType, OctetsLen
<1>3. Joined(whole, w, rest)
  BY <1>1, <1>2, JoinedParts
<1>4. CASE Len(w) <= Len(d)
  <2>1. PICK f \in Octets : Joined(d, w, f) /\ Joined(rest, f, e)
    BY <1>2, <1>3, <1>4, Overlapping
  <2>2. ReadColumn(WriteColumn(c) \o f) = Done(c, f)
    BY <2>1, ColumnRead
  <2>3. d = WriteColumn(c) \o f
    BY <1>1, <2>1 DEF Joined
  <2>4. ReadColumn(d) = Done(c, f)
    BY <2>2, <2>3
  <2> QED  BY <2>1, <2>4
<1>5. CASE ~ (Len(w) <= Len(d))
  <2>1. Len(d) <= Len(w) /\ Len(d) < Len(w)
    BY <1>2, <1>5
  <2>2. PICK m \in Octets : Joined(w, d, m)
    BY <1>2, <1>3, <2>1, Overlapping
  <2>3. ReadColumn(d) = Thrown
    BY <1>1, <2>1, <2>2, CutColumnThrown
  <2> QED  BY <2>3
<1> QED  BY <1>4, <1>5

Follows(h, g, n) ==
  h[0] = g[0] /\ \A i \in 1 .. n : h[i - 1] = g[i - 1] => h[i] = g[i]

\* Two loops that start alike and take the same turns end alike.
LEMMA Agree ==
  ASSUME NEW n \in Nat, NEW g, NEW h, Follows(h, g, n)
  PROVE  h[n] = g[n]
<1> DEFINE T == {i \in 0 .. n : h[i] = g[i]}
<1>1. 0 \in T
  BY DEF Follows
<1>2. \A i \in 1 .. n : i - 1 \in T => i \in T
  BY DEF Follows
<1> HIDE DEF T
<1>3. n \in T
  <2>1. \A i \in 0 .. n : i \in T
    BY <1>1, <1>2, Induct
  <2>2. n \in 0 .. n
    OBVIOUS
  <2> QED  BY <2>1, <2>2
<1> QED  BY <1>3 DEF T

\* What a reader can be at, of a row of which e is missing: it has failed, or
\* read all the columns before, and e is missing from the next ones.
CutAt(front, left, e) ==
  {Thrown} \cup {Done(front, f) : f \in {x \in Octets : Joined(left, x, e)}}

\* Columns of which bytes are missing are an error.
LEMMA ShortColumns ==
  ASSUME NEW n \in Nat, NEW row \in [1 .. n -> Columns], NEW d \in Octets, NEW e \in Octets,
         Len(e) # 0, NEW flat, flat = FlattenSeq([i \in 1 .. n |-> WriteColumn(row[i])]),
         Joined(flat, d, e)
  PROVE  ReadList(ReadColumn, n, d) = Thrown
<1> DEFINE parts == [i \in 1 .. n |-> WriteColumn(row[i])]
<1>1. parts \in [1 .. n -> Octets]
  BY ColumnType
<1>2. \A i \in 1 .. n : parts[i] = WriteColumn(row[i])
  OBVIOUS
<1>3. flat = FlattenSeq(parts)
  OBVIOUS
<1> HIDE DEF parts
<1>4. PICK left : Unread(left, parts, n, <<>>)
  BY <1>1, UnreadItems, OctetsConcatEmpty
<1>5. PICK front : Fronts(front, row, n)
  BY ItemByItem
<1> DEFINE Turn(s) == Added(s, ReadColumn(s.rest))
           Cuts(i) == CutAt(front[i], left[i], e)
           S == UNION {Cuts(i) : i \in 0 .. n}
           step == [i \in 1 .. n |-> [s \in S |-> IF Turn(s) \in S THEN Turn(s) ELSE Thrown]]
<1>6. left[0] = flat /\ front[0] = <<>>
  <2>1. flat \in Octets
    BY <1>1, <1>3, FlatType
  <2>2. flat \o <<>> = flat
    BY <2>1, OctetsConcatEmpty
  <2> QED  BY <1>3, <1>4, <1>5, <2>2 DEF Unread, Fronts
<1>7. Done(<<>>, d) \in Cuts(0)
  BY <1>6 DEF CutAt
<1>8. ASSUME NEW i \in 1 .. n, NEW s \in Cuts(i - 1)
      PROVE  Turn(s) \in Cuts(i)
  <2>1. i \in 0 .. n /\ i - 1 \in 0 .. n /\ row[i] \in Columns
    OBVIOUS
  <2>2. Thrown \in Cuts(i)
    BY DEF CutAt
  <2>3. CASE s = Thrown
    <3>1. Turn(s) = Thrown
      BY <2>3 DEF Added, Thrown
    <3> QED  BY <2>2, <3>1
  <2>4. CASE s # Thrown
    <3>1. PICK x \in Octets : Joined(left[i - 1], x, e) /\ s = Done(front[i - 1], x)
      BY <2>4 DEF CutAt
    <3>2. left[i] \in Octets /\ left[i - 1] = WriteColumn(row[i]) \o left[i]
      BY <1>2, <1>4, <2>1 DEF Unread
    <3>3. PICK c, rest, whole, v : c = row[i] /\ rest = left[i] /\ whole = left[i - 1] /\ v = front[i - 1]
      OBVIOUS
    <3>4. \/ ReadColumn(x) = Thrown
          \/ \E f \in Octets : Joined(rest, f, e) /\ ReadColumn(x) = Done(c, f)
      <4>1. c \in Columns /\ rest \in Octets /\ whole = WriteColumn(c) \o rest /\ Joined(whole, x, e)
        BY <2>1, <3>1, <3>2, <3>3
      <4> QED  BY <4>1, CutColumn
    <3>5. s = Done(v, x)
      BY <3>1, <3>3
    <3>6. s.rest = x
      BY <3>5, DoneParts
    <3>7. CASE ReadColumn(x) = Thrown
      <4>1. Turn(s) = Thrown
        BY <3>6, <3>7 DEF Added, Thrown
      <4> QED  BY <2>2, <4>1
    <3>8. CASE \E f \in Octets : Joined(rest, f, e) /\ ReadColumn(x) = Done(c, f)
      <4>1. PICK f \in Octets : Joined(rest, f, e) /\ ReadColumn(x) = Done(c, f)
        BY <3>8
      <4>2. Added(Done(v, x), Done(c, f)) = Done(Append(v, c), f)
        BY AddedTo
      <4>3. Turn(s) = Done(Append(v, c), f)
        BY <3>5, <3>6, <4>1, <4>2
      <4>4. Append(v, c) = front[i]
        BY <1>5, <3>3 DEF Fronts
      <4> HIDE DEF Turn
      <4> QED  BY <3>3, <4>1, <4>3, <4>4 DEF CutAt
    <3> QED  BY <3>4, <3>7, <3>8
  <2> QED  BY <2>3, <2>4
<1>9. \A i \in 0 .. n : Cuts(i) \subseteq S
  OBVIOUS
<1>10. Thrown \in S /\ Done(<<>>, d) \in S
  <2>1. 0 \in 0 .. n
    OBVIOUS
  <2>2. Thrown \in Cuts(0)
    BY DEF CutAt
  <2> HIDE DEF S, Cuts
  <2> QED  BY <1>7, <1>9, <2>1, <2>2
<1> HIDE DEF Turn, Cuts, S
<1>11. step \in [1 .. n -> [S -> S]]
  BY <1>10
<1>12. \A i \in 1 .. n : \A s \in S : Turn(s) \in S => step[i][s] = Turn(s)
  OBVIOUS
<1> HIDE DEF step
<1>13. PICK g : IsRun(g, n, S, Done(<<>>, d), step)
  BY <1>10, <1>11, Runs
<1>14. ASSUME NEW i \in 1 .. n, g[i - 1] \in Cuts(i - 1)
       PROVE  g[i] = Turn(g[i - 1]) /\ g[i] \in Cuts(i)
  <2>1. i \in 0 .. n /\ i - 1 \in 0 .. n
    OBVIOUS
  <2>2. Turn(g[i - 1]) \in Cuts(i)
    BY <1>8, <1>14
  <2>3. Turn(g[i - 1]) \in S /\ g[i - 1] \in S
    BY <1>9, <1>14, <2>1, <2>2
  <2>4. g[i] = step[i][g[i - 1]]
    BY <1>13 DEF IsRun
  <2>5. step[i][g[i - 1]] = Turn(g[i - 1])
    BY <1>12, <2>3
  <2> QED  BY <2>2, <2>4, <2>5
<1>15. \A i \in 0 .. n : g[i] \in Cuts(i)
  <2> DEFINE T == {i \in 0 .. n : g[i] \in Cuts(i)}
  <2>1. 0 \in T
    BY <1>7, <1>13 DEF IsRun
  <2>2. \A i \in 1 .. n : i - 1 \in T => i \in T
    BY <1>14
  <2> HIDE DEF T
  <2>3. \A i \in 0 .. n : i \in T
    BY <2>1, <2>2, Induct
  <2> QED  BY <2>3 DEF T
<1>16. \A i \in 1 .. n : g[i] = Turn(g[i - 1])
  <2>1. \A i \in 1 .. n : i - 1 \in 0 .. n
    OBVIOUS
  <2> QED  BY <1>14, <1>15, <2>1
<1>17. g[0] = Done(<<>>, d)
  BY <1>13 DEF IsRun
<1> DEFINE Fits(f) == f = [i \in 0 .. n |-> IF i = 0 THEN Done(<<>>, d) ELSE Turn(f[i - 1])]
<1>18. Fits(g)
  <2>1. g = [i \in 0 .. n |-> g[i]]
    BY <1>13 DEF IsRun
  <2>2. \A i \in 0 .. n : g[i] = IF i = 0 THEN Done(<<>>, d) ELSE Turn(g[i - 1])
    <3>1. \A i \in 0 .. n : i = 0 \/ (i # 0 /\ i \in 1 .. n)
      OBVIOUS
    <3> QED  BY <1>16, <1>17, <3>1
  <2> QED  BY <2>1, <2>2
<1>19. PICK h : Fits(h) /\ h = CHOOSE f : Fits(f)
  <2> HIDE DEF Fits
  <2> QED  BY <1>18
<1>20. ReadList(ReadColumn, n, d) = h[n]
  <2>1. ReadList(ReadColumn, n, d) = (CHOOSE f : Fits(f))[n]
    BY DEF ReadList, Repeat, Turn
  <2> HIDE DEF Fits
  <2> QED  BY <1>19, <2>1
<1>21. Follows(h, g, n)
  <2>1. h[0] = g[0]
    BY <1>17, <1>19
  <2>2. \A i \in 1 .. n : h[i - 1] = g[i - 1] => h[i] = g[i]
    BY <1>16, <1>19
  <2> QED  BY <2>1, <2>2 DEF Follows
<1>22. h[n] = g[n] /\ g[n] \in Cuts(n)
  <2>1. n \in 0 .. n
    OBVIOUS
  <2> QED  BY <1>15, <1>21, <2>1, Agree
<1>23. g[n] = Thrown
  <2> SUFFICES ASSUME g[n] # Thrown
               PROVE  FALSE
    OBVIOUS
  <2>1. PICK x \in Octets : Joined(left[n], x, e)
    BY <1>22 DEF Cuts, CutAt
  <2>2. left[n] = <<>> /\ Len(<<>>) = 0
    BY <1>4 DEF Unread
  <2>3. Len(x) + Len(e) = 0
    BY <2>1, <2>2 DEF Joined
  <2>4. Len(x) \in Nat /\ Len(e) \in Nat
    BY OctetsLen
  <2> QED  BY <2>3, <2>4
<1> QED  BY <1>20, <1>22, <1>23

\* A row that is cut short anywhere is an error.
LEMMA ShortRowThrown ==
  ASSUME NEW row \in Lists(Columns), NEW k \in 0 .. Len(WriteRow(row)) - 1
  PROVE  ~ReadRow(SubSeq(WriteRow(row), 1, k)).ok
<1>1. PICK n \in Nat : n = Len(row)
  BY ListsAreBounded
<1>2. row \in [1 .. n -> Columns] /\ DOMAIN row = 1 .. n /\ Storable(n, 2, FALSE)
  BY <1>1, ListsAreBounded
<1>3. PICK flat : flat = FlattenSeq([i \in 1 .. n |-> WriteColumn(row[i])])
  OBVIOUS
<1>4. flat \in Octets
  <2>1. [i \in 1 .. n |-> WriteColumn(row[i])] \in [1 .. n -> Octets]
    BY <1>2, ColumnType
  <2> QED  BY <1>3, <2>1, FlatType
<1>5. PICK size : size = Bytes(n, 2)
  OBVIOUS
<1>6. size \in Octets /\ Len(size) = 2
  <2>1. PICK w \in Nat : w = 2
    OBVIOUS
  <2>2. Bytes(n, w) \in Octets /\ Len(Bytes(n, w)) = w
    BY BytesType
  <2> QED  BY <1>5, <2>1, <2>2
<1>7. PICK whole : whole = WriteRow(row)
  OBVIOUS
<1>8. whole = size \o flat
  BY <1>1, <1>2, <1>3, <1>5, <1>7 DEF WriteRow
<1>9. whole \in Octets /\ Joined(whole, size, flat) /\ Len(whole) \in Nat
  BY <1>4, <1>6, <1>8, JoinedParts, OctetsConcat, OctetsLen
<1>10. k \in 0 .. Len(whole) /\ k < Len(whole)
  BY <1>7, <1>9
<1>11. PICK d, e \in Octets : d = SubSeq(whole, 1, k) /\ Len(d) = k /\ Joined(whole, d, e)
  BY <1>9, <1>10, Divided
<1>12. Len(e) # 0
  <2>1. Len(whole) = Len(d) + Len(e)
    BY <1>11 DEF Joined
  <2> QED  BY <1>10, <1>11, <2>1
<1>13. CASE k < 2
  <2>1. ReadNumber(2, FALSE, d) = Thrown /\ ~Thrown.ok
    BY <1>11, <1>13, NotRead
  <2>2. ~ReadRow(d).ok
    BY <2>1 DEF ReadRow
  <2> QED  BY <1>7, <1>11, <2>2
<1>14. CASE ~ (k < 2)
  <2>1. Len(size) <= Len(d)
    BY <1>6, <1>11, <1>14
  <2>2. PICK f \in Octets : Joined(d, size, f) /\ Joined(flat, f, e)
    BY <1>4, <1>6, <1>9, <1>11, <2>1, Overlapping
  <2>3. ReadNumber(2, FALSE, Bytes(n, 2) \o f) = Done(n, f)
    BY <1>2, <2>2, NumberRead
  <2>4. d = Bytes(n, 2) \o f
    BY <1>5, <2>2 DEF Joined
  <2>5. PICK count : count = ReadNumber(2, FALSE, d)
    OBVIOUS
  <2>6. count = Done(n, f)
    BY <2>3, <2>4, <2>5
  <2>7. count.ok /\ count.value = n /\ count.rest = f
    BY <2>6, DoneParts
  <2>8. ReadList(ReadColumn, n, f) = Thrown
    BY <1>2, <1>3, <1>12, <2>2, ShortColumns
  <2>9. ReadRow(d) = ReadList(ReadColumn, n, f)
    BY <2>5, <2>7 DEF ReadRow
  <2>10. ~ReadRow(d).ok
    BY <2>8, <2>9 DEF Thrown
  <2> QED  BY <1>7, <1>11, <2>10
<1> QED  BY <1>13, <1>14

(***************************************************************************)
(* The fields of errors.                                                   *)
(***************************************************************************)
LEMMA Prefixed ==
  ASSUME NEW x \in Int, NEW t \in Octets
  PROVE  /\ <<x>> \in Octets /\ <<x>> \o t \in Octets
         /\ ~ (<<x>> \o t = <<>>) /\ Head(<<x>> \o t) = x /\ Tail(<<x>> \o t) = t
<1>1. <<x>> \in Octets /\ Len(<<x>>) = 1 /\ <<x>>[1] = x
  BY DEF Octets
<1>2. PICK a, b : a = <<x>> /\ b = a \o t
  OBVIOUS
<1>3. a \in Octets /\ Len(a) = 1 /\ a[1] = x
  BY <1>1, <1>2
<1>4. b \in Octets /\ Len(b) = 1 + Len(t) /\ Len(t) \in Nat
  BY <1>2, <1>3, OctetsConcat, OctetsConcatLen, OctetsLen
<1>5. b[1] = x /\ \A i \in 1 .. Len(t) : b[1 + i] = t[i]
  <2>1. 1 \in 1 .. Len(a)
    BY <1>3
  <2>2. \A i \in 1 .. Len(t) : b[Len(a) + i] = t[i]
    BY <1>2, <1>3, OctetsConcatLen
  <2>3. b[1] = a[1]
    BY <1>2, <1>3, <2>1, OctetsConcatLen
  <2> QED  BY <1>3, <2>2, <2>3
<1>6. Head(b) = x /\ ~ (b = <<>>)
  BY <1>4, <1>5 DEF Octets
<1>7. Tail(b) = t
  <2>1. PICK c : c = Tail(b)
    OBVIOUS
  <2>2. c \in Seq(Int) /\ Len(c) = Len(t) /\ \A i \in 1 .. Len(t) : c[i] = b[i + 1]
    BY <1>4, <1>6, <2>1 DEF Octets
  <2>3. \A i \in 1 .. Len(t) : i + 1 = 1 + i
    BY <1>4
  <2>4. \A i \in 1 .. Len(t) : c[i] = t[i]
    BY <1>5, <2>2, <2>3
  <2>5. t \in Seq(Int)
    BY DEF Octets
  <2> QED  BY <2>1, <2>2, <2>4, <2>5, SeqEqual
<1> QED  BY <1>1, <1>2, <1>4, <1>6, <1>7

\* A string is read, or its terminator is missing.
LEMMA StringType ==
  ASSUME NEW data \in Octets
  PROVE  \/ ReadString(data) = Thrown
         \/ \E x, y \in Octets : ReadString(data) = Done(x, y)
<1> DEFINE ends == {i \in DOMAIN data : data[i] = 0}
           end == CHOOSE i \in ends : \A j \in ends : i <= j
<1>1. /\ data \in Seq(Int) /\ Len(data) \in Nat /\ DOMAIN data = 1 .. Len(data)
      /\ \A i \in 1 .. Len(data) : data[i] \in Int
  BY OctetsLen DEF Octets
<1>2. ReadString(data) = IF ends = {} THEN Thrown
                         ELSE Done(SubSeq(data, 1, end - 1), SubSeq(data, end + 1, Len(data)))
  BY DEF ReadString
<1>3. CASE ends = {}
  <2> HIDE DEF ends, end
  <2> QED  BY <1>2, <1>3
<1>4. CASE ends # {}
  <2>1. ends \subseteq Nat
    BY <1>1
  <2>2. \E i \in ends : \A j \in ends : i <= j
    <3> HIDE DEF ends
    <3> QED  BY <1>4, <2>1, Least
  <2>3. end \in ends
    <3> HIDE DEF ends
    <3> QED  BY <2>2
  <2>4. end \in 1 .. Len(data)
    BY <1>1, <2>3
  <2> HIDE DEF end, ends
  <2>5. SubSeq(data, 1, end - 1) \in Octets
    <3>1. \A i \in 1 .. end - 1 : data[i] \in Int
      BY <1>1, <2>4
    <3>2. SubSeq(data, 1, end - 1) \in Seq(Int)
      BY <1>1, <2>4, <3>1, SubSeqProperties
    <3> QED  BY <3>2 DEF Octets
  <2>6. SubSeq(data, end + 1, Len(data)) \in Octets
    <3>1. \A i \in end + 1 .. Len(data) : data[i] \in Int
      BY <1>1, <2>4
    <3>2. SubSeq(data, end + 1, Len(data)) \in Seq(Int)
      BY <1>1, <2>4, <3>1, SubSeqProperties
    <3> QED  BY <3>2 DEF Octets
  <2> QED  BY <1>2, <1>4, <2>5, <2>6
<1> QED  BY <1>3, <1>4

\* What the loop can be at.
Field       == Int \X Octets
FieldStates == {Thrown} \cup [ok : {TRUE}, value : Seq(Field), rest : Octets]

LEMMA FieldState ==
  ASSUME NEW v \in Seq(Field), NEW r \in Octets
  PROVE  Done(v, r) \in FieldStates
BY DEF FieldStates, Done

\* What a turn of the loop over the fields can do.
LEMMA FieldTurn ==
  ASSUME NEW v, NEW r \in Octets
  PROVE  \/ ReadField(Done(v, r)) = Done(v, r)
         \/ ReadField(Done(v, r)) = Thrown
         \/ \E t \in Octets : ReadField(Done(v, r)) = Done(v, t)
         \/ \E f \in Field, t \in Octets : ReadField(Done(v, r)) = Done(Append(v, f), t)
<1>1. PICK s : s = Done(v, r)
  OBVIOUS
<1>2. s.ok /\ s.value = v /\ s.rest = r
  BY <1>1, DoneParts
<1>3. PICK type, string : type = Head(r) /\ string = ReadString(Tail(r))
  OBVIOUS
<1>4. ReadField(s) = IF r = <<>> \/ type = 0 THEN s
                     ELSE IF type \notin Fields THEN Done(v, Tail(r))
                     ELSE IF ~string.ok THEN Thrown
                     ELSE Done(Append(v, <<type, string.value>>), string.rest)
  BY <1>2, <1>3 DEF ReadField
<1>5. CASE r = <<>> \/ type = 0
  BY <1>1, <1>4, <1>5
<1>6. CASE ~ (r = <<>> \/ type = 0)
  <2>1. Tail(r) \in Octets /\ type \in Int
    BY <1>3, <1>6 DEF Octets
  <2>2. CASE type \notin Fields
    BY <1>1, <1>4, <1>6, <2>1, <2>2
  <2>3. CASE type \in Fields
    <3>1. CASE string = Thrown
      <4>1. ~string.ok
        BY <3>1 DEF Thrown
      <4> QED  BY <1>1, <1>4, <1>6, <2>3, <4>1
    <3>2. CASE string # Thrown
      <4>1. PICK x, y \in Octets : string = Done(x, y)
        BY <1>3, <2>1, <3>2, StringType
      <4>2. string.ok /\ string.value = x /\ string.rest = y
        BY <4>1, DoneParts
      <4>3. PICK f : f = <<type, x>>
        OBVIOUS
      <4>4. f \in Field
        BY <2>1, <4>1, <4>3 DEF Field
      <4>5. ReadField(s) = Done(Append(v, f), y)
        BY <1>4, <1>6, <2>3, <4>2, <4>3
      <4> QED  BY <1>1, <4>1, <4>4, <4>5
    <3> QED  BY <3>1, <3>2
  <2> QED  BY <2>2, <2>3
<1> QED  BY <1>5, <1>6

\* Nothing is read behind an error.
LEMMA ThrownStays ==
  ReadField(Thrown) = Thrown /\ ~Thrown.ok
BY DEF ReadField, Thrown

LEMMA FieldStateTurn ==
  ASSUME NEW s \in FieldStates
  PROVE  ReadField(s) \in FieldStates
<1>1. CASE s = Thrown
  BY <1>1, ThrownStays DEF FieldStates
<1>2. CASE s # Thrown
  <2>1. PICK v \in Seq(Field), r \in Octets : s = Done(v, r)
    <3>1. s \in [ok : {TRUE}, value : Seq(Field), rest : Octets]
      BY <1>2 DEF FieldStates
    <3>2. s = Done(s.value, s.rest)
      BY <3>1 DEF Done
    <3> QED  BY <3>1, <3>2
  <2>2. \A f \in Field : Append(v, f) \in Seq(Field)
    OBVIOUS
  <2>3. PICK t : t = ReadField(s)
    OBVIOUS
  <2>4. \/ t = s
        \/ t = Thrown
        \/ \E y \in Octets : t = Done(v, y)
        \/ \E f \in Field, y \in Octets : t = Done(Append(v, f), y)
    BY <2>1, <2>3, FieldTurn
  <2>5. ASSUME NEW y \in Octets
        PROVE  Done(v, y) \in FieldStates
    BY <2>1, FieldState
  <2>6. ASSUME NEW f \in Field, NEW y \in Octets
        PROVE  Done(Append(v, f), y) \in FieldStates
    BY <2>2, FieldState
  <2>7. Thrown \in FieldStates
    BY DEF FieldStates
  <2>8. t \in FieldStates
    BY <2>4, <2>5, <2>6, <2>7
  <2> QED  BY <2>3, <2>8
<1> QED  BY <1>1, <1>2

IsFieldRun(h, n, data) ==
  /\ h[0] = Done(<<>>, data)
  /\ \A i \in 0 .. n : h[i] \in FieldStates
  /\ \A i \in 1 .. n : h[i] = ReadField(h[i - 1])

\* The loop over the fields of an error, from turn to turn.
LEMMA FieldRuns ==
  ASSUME NEW data \in Octets
  PROVE  \E h : IsFieldRun(h, Len(data), data) /\ ReadFields(data) = h[Len(data)]
<1>1. PICK n \in Nat : n = Len(data)
  BY OctetsLen
<1> DEFINE first == Done(<<>>, data)
           step == [i \in 1 .. n |-> [s \in FieldStates |-> ReadField(s)]]
           Fits(f) == f = [i \in 0 .. n |-> IF i = 0 THEN first ELSE ReadField(f[i - 1])]
<1>2. first \in FieldStates
  <2>1. <<>> \in Seq(Field)
    OBVIOUS
  <2> QED  BY <2>1, FieldState
<1> HIDE DEF first
<1>3. step \in [1 .. n -> [FieldStates -> FieldStates]]
  BY FieldStateTurn
<1>4. \A i \in 1 .. n : \A s \in FieldStates : step[i][s] = ReadField(s)
  OBVIOUS
<1> HIDE DEF step
<1>5. PICK g : IsRun(g, n, FieldStates, first, step)
  BY <1>2, <1>3, Runs
<1>6. g[0] = first /\ (\A i \in 0 .. n : g[i] \in FieldStates) /\ g = [i \in 0 .. n |-> g[i]]
  BY <1>5 DEF IsRun
<1>7. \A i \in 1 .. n : g[i] = ReadField(g[i - 1])
  <2>1. \A i \in 1 .. n : i - 1 \in 0 .. n
    OBVIOUS
  <2> QED  BY <1>4, <1>5, <1>6, <2>1 DEF IsRun
<1>8. Fits(g)
  <2>1. \A i \in 0 .. n : g[i] = IF i = 0 THEN first ELSE ReadField(g[i - 1])
    <3>1. \A i \in 0 .. n : i = 0 \/ (i # 0 /\ i \in 1 .. n)
      OBVIOUS
    <3> QED  BY <1>6, <1>7, <3>1
  <2> QED  BY <1>6, <2>1
<1>9. PICK h : Fits(h) /\ h = CHOOSE f : Fits(f)
  <2> HIDE DEF Fits
  <2> QED  BY <1>8
<1>10. ReadFields(data) = h[n]
  <2>1. ReadFields(data) = (CHOOSE f : Fits(f))[n]
    BY <1>1 DEF ReadFields, Repeat, first
  <2> HIDE DEF Fits
  <2> QED  BY <1>9, <2>1
<1>11. Follows(h, g, n)
  <2>1. h[0] = g[0]
    BY <1>6, <1>9
  <2>2. \A i \in 1 .. n : h[i - 1] = g[i - 1] => h[i] = g[i]
    BY <1>7, <1>9
  <2> QED  BY <2>1, <2>2 DEF Follows
<1>12. ReadFields(data) = g[n]
  BY <1>10, <1>11, Agree
<1>13. IsFieldRun(g, n, data)
  BY <1>6, <1>7 DEF IsFieldRun, first
<1> QED  BY <1>1, <1>12, <1>13

\* There are as many turns as bytes: enough for every field.
LEMMA LongEnough ==
  ASSUME NEW n \in Nat, NEW parts \in [1 .. n -> Octets], NEW tail \in Octets,
         NEW left, Unread(left, parts, n, tail), \A i \in 1 .. n : Len(parts[i]) >= 1
  PROVE  Len(left[0]) >= n + Len(tail)
<1>1. \A i \in 0 .. n : left[i] \in Octets /\ Len(left[i]) \in Nat
  BY OctetsLen DEF Unread
<1> DEFINE T == {i \in 0 .. n : Len(left[0]) >= i + Len(left[i])}
<1>2. 0 \in T
  <2>1. 0 \in 0 .. n
    OBVIOUS
  <2> QED  BY <1>1, <2>1
<1>3. ASSUME NEW i \in 1 .. n, i - 1 \in T
      PROVE  i \in T
  <2>1. i \in 0 .. n /\ i - 1 \in 0 .. n /\ 0 \in 0 .. n /\ parts[i] \in Octets
    OBVIOUS
  <2>2. left[i] \in Octets /\ Len(parts[i]) \in Nat
    BY <1>1, <2>1, OctetsLen
  <2>3. Len(parts[i] \o left[i]) = Len(parts[i]) + Len(left[i])
    BY <2>1, <2>2, OctetsConcatLen
  <2>4. left[i - 1] = parts[i] \o left[i]
    BY DEF Unread
  <2>5. Len(left[i - 1]) = Len(parts[i]) + Len(left[i])
    BY <2>3, <2>4
  <2>6. Len(left[i - 1]) >= 1 + Len(left[i])
    BY <1>1, <2>1, <2>2, <2>5
  <2>7. Len(left[0]) >= (i - 1) + Len(left[i - 1])
    BY <1>3
  <2>8. Len(left[0]) >= i + Len(left[i])
    BY <1>1, <2>1, <2>6, <2>7
  <2> QED  BY <2>1, <2>8
<1> HIDE DEF T
<1>4. n \in T
  <2>1. \A i \in 0 .. n : i \in T
    BY <1>2, <1>3, Induct
  <2>2. n \in 0 .. n
    OBVIOUS
  <2> QED  BY <2>1, <2>2
<1>5. left[n] = tail
  BY DEF Unread
<1> QED  BY <1>4, <1>5 DEF T

WriteField(f) == <<f[1]>> \o Terminated(f[2])

LEMMA FieldType ==
  ASSUME NEW f \in Sent \X Strings
  PROVE  /\ WriteField(f) \in Octets /\ Len(WriteField(f)) >= 1 /\ f \in Field
         /\ f[1] \in Int /\ f[1] # 0 /\ IsText(f[2]) /\ f = <<f[1], f[2]>>
<1>1. PICK x, s : x = f[1] /\ s = f[2] /\ f = <<x, s>> /\ x \in Sent /\ s \in Strings
  OBVIOUS
<1>2. x \in Int /\ x # 0
  BY <1>1, Bounds
<1>3. IsText(s)
  BY <1>1, StringsAreText
<1>4. s \in Octets /\ Terminated(s) \in Octets
  BY <1>3, TerminatedType DEF IsText
<1>5. <<x>> \in Octets /\ Len(<<x>>) = 1
  BY <1>2 DEF Octets
<1>6. PICK a, t : a = <<x>> /\ t = Terminated(s)
  OBVIOUS
<1>7. a \o t \in Octets /\ Len(a \o t) = 1 + Len(t) /\ Len(t) \in Nat
  BY <1>4, <1>5, <1>6, OctetsConcat, OctetsConcatLen, OctetsLen
<1>8. WriteField(f) = a \o t
  BY <1>1, <1>6 DEF WriteField
<1>9. WriteField(f) \in Octets /\ Len(WriteField(f)) >= 1
  BY <1>7, <1>8
<1>10. f \in Field
  BY <1>1, <1>2, <1>4 DEF Field
<1> QED  BY <1>1, <1>2, <1>3, <1>9, <1>10

\* A field of a known type is read as it was written.
LEMMA FieldRead ==
  ASSUME NEW f \in Sent \X Strings, f[1] \in Fields, NEW rest \in Octets, NEW v,
         NEW data, data = WriteField(f) \o rest
  PROVE  ReadField(Done(v, data)) = Done(Append(v, f), rest)
<1>1. PICK x, string : x = f[1] /\ string = f[2]
  OBVIOUS
<1>2. x \in Int /\ x # 0 /\ x \in Fields /\ IsText(string) /\ f = <<x, string>>
  BY <1>1, FieldType
<1>3. PICK a, t : a = <<x>> /\ t = Terminated(string)
  OBVIOUS
<1>4. a \in Octets /\ t \in Octets
  BY <1>2, <1>3, Prefixed, TerminatedType, OctetsConcatEmpty
<1>5. WriteField(f) = a \o t
  BY <1>1, <1>3 DEF WriteField
<1>6. (a \o t) \o rest = a \o (t \o rest)
  BY <1>4, OctetsRegroup
<1>7. PICK more : more = t \o rest
  OBVIOUS
<1>8. more \in Octets
  BY <1>4, <1>7, OctetsConcat
<1>9. data = <<x>> \o more
  BY <1>3, <1>5, <1>6, <1>7
<1>10. ~ (<<x>> \o more = <<>>) /\ Head(<<x>> \o more) = x /\ Tail(<<x>> \o more) = more
  BY <1>2, <1>8, Prefixed
<1>11. ~ (data = <<>>) /\ Head(data) = x /\ Tail(data) = more
  BY <1>9, <1>10
<1>12. ReadString(Terminated(string) \o rest) = Done(string, rest)
  BY <1>2, StringRead
<1>13. PICK r : r = ReadString(more)
  OBVIOUS
<1>14. r = Done(string, rest)
  BY <1>3, <1>7, <1>12, <1>13
<1>15. r.ok /\ r.value = string /\ r.rest = rest
  BY <1>14, DoneParts
<1>16. PICK s : s = Done(v, data)
  OBVIOUS
<1>17. s.ok /\ s.value = v /\ s.rest = data
  BY <1>16, DoneParts
<1>18. ReadField(s) = Done(Append(v, <<x, string>>), rest)
  BY <1>2, <1>11, <1>13, <1>15, <1>17 DEF ReadField
<1> QED  BY <1>2, <1>16, <1>18

KnownUpTo(fields, m)      == \A i \in 1 .. m : fields[i][1] \in Fields
Written(parts, fields, n) == \A i \in 1 .. n : parts[i] = WriteField(fields[i])

\* As long as the types are known, field after field is read.
LEMMA FieldsInTurn ==
  ASSUME NEW n \in Nat, NEW fields \in [1 .. n -> Sent \X Strings],
         NEW parts, Written(parts, fields, n), NEW tail \in Octets,
         NEW left, Unread(left, parts, n, tail), NEW front, Fronts(front, fields, n),
         NEW m \in 0 .. n, KnownUpTo(fields, m),
         NEW N \in Nat, m <= N, NEW h, IsFieldRun(h, N, left[0])
  PROVE  h[m] = Done(front[m], left[m])
<1> DEFINE T == {i \in 0 .. m : h[i] = Done(front[i], left[i])}
<1>1. 0 \in T
  <2>1. h[0] = Done(<<>>, left[0]) /\ front[0] = <<>> /\ 0 \in 0 .. m
    BY DEF IsFieldRun, Fronts
  <2> QED  BY <2>1
<1>2. ASSUME NEW i \in 1 .. m, i - 1 \in T
      PROVE  i \in T
  <2>1. i \in 0 .. m /\ i \in 1 .. n /\ i \in 1 .. N /\ i \in 0 .. n
    OBVIOUS
  <2>2. h[i] = ReadField(h[i - 1])
    BY <2>1 DEF IsFieldRun
  <2>3. left[i - 1] = parts[i] \o left[i] /\ left[i] \in Octets
    BY <2>1 DEF Unread
  <2>4. parts[i] = WriteField(fields[i])
    BY <2>1 DEF Written
  <2>5. PICK f, v, data, rest : f = fields[i] /\ v = front[i - 1] /\ data = left[i - 1] /\ rest = left[i]
    OBVIOUS
  <2>6. f \in Sent \X Strings /\ f[1] \in Fields /\ rest \in Octets /\ data = WriteField(f) \o rest
    BY <2>1, <2>3, <2>4, <2>5 DEF KnownUpTo
  <2>7. ReadField(Done(v, data)) = Done(Append(v, f), rest)
    BY <2>6, FieldRead
  <2>8. h[i - 1] = Done(v, data)
    BY <1>2, <2>5
  <2>9. Append(v, f) = front[i]
    BY <2>1, <2>5 DEF Fronts
  <2>10. h[i] = Done(front[i], left[i])
    BY <2>2, <2>5, <2>7, <2>8, <2>9
  <2> QED  BY <2>1, <2>10
<1> HIDE DEF T
<1>4. m \in Nat
  OBVIOUS
<1>3. m \in T
  <2>1. \A i \in 0 .. m : i \in T
    BY <1>1, <1>2, <1>4, Induct
  <2>2. m \in 0 .. m
    OBVIOUS
  <2> QED  BY <2>1, <2>2
<1> QED  BY <1>3 DEF T

\* What has been read stays read.
Keeps(s, m, v) == s.ok => Len(s.value) >= m /\ SubSeq(s.value, 1, m) = v

LEMMA AppendedFront ==
  ASSUME NEW S, NEW a \in Seq(S), NEW x \in S, NEW m \in Nat, m <= Len(a)
  PROVE  Len(Append(a, x)) >= m /\ SubSeq(Append(a, x), 1, m) = SubSeq(a, 1, m)
<1>1. PICK b : b = Append(a, x)
  OBVIOUS
<1>2. /\ b \in Seq(S) /\ Len(b) = Len(a) + 1 /\ Len(a) \in Nat
      /\ \A i \in 1 .. Len(a) : b[i] = a[i] /\ a[i] \in S
  BY <1>1
<1>3. PICK p, q : p = SubSeq(b, 1, m) /\ q = SubSeq(a, 1, m)
  OBVIOUS
<1>4. /\ p \in Seq(S) /\ Len(p) = m
      /\ \A i \in 1 .. m : p[i] = b[i]
  BY <1>2, <1>3
<1>5. /\ q \in Seq(S) /\ Len(q) = m
      /\ \A i \in 1 .. m : q[i] = a[i]
  BY <1>2, <1>3
<1>6. \A i \in 1 .. m : p[i] = q[i]
  BY <1>2, <1>4, <1>5
<1>7. p = q
  BY <1>4, <1>5, <1>6, SeqEqual
<1> QED  BY <1>1, <1>2, <1>3, <1>7

\* What was read of an error before a turn is still there at the end.
LEMMA FieldsKept ==
  ASSUME NEW N \in Nat, NEW h, NEW data, IsFieldRun(h, N, data), NEW m \in 0 .. N,
         NEW k \in Nat, NEW v, Keeps(h[m], k, v)
  PROVE  Keeps(h[N], k, v)
<1>1. PICK l \in Nat : l = N - m
  OBVIOUS
<1> DEFINE T == {i \in 0 .. l : Keeps(h[m + i], k, v)}
<1>2. 0 \in T
  <2>1. 0 \in 0 .. l /\ m + 0 = m
    BY <1>1
  <2> QED  BY <2>1
<1>3. ASSUME NEW i \in 1 .. l, i - 1 \in T
      PROVE  i \in T
  <2>1. PICK j \in 1 .. N : j = m + i
    BY <1>1
  <2>2. j - 1 = m + (i - 1) /\ j - 1 \in 0 .. N /\ i \in 0 .. l
    BY <2>1
  <2>3. PICK s : s = h[j - 1]
    OBVIOUS
  <2>4. Keeps(s, k, v) /\ s \in FieldStates /\ h[j] = ReadField(s)
    BY <1>3, <2>1, <2>2, <2>3 DEF IsFieldRun
  <2>5. Keeps(ReadField(s), k, v)
    <3>1. CASE s = Thrown
      BY <3>1, ThrownStays DEF Keeps
    <3>2. CASE s # Thrown
      <4>1. PICK w \in Seq(Field), r \in Octets : s = Done(w, r)
        <5>1. s \in [ok : {TRUE}, value : Seq(Field), rest : Octets]
          BY <2>4, <3>2 DEF FieldStates
        <5>2. s = Done(s.value, s.rest)
          BY <5>1 DEF Done
        <5> QED  BY <5>1, <5>2
      <4>2. s.ok /\ s.value = w
        BY <4>1, DoneParts
      <4>3. Len(w) >= k /\ SubSeq(w, 1, k) = v
        BY <2>4, <4>2 DEF Keeps
      <4>4. PICK t : t = ReadField(s)
        OBVIOUS
      <4>5. \/ t = s
            \/ t = Thrown
            \/ \E y \in Octets : t = Done(w, y)
            \/ \E f \in Field, y \in Octets : t = Done(Append(w, f), y)
        BY <4>1, <4>4, FieldTurn
      <4>6. CASE t = s
        BY <2>4, <4>4, <4>6
      <4>7. CASE t = Thrown
        BY <4>4, <4>7, ThrownStays DEF Keeps
      <4>8. CASE \E y \in Octets : t = Done(w, y)
        <5>1. PICK y \in Octets : t = Done(w, y)
          BY <4>8
        <5>2. t.value = w
          BY <5>1, DoneParts
        <5> QED  BY <4>3, <4>4, <5>2 DEF Keeps
      <4>9. CASE \E f \in Field, y \in Octets : t = Done(Append(w, f), y)
        <5>1. PICK f \in Field, y \in Octets : t = Done(Append(w, f), y)
          BY <4>9
        <5>2. PICK a : a = Append(w, f)
          OBVIOUS
        <5>3. t = Done(a, y)
          BY <5>1, <5>2
        <5>4. t.value = a
          BY <5>3, DoneParts
        <5>5. k <= Len(w)
          BY <4>3
        <5>6. Len(a) >= k /\ SubSeq(a, 1, k) = SubSeq(w, 1, k)
          BY <5>2, <5>5, AppendedFront
        <5> QED  BY <4>3, <4>4, <5>4, <5>6 DEF Keeps
      <4> QED  BY <4>5, <4>6, <4>7, <4>8, <4>9
    <3> QED  BY <3>1, <3>2
  <2>6. Keeps(h[m + i], k, v)
    BY <2>1, <2>4, <2>5
  <2> QED  BY <2>2, <2>6
<1> HIDE DEF T
<1>4. l \in T
  <2>1. \A i \in 0 .. l : i \in T
    BY <1>2, <1>3, Induct
  <2>2. l \in 0 .. l
    OBVIOUS
  <2> QED  BY <2>1, <2>2
<1>5. m + l = N
  BY <1>1
<1>6. Keeps(h[m + l], k, v)
  BY <1>4 DEF T
<1> QED  BY <1>5, <1>6

\* The end of the message is not passed.
LEMMA FieldsEnd ==
  ASSUME NEW N \in Nat, NEW h, NEW data, IsFieldRun(h, N, data), NEW m \in 0 .. N,
         NEW v, h[m] = Done(v, << 0 >>)
  PROVE  h[N] = Done(v, << 0 >>)
<1>1. PICK l \in Nat : l = N - m
  OBVIOUS
<1>2. PICK s : s = Done(v, << 0 >>)
  OBVIOUS
<1>3. ReadField(s) = s
  <2>1. s.ok /\ s.value = v /\ s.rest = << 0 >>
    BY <1>2, DoneParts
  <2>2. Head(<< 0 >>) = 0
    OBVIOUS
  <2> QED  BY <2>1, <2>2 DEF ReadField
<1> DEFINE T == {i \in 0 .. l : h[m + i] = s}
<1>4. 0 \in T
  <2>1. 0 \in 0 .. l /\ m + 0 = m
    BY <1>1
  <2> QED  BY <1>2, <2>1
<1>5. ASSUME NEW i \in 1 .. l, i - 1 \in T
      PROVE  i \in T
  <2>1. PICK j \in 1 .. N : j = m + i
    BY <1>1
  <2>2. j - 1 = m + (i - 1) /\ i \in 0 .. l
    BY <2>1
  <2>3. h[j - 1] = s
    BY <1>5, <2>2
  <2>4. h[j] = s
    BY <1>3, <2>3 DEF IsFieldRun
  <2> QED  BY <2>1, <2>2, <2>4
<1> HIDE DEF T
<1>6. l \in T
  <2>1. \A i \in 0 .. l : i \in T
    BY <1>4, <1>5, Induct
  <2>2. l \in 0 .. l
    OBVIOUS
  <2> QED  BY <2>1, <2>2
<1>7. m + l = N
  BY <1>1
<1>8. h[m + l] = s
  BY <1>6 DEF T
<1> QED  BY <1>2, <1>7, <1>8

\* KnownPrefix is where the first unknown field is, or 0.
LEMMA PrefixOfKnown ==
  ASSUME NEW n \in Nat, NEW fields, Len(fields) = n
  PROVE  /\ KnownPrefix(fields) = 0 => \A i \in 1 .. n : fields[i][1] \in Fields
         /\ KnownPrefix(fields) # 0 =>
              KnownPrefix(fields) \in 1 .. n
                /\ \A i \in 1 .. KnownPrefix(fields) - 1 : fields[i][1] \in Fields
<1> DEFINE I == {i \in 1 .. Len(fields) : fields[i][1] \notin Fields}
<1>1. KnownPrefix(fields) = IF I # {} THEN Min(I) ELSE 0
  BY DEF KnownPrefix, SelectInSeq
<1>2. CASE I = {}
  <2>1. \A i \in 1 .. n : fields[i][1] \in Fields
    BY <1>2
  <2>2. KnownPrefix(fields) = 0
    BY <1>1, <1>2
  <2> QED  BY <2>1, <2>2
<1>3. CASE I # {}
  <2>1. I \subseteq Nat
    OBVIOUS
  <2>2. \E m \in I : \A i \in I : m <= i
    <3> HIDE DEF I
    <3> QED  BY <1>3, <2>1, Least
  <2>3. Min(I) \in I /\ \A i \in I : Min(I) <= i
    <3> HIDE DEF I
    <3> QED  BY <2>2 DEF Min
  <2>4. PICK k : k = KnownPrefix(fields)
    OBVIOUS
  <2>5. k \in I /\ \A i \in I : k <= i
    <3> HIDE DEF I
    <3> QED  BY <1>1, <1>3, <2>3, <2>4
  <2>6. k \in 1 .. n
    BY <2>5
  <2>7. \A i \in 1 .. k - 1 : i \in 1 .. n /\ ~ (k <= i)
    BY <2>6
  <2>8. \A i \in 1 .. k - 1 : fields[i][1] \in Fields
    BY <2>5, <2>7
  <2>9. k # 0
    BY <2>6
  <2> QED  BY <2>4, <2>6, <2>8, <2>9
<1> QED  BY <1>2, <1>3

ErrorIsRead(fields, read) ==
  IF KnownPrefix(fields) = 0
  THEN read.ok /\ read.value = fields /\ read.rest = << 0 >>
  ELSE read.ok => SubSeq(read.value, 1, KnownPrefix(fields) - 1)
                    = SubSeq(fields, 1, KnownPrefix(fields) - 1)

\* Of an error, all the fields before the first unknown one are read.
LEMMA ErrorRead ==
  ASSUME NEW fields \in Lists(Sent \X Strings)
  PROVE  ErrorIsRead(fields, ReadFields(WriteError(fields)))
<1>1. PICK n \in Nat : n = Len(fields)
  BY ListsAreBounded
<1>2. fields \in [1 .. n -> Sent \X Strings] /\ DOMAIN fields = 1 .. n
  BY <1>1, ListsAreBounded
<1>3. PICK parts : parts = [i \in 1 .. n |-> WriteField(fields[i])]
  OBVIOUS
<1>4. parts \in [1 .. n -> Octets] /\ \A i \in 1 .. n : Len(parts[i]) >= 1
  <2>1. \A i \in 1 .. n : fields[i] \in Sent \X Strings
    BY <1>2
  <2>2. \A i \in 1 .. n : WriteField(fields[i]) \in Octets /\ Len(WriteField(fields[i])) >= 1
    BY <2>1, FieldType
  <2> QED  BY <1>3, <2>2
<1>5. PICK tail : tail = << 0 >>
  OBVIOUS
<1>6. tail \in Octets /\ Len(tail) = 1
  BY <1>5 DEF Octets
<1>7. PICK left : Unread(left, parts, n, tail)
  BY <1>4, <1>6, UnreadItems
<1>8. PICK data : data = WriteError(fields)
  OBVIOUS
<1>9. left[0] = data /\ left[n] = tail
  <2>1. parts = [i \in DOMAIN fields |-> <<fields[i][1]>> \o Terminated(fields[i][2])]
    BY <1>2, <1>3 DEF WriteField
  <2>2. data = FlattenSeq(parts) \o tail
    BY <1>5, <1>8, <2>1 DEF WriteError
  <2> QED  BY <1>7, <2>2 DEF Unread
<1>10. data \in Octets
  <2>1. 0 \in 0 .. n
    OBVIOUS
  <2> QED  BY <1>7, <1>9, <2>1 DEF Unread
<1>11. PICK N \in Nat : N = Len(data)
  BY <1>10, OctetsLen
<1>12. n <= N
  <2>1. Len(left[0]) >= n + Len(tail)
    BY <1>4, <1>6, <1>7, LongEnough
  <2> QED  BY <1>6, <1>9, <1>11, <2>1
<1>13. PICK h : IsFieldRun(h, N, data) /\ ReadFields(data) = h[N]
  BY <1>10, <1>11, FieldRuns
<1>14. PICK front : Fronts(front, fields, n)
  BY <1>2, ItemByItem
<1>15. ASSUME NEW m \in 0 .. n, KnownUpTo(fields, m)
       PROVE  h[m] = Done(front[m], left[m])
  <2>1. m <= N
    BY <1>12
  <2>2. Written(parts, fields, n)
    BY <1>3 DEF Written
  <2>3. IsFieldRun(h, N, left[0])
    BY <1>9, <1>13
  <2> QED  BY <1>2, <1>4, <1>6, <1>7, <1>14, <1>15, <2>1, <2>2, <2>3, FieldsInTurn
<1>16. PICK read : read = ReadFields(data)
  OBVIOUS
<1>17. CASE KnownPrefix(fields) = 0
  <2>1. KnownUpTo(fields, n)
    BY <1>1, <1>17, PrefixOfKnown DEF KnownUpTo
  <2>2. n \in 0 .. n /\ n \in 0 .. N
    BY <1>12
  <2>3. h[n] = Done(front[n], left[n])
    BY <1>15, <2>1, <2>2
  <2>4. front[n] = fields
    BY <1>14 DEF Fronts
  <2>5. h[n] = Done(fields, << 0 >>)
    BY <1>5, <1>9, <2>3, <2>4
  <2>6. h[N] = Done(fields, << 0 >>)
    BY <1>13, <2>2, <2>5, FieldsEnd
  <2>7. read = Done(fields, << 0 >>)
    BY <1>13, <1>16, <2>6
  <2>8. read.ok /\ read.value = fields /\ read.rest = << 0 >>
    BY <2>7, DoneParts
  <2>9. ErrorIsRead(fields, read)
    BY <1>17, <2>8 DEF ErrorIsRead
  <2> QED  BY <1>8, <1>16, <2>9
<1>18. CASE KnownPrefix(fields) # 0
  <2>1. PICK k : k = KnownPrefix(fields)
    OBVIOUS
  <2>2. k \in 1 .. n /\ \A i \in 1 .. k - 1 : fields[i][1] \in Fields
    BY <1>1, <1>18, <2>1, PrefixOfKnown
  <2>3. PICK m \in Nat : m = k - 1
    BY <2>2
  <2>4. m \in 0 .. n /\ m \in 0 .. N
    BY <1>12, <2>2, <2>3
  <2>14. KnownUpTo(fields, m)
    BY <2>2, <2>3 DEF KnownUpTo
  <2>5. h[m] = Done(front[m], left[m])
    BY <1>15, <2>4, <2>14
  <2>6. PICK v, rest : v = front[m] /\ rest = left[m]
    OBVIOUS
  <2>7. v = SubSeq(fields, 1, m)
    BY <1>14, <2>4, <2>6 DEF Fronts
  <2>8. Len(v) = m /\ SubSeq(v, 1, m) = v
    <3>1. fields \in Seq(Sent \X Strings) /\ Len(fields) = n
      BY <1>2
    <3>2. v \in Seq(Sent \X Strings) /\ Len(v) = m
      BY <2>4, <2>7, <3>1
    <3>3. PICK w : w = SubSeq(v, 1, m)
      OBVIOUS
    <3>4. w \in Seq(Sent \X Strings) /\ Len(w) = m /\ \A i \in 1 .. m : w[i] = v[i]
      BY <3>2, <3>3
    <3>5. w = v
      BY <3>2, <3>4, SeqEqual
    <3> QED  BY <3>2, <3>3, <3>5
  <2>9. h[m].value = v
    <3>1. h[m] = Done(v, rest)
      BY <2>5, <2>6
    <3> QED  BY <3>1, DoneParts
  <2>10. Keeps(h[m], m, v)
    BY <2>3, <2>8, <2>9 DEF Keeps
  <2>11. Keeps(h[N], m, v)
    BY <1>13, <2>3, <2>4, <2>10, FieldsKept
  <2>12. read.ok => SubSeq(read.value, 1, m) = SubSeq(fields, 1, m)
    BY <1>13, <1>16, <2>7, <2>11 DEF Keeps
  <2>13. ErrorIsRead(fields, read)
    BY <1>18, <2>1, <2>3, <2>12 DEF ErrorIsRead
  <2> QED  BY <1>8, <1>16, <2>13
<1> QED  BY <1>17, <1>18

(***************************************************************************)
(* Messages: the size is written into the bytes that were reserved.        *)
(***************************************************************************)
Thirds(s, a, b, c, la, lb, lc) ==
  /\ s \in Seq(Int) /\ Len(s) = la + lb + lc
  /\ \A i \in 1 .. la : s[i] = a[i]
  /\ \A i \in 1 .. lb : s[la + i] = b[i]
  /\ \A i \in 1 .. lc : s[la + lb + i] = c[i]

LEMMA ThreeParts ==
  ASSUME NEW a \in Octets, NEW b \in Octets, NEW c \in Octets
  PROVE  Thirds((a \o b) \o c, a, b, c, Len(a), Len(b), Len(c))
<1>1. Len(a) \in Nat /\ Len(b) \in Nat /\ Len(c) \in Nat
  BY OctetsLen
<1>2. PICK p : p = a \o b
  OBVIOUS
<1>3. /\ a \o b \in Octets /\ Len(a \o b) = Len(a) + Len(b)
      /\ \A i \in 1 .. Len(a) : (a \o b)[i] = a[i]
      /\ \A i \in 1 .. Len(b) : (a \o b)[Len(a) + i] = b[i]
  BY OctetsConcat, OctetsConcatLen
<1>4. /\ p \in Octets /\ Len(p) = Len(a) + Len(b)
      /\ \A i \in 1 .. Len(a) : p[i] = a[i]
      /\ \A i \in 1 .. Len(b) : p[Len(a) + i] = b[i]
  BY <1>2, <1>3
<1>5. PICK s : s = p \o c
  OBVIOUS
<1>6. /\ p \o c \in Octets /\ Len(p \o c) = Len(p) + Len(c)
      /\ \A i \in 1 .. Len(p) : (p \o c)[i] = p[i]
      /\ \A i \in 1 .. Len(c) : (p \o c)[Len(p) + i] = c[i]
  BY <1>4, OctetsConcat, OctetsConcatLen
<1>7. /\ s \in Octets /\ Len(s) = Len(p) + Len(c)
      /\ \A i \in 1 .. Len(p) : s[i] = p[i]
      /\ \A i \in 1 .. Len(c) : s[Len(p) + i] = c[i]
  BY <1>5, <1>6
<1>8. s \in Seq(Int) /\ Len(s) = Len(a) + Len(b) + Len(c)
  BY <1>1, <1>4, <1>7 DEF Octets
<1>9. \A i \in 1 .. Len(a) : s[i] = a[i]
  <2>1. \A i \in 1 .. Len(a) : i \in 1 .. Len(p)
    BY <1>1, <1>4
  <2> QED  BY <1>4, <1>7, <2>1
<1>10. \A i \in 1 .. Len(b) : s[Len(a) + i] = b[i]
  <2>1. \A i \in 1 .. Len(b) : Len(a) + i \in 1 .. Len(p)
    BY <1>1, <1>4
  <2> QED  BY <1>4, <1>7, <2>1
<1>11. \A i \in 1 .. Len(c) : s[Len(a) + Len(b) + i] = c[i]
  BY <1>4, <1>7
<1>12. Thirds(s, a, b, c, Len(a), Len(b), Len(c))
  BY <1>8, <1>9, <1>10, <1>11 DEF Thirds
<1> QED  BY <1>2, <1>5, <1>12

\* Writing into the reserved bytes leaves the bytes around them.
LEMMA Reserved ==
  ASSUME NEW o \in Nat, NEW w \in Nat, NEW n \in Nat, NEW a, NEW z, NEW b, NEW c,
         NEW s, Thirds(s, a, z, c, o, w, n), NEW t, Thirds(t, a, b, c, o, w, n)
  PROVE  [i \in DOMAIN s |-> IF i - o \in 1 .. w THEN b[i - o] ELSE s[i]] = t
<1>3. o \in Nat /\ w \in Nat
  OBVIOUS
<1>5. /\ s \in Seq(Int) /\ Len(s) = o + w + n
      /\ \A i \in 1 .. o : s[i] = a[i]
      /\ \A i \in 1 .. n : s[o + w + i] = c[i]
  BY DEF Thirds
<1>6. /\ t \in Seq(Int) /\ Len(t) = o + w + n
      /\ \A i \in 1 .. o : t[i] = a[i]
      /\ \A i \in 1 .. w : t[o + i] = b[i]
      /\ \A i \in 1 .. n : t[o + w + i] = c[i]
  BY DEF Thirds
<1>7. DOMAIN s = 1 .. o + w + n
  BY <1>3, <1>5
<1>8. PICK m : m = [i \in 1 .. o + w + n |-> IF i - o \in 1 .. w THEN b[i - o] ELSE s[i]]
  OBVIOUS
<1>9. \A i \in 1 .. o : m[i] = t[i]
  <2>1. \A i \in 1 .. o : i \in 1 .. o + w + n /\ ~ (i - o \in 1 .. w)
    BY <1>3
  <2> QED  BY <1>5, <1>6, <1>8, <2>1
<1>10. ASSUME NEW i \in 1 .. w
       PROVE  m[o + i] = t[o + i]
  <2>1. PICK k : k = o + i
    OBVIOUS
  <2>2. k \in 1 .. o + w + n /\ k - o = i /\ k - o \in 1 .. w
    BY <1>3, <2>1
  <2>3. m[k] = b[i]
    BY <1>8, <2>2
  <2> QED  BY <1>6, <2>1, <2>3
<1>11. ASSUME NEW i \in 1 .. n
       PROVE  m[o + w + i] = t[o + w + i]
  <2>1. PICK k : k = o + w + i
    OBVIOUS
  <2>2. k \in 1 .. o + w + n /\ ~ (k - o \in 1 .. w)
    BY <1>3, <2>1
  <2>3. m[k] = s[k]
    BY <1>8, <2>2
  <2> QED  BY <1>5, <1>6, <2>1, <2>3
<1>12. \A k \in 1 .. o + w + n : m[k] = t[k]
  <2> SUFFICES ASSUME NEW k \in 1 .. o + w + n
               PROVE  m[k] = t[k]
    OBVIOUS
  <2>1. CASE k <= o
    <3>1. k \in 1 .. o
      BY <1>3, <2>1
    <3> QED  BY <1>9, <3>1
  <2>2. CASE k > o /\ k <= o + w
    <3>1. PICK i \in 1 .. w : k = o + i
      <4>1. k - o \in 1 .. w /\ k = o + (k - o)
        BY <1>3, <2>2
      <4> QED  BY <4>1
    <3> QED  BY <1>10, <3>1
  <2>3. CASE k > o + w
    <3>1. PICK i \in 1 .. n : k = o + w + i
      <4>1. k - (o + w) \in 1 .. n /\ k = o + w + (k - (o + w))
        BY <1>3, <2>3
      <4> QED  BY <4>1
    <3> QED  BY <1>11, <3>1
  <2> QED  BY <1>3, <2>1, <2>2, <2>3
<1>13. m = t
  <2>1. t = [i \in 1 .. o + w + n |-> t[i]]
    BY <1>6
  <2>2. m = [i \in 1 .. o + w + n |-> m[i]]
    BY <1>8
  <2> QED  BY <1>12, <2>1, <2>2
<1> QED  BY <1>7, <1>8, <1>13

TypeByte(type) == IF type = Startup THEN <<>> ELSE <<type>>

\* A message is its type, its size and its body: the size is in its place.
LEMMA MessageWritten ==
  ASSUME NEW type \in Nat, NEW body \in Octets, NEW n, n = Len(body) + 4
  PROVE  /\ TypeByte(type) \in Octets /\ Bytes(n, 4) \in Octets
         /\ Message(type, body) = (TypeByte(type) \o Bytes(n, 4)) \o body
<1>1. Len(body) \in Nat /\ n \in Nat
  BY OctetsLen
<1>2. PICK a, o : a = TypeByte(type) /\ o = SizeOffset(type)
  OBVIOUS
<1>3. a \in Octets /\ o = Len(a) /\ o \in Nat
  BY <1>2 DEF TypeByte, SizeOffset, Octets
<1>4. PICK z : z = <<0, 0, 0, 0>>
  OBVIOUS
<1>5. z \in Octets /\ Len(z) = 4
  BY <1>4 DEF Octets
<1>6. PICK s : s = (a \o z) \o body
  OBVIOUS
<1>12. PICK w, l : w = 4 /\ l = Len(body)
  OBVIOUS
<1>7. Thirds(s, a, z, body, o, w, l)
  BY <1>3, <1>5, <1>6, <1>12, ThreeParts
<1>8. Len(s) - o = n
  <2>1. Len(s) = o + w + l
    BY <1>7 DEF Thirds
  <2> QED  BY <1>1, <1>3, <1>12, <2>1
<1>9. PICK b : b = Bytes(n, 4)
  OBVIOUS
<1>10. b \in Octets /\ Len(b) = 4
  <2>1. PICK k \in Nat : k = 4
    OBVIOUS
  <2>2. Bytes(n, k) \in Octets /\ Len(Bytes(n, k)) = k
    BY <1>1, BytesType
  <2> QED  BY <1>9, <2>1, <2>2
<1>11. Message(type, body) = [i \in DOMAIN s |-> IF i - o \in 1 .. 4 THEN b[i - o] ELSE s[i]]
  BY <1>2, <1>4, <1>6, <1>8, <1>9 DEF Message, TypeByte
<1>14. PICK t : t = (a \o b) \o body
  OBVIOUS
<1>15. Thirds(t, a, b, body, o, w, l)
  BY <1>3, <1>10, <1>12, <1>14, ThreeParts
<1>13. [i \in DOMAIN s |-> IF i - o \in 1 .. w THEN b[i - o] ELSE s[i]] = t
  <2>1. w \in Nat /\ l \in Nat
    BY <1>1, <1>12
  <2> QED  BY <1>3, <1>7, <1>15, <2>1, Reserved
<1> QED  BY <1>2, <1>3, <1>9, <1>10, <1>11, <1>12, <1>13, <1>14

\* What a client may send: see Burst.
IsMessage(m) ==
  /\ m = [type |-> m.type, body |-> m.body]
  /\ m.type \in Nat /\ (m.type # Startup => m.type < 256)
  /\ m.body \in Octets /\ Len(m.body) <= MaxLetters

\* The type of a message is one byte.
LEMMA OneByte ==
  ASSUME NEW n \in Nat, n < 256
  PROVE  Bytes(n, 1) = <<n>> /\ Storable(n, 1, FALSE)
<1>1. Storable(n, 1, FALSE)
  BY SMT DEF Storable, Largest
<1>2. PICK base \in Nat : base = 256
  OBVIOUS
<1>3. base > 1 /\ n < base
  BY <1>2
<1>4. PICK q : IsQuotients(q, n, 1, base)
  BY <1>3, Quotients
<1>5. BigEndian(n, 1, base) = [i \in 1 .. 1 |-> q[1 - i] % base]
  <2>1. PICK w \in Nat : w = 1
    OBVIOUS
  <2>2. IsQuotients(q, n, w, base)
    BY <1>4, <2>1
  <2>3. BigEndian(n, w, base) = [i \in 1 .. w |-> q[w - i] % base]
    BY <1>3, <2>2, BigEndianDigits
  <2> QED  BY <2>1, <2>3
<1>6. q[0] = n
  BY <1>4 DEF IsQuotients
<1>7. n % base = n
  BY <1>3
<1>8. [i \in 1 .. 1 |-> q[1 - i] % base] = <<n>>
  BY <1>6, <1>7
<1> QED  BY <1>1, <1>2, <1>5, <1>8 DEF Bytes

\* Only the first message is one of startup, and none is before it.
Starts(v, m) == (v = <<>>) <=> (m.type = Startup)

\* The server cuts off a message as it was written, and leaves those behind it.
LEMMA MessageRead ==
  ASSUME NEW v, NEW m, IsMessage(m), Starts(v, m), NEW rest \in Octets,
         NEW data, data = Message(m.type, m.body) \o rest
  PROVE  /\ CutMessage(Done(v, data)) = Done(Append(v, m), rest)
         /\ Message(m.type, m.body) \in Octets /\ Len(Message(m.type, m.body)) >= 1
<1>1. PICK type, body : type = m.type /\ body = m.body
  OBVIOUS
<1>2. /\ type \in Nat /\ (type # Startup => type < 256) /\ body \in Octets /\ m = [type |-> type, body |-> body]
      /\ Len(body) <= MaxLetters /\ Len(body) \in Nat
  BY <1>1, OctetsLen DEF IsMessage
<1>3. PICK n, l : l = Len(body) /\ n = l + 4
  OBVIOUS
<1>4. Storable(n, 4, TRUE)
  BY <1>2, <1>3, Bounds
<1>5. PICK a, b : a = TypeByte(type) /\ b = Bytes(n, 4)
  OBVIOUS
<1>6. a \in Octets /\ b \in Octets /\ Message(type, body) = (a \o b) \o body
  BY <1>2, <1>3, <1>5, MessageWritten
<1>7. PICK r1 : r1 = body \o rest
  OBVIOUS
<1>8. PICK r2 : r2 = b \o r1
  OBVIOUS
<1>9. r1 \in Octets /\ r2 \in Octets
  BY <1>2, <1>6, <1>7, <1>8, OctetsConcat
<1>10. data = a \o r2
  <2>1. PICK p : p = a \o b
    OBVIOUS
  <2>2. p \in Octets
    BY <1>6, <2>1, OctetsConcat
  <2>3. (p \o body) \o rest = p \o (body \o rest)
    BY <1>2, <2>2, OctetsRegroup
  <2>4. (a \o b) \o r1 = a \o (b \o r1)
    BY <1>6, <1>9, OctetsRegroup
  <2>5. data = (p \o body) \o rest
    BY <1>1, <1>6, <2>1
  <2>6. data = p \o r1
    BY <1>7, <2>3, <2>5
  <2> QED  BY <1>8, <2>1, <2>4, <2>6
<1>11. PICK size : size = ReadNumber(4, TRUE, r2)
  OBVIOUS
<1>12. size.ok /\ size.value = n /\ size.rest = r1
  <2>1. ReadNumber(4, TRUE, Bytes(n, 4) \o r1) = Done(n, r1)
    BY <1>4, <1>9, NumberRead
  <2>2. size = Done(n, r1)
    BY <1>5, <1>8, <1>11, <2>1
  <2> QED  BY <2>2, DoneParts
<1>13. PICK content : content = Read(n - 4, r1)
  OBVIOUS
<1>14. content.ok /\ content.value = body /\ content.rest = rest
  <2>1. Read(Len(body), body \o rest) = Done(body, rest)
    BY <1>2, ReadFront
  <2>2. n - 4 = l
    BY <1>2, <1>3
  <2>3. content = Done(body, rest)
    BY <1>3, <1>7, <1>13, <2>1, <2>2
  <2> QED  BY <2>3, DoneParts
<1>15. PICK s : s = Done(v, data)
  OBVIOUS
<1>16. s.ok /\ s.value = v /\ s.rest = data
  <2>1. PICK d : d = data
    OBVIOUS
  <2>2. s = Done(v, d)
    BY <1>15, <2>1
  <2>3. s.ok /\ s.value = v /\ s.rest = d
    BY <2>2, DoneParts
  <2> QED  BY <2>1, <2>3
<1>17. PICK first : first = IF v = <<>> THEN Done(Startup, data) ELSE ReadNumber(1, FALSE, data)
  OBVIOUS
<1>18. first.ok /\ first.value = type /\ first.rest = r2
  <2>1. CASE type = Startup
    <3>1. a = <<>> /\ v = <<>>
      BY <1>1, <1>5, <2>1 DEF TypeByte, Starts
    <3>2. data = r2
      BY <1>9, <1>10, <3>1, OctetsConcatEmpty
    <3>3. first = Done(type, r2)
      BY <1>17, <2>1, <3>1, <3>2
    <3> QED  BY <3>3, DoneParts
  <2>2. CASE type # Startup
    <3>1. a = Bytes(type, 1) /\ v # <<>> /\ Storable(type, 1, FALSE)
      <4>1. v # <<>>
        BY <1>1, <2>2 DEF Starts
      <4>2. Bytes(type, 1) = <<type>> /\ Storable(type, 1, FALSE)
        BY <1>2, <2>2, OneByte
      <4>3. a = <<type>>
        BY <1>5, <2>2 DEF TypeByte
      <4> QED  BY <4>1, <4>2, <4>3
    <3>2. ReadNumber(1, FALSE, Bytes(type, 1) \o r2) = Done(type, r2)
      BY <1>9, <3>1, NumberRead
    <3>3. first = Done(type, r2)
      BY <1>10, <1>17, <3>1, <3>2
    <3> QED  BY <3>3, DoneParts
  <2> QED  BY <2>1, <2>2
<1>19. Len(Message(type, body)) >= 1 /\ Message(type, body) \in Octets /\ data # <<>>
  <2>1. Len(b) = 4
    <3>1. PICK w \in Nat : w = 4
      OBVIOUS
    <3>2. n \in Int
      BY <1>2, <1>3
    <3>3. Len(Bytes(n, w)) = w
      BY <3>2, BytesType
    <3> QED  BY <1>5, <3>1, <3>3
  <2>2. Thirds(Message(type, body), a, b, body, Len(a), Len(b), Len(body))
    BY <1>2, <1>6, ThreeParts
  <2>3. Len(a) \in Nat
    BY <1>6, OctetsLen
  <2>4. Len(Message(type, body)) = Len(a) + 4 + Len(body) /\ Message(type, body) \in Seq(Int)
    BY <2>1, <2>2 DEF Thirds
  <2>5. Len(Message(type, body)) >= 1 /\ Message(type, body) \in Octets
    BY <1>2, <2>3, <2>4 DEF Octets
  <2>6. PICK w : w = Message(type, body)
    OBVIOUS
  <2>7. w \in Octets /\ Len(w) >= 1 /\ data = w \o rest
    BY <1>1, <2>5, <2>6
  <2>8. Len(w \o rest) = Len(w) + Len(rest) /\ Len(w) \in Nat /\ Len(rest) \in Nat
    BY <2>7, OctetsConcatLen, OctetsLen
  <2>9. Len(data) >= 1
    BY <2>7, <2>8
  <2> QED  BY <2>5, <2>9
<1>20. CutMessage(s) = Done(Append(v, [type |-> type, body |-> body]), rest)
  BY <1>11, <1>12, <1>13, <1>14, <1>16, <1>17, <1>18, <1>19 DEF CutMessage
<1> QED  BY <1>1, <1>2, <1>15, <1>19, <1>20

\* A loop that cuts data in N turns, from turn to turn.
IsCutRun(g, N, data) ==
  /\ g = [i \in 0 .. N |-> g[i]] /\ g[0] = Done(<<>>, data)
  /\ \A i \in 1 .. N : g[i] = CutMessage(g[i - 1])

\* The server's loop over the messages, from turn to turn.
LEMMA CutRun ==
  ASSUME NEW data, NEW N \in Nat, N = Len(data), NEW g, IsCutRun(g, N, data)
  PROVE  Cut(data) = g[N]
<1> DEFINE first == Done(<<>>, data)
           Fits(f) == f = [i \in 0 .. N |-> IF i = 0 THEN first ELSE CutMessage(f[i - 1])]
<1>1. g[0] = first
  BY DEF IsCutRun
<1> HIDE DEF first
<1>2. g = [i \in 0 .. N |-> g[i]] /\ \A i \in 1 .. N : g[i] = CutMessage(g[i - 1])
  BY DEF IsCutRun
<1>3. Fits(g)
  <2>1. \A i \in 0 .. N : g[i] = IF i = 0 THEN first ELSE CutMessage(g[i - 1])
    <3>1. \A i \in 0 .. N : i = 0 \/ (i # 0 /\ i \in 1 .. N)
      OBVIOUS
    <3> QED  BY <1>1, <1>2, <3>1
  <2> QED  BY <1>2, <2>1
<1>4. PICK h : Fits(h) /\ h = CHOOSE f : Fits(f)
  <2> HIDE DEF Fits
  <2> QED  BY <1>3
<1>5. Cut(data) = h[N]
  <2>1. Cut(data) = (CHOOSE f : Fits(f))[N]
    BY DEF Cut, Repeat, first
  <2> HIDE DEF Fits
  <2> QED  BY <1>4, <2>1
<1>6. Follows(h, g, N)
  <2>1. h[0] = g[0]
    BY <1>1, <1>4
  <2>2. ASSUME NEW i \in 1 .. N, h[i - 1] = g[i - 1]
        PROVE  h[i] = g[i]
    <3>1. i \in 0 .. N /\ i # 0
      OBVIOUS
    <3>2. h[i] = CutMessage(h[i - 1])
      BY <1>4, <3>1
    <3> QED  BY <1>2, <2>2, <3>2
  <2> QED  BY <2>1, <2>2 DEF Follows
<1>7. h[N] = g[N]
  BY <1>6, Agree
<1> QED  BY <1>5, <1>7

IsBurst(ms, n) ==
  \A i \in 1 .. n : IsMessage(ms[i]) /\ (i = 1 <=> ms[i].type = Startup)

\* Without bytes nothing more is cut.
LEMMA CutEnds ==
  ASSUME NEW v
  PROVE  CutMessage(Done(v, <<>>)) = Done(v, <<>>)
BY DEF CutMessage, Done

\* The front of a list is empty only before the first item.
LEMMA FrontEmpty ==
  ASSUME NEW S, NEW n \in Nat, NEW seq \in [1 .. n -> S], NEW front, Fronts(front, seq, n),
         NEW i \in 1 .. n
  PROVE  (front[i - 1] = <<>>) <=> (i = 1)
<1>1. i - 1 \in 0 .. n /\ i - 1 \in Nat
  OBVIOUS
<1>2. PICK f : f = front[i - 1]
  OBVIOUS
<1>3. f = SubSeq(seq, 1, i - 1)
  BY <1>1, <1>2 DEF Fronts
<1>4. seq \in Seq(S) /\ Len(seq) = n
  OBVIOUS
<1>5. Len(f) = i - 1
  BY <1>1, <1>3, <1>4
<1>6. CASE i = 1
  BY <1>6 DEF Fronts
<1>7. CASE i # 1
  <2>1. Len(f) # 0
    BY <1>5, <1>7
  <2>2. Len(<<>>) = 0
    OBVIOUS
  <2>3. ~ (f = <<>>)
    BY <2>1, <2>2
  <2> QED  BY <1>2, <1>7, <2>3
<1> QED  BY <1>6, <1>7

\* A message has at least a byte, so there are turns enough.
LEMMA MessageParts ==
  ASSUME NEW m, IsMessage(m)
  PROVE  Message(m.type, m.body) \in Octets /\ Len(Message(m.type, m.body)) >= 1
<1>1. PICK v : Starts(v, m)
  <2>1. \E v : v # <<>>
    <3>1. << 1 >> # <<>>
      OBVIOUS
    <3> QED  BY <3>1
  <2> QED  BY <2>1 DEF Starts
<1>2. <<>> \in Octets
  BY OctetsConcatEmpty
<1>3. PICK data, rest : rest = <<>> /\ data = Message(m.type, m.body) \o rest
  OBVIOUS
<1> QED  BY <1>1, <1>2, <1>3, MessageRead

\* All the messages of a burst are cut off, one after the other.
LEMMA BurstCut ==
  ASSUME NEW S, NEW n \in Nat, NEW ms \in [1 .. n -> S], IsBurst(ms, n)
  PROVE  Cut(FlattenSeq([i \in 1 .. n |-> Message(ms[i].type, ms[i].body)])) = Done(ms, <<>>)
<1>1. PICK parts : parts = [i \in 1 .. n |-> Message(ms[i].type, ms[i].body)]
  OBVIOUS
<1>2. parts \in [1 .. n -> Octets] /\ \A i \in 1 .. n : Len(parts[i]) >= 1
  <2>1. \A i \in 1 .. n : LET w == Message(ms[i].type, ms[i].body)
                          IN w \in Octets /\ Len(w) >= 1
    BY MessageParts DEF IsBurst
  <2> QED  BY <1>1, <2>1
<1>3. PICK tail : tail = <<>>
  OBVIOUS
<1>4. tail \in Octets /\ Len(tail) = 0
  BY <1>3, OctetsConcatEmpty
<1>5. PICK left : Unread(left, parts, n, tail)
  BY <1>2, <1>4, UnreadItems
<1>6. PICK data : data = FlattenSeq(parts)
  OBVIOUS
<1>7. left[0] = data /\ left[n] = <<>> /\ data \in Octets
  <2>1. data \in Octets
    BY <1>2, <1>6, FlatType
  <2>2. data \o <<>> = data
    BY <2>1, OctetsConcatEmpty
  <2> QED  BY <1>3, <1>5, <1>6, <2>1, <2>2 DEF Unread
<1>8. PICK N \in Nat : N = Len(data)
  BY <1>7, OctetsLen
<1>9. n <= N
  <2>1. Len(left[0]) >= n + Len(tail)
    BY <1>2, <1>4, <1>5, LongEnough
  <2> QED  BY <1>4, <1>7, <1>8, <2>1
<1>10. PICK front : Fronts(front, ms, n)
  BY ItemByItem
<1>11. ASSUME NEW i \in 1 .. n
       PROVE  CutMessage(Done(front[i - 1], left[i - 1])) = Done(front[i], left[i])
  <2>1. PICK v, m, d, rest : v = front[i - 1] /\ m = ms[i] /\ d = left[i - 1] /\ rest = left[i]
    OBVIOUS
  <2>2. IsMessage(m) /\ Starts(v, m)
    <3>1. IsMessage(ms[i]) /\ (i = 1 <=> ms[i].type = Startup)
      BY DEF IsBurst
    <3>2. front[i - 1] = <<>> <=> i = 1
      BY <1>10, FrontEmpty
    <3> QED  BY <2>1, <3>1, <3>2 DEF Starts
  <2>3. rest \in Octets /\ d = Message(m.type, m.body) \o rest
    <3>1. i \in 0 .. n
      OBVIOUS
    <3>2. parts[i] = Message(m.type, m.body)
      BY <1>1, <2>1
    <3> QED  BY <1>5, <2>1, <3>1, <3>2 DEF Unread
  <2>4. CutMessage(Done(v, d)) = Done(Append(v, m), rest)
    BY <2>2, <2>3, MessageRead
  <2>5. Append(v, m) = front[i]
    BY <1>10, <2>1 DEF Fronts
  <2> QED  BY <2>1, <2>4, <2>5
<1> DEFINE U(i) == IF i <= n THEN i ELSE n
           g == [i \in 0 .. N |-> Done(front[U(i)], left[U(i)])]
<1>12. g[0] = Done(<<>>, data)
  <2>1. 0 \in 0 .. N /\ U(0) = 0
    OBVIOUS
  <2>2. g[0] = Done(front[0], left[0])
    BY <2>1
  <2>3. front[0] = <<>>
    BY <1>10 DEF Fronts
  <2> HIDE DEF g
  <2> QED  BY <1>7, <2>2, <2>3
<1>13. ASSUME NEW i \in 1 .. N
       PROVE  g[i] = CutMessage(g[i - 1])
  <2>1. i \in 0 .. N /\ i - 1 \in 0 .. N
    OBVIOUS
  <2>2. g[i] = Done(front[U(i)], left[U(i)]) /\ g[i - 1] = Done(front[U(i - 1)], left[U(i - 1)])
    BY <2>1
  <2>3. CASE i <= n
    <3>1. i \in 1 .. n /\ U(i) = i /\ U(i - 1) = i - 1
      BY <2>3
    <3> HIDE DEF g, U
    <3> QED  BY <1>11, <2>2, <3>1
  <2>4. CASE i > n
    <3>1. U(i) = n /\ U(i - 1) = n
      BY <2>4
    <3> HIDE DEF g, U
    <3>2. g[i] = Done(front[n], <<>>) /\ g[i - 1] = Done(front[n], <<>>)
      BY <1>7, <2>2, <3>1
    <3> QED  BY <3>2, CutEnds
  <2> QED  BY <2>3, <2>4
<1>14. g = [i \in 0 .. N |-> g[i]]
  OBVIOUS
<1>15. g[N] = Done(ms, <<>>)
  <2>1. N \in 0 .. N /\ U(N) = n
    BY <1>9
  <2>2. g[N] = Done(front[U(N)], left[U(N)])
    BY <2>1
  <2>3. front[n] = ms
    BY <1>10 DEF Fronts
  <2> HIDE DEF g, U
  <2> QED  BY <1>7, <2>1, <2>2, <2>3
<1> HIDE DEF g
<1>16. IsCutRun(g, N, data)
  BY <1>12, <1>13, <1>14 DEF IsCutRun
<1>17. Cut(data) = g[N]
  BY <1>8, <1>16, CutRun
<1> QED  BY <1>1, <1>6, <1>15, <1>17

\* A startup message and what is sent behind it are cut as they were meant.
LEMMA BurstWhole ==
  ASSUME NEW startup \in Strings,
         NEW rest \in Lists([type : {81}, body : Strings] \cup [type : {83}, body : {<<>>}]),
         NEW ms, ms = <<[type |-> Startup, body |-> startup]>> \o rest
  PROVE  Cut(FlattenSeq([i \in DOMAIN ms |-> Message(ms[i].type, ms[i].body)]))
           = Done(ms, <<>>)
<1> DEFINE Later == [type : {81}, body : Strings] \cup [type : {83}, body : {<<>>}]
<1>1. \A m \in Later : IsMessage(m) /\ ~ (m.type = Startup)
  <2>1. <<>> \in Octets /\ Len(<<>>) = 0 /\ MaxLetters \in Nat
    BY OctetsConcatEmpty, Bounds
  <2>2. ASSUME NEW m \in [type : {81}, body : Strings]
        PROVE  IsMessage(m) /\ ~ (m.type = Startup)
    <3>1. m.body \in Octets /\ Len(m.body) <= MaxLetters
      BY <2>2, StringsAreText DEF IsText
    <3> QED  BY <2>2, <3>1 DEF IsMessage, Startup
  <2>3. ASSUME NEW m \in [type : {83}, body : {<<>>}]
        PROVE  IsMessage(m) /\ ~ (m.type = Startup)
    <3>1. m.body = <<>> /\ m.type = 83 /\ m = [type |-> m.type, body |-> m.body]
      BY <2>3
    <3>2. m.body \in Octets /\ Len(m.body) <= MaxLetters
      BY <2>1, <3>1
    <3> QED  BY <3>1, <3>2 DEF IsMessage, Startup
  <2> QED  BY <2>2, <2>3
<1>2. PICK m1 : m1 = [type |-> Startup, body |-> startup]
  OBVIOUS
<1>3. IsMessage(m1) /\ m1.type = Startup
  <2>1. m1.body \in Octets /\ Len(m1.body) <= MaxLetters
    BY <1>2, StringsAreText DEF IsText
  <2> QED  BY <1>2, <2>1 DEF IsMessage, Startup
<1>4. PICK k \in Nat : k = Len(rest)
  BY ListsAreBounded
<1>5. rest \in [1 .. k -> Later]
  BY <1>4, ListsAreBounded
<1>6. PICK n \in Nat : n = k + 1
  BY <1>4
<1>7. PICK S : S = {m1} \cup Later
  OBVIOUS
<1> HIDE DEF Later
<1>8. ms \in [1 .. n -> S] /\ ms[1] = m1 /\ \A i \in 2 .. n : ms[i] \in Later
  <2>1. <<m1>> \in Seq(S) /\ Len(<<m1>>) = 1 /\ <<m1>>[1] = m1
    BY <1>7
  <2>2. rest \in Seq(S) /\ Len(rest) = k
    BY <1>4, <1>5, <1>7
  <2>3. ms = <<m1>> \o rest
    BY <1>2
  <2>4. /\ ms \in Seq(S) /\ Len(ms) = n /\ ms[1] = m1
        /\ \A i \in 1 .. k : ms[i + 1] = rest[i]
    BY <1>6, <2>1, <2>2, <2>3
  <2>5. ASSUME NEW i \in 2 .. n
        PROVE  ms[i] \in Later
    <3>1. PICK j \in 1 .. k : i = j + 1
      <4>1. i - 1 \in 1 .. k /\ i = (i - 1) + 1
        BY <1>6
      <4> QED  BY <4>1
    <3>2. ms[j + 1] = rest[j]
      BY <2>4
    <3>3. rest[j] \in Later
      BY <1>5
    <3> QED  BY <3>1, <3>2, <3>3
  <2>6. ms \in [1 .. n -> S]
    <3>1. ms \in Seq(S) /\ Len(ms) = n
      BY <2>4
    <3> QED  BY <3>1, LenProperties
  <2> QED  BY <2>4, <2>5, <2>6
<1>9. IsBurst(ms, n)
  <2>1. ASSUME NEW i \in 1 .. n
        PROVE  IsMessage(ms[i]) /\ (i = 1 <=> ms[i].type = Startup)
    <3>1. i = 1 \/ (i # 1 /\ i \in 2 .. n)
      OBVIOUS
    <3> QED  BY <1>1, <1>3, <1>8, <3>1
  <2> QED  BY <2>1 DEF IsBurst
<1>10. DOMAIN ms = 1 .. n
  BY <1>8
<1>11. Cut(FlattenSeq([i \in 1 .. n |-> Message(ms[i].type, ms[i].body)])) = Done(ms, <<>>)
  BY <1>8, <1>9, BurstCut
<1> QED  BY <1>10, <1>11

(***************************************************************************)
(* The pairs of the startup message.                                       *)
(***************************************************************************)
WritePair(p) == Terminated(p[1]) \o Terminated(p[2])

IsPair(p) == p = <<p[1], p[2]>> /\ IsText(p[1]) /\ IsText(p[2]) /\ Len(p[1]) > 0

LEMMA PairParts ==
  ASSUME NEW p, IsPair(p)
  PROVE  WritePair(p) \in Octets /\ Len(WritePair(p)) >= 2
<1>1. PICK a, b : a = p[1] /\ b = p[2]
  OBVIOUS
<1>2. IsText(a) /\ IsText(b)
  BY <1>1 DEF IsPair
<1>3. PICK s, t : s = Terminated(a) /\ t = Terminated(b)
  OBVIOUS
<1>4. s \in Octets /\ t \in Octets /\ Len(s) >= 1 /\ Len(t) >= 1 /\ Len(s) \in Nat /\ Len(t) \in Nat
  <2>1. Len(a) \in Nat /\ Len(b) \in Nat
    BY <1>2, OctetsLen DEF IsText
  <2>2. s \in Octets /\ t \in Octets /\ Len(s) = Len(a) + 1 /\ Len(t) = Len(b) + 1
    BY <1>2, <1>3, TerminatedType
  <2> QED  BY <2>1, <2>2
<1>5. s \o t \in Octets /\ Len(s \o t) = Len(s) + Len(t)
  BY <1>4, OctetsConcat, OctetsConcatLen
<1>6. Len(s \o t) >= 2
  BY <1>4, <1>5
<1> QED  BY <1>1, <1>3, <1>5, <1>6 DEF WritePair

\* A name and its value are read as they were written.
LEMMA PairRead ==
  ASSUME NEW p, IsPair(p), NEW rest \in Octets, NEW v, NEW data, data = WritePair(p) \o rest
  PROVE  ReadPair(Done(v, data)) = Done(Append(v, p), rest)
<1>1. PICK a, b : a = p[1] /\ b = p[2]
  OBVIOUS
<1>2. IsText(a) /\ IsText(b) /\ Len(a) > 0 /\ p = <<a, b>>
  BY <1>1 DEF IsPair
<1>3. PICK s, t : s = Terminated(a) /\ t = Terminated(b)
  OBVIOUS
<1>4. s \in Octets /\ t \in Octets
  BY <1>2, <1>3, TerminatedType
<1>5. PICK more : more = t \o rest
  OBVIOUS
<1>6. more \in Octets
  BY <1>4, <1>5, OctetsConcat
<1>7. data = s \o more
  <2>1. (s \o t) \o rest = s \o (t \o rest)
    BY <1>4, OctetsRegroup
  <2> QED  BY <1>1, <1>3, <1>5, <2>1 DEF WritePair
<1>8. PICK name : name = ReadString(data)
  OBVIOUS
<1>9. name.ok /\ name.value = a /\ name.rest = more
  <2>1. ReadString(Terminated(a) \o more) = Done(a, more)
    BY <1>2, <1>6, StringRead
  <2>2. name = Done(a, more)
    BY <1>3, <1>7, <1>8, <2>1
  <2> QED  BY <2>2, DoneParts
<1>10. PICK value : value = ReadString(more)
  OBVIOUS
<1>11. value.ok /\ value.value = b /\ value.rest = rest
  <2>1. ReadString(Terminated(b) \o rest) = Done(b, rest)
    BY <1>2, StringRead
  <2>2. value = Done(b, rest)
    BY <1>3, <1>5, <1>10, <2>1
  <2> QED  BY <2>2, DoneParts
<1>12. data # << 0 >>
  <2>1. PICK w : w = WritePair(p)
    OBVIOUS
  <2>2. w \in Octets /\ Len(w) >= 2
    BY <2>1, PairParts
  <2>3. Len(w \o rest) = Len(w) + Len(rest) /\ Len(w) \in Nat /\ Len(rest) \in Nat
    BY <2>2, OctetsConcatLen, OctetsLen
  <2>4. Len(data) >= 2
    BY <2>1, <2>2, <2>3
  <2>5. Len(<< 0 >>) = 1
    OBVIOUS
  <2> QED  BY <2>4, <2>5
<1>13. a # <<>>
  <2>1. Len(<<>>) = 0
    OBVIOUS
  <2> QED  BY <1>2, <2>1
<1>14. PICK s0 : s0 = Done(v, data)
  OBVIOUS
<1>15. s0.ok /\ s0.value = v /\ s0.rest = data
  <2>1. PICK d : d = data
    OBVIOUS
  <2>2. s0 = Done(v, d)
    BY <1>14, <2>1
  <2>3. s0.ok /\ s0.value = v /\ s0.rest = d
    BY <2>2, DoneParts
  <2> QED  BY <2>1, <2>3
<1>16. ReadPair(s0) = Done(Append(v, <<a, b>>), rest)
  BY <1>8, <1>9, <1>10, <1>11, <1>12, <1>13, <1>15 DEF ReadPair
<1> QED  BY <1>2, <1>14, <1>16

IsPairRun(g, N, data) ==
  /\ g = [i \in 0 .. N |-> g[i]] /\ g[0] = Done(<<>>, data)
  /\ \A i \in 1 .. N : g[i] = ReadPair(g[i - 1])

\* The server's loop over the pairs, from turn to turn.
LEMMA PairRun ==
  ASSUME NEW data, NEW N \in Nat, N = Len(data), NEW g, IsPairRun(g, N, data)
  PROVE  ReadPairs(data) = g[N]
<1> DEFINE first == Done(<<>>, data)
           Fits(f) == f = [i \in 0 .. N |-> IF i = 0 THEN first ELSE ReadPair(f[i - 1])]
<1>1. g[0] = first
  BY DEF IsPairRun
<1> HIDE DEF first
<1>2. g = [i \in 0 .. N |-> g[i]] /\ \A i \in 1 .. N : g[i] = ReadPair(g[i - 1])
  BY DEF IsPairRun
<1>3. Fits(g)
  <2>1. \A i \in 0 .. N : g[i] = IF i = 0 THEN first ELSE ReadPair(g[i - 1])
    <3>1. \A i \in 0 .. N : i = 0 \/ (i # 0 /\ i \in 1 .. N)
      OBVIOUS
    <3> QED  BY <1>1, <1>2, <3>1
  <2> QED  BY <1>2, <2>1
<1>4. PICK h : Fits(h) /\ h = CHOOSE f : Fits(f)
  <2> HIDE DEF Fits
  <2> QED  BY <1>3
<1>5. ReadPairs(data) = h[N]
  <2>1. ReadPairs(data) = (CHOOSE f : Fits(f))[N]
    BY DEF ReadPairs, Repeat, first
  <2> HIDE DEF Fits
  <2> QED  BY <1>4, <2>1
<1>6. Follows(h, g, N)
  <2>1. h[0] = g[0]
    BY <1>1, <1>4
  <2>2. ASSUME NEW i \in 1 .. N, h[i - 1] = g[i - 1]
        PROVE  h[i] = g[i]
    <3>1. i \in 0 .. N /\ i # 0
      OBVIOUS
    <3>2. h[i] = ReadPair(h[i - 1])
      BY <1>4, <3>1
    <3> QED  BY <1>2, <2>2, <3>2
  <2> QED  BY <2>1, <2>2 DEF Follows
<1>7. h[N] = g[N]
  BY <1>6, Agree
<1> QED  BY <1>5, <1>7

ArePairs(ps, n) == \A i \in 1 .. n : IsPair(ps[i])

LEMMA PairsEnd ==
  ASSUME NEW v
  PROVE  ReadPair(Done(v, << 0 >>)) = Done(v, << 0 >>)
BY DEF ReadPair, Done

\* All the pairs are read, up to the empty name.
LEMMA PairsRead ==
  ASSUME NEW S, NEW n \in Nat, NEW ps \in [1 .. n -> S], ArePairs(ps, n)
  PROVE  ReadPairs(FlattenSeq([i \in 1 .. n |-> WritePair(ps[i])]) \o << 0 >>) = Done(ps, << 0 >>)
<1>1. PICK parts : parts = [i \in 1 .. n |-> WritePair(ps[i])]
  OBVIOUS
<1>2. parts \in [1 .. n -> Octets] /\ \A i \in 1 .. n : Len(parts[i]) >= 1
  <2>1. ASSUME NEW i \in 1 .. n
        PROVE  WritePair(ps[i]) \in Octets /\ Len(WritePair(ps[i])) >= 1
    <3>1. PICK w : w = WritePair(ps[i])
      OBVIOUS
    <3>2. w \in Octets /\ Len(w) >= 2
      BY <3>1, PairParts DEF ArePairs
    <3>3. Len(w) >= 1
      BY <3>2, OctetsLen
    <3> QED  BY <3>1, <3>2, <3>3
  <2> QED  BY <1>1, <2>1
<1>3. PICK tail : tail = << 0 >>
  OBVIOUS
<1>4. tail \in Octets /\ Len(tail) = 1
  BY <1>3 DEF Octets
<1>5. PICK left : Unread(left, parts, n, tail)
  BY <1>2, <1>4, UnreadItems
<1>6. PICK data : data = FlattenSeq(parts) \o tail
  OBVIOUS
<1>7. left[0] = data /\ left[n] = tail /\ data \in Octets
  <2>1. 0 \in 0 .. n
    OBVIOUS
  <2> QED  BY <1>5, <1>6, <2>1 DEF Unread
<1>8. PICK N \in Nat : N = Len(data)
  BY <1>7, OctetsLen
<1>9. n <= N
  <2>1. Len(left[0]) >= n + Len(tail)
    BY <1>2, <1>4, <1>5, LongEnough
  <2> QED  BY <1>4, <1>7, <1>8, <2>1
<1>10. PICK front : Fronts(front, ps, n)
  BY ItemByItem
<1>11. ASSUME NEW i \in 1 .. n
       PROVE  ReadPair(Done(front[i - 1], left[i - 1])) = Done(front[i], left[i])
  <2>1. PICK v, p, d, rest : v = front[i - 1] /\ p = ps[i] /\ d = left[i - 1] /\ rest = left[i]
    OBVIOUS
  <2>2. IsPair(p)
    BY <2>1 DEF ArePairs
  <2>3. rest \in Octets /\ d = WritePair(p) \o rest
    <3>1. i \in 0 .. n
      OBVIOUS
    <3>2. parts[i] = WritePair(p)
      BY <1>1, <2>1
    <3> QED  BY <1>5, <2>1, <3>1, <3>2 DEF Unread
  <2>4. ReadPair(Done(v, d)) = Done(Append(v, p), rest)
    BY <2>2, <2>3, PairRead
  <2>5. Append(v, p) = front[i]
    BY <1>10, <2>1 DEF Fronts
  <2> QED  BY <2>1, <2>4, <2>5
<1> DEFINE U(i) == IF i <= n THEN i ELSE n
           g == [i \in 0 .. N |-> Done(front[U(i)], left[U(i)])]
<1>12. g[0] = Done(<<>>, data)
  <2>1. 0 \in 0 .. N /\ U(0) = 0
    OBVIOUS
  <2>2. g[0] = Done(front[0], left[0])
    BY <2>1
  <2>3. front[0] = <<>>
    BY <1>10 DEF Fronts
  <2> HIDE DEF g
  <2> QED  BY <1>7, <2>2, <2>3
<1>13. ASSUME NEW i \in 1 .. N
       PROVE  g[i] = ReadPair(g[i - 1])
  <2>1. i \in 0 .. N /\ i - 1 \in 0 .. N
    OBVIOUS
  <2>2. g[i] = Done(front[U(i)], left[U(i)]) /\ g[i - 1] = Done(front[U(i - 1)], left[U(i - 1)])
    BY <2>1
  <2>3. CASE i <= n
    <3>1. i \in 1 .. n /\ U(i) = i /\ U(i - 1) = i - 1
      BY <2>3
    <3> HIDE DEF g, U
    <3> QED  BY <1>11, <2>2, <3>1
  <2>4. CASE i > n
    <3>1. U(i) = n /\ U(i - 1) = n
      BY <2>4
    <3> HIDE DEF g, U
    <3>2. g[i] = Done(front[n], << 0 >>) /\ g[i - 1] = Done(front[n], << 0 >>)
      BY <1>3, <1>7, <2>2, <3>1
    <3> QED  BY <3>2, PairsEnd
  <2> QED  BY <2>3, <2>4
<1>14. g = [i \in 0 .. N |-> g[i]]
  OBVIOUS
<1>15. g[N] = Done(ps, << 0 >>)
  <2>1. N \in 0 .. N /\ U(N) = n
    BY <1>9
  <2>2. g[N] = Done(front[U(N)], left[U(N)])
    BY <2>1
  <2>3. front[n] = ps
    BY <1>10 DEF Fronts
  <2> HIDE DEF g, U
  <2> QED  BY <1>3, <1>7, <2>1, <2>2, <2>3
<1> HIDE DEF g
<1>16. IsPairRun(g, N, data)
  BY <1>12, <1>13, <1>14 DEF IsPairRun
<1>17. ReadPairs(data) = g[N]
  BY <1>8, <1>16, PairRun
<1> QED  BY <1>1, <1>3, <1>6, <1>15, <1>17

\* What the startup message is, as the pairs of it.
LEMMA Two ==
  ASSUME NEW n \in Nat, n = 2, NEW parts \in [1 .. n -> Octets]
  PROVE  FlattenSeq(parts) = parts[1] \o parts[2]
<1>1. PICK rest \in [0 .. n -> Octets] : rest[0] = FlattenSeq(parts) /\ Leaves(rest, parts, n)
  BY Remainders
<1>2. rest[2] = <<>> /\ rest[1] = parts[2] \o rest[2] /\ rest[0] = parts[1] \o rest[1]
  <2>1. 1 \in 1 .. n /\ 2 \in 1 .. n /\ 1 - 1 = 0 /\ 2 - 1 = 1
    OBVIOUS
  <2> QED  BY <1>1, <2>1 DEF Leaves
<1>3. parts[2] \in Octets
  OBVIOUS
<1>4. parts[2] \o <<>> = parts[2]
  BY <1>3, OctetsConcatEmpty
<1> QED  BY <1>1, <1>2, <1>4

LEMMA Three ==
  ASSUME NEW n \in Nat, n = 3, NEW parts \in [1 .. n -> Octets]
  PROVE  FlattenSeq(parts) = parts[1] \o (parts[2] \o parts[3])
<1>1. PICK rest \in [0 .. n -> Octets] : rest[0] = FlattenSeq(parts) /\ Leaves(rest, parts, n)
  BY Remainders
<1>2. /\ rest[3] = <<>> /\ rest[2] = parts[3] \o rest[3] /\ rest[1] = parts[2] \o rest[2]
      /\ rest[0] = parts[1] \o rest[1]
  <2>1. 1 \in 1 .. n /\ 2 \in 1 .. n /\ 3 \in 1 .. n /\ 1 - 1 = 0 /\ 2 - 1 = 1 /\ 3 - 1 = 2
    OBVIOUS
  <2> QED  BY <1>1, <2>1 DEF Leaves
<1>3. parts[3] \in Octets
  OBVIOUS
<1>4. parts[3] \o <<>> = parts[3]
  BY <1>3, OctetsConcatEmpty
<1> QED  BY <1>1, <1>2, <1>4

Longer(t, s, b, n, S) ==
  /\ t \in [1 .. n + 1 -> S] /\ t[n + 1] = b
  /\ \A i \in 1 .. n : t[i] = s[i]

\* A list with an item appended.
LEMMA OneMore ==
  ASSUME NEW S, NEW n \in Nat, NEW s \in [1 .. n -> S], NEW b \in S
  PROVE  Longer(s \o <<b>>, s, b, n, S)
<1>1. PICK t : t = <<b>>
  OBVIOUS
<1>2. s \in Seq(S) /\ Len(s) = n
  OBVIOUS
<1>3. t \in Seq(S) /\ Len(t) = 1 /\ t[1] = b
  BY <1>1
<1>4. PICK c : c = s \o t
  OBVIOUS
<1>8. /\ c \in Seq(S) /\ Len(c) = n + 1
      /\ \A i \in 1 .. n + 1 : c[i] = IF i <= n THEN s[i] ELSE t[i - n]
  <2>1. s \in Seq(S) /\ t \in Seq(S)
    BY <1>2, <1>3
  <2>2. /\ s \o t \in Seq(S) /\ Len(s \o t) = Len(s) + Len(t)
        /\ \A i \in 1 .. Len(s) + Len(t) : (s \o t)[i] = IF i <= Len(s) THEN s[i] ELSE t[i - Len(s)]
    BY <2>1, ConcatProperties
  <2>3. Len(s) = n /\ Len(t) = 1
    BY <1>2, <1>3
  <2> QED  BY <1>4, <2>2, <2>3
<1>5. /\ c \in Seq(S) /\ Len(c) = n + 1
      /\ \A i \in 1 .. n : c[i] = s[i]
  BY <1>8
<1>6. c[n + 1] = b
  <2>1. n + 1 \in 1 .. n + 1 /\ ~ (n + 1 <= n) /\ n + 1 - n = 1
    OBVIOUS
  <2>2. c[n + 1] = t[n + 1 - n]
    BY <1>8, <2>1
  <2> QED  BY <1>3, <2>1, <2>2
<1>7. c \in [1 .. n + 1 -> S]
  <2>1. c \in Seq(S) /\ Len(c) = n + 1
    BY <1>5
  <2> QED  BY <2>1, LenProperties
<1>9. Longer(c, s, b, n, S)
  BY <1>5, <1>6, <1>7 DEF Longer
<1> QED  BY <1>1, <1>4, <1>9

LEMMA Tuples ==
  ASSUME NEW a, NEW b, NEW c
  PROVE  <<a>> \o <<>> \o <<b>> = <<a, b>> /\ <<a>> \o <<b>> \o <<c>> = <<a, b, c>>
<1>1. PICK T : T = {a, b, c}
  OBVIOUS
<1>12. PICK one \in Nat : one = 1
  OBVIOUS
<1>2. PICK x : x = <<a>>
  OBVIOUS
<1>3. x \in [1 .. one -> T] /\ x[1] = a /\ x \in Seq(T)
  BY <1>1, <1>2, <1>12
<1>4. <<a>> \o <<>> = <<a>>
  BY <1>2, <1>3, ConcatEmptySeq
<1>5. PICK y : y = x \o <<b>>
  OBVIOUS
<1>6. PICK two \in Nat : two = 2
  OBVIOUS
<1>7. y \in [1 .. two -> T] /\ y[1] = a /\ y[2] = b
  <2>1. b \in T
    BY <1>1
  <2>2. Longer(y, x, b, one, T)
    <3>1. Longer(x \o <<b>>, x, b, one, T)
      BY <1>3, <2>1, OneMore
    <3> QED  BY <1>3, <1>5, <3>1
  <2> QED  BY <1>12, <1>3, <1>6, <2>2 DEF Longer
<1>8. y = <<a, b>>
  BY <1>6, <1>7
<1>9. PICK z : z = y \o <<c>>
  OBVIOUS
<1>10. z \in [1 .. 3 -> T] /\ z[1] = a /\ z[2] = b /\ z[3] = c
  <2>1. c \in T
    BY <1>1
  <2>2. Longer(z, y, c, two, T)
    <3>1. Longer(y \o <<c>>, y, c, two, T)
      BY <1>7, <2>1, OneMore
    <3> QED  BY <1>7, <1>9, <3>1
  <2> QED  BY <1>6, <1>7, <2>2 DEF Longer
<1>11. z = <<a, b, c>>
  BY <1>10
<1> QED  BY <1>2, <1>4, <1>5, <1>8, <1>9, <1>11

LEMMA OneLetter ==
  ASSUME NEW x \in Int, x # 0
  PROVE  IsText(<<x>>) /\ Len(<<x>>) = 1
BY DEF IsText, Octets

\* What was joined from the left, behind the header.
Pieces(head, w1, w2, d, w3, w4, end) ==
  /\ head \in Octets /\ w1 \in Octets /\ w2 \in Octets /\ d \in Octets
  /\ w3 \in Octets /\ w4 \in Octets /\ end \in Octets

FromLeft(body, head, w1, w2, d, w3, w4, end) ==
  body = (((((head \o w1) \o w2) \o d) \o w3) \o w4) \o end

\* The startup message, cut behind its version.
LEMMA Behind ==
  ASSUME NEW head, NEW w1, NEW w2, NEW d, NEW w3, NEW w4, NEW end,
         Pieces(head, w1, w2, d, w3, w4, end),
         NEW body, FromLeft(body, head, w1, w2, d, w3, w4, end)
  PROVE  body = head \o ((w1 \o w2) \o (d \o ((w3 \o w4) \o end)))
<1>1. head \in Octets /\ w1 \in Octets /\ w2 \in Octets
  BY DEF Pieces
<1>2. w3 \in Octets /\ w4 \in Octets
  BY DEF Pieces
<1>3. d \in Octets /\ end \in Octets
  BY DEF Pieces
<1>4. PICK a, c : a = w1 \o w2 /\ c = w3 \o w4
  OBVIOUS
<1>5. a \in Octets /\ c \in Octets
  BY <1>1, <1>2, <1>4, OctetsConcat
<1>6. (head \o w1) \o w2 = head \o a
  BY <1>1, <1>4, OctetsRegroup
<1>7. PICK g, e : g = head \o a /\ e = c \o end
  OBVIOUS
<1>8. g \in Octets /\ e \in Octets
  BY <1>1, <1>3, <1>5, <1>7, OctetsConcat
<1>9. PICK h, f : h = g \o d /\ f = d \o e
  OBVIOUS
<1>10. h \in Octets /\ f \in Octets
  BY <1>3, <1>8, <1>9, OctetsConcat
<1>11. (h \o w3) \o w4 = h \o c
  BY <1>2, <1>4, <1>10, OctetsRegroup
<1>12. (h \o c) \o end = h \o e
  <2>1. h \in Octets /\ c \in Octets /\ end \in Octets
    BY <1>3, <1>5, <1>10
  <2>2. (h \o c) \o end = h \o (c \o end)
    BY <2>1, OctetsRegroup
  <2> QED  BY <1>7, <2>2
<1>13. h \o e = g \o f
  <2>1. d \in Octets
    BY <1>3
  <2>2. (g \o d) \o e = g \o (d \o e)
    BY <1>8, <2>1, OctetsRegroup
  <2> QED  BY <1>9, <2>2
<1>14. g \o f = head \o (a \o f)
  <2>1. head \in Octets /\ a \in Octets /\ f \in Octets
    BY <1>1, <1>5, <1>10
  <2>2. (head \o a) \o f = head \o (a \o f)
    BY <2>1, OctetsRegroup
  <2> QED  BY <1>7, <2>2
<1>15. body = (((((head \o w1) \o w2) \o d) \o w3) \o w4) \o end
  BY DEF FromLeft
<1> QED  BY <1>4, <1>6, <1>7, <1>9, <1>11, <1>12, <1>13, <1>14, <1>15

StartupPairs(user, database) ==
  <<<<NameOfUser, user>>>>
    \o (IF database \in {Null, <<>>} THEN <<>> ELSE <<<<NameOfDatabase, database>>>>)
    \o <<<<NameOfEncoding, << 56 >>>>>>

\* The server reads the user, the database if there is one, and the encoding.
LEMMA StartupRead ==
  ASSUME NEW user \in Strings, NEW database \in Strings \cup {Null},
         NEW body, body = StartupBody(user, database)
  PROVE  ReadPairs(SubSeq(body, 5, Len(body))) = Done(StartupPairs(user, database), << 0 >>)
<1> DEFINE none == database \in {Null, <<>>}
<1>1. PICK pu, pd, pe : pu = <<NameOfUser, user>> /\ pd = <<NameOfDatabase, database>>
                        /\ pe = <<NameOfEncoding, << 56 >>>>
  OBVIOUS
<1>2. IsPair(pu) /\ IsPair(pe) /\ (~none => IsPair(pd))
  <2>1. IsText(NameOfUser) /\ Len(NameOfUser) = 1
    BY OneLetter DEF NameOfUser
  <2>2. IsText(NameOfDatabase) /\ Len(NameOfDatabase) = 1
    BY OneLetter DEF NameOfDatabase
  <2>3. IsText(NameOfEncoding) /\ Len(NameOfEncoding) = 1 /\ IsText(<< 56 >>)
    BY OneLetter DEF NameOfEncoding
  <2>4. IsText(user)
    BY StringsAreText
  <2>5. ~none => IsText(database)
    BY StringsAreText
  <2>6. pu[1] = NameOfUser /\ pu[2] = user /\ pu = <<pu[1], pu[2]>>
    BY <1>1
  <2>7. pd[1] = NameOfDatabase /\ pd[2] = database /\ pd = <<pd[1], pd[2]>>
    BY <1>1
  <2>8. pe[1] = NameOfEncoding /\ pe[2] = << 56 >> /\ pe = <<pe[1], pe[2]>>
    BY <1>1
  <2>9. IsPair(pu)
    BY <2>1, <2>4, <2>6 DEF IsPair
  <2>10. IsPair(pe)
    BY <2>3, <2>8 DEF IsPair
  <2>11. ~none => IsPair(pd)
    BY <2>2, <2>5, <2>7 DEF IsPair
  <2> QED  BY <2>9, <2>10, <2>11
<1>3. PICK head, w1, w2, d, w3, w4, end :
        /\ head = Bytes(3, 2) \o Bytes(0, 2) /\ w1 = Terminated(NameOfUser)
        /\ w2 = Terminated(user) /\ w3 = Terminated(NameOfEncoding) /\ w4 = Terminated(<< 56 >>)
        /\ end = Terminated(<<>>)
        /\ d = IF none THEN <<>> ELSE Terminated(NameOfDatabase) \o Terminated(database)
  OBVIOUS
<1>4. WritePair(pu) = w1 \o w2 /\ WritePair(pe) = w3 \o w4 /\ (~none => WritePair(pd) = d)
  BY <1>1, <1>3 DEF WritePair
<1>5. end = << 0 >> /\ end \in Octets
  BY <1>3 DEF Terminated, Octets
<1>6. /\ w1 \in Octets /\ w2 \in Octets /\ w3 \in Octets /\ w4 \in Octets /\ d \in Octets
      /\ head \in Octets /\ Len(head) = 4
  <2>1. IsText(NameOfUser) /\ IsText(NameOfEncoding) /\ IsText(<< 56 >>) /\ IsText(user)
    BY OneLetter, StringsAreText DEF NameOfUser, NameOfEncoding
  <2>2. w1 \in Octets /\ w2 \in Octets /\ w3 \in Octets /\ w4 \in Octets
    BY <1>3, <2>1, TerminatedType
  <2>3. d \in Octets
    <3>1. CASE none
      BY <1>3, <3>1, OctetsConcatEmpty
    <3>2. CASE ~none
      <4>1. WritePair(pd) \in Octets
        BY <1>2, <3>2, PairParts
      <4> QED  BY <1>4, <3>2, <4>1
    <3> QED  BY <3>1, <3>2
  <2>4. head \in Octets /\ Len(head) = 4
    <3>1. PICK two \in Nat, three \in Int, zero \in Int : two = 2 /\ three = 3 /\ zero = 0
      OBVIOUS
    <3>2. PICK p, q : p = Bytes(three, two) /\ q = Bytes(zero, two)
      OBVIOUS
    <3>4. p \in Octets /\ q \in Octets /\ Len(p) = 2 /\ Len(q) = 2
      BY <3>1, <3>2, BytesType
    <3>5. p \o q \in Octets /\ Len(p \o q) = Len(p) + Len(q)
      BY <3>4, OctetsConcat, OctetsConcatLen
    <3>3. p \o q \in Octets /\ Len(p \o q) = 4
      BY <3>4, <3>5
    <3> QED  BY <1>3, <3>1, <3>2, <3>3
  <2> QED  BY <2>2, <2>3, <2>4
<1>7. PICK rest : rest = (w1 \o w2) \o (d \o ((w3 \o w4) \o end))
  OBVIOUS
<1>8. body = head \o rest
  <2>1. body = (((((head \o w1) \o w2) \o d) \o w3) \o w4) \o end
    <3>1. none <=> database \in {Null, <<>>}
      OBVIOUS
    <3> HIDE DEF none
    <3> QED  BY <1>3, <3>1 DEF StartupBody
  <2> HIDE DEF none
  <2>2. Pieces(head, w1, w2, d, w3, w4, end)
    BY <1>5, <1>6 DEF Pieces
  <2>3. FromLeft(body, head, w1, w2, d, w3, w4, end)
    BY <2>1 DEF FromLeft
  <2>4. body = head \o ((w1 \o w2) \o (d \o ((w3 \o w4) \o end)))
    BY <2>2, <2>3, Behind
  <2> QED  BY <1>7, <2>4
<1>9. PICK u, e : u = w1 \o w2 /\ e = w3 \o w4
  OBVIOUS
<1>10. u \in Octets /\ e \in Octets
  BY <1>6, <1>9, OctetsConcat
<1>11. PICK f : f = e \o end
  OBVIOUS
<1>12. f \in Octets /\ d \o f \in Octets /\ u \o (d \o f) \in Octets
  <2>1. f \in Octets
    BY <1>5, <1>10, <1>11, OctetsConcat
  <2>2. d \o f \in Octets
    BY <1>6, <2>1, OctetsConcat
  <2> QED  BY <1>10, <2>1, <2>2, OctetsConcat
<1>13. rest \in Octets /\ rest = u \o (d \o f)
  BY <1>7, <1>9, <1>11, <1>12
<1>14. SubSeq(body, 5, Len(body)) = rest
  <2>1. SubSeq(head \o rest, Len(head) + 1, Len(head \o rest)) = rest
    BY <1>6, <1>13, Parted
  <2> QED  BY <1>6, <1>8, <2>1
<1>15. CASE none
  <2>1. PICK ps : ps = <<pu, pe>>
    OBVIOUS
  <2>0. PICK n \in Nat : n = 2
    OBVIOUS
  <2>2. PICK S : n = 2 /\ S = {pu, pe}
    BY <2>0
  <2>3. ps \in [1 .. n -> S] /\ ps[1] = pu /\ ps[2] = pe
    BY <2>1, <2>2
  <2>4. ArePairs(ps, n)
    <3>1. \A i \in 1 .. n : i = 1 \/ i = 2
      BY <2>2
    <3> QED  BY <1>2, <2>3, <3>1 DEF ArePairs
  <2>5. PICK parts : parts = [i \in 1 .. n |-> WritePair(ps[i])]
    OBVIOUS
  <2>6. parts[1] = u /\ parts[2] = e /\ parts \in [1 .. n -> Octets]
    <3>1. \A i \in 1 .. n : WritePair(ps[i]) \in Octets
      BY <2>4, PairParts DEF ArePairs
    <3> QED  BY <1>4, <1>9, <2>2, <2>3, <2>5, <3>1
  <2>7. FlattenSeq(parts) = u \o e
    BY <2>2, <2>6, Two
  <2>8. FlattenSeq(parts) \o end = rest
    <3>1. (u \o e) \o end = u \o (e \o end)
      BY <1>5, <1>10, OctetsRegroup
    <3>2. d \o f = f
      BY <1>3, <1>12, <1>15, OctetsConcatEmpty
    <3> QED  BY <1>11, <1>13, <2>7, <3>1, <3>2
  <2>9. ReadPairs(FlattenSeq(parts) \o << 0 >>) = Done(ps, << 0 >>)
    BY <2>3, <2>4, <2>5, PairsRead
  <2>10. StartupPairs(user, database) = ps
    <3>1. StartupPairs(user, database) = <<pu>> \o <<>> \o <<pe>>
      BY <1>1, <1>15 DEF StartupPairs
    <3>2. <<pu>> \o <<>> \o <<pe>> = <<pu, pe>>
      BY Tuples
    <3> QED  BY <2>1, <3>1, <3>2
  <2> QED  BY <1>5, <1>14, <2>8, <2>9, <2>10
<1>16. CASE ~none
  <2>1. PICK ps : ps = <<pu, pd, pe>>
    OBVIOUS
  <2>0. PICK n \in Nat : n = 3
    OBVIOUS
  <2>2. PICK S : n = 3 /\ S = {pu, pd, pe}
    BY <2>0
  <2>3. ps \in [1 .. n -> S] /\ ps[1] = pu /\ ps[2] = pd /\ ps[3] = pe
    <3>1. ps \in Seq(S) /\ Len(ps) = 3 /\ ps[1] = pu /\ ps[2] = pd /\ ps[3] = pe
      BY <2>1, <2>2
    <3>2. ps \in [1 .. n -> S]
      BY <2>2, <3>1, LenProperties
    <3> QED  BY <3>1, <3>2
  <2>4. ArePairs(ps, n)
    <3>1. \A i \in 1 .. n : i = 1 \/ i = 2 \/ i = 3
      BY <2>2
    <3> QED  BY <1>2, <1>16, <2>3, <3>1 DEF ArePairs
  <2>5. PICK parts : parts = [i \in 1 .. n |-> WritePair(ps[i])]
    OBVIOUS
  <2>6. parts[1] = u /\ parts[2] = d /\ parts[3] = e /\ parts \in [1 .. n -> Octets]
    <3>1. \A i \in 1 .. n : WritePair(ps[i]) \in Octets
      BY <2>4, PairParts DEF ArePairs
    <3> QED  BY <1>4, <1>9, <1>16, <2>2, <2>3, <2>5, <3>1
  <2>7. FlattenSeq(parts) = u \o (d \o e)
    BY <2>2, <2>6, Three
  <2>8. FlattenSeq(parts) \o end = rest
    <3>1. PICK p : p = d \o e
      OBVIOUS
    <3>2. p \in Octets
      BY <1>6, <1>10, <3>1, OctetsConcat
    <3>3. (u \o p) \o end = u \o (p \o end)
      BY <1>5, <1>10, <3>2, OctetsRegroup
    <3>4. (d \o e) \o end = d \o (e \o end)
      <4>1. d \in Octets /\ e \in Octets /\ end \in Octets
        BY <1>5, <1>6, <1>10
      <4> QED  BY <4>1, OctetsRegroup
    <3> QED  BY <1>11, <1>13, <2>7, <3>1, <3>3, <3>4
  <2>9. ReadPairs(FlattenSeq(parts) \o << 0 >>) = Done(ps, << 0 >>)
    BY <2>3, <2>4, <2>5, PairsRead
  <2>10. StartupPairs(user, database) = ps
    <3>1. StartupPairs(user, database) = <<pu>> \o <<pd>> \o <<pe>>
      BY <1>1, <1>16 DEF StartupPairs
    <3>2. <<pu>> \o <<pd>> \o <<pe>> = <<pu, pd, pe>>
      BY Tuples
    <3> QED  BY <2>1, <3>1, <3>2
  <2> QED  BY <1>5, <1>14, <2>8, <2>9, <2>10
<1> QED  BY <1>15, <1>16

(***************************************************************************)
(* Requests of several fields.                                             *)
(***************************************************************************)
Precedes(data, front, rest) ==
  data = front \o rest /\ front \in Octets /\ rest \in Octets

\* A string in front is read, and the rest is left.
LEMMA StringNext ==
  ASSUME NEW s, IsText(s), NEW data, NEW rest, Precedes(data, Terminated(s), rest),
         NEW r, r = ReadString(data)
  PROVE  r.ok /\ r.value = s /\ r.rest = rest
<1>1. PICK t : t = Terminated(s)
  OBVIOUS
<1>2. rest \in Octets /\ data = t \o rest
  BY <1>1 DEF Precedes
<1>3. ReadString(Terminated(s) \o rest) = Done(s, rest)
  BY <1>2, StringRead
<1>4. r = Done(s, rest)
  BY <1>1, <1>2, <1>3
<1> QED  BY <1>4, DoneParts

LEMMA Final ==
  ASSUME NEW a \in Octets
  PROVE  Precedes(a, a, <<>>)
BY OctetsConcatEmpty DEF Precedes

\* What is written from the left is read from the left.
Pieces4(data, a, b, c, d) ==
  /\ data = ((a \o b) \o c) \o d
  /\ a \in Octets /\ b \in Octets /\ c \in Octets /\ d \in Octets

\* What is written in one go can be read piece by piece.
LEMMA InTurn ==
  ASSUME NEW data, NEW a, NEW b, NEW c, NEW d, Pieces4(data, a, b, c, d)
  PROVE  \E x, y : Precedes(data, a, x) /\ Precedes(x, b, y) /\ Precedes(y, c, d)
<1>1. a \in Octets /\ b \in Octets
  BY DEF Pieces4
<1>2. c \in Octets /\ d \in Octets
  BY DEF Pieces4
<1>3. PICK y : y = c \o d
  OBVIOUS
<1>4. y \in Octets
  BY <1>2, <1>3, OctetsConcat
<1>5. PICK x : x = b \o y
  OBVIOUS
<1>6. x \in Octets
  BY <1>1, <1>4, <1>5, OctetsConcat
<1>7. PICK g : g = a \o b
  OBVIOUS
<1>8. g \in Octets
  BY <1>1, <1>7, OctetsConcat
<1>9. (g \o c) \o d = g \o y
  BY <1>2, <1>3, <1>8, OctetsRegroup
<1>10. (a \o b) \o y = a \o x
  BY <1>1, <1>4, <1>5, OctetsRegroup
<1>11. data = a \o x
  <2>1. data = ((a \o b) \o c) \o d
    BY DEF Pieces4
  <2> QED  BY <1>7, <1>9, <1>10, <2>1
<1>12. Precedes(data, a, x)
  BY <1>1, <1>6, <1>11 DEF Precedes
<1>13. Precedes(x, b, y)
  BY <1>1, <1>4, <1>5 DEF Precedes
<1>14. Precedes(y, c, d)
  BY <1>2, <1>3 DEF Precedes
<1> QED  BY <1>12, <1>13, <1>14

\* What is written for these requests, and what is read of it.
IsDescribe(data, target, name) == data = <<target>> \o Terminated(name)
DescribedIn(data, target, name) == Head(data) = target /\ ReadString(Tail(data)).value = name

IsExecute(data, portal, rows) == data = Terminated(portal) \o Bytes(rows, 4)
ExecutedIn(data, portal, rows) ==
  ReadString(data).value = portal /\ ReadNumber(4, TRUE, ReadString(data).rest).value = rows

IsParse(data, name, query, listed) ==
  data = Terminated(name) \o Terminated(query) \o Bytes(Len(listed), 2)
           \o FlattenSeq([i \in DOMAIN listed |-> Bytes(listed[i], 4)])
ListedIn(data, name, query, listed) ==
  LET n == ReadString(data)
      q == ReadString(n.rest)
      c == ReadNumber(2, FALSE, q.rest)
      read == ReadList(ReadOID, c.value, c.rest)
  IN read.ok /\ n.value = name /\ q.value = query /\ read.value = listed

\* The server reads the target and the name of a Describe.
LEMMA DescribeRead ==
  ASSUME NEW target \in {80, 83}, NEW name \in Strings, NEW data, IsDescribe(data, target, name)
  PROVE  DescribedIn(data, target, name)
<1>1. PICK t : t = Terminated(name)
  OBVIOUS
<1>2. IsText(name) /\ t \in Octets /\ target \in Int
  BY <1>1, StringsAreText, TerminatedType
<1>3. Head(data) = target /\ Tail(data) = t
  <2>1. data = <<target>> \o t
    BY <1>1 DEF IsDescribe
  <2> QED  BY <1>2, <2>1, Prefixed
<1>4. Precedes(t, Terminated(name), <<>>)
  BY <1>1, <1>2, Final
<1>5. PICK r : r = ReadString(t)
  OBVIOUS
<1>6. r.value = name
  BY <1>2, <1>4, <1>5, StringNext
<1> QED  BY <1>3, <1>5, <1>6 DEF DescribedIn

\* The server reads the portal and the number of rows of an Execute.
LEMMA ExecuteRead ==
  ASSUME NEW portal \in Strings, NEW rows \in Shorts \cup Longs,
         NEW data, IsExecute(data, portal, rows)
  PROVE  ExecutedIn(data, portal, rows)
<1>1. \A x \in Shorts : x \in Nat /\ Storable(x, 4, TRUE)
  BY Bounds
<1>2. \A x \in Longs : x \in Nat /\ Storable(x, 4, TRUE)
  BY Bounds
<1>3. PICK s, b : s = Terminated(portal) /\ b = Bytes(rows, 4)
  OBVIOUS
<1>4. Storable(rows, 4, TRUE) /\ b \in Octets
  <2>1. PICK w \in Nat : w = 4
    OBVIOUS
  <2>2. rows \in Int
    <3>1. \A x \in Shorts : x \in Nat
      BY Bounds
    <3>2. \A x \in Longs : x \in Nat
      BY Bounds
    <3> QED  BY <3>1, <3>2
  <2>3. Bytes(rows, w) \in Octets
    BY <2>2, BytesType
  <2>4. b \in Octets
    BY <1>3, <2>1, <2>3
  <2> QED  BY <1>1, <1>2, <2>4
<1>5. IsText(portal) /\ s \in Octets
  BY <1>3, StringsAreText, TerminatedType
<1>6. Precedes(data, Terminated(portal), b)
  BY <1>3, <1>4, <1>5 DEF Precedes, IsExecute
<1>7. PICK r : r = ReadString(data)
  OBVIOUS
<1>8. r.value = portal /\ r.rest = b
  BY <1>5, <1>6, <1>7, StringNext
<1>9. PICK e : e = <<>>
  OBVIOUS
<1>10. e \in Octets /\ b \o e = b
  BY <1>4, <1>9, OctetsConcatEmpty
<1>11. ReadNumber(4, TRUE, Bytes(rows, 4) \o e) = Done(rows, e)
  BY <1>4, <1>10, NumberRead
<1>12. PICK q : q = ReadNumber(4, TRUE, b)
  OBVIOUS
<1>13. q = Done(rows, e)
  BY <1>3, <1>10, <1>11, <1>12
<1>14. q.value = rows
  BY <1>13, DoneParts
<1> QED  BY <1>7, <1>8, <1>12, <1>14 DEF ExecutedIn

\* The server reads the name, the query and the types of a Parse.
LEMMA ParseRead ==
  ASSUME NEW name \in Strings, NEW query \in Strings, NEW listed \in Lists(Longs \cup {0}),
         NEW data, IsParse(data, name, query, listed)
  PROVE  ListedIn(data, name, query, listed)
<1>1. PICK m \in Nat : m = Len(listed)
  BY ListsAreBounded
<1>2. listed \in [1 .. m -> (Longs \cup {0})] /\ DOMAIN listed = 1 .. m /\ Storable(m, 2, FALSE)
  BY <1>1, ListsAreBounded
<1>3. PICK parts : parts = [i \in 1 .. m |-> Bytes(listed[i], 4)]
  OBVIOUS
<1>4. parts \in [1 .. m -> Octets]
  BY <1>2, <1>3, OIDType
<1>5. PICK flat : flat = FlattenSeq(parts)
  OBVIOUS
<1>6. flat \in Octets /\ flat \o <<>> = flat
  <2>1. flat \in Octets
    BY <1>4, <1>5, FlatType
  <2> QED  BY <2>1, OctetsConcatEmpty
<1>8. PICK a, b, d : a = Terminated(name) /\ b = Terminated(query) /\ d = Bytes(m, 2)
  OBVIOUS
<1>9. IsText(name) /\ IsText(query)
  BY StringsAreText
<1>10. a \in Octets /\ b \in Octets /\ d \in Octets
  <2>1. Bytes(m, 2) \in Octets
    <3>1. PICK w \in Nat : w = 2
      OBVIOUS
    <3>2. m \in Int
      OBVIOUS
    <3>3. Bytes(m, w) \in Octets
      BY <3>2, BytesType
    <3> QED  BY <3>1, <3>3
  <2> QED  BY <1>8, <1>9, <2>1, TerminatedType
<1>11. Pieces4(data, a, b, d, flat)
  <2>1. data = ((a \o b) \o d) \o flat
    BY <1>1, <1>2, <1>3, <1>5, <1>8 DEF IsParse
  <2> QED  BY <1>6, <1>10, <2>1 DEF Pieces4
<1>12. PICK x, y : Precedes(data, a, x) /\ Precedes(x, b, y) /\ Precedes(y, d, flat)
  BY <1>11, InTurn
<1>13. PICK n : n = ReadString(data)
  OBVIOUS
<1>14. n.value = name /\ n.rest = x
  <2>1. Precedes(data, Terminated(name), x)
    BY <1>8, <1>12
  <2> QED  BY <1>9, <1>13, <2>1, StringNext
<1>15. PICK q : q = ReadString(x)
  OBVIOUS
<1>16. q.value = query /\ q.rest = y
  <2>1. Precedes(x, Terminated(query), y)
    BY <1>8, <1>12
  <2> QED  BY <1>9, <1>15, <2>1, StringNext
<1>17. PICK c : c = ReadNumber(2, FALSE, y)
  OBVIOUS
<1>18. c.value = m /\ c.rest = flat
  <2>1. ReadNumber(2, FALSE, Bytes(m, 2) \o flat) = Done(m, flat)
    BY <1>2, <1>6, NumberRead
  <2>2. y = Bytes(m, 2) \o flat
    BY <1>8, <1>12 DEF Precedes
  <2>3. c = Done(m, flat)
    BY <1>17, <2>1, <2>2
  <2> QED  BY <2>3, DoneParts
<1>19. PICK read : read = ReadList(ReadOID, m, flat)
  OBVIOUS
<1>20. read.ok /\ read.value = listed
  <2>1. <<>> \in Octets
    BY OctetsConcatEmpty
  <2>2. ReadList(ReadOID, m, FlattenSeq([i \in 1 .. m |-> Bytes(listed[i], 4)]) \o <<>>) = Done(listed, <<>>)
    BY <1>2, <2>1, OIDsRead
  <2>3. read = Done(listed, <<>>)
    BY <1>3, <1>5, <1>6, <1>19, <2>2
  <2> QED  BY <2>3, DoneParts
<1> QED  BY <1>13, <1>14, <1>15, <1>16, <1>17, <1>18, <1>19, <1>20 DEF ListedIn

(***************************************************************************)
(* Parameters.                                                             *)
(***************************************************************************)
LEMMA ParameterType ==
  ASSUME NEW p \in Parameters
  PROVE  p.binary \in BOOLEAN /\ p.value \in Columns /\ p = [binary |-> p.binary, value |-> p.value]
BY DEF Parameters, Columns

\* The format that is announced is the one that is read.
LEMMA FormatRead ==
  ASSUME NEW p \in Parameters, NEW m, m = Mode(p.binary)
  PROVE  [binary |-> m = 1, value |-> p.value] = p
<1>1. PICK b, v : b = p.binary /\ v = p.value
  OBVIOUS
<1>2. b \in BOOLEAN /\ p = [binary |-> b, value |-> v]
  BY <1>1, ParameterType
<1>3. CASE b = TRUE
  <2>1. m = 1
    BY <1>1, <1>3 DEF Mode
  <2>2. p = [binary |-> TRUE, value |-> v]
    BY <1>2, <1>3
  <2>3. [binary |-> m = 1, value |-> p.value] = [binary |-> TRUE, value |-> v]
    BY <1>1, <2>1
  <2> QED  BY <2>2, <2>3
<1>4. CASE b = FALSE
  <2>1. ~ (m = 1)
    BY <1>1, <1>4 DEF Mode
  <2>2. p = [binary |-> FALSE, value |-> v]
    BY <1>2, <1>4
  <2>3. [binary |-> m = 1, value |-> p.value] = [binary |-> FALSE, value |-> v]
    BY <1>1, <2>1
  <2> QED  BY <2>2, <2>3
<1> QED  BY <1>2, <1>3, <1>4

\* The values of parameters are columns of a row.
LEMMA ValuesListed ==
  ASSUME NEW ps \in Lists(Parameters), NEW n \in Nat, n = Len(ps)
  PROVE  [i \in 1 .. n |-> ps[i].value] \in Lists(Columns)
<1>1. ps \in [1 .. n -> Parameters] /\ n <= MaxItems /\ MaxItems \in Nat
  BY ListsAreBounded, Bounds
<1>2. \A i \in 1 .. n : ps[i].value \in Columns
  BY <1>1, ParameterType
<1>3. PICK vs : vs = [i \in 1 .. n |-> ps[i].value]
  OBVIOUS
<1>4. vs \in [1 .. n -> Columns]
  BY <1>2, <1>3
<1>5. n \in 0 .. MaxItems
  BY <1>1
<1>6. vs \in Lists(Columns)
  BY <1>4, <1>5 DEF Lists, BoundedSeq, SeqOf
<1> QED  BY <1>3, <1>6

\* Every parameter is read with its own format and its own value.
LEMMA ParametersRead ==
  ASSUME NEW ps \in Lists(Parameters), NEW tail \in Octets
  PROVE  /\ WriteParameters(ps) \in Octets
         /\ ReadParameters(WriteParameters(ps) \o tail) = Done(ps, tail)
<1>1. PICK n \in Nat : n = Len(ps)
  BY ListsAreBounded
<1>2. ps \in [1 .. n -> Parameters] /\ DOMAIN ps = 1 .. n /\ Storable(n, 2, FALSE)
  BY <1>1, ListsAreBounded
<1>3. PICK bs : bs = [i \in 1 .. n |-> ps[i].binary]
  OBVIOUS
<1>4. bs \in [1 .. n -> BOOLEAN]
  <2>1. \A i \in 1 .. n : ps[i].binary \in BOOLEAN
    BY <1>2, ParameterType
  <2> QED  BY <1>3, <2>1
<1>5. PICK parts : parts = [i \in 1 .. n |-> Bytes(Mode(bs[i]), 2)]
  OBVIOUS
<1>6. parts \in [1 .. n -> Octets]
  <2>1. \A i \in 1 .. n : bs[i] \in BOOLEAN
    BY <1>4
  <2>2. \A i \in 1 .. n : Bytes(Mode(bs[i]), 2) \in Octets
    BY <2>1, ModeType
  <2> QED  BY <1>5, <2>2
<1>7. PICK a, b, vs : a = Bytes(n, 2) /\ b = FlattenSeq(parts) /\ vs = [i \in 1 .. n |-> ps[i].value]
  OBVIOUS
<1>8. PICK c : c = WriteRow(vs)
  OBVIOUS
<1>9. vs \in Lists(Columns) /\ Len(vs) = n
  <2>1. vs \in Lists(Columns)
    BY <1>1, <1>7, ValuesListed
  <2>2. Len(vs) = n
    BY <1>7
  <2> QED  BY <2>1, <2>2
<1>10. a \in Octets /\ b \in Octets /\ c \in Octets
  <2>1. Bytes(n, 2) \in Octets
    <3>1. PICK w \in Nat : w = 2
      OBVIOUS
    <3>2. n \in Int
      OBVIOUS
    <3>3. Bytes(n, w) \in Octets
      BY <3>2, BytesType
    <3> QED  BY <3>1, <3>3
  <2>2. b \in Octets
    BY <1>6, <1>7, FlatType
  <2>3. c \in Octets
    BY <1>8, <1>9, RowRead
  <2> QED  BY <1>7, <2>1, <2>2, <2>3
<1>11. WriteParameters(ps) = (a \o b) \o c
  <2>1. parts = [i \in DOMAIN ps |-> Bytes(Mode(ps[i].binary), 2)]
    BY <1>2, <1>3, <1>5
  <2>2. vs = [i \in DOMAIN ps |-> ps[i].value]
    BY <1>2, <1>7
  <2> QED  BY <1>1, <1>7, <1>8, <2>1, <2>2 DEF WriteParameters
<1>12. WriteParameters(ps) \in Octets
  <2>1. PICK g : g = a \o b
    OBVIOUS
  <2>2. g \in Octets
    BY <1>10, <2>1, OctetsConcat
  <2>3. g \o c \in Octets
    BY <1>10, <2>2, OctetsConcat
  <2> QED  BY <1>11, <2>1, <2>3
<1>13. PICK data : data = WriteParameters(ps) \o tail
  OBVIOUS
<1>14. Pieces4(data, a, b, c, tail)
  BY <1>10, <1>11, <1>13 DEF Pieces4
<1>15. PICK x, y : Precedes(data, a, x) /\ Precedes(x, b, y) /\ Precedes(y, c, tail)
  BY <1>14, InTurn
<1>16. PICK count : count = ReadNumber(2, FALSE, data)
  OBVIOUS
<1>17. count.ok /\ count.value = n /\ count.rest = x
  <2>1. x \in Octets /\ data = Bytes(n, 2) \o x
    BY <1>7, <1>15 DEF Precedes
  <2>2. ReadNumber(2, FALSE, Bytes(n, 2) \o x) = Done(n, x)
    BY <1>2, <2>1, NumberRead
  <2>3. count = Done(n, x)
    BY <1>16, <2>1, <2>2
  <2> QED  BY <2>3, DoneParts
<1>18. PICK formats : formats = ReadList(ReadMode, n, x)
  OBVIOUS
<1>19. PICK ms : ms = [i \in 1 .. n |-> Mode(bs[i])]
  OBVIOUS
<1>20. formats.ok /\ formats.value = ms /\ formats.rest = y
  <2>1. y \in Octets /\ x = b \o y
    BY <1>15 DEF Precedes
  <2>2. ReadList(ReadMode, n, FlattenSeq([i \in 1 .. n |-> Bytes(Mode(bs[i]), 2)]) \o y) = Done(ms, y)
    BY <1>4, <1>19, <2>1, ModesRead
  <2>3. formats = Done(ms, y)
    BY <1>5, <1>7, <1>18, <2>1, <2>2
  <2> QED  BY <2>3, DoneParts
<1>21. PICK values : values = ReadRow(y)
  OBVIOUS
<1>22. values.ok /\ values.value = vs /\ values.rest = tail
  <2>1. y = c \o tail
    BY <1>15 DEF Precedes
  <2>2. ReadRow(WriteRow(vs) \o tail) = Done(vs, tail)
    BY <1>9, RowRead
  <2>3. values = Done(vs, tail)
    BY <1>8, <1>21, <2>1, <2>2
  <2> QED  BY <2>3, DoneParts
<1>23. PICK read : read = [i \in 1 .. n |-> [binary |-> ms[i] = 1, value |-> vs[i]]]
  OBVIOUS
<1>24. ReadParameters(data) = Done(read, tail)
  BY <1>9, <1>16, <1>17, <1>18, <1>20, <1>21, <1>22, <1>23 DEF ReadParameters
<1>25. read = ps
  <2>1. ASSUME NEW i \in 1 .. n
        PROVE  read[i] = ps[i]
    <3>1. PICK p, m : p = ps[i] /\ m = ms[i]
      OBVIOUS
    <3>2. p \in Parameters
      BY <1>2, <3>1
    <3>3. m = Mode(p.binary) /\ vs[i] = p.value
      BY <1>3, <1>7, <1>19, <3>1
    <3>4. [binary |-> m = 1, value |-> p.value] = p
      BY <3>2, <3>3, FormatRead
    <3>5. read[i] = [binary |-> m = 1, value |-> p.value]
      BY <1>23, <3>1, <3>3
    <3> QED  BY <3>1, <3>4, <3>5
  <2>2. read = [i \in 1 .. n |-> read[i]]
    BY <1>23
  <2>3. ps = [i \in 1 .. n |-> ps[i]]
    BY <1>2
  <2> QED  BY <2>1, <2>2, <2>3
<1> QED  BY <1>12, <1>13, <1>24, <1>25

LEMMA TwoBytes ==
  ASSUME NEW n \in Nat, n < 256
  PROVE  Bytes(n, 2) = <<0, n>>
<1>1. PICK base \in Nat, w \in Nat : base = 256 /\ w = 2
  OBVIOUS
<1>2. base > 1 /\ n < base /\ n \in Int
  BY <1>1
<1>3. PICK q : IsQuotients(q, n, w, base)
  BY <1>2, Quotients
<1>4. BigEndian(n, w, base) = [i \in 1 .. w |-> q[w - i] % base]
  BY <1>2, <1>3, BigEndianDigits
<1>5. q[0] = n /\ q[1] = n \div base
  <2>1. 1 \in 1 .. w /\ 1 - 1 = 0
    BY <1>1
  <2> QED  BY <1>3, <2>1 DEF IsQuotients
<1>6. n % base = n /\ (n \div base) % base = 0
  BY <1>1, <1>2
<1>7. [i \in 1 .. w |-> q[w - i] % base] = <<0, n>>
  BY <1>1, <1>5, <1>6
<1> QED  BY <1>1, <1>4, <1>7 DEF Bytes

LEMMA ResultFormat ==
  ASSUME NEW m \in Int, NEW d, d = <<0, 1>>, NEW e, e = <<0, m>>
  PROVE  d \o e = <<0, 1, 0, m>>
<1>1. d \in Octets /\ e \in Octets /\ Len(d) = 2 /\ Len(e) = 2
  BY DEF Octets
<1>2. PICK r : r = d \o e
  OBVIOUS
<1>3. /\ Len(r) = Len(d) + Len(e)
      /\ \A i \in 1 .. Len(d) : r[i] = d[i]
      /\ \A i \in 1 .. Len(e) : r[Len(d) + i] = e[i]
  BY <1>1, <1>2, OctetsConcatLen
<1>4. r \in Octets
  BY <1>1, <1>2, OctetsConcat
<1>5. r[1] = d[1] /\ r[2] = d[2] /\ r[3] = e[1] /\ r[4] = e[2]
  <2>1. \A i \in 1 .. 2 : r[i] = d[i]
    BY <1>1, <1>3
  <2>2. \A i \in 1 .. 2 : r[2 + i] = e[i]
    BY <1>1, <1>3
  <2>3. r[2 + 1] = e[1] /\ r[2 + 2] = e[2]
    BY <2>2
  <2> QED  BY <2>1, <2>3
<1>6. PICK t : t = <<0, 1, 0, m>>
  OBVIOUS
<1>7. t \in Seq(Int) /\ Len(t) = 4 /\ t[1] = 0 /\ t[2] = 1 /\ t[3] = 0 /\ t[4] = m
  BY <1>6
<1>8. d[1] = 0 /\ d[2] = 1 /\ e[1] = 0 /\ e[2] = m
  OBVIOUS
<1>9. \A i \in 1 .. Len(r) : r[i] = t[i]
  BY <1>1, <1>3, <1>5, <1>7, <1>8
<1>10. r = t
  <2>1. r \in Seq(Int) /\ Len(r) = 4
    BY <1>1, <1>3, <1>4 DEF Octets
  <2> QED  BY <1>7, <1>9, <2>1, SeqEqual
<1> QED  BY <1>2, <1>6, <1>10

BoundValues(data, statement, ps, binary) ==
  LET portal     == ReadString(data)
      named      == ReadString(portal.rest)
      parameters == ReadParameters(named.rest)
  IN /\ parameters.ok /\ named.value = statement /\ parameters.value = ps
     /\ (parameters.rest = <<0, 1, 0, 1>>) <=> binary

\* The server reads the statement, the parameters and the format of the results of a Bind.
LEMMA BindRead ==
  ASSUME NEW statement \in Strings, NEW ps \in Lists(Parameters), NEW binary \in BOOLEAN,
         NEW data, data = Terminated(<<>>) \o Terminated(statement) \o WriteParameters(ps)
                            \o Bytes(1, 2) \o Bytes(Mode(binary), 2)
  PROVE  BoundValues(data, statement, ps, binary)
<1>1. PICK a, b, c, d, e : /\ a = Terminated(<<>>) /\ b = Terminated(statement)
                           /\ c = WriteParameters(ps) /\ d = Bytes(1, 2) /\ e = Bytes(Mode(binary), 2)
  OBVIOUS
<1>2. d = <<0, 1>> /\ e = <<0, Mode(binary)>> /\ Mode(binary) \in {0, 1}
  <2>1. PICK m \in Nat : m = Mode(binary) /\ m \in {0, 1}
    BY DEF Mode
  <2>2. Bytes(m, 2) = <<0, m>>
    BY <2>1, TwoBytes
  <2>3. Bytes(1, 2) = <<0, 1>>
    <3>1. PICK o \in Nat : o = 1
      OBVIOUS
    <3>2. Bytes(o, 2) = <<0, o>>
      BY <3>1, TwoBytes
    <3> QED  BY <3>1, <3>2
  <2> QED  BY <1>1, <2>1, <2>2, <2>3
<1>3. PICK tail : tail = d \o e
  OBVIOUS
<1>4. tail = <<0, 1, 0, Mode(binary)>>
  <2>1. PICK m : m = Mode(binary)
    OBVIOUS
  <2>2. d = <<0, 1>> /\ e = <<0, m>> /\ m \in Int
    BY <1>2, <2>1
  <2> QED  BY <1>3, <2>1, <2>2, ResultFormat
<1>5. (tail = <<0, 1, 0, 1>>) <=> binary
  <2>1. (tail = <<0, 1, 0, 1>>) <=> Mode(binary) = 1
    BY <1>4
  <2> QED  BY <2>1 DEF Mode
<1>6. IsText(<<>>) /\ IsText(statement)
  BY StringsAreText, OctetsConcatEmpty DEF IsText
<1>7. a \in Octets /\ b \in Octets
  BY <1>1, <1>6, TerminatedType
<1>8. c \in Octets
  <2>1. <<>> \in Octets
    BY OctetsConcatEmpty
  <2> QED  BY <1>1, <2>1, ParametersRead
<1>9. d \in Octets /\ e \in Octets
  BY <1>2 DEF Octets
<1>10. tail \in Octets
  BY <1>3, <1>9, OctetsConcat
<1>11. Pieces4(data, a, b, c, tail)
  <2>1. PICK g : g = (a \o b) \o c
    OBVIOUS
  <2>2. g \in Octets
    <3>1. PICK f : f = a \o b
      OBVIOUS
    <3>2. f \in Octets
      BY <1>7, <3>1, OctetsConcat
    <3> QED  BY <1>8, <2>1, <3>1, <3>2, OctetsConcat
  <2>3. (g \o d) \o e = g \o tail
    BY <1>3, <1>9, <2>2, OctetsRegroup
  <2>4. data = (g \o d) \o e
    BY <1>1, <2>1
  <2> QED  BY <1>7, <1>8, <1>10, <2>1, <2>3, <2>4 DEF Pieces4
<1>12. PICK x, y : Precedes(data, a, x) /\ Precedes(x, b, y) /\ Precedes(y, c, tail)
  BY <1>11, InTurn
<1>13. PICK portal : portal = ReadString(data)
  OBVIOUS
<1>14. portal.rest = x
  <2>1. PICK z : z = <<>>
    OBVIOUS
  <2>2. IsText(z) /\ Precedes(data, Terminated(z), x)
    BY <1>1, <1>6, <1>12, <2>1
  <2> QED  BY <1>13, <2>2, StringNext
<1>15. PICK named : named = ReadString(x)
  OBVIOUS
<1>16. named.value = statement /\ named.rest = y
  <2>1. Precedes(x, Terminated(statement), y)
    BY <1>1, <1>12
  <2> QED  BY <1>6, <1>15, <2>1, StringNext
<1>17. PICK parameters : parameters = ReadParameters(y)
  OBVIOUS
<1>18. parameters.ok /\ parameters.value = ps /\ parameters.rest = tail
  <2>1. y = c \o tail
    BY <1>12 DEF Precedes
  <2>2. ReadParameters(WriteParameters(ps) \o tail) = Done(ps, tail)
    BY <1>10, ParametersRead
  <2>3. parameters = Done(ps, tail)
    BY <1>1, <1>17, <2>1, <2>2
  <2> QED  BY <2>3, DoneParts
<1> QED  BY <1>5, <1>13, <1>14, <1>15, <1>16, <1>17, <1>18 DEF BoundValues

(***************************************************************************)
(* The row counts of results.                                              *)
(***************************************************************************)
LEMMA TagShape ==
  ASSUME NEW command \in Kinds, NEW n \in Int, NEW tag, tag = Tag(command, n)
  PROVE  /\ ~IsWhole(tag) /\ Len(tag) >= 2 /\ tag[1] = Word(command) /\ IsCount(tag[2])
         /\ tag[2][2] = IF command = "INSERT" THEN 0 ELSE n
<1>1. PICK w : w = Word(command)
  OBVIOUS
<1>2. PICK c : c = IF command = "INSERT" THEN 0 ELSE n
  OBVIOUS
<1>3. tag[1] = w /\ tag[2] = Count(c) /\ Len(tag) >= 2
  BY <1>1, <1>2 DEF Tag
<1>4. IsCount(tag[2]) /\ tag[2][2] = c
  BY <1>3 DEF IsCount, Count
<1>5. ~IsWhole(tag)
  <2> SUFFICES ASSUME NEW t \in WholeTags, tag = <<Word(t[1]), Word(t[2])>>
               PROVE  FALSE
    BY DEF IsWhole
  <2>1. PICK x : x = Word(t[2])
    OBVIOUS
  <2>2. tag[2] = x /\ x[1] = "word"
    BY <2>1 DEF Word
  <2>3. tag[2][1] = "number"
    BY <1>4 DEF IsCount
  <2> QED  BY <2>2, <2>3
<1> QED  BY <1>1, <1>2, <1>3, <1>4, <1>5

CountRead(command, affected, rows, read) ==
  IF command = "SELECT" /\ affected # rows THEN ~read.ok
  ELSE read.ok /\ (command # "INSERT" => read.value = affected)

\* The count of a command's tag is its row count; a SELECT whose rows differ is an error.
LEMMA CommandRead ==
  ASSUME NEW command \in Kinds, NEW affected \in Int, NEW rows \in Int
  PROVE  CountRead(command, affected, rows, QueryResult(Tag(command, affected), rows))
<1>1. PICK tag : tag = Tag(command, affected)
  OBVIOUS
<1>2. /\ ~IsWhole(tag) /\ Len(tag) >= 2 /\ tag[1] = Word(command) /\ IsCount(tag[2])
      /\ tag[2][2] = IF command = "INSERT" THEN 0 ELSE affected
  BY <1>1, TagShape
<1>3. tag[1][2] = command /\ (tag[1] = Word("SELECT") <=> command = "SELECT")
  BY <1>2 DEF Word
<1>4. PICK read : read = QueryResult(tag, rows)
  OBVIOUS
<1>5. PICK c : c = tag[2][2]
  OBVIOUS
<1>6. read = IF command = "SELECT" /\ c # rows THEN Thrown ELSE Done(c, <<>>)
  <2>1. ~ (Len(tag) < 2)
    <3>1. Len(tag) \in Int
      BY <1>1 DEF Tag
    <3> QED  BY <1>2, <3>1
  <2> QED  BY <1>2, <1>3, <1>4, <1>5, <2>1 DEF QueryResult
<1>7. CASE command = "SELECT" /\ c # rows
  <2>1. ~read.ok
    BY <1>6, <1>7 DEF Thrown
  <2>2. c = affected
    BY <1>2, <1>5, <1>7
  <2> QED  BY <1>1, <1>4, <1>7, <2>1, <2>2 DEF CountRead
<1>8. CASE ~ (command = "SELECT" /\ c # rows)
  <2>1. read.ok /\ read.value = c
    <3>1. read = Done(c, <<>>)
      BY <1>6, <1>8
    <3> QED  BY <3>1 DEF Done
  <2>2. ~ (command = "SELECT" /\ affected # rows)
    BY <1>2, <1>5, <1>8
  <2> QED  BY <1>1, <1>2, <1>4, <1>5, <2>1, <2>2 DEF CountRead
<1> QED  BY <1>7, <1>8

\* The four tags that are known whole are results.
LEMMA WholeRead ==
  ASSUME NEW t \in WholeTags
  PROVE  QueryResult(<<Word(t[1]), Word(t[2])>>, 0).ok
<1>1. IsWhole(<<Word(t[1]), Word(t[2])>>)
  BY DEF IsWhole
<1> QED  BY <1>1 DEF QueryResult, Done

\* A tag without a count is an error, unless it is one of those that are known.
LEMMA OtherRead ==
  ASSUME NEW tag \in OtherTags
  PROVE  ~QueryResult(tag, 0).ok
<1>1. CASE tag = <<Word("BEGIN")>> \/ tag = <<Word("SET")>>
  <2>1. Len(tag) = 1
    BY <1>1
  <2>2. ~IsWhole(tag)
    BY <2>1 DEF IsWhole
  <2> QED  BY <2>1, <2>2 DEF QueryResult, Thrown
<1>2. CASE tag = <<Word("CREATE"), Word("INDEX")>>
  <2>1. ~IsWhole(tag)
    BY <1>2 DEF IsWhole, WholeTags, Word
  <2>2. tag[1][2] \notin Kinds
    BY <1>2 DEF Word, Kinds
  <2> QED  BY <2>1, <2>2 DEF QueryResult, Thrown
<1> QED  BY <1>1, <1>2 DEF OtherTags

(***************************************************************************)
(* Integers, signed and unsigned.                                          *)
(***************************************************************************)
LEMMA HalfOfRadix ==
  \E half : IsHalf(half, Radix)
<1>1. Radix \in Nat /\ Radix > 1 /\ Radix % 2 = 0
  BY TypesAssumption
<1>2. PICK half : half = Radix \div 2
  OBVIOUS
<1>3. half \in Nat \ {0} /\ Radix = 2 * half
  BY <1>1, <1>2
<1> QED  BY <1>3 DEF IsHalf

\* The values of a width, by its powers.
Spans(v, z, p, w, half) ==
  /\ IsHalf(half, Radix) /\ IsPowers(p, w, Radix)
  /\ v = p[w] /\ z = p[w - 1] * half /\ z \in Nat \ {0} /\ v = 2 * z

\* The values of a width are an even number, and half of them are negative when signed.
LEMMA Span ==
  ASSUME NEW w \in Nat \ {0}
  PROVE  \E z, p, half : Spans(Values(w), z, p, w, half)
<1>1. Radix \in Nat /\ Radix > 1
  BY TypesAssumption
<1>2. PICK half : IsHalf(half, Radix)
  BY HalfOfRadix
<1>3. PICK p : IsPowers(p, w, Radix)
  BY <1>1, Powers
<1>4. w \in 0 .. w /\ w \in 1 .. w
  OBVIOUS
<1>5. Values(w) = p[w]
  BY <1>3, <1>4, ValuesArePowers
<1>6. p[w] = p[w - 1] * Radix /\ p[w - 1] \in Nat \ {0}
  BY <1>1, <1>3, <1>4, PowerSteps
<1>7. PICK a, z : a = p[w - 1] /\ z = a * half
  OBVIOUS
<1>8. a \in Nat \ {0} /\ half \in Nat \ {0} /\ Radix = 2 * half
  BY <1>2, <1>6, <1>7 DEF IsHalf
<1>9. z \in Nat \ {0}
  BY <1>7, <1>8
<1>10. a * (2 * half) = 2 * (a * half)
  BY <1>8
<1>11. p[w] = 2 * z
  BY <1>6, <1>7, <1>8, <1>10
<1>12. Spans(Values(w), z, p, w, half)
  BY <1>2, <1>3, <1>5, <1>7, <1>9, <1>11 DEF Spans
<1> QED  BY <1>12

\* The numbers of a width.
LEMMA Ranges ==
  ASSUME NEW v, NEW z \in Nat \ {0}, v = 2 * z, NEW w, Values(w) = v
  PROVE  /\ \A n : n \in InRange(w, TRUE) <=> n \in Int /\ -z <= n /\ n < z
         /\ \A n : n \in InRange(w, FALSE) <=> n \in Int /\ 0 <= n /\ n < v
<1>1. v \div 2 = z
  OBVIOUS
<1>2. InRange(w, TRUE) = -z .. z - 1
  BY <1>1 DEF InRange
<1>3. InRange(w, FALSE) = 0 .. v - 1
  BY DEF InRange
<1>4. \A n : n \in -z .. z - 1 <=> n \in Int /\ -z <= n /\ n < z
  OBVIOUS
<1>5. \A n : n \in 0 .. v - 1 <=> n \in Int /\ 0 <= n /\ n < v
  OBVIOUS
<1>6. \A n : n \in InRange(w, TRUE) <=> n \in Int /\ -z <= n /\ n < z
  BY <1>2, <1>4
<1>7. \A n : n \in InRange(w, FALSE) <=> n \in Int /\ 0 <= n /\ n < v
  BY <1>3, <1>5
<1> QED  BY <1>6, <1>7

\* The bits of a number, as a number of the other kind.
AsUnsigned(n, w) == IF n < 0 THEN n + Values(w) ELSE n
AsSigned(n, w)   == IF n >= Values(w) \div 2 THEN n - Values(w) ELSE n

\* A signed and an unsigned number that differ by all the values have the same bytes.
LEMMA EitherRead ==
  ASSUME NEW w \in Nat \ {0}, NEW n, NEW m, n \in InRange(w, TRUE), m \in InRange(w, FALSE),
         m = n \/ m = n + Values(w)
  PROVE  /\ BigEndian(n, w, Radix) = BigEndian(m, w, Radix)
         /\ Decoded(BigEndian(n, w, Radix), TRUE, Radix) = n
         /\ Decoded(BigEndian(n, w, Radix), FALSE, Radix) = m
<1>1. PICK v : v = Values(w)
  OBVIOUS
<1>2. PICK z, p, half : Spans(v, z, p, w, half)
  BY <1>1, Span
<1>3. IsHalf(half, Radix) /\ IsPowers(p, w, Radix) /\ z = p[w - 1] * half
  BY <1>2 DEF Spans
<1>4. v = p[w] /\ z \in Nat \ {0} /\ v = 2 * z
  BY <1>2 DEF Spans
<1>5. Radix \in Nat /\ Radix > 1
  BY TypesAssumption
<1>6. n \in Int /\ -z <= n /\ n < z
  BY <1>1, <1>4, Ranges
<1>7. m \in Int /\ 0 <= m /\ m < v
  BY <1>1, <1>4, Ranges
<1>8. Within(n, p, w, half)
  BY <1>3, <1>6 DEF Within
<1>9. WithinUnsigned(m, p, w)
  BY <1>4, <1>7 DEF WithinUnsigned
<1>10. Decoded(BigEndian(n, w, Radix), TRUE, Radix) = n
  BY <1>3, <1>5, <1>6, <1>8, DecodesSigned
<1>11. Decoded(BigEndian(m, w, Radix), FALSE, Radix) = m
  BY <1>3, <1>5, <1>7, <1>9, DecodesUnsigned
<1>12. BigEndian(n, w, Radix) = BigEndian(m, w, Radix)
  <2>1. CASE m = n
    BY <2>1
  <2>2. CASE m = n + v
    <3>1. BigEndian(m - p[w], w, Radix) = BigEndian(m, w, Radix)
      BY <1>3, <1>5, <1>7, EncodedAlike
    <3>2. m - p[w] = n
      BY <1>4, <1>6, <1>7, <2>2
    <3> QED  BY <3>1, <3>2
  <2> QED  BY <1>1, <2>1, <2>2
<1> QED  BY <1>10, <1>11, <1>12

\* What is decoded of the bytes of a signed number, as either kind.
LEMMA SignedRead ==
  ASSUME NEW w \in Nat \ {0}, NEW n, n \in InRange(w, TRUE)
  PROVE  /\ n \in Int
         /\ Decoded(BigEndian(n, w, Radix), TRUE, Radix) = n
         /\ Decoded(BigEndian(n, w, Radix), FALSE, Radix) = AsUnsigned(n, w)
<1>1. PICK v : v = Values(w)
  OBVIOUS
<1>2. PICK z : z \in Nat \ {0} /\ v = 2 * z
  <2>1. PICK z, p, half : Spans(v, z, p, w, half)
    BY <1>1, Span
  <2> QED  BY <2>1 DEF Spans
<1>3. n \in Int /\ -z <= n /\ n < z
  BY <1>1, <1>2, Ranges
<1>4. PICK m : m = IF n < 0 THEN n + v ELSE n
  OBVIOUS
<1>5. m \in Int /\ 0 <= m /\ m < v /\ (m = n \/ m = n + v)
  BY <1>2, <1>3, <1>4
<1>6. m \in InRange(w, FALSE)
  BY <1>1, <1>2, <1>5, Ranges
<1>7. /\ Decoded(BigEndian(n, w, Radix), TRUE, Radix) = n
      /\ Decoded(BigEndian(n, w, Radix), FALSE, Radix) = m
  BY <1>1, <1>5, <1>6, EitherRead
<1> QED  BY <1>1, <1>3, <1>4, <1>7 DEF AsUnsigned

\* What is decoded of the bytes of an unsigned number, as either kind.
LEMMA UnsignedRead ==
  ASSUME NEW w \in Nat \ {0}, NEW m, m \in InRange(w, FALSE)
  PROVE  /\ m \in Int /\ m >= 0 /\ (AsSigned(m, w) # m => AsSigned(m, w) < 0) /\ AsSigned(m, w) \in Int
         /\ Decoded(BigEndian(m, w, Radix), FALSE, Radix) = m
         /\ Decoded(BigEndian(m, w, Radix), TRUE, Radix) = AsSigned(m, w)
         /\ BigEndian(AsSigned(m, w), w, Radix) = BigEndian(m, w, Radix)
<1>1. PICK v : v = Values(w)
  OBVIOUS
<1>2. PICK z : z \in Nat \ {0} /\ v = 2 * z
  <2>1. PICK z, p, half : Spans(v, z, p, w, half)
    BY <1>1, Span
  <2> QED  BY <2>1 DEF Spans
<1>3. m \in Int /\ 0 <= m /\ m < v
  BY <1>1, <1>2, Ranges
<1>4. PICK n : n = AsSigned(m, w)
  OBVIOUS
<1>5. n = IF m >= z THEN m - v ELSE m
  <2>1. v \div 2 = z
    BY <1>2
  <2> QED  BY <1>1, <1>4, <2>1 DEF AsSigned
<1>6. n \in Int /\ -z <= n /\ n < z /\ (m = n \/ m = n + v) /\ (n # m => n < 0)
  BY <1>2, <1>3, <1>5
<1>7. n \in InRange(w, TRUE)
  BY <1>1, <1>2, <1>6, Ranges
<1>8. /\ BigEndian(n, w, Radix) = BigEndian(m, w, Radix)
      /\ Decoded(BigEndian(n, w, Radix), TRUE, Radix) = n
      /\ Decoded(BigEndian(n, w, Radix), FALSE, Radix) = m
  BY <1>1, <1>6, <1>7, EitherRead
<1>9. m >= 0
  BY <1>3
<1> QED  BY <1>3, <1>4, <1>6, <1>8, <1>9

(***************************************************************************)
(* Values.                                                                 *)
(***************************************************************************)
\* Swift's integers, and the server's type each is declared with.
IsIntegerType(T, oid, w) ==
  /\ T \in Codable /\ T \in BinaryCodable /\ w \in Nat \ {0} /\ Width[T] = w /\ Length(oid) = w
  /\ Declared(T) = oid /\ pgTypes[T][1] = oid /\ Converts(T, oid) /\ T # "nil" /\ oid # "nil"
  /\ oid \in Integral /\ oid # "bool" /\ (oid = "oid" <=> T = "OID")

\* Every integer type is declared with a server's type of its width.
LEMMA IntegerTypes ==
  ASSUME NEW T \in Integer
  PROVE  \E oid, w : IsIntegerType(T, oid, w)
<1>1. T \in {"Int16", "UInt16", "Int32", "UInt32", "Int64", "UInt64", "Int", "UInt", "OID"}
  BY DEF Integer, Width
<1>2. ASSUME T \in {"Int16", "UInt16"}
      PROVE  IsIntegerType(T, "int2", 2)
  <2>1. pgTypes[T] = <<"int2">> /\ T \in Codable /\ T \in BinaryCodable
    BY <1>2 DEF pgTypes, Codable, BinaryCodable
  <2>2. Width[T] = 2 /\ Length("int2") = 2
    BY <1>2 DEF Width, Length
  <2>3. Declared(T) = "int2" /\ Converts(T, "int2")
    BY <1>2, <2>1 DEF Declared, Converts
  <2> QED  BY <1>2, <2>1, <2>2, <2>3 DEF IsIntegerType, Integral
<1>3. ASSUME T \in {"Int32", "UInt32"}
      PROVE  IsIntegerType(T, "int4", 4)
  <2>1. pgTypes[T] = <<"int4">> /\ T \in Codable /\ T \in BinaryCodable
    BY <1>3 DEF pgTypes, Codable, BinaryCodable
  <2>2. Width[T] = 4 /\ Length("int4") = 4
    BY <1>3 DEF Width, Length
  <2>3. Declared(T) = "int4" /\ Converts(T, "int4")
    BY <1>3, <2>1 DEF Declared, Converts
  <2> QED  BY <1>3, <2>1, <2>2, <2>3 DEF IsIntegerType, Integral
<1>4. ASSUME T \in {"Int64", "UInt64"}
      PROVE  IsIntegerType(T, "int8", 8)
  <2>1. pgTypes[T] = <<"int8">> /\ T \in Codable /\ T \in BinaryCodable
    BY <1>4 DEF pgTypes, Codable, BinaryCodable
  <2>2. Width[T] = 8 /\ Length("int8") = 8
    BY <1>4 DEF Width, Length
  <2>3. Declared(T) = "int8" /\ Converts(T, "int8")
    BY <1>4, <2>1 DEF Declared, Converts
  <2> QED  BY <1>4, <2>1, <2>2, <2>3 DEF IsIntegerType, Integral
<1>5. ASSUME T \in {"Int", "UInt"}
      PROVE  IsIntegerType(T, "int8", 8)
  <2>1. pgTypes[T] = <<"int8", "int4", "int2">> /\ T \in Codable /\ T \in BinaryCodable
    BY <1>5 DEF pgTypes, Codable, BinaryCodable
  <2>2. Width[T] = 8 /\ Length("int8") = 8
    BY <1>5 DEF Width, Length
  <2>3. Declared(T) = "int8" /\ Converts(T, "int8")
    BY <1>5, <2>1 DEF Declared, Converts
  <2> QED  BY <1>5, <2>1, <2>2, <2>3 DEF IsIntegerType, Integral
<1>6. ASSUME T \in {"OID"}
      PROVE  IsIntegerType(T, "oid", 4)
  <2>1. pgTypes[T] = <<"oid">> /\ T \in Codable /\ T \in BinaryCodable
    BY <1>6 DEF pgTypes, Codable, BinaryCodable
  <2>2. Width[T] = 4 /\ Length("oid") = 4
    BY <1>6 DEF Width, Length
  <2>3. Declared(T) = "oid" /\ Converts(T, "oid")
    BY <1>6, <2>1 DEF Declared, Converts
  <2> QED  BY <1>6, <2>1, <2>2, <2>3 DEF IsIntegerType, Integral
<1>7. T \in {"Int16", "UInt16"} \/ T \in {"Int32", "UInt32"} \/ T \in {"Int64", "UInt64"} \/ T \in {"Int", "UInt"} \/ T \in {"OID"}
  BY <1>1
<1> QED  BY <1>2, <1>3, <1>4, <1>5, <1>6, <1>7

LEMMA SomeNotNil ==
  ASSUME NEW T, T # "nil", NEW x
  PROVE  Some(T, x) # Nil /\ Some(T, x).value = x
BY DEF Some, Nil

\* The values of an integer type are those of its width and sign.
LEMMA IntegerValues ==
  ASSUME NEW T \in Integer
  PROVE  Swift(T) = InRange(Width[T], T \notin Unsigned)
<1>1. T \in {"Int16", "UInt16", "Int32", "UInt32", "Int64", "UInt64", "Int", "UInt", "OID"}
  BY DEF Integer, Width
<1> QED  BY <1>1 DEF Swift

\* An integer type decodes bytes of its width, with its sign.
LEMMA FromIntegerBytes ==
  ASSUME NEW T \in Integer, NEW data, Len(data) = Width[T]
  PROVE  /\ T \in Unsigned => FromBinary(T, data) = Some(T, Decoded(data, FALSE, Radix))
         /\ T \notin Unsigned => FromBinary(T, data) = Some(T, Decoded(data, TRUE, Radix))
<1>1. T \in {"Int16", "UInt16", "Int32", "UInt32", "Int64", "UInt64", "Int", "UInt", "OID"}
  BY DEF Integer, Width
<1>2. FixedWidth(T, data) = Some(T, Decoded(data, T \notin Unsigned, Radix))
  BY DEF FixedWidth
<1>3. CASE T \notin {"Int", "UInt"}
  <2>1. FromBinary(T, data) = FixedWidth(T, data)
    BY <1>1, <1>3 DEF FromBinary
  <2> QED  BY <1>2, <2>1
<1>4. CASE T = "Int"
  <2>1. Len(data) = 8 /\ Width["Int64"] = 8 /\ "Int64" \notin Unsigned /\ T \notin Unsigned
    BY <1>4 DEF Width, Unsigned
  <2>2. FixedWidth("Int64", data) = Some("Int64", Decoded(data, TRUE, Radix))
    BY <2>1 DEF FixedWidth
  <2>3. FromBinary(T, data) = AnyWidth(T, data)
    BY <1>4 DEF FromBinary
  <2>4. AnyWidth(T, data) = Some(T, Decoded(data, TRUE, Radix))
    <3>1. PICK long, x : long = FixedWidth("Int64", data) /\ x = Decoded(data, TRUE, Radix)
      OBVIOUS
    <3>2. long # Nil /\ long.value = x
      <4>1. PICK S : S = "Int64"
        OBVIOUS
      <4>2. long = Some(S, x) /\ S # "nil"
        BY <2>2, <3>1, <4>1
      <4>3. Some(S, x) # Nil /\ Some(S, x).value = x
        BY <4>2, SomeNotNil
      <4> QED  BY <4>2, <4>3
    <3>3. AnyWidth(T, data) = Some(T, IF long = Nil THEN 0 ELSE long.value)
      BY <1>4, <2>1, <3>1 DEF AnyWidth
    <3> QED  BY <3>1, <3>2, <3>3
  <2> QED  BY <2>1, <2>3, <2>4
<1>5. CASE T = "UInt"
  <2>1. Len(data) = 8 /\ Width["UInt64"] = 8 /\ "UInt64" \in Unsigned /\ T \in Unsigned
    BY <1>5 DEF Width, Unsigned
  <2>2. FixedWidth("UInt64", data) = Some("UInt64", Decoded(data, FALSE, Radix))
    BY <2>1 DEF FixedWidth
  <2>3. FromBinary(T, data) = AnyWidth(T, data)
    BY <1>5 DEF FromBinary
  <2>4. AnyWidth(T, data) = Some(T, Decoded(data, FALSE, Radix))
    <3>1. PICK long, x : long = FixedWidth("UInt64", data) /\ x = Decoded(data, FALSE, Radix)
      OBVIOUS
    <3>2. long # Nil /\ long.value = x
      <4>1. PICK S : S = "UInt64"
        OBVIOUS
      <4>2. long = Some(S, x) /\ S # "nil"
        BY <2>2, <3>1, <4>1
      <4>3. Some(S, x) # Nil /\ Some(S, x).value = x
        BY <4>2, SomeNotNil
      <4> QED  BY <4>2, <4>3
    <3>3. AnyWidth(T, data) = Some(T, IF long = Nil THEN 0 ELSE long.value)
      BY <1>5, <2>1, <3>1 DEF AnyWidth
    <3> QED  BY <3>1, <3>2, <3>3
  <2> QED  BY <2>1, <2>3, <2>4
<1> QED  BY <1>3, <1>4, <1>5

(***************************************************************************)
(* Parameters that come back.                                              *)
(***************************************************************************)
LEMMA IntegersAreNumbers ==
  ASSUME NEW T \in Integer, NEW v \in Swift(T), NEW w \in Nat \ {0}, Width[T] = w
  PROVE  v \in Int /\ T # "Bool" /\ Len(BigEndian(v, w, Radix)) = w
<1>1. Swift(T) = InRange(Width[T], T \notin Unsigned)
  BY IntegerValues
<1>2. v \in InRange(w, TRUE) \/ v \in InRange(w, FALSE)
  BY <1>1
<1>3. v \in Int
  BY <1>2, SignedRead, UnsignedRead
<1>4. Radix \in Nat /\ Radix > 1
  BY TypesAssumption
<1>5. T # "Bool"
  BY DEF Integer, Width
<1>6. Len(BigEndian(v, w, Radix)) = w
  BY <1>3, <1>4, BigEndianType
<1> QED  BY <1>3, <1>5, <1>6

\* What the server makes of an integer: its value, or its bits as a signed one.
LEMMA IntegerSent ==
  ASSUME NEW T \in Integer, NEW v \in Swift(T), NEW oid, NEW w, IsIntegerType(T, oid, w)
  PROVE  /\ ServerReads(oid, T, v) = Some(oid, Wrapped(T, v))
         /\ BigEndian(Wrapped(T, v), w, Radix) = BigEndian(v, w, Radix)
         /\ Wrapped(T, v) # v => Wrapped(T, v) \notin Swift(T)
         /\ T \in Unsigned => Decoded(BigEndian(v, w, Radix), FALSE, Radix) = v
         /\ T \notin Unsigned => Decoded(BigEndian(v, w, Radix), TRUE, Radix) = v
<1>1. /\ T \in BinaryCodable /\ w \in Nat \ {0} /\ Width[T] = w /\ Length(oid) = w
      /\ oid \in Integral /\ oid # "bool" /\ (oid = "oid" <=> T = "OID")
  BY DEF IsIntegerType
<1>2. PICK data : data = BigEndian(v, w, Radix)
  OBVIOUS
<1>3. Len(data) = w /\ T # "Bool"
  BY <1>1, <1>2, IntegersAreNumbers
<1>4. pgBinary(T, v) = data
  BY <1>1, <1>2, <1>3 DEF pgBinary
<1>5. ServerReads(oid, T, v) = Some(oid, Decoded(data, oid # "oid", Radix))
  BY <1>1, <1>3, <1>4 DEF ServerReads
<1>6. /\ oid = "oid" => ServerReads(oid, T, v) = Some(oid, Decoded(data, FALSE, Radix))
      /\ oid # "oid" => ServerReads(oid, T, v) = Some(oid, Decoded(data, TRUE, Radix))
  BY <1>5
<1>7. Swift(T) = InRange(Width[T], T \notin Unsigned)
  BY IntegerValues
<1>8. CASE T \notin Unsigned
  <2>1. v \in InRange(w, TRUE)
    BY <1>1, <1>7, <1>8
  <2>2. Decoded(data, TRUE, Radix) = v
    BY <1>1, <1>2, <2>1, SignedRead
  <2>3. oid # "oid" /\ Wrapped(T, v) = v
    BY <1>1, <1>8 DEF Wrapped, Unsigned
  <2> QED  BY <1>2, <1>6, <1>8, <2>2, <2>3
<1>9. CASE T \in Unsigned
  <2>1. v \in InRange(w, FALSE) /\ Swift(T) = InRange(w, FALSE)
    BY <1>1, <1>7, <1>9
  <2>2. /\ v >= 0 /\ (AsSigned(v, w) # v => AsSigned(v, w) < 0)
        /\ Decoded(data, FALSE, Radix) = v /\ Decoded(data, TRUE, Radix) = AsSigned(v, w)
        /\ BigEndian(AsSigned(v, w), w, Radix) = data
    BY <1>1, <1>2, <2>1, UnsignedRead
  <2>3. CASE T = "OID"
    <3>1. Wrapped(T, v) = v
      BY <2>3 DEF Wrapped
    <3> QED  BY <1>1, <1>2, <1>6, <1>9, <2>2, <2>3, <3>1
  <2>4. CASE T # "OID"
    <3>1. Wrapped(T, v) = AsSigned(v, w)
      BY <1>1, <1>9, <2>4 DEF Wrapped, AsSigned
    <3>2. AsSigned(v, w) # v => AsSigned(v, w) \notin Swift(T)
      <4>2. AsSigned(v, w) \in Int
        BY <1>1, <2>1, UnsignedRead
      <4>3. PICK s \in Int : s = AsSigned(v, w)
        BY <4>2
      <4>4. s # v => s < 0
        BY <2>2, <4>3
      <4>5. s < 0 => s \notin InRange(w, FALSE)
        <5>1. ASSUME s \in InRange(w, FALSE) PROVE s >= 0
          BY <1>1, <5>1, UnsignedRead
        <5>2. s < 0 => ~ (s >= 0)
          OBVIOUS
        <5> QED  BY <5>1, <5>2
      <4> QED  BY <2>1, <4>3, <4>4, <4>5
    <3> QED  BY <1>1, <1>2, <1>6, <1>9, <2>2, <2>4, <3>1, <3>2
  <2> QED  BY <2>3, <2>4
<1> QED  BY <1>8, <1>9

\* What the client gets back of a value that it sent.
Returned(T, mode, v) ==
  LET declared == Declared(T)
      read     == ServerReads(declared, T, v)
  IN IF read = Nil THEN Nil ELSE ParseAs(T, ServerSends(declared, read.value, mode), declared, mode)

\* What EchoesAreExact allows, decided by the type and the mode.
IsExact(T, mode, v, echo) ==
  echo = IF \/ mode = "text" /\ T = "Bool"
            \/ mode = "text" /\ Wrapped(T, v) # v
            \/ mode = "binary" /\ T \in {"Float", "Double"}
         THEN Nil ELSE Some(T, v)

\* What comes back of a value that the server could read.
LEMMA ReturnedValue ==
  ASSUME NEW T, NEW mode, NEW v, NEW oid, NEW x, oid # "nil", Declared(T) = oid,
         ServerReads(oid, T, v) = Some(oid, x)
  PROVE  Returned(T, mode, v) = ParseAs(T, ServerSends(oid, x, mode), oid, mode)
<1>1. Some(oid, x) # Nil /\ Some(oid, x).value = x
  BY SomeNotNil
<1>2. PICK read : read = ServerReads(oid, T, v)
  OBVIOUS
<1>3. read # Nil /\ read.value = x
  BY <1>1, <1>2
<1>4. Returned(T, mode, v) =
        IF read = Nil THEN Nil ELSE ParseAs(T, ServerSends(oid, read.value, mode), oid, mode)
  BY <1>2 DEF Returned
<1> QED  BY <1>3, <1>4

\* An integer comes back as it was, or, as a text its type does not know, not at all.
LEMMA IntegerBack ==
  ASSUME NEW T \in Integer, NEW mode \in Modes, NEW v \in Swift(T)
  PROVE  IsExact(T, mode, v, Returned(T, mode, v))
<1>1. PICK oid, w : IsIntegerType(T, oid, w)
  BY IntegerTypes
<1>2. /\ T \in BinaryCodable /\ w \in Nat \ {0} /\ Width[T] = w /\ Length(oid) = w
      /\ Declared(T) = oid /\ Converts(T, oid) /\ oid # "nil" /\ oid \in Integral /\ oid # "bool"
  BY <1>1 DEF IsIntegerType
<1>3. PICK x : x = Wrapped(T, v)
  OBVIOUS
<1>4. /\ ServerReads(oid, T, v) = Some(oid, x)
      /\ BigEndian(x, w, Radix) = BigEndian(v, w, Radix)
      /\ x # v => x \notin Swift(T)
      /\ T \in Unsigned => Decoded(BigEndian(v, w, Radix), FALSE, Radix) = v
      /\ T \notin Unsigned => Decoded(BigEndian(v, w, Radix), TRUE, Radix) = v
  BY <1>1, <1>3, IntegerSent
<1>5. Returned(T, mode, v) = ParseAs(T, ServerSends(oid, x, mode), oid, mode)
  BY <1>2, <1>4, ReturnedValue
<1>6. T \in {"Int16", "UInt16", "Int32", "UInt32", "Int64", "UInt64", "Int", "UInt", "OID"}
  BY DEF Integer, Width
<1>7. CASE mode = "text"
  <2>1. ServerSends(oid, x, mode) = x
    BY <1>2, <1>7 DEF ServerSends, ServerText
  <2>2. ParseAs(T, x, oid, mode) = FromText(T, x)
    BY <1>2, <1>7 DEF ParseAs
  <2>3. FromText(T, x) = IF x \in Swift(T) THEN Some(T, x) ELSE Nil
    BY <1>6 DEF FromText
  <2>4. T # "Bool"
    BY <1>6
  <2> QED  BY <1>3, <1>4, <1>5, <1>7, <2>1, <2>2, <2>3, <2>4 DEF IsExact
<1>8. CASE mode = "binary"
  <2>1. PICK data : data = BigEndian(v, w, Radix)
    OBVIOUS
  <2>2. ServerSends(oid, x, mode) = data
    <3>1. ServerSends(oid, x, mode) = ServerBinary(oid, x)
      BY <1>8 DEF ServerSends
    <3>2. ServerBinary(oid, x) = BigEndian(x, w, Radix)
      BY <1>2 DEF ServerBinary
    <3> QED  BY <1>4, <2>1, <3>1, <3>2
  <2>3. ParseAs(T, data, oid, mode) = FromBinary(T, data)
    BY <1>2, <1>8 DEF ParseAs
  <2>4. Len(data) = Width[T]
    BY <1>2, <2>1, IntegersAreNumbers
  <2>5. FromBinary(T, data) = Some(T, v)
    BY <1>4, <2>1, <2>4, FromIntegerBytes
  <2>6. T \notin {"Float", "Double"}
    BY <1>6
  <2> QED  BY <1>5, <1>8, <2>2, <2>3, <2>5, <2>6 DEF IsExact
<1> QED  BY <1>7, <1>8 DEF Modes

LEMMA FilledParts ==
  ASSUME NEW v, NEW n \in Nat \ {0}
  PROVE  Len(Filled(v, n)) = n /\ Filled(v, n)[1] = v
BY DEF Filled

\* A Bool comes back in binary, and not at all as text.
LEMMA BoolBack ==
  ASSUME NEW mode \in Modes, NEW v \in BOOLEAN
  PROVE  IsExact("Bool", mode, v, Returned("Bool", mode, v))
<1>1. PICK data : data = <<IF v THEN 1 ELSE 0>>
  OBVIOUS
<1>2. Len(data) = 1 /\ DOMAIN data = {1} /\ (data[1] # 0) = v
  BY <1>1
<1>3. PICK T, oid : T = "Bool" /\ oid = "bool"
  OBVIOUS
<1>4. T \notin Integer /\ T \in BinaryCodable /\ T \notin Unsigned
  BY <1>3 DEF Integer, Width, BinaryCodable, Codable, pgTypes, Unsigned
<1>5. Declared(T) = oid /\ Converts(T, oid) /\ Length(oid) = 1 /\ oid \notin Integral
  <2>1. pgTypes[T] = <<"bool">>
    BY <1>3 DEF pgTypes
  <2> QED  BY <1>3, <2>1 DEF Declared, Converts, Length, Integral
<1>6. pgBinary(T, v) = data
  BY <1>1, <1>3, <1>4 DEF pgBinary
<1>7. ServerReads(oid, T, v) = Some(oid, data[1] # 0)
  BY <1>2, <1>3, <1>4, <1>5, <1>6 DEF ServerReads
<1>8. ServerReads(oid, T, v) = Some(oid, v)
  BY <1>2, <1>7
<1>9. Returned(T, mode, v) = ParseAs(T, ServerSends(oid, v, mode), oid, mode)
  BY <1>3, <1>5, <1>8, ReturnedValue
<1>10. CASE mode = "text"
  <2>1. PICK t : t = ServerSends(oid, v, mode)
    OBVIOUS
  <2>2. t \in {"t", "f"}
    BY <1>3, <1>10, <2>1 DEF ServerSends, ServerText
  <2>3. FromText(T, t) = Nil
    BY <1>3, <1>4, <2>2 DEF FromText
  <2>4. ParseAs(T, t, oid, mode) = Nil
    BY <1>5, <1>10, <2>3 DEF ParseAs
  <2> QED  BY <1>3, <1>9, <1>10, <2>1, <2>4 DEF IsExact
<1>11. CASE mode = "binary"
  <2>1. ServerSends(oid, v, mode) = data
    BY <1>1, <1>3, <1>5, <1>11 DEF ServerSends, ServerBinary
  <2>2. FromBinary(T, data) = Some(T, v)
    <3>1. FromBinary(T, data) = Some(T, \E i \in DOMAIN data : data[i] # 0)
      BY <1>3, <1>4 DEF FromBinary
    <3>2. (\E i \in DOMAIN data : data[i] # 0) = v
      BY <1>2
    <3> QED  BY <3>1, <3>2
  <2>3. ParseAs(T, data, oid, mode) = Some(T, v)
    BY <1>4, <1>5, <1>11, <2>2 DEF ParseAs
  <2> QED  BY <1>3, <1>9, <1>11, <2>1, <2>3 DEF IsExact
<1> QED  BY <1>10, <1>11 DEF Modes

\* The types of which the value is passed on.
IsPassedOn(T, oid, n) ==
  /\ T \in {"Date", "UUID", "String", "Float", "Double"} /\ n \in Nat \ {0} /\ Length(oid) = n
  /\ oid \in {"timestamp", "uuid", "text", "float4", "float8"}
  /\ pgTypes[T][1] = oid /\ Declared(T) = oid /\ Converts(T, oid)
  /\ (T = "Date" => n = 8) /\ (T = "UUID" => n = 16)

\* The server's types that these are declared with, and their lengths.
LEMMA PassedOnTypes ==
  ASSUME NEW T \in {"Date", "UUID", "String", "Float", "Double"}
  PROVE  \E oid, n : IsPassedOn(T, oid, n)
<1>1. ASSUME T = "Date" PROVE IsPassedOn(T, "timestamp", 8)
  <2>1. pgTypes[T] = <<"timestamp", "timestamptz", "date">>
    BY <1>1 DEF pgTypes
  <2> QED  BY <1>1, <2>1 DEF IsPassedOn, Declared, Converts, Length
<1>2. ASSUME T = "UUID" PROVE IsPassedOn(T, "uuid", 16)
  <2>1. pgTypes[T] = <<"uuid">>
    BY <1>2 DEF pgTypes
  <2> QED  BY <1>2, <2>1 DEF IsPassedOn, Declared, Converts, Length
<1>3. ASSUME T = "String" PROVE IsPassedOn(T, "text", 1)
  <2>1. pgTypes[T] = <<"text", "varchar", "bpchar">>
    BY <1>3 DEF pgTypes
  <2> QED  BY <1>3, <2>1 DEF IsPassedOn, Declared, Converts, Length
<1>4. ASSUME T = "Float" PROVE IsPassedOn(T, "float4", 4)
  <2>1. pgTypes[T] = <<"float4">>
    BY <1>4 DEF pgTypes
  <2> QED  BY <1>4, <2>1 DEF IsPassedOn, Declared, Converts, Length
<1>5. ASSUME T = "Double" PROVE IsPassedOn(T, "float8", 8)
  <2>1. pgTypes[T] = <<"float8", "float4">>
    BY <1>5 DEF pgTypes
  <2> QED  BY <1>5, <2>1 DEF IsPassedOn, Declared, Converts, Length
<1> QED  BY <1>1, <1>2, <1>3, <1>4, <1>5

\* The server takes these values as they are.
LEMMA PassedOnSent ==
  ASSUME NEW T, NEW oid, NEW n, IsPassedOn(T, oid, n), NEW v
  PROVE  ServerReads(oid, T, v) = Some(oid, v)
<1>1. /\ T \in {"Date", "UUID", "String", "Float", "Double"} /\ n \in Nat \ {0} /\ Length(oid) = n
      /\ oid \in {"timestamp", "uuid", "text", "float4", "float8"} /\ pgTypes[T][1] = oid
  BY DEF IsPassedOn
<1>2. T \notin Integer /\ oid \notin Integral /\ oid # "bool" /\ T # "Bool"
  BY <1>1 DEF Integer, Width, Integral
<1>3. CASE T \in {"Float", "Double"}
  <2>1. T \notin BinaryCodable /\ pgText(T, v) = v
    BY <1>3 DEF BinaryCodable, pgText
  <2> QED  BY <2>1 DEF ServerReads
<1>4. CASE T \in {"Date", "UUID", "String"}
  <2>1. T \in BinaryCodable
    BY <1>4 DEF BinaryCodable, Codable, pgTypes
  <2>2. PICK data : data = Filled(v, n)
    OBVIOUS
  <2>3. Len(data) = n /\ data[1] = v
    BY <1>1, <2>2, FilledParts
  <2>4. pgBinary(T, v) = data
    BY <1>1, <1>2, <2>2 DEF pgBinary
  <2> QED  BY <1>1, <1>2, <2>1, <2>3, <2>4 DEF ServerReads
<1> QED  BY <1>1, <1>3, <1>4

\* They come back as they were, but for those that have no binary form.
LEMMA PassedOnBack ==
  ASSUME NEW T \in {"Date", "UUID", "String", "Float", "Double"}, NEW mode \in Modes, NEW v,
         Readable(T, mode)
  PROVE  IsExact(T, mode, v, Returned(T, mode, v))
<1>1. PICK oid, n : IsPassedOn(T, oid, n)
  BY PassedOnTypes
<1>2. /\ n \in Nat \ {0} /\ Length(oid) = n
      /\ oid \in {"timestamp", "uuid", "text", "float4", "float8"}
      /\ Declared(T) = oid /\ Converts(T, oid)
      /\ (T = "Date" => n = 8) /\ (T = "UUID" => n = 16)
  BY <1>1 DEF IsPassedOn
<1>3. T \notin Integer /\ T \notin Unsigned /\ oid \notin Integral /\ oid # "bool" /\ T # "Bool"
  BY <1>2 DEF Integer, Width, Integral, Unsigned
<1>4. Wrapped(T, v) = v
  BY <1>3 DEF Wrapped
<1>5. Returned(T, mode, v) = ParseAs(T, ServerSends(oid, v, mode), oid, mode)
  <2>1. ServerReads(oid, T, v) = Some(oid, v)
    BY <1>1, PassedOnSent
  <2> QED  BY <1>2, <2>1, ReturnedValue
<1>6. CASE mode = "text"
  <2>1. ServerSends(oid, v, mode) = v
    BY <1>3, <1>6 DEF ServerSends, ServerText
  <2>2. FromText(T, v) = Some(T, v)
    BY <1>3 DEF FromText
  <2>3. ParseAs(T, v, oid, mode) = Some(T, v)
    BY <1>2, <1>6, <2>2 DEF ParseAs
  <2> QED  BY <1>3, <1>4, <1>5, <1>6, <2>1, <2>3 DEF IsExact
<1>7. CASE mode = "binary" /\ T \in {"Float", "Double"}
  <2>1. T \notin BinaryCodable
    BY <1>7 DEF BinaryCodable
  <2>2. Returned(T, mode, v) = Nil
    BY <1>5, <1>7, <2>1 DEF ParseAs
  <2> QED  BY <1>7, <2>2 DEF IsExact
<1>8. CASE mode = "binary" /\ T \in {"Date", "UUID", "String"}
  <2>1. PICK data : data = Filled(v, n)
    OBVIOUS
  <2>2. Len(data) = n /\ data[1] = v
    BY <1>2, <2>1, FilledParts
  <2>3. ServerSends(oid, v, mode) = data
    BY <1>2, <1>3, <1>8, <2>1 DEF ServerSends, ServerBinary
  <2>4. FromBinary(T, data) = Some(T, v)
    BY <1>2, <1>3, <1>8, <2>2 DEF FromBinary
  <2>5. T \in BinaryCodable
    BY <1>8 DEF BinaryCodable, Codable, pgTypes
  <2>6. ParseAs(T, data, oid, mode) = Some(T, v)
    BY <1>2, <1>8, <2>4, <2>5 DEF ParseAs
  <2> QED  BY <1>4, <1>5, <1>8, <2>3, <2>6 DEF IsExact
<1> QED  BY <1>6, <1>7, <1>8 DEF Modes

\* Whatever its type, a value comes back as it was or not at all.
LEMMA ReturnedIsExact ==
  ASSUME NEW T \in Codable, NEW mode \in Modes, NEW v \in Swift(T), Readable(T, mode)
  PROVE  IsExact(T, mode, v, Returned(T, mode, v))
<1>1. T \in Integer \/ T = "Bool" \/ T \in {"Date", "UUID", "String", "Float", "Double"}
  BY DEF Codable, pgTypes, Integer, Width
<1>2. CASE T \in Integer
  BY <1>2, IntegerBack
<1>3. CASE T = "Bool"
  <2>1. T \notin Integer
    BY <1>3 DEF Integer, Width
  <2>2. v \in BOOLEAN
    BY <1>3, <2>1 DEF Swift
  <2> QED  BY <1>3, <2>2, BoolBack
<1>4. CASE T \in {"Date", "UUID", "String", "Float", "Double"}
  BY <1>4, PassedOnBack
<1> QED  BY <1>1, <1>2, <1>3, <1>4

(***************************************************************************)
(* The columns each type is converted from, and the type chosen for one.   *)
(***************************************************************************)
Single(T) ==
  CASE T \in {"Int16", "UInt16"} -> "int2"
    [] T \in {"Int32", "UInt32"} -> "int4"
    [] T \in {"Int64", "UInt64"} -> "int8"
    [] T = "OID"   -> "oid"
    [] T = "Bool"  -> "bool"
    [] T = "UUID"  -> "uuid"
    [] T = "Float" -> "float4"

\* Most types are converted from one of the server's types only.
LEMMA SingleType ==
  ASSUME NEW T, T \in {"Int16", "UInt16", "Int32", "UInt32", "Int64", "UInt64",
                       "OID", "Bool", "UUID", "Float"}, NEW oid
  PROVE  Converts(T, oid) <=> oid = Single(T)
<1>1. pgTypes[T] = <<Single(T)>>
  <2>1. CASE T \in {"Int16", "UInt16"}
    BY <2>1 DEF pgTypes, Single
  <2>2. CASE T \in {"Int32", "UInt32"}
    BY <2>2 DEF pgTypes, Single
  <2>3. CASE T \in {"Int64", "UInt64"}
    BY <2>3 DEF pgTypes, Single
  <2>4. CASE T \in {"OID", "Bool", "UUID", "Float"}
    BY <2>4 DEF pgTypes, Single
  <2> QED  BY <2>1, <2>2, <2>3, <2>4
<1>2. PICK s : s = Single(T)
  OBVIOUS
<1>3. DOMAIN <<s>> = {1} /\ <<s>>[1] = s
  OBVIOUS
<1> QED  BY <1>1, <1>2, <1>3 DEF Converts

\* The others are converted from several.
LEMMA ManyTypes ==
  ASSUME NEW T, NEW oid
  PROVE  /\ T \in {"Int", "UInt"} => (Converts(T, oid) <=> oid \in {"int8", "int4", "int2"})
         /\ T = "Date" => (Converts(T, oid) <=> oid \in {"timestamp", "timestamptz", "date"})
         /\ T = "String" => (Converts(T, oid) <=> oid \in {"text", "varchar", "bpchar"})
         /\ T = "Double" => (Converts(T, oid) <=> oid \in {"float8", "float4"})
<1>1. ASSUME T \in {"Int", "UInt"} PROVE Converts(T, oid) <=> oid \in {"int8", "int4", "int2"}
  <2>1. pgTypes[T] = <<"int8", "int4", "int2">>
    BY <1>1 DEF pgTypes
  <2> QED  BY <2>1 DEF Converts
<1>2. ASSUME T = "Date" PROVE Converts(T, oid) <=> oid \in {"timestamp", "timestamptz", "date"}
  <2>1. pgTypes[T] = <<"timestamp", "timestamptz", "date">>
    BY <1>2 DEF pgTypes
  <2> QED  BY <2>1 DEF Converts
<1>3. ASSUME T = "String" PROVE Converts(T, oid) <=> oid \in {"text", "varchar", "bpchar"}
  <2>1. pgTypes[T] = <<"text", "varchar", "bpchar">>
    BY <1>3 DEF pgTypes
  <2> QED  BY <2>1 DEF Converts
<1>4. ASSUME T = "Double" PROVE Converts(T, oid) <=> oid \in {"float8", "float4"}
  <2>1. pgTypes[T] = <<"float8", "float4">>
    BY <1>4 DEF pgTypes
  <2> QED  BY <2>1 DEF Converts
<1> QED  BY <1>1, <1>2, <1>3, <1>4

\* T is the first of the types that is converted from the column.
LEMMA FirstIsChosen ==
  ASSUME NEW oid, NEW k \in 1 .. 13, Converts(types[k], oid),
         \A i \in 1 .. k - 1 : ~Converts(types[i], oid)
  PROVE  Chosen(oid) = types[k]
<1>1. PICK n \in Nat : n = Len(types) /\ n = 13
  BY DEF types
<1> DEFINE I == {i \in 1 .. Len(types) : Converts(types[i], oid)}
           first == SelectInSeq(types, LAMBDA T : Converts(T, oid))
<1>2. first = IF I # {} THEN Min(I) ELSE 0
  BY DEF SelectInSeq
<1>3. k \in I
  BY <1>1
<1>4. \A i \in I : k <= i
  <2>1. ASSUME NEW i \in I, ~ (k <= i) PROVE FALSE
    <3>1. i \in 1 .. k - 1 /\ Converts(types[i], oid)
      BY <2>1
    <3> QED  BY <3>1
  <2> QED  BY <2>1
<1>5. I \subseteq Nat
  OBVIOUS
<1>6. Min(I) \in I /\ \A i \in I : Min(I) <= i
  <2> HIDE DEF I
  <2> QED  BY <1>3, <1>4 DEF Min
<1>7. first = k
  <2>1. PICK m : m = Min(I)
    OBVIOUS
  <2> HIDE DEF I, first
  <2>2. m \in Nat /\ m <= k /\ k <= m
    BY <1>3, <1>4, <1>5, <1>6, <2>1
  <2> QED  BY <1>2, <1>3, <2>1, <2>2
<1>8. Chosen(oid) = IF first = 0 THEN "none" ELSE types[first]
  BY DEF Chosen
<1> HIDE DEF first
<1> QED  BY <1>7, <1>8

\* The chosen type is signed and as wide as the column.
LEMMA ChosenTypes ==
  /\ Chosen("int2") = "Int16" /\ Chosen("int4") = "Int32"
  /\ Chosen("int8") = "Int64" /\ Chosen("oid") = "OID"
<1>1. /\ types[1] = "Int16" /\ types[2] = "UInt16" /\ types[3] = "Int32" /\ types[4] = "UInt32"
      /\ types[5] = "Int64" /\ types[6] = "UInt64" /\ types[7] = "Int" /\ types[8] = "UInt"
      /\ types[9] = "Bool" /\ types[10] = "OID"
  BY DEF types
<1>2. \A oid : /\ Converts("Int16", oid) <=> oid = "int2"
               /\ Converts("UInt16", oid) <=> oid = "int2"
               /\ Converts("Int32", oid) <=> oid = "int4"
               /\ Converts("UInt32", oid) <=> oid = "int4"
               /\ Converts("Int64", oid) <=> oid = "int8"
               /\ Converts("UInt64", oid) <=> oid = "int8"
  BY SingleType DEF Single
<1>3. \A oid : (Converts("Bool", oid) <=> oid = "bool") /\ (Converts("OID", oid) <=> oid = "oid")
  BY SingleType DEF Single
<1>4. \A oid : /\ Converts("Int", oid) <=> oid \in {"int8", "int4", "int2"}
               /\ Converts("UInt", oid) <=> oid \in {"int8", "int4", "int2"}
  BY ManyTypes
<1>5. Chosen("int2") = "Int16"
  <2>1. \A i \in 1 .. 1 - 1 : ~Converts(types[i], "int2")
    OBVIOUS
  <2>2. Converts(types[1], "int2")
    BY <1>1, <1>2
  <2>3. Chosen("int2") = types[1]
    BY <2>1, <2>2, FirstIsChosen
  <2> QED  BY <1>1, <2>3
<1>6. Chosen("int4") = "Int32"
  <2>1. \A i \in 1 .. 3 - 1 : i = 1 \/ i = 2
    OBVIOUS
  <2>2. \A i \in 1 .. 3 - 1 : ~Converts(types[i], "int4")
    BY <1>1, <1>2, <2>1
  <2>3. Converts(types[3], "int4")
    BY <1>1, <1>2
  <2>4. Chosen("int4") = types[3]
    BY <2>2, <2>3, FirstIsChosen
  <2> QED  BY <1>1, <2>4
<1>7. Chosen("int8") = "Int64"
  <2>1. \A i \in 1 .. 5 - 1 : i = 1 \/ i = 2 \/ i = 3 \/ i = 4
    OBVIOUS
  <2>2. \A i \in 1 .. 5 - 1 : ~Converts(types[i], "int8")
    BY <1>1, <1>2, <2>1
  <2>3. Converts(types[5], "int8")
    BY <1>1, <1>2
  <2>4. Chosen("int8") = types[5]
    BY <2>2, <2>3, FirstIsChosen
  <2> QED  BY <1>1, <2>4
<1>8. Chosen("oid") = "OID"
  <2>1. \A i \in 1 .. 10 - 1 : i = 1 \/ i = 2 \/ i = 3 \/ i = 4 \/ i = 5 \/ i = 6 \/ i = 7 \/ i = 8 \/ i = 9
    OBVIOUS
  <2>2. \A i \in 1 .. 10 - 1 : ~Converts(types[i], "oid")
    BY <1>1, <1>2, <1>3, <1>4, <2>1
  <2>3. Converts(types[10], "oid")
    BY <1>1, <1>3
  <2>4. Chosen("oid") = types[10]
    BY <2>2, <2>3, FirstIsChosen
  <2> QED  BY <1>1, <2>4
<1> QED  BY <1>5, <1>6, <1>7, <1>8

(***************************************************************************)
(* Columns.                                                                *)
(***************************************************************************)
\* A column of integers and an integer type of its width.
Matches(T, oid, w) ==
  /\ T \in Integer /\ Width[T] = w /\ w \in Nat \ {0}
  /\ oid \in Integral /\ Length(oid) = w /\ Converts(T, oid) /\ (oid = "oid" <=> T = "OID")

\* Int and UInt, and a column that is narrower.
IsNarrow(T, oid) == T \in {"Int", "UInt"} /\ oid \in {"int2", "int4"}

\* An integer type is converted from columns of its width, and Int and UInt from narrower ones.
LEMMA IntegerPairs ==
  ASSUME NEW T \in Codable, NEW oid, Converts(T, oid), T \in Integer \/ oid \in Integral
  PROVE  T \in Integer /\ oid \in Integral /\ (IsNarrow(T, oid) \/ Matches(T, oid, Width[T]))
<1>1. /\ "Int16" \in Integer /\ "UInt16" \in Integer /\ "Int32" \in Integer /\ "UInt32" \in Integer
      /\ "Int64" \in Integer /\ "UInt64" \in Integer /\ "Int" \in Integer /\ "UInt" \in Integer
      /\ "OID" \in Integer
  BY DEF Integer, Width
<1>2. /\ Width["Int16"] = 2 /\ Width["UInt16"] = 2 /\ Width["Int32"] = 4 /\ Width["UInt32"] = 4
      /\ Width["Int64"] = 8 /\ Width["UInt64"] = 8 /\ Width["Int"] = 8 /\ Width["UInt"] = 8
      /\ Width["OID"] = 4
  BY DEF Width
<1>3. Length("int2") = 2 /\ Length("int4") = 4 /\ Length("int8") = 8 /\ Length("oid") = 4
  BY DEF Length
<1>4. CASE T \in {"Int16", "UInt16"}
  <2>1. oid = "int2"
    BY <1>4, SingleType DEF Single
  <2> QED  BY <1>1, <1>2, <1>3, <1>4, <2>1 DEF Matches, Integral
<1>5. CASE T \in {"Int32", "UInt32"}
  <2>1. oid = "int4"
    BY <1>5, SingleType DEF Single
  <2> QED  BY <1>1, <1>2, <1>3, <1>5, <2>1 DEF Matches, Integral
<1>6. CASE T \in {"Int64", "UInt64"}
  <2>1. oid = "int8"
    BY <1>6, SingleType DEF Single
  <2> QED  BY <1>1, <1>2, <1>3, <1>6, <2>1 DEF Matches, Integral
<1>7. CASE T = "OID"
  <2>1. oid = "oid"
    BY <1>7, SingleType DEF Single
  <2> QED  BY <1>1, <1>2, <1>3, <1>7, <2>1 DEF Matches, Integral
<1>8. CASE T \in {"Int", "UInt"}
  <2>1. oid \in {"int8", "int4", "int2"}
    BY <1>8, ManyTypes
  <2>2. CASE oid = "int8"
    BY <1>1, <1>2, <1>3, <1>8, <2>2 DEF Matches, Integral
  <2>3. CASE oid \in {"int4", "int2"}
    BY <1>1, <1>8, <2>3 DEF IsNarrow, Integral
  <2> QED  BY <2>1, <2>2, <2>3
<1>9. CASE T \in {"Bool", "Date", "UUID", "String", "Float", "Double"}
  <2>1. T \notin Integer
    BY <1>9 DEF Integer, Width
  <2>2. oid \notin Integral
    <3>1. CASE T \in {"Bool", "UUID", "Float"}
      BY <3>1, SingleType DEF Single, Integral
    <3>2. CASE T \in {"Date", "String", "Double"}
      BY <3>2, ManyTypes DEF Integral
    <3> QED  BY <1>9, <3>1, <3>2
  <2> QED  BY <2>1, <2>2
<1>10. \/ T \in {"Int16", "UInt16"} \/ T \in {"Int32", "UInt32"} \/ T \in {"Int64", "UInt64"}
       \/ T = "OID" \/ T \in {"Int", "UInt"}
       \/ T \in {"Bool", "Date", "UUID", "String", "Float", "Double"}
  BY DEF Codable, pgTypes
<1> QED  BY <1>4, <1>5, <1>6, <1>7, <1>8, <1>9, <1>10

\* What the client reads of a column.
Typed(T, oid, v, mode) == ParseAs(T, ServerSends(oid, v, mode), oid, mode)

\* A column of its own width is read with the type's sign, and a text if the type has the value.
LEMMA MatchingColumn ==
  ASSUME NEW T, NEW oid, NEW w, Matches(T, oid, w), NEW v \in Column(oid), NEW mode \in Modes
  PROVE  /\ v \in Int
         /\ mode = "text" => Typed(T, oid, v, mode) = IF v \in Swift(T) THEN Some(T, v) ELSE Nil
         /\ mode = "binary" => Typed(T, oid, v, mode)
              = Some(T, IF T \in Unsigned /\ v < 0 THEN v + Values(w) ELSE v)
         /\ T \notin Unsigned \/ T = "OID" => v \in Swift(T)
         /\ T \in Unsigned => \A u \in Swift(T) : u >= 0
<1>1. /\ T \in Integer /\ Width[T] = w /\ w \in Nat \ {0} /\ oid \in Integral /\ Length(oid) = w
      /\ Converts(T, oid) /\ (oid = "oid" <=> T = "OID")
  BY DEF Matches
<1>2. T \in {"Int16", "UInt16", "Int32", "UInt32", "Int64", "UInt64", "Int", "UInt", "OID"}
  BY <1>1 DEF Integer, Width
<1>3. oid # "bool" /\ T \in BinaryCodable
  BY <1>1, <1>2 DEF Integral, BinaryCodable, Codable, pgTypes
<1>4. Swift(T) = InRange(Width[T], T \notin Unsigned)
  BY <1>1, IntegerValues
<1>5. Column(oid) = InRange(w, oid # "oid")
  BY <1>1, <1>3 DEF Column, Integral
<1>6. /\ oid = "oid" => v \in InRange(w, FALSE)
      /\ oid # "oid" => v \in InRange(w, TRUE)
  BY <1>5
<1>7. /\ T \in Unsigned => Swift(T) = InRange(w, FALSE)
      /\ T \notin Unsigned => Swift(T) = InRange(w, TRUE)
  BY <1>1, <1>4
<1>8. v \in Int
  BY <1>1, <1>6, SignedRead, UnsignedRead
<1>9. ASSUME mode = "text"
      PROVE  Typed(T, oid, v, mode) = IF v \in Swift(T) THEN Some(T, v) ELSE Nil
  <2>1. ServerSends(oid, v, mode) = v
    BY <1>3, <1>9 DEF ServerSends, ServerText
  <2>2. FromText(T, v) = IF v \in Swift(T) THEN Some(T, v) ELSE Nil
    BY <1>1, <1>2 DEF FromText
  <2> QED  BY <1>1, <1>9, <2>1, <2>2 DEF Typed, ParseAs
<1>10. ASSUME mode = "binary"
       PROVE  Typed(T, oid, v, mode) = Some(T, IF T \in Unsigned /\ v < 0 THEN v + Values(w) ELSE v)
  <2>1. PICK data : data = BigEndian(v, w, Radix)
    OBVIOUS
  <2>2. Len(data) = w
    <3>1. Radix \in Nat /\ Radix > 1
      BY TypesAssumption
    <3> QED  BY <1>1, <1>8, <2>1, <3>1, BigEndianType
  <2>3. ServerSends(oid, v, mode) = data
    BY <1>1, <1>3, <1>10, <2>1 DEF ServerSends, ServerBinary
  <2>4. Typed(T, oid, v, mode) = FromBinary(T, data)
    BY <1>1, <1>3, <1>10, <2>3 DEF Typed, ParseAs
  <2>5. /\ T \in Unsigned => FromBinary(T, data) = Some(T, Decoded(data, FALSE, Radix))
        /\ T \notin Unsigned => FromBinary(T, data) = Some(T, Decoded(data, TRUE, Radix))
    BY <1>1, <2>2, FromIntegerBytes
  <2>6. CASE T \notin Unsigned
    <3>1. oid # "oid"
      BY <1>1, <2>6 DEF Unsigned
    <3>2. Decoded(data, TRUE, Radix) = v
      BY <1>1, <1>6, <2>1, <3>1, SignedRead
    <3> QED  BY <2>4, <2>5, <2>6, <3>2
  <2>7. CASE T \in Unsigned /\ T # "OID"
    <3>1. Decoded(data, FALSE, Radix) = AsUnsigned(v, w)
      BY <1>1, <1>6, <2>1, <2>7, SignedRead
    <3> QED  BY <2>4, <2>5, <2>7, <3>1 DEF AsUnsigned
  <2>8. CASE T \in Unsigned /\ T = "OID"
    <3>1. Decoded(data, FALSE, Radix) = v /\ v >= 0
      BY <1>1, <1>6, <2>1, <2>8, UnsignedRead
    <3>2. ~ (v < 0)
      BY <1>8, <3>1
    <3> QED  BY <2>4, <2>5, <2>8, <3>1, <3>2
  <2> QED  BY <2>6, <2>7, <2>8
<1>11. T \notin Unsigned \/ T = "OID" => v \in Swift(T)
  BY <1>1, <1>6, <1>7 DEF Unsigned
<1>12. ASSUME T \in Unsigned, NEW u \in Swift(T) PROVE u >= 0
  BY <1>1, <1>7, <1>12, UnsignedRead
<1> QED  BY <1>8, <1>9, <1>10, <1>11, <1>12

\* Int and UInt read a narrower column as 0, in binary.
LEMMA NarrowColumn ==
  ASSUME NEW T, NEW oid, IsNarrow(T, oid), Converts(T, oid), NEW v \in Column(oid), NEW mode \in Modes
  PROVE  /\ v \in Int
         /\ mode = "text" => Typed(T, oid, v, mode) = IF v \in Swift(T) THEN Some(T, v) ELSE Nil
         /\ mode = "binary" => Typed(T, oid, v, mode) = Some(T, 0)
         /\ T \in Unsigned => \A u \in Swift(T) : u >= 0
<1>1. T \in {"Int", "UInt"} /\ oid \in {"int2", "int4"}
  BY DEF IsNarrow
<1>2. T \in Integer /\ T \in BinaryCodable /\ oid \in Integral /\ oid # "bool"
  BY <1>1 DEF Integer, Width, BinaryCodable, Codable, pgTypes, Integral
<1>3. PICK w : w = Length(oid)
  OBVIOUS
<1>4. w \in {2, 4} /\ w \in Nat \ {0}
  BY <1>1, <1>3 DEF Length
<1>5. v \in Int
  <2>1. Column(oid) = InRange(w, oid # "oid")
    BY <1>1, <1>2, <1>3 DEF Column
  <2>2. v \in InRange(w, TRUE)
    BY <1>1, <2>1
  <2> QED  BY <1>4, <2>2, SignedRead
<1>6. ASSUME mode = "text"
      PROVE  Typed(T, oid, v, mode) = IF v \in Swift(T) THEN Some(T, v) ELSE Nil
  <2>1. ServerSends(oid, v, mode) = v
    BY <1>2, <1>6 DEF ServerSends, ServerText
  <2>2. FromText(T, v) = IF v \in Swift(T) THEN Some(T, v) ELSE Nil
    BY <1>1, <1>2 DEF FromText
  <2> QED  BY <1>6, <2>1, <2>2 DEF Typed, ParseAs
<1>7. ASSUME mode = "binary" PROVE Typed(T, oid, v, mode) = Some(T, 0)
  <2>1. PICK data : data = BigEndian(v, w, Radix)
    OBVIOUS
  <2>2. Len(data) = w
    <3>1. Radix \in Nat /\ Radix > 1
      BY TypesAssumption
    <3> QED  BY <1>4, <1>5, <2>1, <3>1, BigEndianType
  <2>3. ServerSends(oid, v, mode) = data
    BY <1>2, <1>3, <1>7, <2>1 DEF ServerSends, ServerBinary
  <2>4. Typed(T, oid, v, mode) = FromBinary(T, data)
    BY <1>2, <1>7, <2>3 DEF Typed, ParseAs
  <2>5. FromBinary(T, data) = AnyWidth(T, data)
    BY <1>1 DEF FromBinary
  <2>6. Len(data) \in {8, 4, 2} /\ Len(data) # 8
    BY <1>4, <2>2
  <2>7. FixedWidth("Int64", data) = Nil /\ FixedWidth("UInt64", data) = Nil
    <3>1. Width["Int64"] = 8 /\ Width["UInt64"] = 8
      BY DEF Width
    <3> QED  BY <2>6, <3>1 DEF FixedWidth
  <2>8. FixedWidth(IF T = "Int" THEN "Int64" ELSE "UInt64", data) = Nil
    BY <2>7
  <2>9. AnyWidth(T, data) = Some(T, 0)
    BY <2>6, <2>8 DEF AnyWidth
  <2> QED  BY <2>4, <2>5, <2>9
<1>8. ASSUME T \in Unsigned, NEW u \in Swift(T) PROVE u >= 0
  <2>1. Width[T] = 8 /\ Swift(T) = InRange(Width[T], T \notin Unsigned)
    BY <1>1, <1>2, IntegerValues DEF Width
  <2>2. PICK k \in Nat \ {0} : k = 8
    OBVIOUS
  <2>3. u \in InRange(k, FALSE)
    BY <1>8, <2>1, <2>2
  <2> QED  BY <2>3, UnsignedRead
<1> QED  BY <1>5, <1>6, <1>7, <1>8

(***************************************************************************)
(* What is read of a column, as a type and by the type that is chosen.     *)
(***************************************************************************)
\* What is not an integer is read as it was sent, or not at all.
LEMMA OtherColumn ==
  ASSUME NEW T \in Codable, NEW oid \in OIDs, Converts(T, oid), T \notin Integer,
         NEW v \in Column(oid), NEW mode \in Modes, Typed(T, oid, v, mode) # Nil
  PROVE  Typed(T, oid, v, mode).value = v
<1>1. T \in {"Bool", "Date", "UUID", "String", "Float", "Double"}
  BY DEF Codable, pgTypes, Integer, Width
<1>2. oid \notin Integral
  BY IntegerPairs
<1>3. CASE T = "Bool"
  <2>1. oid = "bool"
    BY <1>3, SingleType DEF Single
  <2>2. v \in BOOLEAN
    BY <1>2, <2>1 DEF Column
  <2>3. CASE mode = "text"
    <3>1. PICK t : t = ServerSends(oid, v, mode)
      OBVIOUS
    <3>2. t \in {"t", "f"}
      BY <2>1, <2>3, <3>1 DEF ServerSends, ServerText
    <3>3. FromText(T, t) = Nil
      BY <1>3, <3>2 DEF FromText
    <3>4. Typed(T, oid, v, mode) = Nil
      BY <2>3, <3>1, <3>3 DEF Typed, ParseAs
    <3> QED  BY <3>4
  <2>4. CASE mode = "binary"
    <3>1. PICK data : data = <<IF v THEN 1 ELSE 0>>
      OBVIOUS
    <3>2. DOMAIN data = {1} /\ (data[1] # 0) = v
      BY <2>2, <3>1
    <3>3. ServerSends(oid, v, mode) = data
      BY <1>2, <2>1, <2>4, <3>1 DEF ServerSends, ServerBinary
    <3>4. T \in BinaryCodable
      BY <1>3 DEF BinaryCodable, Codable, pgTypes
    <3>5. FromBinary(T, data) = Some(T, \E i \in DOMAIN data : data[i] # 0)
      BY <1>3 DEF FromBinary
    <3>6. (\E i \in DOMAIN data : data[i] # 0) = v
      BY <3>2
    <3>7. Typed(T, oid, v, mode) = Some(T, v)
      BY <2>4, <3>3, <3>4, <3>5, <3>6 DEF Typed, ParseAs
    <3> QED  BY <3>7 DEF Some
  <2> QED  BY <2>3, <2>4 DEF Modes
<1>4. CASE T # "Bool" /\ mode = "text"
  <2>1. oid # "bool"
    <3>1. CASE T \in {"UUID", "Float"}
      BY <3>1, SingleType DEF Single
    <3>2. CASE T \in {"Date", "String", "Double"}
      BY <3>2, ManyTypes
    <3> QED  BY <1>1, <1>4, <3>1, <3>2
  <2>2. ServerSends(oid, v, mode) = v
    BY <1>4, <2>1 DEF ServerSends, ServerText
  <2>3. FromText(T, v) = Some(T, v)
    BY <1>4 DEF FromText
  <2>4. Typed(T, oid, v, mode) = Some(T, v)
    BY <1>4, <2>2, <2>3 DEF Typed, ParseAs
  <2> QED  BY <2>4 DEF Some
<1>5. CASE T \in {"Float", "Double"} /\ mode = "binary"
  <2>1. T \notin BinaryCodable
    BY <1>5 DEF BinaryCodable
  <2> QED  BY <1>5, <2>1 DEF Typed, ParseAs
<1>6. CASE T \in {"Date", "UUID", "String"} /\ mode = "binary"
  <2>1. oid # "bool" /\ Length(oid) \in Nat \ {0}
    <3>1. CASE T = "UUID"
      BY <3>1, SingleType DEF Single, Length
    <3>2. CASE T \in {"Date", "String"}
      <4>1. oid \in {"timestamp", "timestamptz", "date", "text", "varchar", "bpchar"}
        BY <3>2, ManyTypes
      <4> QED  BY <4>1 DEF Length
    <3> QED  BY <1>6, <3>1, <3>2
  <2>2. PICK n \in Nat \ {0} : n = Length(oid)
    BY <2>1
  <2>3. PICK data : data = Filled(v, n)
    OBVIOUS
  <2>4. Len(data) = n /\ data[1] = v
    BY <2>3, FilledParts
  <2>5. ServerSends(oid, v, mode) = data
    BY <1>2, <1>6, <2>1, <2>2, <2>3 DEF ServerSends, ServerBinary
  <2>6. T \in BinaryCodable
    BY <1>6 DEF BinaryCodable, Codable, pgTypes
  <2>7. Typed(T, oid, v, mode) = FromBinary(T, data)
    BY <1>6, <2>5, <2>6 DEF Typed, ParseAs
  <2>8. FromBinary(T, data) = Nil \/ FromBinary(T, data) = Some(T, v)
    BY <1>6, <2>4 DEF FromBinary
  <2> QED  BY <2>7, <2>8 DEF Some
<1> QED  BY <1>1, <1>3, <1>4, <1>5, <1>6 DEF Modes

\* As ColumnsAreRead says it of what is read as a type.
TypedIsRead(T, oid, v, mode, typed) ==
  typed # Nil /\ ~ (mode = "binary" /\ T \in {"Int", "UInt"} /\ oid \in {"int2", "int4"}) =>
    typed.value = IF T \in Unsigned /\ v < 0 THEN v + Values(Width[T]) ELSE v

\* A column read as a type is the server's value, or its bits.
LEMMA TypedColumn ==
  ASSUME NEW T \in Codable, NEW oid \in OIDs, NEW v \in Column(oid), NEW mode \in Modes,
         NEW typed, typed = Typed(T, oid, v, mode)
  PROVE  TypedIsRead(T, oid, v, mode, typed)
<1>1. CASE ~Converts(T, oid)
  <2>1. typed = Nil
    BY <1>1 DEF Typed, ParseAs
  <2> QED  BY <2>1 DEF TypedIsRead
<1>2. CASE Converts(T, oid) /\ T \notin Integer
  <2>1. typed # Nil => typed.value = v
    BY <1>2, OtherColumn
  <2>2. T \notin {"Int", "UInt"} /\ T \notin Unsigned
    BY <1>2 DEF Integer, Width, Unsigned
  <2> QED  BY <2>1, <2>2 DEF TypedIsRead
<1>3. CASE Converts(T, oid) /\ IsNarrow(T, oid)
  <2>1. T \in {"Int", "UInt"} /\ oid \in {"int2", "int4"} /\ T # "nil"
    BY <1>3 DEF IsNarrow
  <2>2. CASE mode = "binary"
    BY <2>1, <2>2 DEF TypedIsRead
  <2>3. CASE mode = "text"
    <3>1. typed = IF v \in Swift(T) THEN Some(T, v) ELSE Nil
      BY <1>3, <2>3, NarrowColumn
    <3>2. v \in Int /\ (T \in Unsigned => \A u \in Swift(T) : u >= 0)
      BY <1>3, NarrowColumn
    <3>3. CASE v \in Swift(T)
      <4>1. typed.value = v
        BY <3>1, <3>3 DEF Some
      <4>2. T \in Unsigned => ~ (v < 0)
        <5>1. T \in Unsigned => v >= 0
          BY <3>2, <3>3
        <5> QED  BY <3>2, <5>1
      <4> QED  BY <2>3, <4>1, <4>2 DEF TypedIsRead
    <3>4. CASE v \notin Swift(T)
      BY <3>1, <3>4 DEF TypedIsRead
    <3> QED  BY <3>3, <3>4
  <2> QED  BY <2>2, <2>3 DEF Modes
<1>4. CASE Converts(T, oid) /\ Matches(T, oid, Width[T]) /\ ~IsNarrow(T, oid)
  <2>1. ~ (T \in {"Int", "UInt"} /\ oid \in {"int2", "int4"})
    BY <1>4 DEF IsNarrow
  <2>2. CASE mode = "binary"
    <3>1. typed = Some(T, IF T \in Unsigned /\ v < 0 THEN v + Values(Width[T]) ELSE v)
      BY <1>4, <2>2, MatchingColumn
    <3>2. typed.value = IF T \in Unsigned /\ v < 0 THEN v + Values(Width[T]) ELSE v
      BY <3>1 DEF Some
    <3> QED  BY <2>1, <3>2 DEF TypedIsRead
  <2>3. CASE mode = "text"
    <3>1. typed = IF v \in Swift(T) THEN Some(T, v) ELSE Nil
      BY <1>4, <2>3, MatchingColumn
    <3>2. v \in Int /\ (T \in Unsigned => \A u \in Swift(T) : u >= 0)
      BY <1>4, MatchingColumn
    <3>3. CASE v \in Swift(T)
      <4>1. typed.value = v
        BY <3>1, <3>3 DEF Some
      <4>2. T \in Unsigned => ~ (v < 0)
        <5>1. T \in Unsigned => v >= 0
          BY <3>2, <3>3
        <5> QED  BY <3>2, <5>1
      <4> QED  BY <2>3, <4>1, <4>2 DEF TypedIsRead
    <3>4. CASE v \notin Swift(T)
      BY <3>1, <3>4 DEF TypedIsRead
    <3> QED  BY <3>3, <3>4
  <2> QED  BY <2>2, <2>3 DEF Modes
<1> QED  BY <1>1, <1>2, <1>3, <1>4, IntegerPairs

\* Of a value that the type has there is something to read.
LEMMA NotNilColumn ==
  ASSUME NEW T \in Codable, NEW oid \in Integral, NEW v \in Column(oid), NEW mode \in Modes,
         Converts(T, oid), v \in Swift(T)
  PROVE  Typed(T, oid, v, mode) # Nil
<1>1. T \in Integer /\ (IsNarrow(T, oid) \/ Matches(T, oid, Width[T]))
  BY IntegerPairs
<1>2. T # "nil"
  BY <1>1 DEF Integer, Width
<1>3. \E x : Typed(T, oid, v, mode) = Some(T, x)
  <2>1. CASE IsNarrow(T, oid)
    BY <2>1, NarrowColumn DEF Modes
  <2>2. CASE Matches(T, oid, Width[T])
    <3>1. mode = "text" => Typed(T, oid, v, mode) = Some(T, v)
      BY <2>2, MatchingColumn
    <3>2. mode = "binary" => \E x : Typed(T, oid, v, mode) = Some(T, x)
      BY <2>2, MatchingColumn
    <3> QED  BY <3>1, <3>2 DEF Modes
  <2> QED  BY <1>1, <2>1, <2>2
<1> QED  BY <1>2, <1>3, SomeNotNil

\* What the client reads of a column by the type it chooses.
Untyped(oid, v, mode) ==
  IF Readable(Chosen(oid), mode) THEN ParseColumn(ServerSends(oid, v, mode), oid, mode) ELSE Nil

\* The type that is chosen for a column of integers has its width.
LEMMA ChosenMatches ==
  ASSUME NEW oid \in Integral
  PROVE  /\ Matches(Chosen(oid), oid, Width[Chosen(oid)])
         /\ Chosen(oid) \in {"Int16", "Int32", "Int64", "OID"} /\ oid \in OIDs
<1>1. Chosen(oid) \in {"Int16", "Int32", "Int64", "OID"} /\ oid \in OIDs
  BY ChosenTypes DEF Integral, OIDs
<1>2. PICK T : T = Chosen(oid)
  OBVIOUS
<1>3. T \in Codable /\ T \in Integer
  BY <1>1, <1>2 DEF Codable, pgTypes, Integer, Width
<1>4. Converts(T, oid)
  <2>1. /\ oid = "int2" => T = "Int16"
        /\ oid = "int4" => T = "Int32"
        /\ oid = "int8" => T = "Int64"
        /\ oid = "oid" => T = "OID"
    BY <1>2, ChosenTypes
  <2>2. /\ Converts("Int16", "int2") /\ Converts("Int32", "int4")
        /\ Converts("Int64", "int8") /\ Converts("OID", "oid")
    BY SingleType DEF Single
  <2> QED  BY <2>1, <2>2 DEF Integral
<1>5. ~IsNarrow(T, oid)
  BY <1>1, <1>2 DEF IsNarrow
<1>6. Matches(T, oid, Width[T])
  BY <1>3, <1>4, <1>5, IntegerPairs
<1> QED  BY <1>1, <1>2, <1>6

\* Read by the type that is chosen, no integer is lost or changed.
LEMMA UntypedColumn ==
  ASSUME NEW oid \in Integral, NEW v \in Column(oid), NEW mode \in Modes
  PROVE  Untyped(oid, v, mode) # Nil /\ Untyped(oid, v, mode).value = v
<1>1. PICK T : T = Chosen(oid)
  OBVIOUS
<1>2. Matches(T, oid, Width[T]) /\ T \in {"Int16", "Int32", "Int64", "OID"}
  BY <1>1, ChosenMatches
<1>3. Readable(T, mode) /\ T # "none" /\ T # "nil"
  BY <1>2 DEF Readable
<1>4. Untyped(oid, v, mode) = Typed(T, oid, v, mode)
  BY <1>1, <1>3 DEF Untyped, ParseColumn, Typed
<1>5. v \in Int /\ v \in Swift(T)
  <2>1. T \notin Unsigned \/ T = "OID"
    BY <1>2 DEF Unsigned
  <2> QED  BY <1>2, <2>1, MatchingColumn
<1>6. T \in Unsigned => ~ (v < 0)
  <2>1. T \in Unsigned => v >= 0
    BY <1>2, <1>5, MatchingColumn
  <2> QED  BY <1>5, <2>1
<1>7. Typed(T, oid, v, mode) = Some(T, v)
  <2>1. CASE mode = "text"
    BY <1>2, <1>5, <2>1, MatchingColumn
  <2>2. CASE mode = "binary"
    <3>1. Typed(T, oid, v, mode) = Some(T, IF T \in Unsigned /\ v < 0 THEN v + Values(Width[T]) ELSE v)
      BY <1>2, <2>2, MatchingColumn
    <3> QED  BY <1>6, <3>1
  <2> QED  BY <2>1, <2>2 DEF Modes
<1> QED  BY <1>3, <1>4, <1>7, SomeNotNil

(***************************************************************************)
(* Bindings that a query is updated with.                                  *)
(***************************************************************************)
LEMMA BindingRead ==
  ASSUME NEW T \in BindingTypes, NEW v \in Swift(T)
  PROVE  ServerReads(Declared(T), T, v) = Some(Declared(T), Wrapped(T, v))
<1>1. CASE T = "Float"
  <2>1. PICK oid, n : IsPassedOn(T, oid, n)
    BY <1>1, PassedOnTypes
  <2>2. ServerReads(oid, T, v) = Some(oid, v) /\ Declared(T) = oid
    BY <2>1, PassedOnSent DEF IsPassedOn
  <2>3. Wrapped(T, v) = v
    BY <1>1 DEF Wrapped, Unsigned
  <2> QED  BY <2>2, <2>3
<1>2. CASE T # "Float"
  <2>1. T \in Integer
    BY <1>2 DEF BindingTypes, Integer, Width
  <2>2. PICK oid, w : IsIntegerType(T, oid, w)
    BY <2>1, IntegerTypes
  <2>3. ServerReads(oid, T, v) = Some(oid, Wrapped(T, v)) /\ Declared(T) = oid
    BY <2>1, <2>2, IntegerSent DEF IsIntegerType
  <2> QED  BY <2>3
<1> QED  BY <1>1, <1>2

(***************************************************************************)
(* Steps.                                                                  *)
(***************************************************************************)
\* A kind tells the action that was taken.
LEMMA StepsByKind ==
  ASSUME Next
  PROVE  /\ kind' = "error" => ErrorResponse
         /\ kind' = "row" => DataRow
         /\ kind' = "description" => RowDescription
         /\ kind' = "shortRow" => ShortRow
         /\ kind' = "command" => CommandComplete
         /\ kind' = "otherCommand" => OtherCommand
         /\ kind' = "wholeCommand" => WholeCommand
         /\ kind' = "burst" => Burst
         /\ kind' = "startup" => SendStartup
         /\ kind' = "describe" => Describe
         /\ kind' = "execute" => Execute
         /\ kind' = "parse" => Parse
         /\ kind' = "bind" => Bind
         /\ kind' = "column" => ReadValue
         /\ kind' = "echo" => Echo
         /\ kind' = "update" => UpdateBindings
         /\ kind' # "none"
<1>1. ASSUME ErrorResponse PROVE kind' = "error"
  BY <1>1, Zenon DEF ErrorResponse
<1>2. ASSUME DataRow PROVE kind' = "row"
  BY <1>2, Zenon DEF DataRow
<1>3. ASSUME RowDescription PROVE kind' = "description"
  BY <1>3, Zenon DEF RowDescription
<1>4. ASSUME ShortRow PROVE kind' = "shortRow"
  BY <1>4, Zenon DEF ShortRow
<1>5. ASSUME CommandComplete PROVE kind' = "command"
  BY <1>5, Zenon DEF CommandComplete
<1>6. ASSUME OtherCommand PROVE kind' = "otherCommand"
  BY <1>6, Zenon DEF OtherCommand
<1>7. ASSUME Burst PROVE kind' = "burst"
  BY <1>7, Zenon DEF Burst
<1>8. ASSUME SendStartup PROVE kind' = "startup"
  BY <1>8, Zenon DEF SendStartup
<1>9. ASSUME Describe PROVE kind' = "describe"
  BY <1>9, Zenon DEF Describe
<1>10. ASSUME Execute PROVE kind' = "execute"
  BY <1>10, Zenon DEF Execute
<1>11. ASSUME Parse PROVE kind' = "parse"
  BY <1>11, Zenon DEF Parse
<1>12. ASSUME Bind PROVE kind' = "bind"
  BY <1>12, Zenon DEF Bind
<1>13. ASSUME ReadValue PROVE kind' = "column"
  BY <1>13, Zenon DEF ReadValue
<1>14. ASSUME Echo PROVE kind' = "echo"
  BY <1>14, Zenon DEF Echo
<1>15. ASSUME UpdateBindings PROVE kind' = "update"
  BY <1>15, Zenon DEF UpdateBindings
<1>16. ASSUME WholeCommand PROVE kind' = "wholeCommand"
  BY <1>16, Zenon DEF WholeCommand
<1> QED  BY <1>1, <1>2, <1>3, <1>4, <1>5, <1>6, <1>7, <1>8, <1>9, <1>10, <1>11, <1>12, <1>13, <1>14,
            <1>15, <1>16 DEF Next

\* A step about a row or its description reads what was written, or throws if the row is cut.
LEMMA RowStep == ASSUME Next PROVE RowsAreRead'
<1>1. ASSUME kind' = "row" PROVE got' = Done(given', <<>>)
  <2>1. DataRow
    BY <1>1, StepsByKind
  <2>2. PICK row : row = given'
    OBVIOUS
  <2>3. row \in Lists(Columns) /\ got' = ReadRow(WriteRow(row))
    BY <2>1, <2>2 DEF DataRow, Columns
  <2>4. <<>> \in Octets /\ WriteRow(row) \in Octets /\ WriteRow(row) \o <<>> = WriteRow(row)
    BY <2>3, RowRead, OctetsConcatEmpty
  <2>5. ReadRow(WriteRow(row) \o <<>>) = Done(row, <<>>)
    BY <2>3, <2>4, RowRead
  <2> QED  BY <2>2, <2>3, <2>4, <2>5
<1>2. ASSUME kind' = "description"
      PROVE  got' = Done([i \in DOMAIN given' |->
                     [given'[i] EXCEPT !.mode = IF @ = 1 THEN 1 ELSE 0]], <<>>)
  <2>1. RowDescription
    BY <1>2, StepsByKind
  <2>2. PICK row, data : row = given' /\ data = wire'
    OBVIOUS
  <2>3. /\ row \in BoundedSeq(Descriptions, MaxColumns)
        /\ data = Bytes(Len(row), 2) \o FlattenSeq([i \in DOMAIN row |-> WriteDescription(row[i])])
        /\ got' = LET count == ReadNumber(2, FALSE, data)
                  IN ReadList(ReadDescription, count.value, count.rest)
    BY <2>1, <2>2 DEF RowDescription
  <2>4. LET count == ReadNumber(2, FALSE, data)
        IN ReadList(ReadDescription, count.value, count.rest)
              = Done([i \in DOMAIN row |-> Shown(row[i])], <<>>)
    BY <2>3, DescriptionsWhole
  <2>5. got' = Done([i \in DOMAIN row |-> Shown(row[i])], <<>>)
    BY <2>3, <2>4
  <2> QED  BY <2>2, <2>5 DEF Shown
<1>3. ASSUME kind' = "shortRow" PROVE ~got'.ok
  <2>1. ShortRow
    BY <1>3, StepsByKind
  <2>2. PICK row, data : row = given' /\ data = wire'
    OBVIOUS
  <2>3. /\ row \in Lists(Columns) /\ got' = ReadRow(data)
        /\ \E n \in 0 .. Len(WriteRow(row)) - 1 : data = SubSeq(WriteRow(row), 1, n)
    BY <2>1, <2>2 DEF ShortRow, Columns
  <2> QED  BY <2>3, ShortRowThrown
<1> QED  BY <1>1, <1>2, <1>3 DEF RowsAreRead

\* A step about an error reads all that precedes the first unknown field.
LEMMA ErrorStep == ASSUME Next PROVE ErrorsAreRead'
<1>1. ASSUME kind' = "error" PROVE ErrorIsRead(given', got')
  <2>1. ErrorResponse
    BY <1>1, StepsByKind
  <2>2. PICK fields, read : fields = given' /\ read = got'
    OBVIOUS
  <2>3. fields \in Lists(Sent \X Strings) /\ read = ReadFields(WriteError(fields))
    BY <2>1, <2>2 DEF ErrorResponse
  <2>4. ErrorIsRead(fields, read)
    BY <2>3, ErrorRead
  <2> QED  BY <2>2, <2>4
<1> QED  BY <1>1 DEF ErrorsAreRead, ErrorIsRead

\* A step about a command reads its count.
LEMMA ResultStep == ASSUME Next PROVE ResultsCountRows'
<1>1. ASSUME kind' = "command"
      PROVE  CountRead(given'.command, given'.affected, given'.rows, got')
  <2>1. CommandComplete
    BY <1>1, StepsByKind
  <2>2. PICK g, read : g = given' /\ read = got'
    OBVIOUS
  <2>3. /\ g \in [command : Kinds, affected : Affected, rows : Affected]
        /\ read = QueryResult(Tag(g.command, g.affected), g.rows)
    BY <2>1, <2>2 DEF CommandComplete
  <2>4. MaxItems \in Nat /\ \A n \in Affected : n \in Int
    BY Bounds DEF Affected
  <2>5. PICK c, a, r : c = g.command /\ a = g.affected /\ r = g.rows
    OBVIOUS
  <2>6. c \in Kinds /\ a \in Int /\ r \in Int /\ read = QueryResult(Tag(c, a), r)
    BY <2>3, <2>4, <2>5
  <2>7. CountRead(c, a, r, read)
    BY <2>6, CommandRead
  <2> QED  BY <2>2, <2>5, <2>7
<1>2. ASSUME kind' = "otherCommand" PROVE ~got'.ok
  <2>1. OtherCommand
    BY <1>2, StepsByKind
  <2> QED  BY <2>1, OtherRead DEF OtherCommand
<1>3. ASSUME kind' = "wholeCommand" PROVE got'.ok
  <2>1. WholeCommand
    BY <1>3, StepsByKind
  <2> QED  BY <2>1, WholeRead DEF WholeCommand
<1> QED  BY <1>1, <1>2, <1>3 DEF ResultsCountRows, CountRead

\* A step about a burst cuts it into its messages.
LEMMA BurstStep == ASSUME Next PROVE MessagesAreFramed'
<1>1. ASSUME kind' = "burst" PROVE got' = Done(given', <<>>)
  <2> DEFINE Later == [type : {81}, body : Strings] \cup [type : {83}, body : {<<>>}]
  <2>1. Burst
    BY <1>1, StepsByKind
  <2>2. PICK ms : ms = given'
    OBVIOUS
  <2>3. /\ \E startup \in Strings, rest \in Lists(Later) :
             ms = <<[type |-> Startup, body |-> startup]>> \o rest
        /\ got' = Cut(FlattenSeq([i \in DOMAIN ms |-> Message(ms[i].type, ms[i].body)]))
    BY <2>1, <2>2 DEF Burst
  <2>4. Cut(FlattenSeq([i \in DOMAIN ms |-> Message(ms[i].type, ms[i].body)])) = Done(ms, <<>>)
    BY <2>3, BurstWhole
  <2> QED  BY <2>2, <2>3, <2>4
<1> QED  BY <1>1 DEF MessagesAreFramed

\* A step about a request reads what was meant.
LEMMA RequestStep == ASSUME Next PROVE RequestsAreUnderstood'
<1>1. ASSUME kind' = "parse" PROVE got' = given'
  <2>1. Parse
    BY <1>1, StepsByKind
  <2>2. PICK g, data : g = given' /\ data = wire'
    OBVIOUS
  <2>3. PICK name, query, listed : name = g.name /\ query = g.query /\ listed = g.types
    OBVIOUS
  <2>4. /\ g \in [name : Strings, query : Strings, types : Lists(Longs \cup {0})]
        /\ data = Terminated(name) \o Terminated(query) \o Bytes(Len(listed), 2)
                     \o FlattenSeq([i \in DOMAIN listed |-> Bytes(listed[i], 4)])
    BY <2>1, <2>2, <2>3 DEF Parse
  <2>5. PICK n : n = ReadString(data)
    OBVIOUS
  <2>6. PICK q : q = ReadString(n.rest)
    OBVIOUS
  <2>7. PICK c : c = ReadNumber(2, FALSE, q.rest)
    OBVIOUS
  <2>8. PICK read : read = ReadList(ReadOID, c.value, c.rest)
    OBVIOUS
  <2>9. got' = IF ~read.ok THEN <<>> ELSE [name |-> n.value, query |-> q.value, types |-> read.value]
    BY <2>1, <2>2, <2>5, <2>6, <2>7, <2>8 DEF Parse
  <2>10. name \in Strings /\ query \in Strings /\ listed \in Lists(Longs \cup {0})
    BY <2>3, <2>4
  <2>11. read.ok /\ n.value = name /\ q.value = query /\ read.value = listed
    <3>1. IsParse(data, name, query, listed)
      BY <2>4 DEF IsParse
    <3>2. ListedIn(data, name, query, listed)
      BY <2>10, <3>1, ParseRead
    <3> QED  BY <2>5, <2>6, <2>7, <2>8, <3>2 DEF ListedIn
  <2>12. got' = [name |-> name, query |-> query, types |-> listed]
    BY <2>9, <2>11
  <2>13. g = [name |-> name, query |-> query, types |-> listed]
    BY <2>3, <2>4
  <2> QED  BY <2>2, <2>12, <2>13
<1>2. ASSUME kind' = "bind" PROVE got' = given'
  <2>1. Bind
    BY <1>2, StepsByKind
  <2>2. PICK g, data : g = given' /\ data = wire'
    OBVIOUS
  <2>3. PICK statement, ps, binary :
          statement = g.statement /\ ps = g.parameters /\ binary = g.binaryResults
    OBVIOUS
  <2>4. /\ g \in [statement : Strings, parameters : Lists(Parameters), binaryResults : BOOLEAN]
        /\ data = Terminated(<<>>) \o Terminated(statement) \o WriteParameters(ps)
                     \o Bytes(1, 2) \o Bytes(Mode(binary), 2)
    BY <2>1, <2>2, <2>3 DEF Bind
  <2>5. PICK portal : portal = ReadString(data)
    OBVIOUS
  <2>6. PICK named : named = ReadString(portal.rest)
    OBVIOUS
  <2>7. PICK read : read = ReadParameters(named.rest)
    OBVIOUS
  <2>8. got' = IF ~read.ok THEN <<>>
               ELSE [statement |-> named.value, parameters |-> read.value,
                     binaryResults |-> read.rest = <<0, 1, 0, 1>>]
    BY <2>1, <2>2, <2>5, <2>6, <2>7 DEF Bind
  <2>9. statement \in Strings /\ ps \in Lists(Parameters) /\ binary \in BOOLEAN
    BY <2>3, <2>4
  <2>10. BoundValues(data, statement, ps, binary)
    BY <2>4, <2>9, BindRead
  <2>11. /\ read.ok /\ named.value = statement /\ read.value = ps
         /\ (read.rest = <<0, 1, 0, 1>>) <=> binary
    BY <2>5, <2>6, <2>7, <2>10 DEF BoundValues
  <2>12. got' = [statement |-> statement, parameters |-> ps, binaryResults |-> binary]
    <3>1. (read.rest = <<0, 1, 0, 1>>) = binary
      BY <2>9, <2>11
    <3> QED  BY <2>8, <2>11, <3>1
  <2>13. g = [statement |-> statement, parameters |-> ps, binaryResults |-> binary]
    BY <2>3, <2>4
  <2> QED  BY <2>2, <2>12, <2>13
<1>3. ASSUME kind' = "describe" PROVE got' = given'
  <2>1. Describe
    BY <1>3, StepsByKind
  <2>2. PICK g, data, target, name : g = given' /\ data = wire' /\ target = g.target /\ name = g.name
    OBVIOUS
  <2>3. /\ g \in [target : {80, 83}, name : Strings] /\ data = <<target>> \o Terminated(name)
        /\ got' = [target |-> Head(data), name |-> ReadString(Tail(data)).value]
    BY <2>1, <2>2 DEF Describe
  <2>4. target \in {80, 83} /\ name \in Strings /\ g = [target |-> target, name |-> name]
    BY <2>2, <2>3
  <2>5. Head(data) = target /\ ReadString(Tail(data)).value = name
    <3>1. IsDescribe(data, target, name)
      BY <2>3 DEF IsDescribe
    <3>2. target \in {80, 83} /\ name \in Strings
      BY <2>4
    <3>3. DescribedIn(data, target, name)
      BY <3>1, <3>2, DescribeRead
    <3> QED  BY <3>3 DEF DescribedIn
  <2> QED  BY <2>2, <2>3, <2>4, <2>5
<1>4. ASSUME kind' = "execute" PROVE got' = given'
  <2>1. Execute
    BY <1>4, StepsByKind
  <2>2. PICK g, data, portal, rows : g = given' /\ data = wire' /\ portal = g.portal /\ rows = g.rows
    OBVIOUS
  <2>3. /\ g \in [portal : Strings, rows : Shorts \cup Longs]
        /\ data = Terminated(portal) \o Bytes(rows, 4)
        /\ got' = [portal |-> ReadString(data).value,
                   rows |-> ReadNumber(4, TRUE, ReadString(data).rest).value]
    BY <2>1, <2>2 DEF Execute
  <2>4. portal \in Strings /\ rows \in Shorts \cup Longs /\ g = [portal |-> portal, rows |-> rows]
    BY <2>2, <2>3
  <2>5. ReadString(data).value = portal /\ ReadNumber(4, TRUE, ReadString(data).rest).value = rows
    <3>1. IsExecute(data, portal, rows)
      BY <2>3 DEF IsExecute
    <3>2. portal \in Strings /\ rows \in Shorts \cup Longs
      BY <2>4
    <3>3. ExecutedIn(data, portal, rows)
      BY <3>1, <3>2, ExecuteRead
    <3> QED  BY <3>3 DEF ExecutedIn
  <2> QED  BY <2>2, <2>3, <2>4, <2>5
<1>5. ASSUME kind' = "startup" PROVE got' = Done(StartupPairs(given'.user, given'.database), << 0 >>)
  <2>1. SendStartup
    BY <1>5, StepsByKind
  <2>2. PICK g, data, user, database :
          g = given' /\ data = wire' /\ user = g.user /\ database = g.database
    OBVIOUS
  <2>3. /\ g \in [user : Strings, database : Strings \cup {Null}]
        /\ data = StartupBody(user, database) /\ got' = ReadPairs(SubSeq(data, 5, Len(data)))
    BY <2>1, <2>2 DEF SendStartup
  <2>4. user \in Strings /\ database \in Strings \cup {Null}
    BY <2>2, <2>3
  <2>5. ReadPairs(SubSeq(data, 5, Len(data))) = Done(StartupPairs(user, database), << 0 >>)
    BY <2>3, <2>4, StartupRead
  <2> QED  BY <2>2, <2>3, <2>5
<1>6. kind' \in {"parse", "bind", "describe", "execute"} => got' = given'
  BY <1>1, <1>2, <1>3, <1>4
<1> QED  BY <1>5, <1>6 DEF RequestsAreUnderstood, StartupPairs

\* A step about a parameter returns its value, or nil.
LEMMA EchoStep == ASSUME Next PROVE EchoesAreExact'
<1>1. ASSUME kind' = "echo" PROVE IsExact(given'.T, given'.mode, given'.value, got')
  <2>1. Echo
    BY <1>1, StepsByKind
  <2>2. PICK g, echo : g = given' /\ echo = got'
    OBVIOUS
  <2>3. /\ \E T \in Codable, mode \in Modes :
             /\ Readable(T, mode)
             /\ \E v \in Swift(T) : g = [T |-> T, mode |-> mode, value |-> v]
        /\ echo = Returned(g.T, g.mode, g.value)
    BY <2>1, <2>2 DEF Echo, Returned
  <2>4. PICK T \in Codable, mode \in Modes :
             /\ Readable(T, mode)
             /\ \E v \in Swift(T) : g = [T |-> T, mode |-> mode, value |-> v]
    BY <2>3
  <2>5. PICK v \in Swift(T) : g = [T |-> T, mode |-> mode, value |-> v]
    BY <2>4
  <2>6. g.T = T /\ g.mode = mode /\ g.value = v
    BY <2>5
  <2>7. IsExact(T, mode, v, echo)
    BY <2>3, <2>4, <2>6, ReturnedIsExact
  <2> QED  BY <2>2, <2>6, <2>7
<1> QED  BY <1>1 DEF EchoesAreExact, IsExact

\* A step about a column reads its value, or nil.
LEMMA ColumnStep == ASSUME Next PROVE ColumnsAreRead'
<1>1. ASSUME kind' = "column"
      PROVE  /\ TypedIsRead(given'.T, given'.oid, given'.value, given'.mode, got'.typed)
             /\ given'.oid \in Integral =>
                  /\ got'.untyped # Nil /\ got'.untyped.value = given'.value
                  /\ Converts(given'.T, given'.oid) /\ given'.value \in Swift(given'.T) => got'.typed # Nil
  <2>1. ReadValue
    BY <1>1, StepsByKind
  <2>2. PICK g, read : g = given' /\ read = got'
    OBVIOUS
  <2>3. /\ \E oid \in OIDs, mode \in Modes, T \in Codable :
             /\ Readable(T, mode)
             /\ \E v \in Column(oid) : g = [oid |-> oid, mode |-> mode, T |-> T, value |-> v]
        /\ read = [typed |-> Typed(g.T, g.oid, g.value, g.mode), untyped |-> Untyped(g.oid, g.value, g.mode)]
    BY <2>1, <2>2 DEF ReadValue, Typed, Untyped
  <2>4. PICK oid \in OIDs, mode \in Modes, T \in Codable :
          \E v \in Column(oid) : g = [oid |-> oid, mode |-> mode, T |-> T, value |-> v]
    BY <2>3
  <2>5. PICK v \in Column(oid) : g = [oid |-> oid, mode |-> mode, T |-> T, value |-> v]
    BY <2>4
  <2>6. g.oid = oid /\ g.mode = mode /\ g.T = T /\ g.value = v
    BY <2>5
  <2>7. read.typed = Typed(T, oid, v, mode) /\ read.untyped = Untyped(oid, v, mode)
    BY <2>3, <2>6
  <2>8. TypedIsRead(T, oid, v, mode, read.typed)
    BY <2>7, TypedColumn
  <2>9. oid \in Integral => read.untyped # Nil /\ read.untyped.value = v
    BY <2>7, UntypedColumn
  <2>10. oid \in Integral /\ Converts(T, oid) /\ v \in Swift(T) => read.typed # Nil
    BY <2>7, NotNilColumn
  <2> QED  BY <2>2, <2>6, <2>8, <2>9, <2>10
<1> QED  BY <1>1 DEF ColumnsAreRead, Narrow, TypedIsRead

\* A step about an update accepts only bindings that the server reads as they are.
LEMMA UpdateStep == ASSUME Next PROVE UpdatedBindingsFit'
<1> SUFFICES ASSUME kind' = "update", got'.accepted
             PROVE  /\ Len(given'.old) = Len(given'.new)
                    /\ \A i \in DOMAIN given'.new :
                         LET T == given'.new[i].type
                         IN T # "nil" =>
                              got'.read[i] = Some(Declared(T), Wrapped(T, given'.new[i].value))
  BY DEF UpdatedBindingsFit
<1>1. UpdateBindings
  BY StepsByKind
<1>2. PICK old, new, read : old = given'.old /\ new = given'.new /\ read = got'.read
  OBVIOUS
<1>3. old \in BoundedSeq(BindingTypes \cup {"nil"}, 2) /\ new \in BoundedSeq(Bindings, 2)
  BY <1>1, <1>2 DEF UpdateBindings
<1>4. Update(old, new)
  BY <1>1, <1>2 DEF UpdateBindings
<1>5. read = [i \in DOMAIN new |->
                IF new[i].type = "nil" \/ i \notin DOMAIN old THEN Nil
                ELSE ServerReads(Declared(old[i]), new[i].type, new[i].value)]
  BY <1>1, <1>2 DEF UpdateBindings
<1>6. Len(old) = Len(new) /\ \A i \in DOMAIN new : new[i].type # "nil" => new[i].type = old[i]
  BY <1>4 DEF Update
<1>7. DOMAIN old = DOMAIN new /\ \A i \in DOMAIN new : new[i] \in Bindings
  <2>1. PICK m \in 0 .. 2 : old \in [1 .. m -> BindingTypes \cup {"nil"}]
    BY <1>3 DEF BoundedSeq, SeqOf
  <2>2. PICK n \in 0 .. 2 : new \in [1 .. n -> Bindings]
    BY <1>3 DEF BoundedSeq, SeqOf
  <2>3. Len(old) = m /\ Len(new) = n
    BY <2>1, <2>2
  <2>4. m = n
    BY <1>6, <2>3
  <2> QED  BY <2>1, <2>2, <2>4
<1>8. ASSUME NEW i \in DOMAIN new, new[i].type # "nil"
      PROVE  read[i] = Some(Declared(new[i].type), Wrapped(new[i].type, new[i].value))
  <2>1. PICK b : b = new[i]
    OBVIOUS
  <2>2. PICK T, v : T = b.type /\ v = b.value
    OBVIOUS
  <2>3. T \in BindingTypes /\ v \in Swift(T)
    <3>1. b \in Bindings /\ b.type # "nil"
      BY <1>7, <1>8, <2>1
    <3>2. PICK S \in BindingTypes : b \in [type : {S}, value : Swift(S)]
      BY <3>1 DEF Bindings
    <3> QED  BY <2>2, <3>2
  <2>4. read[i] = ServerReads(Declared(T), T, v)
    BY <1>5, <1>6, <1>7, <1>8, <2>1, <2>2
  <2> QED  BY <2>1, <2>2, <2>3, <2>4, BindingRead
<1> QED  BY <1>2, <1>6, <1>8

(***************************************************************************)
(* The properties of every step, and so of every state.                    *)
(***************************************************************************)
\* Connection.process reads every row of values and every description of columns as
\* the server wrote it, for any strings, numbers and lengths that the counts of the
\* protocol can hold; and no prefix of a row is read as one.
THEOREM ProtocolRows == Spec => []RowsAreRead
<1>1. Init => RowsAreRead
  BY DEF Init, RowsAreRead
<1>2. RowsAreRead /\ [Next]_vars => RowsAreRead'
  <2>1. ASSUME RowsAreRead, UNCHANGED vars PROVE RowsAreRead'
    BY <2>1 DEF vars, RowsAreRead
  <2>2. ASSUME Next PROVE RowsAreRead'
    BY <2>2, RowStep
  <2> QED  BY <2>1, <2>2
<1> QED  BY <1>1, <1>2, PTL DEF Spec

\* Connection.process reads an error whose fields it all knows as it was sent; of any
\* other, never less or other fields before the first unknown one (or it throws).
THEOREM ProtocolErrors == Spec => []ErrorsAreRead
<1>1. Init => ErrorsAreRead
  BY DEF Init, ErrorsAreRead
<1>2. ErrorsAreRead /\ [Next]_vars => ErrorsAreRead'
  <2>1. ASSUME ErrorsAreRead, UNCHANGED vars PROVE ErrorsAreRead'
    BY <2>1 DEF vars, ErrorsAreRead
  <2>2. ASSUME Next PROVE ErrorsAreRead'
    BY <2>2, ErrorStep
  <2> QED  BY <2>1, <2>2
<1> QED  BY <1>1, <1>2, PTL DEF Spec

\* QueryResult.init counts the rows the server says a command affected (that of INSERT is
\* left open), and refuses a SELECT of which rows are missing and every tag without a count.
THEOREM ProtocolResults == Spec => []ResultsCountRows
<1>1. Init => ResultsCountRows
  BY DEF Init, ResultsCountRows
<1>2. ResultsCountRows /\ [Next]_vars => ResultsCountRows'
  <2>1. ASSUME ResultsCountRows, UNCHANGED vars PROVE ResultsCountRows'
    BY <2>1 DEF vars, ResultsCountRows
  <2>2. ASSUME Next PROVE ResultsCountRows'
    BY <2>2, ResultStep
  <2> QED  BY <2>1, <2>2
<1> QED  BY <1>1, <1>2, PTL DEF Spec

\* FrontendMessage's sizes are right: the server cuts a startup message and any messages
\* sent behind it exactly where the client meant.
THEOREM ProtocolFraming == Spec => []MessagesAreFramed
<1>1. Init => MessagesAreFramed
  BY DEF Init, MessagesAreFramed
<1>2. MessagesAreFramed /\ [Next]_vars => MessagesAreFramed'
  <2>1. ASSUME MessagesAreFramed, UNCHANGED vars PROVE MessagesAreFramed'
    BY <2>1 DEF vars, MessagesAreFramed
  <2>2. ASSUME Next PROVE MessagesAreFramed'
    BY <2>2, BurstStep
  <2> QED  BY <2>1, <2>2
<1> QED  BY <1>1, <1>2, PTL DEF Spec

\* The server reads of sendStartup, parse, bind, describe and execute what the client
\* meant: each parameter with its own format and value, and each name with its value.
THEOREM ProtocolRequests == Spec => []RequestsAreUnderstood
<1>1. Init => RequestsAreUnderstood
  BY DEF Init, RequestsAreUnderstood
<1>2. RequestsAreUnderstood /\ [Next]_vars => RequestsAreUnderstood'
  <2>1. ASSUME RequestsAreUnderstood, UNCHANGED vars PROVE RequestsAreUnderstood'
    BY <2>1 DEF vars, RequestsAreUnderstood
  <2>2. ASSUME Next PROVE RequestsAreUnderstood'
    BY <2>2, RequestStep
  <2> QED  BY <2>1, <2>2
<1> QED  BY <1>1, <1>2, PTL DEF Spec

\* For a byte of any even number of values: a value of any codable type that is bound,
\* and read from the result as that type again, is the same value or nil, never another.
THEOREM ProtocolEchoes == Spec => []EchoesAreExact
<1>1. Init => EchoesAreExact
  BY DEF Init, EchoesAreExact
<1>2. EchoesAreExact /\ [Next]_vars => EchoesAreExact'
  <2>1. ASSUME EchoesAreExact, UNCHANGED vars PROVE EchoesAreExact'
    BY <2>1 DEF vars, EchoesAreExact
  <2>2. ASSUME Next PROVE EchoesAreExact'
    BY <2>2, EchoStep
  <2> QED  BY <2>1, <2>2
<1> QED  BY <1>1, <1>2, PTL DEF Spec

\* For a byte of any even number of values: a column read as any type is the server's
\* value, its bits or nil (what Int and UInt read of narrower binary columns is left open);
\* an integer read by the type the parser chooses is its value, never nil.
THEOREM ProtocolColumns == Spec => []ColumnsAreRead
<1>1. Init => ColumnsAreRead
  BY DEF Init, ColumnsAreRead
<1>2. ColumnsAreRead /\ [Next]_vars => ColumnsAreRead'
  <2>1. ASSUME ColumnsAreRead, UNCHANGED vars PROVE ColumnsAreRead'
    BY <2>1 DEF vars, ColumnsAreRead, Narrow
  <2>2. ASSUME Next PROVE ColumnsAreRead'
    BY <2>2, ColumnStep
  <2> QED  BY <2>1, <2>2
<1> QED  BY <1>1, <1>2, PTL DEF Spec

\* Bindings that Query.update(bindings:) accepts have the types that were declared, and
\* the server reads each of them as its value.
THEOREM ProtocolUpdates == Spec => []UpdatedBindingsFit
<1>1. Init => UpdatedBindingsFit
  BY DEF Init, UpdatedBindingsFit
<1>2. UpdatedBindingsFit /\ [Next]_vars => UpdatedBindingsFit'
  <2>1. ASSUME UpdatedBindingsFit, UNCHANGED vars PROVE UpdatedBindingsFit'
    BY <2>1 DEF vars, UpdatedBindingsFit
  <2>2. ASSUME Next PROVE UpdatedBindingsFit'
    BY <2>2, UpdateStep
  <2> QED  BY <2>1, <2>2
<1> QED  BY <1>1, <1>2, PTL DEF Spec
=============================================================================
