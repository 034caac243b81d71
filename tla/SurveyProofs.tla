---------------------------- MODULE SurveyProofs -----------------------------
(***************************************************************************)
(* A scan of any car, with any trouble, holds nothing that the car would   *)
(* not have said (NothingInvented), misses only what was not answered      *)
(* (LossIsLocal) and keeps in its bounds (TypeOK).                         *)
(*                                                                         *)
(* First the codec: what is read back is what a module wrote, for every    *)
(* fault code, every list of them, every state of the readiness monitors,  *)
(* every set of supported items, every value, item and test result that a  *)
(* module's description can hold. Then what a module answers, and the      *)
(* invariants: Shape, where a scan stands; OwnInv, what it holds and which *)
(* late answer may still come; LossInv, what it has, what is ahead of it   *)
(* and what was lost. Each action preserves them.                          *)
(***************************************************************************)
EXTENDS Survey, SequenceTheorems, FiniteSetTheorems, WellFoundedInduction, TLAPS

\* Arithmetic on the digits of a byte.
LEMMA BitDigits ==
  ASSUME NEW a \in 0 .. 1, NEW b \in 0 .. 1, NEW c \in 0 .. 1, NEW d \in 0 .. 1,
         NEW e \in 0 .. 1, NEW f \in 0 .. 1, NEW g \in 0 .. 1, NEW h \in 0 .. 1,
         NEW x, x = a + 2 * b + 4 * c + 8 * d + 16 * e + 32 * f + 64 * g + 128 * h
  PROVE  /\ x \in 0 .. 255
         /\ (x \div 1) % 2 = a /\ (x \div 2) % 2 = b /\ (x \div 4) % 2 = c /\ (x \div 8) % 2 = d
         /\ (x \div 16) % 2 = e /\ (x \div 32) % 2 = f /\ (x \div 64) % 2 = g /\ (x \div 128) % 2 = h
<1>1. x \in 0 .. 255 /\ (x \div 1) % 2 = a /\ (x \div 2) % 2 = b
  OBVIOUS
<1>2. (x \div 4) % 2 = c /\ (x \div 8) % 2 = d
  OBVIOUS
<1>3. (x \div 16) % 2 = e /\ (x \div 32) % 2 = f
  OBVIOUS
<1>4. (x \div 64) % 2 = g /\ (x \div 128) % 2 = h
  OBVIOUS
<1>5. QED BY <1>1, <1>2, <1>3, <1>4

LEMMA CodeDigits ==
  ASSUME NEW l \in 0 .. 3, NEW a \in 0 .. 3, NEW b \in 0 .. 15
  PROVE  LET x == 64 * l + 16 * a + b
         IN  x \div 64 = l /\ (x \div 16) % 4 = a /\ x % 16 = b
OBVIOUS

LEMMA PairDigits ==
  ASSUME NEW a \in 0 .. 15, NEW b \in 0 .. 15
  PROVE  (16 * a + b) \div 16 = a /\ (16 * a + b) % 16 = b
OBVIOUS

\* A byte put together again from its digits.
LEMMA ByteDigits ==
  ASSUME NEW high \in 0 .. 255, NEW p \in Int, NEW s \in Int, NEW q \in Int, NEW r \in Int,
         p = high \div 64, s = high \div 16, q = s % 4, r = high % 16
  PROVE  /\ p \in 0 .. 3 /\ q \in 0 .. 3 /\ r \in 0 .. 15 /\ s \in 0 .. 15
         /\ high = 16 * s + r /\ high = 64 * p + 16 * q + r
<1>1. high = 16 * s + r /\ r \in 0 .. 15 /\ s \in 0 .. 15
  OBVIOUS
<1>2. s = 4 * (s \div 4) + q /\ q \in 0 .. 3
  OBVIOUS
<1>3. s \div 4 = p
  OBVIOUS
<1>4. QED BY <1>1, <1>2, <1>3

\* Where the two bytes of the i-th code of a reply lie.
LEMMA PairPlaces ==
  ASSUME NEW n \in Nat, NEW i \in 1 .. n, NEW odd \in Int, NEW even \in Int,
         odd = 2 * i + 1, even = 2 * i + 2
  PROVE  /\ odd \in 1 .. 2 + 2 * n /\ odd # 1 /\ odd # 2 /\ odd % 2 = 1 /\ (odd - 1) \div 2 = i
         /\ even \in 1 .. 2 + 2 * n /\ even # 1 /\ even # 2 /\ even % 2 = 0 /\ (even - 1) \div 2 = i
         /\ odd - 2 \in 1 .. 2 * n /\ even - 2 \in 1 .. 2 * n
         /\ odd - 2 = 2 * i - 1 /\ even - 2 = 2 * i
OBVIOUS

\* A byte made of bits has those bits, and no others.
LEMMA BitOfByte ==
  ASSUME NEW K, NEW k \in 0 .. 7
  PROVE  ByteOf(K) \in Byte /\ (Bit(ByteOf(K), k) <=> k \in K)
<1> DEFINE w(j) == W(j \in K)
           x == ByteOf(K)
<1>1. \A j : w(j) \in 0 .. 1 /\ (w(j) = 1 <=> j \in K)
  BY DEF W
<1>2. x = w(0) + 2 * w(1) + 4 * w(2) + 8 * w(3) + 16 * w(4) + 32 * w(5) + 64 * w(6) + 128 * w(7)
  BY DEF ByteOf
<1> HIDE DEF w, x
<1>3. /\ x \in 0 .. 255
      /\ (x \div 1) % 2 = w(0) /\ (x \div 2) % 2 = w(1) /\ (x \div 4) % 2 = w(2)
      /\ (x \div 8) % 2 = w(3) /\ (x \div 16) % 2 = w(4) /\ (x \div 32) % 2 = w(5)
      /\ (x \div 64) % 2 = w(6) /\ (x \div 128) % 2 = w(7)
  <2> DEFINE a == w(0)  b == w(1)  c == w(2)  d == w(3)  e == w(4)  f == w(5)  g == w(6)  h == w(7)
  <2>1. /\ a \in 0 .. 1 /\ b \in 0 .. 1 /\ c \in 0 .. 1 /\ d \in 0 .. 1
        /\ e \in 0 .. 1 /\ f \in 0 .. 1 /\ g \in 0 .. 1 /\ h \in 0 .. 1
    BY <1>1
  <2>2. x = a + 2 * b + 4 * c + 8 * d + 16 * e + 32 * f + 64 * g + 128 * h
    BY <1>2
  <2> HIDE DEF a, b, c, d, e, f, g, h
  <2>3. /\ x \in 0 .. 255
        /\ (x \div 1) % 2 = a /\ (x \div 2) % 2 = b /\ (x \div 4) % 2 = c /\ (x \div 8) % 2 = d
        /\ (x \div 16) % 2 = e /\ (x \div 32) % 2 = f /\ (x \div 64) % 2 = g /\ (x \div 128) % 2 = h
    BY <2>1, <2>2, BitDigits
  <2>4. QED BY <2>3 DEF a, b, c, d, e, f, g, h
<1>4. /\ Weight[1] = 1 /\ Weight[2] = 2 /\ Weight[3] = 4 /\ Weight[4] = 8
      /\ Weight[5] = 16 /\ Weight[6] = 32 /\ Weight[7] = 64 /\ Weight[8] = 128
  BY DEF Weight
<1>5. k = 0 \/ k = 1 \/ k = 2 \/ k = 3 \/ k = 4 \/ k = 5 \/ k = 6 \/ k = 7
  OBVIOUS
<1>6. (x \div Weight[k + 1]) % 2 = w(k)
  <2>1. CASE k = 0  BY <2>1, <1>3, <1>4
  <2>2. CASE k = 1  BY <2>2, <1>3, <1>4
  <2>3. CASE k = 2  BY <2>3, <1>3, <1>4
  <2>4. CASE k = 3  BY <2>4, <1>3, <1>4
  <2>5. CASE k = 4  BY <2>5, <1>3, <1>4
  <2>6. CASE k = 5  BY <2>6, <1>3, <1>4
  <2>7. CASE k = 6  BY <2>7, <1>3, <1>4
  <2>8. CASE k = 7  BY <2>8, <1>3, <1>4
  <2>9. QED BY <1>5, <2>1, <2>2, <2>3, <2>4, <2>5, <2>6, <2>7, <2>8
<1>7. QED BY <1>1, <1>3, <1>6 DEF Bit, Byte, x

-----------------------------------------------------------------------------
(* Sets of numbers, and what is kept of a sequence. *)

\* A set of numbers has a least.
LEMMA LeastExists ==
  ASSUME NEW D \in SUBSET Nat, D # {}
  PROVE  \E x \in D : \A y \in D : x <= y
<1>1. PICK x \in D : \A y \in D : <<y, x>> \notin OpToRel(<, Nat)
  BY NatLessThanWellFounded, WFMin
<1>2. \A y \in D : ~(y < x)
  BY <1>1 DEF OpToRel
<1> QED BY <1>2

\* The function that Kept is defined by exists.
LEMMA KeptExists ==
  ASSUME NEW s, Len(s) \in Nat, NEW T
  PROVE  /\ DOMAIN KeptUpTo(s, T) = 0 .. Len(s)
         /\ KeptUpTo(s, T)[0] = <<>>
         /\ \A i \in 1 .. Len(s) : KeptUpTo(s, T)[i] =
              IF s[i] \in T THEN Append(KeptUpTo(s, T)[i - 1], s[i]) ELSE KeptUpTo(s, T)[i - 1]
<1> DEFINE Fits(f, n) ==
             f = [i \in 0 .. n |-> IF i = 0 THEN <<>>
                                   ELSE IF s[i] \in T THEN Append(f[i - 1], s[i]) ELSE f[i - 1]]
           Bad == {n \in Nat : ~\E f : Fits(f, n)}
<1>1. Bad = {}
  <2>1. SUFFICES ASSUME Bad # {} PROVE FALSE OBVIOUS
  <2>2. PICK n \in Bad : \A k \in Bad : n <= k BY <2>1, LeastExists
  <2>3. n \in Nat /\ ~\E f : Fits(f, n) BY <2>2
  <2>4. CASE n = 0
    <3>1. Fits([i \in 0 .. 0 |-> <<>>], 0) OBVIOUS
    <3> QED BY <3>1, <2>3, <2>4
  <2>5. CASE n # 0
    <3>1. n - 1 \in Nat /\ n - 1 \notin Bad
      <4> HIDE DEF Bad
      <4> QED BY <2>2, <2>3, <2>5
    <3>2. PICK g : Fits(g, n - 1) BY <3>1
    <3> DEFINE h == [i \in 0 .. n |-> IF i < n THEN g[i]
                       ELSE IF s[n] \in T THEN Append(g[n - 1], s[n]) ELSE g[n - 1]]
    <3>3. \A i \in 0 .. n - 1 : h[i] = g[i] BY <2>3
    <3>4. \A i \in 0 .. n - 1 : g[i] = IF i = 0 THEN <<>>
                                   ELSE IF s[i] \in T THEN Append(g[i - 1], s[i]) ELSE g[i - 1]
      BY <3>2
    <3>5. \A i \in 0 .. n : h[i] = IF i = 0 THEN <<>>
                                   ELSE IF s[i] \in T THEN Append(h[i - 1], s[i]) ELSE h[i - 1]
      <4> TAKE i \in 0 .. n
      <4>1. CASE i = n
        <5>1. h[n - 1] = g[n - 1] BY <3>3, <2>3, <2>5
        <5> QED BY <4>1, <5>1, <2>5, <2>3
      <4>2. CASE i # n
        <5>1. i \in 0 .. n - 1 /\ h[i] = g[i] BY <4>2, <3>3, <2>3
        <5>2. i # 0 => h[i - 1] = g[i - 1] BY <5>1, <3>3, <2>3
        <5> QED BY <5>1, <5>2, <3>4
      <4> QED BY <4>1, <4>2
    <3>6. Fits(h, n) BY <3>5
    <3> QED BY <3>6, <2>3
  <2> QED BY <2>4, <2>5
<1>2. \E f : Fits(f, Len(s)) BY <1>1
<1>3. Fits(KeptUpTo(s, T), Len(s)) BY <1>2 DEF KeptUpTo
<1> DEFINE k == KeptUpTo(s, T)
<1> HIDE DEF Bad, k
<1>4. k = [i \in 0 .. Len(s) |-> IF i = 0 THEN <<>>
                                ELSE IF s[i] \in T THEN Append(k[i - 1], s[i]) ELSE k[i - 1]]
  BY <1>3 DEF k
<1>5. DOMAIN k = 0 .. Len(s) BY <1>4
<1>6. k[0] = <<>> BY <1>4
<1>7. \A i \in 1 .. Len(s) : k[i] = IF s[i] \in T THEN Append(k[i - 1], s[i]) ELSE k[i - 1]
  <2> TAKE i \in 1 .. Len(s)
  <2>1. i \in 0 .. Len(s) /\ i # 0 OBVIOUS
  <2> QED BY <2>1, <1>4
<1> QED BY <1>5, <1>6, <1>7 DEF k

\* Whatever holds at 0 and is handed on from each number to the next, holds up to n: the last
\* step of every induction below, over the set of numbers that it fails for.
LEMMA NoneBad ==
  ASSUME NEW n \in Nat, NEW Bad \in SUBSET (0 .. n), 0 \notin Bad,
         \A i \in 1 .. n : i \in Bad => i - 1 \in Bad
  PROVE  Bad = {}
<1>1. SUFFICES ASSUME Bad # {} PROVE FALSE OBVIOUS
<1>2. PICK x \in Bad : \A y \in Bad : x <= y BY <1>1, LeastExists
<1>3. x \in 1 .. n /\ x - 1 \in Bad OBVIOUS
<1>4. x <= x - 1 BY <1>2, <1>3
<1> QED BY <1>3, <1>4

\* What is kept is what is in T.
LEMMA KeptFacts ==
  ASSUME NEW S, NEW s \in Seq(S), NEW T
  PROVE  /\ Kept(s, T) \in Seq(S \cap T)
         /\ Len(Kept(s, T)) <= Len(s)
         /\ Range(Kept(s, T)) = Range(s) \cap T
         /\ Range(s) \subseteq T => Kept(s, T) = s
         /\ Range(s) \cap T = {} => Kept(s, T) = <<>>
<1> DEFINE k == KeptUpTo(s, T)
           n == Len(s)
           Good(i) == /\ k[i] \in Seq(S \cap T) /\ Len(k[i]) <= i
                      /\ {k[i][j] : j \in 1 .. Len(k[i])} = {s[j] : j \in 1 .. i} \cap T
                      /\ {s[j] : j \in 1 .. n} \subseteq T => k[i] = [j \in 1 .. i |-> s[j]]
                      /\ {s[j] : j \in 1 .. n} \cap T = {} => k[i] = <<>>
           Bad == {i \in 0 .. n : ~Good(i)}
<1>0. n \in Nat /\ \A i \in 1 .. n : s[i] \in S OBVIOUS
<1>1. /\ k[0] = <<>>
      /\ \A i \in 1 .. n : k[i] = IF s[i] \in T THEN Append(k[i - 1], s[i]) ELSE k[i - 1]
  BY KeptExists
<1> HIDE DEF k, n
<1>2. Good(0) BY <1>1
<1>3. ASSUME NEW i \in 1 .. n, Good(i - 1) PROVE Good(i)
  <2>1. {s[j] : j \in 1 .. i} = {s[j] : j \in 1 .. i - 1} \cup {s[i]} BY <1>0
  <2>2. CASE s[i] \in T
    <3> DEFINE q == k[i - 1]
               t == Append(q, s[i])
    <3>1. k[i] = t BY <2>2, <1>1
    <3>2. q \in Seq(S \cap T) /\ s[i] \in S \cap T /\ Len(q) \in Nat /\ Len(q) <= i - 1
      BY <1>3, <2>2, <1>0
    <3> HIDE DEF q
    <3>3. t \in Seq(S \cap T) /\ Len(t) = Len(q) + 1 /\ t[Len(q) + 1] = s[i]
          /\ \A j \in 1 .. Len(q) : t[j] = q[j]
      BY <3>2
    <3> HIDE DEF t
    <3>4. {t[j] : j \in 1 .. Len(t)} = {q[j] : j \in 1 .. Len(q)} \cup {s[i]} BY <3>2, <3>3
    <3>5. {t[j] : j \in 1 .. Len(t)} = {s[j] : j \in 1 .. i} \cap T
      BY <3>4, <2>1, <2>2, <1>3 DEF q
    <3>6. ASSUME {s[j] : j \in 1 .. n} \subseteq T PROVE t = [j \in 1 .. i |-> s[j]]
      <4>1. q = [j \in 1 .. i - 1 |-> s[j]] BY <3>6, <1>3 DEF q
      <4>2. Len(q) = i - 1 BY <4>1, <1>0
      <4> QED BY <4>1, <4>2, <1>0 DEF t
    <3>7. {s[j] : j \in 1 .. n} \cap T # {} BY <2>2
    <3> QED BY <3>1, <3>2, <3>3, <3>5, <3>6, <3>7
  <2>3. CASE s[i] \notin T
    <3>1. k[i] = k[i - 1] BY <2>3, <1>1
    <3>2. {s[j] : j \in 1 .. i} \cap T = {s[j] : j \in 1 .. i - 1} \cap T BY <2>1, <2>3
    <3>3. ~({s[j] : j \in 1 .. n} \subseteq T) BY <2>3
    <3> DEFINE q == k[i - 1]
    <3>4. /\ q \in Seq(S \cap T) /\ Len(q) <= i - 1
          /\ {q[j] : j \in 1 .. Len(q)} = {s[j] : j \in 1 .. i - 1} \cap T
          /\ {s[j] : j \in 1 .. n} \cap T = {} => q = <<>>
      BY <1>3
    <3>5. k[i] = q BY <3>1
    <3> HIDE DEF q
    <3>6. Len(q) <= i BY <3>4, <1>0
    <3> QED BY <3>2, <3>3, <3>4, <3>5, <3>6
  <2> QED BY <2>2, <2>3
<1>4. Bad = {}
  <2>1. Bad \subseteq 0 .. n /\ 0 \notin Bad BY <1>2
  <2>2. \A i \in 1 .. n : i \in Bad => i - 1 \in Bad
    <3> TAKE i \in 1 .. n
    <3>1. i \in 0 .. n /\ i - 1 \in 0 .. n BY <1>0
    <3>2. ~Good(i) => ~Good(i - 1) BY <1>3
    <3> HIDE DEF Good
    <3> QED BY <3>1, <3>2
  <2> HIDE DEF Bad
  <2> QED BY <2>1, <2>2, <1>0, NoneBad
<1>5. Good(n)
  <2>1. n \in 0 .. n BY <1>0
  <2> HIDE DEF Good
  <2> QED BY <1>4, <2>1
<1>6. Kept(s, T) = k[n] BY DEF Kept, k, n
<1>7. Range(s) = {s[j] : j \in 1 .. n} BY DEF Range, n
<1>8. Range(k[n]) = {k[n][j] : j \in 1 .. Len(k[n])}
  <2>1. k[n] \in Seq(S \cap T) BY <1>5
  <2> QED BY <2>1 DEF Range
<1>9. s = [j \in 1 .. n |-> s[j]] BY DEF n
<1> QED BY <1>5, <1>6, <1>7, <1>8, <1>9 DEF n

LEMMA AppendToBoth ==
  \A S : \A p \in Seq(S), q \in Seq(S), e \in S :
    Append(p \o q, e) = p \o Append(q, e) /\ Append(q, e) \in Seq(S)
<1> TAKE S
<1> TAKE p \in Seq(S), q \in Seq(S), e \in S
<1> DEFINE v == <<e>>
<1>1. v \in Seq(S) OBVIOUS
<1>2. p \o q \in Seq(S) BY ConcatProperties
<1>3. Append(q, e) = q \o v /\ Append(p \o q, e) = (p \o q) \o v BY <1>2, AppendIsConcat
<1>5. Append(q, e) \in Seq(S) OBVIOUS
<1> HIDE DEF v
<1>4. (p \o q) \o v = p \o (q \o v) BY <1>1, ConcatAssociative
<1> QED BY <1>3, <1>4, <1>5, Zenon

\* What is kept of two sequences, one after the other.
LEMMA KeptOfBoth ==
  ASSUME NEW S, NEW s \in Seq(S), NEW t \in Seq(S), NEW T
  PROVE  Kept(s \o t, T) = Kept(s, T) \o Kept(t, T)
<1> DEFINE u == s \o t
           a == Len(s)
           b == Len(t)
           ks == KeptUpTo(s, T)
           kt == KeptUpTo(t, T)
           ku == KeptUpTo(u, T)
<1>0. a \in Nat /\ b \in Nat OBVIOUS
<1>1. /\ u \in Seq(S) /\ Len(u) = a + b
      /\ \A i \in 1 .. a : u[i] = s[i]
      /\ \A i \in 1 .. b : u[a + i] = t[i]
  OBVIOUS
<1>2. /\ ks[0] = <<>>
      /\ \A i \in 1 .. a : ks[i] = IF s[i] \in T THEN Append(ks[i - 1], s[i]) ELSE ks[i - 1]
  BY KeptExists
<1>3. /\ kt[0] = <<>>
      /\ \A i \in 1 .. b : kt[i] = IF t[i] \in T THEN Append(kt[i - 1], t[i]) ELSE kt[i - 1]
  BY KeptExists
<1>4. /\ ku[0] = <<>>
      /\ \A i \in 1 .. a + b : ku[i] = IF u[i] \in T THEN Append(ku[i - 1], u[i]) ELSE ku[i - 1]
  <2> HIDE DEF u, a, b
  <2>1. Len(u) \in Nat /\ Len(u) = a + b BY <1>0, <1>1
  <2>2. /\ ku[0] = <<>>
        /\ \A i \in 1 .. Len(u) : ku[i] = IF u[i] \in T THEN Append(ku[i - 1], u[i]) ELSE ku[i - 1]
    BY <2>1, KeptExists
  <2> HIDE DEF ku
  <2> QED BY <2>1, <2>2
<1>5. Kept(s, T) = ks[a] /\ Kept(t, T) = kt[b] /\ Kept(u, T) = ku[a + b]
  BY <1>1 DEF Kept
<1>6. Kept(s, T) \in Seq(S) /\ \A i \in 1 .. b : t[i] \in S
  <2>1. Kept(s, T) \in Seq(S \cap T) BY KeptFacts
  <2> QED BY <2>1
<1> HIDE DEF u, a, b, ks, kt, ku
<1>7. ku[a] = ks[a]
  <2> DEFINE Bad == {i \in 0 .. a : ku[i] # ks[i]}
  <2>1. Bad \subseteq 0 .. a /\ 0 \notin Bad BY <1>2, <1>4
  <2>2. \A i \in 1 .. a : i \in Bad => i - 1 \in Bad
    <3> TAKE i \in 1 .. a
    <3>1. i \in 1 .. a + b /\ i - 1 \in 0 .. a /\ u[i] = s[i] BY <1>0, <1>1
    <3> QED BY <3>1, <1>2, <1>4
  <2> HIDE DEF Bad
  <2>3. Bad = {} BY <2>1, <2>2, <1>0, NoneBad
  <2> QED BY <2>3, <1>0 DEF Bad
<1>8. ku[a + b] = Kept(s, T) \o kt[b] /\ kt[b] \in Seq(S)
  <2> DEFINE Good(i) == ku[a + i] = Kept(s, T) \o kt[i] /\ kt[i] \in Seq(S)
             Bad == {i \in 0 .. b : ~Good(i)}
  <2>1. Good(0)
    <3>1. a + 0 = a BY <1>0
    <3> QED BY <3>1, <1>3, <1>5, <1>6, <1>7
  <2>2. ASSUME NEW i \in 1 .. b, Good(i - 1) PROVE Good(i)
    <3>1. a + i \in 1 .. a + b /\ (a + i) - 1 = a + (i - 1) /\ u[a + i] = t[i] BY <1>0, <1>1
    <3>2. ku[a + i] = IF t[i] \in T THEN Append(ku[a + (i - 1)], t[i]) ELSE ku[a + (i - 1)]
      BY <3>1, <1>4
    <3> DEFINE q == kt[i - 1]
    <3>3. kt[i] = IF t[i] \in T THEN Append(q, t[i]) ELSE q BY <1>3
    <3>4. ku[a + (i - 1)] = Kept(s, T) \o q /\ q \in Seq(S) /\ t[i] \in S BY <2>2, <1>6
    <3> HIDE DEF q
    <3> DEFINE p == Kept(s, T)
               y == ku[a + (i - 1)]
               x == ku[a + i]
               z == kt[i]
               e == t[i]
               Cat(v, w) == v \o w
               App(v, w) == Append(v, w)
    <3>5. /\ p \in Seq(S) /\ q \in Seq(S) /\ e \in S /\ y = Cat(p, q)
          /\ x = (IF e \in T THEN App(y, e) ELSE y)
          /\ z = (IF e \in T THEN App(q, e) ELSE q)
      BY <1>6, <3>2, <3>3, <3>4
    <3>6. \A v \in Seq(S), w \in Seq(S), c \in S :
            App(Cat(v, w), c) = Cat(v, App(w, c)) /\ App(w, c) \in Seq(S)
      BY AppendToBoth, Zenon DEF Cat, App
    <3> HIDE DEF p, x, y, z, e, Cat, App
    <3>7. x = Cat(p, z) /\ z \in Seq(S) BY <3>5, <3>6
    <3> QED BY <3>7 DEF p, x, y, z, e, Cat
  <2>3. \A i \in 1 .. b : i \in Bad => i - 1 \in Bad
    <3> TAKE i \in 1 .. b
    <3>1. i \in 0 .. b /\ i - 1 \in 0 .. b BY <1>0
    <3>2. ~Good(i) => ~Good(i - 1) BY <2>2
    <3> HIDE DEF Good
    <3> QED BY <3>1, <3>2
  <2>4. Bad \subseteq 0 .. b /\ 0 \notin Bad
    <3> HIDE DEF Good
    <3> QED BY <2>1
  <2> HIDE DEF Bad
  <2>5. Bad = {} BY <2>3, <2>4, <1>0, NoneBad
  <2>6. b \in 0 .. b BY <1>0
  <2> HIDE DEF Good
  <2>7. Good(b) BY <2>5, <2>6 DEF Bad
  <2> QED BY <2>7 DEF Good
<1> QED BY <1>5, <1>8 DEF u

\* Blocks of one width, joined: where the j-th element of the k-th block lies, and back. The
\* provers see these as names only, since they multiply and divide two unknowns.
Widths == {4, 9, 16, 17, 20}
Size(w, n) == w * n
At(w, k, j) == w * (k - 1) + j
Row(w, i) == (i - 1) \div w + 1
Col(w, i) == ((i - 1) % w) + 1

LEMMA Places ==
  ASSUME NEW n \in Nat, NEW w \in Widths
  PROVE  /\ Size(w, n) \in Nat
         /\ \A k \in 1 .. n, j \in 1 .. w :
              At(w, k, j) \in 1 .. Size(w, n) /\ Row(w, At(w, k, j)) = k /\ Col(w, At(w, k, j)) = j
         /\ \A i \in 1 .. Size(w, n) : Row(w, i) \in 1 .. n /\ Col(w, i) \in 1 .. w
<1>1. CASE w = 4 BY <1>1 DEF Size, At, Row, Col
<1>2. CASE w = 9 BY <1>2 DEF Size, At, Row, Col
<1>3. CASE w = 16 BY <1>3 DEF Size, At, Row, Col
<1>4. CASE w = 17 BY <1>4 DEF Size, At, Row, Col
<1>5. CASE w = 20 BY <1>5 DEF Size, At, Row, Col
<1> QED BY <1>1, <1>2, <1>3, <1>4, <1>5 DEF Widths

LEMMA JoinedIs ==
  ASSUME NEW blocks, NEW n \in Nat, n = Len(blocks), NEW w \in Widths
  PROVE  LET x == Joined(blocks, w)
         IN  /\ DOMAIN x = 1 .. Size(w, n) /\ Len(x) = Size(w, n) /\ x = [i \in 1 .. Size(w, n) |-> x[i]]
             /\ \A k \in 1 .. n, j \in 1 .. w : x[At(w, k, j)] = blocks[k][j]
             /\ \A i \in 1 .. Size(w, n) : x[i] = blocks[Row(w, i)][Col(w, i)]
<1> DEFINE x == Joined(blocks, w)
<1>1. x = [i \in 1 .. Size(w, n) |-> blocks[Row(w, i)][Col(w, i)]] BY DEF Joined, Size, Row, Col
<1>2. /\ Size(w, n) \in Nat
      /\ \A k \in 1 .. n, j \in 1 .. w :
           At(w, k, j) \in 1 .. Size(w, n) /\ Row(w, At(w, k, j)) = k /\ Col(w, At(w, k, j)) = j
  BY Places
<1> HIDE DEF x
<1>3. DOMAIN x = 1 .. Size(w, n) /\ Len(x) = Size(w, n) BY <1>1, <1>2
<1>4. \A i \in 1 .. Size(w, n) : x[i] = blocks[Row(w, i)][Col(w, i)] BY <1>1
<1>5. \A k \in 1 .. n, j \in 1 .. w : x[At(w, k, j)] = blocks[k][j] BY <1>2, <1>4
<1>6. x = [i \in 1 .. Size(w, n) |-> x[i]] BY <1>1
<1> QED BY <1>3, <1>4, <1>5, <1>6 DEF x

-----------------------------------------------------------------------------
(* Fault codes. *)

\* No code but P0000, which is written as padding, is lost or changed on its way
\* (dtc.py:81-104, "Inverse of decode_dtc").
THEOREM DtcRoundTrip ==
  ASSUME NEW c \in Codes, c # [letter |-> 0, d1 |-> 0, d2 |-> 0, d3 |-> 0, d4 |-> 0]
  PROVE  DecodeDtc(EncodeDtc(c)[1], EncodeDtc(c)[2]) = c
<1> DEFINE high == 64 * c.letter + 16 * c.d1 + c.d2
           low  == 16 * c.d3 + c.d4
<1>1. /\ c.letter \in 0 .. 3 /\ c.d1 \in 0 .. 3
      /\ c.d2 \in 0 .. 15 /\ c.d3 \in 0 .. 15 /\ c.d4 \in 0 .. 15
      /\ c = [letter |-> c.letter, d1 |-> c.d1, d2 |-> c.d2, d3 |-> c.d3, d4 |-> c.d4]
  BY DEF Codes
<1>2. ~(high = 0 /\ low = 0)
  BY <1>1
<1>3. high \div 64 = c.letter /\ (high \div 16) % 4 = c.d1 /\ high % 16 = c.d2
  BY <1>1, CodeDigits
<1>4. low \div 16 = c.d3 /\ low % 16 = c.d4
  BY <1>1, PairDigits
<1>5. EncodeDtc(c)[1] = high /\ EncodeDtc(c)[2] = low
  BY DEF EncodeDtc
<1> HIDE DEF high, low
<1>6. QED BY <1>1, <1>2, <1>3, <1>4, <1>5 DEF DecodeDtc

\* Any two bytes but zeros are a code, and the code is written as those bytes.
THEOREM DtcInverse ==
  ASSUME NEW high \in Byte, NEW low \in Byte, ~(high = 0 /\ low = 0)
  PROVE  DecodeDtc(high, low) \in Codes /\ EncodeDtc(DecodeDtc(high, low)) = <<high, low>>
<1> DEFINE c == DecodeDtc(high, low)
           p == high \div 64
           q == (high \div 16) % 4
           r == high % 16
           t == low \div 16
           u == low % 16
<1>1. high \in 0 .. 255 /\ low \in 0 .. 255 /\ high \div 64 \in Int /\ high \div 16 \in Int
      /\ (high \div 16) % 4 \in Int /\ high % 16 \in Int /\ low \div 64 \in Int
      /\ low \div 16 \in Int /\ (low \div 16) % 4 \in Int /\ low % 16 \in Int
  BY DEF Byte
<1>3. p \in 0 .. 3 /\ q \in 0 .. 3 /\ r \in 0 .. 15 /\ high = 64 * p + 16 * q + r
  BY <1>1, ByteDigits
<1>4. t \in 0 .. 15 /\ u \in 0 .. 15 /\ low = 16 * t + u
  BY <1>1, ByteDigits
<1>5. c = [letter |-> p, d1 |-> q, d2 |-> r, d3 |-> t, d4 |-> u]
  BY DEF DecodeDtc
<1> HIDE DEF c, p, q, r, t, u
<1>6. c \in Codes
  BY <1>3, <1>4, <1>5 DEF Codes
<1>7. EncodeDtc(c) = <<high, low>>
  BY <1>3, <1>4, <1>5 DEF EncodeDtc
<1>8. QED BY <1>6, <1>7 DEF c

\* A counted list of codes is read as it was written: every code, in order.
THEOREM DtcListTheorem ==
  ASSUME NEW codes \in Seq(Codes), NEW service \in Nat,
         \A i \in 1 .. Len(codes) : codes[i] # [letter |-> 0, d1 |-> 0, d2 |-> 0, d3 |-> 0, d4 |-> 0]
  PROVE  DtcPairs(DtcResponse(service, codes)) = codes
<1> DEFINE n == Len(codes)
           reply == DtcResponse(service, codes)
           body == DtcBody(reply)
<1>1. n \in Nat /\ codes = [i \in 1 .. n |-> codes[i]] /\ \A i \in 1 .. n : codes[i] \in Codes
  OBVIOUS
<1>2. Len(reply) = 2 + 2 * n
  BY <1>1 DEF DtcResponse
<1>3. body = [i \in 1 .. 2 * n |-> reply[i + 2]]
  BY <1>1, <1>2 DEF DtcBody
<1>4. Len(body) = 2 * n
  BY <1>1, <1>3
<1>5. ASSUME NEW i \in 1 .. n
      PROVE  DecodeDtc(body[2 * i - 1], body[2 * i]) = codes[i]
  <2> DEFINE odd == 2 * i + 1
             even == 2 * i + 2
  <2>1. /\ odd \in 1 .. 2 + 2 * n /\ odd # 1 /\ odd # 2 /\ odd % 2 = 1 /\ (odd - 1) \div 2 = i
        /\ even \in 1 .. 2 + 2 * n /\ even # 1 /\ even # 2 /\ even % 2 = 0 /\ (even - 1) \div 2 = i
        /\ odd - 2 \in 1 .. 2 * n /\ even - 2 \in 1 .. 2 * n
        /\ odd - 2 = 2 * i - 1 /\ even - 2 = 2 * i
    <3>1. n \in Nat /\ i \in 1 .. n /\ odd \in Int /\ even \in Int
      BY <1>1
    <3> HIDE DEF n
    <3>2. QED BY <3>1, PairPlaces
  <2>2. (odd - 2) + 2 = odd /\ (even - 2) + 2 = even /\ odd \in Int /\ even \in Int
    BY <1>1
  <2> HIDE DEF odd, even, n
  <2>3. reply[odd] = EncodeDtc(codes[i])[1]
    BY <2>1 DEF DtcResponse, n
  <2>4. reply[even] = EncodeDtc(codes[i])[2]
    BY <2>1 DEF DtcResponse, n
  <2>5. body[odd - 2] = reply[odd] /\ body[even - 2] = reply[even]
    <3> HIDE DEF body, reply
    <3>1. QED BY <1>3, <2>1, <2>2
  <2>6. DecodeDtc(reply[odd], reply[even]) = codes[i]
    BY <2>3, <2>4, <1>1, DtcRoundTrip DEF n
  <2>7. QED BY <2>1, <2>5, <2>6
<1>6. Len(body) \div 2 = n
  <2> HIDE DEF n, body
  <2>1. n \in Nat
    BY <1>1
  <2>2. (2 * n) \div 2 = n
    BY <2>1
  <2>3. QED BY <1>4, <2>2
<1>7. DtcPairs(reply) = [i \in 1 .. n |-> DecodeDtc(body[2 * i - 1], body[2 * i])]
  BY <1>6 DEF DtcPairs
<1>8. QED BY <1>1, <1>5, <1>7

-----------------------------------------------------------------------------
(* Support bitmaps. *)

\* A bitmap is read as the set of items it was made of: first bit is the item after
\* the base, last bit the next bitmap (encode.py:201-213, decoders.py:116-126).
THEOREM BitmapTheorem ==
  ASSUME NEW items, NEW origin \in Nat
  PROVE  Offsets(SupportBitmap(items, origin)) = {n \in 1 .. 32 : origin + n \in items}
<1>1. ASSUME NEW n \in 1 .. 32
      PROVE  Bit(SupportBitmap(items, origin)[(n + 7) \div 8], (32 - n) % 8) <=> origin + n \in items
  <2> DEFINE i == (n + 7) \div 8
             k == (32 - n) % 8
             K == {j \in 0 .. 7 : origin + 8 * i - j \in items}
  <2>1. i \in 1 .. 4 /\ k \in 0 .. 7 /\ 8 * i - k = n
    OBVIOUS
  <2>2. SupportBitmap(items, origin)[i] = ByteOf(K)
    BY <2>1 DEF SupportBitmap
  <2>3. origin + 8 * i - k = origin + n
    BY <2>1
  <2>4. k \in K <=> origin + n \in items
    BY <2>1, <2>3
  <2> HIDE DEF i, k, K
  <2>5. Bit(ByteOf(K), k) <=> k \in K
    BY <2>1, BitOfByte
  <2>6. QED BY <2>2, <2>4, <2>5 DEF i, k
<1>2. QED BY <1>1 DEF Offsets

-----------------------------------------------------------------------------
(* Readiness monitors. *)

\* A car whose self-tests have not run never reads as one whose tests are done, nor the
\* other way round: the polarity of the bits, for each of the monitors, in either layout
\* (decoders.py:27-30, encode.py "the wire encodes NOT complete").
THEOREM MonitorTheorem ==
  ASSUME NEW m, m.mil \in BOOLEAN, m.count \in 0 .. 127, m.ignition \in {"spark", "compression"},
         m.supported \subseteq MonitorNames(m.ignition)
  PROVE  DecodeMonitors(EncodeMonitors(m)) =
           [mil |-> m.mil, count |-> m.count, ignition |-> m.ignition,
            supported |-> m.supported, complete |-> m.supported \ m.incomplete]
<1> DEFINE pending == m.supported \cap m.incomplete
           B == {k \in 0 .. 2 : Continuous[k + 1] \in m.supported}
                  \cup {k \in 3 .. 3 : m.ignition = "compression"}
                  \cup {k \in 4 .. 6 : Continuous[k - 3] \in pending}
           C == {k \in 0 .. 7 : Other(m.ignition)[k + 1] \in m.supported}
           D == {k \in 0 .. 7 : Other(m.ignition)[k + 1] \in pending}
           d == EncodeMonitors(m)
           Named(origin, byte) ==
             {Continuous[k] : k \in {j \in 1 .. 3 : Bit(d[2], j + origin)}}
               \cup {Other(m.ignition)[k] : k \in {j \in 1 .. 8 : Bit(byte, j - 1)}}
<1>1. d[1] = 128 * W(m.mil) + m.count /\ d[2] = ByteOf(B) /\ d[3] = ByteOf(C) /\ d[4] = ByteOf(D)
  BY DEF EncodeMonitors, Clamp
<1>2. Bit(d[1], 7) = m.mil /\ d[1] % 128 = m.count
  <2>1. Weight[7 + 1] = 128
    BY DEF Weight
  <2>2. CASE m.mil
    <3>1. d[1] = 128 + m.count
      BY <1>1, <2>2 DEF W
    <3>2. (d[1] \div 128) % 2 = 1 /\ d[1] % 128 = m.count
      BY <3>1
    <3>3. QED BY <2>1, <2>2, <3>2 DEF Bit
  <2>3. CASE ~m.mil
    <3>1. d[1] = m.count
      BY <1>1, <2>3 DEF W
    <3>2. (d[1] \div 128) % 2 = 0 /\ d[1] % 128 = m.count
      BY <3>1
    <3>3. QED BY <2>1, <2>3, <3>2 DEF Bit
  <2>4. QED BY <2>2, <2>3
<1>3. \A k \in 0 .. 7 : /\ Bit(d[2], k) <=> k \in B
                        /\ Bit(d[3], k) <=> k \in C
                        /\ Bit(d[4], k) <=> k \in D
  BY <1>1, BitOfByte
<1>4. Bit(d[2], 3) <=> m.ignition = "compression"
  BY <1>3
<1>5. Named(-1, d[3]) = {Continuous[k] : k \in {j \in 1 .. 3 : Continuous[j] \in m.supported}}
          \cup {Other(m.ignition)[k] : k \in {j \in 1 .. 8 : Other(m.ignition)[j] \in m.supported}}
  <2>1. \A j \in 1 .. 3 : Bit(d[2], j + (-1)) <=> Continuous[j] \in m.supported
    BY <1>3
  <2>2. \A j \in 1 .. 8 : Bit(d[3], j - 1) <=> Other(m.ignition)[j] \in m.supported
    BY <1>3
  <2>3. QED BY <2>1, <2>2
<1>6. Named(3, d[4]) = {Continuous[k] : k \in {j \in 1 .. 3 : Continuous[j] \in pending}}
          \cup {Other(m.ignition)[k] : k \in {j \in 1 .. 8 : Other(m.ignition)[j] \in pending}}
  <2>1. \A j \in 1 .. 3 : Bit(d[2], j + 3) <=> Continuous[j] \in pending
    BY <1>3
  <2>2. \A j \in 1 .. 8 : Bit(d[4], j - 1) <=> Other(m.ignition)[j] \in pending
    BY <1>3
  <2>3. QED BY <2>1, <2>2
<1>7. Named(-1, d[3]) = m.supported
  BY <1>5 DEF MonitorNames
<1>8. Named(3, d[4]) = pending
  BY <1>6 DEF MonitorNames
<1>9. DecodeMonitors(d) =
        [mil |-> Bit(d[1], 7), count |-> d[1] % 128, ignition |-> m.ignition,
         supported |-> Named(-1, d[3]), complete |-> Named(-1, d[3]) \ Named(3, d[4])]
  BY <1>4 DEF DecodeMonitors
<1>10. m.supported \ pending = m.supported \ m.incomplete
  OBVIOUS
<1>11. QED BY <1>2, <1>7, <1>8, <1>9, <1>10

LEMMA HeaderBody ==
  ASSUME NEW S, NEW h \in Seq(S), NEW e \in Seq(S), h # <<>>
  PROVE  LET d == h \o e
         IN  /\ d \in Seq(S) /\ Len(d) = Len(h) + Len(e) /\ d # <<>> /\ d[1] = h[1]
             /\ SubSeq(d, 1, Len(h)) = h
             /\ SubSeq(d, Len(h) + 1, Len(d)) = e
<1> DEFINE d == h \o e
           n == Len(h)
           k == Len(e)
<1>1. /\ n \in Nat /\ k \in Nat /\ n > 0
      /\ d \in Seq(S) /\ Len(d) = n + k
      /\ \A i \in 1 .. n : d[i] = h[i]
      /\ \A i \in 1 .. k : d[n + i] = e[i]
  OBVIOUS
<1>2. h = [i \in 1 .. n |-> h[i]] /\ e = [i \in 1 .. k |-> e[i]] OBVIOUS
<1> HIDE DEF d, n, k
<1>3. d # <<>> /\ d[1] = h[1] BY <1>1
<1>4. SubSeq(d, 1, n) = [i \in 1 .. n |-> d[i]]
  BY <1>1
<1>5. SubSeq(d, n + 1, n + k) = [i \in 1 .. k |-> d[n + i]]
  BY <1>1
<1>6. [i \in 1 .. n |-> d[i]] = h BY <1>1, <1>2
<1>7. [i \in 1 .. k |-> d[n + i]] = e BY <1>1, <1>2
<1> QED BY <1>1, <1>3, <1>4, <1>5, <1>6, <1>7 DEF d, n, k

-----------------------------------------------------------------------------
LEMMA WordBack ==
  ASSUME NEW v \in Nat
  PROVE  /\ WordBytes(v) \in Seq(Int) /\ Len(WordBytes(v)) = 2
         /\ WordBytes(v)[1] = v \div 256 /\ WordBytes(v)[2] = v % 256
         /\ Word(WordBytes(v)) = v
<1>1. v \div 256 \in Int /\ v % 256 \in Int /\ 256 * (v \div 256) + (v % 256) = v OBVIOUS
<1> DEFINE a == v \div 256
           b == v % 256
<1>2. WordBytes(v) = <<a, b>> BY DEF WordBytes
<1> HIDE DEF a, b
<1>3. <<a, b>> \in Seq(Int) /\ Len(<<a, b>>) = 2 /\ <<a, b>>[1] = a /\ <<a, b>>[2] = b
  BY <1>1 DEF a, b
<1>4. Word(<<a, b>>) = 256 * a + b BY <1>3 DEF Word
<1> QED BY <1>1, <1>2, <1>3, <1>4 DEF a, b

LEMMA TrimBack ==
  ASSUME NEW v \in -100 .. 99
  PROVE  /\ TrimPercent(v) \in Seq(Int) /\ Len(TrimPercent(v)) = 1
         /\ DecodeTrim(TrimPercent(v)) = NearestTrim(v)
<1> DEFINE k == (256 * v + 100) \div 200
           near == {100 * j : j \in -128 .. 127}
<1>1. k \in -128 .. 127 /\ 200 * k <= 256 * v + 100 /\ 256 * v + 100 < 200 * k + 200 OBVIOUS
<1>2. TrimPercent(v) = <<k + 128>> BY <1>1 DEF TrimPercent, Clamp
<1> HIDE DEF k
<1>3. DecodeTrim(TrimPercent(v)) = 100 * k BY <1>1, <1>2 DEF DecodeTrim
<1>4. 100 * k \in near /\ 100 * k - 128 * v \in -50 .. 50 BY <1>1
<1>5. ASSUME NEW t \in near, t - 128 * v \in -50 .. 50 PROVE t = 100 * k
  <2>1. PICK j \in -128 .. 127 : t = 100 * j OBVIOUS
  <2>2. 100 * j - 128 * v # -50 /\ 100 * k - 128 * v # -50 BY <1>1
  <2>3. 100 * j - 128 * v \in -50 .. 50 BY <1>5, <2>1
  <2>4. j = k BY <2>2, <2>3, <1>1
  <2> QED BY <2>1, <2>4
<1>6. 100 * k = NearestTrim(v)
  <2>1. NearestTrim(v) = CHOOSE t \in near : t - 128 * v \in -50 .. 50 BY DEF NearestTrim
  <2> HIDE DEF near
  <2> QED BY <2>1, <1>4, <1>5
<1> QED BY <1>1, <1>2, <1>3, <1>6

LEMMA LongBack ==
  ASSUME NEW v \in Nat
  PROVE  LongBytes(v) \in Seq(Int) /\ Len(LongBytes(v)) = 4 /\ Long(LongBytes(v)) = v
<1> DEFINE q == v \div 256
           h == q \div 256
           a == h \div 256
           b == h % 256
           c == q % 256
           e == v % 256
<1>1. q \in Nat /\ e \in Nat /\ 256 * q + e = v OBVIOUS
<1> HIDE DEF q, e
<1>2. h \in Nat /\ c \in Nat /\ 256 * h + c = q BY <1>1
<1> HIDE DEF h, c
<1>3. a \in Nat /\ b \in Nat /\ 256 * a + b = h BY <1>2
<1> HIDE DEF a, b
<1>4. LongBytes(v) = <<a, b, c, e>> BY DEF LongBytes, a, b, c, e, h, q
<1>5. Long(<<a, b, c, e>>) = 256 * (256 * (256 * a + b) + c) + e BY DEF Long
<1>6. <<a, b, c, e>> \in Seq(Int) /\ Len(<<a, b, c, e>>) = 4 BY <1>1, <1>2, <1>3
<1> QED BY <1>1, <1>2, <1>3, <1>4, <1>5, <1>6

\* A parameter is read as it was written, to the resolution that the car writes it in.
LEMMA EncodePidIs ==
  ASSUME NEW pid \in KnownPids, NEW v, InRange(pid, v)
  PROVE  LET e == EncodePid(pid, v)
         IN  e \in Seq(Int) /\ Len(e) = Width[pid] /\ DecodePid(pid, e) = Shown(pid, v)
<1>1. /\ pid = 1 \/ pid = 5 \/ pid \in Trims \/ pid \in Words \/ pid = 166
      /\ Width[pid] = IF pid = 5 \/ pid \in Trims THEN 1 ELSE IF pid \in Words THEN 2 ELSE 4
  BY DEF KnownPids, Width, Trims, Words
<1>2. CASE pid = 1
  <2>1. /\ v.mil \in BOOLEAN /\ v.count \in 0 .. 127 /\ v.ignition \in {"spark", "compression"}
        /\ v.supported \subseteq MonitorNames(v.ignition)
    BY <1>2 DEF InRange, Trims, Words
  <2>2. EncodePid(pid, v) = EncodeMonitors(v) /\ Width[pid] = 4
    BY <1>1, <1>2 DEF EncodePid, Trims, Words
  <2>3. DecodePid(pid, EncodeMonitors(v)) = DecodeMonitors(EncodeMonitors(v)) BY <1>2 DEF DecodePid, Trims, Words
  <2>4. DecodeMonitors(EncodeMonitors(v)) =
           [mil |-> v.mil, count |-> v.count, ignition |-> v.ignition,
            supported |-> v.supported, complete |-> v.supported \ v.incomplete]
    BY <2>1, MonitorTheorem
  <2>5. Shown(pid, v) =
           [mil |-> v.mil, count |-> v.count, ignition |-> v.ignition,
            supported |-> v.supported, complete |-> v.supported \ v.incomplete]
    BY <1>2 DEF Shown, Trims, Words
  <2>6. EncodeMonitors(v) \in Seq(Int) /\ Len(EncodeMonitors(v)) = 4
    <3>1. 128 * W(v.mil) + Clamp(v.count, 0, 127) \in Int BY <2>1 DEF W, Clamp
    <3>2. \A K : ByteOf(K) \in Int BY BitOfByte DEF Byte
    <3> QED BY <3>1, <3>2 DEF EncodeMonitors
  <2> QED BY <2>2, <2>3, <2>4, <2>5, <2>6
<1>3. CASE pid = 5
  <2>1. v \in -40 .. 215 BY <1>3 DEF InRange, Trims, Words
  <2>2. EncodePid(pid, v) = <<v + 40>> BY <1>3, <2>1 DEF EncodePid, Temperature, Clamp, Trims, Words
  <2>3. DecodePid(pid, <<v + 40>>) = v BY <1>3, <2>1 DEF DecodePid, DecodeTemperature, Trims, Words
  <2>4. Shown(pid, v) = v BY <1>3 DEF Shown, Trims, Words
  <2> QED BY <2>1, <2>2, <2>3, <2>4, <1>1, <1>3
<1>4. CASE pid \in Trims
  <2>1. pid # 1 /\ pid # 5 /\ pid \notin Words /\ pid # 166 BY <1>4 DEF Trims, Words
  <2>2. v \in -100 .. 99 BY <1>4, <2>1 DEF InRange
  <2>3. EncodePid(pid, v) = TrimPercent(v) BY <1>4, <2>1 DEF EncodePid
  <2>4. DecodePid(pid, TrimPercent(v)) = DecodeTrim(TrimPercent(v)) BY <1>4, <2>1 DEF DecodePid
  <2>5. Shown(pid, v) = NearestTrim(v) BY <1>4, <2>1 DEF Shown
  <2>6. /\ DecodeTrim(TrimPercent(v)) = NearestTrim(v)
        /\ TrimPercent(v) \in Seq(Int) /\ Len(TrimPercent(v)) = 1
    BY <2>2, TrimBack
  <2> QED BY <2>1, <2>3, <2>4, <2>5, <2>6, <1>1, <1>4
<1>5. CASE pid \in Words
  <2>1. pid # 1 /\ pid # 5 /\ pid \notin Trims /\ pid # 166 BY <1>5 DEF Trims, Words
  <2>2. v \in Nat BY <1>5, <2>1 DEF InRange
  <2> DEFINE c == Clamp(v, 0, WordMax)
  <2>3. EncodePid(pid, v) = WordBytes(c) BY <1>5, <2>1 DEF EncodePid, Unsigned16
  <2>4. DecodePid(pid, WordBytes(c)) = Word(WordBytes(c)) BY <1>5, <2>1 DEF DecodePid
  <2>5. Shown(pid, v) = c BY <1>5, <2>1 DEF Shown
  <2>6. c \in Nat BY <2>2 DEF Clamp, WordMax
  <2> QED BY <2>1, <2>3, <2>4, <2>5, <2>6, <1>1, <1>5, WordBack
<1>6. CASE pid = 166
  <2>1. v \in 0 .. KmLimit BY <1>6 DEF InRange, Trims, Words
  <2>2. v \in Nat /\ 10 * v \in Nat /\ (10 * v) \div 10 = v BY <2>1
  <2>3. EncodePid(pid, v) = LongBytes(10 * v) BY <1>6 DEF EncodePid, Trims, Words
  <2>4. /\ LongBytes(10 * v) \in Seq(Int) /\ Len(LongBytes(10 * v)) = 4
        /\ Long(LongBytes(10 * v)) = 10 * v
    BY <2>2, LongBack
  <2>5. DecodePid(pid, LongBytes(10 * v)) = Long(LongBytes(10 * v)) \div 10
    BY <1>6 DEF DecodePid, Trims, Words
  <2>6. Shown(pid, v) = v BY <1>6 DEF Shown, Trims, Words
  <2>7. Width[pid] = 4 BY <1>1, <1>6 DEF Trims, Words
  <2> QED BY <2>2, <2>3, <2>4, <2>5, <2>6, <2>7
<1> QED BY <1>1, <1>2, <1>3, <1>4, <1>5, <1>6

\* The least and the greatest of a set that has one.
LEMMA MinIs ==
  ASSUME NEW D \in SUBSET Int, NEW x \in D, \A y \in D : x <= y
  PROVE  Min(D) = x
<1>1. Min(D) = CHOOSE y \in D : \A z \in D : y <= z BY DEF Min
<1>2. \A y \in D : (\A z \in D : y <= z) => y = x OBVIOUS
<1> QED BY <1>1, <1>2

LEMMA MaxIs ==
  ASSUME NEW D \in SUBSET Int, NEW x \in D, \A y \in D : y <= x
  PROVE  Max(D) = x
<1>1. Max(D) = CHOOSE y \in D : \A z \in D : y >= z BY DEF Max
<1>2. \A y \in D : (\A z \in D : y >= z) => y = x OBVIOUS
<1> QED BY <1>1, <1>2

LEMMA MinFacts ==
  ASSUME NEW D \in SUBSET Nat, D # {}
  PROVE  Min(D) \in D /\ \A y \in D : Min(D) <= y
<1>1. PICK x \in D : \A y \in D : x <= y BY LeastExists
<1>2. Min(D) = x BY <1>1, MinIs
<1> QED BY <1>1, <1>2

LEMMA SeqIs ==
  ASSUME NEW S, NEW n \in Nat, NEW s \in [1 .. n -> S]
  PROVE  s \in Seq(S) /\ Len(s) = n /\ DOMAIN s = 1 .. n
OBVIOUS

LEMMA BytesOf ==
  ASSUME NEW t \in Seq(Byte)
  PROVE  Len(t) \in Nat /\ t = [j \in 1 .. Len(t) |-> t[j]] /\ \A j \in 1 .. Len(t) : t[j] \in Int
<1>1. \A j \in 1 .. Len(t) : t[j] \in Byte OBVIOUS
<1>2. Byte \subseteq Int BY DEF Byte
<1> QED BY <1>1, <1>2

-----------------------------------------------------------------------------
(* Items of vehicle information. *)

\* An item is padded to its width, and read without the padding.
LEMMA StripPad ==
  ASSUME NEW text \in Seq(Byte), NEW w \in Nat, Len(text) <= w, Trimmed(text)
  PROVE  Strip(Pad(text, w)) = text
<1> DEFINE p == Pad(text, w)
           n == Len(text)
           kept == {i \in DOMAIN p : p[i] \notin {0, 32}}
<1>1. p = [i \in 1 .. w |-> IF i <= n THEN text[i] ELSE 0] BY DEF Pad
<1>2. /\ n \in 0 .. w /\ n \in Nat /\ text = [i \in 1 .. n |-> text[i]]
      /\ text # << >> => n > 0 /\ text[1] \notin {0, 32} /\ text[n] \notin {0, 32}
  BY DEF Trimmed
<1>3. DOMAIN p = 1 .. w /\ \A i \in 1 .. w : p[i] = IF i <= n THEN text[i] ELSE 0
  <2> HIDE DEF p, n
  <2> QED BY <1>1
<1> HIDE DEF p, n
<1>4. CASE text = << >>
  <2>1. n = 0 BY <1>4 DEF n
  <2>2. kept = {} BY <1>3, <2>1
  <2> QED BY <1>4, <2>2 DEF Strip, p
<1>5. CASE text # << >>
  <2>1. kept \subseteq 1 .. n /\ 1 \in kept /\ n \in kept BY <1>2, <1>3, <1>5
  <2> HIDE DEF kept
  <2>2. Min(kept) = 1 /\ Max(kept) = n
    <3>1. kept \in SUBSET Int /\ (\A y \in kept : 1 <= y) /\ (\A y \in kept : y <= n) BY <2>1
    <3>2. Min(kept) = 1 BY <2>1, <3>1, MinIs
    <3>3. Max(kept) = n BY <2>1, <3>1, MaxIs
    <3> QED BY <3>2, <3>3
  <2>3. Strip(p) = SubSeq(p, 1, n)
    <3>1. Strip(p) = IF kept = {} THEN << >> ELSE SubSeq(p, Min(kept), Max(kept)) BY DEF Strip, kept
    <3> QED BY <3>1, <2>1, <2>2
  <2>4. SubSeq(p, 1, n) = [i \in 1 .. n |-> p[i]] BY <1>2
  <2>5. \A i \in 1 .. n : p[i] = text[i] BY <1>2, <1>3
  <2> QED BY <1>2, <2>3, <2>4, <2>5 DEF p
<1> QED BY <1>4, <1>5

LEMMA WidthIs ==
  ASSUME NEW id \in DOMAIN ItemWidth
  PROVE  /\ ItemWidth[id] \in Widths /\ ItemWidth[id] \in Nat /\ id \in {2, 4, 6, 10}
         /\ id = 6 => ItemWidth[id] = 4
BY DEF ItemWidth, Widths

\* Where the counted items lie in a reply.
LEMMA Counted ==
  ASSUME NEW n \in Nat, NEW w \in Widths, NEW l, l = 1 + Size(w, n)
  PROVE  /\ (l % w # 0) /\ (l - 1) \div w = n
         /\ \A i \in 1 .. n, j \in 1 .. w : 1 + w * (i - 1) + j = 1 + At(w, i, j)
<1>1. CASE w = 4 BY <1>1 DEF Size, At
<1>2. CASE w = 9 BY <1>2 DEF Size, At
<1>3. CASE w = 16 BY <1>3 DEF Size, At
<1>4. CASE w = 17 BY <1>4 DEF Size, At
<1>5. CASE w = 20 BY <1>5 DEF Size, At
<1> QED BY <1>1, <1>2, <1>3, <1>4, <1>5 DEF Widths

\* A reply that counts what follows.
LEMMA Prefixed ==
  ASSUME NEW x \in Seq(Int), NEW c \in Int, NEW d, d = <<c>> \o x
  PROVE  /\ d \in Seq(Int) /\ Len(d) = 1 + Len(x) /\ d[1] = c
         /\ \A q \in 1 .. Len(x) : d[1 + q] = x[q]
<1> DEFINE h == <<c>>
<1>1. h \in Seq(Int) /\ Len(h) = 1 /\ h[1] = c OBVIOUS
<1> HIDE DEF h
<1>2. d = h \o x BY DEF h
<1> QED BY <1>1, <1>2

LEMMA CountedItems ==
  ASSUME NEW n \in Nat, NEW w \in Widths, NEW d, Len(d) = 1 + Size(w, n)
  PROVE  InfoItems(d, w) = [i \in 1 .. n |-> [j \in 1 .. w |-> d[1 + At(w, i, j)]]]
<1> DEFINE l == Len(d)
<1>1. l = 1 + Size(w, n) OBVIOUS
<1> HIDE DEF l
<1>2. /\ (l % w # 0) /\ (l - 1) \div w = n
      /\ \A i \in 1 .. n, j \in 1 .. w : 1 + w * (i - 1) + j = 1 + At(w, i, j)
  BY <1>1, Counted
<1>3. W(l % w # 0) = 1 BY <1>2 DEF W
<1>4. InfoItems(d, w) = [i \in 1 .. n |-> [j \in 1 .. w |-> d[1 + w * (i - 1) + j]]]
  <2>1. InfoItems(d, w) = LET counted == W(l % w # 0)
                              m == (l - counted) \div w
                          IN  [i \in 1 .. m |-> [j \in 1 .. w |-> d[counted + w * (i - 1) + j]]]
    BY DEF InfoItems, l
  <2> QED BY <2>1, <1>2, <1>3
<1>5. \A i \in 1 .. n : [j \in 1 .. w |-> d[1 + w * (i - 1) + j]] = [j \in 1 .. w |-> d[1 + At(w, i, j)]]
  BY <1>2
<1> QED BY <1>4, <1>5

IsBlocks(blocks, w) == blocks \in Seq([1 .. w -> Int])

LEMMA JoinedInts ==
  ASSUME NEW blocks, NEW w \in Widths, IsBlocks(blocks, w)
  PROVE  /\ Joined(blocks, w) \in Seq(Int) /\ Len(Joined(blocks, w)) = Size(w, Len(blocks))
         /\ Size(w, Len(blocks)) \in Nat
<1> DEFINE x == Joined(blocks, w)
           n == Len(blocks)
<1>1. n \in Nat /\ n = Len(blocks) BY DEF IsBlocks
<1>2. \A i \in 1 .. n : blocks[i] \in [1 .. w -> Int] BY DEF IsBlocks
<1> HIDE DEF n
<1>3. /\ Len(x) = Size(w, n) /\ x = [i \in 1 .. Size(w, n) |-> x[i]]
      /\ \A i \in 1 .. Size(w, n) : x[i] = blocks[Row(w, i)][Col(w, i)]
  BY <1>1, JoinedIs
<1>4. /\ Size(w, n) \in Nat
      /\ \A i \in 1 .. Size(w, n) : Row(w, i) \in 1 .. n /\ Col(w, i) \in 1 .. w
  BY <1>1, Places
<1> HIDE DEF x
<1>5. \A i \in 1 .. Size(w, n) : x[i] \in Int
  <2> TAKE i \in 1 .. Size(w, n)
  <2> DEFINE k == Row(w, i)
             j == Col(w, i)
  <2>1. k \in 1 .. n /\ j \in 1 .. w /\ x[i] = blocks[k][j] BY <1>3, <1>4
  <2> HIDE DEF k, j
  <2> QED BY <2>1, <1>2
<1>6. x \in Seq(Int) BY <1>3, <1>4, <1>5
<1> QED BY <1>3, <1>4, <1>6 DEF x, n

LEMMA ItemsBack ==
  ASSUME NEW blocks, NEW w \in Widths, NEW c \in Int, IsBlocks(blocks, w)
  PROVE  InfoItems(<<c>> \o Joined(blocks, w), w) = blocks
<1> DEFINE x == Joined(blocks, w)
           d == <<c>> \o x
           n == Len(blocks)
<1>1. n \in Nat /\ n = Len(blocks) BY DEF IsBlocks
<1>2. x \in Seq(Int) /\ Len(x) = Size(w, n) /\ Size(w, n) \in Nat BY JoinedInts
<1>3. /\ blocks = [i \in 1 .. n |-> blocks[i]]
      /\ \A i \in 1 .. n : blocks[i] = [j \in 1 .. w |-> blocks[i][j]]
  <2>1. blocks = [i \in 1 .. n |-> blocks[i]] BY DEF IsBlocks
  <2>2. \A i \in 1 .. n : blocks[i] \in [1 .. w -> Int] BY DEF IsBlocks
  <2> QED BY <2>1, <2>2
<1>4. \A k \in 1 .. n, j \in 1 .. w : x[At(w, k, j)] = blocks[k][j]
  <2> HIDE DEF n
  <2> QED BY <1>1, JoinedIs
<1>5. d = <<c>> \o x OBVIOUS
<1> HIDE DEF n, x, d
<1>6. \A k \in 1 .. n, j \in 1 .. w : At(w, k, j) \in 1 .. Size(w, n) BY <1>1, Places
<1>7. Len(d) = 1 + Size(w, n) /\ \A q \in 1 .. Size(w, n) : d[1 + q] = x[q]
  BY <1>2, <1>5, Prefixed
<1>8. InfoItems(d, w) = [i \in 1 .. n |-> [j \in 1 .. w |-> d[1 + At(w, i, j)]]]
  BY <1>1, <1>7, CountedItems
<1>9. \A i \in 1 .. n : [j \in 1 .. w |-> d[1 + At(w, i, j)]] = blocks[i]
  <2> TAKE i \in 1 .. n
  <2>1. \A j \in 1 .. w : d[1 + At(w, i, j)] = blocks[i][j] BY <1>4, <1>6, <1>7
  <2> QED BY <2>1, <1>3
<1> QED BY <1>3, <1>8, <1>9 DEF d, x

\* The items that a module has are read as it has them.
LEMMA InfoBack ==
  ASSUME NEW id \in DOMAIN ItemWidth, NEW items \in Seq(Seq(Byte)),
         \A text \in Range(items) :
            IF id = 6 THEN Len(text) = 4 ELSE Len(text) <= ItemWidth[id] /\ Trimmed(text)
  PROVE  LET w == ItemWidth[id]
             blocks == [i \in DOMAIN items |-> Pad(items[i], w)]
         IN  /\ IsBlocks(blocks, w) /\ DOMAIN blocks = DOMAIN items
             /\ [i \in DOMAIN blocks |-> IF id = 6 THEN blocks[i] ELSE Strip(blocks[i])] = items
<1> DEFINE w == ItemWidth[id]
           blocks == [i \in DOMAIN items |-> Pad(items[i], w)]
           n == Len(items)
<1>1. w \in Nat /\ (id = 6 => w = 4) BY WidthIs
<1>2. n \in Nat /\ DOMAIN items = 1 .. n /\ items = [i \in 1 .. n |-> items[i]] OBVIOUS
<1>3. ASSUME NEW i \in DOMAIN items
      PROVE  /\ Pad(items[i], w) \in [1 .. w -> Int]
             /\ (IF id = 6 THEN Pad(items[i], w) ELSE Strip(Pad(items[i], w))) = items[i]
  <2> DEFINE t == items[i]
  <2>1. t \in Range(items) BY DEF Range
  <2>2. IF id = 6 THEN Len(t) = 4 ELSE Len(t) <= w /\ Trimmed(t) BY <2>1
  <2>3. t \in Seq(Byte) OBVIOUS
  <2> HIDE DEF w, t
  <2>4. Pad(t, w) = [j \in 1 .. w |-> IF j <= Len(t) THEN t[j] ELSE 0] BY DEF Pad
  <2>5. Len(t) \in Nat /\ t = [j \in 1 .. Len(t) |-> t[j]] /\ \A j \in 1 .. Len(t) : t[j] \in Int
    BY <2>3, BytesOf
  <2>6. Pad(t, w) \in [1 .. w -> Int] BY <2>4, <2>5, <1>1
  <2>7. CASE id # 6
    <3>1. Len(t) <= w /\ Trimmed(t) BY <2>2, <2>7
    <3>2. Strip(Pad(t, w)) = t BY <3>1, <2>3, <1>1, StripPad
    <3> QED BY <2>6, <2>7, <3>2 DEF t
  <2>8. CASE id = 6
    <3>0. w = 4 /\ Len(t) = 4 BY <2>2, <2>8, <1>1
    <3>1. Pad(t, w) = [j \in 1 .. 4 |-> IF j <= 4 THEN t[j] ELSE 0] BY <3>0, <2>4
    <3>3. Pad(t, w) = [j \in 1 .. 4 |-> t[j]] BY <3>1
    <3>2. t = [j \in 1 .. 4 |-> t[j]] BY <2>2, <2>5, <2>8
    <3> QED BY <2>6, <2>8, <3>2, <3>3 DEF t
  <2> QED BY <2>7, <2>8
<1> HIDE DEF w
<1>4. DOMAIN blocks = 1 .. n /\ \A i \in 1 .. n : blocks[i] = Pad(items[i], w) BY <1>2
<1>5. IsBlocks(blocks, w)
  <2> HIDE DEF n
  <2>1. blocks \in [1 .. n -> [1 .. w -> Int]] BY <1>2, <1>3
  <2> HIDE DEF blocks
  <2>2. blocks \in Seq([1 .. w -> Int]) BY <2>1, <1>2, SeqIs
  <2> QED BY <2>2 DEF IsBlocks
<1>6. \A i \in 1 .. n : (IF id = 6 THEN blocks[i] ELSE Strip(blocks[i])) = items[i] BY <1>2, <1>3, <1>4
<1> HIDE DEF blocks, n
<1>7. [i \in DOMAIN blocks |-> IF id = 6 THEN blocks[i] ELSE Strip(blocks[i])] = items
  BY <1>2, <1>4, <1>6
<1> QED BY <1>2, <1>4, <1>5, <1>7 DEF w, blocks

-----------------------------------------------------------------------------
(* Test results. *)

LEMMA TestIs ==
  ASSUME NEW t \in Tests
  PROVE  /\ TestBytes(t) \in [1 .. 9 -> Int]
         /\ TestBytes(t)[1] = t.monitor /\ TestBytes(t)[2] = t.test
         /\ Word(<<TestBytes(t)[4], TestBytes(t)[5]>>) = t.value
         /\ Word(<<TestBytes(t)[6], TestBytes(t)[7]>>) = t.min
         /\ Word(<<TestBytes(t)[8], TestBytes(t)[9]>>) = t.max
         /\ t = [monitor |-> t.monitor, test |-> t.test, value |-> t.value, min |-> t.min, max |-> t.max]
<1>1. /\ t.monitor \in Byte /\ t.test \in Byte
      /\ t.value \in 0 .. WordMax /\ t.min \in 0 .. WordMax /\ t.max \in 0 .. WordMax
      /\ t = [monitor |-> t.monitor, test |-> t.test, value |-> t.value, min |-> t.min, max |-> t.max]
  BY DEF Tests
<1> DEFINE a == t.monitor
           b == t.test
           x == t.value
           y == t.min
           z == t.max
<1>2. a \in Int /\ b \in Int /\ x \in Nat /\ y \in Nat /\ z \in Nat
  <2>1. \A v \in Byte : v \in Int BY DEF Byte
  <2>2. \A v \in 0 .. WordMax : v \in Nat OBVIOUS
  <2> QED BY <1>1, <2>1, <2>2
<1>3. TestBytes(t) = <<a, b, 1, x \div 256, x % 256, y \div 256, y % 256, z \div 256, z % 256>>
  BY DEF TestBytes
<1> HIDE DEF a, b, x, y, z
<1> DEFINE u == TestBytes(t)
           x1 == x \div 256
           x2 == x % 256
           y1 == y \div 256
           y2 == y % 256
           z1 == z \div 256
           z2 == z % 256
<1>4. /\ x1 \in Int /\ x2 \in Int /\ y1 \in Int /\ y2 \in Int /\ z1 \in Int /\ z2 \in Int
      /\ 256 * x1 + x2 = x /\ 256 * y1 + y2 = y /\ 256 * z1 + z2 = z
  BY <1>2
<1>5. u = <<a, b, 1, x1, x2, y1, y2, z1, z2>> BY <1>3
<1> HIDE DEF u, x1, x2, y1, y2, z1, z2
<1>6. /\ u \in [1 .. 9 -> Int] /\ u[1] = a /\ u[2] = b
      /\ u[4] = x1 /\ u[5] = x2 /\ u[6] = y1 /\ u[7] = y2 /\ u[8] = z1 /\ u[9] = z2
  <2>1. 1 \in Int OBVIOUS
  <2> QED BY <2>1, <1>2, <1>4, <1>5
<1>7. \A p, q : Word(<<p, q>>) = 256 * p + q BY DEF Word
<1>8. Word(<<u[4], u[5]>>) = x /\ Word(<<u[6], u[7]>>) = y /\ Word(<<u[8], u[9]>>) = z
  BY <1>4, <1>6, <1>7
<1> QED BY <1>1, <1>6, <1>8 DEF u, a, b, x, y, z

\* The results in a reply are read as they were written.
LEMMA TestsBack ==
  ASSUME NEW groups \in Seq(Tests)
  PROVE  LET blocks == [i \in DOMAIN groups |-> TestBytes(groups[i])]
         IN  IsBlocks(blocks, 9) /\ TestGroups(<< 70 >> \o Joined(blocks, 9)) = groups
<1> DEFINE blocks == [i \in DOMAIN groups |-> TestBytes(groups[i])]
           n == Len(groups)
           x == Joined(blocks, 9)
           d == << 70 >> \o x
<1>1. n \in Nat /\ DOMAIN groups = 1 .. n /\ groups = [i \in 1 .. n |-> groups[i]]
      /\ \A i \in 1 .. n : groups[i] \in Tests
  OBVIOUS
<1>2. \A t \in Tests : TestBytes(t) \in [1 .. 9 -> Int] BY TestIs
<1>3. blocks = [i \in 1 .. n |-> TestBytes(groups[i])] /\ \A i \in 1 .. n : TestBytes(groups[i]) \in [1 .. 9 -> Int]
  BY <1>1, <1>2
<1> HIDE DEF n, blocks
<1>4. IsBlocks(blocks, 9) /\ Len(blocks) = n
  <2>1. blocks \in [1 .. n -> [1 .. 9 -> Int]] BY <1>3
  <2>2. blocks \in Seq([1 .. 9 -> Int]) /\ Len(blocks) = n BY <2>1, <1>1, SeqIs
  <2> QED BY <2>2 DEF IsBlocks
<1>5. 9 \in Widths BY DEF Widths
<1>6. x \in Seq(Int) /\ Len(x) = Size(9, n) /\ Size(9, n) \in Nat BY <1>4, <1>5, JoinedInts
<1>7. \A k \in 1 .. n, j \in 1 .. 9 : x[At(9, k, j)] = blocks[k][j]
  <2> DEFINE w == 9
  <2>1. n = Len(blocks) /\ n \in Nat /\ w \in Widths /\ x = Joined(blocks, w) BY <1>1, <1>4, <1>5
  <2> HIDE DEF w
  <2>2. \A k \in 1 .. n, j \in 1 .. w : Joined(blocks, w)[At(w, k, j)] = blocks[k][j] BY <2>1, JoinedIs
  <2> QED BY <2>2 DEF w
<1>8. \A k \in 1 .. n, j \in 1 .. 9 : At(9, k, j) \in 1 .. Size(9, n) BY <1>1, <1>5, Places
<1>9. d = << 70 >> \o x OBVIOUS
<1> HIDE DEF x, d
<1>10. Len(d) = 1 + Size(9, n) /\ \A q \in 1 .. Size(9, n) : d[1 + q] = x[q] BY <1>6, <1>9, Prefixed
<1>11. (Len(d) - 1) \div 9 = n BY <1>10, <1>1 DEF Size
<1>12. \A k \in 1 .. n, j \in 1 .. 9 : d[1 + 9 * (k - 1) + j] = TestBytes(groups[k])[j]
  <2> TAKE k \in 1 .. n, j \in 1 .. 9
  <2>1. 1 + 9 * (k - 1) + j = 1 + At(9, k, j) BY <1>1 DEF At
  <2>2. blocks[k] = TestBytes(groups[k]) BY <1>3
  <2> QED BY <2>1, <2>2, <1>7, <1>8, <1>10, ZenonT(40)
<1>13. \A k \in 1 .. n :
         [monitor |-> d[1 + 9 * (k - 1) + 1], test |-> d[1 + 9 * (k - 1) + 2],
          value |-> Word(<<d[1 + 9 * (k - 1) + 4], d[1 + 9 * (k - 1) + 5]>>),
          min |-> Word(<<d[1 + 9 * (k - 1) + 6], d[1 + 9 * (k - 1) + 7]>>),
          max |-> Word(<<d[1 + 9 * (k - 1) + 8], d[1 + 9 * (k - 1) + 9]>>)] = groups[k]
  <2> TAKE k \in 1 .. n
  <2> DEFINE t == groups[k]
             At9(j) == d[1 + 9 * (k - 1) + j]
  <2>1. t \in Tests BY <1>1
  <2>2. \A j \in 1 .. 9 : At9(j) = TestBytes(t)[j] BY <1>12
  <2> HIDE DEF t, At9
  <2>3. /\ TestBytes(t)[1] = t.monitor /\ TestBytes(t)[2] = t.test
        /\ Word(<<TestBytes(t)[4], TestBytes(t)[5]>>) = t.value
        /\ Word(<<TestBytes(t)[6], TestBytes(t)[7]>>) = t.min
        /\ Word(<<TestBytes(t)[8], TestBytes(t)[9]>>) = t.max
        /\ t = [monitor |-> t.monitor, test |-> t.test, value |-> t.value, min |-> t.min, max |-> t.max]
    BY <2>1, TestIs
  <2>4. /\ At9(1) = TestBytes(t)[1] /\ At9(2) = TestBytes(t)[2] /\ At9(4) = TestBytes(t)[4]
        /\ At9(5) = TestBytes(t)[5] /\ At9(6) = TestBytes(t)[6] /\ At9(7) = TestBytes(t)[7]
        /\ At9(8) = TestBytes(t)[8] /\ At9(9) = TestBytes(t)[9]
    BY <2>2
  <2>6. /\ Word(<<At9(4), At9(5)>>) = t.value /\ Word(<<At9(6), At9(7)>>) = t.min
        /\ Word(<<At9(8), At9(9)>>) = t.max /\ At9(1) = t.monitor /\ At9(2) = t.test
    BY <2>3, <2>4
  <2>7. [monitor |-> At9(1), test |-> At9(2), value |-> Word(<<At9(4), At9(5)>>),
         min |-> Word(<<At9(6), At9(7)>>), max |-> Word(<<At9(8), At9(9)>>)] = t
    BY <2>3, <2>6
  <2> QED BY <2>7 DEF t, At9
<1>14. TestGroups(d) = groups BY <1>1, <1>11, <1>13 DEF TestGroups
<1> QED BY <1>4, <1>14 DEF d, x, blocks

\* A module's list of fault codes is read as it is, and a reply without any as empty.
THEOREM ParsedTheorem ==
  ASSUME NEW codes \in Seq(Codes \ {Padding}), NEW service \in Nat
  PROVE  ParseDtcs(DtcResponse(service, codes)) = codes
<1>1. codes \in Seq(Codes) /\ \A i \in 1 .. Len(codes) : codes[i] \in Codes \ {Padding} OBVIOUS
<1>2. \A i \in 1 .. Len(codes) : codes[i] # [letter |-> 0, d1 |-> 0, d2 |-> 0, d3 |-> 0, d4 |-> 0]
  BY <1>1 DEF Padding
<1>3. DtcPairs(DtcResponse(service, codes)) = codes BY <1>1, <1>2, DtcListTheorem
<1>4. Range(codes) \subseteq Codes BY <1>1 DEF Range
<1>5. Kept(codes, Codes) = codes BY <1>1, <1>4, KeptFacts
<1> QED BY <1>3, <1>5 DEF ParseDtcs

LEMMA ParsedNone ==
  ASSUME NEW c
  PROVE  ParseDtcs(<<c>>) = << >>
<1> DEFINE reply == <<c>>
<1>1. Len(reply) = 1 /\ (Len(reply) - 1) % 2 = 0 OBVIOUS
<1> HIDE DEF reply
<1>2. Len(DtcBody(reply)) = 0 BY <1>1 DEF DtcBody
<1>3. DtcPairs(reply) = << >> BY <1>2 DEF DtcPairs
<1>4. << >> \in Seq(Codes) /\ Range(<< >>) \cap Codes = {} BY DEF Range
<1>5. Kept(<< >>, Codes) = << >> BY <1>4, KeptFacts
<1> QED BY <1>3, <1>5 DEF ParseDtcs, reply

-----------------------------------------------------------------------------
(* What a module answers. *)

Services == {1, 2, 3, 6, 7, 9, 10, 16, 34, 62}
Requests == [svc : Services, id : 0 .. WordMax]

LEMMA BitmapIs ==
  ASSUME NEW items, NEW origin
  PROVE  SupportBitmap(items, origin) \in Seq(Int) /\ Len(SupportBitmap(items, origin)) = 4
<1>1. SupportBitmap(items, origin) = [i \in 1 .. 4 |-> ByteOf({k \in 0 .. 7 : origin + 8 * i - k \in items})]
  BY DEF SupportBitmap
<1>2. \A K : ByteOf(K) \in Int
  <2>1. \A K : ByteOf(K) \in Byte BY BitOfByte
  <2> QED BY <2>1 DEF Byte
<1>3. SupportBitmap(items, origin) \in [1 .. 4 -> Int] BY <1>1, <1>2
<1> QED BY <1>3, SeqIs

LEMMA PositiveIs ==
  ASSUME NEW req \in Requests
  PROVE  /\ Positive(req) \in Seq(Int) /\ Positive(req) # << >> /\ Positive(req)[1] = req.svc + 64
         /\ req.svc = 1 => Positive(req) = <<65, req.id>>
         /\ req.svc = 2 => Positive(req) = <<66, req.id, 0>>
         /\ req.svc = 9 => Positive(req) = <<73, req.id>>
         /\ req.svc = 34 => Positive(req) = <<98, req.id \div 256, req.id % 256>>
<1>1. req.svc \in Services /\ req.id \in Nat BY DEF Requests
<1> DEFINE s == req.svc
           i == req.id
<1>2. i \div 256 \in Int /\ i % 256 \in Int BY <1>1
<1>3. CASE s \in {3, 7, 10, 6} BY <1>1, <1>3 DEF Positive, Services
<1>4. CASE s = 34 BY <1>1, <1>2, <1>4 DEF Positive, Services
<1>5. CASE s = 2 BY <1>1, <1>5 DEF Positive, Services
<1>6. CASE s \in {1, 9, 16, 62}
  <2>1. Positive(req) = <<s + 64, i>> BY <1>6 DEF Positive
  <2> QED BY <1>1, <1>6, <2>1
<1> QED BY <1>1, <1>3, <1>4, <1>5, <1>6 DEF Services

LEMMA BasesAre ==
  ASSUME NEW items
  PROVE  /\ \A origin \in BitmapBases(items) : origin % 32 = 0 /\ origin \in 0 .. 192
         /\ \A pid \in KnownPids : pid \notin BitmapBases(items)
         /\ \A id \in DOMAIN ItemWidth : id \notin BitmapBases(items)
<1>1. \A origin \in BitmapBases(items) : origin % 32 = 0 /\ origin \in 0 .. 192 BY DEF BitmapBases
<1>2. \A pid \in KnownPids : pid % 32 # 0 BY DEF KnownPids
<1>3. \A id \in DOMAIN ItemWidth : id % 32 # 0 BY DEF ItemWidth
<1> QED BY <1>1, <1>2, <1>3

\* The parts of the module's description that a proof below needs.
LEMMA ModuleIs ==
  ASSUME NEW m, IsModule(m)
  PROVE  /\ DOMAIN m.pids \subseteq KnownPids /\ \A pid \in DOMAIN m.pids : InRange(pid, m.pids[pid])
         /\ DOMAIN m.frame \subseteq KnownPids /\ \A pid \in DOMAIN m.frame : InRange(pid, m.frame[pid])
         /\ m.stored \in Seq(Codes \ {Padding}) /\ m.pending \in Seq(Codes \ {Padding})
         /\ m.permanent \in Seq(Codes \ {Padding})
         /\ m.tests \in Seq(Tests)
         /\ DOMAIN m.info \subseteq DOMAIN ItemWidth
         /\ \A id \in DOMAIN m.info :
              /\ m.info[id] \in Seq(Seq(Byte)) /\ m.info[id] # << >>
              /\ \A text \in Range(m.info[id]) :
                   IF id = 6 THEN Len(text) = 4 ELSE Len(text) <= ItemWidth[id] /\ Trimmed(text)
         /\ DOMAIN m.dids \subseteq 0 .. WordMax /\ \A did \in DOMAIN m.dids : m.dids[did] \in Seq(Byte)
BY DEF IsModule

\* The value of a parameter: now, or when the fault was stored.
LEMMA TableIs ==
  ASSUME NEW coded, NEW req, req.id \in KnownPids \cup DOMAIN ItemWidth
  PROVE  Table(coded, req) = IF req.id \in DOMAIN coded THEN Positive(req) \o coded[req.id] ELSE << >>
<1>1. req.id \notin BitmapBases(DOMAIN coded) BY BasesAre
<1> QED BY <1>1 DEF Table

LEMMA PidAnswer ==
  ASSUME NEW m, NEW ext, NEW pid \in KnownPids
  PROVE  Handle(m, ext, Request(1, pid)) =
           IF pid \in DOMAIN m.pids THEN <<65, pid>> \o EncodePid(pid, m.pids[pid]) ELSE << >>
<1> DEFINE req == Request(1, pid)
<1>1. req.svc = 1 /\ req.id = pid /\ Positive(req) = <<65, pid>> BY DEF Request, Positive
<1> HIDE DEF req
<1>2. Handle(m, ext, req) = Table(Coded(m.pids), req) BY <1>1 DEF Handle
<1>3. Table(Coded(m.pids), req) =
        IF pid \in DOMAIN Coded(m.pids) THEN <<65, pid>> \o Coded(m.pids)[pid] ELSE << >>
  BY <1>1, TableIs
<1> QED BY <1>2, <1>3 DEF Coded, req

LEMMA FrameAnswer ==
  ASSUME NEW m, NEW ext, NEW pid \in KnownPids
  PROVE  Handle(m, ext, Request(2, pid)) =
           IF pid \in DOMAIN m.frame THEN <<66, pid, 0>> \o EncodePid(pid, m.frame[pid]) ELSE << >>
<1> DEFINE req == Request(2, pid)
<1>1. req.svc = 2 /\ req.id = pid /\ Positive(req) = <<66, pid, 0>> BY DEF Request, Positive
<1> HIDE DEF req
<1>2. Handle(m, ext, req) = IF DOMAIN m.frame = {} THEN << >> ELSE Table(Coded(m.frame), req) BY <1>1 DEF Handle
<1>3. Table(Coded(m.frame), req) =
        IF pid \in DOMAIN Coded(m.frame) THEN <<66, pid, 0>> \o Coded(m.frame)[pid] ELSE << >>
  BY <1>1, TableIs
<1> QED BY <1>2, <1>3 DEF Coded, req

LEMMA ItemAnswer ==
  ASSUME NEW m, NEW ext, NEW id \in DOMAIN ItemWidth
  PROVE  Handle(m, ext, Request(9, id)) =
           IF id \in DOMAIN m.info
           THEN <<73, id>> \o (<<Len(m.info[id])>> \o Joined(Padded(m.info[id], id), ItemWidth[id]))
           ELSE << >>
<1> DEFINE req == Request(9, id)
<1>1. req.svc = 9 /\ req.id = id /\ Positive(req) = <<73, id>> BY DEF Request, Positive
<1>2. id # 0 BY DEF ItemWidth
<1> HIDE DEF req
<1>3. Handle(m, ext, req) = Table(CodedInfo(m.info), req) BY <1>1, <1>2 DEF Handle
<1>4. Table(CodedInfo(m.info), req) =
        IF id \in DOMAIN CodedInfo(m.info) THEN <<73, id>> \o CodedInfo(m.info)[id] ELSE << >>
  BY <1>1, TableIs
<1>5. DOMAIN CodedInfo(m.info) = DOMAIN m.info /\ \A i \in DOMAIN m.info :
        CodedInfo(m.info)[i] = <<Len(m.info[i])>> \o Joined(Padded(m.info[i], i), ItemWidth[i])
  BY DEF CodedInfo
<1> QED BY <1>3, <1>4, <1>5 DEF req

LEMMA CodesAnswer ==
  ASSUME NEW m, NEW ext
  PROVE  /\ Handle(m, ext, Request(3, 0)) = DtcResponse(3, m.stored)
         /\ Handle(m, ext, Request(7, 0)) = DtcResponse(7, m.pending)
         /\ Handle(m, ext, Request(10, 0)) = DtcResponse(10, m.permanent)
<1>1. Request(3, 0).svc = 3 /\ Request(7, 0).svc = 7 /\ Request(10, 0).svc = 10 BY DEF Request
<1> QED BY <1>1 DEF Handle

\* Test results: those of the monitor asked for, or a bitmap.
LEMMA TestAnswer ==
  ASSUME NEW m, NEW ext, NEW req \in Requests, req.svc = 6
  PROVE  LET groups == Kept(m.tests, OfMonitor(m, req.id))
             d == Handle(m, ext, req)
         IN  \/ \E items : d = <<70, req.id>> \o SupportBitmap(items, req.id)
             \/ d = << >>
             \/ groups # << >> /\ d = << 70 >> \o Joined([i \in DOMAIN groups |-> TestBytes(groups[i])], 9)
<1>1. Handle(m, ext, req) = TestReply(m, req.id) BY DEF Handle
<1> QED BY <1>1 DEF TestReply

LEMMA DidAnswer ==
  ASSUME NEW m, NEW ext, NEW req \in Requests, req.svc = 34
  PROVE  LET d == Handle(m, ext, req)
         IN  \/ \E nrc \in {51, 127, 49} : d = <<127, 34, nrc>>
             \/ /\ req.id \in DOMAIN m.dids \ m.protected /\ (ext \/ req.id \notin m.extended)
                /\ d = Positive(req) \o m.dids[req.id]
<1>1. Handle(m, ext, req) = DidReply(m, ext, req) BY DEF Handle
<1>2. \A nrc : Refusal(req, nrc) = <<127, 34, nrc>> BY DEF Refusal
<1> QED BY <1>1, <1>2 DEF DidReply

-----------------------------------------------------------------------------
(* The invariant. *)

ObdSteps == {"supported", "walk", "pids", "stored", "pending", "permanent", "walk6", "tests",
             "info", "items", "walk2", "frames", "moduleVin"}
ProfileSteps == {"present", "session", "reads"}
QueueSteps == ProfileSteps \cup {"open", "identify"}
Walks == {"supported", "walk", "walk6", "walk2"}

\* What a loop has still to ask for is something that it can ask for.
Fits(s, ids, q) ==
  /\ s \in {"pids", "frames"} => ids # {} /\ ids \subseteq KnownPids
  /\ s = "tests" => ids # {} /\ ids \subseteq {id \in Byte : id % 32 # 0}
  /\ s \in {"info", "items"} => ids # {} /\ ids \subseteq DOMAIN ItemWidth
  /\ s = "reads" => ids # {} /\ ids \subseteq DOMAIN Head(q).reads
  /\ s = "identify" => ids # {} /\ ids \subseteq DOMAIN StandardDids

IsScan(s, name) ==
  /\ DOMAIN s = {"name", "supported", "readings", "stored", "pending", "permanent", "frame",
                 "tests", "info", "moduleVin", "unsupported", "errors"}
  /\ s.name = name /\ s.moduleVin = << >>
IsReading(x, name) ==
  /\ DOMAIN x = {"name", "reached", "values", "protected", "unavailable", "implausible"}
  /\ x.name = name

\* A module to read outside OBD-II: of a profile, or found by the sweep.
Planned(x) == (\E p \in Profiles : x \in Range(p.modules)) \/ (x.kind = "found" /\ x.session = 3)
IsQueue(q) == q \in Seq(Range(q)) /\ \A x \in Range(q) : Planned(x)

\* A request for fault codes has nothing in it to tell it from another one.
Unspecific(req) == req.svc \in {3, 7, 10} => req.id = 0
Tallies ==
  /\ car \in Cars /\ attempt \in 0 .. 2 /\ trouble \in 0 .. Failures[car]
  /\ session \in [DOMAIN car.spec -> {1, 3}]
  /\ \A b \in due : b.req \in Requests /\ b.nth \in Nat /\ Unspecific(b.req)
Place ==
  /\ step \in ObdSteps \cup QueueSteps \cup {"discover", "done", "aborted"}
  /\ left \in Seq(DOMAIN car.spec) /\ (step \in ObdSteps <=> left # << >>)
  /\ step \in ObdSteps => IsScan(scan, Head(left))
  /\ IsQueue(queue)
  /\ step \in QueueSteps =>
       /\ queue # << >> /\ IsReading(reading, Head(queue).name)
       /\ Head(queue).kind = "profile" <=> step \in ProfileSteps
  /\ base \in {32 * i : i \in 0 .. 7} /\ walked \subseteq 1 .. base
  /\ step \notin Walks => base = 0 /\ walked = {}
  /\ Fits(step, todo, queue)
Shape == Tallies /\ Place

Untested == {"supported", "walk", "pids", "stored", "pending", "permanent", "walk6"}

\* What a module owes of d, and the request in hand as one that it still owes an answer to.
DebtsOf(d, name) == {b \in d : b.at = name}
Mine == [at |-> Module, req |-> Current, nth |-> trouble]
\* Asks for the results of a monitor, which have no echo.
OfResults(req) == req.svc = 6 /\ req.id % 32 # 0

\* Results that a module m may still send, for those asked for later (ids) or those that it owes
\* an answer to (d), are not in its scan s, and no two answers of d have the same.
Awaited(m, s, ids, d) ==
  /\ \A id \in ids : Kept(s.tests, OfMonitor(m, id)) = << >>
  /\ \A b \in d : OfResults(b.req) => b.req.id \notin ids /\ Kept(s.tests, OfMonitor(m, b.req.id)) = << >>
  /\ \A a, b \in d : OfResults(a.req) /\ a.req = b.req => a = b
\* So no result is read twice of a module that did not put a request for one off.
Unread(m, s, st, ids, d, sl) ==
  /\ s.tests \in Seq(Range(m.tests))
  /\ st \in Untested => s.tests = << >> /\ \A b \in d : ~OfResults(b.req)
  /\ s.name \notin sl => OnceEach(m, s) /\ (st = "tests" => Awaited(m, s, ids, d))
\* The modules still to scan are different ones, and those not yet begun owe no answer.
Waiting(l, d) ==
  /\ \A i, j \in DOMAIN l : l[i] = l[j] => i = j
  /\ \A i \in DOMAIN l : i # 1 => DebtsOf(d, l[i]) = {}
OnceScans(spec, ss, sl) == \A s \in Range(ss) : s.name \notin sl => OnceEach(spec[s.name], s)
OwnScans(spec, ss) == ss \in Seq(Range(ss)) /\ \A s \in Range(ss) : ScanIsOwn(spec, s)
OwnReadings(spec, rs) == rs \in Seq(Range(rs)) /\ \A x \in Range(rs) : ReadingIsOwn(spec, x)
OwnInv ==
  /\ step \in ObdSteps =>
       /\ ScanIsOwn(car.spec, scan)
       /\ Unread(car.spec[scan.name], scan, step, todo, DebtsOf(due, scan.name), slow)
  /\ step = "discover" => due = {}
  /\ Waiting(left, due)
  /\ step \in QueueSteps => ReadingIsOwn(car.spec, reading)
  /\ OwnScans(car.spec, scans) /\ OnceScans(car.spec, scans, slow) /\ OwnReadings(car.spec, readings)

-----------------------------------------------------------------------------
(* The shape of a scan. *)

\* The assumptions on a car, and on a profile, where they are needed.
LEMMA CarIs ==
  ASSUME car \in Cars
  PROVE  /\ Failures[car] \in Nat
         /\ car.obd \in Seq(DOMAIN car.spec) /\ \A i, j \in DOMAIN car.obd : car.obd[i] = car.obd[j] => i = j
         /\ car.others \subseteq DOMAIN car.spec /\ IsFiniteSet(car.others)
         /\ \A name \in DOMAIN car.spec : IsModule(car.spec[name])
BY SurveyAssumption

LEMMA GroupIs ==
  ASSUME NEW p \in Profiles, NEW g \in Range(p.modules)
  PROVE  /\ g.kind = "profile" /\ g.session \in {1, 3} /\ g.reads \in Seq(Range(g.reads))
         /\ \A i \in DOMAIN g.reads :
              /\ g.reads[i] \in Range(g.reads) /\ g.reads[i].did \in 0 .. WordMax
              /\ g.reads[i].length \in Nat \ {0}
         /\ DOMAIN g.reads # {} /\ DOMAIN g.reads \subseteq Nat
<1>1. IsProfile(p) BY SurveyAssumption
<1>2. /\ g.kind = "profile" /\ g.session \in {1, 3} /\ g.reads # << >> /\ g.reads \in Seq(Range(g.reads))
      /\ \A read \in Range(g.reads) : read.did \in 0 .. WordMax /\ read.length \in Nat \ {0}
  BY <1>1 DEF IsProfile
<1>3. \A i \in DOMAIN g.reads : g.reads[i] \in Range(g.reads) BY DEF Range
<1>4. DOMAIN g.reads = 1 .. Len(g.reads) /\ Len(g.reads) \in Nat /\ Len(g.reads) # 0 BY <1>2
<1> QED BY <1>2, <1>3, <1>4

LEMMA ProfileStepIs ==
  ASSUME Place, step \in ProfileSteps
  PROVE  \E p \in Profiles : Head(queue) \in Range(p.modules)
<1>1. queue # << >> /\ IsQueue(queue) /\ Head(queue).kind = "profile" BY DEF Place, QueueSteps
<1>2. Head(queue) \in Range(queue)
  <2>1. queue \in Seq(Range(queue)) BY <1>1 DEF IsQueue
  <2> QED BY <1>1, <2>1
<1>3. Planned(Head(queue)) BY <1>1, <1>2 DEF IsQueue
<1> QED BY <1>1, <1>3 DEF Planned

LEMMA SessionIs ==
  ASSUME Place, step \in QueueSteps
  PROVE  Head(queue).session \in {1, 3}
<1>1. queue # << >> /\ IsQueue(queue) BY DEF Place
<1>2. Head(queue) \in Range(queue)
  <2>1. queue \in Seq(Range(queue)) BY <1>1 DEF IsQueue
  <2> QED BY <1>1, <2>1
<1>3. Planned(Head(queue)) BY <1>1, <1>2 DEF IsQueue
<1> QED BY <1>3, GroupIs DEF Planned

\* The least of what is still to ask for.
LEMMA NextIs ==
  ASSUME Place
  PROVE  /\ step \in {"pids", "frames"} => Min(todo) \in todo /\ Min(todo) \in KnownPids
         /\ step = "tests" => Min(todo) \in todo /\ Min(todo) \in Byte /\ Min(todo) % 32 # 0
         /\ step \in {"info", "items"} => Min(todo) \in todo /\ Min(todo) \in DOMAIN ItemWidth
         /\ step = "reads" => Min(todo) \in todo /\ Min(todo) \in DOMAIN Head(queue).reads
         /\ step = "identify" => Min(todo) \in todo /\ Min(todo) \in DOMAIN StandardDids
<1>1. Fits(step, todo, queue) BY DEF Place
<1>2. KnownPids \subseteq Nat BY DEF KnownPids, Width, Trims, Words
<1>3. Byte \subseteq Nat BY DEF Byte
<1>4. DOMAIN ItemWidth \subseteq Nat BY DEF ItemWidth
<1>5. DOMAIN StandardDids \subseteq Nat BY DEF StandardDids, VinDid
<1>6. step = "reads" => DOMAIN Head(queue).reads \subseteq Nat
  BY ProfileStepIs, GroupIs DEF ProfileSteps
<1>7. \A D \in SUBSET Nat : D # {} => Min(D) \in D BY MinFacts
<1> DEFINE ids == todo
<1>8. CASE step \in {"pids", "frames"} BY <1>1, <1>2, <1>7, <1>8 DEF Fits
<1>9. CASE step = "tests" BY <1>1, <1>3, <1>7, <1>9 DEF Fits
<1>10. CASE step \in {"info", "items"} BY <1>1, <1>4, <1>7, <1>10 DEF Fits
<1>11. CASE step = "reads" BY <1>1, <1>6, <1>7, <1>11 DEF Fits
<1>12. CASE step = "identify" BY <1>1, <1>5, <1>7, <1>12 DEF Fits
<1> QED BY <1>8, <1>9, <1>10, <1>11, <1>12

LEMMA CurrentIs ==
  ASSUME Place, Asking
  PROVE  Current \in Requests
<1>1. WordMax = 65535 BY DEF WordMax
<1>2. \A svc \in Services, id \in 0 .. WordMax : Request(svc, id) \in Requests BY DEF Request, Requests
<1>3. \A i \in Nat : i <= 61840 => i \in 0 .. WordMax
  <2>1. WordMax \in Nat /\ 61840 <= WordMax BY <1>1
  <2>2. \A m \in Nat : 61840 <= m => \A i \in Nat : i <= 61840 => i \in 0 .. m OBVIOUS
  <2> QED BY <2>1, <2>2
<1>4. base \in 0 .. WordMax
  <2>1. PICK i \in 0 .. 7 : base = 32 * i BY DEF Place
  <2>2. base \in Nat /\ base <= 61840 BY <2>1, SMT
  <2> QED BY <1>3, <2>2
<1>5. KnownPids \subseteq 0 .. WordMax BY <1>1 DEF KnownPids, Width, Trims, Words
<1>6. Byte \subseteq 0 .. WordMax /\ DOMAIN ItemWidth \subseteq 0 .. WordMax
      /\ DOMAIN StandardDids \subseteq 0 .. WordMax /\ VinDid \in 0 .. WordMax
  <2>1. \A i \in Byte : i \in Nat /\ i <= 61840 BY DEF Byte
  <2>2. \A i \in DOMAIN ItemWidth : i \in Nat /\ i <= 61840 BY DEF ItemWidth
  <2>3. \A i \in DOMAIN StandardDids : i \in Nat /\ i <= 61840 BY DEF StandardDids, VinDid
  <2>4. VinDid \in Nat /\ VinDid <= 61840 BY DEF VinDid
  <2> QED BY <1>3, <2>1, <2>2, <2>3, <2>4
<1>7. 0 \in 0 .. WordMax /\ 1 \in 0 .. WordMax /\ 3 \in 0 .. WordMax BY <1>1
<1>8. CASE step \in ObdSteps \ {"moduleVin"}
  <2>1. Current = ObdRequest BY <1>8 DEF Current, Uds, ObdSteps
  <2>2. CASE step \in {"supported", "walk", "walk6", "walk2"}
    BY <2>1, <2>2, <1>2, <1>4 DEF ObdRequest, Services
  <2>3. CASE step \in {"stored", "pending", "permanent", "info"}
    BY <2>1, <2>3, <1>2, <1>7 DEF ObdRequest, Services
  <2>4. CASE step \in {"pids", "frames", "tests", "items"}
    <3>1. Min(todo) \in 0 .. WordMax BY <2>4, <1>5, <1>6, NextIs
    <3> QED BY <2>1, <2>4, <3>1, <1>2 DEF ObdRequest, Services
  <2> QED BY <1>8, <2>2, <2>3, <2>4 DEF ObdSteps
<1>9. CASE step \in QueueSteps \cup {"moduleVin"}
  <2>1. Current = UdsRequest BY <1>9 DEF Current, Uds, QueueSteps, ProfileSteps
  <2>2. CASE step \in {"moduleVin", "present"} BY <2>1, <2>2, <1>2, <1>6, <1>7 DEF UdsRequest, Services
  <2>3. CASE step \in {"session", "open"}
    <3>1. Head(queue).session \in {1, 3} BY <2>3, SessionIs DEF QueueSteps, ProfileSteps
    <3>2. Head(queue).session \in 0 .. WordMax BY <3>1, <1>7
    <3> QED BY <2>1, <2>3, <3>2, <1>2 DEF UdsRequest, Services
  <2>4. CASE step = "reads"
    <3>1. Head(queue).reads[Min(todo)].did \in 0 .. WordMax
      BY <2>4, NextIs, ProfileStepIs, GroupIs DEF ProfileSteps
    <3> QED BY <2>1, <2>4, <3>1, <1>2 DEF UdsRequest, Services
  <2>5. CASE step = "identify"
    <3>1. Min(todo) \in 0 .. WordMax BY <2>5, <1>6, NextIs
    <3> QED BY <2>1, <2>5, <3>1, <1>2 DEF UdsRequest, Services
  <2> QED BY <1>9, <2>2, <2>3, <2>4, <2>5 DEF QueueSteps, ProfileSteps
<1> QED BY <1>8, <1>9 DEF Place, Asking, ObdSteps

LEMMA CurrentOn ==
  /\ step \in {"supported", "walk"} => Current = Request(1, base)
  /\ step = "pids" => Current = Request(1, Min(todo))
  /\ step = "stored" => Current = Request(3, 0)
  /\ step = "pending" => Current = Request(7, 0)
  /\ step = "permanent" => Current = Request(10, 0)
  /\ step = "walk6" => Current = Request(6, base)
  /\ step = "tests" => Current = Request(6, Min(todo))
  /\ step = "info" => Current = Request(9, 0)
  /\ step = "items" => Current = Request(9, Min(todo))
  /\ step = "walk2" => Current = Request(2, base)
  /\ step = "frames" => Current = Request(2, Min(todo))
  /\ step = "moduleVin" => Current = Request(34, VinDid)
  /\ step = "present" => Current = Request(62, 0)
  /\ step \in {"session", "open"} => Current = Request(16, Head(queue).session)
  /\ step = "reads" => Current = Request(34, Head(queue).reads[Min(todo)].did)
  /\ step = "identify" => Current = Request(34, Min(todo))
BY DEF Current, ObdRequest, UdsRequest, Uds

LEMMA RequestIs ==
  \A svc, id : Request(svc, id).svc = svc /\ Request(svc, id).id = id
BY DEF Request

LEMMA CurrentUnspecific ==
  ASSUME Place, Asking
  PROVE  Unspecific(Current)
<1>1. CASE step \in {"stored", "pending", "permanent"} BY <1>1, CurrentOn, RequestIs DEF Unspecific
<1>2. CASE step \notin {"stored", "pending", "permanent"}
  <2>1. \E svc \in {1, 6, 9, 2, 34, 62, 16} : \E id : Current = Request(svc, id)
    BY <1>2, CurrentOn DEF Place, Asking, ObdSteps, QueueSteps, ProfileSteps
  <2>2. Current.svc \in {1, 6, 9, 2, 34, 62, 16} BY <2>1, RequestIs
  <2> QED BY <2>2 DEF Unspecific
<1> QED BY <1>1, <1>2

\* What a module owes once a request ends, or is put off: nothing but what it owed, and this.
LEMMA OwingIs ==
  ASSUME Shape, Asking, due' \subseteq due \cup {Mine}
  PROVE  \A b \in due' : b.req \in Requests /\ b.nth \in Nat /\ Unspecific(b.req)
<1>1. Mine.req = Current /\ Mine.nth = trouble BY DEF Mine
<1>2. trouble \in Nat BY CarIs DEF Shape, Tallies
<1>3. Current \in Requests /\ Unspecific(Current) BY CurrentIs, CurrentUnspecific DEF Shape
<1> QED BY <1>1, <1>2, <1>3 DEF Shape, Tallies

LEMMA DebtIs == Debt \subseteq {Mine}
BY DEF Debt, Mine

\* What a reply that is taken changes, whatever it is.
LEMMA TakenIs ==
  ASSUME Shape, Asking, NEW r, Taken(r)
  PROVE  /\ car' = car /\ slow' = slow /\ attempt' \in 0 .. 2 /\ trouble' \in 0 .. Failures[car]
         /\ due' \subseteq due \cup {Mine} /\ lost \subseteq lost'
         /\ \A b \in due' : b.req \in Requests /\ b.nth \in Nat /\ Unspecific(b.req)
<1>1. car \in Cars /\ trouble \in 0 .. Failures[car] /\ Failures[car] \in Nat BY CarIs DEF Shape, Tallies
<1>2. car' = car /\ slow' = slow /\ attempt' = 0 BY DEF Taken
<1>3. due' \subseteq due \cup {Mine} /\ trouble' \in 0 .. Failures[car] /\ lost \subseteq lost'
  <2>1. CASE InTurn(r) BY <2>1, <1>1 DEF InTurn
  <2>2. CASE Instead(r)
    <3>1. due' \subseteq due \cup {Mine} BY <2>2, DebtIs DEF Instead
    <3>2. trouble' = trouble + 1 /\ trouble < Failures[car] BY <2>2 DEF Instead
    <3>3. lost \subseteq lost' BY <2>2 DEF Instead
    <3> QED BY <3>1, <3>2, <3>3, <1>1
  <2> QED BY <2>1, <2>2 DEF Taken
<1>4. \A b \in due' : b.req \in Requests /\ b.nth \in Nat /\ Unspecific(b.req) BY <1>3, OwingIs
<1> QED BY <1>2, <1>3, <1>4

\* On OBD-II the module in hand stays while its scan grows.
LEMMA StaysOnObd ==
  ASSUME Place, step \in ObdSteps, car' = car, UNCHANGED <<left, queue>>, step' \in ObdSteps,
         IsScan(scan', Head(left)), Fits(step', todo', queue),
         base' \in {32 * i : i \in 0 .. 7} /\ walked' \subseteq 1 .. base',
         step' \notin Walks => base' = 0 /\ walked' = {}
  PROVE  Place'
<1>1. step' \notin QueueSteps BY DEF ObdSteps, QueueSteps, ProfileSteps
<1>2. left' \in Seq(DOMAIN car'.spec) /\ left' # << >> /\ IsQueue(queue') BY DEF Place
<1>3. IsScan(scan', Head(left')) /\ Fits(step', todo', queue') OBVIOUS
<1> QED BY <1>1, <1>2, <1>3 DEF Place

LEMMA GoesOnObd ==
  ASSUME Place, step \in ObdSteps, car' = car, UNCHANGED <<left, queue>>, NEW s \in ObdSteps, NEW ids,
         Go(s, ids), Fits(s, ids, queue), IsScan(scan', Head(left))
  PROVE  Place'
<1>1. step' = s /\ todo' = ids /\ base' = 0 /\ walked' = {} BY DEF Go
<1>2. base' \in {32 * i : i \in 0 .. 7} BY <1>1
<1> QED BY <1>1, <1>2, StaysOnObd

LEMMA NothingToFit ==
  ASSUME NEW s, s \notin {"pids", "frames", "tests", "info", "items", "reads", "identify"}, NEW ids, NEW q
  PROVE  Fits(s, ids, q)
BY DEF Fits

LEMMA AfterIs ==
  /\ After("pids") = "stored" /\ After("tests") = "info" /\ After("frames") = "moduleVin"
  /\ After("items") \in {"walk2", "moduleVin"}
BY DEF After

\* A loop is entered with something to ask for, or passed by.
LEMMA LoopIs ==
  ASSUME NEW s \in {"pids", "tests", "items", "frames"}, NEW ids, Loop(s, ids)
  PROVE  /\ base' = 0 /\ walked' = {}
         /\ \/ ids # {} /\ step' = s /\ todo' = ids
            \/ ids = {} /\ step' = After(s) /\ todo' = IF s = "tests" THEN DOMAIN ItemWidth ELSE {}
<1>1. CASE ids # {} BY <1>1 DEF Loop, Go
<1>2. CASE ids = {}
  <2>1. Wanted(After(s)) = IF s = "tests" THEN DOMAIN ItemWidth ELSE {}
    BY AfterIs DEF Wanted
  <2> QED BY <1>2, <2>1 DEF Loop, Go
<1> QED BY <1>1, <1>2

LEMMA LoopsOnObd ==
  ASSUME Place, step \in ObdSteps, car' = car, UNCHANGED <<left, queue>>,
         NEW s \in {"pids", "tests", "items", "frames"}, NEW ids,
         Loop(s, ids), ids = {} \/ Fits(s, ids, queue), IsScan(scan', Head(left))
  PROVE  Place'
<1>1. /\ base' = 0 /\ walked' = {}
      /\ \/ ids # {} /\ step' = s /\ todo' = ids
         \/ ids = {} /\ step' = After(s) /\ todo' = IF s = "tests" THEN DOMAIN ItemWidth ELSE {}
  BY LoopIs
<1>2. base' \in {32 * i : i \in 0 .. 7} BY <1>1
<1>3. step' \in ObdSteps /\ Fits(step', todo', queue)
  <2>1. CASE ids # {} BY <2>1, <1>1 DEF ObdSteps
  <2>2. CASE ids = {} /\ s = "tests" BY <2>2, <1>1, AfterIs DEF ObdSteps, Fits, ItemWidth
  <2>3. CASE ids = {} /\ s # "tests" BY <2>3, <1>1, AfterIs, NothingToFit DEF ObdSteps
  <2> QED BY <2>1, <2>2, <2>3
<1> QED BY <1>1, <1>2, <1>3, StaysOnObd

\* A note in the scan changes nothing else of it.
LEMMA NotedIs ==
  ASSUME Place, step \in ObdSteps, NEW r
  PROVE  /\ IsScan(Noted(r), Head(left))
         /\ \A field \in DOMAIN scan \ {"unsupported", "errors"} : Noted(r)[field] = scan[field]
<1>1. IsScan(scan, Head(left)) BY DEF Place
<1>2. \/ \E x : Noted(r) = [scan EXCEPT !.unsupported = x]
      \/ \E x : Noted(r) = [scan EXCEPT !.errors = x]
  BY DEF Noted
<1> QED BY <1>1, <1>2 DEF IsScan

LEMMA FieldIs ==
  ASSUME NEW s, NEW name, IsScan(s, name), NEW field \in DOMAIN s \ {"name", "moduleVin"}, NEW x
  PROVE  IsScan([s EXCEPT ![field] = x], name)
BY DEF IsScan

\* The next bitmap lists more, all of it before its own base.
LEMMA BitmapsOnObd ==
  ASSUME Place, step \in Walks, car' = car, UNCHANGED <<left, queue>>, NEW d,
         NextBitmap(walked \cup {base + n : n \in Offsets(d)}), base + 32 <= 224
  PROVE  Place'
<1>1. /\ base' = base + 32 /\ walked' = walked \cup {base + n : n \in Offsets(d)}
      /\ step' = step /\ todo' = todo /\ scan' = scan
  BY DEF NextBitmap
<1>2. PICK i \in 0 .. 7 : base = 32 * i BY DEF Place
<1>3. base' \in {32 * j : j \in 0 .. 7} BY <1>1, <1>2
<1>4. walked' \subseteq 1 .. base'
  <2>1. Offsets(d) \subseteq 1 .. 32 BY DEF Offsets
  <2>2. walked \subseteq 1 .. base BY DEF Place
  <2>3. walked \subseteq 1 .. (base + 32) BY <1>2, <2>2
  <2>4. \A n \in 1 .. 32 : base + n \in 1 .. (base + 32) BY <1>2
  <2> QED BY <1>1, <2>1, <2>3, <2>4
<1>5. step \in ObdSteps BY DEF Walks, ObdSteps
<1>6. IsScan(scan', Head(left)) /\ Fits(step', todo', queue) BY <1>1, <1>5 DEF Place
<1> QED BY <1>1, <1>3, <1>4, <1>5, <1>6, StaysOnObd

-----------------------------------------------------------------------------
(* One step on OBD-II after the other. *)

LEMMA SupportedPlace ==
  ASSUME Place, NEW r, Supported(r)
  PROVE  Place'
<1>1. step = "supported" /\ step \in ObdSteps /\ step \in Walks /\ car' = car /\ UNCHANGED <<left, queue>>
  BY DEF Supported, Taken, surveyRest, ObdSteps, Walks
<1>2. CASE Further(r)
  <2>1. NextBitmap(walked \cup {base + n : n \in Offsets(Data(r))}) /\ base + 32 <= 192
    BY <1>2 DEF Supported, Further, Listed
  <2>2. base + 32 <= 224 BY <2>1 DEF Place
  <2> QED BY <1>1, <2>1, <2>2, BitmapsOnObd
<1>3. CASE ~Further(r)
  <2>1. Go("walk", {}) /\ scan' = IF r.how = "fault" THEN Noted(r) ELSE [scan EXCEPT !.supported = Ended(r)]
    BY <1>3 DEF Supported
  <2>2. IsScan(scan, Head(left)) BY <1>1 DEF Place
  <2>3. IsScan([scan EXCEPT !.supported = Ended(r)], Head(left)) BY <2>2 DEF IsScan
  <2>4. IsScan(scan', Head(left)) BY <2>1, <2>3, <1>1, NotedIs
  <2>5. "walk" \in ObdSteps /\ Fits("walk", {}, queue) BY NothingToFit DEF ObdSteps
  <2> QED BY <1>1, <2>1, <2>4, <2>5, GoesOnObd
<1> QED BY <1>2, <1>3

LEMMA WalkForPlace ==
  ASSUME Place, NEW r, NEW loop \in {"pids", "frames"}, step \in Walks, car' = car, UNCHANGED <<left, queue>>,
         WalkFor(r, loop)
  PROVE  Place'
<1>1. step \in ObdSteps BY DEF ObdSteps, Walks
<1>2. CASE r.how = "fault"
  <2>1. Go(After(loop), {}) /\ scan' = Noted(r) BY <1>2 DEF WalkFor
  <2>2. After(loop) \in ObdSteps /\ Fits(After(loop), {}, queue) BY AfterIs, NothingToFit DEF ObdSteps
  <2>3. IsScan(scan', Head(left)) BY <1>1, <2>1, NotedIs
  <2> QED BY <1>1, <2>1, <2>2, <2>3, GoesOnObd
<1>3. CASE r.how # "fault" /\ Further(r)
  <2>1. NextBitmap(walked \cup {base + n : n \in Offsets(Data(r))}) /\ base + 32 <= 192
    BY <1>3 DEF WalkFor, Further, Listed
  <2>2. base + 32 <= 224 BY <2>1 DEF Place
  <2> QED BY <1>1, <2>1, <2>2, BitmapsOnObd
<1>4. CASE r.how # "fault" /\ ~Further(r)
  <2>1. Loop(loop, Ended(r) \cap KnownPids) /\ scan' = scan BY <1>4 DEF WalkFor
  <2>2. IsScan(scan', Head(left)) BY <1>1, <2>1 DEF Place
  <2>3. Ended(r) \cap KnownPids # {} => Fits(loop, Ended(r) \cap KnownPids, queue) BY DEF Fits
  <2> QED BY <1>1, <2>1, <2>2, <2>3, LoopsOnObd
<1> QED BY <1>2, <1>3, <1>4

LEMMA WalkPlace ==
  ASSUME Place, NEW r, Walk(r) \/ WalkFrame(r)
  PROVE  Place'
<1>1. step \in Walks /\ car' = car /\ UNCHANGED <<left, queue>>
  BY DEF Walk, WalkFrame, Taken, surveyRest, Walks
<1>2. WalkFor(r, "pids") \/ WalkFor(r, "frames") BY DEF Walk, WalkFrame
<1> QED BY <1>1, <1>2, WalkForPlace

LEMMA PidPlace ==
  ASSUME Place, NEW r, ReadLive(r) \/ ReadFrame(r)
  PROVE  Place'
<1> SUFFICES ASSUME NEW s \in {"pids", "frames"}, NEW field \in {"readings", "frame"}, ReadPid(r, s, field)
             PROVE  Place'
  BY DEF ReadLive, ReadFrame
<1>1. step = s /\ step \in ObdSteps /\ car' = car /\ UNCHANGED <<left, queue>> /\ s \notin Walks
  BY DEF ReadPid, Taken, surveyRest, ObdSteps, Walks
<1> DEFINE pid == Min(todo)
           value == DecodePid(pid, Data(r))
<1>2. IsScan(scan, Head(left)) BY <1>1 DEF Place
<1>3. "readings" \in DOMAIN scan /\ "frame" \in DOMAIN scan BY <1>2 DEF IsScan
<1>4. After(s) \in ObdSteps /\ Fits(After(s), {}, queue) BY AfterIs, NothingToFit DEF ObdSteps
<1>5. CASE r.how = "fault"
  <2>1. Go(After(s), {}) /\ scan' = [Noted(r) EXCEPT ![field] = << >>] BY <1>5 DEF ReadPid
  <2>2. IsScan(Noted(r), Head(left)) BY <1>1, NotedIs
  <2>3. IsScan(scan', Head(left)) BY <2>1, <2>2 DEF IsScan
  <2> QED BY <1>1, <1>4, <2>1, <2>3, GoesOnObd
<1>6. CASE r.how # "fault"
  <2>1. /\ IF todo = {pid} THEN Go(After(s), {}) ELSE todo' = todo \ {pid} /\ UNCHANGED <<step, base, walked>>
        /\ scan' = IF Echoed(r, Width[pid]) THEN [scan EXCEPT ![field] = With(@, pid, value)] ELSE scan
    BY <1>6 DEF ReadPid
  <2> HIDE DEF pid, value
  <2>2. IsScan(scan', Head(left)) BY <1>2, <2>1 DEF IsScan
  <2>3. CASE todo = {pid} BY <2>1, <2>2, <2>3, <1>1, <1>4, GoesOnObd
  <2>4. CASE todo # {pid}
    <3>1. step' = s /\ todo' = todo \ {pid} /\ base' = base /\ walked' = walked BY <2>1, <2>4, <1>1
    <3>2. pid \in todo /\ todo \subseteq KnownPids BY <1>1, NextIs DEF pid, Place, Fits
    <3>3. todo' # {} /\ todo' \subseteq KnownPids BY <2>4, <3>1, <3>2
    <3>4. Fits(s, todo', queue) BY <3>3 DEF Fits
    <3>5. base' = 0 /\ walked' = {} /\ base' \in {32 * i : i \in 0 .. 7} BY <1>1, <3>1 DEF Place
    <3> QED BY <1>1, <2>2, <3>1, <3>4, <3>5, StaysOnObd
  <2> QED BY <2>3, <2>4
<1> QED BY <1>5, <1>6

LEMMA CodesPlace ==
  ASSUME Place, NEW r, ReadCodes(r)
  PROVE  Place'
<1>1. step \in {"stored", "pending", "permanent"} /\ step \in ObdSteps /\ car' = car /\ UNCHANGED <<left, queue>>
  BY DEF ReadCodes, Taken, surveyRest, ObdSteps
<1>2. PICK s \in {"pending", "permanent", "walk6"} : Go(s, {}) BY DEF ReadCodes
<1>3. s \in ObdSteps /\ Fits(s, {}, queue) BY NothingToFit DEF ObdSteps
<1>4. IsScan(scan, Head(left)) BY <1>1 DEF Place
<1>5. \/ \E x : scan' = [scan EXCEPT ![step] = x]
      \/ scan' = scan
      \/ scan' = Noted(r)
  BY DEF ReadCodes
<1>6. step \in DOMAIN scan \ {"name", "moduleVin"} BY <1>1, <1>4 DEF IsScan
<1>7. IsScan(scan', Head(left)) BY <1>1, <1>4, <1>5, <1>6, NotedIs, FieldIs
<1> QED BY <1>1, <1>2, <1>3, <1>7, GoesOnObd

LEMMA ItemsFit ==
  "info" \in ObdSteps /\ Fits("info", DOMAIN ItemWidth, queue)
<1>1. DOMAIN ItemWidth # {} BY DEF ItemWidth
<1> QED BY <1>1 DEF ObdSteps, Fits

LEMMA WalkTestsPlace ==
  ASSUME Place, NEW r, WalkTests(r)
  PROVE  Place'
<1> DEFINE d == SubSeq(r.data, 3, Len(r.data))
           found == walked \cup {base + n : n \in Offsets(d)}
           Numbers(ids) == {id \in ids : id % 32 # 0}
<1>1. step = "walk6" /\ step \in ObdSteps /\ step \in Walks /\ car' = car /\ UNCHANGED <<left, queue>>
  BY DEF WalkTests, Taken, surveyRest, ObdSteps, Walks
<1>2. IsScan(scan, Head(left)) BY <1>1 DEF Place
<1>3. \/ Go("info", DOMAIN ItemWidth) /\ (scan' = Noted(r) \/ scan' = scan)
      \/ Loop("tests", Numbers(walked)) /\ scan' = scan
      \/ base + 32 <= 224 /\ NextBitmap(found)
      \/ ~(base + 32 \in found /\ base + 32 <= 224) /\ Loop("tests", Numbers(found)) /\ scan' = scan
  BY DEF WalkTests
<1>4. CASE Go("info", DOMAIN ItemWidth) /\ (scan' = Noted(r) \/ scan' = scan)
  <2>1. IsScan(scan', Head(left)) BY <1>1, <1>2, <1>4, NotedIs
  <2> QED BY <1>1, <1>4, <2>1, ItemsFit, GoesOnObd
<1>5. CASE base + 32 <= 224 /\ NextBitmap(found) BY <1>1, <1>5, BitmapsOnObd
<1>6. ASSUME NEW ids \in SUBSET (1 .. 256), Loop("tests", Numbers(ids)), scan' = scan
      PROVE  Place'
  <2>1. Numbers(ids) # {} => Fits("tests", Numbers(ids), queue)
    <3>1. \A id \in 1 .. 256 : id % 32 # 0 => id \in Byte BY DEF Byte
    <3> QED BY <3>1 DEF Fits
  <2>2. IsScan(scan', Head(left)) BY <1>2, <1>6
  <2> HIDE DEF Numbers
  <2> QED BY <1>1, <1>6, <2>1, <2>2, LoopsOnObd
<1>7. walked \subseteq 1 .. 256 /\ found \subseteq 1 .. 256
  <2>1. PICK i \in 0 .. 7 : base = 32 * i BY DEF Place
  <2>2. walked \subseteq 1 .. base BY DEF Place
  <2>3. Offsets(d) \subseteq 1 .. 32 BY DEF Offsets
  <2>4. \A n \in 1 .. 32 : base + n \in 1 .. 256 BY <2>1
  <2>5. walked \subseteq 1 .. 256 BY <2>1, <2>2
  <2>6. \A n \in Offsets(d) : base + n \in 1 .. 256 BY <2>3, <2>4, ZenonT(40)
  <2> HIDE DEF d
  <2> QED BY <2>5, <2>6, ZenonT(40)
<1> HIDE DEF found, Numbers
<1> QED BY <1>3, <1>4, <1>5, <1>6, <1>7

LEMMA TestPlace ==
  ASSUME Place, NEW r, ReadTest(r)
  PROVE  Place'
<1>1. step = "tests" /\ step \in ObdSteps /\ step \notin Walks /\ car' = car /\ UNCHANGED <<left, queue>>
  BY DEF ReadTest, Taken, surveyRest, ObdSteps, Walks
<1>2. IsScan(scan, Head(left)) BY <1>1 DEF Place
<1>3. CASE r.how = "fault"
  <2>1. Go("info", DOMAIN ItemWidth) /\ scan' = [Noted(r) EXCEPT !.tests = << >>] BY <1>3 DEF ReadTest
  <2>2. IsScan(Noted(r), Head(left)) BY <1>1, NotedIs
  <2>3. IsScan(scan', Head(left)) BY <2>1, <2>2 DEF IsScan
  <2> QED BY <1>1, <2>1, <2>3, ItemsFit, GoesOnObd
<1>4. CASE r.how # "fault"
  <2> DEFINE rest == todo \ {Min(todo)}
  <2>1. /\ IF rest = {} THEN Go("info", DOMAIN ItemWidth) ELSE todo' = rest /\ UNCHANGED <<step, base, walked>>
        /\ scan' = [scan EXCEPT !.tests = @ \o TestGroups(r.data)] \/ scan' = scan
    BY <1>4 DEF ReadTest
  <2>2. IsScan(scan', Head(left)) BY <1>2, <2>1 DEF IsScan
  <2>3. Fits("tests", todo, queue) BY <1>1 DEF Place
  <2>4. rest # {} => Fits("tests", rest, queue) BY <2>3 DEF Fits
  <2> HIDE DEF rest
  <2>5. CASE rest = {} BY <1>1, <2>1, <2>2, <2>5, ItemsFit, GoesOnObd
  <2>6. CASE rest # {}
    <3>1. step' = "tests" /\ todo' = rest /\ base' = base /\ walked' = walked BY <1>1, <2>1, <2>6
    <3>2. base' = 0 /\ walked' = {} /\ base' \in {32 * i : i \in 0 .. 7} BY <1>1, <3>1 DEF Place
    <3> QED BY <1>1, <2>2, <2>4, <2>6, <3>1, <3>2, StaysOnObd
  <2> QED BY <2>5, <2>6
<1> QED BY <1>3, <1>4

LEMMA ItemSupportPlace ==
  ASSUME Place, NEW r, ReadItemSupport(r)
  PROVE  Place'
<1> DEFINE rest == todo \ {Min(todo)}
           items == IF Echoed(r, 4) THEN todo \cap Offsets(Data(r)) ELSE todo
<1>1. step = "info" /\ step \in ObdSteps /\ car' = car /\ UNCHANGED <<left, queue>>
  BY DEF ReadItemSupport, Taken, surveyRest, ObdSteps
<1>2. IsScan(scan, Head(left)) /\ todo \subseteq DOMAIN ItemWidth BY <1>1 DEF Place, Fits
<1>3. IF r.how # "fault" THEN Loop("items", items) /\ scan' = scan
      ELSE (IF rest = {} THEN Go(After("items"), {}) ELSE Go("info", rest)) /\ scan' = Noted(r)
  BY DEF ReadItemSupport
<1>4. items # {} => Fits("items", items, queue) BY <1>2 DEF Fits
<1>5. rest # {} => Fits("info", rest, queue) BY <1>2 DEF Fits
<1>6. After("items") \in ObdSteps /\ Fits(After("items"), {}, queue) /\ "info" \in ObdSteps
  BY AfterIs, NothingToFit DEF ObdSteps
<1> HIDE DEF rest, items
<1>7. IsScan(scan', Head(left)) BY <1>1, <1>2, <1>3, NotedIs
<1>8. CASE r.how # "fault" BY <1>1, <1>3, <1>4, <1>7, <1>8, LoopsOnObd
<1>9. CASE r.how = "fault" BY <1>1, <1>3, <1>5, <1>6, <1>7, <1>9, GoesOnObd
<1> QED BY <1>8, <1>9

LEMMA ItemPlace ==
  ASSUME Place, NEW r, ReadItem(r)
  PROVE  Place'
<1> DEFINE rest == todo \ {Min(todo)}
<1>1. step = "items" /\ step \in ObdSteps /\ car' = car /\ UNCHANGED <<left, queue>>
  BY DEF ReadItem, Taken, surveyRest, ObdSteps
<1>2. IsScan(scan, Head(left)) /\ todo \subseteq DOMAIN ItemWidth BY <1>1 DEF Place, Fits
<1>3. Loop("items", rest) /\ ((\E x : scan' = [scan EXCEPT !.info = x]) \/ scan' = scan \/ scan' = Noted(r))
  BY DEF ReadItem
<1>4. rest # {} => Fits("items", rest, queue) BY <1>2 DEF Fits
<1> HIDE DEF rest
<1>5. IsScan(scan', Head(left))
  <2>1. \A x : IsScan([scan EXCEPT !.info = x], Head(left)) BY <1>2 DEF IsScan
  <2> QED BY <1>1, <1>2, <1>3, <2>1, NotedIs
<1> QED BY <1>1, <1>3, <1>4, <1>5, LoopsOnObd

-----------------------------------------------------------------------------
(* Outside OBD-II. *)

\* The longest of prefixes of which none has more than 17 letters.
LEMMA LongestIs ==
  ASSUME NEW p \in Profiles, p.prefixes # {}
  PROVE  Max({Len(prefix) : prefix \in p.prefixes}) \in 1 .. 17
<1> DEFINE lens == {Len(prefix) : prefix \in p.prefixes}
<1>1. IsProfile(p) BY SurveyAssumption
<1>2. \A prefix \in p.prefixes : Len(prefix) \in 1 .. 17 BY <1>1 DEF IsProfile
<1>3. lens # {} /\ lens \subseteq 1 .. 17 BY <1>2
<1> HIDE DEF lens
<1> DEFINE gaps == {17 - n : n \in lens}
<1>4. gaps # {} /\ gaps \in SUBSET Nat
  <2>1. \A n \in lens : n \in Int /\ 17 - n \in Nat BY <1>3
  <2>2. \E n \in lens : 17 - n \in gaps BY <1>3
  <2> QED BY <2>1, <2>2
<1> HIDE DEF gaps
<1>5. PICK least \in gaps : \A y \in gaps : least <= y BY <1>4, LeastExists
<1>6. PICK n \in lens : least = 17 - n BY <1>5 DEF gaps
<1>7. \A k \in lens : k <= n
  <2> TAKE k \in lens
  <2>1. 17 - k \in gaps BY DEF gaps
  <2>2. 17 - n <= 17 - k BY <2>1, <1>5, <1>6
  <2> QED BY <2>2, <1>3
<1>8. lens \in SUBSET Int BY <1>3
<1>9. Max(lens) = n BY <1>7, <1>8, MaxIs
<1> QED BY <1>3, <1>9 DEF lens

\* The profile that is chosen is one of those that match.
LEMMA PlanIs ==
  ASSUME NEW vin
  PROVE  IsQueue(ProfileFor(vin))
<1> DEFINE candidates == {p \in Profiles : vin # << >> /\ Matching(p, vin) # {}}
           Longest(p) == Max({Len(prefix) : prefix \in p.prefixes})
           best == CHOOSE p \in candidates : \A q \in candidates : Longest(q) <= Longest(p)
<1>1. ProfileFor(vin) = IF candidates = {} THEN << >> ELSE best.modules BY DEF ProfileFor
<1>2. IsQueue(<< >>)
  <2>1. Range(<< >>) = {} BY DEF Range
  <2> QED BY <2>1 DEF IsQueue
<1>3. CASE candidates # {}
  <2>1. \A p \in candidates : p \in Profiles /\ Longest(p) \in 1 .. 17
    <3>1. \A p \in candidates : p.prefixes # {} BY DEF Matching
    <3> QED BY <3>1, LongestIs
  <2> HIDE DEF Longest, candidates
  <2> DEFINE gaps == {17 - Longest(p) : p \in candidates}
  <2>2. gaps # {} /\ gaps \in SUBSET Nat BY <2>1, <1>3
  <2> HIDE DEF gaps
  <2>3. PICK least \in gaps : \A y \in gaps : least <= y BY <2>2, LeastExists
  <2>4. PICK p \in candidates : least = 17 - Longest(p) BY <2>3 DEF gaps
  <2>5. \A q \in candidates : Longest(q) <= Longest(p)
    <3> TAKE q \in candidates
    <3>1. 17 - Longest(q) \in gaps BY DEF gaps
    <3>2. 17 - Longest(p) <= 17 - Longest(q) BY <3>1, <2>3, <2>4
    <3> QED BY <3>2, <2>1
  <2>6. best \in candidates BY <2>5
  <2> HIDE DEF best
  <2>7. best \in Profiles BY <2>1, <2>6
  <2>8. best.modules \in Seq(Range(best.modules))
    <3>1. IsProfile(best) BY <2>7, SurveyAssumption
    <3> QED BY <3>1 DEF IsProfile
  <2>9. \A x \in Range(best.modules) : Planned(x) BY <2>7 DEF Planned
  <2> QED BY <1>1, <1>3, <2>8, <2>9 DEF IsQueue
<1> QED BY <1>1, <1>2, <1>3

LEMMA FoundIs ==
  ASSUME car \in Cars, NEW described
  PROVE  IsQueue(FoundBySweep(described))
<1> DEFINE found == {name \in car.others : \A i \in DOMAIN described : described[i].name # name}
           n == Cardinality(found)
           seq == [i \in 1 .. n |-> [name |-> SetToSeq(found)[i], kind |-> "found", session |-> 3]]
<1>1. n \in Nat
  <2>1. found \subseteq car.others /\ IsFiniteSet(car.others) BY CarIs
  <2> HIDE DEF found
  <2> QED BY <2>1, FS_Subset, FS_CardinalityType
<1>2. FoundBySweep(described) = IF Discovers THEN seq ELSE << >> BY DEF FoundBySweep
<1>3. IsQueue(<< >>)
  <2>1. Range(<< >>) = {} BY DEF Range
  <2> QED BY <2>1 DEF IsQueue
<1>4. IsQueue(seq)
  <2> HIDE DEF n, found
  <2>1. DOMAIN seq = 1 .. n /\ \A i \in 1 .. n : seq[i].kind = "found" /\ seq[i].session = 3 OBVIOUS
  <2> HIDE DEF seq
  <2>2. \A i \in 1 .. n : seq[i] \in Range(seq) BY <2>1 DEF Range
  <2>3. seq \in Seq(Range(seq))
    <3>1. seq = [i \in 1 .. n |-> seq[i]] BY DEF seq
    <3>2. seq \in [1 .. n -> Range(seq)] BY <2>2, <3>1
    <3> QED BY <1>1, <3>2, SeqIs
  <2>4. \A x \in Range(seq) : Planned(x) BY <2>1 DEF Range, Planned
  <2> QED BY <2>3, <2>4 DEF IsQueue
<1> HIDE DEF seq
<1> QED BY <1>2, <1>3, <1>4

LEMMA QueuesJoin ==
  ASSUME NEW p, NEW q, IsQueue(p), IsQueue(q)
  PROVE  IsQueue(p \o q)
<1> DEFINE S == Range(p) \cup Range(q)
           j == p \o q
<1>1. p \in Seq(S) /\ q \in Seq(S)
  <2>1. p \in Seq(Range(p)) /\ q \in Seq(Range(q)) BY DEF IsQueue
  <2> QED BY <2>1
<1>2. \A x \in S : Planned(x) BY DEF IsQueue
<1> HIDE DEF S
<1>3. j \in Seq(S) BY <1>1
<1> HIDE DEF j
<1>4. Range(j) \subseteq S /\ j \in Seq(Range(j))
  <2>1. \A i \in 1 .. Len(j) : j[i] \in S BY <1>3
  <2>2. DOMAIN j = 1 .. Len(j) /\ Len(j) \in Nat BY <1>3
  <2>3. Range(j) \subseteq S BY <2>1, <2>2 DEF Range
  <2>4. \A i \in 1 .. Len(j) : j[i] \in Range(j) BY <2>2 DEF Range
  <2>5. j = [i \in 1 .. Len(j) |-> j[i]] BY <1>3
  <2>6. j \in [1 .. Len(j) -> Range(j)] BY <2>4, <2>5
  <2> QED BY <2>2, <2>3, <2>6, SeqIs
<1> QED BY <1>2, <1>4 DEF IsQueue, j

LEMMA TailIs ==
  ASSUME NEW q, IsQueue(q), q # << >>
  PROVE  IsQueue(Tail(q)) /\ Planned(Head(q))
<1> DEFINE S == Range(q)
           t == Tail(q)
<1>1. q \in Seq(S) /\ \A x \in S : Planned(x) BY DEF IsQueue
<1> HIDE DEF S
<1>2. t \in Seq(S) /\ Head(q) \in S BY <1>1
<1> HIDE DEF t
<1>3. Range(t) \subseteq S /\ t \in Seq(Range(t))
  <2>1. \A i \in 1 .. Len(t) : t[i] \in S BY <1>2
  <2>2. DOMAIN t = 1 .. Len(t) /\ Len(t) \in Nat BY <1>2
  <2>3. Range(t) \subseteq S BY <2>1, <2>2 DEF Range
  <2>4. \A i \in 1 .. Len(t) : t[i] \in Range(t) BY <2>2 DEF Range
  <2>5. t = [i \in 1 .. Len(t) |-> t[i]] BY <1>2
  <2>6. t \in [1 .. Len(t) -> Range(t)] BY <2>4, <2>5
  <2> QED BY <2>2, <2>3, <2>6, SeqIs
<1> QED BY <1>1, <1>2, <1>3 DEF IsQueue, t

\* On to the next module outside OBD-II, or to the end.
LEMMA AdvancePlace ==
  ASSUME NEW q, NEW ss, NEW rs, IsQueue(q), Advance(q, ss, rs)
  PROVE  Place'
<1>1. left' = << >> /\ queue' = q BY DEF Advance
<1>2. left' \in Seq(DOMAIN car'.spec) BY <1>1
<1>3. CASE q = << >>
  <2>1. step' = "done" /\ todo' = {} /\ base' = 0 /\ walked' = {} BY <1>3 DEF Advance, Go
  <2>2. base' \in {32 * i : i \in 0 .. 7} BY <2>1
  <2>3. Fits("done", {}, q) BY NothingToFit
  <2> QED BY <1>1, <1>2, <2>1, <2>2, <2>3 DEF Place, ObdSteps, QueueSteps, ProfileSteps
<1>4. CASE q # << >>
  <2>1. /\ step' = IF Head(q).kind = "profile" THEN "present" ELSE "open"
        /\ todo' = {} /\ base' = 0 /\ walked' = {} /\ reading' = NewReading(Head(q).name)
    BY <1>4 DEF Advance, Go
  <2>2. base' \in {32 * i : i \in 0 .. 7} BY <2>1
  <2>3. Fits(step', {}, q) BY <2>1, NothingToFit
  <2>4. IsReading(NewReading(Head(q).name), Head(q).name) BY DEF NewReading, IsReading
  <2> QED BY <1>1, <1>2, <1>4, <2>1, <2>2, <2>3, <2>4 DEF Place, ObdSteps, QueueSteps, ProfileSteps
<1> QED BY <1>3, <1>4

LEMMA OutsidePlace ==
  ASSUME car \in Cars, NEW ss, Outside(ss)
  PROVE  Place'
<1> DEFINE plan == ProfileFor(VinOf(ss))
           q == plan \o FoundBySweep(plan)
<1>1. IsQueue(q)
  <2>1. IsQueue(plan) BY PlanIs
  <2> HIDE DEF plan
  <2>2. IsQueue(FoundBySweep(plan)) BY FoundIs
  <2> QED BY <2>1, <2>2, QueuesJoin
<1>2. Advance(q, ss, << >>) BY DEF Outside
<1> HIDE DEF q
<1> QED BY <1>1, <1>2, AdvancePlace

LEMMA NewScanIs ==
  ASSUME NEW name
  PROVE  IsScan(NewScan(name), name)
BY DEF NewScan, IsScan

LEMMA TailNext ==
  ASSUME NEW S, NEW s \in Seq(S), Len(s) > 1
  PROVE  Tail(s) \in Seq(S) /\ Tail(s) # << >> /\ Head(Tail(s)) = s[2]
<1> DEFINE t == Tail(s)
<1>1. t \in Seq(S) /\ Len(t) = Len(s) - 1 /\ \A i \in 1 .. Len(t) : t[i] = s[i + 1] OBVIOUS
<1>2. Len(s) \in Nat /\ Len(t) \in Nat /\ Len(t) > 0 BY <1>1
<1> HIDE DEF t
<1>3. t # << >> /\ Head(t) = t[1] BY <1>1, <1>2
<1>4. t[1] = s[2] BY <1>1, <1>2
<1> QED BY <1>1, <1>3, <1>4 DEF t

LEMMA VinPlace ==
  ASSUME Shape, NEW r, ReadModuleVin(r)
  PROVE  Place'
<1>1. /\ step = "moduleVin" /\ step \in ObdSteps /\ car' = car /\ car \in Cars
      /\ left \in Seq(DOMAIN car.spec) /\ left # << >> /\ IsQueue(queue)
  BY DEF ReadModuleVin, Taken, ObdSteps, Shape, Tallies, Place
<1>2. CASE Len(left) > 1
  <2>1. /\ left' = Tail(left) /\ scan' = NewScan(left[2]) /\ Go("supported", {}) /\ queue' = queue
    BY <1>2 DEF ReadModuleVin
  <2>2. left' \in Seq(DOMAIN car.spec) /\ left' # << >> /\ Head(left') = left[2]
    BY <1>1, <1>2, <2>1, TailNext
  <2>3. IsScan(scan', Head(left')) BY <2>1, <2>2, NewScanIs
  <2>4. step' = "supported" /\ todo' = {} /\ base' = 0 /\ walked' = {} BY <2>1 DEF Go
  <2>5. Fits("supported", {}, queue') /\ base' \in {32 * i : i \in 0 .. 7} BY <2>4, NothingToFit
  <2> QED BY <1>1, <2>1, <2>2, <2>3, <2>4, <2>5 DEF Place, ObdSteps, QueueSteps, ProfileSteps
<1>3. CASE ~(Len(left) > 1)
  <2>1. \E ss : Outside(ss) BY <1>3 DEF ReadModuleVin
  <2> QED BY <1>1, <2>1, OutsidePlace
<1> QED BY <1>2, <1>3

LEMMA DiscoverPlace ==
  ASSUME Shape, Discover
  PROVE  Place'
<1>1. step = "discover" /\ car' = car /\ car \in Cars /\ car.obd \in Seq(DOMAIN car.spec) /\ IsQueue(queue)
  BY CarIs DEF Discover, Shape, Tallies, Place
<1>2. PICK missing \in SUBSET DOMAIN car.obd :
        LET found == Answering(missing)
        IN  IF found = << >> THEN Outside(<< >>) /\ UNCHANGED scan
            ELSE /\ left' = found /\ scan' = NewScan(Head(found)) /\ Go("supported", {})
                 /\ UNCHANGED <<queue, reading, readings, verdicts>>
  BY DEF Discover
<1> DEFINE found == Answering(missing)
<1>3. found \in Seq(DOMAIN car.spec)
  <2> DEFINE names == {name \in Range(car.obd) : \A i \in missing : car.obd[i] # name}
  <2>1. found = Kept(car.obd, names) BY DEF Answering
  <2> DEFINE s == car.obd
             S == DOMAIN car.spec
  <2>2. s \in Seq(S) /\ found = Kept(s, names) BY <1>1, <2>1
  <2> HIDE DEF names, found, s, S
  <2>3. found \in Seq(S)
    <3>1. found \in Seq(S \cap names) BY <2>2, KeptFacts
    <3> QED BY <3>1
  <2> QED BY <2>3 DEF S
<1> HIDE DEF found
<1>4. CASE found = << >> BY <1>1, <1>2, <1>4, OutsidePlace DEF found
<1>5. CASE found # << >>
  <2>1. left' = found /\ scan' = NewScan(Head(found)) /\ Go("supported", {}) /\ queue' = queue
    BY <1>2, <1>5 DEF found
  <2>2. IsScan(scan', Head(left')) BY <2>1, NewScanIs
  <2>3. step' = "supported" /\ todo' = {} /\ base' = 0 /\ walked' = {} BY <2>1 DEF Go
  <2>4. Fits("supported", {}, queue') /\ base' \in {32 * i : i \in 0 .. 7} BY <2>3, NothingToFit
  <2> QED BY <1>1, <1>3, <1>5, <2>1, <2>2, <2>3, <2>4 DEF Place, ObdSteps, QueueSteps, ProfileSteps
<1> QED BY <1>4, <1>5

\* Outside OBD-II the module in hand stays.
LEMMA StaysOutside ==
  ASSUME Place, step \in QueueSteps, UNCHANGED <<left, queue>>, car' = car,
         step' \in QueueSteps, step \in ProfileSteps <=> step' \in ProfileSteps,
         IsReading(reading', Head(queue).name), base' = 0, walked' = {}, Fits(step', todo', queue)
  PROVE  Place'
<1>1. step' \notin ObdSteps /\ step \notin ObdSteps BY DEF ObdSteps, QueueSteps, ProfileSteps
<1>2. base' \in {32 * i : i \in 0 .. 7} OBVIOUS
<1>3. /\ left \in Seq(DOMAIN car.spec) /\ left = << >> /\ IsQueue(queue) /\ queue # << >>
      /\ Head(queue).kind = "profile" <=> step \in ProfileSteps
  BY <1>1 DEF Place
<1>4. left' = left /\ queue' = queue OBVIOUS
<1> QED BY <1>1, <1>2, <1>3, <1>4 DEF Place

LEMMA AbortPlace ==
  ASSUME Place, step \in QueueSteps, car' = car, Abort
  PROVE  Place'
<1>1. step \notin ObdSteps BY DEF ObdSteps, QueueSteps, ProfileSteps
<1>2. left \in Seq(DOMAIN car.spec) /\ left = << >> /\ IsQueue(queue) BY <1>1 DEF Place
<1>3. step' = "aborted" /\ todo' = {} /\ base' = 0 /\ walked' = {} /\ left' = left /\ queue' = queue
  BY DEF Abort, Go
<1>4. base' \in {32 * i : i \in 0 .. 7} /\ Fits("aborted", {}, queue) BY <1>3, NothingToFit
<1> QED BY <1>2, <1>3, <1>4 DEF Place, ObdSteps, QueueSteps, ProfileSteps

\* What a step outside OBD-II may do with the queue.
LEMMA QueueIs ==
  ASSUME Place, step \in QueueSteps
  PROVE  IsQueue(queue) /\ IsQueue(Tail(queue)) /\ queue # << >> /\ IsReading(reading, Head(queue).name)
BY TailIs DEF Place

LEMMA ProfilePlace ==
  ASSUME Place, NEW r, Present(r) \/ StartSession(r)
  PROVE  Place'
<1>1. step \in {"present", "session"} /\ step \in QueueSteps /\ step \in ProfileSteps /\ car' = car
  BY DEF Present, StartSession, Taken, QueueSteps, ProfileSteps
<1>2. /\ IsQueue(queue) /\ IsQueue(Tail(queue)) /\ queue # << >> /\ IsReading(reading, Head(queue).name)
  BY <1>1, QueueIs
<1>3. \/ Abort
      \/ \E rs : Advance(Tail(queue), scans, rs)
      \/ Go("session", {}) /\ reading' = [reading EXCEPT !.reached = TRUE] /\ left' = left /\ queue' = queue
      \/ Go("reads", DOMAIN Head(queue).reads) /\ reading' = reading /\ left' = left /\ queue' = queue
  BY DEF Present, StartSession
<1>4. IsReading([reading EXCEPT !.reached = TRUE], Head(queue).name) BY <1>2 DEF IsReading
<1>5. ASSUME NEW s \in ProfileSteps, NEW ids, Go(s, ids), Fits(s, ids, queue),
             IsReading(reading', Head(queue).name), left' = left /\ queue' = queue
      PROVE  Place'
  <2>1. step' = s /\ todo' = ids /\ base' = 0 /\ walked' = {} BY <1>5 DEF Go
  <2> QED BY <1>1, <1>5, <2>1, StaysOutside DEF QueueSteps
<1>6. Fits("session", {}, queue) BY NothingToFit
<1>7. Fits("reads", DOMAIN Head(queue).reads, queue) BY <1>1, ProfileStepIs, GroupIs DEF Fits
<1>8. CASE Abort BY <1>1, <1>8, AbortPlace
<1>9. CASE \E rs : Advance(Tail(queue), scans, rs) BY <1>2, <1>9, AdvancePlace
<1> QED BY <1>2, <1>3, <1>4, <1>5, <1>6, <1>7, <1>8, <1>9 DEF ProfileSteps

\* A loop outside OBD-II goes on with one item less.
LEMMA OneLess ==
  ASSUME Place, step \in {"reads", "identify"}, UNCHANGED <<left, queue, step, base, walked>>, car' = car,
         todo # {Min(todo)}, todo' = todo \ {Min(todo)}, IsReading(reading', Head(queue).name)
  PROVE  Place'
<1>1. step \in QueueSteps /\ step \notin Walks BY DEF QueueSteps, ProfileSteps, Walks
<1>2. base' = 0 /\ walked' = {} BY <1>1 DEF Place
<1>3. Min(todo) \in todo BY NextIs
<1>4. todo' # {} /\ todo' \subseteq todo BY <1>3
<1>5. Fits(step, todo, queue) BY DEF Place
<1>6. Fits(step, todo', queue) BY <1>4, <1>5 DEF Fits
<1> QED BY <1>1, <1>2, <1>6, StaysOutside

LEMMA ReadPlace ==
  ASSUME Place, NEW r, Read(r)
  PROVE  Place'
<1>1. step = "reads" /\ step \in QueueSteps /\ car' = car BY DEF Read, Taken, QueueSteps, ProfileSteps
<1>2. /\ IsQueue(queue) /\ IsQueue(Tail(queue)) /\ queue # << >> /\ IsReading(reading, Head(queue).name)
  BY <1>1, QueueIs
<1>3. PICK after :
        /\ \E field \in DOMAIN reading \ {"name"} : \E x : after = [reading EXCEPT ![field] = x]
        /\ IF r.how = "fault" THEN Abort
           ELSE IF todo = {Min(todo)} THEN Advance(Tail(queue), scans, Append(readings, after))
           ELSE /\ todo' = todo \ {Min(todo)} /\ reading' = after
                /\ UNCHANGED <<step, base, walked, left, queue, readings, verdicts>>
  <2> DEFINE read  == Head(queue).reads[Min(todo)]
             value == Decoded(read, Data(r))
             Into(field) == [reading EXCEPT ![field] = @ \cup {read.id}]
             after ==
               CASE Exchanged(r) = "protected" -> Into("protected")
                 [] Exchanged(r) # "protected" /\ ~Echoed(r, read.length) -> Into("unavailable")
                 [] Echoed(r, read.length) /\ (read.type = "ascii" \/ value <= read.max) ->
                      [reading EXCEPT !.values = With(@, read.id, value)]
                 [] OTHER -> Into("implausible")
  <2>1. IF r.how = "fault" THEN Abort
        ELSE IF todo = {Min(todo)} THEN Advance(Tail(queue), scans, Append(readings, after))
        ELSE /\ todo' = todo \ {Min(todo)} /\ reading' = after
             /\ UNCHANGED <<step, base, walked, left, queue, readings, verdicts>>
    BY DEF Read
  <2>2. \/ after = Into("protected") \/ after = Into("unavailable") \/ after = Into("implausible")
        \/ after = [reading EXCEPT !.values = With(@, read.id, value)]
    OBVIOUS
  <2>3. {"protected", "unavailable", "implausible", "values"} \subseteq DOMAIN reading \ {"name"}
    BY <1>2 DEF IsReading
  <2> HIDE DEF after, read, value
  <2>4. \E field \in DOMAIN reading \ {"name"} : \E x : after = [reading EXCEPT ![field] = x]
    <3>1. CASE after = Into("protected") BY <3>1, <2>3
    <3>2. CASE after = Into("unavailable") BY <3>2, <2>3
    <3>3. CASE after = Into("implausible") BY <3>3, <2>3
    <3>4. CASE after = [reading EXCEPT !.values = With(@, read.id, value)] BY <3>4, <2>3
    <3> QED BY <2>2, <3>1, <3>2, <3>3, <3>4
  <2> QED BY <2>1, <2>4
<1>4. IsReading(after, Head(queue).name)
  <2>1. PICK field \in DOMAIN reading \ {"name"} : \E x : after = [reading EXCEPT ![field] = x] BY <1>3
  <2> QED BY <1>2, <2>1 DEF IsReading
<1>5. CASE r.how = "fault" BY <1>1, <1>3, <1>5, AbortPlace
<1>6. CASE r.how # "fault" /\ todo = {Min(todo)} BY <1>2, <1>3, <1>6, AdvancePlace
<1>7. CASE r.how # "fault" /\ todo # {Min(todo)} BY <1>1, <1>3, <1>4, <1>7, OneLess
<1> QED BY <1>5, <1>6, <1>7

LEMMA FoundPlace ==
  ASSUME Place, NEW r, Open(r) \/ Identify(r)
  PROVE  Place'
<1>1. /\ step \in {"open", "identify"} /\ step \in QueueSteps /\ car' = car
      /\ step \notin ProfileSteps /\ "identify" \in QueueSteps /\ "identify" \notin ProfileSteps
  BY DEF Open, Identify, Taken, QueueSteps, ProfileSteps
<1>2. /\ IsQueue(queue) /\ IsQueue(Tail(queue)) /\ queue # << >> /\ IsReading(reading, Head(queue).name)
  BY <1>1, QueueIs
<1>3. CASE Open(r)
  <2>1. CASE r.how = "fault" BY <1>2, <1>3, <2>1, AdvancePlace DEF Open
  <2>2. CASE r.how # "fault"
    <3>1. Go("identify", DOMAIN StandardDids) /\ reading' = reading /\ left' = left /\ queue' = queue
      BY <1>3, <2>2 DEF Open
    <3>2. step' = "identify" /\ todo' = DOMAIN StandardDids /\ base' = 0 /\ walked' = {} BY <3>1 DEF Go
    <3>3. DOMAIN StandardDids # {} BY DEF StandardDids
    <3>4. Fits("identify", DOMAIN StandardDids, queue) BY <3>3 DEF Fits
    <3> QED BY <1>1, <1>2, <3>1, <3>2, <3>4, StaysOutside
  <2> QED BY <2>1, <2>2
<1>4. CASE Identify(r)
  <2> DEFINE after == IF Echoed(r, 0)
                      THEN [reading EXCEPT !.reached = TRUE,
                                           !.values = With(@, StandardDids[Min(todo)], Strip(Data(r)))]
                      ELSE reading
  <2>1. step = "identify" BY <1>4 DEF Identify
  <2>2. \/ \E rs : Advance(Tail(queue), scans, rs)
        \/ /\ todo # {Min(todo)} /\ todo' = todo \ {Min(todo)} /\ reading' = after
           /\ UNCHANGED <<step, base, walked, left, queue>>
    BY <1>4 DEF Identify
  <2>3. IsReading(after, Head(queue).name) BY <1>2 DEF IsReading
  <2> HIDE DEF after
  <2> QED BY <1>1, <1>2, <2>1, <2>2, <2>3, AdvancePlace, OneLess
<1> QED BY <1>3, <1>4

-----------------------------------------------------------------------------

LEMMA InitShape == Init => Shape
<1> SUFFICES ASSUME Init PROVE Shape OBVIOUS
<1>1. Tallies
  <2>1. Failures[car] \in Nat BY CarIs DEF Init
  <2> QED BY <2>1 DEF Init, Tallies
<1>2. Place
  <2>1. IsQueue(<< >>)
    <3>1. Range(<< >>) = {} BY DEF Range
    <3> QED BY <3>1 DEF IsQueue
  <2>2. Fits("discover", {}, << >>) BY NothingToFit
  <2>3. base \in {32 * i : i \in 0 .. 7} BY DEF Init
  <2> QED BY <2>1, <2>2, <2>3 DEF Init, Place, ObdSteps, QueueSteps, ProfileSteps
<1> QED BY <1>1, <1>2 DEF Shape

LEMMA SwitchedIs ==
  ASSUME Shape, step \in {"session", "open"}, NEW r, Switched(r)
  PROVE  session' \in [DOMAIN car.spec -> {1, 3}]
<1>1. session \in [DOMAIN car.spec -> {1, 3}] BY DEF Shape, Tallies
<1>2. Head(queue).session \in {1, 3} BY SessionIs DEF Shape, QueueSteps, ProfileSteps
<1> QED BY <1>1, <1>2 DEF Switched

LEMMA ReplyShape ==
  ASSUME Shape, Asking, NEW r \in Replies, Reply(r)
  PROVE  Shape'
<1>1. Taken(r) BY DEF Reply, Supported, Walk, ReadLive, ReadFrame, ReadPid, ReadCodes, WalkTests, ReadTest,
                      ReadItemSupport, ReadItem, WalkFrame, ReadModuleVin, Present, StartSession, Read, Open, Identify
<1>2. /\ car' = car /\ attempt' \in 0 .. 2 /\ trouble' \in 0 .. Failures[car]
      /\ \A b \in due' : b.req \in Requests /\ b.nth \in Nat /\ Unspecific(b.req)
  BY <1>1, TakenIs
<1>3. session' \in [DOMAIN car.spec -> {1, 3}]
  <2>1. CASE session' = session BY <2>1 DEF Shape, Tallies
  <2>2. CASE step \in {"session", "open"} /\ Switched(r) BY <2>2, SwitchedIs
  <2>3. session' = session \/ (step \in {"session", "open"} /\ Switched(r))
    BY DEF Reply, Supported, Walk, ReadLive, ReadFrame, ReadPid, ReadCodes, WalkTests, ReadTest,
           ReadItemSupport, ReadItem, WalkFrame, ReadModuleVin, Present, StartSession, Read, Open, Identify,
           surveyRest
  <2> QED BY <2>1, <2>2, <2>3
<1>4. Tallies' BY <1>2, <1>3 DEF Shape, Tallies
<1>5. Place'
  BY SupportedPlace, WalkPlace, PidPlace, CodesPlace, WalkTestsPlace, TestPlace, ItemSupportPlace, ItemPlace,
     VinPlace, ProfilePlace, ReadPlace, FoundPlace DEF Reply, Shape
<1> QED BY <1>4, <1>5 DEF Shape

LEMMA PendingIs ==
  ASSUME Shape, Pending
  PROVE  /\ attempt' \in 0 .. 2 /\ trouble' \in 0 .. Failures[car] /\ Asking
         /\ due' \subseteq due \cup {Mine} /\ slow \subseteq slow' /\ (step = "tests" => Module \in slow')
         /\ \A b \in due' : b.req \in Requests /\ b.nth \in Nat /\ Unspecific(b.req)
         /\ UNCHANGED <<car, step, left, queue, base, walked, todo, scan, scans, reading,
                        readings, session, verdicts, lost>>
<1>1. attempt \in 0 .. 2 /\ trouble \in 0 .. Failures[car] /\ Failures[car] \in Nat BY CarIs DEF Shape, Tallies
<1>2. attempt' \in 0 .. 2 /\ trouble' \in 0 .. Failures[car] /\ Asking BY <1>1 DEF Pending, Retries, Asking
<1>3. due' \subseteq due \cup {Mine} /\ slow \subseteq slow' /\ (step = "tests" => Module \in slow')
  BY DebtIs DEF Pending
<1>4. \A b \in due' : b.req \in Requests /\ b.nth \in Nat /\ Unspecific(b.req) BY <1>2, <1>3, OwingIs
<1> QED BY <1>2, <1>3, <1>4 DEF Pending

LEMMA NextShape == Shape /\ [Next]_vars => Shape'
<1> SUFFICES ASSUME Shape, [Next]_vars PROVE Shape' OBVIOUS
<1>1. CASE Discover
  <2>1. Place' BY <1>1, DiscoverPlace
  <2>2. /\ car' = car /\ attempt' = attempt /\ due' = due /\ session' = session
        /\ trouble' \in 0 .. Failures[car]
    <3>1. car \in Cars /\ trouble \in 0 .. Failures[car] /\ car.obd \in Seq(DOMAIN car.spec) BY CarIs DEF Shape, Tallies
    <3>2. PICK missing \in SUBSET DOMAIN car.obd :
            Cardinality(missing) + trouble <= Failures[car] /\ trouble' = trouble + Cardinality(missing)
      BY <1>1 DEF Discover
    <3>3. Cardinality(missing) \in Nat
      <4>1. DOMAIN car.obd = 1 .. Len(car.obd) /\ Len(car.obd) \in Nat BY <3>1
      <4>2. IsFiniteSet(1 .. Len(car.obd)) BY <4>1, FS_Interval
      <4> QED BY <4>1, <4>2, FS_Subset, FS_CardinalityType
    <3>4. Failures[car] \in Nat BY <3>1, CarIs
    <3>5. trouble' \in 0 .. Failures[car] BY <3>1, <3>2, <3>3, <3>4
    <3> QED BY <1>1, <3>5 DEF Discover
  <2> QED BY <2>1, <2>2 DEF Shape, Tallies
<1>2. CASE Pending BY <1>2, PendingIs DEF Shape, Tallies, Place
<1>3. CASE Asking /\ \E r \in Replies : Reply(r) BY <1>3, ReplyShape
<1>4. CASE UNCHANGED vars BY <1>4 DEF vars, Shape, Tallies, Place
<1> QED BY <1>1, <1>2, <1>3, <1>4 DEF Next

LEMMA ShapeInvariant == Spec => []Shape
BY InitShape, NextShape, PTL DEF Spec

\* A scan asks only for what there is to ask for, of a module that it has found, and in
\* the bounds of its retries.
THEOREM SurveyTypes == Spec => []TypeOK
<1>1. Shape => TypeOK
  <2> SUFFICES ASSUME Shape PROVE TypeOK OBVIOUS
  <2>1. Range(left) \subseteq DOMAIN car.spec BY DEF Shape, Place, Range
  <2>2. walked \subseteq 1 .. 255
    <3>1. PICK i \in 0 .. 7 : base = 32 * i BY DEF Shape, Place
    <3>2. walked \subseteq 1 .. base BY DEF Shape, Place
    <3> QED BY <3>1, <3>2
  <2>3. /\ step \in {"walk", "pids", "walk6", "tests", "info", "items", "walk2", "frames"} => left # << >>
        /\ step \in {"pids", "tests", "items", "frames", "reads", "identify", "info"} => todo # {}
    BY DEF Shape, Place, ObdSteps, Fits
  <2> QED BY <2>1, <2>2, <2>3 DEF Shape, Tallies, Place, TypeOK
<1> QED BY <1>1, ShapeInvariant, PTL

-----------------------------------------------------------------------------
(* Whose answer a reply is. *)

Echoing == {1, 2, 9, 34}

LEMMA ByteSeq ==
  ASSUME NEW t \in Seq(Byte)
  PROVE  t \in Seq(Int)
<1> DEFINE n == Len(t)
<1>1. n \in Nat /\ t = [j \in 1 .. n |-> t[j]] /\ \A j \in 1 .. n : t[j] \in Int BY BytesOf
<1> HIDE DEF n
<1>2. t \in [1 .. n -> Int] BY <1>1
<1> QED BY <1>1, <1>2, SeqIs

LEMMA CodedIs ==
  ASSUME NEW values, DOMAIN values \subseteq KnownPids, \A pid \in DOMAIN values : InRange(pid, values[pid])
  PROVE  \A pid \in DOMAIN Coded(values) : Coded(values)[pid] \in Seq(Int)
<1> TAKE pid \in DOMAIN Coded(values)
<1>1. pid \in DOMAIN values /\ Coded(values)[pid] = EncodePid(pid, values[pid]) BY DEF Coded
<1> QED BY <1>1, EncodePidIs

LEMMA CodedInfoIs ==
  ASSUME NEW m, IsModule(m)
  PROVE  \A id \in DOMAIN CodedInfo(m.info) : CodedInfo(m.info)[id] \in Seq(Int)
<1> TAKE id \in DOMAIN CodedInfo(m.info)
<1> DEFINE items == m.info[id]
           w == ItemWidth[id]
           x == Joined(Padded(items, id), w)
<1>1. id \in DOMAIN m.info /\ CodedInfo(m.info)[id] = <<Len(items)>> \o x BY DEF CodedInfo
<1>2. id \in DOMAIN ItemWidth /\ items \in Seq(Seq(Byte)) /\ \A text \in Range(items) :
         IF id = 6 THEN Len(text) = 4 ELSE Len(text) <= ItemWidth[id] /\ Trimmed(text)
  BY <1>1, ModuleIs
<1> HIDE DEF items
<1>3. IsBlocks(Padded(items, id), w) BY <1>2, InfoBack DEF Padded
<1>4. x \in Seq(Int) BY <1>2, <1>3, WidthIs, JoinedInts
<1>5. Len(items) \in Int BY <1>2
<1> HIDE DEF x, w
<1>6. <<Len(items)>> \o x \in Seq(Int) BY <1>4, <1>5, Prefixed
<1> QED BY <1>1, <1>6

LEMMA AnsweredIs ==
  ASSUME NEW req \in Requests, NEW e \in Seq(Int)
  PROVE  /\ Positive(req) \o e # << >>
         /\ (Positive(req) \o e)[1] = req.svc + 64
<1>1. Positive(req) \in Seq(Int) /\ Positive(req) # << >> /\ Positive(req)[1] = req.svc + 64 BY PositiveIs
<1> DEFINE h == Positive(req)
<1> HIDE DEF h
<1>2. h \o e # << >> /\ (h \o e)[1] = h[1]
  <2>1. h \in Seq(Int) /\ h # << >> BY <1>1 DEF h
  <2> QED BY <2>1, HeaderBody
<1> QED BY <1>1, <1>2 DEF h

LEMMA TableAnswer ==
  ASSUME NEW coded, \A id \in DOMAIN coded : coded[id] \in Seq(Int), NEW req \in Requests
  PROVE  Table(coded, req) = << >> \/ \E e \in Seq(Int) : Table(coded, req) = Positive(req) \o e
<1>1. \A items, origin : SupportBitmap(items, origin) \in Seq(Int) BY BitmapIs
<1> QED BY <1>1 DEF Table

\* An answer says which service it is to, or refuses; where the service echoes more, it
\* begins with all that was asked.
LEMMA Answered ==
  ASSUME NEW m, IsModule(m), NEW ext, NEW req \in Requests
  PROVE  LET d == Handle(m, ext, req)
         IN  \/ d = << >>
             \/ /\ d[1] = req.svc + 64
                /\ req.svc \in Echoing => \E e \in Seq(Int) : d = Positive(req) \o e
             \/ req.svc = 34 /\ d[1] = 127
<1> DEFINE d == Handle(m, ext, req)
<1>0. req.svc \in Services BY DEF Requests
<1>1. ASSUME d = << >> \/ \E e \in Seq(Int) : d = Positive(req) \o e
      PROVE  \/ d = << >>
             \/ d[1] = req.svc + 64 /\ \E e \in Seq(Int) : d = Positive(req) \o e
  <2>1. CASE d = << >> BY <2>1
  <2>2. CASE d # << >>
    <3>1. PICK e \in Seq(Int) : d = Positive(req) \o e BY <1>1, <2>2
    <3> HIDE DEF d
    <3>2. (Positive(req) \o e)[1] = req.svc + 64 BY AnsweredIs
    <3> QED BY <3>1, <3>2
  <2> QED BY <2>1, <2>2
<1>2. CASE req.svc = 1
  <2>1. d = Table(Coded(m.pids), req) BY <1>2 DEF Handle
  <2>2. \A id \in DOMAIN Coded(m.pids) : Coded(m.pids)[id] \in Seq(Int) BY ModuleIs, CodedIs
  <2>3. d = << >> \/ \E e \in Seq(Int) : d = Positive(req) \o e BY <2>1, <2>2, TableAnswer
  <2> QED BY <1>1, <2>3
<1>3. CASE req.svc = 2
  <2>1. d = IF DOMAIN m.frame = {} THEN << >> ELSE Table(Coded(m.frame), req) BY <1>3 DEF Handle
  <2>2. \A id \in DOMAIN Coded(m.frame) : Coded(m.frame)[id] \in Seq(Int) BY ModuleIs, CodedIs
  <2>3. d = << >> \/ \E e \in Seq(Int) : d = Positive(req) \o e BY <2>1, <2>2, TableAnswer
  <2> QED BY <1>1, <2>3
<1>4. CASE req.svc = 9
  <2>1. d = IF req.id = 0 THEN <<73, 0>> \o SupportBitmap(DOMAIN m.info, 0) ELSE Table(CodedInfo(m.info), req)
    BY <1>4 DEF Handle
  <2>2. \A id \in DOMAIN CodedInfo(m.info) : CodedInfo(m.info)[id] \in Seq(Int) BY CodedInfoIs
  <2>3. d = << >> \/ \E e \in Seq(Int) : d = Positive(req) \o e
    <3>1. CASE req.id = 0
      <4>1. Positive(req) = <<73, 0>> BY <1>4, <3>1, PositiveIs
      <4>2. SupportBitmap(DOMAIN m.info, 0) \in Seq(Int) BY BitmapIs
      <4> QED BY <2>1, <3>1, <4>1, <4>2
    <3>2. CASE req.id # 0 BY <2>1, <2>2, <3>2, TableAnswer
    <3> QED BY <3>1, <3>2
  <2> QED BY <1>1, <2>3
<1>5. CASE req.svc = 34
  <2>1. CASE \E nrc \in {51, 127, 49} : d = <<127, 34, nrc>> BY <1>5, <2>1
  <2>2. CASE req.id \in DOMAIN m.dids /\ d = Positive(req) \o m.dids[req.id]
    <3>1. m.dids[req.id] \in Seq(Int)
      <4>1. m.dids[req.id] \in Seq(Byte) BY <2>2, ModuleIs
      <4> QED BY <4>1, ByteSeq
    <3> QED BY <1>1, <2>2, <3>1
  <2> QED BY <1>5, <2>1, <2>2, DidAnswer
<1>6. CASE req.svc = 6
  <2>0. 6 \notin Echoing BY DEF Echoing
  <2>1. ASSUME NEW x \in Seq(Int), d = << 70 >> \o x
        PROVE  d[1] = 70
    <3>1. (<< 70 >> \o x)[1] = 70 BY Prefixed
    <3> QED BY <2>1, <3>1
  <2>2. ASSUME NEW x \in Seq(Int), d = <<70, req.id>> \o x
        PROVE  d[1] = 70
    <3> DEFINE h == <<70, req.id>>
    <3>1. h \in Seq(Int) /\ h # << >> /\ h[1] = 70 BY DEF Requests
    <3> HIDE DEF h
    <3>2. (h \o x)[1] = 70 BY <3>1, HeaderBody
    <3> QED BY <2>2, <3>2 DEF h
  <2>3. CASE \E items : d = <<70, req.id>> \o SupportBitmap(items, req.id)
    BY <1>6, <2>0, <2>2, <2>3, BitmapIs
  <2> DEFINE groups == Kept(m.tests, OfMonitor(m, req.id))
             blocks == [i \in DOMAIN groups |-> TestBytes(groups[i])]
  <2>4. CASE d = << 70 >> \o Joined(blocks, 9)
    <3>1. groups \in Seq(Tests)
      <4>1. m.tests \in Seq(Tests) BY ModuleIs
      <4>2. groups \in Seq(Tests \cap OfMonitor(m, req.id)) BY <4>1, KeptFacts
      <4> HIDE DEF groups
      <4> QED BY <4>2
    <3> HIDE DEF groups
    <3>2. IsBlocks(blocks, 9) BY <3>1, TestsBack
    <3> HIDE DEF blocks
    <3>3. Joined(blocks, 9) \in Seq(Int) BY <3>2, JoinedInts DEF Widths
    <3> QED BY <1>6, <2>0, <2>1, <2>4, <3>3
  <2> HIDE DEF groups, blocks
  <2>5. d = << >> \/ (\E items : d = <<70, req.id>> \o SupportBitmap(items, req.id)) \/ d = << 70 >> \o Joined(blocks, 9)
    BY <1>6, TestAnswer DEF groups, blocks
  <2> QED BY <2>3, <2>4, <2>5
<1>7. CASE req.svc \in {3, 7, 10}
  <2>1. /\ req.svc = 3 => d = DtcResponse(3, m.stored)
        /\ req.svc = 7 => d = DtcResponse(7, m.pending)
        /\ req.svc = 10 => d = DtcResponse(10, m.permanent)
    BY DEF Handle
  <2> HIDE DEF d
  <2>2. PICK codes \in Seq(Codes \ {Padding}) : d = DtcResponse(req.svc, codes) BY <1>7, <2>1, ModuleIs
  <2>3. 1 \in 1 .. 2 + 2 * Len(codes) OBVIOUS
  <2>4. DtcResponse(req.svc, codes)[1] = req.svc + 64 BY <2>3 DEF DtcResponse
  <2> QED BY <1>7, <2>2, <2>4 DEF Echoing, d
<1>8. CASE req.svc = 62 BY <1>8 DEF Handle, Echoing
<1>9. CASE req.svc = 16 BY <1>9 DEF Handle, Echoing
<1> HIDE DEF d
<1> QED BY <1>0, <1>2, <1>3, <1>4, <1>5, <1>6, <1>7, <1>8, <1>9 DEF Services, d

Begins(d, req) == \E e \in Seq(Int) : d = Positive(req) \o e

\* What echoes a request is the answer to it: no late answer to another does.
LEMMA EchoIsOwn ==
  ASSUME NEW m, IsModule(m), NEW ext, NEW b \in Requests, NEW c \in Requests, c.svc \in Echoing,
         Handle(m, ext, b) # << >>, Handle(m, ext, b)[1] = c.svc + 64,
         SubSeq(Handle(m, ext, b), 1, Len(Positive(c))) = Positive(c)
  PROVE  b = c /\ Begins(Handle(m, ext, b), c)
<1> DEFINE d == Handle(m, ext, b)
<1>1. b.svc \in Services /\ c.svc \in Echoing /\ b.id \in 0 .. WordMax /\ c.id \in 0 .. WordMax BY DEF Requests
<1>2. d[1] # 127 BY <1>1 DEF Echoing
<1>3. d[1] = b.svc + 64 /\ (b.svc \in Echoing => \E e \in Seq(Int) : d = Positive(b) \o e)
  BY <1>2, Answered
<1>4. b.svc = c.svc
  <2>1. b.svc + 64 = c.svc + 64 BY <1>3
  <2>2. b.svc \in Int /\ c.svc \in Int BY <1>1 DEF Services, Echoing
  <2> QED BY <2>1, <2>2
<1>5. PICK e \in Seq(Int) : d = Positive(b) \o e BY <1>3, <1>4
<1> DEFINE h == Positive(b)
           k == Positive(c)
<1>6. h \in Seq(Int) /\ h # << >> BY PositiveIs
<1>7. Len(h) = Len(k)
  <2>1. CASE c.svc \in {1, 9}
    <3>1. Len(<<c.svc + 64, b.id>>) = 2 /\ Len(<<c.svc + 64, c.id>>) = 2 OBVIOUS
    <3>2. h = <<c.svc + 64, b.id>> /\ k = <<c.svc + 64, c.id>> BY <1>4, <2>1 DEF Positive
    <3> QED BY <3>1, <3>2
  <2>2. CASE c.svc = 2
    <3>1. h = <<66, b.id, 0>> /\ k = <<66, c.id, 0>> BY <1>4, <2>2, PositiveIs
    <3> QED BY <3>1
  <2>3. CASE c.svc = 34
    <3>0. b.svc = 34 /\ c.svc = 34 BY <1>4, <2>3
    <3>1. h = <<98, b.id \div 256, b.id % 256>> /\ k = <<98, c.id \div 256, c.id % 256>> BY <3>0 DEF Positive
    <3> QED BY <3>1
  <2> QED BY <1>1, <2>1, <2>2, <2>3 DEF Echoing
<1>8. SubSeq(d, 1, Len(h)) = h
  <2> HIDE DEF h
  <2>1. d = h \o e BY <1>5 DEF h
  <2> QED BY <2>1, <1>6, HeaderBody
<1>9. h = k BY <1>7, <1>8
<1>10. b.id = c.id
  <2>1. CASE c.svc \in {1, 9}
    <3>1. h = <<c.svc + 64, b.id>> /\ k = <<c.svc + 64, c.id>> BY <1>4, <2>1 DEF Positive
    <3> QED BY <3>1, <1>9
  <2>2. CASE c.svc = 2
    <3>1. h = <<66, b.id, 0>> /\ k = <<66, c.id, 0>> BY <1>4, <2>2, PositiveIs
    <3> QED BY <3>1, <1>9
  <2>3. CASE c.svc = 34
    <3>0. b.svc = 34 /\ c.svc = 34 BY <1>4, <2>3
    <3>1. h = <<98, b.id \div 256, b.id % 256>> /\ k = <<98, c.id \div 256, c.id % 256>> BY <3>0 DEF Positive
    <3>2. b.id \div 256 = c.id \div 256 /\ b.id % 256 = c.id % 256 BY <3>1, <1>9
    <3>3. b.id \in Nat /\ c.id \in Nat BY <1>1
    <3> QED BY <3>2, <3>3
  <2> QED BY <1>1, <2>1, <2>2, <2>3 DEF Echoing
<1>11. b = [svc |-> b.svc, id |-> b.id] /\ c = [svc |-> c.svc, id |-> c.id] BY DEF Requests
<1>12. b = c BY <1>4, <1>10, <1>11
<1> QED BY <1>5, <1>12 DEF Begins

\* Where a reply comes from.
LEMMA ReplyIs ==
  ASSUME NEW r \in Replies, r.how = "bytes"
  PROVE  /\ r.data # << >>
         /\ \/ /\ Module \in DOMAIN car.spec
               /\ \E b : /\ b = Current \/ \E x \in due : x.at = Module /\ x.req = b
                         /\ r.data = Handle(car.spec[Module], session[Module] = 3, b)
            \/ r.data = <<Current.svc + 64>>
            \/ \E nrc \in {17, 34} : r.data = Refusal(Current, nrc)
<1>1. \A x : Bytes(x).data = x /\ (Bytes(x).how = "bytes" => x # << >>) BY DEF Bytes
<1>2. \A b : Answer(b) # << >> => Module \in DOMAIN car.spec /\ Answer(b) = Handle(car.spec[Module], session[Module] = 3, b)
  BY DEF Answer
<1>3. \/ r = Bytes(Answer(Current))
      \/ r = [how |-> "fault", data |-> << >>] \/ r = Bytes(<< >>)
      \/ r = Bytes(<<Current.svc + 64>>)
      \/ \E nrc \in {17, 34} : r = Bytes(Refusal(Current, nrc))
      \/ \E b \in due : b.at = Module /\ r = Bytes(Answer(b.req))
  BY DEF Replies, Failing, Late
<1> QED BY <1>1, <1>2, <1>3

\* A reply that echoes the request is the module's answer to it.
LEMMA EchoedIs ==
  ASSUME Shape, Asking, NEW r \in Replies, NEW n \in Nat, Current.svc \in Echoing, Echoed(r, n)
  PROVE  /\ r.how = "bytes" /\ Module \in DOMAIN car.spec /\ IsModule(car.spec[Module])
         /\ r.data = Handle(car.spec[Module], session[Module] = 3, Current)
         /\ \E e \in Seq(Int) : r.data = Positive(Current) \o e /\ Data(r) = e /\ Len(e) >= n
<1> DEFINE c == Current
           d == r.data
           h == Positive(c)
<1>1. c \in Requests BY CurrentIs DEF Shape
<1>2. Exchanged(r) = "reply" /\ Len(d) >= Len(h) + n /\ SubSeq(d, 1, Len(h)) = h BY DEF Echoed
<1>3. r.how = "bytes" /\ d[1] # 127 /\ d[1] = c.svc + 64
  <2>1. r.how \in {"fault", "silence", "bytes"} BY DEF Replies, Failing, Bytes
  <2> QED BY <1>2, <2>1 DEF Exchanged
<1>4. Len(h) \in Nat /\ Len(h) >= 2
  <2>1. c.svc \in {1, 9} \/ c.svc = 2 \/ c.svc = 34 BY DEF Echoing
  <2>2. CASE c.svc \in {1, 9}
    <3>1. h = <<c.svc + 64, c.id>> BY <2>2 DEF Positive
    <3> QED BY <3>1
  <2>3. CASE c.svc = 2
    <3>1. h = <<66, c.id, 0>> BY <1>1, <2>3, PositiveIs
    <3> QED BY <3>1
  <2>4. CASE c.svc = 34
    <3>1. h = <<98, c.id \div 256, c.id % 256>> BY <1>1, <2>4, PositiveIs
    <3> QED BY <3>1
  <2> QED BY <2>1, <2>2, <2>3, <2>4
<1>5. d # << >> /\ ~(d = <<c.svc + 64>>) /\ ~\E nrc \in {17, 34} : d = Refusal(c, nrc)
  <2>1. d # << >> BY <1>3, ReplyIs
  <2>2. d # <<c.svc + 64>>
    <3>1. Len(<<c.svc + 64>>) = 1 OBVIOUS
    <3> HIDE DEF d, h, c
    <3>2. Len(d) # 1 BY <1>2, <1>4
    <3> QED BY <3>1, <3>2
  <2>3. \A nrc : Refusal(c, nrc)[1] = 127 BY DEF Refusal
  <2> QED BY <1>3, <2>1, <2>2, <2>3
<1>6. Module \in DOMAIN car.spec /\ \E b \in Requests : d = Handle(car.spec[Module], session[Module] = 3, b)
  <2>1. \A x \in due : x.req \in Requests BY DEF Shape, Tallies
  <2> QED BY <1>1, <1>3, <1>5, <2>1, ReplyIs
<1>7. IsModule(car.spec[Module]) BY <1>6, CarIs DEF Shape, Tallies
<1>8. PICK b \in Requests : d = Handle(car.spec[Module], session[Module] = 3, b) BY <1>6
<1>9. b = c /\ \E e \in Seq(Int) : d = h \o e
  <2> DEFINE m == car.spec[Module]
  <2>0. PICK ext \in BOOLEAN : ext = (session[Module] = 3) OBVIOUS
  <2> DEFINE a == Handle(m, ext, b)
  <2>1. a # << >> /\ a[1] = c.svc + 64 /\ SubSeq(a, 1, Len(Positive(c))) = Positive(c) BY <2>0, <1>2, <1>3, <1>5, <1>8
  <2>2. IsModule(m) /\ b \in Requests /\ c \in Requests /\ c.svc \in Echoing BY <1>1, <1>7
  <2> HIDE DEF d, c, m
  <2>3. b = c /\ Begins(a, c) BY <2>1, <2>2, EchoIsOwn
  <2> QED BY <2>0, <1>8, <2>3 DEF m, Begins
<1>10. PICK e \in Seq(Int) : d = h \o e BY <1>9
<1>11. Data(r) = e /\ Len(d) = Len(h) + Len(e)
  <2>1. h \in Seq(Int) /\ h # << >> BY <1>1, PositiveIs
  <2>2. Data(r) = SubSeq(d, Len(h) + 1, Len(d)) BY DEF Data
  <2> HIDE DEF d, h
  <2> QED BY <1>10, <2>1, <2>2, HeaderBody
<1>12. Len(e) >= n
  <2>1. Len(e) \in Nat OBVIOUS
  <2> HIDE DEF d, h
  <2> QED BY <1>2, <1>4, <1>11, <2>1
<1> QED BY <1>3, <1>6, <1>7, <1>8, <1>9, <1>10, <1>11, <1>12

-----------------------------------------------------------------------------
(* A scan that is the module's own stays so as it grows. *)

OwnFields == {"name", "readings", "stored", "pending", "permanent", "frame", "tests", "info", "moduleVin"}

LEMMA SameScan ==
  ASSUME NEW spec, NEW s, NEW t, ScanIsOwn(spec, s), \A field \in OwnFields : t[field] = s[field]
  PROVE  ScanIsOwn(spec, t)
<1>1. /\ t.name = s.name /\ t.readings = s.readings /\ t.stored = s.stored /\ t.pending = s.pending
      /\ t.permanent = s.permanent /\ t.frame = s.frame /\ t.tests = s.tests /\ t.info = s.info
      /\ t.moduleVin = s.moduleVin
  BY DEF OwnFields
<1> QED BY <1>1 DEF ScanIsOwn

\* The modes of the fault codes, and the parts of a scan that hold parameters.
ValueFields == {"readings", "frame"}
CodeFields == {"stored", "pending", "permanent"}

LEMMA KeptNone ==
  ASSUME NEW T
  PROVE  Kept(<< >>, T) = << >>
<1>1. << >> \in Seq({}) /\ Range(<< >>) \cap T = {} BY DEF Range
<1> QED BY <1>1, KeptFacts

LEMMA NewScanOwn ==
  ASSUME NEW spec, NEW name
  PROVE  ScanIsOwn(spec, NewScan(name)) /\ \A m, ids, sl : Unread(m, NewScan(name), "supported", ids, {}, sl)
<1> DEFINE s == NewScan(name)
<1>1. /\ s.readings = << >> /\ s.stored = << >> /\ s.pending = << >> /\ s.permanent = << >>
      /\ s.frame = << >> /\ s.tests = << >> /\ s.info = << >> /\ s.moduleVin = << >>
  BY DEF NewScan
<1> HIDE DEF s
<1>2. DOMAIN << >> = {} /\ Range(<< >>) = {} /\ \A T : Kept(<< >>, T) = << >> BY KeptNone DEF Range
<1>3. ScanIsOwn(spec, s) BY <1>1, <1>2 DEF ScanIsOwn, OwnValues
<1>4. \A m, ids, sl : Unread(m, s, "supported", ids, {}, sl)
  <2>1. \A m : OnceEach(m, s) BY <1>1, <1>2 DEF OnceEach
  <2>2. \A m : s.tests \in Seq(Range(m.tests)) BY <1>1
  <2> QED BY <1>1, <2>1, <2>2 DEF Unread
<1> QED BY <1>3, <1>4 DEF s

LEMMA ValueOwn ==
  ASSUME NEW spec, NEW s, NEW name, ScanIsOwn(spec, s), IsScan(s, name), NEW field \in ValueFields,
         NEW pid, NEW v,
         LET pids == IF field = "frame" THEN spec[name].frame ELSE spec[name].pids
         IN  pid \in DOMAIN pids /\ v = Shown(pid, pids[pid])
  PROVE  ScanIsOwn(spec, [s EXCEPT ![field] = With(@, pid, v)])
<1> DEFINE t == [s EXCEPT ![field] = With(@, pid, v)]
           pids == IF field = "frame" THEN spec[name].frame ELSE spec[name].pids
<1>1. \A x \in OwnFields \ {field} : t[x] = s[x]
  BY DEF IsScan, OwnFields
<1>2. t[field] = With(s[field], pid, v) BY DEF IsScan, ValueFields
<1>3. OwnValues(s[field], pids) BY DEF ScanIsOwn, IsScan, ValueFields
<1>4. OwnValues(With(s[field], pid, v), pids) BY <1>3 DEF OwnValues, With
<1> HIDE DEF t
<1>5. CASE field = "frame"
  <2>1. /\ t.name = s.name /\ t.readings = s.readings /\ t.stored = s.stored /\ t.pending = s.pending
        /\ t.permanent = s.permanent /\ t.tests = s.tests /\ t.info = s.info /\ t.moduleVin = s.moduleVin
        /\ OwnValues(t.frame, spec[name].frame)
    BY <1>1, <1>2, <1>4, <1>5, ZenonT(40) DEF OwnFields
  <2> QED BY <2>1 DEF ScanIsOwn, IsScan, t
<1>6. CASE field = "readings"
  <2>1. /\ t.name = s.name /\ t.frame = s.frame /\ t.stored = s.stored /\ t.pending = s.pending
        /\ t.permanent = s.permanent /\ t.tests = s.tests /\ t.info = s.info /\ t.moduleVin = s.moduleVin
        /\ OwnValues(t.readings, spec[name].pids)
    BY <1>1, <1>2, <1>4, <1>6, ZenonT(40) DEF OwnFields
  <2> QED BY <2>1 DEF ScanIsOwn, IsScan, t
<1> QED BY <1>5, <1>6 DEF ValueFields

LEMMA ClearedOwn ==
  ASSUME NEW spec, NEW s, NEW name, ScanIsOwn(spec, s), IsScan(s, name),
         NEW field \in ValueFields \cup {"tests"}
  PROVE  ScanIsOwn(spec, [s EXCEPT ![field] = << >>])
<1> DEFINE t == [s EXCEPT ![field] = << >>]
<1>1. /\ field = "frame" => t.frame = << >>
      /\ field # "frame" => t.frame = s.frame
      /\ field = "readings" => t.readings = << >>
      /\ field # "readings" => t.readings = s.readings
      /\ field = "tests" => t.tests = << >>
      /\ field # "tests" => t.tests = s.tests
      /\ t.name = s.name /\ t.stored = s.stored /\ t.pending = s.pending
      /\ t.permanent = s.permanent /\ t.info = s.info /\ t.moduleVin = s.moduleVin
  BY DEF IsScan, ValueFields
<1> HIDE DEF t
<1>2. DOMAIN << >> = {} /\ Range(<< >>) = {} /\ \A T : Kept(<< >>, T) = << >> BY KeptNone DEF Range
<1>3. OwnValues(t.readings, spec[s.name].pids) /\ OwnValues(t.frame, spec[s.name].frame)
  BY <1>1, <1>2 DEF ScanIsOwn, OwnValues
<1>4. Range(t.tests) \subseteq Range(spec[s.name].tests)
  BY <1>1, <1>2 DEF ScanIsOwn
<1>5. ScanIsOwn(spec, t) BY <1>1, <1>3, <1>4 DEF ScanIsOwn
<1> QED BY <1>5 DEF t

LEMMA CodesOwn ==
  ASSUME NEW spec, NEW s, NEW name, ScanIsOwn(spec, s), IsScan(s, name), NEW field \in CodeFields,
         NEW x \in {<< >>, spec[name][field]}
  PROVE  ScanIsOwn(spec, [s EXCEPT ![field] = x])
<1> DEFINE t == [s EXCEPT ![field] = x]
<1>1. /\ t.name = s.name /\ t.readings = s.readings /\ t.frame = s.frame /\ t.tests = s.tests
      /\ t.info = s.info /\ t.moduleVin = s.moduleVin
      /\ \A mode \in CodeFields : t[mode] \in {<< >>, spec[name][mode]}
  BY DEF IsScan, CodeFields, ScanIsOwn
<1> HIDE DEF t
<1>2. t.stored \in {<< >>, spec[name].stored} /\ t.pending \in {<< >>, spec[name].pending}
      /\ t.permanent \in {<< >>, spec[name].permanent}
  BY <1>1 DEF CodeFields
<1>3. ScanIsOwn(spec, t) BY <1>1, <1>2 DEF ScanIsOwn, IsScan
<1> QED BY <1>3 DEF t

LEMMA InfoOwn ==
  ASSUME NEW spec, NEW s, NEW name, ScanIsOwn(spec, s), IsScan(s, name),
         NEW id \in DOMAIN spec[name].info
  PROVE  ScanIsOwn(spec, [s EXCEPT !.info = With(@, id, spec[name].info[id])])
<1> DEFINE t == [s EXCEPT !.info = With(@, id, spec[name].info[id])]
<1>1. /\ t.name = s.name /\ t.readings = s.readings /\ t.frame = s.frame /\ t.tests = s.tests
      /\ t.stored = s.stored /\ t.pending = s.pending /\ t.permanent = s.permanent /\ t.moduleVin = s.moduleVin
      /\ t.info = With(s.info, id, spec[name].info[id])
  BY DEF IsScan
<1> HIDE DEF t
<1>2. s.name = name BY DEF IsScan
<1>3. \A i \in DOMAIN s.info : i \in DOMAIN spec[name].info /\ s.info[i] = spec[name].info[i]
  BY <1>2 DEF ScanIsOwn
<1>4. \A i \in DOMAIN t.info : i \in DOMAIN spec[name].info /\ t.info[i] = spec[name].info[i]
  BY <1>1, <1>3 DEF With
<1>5. ScanIsOwn(spec, t) BY <1>1, <1>2, <1>4 DEF ScanIsOwn
<1> QED BY <1>5 DEF t

LEMMA VinOwn ==
  ASSUME NEW spec, NEW s, NEW name, ScanIsOwn(spec, s), IsScan(s, name), NEW vin,
         \/ vin = << >>
         \/ VinDid \in DOMAIN spec[name].dids \ spec[name].protected /\ vin = Strip(spec[name].dids[VinDid])
  PROVE  ScanIsOwn(spec, [s EXCEPT !.moduleVin = vin])
<1> DEFINE t == [s EXCEPT !.moduleVin = vin]
<1>1. /\ t.name = s.name /\ t.readings = s.readings /\ t.frame = s.frame /\ t.tests = s.tests
      /\ t.stored = s.stored /\ t.pending = s.pending /\ t.permanent = s.permanent /\ t.info = s.info
      /\ t.moduleVin = vin
  BY DEF IsScan
<1> HIDE DEF t
<1>2. ScanIsOwn(spec, t) BY <1>1 DEF ScanIsOwn, IsScan
<1> QED BY <1>2 DEF t

\* The results of one monitor more. If there were none of it, none is there twice.
Joining(s, m, id) == [s EXCEPT !.tests = @ \o Kept(m.tests, OfMonitor(m, id))]
Apart(s, t, m, id) == \A i : i # id => Kept(t.tests, OfMonitor(m, i)) = Kept(s.tests, OfMonitor(m, i))
LEMMA TestsOwn ==
  ASSUME NEW spec, NEW s, NEW name, ScanIsOwn(spec, s), IsScan(s, name), NEW id,
         spec[name].tests \in Seq(Tests), s.tests \in Seq(Range(spec[name].tests))
  PROVE  /\ ScanIsOwn(spec, Joining(s, spec[name], id))
         /\ Joining(s, spec[name], id).tests \in Seq(Range(spec[name].tests))
         /\ Apart(s, Joining(s, spec[name], id), spec[name], id)
         /\ OnceEach(spec[name], s) /\ Kept(s.tests, OfMonitor(spec[name], id)) = << >> =>
              OnceEach(spec[name], Joining(s, spec[name], id))
<1> DEFINE m == spec[name]
           S == Range(m.tests)
           g == Kept(m.tests, OfMonitor(m, id))
           t == [s EXCEPT !.tests = @ \o g]
           a == s.tests
<1>1. /\ t.name = s.name /\ t.readings = s.readings /\ t.frame = s.frame /\ t.info = s.info
      /\ t.stored = s.stored /\ t.pending = s.pending /\ t.permanent = s.permanent /\ t.moduleVin = s.moduleVin
      /\ t.tests = a \o g
  BY DEF IsScan
<1>2. m.tests \in Seq(S) BY DEF Range
<1>3. g \in Seq(S) /\ Range(g) = S \cap OfMonitor(m, id)
  <2> DEFINE T == OfMonitor(m, id)
  <2> HIDE DEF S, T
  <2>1. Kept(m.tests, T) \in Seq(S \cap T) /\ Range(Kept(m.tests, T)) = Range(m.tests) \cap T BY <1>2, KeptFacts
  <2>2. Kept(m.tests, T) \in Seq(S) BY <2>1
  <2> QED BY <2>1, <2>2 DEF S, T
<1>4. a \in Seq(S) OBVIOUS
<1>5. \A i : i # id => OfMonitor(m, i) \cap OfMonitor(m, id) = {} BY DEF OfMonitor
<1> HIDE DEF t, g, a, S
<1>6. \A i : Kept(a \o g, OfMonitor(m, i)) = Kept(a, OfMonitor(m, i)) \o Kept(g, OfMonitor(m, i))
  BY <1>3, <1>4, KeptOfBoth
<1>7. Kept(g, OfMonitor(m, id)) = g BY <1>3, KeptFacts
<1>8. \A i : i # id => Kept(g, OfMonitor(m, i)) = << >>
  <2> TAKE i
  <2> HAVE i # id
  <2>1. Range(g) \cap OfMonitor(m, i) = {} BY <1>3, <1>5
  <2> QED BY <2>1, <1>3, KeptFacts
<1>9. Kept(a, OfMonitor(m, id)) = << >> => Kept(a \o g, OfMonitor(m, id)) = g
  <2>1. << >> \o g = g BY <1>3
  <2> QED BY <2>1, <1>6, <1>7
<1>10. \A i : i # id => Kept(a \o g, OfMonitor(m, i)) = Kept(a, OfMonitor(m, i))
  <2> TAKE i
  <2> HAVE i # id
  <2> DEFINE k == Kept(a, OfMonitor(m, i))
  <2>1. k \in Seq(S \cap OfMonitor(m, i)) BY <1>4, KeptFacts
  <2> HIDE DEF k
  <2>2. k \o << >> = k BY <2>1
  <2> QED BY <2>2, <1>6, <1>8 DEF k
<1>11. a \o g \in Seq(S) BY <1>3, <1>4
<1>12. Range(a \o g) \subseteq S
  <2> DEFINE j == a \o g
  <2>1. j \in Seq(S) BY <1>11
  <2> HIDE DEF j
  <2>2. Range(j) \subseteq S BY <2>1 DEF Range
  <2> QED BY <2>2 DEF j
<1>13. ScanIsOwn(spec, t)
  <2>0. s.name = name BY DEF IsScan
  <2>1. Range(t.tests) \subseteq Range(m.tests) BY <1>1, <1>12 DEF S
  <2> QED BY <1>1, <2>0, <2>1 DEF ScanIsOwn
<1>14. \A i : i # id => Kept(t.tests, OfMonitor(m, i)) = Kept(s.tests, OfMonitor(m, i)) BY <1>1, <1>10 DEF a
<1>15. t.tests \in Seq(Range(m.tests)) BY <1>1, <1>11 DEF S
<1>16. ASSUME OnceEach(m, s), Kept(a, OfMonitor(m, id)) = << >>
       PROVE  OnceEach(m, t)
  <2>1. \A i \in MonitorIds(m) : Kept(a, OfMonitor(m, i)) \in {<< >>, Kept(m.tests, OfMonitor(m, i))}
    BY <1>16 DEF OnceEach, a
  <2>2. \A i \in MonitorIds(m) : Kept(t.tests, OfMonitor(m, i)) \in {<< >>, Kept(m.tests, OfMonitor(m, i))}
    <3> TAKE i \in MonitorIds(m)
    <3>1. CASE i = id BY <3>1, <1>1, <1>9, <1>16 DEF g
    <3>2. CASE i # id BY <3>2, <1>1, <1>10, <2>1
    <3> QED BY <3>1, <3>2
  <2> QED BY <2>2 DEF OnceEach
<1>17. OnceEach(m, s) /\ Kept(s.tests, OfMonitor(m, id)) = << >> => OnceEach(m, t) BY <1>16 DEF a
<1> QED BY <1>13, <1>14, <1>15, <1>17 DEF t, g, Joining, Apart

LEMMA AppendsOwn ==
  /\ \A spec, ss, s : OwnScans(spec, ss) /\ ScanIsOwn(spec, s) => OwnScans(spec, Append(ss, s))
  /\ \A spec, rs, x : OwnReadings(spec, rs) /\ ReadingIsOwn(spec, x) => OwnReadings(spec, Append(rs, x))
<1>1. ASSUME NEW ss, ss \in Seq(Range(ss)), NEW s
      PROVE  Append(ss, s) \in Seq(Range(Append(ss, s))) /\ Range(Append(ss, s)) \subseteq Range(ss) \cup {s}
  <2> DEFINE S == Range(ss) \cup {s}
             j == Append(ss, s)
  <2>1. ss \in Seq(S) /\ s \in S BY <1>1
  <2> HIDE DEF S
  <2>2. j \in Seq(S) BY <2>1
  <2> HIDE DEF j
  <2>3. \A i \in 1 .. Len(j) : j[i] \in S BY <2>2
  <2>4. DOMAIN j = 1 .. Len(j) /\ Len(j) \in Nat BY <2>2
  <2>5. Range(j) \subseteq S BY <2>3, <2>4 DEF Range
  <2>6. \A i \in 1 .. Len(j) : j[i] \in Range(j) BY <2>4 DEF Range
  <2>7. j = [i \in 1 .. Len(j) |-> j[i]] BY <2>2
  <2>8. j \in [1 .. Len(j) -> Range(j)] BY <2>6, <2>7
  <2>9. j \in Seq(Range(j)) BY <2>4, <2>8, SeqIs
  <2> QED BY <2>5, <2>9 DEF j, S
<1> QED BY <1>1 DEF OwnScans, OwnReadings

-----------------------------------------------------------------------------
(* Nothing is invented: each step. *)

LEMMA BodyIs ==
  ASSUME NEW r, NEW e \in Seq(Int), Current \in Requests, r.data = Positive(Current) \o e
  PROVE  Data(r) = e
<1> DEFINE h == Positive(Current)
           d == r.data
<1>1. h \in Seq(Int) /\ h # << >> BY PositiveIs
<1>2. Data(r) = SubSeq(d, Len(h) + 1, Len(d)) /\ d = h \o e BY DEF Data
<1> HIDE DEF h, d
<1> QED BY <1>1, <1>2, HeaderBody

LEMMA HandIs ==
  ASSUME Shape, step \in ObdSteps
  PROVE  /\ Module = scan.name /\ IsScan(scan, scan.name) /\ scan.name = Head(left)
         /\ scan.name \in DOMAIN car.spec /\ IsModule(car.spec[scan.name])
<1>1. left # << >> /\ left \in Seq(DOMAIN car.spec) /\ IsScan(scan, Head(left)) BY DEF Shape, Place
<1>2. Head(left) \in DOMAIN car.spec BY <1>1
<1> QED BY <1>1, <1>2, CarIs DEF Module, IsScan, Shape, Tallies

\* What is owed after a step on OBD-II.
LEMMA DebtsLater ==
  ASSUME Shape, step \in ObdSteps, NEW d, d \subseteq due \cup {Mine}
  PROVE  /\ Waiting(left, due) => Waiting(left, d)
         /\ DebtsOf(d, scan.name) \subseteq DebtsOf(due, scan.name) \cup {Mine}
         /\ step \in Untested => ~OfResults(Mine.req)
<1>1. left # << >> /\ left \in Seq(DOMAIN car.spec) BY DEF Shape, Place
<1>2. Mine.at = left[1] /\ Mine.req = Current BY <1>1 DEF Mine, Module
<1>3. ASSUME Waiting(left, due)
      PROVE  Waiting(left, d)
  <2>1. ASSUME NEW i \in DOMAIN left, i # 1
        PROVE  DebtsOf(d, left[i]) = {}
    <3>1. 1 \in DOMAIN left BY <1>1
    <3>2. left[i] # left[1] /\ DebtsOf(due, left[i]) = {} BY <1>3, <2>1, <3>1 DEF Waiting
    <3> QED BY <1>2, <3>2 DEF DebtsOf
  <2> QED BY <1>3, <2>1 DEF Waiting
<1>4. step \in Untested => ~OfResults(Current)
  <2>1. CASE step = "walk6"
    <3>1. Current.id = base BY <2>1, CurrentOn, RequestIs
    <3>2. PICK i \in 0 .. 7 : base = 32 * i BY DEF Shape, Place
    <3>3. base % 32 = 0 BY <3>2
    <3> QED BY <3>1, <3>3 DEF OfResults
  <2>2. CASE step \in Untested \ {"walk6"}
    <3>1. \E svc \in {1, 3, 7, 10} : \E id : Current = Request(svc, id) BY <2>2, CurrentOn DEF Untested
    <3>2. Current.svc \in {1, 3, 7, 10} BY <3>1, RequestIs
    <3> QED BY <3>2 DEF OfResults
  <2> QED BY <2>1, <2>2
<1> QED BY <1>2, <1>3, <1>4 DEF DebtsOf

\* The module in hand stays in hand.
LEMMA InHand ==
  ASSUME Shape, Shape', step \in ObdSteps, step' \in ObdSteps, left' = left
  PROVE  scan'.name = scan.name
<1>1. scan'.name = Head(left') BY DEF Shape, Place, IsScan
<1> QED BY <1>1, HandIs

\* What an action on OBD-II owes.
LEMMA ObdOwn ==
  ASSUME Shape, Shape', OwnInv, step \in ObdSteps, step' \in ObdSteps, car' = car, slow' = slow,
         UNCHANGED surveyRest, due' \subseteq due \cup {Mine},
         ScanIsOwn(car.spec, scan'),
         Unread(car.spec[scan.name], scan', step', todo', DebtsOf(due', scan.name), slow)
  PROVE  OwnInv'
<1>1. scan'.name = scan.name BY InHand DEF surveyRest
<1>2. Waiting(left', due')
  <2>1. Waiting(left, due) BY DEF OwnInv
  <2> QED BY <2>1, DebtsLater DEF surveyRest
<1>3. step' \notin QueueSteps /\ step' # "discover" BY DEF ObdSteps, QueueSteps, ProfileSteps
<1>4. /\ OwnScans(car'.spec, scans') /\ OwnReadings(car'.spec, readings')
      /\ OnceScans(car'.spec, scans', slow')
  BY DEF OwnInv, surveyRest
<1>5. /\ ScanIsOwn(car'.spec, scan')
      /\ Unread(car'.spec[scan'.name], scan', step', todo', DebtsOf(due', scan'.name), slow')
  BY <1>1
<1> QED BY <1>2, <1>3, <1>4, <1>5 DEF OwnInv

\* The tests of a scan that are not touched.
LEMMA UnreadStays ==
  ASSUME NEW m, NEW s, NEW t, NEW st, NEW ids, NEW d, NEW sl, NEW to, NEW others, NEW e,
         Unread(m, s, st, ids, d, sl), t.tests = s.tests, t.name = s.name, to # "tests",
         to \in Untested => st \in Untested /\ \A b \in e : ~OfResults(b.req)
  PROVE  Unread(m, t, to, others, e, sl)
BY DEF Unread, OnceEach

\* Of an action that leaves the tests alone.
LEMMA PlainOwn ==
  ASSUME Shape, Shape', OwnInv, step \in ObdSteps, step' \in ObdSteps, car' = car, slow' = slow,
         UNCHANGED surveyRest, due' \subseteq due \cup {Mine},
         ScanIsOwn(car.spec, scan'), scan'.tests = scan.tests,
         step' # "tests", step \in Untested \/ step' \notin Untested
  PROVE  OwnInv'
<1> DEFINE m == car.spec[scan.name]
           d == DebtsOf(due, scan.name)
           e == DebtsOf(due', scan.name)
<1>1. Unread(m, scan, step, todo, d, slow) BY DEF OwnInv
<1>2. scan'.name = scan.name BY InHand DEF surveyRest
<1>3. step' \in Untested => step \in Untested /\ \A b \in e : ~OfResults(b.req)
  <2>1. e \subseteq d \cup {Mine} /\ (step \in Untested => ~OfResults(Mine.req)) BY DebtsLater
  <2> HIDE DEF e, d
  <2> QED BY <1>1, <2>1 DEF Unread
<1> HIDE DEF m, d, e
<1>4. Unread(m, scan', step', todo', e, slow) BY <1>1, <1>2, <1>3, UnreadStays
<1> QED BY <1>4, ObdOwn DEF m, e

\* A note, or what the bitmap lists, is not about what the car says of itself.
LEMMA NotedOwn ==
  ASSUME Shape, OwnInv, step \in ObdSteps, NEW r
  PROVE  /\ ScanIsOwn(car.spec, scan) /\ ScanIsOwn(car.spec, Noted(r))
         /\ \A x : ScanIsOwn(car.spec, [scan EXCEPT !.supported = x])
         /\ Noted(r).tests = scan.tests /\ \A x : [scan EXCEPT !.supported = x].tests = scan.tests
         /\ IsScan(Noted(r), scan.name)
<1>1. ScanIsOwn(car.spec, scan) BY DEF OwnInv
<1>2. IsScan(scan, scan.name) /\ scan.name = Head(left) /\ OwnFields \cup {"supported"} \subseteq DOMAIN scan
  BY HandIs DEF IsScan, OwnFields
<1>3. \A field \in OwnFields : Noted(r)[field] = scan[field]
  <2>1. OwnFields \subseteq DOMAIN scan \ {"unsupported", "errors"} BY <1>2 DEF OwnFields
  <2> QED BY <2>1, NotedIs DEF Shape
<1>4. \A x : \A field \in OwnFields : [scan EXCEPT !.supported = x][field] = scan[field]
  BY <1>2 DEF OwnFields
<1>5. ScanIsOwn(car.spec, Noted(r)) BY <1>1, <1>3, SameScan
<1>6. \A x : ScanIsOwn(car.spec, [scan EXCEPT !.supported = x])
  <2> TAKE x
  <2> DEFINE t == [scan EXCEPT !.supported = x]
  <2>1. \A field \in OwnFields : t[field] = scan[field] BY <1>4
  <2> HIDE DEF t
  <2>2. ScanIsOwn(car.spec, t) BY <1>1, <2>1, SameScan
  <2> QED BY <2>2 DEF t
<1> QED BY <1>1, <1>2, <1>3, <1>4, <1>5, <1>6, NotedIs DEF OwnFields, Shape

\* The walks: they note what there is to ask for, and nothing that it says.
LEMMA WalksOwn ==
  ASSUME Shape, Shape', OwnInv, NEW r \in Replies, Taken(r), Supported(r) \/ Walk(r) \/ WalkFrame(r)
  PROVE  OwnInv'
<1>1. /\ step \in {"supported", "walk", "walk2"} /\ step \in ObdSteps /\ car' = car /\ UNCHANGED surveyRest /\ Asking
  BY DEF Supported, Walk, WalkFrame, Taken, ObdSteps, Asking
<1>2. due' \subseteq due \cup {Mine} /\ slow' = slow BY <1>1, TakenIs
<1>3. \/ scan' = Noted(r) \/ scan' = scan \/ \E x : scan' = [scan EXCEPT !.supported = x]
  BY DEF Supported, Walk, WalkFrame, WalkFor, NextBitmap
<1>4. ScanIsOwn(car.spec, scan') /\ scan'.tests = scan.tests BY <1>1, <1>3, NotedOwn
<1>5. /\ step \in {"supported", "walk"} => step' \in {"supported", "walk", "pids", "stored"}
      /\ step = "walk2" => step' \in {"walk2", "frames", "moduleVin"}
  <2>1. CASE Supported(r) BY <2>1 DEF Supported, NextBitmap, Go
  <2>2. CASE Walk(r)
    <3>1. \/ step' = "stored" \/ step' = step \/ \E ids : Loop("pids", ids)
      BY <2>2, AfterIs DEF Walk, WalkFor, NextBitmap, Go
    <3> QED BY <2>2, <3>1, LoopIs, AfterIs DEF Walk
  <2>3. CASE WalkFrame(r)
    <3>1. \/ step' = "moduleVin" \/ step' = step \/ \E ids : Loop("frames", ids)
      BY <2>3, AfterIs DEF WalkFrame, WalkFor, NextBitmap, Go
    <3> QED BY <2>3, <3>1, LoopIs, AfterIs DEF WalkFrame
  <2> QED BY <2>1, <2>2, <2>3 DEF Supported, Walk, WalkFrame
<1>6. step' \in ObdSteps BY <1>1, <1>5 DEF ObdSteps
<1>7. step' # "tests" /\ (step \in Untested \/ step' \notin Untested) BY <1>1, <1>5 DEF Untested
<1> QED BY <1>1, <1>2, <1>4, <1>6, <1>7, PlainOwn

LEMMA LiveValue ==
  ASSUME Shape, step = "pids", NEW r \in Replies, Echoed(r, Width[Min(todo)])
  PROVE  LET pid == Min(todo)
             pids == car.spec[scan.name].pids
         IN  pid \in DOMAIN pids /\ DecodePid(pid, Data(r)) = Shown(pid, pids[pid])
<1> DEFINE pid == Min(todo)
           m == car.spec[scan.name]
           ext == (session[Module] = 3)
           e == EncodePid(pid, m.pids[pid])
<1>1. Asking /\ step \in ObdSteps BY DEF Asking, ObdSteps
<1>2. pid \in KnownPids BY NextIs DEF Shape
<1>3. Current = Request(1, pid) /\ Current.svc = 1 /\ Current \in Requests /\ Positive(Current) = <<65, pid>>
  <2>1. Current = Request(1, pid) /\ Current \in Requests BY <1>1, CurrentOn, CurrentIs DEF Shape
  <2>2. Current.svc = 1 /\ Current.id = pid BY <2>1, RequestIs
  <2> HIDE DEF pid
  <2> QED BY <2>1, <2>2, PositiveIs
<1>4. Width[pid] \in Nat BY <1>2 DEF KnownPids, Width, Trims, Words
<1>5. Module = scan.name /\ IsModule(m) BY <1>1, HandIs
<1>6. r.data = Handle(m, ext, Current)
  <2>1. Current.svc \in Echoing BY <1>3 DEF Echoing
  <2>2. r.data = Handle(car.spec[Module], session[Module] = 3, Current) BY <1>1, <1>4, <2>1, EchoedIs
  <2> QED BY <2>2, <1>5
<1>7. r.data # << >>
  <2>1. r.how = "bytes" BY <1>1, <1>3, <1>4, EchoedIs DEF Echoing
  <2> QED BY <2>1, ReplyIs
<1> HIDE DEF pid, m, ext
<1>8. pid \in DOMAIN m.pids /\ r.data = Positive(Current) \o e
  <2>1. Handle(m, ext, Request(1, pid)) = IF pid \in DOMAIN m.pids THEN <<65, pid>> \o EncodePid(pid, m.pids[pid]) ELSE << >>
    BY <1>2, PidAnswer
  <2> QED BY <2>1, <1>3, <1>6, <1>7
<1>9. InRange(pid, m.pids[pid]) BY <1>5, <1>8, ModuleIs
<1>10. e \in Seq(Int) /\ DecodePid(pid, e) = Shown(pid, m.pids[pid]) BY <1>2, <1>9, EncodePidIs
<1> HIDE DEF e
<1>11. Data(r) = e BY <1>3, <1>8, <1>10, BodyIs
<1> QED BY <1>8, <1>10, <1>11 DEF pid, m

LEMMA FrameValue ==
  ASSUME Shape, step = "frames", NEW r \in Replies, Echoed(r, Width[Min(todo)])
  PROVE  LET pid == Min(todo)
             pids == car.spec[scan.name].frame
         IN  pid \in DOMAIN pids /\ DecodePid(pid, Data(r)) = Shown(pid, pids[pid])
<1> DEFINE pid == Min(todo)
           m == car.spec[scan.name]
           ext == (session[Module] = 3)
           e == EncodePid(pid, m.frame[pid])
<1>1. Asking /\ step \in ObdSteps BY DEF Asking, ObdSteps
<1>2. pid \in KnownPids BY NextIs DEF Shape
<1>3. Current = Request(2, pid) /\ Current.svc = 2 /\ Current \in Requests /\ Positive(Current) = <<66, pid, 0>>
  <2>1. Current = Request(2, pid) /\ Current \in Requests BY <1>1, CurrentOn, CurrentIs DEF Shape
  <2>2. Current.svc = 2 /\ Current.id = pid BY <2>1, RequestIs
  <2> HIDE DEF pid
  <2> QED BY <2>1, <2>2, PositiveIs
<1>4. Width[pid] \in Nat BY <1>2 DEF KnownPids, Width, Trims, Words
<1>5. Module = scan.name /\ IsModule(m) BY <1>1, HandIs
<1>6. r.data = Handle(m, ext, Current)
  <2>1. Current.svc \in Echoing BY <1>3 DEF Echoing
  <2>2. r.data = Handle(car.spec[Module], session[Module] = 3, Current) BY <1>1, <1>4, <2>1, EchoedIs
  <2> QED BY <2>2, <1>5
<1>7. r.data # << >>
  <2>1. r.how = "bytes" BY <1>1, <1>3, <1>4, EchoedIs DEF Echoing
  <2> QED BY <2>1, ReplyIs
<1> HIDE DEF pid, m, ext
<1>8. pid \in DOMAIN m.frame /\ r.data = Positive(Current) \o e
  <2>1. Handle(m, ext, Request(2, pid)) = IF pid \in DOMAIN m.frame THEN <<66, pid, 0>> \o EncodePid(pid, m.frame[pid]) ELSE << >>
    BY <1>2, FrameAnswer
  <2> QED BY <2>1, <1>3, <1>6, <1>7
<1>9. InRange(pid, m.frame[pid]) BY <1>5, <1>8, ModuleIs
<1>10. e \in Seq(Int) /\ DecodePid(pid, e) = Shown(pid, m.frame[pid]) BY <1>2, <1>9, EncodePidIs
<1> HIDE DEF e
<1>11. Data(r) = e BY <1>3, <1>8, <1>10, BodyIs
<1> QED BY <1>8, <1>10, <1>11 DEF pid, m

LEMMA PidOwn ==
  ASSUME Shape, Shape', OwnInv, NEW r \in Replies, Taken(r), ReadLive(r) \/ ReadFrame(r)
  PROVE  OwnInv'
<1>0. PICK s \in {"pids", "frames"}, field \in ValueFields :
         ReadPid(r, s, field) /\ (s = "pids" => field = "readings") /\ (s = "frames" => field = "frame")
  BY DEF ReadLive, ReadFrame, ValueFields
<1>1. step = s /\ step \in ObdSteps /\ car' = car /\ UNCHANGED surveyRest /\ Asking
  BY <1>0 DEF ReadPid, Taken, ObdSteps, Asking
<1>2. due' \subseteq due \cup {Mine} /\ slow' = slow BY <1>1, TakenIs
<1> DEFINE pid == Min(todo)
           value == DecodePid(pid, Data(r))
<1>3. ScanIsOwn(car.spec, scan) /\ IsScan(scan, scan.name) BY <1>1, HandIs DEF OwnInv
<1>4. step' \in {s, After(s)} BY <1>0, <1>1 DEF ReadPid, Go
<1>5. CASE r.how = "fault"
  <2>1. scan' = [Noted(r) EXCEPT ![field] = << >>] BY <1>0, <1>5 DEF ReadPid
  <2>2. ScanIsOwn(car.spec, Noted(r)) /\ IsScan(Noted(r), scan.name) /\ Noted(r).tests = scan.tests BY <1>1, NotedOwn
  <2>3. ScanIsOwn(car.spec, scan') BY <2>1, <2>2, ClearedOwn
  <2>4. scan'.tests = scan.tests BY <2>1, <2>2 DEF IsScan, ValueFields
  <2>5. step' \in ObdSteps /\ step' # "tests" /\ (step \in Untested \/ step' \notin Untested)
    BY <1>1, <1>4, AfterIs DEF ObdSteps, Untested
  <2> QED BY <1>1, <1>2, <2>3, <2>4, <2>5, PlainOwn
<1>6. CASE r.how # "fault"
  <2>1. scan' = IF Echoed(r, Width[pid]) THEN [scan EXCEPT ![field] = With(@, pid, value)] ELSE scan
    BY <1>0, <1>6 DEF ReadPid
  <2>2. Echoed(r, Width[pid]) =>
          LET pids == IF field = "frame" THEN car.spec[scan.name].frame ELSE car.spec[scan.name].pids
          IN  pid \in DOMAIN pids /\ value = Shown(pid, pids[pid])
    BY <1>0, <1>1, LiveValue, FrameValue DEF ValueFields
  <2> HIDE DEF pid, value
  <2>3. ScanIsOwn(car.spec, scan')
    <3>1. CASE Echoed(r, Width[pid]) BY <2>1, <2>2, <3>1, <1>3, ValueOwn
    <3>2. CASE ~Echoed(r, Width[pid]) BY <2>1, <3>2, <1>3
    <3> QED BY <3>1, <3>2
  <2>4. scan'.tests = scan.tests BY <2>1, <1>3 DEF IsScan, ValueFields
  <2>5. step' \in ObdSteps /\ step' # "tests" /\ (step \in Untested \/ step' \notin Untested)
    BY <1>1, <1>4, AfterIs DEF ObdSteps, Untested
  <2> QED BY <1>1, <1>2, <2>3, <2>4, <2>5, PlainOwn
<1> QED BY <1>5, <1>6

\* What counts as a reply to a service: nothing after its byte, or an answer of the module to a
\* request for that service, this one or one before.
Heard(d, ext) ==
  /\ Module \in DOMAIN car.spec /\ IsModule(car.spec[Module])
  /\ \E b \in Requests :
       /\ b = Current \/ \E x \in due : x.at = Module /\ x.req = b
       /\ b.svc = Current.svc /\ d = Handle(car.spec[Module], ext, b) /\ d # << >>
LEMMA HeardIs ==
  ASSUME Shape, Asking, NEW r \in Replies, Exchanged(r) = "reply"
  PROVE  /\ r.how = "bytes" /\ r.data # << >> /\ r.data[1] = Current.svc + 64
         /\ r.data = <<Current.svc + 64>> \/ \E ext \in BOOLEAN : Heard(r.data, ext)
<1> DEFINE c == Current
           d == r.data
<1>1. c \in Requests BY CurrentIs DEF Shape
<1>2. r.how = "bytes" /\ d[1] # 127 /\ d[1] = c.svc + 64
  <2>1. r.how \in {"fault", "silence", "bytes"} BY DEF Replies, Failing, Bytes
  <2> QED BY <2>1 DEF Exchanged
<1>3. ~\E nrc \in {17, 34} : d = Refusal(c, nrc)
  <2>1. \A nrc : Refusal(c, nrc)[1] = 127 BY DEF Refusal
  <2> QED BY <1>2, <2>1
<1>4. d # << >> BY <1>2, ReplyIs
<1>5. ASSUME d # <<c.svc + 64>>
      PROVE  \E ext \in BOOLEAN : Heard(d, ext)
  <2>0. PICK ext \in BOOLEAN : ext = (session[Module] = 3) OBVIOUS
  <2>1. Module \in DOMAIN car.spec /\ \E b : /\ b = c \/ \E x \in due : x.at = Module /\ x.req = b
                                             /\ d = Handle(car.spec[Module], ext, b)
    BY <1>2, <1>3, <1>5, <2>0, ReplyIs
  <2>2. IsModule(car.spec[Module]) BY <2>1, CarIs DEF Shape, Tallies
  <2>3. PICK b : (b = c \/ \E x \in due : x.at = Module /\ x.req = b) /\ d = Handle(car.spec[Module], ext, b)
    BY <2>1
  <2>4. b \in Requests
    <3>1. \A x \in due : x.req \in Requests BY DEF Shape, Tallies
    <3> QED BY <1>1, <2>3, <3>1
  <2>5. d[1] = b.svc + 64
    <3> DEFINE m == car.spec[Module]
    <3>1. IsModule(m) /\ d = Handle(m, ext, b) BY <2>2, <2>3
    <3> HIDE DEF d, m
    <3>2. d[1] = b.svc + 64 \/ d[1] = 127 \/ d = << >> BY <2>4, <3>1, Answered
    <3> QED BY <3>2, <1>2, <1>4
  <2>6. b.svc = c.svc
    <3>1. b.svc \in Int /\ c.svc \in Int BY <1>1, <2>4 DEF Requests, Services
    <3> QED BY <3>1, <2>5, <1>2
  <2> QED BY <1>4, <2>1, <2>2, <2>3, <2>4, <2>6 DEF Heard
<1> QED BY <1>2, <1>4, <1>5

\* A list of codes is the module's own or empty.
LEMMA CodesHeard ==
  ASSUME Shape, step \in CodeFields, NEW r \in Replies, Exchanged(r) = "reply"
  PROVE  ParseDtcs(r.data) \in {<< >>, car.spec[scan.name][step]}
<1>1. Asking /\ step \in ObdSteps BY DEF Asking, ObdSteps, CodeFields
<1>2. Module = scan.name BY <1>1, HandIs
<1>3. r.data = <<Current.svc + 64>> \/ \E ext \in BOOLEAN : Heard(r.data, ext) BY <1>1, HeardIs
<1>4. CASE r.data = <<Current.svc + 64>> BY <1>4, ParsedNone
<1>5. CASE \E ext \in BOOLEAN : Heard(r.data, ext)
  <2> DEFINE m == car.spec[Module]
             d == r.data
  <2>1. PICK ext \in BOOLEAN : Heard(d, ext) BY <1>5
  <2>2. IsModule(m) BY <2>1 DEF Heard
  <2>3. PICK b \in Requests : /\ b = Current \/ \E x \in due : x.at = Module /\ x.req = b
                              /\ b.svc = Current.svc /\ d = Handle(m, ext, b)
    BY <2>1 DEF Heard
  <2>4. b = Current
    <3>1. /\ step = "stored" => Current.svc = 3
          /\ step = "pending" => Current.svc = 7
          /\ step = "permanent" => Current.svc = 10
      BY CurrentOn, RequestIs
    <3>2. Current.id = 0 /\ Current.svc \in {3, 7, 10} BY <3>1, CurrentOn, RequestIs DEF CodeFields
    <3>3. \A x \in due : x.req.svc \in {3, 7, 10} => x.req.id = 0 BY DEF Shape, Tallies, Unspecific
    <3>4. b.svc = Current.svc /\ b.id = Current.id BY <2>3, <3>2, <3>3
    <3>5. Current \in Requests BY <1>1, CurrentIs DEF Shape
    <3> QED BY <3>4, <3>5 DEF Requests
  <2> HIDE DEF m, d
  <2>5. \E service \in Nat : d = DtcResponse(service, m[step])
    <3>1. CASE step = "stored" BY <2>3, <2>4, <3>1, CurrentOn, CodesAnswer
    <3>2. CASE step = "pending" BY <2>3, <2>4, <3>2, CurrentOn, CodesAnswer
    <3>3. CASE step = "permanent" BY <2>3, <2>4, <3>3, CurrentOn, CodesAnswer
    <3> QED BY <3>1, <3>2, <3>3 DEF CodeFields
  <2>6. m[step] \in Seq(Codes \ {Padding}) BY <2>2, ModuleIs DEF CodeFields
  <2>7. ParseDtcs(d) = m[step] BY <2>5, <2>6, ParsedTheorem
  <2> QED BY <1>2, <2>7 DEF m, d
<1> QED BY <1>3, <1>4, <1>5

LEMMA CodesOwnStep ==
  ASSUME Shape, Shape', OwnInv, NEW r \in Replies, Taken(r), ReadCodes(r)
  PROVE  OwnInv'
<1>1. step \in CodeFields /\ step \in ObdSteps /\ car' = car /\ UNCHANGED surveyRest /\ Asking
  BY DEF ReadCodes, ObdSteps, CodeFields, Asking, Taken
<1>2. due' \subseteq due \cup {Mine} /\ slow' = slow BY <1>1, TakenIs
<1>3. ScanIsOwn(car.spec, scan) /\ IsScan(scan, scan.name) BY <1>1, HandIs DEF OwnInv
<1>4. ScanIsOwn(car.spec, scan') /\ scan'.tests = scan.tests
  <2>1. CASE Exchanged(r) = "reply"
    <3>1. scan' = [scan EXCEPT ![step] = ParseDtcs(r.data)] BY <2>1 DEF ReadCodes
    <3>2. ParseDtcs(r.data) \in {<< >>, car.spec[scan.name][step]} BY <1>1, <2>1, CodesHeard
    <3>3. ScanIsOwn(car.spec, scan') BY <1>1, <1>3, <3>1, <3>2, CodesOwn
    <3>4. scan'.tests = scan.tests BY <1>1, <1>3, <3>1 DEF IsScan, CodeFields
    <3> QED BY <3>3, <3>4
  <2>2. CASE Exchanged(r) # "reply"
    <3>1. scan' = scan \/ scan' = Noted(r) BY <2>2 DEF ReadCodes
    <3> QED BY <1>1, <3>1, NotedOwn
  <2> QED BY <2>1, <2>2
<1>5. /\ step = "stored" => step' = "pending"
      /\ step = "pending" => step' = "permanent"
      /\ step = "permanent" => step' = "walk6"
  BY DEF ReadCodes, Go
<1>6. step' \in ObdSteps /\ step' # "tests" /\ step \in Untested
  BY <1>1, <1>5 DEF ObdSteps, Untested, CodeFields
<1> QED BY <1>1, <1>2, <1>4, <1>6, PlainOwn

LEMMA WalkTestsOwn ==
  ASSUME Shape, Shape', OwnInv, NEW r \in Replies, Taken(r), WalkTests(r)
  PROVE  OwnInv'
<1>1. step = "walk6" /\ step \in ObdSteps /\ car' = car /\ UNCHANGED surveyRest /\ Asking
  BY DEF WalkTests, ObdSteps, Asking, Taken
<1>2. due' \subseteq due \cup {Mine} /\ slow' = slow BY <1>1, TakenIs
<1>3. scan' = scan \/ scan' = Noted(r) BY DEF WalkTests, NextBitmap
<1>4. ScanIsOwn(car.spec, scan') /\ scan'.tests = scan.tests BY <1>1, <1>3, NotedOwn
<1>5. step' \in {"walk6", "tests", "info"}
  <2>1. \/ step' = "info" \/ step' = step \/ \E ids : Loop("tests", ids)
    BY DEF WalkTests, Go, NextBitmap
  <2> QED BY <1>1, <2>1, LoopIs, AfterIs
<1>6. step' \in ObdSteps BY <1>5 DEF ObdSteps
<1> DEFINE m == car.spec[scan.name]
           d == DebtsOf(due, scan.name)
           e == DebtsOf(due', scan.name)
<1>7. Unread(m, scan, step, todo, d, slow) BY <1>1 DEF OwnInv
<1>8. scan'.tests = << >> /\ scan'.name = scan.name
  <2>1. scan'.tests = << >> BY <1>1, <1>4, <1>7 DEF Unread, Untested
  <2> QED BY <2>1, <1>1, <1>6, InHand DEF surveyRest
<1>9. \A b \in e : ~OfResults(b.req)
  <2>1. e \subseteq d \cup {Mine} /\ ~OfResults(Mine.req) BY <1>1, <1>2, DebtsLater DEF Untested
  <2>2. \A b \in d : ~OfResults(b.req) BY <1>1, <1>7 DEF Unread, Untested
  <2> HIDE DEF d, e
  <2> QED BY <2>1, <2>2
<1> HIDE DEF m, d, e
<1>10. OnceEach(m, scan') BY <1>8, KeptNone DEF OnceEach
<1>11. Awaited(m, scan', todo', e) BY <1>8, <1>9, KeptNone DEF Awaited
<1>12. Unread(m, scan', step', todo', e, slow)
  <2>1. scan'.tests \in Seq(Range(m.tests)) BY <1>8
  <2> QED BY <1>8, <1>9, <1>10, <1>11, <2>1 DEF Unread
<1> QED BY <1>1, <1>2, <1>4, <1>6, <1>12, ObdOwn DEF m, e

LEMMA Sized ==
  ASSUME NEW h \in Seq(Int), NEW e \in Seq(Int)
  PROVE  Len(h \o e) = Len(h) + Len(e)
OBVIOUS

LEMMA ShortIs ==
  ASSUME NEW d, Len(d) \in 1 .. 9
  PROVE  TestGroups(d) = << >>
<1>1. (Len(d) - 1) \div 9 = 0
  <2>1. \A l \in 1 .. 9 : (l - 1) \div 9 = 0 OBVIOUS
  <2> DEFINE l == Len(d)
  <2>2. l \in 1 .. 9 OBVIOUS
  <2> HIDE DEF l
  <2>3. (l - 1) \div 9 = 0 BY <2>1, <2>2
  <2> QED BY <2>3 DEF l
<1> DEFINE n == (Len(d) - 1) \div 9
<1>2. TestGroups(d) =
        [i \in 1 .. n |->
           [monitor |-> d[1 + 9 * (i - 1) + 1], test |-> d[1 + 9 * (i - 1) + 2],
            value |-> Word(<<d[1 + 9 * (i - 1) + 4], d[1 + 9 * (i - 1) + 5]>>),
            min |-> Word(<<d[1 + 9 * (i - 1) + 6], d[1 + 9 * (i - 1) + 7]>>),
            max |-> Word(<<d[1 + 9 * (i - 1) + 8], d[1 + 9 * (i - 1) + 9]>>)]]
  BY DEF TestGroups
<1>3. n = 0 BY <1>1
<1> HIDE DEF n
<1> QED BY <1>2, <1>3

\* Results are of one monitor, which is no bitmap.
LEMMA GroupsAre ==
  ASSUME NEW m, IsModule(m), NEW ext, NEW req \in Requests, req.svc = 6, Handle(m, ext, req) # << >>
  PROVE  LET g == TestGroups(Handle(m, ext, req))
         IN  g = << >> \/ (g = Kept(m.tests, OfMonitor(m, req.id)) /\ req.id \in Byte /\ req.id % 32 # 0)
<1> DEFINE d == Handle(m, ext, req)
           groups == Kept(m.tests, OfMonitor(m, req.id))
           blocks == [i \in DOMAIN groups |-> TestBytes(groups[i])]
<1>1. \/ \E items : d = <<70, req.id>> \o SupportBitmap(items, req.id)
      \/ groups # << >> /\ d = << 70 >> \o Joined(blocks, 9)
  BY TestAnswer
<1>2. CASE \E items : d = <<70, req.id>> \o SupportBitmap(items, req.id)
  <2>1. PICK items : d = <<70, req.id>> \o SupportBitmap(items, req.id) BY <1>2
  <2> DEFINE h == <<70, req.id>>
             e == SupportBitmap(items, req.id)
  <2>2. e \in Seq(Int) /\ Len(e) = 4 BY BitmapIs
  <2>3. h \in Seq(Int) /\ Len(h) = 2 /\ h # << >> BY DEF Requests
  <2> HIDE DEF h, e
  <2>4. Len(h \o e) = 6
    <3>1. Len(h \o e) = Len(h) + Len(e) BY <2>2, <2>3, Sized
    <3> QED BY <3>1, <2>2, <2>3
  <2>5. Len(d) \in 1 .. 9 BY <2>1, <2>4 DEF h, e
  <2> HIDE DEF d
  <2> QED BY <2>5, ShortIs DEF d
<1>3. CASE groups # << >> /\ d = << 70 >> \o Joined(blocks, 9)
  <2>1. m.tests \in Seq(Tests) BY ModuleIs
  <2>2. groups \in Seq(Tests \cap OfMonitor(m, req.id)) BY <2>1, KeptFacts
  <2> HIDE DEF groups
  <2>3. groups \in Seq(Tests) /\ groups[1] \in Tests /\ groups[1] \in OfMonitor(m, req.id)
    <3>1. groups \in Seq(Tests) BY <2>2
    <3>2. 1 \in 1 .. Len(groups) BY <1>3, <2>2
    <3> QED BY <3>1, <3>2, <2>2
  <2>4. req.id \in Byte /\ req.id % 32 # 0 BY <2>3 DEF Tests, OfMonitor, Listable
  <2>5. TestGroups(<< 70 >> \o Joined(blocks, 9)) = groups BY <2>3, TestsBack
  <2> HIDE DEF blocks
  <2> QED BY <1>3, <2>4, <2>5 DEF groups
<1> QED BY <1>1, <1>2, <1>3

\* What is taken for a reply, as the answer to a request, answers one for this service.
LEMMA AnswerHeard ==
  ASSUME Shape, Asking, step \in ObdSteps, NEW r, NEW req \in Requests, r = Bytes(Answer(req)),
         Exchanged(r) = "reply"
  PROVE  /\ req.svc = Current.svc /\ r.data # << >>
         /\ \E ext \in BOOLEAN : r.data = Handle(car.spec[scan.name], ext, req)
<1> DEFINE m == car.spec[scan.name]
           d == r.data
<1>1. Module = scan.name /\ scan.name \in DOMAIN car.spec /\ IsModule(m) BY HandIs
<1>2. PICK ext \in BOOLEAN : ext = (session[Module] = 3) OBVIOUS
<1>3. d = Answer(req) /\ Answer(req) = Handle(m, ext, req) BY <1>1, <1>2 DEF Answer, Bytes
<1>4. r.how = "bytes" /\ d # << >> /\ d[1] # 127 /\ d[1] = Current.svc + 64
  <2>1. r.how \in {"silence", "bytes"} /\ (r.how = "bytes" => d # << >>) BY DEF Bytes
  <2> QED BY <2>1 DEF Exchanged
<1>5. d = Handle(m, ext, req) BY <1>3
<1> HIDE DEF d, m
<1>6. d[1] = req.svc + 64 \/ d[1] = 127 \/ d = << >> BY <1>1, <1>5, Answered
<1>7. req.svc = Current.svc
  <2>1. Current \in Requests BY CurrentIs DEF Shape
  <2>2. req.svc \in Int /\ Current.svc \in Int BY <2>1 DEF Requests, Services
  <2> QED BY <2>2, <1>4, <1>6
<1> QED BY <1>4, <1>5, <1>7 DEF d, m

\* The results that a reply holds are those of one monitor. If the module put no such request
\* off, they are not in the scan yet, and will not come again.
LEMMA TestsHeard ==
  ASSUME Shape, OwnInv, step = "tests", NEW r \in Replies, Taken(r), Exchanged(r) = "reply"
  PROVE  LET m == car.spec[scan.name]
             g == TestGroups(r.data)
         IN  \/ g = << >>
             \/ \E k : /\ g = Kept(m.tests, OfMonitor(m, k))
                       /\ scan.name \notin slow =>
                            /\ Kept(scan.tests, OfMonitor(m, k)) = << >> /\ k \notin todo \ {Min(todo)}
                            /\ \A b \in DebtsOf(due', scan.name) : OfResults(b.req) => b.req.id # k
<1> DEFINE m == car.spec[scan.name]
           d == DebtsOf(due, scan.name)
           e == DebtsOf(due', scan.name)
           g == TestGroups(r.data)
           c == Current
           Fresh(k) == scan.name \notin slow =>
                         /\ Kept(scan.tests, OfMonitor(m, k)) = << >> /\ k \notin todo \ {Min(todo)}
                         /\ \A b \in e : OfResults(b.req) => b.req.id # k
<1>1. Asking /\ step \in ObdSteps BY DEF Asking, ObdSteps
<1>2. Module = scan.name /\ IsModule(m) BY <1>1, HandIs
<1>3. c \in Requests /\ c.svc = 6 /\ c.id = Min(todo) BY <1>1, CurrentIs, CurrentOn, RequestIs DEF Shape
<1>4. Min(todo) \in todo /\ Min(todo) % 32 # 0 BY NextIs DEF Shape
<1>5. scan.name \notin slow => Awaited(m, scan, todo, d)
  <2>1. Unread(m, scan, step, todo, d, slow) BY <1>1 DEF OwnInv
  <2> QED BY <2>1 DEF Unread
<1>6. ASSUME NEW req \in Requests, r = Bytes(Answer(req))
      PROVE  req.svc = 6 /\ (g = << >> \/ (g = Kept(m.tests, OfMonitor(m, req.id)) /\ OfResults(req)))
  <2>1. /\ req.svc = 6 /\ r.data # << >>
        /\ \E ext \in BOOLEAN : r.data = Handle(m, ext, req)
    BY <1>1, <1>3, <1>6, AnswerHeard
  <2> HIDE DEF m
  <2> QED BY <1>2, <2>1, GroupsAre DEF OfResults
<1>7. CASE InTurn(r)
  <2>1. r = Bytes(Answer(c)) /\ due' \subseteq due BY <1>7 DEF InTurn
  <2>2. g = << >> \/ g = Kept(m.tests, OfMonitor(m, c.id)) BY <1>3, <1>6, <2>1
  <2>3. e \subseteq d BY <2>1 DEF DebtsOf
  <2> HIDE DEF m, d, e, g, c
  <2>4. Fresh(c.id) BY <1>3, <1>4, <1>5, <2>3 DEF Awaited
  <2> HIDE DEF Fresh
  <2>5. g = << >> \/ \E k : g = Kept(m.tests, OfMonitor(m, k)) /\ Fresh(k) BY <2>2, <2>4
  <2> QED BY <2>5 DEF Fresh, m, g, e
<1>8. CASE r \in Failing
  <2>1. \A nrc : Refusal(c, nrc)[1] = 127 BY DEF Refusal
  <2>2. r.data = <<c.svc + 64>>
    <3>1. r.how = "bytes" /\ r.data[1] # 127 BY <1>1, <1>3, HeardIs
    <3>2. \A x : Bytes(x).data = x BY DEF Bytes
    <3>3. Bytes(<< >>).how # "bytes" BY DEF Bytes
    <3> QED BY <1>8, <2>1, <3>1, <3>2, <3>3 DEF Failing
  <2>3. Len(<<c.svc + 64>>) = 1 OBVIOUS
  <2>4. Len(r.data) \in 1 .. 9 BY <2>2, <2>3
  <2>5. g = << >> BY <2>4, ShortIs
  <2> QED BY <2>5
<1>9. CASE \E b \in Late : r = Bytes(Answer(b.req)) /\ due' = (due \ {x \in Late : x.nth <= b.nth}) \cup Debt
  <2>1. PICK b \in Late : r = Bytes(Answer(b.req)) /\ due' = (due \ {x \in Late : x.nth <= b.nth}) \cup Debt
    BY <1>9
  <2>2. b \in d BY <1>2 DEF Late, DebtsOf
  <2>3. b.req \in Requests /\ b.nth \in Nat BY DEF Late, Shape, Tallies
  <2>4. b.req.svc = 6 /\ (g = << >> \/ (g = Kept(m.tests, OfMonitor(m, b.req.id)) /\ OfResults(b.req)))
    BY <1>6, <2>1, <2>3
  <2>5. b \notin due' \/ b = Mine
    <3>1. b \in {x \in Late : x.nth <= b.nth} BY <2>3
    <3> QED BY <2>1, <3>1, DebtIs
  <2>6. e \subseteq d \cup {Mine}
    <3>1. due' \subseteq due \cup {Mine} BY <2>1, DebtIs
    <3> QED BY <3>1 DEF DebtsOf
  <2>7. Mine.req = c BY DEF Mine
  <2>8. \A x \in e : x.req \in Requests
    <3>1. \A x \in due' : x.req \in Requests BY <1>1, TakenIs
    <3> QED BY <3>1 DEF DebtsOf
  <2>9. b \in e => b = Mine BY <2>5 DEF DebtsOf
  <2>10. CASE OfResults(b.req)
    <3> HIDE DEF m, d, e, g, c
    <3>1. ASSUME scan.name \notin slow
          PROVE  /\ Kept(scan.tests, OfMonitor(m, b.req.id)) = << >> /\ b.req.id \notin todo
                 /\ \A x \in e : OfResults(x.req) => x.req.id # b.req.id
      <4>1. Kept(scan.tests, OfMonitor(m, b.req.id)) = << >> /\ b.req.id \notin todo
        BY <1>5, <2>2, <2>10, <3>1 DEF Awaited
      <4>2. b # Mine BY <1>3, <1>4, <2>7, <4>1
      <4>3. ASSUME NEW x \in e, OfResults(x.req), x.req.id = b.req.id
            PROVE  FALSE
        <5>1. x # Mine BY <1>3, <1>4, <2>7, <4>1, <4>3
        <5>2. x \in d BY <2>6, <5>1
        <5>3. x.req = b.req BY <2>3, <2>8, <2>10, <4>3 DEF Requests, OfResults
        <5>4. x = b BY <1>5, <2>2, <3>1, <4>3, <5>2, <5>3 DEF Awaited
        <5> QED BY <2>9, <4>2, <5>4
      <4> QED BY <4>1, <4>3
    <3>2. Fresh(b.req.id) BY <3>1
    <3> HIDE DEF Fresh
    <3>3. g = << >> \/ \E k : g = Kept(m.tests, OfMonitor(m, k)) /\ Fresh(k) BY <2>4, <3>2
    <3> QED BY <3>3 DEF Fresh, m, g, e
  <2>11. CASE ~OfResults(b.req) BY <2>4, <2>11
  <2> QED BY <2>10, <2>11
<1>10. InTurn(r) \/ r \in Failing \/ \E b \in Late : /\ r = Bytes(Answer(b.req))
                                                 /\ due' = (due \ {x \in Late : x.nth <= b.nth}) \cup Debt
  BY DEF Taken, Instead
<1> QED BY <1>7, <1>8, <1>9, <1>10

\* What is awaited after a step, x being the request of it and id what this asked for.
LEMMA AwaitedLater ==
  ASSUME NEW m, NEW s, NEW t, NEW ids, NEW id \in ids, NEW d, NEW x, NEW e, Awaited(m, s, ids, d),
         e \subseteq d \cup {x}, x.req.id = id,
         \A i : i \in ids \ {id} \/ (\E b \in e : OfResults(b.req) /\ b.req.id = i) =>
                 Kept(t.tests, OfMonitor(m, i)) = Kept(s.tests, OfMonitor(m, i))
  PROVE  Awaited(m, t, ids \ {id}, e)
<1>1. \A i \in ids \ {id} : Kept(t.tests, OfMonitor(m, i)) = << >> BY DEF Awaited
<1>2. ASSUME NEW b \in e, OfResults(b.req)
      PROVE  b.req.id \notin ids \ {id} /\ Kept(t.tests, OfMonitor(m, b.req.id)) = << >>
  <2>1. Kept(t.tests, OfMonitor(m, b.req.id)) = Kept(s.tests, OfMonitor(m, b.req.id)) BY <1>2
  <2>2. CASE b \in d BY <1>2, <2>1, <2>2 DEF Awaited
  <2>3. CASE b = x BY <1>2, <2>1, <2>3 DEF Awaited
  <2> QED BY <2>2, <2>3
<1>3. ASSUME NEW a \in e, NEW b \in e, OfResults(a.req), a.req = b.req
      PROVE  a = b
  <2>1. \A y \in d : OfResults(y.req) => y.req.id # id BY DEF Awaited
  <2>2. CASE a \in d /\ b \in d BY <1>3, <2>2 DEF Awaited
  <2>3. CASE a = x /\ b \in d BY <1>3, <2>1, <2>3
  <2>4. CASE b = x /\ a \in d BY <1>3, <2>1, <2>4
  <2>5. CASE a = x /\ b = x BY <2>5
  <2> QED BY <2>2, <2>3, <2>4, <2>5
<1> QED BY <1>1, <1>2, <1>3 DEF Awaited

LEMMA TestOwn ==
  ASSUME Shape, Shape', OwnInv, NEW r \in Replies, Taken(r), ReadTest(r)
  PROVE  OwnInv'
<1> DEFINE m == car.spec[scan.name]
           rest == todo \ {Min(todo)}
<1>1. step = "tests" /\ step \in ObdSteps /\ car' = car /\ UNCHANGED surveyRest /\ Asking
  BY DEF ReadTest, ObdSteps, Asking, Taken
<1>2. due' \subseteq due \cup {Mine} /\ slow' = slow BY <1>1, TakenIs
<1>3. ScanIsOwn(car.spec, scan) /\ IsScan(scan, scan.name) /\ IsModule(m) BY <1>1, HandIs DEF OwnInv
<1> DEFINE d == DebtsOf(due, scan.name)
           e == DebtsOf(due', scan.name)
<1>4. Unread(m, scan, step, todo, d, slow) BY <1>1 DEF OwnInv
<1>5. step' \in {"tests", "info"} /\ step' \in ObdSteps
  <2>1. step' \in {"tests", "info"} BY <1>1 DEF ReadTest, Go
  <2> QED BY <2>1 DEF ObdSteps
<1>6. Mine.req.svc = 6 /\ Mine.req.id = Min(todo) /\ e \subseteq d \cup {Mine}
  <2>1. Current.svc = 6 /\ Current.id = Min(todo) BY <1>1, CurrentOn, RequestIs
  <2> QED BY <2>1, <1>1, <1>2, DebtsLater DEF Mine
<1>7. Min(todo) \in todo BY <1>1, NextIs DEF Shape
<1>10. scan'.name = scan.name BY <1>1, <1>5, InHand DEF surveyRest
<1>8. CASE r.how = "fault"
  <2>1. step' = "info" /\ scan' = [Noted(r) EXCEPT !.tests = << >>] BY <1>8 DEF ReadTest, Go
  <2>2. ScanIsOwn(car.spec, Noted(r)) /\ IsScan(Noted(r), scan.name) BY <1>1, NotedOwn
  <2>3. ScanIsOwn(car.spec, scan') BY <2>1, <2>2, ClearedOwn
  <2>4. scan'.tests = << >> BY <2>1, <2>2 DEF IsScan
  <2>5. OnceEach(m, scan') BY <2>4, KeptNone DEF OnceEach
  <2>6. Unread(m, scan', step', todo', e, slow) BY <2>1, <2>4, <2>5 DEF Unread, Untested
  <2> QED BY <1>1, <1>2, <1>5, <2>1, <2>3, <2>6, ObdOwn
<1>9. CASE r.how # "fault"
  <2>1. step' = "tests" => todo' = rest BY <1>1, <1>9 DEF ReadTest, Go
  <2>2. scan' = IF Exchanged(r) = "reply" THEN [scan EXCEPT !.tests = @ \o TestGroups(r.data)] ELSE scan
    BY <1>9 DEF ReadTest
  <2>3. /\ ScanIsOwn(car.spec, scan') /\ scan'.tests \in Seq(Range(m.tests))
        /\ scan.name \notin slow => OnceEach(m, scan') /\ Awaited(m, scan', rest, e)
    <3>0. scan.tests \in Seq(Range(m.tests)) /\ (scan.name \notin slow => OnceEach(m, scan) /\ Awaited(m, scan, todo, d))
      BY <1>1, <1>4 DEF Unread
    <3>1. CASE \A field \in OwnFields : scan'[field] = scan[field]
      <4>1. ScanIsOwn(car.spec, scan') BY <3>1, <1>3, SameScan
      <4>2. scan'.tests = scan.tests BY <3>1 DEF OwnFields
      <4> HIDE DEF m, d, e
      <4>3. scan.name \notin slow => Awaited(m, scan', rest, e) BY <1>6, <1>7, <3>0, <4>2, AwaitedLater
      <4> QED BY <4>1, <4>2, <4>3, <3>0 DEF OnceEach
    <3>2. CASE Exchanged(r) = "reply"
      <4> DEFINE g == TestGroups(r.data)
                 Fresh(k) == scan.name \notin slow =>
                               /\ Kept(scan.tests, OfMonitor(m, k)) = << >> /\ k \notin rest
                               /\ \A b \in e : OfResults(b.req) => b.req.id # k
      <4>1. scan' = [scan EXCEPT !.tests = @ \o g] BY <2>2, <3>2
      <4>2. g = << >> \/ \E k : g = Kept(m.tests, OfMonitor(m, k)) /\ Fresh(k) BY <1>1, <3>2, TestsHeard
      <4> HIDE DEF g
      <4>3. CASE g = << >>
        <5>1. scan.tests \o << >> = scan.tests BY <3>0
        <5>2. scan' = [scan EXCEPT !.tests = scan.tests] BY <4>1, <4>3, <5>1
        <5>3. \A field \in OwnFields : scan'[field] = scan[field] BY <5>2, <1>3 DEF IsScan, OwnFields
        <5> QED BY <5>3, <3>1
      <4>4. CASE \E k : g = Kept(m.tests, OfMonitor(m, k)) /\ Fresh(k)
        <5>1. PICK k : g = Kept(m.tests, OfMonitor(m, k)) /\ Fresh(k) BY <4>4
        <5> DEFINE t == Joining(scan, m, k)
        <5>2. scan' = t BY <4>1, <5>1 DEF Joining
        <5>3. m.tests \in Seq(Tests) BY <1>3, ModuleIs
        <5>4. /\ ScanIsOwn(car.spec, t) /\ t.tests \in Seq(Range(m.tests)) /\ Apart(scan, t, m, k)
              /\ OnceEach(m, scan) /\ Kept(scan.tests, OfMonitor(m, k)) = << >> => OnceEach(m, t)
          <6>1. /\ ScanIsOwn(car.spec, scan) /\ IsScan(scan, scan.name)
                /\ car.spec[scan.name].tests \in Seq(Tests)
                /\ scan.tests \in Seq(Range(car.spec[scan.name].tests))
            BY <1>3, <3>0, <5>3
          <6> HIDE DEF t, m
          <6>2. ScanIsOwn(car.spec, Joining(scan, car.spec[scan.name], k)) BY <6>1, TestsOwn
          <6>3. Joining(scan, car.spec[scan.name], k).tests \in Seq(Range(car.spec[scan.name].tests)) BY <6>1, TestsOwn
          <6>4. Apart(scan, Joining(scan, car.spec[scan.name], k), car.spec[scan.name], k) BY <6>1, TestsOwn
          <6>5. OnceEach(car.spec[scan.name], scan) /\ Kept(scan.tests, OfMonitor(car.spec[scan.name], k)) = << >> =>
                  OnceEach(car.spec[scan.name], Joining(scan, car.spec[scan.name], k))
            BY <6>1, TestsOwn
          <6> QED BY <6>2, <6>3, <6>4, <6>5 DEF t, m
        <5> HIDE DEF t, m, d, e
        <5>5. ASSUME scan.name \notin slow
              PROVE  OnceEach(m, t) /\ Awaited(m, t, rest, e)
          <6>1. OnceEach(m, t) BY <3>0, <5>1, <5>4, <5>5
          <6>2. \A i : i \in rest \/ (\E b \in e : OfResults(b.req) /\ b.req.id = i) =>
                        Kept(t.tests, OfMonitor(m, i)) = Kept(scan.tests, OfMonitor(m, i))
            BY <5>1, <5>4, <5>5 DEF Apart
          <6>3. Awaited(m, scan, todo, d) BY <3>0, <5>5
          <6>4. Awaited(m, t, rest, e) BY <1>6, <1>7, <6>2, <6>3, AwaitedLater
          <6> QED BY <6>1, <6>4
        <5> QED BY <5>2, <5>4, <5>5
      <4> QED BY <4>2, <4>3, <4>4
    <3> QED BY <2>2, <3>1, <3>2 DEF OwnFields
  <2>4. Unread(m, scan', step', todo', e, slow)
    <3> HIDE DEF m, e
    <3>1. step' \notin Untested BY <1>5 DEF Untested
    <3> QED BY <2>1, <2>3, <3>1, <1>10 DEF Unread
  <2> QED BY <1>1, <1>2, <1>5, <2>3, <2>4, ObdOwn
<1> QED BY <1>8, <1>9

LEMMA ItemSupportOwn ==
  ASSUME Shape, Shape', OwnInv, NEW r \in Replies, Taken(r), ReadItemSupport(r)
  PROVE  OwnInv'
<1>1. step = "info" /\ step \in ObdSteps /\ car' = car /\ UNCHANGED surveyRest /\ Asking
  BY DEF ReadItemSupport, ObdSteps, Asking, Taken
<1>2. due' \subseteq due \cup {Mine} /\ slow' = slow BY <1>1, TakenIs
<1>3. scan' = scan \/ scan' = Noted(r) BY DEF ReadItemSupport
<1>4. ScanIsOwn(car.spec, scan') /\ scan'.tests = scan.tests BY <1>1, <1>3, NotedOwn
<1>5. step' \in {"items", "info", "walk2", "moduleVin"}
  <2>1. step' = "info" \/ step' = After("items") \/ \E ids : Loop("items", ids) BY DEF ReadItemSupport, Go
  <2> QED BY <2>1, LoopIs, AfterIs
<1>6. step' \in ObdSteps /\ step' \notin Untested /\ step' # "tests"
  BY <1>5 DEF ObdSteps, Untested
<1> QED BY <1>1, <1>2, <1>4, <1>6, PlainOwn

LEMMA ItemValue ==
  ASSUME Shape, step = "items", NEW r \in Replies, Echoed(r, 0)
  PROVE  LET id == Min(todo)
             info == car.spec[scan.name].info
             items == InfoItems(Data(r), ItemWidth[id])
         IN  /\ id \in DOMAIN info
             /\ [i \in DOMAIN items |-> IF id = 6 THEN items[i] ELSE Strip(items[i])] = info[id]
<1> DEFINE id == Min(todo)
           m == car.spec[scan.name]
           ext == (session[Module] = 3)
           items == m.info[id]
           w == ItemWidth[id]
           e == <<Len(items)>> \o Joined(Padded(items, id), w)
<1>1. Asking /\ step \in ObdSteps BY DEF Asking, ObdSteps
<1>2. id \in DOMAIN ItemWidth BY NextIs DEF Shape
<1>3. Current = Request(9, id) /\ Current.svc = 9 /\ Current \in Requests /\ Positive(Current) = <<73, id>>
  <2>1. Current = Request(9, id) /\ Current \in Requests BY <1>1, CurrentOn, CurrentIs DEF Shape
  <2>2. Current.svc = 9 /\ Current.id = id BY <2>1, RequestIs
  <2> HIDE DEF id
  <2> QED BY <2>1, <2>2, PositiveIs
<1>5. Module = scan.name /\ IsModule(m) BY <1>1, HandIs
<1>6. r.data = Handle(m, ext, Current)
  <2>1. Current.svc \in Echoing BY <1>3 DEF Echoing
  <2>2. r.data = Handle(car.spec[Module], session[Module] = 3, Current) BY <1>1, <2>1, EchoedIs
  <2> QED BY <2>2, <1>5
<1>7. r.data # << >>
  <2>1. r.how = "bytes" BY <1>1, <1>3, EchoedIs DEF Echoing
  <2> QED BY <2>1, ReplyIs
<1> HIDE DEF id, m, ext
<1>8. id \in DOMAIN m.info /\ r.data = Positive(Current) \o e
  <2>1. Handle(m, ext, Request(9, id)) =
          IF id \in DOMAIN m.info
          THEN <<73, id>> \o (<<Len(m.info[id])>> \o Joined(Padded(m.info[id], id), ItemWidth[id]))
          ELSE << >>
    BY <1>2, ItemAnswer
  <2> QED BY <2>1, <1>3, <1>6, <1>7
<1>9. /\ items \in Seq(Seq(Byte))
      /\ \A text \in Range(items) :
           IF id = 6 THEN Len(text) = 4 ELSE Len(text) <= ItemWidth[id] /\ Trimmed(text)
  BY <1>5, <1>8, ModuleIs
<1> HIDE DEF items
<1> DEFINE blocks == Padded(items, id)
<1>10. /\ IsBlocks(blocks, w)
       /\ [i \in DOMAIN blocks |-> IF id = 6 THEN blocks[i] ELSE Strip(blocks[i])] = items
  BY <1>2, <1>9, InfoBack DEF Padded
<1>11. w \in Widths /\ Len(items) \in Int BY <1>2, <1>9, WidthIs
<1> HIDE DEF blocks, w
<1>12. e \in Seq(Int)
  <2> DEFINE x == Joined(blocks, w)
  <2>1. x \in Seq(Int) BY <1>10, <1>11, JoinedInts
  <2> HIDE DEF x
  <2>2. <<Len(items)>> \o x \in Seq(Int) BY <2>1, <1>11, Prefixed
  <2> QED BY <2>2 DEF x, blocks
<1>13. InfoItems(e, w) = blocks BY <1>10, <1>11, ItemsBack DEF blocks
<1> HIDE DEF e
<1>14. Data(r) = e BY <1>3, <1>8, <1>12, BodyIs
<1>15. InfoItems(Data(r), w) = blocks BY <1>13, <1>14
<1> QED BY <1>8, <1>10, <1>15 DEF id, m, w, items

LEMMA ItemOwn ==
  ASSUME Shape, Shape', OwnInv, NEW r \in Replies, Taken(r), ReadItem(r)
  PROVE  OwnInv'
<1> DEFINE id == Min(todo)
           items == InfoItems(Data(r), ItemWidth[id])
           text == [i \in DOMAIN items |-> IF id = 6 THEN items[i] ELSE Strip(items[i])]
<1>1. step = "items" /\ step \in ObdSteps /\ car' = car /\ UNCHANGED surveyRest /\ Asking
  BY DEF ReadItem, ObdSteps, Asking, Taken
<1>2. due' \subseteq due \cup {Mine} /\ slow' = slow BY <1>1, TakenIs
<1>3. ScanIsOwn(car.spec, scan) /\ IsScan(scan, scan.name) BY <1>1, HandIs DEF OwnInv
<1>4. \/ Echoed(r, 0) /\ scan' = [scan EXCEPT !.info = With(@, id, text)]
      \/ scan' = scan \/ scan' = Noted(r)
  BY DEF ReadItem
<1>5. ScanIsOwn(car.spec, scan') /\ scan'.tests = scan.tests
  <2>1. CASE Echoed(r, 0) /\ scan' = [scan EXCEPT !.info = With(@, id, text)]
    <3>1. id \in DOMAIN car.spec[scan.name].info /\ text = car.spec[scan.name].info[id] BY <1>1, <2>1, ItemValue
    <3> HIDE DEF id, text
    <3>2. scan' = [scan EXCEPT !.info = With(@, id, car.spec[scan.name].info[id])] BY <2>1, <3>1
    <3>3. ScanIsOwn(car.spec, [scan EXCEPT !.info = With(@, id, car.spec[scan.name].info[id])]) BY <1>3, <3>1, InfoOwn
    <3>4. scan'.tests = scan.tests BY <1>3, <3>2 DEF IsScan
    <3> QED BY <3>2, <3>3, <3>4
  <2>2. CASE scan' = scan \/ scan' = Noted(r) BY <1>1, <2>2, NotedOwn
  <2> QED BY <1>4, <2>1, <2>2
<1>6. step' \in {"items", "walk2", "moduleVin"}
  <2>1. \E ids : Loop("items", ids) BY DEF ReadItem
  <2> QED BY <2>1, LoopIs, AfterIs
<1>7. step' \in ObdSteps /\ step' \notin Untested /\ step' # "tests"
  BY <1>6 DEF ObdSteps, Untested
<1> QED BY <1>1, <1>2, <1>5, <1>7, PlainOwn

\* What an identifier is read as is what the module has for it, and does not protect.
LEMMA DidHeard ==
  ASSUME Shape, Asking, NEW r \in Replies, NEW n \in Nat, Current.svc = 34, Echoed(r, n)
  PROVE  /\ Module \in DOMAIN car.spec /\ IsModule(car.spec[Module])
         /\ Current.id \in DOMAIN car.spec[Module].dids \ car.spec[Module].protected
         /\ Data(r) = car.spec[Module].dids[Current.id] /\ Len(Data(r)) >= n
<1> DEFINE m == car.spec[Module]
           c == Current
           d == r.data
<1>0. PICK ext \in BOOLEAN : ext = (session[Module] = 3) OBVIOUS
<1>1. c \in Requests BY CurrentIs DEF Shape
<1>2. /\ r.how = "bytes" /\ Module \in DOMAIN car.spec /\ IsModule(m) /\ d = Handle(m, ext, c)
      /\ Len(Data(r)) >= n
  BY <1>0, EchoedIs DEF Echoing
<1>3. d[1] # 127
  <2>1. Exchanged(r) = "reply" BY DEF Echoed
  <2> QED BY <2>1, HeardIs
<1> HIDE DEF m, d
<1>4. c.id \in DOMAIN m.dids \ m.protected /\ d = Positive(c) \o m.dids[c.id]
  <2>1. \A nrc : <<127, 34, nrc>>[1] = 127 OBVIOUS
  <2>2. \/ \E nrc \in {51, 127, 49} : d = <<127, 34, nrc>>
        \/ c.id \in DOMAIN m.dids \ m.protected /\ d = Positive(c) \o m.dids[c.id]
    BY <1>1, <1>2, DidAnswer
  <2> QED BY <2>1, <2>2, <1>3
<1>5. m.dids[c.id] \in Seq(Int)
  <2>1. m.dids[c.id] \in Seq(Byte) BY <1>2, <1>4, ModuleIs
  <2> QED BY <2>1, ByteSeq
<1>6. Data(r) = m.dids[c.id] BY <1>1, <1>4, <1>5, BodyIs DEF d
<1> QED BY <1>2, <1>4, <1>6 DEF m

\* Away from OBD-II: what a step owes.
LEMMA QueueOwn ==
  ASSUME Shape', car' = car, slow' = slow, step' \notin ObdSteps, step' # "discover",
         OwnScans(car.spec, scans'), OnceScans(car.spec, scans', slow), OwnReadings(car.spec, readings'),
         step' \in QueueSteps => ReadingIsOwn(car.spec, reading')
  PROVE  OwnInv'
<1>1. left' = << >> BY DEF Shape, Place
<1>2. Waiting(<< >>, due') BY DEF Waiting
<1> QED BY <1>1, <1>2 DEF OwnInv

LEMMA OtherSteps ==
  /\ \A s \in QueueSteps \cup {"done", "aborted"} : s \notin ObdSteps /\ s # "discover"
  /\ "done" \notin QueueSteps /\ "aborted" \notin QueueSteps
BY DEF ObdSteps, QueueSteps, ProfileSteps

LEMMA AdvanceOwn ==
  ASSUME Shape', car' = car, slow' = slow, NEW q, NEW ss, NEW rs, Advance(q, ss, rs),
         OwnScans(car.spec, scans'), OnceScans(car.spec, scans', slow), OwnReadings(car.spec, rs)
  PROVE  OwnInv'
<1>1. readings' = rs BY DEF Advance
<1>2. step' \in {"done", "present", "open"} BY DEF Advance, Go
<1>3. step' \in QueueSteps => ReadingIsOwn(car.spec, reading')
  <2>1. step' \in QueueSteps => reading' = NewReading(Head(q).name) BY OtherSteps DEF Advance, Go
  <2>2. \A name : ReadingIsOwn(car.spec, NewReading(name))
    <3>1. \A name : NewReading(name).values = << >> BY DEF NewReading
    <3>2. DOMAIN << >> = {} OBVIOUS
    <3> QED BY <3>1, <3>2 DEF ReadingIsOwn
  <2> QED BY <2>1, <2>2
<1>4. step' \in QueueSteps \cup {"done"} BY <1>2 DEF QueueSteps, ProfileSteps
<1> QED BY <1>1, <1>3, <1>4, OtherSteps, QueueOwn

LEMMA NoReadings ==
  ASSUME NEW spec
  PROVE  OwnReadings(spec, << >>)
<1>1. Range(<< >>) = {} BY DEF Range
<1> QED BY <1>1 DEF OwnReadings

\* The scan of a module begins.
LEMMA BeginsOwn ==
  ASSUME Shape', car' = car, slow' = slow, NEW name, scan' = NewScan(name), step' = "supported",
         OwnScans(car.spec, scans'), OnceScans(car.spec, scans', slow), OwnReadings(car.spec, readings'),
         Waiting(left', due'), DebtsOf(due', name) = {}
  PROVE  OwnInv'
<1>1. ScanIsOwn(car.spec, scan') /\ scan'.name = name BY NewScanOwn DEF NewScan
<1>2. \A m : Unread(m, scan', "supported", todo', {}, slow) BY NewScanOwn
<1>3. step' \notin QueueSteps /\ step' # "discover" BY DEF QueueSteps, ProfileSteps
<1> QED BY <1>1, <1>2, <1>3 DEF OwnInv

\* The module in hand is done: those after it are different ones still, and have not begun.
LEMMA WaitingNext ==
  ASSUME NEW S, NEW l \in Seq(S), Len(l) > 1, NEW d, Waiting(l, d)
  PROVE  Waiting(Tail(l), d) /\ DebtsOf(d, l[2]) = {}
<1> DEFINE t == Tail(l)
<1>1. /\ Len(t) = Len(l) - 1 /\ Len(l) \in Nat /\ DOMAIN t = 1 .. Len(t) /\ DOMAIN l = 1 .. Len(l)
      /\ \A i \in 1 .. Len(t) : t[i] = l[i + 1]
  OBVIOUS
<1> HIDE DEF t
<1>2. \A i \in DOMAIN t : i \in Int /\ i + 1 \in DOMAIN l /\ i + 1 # 1 /\ t[i] = l[i + 1] BY <1>1
<1>3. \A i, j \in DOMAIN t : t[i] = t[j] => i = j
  <2> TAKE i, j \in DOMAIN t
  <2> HAVE t[i] = t[j]
  <2>1. i + 1 = j + 1 BY <1>2 DEF Waiting
  <2> QED BY <1>2, <2>1
<1>4. \A i \in DOMAIN t : DebtsOf(d, t[i]) = {} BY <1>2 DEF Waiting
<1>5. 2 \in DOMAIN l BY <1>1
<1> QED BY <1>3, <1>4, <1>5 DEF Waiting, t

LEMMA OnceMore ==
  ASSUME NEW spec, NEW ss, ss \in Seq(Range(ss)), NEW sl, OnceScans(spec, ss, sl), NEW s,
         s.name \notin sl => OnceEach(spec[s.name], s)
  PROVE  OnceScans(spec, Append(ss, s), sl)
<1> DEFINE S == Range(ss) \cup {s}
           j == Append(ss, s)
<1>1. ss \in Seq(S) /\ s \in S OBVIOUS
<1> HIDE DEF S
<1>2. j \in Seq(S) BY <1>1
<1> HIDE DEF j
<1>3. Range(j) \subseteq S BY <1>2 DEF Range
<1> QED BY <1>3 DEF S, j, OnceScans

LEMMA VinOwnStep ==
  ASSUME Shape, Shape', OwnInv, NEW r \in Replies, Taken(r), ReadModuleVin(r)
  PROVE  OwnInv'
<1> DEFINE vin == IF Echoed(r, 0) THEN Strip(Data(r)) ELSE << >>
           done == Append(scans, [scan EXCEPT !.moduleVin = vin])
<1>1. step = "moduleVin" /\ step \in ObdSteps /\ car' = car /\ Asking
  BY DEF ReadModuleVin, ObdSteps, Asking, Taken
<1>9. slow' = slow /\ due' \subseteq due \cup {Mine} BY <1>1, TakenIs
<1>2. ScanIsOwn(car.spec, scan) /\ IsScan(scan, scan.name) /\ Module = scan.name BY <1>1, HandIs DEF OwnInv
<1>3. \/ vin = << >>
      \/ /\ VinDid \in DOMAIN car.spec[scan.name].dids \ car.spec[scan.name].protected
         /\ vin = Strip(car.spec[scan.name].dids[VinDid])
  <2>1. CASE Echoed(r, 0)
    <3>1. Current.svc = 34 /\ Current.id = VinDid BY <1>1, CurrentOn, RequestIs
    <3> QED BY <1>1, <1>2, <2>1, <3>1, DidHeard
  <2>2. CASE ~Echoed(r, 0) BY <2>2
  <2> QED BY <2>1, <2>2
<1> HIDE DEF vin
<1>4. ScanIsOwn(car.spec, [scan EXCEPT !.moduleVin = vin]) BY <1>2, <1>3, VinOwn
<1>5. OwnScans(car.spec, done)
  <2> DEFINE t == [scan EXCEPT !.moduleVin = vin]
  <2>1. OwnScans(car.spec, scans) /\ ScanIsOwn(car.spec, t) BY <1>4 DEF OwnInv
  <2> HIDE DEF t
  <2>2. OwnScans(car.spec, Append(scans, t)) BY <2>1, AppendsOwn
  <2> QED BY <2>2 DEF t
<1>10. OnceScans(car.spec, done, slow)
  <2> DEFINE t == [scan EXCEPT !.moduleVin = vin]
  <2>1. t.tests = scan.tests /\ t.name = scan.name BY <1>2 DEF IsScan
  <2>2. scan.name \notin slow => OnceEach(car.spec[scan.name], scan) BY <1>1 DEF OwnInv, Unread
  <2>3. OnceScans(car.spec, scans, slow) /\ scans \in Seq(Range(scans)) BY DEF OwnInv, OwnScans
  <2> HIDE DEF t
  <2>4. t.name \notin slow => OnceEach(car.spec[t.name], t) BY <2>1, <2>2 DEF OnceEach
  <2>5. OnceScans(car.spec, Append(scans, t), slow) BY <2>3, <2>4, OnceMore
  <2> QED BY <2>5 DEF t
<1>6. /\ scans' = done
      /\ \/ /\ Len(left) > 1 /\ left' = Tail(left)
            /\ scan' = NewScan(left[2]) /\ step' = "supported" /\ readings' = readings
         \/ Outside(done)
  BY DEF ReadModuleVin, Go, vin
<1> HIDE DEF done
<1>7. CASE /\ Len(left) > 1 /\ left' = Tail(left)
           /\ scan' = NewScan(left[2]) /\ step' = "supported" /\ readings' = readings
  <2>1. Waiting(left, due) BY DEF OwnInv
  <2>2. Waiting(left, due') BY <1>1, <1>9, <2>1, DebtsLater
  <2>3. left \in Seq(DOMAIN car.spec) BY DEF Shape, Place
  <2>4. Waiting(left', due') /\ DebtsOf(due', left[2]) = {} BY <1>7, <2>2, <2>3, WaitingNext
  <2>5. OwnReadings(car.spec, readings') BY <1>7 DEF OwnInv
  <2> QED BY <1>1, <1>5, <1>6, <1>7, <1>9, <1>10, <2>4, <2>5, BeginsOwn
<1>8. CASE Outside(done)
  <2>1. \E q : Advance(q, done, << >>) BY <1>8 DEF Outside
  <2> QED BY <1>1, <1>5, <1>6, <1>9, <1>10, <2>1, NoReadings, AdvanceOwn
<1> QED BY <1>6, <1>7, <1>8

\* What is kept of different ones are different ones.
LEMMA KeptOnce ==
  ASSUME NEW S, NEW s \in Seq(S), \A i, j \in DOMAIN s : s[i] = s[j] => i = j, NEW T
  PROVE  \A i, j \in DOMAIN Kept(s, T) : Kept(s, T)[i] = Kept(s, T)[j] => i = j
<1> DEFINE k == KeptUpTo(s, T)
           n == Len(s)
           Good(i) == /\ k[i] \in Seq(S) /\ \A a \in 1 .. Len(k[i]) : \E b \in 1 .. i : k[i][a] = s[b]
                      /\ \A a, b \in 1 .. Len(k[i]) : k[i][a] = k[i][b] => a = b
           Bad == {i \in 0 .. n : ~Good(i)}
<1>0. n \in Nat /\ \A i \in 1 .. n : s[i] \in S OBVIOUS
<1>1. /\ k[0] = << >>
      /\ \A i \in 1 .. n : k[i] = IF s[i] \in T THEN Append(k[i - 1], s[i]) ELSE k[i - 1]
  BY KeptExists
<1>2. \A i, j \in 1 .. n : s[i] = s[j] => i = j OBVIOUS
<1> HIDE DEF k, n
<1>3. Good(0) BY <1>1
<1>4. ASSUME NEW i \in 1 .. n, Good(i - 1) PROVE Good(i)
  <2> DEFINE q == k[i - 1]
  <2>1. /\ q \in Seq(S) /\ \A a \in 1 .. Len(q) : \E b \in 1 .. i - 1 : q[a] = s[b]
        /\ \A a, b \in 1 .. Len(q) : q[a] = q[b] => a = b
    BY <1>4
  <2>2. i - 1 \in Nat /\ \A b \in 1 .. i - 1 : b \in 1 .. i /\ b \in 1 .. n /\ b # i BY <1>0
  <2>3. CASE s[i] \in T
    <3> DEFINE t == Append(q, s[i])
    <3>1. k[i] = t BY <2>3, <1>1
    <3>2. s[i] \in S /\ Len(q) \in Nat BY <1>0, <2>1
    <3> HIDE DEF q
    <3>3. t \in Seq(S) /\ Len(t) = Len(q) + 1 /\ t[Len(q) + 1] = s[i]
          /\ \A j \in 1 .. Len(q) : t[j] = q[j]
      BY <2>1, <3>2
    <3> HIDE DEF t
    <3>4. \A a \in 1 .. Len(q) : q[a] # s[i] BY <1>2, <2>1, <2>2
    <3>5. \A a \in 1 .. Len(t) : a \in 1 .. Len(q) \/ a = Len(q) + 1 BY <3>2, <3>3
    <3>6. \A a \in 1 .. Len(t) : \E b \in 1 .. i : t[a] = s[b]
      <4>1. i \in 1 .. i BY <1>0
      <4> QED BY <2>1, <2>2, <3>3, <3>5, <4>1
    <3>7. \A a, b \in 1 .. Len(t) : t[a] = t[b] => a = b BY <2>1, <3>3, <3>4, <3>5
    <3> QED BY <3>1, <3>3, <3>6, <3>7
  <2>4. CASE s[i] \notin T
    <3>1. k[i] = q BY <2>4, <1>1
    <3> HIDE DEF q
    <3> QED BY <2>1, <2>2, <3>1
  <2> QED BY <2>3, <2>4
<1>5. Bad = {}
  <2>1. Bad \subseteq 0 .. n /\ 0 \notin Bad BY <1>3
  <2>2. \A i \in 1 .. n : i \in Bad => i - 1 \in Bad
    <3> TAKE i \in 1 .. n
    <3>1. i \in 0 .. n /\ i - 1 \in 0 .. n BY <1>0
    <3>2. ~Good(i) => ~Good(i - 1) BY <1>4
    <3> HIDE DEF Good
    <3> QED BY <3>1, <3>2
  <2> HIDE DEF Bad
  <2> QED BY <2>1, <2>2, <1>0, NoneBad
<1>6. Good(n)
  <2>1. n \in 0 .. n BY <1>0
  <2> HIDE DEF Good
  <2> QED BY <1>5, <2>1
<1>7. Kept(s, T) = k[n] BY DEF Kept, k, n
<1>8. DOMAIN k[n] = 1 .. Len(k[n]) BY <1>6
<1> QED BY <1>6, <1>7, <1>8

LEMMA DiscoverOwn ==
  ASSUME Shape, Shape', OwnInv, Discover
  PROVE  OwnInv'
<1>1. step = "discover" /\ car' = car /\ scans' = scans /\ slow' = slow /\ due' = due BY DEF Discover
<1>2. PICK missing \in SUBSET DOMAIN car.obd :
        IF Answering(missing) = << >> THEN Outside(<< >>) /\ UNCHANGED scan
        ELSE /\ left' = Answering(missing) /\ scan' = NewScan(Head(Answering(missing))) /\ Go("supported", {})
             /\ UNCHANGED <<queue, reading, readings, verdicts>>
  BY DEF Discover
<1> DEFINE found == Answering(missing)
<1>3. due' = {} BY <1>1 DEF OwnInv
<1>4. OwnScans(car.spec, scans') /\ OnceScans(car.spec, scans', slow) /\ OwnReadings(car.spec, readings)
  BY <1>1 DEF OwnInv
<1>5. \A i, j \in DOMAIN found : found[i] = found[j] => i = j
  <2> DEFINE names == {name \in Range(car.obd) : \A i \in missing : car.obd[i] # name}
             s == car.obd
             S == DOMAIN car.spec
  <2>1. found = Kept(s, names) BY DEF Answering
  <2>2. s \in Seq(S) /\ \A i, j \in DOMAIN s : s[i] = s[j] => i = j BY CarIs DEF Shape, Tallies
  <2> HIDE DEF names, found, s, S
  <2>3. \A i, j \in DOMAIN Kept(s, names) : Kept(s, names)[i] = Kept(s, names)[j] => i = j BY <2>2, KeptOnce
  <2> QED BY <2>1, <2>3
<1> HIDE DEF found
<1>6. CASE found = << >>
  <2>1. \E q : Advance(q, << >>, << >>) BY <1>2, <1>6 DEF Outside, found
  <2> QED BY <1>1, <1>4, <2>1, NoReadings, AdvanceOwn
<1>7. CASE found # << >>
  <2>1. left' = found /\ scan' = NewScan(Head(found)) /\ step' = "supported" /\ readings' = readings
    BY <1>2, <1>7 DEF Go, found
  <2>2. \A name : DebtsOf(due', name) = {} BY <1>3 DEF DebtsOf
  <2>3. Waiting(left', due') BY <1>5, <2>1, <2>2 DEF Waiting
  <2> QED BY <1>1, <1>4, <2>1, <2>2, <2>3, BeginsOwn
<1> QED BY <1>6, <1>7

LEMMA SameReading ==
  ASSUME NEW spec, NEW x, NEW y, ReadingIsOwn(spec, x), y.name = x.name, y.values = x.values
  PROVE  ReadingIsOwn(spec, y)
BY DEF ReadingIsOwn

LEMMA ReadingGrows ==
  ASSUME NEW spec, NEW x, NEW y, ReadingIsOwn(spec, x), y.name = x.name, NEW id, NEW value,
         y.values = With(x.values, id, value), x.name \in DOMAIN spec,
         ByProfile(spec[x.name], x.name, id, value) \/ ByStandard(spec[x.name], id, value)
  PROVE  ReadingIsOwn(spec, y)
BY DEF ReadingIsOwn, With

LEMMA InQueue ==
  ASSUME Shape, step \in QueueSteps
  PROVE  Module = Head(queue).name /\ IsReading(reading, Module) /\ reading.name = Module
<1>1. left = << >> BY OtherSteps DEF Shape, Place
<1> QED BY <1>1, QueueIs DEF Module, IsReading, Shape

LEMMA AbortOwn ==
  ASSUME Shape', OwnInv, car' = car, slow' = slow, scans' = scans, Abort
  PROVE  OwnInv'
<1>1. step' = "aborted" /\ readings' = readings BY DEF Abort, Go
<1>2. OwnScans(car.spec, scans') /\ OnceScans(car.spec, scans', slow) /\ OwnReadings(car.spec, readings') BY <1>1 DEF OwnInv
<1> QED BY <1>1, <1>2, OtherSteps, QueueOwn

\* A reading goes on, or its module is done.
LEMMA GoesOnOwn ==
  ASSUME Shape', OwnInv, car' = car, slow' = slow, scans' = scans, NEW x, ReadingIsOwn(car.spec, x),
         \/ step' \in QueueSteps /\ reading' = x /\ readings' = readings
         \/ \E q : Advance(q, scans, readings) \/ Advance(q, scans, Append(readings, x))
  PROVE  OwnInv'
<1>1. OwnScans(car.spec, scans') /\ OnceScans(car.spec, scans', slow) /\ OwnReadings(car.spec, readings) BY DEF OwnInv
<1>2. OwnReadings(car.spec, Append(readings, x)) BY <1>1, AppendsOwn
<1>3. CASE step' \in QueueSteps /\ reading' = x /\ readings' = readings BY <1>1, <1>3, OtherSteps, QueueOwn
<1>4. CASE \E q : Advance(q, scans, readings) \/ Advance(q, scans, Append(readings, x))
  BY <1>1, <1>2, <1>4, AdvanceOwn
<1> QED BY <1>3, <1>4

LEMMA ProfileOwn ==
  ASSUME Shape, Shape', OwnInv, NEW r, Present(r) \/ StartSession(r)
  PROVE  OwnInv'
<1>1. /\ step \in {"present", "session"} /\ step \in QueueSteps
      /\ car' = car /\ slow' = slow /\ scans' = scans
      /\ "session" \in QueueSteps /\ "reads" \in QueueSteps
  BY DEF Present, StartSession, Taken, QueueSteps, ProfileSteps
<1>2. ReadingIsOwn(car.spec, reading) /\ IsReading(reading, Module) BY <1>1, InQueue DEF OwnInv
<1>3. ReadingIsOwn(car.spec, [reading EXCEPT !.reached = TRUE])
  <2> DEFINE x == [reading EXCEPT !.reached = TRUE]
  <2>1. x.name = reading.name /\ x.values = reading.values BY <1>2 DEF IsReading
  <2> HIDE DEF x
  <2>2. ReadingIsOwn(car.spec, x) BY <1>2, <2>1, SameReading
  <2> QED BY <2>2 DEF x
<1>4. \/ Abort
      \/ \E q : Advance(q, scans, Append(readings, reading))
      \/ step' = "session" /\ reading' = [reading EXCEPT !.reached = TRUE] /\ readings' = readings
      \/ step' = "reads" /\ reading' = reading /\ readings' = readings
  BY DEF Present, StartSession, Go
<1>5. CASE Abort BY <1>1, <1>5, AbortOwn
<1>6. CASE \E q : Advance(q, scans, Append(readings, reading)) BY <1>1, <1>2, <1>6, GoesOnOwn
<1>7. CASE step' = "session" /\ reading' = [reading EXCEPT !.reached = TRUE] /\ readings' = readings
  BY <1>1, <1>3, <1>7, GoesOnOwn
<1>8. CASE step' = "reads" /\ reading' = reading /\ readings' = readings BY <1>1, <1>2, <1>8, GoesOnOwn
<1> QED BY <1>4, <1>5, <1>6, <1>7, <1>8

\* A value of the profile is what the module has for the identifier that the profile says.
LEMMA ReadValue ==
  ASSUME Shape, step = "reads", NEW r \in Replies, NEW read, read = Head(queue).reads[Min(todo)],
         Echoed(r, read.length), read.type = "ascii" \/ Decoded(read, Data(r)) <= read.max
  PROVE  Module \in DOMAIN car.spec /\ ByProfile(car.spec[Module], Module, read.id, Decoded(read, Data(r)))
<1> DEFINE m == car.spec[Module]
           g == Head(queue)
<1>1. Asking /\ step \in QueueSteps /\ step \in ProfileSteps BY DEF Asking, QueueSteps, ProfileSteps
<1>2. PICK p \in Profiles : g \in Range(p.modules) BY <1>1, ProfileStepIs DEF Shape
<1>3. Min(todo) \in DOMAIN g.reads BY NextIs DEF Shape
<1>4. read \in Range(g.reads) /\ read.length \in Nat BY <1>2, <1>3, GroupIs
<1>5. Current.svc = 34 /\ Current.id = read.did BY CurrentOn, RequestIs
<1>6. /\ Module \in DOMAIN car.spec /\ read.did \in DOMAIN m.dids \ m.protected
      /\ Data(r) = m.dids[read.did] /\ Len(Data(r)) >= read.length
  BY <1>1, <1>4, <1>5, DidHeard
<1>7. g.name = Module BY <1>1, InQueue
<1> HIDE DEF m, g
<1>8. Plausible(m, read) BY <1>6 DEF Plausible, Decoded
<1>9. Decoded(read, Data(r)) = Decoded(read, m.dids[read.did]) BY <1>6
<1>10. ByProfile(m, Module, read.id, Decoded(read, Data(r))) BY <1>2, <1>4, <1>7, <1>8, <1>9 DEF ByProfile
<1> QED BY <1>6, <1>10 DEF m

LEMMA ReadOwn ==
  ASSUME Shape, Shape', OwnInv, NEW r \in Replies, Read(r)
  PROVE  OwnInv'
<1> DEFINE read  == Head(queue).reads[Min(todo)]
           value == Decoded(read, Data(r))
           Into(field) == [reading EXCEPT ![field] = @ \cup {read.id}]
           after ==
             CASE Exchanged(r) = "protected" -> Into("protected")
               [] Exchanged(r) # "protected" /\ ~Echoed(r, read.length) -> Into("unavailable")
               [] Echoed(r, read.length) /\ (read.type = "ascii" \/ value <= read.max) ->
                    [reading EXCEPT !.values = With(@, read.id, value)]
               [] OTHER -> Into("implausible")
<1>1. step = "reads" /\ step \in QueueSteps /\ car' = car /\ slow' = slow /\ scans' = scans
  BY DEF Read, Taken, QueueSteps, ProfileSteps
<1>2. ReadingIsOwn(car.spec, reading) /\ IsReading(reading, Module) /\ reading.name = Module
  BY <1>1, InQueue DEF OwnInv
<1>3. \/ Abort
      \/ \E q : Advance(q, scans, Append(readings, after))
      \/ step' = step /\ reading' = after /\ readings' = readings
  BY DEF Read
<1>4. \/ after \in {Into("protected"), Into("unavailable"), Into("implausible")}
      \/ /\ Echoed(r, read.length) /\ (read.type = "ascii" \/ value <= read.max)
         /\ after = [reading EXCEPT !.values = With(@, read.id, value)]
  OBVIOUS
<1>5. ReadingIsOwn(car.spec, after)
  <2>1. CASE after \in {Into("protected"), Into("unavailable"), Into("implausible")}
    <3>1. \A field \in {"protected", "unavailable", "implausible"} :
            Into(field).name = reading.name /\ Into(field).values = reading.values
      BY <1>2 DEF IsReading
    <3>2. after.name = reading.name /\ after.values = reading.values BY <2>1, <3>1
    <3> HIDE DEF after
    <3> QED BY <1>2, <3>2, SameReading
  <2>2. CASE /\ Echoed(r, read.length) /\ (read.type = "ascii" \/ value <= read.max)
             /\ after = [reading EXCEPT !.values = With(@, read.id, value)]
    <3>1. Module \in DOMAIN car.spec /\ ByProfile(car.spec[Module], Module, read.id, value)
      BY <1>1, <2>2, ReadValue
    <3> HIDE DEF value, read, after
    <3>2. after.name = reading.name /\ after.values = With(reading.values, read.id, value)
      BY <1>2, <2>2 DEF IsReading
    <3> QED BY <1>2, <3>1, <3>2, ReadingGrows
  <2> HIDE DEF after
  <2> QED BY <1>4, <2>1, <2>2
<1> HIDE DEF after
<1> QED BY <1>1, <1>3, <1>5, AbortOwn, GoesOnOwn

LEMMA FoundOwn ==
  ASSUME Shape, Shape', OwnInv, NEW r \in Replies, Open(r) \/ Identify(r)
  PROVE  OwnInv'
<1>1. /\ step \in {"open", "identify"} /\ step \in QueueSteps /\ "identify" \in QueueSteps
      /\ car' = car /\ slow' = slow /\ scans' = scans
  BY DEF Open, Identify, Taken, QueueSteps, ProfileSteps
<1>2. ReadingIsOwn(car.spec, reading) /\ IsReading(reading, Module) /\ reading.name = Module
  BY <1>1, InQueue DEF OwnInv
<1>3. CASE Open(r)
  <2>1. \/ \E q : Advance(q, scans, readings)
        \/ step' = "identify" /\ reading' = reading /\ readings' = readings
    BY <1>3 DEF Open, Go
  <2> QED BY <1>1, <1>2, <2>1, GoesOnOwn
<1>4. CASE Identify(r)
  <2> DEFINE name == StandardDids[Min(todo)]
             value == Strip(Data(r))
             after == IF Echoed(r, 0)
                      THEN [reading EXCEPT !.reached = TRUE, !.values = With(@, name, value)]
                      ELSE reading
  <2>1. step = "identify" /\ Asking BY <1>4 DEF Identify, Asking
  <2>2. \/ \E q : Advance(q, scans, readings) \/ Advance(q, scans, Append(readings, after))
        \/ step' = step /\ reading' = after /\ readings' = readings
    BY <1>4 DEF Identify
  <2>3. ReadingIsOwn(car.spec, after)
    <3>1. CASE Echoed(r, 0)
      <4>1. Current.svc = 34 /\ Current.id = Min(todo) BY <2>1, CurrentOn, RequestIs
      <4>2. Min(todo) \in DOMAIN StandardDids BY <2>1, NextIs DEF Shape
      <4>3. /\ Module \in DOMAIN car.spec /\ Min(todo) \in DOMAIN car.spec[Module].dids \ car.spec[Module].protected
            /\ Data(r) = car.spec[Module].dids[Min(todo)]
        BY <2>1, <3>1, <4>1, DidHeard
      <4>4. value = Strip(car.spec[Module].dids[Min(todo)]) BY <4>3
      <4> HIDE DEF value
      <4>5. ByStandard(car.spec[Module], name, value) BY <4>2, <4>3, <4>4 DEF ByStandard
      <4> HIDE DEF name
      <4>6. after.name = reading.name /\ after.values = With(reading.values, name, value)
        BY <1>2, <3>1 DEF IsReading
      <4> HIDE DEF after
      <4> QED BY <1>2, <4>3, <4>5, <4>6, ReadingGrows
    <3>2. CASE ~Echoed(r, 0) BY <3>2, <1>2
    <3> QED BY <3>1, <3>2
  <2> HIDE DEF after
  <2> QED BY <1>1, <2>1, <2>2, <2>3, GoesOnOwn
<1> QED BY <1>3, <1>4

LEMMA InitOwn == Init => OwnInv
<1> SUFFICES ASSUME Init PROVE OwnInv OBVIOUS
<1>1. step = "discover" /\ scans = << >> /\ readings = << >> BY DEF Init
<1>2. OwnScans(car.spec, << >>)
  <2>1. Range(<< >>) = {} BY DEF Range
  <2> QED BY <2>1 DEF OwnScans
<1>3. step \notin ObdSteps /\ step \notin QueueSteps BY <1>1 DEF ObdSteps, QueueSteps, ProfileSteps
<1>4. left = << >> /\ due = {} BY DEF Init
<1>5. Waiting(<< >>, {}) BY DEF Waiting
<1>6. \A spec, sl : OnceScans(spec, << >>, sl)
  <2>1. Range(<< >>) = {} BY DEF Range
  <2> QED BY <2>1 DEF OnceScans
<1> QED BY <1>1, <1>2, <1>3, <1>4, <1>5, <1>6, NoReadings DEF OwnInv

\* A request is put off: from then on the module may send results twice.
LEMMA PendingOwn ==
  ASSUME Shape, OwnInv, Pending
  PROVE  OwnInv'
<1>1. /\ due' \subseteq due \cup {Mine} /\ slow \subseteq slow' /\ (step = "tests" => Module \in slow') /\ Asking
      /\ UNCHANGED <<car, step, left, todo, scan, scans, reading, readings>>
  BY PendingIs
<1>2. step # "discover" BY <1>1 DEF Asking
<1>3. OwnScans(car.spec, scans) /\ OnceScans(car.spec, scans, slow') /\ OwnReadings(car.spec, readings)
  BY <1>1 DEF OwnInv, OnceScans
<1>4. CASE step \in ObdSteps
  <2> DEFINE m == car.spec[scan.name]
             d == DebtsOf(due, scan.name)
             e == DebtsOf(due', scan.name)
  <2>1. ScanIsOwn(car.spec, scan) /\ Unread(m, scan, step, todo, d, slow) /\ Waiting(left, due) BY <1>4 DEF OwnInv
  <2>2. Waiting(left, due') /\ e \subseteq d \cup {Mine} /\ (step \in Untested => ~OfResults(Mine.req))
    BY <1>1, <1>4, <2>1, DebtsLater
  <2>3. Module = scan.name BY <1>4, HandIs
  <2> HIDE DEF m, d, e
  <2>4. step \in Untested => \A b \in e : ~OfResults(b.req) BY <2>1, <2>2 DEF Unread
  <2>5. Unread(m, scan, step, todo, e, slow') BY <1>1, <2>1, <2>3, <2>4 DEF Unread
  <2>6. step \notin QueueSteps BY <1>4 DEF ObdSteps, QueueSteps, ProfileSteps
  <2> QED BY <1>1, <1>2, <1>3, <2>1, <2>2, <2>5, <2>6 DEF OwnInv, m, e
<1>5. CASE step \notin ObdSteps
  <2>1. left = << >> BY <1>5 DEF Shape, Place
  <2>2. Waiting(<< >>, due') BY DEF Waiting
  <2> QED BY <1>1, <1>2, <1>3, <1>5, <2>1, <2>2 DEF OwnInv
<1> QED BY <1>4, <1>5

LEMMA ReplyOwn ==
  ASSUME Shape, Shape', OwnInv, Asking, NEW r \in Replies, Reply(r)
  PROVE  OwnInv'
<1>1. Taken(r) BY DEF Reply, Supported, Walk, ReadLive, ReadFrame, ReadPid, ReadCodes, WalkTests, ReadTest,
                      ReadItemSupport, ReadItem, WalkFrame, ReadModuleVin, Present, StartSession, Read, Open, Identify
<1> QED BY <1>1, WalksOwn, PidOwn, CodesOwnStep, WalkTestsOwn, TestOwn, ItemSupportOwn, ItemOwn, VinOwnStep,
          ProfileOwn, ReadOwn, FoundOwn DEF Reply

LEMMA NextOwn == Shape /\ Shape' /\ OwnInv /\ [Next]_vars => OwnInv'
<1> SUFFICES ASSUME Shape, Shape', OwnInv, [Next]_vars PROVE OwnInv' OBVIOUS
<1>1. CASE Discover BY <1>1, DiscoverOwn
<1>2. CASE UNCHANGED <<car, step, left, todo, due, slow, scan, scans, reading, readings>> BY <1>2 DEF OwnInv
<1>3. CASE Pending BY <1>3, PendingOwn
<1>4. CASE Asking /\ \E r \in Replies : Reply(r) BY <1>4, ReplyOwn
<1>5. CASE UNCHANGED vars BY <1>2, <1>5 DEF vars
<1> QED BY <1>1, <1>3, <1>4, <1>5 DEF Next

\* Whatever a module fails to answer, and whatever comes late or, being put off, twice, a scan of
\* any car holds only what the module in question says of itself; and no test result twice,
\* but of a module that put a request for one off.
THEOREM NothingInventedTheorem == Spec => []NothingInvented
<1>1. OwnInv => NothingInvented BY DEF OwnInv, OwnScans, OnceScans, OwnReadings, NothingInvented
<1>2. Spec => []OwnInv
  <2>1. Init => Shape /\ OwnInv BY InitShape, InitOwn
  <2>2. (Shape /\ OwnInv) /\ [Next]_vars => (Shape /\ OwnInv)' BY NextShape, NextOwn
  <2> QED BY <2>1, <2>2, PTL DEF Spec
<1> QED BY <1>1, <1>2, PTL

-----------------------------------------------------------------------------
(* What is lost is what was not answered: the account that a scan keeps. *)

\* In the history l, a request of a module at step s was not answered, or met a fault.
Gone(l, name, s, ids) == \E x \in l : x.at = name /\ x.step = s /\ x.id \in ids
Broke(l, name, s) == \E x \in l : x.at = name /\ x.step = s /\ x.how = "fault"

\* What a scan has, will ask for yet, or has lost; for what is asked later see the steps.
LivesHad(l, m, s, ahead) ==
  \A pid \in DOMAIN m.pids :
    \/ pid \in DOMAIN s.readings \/ pid \in ahead
    \/ Gone(l, s.name, "pids", {pid}) \/ Gone(l, s.name, "walk", 0 .. pid)
    \/ Broke(l, s.name, "pids") \/ Broke(l, s.name, "walk")
CodesHad(l, m, s, ahead) ==
  \A mode \in CodeFields : s[mode] = m[mode] \/ mode \in ahead \/ Gone(l, s.name, mode, {0})
TestsHad(l, m, s, ahead) ==
  \A i \in DOMAIN m.tests :
    \/ m.tests[i] \in Range(s.tests) \/ m.tests[i].monitor \in ahead
    \/ Gone(l, s.name, "tests", {m.tests[i].monitor}) \/ Gone(l, s.name, "walk6", 0 .. 255)
    \/ Broke(l, s.name, "tests")
InfoHad(l, m, s, ahead) ==
  \A id \in DOMAIN m.info :
    \/ id \in DOMAIN s.info \/ id \in ahead
    \/ Gone(l, s.name, "items", {id}) \/ Broke(l, s.name, "info")

\* What is ahead at step st, with b the base of the next bitmap, w what those before it list, and
\* ids what a loop has to do.
LiveAhead(st, b, w, ids, P) ==
  CASE st = "supported" -> P
    [] st = "walk" -> {pid \in P : pid > b \/ pid \in w}
    [] st = "pids" -> ids
    [] OTHER -> {}
CodeAhead(st) ==
  CASE st \in {"supported", "walk", "pids", "stored"} -> CodeFields
    [] st = "pending" -> {"pending", "permanent"}
    [] st = "permanent" -> {"permanent"}
    [] OTHER -> {}
TestAhead(st, b, w, ids, M) ==
  CASE st \in Untested \ {"walk6"} -> M
    [] st = "walk6" -> {id \in M : id > b \/ id \in w}
    [] st = "tests" -> ids
    [] OTHER -> {}
InfoAhead(st, ids, I) ==
  CASE st \in Untested \cup {"tests"} -> I
    [] st \in {"info", "items"} -> ids
    [] OTHER -> {}
Owed(l, m, s, st, b, w, ids) ==
  /\ LivesHad(l, m, s, LiveAhead(st, b, w, ids, DOMAIN m.pids))
  /\ CodesHad(l, m, s, CodeAhead(st))
  /\ TestsHad(l, m, s, TestAhead(st, b, w, ids, MonitorIds(m)))
  /\ InfoHad(l, m, s, InfoAhead(st, ids, DOMAIN m.info))
Settled(l, m, s) ==
  LivesHad(l, m, s, {}) /\ CodesHad(l, m, s, {}) /\ TestsHad(l, m, s, {}) /\ InfoHad(l, m, s, {})
\* In mode 06 a bitmap that is not answered costs those before it too, so it must be one that
\* the module has.
Chained(l, m, name, st, b) ==
  st = "walk6" => b \in BitmapBases(MonitorIds(m)) \/ Gone(l, name, "walk6", 0 .. 255)
\* A module that the broadcast found is scanned or will be.
Visited(l, name, todoNames, ss) ==
  Gone(l, name, "discover", {0}) \/ name \in todoNames \/ \E s \in Range(ss) : s.name = name
LossInv ==
  /\ step = "discover" => scans = << >>
  /\ step # "discover" => \A name \in Range(car.obd) : Visited(lost, name, Range(left), scans)
  /\ step \in ObdSteps =>
       /\ Owed(lost, car.spec[scan.name], scan, step, base, walked, todo)
       /\ Chained(lost, car.spec[scan.name], scan.name, step, base)
  /\ \A s \in Range(scans) : Settled(lost, car.spec[s.name], s)

\* What is lost stays lost.
LEMMA GoneStays ==
  ASSUME NEW l, NEW k, l \subseteq k
  PROVE  /\ \A name, s, ids : Gone(l, name, s, ids) => Gone(k, name, s, ids)
         /\ \A name, s : Broke(l, name, s) => Broke(k, name, s)
BY DEF Gone, Broke

LEMMA LivesStay ==
  ASSUME NEW l, NEW k, l \subseteq k, NEW m, NEW s, NEW t, t.name = s.name,
         DOMAIN s.readings \subseteq DOMAIN t.readings,
         NEW a, NEW c, DOMAIN m.pids \cap a \subseteq c, LivesHad(l, m, s, a)
  PROVE  LivesHad(k, m, t, c)
BY GoneStays DEF LivesHad

LEMMA CodesStay ==
  ASSUME NEW l, NEW k, l \subseteq k, NEW m, NEW s, NEW t, t.name = s.name,
         \A mode \in CodeFields : t[mode] = s[mode],
         NEW a, NEW c, a \subseteq c, CodesHad(l, m, s, a)
  PROVE  CodesHad(k, m, t, c)
BY GoneStays DEF CodesHad

LEMMA TestsStay ==
  ASSUME NEW l, NEW k, l \subseteq k, NEW m, NEW s, NEW t, t.name = s.name,
         Range(s.tests) \subseteq Range(t.tests),
         NEW a, NEW c, \A i \in DOMAIN m.tests : m.tests[i].monitor \in a => m.tests[i].monitor \in c,
         TestsHad(l, m, s, a)
  PROVE  TestsHad(k, m, t, c)
<1>1. SUFFICES ASSUME NEW i \in DOMAIN m.tests
      PROVE  \/ m.tests[i] \in Range(t.tests) \/ m.tests[i].monitor \in c
             \/ Gone(k, t.name, "tests", {m.tests[i].monitor}) \/ Gone(k, t.name, "walk6", 0 .. 255)
             \/ Broke(k, t.name, "tests")
  BY DEF TestsHad
<1> DEFINE x == m.tests[i].monitor
           all == 0 .. 255
<1>2. \/ m.tests[i] \in Range(s.tests) \/ x \in a
      \/ Gone(l, s.name, "tests", {x}) \/ Gone(l, s.name, "walk6", all) \/ Broke(l, s.name, "tests")
  BY DEF TestsHad
<1> HIDE DEF x, all
<1>3. x \in a => x \in c BY DEF x
<1>4. /\ Gone(l, s.name, "tests", {x}) => Gone(k, t.name, "tests", {x})
      /\ Gone(l, s.name, "walk6", all) => Gone(k, t.name, "walk6", all)
      /\ Broke(l, s.name, "tests") => Broke(k, t.name, "tests")
  BY GoneStays
<1> QED BY <1>2, <1>3, <1>4 DEF x, all

LEMMA InfoStays ==
  ASSUME NEW l, NEW k, l \subseteq k, NEW m, NEW s, NEW t, t.name = s.name,
         DOMAIN s.info \subseteq DOMAIN t.info,
         NEW a, NEW c, DOMAIN m.info \cap a \subseteq c, InfoHad(l, m, s, a)
  PROVE  InfoHad(k, m, t, c)
BY GoneStays DEF InfoHad

LEMMA SettledStays ==
  ASSUME NEW l, NEW k, l \subseteq k, NEW m, NEW s, NEW t, t.name = s.name,
         t.readings = s.readings, t.tests = s.tests, t.info = s.info,
         \A mode \in CodeFields : t[mode] = s[mode], Settled(l, m, s)
  PROVE  Settled(k, m, t)
<1>1. LivesHad(l, m, s, {}) /\ CodesHad(l, m, s, {}) /\ TestsHad(l, m, s, {}) /\ InfoHad(l, m, s, {}) BY DEF Settled
<1>2. LivesHad(k, m, t, {}) BY <1>1, LivesStay
<1>3. CodesHad(k, m, t, {}) BY <1>1, CodesStay
<1>4. TestsHad(k, m, t, {}) BY <1>1, TestsStay
<1>5. InfoHad(k, m, t, {}) BY <1>1, InfoStays
<1> QED BY <1>2, <1>3, <1>4, <1>5 DEF Settled

\* A reply that is not the module's answer is noted, a fault as one.
LEMMA Charged ==
  ASSUME Shape, Asking, step \in ObdSteps, NEW r \in Replies, Taken(r)
  PROVE  /\ lost \subseteq lost'
         /\ \/ r = Bytes(Answer(Current)) /\ r.how # "fault"
            \/ /\ \A ids : Current.id \in ids => Gone(lost', scan.name, step, ids)
               /\ r.how = "fault" => Broke(lost', scan.name, step)
<1> DEFINE x == [at |-> Module, step |-> step, id |-> Current.id, how |-> r.how]
<1>1. Module = scan.name BY HandIs
<1>2. x.at = scan.name /\ x.step = step /\ x.id = Current.id /\ x.how = r.how BY <1>1
<1>3. CASE r = Bytes(Answer(Current))
  <2>1. lost \subseteq lost' BY TakenIs
  <2>2. r.how # "fault" BY <1>3 DEF Bytes
  <2> QED BY <1>3, <2>1, <2>2
<1>4. CASE r # Bytes(Answer(Current))
  <2>1. lost' = lost \cup {x} BY <1>4 DEF Taken, InTurn, Instead
  <2> HIDE DEF x
  <2>2. x \in lost' /\ lost \subseteq lost' BY <2>1
  <2> QED BY <1>2, <2>2 DEF Gone, Broke
<1> QED BY <1>3, <1>4

\* The module's own answer, in whatever session it is.
LEMMA OwnAnswer ==
  ASSUME Shape, step \in ObdSteps
  PROVE  \E ext \in BOOLEAN : \A req : Answer(req) = Handle(car.spec[scan.name], ext, req)
<1>1. PICK ext \in BOOLEAN : ext = (session[Module] = 3) OBVIOUS
<1>2. Module = scan.name /\ scan.name \in DOMAIN car.spec BY HandIs
<1>3. \A req : Answer(req) = Handle(car.spec[scan.name], ext, req) BY <1>1, <1>2 DEF Answer
<1> QED BY <1>3

\* The answer that echoes its request is taken for one.
LEMMA OwnEchoed ==
  ASSUME Current \in Requests, Current.svc \in Echoing, NEW e \in Seq(Int), NEW n \in Nat, Len(e) >= n,
         NEW r, r = Bytes(Positive(Current) \o e)
  PROVE  Echoed(r, n) /\ Data(r) = e /\ r.how = "bytes" /\ Exchanged(r) = "reply"
<1> DEFINE h == Positive(Current)
           d == h \o e
<1>1. h \in Seq(Int) /\ h # << >> /\ h[1] = Current.svc + 64 BY PositiveIs
<1>2. r.data = d BY DEF Bytes
<1> HIDE DEF h
<1>3. /\ d \in Seq(Int) /\ Len(d) = Len(h) + Len(e) /\ d # << >> /\ d[1] = h[1]
      /\ SubSeq(d, 1, Len(h)) = h /\ SubSeq(d, Len(h) + 1, Len(d)) = e
  BY <1>1, HeaderBody
<1>4. r.how = "bytes" BY <1>3 DEF Bytes, h
<1>5. Len(h) \in Nat /\ Len(e) \in Nat BY <1>1
<1> HIDE DEF d
<1>6. d[1] = Current.svc + 64 /\ d[1] # 127 BY <1>1, <1>3 DEF Echoing
<1>7. Exchanged(r) = "reply" BY <1>2, <1>4, <1>6 DEF Exchanged
<1>8. Len(d) >= Len(h) + n BY <1>3, <1>5
<1>9. Echoed(r, n)
  <2>1. Len(r.data) >= Len(h) + n /\ SubSeq(r.data, 1, Len(h)) = h BY <1>2, <1>3, <1>8
  <2> QED BY <1>7, <2>1 DEF Echoed, h
<1>10. Data(r) = e BY <1>2, <1>3 DEF Data, h
<1> QED BY <1>4, <1>7, <1>9, <1>10

\* What is ahead, by step.
LEMMA LiveAheadIs ==
  ASSUME NEW b, NEW w, NEW ids, NEW P
  PROVE  /\ LiveAhead("supported", b, w, ids, P) = P
         /\ LiveAhead("walk", b, w, ids, P) = {pid \in P : pid > b \/ pid \in w}
         /\ LiveAhead("pids", b, w, ids, P) = ids
         /\ \A st \in ObdSteps \ {"supported", "walk", "pids"} : LiveAhead(st, b, w, ids, P) = {}
<1>1. \A st \in ObdSteps \ {"supported", "walk", "pids"} : LiveAhead(st, b, w, ids, P) = {}
  BY DEF LiveAhead, ObdSteps
<1> QED BY <1>1 DEF LiveAhead

LEMMA CodeAheadIs ==
  /\ \A st \in {"supported", "walk", "pids", "stored"} : CodeAhead(st) = CodeFields
  /\ CodeAhead("pending") = {"pending", "permanent"} /\ CodeAhead("permanent") = {"permanent"}
  /\ \A st \in {"walk6", "tests", "info", "items", "walk2", "frames", "moduleVin"} : CodeAhead(st) = {}
BY DEF CodeAhead

LEMMA TestAheadIs ==
  ASSUME NEW b, NEW w, NEW ids, NEW M
  PROVE  /\ \A st \in Untested \ {"walk6"} : TestAhead(st, b, w, ids, M) = M
         /\ TestAhead("walk6", b, w, ids, M) = {id \in M : id > b \/ id \in w}
         /\ TestAhead("tests", b, w, ids, M) = ids
         /\ \A st \in {"info", "items", "walk2", "frames", "moduleVin"} : TestAhead(st, b, w, ids, M) = {}
BY DEF TestAhead, Untested

LEMMA InfoAheadIs ==
  ASSUME NEW ids, NEW I
  PROVE  /\ \A st \in Untested \cup {"tests"} : InfoAhead(st, ids, I) = I
         /\ InfoAhead("info", ids, I) = ids /\ InfoAhead("items", ids, I) = ids
         /\ \A st \in {"walk2", "frames", "moduleVin"} : InfoAhead(st, ids, I) = {}
BY DEF InfoAhead, Untested

\* Before the codes, all that follows is ahead.
LEMMA EarlyAhead ==
  ASSUME NEW st \in {"supported", "walk", "pids", "stored"}, NEW b, NEW w, NEW ids, NEW M, NEW I
  PROVE  /\ CodeAhead(st) = CodeFields /\ TestAhead(st, b, w, ids, M) = M /\ InfoAhead(st, ids, I) = I
         /\ \A l, m, name : Chained(l, m, name, st, b)
<1>1. st \in Untested \ {"walk6"} BY DEF Untested
<1>2. CodeAhead(st) = CodeFields BY CodeAheadIs
<1>3. TestAhead(st, b, w, ids, M) = M BY <1>1 DEF TestAhead, Untested
<1>4. InfoAhead(st, ids, I) = I BY <1>1 DEF InfoAhead, Untested
<1> QED BY <1>1, <1>2, <1>3, <1>4 DEF Chained

\* What an action on OBD-II owes to the account.
LEMMA ObdLoss ==
  ASSUME Shape, Shape', LossInv, step \in ObdSteps, step' \in ObdSteps, car' = car, UNCHANGED surveyRest,
         lost \subseteq lost',
         LET m == car.spec[scan.name]
         IN  /\ LivesHad(lost', m, scan', LiveAhead(step', base', walked', todo', DOMAIN m.pids))
             /\ CodesHad(lost', m, scan', CodeAhead(step'))
             /\ TestsHad(lost', m, scan', TestAhead(step', base', walked', todo', MonitorIds(m)))
             /\ InfoHad(lost', m, scan', InfoAhead(step', todo', DOMAIN m.info))
             /\ Chained(lost', m, scan.name, step', base')
  PROVE  LossInv'
<1>1. left' = left /\ scans' = scans BY DEF surveyRest
<1>2. scan'.name = scan.name
  <2>1. scan'.name = Head(left') BY DEF Shape, Place, IsScan
  <2> QED BY <1>1, <2>1, HandIs
<1>3. step' # "discover" /\ step # "discover" BY DEF ObdSteps
<1>4. Owed(lost', car'.spec[scan'.name], scan', step', base', walked', todo') BY <1>2 DEF Owed
<1>5. Chained(lost', car'.spec[scan'.name], scan'.name, step', base') BY <1>2
<1>6. \A name \in Range(car'.obd) : Visited(lost', name, Range(left'), scans')
  <2>1. \A name \in Range(car.obd) : Visited(lost, name, Range(left), scans) BY <1>3 DEF LossInv
  <2> QED BY <1>1, <2>1, GoneStays DEF Visited
<1>7. \A s \in Range(scans') : Settled(lost', car'.spec[s.name], s)
  <2>1. \A s \in Range(scans) : Settled(lost, car.spec[s.name], s) BY DEF LossInv
  <2>2. \A s \in Range(scans) : Settled(lost', car.spec[s.name], s) BY <2>1, SettledStays
  <2> QED BY <1>1, <2>2
<1> QED BY <1>3, <1>4, <1>5, <1>6, <1>7 DEF LossInv

\* A scan that says as much as another of the module.
Alike(s, t) ==
  /\ t.name = s.name /\ t.readings = s.readings /\ t.tests = s.tests /\ t.info = s.info
  /\ \A mode \in CodeFields : t[mode] = s[mode]

ScanFields == {"name", "supported", "readings", "stored", "pending", "permanent", "frame",
               "tests", "info", "moduleVin", "unsupported", "errors"}
LEMMA FieldsOf ==
  ASSUME NEW s, NEW name, IsScan(s, name), NEW field \in ScanFields, NEW x
  PROVE  /\ [s EXCEPT ![field] = x][field] = x
         /\ \A g \in ScanFields \ {field} : [s EXCEPT ![field] = x][g] = s[g]
BY DEF IsScan, ScanFields

LEMMA AlikeIs ==
  ASSUME Shape, step \in ObdSteps
  PROVE  /\ Alike(scan, scan) /\ \A r : Alike(scan, Noted(r))
         /\ \A field \in {"supported", "frame", "moduleVin"} : \A x : Alike(scan, [scan EXCEPT ![field] = x])
<1>1. Alike(scan, scan) BY DEF Alike
<1>2. IsScan(scan, scan.name) BY HandIs
<1>3. ASSUME NEW r PROVE Alike(scan, Noted(r))
  <2>1. {"name", "readings", "tests", "info"} \cup CodeFields \subseteq DOMAIN scan \ {"unsupported", "errors"}
    BY <1>2 DEF IsScan, CodeFields
  <2> DEFINE t == Noted(r)
  <2>2. \A g \in {"name", "readings", "tests", "info"} \cup CodeFields : t[g] = scan[g]
    BY <2>1, NotedIs DEF Shape
  <2> HIDE DEF t
  <2>3. Alike(scan, t) BY <2>2 DEF Alike
  <2> QED BY <2>3 DEF t
<1>4. ASSUME NEW field \in {"supported", "frame", "moduleVin"}, NEW x
      PROVE  Alike(scan, [scan EXCEPT ![field] = x])
  <2> DEFINE t == [scan EXCEPT ![field] = x]
  <2>1. \A g \in ScanFields \ {field} : t[g] = scan[g] BY <1>2, FieldsOf DEF ScanFields
  <2> HIDE DEF t
  <2>2. Alike(scan, t) BY <2>1 DEF Alike, ScanFields, CodeFields
  <2> QED BY <2>2 DEF t
<1> QED BY <1>1, <1>3, <1>4

\* The account as it stands.
LEMMA OwedNow ==
  ASSUME Shape, LossInv, step \in ObdSteps
  PROVE  LET m == car.spec[scan.name]
         IN  /\ LivesHad(lost, m, scan, LiveAhead(step, base, walked, todo, DOMAIN m.pids))
             /\ CodesHad(lost, m, scan, CodeAhead(step))
             /\ TestsHad(lost, m, scan, TestAhead(step, base, walked, todo, MonitorIds(m)))
             /\ InfoHad(lost, m, scan, InfoAhead(step, todo, DOMAIN m.info))
             /\ Chained(lost, m, scan.name, step, base)
BY DEF LossInv, Owed

\* The parts of the account that a step does not touch.
LEMMA AlikeStays ==
  ASSUME NEW l, NEW k, l \subseteq k, NEW m, NEW s, NEW t, Alike(s, t)
  PROVE  /\ \A a, c : LivesHad(l, m, s, a) /\ DOMAIN m.pids \cap a \subseteq c => LivesHad(k, m, t, c)
         /\ \A a, c : CodesHad(l, m, s, a) /\ a \subseteq c => CodesHad(k, m, t, c)
         /\ \A a, c : TestsHad(l, m, s, a) /\ MonitorIds(m) \cap a \subseteq c => TestsHad(k, m, t, c)
         /\ \A a, c : InfoHad(l, m, s, a) /\ DOMAIN m.info \cap a \subseteq c => InfoHad(k, m, t, c)
<1>1. /\ t.name = s.name /\ DOMAIN s.readings \subseteq DOMAIN t.readings /\ Range(s.tests) \subseteq Range(t.tests)
      /\ DOMAIN s.info \subseteq DOMAIN t.info /\ \A mode \in CodeFields : t[mode] = s[mode]
  BY DEF Alike
<1>2. \A a, c : LivesHad(l, m, s, a) /\ DOMAIN m.pids \cap a \subseteq c => LivesHad(k, m, t, c) BY <1>1, LivesStay
<1>3. \A a, c : CodesHad(l, m, s, a) /\ a \subseteq c => CodesHad(k, m, t, c) BY <1>1, CodesStay
<1>4. \A a, c : TestsHad(l, m, s, a) /\ MonitorIds(m) \cap a \subseteq c => TestsHad(k, m, t, c)
  <2> TAKE a, c
  <2> HAVE TestsHad(l, m, s, a) /\ MonitorIds(m) \cap a \subseteq c
  <2>1. \A i \in DOMAIN m.tests : m.tests[i].monitor \in MonitorIds(m) BY DEF MonitorIds, Range
  <2>2. \A i \in DOMAIN m.tests : m.tests[i].monitor \in a => m.tests[i].monitor \in c BY <2>1
  <2> QED BY <1>1, <2>2, TestsStay
<1>5. \A a, c : InfoHad(l, m, s, a) /\ DOMAIN m.info \cap a \subseteq c => InfoHad(k, m, t, c) BY <1>1, InfoStays
<1> QED BY <1>2, <1>3, <1>4, <1>5

\* Going on in the walk, or into what follows: the parts of the account that no bitmap is about.
LEMMA SupportedLoss ==
  ASSUME Shape, Shape', LossInv, NEW r \in Replies, Taken(r), Supported(r)
  PROVE  LossInv'
<1> DEFINE m == car.spec[scan.name]
           P == DOMAIN m.pids
<1>1. step = "supported" /\ step \in ObdSteps /\ car' = car /\ UNCHANGED surveyRest /\ Asking
  BY DEF Supported, Taken, ObdSteps, Asking
<1>2. lost \subseteq lost' BY <1>1, Charged
<1>3. step' = "supported" \/ (step' = "walk" /\ base' = 0 /\ walked' = {})
  BY <1>1 DEF Supported, NextBitmap, Go
<1>4. Alike(scan, scan')
  <2>1. \/ scan' = Noted(r) \/ scan' = scan \/ \E x : scan' = [scan EXCEPT !.supported = x]
    BY DEF Supported, NextBitmap
  <2> QED BY <1>1, <2>1, AlikeIs
<1>5. \A pid \in P : pid > 0
  <2>1. IsModule(m) BY <1>1, HandIs
  <2>2. P \subseteq KnownPids BY <2>1, ModuleIs
  <2>3. \A pid \in KnownPids : pid > 0 BY DEF KnownPids, Width, Trims, Words
  <2> QED BY <2>2, <2>3
<1>6. LiveAhead(step', base', walked', todo', P) = P
  <2> HIDE DEF P
  <2>1. CASE step' = "supported" BY <2>1, LiveAheadIs
  <2>2. CASE step' = "walk" /\ base' = 0
    <3>1. LiveAhead("walk", 0, walked', todo', P) = {pid \in P : pid > 0 \/ pid \in walked'} BY LiveAheadIs
    <3> QED BY <1>5, <2>2, <3>1
  <2> QED BY <1>3, <2>1, <2>2
<1>7. /\ LivesHad(lost, m, scan, P) /\ CodesHad(lost, m, scan, CodeFields)
      /\ TestsHad(lost, m, scan, MonitorIds(m)) /\ InfoHad(lost, m, scan, DOMAIN m.info)
  <2>1. /\ LivesHad(lost, m, scan, LiveAhead(step, base, walked, todo, P))
        /\ CodesHad(lost, m, scan, CodeAhead(step))
        /\ TestsHad(lost, m, scan, TestAhead(step, base, walked, todo, MonitorIds(m)))
        /\ InfoHad(lost, m, scan, InfoAhead(step, todo, DOMAIN m.info))
    BY <1>1, OwedNow
  <2> HIDE DEF m, P
  <2> QED BY <1>1, <2>1, LiveAheadIs, EarlyAhead
<1> HIDE DEF m, P
<1>8. /\ LivesHad(lost', m, scan', P) /\ CodesHad(lost', m, scan', CodeFields)
      /\ TestsHad(lost', m, scan', MonitorIds(m)) /\ InfoHad(lost', m, scan', DOMAIN m.info)
  BY <1>2, <1>4, <1>7, AlikeStays
<1>9. /\ CodeAhead(step') = CodeFields
      /\ TestAhead(step', base', walked', todo', MonitorIds(m)) = MonitorIds(m)
      /\ InfoAhead(step', todo', DOMAIN m.info) = DOMAIN m.info
      /\ Chained(lost', m, scan.name, step', base')
  BY <1>3, EarlyAhead
<1>10. step' \in ObdSteps BY <1>3 DEF ObdSteps
<1> QED BY <1>1, <1>2, <1>6, <1>8, <1>9, <1>10, ObdLoss DEF m, P

\* A bitmap tells of every item in its range, and whether there is a next one.
WithBitmap(P, b, w) == w \cup {b + n : n \in Offsets(SupportBitmap(P \cup BitmapBases(P), b))}
Tells(P, b, w) ==
  LET found == WithBitmap(P, b, w)
  IN  /\ \A p \in P : p > b /\ p <= b + 32 => p \in found
      /\ \A p \in P : p > b => b \in BitmapBases(P)
      /\ \A p \in P : p > b + 32 => b + 32 \in found /\ b + 32 <= 192
      /\ b + 32 \in found => b + 32 \in BitmapBases(P)
      /\ w \subseteq found
LEMMA BitmapTells ==
  ASSUME NEW P, \A p \in P : p \in Nat /\ p % 32 # 0 /\ p < 224, NEW b, b \in {32 * i : i \in 0 .. 7},
         NEW w, w \subseteq 1 .. b
  PROVE  Tells(P, b, w)
<1> PICK i \in 0 .. 7 : b = 32 * i OBVIOUS
<1> DEFINE found == WithBitmap(P, b, w)
<1> DEFINE items == P \cup BitmapBases(P)
<1>0. b \in Nat OBVIOUS
<1>1. Offsets(SupportBitmap(items, b)) = {n \in 1 .. 32 : b + n \in items} BY <1>0, BitmapTheorem
<1>2. \A x : x \in found <=> x \in w \/ \E n \in 1 .. 32 : x = b + n /\ b + n \in items
  BY <1>1 DEF WithBitmap
<1> HIDE DEF found
<1>3. \A p \in P, c \in {0, 32, 64, 96, 128, 160, 192} : p > c => c \in BitmapBases(P) BY DEF BitmapBases
<1>4. ASSUME NEW p \in P, p > b, p <= b + 32
      PROVE  p \in found
  <2>1. p - b \in 1 .. 32 /\ p = b + (p - b) BY <1>0, <1>4
  <2> QED BY <1>2, <2>1
<1>5. ASSUME NEW p \in P, p > b
      PROVE  b \in BitmapBases(P)
  <2>1. p < 224 /\ p \in Nat OBVIOUS
  <2>2. b \in {0, 32, 64, 96, 128, 160, 192} BY <1>5, <2>1
  <2> QED BY <1>3, <1>5, <2>2
<1>6. ASSUME NEW p \in P, p > b + 32
      PROVE  b + 32 \in found /\ b + 32 <= 192
  <2>1. p < 224 /\ p \in Nat OBVIOUS
  <2>2. b + 32 \in {0, 32, 64, 96, 128, 160, 192} BY <1>6, <2>1
  <2>3. b + 32 \in items BY <1>3, <1>6, <2>2
  <2> HIDE DEF items
  <2>4. \A n \in 1 .. 32 : b + n \in items => b + n \in found BY <1>2
  <2>5. 32 \in 1 .. 32 OBVIOUS
  <2>6. b + 32 \in found BY <2>3, <2>4, <2>5
  <2> QED BY <2>2, <2>6
<1>7. ASSUME b + 32 \in found
      PROVE  b + 32 \in BitmapBases(P)
  <2>1. b + 32 \notin w BY <1>0
  <2>2. PICK n \in 1 .. 32 : b + 32 = b + n /\ b + n \in items BY <1>2, <1>7, <2>1
  <2>3. b + 32 \in items BY <2>2
  <2>4. (b + 32) % 32 = 0 OBVIOUS
  <2>5. b + 32 \notin P BY <2>4
  <2> QED BY <2>3, <2>5
<1> QED BY <1>2, <1>4, <1>5, <1>6, <1>7 DEF Tells, found

\* The answer to a request for a bitmap.
LEMMA BitmapAnswer ==
  ASSUME NEW m, IsModule(m), NEW ext, NEW b, b % 32 = 0
  PROVE  LET P == DOMAIN m.pids
         IN  /\ b \in BitmapBases(P) =>
                  Handle(m, ext, Request(1, b)) = Positive(Request(1, b)) \o SupportBitmap(P \cup BitmapBases(P), b)
             /\ b \notin BitmapBases(P) => Handle(m, ext, Request(1, b)) = << >>
<1> DEFINE P == DOMAIN m.pids
           req == Request(1, b)
<1>1. req.svc = 1 /\ req.id = b BY DEF Request
<1> HIDE DEF req
<1>2. Handle(m, ext, req) = Table(Coded(m.pids), req) BY <1>1 DEF Handle
<1>3. DOMAIN Coded(m.pids) = P BY DEF Coded
<1>4. b \notin P
  <2>1. P \subseteq KnownPids BY ModuleIs
  <2>2. \A pid \in KnownPids : pid % 32 # 0 BY DEF KnownPids
  <2> QED BY <2>1, <2>2
<1> QED BY <1>1, <1>2, <1>3, <1>4 DEF Table, req

\* A walk that is over has every parameter listed, or was not answered at or before its bitmap.
LEMMA WalkTells ==
  ASSUME Shape, step = "walk", NEW r \in Replies, Taken(r), r.how # "fault",
         NEW pid \in DOMAIN car.spec[scan.name].pids, pid > base \/ pid \in walked
  PROVE  /\ pid \in KnownPids
         /\ Echoed(r, 4) => pid \in Listed(r) \/ pid > base + 32
         /\ \/ Further(r) \/ pid \in Ended(r) \/ Gone(lost', scan.name, "walk", 0 .. pid)
<1> DEFINE m == car.spec[scan.name]
           P == DOMAIN m.pids
           bitmap == SupportBitmap(P \cup BitmapBases(P), base)
           found == WithBitmap(P, base, walked)
<1>1. Asking /\ step \in ObdSteps BY DEF Asking, ObdSteps
<1>2. Module = scan.name /\ IsModule(m) BY <1>1, HandIs
<1>3. P \subseteq KnownPids BY <1>2, ModuleIs
<1>4. \A p \in KnownPids : p \in Nat /\ p % 32 # 0 /\ p < 224 BY DEF KnownPids, Width, Trims, Words
<1>5. PICK i \in 0 .. 7 : base = 32 * i BY DEF Shape, Place
<1>6. walked \subseteq 1 .. base /\ base \in Nat BY <1>5 DEF Shape, Place
<1>7. base % 32 = 0 BY <1>5
<1>8. Current = Request(1, base) /\ Current \in Requests /\ Current.svc = 1 /\ Current.id = base
  <2>1. Current = Request(1, base) /\ Current \in Requests BY <1>1, CurrentOn, CurrentIs DEF Shape
  <2> QED BY <2>1, RequestIs
<1>9. bitmap \in Seq(Int) /\ Len(bitmap) = 4 BY BitmapIs
<1> HIDE DEF bitmap, found
<1>10. /\ \A p \in P : p > base /\ p <= base + 32 => p \in found
       /\ \A p \in P : p > base => base \in BitmapBases(P)
       /\ \A p \in P : p > base + 32 => base + 32 \in found /\ base + 32 <= 192
       /\ walked \subseteq found
  <2>1. \A p \in P : p \in Nat /\ p % 32 # 0 /\ p < 224 BY <1>3, <1>4
  <2>2. base \in {32 * j : j \in 0 .. 7} BY DEF Shape, Place
  <2> HIDE DEF P
  <2>3. Tells(P, base, walked) BY <1>6, <2>1, <2>2, BitmapTells
  <2> QED BY <2>3 DEF Tells, found
<1>11. Echoed(r, 4) => Listed(r) = found
  <2> SUFFICES ASSUME Echoed(r, 4) PROVE Listed(r) = found OBVIOUS
  <2>1. PICK ext \in BOOLEAN : ext = (session[Module] = 3) OBVIOUS
  <2>2. r.how = "bytes" /\ r.data = Handle(m, ext, Current) BY <1>1, <1>2, <1>8, <2>1, EchoedIs DEF Echoing
  <2>3. r.data # << >> BY <2>2, ReplyIs
  <2>4. r.data = Positive(Current) \o bitmap
    <3> HIDE DEF m
    <3>1. Handle(m, ext, Current) = Positive(Current) \o bitmap \/ Handle(m, ext, Current) = << >>
      BY <1>2, <1>7, <1>8, BitmapAnswer DEF bitmap, P
    <3> QED BY <2>2, <2>3, <3>1
  <2>5. Data(r) = bitmap BY <1>8, <1>9, <2>4, BodyIs
  <2> QED BY <2>5 DEF Listed, found, bitmap, WithBitmap
<1>12. pid \in Nat /\ pid \in KnownPids /\ pid \in P BY <1>3, <1>4
<1>13. Echoed(r, 4) => pid \in Listed(r) \/ pid > base + 32 BY <1>6, <1>10, <1>11, <1>12
<1>14. CASE Echoed(r, 4)
  <2>1. Ended(r) = Listed(r) BY <1>14 DEF Ended
  <2>2. pid > base + 32 => Further(r) BY <1>10, <1>11, <1>12, <1>14 DEF Further
  <2> QED BY <1>12, <1>13, <1>14, <2>1, <2>2
<1>15. CASE ~Echoed(r, 4)
  <2>1. Ended(r) = walked BY <1>15 DEF Ended
  <2>2. CASE pid \in walked BY <1>12, <1>15, <2>1, <2>2
  <2>3. CASE pid > base
    <3>1. r # Bytes(Answer(Current))
      <4> SUFFICES ASSUME r = Bytes(Answer(Current)) PROVE FALSE OBVIOUS
      <4>1. PICK ext \in BOOLEAN : \A req : Answer(req) = Handle(m, ext, req) BY <1>1, OwnAnswer
      <4>2. base \in BitmapBases(P) BY <1>10, <1>12, <2>3
      <4>3. Answer(Current) = Positive(Current) \o bitmap
        <5> HIDE DEF m
        <5>1. Handle(m, ext, Current) = Positive(Current) \o bitmap
          BY <1>2, <1>7, <1>8, <4>2, BitmapAnswer DEF bitmap, P
        <5> QED BY <4>1, <5>1
      <4>4. Current.svc \in Echoing /\ 4 \in Nat /\ Len(bitmap) >= 4 BY <1>8, <1>9 DEF Echoing
      <4>5. r = Bytes(Positive(Current) \o bitmap) BY <4>3
      <4>6. Echoed(r, 4) BY <1>8, <1>9, <4>4, <4>5, OwnEchoed
      <4> QED BY <1>15, <4>6
    <3>2. Current.id \in 0 .. pid BY <1>6, <1>8, <1>12, <2>3
    <3>3. Gone(lost', scan.name, "walk", 0 .. pid)
      <4> DEFINE ids == 0 .. pid
      <4>1. Current.id \in ids BY <3>2
      <4> HIDE DEF ids
      <4>2. Gone(lost', scan.name, step, ids) BY <1>1, <3>1, <4>1, Charged
      <4> QED BY <4>2 DEF ids
    <3> QED BY <1>12, <1>15, <3>3
  <2> QED BY <2>2, <2>3
<1> QED BY <1>14, <1>15

LEMMA WalkLoss ==
  ASSUME Shape, Shape', LossInv, NEW r \in Replies, Taken(r), Walk(r)
  PROVE  LossInv'
<1> DEFINE m == car.spec[scan.name]
           P == DOMAIN m.pids
           name == scan.name
<1>1. step = "walk" /\ step \in ObdSteps /\ car' = car /\ UNCHANGED surveyRest /\ Asking /\ WalkFor(r, "pids")
  BY DEF Walk, Taken, ObdSteps, Asking
<1>2. lost \subseteq lost' BY <1>1, Charged
<1>3. Alike(scan, scan')
  <2>1. scan' = Noted(r) \/ scan' = scan BY <1>1 DEF WalkFor, NextBitmap
  <2> QED BY <1>1, <2>1, AlikeIs
<1>4. step' \in {"walk", "pids", "stored"}
  <2>1. \/ step' = "stored" \/ step' = step \/ \E ids : Loop("pids", ids)
    BY <1>1, AfterIs DEF WalkFor, NextBitmap, Go
  <2> QED BY <1>1, <2>1, LoopIs, AfterIs
<1> DEFINE owed == {pid \in P : pid > base \/ pid \in walked}
<1>5. /\ LivesHad(lost, m, scan, owed)
      /\ CodesHad(lost, m, scan, CodeFields)
      /\ TestsHad(lost, m, scan, MonitorIds(m)) /\ InfoHad(lost, m, scan, DOMAIN m.info)
  <2>1. /\ LivesHad(lost, m, scan, LiveAhead(step, base, walked, todo, P))
        /\ CodesHad(lost, m, scan, CodeAhead(step))
        /\ TestsHad(lost, m, scan, TestAhead(step, base, walked, todo, MonitorIds(m)))
        /\ InfoHad(lost, m, scan, InfoAhead(step, todo, DOMAIN m.info))
    BY <1>1, OwedNow
  <2> HIDE DEF m, P
  <2>2. LiveAhead(step, base, walked, todo, P) = owed BY <1>1, LiveAheadIs
  <2> HIDE DEF owed
  <2> QED BY <1>1, <2>1, <2>2, EarlyAhead
<1>6. /\ CodesHad(lost', m, scan', CodeFields)
      /\ TestsHad(lost', m, scan', MonitorIds(m)) /\ InfoHad(lost', m, scan', DOMAIN m.info)
  <2> HIDE DEF m
  <2> QED BY <1>2, <1>3, <1>5, AlikeStays
<1>7. /\ CodeAhead(step') = CodeFields
      /\ TestAhead(step', base', walked', todo', MonitorIds(m)) = MonitorIds(m)
      /\ InfoAhead(step', todo', DOMAIN m.info) = DOMAIN m.info
      /\ Chained(lost', m, scan.name, step', base')
  BY <1>4, EarlyAhead
<1> DEFINE ahead == LiveAhead(step', base', walked', todo', P)
<1>8. LivesHad(lost', m, scan', ahead)
  <2>0. scan'.name = name /\ scan'.readings = scan.readings BY <1>3 DEF Alike
  <2>1. CASE r.how = "fault"
    <3>2. Broke(lost', name, "walk") BY <1>1, <2>1, Charged
    <3> QED BY <2>0, <3>2 DEF LivesHad
  <2>2. CASE r.how # "fault"
    <3>1. ASSUME NEW pid \in P, pid > base \/ pid \in walked
          PROVE  pid \in ahead \/ Gone(lost', name, "walk", 0 .. pid)
      <4>0. /\ pid \in KnownPids
            /\ Echoed(r, 4) => pid \in Listed(r) \/ pid > base + 32
            /\ Further(r) \/ pid \in Ended(r) \/ Gone(lost', name, "walk", 0 .. pid)
        BY <1>1, <2>2, <3>1, WalkTells
      <4>1. CASE Further(r)
        <5>1. step' = "walk" /\ base' = base + 32 /\ walked' = Listed(r)
          BY <1>1, <2>2, <4>1 DEF WalkFor, NextBitmap
        <5>2. ahead = {p \in P : p > base + 32 \/ p \in Listed(r)} BY <5>1, LiveAheadIs
        <5>3. Echoed(r, 4) BY <4>1 DEF Further
        <5> QED BY <4>0, <5>2, <5>3
      <4>2. CASE ~Further(r)
        <5> DEFINE ids == Ended(r) \cap KnownPids
        <5>1. Loop("pids", ids) BY <1>1, <2>2, <4>2 DEF WalkFor
        <5>2. pid \in ids \/ Gone(lost', name, "walk", 0 .. pid) BY <4>0, <4>2
        <5> HIDE DEF ids
        <5>3. ids # {} => step' = "pids" /\ todo' = ids BY <5>1, LoopIs
        <5>4. ids # {} => ahead = ids BY <5>3, LiveAheadIs
        <5> QED BY <5>2, <5>4
      <4> QED BY <4>1, <4>2
    <3> HIDE DEF ahead
    <3>2. LivesHad(lost', m, scan', owed)
      <4> HIDE DEF m, P, owed
      <4> QED BY <1>2, <1>3, <1>5, AlikeStays
    <3>3. \A pid \in owed : pid \in ahead \/ Gone(lost', name, "walk", 0 .. pid) BY <3>1
    <3> HIDE DEF owed
    <3> QED BY <2>0, <3>2, <3>3 DEF LivesHad
  <2> QED BY <2>1, <2>2
<1>9. step' \in ObdSteps BY <1>4 DEF ObdSteps
<1> QED BY <1>1, <1>2, <1>6, <1>7, <1>8, <1>9, ObdLoss

\* A module answers for every parameter that it has.
LEMMA PidTold ==
  ASSUME Shape, step = "pids", NEW r \in Replies, r = Bytes(Answer(Current)),
         Min(todo) \in DOMAIN car.spec[scan.name].pids
  PROVE  Echoed(r, Width[Min(todo)])
<1> DEFINE m == car.spec[scan.name]
           pid == Min(todo)
           e == EncodePid(pid, m.pids[pid])
<1>1. Asking /\ step \in ObdSteps BY DEF Asking, ObdSteps
<1>2. IsModule(m) /\ pid \in KnownPids BY <1>1, HandIs, NextIs DEF Shape
<1>3. Current = Request(1, pid) /\ Current \in Requests /\ Current.svc = 1 /\ Current.id = pid
  <2>1. Current = Request(1, pid) /\ Current \in Requests BY <1>1, CurrentOn, CurrentIs DEF Shape
  <2> QED BY <2>1, RequestIs
<1>4. PICK ext \in BOOLEAN : \A req : Answer(req) = Handle(m, ext, req) BY <1>1, OwnAnswer
<1>5. e \in Seq(Int) /\ Len(e) = Width[pid]
  <2>1. InRange(pid, m.pids[pid]) BY <1>2, ModuleIs
  <2> QED BY <1>2, <2>1, EncodePidIs
<1>6. Width[pid] \in Nat BY <1>2 DEF KnownPids, Width, Trims, Words
<1>7. Answer(Current) = Positive(Current) \o e
  <2> HIDE DEF m, pid, e
  <2>1. Handle(m, ext, Request(1, pid)) =
          IF pid \in DOMAIN m.pids THEN <<65, pid>> \o EncodePid(pid, m.pids[pid]) ELSE << >>
    BY <1>2, PidAnswer
  <2>2. pid \in DOMAIN m.pids BY DEF m, pid
  <2>3. Positive(Current) = <<65, pid>> BY <1>3, PositiveIs
  <2> QED BY <1>3, <1>4, <2>1, <2>2, <2>3 DEF e
<1> HIDE DEF e
<1>8. Current.svc \in Echoing /\ Len(e) >= Width[pid] BY <1>3, <1>5, <1>6 DEF Echoing
<1>9. r = Bytes(Positive(Current) \o e) BY <1>7
<1> QED BY <1>3, <1>5, <1>6, <1>8, <1>9, OwnEchoed

LEMMA LiveLoss ==
  ASSUME Shape, Shape', LossInv, NEW r \in Replies, Taken(r), ReadLive(r)
  PROVE  LossInv'
<1> DEFINE m == car.spec[scan.name]
           P == DOMAIN m.pids
           name == scan.name
           pid == Min(todo)
           value == DecodePid(pid, Data(r))
<1>1. /\ step = "pids" /\ step \in ObdSteps /\ car' = car /\ UNCHANGED surveyRest /\ Asking
      /\ ReadPid(r, "pids", "readings")
  BY DEF ReadLive, ReadPid, Taken, ObdSteps, Asking
<1>2. lost \subseteq lost' BY <1>1, Charged
<1>3. IsScan(scan, name) /\ IsScan(Noted(r), name) /\ Alike(scan, Noted(r))
  BY <1>1, HandIs, NotedIs, AlikeIs DEF Shape
<1>4. \/ r.how = "fault" /\ scan' = [Noted(r) EXCEPT !.readings = << >>] /\ step' = "stored"
      \/ /\ r.how # "fault"
         /\ \/ step' = "stored" /\ todo = {pid}
            \/ step' = "pids" /\ todo' = todo \ {pid}
         /\ scan' = IF Echoed(r, Width[pid]) THEN [scan EXCEPT !.readings = With(@, pid, value)] ELSE scan
  BY <1>1, AfterIs DEF ReadPid, Go
<1>5. step' \in {"pids", "stored"} BY <1>4
<1> HIDE DEF value
<1>6. /\ scan'.name = name /\ scan'.tests = scan.tests /\ scan'.info = scan.info
      /\ \A mode \in CodeFields : scan'[mode] = scan[mode]
      /\ r.how # "fault" => /\ DOMAIN scan.readings \subseteq DOMAIN scan'.readings
                            /\ Echoed(r, Width[pid]) => pid \in DOMAIN scan'.readings
  <2>1. CASE r.how = "fault"
    <3> DEFINE s == Noted(r)
    <3>1. scan' = [s EXCEPT !.readings = << >>] BY <1>4, <2>1
    <3>2. IsScan(s, name) /\ Alike(scan, s) BY <1>3
    <3> HIDE DEF s, name
    <3> DEFINE field == "readings"
    <3>4. field \in ScanFields BY DEF ScanFields
    <3> DEFINE x == << >>
    <3>5. scan' = [s EXCEPT ![field] = x] BY <3>1
    <3> HIDE DEF field, x
    <3>6. \A g \in ScanFields \ {field} : scan'[g] = s[g] BY <3>2, <3>4, <3>5, FieldsOf
    <3>3. \A g \in ScanFields \ {"readings"} : scan'[g] = s[g] BY <3>6 DEF field
    <3> QED BY <2>1, <3>2, <3>3 DEF Alike, ScanFields, CodeFields, name
  <2>2. CASE r.how # "fault" /\ ~Echoed(r, Width[pid]) BY <1>4, <2>2
  <2>3. CASE r.how # "fault" /\ Echoed(r, Width[pid])
    <3>1. scan' = [scan EXCEPT !.readings = With(@, pid, value)] BY <1>4, <2>3
    <3> HIDE DEF name, pid
    <3> DEFINE x == With(scan.readings, pid, value)
    <3>2. scan' = [scan EXCEPT !.readings = x] BY <3>1
    <3>3. DOMAIN x = DOMAIN scan.readings \cup {pid} BY DEF With
    <3> HIDE DEF x
    <3>4. scan'.readings = x /\ \A g \in ScanFields \ {"readings"} : scan'[g] = scan[g]
      BY <1>3, <3>2, FieldsOf DEF ScanFields
    <3> QED BY <3>3, <3>4 DEF ScanFields, CodeFields, name
  <2> QED BY <2>1, <2>2, <2>3
<1>7. /\ LivesHad(lost, m, scan, todo) /\ CodesHad(lost, m, scan, CodeFields)
      /\ TestsHad(lost, m, scan, MonitorIds(m)) /\ InfoHad(lost, m, scan, DOMAIN m.info)
  <2>1. /\ LivesHad(lost, m, scan, LiveAhead(step, base, walked, todo, P))
        /\ CodesHad(lost, m, scan, CodeAhead(step))
        /\ TestsHad(lost, m, scan, TestAhead(step, base, walked, todo, MonitorIds(m)))
        /\ InfoHad(lost, m, scan, InfoAhead(step, todo, DOMAIN m.info))
    BY <1>1, OwedNow
  <2> HIDE DEF m, P
  <2>2. LiveAhead(step, base, walked, todo, P) = todo BY <1>1, LiveAheadIs
  <2> QED BY <1>1, <2>1, <2>2, EarlyAhead
<1>8. /\ CodesHad(lost', m, scan', CodeFields)
      /\ TestsHad(lost', m, scan', MonitorIds(m)) /\ InfoHad(lost', m, scan', DOMAIN m.info)
  <2> HIDE DEF m
  <2>1. CodesHad(lost', m, scan', CodeFields) BY <1>2, <1>6, <1>7, CodesStay
  <2>2. TestsHad(lost', m, scan', MonitorIds(m))
    <3>1. Range(scan.tests) \subseteq Range(scan'.tests) BY <1>6
    <3> QED BY <1>2, <1>6, <1>7, <3>1, TestsStay
  <2>3. InfoHad(lost', m, scan', DOMAIN m.info)
    <3>1. DOMAIN scan.info \subseteq DOMAIN scan'.info BY <1>6
    <3> QED BY <1>2, <1>6, <1>7, <3>1, InfoStays
  <2> QED BY <2>1, <2>2, <2>3
<1>9. /\ CodeAhead(step') = CodeFields
      /\ TestAhead(step', base', walked', todo', MonitorIds(m)) = MonitorIds(m)
      /\ InfoAhead(step', todo', DOMAIN m.info) = DOMAIN m.info
      /\ Chained(lost', m, scan.name, step', base')
  BY <1>5, EarlyAhead
<1> DEFINE ahead == LiveAhead(step', base', walked', todo', P)
<1>10. LivesHad(lost', m, scan', ahead)
  <2>1. CASE r.how = "fault"
    <3>1. Broke(lost', name, "pids") BY <1>1, <2>1, Charged
    <3> QED BY <1>6, <3>1 DEF LivesHad
  <2>2. CASE r.how # "fault"
    <3>1. todo \ {pid} \subseteq ahead
      <4>1. CASE step' = "pids"
        <5>1. ahead = todo' BY <4>1, LiveAheadIs
        <5> QED BY <1>4, <2>2, <4>1, <5>1
      <4>2. CASE step' = "stored" BY <1>4, <2>2, <4>2
      <4> QED BY <1>5, <4>1, <4>2
    <3>2. pid \in P => pid \in DOMAIN scan'.readings \/ Gone(lost', name, "pids", {pid})
      <4>1. CASE r = Bytes(Answer(Current)) BY <1>1, <1>6, <2>2, <4>1, PidTold
      <4>2. CASE r # Bytes(Answer(Current))
        <5>1. Current.id = pid BY <1>1, CurrentOn, RequestIs
        <5> DEFINE ids == {pid}
        <5>2. Current.id \in ids BY <5>1
        <5> HIDE DEF ids
        <5>3. Gone(lost', scan.name, step, ids) BY <1>1, <4>2, <5>2, Charged
        <5> QED BY <1>1, <5>3 DEF ids
      <4> QED BY <4>1, <4>2
    <3>3. LivesHad(lost', m, scan', todo)
      <4> HIDE DEF m
      <4> QED BY <1>2, <1>6, <1>7, <2>2, LivesStay
    <3> HIDE DEF ahead, pid
    <3> QED BY <1>6, <3>1, <3>2, <3>3 DEF LivesHad
  <2> QED BY <2>1, <2>2
<1>11. step' \in ObdSteps BY <1>5 DEF ObdSteps
<1> QED BY <1>1, <1>2, <1>8, <1>9, <1>10, <1>11, ObdLoss

\* A module that answers lists all its codes.
LEMMA CodesTold ==
  ASSUME Shape, step \in CodeFields, NEW r \in Replies, r = Bytes(Answer(Current))
  PROVE  Exchanged(r) = "reply" /\ ParseDtcs(r.data) = car.spec[scan.name][step]
<1> DEFINE m == car.spec[scan.name]
           c == Current
<1>1. Asking /\ step \in ObdSteps BY DEF Asking, ObdSteps, CodeFields
<1>2. IsModule(m) BY <1>1, HandIs
<1>3. PICK ext \in BOOLEAN : \A req : Answer(req) = Handle(m, ext, req) BY <1>1, OwnAnswer
<1>4. PICK svc \in {3, 7, 10} : c.svc = svc /\ Answer(c) = DtcResponse(svc, m[step])
  <2> HIDE DEF m
  <2>1. CASE step = "stored"
    <3>1. c = Request(3, 0) BY <2>1, CurrentOn
    <3>2. c.svc = 3 BY <3>1, RequestIs
    <3>3. Handle(m, ext, c) = DtcResponse(3, m.stored) BY <3>1, CodesAnswer
    <3> QED BY <1>3, <2>1, <3>2, <3>3
  <2>2. CASE step = "pending"
    <3>1. c = Request(7, 0) BY <2>2, CurrentOn
    <3>2. c.svc = 7 BY <3>1, RequestIs
    <3>3. Handle(m, ext, c) = DtcResponse(7, m.pending) BY <3>1, CodesAnswer
    <3> QED BY <1>3, <2>2, <3>2, <3>3
  <2>3. CASE step = "permanent"
    <3>1. c = Request(10, 0) BY <2>3, CurrentOn
    <3>2. c.svc = 10 BY <3>1, RequestIs
    <3>3. Handle(m, ext, c) = DtcResponse(10, m.permanent) BY <3>1, CodesAnswer
    <3> QED BY <1>3, <2>3, <3>2, <3>3
  <2> QED BY <2>1, <2>2, <2>3 DEF CodeFields
<1>5. m[step] \in Seq(Codes \ {Padding}) BY <1>2, ModuleIs DEF CodeFields
<1> DEFINE codes == m[step]
           d == DtcResponse(svc, codes)
<1>6. r.data = d /\ r.how = (IF d = << >> THEN "silence" ELSE "bytes") BY <1>4 DEF Bytes
<1> HIDE DEF codes, m, c
<1>7. ParseDtcs(d) = codes
  <2>1. codes \in Seq(Codes \ {Padding}) BY <1>5 DEF codes
  <2>2. svc \in Nat OBVIOUS
  <2> QED BY <2>1, <2>2, ParsedTheorem
<1>8. d[1] = svc + 64 /\ d # << >>
  <2>1. Len(codes) \in Nat BY <1>5 DEF codes
  <2>2. 1 \in 1 .. 2 + 2 * Len(codes) BY <2>1
  <2>3. d[1] = svc + 64 BY <2>2 DEF DtcResponse
  <2>4. DOMAIN d = 1 .. 2 + 2 * Len(codes) BY DEF DtcResponse
  <2> HIDE DEF d
  <2>5. DOMAIN << >> = {} OBVIOUS
  <2> QED BY <2>2, <2>3, <2>4, <2>5
<1> HIDE DEF d
<1>9. Exchanged(r) = "reply" BY <1>4, <1>6, <1>8 DEF Exchanged, c
<1> QED BY <1>6, <1>7, <1>9 DEF codes, m

\* Before the test results, and before the items, all of them are ahead.
LEMMA TestsAhead ==
  ASSUME NEW st \in Untested \ {"walk6"}, NEW b, NEW w, NEW ids, NEW M
  PROVE  TestAhead(st, b, w, ids, M) = M
BY DEF TestAhead, Untested
LEMMA ItemsAhead ==
  ASSUME NEW st \in Untested \cup {"tests"}, NEW ids, NEW I
  PROVE  InfoAhead(st, ids, I) = I
BY DEF InfoAhead, Untested

LEMMA CodesLoss ==
  ASSUME Shape, Shape', LossInv, NEW r \in Replies, Taken(r), ReadCodes(r)
  PROVE  LossInv'
<1> DEFINE m == car.spec[scan.name]
           P == DOMAIN m.pids
           name == scan.name
<1>1. step \in CodeFields /\ step \in ObdSteps /\ car' = car /\ UNCHANGED surveyRest /\ Asking
  BY DEF ReadCodes, ObdSteps, CodeFields, Asking, Taken
<1>2. lost \subseteq lost' BY <1>1, Charged
<1>3. IsScan(scan, name) BY <1>1, HandIs
<1>4. /\ step = "stored" => step' = "pending"
      /\ step = "pending" => step' = "permanent"
      /\ step = "permanent" => step' = "walk6"
      /\ base' = 0
  BY DEF ReadCodes, Go
<1>5. /\ scan'.name = name /\ scan'.readings = scan.readings /\ scan'.tests = scan.tests /\ scan'.info = scan.info
      /\ \A mode \in CodeFields \ {step} : scan'[mode] = scan[mode]
      /\ Exchanged(r) = "reply" => scan'[step] = ParseDtcs(r.data)
  <2>1. CASE Exchanged(r) = "reply"
    <3> DEFINE x == ParseDtcs(r.data)
    <3>1. scan' = [scan EXCEPT ![step] = x] BY <2>1 DEF ReadCodes
    <3> HIDE DEF x, name
    <3>2. scan'[step] = x /\ \A g \in ScanFields \ {step} : scan'[g] = scan[g]
      BY <1>1, <1>3, <3>1, FieldsOf DEF ScanFields, CodeFields
    <3> QED BY <1>1, <3>2 DEF ScanFields, CodeFields, x, name
  <2>2. CASE Exchanged(r) # "reply"
    <3>1. scan' = scan \/ scan' = Noted(r) BY <2>2 DEF ReadCodes
    <3>2. Alike(scan, scan') BY <1>1, <3>1, AlikeIs
    <3> QED BY <2>2, <3>2 DEF Alike
  <2> QED BY <2>1, <2>2
<1>6. scan'[step] = m[step] \/ Gone(lost', name, step, {0})
  <2>1. CASE r = Bytes(Answer(Current)) BY <1>1, <1>5, <2>1, CodesTold
  <2>2. CASE r # Bytes(Answer(Current))
    <3>1. Current.id = 0 BY <1>1, CurrentOn, RequestIs DEF CodeFields
    <3> QED BY <1>1, <2>2, <3>1, Charged
  <2> QED BY <2>1, <2>2
<1>7. /\ LivesHad(lost, m, scan, {}) /\ CodesHad(lost, m, scan, CodeAhead(step))
      /\ TestsHad(lost, m, scan, MonitorIds(m)) /\ InfoHad(lost, m, scan, DOMAIN m.info)
  <2>1. /\ LivesHad(lost, m, scan, LiveAhead(step, base, walked, todo, P))
        /\ CodesHad(lost, m, scan, CodeAhead(step))
        /\ TestsHad(lost, m, scan, TestAhead(step, base, walked, todo, MonitorIds(m)))
        /\ InfoHad(lost, m, scan, InfoAhead(step, todo, DOMAIN m.info))
    BY <1>1, OwedNow
  <2> HIDE DEF m, P
  <2>2. LiveAhead(step, base, walked, todo, P) = {} BY <1>1, LiveAheadIs DEF ObdSteps, CodeFields
  <2>3. step \in Untested \ {"walk6"} BY <1>1 DEF Untested, CodeFields
  <2>4. TestAhead(step, base, walked, todo, MonitorIds(m)) = MonitorIds(m) BY <2>3, TestsAhead
  <2>5. InfoAhead(step, todo, DOMAIN m.info) = DOMAIN m.info BY <2>3, ItemsAhead
  <2> QED BY <2>1, <2>2, <2>4, <2>5
<1>8. /\ LivesHad(lost', m, scan', {})
      /\ TestsHad(lost', m, scan', MonitorIds(m)) /\ InfoHad(lost', m, scan', DOMAIN m.info)
  <2> HIDE DEF m
  <2>1. LivesHad(lost', m, scan', {})
    <3>1. DOMAIN scan.readings \subseteq DOMAIN scan'.readings BY <1>5
    <3> QED BY <1>2, <1>5, <1>7, <3>1, LivesStay
  <2>2. TestsHad(lost', m, scan', MonitorIds(m))
    <3>1. Range(scan.tests) \subseteq Range(scan'.tests) BY <1>5
    <3> QED BY <1>2, <1>5, <1>7, <3>1, TestsStay
  <2>3. InfoHad(lost', m, scan', DOMAIN m.info)
    <3>1. DOMAIN scan.info \subseteq DOMAIN scan'.info BY <1>5
    <3> QED BY <1>2, <1>5, <1>7, <3>1, InfoStays
  <2> QED BY <2>1, <2>2, <2>3
<1>9. CodesHad(lost', m, scan', CodeAhead(step'))
  <2>1. CodeAhead(step) \ {step} \subseteq CodeAhead(step')
    BY <1>1, <1>4, CodeAheadIs DEF CodeFields
  <2>2. \A mode \in CodeFields : scan[mode] = m[mode] \/ mode \in CodeAhead(step) \/ Gone(lost, name, mode, {0})
    BY <1>7 DEF CodesHad
  <2> DEFINE none == {0}
  <2>3. \A mode : Gone(lost, name, mode, none) => Gone(lost', name, mode, none) BY <1>2, GoneStays
  <2> HIDE DEF none, m, name
  <2>4. \A mode \in CodeFields : scan'[mode] = m[mode] \/ mode \in CodeAhead(step') \/ Gone(lost', name, mode, none)
    BY <1>1, <1>5, <1>6, <2>1, <2>2, <2>3 DEF none
  <2> QED BY <1>5, <2>4 DEF CodesHad, none
<1>10. LiveAhead(step', base', walked', todo', P) = {}
  <2> HIDE DEF P
  <2>1. step' \in ObdSteps \ {"supported", "walk", "pids"} BY <1>1, <1>4 DEF ObdSteps, CodeFields
  <2> QED BY <2>1, LiveAheadIs
<1>11. TestsHad(lost', m, scan', TestAhead(step', base', walked', todo', MonitorIds(m)))
  <2> HIDE DEF m
  <2>1. CASE step' \in {"pending", "permanent"}
    <3>1. step' \in Untested \ {"walk6"} BY <2>1 DEF Untested
    <3>2. TestAhead(step', base', walked', todo', MonitorIds(m)) = MonitorIds(m) BY <3>1, TestsAhead
    <3> QED BY <1>8, <3>2
  <2>2. CASE step' = "walk6"
    <3> DEFINE ahead == TestAhead(step', base', walked', todo', MonitorIds(m))
    <3>1. ahead = {id \in MonitorIds(m) : id > 0 \/ id \in walked'} BY <1>4, <2>2, TestAheadIs
    <3>2. \A id \in MonitorIds(m) : id > 0
      <4>1. IsModule(m) BY <1>1, HandIs DEF m
      <4>2. m.tests \in Seq(Tests) BY <4>1, ModuleIs
      <4>3. \A t \in Range(m.tests) : t \in Tests BY <4>2 DEF Range
      <4>4. \A t \in Tests : t.monitor > 0
        <5>1. \A t \in Tests : t.monitor \in 0 .. 255 /\ t.monitor % 32 # 0 BY DEF Tests, Listable, Byte
        <5> QED BY <5>1
      <4> QED BY <4>3, <4>4 DEF MonitorIds
    <3>3. MonitorIds(m) \subseteq ahead BY <3>1, <3>2
    <3> HIDE DEF ahead
    <3>4. Range(scan'.tests) \subseteq Range(scan'.tests) /\ lost' \subseteq lost' OBVIOUS
    <3>5. \A i \in DOMAIN m.tests : m.tests[i].monitor \in MonitorIds(m) => m.tests[i].monitor \in ahead BY <3>3
    <3> QED BY <1>8, <3>4, <3>5, TestsStay DEF ahead
  <2> QED BY <1>1, <1>4, <2>1, <2>2 DEF CodeFields
<1>12. InfoAhead(step', todo', DOMAIN m.info) = DOMAIN m.info
  <2>1. step' \in Untested \cup {"tests"} BY <1>1, <1>4 DEF Untested, CodeFields
  <2> QED BY <2>1, ItemsAhead
<1>13. Chained(lost', m, scan.name, step', base') BY <1>4 DEF Chained, BitmapBases
<1>14. step' \in ObdSteps BY <1>1, <1>4 DEF ObdSteps, CodeFields
<1> QED BY <1>1, <1>2, <1>8, <1>9, <1>10, <1>11, <1>12, <1>13, <1>14, ObdLoss

\* What an action owes to the account once the codes are read.
LaterSteps == {"walk6", "tests", "info", "items", "walk2", "frames", "moduleVin"}
LEMMA LateLoss ==
  ASSUME Shape, Shape', LossInv, step \in LaterSteps, step' \in LaterSteps, car' = car, UNCHANGED surveyRest,
         lost \subseteq lost', scan'.name = scan.name, scan'.readings = scan.readings,
         \A mode \in CodeFields : scan'[mode] = scan[mode],
         LET m == car.spec[scan.name]
         IN  /\ TestsHad(lost', m, scan', TestAhead(step', base', walked', todo', MonitorIds(m)))
             /\ InfoHad(lost', m, scan', InfoAhead(step', todo', DOMAIN m.info))
             /\ Chained(lost', m, scan.name, step', base')
  PROVE  LossInv'
<1> DEFINE m == car.spec[scan.name]
           P == DOMAIN m.pids
<1>1. step \in ObdSteps /\ step' \in ObdSteps BY DEF LaterSteps, ObdSteps
<1>2. LivesHad(lost, m, scan, LiveAhead(step, base, walked, todo, P)) /\ CodesHad(lost, m, scan, CodeAhead(step))
  BY <1>1, OwedNow
<1> HIDE DEF m, P
<1>3. \A st \in LaterSteps : CodeAhead(st) = {} BY CodeAheadIs DEF LaterSteps
<1>4. \A st \in LaterSteps : \A b, w, ids : LiveAhead(st, b, w, ids, P) = {} BY DEF LiveAhead, LaterSteps
<1>5. LivesHad(lost, m, scan, {}) /\ CodesHad(lost, m, scan, {}) BY <1>2, <1>3, <1>4
<1>6. DOMAIN scan.readings \subseteq DOMAIN scan'.readings OBVIOUS
<1>7. LivesHad(lost', m, scan', {}) BY <1>5, <1>6, LivesStay
<1>8. CodesHad(lost', m, scan', {}) BY <1>5, CodesStay
<1>9. LivesHad(lost', m, scan', LiveAhead(step', base', walked', todo', P)) /\ CodesHad(lost', m, scan', CodeAhead(step'))
  BY <1>3, <1>4, <1>7, <1>8
<1> QED BY <1>1, <1>9, ObdLoss DEF m, P

LEMMA LateOwed ==
  ASSUME Shape, LossInv, step \in LaterSteps
  PROVE  LET m == car.spec[scan.name]
         IN  /\ TestsHad(lost, m, scan, TestAhead(step, base, walked, todo, MonitorIds(m)))
             /\ InfoHad(lost, m, scan, InfoAhead(step, todo, DOMAIN m.info))
             /\ Chained(lost, m, scan.name, step, base)
BY OwedNow DEF LaterSteps, ObdSteps

LEMMA FrontIs ==
  ASSUME NEW h \in Seq(Int), NEW e \in Seq(Int)
  PROVE  \A k \in 1 .. Len(h) : (h \o e)[k] = h[k]
OBVIOUS

LEMMA NoReply ==
  ASSUME NEW r, r.how # "bytes"
  PROVE  Exchanged(r) = r.how
BY DEF Exchanged

\* A module with test results answers for each of its bitmaps.
LEMMA MonitorsTold ==
  ASSUME Shape, step = "walk6", NEW r \in Replies, r = Bytes(Answer(Current)),
         NEW M, M = MonitorIds(car.spec[scan.name])
  PROVE  /\ M = {} => Exchanged(r) = "silence"
         /\ M # {} /\ base \in BitmapBases(M) =>
              /\ Exchanged(r) = "reply" /\ Len(r.data) = 6 /\ r.data[2] = base
              /\ SubSeq(r.data, 3, Len(r.data)) = SupportBitmap(M \cup BitmapBases(M), base)
<1> DEFINE m == car.spec[scan.name]
<1>1. step \in ObdSteps BY DEF ObdSteps
<1>2. IsModule(m) BY <1>1, HandIs
<1>3. Current.svc = 6 /\ Current.id = base BY CurrentOn, RequestIs
<1>4. PICK ext \in BOOLEAN : \A req : Answer(req) = Handle(m, ext, req) BY <1>1, OwnAnswer
<1>5. Answer(Current) = TestReply(m, base) BY <1>3, <1>4 DEF Handle
<1>6. base \in Int
  <2>1. PICK i \in 0 .. 7 : base = 32 * i BY DEF Shape, Place
  <2> QED BY <2>1
<1>7. M = MonitorIds(m) OBVIOUS
<1> HIDE DEF m
<1>8. CASE M = {}
  <2>1. \A i \in DOMAIN m.tests : FALSE BY <1>7, <1>8 DEF MonitorIds, Range
  <2>2. m.tests \in Seq(Tests) BY <1>2, ModuleIs
  <2>3. Range(m.tests) \cap OfMonitor(m, base) = {} BY <2>1 DEF Range
  <2>4. Kept(m.tests, OfMonitor(m, base)) = << >> BY <2>2, <2>3, KeptFacts
  <2>5. TestReply(m, base) = << >> BY <1>7, <1>8, <2>4 DEF TestReply
  <2>6. r.how = "silence" BY <1>5, <2>5 DEF Bytes
  <2>7. Exchanged(r) = "silence" BY <2>6, NoReply
  <2> QED BY <1>8, <2>7
<1>9. CASE M # {} /\ base \in BitmapBases(M)
  <2> DEFINE h == <<70, base>>
             e == SupportBitmap(M \cup BitmapBases(M), base)
             d == h \o e
  <2>1. TestReply(m, base) = d BY <1>7, <1>9 DEF TestReply
  <2>2. h \in Seq(Int) /\ Len(h) = 2 /\ h # << >> /\ h[1] = 70 /\ h[2] = base BY <1>6
  <2>3. e \in Seq(Int) /\ Len(e) = 4 BY BitmapIs
  <2> HIDE DEF h, e
  <2>8. Len(d) = Len(h) + Len(e) /\ d # << >> /\ d[1] = h[1] /\ SubSeq(d, Len(h) + 1, Len(d)) = e
    <3>1. h \in Seq(Int) /\ e \in Seq(Int) /\ h # << >> BY <2>2, <2>3
    <3> QED BY <3>1, HeaderBody
  <2>5. d[2] = base
    <3>1. \A k \in 1 .. Len(h) : (h \o e)[k] = h[k] BY <2>2, <2>3, FrontIs
    <3>2. 2 \in 1 .. Len(h) BY <2>2
    <3> QED BY <2>2, <3>1, <3>2
  <2> HIDE DEF d
  <2>4. Len(d) = 6 /\ d # << >> /\ d[1] = 70 /\ SubSeq(d, 3, Len(d)) = e
    <3>1. Len(h) + Len(e) = 6 /\ Len(h) + 1 = 3 BY <2>2, <2>3
    <3> QED BY <2>2, <2>8, <3>1
  <2> HIDE DEF d
  <2>6. r.data = d /\ r.how = "bytes" BY <1>5, <2>1, <2>4 DEF Bytes
  <2>7. Exchanged(r) = "reply" BY <1>3, <2>4, <2>6 DEF Exchanged
  <2> QED BY <1>9, <2>4, <2>5, <2>6, <2>7 DEF e
<1> QED BY <1>8, <1>9

\* What a module's monitors are.
LEMMA MonitorsAre ==
  ASSUME NEW m, IsModule(m)
  PROVE  \A id \in MonitorIds(m) : id \in Nat /\ id % 32 # 0 /\ id < 224
<1>1. m.tests \in Seq(Tests) BY ModuleIs
<1>2. \A t \in Range(m.tests) : t \in Tests BY <1>1 DEF Range
<1>3. \A t \in Tests : t.monitor \in Nat /\ t.monitor % 32 # 0 /\ t.monitor < 224 BY DEF Tests, Listable, Byte
<1> QED BY <1>2, <1>3 DEF MonitorIds
\* What a bitmap that is answered, or the end of its walk, leaves ahead.
LEMMA MonitorsAhead ==
  ASSUME Shape, step = "walk6", NEW r \in Replies, WalkTests(r), r = Bytes(Answer(Current)),
         NEW M, M = MonitorIds(car.spec[scan.name]), base \in BitmapBases(M)
  PROVE  /\ \A id \in M : id > base \/ id \in walked => id \in TestAhead(step', base', walked', todo', M)
         /\ step' = "walk6" => base' \in BitmapBases(M)
<1> DEFINE m == car.spec[scan.name]
           found == WithBitmap(M, base, walked)
           heard == walked \cup {base + n : n \in Offsets(SubSeq(r.data, 3, Len(r.data)))}
           ahead == TestAhead(step', base', walked', todo', M)
<1>1. step \in ObdSteps BY DEF ObdSteps
<1>2. IsModule(m) BY <1>1, HandIs
<1>3. r.how # "fault" BY DEF Bytes
<1>4. CASE M = {}
  <2>1. Exchanged(r) = "silence" BY <1>4, MonitorsTold
  <2>2. step' = "info" BY <1>3, <2>1 DEF WalkTests, Go
  <2> QED BY <1>4, <2>2
<1>5. CASE M # {}
  <2>1. Exchanged(r) = "reply" /\ Len(r.data) = 6 /\ r.data[2] = base
    BY <1>5, MonitorsTold
  <2>2. SubSeq(r.data, 3, Len(r.data)) = SupportBitmap(M \cup BitmapBases(M), base) BY <1>5, MonitorsTold
  <2>3. heard = found BY <2>2 DEF WithBitmap
  <2>4. \A id \in M : id \in Nat /\ id % 32 # 0 /\ id < 224 BY <1>2, MonitorsAre
  <2>5. base \in {32 * j : j \in 0 .. 7} /\ walked \subseteq 1 .. base BY DEF Shape, Place
  <2>6. base \in Nat
    <3>1. PICK i \in 0 .. 7 : base = 32 * i BY <2>5
    <3> QED BY <3>1
  <2>7. \/ base + 32 \in heard /\ base + 32 <= 224 /\ NextBitmap(heard)
        \/ /\ ~(base + 32 \in heard /\ base + 32 <= 224)
           /\ Loop("tests", {id \in heard : id % 32 # 0})
    BY <1>3, <2>1 DEF WalkTests
  <2> HIDE DEF heard, found, m
  <2>8. Tells(M, base, walked) BY <2>4, <2>5, BitmapTells
  <2>9. /\ \A p \in M : p > base /\ p <= base + 32 => p \in found
        /\ \A p \in M : p > base + 32 => base + 32 \in found /\ base + 32 <= 192
        /\ base + 32 \in found => base + 32 \in BitmapBases(M)
        /\ walked \subseteq found
    BY <2>8 DEF Tells, found
  <2>10. ASSUME NEW id \in M, id > base \/ id \in walked
         PROVE  id \in found \/ id > base + 32
    BY <2>4, <2>6, <2>9, <2>10
  <2>11. CASE base + 32 \in heard /\ base + 32 <= 224 /\ NextBitmap(heard)
    <3>1. step' = "walk6" /\ base' = base + 32 /\ walked' = found BY <2>3, <2>11 DEF NextBitmap
    <3>2. ahead = {id \in M : id > base + 32 \/ id \in found} BY <3>1, TestAheadIs
    <3>3. base' \in BitmapBases(M) BY <2>3, <2>9, <2>11, <3>1
    <3> QED BY <2>10, <3>1, <3>2, <3>3
  <2>12. CASE /\ ~(base + 32 \in heard /\ base + 32 <= 224)
              /\ Loop("tests", {id \in heard : id % 32 # 0})
    <3> DEFINE ids == {id \in heard : id % 32 # 0}
    <3>1. \A id \in M : id > base \/ id \in walked => id \in found
      <4>1. ASSUME NEW id \in M, id > base + 32
            PROVE  FALSE
        BY <2>3, <2>6, <2>9, <2>12, <4>1
      <4> QED BY <2>10, <4>1
    <3>2. \A id \in M : id > base \/ id \in walked => id \in ids BY <2>3, <2>4, <3>1
    <3>3. Loop("tests", ids) BY <2>12
    <3> HIDE DEF ids
    <3>4. (ids # {} => step' = "tests" /\ todo' = ids) /\ step' \in {"tests", "info"} BY <3>3, LoopIs, AfterIs
    <3>5. ids # {} => ahead = ids BY <3>4, TestAheadIs
    <3> HIDE DEF ahead
    <3> QED BY <3>2, <3>4, <3>5 DEF ahead
  <2> QED BY <2>7, <2>11, <2>12
<1> QED BY <1>4, <1>5

\* A step that leaves the items alone.
LEMMA WalkTestsLoss ==
  ASSUME Shape, Shape', LossInv, NEW r \in Replies, Taken(r), WalkTests(r)
  PROVE  LossInv'
<1> DEFINE m == car.spec[scan.name]
           M == MonitorIds(m)
           name == scan.name
           ahead == TestAhead(step', base', walked', todo', M)
<1>1. step = "walk6" /\ step \in ObdSteps /\ step \in LaterSteps /\ car' = car /\ UNCHANGED surveyRest /\ Asking
  BY DEF WalkTests, Taken, ObdSteps, Asking, LaterSteps
<1>2. lost \subseteq lost' BY <1>1, Charged
<1>3. Alike(scan, scan')
  <2>1. scan' = Noted(r) \/ scan' = scan BY DEF WalkTests, NextBitmap
  <2> QED BY <1>1, <2>1, AlikeIs
<1>4. step' \in {"walk6", "tests", "info"} /\ (step' = "info" => todo' = DOMAIN ItemWidth)
  <2>1. \/ step' = "info" /\ todo' = DOMAIN ItemWidth
        \/ step' = step
        \/ \E ids : Loop("tests", ids)
    BY DEF WalkTests, NextBitmap, Go
  <2> QED BY <1>1, <2>1, LoopIs, AfterIs
<1>5. step' \in LaterSteps BY <1>4 DEF LaterSteps
<1> DEFINE owed == {id \in M : id > base \/ id \in walked}
<1>6. TestsHad(lost, m, scan, owed) /\ InfoHad(lost, m, scan, DOMAIN m.info) /\ Chained(lost, m, name, step, base)
  <2>1. /\ TestsHad(lost, m, scan, TestAhead(step, base, walked, todo, M))
        /\ InfoHad(lost, m, scan, InfoAhead(step, todo, DOMAIN m.info))
        /\ Chained(lost, m, name, step, base)
    BY <1>1, LateOwed
  <2> HIDE DEF m, M
  <2>2. TestAhead(step, base, walked, todo, M) = owed BY <1>1, TestAheadIs
  <2>3. step \in Untested \cup {"tests"} BY <1>1 DEF Untested
  <2>4. InfoAhead(step, todo, DOMAIN m.info) = DOMAIN m.info BY <2>3, ItemsAhead
  <2> QED BY <2>1, <2>2, <2>4
<1>7. InfoHad(lost', m, scan', InfoAhead(step', todo', DOMAIN m.info))
  <2>1. IsModule(m) BY <1>1, HandIs
  <2>2. DOMAIN m.info \subseteq DOMAIN ItemWidth BY <2>1, ModuleIs
  <2> HIDE DEF m
  <2>3. DOMAIN m.info \subseteq InfoAhead(step', todo', DOMAIN m.info)
    BY <1>4, <2>2 DEF InfoAhead, Untested
  <2> DEFINE items == InfoAhead(step', todo', DOMAIN m.info)
  <2> HIDE DEF items
  <2>4. DOMAIN m.info \cap DOMAIN m.info \subseteq items BY <2>3 DEF items
  <2>5. InfoHad(lost', m, scan', items) BY <1>2, <1>3, <1>6, <2>4, AlikeStays
  <2> QED BY <2>5 DEF items
<1> DEFINE all == 0 .. 255
<1>8. TestsHad(lost', m, scan', ahead) /\ Chained(lost', m, name, step', base')
  <2>0. scan'.name = name BY <1>3 DEF Alike
  <2>1. CASE Gone(lost', name, "walk6", all)
    <3> HIDE DEF ahead, m
    <3> QED BY <2>0, <2>1 DEF TestsHad, Chained
  <2>2. CASE ~Gone(lost', name, "walk6", all)
    <3>1. r = Bytes(Answer(Current))
      <4>1. Current.id = base BY <1>1, CurrentOn, RequestIs
      <4>2. PICK i \in 0 .. 7 : base = 32 * i BY DEF Shape, Place
      <4>3. Current.id \in all BY <4>1, <4>2
      <4> HIDE DEF all
      <4> QED BY <1>1, <2>2, <4>3, Charged
    <3>2. base \in BitmapBases(M)
      <4> HIDE DEF all
      <4>1. ~Gone(lost, name, "walk6", all) BY <1>2, <2>2, GoneStays
      <4> QED BY <1>1, <1>6, <4>1 DEF Chained, all
    <3>3. /\ \A id \in M : id > base \/ id \in walked => id \in ahead
          /\ step' = "walk6" => base' \in BitmapBases(M)
      BY <1>1, <3>1, <3>2, MonitorsAhead
    <3>4. M \cap owed \subseteq ahead BY <3>3
    <3> HIDE DEF ahead, owed, m
    <3>5. TestsHad(lost', m, scan', ahead) BY <1>2, <1>3, <1>6, <3>4, AlikeStays
    <3>6. Chained(lost', m, name, step', base') BY <3>3 DEF Chained
    <3> QED BY <3>5, <3>6
  <2> QED BY <2>1, <2>2
<1>9. /\ scan'.name = scan.name /\ scan'.readings = scan.readings
      /\ \A mode \in CodeFields : scan'[mode] = scan[mode]
  BY <1>3 DEF Alike
<1> QED BY <1>1, <1>2, <1>5, <1>7, <1>8, <1>9, LateLoss

\* A module answers for every monitor that it has results of, with all of them.
LEMMA ResultsTold ==
  ASSUME Shape, step = "tests", NEW r \in Replies, r = Bytes(Answer(Current)),
         NEW t \in Range(car.spec[scan.name].tests), t.monitor = Min(todo)
  PROVE  Exchanged(r) = "reply" /\ t \in Range(TestGroups(r.data))
<1> DEFINE m == car.spec[scan.name]
           id == Min(todo)
           groups == Kept(m.tests, OfMonitor(m, id))
           blocks == [i \in DOMAIN groups |-> TestBytes(groups[i])]
           x == Joined(blocks, 9)
           d == << 70 >> \o x
<1>1. step \in ObdSteps BY DEF ObdSteps
<1>2. IsModule(m) BY <1>1, HandIs
<1>3. Current.svc = 6 /\ Current.id = id BY CurrentOn, RequestIs
<1>4. PICK ext \in BOOLEAN : \A req : Answer(req) = Handle(m, ext, req) BY <1>1, OwnAnswer
<1>5. Answer(Current) = TestReply(m, id) BY <1>3, <1>4 DEF Handle
<1>6. id \in Byte /\ id % 32 # 0 BY NextIs DEF Shape
<1>7. t \in OfMonitor(m, id) /\ t \in Range(m.tests) BY DEF OfMonitor
<1> HIDE DEF m, id
<1>8. id \notin BitmapBases(MonitorIds(m)) BY <1>6, BasesAre
<1>9. m.tests \in Seq(Tests) BY <1>2, ModuleIs
<1>10. groups \in Seq(Tests \cap OfMonitor(m, id)) /\ Range(groups) = Range(m.tests) \cap OfMonitor(m, id)
  BY <1>9, KeptFacts
<1>11. TestReply(m, id) = IF groups = << >> THEN << >> ELSE d BY <1>8 DEF TestReply
<1> HIDE DEF groups
<1>12. groups \in Seq(Tests) /\ t \in Range(groups) BY <1>7, <1>10
<1>13. groups # << >> BY <1>12 DEF Range
<1>14. IsBlocks(blocks, 9) /\ TestGroups(d) = groups BY <1>12, TestsBack
<1> HIDE DEF blocks
<1>15. x \in Seq(Int)
  <2>1. 9 \in Widths BY DEF Widths
  <2> QED BY <1>14, <2>1, JoinedInts
<1> HIDE DEF x
<1>16. d # << >> /\ d[1] = 70
  <2> DEFINE h == << 70 >>
  <2>1. h \in Seq(Int) /\ h # << >> /\ h[1] = 70 OBVIOUS
  <2> HIDE DEF h
  <2>2. h \o x # << >> /\ (h \o x)[1] = h[1] BY <1>15, <2>1, HeaderBody
  <2> QED BY <2>1, <2>2 DEF h
<1> HIDE DEF d
<1>17. r.data = d /\ r.how = "bytes" BY <1>5, <1>11, <1>13, <1>16 DEF Bytes
<1>18. Exchanged(r) = "reply" BY <1>3, <1>16, <1>17 DEF Exchanged
<1> QED BY <1>12, <1>14, <1>17, <1>18

LEMMA JoinGrows ==
  ASSUME NEW S, NEW a \in Seq(S), NEW T, NEW b \in Seq(T)
  PROVE  Range(a) \subseteq Range(a \o b) /\ Range(b) \subseteq Range(a \o b)
<1>1. DOMAIN (a \o b) = 1 .. Len(a) + Len(b) /\ Len(a) \in Nat /\ Len(b) \in Nat
      /\ DOMAIN a = 1 .. Len(a) /\ DOMAIN b = 1 .. Len(b)
  OBVIOUS
<1>2. \A i \in DOMAIN a : i \in DOMAIN (a \o b) /\ (a \o b)[i] = a[i] OBVIOUS
<1>3. \A i \in DOMAIN b : Len(a) + i \in DOMAIN (a \o b) /\ (a \o b)[Len(a) + i] = b[i] OBVIOUS
<1>4. Range(a) \subseteq Range(a \o b) BY <1>2 DEF Range
<1>5. Range(b) \subseteq Range(a \o b) BY <1>3 DEF Range
<1> QED BY <1>4, <1>5

LEMMA TestLoss ==
  ASSUME Shape, Shape', OwnInv, LossInv, NEW r \in Replies, Taken(r), ReadTest(r)
  PROVE  LossInv'
<1> DEFINE m == car.spec[scan.name]
           M == MonitorIds(m)
           name == scan.name
           id == Min(todo)
           rest == todo \ {id}
           ahead == TestAhead(step', base', walked', todo', M)
<1>1. step = "tests" /\ step \in ObdSteps /\ step \in LaterSteps /\ car' = car /\ UNCHANGED surveyRest /\ Asking
  BY DEF ReadTest, Taken, ObdSteps, Asking, LaterSteps
<1>2. lost \subseteq lost' BY <1>1, Charged
<1>3. IsScan(scan, name) /\ IsScan(Noted(r), name) /\ Alike(scan, Noted(r)) BY <1>1, HandIs, NotedIs, AlikeIs DEF Shape
<1>4. \/ r.how = "fault" /\ scan' = [Noted(r) EXCEPT !.tests = << >>] /\ step' = "info" /\ todo' = DOMAIN ItemWidth
      \/ /\ r.how # "fault"
         /\ \/ rest = {} /\ step' = "info" /\ todo' = DOMAIN ItemWidth
            \/ step' = "tests" /\ todo' = rest
         /\ scan' = IF Exchanged(r) = "reply" THEN [scan EXCEPT !.tests = @ \o TestGroups(r.data)] ELSE scan
  BY <1>1 DEF ReadTest, Go
<1>5. step' \in {"tests", "info"} /\ step' \in LaterSteps /\ (step' = "info" => todo' = DOMAIN ItemWidth) BY <1>4 DEF LaterSteps
<1> HIDE DEF id
<1>6. /\ scan'.name = name /\ scan'.readings = scan.readings /\ scan'.info = scan.info
      /\ \A mode \in CodeFields : scan'[mode] = scan[mode]
      /\ r.how # "fault" =>
           scan'.tests = IF Exchanged(r) = "reply" THEN scan.tests \o TestGroups(r.data) ELSE scan.tests
  <2>1. CASE r.how = "fault"
    <3> DEFINE s == Noted(r)
    <3>1. scan' = [s EXCEPT !.tests = << >>] BY <1>4, <2>1
    <3>2. IsScan(s, name) /\ Alike(scan, s) BY <1>3
    <3> HIDE DEF s, name
    <3> DEFINE field == "tests"
               x == << >>
    <3>4. field \in ScanFields BY DEF ScanFields
    <3>5. scan' = [s EXCEPT ![field] = x] BY <3>1
    <3> HIDE DEF field, x
    <3>6. \A g \in ScanFields \ {field} : scan'[g] = s[g] BY <3>2, <3>4, <3>5, FieldsOf
    <3>3. \A g \in ScanFields \ {"tests"} : scan'[g] = s[g] BY <3>6 DEF field
    <3> QED BY <2>1, <3>2, <3>3 DEF Alike, ScanFields, CodeFields, name
  <2>2. CASE r.how # "fault" /\ Exchanged(r) # "reply"
    <3>1. scan' = scan BY <1>4, <2>2
    <3> QED BY <2>2, <3>1
  <2>3. CASE r.how # "fault" /\ Exchanged(r) = "reply"
    <3> DEFINE x == scan.tests \o TestGroups(r.data)
    <3>1. scan' = [scan EXCEPT !.tests = x] BY <1>4, <2>3
    <3> HIDE DEF name, x
    <3> DEFINE field == "tests"
    <3>2. field \in ScanFields BY DEF ScanFields
    <3>3. scan' = [scan EXCEPT ![field] = x] BY <3>1
    <3> HIDE DEF field
    <3>4. scan'[field] = x /\ \A g \in ScanFields \ {field} : scan'[g] = scan[g] BY <1>3, <3>2, <3>3, FieldsOf
    <3>5. scan'.tests = x /\ \A g \in ScanFields \ {"tests"} : scan'[g] = scan[g] BY <3>4 DEF field
    <3>6. scan'.name = scan.name /\ scan'.readings = scan.readings /\ scan'.info = scan.info
          /\ \A mode \in CodeFields : scan'[mode] = scan[mode]
      BY <3>5 DEF ScanFields, CodeFields
    <3> QED BY <2>3, <3>5, <3>6 DEF name, x
  <2> QED BY <2>1, <2>2, <2>3
<1>7. TestsHad(lost, m, scan, todo) /\ InfoHad(lost, m, scan, DOMAIN m.info)
  <2>1. /\ TestsHad(lost, m, scan, TestAhead(step, base, walked, todo, M))
        /\ InfoHad(lost, m, scan, InfoAhead(step, todo, DOMAIN m.info))
    BY <1>1, LateOwed
  <2> HIDE DEF m, M
  <2>2. TestAhead(step, base, walked, todo, M) = todo BY <1>1, TestAheadIs
  <2>3. InfoAhead(step, todo, DOMAIN m.info) = DOMAIN m.info BY <1>1, ItemsAhead
  <2> QED BY <2>1, <2>2, <2>3
<1>8. InfoHad(lost', m, scan', InfoAhead(step', todo', DOMAIN m.info))
  <2>1. IsModule(m) BY <1>1, HandIs
  <2>2. DOMAIN m.info \subseteq DOMAIN ItemWidth BY <2>1, ModuleIs
  <2> HIDE DEF m
  <2> DEFINE items == InfoAhead(step', todo', DOMAIN m.info)
  <2>3. DOMAIN m.info \subseteq items BY <1>5, <2>2 DEF InfoAhead, Untested
  <2> HIDE DEF items
  <2>4. DOMAIN m.info \cap DOMAIN m.info \subseteq items /\ DOMAIN scan.info \subseteq DOMAIN scan'.info BY <1>6, <2>3
  <2>5. InfoHad(lost', m, scan', items) BY <1>2, <1>6, <1>7, <2>4, InfoStays
  <2> QED BY <2>5 DEF items
<1>9. TestsHad(lost', m, scan', ahead)
  <2>1. CASE r.how = "fault"
    <3>1. Broke(lost', name, "tests") BY <1>1, <2>1, Charged
    <3> HIDE DEF ahead
    <3> QED BY <1>6, <3>1 DEF TestsHad
  <2>2. CASE r.how # "fault"
    <3>1. Range(scan.tests) \subseteq Range(scan'.tests)
          /\ (Exchanged(r) = "reply" => Range(TestGroups(r.data)) \subseteq Range(scan'.tests))
      <4>1. CASE Exchanged(r) # "reply" BY <1>6, <2>2, <4>1
      <4>2. CASE Exchanged(r) = "reply"
        <5> DEFINE g == TestGroups(r.data)
        <5>1. Unread(m, scan, step, todo, DebtsOf(due, scan.name), slow) BY <1>1 DEF OwnInv
        <5>2. scan.tests \in Seq(Range(m.tests)) BY <5>1 DEF Unread
        <5>3. g = << >> \/ \E k : g = Kept(m.tests, OfMonitor(m, k)) BY <1>1, <4>2, TestsHeard
        <5>4. m.tests \in Seq(Tests)
          <6>1. IsModule(m) BY <1>1, HandIs
          <6> QED BY <6>1, ModuleIs
        <5> HIDE DEF m, g
        <5>5. \A k : Kept(m.tests, OfMonitor(m, k)) \in Seq(Tests)
          <6> TAKE k
          <6>1. Kept(m.tests, OfMonitor(m, k)) \in Seq(Tests \cap OfMonitor(m, k)) BY <5>4, KeptFacts
          <6> QED BY <6>1
        <5>6. << >> \in Seq(Tests) OBVIOUS
        <5>7. g \in Seq(Tests) BY <5>3, <5>5, <5>6
        <5>8. scan'.tests = scan.tests \o g BY <1>6, <2>2, <4>2 DEF g
        <5>9. Range(scan.tests) \subseteq Range(scan.tests \o g) /\ Range(g) \subseteq Range(scan.tests \o g)
          BY <5>2, <5>7, JoinGrows
        <5> QED BY <5>8, <5>9 DEF g
      <4> QED BY <4>1, <4>2
    <3>2. rest \subseteq ahead
      <4>1. CASE step' = "tests"
        <5> HIDE DEF m, M
        <5>1. ahead = todo' BY <4>1, TestAheadIs
        <5> QED BY <1>4, <2>2, <4>1, <5>1
      <4>2. CASE step' = "info" BY <1>4, <2>2, <4>2
      <4> QED BY <1>5, <4>1, <4>2
    <3>3. ASSUME NEW t \in Range(m.tests), t.monitor = id
          PROVE  t \in Range(scan'.tests) \/ Gone(lost', name, "tests", {id})
      <4>1. CASE r = Bytes(Answer(Current))
        <5>1. t.monitor = Min(todo) /\ t \in Range(car.spec[scan.name].tests) BY <3>3 DEF id
        <5>2. Exchanged(r) = "reply" /\ t \in Range(TestGroups(r.data)) BY <1>1, <4>1, <5>1, ResultsTold
        <5> QED BY <3>1, <5>2
      <4>2. CASE r # Bytes(Answer(Current))
        <5>1. Current.id = id BY <1>1, CurrentOn, RequestIs DEF id
        <5> DEFINE ids == {id}
        <5>2. Current.id \in ids BY <5>1
        <5> HIDE DEF ids
        <5>3. Gone(lost', scan.name, step, ids) BY <1>1, <4>2, <5>2, Charged
        <5> QED BY <1>1, <5>3 DEF ids
      <4> QED BY <4>1, <4>2
    <3>4. TestsHad(lost', m, scan', todo)
      <4> HIDE DEF m, id, ahead
      <4> QED BY <1>2, <1>6, <1>7, <3>1, TestsStay
    <3> HIDE DEF ahead
    <3>5. \A i \in DOMAIN m.tests : m.tests[i] \in Range(m.tests) BY DEF Range
    <3>6. ASSUME NEW i \in DOMAIN m.tests
          PROVE  \/ m.tests[i] \in Range(scan'.tests) \/ m.tests[i].monitor \in ahead
                 \/ Gone(lost', scan'.name, "tests", {m.tests[i].monitor})
                 \/ Gone(lost', scan'.name, "walk6", 0 .. 255) \/ Broke(lost', scan'.name, "tests")
      <4>1. CASE m.tests[i].monitor = id BY <1>6, <3>3, <3>5, <4>1
      <4>2. CASE m.tests[i].monitor # id
        <5> DEFINE y == m.tests[i].monitor
                   all == 0 .. 255
        <5>1. \/ m.tests[i] \in Range(scan'.tests) \/ y \in todo
              \/ Gone(lost', scan'.name, "tests", {y})
              \/ Gone(lost', scan'.name, "walk6", all) \/ Broke(lost', scan'.name, "tests")
          BY <3>4 DEF TestsHad
        <5>2. y \in todo => y \in ahead BY <3>2, <4>2
        <5> HIDE DEF all
        <5> QED BY <5>1, <5>2 DEF all
      <4> QED BY <4>1, <4>2
    <3> QED BY <3>6 DEF TestsHad
  <2> QED BY <2>1, <2>2
<1>10. Chained(lost', m, name, step', base') BY <1>5 DEF Chained
<1> QED BY <1>1, <1>2, <1>5, <1>6, <1>8, <1>9, <1>10, LateLoss

\* What a loop over the items leaves ahead.
LEMMA ItemsLeft ==
  ASSUME NEW ids, Loop("items", ids), NEW I
  PROVE  ids \subseteq InfoAhead(step', todo', I) /\ step' \in {"items", "walk2", "moduleVin"}
<1>1. (ids # {} => step' = "items" /\ todo' = ids) /\ step' \in {"items", "walk2", "moduleVin"} BY LoopIs, AfterIs
<1>2. InfoAhead("items", ids, I) = ids BY InfoAheadIs
<1> QED BY <1>1, <1>2

\* From the items on there are no test results to come.
LEMMA ItemLoss ==
  ASSUME Shape, Shape', LossInv, NEW r \in Replies, Taken(r), ReadItem(r)
  PROVE  LossInv'
<1> DEFINE m == car.spec[scan.name]
           I == DOMAIN m.info
           name == scan.name
           id == Min(todo)
           rest == todo \ {id}
           items == InfoItems(Data(r), ItemWidth[id])
           text == [i \in DOMAIN items |-> IF id = 6 THEN items[i] ELSE Strip(items[i])]
           ahead == InfoAhead(step', todo', I)
<1>1. step = "items" /\ step \in ObdSteps /\ step \in LaterSteps /\ car' = car /\ UNCHANGED surveyRest /\ Asking
  BY DEF ReadItem, Taken, ObdSteps, Asking, LaterSteps
<1>2. lost \subseteq lost' BY <1>1, Charged
<1>3. IsScan(scan, name) /\ Alike(scan, Noted(r)) BY <1>1, HandIs, AlikeIs DEF Shape
<1>4. IsModule(m) BY <1>1, HandIs
<1>5. /\ Loop("items", rest)
      /\ scan' = IF Echoed(r, 0) /\ items # << >> THEN [scan EXCEPT !.info = With(@, id, text)]
                 ELSE IF Exchanged(r) = "unsupported" THEN scan ELSE Noted(r)
  BY DEF ReadItem
<1>6. rest \subseteq ahead /\ step' \in {"items", "walk2", "moduleVin"}
  <2> HIDE DEF m, rest
  <2> QED BY <1>5, ItemsLeft
<1>7. step' \in LaterSteps BY <1>6 DEF LaterSteps
<1> HIDE DEF text, items, id
<1>8. /\ scan'.name = name /\ scan'.readings = scan.readings /\ scan'.tests = scan.tests
      /\ \A mode \in CodeFields : scan'[mode] = scan[mode]
      /\ DOMAIN scan.info \subseteq DOMAIN scan'.info
      /\ Echoed(r, 0) /\ items # << >> => id \in DOMAIN scan'.info
  <2>1. CASE Echoed(r, 0) /\ items # << >>
    <3> DEFINE x == With(scan.info, id, text)
               field == "info"
    <3>1. scan' = [scan EXCEPT ![field] = x] BY <1>5, <2>1
    <3>2. field \in ScanFields BY DEF ScanFields
    <3>3. DOMAIN x = DOMAIN scan.info \cup {id} BY DEF With
    <3> HIDE DEF field, x, name
    <3>4. scan'[field] = x /\ \A g \in ScanFields \ {field} : scan'[g] = scan[g] BY <1>3, <3>1, <3>2, FieldsOf
    <3>5. scan'.info = x /\ \A g \in ScanFields \ {"info"} : scan'[g] = scan[g] BY <3>4 DEF field
    <3> QED BY <3>3, <3>5 DEF ScanFields, CodeFields, name
  <2>2. CASE ~(Echoed(r, 0) /\ items # << >>)
    <3>1. scan' = scan \/ scan' = Noted(r) BY <1>5, <2>2
    <3>2. scan' = scan \/ Alike(scan, scan') BY <1>3, <3>1
    <3> QED BY <2>2, <3>2 DEF Alike
  <2> QED BY <2>1, <2>2
<1>9. TestsHad(lost, m, scan, {}) /\ InfoHad(lost, m, scan, todo)
  <2>1. /\ TestsHad(lost, m, scan, TestAhead(step, base, walked, todo, MonitorIds(m)))
        /\ InfoHad(lost, m, scan, InfoAhead(step, todo, I))
    BY <1>1, LateOwed
  <2> HIDE DEF m, I
  <2>2. TestAhead(step, base, walked, todo, MonitorIds(m)) = {} BY <1>1 DEF TestAhead, Untested
  <2>3. InfoAhead(step, todo, I) = todo BY <1>1, InfoAheadIs
  <2> QED BY <2>1, <2>2, <2>3
<1>10. TestsHad(lost', m, scan', TestAhead(step', base', walked', todo', MonitorIds(m)))
  <2> HIDE DEF m
  <2>1. TestAhead(step', base', walked', todo', MonitorIds(m)) = {} BY <1>6 DEF TestAhead, Untested
  <2>2. Range(scan.tests) \subseteq Range(scan'.tests) BY <1>8
  <2>3. TestsHad(lost', m, scan', {}) BY <1>2, <1>8, <1>9, <2>2, TestsStay
  <2> QED BY <2>1, <2>3
<1>11. id \in I => id \in DOMAIN scan'.info \/ Gone(lost', name, "items", {id})
  <2>1. CASE r = Bytes(Answer(Current))
    <3> SUFFICES ASSUME id \in I PROVE id \in DOMAIN scan'.info OBVIOUS
    <3>1. Current = Request(9, id) /\ Current \in Requests /\ Current.svc = 9 /\ Current.id = id
      <4>1. Current = Request(9, id) /\ Current \in Requests BY <1>1, CurrentOn, CurrentIs DEF Shape, id
      <4> QED BY <4>1, RequestIs
    <3>2. PICK ext \in BOOLEAN : \A req : Answer(req) = Handle(m, ext, req) BY <1>1, OwnAnswer
    <3>3. id \in DOMAIN ItemWidth BY <1>1, NextIs DEF Shape, id
    <3> DEFINE e == <<Len(m.info[id])>> \o Joined(Padded(m.info[id], id), ItemWidth[id])
    <3>4. Answer(Current) = Positive(Current) \o e
      <4>1. Positive(Current) = <<73, id>> BY <3>1, PositiveIs
      <4> HIDE DEF m
      <4>2. Handle(m, ext, Request(9, id)) = IF id \in DOMAIN m.info THEN <<73, id>> \o e ELSE << >>
        BY <3>3, ItemAnswer
      <4> QED BY <3>1, <3>2, <4>1, <4>2
    <3>5. e \in Seq(Int)
      <4> DEFINE blocks == Padded(m.info[id], id)
                 w == ItemWidth[id]
                 x == Joined(blocks, w)
                 texts == m.info[id]
      <4>1. /\ texts \in Seq(Seq(Byte))
            /\ \A text1 \in Range(texts) :
                 IF id = 6 THEN Len(text1) = 4 ELSE Len(text1) <= ItemWidth[id] /\ Trimmed(text1)
        BY <1>4, ModuleIs
      <4> HIDE DEF m, texts
      <4>2. IsBlocks(Padded(texts, id), ItemWidth[id]) BY <3>3, <4>1, InfoBack DEF Padded
      <4>3. w \in Widths /\ Len(texts) \in Int BY <3>3, <4>1, WidthIs
      <4>4. IsBlocks(blocks, w) BY <4>2 DEF texts
      <4> HIDE DEF blocks, w
      <4>5. x \in Seq(Int) BY <4>3, <4>4, JoinedInts
      <4> HIDE DEF x
      <4>6. <<Len(texts)>> \o x \in Seq(Int) BY <4>3, <4>5, Prefixed
      <4> QED BY <4>6 DEF x, blocks, w, texts
    <3> HIDE DEF e
    <3>11. Current.svc \in Echoing /\ 0 \in Nat BY <3>1 DEF Echoing
    <3>12. Len(e) >= 0 BY <3>5
    <3>6. r = Bytes(Positive(Current) \o e) BY <2>1, <3>4
    <3>7. Echoed(r, 0) BY <3>1, <3>5, <3>6, <3>11, <3>12, OwnEchoed
    <3>8. [i \in DOMAIN items |-> IF id = 6 THEN items[i] ELSE Strip(items[i])] = m.info[id]
      BY <1>1, <3>7, ItemValue DEF items, id
    <3>9. m.info[id] # << >> /\ m.info[id] \in Seq(Seq(Byte)) BY <1>4, ModuleIs
    <3>10. items # << >>
      <4> DEFINE f == [i \in DOMAIN items |-> IF id = 6 THEN items[i] ELSE Strip(items[i])]
      <4>1. DOMAIN f = DOMAIN items OBVIOUS
      <4> HIDE DEF f
      <4>2. f \in Seq(Seq(Byte)) /\ f # << >> BY <3>8, <3>9 DEF f
      <4>3. 1 \in DOMAIN f BY <4>2
      <4>4. DOMAIN << >> = {} OBVIOUS
      <4> QED BY <4>1, <4>3, <4>4
    <3> QED BY <1>8, <3>7, <3>10
  <2>2. CASE r # Bytes(Answer(Current))
    <3>1. Current.id = id BY <1>1, CurrentOn, RequestIs DEF id
    <3> DEFINE ids == {id}
    <3>2. Current.id \in ids BY <3>1
    <3> HIDE DEF ids
    <3>3. Gone(lost', scan.name, step, ids) BY <1>1, <2>2, <3>2, Charged
    <3> QED BY <1>1, <3>3 DEF ids
  <2> QED BY <2>1, <2>2
<1>12. InfoHad(lost', m, scan', ahead)
  <2>1. InfoHad(lost', m, scan', todo)
    <3> HIDE DEF m
    <3> QED BY <1>2, <1>8, <1>9, InfoStays
  <2> HIDE DEF ahead
  <2> QED BY <1>6, <1>8, <1>11, <2>1 DEF InfoHad
<1>13. Chained(lost', m, name, step', base') BY <1>6 DEF Chained
<1> QED BY <1>1, <1>2, <1>7, <1>8, <1>10, <1>12, <1>13, LateLoss

LEMMA ItemSupportLoss ==
  ASSUME Shape, Shape', LossInv, NEW r \in Replies, Taken(r), ReadItemSupport(r)
  PROVE  LossInv'
<1> DEFINE m == car.spec[scan.name]
           I == DOMAIN m.info
           name == scan.name
           items == IF Echoed(r, 4) THEN todo \cap Offsets(Data(r)) ELSE todo
           ahead == InfoAhead(step', todo', I)
<1>1. step = "info" /\ step \in ObdSteps /\ step \in LaterSteps /\ car' = car /\ UNCHANGED surveyRest /\ Asking
  BY DEF ReadItemSupport, Taken, ObdSteps, Asking, LaterSteps
<1>2. lost \subseteq lost' BY <1>1, Charged
<1>3. IsModule(m) /\ Module = scan.name BY <1>1, HandIs
<1>4. /\ r.how = "fault" => step' = "info" \/ step' = After("items")
      /\ r.how # "fault" => Loop("items", items)
      /\ scan' = scan \/ scan' = Noted(r)
  BY DEF ReadItemSupport, Go
<1>5. Alike(scan, scan') BY <1>1, <1>4, AlikeIs
<1>6. step' \in {"info", "items", "walk2", "moduleVin"}
  <2> HIDE DEF items
  <2> QED BY <1>4, ItemsLeft, AfterIs
<1>7. step' \in LaterSteps BY <1>6 DEF LaterSteps
<1>8. TestsHad(lost, m, scan, {}) /\ InfoHad(lost, m, scan, todo)
  <2>1. /\ TestsHad(lost, m, scan, TestAhead(step, base, walked, todo, MonitorIds(m)))
        /\ InfoHad(lost, m, scan, InfoAhead(step, todo, I))
    BY <1>1, LateOwed
  <2> HIDE DEF m, I
  <2>2. TestAhead(step, base, walked, todo, MonitorIds(m)) = {} BY <1>1 DEF TestAhead, Untested
  <2>3. InfoAhead(step, todo, I) = todo BY <1>1, InfoAheadIs
  <2> QED BY <2>1, <2>2, <2>3
<1>9. TestsHad(lost', m, scan', TestAhead(step', base', walked', todo', MonitorIds(m)))
  <2> HIDE DEF m
  <2>1. TestAhead(step', base', walked', todo', MonitorIds(m)) = {} BY <1>6 DEF TestAhead, Untested
  <2> DEFINE none == {}
  <2>2. MonitorIds(m) \cap none \subseteq none /\ TestsHad(lost, m, scan, none) BY <1>8
  <2> HIDE DEF none
  <2>3. TestsHad(lost', m, scan', none) BY <1>2, <1>5, <2>2, AlikeStays
  <2> QED BY <2>1, <2>3 DEF none
<1>10. Echoed(r, 4) => I \subseteq Offsets(Data(r))
  <2> SUFFICES ASSUME Echoed(r, 4) PROVE I \subseteq Offsets(Data(r)) OBVIOUS
  <2> DEFINE e == SupportBitmap(I, 0)
  <2>1. Current = Request(9, 0) /\ Current \in Requests BY <1>1, CurrentIs DEF Shape, Current, ObdRequest, Uds
  <2>2. Current.svc = 9 /\ Current.id = 0 BY <2>1, RequestIs
  <2>3. PICK ext \in BOOLEAN : ext = (session[Module] = 3) OBVIOUS
  <2>4. r.data = Handle(m, ext, Current) BY <1>1, <1>3, <2>2, <2>3, EchoedIs DEF Echoing
  <2>5. Positive(Current) = <<73, 0>> BY <2>1, <2>2, PositiveIs
  <2> HIDE DEF m
  <2>6. Handle(m, ext, Current) = <<73, 0>> \o SupportBitmap(DOMAIN m.info, 0) BY <2>2 DEF Handle
  <2>7. r.data = Positive(Current) \o e BY <2>4, <2>5, <2>6
  <2>8. e \in Seq(Int) BY BitmapIs
  <2> HIDE DEF e
  <2>9. Data(r) = e BY <2>1, <2>7, <2>8, BodyIs
  <2>10. Offsets(e) = {n \in 1 .. 32 : 0 + n \in I} BY BitmapTheorem DEF e
  <2>11. I \subseteq DOMAIN ItemWidth BY <1>3, ModuleIs
  <2>12. \A id \in DOMAIN ItemWidth : id \in 1 .. 32 /\ 0 + id = id BY DEF ItemWidth
  <2> HIDE DEF I
  <2> QED BY <2>9, <2>10, <2>11, <2>12
<1>11. InfoHad(lost', m, scan', ahead)
  <2>1. CASE r.how = "fault"
    <3>1. Broke(lost', name, "info") /\ scan'.name = name BY <1>1, <1>5, <2>1, Charged DEF Alike
    <3> HIDE DEF ahead
    <3> QED BY <3>1 DEF InfoHad
  <2>2. CASE r.how # "fault"
    <3>1. I \cap todo \subseteq items BY <1>10
    <3>2. Loop("items", items) BY <1>4, <2>2
    <3> HIDE DEF items, m
    <3>3. items \subseteq ahead BY <3>2, ItemsLeft
    <3> HIDE DEF ahead
    <3>4. DOMAIN m.info \cap todo \subseteq ahead BY <3>1, <3>3
    <3> QED BY <1>2, <1>5, <1>8, <3>4, AlikeStays
  <2> QED BY <2>1, <2>2
<1>12. Chained(lost', m, name, step', base') BY <1>6 DEF Chained
<1>13. /\ scan'.name = scan.name /\ scan'.readings = scan.readings
       /\ \A mode \in CodeFields : scan'[mode] = scan[mode]
  BY <1>5 DEF Alike
<1> QED BY <1>1, <1>2, <1>7, <1>9, <1>11, <1>12, <1>13, LateLoss

\* The frozen values, and the walk for them, are not in the account.
LEMMA FrameLoss ==
  ASSUME Shape, Shape', LossInv, NEW r \in Replies, Taken(r), WalkFrame(r) \/ ReadFrame(r)
  PROVE  LossInv'
<1> DEFINE m == car.spec[scan.name]
<1>1. /\ step \in {"walk2", "frames"} /\ step \in ObdSteps /\ step \in LaterSteps /\ car' = car /\ UNCHANGED surveyRest
      /\ Asking
  BY DEF WalkFrame, ReadFrame, ReadPid, Taken, ObdSteps, Asking, LaterSteps
<1>2. lost \subseteq lost' BY <1>1, Charged
<1>3. step' \in {"walk2", "frames", "moduleVin"}
  <2>1. CASE WalkFrame(r)
    <3>1. \/ step' = "moduleVin" \/ step' = step \/ \E ids : Loop("frames", ids)
      BY <2>1, AfterIs DEF WalkFrame, WalkFor, NextBitmap, Go
    <3> QED BY <2>1, <3>1, LoopIs, AfterIs DEF WalkFrame
  <2>2. CASE ReadFrame(r) BY <2>2, AfterIs DEF ReadFrame, ReadPid, Go
  <2> QED BY <2>1, <2>2
<1>4. Alike(scan, scan')
  <2>1. CASE WalkFrame(r)
    <3>1. scan' = scan \/ scan' = Noted(r) BY <2>1 DEF WalkFrame, WalkFor, NextBitmap
    <3> QED BY <1>1, <3>1, AlikeIs
  <2>2. CASE ReadFrame(r)
    <3>1. ReadPid(r, "frames", "frame") BY <2>2 DEF ReadFrame
    <3>2. CASE r.how = "fault"
      <4> DEFINE s == Noted(r)
                 field == "frame"
                 x == << >>
      <4>1. scan' = [s EXCEPT ![field] = x] BY <3>1, <3>2 DEF ReadPid
      <4>2. IsScan(s, scan.name) /\ Alike(scan, s) BY <1>1, HandIs, NotedIs, AlikeIs DEF Shape
      <4>3. field \in ScanFields BY DEF ScanFields
      <4> HIDE DEF s, field, x
      <4>4. \A g \in ScanFields \ {field} : scan'[g] = s[g] BY <4>1, <4>2, <4>3, FieldsOf
      <4>5. Alike(s, scan') BY <4>4 DEF Alike, ScanFields, CodeFields, field
      <4> QED BY <4>2, <4>5 DEF Alike
    <3>3. CASE r.how # "fault"
      <4>1. scan' = scan \/ \E x : scan' = [scan EXCEPT !.frame = x]
        BY <3>1, <3>3 DEF ReadPid
      <4> QED BY <1>1, <4>1, AlikeIs
    <3> QED BY <3>2, <3>3
  <2> QED BY <2>1, <2>2
<1>5. TestsHad(lost, m, scan, {}) /\ InfoHad(lost, m, scan, {})
  <2>1. /\ TestsHad(lost, m, scan, TestAhead(step, base, walked, todo, MonitorIds(m)))
        /\ InfoHad(lost, m, scan, InfoAhead(step, todo, DOMAIN m.info))
    BY <1>1, LateOwed
  <2> HIDE DEF m
  <2>2. TestAhead(step, base, walked, todo, MonitorIds(m)) = {} BY <1>1 DEF TestAhead, Untested
  <2>3. InfoAhead(step, todo, DOMAIN m.info) = {} BY <1>1 DEF InfoAhead, Untested
  <2> QED BY <2>1, <2>2, <2>3
<1>6. /\ TestsHad(lost', m, scan', TestAhead(step', base', walked', todo', MonitorIds(m)))
      /\ InfoHad(lost', m, scan', InfoAhead(step', todo', DOMAIN m.info))
  <2> HIDE DEF m
  <2> DEFINE none == {}
  <2>1. TestAhead(step', base', walked', todo', MonitorIds(m)) = none BY <1>3 DEF TestAhead, Untested
  <2>2. InfoAhead(step', todo', DOMAIN m.info) = none BY <1>3 DEF InfoAhead, Untested
  <2>3. MonitorIds(m) \cap none \subseteq none /\ DOMAIN m.info \cap none \subseteq none
        /\ TestsHad(lost, m, scan, none) /\ InfoHad(lost, m, scan, none)
    BY <1>5
  <2> HIDE DEF none
  <2>4. TestsHad(lost', m, scan', none) /\ InfoHad(lost', m, scan', none) BY <1>2, <1>4, <2>3, AlikeStays
  <2> QED BY <2>1, <2>2, <2>4
<1>7. step' \in LaterSteps /\ Chained(lost', m, scan.name, step', base') BY <1>3 DEF Chained, LaterSteps
<1>8. /\ scan'.name = scan.name /\ scan'.readings = scan.readings
      /\ \A mode \in CodeFields : scan'[mode] = scan[mode]
  BY <1>4 DEF Alike
<1> QED BY <1>1, <1>2, <1>6, <1>7, <1>8, LateLoss

\* A scan that begins has all of its module ahead.
LEMMA BeginsLoss ==
  ASSUME NEW l, NEW m, NEW name, NEW s, s = NewScan(name), NEW b, NEW w, NEW ids
  PROVE  Owed(l, m, s, "supported", b, w, ids) /\ Chained(l, m, name, "supported", b)
<1> DEFINE P == DOMAIN m.pids
           M == MonitorIds(m)
           I == DOMAIN m.info
<1>1. LivesHad(l, m, s, P) BY DEF LivesHad
<1>2. CodesHad(l, m, s, CodeFields) BY DEF CodesHad
<1>3. TestsHad(l, m, s, M)
  <2>1. \A i \in DOMAIN m.tests : m.tests[i].monitor \in M BY DEF MonitorIds, Range
  <2> HIDE DEF M
  <2> QED BY <2>1 DEF TestsHad
<1>4. InfoHad(l, m, s, I) BY DEF InfoHad
<1> HIDE DEF P, M, I
<1>5. LiveAhead("supported", b, w, ids, P) = P BY LiveAheadIs
<1>6. /\ CodeAhead("supported") = CodeFields /\ TestAhead("supported", b, w, ids, M) = M
      /\ InfoAhead("supported", ids, I) = I /\ Chained(l, m, name, "supported", b)
  BY EarlyAhead
<1> QED BY <1>1, <1>2, <1>3, <1>4, <1>5, <1>6 DEF Owed, P, M, I

LEMMA VinLoss ==
  ASSUME Shape, Shape', OwnInv, LossInv, NEW r \in Replies, Taken(r), ReadModuleVin(r)
  PROVE  LossInv'
<1> DEFINE vin == IF Echoed(r, 0) THEN Strip(Data(r)) ELSE << >>
           t == [scan EXCEPT !.moduleVin = vin]
           m == car.spec[scan.name]
<1>1. step = "moduleVin" /\ step \in ObdSteps /\ step # "discover" /\ car' = car /\ Asking
  BY DEF ReadModuleVin, ObdSteps, Asking, Taken
<1>2. lost \subseteq lost' BY <1>1, Charged
<1>3. /\ scans' = Append(scans, t)
      /\ \/ left' = Tail(left) /\ Len(left) > 1 /\ step' = "supported" /\ scan' = NewScan(left[2])
         \/ left' = << >> /\ ~(Len(left) > 1) /\ step' \in {"done", "present", "open"}
  BY DEF ReadModuleVin, Go, Outside, Advance
<1>4. Alike(scan, t)
  <2> HIDE DEF vin
  <2> QED BY <1>1, AlikeIs
<1> HIDE DEF t
<1>5. Settled(lost', m, t)
  <2>1. /\ LivesHad(lost, m, scan, LiveAhead(step, base, walked, todo, DOMAIN m.pids))
        /\ CodesHad(lost, m, scan, CodeAhead(step))
        /\ TestsHad(lost, m, scan, TestAhead(step, base, walked, todo, MonitorIds(m)))
        /\ InfoHad(lost, m, scan, InfoAhead(step, todo, DOMAIN m.info))
    BY <1>1, OwedNow
  <2> HIDE DEF m
  <2>2. LiveAhead(step, base, walked, todo, DOMAIN m.pids) = {} BY <1>1 DEF LiveAhead
  <2>3. CodeAhead(step) = {} BY <1>1, CodeAheadIs
  <2>4. TestAhead(step, base, walked, todo, MonitorIds(m)) = {} BY <1>1 DEF TestAhead, Untested
  <2>5. InfoAhead(step, todo, DOMAIN m.info) = {} BY <1>1 DEF InfoAhead, Untested
  <2>6. Settled(lost, m, scan) BY <2>1, <2>2, <2>3, <2>4, <2>5 DEF Settled
  <2> QED BY <1>2, <1>4, <2>6, SettledStays DEF Alike
<1>6. scans \in Seq(Range(scans)) BY DEF OwnInv, OwnScans
<1>7. Range(scans') = Range(scans) \cup {t}
  <2>1. /\ Len(scans') = Len(scans) + 1 /\ scans'[Len(scans) + 1] = t /\ Len(scans) \in Nat
        /\ DOMAIN scans = 1 .. Len(scans) /\ DOMAIN scans' = 1 .. Len(scans) + 1
        /\ \A i \in 1 .. Len(scans) : scans'[i] = scans[i]
    BY <1>3, <1>6
  <2>2. 1 .. Len(scans) + 1 = (1 .. Len(scans)) \cup {Len(scans) + 1} BY <2>1
  <2> QED BY <2>1, <2>2 DEF Range
<1>8. \A s \in Range(scans') : Settled(lost', car'.spec[s.name], s)
  <2>1. \A s \in Range(scans) : Settled(lost, car.spec[s.name], s) BY DEF LossInv
  <2>2. \A s \in Range(scans) : Settled(lost', car.spec[s.name], s) BY <1>2, <2>1, SettledStays
  <2>3. t.name = scan.name BY <1>4 DEF Alike
  <2> QED BY <1>1, <1>5, <1>7, <2>2, <2>3
<1>9. \A name \in Range(left) : name = scan.name \/ name \in Range(left')
  <2>1. left \in Seq(DOMAIN car.spec) /\ left # << >> /\ scan.name = Head(left) BY <1>1, HandIs DEF Shape, Place
  <2>2. Len(left) \in Nat /\ DOMAIN left = 1 .. Len(left) /\ Head(left) = left[1] BY <2>1
  <2>3. ASSUME NEW i \in 1 .. Len(left)
        PROVE  i = 1 \/ left[i] \in Range(left')
    <3>1. CASE i = 1 BY <3>1
    <3>2. CASE i # 1
      <4>1. Len(left) > 1 BY <2>2, <3>2
      <4>2. left' = Tail(left) BY <1>3, <4>1
      <4>3. Len(left') = Len(left) - 1 /\ DOMAIN left' = 1 .. Len(left) - 1 /\ left'[i - 1] = left[i]
        BY <2>1, <2>2, <3>2, <4>2
      <4>4. i - 1 \in DOMAIN left' BY <2>2, <3>2, <4>3
      <4> QED BY <4>3, <4>4 DEF Range
    <3> QED BY <3>1, <3>2
  <2> QED BY <2>1, <2>2, <2>3 DEF Range
<1>10. \A name \in Range(car'.obd) : Visited(lost', name, Range(left'), scans')
  <2>1. \A name \in Range(car.obd) : Visited(lost, name, Range(left), scans) BY <1>1 DEF LossInv
  <2>2. t \in Range(scans') /\ t.name = scan.name BY <1>4, <1>7 DEF Alike
  <2> DEFINE ids == {0}
  <2>3. \A name : Gone(lost, name, "discover", ids) => Gone(lost', name, "discover", ids) BY <1>2, GoneStays
  <2> HIDE DEF ids
  <2>4. \A name \in Range(car.obd) :
          \/ Gone(lost', name, "discover", ids) \/ name \in Range(left')
          \/ \E s \in Range(scans') : s.name = name
    BY <1>7, <1>9, <2>1, <2>2, <2>3 DEF Visited, ids
  <2> QED BY <1>1, <2>4 DEF Visited, ids
<1>11. CASE step' = "supported" /\ scan' = NewScan(left[2])
  <2>1. scan'.name = left[2] BY <1>11 DEF NewScan
  <2>2. Owed(lost', car'.spec[scan'.name], scan', step', base', walked', todo')
        /\ Chained(lost', car'.spec[scan'.name], scan'.name, step', base')
    BY <1>11, <2>1, BeginsLoss
  <2> QED BY <1>8, <1>10, <1>11, <2>2 DEF LossInv
<1>12. CASE step' \in {"done", "present", "open"}
  <2>1. step' \notin ObdSteps /\ step' # "discover" BY <1>12 DEF ObdSteps
  <2> QED BY <1>8, <1>10, <2>1 DEF LossInv
<1> QED BY <1>3, <1>11, <1>12

LEMMA DiscoverLoss ==
  ASSUME Shape, Shape', LossInv, Discover
  PROVE  LossInv'
<1> DEFINE names(missing) == {name \in Range(car.obd) : \A i \in missing : car.obd[i] # name}
<1>1. step = "discover" /\ car' = car /\ scans' = scans /\ scans = << >> BY DEF Discover, LossInv
<1>2. PICK missing \in SUBSET DOMAIN car.obd :
        LET found == Answering(missing)
        IN  /\ lost' = {[at |-> car.obd[i], step |-> "discover", id |-> 0, how |-> "silence"] : i \in missing}
            /\ IF found = << >> THEN Outside(<< >>)
               ELSE left' = found /\ scan' = NewScan(Head(found)) /\ Go("supported", {})
  BY DEF Discover
<1> DEFINE found == Answering(missing)
<1>3. Range(found) = names(missing)
  <2> DEFINE s == car.obd
             T == names(missing)
             S == DOMAIN car.spec
  <2>1. s \in Seq(S) BY CarIs DEF Shape, Tallies
  <2>2. T \subseteq Range(s) /\ found = Kept(s, T) BY DEF Answering
  <2> HIDE DEF s, T, S, found
  <2>3. Range(Kept(s, T)) = Range(s) \cap T BY <2>1, KeptFacts
  <2> QED BY <2>2, <2>3 DEF T
<1>4. Range(<< >>) = {} BY DEF Range
<1>5. left' = found
  <2>1. CASE found = << >> BY <1>2, <2>1 DEF Outside, Advance
  <2>2. CASE found # << >> BY <1>2, <2>2
  <2> QED BY <2>1, <2>2
<1> HIDE DEF found
<1>6. \A name \in Range(car'.obd) : Visited(lost', name, Range(left'), scans')
  <2> SUFFICES ASSUME NEW name \in Range(car.obd) PROVE Visited(lost', name, Range(left'), scans') BY <1>1
  <2>1. CASE name \in names(missing) BY <1>3, <1>5, <2>1 DEF Visited
  <2>2. CASE name \notin names(missing)
    <3>1. PICK i \in missing : car.obd[i] = name BY <2>2
    <3> DEFINE x == [at |-> car.obd[i], step |-> "discover", id |-> 0, how |-> "silence"]
    <3>2. x \in lost' /\ x.at = name /\ x.step = "discover" /\ x.id = 0 BY <1>2, <3>1
    <3> HIDE DEF x
    <3>3. Gone(lost', name, "discover", {0}) BY <3>2 DEF Gone
    <3> QED BY <3>3 DEF Visited
  <2> QED BY <2>1, <2>2
<1>7. \A s \in Range(scans') : Settled(lost', car'.spec[s.name], s) BY <1>1, <1>4
<1>8. CASE found = << >>
  <2>1. Outside(<< >>) BY <1>2, <1>8 DEF found
  <2>2. step' \in {"done", "present", "open"} BY <2>1 DEF Outside, Advance, Go
  <2>3. step' \notin ObdSteps /\ step' # "discover" BY <2>2 DEF ObdSteps
  <2> QED BY <1>6, <1>7, <2>3 DEF LossInv
<1>9. CASE found # << >>
  <2>1. scan' = NewScan(Head(found)) /\ step' = "supported" BY <1>2, <1>9 DEF found, Go
  <2>2. scan'.name = Head(found) BY <2>1 DEF NewScan
  <2>3. Owed(lost', car'.spec[scan'.name], scan', step', base', walked', todo')
        /\ Chained(lost', car'.spec[scan'.name], scan'.name, step', base')
    BY <2>1, <2>2, BeginsLoss
  <2> QED BY <1>6, <1>7, <2>1, <2>3 DEF LossInv
<1> QED BY <1>8, <1>9

\* Outside OBD-II the scans are what they were.
LEMMA QueueLoss ==
  ASSUME Shape, LossInv, NEW r \in Replies, Taken(r),
         Present(r) \/ StartSession(r) \/ Read(r) \/ Open(r) \/ Identify(r)
  PROVE  LossInv'
<1>0. Asking BY DEF Present, StartSession, Read, Open, Identify, Asking
<1>1. step \in QueueSteps /\ car' = car /\ scans' = scans
  BY DEF Present, StartSession, Read, Open, Identify, Taken, QueueSteps, ProfileSteps
<1>2. step \notin ObdSteps /\ step # "discover" BY <1>1 DEF ObdSteps, QueueSteps, ProfileSteps
<1>3. left = << >> BY <1>2 DEF Shape, Place
<1>4. lost \subseteq lost' BY <1>0, TakenIs
<1>5. left' = left /\ step' \in QueueSteps \cup {"done", "aborted"}
  <2>1. \A q, ss, rs : Advance(q, ss, rs) => left' = << >> /\ step' \in {"done", "present", "open"}
    BY DEF Advance, Go
  <2>2. \/ \E q, ss, rs : Advance(q, ss, rs)
        \/ left' = left /\ step' \in {"aborted", "session", "reads", "identify"}
        \/ left' = left /\ step' = step
    BY DEF Present, StartSession, Read, Open, Identify, Abort, Go
  <2> QED BY <1>1, <1>3, <2>1, <2>2 DEF QueueSteps, ProfileSteps
<1>6. step' \notin ObdSteps /\ step' # "discover" BY <1>5 DEF ObdSteps, QueueSteps, ProfileSteps
<1>7. \A name \in Range(car'.obd) : Visited(lost', name, Range(left'), scans')
  <2>1. \A name \in Range(car.obd) : Visited(lost, name, Range(left), scans) BY <1>2 DEF LossInv
  <2> QED BY <1>1, <1>4, <1>5, <2>1, GoneStays DEF Visited
<1>8. \A s \in Range(scans') : Settled(lost', car'.spec[s.name], s)
  <2>1. \A s \in Range(scans) : Settled(lost, car.spec[s.name], s) BY DEF LossInv
  <2>2. \A s \in Range(scans) : Settled(lost', car.spec[s.name], s) BY <1>4, <2>1, SettledStays
  <2> QED BY <1>1, <2>2
<1> QED BY <1>6, <1>7, <1>8 DEF LossInv

LEMMA InitLoss == Init => LossInv
<1> SUFFICES ASSUME Init PROVE LossInv OBVIOUS
<1>1. Range(<< >>) = {} BY DEF Range
<1>2. "discover" \notin ObdSteps BY DEF ObdSteps
<1> QED BY <1>1, <1>2 DEF Init, LossInv

LEMMA ReplyLoss ==
  ASSUME Shape, Shape', OwnInv, LossInv, Asking, NEW r \in Replies, Reply(r)
  PROVE  LossInv'
<1>1. Taken(r) BY DEF Reply, Supported, Walk, ReadLive, ReadFrame, ReadPid, ReadCodes, WalkTests, ReadTest,
                      ReadItemSupport, ReadItem, WalkFrame, ReadModuleVin, Present, StartSession, Read, Open, Identify
<1> QED BY <1>1, SupportedLoss, WalkLoss, LiveLoss, CodesLoss, WalkTestsLoss, TestLoss, ItemSupportLoss, ItemLoss,
          FrameLoss, VinLoss, QueueLoss DEF Reply

LEMMA NextLoss == Shape /\ Shape' /\ OwnInv /\ LossInv /\ [Next]_vars => LossInv'
<1> SUFFICES ASSUME Shape, Shape', OwnInv, LossInv, [Next]_vars PROVE LossInv' OBVIOUS
<1>1. CASE Discover BY <1>1, DiscoverLoss
<1>2. CASE UNCHANGED <<car, step, left, base, walked, todo, scan, scans, lost>> BY <1>2 DEF LossInv
<1>3. CASE Pending BY <1>2, <1>3, PendingIs
<1>4. CASE Asking /\ \E r \in Replies : Reply(r) BY <1>4, ReplyLoss
<1>5. CASE UNCHANGED vars BY <1>2, <1>5 DEF vars
<1> QED BY <1>1, <1>3, <1>4, <1>5 DEF Next

\* Whatever goes wrong in a scan of any car, each item that a module has and its scan has not is
\* charged to a request that was not answered: its own, a bitmap's, or one that a fault cut short.
THEOREM LossIsLocalTheorem == Spec => []LossIsLocal
<1>1. Shape /\ LossInv => LossIsLocal
  <2> SUFFICES ASSUME Shape, LossInv, step = "done" PROVE LossIsLocal BY DEF LossIsLocal
  <2>1. left = << >> BY DEF Shape, Place, ObdSteps
  <2>2. Range(<< >>) = {} BY DEF Range
  <2>3. /\ \A name, s, ids : Trouble(name, s, ids) <=> Gone(lost, name, s, ids)
        /\ \A name, s : Fault(name, s) <=> Broke(lost, name, s)
    BY DEF Trouble, Gone, Fault, Broke
  <2>4. ASSUME NEW name \in Range(car.obd), ~Trouble(name, "discover", {0})
        PROVE  \E s \in Range(scans) : s.name = name
    <3>1. Visited(lost, name, Range(left), scans) BY DEF LossInv
    <3>2. ~Gone(lost, name, "discover", {0}) BY <2>4 DEF Trouble, Gone
    <3> QED BY <2>1, <2>2, <3>1, <3>2 DEF Visited
  <2>5. ASSUME NEW s \in Range(scans)
        PROVE  LET m == car.spec[s.name]
               IN  /\ \A pid \in DOMAIN m.pids :
                        \/ pid \in DOMAIN s.readings
                        \/ Trouble(s.name, "pids", {pid}) \/ Trouble(s.name, "walk", 0 .. pid)
                        \/ Fault(s.name, "pids") \/ Fault(s.name, "walk")
                   /\ \A mode \in {"stored", "pending", "permanent"} :
                        s[mode] = m[mode] \/ Trouble(s.name, mode, {0})
                   /\ \A i \in DOMAIN m.tests :
                        \/ m.tests[i] \in Range(s.tests)
                        \/ Trouble(s.name, "tests", {m.tests[i].monitor}) \/ Trouble(s.name, "walk6", 0 .. 255)
                        \/ Fault(s.name, "tests")
                   /\ \A id \in DOMAIN m.info :
                        id \in DOMAIN s.info \/ Trouble(s.name, "items", {id}) \/ Fault(s.name, "info")
    <3> DEFINE m == car.spec[s.name]
    <3>1. Settled(lost, m, s) BY DEF LossInv
    <3> HIDE DEF m
    <3>2. LivesHad(lost, m, s, {}) /\ CodesHad(lost, m, s, {}) /\ TestsHad(lost, m, s, {}) /\ InfoHad(lost, m, s, {})
      BY <3>1 DEF Settled
    <3>3. \A pid \in DOMAIN m.pids :
            \/ pid \in DOMAIN s.readings
            \/ Trouble(s.name, "pids", {pid}) \/ Trouble(s.name, "walk", 0 .. pid)
            \/ Fault(s.name, "pids") \/ Fault(s.name, "walk")
      BY <3>2, Zenon DEF LivesHad, Trouble, Gone, Fault, Broke
    <3>4. \A mode \in {"stored", "pending", "permanent"} : s[mode] = m[mode] \/ Trouble(s.name, mode, {0})
      BY <3>2, Zenon DEF CodesHad, CodeFields, Trouble, Gone
    <3>5. \A i \in DOMAIN m.tests :
            \/ m.tests[i] \in Range(s.tests)
            \/ Trouble(s.name, "tests", {m.tests[i].monitor}) \/ Trouble(s.name, "walk6", 0 .. 255)
            \/ Fault(s.name, "tests")
      BY <3>2, Zenon DEF TestsHad, Trouble, Gone, Fault, Broke
    <3>6. \A id \in DOMAIN m.info :
            id \in DOMAIN s.info \/ Trouble(s.name, "items", {id}) \/ Fault(s.name, "info")
      BY <3>2, Zenon DEF InfoHad, Trouble, Gone, Fault, Broke
    <3> QED BY <3>3, <3>4, <3>5, <3>6 DEF m
  <2> QED BY <2>4, <2>5 DEF LossIsLocal
<1>2. Spec => [](Shape /\ OwnInv /\ LossInv)
  <2>1. Init => Shape /\ OwnInv /\ LossInv BY InitShape, InitOwn, InitLoss
  <2>2. (Shape /\ OwnInv /\ LossInv) /\ [Next]_vars => (Shape /\ OwnInv /\ LossInv)' BY NextShape, NextOwn, NextLoss
  <2> QED BY <2>1, <2>2, PTL DEF Spec
<1> QED BY <1>1, <1>2, PTL
=============================================================================
