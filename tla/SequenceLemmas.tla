---------------------------- MODULE SequenceLemmas ----------------------------
(***************************************************************************)
(* What the proofs of several components need of numbers and sequences:    *)
(* the least-number principle, from which every induction is made, and     *)
(* what taking members out of a sequence and adding them leaves.           *)
(***************************************************************************)
EXTENDS SequenceParts, SequencesExt, SequenceTheorems, WellFoundedInduction, NaturalsInduction,
        FiniteSetTheorems, TLAPS

\* The least-number principle, from which every induction below is made.
LEMMA LeastNumber ==
  ASSUME NEW T, T \subseteq Nat, T # {}
  PROVE  \E n \in T : \A m \in T : n <= m
<1>1. PICK n \in T : \A m \in T : ~(<<m, n>> \in OpToRel(<, Nat))
  BY NatLessThanWellFounded, WFMin
<1>2. \A m \in T : ~(m < n)
  BY <1>1 DEF OpToRel
<1> QED BY <1>2

LEMMA GreatestNumber ==
  ASSUME NEW n \in Nat, NEW T, T \subseteq 1..n, T # {}
  PROVE  \E m \in T : \A k \in T : m >= k
<1> DEFINE U == {i \in Nat : n - i \in T}
<1>1. U # {}
  <2>1. PICK k \in T : TRUE
    OBVIOUS
  <2>2. n - k \in Nat /\ n - (n - k) = k
    OBVIOUS
  <2> QED BY <2>1, <2>2
<1>2. PICK u \in U : \A v \in U : u <= v
  <2>1. U \subseteq Nat
    OBVIOUS
  <2> HIDE DEF U
  <2> QED BY <1>1, <2>1, LeastNumber
<1>3. ASSUME NEW k \in T PROVE n - u >= k
  <2>1. n - k \in Nat /\ n - (n - k) = k /\ k \in 1..n
    OBVIOUS
  <2>2. u <= n - k
    BY <1>2, <2>1
  <2> QED BY <2>1, <2>2
<1> QED BY <1>3
-----------------------------------------------------------------------------
(***************************************************************************)
(* Taking members out of a sequence.                                       *)
(***************************************************************************)
\* Is F the table of what is kept of the first i tokens?
KeptTable(F, s, out, n) ==
  F = [i \in 0..n |-> IF i = 0 THEN <<>>
                      ELSE IF s[i] \in out THEN F[i - 1] ELSE Append(F[i - 1], s[i])]

LEMMA KeptTableExists ==
  ASSUME NEW s, NEW out, NEW n \in Nat
  PROVE  \E F : KeptTable(F, s, out, n)
<1> DEFINE T == {m \in Nat : ~\E F : KeptTable(F, s, out, m)}
<1> SUFFICES ASSUME T # {} PROVE FALSE
  OBVIOUS
<1>1. PICK m \in T : \A k \in T : m <= k
  BY LeastNumber
<1>2. CASE m = 0
  <2>1. PICK F : F = [i \in 0..0 |-> <<>>]
    OBVIOUS
  <2>2. F = [i \in 0..0 |-> IF i = 0 THEN <<>>
                            ELSE IF s[i] \in out THEN F[i - 1] ELSE Append(F[i - 1], s[i])]
    BY <2>1
  <2> QED BY <1>2, <2>2 DEF KeptTable
<1>3. CASE m # 0
  <2>1. m - 1 \in Nat /\ m - 1 \notin T
    BY <1>1, <1>3
  <2>2. PICK F : KeptTable(F, s, out, m - 1)
    BY <2>1
  <2>3. PICK G : G = [i \in 0..m |-> IF i < m THEN F[i]
                                     ELSE IF s[m] \in out THEN F[m - 1] ELSE Append(F[m - 1], s[m])]
    OBVIOUS
  <2>4. \A i \in 0..m : G[i] = IF i = 0 THEN <<>>
                               ELSE IF s[i] \in out THEN G[i - 1] ELSE Append(G[i - 1], s[i])
    <3> SUFFICES ASSUME NEW i \in 0..m
                 PROVE G[i] = IF i = 0 THEN <<>>
                              ELSE IF s[i] \in out THEN G[i - 1] ELSE Append(G[i - 1], s[i])
      OBVIOUS
    <3>1. CASE i = m
      BY <1>3, <2>1, <2>3, <3>1
    <3>2. CASE i < m
      <4>1. i \in 0..m - 1 /\ G[i] = F[i] /\ (i # 0 => G[i - 1] = F[i - 1])
        BY <2>1, <2>3, <3>2
      <4>2. F[i] = IF i = 0 THEN <<>>
                   ELSE IF s[i] \in out THEN F[i - 1] ELSE Append(F[i - 1], s[i])
        BY <2>2, <4>1 DEF KeptTable
      <4> QED BY <4>1, <4>2
    <3> QED BY <3>1, <3>2
  <2>5. KeptTable(G, s, out, m)
    BY <2>3, <2>4 DEF KeptTable
  <2> QED BY <2>5
<1> QED BY <1>2, <1>3

LEMMA AppendOnce ==
  ASSUME NEW S, NEW q \in Seq(S), NEW x \in S
  PROVE  /\ Append(q, x) \in Seq(S) /\ Len(Append(q, x)) = Len(q) + 1
         /\ ToSet(Append(q, x)) = ToSet(q) \cup {x}
         /\ IsInjective(q) /\ x \notin ToSet(q) => IsInjective(Append(q, x))
<1>1. Append(q, x) \in Seq(S) /\ Len(Append(q, x)) = Len(q) + 1 /\ Len(q) \in Nat
  OBVIOUS
<1>2. PICK a \in Seq(S) : a = Append(q, x)
  BY <1>1
<1>3. /\ DOMAIN a = 1..Len(q) + 1 /\ DOMAIN q = 1..Len(q)
      /\ \A i \in 1..Len(q) : a[i] = q[i] /\ a[Len(q) + 1] = x
  BY <1>1, <1>2
<1>4. a[Len(q) + 1] = x
  BY <1>1, <1>2
<1>5. ToSet(a) = ToSet(q) \cup {x}
  BY <1>1, <1>3, <1>4 DEF ToSet
<1>6. ASSUME IsInjective(q), x \notin ToSet(q) PROVE IsInjective(a)
  BY <1>1, <1>3, <1>4, <1>6 DEF IsInjective, ToSet
<1> QED BY <1>1, <1>2, <1>5, <1>6

\* What is kept of a sequence: as many or fewer, the others' members, each once
\* if each was there once; fewer if one was taken out.
LEMMA WithoutProperties ==
  ASSUME NEW S, NEW s \in Seq(S), NEW out
  PROVE  /\ Without(s, out) \in Seq(S) /\ Len(Without(s, out)) <= Len(s)
         /\ ToSet(Without(s, out)) = ToSet(s) \ out
         /\ IsInjective(s) => IsInjective(Without(s, out))
         /\ ToSet(s) \cap out # {} => Len(Without(s, out)) < Len(s)
<1>1. PICK F : KeptTable(F, s, out, Len(s)) /\ Without(s, out) = F[Len(s)]
  <2> DEFINE K == CHOOSE F : KeptTable(F, s, out, Len(s))
  <2>1. Without(s, out) = K[Len(s)]
    BY Zenon DEF Without, KeptTable
  <2>2. Len(s) \in Nat
    OBVIOUS
  <2>3. KeptTable(K, s, out, Len(s))
    BY <2>2, KeptTableExists, Zenon
  <2> QED BY <2>1, <2>3
<1> DEFINE First(i) == {s[j] : j \in 1..i}
           Good(i) == /\ F[i] \in Seq(S) /\ Len(F[i]) <= i /\ ToSet(F[i]) = First(i) \ out
                      /\ IsInjective(s) => IsInjective(F[i])
                      /\ First(i) \cap out # {} => Len(F[i]) < i
<1>2. Len(s) \in Nat /\ DOMAIN s = 1..Len(s) /\ \A i \in 1..Len(s) : s[i] \in S
  OBVIOUS
<1>3. /\ F[0] = <<>>
      /\ \A i \in 1..Len(s) : F[i] = IF s[i] \in out THEN F[i - 1] ELSE Append(F[i - 1], s[i])
  <2>1. \A i \in 0..Len(s) : F[i] = IF i = 0 THEN <<>>
                                    ELSE IF s[i] \in out THEN F[i - 1] ELSE Append(F[i - 1], s[i])
    BY <1>1 DEF KeptTable
  <2>2. 0 \in 0..Len(s) /\ \A i \in 1..Len(s) : i \in 0..Len(s) /\ i # 0
    BY <1>2
  <2> QED BY <2>1, <2>2
<1>4. Good(0)
  <2>1. <<>> \in Seq(S) /\ Len(<<>>) = 0 /\ First(0) = {}
    OBVIOUS
  <2>2. ToSet(<<>>) = {} /\ IsInjective(<<>>)
    BY DEF ToSet, IsInjective
  <2> QED BY <1>3, <2>1, <2>2
<1>5. ASSUME NEW i \in 1..Len(s), Good(i - 1) PROVE Good(i)
  <2>1. i \in Nat /\ i - 1 \in Nat /\ First(i) = First(i - 1) \cup {s[i]} /\ s[i] \in S
    BY <1>2
  <2>2. PICK q \in Seq(S) : q = F[i - 1]
    BY <1>5
  <2>3. /\ Len(q) <= i - 1 /\ ToSet(q) = First(i - 1) \ out /\ Len(q) \in Nat
        /\ IsInjective(s) => IsInjective(q)
        /\ First(i - 1) \cap out # {} => Len(q) < i - 1
    BY <1>5, <2>2
  <2>4. IsInjective(s) => s[i] \notin First(i - 1)
    BY <1>2, <2>1 DEF IsInjective
  <2> HIDE DEF First
  <2>5. CASE s[i] \in out
    <3>1. F[i] = q
      BY <1>3, <2>2, <2>5
    <3> QED BY <2>1, <2>3, <2>5, <3>1
  <2>6. CASE s[i] \notin out
    <3>1. PICK a : a = Append(q, s[i])
      OBVIOUS
    <3>2. F[i] = a
      BY <1>3, <2>2, <2>6, <3>1
    <3>3. /\ a \in Seq(S) /\ Len(a) = Len(q) + 1 /\ ToSet(a) = ToSet(q) \cup {s[i]}
          /\ IsInjective(q) /\ s[i] \notin ToSet(q) => IsInjective(a)
      BY <2>1, <3>1, AppendOnce
    <3> QED BY <2>1, <2>3, <2>4, <2>6, <3>2, <3>3
  <2> QED BY <2>5, <2>6
<1>6. \A i \in 0..Len(s) : Good(i)
  <2> DEFINE T == {i \in 0..Len(s) : ~Good(i)}
  <2> HIDE DEF Good
  <2> SUFFICES ASSUME T # {} PROVE FALSE
    OBVIOUS
  <2>1. T \subseteq Nat
    OBVIOUS
  <2>2. PICK i \in T : \A k \in T : i <= k
    BY <2>1, LeastNumber
  <2>3. i # 0
    BY <1>4, <2>2
  <2>4. i \in 1..Len(s) /\ i - 1 \in 0..Len(s) /\ i - 1 \notin T
    BY <1>2, <2>2, <2>3
  <2> QED BY <1>5, <2>2, <2>4
<1>7. Good(Len(s)) /\ First(Len(s)) = ToSet(s)
  <2>1. First(Len(s)) = ToSet(s)
    BY <1>2 DEF ToSet
  <2> HIDE DEF Good, First
  <2> QED BY <1>2, <1>6, <2>1
<1> HIDE DEF First
<1> QED BY <1>1, <1>7

\* A member is gone from the list; the others keep their places
\* among themselves.
LEMMA RemoveAtIs ==
  ASSUME NEW S, NEW q \in Seq(S), NEW i \in 1..Len(q)
  PROVE  /\ RemoveAt(q, i) \in Seq(S) /\ Len(RemoveAt(q, i)) = Len(q) - 1
         /\ \A k \in 1..Len(q) - 1 : RemoveAt(q, i)[k] = q[IF k < i THEN k ELSE k + 1]
<1>1. PICK n \in Nat : n = Len(q)
  BY LenProperties
<1>2. PICK a : a = SubSeq(q, 1, i - 1)
  OBVIOUS
<1>3. PICK c : c = SubSeq(q, i + 1, Len(q))
  OBVIOUS
<1>4. \A k \in 1..n : q[k] \in S
  BY <1>1, ElementOfSeq
<1>5. a \in Seq(S) /\ Len(a) = i - 1 /\ \A k \in 1..i - 1 : a[k] = q[k]
  BY <1>1, <1>2, <1>4, SubSeqProperties
<1>6. c \in Seq(S) /\ Len(c) = n - i /\ \A k \in 1..n - i : c[k] = q[i + k]
  <2>1. \A k \in i + 1..n : q[k] \in S
    BY <1>1, <1>4
  <2>2. /\ c \in Seq(S) /\ Len(c) = (IF i + 1 <= n THEN n - (i + 1) + 1 ELSE 0)
        /\ \A k \in 1..n - (i + 1) + 1 : c[k] = q[i + 1 + k - 1]
    BY <1>1, <1>3, <2>1, SubSeqProperties
  <2> QED BY <1>1, <2>2
<1>7. PICK r : r = a \o c
  OBVIOUS
<1>8. /\ r \in Seq(S) /\ Len(r) = n - 1
      /\ \A k \in 1..n - 1 : r[k] = IF k <= i - 1 THEN a[k] ELSE c[k - (i - 1)]
  <2>1. /\ r \in Seq(S) /\ Len(r) = Len(a) + Len(c)
        /\ \A k \in 1..Len(a) + Len(c) : r[k] = IF k <= Len(a) THEN a[k] ELSE c[k - Len(a)]
    BY <1>5, <1>6, <1>7, ConcatProperties
  <2> QED BY <1>1, <1>5, <1>6, <2>1
<1>9. \A k \in 1..n - 1 : r[k] = q[IF k < i THEN k ELSE k + 1]
  <2> SUFFICES ASSUME NEW k \in 1..n - 1 PROVE r[k] = q[IF k < i THEN k ELSE k + 1]
    OBVIOUS
  <2>1. CASE k < i
    BY <1>1, <1>5, <1>8, <2>1
  <2>2. CASE ~(k < i)
    <3>1. r[k] = c[k - (i - 1)] /\ k - (i - 1) \in 1..n - i
      <4>1. i \in 1..n /\ ~(k <= i - 1) /\ k - (i - 1) \in 1..n - i
        BY <1>1, <2>2
      <4> QED BY <1>8, <4>1
    <3>2. c[k - (i - 1)] = q[i + (k - (i - 1))] /\ i + (k - (i - 1)) = k + 1
      BY <1>1, <1>6, <3>1
    <3> QED BY <2>2, <3>1, <3>2
  <2> QED BY <2>1, <2>2
<1> QED BY <1>1, <1>2, <1>3, <1>7, <1>8, <1>9 DEF RemoveAt

-----------------------------------------------------------------------------
(***************************************************************************)
(* Lists as sets: what their parts, joins and changes have in them, and    *)
(* that no member comes twice.                                             *)
(***************************************************************************)
\* What is in a list, as a set.
LEMMA ListIs ==
  ASSUME NEW S, NEW q \in Seq(S)
  PROVE  /\ Len(q) \in Nat /\ DOMAIN q = 1..Len(q) /\ ToSet(q) \subseteq S
         /\ \A x : Contains(q, x) <=> x \in ToSet(q)
         /\ q = <<>> <=> ToSet(q) = {}
         /\ q # <<>> => Head(q) \in ToSet(q) /\ Head(q) = q[1]
<1>1. /\ Len(q) \in Nat /\ DOMAIN q = 1..Len(q) /\ \A i \in 1..Len(q) : q[i] \in S
  BY LenProperties, ElementOfSeq
<1>2. ToSet(q) = {q[i] : i \in 1..Len(q)}
  BY <1>1 DEF ToSet
<1>3. q = <<>> <=> ToSet(q) = {}
  <2>1. q = <<>> => ToSet(q) = {}
    BY DEF ToSet
  <2>2. q # <<>> => Len(q) # 0
    BY EmptySeq
  <2>3. Len(q) # 0 => 1 \in 1..Len(q)
    BY <1>1
  <2> QED BY <1>2, <2>1, <2>2, <2>3
<1>4. q # <<>> => 1 \in 1..Len(q) /\ Head(q) = q[1]
  BY EmptySeq
<1>5. \A x : Contains(q, x) <=> x \in ToSet(q)
  BY <1>2 DEF Contains
<1> QED BY <1>1, <1>2, <1>3, <1>4, <1>5

\* A part of a list: its members, each once if the list has them once.
LEMMA PartOnce ==
  ASSUME NEW S, NEW q \in Seq(S), NEW i \in Int, NEW j \in Int, 1 <= i, j <= Len(q)
  PROVE  /\ SubSeq(q, i, j) \in Seq(S) /\ ToSet(SubSeq(q, i, j)) = {q[k] : k \in i..j}
         /\ IsInjective(q) => IsInjective(SubSeq(q, i, j))
<1>1. \A k \in i..j : q[k] \in S /\ k \in 1..Len(q)
  BY LenProperties, ElementOfSeq
<1>2. PICK a : a = SubSeq(q, i, j)
  OBVIOUS
<1>3. /\ a \in Seq(S) /\ Len(a) = (IF i <= j THEN j - i + 1 ELSE 0)
      /\ \A k \in 1..j - i + 1 : a[k] = q[i + k - 1]
  BY <1>1, <1>2, SubSeqProperties
<1>4. DOMAIN a = 1..j - i + 1
  <2>1. DOMAIN a = 1..Len(a)
    BY <1>3, LenProperties
  <2>2. 1..Len(a) = 1..j - i + 1
    BY <1>3
  <2> QED BY <2>1, <2>2
<1>5. ToSet(a) = {q[k] : k \in i..j}
  <2>1. \A k \in 1..j - i + 1 : i + k - 1 \in i..j
    OBVIOUS
  <2>2. \A k \in i..j : k - i + 1 \in 1..j - i + 1 /\ i + (k - i + 1) - 1 = k
    OBVIOUS
  <2>3. \A x \in ToSet(a) : x \in {q[k] : k \in i..j}
    BY <1>3, <1>4, <2>1 DEF ToSet
  <2>4. ASSUME NEW k \in i..j PROVE q[k] \in ToSet(a)
    <3>1. q[k] = a[k - i + 1]
      BY <1>3, <2>2
    <3> QED BY <1>4, <2>2, <3>1 DEF ToSet
  <2> QED BY <2>3, <2>4
<1>6. ASSUME IsInjective(q) PROVE IsInjective(a)
  <2>1. \A k, h \in 1..Len(q) : q[k] = q[h] => k = h
    BY <1>6, LenProperties DEF IsInjective
  <2>2. \A k \in 1..j - i + 1 : i + k - 1 \in 1..Len(q)
    BY LenProperties
  <2>3. ASSUME NEW k \in DOMAIN a, NEW h \in DOMAIN a, a[k] = a[h] PROVE k = h
    <3>1. k \in 1..j - i + 1 /\ h \in 1..j - i + 1 /\ q[i + k - 1] = q[i + h - 1]
      BY <1>3, <1>4, <2>3
    <3>2. i + k - 1 = i + h - 1
      BY <2>1, <2>2, <3>1
    <3> QED BY <3>1, <3>2
  <2> QED BY <2>3 DEF IsInjective
<1> QED BY <1>2, <1>3, <1>5, <1>6

\* Two lists one after the other.
LEMMA JoinedOnce ==
  ASSUME NEW S, NEW a \in Seq(S), NEW b \in Seq(S)
  PROVE  /\ a \o b \in Seq(S) /\ ToSet(a \o b) = ToSet(a) \cup ToSet(b)
         /\ IsInjective(a) /\ IsInjective(b) /\ ToSet(a) \cap ToSet(b) = {} => IsInjective(a \o b)
<1>1. PICK c : c = a \o b
  OBVIOUS
<1>2. /\ c \in Seq(S) /\ Len(c) = Len(a) + Len(b)
      /\ \A i \in 1..Len(a) + Len(b) : c[i] = IF i <= Len(a) THEN a[i] ELSE b[i - Len(a)]
  BY <1>1, ConcatProperties
<1>3. /\ DOMAIN a = 1..Len(a) /\ DOMAIN b = 1..Len(b) /\ DOMAIN c = 1..Len(a) + Len(b)
      /\ Len(a) \in Nat /\ Len(b) \in Nat
  BY <1>2, LenProperties
<1>4. /\ \A i \in 1..Len(a) : i \in DOMAIN c /\ c[i] = a[i]
      /\ \A i \in 1..Len(b) : Len(a) + i \in DOMAIN c /\ c[Len(a) + i] = b[i]
      /\ \A i \in DOMAIN c : i \in 1..Len(a) \/ (i - Len(a) \in 1..Len(b) /\ i = Len(a) + (i - Len(a)))
  <2>1. \A i \in 1..Len(a) : i \in DOMAIN c /\ i <= Len(a)
    BY <1>3
  <2>2. \A i \in 1..Len(b) : Len(a) + i \in DOMAIN c /\ ~(Len(a) + i <= Len(a)) /\ Len(a) + i - Len(a) = i
    BY <1>3
  <2>3. \A i \in DOMAIN c : i \in 1..Len(a) \/ (i - Len(a) \in 1..Len(b) /\ i = Len(a) + (i - Len(a)))
    BY <1>3
  <2>4. \A i \in 1..Len(a) : c[i] = a[i]
    BY <1>2, <1>3, <2>1
  <2>5. ASSUME NEW i \in 1..Len(b) PROVE c[Len(a) + i] = b[i]
    BY <1>2, <1>3, <2>2, SMTT(30)
  <2> QED BY <2>1, <2>2, <2>3, <2>4, <2>5
<1>5. ToSet(c) = ToSet(a) \cup ToSet(b)
  <2>1. \A x \in ToSet(c) : x \in ToSet(a) \cup ToSet(b)
    <3> SUFFICES ASSUME NEW i \in DOMAIN c PROVE c[i] \in ToSet(a) \cup ToSet(b)
      BY DEF ToSet
    <3>1. CASE i \in 1..Len(a)
      BY <1>3, <1>4, <3>1 DEF ToSet
    <3>2. CASE i - Len(a) \in 1..Len(b) /\ i = Len(a) + (i - Len(a))
      <4>1. c[i] = b[i - Len(a)]
        BY <1>4, <3>2
      <4> QED BY <1>3, <3>2, <4>1 DEF ToSet
    <3> QED BY <1>4, <3>1, <3>2
  <2>2. \A x \in ToSet(a) \cup ToSet(b) : x \in ToSet(c)
    BY <1>3, <1>4 DEF ToSet
  <2> QED BY <2>1, <2>2
<1>6. ASSUME IsInjective(a), IsInjective(b), ToSet(a) \cap ToSet(b) = {} PROVE IsInjective(c)
  <2> SUFFICES ASSUME NEW i \in DOMAIN c, NEW j \in DOMAIN c, c[i] = c[j] PROVE i = j
    BY DEF IsInjective
  <2>1. \A k \in 1..Len(a), h \in 1..Len(b) : a[k] # b[h]
    BY <1>3, <1>6 DEF ToSet
  <2>2. CASE i \in 1..Len(a) /\ j \in 1..Len(a)
    BY <1>3, <1>4, <1>6, <2>2 DEF IsInjective
  <2>3. CASE i \in 1..Len(a) /\ j - Len(a) \in 1..Len(b) /\ j = Len(a) + (j - Len(a))
    <3>1. c[i] = a[i] /\ c[j] = b[j - Len(a)]
      BY <1>4, <2>3
    <3> QED BY <2>1, <2>3, <3>1
  <2>4. CASE j \in 1..Len(a) /\ i - Len(a) \in 1..Len(b) /\ i = Len(a) + (i - Len(a))
    <3>1. c[j] = a[j] /\ c[i] = b[i - Len(a)]
      BY <1>4, <2>4
    <3> QED BY <2>1, <2>4, <3>1
  <2>5. CASE /\ i - Len(a) \in 1..Len(b) /\ i = Len(a) + (i - Len(a))
             /\ j - Len(a) \in 1..Len(b) /\ j = Len(a) + (j - Len(a))
    <3>1. c[j] = b[j - Len(a)] /\ c[i] = b[i - Len(a)]
      BY <1>4, <2>5
    <3>2. i - Len(a) = j - Len(a)
      BY <1>3, <1>6, <2>5, <3>1 DEF IsInjective
    <3> QED BY <2>5, <3>2
  <2> QED BY <1>4, <2>2, <2>3, <2>4, <2>5
<1> QED BY <1>1, <1>2, <1>5, <1>6

\* A list of one.
LEMMA SingleOnce ==
  ASSUME NEW S, NEW x \in S
  PROVE  <<x>> \in Seq(S) /\ ToSet(<<x>>) = {x} /\ IsInjective(<<x>>)
BY DEF ToSet, IsInjective

\* A member more, in some place.
LEMMA InsertedOnce ==
  ASSUME NEW S, NEW q \in Seq(S), NEW i \in 1..Len(q) + 1, NEW x \in S
  PROVE  /\ InsertAt(q, i, x) \in Seq(S) /\ ToSet(InsertAt(q, i, x)) = ToSet(q) \cup {x}
         /\ IsInjective(q) /\ x \notin ToSet(q) => IsInjective(InsertAt(q, i, x))
<1>1. Len(q) \in Nat /\ DOMAIN q = 1..Len(q)
  BY LenProperties
<1>2. PICK a : a = SubSeq(q, 1, i - 1)
  OBVIOUS
<1>3. PICK c : c = SubSeq(q, i, Len(q))
  OBVIOUS
<1>4. /\ a \in Seq(S) /\ ToSet(a) = {q[k] : k \in 1..i - 1}
      /\ IsInjective(q) => IsInjective(a)
  BY <1>1, <1>2, PartOnce
<1>5. /\ c \in Seq(S) /\ ToSet(c) = {q[k] : k \in i..Len(q)}
      /\ IsInjective(q) => IsInjective(c)
  BY <1>1, <1>3, PartOnce
<1>6. ToSet(a) \cup ToSet(c) = ToSet(q)
  <2>1. \A k : k \in 1..Len(q) <=> k \in 1..i - 1 \/ k \in i..Len(q)
    BY <1>1
  <2> QED BY <1>1, <1>4, <1>5, <2>1 DEF ToSet
<1>7. IsInjective(q) => ToSet(a) \cap ToSet(c) = {}
  <2>1. \A k \in 1..i - 1, h \in i..Len(q) : k \in DOMAIN q /\ h \in DOMAIN q /\ k # h
    BY <1>1
  <2> QED BY <1>4, <1>5, <2>1 DEF IsInjective
<1>8. PICK e : e = <<x>> /\ e \in Seq(S) /\ ToSet(e) = {x} /\ IsInjective(e)
  BY SingleOnce
<1>9. PICK b : b = a \o e
  OBVIOUS
<1>10. /\ b \in Seq(S) /\ ToSet(b) = ToSet(a) \cup {x}
       /\ IsInjective(q) /\ x \notin ToSet(q) => IsInjective(b)
  <2>1. /\ b \in Seq(S) /\ ToSet(b) = ToSet(a) \cup ToSet(e)
        /\ IsInjective(a) /\ IsInjective(e) /\ ToSet(a) \cap ToSet(e) = {} => IsInjective(b)
    <3>1. a \in Seq(S) /\ e \in Seq(S)
      BY <1>4, <1>8
    <3> QED BY <1>9, <3>1, JoinedOnce
  <2>2. x \notin ToSet(q) => ToSet(a) \cap ToSet(e) = {}
    BY <1>6, <1>8
  <2> QED BY <1>4, <1>8, <2>1, <2>2
<1>11. PICK d : d = b \o c
  OBVIOUS
<1>12. /\ d \in Seq(S) /\ ToSet(d) = ToSet(q) \cup {x}
       /\ IsInjective(q) /\ x \notin ToSet(q) => IsInjective(d)
  <2>1. d \in Seq(S) /\ ToSet(d) = ToSet(b) \cup ToSet(c)
        /\ (IsInjective(b) /\ IsInjective(c) /\ ToSet(b) \cap ToSet(c) = {} => IsInjective(d))
    <3>1. b \in Seq(S) /\ c \in Seq(S)
      BY <1>5, <1>10
    <3> QED BY <1>11, <3>1, JoinedOnce
  <2>2. IsInjective(q) /\ x \notin ToSet(q) => ToSet(b) \cap ToSet(c) = {}
    BY <1>6, <1>7, <1>10
  <2>3. ToSet(b) \cup ToSet(c) = ToSet(q) \cup {x}
    BY <1>6, <1>10
  <2> QED BY <1>5, <1>10, <2>1, <2>2, <2>3
<1>13. d = InsertAt(q, i, x)
  BY <1>2, <1>3, <1>8, <1>9, <1>11 DEF InsertAt
<1> QED BY <1>12, <1>13

\* A member gives way to a list.
Replaced(q, i, s) == SubSeq(q, 1, i - 1) \o s \o SubSeq(q, i + 1, Len(q))

LEMMA ReplacedOnce ==
  ASSUME NEW S, NEW q \in Seq(S), NEW i \in 1..Len(q), NEW s \in Seq(S),
         IsInjective(q), IsInjective(s), ToSet(s) \cap ToSet(q) = {}
  PROVE  /\ Replaced(q, i, s) \in Seq(S) /\ IsInjective(Replaced(q, i, s))
         /\ ToSet(Replaced(q, i, s)) = (ToSet(q) \ {q[i]}) \cup ToSet(s)
<1>1. Len(q) \in Nat /\ DOMAIN q = 1..Len(q)
  BY LenProperties
<1>2. PICK a : a = SubSeq(q, 1, i - 1)
  OBVIOUS
<1>3. PICK c : c = SubSeq(q, i + 1, Len(q))
  OBVIOUS
<1>4. a \in Seq(S) /\ ToSet(a) = {q[k] : k \in 1..i - 1} /\ IsInjective(a)
  BY <1>1, <1>2, PartOnce
<1>5. c \in Seq(S) /\ ToSet(c) = {q[k] : k \in i + 1..Len(q)} /\ IsInjective(c)
  BY <1>1, <1>3, PartOnce, SMTT(30)
<1>6. ToSet(a) \cup ToSet(c) = ToSet(q) \ {q[i]}
  <2>1. \A k : k \in 1..Len(q) /\ k # i <=> k \in 1..i - 1 \/ k \in i + 1..Len(q)
    BY <1>1
  <2>2. \A k \in 1..Len(q) : q[k] # q[i] <=> k # i
    BY <1>1 DEF IsInjective
  <2>3. ToSet(q) = {q[k] : k \in 1..Len(q)}
    BY <1>1 DEF ToSet
  <2>4. \A x \in ToSet(a) \cup ToSet(c) : x \in ToSet(q) \ {q[i]}
    BY <1>4, <1>5, <2>1, <2>2, <2>3
  <2>5. \A x \in ToSet(q) \ {q[i]} : x \in ToSet(a) \cup ToSet(c)
    BY <1>4, <1>5, <2>1, <2>2, <2>3
  <2> QED BY <2>4, <2>5
<1>7. ToSet(a) \cap ToSet(c) = {}
  <2>1. \A k \in 1..i - 1, h \in i + 1..Len(q) : k \in DOMAIN q /\ h \in DOMAIN q /\ k # h
    BY <1>1
  <2> QED BY <1>4, <1>5, <2>1 DEF IsInjective
<1>8. PICK b : b = a \o s
  OBVIOUS
<1>9. b \in Seq(S) /\ ToSet(b) = ToSet(a) \cup ToSet(s) /\ IsInjective(b)
  <2>1. ToSet(a) \cap ToSet(s) = {}
    BY <1>6
  <2> QED BY <1>4, <1>8, <2>1, JoinedOnce
<1>10. PICK d : d = b \o c
  OBVIOUS
<1>11. d \in Seq(S) /\ IsInjective(d) /\ ToSet(d) = (ToSet(q) \ {q[i]}) \cup ToSet(s)
  <2>1. ToSet(b) \cap ToSet(c) = {}
    BY <1>6, <1>7, <1>9
  <2>2. d \in Seq(S) /\ IsInjective(d) /\ ToSet(d) = ToSet(b) \cup ToSet(c)
    <3>1. b \in Seq(S) /\ c \in Seq(S) /\ IsInjective(b) /\ IsInjective(c)
      BY <1>5, <1>9
    <3> QED BY <1>10, <2>1, <3>1, JoinedOnce
  <2> QED BY <1>6, <1>9, <2>2
<1>12. d = Replaced(q, i, s)
  BY <1>2, <1>3, <1>8, <1>10 DEF Replaced
<1> QED BY <1>11, <1>12

\* A list without repetitions is as long as the set of its members.
LEMMA CountOnce ==
  ASSUME NEW S, NEW q \in Seq(S), IsInjective(q)
  PROVE  IsFiniteSet(ToSet(q)) /\ Cardinality(ToSet(q)) = Len(q) /\ Len(q) \in Nat
<1>1. PICK n \in Nat : n = Len(q) /\ DOMAIN q = 1..n
  BY LenProperties
<1>2. PICK T : T = ToSet(q)
  OBVIOUS
<1>3. q \in Bijection(1..n, T)
  <2>1. q \in [1..n -> T]
    BY <1>1, <1>2 DEF ToSet
  <2>2. \A x \in T : \E i \in 1..n : q[i] = x
    BY <1>1, <1>2 DEF ToSet
  <2>3. \A i, j \in 1..n : q[i] = q[j] => i = j
    BY <1>1 DEF IsInjective
  <2> QED BY <2>1, <2>2, <2>3 DEF Bijection, Injection, Surjection
<1>4. ExistsBijection(1..n, T)
  BY <1>3 DEF ExistsBijection
<1>5. IsFiniteSet(1..n)
  BY FS_Interval
<1>6. IsFiniteSet(T) /\ Cardinality(T) = n
  BY <1>4, <1>5, FS_Bijection, FS_CountingElements
<1> QED BY <1>1, <1>2, <1>6

\* One of a list's members goes.
LEMMA LessOne ==
  ASSUME NEW S, NEW q \in Seq(S), IsInjective(q), NEW x \in ToSet(q), NEW r, r = Without(q, {x})
  PROVE  /\ r \in Seq(S) /\ IsInjective(r) /\ ToSet(r) = ToSet(q) \ {x}
         /\ Len(q) \in Nat /\ Len(r) \in Nat /\ Len(r) + 1 = Len(q)
<1>1. r \in Seq(S) /\ IsInjective(r) /\ ToSet(r) = ToSet(q) \ {x}
  BY WithoutProperties
<1>2. PICK T : T = ToSet(q) /\ IsFiniteSet(T) /\ Cardinality(T) = Len(q) /\ Len(q) \in Nat
  BY CountOnce
<1>3. Cardinality(ToSet(r)) = Len(r) /\ Len(r) \in Nat
  BY <1>1, CountOnce
<1>4. Cardinality(T \ {x}) = Cardinality(T) - 1
  BY <1>2, FS_RemoveElement
<1>5. T \ {x} = ToSet(r)
  BY <1>1, <1>2
<1>6. PICK i \in Nat : i = Len(q)
  BY <1>2
<1>7. PICK j \in Nat : j = Len(r)
  BY <1>3
<1>8. j = i - 1
  BY <1>2, <1>3, <1>4, <1>5, <1>6, <1>7
<1>9. Len(q) \in Nat /\ Len(r) \in Nat /\ Len(r) + 1 = Len(q)
  BY <1>6, <1>7, <1>8
<1> QED BY <1>1, <1>9
=============================================================================
