------------------------ MODULE TerminalAttachProofs ------------------------
(***************************************************************************)
(* The books of a subscriber balance, no chunk is dropped silently, and a  *)
(* client is shed for its own backlog only, for every number of clients,   *)
(* chunks and replays, and for all caps.                                   *)
(***************************************************************************)
EXTENDS TerminalAttach, SequenceLemmas

(***************************************************************************)
(* Sums of sequences of numbers.                                           *)
(***************************************************************************)
\* Is F the table of the sums of the first i numbers?
SumTable(F, s, n) == F = [i \in 0..n |-> IF i = 0 THEN 0 ELSE F[i - 1] + s[i]]

LEMMA SumTableExists ==
  ASSUME NEW s, NEW n \in Nat
  PROVE  \E F : SumTable(F, s, n)
<1> DEFINE T == {m \in Nat : ~\E F : SumTable(F, s, m)}
<1> SUFFICES ASSUME T # {} PROVE FALSE
  OBVIOUS
<1>1. PICK m \in T : \A k \in T : m <= k
  BY LeastNumber
<1>2. CASE m = 0
  <2>1. PICK F : F = [i \in 0..0 |-> 0]
    OBVIOUS
  <2>2. F = [i \in 0..0 |-> IF i = 0 THEN 0 ELSE F[i - 1] + s[i]]
    BY <2>1
  <2> QED BY <1>2, <2>2 DEF SumTable
<1>3. CASE m # 0
  <2>1. m - 1 \in Nat /\ m - 1 \notin T
    BY <1>1, <1>3
  <2>2. PICK F : SumTable(F, s, m - 1)
    BY <2>1
  <2>3. PICK G : G = [i \in 0..m |-> IF i < m THEN F[i] ELSE F[m - 1] + s[m]]
    OBVIOUS
  <2>4. ASSUME NEW i \in 0..m PROVE G[i] = IF i = 0 THEN 0 ELSE G[i - 1] + s[i]
    <3>1. CASE i = m
      BY <1>3, <2>1, <2>3, <3>1
    <3>2. CASE i < m
      <4>1. i \in 0..m - 1 /\ G[i] = F[i] /\ (i # 0 => G[i - 1] = F[i - 1])
        BY <2>1, <2>3, <3>2
      <4>2. F[i] = IF i = 0 THEN 0 ELSE F[i - 1] + s[i]
        BY <2>2, <4>1 DEF SumTable
      <4> QED BY <4>1, <4>2
    <3> QED BY <3>1, <3>2
  <2>5. SumTable(G, s, m)
    BY <2>3, <2>4 DEF SumTable
  <2> QED BY <2>5
<1> QED BY <1>2, <1>3

\* F adds up the numbers of s.
Sums(F, s) ==
  /\ F \in [0..Len(s) -> Nat] /\ F[0] = 0
  /\ \A i \in 1..Len(s) : F[i] = F[i - 1] + s[i]

LEMMA TotalSums ==
  ASSUME NEW s \in Seq(Nat)
  PROVE  \E F : Sums(F, s) /\ Total(s) = F[Len(s)]
<1> DEFINE K == CHOOSE F : SumTable(F, s, Len(s))
<1>1. Total(s) = K[Len(s)]
  BY Zenon DEF Total, SumTable
<1>2. Len(s) \in Nat /\ \A i \in 1..Len(s) : s[i] \in Nat
  OBVIOUS
<1>3. SumTable(K, s, Len(s))
  BY <1>2, SumTableExists, Zenon
<1> HIDE DEF K
<1>4. \A i \in 0..Len(s) : K[i] = IF i = 0 THEN 0 ELSE K[i - 1] + s[i]
  BY <1>3 DEF SumTable
<1>5. 0 \in 0..Len(s) /\ \A i \in 1..Len(s) : i \in 0..Len(s) /\ i # 0
  BY <1>2
<1>6. K[0] = 0 /\ \A i \in 1..Len(s) : K[i] = K[i - 1] + s[i]
  BY <1>4, <1>5
<1>7. \A i \in 0..Len(s) : K[i] \in Nat
  <2> DEFINE T == {i \in 0..Len(s) : K[i] \notin Nat}
  <2> SUFFICES ASSUME T # {} PROVE FALSE
    OBVIOUS
  <2>1. PICK i \in T : \A k \in T : i <= k
    <3>1. T \subseteq Nat
      OBVIOUS
    <3> QED BY <3>1, LeastNumber
  <2>2. i # 0
    BY <1>6, <2>1
  <2>3. i \in 1..Len(s) /\ i - 1 \in 0..Len(s) /\ i - 1 \notin T
    BY <1>2, <2>1, <2>2
  <2>4. K[i - 1] \in Nat /\ s[i] \in Nat /\ K[i] = K[i - 1] + s[i]
    BY <1>2, <1>6, <2>3
  <2> QED BY <2>1, <2>4
<1>8. K \in [0..Len(s) -> Nat]
  <2>1. K = [i \in 0..Len(s) |-> IF i = 0 THEN 0 ELSE K[i - 1] + s[i]]
    BY <1>3 DEF SumTable
  <2> QED BY <1>7, <2>1
<1>9. Sums(K, s)
  BY <1>6, <1>8 DEF Sums
<1> QED BY <1>1, <1>9

LEMMA SumsUnique ==
  ASSUME NEW s \in Seq(Nat), NEW F, NEW G, Sums(F, s), Sums(G, s)
  PROVE  F[Len(s)] = G[Len(s)]
<1> DEFINE T == {i \in 0..Len(s) : F[i] # G[i]}
<1>0. Len(s) \in Nat
  OBVIOUS
<1>1. T = {}
  <2> SUFFICES ASSUME T # {} PROVE FALSE
    OBVIOUS
  <2>1. PICK i \in T : \A k \in T : i <= k
    <3>1. T \subseteq Nat
      OBVIOUS
    <3> QED BY <3>1, LeastNumber
  <2>2. i # 0
    BY <2>1 DEF Sums
  <2>3. i \in 1..Len(s) /\ i - 1 \in 0..Len(s) /\ i - 1 \notin T
    BY <1>0, <2>1, <2>2
  <2>4. F[i] = F[i - 1] + s[i] /\ G[i] = G[i - 1] + s[i]
    BY <2>3 DEF Sums
  <2>5. F[i - 1] = G[i - 1]
    BY <2>3
  <2> QED BY <2>1, <2>4, <2>5
<1> QED BY <1>0, <1>1

LEMMA TotalIs ==
  ASSUME NEW s \in Seq(Nat), NEW F, Sums(F, s)
  PROVE  Total(s) = F[Len(s)] /\ Total(s) \in Nat
<1>1. PICK G : Sums(G, s) /\ Total(s) = G[Len(s)]
  BY TotalSums
<1>2. F[Len(s)] \in Nat
  BY DEF Sums
<1> QED BY <1>1, <1>2, SumsUnique

LEMMA TotalNat == \A s \in Seq(Nat) : Total(s) \in Nat
BY TotalSums, TotalIs

LEMMA TotalEmpty == Total(<<>>) = 0
<1>1. PICK e \in Seq(Nat) : e = <<>> /\ Len(e) = 0
  BY EmptySeq
<1>2. PICK F : Sums(F, e) /\ Total(e) = F[Len(e)]
  BY TotalSums
<1> QED BY <1>1, <1>2 DEF Sums

\* A table for the longer sequence, and one for the shorter.
LEMMA TableGrows ==
  ASSUME NEW n \in Nat, NEW x \in Nat, NEW F \in [0..n -> Nat]
  PROVE  \E G \in [0..n + 1 -> Nat] : G[n + 1] = F[n] + x /\ \A i \in 0..n : G[i] = F[i]
<1> DEFINE G == [i \in 0..n + 1 |-> IF i <= n THEN F[i] ELSE F[n] + x]
<1>1. F[n] \in Nat /\ F[n] + x \in Nat
  OBVIOUS
<1>2. \A i \in 0..n + 1 : (IF i <= n THEN F[i] ELSE F[n] + x) \in Nat
  BY <1>1
<1>3. G \in [0..n + 1 -> Nat]
  BY <1>2
<1>4. G[n + 1] = F[n] + x /\ \A i \in 0..n : G[i] = F[i]
  OBVIOUS
<1> QED BY <1>3, <1>4

LEMMA TotalAppend ==
  ASSUME NEW s \in Seq(Nat), NEW x \in Nat
  PROVE  Total(Append(s, x)) = Total(s) + x
<1>1. PICK F : Sums(F, s) /\ Total(s) = F[Len(s)]
  BY TotalSums
<1>2. PICK a \in Seq(Nat) : a = Append(s, x)
  BY AppendProperties
<1>3. PICK n \in Nat : n = Len(s)
  OBVIOUS
<1>4. Len(a) = n + 1 /\ a[n + 1] = x /\ \A i \in 1..n : a[i] = s[i]
  BY <1>2, <1>3
<1>5. F \in [0..n -> Nat] /\ F[0] = 0 /\ \A i \in 1..n : F[i] = F[i - 1] + s[i]
  BY <1>1, <1>3 DEF Sums
<1>6. PICK G \in [0..n + 1 -> Nat] : G[n + 1] = F[n] + x /\ \A i \in 0..n : G[i] = F[i]
  <2>1. F \in [0..n -> Nat]
    BY <1>5
  <2> QED BY <2>1, TableGrows, ZenonT(60)
<1>7. ASSUME NEW i \in 1..n + 1 PROVE G[i] = G[i - 1] + a[i]
  <2>1. CASE i <= n
    <3>1. i \in 1..n /\ i \in 0..n /\ i - 1 \in 0..n
      BY <2>1
    <3> QED BY <1>4, <1>5, <1>6, <3>1
  <2>2. CASE i = n + 1
    BY <1>4, <1>6, <2>2
  <2> QED BY <2>1, <2>2
<1>8. G[0] = 0
  BY <1>5, <1>6
<1>9. Sums(G, a)
  BY <1>4, <1>7, <1>8 DEF Sums
<1> QED BY <1>1, <1>2, <1>3, <1>4, <1>6, <1>9, TotalIs

LEMMA TableShifts ==
  ASSUME NEW n \in Nat, NEW x \in Nat, NEW G \in [0..n -> Nat]
  PROVE  \E H \in [0..n + 1 -> Nat] : H[0] = 0 /\ \A i \in 1..n + 1 : H[i] = x + G[i - 1]
<1> DEFINE H == [i \in 0..n + 1 |-> IF i = 0 THEN 0 ELSE x + G[i - 1]]
<1>1. \A i \in 0..n + 1 : (IF i = 0 THEN 0 ELSE x + G[i - 1]) \in Nat
  OBVIOUS
<1>2. H \in [0..n + 1 -> Nat]
  BY <1>1
<1>3. H[0] = 0 /\ \A i \in 1..n + 1 : H[i] = x + G[i - 1]
  OBVIOUS
<1> QED BY <1>2, <1>3

LEMMA TotalTail ==
  ASSUME NEW s \in Seq(Nat), s # <<>>
  PROVE  Total(s) = Head(s) + Total(Tail(s))
<1>1. PICK t \in Seq(Nat) : t = Tail(s)
  BY HeadTailProperties
<1>2. PICK n \in Nat : n = Len(t)
  OBVIOUS
<1>3. Len(s) = n + 1 /\ Head(s) = s[1] /\ s[1] \in Nat /\ \A i \in 1..n : t[i] = s[i + 1]
  BY <1>1, <1>2, HeadTailProperties, EmptySeq
<1>4. PICK G : Sums(G, t) /\ Total(t) = G[n]
  BY <1>2, TotalSums
<1>5. G \in [0..n -> Nat] /\ G[0] = 0 /\ \A i \in 1..n : G[i] = G[i - 1] + t[i]
  BY <1>2, <1>4 DEF Sums
<1>6. PICK H \in [0..n + 1 -> Nat] : H[0] = 0 /\ \A i \in 1..n + 1 : H[i] = s[1] + G[i - 1]
  BY <1>3, <1>5, TableShifts
<1>7. ASSUME NEW i \in 1..n + 1 PROVE H[i] = H[i - 1] + s[i]
  <2>1. CASE i = 1
    BY <1>3, <1>5, <1>6, <2>1
  <2>2. CASE i # 1
    <3>1. PICK j \in 1..n : i = j + 1
      BY <2>2
    <3>2. H[i] = s[1] + G[j] /\ H[j] = s[1] + G[j - 1] /\ G[j] = G[j - 1] + t[j] /\ t[j] = s[i]
      <4>1. j \in 1..n + 1 /\ i - 1 = j
        BY <3>1
      <4> QED BY <1>3, <1>5, <1>6, <3>1, <4>1
    <3>3. G[j - 1] \in Nat /\ t[j] \in Nat
      <4>1. j - 1 \in 0..n
        OBVIOUS
      <4>2. t[j] \in Nat
        BY <1>2, ElementOfSeq
      <4> QED BY <1>5, <4>1, <4>2
    <3>4. i - 1 = j
      BY <3>1
    <3>5. H[i] = H[j] + s[i]
      <4>1. PICK x \in Nat, y \in Nat, z \in Nat : x = s[1] /\ y = G[j - 1] /\ z = t[j]
        BY <1>3, <3>3
      <4>2. H[i] = x + (y + z) /\ H[j] = x + y /\ s[i] = z
        BY <3>2, <4>1
      <4> QED BY <4>2
    <3> QED BY <3>4, <3>5
  <2> QED BY <2>1, <2>2
<1>8. Sums(H, s)
  BY <1>3, <1>6, <1>7 DEF Sums
<1>9. H[n + 1] = s[1] + G[n]
  BY <1>6
<1> QED BY <1>1, <1>3, <1>4, <1>8, <1>9, TotalIs
-----------------------------------------------------------------------------
(***************************************************************************)
(* Sums over a queue of messages, each with a weight.                      *)
(***************************************************************************)
Column(q, w) == [i \in DOMAIN q |-> w[q[i]]]

LEMMA ColumnType ==
  ASSUME NEW w \in [Message -> Nat], NEW q \in Seq(Message)
  PROVE  /\ Column(q, w) \in Seq(Nat) /\ Len(Column(q, w)) = Len(q)
         /\ \A i \in 1..Len(q) : Column(q, w)[i] = w[q[i]]
<1>1. PICK n \in Nat : n = Len(q) /\ DOMAIN q = 1..n /\ \A i \in 1..n : q[i] \in Message
  OBVIOUS
<1>2. Column(q, w) \in [1..n -> Nat] /\ \A i \in 1..n : Column(q, w)[i] = w[q[i]]
  BY <1>1 DEF Column
<1>3. Column(q, w) \in Seq(Nat)
  BY <1>2, SeqDef
<1>4. Len(Column(q, w)) = n
  BY <1>2, <1>3, LenProperties
<1> QED BY <1>1, <1>2, <1>3, <1>4

LEMMA SameNumbers ==
  ASSUME NEW s \in Seq(Nat), NEW t \in Seq(Nat), Len(s) = Len(t),
         \A i \in 1..Len(s) : s[i] = t[i]
  PROVE  s = t
BY SeqEqual

LEMMA ColumnAppend ==
  ASSUME NEW w \in [Message -> Nat], NEW q \in Seq(Message), NEW m \in Message
  PROVE  Total(Column(Append(q, m), w)) = Total(Column(q, w)) + w[m]
<1>1. PICK a \in Seq(Message) : a = Append(q, m)
  BY AppendProperties
<1>2. PICK n \in Nat : n = Len(q)
  OBVIOUS
<1>3. Len(a) = n + 1 /\ a[n + 1] = m /\ \A i \in 1..n : a[i] = q[i]
  BY <1>1, <1>2
<1>4. PICK s \in Seq(Nat) : s = Column(q, w) /\ Len(s) = n /\ \A i \in 1..n : s[i] = w[q[i]]
  BY <1>2, ColumnType
<1>5. PICK t \in Seq(Nat) : t = Column(a, w) /\ Len(t) = n + 1 /\ \A i \in 1..n + 1 : t[i] = w[a[i]]
  BY <1>3, ColumnType
<1>6. PICK u \in Seq(Nat) : u = Append(s, w[m])
  BY AppendProperties
<1>7. Len(u) = n + 1 /\ u[n + 1] = w[m] /\ \A i \in 1..n : u[i] = s[i]
  BY <1>4, <1>6
<1>8. t = u
  <2>1. ASSUME NEW i \in 1..n + 1 PROVE t[i] = u[i]
    <3>1. CASE i \in 1..n
      <4>1. t[i] = w[a[i]] /\ a[i] = q[i]
        BY <1>3, <1>5, <3>1
      <4>2. u[i] = s[i] /\ s[i] = w[q[i]]
        BY <1>4, <1>7, <3>1
      <4> QED BY <4>1, <4>2
    <3>2. CASE i = n + 1
      BY <1>3, <1>5, <1>7, <3>2
    <3> QED BY <3>1, <3>2
  <2> QED BY <1>5, <1>7, <2>1, SameNumbers
<1>9. w[m] \in Nat
  OBVIOUS
<1> QED BY <1>1, <1>4, <1>5, <1>6, <1>8, <1>9, TotalAppend

LEMMA ColumnTail ==
  ASSUME NEW w \in [Message -> Nat], NEW q \in Seq(Message), q # <<>>
  PROVE  Total(Column(q, w)) = w[Head(q)] + Total(Column(Tail(q), w))
<1>1. PICK r \in Seq(Message) : r = Tail(q)
  BY HeadTailProperties
<1>2. PICK n \in Nat : n = Len(r)
  OBVIOUS
<1>3. Len(q) = n + 1 /\ Head(q) = q[1] /\ \A i \in 1..n : r[i] = q[i + 1]
  BY <1>1, <1>2, HeadTailProperties, EmptySeq
<1>4. PICK s \in Seq(Nat) : s = Column(q, w) /\ Len(s) = n + 1 /\ \A i \in 1..n + 1 : s[i] = w[q[i]]
  BY <1>3, ColumnType, ZenonT(60)
<1>5. PICK t \in Seq(Nat) : t = Column(r, w) /\ Len(t) = n /\ \A i \in 1..n : t[i] = w[r[i]]
  BY <1>2, ColumnType
<1>6. s # <<>>
  BY <1>4, EmptySeq
<1>7. PICK u \in Seq(Nat) : u = Tail(s) /\ Len(u) = n /\ \A i \in 1..n : u[i] = s[i + 1]
  <2>1. PICK u \in Seq(Nat) : u = Tail(s) /\ Len(u) = Len(s) - 1 /\ \A i \in 1..Len(u) : u[i] = s[i + 1]
    BY <1>6, HeadTailProperties
  <2>2. Len(u) = n
    BY <1>4, <2>1
  <2> QED BY <2>1, <2>2
<1>8. t = u
  <2>1. ASSUME NEW i \in 1..n PROVE t[i] = u[i]
    <3>1. i + 1 \in 1..n + 1
      OBVIOUS
    <3> QED BY <1>3, <1>4, <1>5, <1>7, <3>1
  <2> QED BY <1>5, <1>7, <2>1, SameNumbers
<1>9. Head(s) = w[Head(q)]
  <2>1. Head(s) = s[1] /\ 1 \in 1..n + 1
    BY <1>6, HeadTailProperties
  <2> QED BY <1>3, <1>4, <2>1
<1>10. Total(s) = Head(s) + Total(u)
  BY <1>6, <1>7, TotalTail
<1> QED BY <1>1, <1>4, <1>5, <1>8, <1>9, <1>10

ChargeOf  == [m \in Message |-> m.charge]
OfKind(k) == [m \in Message |-> IF m.kind = k THEN 1 ELSE 0]

LEMMA WeightsType ==
  /\ ChargeOf \in [Message -> Nat] /\ \A m \in Message : ChargeOf[m] = m.charge
  /\ \A k : /\ OfKind(k) \in [Message -> Nat]
            /\ \A m \in Message : OfKind(k)[m] = IF m.kind = k THEN 1 ELSE 0
BY DEF ChargeOf, OfKind, Message

LEMMA SumsAreColumns ==
  ASSUME NEW q \in Seq(Message)
  PROVE  /\ Charges(q) = Total(Column(q, ChargeOf))
         /\ \A k : Number(q, k) = Total(Column(q, OfKind(k)))
<1>1. \A i \in DOMAIN q : q[i] \in Message
  OBVIOUS
<1>2. [i \in DOMAIN q |-> q[i].charge] = Column(q, ChargeOf)
  BY <1>1, WeightsType DEF Column
<1>3. ASSUME NEW k PROVE [i \in DOMAIN q |-> IF q[i].kind = k THEN 1 ELSE 0] = Column(q, OfKind(k))
  BY <1>1, WeightsType DEF Column
<1> QED BY <1>2, <1>3 DEF Charges, Number

LEMMA ChargesAppend ==
  ASSUME NEW q \in Seq(Message), NEW m \in Message
  PROVE  Charges(Append(q, m)) = Charges(q) + m.charge
<1>1. Append(q, m) \in Seq(Message)
  BY AppendProperties
<1>2. /\ Charges(Append(q, m)) = Total(Column(Append(q, m), ChargeOf))
      /\ Charges(q) = Total(Column(q, ChargeOf))
  BY <1>1, SumsAreColumns
<1>3. Total(Column(Append(q, m), ChargeOf)) = Total(Column(q, ChargeOf)) + ChargeOf[m]
  BY WeightsType, ColumnAppend
<1> QED BY <1>2, <1>3, WeightsType

LEMMA ChargesTail ==
  ASSUME NEW q \in Seq(Message), q # <<>>
  PROVE  Charges(q) = Head(q).charge + Charges(Tail(q))
<1>1. Tail(q) \in Seq(Message) /\ Head(q) \in Message
  BY HeadTailProperties
<1> QED BY <1>1, WeightsType, SumsAreColumns, ColumnTail

LEMMA ChargesNat == \A q \in Seq(Message) : Charges(q) \in Nat
BY WeightsType, SumsAreColumns, ColumnType, TotalNat

LEMMA ChargesEmpty == Charges(<<>>) = 0
<1>1. PICK e \in Seq(Message) : e = <<>> /\ Len(e) = 0
  BY EmptySeq
<1>2. Column(e, ChargeOf) \in Seq(Nat) /\ Len(Column(e, ChargeOf)) = 0
  BY <1>1, WeightsType, ColumnType
<1>3. Column(e, ChargeOf) = <<>>
  BY <1>2, EmptySeq
<1> QED BY <1>1, <1>3, SumsAreColumns, TotalEmpty
-----------------------------------------------------------------------------
(***************************************************************************)
(* What a queue can hold.                                                  *)
(***************************************************************************)
Sound(m) ==
  /\ m.kind = "output" => m.charge = 1
  /\ m.kind = "replay" => m.charge <= ScrollbackCap
  /\ IsNotice(m) => m.charge = 0

SoundQueue(q) == q \in Seq(Message) /\ \A i \in 1..Len(q) : Sound(q[i])

LiveAt(q) == {i \in 1..Len(q) : q[i].kind = "output"}

\* Each chunk is followed by the next one; the last one is n.
InRow(q) ==
  \A i, j \in LiveAt(q) :
    i < j /\ (\A k \in LiveAt(q) : k <= i \/ j <= k) => q[j].chunk = q[i].chunk + 1
UpTo(q, n) == \A i \in LiveAt(q) : (\A k \in LiveAt(q) : k <= i) => q[i].chunk = n

LEMMA AttachBounds ==
  /\ MaxOutput \in Nat /\ MaxReplays \in Nat /\ ScrollbackCap \in Nat \ {0}
  /\ PendingCap \in Nat /\ PendingCap > ScrollbackCap
BY AttachAssumption

\* With one replay in it, a queue owes no more than its chunks and a scrollback.
LEMMA BacklogIsOutput ==
  ASSUME NEW q, SoundQueue(q), Number(q, "replay") < 2
  PROVE  Charges(q) <= Number(q, "output") + ScrollbackCap
<1>1. q \in Seq(Message)
  BY DEF SoundQueue
<1>2. PICK n \in Nat : n = Len(q)
  BY <1>1
<1>3. \A i \in 1..n : Sound(q[i]) /\ q[i] \in Message
  BY <1>1, <1>2, ElementOfSeq DEF SoundQueue
<1>4. PICK C : /\ Charges(q) = C[n] /\ C \in [0..n -> Nat] /\ C[0] = 0
               /\ \A i \in 1..n : C[i] = C[i - 1] + q[i].charge
  <2>1. PICK s \in Seq(Nat) : s = Column(q, ChargeOf) /\ Len(s) = n /\ \A i \in 1..n : s[i] = q[i].charge
    BY <1>1, <1>2, <1>3, ColumnType, WeightsType
  <2>2. PICK F : Sums(F, s) /\ Total(s) = F[Len(s)]
    BY TotalSums
  <2>3. F \in [0..n -> Nat] /\ F[0] = 0 /\ \A i \in 1..n : F[i] = F[i - 1] + q[i].charge
    BY <2>1, <2>2 DEF Sums
  <2>4. Charges(q) = F[n]
    BY <1>1, <2>1, <2>2, SumsAreColumns
  <2> QED BY <2>3, <2>4
<1> DEFINE Counts(F, kind) ==
              /\ Number(q, kind) = F[n] /\ F \in [0..n -> Nat] /\ F[0] = 0
              /\ \A i \in 1..n : F[i] = F[i - 1] + IF q[i].kind = kind THEN 1 ELSE 0
<1>5. ASSUME NEW kind PROVE \E F : Counts(F, kind)
  <2>1. PICK s \in Seq(Nat) : /\ s = Column(q, OfKind(kind)) /\ Len(s) = n
                              /\ \A i \in 1..n : s[i] = IF q[i].kind = kind THEN 1 ELSE 0
    <3>1. PICK w \in [Message -> Nat] : /\ w = OfKind(kind)
                                        /\ \A m \in Message : w[m] = IF m.kind = kind THEN 1 ELSE 0
      BY WeightsType
    <3>2. PICK s \in Seq(Nat) : s = Column(q, w) /\ Len(s) = n /\ \A i \in 1..n : s[i] = w[q[i]]
      BY <1>1, <1>2, ColumnType
    <3> QED BY <1>3, <3>1, <3>2
  <2>2. PICK F : Sums(F, s) /\ Total(s) = F[Len(s)]
    BY TotalSums
  <2>3. /\ F \in [0..n -> Nat] /\ F[0] = 0
        /\ \A i \in 1..n : F[i] = F[i - 1] + IF q[i].kind = kind THEN 1 ELSE 0
    BY <2>1, <2>2 DEF Sums
  <2>4. Number(q, kind) = F[n]
    BY <1>1, <2>1, <2>2, SumsAreColumns
  <2> QED BY <2>3, <2>4
<1>6. /\ \E O : Counts(O, "output")
      /\ \E R : Counts(R, "replay")
  <2> HIDE DEF Counts
  <2> QED BY <1>5, Zenon
<1>7. PICK O, R : Counts(O, "output") /\ Counts(R, "replay")
  <2> HIDE DEF Counts
  <2> QED BY <1>6, Zenon
<1> DEFINE P(i) == R[i] < 2 => C[i] <= O[i] + IF R[i] = 0 THEN 0 ELSE ScrollbackCap
<1>8. \A i \in 0..n : P(i)
  <2> DEFINE T == {i \in 0..n : ~P(i)}
  <2> SUFFICES ASSUME T # {} PROVE FALSE
    OBVIOUS
  <2>1. PICK i \in T : \A k \in T : i <= k
    <3>1. T \subseteq Nat
      OBVIOUS
    <3> HIDE DEF T
    <3> QED BY <3>1, LeastNumber
  <2>2. i # 0
    BY <1>4, <1>7, <2>1
  <2>3. i \in 1..n /\ i - 1 \in 0..n /\ i - 1 \notin T
    BY <2>1, <2>2
  <2>4. P(i - 1)
    BY <2>3
  <2>5. PICK m \in Message : m = q[i] /\ Sound(m)
    BY <1>3, <2>3
  <2>6. /\ m.kind \in {"replay", "output", "exited", "overflow"} /\ m.charge \in Nat
        /\ C[i] = C[i - 1] + m.charge
        /\ O[i] = O[i - 1] + IF m.kind = "output" THEN 1 ELSE 0
        /\ R[i] = R[i - 1] + IF m.kind = "replay" THEN 1 ELSE 0
        /\ C[i - 1] \in Nat /\ O[i - 1] \in Nat /\ R[i - 1] \in Nat
    BY <1>4, <1>7, <2>3, <2>5 DEF Message
  <2>7. P(i)
    <3>1. CASE m.kind = "output"
      BY <2>4, <2>5, <2>6, <3>1, AttachBounds DEF Sound
    <3>2. CASE m.kind = "replay"
      BY <2>4, <2>5, <2>6, <3>2, AttachBounds DEF Sound
    <3>3. CASE IsNotice(m)
      BY <2>4, <2>5, <2>6, <3>3, AttachBounds DEF Sound, IsNotice
    <3> QED BY <2>6, <3>1, <3>2, <3>3 DEF IsNotice
  <2> QED BY <2>1, <2>7
<1>9. P(n)
  BY <1>8
<1> QED BY <1>4, <1>7, <1>9, AttachBounds

LEMMA EmptyQueue == SoundQueue(<<>>) /\ LiveAt(<<>>) = {} /\ InRow(<<>>) /\ \A n : UpTo(<<>>, n)
<1>1. <<>> \in Seq(Message) /\ Len(<<>>) = 0
  BY EmptySeq
<1> QED BY <1>1 DEF SoundQueue, LiveAt, InRow, UpTo

\* A message at the end.
LEMMA QueueGrows ==
  ASSUME NEW q, SoundQueue(q), InRow(q), NEW m \in Message, Sound(m), NEW a, a = Append(q, m)
  PROVE  /\ SoundQueue(a) /\ Charges(a) = Charges(q) + m.charge
         /\ Len(a) = Len(q) + 1 /\ a[Len(a)] = m
         /\ m.kind # "output" => LiveAt(a) = LiveAt(q) /\ InRow(a) /\ \A n : UpTo(q, n) => UpTo(a, n)
         /\ m.kind = "output" /\ UpTo(q, m.chunk - 1) => InRow(a) /\ UpTo(a, m.chunk)
<1>1. q \in Seq(Message)
  BY DEF SoundQueue
<1>2. PICK n \in Nat : n = Len(q)
  BY <1>1
<1>3. /\ a \in Seq(Message) /\ Len(a) = n + 1 /\ a[n + 1] = m /\ \A i \in 1..n : a[i] = q[i]
      /\ Len(q) = n
  BY <1>1, <1>2, AppendProperties
<1>4. SoundQueue(a)
  <2>1. ASSUME NEW i \in 1..n + 1 PROVE Sound(a[i])
    <3>1. CASE i \in 1..n
      BY <1>3, <3>1 DEF SoundQueue
    <3>2. CASE i = n + 1
      BY <1>3, <3>2
    <3>3. i \in 1..n \/ i = n + 1
      OBVIOUS
    <3> QED BY <3>1, <3>2, <3>3, Zenon
  <2> QED BY <1>3, <2>1 DEF SoundQueue
<1>5. Charges(a) = Charges(q) + m.charge
  BY <1>1, ChargesAppend
<1>6. ASSUME m.kind # "output"
      PROVE  LiveAt(a) = LiveAt(q) /\ InRow(a) /\ \A k : UpTo(q, k) => UpTo(a, k)
  <2>1. LiveAt(a) = LiveAt(q) /\ \A i \in LiveAt(q) : a[i] = q[i]
    BY <1>3, <1>6 DEF LiveAt
  <2>2. InRow(a)
    <3> SUFFICES ASSUME NEW i \in LiveAt(a), NEW j \in LiveAt(a), i < j,
                        \A k \in LiveAt(a) : k <= i \/ j <= k
                 PROVE  a[j].chunk = a[i].chunk + 1
      BY Zenon DEF InRow
    <3>1. q[j].chunk = q[i].chunk + 1
      BY <2>1, Zenon DEF InRow
    <3>2. a[i] = q[i] /\ a[j] = q[j]
      BY <2>1, Zenon
    <3> QED BY <3>1, <3>2, Zenon
  <2>3. \A k : UpTo(q, k) => UpTo(a, k)
    BY <2>1, Zenon DEF UpTo
  <2> QED BY <2>1, <2>2, <2>3
<1>7. ASSUME m.kind = "output", UpTo(q, m.chunk - 1) PROVE InRow(a) /\ UpTo(a, m.chunk)
  <2>1. /\ LiveAt(a) = LiveAt(q) \cup {n + 1} /\ LiveAt(q) \subseteq 1..n
        /\ \A i \in LiveAt(q) : a[i] = q[i]
    BY <1>3, <1>7 DEF LiveAt
  <2>2. UpTo(a, m.chunk)
    <3>1. \A i \in LiveAt(q) : ~(n + 1 <= i)
      BY <2>1
    <3> QED BY <1>3, <2>1, <3>1 DEF UpTo
  <2>3. m.chunk \in Nat
    BY AttachBounds DEF Message, Chunks
  <2>4. ASSUME NEW i \in LiveAt(a), NEW j \in LiveAt(a), i < j,
               \A k \in LiveAt(a) : k <= i \/ j <= k
        PROVE  a[j].chunk = a[i].chunk + 1
    <3>1. i \in LiveAt(q)
      BY <2>1, <2>4
    <3>2. CASE j \in LiveAt(q)
      BY <2>1, <2>4, <3>1, <3>2 DEF InRow
    <3>3. CASE j = n + 1
      <4>1. \A k \in LiveAt(q) : k <= i
        BY <2>1, <2>4, <3>3
      <4>2. q[i].chunk = m.chunk - 1
        BY <1>7, <3>1, <4>1 DEF UpTo
      <4> QED BY <1>3, <2>1, <2>3, <3>1, <3>3, <4>2
    <3>4. j \in LiveAt(q) \/ j = n + 1
      BY <2>1
    <3> QED BY <3>2, <3>3, <3>4
  <2>5. InRow(a)
    BY <2>4 DEF InRow
  <2> QED BY <2>2, <2>5
<1> QED BY <1>3, <1>4, <1>5, <1>6, <1>7

\* A replay or a notice at the end; a chunk at the end.
LEMMA QuietGrows ==
  ASSUME NEW q, SoundQueue(q), InRow(q), NEW m \in Message, Sound(m), m.kind # "output"
  PROVE  /\ SoundQueue(Append(q, m)) /\ Charges(Append(q, m)) = Charges(q) + m.charge
         /\ LiveAt(Append(q, m)) = LiveAt(q) /\ InRow(Append(q, m))
         /\ \A n : UpTo(q, n) => UpTo(Append(q, m), n)
<1>1. PICK a : a = Append(q, m)
  OBVIOUS
<1> QED BY <1>1, QueueGrows

LEMMA LiveGrows ==
  ASSUME NEW q, SoundQueue(q), InRow(q), NEW m \in Message, Sound(m), m.kind = "output",
         UpTo(q, m.chunk - 1)
  PROVE  /\ SoundQueue(Append(q, m)) /\ Charges(Append(q, m)) = Charges(q) + m.charge
         /\ InRow(Append(q, m)) /\ UpTo(Append(q, m), m.chunk)
<1>1. PICK a : a = Append(q, m)
  OBVIOUS
<1> QED BY <1>1, QueueGrows

\* A message is taken from the front.
LEMMA QueueShrinks ==
  ASSUME NEW q, SoundQueue(q), InRow(q), q # <<>>, NEW t, t = Tail(q)
  PROVE  /\ SoundQueue(t) /\ Charges(q) = Head(q).charge + Charges(t) /\ InRow(t)
         /\ Head(q) \in Message /\ Len(t) = Len(q) - 1 /\ Len(q) \in Nat
         /\ \A n : UpTo(q, n) => UpTo(t, n)
<1>1. q \in Seq(Message)
  BY DEF SoundQueue
<1>2. t \in Seq(Message) /\ Head(q) \in Message
  BY <1>1, HeadTailProperties
<1>3. PICK n \in Nat : n = Len(t)
  BY <1>2
<1>4. Len(q) = n + 1 /\ \A i \in 1..n : t[i] = q[i + 1]
  BY <1>1, <1>3, HeadTailProperties, EmptySeq
<1>5. SoundQueue(t)
  <2>1. ASSUME NEW i \in 1..n PROVE Sound(t[i])
    <3>1. i + 1 \in 1..Len(q)
      BY <1>4
    <3> QED BY <1>4, <3>1 DEF SoundQueue
  <2> QED BY <1>2, <1>3, <2>1 DEF SoundQueue
<1>6. /\ \A i \in LiveAt(t) : i \in 1..n /\ i + 1 \in LiveAt(q) /\ t[i] = q[i + 1]
      /\ \A k \in LiveAt(q) : k \in 1..n + 1 /\ (k # 1 => k - 1 \in LiveAt(t))
  <2>1. ASSUME NEW i \in LiveAt(t) PROVE i \in 1..n /\ i + 1 \in LiveAt(q) /\ t[i] = q[i + 1]
    <3>1. i \in 1..n /\ t[i].kind = "output" /\ t[i] = q[i + 1]
      BY <1>3, <1>4 DEF LiveAt
    <3>2. i + 1 \in 1..Len(q)
      BY <1>4, <3>1
    <3> QED BY <3>1, <3>2 DEF LiveAt
  <2>2. ASSUME NEW k \in LiveAt(q) PROVE k \in 1..n + 1 /\ (k # 1 => k - 1 \in LiveAt(t))
    <3>1. k \in 1..n + 1 /\ q[k].kind = "output"
      BY <1>4 DEF LiveAt
    <3>2. CASE k # 1
      <4>1. k - 1 \in 1..n /\ (k - 1) + 1 = k
        BY <3>1, <3>2
      <4>2. t[k - 1] = q[k]
        BY <1>4, <4>1
      <4> QED BY <1>3, <3>1, <4>1, <4>2 DEF LiveAt
    <3> QED BY <3>1, <3>2
  <2> QED BY <2>1, <2>2
<1>7. InRow(t)
  <2> SUFFICES ASSUME NEW i \in LiveAt(t), NEW j \in LiveAt(t), i < j,
                      \A k \in LiveAt(t) : k <= i \/ j <= k
               PROVE  t[j].chunk = t[i].chunk + 1
    BY DEF InRow
  <2>1. i + 1 \in LiveAt(q) /\ j + 1 \in LiveAt(q) /\ i + 1 < j + 1
    BY <1>6
  <2>2. ASSUME NEW k \in LiveAt(q) PROVE k <= i + 1 \/ j + 1 <= k
    <3>1. CASE k = 1
      BY <1>6, <3>1
    <3>2. CASE k # 1
      <4>1. k - 1 <= i \/ j <= k - 1
        BY <1>6, <3>2
      <4>2. k \in 1..n + 1 /\ i \in 1..n /\ j \in 1..n
        BY <1>6
      <4> QED BY <4>1, <4>2
    <3> QED BY <3>1, <3>2
  <2>3. q[j + 1].chunk = q[i + 1].chunk + 1
    BY <2>1, <2>2 DEF InRow
  <2> QED BY <1>6, <2>3
<1>8. ASSUME NEW b, UpTo(q, b) PROVE UpTo(t, b)
  <2> SUFFICES ASSUME NEW i \in LiveAt(t), \A k \in LiveAt(t) : k <= i PROVE t[i].chunk = b
    BY DEF UpTo
  <2>1. ASSUME NEW k \in LiveAt(q) PROVE k <= i + 1
    <3>1. CASE k = 1
      BY <1>6, <3>1
    <3>2. CASE k # 1
      <4>1. k - 1 <= i /\ k \in 1..n + 1 /\ i \in 1..n
        BY <1>6, <3>2
      <4> QED BY <4>1
    <3> QED BY <3>1, <3>2
  <2> QED BY <1>6, <1>8, <2>1 DEF UpTo
<1> QED BY <1>1, <1>2, <1>3, <1>4, <1>5, <1>7, <1>8, ChargesTail
-----------------------------------------------------------------------------
(***************************************************************************)
(* The inductive invariant, a connection at a time: what its queue holds,  *)
(* how far its counter is from that, and what it has been given.           *)
(***************************************************************************)
\* Before the push of subscribe nothing live can reach the channel.
Early(c) == loop[c] \in {"new", "history", "subscribing"}

\* What is charged and not yet queued.
Owed(c) == IF loop[c] = "charged" THEN ReplayCharge(taken[c]) ELSE 0

Books(c) ==
  /\ loop[c] = "subscribing" => pending[c] = Charges(queue[c])
  /\ writer[c] = "running" => pending[c] = Charges(queue[c]) + Owed(c)
  /\ pending[c] >= Owed(c)

Given(c) ==
  /\ InRow(queue[c])
  /\ Early(c) => c \notin subscribers /\ LiveAt(queue[c]) = {}
  /\ c \in subscribers => UpTo(queue[c], fanned)

ClientInv(c) ==
  /\ SoundQueue(queue[c])
  /\ writer[c] = "none" <=> Early(c)
  /\ Books(c)
  /\ Given(c)

AttachInv == TypeOK /\ \A c \in Clients : ClientInv(c)

LEMMA ReplayCharged ==
  \A n \in Chunks : ReplayCharge(n) \in Nat /\ ReplayCharge(n) <= ScrollbackCap
BY AttachBounds DEF Chunks, ReplayCharge

LEMMA MessagesSound ==
  /\ \A n \in Chunks :
       /\ Output(n) \in Message /\ Sound(Output(n))
       /\ Output(n).kind = "output" /\ Output(n).chunk = n /\ Output(n).charge = 1
       /\ Replay(n, ReplayCharge(n)) \in Message /\ Sound(Replay(n, ReplayCharge(n)))
       /\ Replay(n, ReplayCharge(n)).kind = "replay"
       /\ Replay(n, ReplayCharge(n)).charge = ReplayCharge(n)
  /\ Exited \in Message /\ Sound(Exited) /\ Exited.kind = "exited" /\ Exited.charge = 0
  /\ Overflow \in Message /\ Sound(Overflow) /\ Overflow.kind = "overflow" /\ Overflow.charge = 0
<1>1. 0 \in Chunks
  BY AttachBounds DEF Chunks
<1>2. ASSUME NEW n \in Chunks, NEW r \in Nat, r <= ScrollbackCap
      PROVE  /\ Replay(n, r) \in Message /\ Sound(Replay(n, r))
             /\ Replay(n, r).kind = "replay" /\ Replay(n, r).charge = r
  BY <1>2 DEF Replay, Message, Sound, IsNotice
<1>3. ASSUME NEW n \in Chunks
      PROVE  /\ Output(n) \in Message /\ Sound(Output(n))
             /\ Output(n).kind = "output" /\ Output(n).chunk = n /\ Output(n).charge = 1
  BY DEF Output, Message, Sound, IsNotice
<1>4. Exited \in Message /\ Sound(Exited) /\ Exited.kind = "exited" /\ Exited.charge = 0
  BY <1>1 DEF Exited, Message, Sound, IsNotice
<1>5. Overflow \in Message /\ Sound(Overflow) /\ Overflow.kind = "overflow" /\ Overflow.charge = 0
  BY <1>1 DEF Overflow, Message, Sound, IsNotice
<1> QED BY <1>2, <1>3, <1>4, <1>5, ReplayCharged

LEMMA Untouched ==
  ASSUME NEW c, ClientInv(c), queue'[c] = queue[c], pending'[c] = pending[c],
         writer'[c] = writer[c], loop'[c] = loop[c], taken'[c] = taken[c],
         c \in subscribers' => c \in subscribers, fanned' = fanned
  PROVE  ClientInv(c)'
BY DEF ClientInv, Books, Given, Early, Owed

LEMMA AttachInitHolds == Init => AttachInv
<1> SUFFICES ASSUME Init PROVE AttachInv
  OBVIOUS
<1>1. 0 \in Chunks /\ 0 \in 0..MaxReplays
  BY AttachBounds DEF Chunks
<1>2. TypeOK
  <2>1. queue \in [Clients -> Seq(Message)]
    BY EmptySeq DEF Init
  <2>2. pending \in [Clients -> Nat]
    BY DEF Init
  <2> QED BY <1>1, <2>1, <2>2 DEF Init, TypeOK, ReaderStages, LoopStages
<1>3. ASSUME NEW c \in Clients PROVE ClientInv(c)
  <2>1. queue[c] = <<>> /\ pending[c] = 0 /\ loop[c] = "new" /\ writer[c] = "none" /\ subscribers = {}
    BY DEF Init
  <2>2. Books(c)
    BY <2>1 DEF Books, Owed
  <2>3. Given(c)
    BY <2>1, EmptyQueue DEF Given
  <2> QED BY <2>1, <2>2, <2>3, EmptyQueue DEF ClientInv, Early
<1> QED BY <1>2, <1>3 DEF AttachInv
-----------------------------------------------------------------------------
(***************************************************************************)
(* The loop thread.                                                        *)
(***************************************************************************)
LEMMA KeepsTakeHistory ==
  ASSUME AttachInv, NEW c \in Clients, TakeHistory(c) PROVE AttachInv'
<1>1. TypeOK'
  <2>1. loop' \in [Clients -> LoopStages]
    BY DEF AttachInv, TypeOK, TakeHistory, Goto, LoopStages
  <2>2. replays' \in 0..MaxReplays
    BY AttachBounds DEF AttachInv, TypeOK, TakeHistory
  <2> QED BY <2>1, <2>2 DEF AttachInv, TypeOK, TakeHistory, channel
<1>2. fanned' = fanned
  BY DEF fanned, TakeHistory
<1>3. ASSUME NEW d \in Clients PROVE ClientInv(d)'
  <2>1. ClientInv(d) /\ UNCHANGED <<queue, pending, writer, subscribers>>
    BY DEF AttachInv, TakeHistory, channel
  <2>2. CASE d # c
    BY <1>2, <2>1, <2>2, Untouched DEF AttachInv, TypeOK, TakeHistory, Goto
  <2>3. CASE d = c
    <3>1. \/ loop[d] = "new" /\ loop'[d] = "history"
          \/ loop[d] = "serving" /\ loop'[d] = "again"
      BY <2>3 DEF AttachInv, TypeOK, TakeHistory, Goto
    <3> QED BY <1>2, <2>1, <3>1 DEF ClientInv, Books, Given, Early, Owed
  <2> QED BY <2>2, <2>3
<1> QED BY <1>1, <1>3 DEF AttachInv

LEMMA KeepsQueueHistory ==
  ASSUME AttachInv, NEW c \in Clients, QueueHistory(c) PROVE AttachInv'
<1>1. PICK r \in Nat : r = ReplayCharge(taken[c]) /\ r <= ScrollbackCap
  BY ReplayCharged DEF AttachInv, TypeOK
<1>2. PICK m \in Message : m = Replay(taken[c], r) /\ Sound(m) /\ m.kind = "replay" /\ m.charge = r
  BY <1>1, MessagesSound DEF AttachInv, TypeOK
<1>3. PICK e \in Message : e = Exited /\ Sound(e) /\ e.kind # "output" /\ e.charge = 0
  BY MessagesSound
<1>4. PICK a : a = Append(<<>>, m)
  OBVIOUS
<1>5. /\ SoundQueue(a) /\ Charges(a) = r /\ LiveAt(a) = {} /\ InRow(a)
  <2>1. SoundQueue(a) /\ Charges(a) = Charges(<<>>) + m.charge /\ LiveAt(a) = LiveAt(<<>>) /\ InRow(a)
    BY <1>2, <1>4, EmptyQueue, QuietGrows
  <2> QED BY <1>2, <2>1, EmptyQueue, ChargesEmpty
<1>6. PICK b : b = Append(a, e)
  OBVIOUS
<1>7. /\ SoundQueue(b) /\ Charges(b) = r /\ LiveAt(b) = {} /\ InRow(b)
  <2>1. SoundQueue(b) /\ Charges(b) = Charges(a) + e.charge /\ LiveAt(b) = LiveAt(a) /\ InRow(b)
    BY <1>3, <1>5, <1>6, QuietGrows
  <2> QED BY <1>3, <1>5, <2>1
<1>8. a = <<m>> /\ a \in Seq(Message) /\ b \in Seq(Message)
  BY <1>4, <1>5, <1>7 DEF SoundQueue
<1>9. /\ loop[c] = "history"
      /\ pending' = [pending EXCEPT ![c] = r]
      /\ \/ /\ queue' = [queue EXCEPT ![c] = b]
            /\ writer' = [writer EXCEPT ![c] = "running"]
            /\ loop' = [loop EXCEPT ![c] = "serving"]
         \/ /\ queue' = [queue EXCEPT ![c] = a]
            /\ UNCHANGED writer
            /\ loop' = [loop EXCEPT ![c] = "subscribing"]
      /\ taken' = [taken EXCEPT ![c] = 0]
      /\ UNCHANGED <<output, reader, subscribers, replays, open, seen>>
  BY <1>1, <1>2, <1>3, <1>6, <1>8 DEF QueueHistory, Goto
<1>10. TypeOK'
  <2>1. 0 \in Chunks
    BY AttachBounds DEF Chunks
  <2>2. TypeOK /\ r \in Nat
    BY DEF AttachInv
  <2>3. CASE queue' = [queue EXCEPT ![c] = b] /\ writer' = [writer EXCEPT ![c] = "running"]
             /\ loop' = [loop EXCEPT ![c] = "serving"]
    BY <1>8, <1>9, <2>1, <2>2, <2>3 DEF TypeOK, LoopStages
  <2>4. CASE queue' = [queue EXCEPT ![c] = a] /\ UNCHANGED writer
             /\ loop' = [loop EXCEPT ![c] = "subscribing"]
    BY <1>8, <1>9, <2>1, <2>2, <2>4 DEF TypeOK, LoopStages
  <2> QED BY <1>9, <2>3, <2>4
<1>11. fanned' = fanned
  BY <1>9 DEF fanned
<1>12. ASSUME NEW d \in Clients PROVE ClientInv(d)'
  <2>1. ClientInv(d)
    BY DEF AttachInv
  <2>2. CASE d # c
    BY <1>9, <1>11, <2>1, <2>2, Untouched DEF AttachInv, TypeOK
  <2>3. CASE d = c
    <3>1. /\ pending'[d] = r /\ queue'[d] \in {a, b} /\ d \notin subscribers'
          /\ \/ loop'[d] = "serving" /\ writer'[d] = "running"
             \/ loop'[d] = "subscribing" /\ writer'[d] = "none"
      BY <1>9, <2>1, <2>3 DEF AttachInv, TypeOK, ClientInv, Early, Given
    <3>2. SoundQueue(queue'[d]) /\ Charges(queue'[d]) = r /\ LiveAt(queue'[d]) = {} /\ InRow(queue'[d])
      BY <1>5, <1>7, <3>1
    <3> QED BY <3>1, <3>2 DEF ClientInv, Books, Given, Early, Owed
  <2> QED BY <2>2, <2>3
<1> QED BY <1>10, <1>12 DEF AttachInv

LEMMA KeepsSubscribe ==
  ASSUME AttachInv, NEW c \in Clients, Subscribe(c) PROVE AttachInv'
<1>1. TypeOK'
  <2>1. loop' \in [Clients -> LoopStages] /\ writer' \in [Clients -> {"none", "running", "over"}]
    BY DEF AttachInv, TypeOK, Subscribe, Goto, LoopStages
  <2>2. queue' \in [Clients -> Seq(Message)]
    <3>1. PICK z \in Seq(Message) : z = <<>>
      BY EmptySeq
    <3>2. queue \in [Clients -> Seq(Message)] /\ (queue' = queue \/ queue' = [queue EXCEPT ![c] = z])
      BY <3>1 DEF AttachInv, TypeOK, Subscribe
    <3> QED BY <3>2
  <2> QED BY <2>1, <2>2 DEF AttachInv, TypeOK, Subscribe
<1>2. fanned' = fanned
  BY DEF fanned, Subscribe
<1>3. ASSUME NEW d \in Clients PROVE ClientInv(d)'
  <2>1. ClientInv(d)
    BY DEF AttachInv
  <2>2. CASE d # c
    BY <1>2, <2>1, <2>2, Untouched DEF AttachInv, TypeOK, Subscribe, Goto
  <2>3. CASE d = c
    <3>1. /\ loop[d] = "subscribing" /\ pending'[d] = pending[d] /\ pending[d] \in Nat
          /\ \/ loop'[d] = "serving" /\ writer'[d] = "running" /\ queue'[d] = queue[d]
             \/ loop'[d] = "over" /\ writer'[d] = "over" /\ queue'[d] = <<>>
      BY <2>3 DEF AttachInv, TypeOK, Subscribe, Goto
    <3>2. SoundQueue(queue'[d]) /\ LiveAt(queue'[d]) = {} /\ InRow(queue'[d])
      BY <2>1, <3>1, EmptyQueue DEF ClientInv, Given, Early
    <3>3. queue'[d] = queue[d] => pending[d] = Charges(queue'[d]) + 0
      BY <2>1, <3>1 DEF ClientInv, Books
    <3>4. Books(d)'
      BY <3>1, <3>3 DEF Books, Owed
    <3>5. Given(d)'
      BY <3>1, <3>2 DEF Given, Early, UpTo
    <3> QED BY <3>1, <3>2, <3>4, <3>5 DEF ClientInv, Early
  <2> QED BY <2>2, <2>3
<1> QED BY <1>1, <1>3 DEF AttachInv

LEMMA KeepsChargeReplay ==
  ASSUME AttachInv, NEW c \in Clients, ChargeReplay(c) PROVE AttachInv'
<1>1. PICK r \in Nat : r = ReplayCharge(taken[c])
  BY ReplayCharged DEF AttachInv, TypeOK
<1>2. TypeOK'
  <2>1. pending' \in [Clients -> Nat]
    BY <1>1 DEF AttachInv, TypeOK, ChargeReplay
  <2> QED BY <2>1 DEF AttachInv, TypeOK, ChargeReplay, Goto, LoopStages
<1>3. fanned' = fanned
  BY DEF fanned, ChargeReplay
<1>4. ASSUME NEW d \in Clients PROVE ClientInv(d)'
  <2>1. ClientInv(d) /\ UNCHANGED <<queue, writer, subscribers, taken>>
    BY DEF AttachInv, ChargeReplay
  <2>2. CASE d # c
    BY <1>3, <2>1, <2>2, Untouched DEF AttachInv, TypeOK, ChargeReplay, Goto
  <2>3. CASE d = c
    <3>1. /\ loop[d] = "again" /\ loop'[d] = "charged" /\ pending'[d] = pending[d] + r
          /\ pending[d] \in Nat /\ queue[d] \in Seq(Message)
      BY <1>1, <2>3 DEF AttachInv, TypeOK, ChargeReplay, Goto
    <3>2. PICK k \in Nat : k = Charges(queue[d])
      BY <3>1, ChargesNat
    <3>3. writer[d] = "running" => pending[d] = k
      BY <2>1, <3>1, <3>2 DEF ClientInv, Books, Owed
    <3>4. Owed(d)' = r /\ Charges(queue[d])' = k
      BY <1>1, <2>1, <2>3, <3>1, <3>2 DEF Owed
    <3>5. Books(d)'
      BY <2>1, <3>1, <3>3, <3>4 DEF Books
    <3>6. Given(d)'
      BY <1>3, <2>1, <3>1 DEF ClientInv, Given, Early
    <3> QED BY <2>1, <3>1, <3>5, <3>6 DEF ClientInv, Early
  <2> QED BY <2>2, <2>3
<1> QED BY <1>2, <1>4 DEF AttachInv

LEMMA KeepsQueueReplay ==
  ASSUME AttachInv, NEW c \in Clients, QueueReplay(c) PROVE AttachInv'
<1>1. PICK r \in Nat : r = ReplayCharge(taken[c])
  BY ReplayCharged DEF AttachInv, TypeOK
<1>2. PICK m \in Message : m = Replay(taken[c], r) /\ Sound(m) /\ m.kind # "output" /\ m.charge = r
  BY <1>1, MessagesSound DEF AttachInv, TypeOK
<1>3. PICK q \in Seq(Message) : q = queue[c] /\ SoundQueue(q) /\ InRow(q)
  BY DEF AttachInv, TypeOK, ClientInv, Given
<1>4. PICK a : a = Append(q, m)
  OBVIOUS
<1>5. /\ SoundQueue(a) /\ Charges(a) = Charges(q) + r /\ LiveAt(a) = LiveAt(q) /\ InRow(a)
      /\ \A n : UpTo(q, n) => UpTo(a, n)
  BY <1>2, <1>3, <1>4, QuietGrows
<1>6. PICK p \in Nat, k \in Nat : p = pending[c] /\ k = Charges(q)
  BY <1>3, ChargesNat DEF AttachInv, TypeOK
<1>7. /\ loop[c] = "charged" /\ loop' = [loop EXCEPT ![c] = "serving"]
      /\ \/ /\ writer[c] # "over" /\ queue' = [queue EXCEPT ![c] = a] /\ pending' = pending
         \/ /\ writer[c] = "over" /\ queue' = queue /\ pending' = [pending EXCEPT ![c] = p - r]
      /\ taken' = [taken EXCEPT ![c] = 0]
      /\ UNCHANGED <<output, reader, subscribers, replays, open, writer, seen>>
  BY <1>1, <1>2, <1>3, <1>4, <1>6 DEF QueueReplay, Goto
<1>8. /\ p >= r
      /\ writer[c] = "running" => p = k + r
      /\ writer[c] # "none"
  BY <1>1, <1>3, <1>6, <1>7 DEF AttachInv, ClientInv, Books, Owed, Early
<1>9. TypeOK'
  <2>1. 0 \in Chunks
    BY AttachBounds DEF Chunks
  <2>2. pending' \in [Clients -> Nat]
    BY <1>6, <1>7, <1>8 DEF AttachInv, TypeOK
  <2>3. queue' \in [Clients -> Seq(Message)]
    BY <1>5, <1>7 DEF AttachInv, TypeOK, SoundQueue
  <2> QED BY <1>7, <2>1, <2>2, <2>3 DEF AttachInv, TypeOK, LoopStages
<1>10. fanned' = fanned
  BY <1>7 DEF fanned
<1>11. ASSUME NEW d \in Clients PROVE ClientInv(d)'
  <2>1. ClientInv(d)
    BY DEF AttachInv
  <2>2. CASE d # c
    BY <1>7, <1>10, <2>1, <2>2, Untouched DEF AttachInv, TypeOK
  <2>3. CASE d = c
    <3>1. /\ loop'[d] = "serving" /\ writer'[d] = writer[d] /\ writer[d] \in {"running", "over"}
          /\ \/ writer[d] = "running" /\ queue'[d] = a /\ pending'[d] = p
             \/ writer[d] = "over" /\ queue'[d] = q /\ pending'[d] = p - r
      BY <1>3, <1>6, <1>7, <1>8, <2>3 DEF AttachInv, TypeOK
    <3>2. SoundQueue(queue'[d]) /\ InRow(queue'[d])
      BY <1>3, <1>5, <3>1
    <3>3. Books(d)'
      BY <1>5, <1>6, <1>8, <2>3, <3>1 DEF Books, Owed
    <3>4. d \in subscribers' => UpTo(queue'[d], fanned')
      BY <1>3, <1>5, <1>7, <1>10, <2>1, <2>3, <3>1 DEF ClientInv, Given
    <3> QED BY <3>1, <3>2, <3>3, <3>4 DEF ClientInv, Given, Early
  <2> QED BY <2>2, <2>3
<1> QED BY <1>9, <1>11 DEF AttachInv

LEMMA KeepsLoopEnds ==
  ASSUME AttachInv, NEW c \in Clients, LoopEnds(c) PROVE AttachInv'
<1>1. TypeOK'
  BY DEF AttachInv, TypeOK, LoopEnds, Goto, LoopStages, channel
<1>2. fanned' = fanned
  BY DEF fanned, LoopEnds
<1>3. ASSUME NEW d \in Clients PROVE ClientInv(d)'
  <2>1. ClientInv(d) /\ UNCHANGED <<queue, pending, writer, subscribers, taken>>
    BY DEF AttachInv, LoopEnds, channel
  <2>2. CASE d # c
    BY <1>2, <2>1, <2>2, Untouched DEF AttachInv, TypeOK, LoopEnds, Goto
  <2>3. CASE d = c
    <3>1. loop[d] = "serving" /\ loop'[d] = "over"
      BY <2>3 DEF AttachInv, TypeOK, LoopEnds, Goto
    <3> QED BY <1>2, <2>1, <3>1 DEF ClientInv, Books, Given, Early, Owed
  <2> QED BY <2>2, <2>3
<1> QED BY <1>1, <1>3 DEF AttachInv
-----------------------------------------------------------------------------
(***************************************************************************)
(* The client and the writer thread.                                       *)
(***************************************************************************)
LEMMA KeepsHangUp ==
  ASSUME AttachInv, NEW c \in Clients, HangUp(c) PROVE AttachInv'
<1>1. TypeOK'
  BY DEF AttachInv, TypeOK, HangUp, channel
<1>2. fanned' = fanned
  BY DEF fanned, HangUp
<1>3. ASSUME NEW d \in Clients PROVE ClientInv(d)'
  BY <1>2, Untouched DEF AttachInv, HangUp, channel
<1> QED BY <1>1, <1>3 DEF AttachInv

LEMMA KeepsWrite ==
  ASSUME AttachInv, NEW c \in Clients, Write(c) PROVE AttachInv'
<1>1. PICK q \in Seq(Message) : q = queue[c] /\ SoundQueue(q) /\ InRow(q) /\ q # <<>>
  BY DEF AttachInv, TypeOK, ClientInv, Given, Write
<1>2. PICK t : t = Tail(q)
  OBVIOUS
<1>3. PICK m \in Message : m = Head(q)
  BY <1>1, QueueShrinks
<1>4. /\ SoundQueue(t) /\ Charges(q) = m.charge + Charges(t) /\ InRow(t)
      /\ \A n : UpTo(q, n) => UpTo(t, n)
  BY <1>1, <1>2, <1>3, QueueShrinks
<1>5. PICK g \in Nat, k \in Nat, p \in Nat : g = m.charge /\ k = Charges(t) /\ p = pending[c]
  BY <1>4, ChargesNat DEF AttachInv, TypeOK, Message, SoundQueue
<1>6. PICK z \in Seq(Message) : z = <<>> /\ SoundQueue(z) /\ InRow(z) /\ \A n : UpTo(z, n)
  BY EmptyQueue, EmptySeq
<1>7. PICK o \in Nat : o = Owed(c)
  BY ReplayCharged DEF AttachInv, TypeOK, Owed
<1>8. p = g + k + o
  BY <1>1, <1>4, <1>5, <1>7 DEF AttachInv, ClientInv, Books, Write
<1>9. PICK n \in Chunks : n = IF m.chunk > seen[c] THEN m.chunk ELSE seen[c]
  BY DEF AttachInv, TypeOK, Message
<1>10. /\ writer[c] = "running"
       /\ \/ /\ writer' = [writer EXCEPT ![c] = "over"] /\ queue' = [queue EXCEPT ![c] = z]
             /\ seen' = [seen EXCEPT ![c] = 0] /\ pending' = pending
          \/ /\ queue' = [queue EXCEPT ![c] = t] /\ pending' = [pending EXCEPT ![c] = p - g]
             /\ seen' = [seen EXCEPT ![c] = n] /\ writer' = writer
       /\ UNCHANGED <<output, reader, subscribers, loop, taken, replays, open>>
  BY <1>1, <1>2, <1>3, <1>5, <1>6, <1>9 DEF Write, WriterEnds, connection
<1>11. TypeOK'
  <2>1. 0 \in Chunks
    BY AttachBounds DEF Chunks
  <2>2. pending' \in [Clients -> Nat]
    <3>1. PICK left \in Nat : left = p - g
      BY <1>8
    <3>2. pending \in [Clients -> Nat] /\ (pending' = pending \/ pending' = [pending EXCEPT ![c] = left])
      BY <1>10, <3>1 DEF AttachInv, TypeOK
    <3> QED BY <3>2
  <2>3. queue' \in [Clients -> Seq(Message)]
    <3>1. t \in Seq(Message) /\ queue \in [Clients -> Seq(Message)]
      BY <1>4 DEF AttachInv, TypeOK, SoundQueue
    <3>2. queue' = [queue EXCEPT ![c] = t] \/ queue' = [queue EXCEPT ![c] = z]
      BY <1>10
    <3> QED BY <1>6, <3>1, <3>2
  <2>4. writer' \in [Clients -> {"none", "running", "over"}] /\ seen' \in [Clients -> Chunks]
    BY <1>10, <2>1, ZenonT(60) DEF AttachInv, TypeOK
  <2> QED BY <1>10, <2>2, <2>3, <2>4 DEF AttachInv, TypeOK
<1>12. fanned' = fanned
  BY <1>10 DEF fanned
<1>13. ASSUME NEW d \in Clients PROVE ClientInv(d)'
  <2>1. ClientInv(d)
    BY DEF AttachInv
  <2>2. CASE d # c
    BY <1>10, <1>12, <2>1, <2>2, Untouched DEF AttachInv, TypeOK
  <2>3. CASE d = c
    <3>1. /\ ~Early(d) /\ loop'[d] = loop[d] /\ taken'[d] = taken[d]
          /\ \/ writer'[d] = "over" /\ queue'[d] = z /\ pending'[d] = p
             \/ writer'[d] = "running" /\ queue'[d] = t /\ pending'[d] = p - g
      BY <1>5, <1>10, <2>1, <2>3 DEF AttachInv, TypeOK, ClientInv
    <3>2. SoundQueue(queue'[d]) /\ InRow(queue'[d])
      BY <1>4, <1>6, <3>1
    <3>3. Owed(d)' = o
      BY <1>7, <2>3, <3>1 DEF Owed
    <3>4. Books(d)'
      <4>1. loop'[d] # "subscribing"
        BY <3>1 DEF Early
      <4> QED BY <1>5, <1>8, <3>1, <3>3, <4>1, SMTT(30) DEF Books
    <3>5. d \in subscribers' => UpTo(queue'[d], fanned')
      BY <1>1, <1>4, <1>6, <1>10, <1>12, <2>1, <2>3, <3>1 DEF ClientInv, Given
    <3> QED BY <3>1, <3>2, <3>4, <3>5 DEF ClientInv, Given, Early
  <2> QED BY <2>2, <2>3
<1> QED BY <1>11, <1>13 DEF AttachInv
-----------------------------------------------------------------------------
(***************************************************************************)
(* The reader thread.                                                      *)
(***************************************************************************)
LEMMA KeepsAppendOutput ==
  ASSUME AttachInv, AppendOutput PROVE AttachInv'
<1>1. TypeOK'
  <2>1. output' \in Chunks
    BY AttachBounds DEF AttachInv, TypeOK, AppendOutput, Chunks
  <2> QED BY <2>1 DEF AttachInv, TypeOK, AppendOutput, ReaderStages, connection, channel
<1>2. fanned' = fanned
  BY AttachBounds DEF fanned, AppendOutput, AttachInv, TypeOK, Chunks
<1>3. ASSUME NEW d \in Clients PROVE ClientInv(d)'
  BY <1>2, Untouched DEF AttachInv, AppendOutput, connection, channel
<1> QED BY <1>1, <1>3 DEF AttachInv

LEMMA KeepsExit ==
  ASSUME AttachInv, Exit PROVE AttachInv'
<1>1. TypeOK'
  BY DEF AttachInv, TypeOK, Exit, ReaderStages, connection, channel
<1>2. fanned' = fanned
  BY DEF fanned, Exit
<1>3. ASSUME NEW d \in Clients PROVE ClientInv(d)'
  BY <1>2, Untouched DEF AttachInv, Exit, connection, channel
<1> QED BY <1>1, <1>3 DEF AttachInv

LEMMA KeepsNotifyExited ==
  ASSUME AttachInv, NotifyExited PROVE AttachInv'
<1>1. PICK e \in Message : e = Exited /\ Sound(e) /\ e.kind # "output" /\ e.charge = 0
  BY MessagesSound
<1>2. fanned' = fanned
  BY DEF fanned, NotifyExited
<1>3. UNCHANGED <<output, loop, taken, replays, open, writer, pending, seen>> /\ subscribers' = Reached
  BY DEF NotifyExited, connection
<1>4. ASSUME NEW d \in Clients PROVE queue'[d] \in Seq(Message) /\ ClientInv(d)'
  <2>1. ClientInv(d)
    BY DEF AttachInv
  <2>2. CASE d \notin Reached
    <3>1. queue'[d] = queue[d]
      BY <2>2 DEF NotifyExited
    <3> QED BY <1>2, <1>3, <2>1, <2>2, <3>1, Untouched DEF ClientInv, SoundQueue
  <2>3. CASE d \in Reached
    <3>1. PICK a : a = Append(queue[d], e) /\ queue'[d] = a
      BY <1>1, <2>3 DEF NotifyExited
    <3>2. /\ SoundQueue(a) /\ Charges(a) = Charges(queue[d]) + 0 /\ LiveAt(a) = LiveAt(queue[d])
          /\ InRow(a) /\ \A n : UpTo(queue[d], n) => UpTo(a, n)
      BY <1>1, <2>1, <3>1, QuietGrows DEF ClientInv, Given
    <3>3. Charges(a) = Charges(queue[d])
      BY <2>1, <3>2, ChargesNat DEF ClientInv, SoundQueue
    <3>4. d \in subscribers
      BY <2>3 DEF Reached
    <3>5. Books(d)'
      BY <1>3, <2>1, <3>1, <3>3 DEF ClientInv, Books, Owed
    <3>6. Given(d)'
      BY <1>2, <1>3, <2>1, <3>1, <3>2, <3>4 DEF ClientInv, Given, Early
    <3> QED BY <1>3, <2>1, <3>1, <3>2, <3>5, <3>6 DEF ClientInv, Early, SoundQueue
  <2> QED BY <2>2, <2>3
<1>5. TypeOK'
  <2>1. queue' \in [Clients -> Seq(Message)]
    BY <1>4 DEF NotifyExited
  <2> QED BY <1>3, <2>1 DEF AttachInv, TypeOK, NotifyExited, ReaderStages, Reached
<1> QED BY <1>4, <1>5 DEF AttachInv

LEMMA KeepsFanOut ==
  ASSUME AttachInv, FanOut PROVE AttachInv'
<1>1. PICK m \in Message : m = Output(output) /\ Sound(m) /\ m.kind = "output" /\ m.chunk = output /\ m.charge = 1
  BY MessagesSound DEF AttachInv, TypeOK
<1>2. PICK e \in Message : e = Overflow /\ Sound(e) /\ e.kind # "output" /\ e.charge = 0
  BY MessagesSound
<1>3. fanned = output - 1 /\ fanned' = output
  BY DEF fanned, FanOut
<1>4. UNCHANGED <<output, loop, taken, replays, open, writer, seen>> /\ subscribers' = Reached \ Stalled
  BY DEF FanOut, connection
<1>5. ASSUME NEW d \in Clients
      PROVE  queue'[d] \in Seq(Message) /\ pending'[d] \in Nat /\ ClientInv(d)'
  <2>1. ClientInv(d) /\ pending[d] \in Nat
    BY DEF AttachInv, TypeOK
  <2>2. CASE d \notin Reached
    <3>1. queue'[d] = queue[d] /\ pending'[d] = pending[d] /\ d \notin subscribers'
      BY <1>4, <2>2 DEF FanOut, Stalled
    <3> QED BY <1>4, <2>1, <3>1 DEF ClientInv, SoundQueue, Books, Given, Early, Owed
  <2>3. CASE d \in Reached
    <3>1. d \in subscribers /\ ~Early(d) /\ loop[d] # "subscribing" /\ writer[d] = "running"
      BY <2>1, <2>3 DEF Reached, ClientInv, Given, Early, AttachInv, TypeOK
    <3>2. SoundQueue(queue[d]) /\ InRow(queue[d]) /\ UpTo(queue[d], m.chunk - 1)
      BY <1>1, <1>3, <2>1, <3>1 DEF ClientInv, Given
    <3>3. PICK a : a = Append(queue[d], m)
      OBVIOUS
    <3>4. SoundQueue(a) /\ Charges(a) = Charges(queue[d]) + m.charge /\ InRow(a) /\ UpTo(a, m.chunk)
      BY <1>1, <3>2, <3>3, LiveGrows
    <3>5. PICK b : b = Append(a, e)
      OBVIOUS
    <3>6. SoundQueue(b) /\ Charges(b) = Charges(a) + e.charge /\ InRow(b)
      BY <1>2, <3>4, <3>5, QuietGrows
    <3>7. b = queue[d] \o <<m, e>>
      BY <3>2, <3>3, <3>5 DEF SoundQueue
    <3>8. /\ queue'[d] = a \/ (queue'[d] = b /\ d \notin subscribers')
          /\ pending'[d] = pending[d] + 1
      BY <1>1, <1>2, <1>4, <2>3, <3>3, <3>7 DEF FanOut, Stalled
    <3>9. PICK k \in Nat, o \in Nat : k = Charges(queue[d]) /\ o = Owed(d)
      BY <3>2, ChargesNat, ReplayCharged DEF SoundQueue, Owed, AttachInv, TypeOK
    <3>10. SoundQueue(queue'[d]) /\ InRow(queue'[d]) /\ Charges(queue'[d]) = k + 1
      BY <1>1, <1>2, <3>4, <3>6, <3>8, <3>9
    <3>11. pending[d] = k + o
      BY <2>1, <3>1, <3>9 DEF ClientInv, Books
    <3>12. Owed(d)' = o /\ ~Early(d)' /\ writer'[d] = "running"
      BY <1>4, <3>1, <3>9 DEF Owed, Early
    <3>13. Books(d)'
      BY <2>1, <3>8, <3>10, <3>11, <3>12 DEF Books, Early
    <3>14. Given(d)'
      BY <1>1, <1>3, <3>4, <3>8, <3>10, <3>12 DEF Given
    <3> QED BY <2>1, <3>8, <3>10, <3>12, <3>13, <3>14 DEF ClientInv, SoundQueue
  <2> QED BY <2>2, <2>3
<1>6. TypeOK'
  <2>1. queue' \in [Clients -> Seq(Message)] /\ pending' \in [Clients -> Nat]
    <3>1. queue' = [d \in Clients |-> queue'[d]] /\ pending' = [d \in Clients |-> pending'[d]]
      BY DEF FanOut
    <3> QED BY <1>5, <3>1
  <2> QED BY <1>4, <2>1 DEF AttachInv, TypeOK, FanOut, ReaderStages, Reached
<1> QED BY <1>5, <1>6 DEF AttachInv
-----------------------------------------------------------------------------
(***************************************************************************)
(* The results.                                                            *)
(***************************************************************************)
LEMMA AttachStep == AttachInv /\ [Next]_vars => AttachInv'
<1> SUFFICES ASSUME AttachInv, [Next]_vars PROVE AttachInv'
  OBVIOUS
<1>1. CASE Reads
  BY <1>1, KeepsAppendOutput, KeepsFanOut, KeepsExit, KeepsNotifyExited DEF Reads
<1>2. ASSUME NEW c \in Clients, Attaches(c) PROVE AttachInv'
  BY <1>2, KeepsQueueHistory, KeepsSubscribe, KeepsChargeReplay, KeepsQueueReplay DEF Attaches
<1>3. ASSUME NEW c \in Clients, TakeHistory(c) \/ Write(c) \/ LoopEnds(c) \/ HangUp(c)
      PROVE  AttachInv'
  BY <1>3, KeepsTakeHistory, KeepsWrite, KeepsLoopEnds, KeepsHangUp
<1>4. CASE UNCHANGED vars
  <2>1. fanned' = fanned
    BY <1>4 DEF vars, fanned
  <2>2. ASSUME NEW c \in Clients PROVE ClientInv(c)'
    BY <1>4, <2>1, Untouched DEF AttachInv, vars, connection, channel
  <2>3. TypeOK'
    BY <1>4 DEF AttachInv, TypeOK, vars, connection, channel
  <2> QED BY <2>2, <2>3 DEF AttachInv
<1> QED BY <1>1, <1>2, <1>3, <1>4 DEF Next

LEMMA AttachInvariant == Spec => []AttachInv
BY AttachInitHolds, AttachStep, PTL DEF Spec

\* The runtime, its threads and its channels keep their types: the byte counter
\* of a subscriber, which the code keeps in an unsigned atomic, never goes below
\* zero.
THEOREM AttachTypeCorrect == Spec => []TypeOK
<1>1. AttachInv => TypeOK
  BY DEF AttachInv
<1> QED BY <1>1, AttachInvariant, PTL

\* pending_bytes is exactly what the writer thread has still to write, and the
\* replay its loop thread has charged and not yet queued, however the reader,
\* the loop thread and the writer interleave.
THEOREM BooksBalance == Spec => []Balanced
<1>1. AttachInv => Balanced
  BY DEF AttachInv, ClientInv, Books, Owed, Balanced
<1> QED BY <1>1, AttachInvariant, PTL

\* Between a replay and a notice a subscriber's queue holds consecutive chunks,
\* up to the last one append_output has given out.
THEOREM NoChunkIsLost == Spec => []NeverSilentlyDropped
<1>1. AttachInv => NeverSilentlyDropped
  <2> SUFFICES ASSUME AttachInv, NEW c \in Clients
               PROVE  LET q    == queue[c]
                          live == {i \in DOMAIN q : q[i].kind = "output"}
                      IN  /\ \A i, j \in live :
                               i < j /\ (\A k \in live : k <= i \/ j <= k) => q[j].chunk = q[i].chunk + 1
                          /\ \A i \in live :
                               c \in subscribers /\ (\A k \in live : k <= i) => q[i].chunk = fanned
    BY DEF NeverSilentlyDropped
  <2>1. queue[c] \in Seq(Message) /\ Given(c)
    BY DEF AttachInv, TypeOK, ClientInv
  <2>2. {i \in DOMAIN queue[c] : queue[c][i].kind = "output"} = LiveAt(queue[c])
    BY <2>1, LenProperties DEF LiveAt
  <2> QED BY <2>1, <2>2 DEF Given, InRow, UpTo
<1> QED BY <1>1, AttachInvariant, PTL

\* The queue of a client grows by a notice of overflow.
Shed(c) == Len(queue'[c]) > Len(queue[c]) /\ queue'[c][Len(queue'[c])] = Overflow

LEMMA OtherEnds ==
  ASSUME NEW q, SoundQueue(q), InRow(q), NEW m \in Message, Sound(m), m.kind # "overflow"
  PROVE  Append(q, m)[Len(Append(q, m))] # Overflow
<1>1. PICK a : a = Append(q, m)
  OBVIOUS
<1>2. a[Len(a)] = m
  BY <1>1, QueueGrows
<1>3. Overflow.kind = "overflow"
  BY MessagesSound
<1> QED BY <1>1, <1>2, <1>3

LEMMA OnlyFanOutSheds ==
  ASSUME AttachInv, [Next]_vars, NEW c \in Clients, Shed(c)
  PROVE  FanOut /\ c \in Stalled
<1>1. SoundQueue(queue[c]) /\ InRow(queue[c])
  BY DEF AttachInv, ClientInv, Given
<1>2. PICK n \in Nat : n = Len(queue[c])
  BY <1>1 DEF SoundQueue
<1>3. Len(queue'[c]) > n /\ queue'[c][Len(queue'[c])] = Overflow /\ queue'[c] # queue[c] /\ queue'[c] # <<>>
  BY <1>2, EmptySeq DEF Shed
<1>4. Len(<<>>) = 0
  BY EmptySeq
<1>5. CASE FanOut
  <2>1. CASE c \in Reached \ Stalled
    <3>1. PICK m \in Message : m = Output(output) /\ Sound(m) /\ m.kind # "overflow"
      BY MessagesSound DEF AttachInv, TypeOK
    <3>2. queue'[c] = Append(queue[c], m)
      BY <1>5, <2>1, <3>1 DEF FanOut
    <3> QED BY <1>1, <1>3, <3>1, <3>2, OtherEnds
  <2>2. CASE c \notin Reached
    BY <1>3, <1>5, <2>2 DEF FanOut, Stalled
  <2> QED BY <1>5, <2>1, <2>2
<1>6. CASE NotifyExited
  <2>1. queue'[c] = Append(queue[c], Exited)
    BY <1>3, <1>6 DEF NotifyExited
  <2>2. Exited \in Message /\ Sound(Exited) /\ Exited.kind # "overflow"
    BY MessagesSound
  <2> QED BY <1>1, <1>3, <2>1, <2>2, OtherEnds
<1>7. CASE AppendOutput \/ Exit \/ UNCHANGED vars
  BY <1>3, <1>7 DEF AppendOutput, Exit, vars, channel
<1>8. ASSUME NEW d \in Clients, TakeHistory(d) \/ ChargeReplay(d) \/ LoopEnds(d) \/ HangUp(d) PROVE FALSE
  BY <1>3, <1>8 DEF TakeHistory, ChargeReplay, LoopEnds, HangUp, channel
<1>9. ASSUME NEW d \in Clients, Subscribe(d) PROVE FALSE
  BY <1>3, <1>9 DEF Subscribe, AttachInv, TypeOK
<1>10. ASSUME NEW d \in Clients, QueueHistory(d) PROVE FALSE
  <2>1. PICK r \in Nat : r = ReplayCharge(taken[d])
    BY ReplayCharged DEF AttachInv, TypeOK
  <2>2. PICK m \in Message : m = Replay(taken[d], r) /\ Sound(m) /\ m.kind = "replay"
    BY <2>1, MessagesSound DEF AttachInv, TypeOK
  <2>3. PICK a : a = Append(<<>>, m)
    OBVIOUS
  <2>4. SoundQueue(a) /\ InRow(a) /\ a[Len(a)] # Overflow
    BY <2>2, <2>3, EmptyQueue, QuietGrows, OtherEnds
  <2>5. Exited \in Message /\ Sound(Exited) /\ Exited.kind # "overflow"
    BY MessagesSound
  <2>6. a = <<m>>
    BY <2>3
  <2>7. queue'[c] \in {queue[c], a, Append(a, Exited)}
    BY <1>10, <2>1, <2>2, <2>6 DEF QueueHistory, AttachInv, TypeOK
  <2> QED BY <1>3, <2>4, <2>5, <2>7, OtherEnds
<1>11. ASSUME NEW d \in Clients, QueueReplay(d) PROVE FALSE
  <2>1. PICK r \in Nat : r = ReplayCharge(taken[d])
    BY ReplayCharged DEF AttachInv, TypeOK
  <2>2. PICK m \in Message : m = Replay(taken[d], r) /\ Sound(m) /\ m.kind = "replay"
    BY <2>1, MessagesSound DEF AttachInv, TypeOK
  <2>3. queue'[c] \in {queue[c], Append(queue[c], m)}
    BY <1>11, <2>1, <2>2 DEF QueueReplay, AttachInv, TypeOK
  <2> QED BY <1>1, <1>3, <2>2, <2>3, OtherEnds
<1>12. ASSUME NEW d \in Clients, Write(d) PROVE FALSE
  <2>1. \/ queue'[c] \in {queue[c], <<>>}
        \/ queue[c] # <<>> /\ queue'[c] = Tail(queue[c])
    BY <1>12 DEF Write, WriterEnds, AttachInv, TypeOK
  <2>2. queue[c] # <<>> => Len(Tail(queue[c])) = n - 1
    BY <1>1, <1>2, QueueShrinks
  <2>3. queue[c] # <<>> /\ queue'[c] = Tail(queue[c])
    BY <1>3, <2>1
  <2>4. Len(queue'[c]) = n - 1
    BY <2>2, <2>3
  <2> QED BY <1>3, <2>4
<1> QED BY <1>5, <1>6, <1>7, <1>8, <1>9, <1>10, <1>11, <1>12 DEF Next, Reads, Attaches

\* append_output sheds a client for its own backlog: its unread bytes are above
\* MAX_SUBSCRIBER_PENDING_BYTES, and unless a second replay is among them, more
\* than the two caps are apart of them are live output.
THEOREM OnlyTheStalledAreShed == Spec => ShedOnlyTheStalled
<1> DEFINE Earned(c) == /\ pending'[c] > PendingCap
                        /\ loop[c] # "charged" /\ Number(queue'[c], "replay") < 2 =>
                             Number(queue'[c], "output") > PendingCap - ScrollbackCap
<1>1. ASSUME AttachInv, [Next]_vars, NEW c \in Clients, Shed(c) PROVE Earned(c)
  <2>1. FanOut /\ c \in Stalled
    BY <1>1, OnlyFanOutSheds
  <2>2. pending'[c] = pending[c] + 1 /\ pending'[c] > PendingCap
    BY <2>1 DEF FanOut, Stalled
  <2>3. ASSUME loop[c] # "charged", Number(queue'[c], "replay") < 2
        PROVE  Number(queue'[c], "output") > PendingCap - ScrollbackCap
    <3>1. ClientInv(c)' /\ AttachInv'
      BY <1>1, AttachStep DEF AttachInv
    <3>2. writer[c] = "running"
      BY <1>1, <2>1 DEF AttachInv, TypeOK, ClientInv, Given, Stalled, Reached
    <3>3. writer'[c] = "running" /\ loop'[c] # "charged"
      BY <2>1, <2>3, <3>2 DEF FanOut, connection
    <3>4. SoundQueue(queue'[c]) /\ pending'[c] = Charges(queue'[c]) + 0
      BY <3>1, <3>3 DEF ClientInv, Books, Owed
    <3>5. PICK q \in Seq(Message) : q = queue'[c] /\ SoundQueue(q)
      BY <3>4 DEF SoundQueue
    <3>6. Charges(q) <= Number(q, "output") + ScrollbackCap
      BY <2>3, <3>5, BacklogIsOutput
    <3>7. Charges(q) \in Nat /\ Number(q, "output") \in Nat
      <4>1. OfKind("output") \in [Message -> Nat]
        BY WeightsType
      <4>2. Total(Column(q, OfKind("output"))) \in Nat
        BY <4>1, ColumnType, TotalNat
      <4> QED BY <4>2, ChargesNat, SumsAreColumns
    <3> QED BY <2>2, <3>4, <3>5, <3>6, <3>7, AttachBounds
  <2> QED BY <2>2, <2>3
<1>2. AttachInv /\ [Next]_vars => [\A c \in Clients : Shed(c) => Earned(c)]_vars
  BY <1>1
<1> HIDE DEF Earned
<1>3. [][\A c \in Clients : Shed(c) => Earned(c)]_vars => ShedOnlyTheStalled
  BY DEF ShedOnlyTheStalled, Shed, Earned
<1> QED BY <1>2, <1>3, AttachInvariant, PTL DEF Spec
=============================================================================
