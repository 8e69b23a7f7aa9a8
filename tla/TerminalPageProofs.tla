------------------------- MODULE TerminalPageProofs -------------------------
(***************************************************************************)
(* The panes of a page (WorkspacePanes), for every number of terminals,    *)
(* files and panes: they stay a tree, a tab has one home, and a pane that  *)
(* loses its last tab goes with it; and that what MCTerminalPage composes  *)
(* is of the panes and of the attach behind them.                          *)
(***************************************************************************)
EXTENDS MCTerminalPage, TerminalAttachProofs, FiniteSetTheorems

-----------------------------------------------------------------------------
(***************************************************************************)
(* Paths: where two of them part, and the order of the panes.              *)
(***************************************************************************)
Paths == Seq({0, 1})

\* Two paths are the same up to their turn i, where they part.
Turns(p, q, i) ==
  /\ i \in 1..Len(p) /\ i <= Len(q) /\ p[i] # q[i]
  /\ \A j \in 1..i - 1 : p[j] = q[j]

\* What a path is.
LEMMA PathIs ==
  ASSUME NEW p \in Paths
  PROVE  /\ Len(p) \in Nat /\ DOMAIN p = 1..Len(p)
         /\ \A i \in 1..Len(p) : p[i] \in {0, 1}
BY LenProperties, ElementOfSeq DEF Paths

\* The first turns of a path.
LEMMA FirstTurns ==
  ASSUME NEW p \in Paths, NEW i \in Nat, i <= Len(p)
  PROVE  /\ SubSeq(p, 1, i) \in Paths /\ Len(SubSeq(p, 1, i)) = i
         /\ \A j \in 1..i : SubSeq(p, 1, i)[j] = p[j]
<1>1. \A j \in 1..i : p[j] \in {0, 1}
  BY PathIs
<1>2. /\ SubSeq(p, 1, i) \in Seq({0, 1}) /\ Len(SubSeq(p, 1, i)) = IF 1 <= i THEN i - 1 + 1 ELSE 0
      /\ \A j \in 1..i - 1 + 1 : SubSeq(p, 1, i)[j] = p[1 + j - 1]
  BY <1>1, SubSeqProperties
<1> QED BY <1>2 DEF Paths

\* Two paths whose first turns are the same.
LEMMA SameFirstTurns ==
  ASSUME NEW p \in Paths, NEW q \in Paths, NEW i \in Nat, i <= Len(p), i <= Len(q)
  PROVE  (SubSeq(p, 1, i) = SubSeq(q, 1, i)) <=> (\A j \in 1..i : p[j] = q[j])
<1>1. PICK a \in Paths : a = SubSeq(p, 1, i) /\ Len(a) = i /\ \A j \in 1..i : a[j] = p[j]
  BY FirstTurns
<1>2. PICK b \in Paths : b = SubSeq(q, 1, i) /\ Len(b) = i /\ \A j \in 1..i : b[j] = q[j]
  BY FirstTurns
<1>3. (\A j \in 1..i : a[j] = b[j]) => a = b
  BY <1>1, <1>2, SeqEqual DEF Paths
<1> QED BY <1>1, <1>2, <1>3

\* LeftOf is about the turn where two paths part.
LEMMA LeftOfTurns ==
  ASSUME NEW p \in Paths, NEW q \in Paths
  PROVE  LeftOf(p, q) <=> \E i \in 1..Len(p) : Turns(p, q, i) /\ p[i] = 0
<1>1. ASSUME NEW i \in 1..Len(p)
      PROVE  (/\ i <= Len(q) /\ p[i] < q[i] /\ SubSeq(p, 1, i - 1) = SubSeq(q, 1, i - 1))
             <=> Turns(p, q, i) /\ p[i] = 0
  <2>1. CASE i <= Len(q)
    <3>1. i - 1 \in Nat /\ i - 1 <= Len(p) /\ i - 1 <= Len(q) /\ i \in 1..Len(q)
      BY <2>1, PathIs
    <3>2. (SubSeq(p, 1, i - 1) = SubSeq(q, 1, i - 1)) <=> (\A j \in 1..i - 1 : p[j] = q[j])
      BY <3>1, SameFirstTurns
    <3>3. p[i] \in {0, 1} /\ q[i] \in {0, 1}
      BY <3>1, PathIs
    <3> QED BY <2>1, <3>2, <3>3 DEF Turns
  <2>2. CASE ~(i <= Len(q))
    BY <2>2 DEF Turns
  <2> QED BY <2>1, <2>2
<1> QED BY <1>1 DEF LeftOf

\* Two paths part where they part.
LEMMA TurnsBack ==
  ASSUME NEW p \in Paths, NEW q \in Paths, NEW i, Turns(p, q, i)
  PROVE  Turns(q, p, i)
BY PathIs DEF Turns

LEMMA LeftOfTransitive ==
  ASSUME NEW p \in Paths, NEW q \in Paths, NEW r \in Paths, LeftOf(p, q), LeftOf(q, r)
  PROVE  LeftOf(p, r)
<1>1. PICK i \in 1..Len(p) : Turns(p, q, i) /\ p[i] = 0
  BY LeftOfTurns
<1>2. PICK j \in 1..Len(q) : Turns(q, r, j) /\ q[j] = 0
  BY LeftOfTurns
<1>3. i \in 1..Len(q) /\ j <= Len(r) /\ Len(p) \in Nat /\ Len(q) \in Nat /\ Len(r) \in Nat
  BY <1>1, <1>2, PathIs DEF Turns
<1>4. CASE i < j
  <2>1. i <= Len(r) /\ r[i] = q[i] /\ \A k \in 1..i - 1 : p[k] = r[k]
    BY <1>1, <1>2, <1>3, <1>4 DEF Turns
  <2>2. Turns(p, r, i)
    BY <1>1, <2>1 DEF Turns
  <2> QED BY <1>1, <2>2, LeftOfTurns
<1>5. CASE j < i
  <2>1. j \in 1..Len(p) /\ p[j] = q[j] /\ \A k \in 1..j - 1 : p[k] = r[k]
    BY <1>1, <1>2, <1>3, <1>5 DEF Turns
  <2>2. Turns(p, r, j)
    BY <1>2, <1>3, <2>1 DEF Turns
  <2> QED BY <1>2, <2>1, <2>2, LeftOfTurns
<1>6. CASE i = j
  BY <1>1, <1>2, <1>6 DEF Turns
<1> QED BY <1>3, <1>4, <1>5, <1>6
-----------------------------------------------------------------------------
(***************************************************************************)
(* The tree: any two panes part somewhere, and where a pane takes a turn,  *)
(* another takes the other one.                                            *)
(***************************************************************************)
Apart(at)    == \A k, l \in DOMAIN at : k # l => \E i \in 1..Len(at[k]) : Turns(at[k], at[l], i)
Complete(at) == \A l \in DOMAIN at : \A i \in 1..Len(at[l]) : \E k \in DOMAIN at : Turns(at[l], at[k], i)
IsTree(at, n) ==
  /\ DOMAIN at \subseteq 1..n /\ DOMAIN at # {} /\ at \in [DOMAIN at -> Paths]
  /\ Apart(at) /\ Complete(at)

\* Of any two panes one is left of the other.
LEMMA PanesOrdered ==
  ASSUME NEW n, NEW at, IsTree(at, n), NEW k \in DOMAIN at, NEW l \in DOMAIN at, k # l
  PROVE  LeftOf(at[k], at[l]) \/ LeftOf(at[l], at[k])
<1>1. at[k] \in Paths /\ at[l] \in Paths
  BY DEF IsTree
<1>2. PICK i \in 1..Len(at[k]) : Turns(at[k], at[l], i)
  BY DEF IsTree, Apart
<1>3. Turns(at[l], at[k], i) /\ i \in 1..Len(at[l])
  BY <1>1, <1>2, TurnsBack DEF Turns
<1>4. at[k][i] \in {0, 1} /\ at[l][i] \in {0, 1} /\ at[k][i] # at[l][i]
  BY <1>1, <1>2, <1>3, PathIs DEF Turns
<1> QED BY <1>1, <1>2, <1>3, <1>4, LeftOfTurns

\* A set of numbers has a first one in every order.
LEMMA FirstInOrder ==
  ASSUME NEW n \in Nat, NEW S \in SUBSET (1..n), S # {}, NEW R,
         \A k, l \in S : k # l => <<k, l>> \in R \/ <<l, k>> \in R,
         \A j, k, l \in S : <<j, k>> \in R /\ <<k, l>> \in R => <<j, l>> \in R
  PROVE  \E l \in S : \A k \in S \ {l} : <<l, k>> \in R
<1> DEFINE Up(m) == S \cap 1..m
           HasFirst(m) == \E l \in Up(m) : \A k \in Up(m) \ {l} : <<l, k>> \in R
           T == {m \in 0..n : Up(m) # {} /\ ~HasFirst(m)}
<1>1. ASSUME T # {} PROVE FALSE
  <2>1. PICK m \in T : \A k \in T : m <= k
    <3>1. T \subseteq Nat
      OBVIOUS
    <3> HIDE DEF T
    <3> QED BY <1>1, <3>1, LeastNumber
  <2>2. m \in 1..n /\ m - 1 \in 0..n /\ Up(m) = IF m \in S THEN Up(m - 1) \cup {m} ELSE Up(m - 1)
    <3>1. m \in 0..n /\ Up(m) # {}
      BY <2>1
    <3>2. m # 0
      BY <3>1
    <3>3. \A x : x \in 1..m <=> x \in 1..m - 1 \/ x = m
      BY <3>1, <3>2, SMTT(30)
    <3>4. Up(m) = IF m \in S THEN Up(m - 1) \cup {m} ELSE Up(m - 1)
      BY <3>3
    <3> QED BY <3>1, <3>2, <3>4
  <2>3. m - 1 \notin T
    <3>1. ~(m <= m - 1)
      BY <2>2
    <3> HIDE DEF T
    <3> QED BY <2>1, <3>1
  <2>4. Up(m) # {} /\ ~HasFirst(m)
    BY <2>1
  <2>5. CASE Up(m - 1) = {}
    <3>1. Up(m) = {m}
      BY <2>2, <2>4, <2>5
    <3> HIDE DEF Up
    <3> QED BY <2>4, <3>1
  <2>6. CASE Up(m - 1) # {}
    <3>1. PICK l \in Up(m - 1) : \A k \in Up(m - 1) \ {l} : <<l, k>> \in R
      BY <2>2, <2>3, <2>6
    <3>2. m \in S /\ l \in S /\ l # m /\ Up(m) = Up(m - 1) \cup {m} /\ Up(m - 1) \subseteq S
      BY <2>2, <2>4, <3>1
    <3>3. <<l, m>> \in R \/ <<m, l>> \in R
      BY <3>2
    <3> HIDE DEF Up
    <3>4. CASE <<l, m>> \in R
      BY <2>4, <3>1, <3>2, <3>4
    <3>5. CASE <<m, l>> \in R
      <4>1. \A k \in Up(m - 1) : <<m, k>> \in R
        BY <3>1, <3>2, <3>5
      <4> QED BY <2>4, <3>2, <4>1
    <3> QED BY <3>3, <3>4, <3>5
  <2> QED BY <2>5, <2>6
<1>2. Up(n) = S /\ n \in 0..n
  <2>1. \A x \in S : x \in 1..n
    OBVIOUS
  <2>2. S \cap 1..n = S
    BY <2>1
  <2> QED BY <2>2
<1>3. HasFirst(n)
  BY <1>1, <1>2
<1> QED BY <1>2, <1>3

\* The first and the last of some panes are among them.
LEMMA FirstOfIn ==
  ASSUME NEW n \in Nat, NEW t, IsTree(t.at, n), NEW S \in SUBSET Leaves(t), S # {}
  PROVE  FirstOf(t, S) \in S
<1> DEFINE R == {x \in S \X S : LeftOf(t.at[x[1]], t.at[x[2]])}
<1>1. S \in SUBSET (1..n) /\ \A l \in S : l \in DOMAIN t.at /\ t.at[l] \in Paths
  BY DEF IsTree, Leaves
<1>2. \A k, l \in S : <<k, l>> \in R <=> LeftOf(t.at[k], t.at[l])
  OBVIOUS
<1> HIDE DEF R
<1>3. \A k, l \in S : k # l => <<k, l>> \in R \/ <<l, k>> \in R
  BY <1>1, <1>2, PanesOrdered
<1>4. \A j, k, l \in S : <<j, k>> \in R /\ <<k, l>> \in R => <<j, l>> \in R
  BY <1>1, <1>2, LeftOfTransitive
<1>5. \E l \in S : \A k \in S \ {l} : <<l, k>> \in R
  BY <1>1, <1>3, <1>4, FirstInOrder
<1>6. \E l \in S : \A k \in S \ {l} : LeftOf(t.at[l], t.at[k])
  BY <1>2, <1>5
<1> QED BY <1>6 DEF FirstOf

\* The same from the other end.
LEMMA LastOfIn ==
  ASSUME NEW n \in Nat, NEW t, IsTree(t.at, n), NEW S \in SUBSET Leaves(t), S # {}
  PROVE  LastOf(t, S) \in S
<1> DEFINE R == {x \in S \X S : LeftOf(t.at[x[2]], t.at[x[1]])}
<1>1. S \in SUBSET (1..n) /\ \A l \in S : l \in DOMAIN t.at /\ t.at[l] \in Paths
  BY DEF IsTree, Leaves
<1>2. \A k, l \in S : <<k, l>> \in R <=> LeftOf(t.at[l], t.at[k])
  OBVIOUS
<1> HIDE DEF R
<1>3. \A k, l \in S : k # l => <<k, l>> \in R \/ <<l, k>> \in R
  BY <1>1, <1>2, PanesOrdered
<1>4. \A j, k, l \in S : <<j, k>> \in R /\ <<k, l>> \in R => <<j, l>> \in R
  BY <1>1, <1>2, LeftOfTransitive
<1>5. \E l \in S : \A k \in S \ {l} : <<l, k>> \in R
  BY <1>1, <1>3, <1>4, FirstInOrder
<1>6. \E l \in S : \A k \in S \ {l} : LeftOf(t.at[k], t.at[l])
  BY <1>2, <1>5
<1> QED BY <1>6 DEF LastOf
-----------------------------------------------------------------------------
(***************************************************************************)
(* A pane that goes: those on the other side of its split move up.         *)
(***************************************************************************)
\* What leads to the other side of the last split of p is what parts from p at
\* its last turn.
LEMMA OtherSide ==
  ASSUME NEW p \in Paths, Len(p) # 0, NEW q \in Paths
  PROVE  IsPrefix(Append(Front(p), 1 - Last(p)), q) <=> Turns(p, q, Len(p))
<1>1. PICK m \in Nat : m = Len(p) /\ m # 0
  BY PathIs
<1>2. PICK f \in Paths : f = Front(p) /\ Len(f) = m - 1 /\ \A j \in 1..m - 1 : f[j] = p[j]
  <2>1. m - 1 \in Nat /\ m - 1 <= Len(p)
    BY <1>1
  <2> QED BY <1>1, <2>1, FirstTurns DEF Front
<1>3. PICK x \in {0, 1} : x = 1 - Last(p) /\ Last(p) = p[m] /\ p[m] \in {0, 1}
  BY <1>1, PathIs DEF Last
<1>4. PICK b \in Paths : /\ b = Append(Front(p), 1 - Last(p)) /\ Len(b) = m /\ b[m] = x
                         /\ \A j \in 1..m - 1 : b[j] = p[j]
  <2>1. /\ Append(f, x) \in Paths /\ Len(Append(f, x)) = m /\ Append(f, x)[m] = x
        /\ \A j \in 1..m - 1 : Append(f, x)[j] = f[j]
    BY <1>1, <1>2, AppendProperties DEF Paths
  <2>2. Append(f, x) = Append(Front(p), 1 - Last(p))
    BY <1>2, <1>3
  <2>3. \A j \in 1..m - 1 : Append(f, x)[j] = p[j]
    BY <1>2, <2>1
  <2> HIDE DEF Paths
  <2> QED BY <2>1, <2>2, <2>3
<1>5. CASE m <= Len(q)
  <2>1. (SubSeq(b, 1, m) = SubSeq(q, 1, m)) <=> (\A j \in 1..m : b[j] = q[j])
    BY <1>4, <1>5, SameFirstTurns
  <2>2. m \in 1..Len(q) /\ q[m] \in {0, 1}
    BY <1>1, <1>5, PathIs
  <2>3. (b[m] = q[m]) <=> (p[m] # q[m])
    BY <1>3, <1>4, <2>2
  <2>4. (\A j \in 1..m : b[j] = q[j]) <=> Turns(p, q, m)
    <3>1. \A j \in 1..m : j = m \/ j \in 1..m - 1
      OBVIOUS
    <3>2. m \in 1..m /\ \A j \in 1..m - 1 : j \in 1..m
      BY <1>1
    <3> QED BY <1>1, <1>4, <1>5, <2>3, <3>1, <3>2 DEF Turns
  <2> QED BY <1>1, <1>4, <1>5, <2>1, <2>4 DEF IsPrefix
<1>6. CASE ~(m <= Len(q))
  BY <1>1, <1>4, <1>6 DEF IsPrefix, Turns
<1> QED BY <1>5, <1>6

Beyond(at, l) == {k \in DOMAIN at : Turns(at[l], at[k], Len(at[l]))}

\* A pane that is not the only one hangs on a split, whose other side holds panes.
LEMMA BeyondIs ==
  ASSUME NEW n \in Nat, NEW t, IsTree(t.at, n), NEW l \in Leaves(t), Leaves(t) # {l}
  PROVE  /\ Len(t.at[l]) # 0 /\ Len(t.at[l]) \in Nat
         /\ Beyond(t.at, l) # {} /\ Beyond(t.at, l) \subseteq Leaves(t) \ {l}
         /\ Beyond(t.at, l) = {k \in Leaves(t) : IsPrefix(Beside(t, l), t.at[k])}
<1> DEFINE at == t.at
<1>1. /\ l \in DOMAIN at /\ DOMAIN at # {l} /\ DOMAIN at = Leaves(t)
      /\ \A k \in DOMAIN at : at[k] \in Paths
  BY DEF Leaves, IsTree
<1>2. PICK k \in DOMAIN at : k # l
  BY <1>1
<1>3. Len(at[l]) # 0 /\ Len(at[l]) \in Nat
  <2>1. \E i \in 1..Len(at[l]) : TRUE
    BY <1>1, <1>2 DEF IsTree, Apart
  <2>2. Len(at[l]) \in Nat
    BY <1>1, PathIs
  <2> QED BY <2>1, <2>2
<1>4. Len(at[l]) \in 1..Len(at[l])
  BY <1>3
<1>5. Beyond(at, l) # {}
  BY <1>1, <1>4 DEF IsTree, Complete, Beyond
<1>6. l \notin Beyond(at, l)
  BY DEF Beyond, Turns
<1>7. \A h \in DOMAIN at : IsPrefix(Beside(t, l), at[h]) <=> Turns(at[l], at[h], Len(at[l]))
  BY <1>1, <1>3, OtherSide DEF Beside, Parent
<1> QED BY <1>1, <1>3, <1>5, <1>6, <1>7 DEF Beyond

\* The tabs of a closed pane go to a pane of the tree (migrationTargetForClosedLeaf).
LEMMA SurvivorIn ==
  ASSUME NEW n \in Nat, NEW t, IsTree(t.at, n), NEW l \in Leaves(t), Leaves(t) # {l}
  PROVE  Survivor(t, l) \in Leaves(t) \ {l}
<1> DEFINE near == {k \in Leaves(t) : IsPrefix(Beside(t, l), t.at[k])}
<1>1. near # {} /\ near \subseteq Leaves(t) \ {l}
  BY BeyondIs
<1>2. near \in SUBSET Leaves(t)
  OBVIOUS
<1> HIDE DEF near
<1>3. FirstOf(t, near) \in near /\ LastOf(t, near) \in near
  BY <1>1, <1>2, FirstOfIn, LastOfIn
<1>4. Survivor(t, l) \in {FirstOf(t, near), LastOf(t, near)}
  BY DEF Survivor, near
<1> QED BY <1>1, <1>3, <1>4

Promoted(at, l) ==
  [k \in DOMAIN at \ {l} |-> IF k \in Beyond(at, l) THEN RemoveAt(at[k], Len(at[l])) ELSE at[k]]

\* What is left when a pane has gone is a tree (Promote).
LEMMA PromotedTree ==
  ASSUME NEW n \in Nat, NEW t, IsTree(t.at, n), NEW l \in Leaves(t), Leaves(t) # {l}
  PROVE  IsTree(Promoted(t.at, l), n)
<1> DEFINE at == t.at
           up == Promoted(at, l)
           p == at[l]
<1>1. /\ l \in DOMAIN at /\ DOMAIN at # {l} /\ DOMAIN at \subseteq 1..n
      /\ \A k \in DOMAIN at : at[k] \in Paths /\ Len(at[k]) \in Nat /\ \A i \in 1..Len(at[k]) : at[k][i] \in {0, 1}
  BY PathIs DEF Leaves, IsTree
<1>2. PICK m \in Nat : m = Len(p) /\ m # 0 /\ p = at[l] /\ p[m] \in {0, 1}
  <2>1. Len(p) \in Nat /\ Len(p) # 0
    BY BeyondIs
  <2>2. Len(p) \in 1..Len(p)
    BY <2>1
  <2>3. p[Len(p)] \in {0, 1}
    BY <1>1, <2>2
  <2> QED BY <2>1, <2>3
<1>3. DOMAIN up = DOMAIN at \ {l}
  BY DEF Promoted
<1>4. \A k \in DOMAIN at : k \in Beyond(at, l) <=> Turns(p, at[k], m)
  BY <1>2 DEF Beyond
<1> HIDE DEF at, up, p
<1>5. ASSUME NEW k \in Beyond(at, l)
      PROVE  /\ k \in DOMAIN up /\ m <= Len(at[k]) /\ at[k][m] # p[m] /\ \A j \in 1..m - 1 : at[k][j] = p[j]
             /\ up[k] \in Paths /\ Len(up[k]) = Len(at[k]) - 1
             /\ \A j \in 1..Len(at[k]) - 1 : up[k][j] = IF j < m THEN at[k][j] ELSE at[k][j + 1]
  <2>1. Turns(p, at[k], m) /\ k \in DOMAIN at /\ k # l
    BY <1>2, <1>4 DEF Beyond, Turns, p
  <2>2. up[k] = RemoveAt(at[k], m)
    BY <1>2, <2>1 DEF Promoted, up, p
  <2>3. at[k] \in Seq({0, 1}) /\ m \in 1..Len(at[k])
    BY <1>1, <1>2, <2>1 DEF Turns, Paths
  <2>4. /\ RemoveAt(at[k], m) \in Seq({0, 1}) /\ Len(RemoveAt(at[k], m)) = Len(at[k]) - 1
        /\ \A j \in 1..Len(at[k]) - 1 : RemoveAt(at[k], m)[j] = at[k][IF j < m THEN j ELSE j + 1]
    BY <2>3, RemoveAtIs
  <2>5. \A j \in 1..Len(at[k]) - 1 : up[k][j] = IF j < m THEN at[k][j] ELSE at[k][j + 1]
    BY <2>2, <2>4
  <2> QED BY <1>3, <2>1, <2>2, <2>3, <2>4, <2>5 DEF Turns, Paths
<1>same. ASSUME NEW k \in Beyond(at, l), NEW j \in 1..m - 1
         PROVE  j \in 1..Len(up[k]) /\ up[k][j] = p[j]
  <2>1. Len(at[k]) \in Nat
    BY <1>1 DEF Beyond
  <2>2. j \in 1..Len(at[k]) - 1 /\ j < m
    BY <1>2, <1>5, <2>1
  <2> QED BY <1>5, <2>2
\* A pane that stays where it is parts from p before its last turn.
<1>6. ASSUME NEW k \in DOMAIN up, k \notin Beyond(at, l)
      PROVE  up[k] = at[k] /\ k \in DOMAIN at /\ k # l /\ \E d \in 1..m - 1 : Turns(p, at[k], d)
  <2>1. k \in DOMAIN at /\ k # l /\ up[k] = at[k]
    BY <1>3, <1>6 DEF Promoted, up
  <2>2. PICK d \in 1..Len(p) : Turns(p, at[k], d)
    BY <1>1, <2>1 DEF IsTree, Apart, at, p
  <2>3. d # m
    BY <1>4, <1>6, <2>1, <2>2
  <2> QED BY <1>2, <2>1, <2>2, <2>3
<1>7. up \in [DOMAIN up -> Paths] /\ DOMAIN up \subseteq 1..n /\ DOMAIN up # {}
  <2>1. \A k \in DOMAIN up : up[k] \in Paths
    BY <1>1, <1>5, <1>6
  <2>2. up \in [DOMAIN up -> Paths]
    BY <1>3, <2>1 DEF Promoted, up
  <2> QED BY <1>1, <1>3, <2>2
<1>8. ASSUME NEW k \in Beyond(at, l), NEW h \in DOMAIN up, h \notin Beyond(at, l)
      PROVE  \E i \in 1..Len(up[k]) : Turns(up[k], up[h], i)
  <2>1. PICK d \in 1..m - 1 : Turns(p, at[h], d) /\ up[h] = at[h]
    BY <1>6, <1>8
  <2>2. d \in 1..Len(up[k]) /\ \A j \in 1..d : up[k][j] = p[j]
    <3>1. \A j \in 1..d : j \in 1..m - 1
      OBVIOUS
    <3> QED BY <1>same, <3>1
  <2>3. Turns(up[k], up[h], d)
    BY <2>1, <2>2 DEF Turns
  <2> QED BY <2>2, <2>3
<1>9. \A k \in DOMAIN up : up[k] \in Paths
  BY <1>7
\* Two that move up agree as far as the turn that they lose.
<1>10. ASSUME NEW k \in Beyond(at, l), NEW h \in DOMAIN at, NEW i \in 1..Len(at[k]), Turns(at[k], at[h], i),
              h \in Beyond(at, l) \/ i > m
       PROVE  /\ h \in Beyond(at, l) /\ i > m
              /\ i - 1 \in 1..Len(up[k]) /\ Turns(up[k], up[h], i - 1)
  <2>1. k \in DOMAIN at /\ at[k][m] \in {0, 1} /\ p[m] \in {0, 1}
    <3>1. k \in DOMAIN at
      BY DEF Beyond
    <3>2. m \in 1..Len(at[k])
      BY <1>1, <1>2, <1>5, <3>1
    <3> QED BY <1>1, <1>2, <3>1, <3>2
  <2>2. ASSUME h \in Beyond(at, l) PROVE h \in Beyond(at, l) /\ i > m
    <3>1. at[h][m] \in {0, 1} /\ at[h][m] # p[m] /\ at[h][m] = at[k][m] /\ \A j \in 1..m - 1 : at[h][j] = at[k][j]
      <4>1. m \in 1..Len(at[h])
        BY <1>1, <1>2, <1>5, <2>2
      <4> QED BY <1>1, <1>5, <2>1, <2>2, <4>1
    <3>2. \A j \in 1..m : at[h][j] = at[k][j]
      BY <1>2, <3>1
    <3>3. ~(i \in 1..m)
      BY <1>10, <3>2 DEF Turns
    <3> QED BY <1>1, <2>1, <2>2, <3>3
  <2>3. ASSUME i > m PROVE h \in Beyond(at, l) /\ i > m
    <3>1. \A j \in 1..m : at[h][j] = at[k][j]
      BY <1>10, <2>3 DEF Turns
    <3>2. m <= Len(at[h]) /\ at[h][m] # p[m] /\ \A j \in 1..m - 1 : at[h][j] = p[j]
      <4>1. i \in Nat /\ i <= Len(at[h]) /\ Len(at[h]) \in Nat
        BY <1>1, <1>10, <2>1 DEF Turns
      <4>2. m <= Len(at[h])
        BY <1>2, <2>3, <4>1
      <4>3. m \in 1..m /\ \A j \in 1..m - 1 : j \in 1..m
        BY <1>2
      <4>4. at[k][m] # p[m] /\ \A j \in 1..m - 1 : at[k][j] = p[j]
        BY <1>5
      <4> QED BY <3>1, <4>2, <4>3, <4>4
    <3>3. Turns(p, at[h], m)
      BY <1>2, <3>2 DEF Turns
    <3> QED BY <1>4, <2>3, <3>3
  <2>4. h \in Beyond(at, l) /\ i > m
    BY <1>10, <2>2, <2>3
  <2>5. i - 1 \in 1..Len(up[k]) /\ i - 1 <= Len(up[h]) /\ up[k][i - 1] = at[k][i] /\ up[h][i - 1] = at[h][i]
    <3>1. i \in 1..Len(at[k]) /\ i <= Len(at[h]) /\ Len(at[k]) \in Nat /\ Len(at[h]) \in Nat
      BY <1>1, <1>10, <2>1 DEF Turns
    <3>2. i - 1 \in 1..Len(at[k]) - 1 /\ i - 1 \in 1..Len(at[h]) - 1 /\ ~(i - 1 < m) /\ (i - 1) + 1 = i
      <4>1. i > m /\ i \in Nat /\ m \in Nat /\ m # 0
        BY <1>2, <2>4, <3>1
      <4>2. i - 1 \in Nat /\ 1 <= i - 1 /\ ~(i - 1 < m) /\ (i - 1) + 1 = i
        BY <4>1
      <4>3. i - 1 <= Len(at[k]) - 1 /\ i - 1 <= Len(at[h]) - 1
        BY <3>1
      <4> QED BY <3>1, <4>2, <4>3
    <3>3. ASSUME NEW g \in Beyond(at, l), i - 1 \in 1..Len(at[g]) - 1
          PROVE  i - 1 \in 1..Len(up[g]) /\ i - 1 <= Len(up[g]) /\ up[g][i - 1] = at[g][i]
      <4>1. PICK j : j = i - 1
        OBVIOUS
      <4>2. j \in 1..Len(at[g]) - 1 /\ ~(j < m) /\ j + 1 = i
        BY <3>2, <3>3, <4>1
      <4>3. up[g][j] = at[g][j + 1] /\ Len(up[g]) = Len(at[g]) - 1
        BY <1>5, <4>2
      <4> QED BY <4>1, <4>2, <4>3
    <3> QED BY <2>4, <3>2, <3>3
  <2>6. ASSUME NEW j \in 1..(i - 1) - 1 PROVE up[k][j] = up[h][j]
    <3>1. i \in 1..Len(at[k]) /\ i <= Len(at[h]) /\ Len(at[k]) \in Nat /\ Len(at[h]) \in Nat
      BY <1>1, <1>10, <2>1 DEF Turns
    <3>2. j \in 1..Len(at[k]) - 1 /\ j \in 1..Len(at[h]) - 1 /\ j \in 1..i - 1 /\ j + 1 \in 1..i - 1
      BY <3>1
    <3>3. at[k][j] = at[h][j] /\ at[k][j + 1] = at[h][j + 1]
      BY <1>10, <3>2 DEF Turns
    <3> QED BY <1>5, <2>4, <3>2, <3>3
  <2> QED BY <1>10, <2>4, <2>5, <2>6 DEF Turns
<1>11. Apart(up)
  <2> SUFFICES ASSUME NEW k \in DOMAIN up, NEW h \in DOMAIN up, k # h
               PROVE  \E i \in 1..Len(up[k]) : Turns(up[k], up[h], i)
    BY DEF Apart
  <2>1. k \in DOMAIN at /\ h \in DOMAIN at /\ up[k] \in Paths /\ up[h] \in Paths
    BY <1>3, <1>9
  <2>2. PICK i \in 1..Len(at[k]) : Turns(at[k], at[h], i)
    BY <2>1 DEF IsTree, Apart, at
  <2>3. CASE k \in Beyond(at, l) /\ h \in Beyond(at, l)
    BY <1>10, <2>1, <2>2, <2>3
  <2>4. CASE k \in Beyond(at, l) /\ h \notin Beyond(at, l)
    BY <1>8, <2>4
  <2>5. CASE k \notin Beyond(at, l) /\ h \in Beyond(at, l)
    <3>1. PICK j \in 1..Len(up[h]) : Turns(up[h], up[k], j)
      BY <1>8, <2>5
    <3>2. Turns(up[k], up[h], j)
      BY <2>1, <3>1, TurnsBack
    <3> QED BY <3>2 DEF Turns
  <2>6. CASE k \notin Beyond(at, l) /\ h \notin Beyond(at, l)
    <3>1. up[k] = at[k] /\ up[h] = at[h]
      BY <1>6, <2>6
    <3> QED BY <2>2, <3>1
  <2> QED BY <2>3, <2>4, <2>5, <2>6
<1>12. Complete(up)
  <2> SUFFICES ASSUME NEW k \in DOMAIN up, NEW i \in 1..Len(up[k])
               PROVE  \E h \in DOMAIN up : Turns(up[k], up[h], i)
    BY DEF Complete
  <2>1. k \in DOMAIN at /\ k # l /\ \A j \in 1..Len(at[k]) : \E h \in DOMAIN at : Turns(at[k], at[h], j)
    BY <1>3 DEF IsTree, Complete, at
  <2>2. CASE k \in Beyond(at, l) /\ i < m
    <3>1. i \in 1..Len(p)
      BY <1>2, <2>2
    <3>2. PICK h \in DOMAIN at : Turns(p, at[h], i)
      BY <1>1, <3>1 DEF IsTree, Complete, at, p
    <3>3. h # l /\ h \notin Beyond(at, l)
      <4>1. at[h][i] # p[i] /\ i \in 1..m - 1
        BY <2>2, <3>2 DEF Turns
      <4> QED BY <1>5, <4>1 DEF p
    <3>4. h \in DOMAIN up /\ up[h] = at[h]
      BY <1>3, <1>6, <3>3
    <3>5. \A j \in 1..i : up[k][j] = p[j]
      <4>1. \A j \in 1..i : j \in 1..m - 1
        BY <2>2
      <4> QED BY <1>same, <2>2, <4>1
    <3>6. Turns(up[k], up[h], i)
      BY <3>2, <3>4, <3>5 DEF Turns
    <3> QED BY <3>4, <3>6
  <2>3. CASE k \in Beyond(at, l) /\ ~(i < m)
    <3>1. i + 1 \in 1..Len(at[k]) /\ i + 1 > m /\ (i + 1) - 1 = i
      BY <1>1, <1>2, <1>5, <2>1, <2>3
    <3>2. PICK h \in DOMAIN at : Turns(at[k], at[h], i + 1)
      BY <2>1, <3>1
    <3>3. h \in Beyond(at, l) /\ Turns(up[k], up[h], i)
      BY <1>10, <2>3, <3>1, <3>2
    <3> QED BY <1>5, <3>3
  <2>4. CASE k \notin Beyond(at, l)
    <3>1. up[k] = at[k] /\ i \in 1..Len(at[k])
      BY <1>6, <2>4
    <3>2. PICK d \in 1..m - 1 : Turns(p, at[k], d)
      BY <1>6, <2>4
    <3>3. PICK h \in DOMAIN at : Turns(at[k], at[h], i)
      BY <2>1, <3>1
    <3>4. CASE h # l /\ h \notin Beyond(at, l)
      <4>1. h \in DOMAIN up
        BY <1>3, <3>4
      <4>2. up[h] = at[h]
        BY <1>6, <3>4, <4>1
      <4> QED BY <3>1, <3>3, <4>1, <4>2
    <3>5. CASE h = l \/ h \in Beyond(at, l)
      <4>1. \A j \in 1..m - 1 : at[h][j] = p[j]
        BY <1>2, <1>5, <3>5
      <4>2. i <= d
        <5>1. at[k][d] # at[h][d]
          BY <3>2, <4>1 DEF Turns
        <5> QED BY <3>3, <5>1 DEF Turns
      <4>3. PICK g \in Beyond(at, l) : TRUE
        BY BeyondIs DEF at
      <4>4. i \in 1..Len(up[g]) /\ \A j \in 1..i : up[g][j] = p[j]
        <5>1. \A j \in 1..i : j \in 1..m - 1
          BY <4>2
        <5>2. i \in 1..i
          OBVIOUS
        <5> QED BY <1>same, <5>1, <5>2
      <4>5. \A j \in 1..i : up[g][j] = at[h][j]
        BY <1>2, <4>1, <4>2, <4>4
      <4>6. Turns(up[k], up[g], i)
        BY <3>1, <3>3, <4>4, <4>5 DEF Turns
      <4> QED BY <1>5, <4>6
    <3> QED BY <3>4, <3>5
  <2> QED BY <2>2, <2>3, <2>4
<1> QED BY <1>7, <1>11, <1>12 DEF IsTree, up, at
\* A pane is split in two.
SplitAt(at, l, new) ==
  [k \in DOMAIN at \cup {new} |-> IF k = new THEN Append(at[l], 1)
                                  ELSE IF k = l THEN Append(at[l], 0) ELSE at[k]]

\* A split pane leaves a tree (SplitPane).
LEMMA SplitTree ==
  ASSUME NEW n \in Nat, NEW at, IsTree(at, n), NEW l \in DOMAIN at
  PROVE  IsTree(SplitAt(at, l, n + 1), n + 1)
<1> DEFINE new == n + 1
           to == SplitAt(at, l, new)
<1>1. /\ DOMAIN at \subseteq 1..n /\ new \notin DOMAIN at /\ l # new
      /\ \A k \in DOMAIN at : at[k] \in Paths /\ Len(at[k]) \in Nat
  BY PathIs DEF IsTree
<1>2. PICK m \in Nat : m = Len(at[l]) + 1
  BY <1>1
<1>3. /\ DOMAIN to = DOMAIN at \cup {new} /\ to[new] = Append(at[l], 1) /\ to[l] = Append(at[l], 0)
      /\ \A k \in DOMAIN at \ {l} : to[k] = at[k] /\ k # new
  BY <1>1 DEF SplitAt
<1>4. /\ to[new] \in Paths /\ Len(to[new]) = m /\ to[new][m] = 1 /\ \A j \in 1..m - 1 : to[new][j] = at[l][j]
      /\ to[l] \in Paths /\ Len(to[l]) = m /\ to[l][m] = 0 /\ \A j \in 1..m - 1 : to[l][j] = at[l][j]
  <2>1. ASSUME NEW x \in {0, 1}
        PROVE  /\ Append(at[l], x) \in Paths /\ Len(Append(at[l], x)) = m /\ Append(at[l], x)[m] = x
               /\ \A j \in 1..m - 1 : Append(at[l], x)[j] = at[l][j]
    <3>1. at[l] \in Seq({0, 1})
      BY <1>1 DEF Paths
    <3>2. /\ Append(at[l], x) \in Seq({0, 1}) /\ Len(Append(at[l], x)) = Len(at[l]) + 1
          /\ \A j \in 1..Len(at[l]) : Append(at[l], x)[j] = at[l][j] /\ Append(at[l], x)[Len(at[l]) + 1] = x
      BY <3>1, AppendProperties
    <3>3. Append(at[l], x)[Len(at[l]) + 1] = x
      BY <3>1, AppendProperties
    <3>4. m - 1 = Len(at[l])
      BY <1>1, <1>2
    <3> QED BY <1>2, <3>2, <3>3, <3>4 DEF Paths
  <2> QED BY <1>3, <2>1
<1>5. PICK old \in Paths : old = at[l] /\ Len(old) = m - 1
  BY <1>1, <1>2
<1> HIDE DEF new, to
\* What parted from the pane still does, from both.
<1>6. ASSUME NEW k \in {l, new}, NEW h \in DOMAIN at \ {l}, NEW i \in 1..m - 1, Turns(old, at[h], i)
      PROVE  Turns(to[k], to[h], i) /\ Turns(to[h], to[k], i)
  <2>1. to[h] = at[h] /\ at[h] \in Paths /\ to[k] \in Paths /\ Len(to[k]) = m
        /\ \A j \in 1..m - 1 : to[k][j] = old[j]
    BY <1>1, <1>3, <1>4, <1>5, <1>6
  <2>2. i \in 1..m /\ \A j \in 1..i - 1 : j \in 1..m - 1
    BY <1>2
  <2>3. Turns(to[k], to[h], i)
    BY <1>6, <2>1, <2>2 DEF Turns
  <2> QED BY <2>1, <2>3, TurnsBack
<1>7. Turns(to[l], to[new], m) /\ Turns(to[new], to[l], m) /\ m \in 1..m
  BY <1>1, <1>2, <1>4 DEF Turns
<1>8. ASSUME NEW k \in DOMAIN to, NEW h \in DOMAIN to, k # h
      PROVE  \E i \in 1..Len(to[k]) : Turns(to[k], to[h], i)
  <2>1. CASE k \in {l, new} /\ h \in {l, new}
    BY <1>4, <1>7, <1>8, <2>1
  <2>2. CASE k \in {l, new} /\ h \notin {l, new}
    <3>1. h \in DOMAIN at \ {l} /\ l \in DOMAIN at
      BY <1>3, <2>2
    <3>2. PICK i \in 1..m - 1 : Turns(old, at[h], i)
      BY <1>5, <3>1 DEF IsTree, Apart
    <3>3. Turns(to[k], to[h], i)
      BY <1>6, <2>2, <3>1, <3>2
    <3> QED BY <3>3 DEF Turns
  <2>3. CASE k \notin {l, new} /\ h \in {l, new}
    <3>1. k \in DOMAIN at \ {l} /\ l \in DOMAIN at
      BY <1>3, <2>3
    <3>2. PICK i \in 1..m - 1 : Turns(old, at[k], i)
      BY <1>5, <3>1 DEF IsTree, Apart
    <3>3. Turns(to[k], to[h], i)
      BY <1>6, <2>3, <3>1, <3>2
    <3> QED BY <3>3 DEF Turns
  <2>4. CASE k \notin {l, new} /\ h \notin {l, new}
    <3>1. k \in DOMAIN at \ {l} /\ h \in DOMAIN at \ {l}
      BY <1>3, <2>4
    <3>2. to[k] = at[k] /\ to[h] = at[h]
      BY <1>3, <3>1
    <3> QED BY <1>8, <3>1, <3>2 DEF IsTree, Apart
  <2> QED BY <2>1, <2>2, <2>3, <2>4
<1>9. ASSUME NEW k \in DOMAIN to, NEW i \in 1..Len(to[k])
      PROVE  \E h \in DOMAIN to : Turns(to[k], to[h], i)
  <2>1. CASE k \in {l, new} /\ i = m
    BY <1>3, <1>7, <2>1
  <2>2. CASE k \in {l, new} /\ i # m
    <3>1. i \in 1..m - 1
      BY <1>2, <1>4, <2>2
    <3>2. PICK h \in DOMAIN at : Turns(old, at[h], i)
      BY <1>5, <3>1 DEF IsTree, Complete
    <3>3. h # l
      BY <1>5, <3>2 DEF Turns
    <3> QED BY <1>3, <1>6, <2>2, <3>1, <3>2, <3>3
  <2>3. CASE k \notin {l, new}
    <3>1. k \in DOMAIN at \ {l} /\ to[k] = at[k]
      BY <1>3, <2>3
    <3>2. PICK h \in DOMAIN at : Turns(at[k], at[h], i)
      BY <3>1 DEF IsTree, Complete
    <3>3. CASE h # l
      BY <1>3, <3>1, <3>2, <3>3
    <3>4. CASE h = l
      <4>1. Turns(old, at[k], i)
        BY <1>1, <1>5, <3>1, <3>2, <3>4, TurnsBack
      <4>2. i \in 1..m - 1
        BY <1>5, <4>1 DEF Turns
      <4> QED BY <1>3, <1>6, <3>1, <4>1, <4>2
    <3> QED BY <3>3, <3>4
  <2> QED BY <2>1, <2>2, <2>3
<1>10. DOMAIN to \subseteq 1..new /\ DOMAIN to # {} /\ to \in [DOMAIN to -> Paths]
  <2>1. \A k \in DOMAIN to : to[k] \in Paths
    BY <1>1, <1>3, <1>4
  <2>2. to \in [DOMAIN to -> Paths]
    BY <1>3, <2>1 DEF SplitAt, to
  <2>3. DOMAIN to \subseteq 1..new
    BY <1>1, <1>3 DEF new
  <2> QED BY <1>3, <2>2, <2>3
<1> QED BY <1>8, <1>9, <1>10 DEF IsTree, Apart, Complete, to, new
-----------------------------------------------------------------------------
(***************************************************************************)
(* The panes and their tabs: a tree whose panes each hold a list of tabs,  *)
(* no tab twice.                                                           *)
(***************************************************************************)
TreeType(D, n) ==
  [at : [D -> Paths], tabs : [D -> Seq(Tabs)], active : [D -> Tabs \cup {NoTab}],
   focus : 0..n, max : 0..n]
Tidy(tabs) ==
  /\ \A l \in DOMAIN tabs : IsInjective(tabs[l])
  /\ \A k, l \in DOMAIN tabs : k # l => ToSet(tabs[k]) \cap ToSet(tabs[l]) = {}
GoodTree(t, n) == t \in TreeType(Leaves(t), n) /\ IsTree(t.at, n) /\ Tidy(t.tabs)

\* The seed and the tabs of terminals are not seen together.
SeedAlone(H) == Seed \in H => H \cap Panels = {}

\* The seed, the terminals and the page's own tabs are different things.
LEMMA TabsAre ==
  /\ Panels \subseteq Tabs /\ Files \subseteq Tabs /\ Seed \in Tabs /\ Seed \notin Panels \cup Files
  /\ NoTab \notin Tabs /\ Panels \cap Files = {}
BY PanesAssumption DEF Tabs

\* What a good tree is, field by field.
LEMMA TreeIs ==
  ASSUME NEW n \in Nat, NEW t, GoodTree(t, n)
  PROVE  /\ t = [at |-> t.at, tabs |-> t.tabs, active |-> t.active, focus |-> t.focus, max |-> t.max]
         /\ Leaves(t) = DOMAIN t.at /\ Leaves(t) \subseteq 1..n /\ Leaves(t) # {} /\ NoPane \notin Leaves(t)
         /\ t.at \in [Leaves(t) -> Paths] /\ t.tabs \in [Leaves(t) -> Seq(Tabs)]
         /\ t.active \in [Leaves(t) -> Tabs \cup {NoTab}] /\ t.focus \in 0..n /\ t.max \in 0..n
         /\ \A l \in Leaves(t) : t.tabs[l] \in Seq(Tabs) /\ IsInjective(t.tabs[l])
         /\ \A k, l \in Leaves(t) : k # l => ToSet(t.tabs[k]) \cap ToSet(t.tabs[l]) = {}
         /\ \A l \in Leaves(t) : ToSet(t.tabs[l]) \subseteq Housed(t)
         /\ \A x : x \in Housed(t) <=> \E l \in Leaves(t) : x \in ToSet(t.tabs[l])
         /\ Housed(t) \subseteq Tabs
<1>1. /\ t = [at |-> t.at, tabs |-> t.tabs, active |-> t.active, focus |-> t.focus, max |-> t.max]
      /\ t.at \in [Leaves(t) -> Paths] /\ t.tabs \in [Leaves(t) -> Seq(Tabs)]
      /\ t.active \in [Leaves(t) -> Tabs \cup {NoTab}] /\ t.focus \in 0..n /\ t.max \in 0..n
  BY DEF GoodTree, TreeType
<1>2. Leaves(t) = DOMAIN t.at /\ Leaves(t) \subseteq 1..n /\ Leaves(t) # {} /\ NoPane \notin Leaves(t)
  BY DEF GoodTree, IsTree, Leaves, NoPane
<1>3. /\ \A l \in Leaves(t) : t.tabs[l] \in Seq(Tabs) /\ IsInjective(t.tabs[l])
      /\ \A k, l \in Leaves(t) : k # l => ToSet(t.tabs[k]) \cap ToSet(t.tabs[l]) = {}
  BY <1>1 DEF GoodTree, Tidy
<1>4. \A x : x \in Housed(t) <=> \E l \in Leaves(t) : x \in ToSet(t.tabs[l])
  BY DEF Housed
<1>5. \A l \in Leaves(t) : ToSet(t.tabs[l]) \subseteq Tabs
  BY <1>3, ListIs
<1>6. Housed(t) \subseteq Tabs
  BY <1>4, <1>5
<1>7. \A l \in Leaves(t) : ToSet(t.tabs[l]) \subseteq Housed(t)
  BY <1>4
<1> QED BY <1>1, <1>2, <1>3, <1>4, <1>6, <1>7

\* Other tabs and pointers in the same panes.
LEMMA Refit ==
  ASSUME NEW n \in Nat, NEW t, GoodTree(t, n),
         NEW u \in TreeType(Leaves(t), n), u.at = t.at, Tidy(u.tabs)
  PROVE  GoodTree(u, n) /\ Leaves(u) = Leaves(t)
BY DEF GoodTree, Leaves

\* One pane's list changes, to tabs that no other pane holds.
LEMMA TidyOne ==
  ASSUME NEW D, NEW tabs \in [D -> Seq(Tabs)], Tidy(tabs), NEW l \in D,
         NEW q \in Seq(Tabs), IsInjective(q), \A k \in D \ {l} : ToSet(q) \cap ToSet(tabs[k]) = {},
         NEW new, new = [tabs EXCEPT ![l] = q]
  PROVE  new \in [D -> Seq(Tabs)] /\ Tidy(new) /\ new[l] = q /\ \A k \in D \ {l} : new[k] = tabs[k]
<1>1. new \in [D -> Seq(Tabs)] /\ new[l] = q /\ \A k \in D \ {l} : new[k] = tabs[k]
  OBVIOUS
<1>2. DOMAIN tabs = D /\ DOMAIN new = D
  BY <1>1
<1>3. /\ \A k \in D : IsInjective(tabs[k])
      /\ \A k, h \in D : k # h => ToSet(tabs[k]) \cap ToSet(tabs[h]) = {}
  BY <1>2 DEF Tidy
<1>4. \A k \in D : IsInjective(new[k])
  BY <1>1, <1>3
<1>5. ASSUME NEW k \in D, NEW h \in D, k # h PROVE ToSet(new[k]) \cap ToSet(new[h]) = {}
  <2>1. CASE k = l
    BY <1>1, <1>5, <2>1
  <2>2. CASE h = l
    BY <1>1, <1>5, <2>2
  <2>3. CASE k # l /\ h # l
    BY <1>1, <1>3, <1>5, <2>3
  <2> QED BY <2>1, <2>2, <2>3
<1> QED BY <1>1, <1>2, <1>4, <1>5 DEF Tidy

\* The tabs of all panes, when those of one change.
LEMMA HousedOne ==
  ASSUME NEW n \in Nat, NEW t, GoodTree(t, n), NEW u, GoodTree(u, n), Leaves(u) = Leaves(t),
         NEW l \in Leaves(t), \A k \in Leaves(t) \ {l} : u.tabs[k] = t.tabs[k]
  PROVE  Housed(u) = (Housed(t) \ ToSet(t.tabs[l])) \cup ToSet(u.tabs[l])
<1>1. \A x : x \in Housed(t) <=> \E k \in Leaves(t) : x \in ToSet(t.tabs[k])
  BY TreeIs
<1>2. \A x : x \in Housed(u) <=> \E k \in Leaves(t) : x \in ToSet(u.tabs[k])
  BY TreeIs
<1>3. \A k \in Leaves(t) \ {l} : ToSet(t.tabs[k]) \cap ToSet(t.tabs[l]) = {}
  BY TreeIs
<1>4. \A x \in Housed(u) : x \in (Housed(t) \ ToSet(t.tabs[l])) \cup ToSet(u.tabs[l])
  BY <1>1, <1>2, <1>3
<1>5. \A x \in (Housed(t) \ ToSet(t.tabs[l])) \cup ToSet(u.tabs[l]) : x \in Housed(u)
  BY <1>1, <1>2
<1> QED BY <1>4, <1>5

\* As long as the lists stay, so do the tabs that have a home.
LEMMA HousedSame ==
  ASSUME NEW t, NEW u, Leaves(u) = Leaves(t), \A l \in Leaves(t) : u.tabs[l] = t.tabs[l]
  PROVE  Housed(u) = Housed(t)
BY DEF Housed

\* A tab that is anywhere is in one pane, its home (paneForTab).
LEMMA HomeIs ==
  ASSUME NEW n \in Nat, NEW t, GoodTree(t, n), NEW tab
  PROVE  /\ Home(t, tab) # NoPane <=> tab \in Housed(t)
         /\ Home(t, tab) # NoPane => /\ Home(t, tab) \in Leaves(t) /\ tab \in ToSet(t.tabs[Home(t, tab)])
                                     /\ \A k \in Leaves(t) \ {Home(t, tab)} : tab \notin ToSet(t.tabs[k])
         /\ Holders(t, tab) = {l \in Leaves(t) : tab \in ToSet(t.tabs[l])}
<1>1. Holders(t, tab) = {l \in Leaves(t) : tab \in ToSet(t.tabs[l])}
  BY TreeIs, ListIs DEF Holders
<1>2. PICK H : H = Holders(t, tab)
  OBVIOUS
<1>3. H \in SUBSET Leaves(t)
  BY <1>1, <1>2
<1>4. (H = {}) <=> tab \notin Housed(t)
  BY <1>1, <1>2, TreeIs
<1>5. Home(t, tab) = IF H = {} THEN NoPane ELSE FirstOf(t, H)
  BY <1>2 DEF Home
<1>6. H # {} => FirstOf(t, H) \in H
  BY <1>3, FirstOfIn DEF GoodTree
<1>7. NoPane \notin Leaves(t) /\ \A k, l \in Leaves(t) : k # l => ToSet(t.tabs[k]) \cap ToSet(t.tabs[l]) = {}
  BY TreeIs
<1>8. CASE H = {}
  BY <1>1, <1>4, <1>5, <1>8
<1>9. CASE H # {}
  <2>1. Home(t, tab) \in H /\ Home(t, tab) # NoPane /\ tab \in Housed(t)
    BY <1>3, <1>4, <1>5, <1>6, <1>7, <1>9
  <2>2. PICK h : h = Home(t, tab)
    OBVIOUS
  <2>3. h \in Leaves(t) /\ tab \in ToSet(t.tabs[h])
    BY <1>1, <1>2, <2>1, <2>2
  <2>4. \A k \in Leaves(t) \ {h} : tab \notin ToSet(t.tabs[k])
    BY <1>7, <2>3
  <2> QED BY <1>1, <2>1, <2>2, <2>3, <2>4
<1> QED BY <1>8, <1>9

\* There is always an active pane (activeLeaf).
LEMMA ActiveLeafIn ==
  ASSUME NEW n \in Nat, NEW t, GoodTree(t, n)
  PROVE  ActiveLeaf(t) \in Leaves(t)
<1>1. Leaves(t) \in SUBSET Leaves(t) /\ Leaves(t) # {}
  BY TreeIs
<1>2. FirstOf(t, Leaves(t)) \in Leaves(t)
  BY <1>1, FirstOfIn DEF GoodTree
<1> QED BY <1>2 DEF ActiveLeaf

\* ... and one for the terminals that a sync brings (terminalLeafForSync).
LEMMA SyncTargetIn ==
  ASSUME NEW n \in Nat, NEW t, GoodTree(t, n), NEW listed, NEW wait
  PROVE  SyncTarget(t, listed, wait) \in Leaves(t)
<1> DEFINE terminal == {l \in Leaves(t) : \E tab \in ToSet(t.tabs[l]) : tab = Seed \/ Contains(listed, tab)}
<1>1. terminal \in SUBSET Leaves(t)
  OBVIOUS
<1> HIDE DEF terminal
<1>2. terminal # {} => FirstOf(t, terminal) \in Leaves(t)
  BY <1>1, FirstOfIn DEF GoodTree
<1>3. ActiveLeaf(t) \in Leaves(t)
  BY ActiveLeafIn
<1> QED BY <1>2, <1>3 DEF SyncTarget, terminal
-----------------------------------------------------------------------------
(***************************************************************************)
(* The steps of a sync.                                                    *)
(***************************************************************************)
\* What is listed is seated, the seed gives way.
LEMMA Seats ==
  ASSUME NEW n \in Nat, NEW t, GoodTree(t, n), SeedAlone(Housed(t)),
         NEW listed \in Seq(Panels), IsInjective(listed), NEW target \in Leaves(t),
         NEW u, u = Seat(t, listed, target)
  PROVE  /\ GoodTree(u, n) /\ u.at = t.at /\ Leaves(u) = Leaves(t)
         /\ Housed(u) \ {Seed} = (Housed(t) \ {Seed}) \cup ToSet(listed)
         /\ listed = <<>> => Housed(u) = Housed(t)
         /\ \A l \in Leaves(t) : /\ t.tabs[l] = <<>> => ToSet(u.tabs[l]) \subseteq ToSet(listed)
                                 /\ t.tabs[l] # <<>> => u.tabs[l] # <<>>
<1>1. PICK old : old = t.tabs[target]
  OBVIOUS
<1>2. /\ old \in Seq(Tabs) /\ IsInjective(old) /\ ToSet(old) \subseteq Housed(t)
      /\ \A k \in Leaves(t) \ {target} : ToSet(old) \cap ToSet(t.tabs[k]) = {} /\ ToSet(t.tabs[k]) \subseteq Housed(t)
  BY <1>1, TreeIs
<1>3. listed \in Seq(Tabs) /\ ToSet(listed) \subseteq Panels /\ Seed \notin ToSet(listed)
  BY TabsAre, SeqMonotonic, ListIs
\* In both ways the list of the target is another one, the rest is as it was.
<1>4. ASSUME NEW q \in Seq(Tabs), IsInjective(q), \A k \in Leaves(t) \ {target} : ToSet(q) \cap ToSet(t.tabs[k]) = {},
             NEW active \in [Leaves(t) -> Tabs \cup {NoTab}],
             u = [t EXCEPT !.tabs[target] = q, !.active = active],
             ToSet(q) \ {Seed} = (ToSet(old) \ {Seed}) \cup (ToSet(listed) \ Housed(t)),
             listed = <<>> => ToSet(q) = ToSet(old), old # <<>> => q # <<>>
      PROVE  /\ GoodTree(u, n) /\ u.at = t.at /\ Leaves(u) = Leaves(t)
             /\ Housed(u) \ {Seed} = (Housed(t) \ {Seed}) \cup ToSet(listed)
             /\ listed = <<>> => Housed(u) = Housed(t)
             /\ \A l \in Leaves(t) : /\ t.tabs[l] = <<>> => ToSet(u.tabs[l]) \subseteq ToSet(listed) \cup {Seed}
                                     /\ t.tabs[l] # <<>> => u.tabs[l] # <<>>
                                     /\ u.tabs[l] = IF l = target THEN q ELSE t.tabs[l]
  <2>1. PICK tabs : tabs = [t.tabs EXCEPT ![target] = q]
    OBVIOUS
  <2>2. /\ tabs \in [Leaves(t) -> Seq(Tabs)] /\ Tidy(tabs)
        /\ tabs[target] = q /\ \A k \in Leaves(t) \ {target} : tabs[k] = t.tabs[k]
    <3>1. t.tabs \in [Leaves(t) -> Seq(Tabs)] /\ Tidy(t.tabs)
      BY TreeIs DEF GoodTree
    <3>2. IsInjective(q) /\ \A k \in Leaves(t) \ {target} : ToSet(q) \cap ToSet(t.tabs[k]) = {}
      BY <1>4
    <3> QED BY <2>1, <3>1, <3>2, TidyOne, ZenonT(60)
  <2>3. u = [at |-> t.at, tabs |-> tabs, active |-> active, focus |-> t.focus, max |-> t.max]
    BY <1>4, <2>1, TreeIs
  <2>4. GoodTree(u, n) /\ u.at = t.at /\ Leaves(u) = Leaves(t) /\ u.tabs = tabs
    <3>1. t.focus \in 0..n /\ t.max \in 0..n /\ t.at \in [Leaves(t) -> Paths]
      BY TreeIs
    <3>2. u \in TreeType(Leaves(t), n) /\ u.at = t.at /\ u.tabs = tabs
      BY <2>2, <2>3, <3>1 DEF TreeType
    <3> QED BY <2>2, <3>2, Refit
  <2>5. Housed(u) = (Housed(t) \ ToSet(old)) \cup ToSet(q)
    <3>1. \A k \in Leaves(t) \ {target} : u.tabs[k] = t.tabs[k]
      BY <2>2, <2>4
    <3>2. Housed(u) = (Housed(t) \ ToSet(t.tabs[target])) \cup ToSet(u.tabs[target])
      BY <2>4, <3>1, HousedOne
    <3> QED BY <1>1, <2>2, <2>4, <3>2
  <2>6. Housed(u) \ {Seed} = (Housed(t) \ {Seed}) \cup ToSet(listed)
    BY <1>2, <1>3, <1>4, <2>5
  <2>7. listed = <<>> => Housed(u) = Housed(t)
    BY <1>2, <1>4, <2>5
  <2>8. ToSet(<<>>) = {}
    BY DEF ToSet
  <2>9. ASSUME NEW l \in Leaves(t)
        PROVE  /\ t.tabs[l] = <<>> => ToSet(u.tabs[l]) \subseteq ToSet(listed) \cup {Seed}
               /\ t.tabs[l] # <<>> => u.tabs[l] # <<>>
               /\ u.tabs[l] = IF l = target THEN q ELSE t.tabs[l]
    <3>1. CASE l = target
      BY <1>1, <1>4, <2>2, <2>4, <2>8, <3>1
    <3>2. CASE l # target
      BY <2>2, <2>4, <2>8, <3>2
    <3> QED BY <3>1, <3>2
  <2> QED BY <2>4, <2>6, <2>7, <2>9
<1>5. (Contains(old, Seed) <=> Seed \in ToSet(old)) /\ (old = <<>> <=> ToSet(old) = {})
  BY <1>2, ListIs
<1>6. listed = <<>> <=> ToSet(listed) = {}
  BY ListIs
<1>7. CASE Contains(old, Seed) /\ listed # <<>>
  <2>1. PICK seed \in DOMAIN old : old[seed] = Seed /\ seed = CHOOSE i \in DOMAIN old : old[i] = Seed
    <3>1. \E i \in DOMAIN old : old[i] = Seed
      BY <1>5, <1>7 DEF ToSet
    <3> QED BY <3>1
  <2>2. seed \in 1..Len(old)
    BY <1>2, <2>1, ListIs
  <2>3. Housed(t) \cap ToSet(listed) = {}
    BY <1>2, <1>3, <1>5, <1>7 DEF SeedAlone
  <2>4. ToSet(listed) \cap ToSet(old) = {}
    BY <1>2, <2>3
  <2>5. PICK q : q = SubSeq(old, 1, seed - 1) \o listed \o SubSeq(old, seed + 1, Len(old))
    OBVIOUS
  <2>6. q \in Seq(Tabs) /\ IsInjective(q) /\ ToSet(q) = (ToSet(old) \ {Seed}) \cup ToSet(listed)
    <3>1. old \in Seq(Tabs) /\ listed \in Seq(Tabs) /\ IsInjective(old) /\ IsInjective(listed)
      BY <1>2, <1>3
    <3>2. q \in Seq(Tabs) /\ IsInjective(q) /\ ToSet(q) = (ToSet(old) \ {old[seed]}) \cup ToSet(listed)
      <4>1. q = Replaced(old, seed, listed)
        BY <2>5 DEF Replaced
      <4> QED BY <2>2, <2>4, <3>1, <4>1, ReplacedOnce
    <3> QED BY <2>1, <3>2
  <2>7. PICK active : active = [t.active EXCEPT ![target] = IF @ = Seed THEN Head(listed) ELSE @]
    OBVIOUS
  <2>8. active \in [Leaves(t) -> Tabs \cup {NoTab}]
    <3>1. Head(listed) \in Tabs
      BY <1>3, <1>7, ListIs, TabsAre
    <3>2. t.active \in [Leaves(t) -> Tabs \cup {NoTab}]
      BY TreeIs
    <3> QED BY <2>7, <3>1, <3>2
  <2>9. u = [t EXCEPT !.tabs[target] = q, !.active = active]
    <3>1. u = [t EXCEPT !.tabs[target] = q, !.active[target] = IF @ = Seed THEN Head(listed) ELSE @]
      BY <1>1, <1>7, <2>1, <2>5 DEF Seat
    <3>2. t = [at |-> t.at, tabs |-> t.tabs, active |-> t.active, focus |-> t.focus, max |-> t.max]
      BY TreeIs
    <3> QED BY <2>7, <3>1, <3>2
  <2>10. \A k \in Leaves(t) \ {target} : ToSet(q) \cap ToSet(t.tabs[k]) = {}
    BY <1>2, <2>3, <2>6
  <2>11. /\ ToSet(q) \ {Seed} = (ToSet(old) \ {Seed}) \cup (ToSet(listed) \ Housed(t))
         /\ q # <<>> /\ old # <<>>
    <3>1. q # <<>>
      BY <1>6, <1>7, <2>6, ListIs
    <3> QED BY <1>3, <1>5, <1>7, <2>3, <2>6, <3>1
  <2>12. ASSUME NEW l \in Leaves(t), t.tabs[l] = <<>> PROVE l # target
    BY <1>1, <2>11, <2>12
  <2>13. /\ GoodTree(u, n) /\ u.at = t.at /\ Leaves(u) = Leaves(t)
         /\ Housed(u) \ {Seed} = (Housed(t) \ {Seed}) \cup ToSet(listed)
         /\ \A l \in Leaves(t) : /\ t.tabs[l] # <<>> => u.tabs[l] # <<>>
                                 /\ u.tabs[l] = IF l = target THEN q ELSE t.tabs[l]
    BY <1>4, <1>7, <2>6, <2>8, <2>9, <2>10, <2>11
  <2>14. \A l \in Leaves(t) : t.tabs[l] = <<>> => ToSet(u.tabs[l]) \subseteq ToSet(listed)
    <3>1. ToSet(<<>>) = {}
      BY DEF ToSet
    <3> QED BY <2>12, <2>13, <3>1
  <2> QED BY <1>7, <2>13, <2>14
<1>8. CASE ~(Contains(old, Seed) /\ listed # <<>>)
  <2>1. PICK more : more = Without(listed, Housed(t))
    OBVIOUS
  <2>2. more \in Seq(Tabs) /\ ToSet(more) = ToSet(listed) \ Housed(t) /\ IsInjective(more)
    BY <1>3, <2>1, WithoutProperties
  <2>3. PICK q : q = old \o more
    OBVIOUS
  <2>4. q \in Seq(Tabs) /\ IsInjective(q) /\ ToSet(q) = ToSet(old) \cup (ToSet(listed) \ Housed(t))
    <3>1. ToSet(old) \cap ToSet(more) = {}
      BY <1>2, <2>2
    <3> QED BY <1>2, <2>2, <2>3, <3>1, JoinedOnce
  <2>5. u = [t EXCEPT !.tabs[target] = q, !.active = t.active]
    <3>1. u = [t EXCEPT !.tabs[target] = @ \o more]
      BY <1>1, <1>8, <2>1 DEF Seat
    <3>2. t = [at |-> t.at, tabs |-> t.tabs, active |-> t.active, focus |-> t.focus, max |-> t.max]
      BY TreeIs
    <3> QED BY <1>1, <2>3, <3>1, <3>2
  <2>6. t.active \in [Leaves(t) -> Tabs \cup {NoTab}]
    BY TreeIs
  <2>7. \A k \in Leaves(t) \ {target} : ToSet(q) \cap ToSet(t.tabs[k]) = {}
    BY <1>2, <2>4
  <2>8. /\ ToSet(q) \ {Seed} = (ToSet(old) \ {Seed}) \cup (ToSet(listed) \ Housed(t))
        /\ listed = <<>> => ToSet(q) = ToSet(old)
        /\ old # <<>> => q # <<>>
    <3>1. old # <<>> => q # <<>>
      BY <1>5, <2>4, ListIs
    <3> QED BY <1>3, <1>6, <2>4, <3>1
  <2>9. /\ GoodTree(u, n) /\ u.at = t.at /\ Leaves(u) = Leaves(t)
        /\ Housed(u) \ {Seed} = (Housed(t) \ {Seed}) \cup ToSet(listed)
        /\ listed = <<>> => Housed(u) = Housed(t)
        /\ \A l \in Leaves(t) : /\ t.tabs[l] # <<>> => u.tabs[l] # <<>>
                                /\ u.tabs[l] = IF l = target THEN q ELSE t.tabs[l]
    BY <1>4, <2>4, <2>5, <2>6, <2>7, <2>8
  <2>10. \A l \in Leaves(t) : t.tabs[l] = <<>> => ToSet(u.tabs[l]) \subseteq ToSet(listed)
    <3>1. ToSet(<<>>) = {}
      BY DEF ToSet
    <3> QED BY <1>1, <2>4, <2>9, <3>1
  <2> QED BY <2>9, <2>10
<1> QED BY <1>7, <1>8

\* What a list of terminals leaves of the tabs: those of other terminals and the
\* seed go.
Gone(listed) == IF listed = <<>> THEN {} ELSE (Panels \cup {Seed}) \ ToSet(listed)

\* A pruned list has no tab of a terminal that is not listed any more.
LEMMA KeptIs ==
  ASSUME NEW q \in Seq(Tabs), IsInjective(q), NEW listed
  PROVE  Kept(q, listed) \in Seq(Tabs) /\ IsInjective(Kept(q, listed)) /\ ToSet(Kept(q, listed)) = ToSet(q) \ Gone(listed)
<1>1. CASE listed = <<>>
  BY <1>1 DEF Kept, Gone
<1>2. CASE listed # <<>>
  <2>1. Kept(q, listed) = Without(q, Gone(listed))
    BY <1>2 DEF Kept, Gone
  <2> QED BY <2>1, WithoutProperties
<1> QED BY <1>1, <1>2

\* The prune takes those tabs from every pane.
LEMMA Prunes ==
  ASSUME NEW n \in Nat, NEW t, GoodTree(t, n), NEW listed, NEW u, u = Prune(t, listed)
  PROVE  /\ GoodTree(u, n) /\ u.at = t.at /\ Leaves(u) = Leaves(t)
         /\ \A l \in Leaves(t) : u.tabs[l] = Kept(t.tabs[l], listed)
         /\ Housed(u) = Housed(t) \ Gone(listed)
<1>1. PICK tabs : tabs = [l \in Leaves(t) |-> Kept(t.tabs[l], listed)]
  OBVIOUS
<1>2. /\ DOMAIN tabs = Leaves(t)
      /\ \A l \in Leaves(t) : /\ tabs[l] = Kept(t.tabs[l], listed)
                              /\ tabs[l] \in Seq(Tabs) /\ IsInjective(tabs[l])
                              /\ ToSet(tabs[l]) = ToSet(t.tabs[l]) \ Gone(listed)
  BY <1>1, TreeIs, KeptIs
<1>3. tabs \in [Leaves(t) -> Seq(Tabs)]
  BY <1>1, <1>2
<1>4. Tidy(tabs)
  <2>1. \A k, l \in Leaves(t) : k # l => ToSet(t.tabs[k]) \cap ToSet(t.tabs[l]) = {}
    BY TreeIs
  <2>2. \A l \in Leaves(t) : IsInjective(tabs[l])
    BY <1>2
  <2>3. \A k, l \in Leaves(t) : k # l => ToSet(tabs[k]) \cap ToSet(tabs[l]) = {}
    BY <1>2, <2>1
  <2> QED BY <1>2, <2>2, <2>3 DEF Tidy
<1>5. u = [at |-> t.at, tabs |-> tabs, active |-> t.active, focus |-> t.focus, max |-> t.max]
  <2>1. u = [t EXCEPT !.tabs = tabs]
    BY <1>1 DEF Prune
  <2>2. t = [at |-> t.at, tabs |-> t.tabs, active |-> t.active, focus |-> t.focus, max |-> t.max]
    BY TreeIs
  <2> QED BY <2>1, <2>2
<1>6. u \in TreeType(Leaves(t), n) /\ u.at = t.at /\ u.tabs = tabs
  <2>1. /\ t.at \in [Leaves(t) -> Paths] /\ t.active \in [Leaves(t) -> Tabs \cup {NoTab}]
        /\ t.focus \in 0..n /\ t.max \in 0..n
    BY TreeIs
  <2> QED BY <1>3, <1>5, <2>1 DEF TreeType
<1>7. GoodTree(u, n) /\ Leaves(u) = Leaves(t)
  BY <1>4, <1>6, Refit
<1>8. Housed(u) = Housed(t) \ Gone(listed)
  <2>1. \A x : x \in Housed(u) <=> \E l \in Leaves(t) : x \in ToSet(tabs[l])
    BY <1>6, <1>7, TreeIs
  <2>2. \A x : x \in Housed(t) <=> \E l \in Leaves(t) : x \in ToSet(t.tabs[l])
    BY TreeIs
  <2> QED BY <1>2, <2>1, <2>2
<1> QED BY <1>2, <1>6, <1>7, <1>8

\* A pane goes, with its tabs.
LEMMA Promotes ==
  ASSUME NEW n \in Nat, NEW t, GoodTree(t, n), NEW l \in Leaves(t), Leaves(t) # {l}, NEW u, u = Promote(t, l)
  PROVE  /\ GoodTree(u, n) /\ Leaves(u) = Leaves(t) \ {l}
         /\ \A k \in Leaves(t) \ {l} : u.tabs[k] = t.tabs[k] /\ u.active[k] = t.active[k]
         /\ Housed(u) = Housed(t) \ ToSet(t.tabs[l])
<1>1. IsTree(t.at, n)
  BY DEF GoodTree
<1>2. PICK at : at = Promoted(t.at, l)
  OBVIOUS
<1>3. IsTree(at, n) /\ DOMAIN at = Leaves(t) \ {l}
  <2>1. IsTree(at, n)
    BY <1>1, <1>2, PromotedTree
  <2>2. DOMAIN at = Leaves(t) \ {l}
    BY <1>2 DEF Promoted, Leaves
  <2> QED BY <2>1, <2>2
<1>4. at = [k \in Leaves(t) \ {l} |-> IF IsPrefix(Beside(t, l), t.at[k]) THEN RemoveAt(t.at[k], Len(t.at[l])) ELSE t.at[k]]
  <2>1. \A k \in Leaves(t) : k \in Beyond(t.at, l) <=> IsPrefix(Beside(t, l), t.at[k])
    BY <1>1, BeyondIs
  <2> QED BY <1>2, <2>1 DEF Promoted, Leaves
<1>5. PICK tabs : tabs = Restrict(t.tabs, Leaves(t) \ {l})
  OBVIOUS
<1>6. PICK active : active = Restrict(t.active, Leaves(t) \ {l})
  OBVIOUS
<1>7. PICK max : max = IF t.max = l THEN NoPane ELSE t.max
  OBVIOUS
<1>8. /\ tabs \in [Leaves(t) \ {l} -> Seq(Tabs)] /\ active \in [Leaves(t) \ {l} -> Tabs \cup {NoTab}]
      /\ t.focus \in 0..n /\ max \in 0..n
      /\ \A k \in Leaves(t) \ {l} : tabs[k] = t.tabs[k] /\ active[k] = t.active[k]
  BY <1>5, <1>6, <1>7, TreeIs DEF Restrict, NoPane
<1>9. u = [at |-> at, tabs |-> tabs, active |-> active, focus |-> t.focus, max |-> max]
  <2>1. u = [t EXCEPT !.at = at, !.tabs = tabs, !.active = active, !.max = max]
    BY <1>4, <1>5, <1>6, <1>7 DEF Promote
  <2> QED BY <2>1, TreeIs
<1>10. Leaves(u) = Leaves(t) \ {l} /\ u.at = at /\ u.tabs = tabs /\ u.active = active
  BY <1>3, <1>9 DEF Leaves
<1>11. Tidy(tabs)
  <2>1. \A k \in Leaves(t) : IsInjective(t.tabs[k])
    BY TreeIs
  <2>2. \A k, h \in Leaves(t) : k # h => ToSet(t.tabs[k]) \cap ToSet(t.tabs[h]) = {}
    BY TreeIs
  <2>3. DOMAIN tabs = Leaves(t) \ {l}
    BY <1>8
  <2> QED BY <1>8, <2>1, <2>2, <2>3 DEF Tidy
<1>12. GoodTree(u, n)
  <2>1. at \in [Leaves(t) \ {l} -> Paths]
    BY <1>3 DEF IsTree
  <2>2. u \in TreeType(Leaves(u), n)
    BY <1>8, <1>9, <1>10, <2>1 DEF TreeType
  <2> QED BY <1>3, <1>10, <1>11, <2>2 DEF GoodTree
<1>13. Housed(u) = Housed(t) \ ToSet(t.tabs[l])
  <2>1. \A x : x \in Housed(u) <=> \E k \in Leaves(t) \ {l} : x \in ToSet(t.tabs[k])
    BY <1>8, <1>10, <1>12, TreeIs
  <2>2. \A x : x \in Housed(t) <=> \E k \in Leaves(t) : x \in ToSet(t.tabs[k])
    BY TreeIs
  <2>3. \A k \in Leaves(t) \ {l} : ToSet(t.tabs[k]) \cap ToSet(t.tabs[l]) = {}
    BY TreeIs
  <2> QED BY <2>1, <2>2, <2>3
<1> QED BY <1>8, <1>10, <1>12, <1>13

\* The focus moves to a pane, or none.
Refocused(t, focus, max) == [t EXCEPT !.focus = focus, !.max = max]

\* Another focus or maximized pane changes no list.
LEMMA Refocus ==
  ASSUME NEW n \in Nat, NEW t, GoodTree(t, n), NEW focus, NEW max, {focus, max} \subseteq 0..n,
         NEW u, u = Refocused(t, focus, max)
  PROVE  /\ GoodTree(u, n) /\ u.at = t.at /\ Leaves(u) = Leaves(t) /\ u.tabs = t.tabs /\ u.active = t.active
         /\ Housed(u) = Housed(t) /\ u.focus = focus /\ u.max = max
<1>1. /\ t.at \in [Leaves(t) -> Paths] /\ t.tabs \in [Leaves(t) -> Seq(Tabs)]
      /\ t.active \in [Leaves(t) -> Tabs \cup {NoTab}]
  BY TreeIs
<1>2. u = [at |-> t.at, tabs |-> t.tabs, active |-> t.active, focus |-> focus, max |-> max]
  <2>1. t = [at |-> t.at, tabs |-> t.tabs, active |-> t.active, focus |-> t.focus, max |-> t.max]
    BY TreeIs
  <2> QED BY <2>1 DEF Refocused
<1>3. /\ u \in TreeType(Leaves(t), n) /\ u.at = t.at /\ u.tabs = t.tabs /\ u.active = t.active
      /\ u.focus = focus /\ u.max = max
  BY <1>1, <1>2 DEF TreeType
<1>4. GoodTree(u, n) /\ Leaves(u) = Leaves(t)
  <2>1. Tidy(u.tabs)
    BY <1>3 DEF GoodTree
  <2> QED BY <1>3, <2>1, Refit
<1>5. Housed(u) = Housed(t)
  BY <1>3, <1>4, HousedSame
<1> QED BY <1>3, <1>4, <1>5

\* The numbers that a tree mentions are of panes that were made.
LEMMA PaneNumber ==
  ASSUME NEW n \in Nat, NEW t, GoodTree(t, n), NEW l \in Leaves(t)
  PROVE  {l, NoPane, t.focus, t.max} \subseteq 0..n
BY TreeIs DEF NoPane

\* A pane without tabs goes, unless it is alone, and takes no tab with it.
LEMMA Collapses ==
  ASSUME NEW n \in Nat, NEW t, GoodTree(t, n), NEW l \in Leaves(t), NEW u, u = Collapse(t, l)
  PROVE  /\ GoodTree(u, n)
         /\ Leaves(u) = IF t.tabs[l] # <<>> \/ Leaves(t) = {l} THEN Leaves(t) ELSE Leaves(t) \ {l}
         /\ \A k \in Leaves(u) : u.tabs[k] = t.tabs[k]
         /\ Housed(u) = Housed(t)
<1>1. CASE t.tabs[l] # <<>> \/ Leaves(t) = {l}
  <2>1. u = t
    BY <1>1 DEF Collapse
  <2> QED BY <1>1, <2>1
<1>2. CASE ~(t.tabs[l] # <<>> \/ Leaves(t) = {l})
  <2>1. PICK v : v = Promote(t, l)
    OBVIOUS
  <2>2. /\ GoodTree(v, n) /\ Leaves(v) = Leaves(t) \ {l}
        /\ \A k \in Leaves(t) \ {l} : v.tabs[k] = t.tabs[k]
        /\ Housed(v) = Housed(t) \ ToSet(t.tabs[l])
    BY <1>2, <2>1, Promotes
  <2>3. PICK focus : focus = Survivor(t, l)
    OBVIOUS
  <2>4. {focus, v.max} \subseteq 0..n
    <3>1. focus \in Leaves(t)
      BY <1>2, <2>3, SurvivorIn DEF GoodTree
    <3>2. {focus} \subseteq 0..n
      BY <3>1, PaneNumber
    <3>3. {v.max} \subseteq 0..n
      BY <2>2, TreeIs
    <3> QED BY <3>2, <3>3
  <2>5. u = Refocused(v, focus, v.max)
    <3>1. u = [v EXCEPT !.focus = focus]
      BY <1>2, <2>1, <2>3 DEF Collapse
    <3>2. v = [at |-> v.at, tabs |-> v.tabs, active |-> v.active, focus |-> v.focus, max |-> v.max]
      BY <2>2, TreeIs
    <3> QED BY <3>1, <3>2 DEF Refocused
  <2>6. GoodTree(u, n) /\ Leaves(u) = Leaves(v) /\ u.tabs = v.tabs /\ Housed(u) = Housed(v)
    BY <2>2, <2>4, <2>5, Refocus
  <2>7. ToSet(t.tabs[l]) = {}
    BY <1>2 DEF ToSet
  <2> QED BY <1>2, <2>2, <2>6, <2>7
<1> QED BY <1>1, <1>2

\* One step of the walk over the emptied panes: the pane goes or stays, the tabs
\* of the others stay.
StepsTo(r, n, u, replaced, view, l) ==
  /\ CollapseNext(r) = [tree |-> u, replaced |-> replaced, view |-> view, todo |-> r.todo \ {l}]
  /\ GoodTree(u, n) /\ l \in r.todo
  /\ Leaves(r.tree) \ {l} \subseteq Leaves(u) /\ Leaves(u) \subseteq Leaves(r.tree)
  /\ \A k \in Leaves(u) : u.tabs[k] = r.tree.tabs[k]
  /\ Housed(u) = Housed(r.tree)
  /\ r.replaced = FALSE /\ r.view = <<>> /\ Leaves(r.tree) # {l} => l \notin Leaves(u)

\* One collapse of the walk, with the old root that it keeps.
LEMMA CollapseStep ==
  ASSUME NEW n \in Nat, NEW t, GoodTree(t, n), NEW replaced, NEW view, NEW S \in SUBSET Leaves(t), S # {},
         \A l \in S : t.tabs[l] = <<>>,
         NEW r, r = [tree |-> t, replaced |-> replaced, view |-> view, todo |-> S]
  PROVE  \E u, replaced2, view2, l : StepsTo(r, n, u, replaced2, view2, l)
<1>1. PICK l : l = FirstOf(t, S)
  OBVIOUS
<1>2. l \in S /\ l \in Leaves(t) /\ t.tabs[l] = <<>>
  BY <1>1, FirstOfIn DEF GoodTree
<1>3. CollapseNext(r) = [CollapseFrom(r, l) EXCEPT !.todo = @ \ {l}]
  BY <1>1 DEF CollapseNext
<1>4. r.tree = t /\ r.replaced = replaced /\ r.view = view /\ r.todo = S
  OBVIOUS
<1>5. CASE Leaves(t) = {l} \/ ~IsPrefix(view, t.at[l])
  <2>1. CollapseFrom(r, l) = r
    BY <1>4, <1>5 DEF CollapseFrom
  <2>2. CollapseNext(r) = [tree |-> t, replaced |-> replaced, view |-> view, todo |-> S \ {l}]
    <3>1. CollapseNext(r) = [r EXCEPT !.todo = @ \ {l}]
      BY <1>3, <2>1
    <3> QED BY <3>1
  <2>3. replaced = FALSE /\ view = <<>> => IsPrefix(view, t.at[l])
    <3>1. t.at[l] \in Paths
      BY <1>2, TreeIs
    <3>2. Len(<<>>) = 0 /\ 0 <= Len(t.at[l])
      BY <3>1, PathIs
    <3>3. SubSeq(<<>>, 1, 0) = <<>> /\ SubSeq(t.at[l], 1, 0) = <<>>
      BY SubSeqEmpty
    <3> QED BY <3>2, <3>3 DEF IsPrefix
  <2>4. StepsTo(r, n, t, replaced, view, l)
    BY <1>2, <1>4, <1>5, <2>2, <2>3 DEF StepsTo
  <2> QED BY <2>4
<1>6. CASE /\ ~(Leaves(t) = {l} \/ ~IsPrefix(view, t.at[l]))
           /\ replaced /\ Parent(t, l) = view
  <2>1. PICK focus : focus = Survivor(t, l)
    OBVIOUS
  <2>2. PICK max : max = IF t.max = l THEN NoPane ELSE t.max
    OBVIOUS
  <2>3. {focus, max} \subseteq 0..n
    <3>1. focus \in Leaves(t)
      BY <1>2, <1>6, <2>1, SurvivorIn DEF GoodTree
    <3> QED BY <2>2, <3>1, PaneNumber
  <2>4. PICK u : u = Refocused(t, focus, max)
    OBVIOUS
  <2>5. GoodTree(u, n) /\ Leaves(u) = Leaves(t) /\ u.tabs = t.tabs /\ Housed(u) = Housed(t)
    BY <2>3, <2>4, Refocus
  <2>6. CollapseFrom(r, l) = [r EXCEPT !.view = Beside(t, l), !.tree = u]
    <3>1. u = [t EXCEPT !.focus = Survivor(t, l), !.max = IF @ = l THEN NoPane ELSE @]
      BY <2>1, <2>2, <2>4 DEF Refocused
    <3> QED BY <1>4, <1>6, <3>1 DEF CollapseFrom
  <2>7. CollapseNext(r) = [tree |-> u, replaced |-> replaced, view |-> Beside(t, l), todo |-> S \ {l}]
    BY <1>3, <2>6
  <2>8. StepsTo(r, n, u, replaced, Beside(t, l), l)
    BY <1>2, <1>4, <1>6, <2>5, <2>7 DEF StepsTo
  <2> QED BY <2>8
<1>7. CASE /\ ~(Leaves(t) = {l} \/ ~IsPrefix(view, t.at[l]))
           /\ ~(replaced /\ Parent(t, l) = view)
  <2>1. PICK u : u = Collapse(t, l)
    OBVIOUS
  <2>2. GoodTree(u, n) /\ Leaves(u) = Leaves(t) \ {l} /\ Housed(u) = Housed(t) /\ \A k \in Leaves(u) : u.tabs[k] = t.tabs[k]
    BY <1>2, <1>7, <2>1, Collapses
  <2>3. CollapseFrom(r, l) = [r EXCEPT !.tree = u, !.replaced = @ \/ Parent(t, l) = <<>>]
    BY <1>4, <1>7, <2>1 DEF CollapseFrom
  <2>4. CollapseNext(r) = [tree |-> u, replaced |-> (replaced \/ Parent(t, l) = <<>>), view |-> view, todo |-> S \ {l}]
    BY <1>3, <2>3
  <2>5. StepsTo(r, n, u, (replaced \/ Parent(t, l) = <<>>), view, l)
    BY <1>2, <1>4, <2>2, <2>4 DEF StepsTo
  <2> QED BY <2>5
<1> QED BY <1>5, <1>6, <1>7

\* Is F the table of the walk?
WalkTable(F, t, S, n) ==
  F = [i \in 0..n |-> IF i = 0 THEN [tree |-> t, replaced |-> FALSE, view |-> <<>>, todo |-> S]
                      ELSE CollapseNext(F[i - 1])]

\* The table of the walk's states.
LEMMA WalkTableExists ==
  ASSUME NEW t, NEW S, NEW n \in Nat
  PROVE  \E F : WalkTable(F, t, S, n)
<1> DEFINE T == {m \in Nat : ~\E F : WalkTable(F, t, S, m)}
           start == [tree |-> t, replaced |-> FALSE, view |-> <<>>, todo |-> S]
<1> HIDE DEF start
<1> SUFFICES ASSUME T # {} PROVE FALSE
  OBVIOUS
<1>1. PICK m \in T : \A k \in T : m <= k
  BY LeastNumber
<1>2. CASE m = 0
  <2>1. PICK F : F = [i \in 0..0 |-> start]
    OBVIOUS
  <2>2. F = [i \in 0..0 |-> IF i = 0 THEN start ELSE CollapseNext(F[i - 1])]
    BY <2>1
  <2> QED BY <1>2, <2>2 DEF WalkTable, start
<1>3. CASE m # 0
  <2>1. m - 1 \in Nat /\ m - 1 \notin T
    BY <1>1, <1>3
  <2>2. PICK F : WalkTable(F, t, S, m - 1)
    BY <2>1
  <2>3. PICK G : G = [i \in 0..m |-> IF i < m THEN F[i] ELSE CollapseNext(F[m - 1])]
    OBVIOUS
  <2>4. \A i \in 0..m : G[i] = IF i = 0 THEN start ELSE CollapseNext(G[i - 1])
    <3> SUFFICES ASSUME NEW i \in 0..m
                 PROVE G[i] = IF i = 0 THEN start ELSE CollapseNext(G[i - 1])
      OBVIOUS
    <3>1. CASE i = m
      BY <1>3, <2>1, <2>3, <3>1
    <3>2. CASE i < m
      <4>1. i \in 0..m - 1 /\ G[i] = F[i] /\ (i # 0 => G[i - 1] = F[i - 1])
        BY <2>1, <2>3, <3>2
      <4>2. F[i] = IF i = 0 THEN start ELSE CollapseNext(F[i - 1])
        BY <2>2, <4>1 DEF WalkTable, start
      <4> QED BY <4>1, <4>2
    <3> QED BY <3>1, <3>2
  <2>5. WalkTable(G, t, S, m)
    <3>1. G = [i \in 0..m |-> IF i = 0 THEN start ELSE CollapseNext(G[i - 1])]
      BY <2>3, <2>4
    <3> QED BY <3>1 DEF WalkTable, start
  <2> QED BY <2>5
<1> QED BY <1>2, <1>3

WalkedTo(r, n, t, S, N, i, u, replaced, view, todo) ==
  /\ r = [tree |-> u, replaced |-> replaced, view |-> view, todo |-> todo]
  /\ GoodTree(u, n) /\ Leaves(u) \subseteq Leaves(t) /\ Housed(u) = Housed(t)
  /\ \A k \in Leaves(u) : u.tabs[k] = t.tabs[k]
  /\ todo \subseteq S /\ todo \subseteq Leaves(u) /\ IsFiniteSet(todo) /\ Cardinality(todo) = N - i
  /\ i = 0 => u = t /\ replaced = FALSE /\ view = <<>> /\ todo = S
  /\ i # 0 => (\E l \in S : l \notin Leaves(u) \/ Leaves(t) = {l})

\* The walk: emptied panes go, the first of them for certain if there are others.
LEMMA Walks ==
  ASSUME NEW n \in Nat, NEW t, GoodTree(t, n), NEW S \in SUBSET Leaves(t), \A l \in S : t.tabs[l] = <<>>,
         NEW r, r = CollapseEmptied(t, S)
  PROVE  /\ GoodTree(r.tree, n) /\ Leaves(r.tree) \subseteq Leaves(t)
         /\ \A k \in Leaves(r.tree) : r.tree.tabs[k] = t.tabs[k]
         /\ Housed(r.tree) = Housed(t)
         /\ S # {} => (\E l \in S : l \notin Leaves(r.tree) \/ Leaves(t) = {l})
<1>1. IsFiniteSet(S) /\ Cardinality(S) \in Nat
  <2>1. IsFiniteSet(1..n)
    BY FS_Interval
  <2>2. S \subseteq 1..n
    BY TreeIs
  <2> QED BY <2>1, <2>2, FS_Subset, FS_CardinalityType
<1>2. PICK N \in Nat : N = Cardinality(S)
  BY <1>1
<1>3. PICK F : WalkTable(F, t, S, N) /\ r = F[N]
  <2> DEFINE K == CHOOSE F : WalkTable(F, t, S, Cardinality(S))
  <2>1. r = K[Cardinality(S)]
    BY Zenon DEF CollapseEmptied, WalkTable
  <2>2. WalkTable(K, t, S, Cardinality(S))
    BY <1>1, WalkTableExists, Zenon
  <2> HIDE DEF K
  <2> QED BY <1>2, <2>1, <2>2
<1> DEFINE Fine(i) == \E u, replaced, view, todo : WalkedTo(F[i], n, t, S, N, i, u, replaced, view, todo)
<1>4. /\ F[0] = [tree |-> t, replaced |-> FALSE, view |-> <<>>, todo |-> S]
      /\ \A i \in 1..N : F[i] = CollapseNext(F[i - 1])
  <2>1. \A i \in 0..N : F[i] = IF i = 0 THEN [tree |-> t, replaced |-> FALSE, view |-> <<>>, todo |-> S]
                               ELSE CollapseNext(F[i - 1])
    BY <1>3 DEF WalkTable
  <2>2. 0 \in 0..N /\ \A i \in 1..N : i \in 0..N /\ i # 0
    OBVIOUS
  <2> QED BY <2>1, <2>2
<1>5. Fine(0)
  <2>1. WalkedTo(F[0], n, t, S, N, 0, t, FALSE, <<>>, S)
    BY <1>1, <1>2, <1>4 DEF WalkedTo
  <2> QED BY <2>1
<1>6. ASSUME NEW i \in 1..N, Fine(i - 1) PROVE Fine(i)
  <2>1. PICK u, replaced, view, todo : WalkedTo(F[i - 1], n, t, S, N, i - 1, u, replaced, view, todo)
    BY <1>6
  <2>same. /\ F[i - 1] = [tree |-> u, replaced |-> replaced, view |-> view, todo |-> todo]
           /\ GoodTree(u, n) /\ Leaves(u) \subseteq Leaves(t) /\ Housed(u) = Housed(t)
           /\ \A k \in Leaves(u) : u.tabs[k] = t.tabs[k]
           /\ todo \subseteq S /\ todo \subseteq Leaves(u) /\ IsFiniteSet(todo) /\ Cardinality(todo) = N - (i - 1)
           /\ i - 1 = 0 => u = t /\ replaced = FALSE /\ view = <<>> /\ todo = S
           /\ i - 1 # 0 => (\E l \in S : l \notin Leaves(u) \/ Leaves(t) = {l})
    BY <2>1 DEF WalkedTo
  <2>2. todo # {} /\ todo \in SUBSET Leaves(u) /\ \A l \in todo : u.tabs[l] = <<>>
    <3>1. Cardinality(todo) # 0
      BY <2>same
    <3> QED BY <2>same, <3>1, FS_EmptySet
  <2>3. PICK v, replaced2, view2, l : StepsTo(F[i - 1], n, v, replaced2, view2, l)
    BY <2>same, <2>2, CollapseStep
  <2>step. /\ CollapseNext(F[i - 1]) = [tree |-> v, replaced |-> replaced2, view |-> view2, todo |-> todo \ {l}]
           /\ GoodTree(v, n) /\ l \in todo /\ Leaves(u) \ {l} \subseteq Leaves(v) /\ Leaves(v) \subseteq Leaves(u)
           /\ \A k \in Leaves(v) : v.tabs[k] = u.tabs[k]
           /\ Housed(v) = Housed(u)
           /\ replaced = FALSE /\ view = <<>> /\ Leaves(u) # {l} => l \notin Leaves(v)
    <3>1. F[i - 1].tree = u /\ F[i - 1].replaced = replaced /\ F[i - 1].view = view /\ F[i - 1].todo = todo
      BY <2>same
    <3> QED BY <2>3, <3>1 DEF StepsTo
  <2>4. F[i] = [tree |-> v, replaced |-> replaced2, view |-> view2, todo |-> todo \ {l}]
    BY <1>4, <2>step
  <2>5. Leaves(v) \subseteq Leaves(t) /\ Housed(v) = Housed(t) /\ \A k \in Leaves(v) : v.tabs[k] = t.tabs[k]
    BY <2>same, <2>step
  <2>6. todo \ {l} \subseteq S /\ todo \ {l} \subseteq Leaves(v)
    BY <2>same, <2>step
  <2>7. IsFiniteSet(todo \ {l}) /\ Cardinality(todo \ {l}) = N - i
    <3>1. IsFiniteSet(todo \ {l}) /\ Cardinality(todo \ {l}) = Cardinality(todo) - 1
      BY <2>same, <2>step, FS_RemoveElement
    <3> QED BY <2>same, <3>1
  <2>8. \E h \in S : h \notin Leaves(v) \/ Leaves(t) = {h}
    <3>1. CASE i - 1 = 0
      BY <2>same, <2>step, <3>1
    <3>2. CASE i - 1 # 0
      BY <2>same, <2>step, <3>2
    <3> QED BY <3>1, <3>2
  <2>9. i # 0
    OBVIOUS
  <2>10. WalkedTo(F[i], n, t, S, N, i, v, replaced2, view2, todo \ {l})
    BY <2>step, <2>4, <2>5, <2>6, <2>7, <2>8, <2>9 DEF WalkedTo
  <2> QED BY <2>10
<1>7. \A i \in 0..N : Fine(i)
  <2> DEFINE T == {i \in 0..N : ~Fine(i)}
  <2> HIDE DEF Fine
  <2> SUFFICES ASSUME T # {} PROVE FALSE
    OBVIOUS
  <2>1. T \subseteq Nat
    OBVIOUS
  <2>2. PICK i \in T : \A k \in T : i <= k
    BY <2>1, LeastNumber
  <2>3. i # 0
    BY <1>5, <2>2
  <2>4. i \in 1..N /\ i - 1 \in 0..N /\ i - 1 \notin T
    BY <2>2, <2>3
  <2> QED BY <1>6, <2>2, <2>4
<1>8. Fine(N)
  <2> HIDE DEF Fine
  <2> QED BY <1>7
<1>9. S # {} => N # 0
  BY <1>1, <1>2, FS_EmptySet
<1>10. PICK u, replaced, view, todo : WalkedTo(r, n, t, S, N, N, u, replaced, view, todo)
  BY <1>3, <1>8
<1>11. r.tree = u
  BY <1>10 DEF WalkedTo
<1> QED BY <1>9, <1>10, <1>11 DEF WalkedTo

\* Other tabs are pointed to.
Reshown(t, active, focus) == [t EXCEPT !.active = active, !.focus = focus]

\* Other pointers and another focus change no list.
LEMMA Reshow ==
  ASSUME NEW n \in Nat, NEW t, GoodTree(t, n), NEW active \in [Leaves(t) -> Tabs \cup {NoTab}],
         NEW focus, {focus} \subseteq 0..n, NEW u, u = Reshown(t, active, focus)
  PROVE  /\ GoodTree(u, n) /\ u.at = t.at /\ Leaves(u) = Leaves(t) /\ u.tabs = t.tabs /\ u.active = active
         /\ Housed(u) = Housed(t) /\ u.focus = focus /\ u.max = t.max
<1>1. t.at \in [Leaves(t) -> Paths] /\ t.tabs \in [Leaves(t) -> Seq(Tabs)] /\ t.max \in 0..n
  BY TreeIs
<1>2. u = [at |-> t.at, tabs |-> t.tabs, active |-> active, focus |-> focus, max |-> t.max]
  <2>1. t = [at |-> t.at, tabs |-> t.tabs, active |-> t.active, focus |-> t.focus, max |-> t.max]
    BY TreeIs
  <2> QED BY <2>1 DEF Reshown
<1>3. /\ u \in TreeType(Leaves(t), n) /\ u.at = t.at /\ u.tabs = t.tabs /\ u.active = active
      /\ u.focus = focus /\ u.max = t.max
  BY <1>1, <1>2 DEF TreeType
<1>4. GoodTree(u, n) /\ Leaves(u) = Leaves(t)
  <2>1. Tidy(u.tabs)
    BY <1>3 DEF GoodTree
  <2> QED BY <1>3, <2>1, Refit
<1>5. Housed(u) = Housed(t)
  BY <1>3, <1>4, HousedSame
<1> QED BY <1>3, <1>4, <1>5

\* A pane comes to show a tab.
PointedAt(t, l, tab, focus) == [t EXCEPT !.active[l] = tab, !.focus = focus]

\* A pane is shown another tab.
LEMMA Points ==
  ASSUME NEW n \in Nat, NEW t, GoodTree(t, n), NEW l \in Leaves(t), NEW tab \in Tabs \cup {NoTab},
         NEW focus, {focus} \subseteq 0..n, NEW u, u = PointedAt(t, l, tab, focus)
  PROVE  GoodTree(u, n) /\ u.at = t.at /\ Leaves(u) = Leaves(t) /\ u.tabs = t.tabs /\ Housed(u) = Housed(t)
<1>1. PICK active : active = [t.active EXCEPT ![l] = tab]
  OBVIOUS
<1>2. active \in [Leaves(t) -> Tabs \cup {NoTab}]
  BY <1>1, TreeIs
<1>3. u = Reshown(t, active, focus)
  <2>1. t = [at |-> t.at, tabs |-> t.tabs, active |-> t.active, focus |-> t.focus, max |-> t.max]
    BY TreeIs
  <2> QED BY <1>1, <2>1 DEF Reshown, PointedAt
<1> QED BY <1>2, <1>3, Reshow

\* The first tab of a list, if it has one.
LEMMA FirstTabIs ==
  ASSUME NEW q \in Seq(Tabs)
  PROVE  FirstTab(q) \in Tabs \cup {NoTab} /\ (q # <<>> => FirstTab(q) \in ToSet(q))
BY ListIs DEF FirstTab

\* Following the route changes no list (FollowRoute).
LEMMA Follows ==
  ASSUME NEW n \in Nat, NEW r, GoodTree(r.tree, n), NEW listed \in Seq(Panels), NEW to, NEW touched,
         NEW u, u = FollowRoute(r, listed, to, touched)
  PROVE  /\ GoodTree(u, n) /\ u.at = r.tree.at /\ Leaves(u) = Leaves(r.tree) /\ u.tabs = r.tree.tabs
         /\ Housed(u) = Housed(r.tree)
<1>1. PICK t : t = r.tree
  OBVIOUS
<1>2. PICK owner : owner = Home(t, to)
  OBVIOUS
<1>3. GoodTree(t, n)
  BY <1>1
<1>4. CASE u = t
  BY <1>1, <1>3, <1>4
<1>5. CASE u # t
  <2>1. PICK focus : focus = IF r.replaced THEN t.focus ELSE owner
    OBVIOUS
  <2>2. /\ to \in ToSet(listed) /\ owner # NoPane
        /\ u = [t EXCEPT !.active[owner] = to, !.focus = IF r.replaced THEN @ ELSE owner]
    BY <1>1, <1>2, <1>5, Zenon DEF FollowRoute
  <2>3. u = PointedAt(t, owner, to, focus)
    BY <2>1, <2>2 DEF PointedAt
  <2>4. owner \in Leaves(t)
    BY <1>2, <1>3, <2>2, HomeIs
  <2>5. {focus} \subseteq 0..n
    BY <1>3, <2>1, <2>4, PaneNumber
  <2>6. to \in Tabs \cup {NoTab}
    BY <2>2, ListIs, TabsAre
  <2>7. GoodTree(u, n) /\ u.at = t.at /\ Leaves(u) = Leaves(t) /\ u.tabs = t.tabs /\ Housed(u) = Housed(t)
    <3>1. PICK tab \in Tabs \cup {NoTab} : tab = to
      BY <2>6
    <3>2. u = PointedAt(t, owner, tab, focus)
      BY <2>3, <3>1
    <3> QED BY <1>3, <2>4, <2>5, <3>2, Points
  <2> QED BY <1>1, <2>7
<1> QED BY <1>4, <1>5

\* Healing the pointers changes no list (Heal).
LEMMA Heals ==
  ASSUME NEW n \in Nat, NEW t, GoodTree(t, n), NEW listed, NEW view, NEW u, u = Heal(t, listed, view)
  PROVE  GoodTree(u, n) /\ u.at = t.at /\ Leaves(u) = Leaves(t) /\ u.tabs = t.tabs /\ Housed(u) = Housed(t)
<1> DEFINE healed(l) == LET shown == Kept(t.tabs[l], listed)
                        IN  IF shown # <<>> THEN Head(shown) ELSE FirstTab(t.tabs[l])
<1>1. PICK active : active = [l \in Leaves(t) |->
         IF Contains(t.tabs[l], t.active[l]) \/ ~IsPrefix(view, t.at[l]) THEN t.active[l] ELSE healed(l)]
  OBVIOUS
<1>2. ASSUME NEW l \in Leaves(t) PROVE healed(l) \in Tabs \cup {NoTab}
  <2>1. PICK q \in Seq(Tabs) : q = t.tabs[l] /\ IsInjective(q)
    BY TreeIs
  <2>2. PICK shown \in Seq(Tabs) : shown = Kept(q, listed)
    BY <2>1, KeptIs
  <2>3. shown # <<>> => Head(shown) \in Tabs
    BY <2>2, ListIs
  <2>4. FirstTab(q) \in Tabs \cup {NoTab}
    BY FirstTabIs
  <2> QED BY <2>1, <2>2, <2>3, <2>4
<1> HIDE DEF healed
<1>3. \A l \in Leaves(t) : t.active[l] \in Tabs \cup {NoTab}
  BY TreeIs
<1>4. active \in [Leaves(t) -> Tabs \cup {NoTab}]
  BY <1>1, <1>2, <1>3
<1>5. u = Reshown(t, active, t.focus)
  <2>1. t = [at |-> t.at, tabs |-> t.tabs, active |-> t.active, focus |-> t.focus, max |-> t.max]
    BY TreeIs
  <2>2. u = [t EXCEPT !.active = active]
    BY <1>1, Zenon DEF Heal, healed
  <2> QED BY <2>1, <2>2 DEF Reshown
<1>6. {t.focus} \subseteq 0..n
  BY TreeIs
<1> QED BY <1>4, <1>5, <1>6, Reshow

\* A sync: what is listed has a home, the page's own tabs stay, and a pane that
\* loses its last tab goes, or another does.
SyncedTo(t, n, listed, s) ==
  /\ GoodTree(s, n) /\ SeedAlone(Housed(s)) /\ Leaves(s) \subseteq Leaves(t)
  /\ ToSet(listed) \subseteq Housed(s) /\ Housed(s) \cap Files = Housed(t) \cap Files
  /\ \/ \E l \in Leaves(t) \ Leaves(s) : t.tabs[l] # <<>>
     \/ \A l \in Leaves(s) : t.tabs[l] # <<>> /\ s.tabs[l] = <<>> => Leaves(s) = {l}

\* A whole sync, from a tree to the one that is shown (SyncTabs).
LEMMA Syncs ==
  ASSUME NEW n \in Nat, NEW t, GoodTree(t, n), SeedAlone(Housed(t)),
         NEW listed \in Seq(Panels), IsInjective(listed), NEW to, NEW touched,
         NEW s, s = SyncTabs(t, listed, to, touched)
  PROVE  SyncedTo(t, n, listed, s)
<1>1. PICK target : target = SyncTarget(t, listed, nextPane)
  OBVIOUS
<1>2. target \in Leaves(t)
  BY <1>1, SyncTargetIn
<1>3. PICK seated : seated = Seat(t, listed, target)
  OBVIOUS
<1>4. /\ GoodTree(seated, n) /\ Leaves(seated) = Leaves(t)
      /\ Housed(seated) \ {Seed} = (Housed(t) \ {Seed}) \cup ToSet(listed)
      /\ listed = <<>> => Housed(seated) = Housed(t)
      /\ \A l \in Leaves(t) : /\ t.tabs[l] = <<>> => ToSet(seated.tabs[l]) \subseteq ToSet(listed)
                              /\ t.tabs[l] # <<>> => seated.tabs[l] # <<>>
  BY <1>2, <1>3, Seats
<1>5. PICK pruned : pruned = Prune(seated, listed)
  OBVIOUS
<1>6. /\ GoodTree(pruned, n) /\ Leaves(pruned) = Leaves(t)
      /\ \A l \in Leaves(t) : pruned.tabs[l] = Kept(seated.tabs[l], listed)
      /\ Housed(pruned) = Housed(seated) \ Gone(listed)
  BY <1>4, <1>5, Prunes
<1>7. PICK S : S = Emptied(seated, listed)
  OBVIOUS
<1>8. /\ S \in SUBSET Leaves(pruned) /\ \A l \in S : pruned.tabs[l] = <<>>
      /\ \A l \in Leaves(t) \ S : seated.tabs[l] # <<>> => pruned.tabs[l] # <<>>
  BY <1>4, <1>6, <1>7 DEF Emptied
<1>9. PICK r : r = CollapseEmptied(pruned, S)
  OBVIOUS
<1>10. /\ GoodTree(r.tree, n) /\ Leaves(r.tree) \subseteq Leaves(t)
       /\ \A k \in Leaves(r.tree) : r.tree.tabs[k] = pruned.tabs[k]
       /\ Housed(r.tree) = Housed(pruned)
       /\ S # {} => (\E l \in S : l \notin Leaves(r.tree) \/ Leaves(t) = {l})
  BY <1>6, <1>8, <1>9, Walks
<1>11. PICK f : f = FollowRoute(r, listed, to, touched)
  OBVIOUS
<1>12. GoodTree(f, n) /\ Leaves(f) = Leaves(r.tree) /\ f.tabs = r.tree.tabs /\ Housed(f) = Housed(r.tree)
  BY <1>10, <1>11, Follows
<1>13. PICK done : done = Heal(f, listed, r.view)
  OBVIOUS
<1>14. GoodTree(done, n) /\ Leaves(done) = Leaves(r.tree) /\ done.tabs = r.tree.tabs /\ Housed(done) = Housed(r.tree)
  BY <1>12, <1>13, Heals
<1>15. PICK max : max = IF done.max \in Leaves(done) THEN done.max ELSE NoPane
  OBVIOUS
<1>16. s = Refocused(done, done.focus, max)
  <2>1. s = [done EXCEPT !.max = IF @ \in Leaves(done) THEN @ ELSE NoPane]
    BY <1>1, <1>3, <1>5, <1>7, <1>9, <1>11, <1>13 DEF SyncTabs
  <2>2. done = [at |-> done.at, tabs |-> done.tabs, active |-> done.active, focus |-> done.focus, max |-> done.max]
    BY <1>14, TreeIs
  <2> QED BY <1>15, <2>1, <2>2 DEF Refocused
<1>17. {done.focus, max} \subseteq 0..n
  BY <1>14, <1>15, TreeIs DEF NoPane
<1>18. GoodTree(s, n) /\ Leaves(s) = Leaves(r.tree) /\ s.tabs = r.tree.tabs /\ Housed(s) = Housed(r.tree)
  BY <1>14, <1>16, <1>17, Refocus
<1>19. ToSet(listed) \subseteq Panels /\ (listed = <<>> <=> ToSet(listed) = {})
  BY ListIs
<1>20. Housed(s) = Housed(seated) \ Gone(listed)
  BY <1>6, <1>10, <1>18
<1>21. SeedAlone(Housed(s))
  <2>1. CASE listed = <<>>
    BY <1>4, <1>20, <2>1 DEF SeedAlone, Gone
  <2>2. CASE listed # <<>>
    BY <1>19, <1>20, <2>2, TabsAre DEF SeedAlone, Gone
  <2> QED BY <2>1, <2>2
<1>22. ToSet(listed) \subseteq Housed(s)
  BY <1>4, <1>19, <1>20, TabsAre DEF Gone
<1>23. Housed(s) \cap Files = Housed(t) \cap Files
  <2>1. Seed \notin Files /\ Gone(listed) \cap Files = {} /\ ToSet(listed) \cap Files = {}
    BY <1>19, TabsAre DEF Gone
  <2> QED BY <1>4, <1>20, <2>1
\* Only a pane that had tabs is emptied: what has just been seated is listed.
<1>24. ASSUME NEW l \in S PROVE l \in Leaves(t) /\ t.tabs[l] # <<>>
  <2>1. l \in Leaves(t) /\ pruned.tabs[l] = <<>> /\ seated.tabs[l] # <<>>
    BY <1>4, <1>6, <1>7, <1>8 DEF Emptied
  <2>2. PICK q \in Seq(Tabs) : q = seated.tabs[l] /\ IsInjective(q)
    BY <1>4, <2>1, TreeIs
  <2>3. Kept(q, listed) = <<>> /\ ToSet(Kept(q, listed)) = ToSet(q) \ Gone(listed)
    BY <1>6, <2>1, <2>2, KeptIs
  <2>4. ToSet(q) # {} /\ ToSet(<<>>) = {}
    <3>1. ToSet(<<>>) = {}
      BY DEF ToSet
    <3>2. q # <<>>
      BY <2>1, <2>2
    <3> QED BY <3>1, <3>2, ListIs
  <2>5. ~(ToSet(q) \subseteq ToSet(listed))
    BY <2>3, <2>4 DEF Gone
  <2> QED BY <1>4, <2>1, <2>2, <2>5
<1>25. CASE S = {}
  <2>1. \A l \in Leaves(s) : t.tabs[l] # <<>> => s.tabs[l] # <<>>
    BY <1>4, <1>8, <1>10, <1>18, <1>25
  <2> QED BY <1>10, <1>18, <1>21, <1>22, <1>23, <2>1 DEF SyncedTo
<1>26. CASE S # {}
  <2>1. PICK l \in S : l \notin Leaves(s) \/ Leaves(t) = {l}
    BY <1>10, <1>18, <1>26
  <2>2. CASE l \notin Leaves(s)
    BY <1>10, <1>18, <1>21, <1>22, <1>23, <1>24, <2>2 DEF SyncedTo
  <2>3. CASE Leaves(t) = {l}
    <3>1. Leaves(s) = {l}
      BY <1>10, <1>18, <2>3, TreeIs
    <3> QED BY <1>10, <1>18, <1>21, <1>22, <1>23, <3>1 DEF SyncedTo
  <2> QED BY <2>1, <2>2, <2>3
<1> QED BY <1>25, <1>26
-----------------------------------------------------------------------------
(***************************************************************************)
(* The invariant of the panes, and what a render of a changed tree leaves  *)
(* of it.                                                                  *)
(***************************************************************************)
PanesInv ==
  /\ GoodTree(tree, paneIds) /\ paneIds \in 1..MaxPanes /\ Cardinality(Leaves(tree)) <= MaxLeaves
  /\ panels \in Seq(Panels) /\ IsInjective(panels) /\ ToSet(panels) \subseteq Housed(tree)
  /\ Housed(tree) \cap Files = pageTabs /\ SeedAlone(Housed(tree))
  /\ route \in Panels \cup {NoTab, Seed} /\ synced \in Panels \cup {NoTab, Seed, Unsynced}
  /\ nextPane \in 0..paneIds

\* What EmptiedPaneGoes says of a step.
EmptiedGoes ==
  \/ Leaves(tree) \ Leaves(tree') # {}
  \/ ~ \E l \in Leaves(tree) \cap Leaves(tree') : StaysEmpty(l)

\* A tree that an action renders instead of `tree`: new panes are empty, and a
\* pane that has lost its last tab is gone or is the only one.
Renders(u, n) ==
  /\ GoodTree(u, n) /\ SeedAlone(Housed(u)) /\ Cardinality(Leaves(u)) <= MaxLeaves
  /\ \A l \in Leaves(u) : u.tabs[l] # <<>> => l \in Leaves(tree)
  /\ \/ Leaves(tree) \ Leaves(u) # {}
     \/ \A l \in Leaves(u) : l \in Leaves(tree) /\ tree.tabs[l] # <<>> => u.tabs[l] # <<>> \/ Leaves(u) = {l}

\* There are finitely many panes, and at least one.
LEMMA PanesFinite ==
  ASSUME NEW n \in Nat, NEW t, GoodTree(t, n)
  PROVE  IsFiniteSet(Leaves(t)) /\ Cardinality(Leaves(t)) \in Nat /\ Cardinality(Leaves(t)) # 0
<1>1. IsFiniteSet(1..n)
  BY FS_Interval
<1>2. Leaves(t) \subseteq 1..n /\ Leaves(t) # {}
  BY TreeIs
<1> QED BY <1>1, <1>2, FS_Subset, FS_CardinalityType, FS_EmptySet

\* A step that renders a tree of the right kind keeps the invariant.
LEMMA RenderStep ==
  ASSUME PanesInv, NEW u, Renders(u, paneIds'), NEW listed, NEW to, NEW touched, Render(u, listed, to, touched),
         paneIds' \in 1..MaxPanes, panels' = listed, listed \in Seq(Panels), IsInjective(listed),
         pageTabs' = Housed(u) \cap Files,
         route' \in Panels \cup {NoTab, Seed}, to \in Panels \cup {NoTab, Seed}
  PROVE  PanesInv' /\ EmptiedGoes
<1>1. PICK s : s = SyncTabs(u, listed, to, touched) /\ tree' = s /\ synced' = to /\ nextPane' = NoPane
  BY DEF Render
<1>2. PICK n \in 1..MaxPanes : n = paneIds'
  OBVIOUS
<1>3. n \in Nat /\ GoodTree(u, n) /\ SeedAlone(Housed(u))
  <2>1. MaxPanes \in Nat
    BY PanesAssumption
  <2> QED BY <1>2, <2>1 DEF Renders
<1>4. SyncedTo(u, n, listed, s)
  BY <1>1, <1>3, Syncs
<1>5. Cardinality(Leaves(s)) <= MaxLeaves
  <2>1. IsFiniteSet(Leaves(u)) /\ Cardinality(Leaves(u)) \in Nat /\ Cardinality(Leaves(u)) <= MaxLeaves /\ MaxLeaves \in Nat
    BY <1>3, PanesFinite, PanesAssumption DEF Renders
  <2>2. Leaves(s) \subseteq Leaves(u)
    BY <1>4 DEF SyncedTo
  <2>3. Cardinality(Leaves(s)) <= Cardinality(Leaves(u)) /\ IsFiniteSet(Leaves(s))
    BY <2>1, <2>2, FS_Subset
  <2>4. Cardinality(Leaves(s)) \in Nat
    BY <2>3, FS_CardinalityType
  <2> QED BY <2>1, <2>3, <2>4
<1>6. PanesInv'
  <2>1. GoodTree(s, n) /\ ToSet(listed) \subseteq Housed(s) /\ SeedAlone(Housed(s)) /\ Housed(s) \cap Files = Housed(u) \cap Files
    BY <1>4 DEF SyncedTo
  <2>2. (GoodTree(tree, paneIds))' /\ (Cardinality(Leaves(tree)) <= MaxLeaves)' /\ (SeedAlone(Housed(tree)))'
        /\ (ToSet(panels) \subseteq Housed(tree))' /\ (Housed(tree) \cap Files = pageTabs)'
    BY <1>1, <1>2, <1>5, <2>1
  <2>3. synced' \in Panels \cup {NoTab, Seed, Unsynced} /\ nextPane' \in 0..paneIds'
    BY <1>1, <1>2 DEF NoPane
  <2> QED BY <2>2, <2>3 DEF PanesInv
<1>7. EmptiedGoes
  <2>1. Leaves(s) \subseteq Leaves(u) /\ Leaves(s) # {} /\ tree' = s
    BY <1>1, <1>3, <1>4, TreeIs DEF SyncedTo
  <2>2. CASE Leaves(tree) \ Leaves(u) # {}
    BY <2>1, <2>2 DEF EmptiedGoes
  <2>3. CASE \E l \in Leaves(u) \ Leaves(s) : u.tabs[l] # <<>>
    BY <2>1, <2>3 DEF EmptiedGoes, Renders
  <2>4. CASE /\ \A l \in Leaves(u) : l \in Leaves(tree) /\ tree.tabs[l] # <<>> => u.tabs[l] # <<>> \/ Leaves(u) = {l}
             /\ \A l \in Leaves(s) : u.tabs[l] # <<>> /\ s.tabs[l] = <<>> => Leaves(s) = {l}
    <3>1. ASSUME NEW l \in Leaves(tree) \cap Leaves(s), tree.tabs[l] # <<>>, s.tabs[l] = <<>> PROVE Leaves(s) = {l}
      <4>1. u.tabs[l] # <<>> \/ Leaves(u) = {l}
        BY <2>1, <2>4, <3>1
      <4> QED BY <2>1, <2>4, <3>1, <4>1
    <3> QED BY <2>1, <3>1 DEF EmptiedGoes, StaysEmpty
  <2> QED BY <1>4, <2>2, <2>3, <2>4 DEF SyncedTo, Renders
<1> QED BY <1>6, <1>7

\* What an action that changes neither the list nor the route renders.
LEMMA ShowStep ==
  ASSUME PanesInv, NEW u, Renders(u, paneIds'), Show(u), paneIds' \in 1..MaxPanes,
         UNCHANGED panels, route' \in Panels \cup {NoTab, Seed}, pageTabs' = Housed(u) \cap Files
  PROVE  PanesInv' /\ EmptiedGoes
<1>1. PICK to \in Panels \cup {NoTab, Seed} : to = route
  BY DEF PanesInv
<1>2. PICK listed \in Seq(Panels) : listed = panels /\ IsInjective(listed)
  BY DEF PanesInv
<1>3. Render(u, listed, to, FALSE) /\ panels' = listed
  BY <1>1, <1>2 DEF Show
<1> QED BY <1>2, <1>3, RenderStep

\* What the invariant says, as the lemmas below need it.
LEMMA PanesInvIs ==
  ASSUME PanesInv
  PROVE  /\ paneIds \in 1..MaxPanes /\ paneIds \in Nat /\ MaxPanes \in Nat /\ MaxLeaves \in Nat
         /\ GoodTree(tree, paneIds) /\ SeedAlone(Housed(tree)) /\ Housed(tree) \cap Files = pageTabs
         /\ Cardinality(Leaves(tree)) <= MaxLeaves /\ Cardinality(Leaves(tree)) \in Nat
         /\ panels \in Seq(Panels) /\ IsInjective(panels) /\ ToSet(panels) \subseteq Panels
         /\ route \in Panels \cup {NoTab, Seed}
<1>1. MaxPanes \in Nat /\ MaxLeaves \in Nat
  BY PanesAssumption
<1>2. paneIds \in Nat
  BY <1>1 DEF PanesInv
<1>3. Cardinality(Leaves(tree)) \in Nat
  BY <1>2, PanesFinite DEF PanesInv
<1>4. ToSet(panels) \subseteq Panels
  BY ListIs DEF PanesInv
<1> QED BY <1>1, <1>2, <1>3, <1>4 DEF PanesInv

\* The same panes with the same tabs can be rendered.
LEMMA SameRenders ==
  ASSUME PanesInv, NEW u, GoodTree(u, paneIds), Leaves(u) = Leaves(tree), Housed(u) = Housed(tree),
         \A l \in Leaves(tree) : tree.tabs[l] # <<>> => u.tabs[l] # <<>>
  PROVE  Renders(u, paneIds)
<1>1. SeedAlone(Housed(u)) /\ Cardinality(Leaves(u)) <= MaxLeaves
  BY PanesInvIs
<1> QED BY <1>1 DEF Renders

-----------------------------------------------------------------------------
(***************************************************************************)
(* One lemma per action.                                                   *)
(***************************************************************************)
LEMMA RefreshListsStep == ASSUME PanesInv, RefreshLists PROVE PanesInv' /\ EmptiedGoes
<1>0. PICK m \in Nat : panels' \in [1..m -> Panels] /\ \A i, j \in 1..m : i < j => panels'[i] < panels'[j]
  <2>1. \A k \in 0..Cardinality(Panels) : k \in Nat
    BY FS_CardinalityType, PanesAssumption
  <2> QED BY <2>1 DEF RefreshLists, Lists
<1>1. PICK listed \in [1..m -> Panels] : listed = panels' /\ \A i, j \in 1..m : i < j => listed[i] < listed[j]
  BY <1>0
<1>2. listed \in Seq(Panels)
  BY SeqDef
<1>3. IsInjective(listed)
  <2>1. \A i \in 1..m : listed[i] \in Nat
    BY PanesAssumption
  <2>2. DOMAIN listed = 1..m
    OBVIOUS
  <2>3. ASSUME NEW i \in 1..m, NEW j \in 1..m, listed[i] = listed[j] PROVE i = j
    <3>1. ~(i < j) /\ ~(j < i)
      BY <1>1, <2>1, <2>3
    <3> QED BY <3>1
  <2> QED BY <2>2, <2>3 DEF IsInjective
<1>4. PICK to : to = route'
  OBVIOUS
<1>5. to \in Panels \cup {NoTab, Seed}
  <2>1. ToSet(listed) \subseteq Panels
    BY <1>2, ListIs
  <2> QED BY <1>1, <1>4, <2>1 DEF RefreshLists
<1>6. Render(tree, listed, to, FALSE) /\ paneIds' = paneIds /\ pageTabs' = pageTabs
  BY <1>1, <1>4 DEF RefreshLists
<1>7. GoodTree(tree, paneIds) /\ Housed(tree) \cap Files = pageTabs /\ paneIds \in 1..MaxPanes
  BY PanesInvIs
<1>8. PICK t : t = tree
  OBVIOUS
<1>9. Renders(t, paneIds') /\ Render(t, listed, to, FALSE)
  BY <1>6, <1>7, <1>8, SameRenders
<1> QED BY <1>1, <1>2, <1>3, <1>4, <1>5, <1>6, <1>7, <1>8, <1>9, RenderStep

\* A record of the right fields is a tree's.
LEMMA TreeTyped ==
  ASSUME NEW D, NEW n, NEW at \in [D -> Paths], NEW tabs \in [D -> Seq(Tabs)],
         NEW active \in [D -> Tabs \cup {NoTab}], NEW focus, NEW max, {focus, max} \subseteq 0..n
  PROVE  [at |-> at, tabs |-> tabs, active |-> active, focus |-> focus, max |-> max] \in TreeType(D, n)
BY DEF TreeType

\* A pane is split: the new one is empty.
LEMMA Splits ==
  ASSUME NEW n \in Nat, NEW t, GoodTree(t, n), NEW l \in Leaves(t), NEW new, new = n + 1, NEW u,
         u = [at     |-> With([t.at EXCEPT ![l] = Append(@, 0)], new, Append(t.at[l], 1)),
              tabs   |-> With(t.tabs, new, <<>>),
              active |-> With(t.active, new, NoTab),
              focus  |-> new, max |-> NoPane]
  PROVE  /\ GoodTree(u, new) /\ Leaves(u) = Leaves(t) \cup {new} /\ new \notin Leaves(t)
         /\ \A k \in Leaves(t) : u.tabs[k] = t.tabs[k]
         /\ u.tabs[new] = <<>> /\ Housed(u) = Housed(t)
<1>1. IsTree(t.at, n)
  BY DEF GoodTree
<1>2. PICK at : at = SplitAt(t.at, l, new)
  OBVIOUS
<1>3. IsTree(at, new) /\ DOMAIN at = Leaves(t) \cup {new}
  <2>1. l \in DOMAIN t.at
    BY TreeIs
  <2>2. IsTree(at, new)
    BY <1>1, <1>2, <2>1, SplitTree
  <2>3. DOMAIN at = Leaves(t) \cup {new}
    BY <1>2, TreeIs DEF SplitAt
  <2> QED BY <2>2, <2>3
<1>4. new \notin Leaves(t)
  BY TreeIs
<1>5. With([t.at EXCEPT ![l] = Append(@, 0)], new, Append(t.at[l], 1)) = at
  <2>1. DOMAIN t.at = Leaves(t) /\ t.at \in [Leaves(t) -> Paths]
    BY TreeIs
  <2>2. PICK f : f = [t.at EXCEPT ![l] = Append(@, 0)]
    OBVIOUS
  <2>3. DOMAIN f = Leaves(t) /\ \A k \in Leaves(t) : f[k] = IF k = l THEN Append(t.at[l], 0) ELSE t.at[k]
    BY <2>1, <2>2
  <2>4. With(f, new, Append(t.at[l], 1)) = at
    BY <1>2, <1>4, <2>1, <2>3 DEF With, SplitAt
  <2> QED BY <2>2, <2>4
<1>6. PICK tabs : tabs = With(t.tabs, new, <<>>)
  OBVIOUS
<1>7. PICK active : active = With(t.active, new, NoTab)
  OBVIOUS
<1>8. u = [at |-> at, tabs |-> tabs, active |-> active, focus |-> new, max |-> NoPane]
  BY <1>5, <1>6, <1>7
<1>9. /\ u.at = at /\ u.tabs = tabs /\ u.active = active /\ Leaves(u) = Leaves(t) \cup {new}
  BY <1>3, <1>8 DEF Leaves
<1>10. /\ t.tabs \in [Leaves(t) -> Seq(Tabs)] /\ t.active \in [Leaves(t) -> Tabs \cup {NoTab}]
       /\ \A k \in Leaves(t) : IsInjective(t.tabs[k])
       /\ \A k, h \in Leaves(t) : k # h => ToSet(t.tabs[k]) \cap ToSet(t.tabs[h]) = {}
  BY TreeIs
<1>11. /\ DOMAIN tabs = Leaves(t) \cup {new} /\ tabs[new] = <<>> /\ \A k \in Leaves(t) : tabs[k] = t.tabs[k]
       /\ tabs \in [Leaves(t) \cup {new} -> Seq(Tabs)]
  <2>1. <<>> \in Seq(Tabs)
    BY EmptySeq
  <2>2. DOMAIN t.tabs = Leaves(t)
    BY <1>10
  <2> QED BY <1>4, <1>6, <1>10, <2>1, <2>2 DEF With
<1>12. active \in [Leaves(t) \cup {new} -> Tabs \cup {NoTab}]
  <2>1. DOMAIN t.active = Leaves(t)
    BY <1>10
  <2> QED BY <1>4, <1>7, <1>10, <2>1 DEF With
<1>13. IsInjective(tabs[new]) /\ ToSet(tabs[new]) = {}
  BY <1>11 DEF IsInjective, ToSet
<1>14. Tidy(tabs)
  <2>1. \A k \in Leaves(t) \cup {new} : IsInjective(tabs[k])
    BY <1>10, <1>11, <1>13
  <2>2. ASSUME NEW k \in Leaves(t) \cup {new}, NEW h \in Leaves(t) \cup {new}, k # h
        PROVE  ToSet(tabs[k]) \cap ToSet(tabs[h]) = {}
    <3>1. CASE k = new \/ h = new
      BY <1>13, <3>1
    <3>2. CASE k \in Leaves(t) /\ h \in Leaves(t)
      BY <1>10, <1>11, <2>2, <3>2
    <3> QED BY <3>1, <3>2
  <2> QED BY <1>11, <2>1, <2>2 DEF Tidy
<1>15. u \in TreeType(Leaves(u), new)
  <2>1. at \in [Leaves(t) \cup {new} -> Paths]
    BY <1>2, <1>3 DEF IsTree, SplitAt
  <2>2. {new, NoPane} \subseteq 0..new
    BY DEF NoPane
  <2>3. PICK D : D = Leaves(t) \cup {new}
    OBVIOUS
  <2>4. at \in [D -> Paths] /\ tabs \in [D -> Seq(Tabs)] /\ active \in [D -> Tabs \cup {NoTab}]
    BY <1>11, <1>12, <2>1, <2>3
  <2>5. u \in TreeType(D, new)
    <3>1. [at |-> at, tabs |-> tabs, active |-> active, focus |-> new, max |-> NoPane] \in TreeType(D, new)
      BY <2>2, <2>4, TreeTyped
    <3> QED BY <1>8, <3>1
  <2> QED BY <1>9, <2>3, <2>5
<1>16. GoodTree(u, new)
  BY <1>3, <1>9, <1>14, <1>15 DEF GoodTree
<1>17. Housed(u) = Housed(t)
  <2>1. \A x : x \in Housed(u) <=> \E k \in Leaves(t) \cup {new} : x \in ToSet(tabs[k])
    BY <1>9 DEF Housed
  <2>2. \A x : x \in Housed(t) <=> \E k \in Leaves(t) : x \in ToSet(t.tabs[k])
    BY DEF Housed
  <2> QED BY <1>11, <1>13, <2>1, <2>2
<1> QED BY <1>4, <1>9, <1>11, <1>16, <1>17

\* splitPaneFor
LEMMA SplitPaneStep == ASSUME PanesInv, NEW l \in Leaves(tree), SplitPane(l) PROVE PanesInv' /\ EmptiedGoes
<1>1. PICK n \in Nat : n = paneIds /\ n + 1 \in 1..MaxPanes
  BY PanesInvIs DEF SplitPane
<1>2. PICK new : new = n + 1 /\ paneIds' = new
  BY <1>1 DEF SplitPane
<1>3. PICK u : u = [at     |-> With([tree.at EXCEPT ![l] = Append(@, 0)], new, Append(tree.at[l], 1)),
                    tabs   |-> With(tree.tabs, new, <<>>),
                    active |-> With(tree.active, new, NoTab),
                    focus  |-> new, max |-> NoPane]
  OBVIOUS
<1>4. PICK t : t = tree /\ GoodTree(t, n)
  BY <1>1, PanesInvIs
<1>5. /\ GoodTree(u, new) /\ Leaves(u) = Leaves(t) \cup {new} /\ new \notin Leaves(t)
      /\ \A k \in Leaves(t) : u.tabs[k] = t.tabs[k]
      /\ u.tabs[new] = <<>> /\ Housed(u) = Housed(t)
  BY <1>2, <1>3, <1>4, Splits
<1>6. Cardinality(Leaves(u)) <= MaxLeaves
  <2>1. IsFiniteSet(Leaves(t)) /\ Cardinality(Leaves(t)) \in Nat
    BY <1>4, PanesFinite
  <2>2. Cardinality(Leaves(u)) = Cardinality(Leaves(t)) + 1
    BY <1>5, <2>1, FS_AddElement
  <2>3. Cardinality(Leaves(t)) < MaxLeaves /\ MaxLeaves \in Nat
    BY <1>4, PanesInvIs DEF SplitPane
  <2> QED BY <2>1, <2>2, <2>3
<1>7. SeedAlone(Housed(u)) /\ Housed(u) \cap Files = pageTabs
  BY <1>4, <1>5, PanesInvIs
<1>8. Renders(u, paneIds')
  <2>1. \A k \in Leaves(u) : u.tabs[k] # <<>> => k \in Leaves(t)
    BY <1>5
  <2>2. \A k \in Leaves(u) : k \in Leaves(t) /\ t.tabs[k] # <<>> => u.tabs[k] # <<>>
    BY <1>5
  <2> QED BY <1>2, <1>4, <1>5, <1>6, <1>7, <2>1, <2>2 DEF Renders
<1>9. /\ Show(u) /\ UNCHANGED <<panels, route, pageTabs>>
  BY <1>2, <1>3 DEF SplitPane
<1>10. paneIds' \in 1..MaxPanes /\ route' \in Panels \cup {NoTab, Seed} /\ pageTabs' = Housed(u) \cap Files
  BY <1>1, <1>2, <1>7, <1>9, PanesInvIs
<1> QED BY <1>8, <1>9, <1>10, ShowStep

\* Another pane in focus, or the view of one.
LEMMA RefocusStep ==
  ASSUME PanesInv, NEW focus, NEW max, {focus, max} \subseteq 0..paneIds, NEW u, u = Refocused(tree, focus, max),
         Show(u), UNCHANGED <<paneIds, panels, pageTabs>>, route' \in Panels \cup {NoTab, Seed}
  PROVE  PanesInv' /\ EmptiedGoes
<1>1. PICK n \in Nat : n = paneIds
  BY PanesInvIs
<1>2. PICK t : t = tree /\ GoodTree(t, n)
  BY <1>1, PanesInvIs
<1>3. GoodTree(u, n) /\ Leaves(u) = Leaves(t) /\ u.tabs = t.tabs /\ Housed(u) = Housed(t)
  BY <1>1, <1>2, Refocus
<1>4. Renders(u, paneIds')
  BY <1>1, <1>2, <1>3, SameRenders
<1>5. paneIds' \in 1..MaxPanes /\ pageTabs' = Housed(u) \cap Files
  BY <1>2, <1>3, PanesInvIs
<1> QED BY <1>4, <1>5, ShowStep

\* splitPaneFor, which flips a split
LEMMA FlipSplitStep == ASSUME PanesInv, NEW l \in Leaves(tree), FlipSplit(l) PROVE PanesInv' /\ EmptiedGoes
<1>1. {l, NoPane} \subseteq 0..paneIds
  BY PanesInvIs, PaneNumber
<1>2. PICK u : u = Refocused(tree, l, NoPane)
  OBVIOUS
<1>3. Show(u) /\ UNCHANGED <<paneIds, panels, route, pageTabs>>
  BY <1>2 DEF FlipSplit, Refocused
<1>4. route' \in Panels \cup {NoTab, Seed}
  BY <1>3, PanesInvIs
<1> QED BY <1>1, <1>2, <1>3, <1>4, RefocusStep

\* maximizePaneFor
LEMMA MaximizePaneStep == ASSUME PanesInv, NEW l \in Leaves(tree), MaximizePane(l) PROVE PanesInv' /\ EmptiedGoes
<1>1. {l, NoPane} \subseteq 0..paneIds
  BY PanesInvIs, PaneNumber
<1>2. PICK max : max = IF tree.max = l THEN NoPane ELSE l
  OBVIOUS
<1>3. PICK u : u = Refocused(tree, l, max)
  OBVIOUS
<1>4. u = [tree EXCEPT !.max = IF @ = l THEN NoPane ELSE l, !.focus = l]
  <2>1. PICK n \in Nat : GoodTree(tree, n)
    BY PanesInvIs
  <2>2. tree = [at |-> tree.at, tabs |-> tree.tabs, active |-> tree.active, focus |-> tree.focus, max |-> tree.max]
    BY <2>1, TreeIs
  <2> QED BY <1>2, <1>3, <2>2 DEF Refocused
<1>5. Show(u) /\ UNCHANGED <<paneIds, panels, route, pageTabs>>
  BY <1>4 DEF MaximizePane
<1>6. route' \in Panels \cup {NoTab, Seed} /\ {l, max} \subseteq 0..paneIds
  BY <1>1, <1>2, <1>5, PanesInvIs
<1> QED BY <1>3, <1>5, <1>6, RefocusStep

\* newTabForPane
LEMMA NewTabForStep == ASSUME PanesInv, NEW l \in Leaves(tree), NewTabFor(l) PROVE PanesInv' /\ EmptiedGoes
<1>1. {l, NoPane} \subseteq 0..paneIds
  BY PanesInvIs, PaneNumber
<1>2. PanesInv'
  BY <1>1 DEF PanesInv, NewTabFor
<1> QED BY <1>2 DEF NewTabFor, EmptiedGoes, StaysEmpty

\* go
LEMMA GoStep == ASSUME PanesInv, NEW p \in Panels, Go(p) PROVE PanesInv' /\ EmptiedGoes
<1>1. PanesInv'
  BY DEF PanesInv, Go
<1> QED BY <1>1 DEF Go, EmptiedGoes, StaysEmpty

\* One pane, with the seed.
LEMMA FreshIsGood ==
  ASSUME NEW n \in Nat, n # 0
  PROVE  GoodTree(FreshTree, n) /\ Leaves(FreshTree) = {1} /\ Housed(FreshTree) = {Seed} /\ FreshTree.tabs[1] # <<>>
<1>1. PICK t : t = FreshTree
  OBVIOUS
<1>2. /\ t.at = [l \in {1} |-> <<>>] /\ t.tabs = [l \in {1} |-> <<Seed>>] /\ t.active = [l \in {1} |-> Seed]
      /\ t.focus = NoPane /\ t.max = NoPane
  BY <1>1 DEF FreshTree
<1>3. Leaves(t) = {1}
  BY <1>2 DEF Leaves
<1>4. <<Seed>> \in Seq(Tabs) /\ ToSet(<<Seed>>) = {Seed} /\ IsInjective(<<Seed>>)
  BY TabsAre, SingleOnce
<1>5. <<>> \in Paths /\ Len(<<>>) = 0
  BY EmptySeq DEF Paths
<1>6. IsTree(t.at, n)
  <2>1. DOMAIN t.at = {1} /\ t.at[1] = <<>>
    BY <1>2
  <2>2. {1} \subseteq 1..n
    OBVIOUS
  <2>3. t.at \in [DOMAIN t.at -> Paths]
    BY <1>2, <1>5, <2>1
  <2>4. Apart(t.at) /\ Complete(t.at)
    BY <1>5, <2>1 DEF Apart, Complete
  <2> QED BY <2>1, <2>2, <2>3, <2>4 DEF IsTree
<1>7. t \in TreeType({1}, n)
  <2>1. NoPane \in 0..n
    BY DEF NoPane
  <2>2. /\ [l \in {1} |-> <<>>] \in [{1} -> Paths] /\ [l \in {1} |-> <<Seed>>] \in [{1} -> Seq(Tabs)]
        /\ [l \in {1} |-> Seed] \in [{1} -> Tabs \cup {NoTab}]
    BY <1>4, <1>5, TabsAre
  <2> QED BY <1>1, <2>1, <2>2 DEF TreeType, FreshTree
<1>8. Tidy(t.tabs)
  BY <1>2, <1>4 DEF Tidy
<1>9. Housed(t) = {Seed} /\ t.tabs[1] # <<>>
  BY <1>2, <1>3, <1>4, ListIs DEF Housed
<1> QED BY <1>1, <1>3, <1>6, <1>7, <1>8, <1>9 DEF GoodTree

\* forgetWorkspacePanes
LEMMA ForgetPanesStep == ASSUME PanesInv, ForgetPanes PROVE PanesInv' /\ EmptiedGoes
<1>1. PICK t : t = FreshTree /\ tree' = t
  BY DEF ForgetPanes
<1>2. GoodTree(t, paneIds) /\ Leaves(t) = {1} /\ Housed(t) = {Seed} /\ t.tabs[1] # <<>>
  BY <1>1, PanesInvIs, FreshIsGood
<1>3. Cardinality(Leaves(t)) <= MaxLeaves /\ MaxLeaves \in Nat
  <2>1. Cardinality({1}) = 1
    BY FS_Singleton
  <2>2. MaxLeaves \in Nat \ {0}
    BY PanesAssumption
  <2> QED BY <1>2, <2>1, <2>2
<1>4. panels' = <<>> /\ panels' \in Seq(Panels) /\ IsInjective(panels') /\ ToSet(panels') = {}
  BY EmptySeq DEF ForgetPanes, IsInjective, ToSet
<1>5. PanesInv'
  <2>1. (Housed(tree) \cap Files = pageTabs)' /\ SeedAlone(Housed(tree)) '
    BY <1>1, <1>2, TabsAre DEF ForgetPanes, SeedAlone
  <2> QED BY <1>1, <1>2, <1>3, <1>4, <2>1 DEF PanesInv, ForgetPanes
<1>6. EmptiedGoes
  BY <1>1, <1>2 DEF EmptiedGoes, StaysEmpty
<1> QED BY <1>5, <1>6

-----------------------------------------------------------------------------
\* One pane gets another list, and shows another tab.
Refilled(t, l, q, tab, focus) == [t EXCEPT !.tabs[l] = q, !.active[l] = tab, !.focus = focus]

\* A list that shares no tab with the other panes may take the place of one.
LEMMA Refills ==
  ASSUME NEW n \in Nat, NEW t, GoodTree(t, n), NEW l \in Leaves(t), NEW q \in Seq(Tabs), IsInjective(q),
         \A k \in Leaves(t) \ {l} : ToSet(q) \cap ToSet(t.tabs[k]) = {},
         NEW tab \in Tabs \cup {NoTab}, NEW focus, {focus} \subseteq 0..n, NEW u, u = Refilled(t, l, q, tab, focus)
  PROVE  /\ GoodTree(u, n) /\ Leaves(u) = Leaves(t) /\ u.tabs[l] = q
         /\ \A k \in Leaves(t) \ {l} : u.tabs[k] = t.tabs[k]
         /\ Housed(u) = (Housed(t) \ ToSet(t.tabs[l])) \cup ToSet(q)
<1>1. /\ t.at \in [Leaves(t) -> Paths] /\ t.tabs \in [Leaves(t) -> Seq(Tabs)]
      /\ t.active \in [Leaves(t) -> Tabs \cup {NoTab}] /\ t.max \in 0..n
  BY TreeIs
<1>2. PICK tabs : tabs = [t.tabs EXCEPT ![l] = q]
  OBVIOUS
<1>3. PICK active : active = [t.active EXCEPT ![l] = tab]
  OBVIOUS
<1>4. u = [at |-> t.at, tabs |-> tabs, active |-> active, focus |-> focus, max |-> t.max]
  <2>1. t = [at |-> t.at, tabs |-> t.tabs, active |-> t.active, focus |-> t.focus, max |-> t.max]
    BY TreeIs
  <2> QED BY <1>2, <1>3, <2>1 DEF Refilled
<1>5. /\ tabs \in [Leaves(t) -> Seq(Tabs)] /\ Tidy(tabs) /\ tabs[l] = q
      /\ \A k \in Leaves(t) \ {l} : tabs[k] = t.tabs[k]
  <2>1. Tidy(t.tabs)
    BY DEF GoodTree
  <2>2. PICK D : D = Leaves(t)
    OBVIOUS
  <2>3. t.tabs \in [D -> Seq(Tabs)] /\ l \in D /\ \A k \in D \ {l} : ToSet(q) \cap ToSet(t.tabs[k]) = {}
    BY <1>1, <2>2
  <2>4. /\ tabs \in [D -> Seq(Tabs)] /\ Tidy(tabs) /\ tabs[l] = q
        /\ \A k \in D \ {l} : tabs[k] = t.tabs[k]
    BY <1>2, <2>1, <2>3, TidyOne, ZenonT(60)
  <2> QED BY <2>2, <2>4
<1>6. active \in [Leaves(t) -> Tabs \cup {NoTab}]
  BY <1>1, <1>3
<1>7. u \in TreeType(Leaves(t), n)
  <2>1. {focus, t.max} \subseteq 0..n
    BY <1>1
  <2>2. [at |-> t.at, tabs |-> tabs, active |-> active, focus |-> focus, max |-> t.max] \in TreeType(Leaves(t), n)
    BY <1>1, <1>5, <1>6, <2>1, TreeTyped
  <2> QED BY <1>4, <2>2
<1>8. u.at = t.at /\ u.tabs = tabs
  BY <1>4
<1>9. GoodTree(u, n) /\ Leaves(u) = Leaves(t)
  BY <1>5, <1>7, <1>8, Refit
<1>10. \A k \in Leaves(t) \ {l} : u.tabs[k] = t.tabs[k]
  BY <1>5, <1>8
<1>11. Housed(u) = (Housed(t) \ ToSet(t.tabs[l])) \cup ToSet(u.tabs[l])
  BY <1>9, <1>10, HousedOne
<1> QED BY <1>5, <1>8, <1>9, <1>10, <1>11

\* The same, with names for what the provers need not look into.
TabsOf(t, l) == t.tabs[l]
Fits(t, l, q) ==
  /\ q \in Seq(Tabs) /\ IsInjective(q)
  /\ \A k \in Leaves(t) \ {l} : ToSet(q) \cap ToSet(TabsOf(t, k)) = {}
RefilledTo(n, t, l, q, u) ==
  /\ GoodTree(u, n) /\ Leaves(u) = Leaves(t) /\ TabsOf(u, l) = q
  /\ \A k \in Leaves(t) \ {l} : TabsOf(u, k) = TabsOf(t, k)
  /\ Housed(u) = (Housed(t) \ ToSet(TabsOf(t, l))) \cup ToSet(q)

\* Refills in those words.
LEMMA RefillsTo ==
  ASSUME NEW n \in Nat, NEW t, GoodTree(t, n), NEW l \in Leaves(t), NEW q, Fits(t, l, q),
         NEW tab \in Tabs \cup {NoTab}, NEW focus, {focus} \subseteq 0..n
  PROVE  RefilledTo(n, t, l, q, Refilled(t, l, q, tab, focus))
<1>1. q \in Seq(Tabs) /\ IsInjective(q) /\ \A k \in Leaves(t) \ {l} : ToSet(q) \cap ToSet(t.tabs[k]) = {}
  BY DEF Fits, TabsOf
<1>2. PICK u : u = Refilled(t, l, q, tab, focus)
  OBVIOUS
<1>3. /\ GoodTree(u, n) /\ Leaves(u) = Leaves(t) /\ u.tabs[l] = q
      /\ \A k \in Leaves(t) \ {l} : u.tabs[k] = t.tabs[k]
      /\ Housed(u) = (Housed(t) \ ToSet(t.tabs[l])) \cup ToSet(q)
  BY <1>1, <1>2, Refills
<1>4. RefilledTo(n, t, l, q, u)
  BY <1>3 DEF RefilledTo, TabsOf
<1> QED BY <1>2, <1>4

\* A tab that no pane holds is opened in one.
Opened(t, l, f) == [t EXCEPT !.tabs[l] = Append(@, f)]

\* A tab without a home gets one.
LEMMA Opens ==
  ASSUME NEW n \in Nat, NEW t, GoodTree(t, n), NEW l \in Leaves(t), NEW f \in Tabs, f \notin Housed(t),
         NEW u, u = Opened(t, l, f)
  PROVE  /\ GoodTree(u, n) /\ Leaves(u) = Leaves(t) /\ Housed(u) = Housed(t) \cup {f}
         /\ \A k \in Leaves(t) : t.tabs[k] # <<>> => u.tabs[k] # <<>>
         /\ u.tabs[l] # <<>>
<1>1. PICK q : q = Append(t.tabs[l], f)
  OBVIOUS
<1>2. t.tabs[l] \in Seq(Tabs) /\ IsInjective(t.tabs[l]) /\ ToSet(t.tabs[l]) \subseteq Housed(t)
  BY TreeIs
<1>3. q \in Seq(Tabs) /\ IsInjective(q) /\ ToSet(q) = ToSet(t.tabs[l]) \cup {f} /\ q # <<>>
  <2>1. q \in Seq(Tabs) /\ IsInjective(q) /\ ToSet(q) = ToSet(t.tabs[l]) \cup {f}
    BY <1>1, <1>2, AppendOnce
  <2> QED BY <2>1, ListIs
<1>4. \A k \in Leaves(t) \ {l} : ToSet(q) \cap ToSet(t.tabs[k]) = {}
  <2>1. \A k \in Leaves(t) \ {l} : ToSet(t.tabs[l]) \cap ToSet(t.tabs[k]) = {} /\ f \notin ToSet(t.tabs[k])
    BY TreeIs
  <2> QED BY <1>3, <2>1
<1>5. PICK tab \in Tabs \cup {NoTab} : tab = t.active[l]
  BY TreeIs
<1>6. PICK focus : focus = t.focus /\ {focus} \subseteq 0..n
  BY TreeIs
<1>7. PICK v : v = Refilled(t, l, q, tab, focus)
  OBVIOUS
<1>8. u = v
  <2>1. PICK active : active = t.active
    OBVIOUS
  <2>2. active = [active EXCEPT ![l] = tab]
    BY <1>5, <2>1, TreeIs
  <2>3. PICK tabs : tabs = [t.tabs EXCEPT ![l] = q]
    OBVIOUS
  <2>4. t = [at |-> t.at, tabs |-> t.tabs, active |-> t.active, focus |-> t.focus, max |-> t.max]
    BY TreeIs
  <2>5. u = [at |-> t.at, tabs |-> tabs, active |-> active, focus |-> focus, max |-> t.max]
    BY <1>1, <1>6, <2>1, <2>3, <2>4 DEF Opened
  <2>6. v = [at |-> t.at, tabs |-> tabs, active |-> active, focus |-> focus, max |-> t.max]
    BY <1>7, <2>1, <2>2, <2>3, <2>4 DEF Refilled
  <2> QED BY <2>5, <2>6
<1>9. /\ GoodTree(v, n) /\ Leaves(v) = Leaves(t) /\ v.tabs[l] = q
      /\ \A k \in Leaves(t) \ {l} : v.tabs[k] = t.tabs[k]
      /\ Housed(v) = (Housed(t) \ ToSet(t.tabs[l])) \cup ToSet(q)
  <2>1. {focus} \subseteq 0..n /\ q \in Seq(Tabs) /\ IsInjective(q)
    BY <1>3, <1>6
  <2> QED BY <1>4, <1>7, <2>1, Refills
<1>10. Housed(v) = Housed(t) \cup {f}
  BY <1>2, <1>3, <1>9
<1>11. \A k \in Leaves(t) : t.tabs[k] # <<>> => v.tabs[k] # <<>>
  BY <1>3, <1>9
<1> QED BY <1>3, <1>8, <1>9, <1>10, <1>11

\* A pane comes to show one of its tabs, and gets the focus.
LEMMA PointedIs ==
  ASSUME NEW n \in Nat, NEW t, GoodTree(t, n), NEW tab, Home(t, tab) # NoPane, NEW u, u = Pointed(t, tab)
  PROVE  GoodTree(u, n) /\ Leaves(u) = Leaves(t) /\ u.tabs = t.tabs /\ Housed(u) = Housed(t)
<1>1. PICK l : l = Home(t, tab)
  OBVIOUS
<1>2. l \in Leaves(t) /\ tab \in Housed(t)
  BY <1>1, HomeIs
<1>3. tab \in Tabs \cup {NoTab} /\ {l} \subseteq 0..n
  BY <1>2, TreeIs, PaneNumber
<1>4. u = PointedAt(t, l, tab, l)
  BY <1>1 DEF PointedAt, Pointed
<1> QED BY <1>2, <1>3, <1>4, Points

\* paneEnsureEditorTab, paneEnsureGitTab
LEMMA EnsureTabStep == ASSUME PanesInv, NEW f \in Files, EnsureTab(f) PROVE PanesInv' /\ EmptiedGoes
<1>1. PICK n \in Nat : n = paneIds
  BY PanesInvIs
<1>2. PICK t : t = tree /\ GoodTree(t, n)
  BY <1>1, PanesInvIs
<1>3. PICK u : u = IF Home(t, f) # NoPane THEN Pointed(t, f) ELSE [t EXCEPT !.tabs[ActiveLeaf(t)] = Append(@, f)]
  OBVIOUS
<1>4. /\ GoodTree(u, n) /\ Leaves(u) = Leaves(t) /\ Housed(u) = Housed(t) \cup {f}
      /\ \A k \in Leaves(t) : t.tabs[k] # <<>> => u.tabs[k] # <<>>
      /\ \A k \in Leaves(u) : u.tabs[k] # <<>> => k \in Leaves(t)
  <2>1. CASE Home(t, f) # NoPane
    BY <1>2, <1>3, <2>1, PointedIs, HomeIs
  <2>2. CASE Home(t, f) = NoPane
    <3>1. PICK l \in Leaves(t) : l = ActiveLeaf(t)
      BY <1>2, ActiveLeafIn
    <3>2. f \in Tabs /\ f \notin Housed(t)
      BY <1>2, <2>2, HomeIs, TabsAre
    <3>3. u = Opened(t, l, f)
      BY <1>3, <2>2, <3>1 DEF Opened
    <3>4. /\ GoodTree(u, n) /\ Leaves(u) = Leaves(t) /\ Housed(u) = Housed(t) \cup {f}
          /\ \A k \in Leaves(t) : t.tabs[k] # <<>> => u.tabs[k] # <<>>
      BY <1>2, <3>2, <3>3, Opens
    <3> QED BY <3>4
  <2> QED BY <2>1, <2>2
<1>5. SeedAlone(Housed(u)) /\ Housed(u) \cap Files = pageTabs \cup {f}
  <2>1. SeedAlone(Housed(t)) /\ Housed(t) \cap Files = pageTabs
    BY <1>2, PanesInvIs
  <2> QED BY <1>4, <2>1, TabsAre DEF SeedAlone
<1>6. paneIds' = paneIds /\ panels' = panels /\ route' = route /\ pageTabs' = pageTabs \cup {f} /\ Show(u)
  BY <1>2, <1>3 DEF EnsureTab
<1>7. Renders(u, paneIds')
  BY <1>1, <1>2, <1>4, <1>5, <1>6, PanesInvIs DEF Renders
<1>8. paneIds' \in 1..MaxPanes /\ route' \in Panels \cup {NoTab, Seed}
  BY <1>6, PanesInvIs
<1> QED BY <1>5, <1>6, <1>7, <1>8, ShowStep

\* The same tabs in the same panes are rendered.
LEMMA PointedStep ==
  ASSUME PanesInv, NEW u, GoodTree(u, paneIds), Leaves(u) = Leaves(tree), u.tabs = tree.tabs, Housed(u) = Housed(tree),
         NEW to, to \in Panels \cup {NoTab, Seed}, NEW touched, Render(u, panels, to, touched),
         UNCHANGED <<paneIds, panels, pageTabs>>, route' \in Panels \cup {NoTab, Seed}
  PROVE  PanesInv' /\ EmptiedGoes
<1>1. Renders(u, paneIds')
  BY SameRenders
<1>2. PICK listed \in Seq(Panels) : listed = panels /\ IsInjective(listed)
  BY PanesInvIs
<1>3. Render(u, listed, to, touched) /\ panels' = listed
  BY <1>2
<1>4. paneIds' \in 1..MaxPanes /\ pageTabs' = Housed(u) \cap Files
  BY PanesInvIs
<1> QED BY <1>1, <1>2, <1>3, <1>4, RenderStep

\* setActivePaneTab
LEMMA SetActivePaneTabStep ==
  ASSUME PanesInv, NEW f \in Files, SetActivePaneTab(f) PROVE PanesInv' /\ EmptiedGoes
<1>1. PICK n \in Nat : n = paneIds
  BY PanesInvIs
<1>2. PICK t : t = tree /\ GoodTree(t, n)
  BY <1>1, PanesInvIs
<1>3. PICK u : u = Pointed(t, f)
  OBVIOUS
<1>4. Home(t, f) # NoPane
  BY <1>2 DEF SetActivePaneTab
<1>5. GoodTree(u, n) /\ Leaves(u) = Leaves(t) /\ u.tabs = t.tabs /\ Housed(u) = Housed(t)
  BY <1>2, <1>3, <1>4, PointedIs
<1>6. PICK to : to = route /\ to \in Panels \cup {NoTab, Seed}
  BY PanesInvIs
<1>7. Render(u, panels, to, TRUE) /\ UNCHANGED <<paneIds, panels, route, pageTabs>>
  BY <1>2, <1>3, <1>6 DEF SetActivePaneTab
<1> QED BY <1>1, <1>2, <1>5, <1>6, <1>7, PointedStep

\* The maximized view may end.
LEMMA UnmaximizedIs ==
  ASSUME NEW n \in Nat, GoodTree(tree, n), NEW tab, Home(tree, tab) # NoPane, NEW u, u = Unmaximized(tab)
  PROVE  /\ GoodTree(u, n) /\ Leaves(u) = Leaves(tree) /\ u.tabs = tree.tabs /\ Housed(u) = Housed(tree)
         /\ Home(u, tab) # NoPane
<1>1. PICK l : l = Home(tree, tab)
  OBVIOUS
<1>2. {l, NoPane} \subseteq 0..n
  BY <1>1, HomeIs, PaneNumber
<1>3. GoodTree(u, n) /\ Leaves(u) = Leaves(tree) /\ u.tabs = tree.tabs /\ Housed(u) = Housed(tree)
  <2>1. CASE u = tree
    BY <2>1
  <2>2. CASE u # tree
    <3>1. u = Refocused(tree, l, NoPane)
      <4>1. tree = [at |-> tree.at, tabs |-> tree.tabs, active |-> tree.active, focus |-> tree.focus, max |-> tree.max]
        BY TreeIs
      <4>2. u = [tree EXCEPT !.max = NoPane, !.focus = l]
        BY <1>1, <2>2 DEF Unmaximized
      <4> QED BY <4>1, <4>2 DEF Refocused
    <3> QED BY <1>2, <3>1, Refocus
  <2> QED BY <2>1, <2>2
<1>4. Home(u, tab) # NoPane
  BY <1>3, HomeIs
<1> QED BY <1>3, <1>4

\* activatePaneTab
LEMMA ActivateTabStep ==
  ASSUME PanesInv, NEW tab, ActivateTab(tab) PROVE PanesInv' /\ EmptiedGoes
<1>1. PICK n \in Nat : n = paneIds /\ GoodTree(tree, n)
  BY PanesInvIs
<1>2. PICK t : t = Unmaximized(tab)
  OBVIOUS
<1>3. PICK u : u = Pointed(t, tab)
  OBVIOUS
<1>4. /\ GoodTree(t, n) /\ Leaves(t) = Leaves(tree) /\ t.tabs = tree.tabs /\ Housed(t) = Housed(tree)
      /\ Home(t, tab) # NoPane
  BY <1>1, <1>2, UnmaximizedIs DEF ActivateTab
<1>5. GoodTree(u, n) /\ Leaves(u) = Leaves(tree) /\ u.tabs = tree.tabs /\ Housed(u) = Housed(tree)
  BY <1>3, <1>4, PointedIs
<1>6. PICK to : to = route /\ to \in Panels \cup {NoTab, Seed}
  BY PanesInvIs
<1>7. \/ Render(t, panels, to, FALSE) \/ Render(u, panels, to, FALSE) \/ Render(u, panels, to, TRUE)
  BY <1>2, <1>3, <1>6 DEF ActivateTab, Show
<1>8. route' \in Panels \cup {NoTab, Seed} /\ UNCHANGED <<paneIds, panels, pageTabs>>
  BY <1>6, PanesInvIs DEF ActivateTab
<1>9. CASE Render(t, panels, to, FALSE)
  BY <1>1, <1>4, <1>6, <1>8, <1>9, PointedStep
<1>10. CASE Render(u, panels, to, FALSE)
  BY <1>1, <1>5, <1>6, <1>8, <1>10, PointedStep
<1>11. CASE Render(u, panels, to, TRUE)
  BY <1>1, <1>5, <1>6, <1>8, <1>11, PointedStep
<1> QED BY <1>7, <1>9, <1>10, <1>11

\* What happens to the tabs that are left: some went, and with the last tab of a
\* pane the pane.
LEMMA LessRenders ==
  ASSUME PanesInv, NEW u, GoodTree(u, paneIds), Leaves(u) \subseteq Leaves(tree), Housed(u) \subseteq Housed(tree),
         \/ Leaves(tree) \ Leaves(u) # {}
         \/ \A k \in Leaves(u) : tree.tabs[k] # <<>> => u.tabs[k] # <<>> \/ Leaves(u) = {k}
  PROVE  Renders(u, paneIds)
<1>1. SeedAlone(Housed(u))
  <2>1. SeedAlone(Housed(tree))
    BY PanesInvIs
  <2> QED BY <2>1 DEF SeedAlone
<1>2. Cardinality(Leaves(u)) <= MaxLeaves
  <2>1. PICK n \in Nat : n = paneIds
    BY PanesInvIs
  <2>2. PICK S : S = Leaves(tree) /\ IsFiniteSet(S) /\ Cardinality(S) \in Nat /\ Cardinality(S) <= MaxLeaves /\ MaxLeaves \in Nat
    BY <2>1, PanesFinite, PanesInvIs
  <2>3. IsFiniteSet(Leaves(u)) /\ Cardinality(Leaves(u)) <= Cardinality(S) /\ Cardinality(Leaves(u)) \in Nat
    BY <2>2, FS_Subset, FS_CardinalityType
  <2> QED BY <2>2, <2>3
<1> QED BY <1>1, <1>2 DEF Renders

\* The tabs of a list are as many as its length.
\* A tab is closed in its pane, which shows another one if it was shown.
Shut(t, l, q, f, shown) == [t EXCEPT !.tabs[l] = q, !.active[l] = IF @ = f THEN shown ELSE @]

Less(t, l, f) == Without(t.tabs[l], {f})

\* A closed tab is in no list, and the others stay.
LEMMA Shuts ==
  ASSUME NEW n \in Nat, NEW t, GoodTree(t, n), NEW l \in Leaves(t), NEW f, NEW shown \in Tabs \cup {NoTab}
  PROVE  \A v : v = Shut(t, l, Less(t, l, f), f, shown)
                => /\ GoodTree(v, n) /\ Leaves(v) = Leaves(t) /\ Housed(v) = Housed(t) \ (ToSet(TabsOf(t, l)) \cap {f})
                   /\ \A k \in Leaves(t) \ {l} : TabsOf(v, k) = TabsOf(t, k)
<1>1. \A k \in Leaves(t) \ {l} : ToSet(t.tabs[l]) \cap ToSet(t.tabs[k]) = {}
  BY TreeIs
<1>2. t.tabs[l] \in Seq(Tabs) /\ IsInjective(t.tabs[l]) /\ ToSet(t.tabs[l]) \subseteq Housed(t)
  BY TreeIs
<1>3. PICK r : r = Without(t.tabs[l], {f})
  OBVIOUS
<1>4. r \in Seq(Tabs) /\ IsInjective(r) /\ ToSet(r) = ToSet(t.tabs[l]) \ {f}
  BY <1>2, <1>3, WithoutProperties
<1>5. \A k \in Leaves(t) \ {l} : ToSet(r) \cap ToSet(t.tabs[k]) = {}
  BY <1>1, <1>4
<1>6. PICK tab : tab = IF t.active[l] = f THEN shown ELSE t.active[l]
  OBVIOUS
<1>7. tab \in Tabs \cup {NoTab}
  BY <1>6, TreeIs
<1>8. PICK focus : focus = t.focus
  OBVIOUS
<1>9. {focus} \subseteq 0..n
  BY <1>8, TreeIs
<1>10. PICK w : w = Refilled(t, l, r, tab, focus)
  OBVIOUS
<1>11. /\ GoodTree(w, n) /\ Leaves(w) = Leaves(t) /\ w.tabs[l] = r
       /\ \A k \in Leaves(t) \ {l} : w.tabs[k] = t.tabs[k]
       /\ Housed(w) = (Housed(t) \ ToSet(t.tabs[l])) \cup ToSet(r)
  <2>1. r \in Seq(Tabs) /\ IsInjective(r)
    BY <1>4
  <2> QED BY <1>5, <1>7, <1>9, <1>10, <2>1, Refills
<1>12. ASSUME NEW v, v = Shut(t, l, Less(t, l, f), f, shown) PROVE v = w
  <2>1. t = [at |-> t.at, tabs |-> t.tabs, active |-> t.active, focus |-> t.focus, max |-> t.max]
    BY TreeIs
  <2>2. PICK active : active = [t.active EXCEPT ![l] = tab]
    OBVIOUS
  <2>3. active = [t.active EXCEPT ![l] = IF @ = f THEN shown ELSE @]
    BY <1>6, <2>2
  <2>4. v = [at |-> t.at, tabs |-> [t.tabs EXCEPT ![l] = r], active |-> active, focus |-> focus, max |-> t.max]
    BY <1>3, <1>8, <1>12, <2>1, <2>3 DEF Shut, Less
  <2>5. w = [at |-> t.at, tabs |-> [t.tabs EXCEPT ![l] = r], active |-> active, focus |-> focus, max |-> t.max]
    BY <1>10, <2>1, <2>2 DEF Refilled
  <2> QED BY <2>4, <2>5
<1>13. Housed(w) = Housed(t) \ (ToSet(t.tabs[l]) \cap {f})
  BY <1>2, <1>4, <1>11
<1>14. \A k \in Leaves(t) \ {l} : TabsOf(w, k) = TabsOf(t, k)
  BY <1>11 DEF TabsOf
<1>15. Housed(w) = Housed(t) \ (ToSet(TabsOf(t, l)) \cap {f})
  BY <1>13 DEF TabsOf, Less
<1> QED BY <1>11, <1>12, <1>14, <1>15

\* The pane goes if it is empty and has neighbours.
LEMMA ShutCollapses ==
  ASSUME NEW n \in Nat, NEW t, NEW v, GoodTree(v, n), Leaves(v) = Leaves(t), NEW l \in Leaves(t),
         \A k \in Leaves(t) \ {l} : TabsOf(t, k) # <<>> => TabsOf(v, k) # <<>>, NEW u, u = Collapse(v, l)
  PROVE  /\ GoodTree(u, n) /\ Leaves(u) \subseteq Leaves(t) /\ Housed(u) = Housed(v)
         /\ \/ Leaves(t) \ Leaves(u) # {}
            \/ \A k \in Leaves(u) : TabsOf(t, k) # <<>> => TabsOf(u, k) # <<>> \/ Leaves(u) = {k}
<1>1. GoodTree(u, n) /\ Housed(u) = Housed(v)
  BY Collapses
<1>2. \A k \in Leaves(u) : u.tabs[k] = v.tabs[k]
  BY Collapses
<1>3. Leaves(u) = IF v.tabs[l] # <<>> \/ Leaves(v) = {l} THEN Leaves(v) ELSE Leaves(v) \ {l}
  BY Collapses
<1>4. CASE v.tabs[l] # <<>> \/ Leaves(t) = {l}
  BY <1>1, <1>2, <1>3, <1>4 DEF TabsOf
<1>5. CASE ~(v.tabs[l] # <<>> \/ Leaves(t) = {l})
  BY <1>1, <1>3, <1>5
<1> QED BY <1>4, <1>5

\* A tab is closed and the pane that it leaves empty collapses.
LEMMA ShutGoes ==
  ASSUME NEW n \in Nat, NEW t, GoodTree(t, n), NEW f, NEW l, l = Home(t, f), l # NoPane, NEW shown \in Tabs \cup {NoTab},
         NEW u, u = Collapse(Shut(t, l, Less(t, l, f), f, shown), l)
  PROVE  /\ GoodTree(u, n) /\ Leaves(u) \subseteq Leaves(t) /\ Housed(u) = Housed(t) \ {f}
         /\ \/ Leaves(t) \ Leaves(u) # {}
            \/ \A k \in Leaves(u) : TabsOf(t, k) # <<>> => TabsOf(u, k) # <<>> \/ Leaves(u) = {k}
<1>1. l \in Leaves(t) /\ f \in ToSet(TabsOf(t, l))
  BY HomeIs DEF TabsOf
<1>2. PICK v : v = Shut(t, l, Less(t, l, f), f, shown)
  OBVIOUS
<1>3. /\ GoodTree(v, n) /\ Leaves(v) = Leaves(t) /\ Housed(v) = Housed(t) \ (ToSet(TabsOf(t, l)) \cap {f})
      /\ \A k \in Leaves(t) \ {l} : TabsOf(v, k) = TabsOf(t, k)
  <2>1. l \in Leaves(t)
    BY <1>1
  <2>2. GoodTree(v, n) /\ Leaves(v) = Leaves(t)
    BY <1>2, <2>1, Shuts
  <2>3. Housed(v) = Housed(t) \ (ToSet(TabsOf(t, l)) \cap {f})
    BY <1>2, <2>1, Shuts
  <2>4. \A k \in Leaves(t) \ {l} : TabsOf(v, k) = TabsOf(t, k)
    BY <1>2, <2>1, Shuts
  <2> QED BY <2>2, <2>3, <2>4
<1>4. /\ GoodTree(u, n) /\ Leaves(u) \subseteq Leaves(t) /\ Housed(u) = Housed(v)
      /\ \/ Leaves(t) \ Leaves(u) # {}
         \/ \A k \in Leaves(u) : TabsOf(t, k) # <<>> => TabsOf(u, k) # <<>> \/ Leaves(u) = {k}
  <2>1. /\ l \in Leaves(t) /\ u = Collapse(v, l)
        /\ \A k \in Leaves(t) \ {l} : TabsOf(t, k) # <<>> => TabsOf(v, k) # <<>>
    BY <1>1, <1>2, <1>3
  <2>2. GoodTree(u, n) /\ Leaves(u) \subseteq Leaves(t) /\ Housed(u) = Housed(v)
    BY <1>3, <2>1, ShutCollapses
  <2>3. \/ Leaves(t) \ Leaves(u) # {}
        \/ \A k \in Leaves(u) : TabsOf(t, k) # <<>> => TabsOf(u, k) # <<>> \/ Leaves(u) = {k}
    BY <1>3, <2>1, ShutCollapses
  <2> QED BY <2>2, <2>3
<1>5. ToSet(TabsOf(t, l)) \cap {f} = {f}
  BY <1>1
<1> QED BY <1>3, <1>4, <1>5

\* closeEditorTabImmediate, closeGitTabImmediate
LEMMA ClosePageTabStep == ASSUME PanesInv, NEW f \in Files, ClosePageTab(f) PROVE PanesInv' /\ EmptiedGoes
<1> DEFINE l == Home(tree, f)
           q == tree.tabs[l]
           left == Without(q, {f})
           i == CHOOSE k \in DOMAIN q : q[k] = f
           shown == IF left = <<>> THEN NoTab ELSE left[IF i <= Len(left) THEN i ELSE i - 1]
           gone == [tree EXCEPT !.tabs[l] = left, !.active[l] = IF @ = f THEN shown ELSE @]
           u == Collapse(gone, l)
<1>1. /\ l # NoPane /\ pageTabs' = pageTabs \ {f} /\ UNCHANGED <<paneIds, panels>>
      /\ route' = IF tree.active[l] = f /\ shown \in Panels \cup {Seed} THEN shown ELSE route
      /\ Render(u, panels, route', FALSE)
  BY Zenon DEF ClosePageTab
<1>2. gone = Shut(tree, l, Without(tree.tabs[l], {f}), f, shown)
  BY DEF Shut
<1> HIDE DEF u, gone
<1>3. PICK n \in Nat : n = paneIds /\ GoodTree(tree, n)
  BY PanesInvIs
<1>4. l \in Leaves(tree) /\ f \in ToSet(q)
  BY <1>1, <1>3, HomeIs
<1> HIDE DEF l
<1>5. shown \in Tabs \cup {NoTab}
  <2>1. q \in Seq(Tabs) /\ IsInjective(q) /\ f \in ToSet(q)
    BY <1>3, <1>4, TreeIs
  <2> HIDE DEF q
  <2>2. left \in Seq(Tabs) /\ Len(q) \in Nat /\ Len(left) \in Nat /\ Len(left) + 1 = Len(q)
    BY <2>1, LessOne
  <2>3. i \in 1..Len(q)
    <3>1. \E k \in DOMAIN q : q[k] = f
      BY <2>1 DEF ToSet
    <3>2. DOMAIN q = 1..Len(q)
      BY <2>1, LenProperties
    <3> QED BY <3>1, <3>2
  <2> HIDE DEF left, i
  <2>4. left # <<>> => Len(left) # 0
    BY <2>2, EmptySeq
  <2>5. PICK m \in Nat : m = Len(left)
    BY <2>2
  <2>6. PICK k : k = IF i <= m THEN i ELSE i - 1
    OBVIOUS
  <2>7. m # 0 => k \in 1..m
    BY <2>2, <2>3, <2>5, <2>6
  <2>8. m # 0 => left[k] \in Tabs
    BY <2>2, <2>5, <2>7, ElementOfSeq
  <2> QED BY <2>4, <2>5, <2>6, <2>8
<1> HIDE DEF shown
<1>6. /\ GoodTree(u, n) /\ Leaves(u) \subseteq Leaves(tree) /\ Housed(u) = Housed(tree) \ {f}
      /\ \/ Leaves(tree) \ Leaves(u) # {}
         \/ \A k \in Leaves(u) : tree.tabs[k] # <<>> => u.tabs[k] # <<>> \/ Leaves(u) = {k}
  <2>1. l = Home(tree, f) /\ u = Collapse(Shut(tree, l, Less(tree, l, f), f, shown), l)
    BY <1>2 DEF l, u, Less
  <2>2. /\ GoodTree(u, n) /\ Leaves(u) \subseteq Leaves(tree) /\ Housed(u) = Housed(tree) \ {f}
        /\ \/ Leaves(tree) \ Leaves(u) # {}
           \/ \A k \in Leaves(u) : TabsOf(tree, k) # <<>> => TabsOf(u, k) # <<>> \/ Leaves(u) = {k}
    BY <1>1, <1>3, <1>5, <2>1, ShutGoes
  <2> QED BY <2>2 DEF TabsOf
<1>7. PICK to : to = route' /\ to \in Panels \cup {NoTab, Seed}
  BY <1>1, PanesInvIs
<1>8. Renders(u, paneIds')
  BY <1>1, <1>3, <1>6, LessRenders
<1>9. pageTabs' = Housed(u) \cap Files
  BY <1>1, <1>6, PanesInvIs
<1>10. PICK listed \in Seq(Panels) : listed = panels /\ IsInjective(listed)
  BY PanesInvIs
<1>11. Render(u, listed, to, FALSE) /\ panels' = listed /\ paneIds' \in 1..MaxPanes
  BY <1>1, <1>7, <1>10, PanesInvIs
<1> QED BY <1>7, <1>8, <1>9, <1>10, <1>11, RenderStep

\* A terminal tab is closed, and its pane collapses if it was the last.
LEMMA CloseTerminalStep == ASSUME PanesInv, NEW p \in Panels, CloseTerminal(p) PROVE PanesInv' /\ EmptiedGoes
<1> DEFINE l == Home(tree, p)
           left == Without(tree.tabs[l], {p})
           shut == [tree EXCEPT !.tabs[l] = left, !.active[l] = IF @ = p THEN FirstTab(left) ELSE @]
           u == IF l = NoPane \/ Leaves(tree) = {l} THEN tree ELSE Collapse(shut, l)
<1>1. /\ p \in ToSet(panels) /\ panels' = Without(panels, {p}) /\ UNCHANGED <<paneIds, pageTabs>>
      /\ \/ route' \in ToSet(panels') \cup {NoTab} /\ Render(u, panels', route', FALSE)
         \/ tree' = u /\ UNCHANGED <<route, synced, nextPane>>
  BY Zenon DEF CloseTerminal
<1>2. shut = Shut(tree, l, Less(tree, l, p), p, FirstTab(left))
  BY DEF Shut, Less
<1> HIDE DEF shut, l
<1>3. u = tree \/ (l # NoPane /\ u = Collapse(shut, l))
  <2>1. CASE l = NoPane \/ Leaves(tree) = {l}
    BY <2>1
  <2>2. CASE l # NoPane /\ Leaves(tree) # {l}
    BY <2>2
  <2> QED BY <2>1, <2>2
<1> HIDE DEF u
<1>4. PICK n \in Nat : n = paneIds /\ GoodTree(tree, n)
  BY PanesInvIs
<1>5. /\ GoodTree(u, n) /\ Leaves(u) \subseteq Leaves(tree)
      /\ Housed(tree) \ {p} \subseteq Housed(u) /\ Housed(u) \subseteq Housed(tree)
      /\ \/ Leaves(tree) \ Leaves(u) # {}
         \/ \A k \in Leaves(u) : tree.tabs[k] # <<>> => u.tabs[k] # <<>> \/ Leaves(u) = {k}
  <2>1. CASE u = tree
    BY <1>4, <2>1
  <2>2. CASE l # NoPane /\ u = Collapse(shut, l)
    <3>1. PICK shown : shown = FirstTab(left)
      OBVIOUS
    <3>2. shown \in Tabs \cup {NoTab}
      <4>1. tree.tabs[l] \in Seq(Tabs)
        BY <1>4, <2>2, HomeIs, TreeIs DEF l
      <4>2. left \in Seq(Tabs)
        BY <4>1, WithoutProperties
      <4> QED BY <3>1, <4>2, FirstTabIs
    <3>3. l = Home(tree, p) /\ u = Collapse(Shut(tree, l, Less(tree, l, p), p, shown), l)
      BY <1>2, <2>2, <3>1 DEF l
    <3> HIDE DEF left
    <3>4. /\ GoodTree(u, n) /\ Leaves(u) \subseteq Leaves(tree) /\ Housed(u) = Housed(tree) \ {p}
          /\ \/ Leaves(tree) \ Leaves(u) # {}
             \/ \A k \in Leaves(u) : TabsOf(tree, k) # <<>> => TabsOf(u, k) # <<>> \/ Leaves(u) = {k}
      BY <1>4, <2>2, <3>2, <3>3, ShutGoes
    <3> QED BY <3>4 DEF TabsOf
  <2> QED BY <1>3, <2>1, <2>2
<1> HIDE DEF left
<1>6. Renders(u, paneIds)
  BY <1>4, <1>5, LessRenders
<1>7. PICK listed : listed = panels'
  OBVIOUS
<1>8. listed \in Seq(Panels) /\ IsInjective(listed) /\ ToSet(listed) = ToSet(panels) \ {p}
  BY <1>1, <1>7, PanesInvIs, WithoutProperties
<1>9. pageTabs' = Housed(u) \cap Files /\ paneIds' \in 1..MaxPanes /\ paneIds' = paneIds
  <2>1. p \notin Files
    BY TabsAre
  <2> QED BY <1>1, <1>5, <2>1, PanesInvIs
<1>10. CASE route' \in ToSet(panels') \cup {NoTab} /\ Render(u, panels', route', FALSE)
  <2>1. PICK to : to = route' /\ to \in Panels \cup {NoTab, Seed}
    BY <1>7, <1>8, <1>10, PanesInvIs
  <2>2. Render(u, listed, to, FALSE) /\ Renders(u, paneIds')
    BY <1>6, <1>7, <1>9, <1>10, <2>1
  <2> QED BY <1>7, <1>8, <1>9, <2>1, <2>2, RenderStep
<1>11. CASE tree' = u /\ UNCHANGED <<route, synced, nextPane>>
  <2>1. GoodTree(u, paneIds) /\ SeedAlone(Housed(u)) /\ Cardinality(Leaves(u)) <= MaxLeaves
    BY <1>6 DEF Renders
  <2>2. ToSet(listed) \subseteq Housed(u)
    <3>1. ToSet(panels) \subseteq Housed(tree)
      BY DEF PanesInv
    <3> QED BY <1>5, <1>8, <3>1
  <2>3. PanesInv'
    <3>1. (GoodTree(tree, paneIds))' /\ (Cardinality(Leaves(tree)) <= MaxLeaves)' /\ (SeedAlone(Housed(tree)))'
          /\ (ToSet(panels) \subseteq Housed(tree))' /\ (Housed(tree) \cap Files = pageTabs)'
      BY <1>7, <1>9, <1>11, <2>1, <2>2
    <3>2. panels' \in Seq(Panels) /\ IsInjective(panels')
      BY <1>7, <1>8
    <3>3. /\ route' \in Panels \cup {NoTab, Seed} /\ synced' \in Panels \cup {NoTab, Seed, Unsynced}
          /\ nextPane' \in 0..paneIds'
      BY <1>9, <1>11 DEF PanesInv
    <3> QED BY <1>9, <3>1, <3>2, <3>3 DEF PanesInv
  <2>4. EmptiedGoes
    <3>1. CASE Leaves(tree) \ Leaves(u) # {}
      BY <1>11, <3>1 DEF EmptiedGoes
    <3>2. CASE \A k \in Leaves(u) : tree.tabs[k] # <<>> => u.tabs[k] # <<>> \/ Leaves(u) = {k}
      BY <1>11, <3>2 DEF EmptiedGoes, StaysEmpty
    <3> QED BY <1>5, <3>1, <3>2
  <2> QED BY <2>3, <2>4
<1> QED BY <1>1, <1>10, <1>11

-----------------------------------------------------------------------------
\* A tab moves within its pane.
Shifted(t, l, q) == [t EXCEPT !.tabs[l] = q, !.focus = l]

\* movePaneTabTo within a pane
LEMMA MoveWithinStep ==
  ASSUME PanesInv, NEW f, NEW l, l = Home(tree, f), l # NoPane, NEW i, {i} \subseteq 1..Len(Less(tree, l, f)) + 1,
         NEW u, u = Shifted(tree, l, InsertAt(Less(tree, l, f), i, f)),
         Show(u), UNCHANGED <<paneIds, panels, route, pageTabs>>
  PROVE  PanesInv' /\ EmptiedGoes
<1>1. PICK n \in Nat : n = paneIds /\ GoodTree(tree, n)
  BY PanesInvIs
<1>2. PICK t : t = tree /\ GoodTree(t, n)
  BY <1>1
<1>3. l \in Leaves(t) /\ f \in ToSet(t.tabs[l])
  BY <1>2, HomeIs
<1>4. PICK q : q = t.tabs[l] /\ q \in Seq(Tabs) /\ IsInjective(q) /\ ToSet(q) \subseteq Housed(t)
  BY <1>2, <1>3, TreeIs
<1>5. PICK left : left = Less(t, l, f)
  OBVIOUS
<1>6. left \in Seq(Tabs) /\ IsInjective(left) /\ ToSet(left) = ToSet(q) \ {f}
  BY <1>4, <1>5, WithoutProperties DEF Less
<1>7. PICK r : r = InsertAt(left, i, f)
  OBVIOUS
<1>8. r \in Seq(Tabs) /\ IsInjective(r) /\ ToSet(r) = ToSet(q)
  <2>1. f \in Tabs /\ f \notin ToSet(left) /\ i \in 1..Len(left) + 1
    BY <1>2, <1>3, <1>4, <1>5, <1>6, TreeIs
  <2>2. r \in Seq(Tabs) /\ IsInjective(r) /\ ToSet(r) = ToSet(left) \cup {f}
    BY <1>6, <1>7, <2>1, InsertedOnce
  <2> QED BY <1>3, <1>4, <1>6, <2>2
<1>9. PICK tab \in Tabs \cup {NoTab} : tab = t.active[l]
  BY <1>2, <1>3, TreeIs
<1>10. PICK w : w = Refilled(t, l, r, tab, l)
  OBVIOUS
<1>11. GoodTree(w, n) /\ Leaves(w) = Leaves(t) /\ w.tabs[l] = r
       /\ (\A k \in Leaves(t) \ {l} : w.tabs[k] = t.tabs[k])
       /\ Housed(w) = (Housed(t) \ ToSet(t.tabs[l])) \cup ToSet(r)
  <2>1. \A k \in Leaves(t) \ {l} : ToSet(r) \cap ToSet(t.tabs[k]) = {}
    BY <1>2, <1>3, <1>4, <1>8, TreeIs
  <2>2. {l} \subseteq 0..n
    BY <1>2, <1>3, PaneNumber
  <2>3. r \in Seq(Tabs) /\ IsInjective(r) /\ GoodTree(t, n) /\ l \in Leaves(t)
    BY <1>2, <1>3, <1>8
  <2> QED BY <1>10, <2>1, <2>2, <2>3, Refills, SMTT(30)
<1>12. u = w
  <2>1. t = [at |-> t.at, tabs |-> t.tabs, active |-> t.active, focus |-> t.focus, max |-> t.max]
    BY <1>2, TreeIs
  <2>2. PICK active : active = t.active
    OBVIOUS
  <2>3. active = [active EXCEPT ![l] = tab]
    BY <1>2, <1>9, <2>2, TreeIs
  <2>4. u = [at |-> t.at, tabs |-> [t.tabs EXCEPT ![l] = r], active |-> active, focus |-> l, max |-> t.max]
    BY <1>2, <1>5, <1>7, <2>1, <2>2 DEF Shifted
  <2>5. w = [at |-> t.at, tabs |-> [t.tabs EXCEPT ![l] = r], active |-> active, focus |-> l, max |-> t.max]
    BY <1>10, <2>1, <2>2, <2>3 DEF Refilled
  <2> QED BY <2>4, <2>5
<1>13. Housed(w) = Housed(t) /\ \A k \in Leaves(t) : t.tabs[k] # <<>> => w.tabs[k] # <<>>
  <2>1. Housed(w) = Housed(t)
    BY <1>4, <1>8, <1>11
  <2>2. r # <<>>
    BY <1>3, <1>4, <1>8, ListIs
  <2> QED BY <1>11, <2>1, <2>2
<1>14. Renders(w, paneIds')
  BY <1>1, <1>2, <1>11, <1>13, SameRenders
<1>15. Show(w) /\ paneIds' \in 1..MaxPanes /\ pageTabs' = Housed(w) \cap Files /\ route' \in Panels \cup {NoTab, Seed}
  BY <1>2, <1>12, <1>13, PanesInvIs
<1> QED BY <1>14, <1>15, ShowStep

\* A tab moves to another pane.
MovedTo(t, from, to, left, r, f) ==
  [t EXCEPT !.tabs[from] = left, !.active[from] = FirstTab(left),
            !.tabs[to] = r, !.active[to] = f, !.focus = to]

\* A tab that moves to another pane is still in one.
LEMMA Moves ==
  ASSUME NEW n \in Nat, NEW t, GoodTree(t, n), NEW from \in Leaves(t), NEW to \in Leaves(t), to # from,
         NEW left \in Seq(Tabs), NEW r \in Seq(Tabs), IsInjective(left), IsInjective(r), NEW f \in Tabs,
         Contains(TabsOf(t, from), f), ToSet(left) = ToSet(TabsOf(t, from)) \ {f},
         ToSet(r) = ToSet(TabsOf(t, to)) \cup {f}, NEW u, u = MovedTo(t, from, to, left, r, f)
  PROVE  /\ GoodTree(u, n) /\ Leaves(u) = Leaves(t) /\ Housed(u) = Housed(t)
         /\ \A k \in Leaves(t) \ {from} : TabsOf(t, k) # <<>> => TabsOf(u, k) # <<>>
<1>1. \A k, l \in Leaves(t) : k # l => ToSet(TabsOf(t, k)) \cap ToSet(TabsOf(t, l)) = {}
  BY TreeIs DEF TabsOf
<1>2. \A k \in Leaves(t) : TabsOf(t, k) \in Seq(Tabs) /\ ToSet(TabsOf(t, k)) \subseteq Housed(t)
  BY TreeIs DEF TabsOf
<1>3. f \in ToSet(TabsOf(t, from))
  BY <1>2, ListIs
<1>4. PICK tab : tab = FirstTab(left)
  OBVIOUS
<1>5. PICK focus : focus = t.focus
  OBVIOUS
<1>6. tab \in Tabs \cup {NoTab} /\ f \in Tabs \cup {NoTab} /\ {focus} \subseteq 0..n /\ {to} \subseteq 0..n
  BY <1>4, <1>5, FirstTabIs, TreeIs, PaneNumber
<1>7. PICK v : v = Refilled(t, from, left, tab, focus)
  OBVIOUS
<1>8. Fits(t, from, left)
  BY <1>1 DEF Fits
<1>9. RefilledTo(n, t, from, left, v)
  BY <1>6, <1>7, <1>8, RefillsTo
<1>10. /\ GoodTree(v, n) /\ Leaves(v) = Leaves(t) /\ TabsOf(v, from) = left
       /\ \A k \in Leaves(t) \ {from} : TabsOf(v, k) = TabsOf(t, k)
       /\ Housed(v) = Housed(t) \ {f}
  <2>1. /\ GoodTree(v, n) /\ Leaves(v) = Leaves(t) /\ TabsOf(v, from) = left
        /\ \A k \in Leaves(t) \ {from} : TabsOf(v, k) = TabsOf(t, k)
    BY <1>9 DEF RefilledTo
  <2>2. Housed(v) = (Housed(t) \ ToSet(TabsOf(t, from))) \cup ToSet(left)
    BY <1>9 DEF RefilledTo
  <2>3. Housed(v) = Housed(t) \ {f}
    BY <1>2, <1>3, <2>2
  <2> QED BY <2>1, <2>3
<1>11. PICK w : w = Refilled(v, to, r, f, to)
  OBVIOUS
<1>12. Fits(v, to, r)
  <2>1. ASSUME NEW k \in Leaves(t) \ {to} PROVE ToSet(r) \cap ToSet(TabsOf(v, k)) = {}
    <3>1. CASE k = from
      BY <1>1, <1>10, <3>1
    <3>2. CASE k # from
      BY <1>1, <1>3, <1>10, <3>2
    <3> QED BY <3>1, <3>2
  <2> QED BY <1>10, <2>1 DEF Fits
<1>13. RefilledTo(n, v, to, r, w)
  <2>1. to \in Leaves(v) /\ GoodTree(v, n)
    BY <1>10
  <2> QED BY <1>6, <1>11, <1>12, <2>1, RefillsTo
<1>14. /\ GoodTree(w, n) /\ Leaves(w) = Leaves(t) /\ TabsOf(w, to) = r
       /\ \A k \in Leaves(t) \ {to} : TabsOf(w, k) = TabsOf(v, k)
       /\ Housed(w) = Housed(t)
  <2>1. /\ GoodTree(w, n) /\ Leaves(w) = Leaves(t) /\ TabsOf(w, to) = r
        /\ \A k \in Leaves(t) \ {to} : TabsOf(w, k) = TabsOf(v, k)
    BY <1>10, <1>13 DEF RefilledTo
  <2>2. Housed(w) = (Housed(v) \ ToSet(TabsOf(v, to))) \cup ToSet(r)
    BY <1>13 DEF RefilledTo
  <2>3. TabsOf(v, to) = TabsOf(t, to) /\ f \in Housed(t)
    BY <1>2, <1>3, <1>10
  <2>4. Housed(w) = Housed(t)
    BY <1>2, <1>10, <2>2, <2>3
  <2> QED BY <2>1, <2>4
<1>15. u = w
  <2>1. t = [at |-> t.at, tabs |-> t.tabs, active |-> t.active, focus |-> t.focus, max |-> t.max]
    BY TreeIs
  <2>2. PICK tabs : tabs = [t.tabs EXCEPT ![from] = left]
    OBVIOUS
  <2>3. PICK active : active = [t.active EXCEPT ![from] = tab]
    OBVIOUS
  <2>4. v = [at |-> t.at, tabs |-> tabs, active |-> active, focus |-> focus, max |-> t.max]
    BY <1>7, <2>1, <2>2, <2>3 DEF Refilled
  <2>5. w = [at |-> t.at, tabs |-> [tabs EXCEPT ![to] = r], active |-> [active EXCEPT ![to] = f],
             focus |-> to, max |-> t.max]
    BY <1>11, <2>4 DEF Refilled
  <2>6. u = [at |-> t.at, tabs |-> [tabs EXCEPT ![to] = r], active |-> [active EXCEPT ![to] = f],
             focus |-> to, max |-> t.max]
    BY <1>4, <2>1, <2>2, <2>3 DEF MovedTo
  <2> QED BY <2>5, <2>6
<1>16. ASSUME NEW k \in Leaves(t) \ {from}, TabsOf(t, k) # <<>> PROVE TabsOf(w, k) # <<>>
  <2>1. r # <<>>
    BY ListIs
  <2> QED BY <1>10, <1>14, <1>16, <2>1
<1> QED BY <1>14, <1>15, <1>16

\* movePaneTabTo to another pane
LEMMA MoveAcrossStep ==
  ASSUME PanesInv, NEW f, NEW from, from = Home(tree, f), from # NoPane, NEW to \in Leaves(tree), to # from,
         NEW i, {i} \subseteq 1..Len(TabsOf(tree, to)) + 1, NEW left, left = Less(tree, from, f),
         NEW r, r = InsertAt(TabsOf(tree, to), i, f),
         NEW u, u = Collapse(MovedTo(tree, from, to, left, r, f), from),
         Show(u), UNCHANGED <<paneIds, panels, route, pageTabs>>
  PROVE  PanesInv' /\ EmptiedGoes
<1>1. PICK n \in Nat : n = paneIds /\ GoodTree(tree, n)
  BY PanesInvIs
<1>2. from \in Leaves(tree) /\ f \in ToSet(TabsOf(tree, from)) /\ f \notin ToSet(TabsOf(tree, to))
  BY <1>1, HomeIs DEF TabsOf
<1>3. /\ TabsOf(tree, from) \in Seq(Tabs) /\ IsInjective(TabsOf(tree, from))
      /\ TabsOf(tree, to) \in Seq(Tabs) /\ IsInjective(TabsOf(tree, to))
  BY <1>1, <1>2, TreeIs DEF TabsOf
<1>4. left \in Seq(Tabs) /\ IsInjective(left) /\ ToSet(left) = ToSet(TabsOf(tree, from)) \ {f}
  BY <1>3, WithoutProperties DEF Less, TabsOf
<1>5. f \in Tabs /\ Contains(TabsOf(tree, from), f)
  BY <1>2, <1>3, ListIs
<1>6. r \in Seq(Tabs) /\ IsInjective(r) /\ ToSet(r) = ToSet(TabsOf(tree, to)) \cup {f}
  BY <1>2, <1>3, <1>5, InsertedOnce
<1>7. PICK v : v = MovedTo(tree, from, to, left, r, f)
  OBVIOUS
<1>8. /\ GoodTree(v, n) /\ Leaves(v) = Leaves(tree) /\ Housed(v) = Housed(tree)
      /\ \A k \in Leaves(tree) \ {from} : TabsOf(tree, k) # <<>> => TabsOf(v, k) # <<>>
  <2>1. GoodTree(v, n) /\ Leaves(v) = Leaves(tree)
    BY <1>1, <1>2, <1>4, <1>5, <1>6, <1>7, Moves
  <2>2. Housed(v) = Housed(tree)
    BY <1>1, <1>2, <1>4, <1>5, <1>6, <1>7, Moves
  <2>3. \A k \in Leaves(tree) \ {from} : TabsOf(tree, k) # <<>> => TabsOf(v, k) # <<>>
    BY <1>1, <1>2, <1>4, <1>5, <1>6, <1>7, Moves
  <2> QED BY <2>1, <2>2, <2>3
<1>9. /\ GoodTree(u, n) /\ Leaves(u) \subseteq Leaves(tree) /\ Housed(u) = Housed(v)
      /\ \/ Leaves(tree) \ Leaves(u) # {}
         \/ \A k \in Leaves(u) : TabsOf(tree, k) # <<>> => TabsOf(u, k) # <<>> \/ Leaves(u) = {k}
  <2>1. from \in Leaves(tree) /\ u = Collapse(v, from)
    BY <1>2, <1>7
  <2>2. GoodTree(u, n) /\ Leaves(u) \subseteq Leaves(tree) /\ Housed(u) = Housed(v)
    BY <1>8, <2>1, ShutCollapses
  <2>3. \/ Leaves(tree) \ Leaves(u) # {}
        \/ \A k \in Leaves(u) : TabsOf(tree, k) # <<>> => TabsOf(u, k) # <<>> \/ Leaves(u) = {k}
    BY <1>8, <2>1, ShutCollapses
  <2> QED BY <2>2, <2>3
<1>10. \/ Leaves(tree) \ Leaves(u) # {}
       \/ \A k \in Leaves(u) : tree.tabs[k] # <<>> => u.tabs[k] # <<>> \/ Leaves(u) = {k}
  BY <1>9 DEF TabsOf
<1>11. Renders(u, paneIds')
  BY <1>1, <1>8, <1>9, <1>10, LessRenders
<1>12. paneIds' \in 1..MaxPanes /\ pageTabs' = Housed(u) \cap Files /\ route' \in Panels \cup {NoTab, Seed}
  BY <1>8, <1>9, PanesInvIs
<1> QED BY <1>11, <1>12, ShowStep

\* movePaneTabTo, moveActiveTabToNextPane
LEMMA MoveTabStep ==
  ASSUME PanesInv, NEW f \in Files, NEW to \in Leaves(tree), NEW i, MoveTab(f, to, i) PROVE PanesInv' /\ EmptiedGoes
<1> DEFINE from == Home(tree, f)
           left == Without(tree.tabs[from], {f})
           within == [tree EXCEPT !.tabs[from] = InsertAt(left, i, f), !.focus = from]
           moved == [tree EXCEPT !.tabs[from] = left, !.active[from] = FirstTab(left),
                                 !.tabs[to] = InsertAt(@, i, f), !.active[to] = f, !.focus = to]
<1>1. /\ from # NoPane /\ UNCHANGED <<paneIds, panels, route, pageTabs>>
      /\ \/ i \in 1..Len(left) + 1 /\ Show(within)
         \/ to # from /\ i \in 1..Len(tree.tabs[to]) + 1 /\ Show(Collapse(moved, from))
  BY Zenon DEF MoveTab
<1>2. within = Shifted(tree, from, InsertAt(Less(tree, from, f), i, f))
  BY DEF Shifted, Less
<1>3. ASSUME to # from
      PROVE  moved = MovedTo(tree, from, to, Less(tree, from, f), InsertAt(TabsOf(tree, to), i, f), f)
  <2>1. PICK t : t = tree
    OBVIOUS
  <2>2. PICK n \in Nat : GoodTree(t, n)
    BY <2>1, PanesInvIs
  <2>3. t = [at |-> t.at, tabs |-> t.tabs, active |-> t.active, focus |-> t.focus, max |-> t.max]
    BY <2>2, TreeIs
  <2>4. left = Less(t, from, f)
    BY <2>1 DEF Less
  <2>5. PICK v : v = moved
    OBVIOUS
  <2>6. v = [t EXCEPT !.tabs[from] = left, !.active[from] = FirstTab(left),
                      !.tabs[to] = InsertAt(@, i, f), !.active[to] = f, !.focus = to]
    BY <2>1, <2>5
  <2> HIDE DEF from, left, moved
  <2>7. PICK tab : tab = FirstTab(left)
    OBVIOUS
  <2>8. PICK tabs : tabs = [t.tabs EXCEPT ![from] = left]
    OBVIOUS
  <2>9. PICK active : active = [t.active EXCEPT ![from] = tab]
    OBVIOUS
  <2>10. PICK r : r = InsertAt(tabs[to], i, f)
    OBVIOUS
  <2>11. v = [at |-> t.at, tabs |-> [tabs EXCEPT ![to] = r], active |-> [active EXCEPT ![to] = f],
              focus |-> to, max |-> t.max]
    BY <1>3, <2>3, <2>6, <2>7, <2>8, <2>9, <2>10
  <2>12. ASSUME NEW w, w = MovedTo(t, from, to, left, r, f)
         PROVE  w = [at |-> t.at, tabs |-> [tabs EXCEPT ![to] = r], active |-> [active EXCEPT ![to] = f],
                     focus |-> to, max |-> t.max]
    BY <1>3, <2>3, <2>7, <2>8, <2>9, <2>12 DEF MovedTo
  <2>13. tabs[to] = TabsOf(t, to)
    <3>1. to \in DOMAIN t.tabs
      BY <2>1, <2>2, TreeIs
    <3> QED BY <1>3, <2>8, <3>1 DEF TabsOf
  <2> QED BY <2>1, <2>4, <2>5, <2>10, <2>11, <2>12, <2>13
<1>4. left = Less(tree, from, f)
  BY DEF Less
<1>5. from = Home(tree, f)
  OBVIOUS
<1> HIDE DEF from, left, within, moved
<1>6. CASE i \in 1..Len(left) + 1 /\ Show(within)
  <2>1. {i} \subseteq 1..Len(Less(tree, from, f)) + 1
    BY <1>4, <1>6
  <2> QED BY <1>1, <1>2, <1>5, <1>6, <2>1, MoveWithinStep
<1>7. CASE to # from /\ i \in 1..Len(tree.tabs[to]) + 1 /\ Show(Collapse(moved, from))
  <2>1. {i} \subseteq 1..Len(TabsOf(tree, to)) + 1
    BY <1>7 DEF TabsOf
  <2>2. PICK u : u = Collapse(MovedTo(tree, from, to, Less(tree, from, f), InsertAt(TabsOf(tree, to), i, f), f), from)
    OBVIOUS
  <2>3. Show(u)
    BY <1>3, <1>7, <2>2
  <2> QED BY <1>1, <1>5, <1>7, <2>1, <2>2, <2>3, MoveAcrossStep
<1> QED BY <1>1, <1>6, <1>7

\* A pane is closed and its tabs go to the pane beside it.
Joined(t, l, next) == TabsOf(t, next) \o Without(TabsOf(t, l), ToSet(TabsOf(t, next)))

\* The list of the pane beside holds the tabs of both, each once.
LEMMA Joins ==
  ASSUME NEW n \in Nat, NEW t, GoodTree(t, n), NEW l \in Leaves(t), Leaves(t) # {l},
         NEW next, next = Survivor(t, l), NEW p, p = Promote(t, l), NEW q, q = Joined(t, l, next)
  PROVE  /\ next \in Leaves(t) \ {l} /\ GoodTree(p, n) /\ Leaves(p) = Leaves(t) \ {l}
         /\ Fits(p, next, q) /\ q \in Seq(Tabs)
         /\ (Housed(p) \ ToSet(TabsOf(p, next))) \cup ToSet(q) = Housed(t)
<1>1. IsTree(t.at, n)
  BY DEF GoodTree
<1>2. next \in Leaves(t) \ {l}
  BY <1>1, SurvivorIn
<1>3. /\ GoodTree(p, n) /\ Leaves(p) = Leaves(t) \ {l}
      /\ \A k \in Leaves(t) \ {l} : TabsOf(p, k) = TabsOf(t, k)
      /\ Housed(p) = Housed(t) \ ToSet(TabsOf(t, l))
  BY Promotes DEF TabsOf
<1>4. /\ \A k \in Leaves(t) : /\ TabsOf(t, k) \in Seq(Tabs) /\ IsInjective(TabsOf(t, k))
                              /\ ToSet(TabsOf(t, k)) \subseteq Housed(t)
      /\ \A j, k \in Leaves(t) : j # k => ToSet(TabsOf(t, j)) \cap ToSet(TabsOf(t, k)) = {}
  BY TreeIs DEF TabsOf
<1>5. PICK a \in Seq(Tabs) : a = TabsOf(t, next) /\ IsInjective(a)
  BY <1>2, <1>4
<1>6. PICK b \in Seq(Tabs) : b = TabsOf(t, l) /\ IsInjective(b)
  BY <1>4
<1>7. PICK S : S = ToSet(a)
  OBVIOUS
<1>8. PICK c : c = Without(b, S)
  OBVIOUS
<1>9. c \in Seq(Tabs) /\ IsInjective(c) /\ ToSet(c) = ToSet(b) \ S
  BY <1>6, <1>8, WithoutProperties
<1>10. q = a \o c
  BY <1>5, <1>6, <1>7, <1>8 DEF Joined
<1>11. q \in Seq(Tabs) /\ IsInjective(q) /\ ToSet(q) = ToSet(a) \cup ToSet(b)
  BY <1>5, <1>7, <1>9, <1>10, JoinedOnce
<1>12. \A k \in Leaves(p) \ {next} : ToSet(q) \cap ToSet(TabsOf(p, k)) = {}
  BY <1>2, <1>3, <1>4, <1>5, <1>6, <1>11
<1>13. (Housed(p) \ ToSet(TabsOf(p, next))) \cup ToSet(q) = Housed(t)
  BY <1>2, <1>3, <1>4, <1>5, <1>6, <1>11
<1> QED BY <1>2, <1>3, <1>11, <1>12, <1>13 DEF Fits

\* The focus goes to one of the panes.
LEMMA FocusOn ==
  ASSUME NEW n \in Nat, NEW t, GoodTree(t, n), NEW l \in Leaves(t), NEW u, u = Refocused(t, l, t.max)
  PROVE  GoodTree(u, n) /\ Leaves(u) = Leaves(t) /\ Housed(u) = Housed(t)
<1>1. PICK max : max = t.max
  OBVIOUS
<1>2. {l, max} \subseteq 0..n
  BY <1>1, PaneNumber
<1>3. u = Refocused(t, l, max)
  BY <1>1
<1> QED BY <1>2, <1>3, Refocus

\* The pane is gone and its tabs are next door.
LEMMA Closes ==
  ASSUME NEW n \in Nat, NEW t, GoodTree(t, n), NEW l \in Leaves(t), Leaves(t) # {l},
         NEW next, next = Survivor(t, l), NEW p, p = Promote(t, l), NEW q, q = Joined(t, l, next),
         NEW shown \in Tabs \cup {NoTab}, NEW closed, closed = Refilled(p, next, q, shown, p.focus),
         NEW first \in Leaves(t) \ {l}, NEW u, u = Refocused(closed, first, closed.max)
  PROVE  GoodTree(closed, n) /\ GoodTree(u, n) /\ Leaves(u) = Leaves(t) \ {l} /\ Housed(u) = Housed(t)
<1>1. /\ next \in Leaves(t) \ {l} /\ GoodTree(p, n) /\ Leaves(p) = Leaves(t) \ {l} /\ Fits(p, next, q)
      /\ (Housed(p) \ ToSet(TabsOf(p, next))) \cup ToSet(q) = Housed(t)
  BY Joins
<1>2. PICK focus : focus = p.focus /\ {focus} \subseteq 0..n
  BY <1>1, TreeIs
<1>3. next \in Leaves(p)
  BY <1>1
<1>4. RefilledTo(n, p, next, q, closed)
  BY <1>1, <1>2, <1>3, RefillsTo
<1>5. GoodTree(closed, n) /\ Leaves(closed) = Leaves(t) \ {l} /\ Housed(closed) = Housed(t)
  BY <1>1, <1>4 DEF RefilledTo
<1>6. first \in Leaves(closed)
  BY <1>5
<1> QED BY <1>5, <1>6, FocusOn

\* closePaneFor
LEMMA ClosePaneStep == ASSUME PanesInv, NEW l \in Leaves(tree), ClosePane(l) PROVE PanesInv' /\ EmptiedGoes
<1> DEFINE joined(next) == tree.tabs[next] \o Without(tree.tabs[l], ToSet(tree.tabs[next]))
           shown(next)  == IF Contains(joined(next), tree.active[next]) THEN tree.active[next]
                           ELSE IF Contains(joined(next), route) THEN route ELSE FirstTab(joined(next))
           closed(next) == [Promote(tree, l) EXCEPT !.tabs[next] = joined(next), !.active[next] = shown(next)]
<1>1. PICK next \in Leaves(tree) \ {l} :
        /\ next = Survivor(tree, l)
        /\ Show([closed(next) EXCEPT !.focus = FirstOf(tree, Leaves(tree) \ {l})])
        /\ UNCHANGED <<paneIds, panels, pageTabs>>
        /\ route' = IF tree'.active[next] \in Panels \cup {Seed} THEN tree'.active[next] ELSE route
  BY Zenon DEF ClosePane
<1>2. route' \in Panels \cup {NoTab, Seed}
  <2>1. PICK tab : tab = tree'.active[next]
    OBVIOUS
  <2>2. route' = IF tab \in Panels \cup {Seed} THEN tab ELSE route
    BY <1>1, <2>1
  <2> QED BY <2>2, PanesInvIs
<1>3. PICK n \in Nat : n = paneIds /\ GoodTree(tree, n)
  BY PanesInvIs
<1>4. PICK p : p = Promote(tree, l)
  OBVIOUS
<1>5. PICK q : q = joined(next)
  OBVIOUS
<1>6. q = Joined(tree, l, next)
  BY <1>5 DEF Joined, TabsOf
<1>7. PICK last : last = shown(next)
  OBVIOUS
<1>8. last = IF Contains(q, tree.active[next]) THEN tree.active[next]
             ELSE IF Contains(q, route) THEN route ELSE FirstTab(q)
  BY <1>5, <1>7
<1>9. PICK c : c = closed(next)
  OBVIOUS
<1>10. c = [p EXCEPT !.tabs[next] = q, !.active[next] = last]
  BY <1>4, <1>5, <1>7, <1>9
<1>11. PICK first : first = FirstOf(tree, Leaves(tree) \ {l})
  OBVIOUS
<1>12. PICK u : u = [c EXCEPT !.focus = first]
  OBVIOUS
<1>13. Show(u)
  BY <1>1, <1>9, <1>11, <1>12
<1> HIDE DEF joined, shown, closed
<1>14. next = Survivor(tree, l) /\ next \in Leaves(tree) /\ Leaves(tree) # {l}
  BY <1>1
<1>15. GoodTree(p, n) /\ q \in Seq(Tabs)
  BY <1>3, <1>4, <1>6, <1>14, Joins
<1>16. first \in Leaves(tree) \ {l}
  <2>1. PICK S \in SUBSET Leaves(tree) : S = Leaves(tree) \ {l} /\ S # {}
    BY <1>1
  <2>2. IsTree(tree.at, n)
    BY <1>3 DEF GoodTree
  <2> QED BY <1>11, <2>1, <2>2, FirstOfIn
<1>17. last \in Tabs \cup {NoTab}
  <2>1. PICK tab \in Tabs \cup {NoTab} : tab = tree.active[next]
    BY <1>3, <1>14, TreeIs
  <2>2. Contains(q, route) => route \in Tabs
    BY <1>15, ListIs
  <2> QED BY <1>8, <1>15, <2>1, <2>2, FirstTabIs
<1>18. c = Refilled(p, next, q, last, p.focus)
  <2>1. p = [at |-> p.at, tabs |-> p.tabs, active |-> p.active, focus |-> p.focus, max |-> p.max]
    BY <1>15, TreeIs
  <2> QED BY <1>10, <2>1 DEF Refilled
<1>19. GoodTree(c, n)
  <2>1. PICK v : v = Refocused(c, first, c.max)
    OBVIOUS
  <2> QED BY <1>3, <1>4, <1>6, <1>14, <1>16, <1>17, <1>18, <2>1, Closes
<1>20. u = Refocused(c, first, c.max)
  <2>1. c = [at |-> c.at, tabs |-> c.tabs, active |-> c.active, focus |-> c.focus, max |-> c.max]
    BY <1>19, TreeIs
  <2> QED BY <1>12, <2>1 DEF Refocused
<1>21. GoodTree(u, n) /\ Leaves(u) = Leaves(tree) \ {l} /\ Housed(u) = Housed(tree)
  BY <1>3, <1>4, <1>6, <1>14, <1>16, <1>17, <1>18, <1>20, Closes
<1>22. Leaves(tree) \ Leaves(u) # {} /\ Leaves(u) \subseteq Leaves(tree) /\ Housed(u) \subseteq Housed(tree)
  BY <1>21
<1>23. Renders(u, paneIds')
  BY <1>1, <1>3, <1>21, <1>22, LessRenders
<1>24. pageTabs' = Housed(u) \cap Files /\ paneIds' \in 1..MaxPanes
  BY <1>1, <1>21, PanesInvIs
<1> QED BY <1>1, <1>2, <1>13, <1>23, <1>24, ShowStep

-----------------------------------------------------------------------------
(***************************************************************************)
(* The theorems.                                                           *)
(***************************************************************************)
\* Every workspace begins with one pane and the seed.
LEMMA PanesInitInv == ASSUME PanesInit PROVE PanesInv
<1>1. tree = FreshTree /\ paneIds = 1 /\ panels = <<>> /\ route = NoTab /\ synced = Unsynced
      /\ nextPane = NoPane /\ pageTabs = {}
  BY DEF PanesInit
<1>2. GoodTree(FreshTree, 1) /\ Leaves(FreshTree) = {1} /\ Housed(FreshTree) = {Seed}
  BY FreshIsGood
<1>3. Cardinality({1}) = 1 /\ 1 \in 1..MaxPanes /\ 1 <= MaxLeaves
  <2>1. MaxPanes \in Nat \ {0} /\ MaxLeaves \in Nat \ {0}
    BY PanesAssumption
  <2>2. Cardinality({1}) = 1
    BY FS_Singleton
  <2> QED BY <2>1, <2>2
<1>4. panels \in Seq(Panels) /\ IsInjective(panels) /\ ToSet(panels) = {}
  BY <1>1 DEF ToSet, IsInjective
<1>5. {Seed} \cap Files = {} /\ {Seed} \cap Panels = {}
  BY TabsAre
<1> QED BY <1>1, <1>2, <1>3, <1>4, <1>5 DEF PanesInv, SeedAlone, NoPane

\* Steps that leave the panes alone.
LEMMA PanesStutter == ASSUME PanesInv, UNCHANGED paneVars PROVE PanesInv' /\ EmptiedGoes
<1>1. UNCHANGED <<tree, paneIds, panels, route, synced, nextPane, pageTabs>>
  BY DEF paneVars
<1>2. tree' = tree
  BY <1>1
<1>3. Housed(tree)' = Housed(tree) /\ Leaves(tree)' = Leaves(tree) /\ GoodTree(tree, paneIds)' = GoodTree(tree, paneIds)
  BY <1>1 DEF Housed, Leaves, GoodTree
<1>4. PanesInv'
  BY <1>1, <1>3 DEF PanesInv
<1>5. EmptiedGoes
  BY <1>2 DEF EmptiedGoes, StaysEmpty
<1> QED BY <1>4, <1>5

\* Every action keeps the invariant and lets no emptied pane stay.
LEMMA PanesInvStep == ASSUME PanesInv, [PanesNext]_paneVars PROVE PanesInv' /\ EmptiedGoes
<1>1. CASE RefreshLists
  BY <1>1, RefreshListsStep
<1>2. CASE ForgetPanes
  BY <1>2, ForgetPanesStep
<1>3. ASSUME NEW l \in Leaves(tree), SplitPane(l) \/ FlipSplit(l) \/ ClosePane(l) \/ MaximizePane(l) \/ NewTabFor(l)
      PROVE  PanesInv' /\ EmptiedGoes
  <2>1. CASE SplitPane(l)
    BY <2>1, SplitPaneStep
  <2>2. CASE FlipSplit(l)
    BY <2>2, FlipSplitStep
  <2>3. CASE ClosePane(l)
    BY <2>3, ClosePaneStep
  <2>4. CASE MaximizePane(l)
    BY <2>4, MaximizePaneStep
  <2>5. CASE NewTabFor(l)
    BY <2>5, NewTabForStep
  <2> QED BY <1>3, <2>1, <2>2, <2>3, <2>4, <2>5
<1>4. ASSUME NEW f \in Files, EnsureTab(f) \/ SetActivePaneTab(f) \/ ClosePageTab(f)
      PROVE  PanesInv' /\ EmptiedGoes
  <2>1. CASE EnsureTab(f)
    BY <2>1, EnsureTabStep
  <2>2. CASE SetActivePaneTab(f)
    BY <2>2, SetActivePaneTabStep
  <2>3. CASE ClosePageTab(f)
    BY <2>3, ClosePageTabStep
  <2> QED BY <1>4, <2>1, <2>2, <2>3
<1>5. ASSUME NEW f \in Files, NEW l \in Leaves(tree), NEW i, MoveTab(f, l, i) PROVE PanesInv' /\ EmptiedGoes
  BY <1>5, MoveTabStep
<1>6. ASSUME NEW p \in Panels, Go(p) \/ CloseTerminal(p) PROVE PanesInv' /\ EmptiedGoes
  <2>1. CASE Go(p)
    BY <2>1, GoStep
  <2>2. CASE CloseTerminal(p)
    BY <2>2, CloseTerminalStep
  <2> QED BY <1>6, <2>1, <2>2
<1>7. ASSUME NEW tab, ActivateTab(tab) PROVE PanesInv' /\ EmptiedGoes
  BY <1>7, ActivateTabStep
<1>8. CASE UNCHANGED paneVars
  BY <1>8, PanesStutter
<1> QED BY Zenon, <1>1, <1>2, <1>3, <1>4, <1>5, <1>6, <1>7, <1>8 DEF PanesNext

\* The invariant implies the types.
LEMMA PanesTyped == ASSUME PanesInv PROVE PanesTypeOK
<1>1. /\ GoodTree(tree, paneIds) /\ paneIds \in Nat
      /\ Cardinality(Leaves(tree)) <= MaxLeaves /\ MaxLeaves \in Nat
  BY PanesInvIs
<1>2. /\ Leaves(tree) \subseteq 1..paneIds /\ Leaves(tree) = DOMAIN tree.at /\ tree.at \in [Leaves(tree) -> Paths]
      /\ \A l \in Leaves(tree) : tree.tabs[l] \in Seq(Tabs) /\ IsInjective(tree.tabs[l])
      /\ tree.active \in [Leaves(tree) -> Tabs \cup {NoTab}]
      /\ tree.focus \in 0..paneIds /\ tree.max \in 0..paneIds
  BY <1>1, TreeIs
<1>3. Cardinality(Leaves(tree)) \in 1..MaxLeaves
  BY <1>1, PanesFinite
<1>4. \A l \in Leaves(tree) : tree.at[l] \in Seq({0, 1}) /\ tree.active[l] \in Tabs \cup {NoTab}
  BY <1>2 DEF Paths
<1>5. /\ paneIds \in 1..MaxPanes /\ panels \in Seq(Panels) /\ IsInjective(panels)
      /\ route \in Panels \cup {NoTab, Seed} /\ synced \in Panels \cup {NoTab, Seed, Unsynced}
      /\ nextPane \in 0..paneIds /\ pageTabs \subseteq Files
  BY DEF PanesInv
<1>6. {nextPane, tree.focus, tree.max} \subseteq 0..paneIds
  BY <1>2, <1>5
<1> QED BY <1>2, <1>3, <1>4, <1>5, <1>6 DEF PanesTypeOK

\* The invariant implies that a tab has one home.
LEMMA HomesAreOne == ASSUME PanesInv PROVE TabsHaveOneHome
<1>1. PICK n \in Nat : n = paneIds /\ GoodTree(tree, n)
  BY PanesInvIs
<1>2. /\ ToSet(panels) \subseteq Housed(tree) /\ Housed(tree) \cap Files = pageTabs /\ ToSet(panels) \subseteq Panels
  BY PanesInvIs DEF PanesInv
<1> SUFFICES ASSUME NEW tab \in Panels \cup Files
             PROVE  Cardinality(Holders(tree, tab)) \in
                      IF tab \in ToSet(panels) \cup pageTabs THEN {1} ELSE IF tab \in Files THEN {0} ELSE {0, 1}
  BY DEF TabsHaveOneHome
<1>3. PICK l : l = Home(tree, tab)
  OBVIOUS
<1>4. /\ l # NoPane <=> tab \in Housed(tree)
      /\ l # NoPane => /\ l \in Leaves(tree) /\ tab \in ToSet(tree.tabs[l])
                       /\ \A k \in Leaves(tree) \ {l} : tab \notin ToSet(tree.tabs[k])
      /\ Holders(tree, tab) = {k \in Leaves(tree) : tab \in ToSet(tree.tabs[k])}
  BY <1>1, <1>3, HomeIs
<1>5. PICK H : H = Holders(tree, tab)
  OBVIOUS
<1>6. CASE tab \in Housed(tree)
  <2>1. H = {l}
    BY <1>4, <1>5, <1>6
  <2>2. Cardinality(H) = 1
    BY <2>1, FS_Singleton
  <2>3. tab \in ToSet(panels) \cup pageTabs \/ tab \notin Files
    BY <1>2, <1>6
  <2> QED BY <1>5, <2>2, <2>3
<1>7. CASE tab \notin Housed(tree)
  <2>1. H = {}
    <3>1. \A k \in Leaves(tree) : tab \notin ToSet(tree.tabs[k])
      BY <1>1, <1>7, TreeIs
    <3> QED BY <1>4, <1>5, <3>1
  <2>2. Cardinality(H) = 0
    BY <2>1, FS_EmptySet
  <2>3. tab \notin ToSet(panels) \cup pageTabs
    BY <1>2, <1>7
  <2> QED BY <1>5, <2>2, <2>3
<1> QED BY <1>6, <1>7

\* The panes stay within their bound and their lists hold no tab twice, for any
\* finite set of terminals and any files (workspace_panes.js).
THEOREM PanesTypeCorrect == PanesSpec => []PanesTypeOK
<1>1. PanesInit => PanesInv
  BY PanesInitInv
<1>2. PanesInv /\ [PanesNext]_paneVars => PanesInv'
  BY PanesInvStep
<1>3. PanesInv => PanesTypeOK
  BY PanesTyped
<1> QED BY <1>1, <1>2, <1>3, PTL DEF PanesSpec

\* Every listed terminal and every open file or git view is a tab of one pane and
\* of one only, whatever splits, moves, closed panes and late lists there were
\* (syncTerminalTabsIntoTree, closeActivePane, paneEnsureGitTab).
THEOREM PanesTabsHaveOneHome == PanesSpec => []TabsHaveOneHome
<1>1. PanesInit => PanesInv
  BY PanesInitInv
<1>2. PanesInv /\ [PanesNext]_paneVars => PanesInv'
  BY PanesInvStep
<1>3. PanesInv => TabsHaveOneHome
  BY HomesAreOne
<1> QED BY <1>1, <1>2, <1>3, PTL DEF PanesSpec

\* No step leaves a pane of a split that has just lost its last tab, except that
\* of several that one list empties one goes at least (collapseEmptyLeafInTree).
THEOREM PanesEmptiedGoes == PanesSpec => EmptiedPaneGoes
<1>1. PanesInit => PanesInv
  BY PanesInitInv
<1>2. PanesInv /\ [PanesNext]_paneVars => PanesInv'
  BY PanesInvStep
<1>3. PanesInv /\ [PanesNext]_paneVars
        => [\/ Leaves(tree) \ Leaves(tree') # {}
            \/ ~ \E l \in Leaves(tree) \cap Leaves(tree') : StaysEmpty(l)]_paneVars
  BY PanesInvStep DEF EmptiedGoes
<1> QED BY <1>1, <1>2, <1>3, PTL DEF PanesSpec, EmptiedPaneGoes

-----------------------------------------------------------------------------
(***************************************************************************)
(* The composition.                                                        *)
(***************************************************************************)
\* A step of MCTerminalPage is one of one component; the other stays.
LEMMA PageStep == [PageNext]_pageVars => [Next]_vars /\ [PanesNext]_paneVars
BY DEF PageNext, InAttach, InPanes, pageVars

\* A behaviour of the page is one of the attach and one of the panes: what the
\* theorems say of them holds of the composition.
THEOREM PageCompose == PageSpec => Init /\ [][Next]_vars /\ PanesSpec
<1>1. PageInit => Init /\ PanesInit
  BY DEF PageInit
<1> QED BY <1>1, PageStep, PTL DEF PageSpec, PanesSpec

\* The attach and the panes keep their types in the composition, for any number
\* of clients, tabs and panes.
THEOREM PageTypeCorrect == PageSpec => []PageTypeOK
<1>1. PageInit => AttachInv /\ PanesInv
  BY AttachInitHolds, PanesInitInv DEF PageInit
<1>2. AttachInv /\ PanesInv /\ [PageNext]_pageVars => (AttachInv /\ PanesInv)'
  BY PageStep, AttachStep, PanesInvStep
<1>3. AttachInv /\ PanesInv => PageTypeOK
  BY PanesTyped DEF AttachInv, PageTypeOK
<1> QED BY <1>1, <1>2, <1>3, PTL DEF PageSpec
=============================================================================
