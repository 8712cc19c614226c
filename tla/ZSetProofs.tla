----------------------------- MODULE ZSetProofs -----------------------------
(***************************************************************************)
(* TLAPS proofs about ZSet, for any names and scores and any arguments of  *)
(* the queries: the two indices agree, and every command answers as the    *)
(* set of scored names would.                                              *)
(***************************************************************************)
EXTENDS ZSet, SequenceTheorems, FiniteSetTheorems, WellFoundedInduction, TLAPS

(* The order of the tree, of the nodes with the scores of sc *)
Less(sc, m, n) == sc[m] < sc[n] \/ (sc[m] = sc[n] /\ m < n)

Sorted(t, sc) == \A i, j \in 1 .. Len(t) : i < j => Less(sc, t[i], t[j])

Nodes(t) == {t[i] : i \in 1 .. Len(t)}

(* A tree of allocated nodes, in order *)
Tree(t) ==
  /\ t \in Seq(Names)
  /\ \A i \in 1 .. Len(t) : score[t[i]] \in Scores
  /\ Sorted(t, score)

-----------------------------------------------------------------------------
(* Pieces of sequences *)
LEMMA SeqFacts ==
  ASSUME NEW S, NEW t \in Seq(S)
  PROVE  Len(t) \in Nat /\ DOMAIN t = 1 .. Len(t) /\ \A i \in 1 .. Len(t) : t[i] \in S
BY LenProperties, ElementOfSeq

LEMMA ConcatFacts ==
  ASSUME NEW S, NEW s, NEW t, s \in Seq(S), t \in Seq(S)
  PROVE  /\ s \o t \in Seq(S) /\ Len(s \o t) = Len(s) + Len(t)
         /\ Len(s) \in Nat /\ Len(t) \in Nat
         /\ \A i \in 1 .. Len(s) : (s \o t)[i] = s[i]
         /\ \A i \in 1 .. Len(t) : (s \o t)[Len(s) + i] = t[i]
<1>1. /\ s \o t \in Seq(S) /\ Len(s \o t) = Len(s) + Len(t)
      /\ \A i \in 1 .. Len(s) + Len(t) :
           (s \o t)[i] = IF i <= Len(s) THEN s[i] ELSE t[i - Len(s)]
  BY ConcatProperties
<1>2. Len(s) \in Nat /\ Len(t) \in Nat
  BY LenProperties
<1>3. \A i \in 1 .. Len(t) : /\ Len(s) + i \in 1 .. Len(s) + Len(t) /\ ~(Len(s) + i <= Len(s))
                              /\ Len(s) + i - Len(s) = i
  BY <1>2
<1>4. \A i \in 1 .. Len(t) : (s \o t)[Len(s) + i] = t[i]
  BY <1>1, <1>3
<1>. QED
  BY <1>1, <1>2, <1>4

LEMMA PieceFacts ==
  ASSUME NEW S, NEW t \in Seq(S), NEW a \in 1 .. Len(t) + 1, NEW b \in a - 1 .. Len(t)
  PROVE  /\ SubSeq(t, a, b) \in Seq(S) /\ Len(SubSeq(t, a, b)) = b - a + 1
         /\ \A i \in 1 .. b - a + 1 : SubSeq(t, a, b)[i] = t[a + i - 1]
<1>1. Len(t) \in Nat /\ \A i \in 1 .. Len(t) : t[i] \in S
  BY SeqFacts
<1>2. a \in Int /\ b \in Int /\ \A i \in a .. b : t[i] \in S
  BY <1>1
<1>3. /\ SubSeq(t, a, b) \in Seq(S)
      /\ Len(SubSeq(t, a, b)) = IF a <= b THEN b - a + 1 ELSE 0
      /\ \A i \in 1 .. b - a + 1 : SubSeq(t, a, b)[i] = t[a + i - 1]
  BY <1>2, SubSeqProperties
<1>. QED
  BY <1>1, <1>2, <1>3

-----------------------------------------------------------------------------
(* A set of positions that has those to the left of each of its own is an  *)
(* interval, and its size is where it ends.                                *)
LEMMA LeastNumber ==
  ASSUME NEW S \in SUBSET Nat, S # {}
  PROVE  \E v \in S : \A w \in S : v <= w
<1>1. \E v \in S : \A w \in S : ~(<<w, v>> \in OpToRel(<, Nat))
  BY NatLessThanWellFounded, WFMin
<1>2. \E v \in S : \A w \in S : ~(w < v)
  BY <1>1 DEF OpToRel
<1>. QED
  BY <1>2

LEMMA LeftOnes ==
  ASSUME NEW m \in Nat, NEW D \in SUBSET (1 .. m),
         \A i \in D : \A j \in 1 .. m : j < i => j \in D
  PROVE  Cardinality(D) \in 0 .. m /\ D = 1 .. Cardinality(D)
<1> DEFINE S == (1 .. m + 1) \ D
<1>1. S \in SUBSET Nat /\ m + 1 \in S
  OBVIOUS
<1> HIDE DEF S
<1>2. PICK k \in S : \A j \in S : k <= j
  BY <1>1, LeastNumber
<1>3. k \in 1 .. m + 1 /\ k \notin D
  BY <1>2 DEF S
<1>4. D = 1 .. k - 1
  <2>1. ASSUME NEW i \in D
        PROVE  i \in 1 .. k - 1
    <3>1. i \in 1 .. m /\ ~(k < i) /\ i # k
      BY <1>3
    <3>. QED
      BY <1>3, <3>1
  <2>2. ASSUME NEW i \in 1 .. k - 1
        PROVE  i \in D
    <3>1. i \in 1 .. m + 1 /\ ~(k <= i)
      BY <1>3
    <3>. QED
      BY <1>2, <3>1 DEF S
  <2>. QED
    BY <2>1, <2>2
<1>5. Cardinality(1 .. k - 1) = k - 1
  BY <1>3, FS_Interval
<1>. QED
  BY <1>3, <1>4, <1>5

(* How many nodes a pair has to its left *)
Left(t, s, name) == Cardinality({i \in DOMAIN t : zless(t[i], s, name)})

LEMMA LeftFacts ==
  ASSUME NEW t, Tree(t), NEW s \in Scores, NEW name \in Names
  PROVE  /\ Left(t, s, name) \in 0 .. Len(t)
         /\ \A i \in 1 .. Len(t) : zless(t[i], s, name) <=> i <= Left(t, s, name)
<1> DEFINE D == {i \in DOMAIN t : zless(t[i], s, name)}
<1>1. Len(t) \in Nat /\ DOMAIN t = 1 .. Len(t) /\ \A i \in 1 .. Len(t) : t[i] \in Names
  BY SeqFacts DEF Tree
<1>2. \A i \in 1 .. Len(t) : i \in D <=> zless(t[i], s, name)
  BY <1>1
<1>3. \A i \in D : \A j \in 1 .. Len(t) : j < i => j \in D
  <2> SUFFICES ASSUME NEW i \in 1 .. Len(t), NEW j \in 1 .. Len(t), j < i, zless(t[i], s, name)
               PROVE  zless(t[j], s, name)
    BY <1>1
  <2>1. Less(score, t[j], t[i])
    BY DEF Tree, Sorted
  <2>2. /\ score[t[i]] \in Int /\ score[t[j]] \in Int /\ s \in Int
        /\ t[i] \in Int /\ t[j] \in Int /\ name \in Int
    BY ZSetAssumption, <1>1 DEF Tree
  <2>. QED
    BY <2>1, <2>2 DEF Less, zless
<1>4. D \in SUBSET (1 .. Len(t))
  BY <1>1
<1> HIDE DEF D
<1>5. Cardinality(D) \in 0 .. Len(t) /\ D = 1 .. Cardinality(D)
  BY <1>1, <1>3, <1>4, LeftOnes
<1>6. \A i \in 1 .. Len(t) : zless(t[i], s, name) <=> i <= Cardinality(D)
  BY <1>1, <1>2, <1>5
<1>. QED
  BY <1>5, <1>6 DEF Left, D

-----------------------------------------------------------------------------
(* What an insertion and a deletion make of a sequence *)
LEMMA TwoPieces ==
  ASSUME NEW S, NEW p \in Seq(S), NEW q \in Seq(S)
  PROVE  /\ p \o q \in Seq(S) /\ Len(p \o q) = Len(p) + Len(q)
         /\ \A i \in 1 .. Len(p) : (p \o q)[i] = p[i]
         /\ \A i \in Len(p) + 1 .. Len(p) + Len(q) : (p \o q)[i] = q[i - Len(p)]
<1>1. /\ p \o q \in Seq(S) /\ Len(p \o q) = Len(p) + Len(q)
      /\ \A i \in 1 .. Len(p) + Len(q) :
           (p \o q)[i] = IF i <= Len(p) THEN p[i] ELSE q[i - Len(p)]
  BY ConcatProperties
<1>2. Len(p) \in Nat /\ Len(q) \in Nat
  BY LenProperties
<1>3. \A i \in 1 .. Len(p) : i \in 1 .. Len(p) + Len(q) /\ i <= Len(p)
  BY <1>2
<1>4. \A i \in Len(p) + 1 .. Len(p) + Len(q) : i \in 1 .. Len(p) + Len(q) /\ ~(i <= Len(p))
  BY <1>2
<1>. QED
  BY <1>1, <1>3, <1>4

Put(t, k, n) == SubSeq(t, 1, k) \o <<n>> \o SubSeq(t, k + 1, Len(t))

LEMMA Inserting ==
  ASSUME NEW S, NEW n \in S, NEW t \in Seq(S), NEW k \in 0 .. Len(t)
  PROVE  LET u == Put(t, k, n)
         IN  /\ u \in Seq(S) /\ Len(u) = Len(t) + 1
             /\ \A i \in 1 .. k : u[i] = t[i]
             /\ u[k + 1] = n
             /\ \A i \in k + 2 .. Len(t) + 1 : u[i] = t[i - 1]
<1> DEFINE l == Len(t)
           p == SubSeq(t, 1, k)
           o == <<n>>
           q == SubSeq(t, k + 1, l)
           v == p \o o
           u == v \o q
<1>0. l \in Nat /\ l = Len(t)
  BY LenProperties
<1> HIDE DEF l
<1>1. /\ l \in Nat /\ k \in Nat /\ l - k \in Nat /\ 1 \in 1 .. l + 1 /\ k \in 1 - 1 .. l
      /\ k + 1 \in 1 .. l + 1 /\ l \in k + 1 - 1 .. l
      /\ l - (k + 1) + 1 = l - k /\ k - 1 + 1 = k
  BY <1>0
<1>2. /\ p \in Seq(S) /\ Len(p) = k - 1 + 1
      /\ \A i \in 1 .. k - 1 + 1 : p[i] = t[1 + i - 1]
  BY <1>0, <1>1, PieceFacts
<1>3. /\ q \in Seq(S) /\ Len(q) = l - (k + 1) + 1
      /\ \A i \in 1 .. l - (k + 1) + 1 : q[i] = t[k + 1 + i - 1]
  BY <1>0, <1>1, PieceFacts
<1>4. o \in Seq(S) /\ Len(o) = 1 /\ o[1] = n
  OBVIOUS
<1>5. u = v \o q /\ v = p \o o
  OBVIOUS
<1>6. /\ Len(t) = l /\ Put(t, k, n) = u
  BY <1>0 DEF Put
<1> HIDE DEF p, o, q, v, u
<1>7. Len(p) = k /\ Len(q) = l - k
  BY <1>1, <1>2, <1>3
<1>8. /\ v \in Seq(S) /\ Len(v) = k + 1
      /\ \A i \in 1 .. k : v[i] = p[i]
      /\ \A i \in k + 1 .. k + 1 : v[i] = o[i - k]
  <2>1. /\ v \in Seq(S) /\ Len(v) = Len(p) + Len(o)
        /\ \A i \in 1 .. Len(p) : v[i] = p[i]
        /\ \A i \in Len(p) + 1 .. Len(p) + Len(o) : v[i] = o[i - Len(p)]
    BY ONLY <1>2, <1>4, <1>5, TwoPieces
  <2>. QED
    BY ONLY <1>4, <1>7, <2>1
<1>9. /\ u \in Seq(S) /\ Len(u) = k + 1 + (l - k)
      /\ \A i \in 1 .. k + 1 : u[i] = v[i]
      /\ \A i \in k + 1 + 1 .. k + 1 + (l - k) : u[i] = q[i - (k + 1)]
  <2>1. /\ u \in Seq(S) /\ Len(u) = Len(v) + Len(q)
        /\ \A i \in 1 .. Len(v) : u[i] = v[i]
        /\ \A i \in Len(v) + 1 .. Len(v) + Len(q) : u[i] = q[i - Len(v)]
    <3>1. u = v \o q
      BY <1>5
    <3>2. v \in Seq(S)
      BY <1>8
    <3>3. q \in Seq(S)
      BY <1>3
    <3>. QED
      BY ONLY <3>1, <3>2, <3>3, TwoPieces
  <2>. QED
    BY ONLY <1>7, <1>8, <2>1
<1>10. Len(u) = l + 1
  BY ONLY <1>1, <1>9
<1>11. \A i \in 1 .. k : u[i] = t[i]
  <2> SUFFICES ASSUME NEW i \in 1 .. k
               PROVE  u[i] = t[i]
    OBVIOUS
  <2>1. i \in 1 .. k + 1 /\ 1 + i - 1 = i /\ i \in 1 .. k - 1 + 1
    BY <1>1
  <2>. QED
    BY <1>2, <1>8, <1>9, <2>1
<1>12. u[k + 1] = n
  <2>1. k + 1 \in 1 .. k + 1 /\ k + 1 \in k + 1 .. k + 1 /\ k + 1 - k = 1
    BY <1>1
  <2>2. v[k + 1] = o[1]
    BY <1>8, <2>1
  <2>. QED
    BY <1>4, <1>9, <2>1, <2>2
<1>13. \A i \in k + 2 .. l + 1 : u[i] = t[i - 1]
  <2> SUFFICES ASSUME NEW i \in k + 2 .. l + 1
               PROVE  u[i] = t[i - 1]
    OBVIOUS
  <2>1. /\ i - (k + 1) \in 1 .. l - (k + 1) + 1 /\ k + 1 + (i - (k + 1)) - 1 = i - 1
        /\ i \in k + 1 + 1 .. k + 1 + (l - k)
    BY <1>1
  <2>2. q[i - (k + 1)] = t[i - 1]
    BY <1>3, <2>1
  <2>. QED
    BY <1>9, <2>1, <2>2
<1>. QED
  BY <1>6, <1>9, <1>10, <1>11, <1>12, <1>13

LEMMA Removing ==
  ASSUME NEW S, NEW t \in Seq(S), NEW k \in 1 .. Len(t)
  PROVE  LET u == SubSeq(t, 1, k - 1) \o SubSeq(t, k + 1, Len(t))
         IN  /\ u \in Seq(S) /\ Len(u) = Len(t) - 1
             /\ \A i \in 1 .. k - 1 : u[i] = t[i]
             /\ \A i \in k .. Len(t) - 1 : u[i] = t[i + 1]
<1> DEFINE l == Len(t)
           p == SubSeq(t, 1, k - 1)
           q == SubSeq(t, k + 1, l)
           u == p \o q
<1>0. l \in Nat /\ l = Len(t)
  BY LenProperties
<1> HIDE DEF l
<1>1. /\ l \in Nat /\ k - 1 \in Nat /\ l - k \in Nat /\ 1 \in 1 .. l + 1 /\ k - 1 \in 1 - 1 .. l
      /\ k + 1 \in 1 .. l + 1 /\ l \in k + 1 - 1 .. l
      /\ l - (k + 1) + 1 = l - k /\ k - 1 - 1 + 1 = k - 1 /\ k - 1 + (l - k) = l - 1
  BY <1>0
<1>2. /\ p \in Seq(S) /\ Len(p) = k - 1 - 1 + 1
      /\ \A i \in 1 .. k - 1 - 1 + 1 : p[i] = t[1 + i - 1]
  BY <1>0, <1>1, PieceFacts
<1>3. /\ q \in Seq(S) /\ Len(q) = l - (k + 1) + 1
      /\ \A i \in 1 .. l - (k + 1) + 1 : q[i] = t[k + 1 + i - 1]
  BY <1>0, <1>1, PieceFacts
<1>4. u = p \o q
  OBVIOUS
<1>5. /\ Len(t) = l /\ SubSeq(t, 1, k - 1) \o SubSeq(t, k + 1, Len(t)) = u
  BY <1>0
<1> HIDE DEF p, q, u
<1>6. Len(p) = k - 1 /\ Len(q) = l - k
  BY <1>1, <1>2, <1>3
<1>7. /\ u \in Seq(S) /\ Len(u) = k - 1 + (l - k)
      /\ \A i \in 1 .. k - 1 : u[i] = p[i]
      /\ \A i \in k - 1 + 1 .. k - 1 + (l - k) : u[i] = q[i - (k - 1)]
  <2>1. /\ u \in Seq(S) /\ Len(u) = Len(p) + Len(q)
        /\ \A i \in 1 .. Len(p) : u[i] = p[i]
        /\ \A i \in Len(p) + 1 .. Len(p) + Len(q) : u[i] = q[i - Len(p)]
    BY ONLY <1>2, <1>3, <1>4, TwoPieces
  <2>. QED
    BY ONLY <1>6, <2>1
<1>8. \A i \in 1 .. k - 1 : u[i] = t[i]
  <2> SUFFICES ASSUME NEW i \in 1 .. k - 1
               PROVE  u[i] = t[i]
    OBVIOUS
  <2>1. 1 + i - 1 = i /\ i \in 1 .. k - 1 - 1 + 1
    BY <1>1
  <2>. QED
    BY <1>2, <1>7, <2>1
<1>9. \A i \in k .. l - 1 : u[i] = t[i + 1]
  <2> SUFFICES ASSUME NEW i \in k .. l - 1
               PROVE  u[i] = t[i + 1]
    OBVIOUS
  <2>1. /\ i - (k - 1) \in 1 .. l - (k + 1) + 1 /\ k + 1 + (i - (k - 1)) - 1 = i + 1
        /\ i \in k - 1 + 1 .. k - 1 + (l - k)
    BY <1>1
  <2>2. q[i - (k - 1)] = t[i + 1]
    BY <1>3, <2>1
  <2>. QED
    BY <1>7, <2>1, <2>2
<1>. QED
  BY <1>1, <1>5, <1>7, <1>8, <1>9

-----------------------------------------------------------------------------
(* An insertion of a node that is not in the tree, and a deletion *)
LEMMA Inserted ==
  ASSUME NEW t, Tree(t), NEW s \in Scores, NEW n \in Names \ Nodes(t)
  PROVE  /\ tree_insert(t, s, n) \in Seq(Names)
         /\ Nodes(tree_insert(t, s, n)) = Nodes(t) \cup {n}
         /\ \A sc : (sc[n] = s /\ \A m \in Nodes(t) : sc[m] = score[m])
               => Sorted(tree_insert(t, s, n), sc)
<1> DEFINE k == Left(t, s, n)
           l == Len(t)
           u == tree_insert(t, s, n)
<1>1. l \in Nat /\ l = Len(t) /\ t \in Seq(Names) /\ \A i \in 1 .. l : t[i] \in Names
  BY SeqFacts DEF Tree
<1>2. k \in 0 .. l /\ \A i \in 1 .. l : zless(t[i], s, n) <=> i <= k
  BY LeftFacts
<1>3. u = Put(t, k, n)
  BY DEF tree_insert, Left, Put
<1> HIDE DEF k, u, l
<1>4. /\ u \in Seq(Names) /\ Len(u) = l + 1
      /\ \A i \in 1 .. k : u[i] = t[i]
      /\ u[k + 1] = n
      /\ \A i \in k + 2 .. l + 1 : u[i] = t[i - 1]
  <2>1. k \in 0 .. Len(t) /\ n \in Names
    BY <1>1, <1>2
  <2>. QED
    <3>1. n \in Names /\ t \in Seq(Names)
      BY <1>1
    <3>2. Put(t, k, n) \in Seq(Names)
      BY ONLY <2>1, <3>1, Inserting
    <3>3. /\ Len(Put(t, k, n)) = Len(t) + 1
          /\ \A i \in 1 .. k : Put(t, k, n)[i] = t[i]
      BY ONLY <2>1, <3>1, Inserting
    <3>4. /\ Put(t, k, n)[k + 1] = n
          /\ \A i \in k + 2 .. Len(t) + 1 : Put(t, k, n)[i] = t[i - 1]
      BY ONLY <2>1, <3>1, Inserting
    <3>. QED
      BY ONLY <1>1, <1>3, <3>2, <3>3, <3>4
<1>5. \A i \in 1 .. l + 1 : \/ i \in 1 .. k /\ i \in 1 .. l /\ u[i] = t[i]
                            \/ i = k + 1 /\ u[i] = n
                            \/ i - 1 \in 1 .. l /\ i - 1 > k /\ u[i] = t[i - 1]
  <2> SUFFICES ASSUME NEW i \in 1 .. l + 1
               PROVE  \/ i \in 1 .. k /\ i \in 1 .. l /\ u[i] = t[i]
                      \/ i = k + 1 /\ u[i] = n
                      \/ i - 1 \in 1 .. l /\ i - 1 > k /\ u[i] = t[i - 1]
    OBVIOUS
  <2>1. CASE i <= k
    <3>1. i \in 1 .. k /\ i \in 1 .. l
      BY <1>1, <1>2, <2>1
    <3>. QED
      BY <1>4, <3>1
  <2>2. CASE i = k + 1
    BY <1>4, <2>2
  <2>3. CASE i > k + 1
    <3>1. i \in k + 2 .. l + 1 /\ i - 1 \in 1 .. l /\ i - 1 > k
      BY <1>1, <1>2, <2>3
    <3>. QED
      BY <1>4, <3>1
  <2>. QED
    BY <1>1, <1>2, <2>1, <2>2, <2>3
<1>6. Nodes(u) = Nodes(t) \cup {n}
  <2>1. ASSUME NEW i \in 1 .. l + 1
        PROVE  u[i] \in Nodes(t) \cup {n}
    BY <1>1, <1>5 DEF Nodes
  <2>2. n \in Nodes(u)
    <3>1. k + 1 \in 1 .. l + 1
      BY <1>1, <1>2
    <3>. QED
      BY <1>4, <3>1 DEF Nodes
  <2>3. ASSUME NEW i \in 1 .. l
        PROVE  t[i] \in Nodes(u)
    <3>1. CASE i <= k
      <4>1. i \in 1 .. k /\ i \in 1 .. l + 1
        BY <1>1, <1>2, <3>1
      <4>. QED
        BY <1>4, <4>1 DEF Nodes
    <3>2. CASE i > k
      <4>1. i + 1 \in k + 2 .. l + 1 /\ i + 1 \in 1 .. l + 1 /\ i + 1 - 1 = i
        BY <1>1, <1>2, <3>2
      <4>2. u[i + 1] = t[i]
        BY <1>4, <4>1
      <4>. QED
        BY <1>4, <4>1, <4>2 DEF Nodes
    <3>. QED
      BY <1>1, <1>2, <3>1, <3>2
  <2>4. ASSUME NEW x \in Nodes(u)
        PROVE  x \in Nodes(t) \cup {n}
    <3>1. PICK i \in 1 .. Len(u) : x = u[i]
      BY DEF Nodes
    <3>. QED
      BY <1>4, <2>1, <3>1
  <2>5. ASSUME NEW x \in Nodes(t)
        PROVE  x \in Nodes(u)
    <3>1. PICK i \in 1 .. Len(t) : x = t[i]
      BY DEF Nodes
    <3>. QED
      BY <1>1, <2>3, <3>1
  <2>. QED
    BY <2>2, <2>4, <2>5
<1>7. ASSUME NEW sc, sc[n] = s, \A m \in Nodes(t) : sc[m] = score[m]
      PROVE  Sorted(u, sc)
  <2> SUFFICES ASSUME NEW i \in 1 .. l + 1, NEW j \in 1 .. l + 1, i < j
               PROVE  Less(sc, u[i], u[j])
    BY <1>4 DEF Sorted
  <2>1. \A p \in 1 .. l : sc[t[p]] = score[t[p]] /\ score[t[p]] \in Int /\ t[p] \in Int
    BY ZSetAssumption, <1>1, <1>7 DEF Nodes, Tree
  <2>2. s \in Int /\ n \in Int /\ k \in Nat
    BY ZSetAssumption, <1>1, <1>2
  <2>3. \A p \in 1 .. l : p <= k => Less(sc, t[p], n)
    BY <1>2, <1>7, <2>1 DEF zless, Less
  <2>4. ASSUME NEW p \in 1 .. l, p > k
        PROVE  Less(sc, n, t[p])
    <3>1. ~zless(t[p], s, n)
      BY <1>1, <1>2, <2>2, <2>4
    <3>2. t[p] # n
      BY <1>1 DEF Nodes
    <3>. QED
      BY <1>7, <2>1, <2>2, <3>1, <3>2 DEF zless, Less
  <2>5. \A p, q \in 1 .. l : p < q => Less(sc, t[p], t[q])
    BY <1>1, <2>1 DEF Tree, Sorted, Less
  <2>6. \/ i \in 1 .. k /\ i \in 1 .. l /\ u[i] = t[i]
        \/ i = k + 1 /\ u[i] = n
        \/ i - 1 \in 1 .. l /\ i - 1 > k /\ u[i] = t[i - 1]
    BY <1>5
  <2>7. \/ j \in 1 .. k /\ j \in 1 .. l /\ u[j] = t[j]
        \/ j = k + 1 /\ u[j] = n
        \/ j - 1 \in 1 .. l /\ j - 1 > k /\ u[j] = t[j - 1]
    BY <1>5
  <2>8. CASE i \in 1 .. k /\ i \in 1 .. l /\ u[i] = t[i]
    <3>1. i <= k /\ (j - 1 > k => i < j - 1)
      BY <1>1, <2>2, <2>8
    <3>. QED
      BY <2>3, <2>5, <2>7, <2>8, <3>1
  <2>9. CASE i = k + 1 /\ u[i] = n
    <3>1. ~(j \in 1 .. k) /\ j # k + 1
      BY <1>1, <2>2, <2>9
    <3>. QED
      BY <2>4, <2>7, <2>9, <3>1
  <2>10. CASE i - 1 \in 1 .. l /\ i - 1 > k /\ u[i] = t[i - 1]
    <3>1. ~(j \in 1 .. k) /\ j # k + 1 /\ i - 1 < j - 1
      BY <1>1, <2>2, <2>10
    <3>. QED
      BY <2>5, <2>7, <2>10, <3>1
  <2>. QED
    BY <2>6, <2>8, <2>9, <2>10
<1>. QED
  BY <1>4, <1>6, <1>7 DEF u

(* A tree has a node once. *)
LEMMA Distinct ==
  ASSUME NEW t, Tree(t)
  PROVE  \A i, j \in 1 .. Len(t) : t[i] = t[j] => i = j
<1> SUFFICES ASSUME NEW i \in 1 .. Len(t), NEW j \in 1 .. Len(t), t[i] = t[j], i < j
             PROVE  FALSE
  <2>1. Len(t) \in Nat
    BY SeqFacts DEF Tree
  <2>. QED
    BY <2>1
<1>1. Less(score, t[i], t[i])
  BY DEF Tree, Sorted
<1>2. score[t[i]] \in Int /\ t[i] \in Int
  BY ZSetAssumption, SeqFacts DEF Tree
<1>. QED
  BY <1>1, <1>2 DEF Less

LEMMA Deleted ==
  ASSUME NEW t, Tree(t), NEW n \in Nodes(t)
  PROVE  /\ Tree(avl_del(t, n))
         /\ Nodes(avl_del(t, n)) = Nodes(t) \ {n}
<1> DEFINE k == CHOOSE i \in DOMAIN t : t[i] = n
           l == Len(t)
           u == avl_del(t, n)
<1>1. /\ l \in Nat /\ l = Len(t) /\ t \in Seq(Names) /\ \A i \in 1 .. l : t[i] \in Names
      /\ DOMAIN t = 1 .. l
  BY SeqFacts DEF Tree
<1>2. k \in 1 .. l /\ t[k] = n
  <2>1. \E i \in DOMAIN t : t[i] = n
    BY <1>1 DEF Nodes
  <2>. QED
    BY <1>1, <2>1
<1>3. u = SubSeq(t, 1, k - 1) \o SubSeq(t, k + 1, Len(t))
  BY DEF avl_del
<1> HIDE DEF k, u, l
<1>4. /\ u \in Seq(Names) /\ Len(u) = l - 1
      /\ \A i \in 1 .. k - 1 : u[i] = t[i]
      /\ \A i \in k .. l - 1 : u[i] = t[i + 1]
  <2>1. k \in 1 .. Len(t)
    BY <1>1, <1>2
  <2>2. LET w == SubSeq(t, 1, k - 1) \o SubSeq(t, k + 1, Len(t))
        IN  /\ w \in Seq(Names) /\ Len(w) = Len(t) - 1
            /\ \A i \in 1 .. k - 1 : w[i] = t[i]
            /\ \A i \in k .. Len(t) - 1 : w[i] = t[i + 1]
    BY ONLY <1>1, <2>1, Removing
  <2>. QED
    BY ONLY <1>1, <1>3, <2>2
<1>5. \A i \in 1 .. l - 1 : \/ i < k /\ i \in 1 .. l /\ u[i] = t[i]
                            \/ i >= k /\ i + 1 \in 1 .. l /\ u[i] = t[i + 1]
  <2> SUFFICES ASSUME NEW i \in 1 .. l - 1
               PROVE  \/ i < k /\ i \in 1 .. l /\ u[i] = t[i]
                      \/ i >= k /\ i + 1 \in 1 .. l /\ u[i] = t[i + 1]
    OBVIOUS
  <2>1. CASE i < k
    <3>1. i \in 1 .. k - 1 /\ i \in 1 .. l
      BY <1>1, <1>2, <2>1
    <3>. QED
      BY <1>4, <2>1, <3>1
  <2>2. CASE i >= k
    <3>1. i \in k .. l - 1 /\ i + 1 \in 1 .. l
      BY <1>1, <1>2, <2>2
    <3>. QED
      BY <1>4, <2>2, <3>1
  <2>. QED
    BY <1>1, <1>2, <2>1, <2>2
<1>6. \A i, j \in 1 .. l : t[i] = t[j] => i = j
  BY <1>1, Distinct
<1>7. Nodes(u) = Nodes(t) \ {n}
  <2>1. ASSUME NEW i \in 1 .. l - 1
        PROVE  u[i] \in Nodes(t) \ {n}
    <3>1. CASE i < k /\ i \in 1 .. l /\ u[i] = t[i]
      <4>1. i # k
        BY <1>1, <1>2, <3>1
      <4>. QED
        BY <1>1, <1>2, <1>6, <3>1, <4>1 DEF Nodes
    <3>2. CASE i >= k /\ i + 1 \in 1 .. l /\ u[i] = t[i + 1]
      <4>1. i + 1 # k
        BY <1>1, <1>2, <3>2
      <4>. QED
        BY <1>1, <1>2, <1>6, <3>2, <4>1 DEF Nodes
    <3>. QED
      BY <1>5, <3>1, <3>2
  <2>2. ASSUME NEW i \in 1 .. l, t[i] # n
        PROVE  t[i] \in Nodes(u)
    <3>1. i # k
      BY <1>2, <2>2
    <3>2. CASE i < k
      <4>1. i \in 1 .. k - 1 /\ i \in 1 .. l - 1
        BY <1>1, <1>2, <3>2
      <4>. QED
        BY <1>4, <4>1 DEF Nodes
    <3>3. CASE i > k
      <4>1. i - 1 \in k .. l - 1 /\ i - 1 \in 1 .. l - 1 /\ i - 1 + 1 = i
        BY <1>1, <1>2, <3>3
      <4>2. u[i - 1] = t[i]
        BY <1>4, <4>1
      <4>. QED
        BY <1>4, <4>1, <4>2 DEF Nodes
    <3>. QED
      BY <1>1, <1>2, <3>1, <3>2, <3>3
  <2>3. ASSUME NEW x \in Nodes(u)
        PROVE  x \in Nodes(t) \ {n}
    <3>1. PICK i \in 1 .. Len(u) : x = u[i]
      BY DEF Nodes
    <3>. QED
      BY <1>4, <2>1, <3>1
  <2>4. ASSUME NEW x \in Nodes(t) \ {n}
        PROVE  x \in Nodes(u)
    <3>1. PICK i \in 1 .. Len(t) : x = t[i]
      BY DEF Nodes
    <3>. QED
      BY <1>1, <2>2, <3>1
  <2>. QED
    BY <2>3, <2>4
<1>8. Sorted(u, score)
  <2> SUFFICES ASSUME NEW i \in 1 .. l - 1, NEW j \in 1 .. l - 1, i < j
               PROVE  Less(score, u[i], u[j])
    BY <1>4 DEF Sorted
  <2>1. \A p, q \in 1 .. l : p < q => Less(score, t[p], t[q])
    BY <1>1 DEF Tree, Sorted
  <2>2. \/ i < k /\ i \in 1 .. l /\ u[i] = t[i]
        \/ i >= k /\ i + 1 \in 1 .. l /\ u[i] = t[i + 1]
    BY <1>5
  <2>3. \/ j < k /\ j \in 1 .. l /\ u[j] = t[j]
        \/ j >= k /\ j + 1 \in 1 .. l /\ u[j] = t[j + 1]
    BY <1>5
  <2>4. i < j + 1 /\ i + 1 < j + 1 /\ (i >= k => ~(j < k))
    BY <1>1, <1>2
  <2>. QED
    BY <2>1, <2>2, <2>3, <2>4
<1>9. \A i \in 1 .. Len(u) : score[u[i]] \in Scores
  <2>1. \A m \in Nodes(t) : score[m] \in Scores
    BY DEF Nodes, Tree
  <2>2. \A i \in 1 .. Len(u) : u[i] \in Nodes(t)
    BY <1>7 DEF Nodes
  <2>. QED
    BY <2>1, <2>2
<1>. QED
  BY <1>4, <1>7, <1>8, <1>9 DEF Tree, u

-----------------------------------------------------------------------------
(* IndicesAgree in the words of the lemmas, and what follows from it *)
Agree == TypeOK /\ Nodes(tree) = hmap /\ Sorted(tree, score)

LEMMA AgreeSame ==
  IndicesAgree <=> Agree
<1>1. TypeOK => DOMAIN tree = 1 .. Len(tree)
  BY SeqFacts DEF TypeOK
<1>. QED
  BY <1>1 DEF IndicesAgree, Agree, Nodes, Sorted, Less, zless

LEMMA AgreeFacts ==
  ASSUME Agree
  PROVE  /\ Tree(tree) /\ Nodes(tree) = hmap /\ hmap \subseteq Names
         /\ \A n \in Names : zset_lookup(n) <=> n \in hmap
         /\ \A n \in Names : n \in hmap <=> score[n] # None
         /\ \A n \in hmap : score[n] \in Scores
<1>1. \A n \in hmap : n \in Names /\ score[n] \in Scores
  BY DEF Agree, TypeOK
<1>2. \A i \in 1 .. Len(tree) : tree[i] \in hmap
  BY DEF Agree, Nodes
<1>3. Tree(tree)
  BY <1>1, <1>2 DEF Tree, Agree, TypeOK
<1>4. tree = <<>> => hmap = {}
  <2>1. tree = <<>> => Len(tree) = 0
    OBVIOUS
  <2>. QED
    BY <1>2, <2>1 DEF Agree, Nodes
<1>. QED
  BY <1>1, <1>3, <1>4 DEF Agree, TypeOK, zset_lookup

LEMMA AddKeeps ==
  ASSUME Agree, NEW n \in Names, NEW s \in Scores, do_zadd(n, s)
  PROVE  Agree'
<1>1. /\ Tree(tree) /\ Nodes(tree) = hmap /\ hmap \subseteq Names
      /\ zset_lookup(n) <=> n \in hmap
  BY AgreeFacts
<1>2. score' = [score EXCEPT ![n] = s] /\ score \in [Names -> Scores \cup {None}]
      /\ \A m \in Names : m \in hmap <=> score[m] # None
  BY DEF do_zadd, Agree, TypeOK
<1>3. /\ score'[n] = s /\ s # None /\ score' \in [Names -> Scores \cup {None}]
      /\ \A m \in Names : m # n => score'[m] = score[m]
  BY ZSetAssumption, <1>2
<1>4. SUFFICES /\ hmap' = hmap \cup {n} /\ tree' \in Seq(Names) /\ Nodes(tree') = hmap'
               /\ Sorted(tree', score')
  <2>1. \A m \in Names : m \in hmap' <=> score'[m] # None
    BY <1>2, <1>3, <1>4
  <2>. QED
    BY <1>1, <1>3, <1>4, <2>1 DEF Agree, TypeOK, Nodes, Sorted, Less
<1>5. CASE n \in hmap
  <2> DEFINE u == avl_del(tree, n)
  <2>1. /\ Tree(u) /\ Nodes(u) = hmap \ {n}
    BY <1>1, <1>5, Deleted
  <2>2. tree' = tree_insert(u, s, n) /\ hmap' = hmap
    BY <1>1, <1>5 DEF do_zadd, zset_update
  <2> HIDE DEF u
  <2>3. n \in Names \ Nodes(u)
    BY <2>1
  <2>4. /\ tree_insert(u, s, n) \in Seq(Names)
        /\ Nodes(tree_insert(u, s, n)) = Nodes(u) \cup {n}
        /\ \A sc : (sc[n] = s /\ \A m \in Nodes(u) : sc[m] = score[m])
               => Sorted(tree_insert(u, s, n), sc)
    BY <2>1, <2>3, Inserted
  <2>5. score'[n] = s /\ \A m \in Nodes(u) : score'[m] = score[m]
    BY <1>1, <1>3, <2>1
  <2>. QED
    BY <1>5, <2>1, <2>2, <2>4, <2>5
<1>6. CASE n \notin hmap
  <2>1. tree' = tree_insert(tree, s, n) /\ hmap' = hmap \cup {n}
    BY <1>1, <1>6 DEF do_zadd
  <2>2. n \in Names \ Nodes(tree)
    BY <1>1, <1>6
  <2>3. /\ tree_insert(tree, s, n) \in Seq(Names)
        /\ Nodes(tree_insert(tree, s, n)) = Nodes(tree) \cup {n}
        /\ \A sc : (sc[n] = s /\ \A m \in Nodes(tree) : sc[m] = score[m])
               => Sorted(tree_insert(tree, s, n), sc)
    BY <1>1, <2>2, Inserted
  <2>4. score'[n] = s /\ \A m \in Nodes(tree) : score'[m] = score[m]
    BY <1>1, <1>3, <1>6
  <2>. QED
    BY <1>1, <2>1, <2>3, <2>4
<1>. QED
  BY <1>5, <1>6

LEMMA RemoveKeeps ==
  ASSUME Agree, NEW n \in Names, do_zrem(n)
  PROVE  Agree'
<1>1. /\ Tree(tree) /\ Nodes(tree) = hmap /\ hmap \subseteq Names
      /\ zset_lookup(n) <=> n \in hmap
  BY AgreeFacts
<1>2. CASE ~zset_lookup(n)
  BY <1>2 DEF do_zrem, Agree, TypeOK, Nodes, Sorted, Less
<1>3. CASE zset_lookup(n)
  <2> DEFINE u == avl_del(tree, n)
  <2>1. /\ Tree(u) /\ Nodes(u) = hmap \ {n}
    BY <1>1, <1>3, Deleted
  <2>2. tree' = u /\ hmap' = hmap \ {n} /\ score' = [score EXCEPT ![n] = None]
    BY <1>3 DEF do_zrem, zset_delete
  <2>3. score \in [Names -> Scores \cup {None}] /\ \A m \in Names : m \in hmap <=> score[m] # None
    BY DEF Agree, TypeOK
  <2> HIDE DEF u
  <2>4. /\ score' \in [Names -> Scores \cup {None}] /\ score'[n] = None
        /\ \A m \in Names : m # n => score'[m] = score[m]
    BY <2>2, <2>3
  <2>5. Sorted(u, score')
    <3>1. \A i \in 1 .. Len(u) : u[i] \in Names /\ u[i] # n
      BY <1>1, <2>1 DEF Nodes
    <3>. QED
      BY <2>1, <2>4, <3>1 DEF Tree, Sorted, Less
  <2>6. \A m \in Names : m \in hmap' <=> score'[m] # None
    BY <2>2, <2>3, <2>4
  <2>7. u \in Seq(Names)
    BY <2>1 DEF Tree
  <2>8. hmap' \subseteq Names
    BY <1>1, <2>2
  <2>. QED
    BY <2>1, <2>2, <2>4, <2>5, <2>6, <2>7, <2>8 DEF Agree, TypeOK, Nodes, Sorted, Less
<1>. QED
  BY <1>2, <1>3

LEMMA AgreeInit ==
  ASSUME Init
  PROVE  Agree
<1>1. tree = <<>> /\ Len(tree) = 0 /\ tree \in Seq(Names)
  BY DEF Init
<1>2. Nodes(tree) = {} /\ Sorted(tree, score)
  BY <1>1 DEF Nodes, Sorted
<1>. QED
  BY <1>1, <1>2 DEF Init, Agree, TypeOK

LEMMA ClearKeeps ==
  ASSUME zset_clear
  PROVE  Agree'
<1>1. tree' = <<>> /\ Len(tree') = 0 /\ tree' \in Seq(Names)
  BY DEF zset_clear
<1>2. Nodes(tree)' = {} /\ Sorted(tree, score)'
  BY <1>1 DEF Nodes, Sorted
<1>. QED
  BY <1>1, <1>2 DEF zset_clear, Agree, TypeOK

LEMMA AgreeStep ==
  ASSUME Agree, [Next]_vars
  PROVE  Agree'
<1>1. CASE ReadOnly
  BY <1>1 DEF ReadOnly, Agree, TypeOK, Nodes, Sorted, Less
<1>2. CASE UNCHANGED vars
  BY <1>1, <1>2 DEF vars, ReadOnly
<1>3. CASE zset_clear
  BY <1>3, ClearKeeps
<1>4. ASSUME NEW n \in Names, do_zrem(n)
      PROVE  Agree'
  BY <1>4, RemoveKeeps
<1>5. ASSUME NEW n \in Names, NEW s \in Scores, do_zadd(n, s)
      PROVE  Agree'
  BY <1>5, AddKeeps
<1>6. ASSUME NEW n \in Names, do_zscore(n) \/ do_zrank(n)
      PROVE  Agree'
  BY <1>1, <1>6 DEF do_zscore, do_zrank
<1>7. ASSUME NEW n \in Names, NEW s \in Scores, NEW o \in Offsets, NEW l \in Limits,
             do_zquery(s, n, o, l)
      PROVE  Agree'
  BY <1>1, <1>7 DEF do_zquery
<1>8. ASSUME NEW n \in Names, NEW s \in Scores, NEW n2 \in Names, NEW s2 \in Scores,
             do_zcount(s, n, s2, n2)
      PROVE  Agree'
  BY <1>1, <1>8 DEF do_zcount
<1>. QED
  BY <1>2, <1>3, <1>4, <1>5, <1>6, <1>7, <1>8 DEF Next

(* Both indices of a sorted set have the same nodes after every command,   *)
(* and the tree is in the order of the scores that the nodes have now.     *)
THEOREM IndicesAgreeCorrect == Spec => []IndicesAgree
<1>1. Init => Agree
  BY AgreeInit
<1>2. Agree /\ [Next]_vars => Agree'
  BY AgreeStep
<1>3. Agree => IndicesAgree
  BY AgreeSame
<1>. QED
  BY <1>1, <1>2, <1>3, PTL DEF Spec

-----------------------------------------------------------------------------
(* A part of the tree has as many nodes as positions. *)
LEMMA PartSize ==
  ASSUME NEW t, Tree(t), NEW a \in 1 .. Len(t) + 1, NEW b \in 0 .. Len(t)
  PROVE  Cardinality({t[i] : i \in a .. b}) = IF a > b THEN 0 ELSE b - a + 1
<1> DEFINE f == [i \in a .. b |-> t[i]]
           P == {t[i] : i \in a .. b}
<1>1. Len(t) \in Nat /\ a \in Int /\ b \in Int /\ \A i \in a .. b : i \in 1 .. Len(t)
  BY SeqFacts DEF Tree
<1>2. \A i, j \in a .. b : t[i] = t[j] => i = j
  BY <1>1, Distinct
<1>3. f \in Bijection(a .. b, P)
  BY <1>2 DEF Bijection, Injection, Surjection, IsInjective
<1>4. ExistsBijection(a .. b, P)
  BY <1>3 DEF ExistsBijection
<1>5. IsFiniteSet(a .. b) /\ Cardinality(a .. b) = IF a > b THEN 0 ELSE b - a + 1
  BY <1>1, FS_Interval
<1> HIDE DEF P
<1>6. Cardinality(P) = Cardinality(a .. b)
  BY <1>4, <1>5, FS_Bijection
<1>. QED
  BY <1>5, <1>6 DEF P

(* SortedSet's sizes are those of its instance of FiniteSets. *)
LEMMA SameCardinality == \A S : Set!Cardinality(S) = Cardinality(S)
BY DEF Set!Cardinality, Cardinality

(* The positions of a tree are the ranks of its nodes. *)
LEMMA MembersSize ==
  ASSUME Agree
  PROVE  /\ Set!Members = hmap /\ Len(tree) \in Nat
         /\ Cardinality(Set!Members) = Len(tree)
         /\ \A i \in 1 .. Len(tree) : tree[i] \in Names /\ tree[i] \in hmap /\ score[tree[i]] \in Scores
<1>1. /\ Tree(tree) /\ Nodes(tree) = hmap /\ hmap \subseteq Names
      /\ \A n \in Names : n \in hmap <=> score[n] # None
      /\ \A n \in hmap : score[n] \in Scores
  BY AgreeFacts
<1>2. Set!Members = hmap
  BY <1>1 DEF Set!Members
<1>3. Len(tree) \in Nat
  BY <1>1, SeqFacts DEF Tree
<1>4. 1 \in 1 .. Len(tree) + 1 /\ Len(tree) \in 0 .. Len(tree)
  BY <1>3
<1>5. Cardinality({tree[i] : i \in 1 .. Len(tree)}) = IF 1 > Len(tree) THEN 0 ELSE Len(tree) - 1 + 1
  BY <1>1, <1>4, PartSize
<1>6. \A i \in 1 .. Len(tree) : tree[i] \in hmap
  BY <1>1 DEF Nodes
<1>7. Cardinality(hmap) = Len(tree)
  <2>1. hmap = {tree[i] : i \in 1 .. Len(tree)}
    BY <1>1 DEF Nodes
  <2>2. (IF 1 > Len(tree) THEN 0 ELSE Len(tree) - 1 + 1) = Len(tree)
    BY <1>3
  <2>. QED
    BY ONLY <1>5, <2>1, <2>2
<1>. QED
  BY <1>1, <1>2, <1>3, <1>6, <1>7

LEMMA RankIsLeft ==
  ASSUME Agree, NEW s \in Scores, NEW name \in Names
  PROVE  /\ Set!Rank(s, name) = Left(tree, s, name)
         /\ Left(tree, s, name) \in 0 .. Len(tree)
         /\ \A i \in 1 .. Len(tree) : zless(tree[i], s, name) <=> i <= Left(tree, s, name)
<1> DEFINE k == Left(tree, s, name)
           R == {m \in Set!Members : Set!Before(m, s, name)}
<1>1. Tree(tree) /\ Nodes(tree) = hmap
  BY AgreeFacts
<1>2. Set!Members = hmap /\ Len(tree) \in Nat
  BY MembersSize
<1>3. /\ k \in 0 .. Len(tree)
      /\ \A i \in 1 .. Len(tree) : zless(tree[i], s, name) <=> i <= k
  BY <1>1, LeftFacts
<1> HIDE DEF k
<1>4. R = {tree[i] : i \in 1 .. k}
  <2>1. ASSUME NEW m \in R
        PROVE  m \in {tree[i] : i \in 1 .. k}
    <3>1. m \in hmap /\ zless(m, s, name)
      BY <1>2 DEF Set!Before, zless
    <3>2. PICK i \in 1 .. Len(tree) : m = tree[i]
      BY <1>1, <3>1 DEF Nodes
    <3>3. i \in 1 .. k
      BY <1>2, <1>3, <3>1, <3>2
    <3>. QED
      BY <3>2, <3>3
  <2>2. ASSUME NEW i \in 1 .. k
        PROVE  tree[i] \in R
    <3>1. i \in 1 .. Len(tree) /\ i <= k
      BY <1>2, <1>3
    <3>. QED
      BY <1>1, <1>2, <1>3, <3>1 DEF Nodes, Set!Before, zless
  <2>. QED
    BY <2>1, <2>2
<1>5. 1 \in 1 .. Len(tree) + 1
  BY <1>2
<1>6. Cardinality({tree[i] : i \in 1 .. k}) = IF 1 > k THEN 0 ELSE k - 1 + 1
  BY <1>1, <1>3, <1>5, PartSize
<1>7. Set!Rank(s, name) = Cardinality(R)
  BY SameCardinality DEF Set!Rank
<1> HIDE DEF R
<1>8. (IF 1 > k THEN 0 ELSE k - 1 + 1) = k
  BY <1>2, <1>3
<1>9. Cardinality(R) = k
  BY ONLY <1>4, <1>6, <1>8
<1>. QED
  BY <1>3, <1>7, <1>9 DEF k

LEMMA RankAt ==
  ASSUME Agree, NEW i \in 1 .. Len(tree)
  PROVE  /\ Set!RankOf(tree[i]) = i - 1
         /\ avl_rank(tree[i]) = i - 1
<1>1. Tree(tree) /\ DOMAIN tree = 1 .. Len(tree)
  <2>1. Tree(tree)
    BY AgreeFacts
  <2>. QED
    BY <2>1, SeqFacts DEF Tree
<1>2. /\ Len(tree) \in Nat
      /\ \A j \in 1 .. Len(tree) : tree[j] \in Names /\ score[tree[j]] \in Scores
  BY MembersSize
<1> DEFINE k == Left(tree, score[tree[i]], tree[i])
<1>3. /\ Set!Rank(score[tree[i]], tree[i]) = k
      /\ k \in 0 .. Len(tree)
      /\ \A j \in 1 .. Len(tree) : zless(tree[j], score[tree[i]], tree[i]) <=> j <= k
  BY <1>2, RankIsLeft
<1> HIDE DEF k
<1>4. \A j \in 1 .. Len(tree) : j < i => zless(tree[j], score[tree[i]], tree[i])
  BY <1>1 DEF Tree, Sorted, Less, zless
<1>5. ~zless(tree[i], score[tree[i]], tree[i])
  <2>1. score[tree[i]] \in Int /\ tree[i] \in Int
    BY ZSetAssumption, <1>2
  <2>. QED
    BY <2>1 DEF zless
<1>6. ~(i <= k) /\ (i > 1 => i - 1 <= k)
  <2>1. i > 1 => i - 1 \in 1 .. Len(tree) /\ i - 1 < i
    BY <1>2
  <2>. QED
    BY <1>3, <1>4, <1>5, <2>1
<1>7. k = i - 1
  BY <1>2, <1>3, <1>6
<1>8. \A j \in 1 .. Len(tree) : tree[j] = tree[i] => j = i
  BY <1>1, Distinct
<1>9. (CHOOSE j \in DOMAIN tree : tree[j] = tree[i]) = i
  BY <1>1, <1>8
<1>. QED
  BY <1>3, <1>7, <1>9 DEF Set!RankOf, avl_rank

LEMMA WithRankIs ==
  ASSUME Agree, NEW r \in 0 .. Len(tree) - 1
  PROVE  Set!WithRank(r) = tree[r + 1]
<1>1. /\ Set!Members = hmap /\ Len(tree) \in Nat
      /\ \A i \in 1 .. Len(tree) : tree[i] \in hmap
  BY MembersSize
<1>2. r + 1 \in 1 .. Len(tree) /\ r + 1 - 1 = r
  BY <1>1
<1>3. tree[r + 1] \in Set!Members /\ Set!RankOf(tree[r + 1]) = r
  BY <1>1, <1>2, RankAt
<1>4. ASSUME NEW m \in Set!Members, Set!RankOf(m) = r
      PROVE  m = tree[r + 1]
  <2>1. Nodes(tree) = hmap
    BY AgreeFacts
  <2>2. PICK i \in 1 .. Len(tree) : m = tree[i]
    BY <1>1, <2>1 DEF Nodes
  <2>3. r = i - 1
    BY <1>4, <2>2, RankAt
  <2>4. i = r + 1
    BY <1>1, <2>3
  <2>. QED
    BY <2>2, <2>4
<1>. QED
  BY <1>3, <1>4 DEF Set!WithRank

(* A search finds the node after the ones to the left of the pair. *)
LEMMA SeekIs ==
  ASSUME Agree, NEW s \in Scores, NEW name \in Names, NEW k, k = Left(tree, s, name)
  PROVE  /\ zset_seekge(s, name) = IF k = Len(tree) THEN None ELSE tree[k + 1]
         /\ k \in 0 .. Len(tree)
         /\ k # Len(tree) => k + 1 \in 1 .. Len(tree)
<1> DEFINE at == {i \in DOMAIN tree : ~zless(tree[i], s, name)}
<1>1. /\ k \in 0 .. Len(tree) /\ Len(tree) \in Nat
      /\ \A i \in 1 .. Len(tree) : zless(tree[i], s, name) <=> i <= k
  BY RankIsLeft, MembersSize
<1>2. DOMAIN tree = 1 .. Len(tree)
  <2>1. Tree(tree)
    BY AgreeFacts
  <2>. QED
    BY <2>1, SeqFacts DEF Tree
<1>3. \A i : i \in at <=> i \in k + 1 .. Len(tree)
  BY <1>1, <1>2
<1>4. zset_seekge(s, name) = IF at = {} THEN None ELSE tree[CHOOSE i \in at : \A j \in at : i <= j]
  BY DEF zset_seekge
<1> HIDE DEF at
<1>5. CASE k = Len(tree)
  <2>1. at = {}
    BY <1>1, <1>3, <1>5
  <2>. QED
    BY <1>1, <1>4, <1>5, <2>1
<1>6. CASE k # Len(tree)
  <2>1. k + 1 \in at /\ k + 1 \in 1 .. Len(tree)
    BY <1>1, <1>3, <1>6
  <2>2. \A j \in at : k + 1 <= j /\ j \in Int
    BY <1>1, <1>3
  <2>3. (CHOOSE i \in at : \A j \in at : i <= j) = k + 1
    <3>1. ASSUME NEW i \in at, \A j \in at : i <= j
          PROVE  i = k + 1
      BY <1>1, <2>1, <2>2, <3>1
    <3>. QED
      BY <2>1, <2>2, <3>1
  <2>. QED
    BY <1>1, <1>4, <1>6, <2>1, <2>3
<1>. QED
  BY <1>5, <1>6

-----------------------------------------------------------------------------
(* What a query by rank walks over: for a first node at or after the pair  *)
(* with k before it, the nodes with the ranks from k + offset on.          *)
Window(k, offset, limit) ==
  {r \in 0 .. Len(tree) - 1 : k + offset <= r /\ r < k + offset + limit}

Walked(s, name, offset, limit) ==
  IF limit <= 0 THEN <<>> ELSE Walk(znode_offset(zset_seekge(s, name), offset), limit)

LEMMA WalkIs ==
  ASSUME Agree, NEW r \in 0 .. Len(tree) - 1, NEW limit \in Int, limit > 0
  PROVE  LET e == IF r + limit < Len(tree) THEN r + limit ELSE Len(tree)
             w == Walk(tree[r + 1], limit)
         IN  /\ e \in r + 1 .. Len(tree)
             /\ w \in Seq(Names) /\ Len(w) = e - r
             /\ \A i \in 1 .. e - r : w[i] = tree[r + i]
<1> DEFINE e == IF r + limit < Len(tree) THEN r + limit ELSE Len(tree)
           w == Walk(tree[r + 1], limit)
<1>1. /\ Len(tree) \in Nat /\ \A i \in 1 .. Len(tree) : tree[i] \in Names
  BY MembersSize
<1>2. r + 1 \in 1 .. Len(tree) /\ r + 1 - 1 = r
  BY <1>1
<1>3. avl_rank(tree[r + 1]) = r
  BY <1>2, RankAt
<1>4. tree[r + 1] # None
  BY ZSetAssumption, <1>1, <1>2
<1>5. w = SubSeq(tree, r + 1, e)
  BY <1>3, <1>4 DEF Walk
<1>6. e \in r + 1 .. Len(tree)
  BY <1>1
<1> HIDE DEF w, e
<1>7. r + 1 \in 1 .. Len(tree) + 1 /\ e \in r + 1 - 1 .. Len(tree) /\ e - (r + 1) + 1 = e - r
  BY <1>1, <1>6
<1>8. tree \in Seq(Names)
  BY DEF Agree, TypeOK
<1>9. /\ SubSeq(tree, r + 1, e) \in Seq(Names) /\ Len(SubSeq(tree, r + 1, e)) = e - (r + 1) + 1
      /\ \A i \in 1 .. e - (r + 1) + 1 : SubSeq(tree, r + 1, e)[i] = tree[r + 1 + i - 1]
  BY <1>7, <1>8, PieceFacts
<1>10. ASSUME NEW i \in 1 .. e - r
       PROVE  w[i] = tree[r + i]
  <2>1. r + 1 + i - 1 = r + i /\ i \in 1 .. e - (r + 1) + 1
    BY <1>1, <1>7
  <2>2. w[i] = tree[r + 1 + i - 1]
    BY <1>5, <1>9, <2>1
  <2>. QED
    BY <2>1, <2>2
<1>. QED
  BY <1>5, <1>6, <1>7, <1>9, <1>10 DEF w, e

LEMMA WalkedIs ==
  ASSUME Agree, NEW s \in Scores, NEW name \in Names, NEW offset \in Int, NEW limit \in Int,
         NEW k, k = Left(tree, s, name),
         NEW length,
         length = IF k = Len(tree) \/ k + offset < 0 THEN 0
                  ELSE Cardinality(Window(k, offset, limit))
  PROVE  /\ Walked(s, name, offset, limit) \in Seq(Names)
         /\ Len(Walked(s, name, offset, limit)) = length
         /\ \A i \in 1 .. length :
              Walked(s, name, offset, limit)[i] = Set!WithRank(k + offset + i - 1)
<1> DEFINE l == Len(tree)
           first == zset_seekge(s, name)
           r == k + offset
           w == Walked(s, name, offset, limit)
<1>1. /\ l \in Nat /\ l = Len(tree) /\ \A i \in 1 .. l : tree[i] \in Names /\ tree[i] # None
  BY ZSetAssumption, MembersSize
<1>2. /\ first = IF k = l THEN None ELSE tree[k + 1]
      /\ k \in 0 .. l
      /\ k # l => k + 1 \in 1 .. l
  BY <1>1, SeekIs
<1>3. k # l => avl_rank(tree[k + 1]) = k
  <2>1. k + 1 - 1 = k
    BY <1>1, <1>2
  <2>. QED
    BY <1>1, <1>2, <2>1, RankAt
<1>4. w = IF limit <= 0 THEN <<>> ELSE Walk(znode_offset(first, offset), limit)
  BY DEF Walked
<1> HIDE DEF l, first, w
<1>5. znode_offset(first, offset) =
        IF k # l /\ r \in 0 .. l - 1 THEN tree[r + 1] ELSE None
  BY <1>1, <1>2, <1>3 DEF znode_offset
<1> HIDE DEF r
<1>6. r \in Int /\ k \in Int /\ r = k + offset
  BY <1>1, <1>2 DEF r
<1>7. CASE k # l /\ r \in 0 .. l - 1 /\ limit > 0
  <2> DEFINE e == IF r + limit < l THEN r + limit ELSE l
  <2>1. w = Walk(tree[r + 1], limit)
    BY <1>4, <1>5, <1>7
  <2>2. /\ e \in r + 1 .. l
        /\ w \in Seq(Names) /\ Len(w) = e - r
        /\ \A i \in 1 .. e - r : w[i] = tree[r + i]
    BY <1>1, <1>7, <2>1, WalkIs
  <2>3. \A q : q \in Window(k, offset, limit) <=> q \in r .. e - 1
    BY <1>1, <1>6, <1>7 DEF Window
  <2> HIDE DEF e
  <2>4. Window(k, offset, limit) = r .. e - 1
    BY <2>3
  <2>5. Cardinality(r .. e - 1) = e - r
    BY <1>1, <1>6, <2>2, FS_Interval
  <2>6. length = e - r
    BY <1>1, <1>6, <1>7, <2>4, <2>5
  <2>7. ASSUME NEW i \in 1 .. e - r
        PROVE  w[i] = Set!WithRank(k + offset + i - 1)
    <3>1. r + i - 1 \in 0 .. Len(tree) - 1 /\ r + i - 1 + 1 = r + i
      <4>1. r \in Int /\ e \in Int /\ r >= 0 /\ e <= l /\ l \in Nat
        BY <1>1, <1>7, <2>2
      <4>. QED
        BY <1>1, <4>1
    <3>2. Set!WithRank(r + i - 1) = tree[r + i]
      BY <3>1, WithRankIs
    <3>. QED
      BY <1>6, <2>2, <3>2
  <2>. QED
    BY <2>2, <2>6, <2>7 DEF w
<1>8. CASE ~(k # l /\ r \in 0 .. l - 1 /\ limit > 0)
  <2>1. w = <<>>
    BY <1>4, <1>5, <1>8 DEF Walk
  <2>2. r >= 0 /\ k # l => Window(k, offset, limit) = {}
    <3>1. ASSUME r >= 0, k # l, NEW q \in Window(k, offset, limit)
          PROVE  FALSE
      BY <1>1, <1>6, <1>8, <3>1 DEF Window
    <3>. QED
      BY <3>1
  <2>3. length = 0
    <3>1. CASE k = l \/ r < 0
      BY <1>1, <1>6, <3>1
    <3>2. CASE ~(k = l \/ r < 0)
      <4>1. Window(k, offset, limit) = {}
        BY <1>6, <2>2, <3>2
      <4>2. Cardinality(Window(k, offset, limit)) = 0
        BY <4>1, FS_EmptySet
      <4>. QED
        BY <1>1, <1>6, <3>2, <4>2
    <3>. QED
      BY <3>1, <3>2
  <2>4. w \in Seq(Names) /\ Len(w) = 0
    BY <2>1
  <2>. QED
    BY <2>3, <2>4 DEF w
<1>. QED
  BY <1>7, <1>8

LEMMA QuerySame ==
  ASSUME Agree, NEW s \in Scores, NEW name \in Names, NEW offset \in Offsets, NEW limit \in Limits,
         do_zquery(s, name, offset, limit)
  PROVE  Set!ZQuery(s, name, offset, limit)
<1> DEFINE k == Left(tree, s, name)
           w == Walked(s, name, offset, limit)
           length == IF k = Len(tree) \/ k + offset < 0 THEN 0
                     ELSE Cardinality(Window(k, offset, limit))
           f == [i \in 1 .. length |-> <<Set!WithRank(k + offset + i - 1),
                                        score[Set!WithRank(k + offset + i - 1)]>>]
<1>1. /\ asked' = <<"zquery", s, name, offset, limit>> /\ score' = score
      /\ answer' = [i \in DOMAIN w |-> <<w[i], score[w[i]]>>]
  BY DEF do_zquery, Walked, Answer, ReadOnly
<1>2. Set!Rank(s, name) = k /\ Set!Cardinality(Set!Members) = Len(tree)
  BY RankIsLeft, MembersSize, SameCardinality
<1>3. offset \in Int /\ limit \in Int
  BY ZSetAssumption
<1> HIDE DEF k, w
<1>4. Set!ZQuery(s, name, offset, limit) <=>
        asked' = <<"zquery", s, name, offset, limit>> /\ answer' = f /\ score' = score
  BY <1>2, SameCardinality DEF Set!ZQuery, Set!Answer, Window
<1> HIDE DEF length
<1>5. /\ w \in Seq(Names) /\ Len(w) = length
      /\ \A i \in 1 .. length : w[i] = Set!WithRank(k + offset + i - 1)
  BY <1>3, WalkedIs DEF k, w, length
<1>6. DOMAIN w = 1 .. length
  BY <1>5
<1>7. answer' = f
  BY <1>1, <1>5, <1>6
<1>. QED
  BY <1>1, <1>4, <1>7

LEMMA CountSame ==
  ASSUME Agree, NEW s1 \in Scores, NEW name1 \in Names, NEW s2 \in Scores, NEW name2 \in Names,
         do_zcount(s1, name1, s2, name2)
  PROVE  Set!ZCount(s1, name1, s2, name2)
<1> DEFINE l == Len(tree)
           k1 == Left(tree, s1, name1)
           k2 == Left(tree, s2, name2)
           z1 == zset_seekge(s1, name1)
           z2 == zset_seekge(s2, name2)
           B == {m \in Set!Members : ~Set!Before(m, s1, name1) /\ Set!Before(m, s2, name2)}
           C == Set!Count(s1, name1, s2, name2)
           count == IF z1 = None \/ z2 = None \/ avl_rank(z2) < avl_rank(z1) THEN 0
                    ELSE avl_rank(z2) - avl_rank(z1)
<1>1. /\ asked' = <<"zcount", s1, name1, s2, name2>> /\ score' = score /\ answer' = count
  BY DEF do_zcount, Answer, ReadOnly
<1>2. /\ l \in Nat /\ l = Len(tree) /\ \A i \in 1 .. l : tree[i] \in Names /\ tree[i] # None
      /\ \A i \in 1 .. l : tree[i] \in hmap
      /\ Set!Members = hmap /\ Cardinality(Set!Members) = l
  BY ZSetAssumption, MembersSize
<1>3. /\ Set!Rank(s2, name2) = k2
      /\ \A i \in 1 .. l : zless(tree[i], s1, name1) <=> i <= k1
      /\ \A i \in 1 .. l : zless(tree[i], s2, name2) <=> i <= k2
  BY <1>2, RankIsLeft
<1>4. /\ z1 = IF k1 = l THEN None ELSE tree[k1 + 1]
      /\ k1 \in 0 .. l /\ (k1 # l => k1 + 1 \in 1 .. l)
  BY <1>2, SeekIs
<1>5. /\ z2 = IF k2 = l THEN None ELSE tree[k2 + 1]
      /\ k2 \in 0 .. l /\ (k2 # l => k2 + 1 \in 1 .. l)
  BY <1>2, SeekIs
<1>6. Set!Cardinality(Set!Members) = l
  BY <1>2, SameCardinality
<1>11. C = Cardinality(B)
  BY SameCardinality DEF Set!Count
<1> HIDE DEF k1, k2, z1, z2, l, C
<1>7. B = {tree[i] : i \in k1 + 1 .. k2}
  <2>1. ASSUME NEW m \in B
        PROVE  m \in {tree[i] : i \in k1 + 1 .. k2}
    <3>1. m \in hmap /\ ~zless(m, s1, name1) /\ zless(m, s2, name2)
      BY <1>2 DEF Set!Before, zless
    <3>2. PICK i \in 1 .. l : m = tree[i]
      BY <1>2, <3>1, AgreeFacts DEF Nodes
    <3>3. i \in k1 + 1 .. k2
      BY <1>2, <1>3, <1>4, <1>5, <3>1, <3>2
    <3>. QED
      BY <3>2, <3>3
  <2>2. ASSUME NEW i \in k1 + 1 .. k2
        PROVE  tree[i] \in B
    <3>1. i \in 1 .. l /\ ~(i <= k1) /\ i <= k2
      BY <1>2, <1>4, <1>5
    <3>2. tree[i] \in Set!Members /\ ~zless(tree[i], s1, name1) /\ zless(tree[i], s2, name2)
      BY <1>2, <1>3, <3>1
    <3>. QED
      BY <3>2 DEF Set!Before, zless
  <2>. QED
    BY <2>1, <2>2
<1> HIDE DEF B
<1>8. Cardinality(B) = IF k1 + 1 > k2 THEN 0 ELSE k2 - (k1 + 1) + 1
  <2>1. Tree(tree) /\ k1 + 1 \in 1 .. Len(tree) + 1 /\ k2 \in 0 .. Len(tree)
    BY <1>2, <1>4, <1>5, AgreeFacts
  <2>2. Cardinality({tree[i] : i \in k1 + 1 .. k2}) = IF k1 + 1 > k2 THEN 0 ELSE k2 - (k1 + 1) + 1
    BY <2>1, PartSize
  <2>. QED
    BY ONLY <1>7, <2>2
<1>9. count = IF k2 = l THEN 0 ELSE Cardinality(B)
  <2>1. k1 # l => z1 = tree[k1 + 1] /\ z1 # None /\ avl_rank(z1) = k1
    <3>1. k1 + 1 - 1 = k1
      BY <1>2, <1>4
    <3>. QED
      BY <1>2, <1>4, <3>1, RankAt
  <2>2. k2 # l => z2 = tree[k2 + 1] /\ z2 # None /\ avl_rank(z2) = k2
    <3>1. k2 + 1 - 1 = k2
      BY <1>2, <1>5
    <3>. QED
      BY <1>2, <1>5, <3>1, RankAt
  <2>3. k1 = l => z1 = None
    BY <1>4
  <2>4. k2 = l => z2 = None
    BY <1>5
  <2>5. k1 \in Nat /\ k2 \in Nat /\ k1 <= l /\ k2 <= l
    BY <1>2, <1>4, <1>5
  <2>6. CASE k2 = l
    BY <2>4, <2>6
  <2>7. CASE k2 # l /\ k1 = l
    <3>1. k1 + 1 > k2
      BY <1>2, <2>5, <2>7
    <3>. QED
      BY <1>8, <2>3, <2>7, <3>1
  <2>8. CASE k2 # l /\ k1 # l
    <3>1. count = IF k2 < k1 THEN 0 ELSE k2 - k1
      BY <2>1, <2>2, <2>8
    <3>. QED
      BY <1>8, <2>5, <2>8, <3>1
  <2>. QED
    BY <2>6, <2>7, <2>8
<1>10. count \in 0 .. l
  <2>1. CASE k2 = l
    BY <1>2, <1>9, <2>1
  <2>2. CASE k2 # l
    BY <1>2, <1>4, <1>5, <1>8, <1>9, <2>2
  <2>. QED
    BY <2>1, <2>2
<1>12. k2 < l => count = C
  BY <1>2, <1>5, <1>9, <1>11
<1> HIDE DEF count
<1>13. \E n \in 0 .. Set!Cardinality(Set!Members) :
         /\ Set!Rank(s2, name2) < Set!Cardinality(Set!Members) => n = Set!Count(s1, name1, s2, name2)
         /\ Set!Answer(<<"zcount", s1, name1, s2, name2>>, n)
  <2>1. Set!Rank(s2, name2) < Set!Cardinality(Set!Members) => count = Set!Count(s1, name1, s2, name2)
    BY <1>3, <1>6, <1>12 DEF C
  <2>2. Set!Answer(<<"zcount", s1, name1, s2, name2>>, count)
    BY <1>1 DEF Set!Answer
  <2>3. count \in 0 .. Set!Cardinality(Set!Members)
    BY <1>6, <1>10
  <2>. QED
    BY ONLY <2>1, <2>2, <2>3
<1>. QED
  BY <1>1, <1>13 DEF Set!ZCount

-----------------------------------------------------------------------------
LEMMA StepSame ==
  ASSUME Agree, [Next]_vars
  PROVE  [Set!Next]_(Set!vars)
<1>1. /\ \A n \in Names : zset_lookup(n) <=> n \in hmap
      /\ \A n \in Names : n \in hmap <=> score[n] # None
      /\ Set!Members = hmap
      /\ score \in [Names -> Scores \cup {None}]
  BY AgreeFacts, MembersSize DEF Agree, TypeOK
<1>2. CASE UNCHANGED vars
  BY <1>2 DEF vars, Set!vars
<1>3. CASE zset_clear
  BY <1>3 DEF zset_clear, Set!Clear, Set!Next
<1>4. ASSUME NEW n \in Names, do_zrem(n)
      PROVE  Set!ZRem(n)
  <2>1. zset_lookup(n) <=> n \in Set!Members
    BY <1>1
  <2>2. asked' = <<"zrem", n>> /\ answer' = (n \in Set!Members)
    <3>1. zset_lookup(n) = (n \in Set!Members)
      BY <2>1 DEF zset_lookup
    <3>. QED
      BY <1>4, <3>1 DEF do_zrem, Answer
  <2>3. score' = [score EXCEPT ![n] = None]
    <3>1. CASE zset_lookup(n)
      BY <1>4, <3>1 DEF do_zrem, zset_delete
    <3>2. CASE ~zset_lookup(n)
      <4>1. score' = score /\ score[n] = None
        BY <1>1, <1>4, <3>2 DEF do_zrem
      <4>. QED
        BY <1>1, <4>1
    <3>. QED
      BY <3>1, <3>2
  <2>. QED
    BY <2>2, <2>3 DEF Set!ZRem, Set!Answer
<1>5. ASSUME NEW n \in Names, do_zscore(n)
      PROVE  Set!ZScore(n)
  <2>1. (IF zset_lookup(n) THEN score[n] ELSE None) = score[n]
    BY <1>1
  <2>. QED
    BY <1>5, <2>1 DEF do_zscore, Answer, ReadOnly, Set!ZScore, Set!Answer
<1>6. ASSUME NEW n \in Names, do_zrank(n)
      PROVE  Set!ZRank(n)
  <2>1. zset_lookup(n) <=> n \in Set!Members
    BY <1>1
  <2>2. ASSUME n \in Set!Members
        PROVE  avl_rank(n) = Set!RankOf(n)
    <3>1. n \in Nodes(tree)
      BY <1>1, <2>2, AgreeFacts
    <3>2. PICK i \in 1 .. Len(tree) : n = tree[i]
      BY <3>1 DEF Nodes
    <3>. QED
      BY <3>2, RankAt
  <2>3. (IF zset_lookup(n) THEN avl_rank(n) ELSE None)
          = IF n \in Set!Members THEN Set!RankOf(n) ELSE None
    BY <2>1, <2>2
  <2>. QED
    BY <1>6, <2>3 DEF do_zrank, Answer, ReadOnly, Set!ZRank, Set!Answer
<1>7. ASSUME NEW n \in Names, NEW s \in Scores, do_zadd(n, s)
      PROVE  Set!ZAdd(n, s)
  <2>1. zset_lookup(n) <=> n \in Set!Members
    BY <1>1
  <2>. QED
    BY <1>7, <2>1 DEF do_zadd, Answer, Set!ZAdd, Set!Answer
<1>8. ASSUME NEW n \in Names, NEW s \in Scores, NEW o \in Offsets, NEW l \in Limits,
             do_zquery(s, n, o, l)
      PROVE  Set!ZQuery(s, n, o, l)
  BY <1>8, QuerySame
<1>9. ASSUME NEW n \in Names, NEW s \in Scores, NEW n2 \in Names, NEW s2 \in Scores,
             do_zcount(s, n, s2, n2)
      PROVE  Set!ZCount(s, n, s2, n2)
  BY <1>9, CountSame
<1>. QED
  BY <1>2, <1>3, <1>4, <1>5, <1>6, <1>7, <1>8, <1>9 DEF Next, Set!Next

(* Every command of a sorted set, its changes and its answers, is a step   *)
(* of SortedSet: ranks are counted there and ranges selected, and found    *)
(* here through positions, the search for a pair and walks over the tree.  *)
(* zcount counts the range when a member lies at or after its second pair, *)
(* and is promised nothing more beyond the last member.                    *)
THEOREM ImplementsSortedSetCorrect == Spec => ImplementsSortedSet
<1>1. Init => Agree
  BY AgreeInit
<1>2. Agree /\ [Next]_vars => Agree'
  BY AgreeStep
<1>3. Init => Set!Init
  BY DEF Init, Set!Init
<1>4. Agree /\ [Next]_vars => [Set!Next]_(Set!vars)
  BY StepSame
<1>. QED
  BY <1>1, <1>2, <1>3, <1>4, PTL DEF Spec, ImplementsSortedSet, Set!Spec

=============================================================================
