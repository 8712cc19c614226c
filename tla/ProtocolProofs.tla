--------------------------- MODULE ProtocolProofs ---------------------------
(***************************************************************************)
(* TLAPS proofs about Protocol, for any values of a cell, widths, sizes of *)
(* messages and limits, commands and answers: the buffers of a connection  *)
(* stay sound, and the connection implements Exchange.                     *)
(*                                                                         *)
(* The server takes from its incoming buffer what a length in it tells it  *)
(* to, and keeps less than a message there only as long as every length    *)
(* that the client writes is one that the server accepts: so the invariant *)
(* is about the whole stream of requests, from the client's wbuf over the  *)
(* socket to the buffer (StreamOK), besides both ends (ServerOK,           *)
(* ClientOK) and the socket (PipeOK).                                      *)
(*                                                                         *)
(* A response is written piece by piece into a buffer that may move.  What *)
(* the buffer shows is said by its unread cells and the open positions     *)
(* among them (Shows), so that in the end it shows the response and no     *)
(* position is left (ShowsResponse).  What is written is read back as it   *)
(* was: a command by the server (ParseBack), a value by the client         *)
(* (PrintBack).                                                            *)
(*                                                                         *)
(* For the exchange, the stream of requests is exactly the messages of     *)
(* those that have no answer yet (SentOK), the stream of responses those   *)
(* of the answers that are not printed yet (ComingOK), and the server      *)
(* closes only over a request that it refuses (ClosingOK).                 *)
(***************************************************************************)
EXTENDS Protocol, SequenceTheorems, FiniteSetTheorems, WellFoundedInduction, TLAPS

(* A set of numbers has a least one; so one that has 0 and with every      *)
(* number the next has them all.                                           *)
LEMMA LeastNat ==
  ASSUME NEW S \in SUBSET Nat, S # {}
  PROVE  \E v \in S : \A w \in S : v <= w
<1>1. \E v \in S : \A w \in S : ~(<<w, v>> \in OpToRel(<, Nat))
  BY NatLessThanWellFounded, WFMin
<1>2. \E v \in S : \A w \in S : ~(w < v)
  BY <1>1 DEF OpToRel
<1>. QED
  BY <1>2

(* What holds of 0 and passes from each number to the next. *)
LEMMA AllUpTo ==
  ASSUME NEW n \in Nat, NEW Q, 0 \in Q, \A k \in 0 .. n - 1 : k \in Q => k + 1 \in Q
  PROVE  0 .. n \subseteq Q
<1> DEFINE S == 0 .. n \ Q
<1> SUFFICES ASSUME S # {} PROVE FALSE
  OBVIOUS
<1>1. PICK v \in S : \A w \in S : v <= w
  <2>1. S \in SUBSET Nat
    OBVIOUS
  <2> HIDE DEF S
  <2>. QED
    BY <2>1, LeastNat
<1>2. v \in 1 .. n
  OBVIOUS
<1>3. v - 1 \in 0 .. n - 1 /\ v - 1 \notin S /\ (v - 1) + 1 = v
  BY <1>1, <1>2
<1>4. v - 1 \in Q
  BY <1>3
<1>5. v \in Q
  BY <1>3, <1>4
<1>. QED
  BY <1>5

(* A cell has a value, and a number at least one cell. *)
LEMMA CellsFacts == Base \in Nat /\ Base > 0 /\ Width \in Nat /\ Width > 0
BY CellsAssumption

(* Division with a rest. *)
LEMMA Divide ==
  ASSUME NEW n \in Int
  PROVE  /\ n \div Base \in Int /\ n % Base \in Cell
         /\ n = (n % Base) + Base * (n \div Base)
         /\ n \in Nat => n \div Base \in Nat
BY CellsFacts DEF Cell

(* A shorter number stays shorter without its last cell. *)
LEMMA DivideLess ==
  ASSUME NEW m \in Nat, NEW n \in Nat, m <= n
  PROVE  m \div Base <= n \div Base
<1> DEFINE x == n \div Base
           y == m \div Base
           r == n % Base
           s == m % Base
           b == Base
<1>1. /\ n = r + b * x /\ m = s + b * y /\ x \in Nat /\ y \in Nat /\ r \in 0 .. b - 1 /\ s \in 0 .. b - 1
      /\ b \in Nat /\ b > 0
  BY Divide, CellsFacts DEF Cell
<1> HIDE DEF x, y, r, s, b
<1>2. ASSUME y > x
      PROVE  FALSE
  <2>1. b * (x + 1) <= b * y
    BY <1>1, <1>2
  <2>2. b * (x + 1) = b * x + b
    BY <1>1
  <2> DEFINE u == b * x
             v == b * y
  <2>3. u \in Int /\ v \in Int /\ u + b <= v /\ n = u + r /\ m = v + s
    BY <1>1, <2>1, <2>2
  <2> HIDE DEF u, v
  <2>. QED
    BY <1>1, <2>3
<1>3. y <= x
  BY <1>1, <1>2
<1>. QED
  BY <1>3 DEF x, y

(* What is left of a number after each of its cells *)
ShiftEq(n, width, f) ==
  f = [i \in 0 .. width |-> IF i = 0 THEN n ELSE f[i - 1] \div Base]

ShiftedIs(n, width, f) ==
  /\ f[0] = n
  /\ \A i \in 0 .. width : f[i] \in Int /\ (n \in Nat => f[i] \in Nat)
  /\ \A i \in 0 .. width - 1 : f[i + 1] = f[i] \div Base

(* The recursion of Shifted() has a solution, built up by its lengths. *)
LEMMA ShiftExists ==
  ASSUME NEW n \in Int, NEW width \in Nat
  PROVE  \E f : ShiftEq(n, width, f)
<1> DEFINE Q == {k \in Nat : \E f : ShiftEq(n, k, f)}
<1>1. 0 \in Q
  <2> DEFINE f == [i \in 0 .. 0 |-> n]
  <2>1. ShiftEq(n, 0, f)
    BY DEF ShiftEq
  <2>. QED
    BY <2>1
<1>2. ASSUME NEW k \in Nat, k \in Q
      PROVE  k + 1 \in Q
  <2>1. PICK f : ShiftEq(n, k, f)
    BY <1>2
  <2> DEFINE F(i) == IF i = k + 1 THEN f[k] \div Base ELSE f[i]
             g == [i \in 0 .. k + 1 |-> F(i)]
             G(i) == IF i = 0 THEN n ELSE g[i - 1] \div Base
  <2>2. \A i \in 0 .. k : f[i] = IF i = 0 THEN n ELSE f[i - 1] \div Base
    <3> DEFINE H(i) == IF i = 0 THEN n ELSE f[i - 1] \div Base
    <3>1. f = [i \in 0 .. k |-> H(i)]
      BY <2>1 DEF ShiftEq
    <3> HIDE DEF H
    <3>2. \A i \in 0 .. k : f[i] = H(i)
      BY <3>1
    <3>. QED
      BY <3>2 DEF H
  <2>3. \A i \in 0 .. k + 1 : g[i] = F(i)
    OBVIOUS
  <2>4. \A i \in 0 .. k + 1 : F(i) = G(i)
    <3> TAKE i \in 0 .. k + 1
    <3>1. CASE i = 0
      BY <2>2, <3>1
    <3>2. CASE i \in 1 .. k
      <4>1. g[i - 1] = f[i - 1]
        BY <2>3, <3>2
      <4>. QED
        BY <2>2, <3>2, <4>1
    <3>3. CASE i = k + 1
      <4>1. g[k] = f[k] /\ i - 1 = k
        BY <2>3, <3>3
      <4>. QED
        BY <3>3, <4>1
    <3>. QED
      BY <3>1, <3>2, <3>3
  <2>5. g = [i \in 0 .. k + 1 |-> G(i)]
    BY <2>4
  <2>6. ShiftEq(n, k + 1, g)
    BY <2>5 DEF ShiftEq
  <2>. QED
    BY <2>6
<1>3. 0 .. width \subseteq Q
  <2> HIDE DEF Q
  <2>. QED
    BY <1>1, <1>2, AllUpTo
<1>. QED
  BY <1>3

(* So Shifted() is what its definition says, and its steps are numbers. *)
LEMMA ShiftedFacts ==
  ASSUME NEW n \in Int, NEW width \in Nat
  PROVE  ShiftedIs(n, width, Shifted(n, width))
<1> DEFINE g == CHOOSE h : ShiftEq(n, width, h)
           G(i) == IF i = 0 THEN n ELSE g[i - 1] \div Base
<1>1. ShiftEq(n, width, g)
  BY ShiftExists
<1>2. Shifted(n, width) = g
  BY DEF Shifted, ShiftEq
<1>3. g = [i \in 0 .. width |-> G(i)]
  BY <1>1 DEF ShiftEq
<1> HIDE DEF G, g
<1>4. \A i \in 0 .. width : g[i] = G(i)
  BY <1>3
<1>5. g[0] = n /\ \A i \in 0 .. width - 1 : g[i + 1] = g[i] \div Base
  BY <1>4 DEF G
<1> DEFINE Q == {i \in 0 .. width : g[i] \in Int /\ (n \in Nat => g[i] \in Nat)}
<1>6. 0 .. width \subseteq Q
  <2>1. 0 \in Q
    BY <1>5
  <2>2. ASSUME NEW k \in 0 .. width - 1, k \in Q
        PROVE  k + 1 \in Q
    BY <1>5, <2>2, Divide
  <2> HIDE DEF Q
  <2>. QED
    BY <2>1, <2>2, AllUpTo
<1>. QED
  BY <1>2, <1>5, <1>6 DEF ShiftedIs

(* A number is written as cells, and one that is not above k_max_msg is 0  *)
(* after the last of them.                                                 *)
LEMMA CellsType ==
  ASSUME NEW n \in Int, NEW width \in Nat
  PROVE  Cells(n, width) \in Seq(Cell) /\ Len(Cells(n, width)) = width
<1>1. \A i \in 1 .. width : Shifted(n, width)[i - 1] % Base \in Cell
  <2> TAKE i \in 1 .. width
  <2>1. Shifted(n, width)[i - 1] \in Int
    BY ShiftedFacts DEF ShiftedIs
  <2>. QED
    BY <2>1, Divide
<1> DEFINE F(i) == Shifted(n, width)[i - 1] % Base
<1>2. Cells(n, width) = [i \in 1 .. width |-> F(i)]
  BY DEF Cells
<1> HIDE DEF F
<1>3. \A i \in 1 .. width : F(i) \in Cell
  BY <1>1 DEF F
<1>. QED
  BY <1>2, <1>3, IsASeq

(* A smaller number leaves no more after the same cells. *)
LEMMA ShiftedLess ==
  ASSUME NEW m \in Nat, NEW n \in Nat, m <= n, NEW width \in Nat
  PROVE  Shifted(m, width)[width] <= Shifted(n, width)[width]
<1> DEFINE f == Shifted(m, width)
           g == Shifted(n, width)
           Q == {i \in 0 .. width : f[i] <= g[i]}
<1>1. ShiftedIs(m, width, f) /\ ShiftedIs(n, width, g)
  BY ShiftedFacts
<1> HIDE DEF f, g
<1>2. 0 \in Q
  BY <1>1 DEF ShiftedIs
<1>3. ASSUME NEW k \in 0 .. width - 1, k \in Q
      PROVE  k + 1 \in Q
  BY <1>1, <1>3, DivideLess DEF ShiftedIs
<1>4. 0 .. width \subseteq Q
  <2> HIDE DEF Q
  <2>. QED
    BY <1>2, <1>3, AllUpTo
<1>. QED
  BY <1>4 DEF f, g

-----------------------------------------------------------------------------
(* A number is read from its cells by a fold from the last of them.        *)
NumberEq(s, f) ==
  f = [S \in SUBSET (DOMAIN s) |->
         IF S = {} THEN 0 ELSE s[Min(S)] + Base * f[S \ {Min(S)}]]

(* The same for the cells from the m-th on *)
NumberFrom(s, m, n, f) ==
  f = [S \in SUBSET (m .. n) |->
         IF S = {} THEN 0 ELSE s[Min(S)] + Base * f[S \ {Min(S)}]]

(* The least of a set, where it is known. *)
LEMMA MinIs ==
  ASSUME NEW m \in Int, NEW S \in SUBSET Int, m \in S, \A i \in S : m <= i
  PROVE  Min(S) = m
<1>1. \A x \in S : (\A y \in S : x <= y) => x = m
  OBVIOUS
<1>2. Min(S) \in S /\ \A y \in S : Min(S) <= y
  BY DEF Min
<1>. QED
  BY <1>1, <1>2

(* The fold that reads a number has a solution for any cells. *)
LEMMA NumberExists ==
  ASSUME NEW n \in Nat, NEW s
  PROVE  \E f : NumberFrom(s, 1, n, f)
<1> DEFINE Q == {k \in 0 .. n : \E f : NumberFrom(s, n - k + 1, n, f)}
<1>1. 0 \in Q
  <2> DEFINE f == [S \in SUBSET (n + 1 .. n) |-> 0]
  <2>1. \A S \in SUBSET (n + 1 .. n) : S = {}
    OBVIOUS
  <2>2. NumberFrom(s, n + 1, n, f)
    BY <2>1 DEF NumberFrom
  <2>3. n - 0 + 1 = n + 1
    OBVIOUS
  <2>. QED
    BY <2>2, <2>3
<1>2. ASSUME NEW k \in 0 .. n - 1, k \in Q
      PROVE  k + 1 \in Q
  <2>1. PICK m : m = n - k
    OBVIOUS
  <2>2. m \in 1 .. n /\ n - k + 1 = m + 1 /\ n - (k + 1) + 1 = m
    BY <2>1
  <2>3. PICK f : NumberFrom(s, m + 1, n, f)
    BY <1>2, <2>2
  <2> DEFINE F(S) == IF m \in S THEN s[m] + Base * f[S \ {m}] ELSE f[S]
             g == [S \in SUBSET (m .. n) |-> F(S)]
             G(S) == IF S = {} THEN 0 ELSE s[Min(S)] + Base * g[S \ {Min(S)}]
             H(S) == IF S = {} THEN 0 ELSE s[Min(S)] + Base * f[S \ {Min(S)}]
  <2>4. \A S \in SUBSET (m + 1 .. n) : f[S] = H(S)
    <3>1. f = [S \in SUBSET (m + 1 .. n) |-> H(S)]
      BY <2>3 DEF NumberFrom
    <3> HIDE DEF H
    <3>. QED
      BY <3>1
  <2>5. \A S \in SUBSET (m .. n) : g[S] = F(S)
    OBVIOUS
  <2>6. ASSUME NEW S \in SUBSET (m .. n)
        PROVE  F(S) = G(S)
    <3>1. CASE m \in S
      <4>1. Min(S) = m
        <5>1. S \in SUBSET Int /\ \A i \in S : m <= i
          BY <2>2
        <5>. QED
          BY <2>2, <3>1, <5>1, MinIs
      <4>2. S \ {m} \in SUBSET (m .. n) /\ m \notin S \ {m} /\ S # {}
        BY <3>1
      <4>3. g[S \ {m}] = f[S \ {m}]
        BY <2>5, <4>2
      <4>. QED
        BY <3>1, <4>1, <4>2, <4>3
    <3>2. CASE m \notin S
      <4>1. S \in SUBSET (m + 1 .. n)
        BY <2>2, <3>2
      <4>2. f[S] = H(S)
        BY <2>4, <4>1
      <4>3. g[S \ {Min(S)}] = f[S \ {Min(S)}]
        <5>1. S \ {Min(S)} \in SUBSET (m .. n) /\ m \notin S \ {Min(S)}
          BY <3>2
        <5>. QED
          BY <2>5, <5>1
      <4>. QED
        BY <3>2, <4>2, <4>3
    <3>. QED
      BY <3>1, <3>2
  <2>7. g = [S \in SUBSET (m .. n) |-> G(S)]
    BY <2>6
  <2>8. NumberFrom(s, m, n, g)
    BY <2>7 DEF NumberFrom
  <2>. QED
    BY <2>2, <2>8
<1>3. 0 .. n \subseteq Q
  <2> HIDE DEF Q
  <2>. QED
    BY <1>1, <1>2, AllUpTo
<1>4. n - n + 1 = 1 /\ n \in Q
  BY <1>3
<1>. QED
  BY <1>4

(* So there is a value for the cells from each one on. *)
ValuesOf(s, v) ==
  /\ v[Len(s) + 1] = 0
  /\ \A i \in 1 .. Len(s) : v[i] = s[i] + Base * v[i + 1]
  /\ \A i \in 1 .. Len(s) + 1 : v[i] \in Nat

(* What read_u32() reads is a number, the first of those values. *)
LEMMA NumberFacts ==
  ASSUME NEW s \in Seq(Cell)
  PROVE  /\ Number(s) \in Nat
         /\ \E v : ValuesOf(s, v) /\ v[1] = Number(s)
<1> DEFINE n == Len(s)
           g == CHOOSE h : NumberEq(s, h)
<1>1. n \in Nat /\ DOMAIN s = 1 .. n /\ \A i \in 1 .. n : s[i] \in Nat
  BY LenProperties, ElementOfSeq, CellsFacts DEF Cell
<1>2. NumberEq(s, g)
  <2>1. \E f : NumberFrom(s, 1, n, f)
    BY <1>1, NumberExists
  <2>. QED
    BY <1>1, <2>1 DEF NumberFrom, NumberEq
<1>3. Number(s) = g[1 .. n]
  BY <1>1 DEF Number, FoldRight, MapThenFoldSet, NumberEq
<1> DEFINE G(S) == IF S = {} THEN 0 ELSE s[Min(S)] + Base * g[S \ {Min(S)}]
<1>4. g = [S \in SUBSET (1 .. n) |-> G(S)]
  BY <1>1, <1>2 DEF NumberEq
<1> HIDE DEF g, n
<1>5. \A S \in SUBSET (1 .. n) : g[S] = G(S)
  <2> HIDE DEF G
  <2>. QED
    BY <1>4
<1> DEFINE v == [i \in 1 .. n + 1 |-> g[i .. n]]
<1>6. v[n + 1] = 0
  <2>1. n + 1 \in 1 .. n + 1 /\ n + 1 .. n = {}
    BY <1>1
  <2>2. v[n + 1] = g[n + 1 .. n]
    BY <2>1
  <2>. QED
    BY <1>5, <2>1, <2>2
<1>7. ASSUME NEW i \in 1 .. n
      PROVE  v[i] = s[i] + Base * v[i + 1]
  <2>1. i .. n \in SUBSET (1 .. n) /\ i \in i .. n /\ i \in 1 .. n + 1 /\ i + 1 \in 1 .. n + 1
    BY <1>1
  <2>2. Min(i .. n) = i
    <3>1. i .. n \in SUBSET Int /\ (\A j \in i .. n : i <= j) /\ i \in Int
      BY <1>1
    <3>. QED
      BY <2>1, <3>1, MinIs
  <2>3. (i .. n) \ {i} = i + 1 .. n
    BY <1>1
  <2>4. v[i] = g[i .. n] /\ v[i + 1] = g[i + 1 .. n]
    BY <2>1
  <2>5. g[i .. n] = G(i .. n)
    BY <1>5, <2>1
  <2>. QED
    BY <2>1, <2>2, <2>3, <2>4, <2>5
<1>8. Number(s) = v[1]
  BY <1>1, <1>3
<1> HIDE DEF v
<1> DEFINE Q == {k \in 0 .. n : v[n + 1 - k] \in Nat}
<1>9. 0 \in Q
  BY <1>1, <1>6
<1>10. ASSUME NEW k \in 0 .. n - 1, k \in Q
       PROVE  k + 1 \in Q
  <2>1. PICK i : i = n - k
    OBVIOUS
  <2>2. i \in 1 .. n /\ n + 1 - k = i + 1 /\ n + 1 - (k + 1) = i
    BY <1>1, <2>1
  <2>3. v[i + 1] \in Nat /\ s[i] \in Nat /\ v[i] = s[i] + Base * v[i + 1]
    BY <1>1, <1>7, <1>10, <2>2
  <2>4. v[i] \in Nat
    BY <2>3, CellsFacts
  <2>. QED
    BY <1>1, <2>2, <2>4
<1>11. 0 .. n \subseteq Q
  <2> HIDE DEF Q
  <2>. QED
    BY <1>1, <1>9, <1>10, AllUpTo
<1>12. ASSUME NEW i \in 1 .. n + 1
       PROVE  v[i] \in Nat
  <2>1. n + 1 - i \in 0 .. n /\ n + 1 - (n + 1 - i) = i
    BY <1>1
  <2>2. n + 1 - i \in Q
    BY <1>11, <2>1
  <2>. QED
    BY <2>1, <2>2
<1>13. ValuesOf(s, v)
  BY <1>6, <1>7, <1>12 DEF ValuesOf, n
<1>. QED
  BY <1>1, <1>8, <1>12, <1>13

(* A number is read as it was written, when it fits. *)
LEMMA NumberBack ==
  ASSUME NEW width \in Nat, NEW n \in Numbers(width)
  PROVE  /\ Cells(n, width) \in Seq(Cell) /\ Len(Cells(n, width)) = width
         /\ Number(Cells(n, width)) = n
<1> DEFINE s == Cells(n, width)
           f == Shifted(n, width)
<1>1. n \in Nat /\ f[width] = 0
  BY DEF Numbers
<1>2. s \in Seq(Cell) /\ Len(s) = width
  BY <1>1, CellsType
<1>3. ShiftedIs(n, width, f)
  BY <1>1, ShiftedFacts
<1>4. \A i \in 1 .. width : s[i] = f[i - 1] % Base
  BY DEF Cells
<1>5. PICK v : ValuesOf(s, v) /\ v[1] = Number(s)
  BY <1>2, NumberFacts
<1> HIDE DEF s, f
<1> DEFINE Q == {k \in 0 .. width : v[width + 1 - k] = f[width - k]}
<1>6. 0 \in Q
  BY <1>1, <1>2, <1>5 DEF ValuesOf
<1>7. ASSUME NEW k \in 0 .. width - 1, k \in Q
      PROVE  k + 1 \in Q
  <2>1. PICK i : i = width - k
    OBVIOUS
  <2>2. /\ i \in 1 .. width /\ width + 1 - k = i + 1 /\ width + 1 - (k + 1) = i
        /\ width - (k + 1) = i - 1 /\ i - 1 \in 0 .. width - 1 /\ (i - 1) + 1 = i
    BY <2>1
  <2>3. v[i + 1] = f[i] /\ v[i] = s[i] + Base * v[i + 1] /\ s[i] = f[i - 1] % Base
    BY <1>2, <1>4, <1>5, <1>7, <2>1, <2>2 DEF ValuesOf
  <2>4. f[i] = f[i - 1] \div Base /\ f[i - 1] \in Int
    <3>1. ASSUME NEW j \in 0 .. width - 1
          PROVE  f[j + 1] = f[j] \div Base /\ f[j] \in Int
      BY <1>1, <1>3 DEF ShiftedIs
    <3>. QED
      BY <2>2, <3>1
  <2>5. v[i] = f[i - 1]
    BY <2>3, <2>4, Divide
  <2>6. v[width + 1 - (k + 1)] = f[width - (k + 1)]
    BY <2>2, <2>5
  <2>7. k + 1 \in 0 .. width
    OBVIOUS
  <2>. QED
    BY <2>6, <2>7
<1>8. 0 .. width \subseteq Q
  <2> HIDE DEF Q
  <2>. QED
    BY <1>6, <1>7, AllUpTo
<1>9. width \in Q /\ width + 1 - width = 1 /\ width - width = 0
  BY <1>8
<1>10. Number(s) = n
  BY <1>3, <1>5, <1>9 DEF ShiftedIs
<1>. QED
  BY <1>2, <1>10 DEF s

(* What is not above k_max_msg is a u32. *)
LEMMA LengthFits ==
  ASSUME NEW n \in Nat, n <= MaxMsg
  PROVE  n \in Numbers(Width)
<1>1. MaxMsg \in Nat /\ Shifted(MaxMsg, Width)[Width] = 0
  BY ConstantsAssumption DEF Numbers
<1>2. Shifted(n, Width)[Width] <= Shifted(MaxMsg, Width)[Width]
  BY <1>1, ShiftedLess, CellsFacts
<1>3. Shifted(n, Width)[Width] \in Nat
  BY ShiftedFacts, CellsFacts DEF ShiftedIs
<1>. QED
  BY <1>1, <1>2, <1>3 DEF Numbers

(* A length is read as it was written. *)
LEMMA U32Facts ==
  ASSUME NEW n \in Nat, n <= MaxMsg
  PROVE  U32(n) \in Seq(Cell) /\ Len(U32(n)) = Width /\ Number(U32(n)) = n
BY LengthFits, NumberBack, CellsFacts DEF U32

-----------------------------------------------------------------------------
(* Sequences. *)
LEMMA SeqFacts ==
  ASSUME NEW S, NEW t \in Seq(S)
  PROVE  Len(t) \in Nat /\ DOMAIN t = 1 .. Len(t) /\ \A i \in 1 .. Len(t) : t[i] \in S
BY LenProperties, ElementOfSeq

(* A piece of a sequence, which may be empty. *)
LEMMA PieceFacts ==
  ASSUME NEW S, NEW t \in Seq(S), NEW a \in 1 .. Len(t) + 1, NEW b \in a - 1 .. Len(t)
  PROVE  /\ SubSeq(t, a, b) \in Seq(S) /\ Len(SubSeq(t, a, b)) = b - a + 1
         /\ \A i \in 1 .. b - a + 1 : SubSeq(t, a, b)[i] = t[a + i - 1]
<1>1. Len(t) \in Nat /\ \A i \in 1 .. Len(t) : t[i] \in S
  BY SeqFacts
<1>2. a \in Int /\ b \in Int /\ \A i \in a .. b : t[i] \in S
  BY <1>1
<1>3. /\ SubSeq(t, a, b) \in Seq(S)
      /\ Len(SubSeq(t, a, b)) = IF a <= b THEN b - a + 1 ELSE 0
      /\ \A i \in 1 .. b - a + 1 : SubSeq(t, a, b)[i] = t[a + i - 1]
  BY <1>2, SubSeqProperties
<1>. QED
  BY <1>1, <1>2, <1>3

(* A sequence after another. *)
LEMMA TwoPieces ==
  ASSUME NEW S, NEW p \in Seq(S), NEW q \in Seq(S)
  PROVE  /\ p \o q \in Seq(S) /\ Len(p \o q) = Len(p) + Len(q)
         /\ \A i \in 1 .. Len(p) : (p \o q)[i] = p[i]
         /\ \A i \in Len(p) + 1 .. Len(p) + Len(q) : (p \o q)[i] = q[i - Len(p)]
<1>1. /\ p \o q \in Seq(S) /\ Len(p \o q) = Len(p) + Len(q)
      /\ \A i \in 1 .. Len(p) + Len(q) :
           (p \o q)[i] = IF i <= Len(p) THEN p[i] ELSE q[i - Len(p)]
  BY ConcatProperties
<1>2. Len(p) \in Nat /\ Len(q) \in Nat
  BY LenProperties
<1>3. \A i \in 1 .. Len(p) : i \in 1 .. Len(p) + Len(q) /\ i <= Len(p)
  BY <1>2
<1>4. \A i \in Len(p) + 1 .. Len(p) + Len(q) : i \in 1 .. Len(p) + Len(q) /\ ~(i <= Len(p))
  BY <1>2
<1>. QED
  BY <1>1, <1>3, <1>4

-----------------------------------------------------------------------------
(* The buffers: what append(), consume() and shrink_if_wasteful() leave    *)
(* readable, and the array that they need.                                 *)
Buffers == [buf : Seq(Cell), readable_begin : Nat, capacity : Nat, placeholder_stack : Seq(Nat)]

Sound(b) ==
  b \in Buffers /\ b.readable_begin <= writable_begin(b) /\ writable_begin(b) <= b.capacity

(* What a sound buffer is made of. *)
LEMMA SoundFacts ==
  ASSUME NEW b, Sound(b)
  PROVE  /\ writable_begin(b) \in Nat /\ b.readable_begin \in Nat /\ b.capacity \in Nat
         /\ readable_size(b) \in Nat /\ writable_size(b) \in Nat
         /\ readable_size(b) = writable_begin(b) - b.readable_begin
         /\ writable_begin(b) = Len(b.buf) /\ b.buf \in Seq(Cell)
         /\ readable_data(b) \in Seq(Cell) /\ Len(readable_data(b)) = readable_size(b)
         /\ b.placeholder_stack \in Seq(Nat)
         /\ b = [buf |-> b.buf, readable_begin |-> b.readable_begin, capacity |-> b.capacity,
                 placeholder_stack |-> b.placeholder_stack]
<1>1. /\ b.buf \in Seq(Cell) /\ b.readable_begin \in Nat /\ b.capacity \in Nat
      /\ b.placeholder_stack \in Seq(Nat)
      /\ b = [buf |-> b.buf, readable_begin |-> b.readable_begin, capacity |-> b.capacity,
              placeholder_stack |-> b.placeholder_stack]
  BY DEF Sound, Buffers
<1>2. writable_begin(b) = Len(b.buf) /\ Len(b.buf) \in Nat
  BY <1>1, SeqFacts DEF writable_begin
<1>3. b.readable_begin <= Len(b.buf) /\ Len(b.buf) <= b.capacity
  BY <1>2 DEF Sound
<1>4. /\ readable_data(b) \in Seq(Cell)
      /\ Len(readable_data(b)) = Len(b.buf) - (b.readable_begin + 1) + 1
  <2>1. b.readable_begin + 1 \in 1 .. Len(b.buf) + 1 /\ Len(b.buf) \in (b.readable_begin + 1) - 1 .. Len(b.buf)
    BY <1>1, <1>2, <1>3
  <2>. QED
    BY <1>1, <1>2, <2>1, PieceFacts DEF readable_data
<1>. QED
  BY <1>1, <1>2, <1>3, <1>4 DEF readable_size, writable_size

(* c has what b has to read, and its open positions are where they were. *)
SameData(b, c) ==
  /\ Sound(c) /\ readable_data(c) = readable_data(b) /\ readable_size(c) = readable_size(b)
  /\ Len(c.placeholder_stack) = Len(b.placeholder_stack)
  /\ \A i \in 1 .. Len(b.placeholder_stack) :
       b.placeholder_stack[i] >= b.readable_begin =>
         c.placeholder_stack[i] - c.readable_begin = b.placeholder_stack[i] - b.readable_begin

(* Moving the readable cells to the front keeps them. *)
LEMMA ToFrontFacts ==
  ASSUME NEW b, Sound(b), NEW cap \in Nat, cap >= readable_size(b)
  PROVE  LET c == ToFront(b, cap)
         IN /\ SameData(b, c) /\ c.capacity = cap /\ c.readable_begin = 0
            /\ writable_begin(c) = readable_size(b)
<1> DEFINE c == ToFront(b, cap)
           d == readable_data(b)
           F(i) == LET pos == b.placeholder_stack[i]
                   IN IF pos >= b.readable_begin THEN pos - b.readable_begin ELSE pos
           t == [i \in DOMAIN b.placeholder_stack |-> F(i)]
<1>1. c = [buf |-> d, readable_begin |-> 0, capacity |-> cap, placeholder_stack |-> t]
  BY DEF ToFront
<1>2. /\ d \in Seq(Cell) /\ Len(d) = readable_size(b) /\ readable_size(b) \in Nat
      /\ b.placeholder_stack \in Seq(Nat) /\ b.readable_begin \in Nat
  BY SoundFacts
<1>3. /\ t \in Seq(Nat) /\ Len(t) = Len(b.placeholder_stack)
      /\ \A i \in 1 .. Len(b.placeholder_stack) : t[i] = F(i)
  <2>1. /\ Len(b.placeholder_stack) \in Nat /\ DOMAIN b.placeholder_stack = 1 .. Len(b.placeholder_stack)
        /\ \A i \in 1 .. Len(b.placeholder_stack) : b.placeholder_stack[i] \in Nat
    BY <1>2, SeqFacts
  <2>2. \A i \in 1 .. Len(b.placeholder_stack) : F(i) \in Nat
    BY <1>2, <2>1
  <2> HIDE DEF F
  <2>3. t \in Seq(Nat) /\ Len(t) = Len(b.placeholder_stack)
    BY <2>1, <2>2, IsASeq
  <2>. QED
    BY <2>1, <2>3
<1> HIDE DEF c, d, t
<1>4. /\ c \in Buffers /\ c.buf = d /\ c.readable_begin = 0 /\ c.capacity = cap
      /\ c.placeholder_stack = t
  BY <1>1, <1>2, <1>3 DEF Buffers
<1>5. writable_begin(c) = Len(d)
  BY <1>4 DEF writable_begin
<1>6. Sound(c)
  BY <1>2, <1>4, <1>5 DEF Sound
<1>7. readable_data(c) = d
  <2>1. readable_data(c) = SubSeq(d, 0 + 1, Len(d))
    BY <1>4, <1>5 DEF readable_data
  <2>. QED
    BY <1>2, <2>1, SubSeqFull
<1>8. readable_size(c) = Len(d)
  BY <1>2, <1>4, <1>5 DEF readable_size
<1>9. ASSUME NEW i \in 1 .. Len(b.placeholder_stack), b.placeholder_stack[i] >= b.readable_begin
      PROVE  c.placeholder_stack[i] - c.readable_begin = b.placeholder_stack[i] - b.readable_begin
  <2>1. b.placeholder_stack[i] \in Nat
    BY <1>2, SeqFacts
  <2>. QED
    BY <1>2, <1>3, <1>4, <1>9, <2>1
<1>10. SameData(b, c)
  BY <1>2, <1>3, <1>4, <1>6, <1>7, <1>8, <1>9 DEF SameData, d
<1>. QED
  BY <1>2, <1>4, <1>5, <1>10 DEF c

(* A buffer that is left alone keeps what it has. *)
LEMMA SameDataSelf ==
  ASSUME NEW b, Sound(b)
  PROVE  SameData(b, b)
BY DEF SameData

(* ensure_writable(): room for size cells, by growing only if it must *)
Grown(b, size, cap) ==
  \/ cap = b.capacity
  \/ /\ b.capacity < readable_size(b) + size
     /\ cap = Larger(2 * b.capacity, readable_size(b) + size)

(* ensure_writable() makes room and loses nothing. *)
LEMMA EnsureFacts ==
  ASSUME NEW b, Sound(b), NEW size \in Nat
  PROVE  LET c == ensure_writable(b, size)
         IN SameData(b, c) /\ writable_size(c) >= size /\ Grown(b, size, c.capacity)
<1> DEFINE c == ensure_writable(b, size)
           cap == Larger(2 * b.capacity, readable_size(b) + size)
<1>1. /\ writable_begin(b) \in Nat /\ b.readable_begin \in Nat /\ b.capacity \in Nat
      /\ readable_size(b) \in Nat /\ writable_size(b) \in Nat
      /\ readable_size(b) = writable_begin(b) - b.readable_begin
      /\ writable_size(b) = b.capacity - writable_begin(b)
  BY SoundFacts DEF writable_size
<1>2. CASE writable_size(b) >= size
  <2>1. c = b
    BY <1>1, <1>2 DEF ensure_writable
  <2>. QED
    BY <1>2, <2>1, SameDataSelf DEF Grown
<1>3. CASE writable_size(b) < size /\ b.readable_begin + writable_size(b) >= size
  <2>1. c = ToFront(b, b.capacity)
    BY <1>1, <1>3 DEF ensure_writable
  <2>2. b.capacity >= readable_size(b)
    BY <1>1
  <2>3. /\ SameData(b, c) /\ c.capacity = b.capacity /\ writable_begin(c) = readable_size(b)
    BY <1>1, <2>1, <2>2, ToFrontFacts
  <2>. QED
    BY <1>1, <1>3, <2>3 DEF Grown, writable_size
<1>4. CASE writable_size(b) < size /\ b.readable_begin + writable_size(b) < size
  <2>1. c = ToFront(b, cap)
    BY <1>1, <1>4 DEF ensure_writable
  <2>2. cap \in Nat /\ cap >= readable_size(b) + size
    BY <1>1 DEF Larger
  <2>3. /\ SameData(b, c) /\ c.capacity = cap /\ writable_begin(c) = readable_size(b)
    BY <1>1, <2>1, <2>2, ToFrontFacts
  <2>4. b.capacity < readable_size(b) + size
    BY <1>1, <1>4
  <2>5. writable_size(c) >= size
    BY <1>1, <2>2, <2>3 DEF writable_size
  <2>. QED
    BY <2>3, <2>4, <2>5 DEF Grown
<1>. QED
  BY <1>1, <1>2, <1>3, <1>4

(* Take() and Skip(). *)
LEMMA TakeFacts ==
  ASSUME NEW S, NEW t \in Seq(S), NEW n \in 0 .. Len(t)
  PROVE  /\ Take(t, n) \in Seq(S) /\ Len(Take(t, n)) = n
         /\ \A i \in 1 .. n : Take(t, n)[i] = t[i]
<1>1. Len(t) \in Nat
  BY SeqFacts
<1>2. 1 \in 1 .. Len(t) + 1 /\ n \in 1 - 1 .. Len(t) /\ n - 1 + 1 = n
  BY <1>1
<1>3. /\ Take(t, n) \in Seq(S) /\ Len(Take(t, n)) = n - 1 + 1
      /\ \A i \in 1 .. n - 1 + 1 : Take(t, n)[i] = t[1 + i - 1]
  BY <1>2, PieceFacts DEF Take
<1>4. ASSUME NEW i \in 1 .. n
      PROVE  1 + i - 1 = i
  BY <1>1
<1>. QED
  BY <1>2, <1>3, <1>4

(* What is left after the first cells. *)
LEMMA SkipFacts ==
  ASSUME NEW S, NEW t \in Seq(S), NEW n \in 0 .. Len(t)
  PROVE  /\ Skip(t, n) \in Seq(S) /\ Len(Skip(t, n)) = Len(t) - n
         /\ \A i \in 1 .. Len(t) - n : Skip(t, n)[i] = t[n + i]
<1>1. Len(t) \in Nat
  BY SeqFacts
<1>2. PICK a : a = n + 1
  OBVIOUS
<1>3. a \in 1 .. Len(t) + 1 /\ Len(t) \in a - 1 .. Len(t) /\ Len(t) - a + 1 = Len(t) - n
  BY <1>1, <1>2
<1>4. /\ Skip(t, n) \in Seq(S) /\ Len(Skip(t, n)) = Len(t) - a + 1
      /\ \A i \in 1 .. Len(t) - a + 1 : Skip(t, n)[i] = t[a + i - 1]
  BY <1>2, <1>3, PieceFacts DEF Skip
<1>5. ASSUME NEW i \in 1 .. Len(t) - n
      PROVE  a + i - 1 = n + i
  BY <1>1, <1>2
<1>. QED
  BY <1>3, <1>4, <1>5

(* A sequence is its first cells and the others. *)
LEMMA TakeThenSkip ==
  ASSUME NEW S, NEW t \in Seq(S), NEW n \in 0 .. Len(t)
  PROVE  Take(t, n) \o Skip(t, n) = t
<1> DEFINE p == Take(t, n)
           q == Skip(t, n)
<1>1. /\ p \in Seq(S) /\ Len(p) = n /\ \A i \in 1 .. n : p[i] = t[i]
      /\ q \in Seq(S) /\ Len(q) = Len(t) - n /\ \A i \in 1 .. Len(t) - n : q[i] = t[n + i]
  BY TakeFacts, SkipFacts
<1> HIDE DEF p, q
<1>2. Len(t) \in Nat
  BY SeqFacts
<1>3. p \o q \in Seq(S) /\ Len(p \o q) = Len(t)
  BY <1>1, <1>2, TwoPieces
<1>4. ASSUME NEW i \in 1 .. Len(t)
      PROVE  (p \o q)[i] = t[i]
  <2>1. CASE i <= n
    <3>1. i \in 1 .. Len(p)
      BY <1>1, <2>1
    <3>. QED
      BY <1>1, <3>1, TwoPieces
  <2>2. CASE i > n
    <3>1. PICK j : j = i - n
      OBVIOUS
    <3>2. i \in Len(p) + 1 .. Len(p) + Len(q) /\ j \in 1 .. Len(t) - n /\ n + j = i /\ i - Len(p) = j
      BY <1>1, <1>2, <2>2, <3>1
    <3>3. (p \o q)[i] = q[i - Len(p)]
      <4>1. \A k \in Len(p) + 1 .. Len(p) + Len(q) : (p \o q)[k] = q[k - Len(p)]
        BY <1>1, TwoPieces
      <4>. QED
        BY <3>2, <4>1
    <3>4. q[j] = t[n + j]
      BY <1>1, <3>2
    <3>. QED
      BY <3>2, <3>3, <3>4
  <2>3. i <= n \/ i > n
    OBVIOUS
  <2>. QED
    BY ONLY <2>1, <2>2, <2>3
<1>5. p \o q = t
  BY <1>3, <1>4, SeqEqual
<1>. QED
  BY <1>5 DEF p, q

(* The first cells of two pieces, when the first piece has them, *)
LEMMA TakeOfTwo ==
  ASSUME NEW S, NEW p \in Seq(S), NEW q \in Seq(S), NEW n \in 0 .. Len(p)
  PROVE  Take(p \o q, n) = Take(p, n)
<1> DEFINE t == p \o q
<1>1. /\ t \in Seq(S) /\ Len(t) = Len(p) + Len(q) /\ Len(p) \in Nat /\ Len(q) \in Nat
      /\ \A i \in 1 .. Len(p) : t[i] = p[i]
  BY TwoPieces, SeqFacts
<1> HIDE DEF t
<1>2. n \in 0 .. Len(t)
  BY <1>1
<1>3. /\ Take(t, n) \in Seq(S) /\ Len(Take(t, n)) = n /\ \A i \in 1 .. n : Take(t, n)[i] = t[i]
  BY <1>1, <1>2, TakeFacts
<1>4. /\ Take(p, n) \in Seq(S) /\ Len(Take(p, n)) = n /\ \A i \in 1 .. n : Take(p, n)[i] = p[i]
  BY TakeFacts
<1>5. \A i \in 1 .. n : Take(t, n)[i] = Take(p, n)[i]
  BY <1>1, <1>3, <1>4
<1>6. Take(t, n) = Take(p, n)
  BY <1>3, <1>4, <1>5, SeqEqual
<1>. QED
  BY <1>6 DEF t

(* and what is left after them. *)
LEMMA SkipOfTwo ==
  ASSUME NEW S, NEW p \in Seq(S), NEW q \in Seq(S), NEW n \in 0 .. Len(p)
  PROVE  Skip(p \o q, n) = Skip(p, n) \o q
<1> DEFINE t == p \o q
           u == Skip(p, n)
           r == Skip(t, n)
           v == u \o q
<1>1. /\ t \in Seq(S) /\ Len(t) = Len(p) + Len(q) /\ Len(p) \in Nat /\ Len(q) \in Nat
      /\ \A i \in 1 .. Len(p) : t[i] = p[i]
      /\ \A i \in Len(p) + 1 .. Len(p) + Len(q) : t[i] = q[i - Len(p)]
  BY TwoPieces, SeqFacts
<1>2. /\ u \in Seq(S) /\ Len(u) = Len(p) - n /\ \A i \in 1 .. Len(p) - n : u[i] = p[n + i]
  BY SkipFacts
<1> HIDE DEF u, t
<1>3. n \in 0 .. Len(t)
  BY <1>1
<1>4. /\ r \in Seq(S) /\ Len(r) = Len(t) - n /\ \A i \in 1 .. Len(t) - n : r[i] = t[n + i]
  <2>1. t \in Seq(S) /\ n \in 0 .. Len(t)
    BY <1>1, <1>3
  <2>. QED
    BY ONLY <2>1, SkipFacts DEF r
<1>5. /\ v \in Seq(S) /\ Len(v) = Len(u) + Len(q)
      /\ \A i \in 1 .. Len(u) : v[i] = u[i]
      /\ \A i \in Len(u) + 1 .. Len(u) + Len(q) : v[i] = q[i - Len(u)]
  BY <1>2, TwoPieces
<1> HIDE DEF r, v
<1>6. Len(r) = Len(v)
  BY <1>1, <1>2, <1>4, <1>5
<1>7. ASSUME NEW i \in 1 .. Len(r)
      PROVE  r[i] = v[i]
  <2>1. PICK j : j = n + i
    OBVIOUS
  <2>2. r[i] = t[j] /\ i \in Int /\ j \in Int
    BY <1>1, <1>4, <2>1
  <2>3. CASE i <= Len(p) - n
    <3>1. j \in 1 .. Len(p) /\ i \in 1 .. Len(u) /\ i \in 1 .. Len(p) - n
      BY <1>1, <1>2, <2>1, <2>2, <2>3
    <3>2. t[j] = p[j] /\ v[i] = u[i] /\ u[i] = p[n + i]
      BY <1>1, <1>2, <1>5, <3>1
    <3>. QED
      BY <2>1, <2>2, <3>2
  <2>4. CASE ~(i <= Len(p) - n)
    <3>1. j \in Len(p) + 1 .. Len(p) + Len(q) /\ i \in Len(u) + 1 .. Len(u) + Len(q)
          /\ j - Len(p) = i - Len(u)
      BY <1>1, <1>2, <1>4, <2>1, <2>2, <2>4
    <3>2. t[j] = q[j - Len(p)] /\ v[i] = q[i - Len(u)]
      BY <1>1, <1>5, <3>1
    <3>. QED
      BY <2>2, <3>1, <3>2
  <2>. QED
    BY <2>3, <2>4
<1>8. r = v
  BY <1>4, <1>5, <1>6, <1>7, SeqEqual
<1>. QED
  BY <1>8 DEF r, v, u, t

(* Two pieces taken one after the other. *)
LEMMA SkipTwice ==
  ASSUME NEW S, NEW t \in Seq(S), NEW m \in 0 .. Len(t), NEW n \in 0 .. Len(t) - m,
         NEW k, k = m + n
  PROVE  Skip(Skip(t, m), n) = Skip(t, k)
<1> DEFINE u == Skip(t, m)
<1>1. /\ u \in Seq(S) /\ Len(u) = Len(t) - m /\ \A i \in 1 .. Len(t) - m : u[i] = t[m + i]
      /\ Len(t) \in Nat
  BY SkipFacts, SeqFacts
<1> HIDE DEF u
<1>2. n \in 0 .. Len(u) /\ k \in 0 .. Len(t)
  BY <1>1
<1>3. /\ Skip(u, n) \in Seq(S) /\ Len(Skip(u, n)) = Len(u) - n
      /\ \A i \in 1 .. Len(u) - n : Skip(u, n)[i] = u[n + i]
  <2>1. u \in Seq(S) /\ n \in 0 .. Len(u)
    BY <1>1, <1>2
  <2>. QED
    BY ONLY <2>1, SkipFacts
<1>4. /\ Skip(t, k) \in Seq(S) /\ Len(Skip(t, k)) = Len(t) - k
      /\ \A i \in 1 .. Len(t) - k : Skip(t, k)[i] = t[k + i]
  BY <1>2, SkipFacts
<1>5. ASSUME NEW i \in 1 .. Len(t) - k
      PROVE  Skip(u, n)[i] = Skip(t, k)[i]
  <2>1. PICK j : j = n + i
    OBVIOUS
  <2>2. i \in 1 .. Len(u) - n /\ j \in 1 .. Len(t) - m /\ m + j = k + i
    BY <1>1, <2>1
  <2>3. u[j] = t[m + j] /\ Skip(u, n)[i] = u[n + i] /\ Skip(t, k)[i] = t[k + i]
    BY <1>1, <1>3, <1>4, <2>2
  <2>. QED
    BY <2>1, <2>2, <2>3
<1>6. Len(Skip(u, n)) = Len(Skip(t, k)) /\ Len(Skip(u, n)) = Len(t) - k
  BY <1>1, <1>3, <1>4
<1>7. Skip(u, n) = Skip(t, k)
  BY <1>3, <1>4, <1>5, <1>6, SeqEqual
<1>. QED
  BY <1>7 DEF u

(* What is to be read begins at readable_begin. *)
LEMMA ReadableIs == ASSUME NEW b PROVE readable_data(b) = Skip(b.buf, b.readable_begin)
BY DEF readable_data, Skip, writable_begin


(* append() has added d to what b has to read. *)
Written(b, d, c) ==
  /\ Sound(c)
  /\ readable_data(c) = readable_data(b) \o d /\ readable_size(c) = readable_size(b) + Len(d)
  /\ Len(c.placeholder_stack) = Len(b.placeholder_stack)
  /\ \A i \in 1 .. Len(b.placeholder_stack) :
       b.placeholder_stack[i] >= b.readable_begin =>
         c.placeholder_stack[i] - c.readable_begin = b.placeholder_stack[i] - b.readable_begin

(* append() adds its cells behind the others, inside the array. *)
LEMMA AppendFacts ==
  ASSUME NEW b, Sound(b), NEW d \in Seq(Cell)
  PROVE  LET c == append(b, d) IN Written(b, d, c) /\ Grown(b, Len(d), c.capacity)
<1> DEFINE e == ensure_writable(b, Len(d))
           c == append(b, d)
<1>1. Len(d) \in Nat
  BY SeqFacts
<1>2. SameData(b, e) /\ writable_size(e) >= Len(d) /\ Grown(b, Len(d), e.capacity)
  BY <1>1, EnsureFacts
<1>3. Sound(e)
  BY <1>2 DEF SameData
<1>4. c = [e EXCEPT !.buf = @ \o d]
  BY DEF append
<1> HIDE DEF e, c
<1>5. /\ e.buf \in Seq(Cell) /\ Len(e.buf) \in Nat /\ e.readable_begin \in Nat /\ e.capacity \in Nat
      /\ e.readable_begin <= Len(e.buf) /\ Len(e.buf) + Len(d) <= e.capacity
      /\ e.placeholder_stack \in Seq(Nat) /\ readable_size(e) = Len(e.buf) - e.readable_begin
  <2>1. /\ writable_begin(e) \in Nat /\ e.readable_begin \in Nat /\ e.capacity \in Nat
        /\ writable_begin(e) = Len(e.buf) /\ e.buf \in Seq(Cell)
        /\ readable_size(e) = writable_begin(e) - e.readable_begin
        /\ e.placeholder_stack \in Seq(Nat)
    BY <1>3, SoundFacts
  <2>2. e.readable_begin <= writable_begin(e)
    BY <1>3 DEF Sound
  <2>. QED
    BY <1>1, <1>2, <2>1, <2>2 DEF writable_size
<1>6. e.buf \o d \in Seq(Cell) /\ Len(e.buf \o d) = Len(e.buf) + Len(d)
  BY <1>5, TwoPieces
<1>7. /\ c \in Buffers /\ c.buf = e.buf \o d /\ c.readable_begin = e.readable_begin
      /\ c.capacity = e.capacity /\ c.placeholder_stack = e.placeholder_stack
  <2>1. e \in Buffers
    BY <1>3 DEF Sound
  <2>2. c = [buf |-> e.buf \o d, readable_begin |-> e.readable_begin, capacity |-> e.capacity,
             placeholder_stack |-> e.placeholder_stack]
    BY <1>4, <2>1 DEF Buffers
  <2>. QED
    BY <1>5, <1>6, <2>2 DEF Buffers
<1>8. Sound(c)
  BY <1>1, <1>5, <1>6, <1>7 DEF Sound, writable_begin
<1>9. readable_data(c) = readable_data(e) \o d
  <2>1. e.readable_begin \in 0 .. Len(e.buf)
    BY <1>5
  <2>2. Skip(e.buf \o d, e.readable_begin) = Skip(e.buf, e.readable_begin) \o d
    BY <1>5, <2>1, SkipOfTwo
  <2>. QED
    BY <1>7, <2>2, ReadableIs
<1>10. readable_size(c) = readable_size(e) + Len(d)
  BY <1>1, <1>5, <1>6, <1>7 DEF readable_size, writable_begin
<1>11. Written(b, d, c)
  BY <1>2, <1>7, <1>8, <1>9, <1>10 DEF Written, SameData
<1>. QED
  BY <1>2, <1>7, <1>11 DEF c

(* consume() has taken the first n of what b has to read. *)
Consumed(b, n, c) ==
  /\ Sound(c) /\ c.capacity = b.capacity /\ c.placeholder_stack = b.placeholder_stack
  /\ readable_size(c) = readable_size(b) - n
  /\ readable_data(c) = Skip(readable_data(b), n)
  /\ readable_size(c) = 0 => c.readable_begin = 0 /\ c.buf = <<>>

(* consume() takes cells from the front, and starts over when none is left. *)
LEMMA ConsumeFacts ==
  ASSUME NEW b, Sound(b), NEW n \in 0 .. readable_size(b),
         readable_size(b) = 0 => b.readable_begin = 0 /\ b.buf = <<>>
  PROVE  Consumed(b, n, consume(b, n))
<1> DEFINE c == consume(b, n)
           m == b.readable_begin
           w == Len(b.buf)
<1>1. /\ m \in Nat /\ w \in Nat /\ b.capacity \in Nat /\ b.buf \in Seq(Cell)
      /\ readable_size(b) = w - m /\ writable_begin(b) = w /\ readable_size(b) \in Nat
      /\ b.placeholder_stack \in Seq(Nat)
      /\ readable_data(b) \in Seq(Cell) /\ Len(readable_data(b)) = readable_size(b)
  BY SoundFacts
<1>2. b \in Buffers /\ m <= w /\ w <= b.capacity
  BY <1>1 DEF Sound
<1>3. Smaller(n, readable_size(b)) = n /\ n \in Nat /\ n <= w - m
  BY <1>1 DEF Smaller
<1>4. CASE m + n >= w
  <2>1. c = [b EXCEPT !.readable_begin = 0, !.buf = <<>>]
    BY <1>1, <1>3, <1>4 DEF consume
  <2> HIDE DEF c
  <2>2. c = [buf |-> <<>>, readable_begin |-> 0, capacity |-> b.capacity,
             placeholder_stack |-> b.placeholder_stack]
    BY <1>2, <2>1 DEF Buffers
  <2>3. <<>> \in Seq(Cell) /\ Len(<<>>) = 0
    BY EmptySeq
  <2>4. /\ c \in Buffers /\ c.buf = <<>> /\ c.readable_begin = 0 /\ c.capacity = b.capacity
        /\ c.placeholder_stack = b.placeholder_stack
    BY <1>1, <2>2, <2>3 DEF Buffers
  <2>5. writable_begin(c) = 0
    BY <2>3, <2>4 DEF writable_begin
  <2>6. Sound(c) /\ readable_size(c) = 0
    BY <1>1, <2>4, <2>5 DEF Sound, readable_size
  <2>7. readable_data(c) = <<>>
    <3>1. readable_data(c) = SubSeq(<<>>, 1, 0)
      BY <2>4, <2>5 DEF readable_data
    <3>. QED
      BY <3>1, SubSeqEmpty
  <2>8. Skip(readable_data(b), n) = <<>>
    <3>1. PICK k : k = n + 1
      OBVIOUS
    <3>2. Len(readable_data(b)) < k /\ k \in Int /\ Len(readable_data(b)) \in Int
      BY <1>1, <1>3, <1>4, <3>1
    <3>. QED
      BY <3>1, <3>2, SubSeqEmpty DEF Skip
  <2>9. readable_size(b) - n = 0
    BY <1>1, <1>3, <1>4
  <2>10. Consumed(b, n, c)
    BY <2>4, <2>6, <2>7, <2>8, <2>9 DEF Consumed
  <2>. QED
    BY <2>10 DEF c
<1>5. CASE m + n < w
  <2>1. ~(b.readable_begin + Smaller(n, readable_size(b)) >= writable_begin(b))
    BY <1>1, <1>3, <1>5
  <2>2. c = [b EXCEPT !.readable_begin = b.readable_begin + Smaller(n, readable_size(b))]
    BY <2>1 DEF consume
  <2> HIDE DEF c
  <2>3. c = [buf |-> b.buf, readable_begin |-> m + n, capacity |-> b.capacity,
             placeholder_stack |-> b.placeholder_stack]
    BY <1>2, <1>3, <2>2 DEF Buffers
  <2>4. /\ c \in Buffers /\ c.buf = b.buf /\ c.readable_begin = m + n /\ c.capacity = b.capacity
        /\ c.placeholder_stack = b.placeholder_stack
    BY <1>1, <1>3, <2>3 DEF Buffers
  <2>5. writable_begin(c) = w
    BY <2>4 DEF writable_begin
  <2>6. Sound(c) /\ readable_size(c) = w - (m + n) /\ readable_size(c) = readable_size(b) - n
    BY <1>1, <1>2, <1>3, <1>5, <2>4, <2>5 DEF Sound, readable_size
  <2>7. readable_data(c) = Skip(readable_data(b), n)
    <3>1. PICK k : k = m + n
      OBVIOUS
    <3>2. m \in 0 .. Len(b.buf) /\ n \in 0 .. Len(b.buf) - m
      BY <1>1, <1>2, <1>3
    <3>3. Skip(Skip(b.buf, m), n) = Skip(b.buf, k)
      BY <1>1, <3>1, <3>2, SkipTwice
    <3>. QED
      BY <2>4, <3>1, <3>3, ReadableIs
  <2>8. readable_size(c) # 0
    BY <1>1, <1>3, <1>5, <2>6
  <2>9. Consumed(b, n, c)
    BY <2>4, <2>6, <2>7, <2>8 DEF Consumed
  <2>. QED
    BY <2>9 DEF c
<1>. QED
  BY <1>1, <1>3, <1>4, <1>5

(* shrink_if_wasteful() *)
LEMMA ShrinkFacts ==
  ASSUME NEW b, Sound(b), NEW hard_min \in Nat
  PROVE  LET c == shrink_if_wasteful(b, hard_min)
             kept == b.capacity <= Larger(hard_min, 4 * readable_size(b))
         IN /\ SameData(b, c)
            /\ kept => c = b
            /\ ~kept => /\ c.capacity = Larger(hard_min, 2 * readable_size(b))
                        /\ c.capacity <= b.capacity /\ c.readable_begin = 0
                        /\ writable_begin(c) = readable_size(b)
<1> DEFINE c == shrink_if_wasteful(b, hard_min)
           r == readable_size(b)
           cap == Larger(hard_min, 2 * r)
<1>1. r \in Nat /\ b.capacity \in Nat
  BY SoundFacts
<1>2. cap \in Nat /\ cap >= r /\ cap <= Larger(hard_min, 4 * r) /\ Larger(hard_min, 4 * r) \in Nat
  BY <1>1 DEF Larger
<1>3. CASE b.capacity <= Larger(hard_min, 4 * r)
  <2>1. c = b
    BY <1>1, <1>2, <1>3 DEF shrink_if_wasteful
  <2>. QED
    BY <1>3, <2>1, SameDataSelf
<1>4. CASE ~(b.capacity <= Larger(hard_min, 4 * r))
  <2>1. c = ToFront(b, cap)
    BY <1>1, <1>2, <1>4 DEF shrink_if_wasteful
  <2> HIDE DEF cap, c, r
  <2>2. cap >= readable_size(b)
    BY <1>2 DEF r
  <2>3. SameData(b, c) /\ c.capacity = cap /\ c.readable_begin = 0 /\ writable_begin(c) = readable_size(b)
    BY <1>2, <2>1, <2>2, ToFrontFacts
  <2>4. c.capacity <= b.capacity
    BY <1>1, <1>2, <1>4, <2>3
  <2>. QED
    BY <1>4, <2>3, <2>4 DEF c, r, cap
<1>. QED
  BY <1>3, <1>4

(* A tag is one cell, and the tags differ. *)
LEMMA TagFacts ==
  /\ \A tag \in {TAG_NIL, TAG_ERR, TAG_STR, TAG_INT, TAG_DBL, TAG_ARR} : <<tag>> \in Seq(Cell)
  /\ TAG_NIL = 0 /\ TAG_ERR = 1 /\ TAG_STR = 2 /\ TAG_INT = 3 /\ TAG_DBL = 4 /\ TAG_ARR = 5
<1>1. 0 \in Cell /\ 1 \in Cell /\ 2 \in Cell /\ 3 \in Cell /\ 4 \in Cell /\ 5 \in Cell
  BY CellsAssumption DEF Cell
<1>. QED
  BY <1>1 DEF TAG_NIL, TAG_ERR, TAG_STR, TAG_INT, TAG_DBL, TAG_ARR

(* The numbers of a response are cells. *)
LEMMA NumbersType ==
  ASSUME NEW n \in Int
  PROVE  U32(n) \in Seq(Cell) /\ I64(n) \in Seq(Cell) /\ Len(U32(n)) = Width
<1>1. Width \in Nat /\ 2 * Width \in Nat
  BY CellsFacts
<1>. QED
  BY <1>1, CellsType DEF U32, I64


(* Three pieces of a stream, however they are grouped. *)
LEMMA InARow == \A s, t, u \in Seq(Cell) : (s \o t) \o u = s \o (t \o u)
BY ConcatAssociative

(* The elements of an array are written one after the other. *)
WrittenUpTo(b, s, n, f) ==
  f = [S \in SUBSET (1 .. n) |->
         IF S = {} THEN b ELSE out_scalar(f[S \ {Max(S)}], s[Max(S)])]

WrittenAll(b, s, f) ==
  f = [S \in SUBSET (DOMAIN s) |->
         IF S = {} THEN b ELSE out_scalar(f[S \ {Max(S)}], s[Max(S)])]

(* The greatest of a set, where it is known. *)
LEMMA MaxIs ==
  ASSUME NEW m \in Int, NEW S \in SUBSET Int, m \in S, \A i \in S : i <= m
  PROVE  Max(S) = m
<1>1. \A x \in S : (\A y \in S : x >= y) => x = m
  OBVIOUS
<1>2. Max(S) \in S /\ \A y \in S : Max(S) >= y
  BY DEF Max
<1>. QED
  BY <1>1, <1>2

(* The fold that writes an array has a solution for any length. *)
LEMMA WritingExists ==
  ASSUME NEW n \in Nat, NEW b, NEW s
  PROVE  \E f : WrittenUpTo(b, s, n, f)
<1> DEFINE Q == {k \in 0 .. n : \E f : WrittenUpTo(b, s, k, f)}
<1>1. 0 \in Q
  <2> DEFINE f == [S \in SUBSET (1 .. 0) |-> b]
  <2>1. \A S \in SUBSET (1 .. 0) : S = {}
    OBVIOUS
  <2>2. WrittenUpTo(b, s, 0, f)
    BY <2>1 DEF WrittenUpTo
  <2>. QED
    BY <2>2
<1>2. ASSUME NEW k \in 0 .. n - 1, k \in Q
      PROVE  k + 1 \in Q
  <2>1. PICK m : m = k + 1
    OBVIOUS
  <2>2. m \in 1 .. n /\ \A i \in 1 .. m : i <= m
    BY <2>1
  <2>3. PICK f : WrittenUpTo(b, s, k, f)
    BY <1>2
  <2> DEFINE F(S) == IF m \in S THEN out_scalar(f[S \ {m}], s[m]) ELSE f[S]
             g == [S \in SUBSET (1 .. m) |-> F(S)]
             G(S) == IF S = {} THEN b ELSE out_scalar(g[S \ {Max(S)}], s[Max(S)])
             H(S) == IF S = {} THEN b ELSE out_scalar(f[S \ {Max(S)}], s[Max(S)])
  <2>4. \A S \in SUBSET (1 .. k) : f[S] = H(S)
    <3>1. f = [S \in SUBSET (1 .. k) |-> H(S)]
      BY <2>3 DEF WrittenUpTo
    <3> HIDE DEF H
    <3>. QED
      BY <3>1
  <2>5. \A S \in SUBSET (1 .. m) : g[S] = F(S)
    OBVIOUS
  <2> HIDE DEF g
  <2>6. ASSUME NEW S \in SUBSET (1 .. m)
        PROVE  F(S) = G(S)
    <3>1. CASE m \in S
      <4>1. Max(S) = m
        <5>1. S \in SUBSET Int /\ (\A i \in S : i <= m) /\ m \in Int
          BY <2>2
        <5>. QED
          BY <3>1, <5>1, MaxIs
      <4>2. S \ {m} \in SUBSET (1 .. m) /\ m \notin S \ {m} /\ S # {}
        BY <3>1
      <4>3. g[S \ {m}] = f[S \ {m}]
        BY <2>5, <4>2
      <4>. QED
        BY <3>1, <4>1, <4>2, <4>3
    <3>2. CASE m \notin S
      <4>1. S \in SUBSET (1 .. k)
        BY <2>1, <3>2
      <4>2. f[S] = H(S)
        BY <2>4, <4>1
      <4>3. g[S \ {Max(S)}] = f[S \ {Max(S)}]
        <5>1. S \ {Max(S)} \in SUBSET (1 .. m) /\ m \notin S \ {Max(S)}
          BY <3>2
        <5>. QED
          BY <2>5, <5>1
      <4>. QED
        BY <3>2, <4>2, <4>3
    <3>. QED
      BY <3>1, <3>2
  <2>7. g = [S \in SUBSET (1 .. m) |-> G(S)]
    BY <2>6 DEF g
  <2>8. WrittenUpTo(b, s, m, g)
    BY <2>7 DEF WrittenUpTo
  <2>. QED
    BY <2>1, <2>2, <2>8
<1>3. 0 .. n \subseteq Q
  <2> HIDE DEF Q
  <2>. QED
    BY <1>1, <1>2, AllUpTo
<1>. QED
  BY <1>3

(* What is written begins with the length of what follows. *)
LEMMA LengthFacts ==
  ASSUME NEW x \in Seq(Cell), Len(x) <= MaxMsg
  PROVE  /\ WithLength(x) \in Seq(Cell) /\ Len(WithLength(x)) = Width + Len(x)
         /\ Number(Take(WithLength(x), Width)) = Len(x)
<1>1. Len(x) \in Nat
  BY SeqFacts
<1>2. U32(Len(x)) \in Seq(Cell) /\ Len(U32(Len(x))) = Width /\ Number(U32(Len(x))) = Len(x)
  BY <1>1, U32Facts
<1> DEFINE u == U32(Len(x))
<1> HIDE DEF u
<1>3. u \in Seq(Cell) /\ Len(u) = Width /\ Number(u) = Len(x) /\ WithLength(x) = u \o x
  BY <1>2 DEF u, WithLength
<1>4. Width \in 0 .. Len(u)
  BY <1>3, CellsFacts
<1>5. Take(u \o x, Width) = Take(u, Width)
  BY <1>3, <1>4, TakeOfTwo
<1>6. Take(u, Width) = u
  BY <1>3, SubSeqFull DEF Take
<1>7. u \o x \in Seq(Cell) /\ Len(u \o x) = Len(u) + Len(x)
  BY <1>3, TwoPieces
<1>. QED
  BY <1>3, <1>5, <1>6, <1>7

-----------------------------------------------------------------------------
(* Strings that are joined, one after the other *)
Flattened(s, n, f) == f = [i \in 1 .. n |-> IF i = 1 THEN s[i] ELSE f[i - 1] \o s[i]]

(* The fold that joins the strings of a command has a solution. *)
LEMMA FlatteningExists ==
  ASSUME NEW n \in Nat, NEW s
  PROVE  \E f : Flattened(s, n, f)
<1> DEFINE Q == {k \in 0 .. n : \E f : Flattened(s, k, f)}
<1>1. 0 \in Q
  <2> DEFINE f == [i \in 1 .. 0 |-> <<>>]
  <2>1. Flattened(s, 0, f)
    BY DEF Flattened
  <2>. QED
    BY <2>1
<1>2. ASSUME NEW k \in 0 .. n - 1, k \in Q
      PROVE  k + 1 \in Q
  <2>1. PICK m : m = k + 1
    OBVIOUS
  <2>2. m \in 1 .. n /\ m \in 1 .. m /\ k = m - 1 /\ 1 .. m = 1 .. k \cup {m} /\ m \notin 1 .. k
    BY <2>1
  <2>3. PICK f : Flattened(s, k, f)
    BY <1>2
  <2> DEFINE F(i) == IF i = m THEN (IF m = 1 THEN s[m] ELSE f[m - 1] \o s[m]) ELSE f[i]
             g == [i \in 1 .. m |-> F(i)]
             G(i) == IF i = 1 THEN s[i] ELSE g[i - 1] \o s[i]
             H(i) == IF i = 1 THEN s[i] ELSE f[i - 1] \o s[i]
  <2>4. \A i \in 1 .. k : f[i] = H(i)
    <3>1. f = [i \in 1 .. k |-> H(i)]
      BY <2>3 DEF Flattened
    <3> HIDE DEF H
    <3>. QED
      BY <3>1
  <2>5. \A i \in 1 .. m : g[i] = F(i)
    OBVIOUS
  <2> HIDE DEF g
  <2>6. ASSUME NEW i \in 1 .. m
        PROVE  F(i) = G(i)
    <3>1. i # 1 => g[i - 1] = f[i - 1]
      <4>1. i # 1 => i - 1 \in 1 .. m /\ i - 1 # m
        BY <2>1
      <4>. QED
        BY <2>5, <4>1
    <3>2. CASE i = m
      BY <3>1, <3>2
    <3>3. CASE i # m
      <4>1. i \in 1 .. k
        BY <2>2, <3>3
      <4>. QED
        BY <2>4, <3>1, <3>3, <4>1
    <3>. QED
      BY <3>2, <3>3
  <2>7. g = [i \in 1 .. m |-> G(i)]
    BY <2>6 DEF g
  <2>8. Flattened(s, m, g)
    BY <2>7 DEF Flattened
  <2>. QED
    BY <2>1, <2>2, <2>8
<1>3. 0 .. n \subseteq Q
  <2> HIDE DEF Q
  <2>. QED
    BY <1>1, <1>2, AllUpTo
<1>. QED
  BY <1>3

-----------------------------------------------------------------------------
(* The writing of a response: what there is to read is t, and the          *)
(* positions still to be filled in are q, counted from its beginning.      *)
Shows(b, t, q) ==
  /\ Sound(b) /\ readable_data(b) = t
  /\ q \in Seq(Nat) /\ Len(b.placeholder_stack) = Len(q)
  /\ \A i \in 1 .. Len(q) : b.placeholder_stack[i] = b.readable_begin + q[i]

(* What it says of the numbers in it *)
LEMMA ShowsFacts ==
  ASSUME NEW b, NEW t, NEW q, Shows(b, t, q)
  PROVE  /\ t \in Seq(Cell) /\ Len(t) \in Nat /\ Len(t) = readable_size(b)
         /\ Len(q) \in Nat /\ (\A i \in 1 .. Len(q) : q[i] \in Nat)
         /\ b \in Buffers /\ b.buf \in Seq(Cell) /\ Len(b.buf) \in Nat
         /\ b.readable_begin \in Nat /\ b.capacity \in Nat
         /\ Len(b.buf) = b.readable_begin + Len(t) /\ Len(b.buf) <= b.capacity
         /\ b.placeholder_stack \in Seq(Nat) /\ t = Skip(b.buf, b.readable_begin)
<1>1. Sound(b) /\ readable_data(b) = t /\ q \in Seq(Nat)
  BY DEF Shows
<1>2. /\ writable_begin(b) \in Nat /\ b.readable_begin \in Nat /\ b.capacity \in Nat
      /\ readable_size(b) = writable_begin(b) - b.readable_begin
      /\ writable_begin(b) = Len(b.buf) /\ b.buf \in Seq(Cell)
      /\ t \in Seq(Cell) /\ Len(t) = readable_size(b) /\ b.placeholder_stack \in Seq(Nat)
  BY <1>1, SoundFacts
<1>3. b \in Buffers /\ writable_begin(b) <= b.capacity
  BY <1>1 DEF Sound
<1>4. Len(b.buf) = b.readable_begin + Len(t) /\ Len(b.buf) <= b.capacity
  BY <1>2, <1>3
<1>5. t = Skip(b.buf, b.readable_begin)
  BY <1>1, ReadableIs
<1>6. Len(t) \in Nat
  BY <1>2, SeqFacts
<1>7. Len(b.buf) \in Nat
  BY <1>2
<1>8. Len(q) \in Nat /\ (\A i \in 1 .. Len(q) : q[i] \in Nat)
  BY <1>1, SeqFacts
<1>. QED
  BY <1>2, <1>3, <1>4, <1>5, <1>6, <1>7, <1>8

(* append() adds to it. *)
LEMMA ShowsAppend ==
  ASSUME NEW b, NEW t, NEW q, Shows(b, t, q), NEW d \in Seq(Cell)
  PROVE  Shows(append(b, d), t \o d, q)
<1> DEFINE c == append(b, d)
<1>1. /\ Sound(b) /\ readable_data(b) = t /\ q \in Seq(Nat) /\ Len(b.placeholder_stack) = Len(q)
      /\ \A i \in 1 .. Len(q) : b.placeholder_stack[i] = b.readable_begin + q[i]
  BY DEF Shows
<1>2. Written(b, d, c)
  BY <1>1, AppendFacts
<1> HIDE DEF c
<1>3. /\ Sound(c) /\ readable_data(c) = t \o d /\ Len(c.placeholder_stack) = Len(q)
      /\ \A i \in 1 .. Len(q) :
           b.placeholder_stack[i] >= b.readable_begin =>
             c.placeholder_stack[i] - c.readable_begin = b.placeholder_stack[i] - b.readable_begin
  BY <1>1, <1>2 DEF Written
<1>4. b.readable_begin \in Nat /\ c.readable_begin \in Nat /\ c.placeholder_stack \in Seq(Nat)
  BY <1>1, <1>3, SoundFacts
<1>5. ASSUME NEW i \in 1 .. Len(q)
      PROVE  c.placeholder_stack[i] = c.readable_begin + q[i]
  <2>1. q[i] \in Nat
    BY <1>1, SeqFacts
  <2>2. c.placeholder_stack[i] \in Nat
    <3>1. \A k \in 1 .. Len(c.placeholder_stack) : c.placeholder_stack[k] \in Nat
      BY <1>4, SeqFacts
    <3>. QED
      BY <1>3, <3>1
  <2>3. PICK x, y, m, n, p :
          x = b.placeholder_stack[i] /\ y = c.placeholder_stack[i] /\ m = b.readable_begin
          /\ n = c.readable_begin /\ p = q[i]
    OBVIOUS
  <2>4. /\ x = m + p /\ m \in Nat /\ p \in Nat /\ n \in Nat /\ y \in Nat
        /\ x >= m => y - n = x - m
    BY <1>1, <1>3, <1>4, <2>1, <2>2, <2>3
  <2>5. y = n + p
    BY ONLY <2>4
  <2>. QED
    BY <2>3, <2>5
<1>6. Shows(c, t \o d, q)
  BY <1>1, <1>3, <1>5 DEF Shows
<1>. QED
  BY <1>6 DEF c

(* A tag is one cell, and the tags differ: TagFacts. *)

(* A position is pushed and the cells that it is for are written. *)
LEMMA ShowsHole ==
  ASSUME NEW b, NEW t, NEW q, Shows(b, t, q)
  PROVE  Shows(append(push_placeholder(b), U32(0)), t \o U32(0), Append(q, Len(t)))
<1> DEFINE e == push_placeholder(b)
           p == Append(b.placeholder_stack, writable_begin(b))
           r == Append(q, Len(t))
<1>1. /\ Sound(b) /\ readable_data(b) = t /\ q \in Seq(Nat) /\ Len(b.placeholder_stack) = Len(q)
      /\ \A i \in 1 .. Len(q) : b.placeholder_stack[i] = b.readable_begin + q[i]
  BY DEF Shows
<1>2. /\ Len(t) \in Nat /\ Len(q) \in Nat /\ b \in Buffers /\ Len(b.buf) \in Nat
      /\ b.readable_begin \in Nat /\ Len(b.buf) = b.readable_begin + Len(t)
      /\ b.placeholder_stack \in Seq(Nat) /\ writable_begin(b) = Len(b.buf)
      /\ b.readable_begin <= writable_begin(b) /\ writable_begin(b) <= b.capacity
  <2>1. b.readable_begin <= writable_begin(b) /\ writable_begin(b) <= b.capacity
    BY <1>1 DEF Sound
  <2>. QED
    BY <2>1, ShowsFacts DEF writable_begin
<1>3. /\ p \in Seq(Nat) /\ Len(p) = Len(q) + 1 /\ p[Len(q) + 1] = Len(b.buf)
      /\ \A i \in 1 .. Len(q) : p[i] = b.placeholder_stack[i]
  BY <1>1, <1>2
<1>4. /\ r \in Seq(Nat) /\ Len(r) = Len(q) + 1 /\ r[Len(q) + 1] = Len(t)
      /\ \A i \in 1 .. Len(q) : r[i] = q[i]
  BY <1>1, <1>2
<1>5. e = [b EXCEPT !.placeholder_stack = p]
  BY DEF push_placeholder
<1> HIDE DEF p, e, r
<1>6. e = [buf |-> b.buf, readable_begin |-> b.readable_begin, capacity |-> b.capacity,
           placeholder_stack |-> p]
  BY <1>2, <1>5 DEF Buffers
<1>7. /\ e \in Buffers /\ e.placeholder_stack = p /\ e.readable_begin = b.readable_begin
      /\ e.buf = b.buf /\ e.capacity = b.capacity
  BY <1>2, <1>3, <1>6 DEF Buffers
<1>8. Sound(e)
  BY <1>2, <1>7 DEF Sound, writable_begin
<1>9. readable_data(e) = t
  BY <1>1, <1>7, ReadableIs
<1>10. ASSUME NEW i \in 1 .. Len(r)
       PROVE  p[i] = b.readable_begin + r[i]
  <2>1. CASE i \in 1 .. Len(q)
    BY <1>1, <1>3, <1>4, <2>1
  <2>2. CASE i = Len(q) + 1
    BY <1>2, <1>3, <1>4, <2>2
  <2>. QED
    BY <1>2, <1>4, <2>1, <2>2
<1>11. Shows(e, t, r)
  BY <1>3, <1>4, <1>7, <1>8, <1>9, <1>10 DEF Shows
<1>12. Shows(append(e, U32(0)), t \o U32(0), r)
  BY <1>11, NumbersType, ShowsAppend
<1>. QED
  BY <1>12 DEF e, r

(* Three pieces, cell by cell. *)
Pieces(t, x, u, y) ==
  /\ t \in Seq(Cell) /\ Len(t) = Len(x) + Len(u) + Len(y)
  /\ Len(x) \in Nat /\ Len(u) \in Nat /\ Len(y) \in Nat
  /\ \A i \in 1 .. Len(t) :
       t[i] = IF i <= Len(x) THEN x[i]
              ELSE IF i <= Len(x) + Len(u) THEN u[i - Len(x)]
              ELSE y[i - (Len(x) + Len(u))]

LEMMA ThreePieces ==
  ASSUME NEW x \in Seq(Cell), NEW u \in Seq(Cell), NEW y \in Seq(Cell)
  PROVE  Pieces((x \o u) \o y, x, u, y)
<1> DEFINE p == x \o u
           t == p \o y
<1>1. /\ p \in Seq(Cell) /\ Len(p) = Len(x) + Len(u)
      /\ \A i \in 1 .. Len(x) : p[i] = x[i]
      /\ \A i \in Len(x) + 1 .. Len(x) + Len(u) : p[i] = u[i - Len(x)]
  BY TwoPieces
<1> HIDE DEF p
<1>2. /\ t \in Seq(Cell) /\ Len(t) = Len(p) + Len(y)
      /\ \A i \in 1 .. Len(p) : t[i] = p[i]
      /\ \A i \in Len(p) + 1 .. Len(p) + Len(y) : t[i] = y[i - Len(p)]
  <2>1. p \in Seq(Cell) /\ y \in Seq(Cell)
    BY <1>1
  <2>. QED
    BY ONLY <2>1, TwoPieces
<1> HIDE DEF t
<1>3. Len(x) \in Nat /\ Len(u) \in Nat /\ Len(y) \in Nat
  BY SeqFacts
<1>4. ASSUME NEW i \in 1 .. Len(t)
      PROVE  t[i] = IF i <= Len(x) THEN x[i]
                    ELSE IF i <= Len(x) + Len(u) THEN u[i - Len(x)]
                    ELSE y[i - (Len(x) + Len(u))]
  <2>1. CASE i <= Len(x)
    <3>1. i \in 1 .. Len(x) /\ i \in 1 .. Len(p)
      BY <1>1, <1>3, <2>1
    <3>. QED
      BY <1>1, <1>2, <2>1, <3>1
  <2>2. CASE ~(i <= Len(x)) /\ i <= Len(x) + Len(u)
    <3>1. i \in Len(x) + 1 .. Len(x) + Len(u) /\ i \in 1 .. Len(p)
      BY <1>1, <1>3, <2>2
    <3>. QED
      BY <1>1, <1>2, <2>2, <3>1
  <2>3. CASE ~(i <= Len(x)) /\ ~(i <= Len(x) + Len(u))
    <3>1. i \in Len(p) + 1 .. Len(p) + Len(y)
      BY <1>1, <1>2, <1>3, <2>3
    <3>2. t[i] = y[i - Len(p)]
      BY <1>2, <3>1
    <3>. QED
      BY <1>1, <2>3, <3>2
  <2>. QED
    BY <2>1, <2>2, <2>3
<1>. QED
  BY <1>1, <1>2, <1>3, <1>4 DEF t, p, Pieces

(* All of a sequence, and nothing skipped. *)
LEMMA TakeAll ==
  ASSUME NEW S, NEW s \in Seq(S)
  PROVE  Take(s, Len(s)) = s /\ Skip(s, 0) = s
BY SubSeqFull DEF Take, Skip

(* The last position is filled in. *)
LEMMA ShowsBackfill ==
  ASSUME NEW b, NEW x \in Seq(Cell), NEW y \in Seq(Cell), NEW q \in Seq(Nat), NEW m \in Int,
         Shows(b, (x \o U32(m)) \o y, Append(q, Len(x))), NEW n \in Int
  PROVE  Shows(Backfill(b, n), (x \o U32(n)) \o y, q)
<1> DEFINE r == Append(q, Len(x))
           u == U32(n)
           t == (x \o U32(m)) \o y
           z == (x \o u) \o y
<1>1. /\ u \in Seq(Cell) /\ Len(u) = Width /\ U32(m) \in Seq(Cell) /\ Len(U32(m)) = Width
      /\ Width \in Nat
  BY NumbersType, CellsFacts
<1>2. Len(q) \in Nat /\ Len(x) \in Nat
  BY SeqFacts
<1>3. /\ r \in Seq(Nat) /\ Len(r) = Len(q) + 1 /\ r[Len(q) + 1] = Len(x)
      /\ \A i \in 1 .. Len(q) : r[i] = q[i]
  BY <1>2
<1>4. Pieces(t, x, U32(m), y) /\ Pieces(z, x, u, y)
  BY <1>1, ThreePieces
<1> HIDE DEF t, r, u, z
<1>5. /\ t \in Seq(Cell) /\ Len(t) = Len(x) + Width + Len(y) /\ Len(y) \in Nat
      /\ z \in Seq(Cell) /\ Len(z) = Len(t)
  BY <1>1, <1>4 DEF Pieces
<1>6. /\ Shows(b, t, r) /\ Sound(b) /\ Len(b.placeholder_stack) = Len(r)
      /\ \A i \in 1 .. Len(r) : b.placeholder_stack[i] = b.readable_begin + r[i]
  BY DEF Shows, t, r
<1>7. /\ b \in Buffers /\ b.buf \in Seq(Cell) /\ Len(b.buf) \in Nat
      /\ b.readable_begin \in Nat /\ b.capacity \in Nat
      /\ Len(b.buf) = b.readable_begin + Len(t) /\ Len(b.buf) <= b.capacity
      /\ b.placeholder_stack \in Seq(Nat) /\ t = Skip(b.buf, b.readable_begin)
  BY <1>6, ShowsFacts
<1> DEFINE pos == peek_placeholder(b)
           F(i) == IF i - pos \in 1 .. Width THEN u[i - pos] ELSE b.buf[i]
           w == Len(b.buf)
           s == [i \in 1 .. w |-> F(i)]
           p == Take(b.placeholder_stack, Len(q))
           c == Backfill(b, n)
<1>8. pos = b.readable_begin + Len(x)
  <2>1. Len(q) + 1 \in 1 .. Len(r)
    BY <1>2, <1>3
  <2>2. b.placeholder_stack[Len(q) + 1] = b.readable_begin + r[Len(q) + 1]
    BY <1>6, <2>1
  <2>. QED
    BY <1>3, <1>6, <2>2 DEF peek_placeholder
<1>9. p \in Seq(Nat) /\ Len(p) = Len(q) /\ \A i \in 1 .. Len(q) : p[i] = b.placeholder_stack[i]
  <2>1. Len(q) \in 0 .. Len(b.placeholder_stack)
    BY <1>2, <1>3, <1>6
  <2>. QED
    BY <1>7, <2>1, TakeFacts
<1> HIDE DEF pos, p
<1>10. s \in Seq(Cell) /\ Len(s) = w /\ \A i \in 1 .. w : s[i] = F(i)
  <2>1. ASSUME NEW i \in 1 .. w
        PROVE  F(i) \in Cell
    <3>1. b.buf[i] \in Cell
      BY <1>7, SeqFacts
    <3>2. ASSUME i - pos \in 1 .. Width
          PROVE  u[i - pos] \in Cell
      BY <1>1, <3>2, SeqFacts
    <3>. QED
      BY <3>1, <3>2
  <2> HIDE DEF F, w
  <2>2. w \in Nat
    BY <1>7 DEF w
  <2>3. s \in Seq(Cell) /\ Len(s) = w
    BY <2>1, <2>2, IsASeq
  <2>. QED
    BY <2>3
<1>11. c = [[b EXCEPT !.placeholder_stack = p] EXCEPT !.buf = s]
  <2>1. drop_placeholder(b) = [b EXCEPT !.placeholder_stack = p]
    <3>1. p = SubSeq(b.placeholder_stack, 1, Len(b.placeholder_stack) - 1)
      <4>1. Len(b.placeholder_stack) - 1 = Len(q)
        BY <1>2, <1>3, <1>6
      <4>. QED
        BY <4>1 DEF p, Take
    <3>. QED
      BY <3>1 DEF drop_placeholder
  <2>2. c = [drop_placeholder(b) EXCEPT !.buf = [i \in DOMAIN b.buf |-> F(i)]]
    BY DEF Backfill, u, pos
  <2>3. DOMAIN b.buf = 1 .. w
    BY <1>7, SeqFacts
  <2> HIDE DEF F, w
  <2>. QED
    BY <2>1, <2>2, <2>3
<1> HIDE DEF c, s
<1>12. c = [buf |-> s, readable_begin |-> b.readable_begin, capacity |-> b.capacity,
            placeholder_stack |-> p]
  BY <1>7, <1>11 DEF Buffers
<1>13. /\ c \in Buffers /\ c.buf = s /\ c.readable_begin = b.readable_begin
       /\ c.capacity = b.capacity /\ c.placeholder_stack = p
  BY <1>7, <1>9, <1>10, <1>12 DEF Buffers
<1>14. Sound(c)
  <2>1. writable_begin(c) = w /\ w \in Nat
    BY <1>7, <1>10, <1>13 DEF writable_begin
  <2>2. b.readable_begin <= w /\ w <= b.capacity
    BY <1>5, <1>7, SeqFacts
  <2> HIDE DEF w
  <2>. QED
    BY <1>13, <2>1, <2>2 DEF Sound
<1>15. readable_data(c) = z
  <2> DEFINE g == b.readable_begin
             v == Skip(s, g)
             o == Skip(b.buf, g)
  <2>1. g \in 0 .. w /\ w - g = Len(t) /\ Len(z) = Len(t)
    BY <1>5, <1>7, SeqFacts
  <2>2. v \in Seq(Cell) /\ Len(v) = w - g /\ \A i \in 1 .. w - g : v[i] = s[g + i]
    <3>1. s \in Seq(Cell) /\ g \in 0 .. Len(s) /\ Len(s) = w
      BY <1>10, <2>1
    <3> HIDE DEF w, g
    <3>2. /\ Skip(s, g) \in Seq(Cell) /\ Len(Skip(s, g)) = Len(s) - g
          /\ \A i \in 1 .. Len(s) - g : Skip(s, g)[i] = s[g + i]
      BY ONLY <3>1, SkipFacts
    <3>. QED
      BY <3>1, <3>2 DEF v
  <2>3. \A i \in 1 .. w - g : o[i] = b.buf[g + i]
    BY <1>7, <2>1, SkipFacts
  <2> HIDE DEF v, o, g, F
  <2>4. ASSUME NEW i \in 1 .. w - g
        PROVE  v[i] = z[i]
    <3>1. PICK j : j = g + i
      OBVIOUS
    <3>2. /\ j \in 1 .. w /\ j - pos = i - Len(x) /\ i \in 1 .. Len(t) /\ i \in 1 .. Len(z)
          /\ i \in Nat
      <4>1. PICK h, l, k, o1 : h = w /\ l = Len(x) /\ k = Len(t) /\ o1 = pos
        OBVIOUS
      <4>2. /\ g \in Nat /\ l \in Nat /\ k \in Nat /\ h = g + k /\ o1 = g + l /\ i \in 1 .. h - g
            /\ j = g + i
        BY <1>2, <1>5, <1>7, <1>8, <3>1, <4>1, SeqFacts DEF g
      <4>3. j \in 1 .. h /\ j - o1 = i - l /\ i \in 1 .. k /\ i \in Nat
        BY ONLY <4>2
      <4>. QED
        BY <1>5, <4>1, <4>3
    <3>3. v[i] = F(j)
      BY <1>10, <2>2, <3>1, <3>2
    <3>4. b.buf[j] = t[i]
      BY <1>7, <2>3, <3>1 DEF o, g
    <3>5. CASE i - Len(x) \in 1 .. Width
      <4>1. ~(i <= Len(x)) /\ i <= Len(x) + Width
        BY <1>1, <1>2, <3>2, <3>5
      <4>2. z[i] = u[i - Len(x)]
        BY <1>1, <1>4, <3>2, <4>1 DEF Pieces
      <4>. QED
        BY <3>2, <3>3, <3>5, <4>2 DEF F
    <3>6. CASE ~(i - Len(x) \in 1 .. Width)
      <4>1. i <= Len(x) \/ ~(i <= Len(x) + Width)
        BY <1>1, <1>2, <3>2, <3>6
      <4>2. z[i] = t[i]
        <5>1. i <= Len(x) => i <= Len(x) + Width
          BY <1>1, <1>2, <3>2
        <5>. QED
          BY <1>1, <1>4, <3>2, <4>1, <5>1 DEF Pieces
      <4>. QED
        BY <3>2, <3>3, <3>4, <3>6, <4>2 DEF F
    <3>. QED
      BY <3>5, <3>6
  <2>5. v = z
    BY <1>5, <2>1, <2>2, <2>4, SeqEqual
  <2>. QED
    BY <1>13, <2>5, ReadableIs DEF v, g
<1>16. \A i \in 1 .. Len(q) : c.placeholder_stack[i] = c.readable_begin + q[i]
  <2>1. \A i \in 1 .. Len(q) : i \in 1 .. Len(r)
    BY <1>2, <1>3
  <2>. QED
    BY <1>3, <1>6, <1>9, <1>13, <2>1
<1>17. Shows(c, z, q)
  BY <1>9, <1>13, <1>14, <1>15, <1>16 DEF Shows
<1>. QED
  BY <1>17 DEF c, z, u

(* The cells after the first m, among the first m + n *)
LEMMA SkipOfTake ==
  ASSUME NEW S, NEW s \in Seq(S), NEW m \in Nat, NEW n \in Nat, m + n <= Len(s),
         NEW k, k = m + n
  PROVE  Skip(Take(s, k), m) = Take(Skip(s, m), n)
<1> DEFINE p == Take(s, k)
           q == Skip(s, m)
<1>1. Len(s) \in Nat /\ k \in 0 .. Len(s) /\ m \in 0 .. Len(s)
  BY SeqFacts
<1>2. p \in Seq(S) /\ Len(p) = k /\ \A i \in 1 .. k : p[i] = s[i]
  BY <1>1, TakeFacts
<1>3. q \in Seq(S) /\ Len(q) = Len(s) - m /\ \A i \in 1 .. Len(s) - m : q[i] = s[m + i]
  BY <1>1, SkipFacts
<1> HIDE DEF p, q
<1>4. /\ Skip(p, m) \in Seq(S) /\ Len(Skip(p, m)) = Len(p) - m
      /\ \A i \in 1 .. Len(p) - m : Skip(p, m)[i] = p[m + i]
  <2>1. p \in Seq(S) /\ m \in 0 .. Len(p)
    BY <1>2
  <2>. QED
    BY ONLY <2>1, SkipFacts
<1>5. /\ Take(q, n) \in Seq(S) /\ Len(Take(q, n)) = n
      /\ \A i \in 1 .. n : Take(q, n)[i] = q[i]
  <2>1. q \in Seq(S) /\ n \in 0 .. Len(q)
    BY <1>1, <1>3
  <2>. QED
    BY ONLY <2>1, TakeFacts
<1>6. Len(p) - m = n
  BY <1>2
<1>7. ASSUME NEW i \in 1 .. n
      PROVE  Skip(p, m)[i] = Take(q, n)[i]
  <2>1. PICK j : j = m + i
    OBVIOUS
  <2>2. j \in 1 .. k /\ i \in 1 .. Len(s) - m
    BY <1>1, <2>1
  <2>. QED
    BY <1>2, <1>3, <1>4, <1>5, <1>6, <2>1, <2>2
<1>8. Skip(p, m) = Take(q, n)
  BY <1>4, <1>5, <1>6, <1>7, SeqEqual
<1>. QED
  BY <1>8 DEF p, q

(* The first of two pieces, and the second *)
LEMMA SplitTwo ==
  ASSUME NEW S, NEW p \in Seq(S), NEW q \in Seq(S), NEW n, n = Len(p)
  PROVE  Take(p \o q, n) = p /\ Skip(p \o q, n) = q
<1>1. Len(p) \in Nat /\ n \in 0 .. Len(p)
  BY SeqFacts
<1>2. Take(p \o q, n) = Take(p, n) /\ Skip(p \o q, n) = Skip(p, n) \o q
  BY <1>1, TakeOfTwo, SkipOfTwo
<1>3. Take(p, n) = p
  BY TakeAll
<1>4. Skip(p, n) = <<>>
  <2>1. Skip(p, n) \in Seq(S) /\ Len(Skip(p, n)) = Len(p) - n
    BY <1>1, SkipFacts
  <2>2. Len(p) - n = 0
    BY <1>1
  <2>. QED
    BY <2>1, <2>2, EmptySeq
<1>. QED
  BY <1>2, <1>3, <1>4, ConcatEmptySeq

(* Where the last position is, and what has been written after it *)
LEMMA ShowsLast ==
  ASSUME NEW b, NEW t, NEW q \in Seq(Nat), NEW p \in Nat, Shows(b, t, Append(q, p))
  PROVE  /\ peek_placeholder(b) = b.readable_begin + p
         /\ response_size(b) = Len(t) - p - Width
<1>1. Len(q) \in Nat
  BY SeqFacts
<1> DEFINE r == Append(q, p)
<1>2. Len(r) = Len(q) + 1 /\ r[Len(q) + 1] = p
  BY <1>1
<1> HIDE DEF r
<1>3. /\ Len(b.placeholder_stack) = Len(r)
      /\ \A i \in 1 .. Len(r) : b.placeholder_stack[i] = b.readable_begin + r[i]
  BY DEF Shows, r
<1>4. Len(q) + 1 \in 1 .. Len(r)
  BY <1>1, <1>2
<1>5. peek_placeholder(b) = b.readable_begin + p
  <2>1. b.placeholder_stack[Len(q) + 1] = b.readable_begin + r[Len(q) + 1]
    BY <1>3, <1>4
  <2>. QED
    BY <1>2, <1>3, <2>1 DEF peek_placeholder
<1>6. /\ Len(b.buf) \in Nat /\ b.readable_begin \in Nat /\ Len(t) \in Nat
      /\ Len(b.buf) = b.readable_begin + Len(t)
  BY ShowsFacts
<1>7. Len(b.buf) - (b.readable_begin + p) - Width = Len(t) - p - Width
  BY <1>6, CellsFacts
<1>. QED
  BY <1>5, <1>7 DEF response_size, writable_begin

(* A buffer with another array *)
LEMMA BufferWith ==
  ASSUME NEW b \in Buffers, NEW s
  PROVE  [b EXCEPT !.buf = s] =
           [buf |-> s, readable_begin |-> b.readable_begin, capacity |-> b.capacity,
            placeholder_stack |-> b.placeholder_stack]
BY DEF Buffers

(* What is after the cells of the last position is dropped. *)
LEMMA ShowsRollback ==
  ASSUME NEW b, NEW x \in Seq(Cell), NEW y \in Seq(Cell), NEW q \in Seq(Nat),
         Shows(b, (x \o U32(0)) \o y, Append(q, Len(x)))
  PROVE  Shows([b EXCEPT !.buf = Take(@, peek_placeholder(b) + Width)],
               x \o U32(0), Append(q, Len(x)))
<1> DEFINE u == x \o U32(0)
           t == u \o y
           r == Append(q, Len(x))
           h == peek_placeholder(b) + Width
           s == Take(b.buf, h)
           c == [b EXCEPT !.buf = s]
<1>1. Len(x) \in Nat /\ Len(y) \in Nat /\ Width \in Nat
  BY SeqFacts, CellsFacts
<1>2. u \in Seq(Cell) /\ Len(u) = Len(x) + Width
  BY NumbersType, TwoPieces
<1>3. peek_placeholder(b) = b.readable_begin + Len(x)
  BY <1>1, ShowsLast
<1> HIDE DEF u
<1>4. t \in Seq(Cell) /\ Len(t) = Len(u) + Len(y)
  BY <1>2, TwoPieces
<1>5. Take(t, Len(u)) = u
  BY <1>2, SplitTwo
<1>6. Shows(b, t, r)
  BY DEF t, u, r
<1> HIDE DEF t, r
<1>7. /\ b \in Buffers /\ b.buf \in Seq(Cell) /\ Len(b.buf) \in Nat
      /\ b.readable_begin \in Nat /\ b.capacity \in Nat
      /\ Len(b.buf) = b.readable_begin + Len(t) /\ Len(b.buf) <= b.capacity
      /\ b.placeholder_stack \in Seq(Nat) /\ t = Skip(b.buf, b.readable_begin)
  BY <1>6, ShowsFacts
<1>8. /\ h = b.readable_begin + Len(u) /\ Len(u) \in Nat /\ h \in Nat /\ h <= Len(b.buf)
      /\ b.readable_begin <= h /\ h <= b.capacity
  <2>1. PICK g, l, k, j, a, w : /\ g = b.readable_begin /\ l = Len(x) /\ k = Len(y) /\ j = Len(b.buf)
                                /\ a = Len(u) /\ w = b.capacity
    OBVIOUS
  <2>2. /\ g \in Nat /\ l \in Nat /\ k \in Nat /\ Width \in Nat /\ a = l + Width /\ j = g + (a + k)
        /\ j <= w /\ w \in Nat /\ h = (g + l) + Width
    BY <1>1, <1>2, <1>3, <1>4, <1>7, <2>1
  <2> HIDE DEF h
  <2>3. h = g + a /\ a \in Nat /\ h \in Nat /\ h <= j /\ g <= h /\ h <= w
    BY ONLY <2>2
  <2>. QED
    BY <2>1, <2>3
<1> HIDE DEF h
<1>9. s \in Seq(Cell) /\ Len(s) = h
  <2>1. h \in 0 .. Len(b.buf)
    BY <1>7, <1>8
  <2>. QED
    BY <1>7, <2>1, TakeFacts
<1>10. Skip(s, b.readable_begin) = u
  <2>1. PICK g, k : g = b.readable_begin /\ k = Len(u)
    OBVIOUS
  <2>2. g \in Nat /\ k \in Nat /\ g + k <= Len(b.buf) /\ h = g + k /\ b.buf \in Seq(Cell)
    BY <1>7, <1>8, <2>1
  <2>3. Skip(Take(b.buf, h), g) = Take(Skip(b.buf, g), k)
    BY ONLY <2>2, SkipOfTake
  <2>. QED
    BY <1>5, <1>7, <2>1, <2>3
<1> HIDE DEF s
<1>11. c = [buf |-> s, readable_begin |-> b.readable_begin, capacity |-> b.capacity,
            placeholder_stack |-> b.placeholder_stack]
  BY <1>7, BufferWith
<1> HIDE DEF c
<1>12. /\ c \in Buffers /\ c.buf = s /\ c.readable_begin = b.readable_begin
       /\ c.capacity = b.capacity /\ c.placeholder_stack = b.placeholder_stack
  BY <1>7, <1>9, <1>11 DEF Buffers
<1>13. Sound(c) /\ readable_data(c) = u
  BY <1>8, <1>9, <1>10, <1>12, ReadableIs DEF Sound, writable_begin
<1>14. Shows(c, u, r)
  BY <1>6, <1>12, <1>13 DEF Shows
<1>. QED
  BY <1>14 DEF c, u, r, s, h

-----------------------------------------------------------------------------
(* The kinds of scalars *)
LEMMA ScalarCases ==
  ASSUME NEW v \in Scalars
  PROVE  \/ v.tag = TAG_NIL /\ v = [tag |-> TAG_NIL]
         \/ v.tag = TAG_STR /\ v.str \in Seq(Cell) /\ v = [tag |-> TAG_STR, str |-> v.str]
         \/ v.tag = TAG_INT /\ v.int \in Numbers(2 * Width) /\ v = [tag |-> TAG_INT, int |-> v.int]
         \/ v.tag = TAG_DBL /\ v.dbl \in Numbers(2 * Width) /\ v = [tag |-> TAG_DBL, dbl |-> v.dbl]
         \/ /\ v.tag = TAG_ERR /\ v.code \in Numbers(Width) /\ v.msg \in Seq(Cell)
            /\ v = [tag |-> TAG_ERR, code |-> v.code, msg |-> v.msg]
<1>1. CASE v \in [tag : {TAG_NIL}]
  BY <1>1
<1>2. CASE v \in [tag : {TAG_STR}, str : Seq(Cell)]
  BY <1>2
<1>3. CASE v \in [tag : {TAG_INT}, int : Numbers(2 * Width)]
  BY <1>3
<1>4. CASE v \in [tag : {TAG_DBL}, dbl : Numbers(2 * Width)]
  BY <1>4
<1>5. CASE v \in [tag : {TAG_ERR}, code : Numbers(Width), msg : Seq(Cell)]
  BY <1>5
<1>. QED
  BY <1>1, <1>2, <1>3, <1>4, <1>5 DEF Scalars

(* What is written of a value, cell by cell *)
ScalarCells(v) ==
  CASE v.tag = TAG_NIL -> <<TAG_NIL>>
    [] v.tag = TAG_STR -> <<TAG_STR>> \o WithLength(v.str)
    [] v.tag = TAG_INT -> <<TAG_INT>> \o I64(v.int)
    [] v.tag = TAG_DBL -> <<TAG_DBL>> \o I64(v.dbl)
    [] v.tag = TAG_ERR -> <<TAG_ERR>> \o (U32(v.code) \o WithLength(v.msg))

ArrayCells(s) == FlattenSeq([i \in DOMAIN s |-> ScalarCells(s[i])])

ValueCells(v) ==
  IF v.tag # TAG_ARR THEN ScalarCells(v)
  ELSE <<TAG_ARR>> \o (U32(Len(v.arr)) \o ArrayCells(v.arr))

(* Pieces of a stream, however they are grouped: three, four and five of them *)
Groups(s, t, u) == (s \o t) \o u = s \o (t \o u)

Groups4(s, t, u, v) == ((s \o t) \o u) \o v = s \o (t \o (u \o v))

Groups5(s, t, u, v, w) == (((s \o t) \o u) \o v) \o w = s \o (t \o (u \o (v \o w)))

LEMMA InGroups ==
  ASSUME NEW s \in Seq(Cell), NEW t \in Seq(Cell), NEW u \in Seq(Cell)
  PROVE  Groups(s, t, u)
BY InARow DEF Groups

LEMMA InGroups4 ==
  ASSUME NEW s \in Seq(Cell), NEW t \in Seq(Cell), NEW u \in Seq(Cell), NEW x \in Seq(Cell)
  PROVE  Groups4(s, t, u, x)
<1>1. PICK p : p = s \o t
  OBVIOUS
<1>2. PICK y : y = u \o x
  OBVIOUS
<1>3. p \in Seq(Cell) /\ y \in Seq(Cell)
  BY <1>1, <1>2, TwoPieces
<1>4. Groups(p, u, x) /\ Groups(s, t, y)
  BY <1>3, InGroups
<1>. QED
  BY <1>1, <1>2, <1>4 DEF Groups, Groups4

LEMMA InGroups5 ==
  ASSUME NEW s \in Seq(Cell), NEW t \in Seq(Cell), NEW u \in Seq(Cell),
         NEW v \in Seq(Cell), NEW w \in Seq(Cell)
  PROVE  Groups5(s, t, u, v, w)
<1>1. PICK p : p = s \o t
  OBVIOUS
<1>2. PICK y : y = v \o w
  OBVIOUS
<1>3. PICK z : z = u \o y
  OBVIOUS
<1>4. p \in Seq(Cell) /\ y \in Seq(Cell)
  BY <1>1, <1>2, TwoPieces
<1>5. z \in Seq(Cell)
  BY <1>3, <1>4, TwoPieces
<1>6. Groups4(p, u, v, w) /\ Groups(s, t, z)
  BY <1>4, <1>5, InGroups, InGroups4
<1>. QED
  BY <1>1, <1>2, <1>3, <1>6 DEF Groups, Groups4, Groups5

(* A string with its length before it, whatever its length *)
LEMMA LengthType ==
  ASSUME NEW s \in Seq(Cell)
  PROVE  /\ U32(Len(s)) \in Seq(Cell) /\ Len(U32(Len(s))) = Width
         /\ WithLength(s) \in Seq(Cell) /\ Len(WithLength(s)) = Width + Len(s)
<1>1. Len(s) \in Nat /\ Len(s) \in Int
  BY SeqFacts
<1>2. U32(Len(s)) \in Seq(Cell) /\ Len(U32(Len(s))) = Width
  BY <1>1, NumbersType
<1>. QED
  BY <1>2, TwoPieces DEF WithLength

(* Numbers that fit are numbers. *)
LEMMA NumbersAreNat == \A width : Numbers(width) \subseteq Nat
BY DEF Numbers

(* The cells of an int64 *)
LEMMA I64Type ==
  ASSUME NEW n \in Numbers(2 * Width)
  PROVE  I64(n) \in Seq(Cell) /\ Len(I64(n)) = 2 * Width /\ Number(I64(n)) = n
<1>1. 2 * Width \in Nat
  BY CellsFacts
<1>. QED
  BY <1>1, NumberBack DEF I64

(* The cells of a scalar are as many as Size() says, *)
LEMMA ScalarLength ==
  ASSUME NEW v \in Scalars
  PROVE  /\ ScalarCells(v) \in Seq(Cell) /\ Len(ScalarCells(v)) = ScalarSize(v)
         /\ ScalarSize(v) \in Nat /\ ScalarSize(v) > 0
<1>1. CASE v.tag = TAG_NIL
  <2>1. ScalarCells(v) = <<TAG_NIL>> /\ ScalarSize(v) = 1
    BY <1>1, TagFacts DEF ScalarCells, ScalarSize
  <2>2. Len(<<TAG_NIL>>) = 1 /\ <<TAG_NIL>> \in Seq(Cell)
    BY TagFacts
  <2>. QED
    BY <2>1, <2>2
<1>2. CASE v.tag = TAG_STR /\ v.str \in Seq(Cell)
  <2>1. ScalarCells(v) = <<TAG_STR>> \o WithLength(v.str) /\ ScalarSize(v) = 1 + Width + Len(v.str)
    BY <1>2, TagFacts DEF ScalarCells, ScalarSize
  <2>2. Len(<<TAG_STR>>) = 1 /\ <<TAG_STR>> \in Seq(Cell)
    BY TagFacts
  <2>3. WithLength(v.str) \in Seq(Cell) /\ Len(WithLength(v.str)) = Width + Len(v.str)
    BY <1>2, LengthType
  <2>4. /\ <<TAG_STR>> \o WithLength(v.str) \in Seq(Cell)
        /\ Len(<<TAG_STR>> \o WithLength(v.str)) = 1 + (Width + Len(v.str))
    BY <2>2, <2>3, TwoPieces
  <2>5. PICK n : n = Len(v.str)
    OBVIOUS
  <2>6. n \in Nat
    BY <1>2, <2>5, SeqFacts
  <2>7. 1 + (Width + n) = 1 + Width + n /\ 1 + Width + n \in Nat /\ 1 + Width + n > 0
    BY ONLY <2>6, CellsFacts
  <2>. QED
    BY <2>1, <2>4, <2>5, <2>7
<1>3. CASE v.tag = TAG_INT /\ v.int \in Numbers(2 * Width)
  <2>1. ScalarCells(v) = <<TAG_INT>> \o I64(v.int) /\ ScalarSize(v) = 1 + 2 * Width
    BY <1>3, TagFacts DEF ScalarCells, ScalarSize
  <2>2. Len(<<TAG_INT>>) = 1 /\ <<TAG_INT>> \in Seq(Cell)
    BY TagFacts
  <2>3. I64(v.int) \in Seq(Cell) /\ Len(I64(v.int)) = 2 * Width
    BY <1>3, I64Type
  <2>4. <<TAG_INT>> \o I64(v.int) \in Seq(Cell) /\ Len(<<TAG_INT>> \o I64(v.int)) = 1 + 2 * Width
    BY <2>2, <2>3, TwoPieces
  <2>. QED
    BY <2>1, <2>4, CellsFacts
<1>4. CASE v.tag = TAG_DBL /\ v.dbl \in Numbers(2 * Width)
  <2>1. ScalarCells(v) = <<TAG_DBL>> \o I64(v.dbl) /\ ScalarSize(v) = 1 + 2 * Width
    BY <1>4, TagFacts DEF ScalarCells, ScalarSize
  <2>2. Len(<<TAG_DBL>>) = 1 /\ <<TAG_DBL>> \in Seq(Cell)
    BY TagFacts
  <2>3. I64(v.dbl) \in Seq(Cell) /\ Len(I64(v.dbl)) = 2 * Width
    BY <1>4, I64Type
  <2>4. <<TAG_DBL>> \o I64(v.dbl) \in Seq(Cell) /\ Len(<<TAG_DBL>> \o I64(v.dbl)) = 1 + 2 * Width
    BY <2>2, <2>3, TwoPieces
  <2>. QED
    BY <2>1, <2>4, CellsFacts
<1>5. CASE v.tag = TAG_ERR /\ v.code \in Numbers(Width) /\ v.msg \in Seq(Cell)
  <2> DEFINE x == U32(v.code) \o WithLength(v.msg)
  <2>1. ScalarCells(v) = <<TAG_ERR>> \o x /\ ScalarSize(v) = 1 + 2 * Width + Len(v.msg)
    BY <1>5, TagFacts DEF ScalarCells, ScalarSize
  <2>2. Len(<<TAG_ERR>>) = 1 /\ <<TAG_ERR>> \in Seq(Cell)
    BY TagFacts
  <2>3. WithLength(v.msg) \in Seq(Cell) /\ Len(WithLength(v.msg)) = Width + Len(v.msg)
    BY <1>5, LengthType
  <2>4. U32(v.code) \in Seq(Cell) /\ Len(U32(v.code)) = Width
    <3>1. v.code \in Int
      BY <1>5, NumbersAreNat
    <3>. QED
      BY <3>1, NumbersType
  <2>5. x \in Seq(Cell) /\ Len(x) = Width + (Width + Len(v.msg))
    <3>1. x \in Seq(Cell) /\ Len(x) = Len(U32(v.code)) + Len(WithLength(v.msg))
      BY <2>3, <2>4, TwoPieces
    <3>. QED
      BY <2>3, <2>4, <3>1
  <2> HIDE DEF x
  <2>6. <<TAG_ERR>> \o x \in Seq(Cell) /\ Len(<<TAG_ERR>> \o x) = 1 + Len(x)
    BY <2>2, <2>5, TwoPieces
  <2>7. PICK n : n = Len(v.msg)
    OBVIOUS
  <2>8. n \in Nat
    BY <1>5, <2>7, SeqFacts
  <2>9. /\ 1 + (Width + (Width + n)) = 1 + 2 * Width + n /\ 1 + 2 * Width + n \in Nat
        /\ 1 + 2 * Width + n > 0
    BY ONLY <2>8, CellsFacts
  <2>. QED
    BY <2>1, <2>5, <2>6, <2>7, <2>9
<1>. QED
  BY <1>1, <1>2, <1>3, <1>4, <1>5, ScalarCases

(* and are what is written. *)
LEMMA ShowsScalar ==
  ASSUME NEW b, NEW t, NEW q, Shows(b, t, q), NEW v \in Scalars
  PROVE  Shows(out_scalar(b, v), t \o ScalarCells(v), q)
<1>1. t \in Seq(Cell)
  BY ShowsFacts
<1>2. CASE v.tag = TAG_NIL
  <2>1. out_scalar(b, v) = append(b, <<TAG_NIL>>) /\ ScalarCells(v) = <<TAG_NIL>>
    BY <1>2, TagFacts DEF out_scalar, ScalarCells
  <2>. QED
    BY <2>1, ShowsAppend, TagFacts
<1>3. CASE v.tag = TAG_STR /\ v.str \in Seq(Cell)
  <2> DEFINE a == <<TAG_STR>>
             u == U32(Len(v.str))
  <2>1. /\ out_scalar(b, v) = append(append(append(b, a), u), v.str)
        /\ ScalarCells(v) = a \o (u \o v.str)
    <3>1. WithLength(v.str) = u \o v.str
      BY DEF WithLength
    <3>2. ScalarCells(v) = a \o WithLength(v.str)
      BY <1>3, TagFacts DEF ScalarCells
    <3>3. out_scalar(b, v) = append(append(append(b, a), u), v.str)
      BY <1>3, TagFacts DEF out_scalar
    <3>. QED
      BY ONLY <3>1, <3>2, <3>3
  <2>2. a \in Seq(Cell) /\ u \in Seq(Cell) /\ v.str \in Seq(Cell)
    BY <1>3, LengthType, TagFacts
  <2> HIDE DEF a, u
  <2>3. Shows(append(append(append(b, a), u), v.str), ((t \o a) \o u) \o v.str, q)
    BY <2>2, ShowsAppend
  <2>4. Groups4(t, a, u, v.str)
    BY <1>1, <2>2, InGroups4
  <2>. QED
    BY <2>1, <2>3, <2>4 DEF Groups4
<1>4. CASE v.tag = TAG_INT /\ v.int \in Numbers(2 * Width)
  <2> DEFINE a == <<TAG_INT>>
             u == I64(v.int)
  <2>1. out_scalar(b, v) = append(append(b, a), u) /\ ScalarCells(v) = a \o u
    BY <1>4, TagFacts DEF out_scalar, ScalarCells
  <2>2. a \in Seq(Cell) /\ u \in Seq(Cell)
    BY <1>4, I64Type, TagFacts
  <2> HIDE DEF a, u
  <2>3. Shows(append(append(b, a), u), (t \o a) \o u, q)
    BY <2>2, ShowsAppend
  <2>4. Groups(t, a, u)
    BY <1>1, <2>2, InGroups
  <2>. QED
    BY <2>1, <2>3, <2>4 DEF Groups
<1>5. CASE v.tag = TAG_DBL /\ v.dbl \in Numbers(2 * Width)
  <2> DEFINE a == <<TAG_DBL>>
             u == I64(v.dbl)
  <2>1. out_scalar(b, v) = append(append(b, a), u) /\ ScalarCells(v) = a \o u
    BY <1>5, TagFacts DEF out_scalar, ScalarCells
  <2>2. a \in Seq(Cell) /\ u \in Seq(Cell)
    BY <1>5, I64Type, TagFacts
  <2> HIDE DEF a, u
  <2>3. Shows(append(append(b, a), u), (t \o a) \o u, q)
    BY <2>2, ShowsAppend
  <2>4. Groups(t, a, u)
    BY <1>1, <2>2, InGroups
  <2>. QED
    BY <2>1, <2>3, <2>4 DEF Groups
<1>6. CASE v.tag = TAG_ERR /\ v.code \in Numbers(Width) /\ v.msg \in Seq(Cell)
  <2> DEFINE a == <<TAG_ERR>>
             u == U32(v.code)
             w == U32(Len(v.msg))
  <2>1. /\ out_scalar(b, v) = append(append(append(append(b, a), u), w), v.msg)
        /\ ScalarCells(v) = a \o (u \o (w \o v.msg))
    <3>1. WithLength(v.msg) = w \o v.msg
      BY DEF WithLength
    <3>2. ScalarCells(v) = a \o (u \o WithLength(v.msg))
      BY <1>6, TagFacts DEF ScalarCells
    <3>3. out_scalar(b, v) = append(append(append(append(b, a), u), w), v.msg)
      BY <1>6, TagFacts DEF out_scalar
    <3>. QED
      BY ONLY <3>1, <3>2, <3>3
  <2>2. a \in Seq(Cell) /\ u \in Seq(Cell) /\ w \in Seq(Cell) /\ v.msg \in Seq(Cell)
    <3>1. v.code \in Int
      BY <1>6, NumbersAreNat
    <3>2. U32(v.code) \in Seq(Cell)
      BY <3>1, NumbersType
    <3>. QED
      BY <1>6, <3>2, LengthType, TagFacts
  <2> HIDE DEF a, u, w
  <2>3. Shows(append(append(append(append(b, a), u), w), v.msg), (((t \o a) \o u) \o w) \o v.msg, q)
    BY <2>2, ShowsAppend
  <2>4. Groups5(t, a, u, w, v.msg)
    BY <1>1, <2>2, InGroups5
  <2>. QED
    BY <2>1, <2>3, <2>4 DEF Groups5
<1>. QED
  BY <1>2, <1>3, <1>4, <1>5, <1>6, ScalarCases

(* Strings that are joined, from the front: what the first of them make.   *)
Joined(s, z) ==
  /\ z[0] = <<>> /\ z[Len(s)] = FlattenSeq(s)
  /\ \A k \in 0 .. Len(s) : z[k] \in Seq(Cell)
  /\ \A k \in 1 .. Len(s) : z[k] = z[k - 1] \o s[k]

LEMMA JoinedExists ==
  ASSUME NEW s \in Seq(Seq(Cell))
  PROVE  \E z : Joined(s, z)
<1> DEFINE n == Len(s)
           g == CHOOSE h : Flattened(s, n, h)
           z == [k \in 0 .. n |-> IF k = 0 THEN <<>> ELSE g[k]]
<1>1. n \in Nat /\ \A i \in 1 .. n : s[i] \in Seq(Cell)
  BY SeqFacts
<1>2. <<>> \in Seq(Cell)
  BY EmptySeq
<1>3. Flattened(s, n, g)
  BY <1>1, FlatteningExists
<1>4. z[n] = FlattenSeq(s)
  <2>1. CASE n = 0
    <3>1. s = <<>>
      BY <2>1, EmptySeq
    <3>2. FlattenSeq(s) = s
      BY <2>1 DEF FlattenSeq
    <3>. QED
      BY <2>1, <3>1, <3>2
  <2>2. CASE n # 0
    <3>1. FlattenSeq(s) = g[n]
      BY <2>2 DEF FlattenSeq, Flattened
    <3>. QED
      BY <1>1, <2>2, <3>1
  <2>. QED
    BY <2>1, <2>2
<1> DEFINE G(i) == IF i = 1 THEN s[i] ELSE g[i - 1] \o s[i]
<1>5. g = [i \in 1 .. n |-> G(i)]
  BY <1>3 DEF Flattened
<1> HIDE DEF g
<1>6. \A i \in 1 .. n : g[i] = G(i)
  <2> HIDE DEF G, n
  <2>. QED
    BY <1>5
<1>7. z[0] = <<>> /\ \A k \in 1 .. n : z[k] = g[k]
  BY <1>1
<1> HIDE DEF z, n
<1>8. ASSUME NEW k \in 1 .. n
      PROVE  z[k] = z[k - 1] \o s[k]
  <2>1. s[k] \in Seq(Cell) /\ z[k] = g[k] /\ g[k] = G(k)
    BY <1>1, <1>6, <1>7
  <2>2. CASE k = 1
    <3>1. <<>> \o s[k] = s[k]
      BY <2>1, ConcatEmptySeq
    <3>2. z[k - 1] = <<>> /\ z[k] = s[k]
      BY <1>7, <2>1, <2>2
    <3>. QED
      BY <3>1, <3>2
  <2>3. CASE k # 1
    <3>1. k - 1 \in 1 .. n
      BY <1>1, <2>3
    <3>. QED
      BY <1>7, <2>1, <2>3, <3>1
  <2>. QED
    BY <2>2, <2>3
<1> DEFINE Q == {k \in 0 .. n : z[k] \in Seq(Cell)}
<1>9. 0 .. n \subseteq Q
  <2>1. 0 \in Q
    <3>1. z[0] \in Seq(Cell)
      BY <1>2, <1>7
    <3>. QED
      BY <1>1, <3>1
  <2>2. ASSUME NEW k \in 0 .. n - 1, k \in Q
        PROVE  k + 1 \in Q
    <3>1. PICK m : m = k + 1
      OBVIOUS
    <3>2. m \in 1 .. n /\ m - 1 = k /\ m \in 0 .. n
      BY <1>1, <3>1
    <3>3. z[m] = z[k] \o s[m] /\ s[m] \in Seq(Cell) /\ z[k] \in Seq(Cell)
      BY <1>1, <1>8, <2>2, <3>2
    <3>4. z[m] \in Seq(Cell)
      BY <3>3, TwoPieces
    <3>. QED
      BY <3>1, <3>2, <3>4
  <2> HIDE DEF Q
  <2>. QED
    BY <1>1, <2>1, <2>2, AllUpTo
<1>10. \A k \in 0 .. n : z[k] \in Seq(Cell)
  BY <1>9
<1>11. Joined(s, z)
  BY <1>4, <1>7, <1>8, <1>10 DEF Joined, n
<1>. QED
  BY <1>11

(* Joined strings of cells are cells. *)
LEMMA FlattenType ==
  ASSUME NEW s \in Seq(Seq(Cell))
  PROVE  FlattenSeq(s) \in Seq(Cell)
<1>1. PICK z : Joined(s, z)
  BY JoinedExists
<1>2. Len(s) \in Nat
  BY SeqFacts
<1>3. z[Len(s)] = FlattenSeq(s) /\ z[Len(s)] \in Seq(Cell)
  BY <1>1, <1>2 DEF Joined
<1>. QED
  BY <1>3

(* The scalars of an array, each as it is written *)
ScalarsCells(s) == [i \in DOMAIN s |-> ScalarCells(s[i])]

LEMMA ScalarsType ==
  ASSUME NEW s \in Seq(Scalars)
  PROVE  /\ ScalarsCells(s) \in Seq(Seq(Cell)) /\ Len(ScalarsCells(s)) = Len(s)
         /\ \A i \in 1 .. Len(s) : ScalarsCells(s)[i] = ScalarCells(s[i]) /\ s[i] \in Scalars
         /\ ArrayCells(s) = FlattenSeq(ScalarsCells(s)) /\ ArrayCells(s) \in Seq(Cell)
<1> DEFINE F(i) == ScalarCells(s[i])
           n == Len(s)
           r == [i \in 1 .. n |-> F(i)]
<1>1. n \in Nat /\ DOMAIN s = 1 .. n /\ \A i \in 1 .. n : s[i] \in Scalars
  BY SeqFacts
<1>2. ScalarsCells(s) = r
  BY <1>1 DEF ScalarsCells
<1>3. ASSUME NEW i \in 1 .. n
      PROVE  F(i) \in Seq(Cell)
  BY <1>1, ScalarLength
<1>4. \A i \in 1 .. n : r[i] = F(i)
  OBVIOUS
<1> HIDE DEF F
<1>5. r \in Seq(Seq(Cell))
  BY <1>1, <1>3, IsASeq
<1>6. Len(r) = n
  BY <1>1
<1> HIDE DEF r
<1>7. ArrayCells(s) = FlattenSeq(ScalarsCells(s))
  BY DEF ArrayCells, ScalarsCells
<1>8. FlattenSeq(r) \in Seq(Cell)
  BY <1>5, FlattenType
<1>. QED
  BY <1>1, <1>2, <1>4, <1>5, <1>6, <1>7, <1>8 DEF F

(* So are the elements of an array written. *)
LEMMA ShowsFold ==
  ASSUME NEW b, NEW t, NEW q, Shows(b, t, q), NEW s \in Seq(Scalars)
  PROVE  Shows(FoldLeft(out_scalar, b, s), t \o ArrayCells(s), q)
<1> DEFINE n == Len(s)
           g == CHOOSE h : WrittenAll(b, s, h)
           r == ScalarsCells(s)
<1>1. n \in Nat /\ DOMAIN s = 1 .. n
  BY SeqFacts
<1>2. WrittenAll(b, s, g)
  <2>1. \E f : WrittenUpTo(b, s, n, f)
    BY <1>1, WritingExists
  <2>. QED
    BY <1>1, <2>1 DEF WrittenUpTo, WrittenAll
<1>3. FoldLeft(out_scalar, b, s) = g[DOMAIN s]
  BY DEF FoldLeft, MapThenFoldSet, WrittenAll
<1> DEFINE G(T) == IF T = {} THEN b ELSE out_scalar(g[T \ {Max(T)}], s[Max(T)])
<1>4. g = [T \in SUBSET (1 .. n) |-> G(T)]
  BY <1>1, <1>2 DEF WrittenAll
<1>5. /\ r \in Seq(Seq(Cell)) /\ Len(r) = n /\ ArrayCells(s) = FlattenSeq(r)
      /\ \A i \in 1 .. n : r[i] = ScalarCells(s[i]) /\ s[i] \in Scalars
  BY ScalarsType
<1> HIDE DEF g, n, r
<1>6. \A T \in SUBSET (1 .. n) : g[T] = G(T)
  <2> HIDE DEF G
  <2>. QED
    BY <1>4
<1>7. PICK z : Joined(r, z)
  BY <1>5, JoinedExists
<1>8. /\ z[0] = <<>> /\ z[n] = ArrayCells(s)
      /\ \A k \in 0 .. n : z[k] \in Seq(Cell)
      /\ \A k \in 1 .. n : z[k] = z[k - 1] \o r[k]
  BY <1>5, <1>7 DEF Joined
<1>9. t \in Seq(Cell)
  BY ShowsFacts
<1> DEFINE Q == {m \in 0 .. n : Shows(g[1 .. m], t \o z[m], q)}
<1>10. 0 \in Q
  <2>1. 1 .. 0 = {}
    OBVIOUS
  <2>2. g[1 .. 0] = b
    BY <1>6, <2>1
  <2>3. t \o z[0] = t
    BY <1>8, <1>9, ConcatEmptySeq
  <2>4. Shows(g[1 .. 0], t \o z[0], q)
    BY <2>2, <2>3
  <2>. QED
    BY <1>1, <2>4
<1>11. ASSUME NEW m \in 0 .. n - 1, m \in Q
       PROVE  m + 1 \in Q
  <2>1. PICK j : j = m + 1
    OBVIOUS
  <2>2. j \in 1 .. n /\ j \in 0 .. n /\ m = j - 1 /\ j \in Int /\ 1 .. j \in SUBSET (1 .. n)
        /\ 1 .. j \in SUBSET Int /\ j \in 1 .. j
        /\ (\A i \in 1 .. j : i <= j) /\ (1 .. j) \ {j} = 1 .. m
    BY <1>1, <2>1
  <2>3. Max(1 .. j) = j
    BY <2>2, MaxIs
  <2>4. g[1 .. j] = out_scalar(g[1 .. m], s[j])
    <3>1. g[1 .. j] = G(1 .. j)
      BY <1>6, <2>2
    <3>. QED
      BY <2>2, <2>3, <3>1
  <2>5. Shows(g[1 .. m], t \o z[m], q) /\ m \in 0 .. n
    BY <1>11
  <2>6. s[j] \in Scalars /\ r[j] = ScalarCells(s[j]) /\ z[j] = z[m] \o r[j] /\ z[m] \in Seq(Cell)
    BY <1>5, <1>8, <2>2, <2>5
  <2>7. Shows(g[1 .. j], (t \o z[m]) \o ScalarCells(s[j]), q)
    BY <2>4, <2>5, <2>6, ShowsScalar
  <2>8. r[j] \in Seq(Cell)
    BY <2>6, ScalarLength
  <2>9. Groups(t, z[m], r[j])
    BY <1>9, <2>6, <2>8, InGroups
  <2>10. Shows(g[1 .. j], t \o z[j], q)
    BY <2>6, <2>7, <2>9 DEF Groups
  <2>. QED
    BY <2>1, <2>2, <2>10
<1>12. 0 .. n \subseteq Q
  <2> HIDE DEF Q
  <2>. QED
    BY <1>1, <1>10, <1>11, AllUpTo
<1>13. Shows(g[1 .. n], t \o z[n], q)
  BY <1>1, <1>12
<1>. QED
  BY <1>1, <1>3, <1>8, <1>13

(* A value is a scalar or an array of them. *)
LEMMA ValueCases ==
  ASSUME NEW v \in Values
  PROVE  \/ v \in Scalars /\ v.tag # TAG_ARR
         \/ v.tag = TAG_ARR /\ v.arr \in Seq(Scalars) /\ v = [tag |-> TAG_ARR, arr |-> v.arr]
<1>1. CASE v \in Scalars
  <2>1. v.tag # TAG_ARR
    BY <1>1, ScalarCases, TagFacts
  <2>. QED
    BY <1>1, <2>1
<1>2. CASE v \in [tag : {TAG_ARR}, arr : Seq(Scalars)]
  BY <1>2
<1>. QED
  BY <1>1, <1>2 DEF Values

(* What is left in the buffer of a value is its cells. *)
LEMMA ShowsVal ==
  ASSUME NEW b, NEW t, NEW q \in Seq(Nat), Shows(b, t, q), NEW v \in Values
  PROVE  Shows(out_val(b, v), t \o ValueCells(v), q)
<1>1. CASE v \in Scalars /\ v.tag # TAG_ARR
  <2>1. out_val(b, v) = out_scalar(b, v) /\ ValueCells(v) = ScalarCells(v)
    BY <1>1 DEF out_val, ValueCells
  <2>. QED
    BY <1>1, <2>1, ShowsScalar
<1>2. CASE v.tag = TAG_ARR /\ v.arr \in Seq(Scalars)
  <2> DEFINE a == <<TAG_ARR>>
             n == Len(v.arr)
             u == U32(n)
             w == ArrayCells(v.arr)
  <2>1. ValueCells(v) = a \o (u \o w)
    BY <1>2 DEF ValueCells
  <2>2. n \in Int
    BY <1>2, SeqFacts
  <2>3. a \in Seq(Cell) /\ u \in Seq(Cell) /\ w \in Seq(Cell) /\ t \in Seq(Cell)
    BY <1>2, <2>2, NumbersType, TagFacts, ScalarsType, ShowsFacts
  <2>4. Shows(append(b, a), t \o a, q)
    BY <2>3, ShowsAppend
  <2>5. Groups4(t, a, u, w)
    BY <2>3, InGroups4
  <2>6. CASE \A i \in DOMAIN v.arr : v.arr[i].tag = TAG_STR
    <3>1. out_val(b, v) = FoldLeft(out_scalar, append(append(b, a), u), v.arr)
      BY <1>2, <2>6 DEF out_val, out_arr
    <3> HIDE DEF a, u, w
    <3>2. Shows(append(append(b, a), u), (t \o a) \o u, q)
      BY <2>3, <2>4, ShowsAppend
    <3>3. Shows(FoldLeft(out_scalar, append(append(b, a), u), v.arr),
                ((t \o a) \o u) \o ArrayCells(v.arr), q)
      BY <1>2, <3>2, ShowsFold
    <3>. QED
      BY <2>1, <2>5, <3>1, <3>3 DEF Groups4, w
  <2>7. CASE ~(\A i \in DOMAIN v.arr : v.arr[i].tag = TAG_STR)
    <3> DEFINE o == append(push_placeholder(append(b, a)), U32(0))
               c == FoldLeft(out_scalar, o, v.arr)
               x == t \o a
    <3>1. out_val(b, v) = Backfill(c, n)
      BY <1>2, <2>7 DEF out_val, out_begin_arr, out_end_arr
    <3>2. x \in Seq(Cell)
      BY <2>3, TwoPieces
    <3>3. Shows(o, x \o U32(0), Append(q, Len(x)))
      BY <2>4, ShowsHole
    <3> HIDE DEF o, x
    <3>4. Shows(c, (x \o U32(0)) \o ArrayCells(v.arr), Append(q, Len(x)))
      BY <1>2, <3>3, ShowsFold
    <3> HIDE DEF c, w, n, a
    <3>5. Shows(c, (x \o U32(0)) \o w, Append(q, Len(x)))
      BY <3>4 DEF w
    <3>6. 0 \in Int
      OBVIOUS
    <3>7. Shows(Backfill(c, n), (x \o U32(n)) \o w, q)
      BY <2>2, <2>3, <3>2, <3>5, <3>6, ShowsBackfill
    <3>. QED
      BY <2>1, <2>5, <3>1, <3>7 DEF Groups4, x, u
  <2>. QED
    BY <2>6, <2>7
<1>. QED
  BY <1>1, <1>2, ValueCases

(* Size() of an array, from what its elements are written as *)
Sized(v, f) ==
  f = [i \in 0 .. Len(v.arr) |-> IF i = 0 THEN 1 + Width ELSE f[i - 1] + ScalarSize(v.arr[i])]

(* Size() counts the cells of a value. *)
LEMMA ValueLength ==
  ASSUME NEW v \in Values
  PROVE  /\ ValueCells(v) \in Seq(Cell) /\ Len(ValueCells(v)) = Size(v)
         /\ Size(v) \in Nat /\ Size(v) > 0
<1>1. CASE v \in Scalars /\ v.tag # TAG_ARR
  <2>1. Size(v) = ScalarSize(v) /\ ValueCells(v) = ScalarCells(v)
    BY <1>1 DEF Size, ValueCells
  <2>. QED
    BY <1>1, <2>1, ScalarLength
<1>2. CASE v.tag = TAG_ARR /\ v.arr \in Seq(Scalars)
  <2> DEFINE n == Len(v.arr)
             s == v.arr
             r == ScalarsCells(s)
             g == CHOOSE h : Sized(v, h)
             G(i) == IF i = 0 THEN 1 + Width ELSE g[i - 1] + ScalarSize(s[i])
  <2>1. n \in Nat /\ n \in Int /\ n \in 0 .. n
    BY <1>2, SeqFacts
  <2>2. /\ r \in Seq(Seq(Cell)) /\ Len(r) = n /\ ArrayCells(s) = FlattenSeq(r)
        /\ \A i \in 1 .. n : r[i] = ScalarCells(s[i]) /\ s[i] \in Scalars
    BY <1>2, ScalarsType
  <2>3. PICK z : Joined(r, z)
    BY <2>2, JoinedExists
  <2> DEFINE F(i) == 1 + Width + Len(z[i])
             f == [i \in 0 .. n |-> F(i)]
             H(i) == IF i = 0 THEN 1 + Width ELSE f[i - 1] + ScalarSize(s[i])
  <2> HIDE DEF r
  <2>4. /\ z[0] = <<>> /\ z[n] = ArrayCells(s)
        /\ \A k \in 0 .. n : z[k] \in Seq(Cell)
        /\ \A k \in 1 .. n : z[k] = z[k - 1] \o r[k]
    BY <2>2, <2>3 DEF Joined
  <2>5. \A k \in 0 .. n : Len(z[k]) \in Nat
    BY <2>4, SeqFacts
  <2>6. ASSUME NEW i \in 1 .. n
        PROVE  F(i) = F(i - 1) + ScalarSize(s[i])
    <3>1. i - 1 \in 0 .. n /\ i \in 0 .. n
      BY <2>1
    <3>2. /\ z[i] = z[i - 1] \o r[i] /\ r[i] = ScalarCells(s[i]) /\ s[i] \in Scalars
          /\ z[i - 1] \in Seq(Cell)
      BY <2>2, <2>4, <3>1
    <3>3. r[i] \in Seq(Cell) /\ Len(r[i]) = ScalarSize(s[i]) /\ ScalarSize(s[i]) \in Nat
      BY <3>2, ScalarLength
    <3>4. PICK x, y, m, d : x = z[i - 1] /\ y = r[i] /\ m = Len(x) /\ d = ScalarSize(s[i])
      OBVIOUS
    <3>5. x \in Seq(Cell) /\ y \in Seq(Cell) /\ Len(y) = d /\ d \in Nat /\ m \in Nat
      BY <2>5, <3>1, <3>2, <3>3, <3>4
    <3>6. Len(x \o y) = Len(x) + Len(y)
      BY <3>5, TwoPieces
    <3>7. Len(z[i]) = m + d
      BY <3>2, <3>4, <3>5, <3>6
    <3>8. 1 + Width + (m + d) = (1 + Width + m) + d
      BY ONLY <3>5, CellsFacts
    <3>. QED
      BY <3>4, <3>7, <3>8
  <2>7. F(0) = 1 + Width
    BY <2>4, CellsFacts
  <2>8. \A i \in 0 .. n : f[i] = F(i)
    OBVIOUS
  <2> HIDE DEF F
  <2>9. ASSUME NEW i \in 0 .. n
        PROVE  F(i) = H(i)
    <3>1. CASE i = 0
      BY <2>7, <3>1
    <3>2. CASE i # 0
      <4>1. i \in 1 .. n /\ i - 1 \in 0 .. n
        BY <2>1, <3>2
      <4>. QED
        BY <2>6, <2>8, <3>2, <4>1
    <3>. QED
      BY <3>1, <3>2
  <2>10. f = [i \in 0 .. n |-> H(i)]
    <3> HIDE DEF H
    <3>. QED
      BY <2>9
  <2>11. Sized(v, f)
    <3> HIDE DEF f
    <3>. QED
      BY <2>10 DEF Sized
  <2>12. Sized(v, g)
    BY <2>11
  <2>13. Size(v) = g[n]
    BY <1>2 DEF Size, Sized
  <2>14. g = [i \in 0 .. n |-> G(i)]
    BY <2>12 DEF Sized
  <2> HIDE DEF g
  <2>15. \A i \in 0 .. n : g[i] = G(i)
    <3> HIDE DEF G
    <3>. QED
      BY <2>14
  <2> DEFINE Q == {k \in 0 .. n : g[k] = F(k)}
  <2>16. 0 .. n \subseteq Q
    <3>1. 0 \in Q
      <4>1. 0 \in 0 .. n
        BY <2>1
      <4>2. g[0] = G(0)
        BY <2>15, <4>1
      <4>. QED
        BY <2>7, <4>1, <4>2
    <3>2. ASSUME NEW k \in 0 .. n - 1, k \in Q
          PROVE  k + 1 \in Q
      <4>1. PICK m : m = k + 1
        OBVIOUS
      <4>2. m \in 1 .. n /\ m - 1 = k /\ m \in 0 .. n /\ m # 0
        BY <2>1, <4>1
      <4>3. g[m] = G(m) /\ g[k] = F(k)
        BY <2>15, <3>2, <4>2
      <4>4. g[m] = F(k) + ScalarSize(s[m])
        BY <4>2, <4>3
      <4>5. F(m) = F(k) + ScalarSize(s[m])
        BY <2>6, <4>2
      <4>. QED
        BY <4>1, <4>2, <4>4, <4>5
    <3> HIDE DEF Q
    <3>. QED
      BY <2>1, <3>1, <3>2, AllUpTo
  <2>17. Size(v) = 1 + Width + Len(ArrayCells(s))
    <3>1. g[n] = F(n)
      BY <2>1, <2>16
    <3>. QED
      BY <2>4, <2>13, <3>1 DEF F
  <2> DEFINE a == <<TAG_ARR>>
             u == U32(n)
             w == ArrayCells(s)
  <2>18. ValueCells(v) = a \o (u \o w)
    BY <1>2 DEF ValueCells
  <2>19. a \in Seq(Cell) /\ Len(a) = 1 /\ u \in Seq(Cell) /\ Len(u) = Width /\ w \in Seq(Cell)
    BY <1>2, <2>1, NumbersType, TagFacts, ScalarsType
  <2> HIDE DEF a, u, w, n, s
  <2>20. u \o w \in Seq(Cell) /\ Len(u \o w) = Width + Len(w)
    BY <2>19, TwoPieces
  <2>21. a \o (u \o w) \in Seq(Cell) /\ Len(a \o (u \o w)) = 1 + Len(u \o w)
    <3>1. PICK x : x = u \o w
      OBVIOUS
    <3>2. x \in Seq(Cell)
      BY <2>20, <3>1
    <3>3. a \o x \in Seq(Cell) /\ Len(a \o x) = Len(a) + Len(x)
      BY <2>19, <3>2, TwoPieces
    <3>. QED
      BY <2>19, <3>1, <3>3
  <2>22. PICK k : k = Len(w)
    OBVIOUS
  <2>23. k \in Nat
    BY <2>19, <2>22, SeqFacts
  <2>24. 1 + (Width + k) = 1 + Width + k /\ 1 + Width + k \in Nat /\ 1 + Width + k > 0
    BY ONLY <2>23, CellsFacts
  <2>. QED
    BY <2>17, <2>18, <2>20, <2>21, <2>22, <2>24 DEF w
<1>. QED
  BY <1>1, <1>2, ValueCases

(* What the client is shown of an answer, and the response it is in *)
ShownOf(v) == IF Size(v) > MaxMsg THEN TooBig ELSE v

Response(v) == WithLength(ValueCells(ShownOf(v)))

LEMMA ShownType ==
  ASSUME NEW v \in Values
  PROVE  /\ ShownOf(v) \in Values /\ ValueCells(ShownOf(v)) \in Seq(Cell)
         /\ Len(ValueCells(ShownOf(v))) \in 1 .. MaxMsg
         /\ Response(v) \in Seq(Cell) /\ Len(Response(v)) > Width
<1>1. /\ TooBig \in Scalars /\ TooBig \in Values /\ TooBig.tag = TAG_ERR
      /\ 1 + 2 * Width + Len(TooBig.msg) <= MaxMsg
  BY TypesAssumption, ConstantsAssumption DEF Values
<1>2. Size(TooBig) <= MaxMsg
  <2>1. Size(TooBig) = ScalarSize(TooBig)
    BY <1>1, TagFacts DEF Size
  <2>2. ScalarSize(TooBig) = 1 + 2 * Width + Len(TooBig.msg)
    BY <1>1, TagFacts DEF ScalarSize
  <2>. QED
    BY <1>1, <2>1, <2>2
<1>3. ShownOf(v) \in Values /\ Size(ShownOf(v)) <= MaxMsg
  <2>1. Size(v) \in Nat /\ MaxMsg \in Nat
    BY ValueLength, ConstantsAssumption
  <2>. QED
    BY <1>1, <1>2, <2>1 DEF ShownOf
<1> DEFINE w == ShownOf(v)
<1> HIDE DEF w
<1>4. /\ ValueCells(w) \in Seq(Cell) /\ Len(ValueCells(w)) = Size(w)
      /\ Size(w) \in Nat /\ Size(w) > 0
  <2>1. w \in Values
    BY <1>3 DEF w
  <2>. QED
    BY <2>1, ValueLength
<1>5. Size(w) \in 1 .. MaxMsg
  <2>1. MaxMsg \in Nat /\ Size(w) <= MaxMsg
    BY <1>3, ConstantsAssumption DEF w
  <2>. QED
    BY <1>4, <2>1
<1>6. Response(v) \in Seq(Cell) /\ Len(Response(v)) = Width + Size(w)
  <2> DEFINE x == ValueCells(w)
  <2>1. Response(v) = WithLength(x)
    BY DEF Response, w
  <2> HIDE DEF x
  <2>2. x \in Seq(Cell) /\ Len(x) = Size(w)
    BY <1>4 DEF x
  <2>. QED
    BY <2>1, <2>2, LengthType
<1>7. Width + Size(w) > Width
  BY <1>4, CellsFacts
<1>. QED
  BY <1>3, <1>4, <1>5, <1>6, <1>7 DEF w

(* A response is the length of what the client is shown and what is        *)
(* written of it, whatever the answer and its size; no position is left.   *)
LEMMA ShowsResponse ==
  ASSUME NEW b, NEW t, Shows(b, t, <<>>), NEW v \in Values
  PROVE  Shows(response_end(out_val(response_begin(b), v)), t \o Response(v), <<>>)
<1> DEFINE e == out_val(response_begin(b), v)
           c == response_end(e)
           p == Len(t)
           q == Append(<<>>, p)
           y == ValueCells(v)
<1>1. t \in Seq(Cell) /\ p \in Nat
  BY ShowsFacts
<1>2. <<>> \in Seq(Nat) /\ q \in Seq(Nat) /\ 0 \in Int
  BY <1>1
<1>3. Shows(response_begin(b), t \o U32(0), q)
  BY ShowsHole DEF response_begin
<1>4. y \in Seq(Cell) /\ Len(y) = Size(v) /\ Size(v) \in Nat
  BY ValueLength
<1>5. Shows(e, (t \o U32(0)) \o y, q)
  BY <1>2, <1>3, ShowsVal
<1>6. U32(0) \in Seq(Cell) /\ Len(U32(0)) = Width
  BY <1>2, NumbersType
<1> HIDE DEF e, y, q, p
<1>7. ASSUME NEW f, NEW x \in Seq(Cell), Shows(f, (t \o U32(0)) \o x, q)
      PROVE  /\ response_size(f) = Len(x) /\ peek_placeholder(f) = f.readable_begin + p
             /\ Shows(Backfill(f, Len(x)), t \o WithLength(x), <<>>)
  <2> DEFINE a == (t \o U32(0)) \o x
  <2>1. Shows(f, a, Append(<<>>, p))
    BY <1>7 DEF q
  <2>2. Len(a) = p + Width + Len(x)
    <3>1. PICK h : h = t \o U32(0)
      OBVIOUS
    <3>2. h \in Seq(Cell) /\ Len(h) = p + Width
      BY <1>1, <1>6, <3>1, TwoPieces DEF p
    <3>3. Len(h \o x) = Len(h) + Len(x)
      BY <1>7, <3>2, TwoPieces
    <3>. QED
      BY <3>1, <3>2, <3>3
  <2> HIDE DEF a
  <2>3. peek_placeholder(f) = f.readable_begin + p /\ response_size(f) = Len(a) - p - Width
    BY <1>1, <1>2, <2>1, ShowsLast
  <2>4. PICK n : n = Len(x)
    OBVIOUS
  <2>5. n \in Nat /\ n \in Int
    BY <1>7, <2>4, SeqFacts
  <2>7. response_size(f) = Len(x)
    <3>1. PICK k, r : k = Len(a) /\ r = response_size(f)
      OBVIOUS
    <3>2. k = p + Width + n /\ r = k - p - Width
      BY <2>2, <2>3, <2>4, <3>1
    <3>3. r = n
      BY ONLY <1>1, <2>5, <3>2, CellsFacts
    <3>. QED
      BY <2>4, <3>1, <3>3
  <2>8. Shows(f, (t \o U32(0)) \o x, Append(<<>>, Len(t)))
    BY <1>7 DEF q, p
  <2>9. Shows(Backfill(f, n), (t \o U32(n)) \o x, <<>>)
    BY <1>1, <1>2, <1>7, <2>5, <2>8, ShowsBackfill
  <2>10. Groups(t, U32(n), x)
    BY <1>1, <1>7, <2>5, NumbersType, InGroups
  <2>. QED
    BY <2>3, <2>4, <2>7, <2>9, <2>10 DEF Groups, WithLength
<1>8. response_size(e) = Size(v)
  BY <1>4, <1>5, <1>7
<1>9. CASE Size(v) <= MaxMsg
  <2>1. c = Backfill(e, Len(y))
    BY <1>4, <1>8, <1>9 DEF response_end
  <2>2. Shows(c, t \o WithLength(y), <<>>)
    BY <1>4, <1>5, <1>7, <2>1
  <2>3. ShownOf(v) = v
    BY <1>4, <1>9, ConstantsAssumption DEF ShownOf
  <2>. QED
    BY <2>2, <2>3 DEF Response, e, y
<1>10. CASE ~(Size(v) <= MaxMsg)
  <2> DEFINE r == [e EXCEPT !.buf = Take(@, peek_placeholder(e) + Width)]
             f == out_scalar(r, TooBig)
             x == ScalarCells(TooBig)
  <2>1. c = Backfill(f, response_size(f))
    BY <1>8, <1>10 DEF response_end
  <2>2. Shows(r, t \o U32(0), q)
    BY <1>1, <1>2, <1>4, <1>5, ShowsRollback DEF q, p
  <2> HIDE DEF r
  <2>3. TooBig \in Scalars /\ x \in Seq(Cell)
    BY TypesAssumption, ScalarLength
  <2>4. Shows(f, (t \o U32(0)) \o x, q)
    BY <2>2, <2>3, ShowsScalar
  <2> HIDE DEF f, x
  <2>5. response_size(f) = Len(x) /\ Shows(Backfill(f, Len(x)), t \o WithLength(x), <<>>)
    BY <1>7, <2>3, <2>4
  <2>6. ShownOf(v) = TooBig
    BY <1>4, <1>10, ConstantsAssumption DEF ShownOf
  <2>7. ValueCells(TooBig) = x
    BY ConstantsAssumption, TagFacts DEF ValueCells, x
  <2>. QED
    BY <2>1, <2>5, <2>6, <2>7 DEF Response, e
<1>. QED
  BY <1>9, <1>10

-----------------------------------------------------------------------------
(* Whole messages in a row: what is left after each of them is r.          *)
Rests(s, a, b, m, r) ==
  /\ r[a - 1] = s /\ r[b] = <<>>
  /\ \A i \in a - 1 .. b : r[i] \in Seq(Cell)
  /\ \A i \in a .. b : m[i] \in Seq(Cell) /\ r[i - 1] = m[i] \o r[i]

Chain(s, a, b, m) == \E r : Rests(s, a, b, m, r)

(* Nothing is no message, *)
LEMMA ChainEmpty ==
  ASSUME NEW b \in Nat, NEW m, NEW a, a = b + 1
  PROVE  Chain(<<>>, a, b, m)
<1> DEFINE r == [i \in {b} |-> <<>>]
<1>1. a - 1 = b /\ (\A i \in a - 1 .. b : i = b) /\ a .. b = {}
  OBVIOUS
<1>2. r[b] = <<>> /\ <<>> \in Seq(Cell)
  BY EmptySeq
<1> HIDE DEF r
<1>3. Rests(<<>>, a, b, m, r)
  BY <1>1, <1>2 DEF Rests
<1>. QED
  BY <1>3 DEF Chain

(* one more is a message more, *)
LEMMA ChainAppend ==
  ASSUME NEW s, NEW b \in Nat, NEW a \in 1 .. b + 1, NEW m, Chain(s, a, b, m),
         NEW c, c = b + 1, NEW w, w[c] \in Seq(Cell), \A i \in a .. b : w[i] = m[i]
  PROVE  Chain(s \o w[c], a, c, w)
<1>1. PICK r : Rests(s, a, b, m, r)
  BY DEF Chain
<1> DEFINE x == w[c]
           F(i) == IF i = c THEN <<>> ELSE r[i] \o x
           q == [i \in a - 1 .. c |-> F(i)]
<1>2. \A i \in a - 1 .. c : q[i] = F(i)
  OBVIOUS
<1>3. x \in Seq(Cell) /\ <<>> \in Seq(Cell)
  BY EmptySeq
<1>4. /\ r[a - 1] = s /\ r[b] = <<>>
      /\ \A i \in a - 1 .. b : r[i] \in Seq(Cell)
      /\ \A i \in a .. b : m[i] \in Seq(Cell) /\ r[i - 1] = m[i] \o r[i]
  BY <1>1 DEF Rests
<1> HIDE DEF q
<1>5. q[a - 1] = s \o x /\ q[c] = <<>>
  <2>1. a - 1 \in a - 1 .. c /\ a - 1 # c /\ c \in a - 1 .. c
    OBVIOUS
  <2>. QED
    BY <1>2, <1>4, <2>1
<1>6. ASSUME NEW i \in a - 1 .. c
      PROVE  q[i] \in Seq(Cell)
  <2>1. CASE i = c
    BY <1>2, <1>3, <2>1
  <2>2. CASE i # c
    <3>1. i \in a - 1 .. b
      BY <2>2
    <3>2. q[i] = r[i] \o x /\ r[i] \in Seq(Cell)
      BY <1>2, <1>4, <2>2, <3>1
    <3>. QED
      BY <1>3, <3>2, TwoPieces
  <2>. QED
    BY <2>1, <2>2
<1>7. ASSUME NEW i \in a .. c
      PROVE  w[i] \in Seq(Cell) /\ q[i - 1] = w[i] \o q[i]
  <2>1. CASE i = c
    <3>1. i - 1 = b /\ b \in a - 1 .. c /\ b # c
      BY <2>1
    <3>2. q[i - 1] = <<>> \o x /\ q[i] = <<>>
      BY <1>2, <1>4, <1>5, <2>1, <3>1
    <3>3. <<>> \o x = x /\ x \o <<>> = x
      BY <1>3, ConcatEmptySeq
    <3>. QED
      BY <1>3, <2>1, <3>2, <3>3
  <2>2. CASE i # c
    <3>1. i \in a .. b /\ i \in a - 1 .. b /\ i - 1 \in a - 1 .. b /\ i - 1 # c
          /\ i \in a - 1 .. c /\ i - 1 \in a - 1 .. c
      BY <2>2
    <3>2. q[i - 1] = r[i - 1] \o x /\ q[i] = r[i] \o x /\ r[i - 1] = w[i] \o r[i]
      BY <1>2, <1>4, <2>2, <3>1
    <3>3. w[i] \in Seq(Cell) /\ r[i] \in Seq(Cell)
      BY <1>4, <3>1
    <3>4. Groups(w[i], r[i], x)
      BY <1>3, <3>3, InGroups
    <3>. QED
      BY <3>2, <3>3, <3>4 DEF Groups
  <2>. QED
    BY <2>1, <2>2
<1>8. Rests(s \o x, a, c, w, q)
  BY <1>5, <1>6, <1>7 DEF Rests
<1>. QED
  BY <1>8 DEF Chain

(* the first one comes first, *)
ChainWith(s, y, a, b, m) ==
  s = m[a] \o y /\ y \in Seq(Cell) /\ m[a] \in Seq(Cell) /\ Chain(y, a + 1, b, m)

LEMMA ChainFirst ==
  ASSUME NEW s, NEW b \in Nat, NEW a \in 1 .. b, NEW m, Chain(s, a, b, m)
  PROVE  \E y : ChainWith(s, y, a, b, m)
<1>1. PICK r : Rests(s, a, b, m, r)
  BY DEF Chain
<1>2. PICK c : c = a + 1
  OBVIOUS
<1>3. a \in a .. b /\ a \in a - 1 .. b /\ c .. b \subseteq a .. b /\ c - 1 .. b \subseteq a - 1 .. b
      /\ c - 1 = a
  BY <1>2
<1>4. s = m[a] \o r[a] /\ r[a] \in Seq(Cell) /\ m[a] \in Seq(Cell)
  BY <1>1, <1>3 DEF Rests
<1>5. Rests(r[a], c, b, m, r)
  BY <1>1, <1>3 DEF Rests
<1>6. Chain(r[a], c, b, m)
  BY <1>5 DEF Chain
<1>7. ChainWith(s, r[a], a, b, m)
  BY <1>2, <1>4, <1>6 DEF ChainWith
<1>. QED
  BY <1>7

(* and only no message is nothing. *)
LEMMA ChainNothing ==
  ASSUME NEW s, NEW b \in Nat, NEW a \in 1 .. b + 1, NEW m, Chain(s, a, b, m),
         \A i \in a .. b : Len(m[i]) > 0
  PROVE  s \in Seq(Cell) /\ (s = <<>> <=> a = b + 1)
<1>1. PICK r : Rests(s, a, b, m, r)
  BY DEF Chain
<1>2. s \in Seq(Cell)
  <2>1. a - 1 \in a - 1 .. b
    OBVIOUS
  <2>. QED
    BY <1>1, <2>1 DEF Rests
<1>3. CASE a = b + 1
  <2>1. a - 1 = b
    BY <1>3
  <2>. QED
    BY <1>1, <1>2, <1>3, <2>1 DEF Rests
<1>4. CASE a # b + 1
  <2>1. a \in 1 .. b /\ a \in a .. b
    BY <1>4
  <2>2. PICK y : ChainWith(s, y, a, b, m)
    BY <2>1, ChainFirst
  <2>3. PICK x : x = m[a]
    OBVIOUS
  <2>4. x \in Seq(Cell) /\ y \in Seq(Cell) /\ Len(x) > 0 /\ s = x \o y
    BY <2>1, <2>2, <2>3 DEF ChainWith
  <2>5. Len(s) = Len(x) + Len(y) /\ Len(y) \in Nat /\ Len(x) \in Nat
    BY <2>4, TwoPieces, SeqFacts
  <2>6. Len(s) # 0
    BY <2>4, <2>5
  <2>7. s # <<>>
    BY <2>6, EmptySeq
  <2>. QED
    BY <1>2, <1>4, <2>7
<1>. QED
  BY <1>3, <1>4

(* Other messages after them change nothing. *)
LEMMA ChainSame ==
  ASSUME NEW s, NEW b \in Nat, NEW a \in 1 .. b + 1, NEW m, Chain(s, a, b, m),
         NEW w, \A i \in a .. b : w[i] = m[i]
  PROVE  Chain(s, a, b, w)
<1>1. PICK r : Rests(s, a, b, m, r)
  BY DEF Chain
<1>2. Rests(s, a, b, w, r)
  BY <1>1 DEF Rests
<1>. QED
  BY <1>2 DEF Chain

(* Strings that are joined are a row of them; there are as many of them as *)
(* cells at most when none is empty.                                       *)
LEMMA ChainOfJoined ==
  ASSUME NEW s \in Seq(Seq(Cell))
  PROVE  Chain(FlattenSeq(s), 1, Len(s), s)
<1> DEFINE n == Len(s)
           f == FlattenSeq(s)
<1>1. n \in Nat /\ \A i \in 1 .. n : s[i] \in Seq(Cell)
  BY SeqFacts
<1>2. PICK z : Joined(s, z)
  BY JoinedExists
<1> HIDE DEF n, f
<1>3. /\ z[0] = <<>> /\ z[n] = f
      /\ \A k \in 0 .. n : z[k] \in Seq(Cell)
      /\ \A k \in 1 .. n : z[k] = z[k - 1] \o s[k]
  BY <1>2 DEF Joined, n, f
<1>4. \A k \in 0 .. n : Len(z[k]) \in Nat
  BY <1>3, SeqFacts
<1> DEFINE F(k) == Skip(f, Len(z[k]))
           r == [k \in 0 .. n |-> F(k)]
           Good(k) == f = z[k] \o F(k) /\ F(k) \in Seq(Cell)
<1>5. F(n) = <<>> /\ Good(n)
  <2>1. f \in Seq(Cell) /\ <<>> \in Seq(Cell)
    BY <1>1, <1>3, EmptySeq
  <2>2. f \o <<>> = f
    BY <2>1, ConcatEmptySeq
  <2>3. Skip(f \o <<>>, Len(f)) = <<>>
    BY <2>1, SplitTwo
  <2>. QED
    BY <1>3, <2>1, <2>2, <2>3
<1>6. ASSUME NEW k \in 1 .. n, Good(k)
      PROVE  F(k - 1) = s[k] \o F(k) /\ Good(k - 1)
  <2>1. k - 1 \in 0 .. n /\ k \in 0 .. n
    BY <1>1
  <2>2. PICK p, x, y : p = z[k - 1] /\ x = s[k] /\ y = F(k)
    OBVIOUS
  <2>3. p \in Seq(Cell) /\ x \in Seq(Cell) /\ y \in Seq(Cell) /\ f = (p \o x) \o y
    BY <1>1, <1>3, <1>6, <2>1, <2>2
  <2>4. PICK q : q = x \o y
    OBVIOUS
  <2>5. q \in Seq(Cell) /\ Groups(p, x, y)
    BY <2>3, <2>4, TwoPieces, InGroups
  <2>6. f = p \o q
    BY <2>3, <2>4, <2>5 DEF Groups
  <2>7. Skip(p \o q, Len(p)) = q
    BY <2>3, <2>5, SplitTwo
  <2>8. F(k - 1) = q
    BY <2>2, <2>6, <2>7
  <2>. QED
    BY <2>2, <2>4, <2>5, <2>6, <2>8
<1> HIDE DEF F
<1> DEFINE Q == {j \in 0 .. n : Good(n - j)}
<1>7. 0 .. n \subseteq Q
  <2>1. 0 \in Q
    <3>1. n - 0 = n /\ 0 \in 0 .. n
      BY <1>1
    <3>2. Good(n - 0)
      BY <1>5, <3>1
    <3>. QED
      BY <3>1, <3>2
  <2>2. ASSUME NEW j \in 0 .. n - 1, j \in Q
        PROVE  j + 1 \in Q
    <3>1. PICK k : k = n - j
      OBVIOUS
    <3>2. k \in 1 .. n /\ k - 1 = n - (j + 1) /\ j + 1 \in 0 .. n
      BY <1>1, <3>1
    <3>3. Good(k)
      BY <2>2, <3>1
    <3>4. Good(k - 1)
      BY <1>6, <3>2, <3>3
    <3>. QED
      BY <3>2, <3>4
  <2> HIDE DEF Q
  <2>. QED
    BY <1>1, <2>1, <2>2, AllUpTo
<1>8. ASSUME NEW k \in 0 .. n
      PROVE  Good(k)
  <2>1. PICK j : j = n - k
    OBVIOUS
  <2>2. j \in 0 .. n /\ n - j = k
    BY <1>1, <2>1
  <2>3. Good(n - j)
    BY <1>7, <2>2
  <2>. QED
    BY <2>2, <2>3
<1>9. \A k \in 0 .. n : r[k] = F(k)
  OBVIOUS
<1> HIDE DEF r
<1>10. r[0] = f /\ r[n] = <<>>
  <2>1. 0 \in 0 .. n /\ n \in 0 .. n
    BY <1>1
  <2>2. f = <<>> \o F(0) /\ F(0) \in Seq(Cell)
    BY <1>3, <1>8, <2>1
  <2>3. <<>> \o F(0) = F(0)
    BY <2>2, ConcatEmptySeq
  <2>. QED
    BY <1>5, <1>9, <2>1, <2>2, <2>3
<1>11. \A i \in 0 .. n : r[i] \in Seq(Cell)
  BY <1>8, <1>9
<1>12. ASSUME NEW i \in 1 .. n
       PROVE  s[i] \in Seq(Cell) /\ r[i - 1] = s[i] \o r[i]
  <2>1. i - 1 \in 0 .. n /\ i \in 0 .. n
    BY <1>1
  <2>2. Good(i)
    BY <1>8, <2>1
  <2>3. F(i - 1) = s[i] \o F(i)
    BY <1>6, <2>2
  <2>. QED
    BY <1>1, <1>9, <2>1, <2>3
<1>13. Rests(f, 1, n, s, r)
  <2>1. 1 - 1 = 0
    OBVIOUS
  <2>. QED
    BY <1>10, <1>11, <1>12, <2>1 DEF Rests
<1>. QED
  BY <1>13 DEF Chain, f, n

LEMMA JoinedLonger ==
  ASSUME NEW s \in Seq(Seq(Cell)), \A i \in 1 .. Len(s) : Len(s[i]) > 0
  PROVE  Len(FlattenSeq(s)) >= Len(s)
<1> DEFINE n == Len(s)
<1>1. n \in Nat /\ \A i \in 1 .. n : s[i] \in Seq(Cell)
  BY SeqFacts
<1>2. PICK z : Joined(s, z)
  BY JoinedExists
<1>3. \A i \in 1 .. n : Len(s[i]) > 0
  OBVIOUS
<1> HIDE DEF n
<1>4. /\ z[0] = <<>> /\ z[n] = FlattenSeq(s)
      /\ \A k \in 0 .. n : z[k] \in Seq(Cell)
      /\ \A k \in 1 .. n : z[k] = z[k - 1] \o s[k]
  BY <1>2 DEF Joined, n
<1> DEFINE Q == {k \in 0 .. n : Len(z[k]) >= k}
<1>5. 0 .. n \subseteq Q
  <2>1. 0 \in Q
    BY <1>1, <1>4
  <2>2. ASSUME NEW k \in 0 .. n - 1, k \in Q
        PROVE  k + 1 \in Q
    <3>1. PICK m : m = k + 1
      OBVIOUS
    <3>2. m \in 1 .. n /\ m - 1 = k /\ m \in 0 .. n /\ k \in 0 .. n
      BY <1>1, <3>1
    <3>3. PICK x, y : x = z[k] /\ y = s[m]
      OBVIOUS
    <3>4. x \in Seq(Cell) /\ y \in Seq(Cell) /\ Len(x) >= k /\ Len(y) > 0 /\ z[m] = x \o y
      BY <1>1, <1>3, <1>4, <2>2, <3>2, <3>3
    <3>5. Len(x \o y) = Len(x) + Len(y) /\ Len(x) \in Nat /\ Len(y) \in Nat
      BY <3>4, TwoPieces, SeqFacts
    <3>6. Len(z[m]) >= m
      BY <3>1, <3>2, <3>4, <3>5
    <3>. QED
      BY <3>1, <3>2, <3>6
  <2> HIDE DEF Q
  <2>. QED
    BY <1>1, <2>1, <2>2, AllUpTo
<1>6. Len(z[n]) >= n
  BY <1>1, <1>5
<1>. QED
  BY <1>4, <1>6 DEF n

-----------------------------------------------------------------------------
(* What data is from its i-th cell on *)
Lies(data, i, s) ==
  data \in Seq(Cell) /\ i \in 1 .. Len(data) + 1 /\ Skip(data, i - 1) = s

(* Each position has a rest, and the last one none. *)
LEMMA LiesSome ==
  ASSUME NEW data \in Seq(Cell), NEW i \in 1 .. Len(data) + 1
  PROVE  /\ Lies(data, i, Skip(data, i - 1)) /\ Skip(data, i - 1) \in Seq(Cell)
         /\ Len(Skip(data, i - 1)) = Len(data) + 1 - i
<1>1. Len(data) \in Nat /\ i - 1 \in 0 .. Len(data)
  BY SeqFacts
<1>2. Skip(data, i - 1) \in Seq(Cell) /\ Len(Skip(data, i - 1)) = Len(data) - (i - 1)
  BY <1>1, SkipFacts
<1>. QED
  BY <1>1, <1>2 DEF Lies

LEMMA LiesLength ==
  ASSUME NEW data, NEW i, NEW s, Lies(data, i, s)
  PROVE  /\ s \in Seq(Cell) /\ Len(s) = Len(data) + 1 - i /\ Len(data) \in Nat /\ i \in Nat
         /\ Len(s) \in Nat
<1>1. data \in Seq(Cell) /\ i \in 1 .. Len(data) + 1 /\ Skip(data, i - 1) = s
  BY DEF Lies
<1>2. s \in Seq(Cell) /\ Len(s) = Len(data) + 1 - i
  BY <1>1, LiesSome
<1>3. Len(data) \in Nat /\ Len(s) \in Nat
  BY <1>1, <1>2, SeqFacts
<1>. QED
  BY <1>1, <1>2, <1>3

LEMMA LiesAll ==
  ASSUME NEW data \in Seq(Cell)
  PROVE  Lies(data, 1, data)
<1>1. Len(data) \in Nat
  BY SeqFacts
<1>2. Skip(data, 0) = data /\ 1 - 1 = 0 /\ 1 \in 1 .. Len(data) + 1
  BY <1>1, TakeAll
<1>. QED
  BY <1>2 DEF Lies

(* The cells that come next are where they are read, and the rest behind   *)
(* them.                                                                   *)
LiesBehind(data, i, x, y, n) ==
  /\ Lies(data, i + n, y) /\ At(data, i, n) = x /\ i + n <= Len(data) + 1
  /\ n > 0 => i < Len(data) + 1 /\ data[i] = x[1]

LEMMA LiesPiece ==
  ASSUME NEW data, NEW i, NEW x \in Seq(Cell), NEW y \in Seq(Cell), Lies(data, i, x \o y),
         NEW n, n = Len(x)
  PROVE  LiesBehind(data, i, x, y, n)
<1> DEFINE s == x \o y
           l == Len(data)
<1>1. data \in Seq(Cell) /\ i \in 1 .. l + 1 /\ Skip(data, i - 1) = s
  BY DEF Lies
<1>2. l \in Nat /\ n \in Nat /\ Len(y) \in Nat /\ i \in Nat
  BY <1>1, SeqFacts
<1>3. /\ s \in Seq(Cell) /\ Len(s) = n + Len(y)
      /\ \A j \in 1 .. n : s[j] = x[j]
  BY TwoPieces
<1>4. Take(s, n) = x /\ Skip(s, n) = y
  BY SplitTwo
<1> HIDE DEF s
<1>5. PICK h, k, j : h = i - 1 /\ k = i + n - 1 /\ j = Len(y)
  OBVIOUS
<1>6. h \in 0 .. l /\ h \in Nat
  BY <1>1, <1>2, <1>5
<1>7. Len(s) = l - h
  BY <1>1, <1>5, <1>6, SkipFacts
<1>8. k = h + n /\ k <= l /\ k \in Nat /\ n \in 0 .. l - h /\ i + n <= l + 1 /\ i + n >= 1
      /\ i + n - 1 = k
  BY <1>1, <1>2, <1>3, <1>5, <1>6, <1>7
<1>13. /\ data \in Seq(Cell) /\ h \in 0 .. Len(data) /\ n \in 0 .. Len(data) - h /\ k = h + n
       /\ h \in Nat /\ n \in Nat /\ h + n <= Len(data) /\ k \in 0 .. Len(data)
  BY <1>1, <1>2, <1>6, <1>8
<1>9. Skip(data, k) = y
  <2>1. Skip(Skip(data, h), n) = Skip(data, k)
    BY ONLY <1>13, SkipTwice
  <2>. QED
    BY <1>1, <1>4, <1>5, <2>1
<1>10. Lies(data, i + n, y)
  <2>1. i + n \in 1 .. l + 1
    BY <1>2, <1>8
  <2>. QED
    BY <1>1, <1>8, <1>9, <2>1 DEF Lies
<1>11. At(data, i, n) = x
  <2>1. Skip(Take(data, k), h) = Take(Skip(data, h), n)
    BY ONLY <1>13, SkipOfTake
  <2>2. Take(data, k) \in Seq(Cell) /\ Len(Take(data, k)) = k
        /\ \A m \in 1 .. k : Take(data, k)[m] = data[m]
    BY ONLY <1>13, TakeFacts
  <2>3. PICK t : t = Take(data, k)
    OBVIOUS
  <2>4. Skip(t, h) = x
    BY <1>1, <1>4, <1>5, <2>1, <2>3
  <2>5. SubSeq(data, h + 1, k) = SubSeq(t, h + 1, k)
    <3>1. \A m \in 1 .. k : t[m] = data[m]
      BY <2>2, <2>3
    <3>2. h + 1 \in 1 .. l + 1 /\ k \in (h + 1) - 1 .. l /\ h + 1 \in 1 .. k + 1 /\ k \in (h + 1) - 1 .. k
      BY <1>2, <1>6, <1>8
    <3>3. /\ SubSeq(data, h + 1, k) \in Seq(Cell) /\ Len(SubSeq(data, h + 1, k)) = k - (h + 1) + 1
          /\ \A m \in 1 .. k - (h + 1) + 1 : SubSeq(data, h + 1, k)[m] = data[(h + 1) + m - 1]
      BY <1>1, <3>2, PieceFacts
    <3>4. /\ SubSeq(t, h + 1, k) \in Seq(Cell) /\ Len(SubSeq(t, h + 1, k)) = k - (h + 1) + 1
          /\ \A m \in 1 .. k - (h + 1) + 1 : SubSeq(t, h + 1, k)[m] = t[(h + 1) + m - 1]
      BY <2>2, <2>3, <3>2, PieceFacts
    <3>5. \A m \in 1 .. k - (h + 1) + 1 : (h + 1) + m - 1 \in 1 .. k
      BY <1>2, <1>6, <1>8
    <3>6. \A m \in 1 .. k - (h + 1) + 1 : SubSeq(data, h + 1, k)[m] = SubSeq(t, h + 1, k)[m]
      BY <3>1, <3>3, <3>4, <3>5
    <3>. QED
      BY <3>3, <3>4, <3>6, SeqEqual
  <2>6. Skip(t, h) = SubSeq(t, h + 1, k)
    BY <2>2, <2>3 DEF Skip
  <2>7. At(data, i, n) = SubSeq(data, h + 1, k)
    <3>1. h + 1 = i
      BY <1>1, <1>2, <1>5
    <3>. QED
      BY <1>5, <3>1 DEF At
  <2>. QED
    BY <2>4, <2>5, <2>6, <2>7
<1>12. n > 0 => i < l + 1 /\ data[i] = x[1]
  <2>1. ASSUME n > 0
        PROVE  i < l + 1 /\ data[i] = x[1]
    <3>1. i < l + 1 /\ 1 \in 1 .. n /\ 1 \in 1 .. l - h /\ h + 1 = i
      BY <1>1, <1>2, <1>5, <1>6, <1>8, <2>1
    <3>2. \A m \in 1 .. l - h : Skip(data, h)[m] = data[h + m]
      BY <1>1, <1>6, SkipFacts
    <3>3. Skip(data, h)[1] = data[h + 1]
      BY <3>1, <3>2
    <3>. QED
      BY <1>1, <1>3, <1>5, <3>1, <3>3
  <2>. QED
    BY <2>1
<1>. QED
  BY <1>8, <1>10, <1>11, <1>12 DEF LiesBehind

(* A string with its length before it is found and read. *)
LiesString(data, i, s, y, e) ==
  HasString(data, i) /\ StringAt(data, i) = s /\ AfterString(data, i) = e /\ Lies(data, e, y)

LEMMA ReadString ==
  ASSUME NEW data, NEW i, NEW s \in Seq(Cell), NEW y \in Seq(Cell), Len(s) <= MaxMsg,
         Lies(data, i, WithLength(s) \o y), NEW e, e = i + Width + Len(s)
  PROVE  LiesString(data, i, s, y, e)
<1>1. Len(s) \in Nat /\ Width \in Nat
  BY SeqFacts, CellsFacts
<1> DEFINE u == U32(Len(s))
<1>2. u \in Seq(Cell) /\ Len(u) = Width /\ Number(u) = Len(s)
  BY <1>1, U32Facts
<1>3. WithLength(s) = u \o s
  BY DEF WithLength
<1> HIDE DEF u
<1>4. PICK r : r = s \o y
  OBVIOUS
<1>5. r \in Seq(Cell) /\ Groups(u, s, y)
  BY <1>2, <1>4, TwoPieces, InGroups
<1>6. Lies(data, i, u \o r)
  BY <1>3, <1>4, <1>5 DEF Groups
<1>7. LiesBehind(data, i, u, r, Width)
  BY <1>2, <1>5, <1>6, LiesPiece
<1>8. PICK j : j = i + Width
  OBVIOUS
<1>9. Lies(data, j, s \o y) /\ At(data, i, Width) = u
  BY <1>4, <1>7, <1>8 DEF LiesBehind
<1>10. PICK n : n = Len(s)
  OBVIOUS
<1>11. LiesBehind(data, j, s, y, n)
  BY <1>9, <1>10, LiesPiece
<1>12. Lies(data, j + n, y) /\ At(data, j, n) = s /\ j + n <= Len(data) + 1
  BY <1>11 DEF LiesBehind
<1>13. Number(At(data, i, Width)) = n /\ e = j + n
  BY <1>2, <1>8, <1>9, <1>10
<1>14. HasString(data, i)
  <2>1. Len(data) \in Nat /\ i \in Nat
    BY LiesLength
  <2>2. j <= Len(data) + 1
    BY <1>1, <1>8, <1>10, <1>12, <2>1
  <2>. QED
    BY <1>8, <1>12, <1>13, <2>2 DEF HasString
<1>. QED
  BY <1>8, <1>12, <1>13, <1>14 DEF LiesString, StringAt, AfterString

(* The values of an array, or the strings of a request, one after the      *)
(* other                                                                   *)
NextElement(before, this) ==
  IF Fails(before) \/ Fails(this) THEN Unreadable
  ELSE Read(this.next, Append(before.val, this.val))

ElementsEq(i, n, read, e) ==
  e = [k \in 0 .. n |->
         IF k = 0 THEN Read(i, <<>>) ELSE NextElement(e[k - 1], read[e[k - 1].next])]

ElementsFrom(i, n, read, e) ==
  /\ e[0] = Read(i, <<>>) /\ e[n] = Elements(i, n, read)
  /\ \A k \in 1 .. n : e[k] = NextElement(e[k - 1], read[e[k - 1].next])

LEMMA ElementsExist ==
  ASSUME NEW n \in Nat, NEW i, NEW read
  PROVE  \E e : ElementsEq(i, n, read, e)
<1> DEFINE Q == {k \in 0 .. n : \E e : ElementsEq(i, k, read, e)}
<1>1. 0 \in Q
  <2> DEFINE e == [k \in 0 .. 0 |-> Read(i, <<>>)]
  <2>1. ElementsEq(i, 0, read, e)
    BY DEF ElementsEq
  <2>. QED
    BY <2>1
<1>2. ASSUME NEW k \in 0 .. n - 1, k \in Q
      PROVE  k + 1 \in Q
  <2>1. PICK m : m = k + 1
    OBVIOUS
  <2>2. m \in 1 .. n /\ m \in 0 .. m /\ k = m - 1 /\ 0 .. m = 0 .. k \cup {m} /\ m \notin 0 .. k
    BY <2>1
  <2>3. PICK e : ElementsEq(i, k, read, e)
    BY <1>2
  <2> DEFINE F(j) == IF j = m THEN NextElement(e[k], read[e[k].next]) ELSE e[j]
             g == [j \in 0 .. m |-> F(j)]
             G(j) == IF j = 0 THEN Read(i, <<>>) ELSE NextElement(g[j - 1], read[g[j - 1].next])
             H(j) == IF j = 0 THEN Read(i, <<>>) ELSE NextElement(e[j - 1], read[e[j - 1].next])
  <2>4. \A j \in 0 .. k : e[j] = H(j)
    <3>1. e = [j \in 0 .. k |-> H(j)]
      BY <2>3 DEF ElementsEq
    <3> HIDE DEF H
    <3>. QED
      BY <3>1
  <2>5. \A j \in 0 .. m : g[j] = F(j)
    OBVIOUS
  <2> HIDE DEF g
  <2>6. ASSUME NEW j \in 0 .. m
        PROVE  F(j) = G(j)
    <3>1. j # 0 => g[j - 1] = e[j - 1]
      <4>1. j # 0 => j - 1 \in 0 .. m /\ j - 1 # m
        BY <2>1
      <4>. QED
        BY <2>5, <4>1
    <3>2. CASE j = m
      <4>1. j # 0 /\ j - 1 = k
        BY <2>2, <3>2
      <4>. QED
        BY <3>1, <3>2, <4>1
    <3>3. CASE j # m
      <4>1. j \in 0 .. k
        BY <2>2, <3>3
      <4>. QED
        BY <2>4, <3>1, <3>3, <4>1
    <3>. QED
      BY <3>2, <3>3
  <2>7. g = [j \in 0 .. m |-> G(j)]
    <3> HIDE DEF G
    <3>1. g = [j \in 0 .. m |-> F(j)]
      BY DEF g
    <3> HIDE DEF F
    <3>. QED
      BY <2>6, <3>1
  <2>8. ElementsEq(i, m, read, g)
    BY <2>7 DEF ElementsEq
  <2>. QED
    BY <2>1, <2>2, <2>8
<1>3. 0 .. n \subseteq Q
  <2> HIDE DEF Q
  <2>. QED
    BY <1>1, <1>2, AllUpTo
<1>. QED
  BY <1>3

LEMMA ElementsAre ==
  ASSUME NEW n \in Nat, NEW i, NEW read
  PROVE  \E e : ElementsFrom(i, n, read, e)
<1> DEFINE e == CHOOSE h : ElementsEq(i, n, read, h)
           G(k) == IF k = 0 THEN Read(i, <<>>) ELSE NextElement(e[k - 1], read[e[k - 1].next])
<1>1. ElementsEq(i, n, read, e)
  BY ElementsExist
<1>2. e[n] = Elements(i, n, read)
  BY DEF Elements, ElementsEq, NextElement
<1>3. e = [k \in 0 .. n |-> G(k)]
  BY <1>1 DEF ElementsEq
<1> HIDE DEF e
<1>4. \A k \in 0 .. n : e[k] = G(k)
  <2> HIDE DEF G
  <2>. QED
    BY <1>3
<1>5. e[0] = Read(i, <<>>)
  BY <1>4
<1>6. \A k \in 1 .. n : e[k] = NextElement(e[k - 1], read[e[k - 1].next])
  BY <1>4
<1>7. ElementsFrom(i, n, read, e)
  BY <1>2, <1>5, <1>6 DEF ElementsFrom
<1>. QED
  BY <1>7

(* Where reading goes on, and that only what is read there matters *)
Forward(i, last, read) ==
  \A p \in i .. last : Fails(read[p]) \/ read[p].next \in p .. last

LEMMA ElementsForward ==
  ASSUME NEW n \in Nat, NEW i \in Int, NEW last \in Int, i <= last,
         NEW read, Forward(i, last, read),
         NEW other, \A p \in i .. last : other[p] = read[p]
  PROVE  /\ Elements(i, n, other) = Elements(i, n, read)
         /\ Fails(Elements(i, n, read)) \/ Elements(i, n, read).next \in i .. last
<1>1. PICK e : ElementsFrom(i, n, read, e)
  BY ElementsAre
<1>2. PICK f : ElementsFrom(i, n, other, f)
  BY ElementsAre
<1> DEFINE Q == {k \in 0 .. n : f[k] = e[k] /\ (Fails(e[k]) \/ e[k].next \in i .. last)}
<1>3. 0 \in Q
  <2>1. e[0] = Read(i, <<>>) /\ f[0] = Read(i, <<>>)
    BY <1>1, <1>2 DEF ElementsFrom
  <2>2. e[0].next = i
    BY <2>1 DEF Read
  <2>. QED
    BY <2>1, <2>2
<1>4. ASSUME NEW k \in 0 .. n - 1, k \in Q
      PROVE  k + 1 \in Q
  <2>1. PICK m : m = k + 1
    OBVIOUS
  <2>2. m \in 1 .. n /\ m - 1 = k /\ m \in 0 .. n
    BY <2>1
  <2>3. f[k] = e[k] /\ (Fails(e[k]) \/ e[k].next \in i .. last)
    BY <1>4
  <2>4. e[m] = NextElement(e[k], read[e[k].next]) /\ f[m] = NextElement(f[k], other[f[k].next])
    BY <1>1, <1>2, <2>2 DEF ElementsFrom
  <2>5. CASE Fails(e[k])
    <3>1. e[m] = Unreadable /\ f[m] = Unreadable
      BY <2>3, <2>4, <2>5 DEF NextElement
    <3>2. Fails(e[m])
      BY <3>1 DEF Fails, Unreadable
    <3>. QED
      BY <2>1, <2>2, <3>1, <3>2
  <2>6. CASE ~Fails(e[k])
    <3>1. PICK p : p = e[k].next
      OBVIOUS
    <3>2. p \in i .. last /\ other[p] = read[p] /\ (Fails(read[p]) \/ read[p].next \in p .. last)
      BY <2>3, <2>6, <3>1 DEF Forward
    <3>3. f[m] = e[m]
      BY <2>3, <2>4, <3>1, <3>2
    <3>4. CASE Fails(read[p])
      <4>1. e[m] = Unreadable
        BY <2>4, <3>1, <3>4 DEF NextElement
      <4>2. Fails(e[m])
        BY <4>1 DEF Fails, Unreadable
      <4>. QED
        BY <2>1, <2>2, <3>3, <4>2
    <3>5. CASE ~Fails(read[p])
      <4>1. e[m] = Read(read[p].next, Append(e[k].val, read[p].val))
        BY <2>4, <2>6, <3>1, <3>5 DEF NextElement
      <4>2. e[m].next = read[p].next
        BY <4>1 DEF Read
      <4>3. e[m].next \in i .. last
        <5>1. PICK x : x = read[p].next
          OBVIOUS
        <5>2. x \in p .. last
          BY <3>2, <3>5, <5>1
        <5>3. x \in i .. last
          BY <3>2, <5>2
        <5>. QED
          BY <4>2, <5>1, <5>3
      <4>. QED
        BY <2>1, <2>2, <3>3, <4>3
    <3>. QED
      BY <3>4, <3>5
  <2>. QED
    BY <2>5, <2>6
<1>5. 0 .. n \subseteq Q
  <2> HIDE DEF Q
  <2>. QED
    BY <1>3, <1>4, AllUpTo
<1>6. f[n] = e[n] /\ (Fails(e[n]) \/ e[n].next \in i .. last)
  BY <1>5
<1>. QED
  BY <1>1, <1>2, <1>6 DEF ElementsFrom

(* A sequence grows by its next element. *)
LEMMA TakeMore ==
  ASSUME NEW S, NEW s \in Seq(S), NEW k \in 0 .. Len(s) - 1, NEW m, m = k + 1
  PROVE  Append(Take(s, k), s[m]) = Take(s, m)
<1>1. Len(s) \in Nat /\ k \in 0 .. Len(s) /\ m \in 0 .. Len(s) /\ m \in 1 .. Len(s) /\ k \in Nat
  BY SeqFacts
<1>2. Take(s, k) \in Seq(S) /\ Len(Take(s, k)) = k /\ \A i \in 1 .. k : Take(s, k)[i] = s[i]
  BY <1>1, TakeFacts
<1>3. Take(s, m) \in Seq(S) /\ Len(Take(s, m)) = m /\ \A i \in 1 .. m : Take(s, m)[i] = s[i]
  BY <1>1, TakeFacts
<1>4. s[m] \in S
  BY <1>1, SeqFacts
<1> DEFINE t == Take(s, k)
           u == Append(t, s[m])
<1> HIDE DEF t
<1>5. u \in Seq(S) /\ Len(u) = m /\ u[m] = s[m] /\ \A i \in 1 .. k : u[i] = t[i]
  BY <1>1, <1>2, <1>4 DEF t
<1> HIDE DEF u
<1>6. \A i \in 1 .. m : u[i] = s[i]
  <2>1. ASSUME NEW i \in 1 .. m
        PROVE  u[i] = s[i]
    <3>1. i = m \/ i \in 1 .. k
      BY <1>1
    <3>. QED
      BY <1>2, <1>5, <3>1 DEF t
  <2>. QED
    BY <2>1
<1>7. u = Take(s, m)
  BY <1>3, <1>5, <1>6, SeqEqual
<1>. QED
  BY <1>7 DEF u, t

(* A value is read wherever its cells are. *)
Reads(data, read, x, v) ==
  \A p : \A y \in Seq(Cell) : Lies(data, p, x \o y) => read[p] = Read(p + Len(x), v)

(* So values in a row are read as they were written. *)
LEMMA ElementsRead ==
  ASSUME NEW data, NEW i, NEW s, Lies(data, i, s), NEW V, NEW vals \in Seq(V), NEW m, NEW read,
         NEW n, n = Len(vals), Chain(s, 1, n, m),
         \A k \in 1 .. n : Reads(data, read, m[k], vals[k])
  PROVE  Elements(i, n, read) = Read(Len(data) + 1, vals)
<1>1. n \in Nat
  BY SeqFacts
<1>2. PICK r : Rests(s, 1, n, m, r)
  BY DEF Chain
<1>3. /\ r[0] = s /\ r[n] = <<>>
      /\ \A k \in 1 .. n : m[k] \in Seq(Cell) /\ r[k] \in Seq(Cell) /\ r[k - 1] = m[k] \o r[k]
  <2>1. 1 - 1 = 0 /\ \A k \in 1 .. n : k \in 0 .. n
    OBVIOUS
  <2>. QED
    BY <1>2, <2>1 DEF Rests
<1>4. PICK e : ElementsFrom(i, n, read, e)
  BY <1>1, ElementsAre
<1> DEFINE Good(k, p) == e[k] = Read(p, Take(vals, k)) /\ Lies(data, p, r[k])
           Q == {k \in 0 .. n : \E p : Good(k, p)}
<1>5. 0 \in Q
  <2>1. e[0] = Read(i, <<>>)
    BY <1>4 DEF ElementsFrom
  <2>2. Take(vals, 0) = <<>>
    BY SubSeqEmpty DEF Take
  <2>3. Good(0, i)
    BY <1>3, <2>1, <2>2
  <2> HIDE DEF Good
  <2>. QED
    BY <1>1, <2>3
<1>6. ASSUME NEW k \in 0 .. n - 1, k \in Q
      PROVE  k + 1 \in Q
  <2>1. PICK j : j = k + 1
    OBVIOUS
  <2>2. j \in 1 .. n /\ j - 1 = k /\ j \in 0 .. n
    BY <1>1, <2>1
  <2>3. PICK p : Good(k, p)
    BY <1>6
  <2>4. PICK x, y, v : x = m[j] /\ y = r[j] /\ v = vals[j]
    OBVIOUS
  <2>5. x \in Seq(Cell) /\ y \in Seq(Cell) /\ Lies(data, p, x \o y)
    BY <1>3, <2>2, <2>3, <2>4
  <2>6. read[p] = Read(p + Len(x), v)
    <3>1. Reads(data, read, x, v)
      BY <2>2, <2>4
    <3>. QED
      BY <2>5, <3>1 DEF Reads
  <2>7. PICK l : l = Len(x)
    OBVIOUS
  <2>8. LiesBehind(data, p, x, y, l)
    BY <2>5, <2>7, LiesPiece
  <2>9. Lies(data, p + l, y)
    BY <2>8 DEF LiesBehind
  <2>10. ~(p = -1) /\ ~(p + l = -1)
    <3>1. p \in Nat
      BY <2>5, LiesLength
    <3>2. p + l \in Nat
      BY <2>9, LiesLength
    <3>. QED
      BY <3>1, <3>2
  <2>11. e[j] = NextElement(e[k], read[e[k].next])
    BY <1>4, <2>2 DEF ElementsFrom
  <2>12. e[k] = Read(p, Take(vals, k)) /\ e[k].next = p /\ e[k].val = Take(vals, k) /\ ~Fails(e[k])
    BY <2>3, <2>10 DEF Read, Fails
  <2>13. read[p].next = p + l /\ read[p].val = v /\ ~Fails(read[p])
    BY <2>6, <2>7, <2>10 DEF Read, Fails
  <2>14. e[j] = Read(p + l, Append(Take(vals, k), v))
    BY <2>11, <2>12, <2>13 DEF NextElement
  <2>15. Append(Take(vals, k), vals[j]) = Take(vals, j)
    <3>1. k \in 0 .. Len(vals) - 1
      OBVIOUS
    <3>. QED
      BY <2>1, <3>1, TakeMore
  <2>16. Good(j, p + l)
    BY <2>4, <2>9, <2>14, <2>15
  <2> HIDE DEF Good
  <2>. QED
    BY <2>1, <2>2, <2>16
<1>7. 0 .. n \subseteq Q
  <2> HIDE DEF Q
  <2>. QED
    BY <1>1, <1>5, <1>6, AllUpTo
<1>8. PICK p : Good(n, p)
  BY <1>1, <1>7
<1>9. p = Len(data) + 1
  <2>1. Lies(data, p, <<>>)
    BY <1>3, <1>8
  <2>2. Len(<<>>) = Len(data) + 1 - p /\ Len(data) \in Nat /\ p \in Nat
    BY <2>1, LiesLength
  <2>3. Len(<<>>) = 0
    BY EmptySeq
  <2>. QED
    BY <2>2, <2>3
<1>10. Take(vals, n) = vals
  BY TakeAll
<1>. QED
  BY <1>4, <1>8, <1>9, <1>10 DEF ElementsFrom

(* What is read of the middle of a message is cells and numbers, *)
LEMMA AtFacts ==
  ASSUME NEW data \in Seq(Cell), NEW i \in Nat, i >= 1, NEW n \in Nat, i + n <= Len(data) + 1
  PROVE  At(data, i, n) \in Seq(Cell) /\ Number(At(data, i, n)) \in Nat
<1>1. Len(data) \in Nat
  BY SeqFacts
<1>2. PICK a, b : a = i /\ b = i + n - 1
  OBVIOUS
<1>3. a \in 1 .. Len(data) + 1 /\ b \in a - 1 .. Len(data)
  BY <1>1, <1>2
<1>4. SubSeq(data, a, b) \in Seq(Cell)
  BY <1>3, PieceFacts
<1>5. At(data, i, n) \in Seq(Cell)
  BY <1>2, <1>4 DEF At
<1>. QED
  BY <1>5, NumberFacts

(* and a string ends in it. *)
LEMMA StringRange ==
  ASSUME NEW data \in Seq(Cell), NEW i \in Nat, i >= 1, HasString(data, i)
  PROVE  AfterString(data, i) \in i + Width .. Len(data) + 1
<1>1. Len(data) \in Nat /\ Width \in Nat
  BY SeqFacts, CellsFacts
<1>2. i + Width <= Len(data) + 1 /\ AfterString(data, i) <= Len(data) + 1
  BY DEF HasString, AfterString
<1>3. Number(At(data, i, Width)) \in Nat
  BY <1>1, <1>2, AtFacts
<1>4. PICK n : n = Number(At(data, i, Width))
  OBVIOUS
<1>5. AfterString(data, i) = i + Width + n /\ n \in Nat
  BY <1>3, <1>4 DEF AfterString
<1>. QED
  BY <1>1, <1>2, <1>5

(* What is printed of an array comes from the values behind its header; of *)
(* anything else, it is there.                                             *)
ArrayAt(data, i) == i + Width < Len(data) + 1 /\ data[i] = TAG_ARR

ArrayRead(all) ==
  IF Fails(all) THEN Unreadable ELSE Read(all.next, [tag |-> TAG_ARR, arr |-> all.val])

LEMMA PrintArrayAt ==
  ASSUME NEW data \in Seq(Cell), NEW i \in Nat, ArrayAt(data, i), NEW f
  PROVE  PrintAt(data, i, f) =
           ArrayRead(Elements(i + 1 + Width, Number(At(data, i + 1, Width)), f))
<1>1. Len(data) \in Nat /\ Width \in Nat
  BY SeqFacts, CellsFacts
<1>2. i + Width < Len(data) + 1 /\ data[i] = TAG_ARR /\ i # Len(data) + 1
  BY <1>1 DEF ArrayAt
<1>. QED
  BY <1>2, TagFacts DEF PrintAt, ArrayRead

(* The next value is behind this one. *)
Behind(i, last, res) == Fails(res) \/ res.next \in i + 1 .. last

LEMMA PrintOther ==
  ASSUME NEW data \in Seq(Cell), NEW i \in 1 .. Len(data) + 1, ~ArrayAt(data, i), NEW f
  PROVE  /\ \A g : PrintAt(data, i, g) = PrintAt(data, i, f)
         /\ Behind(i, Len(data) + 1, PrintAt(data, i, f))
<1> DEFINE end == Len(data) + 1
           res == PrintAt(data, i, f)
           tag == data[i]
<1>1. Len(data) \in Nat /\ Width \in Nat /\ 2 * Width \in Nat /\ i \in Nat /\ i >= 1
  BY SeqFacts, CellsFacts
<1>2. ASSUME NEW g
      PROVE  PrintAt(data, i, g) = PrintAt(data, i, f)
  BY DEF PrintAt, ArrayAt
<1>3. ASSUME res = Unreadable
      PROVE  Behind(i, end, res)
  BY <1>3 DEF Behind, Fails, Unreadable
<1>4. ASSUME \E v : res = Read(i + 1, v) /\ i < end
      PROVE  Behind(i, end, res)
  <2>1. res.next = i + 1
    BY <1>4 DEF Read
  <2>2. i + 1 \in i + 1 .. end
    BY <1>1, <1>4
  <2>. QED
    BY <2>1, <2>2 DEF Behind
<1>5. ASSUME \E v : res = Read(AfterString(data, i + 1), v) /\ HasString(data, i + 1)
      PROVE  Behind(i, end, res)
  <2>1. res.next = AfterString(data, i + 1)
    BY <1>5 DEF Read
  <2>2. i + 1 \in Nat /\ i + 1 >= 1
    BY <1>1
  <2>3. AfterString(data, i + 1) \in i + 1 + Width .. end
    BY <1>5, <2>2, StringRange
  <2>4. PICK x : x = AfterString(data, i + 1)
    OBVIOUS
  <2>5. x \in i + 1 + Width .. end
    BY <2>3, <2>4
  <2>6. x \in i + 1 .. end
    BY <1>1, <2>5
  <2>. QED
    BY <2>1, <2>4, <2>6 DEF Behind
<1>6. ASSUME \E v : res = Read(AfterString(data, i + 1 + Width), v) /\ HasString(data, i + 1 + Width)
      PROVE  Behind(i, end, res)
  <2>1. res.next = AfterString(data, i + 1 + Width)
    BY <1>6 DEF Read
  <2>2. i + 1 + Width \in Nat /\ i + 1 + Width >= 1
    BY <1>1
  <2>3. AfterString(data, i + 1 + Width) \in i + 1 + Width + Width .. end
    BY <1>6, <2>2, StringRange
  <2>4. PICK x : x = AfterString(data, i + 1 + Width)
    OBVIOUS
  <2>5. x \in i + 1 + Width + Width .. end
    BY <2>3, <2>4
  <2>6. x \in i + 1 .. end
    BY <1>1, <2>5
  <2>. QED
    BY <2>1, <2>4, <2>6 DEF Behind
<1>7. ASSUME \E v : res = Read(i + 1 + 2 * Width, v) /\ i + 2 * Width < end
      PROVE  Behind(i, end, res)
  <2>1. res.next = i + 1 + 2 * Width
    BY <1>7 DEF Read
  <2>2. PICK w : w = 2 * Width
    OBVIOUS
  <2>3. i + 1 + w \in i + 1 .. end
    BY <1>1, <1>7, <2>2
  <2>. QED
    BY <2>1, <2>2, <2>3 DEF Behind
<1>8. \/ res = Unreadable
      \/ \E v : res = Read(i + 1, v) /\ i < end
      \/ \E v : res = Read(AfterString(data, i + 1), v) /\ HasString(data, i + 1)
      \/ \E v : res = Read(AfterString(data, i + 1 + Width), v) /\ HasString(data, i + 1 + Width)
      \/ \E v : res = Read(i + 1 + 2 * Width, v) /\ i + 2 * Width < end
  BY DEF PrintAt, ArrayAt
<1>. QED
  BY <1>2, <1>3, <1>4, <1>5, <1>6, <1>7, <1>8

(* So reading only looks at what is behind, and goes on there. *)
LEMMA PrintForward ==
  ASSUME NEW data \in Seq(Cell), NEW i \in 1 .. Len(data) + 1, NEW f, NEW g,
         \A p \in i + 1 .. Len(data) + 1 : f[p] = g[p] /\ Behind(p, Len(data) + 1, f[p])
  PROVE  PrintAt(data, i, f) = PrintAt(data, i, g) /\ Behind(i, Len(data) + 1, PrintAt(data, i, f))
<1>1. Len(data) \in Nat /\ Width \in Nat /\ i \in Nat /\ i >= 1
  BY SeqFacts, CellsFacts
<1>2. CASE ~ArrayAt(data, i)
  BY <1>2, PrintOther
<1>3. CASE ArrayAt(data, i)
  <2> DEFINE n == Number(At(data, i + 1, Width))
             all == Elements(i + 1 + Width, n, f)
  <2>1. PICK a, end : a = i + 1 + Width /\ end = Len(data) + 1
    OBVIOUS
  <2>2. a \in Int /\ end \in Int /\ a <= end /\ i + 1 \in Nat /\ i + 1 >= 1 /\ i + 1 + Width <= Len(data) + 1
        /\ a >= i + 1
    BY <1>1, <1>3, <2>1 DEF ArrayAt
  <2>3. n \in Nat
    BY <1>1, <2>2, AtFacts
  <2>4. \A p \in a .. end : p \in i + 1 .. end
    BY <1>1, <2>2
  <2>5. \A p \in a .. end : g[p] = f[p]
    BY <2>1, <2>4
  <2>6. Forward(a, end, f)
    <3>1. ASSUME NEW p \in a .. end
          PROVE  Fails(f[p]) \/ f[p].next \in p .. end
      <4>1. Behind(p, end, f[p])
        BY <2>1, <2>4, <3>1
      <4>2. PICK x : x = f[p].next
        OBVIOUS
      <4>3. x \in p + 1 .. end => x \in p .. end
        BY <2>2
      <4>. QED
        BY <4>1, <4>2, <4>3 DEF Behind
    <3>. QED
      BY <3>1 DEF Forward
  <2> HIDE DEF n
  <2>7. /\ Elements(a, n, g) = Elements(a, n, f)
        /\ Fails(Elements(a, n, f)) \/ Elements(a, n, f).next \in a .. end
    BY ONLY <2>2, <2>3, <2>5, <2>6, ElementsForward
  <2>8. PrintAt(data, i, f) = ArrayRead(Elements(a, n, f)) /\ PrintAt(data, i, g) = ArrayRead(Elements(a, n, g))
    BY <1>1, <1>3, <2>1, PrintArrayAt DEF n
  <2>9. Behind(i, end, ArrayRead(Elements(a, n, f)))
    <3>1. PICK x : x = Elements(a, n, f)
      OBVIOUS
    <3>2. CASE Fails(x)
      BY <3>1, <3>2 DEF ArrayRead, Behind, Fails, Unreadable
    <3>3. CASE ~Fails(x)
      <4>1. x.next \in a .. end
        BY <2>7, <3>1, <3>3
      <4>2. ArrayRead(x).next = x.next
        BY <3>3 DEF ArrayRead, Read
      <4>3. PICK y : y = x.next
        OBVIOUS
      <4>4. y \in i + 1 .. end
        BY <1>1, <2>2, <4>1, <4>3
      <4>. QED
        BY <3>1, <4>2, <4>3, <4>4 DEF Behind
    <3>. QED
      BY <3>2, <3>3
  <2>. QED
    BY <2>1, <2>7, <2>8, <2>9
<1>. QED
  BY <1>2, <1>3

(* print_response() ends: it has a value at each position, from the last   *)
(* one to the first.                                                       *)
PrintsFrom(data, lo, f) ==
  /\ f = [i \in lo .. Len(data) + 1 |-> PrintAt(data, i, f)]
  /\ \A i \in lo .. Len(data) + 1 : Behind(i, Len(data) + 1, f[i])

LEMMA PrintExists ==
  ASSUME NEW data \in Seq(Cell)
  PROVE  \E f : PrintsFrom(data, 1, f)
<1> DEFINE n == Len(data)
           end == n + 1
           Q == {k \in 0 .. n : \E f : PrintsFrom(data, end - k, f)}
<1>1. n \in Nat
  BY SeqFacts
<1>2. ASSUME NEW m \in 1 .. end, NEW h, \A i \in m + 1 .. end : h[i] = PrintAt(data, i, h),
             \A i \in m + 1 .. end : Behind(i, end, h[i])
      PROVE  \E f : PrintsFrom(data, m, f)
  <2> DEFINE F(i) == IF i = m THEN PrintAt(data, m, h) ELSE h[i]
             g == [i \in m .. end |-> F(i)]
             G(i) == PrintAt(data, i, g)
  <2>1. \A i \in m .. end : g[i] = F(i)
    OBVIOUS
  <2> HIDE DEF g
  <2>2. \A i \in m + 1 .. end : i \in m .. end /\ i # m
    BY <1>1
  <2>3. \A i \in m + 1 .. end : h[i] = g[i]
    BY <2>1, <2>2
  <2>4. ASSUME NEW i \in m .. end
        PROVE  F(i) = G(i) /\ Behind(i, end, F(i))
    <3>1. i \in 1 .. end /\ \A p \in i + 1 .. end : p \in m + 1 .. end
      BY <1>1
    <3>2. \A p \in i + 1 .. end : h[p] = g[p] /\ Behind(p, end, h[p])
      BY <1>2, <2>3, <3>1
    <3>3. PrintAt(data, i, h) = PrintAt(data, i, g) /\ Behind(i, end, PrintAt(data, i, h))
      BY <3>1, <3>2, PrintForward
    <3>4. F(i) = PrintAt(data, i, h)
      <4>1. i = m \/ i \in m + 1 .. end
        BY <1>1
      <4>. QED
        BY <1>2, <2>2, <4>1
    <3>. QED
      BY <3>3, <3>4
  <2> HIDE DEF F, G
  <2>5. g = [i \in m .. end |-> G(i)]
    <3>1. g = [i \in m .. end |-> F(i)]
      BY DEF g
    <3>. QED
      BY <2>4, <3>1
  <2>6. PrintsFrom(data, m, g)
    BY <2>1, <2>4, <2>5 DEF PrintsFrom, G
  <2>. QED
    BY <2>6
<1>3. 0 \in Q
  <2>1. PICK h : h = <<>>
    OBVIOUS
  <2>2. end + 1 .. end = {} /\ end \in 1 .. end /\ end - 0 = end
    BY <1>1
  <2>3. \E f : PrintsFrom(data, end, f)
    BY <1>2, <2>1, <2>2
  <2>. QED
    BY <1>1, <2>2, <2>3
<1>4. ASSUME NEW k \in 0 .. n - 1, k \in Q
      PROVE  k + 1 \in Q
  <2>1. PICK m, j : m = end - (k + 1) /\ j = end - k
    OBVIOUS
  <2>2. m \in 1 .. end /\ j = m + 1 /\ k + 1 \in 0 .. n
    BY <1>1, <2>1
  <2>3. PICK f : PrintsFrom(data, j, f)
    BY <1>4, <2>1
  <2>4. \A i \in j .. end : f[i] = PrintAt(data, i, f)
    <3> DEFINE H(i) == PrintAt(data, i, f)
    <3>1. f = [i \in j .. end |-> H(i)]
      BY <2>3 DEF PrintsFrom
    <3> HIDE DEF H
    <3>2. \A i \in j .. end : f[i] = H(i)
      BY <3>1
    <3>. QED
      BY <3>2 DEF H
  <2>5. \A i \in j .. end : Behind(i, end, f[i])
    BY <2>3 DEF PrintsFrom
  <2>6. \E g : PrintsFrom(data, m, g)
    BY <1>2, <2>2, <2>4, <2>5
  <2>. QED
    BY <2>1, <2>2, <2>6
<1>5. 0 .. n \subseteq Q
  <2> HIDE DEF Q
  <2>. QED
    BY <1>1, <1>3, <1>4, AllUpTo
<1>6. end - n = 1 /\ n \in 0 .. n
  BY <1>1
<1>7. \E f : PrintsFrom(data, end - n, f)
  BY <1>5, <1>6
<1>. QED
  BY <1>6, <1>7

(* The value at each position *)
Prints(data, f) == \A i \in 1 .. Len(data) + 1 : f[i] = PrintAt(data, i, f)

LEMMA PrintFacts ==
  ASSUME NEW data \in Seq(Cell)
  PROVE  \E f : Prints(data, f) /\ print_response(data) = f[1]
<1> DEFINE Eq(f) == f = [i \in 1 .. Len(data) + 1 |-> PrintAt(data, i, f)]
           f == CHOOSE h : Eq(h)
           H(i) == PrintAt(data, i, f)
<1>1. Eq(f)
  <2>1. PICK h : PrintsFrom(data, 1, h)
    BY PrintExists
  <2>2. Eq(h)
    BY <2>1 DEF PrintsFrom
  <2> HIDE DEF Eq
  <2>. QED
    BY <2>2
<1>2. print_response(data) = f[1]
  BY DEF print_response
<1>3. f = [i \in 1 .. Len(data) + 1 |-> H(i)]
  BY <1>1
<1> HIDE DEF f, H
<1>4. \A i \in 1 .. Len(data) + 1 : f[i] = H(i)
  BY <1>3
<1>5. Prints(data, f)
  BY <1>4 DEF Prints, H
<1>. QED
  BY <1>2, <1>5

(* Each kind of scalar, where it is *)
LEMMA PrintNil ==
  ASSUME NEW data, NEW i, NEW f, i < Len(data) + 1, i # Len(data) + 1, data[i] = TAG_NIL
  PROVE  PrintAt(data, i, f) = Read(i + 1, [tag |-> TAG_NIL])
BY TagFacts DEF PrintAt

LEMMA PrintStr ==
  ASSUME NEW data, NEW i, NEW f, i < Len(data) + 1, i # Len(data) + 1, data[i] = TAG_STR,
         HasString(data, i + 1)
  PROVE  PrintAt(data, i, f) =
           Read(AfterString(data, i + 1), [tag |-> TAG_STR, str |-> StringAt(data, i + 1)])
BY TagFacts DEF PrintAt

LEMMA PrintErr ==
  ASSUME NEW data, NEW i, NEW f, i < Len(data) + 1, i # Len(data) + 1, data[i] = TAG_ERR,
         HasString(data, i + 1 + Width)
  PROVE  PrintAt(data, i, f) =
           Read(AfterString(data, i + 1 + Width),
                [tag |-> TAG_ERR, code |-> Number(At(data, i + 1, Width)),
                 msg |-> StringAt(data, i + 1 + Width)])
BY TagFacts DEF PrintAt

LEMMA PrintInt ==
  ASSUME NEW data, NEW i, NEW f, i # Len(data) + 1, data[i] = TAG_INT,
         i + 2 * Width < Len(data) + 1
  PROVE  PrintAt(data, i, f) =
           Read(i + 1 + 2 * Width, [tag |-> TAG_INT, int |-> Number(At(data, i + 1, 2 * Width))])
BY TagFacts DEF PrintAt

LEMMA PrintDbl ==
  ASSUME NEW data, NEW i, NEW f, i # Len(data) + 1, data[i] = TAG_DBL,
         i + 2 * Width < Len(data) + 1
  PROVE  PrintAt(data, i, f) =
           Read(i + 1 + 2 * Width, [tag |-> TAG_DBL, dbl |-> Number(At(data, i + 1, 2 * Width))])
BY TagFacts DEF PrintAt

(* The tag is found, and what is behind it. *)
TagBefore(data, i, tag, x, y) ==
  /\ i < Len(data) + 1 /\ i # Len(data) + 1 /\ i \in 1 .. Len(data) + 1 /\ i \in Nat
  /\ Len(data) \in Nat /\ data[i] = tag
  /\ Lies(data, i + 1, x \o y) /\ Len(<<tag>> \o x) = 1 + Len(x) /\ Len(x) \in Nat

LEMMA LiesTag ==
  ASSUME NEW data, NEW i, NEW tag, NEW a \in Seq(Cell), a = <<tag>>,
         NEW x \in Seq(Cell), NEW y \in Seq(Cell), Lies(data, i, (a \o x) \o y)
  PROVE  TagBefore(data, i, tag, x, y)
<1>1. Len(a) = 1 /\ a[1] = tag
  OBVIOUS
<1>2. a \in Seq(Cell)
  OBVIOUS
<1>3. Lies(data, i, (a \o x) \o y)
  OBVIOUS
<1>4. PICK r : r = x \o y
  OBVIOUS
<1>5. r \in Seq(Cell) /\ Groups(a, x, y)
  BY <1>2, <1>4, TwoPieces, InGroups
<1>6. Lies(data, i, a \o r)
  BY <1>3, <1>4, <1>5 DEF Groups
<1>7. LiesBehind(data, i, a, r, 1)
  BY <1>1, <1>2, <1>5, <1>6, LiesPiece
<1>8. Lies(data, i + 1, r) /\ i < Len(data) + 1 /\ data[i] = tag
  BY <1>1, <1>7 DEF LiesBehind
<1>9. Len(a \o x) = 1 + Len(x) /\ Len(x) \in Nat
  BY <1>1, <1>2, TwoPieces, SeqFacts
<1>10. i \in 1 .. Len(data) + 1
  BY <1>3 DEF Lies
<1>11. i \in Nat /\ Len(data) \in Nat
  BY <1>3, LiesLength
<1>12. i # Len(data) + 1
  BY <1>8, <1>11
<1>. QED
  BY <1>4, <1>8, <1>9, <1>10, <1>11, <1>12 DEF TagBefore

(* What is written of a scalar is read as that scalar. *)
LEMMA ScalarReads ==
  ASSUME NEW data, NEW f, Prints(data, f), NEW v \in Scalars, Len(ScalarCells(v)) <= MaxMsg
  PROVE  Reads(data, f, ScalarCells(v), v)
<1>0. MaxMsg \in Nat /\ Width \in Nat /\ 2 * Width \in Nat
  BY ConstantsAssumption, CellsFacts
<1>1. SUFFICES ASSUME NEW i, NEW y \in Seq(Cell), Lies(data, i, ScalarCells(v) \o y)
               PROVE  f[i] = Read(i + Len(ScalarCells(v)), v)
  BY DEF Reads
<1>2. f[i] = PrintAt(data, i, f)
  BY <1>1 DEF Prints, Lies
<1>3. CASE v.tag = TAG_NIL /\ v = [tag |-> TAG_NIL]
  <2>1. ScalarCells(v) = <<TAG_NIL>> /\ <<>> \in Seq(Cell) /\ <<TAG_NIL>> \in Seq(Cell)
    BY <1>3, TagFacts, EmptySeq DEF ScalarCells
  <2>2. PICK a, x : a = <<TAG_NIL>> /\ x = <<>>
    OBVIOUS
  <2>3. a \in Seq(Cell) /\ x \in Seq(Cell) /\ a \o x = a
    BY <2>1, <2>2, ConcatEmptySeq
  <2>7. Lies(data, i, (a \o x) \o y)
    BY <1>1, <2>1, <2>2, <2>3
  <2>8. TagBefore(data, i, TAG_NIL, x, y)
    BY <2>2, <2>3, <2>7, LiesTag
  <2>4. i < Len(data) + 1 /\ i # Len(data) + 1 /\ data[i] = TAG_NIL
    BY <2>8 DEF TagBefore
  <2>5. PrintAt(data, i, f) = Read(i + 1, [tag |-> TAG_NIL])
    BY <2>4, PrintNil
  <2>6. Len(ScalarCells(v)) = 1
    BY <2>1
  <2>. QED
    BY <1>2, <1>3, <2>5, <2>6
<1>4. CASE v.tag = TAG_STR /\ v.str \in Seq(Cell) /\ v = [tag |-> TAG_STR, str |-> v.str]
  <2> DEFINE x == WithLength(v.str)
  <2>1. ScalarCells(v) = <<TAG_STR>> \o x /\ <<TAG_STR>> \in Seq(Cell)
    BY <1>4, TagFacts DEF ScalarCells
  <2>2. x \in Seq(Cell) /\ Len(x) = Width + Len(v.str) /\ Len(v.str) \in Nat
    BY <1>4, LengthType, SeqFacts
  <2> HIDE DEF x
  <2>3. Lies(data, i, (<<TAG_STR>> \o x) \o y)
    BY <1>1, <2>1
  <2>4. /\ i < Len(data) + 1 /\ i # Len(data) + 1 /\ data[i] = TAG_STR /\ i \in Nat
        /\ Lies(data, i + 1, x \o y) /\ Len(<<TAG_STR>> \o x) = 1 + Len(x)
    <3>1. TagBefore(data, i, TAG_STR, x, y)
      BY <2>1, <2>2, <2>3, LiesTag
    <3>. QED
      BY <3>1 DEF TagBefore
  <2>5. PICK s, j, e : s = v.str /\ j = i + 1 /\ e = j + Width + Len(s)
    OBVIOUS
  <2>6. s \in Seq(Cell) /\ Lies(data, j, WithLength(s) \o y) /\ Len(s) <= MaxMsg
    BY <1>0, <1>4, <2>1, <2>2, <2>4, <2>5 DEF x
  <2>7. LiesString(data, j, s, y, e)
    BY <2>5, <2>6, ReadString
  <2>8. HasString(data, i + 1) /\ StringAt(data, i + 1) = v.str /\ AfterString(data, i + 1) = e
    BY <2>5, <2>7 DEF LiesString
  <2>9. PrintAt(data, i, f) = Read(e, [tag |-> TAG_STR, str |-> v.str])
    BY <2>4, <2>8, PrintStr
  <2>10. e = i + Len(ScalarCells(v))
    <3>1. PICK n : n = Len(s)
      OBVIOUS
    <3>2. n \in Nat /\ Len(ScalarCells(v)) = 1 + (Width + n) /\ e = i + 1 + Width + n
      BY <2>1, <2>2, <2>4, <2>5, <3>1
    <3>. QED
      BY <1>0, <2>4, <3>2
  <2>. QED
    BY <1>2, <1>4, <2>9, <2>10
<1>5. ASSUME NEW n \in Numbers(2 * Width), NEW tag \in {TAG_INT, TAG_DBL},
             ScalarCells(v) = <<tag>> \o I64(n)
      PROVE  /\ i # Len(data) + 1 /\ data[i] = tag /\ i + 2 * Width < Len(data) + 1
             /\ Number(At(data, i + 1, 2 * Width)) = n
             /\ i + 1 + 2 * Width = i + Len(ScalarCells(v))
  <2> DEFINE x == I64(n)
             w == 2 * Width
  <2>1. x \in Seq(Cell) /\ Len(x) = w /\ Number(x) = n /\ <<tag>> \in Seq(Cell)
    BY <1>5, I64Type, TagFacts
  <2>2. Lies(data, i, (<<tag>> \o x) \o y)
    BY <1>1, <1>5
  <2> HIDE DEF x
  <2>3. /\ i # Len(data) + 1 /\ data[i] = tag /\ i \in Nat /\ Len(data) \in Nat
        /\ Lies(data, i + 1, x \o y) /\ Len(<<tag>> \o x) = 1 + Len(x)
    <3>1. TagBefore(data, i, tag, x, y)
      BY <2>1, <2>2, LiesTag
    <3>. QED
      BY <3>1 DEF TagBefore
  <2>4. PICK j : j = i + 1
    OBVIOUS
  <2> HIDE DEF w
  <2>5. w \in Nat
    BY <1>0 DEF w
  <2>6. LiesBehind(data, j, x, y, w)
    BY <2>1, <2>3, <2>4, LiesPiece
  <2>7. At(data, j, w) = x /\ j + w <= Len(data) + 1
    BY <2>6 DEF LiesBehind
  <2>8. i + w < Len(data) + 1 /\ i + 1 + w = i + (1 + w)
    BY <2>3, <2>4, <2>5, <2>7
  <2>9. Len(ScalarCells(v)) = 1 + w
    BY <1>5, <2>1, <2>3 DEF x
  <2>. QED
    BY <2>1, <2>3, <2>4, <2>7, <2>8, <2>9 DEF w
<1>6. CASE v.tag = TAG_INT /\ v.int \in Numbers(2 * Width) /\ v = [tag |-> TAG_INT, int |-> v.int]
  <2>1. ScalarCells(v) = <<TAG_INT>> \o I64(v.int)
    BY <1>6, TagFacts DEF ScalarCells
  <2>2. PICK n : n = v.int
    OBVIOUS
  <2>3. n \in Numbers(2 * Width) /\ ScalarCells(v) = <<TAG_INT>> \o I64(n) /\ TAG_INT \in {TAG_INT, TAG_DBL}
    BY <1>6, <2>1, <2>2
  <2>4. /\ i # Len(data) + 1 /\ data[i] = TAG_INT /\ i + 2 * Width < Len(data) + 1
        /\ Number(At(data, i + 1, 2 * Width)) = n
        /\ i + 1 + 2 * Width = i + Len(ScalarCells(v))
    BY <1>5, <2>3
  <2>5. PrintAt(data, i, f) =
          Read(i + 1 + 2 * Width, [tag |-> TAG_INT, int |-> Number(At(data, i + 1, 2 * Width))])
    BY <2>4, PrintInt
  <2>. QED
    BY <1>2, <1>6, <2>2, <2>4, <2>5
<1>7. CASE v.tag = TAG_DBL /\ v.dbl \in Numbers(2 * Width) /\ v = [tag |-> TAG_DBL, dbl |-> v.dbl]
  <2>1. ScalarCells(v) = <<TAG_DBL>> \o I64(v.dbl)
    BY <1>7, TagFacts DEF ScalarCells
  <2>2. PICK n : n = v.dbl
    OBVIOUS
  <2>3. n \in Numbers(2 * Width) /\ ScalarCells(v) = <<TAG_DBL>> \o I64(n) /\ TAG_DBL \in {TAG_INT, TAG_DBL}
    BY <1>7, <2>1, <2>2
  <2>4. /\ i # Len(data) + 1 /\ data[i] = TAG_DBL /\ i + 2 * Width < Len(data) + 1
        /\ Number(At(data, i + 1, 2 * Width)) = n
        /\ i + 1 + 2 * Width = i + Len(ScalarCells(v))
    BY <1>5, <2>3
  <2>5. PrintAt(data, i, f) =
          Read(i + 1 + 2 * Width, [tag |-> TAG_DBL, dbl |-> Number(At(data, i + 1, 2 * Width))])
    BY <2>4, PrintDbl
  <2>. QED
    BY <1>2, <1>7, <2>2, <2>4, <2>5
<1>8. CASE /\ v.tag = TAG_ERR /\ v.code \in Numbers(Width) /\ v.msg \in Seq(Cell)
           /\ v = [tag |-> TAG_ERR, code |-> v.code, msg |-> v.msg]
  <2> DEFINE u == U32(v.code)
             w == WithLength(v.msg)
             x == u \o w
  <2>1. ScalarCells(v) = <<TAG_ERR>> \o x /\ <<TAG_ERR>> \in Seq(Cell)
    BY <1>8, TagFacts DEF ScalarCells
  <2>2. /\ u \in Seq(Cell) /\ Len(u) = Width /\ Number(u) = v.code
        /\ w \in Seq(Cell) /\ Len(w) = Width + Len(v.msg) /\ Len(v.msg) \in Nat
    <3>1. Number(U32(v.code)) = v.code /\ U32(v.code) \in Seq(Cell) /\ Len(U32(v.code)) = Width
      BY <1>0, <1>8, NumberBack DEF U32
    <3>. QED
      BY <1>8, <3>1, LengthType, SeqFacts
  <2> HIDE DEF u, w
  <2>3. x \in Seq(Cell) /\ Len(x) = Width + (Width + Len(v.msg))
    <3>1. x \in Seq(Cell) /\ Len(x) = Len(u) + Len(w)
      BY <2>2, TwoPieces
    <3>. QED
      BY <2>2, <3>1
  <2> HIDE DEF x
  <2>4. Lies(data, i, (<<TAG_ERR>> \o x) \o y)
    BY <1>1, <2>1
  <2>5. /\ i < Len(data) + 1 /\ i # Len(data) + 1 /\ data[i] = TAG_ERR /\ i \in Nat
        /\ Lies(data, i + 1, x \o y) /\ Len(<<TAG_ERR>> \o x) = 1 + Len(x)
    <3>1. TagBefore(data, i, TAG_ERR, x, y)
      BY <2>1, <2>3, <2>4, LiesTag
    <3>. QED
      BY <3>1 DEF TagBefore
  <2>6. PICK s, h, j, e, r : /\ s = v.msg /\ h = i + 1 /\ j = i + 1 + Width
                             /\ e = j + Width + Len(s) /\ r = w \o y
    OBVIOUS
  <2>7. r \in Seq(Cell) /\ Groups(u, w, y)
    BY <2>2, <2>6, TwoPieces, InGroups
  <2>8. Lies(data, h, u \o r)
    BY <2>5, <2>6, <2>7 DEF Groups, x
  <2>9. LiesBehind(data, h, u, r, Width)
    BY <2>2, <2>7, <2>8, LiesPiece
  <2>10. Lies(data, h + Width, r) /\ At(data, h, Width) = u
    BY <2>9 DEF LiesBehind
  <2>11. PICK n : n = Len(s)
    OBVIOUS
  <2>12. n \in Nat /\ Len(ScalarCells(v)) = 1 + (Width + (Width + n)) /\ j = h + Width
    BY <2>1, <2>2, <2>3, <2>5, <2>6, <2>11
  <2>13. n <= MaxMsg
    BY <1>0, <2>12
  <2>14. s \in Seq(Cell) /\ Lies(data, j, WithLength(s) \o y) /\ Len(s) <= MaxMsg
    BY <1>8, <2>6, <2>10, <2>11, <2>12, <2>13 DEF w
  <2>15. LiesString(data, j, s, y, e)
    BY <2>6, <2>14, ReadString
  <2>16. /\ HasString(data, i + 1 + Width) /\ StringAt(data, i + 1 + Width) = v.msg
         /\ AfterString(data, i + 1 + Width) = e
    BY <2>6, <2>15 DEF LiesString
  <2>17. Number(At(data, i + 1, Width)) = v.code
    BY <2>2, <2>6, <2>10
  <2>18. PrintAt(data, i, f) = Read(e, [tag |-> TAG_ERR, code |-> v.code, msg |-> v.msg])
    BY <2>5, <2>16, <2>17, PrintErr
  <2>19. e = i + Len(ScalarCells(v))
    <3>1. e = i + 1 + Width + Width + n
      BY <2>6, <2>11
    <3>. QED
      BY <1>0, <2>5, <2>12, <3>1
  <2>. QED
    BY <1>2, <1>8, <2>18, <2>19
<1>. QED
  BY <1>3, <1>4, <1>6, <1>7, <1>8, ScalarCases

(* None of the pieces is longer than the whole. *)
LEMMA ChainBound ==
  ASSUME NEW s, NEW n \in Nat, NEW m, Chain(s, 1, n, m)
  PROVE  \A k \in 1 .. n : m[k] \in Seq(Cell) /\ Len(m[k]) <= Len(s)
<1>1. PICK r : Rests(s, 1, n, m, r)
  BY DEF Chain
<1>2. /\ r[0] = s /\ (\A k \in 0 .. n : r[k] \in Seq(Cell))
      /\ \A k \in 1 .. n : m[k] \in Seq(Cell) /\ r[k - 1] = m[k] \o r[k]
  <2>1. 1 - 1 = 0
    OBVIOUS
  <2>. QED
    BY <1>1, <2>1 DEF Rests
<1>3. ASSUME NEW k \in 1 .. n
      PROVE  /\ Len(r[k - 1]) = Len(m[k]) + Len(r[k])
             /\ Len(m[k]) \in Nat /\ Len(r[k]) \in Nat /\ Len(r[k - 1]) \in Nat
  <2>1. k \in 0 .. n /\ k - 1 \in 0 .. n
    OBVIOUS
  <2>2. PICK x, y : x = m[k] /\ y = r[k]
    OBVIOUS
  <2>3. x \in Seq(Cell) /\ y \in Seq(Cell) /\ r[k - 1] = x \o y /\ r[k - 1] \in Seq(Cell)
    BY <1>2, <2>1, <2>2
  <2>4. Len(x \o y) = Len(x) + Len(y)
    BY <2>3, TwoPieces
  <2>5. Len(x) \in Nat /\ Len(y) \in Nat /\ Len(r[k - 1]) \in Nat
    BY <2>3, SeqFacts
  <2>. QED
    BY <2>2, <2>3, <2>4, <2>5
<1>4. Len(s) \in Nat
  <2>1. s \in Seq(Cell)
    BY <1>2
  <2>. QED
    BY <2>1, SeqFacts
<1> DEFINE Q == {k \in 0 .. n : Len(r[k]) <= Len(s)}
<1>5. 0 .. n \subseteq Q
  <2>1. 0 \in Q
    BY <1>2, <1>4
  <2>2. ASSUME NEW k \in 0 .. n - 1, k \in Q
        PROVE  k + 1 \in Q
    <3>1. PICK j : j = k + 1
      OBVIOUS
    <3>2. j \in 1 .. n /\ j - 1 = k /\ j \in 0 .. n
      BY <3>1
    <3>3. Len(r[k]) = Len(m[j]) + Len(r[j]) /\ Len(m[j]) \in Nat /\ Len(r[j]) \in Nat
      BY <1>3, <3>2
    <3>4. Len(r[k]) <= Len(s)
      BY <2>2
    <3>5. Len(r[j]) <= Len(s)
      <4>1. PICK a, b, c, d : a = Len(r[k]) /\ b = Len(m[j]) /\ c = Len(r[j]) /\ d = Len(s)
        OBVIOUS
      <4>2. a = b + c /\ b \in Nat /\ c \in Nat /\ d \in Nat /\ a <= d
        BY <1>4, <3>3, <3>4, <4>1
      <4>3. c <= d
        BY ONLY <4>2
      <4>. QED
        BY <4>1, <4>3
    <3>. QED
      BY <3>1, <3>2, <3>5
  <2> HIDE DEF Q
  <2>. QED
    BY <2>1, <2>2, AllUpTo
<1>6. ASSUME NEW k \in 1 .. n
      PROVE  Len(m[k]) <= Len(s)
  <2>1. PICK j : j = k - 1
    OBVIOUS
  <2>2. j \in 0 .. n
    BY <2>1
  <2>3. Len(r[j]) <= Len(s)
    BY <1>5, <2>2
  <2>4. /\ Len(r[j]) = Len(m[k]) + Len(r[k]) /\ Len(m[k]) \in Nat /\ Len(r[k]) \in Nat
        /\ Len(r[j]) \in Nat
    BY <1>3, <2>1
  <2>5. PICK a, b, c, d : a = Len(r[j]) /\ b = Len(m[k]) /\ c = Len(r[k]) /\ d = Len(s)
    OBVIOUS
  <2>6. a = b + c /\ b \in Nat /\ c \in Nat /\ d \in Nat /\ a <= d
    BY <1>4, <2>3, <2>4, <2>5
  <2>7. b <= d
    BY ONLY <2>6
  <2>. QED
    BY <2>5, <2>7
<1>. QED
  BY <1>2, <1>6

(* What the client prints of a response is the value that was written,     *)
(* whatever the value and its size.                                        *)
LEMMA PrintBack ==
  ASSUME NEW v \in Values, NEW data, data = ValueCells(v), Len(data) <= MaxMsg
  PROVE  print_response(data) = Read(Len(data) + 1, v)
<1>1. data \in Seq(Cell) /\ Len(data) \in Nat /\ MaxMsg \in Nat /\ Width \in Nat
  BY ValueLength, SeqFacts, ConstantsAssumption, CellsFacts
<1>2. PICK f : Prints(data, f) /\ print_response(data) = f[1]
  BY <1>1, PrintFacts
<1>3. CASE v \in Scalars /\ v.tag # TAG_ARR
  <2>1. data = ScalarCells(v)
    BY <1>3 DEF ValueCells
  <2>2. Reads(data, f, data, v)
    BY <1>2, <1>3, <2>1, ScalarReads
  <2>3. <<>> \in Seq(Cell) /\ data \o <<>> = data
    BY <1>1, EmptySeq, ConcatEmptySeq
  <2>4. Lies(data, 1, data \o <<>>)
    BY <1>1, <2>3, LiesAll
  <2>5. f[1] = Read(1 + Len(data), v)
    BY <2>2, <2>3, <2>4 DEF Reads
  <2>6. 1 + Len(data) = Len(data) + 1
    BY <1>1
  <2>. QED
    BY <1>2, <2>5, <2>6
<1>4. CASE v.tag = TAG_ARR /\ v.arr \in Seq(Scalars) /\ v = [tag |-> TAG_ARR, arr |-> v.arr]
  <2>1. PICK a, s, n, m, w, u : /\ a = <<TAG_ARR>> /\ s = v.arr /\ n = Len(s) /\ m = ScalarsCells(s)
                                /\ w = FlattenSeq(m) /\ u = U32(n)
    OBVIOUS
  <2>2. s \in Seq(Scalars) /\ n \in Nat
    BY <1>4, <2>1, SeqFacts
  <2>3. /\ m \in Seq(Seq(Cell)) /\ Len(m) = n /\ w = ArrayCells(s) /\ w \in Seq(Cell)
        /\ \A k \in 1 .. n : m[k] = ScalarCells(s[k]) /\ s[k] \in Scalars
    BY <2>1, <2>2, ScalarsType
  <2>4. data = a \o (u \o w)
    BY <1>4, <2>1, <2>3 DEF ValueCells
  <2>5. Chain(w, 1, n, m)
    BY <2>1, <2>3, ChainOfJoined
  <2>6. a \in Seq(Cell) /\ Len(a) = 1 /\ u \in Seq(Cell) /\ Len(u) = Width
    <3>1. n \in Int /\ u = U32(n)
      BY <2>1, <2>2
    <3>2. u \in Seq(Cell) /\ Len(u) = Width
      BY <3>1, NumbersType
    <3>3. a \in Seq(Cell) /\ Len(a) = 1
      BY <2>1, TagFacts
    <3>. QED
      BY <3>2, <3>3
  <2>7. PICK x, y : x = u \o w /\ y = <<>>
    OBVIOUS
  <2>8. x \in Seq(Cell) /\ y \in Seq(Cell) /\ Len(x) = Width + Len(w) /\ Len(w) \in Nat
    BY <2>3, <2>6, <2>7, TwoPieces, EmptySeq, SeqFacts
  <2>9. Len(data) = 1 + Len(x)
    <3>1. Len(a \o x) = Len(a) + Len(x)
      BY <2>6, <2>8, TwoPieces
    <3>. QED
      BY <2>4, <2>6, <2>7, <3>1
  <2>10. Len(w) <= MaxMsg
    BY <1>1, <2>8, <2>9
  <2>11. \A k \in 1 .. n : Len(m[k]) <= MaxMsg
    <3>1. ASSUME NEW k \in 1 .. n
          PROVE  Len(m[k]) <= MaxMsg
      <4>1. m[k] \in Seq(Cell) /\ Len(m[k]) <= Len(w)
        BY <2>2, <2>5, ChainBound
      <4>2. Len(m[k]) \in Nat
        BY <4>1, SeqFacts
      <4>. QED
        BY <1>1, <2>8, <2>10, <4>1, <4>2
    <3>. QED
      BY <3>1
  <2>12. \A k \in 1 .. n : Reads(data, f, m[k], s[k])
    BY <1>2, <2>3, <2>11, ScalarReads
  <2>13. n <= MaxMsg
    <3>1. \A k \in 1 .. n : Len(m[k]) > 0
      <4>1. ASSUME NEW k \in 1 .. n
            PROVE  Len(m[k]) > 0
        <5>1. s[k] \in Scalars /\ m[k] = ScalarCells(s[k])
          BY <2>3
        <5>. QED
          BY <5>1, ScalarLength
      <4>. QED
        BY <4>1
    <3>2. Len(w) >= n
      BY <2>1, <2>3, <3>1, JoinedLonger
    <3>. QED
      BY <1>1, <2>2, <2>8, <2>10, <3>2
  <2>14. Number(u) = n
    BY <2>1, <2>2, <2>13, U32Facts
  <2>15. Lies(data, 1, (a \o x) \o y)
    <3>1. data \o <<>> = data
      BY <1>1, ConcatEmptySeq
    <3>. QED
      BY <1>1, <2>4, <2>7, <3>1, LiesAll
  <2>16. TagBefore(data, 1, TAG_ARR, x, y)
    BY <2>1, <2>6, <2>8, <2>15, LiesTag
  <2>17. data[1] = TAG_ARR /\ Lies(data, 2, x)
    <3>1. x \o <<>> = x
      BY <2>8, ConcatEmptySeq
    <3>2. 1 + 1 = 2
      OBVIOUS
    <3>. QED
      BY <2>7, <2>16, <3>1, <3>2 DEF TagBefore
  <2>18. LiesBehind(data, 2, u, w, Width)
    BY <2>3, <2>6, <2>7, <2>17, LiesPiece
  <2>19. Lies(data, 2 + Width, w) /\ At(data, 2, Width) = u /\ 2 + Width <= Len(data) + 1
    BY <2>18 DEF LiesBehind
  <2>20. PICK i : i = 2 + Width
    OBVIOUS
  <2>21. Elements(i, n, f) = Read(Len(data) + 1, s)
    BY <2>1, <2>2, <2>5, <2>12, <2>19, <2>20, ElementsRead
  <2>22. ArrayAt(data, 1)
    BY <1>1, <2>17, <2>19 DEF ArrayAt
  <2>23. f[1] = PrintAt(data, 1, f)
    <3>1. 1 \in 1 .. Len(data) + 1
      BY <1>1
    <3>. QED
      BY <1>2, <3>1 DEF Prints
  <2>24. PrintAt(data, 1, f) = ArrayRead(Elements(i, n, f))
    <3>1. PrintAt(data, 1, f) = ArrayRead(Elements(1 + 1 + Width, Number(At(data, 1 + 1, Width)), f))
      BY <1>1, <2>22, PrintArrayAt
    <3>2. 1 + 1 = 2 /\ 1 + 1 + Width = i
      BY <1>1, <2>20
    <3>. QED
      BY <2>14, <2>19, <3>1, <3>2
  <2>25. ~(Len(data) + 1 = -1)
    BY <1>1
  <2>26. ArrayRead(Read(Len(data) + 1, s)) = Read(Len(data) + 1, [tag |-> TAG_ARR, arr |-> s])
    BY <2>25 DEF ArrayRead, Read, Fails
  <2>. QED
    BY <1>2, <1>4, <2>1, <2>21, <2>23, <2>24, <2>26
<1>. QED
  BY <1>3, <1>4, ValueCases

-----------------------------------------------------------------------------
(* The strings of a command, each as it is sent *)
StringsCells(cmd) == [i \in DOMAIN cmd |-> WithLength(cmd[i])]

LEMMA StringsType ==
  ASSUME NEW cmd \in Seq(Seq(Cell))
  PROVE  /\ StringsCells(cmd) \in Seq(Seq(Cell)) /\ Len(StringsCells(cmd)) = Len(cmd)
         /\ \A i \in 1 .. Len(cmd) : StringsCells(cmd)[i] = WithLength(cmd[i]) /\ cmd[i] \in Seq(Cell)
         /\ FlattenSeq(StringsCells(cmd)) \in Seq(Cell)
         /\ Payload(Command(cmd)) = U32(Len(cmd)) \o FlattenSeq(StringsCells(cmd))
<1> DEFINE F(i) == WithLength(cmd[i])
           n == Len(cmd)
           r == [i \in 1 .. n |-> F(i)]
<1>1. n \in Nat /\ DOMAIN cmd = 1 .. n /\ \A i \in 1 .. n : cmd[i] \in Seq(Cell)
  BY SeqFacts
<1>2. StringsCells(cmd) = r
  BY <1>1 DEF StringsCells
<1>3. ASSUME NEW i \in 1 .. n
      PROVE  F(i) \in Seq(Cell)
  BY <1>1, LengthType
<1>4. \A i \in 1 .. n : r[i] = F(i)
  OBVIOUS
<1>5. Payload(Command(cmd)) = U32(Len(cmd)) \o FlattenSeq(StringsCells(cmd))
  <2>1. Command(cmd).cmd = cmd /\ ~("raw" \in DOMAIN Command(cmd))
    BY DEF Command
  <2>. QED
    BY <2>1 DEF Payload, StringsCells
<1> HIDE DEF F
<1>6. r \in Seq(Seq(Cell))
  BY <1>1, <1>3, IsASeq
<1>7. Len(r) = n
  BY <1>1
<1> HIDE DEF r
<1>8. FlattenSeq(r) \in Seq(Cell)
  BY <1>6, FlattenType
<1>. QED
  BY <1>1, <1>2, <1>4, <1>5, <1>6, <1>7, <1>8 DEF F

(* What is sent for a request is cells, malformed or not. *)
LEMMA PayloadType ==
  ASSUME NEW r \in Requests
  PROVE  Payload(r) \in Seq(Cell)
<1>1. CASE \E data \in Malformed : r = Raw(data)
  <2>1. PICK data \in Malformed : r = Raw(data)
    BY <1>1
  <2>2. Payload(r) = data
    BY <2>1 DEF Payload, Raw
  <2>. QED
    BY <2>2, TypesAssumption
<1>2. CASE \E cmd \in Commands : r = Command(cmd)
  <2>1. PICK cmd \in Commands : r = Command(cmd)
    BY <1>2
  <2>2. cmd \in Seq(Seq(Cell))
    BY TypesAssumption
  <2>3. PICK n, u, w : n = Len(cmd) /\ u = U32(n) /\ w = FlattenSeq(StringsCells(cmd))
    OBVIOUS
  <2>4. w \in Seq(Cell) /\ Payload(r) = u \o w
    BY <2>1, <2>2, <2>3, StringsType
  <2>5. n \in Int
    BY <2>2, <2>3, SeqFacts
  <2>6. u \in Seq(Cell)
    BY <2>3, <2>5, NumbersType
  <2>. QED
    BY <2>4, <2>6, TwoPieces
<1>. QED
  BY <1>1, <1>2 DEF Requests

(* Every string that is there, where it is *)
StringsIn(data) ==
  [i \in 1 .. Len(data) + 1 |->
     IF HasString(data, i) THEN Read(AfterString(data, i), StringAt(data, i)) ELSE Unreadable]

LEMMA StringReads ==
  ASSUME NEW data, NEW s \in Seq(Cell), Len(s) <= MaxMsg
  PROVE  Reads(data, StringsIn(data), WithLength(s), s)
<1>1. SUFFICES ASSUME NEW i, NEW y \in Seq(Cell), Lies(data, i, WithLength(s) \o y)
               PROVE  StringsIn(data)[i] = Read(i + Len(WithLength(s)), s)
  BY DEF Reads
<1>2. i \in 1 .. Len(data) + 1
  BY <1>1 DEF Lies
<1>3. PICK e : e = i + Width + Len(s)
  OBVIOUS
<1>4. LiesString(data, i, s, y, e)
  BY <1>1, <1>3, ReadString
<1>5. StringsIn(data)[i] = Read(e, s)
  BY <1>2, <1>4 DEF LiesString, StringsIn
<1>6. e = i + Len(WithLength(s))
  <2>1. i \in Nat /\ Len(s) \in Nat /\ Width \in Nat
    BY <1>1, LiesLength, SeqFacts, CellsFacts
  <2>2. Len(WithLength(s)) = Width + Len(s)
    BY LengthType
  <2>3. PICK n : n = Len(s)
    OBVIOUS
  <2>4. i + Width + n = i + (Width + n)
    BY <2>1, <2>3
  <2>. QED
    BY <1>3, <2>2, <2>3, <2>4
<1>. QED
  BY <1>5, <1>6

(* A command that is sent is parsed as it was, unless it has too many      *)
(* strings.                                                                *)
LEMMA ParseBack ==
  ASSUME NEW cmd \in Commands, NEW data, data = Payload(Command(cmd)), Len(data) <= MaxMsg
  PROVE  /\ Len(cmd) <= MaxArgs => parse_req(data) = Read(Len(data) + 1, cmd)
         /\ ~(Len(cmd) <= MaxArgs) => Fails(parse_req(data))
<1>1. PICK n, m, u, w : n = Len(cmd) /\ m = StringsCells(cmd) /\ u = U32(n) /\ w = FlattenSeq(m)
  OBVIOUS
<1>2. cmd \in Seq(Seq(Cell)) /\ Width \in Nat /\ MaxMsg \in Nat /\ MaxArgs \in Nat
  BY TypesAssumption, ConstantsAssumption, CellsFacts
<1>3. n \in Nat
  BY <1>1, <1>2, SeqFacts
<1>4. /\ m \in Seq(Seq(Cell)) /\ Len(m) = n /\ w \in Seq(Cell) /\ data = u \o w
      /\ \A i \in 1 .. n : m[i] = WithLength(cmd[i]) /\ cmd[i] \in Seq(Cell)
  BY <1>1, <1>2, StringsType
<1>5. u \in Seq(Cell) /\ Len(u) = Width
  <2>1. n \in Int /\ u = U32(n)
    BY <1>1, <1>3
  <2>. QED
    BY <2>1, NumbersType
<1>6. data \in Seq(Cell) /\ Len(data) = Width + Len(w) /\ Len(w) \in Nat /\ Len(w) <= MaxMsg
  <2>1. data \in Seq(Cell) /\ Len(data) = Len(u) + Len(w)
    BY <1>4, <1>5, TwoPieces
  <2>2. Len(w) \in Nat
    BY <1>4, SeqFacts
  <2>. QED
    BY <1>2, <1>5, <2>1, <2>2
<1>7. Chain(w, 1, n, m)
  BY <1>1, <1>4, ChainOfJoined
<1>8. \A i \in 1 .. n : Len(m[i]) = Width + Len(cmd[i]) /\ Len(cmd[i]) \in Nat
  BY <1>4, LengthType, SeqFacts
<1>9. n <= MaxMsg
  <2>1. \A i \in 1 .. n : Len(m[i]) > 0
    BY <1>8, CellsFacts
  <2>2. Len(w) >= n
    BY <1>1, <1>4, <2>1, JoinedLonger
  <2>. QED
    BY <1>2, <1>3, <1>6, <2>2
<1>10. Number(u) = n
  BY <1>1, <1>3, <1>9, U32Facts
<1>11. Take(data, Width) = u
  BY <1>4, <1>5, SplitTwo
<1>12. Number(Take(data, Width)) = n /\ ~(Len(data) < Width)
  BY <1>2, <1>6, <1>10, <1>11
<1>13. Strings(data) = IF n > MaxArgs THEN Unreadable ELSE Elements(1 + Width, n, StringsIn(data))
  BY <1>12 DEF Strings, StringsIn
<1>14. Len(data) + 1 # -1 /\ Len(data) \in Nat
  BY <1>2, <1>6
<1>15. ASSUME n <= MaxArgs
       PROVE  parse_req(data) = Read(Len(data) + 1, cmd)
  <2>1. PICK i : i = 1 + Width
    OBVIOUS
  <2>2. Lies(data, i, w)
    <3>1. Lies(data, 1, u \o w)
      BY <1>4, <1>6, LiesAll
    <3>2. LiesBehind(data, 1, u, w, Width)
      BY <1>4, <1>5, <3>1, LiesPiece
    <3>. QED
      BY <2>1, <3>2 DEF LiesBehind
  <2>3. ASSUME NEW k \in 1 .. n
        PROVE  Reads(data, StringsIn(data), m[k], cmd[k])
    <3>1. m[k] \in Seq(Cell) /\ Len(m[k]) <= Len(w)
      BY <1>3, <1>7, ChainBound
    <3>2. Len(m[k]) = Width + Len(cmd[k]) /\ Len(cmd[k]) \in Nat
      BY <1>8
    <3>3. Len(cmd[k]) <= MaxMsg
      <4>1. PICK a, b, c : a = Len(m[k]) /\ b = Len(cmd[k]) /\ c = Len(w)
        OBVIOUS
      <4>2. a <= c /\ a = Width + b /\ b \in Nat /\ c \in Nat /\ c <= MaxMsg
        BY <1>6, <3>1, <3>2, <4>1
      <4>3. b <= MaxMsg
        BY ONLY <1>2, <4>2
      <4>. QED
        BY <4>1, <4>3
    <3>4. cmd[k] \in Seq(Cell) /\ m[k] = WithLength(cmd[k])
      BY <1>4
    <3>. QED
      BY <3>3, <3>4, StringReads
  <2>4. Elements(i, n, StringsIn(data)) = Read(Len(data) + 1, cmd)
    BY <1>1, <1>2, <1>7, <2>2, <2>3, ElementsRead
  <2>5. Strings(data) = Read(Len(data) + 1, cmd)
    BY <1>2, <1>3, <1>13, <1>15, <2>1, <2>4
  <2>. QED
    BY <2>5 DEF parse_req, Read
<1>16. ASSUME ~(n <= MaxArgs)
       PROVE  Fails(parse_req(data))
  <2>1. Strings(data) = Unreadable
    BY <1>2, <1>3, <1>13, <1>16
  <2>. QED
    BY <1>14, <2>1 DEF parse_req, Fails, Unreadable
<1>. QED
  BY <1>1, <1>15, <1>16

-----------------------------------------------------------------------------
(* The stream of requests: whole messages, none longer than k_max_msg.     *)
LengthAt(s, p) == Number(Take(Skip(s, p), Width))

Frames(s, P) ==
  /\ P \subseteq 0 .. Len(s) /\ 0 \in P /\ Len(s) \in P
  /\ \A p \in P : p < Len(s) =>
       /\ p + Width <= Len(s) /\ LengthAt(s, p) \in 0 .. MaxMsg
       /\ p + Width + LengthAt(s, p) \in P

Framed(s) == \E P : Frames(s, P)

(* Nothing is no message, *)
LEMMA FramedEmpty == Framed(<<>>)
<1>1. Len(<<>>) = 0
  BY EmptySeq
<1>2. Frames(<<>>, {0})
  BY <1>1 DEF Frames
<1>. QED
  BY <1>2 DEF Framed

(* a stream of them begins with a length that is not too long, *)
LEMMA FramedFirst ==
  ASSUME NEW s \in Seq(Cell), Framed(s), Len(s) > 0
  PROVE  Width <= Len(s) /\ Number(Take(s, Width)) \in 0 .. MaxMsg
<1>1. PICK P : Frames(s, P)
  BY DEF Framed
<1>2. 0 \in P /\ 0 < Len(s) /\ Len(s) \in Nat
  BY <1>1, SeqFacts DEF Frames
<1>3. 0 + Width <= Len(s) /\ LengthAt(s, 0) \in 0 .. MaxMsg
  BY <1>1, <1>2 DEF Frames
<1>4. Skip(s, 0) = s
  <2>1. 0 + 1 = 1
    OBVIOUS
  <2>. QED
    BY <2>1, SubSeqFull DEF Skip
<1>. QED
  BY <1>3, <1>4, CellsFacts DEF LengthAt

(* is still whole messages without its first one, *)
LEMMA FramedDrop ==
  ASSUME NEW s \in Seq(Cell), Framed(s), Len(s) > 0,
         NEW k, k = Width + Number(Take(s, Width))
  PROVE  k \in 0 .. Len(s) /\ Framed(Skip(s, k))
<1>1. PICK P : Frames(s, P)
  BY DEF Framed
<1>2. 0 \in P /\ 0 < Len(s) /\ Len(s) \in Nat /\ P \subseteq 0 .. Len(s)
  BY <1>1, SeqFacts DEF Frames
<1>3. Number(Take(s, Width)) \in Nat /\ Width \in Nat
  BY FramedFirst, CellsFacts
<1>4. Skip(s, 0) = s
  <2>1. 0 + 1 = 1
    OBVIOUS
  <2>. QED
    BY <2>1, SubSeqFull DEF Skip
<1>5. k \in P
  <2>1. 0 + Width + LengthAt(s, 0) \in P
    BY <1>1, <1>2 DEF Frames
  <2>2. 0 + Width + LengthAt(s, 0) = k
    BY <1>3, <1>4 DEF LengthAt
  <2>. QED
    BY <2>1, <2>2
<1>6. k \in 0 .. Len(s)
  BY <1>2, <1>5
<1> DEFINE t == Skip(s, k)
           R == {p \in 0 .. Len(s) - k : p + k \in P}
<1>7. t \in Seq(Cell) /\ Len(t) = Len(s) - k
  BY <1>6, SkipFacts
<1> HIDE DEF t
<1>8. Frames(t, R)
  <2>1. R \subseteq 0 .. Len(t)
    BY <1>7
  <2>2. 0 \in R
    BY <1>2, <1>5, <1>6
  <2>3. Len(t) \in R
    <3>1. Len(t) + k = Len(s) /\ Len(t) \in 0 .. Len(s) - k
      BY <1>2, <1>6, <1>7
    <3>2. Len(s) \in P
      BY <1>1 DEF Frames
    <3>. QED
      BY <3>1, <3>2
  <2>4. ASSUME NEW p \in R, p < Len(t)
        PROVE  /\ p + Width <= Len(t) /\ LengthAt(t, p) \in 0 .. MaxMsg
               /\ p + Width + LengthAt(t, p) \in R
    <3>1. PICK q : q = k + p
      OBVIOUS
    <3>2. q \in P /\ q < Len(s) /\ p \in 0 .. Len(s) - k /\ p \in Nat
      BY <1>2, <1>6, <1>7, <2>4, <3>1
    <3>3. Skip(t, p) = Skip(s, q)
      BY <1>6, <3>1, <3>2, SkipTwice DEF t
    <3>4. q + Width <= Len(s) /\ LengthAt(s, q) \in 0 .. MaxMsg /\ q + Width + LengthAt(s, q) \in P
      BY <1>1, <3>2 DEF Frames
    <3>5. LengthAt(t, p) = LengthAt(s, q)
      BY <3>3 DEF LengthAt
    <3>6. PICK n : n = LengthAt(s, q)
      OBVIOUS
    <3>7. n \in Nat
      BY <3>4, <3>6
    <3>8. /\ p + Width <= Len(t) /\ q + Width + n = (p + Width + n) + k
          /\ p + Width + n \in 0 .. Len(s) - k
      <4>1. q + Width + n \in 0 .. Len(s)
        BY <1>2, <3>4, <3>6
      <4>2. PICK x, y : x = Len(s) /\ y = Len(t)
        OBVIOUS
      <4>3. /\ x \in Nat /\ k \in 0 .. x /\ y = x - k /\ Width \in Nat /\ n \in Nat
            /\ q = k + p /\ p \in 0 .. x - k /\ q + Width <= x /\ q + Width + n \in 0 .. x
        BY <1>2, <1>3, <1>6, <1>7, <3>1, <3>2, <3>4, <3>7, <4>1, <4>2
      <4>4. /\ p + Width <= y /\ q + Width + n = (p + Width + n) + k
            /\ p + Width + n \in 0 .. x - k
        BY ONLY <4>3
      <4>. QED
        BY <4>2, <4>4
    <3>. QED
      BY <3>4, <3>5, <3>6, <3>8
  <2>. QED
    BY <2>1, <2>2, <2>3, <2>4 DEF Frames
<1>. QED
  BY <1>6, <1>8 DEF Framed, t

(* and with one more at its end. *)
LEMMA FramedMore ==
  ASSUME NEW s \in Seq(Cell), Framed(s), NEW x \in Seq(Cell), Len(x) <= MaxMsg
  PROVE  Framed(s \o WithLength(x))
<1> DEFINE t == WithLength(x)
           u == s \o t
<1>1. t \in Seq(Cell) /\ Len(t) = Width + Len(x) /\ Number(Take(t, Width)) = Len(x)
  BY LengthFacts
<1> HIDE DEF t
<1>2. u \in Seq(Cell) /\ Len(u) = Len(s) + Len(t)
  BY <1>1, TwoPieces
<1>3. Len(s) \in Nat /\ Len(x) \in Nat /\ Width \in Nat /\ Width > 0 /\ Len(t) \in Nat /\ MaxMsg \in Nat
  BY <1>1, SeqFacts, CellsFacts, ConstantsAssumption
<1>4. PICK P : Frames(s, P)
  BY DEF Framed
<1>5. P \subseteq 0 .. Len(s) /\ 0 \in P
  BY <1>4 DEF Frames
<1> HIDE DEF u
<1> DEFINE R == P \cup {Len(s) + Len(t)}
<1> HIDE DEF R
<1>6. R \subseteq 0 .. Len(u) /\ 0 \in R /\ Len(u) \in R
  <2>1. PICK n, y, z : n = Len(s) /\ y = Len(t) /\ z = Len(u)
    OBVIOUS
  <2>2. /\ n \in Nat /\ y \in Nat /\ z = n + y /\ P \subseteq 0 .. n /\ 0 \in P
        /\ R = P \cup {z}
    BY <1>2, <1>3, <1>5, <2>1 DEF R
  <2>3. P \cup {z} \subseteq 0 .. z /\ 0 \in P \cup {z} /\ z \in P \cup {z}
    <3>1. z \in 0 .. z /\ \A p \in 0 .. n : p \in 0 .. z
      BY ONLY <2>2
    <3>. QED
      BY <1>5, <2>1, <3>1
  <2>. QED
    BY ONLY <2>1, <2>2, <2>3
<1>7. ASSUME NEW p \in R, p < Len(u)
      PROVE  /\ p + Width <= Len(u) /\ LengthAt(u, p) \in 0 .. MaxMsg
             /\ p + Width + LengthAt(u, p) \in R
  <2>1. p \in P /\ p \in 0 .. Len(s)
    BY <1>2, <1>3, <1>5, <1>7 DEF R
  <2>2. Skip(u, p) = Skip(s, p) \o t
    BY <1>1, <2>1, SkipOfTwo DEF u
  <2>3. Skip(s, p) \in Seq(Cell) /\ Len(Skip(s, p)) = Len(s) - p
    BY <2>1, SkipFacts
  <2>4. CASE p < Len(s)
    <3>1. p + Width <= Len(s) /\ LengthAt(s, p) \in 0 .. MaxMsg /\ p + Width + LengthAt(s, p) \in P
      BY <1>4, <2>1, <2>4 DEF Frames
    <3>2. Width \in 0 .. Len(Skip(s, p))
      BY <1>3, <2>1, <2>3, <3>1
    <3>3. Take(Skip(s, p) \o t, Width) = Take(Skip(s, p), Width)
      BY <1>1, <2>3, <3>2, TakeOfTwo
    <3>4. LengthAt(u, p) = LengthAt(s, p)
      BY <2>2, <3>3 DEF LengthAt
    <3>. QED
      BY <1>2, <1>3, <2>1, <3>1, <3>4 DEF R
  <2>5. CASE p = Len(s)
    <3>1. Len(Skip(s, p)) = 0
      BY <1>3, <2>3, <2>5
    <3>2. Skip(s, p) = <<>>
      BY <2>3, <3>1, EmptySeq
    <3>3. Skip(u, p) = t
      BY <1>1, <2>2, <3>2, ConcatEmptySeq
    <3>4. LengthAt(u, p) = Len(x)
      BY <1>1, <3>3 DEF LengthAt
    <3>. QED
      BY <1>1, <1>2, <1>3, <2>5, <3>4 DEF R
  <2>. QED
    BY <1>3, <2>1, <2>4, <2>5
<1>8. Frames(u, R)
  <2>. QED
    BY <1>6, <1>7 DEF Frames
<1>. QED
  BY <1>8 DEF Framed, t, u

-----------------------------------------------------------------------------
(* The invariant.  A buffer between two calls has no position to fill in,  *)
(* and is at its start when there is nothing to read.                      *)
Kept(b) ==
  /\ Sound(b) /\ b.placeholder_stack = <<>>
  /\ readable_size(b) = 0 => b.readable_begin = 0 /\ b.buf = <<>>

MostRead == Width + MaxMsg + ReadMax

(* The connection: what handle_read() leaves in the incoming buffer is     *)
(* less than a whole message, and so little, once its loop has ended.      *)
ServerOK(in, out, closing, srv) ==
  /\ Kept(in) /\ Kept(out)
  /\ closing \in BOOLEAN
  /\ srv \in {"wait", "parse", "flush", "close", "closed"}
  /\ srv = "wait" => ~closing
  /\ in.capacity >= HardMin /\ in.capacity <= Larger(HardMin, 2 * MostRead)
  /\ srv \in {"wait", "flush"} =>
       /\ readable_size(in) = 0 => in.capacity = HardMin
       /\ ~closing => readable_size(in) < Width + MaxMsg
  /\ srv \in {"wait", "parse"} => (readable_size(out) = 0 => out.capacity <= WorthIt)

SaidOK(sd) == \E S : sd \in Seq(S) /\ \A x \in S : x.val \in Answers

ClientOK(cl, wb, rb, ask, hd) ==
  /\ cl \in {"idle", "sending", "reading", "done", "failed"}
  /\ wb \in Seq(Cell) /\ rb \in Seq(Cell)
  /\ cl # "sending" => wb = <<>>
  /\ ask \in Seq(Requests) /\ (\E S : hd \in Seq(S)) /\ Len(hd) <= Len(ask)
  /\ cl = "reading" => Len(hd) < Len(ask)

PipeOK(pp, cs, sc) ==
  /\ pp \in Pipes /\ cs \in Seq(Cell) /\ sc \in Seq(Cell)
  /\ Len(cs) <= pp.room /\ Len(sc) <= pp.room

(* All that the client has sent and the server has not taken is whole      *)
(* messages, wherever it is, as long as the connection may read.           *)
StreamOK(in, closing, srv, cs, wb) ==
  srv \in {"wait", "parse", "flush"} /\ ~closing => Framed((readable_data(in) \o cs) \o wb)

PInv ==
  /\ ServerOK(incoming, outgoing, want_close, server)
  /\ SaidOK(said)
  /\ ClientOK(client, wbuf, rbuf, asked, heard)
  /\ PipeOK(pipe, c2s, s2c)
  /\ StreamOK(incoming, want_close, server, c2s, wbuf)

(* The bounds are numbers, in their order. *)
LEMMA BoundFacts ==
  /\ MaxMsg \in Nat /\ MaxMsg > 0 /\ HardMin \in Nat /\ HardMin > 0 /\ WorthIt \in Nat
  /\ HardMin < WorthIt /\ ReadMax \in Nat /\ ReadMax > 0 /\ MaxReqs \in Nat
  /\ Width \in Nat /\ Width > 0 /\ MostRead \in Nat
<1>1. /\ MaxMsg \in Nat \ {0} /\ HardMin \in Nat \ {0} /\ WorthIt \in Nat \ {0}
      /\ ReadMax \in Nat \ {0} /\ MaxReqs \in Nat \ {0} /\ HardMin < WorthIt
  BY ConstantsAssumption
<1>. QED
  BY <1>1, CellsFacts DEF MostRead

(* A buffer as its constructor leaves it. *)
LEMMA NewBufferKept ==
  ASSUME NEW cap \in Nat
  PROVE  /\ Kept(NewBuffer(cap)) /\ NewBuffer(cap).capacity = cap
         /\ readable_size(NewBuffer(cap)) = 0 /\ readable_data(NewBuffer(cap)) = <<>>
<1> DEFINE b == NewBuffer(cap)
<1>1. <<>> \in Seq(Cell) /\ <<>> \in Seq(Nat) /\ Len(<<>>) = 0
  BY EmptySeq
<1>2. b = [buf |-> <<>>, readable_begin |-> 0, capacity |-> cap, placeholder_stack |-> <<>>]
  BY DEF NewBuffer
<1> HIDE DEF b
<1>3. /\ b \in Buffers /\ b.buf = <<>> /\ b.readable_begin = 0 /\ b.capacity = cap
      /\ b.placeholder_stack = <<>>
  BY <1>1, <1>2 DEF Buffers
<1>4. writable_begin(b) = 0
  BY <1>1, <1>3 DEF writable_begin
<1>5. Sound(b) /\ readable_size(b) = 0
  BY <1>3, <1>4 DEF Sound, readable_size
<1>6. readable_data(b) = <<>>
  <2>1. readable_data(b) = SubSeq(<<>>, 1, 0)
    BY <1>3, <1>4 DEF readable_data
  <2>. QED
    BY <2>1, SubSeqEmpty
<1>7. Kept(b)
  BY <1>3, <1>5 DEF Kept
<1>. QED
  BY <1>3, <1>5, <1>6, <1>7 DEF b

(* The two ends before anything is sent. *)
LEMMA PInit == Init => PInv
<1> SUFFICES ASSUME Init PROVE PInv
  OBVIOUS
<1>1. HardMin \in Nat /\ HardMin > 0 /\ WorthIt \in Nat /\ HardMin < WorthIt /\ MostRead \in Nat
  BY BoundFacts
<1>2. /\ Kept(incoming) /\ incoming.capacity = HardMin /\ readable_size(incoming) = 0
      /\ readable_data(incoming) = <<>>
      /\ Kept(outgoing) /\ outgoing.capacity = HardMin /\ readable_size(outgoing) = 0
  BY <1>1, NewBufferKept DEF Init
<1>3. ServerOK(incoming, outgoing, want_close, server)
  <2>1. HardMin <= Larger(HardMin, 2 * MostRead) /\ 0 < Width + MaxMsg /\ HardMin >= HardMin /\ HardMin <= WorthIt
    BY <1>1, BoundFacts DEF Larger
  <2>2. want_close = FALSE /\ server = "wait"
    BY DEF Init
  <2>. QED
    BY ONLY <1>2, <2>1, <2>2 DEF ServerOK
<1>4. <<>> \in Seq(Cell) /\ <<>> \in Seq(Requests) /\ <<>> \in Seq({}) /\ Len(<<>>) = 0
  BY EmptySeq
<1>5. SaidOK(said)
  BY <1>4 DEF Init, SaidOK
<1>6. ClientOK(client, wbuf, rbuf, asked, heard)
  BY <1>4 DEF Init, ClientOK
<1>7. PipeOK(pipe, c2s, s2c)
  <2>1. pipe \in Pipes /\ pipe.room \in Nat \ {0}
    BY ConstantsAssumption DEF Init
  <2>. QED
    BY <1>4, <2>1 DEF Init, PipeOK
<1>8. StreamOK(incoming, want_close, server, c2s, wbuf)
  <2>1. (readable_data(incoming) \o c2s) \o wbuf = <<>>
    BY <1>2, <1>4, ConcatEmptySeq DEF Init
  <2>. QED
    BY <2>1, FramedEmpty DEF StreamOK
<1>. QED
  BY <1>3, <1>5, <1>6, <1>7, <1>8 DEF PInv

(* The invariant says at least what is claimed of the buffers. *)
LEMMA PTypes ==
  ASSUME PInv
  PROVE  BuffersSound
<1>1. /\ ServerOK(incoming, outgoing, want_close, server) /\ SaidOK(said)
      /\ ClientOK(client, wbuf, rbuf, asked, heard) /\ PipeOK(pipe, c2s, s2c)
  BY DEF PInv
<1>2. ASSUME NEW b, Kept(b)
      PROVE  IsBuffer(b)
  <2>1. Sound(b) /\ b.placeholder_stack = <<>>
    BY <1>2 DEF Kept
  <2>2. /\ writable_begin(b) \in Nat /\ b.readable_begin \in Nat /\ b.buf \in Seq(Cell)
        /\ readable_size(b) = writable_begin(b) - b.readable_begin /\ readable_size(b) \in Nat
        /\ writable_begin(b) <= b.capacity
    BY <2>1, SoundFacts DEF Sound
  <2>3. b.readable_begin < writable_begin(b) \/ (b.readable_begin = 0 /\ b.buf = <<>>)
    <3>1. CASE readable_size(b) = 0
      BY <1>2, <3>1 DEF Kept
    <3>2. CASE readable_size(b) # 0
      BY <2>2, <3>2
    <3>. QED
      BY <3>1, <3>2
  <2>. QED
    BY <2>1, <2>2, <2>3 DEF IsBuffer
<1>3. \A i \in DOMAIN said : said[i].val \in Answers
  <2>1. PICK S : said \in Seq(S) /\ \A x \in S : x.val \in Answers
    BY <1>1 DEF SaidOK
  <2>. QED
    BY <2>1, SeqFacts
<1>4. TypeOK
  BY <1>1, <1>2, <1>3 DEF TypeOK, ServerOK, ClientOK, PipeOK
<1>. QED
  BY <1>1, <1>4 DEF BuffersSound, ServerOK, MostRead

-----------------------------------------------------------------------------
(* The steps of the client. *)
LEMMA PClientParts ==
  ASSUME PInv, UNCHANGED serverVars,
         ClientOK(client', wbuf', rbuf', asked', heard'), PipeOK(pipe', c2s', s2c'),
         StreamOK(incoming, want_close, server, c2s', wbuf')
  PROVE  PInv'
BY DEF PInv, serverVars

(* The client writes a whole message, none longer than k_max_msg. *)
LEMMA PSendReq ==
  ASSUME PInv, NEW r \in Requests, send_req(r)
  PROVE  PInv'
<1>1. /\ ClientOK(client, wbuf, rbuf, asked, heard) /\ PipeOK(pipe, c2s, s2c)
      /\ StreamOK(incoming, want_close, server, c2s, wbuf)
      /\ ServerOK(incoming, outgoing, want_close, server)
  BY DEF PInv
<1>2. /\ client = "idle" /\ asked' = Append(asked, r)
      /\ UNCHANGED serverVars /\ UNCHANGED <<rbuf, heard, pipe, c2s, s2c>>
  BY DEF send_req
<1>3. Payload(r) \in Seq(Cell) /\ Len(Payload(r)) \in Nat /\ MaxMsg \in Nat
  BY PayloadType, SeqFacts, BoundFacts
<1>4. /\ asked' \in Seq(Requests) /\ Len(asked') = Len(asked) + 1 /\ Len(asked) \in Nat
      /\ Len(heard) \in Nat /\ Len(heard) <= Len(asked')
  <2>1. asked \in Seq(Requests) /\ Len(heard) <= Len(asked)
    BY <1>1 DEF ClientOK
  <2>2. Len(heard) \in Nat
    BY <1>1, SeqFacts DEF ClientOK
  <2>3. Len(asked) \in Nat /\ Append(asked, r) \in Seq(Requests) /\ Len(Append(asked, r)) = Len(asked) + 1
    BY <2>1
  <2>. QED
    BY <1>2, <2>1, <2>2, <2>3
<1>5. wbuf = <<>>
  BY <1>1, <1>2 DEF ClientOK
<1>6. CASE Len(Payload(r)) > MaxMsg
  <2>1. client' = "failed" /\ wbuf' = wbuf
    BY <1>6 DEF send_req
  <2>2. ClientOK(client', wbuf', rbuf', asked', heard')
    BY <1>1, <1>2, <1>4, <1>5, <2>1 DEF ClientOK
  <2>. QED
    BY <1>1, <1>2, <2>1, <2>2, PClientParts
<1>7. CASE ~(Len(Payload(r)) > MaxMsg)
  <2>1. client' = "sending" /\ wbuf' = WithLength(Payload(r))
    BY <1>7 DEF send_req
  <2>2. Len(Payload(r)) <= MaxMsg
    BY <1>3, <1>7
  <2>3. WithLength(Payload(r)) \in Seq(Cell)
    BY <1>3, <2>2, LengthFacts
  <2>4. ClientOK(client', wbuf', rbuf', asked', heard')
    BY <1>1, <1>2, <1>4, <2>1, <2>3 DEF ClientOK
  <2>5. StreamOK(incoming, want_close, server, c2s', wbuf')
    <3>1. readable_data(incoming) \in Seq(Cell) /\ c2s \in Seq(Cell)
      BY <1>1, SoundFacts DEF ServerOK, Kept, PipeOK
    <3> DEFINE t == readable_data(incoming) \o c2s
    <3>2. t \in Seq(Cell)
      BY <3>1, TwoPieces
    <3>3. t \o wbuf = t
      BY <1>5, <3>2, ConcatEmptySeq
    <3>4. ASSUME Framed(t)
          PROVE  Framed(t \o WithLength(Payload(r)))
      <4> HIDE DEF t
      <4>. QED
        BY <1>3, <2>2, <3>2, <3>4, FramedMore
    <3>. QED
      BY <1>1, <1>2, <2>1, <3>3, <3>4 DEF StreamOK
  <2>. QED
    BY <1>1, <1>2, <2>4, <2>5, PClientParts
<1>. QED
  BY <1>6, <1>7

(* Cells that go on to the next part of a stream leave it as it is. *)
LEMMA MovedOn ==
  ASSUME NEW t \in Seq(Cell), NEW x \in Seq(Cell), NEW n \in 0 .. Len(x)
  PROVE  (t \o Take(x, n)) \o Skip(x, n) = t \o x
<1> DEFINE d == Take(x, n)
           e == Skip(x, n)
<1>1. d \in Seq(Cell) /\ e \in Seq(Cell) /\ d \o e = x
  BY TakeFacts, SkipFacts, TakeThenSkip
<1> HIDE DEF d, e
<1>2. (t \o d) \o e = t \o (d \o e)
  BY <1>1, InARow
<1>. QED
  BY <1>1, <1>2 DEF d, e

Moved(t, y, x, n) == (t \o (y \o Take(x, n))) \o Skip(x, n) = (t \o y) \o x

LEMMA MovedOver ==
  ASSUME NEW t \in Seq(Cell), NEW y \in Seq(Cell), NEW x \in Seq(Cell), NEW n \in 0 .. Len(x)
  PROVE  Moved(t, y, x, n)
<1> DEFINE d == Take(x, n)
           e == Skip(x, n)
           u == t \o y
<1>1. d \in Seq(Cell) /\ u \in Seq(Cell)
  BY TakeFacts, TwoPieces
<1>2. (u \o d) \o e = u \o x
  BY <1>1, MovedOn
<1> HIDE DEF d, e
<1>3. (t \o y) \o d = t \o (y \o d)
  BY <1>1, InARow
<1>. QED
  BY <1>2, <1>3 DEF d, e, Moved

(* What write() accepts leaves the client for the socket; the stream is    *)
(* the same.                                                               *)
LEMMA PWriteAll ==
  ASSUME PInv, write_all
  PROVE  PInv'
<1>1. /\ ClientOK(client, wbuf, rbuf, asked, heard) /\ PipeOK(pipe, c2s, s2c)
      /\ StreamOK(incoming, want_close, server, c2s, wbuf)
      /\ ServerOK(incoming, outgoing, want_close, server)
  BY DEF PInv
<1>2. /\ client = "sending" /\ UNCHANGED serverVars /\ UNCHANGED <<rbuf, asked, heard, pipe>>
  BY DEF write_all
<1>3. /\ wbuf \in Seq(Cell) /\ c2s \in Seq(Cell) /\ s2c \in Seq(Cell) /\ pipe \in Pipes
      /\ Len(c2s) <= pipe.room /\ Len(s2c) <= pipe.room
      /\ Len(wbuf) \in Nat /\ Len(c2s) \in Nat /\ pipe.room \in Nat
  <2>1. /\ wbuf \in Seq(Cell) /\ c2s \in Seq(Cell) /\ s2c \in Seq(Cell) /\ pipe \in Pipes
        /\ Len(c2s) <= pipe.room /\ Len(s2c) <= pipe.room
    BY <1>1 DEF ClientOK, PipeOK
  <2>2. pipe.room \in Nat
    BY <2>1, ConstantsAssumption
  <2>. QED
    BY <2>1, <2>2, SeqFacts
<1> DEFINE n == Smaller(Len(wbuf), pipe.room - Len(c2s))
<1>4. CASE /\ server # "closed" /\ n > 0
           /\ c2s' = c2s \o Take(wbuf, n)
           /\ wbuf' = Skip(wbuf, n)
           /\ client' = IF n = Len(wbuf) THEN "idle" ELSE "sending"
           /\ UNCHANGED s2c
  <2>1. n \in 0 .. Len(wbuf) /\ n + Len(c2s) <= pipe.room /\ n \in Nat
    BY <1>3, <1>4 DEF Smaller
  <2> HIDE DEF n
  <2>2. Take(wbuf, n) \in Seq(Cell) /\ Len(Take(wbuf, n)) = n
    BY <1>3, <2>1, TakeFacts
  <2>3. Skip(wbuf, n) \in Seq(Cell) /\ Len(Skip(wbuf, n)) = Len(wbuf) - n
    BY <1>3, <2>1, SkipFacts
  <2>4. c2s' \in Seq(Cell) /\ Len(c2s') <= pipe'.room
    <3>1. c2s \o Take(wbuf, n) \in Seq(Cell) /\ Len(c2s \o Take(wbuf, n)) = Len(c2s) + n
      BY <1>3, <2>2, TwoPieces
    <3>. QED
      BY <1>2, <1>3, <1>4, <2>1, <3>1
  <2>5. PipeOK(pipe', c2s', s2c')
    BY <1>2, <1>3, <1>4, <2>4 DEF PipeOK
  <2>6. client' # "sending" => wbuf' = <<>>
    <3>1. n = Len(wbuf) => Len(Skip(wbuf, n)) = 0
      BY <1>3, <2>3
    <3>. QED
      BY <1>4, <2>3, <3>1, EmptySeq
  <2>7. ClientOK(client', wbuf', rbuf', asked', heard')
    BY <1>1, <1>2, <1>4, <2>3, <2>6 DEF ClientOK
  <2>8. StreamOK(incoming, want_close, server, c2s', wbuf')
    <3>1. readable_data(incoming) \in Seq(Cell)
      BY <1>1, SoundFacts DEF ServerOK, Kept
    <3>2. (readable_data(incoming) \o c2s') \o wbuf' = (readable_data(incoming) \o c2s) \o wbuf
      BY <1>3, <1>4, <2>1, <3>1, MovedOver DEF Moved
    <3>. QED
      BY <1>1, <3>2 DEF StreamOK
  <2>. QED
    BY <1>2, <2>5, <2>7, <2>8, PClientParts
<1>5. CASE /\ server = "closed"
           /\ wbuf' = <<>> /\ s2c' = <<>> /\ client' \in {"idle", "failed"}
           /\ UNCHANGED c2s
  <2>1. <<>> \in Seq(Cell) /\ Len(<<>>) = 0
    BY EmptySeq
  <2>2. ClientOK(client', wbuf', rbuf', asked', heard')
    BY <1>1, <1>2, <1>5, <2>1 DEF ClientOK
  <2>3. PipeOK(pipe', c2s', s2c')
    BY <1>2, <1>3, <1>5, <2>1 DEF PipeOK
  <2>4. StreamOK(incoming, want_close, server, c2s', wbuf')
    BY <1>5 DEF StreamOK
  <2>. QED
    BY <1>2, <2>2, <2>3, <2>4, PClientParts
<1>. QED
  BY <1>4, <1>5 DEF write_all

(* The size of a message is a number. *)
LEMMA SizeType ==
  ASSUME NEW s \in Seq(Cell)
  PROVE  MessageSize(s) \in Nat
<1>1. CASE Len(s) < Width
  BY <1>1, CellsFacts DEF MessageSize
<1>2. CASE ~(Len(s) < Width)
  <2>1. Width \in 0 .. Len(s)
    BY <1>2, CellsFacts, SeqFacts
  <2>2. Take(s, Width) \in Seq(Cell)
    BY <2>1, TakeFacts
  <2>3. Number(Take(s, Width)) \in Nat
    BY <2>2, NumberFacts
  <2>. QED
    BY <1>2, <2>3, CellsFacts DEF MessageSize
<1>. QED
  BY <1>1, <1>2

(* What read() returns is what the server has written. *)
LEMMA PReadFull ==
  ASSUME PInv, read_full
  PROVE  PInv'
<1>1. /\ ClientOK(client, wbuf, rbuf, asked, heard) /\ PipeOK(pipe, c2s, s2c)
      /\ StreamOK(incoming, want_close, server, c2s, wbuf)
  BY DEF PInv
<1> DEFINE n == Smaller(Len(s2c), MessageSize(rbuf) - Len(rbuf))
<1>2. /\ n > 0 /\ rbuf' = rbuf \o Take(s2c, n) /\ s2c' = Skip(s2c, n)
      /\ UNCHANGED serverVars /\ UNCHANGED <<client, wbuf, asked, heard, pipe, c2s>>
  BY DEF read_full
<1>3. /\ rbuf \in Seq(Cell) /\ s2c \in Seq(Cell) /\ Len(rbuf) \in Nat /\ Len(s2c) \in Nat
      /\ pipe \in Pipes /\ Len(s2c) <= pipe.room /\ pipe.room \in Nat
  <2>1. rbuf \in Seq(Cell) /\ s2c \in Seq(Cell) /\ pipe \in Pipes /\ Len(s2c) <= pipe.room
    BY <1>1 DEF ClientOK, PipeOK
  <2>. QED
    BY <2>1, SeqFacts, ConstantsAssumption
<1>4. MessageSize(rbuf) \in Nat
  BY <1>3, SizeType
<1>5. n \in 0 .. Len(s2c) /\ n \in Nat
  BY <1>2, <1>3, <1>4 DEF Smaller
<1> HIDE DEF n
<1>6. rbuf' \in Seq(Cell)
  BY <1>2, <1>3, <1>5, TakeFacts, TwoPieces
<1>7. s2c' \in Seq(Cell) /\ Len(s2c') <= pipe.room
  <2>1. Skip(s2c, n) \in Seq(Cell) /\ Len(Skip(s2c, n)) = Len(s2c) - n
    BY <1>3, <1>5, SkipFacts
  <2>. QED
    BY <1>2, <1>3, <1>5, <2>1
<1>8. ClientOK(client', wbuf', rbuf', asked', heard') /\ PipeOK(pipe', c2s', s2c')
  BY <1>1, <1>2, <1>6, <1>7 DEF ClientOK, PipeOK
<1>. QED
  BY <1>1, <1>2, <1>8, PClientParts

(* Printing changes nothing but what the client waits for. *)
LEMMA PPrintResponse ==
  ASSUME PInv, PrintResponse
  PROVE  PInv'
<1>1. /\ ClientOK(client, wbuf, rbuf, asked, heard) /\ PipeOK(pipe, c2s, s2c)
      /\ StreamOK(incoming, want_close, server, c2s, wbuf)
  BY DEF PInv
<1>2. /\ client = "reading" /\ rbuf' = <<>>
      /\ UNCHANGED serverVars /\ UNCHANGED <<wbuf, asked, pipe, c2s, s2c>>
  BY DEF PrintResponse
<1> DEFINE v == print_response(Skip(rbuf, Width)).val
<1>3. \/ client' = "idle" /\ heard' = Append(heard, v)
      \/ client' = "failed" /\ heard' = heard
  BY DEF PrintResponse
<1> HIDE DEF v
<1>4. PICK S : heard \in Seq(S)
  BY <1>1 DEF ClientOK
<1>5. Len(heard) \in Nat /\ Len(asked) \in Nat /\ Len(heard) < Len(asked) /\ wbuf = <<>>
  BY <1>1, <1>2, <1>4, SeqFacts DEF ClientOK
<1>6. <<>> \in Seq(Cell)
  BY EmptySeq
<1>7. (\E T : heard' \in Seq(T)) /\ Len(heard') <= Len(asked)
  <2>1. CASE heard' = heard
    BY <1>4, <1>5, <2>1
  <2>2. CASE heard' = Append(heard, v)
    <3> DEFINE T == S \cup {v}
    <3>1. heard \in Seq(T)
      <4>1. S \subseteq T
        OBVIOUS
      <4> HIDE DEF T
      <4>. QED
        BY <1>4, <4>1, SeqMonotonic
    <3>2. v \in T
      OBVIOUS
    <3> HIDE DEF T
    <3>3. Append(heard, v) \in Seq(T) /\ Len(Append(heard, v)) = Len(heard) + 1
      BY <3>1, <3>2
    <3>. QED
      BY <1>5, <2>2, <3>3
  <2>. QED
    BY <1>3, <2>1, <2>2
<1>8. ClientOK(client', wbuf', rbuf', asked', heard')
  BY <1>1, <1>2, <1>3, <1>5, <1>6, <1>7 DEF ClientOK
<1>. QED
  BY <1>1, <1>2, <1>8, PClientParts

(* The client. *)
LEMMA PClientStep ==
  ASSUME PInv, ClientStep
  PROVE  PInv'
<1>1. CASE \E r \in Requests : send_req(r)
  BY <1>1, PSendReq
<1>2. CASE write_all
  BY <1>2, PWriteAll
<1>3. CASE read_full
  BY <1>3, PReadFull
<1>4. CASE PrintResponse
  BY <1>4, PPrintResponse
<1>5. CASE read_res \/ ReadFails \/ Finish
  <2>1. /\ ClientOK(client, wbuf, rbuf, asked, heard) /\ PipeOK(pipe, c2s, s2c)
        /\ StreamOK(incoming, want_close, server, c2s, wbuf)
    BY DEF PInv
  <2>2. /\ client \in {"idle", "reading"} /\ client' \in {"reading", "failed", "done"}
        /\ client' = "reading" => Len(heard) < Len(asked)
        /\ UNCHANGED serverVars /\ UNCHANGED <<wbuf, rbuf, asked, heard, pipe, c2s, s2c>>
    BY <1>5 DEF read_res, ReadFails, Finish
  <2>3. ClientOK(client', wbuf', rbuf', asked', heard')
    BY <2>1, <2>2 DEF ClientOK
  <2>. QED
    BY <2>1, <2>2, <2>3, PClientParts
<1>. QED
  BY <1>1, <1>2, <1>3, <1>4, <1>5 DEF ClientStep

-----------------------------------------------------------------------------
(* The steps of the server. *)
LEMMA PServerParts ==
  ASSUME PInv, UNCHANGED <<clientVars, pipe>>,
         ServerOK(incoming', outgoing', want_close', server'), SaidOK(said'),
         PipeOK(pipe, c2s', s2c'),
         StreamOK(incoming', want_close', server', c2s', wbuf)
  PROVE  PInv'
BY DEF PInv, clientVars

(* A buffer between two calls is sound and has no position open. *)
LEMMA KeptFacts ==
  ASSUME NEW b, Kept(b)
  PROVE  /\ Shows(b, readable_data(b), <<>>) /\ Sound(b) /\ Len(b.placeholder_stack) = 0
         /\ b.capacity \in Nat /\ readable_size(b) \in Nat
         /\ readable_data(b) \in Seq(Cell) /\ Len(readable_data(b)) = readable_size(b)
<1>1. Sound(b) /\ Len(b.placeholder_stack) = 0
  BY EmptySeq DEF Kept
<1>2. Shows(b, readable_data(b), <<>>)
  BY <1>1, EmptySeq DEF Shows
<1>. QED
  BY <1>1, <1>2, SoundFacts

(* Of a buffer with the same to read, when it has any or is at its start *)
LEMMA KeptAgain ==
  ASSUME NEW c, Sound(c), Len(c.placeholder_stack) = 0,
         readable_size(c) > 0 \/ (c.readable_begin = 0 /\ writable_begin(c) = 0)
  PROVE  Kept(c)
<1>1. /\ c.placeholder_stack \in Seq(Nat) /\ c.buf \in Seq(Cell) /\ writable_begin(c) = Len(c.buf)
      /\ readable_size(c) \in Nat
  BY SoundFacts
<1>2. c.placeholder_stack = <<>>
  BY <1>1, EmptySeq
<1>3. CASE readable_size(c) > 0
  BY <1>1, <1>2, <1>3 DEF Kept
<1>4. CASE c.readable_begin = 0 /\ writable_begin(c) = 0
  <2>1. c.buf = <<>>
    BY <1>1, <1>4, EmptySeq
  <2>. QED
    BY <1>2, <1>4, <2>1 DEF Kept
<1>. QED
  BY <1>3, <1>4

(* append() of at least one cell; shrink_if_wasteful(); consume() *)
LEMMA KeptAppend ==
  ASSUME NEW b, Kept(b), NEW d \in Seq(Cell), Len(d) > 0
  PROVE  LET c == append(b, d)
         IN /\ Kept(c) /\ readable_data(c) = readable_data(b) \o d
            /\ Grown(b, Len(d), c.capacity)
<1> DEFINE c == append(b, d)
<1>1. Sound(b) /\ Len(b.placeholder_stack) = 0 /\ readable_size(b) \in Nat /\ Len(d) \in Nat
  BY KeptFacts, SeqFacts
<1>2. Written(b, d, c) /\ Grown(b, Len(d), c.capacity)
  BY <1>1, AppendFacts
<1> HIDE DEF c
<1>3. /\ Sound(c) /\ Len(c.placeholder_stack) = 0 /\ readable_data(c) = readable_data(b) \o d
      /\ readable_size(c) = readable_size(b) + Len(d)
  BY <1>1, <1>2 DEF Written
<1>4. readable_size(c) > 0
  BY <1>1, <1>3
<1>5. Kept(c)
  BY <1>3, <1>4, KeptAgain
<1>. QED
  BY <1>2, <1>3, <1>5 DEF c

(* shrink_if_wasteful() may give room back, never below hard_min. *)
LEMMA KeptShrink ==
  ASSUME NEW b, Kept(b), NEW hard_min \in Nat
  PROVE  LET c == shrink_if_wasteful(b, hard_min)
         IN /\ Kept(c) /\ readable_data(c) = readable_data(b) /\ readable_size(c) = readable_size(b)
            /\ c.capacity <= b.capacity
            /\ b.capacity >= hard_min => c.capacity >= hard_min
            /\ readable_size(b) = 0 => c.capacity <= hard_min
<1> DEFINE c == shrink_if_wasteful(b, hard_min)
           r == readable_size(b)
           kept == b.capacity <= Larger(hard_min, 4 * r)
<1>1. Sound(b) /\ r \in Nat /\ b.capacity \in Nat /\ Len(b.placeholder_stack) = 0
  BY KeptFacts
<1>2. /\ SameData(b, c)
      /\ kept => c = b
      /\ ~kept => /\ c.capacity = Larger(hard_min, 2 * r) /\ c.capacity <= b.capacity
                  /\ c.readable_begin = 0 /\ writable_begin(c) = r
  BY <1>1, ShrinkFacts
<1> HIDE DEF c
<1>3. /\ Sound(c) /\ readable_data(c) = readable_data(b) /\ readable_size(c) = r
      /\ Len(c.placeholder_stack) = 0
  BY <1>1, <1>2 DEF SameData
<1>4. CASE kept
  <2>1. c = b
    BY <1>2, <1>4
  <2>2. r = 0 => b.capacity <= hard_min
    BY <1>1, <1>4 DEF Larger
  <2>. QED
    BY <1>1, <2>1, <2>2 DEF c
<1>5. CASE ~kept
  <2>1. /\ c.capacity = Larger(hard_min, 2 * r) /\ c.capacity <= b.capacity
        /\ c.readable_begin = 0 /\ writable_begin(c) = r
    BY <1>2, <1>5
  <2> HIDE DEF r, kept
  <2>2. Kept(c)
    BY <1>1, <1>3, <2>1, KeptAgain
  <2>3. c.capacity >= hard_min /\ (r = 0 => c.capacity <= hard_min)
    BY <1>1, <2>1 DEF Larger
  <2>. QED
    BY <1>3, <2>1, <2>2, <2>3 DEF c, r
<1>. QED
  BY <1>4, <1>5

(* consume() leaves the rest to be read. *)
LEMMA KeptConsume ==
  ASSUME NEW b, Kept(b), NEW n \in 0 .. readable_size(b)
  PROVE  LET c == consume(b, n)
         IN /\ Kept(c) /\ c.capacity = b.capacity /\ readable_size(c) = readable_size(b) - n
            /\ readable_data(c) = Skip(readable_data(b), n)
<1> DEFINE c == consume(b, n)
<1>1. Sound(b) /\ (readable_size(b) = 0 => b.readable_begin = 0 /\ b.buf = <<>>)
  BY DEF Kept
<1>2. Consumed(b, n, c)
  BY <1>1, ConsumeFacts
<1> HIDE DEF c
<1>3. Kept(c)
  BY <1>2 DEF Consumed, Kept
<1>. QED
  BY <1>2, <1>3 DEF Consumed, c

(* A response is added to what there is to write. *)
LEMMA KeptResponse ==
  ASSUME NEW b, Kept(b), NEW v \in Answers
  PROVE  LET c == response_end(out_val(response_begin(b), v))
         IN /\ Kept(c) /\ readable_data(c) = readable_data(b) \o Response(v)
            /\ readable_size(c) > 0
<1> DEFINE c == response_end(out_val(response_begin(b), v))
           t == readable_data(b)
           u == t \o Response(v)
<1>1. Shows(b, t, <<>>) /\ t \in Seq(Cell) /\ v \in Values
  BY KeptFacts, TypesAssumption
<1>2. Response(v) \in Seq(Cell) /\ Len(Response(v)) > Width
  BY <1>1, ShownType
<1>3. Shows(c, u, <<>>)
  BY <1>1, ShowsResponse
<1> HIDE DEF c
<1>4. Len(u) > 0
  <2>1. Len(u) = Len(t) + Len(Response(v)) /\ Len(t) \in Nat /\ Len(Response(v)) \in Nat
    BY <1>1, <1>2, TwoPieces, SeqFacts
  <2>. QED
    BY <1>2, <2>1, CellsFacts
<1>5. Sound(c) /\ readable_data(c) = u /\ Len(c.placeholder_stack) = 0 /\ readable_size(c) = Len(u)
  <2>1. readable_size(c) = Len(u)
    BY <1>3, ShowsFacts
  <2>. QED
    BY <1>3, <2>1, EmptySeq DEF Shows
<1>6. Kept(c)
  BY <1>4, <1>5, KeptAgain
<1>. QED
  BY <1>4, <1>5, <1>6 DEF c

-----------------------------------------------------------------------------
(* read() appends at most what fits in its array; the stream is the same. *)
LEMMA PHandleRead ==
  ASSUME PInv, handle_read
  PROVE  PInv'
<1>1. /\ ServerOK(incoming, outgoing, want_close, server) /\ SaidOK(said) /\ PipeOK(pipe, c2s, s2c)
      /\ ClientOK(client, wbuf, rbuf, asked, heard)
      /\ StreamOK(incoming, want_close, server, c2s, wbuf)
  BY DEF PInv
<1>2. /\ server = "wait" /\ readable_size(outgoing) = 0 /\ server' = "parse"
      /\ outgoing' = outgoing /\ want_close' = want_close /\ said' = said
      /\ UNCHANGED <<clientVars, pipe>> /\ s2c' = s2c
  BY DEF handle_read
<1>3. PICK n \in 1 .. Smaller(ReadMax, Len(c2s)) :
        incoming' = append(incoming, Take(c2s, n)) /\ c2s' = Skip(c2s, n)
  BY DEF handle_read
<1>4. /\ c2s \in Seq(Cell) /\ Len(c2s) \in Nat /\ pipe \in Pipes /\ pipe.room \in Nat
      /\ Len(c2s) <= pipe.room /\ wbuf \in Seq(Cell)
  <2>1. c2s \in Seq(Cell) /\ pipe \in Pipes /\ Len(c2s) <= pipe.room /\ wbuf \in Seq(Cell)
    BY <1>1 DEF PipeOK, ClientOK
  <2>. QED
    BY <2>1, SeqFacts, ConstantsAssumption
<1>5. n \in 0 .. Len(c2s) /\ n \in Nat /\ n > 0 /\ n <= ReadMax
  BY <1>4, BoundFacts DEF Smaller
<1> DEFINE d == Take(c2s, n)
           e == Skip(c2s, n)
<1>6. d \in Seq(Cell) /\ Len(d) = n
  BY <1>4, <1>5, TakeFacts
<1>7. e \in Seq(Cell) /\ Len(e) = Len(c2s) - n
  BY <1>4, <1>5, SkipFacts
<1> HIDE DEF d, e
<1>9. Kept(incoming) /\ Kept(outgoing)
  BY <1>1 DEF ServerOK
<1>10. /\ readable_data(incoming) \in Seq(Cell) /\ readable_size(incoming) \in Nat
       /\ incoming.capacity \in Nat
  BY <1>9, KeptFacts
<1>11. incoming' = append(incoming, d) /\ c2s' = e
  BY <1>3 DEF d, e
<1> DEFINE c == append(incoming, d)
<1>12. /\ Kept(c) /\ readable_data(c) = readable_data(incoming) \o d
       /\ Grown(incoming, n, c.capacity)
  BY <1>5, <1>6, <1>9, KeptAppend
<1> HIDE DEF c
<1>13. c.capacity >= HardMin /\ c.capacity <= Larger(HardMin, 2 * MostRead)
  <2>1. /\ incoming.capacity >= HardMin /\ incoming.capacity <= Larger(HardMin, 2 * MostRead)
        /\ readable_size(incoming) < Width + MaxMsg
    BY <1>1, <1>2 DEF ServerOK
  <2> DEFINE need == readable_size(incoming) + n
             old == incoming.capacity
             new == c.capacity
  <2>2. need \in Nat /\ need <= MostRead /\ HardMin \in Nat /\ MostRead \in Nat /\ old \in Nat
    BY <1>5, <1>10, <2>1, BoundFacts DEF MostRead
  <2>3. new = old \/ (old < need /\ new = Larger(2 * old, need))
    BY <1>12 DEF Grown
  <2> HIDE DEF need, old, new
  <2>4. CASE new = old
    BY <2>1, <2>4 DEF old, new
  <2>5. CASE old < need /\ new = Larger(2 * old, need)
    <3>1. old >= HardMin
      BY <2>1 DEF old
    <3>2. new \in Nat /\ new >= old /\ new <= 2 * MostRead
      BY <2>2, <2>5 DEF Larger
    <3>3. new >= HardMin /\ new <= Larger(HardMin, 2 * MostRead)
      BY <2>2, <3>1, <3>2 DEF Larger
    <3>. QED
      BY <3>3 DEF new
  <2>. QED
    BY <2>3, <2>4, <2>5
<1>14. ServerOK(incoming', outgoing', want_close', server')
  <2>1. readable_size(outgoing) = 0 => outgoing.capacity <= WorthIt
    BY <1>1, <1>2 DEF ServerOK
  <2>2. want_close \in BOOLEAN
    BY <1>1 DEF ServerOK
  <2>. QED
    BY <1>2, <1>9, <1>11, <1>12, <1>13, <2>1, <2>2 DEF ServerOK, c
<1>15. PipeOK(pipe, c2s', s2c')
  <2>1. Len(e) <= pipe.room
    BY <1>4, <1>5, <1>7
  <2>. QED
    BY <1>1, <1>2, <1>7, <1>11, <2>1 DEF PipeOK
<1>16. StreamOK(incoming', want_close', server', c2s', wbuf)
  <2>1. readable_data(incoming') \o c2s' = readable_data(incoming) \o c2s
    BY <1>4, <1>5, <1>10, <1>11, <1>12, MovedOn DEF c, d, e
  <2>. QED
    BY <1>1, <1>2, <2>1 DEF StreamOK
<1>. QED
  BY <1>1, <1>2, <1>14, <1>15, <1>16, PServerParts

(* One of the two ends closes. *)
LEMMA PEndings ==
  ASSUME PInv, ClientGone \/ conn_destroy
  PROVE  PInv'
<1>1. /\ ServerOK(incoming, outgoing, want_close, server) /\ SaidOK(said) /\ PipeOK(pipe, c2s, s2c)
      /\ StreamOK(incoming, want_close, server, c2s, wbuf)
  BY DEF PInv
<1>2. /\ server' = "closed" /\ UNCHANGED <<incoming, outgoing, want_close, said, c2s>>
      /\ UNCHANGED <<clientVars, pipe>> /\ (s2c' = s2c \/ s2c' = <<>>)
  BY DEF ClientGone, conn_destroy
<1>3. ServerOK(incoming', outgoing', want_close', server')
  BY <1>1, <1>2 DEF ServerOK
<1>4. PipeOK(pipe, c2s', s2c')
  <2>1. pipe.room \in Nat
    BY <1>1, ConstantsAssumption DEF PipeOK
  <2>2. <<>> \in Seq(Cell) /\ Len(<<>>) = 0
    BY EmptySeq
  <2>3. Len(<<>>) <= pipe.room
    BY <2>1, <2>2
  <2>. QED
    BY <1>1, <1>2, <2>2, <2>3 DEF PipeOK
<1>5. StreamOK(incoming', want_close', server', c2s', wbuf)
  BY <1>2 DEF StreamOK
<1>. QED
  BY <1>1, <1>2, <1>3, <1>4, <1>5, PServerParts

(* The first message of the stream, as far as it is read *)
LEMMA StreamFacts ==
  ASSUME PInv, server \in {"wait", "parse", "flush"}, ~want_close
  PROVE  LET t == readable_data(incoming)
             s == (t \o c2s) \o wbuf
         IN /\ t \in Seq(Cell) /\ c2s \in Seq(Cell) /\ wbuf \in Seq(Cell) /\ t \o c2s \in Seq(Cell)
            /\ Len(t) = readable_size(incoming) /\ Len(t) \in Nat
            /\ s \in Seq(Cell) /\ Framed(s) /\ Len(s) >= Len(t)
            /\ Len(t) >= Width => Take(s, Width) = Take(t, Width) /\ NextLength \in 0 .. MaxMsg
<1> DEFINE t == readable_data(incoming)
           u == t \o c2s
           s == u \o wbuf
<1>1. /\ t \in Seq(Cell) /\ Len(t) = readable_size(incoming) /\ c2s \in Seq(Cell) /\ wbuf \in Seq(Cell)
  BY KeptFacts DEF PInv, ServerOK, PipeOK, ClientOK
<1>2. Framed(s)
  BY DEF PInv, StreamOK
<1>3. NextLength = Number(Take(t, Width))
  BY DEF NextLength
<1> HIDE DEF t
<1>4. u \in Seq(Cell) /\ Len(u) = Len(t) + Len(c2s)
  BY <1>1, TwoPieces
<1> HIDE DEF u
<1>5. s \in Seq(Cell) /\ Len(s) = Len(u) + Len(wbuf)
  BY <1>1, <1>4, TwoPieces
<1>6. Len(t) \in Nat /\ Len(c2s) \in Nat /\ Len(wbuf) \in Nat
  BY <1>1, SeqFacts
<1>7. ASSUME Len(t) >= Width
      PROVE  Take(s, Width) = Take(t, Width) /\ NextLength \in 0 .. MaxMsg
  <2>1. Width \in 0 .. Len(t) /\ Width \in 0 .. Len(u)
    BY <1>4, <1>6, <1>7, CellsFacts
  <2>2. Take(s, Width) = Take(u, Width)
    BY <1>1, <1>4, <2>1, TakeOfTwo
  <2>3. Take(u, Width) = Take(t, Width)
    BY <1>1, <2>1, TakeOfTwo DEF u
  <2>4. Len(s) > 0
    BY <1>4, <1>5, <1>6, <1>7, CellsFacts
  <2> HIDE DEF s
  <2>5. Number(Take(s, Width)) \in 0 .. MaxMsg
    BY <1>2, <1>5, <2>4, FramedFirst
  <2>. QED
    BY <1>3, <2>2, <2>3, <2>5
<1>8. Len(s) >= Len(t)
  BY <1>4, <1>5, <1>6
<1>. QED
  BY <1>1, <1>2, <1>4, <1>5, <1>6, <1>7, <1>8 DEF t, u

(* A message is taken from the stream only when it is whole, and answered. *)
LEMMA PProcess ==
  ASSUME PInv, try_process_one_request
  PROVE  PInv'
<1>1. /\ ServerOK(incoming, outgoing, want_close, server) /\ SaidOK(said) /\ PipeOK(pipe, c2s, s2c)
      /\ StreamOK(incoming, want_close, server, c2s, wbuf)
  BY DEF PInv
<1>2. /\ server = "parse" /\ ~want_close /\ HasRequest /\ server' = server
      /\ UNCHANGED <<clientVars, pipe>> /\ c2s' = c2s /\ s2c' = s2c
  BY DEF try_process_one_request
<1> DEFINE req == parse_req(RequestBody)
<1>3. CASE want_close' = TRUE /\ UNCHANGED <<incoming, outgoing, said>>
  <2>1. ServerOK(incoming', outgoing', want_close', server')
    BY <1>1, <1>2, <1>3 DEF ServerOK
  <2>2. StreamOK(incoming', want_close', server', c2s', wbuf)
    BY <1>3 DEF StreamOK
  <2>. QED
    BY <1>1, <1>2, <1>3, <2>1, <2>2, PServerParts
<1>4. CASE \E v \in Answers :
             /\ outgoing' = response_end(out_val(response_begin(outgoing), v))
             /\ said' = Append(said, [req |-> Command(req.val), val |-> v])
             /\ incoming' = consume(incoming, Width + NextLength)
             /\ UNCHANGED want_close
  <2>1. PICK v \in Answers :
             /\ outgoing' = response_end(out_val(response_begin(outgoing), v))
             /\ said' = Append(said, [req |-> Command(req.val), val |-> v])
             /\ incoming' = consume(incoming, Width + NextLength)
             /\ UNCHANGED want_close
    BY <1>4
  <2>2. Kept(incoming) /\ Kept(outgoing)
    BY <1>1 DEF ServerOK
  <2>3. Kept(outgoing') /\ readable_size(outgoing') > 0
    BY <2>1, <2>2, KeptResponse
  <2>4. SaidOK(said')
    <3>1. PICK S : said \in Seq(S) /\ \A x \in S : x.val \in Answers
      BY <1>1 DEF SaidOK
    <3> DEFINE new == [req |-> Command(req.val), val |-> v]
               T == S \cup {new}
    <3>2. new.val \in Answers
      OBVIOUS
    <3> HIDE DEF new
    <3>3. S \subseteq T /\ new \in T /\ \A x \in T : x.val \in Answers
      BY <3>1, <3>2
    <3> HIDE DEF T
    <3>4. said \in Seq(T)
      BY <3>1, <3>3, SeqMonotonic
    <3>5. Append(said, new) \in Seq(T)
      BY <3>3, <3>4
    <3>6. SaidOK(Append(said, new))
      BY <3>3, <3>5 DEF SaidOK
    <3>. QED
      BY <2>1, <3>6 DEF new
  <2> DEFINE t == readable_data(incoming)
             u == t \o c2s
             s == u \o wbuf
             k == Width + NextLength
  <2>5. /\ t \in Seq(Cell) /\ c2s \in Seq(Cell) /\ wbuf \in Seq(Cell) /\ u \in Seq(Cell)
        /\ Len(t) = readable_size(incoming) /\ Len(t) \in Nat
        /\ s \in Seq(Cell) /\ Framed(s) /\ Len(s) >= Len(t)
        /\ Len(t) >= Width => Take(s, Width) = Take(t, Width) /\ NextLength \in 0 .. MaxMsg
    BY <1>2, StreamFacts
  <2>6. Len(t) >= Width /\ k <= Len(t)
    BY <1>2, <2>5 DEF HasRequest
  <2>7. Take(s, Width) = Take(t, Width) /\ NextLength \in 0 .. MaxMsg
    BY <2>5, <2>6
  <2>8. k = Width + Number(Take(s, Width)) /\ k \in Nat
    BY <2>7, BoundFacts DEF NextLength
  <2>9. Len(s) \in Nat /\ Len(s) > 0 /\ Len(u) \in Nat /\ Len(u) >= Len(t)
    <3>1. Len(s) \in Nat /\ Len(u) \in Nat
      BY <2>5, SeqFacts
    <3>2. Len(u) = Len(t) + Len(c2s) /\ Len(c2s) \in Nat
      BY <2>5, TwoPieces, SeqFacts
    <3>3. Len(s) > 0
      <4> HIDE DEF s, t, u
      <4>. QED
        BY <2>5, <2>6, <3>1, CellsFacts
    <3>4. Len(u) >= Len(t)
      <4> HIDE DEF s, t, u
      <4>. QED
        BY <2>5, <3>2
    <3>. QED
      BY <3>1, <3>3, <3>4
  <2> HIDE DEF k, t, u, s
  <2>10. Framed(Skip(s, k))
    BY <2>5, <2>8, <2>9, FramedDrop
  <2>11. k \in 0 .. Len(t) /\ k \in 0 .. Len(u)
    BY <2>5, <2>6, <2>8, <2>9
  <2>12. Skip(s, k) = (Skip(t, k) \o c2s) \o wbuf
    <3>1. Skip(s, k) = Skip(u, k) \o wbuf
      BY <2>5, <2>11, SkipOfTwo DEF s
    <3>2. Skip(u, k) = Skip(t, k) \o c2s
      BY <2>5, <2>11, SkipOfTwo DEF u
    <3>. QED
      BY <3>1, <3>2
  <2> DEFINE c == consume(incoming, k)
  <2>13. /\ Kept(c) /\ c.capacity = incoming.capacity /\ readable_data(c) = Skip(t, k)
    <3>1. k \in 0 .. readable_size(incoming)
      BY <2>5, <2>11
    <3>. QED
      BY <2>2, <3>1, KeptConsume DEF t
  <2> HIDE DEF c
  <2>14. incoming' = c
    BY <2>1 DEF c, k
  <2>15. ServerOK(incoming', outgoing', want_close', server')
    <3>1. readable_size(outgoing') # 0
      BY <2>3
    <3>. QED
      BY <1>1, <1>2, <2>1, <2>3, <2>13, <2>14, <3>1 DEF ServerOK
  <2>16. StreamOK(incoming', want_close', server', c2s', wbuf)
    BY <1>2, <2>10, <2>12, <2>13, <2>14 DEF StreamOK
  <2>. QED
    BY <1>1, <1>2, <2>4, <2>15, <2>16, PServerParts
<1>. QED
  BY <1>3, <1>4 DEF try_process_one_request

(* What is left after the loop is less than a message, and the buffers     *)
(* shrink.                                                                 *)
LEMMA PEndOfRead ==
  ASSUME PInv, EndOfRead
  PROVE  PInv'
<1>1. /\ ServerOK(incoming, outgoing, want_close, server) /\ SaidOK(said) /\ PipeOK(pipe, c2s, s2c)
      /\ StreamOK(incoming, want_close, server, c2s, wbuf)
  BY DEF PInv
<1> DEFINE c == shrink_if_wasteful(incoming, HardMin)
<1>2. /\ server = "parse" /\ (want_close \/ ~HasRequest)
      /\ incoming' = IF Wasteful(incoming) THEN c ELSE incoming
      /\ \/ readable_size(outgoing) > 0 /\ server' = "flush"
         \/ ~(readable_size(outgoing) > 0) /\ server' = IF want_close THEN "close" ELSE "wait"
      /\ outgoing' = outgoing /\ want_close' = want_close /\ said' = said
      /\ UNCHANGED <<clientVars, pipe>> /\ c2s' = c2s /\ s2c' = s2c
  BY DEF EndOfRead, AfterHandler
<1>3. Kept(incoming) /\ Kept(outgoing) /\ incoming.capacity \in Nat /\ readable_size(incoming) \in Nat
  BY <1>1, KeptFacts DEF ServerOK
<1>4. /\ Kept(c) /\ readable_data(c) = readable_data(incoming)
      /\ readable_size(c) = readable_size(incoming)
      /\ c.capacity <= incoming.capacity
      /\ incoming.capacity >= HardMin => c.capacity >= HardMin
      /\ readable_size(incoming) = 0 => c.capacity <= HardMin
  BY <1>3, BoundFacts, KeptShrink
<1> HIDE DEF c
<1>5. c.capacity \in Nat /\ HardMin \in Nat /\ Larger(HardMin, 2 * MostRead) \in Nat
  BY <1>4, KeptFacts, BoundFacts DEF Larger
<1>6. incoming.capacity >= HardMin /\ incoming.capacity <= Larger(HardMin, 2 * MostRead)
  BY <1>1 DEF ServerOK
<1>7. /\ Kept(incoming') /\ readable_data(incoming') = readable_data(incoming)
      /\ readable_size(incoming') = readable_size(incoming)
      /\ incoming'.capacity >= HardMin /\ incoming'.capacity <= Larger(HardMin, 2 * MostRead)
      /\ readable_size(incoming') = 0 => incoming'.capacity = HardMin
  <2>1. CASE Wasteful(incoming)
    <3>1. incoming' = c
      BY <1>2, <2>1
    <3>2. /\ c.capacity >= HardMin /\ c.capacity <= Larger(HardMin, 2 * MostRead)
          /\ readable_size(incoming) = 0 => c.capacity = HardMin
      BY <1>3, <1>4, <1>5, <1>6
    <3>. QED
      BY <1>4, <3>1, <3>2
  <2>2. CASE ~Wasteful(incoming)
    <3>1. incoming' = incoming /\ readable_size(incoming) # 0
      BY <1>2, <2>2 DEF Wasteful
    <3>. QED
      BY <1>3, <1>6, <3>1
  <2>. QED
    BY <2>1, <2>2
<1>8. ~want_close => readable_size(incoming) < Width + MaxMsg
  <2> SUFFICES ASSUME ~want_close PROVE readable_size(incoming) < Width + MaxMsg
    OBVIOUS
  <2>1. CASE readable_size(incoming) < Width
    BY <1>3, <2>1, BoundFacts
  <2>2. CASE readable_size(incoming) >= Width
    <3>1. NextLength \in 0 .. MaxMsg
      BY <1>2, <2>2, StreamFacts
    <3>2. ~(Width + NextLength <= readable_size(incoming))
      BY <1>2, <2>2 DEF HasRequest
    <3>. QED
      BY <1>3, <3>1, <3>2, BoundFacts
  <2>. QED
    BY <1>3, <2>1, <2>2, BoundFacts
<1>9. ServerOK(incoming', outgoing', want_close', server')
  <2>1. readable_size(outgoing) = 0 => outgoing.capacity <= WorthIt
    BY <1>1, <1>2 DEF ServerOK
  <2>2. want_close \in BOOLEAN
    BY <1>1 DEF ServerOK
  <2>. QED
    BY <1>2, <1>3, <1>7, <1>8, <2>1, <2>2 DEF ServerOK
<1>10. StreamOK(incoming', want_close', server', c2s', wbuf)
  BY <1>1, <1>2, <1>7 DEF StreamOK
<1>. QED
  BY <1>1, <1>2, <1>9, <1>10, PServerParts

(* What write() accepts leaves the outgoing buffer. *)
LEMMA PHandleWrite ==
  ASSUME PInv, handle_write
  PROVE  PInv'
<1>1. /\ ServerOK(incoming, outgoing, want_close, server) /\ SaidOK(said) /\ PipeOK(pipe, c2s, s2c)
      /\ StreamOK(incoming, want_close, server, c2s, wbuf)
  BY DEF PInv
<1> DEFINE room == pipe.room - Len(s2c)
<1>2. /\ readable_size(outgoing) > 0 /\ server \in {"flush", "wait"}
      /\ server' = IF want_close THEN "close" ELSE "wait"
      /\ incoming' = incoming /\ want_close' = want_close /\ said' = said
      /\ UNCHANGED <<clientVars, pipe>> /\ c2s' = c2s
  BY DEF handle_write, AfterHandler
<1>3. PICK n \in (IF room = 0 THEN {0} ELSE 1 .. Smaller(room, readable_size(outgoing))) :
             /\ s2c' = s2c \o Take(readable_data(outgoing), n)
             /\ outgoing' = LET rest == consume(outgoing, n)
                            IN IF readable_size(rest) = 0 THEN shrink_if_wasteful(rest, WorthIt)
                               ELSE rest
  BY DEF handle_write
<1>4. /\ Kept(outgoing) /\ readable_data(outgoing) \in Seq(Cell) /\ readable_size(outgoing) \in Nat
      /\ Len(readable_data(outgoing)) = readable_size(outgoing)
  BY <1>1, KeptFacts DEF ServerOK
<1>5. /\ s2c \in Seq(Cell) /\ Len(s2c) \in Nat /\ pipe \in Pipes /\ pipe.room \in Nat
      /\ Len(s2c) <= pipe.room
  <2>1. s2c \in Seq(Cell) /\ pipe \in Pipes /\ Len(s2c) <= pipe.room
    BY <1>1 DEF PipeOK
  <2>. QED
    BY <2>1, SeqFacts, ConstantsAssumption
<1>6. n \in Nat /\ n <= readable_size(outgoing) /\ Len(s2c) + n <= pipe.room
  <2>1. PICK x, y, r : x = pipe.room /\ y = Len(s2c) /\ r = readable_size(outgoing)
    OBVIOUS
  <2>2. /\ x \in Nat /\ y \in Nat /\ r \in Nat /\ y <= x
        /\ n \in (IF x - y = 0 THEN {0} ELSE 1 .. Smaller(x - y, r))
    BY <1>3, <1>4, <1>5, <2>1
  <2>3. n \in Nat /\ n <= r /\ y + n <= x
    BY ONLY <2>2 DEF Smaller
  <2>. QED
    BY <2>1, <2>3
<1> DEFINE d == Take(readable_data(outgoing), n)
<1>7. d \in Seq(Cell) /\ Len(d) = n
  <2>1. n \in 0 .. Len(readable_data(outgoing))
    BY <1>4, <1>6
  <2>. QED
    BY <1>4, <2>1, TakeFacts
<1> HIDE DEF d
<1>8. PipeOK(pipe, c2s', s2c')
  <2>1. s2c \o d \in Seq(Cell) /\ Len(s2c \o d) = Len(s2c) + Len(d)
    BY <1>5, <1>7, TwoPieces
  <2>2. s2c' = s2c \o d
    BY <1>3 DEF d
  <2>3. s2c' \in Seq(Cell) /\ Len(s2c') <= pipe.room
    BY <1>6, <1>7, <2>1, <2>2
  <2>. QED
    BY <1>1, <1>2, <2>3 DEF PipeOK
<1> DEFINE rest == consume(outgoing, n)
           c == shrink_if_wasteful(rest, WorthIt)
<1>9. Kept(rest)
  <2>1. n \in 0 .. readable_size(outgoing)
    BY <1>4, <1>6
  <2>. QED
    BY <1>4, <2>1, KeptConsume
<1>10. outgoing' = IF readable_size(rest) = 0 THEN c ELSE rest
  BY <1>3
<1> HIDE DEF rest
<1>11. /\ Kept(c) /\ readable_size(c) = readable_size(rest)
       /\ readable_size(rest) = 0 => c.capacity <= WorthIt
  BY <1>9, BoundFacts, KeptShrink
<1> HIDE DEF c
<1>12. Kept(outgoing') /\ (readable_size(outgoing') = 0 => outgoing'.capacity <= WorthIt)
  BY <1>9, <1>10, <1>11
<1>13. ServerOK(incoming', outgoing', want_close', server')
  <2>1. want_close \in BOOLEAN
    BY <1>1 DEF ServerOK
  <2>. QED
    BY <1>1, <1>2, <1>12, <2>1 DEF ServerOK
<1>14. StreamOK(incoming', want_close', server', c2s', wbuf)
  BY <1>1, <1>2 DEF StreamOK
<1>. QED
  BY <1>1, <1>2, <1>8, <1>13, <1>14, PServerParts

-----------------------------------------------------------------------------
(* Every step of either end. *)
LEMMA PStep ==
  ASSUME PInv, [Next]_vars
  PROVE  PInv'
<1>1. CASE ClientStep
  BY <1>1, PClientStep
<1>2. CASE handle_read
  BY <1>2, PHandleRead
<1>3. CASE ClientGone \/ conn_destroy
  BY <1>3, PEndings
<1>4. CASE try_process_one_request
  BY <1>4, PProcess
<1>5. CASE EndOfRead
  BY <1>5, PEndOfRead
<1>6. CASE handle_write
  BY <1>6, PHandleWrite
<1>7. CASE UNCHANGED vars
  BY <1>7 DEF PInv, vars, serverVars, clientVars
<1>. QED
  BY <1>1, <1>2, <1>3, <1>4, <1>5, <1>6, <1>7 DEF Next, ServerStep

(* However the streams are cut, for all sizes of cells, numbers, messages  *)
(* and reads: no buffer is written beyond its array, one with nothing to   *)
(* read is at its start, no position is left to be filled in, and the      *)
(* buffers of a connection stay within what a message and a read() need.   *)
THEOREM BuffersSoundCorrect == Spec => []BuffersSound
<1>1. PInv /\ [Next]_vars => PInv'
  BY PStep
<1>2. PInv => BuffersSound
  BY PTypes
<1>. QED
  BY PInit, <1>1, <1>2, PTL DEF Spec

-----------------------------------------------------------------------------
(* The messages that the requests are sent as, and those that answer them  *)
Messages(ask) == [i \in DOMAIN ask |-> WithLength(Payload(ask[i]))]
Responses(sd) == [i \in DOMAIN sd |-> Response(sd[i].val)]

ServedRequests == {Command(cmd) : cmd \in {c \in Commands : Len(c) <= MaxArgs}}
RefusedRequests ==
  {Command(cmd) : cmd \in {c \in Commands : Len(c) > MaxArgs}} \cup {Raw(data) : data \in Malformed}

Live(closing, srv) == srv \in {"wait", "parse", "flush"} /\ ~closing
Ended(cl) == cl \in {"done", "failed"}

(* The first n requests are sent, each as one message; what is on its way  *)
(* to the server is the messages of those that are not answered.           *)
Sent(n, s, live, cl, ask, sd) ==
  /\ n \in Nat /\ Len(sd) <= n /\ n <= Len(ask)
  /\ cl # "failed" => n = Len(ask)
  /\ \A i \in 1 .. n : Len(Payload(ask[i])) <= MaxMsg
  /\ live => Chain(s, Len(sd) + 1, n, Messages(ask))

SentOK(s, live, cl, ask, sd) == \E n : Sent(n, s, live, cl, ask, sd)

(* What is on its way to the client is the responses it has not printed;   *)
(* the rest of them is in the buffer until the connection is closed.       *)
Coming(rest, s, gone, out, hd, sd) ==
  /\ rest \in Seq(Cell)
  /\ ~gone => rest = readable_data(out)
  /\ Chain(s \o rest, Len(hd) + 1, Len(sd), Responses(sd))

ComingOK(s, gone, out, cl, hd, sd) ==
  /\ Len(hd) <= Len(sd)
  /\ ~Ended(cl) => \E rest : Coming(rest, s, gone, out, hd, sd)

(* The server closes over a request that it refuses. *)
ClosingOK(closing, srv, cl, ask) ==
  /\ closing => \E i \in DOMAIN ask : ask[i] \in RefusedRequests
  /\ srv = "close" => closing
  /\ srv = "closed" /\ ~Ended(cl) => closing

XInv ==
  /\ SentOK((readable_data(incoming) \o c2s) \o wbuf, Live(want_close, server), client, asked, said)
  /\ ComingOK(rbuf \o s2c, server = "closed", outgoing, client, heard, said)
  /\ ClosingOK(want_close, server, client, asked)

PromiseStep == [Promise!Next]_(Promise!vars)

(* The requests and the answers as they are counted *)
LEMMA AskedFacts ==
  ASSUME NEW ask \in Seq(Requests)
  PROVE  /\ Len(ask) \in Nat /\ DOMAIN ask = 1 .. Len(ask)
         /\ \A i \in 1 .. Len(ask) :
              ask[i] \in Requests /\ Messages(ask)[i] = WithLength(Payload(ask[i]))
         /\ \A i \in 1 .. Len(ask) : Payload(ask[i]) \in Seq(Cell)
<1>1. Len(ask) \in Nat /\ DOMAIN ask = 1 .. Len(ask) /\ \A i \in 1 .. Len(ask) : ask[i] \in Requests
  BY SeqFacts
<1>2. \A i \in 1 .. Len(ask) : Payload(ask[i]) \in Seq(Cell)
  BY <1>1, PayloadType
<1>3. \A i \in 1 .. Len(ask) : Messages(ask)[i] = WithLength(Payload(ask[i]))
  BY <1>1 DEF Messages
<1>. QED
  BY <1>1, <1>2, <1>3

LEMMA SaidFacts ==
  ASSUME NEW sd, SaidOK(sd)
  PROVE  /\ Len(sd) \in Nat /\ DOMAIN sd = 1 .. Len(sd)
         /\ \A i \in 1 .. Len(sd) :
              sd[i].val \in Answers /\ sd[i].val \in Values
              /\ Responses(sd)[i] = Response(sd[i].val)
         /\ \A i \in 1 .. Len(sd) :
              Response(sd[i].val) \in Seq(Cell) /\ Len(Response(sd[i].val)) > 0
<1>1. PICK S : sd \in Seq(S) /\ \A x \in S : x.val \in Answers
  BY DEF SaidOK
<1>2. Len(sd) \in Nat /\ DOMAIN sd = 1 .. Len(sd) /\ \A i \in 1 .. Len(sd) : sd[i] \in S
  BY <1>1, SeqFacts
<1>3. \A i \in 1 .. Len(sd) : sd[i].val \in Answers /\ sd[i].val \in Values
  BY <1>1, <1>2, TypesAssumption
<1>4. \A i \in 1 .. Len(sd) : Responses(sd)[i] = Response(sd[i].val)
  BY <1>2 DEF Responses
<1>5. ASSUME NEW i \in 1 .. Len(sd)
      PROVE  Response(sd[i].val) \in Seq(Cell) /\ Len(Response(sd[i].val)) > 0
  <2>1. Response(sd[i].val) \in Seq(Cell) /\ Len(Response(sd[i].val)) > Width
    BY <1>3, ShownType
  <2>2. Len(Response(sd[i].val)) \in Nat
    BY <2>1, SeqFacts
  <2>. QED
    BY <2>1, <2>2, CellsFacts
<1>. QED
  BY <1>2, <1>3, <1>4, <1>5

LEMMA SaidMore ==
  ASSUME NEW sd, SaidOK(sd), NEW x, x.val \in Answers
  PROVE  /\ SaidOK(Append(sd, x)) /\ Len(Append(sd, x)) = Len(sd) + 1
         /\ Append(sd, x)[Len(sd) + 1] = x
         /\ \A i \in 1 .. Len(sd) : Append(sd, x)[i] = sd[i]
<1>1. PICK S : sd \in Seq(S) /\ \A y \in S : y.val \in Answers
  BY DEF SaidOK
<1> DEFINE T == S \cup {x}
<1>2. S \subseteq T /\ x \in T /\ \A y \in T : y.val \in Answers
  BY <1>1
<1> HIDE DEF T
<1>3. sd \in Seq(T)
  BY <1>1, <1>2, SeqMonotonic
<1>4. /\ Append(sd, x) \in Seq(T) /\ Len(Append(sd, x)) = Len(sd) + 1
      /\ Append(sd, x)[Len(sd) + 1] = x /\ \A i \in 1 .. Len(sd) : Append(sd, x)[i] = sd[i]
  BY <1>2, <1>3
<1>. QED
  BY <1>2, <1>4 DEF SaidOK

(* Every request is one that is served, or refused. *)
LEMMA RequestCases ==
  ASSUME NEW r \in Requests
  PROVE  \/ \E cmd \in Commands : r = Command(cmd) /\ Len(cmd) <= MaxArgs /\ r \in ServedRequests
         \/ \E cmd \in Commands : r = Command(cmd) /\ ~(Len(cmd) <= MaxArgs) /\ r \in RefusedRequests
         \/ \E data \in Malformed : r = Raw(data) /\ r \in RefusedRequests
<1>1. CASE \E data \in Malformed : r = Raw(data)
  BY <1>1 DEF RefusedRequests
<1>2. CASE \E cmd \in Commands : r = Command(cmd)
  <2>1. PICK cmd \in Commands : r = Command(cmd)
    BY <1>2
  <2>2. Len(cmd) \in Nat /\ MaxArgs \in Nat
    BY TypesAssumption, ConstantsAssumption, SeqFacts
  <2>3. CASE Len(cmd) <= MaxArgs
    BY <2>1, <2>3 DEF ServedRequests
  <2>4. CASE ~(Len(cmd) <= MaxArgs)
    <3>1. Len(cmd) > MaxArgs
      BY <2>2, <2>4
    <3>. QED
      BY <2>1, <2>4, <3>1 DEF RefusedRequests
  <2>. QED
    BY <2>3, <2>4
<1>. QED
  BY <1>1, <1>2 DEF Requests

(* What the server makes of a request that arrives *)
LEMMA RequestRead ==
  ASSUME NEW r \in Requests, NEW data, data = Payload(r), Len(data) <= MaxMsg
  PROVE  \/ Fails(parse_req(data)) /\ r \in RefusedRequests
         \/ /\ ~Fails(parse_req(data)) /\ r \in ServedRequests
            /\ Command(parse_req(data).val) = r
<1>1. CASE \E cmd \in Commands : r = Command(cmd) /\ Len(cmd) <= MaxArgs /\ r \in ServedRequests
  <2>1. PICK cmd \in Commands : r = Command(cmd) /\ Len(cmd) <= MaxArgs /\ r \in ServedRequests
    BY <1>1
  <2>2. data = Payload(Command(cmd))
    BY <2>1
  <2>3. parse_req(data) = Read(Len(data) + 1, cmd)
    BY <2>1, <2>2, ParseBack
  <2>4. Len(data) \in Nat
    BY PayloadType, SeqFacts
  <2>5. Len(data) + 1 # -1
    BY <2>4
  <2>6. Read(Len(data) + 1, cmd).next = Len(data) + 1 /\ Read(Len(data) + 1, cmd).val = cmd
    BY DEF Read
  <2>. QED
    BY <2>1, <2>3, <2>5, <2>6 DEF Fails
<1>2. CASE \E cmd \in Commands : r = Command(cmd) /\ ~(Len(cmd) <= MaxArgs) /\ r \in RefusedRequests
  BY <1>2, ParseBack
<1>3. CASE \E d \in Malformed : r = Raw(d) /\ r \in RefusedRequests
  <2>1. PICK d \in Malformed : r = Raw(d) /\ r \in RefusedRequests
    BY <1>3
  <2>2. Payload(r) = d
    BY <2>1 DEF Payload, Raw
  <2>. QED
    BY <2>1, <2>2, MalformedAssumption
<1>. QED
  BY <1>1, <1>2, <1>3, RequestCases

(* The steps of the exchange, as they are seen at the two ends *)
LEMMA NoStep ==
  ASSUME UNCHANGED <<asked, said, heard>>,
         client' = client \/ (~Ended(client) /\ ~Ended(client'))
  PROVE  PromiseStep
<1>1. (IF ClientEnded THEN client ELSE "no")' = IF ClientEnded THEN client ELSE "no"
  BY DEF ClientEnded, Ended
<1>. QED
  BY <1>1 DEF PromiseStep, Promise!vars

LEMMA AskStep ==
  ASSUME ~Ended(client), NEW r \in Requests, asked' = Append(asked, r), UNCHANGED <<said, heard>>,
         client' = IF Len(Payload(r)) > MaxMsg THEN "failed" ELSE "sending"
  PROVE  PromiseStep
<1>1. r \in ServedRequests \cup RefusedRequests
  BY RequestCases
<1>2. r \in {q \in Requests : Len(Payload(q)) > MaxMsg} <=> Len(Payload(r)) > MaxMsg
  OBVIOUS
<1>3. Promise!Ask(r)
  BY <1>2 DEF Promise!Ask, ClientEnded, Ended
<1>4. Promise!Next
  BY <1>1, <1>3 DEF Promise!Next, ServedRequests, RefusedRequests
<1>. QED
  BY <1>4 DEF PromiseStep

LEMMA AnswerStep ==
  ASSUME NEW v \in Answers, NEW r, r \in ServedRequests, Len(said) < Len(asked),
         asked[Len(said) + 1] = r, said' = Append(said, [req |-> r, val |-> v]),
         UNCHANGED <<asked, heard, client>>
  PROVE  PromiseStep
<1>1. Promise!Answer(v)
  BY DEF Promise!Answer, ServedRequests, ClientEnded
<1>2. Promise!Next
  BY <1>1 DEF Promise!Next
<1>. QED
  BY <1>2 DEF PromiseStep

LEMMA HearStep ==
  ASSUME ~Ended(client), ~Ended(client'), Len(heard) < Len(said),
         said[Len(heard) + 1].val \in Answers,
         heard' = Append(heard, ShownOf(said[Len(heard) + 1].val)),
         UNCHANGED <<asked, said>>
  PROVE  PromiseStep
<1> DEFINE v == said[Len(heard) + 1].val
<1>1. [w \in Answers |-> IF Size(w) > MaxMsg THEN TooBig ELSE w][v] = ShownOf(v)
  BY DEF ShownOf
<1>2. Promise!Hear
  BY <1>1 DEF Promise!Hear, ClientEnded, Ended
<1>3. Promise!Next
  BY <1>2 DEF Promise!Next
<1>. QED
  BY <1>3 DEF PromiseStep

LEMMA DoneStep ==
  ASSUME ~Ended(client), client' = "done", Len(heard) = Len(asked), UNCHANGED <<asked, said, heard>>
  PROVE  PromiseStep
<1>1. Promise!Done
  BY DEF Promise!Done, ClientEnded, Ended
<1>2. Promise!Next
  BY <1>1 DEF Promise!Next
<1>. QED
  BY <1>2 DEF PromiseStep

LEMMA FailStep ==
  ASSUME ~Ended(client), client' = "failed", UNCHANGED <<asked, said, heard>>,
         \E i \in DOMAIN asked : asked[i] \in RefusedRequests
  PROVE  PromiseStep
<1>1. Promise!Fail
  BY DEF Promise!Fail, ClientEnded, Ended, RefusedRequests
<1>2. Promise!Next
  BY <1>1 DEF Promise!Next
<1>. QED
  BY <1>2 DEF PromiseStep

-----------------------------------------------------------------------------
(* Before anything is sent. *)
LEMMA XInit == Init => XInv /\ Promise!Init
<1> SUFFICES ASSUME Init PROVE XInv /\ Promise!Init
  OBVIOUS
<1>1. HardMin \in Nat /\ 0 \in Nat /\ 0 + 1 = 1 /\ Len(<<>>) = 0 /\ <<>> \in Seq(Cell)
  BY BoundFacts, EmptySeq
<1>2. readable_data(incoming) = <<>> /\ readable_data(outgoing) = <<>>
  BY <1>1, NewBufferKept DEF Init
<1>3. /\ client = "idle" /\ server = "wait" /\ want_close = FALSE /\ asked = <<>> /\ said = <<>>
      /\ heard = <<>> /\ c2s = <<>> /\ s2c = <<>> /\ wbuf = <<>> /\ rbuf = <<>>
  BY DEF Init
<1>4. (<<>> \o <<>>) \o <<>> = <<>> /\ <<>> \o <<>> = <<>>
  BY <1>1, ConcatEmptySeq
<1>5. \A m : Chain(<<>>, 0 + 1, 0, m)
  BY <1>1, ChainEmpty
<1>6. SentOK(<<>>, Live(want_close, server), client, asked, said)
  <2>1. \A i \in 1 .. 0 : Len(Payload(asked[i])) <= MaxMsg
    OBVIOUS
  <2>2. Len(said) = 0 /\ Len(asked) = 0 /\ 0 <= 0
    BY <1>1, <1>3
  <2>3. Chain(<<>>, Len(said) + 1, 0, Messages(asked))
    BY <1>5, <2>2
  <2>4. Sent(0, <<>>, Live(want_close, server), client, asked, said)
    BY <1>1, <2>1, <2>2, <2>3 DEF Sent
  <2>. QED
    BY <2>4 DEF SentOK
<1>7. ComingOK(<<>>, server = "closed", outgoing, client, heard, said)
  <2>1. Len(said) = 0 /\ Len(heard) = 0 /\ 0 <= 0
    BY <1>1, <1>3
  <2>2. Chain(<<>> \o <<>>, Len(heard) + 1, Len(said), Responses(said))
    BY <1>4, <1>5, <2>1
  <2>3. Coming(<<>>, <<>>, server = "closed", outgoing, heard, said)
    BY <1>1, <1>2, <2>2 DEF Coming
  <2>. QED
    BY <2>1, <2>3 DEF ComingOK
<1>8. ClosingOK(want_close, server, client, asked)
  BY <1>3 DEF ClosingOK
<1>9. XInv
  BY <1>2, <1>3, <1>4, <1>6, <1>7, <1>8 DEF XInv
<1>10. Promise!Init
  BY <1>3 DEF Promise!Init, ClientEnded
<1>. QED
  BY <1>9, <1>10

(* A request more is a message more behind the others. *)
LEMMA XSendReq ==
  ASSUME PInv, XInv, NEW r \in Requests, send_req(r)
  PROVE  XInv' /\ PromiseStep
<1>1. /\ client = "idle" /\ asked' = Append(asked, r)
      /\ client' = IF Len(Payload(r)) > MaxMsg THEN "failed" ELSE "sending"
      /\ wbuf' = IF Len(Payload(r)) > MaxMsg THEN wbuf ELSE WithLength(Payload(r))
      /\ UNCHANGED <<incoming, outgoing, want_close, server, said>>
      /\ UNCHANGED <<rbuf, heard, pipe, c2s, s2c>>
  BY DEF send_req, serverVars
<1>2. ClientOK(client, wbuf, rbuf, asked, heard) /\ SaidOK(said)
  BY DEF PInv
<1>3. asked \in Seq(Requests) /\ wbuf = <<>>
  BY <1>1, <1>2 DEF ClientOK
<1> DEFINE s == (readable_data(incoming) \o c2s) \o wbuf
           t == readable_data(incoming) \o c2s
           live == Live(want_close, server)
<1>4. PICK n : Sent(n, s, live, client, asked, said)
  BY DEF XInv, SentOK
<1>5. t \in Seq(Cell)
  BY KeptFacts, TwoPieces DEF PInv, ServerOK, PipeOK
<1>6. s = t
  BY <1>3, <1>5, ConcatEmptySeq
<1> HIDE DEF s, live
<1>7. /\ n \in Nat /\ n = Len(asked) /\ Len(said) <= n
      /\ \A i \in 1 .. n : Len(Payload(asked[i])) <= MaxMsg
      /\ live => Chain(t, Len(said) + 1, n, Messages(asked))
  BY <1>1, <1>4, <1>6 DEF Sent
<1>8. Len(said) \in Nat
  BY <1>2, SaidFacts
<1> HIDE DEF t
<1>9. /\ asked' \in Seq(Requests) /\ Len(asked') = n + 1 /\ asked'[n + 1] = r
      /\ \A i \in 1 .. n : asked'[i] = asked[i]
  BY <1>1, <1>3, <1>7
<1>10. \A i \in 1 .. n : Messages(asked')[i] = Messages(asked)[i]
  <2>1. n <= Len(asked') /\ \A i \in 1 .. n : i \in 1 .. Len(asked')
    BY <1>7, <1>9
  <2>. QED
    BY <1>3, <1>7, <1>9, <2>1, AskedFacts
<1>11. Messages(asked')[n + 1] = WithLength(Payload(r))
  <2>1. n + 1 \in 1 .. Len(asked')
    BY <1>7, <1>9
  <2>. QED
    BY <1>9, <2>1, AskedFacts
<1>12. Payload(r) \in Seq(Cell) /\ Len(Payload(r)) \in Nat /\ MaxMsg \in Nat
  BY PayloadType, SeqFacts, BoundFacts
<1>13. PICK a : a = Len(said) + 1
  OBVIOUS
<1>14. a \in 1 .. n + 1 /\ \A i \in a .. n : i \in 1 .. n
  BY <1>7, <1>8, <1>13
<1>15. SentOK((readable_data(incoming') \o c2s') \o wbuf',
              Live(want_close', server'), client', asked', said')
  <2>1. CASE Len(Payload(r)) > MaxMsg
    <3>1. client' = "failed" /\ wbuf' = wbuf
      BY <1>1, <2>1
    <3>2. live => Chain(t, a, n, Messages(asked'))
      <4> SUFFICES ASSUME live PROVE Chain(t, a, n, Messages(asked'))
        OBVIOUS
      <4>1. Chain(t, a, n, Messages(asked))
        BY <1>7, <1>13
      <4>2. \A i \in a .. n : Messages(asked')[i] = Messages(asked)[i]
        BY <1>10, <1>14
      <4>. QED
        BY <1>7, <1>14, <4>1, <4>2, ChainSame
    <3>3. Sent(n, t, live, client', asked', said)
      BY <1>7, <1>9, <1>13, <3>1, <3>2 DEF Sent
    <3>4. (readable_data(incoming') \o c2s') \o wbuf' = t
      BY <1>1, <1>6, <3>1 DEF s
    <3>5. Live(want_close', server') = live /\ said' = said
      BY <1>1 DEF live
    <3>. QED
      BY <3>3, <3>4, <3>5 DEF SentOK
  <2>2. CASE ~(Len(Payload(r)) > MaxMsg)
    <3> DEFINE x == WithLength(Payload(r))
               c == n + 1
    <3>1. Len(Payload(r)) <= MaxMsg /\ wbuf' = x /\ x \in Seq(Cell)
      BY <1>1, <1>12, <2>2, LengthFacts
    <3>2. Messages(asked')[c] = x
      BY <1>11
    <3>3. \A i \in 1 .. c : Len(Payload(asked'[i])) <= MaxMsg
      <4>1. \A i \in 1 .. c : i \in 1 .. n \/ i = c
        BY <1>7
      <4>. QED
        BY <1>7, <1>9, <3>1, <4>1
    <3>4. c \in Nat /\ Len(said) <= c /\ c = Len(asked') /\ c <= Len(asked')
      BY <1>7, <1>8, <1>9
    <3>5. c = n + 1
      OBVIOUS
    <3> HIDE DEF x, c
    <3>6. live => Chain(t \o x, a, c, Messages(asked'))
      <4> SUFFICES ASSUME live PROVE Chain(t \o x, a, c, Messages(asked'))
        OBVIOUS
      <4>1. Chain(t, a, n, Messages(asked))
        BY <1>7, <1>13
      <4>2. \A i \in a .. n : Messages(asked')[i] = Messages(asked)[i]
        BY <1>10, <1>14
      <4>3. PICK w : w = Messages(asked')
        OBVIOUS
      <4>4. w[c] = x /\ w[c] \in Seq(Cell) /\ \A i \in a .. n : w[i] = Messages(asked)[i]
        BY <3>1, <3>2, <4>2, <4>3
      <4>5. Chain(t \o w[c], a, c, w)
        BY <1>7, <1>14, <3>5, <4>1, <4>4, ChainAppend
      <4>. QED
        BY <4>3, <4>4, <4>5
    <3>7. Sent(c, t \o x, live, client', asked', said)
      BY <1>13, <3>3, <3>4, <3>6 DEF Sent
    <3>8. (readable_data(incoming') \o c2s') \o wbuf' = t \o x
      BY <1>1, <3>1 DEF t
    <3>9. Live(want_close', server') = live /\ said' = said
      BY <1>1 DEF live
    <3>. QED
      BY <3>7, <3>8, <3>9 DEF SentOK
  <2>. QED
    BY <2>1, <2>2
<1>16. ComingOK(rbuf' \o s2c', server' = "closed", outgoing', client', heard', said')
  BY <1>1 DEF XInv, ComingOK, Ended
<1>17. ClosingOK(want_close', server', client', asked')
  <2>1. ASSUME NEW i \in DOMAIN asked, asked[i] \in RefusedRequests
        PROVE  \E j \in DOMAIN asked' : asked'[j] \in RefusedRequests
    <3>1. i \in 1 .. n /\ i \in DOMAIN asked'
      BY <1>3, <1>7, <1>9, SeqFacts
    <3>2. asked'[i] \in RefusedRequests
      BY <1>9, <2>1, <3>1
    <3>. QED
      BY <3>1, <3>2
  <2>. QED
    BY <1>1, <2>1 DEF XInv, ClosingOK, Ended
<1>18. PromiseStep
  BY <1>1, AskStep DEF Ended
<1>. QED
  BY <1>15, <1>16, <1>17, <1>18 DEF XInv

(* Steps that keep the two streams, and who knows of them. *)
LEMMA XParts ==
  ASSUME XInv, UNCHANGED <<asked, said, heard>>, want_close' = want_close,
         Live(want_close', server') => Live(want_close, server),
         server' = "close" => server = "close" \/ want_close,
         server' = "closed" => server = "closed" \/ Ended(client') \/ server = "close",
         server = "closed" => server' = "closed",
         Ended(client) => Ended(client'),
         client = "failed" => client' = "failed",
         Live(want_close', server') =>
           (readable_data(incoming') \o c2s') \o wbuf' = (readable_data(incoming) \o c2s) \o wbuf,
         NEW rest,
         ~Ended(client') =>
           Coming(rest, rbuf' \o s2c', server' = "closed", outgoing', heard', said')
  PROVE  XInv'
<1>1. SentOK((readable_data(incoming') \o c2s') \o wbuf',
             Live(want_close', server'), client', asked', said')
  <2> DEFINE s == (readable_data(incoming) \o c2s) \o wbuf
             u == (readable_data(incoming') \o c2s') \o wbuf'
             live == Live(want_close, server)
             next == Live(want_close', server')
  <2>1. PICK n : Sent(n, s, live, client, asked, said)
    BY DEF XInv, SentOK
  <2>2. next => live /\ u = s
    OBVIOUS
  <2> HIDE DEF s, u, live, next
  <2>3. Sent(n, u, next, client', asked', said')
    BY <2>1, <2>2 DEF Sent
  <2>. QED
    BY <2>3 DEF SentOK, u, next
<1>2. ComingOK(rbuf' \o s2c', server' = "closed", outgoing', client', heard', said')
  <2>1. Len(heard') <= Len(said')
    BY DEF XInv, ComingOK
  <2>. QED
    BY <2>1 DEF ComingOK
<1>3. ClosingOK(want_close', server', client', asked')
  BY DEF XInv, ClosingOK
<1>. QED
  BY <1>1, <1>2, <1>3 DEF XInv

(* What the client still has to write goes on; after the server has closed *)
(* it is dropped, and what was on its way back is lost.                    *)
LEMMA XWriteAll ==
  ASSUME PInv, XInv, write_all
  PROVE  XInv' /\ PromiseStep
<1>1. /\ client = "sending" /\ UNCHANGED <<incoming, outgoing, want_close, server, said>>
      /\ UNCHANGED <<rbuf, asked, heard, pipe>>
  BY DEF write_all, serverVars
<1>2. /\ wbuf \in Seq(Cell) /\ c2s \in Seq(Cell) /\ s2c \in Seq(Cell) /\ rbuf \in Seq(Cell)
      /\ pipe \in Pipes /\ Len(c2s) <= pipe.room /\ readable_data(incoming) \in Seq(Cell)
  BY KeptFacts DEF PInv, ClientOK, PipeOK, ServerOK
<1>3. Len(wbuf) \in Nat /\ Len(c2s) \in Nat /\ pipe.room \in Nat
  BY <1>2, SeqFacts, ConstantsAssumption
<1>4. PICK rest : Coming(rest, rbuf \o s2c, server = "closed", outgoing, heard, said)
  BY <1>1 DEF XInv, ComingOK, Ended
<1> DEFINE n == Smaller(Len(wbuf), pipe.room - Len(c2s))
<1>5. CASE /\ server # "closed" /\ n > 0
           /\ c2s' = c2s \o Take(wbuf, n)
           /\ wbuf' = Skip(wbuf, n)
           /\ client' = IF n = Len(wbuf) THEN "idle" ELSE "sending"
           /\ UNCHANGED s2c
  <2>1. n \in 0 .. Len(wbuf)
    BY <1>3, <1>5 DEF Smaller
  <2> HIDE DEF n
  <2>2. (readable_data(incoming') \o c2s') \o wbuf' = (readable_data(incoming) \o c2s) \o wbuf
    <3>1. PICK t, x, y : t = readable_data(incoming) /\ x = wbuf /\ y = c2s
      OBVIOUS
    <3>2. t \in Seq(Cell) /\ x \in Seq(Cell) /\ y \in Seq(Cell) /\ n \in 0 .. Len(x)
      BY <1>2, <2>1, <3>1
    <3>3. Moved(t, y, x, n)
      BY ONLY <3>2, MovedOver
    <3>. QED
      BY <1>1, <1>5, <3>1, <3>3 DEF Moved
  <2>3. XInv'
    <3>1. Coming(rest, rbuf' \o s2c', server' = "closed", outgoing', heard', said')
      BY <1>1, <1>4, <1>5
    <3>. QED
      BY <1>1, <1>5, <2>2, <3>1, XParts DEF Ended
  <2>4. PromiseStep
    BY <1>1, <1>5, NoStep DEF Ended
  <2>. QED
    BY <2>3, <2>4
<1>6. CASE /\ server = "closed"
           /\ wbuf' = <<>> /\ s2c' = <<>> /\ client' \in {"idle", "failed"}
           /\ UNCHANGED c2s
  <2> DEFINE more == s2c \o rest
  <2>1. Coming(more, rbuf' \o s2c', server' = "closed", outgoing', heard', said')
    <3>1. rest \in Seq(Cell)
      BY <1>4 DEF Coming
    <3>2. more \in Seq(Cell)
      BY <1>2, <3>1, TwoPieces
    <3>3. rbuf' \o s2c' = rbuf
      BY <1>1, <1>2, <1>6, ConcatEmptySeq
    <3>4. (rbuf \o s2c) \o rest = rbuf \o more
      BY <1>2, <3>1, InARow
    <3> HIDE DEF more
    <3>. QED
      BY <1>1, <1>4, <1>6, <3>2, <3>3, <3>4 DEF Coming
  <2> HIDE DEF more
  <2>2. XInv'
    BY <1>1, <1>6, <2>1, XParts DEF Ended, Live
  <2>3. PromiseStep
    <3>1. CASE client' = "idle"
      BY <1>1, <3>1, NoStep DEF Ended
    <3>2. CASE client' = "failed"
      <4>1. \E i \in DOMAIN asked : asked[i] \in RefusedRequests
        BY <1>1, <1>6 DEF XInv, ClosingOK, Ended
      <4>. QED
        BY <1>1, <3>2, <4>1, FailStep DEF Ended
    <3>. QED
      BY <1>6, <3>1, <3>2
  <2>. QED
    BY <2>2, <2>3
<1>. QED
  BY <1>5, <1>6 DEF write_all

(* What read() returns goes on to the client. *)
LEMMA XReadFull ==
  ASSUME PInv, XInv, read_full
  PROVE  XInv' /\ PromiseStep
<1> DEFINE n == Smaller(Len(s2c), MessageSize(rbuf) - Len(rbuf))
<1>1. /\ client = "reading" /\ n > 0 /\ rbuf' = rbuf \o Take(s2c, n) /\ s2c' = Skip(s2c, n)
      /\ UNCHANGED <<incoming, outgoing, want_close, server, said>>
      /\ UNCHANGED <<client, wbuf, asked, heard, pipe, c2s>>
  BY DEF read_full, serverVars
<1>2. rbuf \in Seq(Cell) /\ s2c \in Seq(Cell) /\ Len(rbuf) \in Nat /\ Len(s2c) \in Nat
  BY SeqFacts DEF PInv, ClientOK, PipeOK
<1>3. MessageSize(rbuf) \in Nat
  BY <1>2, SizeType
<1>4. n \in 0 .. Len(s2c)
  BY <1>1, <1>2, <1>3 DEF Smaller
<1> HIDE DEF n
<1>5. rbuf' \o s2c' = rbuf \o s2c
  BY <1>1, <1>2, <1>4, MovedOn
<1>6. PICK rest : Coming(rest, rbuf \o s2c, server = "closed", outgoing, heard, said)
  BY <1>1 DEF XInv, ComingOK, Ended
<1>7. Coming(rest, rbuf' \o s2c', server' = "closed", outgoing', heard', said')
  BY <1>1, <1>5, <1>6
<1>8. XInv'
  BY <1>1, <1>7, XParts DEF Ended
<1>9. PromiseStep
  BY <1>1, NoStep
<1>. QED
  BY <1>8, <1>9

(* The client waits for a response, or ends. *)
LEMMA XOtherClient ==
  ASSUME PInv, XInv, read_res \/ ReadFails \/ Finish
  PROVE  XInv' /\ PromiseStep
<1>1. /\ UNCHANGED <<incoming, outgoing, want_close, server, said>>
      /\ UNCHANGED <<wbuf, rbuf, asked, heard, pipe, c2s, s2c>>
      /\ client \in {"idle", "reading"} /\ client' \in {"reading", "done", "failed"}
      /\ client' = "done" => Len(heard) = Len(asked)
      /\ client' = "failed" => server = "closed"
  BY DEF read_res, ReadFails, Finish, serverVars
<1>2. PICK rest : Coming(rest, rbuf \o s2c, server = "closed", outgoing, heard, said)
  BY <1>1 DEF XInv, ComingOK, Ended
<1>3. Coming(rest, rbuf' \o s2c', server' = "closed", outgoing', heard', said')
  BY <1>1, <1>2
<1>4. XInv'
  BY <1>1, <1>3, XParts DEF Ended
<1>5. CASE client' = "reading"
  <2>1. PromiseStep
    BY <1>1, <1>5, NoStep DEF Ended
  <2>. QED
    BY <1>4, <2>1
<1>6. CASE client' = "done"
  <2>1. PromiseStep
    BY <1>1, <1>6, DoneStep DEF Ended
  <2>. QED
    BY <1>4, <2>1
<1>7. CASE client' = "failed"
  <2>1. \E i \in DOMAIN asked : asked[i] \in RefusedRequests
    BY <1>1, <1>7 DEF XInv, ClosingOK, Ended
  <2>2. PromiseStep
    BY <1>1, <1>7, <2>1, FailStep DEF Ended
  <2>. QED
    BY <1>4, <2>2
<1>. QED
  BY <1>1, <1>5, <1>6, <1>7

(* What has arrived of a message says how long it is, *)
LEMMA MessageAhead ==
  ASSUME NEW x \in Seq(Cell), Len(x) <= MaxMsg, NEW w, w = WithLength(x),
         NEW s \in Seq(Cell), NEW y \in Seq(Cell), NEW z \in Seq(Cell), s \o y = w \o z,
         Len(s) >= Width
  PROVE  Number(Take(s, Width)) = Len(x) /\ MessageSize(s) = Width + Len(x)
<1>1. w \in Seq(Cell) /\ Len(w) = Width + Len(x) /\ Number(Take(w, Width)) = Len(x)
  BY LengthFacts
<1>2. Width \in 0 .. Len(s) /\ Width \in 0 .. Len(w)
  BY <1>1, SeqFacts, CellsFacts
<1>3. Take(s \o y, Width) = Take(s, Width) /\ Take(w \o z, Width) = Take(w, Width)
  BY <1>1, <1>2, TakeOfTwo
<1>4. Number(Take(s, Width)) = Len(x)
  BY <1>1, <1>3
<1>5. ~(Len(s) < Width)
  BY <1>2, SeqFacts, CellsFacts
<1>. QED
  BY <1>4, <1>5 DEF MessageSize

(* and all of it what it is. *)
WholeMessage(x, w, s, y, z, k) ==
  /\ Take(s, k) = w /\ Skip(s, k) \o y = z
  /\ SubSeq(s, Width + 1, k) = x /\ Skip(w, Width) = x

LEMMA MessageWhole ==
  ASSUME NEW x \in Seq(Cell), Len(x) <= MaxMsg, NEW w, w = WithLength(x),
         NEW s \in Seq(Cell), NEW y \in Seq(Cell), NEW z \in Seq(Cell), s \o y = w \o z,
         NEW k, k = Width + Len(x), Len(s) >= k
  PROVE  WholeMessage(x, w, s, y, z, k)
<1> DEFINE r == Skip(s, k)
           u == U32(Len(x))
<1>1. w \in Seq(Cell) /\ Len(w) = k
  BY LengthFacts
<1>2. Len(x) \in Nat /\ Len(s) \in Nat /\ Width \in Nat /\ k \in Nat
  BY SeqFacts, CellsFacts
<1>3. k \in 0 .. Len(s)
  BY <1>2
<1>4. Take(s \o y, k) = Take(s, k) /\ Skip(s \o y, k) = r \o y
  BY <1>3, TakeOfTwo, SkipOfTwo
<1>5. Take(w \o z, k) = w /\ Skip(w \o z, k) = z
  BY <1>1, SplitTwo
<1>6. Take(s, k) = w /\ r \o y = z
  BY <1>4, <1>5
<1>7. r \in Seq(Cell) /\ Take(s, k) \o r = s
  BY <1>3, SkipFacts, TakeThenSkip
<1>8. u \in Seq(Cell) /\ Len(u) = Width
  BY <1>2, U32Facts
<1>9. w = u \o x
  BY DEF WithLength
<1> HIDE DEF r, u
<1>10. (u \o x) \o r = u \o (x \o r) /\ x \o r \in Seq(Cell)
  BY <1>7, <1>8, InARow, TwoPieces
<1>11. s = u \o (x \o r)
  BY <1>6, <1>7, <1>9, <1>10
<1>12. Skip(s, Width) = x \o r
  <2>1. PICK v : v = x \o r
    OBVIOUS
  <2>2. Skip(u \o v, Width) = v
    <3>1. v \in Seq(Cell) /\ u \in Seq(Cell) /\ Width = Len(u)
      BY <1>8, <1>10, <2>1
    <3>. QED
      BY ONLY <3>1, SplitTwo
  <2>. QED
    BY <1>11, <2>1, <2>2
<1>13. Skip(w, Width) = x
  BY <1>8, <1>9, SplitTwo
<1>14. PICK i, n : i = Width + 1 /\ n = Len(x)
  OBVIOUS
<1>15. Lies(s, i, x \o r)
  <2>1. i \in 1 .. Len(s) + 1 /\ i - 1 = Width
    BY <1>2, <1>14
  <2>. QED
    BY <1>12, <2>1 DEF Lies
<1>16. LiesBehind(s, i, x, r, n)
  BY <1>7, <1>14, <1>15, LiesPiece
<1>17. SubSeq(s, Width + 1, k) = x
  <2>1. SubSeq(s, i, i + n - 1) = x
    BY <1>16 DEF LiesBehind, At
  <2>2. i + n - 1 = k
    BY <1>2, <1>14
  <2>. QED
    BY <1>14, <2>1, <2>2
<1>. QED
  BY <1>6, <1>13, <1>17 DEF r, WholeMessage

(* A response that is read to its end is the next one, and nothing more. *)
Printed(s, y, v, z) ==
  /\ y = z /\ MessageSize(s) <= Width + MaxMsg
  /\ print_response(Skip(s, Width)) = Read(Len(s) - Width + 1, ShownOf(v))

LEMMA ResponseIs ==
  ASSUME NEW v \in Values, NEW s \in Seq(Cell), NEW y \in Seq(Cell), NEW z \in Seq(Cell),
         s \o y = Response(v) \o z,
         Len(s) >= Width, Len(s) = MessageSize(s) \/ MessageSize(s) > Width + MaxMsg
  PROVE  Printed(s, y, v, z)
<1>1. PICK x : x = ValueCells(ShownOf(v))
  OBVIOUS
<1>2. PICK w : w = WithLength(x)
  OBVIOUS
<1>3. ShownOf(v) \in Values /\ x \in Seq(Cell) /\ Len(x) \in 1 .. MaxMsg /\ Response(v) = w
  BY <1>1, <1>2, ShownType DEF Response
<1>4. Len(x) \in Nat /\ Len(x) <= MaxMsg /\ MaxMsg \in Nat /\ Width \in Nat /\ Len(s) \in Nat
  BY <1>3, BoundFacts, SeqFacts
<1>5. s \o y = w \o z
  BY <1>3
<1>6. MessageSize(s) = Width + Len(x)
  BY <1>2, <1>3, <1>4, <1>5, MessageAhead
<1>7. MessageSize(s) <= Width + MaxMsg /\ Len(s) = Width + Len(x) /\ Len(s) - Width + 1 = Len(x) + 1
  <2>1. PICK d, m, n : d = MessageSize(s) /\ m = Len(x) /\ n = Len(s)
    OBVIOUS
  <2>2. /\ n = d \/ d > Width + MaxMsg
        /\ d = Width + m /\ m \in Nat /\ m <= MaxMsg /\ MaxMsg \in Nat /\ Width \in Nat /\ n \in Nat
    BY <1>4, <1>6, <2>1
  <2>3. d <= Width + MaxMsg /\ n = Width + m /\ n - Width + 1 = m + 1
    BY ONLY <2>2
  <2>. QED
    BY <2>1, <2>3
<1>8. PICK k : k = Width + Len(x)
  OBVIOUS
<1>9. Len(s) = k /\ Len(s) >= k
  BY <1>4, <1>7, <1>8
<1>10. Take(s, k) = w /\ Skip(s, k) \o y = z /\ Skip(w, Width) = x
  <2>1. /\ x \in Seq(Cell) /\ Len(x) <= MaxMsg /\ w = WithLength(x) /\ s \in Seq(Cell)
        /\ y \in Seq(Cell) /\ z \in Seq(Cell) /\ s \o y = w \o z
        /\ k = Width + Len(x) /\ Len(s) >= k
    BY <1>2, <1>3, <1>4, <1>5, <1>8, <1>9
  <2>2. WholeMessage(x, w, s, y, z, k)
    BY ONLY <2>1, MessageWhole
  <2>. QED
    BY <2>2 DEF WholeMessage
<1>11. s = w
  BY <1>9, <1>10, TakeAll
<1>12. y = z
  <2>1. Skip(s, k) \in Seq(Cell) /\ Len(Skip(s, k)) = 0
    <3>1. k \in 0 .. Len(s)
      BY <1>4, <1>9
    <3>2. Skip(s, k) \in Seq(Cell) /\ Len(Skip(s, k)) = Len(s) - k
      BY <3>1, SkipFacts
    <3>. QED
      BY <1>4, <1>9, <3>2
  <2>2. Skip(s, k) = <<>>
    BY <2>1, EmptySeq
  <2>. QED
    BY <1>10, <2>2, ConcatEmptySeq
<1>13. print_response(x) = Read(Len(x) + 1, ShownOf(v))
  BY <1>1, <1>3, <1>4, PrintBack
<1>14. print_response(Skip(s, Width)) = Read(Len(s) - Width + 1, ShownOf(v))
  BY <1>7, <1>10, <1>11, <1>13
<1>. QED
  BY <1>7, <1>12, <1>14 DEF Printed

(* What the client prints is what the command answered, or that it was too *)
(* long; it never fails over a response.                                   *)
LEMMA XPrintResponse ==
  ASSUME PInv, XInv, PrintResponse
  PROVE  XInv' /\ PromiseStep
<1> DEFINE res == print_response(Skip(rbuf, Width))
           fine == MessageSize(rbuf) <= Width + MaxMsg /\ res.next = Len(rbuf) - Width + 1
<1>1. /\ client = "reading" /\ rbuf' = <<>>
      /\ Len(rbuf) >= Width
      /\ Len(rbuf) = MessageSize(rbuf) \/ MessageSize(rbuf) > Width + MaxMsg
      /\ UNCHANGED <<incoming, outgoing, want_close, server, said>>
      /\ UNCHANGED <<wbuf, asked, pipe, c2s, s2c>>
      /\ fine => client' = "idle" /\ heard' = Append(heard, res.val)
  BY DEF PrintResponse, ResponseRead, serverVars
<1> HIDE DEF res, fine
<1>2. rbuf \in Seq(Cell) /\ s2c \in Seq(Cell) /\ SaidOK(said) /\ Len(rbuf) \in Nat
  BY SeqFacts DEF PInv, ClientOK, PipeOK
<1>3. PICK S : heard \in Seq(S)
  BY DEF PInv, ClientOK
<1>4. PICK rest : Coming(rest, rbuf \o s2c, server = "closed", outgoing, heard, said)
  BY <1>1 DEF XInv, ComingOK, Ended
<1>5. PICK b, h, m : b = Len(said) /\ h = Len(heard) /\ m = Responses(said)
  OBVIOUS
<1>6. /\ b \in Nat /\ h \in Nat /\ h <= b
      /\ \A i \in 1 .. b : said[i].val \in Answers /\ said[i].val \in Values
      /\ \A i \in 1 .. b : m[i] = Response(said[i].val)
      /\ \A i \in 1 .. b : m[i] \in Seq(Cell) /\ Len(m[i]) > 0
  <2>1. h <= b
    BY <1>5 DEF XInv, ComingOK
  <2>2. h \in Nat
    BY <1>3, <1>5, SeqFacts
  <2>. QED
    BY <1>2, <1>5, <2>1, <2>2, SaidFacts
<1>7. PICK a : a = h + 1
  OBVIOUS
<1>8. PICK y : y = s2c \o rest
  OBVIOUS
<1>9. PICK s : s = rbuf \o y
  OBVIOUS
<1>10. rest \in Seq(Cell) /\ y \in Seq(Cell) /\ s \in Seq(Cell) /\ Len(s) = Len(rbuf) + Len(y)
  BY <1>2, <1>4, <1>8, <1>9, TwoPieces DEF Coming
<1>11. (rbuf \o s2c) \o rest = s
  BY <1>2, <1>8, <1>9, <1>10, InARow
<1>12. Chain(s, a, b, m)
  BY <1>4, <1>5, <1>7, <1>11 DEF Coming
<1>13. a \in 1 .. b + 1 /\ a .. b \subseteq 1 .. b
  BY <1>6, <1>7
<1>14. s # <<>>
  <2>1. Len(y) \in Nat
    BY <1>10, SeqFacts
  <2>2. Len(s) > 0
    BY <1>1, <1>2, <1>10, <2>1, CellsFacts
  <2>. QED
    BY <2>2, EmptySeq
<1>15. a # b + 1
  <2>1. \A i \in a .. b : Len(m[i]) > 0
    BY <1>6, <1>13
  <2>. QED
    BY <1>6, <1>12, <1>13, <1>14, <2>1, ChainNothing
<1>16. a \in 1 .. b
  BY <1>6, <1>13, <1>15
<1>17. PICK z : ChainWith(s, z, a, b, m)
  BY <1>6, <1>12, <1>16, ChainFirst
<1>18. PICK v : v = said[a].val
  OBVIOUS
<1>19. v \in Answers /\ v \in Values /\ m[a] = Response(v)
  BY <1>6, <1>16, <1>18
<1>20. s = Response(v) \o z /\ z \in Seq(Cell) /\ Chain(z, a + 1, b, m)
  BY <1>17, <1>19 DEF ChainWith
<1>21. rbuf \o y = Response(v) \o z
  BY <1>9, <1>20
<1>22. Printed(rbuf, y, v, z)
  BY <1>1, <1>2, <1>10, <1>19, <1>20, <1>21, ResponseIs
<1>23. fine /\ res.val = ShownOf(v) /\ y = z
  BY <1>22 DEF Printed, fine, res, Read
<1>24. client' = "idle" /\ heard' = Append(heard, ShownOf(v))
  BY <1>1, <1>23
<1>25. Len(heard') = a
  <2>1. PICK T : T = S \cup {ShownOf(v)}
    OBVIOUS
  <2>2. heard \in Seq(T) /\ ShownOf(v) \in T
    <3>1. S \subseteq T
      BY <2>1
    <3>. QED
      BY <1>3, <2>1, <3>1, SeqMonotonic
  <2>3. Len(Append(heard, ShownOf(v))) = Len(heard) + 1
    BY <2>2
  <2>. QED
    BY <1>5, <1>7, <1>24, <2>3
<1>26. SentOK((readable_data(incoming') \o c2s') \o wbuf',
              Live(want_close', server'), client', asked', said')
  <2>1. PICK n : Sent(n, (readable_data(incoming) \o c2s) \o wbuf,
                      Live(want_close, server), client, asked, said)
    BY DEF XInv, SentOK
  <2>2. Sent(n, (readable_data(incoming') \o c2s') \o wbuf',
             Live(want_close', server'), client', asked', said')
    BY <1>1, <1>24, <2>1 DEF Sent
  <2>. QED
    BY <2>2 DEF SentOK
<1>27. ComingOK(rbuf' \o s2c', server' = "closed", outgoing', client', heard', said')
  <2>1. rbuf' \o s2c' = s2c
    BY <1>1, <1>2, ConcatEmptySeq
  <2>2. Chain(s2c \o rest, Len(heard') + 1, Len(said'), Responses(said'))
    BY <1>1, <1>5, <1>8, <1>20, <1>23, <1>25
  <2>3. Coming(rest, rbuf' \o s2c', server' = "closed", outgoing', heard', said')
    BY <1>1, <1>4, <2>1, <2>2 DEF Coming
  <2>4. Len(heard') <= Len(said')
    BY <1>1, <1>5, <1>6, <1>16, <1>25
  <2>. QED
    BY <2>3, <2>4 DEF ComingOK
<1>28. ClosingOK(want_close', server', client', asked')
  BY <1>1, <1>24 DEF XInv, ClosingOK, Ended
<1>29. PromiseStep
  <2>1. Len(heard) < Len(said) /\ Len(heard) + 1 = a
    BY <1>5, <1>6, <1>7, <1>16
  <2>. QED
    BY <1>1, <1>18, <1>19, <1>24, <2>1, HearStep DEF Ended
<1>. QED
  BY <1>26, <1>27, <1>28, <1>29 DEF XInv

(* What is read goes on to the incoming buffer. *)
LEMMA XHandleRead ==
  ASSUME PInv, XInv, handle_read
  PROVE  XInv' /\ PromiseStep
<1>1. /\ server = "wait" /\ server' = "parse"
      /\ UNCHANGED <<outgoing, want_close, said, s2c>>
      /\ UNCHANGED <<client, wbuf, rbuf, asked, heard>>
  BY DEF handle_read, clientVars
<1>2. PICK n \in 1 .. Smaller(ReadMax, Len(c2s)) :
        incoming' = append(incoming, Take(c2s, n)) /\ c2s' = Skip(c2s, n)
  BY DEF handle_read
<1>3. Kept(incoming) /\ readable_data(incoming) \in Seq(Cell) /\ c2s \in Seq(Cell) /\ Len(c2s) \in Nat
  BY KeptFacts, SeqFacts DEF PInv, ServerOK, PipeOK
<1>4. n \in 0 .. Len(c2s) /\ n \in Nat /\ n > 0
  BY <1>3, BoundFacts DEF Smaller
<1>5. Take(c2s, n) \in Seq(Cell) /\ Len(Take(c2s, n)) = n
  BY <1>3, <1>4, TakeFacts
<1>6. readable_data(incoming') = readable_data(incoming) \o Take(c2s, n)
  BY <1>2, <1>3, <1>4, <1>5, KeptAppend
<1>7. readable_data(incoming') \o c2s' = readable_data(incoming) \o c2s
  BY <1>2, <1>3, <1>4, <1>6, MovedOn
<1>8. (readable_data(incoming') \o c2s') \o wbuf' = (readable_data(incoming) \o c2s) \o wbuf
  BY <1>1, <1>7
<1>9. PICK rest : ~Ended(client) =>
        Coming(rest, rbuf \o s2c, server = "closed", outgoing, heard, said)
  BY DEF XInv, ComingOK
<1>10. ~Ended(client') => Coming(rest, rbuf' \o s2c', server' = "closed", outgoing', heard', said')
  <2>1. (server' = "closed") = (server = "closed")
    BY <1>1
  <2>. QED
    BY <1>1, <1>9, <2>1
<1>11. XInv'
  BY <1>1, <1>8, <1>10, XParts DEF Live
<1>12. PromiseStep
  BY <1>1, NoStep
<1>. QED
  BY <1>11, <1>12

(* One of the two ends closes, and what was on its way may be lost. *)
LEMMA XEndings ==
  ASSUME PInv, XInv, ClientGone \/ conn_destroy
  PROVE  XInv' /\ PromiseStep
<1>1. /\ server' = "closed" /\ UNCHANGED <<incoming, outgoing, want_close, said, c2s>>
      /\ UNCHANGED <<client, wbuf, rbuf, asked, heard>>
      /\ server = "close" \/ Ended(client)
      /\ s2c' = s2c \/ s2c' = <<>>
  BY DEF ClientGone, conn_destroy, ClientEnded, Ended, clientVars
<1>2. rbuf \in Seq(Cell) /\ s2c \in Seq(Cell)
  BY DEF PInv, ClientOK, PipeOK
<1>3. \E rest : ~Ended(client') =>
        Coming(rest, rbuf' \o s2c', server' = "closed", outgoing', heard', said')
  <2>1. CASE Ended(client)
    BY <1>1, <2>1
  <2>2. CASE ~Ended(client)
    <3>1. PICK r : Coming(r, rbuf \o s2c, server = "closed", outgoing, heard, said)
      BY <2>2 DEF XInv, ComingOK
    <3>2. r \in Seq(Cell) /\ Chain((rbuf \o s2c) \o r, Len(heard) + 1, Len(said), Responses(said))
      BY <3>1 DEF Coming
    <3>3. CASE s2c' = s2c
      <4>1. Coming(r, rbuf' \o s2c', server' = "closed", outgoing', heard', said')
        BY <1>1, <3>2, <3>3 DEF Coming
      <4>. QED
        BY <4>1
    <3>4. CASE s2c' = <<>>
      <4>1. PICK x : x = s2c \o r
        OBVIOUS
      <4>2. x \in Seq(Cell) /\ (rbuf \o s2c) \o r = rbuf \o x
        BY <1>2, <3>2, <4>1, TwoPieces, InARow
      <4>3. rbuf' \o s2c' = rbuf
        BY <1>1, <1>2, <3>4, ConcatEmptySeq
      <4>4. Coming(x, rbuf' \o s2c', server' = "closed", outgoing', heard', said')
        BY <1>1, <3>2, <4>2, <4>3 DEF Coming
      <4>. QED
        BY <4>4
    <3>. QED
      BY <1>1, <3>3, <3>4
  <2>. QED
    BY <2>1, <2>2
<1>4. PICK rest : ~Ended(client') =>
        Coming(rest, rbuf' \o s2c', server' = "closed", outgoing', heard', said')
  BY <1>3
<1>5. XInv'
  BY <1>1, <1>4, XParts DEF Live
<1>6. PromiseStep
  BY <1>1, NoStep
<1>. QED
  BY <1>5, <1>6

(* The incoming buffer shrinks and keeps what there is to read. *)
LEMMA XEndOfRead ==
  ASSUME PInv, XInv, EndOfRead
  PROVE  XInv' /\ PromiseStep
<1>1. /\ server = "parse" /\ UNCHANGED <<outgoing, want_close, said, c2s, s2c>>
      /\ UNCHANGED <<client, wbuf, rbuf, asked, heard>>
      /\ server' \in {"flush", "close", "wait"} /\ (server' = "close" => want_close)
      /\ \/ incoming' = shrink_if_wasteful(incoming, HardMin)
         \/ incoming' = incoming
  BY DEF EndOfRead, AfterHandler, clientVars
<1>2. readable_data(incoming') = readable_data(incoming)
  <2>1. Kept(incoming)
    BY DEF PInv, ServerOK
  <2>2. readable_data(shrink_if_wasteful(incoming, HardMin)) = readable_data(incoming)
    BY <2>1, BoundFacts, KeptShrink
  <2>. QED
    BY <1>1, <2>2
<1>3. PICK rest : ~Ended(client) =>
        Coming(rest, rbuf \o s2c, server = "closed", outgoing, heard, said)
  BY DEF XInv, ComingOK
<1>4. ~Ended(client') => Coming(rest, rbuf' \o s2c', server' = "closed", outgoing', heard', said')
  <2>1. (server' = "closed") = (server = "closed")
    BY <1>1
  <2>. QED
    BY <1>1, <1>3, <2>1
<1>5. XInv'
  BY <1>1, <1>2, <1>4, XParts DEF Live
<1>6. PromiseStep
  BY <1>1, NoStep
<1>. QED
  BY <1>5, <1>6

(* What is written goes on from the outgoing buffer. *)
LEMMA XHandleWrite ==
  ASSUME PInv, XInv, handle_write
  PROVE  XInv' /\ PromiseStep
<1> DEFINE room == pipe.room - Len(s2c)
           t == readable_data(outgoing)
<1>1. /\ server \in {"flush", "wait"} /\ UNCHANGED <<incoming, want_close, said, c2s>>
      /\ UNCHANGED <<client, wbuf, rbuf, asked, heard>>
      /\ server' \in {"close", "wait"} /\ (server' = "close" => want_close)
      /\ server' = "wait" => ~want_close
  BY DEF handle_write, AfterHandler, clientVars
<1>2. PICK n \in (IF room = 0 THEN {0} ELSE 1 .. Smaller(room, readable_size(outgoing))) :
             /\ s2c' = s2c \o Take(t, n)
             /\ outgoing' = LET rest == consume(outgoing, n)
                            IN IF readable_size(rest) = 0 THEN shrink_if_wasteful(rest, WorthIt)
                               ELSE rest
  BY DEF handle_write
<1>3. /\ Kept(outgoing) /\ t \in Seq(Cell) /\ readable_size(outgoing) \in Nat
      /\ Len(t) = readable_size(outgoing) /\ s2c \in Seq(Cell) /\ rbuf \in Seq(Cell)
  BY KeptFacts DEF PInv, ServerOK, PipeOK, ClientOK
<1>4. n \in 0 .. Len(t) /\ n \in 0 .. readable_size(outgoing)
  <2>1. Len(s2c) \in Nat /\ pipe.room \in Nat
    BY <1>3, SeqFacts, ConstantsAssumption DEF PInv, PipeOK
  <2>2. PICK x, y, r : x = pipe.room /\ y = Len(s2c) /\ r = readable_size(outgoing)
    OBVIOUS
  <2>3. /\ x \in Nat /\ y \in Nat /\ r \in Nat
        /\ n \in (IF x - y = 0 THEN {0} ELSE 1 .. Smaller(x - y, r))
    BY <1>2, <1>3, <2>1, <2>2
  <2>4. n \in 0 .. r
    BY ONLY <2>3 DEF Smaller
  <2>. QED
    BY <1>3, <2>2, <2>4
<1>5. readable_data(outgoing') = Skip(t, n)
  <2>1. PICK e : e = consume(outgoing, n)
    OBVIOUS
  <2>2. Kept(e) /\ readable_data(e) = Skip(t, n)
    BY <1>3, <1>4, <2>1, KeptConsume
  <2>3. readable_data(shrink_if_wasteful(e, WorthIt)) = readable_data(e)
    BY <2>2, BoundFacts, KeptShrink
  <2>. QED
    BY <1>2, <2>1, <2>2, <2>3
<1>6. (rbuf' \o s2c') \o Skip(t, n) = (rbuf \o s2c) \o t
  <2>1. PICK x, y, u, k : x = rbuf /\ y = s2c /\ u = t /\ k = n
    OBVIOUS
  <2>2. x \in Seq(Cell) /\ y \in Seq(Cell) /\ u \in Seq(Cell) /\ k \in 0 .. Len(u)
    BY <1>3, <1>4, <2>1
  <2>3. Moved(x, y, u, k)
    BY ONLY <2>2, MovedOver
  <2>. QED
    BY <1>1, <1>2, <2>1, <2>3 DEF Moved
<1>7. Skip(t, n) \in Seq(Cell)
  BY <1>3, <1>4, SkipFacts
<1> HIDE DEF t
<1>8. PICK rest : ~Ended(client) =>
        Coming(rest, rbuf \o s2c, server = "closed", outgoing, heard, said)
  BY DEF XInv, ComingOK
<1>9. ~Ended(client') =>
         Coming(Skip(t, n), rbuf' \o s2c', server' = "closed", outgoing', heard', said')
  <2> SUFFICES ASSUME ~Ended(client')
               PROVE  Coming(Skip(t, n), rbuf' \o s2c', server' = "closed", outgoing', heard', said')
    OBVIOUS
  <2>1. Coming(rest, rbuf \o s2c, server = "closed", outgoing, heard, said)
    BY <1>1, <1>8
  <2>2. rest = t /\ Chain((rbuf \o s2c) \o rest, Len(heard) + 1, Len(said), Responses(said))
    BY <1>1, <2>1 DEF Coming, t
  <2>3. Chain((rbuf' \o s2c') \o Skip(t, n), Len(heard') + 1, Len(said'), Responses(said'))
    BY <1>1, <1>6, <2>2
  <2>. QED
    BY <1>5, <1>7, <2>3 DEF Coming
<1>10. XInv'
  BY <1>1, <1>9, XParts DEF Live
<1>11. PromiseStep
  BY <1>1, NoStep
<1>. QED
  BY <1>10, <1>11

(* The first message that is whole is the first request that has no answer *)
(* yet, as it was asked; t is what there is to read, z the stream behind   *)
(* the request.                                                            *)
NextRequest(n, a, r, z) ==
  /\ Sent(n, (readable_data(incoming) \o c2s) \o wbuf, TRUE, client, asked, said)
  /\ a = Len(said) + 1 /\ a \in 1 .. n /\ n \in Nat
  /\ r \in Requests /\ r = asked[a]
  /\ Len(Payload(r)) <= MaxMsg
  /\ RequestBody = Payload(r)
  /\ Width + NextLength \in 0 .. readable_size(incoming)
  /\ z = (Skip(readable_data(incoming), Width + NextLength) \o c2s) \o wbuf
  /\ Chain(z, a + 1, n, Messages(asked))

LEMMA NextRequestIs ==
  ASSUME PInv, XInv, Live(want_close, server), HasRequest
  PROVE  \E n, a, r, z : NextRequest(n, a, r, z)
<1>1. PICK t, y, s, m, a, k : /\ t = readable_data(incoming) /\ y = c2s \o wbuf
                              /\ s = (t \o c2s) \o wbuf /\ m = Messages(asked)
                              /\ a = Len(said) + 1 /\ k = Width + NextLength
  OBVIOUS
<1>2. /\ t \in Seq(Cell) /\ Len(t) = readable_size(incoming) /\ Len(t) \in Nat
      /\ c2s \in Seq(Cell) /\ wbuf \in Seq(Cell) /\ SaidOK(said) /\ asked \in Seq(Requests)
  BY <1>1, KeptFacts, SeqFacts DEF PInv, ServerOK, PipeOK, ClientOK
<1>3. Len(said) \in Nat
  BY <1>2, SaidFacts
<1>4. y \in Seq(Cell) /\ t \o y \in Seq(Cell) /\ Len(t \o y) = Len(t) + Len(y) /\ Len(y) \in Nat
  <2>1. y \in Seq(Cell)
    BY <1>1, <1>2, TwoPieces
  <2>. QED
    BY <1>2, <2>1, TwoPieces, SeqFacts
<1>5. s = t \o y
  <2>1. PICK u, v : u = c2s /\ v = wbuf
    OBVIOUS
  <2>2. (t \o u) \o v = t \o (u \o v)
    BY <1>2, <2>1, InARow
  <2>. QED
    BY <1>1, <2>1, <2>2
<1>6. PICK n : Sent(n, s, TRUE, client, asked, said)
  BY <1>1 DEF XInv, SentOK
<1>7. /\ n \in Nat /\ Len(said) <= n /\ n <= Len(asked)
      /\ \A i \in 1 .. n : Len(Payload(asked[i])) <= MaxMsg
      /\ Chain(s, a, n, m)
  BY <1>1, <1>6 DEF Sent
<1>8. /\ \A i \in 1 .. n : asked[i] \in Requests /\ m[i] = WithLength(Payload(asked[i]))
      /\ \A i \in 1 .. n : Payload(asked[i]) \in Seq(Cell)
  <2>1. \A i \in 1 .. n : i \in 1 .. Len(asked)
    BY <1>2, <1>7, SeqFacts
  <2>. QED
    BY <1>1, <1>2, <2>1, AskedFacts
<1>9. a \in 1 .. n + 1 /\ \A i \in a .. n : i \in 1 .. n
  BY <1>1, <1>3, <1>7
<1>10. Len(t) >= Width /\ k <= Len(t) /\ NextLength = Number(Take(t, Width))
  BY <1>1, <1>2 DEF HasRequest, NextLength
<1>11. a \in 1 .. n
  <2>1. ASSUME NEW i \in a .. n
        PROVE  Len(m[i]) > 0
    <3>1. PICK x : x = Payload(asked[i])
      OBVIOUS
    <3>2. x \in Seq(Cell) /\ Len(x) <= MaxMsg /\ m[i] = WithLength(x)
      BY <1>7, <1>8, <1>9, <2>1, <3>1
    <3>3. Len(m[i]) = Width + Len(x) /\ Len(x) \in Nat
      BY <3>2, LengthFacts, SeqFacts
    <3>. QED
      BY <3>3, CellsFacts
  <2>2. s # <<>>
    <3>1. Len(s) > 0
      BY <1>2, <1>4, <1>5, <1>10, CellsFacts
    <3>. QED
      BY <3>1, EmptySeq
  <2>3. a # n + 1
    BY <1>7, <1>9, <2>1, <2>2, ChainNothing
  <2>. QED
    BY <1>7, <1>9, <2>3
<1>12. PICK z : ChainWith(s, z, a, n, m)
  BY <1>7, <1>11, ChainFirst
<1>13. PICK r, x, w : r = asked[a] /\ x = Payload(r) /\ w = WithLength(x)
  OBVIOUS
<1>14. r \in Requests /\ x \in Seq(Cell) /\ Len(x) <= MaxMsg /\ m[a] = w
  BY <1>7, <1>8, <1>11, <1>13
<1>15. t \o y = w \o z /\ z \in Seq(Cell) /\ Chain(z, a + 1, n, m)
  BY <1>5, <1>12, <1>14 DEF ChainWith
<1>16. NextLength = Len(x)
  <2>1. /\ x \in Seq(Cell) /\ Len(x) <= MaxMsg /\ w = WithLength(x) /\ t \in Seq(Cell)
        /\ y \in Seq(Cell) /\ z \in Seq(Cell) /\ t \o y = w \o z /\ Len(t) >= Width
    BY <1>2, <1>4, <1>10, <1>13, <1>14, <1>15
  <2>2. Number(Take(t, Width)) = Len(x)
    BY ONLY <2>1, MessageAhead
  <2>. QED
    BY <1>10, <2>2
<1>17. k = Width + Len(x) /\ Len(t) >= k /\ k \in 0 .. Len(t)
  <2>1. Len(x) \in Nat
    BY <1>14, SeqFacts
  <2>2. k = Width + Len(x)
    BY <1>1, <1>16
  <2>. QED
    BY <1>2, <1>10, <2>1, <2>2, CellsFacts
<1>18. WholeMessage(x, w, t, y, z, k)
  <2>1. /\ x \in Seq(Cell) /\ Len(x) <= MaxMsg /\ w = WithLength(x) /\ t \in Seq(Cell)
        /\ y \in Seq(Cell) /\ z \in Seq(Cell) /\ t \o y = w \o z
        /\ k = Width + Len(x) /\ Len(t) >= k
    BY <1>2, <1>4, <1>13, <1>14, <1>15, <1>17
  <2>. QED
    BY ONLY <2>1, MessageWhole
<1>19. RequestBody = x
  <2>1. SubSeq(t, Width + 1, k) = x
    BY <1>18 DEF WholeMessage
  <2>. QED
    BY <1>1, <2>1 DEF RequestBody
<1>20. z = (Skip(t, k) \o c2s) \o wbuf
  <2>1. Skip(t, k) \o y = z
    BY <1>18 DEF WholeMessage
  <2>2. PICK q, u, v : q = Skip(t, k) /\ u = c2s /\ v = wbuf
    OBVIOUS
  <2>3. q \in Seq(Cell)
    BY <1>2, <1>17, <2>2, SkipFacts
  <2>4. (q \o u) \o v = q \o (u \o v)
    BY <1>2, <2>2, <2>3, InARow
  <2>. QED
    BY <1>1, <2>1, <2>2, <2>4
<1>21. NextRequest(n, a, r, z)
  BY <1>1, <1>2, <1>6, <1>7, <1>11, <1>13, <1>14, <1>15, <1>17, <1>19, <1>20 DEF NextRequest
<1>. QED
  BY <1>21

(* A request is answered when its turn has come, or the server closes over *)
(* it.                                                                     *)
LEMMA XProcess ==
  ASSUME PInv, XInv, try_process_one_request
  PROVE  XInv' /\ PromiseStep
<1>1. /\ server = "parse" /\ ~want_close /\ HasRequest /\ server' = server
      /\ UNCHANGED <<client, wbuf, rbuf, asked, heard, c2s, s2c>>
  BY DEF try_process_one_request, clientVars
<1>2. Live(want_close, server)
  BY <1>1 DEF Live
<1>3. PICK n, a, r, z : NextRequest(n, a, r, z)
  BY <1>1, <1>2, NextRequestIs
<1>4. /\ Sent(n, (readable_data(incoming) \o c2s) \o wbuf, TRUE, client, asked, said)
      /\ a = Len(said) + 1 /\ a \in 1 .. n /\ n \in Nat
      /\ r \in Requests /\ r = asked[a]
      /\ Len(Payload(r)) <= MaxMsg
      /\ RequestBody = Payload(r)
      /\ Width + NextLength \in 0 .. readable_size(incoming)
      /\ z = (Skip(readable_data(incoming), Width + NextLength) \o c2s) \o wbuf
      /\ Chain(z, a + 1, n, Messages(asked))
  BY <1>3 DEF NextRequest
<1>5. Kept(incoming) /\ Kept(outgoing) /\ SaidOK(said) /\ asked \in Seq(Requests)
  BY DEF PInv, ServerOK, ClientOK
<1>6. /\ n <= Len(asked) /\ (client # "failed" => n = Len(asked))
      /\ \A i \in 1 .. n : Len(Payload(asked[i])) <= MaxMsg
  BY <1>4 DEF Sent
<1>7. Len(said) \in Nat /\ Len(asked) \in Nat /\ DOMAIN asked = 1 .. Len(asked) /\ a \in DOMAIN asked
  <2>1. Len(said) \in Nat /\ Len(asked) \in Nat /\ DOMAIN asked = 1 .. Len(asked)
    BY <1>5, SaidFacts, SeqFacts
  <2>2. PICK m, d : m = Len(asked) /\ d = DOMAIN asked
    OBVIOUS
  <2>3. a \in 1 .. n /\ n \in Nat /\ n <= m /\ m \in Nat /\ d = 1 .. m
    BY <1>4, <1>6, <2>1, <2>2
  <2>4. a \in d
    BY ONLY <2>3
  <2>. QED
    BY <2>1, <2>2, <2>4
<1> DEFINE req == parse_req(RequestBody)
<1>8. \/ Fails(req) /\ r \in RefusedRequests
      \/ ~Fails(req) /\ r \in ServedRequests /\ Command(req.val) = r
  BY <1>4, RequestRead
<1>9. PICK rest : ~Ended(client) =>
        Coming(rest, rbuf \o s2c, server = "closed", outgoing, heard, said)
  BY DEF XInv, ComingOK
<1>10. CASE Fails(req)
  <2>1. want_close' = TRUE /\ UNCHANGED <<incoming, outgoing, said>>
    BY <1>10 DEF try_process_one_request
  <2>2. \E i \in DOMAIN asked : asked[i] \in RefusedRequests
    BY <1>4, <1>7, <1>8, <1>10
  <2>3. SentOK((readable_data(incoming') \o c2s') \o wbuf',
               Live(want_close', server'), client', asked', said')
    <3>1. Live(want_close', server') = FALSE
      BY <2>1 DEF Live
    <3>2. Sent(n, (readable_data(incoming') \o c2s') \o wbuf', FALSE, client', asked', said')
      BY <1>1, <1>4, <2>1 DEF Sent
    <3>. QED
      BY <3>1, <3>2 DEF SentOK
  <2>4. ComingOK(rbuf' \o s2c', server' = "closed", outgoing', client', heard', said')
    <3>1. (server' = "closed") = (server = "closed")
      BY <1>1
    <3>. QED
      BY <1>1, <2>1, <3>1 DEF XInv, ComingOK
  <2>5. ClosingOK(want_close', server', client', asked')
    BY <1>1, <2>1, <2>2 DEF ClosingOK
  <2>6. PromiseStep
    BY <1>1, <2>1, NoStep
  <2>. QED
    BY <2>3, <2>4, <2>5, <2>6 DEF XInv
<1>11. CASE ~Fails(req)
  <2>1. PICK v \in Answers :
             /\ outgoing' = response_end(out_val(response_begin(outgoing), v))
             /\ said' = Append(said, [req |-> Command(req.val), val |-> v])
             /\ incoming' = consume(incoming, Width + NextLength)
             /\ UNCHANGED want_close
    BY <1>11 DEF try_process_one_request
  <2>2. r \in ServedRequests /\ said' = Append(said, [req |-> r, val |-> v])
    BY <1>8, <1>11, <2>1
  <2> HIDE DEF req
  <2>3. PICK x : x = [req |-> r, val |-> v]
    OBVIOUS
  <2>4. said' = Append(said, x) /\ x.val = v
    BY <2>2, <2>3
  <2>5. /\ SaidOK(said') /\ Len(said') = a /\ said'[a] = x
        /\ \A i \in 1 .. Len(said) : said'[i] = said[i]
    BY <1>4, <1>5, <2>4, SaidMore
  <2>6. readable_data(incoming') = Skip(readable_data(incoming), Width + NextLength)
    BY <1>4, <1>5, <2>1, KeptConsume
  <2>7. readable_data(outgoing') = readable_data(outgoing) \o Response(v)
    BY <1>5, <2>1, KeptResponse
  <2>8. SentOK((readable_data(incoming') \o c2s') \o wbuf',
               Live(want_close', server'), client', asked', said')
    <3>1. (readable_data(incoming') \o c2s') \o wbuf' = z
      BY <1>1, <1>4, <2>6
    <3>2. Chain(z, Len(said') + 1, n, Messages(asked'))
      BY <1>1, <1>4, <2>5
    <3>3. a <= n
      BY <1>4
    <3>4. Sent(n, z, Live(want_close', server'), client', asked', said')
      BY <1>1, <1>4, <1>6, <2>5, <3>2, <3>3 DEF Sent
    <3>. QED
      BY <3>1, <3>4 DEF SentOK
  <2>9. ComingOK(rbuf' \o s2c', server' = "closed", outgoing', client', heard', said')
    <3>1. PICK b, h, m, w : b = Len(said) /\ h = Len(heard) + 1 /\ m = Responses(said) /\ w = Responses(said')
      OBVIOUS
    <3>2. PICK S : heard \in Seq(S)
      BY DEF PInv, ClientOK
    <3>3. Len(heard) \in Nat /\ Len(heard) <= b /\ Len(heard) <= a /\ h \in 1 .. b + 1 /\ b \in Nat /\ a = b + 1
      <4>1. Len(heard) \in Nat
        BY <3>2, SeqFacts
      <4>2. Len(heard) <= b
        BY <3>1 DEF XInv, ComingOK
      <4>. QED
        BY <1>4, <1>7, <3>1, <4>1, <4>2
    <3>4. \A i \in h .. b : i \in 1 .. b /\ i \in 1 .. a
      BY <3>3
    <3>5. a \in 1 .. a
      BY <3>3
    <3>6. w[a] = Response(v) /\ \A i \in h .. b : w[i] = m[i]
      <4>1. \A i \in 1 .. a : w[i] = Response(said'[i].val)
        BY <2>5, <3>1, SaidFacts
      <4>2. \A i \in 1 .. b : m[i] = Response(said[i].val)
        BY <1>5, <3>1, SaidFacts
      <4>. QED
        BY <2>4, <2>5, <3>1, <3>4, <3>5, <4>1, <4>2
    <3>7. Response(v) \in Seq(Cell)
      BY TypesAssumption, ShownType
    <3>8. ASSUME ~Ended(client)
          PROVE  \E q : Coming(q, rbuf' \o s2c', server' = "closed", outgoing', heard', said')
      <4> DEFINE t == readable_data(outgoing)
                 y == rbuf \o s2c
      <4>1. t \in Seq(Cell) /\ y \in Seq(Cell)
        BY <1>5, KeptFacts, TwoPieces DEF PInv, ClientOK, PipeOK
      <4>2. Coming(rest, y, server = "closed", outgoing, heard, said)
        BY <1>9, <3>8
      <4>3. rest = t
        BY <1>1, <4>2 DEF Coming
      <4>4. Chain(y \o t, h, b, m)
        BY <3>1, <4>2, <4>3 DEF Coming
      <4> HIDE DEF t, y
      <4>5. PICK s : s = y \o t
        OBVIOUS
      <4>6. Chain(s \o w[a], h, a, w)
        BY <3>3, <3>6, <3>7, <4>4, <4>5, ChainAppend
      <4>7. PICK p : p = Response(v)
        OBVIOUS
      <4>8. p \in Seq(Cell)
        BY <3>7, <4>7
      <4>9. (y \o t) \o p = y \o (t \o p) /\ t \o p \in Seq(Cell)
        BY <4>1, <4>8, InARow, TwoPieces
      <4>10. Chain(y \o (t \o p), Len(heard') + 1, Len(said'), Responses(said'))
        BY <1>1, <2>5, <3>1, <3>6, <4>5, <4>6, <4>7, <4>9
      <4>11. readable_data(outgoing') = t \o p /\ rbuf' \o s2c' = y
        BY <1>1, <2>7, <4>7 DEF t, y
      <4>12. Coming(t \o p, rbuf' \o s2c', server' = "closed", outgoing', heard', said')
        BY <4>9, <4>10, <4>11 DEF Coming
      <4>. QED
        BY <4>12
    <3>. QED
      BY <1>1, <2>5, <3>3, <3>8 DEF ComingOK
  <2>10. ClosingOK(want_close', server', client', asked')
    BY <1>1, <2>1 DEF ClosingOK
  <2>11. PromiseStep
    <3>1. Len(said) < Len(asked) /\ asked[Len(said) + 1] = r
      <4>1. PICK m, b : m = Len(asked) /\ b = Len(said)
        OBVIOUS
      <4>2. a \in 1 .. n /\ n \in Nat /\ n <= m /\ m \in Nat /\ b \in Nat /\ a = b + 1
        BY <1>4, <1>6, <1>7, <4>1
      <4>3. b < m
        BY ONLY <4>2
      <4>. QED
        BY <1>4, <4>1, <4>3
    <3>. QED
      BY <1>1, <2>2, <3>1, AnswerStep
  <2>. QED
    BY <2>8, <2>9, <2>10, <2>11 DEF XInv
<1>. QED
  BY <1>10, <1>11

-----------------------------------------------------------------------------
(* Every step of either end is one of the exchange, or none. *)
LEMMA XStep ==
  ASSUME PInv, XInv, [Next]_vars
  PROVE  XInv' /\ PromiseStep
<1>1. CASE \E r \in Requests : send_req(r)
  BY <1>1, XSendReq
<1>2. CASE write_all
  BY <1>2, XWriteAll
<1>3. CASE read_full
  BY <1>3, XReadFull
<1>4. CASE PrintResponse
  BY <1>4, XPrintResponse
<1>5. CASE read_res \/ ReadFails \/ Finish
  BY <1>5, XOtherClient
<1>6. CASE handle_read
  BY <1>6, XHandleRead
<1>7. CASE ClientGone \/ conn_destroy
  BY <1>7, XEndings
<1>8. CASE try_process_one_request
  BY <1>8, XProcess
<1>9. CASE EndOfRead
  BY <1>9, XEndOfRead
<1>10. CASE handle_write
  BY <1>10, XHandleWrite
<1>11. CASE UNCHANGED vars
  <2>1. XInv'
    BY <1>11 DEF XInv, vars, serverVars, clientVars
  <2>2. PromiseStep
    BY <1>11, NoStep DEF vars, serverVars, clientVars
  <2>. QED
    BY <2>1, <2>2
<1>. QED
  BY <1>1, <1>2, <1>3, <1>4, <1>5, <1>6, <1>7, <1>8, <1>9, <1>10, <1>11
  DEF Next, ClientStep, ServerStep

(* The connection keeps what the exchange promises, for all commands,      *)
(* answers, sizes and however the two streams are cut: every request that  *)
(* is served was sent, is answered once and in its turn, and the client is *)
(* shown what was answered, or the error that it is too long; it fails     *)
(* only over a request that is refused.                                    *)
THEOREM ImplementsExchangeCorrect == Spec => ImplementsExchange
<1>1. Init => PInv /\ XInv /\ Promise!Init
  BY PInit, XInit
<1>2. PInv /\ XInv /\ [Next]_vars => PInv' /\ XInv' /\ [Promise!Next]_(Promise!vars)
  BY PStep, XStep DEF PromiseStep
<1>. QED
  BY <1>1, <1>2, PTL DEF Spec, ImplementsExchange, Promise!Spec
=============================================================================
