---------------------------- MODULE TtlHeapProofs ----------------------------
(***************************************************************************)
(* TLAPS proofs about TtlHeap, for any set of entries and of times: the    *)
(* types, the heap order with the position of its top, and the agreement   *)
(* of the back-pointers.                                                   *)
(***************************************************************************)
EXTENDS TtlHeap, WellFoundedInduction, TLAPS

(***************************************************************************)
(* The invariants of the sifting loops.  With the held item back in its    *)
(* hole, only the edge above the hole (going up) or the edges below it     *)
(* (going down) may be out of order, and the hole's parent is always in    *)
(* order with the hole's kids.                                             *)
(***************************************************************************)
Hole(i) == pc # "idle" /\ i = pos

OrderInv ==
  /\ \A i \in 1 .. size - 1 :
       \/ Items[Parent(i)].val <= Items[i].val
       \/ pc = "up" /\ i = pos
       \/ pc = "down" /\ Parent(i) = pos
  /\ \A i \in 1 .. size - 1 :
       Hole(Parent(i)) /\ pos > 0 => Items[Parent(pos)].val <= Items[i].val

(***************************************************************************)
(* While an item is held out, its owner's index is stale, and so is the    *)
(* index of the entry being removed; all the others agree.                 *)
(***************************************************************************)
Stale(e) == pc # "idle" /\ (e = t.ref \/ e = leaving)

RefInv ==
  /\ \A i \in 0 .. size - 1 : ~Hole(i) =>
       heap_idx[heap[i].ref] = i /\ ~Stale(heap[i].ref)
  /\ \A e \in Entries : heap_idx[e] # NoIdx /\ ~Stale(e) =>
       /\ heap_idx[e] \in 0 .. size - 1
       /\ ~Hole(heap_idx[e])
       /\ heap[heap_idx[e]].ref = e
  /\ pc # "idle" => t.ref # leaving

IInv == TypeOK /\ OrderInv /\ RefInv

-----------------------------------------------------------------------------
(* Heap arithmetic: heap_parent() against heap_left() and heap_right(). *)
LEMMA ParentFacts ==
  ASSUME NEW i \in Nat, i > 0
  PROVE  /\ Parent(i) \in Nat
         /\ Parent(i) < i
         /\ i = Left(Parent(i)) \/ i = Right(Parent(i))
  BY DEF Parent, Left, Right

LEMMA KidFacts ==
  ASSUME NEW p \in Nat
  PROVE  /\ Left(p) \in Nat /\ Right(p) \in Nat
         /\ Left(p) > p /\ Right(p) > p /\ Left(p) # Right(p)
         /\ Parent(Left(p)) = p /\ Parent(Right(p)) = p
  BY DEF Parent, Left, Right

-----------------------------------------------------------------------------
(* Entering a sifting loop through heap_update(). *)
LEMMA HeapUpdateType ==
  ASSUME TypeOK,
         NEW n \in Nat, NEW a \in [0 .. n - 1 -> Item], NEW p \in 0 .. n - 1,
         HeapUpdate(a, n, p),
         heap_idx' \in [Entries -> Nat \cup {NoIdx}],
         leaving' \in Entries \cup {None}
  PROVE  TypeOK'
  BY DEF TypeOK, HeapUpdate

LEMMA HeapUpdateOrder ==
  ASSUME NEW n \in Nat, NEW a \in [0 .. n - 1 -> Item], NEW p \in 0 .. n - 1,
         HeapUpdate(a, n, p),
         \A i \in 1 .. n - 1 : i # p /\ Parent(i) # p =>
           a[Parent(i)].val <= a[i].val,
         \A i \in 1 .. n - 1 : Parent(i) = p /\ p > 0 =>
           a[Parent(p)].val <= a[i].val
  PROVE  OrderInv'
<1>1. Items' = a /\ size' = n /\ pos' = p
  BY DEF HeapUpdate, Items
<1>2. \A i \in 0 .. n - 1 : a[i].val \in Nat
  BY ConstantsAssumption DEF Item
<1>3. \A i \in 1 .. n - 1 : Parent(i) \in 0 .. n - 1 /\ Parent(i) < i
  BY ParentFacts
<1>4. CASE p > 0 /\ a[p].val < a[Parent(p)].val
  <2>1. pc' = "up"
    BY <1>4 DEF HeapUpdate
  <2>2. \A i \in 1 .. n - 1 : Parent(i) = p => a[p].val <= a[i].val
    BY <1>2, <1>3, <1>4
  <2>. QED
    BY <1>1, <2>1, <2>2 DEF OrderInv, Hole
<1>5. CASE ~(p > 0 /\ a[p].val < a[Parent(p)].val)
  <2>1. pc' = "down"
    BY <1>5 DEF HeapUpdate
  <2>2. p > 0 => a[Parent(p)].val <= a[p].val
    BY <1>2, <1>3, <1>5
  <2>. QED
    BY <1>1, <2>1, <2>2 DEF OrderInv, Hole
<1>. QED
  BY <1>4, <1>5

LEMMA HeapUpdateRef ==
  ASSUME NEW n \in Nat, NEW a \in [0 .. n - 1 -> Item], NEW p \in 0 .. n - 1,
         HeapUpdate(a, n, p),
         \A i \in 0 .. n - 1 : i # p =>
           /\ heap_idx'[a[i].ref] = i
           /\ a[i].ref # a[p].ref
           /\ a[i].ref # leaving',
         \A e \in Entries :
           heap_idx'[e] # NoIdx /\ e # a[p].ref /\ e # leaving' =>
             /\ heap_idx'[e] \in 0 .. n - 1
             /\ heap_idx'[e] # p
             /\ a[heap_idx'[e]].ref = e,
         a[p].ref # leaving'
  PROVE  RefInv'
<1>1. heap' = a /\ size' = n /\ pos' = p /\ t' = a[p] /\ pc' # "idle"
  BY DEF HeapUpdate
<1>. QED
  BY <1>1 DEF RefInv, Hole, Stale

-----------------------------------------------------------------------------
(* Type correctness. *)
LEMMA PushArray ==
  ASSUME TypeOK, NEW item \in Item
  PROVE  [i \in 0 .. size |-> IF i = size THEN item ELSE heap[i]]
           \in [0 .. size -> Item]
  BY DEF TypeOK

LEMMA SwapOutArray ==
  ASSUME TypeOK, NEW p \in 0 .. size - 1
  PROVE  /\ size - 1 \in Nat
         /\ SwapOut(p) \in [0 .. size - 2 -> Item]
  BY DEF TypeOK, SwapOut

LEMMA SetTtlType ==
  ASSUME TypeOK, NEW e \in Entries, NEW v \in Times, SetTtl(e, v)
  PROVE  TypeOK'
<1> DEFINE item == [val |-> v, ref |-> e]
<1>1. item \in Item
  BY DEF Item
<1>2. /\ heap_idx' \in [Entries -> Nat \cup {NoIdx}]
      /\ leaving' \in Entries \cup {None}
      /\ heap_idx[e] \in Nat \cup {NoIdx}
      /\ size \in Nat
  BY DEF SetTtl, TypeOK
<1>3. CASE heap_idx[e] \in 0 .. size - 1
  <2>1. HeapUpdate([heap EXCEPT ![heap_idx[e]] = item], size, heap_idx[e])
    BY <1>3 DEF SetTtl
  <2>2. [heap EXCEPT ![heap_idx[e]] = item] \in [0 .. size - 1 -> Item]
    BY <1>1, <1>3 DEF TypeOK
  <2>. QED
    BY <1>2, <1>3, <2>1, <2>2, HeapUpdateType
<1>4. CASE heap_idx[e] \notin 0 .. size - 1
  <2>1. Push(item)
    BY <1>4 DEF SetTtl
  <2>. QED
    BY <1>1, <1>2, <2>1, PushArray, HeapUpdateType DEF Push
<1>. QED
  BY <1>3, <1>4

LEMMA DeleteType ==
  ASSUME TypeOK, NEW e \in Entries, Delete(e)
  PROVE  TypeOK'
<1>1. heap_idx[e] \in 0 .. size - 1 /\ pc = "idle" /\ size \in Nat
  BY DEF Delete, TypeOK
<1>2. size - 1 \in Nat /\ SwapOut(heap_idx[e]) \in [0 .. size - 2 -> Item]
  BY <1>1, SwapOutArray
<1>3. CASE heap_idx[e] < size - 1
  <2>1. /\ HeapUpdate(SwapOut(heap_idx[e]), size - 1, heap_idx[e])
        /\ leaving' = e /\ heap_idx' = heap_idx
    BY <1>1, <1>3 DEF Delete
  <2>2. heap_idx[e] \in 0 .. (size - 1) - 1
    BY <1>1, <1>3
  <2>3. heap_idx' \in [Entries -> Nat \cup {NoIdx}] /\ leaving' \in Entries
    BY <2>1 DEF TypeOK
  <2>4. SwapOut(heap_idx[e]) \in [0 .. (size - 1) - 1 -> Item]
    <3>1. size - 2 = (size - 1) - 1
      BY <1>1
    <3>. QED
      BY <1>2, <3>1
  <2>. QED
    BY <1>2, <2>1, <2>2, <2>3, <2>4, HeapUpdateType
<1>4. CASE heap_idx[e] = size - 1
  <2>1. /\ heap' = SwapOut(heap_idx[e]) /\ size' = size - 1
        /\ heap_idx' = [heap_idx EXCEPT ![e] = NoIdx]
        /\ UNCHANGED <<pc, pos, t, leaving>>
    BY <1>1, <1>4 DEF Delete
  <2>. QED
    BY <1>1, <1>2, <2>1 DEF TypeOK
<1>. QED
  BY <1>1, <1>3, <1>4

LEMMA MoveHoleType ==
  ASSUME TypeOK, pc # "idle", NEW i \in 0 .. size - 1, MoveHole(i)
  PROVE  TypeOK'
  BY DEF TypeOK, MoveHole, Item

LEMMA FillHoleType ==
  ASSUME TypeOK, pc # "idle", FillHole
  PROVE  TypeOK'
  BY DEF TypeOK, FillHole, Item

(* Where the hole can move, in either loop. *)
LEMMA SiftTargets ==
  ASSUME TypeOK, pc # "idle"
  PROVE  /\ BelowParent => Parent(pos) \in 0 .. size - 1
         /\ GoLeft => Left(pos) \in 0 .. size - 1
         /\ GoRight => Right(pos) \in 0 .. size - 1
<1>1. pos \in 0 .. size - 1 /\ size \in Nat
  BY DEF TypeOK
<1>. QED
  BY <1>1, ParentFacts, KidFacts DEF BelowParent, GoLeft, GoRight

LEMMA TypeStep == TypeOK /\ [Next]_vars => TypeOK'
<1> SUFFICES ASSUME TypeOK, [Next]_vars
             PROVE  TypeOK'
  OBVIOUS
<1>1. ASSUME NEW e \in Entries, NEW v \in Times, SetTtl(e, v)
      PROVE  TypeOK'
  BY <1>1, SetTtlType
<1>2. ASSUME NEW e \in Entries, ClearTtl(e)
      PROVE  TypeOK'
  BY <1>2, DeleteType DEF ClearTtl
<1>3. CASE ExpireTop
  <2>1. heap[0].ref \in Entries
    BY <1>3 DEF ExpireTop, TypeOK, Item
  <2>. QED
    BY <1>3, <2>1, DeleteType DEF ExpireTop, ClearTtl
<1>4. CASE HeapUp
  BY <1>4, SiftTargets, MoveHoleType, FillHoleType DEF HeapUp
<1>5. CASE HeapDown
  BY <1>5, SiftTargets, MoveHoleType, FillHoleType DEF HeapDown
<1>6. CASE UNCHANGED vars
  BY <1>6 DEF TypeOK, vars
<1>. QED
  BY <1>1, <1>2, <1>3, <1>4, <1>5, <1>6 DEF Next

(***************************************************************************)
(* The heap never holds a malformed item, and a sifting loop never indexes *)
(* outside the array.                                                      *)
(***************************************************************************)
THEOREM TypeCorrect == Spec => []TypeOK
<1>1. Init => TypeOK
  BY DEF Init, TypeOK, NoIdx
<1>. QED
  BY <1>1, TypeStep, PTL DEF Spec

-----------------------------------------------------------------------------
(* The heap order, one lemma per operation. *)
LEMMA ValsAreNat ==
  ASSUME TypeOK
  PROVE  \A i \in 0 .. size - 1 : heap[i].val \in Nat /\ heap[i].ref \in Entries
  BY ConstantsAssumption DEF TypeOK, Item

LEMMA IdleOrder ==
  ASSUME TypeOK, OrderInv, pc = "idle"
  PROVE  \A i \in 1 .. size - 1 : heap[Parent(i)].val <= heap[i].val
  BY DEF OrderInv, Items

(* A parent, a kid and a grandkid of an ordered array are in order. *)
LEMMA GrandOrder ==
  ASSUME TypeOK, OrderInv, pc = "idle", NEW i \in 1 .. size - 1, Parent(i) > 0
  PROVE  heap[Parent(Parent(i))].val <= heap[i].val
<1>1. Parent(i) \in 1 .. size - 1 /\ Parent(Parent(i)) \in 0 .. size - 1
  BY ParentFacts DEF TypeOK
<1>2. /\ heap[Parent(i)].val <= heap[i].val
      /\ heap[Parent(Parent(i))].val <= heap[Parent(i)].val
  BY <1>1, IdleOrder
<1>. QED
  BY <1>1, <1>2, ValsAreNat

LEMMA SetTtlOrder ==
  ASSUME TypeOK, OrderInv, NEW e \in Entries, NEW v \in Times, SetTtl(e, v)
  PROVE  OrderInv'
<1> DEFINE item == [val |-> v, ref |-> e]
<1>1. item \in Item /\ pc = "idle" /\ size \in Nat
  BY DEF Item, SetTtl, TypeOK
<1>2. CASE heap_idx[e] \in 0 .. size - 1
  <2> DEFINE p == heap_idx[e]
             a == [heap EXCEPT ![p] = item]
  <2>1. HeapUpdate(a, size, p)
    BY <1>2 DEF SetTtl
  <2>2. a \in [0 .. size - 1 -> Item]
    BY <1>1, <1>2 DEF TypeOK
  <2>3. \A i \in 0 .. size - 1 : i # p => a[i] = heap[i]
    BY DEF TypeOK
  <2>4. \A i \in 1 .. size - 1 : Parent(i) \in 0 .. size - 1 /\ Parent(i) < i
    BY <1>1, ParentFacts
  <2>5. \A i \in 1 .. size - 1 : i # p /\ Parent(i) # p =>
          a[Parent(i)].val <= a[i].val
    BY <1>1, <2>3, <2>4, IdleOrder
  <2>6. \A i \in 1 .. size - 1 : Parent(i) = p /\ p > 0 =>
          a[Parent(p)].val <= a[i].val
    BY <1>1, <1>2, <2>3, <2>4, GrandOrder
  <2>7. p \in 0 .. size - 1 /\ size \in Nat
    BY <1>1, <1>2
  <2> HIDE DEF a, p
  <2>. QED
    BY <2>1, <2>2, <2>5, <2>6, <2>7, HeapUpdateOrder
<1>3. CASE heap_idx[e] \notin 0 .. size - 1
  <2> DEFINE a == [i \in 0 .. size |-> IF i = size THEN item ELSE heap[i]]
  <2>1. HeapUpdate(a, size + 1, size)
    BY <1>3 DEF SetTtl, Push
  <2>2. a \in [0 .. (size + 1) - 1 -> Item]
    BY <1>1, PushArray
  <2>3. \A i \in 1 .. size : Parent(i) \in 0 .. size - 1 /\ Parent(i) < i
    BY <1>1, ParentFacts
  <2>4. \A i \in 1 .. (size + 1) - 1 : i # size /\ Parent(i) # size =>
          a[Parent(i)].val <= a[i].val
    <3> TAKE i \in 1 .. (size + 1) - 1
    <3> HAVE i # size /\ Parent(i) # size
    <3>1. i \in 1 .. size - 1
      BY <1>1
    <3>2. heap[Parent(i)].val <= heap[i].val
      BY <1>1, <3>1, IdleOrder
    <3>. QED
      BY <1>1, <2>3, <3>1, <3>2
  <2>5. \A i \in 1 .. (size + 1) - 1 : Parent(i) # size
    BY <1>1, <2>3
  <2>6. size \in 0 .. (size + 1) - 1 /\ size + 1 \in Nat
    BY <1>1
  <2> HIDE DEF a
  <2>. QED
    BY <2>1, <2>2, <2>4, <2>5, <2>6, HeapUpdateOrder
<1>. QED
  BY <1>2, <1>3

LEMMA DeleteOrder ==
  ASSUME TypeOK, OrderInv, NEW e \in Entries, Delete(e)
  PROVE  OrderInv'
<1> DEFINE p == heap_idx[e]
           a == SwapOut(p)
           n == size - 1
<1>1. pc = "idle" /\ size \in Nat /\ p \in 0 .. n
  BY DEF Delete, TypeOK
<1>2. n \in Nat /\ a \in [0 .. n - 1 -> Item]
  <2>1. size - 2 = n - 1
    BY <1>1
  <2>. QED
    BY <1>1, <2>1, SwapOutArray
<1>3. \A i \in 0 .. n - 1 : i # p => a[i] = heap[i]
  BY <1>1 DEF SwapOut
<1>4. \A i \in 1 .. n - 1 : i \in 1 .. size - 1 /\ Parent(i) \in 0 .. n - 1
  BY <1>1, ParentFacts
<1>5. \A i \in 1 .. n - 1 : i # p /\ Parent(i) # p =>
        a[Parent(i)].val <= a[i].val
  <2> TAKE i \in 1 .. n - 1
  <2> HAVE i # p /\ Parent(i) # p
  <2>1. heap[Parent(i)].val <= heap[i].val
    BY <1>1, <1>4, IdleOrder
  <2>2. a[i] = heap[i] /\ a[Parent(i)] = heap[Parent(i)]
    BY <1>1, <1>3, <1>4
  <2>. QED
    BY <2>1, <2>2
<1>6. CASE p < n
  <2>1. HeapUpdate(a, n, p)
    BY <1>1, <1>6 DEF Delete
  <2>2. \A i \in 1 .. n - 1 : Parent(i) = p /\ p > 0 =>
          a[Parent(p)].val <= a[i].val
    <3> TAKE i \in 1 .. n - 1
    <3> HAVE Parent(i) = p /\ p > 0
    <3>1. heap[Parent(p)].val <= heap[i].val
      BY <1>1, <1>4, GrandOrder
    <3>2. a[i] = heap[i] /\ a[Parent(p)] = heap[Parent(p)]
      <4>1. i # p /\ Parent(p) # p /\ Parent(p) \in 0 .. n - 1
        BY <1>1, <1>6, ParentFacts
      <4>. QED
        BY <1>1, <1>3, <4>1
    <3>. QED
      BY <3>1, <3>2
  <2>3. p \in 0 .. n - 1
    BY <1>1, <1>6
  <2> HIDE DEF a, n, p
  <2>. QED
    BY <1>2, <1>5, <2>1, <2>2, <2>3, HeapUpdateOrder
<1>7. CASE p = n
  <2>1. heap' = a /\ size' = n /\ pc' = pc
    BY <1>1, <1>7 DEF Delete
  <2>2. \A i \in 1 .. n - 1 : i # p /\ Parent(i) # p
    BY <1>1, <1>4, <1>7
  <2>. QED
    BY <1>1, <1>5, <2>1, <2>2 DEF OrderInv, Items, Hole
<1>. QED
  BY <1>1, <1>6, <1>7

LEMMA MoveUpOrder ==
  ASSUME TypeOK, OrderInv, pc = "up", BelowParent, MoveHole(Parent(pos))
  PROVE  OrderInv'
<1> DEFINE q == Parent(pos)
           b == Items
<1>1. /\ size \in Nat /\ pos \in 1 .. size - 1 /\ q \in 0 .. size - 1
      /\ q < pos /\ t \in Item /\ t.val \in Nat
  <2>1. size \in Nat /\ pos \in 0 .. size - 1 /\ pos > 0 /\ t \in Item
    BY DEF TypeOK, BelowParent
  <2>2. t.val \in Nat
    BY <2>1, ConstantsAssumption DEF Item
  <2>. QED
    BY <2>1, <2>2, ParentFacts
<1>2. b = [heap EXCEPT ![pos] = t]
  BY DEF Items
<1>3. /\ size' = size /\ pc' = "up" /\ pos' = q
      /\ Items' = [heap EXCEPT ![pos] = heap[q], ![q] = t]
  BY DEF MoveHole, Items
<1>4. /\ \A i \in 0 .. size - 1 : i # pos /\ i # q => Items'[i] = b[i]
      /\ Items'[pos] = b[q] /\ Items'[q] = t /\ b[pos] = t
  BY <1>1, <1>2, <1>3 DEF TypeOK
<1>5. \A i \in 0 .. size - 1 : b[i].val \in Nat
  BY <1>1, <1>2, ValsAreNat DEF TypeOK
<1>6. t.val < b[q].val
  BY <1>1, <1>2 DEF BelowParent, TypeOK
<1>7. \A i \in 1 .. size - 1 :
        Parent(i) \in 0 .. size - 1 /\ Parent(i) < i
  BY <1>1, ParentFacts
<1>8. \A i \in 1 .. size - 1 : i # pos => b[Parent(i)].val <= b[i].val
  BY DEF OrderInv
<1>9. \A i \in 1 .. size - 1 : Parent(i) = pos => b[q].val <= b[i].val
  BY <1>1 DEF OrderInv, Hole
<1>10. \A i \in 1 .. size - 1 : i # q =>
         Items'[Parent(i)].val <= Items'[i].val
  <2> TAKE i \in 1 .. size - 1
  <2> HAVE i # q
  <2>1. CASE i = pos
    BY <1>1, <1>4, <1>5, <1>6, <2>1
  <2>2. CASE i # pos /\ Parent(i) = pos
    BY <1>4, <1>9, <2>2
  <2>3. CASE i # pos /\ Parent(i) = q
    BY <1>1, <1>4, <1>5, <1>6, <1>7, <1>8, <2>3
  <2>4. CASE i # pos /\ Parent(i) # pos /\ Parent(i) # q
    BY <1>4, <1>7, <1>8, <2>4
  <2>. QED
    BY <2>1, <2>2, <2>3, <2>4
<1>11. ASSUME NEW i \in 1 .. size - 1, Parent(i) = q, q > 0
       PROVE  Items'[Parent(q)].val <= Items'[i].val
  <2>1. q \in 1 .. size - 1 /\ Parent(q) \in 0 .. size - 1 /\ Parent(q) < q
    BY <1>1, <1>7, <1>11
  <2>2. b[Parent(q)].val <= b[q].val /\ Items'[Parent(q)] = b[Parent(q)]
    BY <1>1, <1>4, <1>8, <2>1
  <2>3. CASE i = pos
    BY <1>4, <2>2, <2>3
  <2>4. CASE i # pos
    BY <1>1, <1>4, <1>5, <1>7, <1>8, <1>11, <2>1, <2>2, <2>4
  <2>. QED
    BY <2>3, <2>4
<1>. QED
  BY <1>3, <1>10, <1>11 DEF OrderInv, Hole

(***************************************************************************)
(* Going down, the hole moves to a kid k that is smaller than the held     *)
(* item and not larger than any other kid.                                 *)
(***************************************************************************)
LEMMA MoveDownOrder ==
  ASSUME TypeOK, OrderInv, pc = "down",
         NEW k \in 1 .. size - 1, Parent(k) = pos, MoveHole(k),
         heap[k].val < t.val,
         \A i \in 1 .. size - 1 : Parent(i) = pos => heap[k].val <= heap[i].val
  PROVE  OrderInv'
<1> DEFINE b == Items
<1>1. /\ size \in Nat /\ pos \in 0 .. size - 1 /\ pos < k
      /\ t \in Item /\ t.val \in Nat
  <2>1. size \in Nat /\ pos \in 0 .. size - 1 /\ t \in Item
    BY DEF TypeOK
  <2>2. t.val \in Nat
    BY <2>1, ConstantsAssumption DEF Item
  <2>. QED
    BY <2>1, <2>2, ParentFacts
<1>2. b = [heap EXCEPT ![pos] = t]
  BY DEF Items
<1>3. /\ size' = size /\ pc' = "down" /\ pos' = k
      /\ Items' = [heap EXCEPT ![pos] = heap[k], ![k] = t]
  BY DEF MoveHole, Items
<1>4. /\ \A i \in 0 .. size - 1 : i # pos /\ i # k => Items'[i] = b[i]
      /\ Items'[pos] = b[k] /\ Items'[k] = t /\ b[k] = heap[k]
      /\ \A i \in 0 .. size - 1 : i # pos => b[i] = heap[i]
  BY <1>1, <1>2, <1>3 DEF TypeOK
<1>5. \A i \in 0 .. size - 1 : b[i].val \in Nat
  BY <1>1, <1>2, ValsAreNat DEF TypeOK
<1>6. \A i \in 1 .. size - 1 :
        Parent(i) \in 0 .. size - 1 /\ Parent(i) < i
  BY <1>1, ParentFacts
<1>7. \A i \in 1 .. size - 1 : Parent(i) # pos => b[Parent(i)].val <= b[i].val
  BY DEF OrderInv
<1>8. \A i \in 1 .. size - 1 : Parent(i) = pos /\ pos > 0 =>
        b[Parent(pos)].val <= b[i].val
  BY DEF OrderInv, Hole
<1>9. \A i \in 1 .. size - 1 : Parent(i) # k =>
        Items'[Parent(i)].val <= Items'[i].val
  <2> TAKE i \in 1 .. size - 1
  <2> HAVE Parent(i) # k
  <2>1. CASE i = k
    <3>1. Items'[k] = t /\ Items'[pos] = b[k] /\ b[k] = heap[k]
      BY <1>4
    <3>2. b[k].val \in Nat /\ heap[k].val <= t.val
      BY <1>1, <1>4, <1>5
    <3>. QED
      BY <2>1, <3>1, <3>2
  <2>2. CASE i = pos
    BY <1>1, <1>4, <1>6, <1>8, <2>2
  <2>3. CASE i # k /\ i # pos /\ Parent(i) = pos
    BY <1>1, <1>4, <2>3
  <2>4. CASE i # k /\ i # pos /\ Parent(i) # pos
    BY <1>4, <1>6, <1>7, <2>4
  <2>. QED
    BY <2>1, <2>2, <2>3, <2>4
<1>10. ASSUME NEW i \in 1 .. size - 1, Parent(i) = k
       PROVE  Items'[Parent(k)].val <= Items'[i].val
  BY <1>1, <1>4, <1>6, <1>7, <1>10
<1>. QED
  BY <1>3, <1>9, <1>10 DEF OrderInv, Hole

LEMMA FillOrder ==
  ASSUME TypeOK, OrderInv, FillHole,
         \/ pc = "up" /\ ~BelowParent
         \/ pc = "down" /\ ~GoLeft /\ ~GoRight
  PROVE  OrderInv'
<1>1. /\ size \in Nat /\ pos \in 0 .. size - 1
      /\ t \in Item /\ t.val \in Nat
  BY ConstantsAssumption DEF TypeOK, Item
<1>2. Items' = Items /\ size' = size /\ pc' = "idle"
  BY DEF FillHole, Items
<1>3. /\ Items[pos] = t
      /\ \A i \in 0 .. size - 1 : i # pos => Items[i] = heap[i]
  BY <1>1 DEF Items, TypeOK
<1>4. \A i \in 1 .. size - 1 :
        /\ Parent(i) \in 0 .. size - 1 /\ Parent(i) < i
        /\ i = Left(Parent(i)) \/ i = Right(Parent(i))
  BY <1>1, ParentFacts
<1>5. CASE pc = "up" /\ ~BelowParent
  BY <1>1, <1>2, <1>3, <1>4, <1>5, ValsAreNat DEF OrderInv, BelowParent, Hole
<1>6. CASE pc = "down" /\ ~GoLeft /\ ~GoRight
  BY <1>1, <1>2, <1>3, <1>4, <1>6, ValsAreNat
     DEF OrderInv, GoLeft, GoRight, Hole
<1>. QED
  BY <1>5, <1>6

-----------------------------------------------------------------------------
(* The back-pointers, one lemma per operation. *)
LEMMA SetTtlRef ==
  ASSUME TypeOK, RefInv, NEW e \in Entries, NEW v \in Times, SetTtl(e, v)
  PROVE  RefInv'
<1> DEFINE item == [val |-> v, ref |-> e]
           p == heap_idx[e]
<1>1. /\ item \in Item /\ pc = "idle" /\ size \in Nat /\ leaving = None
      /\ heap_idx' = heap_idx /\ leaving' = None
  BY DEF Item, SetTtl, TypeOK
<1>2. /\ \A i \in 0 .. size - 1 : heap_idx[heap[i].ref] = i
      /\ \A f \in Entries : heap_idx[f] # NoIdx =>
           heap_idx[f] \in 0 .. size - 1 /\ heap[heap_idx[f]].ref = f
  BY <1>1 DEF RefInv, Hole, Stale
<1>3. CASE p \in 0 .. size - 1
  <2> DEFINE a == [heap EXCEPT ![p] = item]
  <2>1. HeapUpdate(a, size, p)
    BY <1>3 DEF SetTtl
  <2>2. a \in [0 .. size - 1 -> Item] /\ a[p].ref = e
    BY <1>1, <1>3 DEF TypeOK
  <2>3. \A i \in 0 .. size - 1 : i # p => a[i] = heap[i]
    BY DEF TypeOK
  <2>4. heap[p].ref = e /\ e # None
    BY <1>1, <1>2, <1>3, ConstantsAssumption DEF NoIdx
  <2>5. \A i \in 0 .. size - 1 : i # p =>
          /\ heap_idx'[a[i].ref] = i
          /\ a[i].ref # a[p].ref
          /\ a[i].ref # leaving'
    BY <1>1, <1>2, <2>2, <2>3, ValsAreNat, ConstantsAssumption
  <2>6. \A f \in Entries :
          heap_idx'[f] # NoIdx /\ f # a[p].ref /\ f # leaving' =>
            /\ heap_idx'[f] \in 0 .. size - 1
            /\ heap_idx'[f] # p
            /\ a[heap_idx'[f]].ref = f
    BY <1>1, <1>2, <2>2, <2>3, <2>4
  <2> HIDE DEF a, p
  <2>. QED
    BY <1>1, <1>3, <2>1, <2>2, <2>4, <2>5, <2>6, HeapUpdateRef
<1>4. CASE p \notin 0 .. size - 1
  <2> DEFINE a == [i \in 0 .. size |-> IF i = size THEN item ELSE heap[i]]
  <2>1. HeapUpdate(a, size + 1, size)
    BY <1>4 DEF SetTtl, Push
  <2>2. a \in [0 .. (size + 1) - 1 -> Item] /\ a[size].ref = e
    BY <1>1, PushArray
  <2>3. \A i \in 0 .. (size + 1) - 1 : i # size =>
          i \in 0 .. size - 1 /\ a[i] = heap[i]
    BY <1>1
  <2>4. heap_idx[e] = NoIdx /\ e # None
    BY <1>2, <1>4, ConstantsAssumption
  <2>5. \A i \in 0 .. (size + 1) - 1 : i # size =>
          /\ heap_idx'[a[i].ref] = i
          /\ a[i].ref # a[size].ref
          /\ a[i].ref # leaving'
    BY <1>1, <1>2, <2>2, <2>3, <2>4, ValsAreNat, ConstantsAssumption DEF NoIdx
  <2>6. \A f \in Entries :
          heap_idx'[f] # NoIdx /\ f # a[size].ref /\ f # leaving' =>
            /\ heap_idx'[f] \in 0 .. (size + 1) - 1
            /\ heap_idx'[f] # size
            /\ a[heap_idx'[f]].ref = f
    BY <1>1, <1>2, <2>2, <2>3
  <2>7. size \in 0 .. (size + 1) - 1 /\ size + 1 \in Nat
    BY <1>1
  <2> HIDE DEF a
  <2>. QED
    BY <1>1, <2>1, <2>2, <2>4, <2>5, <2>6, <2>7, HeapUpdateRef
<1>. QED
  BY <1>3, <1>4

LEMMA DeleteRef ==
  ASSUME TypeOK, RefInv, NEW e \in Entries, Delete(e)
  PROVE  RefInv'
<1> DEFINE p == heap_idx[e]
           a == SwapOut(p)
           n == size - 1
<1>1. /\ pc = "idle" /\ size \in Nat /\ p \in 0 .. n /\ n \in Nat
      /\ leaving = None /\ e # None
  BY ConstantsAssumption DEF Delete, TypeOK
<1>2. /\ \A i \in 0 .. n : heap_idx[heap[i].ref] = i
      /\ \A f \in Entries : heap_idx[f] # NoIdx =>
           heap_idx[f] \in 0 .. n /\ heap[heap_idx[f]].ref = f
  BY <1>1 DEF RefInv, Hole, Stale
<1>3. a \in [0 .. n - 1 -> Item]
  <2>1. size - 2 = n - 1
    BY <1>1
  <2>. QED
    BY <1>1, <2>1, SwapOutArray
<1>4. /\ \A i \in 0 .. n - 1 : i # p => a[i] = heap[i]
      /\ p < n => a[p] = heap[n]
  BY <1>1 DEF SwapOut
<1>5. heap[p].ref = e /\ p # NoIdx
  BY <1>1, <1>2 DEF NoIdx
<1>6. CASE p < n
  <2>1. HeapUpdate(a, n, p) /\ leaving' = e /\ heap_idx' = heap_idx
    BY <1>1, <1>6 DEF Delete
  <2>2. a[p].ref # e
    BY <1>1, <1>2, <1>4, <1>6
  <2>3. \A i \in 0 .. n - 1 : i # p =>
          /\ heap_idx'[a[i].ref] = i
          /\ a[i].ref # a[p].ref
          /\ a[i].ref # leaving'
    <3> TAKE i \in 0 .. n - 1
    <3> HAVE i # p
    <3>1. a[i] = heap[i] /\ heap_idx[heap[i].ref] = i
      BY <1>1, <1>2, <1>4
    <3>2. heap_idx[a[p].ref] = n /\ heap_idx[e] = p /\ i # n
      BY <1>1, <1>2, <1>4, <1>6
    <3>. QED
      BY <2>1, <3>1, <3>2
  <2>4. \A f \in Entries :
          heap_idx'[f] # NoIdx /\ f # a[p].ref /\ f # leaving' =>
            /\ heap_idx'[f] \in 0 .. n - 1
            /\ heap_idx'[f] # p
            /\ a[heap_idx'[f]].ref = f
    <3> TAKE f \in Entries
    <3> HAVE heap_idx'[f] # NoIdx /\ f # a[p].ref /\ f # leaving'
    <3>1. heap_idx[f] \in 0 .. n /\ heap[heap_idx[f]].ref = f
      BY <1>2, <2>1
    <3>2. heap_idx[f] # n /\ heap_idx[f] # p
      BY <1>4, <1>5, <1>6, <2>1, <3>1
    <3>3. heap_idx[f] \in 0 .. n - 1
      BY <1>1, <3>1, <3>2
    <3>. QED
      BY <1>4, <2>1, <3>1, <3>2, <3>3
  <2>5. p \in 0 .. n - 1
    BY <1>1, <1>6
  <2> HIDE DEF a, n, p
  <2>. QED
    BY <1>1, <1>3, <2>1, <2>2, <2>3, <2>4, <2>5, HeapUpdateRef
<1>7. CASE p = n
  <2>1. /\ heap' = a /\ size' = n /\ pc' = "idle"
        /\ heap_idx' = [heap_idx EXCEPT ![e] = NoIdx]
    BY <1>1, <1>7 DEF Delete
  <2>2. \A i \in 0 .. n - 1 : heap'[i] = heap[i] /\ heap[i].ref # e
    BY <1>1, <1>2, <1>4, <1>7, <2>1
  <2>3. \A i \in 0 .. n - 1 : heap_idx'[heap'[i].ref] = i
    BY <1>1, <1>2, <2>1, <2>2, ValsAreNat DEF TypeOK
  <2>4. \A f \in Entries : heap_idx'[f] # NoIdx =>
          heap_idx'[f] \in 0 .. n - 1 /\ heap'[heap_idx'[f]].ref = f
    <3> TAKE f \in Entries
    <3> HAVE heap_idx'[f] # NoIdx
    <3>1. f # e /\ heap_idx'[f] = heap_idx[f]
      BY <2>1 DEF TypeOK
    <3>2. heap_idx[f] \in 0 .. n /\ heap[heap_idx[f]].ref = f
      BY <1>2, <3>1
    <3>3. heap_idx[f] \in 0 .. n - 1
      BY <1>1, <1>5, <1>7, <3>1, <3>2
    <3>. QED
      BY <2>2, <3>1, <3>2, <3>3
  <2>. QED
    BY <2>1, <2>3, <2>4 DEF RefInv, Hole, Stale
<1>. QED
  BY <1>1, <1>6, <1>7

LEMMA MoveHoleRef ==
  ASSUME TypeOK, RefInv, pc # "idle", NEW i \in 0 .. size - 1, i # pos, MoveHole(i)
  PROVE  RefInv'
<1>1. /\ pos \in 0 .. size - 1 /\ size' = size /\ pos' = i
      /\ pc' = pc /\ t' = t /\ leaving' = leaving
      /\ heap'[pos] = heap[i]
      /\ \A j \in 0 .. size - 1 : j # pos => heap'[j] = heap[j]
  BY DEF TypeOK, MoveHole
<1>2. /\ heap[i].ref \in Entries /\ heap_idx'[heap[i].ref] = pos
      /\ \A f \in Entries : f # heap[i].ref => heap_idx'[f] = heap_idx[f]
  BY ValsAreNat DEF TypeOK, MoveHole
<1>3. heap_idx[heap[i].ref] = i /\ heap[i].ref \notin {t.ref, leaving}
  BY DEF RefInv, Hole, Stale
<1>4. ASSUME NEW j \in 0 .. size - 1, j # i
      PROVE  heap_idx'[heap'[j].ref] = j /\ heap'[j].ref \notin {t.ref, leaving}
  <2>1. CASE j = pos
    BY <1>1, <1>2, <1>3, <2>1
  <2>2. CASE j # pos
    <3>1. heap_idx[heap[j].ref] = j /\ heap[j].ref \notin {t.ref, leaving}
      BY <2>2 DEF RefInv, Hole, Stale
    <3>2. heap[j].ref # heap[i].ref /\ heap[j].ref \in Entries
      BY <1>3, <1>4, <3>1, ValsAreNat
    <3>. QED
      BY <1>1, <1>2, <2>2, <3>1, <3>2
  <2>. QED
    BY <2>1, <2>2
<1>5. ASSUME NEW f \in Entries, heap_idx'[f] # NoIdx, f \notin {t.ref, leaving}
      PROVE  /\ heap_idx'[f] \in 0 .. size - 1
             /\ heap_idx'[f] # i
             /\ heap'[heap_idx'[f]].ref = f
  <2>1. CASE f = heap[i].ref
    BY <1>1, <1>2, <2>1
  <2>2. CASE f # heap[i].ref
    <3>1. heap_idx'[f] = heap_idx[f] /\ heap_idx[f] # NoIdx
      BY <1>2, <1>5, <2>2
    <3>2. /\ heap_idx[f] \in 0 .. size - 1 /\ heap_idx[f] # pos
          /\ heap[heap_idx[f]].ref = f
      BY <1>5, <3>1 DEF RefInv, Hole, Stale
    <3>. QED
      BY <1>1, <2>2, <3>1, <3>2
  <2>. QED
    BY <2>1, <2>2
<1>6. t'.ref # leaving'
  BY <1>1 DEF RefInv
<1>. QED
  BY <1>1, <1>4, <1>5, <1>6 DEF RefInv, Hole, Stale

LEMMA FillHoleRef ==
  ASSUME TypeOK, RefInv, pc # "idle", FillHole
  PROVE  RefInv'
<1>1. /\ pos \in 0 .. size - 1 /\ t.ref \in Entries /\ t.ref # leaving
      /\ size' = size /\ pc' = "idle" /\ heap'[pos] = t
      /\ \A j \in 0 .. size - 1 : j # pos => heap'[j] = heap[j]
  BY DEF TypeOK, FillHole, Item, RefInv
<1>2. /\ heap_idx'[t.ref] = pos
      /\ \A f \in Entries : f # t.ref /\ f # leaving => heap_idx'[f] = heap_idx[f]
      /\ \A f \in Entries : f = leaving => heap_idx'[f] = NoIdx
  BY <1>1, ConstantsAssumption DEF TypeOK, FillHole
<1>3. ASSUME NEW j \in 0 .. size - 1
      PROVE  heap_idx'[heap'[j].ref] = j
  <2>1. CASE j = pos
    BY <1>1, <1>2, <2>1
  <2>2. CASE j # pos
    <3>1. heap_idx[heap[j].ref] = j /\ ~Stale(heap[j].ref)
      BY <2>2 DEF RefInv, Hole
    <3>. QED
      BY <1>1, <1>2, <2>2, <3>1, ValsAreNat DEF Stale
  <2>. QED
    BY <2>1, <2>2
<1>4. ASSUME NEW f \in Entries, heap_idx'[f] # NoIdx
      PROVE  heap_idx'[f] \in 0 .. size - 1 /\ heap'[heap_idx'[f]].ref = f
  <2>1. CASE f = t.ref
    BY <1>1, <1>2, <2>1
  <2>2. CASE f # t.ref
    <3>1. f # leaving /\ heap_idx'[f] = heap_idx[f]
      BY <1>2, <1>4, <2>2
    <3>2. /\ heap_idx[f] \in 0 .. size - 1 /\ heap_idx[f] # pos
          /\ heap[heap_idx[f]].ref = f
      BY <1>4, <2>2, <3>1 DEF RefInv, Hole, Stale
    <3>. QED
      BY <1>1, <3>1, <3>2
  <2>. QED
    BY <2>1, <2>2
<1>. QED
  BY <1>1, <1>3, <1>4 DEF RefInv, Hole, Stale

-----------------------------------------------------------------------------
(* The inductive invariant. *)
LEMMA DeleteIInv ==
  ASSUME IInv, NEW e \in Entries, Delete(e)
  PROVE  IInv'
  BY DeleteType, DeleteOrder, DeleteRef DEF IInv

LEMMA FillIInv ==
  ASSUME IInv, FillHole,
         \/ pc = "up" /\ ~BelowParent
         \/ pc = "down" /\ ~GoLeft /\ ~GoRight
  PROVE  IInv'
  BY FillHoleType, FillOrder, FillHoleRef DEF IInv

LEMMA HeapUpIInv ==
  ASSUME IInv, HeapUp
  PROVE  IInv'
<1>1. TypeOK /\ OrderInv /\ RefInv /\ pc = "up"
  BY DEF IInv, HeapUp
<1>2. CASE BelowParent /\ MoveHole(Parent(pos))
  <2>1. Parent(pos) \in 0 .. size - 1 /\ Parent(pos) # pos
    BY <1>1, <1>2, ParentFacts DEF TypeOK, BelowParent
  <2>. QED
    BY <1>1, <1>2, <2>1, MoveHoleType, MoveUpOrder, MoveHoleRef DEF IInv
<1>3. CASE ~BelowParent /\ FillHole
  BY <1>1, <1>3, FillIInv
<1>. QED
  BY <1>2, <1>3 DEF HeapUp

LEMMA HeapDownIInv ==
  ASSUME IInv, HeapDown
  PROVE  IInv'
<1>1. /\ TypeOK /\ OrderInv /\ RefInv /\ pc = "down"
      /\ size \in Nat /\ pos \in 0 .. size - 1 /\ t.val \in Nat
  BY ConstantsAssumption DEF IInv, HeapDown, TypeOK, Item
<1>2. ASSUME NEW k \in 1 .. size - 1, Parent(k) = pos, MoveHole(k),
             heap[k].val < t.val,
             \A i \in 1 .. size - 1 : Parent(i) = pos => heap[k].val <= heap[i].val
      PROVE  IInv'
  <2>1. k \in 0 .. size - 1 /\ k # pos
    BY <1>1, <1>2, ParentFacts
  <2>. QED
    BY <1>1, <1>2, <2>1, MoveHoleType, MoveDownOrder, MoveHoleRef DEF IInv
<1>3. \A i \in 1 .. size - 1 : Parent(i) = pos => i = Left(pos) \/ i = Right(pos)
  BY ParentFacts
<1>4. /\ Left(pos) < size => Left(pos) \in 1 .. size - 1
      /\ Right(pos) < size => Right(pos) \in 1 .. size - 1
      /\ Parent(Left(pos)) = pos /\ Parent(Right(pos)) = pos
  BY <1>1, KidFacts
<1>5. \A i \in 1 .. size - 1 : heap[i].val \in Nat
  BY <1>1, ValsAreNat
<1>6. CASE GoRight /\ MoveHole(Right(pos))
  <2>1. Right(pos) < size /\ heap[Right(pos)].val < t.val
    BY <1>6 DEF GoRight
  <2>2. \A i \in 1 .. size - 1 : Parent(i) = pos =>
          heap[Right(pos)].val <= heap[i].val
    <3> TAKE i \in 1 .. size - 1
    <3> HAVE Parent(i) = pos
    <3>1. CASE i = Right(pos)
      BY <1>5, <3>1
    <3>2. CASE i = Left(pos) /\ GoLeft
      BY <1>4, <1>5, <1>6, <2>1, <3>2 DEF GoRight
    <3>3. CASE i = Left(pos) /\ ~GoLeft
      <4>1. ~(heap[i].val < t.val)
        BY <1>1, <3>3 DEF GoLeft
      <4>. QED
        BY <1>1, <1>4, <1>5, <2>1, <4>1
    <3>. QED
      BY <1>3, <3>1, <3>2, <3>3
  <2>. QED
    BY <1>2, <1>4, <1>6, <2>1, <2>2
<1>7. CASE GoLeft /\ ~GoRight /\ MoveHole(Left(pos))
  <2>1. Left(pos) < size /\ heap[Left(pos)].val < t.val
    BY <1>7 DEF GoLeft
  <2>2. \A i \in 1 .. size - 1 : Parent(i) = pos =>
          heap[Left(pos)].val <= heap[i].val
    <3> TAKE i \in 1 .. size - 1
    <3> HAVE Parent(i) = pos
    <3>1. CASE i = Left(pos)
      BY <1>5, <3>1
    <3>2. CASE i = Right(pos)
      <4>1. \/ ~(heap[i].val < t.val)
            \/ ~(heap[i].val < heap[Left(pos)].val)
        BY <1>1, <1>4, <1>7, <3>2 DEF GoRight
      <4>. QED
        BY <1>1, <1>4, <1>5, <2>1, <4>1
    <3>. QED
      BY <1>3, <3>1, <3>2
  <2>. QED
    BY <1>2, <1>4, <1>7, <2>1, <2>2
<1>8. CASE ~GoLeft /\ ~GoRight /\ FillHole
  BY <1>1, <1>8, FillIInv
<1>. QED
  BY <1>6, <1>7, <1>8 DEF HeapDown

LEMMA IInvInit == Init => IInv
  BY DEF Init, IInv, TypeOK, OrderInv, RefInv, NoIdx, Hole, Stale

LEMMA IInvStep == IInv /\ [Next]_vars => IInv'
<1> SUFFICES ASSUME IInv, [Next]_vars
             PROVE  IInv'
  OBVIOUS
<1>1. ASSUME NEW e \in Entries, NEW v \in Times, SetTtl(e, v)
      PROVE  IInv'
  BY <1>1, SetTtlType, SetTtlOrder, SetTtlRef DEF IInv
<1>2. ASSUME NEW e \in Entries, ClearTtl(e)
      PROVE  IInv'
  BY <1>2, DeleteIInv DEF ClearTtl
<1>3. CASE ExpireTop
  <2>1. heap[0].ref \in Entries
    BY <1>3 DEF ExpireTop, IInv, TypeOK, Item
  <2>. QED
    BY <1>3, <2>1, DeleteIInv DEF ExpireTop, ClearTtl
<1>4. CASE HeapUp
  BY <1>4, HeapUpIInv
<1>5. CASE HeapDown
  BY <1>5, HeapDownIInv
<1>6. CASE UNCHANGED vars
  BY <1>6 DEF IInv, TypeOK, OrderInv, RefInv, Items, Hole, Stale, vars
<1>. QED
  BY <1>1, <1>2, <1>3, <1>4, <1>5, <1>6 DEF Next

(***************************************************************************)
(* Whatever sequence of pexpire, persist, del and expiry runs, every call  *)
(* of heap_upsert() and heap_delete() leaves a heap behind.                *)
(***************************************************************************)
THEOREM HeapOrderCorrect == Spec => []HeapOrder
<1>1. IInv => HeapOrder
  BY IdleOrder DEF IInv, HeapOrder
<1>. QED
  BY <1>1, IInvInit, IInvStep, PTL DEF Spec

(***************************************************************************)
(* And it leaves every entry knowing the position of its own timer, and no *)
(* other one.                                                              *)
(***************************************************************************)
THEOREM BackRefsCorrect == Spec => []BackRefs
<1>1. IInv => BackRefs
  BY DEF IInv, RefInv, BackRefs, Hole, Stale
<1>. QED
  BY <1>1, IInvInit, IInvStep, PTL DEF Spec

(* An ordered array has its minimum on top: the least counterexample would *)
(* have a parent that is smaller still.                                    *)
LEMMA TopIsMinimum ==
  ASSUME TypeOK, OrderInv, pc = "idle"
  PROVE  \A i \in 0 .. size - 1 : heap[0].val <= heap[i].val
<1> DEFINE bad == {i \in 0 .. size - 1 : ~(heap[0].val <= heap[i].val)}
<1> SUFFICES ASSUME bad # {} PROVE FALSE
  OBVIOUS
<1>1. bad \subseteq Nat /\ size \in Nat
  BY DEF TypeOK
<1>2. PICK m \in bad : \A j \in bad : ~(j < m)
  <2>1. \E m \in bad : \A j \in bad : ~(<<j, m>> \in OpToRel(<, Nat))
    BY <1>1, NatLessThanWellFounded, WFMin
  <2>. QED
    BY <1>1, <2>1 DEF OpToRel
<1>3. m \in 1 .. size - 1
  BY <1>1, ValsAreNat
<1>4. Parent(m) \in 0 .. size - 1 /\ Parent(m) < m
  BY <1>1, <1>3, ParentFacts
<1>5. heap[0].val <= heap[Parent(m)].val
  BY <1>2, <1>4
<1>6. heap[Parent(m)].val <= heap[m].val
  BY <1>3, IdleOrder
<1>. QED
  BY <1>1, <1>3, <1>4, <1>5, <1>6, ValsAreNat

(***************************************************************************)
(* Reading heap[0] is enough to find the next timer to fire.               *)
(***************************************************************************)
THEOREM TopIsEarliestCorrect == Spec => []TopIsEarliest
<1>1. IInv => TopIsEarliest
  BY TopIsMinimum DEF IInv, TopIsEarliest
<1>. QED
  BY <1>1, IInvInit, IInvStep, PTL DEF Spec

-----------------------------------------------------------------------------
(***************************************************************************)
(* The refinement of TimerQueue.  With the held item back in its hole, no  *)
(* two items belong to the same entry, so that the deadlines are exactly   *)
(* the items, whatever their places; a sifting step only moves them.       *)
(***************************************************************************)
LEMMA ItemsArray ==
  ASSUME IInv
  PROVE  /\ size \in Nat /\ Items \in [0 .. size - 1 -> Item]
         /\ \A i \in 0 .. size - 1 : Items[i].val \in Times /\ Items[i].ref \in Entries
         /\ pc # "idle" => pos \in 0 .. size - 1 /\ Items[pos] = t
         /\ \A i \in 0 .. size - 1 : ~Hole(i) => Items[i] = heap[i]
<1>1. Items \in [0 .. size - 1 -> Item]
  BY DEF IInv, TypeOK, Items
<1>. QED
  BY <1>1 DEF IInv, TypeOK, Items, Hole, Item

LEMMA UniqueRefs ==
  ASSUME IInv, NEW i \in 0 .. size - 1, NEW j \in 0 .. size - 1,
         Items[i].ref = Items[j].ref
  PROVE  i = j
<1>1. \A k \in 0 .. size - 1 : ~Hole(k) =>
        /\ heap_idx[Items[k].ref] = k
        /\ pc # "idle" => Items[k].ref # t.ref
  BY ItemsArray DEF IInv, RefInv, Stale
<1>2. \A k \in 0 .. size - 1 : Hole(k) => pc # "idle" /\ k = pos /\ Items[k].ref = t.ref
  BY ItemsArray DEF Hole
<1>. QED
  BY <1>1, <1>2

DeadlinesAreItems ==
  /\ DOMAIN Deadline = Entries /\ Deadline = [e \in Entries |-> Deadline[e]]
  /\ \A i \in 0 .. size - 1 : Deadline[Items[i].ref] = Items[i].val
  /\ \A e \in Entries :
       (\A i \in 0 .. size - 1 : Items[i].ref # e) => Deadline[e] = None

LEMMA DeadlineFacts == IInv => DeadlinesAreItems
<1> SUFFICES ASSUME IInv
             PROVE  DeadlinesAreItems
  OBVIOUS
<1>1. DOMAIN Deadline = Entries /\ Deadline = [e \in Entries |-> Deadline[e]]
  BY DEF Deadline
<1>2. ASSUME NEW i \in 0 .. size - 1
      PROVE  Deadline[Items[i].ref] = Items[i].val
  <2> DEFINE e == Items[i].ref
             k == CHOOSE j \in 0 .. size - 1 : Items[j].ref = e
  <2>1. k \in 0 .. size - 1 /\ Items[k].ref = e
    OBVIOUS
  <2>2. k = i
    BY <2>1, UniqueRefs
  <2>3. e \in Entries
    BY ItemsArray
  <2>. QED
    BY <2>2, <2>3 DEF Deadline
<1>3. ASSUME NEW e \in Entries, \A i \in 0 .. size - 1 : Items[i].ref # e
      PROVE  Deadline[e] = None
  BY <1>3 DEF Deadline
<1>. QED
  BY <1>1, <1>2, <1>3 DEF DeadlinesAreItems

(* A non-empty set of times has exactly one least element. *)
LEMMA LeastTime ==
  ASSUME NEW V, V \subseteq Nat, V # {}
  PROVE  \E m \in V : /\ \A w \in V : m <= w
                      /\ \A n \in V : (\A w \in V : n <= w) => n = m
<1>1. PICK m \in V : \A w \in V : ~(w < m)
  <2>1. \E m \in V : \A w \in V : ~(<<w, m>> \in OpToRel(<, Nat))
    BY NatLessThanWellFounded, WFMin
  <2>. QED
    BY <2>1 DEF OpToRel
<1>. QED
  BY <1>1

(***************************************************************************)
(* What next_timer_ms() reads at the top is the abstract earliest time.    *)
(***************************************************************************)
LEMMA EarliestFacts == IInv => EarliestSeen = Timers!Earliest(Deadline)
<1> SUFFICES ASSUME IInv
             PROVE  EarliestSeen = Timers!Earliest(Deadline)
  OBVIOUS
<1> DEFINE V == {Deadline[e] : e \in Entries} \ {None}
           W == {Items[i].val : i \in 0 .. size - 1}
<1>1. size \in Nat /\ Times \subseteq Nat /\ None \notin Times /\ DeadlinesAreItems
  BY ItemsArray, DeadlineFacts, ConstantsAssumption
<1>2. V = W
  <2>1. ASSUME NEW i \in 0 .. size - 1
        PROVE  Items[i].val \in V
    BY <1>1, ItemsArray DEF DeadlinesAreItems
  <2>2. ASSUME NEW e \in Entries, Deadline[e] # None
        PROVE  Deadline[e] \in W
    BY <1>1, <2>2 DEF DeadlinesAreItems
  <2>. QED
    BY <2>1, <2>2
<1>3. CASE size = 0
  <2>1. W = {}
    BY <1>3
  <2>. QED
    BY <1>2, <1>3, <2>1 DEF EarliestSeen, Timers!Earliest
<1>4. CASE size # 0
  <2>1. 0 \in 0 .. size - 1 /\ W # {} /\ W \subseteq Nat
    <3>1. 0 \in 0 .. size - 1
      BY <1>1, <1>4
    <3>2. Items[0].val \in W
      BY <3>1
    <3>3. \A i \in 0 .. size - 1 : Items[i].val \in Nat
      BY <1>1, ItemsArray
    <3>. QED
      BY <3>1, <3>2, <3>3
  <2> HIDE DEF W
  <2>2. PICK m \in W : /\ \A w \in W : m <= w
                       /\ \A n \in W : (\A w \in W : n <= w) => n = m
    BY <2>1, LeastTime
  <2>3. Timers!Earliest(Deadline) = m
    <3>1. m = CHOOSE v \in W : \A w \in W : v <= w
      BY <2>2
    <3>. QED
      BY <1>2, <2>1, <3>1 DEF Timers!Earliest
  <2>4. CASE pc = "idle"
    <3>1. EarliestSeen = heap[0].val /\ Items = heap
      BY <1>4, <2>4 DEF EarliestSeen, Items
    <3>2. \A i \in 0 .. size - 1 : heap[0].val <= heap[i].val
      BY <2>4, TopIsMinimum DEF IInv
    <3>3. heap[0].val \in W /\ \A w \in W : heap[0].val <= w
      BY <2>1, <3>1, <3>2 DEF W
    <3>. QED
      BY <2>2, <2>3, <3>1, <3>3
  <2>5. CASE pc # "idle"
    <3>1. EarliestSeen = CHOOSE v \in W : \A i \in 0 .. size - 1 : v <= Items[i].val
      BY <1>4, <2>5 DEF EarliestSeen, W
    <3>2. \A v \in W : (\A i \in 0 .. size - 1 : v <= Items[i].val) <=> (\A w \in W : v <= w)
      BY DEF W
    <3>3. m = CHOOSE v \in W : \A i \in 0 .. size - 1 : v <= Items[i].val
      BY <2>2, <3>2
    <3>. QED
      BY <2>3, <3>1, <3>3
  <2>. QED
    BY <2>4, <2>5
<1>. QED
  BY <1>3, <1>4

(* The same after a step. *)
LEMMA NextFacts ==
  IInv' => DeadlinesAreItems' /\ (EarliestSeen = Timers!Earliest(Deadline))'
BY DeadlineFacts, EarliestFacts, PTL

(***************************************************************************)
(* A step that leaves every item in the array, wherever it puts it, leaves *)
(* the deadlines and the earliest one alone.                               *)
(***************************************************************************)
LEMMA MovedFacts ==
  ASSUME IInv, IInv', size' = size,
         \A i \in 0 .. size - 1 : \E j \in 0 .. size - 1 : Items'[i] = Items[j],
         \A j \in 0 .. size - 1 : \E i \in 0 .. size - 1 : Items'[i] = Items[j]
  PROVE  UNCHANGED <<Deadline, EarliestSeen>>
<1>1. /\ DeadlinesAreItems /\ DeadlinesAreItems'
      /\ EarliestSeen = Timers!Earliest(Deadline)
      /\ EarliestSeen' = Timers!Earliest(Deadline')
  BY DeadlineFacts, EarliestFacts, NextFacts
<1>2. ASSUME NEW e \in Entries
      PROVE  Deadline'[e] = Deadline[e]
  <2>1. CASE \E j \in 0 .. size - 1 : Items[j].ref = e
    <3>1. PICK j \in 0 .. size - 1 : Items[j].ref = e
      BY <2>1
    <3>2. PICK i \in 0 .. size - 1 : Items'[i] = Items[j]
      OBVIOUS
    <3>3. Deadline[Items[j].ref] = Items[j].val /\ Deadline'[Items'[i].ref] = Items'[i].val
      BY <1>1 DEF DeadlinesAreItems
    <3>. QED
      BY <3>1, <3>2, <3>3
  <2>2. CASE \A j \in 0 .. size - 1 : Items[j].ref # e
    <3>1. \A i \in 0 .. size' - 1 : Items'[i].ref # e
      BY <2>2
    <3>. QED
      BY <1>1, <2>2, <3>1 DEF DeadlinesAreItems
  <2>. QED
    BY <2>1, <2>2
<1>3. Deadline' = Deadline
  BY <1>1, <1>2 DEF DeadlinesAreItems
<1>. QED
  BY <1>1, <1>3

(* The sifting steps move items and nothing else. *)
LEMMA SiftUnseen ==
  ASSUME IInv, HeapUp \/ HeapDown
  PROVE  UNCHANGED Timers!vars
<1>1. /\ pc # "idle" /\ size \in Nat /\ pos \in 0 .. size - 1 /\ IInv'
      /\ heap \in [0 .. size - 1 -> Item]
  BY HeapUpIInv, HeapDownIInv DEF IInv, TypeOK, HeapUp, HeapDown
<1>2. ASSUME NEW i \in 0 .. size - 1, i # pos, MoveHole(i), pc' = pc
      PROVE  UNCHANGED <<Deadline, EarliestSeen>>
  <2>1. /\ size' = size
        /\ Items' = [heap EXCEPT ![pos] = heap[i], ![i] = t]
        /\ Items = [heap EXCEPT ![pos] = t]
    BY <1>1, <1>2 DEF MoveHole, Items
  <2>2. /\ Items'[pos] = Items[i] /\ Items'[i] = Items[pos]
        /\ \A j \in 0 .. size - 1 : j # pos /\ j # i => Items'[j] = Items[j]
    BY <1>1, <1>2, <2>1
  <2>3. \A j \in 0 .. size - 1 : \E k \in 0 .. size - 1 : Items'[j] = Items[k]
    BY <1>1, <2>2
  <2>4. \A k \in 0 .. size - 1 : \E j \in 0 .. size - 1 : Items'[j] = Items[k]
    BY <1>1, <2>2
  <2>. QED
    BY <1>1, <2>1, <2>3, <2>4, MovedFacts
<1>3. CASE FillHole
  <2>1. size' = size /\ Items' = Items
    BY <1>1, <1>3 DEF FillHole, Items
  <2>. QED
    BY <1>1, <2>1, MovedFacts DEF Timers!vars
<1>4. ASSUME NEW i \in 0 .. size - 1, MoveHole(i), i # pos
      PROVE  UNCHANGED Timers!vars
  BY <1>2, <1>4 DEF MoveHole, Timers!vars
<1>5. /\ BelowParent => Parent(pos) \in 0 .. size - 1 /\ Parent(pos) # pos
      /\ GoLeft => Left(pos) \in 0 .. size - 1 /\ Left(pos) # pos
      /\ GoRight => Right(pos) \in 0 .. size - 1 /\ Right(pos) # pos
  <2>1. pos \in Nat
    BY <1>1
  <2>2. /\ pos > 0 => Parent(pos) # pos
        /\ Left(pos) # pos /\ Right(pos) # pos
    BY <2>1 DEF Parent, Left, Right
  <2>3. BelowParent => pos > 0
    BY DEF BelowParent
  <2>. QED
    BY <1>1, <2>2, <2>3, SiftTargets DEF IInv
<1>. QED
  BY <1>3, <1>4, <1>5 DEF HeapUp, HeapDown

(* entry_set_ttl() gives its entry the new deadline and no other one. *)
LEMMA SetIsSetTimer ==
  ASSUME IInv, IInv', NEW e \in Entries, NEW v \in Times, SetTtl(e, v)
  PROVE  Timers!SetTimer(e, v)
<1> DEFINE item == [val |-> v, ref |-> e]
<1>1. /\ pc = "idle" /\ pc' # "idle" /\ Items = heap /\ size \in Nat
      /\ heap \in [0 .. size - 1 -> Item]
  BY DEF SetTtl, IInv, TypeOK, Items, HeapUpdate, Push
<1>2. /\ DeadlinesAreItems /\ DeadlinesAreItems'
      /\ EarliestSeen' = Timers!Earliest(Deadline')
  BY DeadlineFacts, NextFacts
<1>3. PICK p \in 0 .. size' - 1 :
        /\ Items'[p] = item
        /\ \A i \in 0 .. size' - 1 : i # p => i \in 0 .. size - 1 /\ Items'[i] = Items[i]
        /\ \A i \in 0 .. size - 1 : i # p => i \in 0 .. size' - 1
        /\ p \in 0 .. size - 1 => Items[p].ref = e
  <2>1. CASE heap_idx[e] \in 0 .. size - 1
    <3> DEFINE a == [heap EXCEPT ![heap_idx[e]] = item]
    <3>1. HeapUpdate(a, size, heap_idx[e])
      BY <2>1 DEF SetTtl
    <3>2. size' = size /\ Items' = a
      BY <3>1 DEF HeapUpdate, Items
    <3>3. heap[heap_idx[e]].ref = e
      BY <1>1, <2>1 DEF IInv, RefInv, Hole, Stale, NoIdx
    <3>4. a[heap_idx[e]] = item /\ \A i \in 0 .. size - 1 : i # heap_idx[e] => a[i] = heap[i]
      BY <1>1, <2>1
    <3>. QED
      BY <1>1, <2>1, <3>2, <3>3, <3>4
  <2>2. CASE heap_idx[e] \notin 0 .. size - 1
    <3> DEFINE a == [i \in 0 .. size |-> IF i = size THEN item ELSE heap[i]]
    <3>1. HeapUpdate(a, size + 1, size)
      BY <2>2 DEF SetTtl, Push
    <3>2. size' = size + 1 /\ Items' = a
      BY <3>1 DEF HeapUpdate, Items
    <3>3. /\ size \in 0 .. size' - 1 /\ size \notin 0 .. size - 1
          /\ \A i \in 0 .. size' - 1 : i # size => i \in 0 .. size - 1
          /\ \A i \in 0 .. size - 1 : i \in 0 .. size' - 1
      BY <1>1, <3>2
    <3>4. a[size] = item /\ \A i \in 0 .. size - 1 : a[i] = heap[i]
      BY <1>1
    <3>. QED
      BY <1>1, <3>2, <3>3, <3>4
  <2>. QED
    BY <2>1, <2>2
<1>4. Deadline'[e] = v
  BY <1>2, <1>3 DEF DeadlinesAreItems
<1>5. ASSUME NEW f \in Entries, f # e
      PROVE  Deadline'[f] = Deadline[f]
  <2>1. CASE \E i \in 0 .. size - 1 : Items[i].ref = f
    <3>1. PICK i \in 0 .. size - 1 : Items[i].ref = f
      BY <2>1
    <3>2. i \in 0 .. size' - 1 /\ Items'[i] = Items[i]
      BY <1>3, <1>5, <3>1
    <3>3. Deadline[Items[i].ref] = Items[i].val /\ Deadline'[Items'[i].ref] = Items'[i].val
      BY <1>2, <3>2 DEF DeadlinesAreItems
    <3>. QED
      BY <3>1, <3>2, <3>3
  <2>2. CASE \A i \in 0 .. size - 1 : Items[i].ref # f
    <3>1. \A i \in 0 .. size' - 1 : Items'[i].ref # f
      BY <1>3, <1>5, <2>2
    <3>. QED
      BY <1>2, <2>2, <3>1 DEF DeadlinesAreItems
  <2>. QED
    BY <2>1, <2>2
<1>6. Deadline' = [Deadline EXCEPT ![e] = v]
  BY <1>2, <1>4, <1>5 DEF DeadlinesAreItems
<1>. QED
  BY <1>2, <1>6 DEF Timers!SetTimer

(* heap_delete() takes the deadline of its entry away and no other one. *)
LEMMA DeleteIsRemoveTimer ==
  ASSUME IInv, IInv', NEW e \in Entries, Delete(e)
  PROVE  Timers!RemoveTimer(e)
<1> DEFINE p == heap_idx[e]
           n == size - 1
<1>1. /\ pc = "idle" /\ Items = heap /\ size \in Nat /\ p \in 0 .. n /\ n \in Nat
      /\ heap \in [0 .. n -> Item]
  BY DEF Delete, IInv, TypeOK, Items
<1>2. /\ DeadlinesAreItems /\ DeadlinesAreItems'
      /\ EarliestSeen' = Timers!Earliest(Deadline')
  BY DeadlineFacts, NextFacts
<1>3. size' = n /\ Items' = SwapOut(p)
  BY <1>1 DEF Delete, HeapUpdate, Items, SwapOut
<1>4. /\ \A i \in 0 .. n - 1 : i # p => Items'[i] = Items[i]
      /\ p < n => Items'[p] = Items[n]
  BY <1>1, <1>3 DEF SwapOut
<1>5. Items[p].ref = e /\ p \in 0 .. size - 1
  BY <1>1 DEF IInv, RefInv, Hole, Stale, NoIdx
<1>6. Deadline[e] = Items[p].val /\ Items[p].val \in Times
  BY <1>2, <1>5, ItemsArray DEF DeadlinesAreItems
<1>7. \A i \in 0 .. n : i # p => Items[i].ref # e
  BY <1>1, <1>5, UniqueRefs
<1>8. Deadline'[e] = None
  <2>1. \A i \in 0 .. n - 1 : Items'[i].ref # e
    BY <1>1, <1>4, <1>7
  <2>. QED
    BY <1>2, <1>3, <2>1 DEF DeadlinesAreItems
<1>9. ASSUME NEW f \in Entries, f # e
      PROVE  Deadline'[f] = Deadline[f]
  <2>1. CASE \E i \in 0 .. n : Items[i].ref = f
    <3>1. PICK i \in 0 .. n : Items[i].ref = f
      BY <2>1
    <3>2. PICK j \in 0 .. n - 1 : Items'[j] = Items[i]
      <4>1. i # p
        BY <1>5, <1>9, <3>1
      <4>2. CASE i < n
        BY <1>1, <1>4, <4>1, <4>2
      <4>3. CASE i = n
        BY <1>1, <1>4, <4>1, <4>3
      <4>. QED
        BY <1>1, <4>2, <4>3
    <3>3. Deadline[Items[i].ref] = Items[i].val /\ Deadline'[Items'[j].ref] = Items'[j].val
      BY <1>2, <1>3 DEF DeadlinesAreItems
    <3>. QED
      BY <3>1, <3>2, <3>3
  <2>2. CASE \A i \in 0 .. n : Items[i].ref # f
    <3>1. \A i \in 0 .. n - 1 : Items'[i].ref # f
      BY <1>1, <1>4, <2>2
    <3>. QED
      BY <1>2, <1>3, <2>2, <3>1 DEF DeadlinesAreItems
  <2>. QED
    BY <2>1, <2>2
<1>10. Deadline' = [Deadline EXCEPT ![e] = None]
  BY <1>2, <1>8, <1>9 DEF DeadlinesAreItems
<1>. QED
  BY <1>2, <1>6, <1>10, ConstantsAssumption DEF Timers!RemoveTimer

LEMMA TimersInit == Init => Timers!Init
<1> SUFFICES ASSUME Init
             PROVE  Timers!Init
  OBVIOUS
<1>1. size = 0 /\ pc = "idle"
  BY DEF Init
<1>2. Deadline = [e \in Entries |-> None]
  BY <1>1 DEF Deadline
<1>. QED
  BY <1>1, <1>2 DEF Timers!Init, EarliestSeen

LEMMA TimersStep == IInv /\ [Next]_vars => [Timers!Next]_(Timers!vars)
<1> SUFFICES ASSUME IInv, [Next]_vars
             PROVE  Timers!Next \/ UNCHANGED Timers!vars
  OBVIOUS
<1>1. IInv'
  BY IInvStep
<1>2. ASSUME NEW e \in Entries, NEW v \in Times, SetTtl(e, v)
      PROVE  Timers!Next
  BY <1>1, <1>2, SetIsSetTimer DEF Timers!Next
<1>3. ASSUME NEW e \in Entries, Delete(e)
      PROVE  Timers!Next
  BY <1>1, <1>3, DeleteIsRemoveTimer DEF Timers!Next
<1>4. CASE ExpireTop
  <2>1. heap[0].ref \in Entries
    BY <1>4 DEF ExpireTop, IInv, TypeOK, Item
  <2>. QED
    BY <1>3, <1>4, <2>1 DEF ExpireTop, ClearTtl
<1>5. CASE UNCHANGED vars
  <2>1. Deadline' = Deadline /\ EarliestSeen' = EarliestSeen
    BY <1>5 DEF vars, Deadline, EarliestSeen, Items
  <2>. QED
    BY <2>1 DEF Timers!vars
<1>. QED
  BY <1>2, <1>3, <1>4, <1>5, SiftUnseen DEF Next, ClearTtl

(***************************************************************************)
(* The back-pointer heap is a set of timers with the earliest one at hand, *)
(* whatever the number of keys: setting one takes effect in one step,      *)
(* removing one removes no other one, and no sifting step is ever seen.    *)
(***************************************************************************)
THEOREM ImplementsTimerQueueCorrect == Spec => ImplementsTimerQueue
BY IInvInit, IInvStep, TimersInit, TimersStep, PTL
DEF Spec, ImplementsTimerQueue, Timers!Spec

=============================================================================
