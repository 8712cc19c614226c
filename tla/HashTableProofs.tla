-------------------------- MODULE HashTableProofs --------------------------
(***************************************************************************)
(* TLAPS proofs about HashTable, for any set of nodes with any hashes, any *)
(* load factor and any amount of work per operation: types and sizes, the  *)
(* slot of every node, the progress of the migration, that it is over      *)
(* before the next one is due, and that the map is the set of its nodes.   *)
(***************************************************************************)
EXTENDS HashTable, FiniteSetTheorems, TLAPS

(***************************************************************************)
(* The older table is half as large as the newer one, and no table has a   *)
(* single slot.                                                            *)
(***************************************************************************)
Shape ==
  /\ newer.slots # 1 /\ older.slots # 1
  /\ older.slots > 0 => newer.slots = 2 * older.slots

(***************************************************************************)
(* While there is an older table, moving its nodes pays for the growth of  *)
(* the newer one: a node still in it counts twice, so that an insertion    *)
(* costs one, and each node it moves brings one back.  An insertion that   *)
(* has not moved a node yet may be one short; a deletion that has emptied  *)
(* the older table has left one over.                                      *)
(***************************************************************************)
Owing == IF op # None /\ op.name = "insert" /\ nwork = 0 /\ older.size > 0 THEN 1 ELSE 0
Spare == IF op = None /\ older.size = 0 THEN 1 ELSE 0

Load ==
  IF older.slots = 0
  THEN newer.slots > 0 => newer.size < newer.slots * MaxLoad
  ELSE newer.size + 2 * older.size + 1 + Spare <= 2 * (older.slots * MaxLoad) + Owing

IInv == TypeOK /\ InItsSlot /\ LeftAreAhead /\ Shape /\ Load

Placed(htab) ==
  \A i \in 0 .. htab.slots - 1 : \A n \in htab.tab[i] : Slot(htab, n) = i

-----------------------------------------------------------------------------
(* What the operations on one table do. *)
LEMMA ChainedIff ==
  ASSUME NEW htab, NEW n
  PROVE  n \in Chained(htab) <=> \E i \in 0 .. htab.slots - 1 : n \in htab.tab[i]
  BY DEF Chained

LEMMA TableFacts ==
  ASSUME NEW htab, TableOK(htab)
  PROVE  /\ Chained(htab) \subseteq Nodes /\ IsFiniteSet(Chained(htab))
         /\ htab.size \in Nat
         /\ htab.size = 0 <=> Chained(htab) = {}
         /\ htab.slots = 0 => htab.size = 0
         /\ htab.slots \in Nat
<1>1. Chained(htab) \subseteq Nodes
  BY DEF Chained, TableOK
<1>2. IsFiniteSet(Chained(htab))
  BY <1>1, FS_Subset, HashAssumption
<1>3. htab.size \in Nat /\ (htab.size = 0 <=> Chained(htab) = {})
  BY <1>2, FS_CardinalityType, FS_EmptySet DEF TableOK
<1>4. htab.slots = 0 => Chained(htab) = {}
  BY DEF Chained
<1>. QED
  BY <1>1, <1>2, <1>3, <1>4 DEF TableOK

LEMMA SlotFacts ==
  ASSUME NEW htab, htab.slots \in Nat, htab.slots > 0, NEW n \in Nodes
  PROVE  Slot(htab, n) \in 0 .. htab.slots - 1
<1>1. hcode[n] \in Nat
  BY HashAssumption
<1>. QED
  BY <1>1 DEF Slot

LEMMA InitFacts ==
  ASSUME NEW s \in Nat
  PROVE  /\ TableOK(h_init(s)) /\ Placed(h_init(s))
         /\ h_init(s).slots = s /\ h_init(s).size = 0
         /\ Chained(h_init(s)) = {}
         /\ \A i \in 0 .. s - 1 : h_init(s).tab[i] = {}
<1> DEFINE h == h_init(s)
<1>1. /\ DOMAIN h = {"slots", "tab", "size"}
      /\ h.slots = s /\ h.size = 0 /\ h.tab = [i \in 0 .. s - 1 |-> {}]
  BY DEF h_init
<1> HIDE DEF h
<1>2. Chained(h) = {}
  BY <1>1 DEF Chained
<1>3. h.tab \in [0 .. h.slots - 1 -> SUBSET Nodes]
  BY <1>1
<1>4. TableOK(h) /\ Placed(h)
  BY <1>1, <1>2, <1>3, FS_EmptySet DEF TableOK, Placed
<1>. QED
  BY <1>1, <1>2, <1>4 DEF h

LEMMA InsertFacts ==
  ASSUME NEW htab, TableOK(htab), Placed(htab), htab.slots > 0,
         NEW n \in Nodes, n \notin Chained(htab)
  PROVE  LET g == h_insert(htab, n)
         IN /\ TableOK(g) /\ Placed(g)
            /\ g.slots = htab.slots /\ g.size = htab.size + 1
            /\ Chained(g) = Chained(htab) \cup {n}
<1> DEFINE g == h_insert(htab, n)
           s == Slot(htab, n)
<1>1. s \in 0 .. htab.slots - 1 /\ htab.slots \in Nat
  BY SlotFacts DEF TableOK
<1>2. /\ DOMAIN g = {"slots", "tab", "size"}
      /\ g.slots = htab.slots /\ g.size = htab.size + 1
      /\ g.tab = [htab.tab EXCEPT ![s] = @ \cup {n}]
  BY DEF h_insert, TableOK
<1>3. /\ g.tab \in [0 .. g.slots - 1 -> SUBSET Nodes]
      /\ g.tab[s] = htab.tab[s] \cup {n}
      /\ \A i \in 0 .. htab.slots - 1 : i # s => g.tab[i] = htab.tab[i]
  BY <1>1, <1>2 DEF TableOK
<1> HIDE DEF g
<1>4. Chained(g) = Chained(htab) \cup {n}
  <2>1. \A i \in 0 .. htab.slots - 1 :
          g.tab[i] = htab.tab[i] \cup (IF i = s THEN {n} ELSE {})
    BY <1>3
  <2>. QED
    BY <1>1, <1>2, <2>1 DEF Chained
<1>5. g.size = Cardinality(Chained(g))
  BY <1>2, <1>4, TableFacts, FS_AddElement DEF TableOK
<1>6. Placed(g)
  <2>1. \A m : Slot(g, m) = Slot(htab, m)
    BY <1>2 DEF Slot
  <2>. QED
    BY <1>1, <1>2, <1>3, <2>1 DEF Placed
<1>7. TableOK(g)
  BY <1>1, <1>2, <1>3, <1>5 DEF TableOK
<1>. QED
  BY <1>2, <1>4, <1>6, <1>7 DEF g

LEMMA DetachFacts ==
  ASSUME NEW htab, TableOK(htab), Placed(htab),
         NEW i \in 0 .. htab.slots - 1, NEW n \in htab.tab[i]
  PROVE  LET g == h_detach(htab, i, n)
         IN /\ TableOK(g) /\ Placed(g)
            /\ g.slots = htab.slots /\ g.size = htab.size - 1
            /\ Chained(g) = Chained(htab) \ {n} /\ n \in Chained(htab)
            /\ \A j \in 0 .. htab.slots - 1 : g.tab[j] \subseteq htab.tab[j]
<1> DEFINE g == h_detach(htab, i, n)
<1>1. htab.slots \in Nat /\ n \in Chained(htab) /\ n \in Nodes
  BY ChainedIff, TableFacts
<1>2. /\ DOMAIN g = {"slots", "tab", "size"}
      /\ g.slots = htab.slots /\ g.size = htab.size - 1
      /\ g.tab = [htab.tab EXCEPT ![i] = @ \ {n}]
  BY DEF h_detach, TableOK
<1>3. /\ g.tab \in [0 .. g.slots - 1 -> SUBSET Nodes]
      /\ g.tab[i] = htab.tab[i] \ {n}
      /\ \A j \in 0 .. htab.slots - 1 : j # i => g.tab[j] = htab.tab[j]
  BY <1>2 DEF TableOK
<1> HIDE DEF g
<1>4. Chained(g) = Chained(htab) \ {n}
  <2>1. \A j \in 0 .. htab.slots - 1 : n \in htab.tab[j] => j = i
    BY DEF Placed
  <2>2. \A j \in 0 .. htab.slots - 1 : g.tab[j] = htab.tab[j] \ {n}
    BY <1>3, <2>1
  <2>. QED
    BY <1>2, <2>2 DEF Chained
<1>5. g.size = Cardinality(Chained(g))
  BY <1>1, <1>2, <1>4, TableFacts, FS_RemoveElement DEF TableOK
<1>6. Placed(g)
  <2>1. \A m : Slot(g, m) = Slot(htab, m)
    BY <1>2 DEF Slot
  <2>. QED
    BY <1>2, <1>3, <2>1 DEF Placed
<1>7. TableOK(g)
  BY <1>1, <1>2, <1>3, <1>5 DEF TableOK
<1>. QED
  BY <1>1, <1>2, <1>3, <1>4, <1>6, <1>7 DEF g

(* h_lookup() looks at one slot and misses nothing. *)
LEMMA HasFacts ==
  ASSUME NEW htab, TableOK(htab), Placed(htab), NEW n \in Nodes
  PROVE  /\ h_has(htab, n) <=> n \in Chained(htab)
         /\ h_has(htab, n) => /\ Slot(htab, n) \in 0 .. htab.slots - 1
                              /\ n \in htab.tab[Slot(htab, n)]
<1>1. htab.slots \in Nat
  BY DEF TableOK
<1>. QED
  BY <1>1, SlotFacts, ChainedIff DEF h_has, Placed

-----------------------------------------------------------------------------
(* The two tables together. *)
LEMMA Tables ==
  ASSUME IInv
  PROVE  /\ TableOK(newer) /\ Placed(newer) /\ newer.size \in Nat /\ newer.slots \in Nat
         /\ TableOK(older) /\ Placed(older) /\ older.size \in Nat /\ older.slots \in Nat
         /\ Chained(newer) \cap Chained(older) = {}
         /\ older.slots = 0 => older.size = 0
         /\ older.size = 0 <=> Chained(older) = {}
         /\ migrate_pos \in Nat /\ nwork \in 0 .. Work
         /\ MaxLoad \in Nat \ {0} /\ Work \in Nat \ {0}
<1>1. /\ TableOK(newer) /\ TableOK(older) /\ migrate_pos \in Nat /\ nwork \in 0 .. Work
      /\ Placed(newer) /\ Placed(older) /\ Chained(newer) \cap Chained(older) = {}
  BY DEF IInv, TypeOK, InItsSlot, Placed
<1>. QED
  BY <1>1, TableFacts, HashAssumption

(* Twice the slots hold twice as much. *)
LEMMA Doubled ==
  ASSUME NEW s \in Nat
  PROVE  /\ s * MaxLoad \in Nat /\ (2 * s) * MaxLoad = 2 * (s * MaxLoad)
         /\ s > 0 => s * MaxLoad > 0
<1>1. MaxLoad \in Nat /\ MaxLoad > 0
  BY HashAssumption
<1>2. s * MaxLoad \in Nat
  BY <1>1
<1>3. (2 * s) * MaxLoad = 2 * (s * MaxLoad)
  BY <1>1
<1>4. s > 0 => s * MaxLoad > 0
  BY <1>1
<1>. QED
  BY <1>2, <1>3, <1>4

(* A table with nodes left has one of them at migrate_pos or after it. *)
LEMMA AheadFacts ==
  ASSUME NEW htab, TableOK(htab), NEW p \in Nat,
         \A i \in 0 .. htab.slots - 1 : i < p => htab.tab[i] = {},
         htab.size > 0
  PROVE  p < htab.slots
<1>1. Chained(htab) # {} /\ htab.slots \in Nat
  BY TableFacts
<1>2. PICK i \in 0 .. htab.slots - 1 : htab.tab[i] # {}
  BY <1>1, ChainedIff
<1>. QED
  BY <1>1, <1>2

(* The older table is freed when no node is left in it, and only then. *)
LEMMA RemainingFacts ==
  ASSUME IInv
  PROVE  /\ TableOK(Remaining) /\ Placed(Remaining)
         /\ Chained(Remaining) = Chained(older) /\ Remaining.size = older.size
         /\ older.size > 0 => Remaining = older
         /\ older.size = 0 => Remaining.slots = 0
         /\ Remaining.slots = 0 \/ Remaining.slots = older.slots
<1>1. CASE older.size = 0
  <2>1. Remaining = h_init(0)
    BY <1>1 DEF Remaining, NoTab
  <2>2. /\ TableOK(h_init(0)) /\ Placed(h_init(0))
        /\ h_init(0).slots = 0 /\ h_init(0).size = 0 /\ Chained(h_init(0)) = {}
    BY InitFacts
  <2>. QED
    BY <1>1, <2>1, <2>2, Tables
<1>2. CASE older.size # 0
  BY <1>2, Tables DEF Remaining
<1>. QED
  BY <1>1, <1>2

(* The invariant, put together from the tables a step leaves behind. *)
LEMMA IInvNext ==
  ASSUME TableOK(newer'), Placed(newer'), TableOK(older'), Placed(older'),
         Chained(newer)' \cap Chained(older)' = {},
         migrate_pos' \in Nat, nwork' \in 0 .. Work,
         op' \in Ops \cup {None},
         reply' \in [asked : SUBSET Nodes, found : SUBSET Nodes],
         \A i \in 0 .. older'.slots - 1 : i < migrate_pos' => older'.tab[i] = {},
         Shape', Load'
  PROVE  IInv'
<1>1. LeftAreAhead'
  BY AheadFacts DEF LeftAreAhead
<1>2. InItsSlot'
  BY DEF InItsSlot, Placed
<1>3. TypeOK'
  BY DEF TypeOK
<1>. QED
  BY <1>1, <1>2, <1>3 DEF IInv

-----------------------------------------------------------------------------
(* The helping steps. *)
LEMMA SkipStep ==
  ASSUME IInv, SkipSlot
  PROVE  IInv' /\ UNCHANGED NodesIn!vars
<1>1. /\ older.size > 0 /\ older.tab[migrate_pos] = {}
      /\ migrate_pos' = migrate_pos + 1
      /\ UNCHANGED <<newer, older, op, nwork, reply>>
  BY DEF SkipSlot, Helping
<1>2. \A i \in 0 .. older.slots - 1 : i < migrate_pos + 1 => older.tab[i] = {}
  BY <1>1, Tables DEF IInv, LeftAreAhead
<1>3. Shape' /\ Load'
  BY <1>1 DEF IInv, Shape, Load, Owing, Spare
<1>4. migrate_pos' \in Nat
  BY <1>1, Tables
<1>5. IInv'
  BY <1>1, <1>2, <1>3, <1>4, Tables, IInvNext DEF IInv, TypeOK, Chained
<1>. QED
  BY <1>1, <1>5 DEF NodesIn!vars, Chained

LEMMA MoveStep ==
  ASSUME IInv, MoveNode
  PROVE  IInv' /\ UNCHANGED NodesIn!vars
<1>1. PICK n \in older.tab[migrate_pos] :
        /\ newer' = h_insert(newer, n) /\ older' = h_detach(older, migrate_pos, n)
  BY DEF MoveNode
<1>2. /\ op # None /\ nwork < Work /\ older.size > 0 /\ nwork' = nwork + 1
      /\ UNCHANGED <<migrate_pos, op, reply>>
  BY DEF MoveNode, Helping
<1>3. migrate_pos \in 0 .. older.slots - 1
  BY <1>2, Tables DEF IInv, LeftAreAhead
<1>4. /\ n \in Chained(older) /\ n \in Nodes /\ n \notin Chained(newer)
      /\ newer.slots > 0
  <2>1. n \in Chained(older)
    BY <1>3, ChainedIff
  <2>2. older.slots > 0
    BY <1>2, Tables
  <2>. QED
    BY <2>1, <2>2, Tables, TableFacts DEF IInv, Shape
<1>5. /\ TableOK(newer') /\ Placed(newer')
      /\ newer'.slots = newer.slots /\ newer'.size = newer.size + 1
      /\ Chained(newer)' = Chained(newer) \cup {n}
  <2>1. Chained(newer)' = Chained(newer')
    BY DEF Chained
  <2>. QED
    BY <1>1, <1>4, <2>1, Tables, InsertFacts
<1>6. /\ TableOK(older') /\ Placed(older')
      /\ older'.slots = older.slots /\ older'.size = older.size - 1
      /\ Chained(older)' = Chained(older) \ {n}
      /\ \A i \in 0 .. older.slots - 1 : older'.tab[i] \subseteq older.tab[i]
  <2>1. Chained(older)' = Chained(older')
    BY DEF Chained
  <2>. QED
    BY <1>1, <1>3, <2>1, Tables, DetachFacts
<1>7. \A i \in 0 .. older'.slots - 1 : i < migrate_pos' => older'.tab[i] = {}
  BY <1>2, <1>6 DEF IInv, LeftAreAhead
<1>8. Shape'
  BY <1>5, <1>6 DEF IInv, Shape
<1>9. Load'
  <2>1. older.slots # 0 /\ older.slots * MaxLoad \in Nat
    BY <1>2, Tables, Doubled
  <2>2. newer.size + 2 * older.size + 1 <= 2 * (older.slots * MaxLoad) + 1
    BY <1>2, <2>1, Tables DEF IInv, Load, Owing, Spare
  <2>3. Owing' = 0 /\ Spare' = 0
    BY <1>2, Tables DEF Owing, Spare
  <2>4. /\ newer'.size + 2 * older'.size + 1 + Spare'
             <= 2 * (older'.slots * MaxLoad) + Owing'
    BY <1>5, <1>6, <2>1, <2>2, <2>3, Tables
  <2>. QED
    BY <1>6, <2>1, <2>4 DEF Load
<1>10. nwork' \in 0 .. Work /\ Chained(newer)' \cap Chained(older)' = {}
  BY <1>2, <1>5, <1>6, Tables
<1>11. IInv'
  BY <1>2, <1>5, <1>6, <1>7, <1>8, <1>9, <1>10, Tables, IInvNext DEF IInv, TypeOK
<1>12. (Chained(newer) \cup Chained(older))' = Chained(newer) \cup Chained(older)
  BY <1>4, <1>5, <1>6
<1>. QED
  BY <1>2, <1>11, <1>12 DEF NodesIn!vars

-----------------------------------------------------------------------------
(* The operations end: what the load is once the help is over. *)
LEMMA HelpedLoad ==
  ASSUME IInv, op # None, ~Helping
  PROVE  /\ older.size > 0 =>
              newer.size + 2 * older.size + 1 <= 2 * (older.slots * MaxLoad)
         /\ older.size = 0 /\ newer.slots > 0 => newer.size < newer.slots * MaxLoad
<1>1. CASE older.size > 0
  <2>1. nwork >= Work /\ nwork # 0 /\ older.slots # 0
    BY <1>1, Tables DEF Helping
  <2>2. Owing = 0 /\ Spare = 0
    BY <1>1, <2>1 DEF Owing, Spare
  <2>3. older.slots * MaxLoad \in Nat
    BY Tables, Doubled
  <2>. QED
    BY <1>1, <2>1, <2>2, <2>3, Tables DEF IInv, Load
<1>2. CASE older.size = 0 /\ older.slots = 0
  BY <1>2 DEF IInv, Load
<1>3. CASE older.size = 0 /\ older.slots # 0
  <2>1. Owing = 0 /\ Spare = 0
    BY <1>3 DEF Owing, Spare
  <2>2. newer.size + 1 <= 2 * (older.slots * MaxLoad)
    BY <1>3, <2>1, Tables, Doubled DEF IInv, Load
  <2>3. newer.slots = 2 * older.slots
    BY <1>3, Tables DEF IInv, Shape
  <2>4. newer.slots * MaxLoad = 2 * (older.slots * MaxLoad)
    BY <2>3, Tables, Doubled
  <2>. QED
    BY <1>3, <2>2, <2>4, Tables, Doubled
<1>. QED
  BY <1>1, <1>2, <1>3, Tables

(* An insertion or a lookup ends, or a deletion that finds nothing. *)
LEMMA FreeStep ==
  ASSUME IInv, op # None, ~Helping,
         newer' = newer, older' = Remaining, op' = None,
         UNCHANGED <<migrate_pos, nwork>>,
         reply' \in [asked : SUBSET Nodes, found : SUBSET Nodes]
  PROVE  IInv' /\ (Chained(newer) \cup Chained(older))' = Chained(newer) \cup Chained(older)
<1>1. Chained(newer)' = Chained(newer) /\ Chained(older)' = Chained(older)
  <2>1. Chained(older)' = Chained(Remaining)
    BY DEF Chained
  <2>. QED
    BY <2>1, RemainingFacts DEF Chained
<1>2. \A i \in 0 .. older'.slots - 1 : i < migrate_pos' => older'.tab[i] = {}
  BY RemainingFacts, Tables DEF IInv, LeftAreAhead
<1>3. Shape'
  BY RemainingFacts, Tables DEF IInv, Shape
<1>4. Load'
  <2>1. CASE older.size > 0
    <3>1. older' = older /\ Owing' = 0 /\ Spare' = 0 /\ older.slots # 0
      BY <2>1, RemainingFacts, Tables DEF Owing, Spare
    <3>. QED
      BY <2>1, <3>1, Tables, HelpedLoad, Doubled DEF Load
  <2>2. CASE older.size = 0
    BY <2>2, HelpedLoad, RemainingFacts DEF Load
  <2>. QED
    BY <2>1, <2>2, Tables
<1>5. IInv'
  BY <1>1, <1>2, <1>3, <1>4, Tables, RemainingFacts, IInvNext
<1>. QED
  BY <1>1, <1>5

LEMMA OpIsCall ==
  ASSUME IInv, op # None
  PROVE  op.node \in Nodes
  BY DEF IInv, TypeOK, Ops

LEMMA InsertDoneStep ==
  ASSUME IInv, InsertDone
  PROVE  IInv' /\ UNCHANGED NodesIn!vars
<1>1. /\ op # None /\ ~Helping /\ newer' = newer /\ older' = Remaining /\ op' = None
      /\ UNCHANGED <<migrate_pos, nwork, reply>>
  BY DEF InsertDone, Helped
<1>2. reply' \in [asked : SUBSET Nodes, found : SUBSET Nodes]
  BY <1>1 DEF IInv, TypeOK
<1>. QED
  BY <1>1, <1>2, FreeStep DEF NodesIn!vars

(* The tables are searched one after the other, and that is enough. *)
LEMMA FoundFacts ==
  ASSUME IInv, NEW n \in Nodes
  PROVE  /\ h_has(newer, n) <=> n \in Chained(newer)
         /\ h_has(Remaining, n) <=> n \in Chained(older)
         /\ Found(n) = (Chained(newer) \cup Chained(older)) \cap {n}
<1>1. /\ h_has(newer, n) <=> n \in Chained(newer)
      /\ h_has(Remaining, n) <=> n \in Chained(older)
  BY Tables, RemainingFacts, HasFacts
<1>. QED
  BY <1>1 DEF Found

LEMMA LookupStep ==
  ASSUME IInv, hm_lookup
  PROVE  IInv' /\ NodesIn!Lookup(op.node) /\ op.node \in Nodes
<1>1. /\ op # None /\ ~Helping /\ newer' = newer /\ older' = Remaining /\ op' = None
      /\ UNCHANGED <<migrate_pos, nwork>>
      /\ reply' = [asked |-> {op.node}, found |-> Found(op.node)]
  BY DEF hm_lookup, Helped, Answer
<1>2. op.node \in Nodes
  BY <1>1, OpIsCall
<1>3. Found(op.node) = (Chained(newer) \cup Chained(older)) \cap {op.node}
  BY <1>2, FoundFacts
<1>4. reply' \in [asked : SUBSET Nodes, found : SUBSET Nodes]
  BY <1>1, <1>2, <1>3
<1>5. IInv' /\ (Chained(newer) \cup Chained(older))' = Chained(newer) \cup Chained(older)
  BY <1>1, <1>4, FreeStep
<1>. QED
  BY <1>1, <1>2, <1>3, <1>5 DEF NodesIn!Lookup, NodesIn!Answer

LEMMA DeleteStep ==
  ASSUME IInv, hm_delete
  PROVE  IInv' /\ NodesIn!Delete(op.node) /\ op.node \in Nodes
<1> DEFINE n == op.node
           nodes == Chained(newer) \cup Chained(older)
<1>1. /\ op # None /\ ~Helping /\ op' = None
      /\ UNCHANGED <<migrate_pos, nwork>>
  BY DEF hm_delete, Helped
<1>2. n \in Nodes
  BY <1>1, OpIsCall
<1>3. /\ h_has(newer, n) <=> n \in Chained(newer)
      /\ h_has(Remaining, n) <=> n \in Chained(older)
  BY <1>2, FoundFacts
<1>4. \A S : {n} \cap S \subseteq Nodes
  BY <1>2
<1>5. CASE h_has(newer, n)
  <2> DEFINE i == Slot(newer, n)
  <2>1. /\ newer' = h_detach(newer, i, n) /\ older' = Remaining
        /\ reply' = [asked |-> {n}, found |-> {n}]
    BY <1>3, <1>5 DEF hm_delete, Answer
  <2>2. i \in 0 .. newer.slots - 1 /\ n \in newer.tab[i]
    BY <1>2, <1>5, HasFacts, Tables
  <2> HIDE DEF i
  <2>3. /\ TableOK(newer') /\ Placed(newer')
        /\ newer'.slots = newer.slots /\ newer'.size = newer.size - 1
        /\ Chained(newer)' = Chained(newer) \ {n}
    <3>1. Chained(newer)' = Chained(newer')
      BY DEF Chained
    <3>. QED
      BY <2>1, <2>2, <3>1, Tables, DetachFacts
  <2>4. TableOK(older') /\ Placed(older') /\ Chained(older)' = Chained(older)
    <3>1. Chained(older)' = Chained(older')
      BY DEF Chained
    <3>. QED
      BY <2>1, <3>1, RemainingFacts
  <2>5. \A j \in 0 .. older'.slots - 1 : j < migrate_pos' => older'.tab[j] = {}
    BY <1>1, <2>1, RemainingFacts, Tables DEF IInv, LeftAreAhead
  <2>6. Shape'
    BY <2>1, <2>3, RemainingFacts, Tables DEF IInv, Shape
  <2>7. Load'
    <3>1. CASE older.size > 0
      <4>1. older' = older /\ Owing' = 0 /\ Spare' = 0 /\ older.slots # 0
        BY <1>1, <2>1, <3>1, RemainingFacts, Tables DEF Owing, Spare
      <4>2. newer.size + 2 * older.size + 1 <= 2 * (older.slots * MaxLoad)
        BY <1>1, <3>1, HelpedLoad
      <4>3. older.slots * MaxLoad \in Nat
        BY Tables, Doubled
      <4>4. newer'.size + 2 * older'.size + 1 + Spare' <= 2 * (older'.slots * MaxLoad) + Owing'
        BY <2>3, <4>1, <4>2, <4>3, Tables
      <4>. QED
        BY <4>1, <4>4 DEF Load
    <3>2. CASE older.size = 0
      <4>1. older'.slots = 0
        BY <2>1, <3>2, RemainingFacts
      <4>2. newer.slots > 0 => newer.size < newer.slots * MaxLoad
        BY <1>1, <3>2, HelpedLoad
      <4>3. newer'.slots > 0 => newer'.size < newer'.slots * MaxLoad
        BY <2>3, <4>2, Tables, Doubled
      <4>. QED
        BY <4>1, <4>3 DEF Load
    <3>. QED
      BY <3>1, <3>2, Tables
  <2>8. reply' \in [asked : SUBSET Nodes, found : SUBSET Nodes]
    BY <1>2, <2>1
  <2>9. IInv'
    BY <1>1, <2>3, <2>4, <2>5, <2>6, <2>7, <2>8, Tables, IInvNext
  <2>10. nodes' = nodes \ {n} /\ n \in nodes
    BY <1>3, <1>5, <2>3, <2>4, Tables
  <2>. QED
    BY <1>2, <2>1, <2>9, <2>10 DEF NodesIn!Delete, NodesIn!Answer
<1>6. CASE ~h_has(newer, n) /\ h_has(Remaining, n)
  <2> DEFINE i == Slot(Remaining, n)
  <2>1. n \in Chained(older) /\ older.size > 0 /\ Remaining = older
    BY <1>3, <1>6, RemainingFacts, Tables
  <2>2. /\ older' = h_detach(older, i, n) /\ newer' = newer
        /\ reply' = [asked |-> {n}, found |-> {n}]
    BY <1>6, <2>1 DEF hm_delete, Answer
  <2>3. i \in 0 .. older.slots - 1 /\ n \in older.tab[i]
    BY <1>2, <1>6, <2>1, HasFacts, Tables
  <2> HIDE DEF i
  <2>4. /\ TableOK(older') /\ Placed(older')
        /\ older'.slots = older.slots /\ older'.size = older.size - 1
        /\ Chained(older)' = Chained(older) \ {n}
        /\ \A j \in 0 .. older.slots - 1 : older'.tab[j] \subseteq older.tab[j]
    <3>1. Chained(older)' = Chained(older')
      BY DEF Chained
    <3>. QED
      BY <2>2, <2>3, <3>1, Tables, DetachFacts
  <2>5. Chained(newer)' = Chained(newer)
    BY <2>2 DEF Chained
  <2>6. \A j \in 0 .. older'.slots - 1 : j < migrate_pos' => older'.tab[j] = {}
    BY <1>1, <2>4 DEF IInv, LeftAreAhead
  <2>7. Shape'
    BY <2>2, <2>4 DEF IInv, Shape
  <2>8. Load'
    <3>1. Owing' = 0 /\ Spare' \in {0, 1} /\ older.slots # 0
          /\ older.slots * MaxLoad \in Nat
      BY <1>1, <2>1, Tables, Doubled DEF Owing, Spare
    <3>2. newer.size + 2 * older.size + 1 <= 2 * (older.slots * MaxLoad)
      BY <1>1, <2>1, HelpedLoad
    <3>3. newer'.size + 2 * older'.size + 1 + Spare' <= 2 * (older'.slots * MaxLoad) + Owing'
      BY <2>2, <2>4, <3>1, <3>2, Tables
    <3>. QED
      BY <2>4, <3>1, <3>3 DEF Load
  <2>9. reply' \in [asked : SUBSET Nodes, found : SUBSET Nodes]
    BY <1>2, <2>2
  <2>10. IInv'
    BY <1>1, <2>2, <2>4, <2>5, <2>6, <2>7, <2>8, <2>9, Tables, IInvNext
  <2>11. nodes' = nodes \ {n} /\ n \in nodes
    BY <1>3, <1>6, <2>1, <2>4, <2>5, Tables
  <2>. QED
    BY <1>2, <2>2, <2>10, <2>11 DEF NodesIn!Delete, NodesIn!Answer
<1>7. CASE ~h_has(newer, n) /\ ~h_has(Remaining, n)
  <2>1. newer' = newer /\ older' = Remaining /\ reply' = [asked |-> {n}, found |-> {}]
    BY <1>3, <1>7 DEF hm_delete, Answer
  <2>2. reply' \in [asked : SUBSET Nodes, found : SUBSET Nodes]
    BY <1>2, <2>1
  <2>3. IInv' /\ nodes' = nodes
    BY <1>1, <2>1, <2>2, FreeStep
  <2>4. n \notin nodes
    BY <1>3, <1>7
  <2>. QED
    BY <1>2, <2>1, <2>3, <2>4 DEF NodesIn!Delete, NodesIn!Answer
<1>. QED
  BY <1>5, <1>6, <1>7

-----------------------------------------------------------------------------
(* The other operations. *)
LEMMA CallStep ==
  ASSUME IInv, NEW n \in Nodes, Call("lookup", n) \/ Call("delete", n)
  PROVE  IInv' /\ UNCHANGED NodesIn!vars
<1>1. PICK name \in {"lookup", "delete"} :
        /\ op' = [name |-> name, node |-> n] /\ op = None /\ nwork' = 0
        /\ UNCHANGED <<newer, older, migrate_pos, reply>>
  BY DEF Call, HMap
<1>2. op' \in Ops /\ op'.name # "insert"
  BY <1>1 DEF Ops
<1>3. op' # None
  BY <1>1, <1>2, HashAssumption
<1>4. Shape'
  BY <1>1 DEF IInv, Shape
<1>5. Load'
  <2>1. Owing' = 0 /\ Owing = 0 /\ Spare' = 0 /\ Spare \in {0, 1}
    BY <1>1, <1>2, <1>3 DEF Owing, Spare
  <2>2. older.slots * MaxLoad \in Nat
    BY Tables, Doubled
  <2>. QED
    BY <1>1, <2>1, <2>2, Tables DEF IInv, Load
<1>6. IInv'
  BY <1>1, <1>2, <1>4, <1>5, Tables, IInvNext DEF IInv, TypeOK, LeftAreAhead, Chained
<1>. QED
  BY <1>1, <1>6 DEF NodesIn!vars, Chained

LEMMA InsertStep ==
  ASSUME IInv, NEW n \in Nodes, hm_insert(n)
  PROVE  IInv' /\ NodesIn!Insert(n)
<1> DEFINE first == IF newer.slots = 0 THEN h_init(InitSlots) ELSE newer
           grown == h_insert(first, n)
<1>1. /\ op = None /\ n \notin Chained(newer) /\ n \notin Chained(older)
      /\ op' = [name |-> "insert", node |-> n] /\ nwork' = 0 /\ reply' = reply
      /\ \/ older.slots = 0 /\ Full(grown) /\ hm_trigger_rehashing(grown)
         \/ ~(older.slots = 0 /\ Full(grown)) /\ newer' = grown /\ UNCHANGED <<older, migrate_pos>>
  BY DEF hm_insert
<1>2. /\ TableOK(first) /\ Placed(first) /\ first.slots \in Nat /\ first.slots > 1
      /\ Chained(first) = Chained(newer)
      /\ first.size = newer.size
      /\ newer.slots # 0 => first = newer
      /\ older.slots # 0 => first = newer
      /\ older.slots = 0 => first.size < first.slots * MaxLoad
  <2>1. CASE newer.slots = 0
    <3>1. /\ TableOK(h_init(InitSlots)) /\ Placed(h_init(InitSlots))
          /\ h_init(InitSlots).slots = InitSlots /\ h_init(InitSlots).size = 0
          /\ Chained(h_init(InitSlots)) = {} /\ InitSlots > 1 /\ InitSlots \in Nat
      BY InitFacts, HashAssumption
    <3>2. older.slots = 0
      BY <2>1, Tables DEF IInv, Shape
    <3>3. newer.size = 0 /\ Chained(newer) = {}
      BY <2>1, Tables, TableFacts
    <3>4. InitSlots * MaxLoad > 0 /\ InitSlots * MaxLoad \in Nat
      BY <3>1, Doubled
    <3>. QED
      BY <2>1, <3>1, <3>2, <3>3, <3>4
  <2>2. CASE newer.slots # 0
    BY <2>2, Tables DEF IInv, Shape, Load
  <2>. QED
    BY <2>1, <2>2
<1>3. /\ TableOK(grown) /\ Placed(grown) /\ grown.slots = first.slots
      /\ grown.size = newer.size + 1 /\ Chained(grown) = Chained(newer) \cup {n}
  BY <1>1, <1>2, InsertFacts
<1> HIDE DEF grown, first
<1>4. op' \in Ops /\ op'.name = "insert"
  BY <1>1 DEF Ops
<1>5. op' # None /\ nwork' \in 0 .. Work
  BY <1>1, <1>4, HashAssumption
<1>6. CASE older.slots = 0 /\ Full(grown) /\ hm_trigger_rehashing(grown)
  <2>1. /\ older' = grown /\ newer' = h_init(2 * grown.slots) /\ migrate_pos' = 0
    BY <1>6 DEF hm_trigger_rehashing
  <2>2. /\ TableOK(newer') /\ Placed(newer')
        /\ newer'.slots = 2 * grown.slots /\ newer'.size = 0 /\ Chained(newer') = {}
    <3>1. 2 * grown.slots \in Nat
      BY <1>2, <1>3
    <3>. QED
      BY <2>1, <3>1, InitFacts
  <2>3. Chained(newer)' = {} /\ Chained(older)' = Chained(newer) \cup {n}
    <3>1. Chained(newer)' = Chained(newer') /\ Chained(older)' = Chained(older')
      BY DEF Chained
    <3>. QED
      BY <1>3, <2>1, <2>2, <3>1
  <2>4. Shape'
    BY <1>2, <1>3, <2>1, <2>2 DEF Shape
  <2>5. Load'
    <3> DEFINE cap == grown.slots * MaxLoad
    <3>1. grown.size = cap /\ cap \in Nat
      <4>1. grown.size >= cap
        BY <1>6 DEF Full
      <4>2. newer.size < cap /\ cap \in Nat
        BY <1>2, <1>3, <1>6, Doubled
      <4> HIDE DEF cap
      <4>. QED
        BY <1>3, <4>1, <4>2, Tables
    <3>2. Owing' = 1 /\ Spare' = 0
      BY <1>1, <1>3, <1>4, <1>5, <2>1, Tables DEF Owing, Spare
    <3>3. newer'.size + 2 * older'.size + 1 + Spare' <= 2 * cap + Owing'
      BY <2>1, <2>2, <3>1, <3>2
    <3>. QED
      BY <1>2, <1>3, <2>1, <3>3 DEF Load
  <2>6. Chained(older) = {}
    BY <1>6, Tables
  <2>7. IInv'
    BY <1>1, <1>3, <1>4, <1>5, <2>1, <2>2, <2>3, <2>4, <2>5, IInvNext DEF IInv, TypeOK
  <2>. QED
    BY <1>1, <2>3, <2>6, <2>7 DEF NodesIn!Insert
<1>7. CASE ~(older.slots = 0 /\ Full(grown)) /\ newer' = grown /\ UNCHANGED <<older, migrate_pos>>
  <2>1. Chained(newer)' = Chained(newer) \cup {n} /\ Chained(older)' = Chained(older)
    <3>1. Chained(newer)' = Chained(newer') /\ Chained(older)' = Chained(older')
      BY DEF Chained
    <3>. QED
      BY <1>3, <1>7, <3>1
  <2>2. Shape'
    BY <1>2, <1>3, <1>7 DEF IInv, Shape
  <2>3. Load'
    <3>1. CASE older.slots = 0
      <4>1. ~(grown.size >= grown.slots * MaxLoad)
        BY <1>7, <3>1 DEF Full
      <4>2. grown.slots * MaxLoad \in Nat
        BY <1>2, <1>3, Doubled
      <4>3. grown.size \in Nat
        BY <1>3, Tables
      <4>. QED
        BY <1>7, <3>1, <4>1, <4>2, <4>3 DEF Load
    <3>2. CASE older.slots # 0
      <4> DEFINE cap == older.slots * MaxLoad
      <4>1. cap \in Nat
        BY Tables, Doubled
      <4>2. newer.size + 2 * older.size + 1 + Spare <= 2 * cap + Owing
        BY <3>2 DEF IInv, Load
      <4> HIDE DEF cap
      <4>3. /\ Owing = 0 /\ Spare' = 0
            /\ \/ Owing' = 1 /\ Spare = 0
               \/ Owing' = 0 /\ Spare = 1
        BY <1>1, <1>4, <1>5, <1>7, Tables DEF Owing, Spare
      <4>4. newer'.size = newer.size + 1 /\ older'.size = older.size
        BY <1>3, <1>7
      <4>5. newer'.size + 2 * older'.size + 1 + Spare' <= 2 * cap + Owing'
        <5>1. newer.size + 2 * older.size + 1 + Spare <= 2 * cap
          BY <4>1, <4>2, <4>3
        <5>2. newer.size \in Nat /\ older.size \in Nat
          BY Tables
        <5>. QED
          BY <4>1, <4>3, <4>4, <5>1, <5>2
      <4>. QED
        BY <1>7, <3>2, <4>5 DEF Load, cap
    <3>. QED
      BY <3>1, <3>2
  <2>4. IInv'
    BY <1>1, <1>3, <1>4, <1>5, <1>7, <2>1, <2>2, <2>3, Tables, IInvNext DEF IInv, TypeOK, LeftAreAhead
  <2>. QED
    BY <1>1, <2>1, <2>4 DEF NodesIn!Insert
<1>. QED
  BY <1>1, <1>6, <1>7

LEMMA ForeachStep ==
  ASSUME IInv, hm_foreach
  PROVE  IInv' /\ NodesIn!Traverse
<1> DEFINE nodes == Chained(newer) \cup Chained(older)
<1>1. /\ UNCHANGED <<newer, older, migrate_pos, op, nwork>>
      /\ reply' = [asked |-> Nodes, found |-> h_foreach(newer) \cup h_foreach(older)]
  BY DEF hm_foreach, Answer, HMap
<1>2. /\ h_foreach(newer) = Chained(newer) /\ h_foreach(older) = Chained(older)
      /\ nodes \subseteq Nodes
  <2>1. \A htab : TableOK(htab) /\ htab.slots # 1 => h_foreach(htab) = Chained(htab)
    BY ChainedIff DEF h_foreach, TableOK, Chained
  <2>. QED
    BY <2>1, Tables, TableFacts DEF IInv, Shape
<1>3. IInv'
  <2>1. TypeOK'
    BY <1>1, <1>2 DEF IInv, TypeOK, TableOK, Chained
  <2>2. InItsSlot' /\ LeftAreAhead' /\ Shape' /\ Load'
    BY <1>1 DEF IInv, InItsSlot, LeftAreAhead, Shape, Load, Owing, Spare, Slot, Chained
  <2>. QED
    BY <2>1, <2>2 DEF IInv
<1>4. nodes' = nodes /\ nodes \cap Nodes = nodes
  BY <1>1, <1>2 DEF Chained
<1>. QED
  BY <1>1, <1>2, <1>3, <1>4 DEF NodesIn!Traverse, NodesIn!Answer

LEMMA NoTabFacts ==
  TableOK(NoTab) /\ Placed(NoTab) /\ NoTab.slots = 0 /\ NoTab.size = 0 /\ Chained(NoTab) = {}
BY InitFacts DEF NoTab

LEMMA ClearStep ==
  ASSUME IInv, hm_clear
  PROVE  IInv' /\ NodesIn!Clear
<1>1. newer' = NoTab /\ older' = NoTab /\ migrate_pos' = 0 /\ UNCHANGED <<op, nwork, reply>>
  BY DEF hm_clear
<1>2. Chained(newer)' = {} /\ Chained(older)' = {}
  <2>1. Chained(newer)' = Chained(newer') /\ Chained(older)' = Chained(older')
    BY DEF Chained
  <2>. QED
    BY <1>1, <2>1, NoTabFacts
<1>3. Shape' /\ Load'
  BY <1>1, NoTabFacts DEF Shape, Load
<1>4. IInv'
  BY <1>1, <1>2, <1>3, NoTabFacts, IInvNext DEF IInv, TypeOK
<1>. QED
  BY <1>1, <1>2, <1>4 DEF NodesIn!Clear

-----------------------------------------------------------------------------
LEMMA InitIInv == Init => IInv /\ NodesIn!Init
<1> SUFFICES ASSUME Init
             PROVE  IInv /\ NodesIn!Init
  OBVIOUS
<1>1. /\ newer = NoTab /\ older = NoTab /\ migrate_pos = 0 /\ op = None /\ nwork = 0
      /\ reply = [asked |-> {}, found |-> {}]
  BY DEF Init
<1>2. TypeOK
  BY <1>1, NoTabFacts, HashAssumption DEF TypeOK
<1>3. InItsSlot
  BY <1>1, NoTabFacts DEF InItsSlot, Placed
<1>4. LeftAreAhead /\ Shape /\ Load
  BY <1>1, NoTabFacts DEF LeftAreAhead, Shape, Load
<1>. QED
  BY <1>1, <1>2, <1>3, <1>4, NoTabFacts DEF IInv, NodesIn!Init

LEMMA StepIInv == IInv /\ [Next]_vars => IInv' /\ [NodesIn!Next]_(NodesIn!vars)
<1> SUFFICES ASSUME IInv, [Next]_vars
             PROVE  IInv' /\ (NodesIn!Next \/ UNCHANGED NodesIn!vars)
  OBVIOUS
<1>1. CASE SkipSlot \/ MoveNode \/ InsertDone
  BY <1>1, SkipStep, MoveStep, InsertDoneStep
<1>2. CASE hm_lookup \/ hm_delete
  BY <1>2, LookupStep, DeleteStep DEF NodesIn!Next
<1>3. CASE hm_foreach \/ hm_clear
  BY <1>3, ForeachStep, ClearStep DEF NodesIn!Next
<1>4. ASSUME NEW n \in Nodes, hm_insert(n)
      PROVE  IInv' /\ NodesIn!Next
  BY <1>4, InsertStep DEF NodesIn!Next
<1>5. ASSUME NEW n \in Nodes, Call("lookup", n) \/ Call("delete", n)
      PROVE  IInv' /\ UNCHANGED NodesIn!vars
  BY <1>5, CallStep
<1>6. CASE UNCHANGED vars
  BY <1>6 DEF vars, HMap, IInv, TypeOK, TableOK, InItsSlot, LeftAreAhead, Shape, Load, Owing,
     Spare, Slot, Chained, NodesIn!vars
<1>. QED
  BY <1>1, <1>2, <1>3, <1>4, <1>5, <1>6 DEF Next

(***************************************************************************)
(* A table's size, which decides when it grows and when it is freed, is    *)
(* the number of nodes chained in it.                                      *)
(***************************************************************************)
THEOREM TypeCorrect == Spec => []TypeOK
<1>1. IInv => TypeOK
  BY DEF IInv
<1>. QED
  BY <1>1, InitIInv, StepIInv, PTL DEF Spec

(***************************************************************************)
(* No node is in the wrong slot or in both tables, however far a migration *)
(* has come.                                                               *)
(***************************************************************************)
THEOREM InItsSlotCorrect == Spec => []InItsSlot
<1>1. IInv => InItsSlot
  BY DEF IInv
<1>. QED
  BY <1>1, InitIInv, StepIInv, PTL DEF Spec

(***************************************************************************)
(* hm_help_rehashing() never reads a slot past the end of the older table. *)
(***************************************************************************)
THEOREM LeftAreAheadCorrect == Spec => []LeftAreAhead
<1>1. IInv => LeftAreAhead
  BY DEF IInv
<1>. QED
  BY <1>1, InitIInv, StepIInv, PTL DEF Spec

(***************************************************************************)
(* A table that doubles has emptied the one before it by the time it is    *)
(* full, for any load factor and any work per operation, one node already. *)
(***************************************************************************)
THEOREM NeverOverdueCorrect == Spec => []NeverOverdue
<1>1. IInv => NeverOverdue
  <2> SUFFICES ASSUME IInv, op = None, newer.slots > 0
               PROVE  ~Full(newer)
    BY DEF NeverOverdue
  <2>1. newer.slots * MaxLoad \in Nat /\ older.slots * MaxLoad \in Nat
    BY Tables, Doubled
  <2>2. CASE older.slots = 0
    BY <2>1, <2>2, Tables DEF IInv, Load, Full
  <2>3. CASE older.slots # 0
    <3>1. newer.slots * MaxLoad = 2 * (older.slots * MaxLoad)
      BY <2>3, Tables, Doubled DEF IInv, Shape
    <3>2. Owing = 0 /\ Spare \in {0, 1}
      BY DEF Owing, Spare
    <3>3. newer.size < newer.slots * MaxLoad
      BY <2>1, <2>3, <3>1, <3>2, Tables DEF IInv, Load
    <3>. QED
      BY <2>1, <3>3, Tables DEF Full
  <2>. QED
    BY <2>2, <2>3
<1>. QED
  BY <1>1, InitIInv, StepIInv, PTL DEF Spec

(***************************************************************************)
(* Progressive rehashing is invisible: lookups, deletions and traversals   *)
(* answer as for a plain set of nodes, at any point of a migration.        *)
(***************************************************************************)
THEOREM ImplementsNodeSetCorrect == Spec => ImplementsNodeSet
BY InitIInv, StepIInv, PTL DEF Spec, ImplementsNodeSet, NodesIn!Spec

=============================================================================
