----------------------------- MODULE HashTable -----------------------------
(***************************************************************************)
(* The hash map of src/src/ds/hashtable.cc.  It keeps two tables: when the *)
(* newer one is full it becomes the older one of a table twice its size,   *)
(* and every later operation first moves a few nodes over (progressive     *)
(* rehashing).                                                             *)
(*                                                                         *)
(* A chain is the set of its nodes; which of them is the first is not      *)
(* modelled, so a migration may take any.  A key stands for its node: eq() *)
(* finds the node of a key and no other.                                   *)
(***************************************************************************)
EXTENDS Integers, FiniteSets

CONSTANTS
  Nodes,
  hcode,     (* the hash of every node                            *)
  InitSlots, (* slots of the first table: 4 in the code           *)
  MaxLoad,   (* k_max_load_factor                                 *)
  Work,      (* k_rehashing_work                                  *)
  None

(* The operations that help to rehash. *)
Ops == [name : {"insert", "lookup", "delete"}, node : Nodes]

ASSUME HashAssumption ==
  /\ IsFiniteSet(Nodes) /\ None \notin Nodes \cup Ops
  /\ hcode \in [Nodes -> Nat]
  /\ InitSlots \in Nat /\ InitSlots >= 2
  /\ MaxLoad \in Nat \ {0} /\ Work \in Nat \ {0}

VARIABLES
  newer, older, (* the tables; slots = 0 when tab is NULL           *)
  migrate_pos,
  op,           (* the operation that is helping to rehash, or None *)
  nwork,        (* how many nodes it has moved                      *)
  reply         (* the last answer: of the nodes asked for, those found *)

vars == <<newer, older, migrate_pos, op, nwork, reply>>

(* h_init(), with a power of two: slots = mask + 1. *)
h_init(n) == [slots |-> n, tab |-> [i \in 0 .. n - 1 |-> {}], size |-> 0]

NoTab == h_init(0)

HMap == <<newer, older, migrate_pos>>

Init ==
  /\ newer = NoTab /\ older = NoTab /\ migrate_pos = 0
  /\ op = None /\ nwork = 0
  /\ reply = [asked |-> {}, found |-> {}]

Slot(htab, n) == hcode[n] % htab.slots

(* a mutant: the count is left to the caller *)
h_insert_uncounted(htab, n) == [htab EXCEPT !.tab[Slot(htab, n)] = @ \cup {n}]

h_insert(htab, n) ==
  [htab EXCEPT !.tab[Slot(htab, n)] = @ \cup {n}, !.size = @ + 1]

h_detach(htab, i, n) == [htab EXCEPT !.tab[i] = @ \ {n}, !.size = @ - 1]

(* h_lookup() looks at one slot only. *)
h_has(htab, n) == htab.slots > 0 /\ n \in htab.tab[Slot(htab, n)]

Chained(htab) == UNION {htab.tab[i] : i \in 0 .. htab.slots - 1}

-----------------------------------------------------------------------------
Full(htab) == htab.size >= htab.slots * MaxLoad

(* a mutant: the next migration begins where the last one ended *)
hm_trigger_rehashing_from_there(htab) ==
  /\ older' = htab
  /\ newer' = h_init(2 * htab.slots)
  /\ UNCHANGED migrate_pos

hm_trigger_rehashing(htab) ==
  /\ older' = htab
  /\ newer' = h_init(2 * htab.slots)
  /\ migrate_pos' = 0

(* hm_insert() up to its hm_help_rehashing().  The callers have looked the *)
(* key up, so the node is a new one.                                       *)
hm_insert(n) ==
  LET first == IF newer.slots = 0 THEN h_init(InitSlots) ELSE newer
      grown == h_insert(first, n)
  IN /\ op = None
     /\ n \notin Chained(newer) \cup Chained(older)
     /\ \/ older.slots = 0 /\ Full(grown) /\ hm_trigger_rehashing(grown)
        \/ ~(older.slots = 0 /\ Full(grown)) /\ newer' = grown /\ UNCHANGED <<older, migrate_pos>>
     /\ op' = [name |-> "insert", node |-> n]
     /\ nwork' = 0
     /\ UNCHANGED reply

(* hm_lookup() and hm_delete() help first. *)
Call(name, n) ==
  /\ op = None
  /\ op' = [name |-> name, node |-> n]
  /\ nwork' = 0
  /\ UNCHANGED <<HMap, reply>>

-----------------------------------------------------------------------------
(* hm_help_rehashing(), an iteration at a time *)
(* a mutant: an insertion does not help *)
HelpingReaders == op # None /\ op.name # "insert" /\ nwork < Work /\ older.size > 0

Helping == op # None /\ nwork < Work /\ older.size > 0

SkipSlot ==
  /\ Helping
  /\ older.tab[migrate_pos] = {}
  /\ migrate_pos' = migrate_pos + 1
  /\ UNCHANGED <<newer, older, op, nwork, reply>>

(* a mutant: the node keeps its position *)
MoveNodeAcross ==
  /\ Helping
  /\ \E n \in older.tab[migrate_pos] :
       /\ newer' = [newer EXCEPT !.tab[migrate_pos] = @ \cup {n}, !.size = @ + 1]
       /\ older' = h_detach(older, migrate_pos, n)
  /\ nwork' = nwork + 1
  /\ UNCHANGED <<migrate_pos, op, reply>>

MoveNode ==
  /\ Helping
  /\ \E n \in older.tab[migrate_pos] :
       /\ newer' = h_insert(newer, n)
       /\ older' = h_detach(older, migrate_pos, n)
  /\ nwork' = nwork + 1
  /\ UNCHANGED <<migrate_pos, op, reply>>

(* The end of the help: the older table is freed when it is empty. *)
Remaining == IF older.size = 0 THEN NoTab ELSE older

Helped(name) ==
  /\ op # None /\ ~Helping
  /\ op.name = name
  /\ op' = None
  /\ UNCHANGED <<migrate_pos, nwork>>

InsertDone ==
  /\ Helped("insert")
  /\ older' = Remaining
  /\ UNCHANGED <<newer, reply>>

(* a mutant: a node that has not moved yet is not looked for *)
FoundInNewer(n) == IF h_has(newer, n) THEN {n} ELSE {}

Found(n) == IF h_has(newer, n) \/ h_has(Remaining, n) THEN {n} ELSE {}

Answer(S, found) == reply' = [asked |-> S, found |-> found]

hm_lookup ==
  /\ Helped("lookup")
  /\ older' = Remaining
  /\ Answer({op.node}, Found(op.node))
  /\ UNCHANGED newer

hm_delete ==
  /\ Helped("delete")
  /\ LET n == op.node
     IN \/ /\ h_has(newer, n)
           /\ newer' = h_detach(newer, Slot(newer, n), n)
           /\ older' = Remaining
           /\ Answer({n}, {n})
        \/ /\ ~h_has(newer, n) /\ h_has(Remaining, n)
           /\ older' = h_detach(Remaining, Slot(Remaining, n), n)
           /\ Answer({n}, {n})
           /\ UNCHANGED newer
        \/ /\ ~h_has(newer, n) /\ ~h_has(Remaining, n)
           /\ older' = Remaining
           /\ Answer({n}, {})
           /\ UNCHANGED newer

(* hm_foreach() does not help; a table of a single slot would be skipped.  *)
h_foreach(htab) == IF htab.slots > 1 THEN Chained(htab) ELSE {}

hm_foreach ==
  /\ op = None
  /\ Answer(Nodes, h_foreach(newer) \cup h_foreach(older))
  /\ UNCHANGED <<HMap, op, nwork>>

(* do_keys() announces this many elements and then appends those hm_foreach() finds. *)
hm_size == newer.size + older.size

hm_clear ==
  /\ op = None
  /\ newer' = NoTab /\ older' = NoTab /\ migrate_pos' = 0
  /\ UNCHANGED <<op, nwork, reply>>

Next ==
  \/ SkipSlot \/ MoveNode \/ InsertDone \/ hm_lookup \/ hm_delete \/ hm_foreach \/ hm_clear
  \/ \E n \in Nodes : hm_insert(n) \/ Call("lookup", n) \/ Call("delete", n)

Spec == Init /\ [][Next]_vars

-----------------------------------------------------------------------------
(* A table has its slots, each of them nodes.  Its size, which decides     *)
(* when the older table is freed, is the number of its nodes: none is      *)
(* freed with it and none is counted twice.                                *)
TableOK(htab) ==
  /\ DOMAIN htab = {"slots", "tab", "size"}
  /\ htab.slots \in Nat
  /\ htab.tab \in [0 .. htab.slots - 1 -> SUBSET Nodes]
  /\ htab.size = Cardinality(Chained(htab))

TypeOK ==
  /\ TableOK(newer) /\ TableOK(older)
  /\ migrate_pos \in Nat
  /\ op \in Ops \cup {None}
  /\ nwork \in 0 .. Work
  /\ reply \in [asked : SUBSET Nodes, found : SUBSET Nodes]

(* A node is chained once, in the slot of its hash, in one of the tables:  *)
(* h_lookup(), which looks there only, finds it whatever has been moved.   *)
InItsSlot ==
  /\ \A htab \in {newer, older} : \A i \in 0 .. htab.slots - 1 :
       \A n \in htab.tab[i] : Slot(htab, n) = i
  /\ Chained(newer) \cap Chained(older) = {}

(* The migration never has to turn back, and never runs off the end of the *)
(* older table: what is left is at migrate_pos or after it.                *)
LeftAreAhead ==
  /\ \A i \in 0 .. older.slots - 1 : i < migrate_pos => older.tab[i] = {}
  /\ older.size > 0 => migrate_pos < older.slots

(* Only insertions without a rehashing in progress trigger one; still no   *)
(* operation leaves the newer table full, so a rehashing always ends       *)
(* before the next is due.                                                 *)
NeverOverdue == op = None /\ newer.slots > 0 => ~Full(newer)

(* All this is invisible: the map is the set of the nodes it is given.     *)
NodesIn == INSTANCE NodeSet WITH nodes <- Chained(newer) \cup Chained(older)

ImplementsNodeSet == NodesIn!Spec

=============================================================================
