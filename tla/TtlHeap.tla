------------------------------ MODULE TtlHeap ------------------------------
(***************************************************************************)
(* The TTL timer heap (src/src/ds/heap.cc): an array-backed binary         *)
(* min-heap of (expiration time, back-pointer) items.  Every item points   *)
(* at the heap_idx field of the Entry it belongs to, and the heap keeps    *)
(* that field equal to the item's position, so that an entry's timer is    *)
(* updated or removed without a search.                                    *)
(*                                                                         *)
(* The two sifting loops run one iteration per step: the state between     *)
(* two iterations is the state in which the array holds a stale copy in    *)
(* the "hole" at pos and the moved item lives in the local variable t.     *)
(* Indices are 0-based as in the source.                                   *)
(***************************************************************************)
EXTENDS Integers

CONSTANTS
  Entries,  (* the Entry objects that may own a timer                      *)
  Times,    (* expiration times, in ms of the monotonic clock              *)
  None      (* no entry, no item, no time                                  *)

ASSUME ConstantsAssumption ==
  /\ Times \subseteq Nat
  /\ None \notin Entries
  /\ None \notin Times

VARIABLES
  heap,      (* the vector<HeapItem>, a function on 0 .. size-1            *)
  size,      (* a.size()                                                   *)
  heap_idx,  (* Entry::heap_idx of every entry                             *)
  pc,        (* "idle", or the loop being run: "up" or "down"              *)
  pos, t,    (* the locals of that loop: the hole and the item held out    *)
  leaving    (* the entry whose heap_idx is reset once heap_delete returns *)

vars == <<heap, size, heap_idx, pc, pos, t, leaving>>

NoIdx == -1   (* (size_t)-1: no timer; larger than any position *)

Item == [val : Times, ref : Entries]

Parent(i) == (i - 1) \div 2
Left(i)   == 2 * i + 1
Right(i)  == 2 * i + 2

Init ==
  /\ heap = [i \in {} |-> None]
  /\ size = 0
  /\ heap_idx = [e \in Entries |-> NoIdx]
  /\ pc = "idle"
  /\ pos = 0
  /\ t = None
  /\ leaving = None

(* mutant: the item only ever moves down *)
HeapUpdateDownOnly(a, n, p) ==
  /\ heap' = a
  /\ size' = n
  /\ pc' = "down"
  /\ pos' = p
  /\ t' = a[p]

(***************************************************************************)
(* heap_update(): choose the direction in which the item at p of array a   *)
(* has to move, and enter that loop with the item held out in t.           *)
(***************************************************************************)
HeapUpdate(a, n, p) ==
  /\ heap' = a
  /\ size' = n
  /\ pc' = IF p > 0 /\ a[p].val < a[Parent(p)].val THEN "up" ELSE "down"
  /\ pos' = p
  /\ t' = a[p]

(* heap_insert(), and the second branch of heap_upsert(): push_back *)
Push(item) ==
  HeapUpdate([i \in 0 .. size |-> IF i = size THEN item ELSE heap[i]],
             size + 1, size)

(* entry_set_ttl() with ttl_ms >= 0, through heap_upsert() *)
SetTtl(e, v) ==
  LET item == [val |-> v, ref |-> e]
      p    == heap_idx[e]
  IN /\ pc = "idle"
     /\ \/ /\ p \in 0 .. size - 1
           /\ HeapUpdate([heap EXCEPT ![p] = item], size, p)
        \/ /\ p \notin 0 .. size - 1
           /\ Push(item)
     /\ UNCHANGED <<heap_idx, leaving>>

(* mutant: pop_back() is forgotten *)
SwapOutNoPop(p) ==
  [i \in 0 .. size - 1 |-> IF i = p THEN heap[size - 1] ELSE heap[i]]

(* a[pos] = a.back(); a.pop_back() *)
SwapOut(p) ==
  [i \in 0 .. size - 2 |-> IF i = p THEN heap[size - 1] ELSE heap[i]]

(***************************************************************************)
(* heap_delete() at the position the entry remembers, and the heap_idx     *)
(* reset that entry_set_ttl(ent, -1) does after it.  When the erased item  *)
(* was the last one nothing is sifted.                                     *)
(***************************************************************************)
Delete(e) ==
  LET p == heap_idx[e]
  IN /\ pc = "idle"
     /\ p \in 0 .. size - 1
     /\ \/ /\ p < size - 1
           /\ HeapUpdate(SwapOut(p), size - 1, p)
           /\ leaving' = e
           /\ UNCHANGED heap_idx
        \/ /\ p = size - 1
           /\ heap' = SwapOut(p)
           /\ size' = size - 1
           /\ heap_idx' = [heap_idx EXCEPT ![e] = NoIdx]
           /\ UNCHANGED <<pc, pos, t, leaving>>

(* entry_set_ttl(ent, -1): a timer that is not there is left alone *)
ClearTtl(e) == heap_idx[e] # NoIdx /\ Delete(e)

(* process_timers(): the entry at the top is the one that expires *)
ExpireTop == size > 0 /\ ClearTtl(heap[0].ref)

(* mutant: the moved item's owner is not told *)
MoveHoleSilently(i) ==
  /\ heap' = [heap EXCEPT ![pos] = heap[i]]
  /\ pos' = i
  /\ UNCHANGED <<size, heap_idx, pc, t, leaving>>

(* An iteration: item i moves into the hole, which moves to i. *)
MoveHole(i) ==
  /\ heap' = [heap EXCEPT ![pos] = heap[i]]
  /\ heap_idx' = [heap_idx EXCEPT ![heap[i].ref] = pos]
  /\ pos' = i
  /\ UNCHANGED <<size, pc, t, leaving>>

(* mutant: the entry whose timer was removed keeps its old index *)
FillHoleKeepingIdx ==
  /\ heap' = [heap EXCEPT ![pos] = t]
  /\ heap_idx' = [heap_idx EXCEPT ![t.ref] = pos]
  /\ pc' = "idle"
  /\ pos' = 0
  /\ t' = None
  /\ leaving' = None
  /\ UNCHANGED size

(* The lines after either loop: the held item fills the hole. *)
FillHole ==
  LET idx == [heap_idx EXCEPT ![t.ref] = pos]
  IN /\ heap' = [heap EXCEPT ![pos] = t]
     /\ heap_idx' = IF leaving = None THEN idx
                    ELSE [idx EXCEPT ![leaving] = NoIdx]
     /\ pc' = "idle"
     /\ pos' = 0
     /\ t' = None
     /\ leaving' = None
     /\ UNCHANGED size

BelowParent == pos > 0 /\ t.val < heap[Parent(pos)].val

HeapUp ==
  /\ pc = "up"
  /\ \/ BelowParent /\ MoveHole(Parent(pos))
     \/ ~BelowParent /\ FillHole

(* The kids smaller than the held item; the right one must also beat the   *)
(* left one when both qualify.                                             *)
GoLeft  == /\ Left(pos) < size
           /\ heap[Left(pos)].val < t.val
(* mutant: the right kid is taken without beating the left one *)
GoRightRegardless == /\ Right(pos) < size
                     /\ heap[Right(pos)].val < t.val

GoRight == /\ Right(pos) < size
           /\ heap[Right(pos)].val < t.val
           /\ GoLeft => heap[Right(pos)].val < heap[Left(pos)].val

HeapDown ==
  /\ pc = "down"
  /\ \/ GoRight /\ MoveHole(Right(pos))
     \/ GoLeft /\ ~GoRight /\ MoveHole(Left(pos))
     \/ ~GoLeft /\ ~GoRight /\ FillHole

Next ==
  \/ \E e \in Entries, v \in Times : SetTtl(e, v)
  \/ \E e \in Entries : ClearTtl(e)
  \/ ExpireTop
  \/ HeapUp
  \/ HeapDown

Spec == Init /\ [][Next]_vars

-----------------------------------------------------------------------------
(***************************************************************************)
(* The timers the heap stands for at any moment: the array with the held   *)
(* item back in its hole.                                                  *)
(***************************************************************************)
Items == IF pc = "idle" THEN heap ELSE [heap EXCEPT ![pos] = t]

(* Every variable keeps its type: the array has no gaps, and a sifting     *)
(* loop holds an item and a position inside it (heap_update() is never     *)
(* entered past the end).                                                  *)
TypeOK ==
  /\ size \in Nat
  /\ heap \in [0 .. size - 1 -> Item]
  /\ heap_idx \in [Entries -> Nat \cup {NoIdx}]
  /\ pc \in {"idle", "up", "down"}
  /\ leaving \in Entries \cup {None}
  /\ pc # "idle" => t \in Item /\ pos \in 0 .. size - 1
  /\ pc = "idle" => leaving = None

(***************************************************************************)
(* The order test_heap.cc verifies: between calls no item is smaller than  *)
(* its parent.                                                             *)
(***************************************************************************)
HeapOrder ==
  pc = "idle" =>
    \A i \in 1 .. size - 1 : heap[Parent(i)].val <= heap[i].val

(***************************************************************************)
(* Between calls the back-pointers and the heap agree in both directions:  *)
(* an item's owner knows its position, and an entry with a heap_idx owns   *)
(* the item found there.  A stale index makes the next pexpire or del act  *)
(* on another key's timer.                                                 *)
(***************************************************************************)
BackRefs ==
  pc = "idle" =>
    /\ \A i \in 0 .. size - 1 : heap_idx[heap[i].ref] = i
    /\ \A e \in Entries : heap_idx[e] # NoIdx =>
         heap_idx[e] \in 0 .. size - 1 /\ heap[heap_idx[e]].ref = e

(***************************************************************************)
(* next_timer_ms() and process_timers() look at heap[0] only: between      *)
(* calls it is the earliest of all timers.                                 *)
(***************************************************************************)
TopIsEarliest ==
  pc = "idle" => \A i \in 0 .. size - 1 : heap[0].val <= heap[i].val

(***************************************************************************)
(* The heap implements the abstract timers of TimerQueue: each call takes  *)
(* effect when it touches the array, the sifting steps are invisible, and  *)
(* when the call returns the abstract earliest deadline is the value that  *)
(* next_timer_ms() reads from heap[0].                                     *)
(***************************************************************************)
Deadline ==
  [e \in Entries |->
     IF \E i \in 0 .. size - 1 : Items[i].ref = e
     THEN Items[CHOOSE i \in 0 .. size - 1 : Items[i].ref = e].val
     ELSE None]

EarliestSeen ==
  IF size = 0 THEN None
  ELSE IF pc = "idle" THEN heap[0].val
  ELSE CHOOSE v \in {Items[i].val : i \in 0 .. size - 1} :
         \A i \in 0 .. size - 1 : v <= Items[i].val

Timers == INSTANCE TimerQueue
            WITH deadline <- Deadline, earliest <- EarliestSeen

ImplementsTimerQueue == Timers!Spec

=============================================================================
