----------------------------- MODULE NodeOrder -----------------------------
(***************************************************************************)
(* What a search tree promises its users: its nodes one after the other.   *)
(* The node that is asked for, and no other one, enters at its place or    *)
(* leaves without moving the others.                                       *)
(***************************************************************************)
EXTENDS Integers, Sequences

CONSTANTS
  Nodes,   (* as numbers, in the order of the comparison *)
  NULL

VARIABLES
  nodes,   (* the nodes from left to right                        *)
  asked    (* the one to insert or to delete, or NULL when done   *)

vars == <<nodes, asked>>

(* In order from the start; a new tree has none. *)
Init ==
  /\ \A i, j \in DOMAIN nodes : i < j => nodes[i] < nodes[j]
  /\ asked = NULL

Ask(n) == asked = NULL /\ asked' = n /\ UNCHANGED nodes

(* The first i nodes are those before n. *)
Insert(n) ==
  /\ asked = n /\ asked' = NULL
  /\ \E i \in 0 .. Len(nodes) :
       /\ \A j \in DOMAIN nodes : IF j <= i THEN nodes[j] < n ELSE n < nodes[j]
       /\ nodes' = SubSeq(nodes, 1, i) \o <<n>> \o SubSeq(nodes, i + 1, Len(nodes))

Delete(n) ==
  /\ asked = n /\ asked' = NULL
  /\ \E i \in DOMAIN nodes :
       /\ nodes[i] = n
       /\ nodes' = SubSeq(nodes, 1, i - 1) \o SubSeq(nodes, i + 1, Len(nodes))

Next == \E n \in Nodes : Ask(n) \/ Insert(n) \/ Delete(n)

Spec == Init /\ [][Next]_vars
=============================================================================
