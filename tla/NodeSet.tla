------------------------------ MODULE NodeSet ------------------------------
(***************************************************************************)
(* What a hash map promises its users: a set of nodes and the answers to   *)
(* lookups, deletions and traversals of it.                                *)
(***************************************************************************)
CONSTANT Nodes

VARIABLES
  nodes,   (* the nodes in the map                         *)
  reply    (* the last answer: of the nodes asked for, those found *)

vars == <<nodes, reply>>

Init == nodes = {} /\ reply = [asked |-> {}, found |-> {}]

Answer(S) == reply' = [asked |-> S, found |-> nodes \cap S]

Insert(n) == n \notin nodes /\ nodes' = nodes \cup {n} /\ UNCHANGED reply

Lookup(n) == Answer({n}) /\ UNCHANGED nodes

Delete(n) == Answer({n}) /\ nodes' = nodes \ {n}

Traverse == Answer(Nodes) /\ UNCHANGED nodes

Clear == nodes' = {} /\ UNCHANGED reply

Next == Traverse \/ Clear \/ \E n \in Nodes : Insert(n) \/ Lookup(n) \/ Delete(n)

Spec == Init /\ [][Next]_vars
=============================================================================
