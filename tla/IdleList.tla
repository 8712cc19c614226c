------------------------------ MODULE IdleList ------------------------------
(***************************************************************************)
(* The intrusive list through the connections (dlist, list.hh), as the     *)
(* sequence of its nodes.  A node is unlinked from wherever it is, without *)
(* a search: it is in the list once, or (a new connection) not at all.     *)
(***************************************************************************)
EXTENDS Integers, Sequences

Members(list) == {list[i] : i \in 1 .. Len(list)}

NoneTwice(list) == \A i, j \in 1 .. Len(list) : list[i] = list[j] => i = j

dlist_detach(list, node) ==
  IF node \in Members(list)
  THEN LET p == CHOOSE i \in 1 .. Len(list) : list[i] = node
       IN [i \in 1 .. Len(list) - 1 |-> list[IF i < p THEN i ELSE i + 1]]
  ELSE list

=============================================================================
