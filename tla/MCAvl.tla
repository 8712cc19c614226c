------------------------------- MODULE MCAvl -------------------------------
(* Two parts of the tree's state space, each with all of its trees: those  *)
(* of a few nodes, from the empty one on, and those of eleven and twelve   *)
(* nodes.  Twelve are the fewest with which one deletion is followed by    *)
(* rotations at two levels.                                                *)
EXTENDS Avl, TLC

NodeNumbers == 1 .. 12
FewAndMany  == (0 .. 5) \cup {11, 12}

(* A node with the given subtrees *)
Join(l, n, r) ==
  LET new   == [New EXCEPT !.left = l.root, !.right = r.root]
      whole == SetParent(SetParent(l.tree @@ r.tree @@ (n :> new), l.root, n), r.root, n)
  IN [root |-> n, tree |-> avl_update(whole, n)]

(* All balanced trees of the nodes from lo to hi *)
BalancedTrees ==
  LET trees[lo \in 1 .. 13, hi \in 0 .. 12] ==
        IF lo > hi THEN {[root |-> NULL, tree |-> <<>>]}
        ELSE UNION {{t \in {Join(l, n, r) : l \in trees[lo, n - 1], r \in trees[n + 1, hi]} :
                       Verified(t.tree, t.root)} : n \in lo .. hi}
  IN trees

(* They are reached by insertions alone: level by level, none is rotated.  *)
InitFull ==
  /\ \E t \in BalancedTrees[1, 12] : root = t.root /\ tree = t.tree
  /\ pc = "idle" /\ at = NULL /\ moving = NULL /\ victim = NULL

MCSpec == (Init \/ InitFull) /\ [][Next]_vars
=============================================================================
