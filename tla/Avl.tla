-------------------------------- MODULE Avl --------------------------------
(***************************************************************************)
(* The AVL tree of src/src/ds/avl.cc, which orders a sorted set: nodes     *)
(* with links to their parent and children and with the height and the     *)
(* size of their subtree.  Its loops, the search of tree_insert(), the one *)
(* of avl_del() for a victim and avl_fix(), take an iteration per step.    *)
(*                                                                         *)
(* A node is the number that zless() compares; a change of score is a      *)
(* deletion of one number and an insertion of another, as zset_update()    *)
(* does it.                                                                *)
(***************************************************************************)
EXTENDS Integers, FiniteSets, Sequences

CONSTANTS
  Nodes,   (* in the order of zless()                       *)
  Sizes,   (* bound: how many nodes the tree may have       *)
  NULL

ASSUME AvlAssumption == Nodes \subseteq Int /\ Sizes \subseteq Nat /\ NULL \notin Nodes

VARIABLES
  root,    (* ZSet::root                                                *)
  tree,    (* the fields of the nodes that are allocated                *)
  pc,      (* the loop that runs, "easy" before a node with one child   *)
           (* or none is detached, or "swap" before a victim moves       *)
  at,      (* the node of the loop's next iteration; in the search the  *)
           (* one it has passed last, NULL before the first             *)
  moving,  (* the node that is inserted, deleted, or replaced by its    *)
           (* victim                                                     *)
  victim   (* avl_del(): the leftmost node on the right, once detached  *)

vars == <<root, tree, pc, at, moving, victim>>

Init ==
  /\ root = NULL /\ tree = <<>>
  /\ pc = "idle" /\ at = NULL /\ moving = NULL /\ victim = NULL

(* avl_init() *)
New == [parent |-> NULL, left |-> NULL, right |-> NULL, height |-> 1, size |-> 1]

Mirror(side) == IF side = "left" THEN "right" ELSE "left"

avl_height(t, n) == IF n = NULL THEN 0 ELSE t[n].height
avl_size(t, n)   == IF n = NULL THEN 0 ELSE t[n].size

Larger(x, y) == IF x >= y THEN x ELSE y

-----------------------------------------------------------------------------
avl_update(t, n) ==
  [t EXCEPT ![n].height = 1 + Larger(avl_height(t, t[n].left), avl_height(t, t[n].right)),
            ![n].size = 1 + avl_size(t, t[n].left) + avl_size(t, t[n].right)]

SetParent(t, n, p) == IF n = NULL THEN t ELSE [t EXCEPT ![n].parent = p]

(* The link by which a parent reaches its child. *)
From(t, n) == IF t[t[n].parent].left = n THEN "left" ELSE "right"

(* a mutant: the heights are brought up to date from the top *)
rot_top_first(t, node, side) ==
  LET new_node == t[node][Mirror(side)]
      inner    == t[new_node][side]
      linked   == [t EXCEPT ![node][Mirror(side)] = inner,
                            ![new_node].parent = t[node].parent,
                            ![new_node][side] = node,
                            ![node].parent = new_node]
  IN avl_update(avl_update(SetParent(linked, inner, node), new_node), node)

(* rot_left() and rot_right(): the child opposite the side becomes the     *)
(* root of the subtree.  The link of the parent is left to the caller.     *)
rot(t, node, side) ==
  LET new_node == t[node][Mirror(side)]
      inner    == t[new_node][side]
      linked   == [t EXCEPT ![node][Mirror(side)] = inner,
                            ![new_node].parent = t[node].parent,
                            ![new_node][side] = node,
                            ![node].parent = new_node]
  IN avl_update(avl_update(SetParent(linked, inner, node), node), new_node)

(* a mutant: one rotation for every shape *)
BentNever(t, node, side) == FALSE

(* The inner grandchild is the higher one (LR, RL). *)
Bent(t, node, side) ==
  avl_height(t, t[t[node][side]][side]) < avl_height(t, t[t[node][side]][Mirror(side)])

(* avl_fix_left() and avl_fix_right(), for the side that is too high *)
Straightened(t, node, side) ==
  LET child == t[node][side]
  IN IF Bent(t, node, side)
     THEN [rot(t, child, side) EXCEPT ![node][side] = t[child][Mirror(side)]]
     ELSE t

TooHigh(t, node) ==
  {s \in {"left", "right"} : avl_height(t, t[node][s]) = avl_height(t, t[node][Mirror(s)]) + 2}

(* One iteration of avl_fix(): the subtree of a node, and its new root. *)
Fixed(t, node) ==
  IF TooHigh(t, node) = {} THEN [tree |-> t, top |-> node]
  ELSE LET side == CHOOSE s \in TooHigh(t, node) : TRUE
           straight == Straightened(t, node, side)
       IN [tree |-> rot(straight, node, Mirror(side)), top |-> straight[node][side]]

avl_fix ==
  /\ pc = "fix"
  /\ LET parent == tree[at].parent
         fixed  == Fixed(avl_update(tree, at), at)
     IN /\ IF parent = NULL
           THEN /\ tree' = fixed.tree /\ root' = fixed.top
                /\ pc' = IF victim = NULL THEN "idle" ELSE "swap"
           ELSE /\ tree' = [fixed.tree EXCEPT ![parent][From(tree, at)] = fixed.top]
                /\ UNCHANGED <<root, pc>>
        /\ at' = parent
  /\ UNCHANGED <<moving, victim>>

-----------------------------------------------------------------------------
Without(t, n) == [m \in DOMAIN t \ {n} |-> t[m]]
With(t, n, r) == [m \in DOMAIN t \cup {n} |-> IF m = n THEN r ELSE t[m]]

(* tree_insert(): the search,      *)
tree_insert(n) ==
  /\ pc = "idle"
  /\ n \notin DOMAIN tree
  /\ Cardinality(DOMAIN tree) + 1 \in Sizes
  /\ pc' = "search" /\ moving' = n
  /\ UNCHANGED <<root, tree, at, victim>>

Side(n, m) == IF n < m THEN "left" ELSE "right"

(* The link that the search is at *)
Place == IF at = NULL THEN root ELSE tree[at][Side(moving, at)]

(* down the tree *)
Search ==
  /\ pc = "search" /\ Place # NULL
  /\ at' = Place
  /\ UNCHANGED <<root, tree, pc, moving, victim>>

(* to the link that is free, which gets the node. *)
Link ==
  /\ pc = "search" /\ Place = NULL
  /\ tree' = With(IF at = NULL THEN tree ELSE [tree EXCEPT ![at][Side(moving, at)] = moving],
                  moving, [New EXCEPT !.parent = at])
  /\ root' = IF at = NULL THEN moving ELSE root
  /\ pc' = "fix" /\ at' = moving /\ moving' = NULL
  /\ UNCHANGED victim

(* a mutant: as for a victim, which has nothing on its left *)
ChildOnRight(t, n) == t[n].right

(* avl_del_easy(): the only child, if any, takes the place of the node. *)
Child(t, n) == IF t[n].left # NULL THEN t[n].left ELSE t[n].right

Detached(t, n) ==
  LET up == SetParent(t, Child(t, n), t[n].parent)
  IN IF t[n].parent = NULL THEN up
     ELSE [up EXCEPT ![t[n].parent][From(t, n)] = Child(t, n)]

avl_del_easy ==
  /\ pc = "easy"
  /\ LET parent == tree[moving].parent
     IN /\ tree' = Without(Detached(tree, moving), moving)
        /\ root' = IF parent = NULL THEN Child(tree, moving) ELSE root
        /\ pc' = IF parent = NULL THEN "idle" ELSE "fix"
        /\ at' = parent
  /\ moving' = NULL
  /\ UNCHANGED victim

(* avl_del(): "the easy case of 0 or 1 child", or else the search for a    *)
(* victim, "while (victim->left)",                                         *)
avl_del(n) ==
  /\ pc = "idle"
  /\ n \in DOMAIN tree
  /\ Cardinality(DOMAIN tree) - 1 \in Sizes
  /\ moving' = n
  /\ \/ /\ NULL \in {tree[n].left, tree[n].right}
        /\ pc' = "easy"
        /\ UNCHANGED at
     \/ /\ NULL \notin {tree[n].left, tree[n].right}
        /\ pc' = "seek" /\ at' = tree[n].right
  /\ UNCHANGED <<root, tree, victim>>

Seek ==
  /\ pc = "seek" /\ tree[at].left # NULL
  /\ at' = tree[at].left
  /\ UNCHANGED <<root, tree, pc, moving, victim>>

(* the leftmost node on the right is detached first, *)
DetachVictim ==
  /\ pc = "seek" /\ tree[at].left = NULL
  /\ tree' = Detached(tree, at)
  /\ pc' = "fix" /\ at' = tree[at].parent /\ victim' = at
  /\ UNCHANGED <<root, moving>>

(* "copy all fields, left, right, parent" *)
Copied(t, v, n) ==
  SetParent(SetParent([t EXCEPT ![v] = t[n]], t[n].left, v), t[n].right, v)

(* and when the tree is fixed, it takes the place of the node. *)
SwapVictim ==
  /\ pc = "swap"
  /\ LET copied == Copied(tree, victim, moving)
         p == tree[moving].parent
     IN /\ tree' = Without(IF p = NULL THEN copied
                           ELSE [copied EXCEPT ![p][From(tree, moving)] = victim], moving)
        /\ root' = IF p = NULL THEN victim ELSE root
  /\ pc' = "idle" /\ moving' = NULL /\ victim' = NULL
  /\ UNCHANGED at

Next ==
  \/ avl_fix \/ Search \/ Link \/ avl_del_easy \/ Seek \/ DetachVictim \/ SwapVictim
  \/ \E n \in Nodes : tree_insert(n) \/ avl_del(n)

Spec == Init /\ [][Next]_vars

-----------------------------------------------------------------------------
(* avl_offset(): down when the target is below, else up. *)
avl_offset(n, offset) ==
  LET walk[w \in (DOMAIN tree) \X Int] ==
        LET m == w[1]
            pos == w[2]
            l == tree[m].left
            r == tree[m].right
            p == tree[m].parent
        IN IF pos = offset THEN m
           ELSE IF pos < offset /\ pos + avl_size(tree, r) >= offset
           THEN walk[<<r, pos + 1 + avl_size(tree, tree[r].left)>>]
           ELSE IF pos > offset /\ pos - avl_size(tree, l) <= offset
           THEN walk[<<l, pos - 1 - avl_size(tree, tree[l].right)>>]
           ELSE IF p = NULL THEN NULL
           ELSE IF m = tree[p].right THEN walk[<<p, pos - 1 - avl_size(tree, l)>>]
           ELSE walk[<<p, pos + 1 + avl_size(tree, r)>>]
  IN walk[<<n, 0>>]

(* a mutant: the parent itself is not counted *)
avl_rank_siblings(n) ==
  LET climb[m \in DOMAIN tree] ==
        LET p == tree[m].parent
        IN IF p = NULL THEN 0
           ELSE climb[p] + (IF m = tree[p].right THEN avl_size(tree, tree[p].left) ELSE 0)
  IN avl_size(tree, tree[n].left) + climb[n]

avl_rank(n) ==
  LET climb[m \in DOMAIN tree] ==
        LET p == tree[m].parent
        IN IF p = NULL THEN 0
           ELSE climb[p] + (IF m = tree[p].right THEN 1 + avl_size(tree, tree[p].left) ELSE 0)
  IN avl_size(tree, tree[n].left) + climb[n]

-----------------------------------------------------------------------------
(* No link leads to a node that is freed, and no child is both children of *)
(* its parent; a node that is being replaced is still there, and so is its *)
(* victim.                                                                 *)
TypeOK ==
  /\ DOMAIN tree \subseteq Nodes
  /\ {root, at, victim} \subseteq DOMAIN tree \cup {NULL}
  /\ pc \in {"idle", "search", "easy", "seek", "fix", "swap"}
  /\ pc \in {"easy", "seek", "swap"} \/ victim # NULL => moving \in DOMAIN tree
  /\ pc = "search" => moving \in Nodes \ DOMAIN tree
  /\ \A n \in DOMAIN tree :
       /\ {tree[n].parent, tree[n].left, tree[n].right} \subseteq DOMAIN tree \cup {NULL}
       /\ tree[n].left # NULL => tree[n].left # tree[n].right
       /\ tree[n].height \in Nat /\ tree[n].size \in Nat

(* What avl_verify() of test_avl.cc asserts of every tree between two      *)
(* operations: parents and children agree, heights and sizes are those of  *)
(* the subtrees, and no two sides differ by more than one.                 *)
Verified(t, n) ==
  /\ \A c \in {t[n].left, t[n].right} \ {NULL} : t[c].parent = n
  /\ avl_update(t, n) = t
  /\ avl_height(t, t[n].left) - avl_height(t, t[n].right) \in -1 .. 1

Balanced ==
  /\ TypeOK
  /\ pc = "idle" => /\ root # NULL => tree[root].parent = NULL
                    /\ \A n \in DOMAIN tree : Verified(tree, n)

(* avl_fix() looks for a difference of exactly 2.  It never meets more, as *)
(* in every iteration just one node of the tree is not in order: the one   *)
(* that is next, or the parent of a leaf that was linked.                  *)
Unfinished == IF Verified(tree, at) THEN tree[at].parent ELSE at

OneStepOff ==
  pc = "fix" =>
    /\ avl_height(tree, tree[at].left) - avl_height(tree, tree[at].right) \in -2 .. 2
    /\ \A n \in DOMAIN tree \ {Unfinished, victim} : Verified(tree, n)

(* The walks of zquery and the ranks of zrank and zcount: from any node,   *)
(* up and down the tree, to the node that far away in its order or to      *)
(* NULL when there is none.                                                *)
Rank(n) == Cardinality({m \in DOMAIN tree : m < n})

WalksRight ==
  pc = "idle" =>
    \A n \in DOMAIN tree :
      /\ avl_rank(n) = Rank(n)
      /\ \A m \in DOMAIN tree : avl_offset(n, Rank(m) - Rank(n)) = m
      /\ \A past \in 1 .. 2 :
           /\ avl_offset(n, -Rank(n) - past) = NULL
           /\ avl_offset(n, Cardinality(DOMAIN tree) - 1 - Rank(n) + past) = NULL

(* The nodes from left to right.  A rotation does not change their order;  *)
(* a node with two children is read as its victim once that is detached.   *)
InOrder ==
  LET read[n \in DOMAIN tree \cup {NULL}] ==
        IF n = NULL THEN <<>>
        ELSE read[tree[n].left]
             \o <<IF victim # NULL /\ n = moving THEN victim ELSE n>>
             \o read[tree[n].right]
  IN read[root]

(* The node to insert or to delete, until it is in the order or out of it  *)
Asked == IF victim = NULL THEN moving ELSE NULL

(* To its user the tree is that sequence, whatever is rotated and copied:  *)
(* an insertion adds the node it is asked for, and a deletion removes the  *)
(* one it is asked for and no other.                                       *)
Order == INSTANCE NodeOrder WITH nodes <- InOrder, asked <- Asked

ImplementsNodeOrder == Order!Spec

=============================================================================
