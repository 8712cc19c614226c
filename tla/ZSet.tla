------------------------------- MODULE ZSet -------------------------------
(***************************************************************************)
(* A sorted set (src/src/ds/zset.cc) and the commands on it (commands.cc). *)
(* Its nodes are indexed twice: by name in a hash map and by (score, name) *)
(* in an AVL tree.  The map is a set of names, which HashTable implements; *)
(* the tree is the sequence of its names from left to right, in which an   *)
(* insertion and a search find their place by comparing with nodes of the  *)
(* tree, and a rank is a position.                                         *)
(***************************************************************************)
EXTENDS Integers, FiniteSets, Sequences

CONSTANTS
  Names,   (* member names, in the order of memcmp() *)
  Scores,  (* doubles, none of them a NaN            *)
  Offsets, Limits, (* arguments of zquery            *)
  None

ASSUME ZSetAssumption ==
  /\ Names \subseteq Int /\ Scores \subseteq Int /\ None \notin Names \cup Scores
  /\ Offsets \subseteq Int /\ Limits \subseteq Int

VARIABLES
  hmap,    (* the names in the hash map                         *)
  tree,    (* the nodes of the tree, in order                   *)
  score,   (* the score field of every allocated node, or None  *)
  asked,   (* the last command                                  *)
  answer   (* and the response to it                            *)

vars == <<hmap, tree, score, asked, answer>>

Init ==
  /\ hmap = {} /\ tree = <<>>
  /\ score = [n \in Names |-> None]
  /\ asked = None /\ answer = None

(* zless(): a node of the tree against a (score, name) pair *)
zless(n, s, name) == score[n] < s \/ (score[n] = s /\ n < name)

(* zset_lookup() does not ask the map when there is no root. *)
zset_lookup(n) == tree # <<>> /\ n \in hmap

Answer(cmd, r) == asked' = cmd /\ answer' = r

-----------------------------------------------------------------------------
(* tree_insert(): where a node with the pair has as many nodes to its left *)
(* as are less than the pair; avl_del() leaves the others in their order.  *)
tree_insert(t, s, n) ==
  LET left == Cardinality({i \in DOMAIN t : zless(t[i], s, n)})
  IN SubSeq(t, 1, left) \o <<n>> \o SubSeq(t, left + 1, Len(t))

avl_del(t, n) ==
  LET at == CHOOSE i \in DOMAIN t : t[i] = n
  IN SubSeq(t, 1, at - 1) \o SubSeq(t, at + 1, Len(t))

(* a mutant: the node keeps its place in the tree *)
zset_update_in_place(n, s) == UNCHANGED tree

zset_update(n, s) == tree' = tree_insert(avl_del(tree, n), s, n)

(* do_zadd() with zset_insert() *)
do_zadd(n, s) ==
  /\ \/ /\ zset_lookup(n)
        /\ zset_update(n, s)
        /\ UNCHANGED hmap
     \/ /\ ~zset_lookup(n)
        /\ hmap' = hmap \cup {n}
        /\ tree' = tree_insert(tree, s, n)
  /\ score' = [score EXCEPT ![n] = s]
  /\ Answer(<<"zadd", n, s>>, ~zset_lookup(n))

zset_delete(n) ==
  /\ hmap' = hmap \ {n}
  /\ tree' = avl_del(tree, n)
  /\ score' = [score EXCEPT ![n] = None]

do_zrem(n) ==
  /\ \/ zset_lookup(n) /\ zset_delete(n)
     \/ ~zset_lookup(n) /\ UNCHANGED <<hmap, tree, score>>
  /\ Answer(<<"zrem", n>>, zset_lookup(n))

(* zset_clear(), when the entry is deleted *)
zset_clear ==
  /\ hmap' = {} /\ tree' = <<>>
  /\ score' = [n \in Names |-> None]
  /\ UNCHANGED <<asked, answer>>

-----------------------------------------------------------------------------
ReadOnly == UNCHANGED <<hmap, tree, score>>

do_zscore(n) ==
  /\ Answer(<<"zscore", n>>, IF zset_lookup(n) THEN score[n] ELSE None)
  /\ ReadOnly

avl_rank(n) == (CHOOSE i \in DOMAIN tree : tree[i] = n) - 1

do_zrank(n) ==
  /\ Answer(<<"zrank", n>>, IF zset_lookup(n) THEN avl_rank(n) ELSE None)
  /\ ReadOnly

(* zset_seekge(): the first node that is not less than the pair, or None *)
zset_seekge(s, name) ==
  LET at == {i \in DOMAIN tree : ~zless(tree[i], s, name)}
  IN IF at = {} THEN None ELSE tree[CHOOSE i \in at : \A j \in at : i <= j]

(* znode_offset() may leave the tree on either side. *)
znode_offset(n, offset) ==
  IF n # None /\ avl_rank(n) + offset \in 0 .. Len(tree) - 1
  THEN tree[avl_rank(n) + offset + 1] ELSE None

(* a mutant: the limit is an inclusive bound *)
WalkOneMore(n, limit) ==
  IF n = None THEN <<>>
  ELSE LET last == avl_rank(n) + limit + 1
       IN SubSeq(tree, avl_rank(n) + 1, IF last < Len(tree) THEN last ELSE Len(tree))

(* The loop of do_zquery(): up to limit nodes from this one on. *)
Walk(n, limit) ==
  IF n = None THEN <<>>
  ELSE LET last == avl_rank(n) + limit
       IN SubSeq(tree, avl_rank(n) + 1, IF last < Len(tree) THEN last ELSE Len(tree))

do_zquery(s, name, offset, limit) ==
  /\ LET found  == znode_offset(zset_seekge(s, name), offset)
         walked == IF limit <= 0 THEN <<>> ELSE Walk(found, limit)
     IN Answer(<<"zquery", s, name, offset, limit>>,
               [i \in DOMAIN walked |-> <<walked[i], score[walked[i]]>>])
  /\ ReadOnly

do_zcount(s1, name1, s2, name2) ==
  /\ LET znode1 == zset_seekge(s1, name1)
         znode2 == zset_seekge(s2, name2)
     IN Answer(<<"zcount", s1, name1, s2, name2>>,
               IF znode1 = None \/ znode2 = None \/ avl_rank(znode2) < avl_rank(znode1) THEN 0
               ELSE avl_rank(znode2) - avl_rank(znode1))
  /\ ReadOnly

Next ==
  \/ zset_clear
  \/ \E n \in Names :
       \/ do_zrem(n) \/ do_zscore(n) \/ do_zrank(n)
       \/ \E s \in Scores :
            \/ do_zadd(n, s)
            \/ \E offset \in Offsets, limit \in Limits : do_zquery(s, n, offset, limit)
            \/ \E n2 \in Names, s2 \in Scores : do_zcount(s, n, s2, n2)

Spec == Init /\ [][Next]_vars

-----------------------------------------------------------------------------
(* A node is allocated exactly while the map has it, and both indices are  *)
(* over the same names.                                                    *)
TypeOK ==
  /\ hmap \subseteq Names
  /\ tree \in Seq(Names)
  /\ score \in [Names -> Scores \cup {None}]
  /\ \A n \in Names : n \in hmap <=> score[n] # None

(* The two indices agree through every insertion, change of score and      *)
(* deletion: the tree has each node of the map once, and its order is the  *)
(* order of the scores the nodes have now.                                 *)
IndicesAgree ==
  /\ TypeOK
  /\ {tree[i] : i \in DOMAIN tree} = hmap
  /\ \A i, j \in DOMAIN tree : i < j => zless(tree[i], score[tree[j]], tree[j])

(* The commands answer as the set of scored names would, with its ranks    *)
(* counted and its ranges selected by definition.  What zcount answers     *)
(* when no member lies at or after its second pair is left open: the       *)
(* exclusive bound that commands.cc documents is not kept there.           *)
Set == INSTANCE SortedSet

ImplementsSortedSet == Set!Spec
=============================================================================
