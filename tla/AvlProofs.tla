----------------------------- MODULE AvlProofs -----------------------------
(***************************************************************************)
(* The AVL tree of any number of nodes.                                    *)
(***************************************************************************)
EXTENDS Avl, SequenceTheorems, FiniteSetTheorems, WellFoundedInduction, TLAPS

(* The two links of a node to its children *)
Sides == {"left", "right"}

(* What a node of a tree of the nodes D may hold *)
Fields(D) == [parent : D \cup {NULL}, left : D \cup {NULL}, right : D \cup {NULL},
              height : Nat, size : Nat]
Trees(D) == [D -> Fields(D)]

(* The fields of a node, each in its type. *)
LEMMA Fieldwise ==
  ASSUME NEW D, NEW t \in Trees(D), NEW n \in D
  PROVE  /\ t[n].parent \in D \cup {NULL}
         /\ \A s \in Sides : t[n][s] \in D \cup {NULL}
         /\ t[n].left \in D \cup {NULL} /\ t[n].right \in D \cup {NULL}
         /\ t[n].height \in Nat /\ t[n].size \in Nat
BY DEF Trees, Fields, Sides

(* A side and the other one. *)
LEMMA MirrorFacts ==
  ASSUME NEW s \in Sides
  PROVE  /\ Mirror(s) \in Sides /\ Mirror(s) # s /\ Mirror(Mirror(s)) = s
         /\ s = "left" \/ s = "right"
         /\ s \notin {"parent", "height", "size"}
BY DEF Mirror, Sides

(* The height and the size of a node are those its children give it. *)
Updated(t, n) ==
  /\ t[n].height = 1 + Larger(avl_height(t, t[n].left), avl_height(t, t[n].right))
  /\ t[n].size = 1 + avl_size(t, t[n].left) + avl_size(t, t[n].right)

(* avl_height() and avl_size() return numbers, 0 for no node. *)
LEMMA HeightType ==
  ASSUME NEW D, NULL \notin D, NEW t \in Trees(D), NEW n \in D \cup {NULL}
  PROVE  avl_height(t, n) \in Nat /\ avl_size(t, n) \in Nat
BY Fieldwise DEF avl_height, avl_size

(* avl_update() sets the height and the size of one node from its children *)
(* and nothing else.                                                       *)
LEMMA UpdateFacts ==
  ASSUME NEW D, NULL \notin D, NEW t \in Trees(D), NEW n \in D
  PROVE  LET u == avl_update(t, n)
         IN /\ u \in Trees(D)
            /\ u[n].parent = t[n].parent
            /\ \A s \in Sides : u[n][s] = t[n][s]
            /\ u[n].left = t[n].left /\ u[n].right = t[n].right
            /\ u[n].height = 1 + Larger(avl_height(t, t[n].left), avl_height(t, t[n].right))
            /\ u[n].size = 1 + avl_size(t, t[n].left) + avl_size(t, t[n].right)
            /\ \A m \in D \ {n} : u[m] = t[m]
<1> DEFINE h == 1 + Larger(avl_height(t, t[n].left), avl_height(t, t[n].right))
           z == 1 + avl_size(t, t[n].left) + avl_size(t, t[n].right)
<1>1. h \in Nat /\ z \in Nat
  BY HeightType, Fieldwise DEF Larger
<1>2. avl_update(t, n) = [t EXCEPT ![n].height = h, ![n].size = z]
  BY DEF avl_update
<1> HIDE DEF h, z
<1>3. [t EXCEPT ![n].height = h, ![n].size = z] \in Trees(D)
  BY <1>1 DEF Trees, Fields
<1>. QED
  BY <1>2, <1>3 DEF Trees, Fields, Sides, h, z

(* What a rotation makes of the node, of the child that takes its place    *)
(* and of the inner grandchild                                             *)
LEMMA RotFacts ==
  ASSUME NEW D, NULL \notin D, NEW t \in Trees(D), NEW n \in D, NEW side \in Sides,
         NEW new \in D, new = t[n][Mirror(side)], new # n,
         NEW inner \in D \cup {NULL}, inner = t[new][side], inner # n, inner # new,
         t[n][side] # n, t[n][side] # new,
         t[new][Mirror(side)] # n, t[new][Mirror(side)] # new
  PROVE  LET u == rot(t, n, side)
         IN /\ u \in Trees(D)
            /\ u[n][side] = t[n][side] /\ u[n][Mirror(side)] = inner /\ u[n].parent = new
            /\ u[new][side] = n /\ u[new][Mirror(side)] = t[new][Mirror(side)]
            /\ u[new].parent = t[n].parent
            /\ Updated(u, n) /\ Updated(u, new)
            /\ inner # NULL =>
                 /\ u[inner].parent = n
                 /\ u[inner].left = t[inner].left /\ u[inner].right = t[inner].right
                 /\ u[inner].height = t[inner].height /\ u[inner].size = t[inner].size
            /\ \A m \in D \ {n, new, inner} : u[m] = t[m]
<1> DEFINE l0 == [t EXCEPT ![n][Mirror(side)] = inner, ![new].parent = t[n].parent,
                           ![new][side] = n, ![n].parent = new]
           l1 == SetParent(l0, inner, n)
           l2 == avl_update(l1, n)
           u  == avl_update(l2, new)
<1>0. rot(t, n, side) = u
  BY DEF rot
<1> DEFINE k == [t EXCEPT ![n][Mirror(side)] = inner, ![new].parent = t[n].parent]
<1>a. Mirror(side) \in Sides /\ Mirror(side) # side /\ side # "parent" /\ Mirror(side) # "parent"
  BY MirrorFacts
<1>b. t[n].parent \in D \cup {NULL}
  BY Fieldwise
<1>c. k \in Trees(D)
  BY <1>a, <1>b DEF Trees, Fields, Sides
<1>d. /\ k[n][side] = t[n][side] /\ k[n][Mirror(side)] = inner
      /\ k[new][Mirror(side)] = t[new][Mirror(side)]
      /\ k[new].parent = t[n].parent
      /\ \A m \in D \ {n, new} : k[m] = t[m]
  BY <1>a, <1>b DEF Trees, Fields, Sides
<1>e. l0 = [k EXCEPT ![new][side] = n, ![n].parent = new]
  OBVIOUS
<1> HIDE DEF k, l0
<1>1. l0 \in Trees(D)
  BY <1>a, <1>c, <1>e DEF Trees, Fields, Sides
<1>2. /\ l0[n][side] = t[n][side] /\ l0[n][Mirror(side)] = inner /\ l0[n].parent = new
      /\ l0[new][side] = n /\ l0[new][Mirror(side)] = t[new][Mirror(side)]
      /\ l0[new].parent = t[n].parent
      /\ \A m \in D \ {n, new} : l0[m] = t[m]
  BY <1>a, <1>c, <1>d, <1>e DEF Trees, Fields, Sides
<1>3. l1 \in Trees(D)
  BY <1>1 DEF Trees, Fields, SetParent
<1>4. /\ l1[n] = l0[n] /\ l1[new] = l0[new]
      /\ \A m \in D \ {n, new, inner} : l1[m] = t[m]
      /\ inner # NULL => /\ l1[inner].parent = n
                         /\ l1[inner].left = t[inner].left /\ l1[inner].right = t[inner].right
                         /\ l1[inner].height = t[inner].height /\ l1[inner].size = t[inner].size
  BY <1>1, <1>2 DEF Trees, Fields, SetParent
<1> HIDE DEF l1
<1>5. /\ l2 \in Trees(D) /\ l2[n].parent = l1[n].parent
      /\ \A s \in Sides : l2[n][s] = l1[n][s]
      /\ l2[n].height = 1 + Larger(avl_height(l1, l1[n].left), avl_height(l1, l1[n].right))
      /\ l2[n].size = 1 + avl_size(l1, l1[n].left) + avl_size(l1, l1[n].right)
      /\ \A m \in D \ {n} : l2[m] = l1[m]
  BY <1>3, UpdateFacts
<1> HIDE DEF l2
<1>6. /\ u \in Trees(D) /\ u[new].parent = l2[new].parent
      /\ \A s \in Sides : u[new][s] = l2[new][s]
      /\ u[new].height = 1 + Larger(avl_height(l2, l2[new].left), avl_height(l2, l2[new].right))
      /\ u[new].size = 1 + avl_size(l2, l2[new].left) + avl_size(l2, l2[new].right)
      /\ \A m \in D \ {new} : u[m] = l2[m]
  <2>1. l2 \in Trees(D)
    BY <1>5
  <2>2. new \in D /\ NULL \notin D
    OBVIOUS
  <2>. QED
    BY ONLY <2>1, <2>2, UpdateFacts
<1> HIDE DEF u
<1>7. /\ u[n][side] = t[n][side] /\ u[n][Mirror(side)] = inner /\ u[n].parent = new
      /\ u[new][side] = n /\ u[new][Mirror(side)] = t[new][Mirror(side)]
      /\ u[new].parent = t[n].parent
      /\ \A m \in D \ {n, new, inner} : u[m] = t[m]
      /\ inner # NULL => u[inner] = l1[inner]
  BY <1>2, <1>4, <1>5, <1>6, MirrorFacts
<1>8. Updated(u, n)
  <2>1. u[n] = l2[n] /\ u[n].left = l1[n].left /\ u[n].right = l1[n].right
    BY <1>5, <1>6 DEF Sides
  <2>2. u[n].left # n /\ u[n].right # n /\ u[n].left # new /\ u[n].right # new
    BY <1>7, MirrorFacts DEF Mirror
  <2>3. u[n].left \in D \cup {NULL} /\ u[n].right \in D \cup {NULL}
    BY <1>6, Fieldwise
  <2>4. \A c \in {u[n].left, u[n].right} :
           avl_height(u, c) = avl_height(l1, c) /\ avl_size(u, c) = avl_size(l1, c)
    BY <1>5, <1>6, <2>2, <2>3 DEF avl_height, avl_size
  <2>. QED
    BY <1>5, <2>1, <2>4 DEF Updated
<1>9. Updated(u, new)
  <2>1. u[new].left = l2[new].left /\ u[new].right = l2[new].right
    BY <1>6 DEF Sides
  <2>2. u[new].left # new /\ u[new].right # new
    BY <1>7, MirrorFacts DEF Mirror
  <2>3. u[new].left \in D \cup {NULL} /\ u[new].right \in D \cup {NULL}
    BY <1>6, Fieldwise
  <2>4. \A c \in {u[new].left, u[new].right} :
           avl_height(u, c) = avl_height(l2, c) /\ avl_size(u, c) = avl_size(l2, c)
    BY <1>6, <2>2, <2>3 DEF avl_height, avl_size
  <2>. QED
    BY <1>6, <2>1, <2>4 DEF Updated
<1>. QED
  BY <1>0, <1>4, <1>6, <1>7, <1>8, <1>9

-----------------------------------------------------------------------------
(* Parents and children agree among the nodes M that are linked. *)
Child_OK(t, M, n, s) ==
  t[n][s] # NULL => t[n][s] \in M /\ t[n][s] # n /\ t[t[n][s]].parent = n

Parent_OK(t, M, r, n) ==
  /\ t[n].parent = NULL => n = r
  /\ t[n].parent # NULL => t[n].parent \in M /\ \E s \in Sides : t[t[n].parent][s] = n

(* The links of the nodes M below the root r: parents and children agree. *)
Links(t, M, r) ==
  /\ r # NULL => r \in M /\ t[r].parent = NULL
  /\ \A n \in M : /\ \A s \in Sides : Child_OK(t, M, n, s)
                  /\ t[n].left # NULL => t[n].left # t[n].right
                  /\ Parent_OK(t, M, r, n)

(* A step that changes no link leaves the links right. *)
LEMMA SameLinks ==
  ASSUME NEW t, NEW u, NEW M, NEW r, Links(t, M, r), NULL \notin M,
         \A m \in M : /\ u[m].parent = t[m].parent
                      /\ \A s \in Sides : u[m][s] = t[m][s]
                      /\ u[m].left = t[m].left /\ u[m].right = t[m].right
  PROVE  Links(u, M, r)
<1>1. r # NULL => r \in M /\ u[r].parent = NULL
  BY DEF Links
<1>2. \A m \in M, s \in Sides : Child_OK(u, M, m, s)
  BY DEF Links, Child_OK
<1>3. \A m \in M : Parent_OK(u, M, r, m)
  BY DEF Links, Parent_OK
<1>4. \A m \in M : u[m].left # NULL => u[m].left # u[m].right
  BY DEF Links
<1>. QED
  BY <1>1, <1>2, <1>3, <1>4 DEF Links

(* A rotation with the link of the parent *)
Rotated(t, n, side) ==
  IF t[n].parent = NULL THEN rot(t, n, side)
  ELSE [rot(t, n, side) EXCEPT ![t[n].parent][From(t, n)] = t[n][Mirror(side)]]

(* There is a child to rotate up, and no cycle of two or three nodes. *)
CanRotate(t, n, side) ==
  LET new == t[n][Mirror(side)]
  IN /\ new # NULL
     /\ t[new][side] # n /\ t[new][Mirror(side)] # n
     /\ t[new][side] # NULL => t[new][side] # t[n].parent

(* A node is the child on just one side of its parent. *)
SideOfParent(t, M, n) ==
  LET p == t[n].parent
  IN /\ From(t, n) \in Sides /\ p \in M /\ p # n
     /\ t[p][From(t, n)] = n /\ t[p][Mirror(From(t, n))] # n

(* Each node but the root is the child of its parent on one side only. *)
LEMMA FromFacts ==
  ASSUME NEW D, NULL \notin D, NEW t \in Trees(D), NEW M \in SUBSET D, NEW r, Links(t, M, r),
         NEW n \in M, t[n].parent # NULL
  PROVE  SideOfParent(t, M, n)
<1> DEFINE p == t[n].parent
<1>1. p \in M /\ \E s \in Sides : t[p][s] = n
  BY DEF Links, Parent_OK
<1>2. t[p].left = n \/ t[p].right = n
  BY <1>1 DEF Sides
<1>3. t[p].left # NULL => t[p].left # t[p].right
  BY <1>1 DEF Links
<1>4. \A s \in Sides : t[p][s] # NULL => t[p][s] # p
  BY <1>1 DEF Links, Child_OK
<1>5. n # NULL
  OBVIOUS
<1>6. p # n
  BY <1>1, <1>4, <1>5
<1>. QED
  BY <1>1, <1>2, <1>3, <1>5, <1>6 DEF SideOfParent, From, Sides, Mirror

(* u is t after a rotation: new has taken the place of n, and the inner    *)
(* grandchild has changed sides.                                           *)
RotationOf(D, t, M, r, n, side, u) ==
  LET p == t[n].parent
      new == t[n][Mirror(side)]
      inner == t[new][side]
  IN /\ u \in Trees(D)
     /\ Links(u, M, IF p = NULL THEN new ELSE r)
     /\ new \in M /\ new # n /\ p # new /\ p # n /\ t[new].parent = n
     /\ u[n][side] = t[n][side] /\ u[n][Mirror(side)] = inner /\ u[n].parent = new
     /\ u[new][side] = n /\ u[new][Mirror(side)] = t[new][Mirror(side)]
     /\ u[new].parent = p
     /\ Updated(u, n) /\ Updated(u, new)
     /\ \A m \in D \ {n, new} : u[m].height = t[m].height /\ u[m].size = t[m].size
     /\ \A m \in D \ {n, new, p} : u[m].left = t[m].left /\ u[m].right = t[m].right
     /\ \A m \in D \ {n, new, inner} : u[m].parent = t[m].parent
     /\ inner # NULL => inner \in M \ {n, new, p} /\ u[inner].parent = n
     /\ p # NULL => /\ u[p][From(t, n)] = new
                   /\ u[p][Mirror(From(t, n))] = t[p][Mirror(From(t, n))]

(* rot_left() and rot_right() keep the links right and change just those   *)
(* of the nodes they turn.                                                 *)
LEMMA RotatedFacts ==
  ASSUME NEW D, NULL \notin D, NEW t \in Trees(D), NEW M \in SUBSET D, NEW r, Links(t, M, r),
         NEW n \in M, NEW side \in Sides, CanRotate(t, n, side)
  PROVE  RotationOf(D, t, M, r, n, side, Rotated(t, n, side))
<1> DEFINE p == t[n].parent
           f == From(t, n)
           new == t[n][Mirror(side)]
           inner == t[new][side]
           outer == t[new][Mirror(side)]
           other == t[n][side]
           u == Rotated(t, n, side)
           w == rot(t, n, side)
<1>0. /\ new # NULL /\ inner # n /\ outer # n
      /\ inner # NULL => inner # p
  BY DEF CanRotate
<1>1. Mirror(side) \in Sides /\ Mirror(side) # side /\ Sides = {side, Mirror(side)}
      /\ Mirror(Mirror(side)) = side
  BY DEF Sides, Mirror
<1>2. new \in M /\ new # n /\ t[new].parent = n
  BY <1>0, <1>1 DEF Links, Child_OK
<1>3. /\ inner \in D \cup {NULL} /\ outer \in D \cup {NULL} /\ other \in D \cup {NULL}
      /\ p \in D \cup {NULL}
  BY <1>1, <1>2, Fieldwise
<1>4. /\ inner # NULL => inner \in M /\ inner # new /\ t[inner].parent = new
      /\ outer # NULL => outer \in M /\ outer # new /\ t[outer].parent = new
      /\ other # NULL => other \in M /\ other # n /\ t[other].parent = n
  BY <1>1, <1>2 DEF Links, Child_OK
<1>5. /\ inner # NULL => inner # outer
      /\ other # new
  <2>1. \A m \in M : t[m].left # NULL => t[m].left # t[m].right
    BY DEF Links
  <2>2. /\ t[new].left # NULL => t[new].left # t[new].right
        /\ t[n].left # NULL => t[n].left # t[n].right
    BY <1>2, <2>1
  <2>. QED
    BY <1>0, <2>2 DEF Sides, Mirror
<1>6. p # NULL => /\ f \in Sides /\ p \in M /\ p # n /\ t[p][f] = n /\ t[p][Mirror(f)] # n
                  /\ p # new
  <2>1. p # NULL => f \in Sides /\ p \in M /\ p # n /\ t[p][f] = n /\ t[p][Mirror(f)] # n
    BY FromFacts DEF SideOfParent
  <2>2. p # NULL => p # new
    BY <1>0, <1>1, <2>1
  <2>. QED
    BY <2>1, <2>2
<1>7. inner # n /\ outer # n /\ inner # new /\ outer # new /\ other # n /\ n # NULL /\ new # NULL
  BY <1>0, <1>2, <1>4
<1>8. /\ w \in Trees(D)
      /\ w[n][side] = other /\ w[n][Mirror(side)] = inner /\ w[n].parent = new
      /\ w[new][side] = n /\ w[new][Mirror(side)] = outer
      /\ w[new].parent = p
      /\ Updated(w, n) /\ Updated(w, new)
      /\ inner # NULL =>
           /\ w[inner].parent = n
           /\ w[inner].left = t[inner].left /\ w[inner].right = t[inner].right
           /\ w[inner].height = t[inner].height /\ w[inner].size = t[inner].size
      /\ \A m \in D \ {n, new, inner} : w[m] = t[m]
  <2>1. n \in D /\ new \in D
    BY <1>2
  <2>. QED
    BY <1>3, <1>5, <1>7, <2>1, RotFacts
<1>9. inner # NULL => inner # p
  BY <1>0
<1>10. u = IF p = NULL THEN w ELSE [w EXCEPT ![p][f] = new]
  BY DEF Rotated
<1> HIDE DEF u, w, f
<1>11. /\ u \in Trees(D)
       /\ \A m \in D : u[m].height = w[m].height /\ u[m].size = w[m].size
                     /\ u[m].parent = w[m].parent
       /\ \A m \in D : m # p => u[m] = w[m]
       /\ p # NULL => u[p][f] = new /\ u[p][Mirror(f)] = w[p][Mirror(f)]
  <2>1. CASE p = NULL
    BY <1>8, <1>10, <2>1
  <2>2. CASE p # NULL
    <3>1. u = [w EXCEPT ![p][f] = new] /\ w \in Trees(D) /\ p \in D /\ new \in D
      BY <1>2, <1>6, <1>8, <1>10, <2>2
    <3>2. f \in Sides /\ Mirror(f) # f /\ Mirror(f) \in Sides /\ f \notin {"parent", "height", "size"}
      BY <1>6, <2>2, MirrorFacts
    <3>3. u \in Trees(D)
      BY <3>1, <3>2 DEF Trees, Fields, Sides
    <3>. QED
      BY <3>1, <3>2, <3>3 DEF Trees, Fields, Sides
  <2>. QED
    BY <2>1, <2>2
<1>12. /\ n \in D /\ new \in D /\ n # new /\ n # p /\ new # p
       /\ u[n] = w[n] /\ u[new] = w[new]
  <2>1. n \in D /\ new \in D /\ n # p /\ new # p
    BY <1>2, <1>6, <1>7
  <2>. QED
    BY <1>2, <1>11, <2>1
<1>13. p # NULL => w[p] = t[p] /\ u[p].parent = t[p].parent /\ p \in D
  BY <1>2, <1>6, <1>8, <1>9, <1>11
<1>14. inner # NULL => inner \in D /\ inner # p /\ u[inner] = w[inner]
  BY <1>3, <1>9, <1>11
<1>15. \A m \in D \ {n, new, inner, p} : u[m] = t[m]
  BY <1>8, <1>11
<1>16. Updated(u, n) /\ Updated(u, new)
  <2>1. \A m \in D \cup {NULL} : avl_height(u, m) = avl_height(w, m) /\ avl_size(u, m) = avl_size(w, m)
    BY <1>11 DEF avl_height, avl_size
  <2>2. /\ w[n].left \in D \cup {NULL} /\ w[n].right \in D \cup {NULL}
        /\ w[new].left \in D \cup {NULL} /\ w[new].right \in D \cup {NULL}
    BY <1>8, <1>12, Fieldwise
  <2>. QED
    BY <1>8, <1>12, <2>1, <2>2 DEF Updated
<1>17. /\ u[n][side] = other /\ u[n][Mirror(side)] = inner /\ u[n].parent = new
       /\ u[new][side] = n /\ u[new][Mirror(side)] = outer /\ u[new].parent = p
       /\ inner # NULL => /\ u[inner].parent = n
                          /\ u[inner].left = t[inner].left /\ u[inner].right = t[inner].right
  BY <1>8, <1>12, <1>14
<1>18. \A m \in D \ {n, new} : u[m].height = t[m].height /\ u[m].size = t[m].size
  BY <1>8, <1>11
<1>19. \A m \in D \ {n, new, p} : u[m].left = t[m].left /\ u[m].right = t[m].right
  BY <1>15, <1>17
<1>20. \A m \in D \ {n, new, inner} : u[m].parent = t[m].parent
  BY <1>13, <1>15
<1>21. p # NULL => u[p][f] = new /\ u[p][Mirror(f)] = t[p][Mirror(f)]
  BY <1>11, <1>13
<1> DEFINE r1 == IF p = NULL THEN new ELSE r
<1>22. r1 # NULL => r1 \in M /\ u[r1].parent = NULL
  <2>1. CASE p = NULL
    BY <1>2, <1>17, <2>1
  <2>2. CASE p # NULL /\ r # NULL
    <3>1. r \in M /\ t[r].parent = NULL
      BY <2>2 DEF Links
    <3>2. r \notin {n, new, inner}
      BY <1>2, <1>4, <1>7, <2>2, <3>1
    <3>. QED
      BY <1>20, <2>2, <3>1, <3>2
  <2>. QED
    BY <2>1, <2>2
<1>a. \A m \in M, s \in Sides : t[m][s] # NULL => t[m][s] \in M /\ t[m][s] # m /\ t[t[m][s]].parent = m
  BY DEF Links, Child_OK
<1>b. \A m \in M, s \in Sides : m \notin {n, new, p} => u[m][s] = t[m][s]
  BY <1>19 DEF Sides
<1>23. ASSUME NEW m \in M, NEW s \in Sides
       PROVE  Child_OK(u, M, m, s)
  <2> SUFFICES ASSUME NEW c, c = u[m][s], c # NULL
               PROVE  c \in M /\ c # m /\ u[c].parent = m
    BY DEF Child_OK
  <2>1. CASE m = n
    <3>1. CASE s = side
      <4>1. c = other /\ other \notin {n, new, inner}
        BY <1>4, <1>5, <1>7, <1>17, <2>1, <3>1
      <4>. QED
        BY <1>4, <1>20, <2>1, <4>1
    <3>2. CASE s = Mirror(side)
      BY <1>4, <1>7, <1>17, <2>1, <3>2
    <3>. QED
      BY <1>1, <3>1, <3>2
  <2>2. CASE m = new
    <3>1. CASE s = side
      BY <1>17, <1>12, <2>2, <3>1
    <3>2. CASE s = Mirror(side)
      <4>1. c = outer /\ outer \notin {n, new, inner}
        BY <1>5, <1>7, <1>17, <2>2, <3>2
      <4>. QED
        BY <1>4, <1>20, <2>2, <4>1
    <3>. QED
      BY <1>1, <3>1, <3>2
  <2>3. CASE m = p
    <3>0. m # NULL
      OBVIOUS
    <3>1. CASE s = f
      BY <1>2, <1>12, <1>17, <1>21, <2>3, <3>0, <3>1
    <3>2. CASE s = Mirror(f)
      <4>1. c = t[p][Mirror(f)] /\ c # n
        BY <1>6, <1>21, <2>3, <3>0, <3>2 DEF f
      <4>2. c \in M /\ c # p /\ t[c].parent = p
        BY <1>a, <2>3, <3>2, <4>1
      <4>3. c \notin {n, new, inner}
        BY <1>2, <1>4, <1>12, <4>1, <4>2
      <4>. QED
        BY <1>20, <2>3, <4>2, <4>3
    <3>3. s = f \/ s = Mirror(f)
      BY <1>6, <2>3, <3>0 DEF Sides, Mirror, f
    <3>. QED
      BY <3>1, <3>2, <3>3
  <2>4. CASE m \notin {n, new, p}
    <3>1. c = t[m][s]
      BY <1>b, <2>4
    <3>2. c \in M /\ c # m /\ t[c].parent = m
      BY <1>a, <3>1
    <3>3. c \notin {n, new, inner}
      BY <1>2, <1>4, <2>4, <3>1, <3>2
    <3>. QED
      BY <1>20, <3>2, <3>3
  <2>. QED
    BY <2>1, <2>2, <2>3, <2>4
<1>24. ASSUME NEW m \in M, u[m].left # NULL
       PROVE  u[m].left # u[m].right
  <2>0. \A s \in Sides : \/ u[m].left = u[m][s] /\ u[m].right = u[m][Mirror(s)]
                         \/ u[m].right = u[m][s] /\ u[m].left = u[m][Mirror(s)]
    BY DEF Sides, Mirror
  <2>1. CASE m = n
    <3>1. other # NULL => other # inner
      BY <1>4, <1>7
    <3>. QED
      BY <1>17, <2>0, <2>1, <3>1, <1>24
  <2>2. CASE m = new
    BY <1>7, <1>17, <2>0, <2>2, <1>24
  <2>3. CASE m = p
    <3>0. m # NULL
      OBVIOUS
    <3>1. f \in Sides /\ u[p][f] = new /\ u[p][Mirror(f)] = t[p][Mirror(f)] /\ Mirror(f) \in Sides
      BY <1>6, <1>21, <2>3, <3>0, MirrorFacts DEF f
    <3>2. t[p][Mirror(f)] # NULL => t[p][Mirror(f)] # new
      BY <1>2, <1>a, <1>12, <2>3, <3>1
    <3>. QED
      BY <2>0, <2>3, <3>1, <3>2, <1>7, <1>24
  <2>4. CASE m \notin {n, new, p}
    <3>1. u[m].left = t[m].left /\ u[m].right = t[m].right
      BY <1>19, <2>4
    <3>2. t[m].left # NULL => t[m].left # t[m].right
      BY DEF Links
    <3>. QED
      BY <1>24, <3>1, <3>2
  <2>. QED
    BY <2>1, <2>2, <2>3, <2>4
<1>25. ASSUME NEW m \in M
       PROVE  Parent_OK(u, M, r1, m)
  <2>1. CASE m = n
    BY <1>2, <1>7, <1>17, <2>1 DEF Parent_OK
  <2>2. CASE m = new
    BY <1>6, <1>17, <1>21, <2>2 DEF Parent_OK, f
  <2>3. CASE m = inner
    <3>1. inner # NULL
      BY <2>3
    <3>. QED
      BY <1>1, <1>7, <1>17, <2>3, <3>1 DEF Parent_OK
  <2>4. CASE m \notin {n, new, inner}
    <3> DEFINE q == t[m].parent
    <3>1. u[m].parent = q
      BY <1>20, <2>4
    <3>2. /\ q = NULL => m = r
          /\ q # NULL => q \in M /\ \E s \in Sides : t[q][s] = m
      BY DEF Links, Parent_OK
    <3>3. p = NULL => n = r
      BY DEF Links, Parent_OK
    <3>4. q = NULL => m = r1
      BY <2>4, <3>2, <3>3
    <3>5. q # NULL => \E s \in Sides : u[q][s] = m
      <4> SUFFICES ASSUME q # NULL
                   PROVE  \E s \in Sides : u[q][s] = m
        OBVIOUS
      <4>1. PICK s \in Sides : t[q][s] = m
        BY <3>2
      <4>2. CASE q = n
        <5>1. s = side
          BY <1>1, <2>4, <4>1, <4>2
        <5>. QED
          BY <1>17, <4>1, <4>2, <5>1
      <4>3. CASE q = new
        <5>1. s = Mirror(side)
          BY <1>1, <2>4, <4>1, <4>3
        <5>. QED
          BY <1>17, <4>1, <4>3, <5>1
      <4>4. CASE q = p
        <5>1. s = Mirror(f)
          <6>1. s # f
            BY <1>6, <2>4, <4>1, <4>4 DEF f
          <6>2. f \in Sides
            BY <1>6, <4>4 DEF f
          <6>. QED
            BY <6>1, <6>2 DEF Sides, Mirror
        <5>. QED
          BY <1>21, <4>1, <4>4, <5>1
      <4>5. CASE q \notin {n, new, p}
        BY <1>b, <3>2, <4>1, <4>5
      <4>. QED
        BY <4>2, <4>3, <4>4, <4>5
    <3> HIDE DEF q
    <3>. QED
      BY <3>1, <3>2, <3>4, <3>5 DEF Parent_OK
  <2>. QED
    BY <2>1, <2>2, <2>3, <2>4
<1>26. Links(u, M, r1)
  BY <1>22, <1>23, <1>24, <1>25 DEF Links
<1>27. inner # NULL => inner \in M \ {n, new, p}
  BY <1>4, <1>7, <1>9
<1>28. p # new /\ p # n
  BY <1>6, <1>7
<1>29. /\ u \in Trees(D) /\ Updated(u, n) /\ Updated(u, new)
  BY <1>11, <1>16
<1>30. RotationOf(D, t, M, r, n, side, u)
  BY <1>2, <1>17, <1>18, <1>19, <1>20, <1>21, <1>26, <1>27, <1>28, <1>29 DEF RotationOf, f
<1>. QED
  BY <1>30 DEF u

-----------------------------------------------------------------------------
(* A node in order, as far as its own fields and its children's go *)
Fresh(t, n) ==
  /\ Updated(t, n)
  /\ avl_height(t, t[n].left) - avl_height(t, t[n].right) \in -1 .. 1

(* A node that would be if one of its subtrees had not become one higher   *)
(* or lower: its height is the one from before.                            *)
OneChanged(t, n) ==
  \E l, r \in Nat :
    /\ t[n].height = 1 + Larger(l, r) /\ l - r \in -1 .. 1
    /\ \/ avl_height(t, t[n].left) = l /\ avl_height(t, t[n].right) - r \in -1 .. 1
       \/ avl_height(t, t[n].right) = r /\ avl_height(t, t[n].left) - l \in -1 .. 1

(* The same from one side or the other *)
LEMMA SideBySide ==
  ASSUME NEW D, NULL \notin D, NEW t \in Trees(D), NEW n \in D, NEW side \in Sides
  PROVE  LET near == t[n][side]
             far  == t[n][Mirror(side)]
         IN /\ near \in D \cup {NULL} /\ far \in D \cup {NULL}
            /\ avl_height(t, near) \in Nat /\ avl_height(t, far) \in Nat
            /\ avl_size(t, near) \in Nat /\ avl_size(t, far) \in Nat
            /\ Updated(t, n) <=>
                 /\ t[n].height = 1 + Larger(avl_height(t, near), avl_height(t, far))
                 /\ t[n].size = 1 + avl_size(t, near) + avl_size(t, far)
            /\ Fresh(t, n) <=>
                 /\ Updated(t, n) /\ avl_height(t, near) - avl_height(t, far) \in -1 .. 1
            /\ OneChanged(t, n) <=>
                 \E l, r \in Nat :
                    /\ t[n].height = 1 + Larger(l, r) /\ l - r \in -1 .. 1
                    /\ \/ avl_height(t, near) = l /\ avl_height(t, far) - r \in -1 .. 1
                       \/ avl_height(t, far) = r /\ avl_height(t, near) - l \in -1 .. 1
<1> DEFINE near == t[n][side]
           far  == t[n][Mirror(side)]
           hn == avl_height(t, near)
           hf == avl_height(t, far)
           zn == avl_size(t, near)
           zf == avl_size(t, far)
<1>1. near \in D \cup {NULL} /\ far \in D \cup {NULL}
  BY Fieldwise, MirrorFacts
<1>2. hn \in Nat /\ hf \in Nat /\ zn \in Nat /\ zf \in Nat
  BY <1>1, HeightType
<1>3. \/ t[n].left = near /\ t[n].right = far
      \/ t[n].left = far /\ t[n].right = near
  BY DEF Sides, Mirror
<1>4. \A x, y \in Nat : Larger(x, y) = Larger(y, x) /\ Larger(x, y) \in Nat
  BY DEF Larger
<1>5. \/ /\ avl_height(t, t[n].left) = hn /\ avl_height(t, t[n].right) = hf
         /\ avl_size(t, t[n].left) = zn /\ avl_size(t, t[n].right) = zf
      \/ /\ avl_height(t, t[n].left) = hf /\ avl_height(t, t[n].right) = hn
         /\ avl_size(t, t[n].left) = zf /\ avl_size(t, t[n].right) = zn
  BY <1>3
<1> HIDE DEF near, far, hn, hf, zn, zf
<1>6. Updated(t, n) <=> t[n].height = 1 + Larger(hn, hf) /\ t[n].size = 1 + zn + zf
  <2>1. Larger(hn, hf) = Larger(hf, hn) /\ 1 + zn + zf = 1 + zf + zn
    BY <1>2, <1>4
  <2>. QED
    BY <1>5, <2>1 DEF Updated
<1>7. Fresh(t, n) <=> Updated(t, n) /\ hn - hf \in -1 .. 1
  BY <1>2, <1>5 DEF Fresh
<1>8. OneChanged(t, n) <=>
        \E l, r \in Nat :
           /\ t[n].height = 1 + Larger(l, r) /\ l - r \in -1 .. 1
           /\ \/ hn = l /\ hf - r \in -1 .. 1
              \/ hf = r /\ hn - l \in -1 .. 1
  <2>1. CASE avl_height(t, t[n].left) = hn /\ avl_height(t, t[n].right) = hf
    BY <2>1 DEF OneChanged
  <2>2. CASE avl_height(t, t[n].left) = hf /\ avl_height(t, t[n].right) = hn
    <3>1. \A l, r \in Nat : l - r \in -1 .. 1 <=> r - l \in -1 .. 1
      OBVIOUS
    <3>2. OneChanged(t, n) <=>
            \E l, r \in Nat :
               /\ t[n].height = 1 + Larger(l, r) /\ l - r \in -1 .. 1
               /\ \/ hf = l /\ hn - r \in -1 .. 1
                  \/ hn = r /\ hf - l \in -1 .. 1
      BY <2>2 DEF OneChanged
    <3>. QED
      BY <1>4, <3>1, <3>2
  <2>. QED
    BY <1>5, <2>1, <2>2
<1>. QED
  BY <1>1, <1>2, <1>6, <1>7, <1>8 DEF near, far, hn, hf, zn, zf

(* A node in order is at most one change away from it. *)
LEMMA FreshIsOneChanged ==
  ASSUME NEW D, NULL \notin D, NEW t \in Trees(D), NEW n \in D, Fresh(t, n)
  PROVE  OneChanged(t, n)
<1>1. avl_height(t, t[n].left) \in Nat /\ avl_height(t, t[n].right) \in Nat
  BY Fieldwise, HeightType
<1>. QED
  BY <1>1 DEF Fresh, Updated, OneChanged

(* Children are lower, *)
LEMMA Lower ==
  ASSUME NEW D, NULL \notin D, NEW t \in Trees(D), NEW n \in D, NEW s \in Sides, t[n][s] # NULL,
         Fresh(t, n)
  PROVE  t[t[n][s]].height < t[n].height
<1>1. /\ avl_height(t, t[n][s]) \in Nat /\ avl_height(t, t[n][Mirror(s)]) \in Nat
      /\ t[n].height = 1 + Larger(avl_height(t, t[n][s]), avl_height(t, t[n][Mirror(s)]))
  BY SideBySide
<1>2. avl_height(t, t[n][s]) = t[t[n][s]].height
  BY DEF avl_height
<1>. QED
  BY <1>1, <1>2 DEF Larger

(* but that of a node not yet updated may be as high. *)
LEMMA NotHigher ==
  ASSUME NEW D, NULL \notin D, NEW t \in Trees(D), NEW n \in D, NEW s \in Sides, t[n][s] # NULL,
         OneChanged(t, n)
  PROVE  t[t[n][s]].height <= t[n].height
<1> DEFINE near == avl_height(t, t[n][s])
           far == avl_height(t, t[n][Mirror(s)])
<1>1. near \in Nat /\ far \in Nat
  BY SideBySide
<1>2. PICK l \in Nat, r \in Nat :
           /\ t[n].height = 1 + Larger(l, r) /\ l - r \in -1 .. 1
           /\ \/ near = l /\ far - r \in -1 .. 1
              \/ far = r /\ near - l \in -1 .. 1
  BY SideBySide
<1>3. near = t[t[n][s]].height
  BY DEF avl_height
<1> HIDE DEF near, far
<1>. QED
  BY <1>1, <1>2, <1>3 DEF Larger

-----------------------------------------------------------------------------
(* The heights before and after one rotation and two: o is the low side, a *)
(* and b the outer and the inner grandchild, b1 and b2 the inner one's     *)
(* children, h the height from before.                                     *)
WasHeight(h, x, y) ==
  \E l, r \in Nat : /\ h = 1 + Larger(l, r) /\ l - r \in -1 .. 1
                    /\ \/ x = l /\ y - r \in -1 .. 1
                       \/ y = r /\ x - l \in -1 .. 1

(* When no side is two higher than the other, avl_fix() has nothing to     *)
(* rotate.                                                                 *)
LEMMA NoRotation ==
  ASSUME NEW x \in Nat, NEW y \in Nat, NEW h \in Nat, WasHeight(h, x, y),
         x # y + 2, y # x + 2
  PROVE  x - y \in -1 .. 1 /\ 1 + Larger(x, y) - h \in -1 .. 1
BY DEF WasHeight, Larger

(* One rotation is enough when the outer grandchild is not the lower one. *)
LEMMA OneRotation ==
  ASSUME NEW a \in Nat, NEW b \in Nat, NEW o \in Nat, NEW h \in Nat,
         a - b \in -1 .. 1, 1 + Larger(a, b) = o + 2, ~(a < b),
         WasHeight(h, 1 + Larger(a, b), o)
  PROVE  LET n == 1 + Larger(b, o)
         IN /\ b - o \in -1 .. 1 /\ a - n \in -1 .. 1
            /\ 1 + Larger(a, n) - h \in -1 .. 1
BY DEF WasHeight, Larger

(* And two when it is. *)
LEMMA TwoRotations ==
  ASSUME NEW a \in Nat, NEW b1 \in Nat, NEW b2 \in Nat, NEW o \in Nat, NEW h \in Nat,
         NEW b, b = 1 + Larger(b1, b2), b1 - b2 \in -1 .. 1,
         a - b \in -1 .. 1, 1 + Larger(a, b) = o + 2, a < b,
         WasHeight(h, 1 + Larger(a, b), o)
  PROVE  LET c == 1 + Larger(a, b1)
             n == 1 + Larger(b2, o)
         IN /\ a - b1 \in -1 .. 1 /\ b2 - o \in -1 .. 1 /\ c - n \in -1 .. 1
            /\ 1 + Larger(c, n) - h \in -1 .. 1
BY DEF WasHeight, Larger

(* The step of avl_fix() for a node and its parent, as rotations *)
Step(t, n) ==
  LET fixed == Fixed(avl_update(t, n), n)
  IN IF t[n].parent = NULL THEN fixed.tree
     ELSE [fixed.tree EXCEPT ![t[n].parent][From(t, n)] = fixed.top]

(* The root of the subtree after the step *)
Top(t, n) == Fixed(avl_update(t, n), n).top

(* All nodes but this one are in order, and it is one change away. *)
AllBut(t, M, n) ==
  OneChanged(t, n) /\ \A m \in M \ {n} : Fresh(t, m)

(* The child on a side and what is below it: there is no cycle of two,     *)
(* three or four nodes.                                                    *)
Apart(t, M, n, s1) ==
  LET p == t[n].parent
      c == t[n][s1]
  IN /\ c \in M \ {n, p} /\ t[c].parent = n
     /\ \A s2 \in Sides : t[c][s2] # NULL =>
          LET g == t[c][s2]
          IN /\ g \in M \ {n, p, c} /\ t[g].parent = c
             /\ \A s3 \in Sides : t[g][s3] # NULL => t[g][s3] \notin {n, p, c, g}

(* Heights fall on the way down, so there are no cycles around the node. *)
LEMMA NoCycles ==
  ASSUME NEW D, NULL \notin D, NEW t \in Trees(D), NEW M \in SUBSET D, NEW r, Links(t, M, r),
         NEW n \in M, AllBut(t, M, n), NEW s1 \in Sides, t[n][s1] # NULL
  PROVE  Apart(t, M, n, s1)
<1> DEFINE p == t[n].parent
           c == t[n][s1]
<1>1. \A m \in M, s \in Sides : t[m][s] # NULL =>
        /\ t[m][s] \in M /\ t[m][s] # m /\ t[t[m][s]].parent = m
        /\ m # n => t[t[m][s]].height < t[m].height
        /\ m = n => t[t[m][s]].height <= t[m].height
  <2>1. \A m \in M, s \in Sides : t[m][s] # NULL => t[m][s] \in M /\ t[m][s] # m /\ t[t[m][s]].parent = m
    BY DEF Links, Child_OK
  <2>2. \A m \in M, s \in Sides : t[m][s] # NULL /\ m # n => t[t[m][s]].height < t[m].height
    BY Lower DEF AllBut
  <2>3. \A s \in Sides : t[n][s] # NULL => t[t[n][s]].height <= t[n].height
    BY NotHigher DEF AllBut
  <2>. QED
    BY <2>1, <2>2, <2>3
<1>2. \A m \in M : t[m].height \in Nat
  BY Fieldwise
<1>3. c \in M /\ c # n /\ t[c].parent = n /\ t[c].height <= t[n].height
  BY <1>1
<1>4. p # NULL => p \in M /\ p # n /\ t[n].height < t[p].height
  BY <1>1, FromFacts DEF SideOfParent
<1> HIDE DEF c, p
<1>5. ASSUME NEW s2 \in Sides, NEW g, g = t[c][s2], g # NULL
      PROVE  /\ g \in M /\ t[g].parent = c /\ t[g].height < t[c].height
             /\ g # n /\ g # c /\ g # p
             /\ \A s3 \in Sides : t[g][s3] # NULL => t[g][s3] \notin {n, p, c, g}
  <2>1. g \in M /\ t[g].parent = c /\ t[g].height < t[c].height
    BY <1>1, <1>3, <1>5
  <2>2. g # n /\ g # c
    BY <1>2, <1>3, <2>1
  <2>3. g # p
    BY <1>2, <1>3, <1>4, <1>5, <2>1
  <2>4. ASSUME NEW s3 \in Sides, NEW x, x = t[g][s3], x # NULL
        PROVE  x \notin {n, p, c, g}
    <3>1. x \in M /\ t[x].height < t[g].height
      BY <1>1, <2>1, <2>2, <2>4
    <3>2. x # n /\ x # c /\ x # g
      BY <1>2, <1>3, <2>1, <3>1
    <3>3. x # p
      BY <1>2, <1>3, <1>4, <2>1, <2>4, <3>1
    <3>. QED
      BY <3>2, <3>3
  <2>. QED
    BY <2>1, <2>2, <2>3, <2>4
<1>6. c # p
  BY <1>2, <1>3, <1>4
<1>. QED
  BY <1>3, <1>5, <1>6 DEF Apart, c, p

(* An iteration updates the node and rotates it, and its child first when  *)
(* the inner grandchild is the higher one.                                 *)
LEMMA StepCases ==
  ASSUME NEW D, NULL \notin D, NEW t \in Trees(D), NEW M \in SUBSET D, NEW r, Links(t, M, r),
         NEW n \in M, AllBut(t, M, n),
         NEW v, v = avl_update(t, n)
  PROVE  /\ v \in Trees(D) /\ Links(v, M, r) /\ v[n].parent = t[n].parent
         /\ TooHigh(v, n) = {} => Step(t, n) = v /\ Top(t, n) = n
         /\ TooHigh(v, n) # {} =>
              \E side \in TooHigh(v, n), c \in M \ {n} :
                 \E w \in Trees(D) :
                   /\ side \in Sides /\ c = v[n][side]
                   /\ Bent(v, n, side) => CanRotate(v, c, side) /\ w = Rotated(v, c, side)
                   /\ ~Bent(v, n, side) => w = v
                   /\ Links(w, M, r) /\ w[n].parent = t[n].parent
                   /\ t[n].parent # NULL => /\ w[t[n].parent].left = t[t[n].parent].left
                                           /\ w[t[n].parent].right = t[t[n].parent].right
                   /\ CanRotate(w, n, Mirror(side))
                   /\ Step(t, n) = Rotated(w, n, Mirror(side)) /\ Top(t, n) = w[n][side]
<1> DEFINE p == t[n].parent
<1>1. /\ v \in Trees(D) /\ v[n].parent = t[n].parent
      /\ \A s \in Sides : v[n][s] = t[n][s]
      /\ v[n].left = t[n].left /\ v[n].right = t[n].right
      /\ \A m \in D \ {n} : v[m] = t[m]
  <2>1. n \in D
    OBVIOUS
  <2>. QED
    BY <2>1, UpdateFacts
<1>2. \A m \in M : /\ v[m].parent = t[m].parent
                   /\ \A s \in Sides : v[m][s] = t[m][s]
                   /\ v[m].left = t[m].left /\ v[m].right = t[m].right
  BY <1>1
<1>3. Links(v, M, r)
  BY <1>2, SameLinks
<1>4. p # NULL => /\ From(t, n) \in Sides /\ p \in M /\ p # n
                  /\ t[p][From(t, n)] = n /\ From(v, n) = From(t, n)
                  /\ v[p] = t[p]
  <2>1. p # NULL => /\ From(t, n) \in Sides /\ p \in M /\ p # n /\ t[p][From(t, n)] = n
    BY FromFacts DEF SideOfParent
  <2>2. p # NULL => v[p] = t[p]
    BY <1>1, <2>1
  <2>. QED
    BY <1>1, <2>1, <2>2 DEF From
<1>5. /\ Step(t, n) = IF p = NULL THEN Fixed(v, n).tree
                      ELSE [Fixed(v, n).tree EXCEPT ![p][From(t, n)] = Fixed(v, n).top]
      /\ Top(t, n) = Fixed(v, n).top
  BY DEF Step, Top
<1>6. ASSUME TooHigh(v, n) = {}
      PROVE  Step(t, n) = v /\ Top(t, n) = n
  <2>1. Fixed(v, n).tree = v /\ Fixed(v, n).top = n
    BY <1>6 DEF Fixed
  <2>2. p # NULL => [v EXCEPT ![p][From(t, n)] = n] = v
    BY <1>1, <1>4 DEF Trees, Fields, Sides
  <2>. QED
    BY <1>5, <2>1, <2>2
<1>7. ASSUME TooHigh(v, n) # {}
      PROVE  \E side \in TooHigh(v, n), c \in M \ {n} :
                 \E w \in Trees(D) :
                   /\ side \in Sides /\ c = v[n][side]
                   /\ Bent(v, n, side) => CanRotate(v, c, side) /\ w = Rotated(v, c, side)
                   /\ ~Bent(v, n, side) => w = v
                   /\ Links(w, M, r) /\ w[n].parent = t[n].parent
                   /\ t[n].parent # NULL => /\ w[t[n].parent].left = t[t[n].parent].left
                                           /\ w[t[n].parent].right = t[t[n].parent].right
                   /\ CanRotate(w, n, Mirror(side))
                   /\ Step(t, n) = Rotated(w, n, Mirror(side)) /\ Top(t, n) = w[n][side]
  <2> DEFINE side == CHOOSE s \in TooHigh(v, n) : TRUE
             c == v[n][side]
             w == Straightened(v, n, side)
  <2>1. Fixed(v, n).tree = rot(w, n, Mirror(side)) /\ Fixed(v, n).top = w[n][side]
    BY <1>7 DEF Fixed
  <2>2. side \in TooHigh(v, n)
    BY <1>7
  <2> HIDE DEF side
  <2>3. side \in Sides /\ avl_height(v, v[n][side]) = avl_height(v, v[n][Mirror(side)]) + 2
    BY <2>2 DEF TooHigh, Sides
  <2>4. c # NULL
    <3>1. avl_height(v, v[n][Mirror(side)]) \in Nat
      BY <1>1, <2>3, SideBySide
    <3>. QED
      BY <2>3, <3>1 DEF avl_height
  <2>5. t[n][side] = c /\ t[n][side] # NULL
    BY <1>1, <2>3, <2>4
  <2>6. /\ c \in M \ {n, p} /\ t[c].parent = n
        /\ \A s2 \in Sides : t[c][s2] # NULL =>
             LET g == t[c][s2]
             IN /\ g \in M \ {n, p, c} /\ t[g].parent = c
                /\ \A s3 \in Sides : t[g][s3] # NULL => t[g][s3] \notin {n, p, c, g}
    <3>1. Apart(t, M, n, side)
      BY <2>3, <2>5, NoCycles
    <3> HIDE DEF c
    <3>. QED
      BY <2>5, <3>1 DEF Apart
  <2>7. v[c] = t[c] /\ v[c].parent = n /\ c \in D
    BY <1>1, <2>6
  <2>8. Mirror(side) \in Sides /\ Mirror(Mirror(side)) = side /\ Mirror(side) # side
    BY <2>3, MirrorFacts
  <2> HIDE DEF c, w
  <2>9. CASE ~Bent(v, n, side)
    <3>1. w = v
      BY <2>9 DEF Straightened, w
    <3>2. CanRotate(v, n, Mirror(side))
      <4>1. \A s2 \in Sides : v[c][s2] # n /\ (v[c][s2] # NULL => v[c][s2] # p)
        BY <2>6, <2>7
      <4>2. v[n][Mirror(Mirror(side))] = c
        BY <2>8 DEF c
      <4>. QED
        BY <1>1, <2>3, <2>4, <2>8, <4>1, <4>2 DEF CanRotate
    <3>3. Step(t, n) = Rotated(w, n, Mirror(side))
      BY <1>1, <1>4, <1>5, <2>1, <2>8, <3>1 DEF Rotated, c
    <3>. QED
      BY <1>1, <1>3, <1>4, <1>5, <2>1, <2>2, <2>3, <2>6, <2>9, <3>1, <3>2, <3>3 DEF c
  <2>10. CASE Bent(v, n, side)
    <3> DEFINE g == v[c][Mirror(side)]
    <3>1. g # NULL
      <4>1. avl_height(v, v[c][side]) \in Nat /\ avl_height(v, v[c][side]) < avl_height(v, g)
        BY <1>1, <2>3, <2>7, <2>10, SideBySide DEF Bent, c
      <4>. QED
        BY <4>1 DEF avl_height
    <3>2. /\ g \in M \ {n, p, c} /\ t[g].parent = c
          /\ \A s3 \in Sides : t[g][s3] # NULL => t[g][s3] \notin {n, p, c, g}
      BY <2>6, <2>7, <2>8, <3>1
    <3>3. v[g] = t[g] /\ g \in D
      BY <1>1, <3>2
    <3> HIDE DEF g
    <3>4. CanRotate(v, c, side)
      <4>1. \A s3 \in Sides : v[g][s3] # c /\ (v[g][s3] # NULL => v[g][s3] # n)
        BY <2>6, <3>2, <3>3
      <4>. QED
        BY <2>3, <2>7, <2>8, <3>1, <4>1 DEF CanRotate, g
    <3>5. From(v, c) = side
      <4>1. v[n][side] = c /\ v[n].left # NULL => v[n].left # v[n].right
        BY <1>3 DEF Links, c
      <4>. QED
        BY <2>3, <2>4, <2>7, <4>1 DEF From, Sides, c
    <3>6. w = Rotated(v, c, side)
      <4>1. n # NULL
        OBVIOUS
      <4>. QED
        BY <2>7, <2>10, <3>5, <4>1 DEF Straightened, Rotated, w, c
    <3>7. /\ w \in Trees(D) /\ Links(w, M, r)
          /\ w[c][side] = v[c][side] /\ w[c].parent = g
          /\ w[g][side] = c /\ w[g][Mirror(side)] = v[g][Mirror(side)] /\ w[g].parent = n
          /\ \A m \in D \ {c, g, n} : w[m].left = v[m].left /\ w[m].right = v[m].right
          /\ \A m \in D \ {c, g, v[g][side]} : w[m].parent = v[m].parent
          /\ w[n][side] = g
      <4>1. c \in M /\ v[c].parent # NULL
        BY <2>6, <2>7
      <4>2. g = v[c][Mirror(side)]
        BY DEF g
      <4>3. n \notin {g, NULL}
        BY <3>2
      <4> DEFINE u == Rotated(v, c, side)
      <4>4. RotationOf(D, v, M, r, c, side, u)
        BY <1>1, <1>3, <2>3, <3>4, <4>1, RotatedFacts
      <4>5. u = w
        BY <3>6
      <4> HIDE DEF u
      <4>. QED
        BY <2>7, <3>5, <4>2, <4>3, <4>4, <4>5 DEF RotationOf
    <3>8. w[n].parent = p
      BY <1>1, <2>6, <3>2, <3>3, <3>7, <2>3
    <3>9. CanRotate(w, n, Mirror(side))
      <4>1. w[n][Mirror(Mirror(side))] = g
        BY <2>8, <3>7
      <4>2. w[g][Mirror(side)] # n /\ (w[g][Mirror(side)] # NULL => w[g][Mirror(side)] # p)
        BY <2>8, <3>2, <3>3, <3>7
      <4>3. w[g][Mirror(Mirror(side))] # n
        BY <2>6, <2>8, <3>7
      <4>. QED
        BY <3>1, <3>8, <4>1, <4>2, <4>3 DEF CanRotate
    <3>10. p # NULL => /\ From(w, n) = From(t, n)
                       /\ w[p].left = t[p].left /\ w[p].right = t[p].right
      <4>1. p # NULL => p \in D \ {c, g, n}
        BY <1>4, <2>6, <3>2
      <4>2. p # NULL => w[p].left = t[p].left /\ w[p].right = t[p].right
        BY <1>4, <3>7, <4>1
      <4>. QED
        BY <3>8, <4>2 DEF From
    <3>11. Step(t, n) = Rotated(w, n, Mirror(side))
      <4>1. CASE p = NULL
        BY <1>5, <2>1, <3>8, <4>1 DEF Rotated
      <4>2. CASE p # NULL
        <5>1. Rotated(w, n, Mirror(side)) =
                [rot(w, n, Mirror(side)) EXCEPT ![p][From(t, n)] = w[n][side]]
          BY <2>8, <3>8, <3>10, <4>2 DEF Rotated
        <5>. QED
          BY <1>5, <2>1, <4>2, <5>1
      <4>. QED
        BY <4>1, <4>2
    <3>12. Top(t, n) = w[n][side]
      BY <1>5, <2>1
    <3>13. c \in M \ {n} /\ c = v[n][side]
      BY <2>6 DEF c
    <3>. QED
      BY <2>2, <2>3, <2>10, <3>4, <3>6, <3>7, <3>8, <3>9, <3>10, <3>11, <3>12,
         <3>13
  <2>. QED
    BY <2>9, <2>10
<1>. QED
  BY <1>1, <1>3, <1>6, <1>7

(* In order but for one node, or all of it *)
OrderlyBut(t, M, p) ==
  /\ \A m \in M \ {p} : Fresh(t, m)
  /\ p # NULL => OneChanged(t, p)

(* When a subtree is in order again and at most one higher or lower, all   *)
(* is in order but the parent, which is one change away.                   *)
LEMMA ParentIsNext ==
  ASSUME NEW D, NULL \notin D, NEW t \in Trees(D), NEW u \in Trees(D),
         NEW M \in SUBSET D, NEW r, Links(t, M, r),
         NEW n \in M, NEW p, p = t[n].parent, \A m \in M \ {n} : Fresh(t, m),
         NEW X \in SUBSET M, n \in X, p \notin X, \A x \in X \ {n} : t[x].parent \in X,
         \A x \in X : Fresh(u, x),
         \A m \in D \ X : u[m].height = t[m].height /\ u[m].size = t[m].size,
         \A m \in M \ X : m # p => u[m].left = t[m].left /\ u[m].right = t[m].right,
         NEW top \in X, u[top].height - t[n].height \in -1 .. 1,
         p # NULL => /\ u[p][From(t, n)] = top
                     /\ u[p][Mirror(From(t, n))] = t[p][Mirror(From(t, n))]
  PROVE  OrderlyBut(u, M, p)
<1>1. \A m \in M, s \in Sides : t[m][s] # NULL => t[m][s] \in M /\ t[t[m][s]].parent = m
  BY DEF Links, Child_OK
<1>2. \A m \in M : t[m].left = t[m]["left"] /\ t[m].right = t[m]["right"]
  OBVIOUS
<1>3. ASSUME NEW m \in M \ X, m # p
      PROVE  Fresh(u, m)
  <2>1. Fresh(t, m) /\ u[m].left = t[m].left /\ u[m].right = t[m].right
        /\ u[m].height = t[m].height /\ u[m].size = t[m].size
    BY <1>3
  <2>2. \A c \in {t[m].left, t[m].right} : c # NULL => c \in M \ X
    <3>1. \A c \in {t[m].left, t[m].right} : c # NULL => c \in M /\ t[c].parent = m
      BY <1>1, <1>2 DEF Sides
    <3>. QED
      BY <1>3, <3>1
  <2>3. \A c \in {t[m].left, t[m].right} :
           avl_height(u, c) = avl_height(t, c) /\ avl_size(u, c) = avl_size(t, c)
    BY <2>2 DEF avl_height, avl_size
  <2>. QED
    BY <2>1, <2>3 DEF Fresh, Updated
<1>4. ASSUME p # NULL
      PROVE  OneChanged(u, p)
  <2> DEFINE f == From(t, n)
             sibling == t[p][Mirror(f)]
  <2>1. f \in Sides /\ p \in M /\ p # n /\ t[p][f] = n /\ sibling # n
    <3>1. t[n].parent # NULL
      BY <1>4
    <3>2. SideOfParent(t, M, n)
      BY <3>1, FromFacts
    <3>. QED
      BY <3>2 DEF SideOfParent
  <2>2. Fresh(t, p) /\ p \in D /\ u[p].height = t[p].height
    BY <2>1
  <2>3. sibling # NULL => sibling \in M \ X
    <3>1. sibling # NULL => sibling \in M /\ t[sibling].parent = p
      BY <1>1, <2>1, MirrorFacts
    <3>. QED
      BY <2>1, <3>1
  <2>4. u[p][f] = top /\ u[p][Mirror(f)] = sibling
    BY <1>4
  <2> HIDE DEF f, sibling
  <2>5. avl_height(u, sibling) = avl_height(t, sibling)
    BY <2>3 DEF avl_height
  <2>6. avl_height(t, n) = t[n].height /\ avl_height(u, top) = u[top].height /\ t[n].height \in Nat
        /\ u[top].height \in Nat
    BY Fieldwise DEF avl_height
  <2>7. /\ avl_height(t, n) \in Nat /\ avl_height(t, sibling) \in Nat
        /\ t[p].height = 1 + Larger(avl_height(t, n), avl_height(t, sibling))
        /\ avl_height(t, n) - avl_height(t, sibling) \in -1 .. 1
    BY <2>1, <2>2, SideBySide DEF sibling
  <2>8. \E l, k \in Nat :
           /\ u[p].height = 1 + Larger(l, k) /\ l - k \in -1 .. 1
           /\ \/ avl_height(u, top) = l /\ avl_height(u, sibling) - k \in -1 .. 1
              \/ avl_height(u, sibling) = k /\ avl_height(u, top) - l \in -1 .. 1
    BY <2>2, <2>5, <2>6, <2>7
  <2>. QED
    BY <2>1, <2>2, <2>4, <2>8, SideBySide
<1>. QED
  BY <1>3, <1>4 DEF OrderlyBut

(* u is t after the step, and top the root of the subtree in it. *)
Stepped(D, t, M, r, n, u, top) ==
  LET p == t[n].parent
  IN /\ u \in Trees(D) /\ Links(u, M, IF p = NULL THEN top ELSE r)
     /\ OrderlyBut(u, M, p)

(* The step when no side is too high, *)
LEMMA StepLevel ==
  ASSUME NEW D, NULL \notin D, NEW t \in Trees(D), NEW M \in SUBSET D, NEW r, Links(t, M, r),
         NEW n \in M, AllBut(t, M, n),
         NEW v \in Trees(D), v = avl_update(t, n), Links(v, M, r), TooHigh(v, n) = {}
  PROVE  Stepped(D, t, M, r, n, v, n)
<1> DEFINE p == t[n].parent
           x == avl_height(t, t[n].left)
           y == avl_height(t, t[n].right)
<1>1. n \in D
  OBVIOUS
<1>2. /\ v[n].parent = p /\ v[n].left = t[n].left /\ v[n].right = t[n].right
      /\ v[n].height = 1 + Larger(x, y)
      /\ v[n].size = 1 + avl_size(t, t[n].left) + avl_size(t, t[n].right)
      /\ \A m \in D \ {n} : v[m] = t[m]
  BY <1>1, UpdateFacts
<1>3. \A c \in {t[n].left, t[n].right} : c \in (D \ {n}) \cup {NULL}
  <2>1. \A s \in Sides : t[n][s] # n
    BY DEF Links, Child_OK
  <2>. QED
    BY <1>1, <2>1, Fieldwise DEF Sides
<1>4. \A c \in {t[n].left, t[n].right} :
         avl_height(v, c) = avl_height(t, c) /\ avl_size(v, c) = avl_size(t, c)
  BY <1>2, <1>3 DEF avl_height, avl_size
<1>5. Updated(v, n)
  BY <1>2, <1>4 DEF Updated
<1>6. x # y + 2 /\ y # x + 2
  BY <1>2, <1>4 DEF TooHigh, Mirror
<1>7. x \in Nat /\ y \in Nat /\ t[n].height \in Nat
  BY <1>1, Fieldwise, HeightType
<1>8. WasHeight(t[n].height, x, y)
  BY DEF AllBut, OneChanged, WasHeight
<1>9. x - y \in -1 .. 1 /\ v[n].height - t[n].height \in -1 .. 1
  <2> DEFINE h == t[n].height
  <2>1. WasHeight(h, x, y) /\ h \in Nat
    BY <1>7, <1>8
  <2> HIDE DEF x, y, h
  <2>2. x - y \in -1 .. 1 /\ 1 + Larger(x, y) - h \in -1 .. 1
    BY ONLY <1>6, <1>7, <2>1, NoRotation
  <2>3. v[n].height = 1 + Larger(x, y) /\ t[n].height = h
    BY <1>2 DEF h
  <2>. QED
    BY ONLY <1>7, <2>1, <2>2, <2>3 DEF Larger
<1>10. Fresh(v, n)
  BY <1>2, <1>4, <1>5, <1>9 DEF Fresh
<1>11. OrderlyBut(v, M, p)
  <2> DEFINE X == {n}
  <2>1. p # NULL => p # n /\ t[p][From(t, n)] = n /\ v[p] = t[p]
    BY <1>2, FromFacts DEF SideOfParent
  <2>2. X \in SUBSET M /\ n \in X /\ p \notin X /\ \A m \in X \ {n} : t[m].parent \in X
    BY <2>1
  <2>3. /\ \A m \in X : Fresh(v, m)
        /\ \A m \in D \ X : v[m].height = t[m].height /\ v[m].size = t[m].size
        /\ \A m \in M \ X : m # p => v[m].left = t[m].left /\ v[m].right = t[m].right
        /\ p # NULL => /\ v[p][From(t, n)] = n
                      /\ v[p][Mirror(From(t, n))] = t[p][Mirror(From(t, n))]
    BY <1>2, <1>10, <2>1
  <2>4. \A m \in M \ {n} : Fresh(t, m)
    BY DEF AllBut
  <2> HIDE DEF X, p
  <2>5. p = t[n].parent
    BY DEF p
  <2>. QED
    BY <1>9, <2>2, <2>3, <2>4, <2>5, ParentIsNext
<1>12. p = NULL => n = r
  BY DEF Links, Parent_OK
<1>13. Links(v, M, IF p = NULL THEN n ELSE r)
  BY <1>12
<1>. QED
  BY <1>11, <1>13 DEF Stepped

(* What the steps with rotations start from: the side is two too high. *)
SideTooHigh(D, t, M, n, v, side) ==
  /\ side \in Sides
  /\ v[n].parent = t[n].parent
  /\ \A s \in Sides : v[n][s] = t[n][s]
  /\ \A m \in D \ {n} : v[m] = t[m]
  /\ t[n][side] # NULL /\ Apart(t, M, n, side)
  /\ Fresh(t, t[n][side])
  /\ t[t[n][side]].height = avl_height(t, t[n][Mirror(side)]) + 2
  /\ WasHeight(t[n].height, t[t[n][side]].height, avl_height(t, t[n][Mirror(side)]))
  /\ Bent(v, n, side) <=>
       avl_height(t, t[t[n][side]][side]) < avl_height(t, t[t[n][side]][Mirror(side)])

(* When avl_fix() rotates, it finds the nodes that it turns. *)
LEMMA SideTooHighFacts ==
  ASSUME NEW D, NULL \notin D, NEW t \in Trees(D), NEW M \in SUBSET D, NEW r, Links(t, M, r),
         NEW n \in M, AllBut(t, M, n),
         NEW v \in Trees(D), v = avl_update(t, n), NEW side \in TooHigh(v, n)
  PROVE  SideTooHigh(D, t, M, n, v, side)
<1>1. n \in D
  OBVIOUS
<1>2. /\ v[n].parent = t[n].parent
      /\ \A s \in Sides : v[n][s] = t[n][s]
      /\ \A m \in D \ {n} : v[m] = t[m]
  BY <1>1, UpdateFacts
<1>3. side \in Sides /\ Mirror(side) \in Sides
      /\ avl_height(v, v[n][side]) = avl_height(v, v[n][Mirror(side)]) + 2
  BY MirrorFacts DEF TooHigh, Sides
<1> DEFINE c == t[n][side]
           o == t[n][Mirror(side)]
<1>4. v[n][side] = c /\ v[n][Mirror(side)] = o
  BY <1>2, <1>3
<1>5. /\ c # n /\ o # n /\ c \in D \cup {NULL} /\ o \in D \cup {NULL}
      /\ c # NULL => c \in M
  <2>1. \A s \in Sides : t[n][s] # NULL => t[n][s] \in M /\ t[n][s] # n
    BY DEF Links, Child_OK
  <2>. QED
    BY <1>1, <1>3, <2>1, Fieldwise
<1>6. avl_height(v, c) = avl_height(t, c) /\ avl_height(v, o) = avl_height(t, o)
  BY <1>2, <1>5 DEF avl_height
<1>7. avl_height(t, o) \in Nat /\ avl_height(t, c) = avl_height(t, o) + 2
  BY <1>3, <1>4, <1>5, <1>6, HeightType
<1>8. c # NULL
  BY <1>7 DEF avl_height
<1>9. t[c].height = avl_height(t, c) /\ Fresh(t, c) /\ c \in D /\ c \in M
  BY <1>5, <1>8 DEF AllBut, avl_height
<1>10. Apart(t, M, n, side)
  BY <1>3, <1>8, NoCycles
<1>11. WasHeight(t[n].height, avl_height(t, c), avl_height(t, o))
  <2>1. OneChanged(t, n)
    BY DEF AllBut
  <2>2. \E l, k \in Nat :
           /\ t[n].height = 1 + Larger(l, k) /\ l - k \in -1 .. 1
           /\ \/ avl_height(t, c) = l /\ avl_height(t, o) - k \in -1 .. 1
              \/ avl_height(t, o) = k /\ avl_height(t, c) - l \in -1 .. 1
    BY <1>1, <1>3, <2>1, SideBySide
  <2>. QED
    BY <2>2 DEF WasHeight
<1>12. Bent(v, n, side) <=> avl_height(t, t[c][side]) < avl_height(t, t[c][Mirror(side)])
  <2>1. v[c] = t[c]
    BY <1>2, <1>5, <1>9
  <2>2. \A s \in Sides : t[c][s] # n /\ t[c][s] \in D \cup {NULL}
    BY <1>8, <1>9, <1>10, Fieldwise DEF Apart
  <2>3. \A s \in Sides : avl_height(v, v[c][s]) = avl_height(t, t[c][s])
    BY <1>2, <2>1, <2>2 DEF avl_height
  <2>. QED
    BY <1>3, <1>4, <2>3 DEF Bent
<1>. QED
  BY <1>2, <1>3, <1>7, <1>8, <1>9, <1>10, <1>11, <1>12 DEF SideTooHigh

(* with one rotation, *)
LEMMA StepOnce ==
  ASSUME NEW D, NULL \notin D, NEW t \in Trees(D), NEW M \in SUBSET D, NEW r, Links(t, M, r),
         NEW n \in M, AllBut(t, M, n), NEW v \in Trees(D), Links(v, M, r),
         NEW side, SideTooHigh(D, t, M, n, v, side), ~Bent(v, n, side),
         NEW u, u = Rotated(v, n, Mirror(side)), CanRotate(v, n, Mirror(side)),
         t[n].parent # NULL => From(v, n) = From(t, n)
  PROVE  Stepped(D, t, M, r, n, u, v[n][side])
<1> DEFINE p == t[n].parent
           c == t[n][side]
           outer == t[c][side]
           inner == t[c][Mirror(side)]
           other == t[n][Mirror(side)]
           a == avl_height(t, outer)
           b == avl_height(t, inner)
           o == avl_height(t, other)
           h == t[n].height
<1>1. side \in Sides /\ Mirror(side) \in Sides /\ Mirror(Mirror(side)) = side
  BY MirrorFacts DEF SideTooHigh
<1>2. /\ v[n].parent = p /\ v[n][side] = c /\ v[n][Mirror(side)] = other
      /\ \A m \in D \ {n} : v[m] = t[m]
      /\ c # NULL /\ c \in M \ {n, p} /\ t[c].parent = n /\ Fresh(t, c)
      /\ t[c].height = o + 2 /\ WasHeight(h, t[c].height, o) /\ ~(a < b)
  BY <1>1 DEF SideTooHigh, Apart
<1>3. \A s \in Sides : t[c][s] # NULL => t[c][s] \in M \ {n, p, c} /\ t[t[c][s]].parent = c
  BY DEF SideTooHigh, Apart
<1>4. v[c] = t[c] /\ c \in D /\ n \in D
  BY <1>2
<1>5. /\ outer \in (D \ {n, c}) \cup {NULL} /\ inner \in (D \ {n, c}) \cup {NULL}
      /\ other \in (D \ {n, c}) \cup {NULL}
  <2>1. /\ outer \in D \cup {NULL} /\ inner \in D \cup {NULL} /\ other \in D \cup {NULL}
    BY <1>1, <1>4, Fieldwise
  <2>2. other # n
    BY <1>1 DEF Links, Child_OK
  <2>3. other # c
    <3>1. t[n].left # NULL => t[n].left # t[n].right
      BY DEF Links
    <3>. QED
      BY <1>1, <1>2, <3>1 DEF Sides, Mirror
  <2>4. outer \notin {n, c} /\ inner \notin {n, c}
    BY <1>1, <1>2, <1>3, <1>4
  <2>. QED
    BY <2>1, <2>2, <2>3, <2>4
<1>6. RotationOf(D, v, M, r, n, Mirror(side), u)
  BY <1>1, RotatedFacts
<1> HIDE DEF c, outer, inner, other, p
<1>7. /\ u \in Trees(D) /\ Links(u, M, IF p = NULL THEN c ELSE r)
      /\ u[n][Mirror(side)] = other /\ u[n][side] = inner
      /\ u[c][Mirror(side)] = n /\ u[c][side] = outer
      /\ Updated(u, n) /\ Updated(u, c)
      /\ \A m \in D \ {n, c} : u[m].height = t[m].height /\ u[m].size = t[m].size
      /\ \A m \in D \ {n, c, p} : u[m].left = t[m].left /\ u[m].right = t[m].right
      /\ p # NULL => u[p][From(t, n)] = c /\ u[p][Mirror(From(t, n))] = v[p][Mirror(From(t, n))]
  <2>1. p # NULL => From(v, n) = From(t, n)
    BY DEF p
  <2>. QED
    BY <1>1, <1>2, <1>4, <1>6, <2>1 DEF RotationOf, outer, inner
<1>8. p # NULL => p \in D \ {n, c} /\ v[p] = t[p]
  <2>1. p # NULL => p \in D \ {n}
    BY FromFacts DEF SideOfParent, p
  <2>. QED
    BY <1>2, <2>1
<1>9. avl_height(u, outer) = a /\ avl_height(u, inner) = b /\ avl_height(u, other) = o
  BY <1>5, <1>7 DEF avl_height
<1>10. a \in Nat /\ b \in Nat /\ o \in Nat /\ h \in Nat
  BY <1>4, <1>5, HeightType, Fieldwise
<1>11. t[c].height = 1 + Larger(a, b) /\ a - b \in -1 .. 1
  BY <1>1, <1>2, <1>4, SideBySide DEF outer, inner
<1>12. u[n].height = 1 + Larger(b, o)
  BY <1>1, <1>4, <1>7, <1>9, SideBySide
<1>13. u[c].height = 1 + Larger(a, u[n].height)
  <2>1. avl_height(u, n) = u[n].height
    BY <1>4 DEF avl_height
  <2>. QED
    BY <1>1, <1>4, <1>7, <1>9, <2>1, SideBySide
<1>14. b - o \in -1 .. 1 /\ a - u[n].height \in -1 .. 1 /\ u[c].height - h \in -1 .. 1
  <2> HIDE DEF a, b, o, h
  <2> DEFINE k == 1 + Larger(b, o)
  <2>1. 1 + Larger(a, b) = o + 2 /\ WasHeight(h, 1 + Larger(a, b), o) /\ ~(a < b)
    BY <1>2, <1>11
  <2>2. b - o \in -1 .. 1 /\ a - k \in -1 .. 1 /\ 1 + Larger(a, k) - h \in -1 .. 1
    BY ONLY <1>10, <1>11, <2>1, OneRotation
  <2>3. u[n].height = k /\ u[c].height = 1 + Larger(a, k)
    BY <1>12, <1>13
  <2>. QED
    BY ONLY <1>10, <2>2, <2>3 DEF Larger
<1>15. Fresh(u, n) /\ Fresh(u, c)
  <2>1. avl_height(u, n) = u[n].height
    BY <1>4 DEF avl_height
  <2>2. Fresh(u, n)
    BY <1>1, <1>4, <1>7, <1>9, <1>14, SideBySide
  <2>3. Fresh(u, c)
    BY <1>1, <1>4, <1>7, <1>9, <1>14, <2>1, SideBySide
  <2>. QED
    BY <2>2, <2>3
<1>16. OrderlyBut(u, M, p)
  <2> DEFINE X == {n, c}
  <2>1. X \in SUBSET M /\ n \in X /\ p \notin X /\ \A m \in X \ {n} : t[m].parent \in X
    BY <1>2, <1>8
  <2>2. /\ \A m \in X : Fresh(u, m)
        /\ \A m \in D \ X : u[m].height = t[m].height /\ u[m].size = t[m].size
        /\ \A m \in M \ X : m # p => u[m].left = t[m].left /\ u[m].right = t[m].right
        /\ c \in X /\ u[c].height - t[n].height \in -1 .. 1
        /\ p # NULL => /\ u[p][From(t, n)] = c
                      /\ u[p][Mirror(From(t, n))] = t[p][Mirror(From(t, n))]
    BY <1>7, <1>8, <1>14, <1>15
  <2>3. (\A m \in M \ {n} : Fresh(t, m)) /\ p = t[n].parent
    BY DEF AllBut, p
  <2> HIDE DEF X
  <2>. QED
    BY <1>7, <2>1, <2>2, <2>3, ParentIsNext
<1>. QED
  BY <1>2, <1>7, <1>16 DEF Stepped, p, c

(* and with two. *)
LEMMA StepTwice ==
  ASSUME NEW D, NULL \notin D, NEW t \in Trees(D), NEW M \in SUBSET D, NEW r, Links(t, M, r),
         NEW n \in M, AllBut(t, M, n), NEW v \in Trees(D), Links(v, M, r),
         NEW side, SideTooHigh(D, t, M, n, v, side), Bent(v, n, side),
         NEW w, w = Rotated(v, v[n][side], side), CanRotate(v, v[n][side], side),
         NEW u, u = Rotated(w, n, Mirror(side)), CanRotate(w, n, Mirror(side)),
         w[n].parent = t[n].parent,
         t[n].parent # NULL => /\ From(w, n) = From(t, n)
                               /\ w[t[n].parent].left = t[t[n].parent].left
                               /\ w[t[n].parent].right = t[t[n].parent].right
  PROVE  Stepped(D, t, M, r, n, u, w[n][side])
<1> DEFINE p == t[n].parent
           c == t[n][side]
           g == t[c][Mirror(side)]
           outer == t[c][side]
           g1 == t[g][side]
           g2 == t[g][Mirror(side)]
           other == t[n][Mirror(side)]
           a == avl_height(t, outer)
           b == t[g].height
           b1 == avl_height(t, g1)
           b2 == avl_height(t, g2)
           o == avl_height(t, other)
           h == t[n].height
<1>1. side \in Sides /\ Mirror(side) \in Sides /\ Mirror(Mirror(side)) = side /\ Mirror(side) # side
  BY MirrorFacts DEF SideTooHigh
<1>2. /\ v[n].parent = p /\ v[n][side] = c /\ v[n][Mirror(side)] = other
      /\ \A m \in D \ {n} : v[m] = t[m]
      /\ c # NULL /\ c \in M \ {n, p} /\ t[c].parent = n /\ Fresh(t, c)
      /\ t[c].height = o + 2 /\ WasHeight(h, t[c].height, o)
      /\ a < avl_height(t, g)
  BY <1>1 DEF SideTooHigh, Apart
<1>3. \A s \in Sides : t[c][s] # NULL =>
         /\ t[c][s] \in M \ {n, p, c} /\ t[t[c][s]].parent = c
         /\ \A s3 \in Sides : t[t[c][s]][s3] # NULL => t[t[c][s]][s3] \notin {n, p, c, t[c][s]}
  BY DEF SideTooHigh, Apart
<1>4. v[c] = t[c] /\ c \in D /\ n \in D /\ n # NULL
  BY <1>2
<1>5. /\ outer \in D \cup {NULL} /\ g \in D \cup {NULL} /\ other \in D \cup {NULL}
      /\ a \in Nat /\ avl_height(t, g) \in Nat /\ o \in Nat /\ h \in Nat
  BY <1>1, <1>4, Fieldwise, HeightType
<1>6. g # NULL /\ avl_height(t, g) = b
  BY <1>2, <1>5 DEF avl_height
<1>7. /\ g \in M \ {n, p, c} /\ t[g].parent = c /\ Fresh(t, g) /\ g \in D /\ v[g] = t[g]
      /\ \A s3 \in Sides : t[g][s3] # NULL => t[g][s3] \notin {n, p, c, g}
  BY <1>1, <1>2, <1>3, <1>6 DEF AllBut
<1>8. /\ outer \in (D \ {n, c, g}) \cup {NULL} /\ other \in (D \ {n, c, g}) \cup {NULL}
      /\ g1 \in (D \ {n, c, g}) \cup {NULL} /\ g2 \in (D \ {n, c, g}) \cup {NULL}
  <2>0. \A m \in M : t[m].left # NULL => t[m].left # t[m].right
    BY DEF Links
  <2>1. other \notin {n, c, g}
    <3>1. other # n /\ (other # NULL => t[other].parent = n)
      BY <1>1 DEF Links, Child_OK
    <3>2. other # c
      BY <1>1, <1>2, <2>0 DEF Sides, Mirror
    <3>. QED
      BY <1>2, <1>6, <1>7, <3>1, <3>2
  <2>2. outer \notin {n, c, g}
    <3>1. outer # g
      BY <1>1, <1>2, <1>6, <2>0 DEF Sides, Mirror
    <3>. QED
      BY <1>1, <1>2, <1>3, <1>4, <3>1
  <2>3. g1 \in D \cup {NULL} /\ g2 \in D \cup {NULL}
    BY <1>1, <1>7, Fieldwise
  <2>4. g1 \notin {n, c, g} /\ g2 \notin {n, c, g}
    BY <1>1, <1>4, <1>6, <1>7
  <2>. QED
    BY <1>5, <2>1, <2>2, <2>3, <2>4
<1>9. RotationOf(D, v, M, r, c, side, w)
  <2>1. c = v[n][side] /\ c \in M
    BY <1>2
  <2> HIDE DEF c
  <2>. QED
    BY <1>1, <2>1, RotatedFacts
<1>10. From(v, c) = side
  <2>1. v[n].left # NULL => v[n].left # v[n].right
    BY DEF Links
  <2>. QED
    BY <1>1, <1>2, <1>4, <2>1 DEF From, Sides
<1> HIDE DEF c, outer, g, g1, g2, other, p
<1>11. v[c][Mirror(side)] = g /\ v[c][side] = outer /\ v[g][side] = g1 /\ v[g][Mirror(side)] = g2
       /\ v[c].parent = n
  BY <1>2, <1>4, <1>7 DEF g, outer, g1, g2
<1>12. /\ w \in Trees(D) /\ Links(w, M, r)
       /\ w[c][side] = outer /\ w[c][Mirror(side)] = g1
       /\ w[g][side] = c /\ w[g][Mirror(side)] = g2
       /\ Updated(w, c)
       /\ \A m \in D \ {c, g} : w[m].height = v[m].height /\ w[m].size = v[m].size
       /\ \A m \in D \ {c, g, n} : w[m].left = v[m].left /\ w[m].right = v[m].right
       /\ w[n][side] = g /\ w[n][Mirror(side)] = other
  BY <1>2, <1>4, <1>9, <1>10, <1>11 DEF RotationOf
<1>13. RotationOf(D, w, M, r, n, Mirror(side), u)
  BY <1>1, <1>12, RotatedFacts
<1>14. w[n].parent = p
  BY DEF p
<1>15. /\ u \in Trees(D) /\ Links(u, M, IF p = NULL THEN g ELSE r)
       /\ u[n][Mirror(side)] = other /\ u[n][side] = g2
       /\ u[g][Mirror(side)] = n /\ u[g][side] = c
       /\ Updated(u, n) /\ Updated(u, g)
       /\ \A m \in D \ {n, g} : u[m].height = w[m].height /\ u[m].size = w[m].size
       /\ \A m \in D \ {n, g, p} : u[m].left = w[m].left /\ u[m].right = w[m].right
       /\ p # NULL => u[p][From(w, n)] = g /\ u[p][Mirror(From(w, n))] = w[p][Mirror(From(w, n))]
  BY <1>1, <1>12, <1>13, <1>14 DEF RotationOf
<1>16. /\ \A m \in D \ {n, c, g} : u[m].height = t[m].height /\ u[m].size = t[m].size
       /\ \A m \in D \ {n, c, g, p} : u[m].left = t[m].left /\ u[m].right = t[m].right
       /\ \A m \in D \ {n, c, g} : w[m].height = t[m].height /\ w[m].size = t[m].size
  BY <1>2, <1>12, <1>15
<1>17. /\ u[c].left = w[c].left /\ u[c].right = w[c].right
       /\ u[c].height = w[c].height /\ u[c].size = w[c].size
       /\ u[c][side] = outer /\ u[c][Mirror(side)] = g1
  <2>1. c \in D \ {n, g, p}
    BY <1>2, <1>4, <1>7
  <2>2. u[c].left = w[c].left /\ u[c].right = w[c].right
    BY <1>15, <2>1
  <2>. QED
    BY <1>1, <1>12, <1>15, <2>1, <2>2 DEF Sides
<1>18. /\ avl_height(u, outer) = a /\ avl_height(u, g1) = b1 /\ avl_height(u, g2) = b2
       /\ avl_height(u, other) = o /\ avl_size(u, outer) = avl_size(w, outer)
       /\ avl_height(w, outer) = a /\ avl_height(w, g1) = b1 /\ avl_size(u, g1) = avl_size(w, g1)
  BY <1>8, <1>16 DEF avl_height, avl_size
<1>19. b1 \in Nat /\ b2 \in Nat /\ b \in Nat
  BY <1>7, <1>8, HeightType, Fieldwise
<1>20. t[c].height = 1 + Larger(a, b) /\ a - b \in -1 .. 1
  BY <1>1, <1>2, <1>4, <1>6, SideBySide DEF outer, g
<1>21. b = 1 + Larger(b1, b2) /\ b1 - b2 \in -1 .. 1
  BY <1>1, <1>7, SideBySide DEF g1, g2
<1>22. u[n].height = 1 + Larger(b2, o)
  BY <1>1, <1>4, <1>15, <1>18, SideBySide
<1>23. Updated(u, c)
  <2>1. w[c].left \in {outer, g1} /\ w[c].right \in {outer, g1}
    BY <1>1, <1>12 DEF Sides, Mirror
  <2>2. \A x \in {outer, g1} : avl_height(u, x) = avl_height(w, x) /\ avl_size(u, x) = avl_size(w, x)
    BY <1>18
  <2>. QED
    BY <1>12, <1>17, <2>1, <2>2 DEF Updated
<1>24. u[c].height = 1 + Larger(a, b1)
  BY <1>1, <1>4, <1>15, <1>17, <1>18, <1>23, SideBySide
<1>25. avl_height(u, n) = u[n].height /\ avl_height(u, c) = u[c].height
  BY <1>2, <1>4 DEF avl_height
<1>26. u[g].height = 1 + Larger(u[c].height, u[n].height)
  BY <1>1, <1>7, <1>15, <1>25, SideBySide
<1>27. /\ a - b1 \in -1 .. 1 /\ b2 - o \in -1 .. 1 /\ u[c].height - u[n].height \in -1 .. 1
       /\ u[g].height - h \in -1 .. 1
  <2> HIDE DEF a, b, b1, b2, o, h
  <2> DEFINE k == 1 + Larger(a, b1)
             l == 1 + Larger(b2, o)
  <2>1. 1 + Larger(a, b) = o + 2 /\ WasHeight(h, 1 + Larger(a, b), o) /\ a < b
    BY <1>2, <1>6, <1>20
  <2>2. /\ a - b1 \in -1 .. 1 /\ b2 - o \in -1 .. 1 /\ k - l \in -1 .. 1
        /\ 1 + Larger(k, l) - h \in -1 .. 1
    BY ONLY <1>5, <1>19, <1>20, <1>21, <2>1, TwoRotations
  <2>3. u[c].height = k /\ u[n].height = l /\ u[g].height = 1 + Larger(k, l)
    BY <1>22, <1>24, <1>26
  <2>. QED
    BY ONLY <1>5, <1>19, <2>2, <2>3 DEF Larger
<1>28. Fresh(u, n) /\ Fresh(u, c) /\ Fresh(u, g)
  <2>1. Fresh(u, n)
    BY <1>1, <1>4, <1>15, <1>18, <1>27, SideBySide
  <2>2. Fresh(u, c)
    BY <1>1, <1>4, <1>15, <1>17, <1>18, <1>23, <1>27, SideBySide
  <2>3. Fresh(u, g)
    BY <1>1, <1>7, <1>15, <1>25, <1>27, SideBySide
  <2>. QED
    BY <2>1, <2>2, <2>3
<1>29. p # NULL => /\ From(t, n) \in Sides /\ p \in D \ {n, c, g}
                   /\ u[p][From(t, n)] = g
                   /\ u[p][Mirror(From(t, n))] = t[p][Mirror(From(t, n))]
  <2>1. p # NULL => From(t, n) \in Sides /\ p \in D \ {n}
    BY FromFacts DEF SideOfParent, p
  <2>2. p # NULL => /\ From(w, n) = From(t, n)
                    /\ w[p].left = t[p].left /\ w[p].right = t[p].right
    BY DEF p
  <2>3. p # NULL => w[p][Mirror(From(t, n))] = t[p][Mirror(From(t, n))]
    BY <2>1, <2>2 DEF Sides, Mirror
  <2>. QED
    BY <1>2, <1>7, <1>15, <2>1, <2>2, <2>3
<1>30. OrderlyBut(u, M, p)
  <2> DEFINE X == {n, c, g}
  <2>1. X \in SUBSET M /\ n \in X /\ p \notin X /\ \A m \in X \ {n} : t[m].parent \in X
    BY <1>2, <1>4, <1>7, <1>29
  <2>2. /\ \A m \in X : Fresh(u, m)
        /\ \A m \in D \ X : u[m].height = t[m].height /\ u[m].size = t[m].size
        /\ \A m \in M \ X : m # p => u[m].left = t[m].left /\ u[m].right = t[m].right
        /\ g \in X /\ u[g].height - t[n].height \in -1 .. 1
        /\ p # NULL => /\ u[p][From(t, n)] = g
                      /\ u[p][Mirror(From(t, n))] = t[p][Mirror(From(t, n))]
    BY <1>16, <1>27, <1>28, <1>29
  <2>3. (\A m \in M \ {n} : Fresh(t, m)) /\ p = t[n].parent
    BY DEF AllBut, p
  <2> HIDE DEF X
  <2>. QED
    BY <1>15, <2>1, <2>2, <2>3, ParentIsNext
<1>. QED
  BY <1>12, <1>15, <1>30 DEF Stepped, p

(* So every iteration leaves the tree in order but for the parent. *)
LEMMA StepFacts ==
  ASSUME NEW D, NULL \notin D, NEW t \in Trees(D), NEW M \in SUBSET D, NEW r, Links(t, M, r),
         NEW n \in M, AllBut(t, M, n)
  PROVE  Stepped(D, t, M, r, n, Step(t, n), Top(t, n))
<1> DEFINE v == avl_update(t, n)
           p == t[n].parent
<1>0. v = avl_update(t, n)
  OBVIOUS
<1> HIDE DEF v
<1>1. /\ v \in Trees(D) /\ Links(v, M, r) /\ v[n].parent = t[n].parent
      /\ TooHigh(v, n) = {} => Step(t, n) = v /\ Top(t, n) = n
      /\ TooHigh(v, n) # {} =>
           \E side \in TooHigh(v, n), c \in M \ {n} :
              \E w \in Trees(D) :
                /\ side \in Sides /\ c = v[n][side]
                /\ Bent(v, n, side) => CanRotate(v, c, side) /\ w = Rotated(v, c, side)
                /\ ~Bent(v, n, side) => w = v
                /\ Links(w, M, r) /\ w[n].parent = t[n].parent
                /\ t[n].parent # NULL => /\ w[t[n].parent].left = t[t[n].parent].left
                                        /\ w[t[n].parent].right = t[t[n].parent].right
                /\ CanRotate(w, n, Mirror(side))
                /\ Step(t, n) = Rotated(w, n, Mirror(side)) /\ Top(t, n) = w[n][side]
  BY <1>0, StepCases
<1>2. CASE TooHigh(v, n) = {}
  BY <1>0, <1>1, <1>2, StepLevel
<1>3. CASE TooHigh(v, n) # {}
  <2>1. PICK side \in TooHigh(v, n), c \in M \ {n} :
              \E w \in Trees(D) :
                /\ side \in Sides /\ c = v[n][side]
                /\ Bent(v, n, side) => CanRotate(v, c, side) /\ w = Rotated(v, c, side)
                /\ ~Bent(v, n, side) => w = v
                /\ Links(w, M, r) /\ w[n].parent = t[n].parent
                /\ t[n].parent # NULL => /\ w[t[n].parent].left = t[t[n].parent].left
                                        /\ w[t[n].parent].right = t[t[n].parent].right
                /\ CanRotate(w, n, Mirror(side))
                /\ Step(t, n) = Rotated(w, n, Mirror(side)) /\ Top(t, n) = w[n][side]
    BY <1>1, <1>3
  <2>2. PICK w \in Trees(D) :
                /\ side \in Sides /\ c = v[n][side]
                /\ Bent(v, n, side) => CanRotate(v, c, side) /\ w = Rotated(v, c, side)
                /\ ~Bent(v, n, side) => w = v
                /\ Links(w, M, r) /\ w[n].parent = t[n].parent
                /\ t[n].parent # NULL => /\ w[t[n].parent].left = t[t[n].parent].left
                                        /\ w[t[n].parent].right = t[t[n].parent].right
                /\ CanRotate(w, n, Mirror(side))
                /\ Step(t, n) = Rotated(w, n, Mirror(side)) /\ Top(t, n) = w[n][side]
    BY <2>1
  <2>3. SideTooHigh(D, t, M, n, v, side)
    BY <1>0, <1>1, SideTooHighFacts
  <2>4. t[n].parent # NULL => From(w, n) = From(t, n)
    BY <2>2 DEF From
  <2>5. CASE ~Bent(v, n, side)
    <3>1. w = v /\ CanRotate(v, n, Mirror(side)) /\ Step(t, n) = Rotated(v, n, Mirror(side))
          /\ Top(t, n) = v[n][side]
      BY <2>2, <2>5
    <3>. QED
      BY <1>1, <2>3, <2>4, <2>5, <3>1, StepOnce
  <2>6. CASE Bent(v, n, side)
    <3>1. /\ CanRotate(v, v[n][side], side) /\ w = Rotated(v, v[n][side], side)
          /\ w[n].parent = t[n].parent
          /\ t[n].parent # NULL => /\ w[t[n].parent].left = t[t[n].parent].left
                                  /\ w[t[n].parent].right = t[t[n].parent].right
          /\ CanRotate(w, n, Mirror(side))
          /\ Step(t, n) = Rotated(w, n, Mirror(side)) /\ Top(t, n) = w[n][side]
      BY <2>2, <2>6
    <3>. QED
      BY <1>1, <2>3, <2>4, <2>6, <3>1, StepTwice
  <2>. QED
    BY <2>5, <2>6
<1>. QED
  BY <1>2, <1>3

-----------------------------------------------------------------------------
(* u is t without the node n among the linked ones: its only child, if     *)
(* any, is in its place.                                                   *)
DetachmentOf(D, t, M, r, n, u) ==
  LET p == t[n].parent
      c == Child(t, n)
  IN /\ u \in Trees(D)
     /\ Links(u, M \ {n}, IF p = NULL THEN c ELSE r)
     /\ OrderlyBut(u, M \ {n}, p)
     /\ c # NULL => c \in M \ {n, p} /\ u[c].parent = p
     /\ p # NULL => p \in M \ {n} /\ u[p][From(t, n)] = c
                   /\ u[p][Mirror(From(t, n))] = t[p][Mirror(From(t, n))]
     /\ \A m \in D : m # p => u[m].left = t[m].left /\ u[m].right = t[m].right
     /\ \A m \in D : m # c => u[m].parent = t[m].parent
     /\ \A m \in D : u[m].height = t[m].height /\ u[m].size = t[m].size

(* avl_del_easy() takes out one node and links its only child to its       *)
(* parent.                                                                 *)
LEMMA DetachedFacts ==
  ASSUME NEW D, NULL \notin D, NEW t \in Trees(D), NEW M \in SUBSET D, NEW r, Links(t, M, r),
         NEW n \in M, NULL \in {t[n].left, t[n].right}, \A m \in M : Fresh(t, m)
  PROVE  DetachmentOf(D, t, M, r, n, Detached(t, n))
<1> DEFINE p == t[n].parent
           c == Child(t, n)
           f == From(t, n)
           up == SetParent(t, c, p)
           u == Detached(t, n)
<1>1. n \in D /\ n # NULL /\ p \in D \cup {NULL} /\ t[n].height \in Nat
  BY Fieldwise
<1>2. PICK side \in Sides : t[n][side] = c /\ t[n][Mirror(side)] = NULL
  BY DEF Child, Sides, Mirror
<1>3. \A m \in M, s \in Sides : t[m][s] # NULL =>
         /\ t[m][s] \in M /\ t[m][s] # m /\ t[t[m][s]].parent = m
         /\ t[t[m][s]].height < t[m].height
  BY Lower DEF Links, Child_OK
<1>4. c # NULL => c \in M /\ c # n /\ t[c].parent = n /\ t[c].height < t[n].height
  BY <1>2, <1>3
<1>5. p # NULL => /\ f \in Sides /\ p \in M /\ p # n /\ t[p][f] = n /\ t[p][Mirror(f)] # n
                  /\ t[n].height < t[p].height
  <2>1. p # NULL => SideOfParent(t, M, n)
    BY FromFacts
  <2>2. p # NULL => f \in Sides /\ p \in M /\ p # n /\ t[p][f] = n /\ t[p][Mirror(f)] # n
    BY <2>1 DEF SideOfParent
  <2>. QED
    BY <1>1, <1>3, <2>2
<1>6. p # NULL => p # c
  <2>1. CASE p # NULL /\ p = c
    <3>1. t[p].height \in Nat
      BY <1>1, <2>1, Fieldwise
    <3>. QED
      BY <1>1, <1>4, <1>5, <2>1, <3>1
  <2>. QED
    BY <2>1
<1>7. u = IF p = NULL THEN up ELSE [up EXCEPT ![p][f] = c]
  BY DEF Detached
<1>8. c \in D \cup {NULL}
  BY <1>4
<1>9. /\ up \in Trees(D)
      /\ \A m \in D : m # c => up[m] = t[m]
      /\ c # NULL => /\ up[c].parent = p /\ up[c].left = t[c].left /\ up[c].right = t[c].right
                    /\ up[c].height = t[c].height /\ up[c].size = t[c].size
  BY <1>1, <1>8 DEF SetParent, Trees, Fields
<1> HIDE DEF c, p, f, u, up
<1>10. /\ u \in Trees(D)
       /\ \A m \in D : m # p => u[m] = up[m]
       /\ p # NULL => /\ u[p][f] = c /\ u[p][Mirror(f)] = t[p][Mirror(f)]
                     /\ u[p].parent = t[p].parent
                     /\ u[p].height = t[p].height /\ u[p].size = t[p].size
  <2>1. CASE p = NULL
    BY <1>7, <1>9, <2>1
  <2>2. CASE p # NULL
    <3>1. u = [up EXCEPT ![p][f] = c] /\ p \in D /\ up[p] = t[p]
      BY <1>1, <1>6, <1>7, <1>9, <2>2
    <3>2. f \in Sides /\ Mirror(f) # f /\ Mirror(f) \in Sides /\ f \notin {"parent", "height", "size"}
      BY <1>5, <2>2, MirrorFacts
    <3>3. u \in Trees(D)
      BY <1>8, <1>9, <3>1, <3>2 DEF Trees, Fields, Sides
    <3>. QED
      BY <1>8, <1>9, <3>1, <3>2, <3>3 DEF Trees, Fields, Sides
  <2>. QED
    BY <2>1, <2>2
<1>11. \A m \in D : u[m].height = t[m].height /\ u[m].size = t[m].size
  BY <1>9, <1>10
<1>12. \A m \in D : m # p => u[m].left = t[m].left /\ u[m].right = t[m].right
  BY <1>9, <1>10
<1>13. \A m \in D : m # c => u[m].parent = t[m].parent
  BY <1>9, <1>10
<1>14. c # NULL => c \in M \ {n, p} /\ u[c].parent = p
  BY <1>4, <1>6, <1>9, <1>10
<1>15. p # NULL => p \in M \ {n} /\ u[p][f] = c /\ u[p][Mirror(f)] = t[p][Mirror(f)]
  BY <1>5, <1>10
<1> DEFINE r1 == IF p = NULL THEN c ELSE r
<1>a. \A m \in M, s \in Sides : m # p => u[m][s] = t[m][s]
  BY <1>12 DEF Sides
<1>b. \A m \in M : m # n /\ t[m].parent # NULL => t[m].parent \in M
  BY DEF Links, Parent_OK
<1>c. p = NULL => n = r
  BY DEF Links, Parent_OK, p
<1>16. Links(u, M \ {n}, r1)
  <2>1. r1 # NULL => r1 \in M \ {n} /\ u[r1].parent = NULL
    <3>1. CASE p = NULL
      BY <1>14, <3>1
    <3>2. CASE p # NULL /\ r # NULL
      <4>1. r \in M /\ t[r].parent = NULL /\ r # n
        BY <3>2 DEF Links, p
      <4>2. r # c
        BY <1>1, <1>4, <4>1
      <4>. QED
        BY <1>13, <3>2, <4>1, <4>2
    <3>. QED
      BY <3>1, <3>2
  <2>2. ASSUME NEW m \in M \ {n}, NEW s \in Sides
        PROVE  Child_OK(u, M \ {n}, m, s)
    <3> SUFFICES ASSUME NEW k, k = u[m][s], k # NULL
                 PROVE  k \in M \ {n} /\ k # m /\ u[k].parent = m
      BY DEF Child_OK
    <3>1. CASE m # p
      <4>1. k \in M /\ k # m /\ t[k].parent = m
        BY <1>3, <1>a, <3>1
      <4>2. k # n /\ k # c
        BY <1>4, <3>1, <4>1 DEF p
      <4>. QED
        BY <1>13, <4>1, <4>2
    <3>2. CASE m = p
      <4>1. p # NULL /\ (s = f \/ s = Mirror(f))
        BY <1>5, <3>2 DEF Sides, Mirror
      <4>2. CASE s = f
        BY <1>14, <1>15, <3>2, <4>1, <4>2
      <4>3. CASE s = Mirror(f)
        <5>1. k = t[p][s] /\ k # n
          BY <1>5, <1>15, <3>2, <4>1, <4>3
        <5>2. k \in M /\ k # p /\ t[k].parent = p
          BY <1>3, <3>2, <5>1
        <5>3. k # c
          BY <1>4, <1>5, <4>1, <5>2
        <5>. QED
          BY <1>13, <3>2, <5>1, <5>2, <5>3
      <4>. QED
        BY <4>1, <4>2, <4>3
    <3>. QED
      BY <3>1, <3>2
  <2>3. ASSUME NEW m \in M \ {n}, u[m].left # NULL
        PROVE  u[m].left # u[m].right
    <3>0. \A k \in M : t[k].left # NULL => t[k].left # t[k].right
      BY DEF Links
    <3>1. CASE m # p
      BY <1>12, <2>3, <3>0, <3>1
    <3>2. CASE m = p
      <4>1. p # NULL /\ f \in Sides /\ u[p][f] = c /\ u[p][Mirror(f)] = t[p][Mirror(f)]
        BY <1>5, <1>15, <3>2
      <4>2. t[p][Mirror(f)] # NULL => t[p][Mirror(f)] # c
        BY <1>3, <1>4, <1>5, <4>1, MirrorFacts
      <4>3. \/ u[p].left = c /\ u[p].right = t[p][Mirror(f)]
            \/ u[p].right = c /\ u[p].left = t[p][Mirror(f)]
        BY <4>1 DEF Sides, Mirror
      <4>. QED
        BY <2>3, <3>2, <4>2, <4>3
    <3>. QED
      BY <3>1, <3>2
  <2>4. ASSUME NEW m \in M \ {n}
        PROVE  Parent_OK(u, M \ {n}, r1, m)
    <3>1. CASE m = c
      BY <1>5, <1>14, <1>15, <3>1 DEF Parent_OK
    <3>2. CASE m # c
      <4> DEFINE q == t[m].parent
      <4>1. /\ u[m].parent = q
            /\ q = NULL => m = r
            /\ q # NULL => q \in M /\ \E s \in Sides : t[q][s] = m
        BY <1>13, <3>2 DEF Links, Parent_OK
      <4>2. q = NULL => m = r1
        BY <1>c, <2>4, <4>1
      <4>3. q # NULL => q # n
        BY <1>2, <2>4, <3>2, <4>1 DEF Sides, Mirror
      <4>4. q # NULL => \E s \in Sides : u[q][s] = m
        <5>1. CASE q # NULL /\ q # p
          BY <1>a, <4>1, <5>1
        <5>2. CASE q # NULL /\ q = p
          <6>1. PICK s \in Sides : t[p][s] = m
            BY <4>1, <5>2
          <6>2. s = Mirror(f)
            <7>1. s # f
              BY <1>5, <2>4, <5>2, <6>1
            <7>2. f \in Sides
              BY <1>5, <5>2
            <7>. QED
              BY <7>1, <7>2 DEF Sides, Mirror
          <6>. QED
            BY <1>15, <5>2, <6>1, <6>2
        <5>. QED
          BY <5>1, <5>2
      <4> HIDE DEF q
      <4>. QED
        BY <4>1, <4>2, <4>3, <4>4 DEF Parent_OK
    <3>. QED
      BY <3>1, <3>2
  <2>. QED
    BY <2>1, <2>2, <2>3, <2>4 DEF Links
<1>d. \A m \in D \cup {NULL} : avl_height(u, m) = avl_height(t, m) /\ avl_size(u, m) = avl_size(t, m)
  BY <1>11 DEF avl_height, avl_size
<1>17. OrderlyBut(u, M \ {n}, p)
  <2>1. ASSUME NEW m \in M \ {n}, m # p
        PROVE  Fresh(u, m)
    <3>1. t[m].left \in D \cup {NULL} /\ t[m].right \in D \cup {NULL}
      BY Fieldwise
    <3>2. Fresh(t, m) /\ u[m].left = t[m].left /\ u[m].right = t[m].right
          /\ u[m].height = t[m].height /\ u[m].size = t[m].size
      BY <1>11, <1>12, <2>1
    <3>. QED
      BY <1>d, <3>1, <3>2 DEF Fresh, Updated
  <2>2. ASSUME p # NULL
        PROVE  OneChanged(u, p)
    <3> DEFINE k == t[p][Mirror(f)]
    <3>1. f \in Sides /\ p \in M /\ p \in D /\ t[p][f] = n /\ k \in D \cup {NULL} /\ Fresh(t, p)
      BY <1>5, <2>2, Fieldwise, MirrorFacts
    <3>2. /\ t[p].height = 1 + Larger(avl_height(t, n), avl_height(t, k))
          /\ avl_height(t, n) - avl_height(t, k) \in -1 .. 1
          /\ avl_height(t, n) \in Nat /\ avl_height(t, k) \in Nat
      BY <3>1, SideBySide
    <3>3. avl_height(t, n) = 1 + avl_height(t, c) /\ avl_height(t, c) \in Nat
      <4>1. Fresh(t, n)
        OBVIOUS
      <4>2. /\ t[n].height = 1 + Larger(avl_height(t, c), avl_height(t, NULL))
            /\ avl_height(t, c) \in Nat
        BY <1>1, <1>2, <4>1, SideBySide
      <4>. QED
        BY <1>1, <4>2 DEF avl_height, Larger
    <3>4. /\ u[p].height = t[p].height /\ u[p][f] = c /\ u[p][Mirror(f)] = k
          /\ avl_height(u, c) = avl_height(t, c) /\ avl_height(u, k) = avl_height(t, k)
      BY <1>8, <1>10, <1>11, <1>d, <2>2, <3>1
    <3> HIDE DEF k
    <3>5. \E l, i \in Nat :
             /\ u[p].height = 1 + Larger(l, i) /\ l - i \in -1 .. 1
             /\ \/ avl_height(u, c) = l /\ avl_height(u, k) - i \in -1 .. 1
                \/ avl_height(u, k) = i /\ avl_height(u, c) - l \in -1 .. 1
      BY <3>2, <3>3, <3>4
    <3>. QED
      BY <1>10, <3>1, <3>4, <3>5, SideBySide
  <2>. QED
    BY <2>1, <2>2 DEF OrderlyBut
<1>. QED
  BY <1>10, <1>11, <1>12, <1>13, <1>14, <1>15, <1>16, <1>17 DEF DetachmentOf, c, f, p, u

(* u is t with a new leaf n under a, on the side s where there was none. *)
InsertionOf(D, t, r, n, a, s, u) ==
  /\ u \in Trees(D \cup {n})
  /\ Links(u, D \cup {n}, IF a = NULL THEN n ELSE r)
  /\ OrderlyBut(u, D \cup {n}, a)
  /\ u[n] = [New EXCEPT !.parent = a]
  /\ \A m \in D : m # a => u[m] = t[m]
  /\ a # NULL => /\ u[a][s] = n /\ u[a][Mirror(s)] = t[a][Mirror(s)]
                /\ u[a].parent = t[a].parent

(* The assignments of the search's last step *)
Inserted(t, n, a, s) ==
  With(IF a = NULL THEN t ELSE [t EXCEPT ![a][s] = n], n, [New EXCEPT !.parent = a])

(* The last step of the search hangs the new node under the one where it   *)
(* stopped.                                                                *)
LEMMA InsertedFacts ==
  ASSUME NEW D, NULL \notin D, NEW t \in Trees(D), NEW r, Links(t, D, r),
         \A m \in D : Fresh(t, m), NEW n, n \notin D, n # NULL,
         NEW a \in D \cup {NULL}, a = NULL => r = NULL,
         NEW s \in Sides, a # NULL => t[a][s] = NULL
  PROVE  InsertionOf(D, t, r, n, a, s, Inserted(t, n, a, s))
<1> DEFINE w == IF a = NULL THEN t ELSE [t EXCEPT ![a][s] = n]
           E == D \cup {n}
           new == [New EXCEPT !.parent = a]
           u == Inserted(t, n, a, s)
           r1 == IF a = NULL THEN n ELSE r
<1>1. DOMAIN w = D
  BY DEF Trees
<1>2. u = [m \in E |-> IF m = n THEN new ELSE w[m]]
  BY <1>1 DEF Inserted, With
<1>3. /\ \A m \in D : m # a => w[m] = t[m]
      /\ a # NULL => /\ w[a][s] = n /\ w[a][Mirror(s)] = t[a][Mirror(s)]
                    /\ w[a].parent = t[a].parent
                    /\ w[a].height = t[a].height /\ w[a].size = t[a].size
      /\ \A m \in D : w[m] \in Fields(E)
  BY MirrorFacts DEF Trees, Fields, Sides
<1>4. /\ new.parent = a /\ new.left = NULL /\ new.right = NULL
      /\ new.height = 1 /\ new.size = 1 /\ new \in Fields(E)
      /\ \A z \in Sides : new[z] = NULL
  BY DEF New, Fields, Sides
<1> HIDE DEF w, u, new
<1>5. /\ u \in Trees(E) /\ u[n] = new
      /\ \A m \in D : u[m] = w[m]
  BY <1>2, <1>3, <1>4 DEF Trees
<1>6. \A m \in D : m # a => u[m] = t[m]
  BY <1>3, <1>5
<1>7. a # NULL => /\ u[a][s] = n /\ u[a][Mirror(s)] = t[a][Mirror(s)]
                  /\ u[a].parent = t[a].parent
                  /\ u[a].height = t[a].height /\ u[a].size = t[a].size
                  /\ a \in D /\ a # n
  BY <1>3, <1>5
<1>8. \A m \in D : /\ u[m].parent = t[m].parent
                   /\ u[m].height = t[m].height /\ u[m].size = t[m].size
  BY <1>6, <1>7
<1>9. \A m \in D, z \in Sides : t[m][z] # NULL =>
        t[m][z] \in D /\ t[m][z] # m /\ t[t[m][z]].parent = m
  BY DEF Links, Child_OK
<1>10. Links(u, E, r1)
  <2>1. r1 # NULL => r1 \in E /\ u[r1].parent = NULL
    BY <1>4, <1>5, <1>8 DEF Links
  <2>2. ASSUME NEW m \in E, NEW z \in Sides
        PROVE  Child_OK(u, E, m, z)
    <3>1. CASE m = n
      BY <1>4, <1>5, <3>1 DEF Child_OK
    <3>2. CASE m \in D /\ m # a
      BY <1>6, <1>8, <1>9, <3>2 DEF Child_OK
    <3>3. CASE m \in D /\ m = a
      <4>1. z = s \/ z = Mirror(s)
        BY DEF Sides, Mirror
      <4>2. CASE z = s
        BY <1>4, <1>5, <1>7, <3>3, <4>2 DEF Child_OK
      <4>3. CASE z = Mirror(s)
        BY <1>7, <1>8, <1>9, <3>3, <4>3 DEF Child_OK
      <4>. QED
        BY <4>1, <4>2, <4>3
    <3>. QED
      BY <3>1, <3>2, <3>3
  <2>3. ASSUME NEW m \in E, u[m].left # NULL
        PROVE  u[m].left # u[m].right
    <3>0. \A k \in D : t[k].left # NULL => t[k].left # t[k].right
      BY DEF Links
    <3>1. CASE m = n
      BY <1>4, <1>5, <2>3, <3>1
    <3>2. CASE m \in D /\ m # a
      BY <1>6, <2>3, <3>0, <3>2
    <3>3. CASE m \in D /\ m = a
      <4>1. u[a][s] = n /\ u[a][Mirror(s)] = t[a][Mirror(s)]
        BY <1>7, <3>3
      <4>2. t[a][Mirror(s)] \in D \cup {NULL}
        BY <3>3, Fieldwise, MirrorFacts
      <4>3. \/ u[a].left = n /\ u[a].right = t[a][Mirror(s)]
            \/ u[a].right = n /\ u[a].left = t[a][Mirror(s)]
        BY <4>1 DEF Sides, Mirror
      <4>. QED
        BY <2>3, <3>3, <4>2, <4>3
    <3>. QED
      BY <3>1, <3>2, <3>3
  <2>4. ASSUME NEW m \in E
        PROVE  Parent_OK(u, E, r1, m)
    <3>1. CASE m = n
      BY <1>4, <1>5, <1>7, <3>1 DEF Parent_OK
    <3>2. CASE m \in D
      <4> DEFINE q == t[m].parent
      <4>1. /\ u[m].parent = q
            /\ q = NULL => m = r
            /\ q # NULL => q \in D /\ \E z \in Sides : t[q][z] = m
        BY <1>8, <3>2 DEF Links, Parent_OK
      <4>2. q = NULL => m = r1
        BY <3>2, <4>1
      <4>3. q # NULL => \E z \in Sides : u[q][z] = m
        <5>1. CASE q # NULL /\ q # a
          BY <1>6, <4>1, <5>1
        <5>2. CASE q # NULL /\ q = a
          <6>1. PICK z \in Sides : t[a][z] = m
            BY <4>1, <5>2
          <6>2. z = Mirror(s)
            BY <3>2, <5>2, <6>1 DEF Sides, Mirror
          <6>. QED
            BY <1>7, <5>2, <6>1, <6>2
        <5>. QED
          BY <5>1, <5>2
      <4> HIDE DEF q
      <4>. QED
        BY <4>1, <4>2, <4>3 DEF Parent_OK
    <3>. QED
      BY <3>1, <3>2
  <2>. QED
    BY <2>1, <2>2, <2>3, <2>4 DEF Links
<1>11. OrderlyBut(u, E, a)
  <2>0. \A m \in D \cup {NULL} : avl_height(u, m) = avl_height(t, m) /\ avl_size(u, m) = avl_size(t, m)
    BY <1>8 DEF avl_height, avl_size
  <2>1. ASSUME NEW m \in E, m # a
        PROVE  Fresh(u, m)
    <3>1. CASE m = n
      BY <1>4, <1>5, <3>1 DEF Fresh, Updated, avl_height, avl_size, Larger
    <3>2. CASE m \in D
      <4>1. t[m].left \in D \cup {NULL} /\ t[m].right \in D \cup {NULL} /\ Fresh(t, m) /\ u[m] = t[m]
        BY <1>6, <2>1, <3>2, Fieldwise
      <4>. QED
        BY <2>0, <4>1 DEF Fresh, Updated
    <3>. QED
      BY <3>1, <3>2
  <2>2. ASSUME a # NULL
        PROVE  OneChanged(u, a)
    <3> DEFINE k == t[a][Mirror(s)]
    <3>1. a \in D /\ k \in D \cup {NULL} /\ Fresh(t, a)
      BY <2>2, Fieldwise, MirrorFacts
    <3>2. /\ t[a].height = 1 + Larger(avl_height(t, NULL), avl_height(t, k))
          /\ avl_height(t, NULL) - avl_height(t, k) \in -1 .. 1
          /\ avl_height(t, k) \in Nat
      BY <2>2, <3>1, SideBySide
    <3>3. /\ u[a].height = t[a].height /\ u[a][s] = n /\ u[a][Mirror(s)] = k
          /\ avl_height(u, n) = 1 /\ avl_height(u, k) = avl_height(t, k) /\ avl_height(t, NULL) = 0
      BY <1>4, <1>5, <1>7, <2>0, <2>2, <3>1 DEF avl_height
    <3> HIDE DEF k
    <3>4. \E l, i \in Nat :
             /\ u[a].height = 1 + Larger(l, i) /\ l - i \in -1 .. 1
             /\ \/ avl_height(u, n) = l /\ avl_height(u, k) - i \in -1 .. 1
                \/ avl_height(u, k) = i /\ avl_height(u, n) - l \in -1 .. 1
      <4>1. 0 \in Nat /\ avl_height(t, k) \in Nat /\ avl_height(u, n) - 0 \in -1 .. 1
        BY <3>2, <3>3
      <4>. QED
        BY <3>2, <3>3, <4>1
    <3>5. a \in E /\ NULL \notin E
      BY <3>1
    <3>. QED
      BY <1>5, <3>3, <3>4, <3>5, SideBySide
  <2>. QED
    BY <2>1, <2>2 DEF OrderlyBut
<1>12. /\ u[n] = [New EXCEPT !.parent = a]
       /\ a # NULL => /\ u[a][s] = n /\ u[a][Mirror(s)] = t[a][Mirror(s)]
                     /\ u[a].parent = t[a].parent
  BY <1>5, <1>7 DEF new
<1>13. InsertionOf(D, t, r, n, a, s, u)
  BY <1>5, <1>6, <1>10, <1>11, <1>12 DEF InsertionOf
<1>. QED
  BY <1>13 DEF u

(* Taking away a node that nothing refers to changes nothing else. *)
LEMMA WithoutFacts ==
  ASSUME NEW D, NULL \notin D, NEW t \in Trees(D), NEW n \in D, NEW r,
         Links(t, D \ {n}, r), NEW p, OrderlyBut(t, D \ {n}, p), p \in D \ {n} \/ p = NULL
  PROVE  /\ Without(t, n) \in Trees(D \ {n})
         /\ Links(Without(t, n), D \ {n}, r)
         /\ OrderlyBut(Without(t, n), D \ {n}, p)
         /\ \A m \in D \ {n} : Without(t, n)[m] = t[m]
<1> DEFINE M == D \ {n}
           u == Without(t, n)
<1>1. u = [m \in M |-> t[m]]
  BY DEF Without, Trees
<1> HIDE DEF u
<1>2. \A m \in M : u[m] = t[m]
  BY <1>1
<1>3. \A m \in M : t[m].left \in M \cup {NULL} /\ t[m].right \in M \cup {NULL}
  <2>1. \A m \in M, s \in Sides : t[m][s] # NULL => t[m][s] \in M
    BY DEF Links, Child_OK
  <2>. QED
    BY <2>1 DEF Sides
<1>4. \A m \in M : t[m].parent \in M \cup {NULL}
  BY DEF Links, Parent_OK
<1>5. u \in Trees(M)
  <2>1. \A m \in M : t[m] \in Fields(M)
    BY <1>3, <1>4 DEF Trees, Fields
  <2>. QED
    BY <1>1, <2>1 DEF Trees
<1>6. Links(u, M, r)
  BY <1>2, SameLinks
<1>7. \A m \in M \cup {NULL} : avl_height(u, m) = avl_height(t, m) /\ avl_size(u, m) = avl_size(t, m)
  BY <1>2 DEF avl_height, avl_size
<1>8. \A m \in M : Fresh(t, m) => Fresh(u, m)
  BY <1>2, <1>3, <1>7 DEF Fresh, Updated
<1>9. \A m \in M : OneChanged(t, m) => OneChanged(u, m)
  BY <1>2, <1>3, <1>7 DEF OneChanged
<1>10. OrderlyBut(u, M, p)
  BY <1>8, <1>9 DEF OrderlyBut
<1>. QED
  BY <1>2, <1>5, <1>6, <1>10 DEF u

(* The victim takes the place of the node. *)
Renamed(n, v, m) == IF m = n THEN v ELSE m

(* u is t with v in the place of n. *)
SwapOf(D, t, n, v, u) ==
  /\ u \in Trees(D)
  /\ \A m \in D \ {v} :
       LET k == Renamed(n, v, m)
       IN /\ u[k].parent = Renamed(n, v, t[m].parent)
          /\ \A s \in Sides : u[k][s] = Renamed(n, v, t[m][s])
          /\ u[k].left = Renamed(n, v, t[m].left)
          /\ u[k].right = Renamed(n, v, t[m].right)
          /\ u[k].height = t[m].height /\ u[k].size = t[m].size

(* The copies of the last step of avl_del() *)
Swapped(t, n, v) ==
  IF t[n].parent = NULL THEN Copied(t, v, n)
  ELSE [Copied(t, v, n) EXCEPT ![t[n].parent][From(t, n)] = v]

(* avl_del() copies the links and the counts of the node into its victim. *)
LEMMA SwappedFacts ==
  ASSUME NEW D, NULL \notin D, NEW t \in Trees(D), NEW v \in D, NEW r, Links(t, D \ {v}, r),
         \A m \in D \ {v} : Fresh(t, m), NEW n \in D \ {v}
  PROVE  SwapOf(D, t, n, v, Swapped(t, n, v))
<1> DEFINE M == D \ {v}
           p == t[n].parent
           f == From(t, n)
           l == t[n].left
           q == t[n].right
           a == [t EXCEPT ![v] = t[n]]
           b == SetParent(a, l, v)
           c == SetParent(b, q, v)
           u == Swapped(t, n, v)
<1>1. \A m \in M, s \in Sides : t[m][s] # NULL =>
         /\ t[m][s] \in M /\ t[m][s] # m /\ t[t[m][s]].parent = m
         /\ t[t[m][s]].height < t[m].height
  BY Lower DEF Links, Child_OK
<1>2. \A m \in M : /\ t[m].height \in Nat /\ t[m].parent \in M \cup {NULL}
                   /\ t[m].left = t[m]["left"] /\ t[m].right = t[m]["right"]
                   /\ t[m].left # NULL => t[m].left # t[m].right
  BY Fieldwise DEF Links, Parent_OK
<1>3. p # NULL => /\ f \in Sides /\ p \in M /\ p # n /\ t[p][f] = n /\ t[p][Mirror(f)] # n
                  /\ t[n].height < t[p].height
  <2>1. p # NULL => SideOfParent(t, M, n)
    BY FromFacts
  <2>2. p # NULL => f \in Sides /\ p \in M /\ p # n /\ t[p][f] = n /\ t[p][Mirror(f)] # n
    BY <2>1 DEF SideOfParent
  <2>. QED
    BY <1>1, <2>2
<1>4. \A x \in {l, q} : x # NULL =>
        x \in M /\ x # n /\ x # p /\ t[x].parent = n /\ t[x].height < t[n].height
  <2>1. \A x \in {l, q} : x # NULL => x \in M /\ x # n /\ t[x].parent = n /\ t[x].height < t[n].height
    BY <1>1, <1>2 DEF Sides
  <2>. QED
    BY <1>2, <1>3, <2>1
<1>5. l # NULL => l # q
  BY <1>2
<1>6. u = IF p = NULL THEN c ELSE [c EXCEPT ![p][f] = v]
  BY DEF Swapped, Copied
<1>7. /\ a \in Trees(D) /\ a[v] = t[n]
      /\ \A m \in M : a[m] = t[m]
  BY DEF Trees
<1>8. t[n].parent = p /\ t[n].left = l /\ t[n].right = q
  OBVIOUS
<1> HIDE DEF a, p, f, l, q
<1>9. /\ b \in Trees(D)
      /\ \A m \in D : m # l => b[m] = a[m]
      /\ l # NULL => /\ b[l].parent = v /\ b[l].left = a[l].left /\ b[l].right = a[l].right
                    /\ b[l].height = a[l].height /\ b[l].size = a[l].size
  BY <1>4, <1>7 DEF SetParent, Trees, Fields
<1> HIDE DEF b
<1>10. /\ c \in Trees(D)
       /\ \A m \in D : m # q => c[m] = b[m]
       /\ q # NULL => /\ c[q].parent = v /\ c[q].left = b[q].left /\ c[q].right = b[q].right
                     /\ c[q].height = b[q].height /\ c[q].size = b[q].size
  BY <1>4, <1>9 DEF SetParent, Trees, Fields
<1> HIDE DEF c, u
<1>11. /\ \A m \in M : /\ c[m].left = t[m].left /\ c[m].right = t[m].right
                       /\ c[m].height = t[m].height /\ c[m].size = t[m].size
       /\ \A m \in M \ {l, q} : c[m].parent = t[m].parent
       /\ l # NULL => c[l].parent = v
       /\ q # NULL => c[q].parent = v
       /\ c[v] = t[n]
  BY <1>4, <1>5, <1>7, <1>9, <1>10
<1>12. /\ u \in Trees(D)
       /\ \A m \in D : m # p => u[m] = c[m]
       /\ p # NULL => /\ u[p][f] = v /\ u[p][Mirror(f)] = t[p][Mirror(f)]
                     /\ u[p].parent = c[p].parent
                     /\ u[p].height = c[p].height /\ u[p].size = c[p].size
  <2>1. CASE p = NULL
    BY <1>6, <1>10, <2>1
  <2>2. CASE p # NULL
    <3>1. u = [c EXCEPT ![p][f] = v] /\ p \in D /\ p \in M
      BY <1>3, <1>6, <2>2
    <3>2. f \in Sides /\ Mirror(f) # f /\ Mirror(f) \in Sides /\ f \notin {"parent", "height", "size"}
      BY <1>3, <2>2, MirrorFacts
    <3>3. u \in Trees(D)
      BY <1>10, <3>1, <3>2 DEF Trees, Fields, Sides
    <3>4. c[p][Mirror(f)] = t[p][Mirror(f)]
      BY <1>11, <3>1, <3>2 DEF Sides
    <3>. QED
      BY <1>10, <3>1, <3>2, <3>3, <3>4 DEF Trees, Fields, Sides
  <2>. QED
    BY <2>1, <2>2
<1>13. /\ v \notin M /\ v # NULL /\ n # v /\ n \in M /\ p # v /\ n # NULL
       /\ \A m \in M : m # v /\ m # NULL
  BY <1>3
<1>14. p = NULL \/ p \in M
  BY <1>3
<1>15. \A m \in M : m # n => \A s \in Sides : t[m][s] = n => m = p /\ s = f
  <2>1. \A m \in M, s \in Sides : t[m][s] = n => m = p
    BY <1>1, <1>8, <1>13
  <2>2. p # NULL => \A s \in Sides : s # f => s = Mirror(f)
    BY <1>3, MirrorFacts DEF Sides, Mirror
  <2>. QED
    BY <1>3, <1>13, <2>1, <2>2
<1>16. ASSUME NEW m \in M
       PROVE  \A s \in Sides : u[Renamed(n, v, m)][s] = Renamed(n, v, t[m][s])
  <2>1. CASE m = n
    <3>1. u[v] = t[n]
      BY <1>11, <1>12, <1>13
    <3>2. \A s \in Sides : t[n][s] # n
      BY <1>1, <1>13
    <3>. QED
      BY <2>1, <3>1, <3>2 DEF Renamed
  <2>2. CASE m # n /\ m # p
    <3>1. u[m].left = t[m].left /\ u[m].right = t[m].right
      BY <1>11, <1>12, <2>2
    <3>. QED
      BY <1>15, <2>2, <3>1 DEF Renamed, Sides
  <2>3. CASE m # n /\ m = p
    <3>1. f \in Sides /\ p # NULL /\ p \in M
      BY <1>3, <1>13, <2>3
    <3>2. \A s \in Sides : s = f \/ s = Mirror(f)
      BY <3>1 DEF Sides, Mirror
    <3>3. t[p][f] = n /\ t[p][Mirror(f)] # n /\ u[p][f] = v /\ u[p][Mirror(f)] = t[p][Mirror(f)]
      BY <1>3, <1>12, <3>1
    <3>. QED
      BY <2>3, <3>2, <3>3 DEF Renamed
  <2>. QED
    BY <2>1, <2>2, <2>3
<1>17. \A m \in M : /\ u[Renamed(n, v, m)].left = Renamed(n, v, t[m].left)
                    /\ u[Renamed(n, v, m)].right = Renamed(n, v, t[m].right)
  BY <1>16 DEF Sides
<1>18. ASSUME NEW m \in M
       PROVE  LET k == Renamed(n, v, m)
              IN /\ u[k].parent = Renamed(n, v, t[m].parent)
                 /\ u[k].height = t[m].height /\ u[k].size = t[m].size
  <2>1. CASE m = n
    <3>1. u[v] = t[n]
      BY <1>11, <1>12, <1>13
    <3>2. p # n
      BY <1>3, <1>13
    <3>. QED
      BY <1>8, <2>1, <3>1, <3>2 DEF Renamed
  <2>2. CASE m # n
    <3>1. u[m].height = t[m].height /\ u[m].size = t[m].size /\ u[m].parent = c[m].parent
      BY <1>11, <1>12
    <3>2. c[m].parent = Renamed(n, v, t[m].parent)
      <4>1. CASE m \in {l, q}
        BY <1>4, <1>11, <1>13, <4>1 DEF Renamed
      <4>2. CASE m \notin {l, q}
        <5>1. t[m].parent # n
          <6>1. t[m].parent # NULL => \E s \in Sides : t[t[m].parent][s] = m
            BY DEF Links, Parent_OK
          <6>. QED
            BY <1>8, <1>13, <4>2, <6>1 DEF Sides
        <5>. QED
          BY <1>11, <4>2, <5>1 DEF Renamed
      <4>. QED
        BY <4>1, <4>2
    <3>. QED
      BY <2>2, <3>1, <3>2 DEF Renamed
  <2>. QED
    BY <2>1, <2>2
<1>19. SwapOf(D, t, n, v, u)
  BY <1>12, <1>16, <1>17, <1>18 DEF SwapOf
<1>. QED
  BY <1>19 DEF u

(* With the victim in the place of the node the links and the heights are  *)
(* right.                                                                  *)
LEMMA SwapFacts ==
  ASSUME NEW D, NULL \notin D, NEW t \in Trees(D), NEW v \in D, NEW r, Links(t, D \ {v}, r),
         \A m \in D \ {v} : Fresh(t, m), NEW n \in D \ {v}, NEW u, SwapOf(D, t, n, v, u)
  PROVE  /\ Links(u, D \ {n}, IF t[n].parent = NULL THEN v ELSE r)
         /\ OrderlyBut(u, D \ {n}, NULL)
<1> DEFINE M == D \ {v}
           E == D \ {n}
           R(m) == Renamed(n, v, m)
           r1 == IF t[n].parent = NULL THEN v ELSE r
<1>1. /\ \A m \in M : R(m) \in E
      /\ \A k \in E : \E m \in M : k = R(m)
      /\ R(NULL) = NULL /\ v # NULL
      /\ \A m \in M : R(m) # NULL
      /\ \A m1, m2 \in M \cup {NULL} : R(m1) = R(m2) => m1 = m2
  BY DEF Renamed
<1>2. \A m \in M : /\ u[R(m)].parent = R(t[m].parent)
                   /\ \A s \in Sides : u[R(m)][s] = R(t[m][s])
                   /\ u[R(m)].left = R(t[m].left) /\ u[R(m)].right = R(t[m].right)
                   /\ u[R(m)].height = t[m].height /\ u[R(m)].size = t[m].size
  BY DEF SwapOf
<1>3. r1 = R(r)
  <2>1. t[n].parent = NULL => r = n
    BY DEF Links, Parent_OK
  <2>2. r = n => t[n].parent = NULL
    BY DEF Links
  <2>. QED
    BY <2>1, <2>2 DEF Renamed
<1> HIDE DEF R, r1
<1>4. \A m \in M : /\ \A s \in Sides : Child_OK(t, M, m, s)
                   /\ t[m].left # NULL => t[m].left # t[m].right
                   /\ Parent_OK(t, M, r, m)
                   /\ t[m].left \in M \cup {NULL} /\ t[m].right \in M \cup {NULL}
  <2>1. \A m \in M : /\ \A s \in Sides : Child_OK(t, M, m, s)
                     /\ t[m].left # NULL => t[m].left # t[m].right
                     /\ Parent_OK(t, M, r, m)
    BY DEF Links
  <2>. QED
    BY <2>1 DEF Child_OK, Sides
<1>5. \A m \in M, s \in Sides : Child_OK(u, E, R(m), s)
  BY <1>1, <1>2, <1>4 DEF Child_OK
<1>6. \A m \in M : u[R(m)].left # NULL => u[R(m)].left # u[R(m)].right
  BY <1>1, <1>2, <1>4
<1>7. ASSUME NEW m \in M
      PROVE  Parent_OK(u, E, r1, R(m))
  <2>1. t[m].parent = NULL => R(m) = r1
    BY <1>3, <1>4 DEF Parent_OK
  <2>2. u[R(m)].parent # NULL => t[m].parent # NULL
    BY <1>1, <1>2
  <2>3. t[m].parent # NULL => R(t[m].parent) \in E /\ \E s \in Sides : u[R(t[m].parent)][s] = R(m)
    BY <1>1, <1>2, <1>4 DEF Parent_OK
  <2>4. t[m].parent # NULL => u[R(m)].parent # NULL
    BY <1>1, <1>2, <1>4 DEF Parent_OK
  <2>. QED
    BY <1>2, <2>1, <2>2, <2>3, <2>4 DEF Parent_OK
<1>8. r1 # NULL => r1 \in E /\ u[r1].parent = NULL
  <2>1. r # NULL => r \in M /\ t[r].parent = NULL
    BY DEF Links
  <2>. QED
    BY <1>1, <1>2, <1>3, <2>1
<1>9. Links(u, E, r1)
  <2>1. \A k \in E : /\ \A s \in Sides : Child_OK(u, E, k, s)
                     /\ u[k].left # NULL => u[k].left # u[k].right
                     /\ Parent_OK(u, E, r1, k)
    <3> TAKE k \in E
    <3>1. PICK m \in M : k = R(m)
      BY <1>1
    <3>. QED
      BY <1>5, <1>6, <1>7, <3>1
  <2>. QED
    BY <1>8, <2>1 DEF Links
<1>10. \A m \in M \cup {NULL} : avl_height(u, R(m)) = avl_height(t, m) /\ avl_size(u, R(m)) = avl_size(t, m)
  BY <1>1, <1>2 DEF avl_height, avl_size
<1>11. \A m \in M : Fresh(u, R(m))
  BY <1>2, <1>4, <1>10 DEF Fresh, Updated
<1>12. OrderlyBut(u, E, NULL)
  BY <1>1, <1>11 DEF OrderlyBut
<1>. QED
  BY <1>9, <1>12 DEF r1

(* A node that is in order is passed without any change. *)
LEMMA StepFresh ==
  ASSUME NEW D, NULL \notin D, NEW t \in Trees(D), NEW M \in SUBSET D, NEW r, Links(t, M, r),
         NEW n \in M, Fresh(t, n)
  PROVE  Step(t, n) = t /\ Top(t, n) = n
<1>1. t \in [D -> Fields(D)] /\ n \in D
  BY DEF Trees
<1>2. avl_update(t, n) = t
  BY <1>1 DEF avl_update, Fresh, Updated, Fields
<1>3. avl_height(t, t[n].left) \in Nat /\ avl_height(t, t[n].right) \in Nat
  BY Fieldwise, HeightType
<1>4. TooHigh(t, n) = {}
  BY <1>3 DEF TooHigh, Mirror, Fresh
<1>5. Fixed(t, n) = [tree |-> t, top |-> n]
  BY <1>4 DEF Fixed
<1>6. t[n].parent # NULL => SideOfParent(t, M, n)
  BY FromFacts
<1>7. t[n].parent # NULL => t[n].parent \in D /\ From(t, n) \in Sides /\ t[t[n].parent][From(t, n)] = n
  BY <1>6 DEF SideOfParent
<1>8. t[n].parent # NULL => [t EXCEPT ![t[n].parent][From(t, n)] = n] = t
  BY <1>1, <1>7 DEF Fields, Sides
<1>. QED
  BY <1>2, <1>5, <1>8 DEF Step, Top

(* Detached nodes keep their links. *)
LEMMA StepOthers ==
  ASSUME NEW D, NULL \notin D, NEW t \in Trees(D), NEW M \in SUBSET D, NEW r, Links(t, M, r),
         NEW n \in M, AllBut(t, M, n)
  PROVE  \A m \in D \ M : Step(t, n)[m].left = t[m].left /\ Step(t, n)[m].right = t[m].right
<1> DEFINE v == avl_update(t, n)
           p == t[n].parent
           Same(u) == \A m \in D \ M : u[m].left = t[m].left /\ u[m].right = t[m].right
<1>0. v = avl_update(t, n)
  OBVIOUS
<1>1. \A m \in D \ {n} : v[m] = t[m]
  BY UpdateFacts
<1> HIDE DEF v
<1>2. /\ v \in Trees(D) /\ Links(v, M, r) /\ v[n].parent = t[n].parent
      /\ TooHigh(v, n) = {} => Step(t, n) = v /\ Top(t, n) = n
      /\ TooHigh(v, n) # {} =>
           \E side \in TooHigh(v, n), c \in M \ {n} :
              \E w \in Trees(D) :
                /\ side \in Sides /\ c = v[n][side]
                /\ Bent(v, n, side) => CanRotate(v, c, side) /\ w = Rotated(v, c, side)
                /\ ~Bent(v, n, side) => w = v
                /\ Links(w, M, r) /\ w[n].parent = t[n].parent
                /\ t[n].parent # NULL => /\ w[t[n].parent].left = t[t[n].parent].left
                                        /\ w[t[n].parent].right = t[t[n].parent].right
                /\ CanRotate(w, n, Mirror(side))
                /\ Step(t, n) = Rotated(w, n, Mirror(side)) /\ Top(t, n) = w[n][side]
  BY <1>0, StepCases
<1>3. Same(v)
  BY <1>1
<1>4. ASSUME NEW w \in Trees(D), Links(w, M, r), Same(w), NEW k \in M, NEW side \in Sides,
             CanRotate(w, k, side)
      PROVE  Same(Rotated(w, k, side))
  <2>1. RotationOf(D, w, M, r, k, side, Rotated(w, k, side))
    BY <1>4, RotatedFacts
  <2>2. w[k].parent # NULL => w[k].parent \in M
    BY <1>4 DEF Links, Parent_OK
  <2>3. \A m \in D \ M : m # k /\ m # w[k].parent /\ m # w[k][Mirror(side)]
    <3>1. w[k][Mirror(side)] \in M
      BY <2>1 DEF RotationOf
    <3>. QED
      BY <1>4, <2>2, <3>1
  <2>4. \A m \in D \ {k, w[k][Mirror(side)], w[k].parent} :
           /\ Rotated(w, k, side)[m].left = w[m].left
           /\ Rotated(w, k, side)[m].right = w[m].right
    BY <2>1 DEF RotationOf
  <2>. QED
    BY <1>4, <2>3, <2>4
<1>5. CASE TooHigh(v, n) = {}
  BY <1>2, <1>3, <1>5
<1>6. CASE TooHigh(v, n) # {}
  <2>1. PICK side \in TooHigh(v, n), c \in M \ {n} :
              \E w \in Trees(D) :
                /\ side \in Sides
                /\ Bent(v, n, side) => CanRotate(v, c, side) /\ w = Rotated(v, c, side)
                /\ ~Bent(v, n, side) => w = v
                /\ Links(w, M, r)
                /\ CanRotate(w, n, Mirror(side))
                /\ Step(t, n) = Rotated(w, n, Mirror(side))
    BY <1>2, <1>6
  <2>2. PICK w \in Trees(D) :
                /\ side \in Sides
                /\ Bent(v, n, side) => CanRotate(v, c, side) /\ w = Rotated(v, c, side)
                /\ ~Bent(v, n, side) => w = v
                /\ Links(w, M, r)
                /\ CanRotate(w, n, Mirror(side))
                /\ Step(t, n) = Rotated(w, n, Mirror(side))
    BY <2>1
  <2>3. Same(w)
    <3>1. CASE Bent(v, n, side)
      BY <1>2, <1>3, <1>4, <2>2, <3>1
    <3>. QED
      BY <1>3, <2>2, <3>1
  <2>4. Mirror(side) \in Sides
    BY <2>2, MirrorFacts
  <2>. QED
    BY <1>4, <2>2, <2>3, <2>4
<1>. QED
  BY <1>5, <1>6

-----------------------------------------------------------------------------
(* The nodes that the root reaches: all but a victim that is detached *)
Linked == DOMAIN tree \ {victim}

(* The nodes, and the links of the linked ones *)
Shape ==
  /\ DOMAIN tree \subseteq Nodes
  /\ tree \in Trees(DOMAIN tree)
  /\ Links(tree, Linked, root)

(* What the loops have in hand *)
Loops ==
  /\ pc \in {"idle", "search", "easy", "seek", "fix", "swap"}
  /\ pc \in {"fix", "seek"} => at \in Linked
  /\ pc \in {"idle", "easy", "swap"} => at = NULL
  /\ pc = "idle" \/ (pc = "fix" /\ victim = NULL) => moving = NULL
  /\ pc = "search" => at \in DOMAIN tree \cup {NULL} /\ moving \in Nodes \ DOMAIN tree
  /\ pc \in {"idle", "search", "easy"} => victim = NULL
  /\ pc = "easy" => /\ moving \in DOMAIN tree
                    /\ NULL \in {tree[moving].left, tree[moving].right}
  /\ pc = "seek" => /\ victim = NULL /\ moving \in DOMAIN tree
                    /\ tree[at].parent # NULL /\ tree[at].height < tree[moving].height
  /\ pc = "swap" => victim # NULL
  /\ victim # NULL => /\ victim \in DOMAIN tree /\ moving \in Linked
                      /\ tree[victim].left = NULL

(* In the loop of avl_fix() the node that comes next or its parent is one  *)
(* change away from being in order.                                        *)
Heights ==
  /\ pc # "fix" => OrderlyBut(tree, Linked, NULL)
  /\ pc = "fix" => \E x \in {at, tree[at].parent} : OrderlyBut(tree, Linked, x)

(* The inductive invariant of the tree's shape and heights *)
IInv == Shape /\ Loops /\ Heights

(* NULL is no node. *)
LEMMA NullFacts ==
  ASSUME DOMAIN tree \subseteq Nodes
  PROVE  NULL \notin DOMAIN tree /\ Linked \subseteq DOMAIN tree /\ (victim = NULL => Linked = DOMAIN tree)
BY AvlAssumption DEF Linked

(* The empty tree is in shape. *)
LEMMA InitIInv == Init => IInv
<1> SUFFICES ASSUME Init PROVE IInv
  OBVIOUS
<1>1. DOMAIN tree = {} /\ tree \in [{} -> Fields({})]
  BY DEF Init
<1>2. Linked = {}
  BY <1>1 DEF Linked
<1>3. Shape
  BY <1>1, <1>2 DEF Shape, Trees, Links, Init
<1>4. Loops
  BY DEF Init, Loops
<1>5. Heights
  BY <1>2 DEF Init, Heights, OrderlyBut
<1>. QED
  BY <1>3, <1>4, <1>5 DEF IInv

(* An iteration of avl_fix() *)
LEMMA FixKeepsIInv ==
  ASSUME IInv, avl_fix
  PROVE  IInv'
<1> DEFINE D == DOMAIN tree
           p == tree[at].parent
           top == Top(tree, at)
<1>1. /\ NULL \notin D /\ Linked \in SUBSET D /\ tree \in Trees(D) /\ D \subseteq Nodes
      /\ Links(tree, Linked, root)
  BY NullFacts DEF IInv, Shape
<1>2. pc = "fix" /\ at \in Linked
  BY DEF IInv, Loops, avl_fix
<1>3. /\ tree' = Step(tree, at) /\ at' = p
      /\ p = NULL => root' = top /\ pc' = (IF victim = NULL THEN "idle" ELSE "swap")
      /\ p # NULL => root' = root /\ pc' = "fix"
      /\ moving' = moving /\ victim' = victim
  BY <1>2 DEF avl_fix, Step, Top
<1>4. PICK x \in {at, p} : OrderlyBut(tree, Linked, x)
  BY <1>2 DEF IInv, Heights
<1>5. p # NULL => p \in Linked /\ p # at
  <2>1. p # NULL => SideOfParent(tree, Linked, at)
    BY <1>1, <1>2, FromFacts
  <2>. QED
    BY <2>1 DEF SideOfParent
<1>6. /\ tree' \in Trees(D)
      /\ Links(tree', Linked, IF p = NULL THEN top ELSE root)
      /\ OrderlyBut(tree', Linked, p)
      /\ \A m \in D \ Linked : tree'[m].left = tree[m].left
  <2>1. CASE x = at
    <3>1. AllBut(tree, Linked, at)
      BY <1>1, <1>2, <1>4, <2>1 DEF OrderlyBut, AllBut
    <3>2. Stepped(D, tree, Linked, root, at, Step(tree, at), top)
      BY <1>1, <1>2, <3>1, StepFacts
    <3>3. \A m \in D \ Linked : tree'[m].left = tree[m].left
      BY <1>1, <1>2, <1>3, <3>1, StepOthers
    <3>. QED
      BY <1>3, <3>2, <3>3 DEF Stepped
  <2>2. CASE x = p
    <3>1. at # p
      BY <1>1, <1>2, <1>5
    <3>2. Fresh(tree, at)
      BY <1>2, <1>4, <2>2, <3>1 DEF OrderlyBut
    <3>3. tree' = tree /\ top = at
      BY <1>1, <1>2, <1>3, <3>2, StepFresh
    <3>4. p = NULL => root = at
      BY <1>1, <1>2 DEF Links, Parent_OK
    <3>. QED
      BY <1>1, <1>4, <2>2, <3>3, <3>4
  <2>. QED
    BY <2>1, <2>2
<1> HIDE DEF p, top
<1>7. DOMAIN tree' = D /\ Linked' = Linked
  BY <1>3, <1>6 DEF Trees, Linked
<1>8. Links(tree', Linked', root')
  BY <1>3, <1>6, <1>7
<1>9. Shape'
  BY <1>1, <1>6, <1>7, <1>8 DEF Shape
<1>10. Loops'
  BY <1>2, <1>3, <1>5, <1>6, <1>7 DEF IInv, Loops, Linked
<1>11. Heights'
  BY <1>3, <1>6, <1>7 DEF Heights
<1>. QED
  BY <1>9, <1>10, <1>11 DEF IInv

(* The search leaves the tree alone, *)
LEMMA SearchKeepsIInv ==
  ASSUME IInv, NEW n \in Nodes, tree_insert(n) \/ Search
  PROVE  IInv'
<1> DEFINE D == DOMAIN tree
<1>1. /\ NULL \notin D /\ Linked = D /\ tree \in Trees(D) /\ D \subseteq Nodes /\ victim = NULL
      /\ Links(tree, Linked, root) /\ OrderlyBut(tree, Linked, NULL)
      /\ pc \in {"idle", "search"}
  BY NullFacts DEF IInv, Shape, Loops, Heights, tree_insert, Search
<1>2. tree' = tree /\ root' = root /\ victim' = victim /\ pc' = "search" /\ Linked' = Linked
  BY DEF tree_insert, Search, Linked
<1>3. at' \in D \cup {NULL} /\ moving' \in Nodes \ D
  <2>1. CASE tree_insert(n)
    BY <2>1 DEF tree_insert, IInv, Loops
  <2>2. CASE Search
    <3>1. at \in D \cup {NULL} /\ moving \in Nodes \ D /\ at' = Place /\ moving' = moving
      BY <2>2 DEF Search, IInv, Loops
    <3>2. root \in D \cup {NULL}
      BY <1>1 DEF Links
    <3>3. at # NULL => tree[at][Side(moving, at)] \in D \cup {NULL}
      BY <1>1, <3>1, Fieldwise DEF Side, Sides
    <3>. QED
      BY <3>1, <3>2, <3>3 DEF Place
  <2>. QED
    BY <2>1, <2>2
<1>. QED
  BY <1>1, <1>2, <1>3 DEF IInv, Shape, Loops, Heights

(* and what it finds is the place for a leaf. *)
LEMMA LinkKeepsIInv ==
  ASSUME IInv, Link
  PROVE  IInv'
<1> DEFINE D == DOMAIN tree
           s == Side(moving, at)
           E == D \cup {moving}
<1>1. /\ NULL \notin D /\ Linked = D /\ tree \in Trees(D) /\ D \subseteq Nodes /\ victim = NULL
      /\ Links(tree, D, root) /\ OrderlyBut(tree, D, NULL)
      /\ pc = "search" /\ at \in D \cup {NULL} /\ moving \in Nodes \ D
  BY NullFacts DEF IInv, Shape, Loops, Heights, Link
<1>2. /\ tree' = Inserted(tree, moving, at, s)
      /\ root' = IF at = NULL THEN moving ELSE root
      /\ pc' = "fix" /\ at' = moving /\ moving' = NULL /\ victim' = NULL
  BY <1>1 DEF Link, Inserted
<1>3. s \in Sides /\ moving # NULL
  BY <1>1, AvlAssumption DEF Side, Sides
<1>4. /\ at = NULL => root = NULL
      /\ at # NULL => tree[at][s] = NULL
  BY DEF Link, Place
<1>5. \A m \in D : Fresh(tree, m)
  BY <1>1 DEF OrderlyBut
<1> HIDE DEF s
<1>6. InsertionOf(D, tree, root, moving, at, s, tree')
  BY <1>1, <1>2, <1>3, <1>4, <1>5, InsertedFacts
<1>7. /\ tree' \in Trees(E) /\ Links(tree', E, root') /\ OrderlyBut(tree', E, at)
      /\ tree'[moving].parent = at
  BY <1>2, <1>6 DEF InsertionOf, New
<1>8. DOMAIN tree' = E /\ Linked' = E
  <2>1. DOMAIN tree' = E
    BY <1>7 DEF Trees
  <2>. QED
    BY <1>1, <1>2, <2>1, AvlAssumption DEF Linked
<1>9. Shape'
  BY <1>1, <1>7, <1>8 DEF Shape
<1>10. Loops'
  BY <1>2, <1>8 DEF Loops
<1>11. Heights'
  BY <1>2, <1>7, <1>8 DEF Heights
<1>. QED
  BY <1>9, <1>10, <1>11 DEF IInv

(* A deletion that begins with avl_del_easy() *)
LEMMA AskEasyKeepsIInv ==
  ASSUME IInv, NEW n \in Nodes, avl_del(n), pc' = "easy"
  PROVE  IInv'
<1>1. /\ pc = "idle" /\ n \in DOMAIN tree /\ moving' = n
      /\ NULL \in {tree[n].left, tree[n].right}
      /\ UNCHANGED <<root, tree, at, victim>>
  BY DEF avl_del
<1>2. at = NULL /\ victim = NULL /\ OrderlyBut(tree, Linked, NULL)
  BY <1>1 DEF IInv, Loops, Heights
<1>3. Linked' = Linked
  BY <1>1 DEF Linked
<1>. QED
  BY <1>1, <1>2, <1>3 DEF IInv, Shape, Loops, Heights

(* keeps it, and so does avl_del_easy(). *)
LEMMA DelEasyKeepsIInv ==
  ASSUME IInv, NEW n \in Nodes, n = moving, avl_del_easy
  PROVE  IInv'
<1> DEFINE D == DOMAIN tree
           p == tree[n].parent
           c == Child(tree, n)
           u == Detached(tree, n)
           r1 == IF p = NULL THEN c ELSE root
<1>1. /\ NULL \notin D /\ Linked = D /\ tree \in Trees(D) /\ D \subseteq Nodes /\ victim = NULL
      /\ Links(tree, D, root) /\ OrderlyBut(tree, D, NULL)
      /\ pc = "easy" /\ n \in D /\ NULL \in {tree[n].left, tree[n].right}
  BY NullFacts DEF IInv, Shape, Loops, Heights, avl_del_easy
<1>2. /\ tree' = Without(u, n) /\ root' = r1
      /\ pc' = (IF p = NULL THEN "idle" ELSE "fix") /\ at' = p
      /\ moving' = NULL /\ victim' = NULL
  BY <1>1 DEF avl_del_easy
<1>3. \A m \in D : Fresh(tree, m)
  BY <1>1 DEF OrderlyBut
<1>4. DetachmentOf(D, tree, D, root, n, u)
  BY <1>1, <1>3, DetachedFacts
<1>5. /\ u \in Trees(D) /\ Links(u, D \ {n}, r1) /\ OrderlyBut(u, D \ {n}, p)
      /\ p # NULL => p \in D \ {n}
  BY <1>4 DEF DetachmentOf
<1> HIDE DEF p, u, r1
<1>6. /\ tree' \in Trees(D \ {n}) /\ Links(tree', D \ {n}, r1) /\ OrderlyBut(tree', D \ {n}, p)
  BY <1>1, <1>2, <1>5, WithoutFacts
<1>7. DOMAIN tree' = D \ {n} /\ Linked' = D \ {n}
  <2>1. DOMAIN tree' = D \ {n}
    BY <1>6 DEF Trees
  <2>. QED
    BY <1>1, <1>2, <2>1 DEF Linked
<1>8. Shape'
  BY <1>1, <1>2, <1>6, <1>7 DEF Shape
<1>9. Loops'
  BY <1>2, <1>5, <1>7 DEF Loops
<1>10. Heights'
  BY <1>2, <1>6, <1>7 DEF Heights
<1>. QED
  BY <1>8, <1>9, <1>10 DEF IInv

(* On the way to a victim the heights fall, so it is another node. *)
LEMMA SeekKeepsIInv ==
  ASSUME IInv, NEW n \in Nodes, (avl_del(n) /\ pc' = "seek") \/ Seek
  PROVE  IInv'
<1> DEFINE D == DOMAIN tree
<1>1. /\ NULL \notin D /\ Linked = D /\ tree \in Trees(D) /\ D \subseteq Nodes /\ victim = NULL
      /\ Links(tree, D, root) /\ OrderlyBut(tree, D, NULL)
      /\ pc \in {"idle", "seek"}
  BY NullFacts DEF IInv, Shape, Loops, Heights, avl_del, Seek
<1>2. tree' = tree /\ root' = root /\ victim' = victim /\ pc' = "seek" /\ Linked' = Linked
  BY DEF avl_del, Seek, Linked
<1>3. \A m \in D, s \in Sides : tree[m][s] # NULL =>
        /\ tree[m][s] \in D /\ tree[tree[m][s]].parent = m
        /\ tree[tree[m][s]].height < tree[m].height
  <2>1. \A m \in D : Fresh(tree, m)
    BY <1>1 DEF OrderlyBut
  <2>. QED
    BY <1>1, <2>1, Lower DEF Links, Child_OK
<1>4. /\ at' \in D /\ moving' \in D
      /\ tree[at'].parent # NULL /\ tree[at'].height < tree[moving'].height
  <2>1. CASE avl_del(n) /\ pc' = "seek"
    <3>1. n \in D /\ moving' = n /\ at' = tree[n].right /\ tree[n].right # NULL
      BY <2>1 DEF avl_del
    <3>. QED
      BY <1>1, <1>3, <3>1 DEF Sides
  <2>2. CASE Seek
    <3>1. /\ at \in D /\ moving \in D /\ moving' = moving
          /\ at' = tree[at].left /\ tree[at].left # NULL
          /\ tree[at].height < tree[moving].height
      BY <1>1, <2>2 DEF Seek, IInv, Loops
    <3>2. tree[at].left \in D /\ tree[tree[at].left].parent = at
          /\ tree[tree[at].left].height < tree[at].height
      BY <1>3, <3>1 DEF Sides
    <3>3. tree[at].height \in Nat /\ tree[moving].height \in Nat /\ tree[tree[at].left].height \in Nat
      BY <1>1, <3>1, <3>2, Fieldwise
    <3>. QED
      BY <1>1, <3>1, <3>2, <3>3
  <2>. QED
    BY <2>1, <2>2
<1>. QED
  BY <1>1, <1>2, <1>4 DEF IInv, Shape, Loops, Heights

(* avl_del() keeps it when it detaches the victim, *)
LEMMA DetachVictimKeepsIInv ==
  ASSUME IInv, DetachVictim
  PROVE  IInv'
<1> DEFINE D == DOMAIN tree
           p == tree[at].parent
<1>1. /\ NULL \notin D /\ Linked = D /\ tree \in Trees(D) /\ D \subseteq Nodes /\ victim = NULL
      /\ Links(tree, D, root) /\ OrderlyBut(tree, D, NULL)
      /\ pc = "seek" /\ at \in D /\ tree[at].left = NULL /\ moving \in D /\ p # NULL
      /\ tree[at].height < tree[moving].height
  BY NullFacts DEF IInv, Shape, Loops, Heights, DetachVictim
<1>2. /\ tree' = Detached(tree, at) /\ root' = root
      /\ pc' = "fix" /\ at' = p /\ moving' = moving /\ victim' = at
  BY DEF DetachVictim
<1>3. \A m \in D : Fresh(tree, m) /\ tree[m].height \in Nat
  BY <1>1, Fieldwise DEF OrderlyBut
<1>4. DetachmentOf(D, tree, D, root, at, tree')
  BY <1>1, <1>2, <1>3, DetachedFacts
<1>5. /\ tree' \in Trees(D) /\ Links(tree', D \ {at}, root) /\ OrderlyBut(tree', D \ {at}, p)
      /\ p \in D \ {at} /\ tree'[at].left = NULL
  BY <1>1, <1>4 DEF DetachmentOf
<1>6. DOMAIN tree' = D /\ Linked' = D \ {at}
  <2>1. DOMAIN tree' = D
    BY <1>5 DEF Trees
  <2>. QED
    BY <1>2, <2>1 DEF Linked
<1>7. moving # at /\ at # NULL
  BY <1>1, <1>3
<1> HIDE DEF p
<1>8. Shape'
  BY <1>1, <1>2, <1>5, <1>6 DEF Shape
<1>9. Loops'
  BY <1>1, <1>2, <1>5, <1>6, <1>7 DEF Loops
<1>10. Heights'
  BY <1>2, <1>5, <1>6 DEF Heights
<1>. QED
  BY <1>8, <1>9, <1>10 DEF IInv

(* and when it puts the victim in the place of the node. *)
LEMMA SwapVictimKeepsIInv ==
  ASSUME IInv, SwapVictim
  PROVE  IInv'
<1> DEFINE D == DOMAIN tree
           E == D \ {moving}
           u == Swapped(tree, moving, victim)
           r1 == IF tree[moving].parent = NULL THEN victim ELSE root
<1>1. /\ NULL \notin D /\ Linked = D \ {victim} /\ tree \in Trees(D) /\ D \subseteq Nodes
      /\ victim \in D /\ moving \in D \ {victim}
      /\ Links(tree, D \ {victim}, root) /\ OrderlyBut(tree, D \ {victim}, NULL)
      /\ pc = "swap" /\ at = NULL
  BY NullFacts DEF IInv, Shape, Loops, Heights, SwapVictim, Linked
<1>2. /\ tree' = Without(u, moving) /\ root' = r1
      /\ pc' = "idle" /\ at' = NULL /\ moving' = NULL /\ victim' = NULL
  BY <1>1 DEF SwapVictim, Swapped
<1>3. \A m \in D \ {victim} : Fresh(tree, m)
  BY <1>1 DEF OrderlyBut
<1>4. SwapOf(D, tree, moving, victim, u)
  BY <1>1, <1>3, SwappedFacts
<1>5. u \in Trees(D)
  BY <1>4 DEF SwapOf
<1>6. Links(u, E, r1) /\ OrderlyBut(u, E, NULL)
  BY <1>1, <1>3, <1>4, SwapFacts
<1> HIDE DEF u, r1
<1>7. tree' \in Trees(E) /\ Links(tree', E, r1) /\ OrderlyBut(tree', E, NULL)
  BY <1>1, <1>2, <1>5, <1>6, WithoutFacts
<1>8. DOMAIN tree' = E /\ Linked' = E
  <2>1. DOMAIN tree' = E
    BY <1>7 DEF Trees
  <2>. QED
    BY <1>1, <1>2, <2>1 DEF Linked
<1>9. Shape'
  BY <1>1, <1>2, <1>7, <1>8 DEF Shape
<1>10. Loops'
  BY <1>2 DEF Loops
<1>11. Heights'
  BY <1>2, <1>7, <1>8 DEF Heights
<1>. QED
  BY <1>9, <1>10, <1>11 DEF IInv

(* Every step keeps it, *)
LEMMA NextKeepsIInv == IInv /\ [Next]_vars => IInv'
<1> SUFFICES ASSUME IInv, [Next]_vars PROVE IInv'
  OBVIOUS
<1>1. CASE avl_fix
  BY <1>1, FixKeepsIInv
<1>2. ASSUME NEW n \in Nodes, tree_insert(n)
      PROVE  IInv'
  BY <1>2, SearchKeepsIInv
<1>3. CASE Search
  <2>1. moving \in Nodes
    BY <1>3 DEF Search, IInv, Loops
  <2>. QED
    BY <1>3, <2>1, SearchKeepsIInv
<1>4. CASE Link
  BY <1>4, LinkKeepsIInv
<1>5. CASE avl_del_easy
  <2>1. moving \in Nodes
    BY <1>5 DEF avl_del_easy, IInv, Loops, Shape
  <2>. QED
    BY <1>5, <2>1, DelEasyKeepsIInv
<1>6. ASSUME NEW n \in Nodes, avl_del(n)
      PROVE  IInv'
  <2>1. pc' \in {"easy", "seek"}
    BY <1>6 DEF avl_del
  <2>. QED
    BY <1>6, <2>1, AskEasyKeepsIInv, SeekKeepsIInv
<1>7. CASE Seek
  <2>1. moving \in Nodes
    BY <1>7 DEF Seek, IInv, Loops, Shape
  <2>. QED
    BY <1>7, <2>1, SeekKeepsIInv
<1>8. CASE DetachVictim
  BY <1>8, DetachVictimKeepsIInv
<1>9. CASE SwapVictim
  BY <1>9, SwapVictimKeepsIInv
<1>10. CASE UNCHANGED vars
  BY <1>10 DEF vars, IInv, Shape, Loops, Heights, Linked
<1>. QED
  BY <1>1, <1>2, <1>3, <1>4, <1>5, <1>6, <1>7, <1>8, <1>9, <1>10 DEF Next

(* so it always holds. *)
LEMMA SpecIInv == Spec => []IInv
BY InitIInv, NextKeepsIInv, PTL DEF Spec

(* A node in order passes avl_verify(). *)
LEMMA FreshIsVerified ==
  ASSUME IInv, NEW n \in Linked, Fresh(tree, n)
  PROVE  Verified(tree, n)
<1>1. /\ Linked \subseteq DOMAIN tree /\ tree \in Trees(DOMAIN tree)
      /\ Links(tree, Linked, root)
  BY NullFacts DEF IInv, Shape
<1>2. tree \in [DOMAIN tree -> Fields(DOMAIN tree)] /\ n \in DOMAIN tree
  BY <1>1 DEF Trees
<1>3. avl_update(tree, n) = tree
  BY <1>2 DEF avl_update, Fresh, Updated, Fields
<1>4. \A s \in Sides : tree[n][s] # NULL => tree[tree[n][s]].parent = n
  BY <1>1 DEF Links, Child_OK
<1>5. \A c \in {tree[n].left, tree[n].right} \ {NULL} : tree[c].parent = n
  BY <1>4 DEF Sides
<1>. QED
  BY <1>3, <1>5 DEF Verified, Fresh

(* It types the variables. *)
LEMMA IInvType == IInv => TypeOK
<1> SUFFICES ASSUME IInv PROVE TypeOK
  OBVIOUS
<1>1. /\ NULL \notin DOMAIN tree /\ Linked \subseteq DOMAIN tree /\ tree \in Trees(DOMAIN tree)
      /\ DOMAIN tree \subseteq Nodes /\ Links(tree, Linked, root)
      /\ victim = NULL => Linked = DOMAIN tree
  BY NullFacts DEF IInv, Shape
<1>2. \A n \in DOMAIN tree :
        /\ {tree[n].parent, tree[n].left, tree[n].right} \subseteq DOMAIN tree \cup {NULL}
        /\ tree[n].height \in Nat /\ tree[n].size \in Nat
  BY <1>1, Fieldwise
<1>3. \A n \in DOMAIN tree : tree[n].left # NULL => tree[n].left # tree[n].right
  <2>1. \A n \in Linked : tree[n].left # NULL => tree[n].left # tree[n].right
    BY <1>1 DEF Links
  <2>2. victim # NULL => tree[victim].left = NULL
    BY DEF IInv, Loops
  <2>3. \A n \in DOMAIN tree : n # victim => n \in Linked
    BY DEF Linked
  <2>. QED
    BY <1>1, <2>1, <2>2, <2>3
<1>4. root \in DOMAIN tree \cup {NULL}
  BY <1>1 DEF Links
<1>5. /\ {at, victim} \subseteq DOMAIN tree \cup {NULL}
      /\ pc \in {"idle", "search", "easy", "seek", "fix", "swap"}
      /\ pc \in {"easy", "seek", "swap"} \/ victim # NULL => moving \in DOMAIN tree
      /\ pc = "search" => moving \in Nodes \ DOMAIN tree
  BY <1>1 DEF IInv, Loops
<1>. QED
  BY <1>1, <1>2, <1>3, <1>4, <1>5 DEF TypeOK

(* Between two operations avl_verify() finds every node in order, however  *)
(* many there are and whatever was inserted and deleted.                   *)
THEOREM BalancedCorrect == Spec => []Balanced
<1>1. IInv => Balanced
  <2> SUFFICES ASSUME IInv PROVE Balanced
    OBVIOUS
  <2>1. TypeOK
    BY IInvType
  <2>2. ASSUME pc = "idle"
        PROVE  (root # NULL => tree[root].parent = NULL) /\ \A n \in DOMAIN tree : Verified(tree, n)
    <3>1. Links(tree, Linked, root) /\ Linked = DOMAIN tree /\ OrderlyBut(tree, Linked, NULL)
          /\ NULL \notin DOMAIN tree
      BY <2>2, NullFacts DEF IInv, Shape, Loops, Heights
    <3>2. \A n \in Linked : Fresh(tree, n)
      BY <3>1 DEF OrderlyBut
    <3>. QED
      BY <3>1, <3>2, FreshIsVerified DEF Links
  <2>. QED
    BY <2>1, <2>2 DEF Balanced
<1>. QED
  BY <1>1, SpecIInv, PTL

(* In each iteration avl_fix() has one node out of order before it, and no *)
(* difference of heights that its rotations cannot make good.              *)
THEOREM OneStepOffCorrect == Spec => []OneStepOff
<1>1. IInv => OneStepOff
  <2> SUFFICES ASSUME IInv, pc = "fix"
               PROVE  /\ avl_height(tree, tree[at].left) - avl_height(tree, tree[at].right) \in -2 .. 2
                      /\ \A n \in DOMAIN tree \ {Unfinished, victim} : Verified(tree, n)
    BY DEF OneStepOff
  <2>1. /\ NULL \notin DOMAIN tree /\ Linked \subseteq DOMAIN tree /\ tree \in Trees(DOMAIN tree)
        /\ Links(tree, Linked, root) /\ at \in Linked
    BY NullFacts DEF IInv, Shape, Loops
  <2>2. PICK x \in {at, tree[at].parent} : OrderlyBut(tree, Linked, x)
    BY DEF IInv, Heights
  <2>3. \A n \in Linked : n # x => Fresh(tree, n)
    BY <2>2 DEF OrderlyBut
  <2>4. \A n \in Linked : n # x => Verified(tree, n)
    BY <2>3, FreshIsVerified
  <2>5. tree[at].parent # at
    <3>1. tree[at].parent # NULL => SideOfParent(tree, Linked, at)
      BY <2>1, FromFacts
    <3>. QED
      BY <2>1, <3>1 DEF SideOfParent
  <2>6. \A n \in DOMAIN tree \ {Unfinished, victim} : Verified(tree, n)
    <3>1. CASE x = at /\ Verified(tree, at)
      BY <2>4, <3>1 DEF Linked
    <3>2. CASE x = at /\ ~Verified(tree, at)
      BY <2>4, <3>2 DEF Linked, Unfinished
    <3>3. CASE x = tree[at].parent
      BY <2>1, <2>4, <2>5, <3>3 DEF Linked, Unfinished
    <3>. QED
      BY <3>1, <3>2, <3>3
  <2>7. avl_height(tree, tree[at].left) - avl_height(tree, tree[at].right) \in -2 .. 2
    <3>1. avl_height(tree, tree[at].left) \in Nat /\ avl_height(tree, tree[at].right) \in Nat
      BY <2>1, Fieldwise, HeightType
    <3>2. CASE at # x
      BY <2>1, <2>3, <3>1, <3>2 DEF Fresh
    <3>3. CASE at = x
      <4>1. OneChanged(tree, at)
        BY <2>1, <2>2, <3>3 DEF OrderlyBut
      <4>. QED
        BY <3>1, <4>1 DEF OneChanged
    <3>. QED
      BY <3>2, <3>3
  <2>. QED
    BY <2>6, <2>7
<1>. QED
  BY <1>1, SpecIInv, PTL

-----------------------------------------------------------------------------
(* The order of the nodes.  B[n] is what the subtree of n holds, where the *)
(* node m counts as k[m].                                                  *)
Before(s, x, y) == IF s = "left" THEN x < y ELSE y < x

(* What the subtree of a node holds, by its children *)
PartOK(t, k, B, n) ==
  /\ B[n] = {k[n]} \cup B[t[n].left] \cup B[t[n].right]
  /\ \A s \in Sides : \A x \in B[t[n][s]] : Before(s, x, k[n])

(* The sets of the subtrees: B[n] is n and what its two children hold, on  *)
(* their sides.                                                            *)
Parts(t, M, r, k, B) ==
  /\ B \in [M \cup {NULL} -> SUBSET {k[n] : n \in M}] /\ B[NULL] = {}
  /\ \A n \in M : k[n] \in Int /\ PartOK(t, k, B, n)
  /\ r \in M \cup {NULL} /\ B[r] = {k[n] : n \in M}

(* To be before is to be less, on the left, or greater, on the right. *)
LEMMA BeforeFacts ==
  ASSUME NEW s \in Sides, NEW x \in Int, NEW y \in Int, NEW z \in Int
  PROVE  /\ Before(s, x, y) /\ Before(s, y, z) => Before(s, x, z)
         /\ Before(Mirror(s), x, y) <=> Before(s, y, x)
         /\ ~Before(s, x, x) /\ ~(Before(s, x, y) /\ Before(s, y, x))
BY DEF Before, Mirror, Sides

(* The same from one side or the other *)
PartAt(t, k, B, n, s) ==
  /\ B[n] = {k[n]} \cup B[t[n][s]] \cup B[t[n][Mirror(s)]]
  /\ \A x \in B[t[n][s]] : Before(s, x, k[n])
  /\ \A x \in B[t[n][Mirror(s)]] : Before(Mirror(s), x, k[n])

(* PartAt is PartOK. *)
LEMMA PartSide ==
  ASSUME NEW t, NEW k, NEW B, NEW n, NEW s \in Sides
  PROVE  PartOK(t, k, B, n) <=> PartAt(t, k, B, n, s)
<1>1. CASE s = "left"
  BY <1>1 DEF PartOK, PartAt, Sides, Mirror
<1>2. CASE s = "right"
  BY <1>2 DEF PartOK, PartAt, Sides, Mirror
<1>. QED
  BY <1>1, <1>2 DEF Sides

(* What Parts says of a node *)
NodeParts(t, M, k, B, n, s) ==
  /\ t[n][s] \in M \cup {NULL}
  /\ k[n] \in Int /\ B[n] \in SUBSET Int /\ B[t[n][s]] \in SUBSET Int
  /\ k[n] \in B[n] /\ B[t[n][s]] \subseteq B[n]
  /\ B[n] = {k[n]} \cup B[t[n][s]] \cup B[t[n][Mirror(s)]]
  /\ \A x \in B[t[n][s]] : Before(s, x, k[n])
  /\ \A x \in B[n] : Before(s, x, k[n]) => x \in B[t[n][s]]

(* What Parts says of each node and of either side. *)
LEMMA PartsFacts ==
  ASSUME NEW D, NULL \notin D, NEW t \in Trees(D), NEW M \in SUBSET D, NEW r, Links(t, M, r),
         NEW k, NEW B, Parts(t, M, r, k, B), NEW n \in M, NEW s \in Sides
  PROVE  NodeParts(t, M, k, B, n, s)
<1>1. t[n][s] \in M \cup {NULL} /\ t[n][Mirror(s)] \in M \cup {NULL}
  BY MirrorFacts DEF Links, Child_OK
<1>2. B \in [M \cup {NULL} -> SUBSET Int] /\ k[n] \in Int /\ PartOK(t, k, B, n)
  <2>1. {k[m] : m \in M} \subseteq Int
    BY DEF Parts
  <2>. QED
    BY <2>1 DEF Parts
<1>3. /\ B[n] = {k[n]} \cup B[t[n][s]] \cup B[t[n][Mirror(s)]]
      /\ \A x \in B[t[n][s]] : Before(s, x, k[n])
      /\ \A x \in B[t[n][Mirror(s)]] : Before(Mirror(s), x, k[n])
  BY <1>2, PartSide DEF PartAt
<1>4. /\ B[n] \in SUBSET Int /\ B[t[n][s]] \in SUBSET Int /\ B[t[n][Mirror(s)]] \in SUBSET Int
  BY <1>1, <1>2
<1>5. \A x \in B[n] : Before(s, x, k[n]) => x \in B[t[n][s]]
  BY <1>2, <1>3, <1>4, BeforeFacts
<1>. QED
  BY <1>1, <1>2, <1>3, <1>4, <1>5 DEF NodeParts

(* A rotation keeps what each subtree holds, but for the two nodes. *)
LEMMA RotatedParts ==
  ASSUME NEW D, NULL \notin D, NEW t \in Trees(D), NEW M \in SUBSET D, NEW r, Links(t, M, r),
         NEW n \in M, NEW side \in Sides, CanRotate(t, n, side),
         NEW u, RotationOf(D, t, M, r, n, side, u), NEW k, NEW B, Parts(t, M, r, k, B)
  PROVE  \E C : Parts(u, M, IF t[n].parent = NULL THEN t[n][Mirror(side)] ELSE r, k, C)
<1> DEFINE p == t[n].parent
           other == Mirror(side)
           new == t[n][other]
           low == t[n][side]
           inner == t[new][side]
           outer == t[new][other]
           r1 == IF p = NULL THEN new ELSE r
           K == {k[m] : m \in M}
           X == {k[n]} \cup B[low] \cup B[inner]
           C == [B EXCEPT ![n] = X, ![new] = B[n]]
<1>0. other \in Sides /\ other # side /\ Mirror(other) = side /\ n # NULL
      /\ \A s \in Sides : s = side \/ s = other
  BY MirrorFacts DEF Sides, Mirror
<1>1. /\ new \in M /\ new # n /\ p # new /\ p # n /\ t[new].parent = n
      /\ u[n][side] = low /\ u[n][other] = inner
      /\ u[new][side] = n /\ u[new][other] = outer
      /\ \A m \in D \ {n, new, p} : u[m].left = t[m].left /\ u[m].right = t[m].right
      /\ p # NULL => /\ u[p][From(t, n)] = new
                    /\ u[p][Mirror(From(t, n))] = t[p][Mirror(From(t, n))]
      /\ inner # NULL => inner \in M \ {n, new, p}
  BY DEF RotationOf
<1>2. \A m \in M, s \in Sides : t[m][s] # NULL => t[m][s] \in M /\ t[m][s] # m /\ t[t[m][s]].parent = m
  BY DEF Links, Child_OK
<1>3. /\ low # n /\ low # new /\ outer # n /\ outer # new
      /\ low \in M \cup {NULL} /\ outer \in M \cup {NULL} /\ inner \in M \cup {NULL}
      /\ inner # n /\ inner # new /\ new # NULL
  <2>1. t[n].left # NULL => t[n].left # t[n].right
    BY DEF Links
  <2>2. low # new
    BY <1>0, <1>1, <2>1 DEF Sides
  <2>3. outer # n
    BY <1>0 DEF CanRotate
  <2>. QED
    BY <1>0, <1>1, <1>2, <2>2, <2>3
<1>4. /\ B \in [M \cup {NULL} -> SUBSET K] /\ B[NULL] = {} /\ r \in M \cup {NULL}
      /\ B[r] = K
      /\ \A m \in M : k[m] \in Int /\ k[m] \in K /\ PartOK(t, k, B, m)
      /\ K \in SUBSET Int
  BY DEF Parts
<1>5. /\ k[n] \in Int /\ B[n] = {k[n]} \cup B[low] \cup B[new]
      /\ \A x \in B[low] : Before(side, x, k[n])
      /\ \A x \in B[new] : Before(other, x, k[n])
      /\ k[new] \in Int /\ B[new] = {k[new]} \cup B[inner] \cup B[outer]
      /\ \A x \in B[inner] : Before(side, x, k[new])
      /\ \A x \in B[outer] : Before(other, x, k[new])
  <2>1. k[n] \in Int /\ k[new] \in Int
    BY <1>1, <1>4
  <2>2. PartAt(t, k, B, n, side) /\ PartAt(t, k, B, new, side)
    BY <1>1, <1>4, PartSide
  <2>. QED
    BY <2>1, <2>2 DEF PartAt
<1> HIDE DEF p, other, new, low, inner, outer, r1, K
<1>6. /\ B[low] \in SUBSET K /\ B[inner] \in SUBSET K /\ B[outer] \in SUBSET K
      /\ B[n] \in SUBSET K /\ B[new] \in SUBSET K
  BY <1>1, <1>3, <1>4
<1>7. X \in SUBSET K
  BY <1>4, <1>6
<1> HIDE DEF X
<1>8. /\ C \in [M \cup {NULL} -> SUBSET K] /\ C[n] = X /\ C[new] = B[n]
      /\ \A m \in M \cup {NULL} : m # n /\ m # new => C[m] = B[m]
  BY <1>1, <1>4, <1>6, <1>7
<1> HIDE DEF C
<1>9. C[NULL] = {} /\ C[low] = B[low] /\ C[inner] = B[inner] /\ C[outer] = B[outer]
  BY <1>0, <1>3, <1>4, <1>8
<1>10. PartOK(u, k, C, n)
  <2>1. C[n] = {k[n]} \cup C[u[n][side]] \cup C[u[n][other]]
    BY <1>1, <1>8, <1>9 DEF X
  <2>2. \A x \in C[u[n][side]] : Before(side, x, k[n])
    BY <1>1, <1>5, <1>9
  <2>3. \A x \in C[u[n][other]] : Before(other, x, k[n])
    BY <1>1, <1>5, <1>9
  <2>. QED
    BY <2>1, <2>2, <2>3, PartSide DEF PartAt, other
<1>11. PartOK(u, k, C, new)
  <2>1. C[new] = {k[new]} \cup C[u[new][side]] \cup C[u[new][other]]
    BY <1>1, <1>5, <1>8, <1>9 DEF X
  <2>2. \A x \in C[u[new][other]] : Before(other, x, k[new])
    BY <1>1, <1>5, <1>9
  <2>3. Before(side, k[n], k[new])
    <3>1. Before(other, k[new], k[n])
      BY <1>5
    <3>. QED
      BY <1>5, <3>1, BeforeFacts DEF other
  <2>4. \A x \in C[u[new][side]] : Before(side, x, k[new])
    <3>1. C[u[new][side]] = {k[n]} \cup B[low] \cup B[inner]
      BY <1>1, <1>8 DEF X
    <3>2. \A x \in B[low] : Before(side, x, k[new])
      BY <1>4, <1>5, <1>6, <2>3, BeforeFacts
    <3>. QED
      BY <1>5, <2>3, <3>1, <3>2
  <2>. QED
    BY <2>1, <2>2, <2>4, PartSide DEF PartAt, other
<1>12. ASSUME p # NULL
       PROVE  PartOK(u, k, C, p)
  <2> DEFINE f == From(t, n)
             g == Mirror(f)
             sib == t[p][g]
  <2>1. f \in Sides /\ p \in M /\ t[p][f] = n /\ sib # n
    <3>1. SideOfParent(t, M, n)
      BY <1>12, FromFacts DEF p
    <3>. QED
      BY <3>1 DEF SideOfParent, p
  <2>2. g \in Sides
    BY <2>1, MirrorFacts
  <2>3. sib \in M \cup {NULL} /\ sib # new
    BY <1>1, <1>2, <1>3, <2>1, <2>2
  <2>4. /\ B[p] = {k[p]} \cup B[n] \cup B[sib]
        /\ \A x \in B[n] : Before(f, x, k[p])
        /\ \A x \in B[sib] : Before(g, x, k[p])
    <3>1. PartAt(t, k, B, p, f)
      BY <1>4, <2>1, PartSide
    <3>. QED
      BY <2>1, <3>1 DEF PartAt
  <2>5. u[p][f] = new /\ u[p][g] = sib
    BY <1>1, <1>12
  <2> HIDE DEF f, sib
  <2>6. C[u[p][f]] = B[n] /\ C[u[p][g]] = B[sib] /\ C[p] = B[p]
    BY <1>1, <1>8, <1>12, <2>1, <2>3, <2>5
  <2>. QED
    BY <2>1, <2>4, <2>6, PartSide DEF PartAt
<1>13. ASSUME NEW m \in M, m # n, m # new, m # p
       PROVE  PartOK(u, k, C, m)
  <2>1. u[m].left = t[m].left /\ u[m].right = t[m].right
    BY <1>1, <1>13
  <2>2. \A s \in Sides : t[m][s] \in M \cup {NULL} /\ t[m][s] # n /\ t[m][s] # new
    BY <1>1, <1>2, <1>3, <1>13 DEF p
  <2>3. /\ \A s \in Sides : C[t[m][s]] = B[t[m][s]]
        /\ C[m] = B[m]
    BY <1>8, <1>13, <2>2
  <2>4. PartOK(t, k, B, m)
    BY <1>4
  <2>. QED
    BY <2>1, <2>3, <2>4 DEF PartOK, Sides
<1>14. r1 \in M \cup {NULL} /\ C[r1] = K
  <2>1. CASE p = NULL
    <3>1. n = r
      BY <2>1 DEF Links, Parent_OK, p
    <3>. QED
      BY <1>1, <1>4, <1>8, <2>1, <3>1 DEF r1
  <2>2. CASE p # NULL
    <3>1. r # NULL => t[r].parent = NULL
      BY DEF Links
    <3>2. r # n /\ r # new
      BY <1>0, <1>1, <1>3, <2>2, <3>1 DEF p
    <3>. QED
      BY <1>4, <1>8, <2>2, <3>2 DEF r1
  <2>. QED
    BY <2>1, <2>2
<1>15. Parts(u, M, r1, k, C)
  BY <1>4, <1>8, <1>9, <1>10, <1>11, <1>12, <1>13, <1>14 DEF Parts, K
<1>. QED
  BY <1>15 DEF r1, p, new, other

(* A step that changes no child leaves the sets of the subtrees as they    *)
(* are.                                                                    *)
LEMMA SameParts ==
  ASSUME NEW t, NEW u, NEW M, NEW r, NEW k, NEW B, Parts(t, M, r, k, B),
         \A m \in M : u[m].left = t[m].left /\ u[m].right = t[m].right
  PROVE  Parts(u, M, r, k, B)
<1>1. \A m \in M : PartOK(t, k, B, m) => PartOK(u, k, B, m)
  BY DEF PartOK, Sides
<1>. QED
  BY <1>1 DEF Parts

(* So does an iteration of avl_fix(), and the order of all is the same. *)
LEMMA StepParts ==
  ASSUME NEW D, NULL \notin D, NEW t \in Trees(D), NEW M \in SUBSET D, NEW r, Links(t, M, r),
         NEW n \in M, AllBut(t, M, n), NEW k, NEW B, Parts(t, M, r, k, B)
  PROVE  \E C : Parts(Step(t, n), M, IF t[n].parent = NULL THEN Top(t, n) ELSE r, k, C)
<1> DEFINE v == avl_update(t, n)
           p == t[n].parent
<1>0. v = avl_update(t, n)
  OBVIOUS
<1>1. \A m \in D : v[m].left = t[m].left /\ v[m].right = t[m].right
  BY UpdateFacts
<1> HIDE DEF v
<1>2. /\ v \in Trees(D) /\ Links(v, M, r) /\ v[n].parent = t[n].parent
      /\ TooHigh(v, n) = {} => Step(t, n) = v /\ Top(t, n) = n
      /\ TooHigh(v, n) # {} =>
           \E side \in TooHigh(v, n), c \in M \ {n} :
              \E w \in Trees(D) :
                /\ side \in Sides /\ c = v[n][side]
                /\ Bent(v, n, side) => CanRotate(v, c, side) /\ w = Rotated(v, c, side)
                /\ ~Bent(v, n, side) => w = v
                /\ Links(w, M, r) /\ w[n].parent = t[n].parent
                /\ t[n].parent # NULL => /\ w[t[n].parent].left = t[t[n].parent].left
                                        /\ w[t[n].parent].right = t[t[n].parent].right
                /\ CanRotate(w, n, Mirror(side))
                /\ Step(t, n) = Rotated(w, n, Mirror(side)) /\ Top(t, n) = w[n][side]
  BY <1>0, StepCases
<1>3. Parts(v, M, r, k, B)
  BY <1>1, SameParts
<1>4. CASE TooHigh(v, n) = {}
  <2>1. Step(t, n) = v /\ Top(t, n) = n
    BY <1>2, <1>4
  <2>2. p = NULL => n = r
    BY DEF Links, Parent_OK
  <2>. QED
    BY <1>3, <2>1, <2>2
<1>5. CASE TooHigh(v, n) # {}
  <2>1. PICK side \in TooHigh(v, n), c \in M \ {n} :
              \E w \in Trees(D) :
                /\ side \in Sides /\ c = v[n][side]
                /\ Bent(v, n, side) => CanRotate(v, c, side) /\ w = Rotated(v, c, side)
                /\ ~Bent(v, n, side) => w = v
                /\ Links(w, M, r) /\ w[n].parent = t[n].parent
                /\ CanRotate(w, n, Mirror(side))
                /\ Step(t, n) = Rotated(w, n, Mirror(side)) /\ Top(t, n) = w[n][side]
    BY <1>2, <1>5
  <2>2. PICK w \in Trees(D) :
                /\ side \in Sides /\ c = v[n][side]
                /\ Bent(v, n, side) => CanRotate(v, c, side) /\ w = Rotated(v, c, side)
                /\ ~Bent(v, n, side) => w = v
                /\ Links(w, M, r) /\ w[n].parent = t[n].parent
                /\ CanRotate(w, n, Mirror(side))
                /\ Step(t, n) = Rotated(w, n, Mirror(side)) /\ Top(t, n) = w[n][side]
    BY <2>1
  <2>3. v[c].parent = n
    <3>1. c # NULL
      OBVIOUS
    <3>. QED
      BY <1>2, <2>2, <3>1 DEF Links, Child_OK
  <2>4. \E A : Parts(w, M, r, k, A)
    <3>1. CASE Bent(v, n, side)
      <4>1. RotationOf(D, v, M, r, c, side, w)
        BY <1>2, <2>2, <3>1, RotatedFacts
      <4>2. \E A : Parts(w, M, IF v[c].parent = NULL THEN v[c][Mirror(side)] ELSE r, k, A)
        BY <1>2, <1>3, <2>2, <3>1, <4>1, RotatedParts
      <4>3. v[c].parent # NULL
        BY <2>3
      <4>. QED
        BY <4>2, <4>3
    <3>. QED
      BY <1>3, <2>2, <3>1
  <2>5. PICK A : Parts(w, M, r, k, A)
    BY <2>4
  <2>6. Mirror(side) \in Sides /\ Mirror(Mirror(side)) = side
    BY <2>2, MirrorFacts
  <2>7. RotationOf(D, w, M, r, n, Mirror(side), Step(t, n))
    BY <2>2, <2>6, RotatedFacts
  <2>8. \E C : Parts(Step(t, n), M, IF w[n].parent = NULL THEN w[n][Mirror(Mirror(side))] ELSE r, k, C)
    BY <2>2, <2>5, <2>6, <2>7, RotatedParts
  <2>. QED
    BY <2>2, <2>6, <2>8
<1>. QED
  BY <1>4, <1>5

(* A set of numbers has a least one. *)
LEMMA LeastNat ==
  ASSUME NEW S \in SUBSET Nat, S # {}
  PROVE  \E v \in S : \A w \in S : v <= w
<1>1. \E v \in S : \A w \in S : ~(<<w, v>> \in OpToRel(<, Nat))
  BY NatLessThanWellFounded, WFMin
<1>2. \E v \in S : \A w \in S : ~(w < v)
  BY <1>1 DEF OpToRel
<1>. QED
  BY <1>2

(* The way down ends, *)
LEMMA Lowest ==
  ASSUME NEW D, NULL \notin D, NEW t \in Trees(D), NEW M \in SUBSET D, NEW r, Links(t, M, r),
         NEW k, NEW B, Parts(t, M, r, k, B),
         NEW E, IsFiniteSet(E), \A m \in M : k[m] \in E,
         NEW Q \in SUBSET M, Q # {}
  PROVE  \E c \in Q : \A s \in Sides : t[c][s] \notin Q
<1> DEFINE Z(c) == Cardinality(B[c])
           S == {Z(c) : c \in Q}
<1>1. \A c \in M : IsFiniteSet(B[c]) /\ Z(c) \in Nat
  <2>1. \A c \in M : B[c] \in SUBSET E
    BY DEF Parts
  <2>. QED
    BY <2>1, FS_Subset, FS_CardinalityType
<1>2. ASSUME NEW c \in M, NEW s \in Sides, t[c][s] \in M
      PROVE  Z(t[c][s]) < Z(c)
  <2> DEFINE d == t[c][s]
  <2>1. /\ B[d] \subseteq B[c] /\ k[c] \in B[c] /\ k[c] \in Int
        /\ \A x \in B[d] : Before(s, x, k[c])
    <3>1. NodeParts(t, M, k, B, c, s)
      BY PartsFacts
    <3>. QED
      BY <3>1 DEF NodeParts
  <2>2. k[c] \notin B[d]
    BY <2>1, BeforeFacts
  <2> HIDE DEF d
  <2>3. B[d] \in SUBSET B[c] /\ B[c] # B[d]
    BY <2>1, <2>2
  <2>4. Cardinality(B[d]) <= Cardinality(B[c]) /\ Cardinality(B[d]) # Cardinality(B[c])
    BY <1>1, <2>3, FS_Subset
  <2>5. d \in M
    BY <1>2 DEF d
  <2>6. Z(d) < Z(c)
    BY <1>1, <2>4, <2>5
  <2>. QED
    BY <2>6 DEF d
<1> HIDE DEF Z
<1>3. S \in SUBSET Nat /\ S # {}
  BY <1>1
<1>4. PICK v \in S : \A w \in S : v <= w
  BY <1>3, LeastNat
<1>5. PICK c \in Q : v = Z(c)
  OBVIOUS
<1>6. \A d \in Q : ~(Z(d) < Z(c))
  BY <1>1, <1>4, <1>5
<1>. QED
  BY <1>2, <1>6

(* and so does the way up. *)
LEMMA Highest ==
  ASSUME NEW D, NULL \notin D, NEW t \in Trees(D), NEW M \in SUBSET D, NEW r, Links(t, M, r),
         NEW k, NEW B, Parts(t, M, r, k, B),
         NEW E, IsFiniteSet(E), \A m \in M : k[m] \in E,
         NEW Q \in SUBSET M, Q # {}
  PROVE  \E c \in Q : t[c].parent \notin Q
<1> DEFINE N == Cardinality(E)
           Z(c) == N - Cardinality(B[c])
           S == {Z(c) : c \in Q}
<1>1. \A c \in M : IsFiniteSet(B[c]) /\ Cardinality(B[c]) \in Nat /\ Z(c) \in Nat
  <2>1. \A c \in M : B[c] \in SUBSET E
    BY DEF Parts
  <2>2. \A c \in M : IsFiniteSet(B[c]) /\ Cardinality(B[c]) \in Nat /\ Cardinality(B[c]) <= N
    BY <2>1, FS_Subset, FS_CardinalityType
  <2>3. N \in Nat
    BY FS_CardinalityType
  <2>. QED
    BY <2>2, <2>3
<1>2. ASSUME NEW d \in M, t[d].parent \in M
      PROVE  Z(t[d].parent) < Z(d)
  <2> DEFINE c == t[d].parent
  <2>0. PICK s \in Sides : t[c][s] = d
    BY <1>2 DEF Links, Parent_OK
  <2>1. /\ B[d] \subseteq B[c] /\ k[c] \in B[c] /\ k[c] \in Int
        /\ \A x \in B[d] : Before(s, x, k[c])
    <3>1. NodeParts(t, M, k, B, c, s)
      BY <1>2, PartsFacts
    <3>. QED
      BY <2>0, <3>1 DEF NodeParts
  <2>2. k[c] \notin B[d]
    BY <2>1, BeforeFacts
  <2>5. c \in M
    BY <1>2 DEF c
  <2> HIDE DEF c
  <2>3. B[d] \in SUBSET B[c] /\ B[c] # B[d]
    BY <2>1, <2>2
  <2>4. Cardinality(B[d]) <= Cardinality(B[c]) /\ Cardinality(B[d]) # Cardinality(B[c])
    BY <1>1, <2>3, <2>5, FS_Subset
  <2>6. N \in Nat
    BY FS_CardinalityType
  <2>7. Z(c) < Z(d)
    BY <1>1, <2>4, <2>5, <2>6
  <2>. QED
    BY <2>7 DEF c
<1> HIDE DEF Z
<1>3. S \in SUBSET Nat /\ S # {}
  BY <1>1
<1>4. PICK v \in S : \A w \in S : v <= w
  BY <1>3, LeastNat
<1>5. PICK c \in Q : v = Z(c)
  OBVIOUS
<1>6. \A d \in Q : ~(Z(d) < Z(c))
  BY <1>1, <1>4, <1>5
<1>. QED
  BY <1>2, <1>6

(* What a subtree holds it holds with all that is below, and a node it     *)
(* holds is its own root or the child of one it holds.                     *)
Nested(t, B, x, c) ==
  x \in B[c] => B[x] \subseteq B[c] /\ (x # c => t[x].parent \in B[c])

(* A tree in which every node counts as itself *)
Ordered(t, M, r, B) == M \subseteq Int /\ Parts(t, M, r, [m \in M |-> m], B)

(* What it says of a node *)
NodeOrdered(t, M, B, n, s) ==
  LET c == t[n][s]
  IN /\ c \in M \cup {NULL} /\ c # n /\ (c # NULL => t[c].parent = n)
     /\ n \in Int /\ B[n] \in SUBSET M /\ B[c] \in SUBSET M
     /\ B[n] = {n} \cup B[c] \cup B[t[n][Mirror(s)]]
     /\ \A x \in B[c] : x # n /\ Before(s, x, n)
     /\ \A x \in B[n] : Before(s, x, n) => x \in B[c]

(* What Ordered says of each node and of either side. *)
LEMMA OrderedFacts ==
  ASSUME NEW D, NULL \notin D, NEW t \in Trees(D), NEW M \in SUBSET D, NEW r, Links(t, M, r),
         NEW B, Ordered(t, M, r, B), NEW n \in M, NEW s \in Sides
  PROVE  NodeOrdered(t, M, B, n, s)
<1> DEFINE k == [m \in M |-> m]
           c == t[n][s]
<1>1. Parts(t, M, r, k, B) /\ n \in Int /\ M \subseteq Int
  BY DEF Ordered
<1>2. k[n] = n /\ {k[m] : m \in M} = M
  OBVIOUS
<1>3. B \in [M \cup {NULL} -> SUBSET M]
  BY <1>1, <1>2 DEF Parts
<1> HIDE DEF k
<1>4. /\ c \in M \cup {NULL}
      /\ B[n] = {k[n]} \cup B[c] \cup B[t[n][Mirror(s)]]
      /\ \A x \in B[c] : Before(s, x, k[n])
      /\ \A x \in B[n] : Before(s, x, k[n]) => x \in B[c]
  <2>1. NodeParts(t, M, k, B, n, s)
    BY <1>1, PartsFacts
  <2>. QED
    BY <2>1 DEF NodeParts
<1>5. c # NULL => c # n /\ t[c].parent = n
  BY DEF Links, Child_OK
<1>6. B[n] \in SUBSET M /\ B[c] \in SUBSET M
  BY <1>3, <1>4
<1>7. \A x \in B[c] : x # n
  BY <1>1, <1>2, <1>4, BeforeFacts
<1>. QED
  BY <1>1, <1>2, <1>4, <1>5, <1>6, <1>7 DEF NodeOrdered

(* Subtrees are nested. *)
LEMMA NestedFacts ==
  ASSUME NEW D, NULL \notin D, NEW t \in Trees(D), NEW M \in SUBSET D, NEW r, Links(t, M, r),
         IsFiniteSet(M), NEW B, Ordered(t, M, r, B)
  PROVE  \A x, c \in M : Nested(t, B, x, c)
<1> DEFINE k == [m \in M |-> m]
           Q == {c \in M : \E x \in M : ~Nested(t, B, x, c)}
<1>1. Parts(t, M, r, k, B) /\ \A m \in M : k[m] \in M
  BY DEF Ordered
<1> HIDE DEF k
<1> SUFFICES ASSUME Q # {} PROVE FALSE
  OBVIOUS
<1>2. PICK c \in Q : \A s \in Sides : t[c][s] \notin Q
  <2>1. Q \in SUBSET M
    OBVIOUS
  <2> HIDE DEF Q
  <2>. QED
    BY <1>1, <2>1, Lowest
<1>3. PICK x \in M : ~Nested(t, B, x, c)
  OBVIOUS
<1>4. x \in B[c] /\ x # c
  BY <1>3 DEF Nested
<1>5. "left" \in Sides /\ "right" \in Sides /\ Mirror("left") = "right"
  BY DEF Sides, Mirror
<1>6. /\ NodeOrdered(t, M, B, c, "left") /\ NodeOrdered(t, M, B, c, "right")
  BY <1>5, OrderedFacts
<1>7. PICK s \in Sides : x \in B[t[c][s]]
  BY <1>4, <1>5, <1>6 DEF NodeOrdered
<1>8. NodeOrdered(t, M, B, c, s)
  BY OrderedFacts
<1>9. t[c][s] \in M /\ t[t[c][s]].parent = c /\ B[t[c][s]] \subseteq B[c] /\ c \in B[c]
  <2>1. B[NULL] = {}
    BY <1>1 DEF Parts
  <2>. QED
    BY <1>7, <1>8, <2>1 DEF NodeOrdered
<1>10. Nested(t, B, x, t[c][s])
  BY <1>2, <1>9
<1>. QED
  BY <1>3, <1>7, <1>9, <1>10 DEF Nested

(* A new leaf is on the same side of every node as the place found for it. *)
LEMMA InsertedParts ==
  ASSUME NEW D, NULL \notin D, NEW t \in Trees(D), NEW r, Links(t, D, r),
         NEW B, Ordered(t, D, r, B),
         NEW n \in Int, n \notin D, n # NULL, NEW a \in D \cup {NULL}, a = NULL => r = NULL,
         NEW s \in Sides, a # NULL => t[a][s] = NULL /\ Before(s, n, a),
         \A m \in D, z \in Sides : a \in B[t[m][z]] => Before(z, n, m),
         NEW u, InsertionOf(D, t, r, n, a, s, u)
  PROVE  \E C : Ordered(u, D \cup {n}, IF a = NULL THEN n ELSE r, C)
<1> DEFINE E == D \cup {n}
           k == [m \in D |-> m]
           j == [m \in E |-> m]
           r1 == IF a = NULL THEN n ELSE r
           C == [m \in E \cup {NULL} |->
                   IF m = n THEN {n} ELSE IF a \in B[m] THEN B[m] \cup {n} ELSE B[m]]
<1>1. /\ D \subseteq Int /\ B \in [D \cup {NULL} -> SUBSET D] /\ B[NULL] = {}
      /\ r \in D \cup {NULL} /\ B[r] = D
  <2>1. Parts(t, D, r, k, B) /\ D \subseteq Int
    BY DEF Ordered
  <2>2. {k[m] : m \in D} = D
    OBVIOUS
  <2> HIDE DEF k
  <2>. QED
    BY <2>1, <2>2 DEF Parts
<1>2. \A m \in D, z \in Sides : NodeOrdered(t, D, B, m, z)
  BY OrderedFacts
<1>3. /\ \A m \in D : m # a => u[m] = t[m]
      /\ u[n] = [New EXCEPT !.parent = a]
      /\ a # NULL => u[a][s] = n /\ u[a][Mirror(s)] = t[a][Mirror(s)]
  BY DEF InsertionOf
<1>4. /\ C[n] = {n} /\ C[NULL] = {}
      /\ \A m \in D : C[m] = IF a \in B[m] THEN B[m] \cup {n} ELSE B[m]
      /\ \A m \in D : a \notin B[m] => C[m] = B[m]
  BY <1>1
<1>5. C \in [E \cup {NULL} -> SUBSET E]
  BY <1>1
<1> HIDE DEF C
<1>6. \A m \in E : j[m] = m /\ j[m] \in Int
  BY <1>1
<1>7. {j[m] : m \in E} = E
  BY <1>6
<1> HIDE DEF j
<1>8. PartOK(u, j, C, n)
  <2>1. u[n].left = NULL /\ u[n].right = NULL /\ \A z \in Sides : u[n][z] = NULL
    BY <1>3 DEF New, Sides
  <2>. QED
    BY <1>4, <1>6, <2>1 DEF PartOK
<1>9. ASSUME NEW m \in D
      PROVE  PartOK(u, j, C, m)
  <2> DEFINE c == t[m].left
             d == t[m].right
  <2>1. CASE m # a
    <3>1. NodeOrdered(t, D, B, m, "left") /\ NodeOrdered(t, D, B, m, "right")
      BY <1>2 DEF Sides
    <3>2. /\ c \in D \cup {NULL} /\ d \in D \cup {NULL}
          /\ B[m] = {m} \cup B[c] \cup B[d]
      BY <3>1 DEF NodeOrdered, Mirror
    <3>3. /\ \A z \in Sides : u[m][z] = t[m][z]
          /\ u[m].left = c /\ u[m].right = d
      BY <1>3, <2>1
    <3>4. C[m] = {m} \cup C[c] \cup C[d]
      <4>1. /\ C[c] = IF a \in B[c] THEN B[c] \cup {n} ELSE B[c]
            /\ C[d] = IF a \in B[d] THEN B[d] \cup {n} ELSE B[d]
        BY <1>1, <1>4, <3>2
      <4>2. a \in B[m] <=> a \in B[c] \/ a \in B[d]
        BY <2>1, <3>2
      <4> HIDE DEF c, d
      <4>. QED
        BY <1>4, <3>2, <4>1, <4>2
    <3>5. ASSUME NEW z \in Sides, NEW x \in C[t[m][z]]
          PROVE  Before(z, x, m)
      <4>1. NodeOrdered(t, D, B, m, z)
        BY <1>2
      <4>2. t[m][z] \in D \cup {NULL} /\ \A y \in B[t[m][z]] : Before(z, y, m)
        BY <4>1 DEF NodeOrdered
      <4>3. x \in B[t[m][z]] \/ (x = n /\ a \in B[t[m][z]])
        BY <1>1, <1>4, <3>5, <4>2
      <4>. QED
        BY <4>2, <4>3
    <3>. QED
      BY <1>6, <3>3, <3>4, <3>5 DEF PartOK
  <2>2. CASE m = a
    <3> DEFINE g == Mirror(s)
               sib == t[a][g]
    <3>1. a # NULL /\ a \in D /\ g \in Sides
      BY <2>2, MirrorFacts
    <3>2. NodeOrdered(t, D, B, a, s) /\ NodeOrdered(t, D, B, a, g)
      BY <1>2, <3>1
    <3>3. /\ B[a] = {a} \cup B[NULL] \cup B[sib] /\ sib \in D \cup {NULL}
          /\ \A x \in B[sib] : x # a /\ Before(g, x, a)
      BY <3>1, <3>2 DEF NodeOrdered
    <3>4. u[a][s] = n /\ u[a][g] = sib
      BY <1>3, <3>1
    <3> HIDE DEF g, sib
    <3>5. C[a] = {a} \cup C[u[a][s]] \cup C[u[a][g]]
      <4>1. C[a] = B[a] \cup {n}
        BY <1>4, <3>1, <3>3
      <4>2. C[sib] = B[sib]
        BY <1>1, <1>4, <3>3
      <4>. QED
        BY <1>1, <1>4, <3>3, <3>4, <4>1, <4>2
    <3>6. C[sib] = B[sib]
      BY <1>1, <1>4, <3>3
    <3>7. /\ \A x \in C[u[a][s]] : Before(s, x, a)
          /\ \A x \in C[u[a][g]] : Before(g, x, a)
      BY <1>4, <3>1, <3>3, <3>4, <3>6
    <3>8. PartAt(u, j, C, a, s)
      BY <1>6, <3>1, <3>5, <3>7 DEF PartAt, g
    <3>. QED
      BY <2>2, <3>8, PartSide
  <2>. QED
    BY <2>1, <2>2
<1>10. r1 \in E \cup {NULL} /\ C[r1] = E
  <2>1. CASE a = NULL
    BY <1>1, <1>4, <2>1
  <2>2. CASE a # NULL
    <3>1. r \in D /\ a \in B[r]
      BY <1>1, <2>2
    <3>. QED
      BY <1>1, <1>4, <2>2, <3>1
  <2>. QED
    BY <2>1, <2>2
<1>11. E \subseteq Int
  BY <1>1
<1> HIDE DEF r1, E
<1>12. \A m \in E : j[m] \in Int /\ PartOK(u, j, C, m)
  BY <1>6, <1>8, <1>9 DEF E
<1>13. Parts(u, E, r1, j, C)
  BY <1>4, <1>5, <1>7, <1>10, <1>12 DEF Parts
<1>. QED
  BY <1>11, <1>13 DEF Ordered, j, r1, E

(* The search goes to the side where the new node belongs. *)
OnItsSides(t, D, B, n, a) ==
  \A m \in D, z \in Sides : a \in B[t[m][z]] => Before(z, n, m)

(* One step down in the search of tree_insert(): the new node still        *)
(* belongs below.                                                          *)
LEMMA SearchFacts ==
  ASSUME NEW D, NULL \notin D, NEW t \in Trees(D), NEW r, Links(t, D, r), IsFiniteSet(D),
         NEW B, Ordered(t, D, r, B), NEW n \in Int, n \notin D, NEW a \in D \cup {NULL},
         OnItsSides(t, D, B, n, a), NEW s \in Sides, a # NULL => Before(s, n, a),
         NEW b \in D, b = IF a = NULL THEN r ELSE t[a][s]
  PROVE  OnItsSides(t, D, B, n, b)
<1>1. \A m \in D, z \in Sides : NodeOrdered(t, D, B, m, z)
  BY OrderedFacts
<1>2. B[NULL] = {}
  BY DEF Ordered, Parts
<1> SUFFICES ASSUME NEW m \in D, NEW z \in Sides, b \in B[t[m][z]]
             PROVE  Before(z, n, m)
  BY DEF OnItsSides
<1> DEFINE c == t[m][z]
<1>3. c \in D /\ t[c].parent = m /\ B[c] \subseteq D
  BY <1>1, <1>2 DEF NodeOrdered
<1>4. Nested(t, B, b, c)
  BY <1>3, NestedFacts
<1>5. b # c => t[b].parent \in B[c]
  BY <1>4 DEF Nested
<1>6. CASE a = NULL
  <2>1. t[b].parent = NULL
    BY <1>6 DEF Links
  <2>. QED
    BY <1>3, <1>5, <2>1
<1>7. CASE a # NULL
  <2>1. t[b].parent = a /\ b = t[a][s]
    BY <1>7 DEF Links, Child_OK
  <2>2. CASE b # c
    BY <1>5, <2>1, <2>2 DEF OnItsSides
  <2>3. CASE b = c
    <3>1. m = a
      BY <1>3, <2>1, <2>3
    <3>2. t[a].left # NULL => t[a].left # t[a].right
      BY <1>7 DEF Links
    <3>3. z = s
      <4>1. t[a][s] = b /\ t[a][z] = b /\ b # NULL
        BY <2>1, <2>3, <3>1
      <4> HIDE DEF c
      <4>2. (s = "left" \/ s = "right") /\ (z = "left" \/ z = "right")
        BY DEF Sides
      <4>3. t[a]["left"] # NULL => t[a]["left"] # t[a]["right"]
        BY <3>2
      <4>. QED
        BY ONLY <4>1, <4>2, <4>3
    <3>. QED
      BY <1>7, <3>1, <3>3
  <2>. QED
    BY <2>2, <2>3
<1>. QED
  BY <1>6, <1>7

(* A node with a child at most, when it is detached *)
LEMMA DetachedParts ==
  ASSUME NEW D, NULL \notin D, NEW t \in Trees(D), NEW r, Links(t, D, r),
         NEW B, Ordered(t, D, r, B),
         NEW n \in D, NULL \in {t[n].left, t[n].right},
         NEW u, DetachmentOf(D, t, D, r, n, u)
  PROVE  \E C : Ordered(u, D \ {n}, IF t[n].parent = NULL THEN Child(t, n) ELSE r, C)
<1> DEFINE E == D \ {n}
           k == [m \in D |-> m]
           j == [m \in E |-> m]
           p == t[n].parent
           c == Child(t, n)
           f == From(t, n)
           r1 == IF p = NULL THEN c ELSE r
           C == [m \in E \cup {NULL} |-> B[m] \ {n}]
<1>1. /\ D \subseteq Int /\ B \in [D \cup {NULL} -> SUBSET D] /\ B[NULL] = {}
      /\ r \in D \cup {NULL} /\ B[r] = D
  <2>1. Parts(t, D, r, k, B) /\ D \subseteq Int
    BY DEF Ordered
  <2>2. {k[m] : m \in D} = D
    OBVIOUS
  <2> HIDE DEF k
  <2>. QED
    BY <2>1, <2>2 DEF Parts
<1>2. \A m \in D, z \in Sides : NodeOrdered(t, D, B, m, z)
  BY OrderedFacts
<1>3. /\ c # NULL => c \in E
      /\ p # NULL => p \in E /\ u[p][f] = c /\ u[p][Mirror(f)] = t[p][Mirror(f)]
      /\ \A m \in D : m # p => u[m].left = t[m].left /\ u[m].right = t[m].right
  BY DEF DetachmentOf
<1>4. p # NULL => f \in Sides /\ t[p][f] = n /\ t[p][Mirror(f)] # n
  <2>1. p # NULL => SideOfParent(t, D, n)
    BY FromFacts
  <2>. QED
    BY <2>1 DEF SideOfParent
<1>5. B[n] = {n} \cup B[c] /\ B[c] \subseteq E
  <2>1. PICK s \in Sides : t[n][s] = c /\ t[n][Mirror(s)] = NULL
    BY DEF Child, Sides, Mirror
  <2>2. NodeOrdered(t, D, B, n, s)
    BY <1>2
  <2>. QED
    BY <1>1, <2>1, <2>2 DEF NodeOrdered
<1>6. p = NULL <=> n = r
  BY DEF Links, Parent_OK
<1>7. /\ \A m \in E \cup {NULL} : C[m] = B[m] \ {n}
      /\ C \in [E \cup {NULL} -> SUBSET E] /\ C[NULL] = {} /\ C[c] = B[c]
  BY <1>1, <1>3, <1>5
<1> HIDE DEF C, c, f, p
<1>8. \A m \in E : j[m] = m /\ j[m] \in Int
  BY <1>1
<1>9. {j[m] : m \in E} = E
  BY <1>8
<1> HIDE DEF j
<1>10. ASSUME NEW m \in E
       PROVE  PartOK(u, j, C, m)
  <2>1. CASE m # p
    <3>1. NodeOrdered(t, D, B, m, "left") /\ NodeOrdered(t, D, B, m, "right")
      BY <1>2 DEF Sides
    <3>2. /\ t[m].left \in D \cup {NULL} /\ t[m].right \in D \cup {NULL}
          /\ B[m] = {m} \cup B[t[m].left] \cup B[t[m].right]
          /\ \A x \in B[t[m].left] : Before("left", x, m)
          /\ \A x \in B[t[m].right] : Before("right", x, m)
          /\ t[m].left # n /\ t[m].right # n
      BY <2>1, <3>1 DEF NodeOrdered, Mirror, p
    <3>3. u[m].left = t[m].left /\ u[m].right = t[m].right
      BY <1>3, <2>1
    <3>4. C[u[m].left] = B[t[m].left] \ {n} /\ C[u[m].right] = B[t[m].right] \ {n}
          /\ C[m] = B[m] \ {n}
      BY <1>7, <3>2, <3>3
    <3>5. C[u[m]["left"]] = C[u[m].left] /\ C[u[m]["right"]] = C[u[m].right]
      OBVIOUS
    <3>. QED
      BY <1>8, <3>2, <3>4, <3>5 DEF PartOK, Sides
  <2>2. CASE m = p
    <3> DEFINE g == Mirror(f)
               sib == t[p][g]
    <3>1. p \in E /\ p \in D /\ p # NULL /\ f \in Sides /\ g \in Sides /\ t[p][f] = n /\ sib # n
          /\ u[p][f] = c /\ u[p][g] = sib
      BY <1>3, <1>4, <2>2, MirrorFacts
    <3>2. NodeOrdered(t, D, B, p, f) /\ NodeOrdered(t, D, B, p, g)
      BY <1>2, <3>1
    <3>3. /\ B[p] = {p} \cup B[n] \cup B[sib] /\ sib \in D \cup {NULL}
          /\ \A x \in B[n] : Before(f, x, p)
          /\ \A x \in B[sib] : Before(g, x, p)
      BY <3>1, <3>2 DEF NodeOrdered
    <3> HIDE DEF g, sib
    <3>4. C[u[p][f]] = B[n] \ {n} /\ C[u[p][g]] = B[sib] \ {n} /\ C[p] = B[p] \ {n} /\ j[p] = p
      BY <1>5, <1>7, <1>8, <3>1, <3>3
    <3>5. PartAt(u, j, C, p, f)
      BY <3>1, <3>3, <3>4 DEF PartAt, g
    <3>. QED
      BY <2>2, <3>1, <3>5, PartSide
  <2>. QED
    BY <2>1, <2>2
<1>11. r1 \in E \cup {NULL} /\ C[r1] = E
  <2>1. CASE p = NULL
    <3>1. E = B[c]
      BY <1>1, <1>5, <1>6, <2>1
    <3>. QED
      BY <1>3, <1>7, <2>1, <3>1
  <2>2. CASE p # NULL
    BY <1>1, <1>6, <1>7, <2>2
  <2>. QED
    BY <2>1, <2>2
<1>12. E \subseteq Int
  BY <1>1
<1> HIDE DEF r1, E
<1>13. Parts(u, E, r1, j, C)
  BY <1>7, <1>8, <1>9, <1>10, <1>11 DEF Parts
<1>. QED
  BY <1>12, <1>13 DEF Ordered, j, r1, E, p, c

(* The search for a victim: all that is less on the right is below it. *)
Leftmost(t, D, B, n, a) ==
  LET c == t[n].right
  IN /\ n \in D /\ a \in D /\ c \in D
     /\ a \in B[c] /\ B[a] \subseteq B[c] /\ \A x \in B[c] : x < a => x \in B[a]

(* One step to the left in the search of avl_del() for the victim. *)
LEMMA SeekFacts ==
  ASSUME NEW D, NULL \notin D, NEW t \in Trees(D), NEW r, Links(t, D, r),
         NEW B, Ordered(t, D, r, B), NEW n, NEW a, Leftmost(t, D, B, n, a), t[a].left # NULL
  PROVE  Leftmost(t, D, B, n, t[a].left)
<1> DEFINE b == t[a].left
<1>1. a \in D
  BY DEF Leftmost
<1>2. NodeOrdered(t, D, B, a, "left")
  BY <1>1, OrderedFacts DEF Sides
<1>3. /\ b \in D /\ D \subseteq Int /\ B[b] \subseteq B[a]
      /\ \A x \in B[b] : x < a
      /\ \A x \in B[a] : x < a => x \in B[b]
  BY <1>2 DEF NodeOrdered, Before, Ordered
<1>4. b \in B[b] /\ b < a
  <2>1. NodeOrdered(t, D, B, b, "left")
    BY <1>3, OrderedFacts DEF Sides
  <2>. QED
    BY <1>3, <2>1 DEF NodeOrdered
<1>5. \A c \in D : B[c] \subseteq D
  <2>1. \A c \in D : NodeOrdered(t, D, B, c, "left")
    BY OrderedFacts DEF Sides
  <2>. QED
    BY <2>1 DEF NodeOrdered
<1> HIDE DEF b
<1>6. t[n].right \in D /\ B[t[n].right] \subseteq D
  BY <1>5 DEF Leftmost
<1>7. \A x \in B[t[n].right] : x < b => x \in B[b]
  <2> SUFFICES ASSUME NEW x \in B[t[n].right], x < b PROVE x \in B[b]
    OBVIOUS
  <2>1. x \in Int /\ a \in Int /\ b \in Int /\ x < a
    BY <1>1, <1>3, <1>4, <1>6
  <2>. QED
    BY <1>3, <2>1 DEF Leftmost
<1>8. n \in D /\ b \in B[t[n].right] /\ B[b] \subseteq B[t[n].right]
  BY <1>3, <1>4 DEF Leftmost
<1>9. Leftmost(t, D, B, n, b)
  BY <1>3, <1>6, <1>7, <1>8 DEF Leftmost
<1>. QED
  BY <1>9 DEF b

(* A victim is the next node in order, and the one that it will replace    *)
(* counts as it when it is detached.                                       *)
VictimParts(D, t, r, n, v, u, C) ==
  Parts(u, D \ {v}, r, [m \in D \ {v} |-> IF m = n THEN v ELSE m], C)

(* The node where that search ends is the next in order, and detaching it  *)
(* keeps the order.                                                        *)
LEMMA VictimFacts ==
  ASSUME NEW D, NULL \notin D, NEW t \in Trees(D), NEW r, Links(t, D, r), IsFiniteSet(D),
         NEW B, Ordered(t, D, r, B),
         NEW n, NEW v \in D, Leftmost(t, D, B, n, v), t[v].left = NULL, t[v].parent # NULL, n # v,
         NEW u, DetachmentOf(D, t, D, r, v, u)
  PROVE  \E C : VictimParts(D, t, r, n, v, u, C)
<1> DEFINE E == D \ {v}
           k == [m \in D |-> m]
           j == [m \in E |-> IF m = n THEN v ELSE m]
           p == t[v].parent
           c == t[v].right
           f == From(t, v)
           R == t[n].right
           K == D \ {n}
           C == [m \in E \cup {NULL} |-> IF n \in B[m] THEN B[m] \ {n} ELSE B[m] \ {v}]
<1>1. /\ D \subseteq Int /\ B \in [D \cup {NULL} -> SUBSET D] /\ B[NULL] = {}
      /\ r \in D \cup {NULL} /\ B[r] = D
  <2>1. Parts(t, D, r, k, B) /\ D \subseteq Int
    BY DEF Ordered
  <2>2. {k[m] : m \in D} = D
    OBVIOUS
  <2> HIDE DEF k
  <2>. QED
    BY <2>1, <2>2 DEF Parts
<1>2. \A m \in D, z \in Sides : NodeOrdered(t, D, B, m, z)
  BY OrderedFacts
<1>3. /\ c # NULL => c \in E
      /\ p # NULL /\ p \in E /\ u[p][f] = c /\ u[p][Mirror(f)] = t[p][Mirror(f)]
      /\ \A m \in D : m # p => u[m].left = t[m].left /\ u[m].right = t[m].right
  BY DEF DetachmentOf, Child
<1>4. f \in Sides /\ t[p][f] = v /\ t[p][Mirror(f)] # v
  <2>1. SideOfParent(t, D, v)
    BY FromFacts
  <2>. QED
    BY <2>1 DEF SideOfParent
<1>5. B[v] = {v} \cup B[c] /\ B[c] \subseteq E /\ \A x \in B[c] : v < x
  <2>1. NodeOrdered(t, D, B, v, "right")
    BY <1>2 DEF Sides
  <2>2. /\ B[v] = {v} \cup B[c] \cup B[t[v]["left"]] /\ B[c] \subseteq D
        /\ \A x \in B[c] : x # v /\ v < x
    BY <2>1 DEF NodeOrdered, Before, Mirror
  <2>3. t[v]["left"] = NULL
    OBVIOUS
  <2>. QED
    BY <1>1, <2>2, <2>3
<1>6. /\ n \in D /\ R \in D /\ v \in B[R] /\ B[v] \subseteq B[R]
      /\ \A x \in B[R] : x < v => x \in B[v]
  BY DEF Leftmost
<1>7. /\ B[n] = {n} \cup B[t[n].left] \cup B[R] /\ t[n].left \in D \cup {NULL}
      /\ \A x \in B[t[n].left] : x < n
      /\ \A x \in B[R] : n < x
      /\ B[R] \subseteq D
  <2>1. NodeOrdered(t, D, B, n, "right") /\ NodeOrdered(t, D, B, n, "left")
    BY <1>2, <1>6 DEF Sides
  <2>. QED
    BY <2>1 DEF NodeOrdered, Before, Mirror
<1>8. n \notin B[v] /\ n < v /\ \A x \in B[R] : x # v => v < x
  <2>1. n < v /\ n \in Int /\ v \in Int
    BY <1>1, <1>6, <1>7
  <2>2. \A x \in B[R] : ~(x < v)
    BY <1>1, <1>5, <1>6, <1>7
  <2>. QED
    BY <1>1, <1>6, <1>7, <2>1, <2>2
<1>9. \A m \in D : n \in B[m] => v \in B[m] /\ (m = n \/ \A z \in Sides :
                     n \in B[t[m][z]] => v \notin B[t[m][Mirror(z)]])
  <2> SUFFICES ASSUME NEW m \in D, n \in B[m]
               PROVE  v \in B[m] /\ (m = n \/ \A z \in Sides :
                        n \in B[t[m][z]] => v \notin B[t[m][Mirror(z)]])
    OBVIOUS
  <2>1. Nested(t, B, n, m)
    BY <1>6, NestedFacts
  <2>2. v \in B[n]
    BY <1>6, <1>7
  <2>3. ASSUME NEW z \in Sides, n \in B[t[m][z]]
        PROVE  v \notin B[t[m][Mirror(z)]]
    <3>1. NodeOrdered(t, D, B, m, z) /\ NodeOrdered(t, D, B, m, Mirror(z))
      BY <1>2, MirrorFacts
    <3>2. t[m][z] \in D
      BY <1>1, <2>3, <3>1 DEF NodeOrdered
    <3>3. Nested(t, B, n, t[m][z])
      BY <1>6, <3>2, NestedFacts
    <3>4. v \in B[t[m][z]]
      BY <2>2, <2>3, <3>3 DEF Nested
    <3>5. Before(z, v, m) /\ (v \in B[t[m][Mirror(z)]] => Before(Mirror(z), v, m))
      BY <3>1, <3>4 DEF NodeOrdered
    <3>6. v \in Int /\ m \in Int
      BY <1>1
    <3>. QED
      BY <3>5, <3>6, BeforeFacts
  <2>. QED
    BY <2>1, <2>2, <2>3 DEF Nested
<1>10. /\ \A m \in E \cup {NULL} : C[m] = IF n \in B[m] THEN B[m] \ {n} ELSE B[m] \ {v}
       /\ C[NULL] = {} /\ C[c] = B[c] /\ (c = NULL \/ c \in E)
  <2>1. c \in E \cup {NULL}
    BY <1>3
  <2>2. n \notin B[c] /\ v \notin B[c]
    BY <1>5, <1>8
  <2>3. \A m \in E \cup {NULL} : C[m] = IF n \in B[m] THEN B[m] \ {n} ELSE B[m] \ {v}
    OBVIOUS
  <2> HIDE DEF C, c, E
  <2>4. C[c] = B[c] \ {v} /\ C[NULL] = B[NULL] \ {v}
    <3>1. NULL \in E \cup {NULL} /\ n \notin B[NULL]
      BY <1>1
    <3>. QED
      BY <2>1, <2>2, <2>3, <3>1
  <2>5. B[c] \ {v} = B[c]
    BY <2>2
  <2>6. C[NULL] = {}
    BY <1>1, <2>4
  <2>7. C[c] = B[c]
    BY <2>4, <2>5
  <2>8. c = NULL \/ c \in E
    BY <2>1
  <2>. QED
    BY <2>3, <2>6, <2>7, <2>8
<1>11. C \in [E \cup {NULL} -> SUBSET K]
  <2>1. \A m \in E \cup {NULL} : B[m] \in SUBSET D
    BY <1>1
  <2>. QED
    BY <2>1
<1> HIDE DEF C, c, f, p, R
<1>12. n \in E /\ j[n] = v /\ \A m \in E : (m # n => j[m] = m) /\ j[m] \in Int
  BY <1>1, <1>6
<1>13. {j[m] : m \in E} = K
  <2>1. \A m \in E : j[m] \in K
    BY <1>6
  <2>2. \A x \in K : x # v => x \in E /\ j[x] = x
    OBVIOUS
  <2> HIDE DEF j
  <2>. QED
    BY <1>12, <2>1, <2>2
<1> HIDE DEF j
<1>14. ASSUME NEW m \in E
       PROVE  PartOK(u, j, C, m)
  <2> DEFINE a == t[m].left
             b == t[m].right
  <2>0. /\ NodeOrdered(t, D, B, m, "left") /\ NodeOrdered(t, D, B, m, "right")
    BY <1>2 DEF Sides
  <2>1. /\ a \in D \cup {NULL} /\ b \in D \cup {NULL}
        /\ B[m] = {m} \cup B[a] \cup B[b] /\ m \notin B[a] /\ m \notin B[b]
        /\ \A x \in B[a] : x < m
        /\ \A x \in B[b] : m < x
        /\ \A s \in Sides : t[m][s] = v => m = p
    <3>1. \A s \in Sides : t[m][s] = v => m = p
      BY <1>2 DEF NodeOrdered, p
    <3>. QED
      BY <2>0, <3>1 DEF NodeOrdered, Mirror, Before
  <2> DEFINE G(x) == IF n \in B[x] THEN B[x] \ {n} ELSE B[x] \ {v}
  <2>2. \A s \in Sides : C[u[m][s]] = G(t[m][s])
    <3>1. CASE m # p
      <4>1. \A s \in Sides : u[m][s] = t[m][s] /\ t[m][s] # v
        BY <1>3, <2>1, <3>1 DEF Sides
      <4>2. \A s \in Sides : t[m][s] \in E \cup {NULL}
        BY <2>1, <4>1 DEF Sides
      <4>. QED
        BY <1>10, <4>1, <4>2
    <3>2. CASE m = p
      <4> DEFINE g == Mirror(f)
      <4>1. g \in Sides /\ \A s \in Sides : s = f \/ s = g
        BY <1>4 DEF Sides, Mirror
      <4>2. u[m][f] = c /\ t[m][f] = v /\ u[m][g] = t[m][g] /\ t[m][g] # v
        BY <1>3, <1>4, <3>2
      <4>3. t[m][g] \in E \cup {NULL}
        BY <2>1, <4>1, <4>2 DEF Sides
      <4>4. G(v) = B[c]
        BY <1>5, <1>8
      <4> HIDE DEF g, G
      <4>5. C[u[m][f]] = G(t[m][f])
        BY <1>10, <4>2, <4>4
      <4>6. C[u[m][g]] = G(t[m][g])
        BY <1>10, <4>2, <4>3 DEF G
      <4>. QED
        BY <4>1, <4>5, <4>6
    <3>. QED
      BY <3>1, <3>2
  <2>3. C[m] = G(m) /\ m # v /\ m \in D /\ m \in Int
    BY <1>1, <1>10
  <2>4. C[u[m].left] = G(a) /\ C[u[m].right] = G(b)
    BY <2>2 DEF Sides
  <2>5. G(m) = {j[m]} \cup G(a) \cup G(b)
    <3>1. CASE m = n
      <4>1. n \in B[n] /\ b = R /\ v \in B[b]
        BY <1>6, <1>7, <3>1 DEF R
      <4>2. v \notin B[a] /\ n \in Int /\ v \in Int
        BY <1>1, <1>6, <1>8, <2>1, <3>1
      <4>3. n \notin B[a] /\ n \notin B[b] /\ B[n] = {n} \cup B[a] \cup B[b] /\ j[n] = v /\ n # v
        BY <1>12, <2>1, <2>3, <3>1
      <4> HIDE DEF a, b
      <4>. QED
        BY <3>1, <4>1, <4>2, <4>3
    <3>2. CASE m # n /\ n \in B[m]
      <4>1. /\ n \in B[a] => v \notin B[b]
            /\ n \in B[b] => v \notin B[a]
        BY <1>9, <2>3, <3>2 DEF Sides, Mirror
      <4>2. ~(n \in B[a] /\ n \in B[b]) /\ (n \in B[a] \/ n \in B[b])
        BY <1>1, <1>6, <2>1, <2>3, <3>2
      <4>3. j[m] = m /\ B[m] = {m} \cup B[a] \cup B[b]
        BY <1>12, <2>1, <3>2
      <4> HIDE DEF a, b
      <4>. QED
        BY <2>3, <3>2, <4>1, <4>2, <4>3
    <3>3. CASE n \notin B[m]
      <4>1. m # n /\ n \notin B[a] /\ n \notin B[b]
        BY <2>1, <3>3
      <4>2. j[m] = m /\ B[m] = {m} \cup B[a] \cup B[b]
        BY <1>12, <2>1, <4>1
      <4> HIDE DEF a, b
      <4>. QED
        BY <2>3, <3>3, <4>1, <4>2
    <3>. QED
      BY <3>1, <3>2, <3>3
  <2>6. /\ \A x \in G(a) : x < j[m]
        /\ \A x \in G(b) : j[m] < x
    <3>1. B[a] \subseteq Int /\ B[b] \subseteq Int /\ G(a) \subseteq B[a] /\ G(b) \subseteq B[b]
      BY <1>1, <2>1
    <3>2. CASE m # n
      BY <1>12, <2>1, <3>1, <3>2
    <3>3. CASE m = n
      <4>1. j[m] = v /\ n < v /\ n \in Int /\ v \in Int /\ b = R /\ v \in B[b]
        BY <1>1, <1>6, <1>8, <1>12, <3>3 DEF R
      <4>2. \A x \in B[b] : x # v => v < x
        BY <1>8, <4>1
      <4>3. v \notin G(b)
        <5>1. n \notin B[b]
          BY <2>1, <3>3
        <5>. QED
          BY <5>1
      <4>4. \A x \in G(a) : x < n
        BY <2>1, <3>1, <3>3
      <4> HIDE DEF G, a, b
      <4>. QED
        BY <3>1, <4>1, <4>2, <4>3, <4>4
    <3>. QED
      BY <3>2, <3>3
  <2>7. \A s \in Sides : \A x \in C[u[m][s]] : Before(s, x, j[m])
    <3>1. C[u[m]["left"]] = G(a) /\ C[u[m]["right"]] = G(b)
      BY <2>2 DEF Sides
    <3>. QED
      BY <2>6, <3>1 DEF Before, Sides
  <2>. QED
    BY <2>3, <2>4, <2>5, <2>7 DEF PartOK
<1>15. r \in E \cup {NULL} /\ C[r] = K
  <2>1. r # NULL
    BY <1>1, <1>6
  <2>2. t[r].parent = NULL
    BY <2>1 DEF Links
  <2>3. r \in E
    BY <1>1, <2>1, <2>2
  <2>. QED
    BY <1>1, <1>6, <1>10, <2>3
<1> HIDE DEF E, K
<1>16. Parts(u, E, r, j, C)
  BY <1>10, <1>11, <1>12, <1>13, <1>14, <1>15 DEF Parts
<1>. QED
  BY <1>16 DEF VictimParts, j, E

(* When the victim has the place of its node it counts as itself. *)
LEMMA SwapParts ==
  ASSUME NEW D, NULL \notin D, NEW t \in Trees(D), NEW v \in D, NEW n \in D \ {v},
         NEW r, Links(t, D \ {v}, r), NEW u, SwapOf(D, t, n, v, u), D \subseteq Int,
         NEW B, Parts(t, D \ {v}, r, [m \in D \ {v} |-> IF m = n THEN v ELSE m], B)
  PROVE  \E C : Ordered(u, D \ {n}, IF t[n].parent = NULL THEN v ELSE r, C)
<1> DEFINE M == D \ {v}
           E == D \ {n}
           k == [m \in M |-> IF m = n THEN v ELSE m]
           j == [m \in E |-> m]
           r1 == IF t[n].parent = NULL THEN v ELSE r
           C == [x \in E \cup {NULL} |-> IF x = v THEN B[n] ELSE B[x]]
<1>1. /\ {k[m] : m \in M} = E
      /\ \A m \in M : k[m] = Renamed(n, v, m) /\ k[m] \in E
      /\ \A x \in E : \E m \in M : x = k[m]
  <2>1. \A m \in M : k[m] = Renamed(n, v, m) /\ k[m] \in E
    BY DEF Renamed
  <2>2. \A x \in E : \E m \in M : x = k[m]
    <3> TAKE x \in E
    <3>1. CASE x = v
      <4>1. n \in M /\ x = k[n]
        BY <3>1
      <4>. QED
        BY <4>1
    <3>2. CASE x # v
      <4>1. x \in M /\ x = k[x]
        BY <3>2
      <4>. QED
        BY <4>1
    <3>. QED
      BY <3>1, <3>2
  <2> HIDE DEF k, M, E
  <2>3. {k[m] : m \in M} = E
    BY ONLY <2>1, <2>2
  <2>. QED
    BY <2>1, <2>2, <2>3
<1>2. {j[m] : m \in E} = E /\ \A m \in E : j[m] = m /\ j[m] \in Int
  OBVIOUS
<1>3. Parts(t, M, r, k, B)
  OBVIOUS
<1> HIDE DEF k, j
<1>4. /\ B \in [M \cup {NULL} -> SUBSET E] /\ B[NULL] = {}
      /\ \A m \in M : PartOK(t, k, B, m)
      /\ r \in M \cup {NULL} /\ B[r] = E
  BY <1>1, <1>3 DEF Parts
<1>5. /\ C \in [E \cup {NULL} -> SUBSET E] /\ C[NULL] = {}
      /\ \A m \in M \cup {NULL} : C[Renamed(n, v, m)] = B[m]
  <2>1. n \in M /\ \A x \in E \cup {NULL} : x # v => x \in M \cup {NULL}
    OBVIOUS
  <2>2. \A x \in E \cup {NULL} : C[x] = IF x = v THEN B[n] ELSE B[x]
    OBVIOUS
  <2>3. C \in [E \cup {NULL} -> SUBSET E]
    BY <1>4, <2>1
  <2> HIDE DEF C
  <2>4. C[NULL] = {}
    BY <1>4, <2>2
  <2>5. \A m \in M \cup {NULL} : C[Renamed(n, v, m)] = B[m]
    <3>1. C[v] = B[n]
      BY <2>2
    <3>2. \A m \in M \cup {NULL} : m # n => C[m] = B[m]
      BY <2>2
    <3>. QED
      BY <3>1, <3>2 DEF Renamed
  <2>. QED
    BY <2>3, <2>4, <2>5
<1> HIDE DEF C
<1>6. ASSUME NEW x \in E
      PROVE  PartOK(u, j, C, x)
  <2>1. PICK m \in M : x = k[m]
    BY <1>1
  <2>2. \A s \in Sides : t[m][s] \in M \cup {NULL}
    BY DEF Links, Child_OK
  <2>3. /\ \A s \in Sides : u[x][s] = Renamed(n, v, t[m][s])
        /\ u[x].left = Renamed(n, v, t[m].left) /\ u[x].right = Renamed(n, v, t[m].right)
    BY <1>1, <2>1 DEF SwapOf
  <2>4. \A s \in Sides : C[u[x][s]] = B[t[m][s]]
    BY <1>5, <2>2, <2>3
  <2>5. C[u[x].left] = B[t[m].left] /\ C[u[x].right] = B[t[m].right]
    BY <1>5, <2>2, <2>3 DEF Sides
  <2>6. C[x] = B[m] /\ j[x] = k[m]
    BY <1>1, <1>2, <1>5, <2>1
  <2>7. PartOK(t, k, B, m)
    BY <1>4
  <2>. QED
    BY <2>4, <2>5, <2>6, <2>7 DEF PartOK
<1>7. r1 \in E \cup {NULL} /\ C[r1] = E
  <2>1. CASE t[n].parent = NULL
    <3>1. n = r
      BY <2>1 DEF Links, Parent_OK
    <3>2. Renamed(n, v, n) = v
      BY DEF Renamed
    <3>. QED
      BY <1>4, <1>5, <2>1, <3>1, <3>2
  <2>2. CASE t[n].parent # NULL
    <3>1. r # n
      BY <2>2 DEF Links
    <3>2. Renamed(n, v, r) = r
      BY <3>1 DEF Renamed
    <3>. QED
      BY <1>4, <1>5, <2>2, <3>1, <3>2
  <2>. QED
    BY <2>1, <2>2
<1> HIDE DEF r1, E
<1>8. Parts(u, E, r1, j, C)
  BY <1>2, <1>5, <1>6, <1>7 DEF Parts
<1>9. E \subseteq Int
  BY DEF E
<1>. QED
  BY <1>8, <1>9 DEF Ordered, j, r1, E

-----------------------------------------------------------------------------
(* A node that is replaced counts as its victim once that is detached. *)
Key(n) == IF victim # NULL /\ n = moving THEN victim ELSE n

(* What the subtrees hold, and what the two searches know of their place *)
InParts(B) ==
  /\ Parts(tree, Linked, root, [m \in Linked |-> Key(m)], B)
  /\ pc = "search" => OnItsSides(tree, DOMAIN tree, B, moving, at)
  /\ pc = "seek" => Leftmost(tree, DOMAIN tree, B, moving, at)

(* The inductive invariant of the order: IInv, and the sets of the         *)
(* subtrees exist.                                                         *)
OInv ==
  /\ IInv
  /\ IsFiniteSet(DOMAIN tree)
  /\ victim # NULL => tree[victim].right \in Linked \cup {NULL}
  /\ \E B : InParts(B)

(* When no victim is detached all nodes are linked and count as            *)
(* themselves.                                                             *)
LEMMA WithoutVictim ==
  ASSUME IInv, victim = NULL
  PROVE  /\ Linked = DOMAIN tree /\ NULL \notin DOMAIN tree /\ tree \in Trees(DOMAIN tree)
         /\ Links(tree, DOMAIN tree, root) /\ DOMAIN tree \subseteq Int
         /\ \A B : Parts(tree, Linked, root, [m \in Linked |-> Key(m)], B)
                     <=> Ordered(tree, DOMAIN tree, root, B)
<1>1. /\ Linked = DOMAIN tree /\ NULL \notin DOMAIN tree /\ tree \in Trees(DOMAIN tree)
      /\ Links(tree, DOMAIN tree, root) /\ DOMAIN tree \subseteq Int
  BY NullFacts, AvlAssumption DEF IInv, Shape
<1>2. [m \in Linked |-> Key(m)] = [m \in DOMAIN tree |-> m]
  BY <1>1 DEF Key
<1>. QED
  BY <1>1, <1>2 DEF Ordered

(* The empty tree is in order. *)
LEMMA InitOInv == Init => OInv
<1> SUFFICES ASSUME Init PROVE OInv
  OBVIOUS
<1>1. IInv /\ victim = NULL
  BY InitIInv DEF Init
<1>2. /\ Linked = DOMAIN tree /\ DOMAIN tree \subseteq Int
      /\ \A B : Parts(tree, Linked, root, [m \in Linked |-> Key(m)], B)
                  <=> Ordered(tree, DOMAIN tree, root, B)
  BY <1>1, WithoutVictim
<1>3. DOMAIN tree = {} /\ root = NULL /\ pc = "idle"
  BY DEF Init
<1>4. IsFiniteSet(DOMAIN tree)
  BY <1>3, FS_EmptySet
<1> DEFINE B == [x \in {NULL} |-> {}]
<1>5. Ordered(tree, DOMAIN tree, root, B)
  <2>1. {[m \in {} |-> m][n] : n \in {}} = {}
    OBVIOUS
  <2>2. B \in [{} \cup {NULL} -> SUBSET {}] /\ B[NULL] = {}
    OBVIOUS
  <2> HIDE DEF B
  <2>. QED
    BY <1>2, <1>3, <2>1, <2>2 DEF Ordered, Parts
<1>. QED
  BY <1>1, <1>2, <1>3, <1>4, <1>5 DEF OInv, InParts

(* The nodes that the user sees *)
Held == {Key(n) : n \in Linked}

(* avl_fix() keeps the order and the nodes. *)
LEMMA FixKeepsOInv ==
  ASSUME OInv, avl_fix, IInv'
  PROVE  OInv' /\ Held' = Held
<1> DEFINE D == DOMAIN tree
           p == tree[at].parent
           top == Top(tree, at)
           k == [m \in Linked |-> Key(m)]
<1>1. /\ NULL \notin D /\ Linked \in SUBSET D /\ tree \in Trees(D) /\ D \subseteq Nodes
      /\ Links(tree, Linked, root)
  BY NullFacts DEF OInv, IInv, Shape
<1>2. pc = "fix" /\ at \in Linked /\ (victim # NULL => victim \in D)
  BY DEF OInv, IInv, Loops, avl_fix
<1>3. /\ tree' = Step(tree, at) /\ at' = p
      /\ p = NULL => root' = top /\ pc' = (IF victim = NULL THEN "idle" ELSE "swap")
      /\ p # NULL => root' = root /\ pc' = "fix"
      /\ moving' = moving /\ victim' = victim
  BY <1>2 DEF avl_fix, Step, Top
<1>4. PICK x \in {at, p} : OrderlyBut(tree, Linked, x)
  BY <1>2 DEF OInv, IInv, Heights
<1>5. PICK B : Parts(tree, Linked, root, k, B)
  BY DEF OInv, InParts
<1> HIDE DEF k
<1>6. /\ tree' \in Trees(D)
      /\ \E C : Parts(tree', Linked, IF p = NULL THEN top ELSE root, k, C)
      /\ \A m \in D \ Linked : tree'[m].right = tree[m].right
  <2>1. CASE x = at
    <3>1. AllBut(tree, Linked, at)
      BY <1>1, <1>2, <1>4, <2>1 DEF OrderlyBut, AllBut
    <3>2. Stepped(D, tree, Linked, root, at, Step(tree, at), top)
      BY <1>1, <1>2, <3>1, StepFacts
    <3>3. \A m \in D \ Linked : tree'[m].right = tree[m].right
      BY <1>1, <1>2, <1>3, <3>1, StepOthers
    <3>4. \E C : Parts(tree', Linked, IF p = NULL THEN top ELSE root, k, C)
      BY <1>1, <1>2, <1>3, <1>5, <3>1, StepParts
    <3>. QED
      BY <1>3, <3>2, <3>3, <3>4 DEF Stepped
  <2>2. CASE x = p
    <3>0. p # NULL => SideOfParent(tree, Linked, at)
      BY <1>1, <1>2, FromFacts
    <3>1. at # p
      BY <1>1, <1>2, <3>0 DEF SideOfParent
    <3>2. Fresh(tree, at)
      BY <1>2, <1>4, <2>2, <3>1 DEF OrderlyBut
    <3>3. tree' = tree /\ top = at
      BY <1>1, <1>2, <1>3, <3>2, StepFresh
    <3>4. p = NULL => root = at
      BY <1>1, <1>2 DEF Links, Parent_OK
    <3>. QED
      BY <1>1, <1>5, <3>3, <3>4
  <2>. QED
    BY <2>1, <2>2
<1> HIDE DEF p, top
<1>7. DOMAIN tree' = D /\ Linked' = Linked
  BY <1>3, <1>6 DEF Trees, Linked
<1>8. /\ [m \in Linked' |-> Key(m)'] = k
      /\ Held' = Held
  BY <1>3, <1>7 DEF Key, k, Held
<1>9. PICK C : Parts(tree', Linked', root', [m \in Linked' |-> Key(m)'], C)
  BY <1>3, <1>6, <1>7, <1>8
<1>10. InParts(C)'
  BY <1>3, <1>9 DEF InParts
<1>11. victim' # NULL => tree'[victim'].right \in Linked' \cup {NULL}
  <2>1. victim # NULL => victim \in D \ Linked
    BY <1>2 DEF Linked
  <2>. QED
    BY <1>3, <1>6, <1>7, <2>1 DEF OInv
<1>12. IsFiniteSet(DOMAIN tree')
  BY <1>7 DEF OInv
<1>. QED
  BY <1>8, <1>10, <1>11, <1>12 DEF OInv

(* The two ways down know their place from one node to the next. *)
LEMMA SearchKeepsOInv ==
  ASSUME OInv, NEW n \in Nodes, tree_insert(n) \/ Search, IInv'
  PROVE  OInv' /\ Held' = Held
<1> DEFINE D == DOMAIN tree
<1>1. IInv /\ victim = NULL /\ pc \in {"idle", "search"}
  BY DEF OInv, IInv, Loops, tree_insert, Search
<1>2. tree' = tree /\ root' = root /\ victim' = victim /\ pc' = "search" /\ Linked' = Linked
  BY DEF tree_insert, Search, Linked
<1>3. /\ Linked = D /\ NULL \notin D /\ tree \in Trees(D)
      /\ Links(tree, D, root) /\ D \subseteq Int
      /\ \A B : Parts(tree, Linked, root, [m \in Linked |-> Key(m)], B)
                     <=> Ordered(tree, D, root, B)
  BY <1>1, WithoutVictim
<1>4. PICK B : Ordered(tree, D, root, B) /\ InParts(B)
  BY <1>3 DEF OInv, InParts
<1>5. \A m \in D : Key(m)' = Key(m)
  BY <1>1, <1>2 DEF Key
<1>6. Parts(tree', Linked', root', [m \in Linked' |-> Key(m)'], B)
  <2>1. [m \in Linked' |-> Key(m)'] = [m \in Linked |-> Key(m)]
    BY <1>2, <1>3, <1>5
  <2>. QED
    BY <1>2, <1>4, <2>1 DEF InParts
<1>7. Held' = Held
  BY <1>2, <1>3, <1>5 DEF Held
<1>8. OnItsSides(tree, D, B, moving', at')
  <2>1. CASE tree_insert(n)
    <3>1. at' = NULL
      BY <2>1 DEF tree_insert, OInv, IInv, Loops
    <3>2. \A m \in D, z \in Sides : NULL \notin B[tree[m][z]]
      <4>1. \A m \in D, z \in Sides : NodeOrdered(tree, D, B, m, z)
        BY <1>3, <1>4, OrderedFacts
      <4>. QED
        BY <1>3, <4>1 DEF NodeOrdered
    <3>. QED
      BY <3>1, <3>2 DEF OnItsSides
  <2>2. CASE Search
    <3>1. /\ pc = "search" /\ at \in D \cup {NULL} /\ moving \in Nodes \ D
          /\ at' = Place /\ Place # NULL /\ moving' = moving
      BY <2>2 DEF Search, OInv, IInv, Loops
    <3>2. moving \in Int
      BY <3>1, AvlAssumption
    <3>3. OnItsSides(tree, D, B, moving, at)
      BY <1>4, <3>1 DEF InParts
    <3> DEFINE s == Side(moving, at)
               b == IF at = NULL THEN root ELSE tree[at][s]
    <3>4. s \in Sides /\ (at # NULL => Before(s, moving, at))
      BY <1>3, <3>1, <3>2 DEF Side, Sides, Before
    <3>5. at' = b /\ b # NULL
      BY <3>1 DEF Place
    <3>6. b \in D
      BY <1>3, <3>1, <3>4, <3>5, Fieldwise DEF Links
    <3> HIDE DEF s
    <3>7. OnItsSides(tree, D, B, moving, b)
      <4>1. IsFiniteSet(D)
        BY DEF OInv
      <4> HIDE DEF D
      <4>. QED
        BY <1>3, <1>4, <3>1, <3>2, <3>3, <3>4, <3>6, <4>1, SearchFacts
    <3>. QED
      BY <3>1, <3>5, <3>7
  <2>. QED
    BY <2>1, <2>2
<1>9. InParts(B)'
  BY <1>2, <1>6, <1>8 DEF InParts
<1>. QED
  BY <1>1, <1>2, <1>7, <1>9 DEF OInv

(* Neither does a deletion that begins with avl_del_easy() *)
LEMMA AskEasyKeepsOInv ==
  ASSUME OInv, NEW n \in Nodes, avl_del(n), pc' = "easy", IInv'
  PROVE  OInv' /\ Held' = Held
<1>1. pc' = "easy" /\ victim = NULL /\ UNCHANGED <<root, tree, at, victim>>
  BY DEF OInv, IInv, Loops, avl_del
<1>2. Linked' = Linked /\ \A m \in Linked : Key(m)' = Key(m)
  BY <1>1 DEF Linked, Key
<1>3. [m \in Linked' |-> Key(m)'] = [m \in Linked |-> Key(m)]
  BY <1>2
<1>4. PICK B : InParts(B)
  BY DEF OInv
<1>5. InParts(B)'
  BY <1>1, <1>2, <1>3, <1>4 DEF InParts
<1>6. Held' = Held
  BY <1>2 DEF Held
<1>. QED
  BY <1>1, <1>2, <1>5, <1>6 DEF OInv

(* nor does the search for the victim. *)
LEMMA SeekKeepsOInv ==
  ASSUME OInv, NEW n \in Nodes, (avl_del(n) /\ pc' = "seek") \/ Seek, IInv'
  PROVE  OInv' /\ Held' = Held
<1> DEFINE D == DOMAIN tree
<1>1. IInv /\ victim = NULL /\ pc \in {"idle", "seek"}
  BY DEF OInv, IInv, Loops, avl_del, Seek
<1>2. tree' = tree /\ root' = root /\ victim' = victim /\ pc' = "seek" /\ Linked' = Linked
  BY DEF avl_del, Seek, Linked
<1>3. /\ Linked = D /\ NULL \notin D /\ tree \in Trees(D)
      /\ Links(tree, D, root) /\ D \subseteq Int
      /\ \A B : Parts(tree, Linked, root, [m \in Linked |-> Key(m)], B)
                     <=> Ordered(tree, D, root, B)
  BY <1>1, WithoutVictim
<1>4. PICK B : Ordered(tree, D, root, B) /\ InParts(B)
  BY <1>3 DEF OInv, InParts
<1>5. \A m \in D : Key(m)' = Key(m)
  BY <1>1, <1>2 DEF Key
<1>6. Parts(tree', Linked', root', [m \in Linked' |-> Key(m)'], B)
  <2>1. [m \in Linked' |-> Key(m)'] = [m \in Linked |-> Key(m)]
    BY <1>2, <1>3, <1>5
  <2>. QED
    BY <1>2, <1>4, <2>1 DEF InParts
<1>7. Held' = Held
  BY <1>2, <1>3, <1>5 DEF Held
<1>8. Leftmost(tree, D, B, moving', at')
  <2>1. CASE avl_del(n) /\ pc' = "seek"
    <3>1. n \in D /\ moving' = n /\ at' = tree[n].right /\ tree[n].right # NULL
      BY <2>1 DEF avl_del
    <3>2. at' \in D
      BY <1>3, <3>1, Fieldwise
    <3>3. NodeOrdered(tree, D, B, at', "left")
      BY <1>3, <1>4, <3>2, OrderedFacts DEF Sides
    <3>4. B[at'] = {at'} \cup B[tree[at'].left] \cup B[tree[at'].right] /\ B[at'] \subseteq Int
      BY <1>3, <3>3 DEF NodeOrdered, Mirror
    <3>5. \A x \in B[at'] : x < at' => x \in B[at']
      OBVIOUS
    <3>. QED
      BY <3>1, <3>2, <3>4, <3>5 DEF Leftmost
  <2>2. CASE Seek
    <3>1. pc = "seek" /\ moving' = moving /\ at' = tree[at].left /\ tree[at].left # NULL
      BY <2>2 DEF Seek
    <3>2. Leftmost(tree, D, B, moving, at)
      BY <1>4, <3>1 DEF InParts
    <3>3. Leftmost(tree, D, B, moving, tree[at].left)
      <4> HIDE DEF D
      <4>. QED
        BY <1>3, <1>4, <3>1, <3>2, SeekFacts
    <3>. QED
      BY <3>1, <3>3
  <2>. QED
    BY <2>1, <2>2
<1>9. InParts(B)'
  BY <1>2, <1>6, <1>8 DEF InParts
<1>. QED
  BY <1>1, <1>2, <1>7, <1>9 DEF OInv

(* The node that the search was for *)
LEMMA LinkKeepsOInv ==
  ASSUME OInv, Link, IInv'
  PROVE  /\ OInv'
         /\ moving \in Nodes \ Held /\ Held' = Held \cup {moving}
<1> DEFINE D == DOMAIN tree
           s == Side(moving, at)
           E == D \cup {moving}
           r1 == IF at = NULL THEN moving ELSE root
<1>1. /\ IInv /\ victim = NULL /\ pc = "search" /\ at \in D \cup {NULL} /\ moving \in Nodes \ D
      /\ OrderlyBut(tree, D, NULL) /\ IsFiniteSet(D)
  BY NullFacts DEF OInv, IInv, Loops, Heights, Link, Shape
<1>2. /\ tree' = Inserted(tree, moving, at, s) /\ root' = r1
      /\ pc' = "fix" /\ at' = moving /\ victim' = NULL
  BY <1>1 DEF Link, Inserted
<1>3. /\ Linked = D /\ NULL \notin D /\ tree \in Trees(D)
      /\ Links(tree, D, root) /\ D \subseteq Int
      /\ \A B : Parts(tree, Linked, root, [m \in Linked |-> Key(m)], B)
                     <=> Ordered(tree, D, root, B)
  BY <1>1, WithoutVictim
<1>4. PICK B : Ordered(tree, D, root, B) /\ InParts(B)
  BY <1>3 DEF OInv, InParts
<1>5. OnItsSides(tree, D, B, moving, at)
  BY <1>1, <1>4 DEF InParts
<1>6. s \in Sides /\ moving # NULL /\ moving \in Int /\ (at # NULL => Before(s, moving, at))
  BY <1>1, <1>3, AvlAssumption DEF Side, Sides, Before
<1>7. /\ at = NULL => root = NULL
      /\ at # NULL => tree[at][s] = NULL
  BY DEF Link, Place
<1>8. \A m \in D : Fresh(tree, m)
  BY <1>1, <1>3 DEF OrderlyBut
<1> HIDE DEF s, D
<1>9. InsertionOf(D, tree, root, moving, at, s, tree')
  BY <1>1, <1>2, <1>3, <1>6, <1>7, <1>8, InsertedFacts
<1>10. \E C : Ordered(tree', E, r1, C)
  <2>1. \A m \in D, z \in Sides : at \in B[tree[m][z]] => Before(z, moving, m)
    BY <1>5 DEF OnItsSides
  <2>. QED
    BY <1>1, <1>3, <1>4, <1>6, <1>7, <1>9, <2>1, InsertedParts
<1>11. DOMAIN tree' = E /\ IsFiniteSet(E)
  <2>1. IsFiniteSet(E)
    BY <1>1, FS_AddElement
  <2>. QED
    BY <1>9, <2>1 DEF InsertionOf, Trees
<1>12. /\ Linked' = E
       /\ \A C : Parts(tree', Linked', root', [m \in Linked' |-> Key(m)'], C)
                     <=> Ordered(tree', E, r1, C)
  <2>1. Linked' = E
    BY <1>2, <1>6, <1>11, <1>3 DEF Linked
  <2>2. [m \in Linked' |-> Key(m)'] = [m \in E |-> m]
    BY <1>2, <2>1 DEF Key
  <2>3. E \subseteq Int
    BY <1>3, <1>6
  <2>. QED
    BY <1>2, <2>1, <2>2, <2>3 DEF Ordered
<1>13. PICK C : InParts(C)'
  BY <1>2, <1>10, <1>12 DEF InParts
<1>14. OInv'
  BY <1>2, <1>11, <1>13 DEF OInv
<1>15. Held = D /\ Held' = E
  BY <1>1, <1>2, <1>3, <1>12 DEF Held, Key
<1>. QED
  BY <1>1, <1>14, <1>15

(* A deletion takes its node out at once, *)
LEMMA DelEasyKeepsOInv ==
  ASSUME OInv, NEW n \in Nodes, n = moving, avl_del_easy, IInv'
  PROVE  /\ OInv'
         /\ n \in Held /\ Held' = Held \ {n}
<1> DEFINE D == DOMAIN tree
           E == D \ {n}
           u == Detached(tree, n)
           r1 == IF tree[n].parent = NULL THEN Child(tree, n) ELSE root
<1>1. /\ IInv /\ victim = NULL /\ pc = "easy" /\ n \in D /\ NULL \in {tree[n].left, tree[n].right}
      /\ OrderlyBut(tree, Linked, NULL) /\ IsFiniteSet(D)
  BY DEF OInv, IInv, Loops, Heights, avl_del_easy
<1>2. /\ tree' = Without(u, n) /\ root' = r1
      /\ pc' \in {"idle", "fix"} /\ victim' = NULL
  BY <1>1 DEF avl_del_easy
<1>3. /\ Linked = D /\ NULL \notin D /\ tree \in Trees(D)
      /\ Links(tree, D, root) /\ D \subseteq Int
      /\ \A B : Parts(tree, Linked, root, [m \in Linked |-> Key(m)], B)
                     <=> Ordered(tree, D, root, B)
  BY <1>1, WithoutVictim
<1>4. PICK B : Ordered(tree, D, root, B)
  BY <1>3 DEF OInv, InParts
<1>5. \A m \in D : Fresh(tree, m)
  BY <1>1, <1>3 DEF OrderlyBut
<1> HIDE DEF D, u, r1
<1>6. DetachmentOf(D, tree, D, root, n, u)
  BY <1>1, <1>3, <1>5, DetachedFacts DEF u
<1>7. PICK C : Ordered(u, E, r1, C)
  BY <1>1, <1>3, <1>4, <1>6, DetachedParts DEF r1
<1>8. u \in Trees(D) /\ tree' = [m \in E |-> u[m]] /\ DOMAIN tree' = E
  BY <1>2, <1>6 DEF DetachmentOf, Trees, Without
<1>9. Ordered(tree', E, r1, C)
  <2>1. \A m \in E : tree'[m].left = u[m].left /\ tree'[m].right = u[m].right
    BY <1>8
  <2>. QED
    BY <1>7, <2>1, SameParts DEF Ordered
<1>10. Linked' = E /\ E \subseteq Int
  BY <1>2, <1>3, <1>8 DEF Linked
<1>11. [m \in Linked' |-> Key(m)'] = [m \in E |-> m]
  BY <1>2, <1>10 DEF Key
<1>12. InParts(C)'
  BY <1>2, <1>9, <1>10, <1>11 DEF InParts, Ordered
<1>13. IsFiniteSet(DOMAIN tree')
  BY <1>1, <1>8, FS_RemoveElement
<1>14. OInv'
  BY <1>2, <1>12, <1>13 DEF OInv
<1>15. Held = D /\ Held' = E
  BY <1>1, <1>2, <1>3, <1>10 DEF Held, Key
<1>. QED
  BY <1>1, <1>14, <1>15

(* or when its victim is detached, *)
LEMMA DetachVictimKeepsOInv ==
  ASSUME OInv, DetachVictim, IInv'
  PROVE  /\ OInv'
         /\ moving \in Held \cap Nodes /\ Held' = Held \ {moving}
<1> DEFINE D == DOMAIN tree
           E == D \ {at}
<1>1. /\ IInv /\ victim = NULL /\ pc = "seek" /\ at \in D /\ moving \in D /\ tree[at].left = NULL
      /\ tree[at].parent # NULL /\ tree[at].height < tree[moving].height
      /\ OrderlyBut(tree, Linked, NULL) /\ IsFiniteSet(D) /\ D \subseteq Nodes
  BY DEF OInv, IInv, Loops, Heights, Shape, DetachVictim, Linked
<1>2. /\ tree' = Detached(tree, at) /\ root' = root
      /\ pc' = "fix" /\ moving' = moving /\ victim' = at
  BY DEF DetachVictim
<1>3. /\ Linked = D /\ NULL \notin D /\ tree \in Trees(D)
      /\ Links(tree, D, root) /\ D \subseteq Int
      /\ \A B : Parts(tree, Linked, root, [m \in Linked |-> Key(m)], B)
                     <=> Ordered(tree, D, root, B)
  BY <1>1, WithoutVictim
<1>4. PICK B : Ordered(tree, D, root, B) /\ InParts(B)
  BY <1>3 DEF OInv, InParts
<1>5. Leftmost(tree, D, B, moving, at)
  BY <1>1, <1>4 DEF InParts
<1> HIDE DEF D
<1>6. /\ \A m \in D : Fresh(tree, m) /\ tree[m].height \in Nat
  BY <1>1, <1>3, Fieldwise DEF OrderlyBut
<1>7. moving # at
  BY <1>1, <1>6
<1>8. DetachmentOf(D, tree, D, root, at, tree')
  BY <1>1, <1>2, <1>3, <1>6, DetachedFacts
<1>9. PICK C : VictimParts(D, tree, root, moving, at, tree', C)
  BY <1>1, <1>3, <1>4, <1>5, <1>7, <1>8, VictimFacts
<1>10. DOMAIN tree' = D /\ Linked' = E /\ at # NULL
  BY <1>1, <1>2, <1>3, <1>8 DEF DetachmentOf, Trees, Linked
<1>11. [m \in Linked' |-> Key(m)'] = [m \in E |-> IF m = moving THEN at ELSE m]
  BY <1>2, <1>10 DEF Key
<1>12. InParts(C)'
  BY <1>2, <1>9, <1>10, <1>11 DEF InParts, VictimParts
<1>13. tree'[at].right \in E \cup {NULL}
  <2>1. tree'[at].right = tree[at].right
    BY <1>1, <1>8 DEF DetachmentOf
  <2>2. tree[at].right \in D \cup {NULL}
    BY <1>1, <1>3, Fieldwise
  <2>3. tree[at].right # at
    BY <1>1, <1>3 DEF Links, Child_OK, Sides
  <2>. QED
    BY <2>1, <2>2, <2>3
<1>14. OInv'
  BY <1>1, <1>2, <1>10, <1>12, <1>13 DEF OInv
<1>15. Held = D
  BY <1>1, <1>3 DEF Held, Key
<1>16. Held' = D \ {moving}
  <2>1. \A m \in E : Key(m)' = IF m = moving THEN at ELSE m
    BY <1>2, <1>10 DEF Key
  <2>2. Held' = {IF m = moving THEN at ELSE m : m \in E}
    BY <1>10, <2>1 DEF Held
  <2>3. \A x \in D \ {moving} : x # at => x \in E
    OBVIOUS
  <2>4. moving \in E
    BY <1>1, <1>7
  <2>. QED
    BY <1>1, <1>7, <2>2, <2>3, <2>4
<1>. QED
  BY <1>1, <1>14, <1>15, <1>16

(* which then takes its place. *)
LEMMA SwapVictimKeepsOInv ==
  ASSUME OInv, SwapVictim, IInv'
  PROVE  OInv' /\ Held' = Held
<1> DEFINE D == DOMAIN tree
           E == D \ {moving}
           u == Swapped(tree, moving, victim)
           r1 == IF tree[moving].parent = NULL THEN victim ELSE root
<1>1. /\ NULL \notin D /\ Linked = D \ {victim} /\ tree \in Trees(D) /\ D \subseteq Nodes
      /\ victim \in D /\ moving \in D \ {victim}
      /\ Links(tree, D \ {victim}, root) /\ OrderlyBut(tree, D \ {victim}, NULL)
      /\ IsFiniteSet(D) /\ D \subseteq Int
  BY NullFacts, AvlAssumption DEF OInv, IInv, Shape, Loops, Heights, SwapVictim, Linked
<1>2. /\ tree' = Without(u, moving) /\ root' = r1
      /\ pc' = "idle" /\ victim' = NULL
  BY <1>1 DEF SwapVictim, Swapped
<1>3. \A m \in D \ {victim} : Fresh(tree, m)
  BY <1>1 DEF OrderlyBut
<1>4. [m \in Linked |-> Key(m)] = [m \in D \ {victim} |-> IF m = moving THEN victim ELSE m]
  BY <1>1 DEF Key
<1>5. PICK B : Parts(tree, D \ {victim}, root, [m \in D \ {victim} |-> IF m = moving THEN victim ELSE m], B)
  BY <1>1, <1>4 DEF OInv, InParts
<1> HIDE DEF D, u, r1
<1>6. SwapOf(D, tree, moving, victim, u)
  BY <1>1, <1>3, SwappedFacts DEF u
<1>7. PICK C : Ordered(u, E, r1, C)
  BY <1>1, <1>5, <1>6, SwapParts DEF r1
<1>8. u \in Trees(D) /\ tree' = [m \in E |-> u[m]] /\ DOMAIN tree' = E
  BY <1>2, <1>6 DEF SwapOf, Trees, Without
<1>9. Ordered(tree', E, r1, C)
  <2>1. \A m \in E : tree'[m].left = u[m].left /\ tree'[m].right = u[m].right
    BY <1>8
  <2>. QED
    BY <1>7, <2>1, SameParts DEF Ordered
<1>10. Linked' = E /\ E \subseteq Int
  BY <1>1, <1>2, <1>8 DEF Linked
<1>11. [m \in Linked' |-> Key(m)'] = [m \in E |-> m]
  BY <1>2, <1>10 DEF Key
<1>12. InParts(C)'
  BY <1>2, <1>9, <1>10, <1>11 DEF InParts, Ordered
<1>13. IsFiniteSet(DOMAIN tree')
  BY <1>1, <1>8, FS_RemoveElement
<1>14. OInv'
  BY <1>2, <1>12, <1>13 DEF OInv
<1>15. Held = E
  <2>1. \A m \in Linked : Key(m) = IF m = moving THEN victim ELSE m
    BY <1>1 DEF Key
  <2>2. Held = {IF m = moving THEN victim ELSE m : m \in D \ {victim}}
    BY <1>1, <2>1 DEF Held
  <2>. QED
    BY <1>1, <2>2
<1>16. Held' = E
  BY <1>2, <1>10 DEF Held, Key
<1>. QED
  BY <1>14, <1>15, <1>16

(* What a step does to the node that is asked for *)
AskStep ==
  /\ Held' = Held
  /\ Asked' = Asked \/ (Asked = NULL /\ Asked' \in Nodes)

DoneStep(n) == Asked = n /\ Asked' = NULL

(* What any step does to the nodes that the user sees: it changes nothing, *)
(* or it inserts or deletes the one that was asked for. *)
HeldStep ==
  \/ AskStep
  \/ \E n \in Nodes : DoneStep(n) /\ n \notin Held /\ Held' = Held \cup {n}
  \/ \E n \in Nodes : DoneStep(n) /\ n \in Held /\ Held' = Held \ {n}

(* avl_fix() and the searches keep the request, *)
LEMMA AskedKept ==
  ASSUME avl_fix \/ Search \/ Seek \/ UNCHANGED vars
  PROVE  Asked' = Asked
BY DEF avl_fix, Search, Seek, vars, Asked

(* a request is made when there is none, *)
LEMMA AskedMade ==
  ASSUME IInv, NEW n \in Nodes, tree_insert(n) \/ avl_del(n)
  PROVE  Asked = NULL /\ Asked' = n
<1>1. /\ pc = "idle" /\ moving' = n /\ victim' = victim
  BY DEF tree_insert, avl_del
<1>2. victim = NULL /\ moving = NULL
  BY <1>1 DEF IInv, Loops
<1>. QED
  BY <1>1, <1>2 DEF Asked

(* and done with when the node enters or leaves the order. *)
LEMMA AskedDone ==
  ASSUME IInv, Link \/ avl_del_easy \/ DetachVictim
  PROVE  DoneStep(moving)
<1>1. victim = NULL
  BY DEF IInv, Loops, Link, avl_del_easy, DetachVictim
<1>2. CASE Link \/ avl_del_easy
  BY <1>1, <1>2 DEF Link, avl_del_easy, Asked, DoneStep
<1>3. CASE DetachVictim
  <2>1. victim' = at /\ at # NULL
    BY <1>3, NullFacts DEF DetachVictim, IInv, Loops, Shape
  <2>. QED
    BY <1>1, <2>1 DEF Asked, DoneStep
<1>. QED
  BY <1>2, <1>3

(* Every step keeps the invariant, and the nodes change only by the        *)
(* operations' own.                                                        *)
LEMMA NextKeepsOInv == OInv /\ [Next]_vars => OInv' /\ HeldStep
<1> SUFFICES ASSUME OInv, [Next]_vars PROVE OInv' /\ HeldStep
  OBVIOUS
<1>0. IInv /\ IInv'
  BY NextKeepsIInv DEF OInv
<1>1. CASE avl_fix
  BY <1>0, <1>1, FixKeepsOInv, AskedKept DEF HeldStep, AskStep
<1>2. ASSUME NEW n \in Nodes, tree_insert(n)
      PROVE  OInv' /\ HeldStep
  BY <1>0, <1>2, SearchKeepsOInv, AskedMade DEF HeldStep, AskStep
<1>3. CASE Search
  <2>1. moving \in Nodes
    BY <1>3 DEF Search, OInv, IInv, Loops
  <2>. QED
    BY <1>0, <1>3, <2>1, SearchKeepsOInv, AskedKept DEF HeldStep, AskStep
<1>4. CASE Link
  BY <1>0, <1>4, LinkKeepsOInv, AskedDone DEF HeldStep
<1>5. CASE avl_del_easy
  <2>1. moving \in Nodes
    BY <1>0, <1>5 DEF avl_del_easy, IInv, Loops, Shape
  <2>2. OInv' /\ moving \in Held /\ Held' = Held \ {moving}
    BY <1>0, <1>5, <2>1, DelEasyKeepsOInv
  <2>. QED
    BY <1>0, <1>5, <2>1, <2>2, AskedDone DEF HeldStep
<1>6. ASSUME NEW n \in Nodes, avl_del(n)
      PROVE  OInv' /\ HeldStep
  <2>1. pc' \in {"easy", "seek"}
    BY <1>6 DEF avl_del
  <2>2. OInv' /\ Held' = Held
    BY <1>0, <1>6, <2>1, AskEasyKeepsOInv, SeekKeepsOInv
  <2>. QED
    BY <1>0, <1>6, <2>2, AskedMade DEF HeldStep, AskStep
<1>7. CASE Seek
  <2>1. moving \in Nodes
    BY <1>7 DEF Seek, OInv, IInv, Loops, Shape
  <2>. QED
    BY <1>0, <1>7, <2>1, SeekKeepsOInv, AskedKept DEF HeldStep, AskStep
<1>8. CASE DetachVictim
  BY <1>0, <1>8, DetachVictimKeepsOInv, AskedDone DEF HeldStep
<1>9. CASE SwapVictim
  <2>1. Asked' = Asked
    BY <1>0, <1>9 DEF SwapVictim, IInv, Loops, Asked
  <2>. QED
    BY <1>0, <1>9, <2>1, SwapVictimKeepsOInv DEF HeldStep, AskStep
<1>10. CASE UNCHANGED vars
  <2>1. UNCHANGED <<root, tree, pc, at, moving, victim>>
    BY <1>10 DEF vars
  <2>2. Held' = Held
    BY <2>1 DEF Held, Linked, Key
  <2>3. OInv'
    BY <1>0, <2>1 DEF OInv, InParts, Linked, Key, Parts, PartOK, OnItsSides, Leftmost
  <2>. QED
    BY <1>10, <2>2, <2>3, AskedKept DEF HeldStep, AskStep
<1>. QED
  BY <1>1, <1>2, <1>3, <1>4, <1>5, <1>6, <1>7, <1>8, <1>9, <1>10 DEF Next

(* So it always holds. *)
LEMMA SpecOInv == Spec => []OInv
BY InitOInv, NextKeepsOInv, PTL DEF Spec

-----------------------------------------------------------------------------
(* What an insertion and a deletion make of a sequence *)
LEMMA SeqFacts ==
  ASSUME NEW S, NEW t \in Seq(S)
  PROVE  Len(t) \in Nat /\ DOMAIN t = 1 .. Len(t) /\ \A i \in 1 .. Len(t) : t[i] \in S
BY LenProperties, ElementOfSeq

(* A piece of a sequence. *)
LEMMA PieceFacts ==
  ASSUME NEW S, NEW t \in Seq(S), NEW a \in 1 .. Len(t) + 1, NEW b \in a - 1 .. Len(t)
  PROVE  /\ SubSeq(t, a, b) \in Seq(S) /\ Len(SubSeq(t, a, b)) = b - a + 1
         /\ \A i \in 1 .. b - a + 1 : SubSeq(t, a, b)[i] = t[a + i - 1]
<1>1. Len(t) \in Nat /\ \A i \in 1 .. Len(t) : t[i] \in S
  BY SeqFacts
<1>2. a \in Int /\ b \in Int /\ \A i \in a .. b : t[i] \in S
  BY <1>1
<1>3. /\ SubSeq(t, a, b) \in Seq(S)
      /\ Len(SubSeq(t, a, b)) = IF a <= b THEN b - a + 1 ELSE 0
      /\ \A i \in 1 .. b - a + 1 : SubSeq(t, a, b)[i] = t[a + i - 1]
  BY <1>2, SubSeqProperties
<1>. QED
  BY <1>1, <1>2, <1>3

(* A sequence after another. *)
LEMMA TwoPieces ==
  ASSUME NEW S, NEW p \in Seq(S), NEW q \in Seq(S)
  PROVE  /\ p \o q \in Seq(S) /\ Len(p \o q) = Len(p) + Len(q)
         /\ \A i \in 1 .. Len(p) : (p \o q)[i] = p[i]
         /\ \A i \in Len(p) + 1 .. Len(p) + Len(q) : (p \o q)[i] = q[i - Len(p)]
<1>1. /\ p \o q \in Seq(S) /\ Len(p \o q) = Len(p) + Len(q)
      /\ \A i \in 1 .. Len(p) + Len(q) :
           (p \o q)[i] = IF i <= Len(p) THEN p[i] ELSE q[i - Len(p)]
  BY ConcatProperties
<1>2. Len(p) \in Nat /\ Len(q) \in Nat
  BY LenProperties
<1>3. \A i \in 1 .. Len(p) : i \in 1 .. Len(p) + Len(q) /\ i <= Len(p)
  BY <1>2
<1>4. \A i \in Len(p) + 1 .. Len(p) + Len(q) : i \in 1 .. Len(p) + Len(q) /\ ~(i <= Len(p))
  BY <1>2
<1>. QED
  BY <1>1, <1>3, <1>4

(* A sequence with n after its first k elements *)
Put(t, k, n) == SubSeq(t, 1, k) \o <<n>> \o SubSeq(t, k + 1, Len(t))

(* What u has of t: n after its first k elements *)
Lengthened(S, t, k, n, u) ==
  /\ u \in Seq(S) /\ Len(u) = Len(t) + 1
  /\ \A i \in 1 .. k : u[i] = t[i]
  /\ u[k + 1] = n
  /\ \A i \in k + 2 .. Len(t) + 1 : u[i] = t[i - 1]

(* Put does that. *)
LEMMA Inserting ==
  ASSUME NEW S, NEW n \in S, NEW t \in Seq(S), NEW k \in 0 .. Len(t)
  PROVE  Lengthened(S, t, k, n, Put(t, k, n))
<1> DEFINE l == Len(t)
           p == SubSeq(t, 1, k)
           o == <<n>>
           q == SubSeq(t, k + 1, l)
           v == p \o o
           u == v \o q
<1>0. l \in Nat /\ l = Len(t)
  BY LenProperties
<1> HIDE DEF l
<1>1. /\ l \in Nat /\ k \in Nat /\ l - k \in Nat /\ 1 \in 1 .. l + 1 /\ k \in 1 - 1 .. l
      /\ k + 1 \in 1 .. l + 1 /\ l \in k + 1 - 1 .. l
      /\ l - (k + 1) + 1 = l - k /\ k - 1 + 1 = k
  BY <1>0
<1>2. /\ p \in Seq(S) /\ Len(p) = k - 1 + 1
      /\ \A i \in 1 .. k - 1 + 1 : p[i] = t[1 + i - 1]
  BY <1>0, <1>1, PieceFacts
<1>3. /\ q \in Seq(S) /\ Len(q) = l - (k + 1) + 1
      /\ \A i \in 1 .. l - (k + 1) + 1 : q[i] = t[k + 1 + i - 1]
  BY <1>0, <1>1, PieceFacts
<1>4. o \in Seq(S) /\ Len(o) = 1 /\ o[1] = n
  OBVIOUS
<1>5. u = v \o q /\ v = p \o o
  OBVIOUS
<1>6. /\ Len(t) = l /\ Put(t, k, n) = u
  BY <1>0 DEF Put
<1> HIDE DEF p, o, q, v, u
<1>7. Len(p) = k /\ Len(q) = l - k
  BY <1>1, <1>2, <1>3
<1>8. /\ v \in Seq(S) /\ Len(v) = k + 1
      /\ \A i \in 1 .. k : v[i] = p[i]
      /\ \A i \in k + 1 .. k + 1 : v[i] = o[i - k]
  <2>1. /\ v \in Seq(S) /\ Len(v) = Len(p) + Len(o)
        /\ \A i \in 1 .. Len(p) : v[i] = p[i]
        /\ \A i \in Len(p) + 1 .. Len(p) + Len(o) : v[i] = o[i - Len(p)]
    BY ONLY <1>2, <1>4, <1>5, TwoPieces
  <2>. QED
    BY ONLY <1>4, <1>7, <2>1
<1>9. /\ u \in Seq(S) /\ Len(u) = k + 1 + (l - k)
      /\ \A i \in 1 .. k + 1 : u[i] = v[i]
      /\ \A i \in k + 1 + 1 .. k + 1 + (l - k) : u[i] = q[i - (k + 1)]
  <2>1. /\ u \in Seq(S) /\ Len(u) = Len(v) + Len(q)
        /\ \A i \in 1 .. Len(v) : u[i] = v[i]
        /\ \A i \in Len(v) + 1 .. Len(v) + Len(q) : u[i] = q[i - Len(v)]
    <3>1. u = v \o q
      BY <1>5
    <3>2. v \in Seq(S)
      BY <1>8
    <3>3. q \in Seq(S)
      BY <1>3
    <3>. QED
      BY ONLY <3>1, <3>2, <3>3, TwoPieces
  <2>. QED
    BY ONLY <1>7, <1>8, <2>1
<1>10. Len(u) = l + 1
  BY ONLY <1>1, <1>9
<1>11. \A i \in 1 .. k : u[i] = t[i]
  <2> SUFFICES ASSUME NEW i \in 1 .. k
               PROVE  u[i] = t[i]
    OBVIOUS
  <2>1. i \in 1 .. k + 1 /\ 1 + i - 1 = i /\ i \in 1 .. k - 1 + 1
    BY <1>1
  <2>. QED
    BY <1>2, <1>8, <1>9, <2>1
<1>12. u[k + 1] = n
  <2>1. k + 1 \in 1 .. k + 1 /\ k + 1 \in k + 1 .. k + 1 /\ k + 1 - k = 1
    BY <1>1
  <2>2. v[k + 1] = o[1]
    BY <1>8, <2>1
  <2>. QED
    BY <1>4, <1>9, <2>1, <2>2
<1>13. \A i \in k + 2 .. l + 1 : u[i] = t[i - 1]
  <2> SUFFICES ASSUME NEW i \in k + 2 .. l + 1
               PROVE  u[i] = t[i - 1]
    OBVIOUS
  <2>1. /\ i - (k + 1) \in 1 .. l - (k + 1) + 1 /\ k + 1 + (i - (k + 1)) - 1 = i - 1
        /\ i \in k + 1 + 1 .. k + 1 + (l - k)
    BY <1>1
  <2>2. q[i - (k + 1)] = t[i - 1]
    BY <1>3, <2>1
  <2>. QED
    BY <1>9, <2>1, <2>2
<1>. QED
  BY <1>6, <1>9, <1>10, <1>11, <1>12, <1>13 DEF Lengthened

(* A sequence without its element k. *)
LEMMA Removing ==
  ASSUME NEW S, NEW t \in Seq(S), NEW k \in 1 .. Len(t)
  PROVE  LET u == SubSeq(t, 1, k - 1) \o SubSeq(t, k + 1, Len(t))
         IN  /\ u \in Seq(S) /\ Len(u) = Len(t) - 1
             /\ \A i \in 1 .. k - 1 : u[i] = t[i]
             /\ \A i \in k .. Len(t) - 1 : u[i] = t[i + 1]
<1> DEFINE l == Len(t)
           p == SubSeq(t, 1, k - 1)
           q == SubSeq(t, k + 1, l)
           u == p \o q
<1>0. l \in Nat /\ l = Len(t)
  BY LenProperties
<1> HIDE DEF l
<1>1. /\ l \in Nat /\ k - 1 \in Nat /\ l - k \in Nat /\ 1 \in 1 .. l + 1 /\ k - 1 \in 1 - 1 .. l
      /\ k + 1 \in 1 .. l + 1 /\ l \in k + 1 - 1 .. l
      /\ l - (k + 1) + 1 = l - k /\ k - 1 - 1 + 1 = k - 1 /\ k - 1 + (l - k) = l - 1
  BY <1>0
<1>2. /\ p \in Seq(S) /\ Len(p) = k - 1 - 1 + 1
      /\ \A i \in 1 .. k - 1 - 1 + 1 : p[i] = t[1 + i - 1]
  BY <1>0, <1>1, PieceFacts
<1>3. /\ q \in Seq(S) /\ Len(q) = l - (k + 1) + 1
      /\ \A i \in 1 .. l - (k + 1) + 1 : q[i] = t[k + 1 + i - 1]
  BY <1>0, <1>1, PieceFacts
<1>4. u = p \o q
  OBVIOUS
<1>5. /\ Len(t) = l /\ SubSeq(t, 1, k - 1) \o SubSeq(t, k + 1, Len(t)) = u
  BY <1>0
<1> HIDE DEF p, q, u
<1>6. Len(p) = k - 1 /\ Len(q) = l - k
  BY <1>1, <1>2, <1>3
<1>7. /\ u \in Seq(S) /\ Len(u) = k - 1 + (l - k)
      /\ \A i \in 1 .. k - 1 : u[i] = p[i]
      /\ \A i \in k - 1 + 1 .. k - 1 + (l - k) : u[i] = q[i - (k - 1)]
  <2>1. /\ u \in Seq(S) /\ Len(u) = Len(p) + Len(q)
        /\ \A i \in 1 .. Len(p) : u[i] = p[i]
        /\ \A i \in Len(p) + 1 .. Len(p) + Len(q) : u[i] = q[i - Len(p)]
    BY ONLY <1>2, <1>3, <1>4, TwoPieces
  <2>. QED
    BY ONLY <1>6, <2>1
<1>8. \A i \in 1 .. k - 1 : u[i] = t[i]
  <2> SUFFICES ASSUME NEW i \in 1 .. k - 1
               PROVE  u[i] = t[i]
    OBVIOUS
  <2>1. 1 + i - 1 = i /\ i \in 1 .. k - 1 - 1 + 1
    BY <1>1
  <2>. QED
    BY <1>2, <1>7, <2>1
<1>9. \A i \in k .. l - 1 : u[i] = t[i + 1]
  <2> SUFFICES ASSUME NEW i \in k .. l - 1
               PROVE  u[i] = t[i + 1]
    OBVIOUS
  <2>1. /\ i - (k - 1) \in 1 .. l - (k + 1) + 1 /\ k + 1 + (i - (k - 1)) - 1 = i + 1
        /\ i \in k - 1 + 1 .. k - 1 + (l - k)
    BY <1>1
  <2>2. q[i - (k - 1)] = t[i + 1]
    BY <1>3, <2>1
  <2>. QED
    BY <1>7, <2>1, <2>2
<1>. QED
  BY <1>1, <1>5, <1>7, <1>8, <1>9

-----------------------------------------------------------------------------
(* A set of nodes as a sequence *)
Ascending(s, K) ==
  /\ s \in Seq(Int)
  /\ \A i \in 1 .. Len(s) : s[i] \in K
  /\ \A x \in K : \E i \in 1 .. Len(s) : s[i] = x
  /\ \A i, j \in 1 .. Len(s) : i < j => s[i] < s[j]

(* Two ascending sequences of the same nodes agree at every place: *)
LEMMA AscendingPrefix ==
  ASSUME NEW K, NEW s, NEW r, Ascending(s, K), Ascending(r, K), NEW i \in 1 .. Len(s)
  PROVE  i \in 1 .. Len(r) /\ s[i] = r[i]
<1>1. /\ Len(s) \in Nat /\ \A j \in 1 .. Len(s) : s[j] \in Int
      /\ Len(r) \in Nat /\ \A j \in 1 .. Len(r) : r[j] \in Int
  BY SeqFacts DEF Ascending
<1> DEFINE Same(j) == j \in 1 .. Len(r) /\ s[j] = r[j]
           X == {j \in 1 .. Len(s) : ~Same(j)}
<1> SUFFICES ASSUME X # {} PROVE FALSE
  OBVIOUS
<1>2. X \in SUBSET Nat
  OBVIOUS
<1>3. PICK v \in X : \A w \in X : v <= w
  BY <1>2, LeastNat
<1>4. v \in 1 .. Len(s) /\ ~Same(v) /\ \A j \in 1 .. Len(s) : j < v => Same(j)
  BY <1>1, <1>3
<1> HIDE DEF X
<1>5. PICK j \in 1 .. Len(r) : r[j] = s[v]
  BY <1>4 DEF Ascending
<1>6. ~(j < v)
  <2> SUFFICES ASSUME j < v PROVE FALSE
    OBVIOUS
  <2>1. j \in 1 .. Len(s)
    BY <1>1, <1>4
  <2>2. s[j] = r[j] /\ s[j] < s[v]
    BY <1>4, <2>1 DEF Ascending
  <2>. QED
    BY <1>1, <1>4, <1>5, <2>1, <2>2
<1>7. v \in 1 .. Len(r) /\ v < j
  BY <1>1, <1>4, <1>5, <1>6
<1>8. r[v] < s[v] /\ r[v] \in K
  BY <1>5, <1>7 DEF Ascending
<1>9. PICK m \in 1 .. Len(s) : s[m] = r[v]
  BY <1>8 DEF Ascending
<1>10. m < v
  <2> SUFFICES ASSUME ~(m < v) PROVE FALSE
    OBVIOUS
  <2>1. m = v \/ v < m
    BY <1>1, <1>4
  <2>2. s[v] <= s[m]
    <3>1. s[v] \in Int /\ s[m] \in Int /\ (v < m => s[v] < s[m])
      BY <1>1, <1>4 DEF Ascending
    <3>. QED
      BY <2>1, <3>1
  <2>. QED
    BY <1>1, <1>4, <1>8, <1>9, <2>2
<1>11. m \in 1 .. Len(r) /\ r[m] = r[v] /\ r[m] < r[v]
  BY <1>4, <1>7, <1>9, <1>10 DEF Ascending
<1>. QED
  BY <1>1, <1>7, <1>11

(* there is only one. *)
LEMMA AscendingUnique ==
  ASSUME NEW K, NEW s, NEW r, Ascending(s, K), Ascending(r, K)
  PROVE  s = r
<1>1. Len(s) \in Nat /\ Len(r) \in Nat /\ s \in Seq(Int) /\ r \in Seq(Int)
  BY SeqFacts DEF Ascending
<1>2. \A i \in 1 .. Len(s) : i \in 1 .. Len(r) /\ s[i] = r[i]
  BY AscendingPrefix
<1>3. \A i \in 1 .. Len(r) : i \in 1 .. Len(s)
  BY AscendingPrefix
<1>4. Len(s) = Len(r)
  <2>1. ASSUME NEW a \in Nat, NEW b \in Nat, \A i \in 1 .. a : i \in 1 .. b
        PROVE  a <= b
    <3>1. a = 0 \/ a \in 1 .. a
      OBVIOUS
    <3>. QED
      BY <2>1, <3>1
  <2>2. Len(s) <= Len(r) /\ Len(r) <= Len(s)
    BY <1>1, <1>2, <1>3, <2>1
  <2>. QED
    BY <1>1, <2>2
<1>. QED
  BY <1>1, <1>2, <1>4, SeqEqual

(* The nodes of a left subtree, a node and those of its right subtree, in  *)
(* order.                                                                  *)
LEMMA AscendingJoin ==
  ASSUME NEW X, NEW Y, NEW a, NEW b, Ascending(a, X), Ascending(b, Y), NEW k \in Int,
         \A x \in X : x < k, \A y \in Y : k < y
  PROVE  Ascending(a \o <<k>> \o b, {k} \cup X \cup Y)
<1> DEFINE la == Len(a)
           lb == Len(b)
           o == <<k>>
           v == a \o o
           u == v \o b
           K == {k} \cup X \cup Y
<1>1. /\ la \in Nat /\ a \in Seq(Int) /\ \A i \in 1 .. la : a[i] \in Int
      /\ lb \in Nat /\ b \in Seq(Int) /\ \A i \in 1 .. lb : b[i] \in Int
  BY SeqFacts DEF Ascending
<1>2. o \in Seq(Int) /\ Len(o) = 1 /\ o[1] = k
  OBVIOUS
<1>3. v = a \o o /\ u = v \o b /\ la = Len(a) /\ lb = Len(b)
  OBVIOUS
<1>4. /\ \A i \in 1 .. la : a[i] \in X
      /\ \A x \in X : \E i \in 1 .. la : a[i] = x
      /\ \A i, j \in 1 .. la : i < j => a[i] < a[j]
      /\ \A i \in 1 .. lb : b[i] \in Y
      /\ \A y \in Y : \E i \in 1 .. lb : b[i] = y
      /\ \A i, j \in 1 .. lb : i < j => b[i] < b[j]
  BY DEF Ascending
<1> HIDE DEF la, lb, o, v, u
<1>5. /\ v \in Seq(Int) /\ Len(v) = la + 1
      /\ \A i \in 1 .. la : v[i] = a[i]
      /\ v[la + 1] = k
  <2>1. /\ v \in Seq(Int) /\ Len(v) = Len(a) + Len(o)
        /\ \A i \in 1 .. Len(a) : v[i] = a[i]
        /\ \A i \in Len(a) + 1 .. Len(a) + Len(o) : v[i] = o[i - Len(a)]
    BY ONLY <1>1, <1>2, <1>3, TwoPieces
  <2>2. la + 1 \in la + 1 .. la + 1 /\ la + 1 - la = 1
    BY <1>1
  <2>3. /\ v \in Seq(Int) /\ Len(v) = la + 1
        /\ \A i \in 1 .. la : v[i] = a[i]
        /\ \A i \in la + 1 .. la + 1 : v[i] = o[i - la]
    BY ONLY <1>2, <1>3, <2>1
  <2>4. v[la + 1] = o[1]
    <3> SUFFICES ASSUME NEW h, h = la + 1 PROVE v[h] = o[1]
      OBVIOUS
    <3>1. h \in la + 1 .. la + 1 /\ h - la = 1
      BY <1>1
    <3>2. v[h] = o[h - la]
      BY ONLY <2>3, <3>1
    <3>. QED
      BY ONLY <3>1, <3>2
  <2>. QED
    BY ONLY <1>2, <2>3, <2>4
<1>6. /\ u \in Seq(Int) /\ Len(u) = la + 1 + lb
      /\ \A i \in 1 .. la + 1 : u[i] = v[i]
      /\ \A i \in la + 1 + 1 .. la + 1 + lb : u[i] = b[i - (la + 1)]
  <2>1. /\ u \in Seq(Int) /\ Len(u) = Len(v) + Len(b)
        /\ \A i \in 1 .. Len(v) : u[i] = v[i]
        /\ \A i \in Len(v) + 1 .. Len(v) + Len(b) : u[i] = b[i - Len(v)]
    <3>1. u = v \o b
      BY <1>3
    <3>2. v \in Seq(Int)
      BY <1>5
    <3>3. b \in Seq(Int)
      BY <1>1
    <3>. QED
      BY ONLY <3>1, <3>2, <3>3, TwoPieces
  <2>. QED
    BY ONLY <1>3, <1>5, <2>1
<1>7. \A i \in 1 .. la + 1 + lb :
        \/ i \in 1 .. la /\ u[i] = a[i]
        \/ i = la + 1 /\ u[i] = k
        \/ i > la + 1 /\ i - (la + 1) \in 1 .. lb /\ u[i] = b[i - (la + 1)]
  <2> SUFFICES ASSUME NEW i \in 1 .. la + 1 + lb
               PROVE  \/ i \in 1 .. la /\ u[i] = a[i]
                      \/ i = la + 1 /\ u[i] = k
                      \/ i > la + 1 /\ i - (la + 1) \in 1 .. lb /\ u[i] = b[i - (la + 1)]
    OBVIOUS
  <2>1. CASE i <= la
    BY <1>1, <1>5, <1>6, <2>1
  <2>2. CASE i = la + 1
    <3>1. la + 1 \in 1 .. la + 1
      BY <1>1
    <3>. QED
      BY <1>5, <1>6, <2>2, <3>1
  <2>3. CASE i > la + 1
    BY <1>1, <1>6, <2>3
  <2>. QED
    BY <1>1, <2>1, <2>2, <2>3
<1>8. \A i \in 1 .. Len(u) : u[i] \in K
  BY <1>4, <1>6, <1>7
<1>9. \A x \in K : \E i \in 1 .. Len(u) : u[i] = x
  <2> TAKE x \in K
  <2>1. CASE x = k
    <3>1. la + 1 \in 1 .. la + 1 + lb /\ u[la + 1] = k
      BY <1>1, <1>5, <1>6
    <3>. QED
      BY <1>6, <2>1, <3>1
  <2>2. CASE x \in X
    <3>1. PICK i \in 1 .. la : a[i] = x
      BY <1>4, <2>2
    <3>2. i \in 1 .. la + 1 + lb /\ i \in 1 .. la + 1
      BY <1>1
    <3>3. u[i] = x
      BY <1>5, <1>6, <3>1, <3>2
    <3>. QED
      BY <1>6, <3>2, <3>3
  <2>3. CASE x \in Y
    <3>1. PICK i \in 1 .. lb : b[i] = x
      BY <1>4, <2>3
    <3>2. PICK h \in la + 1 + 1 .. la + 1 + lb : h - (la + 1) = i
      <4> DEFINE h == la + 1 + i
      <4>1. h \in la + 1 + 1 .. la + 1 + lb /\ h - (la + 1) = i
        BY <1>1
      <4> HIDE DEF h
      <4>. QED
        BY <4>1
    <3>3. u[h] = x
      BY <1>6, <3>1, <3>2
    <3>4. h \in 1 .. la + 1 + lb
      BY <1>1
    <3>. QED
      BY <1>6, <3>3, <3>4
  <2>. QED
    BY <2>1, <2>2, <2>3
<1>10. \A i, j \in 1 .. Len(u) : i < j => u[i] < u[j]
  <2> SUFFICES ASSUME NEW i \in 1 .. la + 1 + lb, NEW j \in 1 .. la + 1 + lb, i < j
               PROVE  u[i] < u[j]
    BY <1>6
  <2>1. CASE j \in 1 .. la /\ u[j] = a[j]
    <3>1. i \in 1 .. la /\ u[i] = a[i]
      BY <1>1, <1>7, <2>1
    <3>. QED
      BY <1>4, <2>1, <3>1
  <2>2. CASE j = la + 1 /\ u[j] = k
    <3>1. i \in 1 .. la /\ u[i] = a[i]
      BY <1>1, <1>7, <2>2
    <3>. QED
      BY <1>4, <2>2, <3>1
  <2>3. CASE j > la + 1 /\ j - (la + 1) \in 1 .. lb /\ u[j] = b[j - (la + 1)]
    <3>1. u[j] \in Y /\ k < u[j] /\ u[j] \in Int
      BY <1>1, <1>4, <2>3
    <3>2. CASE i \in 1 .. la /\ u[i] = a[i]
      <4>1. u[i] < k /\ u[i] \in Int
        BY <1>1, <1>4, <3>2
      <4>. QED
        BY <3>1, <4>1
    <3>3. CASE i = la + 1 /\ u[i] = k
      BY <3>1, <3>3
    <3>4. CASE i > la + 1 /\ i - (la + 1) \in 1 .. lb /\ u[i] = b[i - (la + 1)]
      <4>1. i - (la + 1) < j - (la + 1)
        BY <1>1
      <4>. QED
        BY <1>4, <2>3, <3>4, <4>1
    <3>. QED
      BY <1>7, <3>2, <3>3, <3>4
  <2>. QED
    BY <1>7, <2>1, <2>2, <2>3
<1>11. Ascending(u, K)
  BY <1>6, <1>8, <1>9, <1>10 DEF Ascending
<1>. QED
  BY <1>11 DEF u, v, o

(* r is s without the element at p, and still ascending. *)
Shortened(K, s, p, r) ==
  /\ Ascending(r, K \ {s[p]}) /\ Len(r) = Len(s) - 1
  /\ \A i \in 1 .. p - 1 : r[i] = s[i]
  /\ \A i \in p .. Len(s) - 1 : r[i] = s[i + 1]

(* An ascending sequence without one of its elements is ascending. *)
LEMMA AscendingWithout ==
  ASSUME NEW K, NEW s, Ascending(s, K), NEW p \in 1 .. Len(s),
         NEW r, r = SubSeq(s, 1, p - 1) \o SubSeq(s, p + 1, Len(s))
  PROVE  Shortened(K, s, p, r)
<1> DEFINE l == Len(s)
<1>1. l \in Nat /\ s \in Seq(Int) /\ \A i \in 1 .. l : s[i] \in Int
  BY SeqFacts DEF Ascending
<1>2. /\ r \in Seq(Int) /\ Len(r) = l - 1
      /\ \A i \in 1 .. p - 1 : r[i] = s[i]
      /\ \A i \in p .. l - 1 : r[i] = s[i + 1]
  BY <1>1, Removing
<1>3. /\ \A i \in 1 .. l : s[i] \in K
      /\ \A x \in K : \E i \in 1 .. l : s[i] = x
      /\ \A i, j \in 1 .. l : i < j => s[i] < s[j]
  BY DEF Ascending
<1>4. p \in 1 .. l /\ l = Len(s)
  OBVIOUS
<1> HIDE DEF l
<1>5. \A i \in 1 .. l : i # p => s[i] # s[p]
  <2> SUFFICES ASSUME NEW i \in 1 .. l, i # p PROVE s[i] # s[p]
    OBVIOUS
  <2>1. i < p \/ p < i
    BY <1>1, <1>4
  <2>2. s[i] < s[p] \/ s[p] < s[i]
    BY <1>3, <1>4, <2>1
  <2>. QED
    BY <1>1, <1>4, <2>2
<1>6. \A i \in 1 .. l - 1 : \/ i < p /\ i \in 1 .. l /\ r[i] = s[i]
                            \/ ~(i < p) /\ i + 1 \in 1 .. l /\ r[i] = s[i + 1]
  <2> SUFFICES ASSUME NEW i \in 1 .. l - 1
               PROVE  \/ i < p /\ i \in 1 .. l /\ r[i] = s[i]
                      \/ ~(i < p) /\ i + 1 \in 1 .. l /\ r[i] = s[i + 1]
    OBVIOUS
  <2>1. CASE i < p
    <3>1. i \in 1 .. p - 1 /\ i \in 1 .. l
      BY <1>1, <1>4, <2>1
    <3>. QED
      BY <1>2, <2>1, <3>1
  <2>2. CASE ~(i < p)
    <3>1. i \in p .. l - 1 /\ i + 1 \in 1 .. l
      BY <1>1, <1>4, <2>2
    <3>. QED
      BY <1>2, <2>2, <3>1
  <2>. QED
    BY <2>1, <2>2
<1>7. \A i \in 1 .. l - 1 : r[i] \in K \ {s[p]}
  <2> SUFFICES ASSUME NEW i \in 1 .. l - 1 PROVE r[i] \in K \ {s[p]}
    OBVIOUS
  <2>1. CASE i < p /\ i \in 1 .. l /\ r[i] = s[i]
    <3>1. i # p
      BY <1>4, <2>1
    <3>. QED
      BY ONLY <1>3, <1>5, <2>1, <3>1
  <2>2. CASE ~(i < p) /\ i + 1 \in 1 .. l /\ r[i] = s[i + 1]
    <3>1. i + 1 # p
      BY <1>4, <2>2
    <3>. QED
      BY <1>3, <1>5, <2>2, <3>1
  <2>. QED
    BY <1>6, <2>1, <2>2
<1>8. \A x \in K \ {s[p]} : \E i \in 1 .. l - 1 : r[i] = x
  <2> TAKE x \in K \ {s[p]}
  <2>1. PICK j \in 1 .. l : s[j] = x
    BY <1>3
  <2>2. j # p /\ j \in Int
    BY <2>1
  <2>3. CASE j < p
    <3>1. j \in 1 .. p - 1 /\ j \in 1 .. l - 1
      BY <1>1, <1>4, <2>3
    <3>. QED
      BY <1>2, <2>1, <3>1
  <2>4. CASE p < j
    <3>1. j - 1 \in p .. l - 1 /\ j - 1 \in 1 .. l - 1 /\ j - 1 + 1 = j
      BY <1>1, <1>4, <2>4
    <3>. QED
      BY <1>2, <2>1, <3>1
  <2>5. j < p \/ p < j
    BY <1>1, <1>4, <2>2
  <2>. QED
    BY <2>3, <2>4, <2>5
<1>9. \A i, j \in 1 .. l - 1 : i < j => r[i] < r[j]
  <2> SUFFICES ASSUME NEW i \in 1 .. l - 1, NEW j \in 1 .. l - 1, i < j PROVE r[i] < r[j]
    OBVIOUS
  <2> DEFINE a == IF i < p THEN i ELSE i + 1
             b == IF j < p THEN j ELSE j + 1
  <2>1. a \in 1 .. l /\ r[i] = s[a] /\ b \in 1 .. l /\ r[j] = s[b]
    BY <1>6
  <2>2. a < b
    BY <1>4
  <2> HIDE DEF a, b
  <2>. QED
    BY <1>3, <2>1, <2>2
<1>10. Ascending(r, K \ {s[p]})
  BY <1>2, <1>7, <1>8, <1>9 DEF Ascending
<1>. QED
  BY <1>2, <1>10 DEF l, Shortened

(* The sequence of no nodes is empty. *)
LEMMA AscendingEmpty == Ascending(<<>>, {}) /\ \A s : Ascending(s, {}) => s = <<>>
<1>1. Ascending(<<>>, {})
  BY EmptySeq DEF Ascending
<1>. QED
  BY <1>1, AscendingUnique

(* A function that InOrder may have chosen *)
ReadEq(f) ==
  f = [n \in DOMAIN tree \cup {NULL} |->
        IF n = NULL THEN <<>>
        ELSE f[tree[n].left]
             \o <<IF victim # NULL /\ n = moving THEN victim ELSE n>>
             \o f[tree[n].right]]

(* What OInv says of a node *)
Reads(B, n) ==
  /\ tree[n].left \in Linked \cup {NULL} /\ tree[n].right \in Linked \cup {NULL}
  /\ Key(n) \in Int
  /\ B[n] = {Key(n)} \cup B[tree[n].left] \cup B[tree[n].right]
  /\ \A x \in B[tree[n].left] : x < Key(n)
  /\ \A x \in B[tree[n].right] : Key(n) < x

(* The linked nodes, and the one that may not be. *)
LEMMA LinkedFacts ==
  ASSUME OInv
  PROVE  /\ NULL \notin DOMAIN tree /\ tree \in Trees(DOMAIN tree) /\ Linked \in SUBSET DOMAIN tree
         /\ Links(tree, Linked, root) /\ IsFiniteSet(DOMAIN tree)
         /\ \A m \in DOMAIN tree \ Linked :
              m = victim /\ tree[m].left = NULL /\ tree[m].right \in Linked \cup {NULL}
BY NullFacts DEF OInv, IInv, Shape, Loops, Linked

(* OInv says so of every linked node. *)
LEMMA ReadsFacts ==
  ASSUME OInv, NEW B, InParts(B)
  PROVE  /\ B[NULL] = {} /\ root \in Linked \cup {NULL} /\ B[root] = Held
         /\ \A n \in Linked : Reads(B, n)
         /\ \A Q \in SUBSET Linked : Q # {} => \E c \in Q : \A s \in Sides : tree[c][s] \notin Q
<1> DEFINE D == DOMAIN tree
           k == [m \in Linked |-> Key(m)]
           E == D \cup {victim}
<1>1. /\ NULL \notin D /\ tree \in Trees(D) /\ Linked \in SUBSET D /\ Links(tree, Linked, root)
      /\ IsFiniteSet(D)
  BY LinkedFacts
<1>2. Parts(tree, Linked, root, k, B)
  BY DEF InParts
<1>3. {k[m] : m \in Linked} = Held /\ \A m \in Linked : k[m] = Key(m) /\ k[m] \in E
  BY <1>1 DEF Held, Key
<1>4. IsFiniteSet(E)
  BY <1>1, FS_AddElement
<1> HIDE DEF k, E
<1>5. B[NULL] = {} /\ root \in Linked \cup {NULL} /\ B[root] = Held
  BY <1>2, <1>3 DEF Parts
<1>6. ASSUME NEW n \in Linked
      PROVE  Reads(B, n)
  <2>1. NodeParts(tree, Linked, k, B, n, "left") /\ NodeParts(tree, Linked, k, B, n, "right")
    BY <1>1, <1>2, PartsFacts DEF Sides
  <2>2. k[n] = Key(n)
    BY <1>3
  <2>. QED
    BY <2>1, <2>2 DEF NodeParts, Reads, Mirror, Before
<1>7. ASSUME NEW Q \in SUBSET Linked, Q # {}
      PROVE  \E c \in Q : \A s \in Sides : tree[c][s] \notin Q
  BY <1>1, <1>2, <1>3, <1>4, <1>7, Lowest
<1>. QED
  BY <1>5, <1>6, <1>7

(* Whatever satisfies the equation of InOrder reads the tree in order, *)
LEMMA ReadIsInOrder ==
  ASSUME OInv, NEW g, ReadEq(g)
  PROVE  Ascending(g[root], Held)
<1>1. PICK B : InParts(B)
  BY DEF OInv
<1>2. /\ B[NULL] = {} /\ root \in Linked \cup {NULL} /\ B[root] = Held
      /\ \A n \in Linked : Reads(B, n)
      /\ \A Q \in SUBSET Linked : Q # {} => \E c \in Q : \A s \in Sides : tree[c][s] \notin Q
  BY <1>1, ReadsFacts
<1>3. NULL \notin Linked /\ Linked \subseteq DOMAIN tree
  BY LinkedFacts
<1>4. g[NULL] = <<>> /\ \A n \in Linked : g[n] = g[tree[n].left] \o <<Key(n)>> \o g[tree[n].right]
  BY <1>3 DEF ReadEq, Key
<1> DEFINE Q == {c \in Linked : ~Ascending(g[c], B[c])}
<1>5. Q = {}
  <2> SUFFICES ASSUME Q # {} PROVE FALSE
    OBVIOUS
  <2>1. PICK c \in Q : \A s \in Sides : tree[c][s] \notin Q
    <3>1. Q \in SUBSET Linked
      OBVIOUS
    <3> HIDE DEF Q
    <3>. QED
      BY <1>2, <3>1
  <2>2. c \in Linked /\ ~Ascending(g[c], B[c])
    OBVIOUS
  <2>3. Reads(B, c)
    BY <1>2, <2>2
  <2>4. \A d \in Linked \cup {NULL} : d \notin Q => Ascending(g[d], B[d])
    BY <1>2, <1>4, AscendingEmpty
  <2>5. tree[c].left \notin Q /\ tree[c].right \notin Q
    BY <2>1 DEF Sides
  <2> HIDE DEF Q
  <2>6. Ascending(g[tree[c].left], B[tree[c].left]) /\ Ascending(g[tree[c].right], B[tree[c].right])
    BY <2>3, <2>4, <2>5 DEF Reads
  <2>7. Ascending(g[tree[c].left] \o <<Key(c)>> \o g[tree[c].right], B[c])
    BY <2>3, <2>6, AscendingJoin DEF Reads
  <2>8. Ascending(g[c], B[c])
    BY <1>4, <2>2, <2>7
  <2>. QED
    BY <2>2, <2>8
<1>6. \A c \in Linked \cup {NULL} : Ascending(g[c], B[c])
  BY <1>2, <1>4, <1>5, AscendingEmpty
<1>. QED
  BY <1>2, <1>6

(* and there is such a function. *)
LEMMA ReadExists ==
  ASSUME OInv
  PROVE  \E f : ReadEq(f)
<1>1. PICK B : InParts(B)
  BY DEF OInv
<1>2. /\ B[NULL] = {}
      /\ \A n \in Linked : Reads(B, n)
      /\ \A Q \in SUBSET Linked : Q # {} => \E c \in Q : \A s \in Sides : tree[c][s] \notin Q
  BY <1>1, ReadsFacts
<1>3. /\ NULL \notin Linked /\ Linked \subseteq DOMAIN tree
      /\ \A m \in DOMAIN tree \ Linked : tree[m].left = NULL /\ tree[m].right \in Linked \cup {NULL}
  BY LinkedFacts
<1> DEFINE Q == {c \in Linked : ~\E s : Ascending(s, B[c])}
<1>4. Q = {}
  <2> SUFFICES ASSUME Q # {} PROVE FALSE
    OBVIOUS
  <2>1. PICK c \in Q : \A s \in Sides : tree[c][s] \notin Q
    <3>1. Q \in SUBSET Linked
      OBVIOUS
    <3> HIDE DEF Q
    <3>. QED
      BY <1>2, <3>1
  <2>2. c \in Linked /\ ~\E s : Ascending(s, B[c])
    OBVIOUS
  <2>3. Reads(B, c)
    BY <1>2, <2>2
  <2>4. \A d \in Linked \cup {NULL} : d \notin Q => \E s : Ascending(s, B[d])
    BY <1>2, AscendingEmpty
  <2>0. tree[c].left \notin Q /\ tree[c].right \notin Q
    BY <2>1 DEF Sides
  <2> HIDE DEF Q
  <2>5. PICK a, b : Ascending(a, B[tree[c].left]) /\ Ascending(b, B[tree[c].right])
    BY <2>0, <2>3, <2>4 DEF Reads
  <2>6. Ascending(a \o <<Key(c)>> \o b, B[c])
    BY <2>3, <2>5, AscendingJoin DEF Reads
  <2>. QED
    BY <2>2, <2>6
<1> DEFINE h == [n \in Linked \cup {NULL} |-> CHOOSE s : Ascending(s, B[n])]
           F(n) == IF n \in Linked \cup {NULL} THEN h[n]
                   ELSE h[tree[n].left] \o <<Key(n)>> \o h[tree[n].right]
           f == [n \in DOMAIN tree \cup {NULL} |-> F(n)]
<1>5. \A n \in Linked \cup {NULL} : Ascending(h[n], B[n])
  <2>1. \A n \in Linked \cup {NULL} : \E s : Ascending(s, B[n])
    BY <1>2, <1>4, AscendingEmpty
  <2>. QED
    BY <2>1
<1>6. \A n \in Linked \cup {NULL} : f[n] = h[n]
  BY <1>3
<1>7. \A n \in DOMAIN tree \ Linked : f[n] = h[tree[n].left] \o <<Key(n)>> \o h[tree[n].right]
  <2>1. NULL \notin DOMAIN tree
    BY LinkedFacts
  <2>. QED
    BY <2>1
<1>8. f = [n \in DOMAIN tree \cup {NULL} |-> f[n]]
  <2> HIDE DEF F
  <2>. QED
    OBVIOUS
<1> HIDE DEF h, f, Q
<1>9. f[NULL] = <<>>
  BY <1>2, <1>5, <1>6, AscendingEmpty
<1>10. ASSUME NEW n \in DOMAIN tree
       PROVE  f[n] = f[tree[n].left] \o <<Key(n)>> \o f[tree[n].right]
  <2>1. CASE n \in Linked
    <3>1. Reads(B, n)
      BY <1>2, <2>1
    <3>2. tree[n].left \in Linked \cup {NULL} /\ tree[n].right \in Linked \cup {NULL}
      BY <3>1 DEF Reads
    <3>3. Ascending(h[tree[n].left] \o <<Key(n)>> \o h[tree[n].right], B[n])
      BY <1>5, <3>1, <3>2, AscendingJoin DEF Reads
    <3>4. Ascending(h[n], B[n])
      BY <1>5, <2>1
    <3>5. h[n] = h[tree[n].left] \o <<Key(n)>> \o h[tree[n].right]
      BY <3>3, <3>4, AscendingUnique
    <3>. QED
      BY <1>6, <2>1, <3>2, <3>5
  <2>2. CASE n \notin Linked
    BY <1>3, <1>6, <1>7, <2>2
  <2>. QED
    BY <2>1, <2>2
<1>11. ReadEq(f)
  <2>1. NULL \notin DOMAIN tree
    BY LinkedFacts
  <2>. QED
    BY <1>8, <1>9, <1>10, <2>1 DEF ReadEq, Key
<1>. QED
  BY <1>11

(* So InOrder is the nodes the user sees, in ascending order. *)
LEMMA InOrderFacts == OInv => Ascending(InOrder, Held)
<1> SUFFICES ASSUME OInv PROVE Ascending(InOrder, Held)
  OBVIOUS
<1> DEFINE g == CHOOSE f : ReadEq(f)
<1>1. ReadEq(g)
  BY ReadExists
<1>2. InOrder = g[root]
  BY DEF InOrder, ReadEq
<1>. QED
  BY <1>1, <1>2, ReadIsInOrder

(* t is s with one node more, or one less. *)
OneMoreIn(s, n, t) ==
  \E i \in 0 .. Len(s) :
    /\ \A j \in DOMAIN s : IF j <= i THEN s[j] < n ELSE n < s[j]
    /\ t = SubSeq(s, 1, i) \o <<n>> \o SubSeq(s, i + 1, Len(s))

OneLessIn(s, n, t) ==
  \E i \in DOMAIN s :
    /\ s[i] = n
    /\ t = SubSeq(s, 1, i - 1) \o SubSeq(s, i + 1, Len(s))

(* The ascending sequence of a set with one node more, *)
LEMMA OneMore ==
  ASSUME NEW K, NEW s, Ascending(s, K), NEW n \in Int, n \notin K,
         NEW t, Ascending(t, K \cup {n})
  PROVE  OneMoreIn(s, n, t)
<1>1. PICK p \in 1 .. Len(t) : t[p] = n
  BY DEF Ascending
<1>2. /\ Len(t) \in Nat /\ t \in Seq(Int) /\ \A i \in 1 .. Len(t) : t[i] \in Int
      /\ Len(s) \in Nat /\ s \in Seq(Int) /\ \A i \in 1 .. Len(s) : s[i] \in Int
      /\ DOMAIN s = 1 .. Len(s)
  BY SeqFacts DEF Ascending
<1> DEFINE r == SubSeq(t, 1, p - 1) \o SubSeq(t, p + 1, Len(t))
<1>3. /\ Ascending(r, (K \cup {n}) \ {t[p]}) /\ Len(r) = Len(t) - 1
      /\ \A i \in 1 .. p - 1 : r[i] = t[i]
      /\ \A i \in p .. Len(t) - 1 : r[i] = t[i + 1]
  <2> DEFINE L == K \cup {n}
  <2>1. r = SubSeq(t, 1, p - 1) \o SubSeq(t, p + 1, Len(t)) /\ Ascending(t, L)
    OBVIOUS
  <2> HIDE DEF r, L
  <2>2. Shortened(L, t, p, r)
    BY <2>1, AscendingWithout
  <2>. QED
    BY <2>2 DEF Shortened, L
<1> HIDE DEF r
<1>4. (K \cup {n}) \ {t[p]} = K
  BY <1>1
<1>5. r = s
  BY <1>3, <1>4, AscendingUnique
<1>6. /\ Len(s) = Len(t) - 1
      /\ \A i \in 1 .. p - 1 : s[i] = t[i]
      /\ \A i \in p .. Len(s) : s[i] = t[i + 1]
  BY <1>3, <1>5
<1>7. PICK i \in 0 .. Len(s) : i = p - 1 /\ i + 1 = p /\ i + 2 = p + 1
  BY <1>2, <1>6
<1> DEFINE u == Put(s, i, n)
<1>8. /\ u \in Seq(Int) /\ Len(u) = Len(s) + 1
      /\ \A j \in 1 .. i : u[j] = s[j]
      /\ u[i + 1] = n
      /\ \A j \in i + 2 .. Len(s) + 1 : u[j] = s[j - 1]
  <2>1. i \in 0 .. Len(s) /\ n \in Int /\ s \in Seq(Int)
    BY <1>2
  <2>2. Lengthened(Int, s, i, n, u)
    BY <2>1, Inserting
  <2> HIDE DEF u
  <2>. QED
    BY <2>2 DEF Lengthened
<1> HIDE DEF u
<1>9. ASSUME NEW j \in 1 .. Len(t)
      PROVE  u[j] = t[j]
  <2>1. CASE j < p
    <3>1. j \in 1 .. i /\ j \in 1 .. p - 1
      BY <1>2, <1>7, <2>1
    <3>. QED
      BY <1>6, <1>8, <3>1
  <2>2. CASE j = p
    BY <1>1, <1>7, <1>8, <2>2
  <2>3. CASE p < j
    <3>1. j \in i + 2 .. Len(s) + 1 /\ j - 1 \in p .. Len(s) /\ j - 1 + 1 = j
      BY <1>2, <1>6, <1>7, <2>3
    <3>. QED
      BY <1>6, <1>8, <3>1
  <2>. QED
    BY <2>1, <2>2, <2>3
<1>10. t = u
  <2>1. Len(u) = Len(t)
    BY <1>2, <1>6, <1>8
  <2>. QED
    BY <1>2, <1>8, <1>9, <2>1, SeqEqual
<1>11. \A j \in DOMAIN s : IF j <= i THEN s[j] < n ELSE n < s[j]
  <2> SUFFICES ASSUME NEW j \in 1 .. Len(s)
               PROVE  IF j <= i THEN s[j] < n ELSE n < s[j]
    BY <1>2
  <2>0. \A a, b \in 1 .. Len(t) : a < b => t[a] < t[b]
    BY DEF Ascending
  <2>1. CASE j <= i
    <3>1. j \in 1 .. p - 1 /\ j \in 1 .. Len(t) /\ j < p
      BY <1>2, <1>6, <1>7, <2>1
    <3>. QED
      BY <1>1, <1>6, <2>0, <2>1, <3>1
  <2>2. CASE ~(j <= i)
    <3>1. j \in p .. Len(s) /\ j + 1 \in 1 .. Len(t) /\ p < j + 1
      BY <1>2, <1>6, <1>7, <2>2
    <3>. QED
      BY <1>1, <1>6, <2>0, <2>2, <3>1
  <2>. QED
    BY <2>1, <2>2
<1>. QED
  BY <1>10, <1>11 DEF u, Put, OneMoreIn

(* or with one less. *)
LEMMA OneLess ==
  ASSUME NEW K, NEW s, Ascending(s, K), NEW n \in K, NEW t, Ascending(t, K \ {n})
  PROVE  OneLessIn(s, n, t)
<1>1. PICK p \in 1 .. Len(s) : s[p] = n
  BY DEF Ascending
<1>2. DOMAIN s = 1 .. Len(s)
  BY SeqFacts DEF Ascending
<1> DEFINE r == SubSeq(s, 1, p - 1) \o SubSeq(s, p + 1, Len(s))
<1>3. Ascending(r, K \ {s[p]})
  <2>1. r = SubSeq(s, 1, p - 1) \o SubSeq(s, p + 1, Len(s))
    OBVIOUS
  <2> HIDE DEF r
  <2>2. Shortened(K, s, p, r)
    BY <2>1, AscendingWithout
  <2>. QED
    BY <2>2 DEF Shortened
<1> HIDE DEF r
<1>4. r = t
  BY <1>1, <1>3, AscendingUnique
<1>. QED
  BY <1>1, <1>2, <1>4 DEF r, OneLessIn

(* InOrder, as a state predicate of its own *)
InOrderIsHeld == Ascending(InOrder, Held)

(* To its user an AVL tree of any size is the sequence of its nodes: no    *)
(* rotation and no copy of a victim changes their order, an insertion puts *)
(* the node it is asked for where zless() wants it, and a deletion takes   *)
(* the one it is asked for and no other.                                   *)
THEOREM ImplementsNodeOrderCorrect == Spec => ImplementsNodeOrder
<1>1. Init => Order!Init
  <2> SUFFICES ASSUME Init PROVE Order!Init
    OBVIOUS
  <2>1. Ascending(InOrder, Held)
    BY InitOInv, InOrderFacts
  <2>2. DOMAIN InOrder = 1 .. Len(InOrder)
    BY <2>1, SeqFacts DEF Ascending
  <2>3. Asked = NULL
    BY DEF Init, Asked
  <2>. QED
    BY <2>1, <2>2, <2>3 DEF Order!Init, Ascending
<1>2. ASSUME OInv, OInv', [Next]_vars
      PROVE  [Order!Next]_(Order!vars)
  <2>1. HeldStep
    BY <1>2, NextKeepsOInv
  <2>2. Ascending(InOrder, Held)
    BY <1>2, InOrderFacts
  <2>3. Ascending(InOrder', Held')
    <3>1. OInv' => InOrderIsHeld'
      BY InOrderFacts, PTL DEF InOrderIsHeld
    <3>. QED
      BY <1>2, <3>1 DEF InOrderIsHeld
  <2>4. CASE AskStep
    <3>1. InOrder' = InOrder
      BY <2>2, <2>3, <2>4, AscendingUnique DEF AskStep
    <3>2. CASE Asked' = Asked
      BY <3>1, <3>2 DEF Order!vars
    <3>3. CASE Asked = NULL /\ Asked' \in Nodes
      <4>1. Order!Ask(Asked')
        BY <3>1, <3>3 DEF Order!Ask
      <4>. QED
        BY <3>3, <4>1 DEF Order!Next
    <3>. QED
      BY <2>4, <3>2, <3>3 DEF AskStep
  <2>5. ASSUME NEW n \in Nodes, DoneStep(n), n \notin Held, Held' = Held \cup {n}
        PROVE  Order!Next
    <3>1. n \in Int
      BY AvlAssumption
    <3>2. OneMoreIn(InOrder, n, InOrder')
      BY <2>2, <2>3, <2>5, <3>1, OneMore
    <3>3. Order!Insert(n)
      BY <2>5, <3>2 DEF Order!Insert, OneMoreIn, DoneStep
    <3>. QED
      BY <3>3 DEF Order!Next
  <2>6. ASSUME NEW n \in Nodes, DoneStep(n), n \in Held, Held' = Held \ {n}
        PROVE  Order!Next
    <3>1. OneLessIn(InOrder, n, InOrder')
      BY <2>2, <2>3, <2>6, OneLess
    <3>2. Order!Delete(n)
      BY <2>6, <3>1 DEF Order!Delete, OneLessIn, DoneStep
    <3>. QED
      BY <3>2 DEF Order!Next
  <2>. QED
    BY <2>1, <2>4, <2>5, <2>6 DEF HeldStep
<1>. QED
  BY <1>1, <1>2, SpecOInv, PTL DEF Spec, ImplementsNodeOrder, Order!Spec

-----------------------------------------------------------------------------
(* The walks, between two operations: what the subtrees hold, and their    *)
(* sizes. *)
Below(B, n) == {k \in DOMAIN tree : k \notin B[n] /\ k < n}

(* What a walk relies on: the sets of the subtrees, and no cycle among the *)
(* nodes                                                                   *)
Walkable(B) ==
  /\ B[NULL] = {} /\ B \in [DOMAIN tree \cup {NULL} -> SUBSET (DOMAIN tree)]
  /\ \A n \in DOMAIN tree, s \in Sides : NodeOrdered(tree, DOMAIN tree, B, n, s)
  /\ \A n \in DOMAIN tree :
       IF tree[n].parent = NULL THEN B[n] = DOMAIN tree
       ELSE /\ tree[n].parent \in DOMAIN tree
            /\ \E s \in Sides : tree[tree[n].parent][s] = n /\ tree[tree[n].parent][Mirror(s)] # n
  /\ \A Q \in SUBSET (DOMAIN tree) :
       Q # {} => /\ \E c \in Q : \A s \in Sides : tree[c][s] \notin Q
                 /\ \E c \in Q : tree[c].parent \notin Q

(* The size of a node and two sets that have nothing in common. *)
LEMMA DisjointSizes ==
  ASSUME NEW X, NEW Y, NEW n, IsFiniteSet(X), IsFiniteSet(Y), X \cap Y = {}, n \notin X, n \notin Y
  PROVE  /\ IsFiniteSet({n} \cup X \cup Y) /\ IsFiniteSet(X \cup Y)
         /\ Cardinality({n} \cup X \cup Y) = 1 + Cardinality(X) + Cardinality(Y)
         /\ Cardinality(X \cup Y) = Cardinality(X) + Cardinality(Y)
         /\ Cardinality(X) \in Nat /\ Cardinality(Y) \in Nat
<1>1. Cardinality(X) \in Nat /\ Cardinality(Y) \in Nat
  BY FS_CardinalityType
<1>2. Cardinality(X \cap Y) = 0
  BY FS_EmptySet
<1>3. /\ IsFiniteSet(X \cup Y)
      /\ Cardinality(X \cup Y) = Cardinality(X) + Cardinality(Y) - Cardinality(X \cap Y)
  BY FS_Union
<1>4. Cardinality(X \cup Y) = Cardinality(X) + Cardinality(Y)
  BY <1>1, <1>2, <1>3
<1>5. /\ IsFiniteSet((X \cup Y) \cup {n})
      /\ Cardinality((X \cup Y) \cup {n}) = Cardinality(X \cup Y) + 1
  BY <1>3, FS_AddElement
<1>6. (X \cup Y) \cup {n} = {n} \cup X \cup Y
  OBVIOUS
<1> DEFINE u == (X \cup Y) \cup {n}
           v == X \cup Y
<1>7. Cardinality({n} \cup X \cup Y) = 1 + Cardinality(X) + Cardinality(Y)
  <2>1. {n} \cup X \cup Y = u /\ Cardinality(u) = Cardinality(v) + 1
        /\ Cardinality(v) = Cardinality(X) + Cardinality(Y)
    BY <1>4, <1>5, <1>6
  <2> HIDE DEF u, v
  <2>2. Cardinality(u) = 1 + Cardinality(X) + Cardinality(Y)
    BY <1>1, <2>1
  <2>. QED
    BY <2>1, <2>2
<1>. QED
  BY <1>1, <1>3, <1>4, <1>5, <1>6, <1>7

(* Between two operations every node is in order, and the tree can be      *)
(* walked.                                                                 *)
LEMMA IdleFacts ==
  ASSUME OInv, pc = "idle"
  PROVE  /\ NULL \notin DOMAIN tree /\ DOMAIN tree \subseteq Int /\ IsFiniteSet(DOMAIN tree)
         /\ tree \in Trees(DOMAIN tree)
         /\ \A n \in DOMAIN tree : Fresh(tree, n)
         /\ \E B : Walkable(B)
<1> DEFINE D == DOMAIN tree
           k == [m \in D |-> m]
<1>1. IInv /\ victim = NULL /\ IsFiniteSet(D) /\ OrderlyBut(tree, Linked, NULL)
  BY DEF OInv, IInv, Loops, Heights
<1>2. /\ Linked = D /\ NULL \notin D /\ tree \in Trees(D)
      /\ Links(tree, D, root) /\ D \subseteq Int
      /\ \A B : Parts(tree, Linked, root, [m \in Linked |-> Key(m)], B)
                     <=> Ordered(tree, D, root, B)
  BY <1>1, WithoutVictim
<1>3. PICK B : Ordered(tree, D, root, B)
  BY <1>2 DEF OInv, InParts
<1>4. \A n \in D : Fresh(tree, n)
  BY <1>1, <1>2 DEF OrderlyBut
<1>5. Parts(tree, D, root, k, B) /\ {k[m] : m \in D} = D /\ \A m \in D : k[m] \in D
  BY <1>3 DEF Ordered
<1> HIDE DEF k, D
<1>6. B[NULL] = {} /\ B \in [D \cup {NULL} -> SUBSET D] /\ B[root] = D
  BY <1>5 DEF Parts
<1>7. \A n \in D, s \in Sides : NodeOrdered(tree, D, B, n, s)
  BY <1>2, <1>3, OrderedFacts
<1>8. \A Q \in SUBSET D :
        Q # {} => /\ \E c \in Q : \A s \in Sides : tree[c][s] \notin Q
                  /\ \E c \in Q : tree[c].parent \notin Q
  BY <1>1, <1>2, <1>5, Lowest, Highest
<1>9. ASSUME NEW n \in D
      PROVE  IF tree[n].parent = NULL THEN B[n] = D
             ELSE /\ tree[n].parent \in D
                  /\ \E s \in Sides : tree[tree[n].parent][s] = n /\ tree[tree[n].parent][Mirror(s)] # n
  <2>1. CASE tree[n].parent = NULL
    <3>1. n = root
      BY <1>2, <2>1 DEF Links, Parent_OK
    <3>. QED
      BY <1>6, <2>1, <3>1
  <2>2. CASE tree[n].parent # NULL
    <3>1. SideOfParent(tree, D, n)
      BY <1>2, <2>2, FromFacts
    <3>. QED
      BY <2>2, <3>1 DEF SideOfParent
  <2>. QED
    BY <2>1, <2>2
<1>10. Walkable(B)
  BY <1>6, <1>7, <1>8, <1>9 DEF Walkable, D
<1>. QED
  BY <1>1, <1>2, <1>4, <1>10 DEF D

(* A node and its children, and their sizes *)
Around(B, n) ==
  LET l == tree[n].left
      r == tree[n].right
  IN /\ l \in DOMAIN tree \cup {NULL} /\ r \in DOMAIN tree \cup {NULL}
     /\ B[n] = {n} \cup B[l] \cup B[r] /\ B[l] \cap B[r] = {} /\ n \notin B[l] /\ n \notin B[r]
     /\ n \in Int /\ B[n] \subseteq DOMAIN tree
     /\ \A x \in B[l] : x < n
     /\ \A x \in B[r] : n < x

(* It is so around every node. *)
LEMMA AroundFacts ==
  ASSUME NULL \notin DOMAIN tree, DOMAIN tree \subseteq Int, NEW B, Walkable(B), NEW n \in DOMAIN tree
  PROVE  Around(B, n)
<1>1. NodeOrdered(tree, DOMAIN tree, B, n, "left") /\ NodeOrdered(tree, DOMAIN tree, B, n, "right")
  BY DEF Walkable, Sides
<1>2. /\ tree[n].left \in DOMAIN tree \cup {NULL} /\ tree[n].right \in DOMAIN tree \cup {NULL}
      /\ B[n] = {n} \cup B[tree[n].left] \cup B[tree[n].right]
      /\ n \in Int /\ B[n] \subseteq DOMAIN tree
      /\ B[tree[n].left] \subseteq DOMAIN tree /\ B[tree[n].right] \subseteq DOMAIN tree
      /\ \A x \in B[tree[n].left] : x # n /\ x < n
      /\ \A x \in B[tree[n].right] : x # n /\ n < x
  BY <1>1 DEF NodeOrdered, Mirror, Before
<1>3. B[tree[n].left] \cap B[tree[n].right] = {}
  BY <1>2
<1>. QED
  BY <1>2, <1>3 DEF Around

(* avl_size() is the number of nodes in the subtree. *)
LEMMA SizesAreRight ==
  ASSUME OInv, pc = "idle", NEW B, Walkable(B)
  PROVE  \A n \in DOMAIN tree \cup {NULL} :
           /\ IsFiniteSet(B[n]) /\ Cardinality(B[n]) \in Nat
           /\ avl_size(tree, n) = Cardinality(B[n])
<1> DEFINE D == DOMAIN tree
<1>1. /\ NULL \notin D /\ D \subseteq Int /\ IsFiniteSet(D)
      /\ \A n \in D : Fresh(tree, n)
  BY IdleFacts
<1>2. /\ B[NULL] = {} /\ \A n \in D \cup {NULL} : B[n] \in SUBSET D
      /\ \A Q \in SUBSET D : Q # {} => \E c \in Q : \A s \in Sides : tree[c][s] \notin Q
  BY DEF Walkable
<1>3. \A n \in D \cup {NULL} : IsFiniteSet(B[n]) /\ Cardinality(B[n]) \in Nat
  BY <1>1, <1>2, FS_Subset, FS_CardinalityType
<1>4. Cardinality(B[NULL]) = 0
  BY <1>2, FS_EmptySet
<1> DEFINE Q == {n \in D : avl_size(tree, n) # Cardinality(B[n])}
<1>5. Q = {}
  <2> SUFFICES ASSUME Q # {} PROVE FALSE
    OBVIOUS
  <2>1. PICK c \in Q : \A s \in Sides : tree[c][s] \notin Q
    <3>1. Q \in SUBSET D
      OBVIOUS
    <3> HIDE DEF Q
    <3>. QED
      BY <1>2, <3>1
  <2>2. c \in D /\ avl_size(tree, c) # Cardinality(B[c])
    OBVIOUS
  <2>3. Around(B, c)
    BY <1>1, <2>2, AroundFacts
  <2> DEFINE l == tree[c].left
             r == tree[c].right
  <2>4. l \in D \cup {NULL} /\ r \in D \cup {NULL} /\ l \notin Q /\ r \notin Q
    BY <2>1, <2>3 DEF Around, Sides
  <2>5. avl_size(tree, l) = Cardinality(B[l]) /\ avl_size(tree, r) = Cardinality(B[r])
    BY <1>4, <2>4 DEF avl_size
  <2> HIDE DEF Q
  <2>6. Cardinality(B[c]) = 1 + Cardinality(B[l]) + Cardinality(B[r])
    <3>1. IsFiniteSet(B[l]) /\ IsFiniteSet(B[r])
      BY <1>3, <2>4
    <3>2. B[c] = {c} \cup B[l] \cup B[r] /\ B[l] \cap B[r] = {} /\ c \notin B[l] /\ c \notin B[r]
      BY <2>3 DEF Around
    <3> DEFINE X == B[l]
               Y == B[r]
    <3>3. /\ IsFiniteSet(X) /\ IsFiniteSet(Y) /\ X \cap Y = {} /\ c \notin X /\ c \notin Y
          /\ B[c] = {c} \cup X \cup Y
      BY <3>1, <3>2
    <3> HIDE DEF X, Y, l, r
    <3>4. Cardinality({c} \cup X \cup Y) = 1 + Cardinality(X) + Cardinality(Y)
      BY ONLY <3>3, DisjointSizes
    <3>. QED
      BY <3>3, <3>4 DEF X, Y
  <2>7. avl_size(tree, c) = 1 + avl_size(tree, l) + avl_size(tree, r)
    BY <1>1, <2>2 DEF Fresh, Updated, avl_size
  <2>. QED
    BY <2>2, <2>5, <2>6, <2>7
<1>6. \A n \in D : avl_size(tree, n) = Cardinality(B[n])
  BY <1>5
<1>7. avl_size(tree, NULL) = 0
  BY DEF avl_size
<1>. QED
  BY <1>3, <1>4, <1>6, <1>7

(* A subtree has no gaps. *)
LEMMA NoGaps ==
  ASSUME NULL \notin DOMAIN tree, DOMAIN tree \subseteq Int, NEW B, Walkable(B)
  PROVE  \A c \in DOMAIN tree : \A x, y \in B[c], z \in DOMAIN tree : x < z /\ z < y => z \in B[c]
<1> DEFINE D == DOMAIN tree
           Gap(c) == \E x, y \in B[c], z \in D : x < z /\ z < y /\ z \notin B[c]
           Q == {c \in D : Gap(c)}
<1> SUFFICES ASSUME Q # {} PROVE FALSE
  OBVIOUS
<1>1. PICK c \in Q : tree[c].parent \notin Q
  <2>1. Q \in SUBSET D
    OBVIOUS
  <2> HIDE DEF Q
  <2>. QED
    BY <2>1 DEF Walkable
<1>2. c \in D /\ Gap(c)
  OBVIOUS
<1>3. PICK x \in B[c], y \in B[c], z \in D : x < z /\ z < y /\ z \notin B[c]
  BY <1>2
<1> DEFINE p == tree[c].parent
<1>4. p # NULL
  BY <1>2, <1>3 DEF Walkable
<1>5. PICK s \in Sides : p \in D /\ tree[p][s] = c
  BY <1>2, <1>4 DEF Walkable
<1>6. NodeOrdered(tree, D, B, p, s)
  BY <1>5 DEF Walkable
<1>7. ~Gap(p)
  BY <1>1, <1>5
<1> HIDE DEF Q, Gap, p
<1>8. /\ B[c] \subseteq B[p] /\ B[c] \subseteq D
      /\ \A w \in B[c] : Before(s, w, p)
      /\ \A w \in B[p] : Before(s, w, p) => w \in B[c]
  <2>1. B[p] = {p} \cup B[c] \cup B[tree[p][Mirror(s)]]
    BY <1>5, <1>6 DEF NodeOrdered
  <2>. QED
    BY <1>5, <1>6, <2>1 DEF NodeOrdered
<1>9. z \in B[p]
  BY <1>3, <1>7, <1>8 DEF Gap
<1>10. Before(s, z, p)
  <2>1. x \in Int /\ y \in Int /\ z \in Int /\ p \in Int /\ Before(s, x, p) /\ Before(s, y, p)
    BY <1>3, <1>5, <1>8
  <2>. QED
    BY <1>3, <2>1 DEF Before
<1>. QED
  BY <1>3, <1>8, <1>9, <1>10

(* What is to the left of a subtree, seen from its parent *)
LEMMA BelowParent ==
  ASSUME NULL \notin DOMAIN tree, DOMAIN tree \subseteq Int, NEW B, Walkable(B),
         NEW n \in DOMAIN tree
  PROVE  LET p == tree[n].parent
         IN IF p = NULL THEN Below(B, n) = {}
            ELSE /\ p \in DOMAIN tree /\ tree[p].left # tree[p].right
                 /\ n = tree[p].left \/ n = tree[p].right
                 /\ n = tree[p].left => Below(B, n) = Below(B, p)
                 /\ n = tree[p].right => Below(B, n) = {p} \cup Below(B, p) \cup B[tree[p].left]
<1> DEFINE D == DOMAIN tree
           p == tree[n].parent
           l == tree[p].left
           r == tree[p].right
<1>1. CASE p = NULL
  <2>1. B[n] = D
    BY <1>1 DEF Walkable
  <2>. QED
    BY <1>1, <2>1 DEF Below
<1>2. CASE p # NULL
  <2>1. PICK s \in Sides : p \in D /\ tree[p][s] = n /\ tree[p][Mirror(s)] # n
    BY <1>2 DEF Walkable
  <2>2. (n = l \/ n = r) /\ l # r /\ p \in D
    BY <2>1 DEF Sides, Mirror
  <2>3. Around(B, p) /\ Around(B, n)
    BY <2>2, AroundFacts
  <2> HIDE DEF p
  <2>4. /\ B[p] = {p} \cup B[l] \cup B[r] /\ p \in Int /\ B[p] \subseteq D /\ D \subseteq Int
        /\ p \notin B[l] /\ p \notin B[r] /\ B[l] \cap B[r] = {}
        /\ \A x \in B[l] : x < p
        /\ \A x \in B[r] : p < x
        /\ n \in B[n] /\ n \in Int
    BY <2>2, <2>3 DEF Around
  <2>5. \A x, y \in B[p], z \in D : x < z /\ z < y => z \in B[p]
    BY <2>2, NoGaps
  <2> HIDE DEF l, r
  <2>6. ASSUME n = l
        PROVE  Below(B, n) = Below(B, p)
    <3>1. ASSUME NEW k \in D
          PROVE  k \notin B[n] /\ k < n <=> k \notin B[p] /\ k < p
      <4>0. k \in Int /\ n < p /\ n \in B[p] /\ p \in B[p] /\ B[n] \subseteq B[p]
        BY <2>4, <2>6
      <4>1. k \notin B[n] /\ k < n => k < p /\ k \notin B[p]
        <5> SUFFICES ASSUME k \notin B[n], k < n PROVE k < p /\ k \notin B[p]
          OBVIOUS
        <5>1. k < p
          BY <2>4, <4>0
        <5>2. k # p /\ k \notin B[r]
          BY <2>4, <4>0, <5>1
        <5>. QED
          BY <2>4, <2>6, <5>1, <5>2
      <4>2. k \notin B[p] /\ k < p => k \notin B[n] /\ k < n
        <5> SUFFICES ASSUME k \notin B[p], k < p PROVE k \notin B[n] /\ k < n
          OBVIOUS
        <5>1. ~(n < k)
          BY <2>5, <4>0
        <5>2. k # n
          BY <4>0
        <5>. QED
          BY <2>4, <4>0, <5>1, <5>2
      <4>. QED
        BY <4>1, <4>2
    <3>. QED
      BY <3>1 DEF Below
  <2>7. ASSUME n = r
        PROVE  Below(B, n) = {p} \cup Below(B, p) \cup B[l]
    <3>1. ASSUME NEW k \in D
          PROVE  k \notin B[n] /\ k < n <=> k = p \/ (k \notin B[p] /\ k < p) \/ k \in B[l]
      <4>0. k \in Int /\ p < n /\ n \in B[p] /\ p \in B[p] /\ B[n] \subseteq B[p]
        BY <2>4, <2>7
      <4>1. k \notin B[n] /\ k < n => k = p \/ (k \notin B[p] /\ k < p) \/ k \in B[l]
        <5> SUFFICES ASSUME k \notin B[n], k < n, k \notin B[p], k # p PROVE k < p
          BY <2>4, <2>7
        <5>1. ~(p < k)
          BY <2>5, <4>0
        <5>. QED
          BY <2>4, <4>0, <5>1
      <4>2. k = p => k \notin B[n] /\ k < n
        BY <2>4, <2>7, <4>0
      <4>3. k \notin B[p] /\ k < p => k \notin B[n] /\ k < n
        BY <2>4, <4>0
      <4>4. k \in B[l] => k \notin B[n] /\ k < n
        BY <2>4, <2>7, <4>0
      <4>. QED
        BY <4>1, <4>2, <4>3, <4>4
    <3>2. p \in D /\ B[l] \subseteq D
      BY <2>2, <2>4
    <3>. QED
      BY <3>1, <3>2 DEF Below
  <2>. QED
    BY <1>2, <2>2, <2>6, <2>7 DEF l, r, p
<1>. QED
  BY <1>1, <1>2

(* Ranks as numbers of nodes *)
Ranked(B, n) ==
  /\ Rank(n) \in Nat /\ Rank(n) < Cardinality(DOMAIN tree)
  /\ Cardinality(Below(B, n)) \in Nat
  /\ Rank(n) = Cardinality(B[tree[n].left]) + Cardinality(Below(B, n))

(* The rank of a node: what its left subtree holds and what is below its   *)
(* subtree.                                                                *)
LEMMA RankFacts ==
  ASSUME OInv, pc = "idle", NEW B, Walkable(B), NEW n \in DOMAIN tree
  PROVE  Ranked(B, n)
<1> DEFINE D == DOMAIN tree
           l == tree[n].left
           Less == {m \in D : m < n}
<1>1. NULL \notin D /\ D \subseteq Int /\ IsFiniteSet(D)
  BY IdleFacts
<1>2. Around(B, n)
  BY <1>1, AroundFacts
<1>3. /\ l \in D \cup {NULL} /\ B[l] \subseteq B[n] /\ B[n] \subseteq D /\ n \in Int
      /\ \A x \in B[l] : x < n
      /\ \A x \in B[n] : x < n => x \in B[l]
  <2>1. /\ l \in D \cup {NULL}
        /\ B[n] = {n} \cup B[l] \cup B[tree[n].right] /\ B[n] \subseteq D /\ n \in Int
        /\ \A x \in B[l] : x < n
        /\ \A x \in B[tree[n].right] : n < x
    BY <1>2 DEF Around
  <2> HIDE DEF l
  <2>. QED
    BY <1>1, <2>1
<1> HIDE DEF l
<1>4. Less = B[l] \cup Below(B, n) /\ B[l] \cap Below(B, n) = {} /\ n \notin Below(B, n) /\ n \notin B[l]
  BY <1>1, <1>3 DEF Below
<1>5. Less \in SUBSET D /\ Below(B, n) \in SUBSET D /\ B[l] \in SUBSET D /\ n \notin Less
  BY <1>1, <1>3 DEF Below
<1>6. Rank(n) = Cardinality(Less)
  BY DEF Rank
<1> HIDE DEF Less
<1>7. IsFiniteSet(Below(B, n)) /\ IsFiniteSet(B[l]) /\ IsFiniteSet(Less)
  BY <1>1, <1>5, FS_Subset
<1>8. /\ Cardinality(Less) = Cardinality(B[l]) + Cardinality(Below(B, n))
      /\ Cardinality(Below(B, n)) \in Nat
  <2> DEFINE X == B[l]
             Y == Below(B, n)
  <2>1. IsFiniteSet(X) /\ IsFiniteSet(Y) /\ X \cap Y = {} /\ n \notin X /\ n \notin Y /\ Less = X \cup Y
    BY <1>4, <1>7
  <2> HIDE DEF X, Y
  <2>2. Cardinality(X \cup Y) = Cardinality(X) + Cardinality(Y) /\ Cardinality(Y) \in Nat
    BY ONLY <2>1, DisjointSizes
  <2>. QED
    BY <2>1, <2>2 DEF X, Y
<1>9. Cardinality(Less) < Cardinality(D) /\ Cardinality(Less) \in Nat
  <2>1. /\ Cardinality(Less) <= Cardinality(D)
        /\ Cardinality(D) = Cardinality(Less) => D = Less
        /\ Cardinality(Less) \in Nat /\ Cardinality(D) \in Nat
    BY <1>1, <1>5, <1>7, FS_Subset, FS_CardinalityType
  <2>2. D # Less
    BY <1>5
  <2>. QED
    BY <2>1, <2>2
<1>. QED
  BY <1>6, <1>8, <1>9 DEF Ranked, l

(* No two nodes have the same rank. *)
LEMMA RankOrder ==
  ASSUME OInv, pc = "idle"
  PROVE  \A m, n \in DOMAIN tree : m # n => Rank(m) # Rank(n)
<1> DEFINE D == DOMAIN tree
           Less(n) == {m \in D : m < n}
<1>1. NULL \notin D /\ D \subseteq Int /\ IsFiniteSet(D)
  BY IdleFacts
<1>2. ASSUME NEW m \in D, NEW n \in D, m < n
      PROVE  Rank(m) # Rank(n)
  <2>1. Less(m) \in SUBSET Less(n) /\ m \in Less(n) /\ m \notin Less(m) /\ Less(n) \in SUBSET D
    BY <1>1, <1>2
  <2>2. Rank(m) = Cardinality(Less(m)) /\ Rank(n) = Cardinality(Less(n))
    BY DEF Rank
  <2> HIDE DEF Less
  <2>3. IsFiniteSet(Less(n))
    BY <1>1, <2>1, FS_Subset
  <2>4. Cardinality(Less(n)) = Cardinality(Less(m)) => Less(n) = Less(m)
    BY <2>1, <2>3, FS_Subset
  <2>. QED
    BY <2>1, <2>2, <2>4
<1>. QED
  BY <1>1, <1>2

(* The position of a node relative to its parent *)
Climbs(B, n) ==
  LET p == tree[n].parent
      s == Cardinality(B[tree[n].left])
      q == Cardinality(B[tree[n].right])
  IN /\ s \in Nat /\ q \in Nat
     /\ IF p = NULL
        THEN Cardinality(Below(B, n)) = 0 /\ Cardinality(DOMAIN tree) = s + 1 + q
        ELSE /\ p \in DOMAIN tree /\ tree[p].left # tree[p].right
             /\ n = tree[p].left \/ n = tree[p].right
             /\ n = tree[p].left => /\ Cardinality(Below(B, n)) = Cardinality(Below(B, p))
                                    /\ Rank(p) = Rank(n) + 1 + q
             /\ n = tree[p].right =>
                  /\ Cardinality(Below(B, n)) = Cardinality(Below(B, p)) + 1 + Cardinality(B[tree[p].left])
                  /\ Rank(n) = Rank(p) + 1 + s

(* The ranks of a node and its parent differ by the sizes between them. *)
LEMMA ClimbsFacts ==
  ASSUME OInv, pc = "idle", NEW B, Walkable(B), NEW n \in DOMAIN tree
  PROVE  Climbs(B, n)
<1> DEFINE D == DOMAIN tree
           p == tree[n].parent
           s == Cardinality(B[tree[n].left])
           q == Cardinality(B[tree[n].right])
<1>1. NULL \notin D /\ D \subseteq Int /\ IsFiniteSet(D)
  BY IdleFacts
<1>2. \A c \in D : Around(B, c)
  BY <1>1, AroundFacts
<1>3. \A c \in D \cup {NULL} : IsFiniteSet(B[c]) /\ Cardinality(B[c]) \in Nat
  BY SizesAreRight
<1>4. s \in Nat /\ q \in Nat /\ Cardinality(B[n]) = 1 + s + q
  <2> DEFINE X == B[tree[n].left]
             Y == B[tree[n].right]
  <2>1. /\ tree[n].left \in D \cup {NULL} /\ tree[n].right \in D \cup {NULL}
        /\ B[n] = {n} \cup X \cup Y /\ X \cap Y = {} /\ n \notin X /\ n \notin Y
    BY <1>2 DEF Around
  <2>2. IsFiniteSet(X) /\ IsFiniteSet(Y)
    BY <1>3, <2>1
  <2>3. s = Cardinality(X) /\ q = Cardinality(Y)
    OBVIOUS
  <2> HIDE DEF X, Y, s, q
  <2>4. /\ Cardinality({n} \cup X \cup Y) = 1 + Cardinality(X) + Cardinality(Y)
        /\ Cardinality(X) \in Nat /\ Cardinality(Y) \in Nat
    BY ONLY <2>1, <2>2, DisjointSizes
  <2>. QED
    BY <2>1, <2>3, <2>4
<1>5. Ranked(B, n) /\ (p \in D => Ranked(B, p))
  BY RankFacts
<1>6. IF p = NULL THEN Below(B, n) = {}
      ELSE /\ p \in D /\ tree[p].left # tree[p].right
           /\ n = tree[p].left \/ n = tree[p].right
           /\ n = tree[p].left => Below(B, n) = Below(B, p)
           /\ n = tree[p].right => Below(B, n) = {p} \cup Below(B, p) \cup B[tree[p].left]
  BY <1>1, BelowParent
<1>7. CASE p = NULL
  <2>1. B[n] = D
    BY <1>7 DEF Walkable
  <2>2. Cardinality(Below(B, n)) = 0
    BY <1>6, <1>7, FS_EmptySet
  <2>. QED
    BY <1>4, <1>7, <2>1, <2>2 DEF Climbs
<1>8. CASE p # NULL
  <2> HIDE DEF p
  <2>1. p \in D /\ tree[p].left # tree[p].right /\ (n = tree[p].left \/ n = tree[p].right)
    BY <1>6, <1>8
  <2>2. /\ Rank(n) = s + Cardinality(Below(B, n)) /\ Cardinality(Below(B, n)) \in Nat
        /\ Rank(p) = Cardinality(B[tree[p].left]) + Cardinality(Below(B, p))
        /\ Cardinality(Below(B, p)) \in Nat
    BY <1>5, <2>1 DEF Ranked
  <2>3. ASSUME n = tree[p].left
        PROVE  Cardinality(Below(B, n)) = Cardinality(Below(B, p)) /\ Rank(p) = Rank(n) + 1 + q
    <3>1. Below(B, n) = Below(B, p)
      BY <1>6, <1>8, <2>3
    <3>2. Rank(p) = Cardinality(B[n]) + Cardinality(Below(B, p))
      BY <2>2, <2>3
    <3> HIDE DEF s, q
    <3>. QED
      BY <1>4, <2>2, <3>1, <3>2
  <2>4. ASSUME n = tree[p].right
        PROVE  /\ Cardinality(Below(B, n)) = Cardinality(Below(B, p)) + 1 + Cardinality(B[tree[p].left])
               /\ Rank(n) = Rank(p) + 1 + s
    <3> DEFINE X == Below(B, p)
               Y == B[tree[p].left]
    <3>1. Below(B, n) = {p} \cup X \cup Y
      BY <1>6, <1>8, <2>4
    <3>2. Around(B, p)
      BY <1>2, <2>1
    <3>3. Y \subseteq B[p] /\ p \notin Y /\ p \in B[p] /\ tree[p].left \in D \cup {NULL}
      BY <3>2 DEF Around
    <3>4. X \cap Y = {} /\ p \notin X /\ X \in SUBSET D
      BY <3>3 DEF Below
    <3>5. IsFiniteSet(X) /\ IsFiniteSet(Y)
      BY <1>1, <1>3, <3>3, <3>4, FS_Subset
    <3>6. Rank(p) = Cardinality(Y) + Cardinality(X) /\ Rank(n) = s + Cardinality(Below(B, n))
      BY <2>2
    <3> HIDE DEF X, Y, s
    <3>7. /\ Cardinality({p} \cup X \cup Y) = 1 + Cardinality(X) + Cardinality(Y)
          /\ Cardinality(X) \in Nat /\ Cardinality(Y) \in Nat
      BY ONLY <3>3, <3>4, <3>5, DisjointSizes
    <3>8. Cardinality(Below(B, n)) = 1 + Cardinality(X) + Cardinality(Y)
      BY <3>1, <3>7
    <3>9. /\ Cardinality(Below(B, n)) = Cardinality(X) + 1 + Cardinality(Y)
          /\ Rank(n) = Rank(p) + 1 + s
      BY <1>4, <3>6, <3>7, <3>8
    <3>. QED
      BY <3>9 DEF X, Y
  <2>. QED
    BY <1>4, <1>8, <2>1, <2>3, <2>4 DEF Climbs, p
<1>. QED
  BY <1>7, <1>8

(* A function that avl_rank() may have chosen: one step up *)
ClimbEq(climb) ==
  climb = [m \in DOMAIN tree |->
             LET p == tree[m].parent
             IN IF p = NULL THEN 0
                ELSE climb[p] + (IF m = tree[p].right THEN 1 + avl_size(tree, tree[p].left) ELSE 0)]

(* One step of avl_rank() *)
ClimbStep(climb, m) ==
  LET p == tree[m].parent
  IN IF p = NULL THEN 0
     ELSE climb[p] + (IF m = tree[p].right THEN 1 + avl_size(tree, tree[p].left) ELSE 0)

(* The equation is that of the steps. *)
LEMMA ClimbEqIs ==
  ASSUME NEW f
  PROVE  ClimbEq(f) <=> f = [m \in DOMAIN tree |-> ClimbStep(f, m)]
BY DEF ClimbEq, ClimbStep

(* avl_rank() adds up the nodes below: there is just one function that     *)
(* climbs so.                                                              *)
LEMMA AvlRankFacts ==
  ASSUME OInv, pc = "idle", NEW n \in DOMAIN tree
  PROVE  avl_rank(n) = Rank(n)
<1> DEFINE D == DOMAIN tree
<1>1. PICK B : Walkable(B)
  BY IdleFacts
<1>2. /\ NULL \notin D /\ D \subseteq Int
      /\ \A c \in D : Around(B, c) /\ Climbs(B, c) /\ Ranked(B, c)
      /\ \A c \in D \cup {NULL} : avl_size(tree, c) = Cardinality(B[c]) /\ Cardinality(B[c]) \in Nat
  BY <1>1, IdleFacts, AroundFacts, ClimbsFacts, RankFacts, SizesAreRight
<1> DEFINE F(m) == Cardinality(Below(B, m))
           f == [m \in D |-> F(m)]
<1>3. \A m \in D : f[m] = Cardinality(Below(B, m))
  OBVIOUS
<1> HIDE DEF F
<1>4. f = [m \in D |-> f[m]]
  OBVIOUS
<1> HIDE DEF f
<1>5. ASSUME NEW m \in D
      PROVE  f[m] = ClimbStep(f, m)
  <2> DEFINE p == tree[m].parent
             l == tree[p].left
  <2>1. CASE p = NULL
    BY <1>2, <1>3, <2>1 DEF Climbs, ClimbStep
  <2>2. CASE p # NULL
    <3>1. /\ p \in D /\ l # tree[p].right
          /\ m = l \/ m = tree[p].right
          /\ m = l => Cardinality(Below(B, m)) = Cardinality(Below(B, p))
          /\ m = tree[p].right => Cardinality(Below(B, m)) = Cardinality(Below(B, p)) + 1 + Cardinality(B[l])
      BY <1>2, <2>2 DEF Climbs
    <3>2. l \in D \cup {NULL} /\ Cardinality(Below(B, p)) \in Nat
      BY <1>2, <3>1 DEF Around, Ranked
    <3>3. avl_size(tree, l) = Cardinality(B[l]) /\ Cardinality(B[l]) \in Nat
      BY <1>2, <3>2
    <3>4. f[m] = Cardinality(Below(B, m)) /\ f[p] = Cardinality(Below(B, p))
      BY <1>3, <3>1
    <3>5. ClimbStep(f, m) = f[p] + (IF m = tree[p].right THEN 1 + avl_size(tree, l) ELSE 0)
      BY <2>2 DEF ClimbStep
    <3> HIDE DEF p, l
    <3>6. CASE m = l
      BY <3>1, <3>2, <3>4, <3>5, <3>6
    <3>7. CASE m = tree[p].right
      BY <3>1, <3>2, <3>3, <3>4, <3>5, <3>7
    <3>. QED
      BY <3>1, <3>6, <3>7
  <2>. QED
    BY <2>1, <2>2
<1>6. ClimbEq(f)
  BY <1>4, <1>5, ClimbEqIs
<1> DEFINE g == CHOOSE h : ClimbEq(h)
<1>7. ClimbEq(g) /\ avl_rank(n) = avl_size(tree, tree[n].left) + g[n]
  <2>1. ClimbEq(g)
    BY <1>6
  <2>2. avl_rank(n) = avl_size(tree, tree[n].left) + g[n]
    BY DEF avl_rank, ClimbEq
  <2>. QED
    BY <2>1, <2>2
<1> HIDE DEF g
<1>8. \A m \in D : g[m] = ClimbStep(g, m)
  BY <1>7, ClimbEqIs
<1> DEFINE Q == {m \in D : g[m] # f[m]}
<1>9. Q = {}
  <2> SUFFICES ASSUME Q # {} PROVE FALSE
    OBVIOUS
  <2>1. PICK c \in Q : tree[c].parent \notin Q
    <3>1. Q \in SUBSET D
      OBVIOUS
    <3> HIDE DEF Q
    <3>. QED
      BY <1>1, <3>1 DEF Walkable
  <2>2. c \in D /\ g[c] # f[c]
    OBVIOUS
  <2>3. tree[c].parent = NULL \/ tree[c].parent \in D
    BY <1>2, <2>2 DEF Climbs
  <2>4. tree[c].parent # NULL => g[tree[c].parent] = f[tree[c].parent]
    BY <2>1, <2>3
  <2>5. ClimbStep(g, c) = ClimbStep(f, c)
    BY <2>4 DEF ClimbStep
  <2>. QED
    BY <1>5, <1>8, <2>2, <2>5
<1>10. g[n] = Cardinality(Below(B, n))
  BY <1>3, <1>9
<1>11. tree[n].left \in D \cup {NULL} /\ Rank(n) = Cardinality(B[tree[n].left]) + Cardinality(Below(B, n))
  BY <1>2 DEF Around, Ranked
<1>. QED
  BY <1>2, <1>7, <1>10, <1>11

(* A function that avl_offset() may have chosen, and one step of its walk *)
WalkEq(offset, walk) ==
  walk = [w \in (DOMAIN tree) \X Int |->
        LET m == w[1]
            pos == w[2]
            l == tree[m].left
            r == tree[m].right
            p == tree[m].parent
        IN IF pos = offset THEN m
           ELSE IF pos < offset /\ pos + avl_size(tree, r) >= offset
           THEN walk[<<r, pos + 1 + avl_size(tree, tree[r].left)>>]
           ELSE IF pos > offset /\ pos - avl_size(tree, l) <= offset
           THEN walk[<<l, pos - 1 - avl_size(tree, tree[l].right)>>]
           ELSE IF p = NULL THEN NULL
           ELSE IF m = tree[p].right THEN walk[<<p, pos - 1 - avl_size(tree, l)>>]
           ELSE walk[<<p, pos + 1 + avl_size(tree, r)>>]]

(* One step of avl_offset() from m at pos *)
WalkStep(offset, walk, m, pos) ==
  LET l == tree[m].left
      r == tree[m].right
      p == tree[m].parent
  IN IF pos = offset THEN m
     ELSE IF pos < offset /\ pos + avl_size(tree, r) >= offset
     THEN walk[<<r, pos + 1 + avl_size(tree, tree[r].left)>>]
     ELSE IF pos > offset /\ pos - avl_size(tree, l) <= offset
     THEN walk[<<l, pos - 1 - avl_size(tree, tree[l].right)>>]
     ELSE IF p = NULL THEN NULL
     ELSE IF m = tree[p].right THEN walk[<<p, pos - 1 - avl_size(tree, l)>>]
     ELSE walk[<<p, pos + 1 + avl_size(tree, r)>>]

(* The equation is that of the steps. *)
LEMMA WalkEqIs ==
  ASSUME NEW offset, NEW f
  PROVE  WalkEq(offset, f) <=>
           f = [w \in (DOMAIN tree) \X Int |-> WalkStep(offset, f, w[1], w[2])]
BY DEF WalkEq, WalkStep

(* The step, by where the target is *)
WalkCases(B, offset, walk, m, pos) ==
  LET l == tree[m].left
      r == tree[m].right
      p == tree[m].parent
      s == Cardinality(B[l])
      q == Cardinality(B[r])
      next == WalkStep(offset, walk, m, pos)
  IN /\ s \in Nat /\ q \in Nat
     /\ pos = offset => next = m
     /\ offset - pos \in 1 .. q =>
          /\ r \in DOMAIN tree
          /\ next = walk[<<r, pos + 1 + Cardinality(B[tree[r].left])>>]
     /\ pos - offset \in 1 .. s =>
          /\ l \in DOMAIN tree
          /\ next = walk[<<l, pos - 1 - Cardinality(B[tree[l].right])>>]
     /\ ~(offset - pos \in -s .. q) =>
          IF p = NULL THEN next = NULL
          ELSE IF m = tree[p].right THEN next = walk[<<p, pos - 1 - s>>]
          ELSE next = walk[<<p, pos + 1 + q>>]

(* The sizes of the subtrees decide where the walk goes. *)
LEMMA WalkCasesFacts ==
  ASSUME OInv, pc = "idle", NEW B, Walkable(B), NEW offset \in Int, NEW walk,
         NEW m \in DOMAIN tree, NEW pos \in Int
  PROVE  WalkCases(B, offset, walk, m, pos)
<1> DEFINE D == DOMAIN tree
           l == tree[m].left
           r == tree[m].right
           p == tree[m].parent
           s == Cardinality(B[l])
           q == Cardinality(B[r])
           a == Cardinality(B[tree[r].left])
           b == Cardinality(B[tree[l].right])
           next == WalkStep(offset, walk, m, pos)
<1>1. /\ NULL \notin D /\ D \subseteq Int
      /\ \A c \in D : Around(B, c)
      /\ \A c \in D \cup {NULL} : avl_size(tree, c) = Cardinality(B[c]) /\ Cardinality(B[c]) \in Nat
  BY IdleFacts, AroundFacts, SizesAreRight
<1>2. /\ l \in D \cup {NULL} /\ r \in D \cup {NULL} /\ s \in Nat /\ q \in Nat
      /\ avl_size(tree, l) = s /\ avl_size(tree, r) = q
  BY <1>1 DEF Around
<1>3. Cardinality(B[NULL]) = 0
  BY FS_EmptySet DEF Walkable
<1>4. q # 0 => r \in D /\ avl_size(tree, tree[r].left) = a
  <2>1. q # 0 => r \in D
    BY <1>2, <1>3
  <2>2. r \in D => tree[r].left \in D \cup {NULL}
    BY <1>1 DEF Around
  <2>. QED
    BY <1>1, <2>1, <2>2
<1>5. s # 0 => l \in D /\ avl_size(tree, tree[l].right) = b
  <2>1. s # 0 => l \in D
    BY <1>2, <1>3
  <2>2. l \in D => tree[l].right \in D \cup {NULL}
    BY <1>1 DEF Around
  <2>. QED
    BY <1>1, <2>1, <2>2
<1>6. next = IF pos = offset THEN m
             ELSE IF pos < offset /\ pos + q >= offset
             THEN walk[<<r, pos + 1 + avl_size(tree, tree[r].left)>>]
             ELSE IF pos > offset /\ pos - s <= offset
             THEN walk[<<l, pos - 1 - avl_size(tree, tree[l].right)>>]
             ELSE IF p = NULL THEN NULL
             ELSE IF m = tree[p].right THEN walk[<<p, pos - 1 - s>>]
             ELSE walk[<<p, pos + 1 + q>>]
  BY <1>2 DEF WalkStep
<1> HIDE DEF D, l, r, p, s, q, a, b, next
<1>7. pos = offset => next = m
  BY <1>6
<1>8. ASSUME offset - pos \in 1 .. q
      PROVE  r \in D /\ next = walk[<<r, pos + 1 + a>>]
  <2>1. pos # offset /\ pos < offset /\ pos + q >= offset /\ q # 0
    BY <1>2, <1>8
  <2>. QED
    BY <1>4, <1>6, <2>1
<1>9. ASSUME pos - offset \in 1 .. s
      PROVE  l \in D /\ next = walk[<<l, pos - 1 - b>>]
  <2>1. pos # offset /\ ~(pos < offset) /\ pos > offset /\ pos - s <= offset /\ s # 0
    BY <1>2, <1>9
  <2>. QED
    BY <1>5, <1>6, <2>1
<1>10. ASSUME ~(offset - pos \in -s .. q)
       PROVE  IF p = NULL THEN next = NULL
              ELSE IF m = tree[p].right THEN next = walk[<<p, pos - 1 - s>>]
              ELSE next = walk[<<p, pos + 1 + q>>]
  <2>1. pos # offset /\ ~(pos < offset /\ pos + q >= offset) /\ ~(pos > offset /\ pos - s <= offset)
    BY <1>2, <1>10
  <2>. QED
    BY <1>6, <2>1
<1>. QED
  BY <1>2, <1>7, <1>8, <1>9, <1>10 DEF WalkCases, D, l, r, p, s, q, a, b, next

(* The node of a rank, if there is one *)
NodeAt(k) ==
  IF \E x \in DOMAIN tree : Rank(x) = k THEN CHOOSE x \in DOMAIN tree : Rank(x) = k ELSE NULL

(* There is just one node of a rank. *)
LEMMA NodeAtFacts ==
  ASSUME OInv, pc = "idle"
  PROVE  /\ \A x \in DOMAIN tree : NodeAt(Rank(x)) = x
         /\ \A k : (\A x \in DOMAIN tree : Rank(x) # k) => NodeAt(k) = NULL
<1>1. \A m, n \in DOMAIN tree : m # n => Rank(m) # Rank(n)
  BY RankOrder
<1>2. ASSUME NEW x \in DOMAIN tree
      PROVE  NodeAt(Rank(x)) = x
  <2> DEFINE k == Rank(x)
             y == CHOOSE z \in DOMAIN tree : Rank(z) = k
  <2>1. \E z \in DOMAIN tree : Rank(z) = k
    OBVIOUS
  <2>2. y \in DOMAIN tree /\ Rank(y) = k
    <3> HIDE DEF k
    <3>. QED
      BY <2>1
  <2>3. NodeAt(k) = y
    BY <2>1 DEF NodeAt
  <2> HIDE DEF y
  <2>4. y = x
    BY <1>1, <2>2
  <2>. QED
    BY <2>3, <2>4
<1>. QED
  BY <1>2 DEF NodeAt

(* The two children of a node and its place under its parent, by rank *)
Steps(B, m) ==
  LET l == tree[m].left
      r == tree[m].right
      p == tree[m].parent
      s == Cardinality(B[l])
      q == Cardinality(B[r])
  IN /\ s \in Nat /\ q \in Nat /\ Rank(m) \in Nat
     /\ r \in DOMAIN tree => /\ Rank(r) = Rank(m) + 1 + Cardinality(B[tree[r].left])
                             /\ Cardinality(B[tree[r].left]) \in Nat
                             /\ Cardinality(B[tree[r].right]) \in Nat
                             /\ q = 1 + Cardinality(B[tree[r].left]) + Cardinality(B[tree[r].right])
     /\ l \in DOMAIN tree => /\ Rank(m) = Rank(l) + 1 + Cardinality(B[tree[l].right])
                             /\ Rank(l) \in Nat
                             /\ Cardinality(B[tree[l].left]) \in Nat
                             /\ Cardinality(B[tree[l].right]) \in Nat
                             /\ s = 1 + Cardinality(B[tree[l].left]) + Cardinality(B[tree[l].right])
     /\ IF p = NULL THEN Rank(m) = s /\ Cardinality(DOMAIN tree) = s + 1 + q
        ELSE /\ p \in DOMAIN tree /\ Rank(p) \in Nat
             /\ IF m = tree[p].right THEN Rank(m) = Rank(p) + 1 + s ELSE Rank(p) = Rank(m) + 1 + q

(* The size of a subtree by its two children. *)
LEMMA ChildSizes ==
  ASSUME OInv, pc = "idle", NEW B, Walkable(B), NEW c \in DOMAIN tree
  PROVE  /\ Cardinality(B[tree[c].left]) \in Nat
         /\ Cardinality(B[tree[c].right]) \in Nat
         /\ Cardinality(B[c]) = 1 + Cardinality(B[tree[c].left]) + Cardinality(B[tree[c].right])
<1> DEFINE D == DOMAIN tree
           l == tree[c].left
           r == tree[c].right
<1>1. /\ NULL \notin D /\ Around(B, c) /\ Fresh(tree, c)
      /\ \A n \in D \cup {NULL} : avl_size(tree, n) = Cardinality(B[n]) /\ Cardinality(B[n]) \in Nat
  BY IdleFacts, AroundFacts, SizesAreRight
<1>2. l \in D \cup {NULL} /\ r \in D \cup {NULL}
  BY <1>1 DEF Around
<1>3. avl_size(tree, c) = 1 + avl_size(tree, l) + avl_size(tree, r)
  BY <1>1 DEF Fresh, Updated, avl_size
<1>. QED
  BY <1>1, <1>2, <1>3

(* It is so for every node. *)
LEMMA StepsFacts ==
  ASSUME OInv, pc = "idle", NEW B, Walkable(B), NEW m \in DOMAIN tree
  PROVE  Steps(B, m)
<1> DEFINE D == DOMAIN tree
           l == tree[m].left
           r == tree[m].right
           p == tree[m].parent
           s == Cardinality(B[l])
           q == Cardinality(B[r])
<1>1. /\ NULL \notin D
      /\ \A c \in D : Climbs(B, c) /\ Ranked(B, c)
  BY IdleFacts, ClimbsFacts, RankFacts
<1>2. /\ s \in Nat /\ q \in Nat /\ Rank(m) \in Nat
  BY <1>1, ChildSizes DEF Ranked
<1>3. ASSUME r \in D
      PROVE  /\ Rank(r) = Rank(m) + 1 + Cardinality(B[tree[r].left])
             /\ Cardinality(B[tree[r].left]) \in Nat
             /\ Cardinality(B[tree[r].right]) \in Nat
             /\ q = 1 + Cardinality(B[tree[r].left]) + Cardinality(B[tree[r].right])
  <2>1. NodeOrdered(tree, D, B, m, "right")
    BY DEF Walkable, Sides
  <2>2. tree[r].parent = m /\ m # NULL
    BY <1>1, <1>3, <2>1 DEF NodeOrdered
  <2>3. Rank(r) = Rank(m) + 1 + Cardinality(B[tree[r].left])
    BY <1>1, <1>3, <2>2 DEF Climbs
  <2>. QED
    BY <1>3, <2>3, ChildSizes
<1>4. ASSUME l \in D
      PROVE  /\ Rank(m) = Rank(l) + 1 + Cardinality(B[tree[l].right])
             /\ Rank(l) \in Nat
             /\ Cardinality(B[tree[l].left]) \in Nat
             /\ Cardinality(B[tree[l].right]) \in Nat
             /\ s = 1 + Cardinality(B[tree[l].left]) + Cardinality(B[tree[l].right])
  <2>1. NodeOrdered(tree, D, B, m, "left")
    BY DEF Walkable, Sides
  <2>2. tree[l].parent = m /\ m # NULL
    BY <1>1, <1>4, <2>1 DEF NodeOrdered
  <2>3. Rank(m) = Rank(l) + 1 + Cardinality(B[tree[l].right]) /\ Rank(l) \in Nat
    BY <1>1, <1>4, <2>2 DEF Climbs, Ranked
  <2>. QED
    BY <1>4, <2>3, ChildSizes
<1>5. IF p = NULL THEN Rank(m) = s /\ Cardinality(D) = s + 1 + q
      ELSE /\ p \in D /\ Rank(p) \in Nat
           /\ IF m = tree[p].right THEN Rank(m) = Rank(p) + 1 + s ELSE Rank(p) = Rank(m) + 1 + q
  <2>1. Climbs(B, m) /\ Ranked(B, m)
    BY <1>1
  <2>2. CASE p = NULL
    BY <1>2, <2>1, <2>2 DEF Climbs, Ranked
  <2>3. CASE p # NULL
    BY <1>1, <2>1, <2>3 DEF Climbs, Ranked
  <2>. QED
    BY <2>2, <2>3
<1>. QED
  BY <1>2, <1>3, <1>4, <1>5 DEF Steps

(* The walk that goes to the node of the right rank takes each step. *)
LEMMA WalkToRank ==
  ASSUME OInv, pc = "idle", NEW B, Walkable(B), NEW offset \in Int, NEW f,
         \A m \in DOMAIN tree, pos \in Int : f[<<m, pos>>] = NodeAt(Rank(m) + offset - pos),
         NEW m \in DOMAIN tree, NEW pos \in Int
  PROVE  f[<<m, pos>>] = WalkStep(offset, f, m, pos)
<1> DEFINE D == DOMAIN tree
           l == tree[m].left
           r == tree[m].right
           p == tree[m].parent
           s == Cardinality(B[l])
           q == Cardinality(B[r])
           a == Cardinality(B[tree[r].left])
           b == Cardinality(B[tree[l].right])
           next == WalkStep(offset, f, m, pos)
           k == Rank(m) + offset - pos
<1>1. /\ s \in Nat /\ q \in Nat /\ Rank(m) \in Nat
      /\ r \in D => Rank(r) = Rank(m) + 1 + a /\ a \in Nat
      /\ l \in D => Rank(m) = Rank(l) + 1 + b /\ Rank(l) \in Nat /\ b \in Nat
      /\ IF p = NULL THEN Rank(m) = s /\ Cardinality(D) = s + 1 + q
         ELSE /\ p \in D /\ Rank(p) \in Nat
              /\ IF m = tree[p].right THEN Rank(m) = Rank(p) + 1 + s ELSE Rank(p) = Rank(m) + 1 + q
  BY StepsFacts DEF Steps
<1>2. /\ pos = offset => next = m
      /\ offset - pos \in 1 .. q => r \in D /\ next = f[<<r, pos + 1 + a>>]
      /\ pos - offset \in 1 .. s => l \in D /\ next = f[<<l, pos - 1 - b>>]
      /\ ~(offset - pos \in -s .. q) =>
            IF p = NULL THEN next = NULL
            ELSE IF m = tree[p].right THEN next = f[<<p, pos - 1 - s>>]
            ELSE next = f[<<p, pos + 1 + q>>]
  <2>1. WalkCases(B, offset, f, m, pos)
    BY WalkCasesFacts
  <2>. QED
    BY <2>1 DEF WalkCases
<1>3. \A x \in D : NodeAt(Rank(x)) = x /\ Rank(x) \in Nat /\ Rank(x) < Cardinality(D)
  BY NodeAtFacts, RankFacts DEF Ranked
<1>4. (\A x \in D : Rank(x) # k) => NodeAt(k) = NULL
  BY NodeAtFacts
<1>5. f[<<m, pos>>] = NodeAt(k)
  OBVIOUS
<1>6. \A x \in D, i \in Int : Rank(x) + offset - i = k => f[<<x, i>>] = NodeAt(k)
  OBVIOUS
<1>7. k = Rank(m) + offset - pos
  OBVIOUS
<1> HIDE DEF D, l, r, p, s, q, a, b, next, k
<1>8. CASE pos = offset
  <2>1. k = Rank(m)
    BY <1>1, <1>7, <1>8
  <2>2. NodeAt(k) = m
    BY <1>3, <2>1 DEF D
  <2>. QED
    BY <1>2, <1>5, <1>8, <2>2 DEF next
<1>9. CASE offset - pos \in 1 .. q
  <2>1. r \in D /\ next = f[<<r, pos + 1 + a>>] /\ a \in Nat /\ Rank(r) = Rank(m) + 1 + a
    BY <1>1, <1>2, <1>9
  <2>2. pos + 1 + a \in Int /\ Rank(r) + offset - (pos + 1 + a) = k
    BY <1>1, <1>7, <2>1
  <2>. QED
    BY <1>5, <1>6, <2>1, <2>2 DEF next
<1>10. CASE pos - offset \in 1 .. s
  <2>1. l \in D /\ next = f[<<l, pos - 1 - b>>] /\ b \in Nat /\ Rank(m) = Rank(l) + 1 + b /\ Rank(l) \in Nat
    BY <1>1, <1>2, <1>10
  <2>2. pos - 1 - b \in Int /\ Rank(l) + offset - (pos - 1 - b) = k
    BY <1>1, <1>7, <2>1
  <2>. QED
    BY <1>5, <1>6, <2>1, <2>2 DEF next
<1>11. CASE ~(offset - pos \in -s .. q) /\ p = NULL
  <2>1. Rank(m) = s /\ Cardinality(D) = s + 1 + q /\ next = NULL
    BY <1>1, <1>2, <1>11
  <2>2. k < 0 \/ k >= Cardinality(D)
    BY <1>1, <1>7, <1>11, <2>1
  <2>3. \A x \in D : Rank(x) # k
    BY <1>1, <1>3, <1>7, <2>1, <2>2
  <2>. QED
    BY <1>4, <1>5, <2>1, <2>3 DEF next
<1>12. CASE ~(offset - pos \in -s .. q) /\ p # NULL
  <2>1. p \in D /\ Rank(p) \in Nat
    BY <1>1, <1>12
  <2>2. CASE m = tree[p].right
    <3>1. Rank(m) = Rank(p) + 1 + s /\ next = f[<<p, pos - 1 - s>>]
      BY <1>1, <1>2, <1>12, <2>2
    <3>2. pos - 1 - s \in Int /\ Rank(p) + offset - (pos - 1 - s) = k
      BY <1>1, <1>7, <2>1, <3>1
    <3>. QED
      BY <1>5, <1>6, <2>1, <3>1, <3>2 DEF next
  <2>3. CASE m # tree[p].right
    <3>1. Rank(p) = Rank(m) + 1 + q /\ next = f[<<p, pos + 1 + q>>]
      BY <1>1, <1>2, <1>12, <2>3
    <3>2. pos + 1 + q \in Int /\ Rank(p) + offset - (pos + 1 + q) = k
      BY <1>1, <1>7, <2>1, <3>1
    <3>. QED
      BY <1>5, <1>6, <2>1, <3>1, <3>2 DEF next
  <2>. QED
    BY <2>2, <2>3
<1>. QED
  BY <1>1, <1>8, <1>9, <1>10, <1>11, <1>12

(* The target lies in the subtree of m, as the sizes of its children tell. *)
Inside(B, offset, m, pos) ==
  offset - pos \in -Cardinality(B[tree[m].left]) .. Cardinality(B[tree[m].right])

(* Down the tree: two walks agree that have the target under them. *)
LEMMA WalksAgreeInside ==
  ASSUME OInv, pc = "idle", NEW B, Walkable(B), NEW offset \in Int, NEW f, NEW g,
         \A m \in DOMAIN tree, pos \in Int : f[<<m, pos>>] = WalkStep(offset, f, m, pos),
         \A m \in DOMAIN tree, pos \in Int : g[<<m, pos>>] = WalkStep(offset, g, m, pos)
  PROVE  \A m \in DOMAIN tree, pos \in Int :
           Inside(B, offset, m, pos) => f[<<m, pos>>] = g[<<m, pos>>]
<1> DEFINE D == DOMAIN tree
           Differ(m, pos) == Inside(B, offset, m, pos) /\ f[<<m, pos>>] # g[<<m, pos>>]
           Q == {m \in D : \E pos \in Int : Differ(m, pos)}
<1> SUFFICES ASSUME Q # {} PROVE FALSE
  OBVIOUS
<1>1. PICK c \in Q : \A z \in Sides : tree[c][z] \notin Q
  <2>1. Q \in SUBSET D
    OBVIOUS
  <2> HIDE DEF Q
  <2>. QED
    BY <2>1 DEF Walkable
<1>2. PICK pos \in Int : Differ(c, pos)
  OBVIOUS
<1>3. /\ c \in D /\ f[<<c, pos>>] # g[<<c, pos>>] /\ Inside(B, offset, c, pos)
      /\ tree[c].left \notin Q /\ tree[c].right \notin Q
  BY <1>1, <1>2 DEF Sides
<1>4. \A x \in D \ Q, i \in Int : Inside(B, offset, x, i) => f[<<x, i>>] = g[<<x, i>>]
  OBVIOUS
<1> DEFINE l == tree[c].left
           r == tree[c].right
           s == Cardinality(B[l])
           q == Cardinality(B[r])
           a == Cardinality(B[tree[r].left])
           aa == Cardinality(B[tree[r].right])
           b == Cardinality(B[tree[l].right])
           bb == Cardinality(B[tree[l].left])
<1>5. /\ s \in Nat /\ q \in Nat
      /\ r \in D => a \in Nat /\ aa \in Nat /\ q = 1 + a + aa
      /\ l \in D => b \in Nat /\ bb \in Nat /\ s = 1 + bb + b
  <2>1. Steps(B, c)
    BY <1>3, StepsFacts
  <2>. QED
    BY <2>1 DEF Steps
<1>6. ASSUME NEW w, WalkCases(B, offset, w, c, pos)
      PROVE  /\ pos = offset => WalkStep(offset, w, c, pos) = c
             /\ offset - pos \in 1 .. q => r \in D /\ WalkStep(offset, w, c, pos) = w[<<r, pos + 1 + a>>]
             /\ pos - offset \in 1 .. s => l \in D /\ WalkStep(offset, w, c, pos) = w[<<l, pos - 1 - b>>]
  BY <1>6 DEF WalkCases
<1>7. WalkCases(B, offset, f, c, pos) /\ WalkCases(B, offset, g, c, pos)
  BY <1>3, WalkCasesFacts
<1>8. f[<<c, pos>>] = WalkStep(offset, f, c, pos) /\ g[<<c, pos>>] = WalkStep(offset, g, c, pos)
  BY <1>3
<1>9. offset - pos \in -s .. q
  BY <1>3 DEF Inside
<1>10. /\ \A i \in Int : r \in D /\ offset - i \in -a .. aa => f[<<r, i>>] = g[<<r, i>>]
       /\ \A i \in Int : l \in D /\ offset - i \in -bb .. b => f[<<l, i>>] = g[<<l, i>>]
  <2> HIDE DEF Q
  <2>1. \A i \in Int : r \in D /\ offset - i \in -a .. aa => f[<<r, i>>] = g[<<r, i>>]
    BY <1>3, <1>4 DEF Inside
  <2>2. \A i \in Int : l \in D /\ offset - i \in -bb .. b => f[<<l, i>>] = g[<<l, i>>]
    BY <1>3, <1>4 DEF Inside
  <2>. QED
    BY <2>1, <2>2
<1> HIDE DEF D, Differ, Q, l, r, s, q, a, aa, b, bb
<1>11. CASE pos = offset
  BY <1>3, <1>6, <1>7, <1>8, <1>11
<1>12. CASE offset - pos \in 1 .. q
  <2>1. r \in D /\ f[<<c, pos>>] = f[<<r, pos + 1 + a>>] /\ g[<<c, pos>>] = g[<<r, pos + 1 + a>>]
    BY <1>6, <1>7, <1>8, <1>12
  <2>2. pos + 1 + a \in Int /\ offset - (pos + 1 + a) \in -a .. aa
    BY <1>5, <1>12, <2>1
  <2>. QED
    BY <1>3, <1>10, <2>1, <2>2
<1>13. CASE pos - offset \in 1 .. s
  <2>1. l \in D /\ f[<<c, pos>>] = f[<<l, pos - 1 - b>>] /\ g[<<c, pos>>] = g[<<l, pos - 1 - b>>]
    BY <1>6, <1>7, <1>8, <1>13
  <2>2. pos - 1 - b \in Int /\ offset - (pos - 1 - b) \in -bb .. b
    BY <1>5, <1>13, <2>1
  <2>. QED
    BY <1>3, <1>10, <2>1, <2>2
<1>14. pos = offset \/ offset - pos \in 1 .. q \/ pos - offset \in 1 .. s
  BY <1>5, <1>9
<1>. QED
  BY <1>11, <1>12, <1>13, <1>14

(* And up the tree: two walks agree from every node. *)
LEMMA WalksAgree ==
  ASSUME OInv, pc = "idle", NEW B, Walkable(B), NEW offset \in Int, NEW f, NEW g,
         \A m \in DOMAIN tree, pos \in Int : f[<<m, pos>>] = WalkStep(offset, f, m, pos),
         \A m \in DOMAIN tree, pos \in Int : g[<<m, pos>>] = WalkStep(offset, g, m, pos)
  PROVE  \A m \in DOMAIN tree, pos \in Int : f[<<m, pos>>] = g[<<m, pos>>]
<1> DEFINE D == DOMAIN tree
           Q == {m \in D : \E pos \in Int : f[<<m, pos>>] # g[<<m, pos>>]}
<1>1. \A m \in D, pos \in Int : Inside(B, offset, m, pos) => f[<<m, pos>>] = g[<<m, pos>>]
  BY WalksAgreeInside
<1> SUFFICES ASSUME Q # {} PROVE FALSE
  OBVIOUS
<1>2. PICK c \in Q : tree[c].parent \notin Q
  <2>1. Q \in SUBSET D
    OBVIOUS
  <2> HIDE DEF Q
  <2>. QED
    BY <2>1 DEF Walkable
<1>3. PICK pos \in Int : f[<<c, pos>>] # g[<<c, pos>>]
  OBVIOUS
<1> DEFINE p == tree[c].parent
           s == Cardinality(B[tree[c].left])
           q == Cardinality(B[tree[c].right])
<1>4. c \in D /\ \A x \in D \ Q, i \in Int : f[<<x, i>>] = g[<<x, i>>]
  OBVIOUS
<1>5. s \in Nat /\ q \in Nat /\ (p # NULL => p \in D)
  <2>1. Steps(B, c)
    BY <1>4, StepsFacts
  <2>. QED
    BY <2>1 DEF Steps
<1>6. ~(offset - pos \in -s .. q)
  BY <1>1, <1>3, <1>4 DEF Inside
<1>7. WalkCases(B, offset, f, c, pos) /\ WalkCases(B, offset, g, c, pos)
  BY <1>4, WalkCasesFacts
<1>8. f[<<c, pos>>] = WalkStep(offset, f, c, pos) /\ g[<<c, pos>>] = WalkStep(offset, g, c, pos)
  BY <1>4
<1>9. ASSUME NEW w, WalkCases(B, offset, w, c, pos)
      PROVE  IF p = NULL THEN WalkStep(offset, w, c, pos) = NULL
             ELSE IF c = tree[p].right THEN WalkStep(offset, w, c, pos) = w[<<p, pos - 1 - s>>]
             ELSE WalkStep(offset, w, c, pos) = w[<<p, pos + 1 + q>>]
  BY <1>6, <1>9 DEF WalkCases
<1>10. p # NULL => \A i \in Int : f[<<p, i>>] = g[<<p, i>>]
  BY <1>2, <1>4, <1>5
<1>11. pos - 1 - s \in Int /\ pos + 1 + q \in Int
  BY <1>5
<1> HIDE DEF D, Q, p, s, q
<1>. QED
  BY <1>3, <1>7, <1>8, <1>9, <1>10, <1>11

(* avl_offset(): to the node of the rank that is asked for, if there is one *)
LEMMA AvlOffsetFacts ==
  ASSUME OInv, pc = "idle", NEW n \in DOMAIN tree, NEW offset \in Int
  PROVE  avl_offset(n, offset) = NodeAt(Rank(n) + offset)
<1> DEFINE D == DOMAIN tree
<1>1. PICK B : Walkable(B)
  BY IdleFacts
<1>2. \A m \in D : Rank(m) \in Nat
  BY <1>1, RankFacts DEF Ranked
<1> DEFINE F(m, pos) == NodeAt(Rank(m) + offset - pos)
           f == [w \in D \X Int |-> F(w[1], w[2])]
<1>3. \A m \in D, pos \in Int : f[<<m, pos>>] = NodeAt(Rank(m) + offset - pos)
  OBVIOUS
<1> HIDE DEF F
<1>4. f = [w \in D \X Int |-> f[<<w[1], w[2]>>]]
  OBVIOUS
<1> HIDE DEF f
<1>5. \A m \in D, pos \in Int : f[<<m, pos>>] = WalkStep(offset, f, m, pos)
  BY <1>1, <1>3, WalkToRank
<1>6. WalkEq(offset, f)
  <2>1. \A w \in D \X Int : f[<<w[1], w[2]>>] = WalkStep(offset, f, w[1], w[2])
    <3>1. ASSUME NEW w \in D \X Int
          PROVE  w[1] \in D /\ w[2] \in Int
      OBVIOUS
    <3>. QED
      BY <1>5, <3>1
  <2>2. f = [w \in D \X Int |-> WalkStep(offset, f, w[1], w[2])]
    BY <1>4, <2>1
  <2>. QED
    BY <2>2, WalkEqIs
<1> DEFINE g == CHOOSE h : WalkEq(offset, h)
<1>7. WalkEq(offset, g)
  BY <1>6
<1>8. avl_offset(n, offset) = g[<<n, 0>>]
  BY DEF avl_offset, WalkEq
<1> HIDE DEF g
<1>9. g = [w \in D \X Int |-> WalkStep(offset, g, w[1], w[2])]
  BY <1>7, WalkEqIs
<1>10. \A m \in D, pos \in Int : g[<<m, pos>>] = WalkStep(offset, g, m, pos)
  <2> DEFINE G(m, pos) == WalkStep(offset, g, m, pos)
  <2>1. g = [w \in D \X Int |-> G(w[1], w[2])]
    BY <1>9
  <2> HIDE DEF G
  <2>2. \A m \in D, pos \in Int : g[<<m, pos>>] = G(m, pos)
    BY <2>1
  <2>. QED
    BY <2>2 DEF G
<1>11. g[<<n, 0>>] = f[<<n, 0>>]
  BY <1>1, <1>5, <1>10, WalksAgree
<1>12. f[<<n, 0>>] = NodeAt(Rank(n) + offset - 0) /\ Rank(n) + offset - 0 = Rank(n) + offset
  BY <1>2, <1>3
<1>. QED
  BY <1>8, <1>11, <1>12

(* WalksRight: from any node, up and down the tree, the walks of zquery end  *)
(* at the node that far away in the order or at NULL when there is none, and *)
(* avl_rank() counts the nodes before.                                       *)
THEOREM WalksRightCorrect == Spec => []WalksRight
<1>1. OInv => WalksRight
  <2> SUFFICES ASSUME OInv, pc = "idle", NEW n \in DOMAIN tree
               PROVE  /\ avl_rank(n) = Rank(n)
                      /\ \A m \in DOMAIN tree : avl_offset(n, Rank(m) - Rank(n)) = m
                      /\ \A past \in 1 .. 2 :
                           /\ avl_offset(n, -Rank(n) - past) = NULL
                           /\ avl_offset(n, Cardinality(DOMAIN tree) - 1 - Rank(n) + past) = NULL
    BY DEF WalksRight
  <2> DEFINE D == DOMAIN tree
             count == Cardinality(D)
  <2>1. avl_rank(n) = Rank(n)
    BY AvlRankFacts
  <2>2. \A m \in D : Rank(m) \in Nat /\ Rank(m) < count
    BY IdleFacts, RankFacts DEF Ranked
  <2>3. count \in Nat
    BY IdleFacts, FS_CardinalityType
  <2>4. /\ \A x \in D : NodeAt(Rank(x)) = x
        /\ \A k : (\A x \in D : Rank(x) # k) => NodeAt(k) = NULL
    BY NodeAtFacts
  <2>5. ASSUME NEW m \in D
        PROVE  avl_offset(n, Rank(m) - Rank(n)) = m
    <3>1. Rank(m) - Rank(n) \in Int /\ Rank(n) + (Rank(m) - Rank(n)) = Rank(m)
      BY <2>2
    <3>2. avl_offset(n, Rank(m) - Rank(n)) = NodeAt(Rank(n) + (Rank(m) - Rank(n)))
      BY <3>1, AvlOffsetFacts
    <3>. QED
      BY <2>4, <3>1, <3>2
  <2>6. ASSUME NEW past \in 1 .. 2
        PROVE  /\ avl_offset(n, -Rank(n) - past) = NULL
               /\ avl_offset(n, count - 1 - Rank(n) + past) = NULL
    <3>1. ASSUME NEW offset \in Int, Rank(n) + offset < 0 \/ Rank(n) + offset >= count
          PROVE  avl_offset(n, offset) = NULL
      <4> DEFINE k == Rank(n) + offset
      <4>1. \A x \in D : Rank(x) # k
        BY <2>2, <2>3, <3>1
      <4>2. avl_offset(n, offset) = NodeAt(k)
        BY AvlOffsetFacts
      <4> HIDE DEF k
      <4>. QED
        BY <2>4, <4>1, <4>2
    <3>2. -Rank(n) - past \in Int /\ Rank(n) + (-Rank(n) - past) < 0
      BY <2>2
    <3>3. /\ count - 1 - Rank(n) + past \in Int
          /\ Rank(n) + (count - 1 - Rank(n) + past) >= count
      BY <2>2, <2>3
    <3>. QED
      BY <3>1, <3>2, <3>3
  <2>. QED
    BY <2>1, <2>5, <2>6
<1>. QED
  BY <1>1, SpecOInv, PTL

=============================================================================
