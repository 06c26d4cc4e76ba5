------------------------------ MODULE KallocTree ------------------------------
(***************************************************************************)
(* The AVL tree of holes, kalloc_avl.c: insertion, removal, rebalancing    *)
(* from the heights stored in the nodes, and the search for a hole.        *)
(*                                                                         *)
(* A tree is a value: Nil (a null pointer) or a node with its two subtrees,*)
(* the height the code stored in it and its hole.  The code's mirror-image *)
(* branches are one operator with a side: 1 is right, -1 is left.  Its     *)
(* recursive functions are defined level by level, on the trees of at most *)
(* n levels, and used on a tree with the height stored in its root.        *)
(***************************************************************************)
EXTENDS KallocHoles

Nil == [height |-> 0]
Node(left, hole, right, height) ==
  [left |-> left, hole |-> hole, right |-> right, height |-> height]

Holes == [size : Nat, addr : Nat]

\* The trees of at most n levels.
Trees[n \in Nat] ==
  IF n = 0 THEN {Nil}
  ELSE {Nil} \cup [left : Trees[n - 1], hole : Holes, right : Trees[n - 1],
                   height : Nat \ {0}]

Higher(a, b) == IF a > b THEN a ELSE b

\* A node whose children have just been set, after update_node_height.
Updated(left, hole, right) ==
  Node(left, hole, right, Higher(right.height, left.height) + 1)

rotate_right(t) ==
  Updated(t.left.left, t.left.hole, Updated(t.left.right, t.hole, t.right))
rotate_left(t) ==
  Updated(Updated(t.left, t.hole, t.right.left), t.right.hole, t.right.right)

double_rotate_right(t) ==
  LET middle == t.left
      bottom == middle.right
  IN  Updated(Updated(middle.left, middle.hole, bottom.left), bottom.hole,
              Updated(bottom.right, t.hole, t.right))
\* Mutant: the left child of the bottom node is linked twice.
double_rotate_left_twice(t) ==
  LET middle == t.right
      bottom == middle.left
  IN  Updated(Updated(t.left, t.hole, bottom.left), bottom.hole,
              Updated(bottom.left, middle.hole, middle.right))
double_rotate_left(t) ==
  LET middle == t.right
      bottom == middle.left
  IN  Updated(Updated(t.left, t.hole, bottom.left), bottom.hole,
              Updated(bottom.right, middle.hole, middle.right))

get_balance_factor(t) == t.right.height - t.left.height

Child(t, side) == IF side = 1 THEN t.right ELSE t.left
WithChild(t, side, child) ==
  IF side = 1 THEN [t EXCEPT !.right = child] ELSE [t EXCEPT !.left = child]

\* Mutant: the double rotation is never chosen.
Rotated_single(t, side) ==
  IF side = 1 THEN rotate_left(t) ELSE rotate_right(t)

\* t, too high by two on one side, rotated away from that side.
Rotated(t, side) ==
  IF side * get_balance_factor(Child(t, side)) = -1
  THEN IF side = 1 THEN double_rotate_left(t) ELSE double_rotate_right(t)
  ELSE IF side = 1 THEN rotate_left(t) ELSE rotate_right(t)

\* What the recursions pass up: the new subtree, *subtree_height_changed and
\* whether every assertion held.
Result(tree, changed, ok) == [tree |-> tree, changed |-> changed, ok |-> ok]

\* Mutant: the flag is not reset by a rotation.
AfterInsert_flag_kept(t, side, sub) ==
  LET u      == WithChild(t, side, sub.tree)
      factor == side * get_balance_factor(u)
  IN  IF ~sub.changed THEN Result(u, FALSE, sub.ok)
      ELSE CASE factor = 0 -> Result(u, FALSE, sub.ok)
             [] factor = 1 -> Result([u EXCEPT !.height = @ + 1], TRUE, sub.ok)
             [] factor = 2 -> Result(Rotated(u, side), TRUE, sub.ok)
             [] OTHER      -> Result(u, FALSE, FALSE)

\* t has lent its subtree at side to an insertion, which gave back sub.
AfterInsert(t, side, sub) ==
  LET u      == WithChild(t, side, sub.tree)
      factor == side * get_balance_factor(u)
  IN  IF ~sub.changed THEN Result(u, FALSE, sub.ok)
      ELSE CASE factor = 0 -> Result(u, FALSE, sub.ok)
             [] factor = 1 -> Result([u EXCEPT !.height = @ + 1], TRUE, sub.ok)
             [] factor = 2 -> Result(Rotated(u, side), FALSE, sub.ok)
             [] OTHER      -> Result(u, FALSE, FALSE)

Opposite(side) == IF side = 1 THEN -1 ELSE 1

\* The same after a removal: the other side may now be too high.
AfterRemove(t, side, sub) ==
  LET u      == WithChild(t, side, sub.tree)
      factor == Opposite(side) * get_balance_factor(u)
      turned == Rotated(u, Opposite(side))
  IN  IF ~sub.changed THEN Result(u, FALSE, sub.ok)
      ELSE CASE factor = 0 -> Result([u EXCEPT !.height = @ - 1], TRUE, sub.ok)
             [] factor = 1 -> Result(u, FALSE, sub.ok)
             [] factor = 2 -> Result(turned, get_balance_factor(turned) # side, sub.ok)
             [] OTHER      -> Result(u, FALSE, FALSE)

\* Which subtree of t the hole belongs to.
SideOf(t, hole) == IF HoleLess(t.hole, hole) THEN 1 ELSE -1

insert_internal[n \in Nat] ==
  [t \in Trees[n] |-> [hole \in Holes |->
     IF t = Nil THEN Result(Node(Nil, hole, Nil, 1), TRUE, TRUE)
     ELSE IF hole = t.hole THEN Result(t, FALSE, FALSE)
     ELSE AfterInsert(t, SideOf(t, hole),
                      insert_internal[n - 1][Child(t, SideOf(t, hole))][hole])]]

\* The loop of find_predecessor.
RightMost[n \in Nat] ==
  [t \in Trees[n] \ {Nil} |->
     IF t.right = Nil THEN t.hole ELSE RightMost[n - 1][t.right]]

\* find_predecessor, of a node with n levels below it.
find_predecessor(t, n) == RightMost[n][t.left]

\* A node without left child takes over the hole of its right child, which it
\* frees; the child is taken to be a leaf.
remove_internal[n \in Nat] ==
  [t \in Trees[n] |-> [hole \in Holes |->
     IF t = Nil THEN Result(Nil, FALSE, FALSE)
     ELSE IF hole # t.hole
     THEN AfterRemove(t, SideOf(t, hole),
                      remove_internal[n - 1][Child(t, SideOf(t, hole))][hole])
     ELSE IF t.left = Nil /\ t.right = Nil THEN Result(Nil, TRUE, TRUE)
     ELSE IF t.left = Nil
          THEN Result(Node(Nil, t.right.hole, Nil, t.height - 1), TRUE, TRUE)
     ELSE IF t.right = Nil
          THEN Result(Node(Nil, t.left.hole, Nil, t.height - 1), TRUE, TRUE)
     ELSE LET heir == find_predecessor(t, n - 1)
              u    == [t EXCEPT !.hole = heir]
          IN  AfterRemove(u, -1, remove_internal[n - 1][u.left][heir])]]

\* The tree after kalloc_avl_insert and after kalloc_avl_remove.
Inserted(t, hole) == insert_internal[t.height][t][hole]
Removed(t, hole) == remove_internal[t.height][t][hole]

Requests == [wanted : Nat, alignment : Nat]

Unfit(t, request) ==
  \/ request.wanted > t.hole.size
  \/ ~HasAlignmentSpace(t.hole, request.wanted, request.alignment)

\* Mutant: when a node fits, its left subtree is not tried first.
find_hole_first[n \in Nat] ==
  [t \in Trees[n] |-> [request \in Requests |->
     IF t = Nil THEN NoHole
     ELSE IF Unfit(t, request) THEN find_hole_first[n - 1][t.right][request]
     ELSE t.hole]]
avl_find_hole_first(t, wanted, alignment) ==
  find_hole_first[t.height][t][[wanted |-> wanted, alignment |-> alignment]]

avl_find_hole_internal[n \in Nat] ==
  [t \in Trees[n] |-> [request \in Requests |->
     IF t = Nil THEN NoHole
     ELSE IF Unfit(t, request) THEN avl_find_hole_internal[n - 1][t.right][request]
     ELSE LET better == avl_find_hole_internal[n - 1][t.left][request]
          IN  IF better # NoHole THEN better ELSE t.hole]]

\* kalloc_avl_find_hole
avl_find_hole(t, wanted, alignment) ==
  avl_find_hole_internal[t.height][t][[wanted |-> wanted, alignment |-> alignment]]

-----------------------------------------------------------------------------
\* What a tree means: the holes in it, and when it is an AVL tree.

ContentsTo[n \in Nat] ==
  [t \in Trees[n] |->
     IF t = Nil THEN {}
     ELSE ContentsTo[n - 1][t.left] \cup {t.hole} \cup ContentsTo[n - 1][t.right]]
Contents(t) == ContentsTo[t.height][t]

\* The AVL trees of at most n levels.
AvlTrees[n \in Nat] ==
  {t \in Trees[n] :
     \/ t = Nil
     \/ /\ t.left \in AvlTrees[n - 1] /\ t.right \in AvlTrees[n - 1]
        /\ t.height = Higher(t.left.height, t.right.height) + 1
        /\ get_balance_factor(t) \in {-1, 0, 1}
        /\ \A h \in Contents(t.left) : HoleLess(h, t.hole)
        /\ \A h \in Contents(t.right) : HoleLess(t.hole, h)}
Avl(t) == t.height \in Nat /\ t \in AvlTrees[t.height]
=============================================================================
