--------------------------- MODULE KallocAvlProof ---------------------------
(***************************************************************************)
(* Proofs about the tree of holes: for every set of holes and every order  *)
(* in which they come and go (KallocAvl), and for every layout, request    *)
(* and alignment of the heap that is searched through it (KallocHeapAvl).  *)
(*                                                                         *)
(* The functions of KallocTree are defined level by level.  The ...Def     *)
(* lemmas give their equations: NaturalsLemmas shows that a recursion over *)
(* levels has a solution, and is instantiated here with the step of each.  *)
(* The next lemmas are about trees and not about levels: AvlNode takes an  *)
(* AVL tree apart and JoinNode puts one together.  With them follow the    *)
(* rotations, what a recursion does with the subtree it gets back (the     *)
(* AfterInsert... and AfterRemove... lemmas, on each side), and by         *)
(* induction over the levels insertion (InsertedTree), removal             *)
(* (RemovedTree) and the search (FoundInTree).  The theorems about the two *)
(* specifications rest on these three.                                     *)
(***************************************************************************)
EXTENDS KallocAvl, KallocHeapAvl, KallocHeapProof, FiniteSetTheorems, TLAPS

-----------------------------------------------------------------------------
\* The equations of the level functions.

\* One level of Trees, given the level below.
TreesStep(n, below) ==
  IF n = 0 THEN {Nil}
  ELSE {Nil} \cup [left : below, hole : Holes, right : below, height : Nat \ {0}]
TreesRec == INSTANCE NaturalsLemmas WITH RecStep <- TreesStep

\* The trees of one level, from those of the level below.
LEMMA TreesDef ==
  ASSUME NEW n \in Nat
  PROVE  Trees[n] = TreesStep(n, Trees[n - 1])
<1>1. \A x, y : TreesStep(0, x) = TreesStep(0, y)
  BY DEF TreesStep
<1>2. \E f : f = [m \in Nat |-> TreesStep(m, f[m - 1])]
  BY <1>1, TreesRec!RecursionExists
<1>3. Trees = [m \in Nat |-> TreesStep(m, Trees[m - 1])]
  BY <1>2 DEF Trees, TreesStep
<1> QED
  BY <1>3

\* There is one tree without levels.
LEMMA TreesZero == Trees[0] = {Nil}
BY TreesDef DEF TreesStep

\* One level of ContentsTo.
ContentsStep(n, below) ==
  [t \in Trees[n] |->
     IF t = Nil THEN {} ELSE below[t.left] \cup {t.hole} \cup below[t.right]]
ContentsRec == INSTANCE NaturalsLemmas WITH RecStep <- ContentsStep

\* The contents of the trees of one level.
LEMMA ContentsDef ==
  ASSUME NEW n \in Nat
  PROVE  ContentsTo[n] = ContentsStep(n, ContentsTo[n - 1])
<1>1. \A x, y : ContentsStep(0, x) = ContentsStep(0, y)
  BY TreesZero, SMTT(60) DEF ContentsStep
<1>2. \E f : f = [m \in Nat |-> ContentsStep(m, f[m - 1])]
  BY <1>1, ContentsRec!RecursionExists
<1>3. ContentsTo = [m \in Nat |-> ContentsStep(m, ContentsTo[m - 1])]
  BY <1>2 DEF ContentsTo, ContentsStep
<1> QED
  BY <1>3

\* One level of AvlTrees.
AvlStep(n, below) ==
  {t \in Trees[n] :
     \/ t = Nil
     \/ /\ t.left \in below /\ t.right \in below
        /\ t.height = Higher(t.left.height, t.right.height) + 1
        /\ get_balance_factor(t) \in {-1, 0, 1}
        /\ \A h \in Contents(t.left) : HoleLess(h, t.hole)
        /\ \A h \in Contents(t.right) : HoleLess(t.hole, h)}
AvlRec == INSTANCE NaturalsLemmas WITH RecStep <- AvlStep

\* The AVL trees of one level.
LEMMA AvlDef ==
  ASSUME NEW n \in Nat
  PROVE  AvlTrees[n] = AvlStep(n, AvlTrees[n - 1])
<1>1. \A x, y : AvlStep(0, x) = AvlStep(0, y)
  BY TreesZero, SMTT(60) DEF AvlStep
<1>2. \E f : f = [m \in Nat |-> AvlStep(m, f[m - 1])]
  BY <1>1, AvlRec!RecursionExists
<1>3. AvlTrees = [m \in Nat |-> AvlStep(m, AvlTrees[m - 1])]
  BY <1>2 DEF AvlTrees, AvlStep
<1> QED
  BY <1>3

\* One level of insert_internal.
InsertStep(n, below) ==
  [t \in Trees[n] |-> [hole \in Holes |->
     IF t = Nil THEN Result(Node(Nil, hole, Nil, 1), TRUE, TRUE)
     ELSE IF hole = t.hole THEN Result(t, FALSE, FALSE)
     ELSE AfterInsert(t, SideOf(t, hole), below[Child(t, SideOf(t, hole))][hole])]]
InsertRec == INSTANCE NaturalsLemmas WITH RecStep <- InsertStep

\* insert_internal calls itself on a subtree.
LEMMA InsertDef ==
  ASSUME NEW n \in Nat
  PROVE  insert_internal[n] = InsertStep(n, insert_internal[n - 1])
<1>1. \A x, y : InsertStep(0, x) = InsertStep(0, y)
  BY TreesZero, SMTT(60) DEF InsertStep
<1>2. \E f : f = [m \in Nat |-> InsertStep(m, f[m - 1])]
  BY <1>1, InsertRec!RecursionExists
<1>3. insert_internal = [m \in Nat |-> InsertStep(m, insert_internal[m - 1])]
  BY <1>2 DEF insert_internal, InsertStep
<1> QED
  BY <1>3

\* One round of RightMost.
RightMostStep(n, below) ==
  [t \in Trees[n] \ {Nil} |-> IF t.right = Nil THEN t.hole ELSE below[t.right]]
RightMostRec == INSTANCE NaturalsLemmas WITH RecStep <- RightMostStep

\* The loop of find_predecessor goes one node down.
LEMMA RightMostDef ==
  ASSUME NEW n \in Nat
  PROVE  RightMost[n] = RightMostStep(n, RightMost[n - 1])
<1>1. \A x, y : RightMostStep(0, x) = RightMostStep(0, y)
  BY TreesZero, SMTT(60) DEF RightMostStep
<1>2. \E f : f = [m \in Nat |-> RightMostStep(m, f[m - 1])]
  BY <1>1, RightMostRec!RecursionExists
<1>3. RightMost = [m \in Nat |-> RightMostStep(m, RightMost[m - 1])]
  BY <1>2 DEF RightMost, RightMostStep
<1> QED
  BY <1>3

\* A node takes over the hole of another one.
WithHole(t, heir) == [t EXCEPT !.hole = heir]

\* One level of remove_internal.
RemoveAt(n, below, t, hole) ==
  IF t = Nil THEN Result(Nil, FALSE, FALSE)
  ELSE IF hole # t.hole
  THEN AfterRemove(t, SideOf(t, hole), below[Child(t, SideOf(t, hole))][hole])
  ELSE IF t.left = Nil /\ t.right = Nil THEN Result(Nil, TRUE, TRUE)
  ELSE IF t.left = Nil
       THEN Result(Node(Nil, t.right.hole, Nil, t.height - 1), TRUE, TRUE)
  ELSE IF t.right = Nil
       THEN Result(Node(Nil, t.left.hole, Nil, t.height - 1), TRUE, TRUE)
  ELSE LET heir == find_predecessor(t, n - 1)
           u    == WithHole(t, heir)
       IN  AfterRemove(u, -1, below[u.left][heir])
RemoveStep(n, below) == [t \in Trees[n] |-> [hole \in Holes |-> RemoveAt(n, below, t, hole)]]
RemoveRec == INSTANCE NaturalsLemmas WITH RecStep <- RemoveStep

\* remove_internal calls itself on a subtree.
LEMMA RemoveDef ==
  ASSUME NEW n \in Nat
  PROVE  remove_internal[n] = RemoveStep(n, remove_internal[n - 1])
<1>1. \A x, y : RemoveStep(0, x) = RemoveStep(0, y)
  BY TreesZero, SMTT(60) DEF RemoveStep, RemoveAt
<1>2. \E f : f = [m \in Nat |-> RemoveStep(m, f[m - 1])]
  BY <1>1, RemoveRec!RecursionExists
<1>3. remove_internal = [m \in Nat |-> RemoveStep(m, remove_internal[m - 1])]
  BY <1>2 DEF remove_internal, RemoveStep, RemoveAt, WithHole
<1> QED
  BY <1>3

\* One level of avl_find_hole_internal.
FindStep(n, below) ==
  [t \in Trees[n] |-> [request \in Requests |->
     IF t = Nil THEN NoHole
     ELSE IF Unfit(t, request) THEN below[t.right][request]
     ELSE LET better == below[t.left][request]
          IN  IF better # NoHole THEN better ELSE t.hole]]
FindRec == INSTANCE NaturalsLemmas WITH RecStep <- FindStep

\* avl_find_hole_internal calls itself on a subtree.
LEMMA FindDef ==
  ASSUME NEW n \in Nat
  PROVE  avl_find_hole_internal[n] = FindStep(n, avl_find_hole_internal[n - 1])
<1>1. \A x, y : FindStep(0, x) = FindStep(0, y)
  BY TreesZero, SMTT(60) DEF FindStep
<1>2. \E f : f = [m \in Nat |-> FindStep(m, f[m - 1])]
  BY <1>1, FindRec!RecursionExists
<1>3. avl_find_hole_internal = [m \in Nat |-> FindStep(m, avl_find_hole_internal[m - 1])]
  BY <1>2 DEF avl_find_hole_internal, FindStep
<1> QED
  BY <1>3

-----------------------------------------------------------------------------
\* Trees by their nodes, without levels.

\* A null pointer is a tree of every level.
LEMMA NilTree ==
  ASSUME NEW n \in Nat
  PROVE  Nil \in Trees[n] /\ Nil.height = 0
BY TreesDef DEF TreesStep, Nil

\* The fields of a node, and its subtrees one level down.
LEMMA TreeFields ==
  ASSUME NEW n \in Nat, NEW t \in Trees[n]
  PROVE  /\ t.height \in Nat
         /\ t = Nil <=> t.height = 0
         /\ t # Nil => /\ n - 1 \in Nat /\ t.left \in Trees[n - 1] /\ t.right \in Trees[n - 1]
                       /\ t.hole \in Holes
                       /\ t = Node(t.left, t.hole, t.right, t.height)
<1>1. CASE t = Nil
  BY <1>1 DEF Nil
<1>2. CASE t # Nil
  <2>1. n # 0 /\ n - 1 \in Nat
    BY <1>2, TreesZero
  <2>a. t \in TreesStep(n, Trees[n - 1])
    BY TreesDef
  <2>2. t \in [left : Trees[n - 1], hole : Holes, right : Trees[n - 1], height : Nat \ {0}]
    BY <1>2, <2>1, <2>a, Zenon DEF TreesStep
  <2>3. /\ t.left \in Trees[n - 1] /\ t.right \in Trees[n - 1] /\ t.hole \in Holes
        /\ t.height \in Nat \ {0}
    BY <2>2
  <2>4. t = [left |-> t.left, hole |-> t.hole, right |-> t.right, height |-> t.height]
    BY <2>2
  <2>5. t = Node(t.left, t.hole, t.right, t.height)
    BY <2>4, Zenon DEF Node
  <2> QED
    BY <2>1, <2>3, <2>5, <1>2
<1> QED
  BY <1>1, <1>2

\* A node made of two trees is a tree.
LEMMA NodeTree ==
  ASSUME NEW n \in Nat, NEW l \in Trees[n], NEW r \in Trees[n], NEW h \in Holes,
         NEW k \in Nat \ {0}
  PROVE  Node(l, h, r, k) \in Trees[n + 1] /\ Node(l, h, r, k) # Nil
<1>1. n + 1 \in Nat /\ n + 1 # 0 /\ (n + 1) - 1 = n
  OBVIOUS
<1>2. Node(l, h, r, k) \in [left : Trees[n], hole : Holes, right : Trees[n], height : Nat \ {0}]
  BY DEF Node
<1>3. Node(l, h, r, k).height = k /\ Nil.height = 0
  BY DEF Node, Nil
<1>4. Trees[n + 1] = TreesStep(n + 1, Trees[n])
  BY <1>1, TreesDef
<1>5. PICK t : t = Node(l, h, r, k)
  OBVIOUS
<1>6. t \in Trees[n + 1]
  BY <1>1, <1>2, <1>4, <1>5 DEF TreesStep
<1> QED
  BY <1>3, <1>5, <1>6

\* The fields of a node that has just been made.
LEMMA NodeFields ==
  ASSUME NEW l, NEW h, NEW r, NEW k
  PROVE  /\ Node(l, h, r, k).left = l /\ Node(l, h, r, k).right = r
         /\ Node(l, h, r, k).hole = h /\ Node(l, h, r, k).height = k
BY DEF Node

\* A tree of one level is a tree of the next.
LEMMA TreesUp ==
  \A n \in Nat : Trees[n] \subseteq Trees[n + 1]
<1> DEFINE S == {n \in Nat : Trees[n] \subseteq Trees[n + 1]}
<1>1. 0 \in S
  BY TreesZero, NilTree
<1>2. ASSUME NEW n \in Nat, n \in S PROVE n + 1 \in S
  <2>1. n + 1 \in Nat /\ (n + 1) + 1 \in Nat /\ (n + 1) - 1 = n
    OBVIOUS
  <2>2. ASSUME NEW t \in Trees[n + 1] PROVE t \in Trees[(n + 1) + 1]
    <3>1. CASE t = Nil
      BY <2>1, <3>1, NilTree
    <3>2. CASE t # Nil
      <4>1. /\ t.left \in Trees[n] /\ t.right \in Trees[n] /\ t.hole \in Holes
            /\ t.height \in Nat \ {0}
            /\ t = Node(t.left, t.hole, t.right, t.height)
        BY <2>1, <3>2, TreeFields
      <4>2. t.left \in Trees[n + 1] /\ t.right \in Trees[n + 1]
        BY <1>2, <4>1
      <4>3. Node(t.left, t.hole, t.right, t.height) \in Trees[(n + 1) + 1]
        BY <2>1, <4>1, <4>2, NodeTree
      <4> QED
        BY <4>1, <4>3
    <3> QED
      BY <3>1, <3>2
  <2> QED
    BY <2>1, <2>2
<1>3. \A n \in Nat : n \in S
  <2> HIDE DEF S
  <2> QED
    BY <1>1, <1>2, TreesRec!SetInduction
<1> QED
  BY <1>3

\* The contents of a tree do not depend on the level it is taken at.
LEMMA ContentsUp ==
  \A n \in Nat : \A t \in Trees[n] : ContentsTo[n + 1][t] = ContentsTo[n][t]
<1> DEFINE P(n) == \A t \in Trees[n] : ContentsTo[n + 1][t] = ContentsTo[n][t]
           S == {n \in Nat : P(n)}
<1>0. ASSUME NEW n \in Nat, NEW t \in Trees[n]
      PROVE  /\ t = Nil => ContentsTo[n][t] = {}
             /\ t # Nil => ContentsTo[n][t] = ContentsTo[n - 1][t.left] \cup {t.hole}
                                                \cup ContentsTo[n - 1][t.right]
  BY ContentsDef, ZenonT(60) DEF ContentsStep
<1>1. 0 \in S
  <2>1. \A t \in Trees[0] : t = Nil /\ t \in Trees[0 + 1]
    BY TreesZero, NilTree
  <2>2. ContentsTo[0][Nil] = {}
    BY <1>0, NilTree
  <2>3. ContentsTo[0 + 1][Nil] = {}
    BY <1>0, NilTree
  <2> QED
    BY <2>1, <2>2, <2>3
<1>2. ASSUME NEW n \in Nat, n \in S PROVE n + 1 \in S
  <2>1. n + 1 \in Nat /\ (n + 1) + 1 \in Nat /\ (n + 1) - 1 = n /\ ((n + 1) + 1) - 1 = n + 1
    OBVIOUS
  <2>2. ASSUME NEW t \in Trees[n + 1] PROVE ContentsTo[(n + 1) + 1][t] = ContentsTo[n + 1][t]
    <3>1. t \in Trees[(n + 1) + 1]
      BY <2>1, TreesUp
    <3>2. CASE t = Nil
      BY <1>0, <2>1, <3>1, <3>2
    <3>3. CASE t # Nil
      <4>1. t.left \in Trees[n] /\ t.right \in Trees[n]
        BY <2>1, <3>3, TreeFields
      <4>2. ContentsTo[n + 1][t.left] = ContentsTo[n][t.left] /\ ContentsTo[n + 1][t.right] = ContentsTo[n][t.right]
        BY <1>2, <4>1
      <4>3. ContentsTo[n + 1][t] = ContentsTo[n][t.left] \cup {t.hole} \cup ContentsTo[n][t.right]
        BY <1>0, <2>1, <3>3
      <4>4. ContentsTo[(n + 1) + 1][t] = ContentsTo[n + 1][t.left] \cup {t.hole} \cup ContentsTo[n + 1][t.right]
        BY <1>0, <2>1, <3>1, <3>3
      <4> QED
        BY <4>2, <4>3, <4>4
    <3> QED
      BY <3>2, <3>3
  <2> QED
    BY <2>1, <2>2
<1>3. \A n \in Nat : n \in S
  <2> HIDE DEF S
  <2> QED
    BY <1>1, <1>2, TreesRec!SetInduction
<1> QED
  BY <1>3

\* An AVL tree of one level is an AVL tree of the next.
LEMMA AvlUp ==
  \A n \in Nat : AvlTrees[n] \subseteq AvlTrees[n + 1]
<1> DEFINE S == {n \in Nat : AvlTrees[n] \subseteq AvlTrees[n + 1]}
<1>1. 0 \in S
  <2>1. \A t \in AvlTrees[0] : t = Nil
    BY AvlDef, TreesZero DEF AvlStep
  <2>2. Nil \in AvlTrees[0 + 1]
    BY AvlDef, NilTree DEF AvlStep
  <2> QED
    BY <2>1, <2>2
<1>2. ASSUME NEW n \in Nat, n \in S PROVE n + 1 \in S
  <2>1. n + 1 \in Nat /\ (n + 1) + 1 \in Nat /\ (n + 1) - 1 = n /\ ((n + 1) + 1) - 1 = n + 1
    OBVIOUS
  <2>2. AvlTrees[n + 1] = AvlStep(n + 1, AvlTrees[n]) /\ AvlTrees[(n + 1) + 1] = AvlStep((n + 1) + 1, AvlTrees[n + 1])
    BY <2>1, AvlDef
  <2>3. AvlTrees[n] \subseteq AvlTrees[n + 1] /\ Trees[n + 1] \subseteq Trees[(n + 1) + 1]
    BY <1>2, <2>1, TreesUp
  <2>4. AvlTrees[n + 1] \subseteq AvlTrees[(n + 1) + 1]
    BY <2>2, <2>3, Zenon DEF AvlStep
  <2> QED
    BY <2>1, <2>4
<1>3. \A n \in Nat : n \in S
  <2> HIDE DEF S
  <2> QED
    BY <1>1, <1>2, TreesRec!SetInduction
<1> QED
  BY <1>3

\* The levels are nested.
LEMMA LevelsNested ==
  \A n \in Nat : \A d \in Nat :
    /\ Trees[n] \subseteq Trees[n + d]
    /\ AvlTrees[n] \subseteq AvlTrees[n + d]
    /\ \A t \in Trees[n] : ContentsTo[n + d][t] = ContentsTo[n][t]
<1> SUFFICES ASSUME NEW n \in Nat
             PROVE  \A d \in Nat :
                      /\ Trees[n] \subseteq Trees[n + d]
                      /\ AvlTrees[n] \subseteq AvlTrees[n + d]
                      /\ \A t \in Trees[n] : ContentsTo[n + d][t] = ContentsTo[n][t]
  OBVIOUS
<1> DEFINE P(d) == /\ Trees[n] \subseteq Trees[n + d]
                   /\ AvlTrees[n] \subseteq AvlTrees[n + d]
                   /\ \A t \in Trees[n] : ContentsTo[n + d][t] = ContentsTo[n][t]
           S == {d \in Nat : P(d)}
<1>1. 0 \in S
  OBVIOUS
<1>2. ASSUME NEW d \in Nat, d \in S PROVE d + 1 \in S
  <2>1. n + d \in Nat /\ n + (d + 1) = (n + d) + 1
    OBVIOUS
  <2>2. PICK m : m = n + d
    OBVIOUS
  <2>3. m \in Nat /\ n + (d + 1) = m + 1
    BY <2>1, <2>2
  <2>4. /\ Trees[n] \subseteq Trees[m]
        /\ AvlTrees[n] \subseteq AvlTrees[m]
        /\ \A t \in Trees[n] : ContentsTo[m][t] = ContentsTo[n][t]
    BY <1>2, <2>2
  <2>5. /\ Trees[m] \subseteq Trees[m + 1]
        /\ AvlTrees[m] \subseteq AvlTrees[m + 1]
        /\ \A t \in Trees[m] : ContentsTo[m + 1][t] = ContentsTo[m][t]
    BY <2>3, TreesUp, AvlUp, ContentsUp
  <2>6. /\ Trees[n] \subseteq Trees[m + 1]
        /\ AvlTrees[n] \subseteq AvlTrees[m + 1]
        /\ \A t \in Trees[n] : ContentsTo[m + 1][t] = ContentsTo[n][t]
    BY <2>4, <2>5
  <2> QED
    BY <2>3, <2>6
<1>3. \A d \in Nat : d \in S
  <2> HIDE DEF S
  <2> QED
    BY <1>1, <1>2, TreesRec!SetInduction
<1> QED
  BY <1>3

\* The level of a tree may be raised.
LEMMA Nested ==
  ASSUME NEW n \in Nat, NEW m \in Nat, n <= m
  PROVE  /\ Trees[n] \subseteq Trees[m]
         /\ AvlTrees[n] \subseteq AvlTrees[m]
         /\ \A t \in Trees[n] : ContentsTo[m][t] = ContentsTo[n][t]
<1>1. m - n \in Nat /\ n + (m - n) = m
  OBVIOUS
<1>2. PICK d \in Nat : d = m - n
  BY <1>1
<1>3. n + d = m
  BY <1>1, <1>2
<1>4. /\ Trees[n] \subseteq Trees[n + d]
      /\ AvlTrees[n] \subseteq AvlTrees[n + d]
      /\ \A t \in Trees[n] : ContentsTo[n + d][t] = ContentsTo[n][t]
  BY LevelsNested
<1> QED
  BY <1>3, <1>4

\* Every hole of S comes before h, or after it.
Before(S, h) == \A g \in S : HoleLess(g, h)
After(S, h) == \A g \in S : HoleLess(h, g)

\* Two AVL trees and a hole that a node may join, up to the balance.
Ordered(l, h, r) ==
  /\ Avl(l) /\ Avl(r) /\ h \in Holes
  /\ Before(Contents(l), h) /\ After(Contents(r), h)
InBalance(l, r) == r.height - l.height \in {-1, 0, 1}
Together(l, h, r) == Contents(l) \cup {h} \cup Contents(r)

\* The height stored in an AVL tree's root is the number of its levels.
LEMMA AvlLevel ==
  \A n \in Nat : \A t \in AvlTrees[n] : t.height \in Nat /\ t.height <= n /\ Avl(t)
<1> DEFINE P(n) == \A t \in AvlTrees[n] : t.height \in Nat /\ t.height <= n /\ Avl(t)
           S == {n \in Nat : P(n)}
<1>1. 0 \in S
  <2>1. \A t \in AvlTrees[0] : t = Nil
    BY AvlDef, TreesZero DEF AvlStep
  <2>2. Nil \in AvlTrees[0] /\ Nil.height = 0
    BY AvlDef, NilTree DEF AvlStep
  <2> QED
    BY <2>1, <2>2 DEF Avl
<1>2. ASSUME NEW n \in Nat, n \in S PROVE n + 1 \in S
  <2>1. n + 1 \in Nat /\ (n + 1) - 1 = n
    OBVIOUS
  <2>2. ASSUME NEW t \in AvlTrees[n + 1]
        PROVE  t.height \in Nat /\ t.height <= n + 1 /\ Avl(t)
    <3>0. t \in AvlStep(n + 1, AvlTrees[n])
      BY <2>1, AvlDef
    <3>1. CASE t = Nil
      <4>1. Nil \in AvlTrees[0] /\ Nil.height = 0
        BY AvlDef, NilTree DEF AvlStep
      <4> QED
        BY <3>1, <4>1 DEF Avl
    <3>2. CASE t # Nil
      <4>1. /\ t.left \in AvlTrees[n] /\ t.right \in AvlTrees[n]
            /\ t.height = Higher(t.left.height, t.right.height) + 1
            /\ get_balance_factor(t) \in {-1, 0, 1}
            /\ \A h \in Contents(t.left) : HoleLess(h, t.hole)
            /\ \A h \in Contents(t.right) : HoleLess(t.hole, h)
            /\ t \in Trees[n + 1]
        BY <3>0, <3>2, Zenon DEF AvlStep
      <4>2. /\ t.left.height \in Nat /\ t.left.height <= n /\ Avl(t.left)
            /\ t.right.height \in Nat /\ t.right.height <= n /\ Avl(t.right)
        BY <1>2, <4>1
      <4>3. PICK k : k = Higher(t.left.height, t.right.height)
        OBVIOUS
      <4>4. /\ k \in Nat /\ k <= n /\ t.left.height <= k /\ t.right.height <= k
            /\ t.height = k + 1 /\ k + 1 \in Nat \ {0} /\ (k + 1) - 1 = k
        BY <4>1, <4>2, <4>3 DEF Higher
      <4>5. t.left \in AvlTrees[k] /\ t.right \in AvlTrees[k]
        BY <4>2, <4>4, Nested DEF Avl
      <4>6. t.left \in Trees[k] /\ t.right \in Trees[k]
        BY <4>4, <4>5, AvlDef DEF AvlStep
      <4>7. t.hole \in Holes /\ t = Node(t.left, t.hole, t.right, t.height)
        BY <2>1, <3>2, <4>1, TreeFields
      <4>8. t \in Trees[k + 1]
        BY <4>4, <4>6, <4>7, NodeTree
      <4>9. t \in AvlStep(k + 1, AvlTrees[k])
        BY <4>1, <4>5, <4>8, Zenon DEF AvlStep
      <4>10. t \in AvlTrees[k + 1]
        BY <4>4, <4>9, AvlDef
      <4> QED
        BY <4>4, <4>10 DEF Avl
    <3> QED
      BY <3>1, <3>2
  <2> QED
    BY <2>1, <2>2
<1>3. \A n \in Nat : n \in S
  <2> HIDE DEF S
  <2> QED
    BY <1>1, <1>2, TreesRec!SetInduction
<1> QED
  BY <1>3

\* The empty tree.
LEMMA AvlNil == Avl(Nil) /\ Nil.height = 0 /\ Contents(Nil) = {}
<1>1. Nil \in AvlTrees[0] /\ Nil.height = 0 /\ Nil \in Trees[0]
  BY AvlDef, NilTree DEF AvlStep
<1>2. ContentsTo[0][Nil] = {}
  <2>1. ContentsTo[0] = ContentsStep(0, ContentsTo[0 - 1])
    BY ContentsDef
  <2> QED
    BY <1>1, <2>1 DEF ContentsStep
<1>3. 0 \in Nat
  OBVIOUS
<1> QED
  BY <1>1, <1>2, <1>3, Zenon DEF Avl, Contents

\* Avl names a tree of some level.
LEMMA AvlHeight ==
  ASSUME NEW t, Avl(t)
  PROVE  /\ t.height \in Nat /\ t \in AvlTrees[t.height] /\ t \in Trees[t.height]
         /\ t = Nil <=> t.height = 0
<1>1. t.height \in Nat /\ t \in AvlTrees[t.height]
  BY DEF Avl
<1>2. t \in Trees[t.height]
  BY <1>1, AvlDef DEF AvlStep
<1> QED
  BY <1>1, <1>2, TreeFields

\* A node of an AVL tree: its subtrees, their order and their heights.
LEMMA AvlNode ==
  ASSUME NEW t, Avl(t), t # Nil
  PROVE  /\ t = Node(t.left, t.hole, t.right, t.height)
         /\ Ordered(t.left, t.hole, t.right) /\ InBalance(t.left, t.right)
         /\ t.left.height \in Nat /\ t.right.height \in Nat
         /\ t.height = Higher(t.left.height, t.right.height) + 1
         /\ Contents(t) = Together(t.left, t.hole, t.right)
<1>1. /\ t.height \in Nat /\ t.height # 0 /\ t \in AvlTrees[t.height] /\ t \in Trees[t.height]
  BY AvlHeight
<1>2. PICK k \in Nat : t.height = k + 1
  <2>1. t.height - 1 \in Nat /\ t.height = (t.height - 1) + 1
    BY <1>1
  <2> QED
    BY <2>1
<1>3. k + 1 \in Nat /\ (k + 1) - 1 = k
  OBVIOUS
<1>4. t \in AvlStep(k + 1, AvlTrees[k])
  BY <1>1, <1>2, <1>3, AvlDef
<1>5. /\ t.left \in AvlTrees[k] /\ t.right \in AvlTrees[k]
      /\ t.height = Higher(t.left.height, t.right.height) + 1
      /\ get_balance_factor(t) \in {-1, 0, 1}
      /\ \A h \in Contents(t.left) : HoleLess(h, t.hole)
      /\ \A h \in Contents(t.right) : HoleLess(t.hole, h)
  BY <1>4, Zenon DEF AvlStep
<1>6. /\ t.left.height \in Nat /\ t.left.height <= k /\ Avl(t.left)
      /\ t.right.height \in Nat /\ t.right.height <= k /\ Avl(t.right)
  BY <1>5, AvlLevel
<1>7. t.left \in Trees[t.left.height] /\ t.right \in Trees[t.right.height]
  BY <1>6, AvlHeight
<1>8. /\ ContentsTo[k][t.left] = Contents(t.left) /\ ContentsTo[k][t.right] = Contents(t.right)
  BY <1>6, <1>7, Nested DEF Contents
<1>9. ContentsTo[k + 1][t] = ContentsTo[k][t.left] \cup {t.hole} \cup ContentsTo[k][t.right]
  <2>1. ContentsTo[k + 1] = ContentsStep(k + 1, ContentsTo[k])
    BY <1>3, ContentsDef
  <2>2. t \in Trees[k + 1]
    BY <1>1, <1>2
  <2> QED
    BY <2>1, <2>2 DEF ContentsStep
<1>10. Contents(t) = Together(t.left, t.hole, t.right)
  BY <1>2, <1>8, <1>9 DEF Together, Contents
<1>11. t.hole \in Holes /\ t = Node(t.left, t.hole, t.right, t.height)
  BY <1>1, TreeFields
<1>12. Ordered(t.left, t.hole, t.right) /\ InBalance(t.left, t.right)
  BY <1>5, <1>6, <1>11 DEF Ordered, InBalance, Before, After, get_balance_factor
<1> QED
  BY <1>5, <1>6, <1>10, <1>11, <1>12

\* A node that joins two trees in order and in balance is an AVL tree.
LEMMA AvlJoin ==
  ASSUME NEW l, NEW h, NEW r, Ordered(l, h, r), InBalance(l, r)
  PROVE  /\ Avl(Updated(l, h, r)) /\ Updated(l, h, r) # Nil
         /\ Contents(Updated(l, h, r)) = Together(l, h, r)
<1>1. PICK k : k = Higher(r.height, l.height)
  OBVIOUS
<1>2. /\ l.height \in Nat /\ r.height \in Nat /\ Avl(l) /\ Avl(r) /\ h \in Holes
      /\ l \in AvlTrees[l.height] /\ r \in AvlTrees[r.height]
      /\ l \in Trees[l.height] /\ r \in Trees[r.height]
  BY AvlHeight DEF Ordered
<1>3. /\ k \in Nat /\ l.height <= k /\ r.height <= k /\ k + 1 \in Nat \ {0} /\ (k + 1) - 1 = k
  BY <1>1, <1>2 DEF Higher
<1>4. /\ l \in Trees[k] /\ r \in Trees[k] /\ l \in AvlTrees[k] /\ r \in AvlTrees[k]
      /\ ContentsTo[k][l] = Contents(l) /\ ContentsTo[k][r] = Contents(r)
  BY <1>2, <1>3, Nested DEF Contents
<1>5. PICK t : t = Node(l, h, r, k + 1)
  OBVIOUS
<1>6. t.left = l /\ t.right = r /\ t.hole = h /\ t.height = k + 1
  BY <1>5, NodeFields
<1>7. t \in Trees[k + 1] /\ t # Nil
  BY <1>2, <1>3, <1>4, <1>5, NodeTree
<1>8. t.height = Higher(t.left.height, t.right.height) + 1
  BY <1>1, <1>2, <1>6 DEF Higher
<1>9. /\ get_balance_factor(t) \in {-1, 0, 1}
      /\ \A g \in Contents(t.left) : HoleLess(g, t.hole)
      /\ \A g \in Contents(t.right) : HoleLess(t.hole, g)
  BY <1>6 DEF Ordered, InBalance, Before, After, get_balance_factor
<1>10. t \in AvlStep(k + 1, AvlTrees[k])
  BY <1>4, <1>6, <1>7, <1>8, <1>9, Zenon DEF AvlStep
<1>11. t \in AvlTrees[k + 1]
  BY <1>3, <1>10, AvlDef
<1>12. Avl(t)
  BY <1>3, <1>6, <1>11 DEF Avl
<1>13. Contents(t) = Together(l, h, r)
  <2>1. ContentsTo[k + 1] = ContentsStep(k + 1, ContentsTo[k])
    BY <1>3, ContentsDef
  <2>2. ContentsTo[k + 1][t] = ContentsTo[k][l] \cup {h} \cup ContentsTo[k][r]
    BY <2>1, <1>6, <1>7 DEF ContentsStep
  <2> QED
    BY <2>2, <1>4, <1>6 DEF Together, Contents
<1>14. t = Updated(l, h, r)
  BY <1>1, <1>5 DEF Updated
<1> QED
  BY <1>7, <1>12, <1>13, <1>14

\* A tree holds finitely many holes.
LEMMA AvlContents ==
  ASSUME NEW t, Avl(t)
  PROVE  Contents(t) \subseteq Holes /\ IsFiniteSet(Contents(t))
<1> DEFINE P(n) == \A u \in AvlTrees[n] : Contents(u) \subseteq Holes /\ IsFiniteSet(Contents(u))
           S == {n \in Nat : P(n)}
<1>1. 0 \in S
  <2>1. \A u \in AvlTrees[0] : u = Nil
    BY AvlDef, TreesZero DEF AvlStep
  <2> QED
    BY <2>1, AvlNil, FS_EmptySet
<1>2. ASSUME NEW n \in Nat, n \in S PROVE n + 1 \in S
  <2>1. n + 1 \in Nat /\ (n + 1) - 1 = n
    OBVIOUS
  <2>2. ASSUME NEW u \in AvlTrees[n + 1]
        PROVE  Contents(u) \subseteq Holes /\ IsFiniteSet(Contents(u))
    <3>1. CASE u = Nil
      BY <3>1, AvlNil, FS_EmptySet
    <3>2. CASE u # Nil
      <4>1. Avl(u)
        BY <2>1, AvlLevel
      <4>2. Contents(u) = Together(u.left, u.hole, u.right) /\ u.hole \in Holes
        BY <3>2, <4>1, AvlNode DEF Ordered
      <4>3. u \in AvlStep(n + 1, AvlTrees[n])
        BY <2>1, AvlDef
      <4>4. u.left \in AvlTrees[n] /\ u.right \in AvlTrees[n]
        BY <3>2, <4>3, Zenon DEF AvlStep
      <4>5. /\ Contents(u.left) \subseteq Holes /\ IsFiniteSet(Contents(u.left))
            /\ Contents(u.right) \subseteq Holes /\ IsFiniteSet(Contents(u.right))
        BY <1>2, <4>4
      <4>6. IsFiniteSet(Contents(u.left) \cup {u.hole})
        BY <4>5, FS_AddElement
      <4>7. IsFiniteSet((Contents(u.left) \cup {u.hole}) \cup Contents(u.right))
        BY <4>5, <4>6, FS_Union
      <4> QED
        BY <4>2, <4>5, <4>7 DEF Together
    <3> QED
      BY <3>1, <3>2
  <2> QED
    BY <2>1, <2>2
<1>3. \A n \in Nat : n \in S
  <2> HIDE DEF S
  <2> QED
    BY <1>1, <1>2, TreesRec!SetInduction
<1>4. t.height \in Nat /\ t \in AvlTrees[t.height]
  BY AvlHeight
<1>5. P(t.height)
  BY <1>3, <1>4
<1> QED
  BY <1>4, <1>5

\* compare_hole orders the holes.
LEMMA HoleOrder ==
  ASSUME NEW a \in Holes, NEW b \in Holes, NEW c \in Holes
  PROVE  /\ ~HoleLess(a, a)
         /\ a = b \/ HoleLess(a, b) \/ HoleLess(b, a)
         /\ HoleLess(a, b) /\ HoleLess(b, c) => HoleLess(a, c)
<1>1. a.size \in Nat /\ a.addr \in Nat /\ b.size \in Nat /\ b.addr \in Nat
      /\ c.size \in Nat /\ c.addr \in Nat
  BY DEF Holes
<1>2. a.size = b.size /\ a.addr = b.addr => a = b
  BY DEF Holes
<1> QED
  BY <1>1, <1>2 DEF HoleLess

-----------------------------------------------------------------------------
\* Rotations.

\* What comes before h comes before all that is after h; what comes after h
\* comes after all that is before h.
LEMMA BeforeThrough ==
  ASSUME NEW S, S \subseteq Holes, NEW h \in Holes, NEW g \in Holes, HoleLess(h, g)
  PROVE  /\ Before(S, h) => Before(S, g)
         /\ After(S, g) => After(S, h)
BY HoleOrder DEF Before, After

\* The fields of a node after update_node_height.
LEMMA UpdatedFields ==
  ASSUME NEW l, NEW h, NEW r
  PROVE  /\ Updated(l, h, r).left = l /\ Updated(l, h, r).right = r
         /\ Updated(l, h, r).hole = h
         /\ Updated(l, h, r).height = Higher(r.height, l.height) + 1
BY NodeFields DEF Updated

\* An AVL tree split at its root: what the rotations need of a subtree.
LEMMA SplitNode ==
  ASSUME NEW t, Avl(t), t # Nil
  PROVE  /\ Ordered(t.left, t.hole, t.right) /\ Avl(t.left) /\ Avl(t.right) /\ t.hole \in Holes
         /\ t.left.height \in Nat /\ t.right.height \in Nat
         /\ t.right.height - t.left.height \in {-1, 0, 1}
         /\ t.height = Higher(t.left.height, t.right.height) + 1
         /\ Contents(t.left) \subseteq Holes /\ Contents(t.right) \subseteq Holes
         /\ Before(Contents(t.left), t.hole) /\ After(Contents(t.right), t.hole)
         /\ Contents(t) = Contents(t.left) \cup {t.hole} \cup Contents(t.right)
<1>1. /\ Ordered(t.left, t.hole, t.right) /\ InBalance(t.left, t.right)
      /\ t.left.height \in Nat /\ t.right.height \in Nat
      /\ t.height = Higher(t.left.height, t.right.height) + 1
      /\ Contents(t) = Together(t.left, t.hole, t.right)
  BY AvlNode
<1>2. Avl(t.left) /\ Avl(t.right) /\ t.hole \in Holes
      /\ Before(Contents(t.left), t.hole) /\ After(Contents(t.right), t.hole)
  BY <1>1 DEF Ordered
<1>3. Contents(t.left) \subseteq Holes /\ Contents(t.right) \subseteq Holes
  BY <1>2, AvlContents
<1> QED
  BY <1>1, <1>2, <1>3 DEF InBalance, Together

\* A node that joins two trees, as the rotations use it.
LEMMA JoinNode ==
  ASSUME NEW l, NEW h \in Holes, NEW r, Avl(l), Avl(r),
         Before(Contents(l), h), After(Contents(r), h),
         r.height - l.height \in {-1, 0, 1}
  PROVE  /\ Avl(Updated(l, h, r)) /\ Updated(l, h, r) # Nil
         /\ Contents(Updated(l, h, r)) = Contents(l) \cup {h} \cup Contents(r)
         /\ Updated(l, h, r).height = Higher(r.height, l.height) + 1
         /\ Updated(l, h, r).left = l /\ Updated(l, h, r).right = r
<1>1. Ordered(l, h, r) /\ InBalance(l, r)
  BY DEF Ordered, InBalance
<1> QED
  BY <1>1, AvlJoin, UpdatedFields DEF Together

\* What a rotation makes of a node whose higher child has the given balance
\* factor and height.
Turned(v, S, lean, factor, height) ==
  /\ Avl(v) /\ v # Nil /\ Contents(v) = S
  /\ factor = 0 => v.height = height + 1 /\ get_balance_factor(v) = lean
  /\ factor # 0 => v.height = height /\ get_balance_factor(v) = 0

\* The single rotation to the left, of a node two levels too high on the right.
LEMMA RotateLeft ==
  ASSUME NEW l, NEW h \in Holes, NEW r, NEW k, Avl(l), Avl(r),
         Before(Contents(l), h), After(Contents(r), h),
         l.height \in Nat, r.height = l.height + 2,
         get_balance_factor(r) # -1
  PROVE  Turned(rotate_left(Node(l, h, r, k)), Contents(l) \cup {h} \cup Contents(r), -1,
                get_balance_factor(r), r.height)
<1>1. r # Nil
  BY AvlNil
<1>2. PICK rl, rh, rr : rl = r.left /\ rh = r.hole /\ rr = r.right
  OBVIOUS
<1>3. /\ Avl(rl) /\ Avl(rr) /\ rh \in Holes
      /\ rl.height \in Nat /\ rr.height \in Nat
      /\ rr.height - rl.height \in {-1, 0, 1}
      /\ r.height = Higher(rl.height, rr.height) + 1
      /\ Contents(rl) \subseteq Holes /\ Contents(rr) \subseteq Holes
      /\ Before(Contents(rl), rh) /\ After(Contents(rr), rh)
      /\ Contents(r) = Contents(rl) \cup {rh} \cup Contents(rr)
  BY <1>1, <1>2, SplitNode
<1>4. get_balance_factor(r) = rr.height - rl.height
  BY <1>2 DEF get_balance_factor
<1>5. rr.height = l.height + 1 /\ rl.height \in {l.height, l.height + 1}
  BY <1>3, <1>4 DEF Higher
<1>6. HoleLess(h, rh) /\ After(Contents(rl), h) /\ Contents(l) \subseteq Holes
  BY <1>3, AvlContents DEF After
<1>7. PICK a : a = Updated(l, h, rl)
  OBVIOUS
<1>8. rl.height - l.height \in {-1, 0, 1}
  BY <1>5
<1>9. /\ Avl(a) /\ Contents(a) = Contents(l) \cup {h} \cup Contents(rl)
      /\ a.height = Higher(rl.height, l.height) + 1
  BY <1>3, <1>6, <1>7, <1>8, JoinNode
<1>10. a.height = rl.height + 1
  BY <1>5, <1>9 DEF Higher
<1>11. Before(Contents(l), rh)
  BY <1>3, <1>6, BeforeThrough
<1>12. Before(Contents(a), rh)
  BY <1>3, <1>6, <1>9, <1>11 DEF Before
<1>13. PICK v : v = Updated(a, rh, rr)
  OBVIOUS
<1>14. rr.height - a.height \in {-1, 0, 1}
  BY <1>5, <1>10
<1>15. /\ Avl(v) /\ v # Nil /\ Contents(v) = Contents(a) \cup {rh} \cup Contents(rr)
       /\ v.height = Higher(rr.height, a.height) + 1 /\ v.left = a /\ v.right = rr
  <2>1. Avl(a) /\ Avl(rr) /\ rh \in Holes /\ After(Contents(rr), rh)
    BY <1>3, <1>9
  <2> QED
    <3>1. /\ Avl(Updated(a, rh, rr)) /\ Updated(a, rh, rr) # Nil
          /\ Contents(Updated(a, rh, rr)) = Contents(a) \cup {rh} \cup Contents(rr)
          /\ Updated(a, rh, rr).height = Higher(rr.height, a.height) + 1
          /\ Updated(a, rh, rr).left = a /\ Updated(a, rh, rr).right = rr
      BY ONLY <1>12, <1>14, <2>1, JoinNode
    <3> QED
      BY ONLY <1>13, <3>1
<1>16. rotate_left(Node(l, h, r, k)) = v
  <2>1. PICK u : u = Node(l, h, r, k)
    OBVIOUS
  <2>2. u.left = l /\ u.hole = h /\ u.right = r
    BY <2>1, NodeFields
  <2>3. rotate_left(u) = v
    BY <1>2, <1>7, <1>13, <2>2 DEF rotate_left
  <2> QED
    BY <2>1, <2>3
<1>17. Contents(v) = Contents(l) \cup {h} \cup Contents(r)
  BY <1>3, <1>9, <1>15
<1>18. get_balance_factor(v) = rr.height - a.height
  BY <1>15 DEF get_balance_factor
<1>19. /\ get_balance_factor(r) = 0 => v.height = r.height + 1 /\ get_balance_factor(v) = -1
       /\ get_balance_factor(r) # 0 => v.height = r.height /\ get_balance_factor(v) = 0
  BY <1>4, <1>5, <1>10, <1>15, <1>18 DEF Higher
<1>20. Turned(v, Contents(l) \cup {h} \cup Contents(r), -1, get_balance_factor(r), r.height)
  BY <1>15, <1>17, <1>19 DEF Turned
<1> QED
  BY <1>16, <1>20

\* The double rotation to the left.
LEMMA DoubleRotateLeft ==
  ASSUME NEW l, NEW h \in Holes, NEW r, NEW k, Avl(l), Avl(r),
         Before(Contents(l), h), After(Contents(r), h),
         l.height \in Nat, r.height = l.height + 2,
         get_balance_factor(r) = -1
  PROVE  Turned(double_rotate_left(Node(l, h, r, k)),
                Contents(l) \cup {h} \cup Contents(r), -1, get_balance_factor(r), r.height)
<1>1. r # Nil
  BY AvlNil
<1>2. PICK b, rh, rr : b = r.left /\ rh = r.hole /\ rr = r.right
  OBVIOUS
<1>3. /\ Avl(b) /\ Avl(rr) /\ rh \in Holes
      /\ b.height \in Nat /\ rr.height \in Nat
      /\ r.height = Higher(b.height, rr.height) + 1
      /\ Contents(b) \subseteq Holes /\ Contents(rr) \subseteq Holes
      /\ Before(Contents(b), rh) /\ After(Contents(rr), rh)
      /\ Contents(r) = Contents(b) \cup {rh} \cup Contents(rr)
  BY <1>1, <1>2, SplitNode
<1>4. rr.height - b.height = -1
  BY <1>2 DEF get_balance_factor
<1>5. rr.height = l.height /\ b.height = l.height + 1
  BY <1>3, <1>4 DEF Higher
<1>6. b # Nil
  BY <1>5, AvlNil
<1>7. PICK bl, bh, br : bl = b.left /\ bh = b.hole /\ br = b.right
  OBVIOUS
<1>8. /\ Avl(bl) /\ Avl(br) /\ bh \in Holes
      /\ bl.height \in Nat /\ br.height \in Nat
      /\ br.height - bl.height \in {-1, 0, 1}
      /\ b.height = Higher(bl.height, br.height) + 1
      /\ Contents(bl) \subseteq Holes /\ Contents(br) \subseteq Holes
      /\ Before(Contents(bl), bh) /\ After(Contents(br), bh)
      /\ Contents(b) = Contents(bl) \cup {bh} \cup Contents(br)
  BY <1>3, <1>6, <1>7, SplitNode
<1>9. /\ bl.height <= l.height /\ br.height <= l.height
      /\ bl.height - l.height \in {-1, 0, 1} /\ rr.height - br.height \in {-1, 0, 1}
  BY <1>5, <1>8 DEF Higher
<1>10. /\ HoleLess(h, bh) /\ After(Contents(bl), h) /\ Contents(l) \subseteq Holes
       /\ HoleLess(bh, rh) /\ Before(Contents(br), rh)
  BY <1>3, <1>8, AvlContents DEF After, Before
<1>11. PICK x : x = Updated(l, h, bl)
  OBVIOUS
<1>12. /\ Avl(x) /\ Contents(x) = Contents(l) \cup {h} \cup Contents(bl)
       /\ x.height = Higher(bl.height, l.height) + 1
  BY <1>8, <1>9, <1>10, <1>11, JoinNode
<1>13. PICK y : y = Updated(br, rh, rr)
  OBVIOUS
<1>14. /\ Avl(y) /\ Contents(y) = Contents(br) \cup {rh} \cup Contents(rr)
       /\ y.height = Higher(rr.height, br.height) + 1
  BY <1>3, <1>8, <1>9, <1>10, <1>13, JoinNode
<1>15. x.height = l.height + 1 /\ y.height = l.height + 1
  BY <1>5, <1>8, <1>9, <1>12, <1>14 DEF Higher
<1>16. Before(Contents(l), bh) /\ After(Contents(rr), bh)
  BY <1>3, <1>8, <1>10, BeforeThrough
<1>17. Before(Contents(x), bh)
  BY <1>8, <1>10, <1>12, <1>16 DEF Before
<1>18. After(Contents(y), bh)
  BY <1>8, <1>10, <1>14, <1>16 DEF After
<1>19. PICK v : v = Updated(x, bh, y)
  OBVIOUS
<1>20. y.height - x.height \in {-1, 0, 1}
  BY <1>15
<1>21. /\ Avl(v) /\ v # Nil /\ Contents(v) = Contents(x) \cup {bh} \cup Contents(y)
       /\ v.height = Higher(y.height, x.height) + 1 /\ v.left = x /\ v.right = y
  <2>1. Avl(x) /\ Avl(y) /\ bh \in Holes
    BY <1>8, <1>12, <1>14
  <2> QED
    <3>1. /\ Avl(Updated(x, bh, y)) /\ Updated(x, bh, y) # Nil
          /\ Contents(Updated(x, bh, y)) = Contents(x) \cup {bh} \cup Contents(y)
          /\ Updated(x, bh, y).height = Higher(y.height, x.height) + 1
          /\ Updated(x, bh, y).left = x /\ Updated(x, bh, y).right = y
      BY ONLY <1>17, <1>18, <1>20, <2>1, JoinNode
    <3> QED
      BY ONLY <1>19, <3>1
<1>22. double_rotate_left(Node(l, h, r, k)) = v
  <2>1. PICK u : u = Node(l, h, r, k)
    OBVIOUS
  <2>2. u.left = l /\ u.hole = h /\ u.right = r
    BY <2>1, NodeFields
  <2>3. double_rotate_left(u) = v
    BY <1>2, <1>7, <1>11, <1>13, <1>19, <2>2 DEF double_rotate_left
  <2> QED
    BY <2>1, <2>3
<1>23. Contents(v) = Contents(l) \cup {h} \cup Contents(r)
  BY <1>3, <1>8, <1>12, <1>14, <1>21
<1>24. get_balance_factor(v) = y.height - x.height
  BY <1>21 DEF get_balance_factor
<1>25. v.height = r.height /\ get_balance_factor(v) = 0
  BY <1>15, <1>21, <1>24 DEF Higher
<1>26. Turned(v, Contents(l) \cup {h} \cup Contents(r), -1, get_balance_factor(r), r.height)
  BY <1>21, <1>23, <1>25 DEF Turned
<1> QED
  BY <1>22, <1>26

\* The single rotation to the right, of a node two levels too high on the left.
LEMMA RotateRight ==
  ASSUME NEW l, NEW h \in Holes, NEW r, NEW k, Avl(l), Avl(r),
         Before(Contents(l), h), After(Contents(r), h),
         r.height \in Nat, l.height = r.height + 2,
         get_balance_factor(l) # 1
  PROVE  Turned(rotate_right(Node(l, h, r, k)), Contents(l) \cup {h} \cup Contents(r), 1,
                get_balance_factor(l), l.height)
<1>1. l # Nil
  BY AvlNil
<1>2. PICK lr, lh, ll : lr = l.right /\ lh = l.hole /\ ll = l.left
  OBVIOUS
<1>3. /\ Avl(lr) /\ Avl(ll) /\ lh \in Holes
      /\ lr.height \in Nat /\ ll.height \in Nat
      /\ lr.height - ll.height \in {-1, 0, 1}
      /\ l.height = Higher(ll.height, lr.height) + 1
      /\ Contents(lr) \subseteq Holes /\ Contents(ll) \subseteq Holes
      /\ After(Contents(lr), lh) /\ Before(Contents(ll), lh)
      /\ Contents(l) = Contents(ll) \cup {lh} \cup Contents(lr)
  BY <1>1, <1>2, SplitNode
<1>4. get_balance_factor(l) = lr.height - ll.height
  BY <1>2 DEF get_balance_factor
<1>5. ll.height = r.height + 1 /\ lr.height \in {r.height, r.height + 1}
  BY <1>3, <1>4 DEF Higher
<1>6. HoleLess(lh, h) /\ Before(Contents(lr), h) /\ Contents(r) \subseteq Holes
  BY <1>3, AvlContents DEF Before
<1>7. PICK a : a = Updated(lr, h, r)
  OBVIOUS
<1>8. r.height - lr.height \in {-1, 0, 1}
  BY <1>5
<1>9. /\ Avl(a) /\ Contents(a) = Contents(lr) \cup {h} \cup Contents(r)
      /\ a.height = Higher(r.height, lr.height) + 1
  BY <1>3, <1>6, <1>7, <1>8, JoinNode
<1>10. a.height = lr.height + 1
  BY <1>5, <1>9 DEF Higher
<1>11. After(Contents(r), lh)
  BY <1>3, <1>6, BeforeThrough
<1>12. After(Contents(a), lh)
  BY <1>3, <1>6, <1>9, <1>11 DEF After
<1>13. PICK v : v = Updated(ll, lh, a)
  OBVIOUS
<1>14. a.height - ll.height \in {-1, 0, 1}
  BY <1>5, <1>10
<1>15. /\ Avl(v) /\ v # Nil /\ Contents(v) = Contents(ll) \cup {lh} \cup Contents(a)
       /\ v.height = Higher(a.height, ll.height) + 1 /\ v.right = a /\ v.left = ll
  <2>1. Avl(a) /\ Avl(ll) /\ lh \in Holes /\ Before(Contents(ll), lh)
    BY <1>3, <1>9
  <2> QED
    <3>1. /\ Avl(Updated(ll, lh, a)) /\ Updated(ll, lh, a) # Nil
          /\ Contents(Updated(ll, lh, a)) = Contents(ll) \cup {lh} \cup Contents(a)
          /\ Updated(ll, lh, a).height = Higher(a.height, ll.height) + 1
          /\ Updated(ll, lh, a).right = a /\ Updated(ll, lh, a).left = ll
      BY ONLY <1>12, <1>14, <2>1, JoinNode
    <3> QED
      BY ONLY <1>13, <3>1
<1>16. rotate_right(Node(l, h, r, k)) = v
  <2>1. PICK u : u = Node(l, h, r, k)
    OBVIOUS
  <2>2. u.right = r /\ u.hole = h /\ u.left = l
    BY <2>1, NodeFields
  <2>3. rotate_right(u) = v
    BY <1>2, <1>7, <1>13, <2>2 DEF rotate_right
  <2> QED
    BY <2>1, <2>3
<1>17. Contents(v) = Contents(l) \cup {h} \cup Contents(r)
  BY <1>3, <1>9, <1>15
<1>18. get_balance_factor(v) = a.height - ll.height
  BY <1>15 DEF get_balance_factor
<1>19. /\ get_balance_factor(l) = 0 => v.height = l.height + 1 /\ get_balance_factor(v) = 1
       /\ get_balance_factor(l) # 0 => v.height = l.height /\ get_balance_factor(v) = 0
  BY <1>4, <1>5, <1>10, <1>15, <1>18 DEF Higher
<1>20. Turned(v, Contents(l) \cup {h} \cup Contents(r), 1, get_balance_factor(l), l.height)
  BY <1>15, <1>17, <1>19 DEF Turned
<1> QED
  BY <1>16, <1>20

\* The double rotation to the right.
LEMMA DoubleRotateRight ==
  ASSUME NEW l, NEW h \in Holes, NEW r, NEW k, Avl(l), Avl(r),
         Before(Contents(l), h), After(Contents(r), h),
         r.height \in Nat, l.height = r.height + 2,
         get_balance_factor(l) = 1
  PROVE  Turned(double_rotate_right(Node(l, h, r, k)),
                Contents(l) \cup {h} \cup Contents(r), 1, get_balance_factor(l), l.height)
<1>1. l # Nil
  BY AvlNil
<1>2. PICK b, lh, ll : b = l.right /\ lh = l.hole /\ ll = l.left
  OBVIOUS
<1>3. /\ Avl(b) /\ Avl(ll) /\ lh \in Holes
      /\ b.height \in Nat /\ ll.height \in Nat
      /\ l.height = Higher(ll.height, b.height) + 1
      /\ Contents(b) \subseteq Holes /\ Contents(ll) \subseteq Holes
      /\ After(Contents(b), lh) /\ Before(Contents(ll), lh)
      /\ Contents(l) = Contents(ll) \cup {lh} \cup Contents(b)
  BY <1>1, <1>2, SplitNode
<1>4. b.height - ll.height = 1
  BY <1>2 DEF get_balance_factor
<1>5. ll.height = r.height /\ b.height = r.height + 1
  BY <1>3, <1>4 DEF Higher
<1>6. b # Nil
  BY <1>5, AvlNil
<1>7. PICK br, bh, bl : br = b.right /\ bh = b.hole /\ bl = b.left
  OBVIOUS
<1>8. /\ Avl(br) /\ Avl(bl) /\ bh \in Holes
      /\ br.height \in Nat /\ bl.height \in Nat
      /\ br.height - bl.height \in {-1, 0, 1}
      /\ b.height = Higher(bl.height, br.height) + 1
      /\ Contents(br) \subseteq Holes /\ Contents(bl) \subseteq Holes
      /\ After(Contents(br), bh) /\ Before(Contents(bl), bh)
      /\ Contents(b) = Contents(bl) \cup {bh} \cup Contents(br)
  BY <1>3, <1>6, <1>7, SplitNode
<1>9. /\ br.height <= r.height /\ bl.height <= r.height
      /\ r.height - br.height \in {-1, 0, 1} /\ bl.height - ll.height \in {-1, 0, 1}
  BY <1>5, <1>8 DEF Higher
<1>10. /\ HoleLess(bh, h) /\ Before(Contents(br), h) /\ Contents(r) \subseteq Holes
       /\ HoleLess(lh, bh) /\ After(Contents(bl), lh)
  BY <1>3, <1>8, AvlContents DEF Before, After
<1>11. PICK y : y = Updated(br, h, r)
  OBVIOUS
<1>12. /\ Avl(y) /\ Contents(y) = Contents(br) \cup {h} \cup Contents(r)
       /\ y.height = Higher(r.height, br.height) + 1
  BY <1>8, <1>9, <1>10, <1>11, JoinNode
<1>13. PICK x : x = Updated(ll, lh, bl)
  OBVIOUS
<1>14. /\ Avl(x) /\ Contents(x) = Contents(ll) \cup {lh} \cup Contents(bl)
       /\ x.height = Higher(bl.height, ll.height) + 1
  BY <1>3, <1>8, <1>9, <1>10, <1>13, JoinNode
<1>15. y.height = r.height + 1 /\ x.height = r.height + 1
  BY <1>5, <1>8, <1>9, <1>12, <1>14 DEF Higher
<1>16. After(Contents(r), bh) /\ Before(Contents(ll), bh)
  BY <1>3, <1>8, <1>10, BeforeThrough
<1>17. After(Contents(y), bh)
  BY <1>8, <1>10, <1>12, <1>16 DEF After
<1>18. Before(Contents(x), bh)
  BY <1>8, <1>10, <1>14, <1>16 DEF Before
<1>19. PICK v : v = Updated(x, bh, y)
  OBVIOUS
<1>20. y.height - x.height \in {-1, 0, 1}
  BY <1>15
<1>21. /\ Avl(v) /\ v # Nil /\ Contents(v) = Contents(x) \cup {bh} \cup Contents(y)
       /\ v.height = Higher(y.height, x.height) + 1 /\ v.right = y /\ v.left = x
  <2>1. Avl(y) /\ Avl(x) /\ bh \in Holes
    BY <1>8, <1>12, <1>14
  <2> QED
    <3>1. /\ Avl(Updated(x, bh, y)) /\ Updated(x, bh, y) # Nil
          /\ Contents(Updated(x, bh, y)) = Contents(x) \cup {bh} \cup Contents(y)
          /\ Updated(x, bh, y).height = Higher(y.height, x.height) + 1
          /\ Updated(x, bh, y).right = y /\ Updated(x, bh, y).left = x
      BY ONLY <1>17, <1>18, <1>20, <2>1, JoinNode
    <3> QED
      BY ONLY <1>19, <3>1
<1>22. double_rotate_right(Node(l, h, r, k)) = v
  <2>1. PICK u : u = Node(l, h, r, k)
    OBVIOUS
  <2>2. u.right = r /\ u.hole = h /\ u.left = l
    BY <2>1, NodeFields
  <2>3. double_rotate_right(u) = v
    BY <1>2, <1>7, <1>11, <1>13, <1>19, <2>2 DEF double_rotate_right
  <2> QED
    BY <2>1, <2>3
<1>23. Contents(v) = Contents(l) \cup {h} \cup Contents(r)
  BY <1>3, <1>8, <1>12, <1>14, <1>21
<1>24. get_balance_factor(v) = y.height - x.height
  BY <1>21 DEF get_balance_factor
<1>25. v.height = l.height /\ get_balance_factor(v) = 0
  BY <1>15, <1>21, <1>24 DEF Higher
<1>26. Turned(v, Contents(l) \cup {h} \cup Contents(r), 1, get_balance_factor(l), l.height)
  BY <1>21, <1>23, <1>25 DEF Turned
<1> QED
  BY <1>22, <1>26

\* The balance factor of an AVL tree's root.
LEMMA AvlFactor ==
  ASSUME NEW t, Avl(t), t # Nil
  PROVE  get_balance_factor(t) \in {-1, 0, 1}
BY SplitNode DEF get_balance_factor

\* A node two levels too high on the right is rotated to the left.
LEMMA RotatedLeft ==
  ASSUME NEW l, NEW h \in Holes, NEW r, NEW k, Avl(l), Avl(r),
         Before(Contents(l), h), After(Contents(r), h),
         l.height \in Nat, r.height = l.height + 2
  PROVE  Turned(Rotated(Node(l, h, r, k), 1), Contents(l) \cup {h} \cup Contents(r), -1,
                get_balance_factor(r), r.height)
<1>1. PICK u : u = Node(l, h, r, k)
  OBVIOUS
<1>2. u.right = r
  BY <1>1, NodeFields
<1>3. r # Nil
  BY AvlNil
<1>4. get_balance_factor(r) \in {-1, 0, 1}
  BY <1>3, AvlFactor
<1>5. CASE get_balance_factor(r) = -1
  <2>1. Rotated(u, 1) = double_rotate_left(u)
    BY <1>2, <1>5 DEF Rotated, Child
  <2> QED
    BY <1>1, <1>5, <2>1, DoubleRotateLeft
<1>6. CASE get_balance_factor(r) # -1
  <2>1. Rotated(u, 1) = rotate_left(u)
    BY <1>2, <1>4, <1>6 DEF Rotated, Child
  <2> QED
    BY <1>1, <1>6, <2>1, RotateLeft
<1> QED
  BY <1>5, <1>6

\* A node two levels too high on the left is rotated to the right.
LEMMA RotatedRight ==
  ASSUME NEW l, NEW h \in Holes, NEW r, NEW k, Avl(l), Avl(r),
         Before(Contents(l), h), After(Contents(r), h),
         r.height \in Nat, l.height = r.height + 2
  PROVE  Turned(Rotated(Node(l, h, r, k), -1), Contents(l) \cup {h} \cup Contents(r), 1,
                get_balance_factor(l), l.height)
<1>1. PICK u : u = Node(l, h, r, k)
  OBVIOUS
<1>2. u.left = l
  BY <1>1, NodeFields
<1>3. l # Nil
  BY AvlNil
<1>4. get_balance_factor(l) \in {-1, 0, 1}
  BY <1>3, AvlFactor
<1>5. CASE get_balance_factor(l) = 1
  <2>1. Rotated(u, -1) = double_rotate_right(u)
    BY <1>2, <1>5 DEF Rotated, Child
  <2> QED
    BY <1>1, <1>5, <2>1, DoubleRotateRight
<1>6. CASE get_balance_factor(l) # 1
  <2>1. Rotated(u, -1) = rotate_right(u)
    BY <1>2, <1>4, <1>6 DEF Rotated, Child
  <2> QED
    BY <1>1, <1>6, <2>1, RotateRight
<1> QED
  BY <1>5, <1>6

-----------------------------------------------------------------------------
\* The way up.

\* The code's adjustments of a stored height.
Raised(u) == [u EXCEPT !.height = @ + 1]
Lowered(u) == [u EXCEPT !.height = @ - 1]

\* A subtree goes into a node.
LEMMA NodeEdits ==
  ASSUME NEW l, NEW h, NEW r, NEW k, NEW c
  PROVE  /\ WithChild(Node(l, h, r, k), 1, c) = Node(l, h, c, k)
         /\ WithChild(Node(l, h, r, k), -1, c) = Node(c, h, r, k)
<1>1. WithChild(Node(l, h, r, k), 1, c) = Node(l, h, c, k)
  BY DEF Node, WithChild
<1>2. WithChild(Node(l, h, r, k), -1, c) = Node(c, h, r, k)
  BY DEF Node, WithChild
<1> QED
  BY <1>1, <1>2

\* A node's height is adjusted.
LEMMA NodeHeights ==
  ASSUME NEW l, NEW h, NEW r, NEW k
  PROVE  /\ Raised(Node(l, h, r, k)) = Node(l, h, r, k + 1)
         /\ Lowered(Node(l, h, r, k)) = Node(l, h, r, k - 1)
BY DEF Node, Raised, Lowered

\* A node that stores its height and is in order and in balance.
LEMMA MadeNode ==
  ASSUME NEW l, NEW h \in Holes, NEW r, NEW k, Avl(l), Avl(r),
         Before(Contents(l), h), After(Contents(r), h),
         r.height - l.height \in {-1, 0, 1}, k = Higher(r.height, l.height) + 1
  PROVE  /\ Avl(Node(l, h, r, k)) /\ Node(l, h, r, k) # Nil
         /\ Contents(Node(l, h, r, k)) = Contents(l) \cup {h} \cup Contents(r)
         /\ Node(l, h, r, k).height = k
         /\ get_balance_factor(Node(l, h, r, k)) = r.height - l.height
<1>1. Updated(l, h, r) = Node(l, h, r, k)
  BY DEF Updated
<1>2. get_balance_factor(Node(l, h, r, k)) = r.height - l.height
  BY NodeFields DEF get_balance_factor
<1> QED
  BY <1>1, <1>2, JoinNode, NodeFields

\* What an insertion into a tree of the given height gives back: with the
\* flag set, a tree one level higher that is a leaf or leans to one side.
Grown(result, S, height) ==
  /\ result.ok = TRUE /\ Avl(result.tree) /\ result.tree # Nil /\ Contents(result.tree) = S
  /\ \/ result.changed = FALSE /\ result.tree.height = height
     \/ /\ result.changed = TRUE /\ result.tree.height = height + 1
        /\ height = 0 \/ get_balance_factor(result.tree) # 0

\* What a removal from a tree of the given height gives back.
Shrunk(result, S, height) ==
  /\ result.ok = TRUE /\ Avl(result.tree) /\ Contents(result.tree) = S
  /\ \/ result.changed = FALSE /\ result.tree.height = height
     \/ result.changed = TRUE /\ result.tree.height = height - 1

\* The fields of a result.
LEMMA ResultFields ==
  ASSUME NEW t, NEW c, NEW o
  PROVE  Result(t, c, o).tree = t /\ Result(t, c, o).changed = c /\ Result(t, c, o).ok = o
BY DEF Result

\* A result as the cases of AfterInsert and of AfterRemove make it.
LEMMA MadeResult ==
  ASSUME NEW w, NEW S, NEW k, Avl(w), Contents(w) = S
  PROVE  /\ w # Nil /\ w.height = k => Grown(Result(w, FALSE, TRUE), S, k)
         /\ w # Nil /\ w.height = k + 1 /\ get_balance_factor(w) # 0
              => Grown(Result(w, TRUE, TRUE), S, k)
         /\ w.height = k => Shrunk(Result(w, FALSE, TRUE), S, k)
         /\ w.height = k - 1 => Shrunk(Result(w, TRUE, TRUE), S, k)
<1>1. PICK a : a = Result(w, FALSE, TRUE)
  OBVIOUS
<1>2. PICK b : b = Result(w, TRUE, TRUE)
  OBVIOUS
<1>3. /\ a.tree = w /\ a.changed = FALSE /\ a.ok = TRUE
      /\ b.tree = w /\ b.changed = TRUE /\ b.ok = TRUE
  BY <1>1, <1>2 DEF Result
<1>4. /\ w # Nil /\ w.height = k => Grown(a, S, k)
      /\ w # Nil /\ w.height = k + 1 /\ get_balance_factor(w) # 0 => Grown(b, S, k)
      /\ w.height = k => Shrunk(a, S, k)
      /\ w.height = k - 1 => Shrunk(b, S, k)
  BY <1>3 DEF Grown, Shrunk
<1> QED
  BY <1>1, <1>2, <1>4

\* Whether a rotation has made a subtree lower, as AfterRemove sees it.
Lower(v, side) == get_balance_factor(v) # side

\* The choice by a balance factor.
Chosen(f, a, b, c, d) == CASE f = 0 -> a [] f = 1 -> b [] f = 2 -> c [] OTHER -> d

\* AfterInsert and AfterRemove choose in the same way.
LEMMA AfterChosen ==
  ASSUME NEW t, NEW side, NEW sub
  PROVE  /\ AfterInsert(t, side, sub) =
              IF ~sub.changed THEN Result(WithChild(t, side, sub.tree), FALSE, sub.ok)
              ELSE Chosen(side * get_balance_factor(WithChild(t, side, sub.tree)),
                     Result(WithChild(t, side, sub.tree), FALSE, sub.ok),
                     Result(Raised(WithChild(t, side, sub.tree)), TRUE, sub.ok),
                     Result(Rotated(WithChild(t, side, sub.tree), side), FALSE, sub.ok),
                     Result(WithChild(t, side, sub.tree), FALSE, FALSE))
         /\ AfterRemove(t, side, sub) =
              IF ~sub.changed THEN Result(WithChild(t, side, sub.tree), FALSE, sub.ok)
              ELSE Chosen(Opposite(side) * get_balance_factor(WithChild(t, side, sub.tree)),
                     Result(Lowered(WithChild(t, side, sub.tree)), TRUE, sub.ok),
                     Result(WithChild(t, side, sub.tree), FALSE, sub.ok),
                     Result(Rotated(WithChild(t, side, sub.tree), Opposite(side)),
                            Lower(Rotated(WithChild(t, side, sub.tree), Opposite(side)), side), sub.ok),
                     Result(WithChild(t, side, sub.tree), FALSE, FALSE))
BY Zenon DEF AfterInsert, AfterRemove, Chosen, Raised, Lowered, Lower

\* The cases of AfterInsert.
LEMMA InsertCases ==
  ASSUME NEW t, NEW side, NEW sub, sub.ok = TRUE
  PROVE  LET u == WithChild(t, side, sub.tree)
             f == side * get_balance_factor(u)
             res == AfterInsert(t, side, sub)
         IN  /\ sub.changed = FALSE => res = Result(u, FALSE, TRUE)
             /\ sub.changed = TRUE /\ f = 0 => res = Result(u, FALSE, TRUE)
             /\ sub.changed = TRUE /\ f = 1 => res = Result(Raised(u), TRUE, TRUE)
             /\ sub.changed = TRUE /\ f = 2 => res = Result(Rotated(u, side), FALSE, TRUE)
<1>1. PICK u, v, w, f : /\ u = WithChild(t, side, sub.tree) /\ v = Rotated(u, side)
                        /\ w = Raised(u) /\ f = side * get_balance_factor(u)
  OBVIOUS
<1>2. PICK a, b, c, d : /\ a = Result(u, FALSE, sub.ok) /\ b = Result(w, TRUE, sub.ok)
                        /\ c = Result(v, FALSE, sub.ok) /\ d = Result(u, FALSE, FALSE)
  OBVIOUS
<1>3. AfterInsert(t, side, sub) = IF ~sub.changed THEN a ELSE Chosen(f, a, b, c, d)
  BY <1>1, <1>2, AfterChosen, Zenon
<1>4. /\ a = Result(u, FALSE, TRUE) /\ b = Result(w, TRUE, TRUE) /\ c = Result(v, FALSE, TRUE)
  BY <1>2
<1>5. PICK e : e = Chosen(f, a, b, c, d)
  OBVIOUS
<1>6. (f = 0 => e = a) /\ (f = 1 => e = b) /\ (f = 2 => e = c)
  BY ONLY <1>5 DEF Chosen
<1>7. AfterInsert(t, side, sub) = IF ~sub.changed THEN a ELSE e
  BY <1>3, <1>5
<1>8. /\ sub.changed = FALSE => AfterInsert(t, side, sub) = a
      /\ sub.changed = TRUE => AfterInsert(t, side, sub) = e
  BY ONLY <1>7
<1>9. /\ sub.changed = FALSE => AfterInsert(t, side, sub) = Result(u, FALSE, TRUE)
      /\ sub.changed = TRUE /\ f = 0 => AfterInsert(t, side, sub) = Result(u, FALSE, TRUE)
      /\ sub.changed = TRUE /\ f = 1 => AfterInsert(t, side, sub) = Result(w, TRUE, TRUE)
      /\ sub.changed = TRUE /\ f = 2 => AfterInsert(t, side, sub) = Result(v, FALSE, TRUE)
  BY ONLY <1>4, <1>6, <1>8
<1> QED
  BY ONLY <1>1, <1>9, Zenon

\* The cases of AfterRemove.
LEMMA RemoveCases ==
  ASSUME NEW t, NEW side, NEW sub, sub.ok = TRUE
  PROVE  LET u == WithChild(t, side, sub.tree)
             f == Opposite(side) * get_balance_factor(u)
             v == Rotated(u, Opposite(side))
             res == AfterRemove(t, side, sub)
         IN  /\ sub.changed = FALSE => res = Result(u, FALSE, TRUE)
             /\ sub.changed = TRUE /\ f = 0 => res = Result(Lowered(u), TRUE, TRUE)
             /\ sub.changed = TRUE /\ f = 1 => res = Result(u, FALSE, TRUE)
             /\ sub.changed = TRUE /\ f = 2 => res = Result(v, Lower(v, side), TRUE)
<1>1. PICK u, v, w, f : /\ u = WithChild(t, side, sub.tree) /\ v = Rotated(u, Opposite(side))
                        /\ w = Lowered(u) /\ f = Opposite(side) * get_balance_factor(u)
  OBVIOUS
<1>2. PICK a, b, c, d : /\ a = Result(w, TRUE, sub.ok) /\ b = Result(u, FALSE, sub.ok)
                        /\ c = Result(v, Lower(v, side), sub.ok) /\ d = Result(u, FALSE, FALSE)
  OBVIOUS
<1>3. AfterRemove(t, side, sub) = IF ~sub.changed THEN b ELSE Chosen(f, a, b, c, d)
  BY <1>1, <1>2, AfterChosen, Zenon
<1>4. /\ a = Result(w, TRUE, TRUE) /\ b = Result(u, FALSE, TRUE)
      /\ c = Result(v, Lower(v, side), TRUE)
  BY <1>2
<1>5. PICK e : e = Chosen(f, a, b, c, d)
  OBVIOUS
<1>6. (f = 0 => e = a) /\ (f = 1 => e = b) /\ (f = 2 => e = c)
  BY ONLY <1>5 DEF Chosen
<1>7. AfterRemove(t, side, sub) = IF ~sub.changed THEN b ELSE e
  BY <1>3, <1>5
<1>8. /\ sub.changed = FALSE => AfterRemove(t, side, sub) = b
      /\ sub.changed = TRUE => AfterRemove(t, side, sub) = e
  BY ONLY <1>7
<1>9. /\ sub.changed = FALSE => AfterRemove(t, side, sub) = Result(u, FALSE, TRUE)
      /\ sub.changed = TRUE /\ f = 0 => AfterRemove(t, side, sub) = Result(w, TRUE, TRUE)
      /\ sub.changed = TRUE /\ f = 1 => AfterRemove(t, side, sub) = Result(u, FALSE, TRUE)
      /\ sub.changed = TRUE /\ f = 2
           => AfterRemove(t, side, sub) = Result(v, Lower(v, side), TRUE)
  BY ONLY <1>4, <1>6, <1>8
<1> QED
  BY ONLY <1>1, <1>9, Zenon

\* After an insertion into the right subtree.
LEMMA AfterInsertRight ==
  ASSUME NEW l, NEW h \in Holes, NEW height \in Nat, NEW r, NEW k, NEW sub, NEW S,
         Avl(l), Before(Contents(l), h), l.height \in Nat,
         height - l.height \in {-1, 0, 1},
         k = Higher(height, l.height) + 1, Grown(sub, S, height), After(S, h)
  PROVE  Grown(AfterInsert(Node(l, h, r, k), 1, sub), Contents(l) \cup {h} \cup S, k)
<1>1. PICK c, u, t, A : /\ c = sub.tree /\ u = Node(l, h, c, k) /\ t = Node(l, h, r, k)
                        /\ A = Contents(l) \cup {h} \cup S
  OBVIOUS
<1>2. /\ Avl(c) /\ c # Nil /\ Contents(c) = S /\ sub.ok = TRUE /\ After(Contents(c), h)
      /\ \/ sub.changed = FALSE /\ c.height = height
         \/ /\ sub.changed = TRUE /\ c.height = height + 1
            /\ height = 0 \/ get_balance_factor(c) # 0
  BY <1>1 DEF Grown
<1>3. u = WithChild(t, 1, sub.tree)
  <2>1. WithChild(Node(l, h, r, k), 1, c) = Node(l, h, c, k)
    BY NodeEdits
  <2> QED
    BY <1>1, <2>1
<1>4. u.left = l /\ u.right = c
  BY <1>1, NodeFields
<1>5. PICK f : f = c.height - l.height
  OBVIOUS
<1>a. f = 1 * get_balance_factor(u)
  BY <1>2, <1>4, <1>5 DEF get_balance_factor
<1>6. PICK res : res = AfterInsert(t, 1, sub)
  OBVIOUS
<1>7. PICK v : v = Rotated(u, 1)
  OBVIOUS
<1>8. PICK w : w = Node(l, h, c, k + 1)
  OBVIOUS
<1>9. w = Raised(u)
  <2>1. Raised(Node(l, h, c, k)) = Node(l, h, c, k + 1)
    BY ONLY NodeHeights
  <2> QED
    BY <1>1, <1>8, <2>1
<1>10. /\ sub.changed = FALSE => res = Result(u, FALSE, TRUE)
       /\ sub.changed = TRUE /\ f = 0 => res = Result(u, FALSE, TRUE)
       /\ sub.changed = TRUE /\ f = 1 => res = Result(w, TRUE, TRUE)
       /\ sub.changed = TRUE /\ f = 2 => res = Result(v, FALSE, TRUE)
  <2>1. sub.ok = TRUE
    BY <1>2
  <2> QED
    BY ONLY <1>3, <1>a, <1>6, <1>7, <1>9, <2>1, InsertCases, ZenonT(60)
<1>11. CASE sub.changed = FALSE
  <2>1. c.height - l.height \in {-1, 0, 1} /\ k = Higher(c.height, l.height) + 1
    BY <1>2, <1>11
  <2>2. Avl(u) /\ u # Nil /\ Contents(u) = A /\ u.height = k
    BY <1>1, <1>2, <2>1, MadeNode
  <2> QED
    BY <1>1, <1>6, <1>10, <1>11, <2>2, MadeResult, ZenonT(30)
<1>12. CASE sub.changed = TRUE /\ f = 0
  <2>1. c.height - l.height \in {-1, 0, 1} /\ k = Higher(c.height, l.height) + 1
    BY <1>2, <1>5, <1>12 DEF Higher
  <2>2. Avl(u) /\ u # Nil /\ Contents(u) = A /\ u.height = k
    BY <1>1, <1>2, <2>1, MadeNode
  <2> QED
    BY <1>1, <1>6, <1>10, <1>12, <2>2, MadeResult, ZenonT(30)
<1>13. CASE sub.changed = TRUE /\ f = 1
  <2>1. c.height - l.height \in {-1, 0, 1} /\ k + 1 = Higher(c.height, l.height) + 1
    BY <1>2, <1>5, <1>13 DEF Higher
  <2>2. /\ Avl(w) /\ w # Nil /\ Contents(w) = A
        /\ w.height = k + 1 /\ get_balance_factor(w) = c.height - l.height
    BY <1>1, <1>2, <1>8, <2>1, MadeNode
  <2>3. get_balance_factor(w) # 0
    BY <1>5, <1>13, <2>2
  <2> QED
    BY <1>1, <1>6, <1>10, <1>13, <2>2, <2>3, MadeResult, ZenonT(30)
<1>14. CASE sub.changed = TRUE /\ f = 2
  <2>1. c.height = l.height + 2 /\ k = c.height /\ get_balance_factor(c) # 0
    BY <1>2, <1>5, <1>14 DEF Higher
  <2>2. Turned(v, A, -1, get_balance_factor(c), c.height)
    BY <1>1, <1>2, <1>7, <2>1, RotatedLeft
  <2>3. Avl(v) /\ v # Nil /\ Contents(v) = A /\ v.height = k
    BY <2>1, <2>2 DEF Turned
  <2> QED
    BY <1>1, <1>6, <1>10, <1>14, <2>3, MadeResult, ZenonT(30)
<1>15. sub.changed = FALSE \/ (sub.changed = TRUE /\ f \in {0, 1, 2})
  BY <1>2, <1>5
<1> QED
  BY <1>11, <1>12, <1>13, <1>14, <1>15

\* After an insertion into the left subtree.
LEMMA AfterInsertLeft ==
  ASSUME NEW l, NEW h \in Holes, NEW height \in Nat, NEW r, NEW k, NEW sub, NEW S,
         Avl(r), After(Contents(r), h), r.height \in Nat,
         r.height - height \in {-1, 0, 1},
         k = Higher(r.height, height) + 1, Grown(sub, S, height), Before(S, h)
  PROVE  Grown(AfterInsert(Node(l, h, r, k), -1, sub), S \cup {h} \cup Contents(r), k)
<1>1. PICK c, u, t, A : /\ c = sub.tree /\ u = Node(c, h, r, k) /\ t = Node(l, h, r, k)
                        /\ A = S \cup {h} \cup Contents(r)
  OBVIOUS
<1>2. /\ Avl(c) /\ c # Nil /\ Contents(c) = S /\ sub.ok = TRUE /\ Before(Contents(c), h)
      /\ \/ sub.changed = FALSE /\ c.height = height
         \/ /\ sub.changed = TRUE /\ c.height = height + 1
            /\ height = 0 \/ get_balance_factor(c) # 0
  BY <1>1 DEF Grown
<1>3. u = WithChild(t, -1, sub.tree)
  <2>1. WithChild(Node(l, h, r, k), -1, c) = Node(c, h, r, k)
    BY NodeEdits
  <2> QED
    BY <1>1, <2>1
<1>4. u.left = c /\ u.right = r
  BY <1>1, NodeFields
<1>5. PICK f : f = c.height - r.height
  OBVIOUS
<1>a. f = (-1) * get_balance_factor(u)
  BY <1>2, <1>4, <1>5 DEF get_balance_factor
<1>6. PICK res : res = AfterInsert(t, -1, sub)
  OBVIOUS
<1>7. PICK v : v = Rotated(u, -1)
  OBVIOUS
<1>8. PICK w : w = Node(c, h, r, k + 1)
  OBVIOUS
<1>9. w = Raised(u)
  <2>1. Raised(Node(c, h, r, k)) = Node(c, h, r, k + 1)
    BY ONLY NodeHeights, ZenonT(30)
  <2> QED
    BY <1>1, <1>8, <2>1
<1>10. /\ sub.changed = FALSE => res = Result(u, FALSE, TRUE)
       /\ sub.changed = TRUE /\ f = 0 => res = Result(u, FALSE, TRUE)
       /\ sub.changed = TRUE /\ f = 1 => res = Result(w, TRUE, TRUE)
       /\ sub.changed = TRUE /\ f = 2 => res = Result(v, FALSE, TRUE)
  <2>1. sub.ok = TRUE
    BY <1>2
  <2> QED
    BY ONLY <1>3, <1>a, <1>6, <1>7, <1>9, <2>1, InsertCases, ZenonT(60)
<1>11. CASE sub.changed = FALSE
  <2>1. r.height - c.height \in {-1, 0, 1} /\ k = Higher(r.height, c.height) + 1
    BY <1>2, <1>11
  <2>2. Avl(u) /\ u # Nil /\ Contents(u) = A /\ u.height = k
    BY <1>1, <1>2, <2>1, MadeNode
  <2> QED
    BY <1>1, <1>6, <1>10, <1>11, <2>2, MadeResult, ZenonT(30)
<1>12. CASE sub.changed = TRUE /\ f = 0
  <2>1. r.height - c.height \in {-1, 0, 1} /\ k = Higher(r.height, c.height) + 1
    BY <1>2, <1>5, <1>12 DEF Higher
  <2>2. Avl(u) /\ u # Nil /\ Contents(u) = A /\ u.height = k
    BY <1>1, <1>2, <2>1, MadeNode
  <2> QED
    BY <1>1, <1>6, <1>10, <1>12, <2>2, MadeResult, ZenonT(30)
<1>13. CASE sub.changed = TRUE /\ f = 1
  <2>1. r.height - c.height \in {-1, 0, 1} /\ k + 1 = Higher(r.height, c.height) + 1
    BY <1>2, <1>5, <1>13 DEF Higher
  <2>2. /\ Avl(w) /\ w # Nil /\ Contents(w) = A
        /\ w.height = k + 1 /\ get_balance_factor(w) = r.height - c.height
    BY <1>1, <1>2, <1>8, <2>1, MadeNode
  <2>3. get_balance_factor(w) # 0
    BY <1>2, <1>5, <1>13, <2>2
  <2> QED
    BY <1>1, <1>6, <1>10, <1>13, <2>2, <2>3, MadeResult, ZenonT(30)
<1>14. CASE sub.changed = TRUE /\ f = 2
  <2>1. c.height = r.height + 2 /\ k = c.height /\ get_balance_factor(c) # 0
    BY <1>2, <1>5, <1>14 DEF Higher
  <2>2. Turned(v, A, 1, get_balance_factor(c), c.height)
    BY <1>1, <1>2, <1>7, <2>1, RotatedRight
  <2>3. Avl(v) /\ v # Nil /\ Contents(v) = A /\ v.height = k
    BY <2>1, <2>2 DEF Turned
  <2> QED
    BY <1>1, <1>6, <1>10, <1>14, <2>3, MadeResult, ZenonT(30)
<1>15. sub.changed = FALSE \/ (sub.changed = TRUE /\ f \in {0, 1, 2})
  BY <1>2, <1>5
<1> QED
  BY <1>11, <1>12, <1>13, <1>14, <1>15

\* After a removal from the right subtree.
LEMMA AfterRemoveRight ==
  ASSUME NEW l, NEW h \in Holes, NEW height \in Nat, NEW r, NEW k, NEW sub, NEW S,
         Avl(l), Before(Contents(l), h), l.height \in Nat,
         height - l.height \in {-1, 0, 1},
         k = Higher(height, l.height) + 1, Shrunk(sub, S, height), After(S, h)
  PROVE  Shrunk(AfterRemove(Node(l, h, r, k), 1, sub), Contents(l) \cup {h} \cup S, k)
<1>1. PICK c, u, t, A : /\ c = sub.tree /\ u = Node(l, h, c, k) /\ t = Node(l, h, r, k)
                        /\ A = Contents(l) \cup {h} \cup S
  OBVIOUS
<1>2. /\ Avl(c) /\ Contents(c) = S /\ sub.ok = TRUE /\ After(Contents(c), h)
      /\ \/ sub.changed = FALSE /\ c.height = height
         \/ sub.changed = TRUE /\ c.height = height - 1
  BY <1>1 DEF Shrunk
<1>b. c.height \in Nat
  BY <1>2, AvlHeight
<1>3. u = WithChild(t, 1, sub.tree)
  <2>1. WithChild(Node(l, h, r, k), 1, c) = Node(l, h, c, k)
    BY NodeEdits
  <2> QED
    BY <1>1, <2>1
<1>4. u.left = l /\ u.right = c
  BY <1>1, NodeFields
<1>5. PICK f : f = l.height - c.height
  OBVIOUS
<1>a. f = Opposite(1) * get_balance_factor(u)
  BY <1>b, <1>4, <1>5 DEF get_balance_factor, Opposite
<1>6. PICK res : res = AfterRemove(t, 1, sub)
  OBVIOUS
<1>7. PICK v : v = Rotated(u, -1)
  OBVIOUS
<1>8. PICK w : w = Node(l, h, c, k - 1)
  OBVIOUS
<1>9. w = Lowered(u)
  <2>1. Lowered(Node(l, h, c, k)) = Node(l, h, c, k - 1)
    BY ONLY NodeHeights, ZenonT(30)
  <2> QED
    BY <1>1, <1>8, <2>1
<1>c. v = Rotated(u, Opposite(1))
  BY <1>7 DEF Opposite
<1>10. /\ sub.changed = FALSE => res = Result(u, FALSE, TRUE)
       /\ sub.changed = TRUE /\ f = 0 => res = Result(w, TRUE, TRUE)
       /\ sub.changed = TRUE /\ f = 1 => res = Result(u, FALSE, TRUE)
       /\ sub.changed = TRUE /\ f = 2 => res = Result(v, Lower(v, 1), TRUE)
  <2>1. sub.ok = TRUE
    BY <1>2
  <2>2. PICK side : side = 1
    OBVIOUS
  <2>3. /\ u = WithChild(t, side, sub.tree) /\ f = Opposite(side) * get_balance_factor(u)
        /\ res = AfterRemove(t, side, sub) /\ v = Rotated(u, Opposite(side))
    BY ONLY <1>3, <1>a, <1>6, <1>c, <2>2
  <2>4. /\ sub.changed = FALSE => res = Result(u, FALSE, TRUE)
        /\ sub.changed = TRUE /\ f = 0 => res = Result(w, TRUE, TRUE)
        /\ sub.changed = TRUE /\ f = 1 => res = Result(u, FALSE, TRUE)
        /\ sub.changed = TRUE /\ f = 2 => res = Result(v, Lower(v, side), TRUE)
    BY ONLY <1>9, <2>1, <2>3, RemoveCases, ZenonT(60)
  <2> QED
    BY ONLY <2>2, <2>4
<1>11. CASE sub.changed = FALSE
  <2>1. c.height - l.height \in {-1, 0, 1} /\ k = Higher(c.height, l.height) + 1
    BY <1>2, <1>11
  <2>2. Avl(u) /\ Contents(u) = A /\ u.height = k
    <3>1. /\ Avl(Node(l, h, c, k)) /\ Node(l, h, c, k).height = k
          /\ Contents(Node(l, h, c, k)) = Contents(l) \cup {h} \cup Contents(c)
      BY <1>2, <2>1, MadeNode
    <3> QED
      BY <1>1, <1>2, <3>1
  <2> QED
    BY <1>1, <1>6, <1>10, <1>11, <2>2, MadeResult, ZenonT(30)
<1>12. CASE sub.changed = TRUE /\ f = 1
  <2>1. c.height - l.height \in {-1, 0, 1} /\ k = Higher(c.height, l.height) + 1
    BY <1>2, <1>5, <1>12 DEF Higher
  <2>2. Avl(u) /\ Contents(u) = A /\ u.height = k
    <3>1. /\ Avl(Node(l, h, c, k)) /\ Node(l, h, c, k).height = k
          /\ Contents(Node(l, h, c, k)) = Contents(l) \cup {h} \cup Contents(c)
      BY <1>2, <2>1, MadeNode
    <3> QED
      BY <1>1, <1>2, <3>1
  <2> QED
    BY <1>1, <1>6, <1>10, <1>12, <2>2, MadeResult, ZenonT(30)
<1>13. CASE sub.changed = TRUE /\ f = 0
  <2>1. c.height - l.height \in {-1, 0, 1} /\ k - 1 = Higher(c.height, l.height) + 1
    BY <1>2, <1>5, <1>13 DEF Higher
  <2>2. Avl(w) /\ Contents(w) = A /\ w.height = k - 1
    BY <1>1, <1>2, <1>8, <2>1, MadeNode
  <2> QED
    BY <1>1, <1>6, <1>10, <1>13, <2>2, MadeResult, ZenonT(30)
<1>14. CASE sub.changed = TRUE /\ f = 2
  <2>1. l.height = c.height + 2 /\ k = l.height + 1
    BY <1>2, <1>5, <1>14 DEF Higher
  <2>2. Turned(v, A, 1, get_balance_factor(l), l.height)
    BY <1>1, <1>2, <1>b, <1>7, <2>1, RotatedRight
  <2>3. Avl(v) /\ Contents(v) = A
    BY <2>2 DEF Turned
  <2>4. CASE get_balance_factor(l) = 0
    <3>a. v.height = k /\ get_balance_factor(v) = 1
      BY <2>1, <2>2, <2>4 DEF Turned
    <3>1. Lower(v, 1) = FALSE
      BY <3>a DEF Lower
    <3> QED
      BY <1>1, <1>6, <1>10, <1>14, <2>3, <3>a, <3>1, MadeResult, ZenonT(30)
  <2>5. CASE get_balance_factor(l) # 0
    <3>a. v.height = k - 1 /\ get_balance_factor(v) = 0
      BY <2>1, <2>2, <2>5 DEF Turned
    <3>1. Lower(v, 1) = TRUE
      BY <3>a DEF Lower
    <3> QED
      BY <1>1, <1>6, <1>10, <1>14, <2>3, <3>a, <3>1, MadeResult, ZenonT(30)
  <2> QED
    BY <2>4, <2>5
<1>15. sub.changed = FALSE \/ (sub.changed = TRUE /\ f \in {0, 1, 2})
  BY <1>2, <1>5
<1> QED
  BY <1>11, <1>12, <1>13, <1>14, <1>15

\* After a removal from the left subtree.
LEMMA AfterRemoveLeft ==
  ASSUME NEW l, NEW h \in Holes, NEW height \in Nat, NEW r, NEW k, NEW sub, NEW S,
         Avl(r), After(Contents(r), h), r.height \in Nat,
         r.height - height \in {-1, 0, 1},
         k = Higher(r.height, height) + 1, Shrunk(sub, S, height), Before(S, h)
  PROVE  Shrunk(AfterRemove(Node(l, h, r, k), -1, sub), S \cup {h} \cup Contents(r), k)
<1>1. PICK c, u, t, A : /\ c = sub.tree /\ u = Node(c, h, r, k) /\ t = Node(l, h, r, k)
                        /\ A = S \cup {h} \cup Contents(r)
  OBVIOUS
<1>2. /\ Avl(c) /\ Contents(c) = S /\ sub.ok = TRUE /\ Before(Contents(c), h)
      /\ \/ sub.changed = FALSE /\ c.height = height
         \/ sub.changed = TRUE /\ c.height = height - 1
  BY <1>1 DEF Shrunk
<1>b. c.height \in Nat
  BY <1>2, AvlHeight
<1>3. u = WithChild(t, -1, sub.tree)
  <2>1. WithChild(Node(l, h, r, k), -1, c) = Node(c, h, r, k)
    BY NodeEdits
  <2> QED
    BY <1>1, <2>1
<1>4. u.left = c /\ u.right = r
  BY <1>1, NodeFields
<1>5. PICK f : f = r.height - c.height
  OBVIOUS
<1>a. f = Opposite(-1) * get_balance_factor(u)
  BY <1>b, <1>4, <1>5 DEF get_balance_factor, Opposite
<1>6. PICK res : res = AfterRemove(t, -1, sub)
  OBVIOUS
<1>7. PICK v : v = Rotated(u, 1)
  OBVIOUS
<1>8. PICK w : w = Node(c, h, r, k - 1)
  OBVIOUS
<1>9. w = Lowered(u)
  <2>1. Lowered(Node(c, h, r, k)) = Node(c, h, r, k - 1)
    BY ONLY NodeHeights, ZenonT(30)
  <2> QED
    BY <1>1, <1>8, <2>1
<1>c. v = Rotated(u, Opposite(-1))
  BY <1>7 DEF Opposite
<1>10. /\ sub.changed = FALSE => res = Result(u, FALSE, TRUE)
       /\ sub.changed = TRUE /\ f = 0 => res = Result(w, TRUE, TRUE)
       /\ sub.changed = TRUE /\ f = 1 => res = Result(u, FALSE, TRUE)
       /\ sub.changed = TRUE /\ f = 2 => res = Result(v, Lower(v, -1), TRUE)
  <2>1. sub.ok = TRUE
    BY <1>2
  <2> QED
    BY ONLY <1>3, <1>a, <1>6, <1>c, <1>9, <2>1, RemoveCases, ZenonT(60)
<1>11. CASE sub.changed = FALSE
  <2>1. r.height - c.height \in {-1, 0, 1} /\ k = Higher(r.height, c.height) + 1
    BY <1>2, <1>11
  <2>2. Avl(u) /\ Contents(u) = A /\ u.height = k
    <3>1. /\ Avl(Node(c, h, r, k)) /\ Node(c, h, r, k).height = k
          /\ Contents(Node(c, h, r, k)) = Contents(c) \cup {h} \cup Contents(r)
      BY <1>2, <2>1, MadeNode
    <3> QED
      BY <1>1, <1>2, <3>1
  <2> QED
    BY <1>1, <1>6, <1>10, <1>11, <2>2, MadeResult, ZenonT(30)
<1>12. CASE sub.changed = TRUE /\ f = 1
  <2>1. r.height - c.height \in {-1, 0, 1} /\ k = Higher(r.height, c.height) + 1
    BY <1>2, <1>5, <1>12 DEF Higher
  <2>2. Avl(u) /\ Contents(u) = A /\ u.height = k
    <3>1. /\ Avl(Node(c, h, r, k)) /\ Node(c, h, r, k).height = k
          /\ Contents(Node(c, h, r, k)) = Contents(c) \cup {h} \cup Contents(r)
      BY <1>2, <2>1, MadeNode
    <3> QED
      BY <1>1, <1>2, <3>1
  <2> QED
    BY <1>1, <1>6, <1>10, <1>12, <2>2, MadeResult, ZenonT(30)
<1>13. CASE sub.changed = TRUE /\ f = 0
  <2>1. r.height - c.height \in {-1, 0, 1} /\ k - 1 = Higher(r.height, c.height) + 1
    BY <1>2, <1>5, <1>13 DEF Higher
  <2>2. Avl(w) /\ Contents(w) = A /\ w.height = k - 1
    BY <1>1, <1>2, <1>8, <2>1, MadeNode
  <2> QED
    BY <1>1, <1>6, <1>10, <1>13, <2>2, MadeResult, ZenonT(30)
<1>14. CASE sub.changed = TRUE /\ f = 2
  <2>1. r.height = c.height + 2 /\ k = r.height + 1
    BY <1>2, <1>5, <1>14 DEF Higher
  <2>2. Turned(v, A, -1, get_balance_factor(r), r.height)
    BY <1>1, <1>2, <1>b, <1>7, <2>1, RotatedLeft
  <2>3. Avl(v) /\ Contents(v) = A
    BY <2>2 DEF Turned
  <2>4. CASE get_balance_factor(r) = 0
    <3>a. v.height = k /\ get_balance_factor(v) = -1
      BY <2>1, <2>2, <2>4 DEF Turned
    <3>1. Lower(v, -1) = FALSE
      BY <3>a DEF Lower
    <3> QED
      BY <1>1, <1>6, <1>10, <1>14, <2>3, <3>a, <3>1, MadeResult, ZenonT(30)
  <2>5. CASE get_balance_factor(r) # 0
    <3>a. v.height = k - 1 /\ get_balance_factor(v) = 0
      BY <2>1, <2>2, <2>5 DEF Turned
    <3>1. Lower(v, -1) = TRUE
      BY <3>a DEF Lower
    <3> QED
      BY <1>1, <1>6, <1>10, <1>14, <2>3, <3>a, <3>1, MadeResult, ZenonT(30)
  <2> QED
    BY <2>4, <2>5
<1>15. sub.changed = FALSE \/ (sub.changed = TRUE /\ f \in {0, 1, 2})
  BY <1>2, <1>5
<1> QED
  BY <1>11, <1>12, <1>13, <1>14, <1>15

-----------------------------------------------------------------------------
\* Insertion.

\* The subtrees of an AVL tree of one level belong to the level below.
LEMMA AvlSubtrees ==
  ASSUME NEW n \in Nat, NEW t \in AvlTrees[n + 1]
  PROVE  /\ t \in Trees[n + 1] /\ Avl(t)
         /\ t # Nil => t.left \in AvlTrees[n] /\ t.right \in AvlTrees[n]
<1>1. n + 1 \in Nat /\ (n + 1) - 1 = n
  OBVIOUS
<1>2. t \in AvlStep(n + 1, AvlTrees[n])
  BY <1>1, AvlDef
<1>3. t \in Trees[n + 1] /\ (t # Nil => t.left \in AvlTrees[n] /\ t.right \in AvlTrees[n])
  BY <1>2, Zenon DEF AvlStep
<1> QED
  BY <1>1, <1>3, AvlLevel

\* The only AVL tree without levels.
LEMMA AvlZero == \A t \in AvlTrees[0] : t = Nil
BY AvlDef, TreesZero DEF AvlStep

\* insert_internal on a null pointer makes a leaf.
LEMMA InsertNil ==
  ASSUME NEW n \in Nat, NEW hole \in Holes
  PROVE  Grown(insert_internal[n][Nil][hole], {hole}, 0)
<1>1. PICK w : w = Node(Nil, hole, Nil, 1)
  OBVIOUS
<1>2. insert_internal[n][Nil][hole] = Result(w, TRUE, TRUE)
  <2>1. PICK B : insert_internal[n] = InsertStep(n, B)
    BY InsertDef
  <2>2. Nil \in Trees[n]
    BY NilTree
  <2>3. InsertStep(n, B)[Nil]
          = [g \in Holes |-> Result(Node(Nil, g, Nil, 1), TRUE, TRUE)]
    BY <2>2, Zenon DEF InsertStep
  <2>4. InsertStep(n, B)[Nil][hole] = Result(Node(Nil, hole, Nil, 1), TRUE, TRUE)
    BY <2>3
  <2> QED
    BY <1>1, <2>1, <2>4
<1>3. Avl(w) /\ w # Nil /\ Contents(w) = {hole} /\ w.height = 1
  <2>1. /\ Nil.height - Nil.height \in {-1, 0, 1} /\ 1 = Higher(Nil.height, Nil.height) + 1
        /\ Avl(Nil) /\ Contents(Nil) = {} /\ Before(Contents(Nil), hole) /\ After(Contents(Nil), hole)
    BY AvlNil DEF Higher, Before, After
  <2>2. /\ Avl(Node(Nil, hole, Nil, 1)) /\ Node(Nil, hole, Nil, 1) # Nil
        /\ Contents(Node(Nil, hole, Nil, 1)) = Contents(Nil) \cup {hole} \cup Contents(Nil)
        /\ Node(Nil, hole, Nil, 1).height = 1
    BY <2>1, MadeNode
  <2> QED
    BY <1>1, <2>1, <2>2
<1>4. PICK res : res = Result(w, TRUE, TRUE)
  OBVIOUS
<1>5. res.tree = w /\ res.changed = TRUE /\ res.ok = TRUE
  BY <1>4 DEF Result
<1>6. Grown(res, {hole}, 0)
  BY <1>3, <1>5 DEF Grown
<1> QED
  BY <1>2, <1>4, <1>6

\* insert_internal on a node goes down on the side of the hole.
LEMMA InsertNode ==
  ASSUME NEW n \in Nat, NEW t \in Trees[n + 1], t # Nil, NEW hole \in Holes, hole # t.hole
  PROVE  insert_internal[n + 1][t][hole]
           = AfterInsert(t, SideOf(t, hole), insert_internal[n][Child(t, SideOf(t, hole))][hole])
<1>1. n + 1 \in Nat /\ (n + 1) - 1 = n
  OBVIOUS
<1>2. insert_internal[n + 1] = InsertStep(n + 1, insert_internal[n])
  BY <1>1, InsertDef
<1> QED
  BY <1>2 DEF InsertStep

\* A hole that is not in the tree is inserted: the tree is an AVL tree with
\* one hole more, its height is stored right, and no assertion fails.
LEMMA InsertGrows ==
  \A n \in Nat : \A t \in AvlTrees[n] : \A hole \in Holes \ Contents(t) :
    Grown(insert_internal[n][t][hole], Contents(t) \cup {hole}, t.height)
<1> DEFINE P(n) == \A t \in AvlTrees[n] : \A hole \in Holes \ Contents(t) :
                     Grown(insert_internal[n][t][hole], Contents(t) \cup {hole}, t.height)
           S == {n \in Nat : P(n)}
<1>0. ASSUME NEW n \in Nat, NEW hole \in Holes
      PROVE  Grown(insert_internal[n][Nil][hole], Contents(Nil) \cup {hole}, Nil.height)
  <2>1. Contents(Nil) \cup {hole} = {hole} /\ Nil.height = 0
    BY AvlNil
  <2> QED
    BY <2>1, InsertNil
<1>1. 0 \in S
  BY <1>0, AvlZero
<1>2. ASSUME NEW n \in Nat, n \in S PROVE n + 1 \in S
  <2>1. n + 1 \in Nat
    OBVIOUS
  <2>2. ASSUME NEW t \in AvlTrees[n + 1], NEW hole \in Holes \ Contents(t)
        PROVE  Grown(insert_internal[n + 1][t][hole], Contents(t) \cup {hole}, t.height)
    <3>1. CASE t = Nil
      BY <1>0, <2>1, <3>1
    <3>2. CASE t # Nil
      <4>1. t \in Trees[n + 1] /\ Avl(t) /\ t.left \in AvlTrees[n] /\ t.right \in AvlTrees[n]
        BY <3>2, AvlSubtrees
      <4>2. PICK l, h, r, k : l = t.left /\ h = t.hole /\ r = t.right /\ k = t.height
        OBVIOUS
      <4>3. t = Node(l, h, r, k)
        BY <3>2, <4>1, <4>2, AvlNode
      <4>4. /\ Avl(l) /\ Avl(r) /\ h \in Holes /\ l.height \in Nat /\ r.height \in Nat
            /\ r.height - l.height \in {-1, 0, 1} /\ k = Higher(l.height, r.height) + 1
            /\ Contents(l) \subseteq Holes /\ Contents(r) \subseteq Holes
            /\ Before(Contents(l), h) /\ After(Contents(r), h)
            /\ Contents(t) = Contents(l) \cup {h} \cup Contents(r)
        BY <3>2, <4>1, <4>2, SplitNode
      <4>5. hole \in Holes /\ hole # h /\ hole \notin Contents(l) /\ hole \notin Contents(r)
        BY <4>4
      <4>6. k = Higher(r.height, l.height) + 1
        BY <4>4 DEF Higher
      <4>7. PICK res : res = insert_internal[n + 1][t][hole]
        OBVIOUS
      <4>8. res = AfterInsert(t, SideOf(t, hole), insert_internal[n][Child(t, SideOf(t, hole))][hole])
        BY <3>2, <4>1, <4>2, <4>5, <4>7, InsertNode
      <4>9. CASE HoleLess(h, hole)
        <5>1. SideOf(t, hole) = 1 /\ Child(t, 1) = r
          BY <4>2, <4>9 DEF SideOf, Child
        <5>2. PICK sub, T : sub = insert_internal[n][r][hole] /\ T = Contents(r) \cup {hole}
          OBVIOUS
        <5>3. Grown(sub, T, r.height)
          BY <1>2, <4>1, <4>2, <4>5, <5>2
        <5>4. After(T, h)
          BY <4>4, <4>9, <5>2 DEF After
        <5>5. res = AfterInsert(Node(l, h, r, k), 1, sub)
          BY <4>3, <4>8, <5>1, <5>2
        <5>6. Grown(AfterInsert(Node(l, h, r, k), 1, sub), Contents(l) \cup {h} \cup T, k)
          BY <4>4, <4>6, <5>3, <5>4, AfterInsertRight
        <5>7. Contents(l) \cup {h} \cup T = Contents(t) \cup {hole}
          BY <4>4, <5>2
        <5> QED
          BY <4>2, <4>7, <5>5, <5>6, <5>7
      <4>10. CASE ~HoleLess(h, hole)
        <5>1. SideOf(t, hole) = -1 /\ Child(t, -1) = l
          BY <4>2, <4>10 DEF SideOf, Child
        <5>2. PICK sub, T : sub = insert_internal[n][l][hole] /\ T = Contents(l) \cup {hole}
          OBVIOUS
        <5>3. Grown(sub, T, l.height)
          BY <1>2, <4>1, <4>2, <4>5, <5>2
        <5>a. HoleLess(hole, h)
          BY <4>4, <4>5, <4>10, HoleOrder
        <5>4. Before(T, h)
          BY <4>4, <5>a, <5>2 DEF Before
        <5>5. res = AfterInsert(Node(l, h, r, k), -1, sub)
          BY <4>3, <4>8, <5>1, <5>2
        <5>6. Grown(AfterInsert(Node(l, h, r, k), -1, sub), T \cup {h} \cup Contents(r), k)
          BY <4>4, <4>6, <5>3, <5>4, AfterInsertLeft
        <5>7. T \cup {h} \cup Contents(r) = Contents(t) \cup {hole}
          BY <4>4, <5>2
        <5> QED
          BY <4>2, <4>7, <5>5, <5>6, <5>7
      <4> QED
        BY <4>9, <4>10
    <3> QED
      BY <3>1, <3>2
  <2> QED
    BY <2>1, <2>2
<1>3. \A n \in Nat : n \in S
  <2> HIDE DEF S
  <2> QED
    BY <1>1, <1>2, TreesRec!SetInduction
<1> QED
  BY <1>3

\* kalloc_avl_insert of a hole that the tree does not have.
LEMMA InsertedTree ==
  ASSUME NEW t, Avl(t), NEW hole \in Holes \ Contents(t)
  PROVE  /\ Inserted(t, hole).ok = TRUE /\ Avl(Inserted(t, hole).tree)
         /\ Contents(Inserted(t, hole).tree) = Contents(t) \cup {hole}
<1>1. t.height \in Nat /\ t \in AvlTrees[t.height]
  BY AvlHeight
<1>2. Grown(insert_internal[t.height][t][hole], Contents(t) \cup {hole}, t.height)
  BY <1>1, InsertGrows
<1> QED
  BY <1>2 DEF Inserted, Grown

-----------------------------------------------------------------------------
\* Removal.

\* find_predecessor ends at the last hole of the left subtree.
LEMMA RightMostLast ==
  \A n \in Nat : \A t \in AvlTrees[n] \ {Nil} :
    /\ RightMost[n][t] \in Contents(t)
    /\ Before(Contents(t) \ {RightMost[n][t]}, RightMost[n][t])
<1> DEFINE P(n) == \A t \in AvlTrees[n] \ {Nil} :
                     /\ RightMost[n][t] \in Contents(t)
                     /\ Before(Contents(t) \ {RightMost[n][t]}, RightMost[n][t])
           S == {n \in Nat : P(n)}
<1>1. 0 \in S
  BY AvlZero
<1>2. ASSUME NEW n \in Nat, n \in S PROVE n + 1 \in S
  <2>1. n + 1 \in Nat /\ (n + 1) - 1 = n
    OBVIOUS
  <2>2. RightMost[n + 1] = RightMostStep(n + 1, RightMost[n])
    BY <2>1, RightMostDef
  <2>3. ASSUME NEW t \in AvlTrees[n + 1] \ {Nil}
        PROVE  /\ RightMost[n + 1][t] \in Contents(t)
               /\ Before(Contents(t) \ {RightMost[n + 1][t]}, RightMost[n + 1][t])
    <3>1. t \in Trees[n + 1] \ {Nil} /\ Avl(t) /\ t.right \in AvlTrees[n]
      BY AvlSubtrees
    <3>2. PICK l, h, r, last : l = t.left /\ h = t.hole /\ r = t.right /\ last = RightMost[n + 1][t]
      OBVIOUS
    <3>3. last = IF r = Nil THEN h ELSE RightMost[n][r]
      BY <2>2, <3>1, <3>2 DEF RightMostStep
    <3>4. /\ h \in Holes /\ Contents(l) \subseteq Holes /\ Contents(r) \subseteq Holes
          /\ Before(Contents(l), h) /\ After(Contents(r), h)
          /\ Contents(t) = Contents(l) \cup {h} \cup Contents(r)
      BY <3>1, <3>2, SplitNode
    <3>5. CASE r = Nil
      <4>1. last = h /\ Contents(r) = {}
        BY <3>3, <3>5, AvlNil
      <4>2. last \in Contents(t) /\ Before(Contents(t) \ {last}, last)
        BY <3>4, <4>1 DEF Before
      <4> QED
        BY <3>2, <4>2
    <3>6. CASE r # Nil
      <4>1. last = RightMost[n][r] /\ r \in AvlTrees[n] \ {Nil}
        BY <3>1, <3>2, <3>3, <3>6
      <4>2. last \in Contents(r) /\ Before(Contents(r) \ {last}, last)
        BY <1>2, <4>1
      <4>3. HoleLess(h, last) /\ last \in Holes
        BY <3>4, <4>2 DEF After
      <4>4. Before(Contents(l), last)
        BY <3>4, <4>3, BeforeThrough
      <4>5. last \in Contents(t) /\ Before(Contents(t) \ {last}, last)
        BY <3>4, <4>2, <4>3, <4>4 DEF Before
      <4> QED
        BY <3>2, <4>5
    <3> QED
      BY <3>5, <3>6
  <2> QED
    BY <2>1, <2>3
<1>3. \A n \in Nat : n \in S
  <2> HIDE DEF S
  <2> QED
    BY <1>1, <1>2, TreesRec!SetInduction
<1> QED
  BY <1>3

\* A tree of one level is a leaf.
LEMMA LeafContents ==
  ASSUME NEW t, Avl(t), t.height = 1
  PROVE  t # Nil /\ t.hole \in Holes /\ Contents(t) = {t.hole}
<1>1. t # Nil
  BY AvlNil
<1>2. /\ Avl(t.left) /\ Avl(t.right) /\ t.hole \in Holes
      /\ t.left.height \in Nat /\ t.right.height \in Nat
      /\ t.height = Higher(t.left.height, t.right.height) + 1
      /\ Contents(t) = Contents(t.left) \cup {t.hole} \cup Contents(t.right)
  BY <1>1, SplitNode
<1>3. t.left.height = 0 /\ t.right.height = 0
  BY <1>2 DEF Higher
<1>4. t.left = Nil /\ t.right = Nil
  BY <1>2, <1>3, AvlHeight
<1> QED
  BY <1>1, <1>2, <1>4, AvlNil

\* A leaf made by remove_internal in place of a node with one child.
LEMMA LeafTree ==
  ASSUME NEW hole \in Holes
  PROVE  /\ Avl(Node(Nil, hole, Nil, 1)) /\ Contents(Node(Nil, hole, Nil, 1)) = {hole}
         /\ Node(Nil, hole, Nil, 1).height = 1
<1>1. /\ Nil.height - Nil.height \in {-1, 0, 1} /\ 1 = Higher(Nil.height, Nil.height) + 1
      /\ Avl(Nil) /\ Contents(Nil) = {} /\ Before(Contents(Nil), hole) /\ After(Contents(Nil), hole)
  BY AvlNil DEF Higher, Before, After
<1>2. /\ Avl(Node(Nil, hole, Nil, 1))
      /\ Contents(Node(Nil, hole, Nil, 1)) = Contents(Nil) \cup {hole} \cup Contents(Nil)
      /\ Node(Nil, hole, Nil, 1).height = 1
  BY <1>1, MadeNode
<1> QED
  BY <1>1, <1>2

\* The cases of remove_internal on a node.
LEMMA RemoveNode ==
  ASSUME NEW n \in Nat, NEW t \in Trees[n + 1], t # Nil, NEW hole \in Holes, NEW res,
         res = remove_internal[n + 1][t][hole]
  PROVE  /\ hole # t.hole
              => res = AfterRemove(t, SideOf(t, hole),
                                   remove_internal[n][Child(t, SideOf(t, hole))][hole])
         /\ hole = t.hole /\ t.left = Nil /\ t.right = Nil => res = Result(Nil, TRUE, TRUE)
         /\ hole = t.hole /\ t.left = Nil /\ t.right # Nil
              => res = Result(Node(Nil, t.right.hole, Nil, t.height - 1), TRUE, TRUE)
         /\ hole = t.hole /\ t.left # Nil /\ t.right = Nil
              => res = Result(Node(Nil, t.left.hole, Nil, t.height - 1), TRUE, TRUE)
         /\ hole = t.hole /\ t.left # Nil /\ t.right # Nil
              => res = AfterRemove(Node(t.left, RightMost[n][t.left], t.right, t.height), -1,
                                   remove_internal[n][t.left][RightMost[n][t.left]])
<1>1. n + 1 \in Nat /\ (n + 1) - 1 = n
  OBVIOUS
<1>2. remove_internal[n + 1] = RemoveStep(n + 1, remove_internal[n])
  BY <1>1, RemoveDef
<1>3. PICK heir : heir = find_predecessor(t, n)
  OBVIOUS
<1>4. heir = RightMost[n][t.left]
  BY <1>3 DEF find_predecessor
<1>5. PICK u : u = WithHole(t, heir)
  OBVIOUS
<1>6. u = Node(t.left, heir, t.right, t.height) /\ u.left = t.left
  <2>1. t = Node(t.left, t.hole, t.right, t.height)
    BY <1>1, TreeFields
  <2>2. PICK l, h, r, k : l = t.left /\ h = t.hole /\ r = t.right /\ k = t.height
    OBVIOUS
  <2>3. t = Node(l, h, r, k)
    BY <2>1, <2>2
  <2>4. u = [Node(l, h, r, k) EXCEPT !.hole = heir]
    BY <1>5, <2>3 DEF WithHole
  <2>5. u = Node(l, heir, r, k)
    BY <2>4 DEF Node
  <2> QED
    BY <2>2, <2>5, NodeFields
<1>7. PICK up : up = AfterRemove(u, -1, remove_internal[n][u.left][heir])
  OBVIOUS
<1>8. res = IF hole # t.hole
            THEN AfterRemove(t, SideOf(t, hole),
                             remove_internal[n][Child(t, SideOf(t, hole))][hole])
            ELSE IF t.left = Nil /\ t.right = Nil THEN Result(Nil, TRUE, TRUE)
            ELSE IF t.left = Nil
                 THEN Result(Node(Nil, t.right.hole, Nil, t.height - 1), TRUE, TRUE)
            ELSE IF t.right = Nil
                 THEN Result(Node(Nil, t.left.hole, Nil, t.height - 1), TRUE, TRUE)
            ELSE up
  <2>1. res = RemoveAt(n + 1, remove_internal[n], t, hole)
    BY <1>2 DEF RemoveStep
  <2>2. PICK m, B : m = n + 1 /\ B = remove_internal[n]
    OBVIOUS
  <2>3. m - 1 = n /\ res = RemoveAt(m, B, t, hole)
    BY <1>1, <2>1, <2>2
  <2>4. heir = find_predecessor(t, m - 1) /\ up = AfterRemove(u, -1, B[u.left][heir])
    BY <1>3, <1>7, <2>2, <2>3
  <2>5. RemoveAt(m, B, t, hole) =
          IF hole # t.hole
          THEN AfterRemove(t, SideOf(t, hole), B[Child(t, SideOf(t, hole))][hole])
          ELSE IF t.left = Nil /\ t.right = Nil THEN Result(Nil, TRUE, TRUE)
          ELSE IF t.left = Nil
               THEN Result(Node(Nil, t.right.hole, Nil, t.height - 1), TRUE, TRUE)
          ELSE IF t.right = Nil
               THEN Result(Node(Nil, t.left.hole, Nil, t.height - 1), TRUE, TRUE)
          ELSE up
    BY <1>5, <2>4, Zenon DEF RemoveAt
  <2> QED
    BY <2>2, <2>3, <2>5
<1>9. up = AfterRemove(Node(t.left, heir, t.right, t.height), -1, remove_internal[n][t.left][heir])
  BY <1>6, <1>7
<1>10. PICK a, b, c, d : /\ a = AfterRemove(t, SideOf(t, hole),
                                   remove_internal[n][Child(t, SideOf(t, hole))][hole])
                         /\ b = Result(Nil, TRUE, TRUE)
                         /\ c = Result(Node(Nil, t.right.hole, Nil, t.height - 1), TRUE, TRUE)
                         /\ d = Result(Node(Nil, t.left.hole, Nil, t.height - 1), TRUE, TRUE)
  OBVIOUS
<1>11. res = IF hole # t.hole THEN a
             ELSE IF t.left = Nil /\ t.right = Nil THEN b
             ELSE IF t.left = Nil THEN c ELSE IF t.right = Nil THEN d ELSE up
  BY ONLY <1>8, <1>10
<1>12. /\ hole # t.hole => res = a
       /\ hole = t.hole /\ t.left = Nil /\ t.right = Nil => res = b
       /\ hole = t.hole /\ t.left = Nil /\ t.right # Nil => res = c
       /\ hole = t.hole /\ t.left # Nil /\ t.right = Nil => res = d
       /\ hole = t.hole /\ t.left # Nil /\ t.right # Nil => res = up
  BY ONLY <1>11
<1> QED
  BY ONLY <1>4, <1>9, <1>10, <1>12, Zenon

\* The parts of a node that a call of insert_internal or remove_internal finds.
LEMMA NodeParts ==
  ASSUME NEW t, Avl(t), t # Nil, NEW l, NEW h, NEW r, NEW k,
         l = t.left, h = t.hole, r = t.right, k = t.height
  PROVE  /\ t = Node(l, h, r, k)
         /\ Avl(l) /\ Avl(r) /\ h \in Holes /\ l.height \in Nat /\ r.height \in Nat
         /\ r.height - l.height \in {-1, 0, 1} /\ k = Higher(r.height, l.height) + 1
         /\ Contents(l) \subseteq Holes /\ Contents(r) \subseteq Holes
         /\ Before(Contents(l), h) /\ After(Contents(r), h)
         /\ Contents(t) = Contents(l) \cup {h} \cup Contents(r)
         /\ h \notin Contents(l) /\ h \notin Contents(r)
<1>1. t = Node(l, h, r, k)
  BY AvlNode
<1>2. /\ Avl(l) /\ Avl(r) /\ h \in Holes /\ l.height \in Nat /\ r.height \in Nat
      /\ r.height - l.height \in {-1, 0, 1} /\ k = Higher(l.height, r.height) + 1
      /\ Contents(l) \subseteq Holes /\ Contents(r) \subseteq Holes
      /\ Before(Contents(l), h) /\ After(Contents(r), h)
      /\ Contents(t) = Contents(l) \cup {h} \cup Contents(r)
  BY SplitNode
<1>3. k = Higher(r.height, l.height) + 1
  BY <1>2 DEF Higher
<1>4. h \notin Contents(l) /\ h \notin Contents(r)
  BY <1>2, HoleOrder DEF Before, After
<1> QED
  BY <1>1, <1>2, <1>3, <1>4

\* The node that holds the hole is removed, or the hole of its predecessor is
\* moved into it and removed below it.
LEMMA RemoveHere ==
  ASSUME NEW n \in Nat, NEW t \in AvlTrees[n + 1], t # Nil,
         \A u \in AvlTrees[n] : \A g \in Contents(u) :
           Shrunk(remove_internal[n][u][g], Contents(u) \ {g}, u.height)
  PROVE  Shrunk(remove_internal[n + 1][t][t.hole], Contents(t) \ {t.hole}, t.height)
<1>1. t \in Trees[n + 1] /\ Avl(t) /\ t.left \in AvlTrees[n] /\ t.right \in AvlTrees[n]
  BY AvlSubtrees
<1>2. PICK l, h, r, k : l = t.left /\ h = t.hole /\ r = t.right /\ k = t.height
  OBVIOUS
<1>3. /\ t = Node(l, h, r, k)
      /\ Avl(l) /\ Avl(r) /\ h \in Holes /\ l.height \in Nat /\ r.height \in Nat
      /\ r.height - l.height \in {-1, 0, 1} /\ k = Higher(r.height, l.height) + 1
      /\ Contents(l) \subseteq Holes /\ Contents(r) \subseteq Holes
      /\ Before(Contents(l), h) /\ After(Contents(r), h)
      /\ Contents(t) = Contents(l) \cup {h} \cup Contents(r)
      /\ h \notin Contents(l) /\ h \notin Contents(r)
  BY <1>1, <1>2, NodeParts
<1>4. PICK res, A : res = remove_internal[n + 1][t][h] /\ A = Contents(t) \ {h}
  OBVIOUS
<1>5. A = Contents(l) \cup Contents(r)
  BY <1>3, <1>4
<1>6. PICK heir : heir = RightMost[n][l]
  OBVIOUS
<1>7. /\ l = Nil /\ r = Nil => res = Result(Nil, TRUE, TRUE)
      /\ l = Nil /\ r # Nil => res = Result(Node(Nil, r.hole, Nil, k - 1), TRUE, TRUE)
      /\ l # Nil /\ r = Nil => res = Result(Node(Nil, l.hole, Nil, k - 1), TRUE, TRUE)
      /\ l # Nil /\ r # Nil
           => res = AfterRemove(Node(l, heir, r, k), -1, remove_internal[n][l][heir])
  <2>1. t \in Trees[n + 1] /\ h \in Holes /\ h = t.hole
    BY <1>1, <1>2, <1>3
  <2>2. CASE l = Nil /\ r = Nil
    <3>1. res = Result(Nil, TRUE, TRUE)
      <4>1. /\ n \in Nat /\ t # Nil /\ t \in Trees[n + 1] /\ h \in Holes
            /\ res = remove_internal[n + 1][t][h]
            /\ h = t.hole /\ t.left = Nil /\ t.right = Nil
        BY <1>2, <1>4, <2>1, <2>2
      <4> QED
        BY ONLY <4>1, RemoveNode, ZenonT(120)
    <3> QED
      BY <2>2, <3>1
  <2>3. CASE l = Nil /\ r # Nil
    <3>1. res = Result(Node(Nil, t.right.hole, Nil, t.height - 1), TRUE, TRUE)
      BY <1>2, <1>4, <2>1, <2>3, RemoveNode
    <3> QED
      BY <1>2, <2>3, <3>1
  <2>4. CASE l # Nil /\ r = Nil
    <3>1. res = Result(Node(Nil, t.left.hole, Nil, t.height - 1), TRUE, TRUE)
      BY <1>2, <1>4, <2>1, <2>4, RemoveNode
    <3> QED
      BY <1>2, <2>4, <3>1
  <2>5. CASE l # Nil /\ r # Nil
    <3>1. res = AfterRemove(Node(t.left, RightMost[n][t.left], t.right, t.height), -1,
                            remove_internal[n][t.left][RightMost[n][t.left]])
      BY <1>2, <1>4, <2>1, <2>5, RemoveNode, ZenonT(60)
    <3> QED
      BY <1>2, <1>6, <2>5, <3>1
  <2> QED
    BY <2>2, <2>3, <2>4, <2>5
<1>8. CASE l = Nil /\ r = Nil
  <2>1. Avl(Nil) /\ Contents(Nil) = A /\ Nil.height = k - 1
    BY <1>3, <1>5, <1>8, AvlNil DEF Higher
  <2>2. Shrunk(res, A, k)
    BY <1>7, <1>8, <2>1, MadeResult, ZenonT(30)
  <2> QED
    BY <1>2, <1>4, <2>2
<1>9. CASE l = Nil /\ r # Nil
  <2>1. l.height = 0 /\ r.height # 0 /\ Contents(l) = {}
    BY <1>3, <1>9, AvlNil, AvlHeight
  <2>2. r.height = 1 /\ k - 1 = 1
    BY <1>3, <2>1 DEF Higher
  <2>3. r.hole \in Holes /\ A = {r.hole}
    BY <1>3, <1>5, <2>1, <2>2, LeafContents
  <2>4. PICK w : w = Node(Nil, r.hole, Nil, 1)
    OBVIOUS
  <2>5. Avl(w) /\ Contents(w) = A /\ w.height = k - 1
    BY <2>2, <2>3, <2>4, LeafTree
  <2>6. res = Result(w, TRUE, TRUE)
    BY <1>7, <1>9, <2>2, <2>4
  <2>7. Shrunk(res, A, k)
    BY <2>5, <2>6, MadeResult, ZenonT(30)
  <2> QED
    BY <1>2, <1>4, <2>7
<1>10. CASE l # Nil /\ r = Nil
  <2>1. r.height = 0 /\ l.height # 0 /\ Contents(r) = {}
    BY <1>3, <1>10, AvlNil, AvlHeight
  <2>2. l.height = 1 /\ k - 1 = 1
    BY <1>3, <2>1 DEF Higher
  <2>3. l.hole \in Holes /\ A = {l.hole}
    BY <1>3, <1>5, <2>1, <2>2, LeafContents
  <2>4. PICK w : w = Node(Nil, l.hole, Nil, 1)
    OBVIOUS
  <2>5. Avl(w) /\ Contents(w) = A /\ w.height = k - 1
    BY <2>2, <2>3, <2>4, LeafTree
  <2>6. res = Result(w, TRUE, TRUE)
    BY <1>7, <1>10, <2>2, <2>4
  <2>7. Shrunk(res, A, k)
    BY <2>5, <2>6, MadeResult, ZenonT(30)
  <2> QED
    BY <1>2, <1>4, <2>7
<1>11. CASE l # Nil /\ r # Nil
  <2>1. l \in AvlTrees[n] \ {Nil}
    BY <1>1, <1>2, <1>11
  <2>2. heir \in Contents(l) /\ Before(Contents(l) \ {heir}, heir)
    BY <1>6, <2>1, RightMostLast
  <2>3. HoleLess(heir, h) /\ heir \in Holes
    BY <1>3, <2>2 DEF Before
  <2>4. After(Contents(r), heir)
    BY <1>3, <2>3, BeforeThrough
  <2>5. PICK sub, T : sub = remove_internal[n][l][heir] /\ T = Contents(l) \ {heir}
    OBVIOUS
  <2>6. Shrunk(sub, T, l.height)
    BY <2>1, <2>2, <2>5
  <2>7. Before(T, heir)
    BY <2>2, <2>5
  <2>8. Shrunk(AfterRemove(Node(l, heir, r, k), -1, sub), T \cup {heir} \cup Contents(r), k)
    BY <1>3, <2>3, <2>4, <2>6, <2>7, AfterRemoveLeft
  <2>9. T \cup {heir} \cup Contents(r) = A
    BY <1>5, <2>2, <2>5
  <2>10. res = AfterRemove(Node(l, heir, r, k), -1, sub)
    BY <1>7, <1>11, <2>5
  <2>11. Shrunk(res, A, k)
    BY <2>8, <2>9, <2>10
  <2> QED
    BY <1>2, <1>4, <2>11
<1> QED
  BY <1>8, <1>9, <1>10, <1>11

\* A hole that is in the tree is removed: the tree is an AVL tree with one
\* hole less, its height is stored right, and no assertion fails.
LEMMA RemoveShrinks ==
  \A n \in Nat : \A t \in AvlTrees[n] : \A hole \in Contents(t) :
    Shrunk(remove_internal[n][t][hole], Contents(t) \ {hole}, t.height)
<1> DEFINE P(n) == \A t \in AvlTrees[n] : \A hole \in Contents(t) :
                     Shrunk(remove_internal[n][t][hole], Contents(t) \ {hole}, t.height)
           S == {n \in Nat : P(n)}
<1>1. 0 \in S
  BY AvlZero, AvlNil
<1>2. ASSUME NEW n \in Nat, n \in S PROVE n + 1 \in S
  <2>1. n + 1 \in Nat
    OBVIOUS
  <2>2. ASSUME NEW t \in AvlTrees[n + 1], NEW hole \in Contents(t)
        PROVE  Shrunk(remove_internal[n + 1][t][hole], Contents(t) \ {hole}, t.height)
    <3>1. t # Nil
      BY AvlNil
    <3>2. t \in Trees[n + 1] /\ Avl(t) /\ t.left \in AvlTrees[n] /\ t.right \in AvlTrees[n]
      BY <3>1, AvlSubtrees
    <3>3. PICK l, h, r, k : l = t.left /\ h = t.hole /\ r = t.right /\ k = t.height
      OBVIOUS
    <3>4. /\ t = Node(l, h, r, k)
          /\ Avl(l) /\ Avl(r) /\ h \in Holes /\ l.height \in Nat /\ r.height \in Nat
          /\ r.height - l.height \in {-1, 0, 1} /\ k = Higher(r.height, l.height) + 1
          /\ Contents(l) \subseteq Holes /\ Contents(r) \subseteq Holes
          /\ Before(Contents(l), h) /\ After(Contents(r), h)
          /\ Contents(t) = Contents(l) \cup {h} \cup Contents(r)
          /\ h \notin Contents(l) /\ h \notin Contents(r)
      BY <3>1, <3>2, <3>3, NodeParts
    <3>5. CASE hole = h
      BY <1>2, <3>1, <3>3, <3>5, RemoveHere
    <3>6. CASE hole # h /\ HoleLess(h, hole)
      <4>1. hole \in Holes /\ hole \notin Contents(l) /\ hole \in Contents(r)
        BY <3>4, <3>6, HoleOrder DEF Before
      <4>2. SideOf(t, hole) = 1 /\ Child(t, 1) = r
        BY <3>3, <3>6 DEF SideOf, Child
      <4>3. PICK sub, T : sub = remove_internal[n][r][hole] /\ T = Contents(r) \ {hole}
        OBVIOUS
      <4>4. Shrunk(sub, T, r.height)
        BY <1>2, <3>2, <3>3, <4>1, <4>3
      <4>5. After(T, h)
        BY <3>4, <4>3 DEF After
      <4>6. PICK res : res = remove_internal[n + 1][t][hole]
        OBVIOUS
      <4>7. res = AfterRemove(t, SideOf(t, hole), remove_internal[n][Child(t, SideOf(t, hole))][hole])
        BY <3>1, <3>2, <3>3, <3>6, <4>1, <4>6, RemoveNode, ZenonT(60)
      <4>8. res = AfterRemove(Node(l, h, r, k), 1, sub)
        BY <3>4, <4>2, <4>3, <4>7
      <4>9. Shrunk(AfterRemove(Node(l, h, r, k), 1, sub), Contents(l) \cup {h} \cup T, k)
        BY <3>4, <4>4, <4>5, AfterRemoveRight
      <4>10. Contents(l) \cup {h} \cup T = Contents(t) \ {hole}
        BY <3>4, <3>6, <4>1, <4>3
      <4> QED
        BY <3>3, <4>6, <4>8, <4>9, <4>10
    <3>7. CASE hole # h /\ ~HoleLess(h, hole)
      <4>1. hole \in Holes /\ hole \notin Contents(r) /\ hole \in Contents(l)
        BY <3>4, <3>7, HoleOrder DEF After
      <4>2. SideOf(t, hole) = -1 /\ Child(t, -1) = l
        BY <3>3, <3>7 DEF SideOf, Child
      <4>3. PICK sub, T : sub = remove_internal[n][l][hole] /\ T = Contents(l) \ {hole}
        OBVIOUS
      <4>4. Shrunk(sub, T, l.height)
        BY <1>2, <3>2, <3>3, <4>1, <4>3
      <4>5. Before(T, h)
        BY <3>4, <4>3 DEF Before
      <4>6. PICK res : res = remove_internal[n + 1][t][hole]
        OBVIOUS
      <4>7. res = AfterRemove(t, SideOf(t, hole), remove_internal[n][Child(t, SideOf(t, hole))][hole])
        BY <3>1, <3>2, <3>3, <3>7, <4>1, <4>6, RemoveNode, ZenonT(60)
      <4>8. res = AfterRemove(Node(l, h, r, k), -1, sub)
        BY <3>4, <4>2, <4>3, <4>7
      <4>9. Shrunk(AfterRemove(Node(l, h, r, k), -1, sub), T \cup {h} \cup Contents(r), k)
        BY <3>4, <4>4, <4>5, AfterRemoveLeft
      <4>10. T \cup {h} \cup Contents(r) = Contents(t) \ {hole}
        BY <3>4, <3>7, <4>1, <4>3
      <4> QED
        BY <3>3, <4>6, <4>8, <4>9, <4>10
    <3> QED
      BY <3>5, <3>6, <3>7
  <2> QED
    BY <2>1, <2>2
<1>3. \A n \in Nat : n \in S
  <2> HIDE DEF S
  <2> QED
    BY <1>1, <1>2, TreesRec!SetInduction
<1> QED
  BY <1>3

\* kalloc_avl_remove of a hole that the tree has.
LEMMA RemovedTree ==
  ASSUME NEW t, Avl(t), NEW hole \in Contents(t)
  PROVE  /\ Removed(t, hole).ok = TRUE /\ Avl(Removed(t, hole).tree)
         /\ Contents(Removed(t, hole).tree) = Contents(t) \ {hole}
<1>1. t.height \in Nat /\ t \in AvlTrees[t.height]
  BY AvlHeight
<1>2. Shrunk(remove_internal[t.height][t][hole], Contents(t) \ {hole}, t.height)
  BY <1>1, RemoveShrinks
<1> QED
  BY <1>2 DEF Removed, Shrunk

-----------------------------------------------------------------------------
\* The search.

\* A hole that the search passes over: too small, or too small once aligned.
LEMMA UnfitSpace ==
  ASSUME NEW h \in Holes, NEW wanted \in Nat, NEW alignment \in Nat
  PROVE  /\ HasAlignmentSpace(h, wanted, alignment) => ~(wanted > h.size)
         /\ alignment = 0 => (HasAlignmentSpace(h, wanted, alignment) <=> h.size >= wanted)
<1>1. h.size \in Nat /\ h.addr \in Nat
  BY DEF Holes
<1>2. /\ AlignUp(h.addr, alignment) \in Nat /\ AlignUp(h.addr, alignment) >= h.addr
      /\ alignment = 0 => AlignUp(h.addr, alignment) = h.addr
  BY <1>1, AlignUpFacts
<1> QED
  BY <1>1, <1>2 DEF HasAlignmentSpace

\* A node whose hole does not fit: an answer for what comes after it is an
\* answer for the whole tree, although what comes before it is not searched.
LEMMA AnswerRight ==
  ASSUME NEW L, NEW h \in Holes, NEW R, L \subseteq Holes, R \subseteq Holes,
         Before(L, h), After(R, h), NEW wanted \in Nat, NEW alignment \in Nat,
         ~HasAlignmentSpace(h, wanted, alignment),
         NEW x \in FindHoleAnswers(R, wanted, alignment), NEW S, S = L \cup {h} \cup R
  PROVE  x \in FindHoleAnswers(S, wanted, alignment)
<1>1. PICK fitR, fitS : fitR = Fitting(R, wanted, alignment) /\ fitS = Fitting(S, wanted, alignment)
  OBVIOUS
<1>2. fitR \subseteq fitS
  BY <1>1 DEF Fitting
<1>3. CASE alignment = 0
  <2>1. ASSUME NEW g \in L PROVE ~HasAlignmentSpace(g, wanted, alignment)
    <3>1. g \in Holes /\ HoleLess(g, h)
      BY <2>1 DEF Before
    <3>2. g.size \in Nat /\ h.size \in Nat /\ g.size <= h.size
      BY <3>1 DEF Holes, HoleLess
    <3>3. ~(h.size >= wanted)
      BY <1>3, UnfitSpace
    <3>4. ~(g.size >= wanted)
      BY <3>2, <3>3
    <3> QED
      BY <1>3, <3>1, <3>4, UnfitSpace
  <2>2. fitS = fitR
    BY <1>1, <2>1 DEF Fitting
  <2>3. x \in IF fitR = {} THEN {NoHole} ELSE Best(fitR)
    BY <1>1, <1>3 DEF FindHoleAnswers
  <2> QED
    BY <1>1, <1>3, <2>2, <2>3 DEF FindHoleAnswers
<1>4. CASE alignment # 0
  <2>1. x \in IF R = {} \/ LargestUnfit(R, fitR) THEN fitR \cup {NoHole} ELSE fitR
    BY <1>1, <1>4 DEF FindHoleAnswers
  <2>2. SUFFICES x \in IF S = {} \/ LargestUnfit(S, fitS) THEN fitS \cup {NoHole} ELSE fitS
    BY <1>1, <1>4 DEF FindHoleAnswers
  <2>3. CASE x \in fitR
    BY <1>2, <2>3
  <2>4. CASE x \notin fitR
    <3>1. x = NoHole /\ (R = {} \/ LargestUnfit(R, fitR))
      BY <2>1, <2>4
    <3>2. CASE R = {}
      <4>1. h \in S \ fitS
        BY <1>1 DEF Fitting
      <4>2. \A g \in S : g = h \/ HoleLess(g, h)
        BY <3>2 DEF Before
      <4>3. LargestUnfit(S, fitS)
        BY <4>1, <4>2 DEF LargestUnfit
      <4> QED
        BY <3>1, <4>3
    <3>3. CASE LargestUnfit(R, fitR)
      <4>1. PICK l \in R \ fitR : \A g \in R : g = l \/ HoleLess(g, l)
        BY <3>3 DEF LargestUnfit
      <4>2. l \in S \ fitS
        BY <1>1, <4>1 DEF Fitting
      <4>3. l \in Holes /\ HoleLess(h, l)
        BY <4>1 DEF After
      <4>4. Before(L, l)
        BY <4>3, BeforeThrough
      <4>5. \A g \in S : g = l \/ HoleLess(g, l)
        BY <4>1, <4>3, <4>4 DEF Before
      <4>6. LargestUnfit(S, fitS)
        BY <4>2, <4>5 DEF LargestUnfit
      <4> QED
        BY <3>1, <4>6
    <3> QED
      BY <3>1, <3>2, <3>3
  <2> QED
    BY <2>3, <2>4
<1> QED
  BY <1>3, <1>4

\* A node whose hole fits: a hole that the search found before it is better,
\* and without one the node's own hole is the answer.
LEMMA AnswerLeft ==
  ASSUME NEW L, NEW h \in Holes, NEW R, L \subseteq Holes, R \subseteq Holes,
         Before(L, h), After(R, h), NoHole \notin L,
         NEW wanted \in Nat, NEW alignment \in Nat, HasAlignmentSpace(h, wanted, alignment),
         NEW x \in FindHoleAnswers(L, wanted, alignment), NEW S, S = L \cup {h} \cup R,
         NEW y, y = IF x # NoHole THEN x ELSE h
  PROVE  y \in FindHoleAnswers(S, wanted, alignment)
<1>1. PICK fitL, fitS : fitL = Fitting(L, wanted, alignment) /\ fitS = Fitting(S, wanted, alignment)
  OBVIOUS
<1>2. /\ fitL \subseteq fitS /\ fitL \subseteq L /\ h \in fitS
      /\ \A g \in fitS : g \in fitL \/ g = h \/ g \in R
  BY <1>1 DEF Fitting
<1>3. CASE alignment = 0
  <2>1. x \in IF fitL = {} THEN {NoHole} ELSE Best(fitL)
    BY <1>1, <1>3 DEF FindHoleAnswers
  <2>2. y \in Best(fitS)
    <3>1. CASE fitL = {}
      <4>1. y = h
        BY <2>1, <3>1
      <4>2. \A g \in fitS : g = h \/ HoleLess(h, g)
        BY <1>2, <3>1 DEF After
      <4> QED
        BY <1>2, <4>1, <4>2 DEF Best
    <3>2. CASE fitL # {}
      <4>1. x \in fitL /\ \A g \in fitL : g = x \/ HoleLess(x, g)
        BY <2>1, <3>2 DEF Best
      <4>2. y = x /\ x \in Holes /\ HoleLess(x, h)
        BY <1>2, <4>1 DEF Before
      <4>3. After(R, x)
        BY <4>2, BeforeThrough
      <4>4. \A g \in fitS : g = x \/ HoleLess(x, g)
        BY <1>2, <4>1, <4>2, <4>3 DEF After
      <4> QED
        BY <1>2, <4>1, <4>2, <4>4 DEF Best
    <3> QED
      BY <3>1, <3>2
  <2> QED
    BY <1>1, <1>2, <1>3, <2>2 DEF FindHoleAnswers
<1>4. CASE alignment # 0
  <2>1. x \in fitL \cup {NoHole}
    BY <1>1, <1>4 DEF FindHoleAnswers
  <2>2. y \in fitS
    BY <1>2, <2>1
  <2> QED
    BY <1>1, <1>4, <2>2 DEF FindHoleAnswers
<1> QED
  BY <1>3, <1>4

\* avl_find_hole_internal on a null pointer and on a node.
LEMMA FindNode ==
  ASSUME NEW n \in Nat, NEW t \in Trees[n + 1], t # Nil, NEW request \in Requests
  PROVE  avl_find_hole_internal[n + 1][t][request] =
           IF Unfit(t, request) THEN avl_find_hole_internal[n][t.right][request]
           ELSE IF avl_find_hole_internal[n][t.left][request] # NoHole
                THEN avl_find_hole_internal[n][t.left][request] ELSE t.hole
<1>1. n + 1 \in Nat /\ (n + 1) - 1 = n
  OBVIOUS
<1>2. avl_find_hole_internal[n + 1] = FindStep(n + 1, avl_find_hole_internal[n])
  BY <1>1, FindDef
<1> QED
  BY <1>2 DEF FindStep

LEMMA FindNil ==
  ASSUME NEW n \in Nat, NEW request \in Requests
  PROVE  avl_find_hole_internal[n][Nil][request] = NoHole
<1>1. Nil \in Trees[n]
  BY NilTree
<1>2. avl_find_hole_internal[n] = FindStep(n, avl_find_hole_internal[n - 1])
  BY FindDef
<1> QED
  BY <1>1, <1>2 DEF FindStep

\* The search of any AVL tree returns what FindHoleAnswers allows.
LEMMA FindAnswers ==
  \A n \in Nat : \A t \in AvlTrees[n] : \A request \in Requests :
    NoHole \notin Contents(t)
      => avl_find_hole_internal[n][t][request]
           \in FindHoleAnswers(Contents(t), request.wanted, request.alignment)
<1> DEFINE P(n) == \A t \in AvlTrees[n] : \A request \in Requests :
                     NoHole \notin Contents(t)
                       => avl_find_hole_internal[n][t][request]
                            \in FindHoleAnswers(Contents(t), request.wanted, request.alignment)
           S == {n \in Nat : P(n)}
<1>0. ASSUME NEW n \in Nat, NEW request \in Requests
      PROVE  avl_find_hole_internal[n][Nil][request]
               \in FindHoleAnswers(Contents(Nil), request.wanted, request.alignment)
  <2>1. Contents(Nil) = {} /\ avl_find_hole_internal[n][Nil][request] = NoHole
    BY AvlNil, FindNil
  <2>2. Fitting({}, request.wanted, request.alignment) = {}
    BY DEF Fitting
  <2>3. NoHole \in FindHoleAnswers({}, request.wanted, request.alignment)
    BY <2>2 DEF FindHoleAnswers
  <2> QED
    BY <2>1, <2>3
<1>1. 0 \in S
  BY <1>0, AvlZero
<1>2. ASSUME NEW n \in Nat, n \in S PROVE n + 1 \in S
  <2>1. n + 1 \in Nat
    OBVIOUS
  <2>2. ASSUME NEW t \in AvlTrees[n + 1], NEW request \in Requests, NoHole \notin Contents(t)
        PROVE  avl_find_hole_internal[n + 1][t][request]
                 \in FindHoleAnswers(Contents(t), request.wanted, request.alignment)
    <3>1. CASE t = Nil
      BY <1>0, <2>1, <3>1
    <3>2. CASE t # Nil
      <4>1. t \in Trees[n + 1] /\ Avl(t) /\ t.left \in AvlTrees[n] /\ t.right \in AvlTrees[n]
        BY <3>2, AvlSubtrees
      <4>2. PICK l, h, r, k : l = t.left /\ h = t.hole /\ r = t.right /\ k = t.height
        OBVIOUS
      <4>3. /\ h \in Holes /\ Contents(l) \subseteq Holes /\ Contents(r) \subseteq Holes
            /\ Before(Contents(l), h) /\ After(Contents(r), h)
            /\ Contents(t) = Contents(l) \cup {h} \cup Contents(r)
        BY <3>2, <4>1, <4>2, NodeParts
      <4>4. PICK w, a, x, y, z : /\ w = request.wanted /\ a = request.alignment
                                 /\ x = avl_find_hole_internal[n][l][request]
                                 /\ y = avl_find_hole_internal[n][r][request]
                                 /\ z = avl_find_hole_internal[n + 1][t][request]
        OBVIOUS
      <4>5. w \in Nat /\ a \in Nat
        BY <4>4 DEF Requests
      <4>6. /\ x \in FindHoleAnswers(Contents(l), w, a)
            /\ y \in FindHoleAnswers(Contents(r), w, a)
        BY <1>2, <2>2, <4>1, <4>2, <4>3, <4>4
      <4>7. z = IF Unfit(t, request) THEN y ELSE IF x # NoHole THEN x ELSE h
        BY <3>2, <4>1, <4>2, <4>4, FindNode
      <4>8. Unfit(t, request) <=> ~HasAlignmentSpace(h, w, a)
        <5>1. HasAlignmentSpace(h, w, a) => ~(w > h.size)
          BY <4>3, <4>5, UnfitSpace
        <5> QED
          BY <4>2, <4>4, <5>1 DEF Unfit
      <4>9. CASE Unfit(t, request)
        <5>1. y \in FindHoleAnswers(Contents(t), w, a)
          BY <4>3, <4>5, <4>6, <4>8, <4>9, AnswerRight
        <5> QED
          BY <4>4, <4>7, <4>9, <5>1
      <4>10. CASE ~Unfit(t, request)
        <5>1. NoHole \notin Contents(l) /\ z = IF x # NoHole THEN x ELSE h
          BY <2>2, <4>3, <4>7, <4>10
        <5>2. z \in FindHoleAnswers(Contents(t), w, a)
          BY <4>3, <4>5, <4>6, <4>8, <4>10, <5>1, AnswerLeft
        <5> QED
          BY <4>4, <5>2
      <4> QED
        BY <4>9, <4>10
    <3> QED
      BY <3>1, <3>2
  <2> QED
    BY <2>1, <2>2
<1>3. \A n \in Nat : n \in S
  <2> HIDE DEF S
  <2> QED
    BY <1>1, <1>2, TreesRec!SetInduction
<1> QED
  BY <1>3

\* kalloc_avl_find_hole on an AVL tree.
LEMMA FoundInTree ==
  ASSUME NEW t, Avl(t), NoHole \notin Contents(t), NEW wanted \in Nat, NEW alignment \in Nat
  PROVE  avl_find_hole(t, wanted, alignment) \in FindHoleAnswers(Contents(t), wanted, alignment)
<1>1. PICK request : request = [wanted |-> wanted, alignment |-> alignment]
  OBVIOUS
<1>2. request \in Requests /\ request.wanted = wanted /\ request.alignment = alignment
  BY <1>1 DEF Requests
<1>3. t.height \in Nat /\ t \in AvlTrees[t.height]
  BY AvlHeight
<1>4. avl_find_hole_internal[t.height][t][request]
        \in FindHoleAnswers(Contents(t), request.wanted, request.alignment)
  BY <1>2, <1>3, FindAnswers
<1> QED
  BY <1>1, <1>2, <1>4 DEF avl_find_hole
-----------------------------------------------------------------------------
\* KallocAvl: any sequence of insertions and removals.

\* The tree, its contents and its assertions keep one another right.
AvlInv == TreeOK /\ ContentsOK /\ AssertsHold

\* A key is a hole, and is not the null pointer.
LEMMA KeyIsHole ==
  ASSUME NEW key \in Keys
  PROVE  key \in Holes /\ key # NoHole
<1>1. key \in [size : Nat, addr : Nat \ {0}]
  BY KeysAssumption
<1> QED
  BY <1>1 DEF Holes, NoHole, Hole

\* kalloc_avl_init makes an empty tree.
LEMMA AvlInitInvariant == AvlInit => AvlInv
<1>1. SUFFICES ASSUME AvlInit PROVE AvlInv
  OBVIOUS
<1>2. Avl(root) /\ Contents(root) = {}
  BY <1>1, AvlNil DEF AvlInit
<1>3. Cardinality({}) = 0
  BY FS_EmptySet
<1>4. holes = {} /\ free = Capacity /\ failed = FALSE
  BY <1>1 DEF AvlInit
<1>5. free \in 0..Capacity /\ free + Cardinality(Contents(root)) = Capacity
  BY <1>2, <1>3, <1>4, CapacityAssumption
<1>6. holes \subseteq Keys /\ Contents(root) = holes
  BY <1>2, <1>4
<1> QED
  BY <1>2, <1>4, <1>5, <1>6 DEF AvlInv, TreeOK, ContentsOK, AssertsHold

\* kalloc_avl_insert, with or without a free node.
LEMMA AvlInsertInvariant ==
  ASSUME AvlInv, NEW hole \in Keys, kalloc_avl_insert(hole)
  PROVE  AvlInv'
<1>1. /\ Avl(root) /\ Contents(root) = holes /\ holes \subseteq Keys /\ failed = FALSE
      /\ free \in 0..Capacity /\ free + Cardinality(holes) = Capacity /\ hole \notin holes
  BY DEF AvlInv, TreeOK, ContentsOK, kalloc_avl_insert
<1>2. IsFiniteSet(holes) /\ Cardinality(holes) \in Nat /\ Capacity \in Nat
  BY <1>1, AvlContents, FS_CardinalityType, CapacityAssumption
<1>3. CASE free = 0
  <2>1. failed' = TRUE /\ root' = root /\ free' = free /\ holes' = holes
    BY <1>3, Zenon DEF kalloc_avl_insert
  <2>2. Cardinality(holes) = Capacity
    BY <1>1, <1>2, <1>3
  <2>3. TreeOK' /\ ContentsOK'
    BY <1>1, <2>1 DEF TreeOK, ContentsOK
  <2> QED
    BY <2>1, <2>2, <2>3 DEF AvlInv, AssertsHold
<1>4. CASE free # 0
  <2>1. PICK result : result = Inserted(root, hole)
    OBVIOUS
  <2>2. /\ root' = result.tree /\ failed' = ~result.ok /\ free' = free - 1
        /\ holes' = holes \cup {hole}
    BY <1>4, <2>1, Zenon DEF kalloc_avl_insert, get_free_node
  <2>3. result.ok = TRUE /\ Avl(result.tree) /\ Contents(result.tree) = holes \cup {hole}
    BY <1>1, <2>1, KeyIsHole, InsertedTree
  <2>4. failed' = FALSE
    BY <2>2, <2>3, Zenon
  <2>5. Cardinality(holes \cup {hole}) = Cardinality(holes) + 1
    BY <1>1, <1>2, FS_AddElement
  <2>6. Avl(root') /\ Contents(root') = holes' /\ holes' \subseteq Keys
    BY <1>1, <2>2, <2>3
  <2>7. free' \in 0..Capacity /\ free' + Cardinality(Contents(root')) = Capacity
    BY <1>1, <1>2, <1>4, <2>2, <2>3, <2>5
  <2> QED
    BY <2>4, <2>6, <2>7 DEF AvlInv, TreeOK, ContentsOK, AssertsHold
<1> QED
  BY <1>3, <1>4

\* kalloc_avl_remove of a hole that was inserted.
LEMMA AvlRemoveInvariant ==
  ASSUME AvlInv, NEW hole \in holes, kalloc_avl_remove(hole)
  PROVE  AvlInv'
<1>1. /\ Avl(root) /\ Contents(root) = holes /\ holes \subseteq Keys /\ failed = FALSE
      /\ free \in 0..Capacity /\ free + Cardinality(holes) = Capacity /\ hole \in holes
  BY DEF AvlInv, TreeOK, ContentsOK, kalloc_avl_remove
<1>2. IsFiniteSet(holes) /\ Cardinality(holes) \in Nat /\ Capacity \in Nat
  BY <1>1, AvlContents, FS_CardinalityType, CapacityAssumption
<1>3. PICK result : result = Removed(root, hole)
  OBVIOUS
<1>4. /\ root' = result.tree /\ failed' = ~result.ok /\ free' = free + 1
      /\ holes' = holes \ {hole}
  BY <1>3, Zenon DEF kalloc_avl_remove, put_free_node
<1>5. result.ok = TRUE /\ Avl(result.tree) /\ Contents(result.tree) = holes \ {hole}
  BY <1>1, <1>3, RemovedTree
<1>6. failed' = FALSE
  BY <1>4, <1>5, Zenon
<1>7. Cardinality(holes \ {hole}) = Cardinality(holes) - 1 /\ IsFiniteSet(holes \ {hole})
  BY <1>1, <1>2, FS_RemoveElement
<1>8. Cardinality(holes \ {hole}) \in Nat
  BY <1>7, FS_CardinalityType
<1>9. Avl(root') /\ Contents(root') = holes' /\ holes' \subseteq Keys
  BY <1>1, <1>4, <1>5
<1>10. free' \in 0..Capacity /\ free' + Cardinality(Contents(root')) = Capacity
  BY <1>1, <1>2, <1>4, <1>5, <1>7, <1>8
<1> QED
  BY <1>6, <1>9, <1>10 DEF AvlInv, TreeOK, ContentsOK, AssertsHold

\* Every step of KallocAvl keeps the invariant.
LEMMA AvlStepInvariant == AvlInv /\ [AvlNext]_avlVars => AvlInv'
<1>1. SUFFICES ASSUME AvlInv, [AvlNext]_avlVars PROVE AvlInv'
  OBVIOUS
<1>2. CASE UNCHANGED avlVars
  <2>1. root' = root /\ free' = free /\ failed' = failed /\ holes' = holes
    BY <1>2 DEF avlVars
  <2> QED
    BY <1>1, <2>1 DEF AvlInv, TreeOK, ContentsOK, AssertsHold
<1>3. CASE \E hole \in Keys : kalloc_avl_insert(hole)
  BY <1>1, <1>3, AvlInsertInvariant
<1>4. CASE \E hole \in holes : kalloc_avl_remove(hole)
  BY <1>1, <1>4, AvlRemoveInvariant
<1> QED
  BY <1>1, <1>2, <1>3, <1>4 DEF AvlNext

\* The search agrees with FindHoleAnswers on every tree that can arise.
LEMMA AvlFinds == AvlInv => FindOK
<1>1. SUFFICES ASSUME AvlInv, NEW wanted \in Wanted, NEW alignment \in Alignings
               PROVE  avl_find_hole(root, wanted, alignment)
                        \in FindHoleAnswers(holes, wanted, alignment)
  BY DEF FindOK
<1>2. Avl(root) /\ Contents(root) = holes /\ holes \subseteq Keys
  BY <1>1 DEF AvlInv, TreeOK, ContentsOK
<1>3. NoHole \notin Contents(root) /\ wanted \in Nat /\ alignment \in Nat
  BY <1>2, KeyIsHole, SearchAssumption
<1> QED
  BY <1>2, <1>3, FoundInTree

\* The invariant from which the four properties of the tree follow.
THEOREM AvlInvariant == AvlSpec => []AvlInv
<1> QED
  BY AvlInitInvariant, AvlStepInvariant, PTL DEF AvlSpec

\* Whatever holes insert_internal and remove_internal are given, in whatever
\* order, the tree is ordered and balanced and its stored heights are right,
\* and nodes of the pool are neither lost nor used twice.
THEOREM TreeStaysAvl == AvlSpec => []TreeOK
<1>1. AvlInv => TreeOK
  BY DEF AvlInv
<1> QED
  BY <1>1, AvlInvariant, PTL

\* The rotations, and the removal that moves the predecessor's hole, leave in
\* the tree exactly what its caller has inserted and not removed.
THEOREM TreeKeepsHoles == AvlSpec => []ContentsOK
<1>1. AvlInv => ContentsOK
  BY DEF AvlInv
<1> QED
  BY <1>1, AvlInvariant, PTL

\* No assertion of kalloc_avl.c fails, but for the one that a node is free.
THEOREM TreeAssertsHold == AvlSpec => []AssertsHold
<1>1. AvlInv => AssertsHold
  BY DEF AvlInv
<1> QED
  BY <1>1, AvlInvariant, PTL

\* kalloc_avl_find_hole returns the best fit when no alignment is asked for,
\* and with one a hole that fits, or none when the largest does not.
THEOREM TreeFindsHole == AvlSpec => []FindOK
<1> QED
  BY AvlInvariant, AvlFinds, PTL
-----------------------------------------------------------------------------
\* KallocHeapAvl: the heap and the tree together.

\* A step changes the set of holes by two removals and one insertion at most.
FewChanges(A, B) == \E a, b, c : A \ B \subseteq {a, b} /\ B \ A \subseteq {c}

\* What the writes of kalloc_heap.c do to the set of holes.
LEMMA WritesKeepTree ==
  ASSUME NEW m
  PROVE  /\ \A g, n : Merge(m, g, n).avl = m.avl
         /\ \A t, gap : GiveGapToPrevious(m, t, gap).avl = m.avl
         /\ \A t, size : Split(m, t, size).avl = m.avl
         /\ AppendPage(m).avl = m.avl
         /\ \A last : GrowLast(m, last).avl = m.avl
         /\ \A h, used : MarkUsed(m, h, used).avl = m.avl
<1>1. \A size, hsize, used, footer : WithBlocks(m, size, hsize, used, footer).avl = m.avl
  BY DEF WithBlocks, Heap
<1>2. \A g, n : Merge(m, g, n).avl = m.avl
  BY <1>1, Zenon DEF Merge
<1>3. \A t, gap : GiveGapToPrevious(m, t, gap).avl = m.avl
  BY <1>1, Zenon DEF GiveGapToPrevious
<1>4. \A t, size : Split(m, t, size).avl = m.avl
  BY <1>1, Zenon DEF Split
<1>5. AppendPage(m).avl = m.avl
  BY <1>1, Zenon DEF AppendPage
<1>6. \A last : GrowLast(m, last).avl = m.avl
  BY <1>1, Zenon DEF GrowLast
<1>7. \A h, used : MarkUsed(m, h, used).avl = m.avl
  BY <1>1 DEF MarkUsed
<1> QED
  BY <1>2, <1>3, <1>4, <1>5, <1>6, <1>7

\* The two calls to the tree.
LEMMA TreeCalls ==
  ASSUME NEW m, NEW h
  PROVE  /\ AvlInsert(m, h).avl = m.avl \cup {HoleAt(m, h)}
         /\ AvlRemove(m, h).avl = m.avl \ {HoleAt(m, h)}
<1>1. \A avl, faults : WithTree(m, avl, faults).avl = avl
  BY DEF WithTree, Heap
<1> QED
  BY <1>1, Zenon DEF AvlInsert, AvlRemove

\* kalloc_heap_alloc takes the hole out and puts in what is left of it.
LEMMA PlaceChanges ==
  ASSUME NEW m, NEW hole, NEW size, NEW alignment
  PROVE  FewChanges(m.avl, PlaceAt(m, hole, size, alignment).avl)
<1>1. PICK t, gap, checked : /\ t = hole.addr - HeaderSize
                             /\ gap = AlignUp(hole.addr, alignment) - hole.addr
                             /\ checked = Assert(m, m.used[t] = 0, "hole is used")
  OBVIOUS
<1>2. PICK removed : removed = AvlRemove(checked, t)
  OBVIOUS
<1>3. PICK aligned : aligned = IF gap = 0 THEN removed
                               ELSE IF t = InitialAddr
                                    THEN Assert(removed, FALSE, "aligned-alloc in an empty heap")
                                    ELSE GiveGapToPrevious(removed, t, gap)
  OBVIOUS
<1>4. PICK block, split : block = t + gap /\ split = Split(aligned, block, size)
  OBVIOUS
<1>5. PICK rest : rest = block + HeaderSize + size + FooterSize
  OBVIOUS
<1>6. PICK r : r = PlaceAt(m, hole, size, alignment)
  OBVIOUS
<1>7. r = IF aligned.faults # {} THEN aligned
          ELSE IF LeavesHole(aligned, block, size) THEN AvlInsert(split, rest)
          ELSE MarkUsed(aligned, block, 1)
  BY <1>1, <1>2, <1>3, <1>4, <1>5, <1>6, Zenon DEF PlaceAt
<1>8. aligned.avl = m.avl \ {HoleAt(checked, t)}
  <2>1. checked.avl = m.avl
    BY <1>1 DEF Assert, WithTree, Heap
  <2>2. removed.avl = m.avl \ {HoleAt(checked, t)}
    BY <1>2, <2>1, TreeCalls
  <2>3. aligned.avl = removed.avl
    <3>1. GiveGapToPrevious(removed, t, gap).avl = removed.avl
      BY WritesKeepTree
    <3>2. Assert(removed, FALSE, "aligned-alloc in an empty heap").avl = removed.avl
      BY DEF Assert, WithTree, Heap
    <3> QED
      BY <1>3, <3>1, <3>2
  <2> QED
    BY <2>2, <2>3
<1>9. \/ r.avl = aligned.avl
      \/ r.avl = aligned.avl \cup {HoleAt(split, rest)}
  <2>1. split.avl = aligned.avl /\ MarkUsed(aligned, block, 1).avl = aligned.avl
    BY <1>4, WritesKeepTree
  <2>2. AvlInsert(split, rest).avl = aligned.avl \cup {HoleAt(split, rest)}
    BY <2>1, TreeCalls
  <2> QED
    BY <1>7, <2>1, <2>2
<1>10. /\ m.avl \ r.avl \subseteq {HoleAt(checked, t), HoleAt(checked, t)}
       /\ r.avl \ m.avl \subseteq {HoleAt(split, rest)}
  BY <1>8, <1>9
<1> QED
  BY <1>6, <1>10 DEF FewChanges

\* A new page is a hole of its own, or the last hole grows.
LEMMA EnlargeChanges ==
  ASSUME NEW m
  PROVE  FewChanges(m.avl, Enlarge(m).avl)
<1>1. PICK last : last = m.footer[End(m) - FooterSize]
  OBVIOUS
<1>2. PICK page, removed : page = AppendPage(m) /\ removed = AvlRemove(m, last)
  OBVIOUS
<1>3. PICK grown : grown = GrowLast(removed, last)
  OBVIOUS
<1>4. PICK r, e : r = Enlarge(m) /\ e = End(m)
  OBVIOUS
<1>5. r = IF m.used[last] = 1 THEN AvlInsert(page, e) ELSE AvlInsert(grown, last)
  BY <1>1, <1>2, <1>3, <1>4, Zenon DEF Enlarge
<1>6. page.avl = m.avl /\ grown.avl = m.avl \ {HoleAt(m, last)}
  <2>1. page.avl = m.avl /\ grown.avl = removed.avl
    BY <1>2, <1>3, WritesKeepTree
  <2>2. removed.avl = m.avl \ {HoleAt(m, last)}
    BY <1>2, TreeCalls
  <2> QED
    BY <2>1, <2>2
<1>7. \/ r.avl = m.avl \cup {HoleAt(page, e)}
      \/ r.avl = (m.avl \ {HoleAt(m, last)}) \cup {HoleAt(grown, last)}
  BY <1>5, <1>6, TreeCalls
<1>8. \/ m.avl \ r.avl \subseteq {HoleAt(m, last), HoleAt(m, last)}
          /\ r.avl \ m.avl \subseteq {HoleAt(page, e)}
      \/ m.avl \ r.avl \subseteq {HoleAt(m, last), HoleAt(m, last)}
          /\ r.avl \ m.avl \subseteq {HoleAt(grown, last)}
  BY <1>7
<1> QED
  BY <1>4, <1>8 DEF FewChanges

\* kalloc_heap_free takes out the holes on both sides and puts in their union.
LEMMA FreeChanges ==
  ASSUME NEW m, NEW ptr
  PROVE  FewChanges(m.avl, FreeBlock(m, ptr).avl)
<1>1. PICK h : h = ptr - HeaderSize
  OBVIOUS
<1>2. PICK checked, start : /\ checked = Assert(m, m.used[h] = 1, "block is not used")
                            /\ start = IF FollowsHole(m, h) THEN Previous(m, h) ELSE h
  OBVIOUS
<1>3. PICK first : first = JoinPrevious(checked, h)
  OBVIOUS
<1>4. PICK joined : joined = JoinNext(first, start)
  OBVIOUS
<1>5. PICK marked : marked = MarkUsed(joined, start, 0)
  OBVIOUS
<1>6. PICK r : r = FreeBlock(m, ptr)
  OBVIOUS
<1>7. r = AvlInsert(marked, start)
  BY <1>1, <1>2, <1>3, <1>4, <1>5, <1>6, Zenon DEF FreeBlock
<1>8. PICK a, b, c : /\ a = HoleAt(checked, Previous(checked, h))
                     /\ b = HoleAt(first, NextHeader(first, start))
                     /\ c = HoleAt(marked, start)
  OBVIOUS
<1>9. checked.avl = m.avl
  BY <1>2 DEF Assert, WithTree, Heap
<1>10. first.avl = m.avl \/ first.avl = m.avl \ {a}
  <2>1. PICK cut : cut = AvlRemove(checked, Previous(checked, h))
    OBVIOUS
  <2>2. first = checked \/ first = Merge(cut, Previous(checked, h), h)
    BY <1>3, <2>1, Zenon DEF JoinPrevious
  <2>3. cut.avl = m.avl \ {a}
    BY <1>8, <1>9, <2>1, TreeCalls
  <2> QED
    BY <1>9, <2>2, <2>3, WritesKeepTree
<1>11. joined.avl = first.avl \/ joined.avl = first.avl \ {b}
  <2>1. PICK cut : cut = AvlRemove(first, NextHeader(first, start))
    OBVIOUS
  <2>2. joined = first \/ joined = Merge(cut, start, NextHeader(first, start))
    BY <1>4, <2>1, Zenon DEF JoinNext
  <2>3. cut.avl = first.avl \ {b}
    BY <1>8, <2>1, TreeCalls
  <2>4. joined = first \/ joined.avl = cut.avl
    BY <2>2, WritesKeepTree
  <2> QED
    BY <2>3, <2>4
<1>12. r.avl = joined.avl \cup {c}
  BY <1>5, <1>7, <1>8, WritesKeepTree, TreeCalls
<1>13. m.avl \ r.avl \subseteq {a, b} /\ r.avl \ m.avl \subseteq {c}
  BY <1>10, <1>11, <1>12
<1> QED
  BY <1>6, <1>13 DEF FewChanges

\* Of the one or two holes that go, one is lowest.
LEMMA LowestGoes ==
  ASSUME NEW S, S \subseteq Holes, S # {}, NEW a, NEW b, S \subseteq {a, b}
  PROVE  Lowest(S) \in S /\ \E c : S \ {Lowest(S)} \subseteq {c}
<1>1. \E h \in S : \A g \in S : h.addr <= g.addr
  <2>1. PICK x \in S : TRUE
    OBVIOUS
  <2>2. CASE S = {x}
    <3>1. x.addr \in Nat
      BY DEF Holes
    <3> QED
      BY <2>2, <3>1
  <2>3. CASE S # {x}
    <3>1. PICK y \in S : y # x
      BY <2>1, <2>3
    <3>2. S = {x, y}
      BY <2>1, <3>1
    <3>3. x.addr \in Nat /\ y.addr \in Nat
      BY <3>1 DEF Holes
    <3>4. CASE x.addr <= y.addr
      BY <3>2, <3>3, <3>4
    <3>5. CASE ~(x.addr <= y.addr)
      BY <3>2, <3>3, <3>5
    <3> QED
      BY <3>4, <3>5
  <2> QED
    BY <2>2, <2>3
<1>2. Lowest(S) \in S
  BY <1>1 DEF Lowest
<1> QED
  BY <1>2

\* The calls to the tree that a step of the heap makes leave in the tree what
\* the step leaves in the set of holes.
LEMMA ReindexedTree ==
  ASSUME NEW t, Avl(t), NEW A, A = Contents(t), NEW B, A \subseteq Holes, B \subseteq Holes,
         FewChanges(A, B), NEW u, u = Reinserted(Pruned(t, A \ B), B \ A)
  PROVE  Avl(u) /\ Contents(u) = B
<1>1. PICK a, b, c : A \ B \subseteq {a, b} /\ B \ A \subseteq {c}
  BY DEF FewChanges
<1>2. PICK gone, new, p : gone = A \ B /\ new = B \ A /\ p = Pruned(t, gone)
  OBVIOUS
<1>3. Avl(p) /\ Contents(p) = A \ gone
  <2>1. CASE gone = {}
    BY <1>2, <2>1 DEF Pruned
  <2>2. CASE gone # {}
    <3>1. PICK low : low = Lowest(gone)
      OBVIOUS
    <3>2. PICK q, left : q = RemoveHole(t, low) /\ left = gone \ {low}
      OBVIOUS
    <3>3. gone \subseteq Holes /\ gone \subseteq {a, b} /\ gone \subseteq A
      BY <1>1, <1>2
    <3>4. low \in gone /\ \E d : left \subseteq {d}
      BY <2>2, <3>1, <3>2, <3>3, LowestGoes
    <3>5. Avl(q) /\ Contents(q) = A \ {low}
      <4>1. low \in Contents(t)
        BY <3>3, <3>4
      <4> QED
        BY <3>2, <4>1, RemovedTree DEF RemoveHole
    <3>6. p = Without(q, left)
      BY <1>2, <2>2, <3>1, <3>2 DEF Pruned
    <3>7. CASE left = {}
      BY <3>2, <3>4, <3>5, <3>6, <3>7 DEF Without
    <3>8. CASE left # {}
      <4>1. PICK second : second = Lowest(left)
        OBVIOUS
      <4>2. PICK d : left \subseteq {d}
        BY <3>4
      <4>3. left \subseteq {d, d} /\ left \subseteq Holes
        BY <3>2, <3>3, <4>2
      <4>4. second \in left
        BY <3>8, <4>1, <4>3, LowestGoes
      <4>5. left = {second}
        BY <4>2, <4>4
      <4>6. p = RemoveHole(q, second)
        BY <3>6, <3>8, <4>1 DEF Without
      <4>7. second \in Contents(q)
        BY <3>2, <3>3, <3>5, <4>4
      <4>8. Avl(p) /\ Contents(p) = Contents(q) \ {second}
        BY <3>5, <4>6, <4>7, RemovedTree DEF RemoveHole
      <4>9. A \ gone = (A \ {low}) \ {second}
        BY <3>2, <3>4, <4>5
      <4> QED
        BY <3>5, <4>8, <4>9
    <3> QED
      BY <3>7, <3>8
  <2> QED
    BY <2>1, <2>2
<1>4. u = Reinserted(p, new)
  BY <1>2
<1>5. B = (A \ gone) \cup new
  BY <1>2
<1>6. CASE new = {}
  BY <1>3, <1>4, <1>5, <1>6 DEF Reinserted
<1>7. CASE new # {}
  <2>1. PICK x : x = CHOOSE h \in new : TRUE
    OBVIOUS
  <2>2. x \in new /\ new = {x}
    BY <1>1, <1>2, <1>7, <2>1
  <2>3. u = InsertHole(p, x)
    BY <1>4, <1>7, <2>1 DEF Reinserted
  <2>4. x \in Holes /\ x \notin Contents(p)
    BY <1>2, <1>3, <2>2
  <2>5. Avl(u) /\ Contents(u) = Contents(p) \cup {x}
    <3>1. Avl(Inserted(p, x).tree) /\ Contents(Inserted(p, x).tree) = Contents(p) \cup {x}
      BY <1>3, <2>4, InsertedTree
    <3> QED
      BY <2>3, <3>1 DEF InsertHole
  <2> QED
    BY <1>3, <1>5, <2>2, <2>5
<1> QED
  BY <1>6, <1>7
\* The heap is right and the tree indexes it.
TreeInv == IInv /\ TreeIndexesHeap

\* The null pointer is no hole: a hole lies above its header.
LEMMA NoNullHole ==
  ASSUME IInv
  PROVE  NoHole \notin heap.avl /\ heap.avl \subseteq Holes
<1>1. heap.avl \subseteq Holes /\ Headers(heap) \subseteq Nat
  BY DEF IInv, TypeOK, HeapType, Holes
<1>2. heap.avl = {HoleAt(heap, h) : h \in HolesOf(heap, {})}
  BY DEF IInv, HolesExact, Indexed
<1>3. ASSUME NEW x \in heap.avl PROVE x.addr # 0
  <2>1. PICK h \in HolesOf(heap, {}) : x = HoleAt(heap, h)
    BY <1>2
  <2>2. h \in Nat
    BY <1>1 DEF HolesOf
  <2>3. x.addr = h + HeaderSize
    BY <2>1, HoleAtFacts
  <2> QED
    BY <2>2, <2>3, LayoutAssumption
<1>4. NoHole.addr = 0
  BY DEF NoHole, Hole
<1> QED
  BY <1>1, <1>3, <1>4

\* kalloc_heap_create puts its one hole in an empty tree.
LEMMA TreeInitInvariant == TreeInit => TreeInv
<1>1. SUFFICES ASSUME TreeInit PROVE TreeInv
  OBVIOUS
<1>2. Init /\ IInv /\ index = InsertHole(Nil, HoleAt(heap, InitialAddr))
  BY <1>1, InitInvariant DEF TreeInit
<1>3. PICK x : x = HoleAt(heap, InitialAddr)
  OBVIOUS
<1>4. heap.avl = {x}
  <2>1. /\ heap.hsize = [h \in {InitialAddr} |-> InitialSize - HeaderSize - FooterSize]
        /\ heap.avl = {Hole(InitialSize - HeaderSize - FooterSize, InitialAddr + HeaderSize)}
    BY <1>2 DEF Init, Create, Heap
  <2>2. heap.hsize[InitialAddr] = InitialSize - HeaderSize - FooterSize
    BY <2>1
  <2> QED
    BY <1>3, <2>1, <2>2 DEF HoleAt
<1>5. x \in Holes
  BY <1>2, <1>4, NoNullHole
<1>6. x \notin Contents(Nil) /\ Avl(Nil) /\ Contents(Nil) \cup {x} = {x}
  BY AvlNil
<1>7. Avl(Inserted(Nil, x).tree) /\ Contents(Inserted(Nil, x).tree) = Contents(Nil) \cup {x}
  BY <1>5, <1>6, InsertedTree
<1>8. index = Inserted(Nil, x).tree
  BY <1>2, <1>3 DEF InsertHole
<1> QED
  BY <1>2, <1>4, <1>6, <1>7, <1>8 DEF TreeInv, TreeIndexesHeap

\* The tree answers a request as KallocHeap expects.
LEMMA TreeAnswers ==
  ASSUME TreeInv
  PROVE  FindHole \in FindHoleAnswers(heap.avl, call.size, call.alignment)
<1>1. IInv /\ Avl(index) /\ Contents(index) = heap.avl
  BY DEF TreeInv, TreeIndexesHeap
<1>2. call.size \in Nat /\ call.alignment \in Nat /\ NoHole \notin Contents(index)
  BY <1>1, InvariantFacts, NoNullHole
<1> QED
  BY <1>1, <1>2, FoundInTree DEF FindHole

\* Every step of the heap with its tree is a step of the heap with its set of
\* holes, or leaves it alone.
LEMMA TreeStepRefines == TreeInv /\ [TreeNext]_treeVars => [Next]_vars
<1>1. SUFFICES ASSUME TreeInv, [TreeNext]_treeVars PROVE [Next]_vars
  OBVIOUS
<1>2. ASSUME NEW size \in Sizes, NEW alignment \in Alignments, TreeAlloc(size, alignment)
      PROVE  Next
  <2>1. Alloc(size, alignment)
    BY <1>2 DEF TreeAlloc
  <2> QED
    BY <2>1 DEF Next
<1>3. ASSUME NEW p \in DOMAIN live, NEW size \in Sizes, TreeRealloc(p, size)
      PROVE  Next
  <2>1. Realloc(p, size)
    BY <1>3 DEF TreeRealloc
  <2> QED
    BY <2>1 DEF Next
<1>4. ASSUME NEW p \in DOMAIN live, TreeFree(p)
      PROVE  Next
  <2>1. Free(p)
    BY <1>4 DEF TreeFree
  <2> QED
    BY <2>1 DEF Next
<1>5. CASE TreePlace
  <2>1. /\ Allocating /\ PlaceIn(FindHole)
        /\ FindHole \in FindHoleAnswers(heap.avl, call.size, call.alignment) \ {NoHole}
    BY <1>1, <1>5, TreeAnswers DEF TreePlace
  <2>2. Place
    BY <2>1 DEF Place
  <2> QED
    BY <2>2 DEF Next
<1>6. CASE TreeExpand
  <2>1. Allocating /\ GrowHeap /\ NoHole \in FindHoleAnswers(heap.avl, call.size, call.alignment)
    BY <1>1, <1>6, TreeAnswers DEF TreeExpand
  <2>2. Expand
    BY <2>1 DEF Expand
  <2> QED
    BY <2>2 DEF Next
<1>7. CASE TreeOutOfFrames
  <2>1. Allocating /\ Starve /\ NoHole \in FindHoleAnswers(heap.avl, call.size, call.alignment)
    BY <1>1, <1>7, TreeAnswers DEF TreeOutOfFrames
  <2>2. OutOfFrames
    BY <2>1 DEF OutOfFrames
  <2> QED
    BY <2>2 DEF Next
<1>8. CASE TreeRelease
  <2>1. Release
    BY <1>8 DEF TreeRelease
  <2> QED
    BY <2>1 DEF Next
<1>9. CASE UNCHANGED treeVars
  BY <1>9 DEF treeVars, vars
<1> QED
  BY <1>1, <1>2, <1>3, <1>4, <1>5, <1>6, <1>7, <1>8, <1>9 DEF TreeNext

\* A step either leaves the tree and the holes alone, or hands the tree the
\* holes that have changed, few as they are.
LEMMA TreeStepChanges ==
  ASSUME [TreeNext]_treeVars
  PROVE  \/ index' = index /\ heap' = heap
         \/ Reindex /\ FewChanges(heap.avl, heap'.avl)
<1>1. ASSUME NEW size \in Sizes, NEW alignment \in Alignments, TreeAlloc(size, alignment)
      PROVE  index' = index /\ heap' = heap
  BY <1>1 DEF TreeAlloc, Alloc
<1>2. ASSUME NEW p \in DOMAIN live, NEW size \in Sizes, TreeRealloc(p, size)
      PROVE  index' = index /\ heap' = heap
  BY <1>2 DEF TreeRealloc, Realloc
<1>3. ASSUME NEW p \in DOMAIN live, TreeFree(p)
      PROVE  Reindex /\ FewChanges(heap.avl, heap'.avl)
  <2>1. Reindex /\ heap' = FreeBlock(heap, p)
    BY <1>3 DEF TreeFree, Free
  <2> QED
    BY <2>1, FreeChanges
<1>4. CASE TreePlace
  <2>1. Reindex /\ heap' = PlaceAt(heap, FindHole, call.size, call.alignment)
    BY <1>4 DEF TreePlace, PlaceIn
  <2> QED
    BY <2>1, PlaceChanges
<1>5. CASE TreeExpand
  <2>1. Reindex /\ heap' = Enlarge(heap)
    BY <1>5 DEF TreeExpand, GrowHeap
  <2> QED
    BY <2>1, EnlargeChanges
<1>6. CASE TreeOutOfFrames
  BY <1>6 DEF TreeOutOfFrames, Starve
<1>7. CASE TreeRelease
  <2>1. Reindex /\ heap' = FreeBlock(heap, call.old)
    BY <1>7 DEF TreeRelease, Release
  <2> QED
    BY <2>1, FreeChanges
<1>8. CASE UNCHANGED treeVars
  BY <1>8 DEF treeVars
<1> QED
  BY <1>1, <1>2, <1>3, <1>4, <1>5, <1>6, <1>7, <1>8 DEF TreeNext

\* Every step keeps the heap right and the tree its index.
LEMMA TreeStepInvariant == TreeInv /\ [TreeNext]_treeVars => TreeInv'
<1>1. SUFFICES ASSUME TreeInv, [TreeNext]_treeVars PROVE TreeInv'
  OBVIOUS
<1>2. IInv /\ Avl(index) /\ Contents(index) = heap.avl
  BY <1>1 DEF TreeInv, TreeIndexesHeap
<1>3. IInv'
  BY <1>1, <1>2, TreeStepRefines, StepInvariant
<1>4. heap.avl \subseteq Holes
  BY <1>2, NoNullHole
<1>5. heap'.avl \subseteq Holes
  BY <1>3 DEF IInv, TypeOK, HeapType, Holes
<1>6. CASE index' = index /\ heap' = heap
  BY <1>2, <1>3, <1>6 DEF TreeInv, TreeIndexesHeap
<1>7. CASE Reindex /\ FewChanges(heap.avl, heap'.avl)
  <2>1. index' = Reinserted(Pruned(index, heap.avl \ heap'.avl), heap'.avl \ heap.avl)
    BY <1>7 DEF Reindex
  <2>2. Avl(index') /\ Contents(index') = heap'.avl
    BY <1>2, <1>4, <1>5, <1>7, <2>1, ReindexedTree
  <2> QED
    BY <1>3, <2>2 DEF TreeInv, TreeIndexesHeap
<1> QED
  BY <1>1, <1>6, <1>7, TreeStepChanges

\* The heap and its tree are right together.
THEOREM TreeInvariant == TreeSpec => []TreeInv
<1> QED
  BY TreeInitInvariant, TreeStepInvariant, PTL DEF TreeSpec

\* After any calls of kalloc_alloc, kalloc_realloc and kalloc_free, through
\* heap growth and failed growth, the tree that kalloc_heap.c keeps is an AVL
\* tree of exactly the holes of the heap with their present sizes.
THEOREM TreeIndexesTheHeap == TreeSpec => []TreeIndexesHeap
<1>1. TreeInv => TreeIndexesHeap
  BY DEF TreeInv
<1> QED
  BY <1>1, TreeInvariant, PTL

\* The allocator that searches the real tree implements the one that may be
\* given any answer FindHoleAnswers allows: what is proved of KallocHeap is
\* true of the allocator with the tree.
THEOREM TreeImplementsHeap == TreeSpec => ImplementsHeap
<1>1. TreeInit => Init
  BY DEF TreeInit
<1> QED
  BY <1>1, TreeInvariant, TreeStepRefines, PTL DEF TreeSpec, ImplementsHeap, Spec
=============================================================================
