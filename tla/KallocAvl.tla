------------------------------ MODULE KallocAvl ------------------------------
(***************************************************************************)
(* A tree of holes (KallocTree) that is given and asked to give back holes *)
(* in any order.  The list of free nodes is the number of nodes on it.     *)
(***************************************************************************)
EXTENDS KallocTree, FiniteSets

CONSTANTS
  Keys,      \* bound: the holes that may be put in the tree
  Capacity,  \* num_nodes of kalloc_avl_init
  Wanted,    \* bound: the sizes searched for
  Alignings  \* bound: the alignments searched for

\* A null pointer is no hole: it is the search's answer that there is none.
ASSUME KeysAssumption == Keys \subseteq [size : Nat, addr : Nat \ {0}]
ASSUME CapacityAssumption == Capacity \in Nat \ {0}
ASSUME SearchAssumption == Wanted \subseteq Nat /\ Alignings \subseteq Nat

VARIABLES
  root,    \* avl->root
  free,    \* length of the list avl->free
  failed,  \* TRUE when an assertion has failed: the kernel has stopped
  holes    \* what the caller has inserted and not removed

avlVars == <<root, free, failed, holes>>

-----------------------------------------------------------------------------
AvlInit ==
  /\ root = Nil
  /\ free = Capacity
  /\ failed = FALSE
  /\ holes = {}

\* The list of free nodes loses its first node, or gets a node back.
get_free_node == free' = free - 1
put_free_node == free' = free + 1

\* kalloc_avl_insert; get_free_node asserts that a node is left.
kalloc_avl_insert(hole) ==
  /\ ~failed
  /\ hole \notin holes
  /\ IF free = 0
     THEN failed' = TRUE /\ UNCHANGED <<root, free, holes>>
     ELSE LET result == Inserted(root, hole)
          IN  /\ root' = result.tree
              /\ failed' = ~result.ok
              /\ get_free_node
              /\ holes' = holes \cup {hole}

\* kalloc_avl_remove, of a hole that was inserted.
kalloc_avl_remove(hole) ==
  /\ ~failed
  /\ hole \in holes
  /\ LET result == Removed(root, hole)
     IN  /\ root' = result.tree
         /\ failed' = ~result.ok
         /\ put_free_node
         /\ holes' = holes \ {hole}

AvlNext ==
  \/ \E hole \in Keys : kalloc_avl_insert(hole)
  \/ \E hole \in holes : kalloc_avl_remove(hole)

AvlSpec == AvlInit /\ [][AvlNext]_avlVars

-----------------------------------------------------------------------------
\* The tree is ordered and balanced, and every height stored in a node is the
\* node's height, although insert_internal and remove_internal only adjust
\* the heights on the way up by one, from the flag of the level below; the
\* nodes in the tree and those on the list are all that the pool has.
TreeOK ==
  /\ Avl(root) /\ holes \subseteq Keys /\ failed \in BOOLEAN
  /\ free \in 0..Capacity /\ free + Cardinality(Contents(root)) = Capacity

\* No hole is lost or left behind by a rotation, or by a removal that moves
\* the predecessor's hole into a node.
ContentsOK == Contents(root) = holes

\* The assertions on the balance factors of kalloc_avl.c (196, 216, 296, 321)
\* hold, and the pool is not exhausted before there are as many holes as nodes.
\* Those on the links of the free list (42 and 55) are not modelled: the list
\* is the number of its nodes.
AssertsHold == failed => Cardinality(holes) = Capacity

\* Whatever insertions and removals shaped the tree, the search returns what
\* KallocHeap counts on: the best fit, and with an alignment some hole that
\* fits, or none when the largest hole does not.
FindOK ==
  \A wanted \in Wanted, alignment \in Alignings :
    avl_find_hole(root, wanted, alignment)
      \in FindHoleAnswers(holes, wanted, alignment)

\* What the comment above kalloc_avl_find_hole says: "The chosen hole will
\* always be the smallest one possible."  Whenever some hole fits, the search
\* gives one of the smallest that do.
ChosenIsSmallest ==
  \A wanted \in Wanted, alignment \in Alignings :
    LET fit == Fitting(holes, wanted, alignment)
    IN  fit # {} => avl_find_hole(root, wanted, alignment) \in Best(fit)

=============================================================================
