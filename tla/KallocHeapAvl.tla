---------------------------- MODULE KallocHeapAvl ----------------------------
(***************************************************************************)
(* The allocator with its real index: the heap of KallocHeap, searched     *)
(* through the AVL tree of KallocTree instead of FindHoleAnswers.  Which   *)
(* hole a call gets, and whether the heap grows, now depends on the shape  *)
(* that earlier calls gave the tree.                                       *)
(***************************************************************************)
EXTENDS KallocHeap, KallocTree

VARIABLE index   \* heap->avl.root

treeVars == <<heap, call, live, index>>

-----------------------------------------------------------------------------
RemoveHole(t, hole) == Removed(t, hole).tree
InsertHole(t, hole) == Inserted(t, hole).tree

Lowest(S) == CHOOSE h \in S : \A g \in S : h.addr <= g.addr
Without(t, gone) == IF gone = {} THEN t ELSE RemoveHole(t, Lowest(gone))
Reinserted(t, new) ==
  IF new = {} THEN t ELSE InsertHole(t, CHOOSE h \in new : TRUE)

\* The calls of kalloc_heap.c to the tree in a step from heap to heap': the
\* holes that go, two at most, are removed, the one before a block ahead of
\* the one after it, and then the hole that is new is inserted.
Pruned(t, gone) ==
  IF gone = {} THEN t ELSE Without(RemoveHole(t, Lowest(gone)), gone \ {Lowest(gone)})
Reindex ==
  index' = Reinserted(Pruned(index, heap.avl \ heap'.avl), heap'.avl \ heap.avl)

FindHole == avl_find_hole(index, call.size, call.alignment)

TreeInit == Init /\ index = InsertHole(Nil, HoleAt(heap, InitialAddr))

TreePlace == Allocating /\ FindHole # NoHole /\ PlaceIn(FindHole) /\ Reindex
TreeExpand == Allocating /\ FindHole = NoHole /\ GrowHeap /\ Reindex
TreeOutOfFrames == Allocating /\ FindHole = NoHole /\ Starve /\ UNCHANGED index

TreeAlloc(size, alignment) == Alloc(size, alignment) /\ UNCHANGED index
TreeRealloc(p, size) == Realloc(p, size) /\ UNCHANGED index
TreeFree(p) == Free(p) /\ Reindex
TreeRelease == Release /\ Reindex

TreeNext ==
  \/ \E size \in Sizes, alignment \in Alignments : TreeAlloc(size, alignment)
  \/ \E p \in DOMAIN live, size \in Sizes : TreeRealloc(p, size)
  \/ \E p \in DOMAIN live : TreeFree(p)
  \/ TreePlace
  \/ TreeExpand
  \/ TreeOutOfFrames
  \/ TreeRelease

TreeSpec == TreeInit /\ [][TreeNext]_treeVars

-----------------------------------------------------------------------------
\* The tree stays an AVL tree of exactly the holes of the heap, although each
\* call hands it the sizes it has just read from headers it is rewriting.
TreeIndexesHeap == Avl(index) /\ Contents(index) = heap.avl

\* The allocator with the tree is an instance of the one proved correct in
\* KallocHeapProof: whatever its shape, the tree gives an answer that
\* FindHoleAnswers allows, so all that is proved of KallocHeap holds here.
ImplementsHeap == Spec
=============================================================================
