---------------------------- MODULE KallocHoles ----------------------------
(***************************************************************************)
(* The vocabulary shared by the two halves of the kernel allocator         *)
(* (src/src/alloc): the AVL tree that indexes the free space of the heap   *)
(* and the heap that asks it for a hole.                                   *)
(*                                                                         *)
(* A hole is the pair the tree's nodes carry: hole_size, and hole_addr,    *)
(* the address of the hole's first usable byte (its header lies just       *)
(* below).  An alignment is 0 (none wanted) or a power of two.             *)
(***************************************************************************)
EXTENDS Integers

Hole(size, addr) == [size |-> size, addr |-> addr]

\* compare_hole: by size first, by address among holes of one size.
HoleLess(g, h) == g.size < h.size \/ (g.size = h.size /\ g.addr < h.addr)

\* get_aligned_address: the mask with ~(alignment - 1) drops the remainder,
\* and an address that was not aligned moves up to the next multiple.
AlignUp(addr, alignment) ==
  IF alignment = 0 THEN addr
  ELSE IF addr % alignment = 0 THEN addr
       ELSE addr - (addr % alignment) + alignment

\* Mutant: the bytes before the aligned address are counted as usable.
HasAlignmentSpace_NoGap(h, wanted, alignment) == h.size >= wanted

\* hole_has_alignment_space
HasAlignmentSpace(h, wanted, alignment) ==
  h.size >= wanted + (AlignUp(h.addr, alignment) - h.addr)

Fitting(holes, wanted, alignment) ==
  {h \in holes : HasAlignmentSpace(h, wanted, alignment)}

\* The answer "no hole" of kalloc_avl_find_hole (a null pointer).
NoHole == Hole(0, 0)

Best(S) == {h \in S : \A g \in S : g = h \/ HoleLess(h, g)}

(***************************************************************************)
(* What the heap may expect of kalloc_avl_find_hole, whatever the shape of *)
(* the tree.  Without alignment: the best fit, or nothing when no hole     *)
(* fits.  With alignment the search abandons the left subtree of every     *)
(* node that does not fit: any hole that fits may come back, and so may    *)
(* "no hole", but only after a walk down the right spine that ends at the  *)
(* largest hole and finds that it does not fit either.                     *)
(* KallocAvl checks the search of the real tree against this definition.   *)
(***************************************************************************)
LargestUnfit(holes, fit) ==
  \E h \in holes \ fit : \A g \in holes : g = h \/ HoleLess(g, h)

\* Mutant: with an alignment the search may also give up early.
FindHoleAnswers_GivesUp(holes, wanted, alignment) ==
  LET fit == Fitting(holes, wanted, alignment)
  IN  IF alignment # 0 \/ fit = {} THEN fit \cup {NoHole} ELSE Best(fit)

FindHoleAnswers(holes, wanted, alignment) ==
  LET fit == Fitting(holes, wanted, alignment)
  IN  IF alignment = 0
      THEN IF fit = {} THEN {NoHole} ELSE Best(fit)
      ELSE IF holes = {} \/ LargestUnfit(holes, fit) THEN fit \cup {NoHole} ELSE fit
=============================================================================
