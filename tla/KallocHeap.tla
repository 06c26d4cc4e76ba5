----------------------------- MODULE KallocHeap -----------------------------
(***************************************************************************)
(* The kernel heap: kalloc_heap.c under the calls of kalloc.c.             *)
(*                                                                         *)
(* The heap is one run of bytes cut into blocks.  A block is a header, its *)
(* user bytes and a footer that points back to the header.  Memory is      *)
(* modelled by what the code reads back from it: the fields of the headers *)
(* and of the footers, each a function on the addresses at which a header  *)
(* (a footer) lies; an address leaves the function when the code gives its *)
(* bytes to the user area of a block.  The AVL tree is here the set of the *)
(* holes it holds, searched through FindHoleAnswers (KallocHoles);         *)
(* KallocHeapAvl puts the real tree in its place.                          *)
(*                                                                         *)
(* A call that has to enlarge the heap calls itself once for every page,   *)
(* and a page may be refused: the steps of a call are the steps of the     *)
(* specification.  Calls themselves do not overlap here.                   *)
(***************************************************************************)
EXTENDS KallocHoles

CONSTANTS
  HeaderSize,   \* sizeof(Kalloc_Heap_Header)
  FooterSize,   \* sizeof(Kalloc_Heap_Footer)
  PageSize,     \* PAGE_SIZE
  InitialAddr,  \* heap->initial_addr, above the pages of the AVL nodes
  InitialPages, \* the argument of kalloc_init
  MaxPages,     \* bound: pages for which the frame allocator has a frame
  Sizes,        \* bound: the sizes callers ask for
  Alignments    \* the alignments of kalloc_alloc_aligned, and 0 for none

ASSUME LayoutAssumption ==
  /\ HeaderSize \in Nat \ {0}
  /\ FooterSize \in Nat \ {0}
  /\ PageSize \in Nat
  /\ PageSize > HeaderSize + FooterSize
ASSUME HeapAssumption ==
  /\ InitialAddr \in Nat
  /\ InitialPages \in Nat \ {0}
  /\ MaxPages \in Nat
ASSUME RequestAssumption ==
  /\ Sizes \subseteq Nat
  /\ Alignments \subseteq Nat
  /\ 0 \in Alignments

VARIABLES
  heap,   \* Kalloc_Heap, with the memory it manages
  call,   \* the call in progress
  live    \* what callers hold: pointer |-> what they asked for

vars == <<heap, call, live>>

-----------------------------------------------------------------------------
\* Memory: what a header and a footer hold, the tree's contents, and the
\* assertions that have failed.

Heap(size, hsize, used, footer, avl, faults) ==
  [size |-> size, hsize |-> hsize, used |-> used, footer |-> footer,
   avl |-> avl, faults |-> faults]

\* The heap m with other blocks, and with another tree.
WithBlocks(m, size, hsize, used, footer) ==
  Heap(size, hsize, used, footer, m.avl, m.faults)
WithTree(m, avl, faults) ==
  Heap(m.size, m.hsize, m.used, m.footer, avl, faults)

Write(f, addr, value) ==
  [a \in DOMAIN f \cup {addr} |-> IF a = addr THEN value ELSE f[a]]
Forget(f, addr) == [a \in DOMAIN f \ {addr} |-> f[a]]

Headers(m) == DOMAIN m.hsize
FooterOf(m, h) == h + HeaderSize + m.hsize[h]
NextHeader(m, h) == FooterOf(m, h) + FooterSize
End(m) == InitialAddr + m.size
HoleAt(m, h) == Hole(m.hsize[h], h + HeaderSize)

\* assert(): a condition that fails stops the kernel, under the name given.
Failing(m, condition, name) ==
  IF condition THEN m.faults ELSE m.faults \cup {name}
Assert(m, condition, name) == WithTree(m, m.avl, Failing(m, condition, name))

\* kalloc_avl_insert: a hole that is already there fails an assertion.
AvlInsert(m, h) ==
  WithTree(m, m.avl \cup {HoleAt(m, h)},
           Failing(m, HoleAt(m, h) \notin m.avl, "same element"))

\* Mutant: the caller forgets to take the hole out of the tree.
AvlRemove_Forgotten(m, h) == m

\* kalloc_avl_remove: a hole that is not there goes unnoticed by the caller,
\* and the tree is then rebalanced from an uninitialised flag.
AvlRemove(m, h) ==
  WithTree(m, m.avl \ {HoleAt(m, h)},
           Failing(m, HoleAt(m, h) \in m.avl, "not found"))

-----------------------------------------------------------------------------
\* The pointer surgery of kalloc_heap.c, on a heap m.

\* Mutant: the footer of the block taken in still points to its old header.
Merge_StaleFooter(m, g, n) ==
  WithBlocks(m, m.size,
    Forget(Write(m.hsize, g, m.hsize[g] + m.hsize[n] + HeaderSize + FooterSize), n),
    Forget(m.used, n),
    Forget(m.footer, FooterOf(m, g)))

\* The block n, next to g, becomes part of g.
Merge(m, g, n) ==
  WithBlocks(m, m.size,
    Forget(Write(m.hsize, g, m.hsize[g] + m.hsize[n] + HeaderSize + FooterSize), n),
    Forget(m.used, n),
    Forget(Write(m.footer, FooterOf(m, n), g), FooterOf(m, g)))

\* The block before header h, which the footer just below h leads to.
Previous(m, h) == m.footer[h - FooterSize]

\* The first gap bytes of hole t go to the block before it, and the hole's
\* header moves up by as much.
GiveGapToPrevious(m, t, gap) ==
  LET previous == Previous(m, t)
  IN  WithBlocks(m, m.size,
        Write(Write(Forget(m.hsize, t), previous, m.hsize[previous] + gap),
              t + gap, m.hsize[t] - gap),
        Write(Forget(m.used, t), t + gap, 0),
        Write(Write(Forget(m.footer, t - FooterSize), t + gap - FooterSize, previous),
              FooterOf(m, t), t + gap))

\* Block t keeps size bytes; what is left of it becomes a hole.
Split(m, t, size) ==
  LET hole == t + HeaderSize + size + FooterSize
  IN  WithBlocks(m, m.size,
        Write(Write(m.hsize, t, size), hole,
              m.hsize[t] - size - HeaderSize - FooterSize),
        Write(Write(m.used, t, 1), hole, 0),
        Write(Write(m.footer, t + HeaderSize + size, t), FooterOf(m, t), hole))

\* A hole of one page, after the last block.
AppendPage(m) ==
  WithBlocks(m, m.size + PageSize,
    Write(m.hsize, End(m), PageSize - HeaderSize - FooterSize),
    Write(m.used, End(m), 0),
    Write(m.footer, End(m) + PageSize - FooterSize, End(m)))

\* The last block, a hole, takes in the new page.
GrowLast(m, last) ==
  WithBlocks(m, m.size + PageSize,
    Write(m.hsize, last, m.hsize[last] + PageSize),
    m.used,
    Forget(Write(m.footer, End(m) + PageSize - FooterSize, last),
           End(m) - FooterSize))

\* Mutant: the room for the new header and footer is not counted.
LeavesHole_NoRoom(m, t, size) == m.hsize[t] > size

\* Enough is left of block t for a header, a footer and at least one byte.
LeavesHole(m, t, size) == m.hsize[t] > size + HeaderSize + FooterSize

MarkUsed(m, h, used) ==
  WithBlocks(m, m.size, m.hsize, Write(m.used, h, used), m.footer)

\* kalloc_heap_alloc, once the tree has named a hole.
PlaceAt(m, hole, size, alignment) ==
  LET t       == hole.addr - HeaderSize
      removed == AvlRemove(Assert(m, m.used[t] = 0, "hole is used"), t)
      gap     == AlignUp(hole.addr, alignment) - hole.addr
      aligned == IF gap = 0 THEN removed
                 ELSE IF t = InitialAddr
                      THEN Assert(removed, FALSE, "aligned-alloc in an empty heap")
                      ELSE GiveGapToPrevious(removed, t, gap)
      block   == t + gap
  IN  IF aligned.faults # {} THEN aligned
      ELSE IF LeavesHole(aligned, block, size)
           THEN AvlInsert(Split(aligned, block, size),
                          block + HeaderSize + size + FooterSize)
           ELSE MarkUsed(aligned, block, 1)

\* The other branch of kalloc_heap_alloc: one more page at the end.
Enlarge(m) ==
  LET last == m.footer[End(m) - FooterSize]
  IN  IF m.used[last] = 1
      THEN AvlInsert(AppendPage(m), End(m))
      ELSE AvlInsert(GrowLast(AvlRemove(m, last), last), last)

\* Mutant: the block after the freed one is not looked at.
PrecedesHole_Never(m, h) == FALSE

\* A hole ends where block h starts; a hole starts where block h ends.
FollowsHole(m, h) == h # InitialAddr /\ m.used[Previous(m, h)] = 0
PrecedesHole(m, h) ==
  NextHeader(m, h) # End(m) /\ m.used[NextHeader(m, h)] = 0

\* The two joins of kalloc_heap_free.
JoinPrevious(m, h) ==
  IF FollowsHole(m, h)
  THEN Merge(AvlRemove(m, Previous(m, h)), Previous(m, h), h)
  ELSE m
JoinNext(m, h) ==
  IF PrecedesHole(m, h)
  THEN Merge(AvlRemove(m, NextHeader(m, h)), h, NextHeader(m, h))
  ELSE m

\* kalloc_heap_free: first the hole before, then the hole after.
FreeBlock(m, ptr) ==
  LET h       == ptr - HeaderSize
      checked == Assert(m, m.used[h] = 1, "block is not used")
      start   == IF FollowsHole(m, h) THEN Previous(m, h) ELSE h
      joined  == JoinNext(JoinPrevious(checked, h), start)
  IN  AvlInsert(MarkUsed(joined, start, 0), start)

-----------------------------------------------------------------------------
\* The calls.  "boot" is kalloc_init's own request for one byte, whose block
\* nobody frees.

Idle == [op |-> "none", size |-> 0, alignment |-> 0, old |-> 0, grown |-> 0]

Request(op, size, alignment, old) ==
  [op |-> op, size |-> size, alignment |-> alignment, old |-> old, grown |-> 0]

\* What a caller knows about the block it was given.
Held(size, alignment) == [size |-> size, alignment |-> alignment]

\* kalloc_heap_create
InitialSize == InitialPages * PageSize
Create ==
  LET hole == InitialSize - HeaderSize - FooterSize
  IN  Heap(InitialSize,
           [h \in {InitialAddr} |-> hole],
           [h \in {InitialAddr} |-> 0],
           [f \in {InitialAddr + InitialSize - FooterSize} |-> InitialAddr],
           {Hole(hole, InitialAddr + HeaderSize)},
           {})

\* Mutant: kalloc_init does not allocate its byte.
Init_NoBoot ==
  /\ heap = Create
  /\ call = Idle
  /\ live = [p \in {} |-> Held(0, 0)]

Init ==
  /\ heap = Create
  /\ call = Request("boot", 1, 0, 0)
  /\ live = [p \in {} |-> Held(0, 0)]

Running(op) == heap.faults = {} /\ call.op = op
Allocating == heap.faults = {} /\ call.op \in {"boot", "alloc", "realloc"}

\* kalloc_alloc and kalloc_alloc_aligned are entered.
Alloc(size, alignment) ==
  /\ Running("none")
  /\ call' = Request("alloc", size, alignment, 0)
  /\ UNCHANGED <<heap, live>>

\* kalloc_realloc, by a caller that states the size it asked for.
Realloc(p, size) ==
  /\ Running("none")
  /\ p \in DOMAIN live
  /\ IF size <= live[p].size
     THEN /\ live' = [live EXCEPT ![p].size = size]
          /\ UNCHANGED call
     ELSE /\ call' = Request("realloc", size, 0, p)
          /\ UNCHANGED live
  /\ UNCHANGED heap

\* kalloc_heap_alloc is told to use hole, and the call returns.
PlaceIn(hole) ==
  LET p == AlignUp(hole.addr, call.alignment)
  IN  /\ heap' = PlaceAt(heap, hole, call.size, call.alignment)
      /\ live' = IF call.op = "boot" THEN live
                 ELSE Write(live, p, Held(call.size, call.alignment))
      /\ call' = IF call.op = "realloc"
                 THEN Request("release", 0, 0, call.old) ELSE Idle

\* kalloc_heap_alloc finds a hole.
Place ==
  /\ Allocating
  /\ \E hole \in FindHoleAnswers(heap.avl, call.size, call.alignment) \ {NoHole} :
       PlaceIn(hole)

\* kalloc_heap_alloc is told that there is no hole: the heap gets a page,
\* and the call starts again.
GrowHeap ==
  /\ heap.size < MaxPages * PageSize
  /\ heap' = Enlarge(heap)
  /\ call' = [call EXCEPT !.grown = @ + PageSize]
  /\ UNCHANGED live

Expand ==
  /\ Allocating
  /\ NoHole \in FindHoleAnswers(heap.avl, call.size, call.alignment)
  /\ GrowHeap

\* paging_create_kernel_page_with_any_frame has no frame left: panic.
Starve ==
  /\ heap.size >= MaxPages * PageSize
  /\ call' = Request("oom", 0, 0, 0)
  /\ UNCHANGED <<heap, live>>

OutOfFrames ==
  /\ Allocating
  /\ NoHole \in FindHoleAnswers(heap.avl, call.size, call.alignment)
  /\ Starve

\* kalloc_free
Free(p) ==
  /\ Running("none")
  /\ p \in DOMAIN live
  /\ heap' = FreeBlock(heap, p)
  /\ live' = Forget(live, p)
  /\ UNCHANGED call

\* The end of kalloc_realloc, after the copy.
Release ==
  /\ Running("release")
  /\ heap' = FreeBlock(heap, call.old)
  /\ live' = Forget(live, call.old)
  /\ call' = Idle

Next ==
  \/ \E size \in Sizes, alignment \in Alignments : Alloc(size, alignment)
  \/ \E p \in DOMAIN live, size \in Sizes : Realloc(p, size)
  \/ \E p \in DOMAIN live : Free(p)
  \/ Place
  \/ Expand
  \/ OutOfFrames
  \/ Release

Spec == Init /\ [][Next]_vars

-----------------------------------------------------------------------------
\* Properties.

HeapType(m) ==
  /\ m.size \in Nat
  /\ Headers(m) \subseteq Nat
  /\ m.hsize \in [Headers(m) -> Nat]
  /\ m.used \in [Headers(m) -> {0, 1}]
  /\ DOMAIN m.footer \subseteq Nat
  /\ m.footer \in [DOMAIN m.footer -> Headers(m)]
  /\ m.avl \subseteq [size : Nat, addr : Nat]

\* Every field holds what its C type and its use in kalloc_heap.c allow.
TypeOK ==
  /\ HeapType(heap)
  /\ call \in [op : {"none", "boot", "alloc", "realloc", "release", "oom"},
                size : Nat, alignment : Nat, old : Nat, grown : Nat]
  /\ DOMAIN live \subseteq Nat
  /\ live \in [DOMAIN live -> [size : Nat, alignment : Nat]]

\* Blocks in address order cover the heap without a gap or an overlap.
Tiled(m) ==
  /\ InitialAddr \in Headers(m)
  /\ \A h \in Headers(m) : h >= InitialAddr /\ NextHeader(m, h) <= End(m)
  /\ \A h \in Headers(m) :
       NextHeader(m, h) = End(m) \/ NextHeader(m, h) \in Headers(m)
  /\ \A g, h \in Headers(m) : g < h => NextHeader(m, g) <= h

\* A footer lies at the end of every block and points back to its header, so
\* that the block before any header, and the last block, can be found.
FootersPointBack(m) ==
  /\ DOMAIN m.footer = {FooterOf(m, h) : h \in Headers(m)}
  /\ \A h \in Headers(m) : m.footer[FooterOf(m, h)] = h

\* Every header but the first, and the end of the heap, follows a block.
Linked(m) ==
  \A a \in (Headers(m) \ {InitialAddr}) \cup {End(m)} :
    \E g \in Headers(m) : NextHeader(m, g) = a

\* What check_heap (kalloc_test.c) walks the heap for, after any sequence of
\* calls: each header's footer leads back to it and the walk from the first
\* header ends exactly at the end of the heap.
WellFormed == Tiled(heap) /\ FootersPointBack(heap) /\ Linked(heap)

\* The holes of m; a block that a call has taken out of the tree is not one.
HolesOf(m, taken) == {h \in Headers(m) \ taken : m.used[h] = 0}
Apart(m, taken) ==
  \A g, h \in HolesOf(m, taken) : NextHeader(m, g) # h
Indexed(m, taken) ==
  m.avl = {HoleAt(m, h) : h \in HolesOf(m, taken)}

\* No two holes are neighbours.  kalloc_heap_alloc relies on it when it adds
\* an alignment gap to the previous block without looking at the tree: had
\* that block been a hole, the tree would keep its old size.
Coalesced == Apart(heap, {})

\* The tree holds exactly the holes of the heap, each with its present size.
HolesExact == Indexed(heap, {})

\* Every pointer a caller holds has the bytes it asked for, aligned as it
\* asked, in a block of its own that is marked used and that no other holder
\* nor the block of kalloc_init shares.
LiveBlocks ==
  \A p \in DOMAIN live :
    /\ p - HeaderSize \in Headers(heap) \ {InitialAddr}
    /\ heap.used[p - HeaderSize] = 1
    /\ heap.hsize[p - HeaderSize] >= live[p].size
    /\ AlignUp(p, live[p].alignment) = p

\* The bytes two callers were promised never overlap.
LiveDisjoint ==
  \A p, q \in DOMAIN live :
    p < q => p + live[p].size < q

\* No assertion of kalloc_heap.c or of the tree's insertion fails, and the
\* tree is never asked to remove a hole it does not have.
NoAssertFails == heap.faults = {}

\* A request makes the heap grow by no more pages than it needs: however the
\* search walks the tree, the pages added at the end of the heap for one call
\* are used before another one is asked for.
BoundedGrowth ==
  call.grown <= call.size + call.alignment + HeaderSize + FooterSize + PageSize

-----------------------------------------------------------------------------
\* The inductive invariant.

\* The last block of m is a hole of at least so many bytes.
EndsInHole(m, size) ==
  \E l \in Headers(m) :
    NextHeader(m, l) = End(m) /\ m.used[l] = 0 /\ m.hsize[l] >= size

\* Until kalloc_init's byte is allocated the heap is one hole; from then on
\* the first block is in use, so an aligned block always has a previous one.
Booted ==
  IF call.op = "boot"
  THEN /\ Headers(heap) = {InitialAddr}
       /\ heap.used[InitialAddr] = 0
       /\ heap.hsize[InitialAddr] >= call.size + call.alignment
       /\ call.alignment = 0
       /\ DOMAIN live = {}
  ELSE heap.used[InitialAddr] = 1

\* The pages a call has added are all in the hole at the end of the heap.
GrowthUnused ==
  /\ call.op \notin {"alloc", "realloc"} => call.grown = 0
  /\ call.grown = 0 \/ /\ call.grown >= PageSize
                       /\ EndsInHole(heap, call.grown - HeaderSize - FooterSize)

IInv ==
  /\ TypeOK /\ WellFormed /\ HolesExact /\ Coalesced /\ NoAssertFails
  /\ LiveBlocks
  /\ Booted
  /\ call.op \in {"realloc", "release"} => call.old \in DOMAIN live
  /\ GrowthUnused
  /\ BoundedGrowth

=============================================================================
