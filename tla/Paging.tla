------------------------------- MODULE Paging -------------------------------
(***************************************************************************)
(* Address spaces: the frame bitmap (util/bitmap.c) and the page tables of *)
(* paging.c, as far as process.c relies on them.                           *)
(*                                                                         *)
(* Pages and frames are numbers.  A page directory is the set of its page  *)
(* tables and the function from its present pages to their frames.  The    *)
(* first KernelTables tables (1GB) belong to the kernel and are linked     *)
(* into every address space; the others are a process's own.  Page tables  *)
(* and directories of processes live in the kernel heap.                   *)
(***************************************************************************)
EXTENDS Integers

CONSTANTS
  Frames,         \* the frames of the bitmap, that of the boot stack's last page
                  \* too, whose bit is the first after the end
  Reserved,       \* frames marked used for good: not addressable (0-1MB)
  PagesPerTable,  \* 1024
  KernelTables,   \* 1024 / 4
  NumTables,      \* 1024
  FirstTablePage, \* KERNEL_PAGE_TABLES_ADDRESS / 0x1000
  CodePages,      \* kernel code and data, and the video memory
  OldStackPages,  \* the stack the kernel boots on, below KERNEL_STACK_ADDRESS
  HeapStart,      \* the page of KERNEL_HEAP_ADDRESS
  HeapEnd,        \* bound: the page that the heap does not reach
  KStackLast,     \* the page of KERNEL_STACK_ADDRESS_IN_PROCESS_ADDRESS_SPACE
  KStackCount     \* KERNEL_STACK_RESERVED_PAGES_IN_PROCESS_ADDRESS_SPACE

TableOf(page) == page \div PagesPerTable
TablesOf(pages) == {TableOf(page) : page \in pages}

\* Where the kernel keeps its own page table t.
TablePage(t) == FirstTablePage + t

ASSUME LayoutAssumption ==
  /\ PagesPerTable \in Nat \ {0} /\ KernelTables \in Nat /\ NumTables \in Nat
  /\ FirstTablePage \in Nat /\ HeapStart \in Nat \ {0} /\ HeapEnd \in Nat
  /\ \A p \in HeapStart..HeapEnd - 1 : TableOf(p) < KernelTables
  /\ KStackLast \in Nat /\ KStackCount \in 1..KStackLast
  /\ CodePages \subseteq Nat /\ OldStackPages \subseteq Nat
  /\ \A t \in TablesOf(CodePages) : t < KernelTables
  /\ \A t \in TablesOf(OldStackPages) : t >= KernelTables
ASSUME FramesAssumption == Frames \subseteq Nat /\ Reserved \subseteq Frames

-----------------------------------------------------------------------------
\* bitmap_get_first_clear, when there is one.
FirstClear(used) ==
  CHOOSE f \in Frames \ used : \A g \in Frames \ used : f <= g

Map(pages, page, frame) ==
  [p \in DOMAIN pages \cup {page} |-> IF p = page THEN frame ELSE pages[p]]
Keep(pages, kept) == [p \in DOMAIN pages \cap kept |-> pages[p]]
FramesOf(pages) == {pages[p] : p \in DOMAIN pages}

\* paging_init: the tables in which other tables' pages lie are made first,
\* and everything is mapped to the frame of the same number.
BootTables ==
  TableOf(FirstTablePage)..TableOf(FirstTablePage + NumTables)
    \cup TablesOf(CodePages \cup OldStackPages)
BootPages ==
  CodePages \cup OldStackPages \cup {TablePage(t) : t \in BootTables}

ASSUME BootAssumption == BootPages \subseteq Frames

\* The pages a process does not share with the kernel.
ProcessPages(pages) == {p \in DOMAIN pages : TableOf(p) >= KernelTables}

KStackPages == (KStackLast - KStackCount + 1)..KStackLast

\* is_page_part_of_kernel_stack_in_process_address_space: one page more than
\* the stack has.
KeptPages == (KStackLast - KStackCount)..KStackLast

ASSUME StackAssumption ==
  /\ KeptPages \cap OldStackPages = {}
  /\ \A t \in TablesOf(KeptPages) : t >= KernelTables

\* paging_clean_all_non_kernel_pages_from_page_directory
Cleaned(pages) == Keep(pages, KeptPages)

\* Mutant: a table is kept when it has lost a page.
CleanedTables_Inverted(pages) == TablesOf(DOMAIN pages \ KeptPages)

\* The tables that it does not destroy: a page of theirs is left.
CleanedTables(pages) == TablesOf(DOMAIN pages \cap KeptPages)

\* The frames it clears in the bitmap.
CleanedFrames(pages) == {pages[p] : p \in DOMAIN pages \ KeptPages}
=============================================================================
