# A TLA+ model of rawOS

rawOS (`src/`) is a small 32-bit x86 kernel in C: a paged memory manager, a
kernel heap, processes with `fork`, `execve` and `exit` under a round-robin
timer, a virtual file system over a ramdisk and two devices, and a loader for
its own program format. There is one CPU. Concurrency comes from interrupts:
the timer and the keyboard may interrupt user code and every system call that
has not disabled interrupts (`fork`, `execve`, `exit` disable them; `open`,
`read`, `write`, `close`, `print`, `pos_cursor`, `clear_screen` do not).

The modules here are translated from the source. `PROJECT.json` gives, for
each definition, the lines it stands for. Definitions keep the names of the C
functions where TLA+ allows it; a definition called `X_Something` with the
comment "Mutant:" is a plausible bug in `X`, used to test that a property can
fail, and is no part of any specification.

## 1. Inventory

| Component (source under `src/src/`) | State it keeps | Operations | What makes it correct |
|---|---|---|---|
| Kernel heap (`alloc/kalloc.c`, `alloc/kalloc_heap.c`) | blocks with header and footer inside `[initial_addr, initial_addr + size)` | init, alloc (aligned or not), free, realloc, growth by a page | blocks tile the heap; holes never adjacent; callers' blocks disjoint, large enough, aligned; growth bounded |
| Hole index (`alloc/kalloc_avl.c`) | AVL tree of (size, address), pool of nodes | insert, remove, find | balanced, heights right, exactly the holes of the heap; search answer fits |
| Frame bitmap (`util/bitmap.c`) | one bit per physical frame | set, clear, first clear | a frame is marked exactly while something uses it |
| Paging (`paging.c`) | kernel and process page directories, CR3 | create and free pages, clone, clean, link a kernel table to all address spaces | no frame in two mappings; the kernel is mapped in every address space; CR3 is a directory |
| Processes (`process.c`, `timer.c`) | ring of `Process`, `active_process`, pid counter | init, fork, execve, exit, switch | the ring is whole; whoever is switched to can run; isolation; a child is a copy; everybody gets the CPU |
| Program loader (`rawx.c`) | none | load a program into the active address space | no page is created twice |
| Hash map (`hash_map.h`) | open-addressing table | create, put, get, delete, growth | is a dictionary; probing ends |
| Keyboard (`keyboard.c`, `fs/dev.c`) | registered buffers, shift | register, interrupt handler, blocking read | the key reaches the reader, the read returns, nothing stays registered |
| Files (`fs/vfs.c`, `fs/initrd.c`, `fs/util.c`, `fs/dev.c`, descriptors in `process.c`) | descriptor map per process, ramdisk image | open, read, write, close, fork's copy of the map | a descriptor stays what it was opened as; reads return the file's bytes |
| Interrupts (`interrupt.c`, `asm/interrupt.asm`), timer (`timer.c`), kernel entry (`kernel.c`) | the interrupt flag, the PICs, handlers, the tick, kernel stacks | registration, dispatch, acknowledgement, `main`'s order | requests are always served; critical sections are entered by one process; stacks do not grow without end |
| Screen (`screen.c`), printf (`util/printf.c`) | the cursor, the video memory | print, write, move, clear, scroll | a call leaves its text and the cursor behind it; the cursor stays near the screen |
| System calls (`syscall.c`, stubs) | none of its own | dispatch | see the components called |
| GDT, TSS, string helpers | constant tables | set-up | not modelled, section 8 |

Interactions. The heap asks paging for a frame when it grows; a new heap page
may need a new kernel page table, and that is written into the directory of
every process of the ring. Paging in turn takes page directories and tables
from the heap. `fork` and `execve` drive both, page by page. The timer's
handler calls `process_switch`; the keyboard's handler writes through pointers
that a preempted `dev_read` has registered. Descriptors live in a hash map
whose storage comes from the heap. Every process prints through one cursor.

What is hard here: allocator invariants that one call breaks and another call
notices thousands of steps later; tree heights that are maintained by a flag;
the heap growing into a new page table in the middle of `fork`; frames given
back out of order; interrupts between the instructions of
`buffers[num++] = kerb`, or of an update of the cursor; a context switch that
sets the interrupt flag in the middle of a handler; an allocation that loses
the CPU half way; a hash map whose storage two processes share after a fork. `PROJECT.json`
lists each hazard with its line and the properties that are aimed at it.

## 2. Modules

| Module | Models | Composes |
|---|---|---|
| `KallocHoles` | a hole, the order of holes, alignment, and what the heap may expect of a search (`FindHoleAnswers`) | |
| `KallocTree` | the AVL tree as a value: insertion, removal, rotations, heights kept by the flag, the search | `KallocHoles` |
| `KallocAvl`, `MCKallocAvl` | a tree given and asked for holes in any order, with its pool of nodes | `KallocTree` |
| `KallocHeap` | the heap; its tree is a set of holes, its search any answer in `FindHoleAnswers` | `KallocHoles` |
| `KallocHeapAvl` | the heap searched through the real tree; implements `KallocHeap` | `KallocHeap`, `KallocTree` |
| `KallocPreempted` | the heap under `open`, whose allocation loses the CPU after its search | `KallocHeap` |
| `KallocHeapProof` | theorems about `KallocHeap` | `KallocHeap` |
| `KallocAvlProof` | theorems about `KallocAvl` and `KallocHeapAvl`, the refinement included | `KallocAvl`, `KallocHeapAvl`, `KallocHeapProof`, `NaturalsLemmas` |
| `NaturalsLemmas` | least elements, induction, loops and recursion over natural numbers, for the proofs | |
| `Paging` | address layout, frame bitmap, what clean keeps | |
| `Process`, `MCProcess` | processes, address spaces, scheduling | `Paging` |
| `ProcessProof` | theorems about `Process` | `Process`, `NaturalsLemmas` |
| `HashMap`, `MCHashMap` | the hash map; implements `Dictionary` | |
| `Dictionary` | the abstract specification of a map: put, get, delete | |
| `HashMapProof` | theorems about `HashMap`, the refinement included | `HashMap`, `NaturalsLemmas` |
| `Interrupts` | the PICs, the interrupt flag, kernel stacks, boot, the timer's handler, and `fork`, `execve`, `exit`, `process_switch` as far as these are concerned | |
| `Keyboard` | registration, the handler and `dev_read`, instruction by instruction, under the interrupts of the kernel | `Interrupts` |
| `KeyboardProof` | theorems about `Interrupts` and `Keyboard` | `Keyboard` |
| `Screen`, `MCScreen` | the shared cursor, access by access, and what is on the screen | |
| `ScreenProof` | theorems about `Screen` | `Screen`, `NaturalsLemmas` |
| `Files`, `MCFiles` | path walk, file systems, descriptors, and fork's copy of them | |
| `FilesProof` | theorems about `Files` | `Files`, `NaturalsLemmas` |

### The allocator

`KallocHeap` keeps the heap as functions from addresses: `hsize` and `used`
(headers), `footer` (each footer's pointer to its header), `avl` (the index),
`size`, and `faults`, the assertions that have failed. `call` is the request
under way, `live` what callers hold. `Alloc`, `Realloc` and `Free` are the
calls; `Place`, `Expand`, `OutOfFrames` and `Release` the rounds of an
allocation: `kalloc_heap_alloc` calls itself again after it has grown the heap
by a page, so each growth is a step. A heap operation of `KallocHeap` is not
interrupted: those of `fork`, `execve` and `exit` cannot be. `open` can, and
`KallocPreempted` adds it: `Search` is the tree's answer to a hash map that has
to grow, `GoOn` what the process does with it when it gets the CPU back. Other
places at which it may lose the CPU are not modelled, one is enough (section
4). The copy of bytes in `realloc` is left out.

In `KallocTree` the C functions that call themselves on a subtree
(`insert_internal`, `remove_internal`, `avl_find_hole_internal`, the loop of
`find_predecessor`) are functions of a level: `insert_internal[n]` is defined
on the trees of at most `n` levels (`Trees[n]`) from `insert_internal[n - 1]`.
A call starts at the level that is stored in the root (`Inserted`, `Removed`,
`avl_find_hole`); `AvlTrees[n]` says that this is enough levels. The two
branches of each C function for the left and the right child are one operator
with a side.

The tree is in a module of its own because two things can be said about it
separately: that it is an AVL tree of what was put in (`KallocAvl`), and that
it answers as `FindHoleAnswers` allows. The answer is not always the best fit:
with an alignment the search goes right at every hole that is too small,
wherever smaller aligned holes may be.

### Processes and paging

A page directory is the set of its process pages with their frames (`pages`),
the page tables that exist (`tables`) and the kernel tables linked into it
(`linked`). `content` is what a frame holds, one value per frame. A call of
`fork`, `execve` or `process_init` is `task`: an operation, a phase and the
pages still to do. Its steps are separate because each may need a frame, a
heap page, or a kernel table, and memory may run out at any of them; no
interrupt comes in between (`InUserMode` guards `Switch`), as in the code.

`execve` rewrites the page tables it is running under and flushes the TLB when
the program is loaded. `task.stale` is what the TLB may still hold; a page is
written to its new frame or to its old one (`WritePage`). An old frame that
belongs to the kernel by then stops the model ("kernel overwritten"); one that
belongs to another process would violate `Isolated`, and none does, because
frames freed by `execve` are taken only by the same `execve`.

Data abstractions: registers are one value, the place where the process goes
on; the heap is full but for the pages of freed tables and buffers (`spare`),
so that it keeps growing; pages are cloned in ascending order; the other
system calls, which do not change this state, are part of user mode. The heap
grows up to the page `HeapEnd`, all below the end of the kernel's tables; when
the page it would take, or the one for the table, is mapped already, the
assertion at `paging.c:332` fails. The kernel stops (`stopped`) at a panic, a
failed assertion, the exit of the last process, an `execve` of `/dev/keyboard`
("spins": `ReadKeyboard`, see section 4), a write through an unset page
directory, a CR3 that is not a page directory, or a stale write into the
kernel: what happens after the last three is undefined.

### Hash map

The table is a function on positions, and a loop is the search for the first
position at which it stops. Growth re-inserts everything; deletion fills the
gap with later entries of the cluster unless that would take them before their
hash position. `Copied` is one round of `hash_map_grow`, `Round` one round of
`adjust_gap`; the loops are recursive functions over them. `Hash` is a constant
function.

### Interrupts and the keyboard

`Interrupts` has the two PICs from how the code programs them (requests, lines
in service, priorities), the interrupt flag, and for every process its kernel
stack as a sequence of frames: where it is, and the flag that `iret` restores.
All gates are interrupt gates, so a handler that returns is one step. Three
things are not that simple, and are what the module is for. The timer's handler
calls `process_switch`, which leaves it unfinished on the stack of the process
that loses the CPU. `process_switch_context` sets the flag before it jumps, so
the process that gets the CPU is back in the middle of a handler, or of the
`fork` that made it, with interrupts enabled. And vector 47 (IRQ15) has the
stub of a software interrupt, which acknowledges nothing; `Gate` is the table
of `interrupt_init` (it sets 8, 18 and 28 twice and leaves 9, 19 and 29 without
a gate). `main` is modelled from `interrupt_init` on, since interrupts come
between its calls. The memory of the same operations is in `Process`.

A kernel that panics loops for ever, and it matters where. With interrupts
disabled (`Panics`: in `fork`, `execve` or `process_init`, or in the handler of a
page fault, which is also `PageFault` from user mode) nothing runs again, and the
model stops ("panic"). A system call that fails an assertion before it has
disabled interrupts loops on the CPU it shares (`CallPanics`): its process stays
in the ring, is preempted, and stops nobody else.

Two assumptions about time: a request that the CPU can take is taken before its
next instruction, and at most `TailTicks` ticks come while a resumed process
executes the few instructions back to where it was interrupted (at 100Hz one
is already generous).

`Keyboard` adds `dev_read`, which puts a descriptor on its kernel stack,
registers it and spins. `buffers[num++] = kerb` is three steps, and an
interrupt may come after each. All kernel stacks are at the same virtual
address and a system call starts at their top, so all descriptors have one
address; a key that arrives while a process that is not reading is active, or
while the entry is counted and not yet stored, is written to something else.
The model stops there ("wild write"). `execve` reaches `dev_read`, too
(`process.c:175`), but with interrupts disabled, so that no key can end its loop:
`ExecveReads` registers the descriptor and stops the model ("spins"). The user's
buffer that a read is given is taken to be mapped. There is one reader, as in the shipped
system, whose shell alone reads (as long as no second shell is started).

### Screen

`screen.cursor_pos` is shared by all processes, and the calls that use it run
with interrupts enabled. Every access to it is a step (the build does not
optimise), but that `update_text_cursor` reads it once and not twice; what each
process has read is in `y` and `x`. Writes to the video
memory go with the access next to them. `print` goes through `print_string`,
which calls the screen for each character and so moves the chip's cursor each
time; `dev_write` prints all of its text in one call; the asserts of
`pos_cursor` print and then spin for ever, in a process that the timer still
takes the CPU from. `expect` is not state of the kernel: it is what a call has
to leave according to a reference definition (`Printed`: write on endless paper,
then move it up), as long as no other process has come between.

### Files

One step per call. `process_fork` copies the `Hash_Map` structure and not its
storage, so parent and child share `data` with a count each until one of them
grows it and frees the old; the child's `fd_next` is never set and may be any
number. The variable `opened` is not state of the kernel: it records, from a
reference definition of what a path means (`Tree`, `Named`, independent of the
walk in `fs/util.c`, whose loop is `Walk`), what each process may count on having open. A process
drops out of `opened` once a process that shares its storage opens another
file, or when its own undefined `fd_next` hits a descriptor in use: from there
on the code gives no guarantee.

## 3. Runs

| Run | States | Shows |
|---|---|---|
| `avl_tree` | 147,122 | every sequence of insertions and removals over thirteen holes leaves a balanced search tree with right heights, the right contents, no lost node, no failed assertion on balance factors; the search answers within `FindHoleAnswers` |
| `avl_smallest` | violation | see findings |
| `heap` | 627,188 | tiling, footers, coalescing, exact index, blocks of callers large enough, aligned and disjoint, no failed assertion, bounded growth |
| `heap_tree` | 665,072 | the heap with the real tree keeps it an AVL tree of exactly the holes, and implements `KallocHeap` (`ImplementsHeap`), so the theorems carry over |
| `heap_preempted` | violation | see findings |
| `process` | 89,628 | frames owned once and accounted for, tables exactly where pages are, the ring whole, every process able to run and given the CPU as long as the kernel runs, isolation, child equal to parent |
| `process_cr3`, `process_link` | violation | see findings |
| `hash_map` | 12,247 | every entry reachable from its hash position, a free slot always there, refinement of `Dictionary` |
| `keyboard` | 27,726 | from boot on: interrupts disabled exactly in critical sections and only one process in one, kernel stacks bounded, no stale registration, a spinning reader is registered, the key is kept; as long as the kernel runs, reads return and requests of the timer and the keyboard are served |
| `files` | 130,791 | descriptors kept through growth and fork, no call of a process that may rely on its map runs into freed memory or probes for ever, reads return the file's beginning |
| `screen` | 2,203,405 | a call that nobody comes between leaves its text, the cursor behind it and the chip's cursor there; each preemption takes the cursor at most a line off the screen |

### Bounds

* `avl_tree`: 13 keys and 12 nodes. A removal that rotates at two levels needs
  a tree of height 5, that is 12 nodes; one key more than nodes makes the pool
  run out. Every fourth key has the size of its neighbour. Three sizes are
  searched for, with an alignment and without; the theorem has them all.
* `heap`: page 8, header 2, footer 1, up to 4 pages. Sizes 1, 4 and 10 give
  remainders below, at and above what makes a hole of its own, and 10 exceeds
  a page, so a call may grow the heap twice. `heap_tree` has 5 pages and two
  sizes, which leaves several holes of one size in the tree.
* `process`: tables of 20 pages, two kernel tables and two process tables, 27
  frames, three pids, one program of three pages. The heap starts 15 pages
  below the end of its table and crosses into the next one in the course of
  the second fork or of execves; memory runs out at every phase of some
  behaviour.
* `hash_map`: five keys whose hashes collide and wrap around in the tables of
  1, 2, 4, 8 and 16 entries.
* `files`: three files (two of one name), ten paths of every kind, three
  descriptors, two processes, a map that grows after its first entry.
* `keyboard`: two processes, the first a reader; a key of each kind; lines 0, 1
  and 15 (acknowledged to neither PIC); two ticks to a turn, so that a turn may
  end or not at a tick, and one tick on the way back. The time goes into
  liveness. With line 14 as well (acknowledged to both PICs) the same run has
  51,380 states, and with line 14 and three processes the safety properties
  alone have 681,664: both were tried and hold. The theorems have any lines and
  any number of processes.
* `screen`: two columns and two rows, two processes, texts that are empty or
  begin or end with a line break, two preemptions. Three characters are enough
  to scroll twice. Four preemptions, and three processes with three, were tried
  on the same screen with fewer texts and hold too.
* `heap_preempted`: the smallest heap in which two processes want one hole.

`CHECK_DEADLOCK FALSE` is set where the kernel may stop (panic, halt, all
descriptors or pids of the bound used) or, in the data structures, where the
bound leaves no call.

### Fairness

* `process`: weak fairness of the kernel's own steps (the CPU runs on) and
  strong fairness of `Switch`. Strong, because user mode may be left for
  `fork` or `execve` again and again; a timer tick that comes meanwhile stays
  pending in the interrupt controller and is served when interrupts are
  enabled (`RequestsServed` shows it). User code is not assumed to do anything.
* `keyboard`: weak fairness of serving a request, since the CPU takes it as soon
  as the flag is set; strong fairness of the instructions of each process and of
  its way back to them, since both are cut off by interrupts again and again
  while the CPU does go on between them; strong fairness of requests by the
  timer and by the keyboard, which go on coming, and of character keys: the user
  goes on typing. Without the last no read returns. That the reader
  gets the CPU is not assumed: it follows from the ticks.

The three liveness properties hold as long as the kernel runs, and end where
the model stops: at a panic with interrupts disabled, at an `execve` of
`/dev/keyboard`, at the exit of the last process, and at the undefined steps
("wild write", "bad cr3", "kernel overwritten"). Any process can bring about
some of these, and nothing in the code undertakes to prevent it. What fairness
does assume is that a critical section of another kind goes on to its end.

## 4. Findings

* `avl_smallest`: `kalloc_avl.c:90` says "The chosen hole will always be the
  smallest one possible." With an alignment it need not be found: at a hole
  without room for the alignment the search goes right only (line 78). In the
  run, the hole at the root has no room for the alignment, the one in its left
  subtree fits, and the right subtree is empty: the search answers that there is
  no hole, and the heap would grow. It stays correct (the theorems allow for this).
* `process_cr3`: CR3 is the frame of the directory's first page plus one page
  (`paging.c:139`). The directory's two pages get their frames one at a time,
  so the second need not be the next frame once frames have been given back.
* `process_link`: `process_fork` links the child into the ring before its
  `page_directory` is set; if the heap needs a new page table in between,
  `process_link_kernel_table_to_all_address_spaces` writes through the unset
  pointer (`process.c:269`).
* `heap_preempted`: `kalloc_heap.c:70` asserts that a hole from the tree is not
  in use. `open` allocates with interrupts enabled (`process.c:279`): after the
  search, the timer may let another process allocate the same hole.

Not runs, but met on the way: an `execve` of `/dev/keyboard` disables interrupts
(`process.c:166`) and then waits in `dev_read` for a key that cannot come
(`dev.c:25`), so that no process runs again (the state "spins"); a registration that is counted and not yet stored
when a key comes, or a key that comes in another process, is written to memory
that is no descriptor (the state "wild write"); and unlucky preemptions add up,
the cursor leaving the screen by a line more with each of them.

## 5. Theorems

### Kernel heap

`KallocHeapProof` proves, for every header, footer and page size, every
starting address, every number of pages, every set of request sizes and
alignments, and for every answer `FindHoleAnswers` allows:

| Theorem | Statement |
|---|---|
| `InductiveInvariant` | `Spec => []IInv` |
| `TypeCorrect` | `Spec => []TypeOK` |
| `HeapWellFormed` | `Spec => []WellFormed`: blocks tile the heap, footers lead back |
| `TreeMatchesHeap` | `Spec => [](HolesExact /\ Coalesced)` |
| `AssertionsHold` | `Spec => []NoAssertFails` |
| `GrowthIsBounded` | `Spec => []BoundedGrowth` |
| `AllocationsApart` | `Spec => [](LiveBlocks /\ LiveDisjoint)` |

Assumptions (`KallocHeap`): header and footer are not empty and a page holds
more than both (`LayoutAssumption`); the heap starts with at least a page
(`HeapAssumption`); sizes and alignments are natural numbers and "no alignment"
is among them (`RequestAssumption`). Alignments need not be powers of two, and
addresses are unbounded: the 32-bit end of the address space is not reached
because growth fails first (`MaxPages`).

Why the invariant has the parts it has. `WellFormed` alone is not inductive:
`kalloc_heap_alloc` gives an alignment gap to the previous block without
touching the tree, which is right only if that block is in use, hence
`Coalesced`; and only if there is a previous block, hence `Booted` (the byte
that `kalloc_init` allocates keeps the first block in use for ever). `free`
joins blocks whose holes it removes from the tree: it finds them only because
of `HolesExact`. `NoAssertFails` is part of it because a fault stops the
kernel. `LiveBlocks` says that `Free` and `Realloc` get a block in use other
than the first, and that a pending `realloc` still has its old block.
`BoundedGrowth` needs `GrowthUnused`: the pages a call has added so far are all
in a hole at the end of the heap; were that hole larger than the bound, the
search could not have missed it, because "no hole" is only answered when the
largest hole does not fit. `LiveDisjoint` then follows from `WellFormed` and
`LiveBlocks`.

Layout of the proof: arithmetic of `AlignUp`; one "shape" lemma for each
helper that rewrites headers and footers (`MergeShape`, `GapShape`,
`SplitShape`, `AppendShape`, `GrowShape`); one "sound" lemma for each C
function built from them, with the index (`RemoveSound`, `InsertSound`,
`JoinPreviousSound`, `JoinNextSound`, `FreeSound`, `FitSound`, `CarveSound`,
`PlaceSound`, `EnlargeSound`); one lemma for each action; `StepInvariant`
combines them.

### The tree of holes

`KallocAvlProof` proves, for every set of holes, every size of the pool of
nodes, all sizes and alignments searched for, and every order in which holes
come and go:

| Theorem | Statement |
|---|---|
| `TreeStaysAvl` | `AvlSpec => []TreeOK`: the tree is ordered and balanced, the height stored in every node is its height, and nodes are neither lost nor in use twice |
| `TreeKeepsHoles` | `AvlSpec => []ContentsOK`: no rotation and no removal loses a hole |
| `TreeAssertsHold` | `AvlSpec => []AssertsHold`: of the assertions of `kalloc_avl.c` on balance factors none can fail, and the one that a node is free only with the pool used up; those on the links of the free list (lines 42 and 55) are not modelled |
| `TreeFindsHole` | `AvlSpec => []FindOK` |

and, with no other assumption than those of `KallocHeap`:

| Theorem | Statement |
|---|---|
| `TreeIndexesTheHeap` | `TreeSpec => []TreeIndexesHeap`: the tree of the heap is an AVL tree of exactly its holes |
| `TreeImplementsHeap` | `TreeSpec => ImplementsHeap`: the heap searched through the tree implements `KallocHeap`, so that the theorems above are about the heap with its real tree |

Assumptions (`KallocAvl`): a hole's address is not 0, since a null pointer is
the answer that there is none (`KeysAssumption`); the pool has a node
(`CapacityAssumption`); sizes and alignments are natural numbers
(`SearchAssumption`). In `KallocHeapAvl` the first is proved (`NoNullHole`): a
hole's address is above its header. That the pool of the kernel is large enough
for its heap is not part of these theorems.

The argument. What the code keeps is local: a height that is adjusted by one,
and a flag that says whether to go on adjusting it further up. `Grown` and
`Shrunk` say what the flag promises about the subtree that comes back: that
the height has changed, by one, exactly if it is set; and when an insertion has
set it, that the subtree leans to one side, or is a single node. The second
part is what makes the choice between a single and a double rotation right,
which looks at the child's balance factor only for 1 or -1. For a removal the
subtree may be even, and the code then clears the flag by looking at the
rotated node. `RotatedLeft` and `RotatedRight` show for both kinds of rotation
that order, contents and stored heights come out right; the lemmas
`AfterInsertRight`, `AfterInsertLeft`, `AfterRemoveRight` and
`AfterRemoveLeft` show that a node keeps the promise if its subtree did;
`InsertGrows`, `RemoveShrinks` and `FindAnswers` are inductions over the
levels. A removal at a node without a left child takes the right child for a
leaf, which it is because the tree is balanced (`RemoveHere`). The search
abandons what is left of a hole that does not fit: without alignment nothing
there fits either, and with alignment the largest hole has been looked at
before "no hole" is answered (`AnswerRight`).

For the two together, the lemmas ending in `Changes` show that a step of the
heap takes at most two holes away and adds at most one (`FewChanges`), and
`ReindexedTree` that the calls to the tree then leave in it what the step
leaves in the set. The invariant `TreeInv` is `IInv` with `TreeIndexesHeap`:
the tree answers right because it holds exactly the holes, and the step that
follows is one of `KallocHeap` because of the answer.

### Processes and paging

`ProcessProof` proves, for every layout of the address space, every number of
frames, every set of programs and any number of processes (the page `HeapEnd`,
at which growth ends, may be any):

| Theorem | Statement |
|---|---|
| `TypesKept` | `Spec => []TypeOK` |
| `NoFrameShared` | `Spec => []FramesExclusive`: no frame is in two mappings, of one address space or of two |
| `BitmapExact` | `Spec => []FramesAccounted`: the bitmap marks what is in use, and nothing else but the frames the kernel stack of an exited process keeps |
| `TablesFollowPages` | `Spec => []TablesMatch`: a page table is there exactly for the pages of its process |
| `OneRing` | `Spec => []RingOK` |
| `AlwaysRunnable` | `Spec => []Runnable`: whoever the timer may switch to has the kernel, a kernel stack and a place to go on |
| `OthersUntouched` | `Spec => Isolated`: no step changes what another process sees of its memory |
| `ChildIsCopy` | `Spec => ForkCopies` |

Assumptions: the heap and the boot pages are in the kernel's tables, process
pages, the kernel stack and programs above them, programs do not lie on the
kernel stack, and the first program does not lie on the boot stack
(`LayoutAssumption`, `BootAssumption`, `StackAssumption`, `ImagesAssumption`,
`FirstImageAssumption`). The first three are about the constants of the kernel's
layout, the other two about the addresses that programs are linked for: a
program that overlaps the kernel stack fails the assertion at `paging.c:284` and
is outside the theorems.

The invariant is `IInv`. `FramesOK` is the exclusivity of frames with the
bitmap's side of it: a frame is handed out because its bit is clear, so that
nobody has it must be known from the bitmap. It needs `TodoOK`: a page is
mapped once because what is still to be mapped is not yet there. `TablesOK` is
`TablesMatch` in the middle of a call, when a table may exist for the page that
comes next. `RunOK` is `Runnable` with the process under construction at each
phase. `Isolated` needs `StaleOK`: the stale translations of an `execve` lead to
no frame of another process, since a frame freed by it goes only to itself or
to the kernel. `ForkCopies` needs `CopyOK`: the pages cloned so far equal the
parent's. `HeapOK` is what makes a directory's address not 0, and `TaskOK` which
phases belong to which call. The proof has a lemma for each action and each of
these parts.

### Interrupts and the keyboard

`KeyboardProof` proves, for every number of processes, every set of lines
with the timer's and the keyboard's and every length of a turn
(`LinesAssumption`, `TicksAssumption`, `MaxPidAssumption`, `KeyboardAssumption`):

| Theorem | Statement |
|---|---|
| `CriticalUninterrupted` | `Spec => []CriticalAlone`: the flag is clear exactly while the active process is in a critical section, and no other process is in one |
| `StacksBounded` | `Spec => []StackBounded` |
| `KeyboardTypes` | `Spec => []TypeOK` |
| `NoneLeftBehind` | `OneReader` implies `Spec => []NoStaleRegistration` |
| `SpinEnds` | `OneReader` implies `Spec => []SpinnerRegistered` |
| `FirstKeyKept` | `OneReader` implies `Spec => KeyKept` |

`OneReader` says that at most one process reads the keyboard. In the shipped
system it holds until a user starts a second shell from the shell: `shell.li`
reads, the other program does not. The run has one reader, too. With two
readers the last three are not claimed; section 7, item 3.

The invariant of the interrupts is `CpuInv`. That nobody is preempted in a
critical section needs the shape of the stacks (`ShapeOK`): above the first
frame of a stack there are only unfinished timer handlers, the flag an `iret`
restores is set but in `process_init`, and a critical frame is on top. The bound
on the stacks needs an argument about time (`TurnOK`, `DepthOK`): a process that
is given the CPU by the end of a turn starts one, with `tick` at 0, and at most
`TailTicks` ticks come before it is back where it was, fewer than a turn has; so
it is not preempted again on its way back, unless it got the CPU from a process
that exited in the middle of a turn. Hence two frames, and one for every exit.
For the reader, `ReadOK` says for each of its instructions what is counted,
stored and received.

### Screen

`ScreenProof` proves, for every size of the screen, all texts and any number of
processes (`ScreenAssumption`, `TextsAssumption`):

| Theorem | Statement |
|---|---|
| `CursorConfined` | `Spec => []Confined`: after `n` preemptions inside calls the cursor is at most `n` lines off the screen |
| `CallsLeaveText` | `Spec => CallsRight`: a call that nobody comes between leaves its text, the cursor behind it and the chip's cursor there |

For the first, every preemption pays for a line, but a process that holds an
old reading of the cursor (`Held`) can still add or take a line with its late
write, so the invariant gives the cursor the lines that are paid and not held
(`Credit`). A line break that has read a column left of the screen moves the
cursor by up to two lines (the remainder of a negative number is negative);
`Overdue` charges it for that in advance.

For the second, the reference (`Written`) is followed through the loop of
`screen_print_with_len`: writing a text is writing its first character and then
the rest (`WriteInk`, `WriteBreak`), and once the pen is below the last line the
paper may be moved up by a line before the rest is written, which is what the
code does (`WriteScroll`). So at every access the screen with the rest of the
text written behind the cursor is what the call promised (`Keeps`, with the
readings of the cursor that the process holds still right); at the end there is
no rest. The pen (`Pen`) is a recursive function of the text; that it exists is
`LoopExists`, and what it does is by induction over the characters.

### Files

`FilesProof` proves, for every ramdisk image, all paths, and any numbers of
descriptors and processes (`FilesAssumption`):

| Theorem | Statement |
|---|---|
| `NodesExist` | `Spec => []TypeOK` |
| `DescriptorsKept` | `Spec => []FdsKept`: a descriptor is the node it was opened as, through growth of the map and fork |
| `CallsComeBack` | `Spec => []NoWildCall`: a process that may rely on its map neither uses freed storage nor probes for ever |
| `ReadsReturnFile` | `Spec => ReadsFile`: a read gives the beginning of the file the descriptor was opened for |
| `WalkFindsNamed` | `fs_util_get_node_by_path` finds for every path what the tree of files has under it |

The invariant says of every process in `opened` that its storage exists, holds
exactly what it opened, and is counted right and at most half full (`KeptBy`);
half full is what ends a probe and what makes growth come before the map is
full. `FirstCounts` keeps the first process from using a number twice. That the
walk agrees with the tree is an induction over the names of the path
(`SetInduction`), and over the files of one name (`LeastNatural`). This proof
found a flaw in an earlier form of the model, whose definition of the walk had
two overlapping cases for a relative path that ends in a slash.

A read takes its bytes out of the whole image, from the address that
`initrd_init` computed for the file. Both are recursive over the number of the
file: the image put together so far (`FirstFiles`), and the sum of the sizes
(`initrd_files_data`). `FilesLie` shows by induction that every file lies in the
image where its address says, however many follow; `ReadFacts` cuts the bytes
of the read out of it. `Counts`, the byte counts of reads, are natural numbers.

### Hash map

`HashMapProof` proves, for all keys, values, hash functions and initial
capacities (`HashAssumption`, `CapacityAssumption`):

| Theorem | Statement |
|---|---|
| `HalfIsFree` | `Spec => []LoadBounded` |
| `EntriesReachable` | `Spec => []Reachable` |
| `MapIsDictionary` | `Spec => ImplementsDictionary`: `HashMap` refines `Dictionary` |

Numbers are unbounded here: the theorems are about tables whose doubled
capacity fits 32 bits. The invariant (`Sound`, and half of the table free): no
key is stored twice (`Unique`); all between an entry's hash position and the
entry is valid (`Clear`, which is `Reachable` without the remainders); and
`num_elements` is the number of valid entries (`Counted`). Since a free entry
exists, a probe stops (`ProbeFacts`), and by `Clear` it stops at the key if the
key is there (`ProbeFinds`). Growth is an induction over the positions of the
old table: the new one holds the pairs below the position reached, and is never
more than half full, so the `hash_map_put` inside does not grow it in turn.

The one pass of `adjust_gap` is the hard part. A free entry `q` other than the
gap cuts the ring of positions open: counted from there (`Rot`), no cluster and
no probe wraps around, and the normalised indices of the code compare as these
counts do (`MayFillIsOver`). `Scan` is the invariant of the loop: everything it
has passed is valid but the gap, everything in the table is reachable but for
the gap, and nothing it has passed is reached over the gap. When it comes to an
entry that is not valid, nothing behind that is reached over the gap either, so
everything is reachable. The pass ends at `q` at the latest. A recursive
function on `0..n` is known to be defined only by `LoopExists`, which
`NaturalsLemmas` proves.

The refinement mapping (`Held`) is shown to be what the pairs in the table say
(`HeldFacts`), so a put, a get and a delete of the table are those of the
dictionary; a delete that finds nothing is one, too, that takes nothing away.

### Induction

The library's induction rules have an operator as a parameter and cannot be
used here. Where a proof needs induction over numbers it takes the least number
for which the claim fails, or the set of numbers for which it holds
(`LeastNatural`, `SetInduction`, `LoopExists`). That a recursive function is
what its definition says must be proved, too: a CHOOSE has the property if
something has. `RecursionExists` proves it for every recursion over levels
whose step, at level 0, does not look below. The step is a constant operator of
`NaturalsLemmas` (`RecStep`); `KallocAvlProof` and `FilesProof` take an instance
of the module for each recursive function of the model, with the step of that
function in its place.

## 6. Only model-checked

* Liveness (`EveryProcessRuns`, `ReadReturns`, `RequestsServed`, each as long as
  the kernel runs): the prover does not do fairness.

## 7. Plan

Done, in this order: allocator (tree, heap, their composition, proofs);
processes and paging; hash map; files; interrupts composed with the keyboard;
the screen; the interrupted allocation; the stale TLB; proofs for processes and
paging, interrupts and keyboard, screen, files and hash map; proofs for the
tree and for the heap with its tree, for what reads return, and for what the
screen shows.

Next, by importance:

1. `KernelMemory`: heap and paging composed, with the start-up before
   `process_init` and `HEAP_MAX_SIZE`; the heap of `Process` (its `spare`
   pages) shown to be what `KallocHeap` allows.
2. The contents of loaded pages (`rawx.c`), and the imports; the bitmap's
   bytes; the length of names.
3. Several keyboard readers, with the index carried across an interrupt and
   `KEYBOARD_EVENT_BUFFERS_MAX` at its limit.

## 8. Not modelled

* GDT and TSS, and the programming of the timer's frequency: constants written
  once.
* The registers that the interrupt stubs save, and the bits of gates: moving
  values to and from the stack.
* `printf`'s numbers, string and memory helpers: formatting and copies.
* The table of system call stubs and the stubs: copies of constant code.
* `hash_map_for_each_entry`, `vfs_readdir` and debugging functions: nothing in
  the kernel calls them, or they print.
* `kernel.c` before `interrupt_init`: nothing can interrupt it; the state it
  leaves is `Init`.
* User programs under `app/`: user code may make any call in any order.

## Checking

    tlc -config Process.cfg MCProcess        # a run: see PROJECT.json
    tlapm KallocHeapProof.tla                # proofs; likewise the other *Proof
                                             # modules and NaturalsLemmas
