------------------------------ MODULE Process ------------------------------
(***************************************************************************)
(* Processes: process.c on top of paging.c.  The first process is made     *)
(* from the kernel's own address space, others by fork; execve replaces    *)
(* the pages of the running process, exit returns them; the timer moves    *)
(* the CPU along the ring of processes.                                    *)
(*                                                                         *)
(* fork, execve and exit run with interrupts disabled, so nothing comes    *)
(* between their steps; what they do page by page is one step per page     *)
(* because every page may need a table, every table may need a page of the *)
(* kernel heap, and a new heap page may need a new kernel page table,      *)
(* which is linked into every process of the ring in the middle of it all. *)
(* The heap is taken to be full but for the tables freed since             *)
(* (KallocHeap has the heap itself).  A process is known by its pid.       *)
(***************************************************************************)
EXTENDS Paging, FiniteSets

CONSTANTS
  Images,       \* bound: the page sets of the programs execve may load
  FirstImage,   \* the pages of INITIAL_PROCESS
  UserPages,    \* bound: the pages user code writes to
  Values,       \* bound: what it writes
  MaxPid        \* bound: the highest pid

ASSUME ImagesAssumption ==
  \A image \in Images \cup {FirstImage} :
    /\ image \subseteq Nat /\ image \cap KeptPages = {}
    /\ \A t \in TablesOf(image) : t >= KernelTables
ASSUME FirstImageAssumption == FirstImage \cap OldStackPages = {}

VARIABLES
  used,     \* paging.available_frames
  kernel,   \* paging.kernel_page_directory
  procs,    \* pid |-> Process
  active,   \* active_process
  pids,     \* current_pid - 1
  task,     \* what the kernel is doing, with interrupts disabled
  heap,     \* the next page of the kernel heap, and its pages free for tables
  content,  \* what the frames hold
  lost,     \* frames of kernel stacks that exited processes leave behind
  stopped   \* why the kernel does not go on

vars == <<used, kernel, procs, active, pids, task, heap, content, lost, stopped>>

-----------------------------------------------------------------------------
NoDirectory == 0   \* page_directory as kalloc_alloc leaves it: undefined

EmptyProcess(next, previous) ==
  [next |-> next, previous |-> previous, dir |-> NoDirectory, eip |-> "none",
   tables |-> {}, pages |-> [p \in {} |-> 0], linked |-> {}]

\* Work on process pid: the pages it is still to get, the pages the heap got
\* for its directory, the directory being filled in, and the pages that it no
\* longer has but that the TLB may still know.
Work(op, phase, pid, todo) ==
  [op |-> op, phase |-> phase, pid |-> pid, todo |-> todo, grown |-> 0,
   dir |-> NoDirectory, stale |-> [p \in {} |-> 0]]
UserMode == Work("none", "none", 0, {})

Init ==
  /\ used = Reserved \cup BootPages
  /\ kernel = [tables |-> BootTables, pages |-> [p \in BootPages |-> p]]
  /\ procs = [p \in {1} |-> EmptyProcess(1, 1)]
  /\ active = 1
  /\ pids = 1
  /\ task = Work("init", "directory", 1, OldStackPages)
  /\ heap = [top |-> HeapStart, spare |-> 0]
  /\ content = [f \in Frames |-> IF f \in BootPages THEN "boot" ELSE "free"]
  /\ lost = {}
  /\ stopped = "no"

Running == stopped = "no"
InUserMode == Running /\ task.op = "none"
Doing(phase) == Running /\ task.phase = phase

Clear == Frames \ used # {}
\* content when frames fs are given up: nobody reads a frame before it is
\* written again.
Dropped(fs) == [f \in Frames |-> IF f \in fs THEN "free" ELSE content[f]]

NextPage == CHOOSE p \in task.todo : \A q \in task.todo : p <= q
Target == procs[task.pid]

\* The address space that is cloned: the kernel's for the first process.
Source == IF task.op = "init" THEN kernel.pages ELSE procs[active].pages

\* The page at hand belongs to a table that the target does not have.
TableMissing ==
  /\ task.phase \in {"clone", "load"}
  /\ task.todo # {}
  /\ TableOf(NextPage) \notin Target.tables

\* kalloc is called and the heap has no room: two pages for a directory, one
\* for a table or for the buffer of execve.
WantsHeap ==
  \/ task.phase = "directory" /\ task.grown < 2
  \/ (TableMissing \/ task.phase = "buffer") /\ heap.spare = 0
WantsFrame ==
  WantsHeap \/ (task.phase \in {"clone", "load"} /\ task.todo # {} /\ ~TableMissing)

\* paging_get_page_directory_x86_tables_frame_address: the frame after that of
\* the directory's first page, whatever the frame of its second page is.
Cr3Right(dir) == kernel.pages[dir] + 1 = kernel.pages[dir + 1]
LoadCr3(dir) == stopped' = IF Cr3Right(dir) THEN "no" ELSE "bad cr3"
SwitchTo(p) == LoadCr3(procs[p].dir)

\* paging_copy_frame.
CopyFrame(to, from) == content' = [content EXCEPT ![to] = content[from]]

\* process_link_kernel_table_to_all_address_spaces writes to the directory of
\* every process in the ring, also of one whose page_directory is not set yet.
LinkKernelTable(t) ==
  /\ procs' = [p \in DOMAIN procs |-> [procs[p] EXCEPT !.linked = @ \cup {t}]]
  /\ stopped' = IF \A p \in DOMAIN procs : procs[p].dir # NoDirectory
                THEN "no" ELSE "wild write"

\* paging_create_process_page_with_any_frame, the table being there.
CreateProcessPage(page, frame) ==
  /\ used' = used \cup {frame}
  /\ procs' = [procs EXCEPT ![task.pid].pages = Map(@, page, frame)]

-----------------------------------------------------------------------------
\* Mutant: the new table is linked to the active process only.
NewKernelTable_ActiveOnly ==
  /\ Running /\ WantsHeap /\ Clear
  /\ TableOf(heap.top) \notin kernel.tables
  /\ LET t == TableOf(heap.top)
         f == FirstClear(used)
     IN  /\ used' = used \cup {f}
         /\ kernel' = [tables |-> kernel.tables \cup {t},
                       pages |-> Map(kernel.pages, TablePage(t), f)]
         /\ procs' = [procs EXCEPT ![active].linked = @ \cup {t}]
  /\ UNCHANGED <<active, pids, task, heap, content, lost, stopped>>

\* paging_create_kernel_page_with_any_frame, the table: it gets a frame, and is
\* linked into all address spaces.  It is asserted that its page does not exist.
NewKernelTable ==
  /\ Running /\ WantsHeap /\ Clear /\ heap.top < HeapEnd
  /\ TableOf(heap.top) \notin kernel.tables
  /\ LET t == TableOf(heap.top)
         f == FirstClear(used)
     IN  IF TablePage(t) \in DOMAIN kernel.pages
         THEN stopped' = "assert" /\ UNCHANGED <<used, kernel, procs>>
         ELSE /\ used' = used \cup {f}
              /\ kernel' = [tables |-> kernel.tables \cup {t},
                            pages |-> Map(kernel.pages, TablePage(t), f)]
              /\ LinkKernelTable(t)
  /\ UNCHANGED <<active, pids, task, heap, content, lost>>

\* paging_create_kernel_page_with_any_frame, the page: the heap grows.  It is
\* asserted that the page does not exist yet.
NewHeapPage ==
  /\ Running /\ WantsHeap /\ Clear /\ heap.top < HeapEnd
  /\ TableOf(heap.top) \in kernel.tables
  /\ IF heap.top \in DOMAIN kernel.pages
     THEN stopped' = "assert" /\ UNCHANGED <<used, kernel, task, heap>>
     ELSE /\ LET f == FirstClear(used)
             IN  /\ used' = used \cup {f}
                 /\ kernel' = [kernel EXCEPT !.pages = Map(@, heap.top, f)]
          /\ IF task.phase = "directory"
             THEN /\ task' = [task EXCEPT !.grown = @ + 1]
                  /\ heap' = [heap EXCEPT !.top = @ + 1]
             ELSE /\ heap' = [top |-> heap.top + 1, spare |-> heap.spare + 1]
                  /\ UNCHANGED task
          /\ UNCHANGED stopped
  /\ UNCHANGED <<procs, active, pids, content, lost>>

\* bitmap_get_first_clear panics: the bitmap is full.
BitmapFull ==
  /\ Running /\ WantsFrame /\ ~Clear
  /\ stopped' = "panic"
  /\ UNCHANGED <<used, kernel, procs, active, pids, task, heap, content, lost>>

\* paging_clone_page_directory_for_new_process has its aligned two pages.
NewDirectory ==
  /\ Doing("directory") /\ task.grown = 2
  /\ task' = [task EXCEPT !.phase = "clone", !.dir = heap.top - 2]
  /\ UNCHANGED <<used, kernel, procs, active, pids, heap, content, lost, stopped>>

\* An aligned page of the heap becomes a page table.
NewTable ==
  /\ Running /\ TableMissing /\ heap.spare > 0
  /\ procs' = [procs EXCEPT ![task.pid].tables = @ \cup {TableOf(NextPage)}]
  /\ heap' = [heap EXCEPT !.spare = @ - 1]
  /\ UNCHANGED <<used, kernel, active, pids, task, content, lost, stopped>>

\* Mutant: the page entry is copied as it is, frame and all.
ClonePage_Shared ==
  /\ Doing("clone") /\ task.todo # {} /\ ~TableMissing /\ Clear
  /\ procs' = [procs EXCEPT ![task.pid].pages = Map(@, NextPage, Source[NextPage])]
  /\ task' = [task EXCEPT !.todo = @ \ {NextPage}]
  /\ UNCHANGED <<used, kernel, active, pids, heap, content, lost, stopped>>

\* Mutant: the new frame is not marked in the bitmap.
ClonePage_NotMarked ==
  /\ Doing("clone") /\ task.todo # {} /\ ~TableMissing /\ Clear
  /\ LET f == FirstClear(used)
     IN  /\ procs' = [procs EXCEPT ![task.pid].pages = Map(@, NextPage, f)]
         /\ content' = [content EXCEPT ![f] = content[Source[NextPage]]]
  /\ task' = [task EXCEPT !.todo = @ \ {NextPage}]
  /\ UNCHANGED <<used, kernel, active, pids, heap, lost, stopped>>

\* The clone's next page gets a frame of its own and a copy of the contents.
ClonePage ==
  /\ Doing("clone") /\ task.todo # {} /\ ~TableMissing /\ Clear
  /\ LET f == FirstClear(used)
     IN  /\ used' = used \cup {f}
         /\ procs' = [procs EXCEPT ![task.pid].pages = Map(@, NextPage, f)]
         /\ CopyFrame(f, Source[NextPage])
  /\ task' = [task EXCEPT !.todo = @ \ {NextPage}]
  /\ UNCHANGED <<kernel, active, pids, heap, lost, stopped>>

\* The clone is given the kernel's tables and becomes the page directory of
\* the process.  process_init goes on in it, loading the first program; in
\* process_fork the kernel stack has changed since its pages were copied.
FinishClone ==
  /\ Doing("clone") /\ task.todo = {}
  /\ LET linked == IF task.op = "init"
                   THEN {t \in kernel.tables : t < KernelTables}
                   ELSE procs[active].linked
     IN  procs' = [procs EXCEPT ![task.pid].dir = task.dir,
                                ![task.pid].linked = linked]
  /\ IF task.op = "init"
     THEN /\ task' = Work("init", "buffer", task.pid, FirstImage \cup KStackPages)
          /\ LoadCr3(task.dir)
          /\ UNCHANGED content
     ELSE /\ task' = [task EXCEPT !.phase = "stack"]
          /\ content' = [f \in Frames |->
                           IF \E p \in KStackPages : procs[active].pages[p] = f
                           THEN "after clone" ELSE content[f]]
          /\ UNCHANGED stopped
  /\ UNCHANGED <<used, kernel, active, pids, heap, lost>>

\* process_init has the buffer for its program.
GetBuffer ==
  /\ Doing("buffer") /\ task.op = "init" /\ heap.spare > 0
  /\ task' = [task EXCEPT !.phase = "load"]
  /\ heap' = [heap EXCEPT !.spare = @ - 1]
  /\ UNCHANGED <<used, kernel, procs, active, pids, content, lost, stopped>>

\* What is written to the new page goes to its frame f, or to the frame that
\* the page had before execve cleaned it: the TLB is flushed only at the end.
\* A frame that is clear is not worth remembering.
WritePage(page, f) ==
  \E target \in {f} \cup FramesOf(Keep(task.stale, {page})) :
    /\ content' = IF target \in used \cup {f}
                  THEN [content EXCEPT ![target] = "image"] ELSE content
    /\ stopped' = IF target \in FramesOf(kernel.pages)
                  THEN "kernel overwritten" ELSE "no"

\* rawx_load, one page of the program, of its stack or of the kernel stack; it
\* is asserted that the page does not exist yet.
LoadPage ==
  /\ Doing("load") /\ task.todo # {} /\ ~TableMissing /\ Clear
  /\ LET f == FirstClear(used)
     IN  IF NextPage \in DOMAIN Target.pages
         THEN stopped' = "assert" /\ UNCHANGED <<used, procs, content, task>>
         ELSE /\ CreateProcessPage(NextPage, f)
              /\ WritePage(NextPage, f)
              /\ task' = [task EXCEPT !.todo = @ \ {NextPage}]
  /\ UNCHANGED <<kernel, active, pids, heap, lost>>

\* The file given to execve is no program: one of rawx_load's asserts fails,
\* and there is nothing left to go back to.
RejectImage ==
  /\ Doing("load") /\ task.op = "execve"
  /\ stopped' = "panic"
  /\ UNCHANGED <<used, kernel, procs, active, pids, task, heap, content, lost>>

\* The program is loaded: on to user mode, at its entry point.
StartProgram ==
  /\ Doing("load") /\ task.todo = {}
  /\ procs' = [procs EXCEPT ![task.pid].eip = "program"]
  /\ task' = UserMode
  /\ UNCHANGED <<used, kernel, active, pids, heap, content, lost, stopped>>

-----------------------------------------------------------------------------
\* User mode: the running process writes to a page of its own.
Store(page, value) ==
  /\ InUserMode
  /\ page \in DOMAIN procs[active].pages
  /\ content' = [content EXCEPT ![procs[active].pages[page]] = value]
  /\ UNCHANGED <<used, kernel, procs, active, pids, task, heap, lost, stopped>>

\* page_fault_handler: a page the process does not have.
PageFault ==
  /\ InUserMode
  /\ stopped' = "panic"
  /\ UNCHANGED <<used, kernel, procs, active, pids, task, heap, content, lost>>

\* Mutant: the process before the child is not told of it.
Fork_Unreachable ==
  /\ InUserMode
  /\ pids < MaxPid
  /\ LET child    == pids + 1
         previous == procs[active].previous
         ring     == [procs EXCEPT ![active].previous = child]
     IN  /\ procs' = [p \in DOMAIN procs \cup {child} |->
                        IF p = child THEN EmptyProcess(active, previous) ELSE ring[p]]
         /\ task' = Work("fork", "directory", child, ProcessPages(procs[active].pages))
  /\ pids' = pids + 1
  /\ UNCHANGED <<used, kernel, active, heap, content, lost, stopped>>

\* process_fork, up to the clone: the child takes its place in the ring, at
\* the end of the round.
Fork ==
  /\ InUserMode
  /\ pids < MaxPid
  /\ LET child    == pids + 1
         previous == procs[active].previous
         ring     == [[procs EXCEPT ![previous].next = child]
                        EXCEPT ![active].previous = child]
     IN  /\ procs' = [p \in DOMAIN procs \cup {child} |->
                        IF p = child THEN EmptyProcess(active, previous) ELSE ring[p]]
         /\ task' = Work("fork", "directory", child, ProcessPages(procs[active].pages))
  /\ pids' = pids + 1
  /\ UNCHANGED <<used, kernel, active, heap, content, lost, stopped>>

\* Mutant: the kernel stack is not copied again.
FinishFork_OldStack ==
  /\ Doing("stack")
  /\ procs' = [procs EXCEPT ![task.pid].eip = "fork"]
  /\ task' = UserMode
  /\ UNCHANGED <<used, kernel, active, pids, heap, content, lost, stopped>>

\* The rest of process_fork: the kernel stack as it is now is copied, and the
\* child will start where util_get_eip returned.
FinishFork ==
  /\ Doing("stack")
  /\ LET to == procs[task.pid].pages
         from == procs[active].pages
     IN  content' = [f \in Frames |->
           IF \E p \in KStackPages : to[p] = f
           THEN content[from[CHOOSE p \in KStackPages : to[p] = f]]
           ELSE content[f]]
  /\ procs' = [procs EXCEPT ![task.pid].eip = "fork"]
  /\ task' = UserMode
  /\ UNCHANGED <<used, kernel, active, pids, heap, lost, stopped>>

\* process_execve finds the file (when it does not, nothing changes) and asks
\* for a buffer, which it never frees.
Execve(image) ==
  /\ InUserMode
  /\ task' = Work("execve", "buffer", active, image)
  /\ UNCHANGED <<used, kernel, procs, active, pids, heap, content, lost, stopped>>

\* Or the file is /dev/keyboard: there dev_read waits for a key, and none can
\* come while interrupts are disabled.
ReadKeyboard ==
  /\ Doing("buffer") /\ task.op = "execve" /\ heap.spare > 0
  /\ heap' = [heap EXCEPT !.spare = @ - 1]
  /\ stopped' = "spins"
  /\ UNCHANGED <<used, kernel, procs, active, pids, task, content, lost>>

\* Otherwise the file is read, and then the old program is cleaned away; its
\* tables go back to the heap.
Clean ==
  /\ Doing("buffer") /\ task.op = "execve" /\ heap.spare > 0
  /\ LET pages == procs[active].pages
         tables == CleanedTables(pages)
     IN  /\ used' = used \ CleanedFrames(pages)
         /\ content' = Dropped(CleanedFrames(pages))
         /\ procs' = [procs EXCEPT ![active].pages = Cleaned(pages),
                                   ![active].tables = tables]
         /\ heap' = [heap EXCEPT !.spare =
              @ - 1 + Cardinality(procs[active].tables \ tables)]
  /\ task' = [task EXCEPT !.phase = "load",
                          !.stale = Keep(procs[active].pages,
                                         DOMAIN procs[active].pages \ KeptPages)]
  /\ UNCHANGED <<kernel, active, pids, lost, stopped>>

\* Mutant: the process before the one that exits still leads to it.
Exit_Dangling ==
  /\ InUserMode
  /\ LET me     == procs[active]
         pages  == me.pages
         ring   == [procs EXCEPT ![me.next].previous = me.previous]
     IN  /\ used' = used \ CleanedFrames(pages)
         /\ content' = Dropped(CleanedFrames(pages))
         /\ lost' = lost \cup FramesOf(Cleaned(pages))
         /\ heap' = [heap EXCEPT !.spare =
              @ + Cardinality(me.tables \ CleanedTables(pages))]
         /\ procs' = [p \in DOMAIN procs \ {active} |-> ring[p]]
         /\ active' = me.next
         /\ IF me.next = active THEN stopped' = "halted" ELSE SwitchTo(me.next)
  /\ UNCHANGED <<kernel, pids, task>>

\* process_exit, called by the process or for it by the handler of general
\* protection faults.  The kernel stack it runs on is not cleaned, and nobody
\* else will do it: directory, stack and tables left are lost.
Exit ==
  /\ InUserMode
  /\ LET me     == procs[active]
         pages  == me.pages
         ring   == [[procs EXCEPT ![me.next].previous = me.previous]
                      EXCEPT ![me.previous].next = me.next]
     IN  /\ used' = used \ CleanedFrames(pages)
         /\ content' = Dropped(CleanedFrames(pages))
         /\ lost' = lost \cup FramesOf(Cleaned(pages))
         /\ heap' = [heap EXCEPT !.spare =
              @ + Cardinality(me.tables \ CleanedTables(pages))]
         /\ procs' = [p \in DOMAIN procs \ {active} |-> ring[p]]
         /\ active' = me.next
         /\ IF me.next = active THEN stopped' = "halted" ELSE SwitchTo(me.next)
  /\ UNCHANGED <<kernel, pids, task>>

\* process_switch, from the timer's interrupt: never while task is under way,
\* because interrupts are then disabled.
Switch ==
  /\ InUserMode
  /\ procs' = [procs EXCEPT ![active].eip = "switch"]
  /\ active' = procs[active].next
  /\ SwitchTo(procs[active].next)
  /\ UNCHANGED <<used, kernel, pids, task, heap, content, lost>>

KernelStep ==
  \/ NewKernelTable \/ NewHeapPage \/ BitmapFull \/ NewDirectory \/ NewTable
  \/ ClonePage \/ FinishClone \/ GetBuffer \/ LoadPage \/ RejectImage
  \/ StartProgram \/ FinishFork \/ ReadKeyboard \/ Clean

Next ==
  \/ \E page \in UserPages, value \in Values : Store(page, value)
  \/ PageFault
  \/ Fork
  \/ \E image \in Images : Execve(image)
  \/ Exit
  \/ Switch
  \/ KernelStep

Spec == Init /\ [][Next]_vars

\* The CPU runs on; a timer interrupt that comes while interrupts are
\* disabled waits in the PIC, so it is delivered however short user mode is.
FairSpec == Spec /\ WF_vars(KernelStep) /\ SF_vars(Switch)

-----------------------------------------------------------------------------
\* Properties.

Pids == DOMAIN procs
Mappings == {<<0, p>> : p \in DOMAIN kernel.pages}
              \cup UNION {{<<q, p>> : p \in DOMAIN procs[q].pages} : q \in Pids}
FrameOf(m) == IF m[1] = 0 THEN kernel.pages[m[2]] ELSE procs[m[1]].pages[m[2]]
Mapped == {FrameOf(m) : m \in Mappings}

ProcessType(q) ==
  /\ q.next \in Pids /\ q.previous \in Pids
  /\ q.dir \in Nat
  /\ q.eip \in {"none", "program", "fork", "switch"}
  /\ DOMAIN q.pages \subseteq Nat
  /\ FramesOf(q.pages) \subseteq Frames
  /\ q.linked \subseteq kernel.tables

\* Every field holds what process.c and paging.c may put there: links lead to
\* processes of the ring, pages to frames, and process tables are not linked.
TypeOK ==
  /\ used \subseteq Frames /\ lost \subseteq Frames
  /\ FramesOf(kernel.pages) \subseteq Frames
  /\ \A p \in Pids : ProcessType(procs[p])
  /\ Pids \subseteq 1..pids
  /\ active \in Pids \/ stopped = "halted"
  /\ task.phase \in {"none", "directory", "clone", "stack", "buffer", "load"}
  /\ heap.spare \in Nat
  /\ stopped \in {"no", "panic", "assert", "halted", "wild write", "bad cr3",
                  "kernel overwritten", "spins"}

\* No frame is mapped twice, be it in one address space, in two, or in that
\* of the kernel; and none that an exited process left behind is reused while
\* the kernel may still be running on it.
FramesExclusive ==
  /\ \A m, n \in Mappings : FrameOf(m) = FrameOf(n) => m = n
  /\ Mapped \cap lost = {}

\* The bitmap marks exactly the frames that are mapped, reserved or lost: what
\* paging_clean_all_non_kernel_pages_from_page_directory asserts of every
\* page it finds (paging.c:165), and that nothing else leaks.
FramesAccounted == used = Reserved \cup Mapped \cup lost

\* A process has a page table exactly when it has a page in it, or is about
\* to get one: clean destroys the tables it empties, and only those, and leaves
\* no page in the way of the next program (the assertion at paging.c:284).
TablesMatch ==
  /\ \A p \in Pids :
       procs[p].tables = TablesOf(DOMAIN procs[p].pages)
         \/ (p = task.pid /\ procs[p].tables =
               TablesOf(DOMAIN procs[p].pages) \cup {TableOf(NextPage)})
  /\ task.phase = "load" => task.todo \cap DOMAIN Target.pages = {}

\* From active, next leads through all processes and back, previous the same
\* way round: whoever forks or exits, in whatever order.
RingOK ==
  stopped # "halted" =>
    /\ \A p \in Pids : procs[procs[p].next].previous = p
    /\ \A p \in Pids : procs[procs[p].previous].next = p
    /\ \A S \in SUBSET Pids :
         (active \in S /\ \A p \in S : procs[p].next \in S) => S = Pids

\* A process the CPU may be given to is complete: it has an address space with
\* all of the kernel linked in ("The kernel is always linked to the first 1GB
\* of the address space", paging.c:188), the whole kernel stack that the
\* next interrupt will be served on, and somewhere to go on.
Runnable ==
  Running => \A p \in Pids :
    task.pid = p \/
      /\ procs[p].dir # NoDirectory
      /\ procs[p].linked = {t \in kernel.tables : t < KernelTables}
      /\ KStackPages \subseteq DOMAIN procs[p].pages
      /\ procs[p].eip # "none"

\* What process p sees in its own part of the address space.
View(p) == [page \in DOMAIN procs[p].pages |-> content[procs[p].pages[page]]]

\* Whatever the kernel or the running process does, a process that is not
\* running and is not being made sees the same memory afterwards.
Isolated ==
  [][\A p \in Pids \ {active, task.pid} :
       p \in Pids' => View(p)' = View(p)]_vars

\* A child starts with all that its parent has when fork returns, the kernel
\* stack too: "we wanna have the exact same kernel stack that we have right
\* now" (process.c:140).
ForkCopies ==
  [][\A child \in Pids : Doing("stack") /\ child = task.pid
       => View(child)' = View(active)']_vars

\* Every process gets the CPU again and again, whatever forks and exits come
\* in between, as long as the kernel runs: not after a panic, nor once execve
\* waits for the keyboard with interrupts disabled (process.c:175).
EveryProcessRuns ==
  \A p \in 1..MaxPid : p \in Pids ~> (active = p \/ ~Running)

\* A kernel table made while processes exist is added "to all existing address
\* spaces" (paging.c:200) and to nothing else.
LinksAddressSpaces == stopped # "wild write"

\* CR3 gets "the frame address of the page directory of the new process"
\* (process.c:213 and 256).
Cr3IsDirectory == stopped # "bad cr3"
=============================================================================
