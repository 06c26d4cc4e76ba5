---------------------------- MODULE ProcessProof ----------------------------
(***************************************************************************)
(* Proofs about Process: for every layout of the address space, every set  *)
(* of programs and any number of processes, no frame is mapped twice or    *)
(* leaks, tables and pages agree, the ring is whole, every process but the *)
(* one being made can be given the CPU, a process sees no memory change    *)
(* but its own, and a child is a copy of its parent.                       *)
(***************************************************************************)
EXTENDS Process, NaturalsLemmas, FiniteSetTheorems, TLAPS

-----------------------------------------------------------------------------
(***************************************************************************)
(* The inductive invariant.                                                *)
(***************************************************************************)

Phases == {"none", "directory", "clone", "stack", "buffer", "load"}
Eips == {"none", "program", "fork", "switch"}
Reasons == {"no", "panic", "assert", "halted", "wild write", "bad cr3",
            "kernel overwritten", "spins"}
Contents == Values \cup {"boot", "free", "image", "after clone"}

\* The mappings of an address space, and the records that hold them.
PageMaps == UNION {[D -> Frames] : D \in SUBSET Nat}
Kernels == [tables : SUBSET Nat, pages : PageMaps]
Processes == [next : Nat, previous : Nat, dir : Nat, eip : Eips,
              tables : SUBSET Nat, pages : PageMaps, linked : SUBSET Nat]
Tasks == [op : {"none", "init", "fork", "execve"}, phase : Phases, pid : Nat,
          todo : SUBSET Nat, grown : 0..2, dir : Nat, stale : PageMaps]
Heaps == [top : Nat, spare : Nat]

Types ==
  /\ used \subseteq Frames /\ lost \subseteq Frames
  /\ kernel \in Kernels
  /\ procs \in [Pids -> Processes]
  /\ pids \in Nat /\ Pids \subseteq 1..pids
  /\ active \in Nat /\ (active \in Pids \/ stopped = "halted")
  /\ task \in Tasks
  /\ heap \in Heaps
  /\ content \in [Frames -> Contents]
  /\ stopped \in Reasons

\* The processes are linked to each other and to the kernel's tables, and have
\* pages above the kernel's part only.
ProcsOK ==
  \A p \in Pids :
    /\ procs[p].next \in Pids /\ procs[p].previous \in Pids
    /\ procs[p].linked \subseteq kernel.tables
    /\ IsFiniteSet(procs[p].tables)
    /\ \A page \in DOMAIN procs[p].pages : TableOf(page) >= KernelTables

\* Kernel mappings K, process mappings P, the bitmap U and the lost frames L
\* agree: no two mappings share a frame, a process has no frame that cannot be
\* given back, and the bitmap marks what is in use and nothing else.
Exclusive(K, P, U, L) ==
  /\ \A k, l \in DOMAIN K : K[k] = K[l] => k = l
  /\ \A i \in DOMAIN P : \A p \in DOMAIN P[i], k \in DOMAIN K : P[i][p] # K[k]
  /\ \A i, j \in DOMAIN P : \A p \in DOMAIN P[i], q \in DOMAIN P[j] :
       P[i][p] = P[j][q] => i = j /\ p = q
  /\ Reserved \subseteq U /\ L \subseteq U
  /\ \A k \in DOMAIN K : K[k] \in U /\ K[k] \notin L
  /\ \A i \in DOMAIN P : \A p \in DOMAIN P[i] :
       P[i][p] \in U /\ P[i][p] \notin L /\ P[i][p] \notin Reserved
  /\ \A f \in U : \/ f \in Reserved \/ f \in L
                  \/ \E k \in DOMAIN K : K[k] = f
                  \/ \E i \in DOMAIN P : \E p \in DOMAIN P[i] : P[i][p] = f

Spaces == [p \in Pids |-> procs[p].pages]
FramesOK == Exclusive(kernel.pages, Spaces, used, lost)

\* Who is worked on, and how far the work is.
TaskOK ==
  /\ task.op = "none" <=> task.phase = "none"
  /\ task.op = "none" => task.pid = 0
  /\ task.op # "none" => task.pid \in Pids /\ active \in Pids
  /\ task.op \in {"init", "execve"} => task.pid = active
  /\ task.op = "fork" => task.pid # active
  /\ task.op = "init" => task.phase \in {"directory", "clone", "buffer", "load"}
  /\ task.op = "fork" => task.phase \in {"directory", "clone", "stack"}
  /\ task.op = "execve" => task.phase \in {"buffer", "load"}

\* The heap's last two pages are the directory's when it has got them.
HeapOK ==
  /\ heap.top >= HeapStart
  /\ task.phase = "directory" => heap.top >= HeapStart + task.grown
  /\ task.phase = "clone" => task.dir >= HeapStart

\* What the target is still to get: nothing it has, all that is missing.
TodoOK ==
  /\ BootPages \subseteq DOMAIN kernel.pages
  /\ task.op # "none" =>
       /\ \A page \in task.todo : TableOf(page) >= KernelTables
       /\ task.phase # "buffer" \/ task.op = "init" => task.todo \cap DOMAIN Target.pages = {}
       /\ task.phase = "directory" => DOMAIN Target.pages = {}
       /\ task.phase = "stack" => task.todo = {}
       /\ task.phase \in {"buffer", "load"} => KStackPages \subseteq DOMAIN Target.pages \cup task.todo
  /\ task.op = "execve" => task.todo \cap KeptPages = {}
  /\ task.op = "init" /\ task.phase \in {"directory", "clone"} =>
       DOMAIN Target.pages \cup task.todo = OldStackPages
  /\ task.op = "fork" =>
       DOMAIN Target.pages \cup task.todo = DOMAIN procs[active].pages

\* A table is there for a page, or for the page at hand.
TablesOK ==
  \A p \in Pids :
    procs[p].tables = TablesOf(DOMAIN procs[p].pages)
      \/ /\ p = task.pid /\ task.phase \in {"clone", "load"} /\ task.todo # {}
         /\ procs[p].tables = TablesOf(DOMAIN procs[p].pages) \cup {TableOf(NextPage)}

KernelLinks == {t \in kernel.tables : t < KernelTables}

RunOK ==
  Running => \A p \in Pids :
    /\ p # task.pid \/ task.phase \in {"stack", "buffer", "load"} =>
         procs[p].dir # NoDirectory /\ procs[p].linked = KernelLinks
    /\ p # task.pid => KStackPages \subseteq DOMAIN procs[p].pages /\ procs[p].eip # "none"

\* The TLB knows of no frame of another process.
StaleOK ==
  \A page \in DOMAIN task.stale : \A q \in Pids \ {task.pid} :
    \A p \in DOMAIN procs[q].pages : procs[q].pages[p] # task.stale[page]

\* The pages the child has hold what its parent's do.
CopyOK ==
  task.op = "fork" =>
    \A page \in DOMAIN Target.pages :
      page \notin KStackPages \/ task.phase # "stack" =>
        content[Target.pages[page]] = content[procs[active].pages[page]]

IInv ==
  /\ Types /\ ProcsOK /\ FramesOK /\ TaskOK /\ HeapOK /\ TodoOK /\ TablesOK
  /\ RingOK /\ RunOK /\ StaleOK /\ CopyOK

-----------------------------------------------------------------------------
(***************************************************************************)
(* Numbers, tables and mappings.                                           *)
(***************************************************************************)

\* bitmap_get_first_clear finds a frame that is clear.
LEMMA FirstClearClear ==
  ASSUME NEW U, Frames \ U # {}
  PROVE  FirstClear(U) \in Frames /\ FirstClear(U) \notin U
<1>1. \E f \in Frames \ U : \A g \in Frames \ U : f <= g
  BY LeastNatural, FramesAssumption
<1> QED
  BY <1>1 DEF FirstClear

\* There is a page at hand as long as there are pages to do.
LEMMA NextPageTodo ==
  ASSUME task.todo \subseteq Nat, task.todo # {}
  PROVE  NextPage \in task.todo /\ NextPage \in Nat
<1>1. \E p \in task.todo : \A q \in task.todo : p <= q
  BY LeastNatural
<1> QED
  BY <1>1 DEF NextPage

\* Tables are numbered like pages.
LEMMA TableOfType == \A page \in Nat : TableOf(page) \in Nat
<1>1. PagesPerTable \in Nat /\ PagesPerTable > 0
  BY LayoutAssumption
<1>2. \A n \in Nat : n \div PagesPerTable \in Nat
  <2> SUFFICES ASSUME NEW n \in Nat PROVE n \div PagesPerTable \in Nat
    OBVIOUS
  <2>1. n \div PagesPerTable \in Int
    BY <1>1
  <2>2. n \div PagesPerTable >= 0
    BY <1>1, <2>1
  <2> QED
    BY <2>1, <2>2
<1> QED
  BY <1>2 DEF TableOf

\* The tables of one page more.
LEMMA TablesOfMore ==
  ASSUME NEW S, NEW page
  PROVE  /\ \A T : T = S \cup {page} => TablesOf(T) = TablesOf(S) \cup {TableOf(page)}
         /\ TablesOf({}) = {}
         /\ page \in S => TableOf(page) \in TablesOf(S)
         /\ S \subseteq Nat => TablesOf(S) \subseteq Nat
BY TableOfType DEF TablesOf

\* A mapping is a function from pages to frames.
LEMMA PageMapFacts ==
  ASSUME NEW m \in PageMaps
  PROVE  /\ DOMAIN m \subseteq Nat
         /\ m \in [DOMAIN m -> Frames]
         /\ \A p \in DOMAIN m : m[p] \in Frames
         /\ FramesOf(m) \subseteq Frames
<1>1. PICK D \in SUBSET Nat : m \in [D -> Frames]
  BY DEF PageMaps
<1> QED
  BY <1>1 DEF FramesOf

\* What is a function from pages to frames is a mapping.
LEMMA PageMapIntro ==
  ASSUME NEW D \in SUBSET Nat, NEW m \in [D -> Frames]
  PROVE  m \in PageMaps
BY DEF PageMaps

\* A page table entry is filled in.
LEMMA MapFacts ==
  ASSUME NEW m \in PageMaps, NEW page \in Nat, NEW frame \in Frames
  PROVE  /\ Map(m, page, frame) \in PageMaps
         /\ DOMAIN Map(m, page, frame) = DOMAIN m \cup {page}
         /\ Map(m, page, frame)[page] = frame
         /\ \A p \in DOMAIN m : p # page => Map(m, page, frame)[p] = m[p]
<1>1. DOMAIN m \subseteq Nat /\ \A p \in DOMAIN m : m[p] \in Frames
  BY PageMapFacts
<1>2. Map(m, page, frame) \in [DOMAIN m \cup {page} -> Frames]
  BY <1>1 DEF Map
<1>3. Map(m, page, frame) \in PageMaps
  BY <1>1, <1>2, PageMapIntro
<1> QED
  BY <1>3 DEF Map

\* Entries are cleared.
LEMMA KeepFacts ==
  ASSUME NEW m \in PageMaps, NEW kept
  PROVE  /\ Keep(m, kept) \in PageMaps
         /\ DOMAIN Keep(m, kept) = DOMAIN m \cap kept
         /\ \A p \in DOMAIN m \cap kept : Keep(m, kept)[p] = m[p]
<1>1. DOMAIN m \subseteq Nat /\ \A p \in DOMAIN m : m[p] \in Frames
  BY PageMapFacts
<1>2. Keep(m, kept) \in [DOMAIN m \cap kept -> Frames]
  BY <1>1 DEF Keep
<1>3. Keep(m, kept) \in PageMaps
  BY <1>1, <1>2, PageMapIntro
<1> QED
  BY <1>3 DEF Keep

\* A new directory maps nothing.
LEMMA EmptyMap == [p \in {} |-> 0] \in PageMaps /\ DOMAIN [p \in {} |-> 0] = {}
<1>1. [p \in {} |-> 0] \in [{} -> Frames]
  OBVIOUS
<1> QED
  BY <1>1, PageMapIntro

-----------------------------------------------------------------------------
(***************************************************************************)
(* Frames change hands.                                                    *)
(***************************************************************************)

\* The kernel gets a clear frame.
LEMMA KernelGetsFrame ==
  ASSUME NEW K, NEW P, NEW U, NEW L, Exclusive(K, P, U, L),
         NEW K2, NEW page, NEW f, f \notin U,
         DOMAIN K2 = DOMAIN K \cup {page}, page \notin DOMAIN K,
         K2[page] = f, \A k \in DOMAIN K : K2[k] = K[k]
  PROVE  Exclusive(K2, P, U \cup {f}, L)
BY DEF Exclusive

\* A process gets a clear frame.
LEMMA ProcessGetsFrame ==
  ASSUME NEW K, NEW P, NEW U, NEW L, Exclusive(K, P, U, L),
         NEW Q, NEW i \in DOMAIN P, NEW page, NEW f, f \notin U,
         DOMAIN Q = DOMAIN P, \A j \in DOMAIN P : j # i => Q[j] = P[j],
         DOMAIN Q[i] = DOMAIN P[i] \cup {page}, page \notin DOMAIN P[i],
         Q[i][page] = f, \A p \in DOMAIN P[i] : Q[i][p] = P[i][p]
  PROVE  Exclusive(K, Q, U \cup {f}, L)
<1>1. /\ \A k, l \in DOMAIN K : K[k] = K[l] => k = l
      /\ \A j \in DOMAIN P : \A p \in DOMAIN P[j], k \in DOMAIN K : P[j][p] # K[k]
      /\ \A j, l \in DOMAIN P : \A p \in DOMAIN P[j], q \in DOMAIN P[l] :
           P[j][p] = P[l][q] => j = l /\ p = q
      /\ Reserved \subseteq U /\ L \subseteq U
      /\ \A k \in DOMAIN K : K[k] \in U /\ K[k] \notin L
      /\ \A j \in DOMAIN P : \A p \in DOMAIN P[j] :
           P[j][p] \in U /\ P[j][p] \notin L /\ P[j][p] \notin Reserved
      /\ \A g \in U : \/ g \in Reserved \/ g \in L
                      \/ \E k \in DOMAIN K : K[k] = g
                      \/ \E j \in DOMAIN P : \E p \in DOMAIN P[j] : P[j][p] = g
  BY DEF Exclusive
<1>2. \A j \in DOMAIN Q : \A p \in DOMAIN Q[j] :
        \/ j \in DOMAIN P /\ p \in DOMAIN P[j] /\ Q[j][p] = P[j][p] /\ Q[j][p] # f
        \/ j = i /\ p = page /\ Q[j][p] = f
  BY <1>1
<1>3. \A j \in DOMAIN P : \A p \in DOMAIN P[j] : p \in DOMAIN Q[j] /\ Q[j][p] = P[j][p]
  BY <1>1
<1>4. \A j \in DOMAIN Q : \A p \in DOMAIN Q[j], k \in DOMAIN K : Q[j][p] # K[k]
  BY <1>1, <1>2
<1>5. \A j, l \in DOMAIN Q : \A p \in DOMAIN Q[j], q \in DOMAIN Q[l] :
        Q[j][p] = Q[l][q] => j = l /\ p = q
  BY <1>1, <1>2
<1>6. \A j \in DOMAIN Q : \A p \in DOMAIN Q[j] :
        Q[j][p] \in U \cup {f} /\ Q[j][p] \notin L /\ Q[j][p] \notin Reserved
  BY <1>1, <1>2
<1>7. \A g \in U \cup {f} :
        \/ g \in Reserved \/ g \in L
        \/ \E k \in DOMAIN K : K[k] = g
        \/ \E j \in DOMAIN Q : \E p \in DOMAIN Q[j] : Q[j][p] = g
  BY <1>1, <1>3
<1> QED
  BY <1>1, <1>4, <1>5, <1>6, <1>7 DEF Exclusive

\* A process that maps nothing joins, or none of the mappings changes.
LEMMA SpaceJoins ==
  ASSUME NEW K, NEW P, NEW U, NEW L, Exclusive(K, P, U, L),
         NEW Q, DOMAIN P \subseteq DOMAIN Q,
         \A j \in DOMAIN P : Q[j] = P[j],
         \A j \in DOMAIN Q \ DOMAIN P : DOMAIN Q[j] = {}
  PROVE  Exclusive(K, Q, U, L)
<1>1. \A j \in DOMAIN Q : \A p \in DOMAIN Q[j] :
        j \in DOMAIN P /\ p \in DOMAIN P[j] /\ Q[j][p] = P[j][p]
  OBVIOUS
<1> QED
  BY <1>1 DEF Exclusive

\* A process gives frames back, and what it does not give back it keeps, or it
\* leaves it behind.
LEMMA ProcessGivesFrames ==
  ASSUME NEW K, NEW P, NEW U, NEW L, Exclusive(K, P, U, L),
         NEW Q, NEW i \in DOMAIN P, NEW back, NEW left,
         \A j \in DOMAIN Q : j \in DOMAIN P /\ (j # i => Q[j] = P[j]),
         \A j \in DOMAIN P : j # i => j \in DOMAIN Q,
         i \in DOMAIN Q => /\ DOMAIN Q[i] \subseteq DOMAIN P[i]
                          /\ \A p \in DOMAIN Q[i] : Q[i][p] = P[i][p],
         \A p \in DOMAIN P[i] :
           \/ P[i][p] \in back /\ P[i][p] \notin left /\ (i \in DOMAIN Q => p \notin DOMAIN Q[i])
           \/ P[i][p] \notin back /\ P[i][p] \in left /\ i \notin DOMAIN Q
           \/ P[i][p] \notin back /\ P[i][p] \notin left /\ i \in DOMAIN Q /\ p \in DOMAIN Q[i],
         \A f \in back \cup left : \E p \in DOMAIN P[i] : P[i][p] = f
  PROVE  Exclusive(K, Q, U \ back, L \cup left)
<1>1. /\ \A k, l \in DOMAIN K : K[k] = K[l] => k = l
      /\ \A j \in DOMAIN P : \A p \in DOMAIN P[j], k \in DOMAIN K : P[j][p] # K[k]
      /\ \A j, l \in DOMAIN P : \A p \in DOMAIN P[j], q \in DOMAIN P[l] :
           P[j][p] = P[l][q] => j = l /\ p = q
      /\ Reserved \subseteq U /\ L \subseteq U
      /\ \A k \in DOMAIN K : K[k] \in U /\ K[k] \notin L
      /\ \A j \in DOMAIN P : \A p \in DOMAIN P[j] :
           P[j][p] \in U /\ P[j][p] \notin L /\ P[j][p] \notin Reserved
      /\ \A g \in U : \/ g \in Reserved \/ g \in L
                      \/ \E k \in DOMAIN K : K[k] = g
                      \/ \E j \in DOMAIN P : \E p \in DOMAIN P[j] : P[j][p] = g
  BY DEF Exclusive
<1>2. \A j \in DOMAIN Q : \A p \in DOMAIN Q[j] :
        j \in DOMAIN P /\ p \in DOMAIN P[j] /\ Q[j][p] = P[j][p]
  OBVIOUS
<1>3. \A j \in DOMAIN Q : \A p \in DOMAIN Q[j] : Q[j][p] \notin back /\ Q[j][p] \notin left
  <2> SUFFICES ASSUME NEW j \in DOMAIN Q, NEW p \in DOMAIN Q[j]
               PROVE  P[j][p] \notin back /\ P[j][p] \notin left
    BY <1>2
  <2>1. j \in DOMAIN P /\ p \in DOMAIN P[j]
    BY <1>2
  <2>2. CASE j # i
    BY <1>1, <2>1, <2>2
  <2>3. CASE j = i
    BY <2>1, <2>3
  <2> QED
    BY <2>2, <2>3
<1>4. \A f \in back \cup left : f \in U /\ f \notin L /\ f \notin Reserved /\ \A k \in DOMAIN K : K[k] # f
  BY <1>1
<1>5. \A f \in left : f \notin back
  BY <1>1
<1>6. \A g \in U \ back :
        \/ g \in Reserved \/ g \in L \cup left
        \/ \E k \in DOMAIN K : K[k] = g
        \/ \E j \in DOMAIN Q : \E p \in DOMAIN Q[j] : Q[j][p] = g
  <2> SUFFICES ASSUME NEW g \in U \ back, g \notin left,
                      NEW j \in DOMAIN P, NEW p \in DOMAIN P[j], P[j][p] = g
               PROVE  \E l \in DOMAIN Q : \E q \in DOMAIN Q[l] : Q[l][q] = g
    BY <1>1
  <2>1. j \in DOMAIN Q /\ p \in DOMAIN Q[j] /\ Q[j][p] = g
    OBVIOUS
  <2> QED
    BY <2>1
<1>7. \A j \in DOMAIN Q : \A p \in DOMAIN Q[j], k \in DOMAIN K : Q[j][p] # K[k]
  BY <1>1, <1>2
<1>8. \A j, l \in DOMAIN Q : \A p \in DOMAIN Q[j], q \in DOMAIN Q[l] :
        Q[j][p] = Q[l][q] => j = l /\ p = q
  BY <1>1, <1>2
<1>9. \A j \in DOMAIN Q : \A p \in DOMAIN Q[j] :
        Q[j][p] \in U \ back /\ Q[j][p] \notin L \cup left /\ Q[j][p] \notin Reserved
  BY <1>1, <1>2, <1>3
<1>10. /\ Reserved \subseteq U \ back /\ L \cup left \subseteq U \ back
       /\ \A k \in DOMAIN K : K[k] \in U \ back /\ K[k] \notin L \cup left
  BY <1>1, <1>4, <1>5
<1> QED
  BY <1>1, <1>6, <1>7, <1>8, <1>9, <1>10 DEF Exclusive

-----------------------------------------------------------------------------
(***************************************************************************)
(* Steps that leave a part of the state alone.                             *)
(***************************************************************************)

\* Nobody's links change.
LEMMA RingSame ==
  ASSUME RingOK, ProcsOK, Running, Pids' = Pids, active' = active,
         \A p \in Pids : procs'[p].next = procs[p].next /\ procs'[p].previous = procs[p].previous
  PROVE  RingOK'
<1>1. /\ \A p \in Pids : procs[procs[p].next].previous = p
      /\ \A p \in Pids : procs[procs[p].previous].next = p
      /\ \A S \in SUBSET Pids : (active \in S /\ \A p \in S : procs[p].next \in S) => S = Pids
  BY DEF RingOK, Running
<1>2. \A p \in Pids : procs[p].next \in Pids /\ procs[p].previous \in Pids
  BY DEF ProcsOK
<1>3. \A p \in Pids : procs'[procs'[p].next].previous = p
  BY <1>1, <1>2
<1>4. \A p \in Pids : procs'[procs'[p].previous].next = p
  BY <1>1, <1>2
<1>5. \A S \in SUBSET Pids : (active \in S /\ \A p \in S : procs'[p].next \in S) => S = Pids
  BY <1>1
<1> QED
  BY <1>3, <1>4, <1>5 DEF RingOK

\* Nobody's mappings change.
LEMMA SpacesSame ==
  ASSUME FramesOK, Pids' = Pids, \A p \in Pids : procs'[p].pages = procs[p].pages,
         kernel'.pages = kernel.pages, used' = used, lost' = lost
  PROVE  FramesOK'
<1>1. Spaces' = Spaces
  BY DEF Spaces
<1> QED
  BY <1>1 DEF FramesOK

\* No process but the target changes its mappings.
LEMMA StaleSame ==
  ASSUME StaleOK, Pids' = Pids, task'.pid = task.pid, task'.stale = task.stale,
         \A p \in Pids \ {task.pid} : procs'[p].pages = procs[p].pages
  PROVE  StaleOK'
BY DEF StaleOK

\* Another task begins, or none.
LEMMA StaleEmpty ==
  ASSUME DOMAIN task'.stale = {}
  PROVE  StaleOK'
BY DEF StaleOK

\* The kernel stops where it is: a failed assertion, a panic.
LEMMA StopKeeps ==
  ASSUME IInv, Running, stopped' \in {"panic", "assert"},
         UNCHANGED <<used, kernel, procs, active, pids, task, heap, content, lost>>
  PROVE  IInv'
<1>1. Pids' = Pids
  BY DEF Pids
<1>2. Types'
  BY <1>1 DEF IInv, Types, Running, Reasons
<1>3. ProcsOK'
  BY <1>1 DEF IInv, ProcsOK
<1>4. FramesOK'
  BY <1>1, SpacesSame DEF IInv
<1>5. TaskOK' /\ HeapOK' /\ TodoOK' /\ TablesOK'
  BY <1>1 DEF IInv, TaskOK, HeapOK, TodoOK, TablesOK, Target, NextPage
<1>6. RingOK'
  BY <1>1, RingSame DEF IInv
<1>7. RunOK'
  BY DEF RunOK, Running
<1>8. StaleOK'
  BY <1>1, StaleSame DEF IInv
<1>9. CopyOK'
  BY DEF IInv, CopyOK, Target
<1> QED
  BY <1>2, <1>3, <1>4, <1>5, <1>6, <1>7, <1>8, <1>9 DEF IInv

\* The process writes to a page of its own.
LEMMA StoreKeeps ==
  ASSUME IInv, NEW page, NEW value \in Values, Store(page, value)
  PROVE  IInv'
<1>1. Pids' = Pids /\ InUserMode /\ Running /\ UNCHANGED <<used, kernel, procs, active, pids, task, heap, lost, stopped>>
  BY DEF Pids, Store, InUserMode
<1>2. content' \in [Frames -> Contents]
  <2>1. content \in [Frames -> Contents] /\ value \in Contents
    BY DEF IInv, Types, Contents
  <2> QED
    BY <2>1 DEF Store
<1>3. Types'
  BY <1>1, <1>2 DEF IInv, Types
<1>4. ProcsOK'
  BY <1>1 DEF IInv, ProcsOK
<1>5. FramesOK'
  BY <1>1, SpacesSame DEF IInv
<1>6. TaskOK' /\ HeapOK' /\ TodoOK' /\ TablesOK'
  BY <1>1 DEF IInv, TaskOK, HeapOK, TodoOK, TablesOK, Target, NextPage
<1>7. RingOK'
  BY <1>1, RingSame DEF IInv
<1>8. RunOK'
  BY <1>1 DEF IInv, RunOK, Running, KernelLinks
<1>9. StaleOK'
  BY <1>1, StaleSame DEF IInv
<1>10. CopyOK'
  BY <1>1 DEF CopyOK, InUserMode
<1> QED
  BY <1>3, <1>4, <1>5, <1>6, <1>7, <1>8, <1>9, <1>10 DEF IInv

\* paging_clone_page_directory_for_new_process has its directory.
LEMMA NewDirectoryKeeps ==
  ASSUME IInv, NewDirectory
  PROVE  IInv'
<1>1. /\ Pids' = Pids /\ Running /\ task.phase = "directory" /\ task.grown = 2
      /\ UNCHANGED <<used, kernel, procs, active, pids, heap, content, lost, stopped>>
  BY DEF Pids, NewDirectory, Doing
<1>2. task \in Tasks /\ heap \in Heaps
  BY DEF IInv, Types
<1>3. HeapStart \in Nat
  BY LayoutAssumption
<1>4. heap.top \in Nat /\ heap.top >= HeapStart + 2
  BY <1>1, <1>2, <1>3 DEF IInv, HeapOK, Heaps
<1>5. heap.top - 2 \in Nat /\ heap.top - 2 >= HeapStart
  BY <1>3, <1>4
<1>6. task' = [task EXCEPT !.phase = "clone", !.dir = heap.top - 2]
  BY DEF NewDirectory
<1>7. /\ task' \in Tasks /\ task'.phase = "clone" /\ task'.dir = heap.top - 2
      /\ task'.op = task.op /\ task'.pid = task.pid /\ task'.todo = task.todo
      /\ task'.stale = task.stale
  BY <1>2, <1>5, <1>6 DEF Tasks, Phases
<1>8. Types'
  BY <1>1, <1>7 DEF IInv, Types
<1>9. ProcsOK'
  BY <1>1 DEF IInv, ProcsOK
<1>10. FramesOK'
  BY <1>1, SpacesSame DEF IInv
<1>11. TaskOK'
  BY <1>1, <1>7 DEF IInv, TaskOK
<1>12. HeapOK'
  BY <1>1, <1>5, <1>7 DEF IInv, HeapOK
<1>13. TodoOK'
  BY <1>1, <1>7 DEF IInv, TodoOK, Target
<1>14. TablesOK'
  BY <1>1, <1>7 DEF IInv, TablesOK
<1>15. RingOK'
  BY <1>1, RingSame DEF IInv
<1>16. RunOK'
  BY <1>1, <1>7 DEF IInv, RunOK, Running, KernelLinks
<1>17. StaleOK'
  BY <1>1, <1>7, StaleSame DEF IInv
<1>18. CopyOK'
  BY <1>1, <1>7 DEF IInv, CopyOK, Target
<1> QED
  BY <1>8, <1>9, <1>10, <1>11, <1>12, <1>13, <1>14, <1>15, <1>16, <1>17, <1>18 DEF IInv

-----------------------------------------------------------------------------
(***************************************************************************)
(* The kernel heap grows.                                                  *)
(***************************************************************************)

\* The kernel maps a page that it did not have to a clear frame.
LEMMA KernelPage ==
  ASSUME IInv, Clear, NEW page \in Nat, page \notin DOMAIN kernel.pages
  PROVE  LET f == FirstClear(used)
             K == Map(kernel.pages, page, f)
         IN  /\ f \in Frames /\ f \notin used
             /\ K \in PageMaps /\ DOMAIN K = DOMAIN kernel.pages \cup {page}
             /\ Exclusive(K, Spaces, used \cup {f}, lost)
<1> DEFINE f == FirstClear(used)
<1>1. f \in Frames /\ f \notin used
  BY FirstClearClear DEF Clear
<1>2. kernel.pages \in PageMaps
  BY DEF IInv, Types, Kernels
<1> HIDE DEF f
<1>3. /\ Map(kernel.pages, page, f) \in PageMaps
      /\ DOMAIN Map(kernel.pages, page, f) = DOMAIN kernel.pages \cup {page}
      /\ Map(kernel.pages, page, f)[page] = f
      /\ \A k \in DOMAIN kernel.pages :
           k # page => Map(kernel.pages, page, f)[k] = kernel.pages[k]
  <2> DEFINE m == kernel.pages
  <2>1. m \in PageMaps
    BY <1>2
  <2> HIDE DEF m
  <2>2. /\ Map(m, page, f) \in PageMaps
        /\ DOMAIN Map(m, page, f) = DOMAIN m \cup {page}
        /\ Map(m, page, f)[page] = f
        /\ \A k \in DOMAIN m : k # page => Map(m, page, f)[k] = m[k]
    BY <1>1, <2>1, MapFacts
  <2> QED
    BY <2>2 DEF m
<1>4. Exclusive(Map(kernel.pages, page, f), Spaces, used \cup {f}, lost)
  BY <1>1, <1>3, KernelGetsFrame DEF IInv, FramesOK
<1> QED
  BY <1>1, <1>3, <1>4 DEF f

\* paging_create_kernel_page_with_any_frame, the page (paging.c:332-349).
LEMMA NewHeapPageKeeps ==
  ASSUME IInv, NewHeapPage
  PROVE  IInv'
<1>1. /\ Running /\ WantsHeap /\ Clear
      /\ Pids' = Pids /\ UNCHANGED <<procs, active, pids, content, lost>>
  BY DEF NewHeapPage, Pids
<1>2. CASE heap.top \in DOMAIN kernel.pages
  BY <1>1, <1>2, StopKeeps DEF NewHeapPage
<1>3. CASE heap.top \notin DOMAIN kernel.pages
  <2> DEFINE f == FirstClear(used)
             K == Map(kernel.pages, heap.top, f)
  <2>1. task \in Tasks /\ heap \in Heaps /\ kernel \in Kernels
    BY DEF IInv, Types
  <2>2. heap.top \in Nat /\ heap.spare \in Nat /\ task.grown \in 0..2
    BY <2>1 DEF Heaps, Tasks
  <2>3. /\ f \in Frames /\ f \notin used
        /\ K \in PageMaps /\ DOMAIN K = DOMAIN kernel.pages \cup {heap.top}
        /\ Exclusive(K, Spaces, used \cup {f}, lost)
    BY <1>1, <1>3, <2>2, KernelPage
  <2>4. /\ used' = used \cup {f} /\ UNCHANGED stopped
        /\ kernel' = [kernel EXCEPT !.pages = K]
    BY <1>3 DEF NewHeapPage
  <2> HIDE DEF f, K
  <2>5. kernel' \in Kernels /\ kernel'.pages = K /\ kernel'.tables = kernel.tables
    BY <2>1, <2>3, <2>4 DEF Kernels
  <2>6. /\ task' \in Tasks /\ heap' \in Heaps /\ heap'.top = heap.top + 1
        /\ task'.op = task.op /\ task'.pid = task.pid /\ task'.todo = task.todo
        /\ task'.stale = task.stale /\ task'.phase = task.phase /\ task'.dir = task.dir
        /\ task.phase = "directory" => task'.grown = task.grown + 1
    <3>1. CASE task.phase = "directory"
      <4>1. task.grown < 2
        BY <3>1 DEF WantsHeap, TableMissing, NewHeapPage
      <4>2. task' = [task EXCEPT !.grown = @ + 1] /\ heap' = [heap EXCEPT !.top = @ + 1]
        BY <1>3, <3>1 DEF NewHeapPage
      <4>3. task.grown + 1 \in 0..2 /\ heap.top + 1 \in Nat
        BY <2>2, <4>1
      <4>4. heap' \in Heaps /\ heap'.top = heap.top + 1
        BY <2>1, <4>2, <4>3 DEF Heaps
      <4> QED
        BY <2>1, <4>2, <4>3, <4>4 DEF Tasks
    <3>2. CASE task.phase # "directory"
      <4>1. UNCHANGED task /\ heap' = [top |-> heap.top + 1, spare |-> heap.spare + 1]
        BY <1>3, <3>2 DEF NewHeapPage
      <4> QED
        BY <2>1, <2>2, <3>2, <4>1 DEF Heaps
    <3> QED
      BY <3>1, <3>2
  <2>7. Types'
    BY <1>1, <2>3, <2>4, <2>5, <2>6 DEF IInv, Types
  <2>8. ProcsOK'
    BY <1>1, <2>5 DEF IInv, ProcsOK
  <2>9. FramesOK'
    <3>1. Spaces' = Spaces
      BY <1>1 DEF Spaces
    <3> QED
      BY <1>1, <2>3, <2>4, <2>5, <3>1 DEF FramesOK
  <2>10. TaskOK'
    BY <1>1, <2>6 DEF IInv, TaskOK
  <2>11. HeapOK'
    <3>1. HeapStart \in Nat
      BY LayoutAssumption
    <3>2. /\ heap.top >= HeapStart
          /\ task.phase = "directory" => heap.top >= HeapStart + task.grown
          /\ task.phase = "clone" => task.dir >= HeapStart
      BY DEF IInv, HeapOK
    <3>3. heap'.top >= HeapStart
      BY <2>2, <2>6, <3>1, <3>2
    <3>4. task.phase = "directory" => heap'.top >= HeapStart + task'.grown
      BY <2>2, <2>6, <3>1, <3>2
    <3> QED
      BY <2>6, <3>2, <3>3, <3>4 DEF HeapOK
  <2>12. TodoOK'
    BY <1>1, <2>3, <2>5, <2>6 DEF IInv, TodoOK, Target
  <2>13. TablesOK'
    BY <1>1, <2>6 DEF IInv, TablesOK, NextPage
  <2>14. RingOK'
    BY <1>1, RingSame DEF IInv
  <2>15. RunOK'
    BY <1>1, <2>4, <2>5, <2>6 DEF IInv, RunOK, Running, KernelLinks
  <2>16. StaleOK'
    BY <1>1, <2>6, StaleSame DEF IInv
  <2>17. CopyOK'
    BY <1>1, <2>6 DEF IInv, CopyOK, Target
  <2> QED
    BY <2>7, <2>8, <2>9, <2>10, <2>11, <2>12, <2>13, <2>14, <2>15, <2>16, <2>17 DEF IInv
<1> QED
  BY <1>2, <1>3

\* paging_create_kernel_page_with_any_frame, the table, which is linked to all
\* address spaces (paging.c:310-329, process.c:263-275).
LEMMA NewKernelTableKeeps ==
  ASSUME IInv, NewKernelTable
  PROVE  IInv'
<1> DEFINE t == TableOf(heap.top)
<1>1. /\ Running /\ Clear /\ heap.top < HeapEnd
      /\ UNCHANGED <<active, pids, task, heap, content, lost>>
  BY DEF NewKernelTable
<1>2. heap \in Heaps /\ heap.top \in Nat /\ kernel \in Kernels /\ procs \in [Pids -> Processes]
  BY DEF IInv, Types, Heaps
<1>3. /\ t \in Nat /\ t < KernelTables /\ TablePage(t) \in Nat
  <2>1. heap.top \in HeapStart..HeapEnd - 1
    BY <1>1, <1>2, LayoutAssumption DEF IInv, HeapOK
  <2>2. t \in Nat
    BY <1>2, TableOfType
  <2> QED
    BY <2>1, <2>2, LayoutAssumption DEF TablePage
<1>4. CASE TablePage(t) \in DOMAIN kernel.pages
  BY <1>1, <1>4, StopKeeps DEF NewKernelTable
<1>5. CASE TablePage(t) \notin DOMAIN kernel.pages
  <2> DEFINE f == FirstClear(used)
             K == Map(kernel.pages, TablePage(t), f)
  <2>1. /\ f \in Frames /\ f \notin used
        /\ K \in PageMaps /\ DOMAIN K = DOMAIN kernel.pages \cup {TablePage(t)}
        /\ Exclusive(K, Spaces, used \cup {f}, lost)
    BY <1>1, <1>3, <1>5, KernelPage
  <2>2. /\ used' = used \cup {f}
        /\ kernel' = [tables |-> kernel.tables \cup {t}, pages |-> K]
        /\ LinkKernelTable(t)
    BY <1>5 DEF NewKernelTable
  <2> HIDE DEF f, K, t
  <2>3. procs' = [p \in Pids |-> [procs[p] EXCEPT !.linked = @ \cup {t}]]
    BY <2>2 DEF LinkKernelTable, Pids
  <2>4. Pids' = Pids
    BY <2>3 DEF Pids
  <2>5. \A p \in Pids :
          /\ procs'[p] \in Processes
          /\ procs'[p].linked = procs[p].linked \cup {t}
          /\ procs'[p].next = procs[p].next /\ procs'[p].previous = procs[p].previous
          /\ procs'[p].dir = procs[p].dir /\ procs'[p].eip = procs[p].eip
          /\ procs'[p].tables = procs[p].tables /\ procs'[p].pages = procs[p].pages
    BY <1>2, <1>3, <2>3 DEF Processes
  <2>6. procs' \in [Pids -> Processes]
    BY <2>3, <2>5
  <2>7. kernel' \in Kernels /\ kernel'.pages = K /\ kernel'.tables = kernel.tables \cup {t}
    BY <1>2, <1>3, <2>1, <2>2 DEF Kernels
  <2>8. stopped' \in {"no", "wild write"}
    BY <2>2 DEF LinkKernelTable
  <2>9. Types'
    <3>1. active \in Pids
      BY <1>1 DEF IInv, Types, Running
    <3> QED
      BY <1>1, <2>1, <2>2, <2>4, <2>6, <2>7, <2>8, <3>1 DEF IInv, Types, Reasons
  <2>10. ProcsOK'
    BY <2>4, <2>5, <2>7 DEF IInv, ProcsOK
  <2>11. FramesOK'
    <3>1. Spaces' = Spaces
      BY <2>4, <2>5 DEF Spaces
    <3> QED
      BY <1>1, <2>1, <2>2, <2>7, <3>1 DEF FramesOK
  <2>12. TaskOK'
    BY <1>1, <2>4 DEF IInv, TaskOK
  <2>13. HeapOK'
    BY <1>1 DEF IInv, HeapOK
  <2>14. TodoOK'
    <3>1. task.op # "none" => Target'.pages = Target.pages /\ procs'[active].pages = procs[active].pages
      BY <1>1, <2>5 DEF IInv, TaskOK, Target
    <3>2. BootPages \subseteq DOMAIN kernel'.pages
      BY <2>1, <2>7 DEF IInv, TodoOK
    <3> QED
      BY <1>1, <3>1, <3>2 DEF IInv, TodoOK
  <2>15. TablesOK'
    BY <1>1, <2>4, <2>5 DEF IInv, TablesOK, NextPage
  <2>16. RingOK'
    BY <1>1, <2>4, <2>5, RingSame DEF IInv
  <2>17. RunOK'
    <3>1. KernelLinks' = KernelLinks \cup {t}
      BY <1>3, <2>7 DEF KernelLinks
    <3>2. ASSUME NEW p \in Pids
          PROVE  /\ p # task.pid \/ task.phase \in {"stack", "buffer", "load"} =>
                       procs'[p].dir # NoDirectory /\ procs'[p].linked = KernelLinks \cup {t}
                 /\ p # task.pid => KStackPages \subseteq DOMAIN procs'[p].pages /\ procs'[p].eip # "none"
      BY <1>1, <2>5 DEF IInv, RunOK
    <3> QED
      BY <1>1, <2>4, <3>1, <3>2 DEF RunOK
  <2>18. StaleOK'
    BY <1>1, <2>4, <2>5, StaleSame DEF IInv
  <2>19. CopyOK'
    <3>1. task.op # "none" => Target'.pages = Target.pages /\ procs'[active].pages = procs[active].pages
      BY <1>1, <2>5 DEF IInv, TaskOK, Target
    <3> QED
      BY <1>1, <3>1 DEF IInv, CopyOK
  <2> QED
    BY <2>9, <2>10, <2>11, <2>12, <2>13, <2>14, <2>15, <2>16, <2>17, <2>18, <2>19 DEF IInv
<1> QED
  BY <1>4, <1>5

-----------------------------------------------------------------------------
(***************************************************************************)
(* The target gets its tables and pages.                                   *)
(***************************************************************************)

\* While there is work there is somebody to do it for.
LEMMA AtWork ==
  ASSUME IInv, Running
  PROVE  /\ active \in Pids /\ 0 \notin Pids /\ Pids \subseteq Nat
         /\ task.phase # "none" => task.op # "none" /\ task.pid \in Pids
         /\ \A p \in Pids : procs[p] \in Processes /\ procs[p].pages \in PageMaps
         /\ task \in Tasks /\ task.todo \subseteq Nat
         /\ heap \in Heaps /\ kernel \in Kernels /\ kernel.pages \in PageMaps
         /\ DOMAIN procs = Pids
<1>1. /\ active \in Pids /\ procs \in [Pids -> Processes] /\ task \in Tasks
      /\ heap \in Heaps /\ kernel \in Kernels /\ pids \in Nat /\ Pids \subseteq 1..pids
  BY DEF IInv, Types, Running
<1>2. 0 \notin Pids /\ Pids \subseteq Nat
  BY <1>1
<1>3. \A p \in Pids : procs[p] \in Processes /\ procs[p].pages \in PageMaps
  BY <1>1 DEF Processes
<1>4. task.phase # "none" => task.op # "none" /\ task.pid \in Pids
  BY DEF IInv, TaskOK
<1> QED
  BY <1>1, <1>2, <1>3, <1>4 DEF Tasks, Kernels, Pids

\* An aligned page of the heap becomes a page table.
LEMMA NewTableKeeps ==
  ASSUME IInv, NewTable
  PROVE  IInv'
<1> DEFINE t == TableOf(NextPage)
<1>1. /\ Running /\ TableMissing /\ heap.spare > 0
      /\ UNCHANGED <<used, kernel, active, pids, task, content, lost, stopped>>
      /\ procs' = [procs EXCEPT ![task.pid].tables = @ \cup {t}]
      /\ heap' = [heap EXCEPT !.spare = @ - 1]
  BY DEF NewTable
<1>2. /\ task.phase \in {"clone", "load"} /\ task.todo # {}
      /\ t \notin procs[task.pid].tables
  BY <1>1 DEF TableMissing, Target
<1>3. /\ task.op # "none" /\ task.pid \in Pids /\ procs \in [Pids -> Processes]
      /\ heap \in Heaps /\ task.todo \subseteq Nat /\ task \in Tasks /\ active \in Pids
  BY <1>1, <1>2, AtWork DEF IInv, Types
<1>4. t \in Nat
  BY <1>2, <1>3, NextPageTodo, TableOfType
<1> HIDE DEF t
<1>5. Pids' = Pids /\ procs' \in [Pids -> Processes]
  BY <1>1, <1>3, <1>4 DEF Processes, Pids
<1>6. \A p \in Pids :
        /\ procs'[p].tables = IF p = task.pid THEN procs[p].tables \cup {t} ELSE procs[p].tables
        /\ procs'[p].next = procs[p].next /\ procs'[p].previous = procs[p].previous
        /\ procs'[p].dir = procs[p].dir /\ procs'[p].eip = procs[p].eip
        /\ procs'[p].linked = procs[p].linked /\ procs'[p].pages = procs[p].pages
  BY <1>1, <1>3, <1>4 DEF Processes
<1>7. heap' \in Heaps /\ heap'.top = heap.top
  BY <1>1, <1>3 DEF Heaps
<1>8. Types'
  BY <1>1, <1>3, <1>5, <1>7 DEF IInv, Types
<1>9. ProcsOK'
  <2>1. IsFiniteSet(procs[task.pid].tables \cup {t})
    BY <1>3, FS_AddElement DEF IInv, ProcsOK
  <2> QED
    BY <1>1, <1>5, <1>6, <2>1 DEF IInv, ProcsOK
<1>10. FramesOK'
  BY <1>1, <1>5, <1>6, SpacesSame DEF IInv
<1>11. TaskOK' /\ HeapOK'
  BY <1>1, <1>5, <1>7 DEF IInv, TaskOK, HeapOK
<1>12. TodoOK' /\ CopyOK'
  <2>1. Target'.pages = Target.pages /\ procs'[active].pages = procs[active].pages
    BY <1>1, <1>3, <1>6 DEF Target
  <2> QED
    BY <1>1, <2>1 DEF IInv, TodoOK, CopyOK
<1>13. TablesOK'
  <2>1. NextPage' = NextPage
    BY <1>1 DEF NextPage
  <2>2. procs[task.pid].tables = TablesOf(DOMAIN procs[task.pid].pages)
    BY <1>2, <1>3 DEF IInv, TablesOK, t
  <2> QED
    BY <1>1, <1>2, <1>5, <1>6, <2>1, <2>2 DEF IInv, TablesOK, t
<1>14. RingOK'
  BY <1>1, <1>5, <1>6, RingSame DEF IInv
<1>15. RunOK'
  BY <1>1, <1>5, <1>6 DEF IInv, RunOK, Running, KernelLinks
<1>16. StaleOK'
  BY <1>1, <1>5, <1>6, StaleSame DEF IInv
<1> QED
  BY <1>8, <1>9, <1>10, <1>11, <1>12, <1>13, <1>14, <1>15, <1>16 DEF IInv

\* The page at hand is mapped to a clear frame, its table being there: what
\* the clone of a directory and the load of a program have in common.
LEMMA PageAtHand ==
  ASSUME IInv, Running, Clear, ~TableMissing, task.phase \in {"clone", "load"}, task.todo # {},
         NextPage \notin DOMAIN Target.pages,
         CreateProcessPage(NextPage, FirstClear(used)),
         task' = [task EXCEPT !.todo = @ \ {NextPage}],
         UNCHANGED <<kernel, active, pids, heap, lost>>,
         content' \in [Frames -> Contents], stopped' \in Reasons
  PROVE  /\ Types' /\ ProcsOK' /\ FramesOK' /\ TaskOK' /\ HeapOK' /\ TodoOK'
         /\ TablesOK' /\ RingOK' /\ RunOK' /\ StaleOK'
         /\ task'.op = task.op /\ task'.pid = task.pid /\ task'.phase = task.phase
         /\ \A p \in Pids \ {task.pid} : procs'[p].pages = procs[p].pages
         /\ DOMAIN Target'.pages = DOMAIN Target.pages \cup {NextPage}
         /\ Target'.pages[NextPage] = FirstClear(used)
         /\ \A p \in DOMAIN Target.pages : Target'.pages[p] = Target.pages[p]
<1> DEFINE f == FirstClear(used)
           page == NextPage
           m == procs[task.pid].pages
           M == Map(m, page, f)
<1>1. /\ task.op # "none" /\ task.pid \in Pids /\ procs \in [Pids -> Processes]
      /\ heap \in Heaps /\ task.todo \subseteq Nat /\ task \in Tasks /\ active \in Pids
      /\ m \in PageMaps
  BY AtWork DEF IInv, Types
<1>2. page \in task.todo /\ page \in Nat
  BY <1>1, NextPageTodo
<1>3. f \in Frames /\ f \notin used
  BY FirstClearClear DEF Clear
<1>4. /\ used' = used \cup {f}
      /\ procs' = [procs EXCEPT ![task.pid].pages = M]
  BY DEF CreateProcessPage
<1>5. page \notin DOMAIN m
  BY DEF Target
<1>6. TableOf(page) \in procs[task.pid].tables
  BY DEF TableMissing, Target
<1>7. Target = procs[task.pid] /\ NextPage = page
  BY DEF Target
<1> HIDE DEF f, page
<1>8. /\ M \in PageMaps /\ DOMAIN M = DOMAIN m \cup {page}
      /\ M[page] = f /\ \A p \in DOMAIN m : M[p] = m[p]
  <2> HIDE DEF m
  <2>1. /\ M \in PageMaps /\ DOMAIN M = DOMAIN m \cup {page}
        /\ M[page] = f /\ \A p \in DOMAIN m : p # page => M[p] = m[p]
    <3>1. m \in PageMaps /\ page \in Nat /\ f \in Frames
      BY <1>1, <1>2, <1>3
    <3> QED
      BY ONLY <3>1, MapFacts, Zenon
  <2> QED
    BY <1>5, <2>1
<1> HIDE DEF M
<1>9. Pids' = Pids /\ procs' \in [Pids -> Processes]
  BY <1>1, <1>4, <1>8 DEF Processes, Pids
<1>10. \A p \in Pids :
        /\ procs'[p].pages = IF p = task.pid THEN M ELSE procs[p].pages
        /\ procs'[p].next = procs[p].next /\ procs'[p].previous = procs[p].previous
        /\ procs'[p].dir = procs[p].dir /\ procs'[p].eip = procs[p].eip
        /\ procs'[p].linked = procs[p].linked /\ procs'[p].tables = procs[p].tables
  BY <1>1, <1>4 DEF Processes
<1>11. /\ task' \in Tasks /\ task'.todo = task.todo \ {page} /\ task'.op = task.op
       /\ task'.pid = task.pid /\ task'.phase = task.phase /\ task'.stale = task.stale
       /\ task'.dir = task.dir /\ task'.grown = task.grown
  BY <1>1, <1>7 DEF Tasks
<1>12. Target' = procs'[task.pid] /\ Target'.pages = M
  BY <1>1, <1>10, <1>11 DEF Target
<1>13. Types'
  BY <1>1, <1>3, <1>4, <1>9, <1>11 DEF IInv, Types
<1>14. ProcsOK'
  <2>1. TableOf(page) >= KernelTables
    BY <1>1, <1>2 DEF IInv, TodoOK
  <2>2. \A q \in DOMAIN M : TableOf(q) >= KernelTables
    BY <1>1, <1>8, <2>1 DEF IInv, ProcsOK
  <2> QED
    BY <1>9, <1>10, <2>2 DEF IInv, ProcsOK
<1>15. FramesOK'
  <2>1. Exclusive(kernel.pages, Spaces, used, lost)
    BY DEF IInv, FramesOK
  <2>2. /\ DOMAIN Spaces' = DOMAIN Spaces /\ task.pid \in DOMAIN Spaces
        /\ \A p \in DOMAIN Spaces : p # task.pid => Spaces'[p] = Spaces[p]
        /\ Spaces[task.pid] = m /\ Spaces'[task.pid] = M
    BY <1>1, <1>9, <1>10 DEF Spaces
  <2>3. Exclusive(kernel.pages, Spaces', used \cup {f}, lost)
    <3> HIDE DEF m
    <3> DEFINE P == Spaces
               Q == Spaces'
    <3>1. /\ DOMAIN Q = DOMAIN P /\ task.pid \in DOMAIN P
          /\ \A p \in DOMAIN P : p # task.pid => Q[p] = P[p]
          /\ Exclusive(kernel.pages, P, used, lost)
      BY <2>1, <2>2
    <3>2. /\ DOMAIN Q[task.pid] = DOMAIN P[task.pid] \cup {page}
          /\ page \notin DOMAIN P[task.pid] /\ Q[task.pid][page] = f
          /\ \A p \in DOMAIN P[task.pid] : Q[task.pid][p] = P[task.pid][p]
      BY <1>5, <1>8, <2>2
    <3> HIDE DEF P, Q
    <3>3. Exclusive(kernel.pages, Q, used \cup {f}, lost)
      BY <1>3, <3>1, <3>2, ProcessGetsFrame
    <3> QED
      BY <3>3 DEF Q
  <2> QED
    BY <1>4, <2>3 DEF FramesOK
<1>16. TaskOK' /\ HeapOK'
  BY <1>9, <1>11 DEF IInv, TaskOK, HeapOK
<1>17. TodoOK'
  <2>1. DOMAIN Target'.pages \cup task'.todo = DOMAIN Target.pages \cup task.todo
    BY <1>2, <1>7, <1>8, <1>11, <1>12
  <2>2. task'.todo \cap DOMAIN Target'.pages = {}
    <3>1. task.todo \cap DOMAIN Target.pages = {}
      BY <1>1 DEF IInv, TodoOK
    <3> QED
      BY <1>7, <1>8, <1>11, <1>12, <3>1
  <2>3. task.op = "fork" => procs'[active].pages = procs[active].pages
    BY <1>1, <1>10 DEF IInv, TaskOK
  <2>4. BootPages \subseteq DOMAIN kernel'.pages
    BY DEF IInv, TodoOK
  <2>5. \A q \in task'.todo : TableOf(q) >= KernelTables
    BY <1>1, <1>11 DEF IInv, TodoOK
  <2>6. task.phase \in {"buffer", "load"} => KStackPages \subseteq DOMAIN Target'.pages \cup task'.todo
    BY <1>1, <2>1 DEF IInv, TodoOK
  <2>7. task.op = "execve" => task'.todo \cap KeptPages = {}
    BY <1>11 DEF IInv, TodoOK
  <2>8. task.op = "init" /\ task.phase \in {"directory", "clone"} =>
          DOMAIN Target'.pages \cup task'.todo = OldStackPages
    BY <2>1 DEF IInv, TodoOK
  <2>9. task.op = "fork" => DOMAIN Target'.pages \cup task'.todo = DOMAIN procs'[active].pages
    BY <2>1, <2>3 DEF IInv, TodoOK
  <2> QED
    BY <1>11, <2>2, <2>4, <2>5, <2>6, <2>7, <2>8, <2>9 DEF TodoOK
<1>18. TablesOK'
  <2>1. procs[task.pid].tables = TablesOf(DOMAIN m) \cup {TableOf(page)}
    <3>1. \/ procs[task.pid].tables = TablesOf(DOMAIN m)
          \/ procs[task.pid].tables = TablesOf(DOMAIN m) \cup {TableOf(page)}
      BY <1>1, <1>7 DEF IInv, TablesOK
    <3> QED
      BY <1>6, <3>1
  <2>2. procs'[task.pid].tables = TablesOf(DOMAIN procs'[task.pid].pages)
    <3>1. procs'[task.pid].pages = M /\ procs'[task.pid].tables = procs[task.pid].tables
      BY <1>1, <1>10
    <3>2. TablesOf(DOMAIN M) = TablesOf(DOMAIN m) \cup {TableOf(page)}
      BY <1>8, TablesOfMore, Zenon
    <3> QED
      BY <2>1, <3>1, <3>2
  <2>3. \A p \in Pids : procs'[p].tables = TablesOf(DOMAIN procs'[p].pages)
    BY <1>10, <2>2 DEF IInv, TablesOK
  <2> QED
    BY <1>9, <2>3 DEF TablesOK
<1>19. RingOK'
  BY <1>9, <1>10, RingSame DEF IInv
<1>20. RunOK'
  BY <1>9, <1>10, <1>11 DEF IInv, RunOK, Running, KernelLinks
<1>21. StaleOK'
  BY <1>9, <1>10, <1>11, StaleSame DEF IInv
<1> QED
  BY <1>7, <1>8, <1>10, <1>11, <1>12, <1>13, <1>14, <1>15, <1>16, <1>17, <1>18, <1>19, <1>20, <1>21 DEF f

\* A page of the clone: its frame is new, so nobody else's memory changes.
LEMMA ClonePageKeeps ==
  ASSUME IInv, ClonePage
  PROVE  IInv'
<1> DEFINE f == FirstClear(used)
           page == NextPage
           from == Source[NextPage]
<1>1. /\ Running /\ task.phase = "clone" /\ task.todo # {} /\ ~TableMissing /\ Clear
      /\ CreateProcessPage(NextPage, f)
      /\ content' = [content EXCEPT ![f] = content[from]]
      /\ task' = [task EXCEPT !.todo = @ \ {NextPage}]
      /\ UNCHANGED <<kernel, active, pids, heap, lost, stopped>>
  BY DEF ClonePage, Doing, CreateProcessPage, CopyFrame
<1>2. /\ task.op # "none" /\ task.pid \in Pids /\ task.todo \subseteq Nat /\ active \in Pids
      /\ kernel.pages \in PageMaps /\ procs[active].pages \in PageMaps
      /\ procs[task.pid].pages \in PageMaps
  BY <1>1, AtWork
<1>3. page \in task.todo /\ page \in Nat
  BY <1>1, <1>2, NextPageTodo
<1>4. page \notin DOMAIN Target.pages
  BY <1>1, <1>2, <1>3 DEF IInv, TodoOK
<1>5. f \in Frames /\ f \notin used
  BY <1>1, FirstClearClear DEF Clear
<1>6. task.op \in {"init", "fork"}
  BY <1>1, <1>2 DEF IInv, TaskOK, Types, Tasks
<1>7. /\ from \in Frames
      /\ task.op = "fork" => page \in DOMAIN procs[active].pages /\ from = procs[active].pages[page]
  <2>1. CASE task.op = "init"
    <3>1. page \in OldStackPages
      BY <1>1, <1>3, <2>1 DEF IInv, TodoOK
    <3>2. page \in DOMAIN kernel.pages
      BY <3>1 DEF IInv, TodoOK, BootPages
    <3>3. from = kernel.pages[page]
      BY <2>1 DEF Source
    <3> QED
      BY <1>2, <2>1, <3>2, <3>3, PageMapFacts
  <2>2. CASE task.op = "fork"
    <3>1. page \in DOMAIN procs[active].pages
      BY <1>3, <2>2 DEF IInv, TodoOK
    <3>2. from = procs[active].pages[page]
      BY <2>2 DEF Source
    <3> QED
      BY <1>2, <3>1, <3>2, PageMapFacts
  <2> QED
    BY <1>6, <2>1, <2>2
<1>8. content \in [Frames -> Contents] /\ stopped \in Reasons
  BY DEF IInv, Types
<1> HIDE DEF f, page, from
<1>9. /\ content' \in [Frames -> Contents] /\ content'[f] = content[from]
      /\ \A g \in Frames : g # f => content'[g] = content[g]
  BY <1>1, <1>5, <1>7, <1>8
<1>10. /\ Types' /\ ProcsOK' /\ FramesOK' /\ TaskOK' /\ HeapOK' /\ TodoOK'
       /\ TablesOK' /\ RingOK' /\ RunOK' /\ StaleOK'
       /\ task'.op = task.op /\ task'.pid = task.pid /\ task'.phase = task.phase
       /\ \A p \in Pids \ {task.pid} : procs'[p].pages = procs[p].pages
       /\ DOMAIN Target'.pages = DOMAIN Target.pages \cup {page}
       /\ Target'.pages[page] = f
       /\ \A p \in DOMAIN Target.pages : Target'.pages[p] = Target.pages[p]
  BY <1>1, <1>4, <1>8, <1>9, PageAtHand DEF f, page
<1>11. CopyOK'
  <2> SUFFICES ASSUME task.op = "fork", NEW q \in DOMAIN Target'.pages
               PROVE  content'[Target'.pages[q]] = content'[procs[active].pages[q]]
    <3>1. task.op = "fork" => procs'[active].pages = procs[active].pages
      BY <1>2, <1>10 DEF IInv, TaskOK
    <3> QED
      BY <1>1, <1>10, <3>1 DEF CopyOK
  <2>1. \A i \in Pids : \A p \in DOMAIN procs[i].pages : procs[i].pages[p] \in used /\ procs[i].pages[p] \in Frames
    <3>1. \A i \in Pids : \A p \in DOMAIN procs[i].pages : procs[i].pages[p] \in used
      BY DEF IInv, FramesOK, Exclusive, Spaces
    <3> QED
      BY <3>1 DEF IInv, Types
  <2>2. q \in DOMAIN procs[active].pages
    BY <1>7, <1>10 DEF IInv, TodoOK
  <2>3. content'[procs[active].pages[q]] = content[procs[active].pages[q]]
    BY <1>2, <1>5, <1>9, <2>1, <2>2
  <2>4. CASE q = page
    BY <1>7, <1>9, <1>10, <2>3, <2>4
  <2>5. CASE q # page
    <3>1. q \in DOMAIN Target.pages /\ Target'.pages[q] = Target.pages[q]
      BY <1>10, <2>5
    <3>2. content'[Target.pages[q]] = content[Target.pages[q]]
      BY <1>2, <1>5, <1>9, <2>1, <3>1 DEF Target
    <3>3. content[Target.pages[q]] = content[procs[active].pages[q]]
      BY <1>1, <3>1 DEF IInv, CopyOK
    <3> QED
      BY <2>3, <3>1, <3>2, <3>3
  <2> QED
    BY <2>4, <2>5
<1> QED
  BY <1>10, <1>11 DEF IInv

\* A page of a program or of a stack, filled in through the TLB.
LEMMA LoadPageKeeps ==
  ASSUME IInv, LoadPage
  PROVE  IInv'
<1> DEFINE f == FirstClear(used)
<1>1. /\ Running /\ task.phase = "load" /\ task.todo # {} /\ ~TableMissing /\ Clear
      /\ UNCHANGED <<kernel, active, pids, heap, lost>>
  BY DEF LoadPage, Doing
<1>2. CASE NextPage \in DOMAIN Target.pages
  BY <1>1, <1>2, StopKeeps DEF LoadPage
<1>3. CASE NextPage \notin DOMAIN Target.pages
  <2>1. /\ CreateProcessPage(NextPage, f) /\ WritePage(NextPage, f)
        /\ task' = [task EXCEPT !.todo = @ \ {NextPage}]
    BY <1>3 DEF LoadPage
  <2>2. content \in [Frames -> Contents] /\ used \subseteq Frames
    BY DEF IInv, Types
  <2>3. f \in Frames
    BY <1>1, FirstClearClear DEF Clear
  <2>4. task.op # "none" /\ task.op # "fork"
    BY <1>1, AtWork DEF IInv, TaskOK
  <2> HIDE DEF f
  <2>5. PICK target : /\ content' = IF target \in used \cup {f}
                                    THEN [content EXCEPT ![target] = "image"] ELSE content
                      /\ stopped' = IF target \in FramesOf(kernel.pages)
                                    THEN "kernel overwritten" ELSE "no"
    BY <2>1 DEF WritePage
  <2>6. content' \in [Frames -> Contents] /\ stopped' \in Reasons
    <3>1. CASE target \in used \cup {f}
      BY <2>2, <2>3, <2>5, <3>1 DEF Contents, Reasons
    <3>2. CASE target \notin used \cup {f}
      BY <2>2, <2>5, <3>2 DEF Reasons
    <3> QED
      BY <3>1, <3>2
  <2>7. /\ Types' /\ ProcsOK' /\ FramesOK' /\ TaskOK' /\ HeapOK' /\ TodoOK'
        /\ TablesOK' /\ RingOK' /\ RunOK' /\ StaleOK' /\ task'.op = task.op
    BY <1>1, <1>3, <2>1, <2>6, PageAtHand DEF f
  <2>8. CopyOK'
    BY <2>4, <2>7 DEF CopyOK
  <2> QED
    BY <2>7, <2>8 DEF IInv
<1> QED
  BY <1>2, <1>3

\* process_init has the buffer for its program.
LEMMA GetBufferKeeps ==
  ASSUME IInv, GetBuffer
  PROVE  IInv'
<1>1. /\ Pids' = Pids /\ Running /\ task.phase = "buffer" /\ task.op = "init" /\ heap.spare > 0
      /\ UNCHANGED <<used, kernel, procs, active, pids, content, lost, stopped>>
      /\ task' = [task EXCEPT !.phase = "load"] /\ heap' = [heap EXCEPT !.spare = @ - 1]
  BY DEF Pids, GetBuffer, Doing
<1>2. task \in Tasks /\ heap \in Heaps
  BY DEF IInv, Types
<1>3. /\ task' \in Tasks /\ task'.phase = "load" /\ task'.dir = task.dir
      /\ task'.op = task.op /\ task'.pid = task.pid /\ task'.todo = task.todo
      /\ task'.stale = task.stale
  BY <1>1, <1>2 DEF Tasks, Phases
<1>4. heap' \in Heaps /\ heap'.top = heap.top
  BY <1>1, <1>2 DEF Heaps
<1>5. Types'
  BY <1>1, <1>3, <1>4 DEF IInv, Types
<1>6. ProcsOK'
  BY <1>1 DEF IInv, ProcsOK
<1>7. FramesOK'
  BY <1>1, SpacesSame DEF IInv
<1>8. TaskOK' /\ HeapOK'
  BY <1>1, <1>3, <1>4 DEF IInv, TaskOK, HeapOK
<1>9. TodoOK'
  BY <1>1, <1>3 DEF IInv, TodoOK, Target
<1>10. TablesOK'
  BY <1>1, <1>3 DEF IInv, TablesOK
<1>11. RingOK'
  BY <1>1, RingSame DEF IInv
<1>12. RunOK'
  BY <1>1, <1>3 DEF IInv, RunOK, Running, KernelLinks
<1>13. StaleOK'
  BY <1>1, <1>3, StaleSame DEF IInv
<1>14. CopyOK'
  BY <1>1, <1>3 DEF CopyOK
<1> QED
  BY <1>5, <1>6, <1>7, <1>8, <1>9, <1>10, <1>11, <1>12, <1>13, <1>14 DEF IInv

\* execve has its buffer, and waits in it for the keyboard.
LEMMA ReadKeyboardKeeps ==
  ASSUME IInv, ReadKeyboard
  PROVE  IInv'
<1>1. /\ Pids' = Pids /\ Running /\ heap.spare > 0 /\ stopped' = "spins"
      /\ UNCHANGED <<used, kernel, procs, active, pids, task, content, lost>>
      /\ heap' = [heap EXCEPT !.spare = @ - 1]
  BY DEF Pids, ReadKeyboard, Doing
<1>2. heap' \in Heaps /\ heap'.top = heap.top
  BY <1>1 DEF IInv, Types, Heaps
<1>3. Types'
  BY <1>1, <1>2 DEF IInv, Types, Running, Reasons
<1>4. ProcsOK'
  BY <1>1 DEF IInv, ProcsOK
<1>5. FramesOK'
  BY <1>1, SpacesSame DEF IInv
<1>6. TaskOK' /\ HeapOK' /\ TodoOK' /\ TablesOK'
  BY <1>1, <1>2 DEF IInv, TaskOK, HeapOK, TodoOK, TablesOK, Target, NextPage
<1>7. RingOK'
  BY <1>1, RingSame DEF IInv
<1>8. RunOK'
  BY <1>1 DEF RunOK, Running
<1>9. StaleOK'
  BY <1>1, StaleSame DEF IInv
<1>10. CopyOK'
  BY <1>1 DEF IInv, CopyOK, Target
<1> QED
  BY <1>3, <1>4, <1>5, <1>6, <1>7, <1>8, <1>9, <1>10 DEF IInv

-----------------------------------------------------------------------------
(***************************************************************************)
(* Work begins and ends.                                                   *)
(***************************************************************************)

\* A task as Work makes it.
LEMMA WorkType ==
  ASSUME NEW op \in {"none", "init", "fork", "execve"}, NEW phase \in Phases,
         NEW pid \in Nat, NEW todo \in SUBSET Nat, NEW w, w = Work(op, phase, pid, todo)
  PROVE  /\ w \in Tasks /\ w.op = op /\ w.phase = phase /\ w.pid = pid /\ w.todo = todo
         /\ w.grown = 0 /\ w.dir = 0 /\ DOMAIN w.stale = {}
<1>1. [p \in {} |-> 0] \in PageMaps /\ DOMAIN [p \in {} |-> 0] = {}
  BY EmptyMap
<1> DEFINE e == [p \in {} |-> 0]
<1>2. w = [op |-> op, phase |-> phase, pid |-> pid, todo |-> todo, grown |-> 0,
           dir |-> 0, stale |-> e]
  BY DEF Work, NoDirectory
<1>3. e \in PageMaps /\ DOMAIN e = {}
  BY <1>1
<1> HIDE DEF e
<1> QED
  BY <1>2, <1>3 DEF Tasks

\* The pages of the kernel stack are kept, and are not those the kernel booted
\* on; they and the images lie above the kernel's part.
LEMMA StackFacts ==
  /\ KStackPages \subseteq KeptPages /\ KeptPages \subseteq Nat
  /\ KStackPages \cap OldStackPages = {}
  /\ \A p \in KStackPages : TableOf(p) >= KernelTables
  /\ \A image \in Images \cup {FirstImage} :
       /\ image \subseteq Nat /\ image \cap KeptPages = {}
       /\ \A p \in image : TableOf(p) >= KernelTables
<1>1. KStackLast \in Nat /\ KStackCount \in 1..KStackLast
  BY LayoutAssumption
<1>2. KStackPages \subseteq KeptPages /\ KeptPages \subseteq Nat
  BY <1>1 DEF KStackPages, KeptPages
<1> QED
  <2>1. \A p \in KStackPages : TableOf(p) >= KernelTables /\ p \notin OldStackPages
    BY <1>2, StackAssumption DEF TablesOf
  <2>2. ASSUME NEW image \in Images \cup {FirstImage}
        PROVE  /\ image \subseteq Nat /\ image \cap KeptPages = {}
               /\ \A p \in image : TableOf(p) >= KernelTables
    BY ImagesAssumption DEF TablesOf
  <2> QED
    BY <1>2, <2>1, <2>2

\* The clone becomes the page directory of its process.
LEMMA FinishCloneKeeps ==
  ASSUME IInv, FinishClone
  PROVE  IInv'
<1> DEFINE links == IF task.op = "init" THEN KernelLinks ELSE procs[active].linked
<1>1. /\ Running /\ task.phase = "clone" /\ task.todo = {}
      /\ UNCHANGED <<used, kernel, active, pids, heap, lost>>
      /\ procs' = [procs EXCEPT ![task.pid].dir = task.dir, ![task.pid].linked = links]
  BY DEF FinishClone, Doing, KernelLinks
<1>2. /\ task.op # "none" /\ task.pid \in Pids /\ active \in Pids /\ task \in Tasks
      /\ procs \in [Pids -> Processes] /\ kernel \in Kernels
      /\ procs[active].pages \in PageMaps /\ procs[task.pid].pages \in PageMaps
  BY <1>1, AtWork DEF IInv, Types
<1>3. task.op \in {"init", "fork"}
  BY <1>1, <1>2 DEF IInv, TaskOK, Tasks
<1>4. links = KernelLinks /\ links \subseteq Nat /\ links \subseteq kernel.tables
  <2>1. task.op = "fork" => procs[active].linked = KernelLinks
    BY <1>1, <1>2 DEF IInv, TaskOK, RunOK
  <2> QED
    BY <1>2, <1>3, <2>1 DEF KernelLinks, Kernels
<1> HIDE DEF links
<1>5. task.dir \in Nat /\ task.dir # NoDirectory /\ task.dir >= HeapStart
  <2>1. task.dir \in Nat /\ task.dir >= HeapStart
    BY <1>1, <1>2 DEF IInv, HeapOK, Tasks
  <2> QED
    BY <2>1, LayoutAssumption DEF NoDirectory
<1>6. Pids' = Pids /\ procs' \in [Pids -> Processes]
  BY <1>1, <1>2, <1>4, <1>5 DEF Processes, Pids
<1>7. \A p \in Pids :
        /\ procs'[p].dir = IF p = task.pid THEN task.dir ELSE procs[p].dir
        /\ procs'[p].linked = IF p = task.pid THEN links ELSE procs[p].linked
        /\ procs'[p].next = procs[p].next /\ procs'[p].previous = procs[p].previous
        /\ procs'[p].eip = procs[p].eip /\ procs'[p].tables = procs[p].tables
        /\ procs'[p].pages = procs[p].pages
  BY <1>1, <1>2 DEF Processes
<1>8. ProcsOK'
  BY <1>1, <1>4, <1>6, <1>7 DEF IInv, ProcsOK
<1>9. FramesOK'
  BY <1>1, <1>6, <1>7, SpacesSame DEF IInv
<1>10. RingOK'
  BY <1>1, <1>6, <1>7, RingSame DEF IInv
<1>11. \A p \in Pids : procs'[p].tables = TablesOf(DOMAIN procs'[p].pages)
  BY <1>1, <1>7 DEF IInv, TablesOK
<1>12. TablesOK'
  BY <1>6, <1>11 DEF TablesOK
<1>13. KernelLinks' = KernelLinks
  BY <1>1 DEF KernelLinks
<1>14. ASSUME task'.pid = task.pid PROVE RunOK'
  BY <1>1, <1>4, <1>5, <1>6, <1>7, <1>13, <1>14 DEF IInv, RunOK
<1>15. /\ content \in [Frames -> Contents] /\ stopped \in Reasons /\ heap.top >= HeapStart
       /\ BootPages \subseteq DOMAIN kernel'.pages
  BY <1>1 DEF IInv, Types, HeapOK, TodoOK
<1>16. CASE task.op = "init"
  <2>1. /\ task' = Work("init", "buffer", task.pid, FirstImage \cup KStackPages)
        /\ LoadCr3(task.dir) /\ UNCHANGED content
    BY <1>16 DEF FinishClone
  <2>2. stopped' \in {"no", "bad cr3"}
    BY <2>1 DEF LoadCr3
  <2>3. /\ task' \in Tasks /\ task'.op = "init" /\ task'.phase = "buffer" /\ task'.pid = task.pid
        /\ task'.todo = FirstImage \cup KStackPages /\ DOMAIN task'.stale = {}
    <3>1. FirstImage \cup KStackPages \in SUBSET Nat
      BY StackFacts
    <3>2. task.pid \in Nat
      BY <1>2 DEF Tasks
    <3> QED
      BY <2>1, <3>1, <3>2, WorkType DEF Phases
  <2>4. Types'
    BY <1>1, <1>2, <1>6, <1>15, <2>1, <2>2, <2>3 DEF IInv, Types, Reasons
  <2>5. TaskOK'
    BY <1>1, <1>2, <1>6, <1>16, <2>3 DEF IInv, TaskOK
  <2>6. HeapOK'
    BY <1>1, <1>15, <2>3 DEF HeapOK
  <2>7. TodoOK'
    <3>1. DOMAIN Target'.pages = OldStackPages
      <4>1. Target'.pages = Target.pages
        BY <1>2, <1>7, <2>3 DEF Target
      <4> QED
        BY <1>1, <1>16, <4>1 DEF IInv, TodoOK
    <3>2. \A q \in task'.todo : TableOf(q) >= KernelTables
      BY <2>3, StackFacts
    <3>3. task'.todo \cap DOMAIN Target'.pages = {}
      BY <2>3, <3>1, StackFacts, FirstImageAssumption
    <3> QED
      BY <1>15, <2>3, <3>2, <3>3 DEF TodoOK
  <2>8. StaleOK' /\ CopyOK' /\ RunOK'
    BY <1>14, <2>3, StaleEmpty DEF CopyOK
  <2> QED
    BY <1>8, <1>9, <1>10, <1>12, <2>4, <2>5, <2>6, <2>7, <2>8 DEF IInv
<1>17. CASE task.op = "fork"
  <2>1. /\ task' = [task EXCEPT !.phase = "stack"] /\ UNCHANGED stopped
        /\ content' = [g \in Frames |->
                         IF \E p \in KStackPages : procs[active].pages[p] = g
                         THEN "after clone" ELSE content[g]]
    BY <1>17 DEF FinishClone
  <2>2. /\ task' \in Tasks /\ task'.op = "fork" /\ task'.phase = "stack" /\ task'.pid = task.pid
        /\ task'.todo = {} /\ task'.stale = task.stale
    BY <1>1, <1>2, <1>17, <2>1 DEF Tasks, Phases
  <2>3. content' \in [Frames -> Contents]
    BY <1>15, <2>1 DEF Contents
  <2>4. Types'
    BY <1>1, <1>2, <1>6, <2>1, <2>2, <2>3 DEF IInv, Types
  <2>5. TaskOK'
    BY <1>1, <1>2, <1>6, <1>17, <2>2 DEF IInv, TaskOK
  <2>6. HeapOK'
    BY <1>1, <1>15, <2>2 DEF HeapOK
  <2>7. /\ Target'.pages = Target.pages /\ procs'[active].pages = procs[active].pages
        /\ Target.pages = procs[task.pid].pages
        /\ DOMAIN Target.pages = DOMAIN procs[active].pages
    <3>1. DOMAIN Target.pages = DOMAIN procs[active].pages
      BY <1>1, <1>17 DEF IInv, TodoOK
    <3> QED
      BY <1>2, <1>7, <2>2, <3>1 DEF Target
  <2>8. TodoOK'
    BY <1>1, <1>15, <2>2, <2>7 DEF TodoOK
  <2>9. StaleOK' /\ RunOK'
    BY <1>6, <1>7, <1>14, <2>2, StaleSame DEF IInv
  <2>10. CopyOK'
    <3> SUFFICES ASSUME NEW page \in DOMAIN Target.pages, page \notin KStackPages
                 PROVE  content'[Target.pages[page]] = content'[procs[active].pages[page]]
      BY <1>1, <2>2, <2>7 DEF CopyOK
    <3>1. content[Target.pages[page]] = content[procs[active].pages[page]]
      BY <1>1, <1>17 DEF IInv, CopyOK
    <3>2. task.pid # active /\ KStackPages \subseteq DOMAIN procs[active].pages
      BY <1>1, <1>2, <1>17 DEF IInv, TaskOK, RunOK
    <3>3. \A i, j \in Pids : \A p \in DOMAIN procs[i].pages, q \in DOMAIN procs[j].pages :
            procs[i].pages[p] = procs[j].pages[q] => i = j /\ p = q
      BY DEF IInv, FramesOK, Exclusive, Spaces
    <3>4. Target.pages[page] \in Frames /\ procs[active].pages[page] \in Frames
      BY <1>2, <2>7, PageMapFacts
    <3>5. \A p \in KStackPages : procs[active].pages[p] # Target.pages[page]
      BY <1>2, <2>7, <3>2, <3>3
    <3>6. \A p \in KStackPages : procs[active].pages[p] # procs[active].pages[page]
      BY <1>2, <2>7, <3>2, <3>3
    <3> QED
      BY <2>1, <3>1, <3>4, <3>5, <3>6
  <2> QED
    BY <1>8, <1>9, <1>10, <1>12, <2>4, <2>5, <2>6, <2>8, <2>9, <2>10 DEF IInv
<1> QED
  BY <1>3, <1>16, <1>17

\* The target is complete: the task is over and it may be given the CPU.
LEMMA TaskEnds ==
  ASSUME IInv, Running, task.phase \in {"stack", "load"}, task.todo = {},
         KStackPages \subseteq DOMAIN Target.pages,
         NEW eip \in Eips \ {"none"}, procs' = [procs EXCEPT ![task.pid].eip = eip],
         task' = UserMode, content' \in [Frames -> Contents],
         UNCHANGED <<used, kernel, active, pids, heap, lost, stopped>>
  PROVE  IInv' /\ Pids' = Pids /\ \A p \in Pids : procs'[p].pages = procs[p].pages
<1>1. /\ task.op # "none" /\ task.pid \in Pids /\ active \in Pids /\ 0 \notin Pids
      /\ procs \in [Pids -> Processes]
  BY AtWork DEF IInv, Types
<1>2. Pids' = Pids /\ procs' \in [Pids -> Processes]
  BY <1>1 DEF Processes, Pids
<1>3. \A p \in Pids :
        /\ procs'[p].eip = IF p = task.pid THEN eip ELSE procs[p].eip
        /\ procs'[p].next = procs[p].next /\ procs'[p].previous = procs[p].previous
        /\ procs'[p].dir = procs[p].dir /\ procs'[p].tables = procs[p].tables
        /\ procs'[p].linked = procs[p].linked /\ procs'[p].pages = procs[p].pages
  BY <1>1 DEF Processes
<1>4. /\ task' \in Tasks /\ task'.op = "none" /\ task'.phase = "none" /\ task'.pid = 0
      /\ task'.todo = {} /\ DOMAIN task'.stale = {}
  BY WorkType DEF UserMode, Phases
<1>5. Types'
  BY <1>1, <1>2, <1>4 DEF IInv, Types
<1>6. ProcsOK'
  BY <1>2, <1>3 DEF IInv, ProcsOK
<1>7. FramesOK'
  BY <1>2, <1>3, SpacesSame DEF IInv
<1>8. TaskOK' /\ HeapOK'
  BY <1>2, <1>4 DEF IInv, TaskOK, HeapOK
<1>9. TodoOK'
  BY <1>4 DEF IInv, TodoOK
<1>10. TablesOK'
  BY <1>2, <1>3 DEF IInv, TablesOK
<1>11. RingOK'
  BY <1>2, <1>3, RingSame DEF IInv
<1>12. RunOK'
  <2>1. ASSUME NEW p \in Pids
        PROVE  /\ procs'[p].dir # NoDirectory /\ procs'[p].linked = KernelLinks
               /\ KStackPages \subseteq DOMAIN procs'[p].pages /\ procs'[p].eip # "none"
    BY <1>3 DEF IInv, RunOK, Target
  <2>2. KernelLinks' = KernelLinks
    BY DEF KernelLinks
  <2> QED
    BY <1>2, <2>1, <2>2 DEF RunOK
<1>13. StaleOK' /\ CopyOK'
  BY <1>4, StaleEmpty DEF CopyOK
<1> QED
  BY <1>2, <1>3, <1>5, <1>6, <1>7, <1>8, <1>9, <1>10, <1>11, <1>12, <1>13 DEF IInv

\* The program is loaded.
LEMMA StartProgramKeeps ==
  ASSUME IInv, StartProgram
  PROVE  IInv'
<1>1. /\ Running /\ task.phase = "load" /\ task.todo = {}
      /\ procs' = [procs EXCEPT ![task.pid].eip = "program"] /\ task' = UserMode
      /\ UNCHANGED <<used, kernel, active, pids, heap, content, lost, stopped>>
  BY DEF StartProgram, Doing
<1>2. KStackPages \subseteq DOMAIN Target.pages
  BY <1>1, AtWork DEF IInv, TodoOK
<1>3. content' \in [Frames -> Contents]
  BY <1>1 DEF IInv, Types
<1>4. "program" \in Eips \ {"none"}
  BY DEF Eips
<1> QED
  BY <1>1, <1>2, <1>3, <1>4, TaskEnds

\* The child has its kernel stack.
LEMMA FinishForkKeeps ==
  ASSUME IInv, FinishFork
  PROVE  IInv' /\ Pids' = Pids /\ \A p \in Pids : procs'[p].pages = procs[p].pages
<1> DEFINE to == procs[task.pid].pages
           from == procs[active].pages
<1>1. /\ Running /\ task.phase = "stack"
      /\ procs' = [procs EXCEPT ![task.pid].eip = "fork"] /\ task' = UserMode
      /\ UNCHANGED <<used, kernel, active, pids, heap, lost, stopped>>
      /\ content' = [g \in Frames |->
           IF \E p \in KStackPages : to[p] = g
           THEN content[from[CHOOSE p \in KStackPages : to[p] = g]]
           ELSE content[g]]
  BY DEF FinishFork, Doing
<1>2. /\ task.op = "fork" /\ task.pid \in Pids /\ active \in Pids /\ from \in PageMaps
      /\ task.todo = {} /\ task.pid # active
  BY <1>1, AtWork DEF IInv, TaskOK, Types, Tasks, TodoOK
<1>3. KStackPages \subseteq DOMAIN from /\ DOMAIN to = DOMAIN from
  BY <1>1, <1>2 DEF IInv, RunOK, TodoOK, Target
<1>4. content' \in [Frames -> Contents]
  <2>1. content \in [Frames -> Contents]
    BY DEF IInv, Types
  <2>2. \A p \in KStackPages : from[p] \in Frames
    BY <1>2, <1>3, PageMapFacts
  <2> HIDE DEF to, from
  <2>3. ASSUME NEW g \in Frames, \E p \in KStackPages : to[p] = g
        PROVE  content[from[CHOOSE p \in KStackPages : to[p] = g]] \in Contents
    <3>1. (CHOOSE p \in KStackPages : to[p] = g) \in KStackPages
      BY <2>3
    <3> QED
      BY <2>1, <2>2, <3>1
  <2> QED
    BY <1>1, <2>1, <2>3
<1>5. "fork" \in Eips \ {"none"}
  BY DEF Eips
<1> QED
  BY <1>1, <1>2, <1>3, <1>4, <1>5, TaskEnds DEF Target

-----------------------------------------------------------------------------
(***************************************************************************)
(* The ring: processes P, next N and previous V, seen from process a.      *)
(***************************************************************************)

Ring(P, N, V, a) ==
  /\ N \in [P -> P] /\ V \in [P -> P] /\ a \in P
  /\ \A p \in P : V[N[p]] = p
  /\ \A p \in P : N[V[p]] = p
  /\ \A S \in SUBSET P : (a \in S /\ \A p \in S : N[p] \in S) => S = P

Nexts == [p \in Pids |-> procs[p].next]
Previouses == [p \in Pids |-> procs[p].previous]

\* A process takes its place before a.
LEMMA RingJoins ==
  ASSUME NEW P, NEW N, NEW V, NEW a, Ring(P, N, V, a), NEW c, c \notin P,
         NEW Q, Q = P \cup {c}, NEW M, NEW W,
         M = [p \in Q |-> IF p = c THEN a ELSE IF p = V[a] THEN c ELSE N[p]],
         W = [p \in Q |-> IF p = c THEN V[a] ELSE IF p = a THEN c ELSE V[p]]
  PROVE  Ring(Q, M, W, a)
<1>1. /\ N \in [P -> P] /\ V \in [P -> P] /\ a \in P
      /\ \A p \in P : V[N[p]] = p
      /\ \A p \in P : N[V[p]] = p
      /\ \A S \in SUBSET P : (a \in S /\ \A p \in S : N[p] \in S) => S = P
  BY DEF Ring
<1>2. M \in [Q -> Q] /\ W \in [Q -> Q] /\ a \in Q
  BY <1>1
<1>3. \A p \in Q : W[M[p]] = p
  BY <1>1
<1>4. \A p \in Q : M[W[p]] = p
  BY <1>1
<1>5. ASSUME NEW S \in SUBSET Q, a \in S, \A p \in S : M[p] \in S
      PROVE  S = Q
  <2> DEFINE T == S \ {c}
  <2>1. T \in SUBSET P /\ a \in T
    BY <1>1, <1>5
  <2>2. \A p \in T : N[p] \in T
    <3> SUFFICES ASSUME NEW p \in T PROVE N[p] \in T
      OBVIOUS
    <3>1. CASE p = V[a]
      BY <1>1, <2>1, <3>1
    <3>2. CASE p # V[a]
      <4>1. M[p] = N[p] /\ M[p] \in S /\ N[p] \in P
        BY <1>1, <1>5, <2>1, <3>2
      <4> QED
        BY <4>1
    <3> QED
      BY <3>1, <3>2
  <2>3. T = P
    BY <1>1, <2>1, <2>2
  <2>4. V[a] \in S /\ M[V[a]] = c
    BY <1>1, <2>3
  <2> QED
    BY <1>5, <2>3, <2>4
<1> QED
  BY <1>2, <1>3, <1>4, <1>5 DEF Ring

\* Process a leaves a ring in which it is not alone.
LEMMA RingLeaves ==
  ASSUME NEW P, NEW N, NEW V, NEW a, Ring(P, N, V, a), N[a] # a,
         NEW Q, Q = P \ {a}, NEW M, NEW W,
         M = [p \in Q |-> IF p = V[a] THEN N[a] ELSE N[p]],
         W = [p \in Q |-> IF p = N[a] THEN V[a] ELSE V[p]]
  PROVE  Ring(Q, M, W, N[a]) /\ V[a] # a
<1>1. /\ N \in [P -> P] /\ V \in [P -> P] /\ a \in P
      /\ \A p \in P : V[N[p]] = p
      /\ \A p \in P : N[V[p]] = p
      /\ \A S \in SUBSET P : (a \in S /\ \A p \in S : N[p] \in S) => S = P
  BY DEF Ring
<1>2. V[a] # a
  BY <1>1
<1>3. M \in [Q -> Q] /\ W \in [Q -> Q] /\ N[a] \in Q
  BY <1>1, <1>2
<1>4. \A p \in Q : W[M[p]] = p
  BY <1>1, <1>2, <1>3
<1>5. \A p \in Q : M[W[p]] = p
  BY <1>1, <1>2, <1>3
<1>6. ASSUME NEW S \in SUBSET Q, N[a] \in S, \A p \in S : M[p] \in S
      PROVE  S = Q
  <2> DEFINE T == S \cup {a}
  <2>1. T \in SUBSET P /\ a \in T /\ a \notin S
    BY <1>1, <1>6
  <2>2. \A p \in T : N[p] \in T
    BY <1>1, <1>6
  <2>3. T = P
    BY <1>1, <2>1, <2>2
  <2> QED
    BY <2>1, <2>3
<1> QED
  BY <1>2, <1>3, <1>4, <1>5, <1>6 DEF Ring

\* The ring is the same seen from the next process.
LEMMA RingTurns ==
  ASSUME NEW P, NEW N, NEW V, NEW a, Ring(P, N, V, a)
  PROVE  Ring(P, N, V, N[a]) /\ (N[a] = a => P = {a})
<1>1. /\ N \in [P -> P] /\ V \in [P -> P] /\ a \in P
      /\ \A p \in P : V[N[p]] = p
      /\ \A p \in P : N[V[p]] = p
      /\ \A S \in SUBSET P : (a \in S /\ \A p \in S : N[p] \in S) => S = P
  BY DEF Ring
<1>2. ASSUME NEW S \in SUBSET P, N[a] \in S, \A p \in S : N[p] \in S
      PROVE  S = P
  <2> DEFINE T == S \cup {a}
  <2>1. T \in SUBSET P /\ a \in T /\ \A p \in T : N[p] \in T
    BY <1>1, <1>2
  <2>2. T = P
    BY <1>1, <2>1
  <2>3. V[a] \in S \/ V[a] = a
    BY <1>1, <2>2
  <2>4. a \in S
    BY <1>1, <1>2, <2>3
  <2> QED
    BY <2>2, <2>4
<1>3. N[a] = a => P = {a}
  <2> SUFFICES ASSUME N[a] = a PROVE P = {a}
    OBVIOUS
  <2> DEFINE T == {a}
  <2>1. T \in SUBSET P /\ a \in T /\ \A p \in T : N[p] \in T
    BY <1>1
  <2> QED
    BY <1>1, <2>1
<1> QED
  BY <1>1, <1>2, <1>3 DEF Ring

\* What the invariant says of the links.
LEMMA RingIs ==
  ASSUME IInv, Running
  PROVE  Ring(Pids, Nexts, Previouses, active)
<1>1. active \in Pids /\ \A p \in Pids : procs[p].next \in Pids /\ procs[p].previous \in Pids
  BY DEF IInv, Types, ProcsOK, Running
<1>2. /\ \A p \in Pids : procs[procs[p].next].previous = p
      /\ \A p \in Pids : procs[procs[p].previous].next = p
      /\ \A S \in SUBSET Pids : (active \in S /\ \A p \in S : procs[p].next \in S) => S = Pids
  BY DEF IInv, RingOK, Running
<1>3. /\ Nexts \in [Pids -> Pids] /\ Previouses \in [Pids -> Pids]
      /\ \A p \in Pids : Nexts[p] = procs[p].next /\ Previouses[p] = procs[p].previous
  BY <1>1 DEF Nexts, Previouses
<1> QED
  BY <1>1, <1>2, <1>3 DEF Ring

\* And that it is enough.
LEMMA RingGives ==
  ASSUME Ring(Pids', Nexts', Previouses', active')
  PROVE  RingOK' /\ \A p \in Pids' : procs'[p].next \in Pids' /\ procs'[p].previous \in Pids'
<1> DEFINE P == Pids'
           N == Nexts'
           V == Previouses'
           b == active'
<1>1. Ring(P, N, V, b)
  OBVIOUS
<1>2. \A p \in P : N[p] = procs'[p].next /\ V[p] = procs'[p].previous
  BY DEF Nexts, Previouses
<1> HIDE DEF P, N, V, b
<1>3. /\ N \in [P -> P] /\ V \in [P -> P] /\ b \in P
      /\ \A p \in P : V[N[p]] = p
      /\ \A p \in P : N[V[p]] = p
      /\ \A S \in SUBSET P : (b \in S /\ \A p \in S : N[p] \in S) => S = P
  BY <1>1 DEF Ring
<1>4. \A p \in P : procs'[p].next \in P /\ procs'[p].previous \in P
  BY <1>2, <1>3
<1>5. /\ \A p \in P : procs'[procs'[p].next].previous = p
      /\ \A p \in P : procs'[procs'[p].previous].next = p
  BY <1>2, <1>3
<1>6. \A S \in SUBSET P : (b \in S /\ \A p \in S : procs'[p].next \in S) => S = P
  BY <1>2, <1>3
<1> QED
  BY <1>4, <1>5, <1>6 DEF RingOK, P, b

-----------------------------------------------------------------------------
(***************************************************************************)
(* What user mode may ask for.                                             *)
(***************************************************************************)

\* In user mode every process is complete.
LEMMA AllComplete ==
  ASSUME IInv, InUserMode
  PROVE  /\ Running /\ task.op = "none" /\ task.phase = "none" /\ task.pid = 0
         /\ active \in Pids /\ 0 \notin Pids /\ Pids \subseteq Nat /\ procs \in [Pids -> Processes]
         /\ \A p \in Pids : /\ procs[p].dir # NoDirectory /\ procs[p].linked = KernelLinks
                            /\ KStackPages \subseteq DOMAIN procs[p].pages
                            /\ procs[p].eip # "none" /\ procs[p].pages \in PageMaps
                            /\ procs[p].tables = TablesOf(DOMAIN procs[p].pages)
                            /\ IsFiniteSet(procs[p].tables)
<1>1. Running /\ task.op = "none" /\ task.phase = "none" /\ task.pid = 0
  BY DEF InUserMode, IInv, TaskOK
<1>2. /\ active \in Pids /\ 0 \notin Pids /\ Pids \subseteq Nat /\ procs \in [Pids -> Processes]
      /\ \A p \in Pids : procs[p].pages \in PageMaps
  BY <1>1, AtWork DEF IInv, Types
<1>3. \A p \in Pids : /\ procs[p].dir # NoDirectory /\ procs[p].linked = KernelLinks
                      /\ KStackPages \subseteq DOMAIN procs[p].pages
                      /\ procs[p].eip # "none"
  BY <1>1, <1>2 DEF IInv, RunOK
<1>4. \A p \in Pids : procs[p].tables = TablesOf(DOMAIN procs[p].pages) /\ IsFiniteSet(procs[p].tables)
  BY <1>1 DEF IInv, TablesOK, ProcsOK
<1> QED
  BY <1>1, <1>2, <1>3, <1>4

\* process_switch.
LEMMA SwitchKeeps ==
  ASSUME IInv, Switch
  PROVE  IInv'
<1>1. /\ InUserMode /\ UNCHANGED <<used, kernel, pids, task, heap, content, lost>>
      /\ procs' = [procs EXCEPT ![active].eip = "switch"]
      /\ active' = procs[active].next
  BY DEF Switch
<1>2. stopped' \in {"no", "bad cr3"}
  BY DEF Switch, SwitchTo, LoadCr3
<1>3. /\ Running /\ task.op = "none" /\ task.phase = "none" /\ active \in Pids
      /\ procs \in [Pids -> Processes]
  BY <1>1, AllComplete
<1>4. Pids' = Pids /\ procs' \in [Pids -> Processes]
  BY <1>1, <1>3 DEF Processes, Pids, Eips
<1>5. \A p \in Pids :
        /\ procs'[p].eip = IF p = active THEN "switch" ELSE procs[p].eip
        /\ procs'[p].next = procs[p].next /\ procs'[p].previous = procs[p].previous
        /\ procs'[p].dir = procs[p].dir /\ procs'[p].tables = procs[p].tables
        /\ procs'[p].linked = procs[p].linked /\ procs'[p].pages = procs[p].pages
  BY <1>1, <1>3 DEF Processes
<1>6. active' \in Pids
  BY <1>1, <1>3 DEF IInv, ProcsOK
<1>7. Types'
  <2>1. active' \in Nat
    BY <1>1, <1>6, AllComplete
  <2> QED
    BY <1>1, <1>2, <1>4, <1>6, <2>1 DEF IInv, Types, Reasons
<1>8. ProcsOK'
  BY <1>1, <1>4, <1>5 DEF IInv, ProcsOK
<1>9. FramesOK'
  BY <1>1, <1>4, <1>5, SpacesSame DEF IInv
<1>10. TaskOK' /\ HeapOK' /\ TodoOK'
  BY <1>1, <1>3, <1>4 DEF IInv, TaskOK, HeapOK, TodoOK
<1>11. TablesOK'
  BY <1>1, <1>3, <1>4, <1>5 DEF IInv, TablesOK
<1>12. RingOK'
  <2>1. Ring(Pids, Nexts, Previouses, active)
    BY <1>3, RingIs
  <2>2. Ring(Pids, Nexts, Previouses, Nexts[active])
    BY <2>1, RingTurns
  <2>3. Nexts' = Nexts /\ Previouses' = Previouses /\ active' = Nexts[active]
    BY <1>1, <1>3, <1>4, <1>5 DEF Nexts, Previouses
  <2> QED
    BY <1>4, <2>2, <2>3, RingGives
<1>13. RunOK'
  BY <1>1, <1>3, <1>4, <1>5 DEF IInv, RunOK, KernelLinks
<1>14. StaleOK'
  BY <1>1, <1>4, <1>5, StaleSame DEF IInv
<1>15. CopyOK'
  BY <1>1, <1>3 DEF CopyOK
<1> QED
  BY <1>7, <1>8, <1>9, <1>10, <1>11, <1>12, <1>13, <1>14, <1>15 DEF IInv

\* process_execve, up to the buffer.
LEMMA ExecveKeeps ==
  ASSUME IInv, NEW image \in Images, Execve(image)
  PROVE  IInv'
<1>1. /\ InUserMode /\ task' = Work("execve", "buffer", active, image)
      /\ UNCHANGED <<used, kernel, procs, active, pids, heap, content, lost, stopped>>
      /\ Pids' = Pids
  BY DEF Execve, Pids
<1>2. /\ Running /\ active \in Pids /\ active \in Nat /\ 0 \notin Pids
      /\ KStackPages \subseteq DOMAIN procs[active].pages
      /\ \A p \in Pids : procs[p].tables = TablesOf(DOMAIN procs[p].pages)
  BY <1>1, AllComplete
<1>3. /\ image \subseteq Nat /\ image \cap KeptPages = {}
      /\ \A p \in image : TableOf(p) >= KernelTables
  BY StackFacts
<1>4. /\ task' \in Tasks /\ task'.op = "execve" /\ task'.phase = "buffer" /\ task'.pid = active
      /\ task'.todo = image /\ DOMAIN task'.stale = {}
  <2>1. image \in SUBSET Nat
    BY <1>3
  <2> QED
    BY <1>1, <1>2, <2>1, WorkType DEF Phases
<1>5. Types'
  BY <1>1, <1>4 DEF IInv, Types
<1>6. ProcsOK'
  BY <1>1 DEF IInv, ProcsOK
<1>7. FramesOK'
  BY <1>1, SpacesSame DEF IInv
<1>8. TaskOK' /\ HeapOK'
  BY <1>1, <1>2, <1>4 DEF IInv, TaskOK, HeapOK
<1>9. TodoOK'
  <2>1. Target' = procs[active]
    BY <1>1, <1>4 DEF Target
  <2>2. BootPages \subseteq DOMAIN kernel'.pages
    BY <1>1 DEF IInv, TodoOK
  <2> QED
    BY <1>2, <1>3, <1>4, <2>1, <2>2 DEF TodoOK
<1>10. TablesOK'
  BY <1>1, <1>2 DEF TablesOK
<1>11. RingOK'
  BY <1>1, <1>2, RingSame DEF IInv
<1>12. RunOK'
  <2>1. KernelLinks' = KernelLinks
    BY <1>1 DEF KernelLinks
  <2> QED
    BY <1>1, <1>4, <2>1, AllComplete DEF RunOK
<1>13. StaleOK' /\ CopyOK'
  BY <1>4, StaleEmpty DEF CopyOK
<1> QED
  BY <1>5, <1>6, <1>7, <1>8, <1>9, <1>10, <1>11, <1>12, <1>13 DEF IInv

\* process_fork, up to the clone.
LEMMA ForkKeeps ==
  ASSUME IInv, Fork
  PROVE  IInv'
<1> DEFINE child == pids + 1
           previous == procs[active].previous
           ring == [[procs EXCEPT ![previous].next = child] EXCEPT ![active].previous = child]
<1>1. /\ InUserMode /\ UNCHANGED <<used, kernel, active, heap, content, lost, stopped>>
      /\ procs' = [p \in Pids \cup {child} |->
                     IF p = child THEN EmptyProcess(active, previous) ELSE ring[p]]
      /\ task' = Work("fork", "directory", child, ProcessPages(procs[active].pages))
      /\ pids' = pids + 1
  BY DEF Fork, Pids
<1>2. /\ Running /\ active \in Pids /\ active \in Nat /\ 0 \notin Pids
      /\ procs \in [Pids -> Processes] /\ pids \in Nat /\ Pids \subseteq 1..pids
      /\ procs[active].pages \in PageMaps /\ previous \in Pids /\ previous \in Nat
  BY <1>1, AllComplete DEF IInv, Types, ProcsOK
<1>3. child \in Nat /\ child \notin Pids /\ Pids \cup {child} \subseteq 1..(pids + 1) /\ child # 0
  BY <1>2
<1>4. EmptyProcess(active, previous) \in Processes
      /\ EmptyProcess(active, previous).next = active
      /\ EmptyProcess(active, previous).previous = previous
      /\ EmptyProcess(active, previous).tables = {}
      /\ EmptyProcess(active, previous).linked = {}
      /\ DOMAIN EmptyProcess(active, previous).pages = {}
  <2> DEFINE e == [p \in {} |-> 0]
  <2>1. e \in PageMaps /\ DOMAIN e = {}
    BY EmptyMap
  <2>2. EmptyProcess(active, previous) =
          [next |-> active, previous |-> previous, dir |-> 0, eip |-> "none",
           tables |-> {}, pages |-> e, linked |-> {}]
    BY DEF EmptyProcess, NoDirectory
  <2> HIDE DEF e
  <2> QED
    BY <1>2, <2>1, <2>2 DEF Processes, Eips
<1>5. ring \in [Pids -> Processes] /\ \A p \in Pids :
        /\ ring[p].next = IF p = previous THEN child ELSE procs[p].next
        /\ ring[p].previous = IF p = active THEN child ELSE procs[p].previous
        /\ ring[p].dir = procs[p].dir /\ ring[p].tables = procs[p].tables
        /\ ring[p].eip = procs[p].eip
        /\ ring[p].linked = procs[p].linked /\ ring[p].pages = procs[p].pages
  BY <1>2, <1>3 DEF Processes
<1> HIDE DEF child, previous, ring
<1>6. Pids' = Pids \cup {child}
  BY <1>1 DEF Pids
<1>7. procs' \in [Pids' -> Processes]
  BY <1>1, <1>4, <1>5, <1>6
<1>8. /\ procs'[child] = EmptyProcess(active, previous)
      /\ \A p \in Pids : procs'[p] = ring[p]
  BY <1>1, <1>3
<1>9. /\ task' \in Tasks /\ task'.op = "fork" /\ task'.phase = "directory" /\ task'.pid = child
      /\ task'.todo = ProcessPages(procs[active].pages) /\ task'.grown = 0 /\ DOMAIN task'.stale = {}
  <2>1. ProcessPages(procs[active].pages) \in SUBSET Nat
    BY <1>2, PageMapFacts DEF ProcessPages
  <2> QED
    BY <1>1, <1>3, <2>1, WorkType DEF Phases
<1>10. ProcessPages(procs[active].pages) = DOMAIN procs[active].pages
  BY <1>2 DEF IInv, ProcsOK, ProcessPages
<1>11. Types'
  BY <1>1, <1>2, <1>3, <1>6, <1>7, <1>9 DEF IInv, Types
<1>12. Ring(Pids', Nexts', Previouses', active')
  <2> DEFINE N == Nexts
             V == Previouses
             P == Pids
  <2>1. Ring(P, N, V, active)
    BY <1>2, RingIs
  <2>2. V[active] = previous /\ \A p \in P : N[p] = procs[p].next /\ V[p] = procs[p].previous
    BY <1>2 DEF Nexts, Previouses, previous
  <2>3. \A p \in P : procs'[p].next = (IF p = previous THEN child ELSE procs[p].next)
                  /\ procs'[p].previous = (IF p = active THEN child ELSE procs[p].previous)
    BY <1>5, <1>8
  <2>4. procs'[child].next = active /\ procs'[child].previous = previous
    BY <1>4, <1>8
  <2> DEFINE Q == Pids'
             M == Nexts'
             W == Previouses'
  <2>5. M = [p \in Q |-> procs'[p].next] /\ W = [p \in Q |-> procs'[p].previous] /\ Q = P \cup {child}
    BY <1>6 DEF Nexts, Previouses
  <2> HIDE DEF N, V, P, Q, M, W
  <2>6. M = [p \in Q |-> IF p = child THEN active ELSE IF p = V[active] THEN child ELSE N[p]]
    BY <2>2, <2>3, <2>4, <2>5
  <2>7. W = [p \in Q |-> IF p = child THEN V[active] ELSE IF p = active THEN child ELSE V[p]]
    BY <2>2, <2>3, <2>4, <2>5
  <2>8. child \notin P
    BY <1>3 DEF P
  <2>9. Ring(Q, M, W, active)
    BY <2>1, <2>5, <2>6, <2>7, <2>8, RingJoins
  <2> QED
    BY <1>1, <2>9 DEF Q, M, W
<1>13. RingOK' /\ \A p \in Pids' : procs'[p].next \in Pids' /\ procs'[p].previous \in Pids'
  BY <1>12, RingGives
<1>14. ProcsOK'
  <2>1. IsFiniteSet({})
    BY FS_EmptySet
  <2>2. ASSUME NEW p \in Pids'
        PROVE  /\ procs'[p].linked \subseteq kernel'.tables
               /\ IsFiniteSet(procs'[p].tables)
               /\ \A page \in DOMAIN procs'[p].pages : TableOf(page) >= KernelTables
    <3>1. CASE p = child
      BY <1>4, <1>8, <2>1, <3>1
    <3>2. CASE p # child
      BY <1>1, <1>5, <1>6, <1>8, <2>2, <3>2 DEF IInv, ProcsOK
    <3> QED
      BY <3>1, <3>2
  <2> QED
    BY <1>13, <2>2 DEF ProcsOK
<1>15. FramesOK'
  <2> DEFINE P == Spaces
             Q == Spaces'
  <2>1. Exclusive(kernel.pages, P, used, lost)
    BY DEF IInv, FramesOK
  <2>2. /\ DOMAIN P \subseteq DOMAIN Q /\ \A j \in DOMAIN P : Q[j] = P[j]
        /\ \A j \in DOMAIN Q \ DOMAIN P : DOMAIN Q[j] = {}
    <3>1. DOMAIN P = Pids /\ DOMAIN Q = Pids \cup {child}
      BY <1>6 DEF Spaces
    <3>2. \A j \in Pids : Q[j] = P[j]
      BY <1>5, <1>6, <1>8 DEF Spaces
    <3>3. DOMAIN Q[child] = {}
      BY <1>4, <1>6, <1>8 DEF Spaces
    <3> HIDE DEF P, Q
    <3> QED
      BY <3>1, <3>2, <3>3
  <2> HIDE DEF P, Q
  <2>3. Exclusive(kernel.pages, Q, used, lost)
    BY <2>1, <2>2, SpaceJoins
  <2> QED
    BY <1>1, <2>3 DEF FramesOK, Q
<1>16. TaskOK'
  BY <1>1, <1>2, <1>3, <1>6, <1>9 DEF TaskOK
<1>17. HeapOK'
  <2>1. heap.top >= HeapStart /\ HeapStart \in Nat
    BY LayoutAssumption DEF IInv, HeapOK
  <2>2. HeapStart + 0 = HeapStart
    BY <2>1
  <2> QED
    BY <1>1, <1>9, <2>1, <2>2 DEF HeapOK
<1>18. TodoOK'
  <2>1. Target' = procs'[child] /\ DOMAIN Target'.pages = {}
    BY <1>4, <1>8, <1>9 DEF Target
  <2>2. procs'[active].pages = procs[active].pages
    BY <1>2, <1>5, <1>8
  <2>3. BootPages \subseteq DOMAIN kernel'.pages
    BY <1>1 DEF IInv, TodoOK
  <2>4. \A page \in task'.todo : TableOf(page) >= KernelTables
    BY <1>9 DEF ProcessPages
  <2> QED
    BY <1>1, <1>9, <1>10, <2>1, <2>2, <2>3, <2>4 DEF TodoOK
<1>19. TablesOK'
  <2>1. \A p \in Pids : procs'[p].tables = TablesOf(DOMAIN procs'[p].pages)
    BY <1>1, <1>5, <1>8, AllComplete
  <2>2. procs'[child].tables = TablesOf(DOMAIN procs'[child].pages)
    BY <1>4, <1>8, TablesOfMore
  <2> QED
    BY <1>6, <2>1, <2>2 DEF TablesOK
<1>20. RunOK'
  <2>1. KernelLinks' = KernelLinks
    BY <1>1 DEF KernelLinks
  <2>2. \A p \in Pids : /\ procs'[p].dir # NoDirectory /\ procs'[p].linked = KernelLinks
                        /\ KStackPages \subseteq DOMAIN procs'[p].pages /\ procs'[p].eip # "none"
    BY <1>1, <1>5, <1>8, AllComplete
  <2> QED
    BY <1>6, <1>9, <2>1, <2>2 DEF RunOK
<1>21. StaleOK'
  BY <1>9, StaleEmpty
<1>22. CopyOK'
  <2>1. DOMAIN Target'.pages = {}
    BY <1>4, <1>8, <1>9 DEF Target
  <2> QED
    BY <2>1 DEF CopyOK
<1> QED
  BY <1>11, <1>13, <1>14, <1>15, <1>16, <1>17, <1>18, <1>19, <1>20, <1>21, <1>22 DEF IInv

\* What paging_clean_all_non_kernel_pages_from_page_directory leaves, and what
\* it gives back.
LEMMA CleanFacts ==
  ASSUME NEW m \in PageMaps
  PROVE  /\ Cleaned(m) \in PageMaps /\ DOMAIN Cleaned(m) = DOMAIN m \cap KeptPages
         /\ \A p \in DOMAIN m \cap KeptPages : Cleaned(m)[p] = m[p]
         /\ CleanedTables(m) = TablesOf(DOMAIN m \cap KeptPages)
         /\ CleanedTables(m) \subseteq TablesOf(DOMAIN m) /\ CleanedTables(m) \subseteq Nat
<1>1. /\ Cleaned(m) \in PageMaps /\ DOMAIN Cleaned(m) = DOMAIN m \cap KeptPages
      /\ \A p \in DOMAIN m \cap KeptPages : Cleaned(m)[p] = m[p]
  BY KeepFacts DEF Cleaned
<1>2. CleanedTables(m) \subseteq TablesOf(DOMAIN m)
  BY DEF CleanedTables, TablesOf
<1>3. CleanedTables(m) \subseteq Nat
  BY TableOfType, PageMapFacts DEF CleanedTables, TablesOf
<1> QED
  BY <1>1, <1>2, <1>3 DEF CleanedTables

\* No frame that is given back is one that is left.
LEMMA CleanedApart ==
  ASSUME IInv, NEW a \in Pids
  PROVE  LET m == procs[a].pages
         IN  /\ \A p \in DOMAIN m \ KeptPages : m[p] \in CleanedFrames(m)
             /\ \A p \in DOMAIN m \cap KeptPages : m[p] \notin CleanedFrames(m)
             /\ \A f \in CleanedFrames(m) : \E p \in DOMAIN m \ KeptPages : m[p] = f
<1> DEFINE m == procs[a].pages
<1>1. \A p, q \in DOMAIN m : m[p] = m[q] => p = q
  BY DEF IInv, FramesOK, Exclusive, Spaces
<1> HIDE DEF m
<1>2. /\ \A p \in DOMAIN m \ KeptPages : m[p] \in CleanedFrames(m)
      /\ \A p \in DOMAIN m \cap KeptPages : m[p] \notin CleanedFrames(m)
      /\ \A f \in CleanedFrames(m) : \E p \in DOMAIN m \ KeptPages : m[p] = f
  BY <1>1 DEF CleanedFrames
<1> QED
  BY <1>2 DEF m

\* The contents of the frames that are kept stay the same.
LEMMA DroppedFacts ==
  ASSUME IInv, NEW fs
  PROVE  /\ Dropped(fs) \in [Frames -> Contents]
         /\ \A f \in Frames \ fs : Dropped(fs)[f] = content[f]
<1>1. content \in [Frames -> Contents]
  BY DEF IInv, Types
<1> QED
  BY <1>1 DEF Dropped, Contents

\* execve cleans the old program away.
LEMMA CleanKeeps ==
  ASSUME IInv, Clean
  PROVE  IInv'
<1> DEFINE m == procs[active].pages
           tables == CleanedTables(m)
           back == CleanedFrames(m)
           kept == Cleaned(m)
           freed == procs[active].tables \ tables
           stale == Keep(m, DOMAIN m \ KeptPages)
<1>1. /\ Running /\ task.phase = "buffer" /\ task.op = "execve" /\ heap.spare > 0
      /\ used' = used \ back /\ content' = Dropped(back)
      /\ procs' = [procs EXCEPT ![active].pages = kept, ![active].tables = tables]
      /\ heap' = [heap EXCEPT !.spare = @ - 1 + Cardinality(freed)]
      /\ task' = [task EXCEPT !.phase = "load", !.stale = stale]
      /\ UNCHANGED <<kernel, active, pids, lost, stopped>>
  BY DEF Clean, Doing
<1>2. /\ active \in Pids /\ procs \in [Pids -> Processes] /\ m \in PageMaps
      /\ task \in Tasks /\ heap \in Heaps /\ task.pid = active
  BY <1>1, AtWork DEF IInv, Types, TaskOK
<1>3. \A p \in Pids : procs[p].tables = TablesOf(DOMAIN procs[p].pages)
  BY <1>1 DEF IInv, TablesOK
<1>4. /\ kept \in PageMaps /\ DOMAIN kept = DOMAIN m \cap KeptPages
      /\ \A p \in DOMAIN m \cap KeptPages : kept[p] = m[p]
      /\ tables = TablesOf(DOMAIN m \cap KeptPages)
      /\ tables \subseteq TablesOf(DOMAIN m) /\ tables \subseteq Nat
  BY <1>2, CleanFacts
<1>5. /\ stale \in PageMaps /\ DOMAIN stale = DOMAIN m \cap (DOMAIN m \ KeptPages)
      /\ \A p \in DOMAIN m \cap (DOMAIN m \ KeptPages) : stale[p] = m[p]
  <2> DEFINE old == DOMAIN m \ KeptPages
  <2>1. m \in PageMaps /\ stale = Keep(m, old)
    BY <1>2
  <2> HIDE DEF m, old, stale
  <2>2. /\ Keep(m, old) \in PageMaps /\ DOMAIN Keep(m, old) = DOMAIN m \cap old
        /\ \A p \in DOMAIN m \cap old : Keep(m, old)[p] = m[p]
    BY ONLY <2>1, KeepFacts
  <2> QED
    BY <2>1, <2>2 DEF old
<1>6. /\ \A p \in DOMAIN m \ KeptPages : m[p] \in back
      /\ \A p \in DOMAIN m \cap KeptPages : m[p] \notin back
      /\ \A f \in back : \E p \in DOMAIN m \ KeptPages : m[p] = f
  BY <1>2, CleanedApart
<1>7. content' \in [Frames -> Contents]
  BY <1>1, DroppedFacts
<1>8. IsFiniteSet(tables) /\ Cardinality(freed) \in Nat
  <2>1. IsFiniteSet(procs[active].tables) /\ tables \in SUBSET procs[active].tables
    BY <1>2, <1>3, <1>4 DEF IInv, ProcsOK
  <2>2. IsFiniteSet(tables)
    BY <2>1, FS_Subset
  <2>3. IsFiniteSet(freed)
    BY <2>1, FS_Difference
  <2> QED
    BY <2>2, <2>3, FS_CardinalityType
<1>9. m = procs[active].pages /\ m = Spaces[active]
  BY <1>2 DEF Spaces
<1> HIDE DEF tables, back, kept, freed, stale
<1>10. heap' \in Heaps /\ heap'.top = heap.top
  <2> DEFINE n == Cardinality(freed)
  <2>1. n \in Nat /\ heap.spare \in Nat /\ heap' = [heap EXCEPT !.spare = @ - 1 + n]
    BY <1>1, <1>2, <1>8 DEF Heaps
  <2> HIDE DEF n
  <2>2. heap.spare - 1 + n \in Nat
    BY <1>1, <2>1
  <2> QED
    BY <1>2, <2>1, <2>2 DEF Heaps
<1>11. Pids' = Pids /\ procs' \in [Pids -> Processes]
  BY <1>1, <1>2, <1>4 DEF Processes, Pids
<1>12. \A p \in Pids :
        /\ procs'[p].pages = IF p = active THEN kept ELSE procs[p].pages
        /\ procs'[p].tables = IF p = active THEN tables ELSE procs[p].tables
        /\ procs'[p].next = procs[p].next /\ procs'[p].previous = procs[p].previous
        /\ procs'[p].dir = procs[p].dir /\ procs'[p].eip = procs[p].eip
        /\ procs'[p].linked = procs[p].linked
  BY <1>1, <1>2 DEF Processes
<1>13. /\ task' \in Tasks /\ task'.op = "execve" /\ task'.phase = "load" /\ task'.pid = active
       /\ task'.todo = task.todo /\ task'.stale = stale
  BY <1>1, <1>2, <1>5 DEF Tasks, Phases
<1>14. Types'
  BY <1>1, <1>2, <1>7, <1>10, <1>11, <1>13 DEF IInv, Types
<1>15. ProcsOK'
  BY <1>1, <1>2, <1>4, <1>8, <1>11, <1>12 DEF IInv, ProcsOK
<1>16. FramesOK'
  <2> DEFINE P == Spaces
             Q == Spaces'
  <2>1. Exclusive(kernel.pages, P, used, lost)
    BY DEF IInv, FramesOK
  <2>2. /\ DOMAIN P = Pids /\ DOMAIN Q = Pids /\ P[active] = m /\ Q[active] = kept
        /\ \A j \in Pids : j # active => Q[j] = P[j]
    BY <1>2, <1>11, <1>12 DEF Spaces
  <2> DEFINE left == {}
  <2> HIDE DEF P, Q, m
  <2>3. /\ DOMAIN Q[active] \subseteq DOMAIN P[active]
        /\ \A p \in DOMAIN Q[active] : Q[active][p] = P[active][p]
    BY <1>4, <2>2
  <2>4. \A p \in DOMAIN P[active] :
          \/ P[active][p] \in back /\ P[active][p] \notin left /\ p \notin DOMAIN Q[active]
          \/ P[active][p] \notin back /\ P[active][p] \notin left /\ p \in DOMAIN Q[active]
    BY <1>4, <1>6, <2>2
  <2>5. \A f \in back \cup left : \E p \in DOMAIN P[active] : P[active][p] = f
    BY <1>6, <2>2
  <2>6. lost \cup left = lost
    OBVIOUS
  <2> HIDE DEF left
  <2>7. Exclusive(kernel.pages, Q, used \ back, lost \cup left)
    <3>1. /\ active \in DOMAIN P
          /\ \A j \in DOMAIN Q : j \in DOMAIN P /\ (j # active => Q[j] = P[j])
          /\ \A j \in DOMAIN P : j # active => j \in DOMAIN Q
          /\ active \in DOMAIN Q
      BY <1>2, <2>2
    <3> QED
      BY ONLY <2>1, <2>3, <2>4, <2>5, <3>1, ProcessGivesFrames
  <2> QED
    BY <1>1, <2>6, <2>7 DEF FramesOK, Q
<1>17. TaskOK' /\ HeapOK'
  BY <1>1, <1>2, <1>10, <1>11, <1>13 DEF IInv, TaskOK, HeapOK
<1>18. TodoOK'
  <2>1. DOMAIN Target'.pages = DOMAIN m \cap KeptPages
    BY <1>2, <1>4, <1>12, <1>13 DEF Target
  <2>2. /\ BootPages \subseteq DOMAIN kernel'.pages /\ task'.todo \cap KeptPages = {}
        /\ \A page \in task'.todo : TableOf(page) >= KernelTables
    BY <1>1, <1>13 DEF IInv, TodoOK
  <2>3. KStackPages \subseteq DOMAIN Target'.pages \cup task'.todo
    <3>1. KStackPages \subseteq DOMAIN m \cup task.todo
      BY <1>1, <1>2 DEF IInv, TodoOK, Target
    <3> QED
      BY <1>13, <2>1, <3>1, StackFacts
  <2> QED
    BY <1>13, <2>1, <2>2, <2>3 DEF TodoOK
<1>19. TablesOK'
  <2>1. tables = TablesOf(DOMAIN kept)
    BY <1>4
  <2>2. \A p \in Pids : procs'[p].tables = TablesOf(DOMAIN procs'[p].pages)
    <3> HIDE DEF m
    <3> QED
      BY <1>3, <1>12, <2>1
  <2> QED
    BY <1>11, <2>2 DEF TablesOK
<1>20. RingOK'
  BY <1>1, <1>11, <1>12, RingSame DEF IInv
<1>21. RunOK'
  BY <1>1, <1>2, <1>11, <1>12, <1>13 DEF IInv, RunOK, KernelLinks
<1>22. StaleOK'
  <2>1. \A i, j \in Pids : \A p \in DOMAIN procs[i].pages, q \in DOMAIN procs[j].pages :
          procs[i].pages[p] = procs[j].pages[q] => i = j /\ p = q
    BY DEF IInv, FramesOK, Exclusive, Spaces
  <2> QED
    BY <1>2, <1>5, <1>11, <1>12, <1>13, <2>1 DEF StaleOK
<1>23. CopyOK'
  BY <1>13 DEF CopyOK
<1> QED
  BY <1>14, <1>15, <1>16, <1>17, <1>18, <1>19, <1>20, <1>21, <1>22, <1>23 DEF IInv

\* process_exit.
LEMMA ExitKeeps ==
  ASSUME IInv, Exit
  PROVE  IInv'
<1> DEFINE n == procs[active].next
           v == procs[active].previous
           m == procs[active].pages
           back == CleanedFrames(m)
           left == FramesOf(Cleaned(m))
           freed == procs[active].tables \ CleanedTables(m)
           ring == [[procs EXCEPT ![n].previous = v] EXCEPT ![v].next = n]
<1>1. /\ InUserMode /\ used' = used \ back /\ content' = Dropped(back)
      /\ lost' = lost \cup left
      /\ heap' = [heap EXCEPT !.spare = @ + Cardinality(freed)]
      /\ procs' = [p \in Pids \ {active} |-> ring[p]]
      /\ active' = n
      /\ IF n = active THEN stopped' = "halted" ELSE SwitchTo(n)
      /\ UNCHANGED <<kernel, pids, task>>
  BY DEF Exit, Pids
<1>2. /\ Running /\ active \in Pids /\ procs \in [Pids -> Processes] /\ m \in PageMaps
      /\ n \in Pids /\ v \in Pids /\ heap \in Heaps /\ Pids \subseteq Nat
      /\ task.op = "none" /\ task.phase = "none" /\ task.pid = 0 /\ task \in Tasks
  BY <1>1, AllComplete DEF IInv, Types, ProcsOK
<1>3. /\ n = active => stopped' = "halted"
      /\ n # active => stopped' \in {"no", "bad cr3"}
  BY <1>1 DEF SwitchTo, LoadCr3
<1>4. ring \in [Pids -> Processes] /\ \A p \in Pids :
        /\ ring[p].next = IF p = v THEN n ELSE procs[p].next
        /\ ring[p].previous = IF p = n THEN v ELSE procs[p].previous
        /\ ring[p].dir = procs[p].dir /\ ring[p].tables = procs[p].tables
        /\ ring[p].eip = procs[p].eip
        /\ ring[p].linked = procs[p].linked /\ ring[p].pages = procs[p].pages
  BY <1>2 DEF Processes
<1>5. /\ DOMAIN Cleaned(m) = DOMAIN m \cap KeptPages
      /\ \A p \in DOMAIN m \cap KeptPages : Cleaned(m)[p] = m[p]
  BY <1>2, CleanFacts
<1>6. /\ \A p \in DOMAIN m \ KeptPages : m[p] \in back
      /\ \A p \in DOMAIN m \cap KeptPages : m[p] \notin back
      /\ \A f \in back : \E p \in DOMAIN m \ KeptPages : m[p] = f
  BY <1>2, CleanedApart
<1>7. content' \in [Frames -> Contents]
  BY <1>1, DroppedFacts
<1>8. Cardinality(freed) \in Nat
  <2>1. IsFiniteSet(procs[active].tables)
    BY <1>1, AllComplete
  <2>2. IsFiniteSet(freed)
    BY <2>1, FS_Difference
  <2> QED
    BY <2>2, FS_CardinalityType
<1>9. /\ \A p \in DOMAIN m \cap KeptPages : m[p] \in left
      /\ \A f \in left : \E p \in DOMAIN m \cap KeptPages : m[p] = f
  BY <1>5 DEF FramesOf
<1>10. \A p \in DOMAIN m \ KeptPages : m[p] \notin left
  <2>1. \A p, q \in DOMAIN m : m[p] = m[q] => p = q
    BY <1>2 DEF IInv, FramesOK, Exclusive, Spaces
  <2> QED
    BY <1>9, <2>1
<1> HIDE DEF back, left, freed, ring
<1>11. heap' \in Heaps /\ heap'.top = heap.top
  <2> DEFINE k == Cardinality(freed)
  <2>1. k \in Nat /\ heap.spare \in Nat /\ heap' = [heap EXCEPT !.spare = @ + k]
    BY <1>1, <1>2, <1>8 DEF Heaps
  <2> HIDE DEF k
  <2> QED
    BY <1>2, <2>1 DEF Heaps
<1>12. /\ Pids' = Pids \ {active} /\ procs' \in [Pids' -> Processes]
       /\ \A p \in Pids' : procs'[p] = ring[p]
  BY <1>1, <1>4 DEF Pids
<1>13. \A p \in Pids' :
        /\ p \in Pids /\ p # active
        /\ procs'[p].next = IF p = v THEN n ELSE procs[p].next
        /\ procs'[p].previous = IF p = n THEN v ELSE procs[p].previous
        /\ procs'[p].dir = procs[p].dir /\ procs'[p].tables = procs[p].tables
        /\ procs'[p].eip = procs[p].eip
        /\ procs'[p].linked = procs[p].linked /\ procs'[p].pages = procs[p].pages
  BY <1>4, <1>12
<1>14. RingOK' /\ \A p \in Pids' : procs'[p].next \in Pids' /\ procs'[p].previous \in Pids'
  <2> DEFINE P == Pids
             N == Nexts
             V == Previouses
  <2>1. Ring(P, N, V, active)
    BY <1>2, RingIs
  <2>2. /\ N[active] = n /\ V[active] = v
        /\ \A p \in P : N[p] = procs[p].next /\ V[p] = procs[p].previous
    BY <1>2 DEF Nexts, Previouses
  <2> HIDE DEF P, N, V
  <2>3. CASE n = active
    <3>1. P = {active}
      BY <2>1, <2>2, <2>3, RingTurns
    <3>2. Pids' = {}
      BY <1>12, <3>1 DEF P
    <3> QED
      BY <1>3, <2>3, <3>2 DEF RingOK
  <2>4. CASE n # active
    <3> DEFINE Q == Pids'
               M == Nexts'
               W == Previouses'
    <3>1. M = [p \in Q |-> procs'[p].next] /\ W = [p \in Q |-> procs'[p].previous] /\ Q = P \ {active}
      BY <1>12 DEF Nexts, Previouses, P
    <3>2. \A p \in Q : /\ p \in P
                       /\ procs'[p].next = IF p = v THEN n ELSE procs[p].next
                       /\ procs'[p].previous = IF p = n THEN v ELSE procs[p].previous
      BY <1>13 DEF P
    <3> HIDE DEF Q, M, W, n, v
    <3>3. M = [p \in Q |-> IF p = V[active] THEN N[active] ELSE N[p]]
      BY <2>2, <3>1, <3>2
    <3>4. W = [p \in Q |-> IF p = N[active] THEN V[active] ELSE V[p]]
      BY <2>2, <3>1, <3>2
    <3>5. N[active] # active
      BY <2>2, <2>4
    <3>6. Ring(Q, M, W, N[active])
      BY ONLY <2>1, <3>1, <3>3, <3>4, <3>5, RingLeaves
    <3> QED
      BY <1>1, <2>2, <3>6, RingGives DEF Q, M, W
  <2> QED
    BY <2>3, <2>4
<1>15. n \in Pids' \/ stopped' = "halted"
  BY <1>2, <1>3, <1>12
<1>16. Types'
  <2>1. used' \subseteq Frames /\ stopped' \in Reasons /\ n \in Nat /\ Pids' \subseteq 1..pids /\ pids \in Nat
    BY <1>1, <1>2, <1>3, <1>12 DEF IInv, Types, Reasons
  <2>2. lost' \subseteq Frames
    <3>1. \A p \in DOMAIN m : m[p] \in Frames
      BY <1>2, PageMapFacts
    <3>2. left \subseteq Frames
      BY <1>9, <3>1
    <3> QED
      BY <1>1, <3>2 DEF IInv, Types
  <2>3. kernel \in Kernels
    BY DEF IInv, Types
  <2> HIDE DEF n
  <2> QED
    BY <1>1, <1>2, <1>7, <1>11, <1>12, <1>15, <2>1, <2>2, <2>3 DEF Types
<1>17. ProcsOK'
  BY <1>1, <1>13, <1>14 DEF IInv, ProcsOK
<1>18. FramesOK'
  <2> DEFINE P == Spaces
             Q == Spaces'
  <2>1. Exclusive(kernel.pages, P, used, lost)
    BY DEF IInv, FramesOK
  <2>2. /\ DOMAIN P = Pids /\ DOMAIN Q = Pids \ {active} /\ P[active] = m
        /\ \A j \in Pids \ {active} : Q[j] = P[j]
    BY <1>2, <1>12, <1>13 DEF Spaces
  <2> HIDE DEF P, Q, m
  <2>3. \A p \in DOMAIN P[active] :
          \/ P[active][p] \in back /\ P[active][p] \notin left
          \/ P[active][p] \notin back /\ P[active][p] \in left
    BY <1>6, <1>9, <1>10, <2>2
  <2>4. \A f \in back \cup left : \E p \in DOMAIN P[active] : P[active][p] = f
    BY <1>6, <1>9, <2>2
  <2>5. Exclusive(kernel.pages, Q, used \ back, lost \cup left)
    BY <1>2, <2>1, <2>2, <2>3, <2>4, ProcessGivesFrames
  <2> QED
    BY <1>1, <2>5 DEF FramesOK, Q
<1>19. TaskOK' /\ HeapOK' /\ TodoOK'
  BY <1>1, <1>2, <1>11 DEF IInv, TaskOK, HeapOK, TodoOK
<1>20. TablesOK'
  <2>1. \A p \in Pids : procs[p].tables = TablesOf(DOMAIN procs[p].pages)
    BY <1>1, AllComplete
  <2> QED
    BY <1>13, <2>1 DEF TablesOK
<1>21. RunOK'
  <2>1. KernelLinks' = KernelLinks
    BY <1>1 DEF KernelLinks
  <2>2. \A p \in Pids : /\ procs[p].dir # NoDirectory /\ procs[p].linked = KernelLinks
                        /\ KStackPages \subseteq DOMAIN procs[p].pages /\ procs[p].eip # "none"
    BY <1>1, AllComplete
  <2> QED
    BY <1>13, <2>1, <2>2 DEF RunOK
<1>22. StaleOK'
  <2>1. 0 \notin Pids
    BY <1>1, AllComplete
  <2>2. \A page \in DOMAIN task.stale : \A q \in Pids :
          \A p \in DOMAIN procs[q].pages : procs[q].pages[p] # task.stale[page]
    BY <1>2, <2>1 DEF IInv, StaleOK
  <2>3. \A q \in Pids' : q \in Pids /\ procs'[q].pages = procs[q].pages
    BY <1>13
  <2>4. task' = task
    BY <1>1
  <2> QED
    BY ONLY <2>2, <2>3, <2>4 DEF StaleOK
<1>23. CopyOK'
  BY <1>1, <1>2 DEF CopyOK
<1> QED
  BY <1>14, <1>16, <1>17, <1>18, <1>19, <1>20, <1>21, <1>22, <1>23 DEF IInv

-----------------------------------------------------------------------------
(***************************************************************************)
(* The invariant holds.                                                    *)
(***************************************************************************)

\* paging_init maps pages that have a frame of the same number.
LEMMA BootFacts ==
  /\ BootTables \subseteq Nat /\ BootPages \subseteq Nat /\ BootPages \subseteq Frames
  /\ OldStackPages \subseteq BootPages /\ OldStackPages \subseteq Nat
  /\ \A p \in OldStackPages : TableOf(p) >= KernelTables
<1>1. /\ FirstTablePage \in Nat /\ NumTables \in Nat /\ CodePages \subseteq Nat /\ OldStackPages \subseteq Nat
      /\ \A t \in TablesOf(OldStackPages) : t >= KernelTables
  BY LayoutAssumption
<1>2. TableOf(FirstTablePage) \in Nat /\ TableOf(FirstTablePage + NumTables) \in Nat
  BY <1>1, TableOfType
<1>3. TableOf(FirstTablePage)..TableOf(FirstTablePage + NumTables) \subseteq Nat
  BY <1>2
<1>4. TablesOf(CodePages \cup OldStackPages) \subseteq Nat
  BY <1>1, TableOfType DEF TablesOf
<1> QED
  BY <1>1, <1>3, <1>4, BootAssumption, FramesAssumption DEF BootTables, BootPages, TablesOf

\* The first process is about to be made.
LEMMA InitKeeps ==
  ASSUME Init
  PROVE  IInv
<1> DEFINE one == EmptyProcess(1, 1)
<1>1. /\ one \in Processes /\ one.next = 1 /\ one.previous = 1
      /\ one.tables = {} /\ one.linked = {} /\ DOMAIN one.pages = {}
  <2> DEFINE e == [p \in {} |-> 0]
  <2>1. e \in PageMaps /\ DOMAIN e = {}
    BY EmptyMap
  <2>2. one = [next |-> 1, previous |-> 1, dir |-> 0, eip |-> "none",
               tables |-> {}, pages |-> e, linked |-> {}]
    BY DEF EmptyProcess, NoDirectory
  <2> HIDE DEF e, one
  <2> QED
    BY <2>1, <2>2 DEF Processes, Eips
<1>2. /\ used = Reserved \cup BootPages
      /\ kernel = [tables |-> BootTables, pages |-> [p \in BootPages |-> p]]
      /\ procs = [p \in {1} |-> one] /\ active = 1 /\ pids = 1
      /\ task = Work("init", "directory", 1, OldStackPages)
      /\ heap = [top |-> HeapStart, spare |-> 0]
      /\ content = [f \in Frames |-> IF f \in BootPages THEN "boot" ELSE "free"]
      /\ lost = {} /\ stopped = "no"
  BY DEF Init
<1> HIDE DEF one
<1>3. Pids = {1} /\ procs[1] = one
  BY <1>2 DEF Pids
<1>4. /\ task \in Tasks /\ task.op = "init" /\ task.phase = "directory" /\ task.pid = 1
      /\ task.todo = OldStackPages /\ task.grown = 0 /\ DOMAIN task.stale = {}
  <2>1. OldStackPages \in SUBSET Nat /\ 1 \in Nat
    BY BootFacts
  <2> QED
    BY <1>2, <2>1, WorkType DEF Phases
<1>5. /\ kernel \in Kernels /\ DOMAIN kernel.pages = BootPages
      /\ \A p \in BootPages : kernel.pages[p] = p
  <2> DEFINE K == [p \in BootPages |-> p]
  <2>1. K \in [BootPages -> Frames] /\ BootPages \in SUBSET Nat /\ DOMAIN K = BootPages
        /\ \A p \in BootPages : K[p] = p
    BY BootFacts
  <2>2. kernel = [tables |-> BootTables, pages |-> K]
    BY <1>2
  <2> HIDE DEF K
  <2>3. K \in PageMaps
    BY <2>1, PageMapIntro
  <2> QED
    BY <2>1, <2>2, <2>3, BootFacts DEF Kernels
<1>6. HeapStart \in Nat /\ heap \in Heaps /\ heap.top = HeapStart
  BY <1>2, LayoutAssumption DEF Heaps
<1>7. Types
  <2>1. procs \in [Pids -> Processes]
    BY <1>1, <1>2, <1>3
  <2>2. used \subseteq Frames /\ lost \subseteq Frames
    BY <1>2, BootFacts, FramesAssumption
  <2>3. content \in [Frames -> Contents]
    BY <1>2 DEF Contents
  <2>4. Pids \subseteq 1..pids /\ pids \in Nat /\ active \in Nat /\ active \in Pids
    BY <1>2, <1>3
  <2> QED
    BY <1>2, <1>4, <1>5, <1>6, <2>1, <2>2, <2>3, <2>4 DEF Types, Reasons
<1>8. ProcsOK
  <2>1. IsFiniteSet({})
    BY FS_EmptySet
  <2> QED
    BY <1>1, <1>3, <2>1 DEF ProcsOK
<1>9. FramesOK
  <2> DEFINE K == kernel.pages
             P == Spaces
  <2>1. DOMAIN P = {1} /\ DOMAIN P[1] = {}
    BY <1>1, <1>3 DEF Spaces
  <2>2. DOMAIN K = BootPages /\ \A p \in BootPages : K[p] = p
    BY <1>5
  <2> HIDE DEF K, P
  <2>3. Exclusive(K, P, used, lost)
    BY <1>2, <2>1, <2>2 DEF Exclusive
  <2> QED
    BY <2>3 DEF FramesOK, K, P
<1>10. TaskOK
  BY <1>2, <1>3, <1>4 DEF TaskOK
<1>11. HeapOK
  <2>1. HeapStart + 0 = HeapStart /\ HeapStart >= HeapStart
    BY <1>6
  <2> QED
    BY <1>4, <1>6, <2>1 DEF HeapOK
<1>12. TodoOK
  <2>1. DOMAIN Target.pages = {}
    BY <1>1, <1>3, <1>4 DEF Target
  <2> QED
    BY <1>4, <1>5, <2>1, BootFacts DEF TodoOK
<1>13. TablesOK
  BY <1>1, <1>3, TablesOfMore DEF TablesOK
<1>14. RingOK
  BY <1>1, <1>2, <1>3 DEF RingOK
<1>15. RunOK
  BY <1>3, <1>4 DEF RunOK
<1>16. StaleOK /\ CopyOK
  BY <1>4 DEF StaleOK, CopyOK
<1> QED
  BY <1>7, <1>8, <1>9, <1>10, <1>11, <1>12, <1>13, <1>14, <1>15, <1>16 DEF IInv

\* Every step keeps the invariant.
LEMMA NextKeeps ==
  ASSUME IInv, [Next]_vars
  PROVE  IInv'
<1>1. ASSUME NEW page \in UserPages, NEW value \in Values, Store(page, value) PROVE IInv'
  BY <1>1, StoreKeeps
<1>2. CASE PageFault
  BY <1>2, StopKeeps DEF PageFault, InUserMode
<1>3. CASE Fork
  BY <1>3, ForkKeeps
<1>4. ASSUME NEW image \in Images, Execve(image) PROVE IInv'
  BY <1>4, ExecveKeeps
<1>5. CASE Exit
  BY <1>5, ExitKeeps
<1>6. CASE Switch
  BY <1>6, SwitchKeeps
<1>7. CASE NewKernelTable
  BY <1>7, NewKernelTableKeeps
<1>8. CASE NewHeapPage
  BY <1>8, NewHeapPageKeeps
<1>9. CASE BitmapFull
  BY <1>9, StopKeeps DEF BitmapFull
<1>10. CASE NewDirectory
  BY <1>10, NewDirectoryKeeps
<1>11. CASE NewTable
  BY <1>11, NewTableKeeps
<1>12. CASE ClonePage
  BY <1>12, ClonePageKeeps
<1>13. CASE FinishClone
  BY <1>13, FinishCloneKeeps
<1>14. CASE GetBuffer
  BY <1>14, GetBufferKeeps
<1>15. CASE LoadPage
  BY <1>15, LoadPageKeeps
<1>16. CASE RejectImage
  BY <1>16, StopKeeps DEF RejectImage, Doing
<1>17. CASE StartProgram
  BY <1>17, StartProgramKeeps
<1>18. CASE FinishFork
  BY <1>18, FinishForkKeeps
<1>19. CASE Clean
  BY <1>19, CleanKeeps
<1>20. CASE ReadKeyboard
  BY <1>20, ReadKeyboardKeeps
<1>21. CASE UNCHANGED vars
  <2>1. /\ UNCHANGED <<used, kernel, procs, active, pids, task, heap, content, lost, stopped>>
        /\ Pids' = Pids
    BY <1>21 DEF vars, Pids
  <2>2. Types' /\ ProcsOK' /\ FramesOK'
    BY <2>1, SpacesSame DEF IInv, Types, ProcsOK
  <2>3. TaskOK' /\ HeapOK' /\ TodoOK' /\ TablesOK'
    BY <2>1 DEF IInv, TaskOK, HeapOK, TodoOK, TablesOK, Target, NextPage
  <2>4. RingOK'
    BY <2>1 DEF IInv, RingOK
  <2>5. RunOK'
    BY <2>1 DEF IInv, RunOK, KernelLinks, Running
  <2>6. StaleOK' /\ CopyOK'
    BY <2>1, StaleSame DEF IInv, CopyOK, Target
  <2> QED
    BY <2>2, <2>3, <2>4, <2>5, <2>6 DEF IInv
<1> QED
  BY <1>1, <1>2, <1>3, <1>4, <1>5, <1>6, <1>7, <1>8, <1>9, <1>10, <1>11, <1>12, <1>13, <1>14,
     <1>15, <1>16, <1>17, <1>18, <1>19, <1>20, <1>21 DEF Next, KernelStep

\* The inductive invariant is an invariant.
LEMMA Inductive == Spec => []IInv
<1>1. Init => IInv
  BY InitKeeps
<1>2. IInv /\ [Next]_vars => IInv'
  BY NextKeeps
<1> QED
  BY <1>1, <1>2, PTL DEF Spec

-----------------------------------------------------------------------------
(***************************************************************************)
(* What it gives: the invariants of Process.                               *)
(***************************************************************************)

\* The mappings are those of the kernel and those of the processes.
LEMMA MappingsAre ==
  ASSUME IInv
  PROVE  /\ \A m \in Mappings :
              \/ \E k \in DOMAIN kernel.pages : m = <<0, k>> /\ FrameOf(m) = kernel.pages[k]
              \/ \E q \in Pids : \E p \in DOMAIN procs[q].pages :
                   m = <<q, p>> /\ FrameOf(m) = procs[q].pages[p]
         /\ \A k \in DOMAIN kernel.pages : kernel.pages[k] \in Mapped
         /\ \A q \in Pids : \A p \in DOMAIN procs[q].pages : procs[q].pages[p] \in Mapped
         /\ \A f \in Mapped : \/ \E k \in DOMAIN kernel.pages : f = kernel.pages[k]
                              \/ \E q \in Pids : \E p \in DOMAIN procs[q].pages :
                                   f = procs[q].pages[p]
<1>1. 0 \notin Pids
  BY DEF IInv, Types
<1>2. \A k \in DOMAIN kernel.pages : <<0, k>> \in Mappings /\ FrameOf(<<0, k>>) = kernel.pages[k]
  BY DEF Mappings, FrameOf
<1>3. \A q \in Pids : \A p \in DOMAIN procs[q].pages :
        <<q, p>> \in Mappings /\ FrameOf(<<q, p>>) = procs[q].pages[p]
  BY <1>1 DEF Mappings, FrameOf
<1>4. \A m \in Mappings : \/ \E k \in DOMAIN kernel.pages : m = <<0, k>>
                          \/ \E q \in Pids : \E p \in DOMAIN procs[q].pages : m = <<q, p>>
  BY DEF Mappings
<1>5. \A m \in Mappings :
        \/ \E k \in DOMAIN kernel.pages : m = <<0, k>> /\ FrameOf(m) = kernel.pages[k]
        \/ \E q \in Pids : \E p \in DOMAIN procs[q].pages :
             m = <<q, p>> /\ FrameOf(m) = procs[q].pages[p]
  <2> SUFFICES ASSUME NEW m \in Mappings
               PROVE  \/ \E k \in DOMAIN kernel.pages : m = <<0, k>> /\ FrameOf(m) = kernel.pages[k]
                      \/ \E q \in Pids : \E p \in DOMAIN procs[q].pages :
                           m = <<q, p>> /\ FrameOf(m) = procs[q].pages[p]
    OBVIOUS
  <2>1. CASE \E k \in DOMAIN kernel.pages : m = <<0, k>>
    BY <1>2, <2>1, Zenon
  <2>2. CASE \E q \in Pids : \E p \in DOMAIN procs[q].pages : m = <<q, p>>
    BY <1>3, <2>2, Zenon
  <2> QED
    BY <1>4, <2>1, <2>2, Zenon
<1>6. \A f : f \in Mapped <=> \E m \in Mappings : f = FrameOf(m)
  BY DEF Mapped
<1>7. /\ \A k \in DOMAIN kernel.pages : kernel.pages[k] \in Mapped
      /\ \A q \in Pids : \A p \in DOMAIN procs[q].pages : procs[q].pages[p] \in Mapped
  BY <1>2, <1>3, <1>6, Zenon
<1>8. \A f \in Mapped : \/ \E k \in DOMAIN kernel.pages : f = kernel.pages[k]
                        \/ \E q \in Pids : \E p \in DOMAIN procs[q].pages : f = procs[q].pages[p]
  <2> SUFFICES ASSUME NEW f \in Mapped
               PROVE  \/ \E k \in DOMAIN kernel.pages : f = kernel.pages[k]
                      \/ \E q \in Pids : \E p \in DOMAIN procs[q].pages : f = procs[q].pages[p]
    OBVIOUS
  <2>1. PICK m \in Mappings : f = FrameOf(m)
    BY <1>6
  <2>2. CASE \E k \in DOMAIN kernel.pages : m = <<0, k>> /\ FrameOf(m) = kernel.pages[k]
    BY <2>1, <2>2, Zenon
  <2>3. CASE \E q \in Pids : \E p \in DOMAIN procs[q].pages :
               m = <<q, p>> /\ FrameOf(m) = procs[q].pages[p]
    BY <2>1, <2>3, Zenon
  <2> QED
    BY <1>5, <2>1, <2>2, <2>3, Zenon
<1> QED
  BY <1>5, <1>7, <1>8

\* What the invariant says of the frames, mapping by mapping.
LEMMA FrameFacts ==
  ASSUME IInv
  PROVE  /\ \A k, l \in DOMAIN kernel.pages : kernel.pages[k] = kernel.pages[l] => k = l
         /\ \A i \in Pids : \A p \in DOMAIN procs[i].pages, k \in DOMAIN kernel.pages :
              procs[i].pages[p] # kernel.pages[k]
         /\ \A i, j \in Pids : \A p \in DOMAIN procs[i].pages, q \in DOMAIN procs[j].pages :
              procs[i].pages[p] = procs[j].pages[q] => i = j /\ p = q
         /\ Reserved \subseteq used /\ lost \subseteq used
         /\ \A k \in DOMAIN kernel.pages : kernel.pages[k] \in used /\ kernel.pages[k] \notin lost
         /\ \A i \in Pids : \A p \in DOMAIN procs[i].pages :
              /\ procs[i].pages[p] \in used /\ procs[i].pages[p] \notin lost
              /\ procs[i].pages[p] \in Frames
         /\ \A f \in used : \/ f \in Reserved \/ f \in lost
                            \/ \E k \in DOMAIN kernel.pages : kernel.pages[k] = f
                            \/ \E i \in Pids : \E p \in DOMAIN procs[i].pages : procs[i].pages[p] = f
<1> DEFINE P == Spaces
           K == kernel.pages
<1>1. DOMAIN P = Pids /\ \A i \in Pids : P[i] = procs[i].pages
  BY DEF Spaces
<1>2. Exclusive(K, P, used, lost) /\ used \subseteq Frames
  BY DEF IInv, FramesOK, Types
<1> HIDE DEF P, K
<1>3. /\ \A k, l \in DOMAIN K : K[k] = K[l] => k = l
      /\ \A i \in Pids : \A p \in DOMAIN procs[i].pages, k \in DOMAIN K : procs[i].pages[p] # K[k]
      /\ \A i, j \in Pids : \A p \in DOMAIN procs[i].pages, q \in DOMAIN procs[j].pages :
           procs[i].pages[p] = procs[j].pages[q] => i = j /\ p = q
  BY <1>1, <1>2 DEF Exclusive
<1>4. /\ Reserved \subseteq used /\ lost \subseteq used
      /\ \A k \in DOMAIN K : K[k] \in used /\ K[k] \notin lost
      /\ \A i \in Pids : \A p \in DOMAIN procs[i].pages :
           procs[i].pages[p] \in used /\ procs[i].pages[p] \notin lost
  BY <1>1, <1>2 DEF Exclusive
<1>5. \A f \in used : \/ f \in Reserved \/ f \in lost
                      \/ \E k \in DOMAIN K : K[k] = f
                      \/ \E i \in Pids : \E p \in DOMAIN procs[i].pages : procs[i].pages[p] = f
  BY <1>1, <1>2 DEF Exclusive
<1> QED
  BY <1>2, <1>3, <1>4, <1>5 DEF K

\* The fields of processes, bitmap and task keep their types, links lead to
\* processes and pages to frames, after any sequence of forks, loads and exits.
THEOREM TypesKept == Spec => []TypeOK
<1>1. ASSUME IInv PROVE TypeOK
  <2>1. /\ used \subseteq Frames /\ lost \subseteq Frames /\ kernel \in Kernels
        /\ procs \in [Pids -> Processes] /\ Pids \subseteq 1..pids
        /\ active \in Pids \/ stopped = "halted"
        /\ task \in Tasks /\ heap \in Heaps /\ stopped \in Reasons
    BY <1>1 DEF IInv, Types
  <2>2. FramesOf(kernel.pages) \subseteq Frames
    BY <2>1, PageMapFacts DEF Kernels
  <2>3. ASSUME NEW p \in Pids PROVE ProcessType(procs[p])
    <3>1. procs[p] \in Processes /\ procs[p].pages \in PageMaps
      BY <2>1 DEF Processes
    <3>2. DOMAIN procs[p].pages \subseteq Nat /\ FramesOf(procs[p].pages) \subseteq Frames
      BY <3>1, PageMapFacts
    <3>3. procs[p].next \in Pids /\ procs[p].previous \in Pids /\ procs[p].linked \subseteq kernel.tables
      BY <1>1 DEF IInv, ProcsOK
    <3> QED
      BY <3>1, <3>2, <3>3 DEF ProcessType, Processes, Eips
  <2>4. task.phase \in Phases /\ heap.spare \in Nat
    BY <2>1 DEF Tasks, Heaps
  <2> QED
    BY <2>1, <2>2, <2>3, <2>4 DEF TypeOK, Phases, Reasons
<1> QED
  BY <1>1, Inductive, PTL

\* No frame is mapped twice, and none that a kernel stack was left in is
\* mapped again, for any memory, layout and programs.
THEOREM NoFrameShared == Spec => []FramesExclusive
<1>1. ASSUME IInv PROVE FramesExclusive
  <2>1. ASSUME NEW m \in Mappings, NEW n \in Mappings, FrameOf(m) = FrameOf(n) PROVE m = n
    <3>1. \/ \E k \in DOMAIN kernel.pages : m = <<0, k>> /\ FrameOf(m) = kernel.pages[k]
          \/ \E q \in Pids : \E p \in DOMAIN procs[q].pages : m = <<q, p>> /\ FrameOf(m) = procs[q].pages[p]
      BY <1>1, MappingsAre
    <3>2. \/ \E k \in DOMAIN kernel.pages : n = <<0, k>> /\ FrameOf(n) = kernel.pages[k]
          \/ \E q \in Pids : \E p \in DOMAIN procs[q].pages : n = <<q, p>> /\ FrameOf(n) = procs[q].pages[p]
      BY <1>1, MappingsAre
    <3> QED
      BY <1>1, <2>1, <3>1, <3>2, FrameFacts
  <2>2. Mapped \cap lost = {}
    BY <1>1, MappingsAre, FrameFacts
  <2> QED
    BY <2>1, <2>2 DEF FramesExclusive
<1> QED
  BY <1>1, Inductive, PTL

\* The bitmap marks what is mapped, reserved or lost, and nothing leaks: what
\* the assertion at paging.c:165 checks of the pages it happens to meet.
THEOREM BitmapExact == Spec => []FramesAccounted
<1>1. ASSUME IInv PROVE FramesAccounted
  <2>1. \A f \in used : f \in Reserved \/ f \in Mapped \/ f \in lost
    BY <1>1, MappingsAre, FrameFacts
  <2>2. \A f \in Mapped : f \in used
    BY <1>1, MappingsAre, FrameFacts
  <2>3. Reserved \subseteq used /\ lost \subseteq used
    BY <1>1, FrameFacts
  <2> QED
    BY <2>1, <2>2, <2>3 DEF FramesAccounted
<1> QED
  BY <1>1, Inductive, PTL

\* Page tables are there exactly for the pages, and the assertion at
\* paging.c:284 never meets a page of the program before.
THEOREM TablesFollowPages == Spec => []TablesMatch
<1>1. ASSUME IInv PROVE TablesMatch
  <2>1. task.phase = "load" => task.todo \cap DOMAIN Target.pages = {}
    BY <1>1 DEF IInv, TaskOK, TodoOK
  <2> QED
    BY <1>1, <2>1 DEF IInv, TablesOK, TablesMatch
<1> QED
  BY <1>1, Inductive, PTL

\* Whoever forks and exits, in whatever order, the processes are one ring.
THEOREM OneRing == Spec => []RingOK
<1>1. IInv => RingOK
  BY DEF IInv
<1> QED
  BY <1>1, Inductive, PTL

\* Every process but the one being made can be given the CPU.
THEOREM AlwaysRunnable == Spec => []Runnable
<1>1. ASSUME IInv PROVE Runnable
  BY <1>1 DEF IInv, RunOK, Runnable, KernelLinks
<1> QED
  BY <1>1, Inductive, PTL

-----------------------------------------------------------------------------
(***************************************************************************)
(* What no step does to another process's memory.                          *)
(***************************************************************************)

\* A process sees what it saw when neither its mappings nor the contents of
\* its frames change.
LEMMA SameView ==
  ASSUME NEW p, procs'[p].pages = procs[p].pages,
         \A page \in DOMAIN procs[p].pages :
           content'[procs[p].pages[page]] = content[procs[p].pages[page]]
  PROVE  View(p)' = View(p)
BY DEF View

\* Process p, neither active nor worked on.
Bystander(p) == p \in Pids /\ p # active /\ p # task.pid

\* A step that leaves all contents alone.
LEMMA ContentsSame ==
  ASSUME NEW p, procs'[p].pages = procs[p].pages, content' = content
  PROVE  View(p)' = View(p)
BY SameView

\* Steps on memory: only frames that p does not have are written.
LEMMA StoreIsolated ==
  ASSUME IInv, NEW p, Bystander(p), NEW page, NEW value, Store(page, value)
  PROVE  View(p)' = View(p)
<1>1. /\ procs' = procs /\ page \in DOMAIN procs[active].pages /\ InUserMode
      /\ content' = [content EXCEPT ![procs[active].pages[page]] = value]
  BY DEF Store
<1>2. /\ active \in Pids /\ content \in [Frames -> Contents]
  BY <1>1, AllComplete DEF IInv, Types
<1>3. \A q \in DOMAIN procs[p].pages :
        procs[p].pages[q] \in Frames /\ procs[p].pages[q] # procs[active].pages[page]
  BY <1>1, <1>2, FrameFacts DEF Bystander
<1>4. \A f \in Frames : f # procs[active].pages[page] => content'[f] = content[f]
  BY <1>1, <1>2
<1> QED
  BY <1>1, <1>3, <1>4, SameView

\* A clone is written to a frame that was clear.
LEMMA ClonePageIsolated ==
  ASSUME IInv, NEW p, Bystander(p), ClonePage
  PROVE  View(p)' = View(p)
<1> DEFINE f == FirstClear(used)
<1>1. /\ Running /\ task.phase = "clone" /\ Clear
      /\ procs' = [procs EXCEPT ![task.pid].pages = Map(@, NextPage, f)]
      /\ content' = [content EXCEPT ![f] = content[Source[NextPage]]]
  BY DEF ClonePage, Doing, CopyFrame
<1>2. f \notin used /\ content \in [Frames -> Contents] /\ procs \in [Pids -> Processes]
  BY <1>1, FirstClearClear DEF Clear, IInv, Types
<1> HIDE DEF f
<1>3. procs'[p].pages = procs[p].pages
  BY <1>1, <1>2 DEF Bystander
<1>4. \A g \in Frames : g # f => content'[g] = content[g]
  BY <1>1, <1>2
<1>5. \A q \in DOMAIN procs[p].pages : procs[p].pages[q] \in Frames /\ procs[p].pages[q] # f
  BY <1>2, FrameFacts DEF Bystander
<1> QED
  BY <1>3, <1>4, <1>5, SameView

\* What changes on the kernel stack while fork runs is the parent's.
LEMMA FinishCloneIsolated ==
  ASSUME IInv, NEW p, Bystander(p), FinishClone
  PROVE  View(p)' = View(p)
<1>1. Running /\ task.phase = "clone"
  BY DEF FinishClone, Doing
<1>2. /\ task.pid \in Pids /\ active \in Pids /\ procs \in [Pids -> Processes]
      /\ task.op \in {"init", "fork"}
  BY <1>1, AtWork DEF IInv, Types, TaskOK, Tasks
<1>3. procs'[p].pages = procs[p].pages
  BY <1>2 DEF FinishClone, Bystander
<1>4. CASE task.op = "init"
  BY <1>3, <1>4, ContentsSame DEF FinishClone
<1>5. CASE task.op = "fork"
  <2>1. content' = [f \in Frames |-> IF \E q \in KStackPages : procs[active].pages[q] = f
                                     THEN "after clone" ELSE content[f]]
    BY <1>5 DEF FinishClone
  <2>2. KStackPages \subseteq DOMAIN procs[active].pages
    BY <1>1, <1>2, <1>5 DEF IInv, TaskOK, RunOK
  <2>3. \A page \in DOMAIN procs[p].pages :
          /\ procs[p].pages[page] \in Frames
          /\ \A q \in KStackPages : procs[active].pages[q] # procs[p].pages[page]
    BY <1>2, <2>2, FrameFacts DEF Bystander
  <2>4. \A page \in DOMAIN procs[p].pages : content'[procs[p].pages[page]] = content[procs[p].pages[page]]
    BY <2>1, <2>3
  <2> QED
    BY <1>3, <2>4, SameView
<1> QED
  BY <1>2, <1>4, <1>5

\* A program is written to a frame that was clear, or through the TLB to one
\* that the process had.
LEMMA LoadPageIsolated ==
  ASSUME IInv, NEW p, Bystander(p), LoadPage
  PROVE  View(p)' = View(p)
<1> DEFINE f == FirstClear(used)
<1>1. Running /\ task.phase = "load" /\ Clear
  BY DEF LoadPage, Doing
<1>2. /\ f \notin used /\ content \in [Frames -> Contents] /\ procs \in [Pids -> Processes]
      /\ task.stale \in PageMaps
  BY <1>1, FirstClearClear DEF Clear, IInv, Types, Tasks
<1>3. CASE NextPage \in DOMAIN Target.pages
  BY <1>3, ContentsSame DEF LoadPage
<1>4. CASE NextPage \notin DOMAIN Target.pages
  <2>1. CreateProcessPage(NextPage, f) /\ WritePage(NextPage, f)
    BY <1>4 DEF LoadPage
  <2> HIDE DEF f
  <2>2. procs'[p].pages = procs[p].pages
    BY <1>2, <2>1 DEF CreateProcessPage, Bystander
  <2>3. PICK target \in {f} \cup FramesOf(Keep(task.stale, {NextPage})) :
          content' = IF target \in used \cup {f}
                     THEN [content EXCEPT ![target] = "image"] ELSE content
    BY <2>1 DEF WritePage
  <2>4. target = f \/ \E page \in DOMAIN task.stale : target = task.stale[page]
    BY <2>3 DEF FramesOf, Keep
  <2>5. \A page \in DOMAIN procs[p].pages :
          procs[p].pages[page] \in Frames /\ procs[p].pages[page] # target
    <3>1. \A page \in DOMAIN procs[p].pages :
            procs[p].pages[page] \in Frames /\ procs[p].pages[page] \in used
      BY FrameFacts DEF Bystander
    <3>2. CASE target = f
      BY <1>2, <3>1, <3>2
    <3>3. CASE \E page \in DOMAIN task.stale : target = task.stale[page]
      BY <3>1, <3>3 DEF IInv, StaleOK, Bystander
    <3> QED
      BY <2>4, <3>2, <3>3
  <2>6. \A g \in Frames : g # target => content'[g] = content[g]
    BY <1>2, <2>3
  <2> QED
    BY <2>2, <2>5, <2>6, SameView
<1> QED
  BY <1>3, <1>4

\* What FinishFork does, frame by frame: the child's kernel stack becomes the
\* parent's, and nothing else changes.
LEMMA StackCopied ==
  ASSUME IInv, FinishFork
  PROVE  /\ task.op = "fork" /\ task.pid \in Pids /\ active \in Pids /\ task.pid # active
         /\ Running /\ task.phase = "stack" /\ active' = active
         /\ KStackPages \subseteq DOMAIN procs[active].pages
         /\ DOMAIN procs[task.pid].pages = DOMAIN procs[active].pages
         /\ \A page \in KStackPages :
              content'[procs[task.pid].pages[page]] = content[procs[active].pages[page]]
         /\ \A f \in Frames :
              (\A page \in KStackPages : procs[task.pid].pages[page] # f) => content'[f] = content[f]
<1> DEFINE to == procs[task.pid].pages
           from == procs[active].pages
<1>1. /\ Running /\ task.phase = "stack" /\ active' = active
      /\ content' = [g \in Frames |->
           IF \E p \in KStackPages : to[p] = g
           THEN content[from[CHOOSE p \in KStackPages : to[p] = g]]
           ELSE content[g]]
  BY DEF FinishFork, Doing
<1>2. /\ task.op = "fork" /\ task.pid \in Pids /\ active \in Pids
      /\ task.todo = {} /\ task.pid # active
  BY <1>1, AtWork DEF IInv, TaskOK, Types, Tasks, TodoOK
<1>3. KStackPages \subseteq DOMAIN from /\ DOMAIN to = DOMAIN from
  BY <1>1, <1>2 DEF IInv, RunOK, TodoOK, Target
<1>4. /\ \A p, q \in DOMAIN to : to[p] = to[q] => p = q
      /\ \A p \in DOMAIN to : to[p] \in Frames
  BY <1>2, FrameFacts
<1> HIDE DEF to, from
<1>5. ASSUME NEW page \in KStackPages PROVE content'[to[page]] = content[from[page]]
  <2>1. (CHOOSE p \in KStackPages : to[p] = to[page]) = page
    <3> DEFINE c == CHOOSE p \in KStackPages : to[p] = to[page]
    <3>1. c \in KStackPages /\ to[c] = to[page]
      OBVIOUS
    <3> HIDE DEF c
    <3>2. c = page
      BY <1>3, <1>4, <3>1
    <3> QED
      BY <3>2 DEF c
  <2>2. to[page] \in Frames
    BY <1>3, <1>4
  <2>3. content'[to[page]] = content[from[CHOOSE p \in KStackPages : to[p] = to[page]]]
    BY <1>1, <2>2
  <2> QED
    BY <2>1, <2>3
<1>6. \A f \in Frames : (\A page \in KStackPages : to[page] # f) => content'[f] = content[f]
  BY <1>1
<1> QED
  BY <1>1, <1>2, <1>3, <1>5, <1>6 DEF to, from

\* Whatever the kernel or the running process does, and whatever it writes
\* through stale TLB entries, every other process sees the same memory.
THEOREM OthersUntouched == Spec => Isolated
<1> DEFINE A == \A p \in Pids \ {active, task.pid} : p \in Pids' => View(p)' = View(p)
<1>1. ASSUME IInv, [Next]_vars PROVE [A]_vars
  <2> SUFFICES ASSUME Next, NEW p \in Pids \ {active, task.pid}, p \in Pids'
               PROVE  View(p)' = View(p)
    BY <1>1
  <2>1. Bystander(p) /\ procs \in [Pids -> Processes] /\ DOMAIN procs = Pids
    BY <1>1 DEF Bystander, IInv, Types, Pids
  <2>2. ASSUME NEW page \in UserPages, NEW value \in Values, Store(page, value) PROVE View(p)' = View(p)
    BY <1>1, <2>1, <2>2, StoreIsolated
  <2>3. CASE PageFault \/ BitmapFull \/ NewDirectory \/ NewHeapPage \/ GetBuffer
          \/ RejectImage \/ ReadKeyboard
    <3>1. procs' = procs /\ content' = content
      BY <2>3 DEF PageFault, BitmapFull, NewDirectory, NewHeapPage, GetBuffer, RejectImage,
        ReadKeyboard
    <3> QED
      BY <3>1, ContentsSame
  <2>4. ASSUME NEW image \in Images, Execve(image) PROVE View(p)' = View(p)
    BY <2>4, ContentsSame DEF Execve
  <2>5. CASE Fork
    <3>1. p # pids + 1
      BY <1>1, <2>1 DEF IInv, Types
    <3>2. procs'[p].pages = procs[p].pages /\ content' = content
      <4> DEFINE previous == procs[active].previous
                 ring == [[procs EXCEPT ![previous].next = pids + 1] EXCEPT ![active].previous = pids + 1]
      <4>1. procs'[p] = ring[p] /\ content' = content
        BY <2>1, <2>5, <3>1 DEF Fork
      <4>2. ring[p].pages = procs[p].pages
        BY <2>1 DEF Processes
      <4> QED
        BY <4>1, <4>2
    <3> QED
      BY <3>2, ContentsSame
  <2>6. CASE Switch \/ StartProgram \/ NewTable
    <3>1. procs'[p].pages = procs[p].pages /\ content' = content
      BY <2>1, <2>6 DEF Switch, StartProgram, NewTable
    <3> QED
      BY <3>1, ContentsSame
  <2>7. CASE NewKernelTable
    <3>1. content' = content
      BY <2>7 DEF NewKernelTable
    <3>2. \/ procs' = procs
          \/ \E t : procs' = [q \in DOMAIN procs |-> [procs[q] EXCEPT !.linked = @ \cup {t}]]
      BY <2>7 DEF NewKernelTable, LinkKernelTable
    <3>3. procs'[p].pages = procs[p].pages
      BY <2>1, <3>2 DEF Processes
    <3> QED
      BY <3>1, <3>3, ContentsSame
  <2>8. CASE ClonePage
    BY <1>1, <2>1, <2>8, ClonePageIsolated
  <2>9. CASE FinishClone
    BY <1>1, <2>1, <2>9, FinishCloneIsolated
  <2>10. CASE LoadPage
    BY <1>1, <2>1, <2>10, LoadPageIsolated
  <2>11. CASE FinishFork
    <3>1. procs'[p].pages = procs[p].pages
      BY <1>1, <2>11, FinishForkKeeps
    <3>2. \A page \in DOMAIN procs[p].pages :
            /\ procs[p].pages[page] \in Frames
            /\ \A q \in KStackPages : procs[task.pid].pages[q] # procs[p].pages[page]
      BY <1>1, <2>1, <2>11, StackCopied, FrameFacts
    <3>3. \A page \in DOMAIN procs[p].pages : content'[procs[p].pages[page]] = content[procs[p].pages[page]]
      BY <1>1, <2>11, <3>2, StackCopied
    <3> QED
      BY <3>1, <3>3, SameView
  <2>12. ASSUME active \in Pids, content' = Dropped(CleanedFrames(procs[active].pages)),
                procs'[p].pages = procs[p].pages
         PROVE  View(p)' = View(p)
    <3>1. \A page \in DOMAIN procs[p].pages :
            /\ procs[p].pages[page] \in Frames
            /\ procs[p].pages[page] \notin CleanedFrames(procs[active].pages)
      BY <1>1, <2>12, FrameFacts DEF CleanedFrames
    <3>2. \A page \in DOMAIN procs[p].pages : content'[procs[p].pages[page]] = content[procs[p].pages[page]]
      BY <1>1, <2>12, <3>1, DroppedFacts
    <3> QED
      BY <2>12, <3>2, SameView
  <2>13. CASE Clean
    <3>1. Running
      BY <2>13 DEF Clean, Doing
    <3>2. active \in Pids
      BY <1>1, <3>1, AtWork
    <3>3. procs'[p].pages = procs[p].pages
      BY <2>1, <2>13 DEF Clean
    <3> QED
      BY <2>12, <2>13, <3>2, <3>3 DEF Clean
  <2>14. CASE Exit
    <3>1. active \in Pids
      BY <1>1, <2>14, AllComplete DEF Exit
    <3>2. procs'[p].pages = procs[p].pages
      <4> DEFINE n == procs[active].next
                 v == procs[active].previous
                 ring == [[procs EXCEPT ![n].previous = v] EXCEPT ![v].next = n]
      <4>1. procs'[p] = ring[p]
        BY <2>1, <2>14 DEF Exit
      <4>2. ring[p].pages = procs[p].pages
        BY <2>1 DEF Processes
      <4> QED
        BY <4>1, <4>2
    <3> QED
      BY <2>12, <2>14, <3>1, <3>2 DEF Exit
  <2> QED
    BY <2>2, <2>3, <2>4, <2>5, <2>6, <2>7, <2>8, <2>9, <2>10, <2>11, <2>13, <2>14 DEF Next, KernelStep
<1> QED
  BY <1>1, Inductive, PTL DEF Spec, Isolated

\* fork returns with a child that has all that its parent has, page by page,
\* the kernel stack as it is then included.
THEOREM ChildIsCopy == Spec => ForkCopies
<1> DEFINE A == \A child \in Pids : Doing("stack") /\ child = task.pid
                  => View(child)' = View(active)'
<1>1. ASSUME IInv, [Next]_vars PROVE [A]_vars
  <2> SUFFICES ASSUME Next, NEW child \in Pids, Doing("stack"), child = task.pid
               PROVE  View(child)' = View(active)'
    BY <1>1
  <2>1. Running /\ task.phase = "stack" /\ task.op # "none"
    BY <1>1, AtWork DEF Doing
  <2>2. FinishFork
    <3>1. ~InUserMode /\ ~TableMissing /\ ~WantsHeap /\ ~WantsFrame
      BY <2>1 DEF InUserMode, TableMissing, WantsHeap, WantsFrame
    <3> QED
      BY <2>1, <3>1 DEF Next, KernelStep, Store, PageFault, Fork, Execve, Exit, Switch, NewKernelTable,
        NewHeapPage, BitmapFull, NewDirectory, NewTable, ClonePage, FinishClone, GetBuffer, LoadPage,
        RejectImage, StartProgram, ReadKeyboard, Clean, Doing
  <2> DEFINE to == procs[task.pid].pages
             from == procs[active].pages
  <2>3. /\ task.op = "fork" /\ task.pid \in Pids /\ active \in Pids /\ task.pid # active
        /\ active' = active /\ KStackPages \subseteq DOMAIN from /\ DOMAIN to = DOMAIN from
        /\ \A page \in KStackPages : content'[to[page]] = content[from[page]]
        /\ \A f \in Frames : (\A page \in KStackPages : to[page] # f) => content'[f] = content[f]
    BY <1>1, <2>2, StackCopied
  <2>4. procs'[task.pid].pages = to /\ procs'[active].pages = from
    BY <1>1, <2>2, <2>3, FinishForkKeeps
  <2>5. /\ \A page \in DOMAIN to : to[page] \in Frames /\ from[page] \in Frames
        /\ \A page, q \in DOMAIN to : to[page] = to[q] => page = q
        /\ \A page, q \in DOMAIN to : to[page] # from[q]
    BY <1>1, <2>3, FrameFacts
  <2>6. \A page \in DOMAIN to : page \notin KStackPages => content[to[page]] = content[from[page]]
    BY <1>1, <2>3 DEF IInv, CopyOK, Target
  <2>7. View(child)' = [page \in DOMAIN procs'[child].pages |-> content'[procs'[child].pages[page]]]
    BY DEF View
  <2>8. View(active)' = [page \in DOMAIN procs'[active].pages |-> content'[procs'[active].pages[page]]]
    BY <2>3 DEF View
  <2> HIDE DEF to, from
  <2>9. \A page \in DOMAIN to : content'[to[page]] = content'[from[page]]
    BY <2>3, <2>5, <2>6
  <2> QED
    BY <2>3, <2>4, <2>7, <2>8, <2>9
<1> QED
  BY <1>1, Inductive, PTL DEF Spec, ForkCopies
=============================================================================
