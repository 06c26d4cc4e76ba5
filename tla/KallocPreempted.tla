-------------------------- MODULE KallocPreempted ---------------------------
(***************************************************************************)
(* The kernel heap under open, the one system call that allocates with     *)
(* interrupts enabled: process_add_fd_to_active_process puts the new       *)
(* descriptor into a hash map, which allocates when it has to grow.        *)
(*                                                                         *)
(* The timer may take the CPU away when kalloc_heap_alloc has its answer   *)
(* from the tree and has not used it yet.  Everything else that allocates  *)
(* or frees (fork, execve, exit) runs with interrupts disabled: its calls  *)
(* are those of KallocHeap, one after the other.  Of the places where the  *)
(* process in open may stop, the model has the one between the search and  *)
(* the assertion that follows it.                                          *)
(***************************************************************************)
EXTENDS KallocHeap

VARIABLE
  found   \* what the process in open has got from the search, and its request

openVars == <<vars, found>>

Nothing == [hole |-> NoHole, size |-> 0]
Found(hole, size) == [hole |-> hole, size |-> size]

OpenInit == Init /\ found = Nothing

\* The hash map grows: kalloc_avl_find_hole has found a hole when the process
\* loses the CPU.
Search(size) ==
  /\ Running("none")
  /\ found = Nothing
  /\ \E hole \in FindHoleAnswers(heap.avl, size, 0) \ {NoHole} :
       found' = Found(hole, size)
  /\ UNCHANGED vars

\* It gets it back, between the calls of the others, and goes on with the hole
\* it was given.  What it would read where there is no header any more is not
\* followed.
GoOn ==
  /\ Running("none")
  /\ found # Nothing
  /\ found.hole.addr - HeaderSize \in Headers(heap)
  /\ heap' = PlaceAt(heap, found.hole, found.size, 0)
  /\ live' = Write(live, found.hole.addr, Held(found.size, 0))
  /\ found' = Nothing
  /\ UNCHANGED call

OpenNext ==
  \/ Next /\ UNCHANGED found
  \/ \E size \in Sizes : Search(size)
  \/ GoOn

OpenSpec == OpenInit /\ [][OpenNext]_openVars

-----------------------------------------------------------------------------
\* The hole that open has found is still a hole when open uses it: "found hole
\* in inconsistent state" (kalloc_heap.c:70-71) is never said.
FoundHoleUnused == "hole is used" \notin heap.faults
=============================================================================
