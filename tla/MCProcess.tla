----------------------------- MODULE MCProcess -----------------------------
(***************************************************************************)
(* Process with page tables of 20 pages.  Table 0 is the kernel's: code in *)
(* page 0, page tables in pages 1 to 4, heap from page 5.  Table 1 is the  *)
(* kernel's too and is made when the heap gets there; tables 2 and 3 are   *)
(* the process's: program from page 40, stack in page 59, kernel stack in  *)
(* table 3.                                                                *)
(***************************************************************************)
EXTENDS Process

\* 27 frames of memory, four of them in use at boot; frame 2 lies in the hole
\* below 1MB and the last frame is the one the boot stack occupies.
SomeFrames == 0..59
NoMemory == {2} \cup 27..58

\* A program with its stack.
OneProgram == {{40, 41, 59}}
=============================================================================
