------------------------------ MODULE Keyboard ------------------------------
(***************************************************************************)
(* Reading the keyboard: dev_read (fs/dev.c) puts a buffer descriptor on   *)
(* the kernel stack of the reading process, registers it with keyboard.c   *)
(* and spins until the interrupt handler has filled it.                    *)
(*                                                                         *)
(* The read system call runs with interrupts enabled, so a key or the      *)
(* timer may come between any two of its instructions (Interrupts says     *)
(* when); the handler itself is one step.  execve reads its file the same  *)
(* way, with interrupts disabled.  A system call always starts at the top  *)
(* of the kernel stack, which is at the same address in every process: all *)
(* descriptors have the same address, and the handler writes through it in *)
(* the address space of the process it happens to interrupt.               *)
(***************************************************************************)
EXTENDS Interrupts

CONSTANTS
  Readers,     \* the processes that read the keyboard
  MaxBuffers   \* KEYBOARD_EVENT_BUFFERS_MAX

Procs == 1..MaxPid

ASSUME KeyboardAssumption ==
  /\ Readers \subseteq Procs
  /\ MaxBuffers \in Nat \ {0}

VARIABLES
  num,      \* keyboard_event_buffers_num
  stored,   \* the entries of keyboard_event_buffers that are not 0
  shift,    \* shift_enabled
  pc,       \* where each process is in dev_read, if it is there
  index,    \* the entry that register has taken for the process
  kerb      \* the descriptor on the kernel stack of each process

readVars == <<pc, index, kerb>>
keyboardVars == <<num, stored, shift, readVars>>
vars == <<interruptVars, keyboardVars>>

-----------------------------------------------------------------------------
\* A key of each kind: a letter, the dash, shift (KEY_CODE_CTRL is the same
\* number), and a scan code that the table does not know.
Codes == {"A", "-", "shift", "unknown"}
Characters == {"a", "A", "-", "_"}

IsCharacter(code) == code \in {"A", "-"}

\* Mutant: 32 is added to every character.
get_key_character_always(code) == IF code = "A" THEN "a" ELSE "none"

get_key_character(code) ==
  CASE code = "A" /\ ~shift -> "a"
    [] code = "-" /\ shift  -> "_"
    [] OTHER                -> code

NoKey == [received |-> FALSE, filled |-> 0, char |-> "none"]

InRead(p) == pc[p] # "out"

ReadInit ==
  /\ Init
  /\ num = 0
  /\ stored = {}
  /\ shift = FALSE
  /\ pc = [p \in Procs |-> "out"]
  /\ index = [p \in Procs |-> 0]
  /\ kerb = [p \in Procs |-> NoKey]

\* The next instruction of dev_read in process p.
Reads(p, where) == At(p, "call") /\ pc[p] = where
Goto(p, where) == pc' = [pc EXCEPT ![p] = where]

-----------------------------------------------------------------------------
\* dev_read, from the read system call, with register's own resetting of the
\* descriptor.
dev_read(p) ==
  /\ p \in Readers
  /\ Reads(p, "out")
  /\ kerb' = [kerb EXCEPT ![p] = NoKey]
  /\ Goto(p, "entered")
  /\ UNCHANGED <<interruptVars, num, stored, shift, index>>

\* buffers[num++] = kerb: num is read,
TakeIndex(p) ==
  /\ Reads(p, "entered")
  /\ index' = [index EXCEPT ![p] = num]
  /\ Goto(p, "taken")
  /\ UNCHANGED <<interruptVars, num, stored, shift, kerb>>

\* then written back (the code does not compare it with MaxBuffers: that is
\* the model's bound, out of the reach of a single reader),
CountBuffer(p) ==
  /\ Reads(p, "taken")
  /\ index[p] < MaxBuffers
  /\ num' = index[p] + 1
  /\ Goto(p, "counted")
  /\ UNCHANGED <<interruptVars, stored, shift, index, kerb>>

\* Mutant: the descriptor is reset after it is registered.
StoreBuffer_ThenReset(p) ==
  /\ Reads(p, "counted")
  /\ stored' = stored \cup {index[p]}
  /\ kerb' = [kerb EXCEPT ![p] = NoKey]
  /\ Goto(p, "spin")
  /\ UNCHANGED <<interruptVars, num, shift, index>>

\* and the entry is stored last.
StoreBuffer(p) ==
  /\ Reads(p, "counted")
  /\ stored' = stored \cup {index[p]}
  /\ Goto(p, "spin")
  /\ UNCHANGED <<interruptVars, num, shift, index, kerb>>

\* dev_read from execve, whose file is the keyboard.  Interrupts are disabled,
\* so nothing comes between its instructions, and no key ever ends the loop:
\* the kernel spins, and no process runs again.
ExecveReads(p) ==
  /\ At(p, "critical") /\ ~InRead(p) /\ num < MaxBuffers
  /\ kerb' = [kerb EXCEPT ![p] = NoKey]
  /\ index' = [index EXCEPT ![p] = num]
  /\ num' = num + 1
  /\ stored' = stored \cup {num}
  /\ Goto(p, "spin")
  /\ stopped' = "spins"
  /\ UNCHANGED <<picVars, boot, handlers, tick, enabled, ring, stack, late, pids, shift>>

\* The loop ends: the read returns, and its frame is gone.
ReadDone(p) ==
  /\ Reads(p, "spin") /\ kerb[p].received
  /\ Goto(p, "out")
  /\ index' = [index EXCEPT ![p] = 0]
  /\ kerb' = [kerb EXCEPT ![p] = NoKey]
  /\ CallReturns(p)
  /\ UNCHANGED <<num, stored, shift>>

\* Mutant: the buffers stay registered.
Deliver_Kept(char) ==
  /\ IF num = 0 \/ (0..num - 1 \subseteq stored /\ Booted /\ InRead(Active))
     THEN /\ kerb' = IF num = 0 THEN kerb ELSE [kerb EXCEPT ![Active] =
                       [received |-> TRUE, filled |-> 1, char |-> char]]
          /\ UNCHANGED stopped
     ELSE stopped' = "wild write" /\ UNCHANGED kerb
  /\ UNCHANGED num

\* The loop over the registered buffers.  All of them are the same address:
\* the descriptor of the active process, if that is in dev_read and the
\* entries are there; otherwise whatever is at that address is taken for one.
Deliver(char) ==
  /\ IF num = 0 \/ (0..num - 1 \subseteq stored /\ Booted /\ InRead(Active))
     THEN /\ kerb' = IF num = 0 THEN kerb ELSE [kerb EXCEPT ![Active] =
                       [received |-> TRUE, filled |-> 1, char |-> char]]
          /\ UNCHANGED stopped
     ELSE stopped' = "wild write" /\ UNCHANGED kerb
  /\ num' = 0

\* IRQ1: keyboard_interrupt_handler, if it is registered already.
KeyboardIrq ==
  /\ Running /\ Serve(KeyboardLine) /\ Vector(KeyboardLine) \in handlers
  /\ UNCHANGED <<enabled, ring, stack, late, pids, boot, handlers, tick>>

\* A key has gone down,
KeyPress(code) ==
  /\ KeyboardIrq
  /\ IF IsCharacter(code)
     THEN Deliver(get_key_character(code)) ELSE UNCHANGED <<num, kerb, stopped>>
  /\ shift' = (shift \/ code = "shift")
  /\ UNCHANGED <<stored, pc, index>>

\* or up.
KeyRelease(code) ==
  /\ KeyboardIrq
  /\ shift' = (shift /\ code # "shift")
  /\ UNCHANGED <<stopped, num, stored, readVars>>

Key(code) == KeyPress(code) \/ KeyRelease(code)

\* An interrupt that nothing handles, or not yet.
Unhandled(n) ==
  /\ Vector(n) \notin handlers
  /\ OtherIrq(n)
  /\ UNCHANGED keyboardVars

Switch == TimerIrq /\ UNCHANGED keyboardVars

Request(n) == Raise(n) /\ UNCHANGED keyboardVars

Start == (\E call \in Range(boot) : Main(call)) /\ UNCHANGED keyboardVars

\* Everything else the kernel does for process p.
Step(p) ==
  \/ TakeIndex(p) \/ CountBuffer(p) \/ StoreBuffer(p) \/ ReadDone(p)
  \/ ExecveReads(p)
  \/ KernelStep(p) /\ ~InRead(p) /\ UNCHANGED keyboardVars

\* Process p goes on where it was interrupted.
GoesOn(p) == Resume(p) /\ UNCHANGED keyboardVars

\* What user code makes it do.
Enter(p) == UserStep(p) /\ UNCHANGED keyboardVars

Next ==
  \/ Start
  \/ \E p \in Procs : Enter(p) \/ dev_read(p) \/ Step(p) \/ GoesOn(p)
  \/ \E n \in Lines : Request(n) \/ Unhandled(n)
  \/ Switch
  \/ \E code \in Codes : Key(code)

Spec == ReadInit /\ [][Next]_vars

\* The CPU takes the interrupts it can take and executes instructions between
\* them; the timer ticks; the user goes on typing characters.
FairSpec ==
  /\ Spec
  /\ WF_vars(Start)
  /\ \A p \in Procs : SF_vars(Step(p)) /\ SF_vars(GoesOn(p))
  /\ WF_vars(Switch) /\ WF_vars(\E n \in Lines : Unhandled(n))
  /\ \A n \in {Timer, KeyboardLine} : SF_vars(Request(n))
  /\ SF_vars(\E code \in Codes : IsCharacter(code) /\ KeyPress(code))

-----------------------------------------------------------------------------
\* Every field has its type: what a reader gets is a character of a key.
TypeOK ==
  /\ InterruptsTypeOK
  /\ num \in 0..MaxBuffers
  /\ stored \subseteq 0..MaxBuffers - 1
  /\ shift \in BOOLEAN
  /\ pc \in [Procs -> {"out", "entered", "taken", "counted", "spin"}]
  /\ index \in [Procs -> 0..MaxBuffers]
  /\ kerb \in [Procs -> {NoKey} \cup
                 [received : {TRUE}, filled : {1}, char : Characters]]
  /\ stopped \in {"no", "halted", "panic", "spins", "wild write"}

\* Whenever a key comes, what is registered is a descriptor that is still on
\* the stack of a process waiting for it: none is left behind by a read that
\* has got its key and returned (dev.c:25-27), else the next key is written
\* into a stack frame that is gone.
NoStaleRegistration ==
  Running /\ num > 0 => \E p \in Readers : InRead(p) /\ ~kerb[p].received

\* A reader that spins without a key is registered, so that the next key ends
\* the loop at dev.c:25, however the keys came in between the instructions of
\* keyboard_register_event_buffer.
SpinnerRegistered ==
  \A p \in Readers : Running /\ pc[p] = "spin" /\ ~kerb[p].received
                       => num > 0 /\ 0..num - 1 \subseteq stored

\* A key that comes at the only reader is either not registered for, or it is
\* what the read returns: nothing overwrites it before the loop ends.
KeyKept ==
  [][\A p \in Readers : kerb[p].received /\ InRead(p)'
                          => kerb'[p] = kerb[p]]_vars

\* A read returns, as long as the user types and the kernel runs: the timer
\* goes on ticking, and the process in the middle of its read gets the CPU again
\* and again, from user code and from a system call that loops in a panic.  Not
\* from a kernel that has stopped: another process may panic with interrupts
\* disabled, or read the keyboard in execve (process.c:166 and 175), and a key
\* may hit the wrong process.
ReadReturns ==
  \A p \in Readers : pc[p] = "spin" ~> (pc[p] = "out" \/ ~Running)

\* The timer and the keyboard are served as long as the kernel runs (it stops as
\* said above, or when the last process exits): irq_handler tells the PICs
\* before it calls a handler that may not return for a long time, or not at all
\* in a process that has just been forked (interrupt.c:386-396), and an IRQ15,
\* which is never acknowledged, does not block them.
RequestsServed ==
  \A n \in {Timer, KeyboardLine} : n \in irr ~> (n \notin irr \/ ~Running)
=============================================================================
