----------------------------- MODULE Interrupts -----------------------------
(***************************************************************************)
(* Interrupts: the two PICs, the interrupt flag, the stubs of              *)
(* asm/interrupt.asm, the dispatch of interrupt.c, the timer's handler and *)
(* what is left of fork, execve, exit and process_switch when only the     *)
(* interrupt flag and the kernel stacks are looked at (Process has their   *)
(* memory).                                                                *)
(*                                                                         *)
(* A request that the CPU can take is taken before the next instruction.   *)
(* All gates clear the flag, so a handler that returns is one step; only   *)
(* system calls set it again (isr_common_stub_no_cli), and a process that  *)
(* gets the CPU back does (process_switch_context), in the middle of the   *)
(* handler or of the fork that it was left in.                             *)
(***************************************************************************)
EXTENDS Integers, Sequences, FiniteSets, FiniteSetsExt

CONSTANTS
  Lines,          \* bound: the lines of the PICs that devices use, of 0..15
  TicksPerSwitch, \* 100
  TailTicks,      \* how many ticks may pass before a resumed process is back
                  \* where it was interrupted (at 100Hz, one at the most)
  MaxPid          \* bound: the highest pid

Timer == 0        \* IRQ0
KeyboardLine == 1 \* IRQ1

ASSUME LinesAssumption ==
  Lines \subseteq (0..15) \ {2} /\ {Timer, KeyboardLine} \subseteq Lines
ASSUME TicksAssumption ==
  TicksPerSwitch \in Nat /\ TailTicks \in 1..(TicksPerSwitch - 1)
ASSUME MaxPidAssumption == MaxPid \in Nat \ {0}

VARIABLES
  irr,      \* the requests the PICs hold
  master,   \* the lines in service in the master PIC,
  slave,    \* and in the slave
  enabled,  \* the interrupt flag
  boot,     \* what main has still to call
  handlers, \* the vectors of interrupt_handlers that are set
  tick,     \* the timer's tick, modulo TicksPerSwitch
  late,     \* ticks since the running process got the CPU back
  ring,     \* the processes, in the order of next, the active one first
  stack,    \* pid |-> its kernel stack
  pids,     \* current_pid - 1
  stopped   \* why the kernel does not go on

picVars == <<irr, master, slave>>
cpuVars == <<enabled, ring, stack, late, pids, stopped>>
interruptVars == <<picVars, cpuVars, boot, handlers, tick>>

-----------------------------------------------------------------------------
\* The PICs.

\* The line of the master that a request comes in on.
MasterLine(n) == IF n >= 8 THEN 2 ELSE n

\* IRQ n is let through: nothing as urgent is in service, and no request is
\* more urgent.
Unmasked(n) == \A m \in master : MasterLine(n) < m
Urgent(n) == \A k \in irr : Unmasked(k) =>
                 MasterLine(n) < MasterLine(k) \/ (MasterLine(n) = MasterLine(k) /\ n <= k)
Deliverable(n) == enabled /\ n \in irr /\ Unmasked(n) /\ Urgent(n)

\* PIC_EOI ends the most urgent line in service.
Eoi(lines) == lines \ {Min(lines)}

\* The vectors of the IDT that pic_remap gives the lines, and the stub that
\* interrupt_init puts there: IRQ15 has got that of a software interrupt.
Vector(n) == 32 + n
Gate(v) ==
  CASE v \in {9, 19, 29} -> "none"
    [] v \in 32..46      -> "irq"
    [] v = 128           -> "isr_no_cli"
    [] OTHER             -> "isr"

\* Mutant: the PIC is told at the end.
Serve_EoiLast(n) ==
  LET inMaster == master \cup {MasterLine(n)}
      inSlave == IF n >= 8 THEN slave \cup {n} ELSE slave
      returns == n # Timer \/ tick < TicksPerSwitch - 1 \/ ring = <<>>
                   \/ \A p \in {ring[(1 % Len(ring)) + 1]} :
                        stack[p] = <<>> \/ stack[p][1].at # "forked"
      acknowledged == Gate(Vector(n)) = "irq" /\ returns
  IN  /\ Deliverable(n)
      /\ irr' = irr \ {n}
      /\ master' = IF acknowledged THEN Eoi(inMaster) ELSE inMaster
      /\ slave' = IF acknowledged /\ n >= 8 THEN Eoi(inSlave) ELSE inSlave

\* The CPU takes IRQ n, and irq_handler acknowledges it before it does anything
\* else, to both PICs if it comes from the slave.  isr_handler acknowledges
\* nothing.
Serve(n) ==
  LET inMaster == master \cup {MasterLine(n)}
      inSlave == IF n >= 8 THEN slave \cup {n} ELSE slave
      acknowledged == Gate(Vector(n)) = "irq"
  IN  /\ Deliverable(n)
      /\ irr' = irr \ {n}
      /\ master' = IF acknowledged THEN Eoi(inMaster) ELSE inMaster
      /\ slave' = IF acknowledged /\ n >= 8 THEN Eoi(inSlave) ELSE inSlave

-----------------------------------------------------------------------------
\* The CPU.  A kernel stack is a sequence of frames, the running one last; it
\* is empty in user mode, and every entry from there starts at its bottom
\* (esp0 of the TSS).  A frame has the flag that iret will restore.
Frame(at, flag) == [at |-> at, flag |-> flag]

Running == stopped = "no"
Active == IF ring = <<>> THEN 0 ELSE ring[1]
Booted == Active # 0
Depth(p) == Len(stack[p])
Top(p) == IF stack[p] = <<>> THEN "user" ELSE stack[p][Depth(p)].at

\* The active process is about to execute an instruction of that part of the
\* kernel, and no interrupt comes before it.
At(p, where) ==
  /\ Running /\ Active = p /\ p # 0
  /\ \A n \in irr : ~Deliverable(n)
  /\ Top(p) = where

\* It has got the CPU back and is on its way to where it was interrupted.
Returning == Booted /\ Top(Active) \in {"switch", "forked"}

Push(p, frame) == stack' = [stack EXCEPT ![p] = Append(@, frame)]
Rewrite(p, at) == stack' = [stack EXCEPT ![p][Depth(p)].at = at]

\* iret: back to what was interrupted, with the flag as it was then.
Iret(p) ==
  /\ enabled' = stack[p][Depth(p)].flag
  /\ stack' = [stack EXCEPT ![p] = SubSeq(@, 1, Depth(p) - 1)]
  /\ late' = IF Depth(p) > 1 /\ stack[p][Depth(p) - 1].at \in {"switch", "forked"}
             THEN late ELSE 0

\* process_switch_context: sti, and on at the eip that the process was left at.
SwitchContext(processes) ==
  /\ ring' = processes
  /\ enabled' = TRUE
  /\ late' = 0

\* process_switch, called by the timer's handler with the flag cleared: the
\* handler stays unfinished on the stack of the process that loses the CPU,
\* which may be the only one there is.
process_switch ==
  IF ~Booted
  THEN UNCHANGED <<enabled, ring, stack, late>>
  ELSE /\ Push(Active, Frame("switch", enabled))
       /\ SwitchContext(Append(Tail(ring), Active))

-----------------------------------------------------------------------------
Init ==
  /\ irr = {} /\ master = {} /\ slave = {}
  /\ enabled = FALSE
  /\ boot = <<"interrupt_init", "keyboard_init", "syscall_init", "process_init">>
  /\ handlers = {Vector(Timer), 14}
  /\ tick = 0 /\ late = 0
  /\ ring = <<>>
  /\ stack = [p \in 1..MaxPid |-> <<>>]
  /\ pids = 0
  /\ stopped = "no"

\* main, from interrupt_init on: pic_remap forgets what was requested before,
\* and process_init clears the flag before it makes the first process.
Main(call) ==
  /\ Running /\ boot # <<>> /\ call = Head(boot)
  /\ \A n \in irr : ~Deliverable(n)
  /\ boot' = Tail(boot)
  /\ handlers' = handlers \cup
       (CASE call = "interrupt_init" -> {}
          [] call = "keyboard_init"  -> {Vector(KeyboardLine)}
          [] call = "syscall_init"   -> {128}
          [] call = "process_init"   -> {13})
  /\ irr' = IF call = "interrupt_init" THEN {} ELSE irr
  /\ enabled' = (call # "process_init")
  /\ IF call = "process_init"
     THEN /\ ring' = <<1>> /\ pids' = 1
          /\ Push(1, Frame("init", FALSE))
     ELSE UNCHANGED <<ring, stack, pids>>
  /\ UNCHANGED <<master, slave, tick, late, stopped>>

\* A device asks for an interrupt; a request that is already held is lost.  Of
\* two requests that the CPU can take before the same instruction, the model
\* lets the second come when the first is served: served they are one by one.
Raise(n) ==
  /\ Running /\ n \notin irr
  /\ \A k \in irr : ~Deliverable(k)
  /\ n = Timer /\ Returning => late < TailTicks
  /\ irr' = irr \cup {n}
  /\ UNCHANGED <<master, slave, cpuVars, boot, handlers, tick>>

\* Mutant: every tick switches.
TurnEnds_Always == TRUE

\* tick % 100 == 0, after tick++.
TurnEnds == tick + 1 = TicksPerSwitch

\* IRQ0: timer_interrupt_handler.
TimerIrq ==
  /\ Running /\ Serve(Timer)
  /\ tick' = (tick + 1) % TicksPerSwitch
  /\ IF TurnEnds
     THEN process_switch
     ELSE /\ late' = IF Returning THEN late + 1 ELSE late
          /\ UNCHANGED <<enabled, ring, stack>>
  /\ UNCHANGED <<boot, handlers, pids, stopped>>

\* A handler that returns, or none: all that is left of it here is what the
\* PICs know.
OtherIrq(n) ==
  /\ Running /\ Serve(n)
  /\ UNCHANGED <<cpuVars, boot, handlers, tick>>

\* int 128 in user mode: syscall_handler is entered with the flag set.
SystemCall(p) ==
  /\ At(p, "user") /\ 128 \in handlers
  /\ Push(p, Frame("call", enabled))
  /\ enabled' = (Gate(128) = "isr_no_cli")
  /\ UNCHANGED <<picVars, boot, handlers, tick, late, ring, pids, stopped>>

\* A system call that does not disable interrupts is over.
CallReturns(p) ==
  /\ At(p, "call")
  /\ Iret(p)
  /\ UNCHANGED <<picVars, boot, handlers, tick, ring, pids, stopped>>

\* A system call that fails an assertion, or finds no memory, before it has
\* disabled interrupts: it loops for ever, and is preempted like user code.
CallPanics(p) ==
  /\ At(p, "call")
  /\ Rewrite(p, "panic")
  /\ UNCHANGED <<picVars, enabled, boot, handlers, tick, late, ring, pids, stopped>>

\* Mutant: interrupt_disable is forgotten.
Disable_Forgotten(p) ==
  /\ At(p, "call")
  /\ Rewrite(p, "critical")
  /\ UNCHANGED <<enabled, picVars, boot, handlers, tick, late, ring, pids, stopped>>

\* fork, execve and exit start with interrupt_disable.
Disable(p) ==
  /\ At(p, "call")
  /\ enabled' = FALSE
  /\ Rewrite(p, "critical")
  /\ UNCHANGED <<picVars, boot, handlers, tick, late, ring, pids, stopped>>

\* A general protection fault in user mode: its gate clears the flag, and the
\* handler goes to process_exit.
Fault(p) ==
  /\ At(p, "user") /\ 13 \in handlers
  /\ enabled' = FALSE
  /\ Push(p, Frame("exit", enabled))
  /\ UNCHANGED <<picVars, boot, handlers, tick, late, ring, pids, stopped>>

\* A page fault in user mode: its gate clears the flag, and the handler loops.
PageFault(p) ==
  /\ At(p, "user") /\ 14 \in handlers
  /\ enabled' = FALSE
  /\ stopped' = "panic"
  /\ UNCHANGED <<picVars, boot, handlers, tick, late, ring, stack, pids>>

\* The kernel panics with interrupts disabled, and loops: the bitmap is full or
\* the file is no program (RejectImage in Process), in fork, execve or
\* process_init; or any call gets an address that is not mapped, and the gate
\* of the page fault clears the flag.
Panics(p) ==
  /\ At(p, "call") \/ At(p, "critical") \/ At(p, "init")
  /\ enabled' = FALSE
  /\ stopped' = "panic"
  /\ UNCHANGED <<picVars, boot, handlers, tick, late, ring, stack, pids>>

\* process_fork: the child, last in the round, has a copy of the stack, and
\* will go on in process_fork; the parent returns.
Fork(p) ==
  /\ At(p, "critical") /\ pids < MaxPid
  /\ ring' = Append(ring, pids + 1)
  /\ pids' = pids + 1
  /\ enabled' = stack[p][Depth(p)].flag
  /\ stack' = [stack EXCEPT ![p] = SubSeq(@, 1, Depth(p) - 1),
                            ![pids + 1] = [stack[p] EXCEPT ![Depth(p)].at = "forked"]]
  /\ late' = 0
  /\ UNCHANGED <<picVars, boot, handlers, tick, stopped>>

\* execve and process_init end, when the program is loaded (Panics and, in
\* Keyboard, ExecveReads are what else may become of it), in
\* process_switch_to_user_mode_set_stack_and_jmp_addr, which sets the flag in
\* what it gives to iret.
ToUserMode(p) ==
  /\ At(p, "critical") \/ At(p, "init")
  /\ enabled' = TRUE
  /\ stack' = [stack EXCEPT ![p] = <<>>]
  /\ UNCHANGED <<picVars, boot, handlers, tick, late, ring, pids, stopped>>

\* execve does not find the file: the one failure it returns from.
ExecveFails(p) ==
  /\ At(p, "critical")
  /\ Iret(p)
  /\ UNCHANGED <<picVars, boot, handlers, tick, ring, pids, stopped>>

\* process_exit: the CPU goes to the next process, or stops for good.
Exit(p) ==
  /\ At(p, "critical") \/ At(p, "exit")
  /\ stack' = [stack EXCEPT ![p] = <<>>]
  /\ IF Len(ring) = 1
     THEN /\ ring' = <<>> /\ stopped' = "halted"
          /\ UNCHANGED <<enabled, late>>
     ELSE SwitchContext(Tail(ring)) /\ UNCHANGED stopped
  /\ UNCHANGED <<picVars, boot, handlers, tick, pids>>

\* The rest of the timer's handler, or of the fork, in the process that has got
\* the CPU.
Resume(p) ==
  /\ At(p, "switch") \/ At(p, "forked")
  /\ Iret(p)
  /\ UNCHANGED <<picVars, boot, handlers, tick, ring, pids, stopped>>

KernelStep(p) ==
  CallReturns(p) \/ CallPanics(p) \/ Disable(p) \/ Fork(p) \/ ToUserMode(p)
    \/ ExecveFails(p) \/ Exit(p) \/ Panics(p)
UserStep(p) == SystemCall(p) \/ Fault(p) \/ PageFault(p)

-----------------------------------------------------------------------------
\* Properties.

\* Every field has its type.
InterruptsTypeOK ==
  /\ irr \subseteq Lines
  /\ master \subseteq 0..7 /\ slave \subseteq 8..15
  /\ enabled \in BOOLEAN
  /\ tick \in 0..(TicksPerSwitch - 1) /\ late \in 0..TailTicks
  /\ \A p \in 1..MaxPid : \A i \in 1..Depth(p) :
       stack[p][i] \in [at : {"call", "panic", "critical", "init", "exit", "switch", "forked"},
                       flag : BOOLEAN]
  /\ pids \in 0..MaxPid
  /\ Range(ring) \subseteq 1..pids

Critical(p) == Top(p) \in {"critical", "init", "exit"}

\* Once there are processes, interrupts are disabled exactly while the active
\* one is in fork, execve, exit or process_init, and no other is: the CPU is
\* never handed over in the middle of these (process.c:51, 108, 165, 196), and
\* never left to user code that nothing can interrupt (asm/process.asm:84-86).
CriticalAlone ==
  Running /\ Booted =>
    /\ enabled <=> ~Critical(Active)
    /\ \A p \in Range(ring) : Critical(p) => p = Active

\* An interrupted process is resumed and interrupted again before it is back,
\* and its kernel stack gets deeper, only when it got the CPU from an exit just
\* before the end of a turn: never more often than processes have exited.
StackBounded ==
  \A p \in Range(ring) : Depth(p) <= 2 + (pids - Len(ring))
=============================================================================
