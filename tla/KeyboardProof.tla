---------------------------- MODULE KeyboardProof ----------------------------
(***************************************************************************)
(* Proofs about Interrupts and Keyboard.  For every number of processes,   *)
(* every set of lines and every length of a turn: interrupts are disabled  *)
(* exactly in the critical sections, and kernel stacks are bounded.  For   *)
(* any other processes around it, a single reader gets the key that comes  *)
(* while it is registered.                                                 *)
(***************************************************************************)
EXTENDS Keyboard, SequenceTheorems, TLAPS

-----------------------------------------------------------------------------
(***************************************************************************)
(* The inductive invariant of Interrupts.                                  *)
(***************************************************************************)

CriticalPlaces == {"critical", "init", "exit"}
ReturnPlaces == {"switch", "forked"}
Places == CriticalPlaces \cup ReturnPlaces \cup {"call", "panic"}
StackFrames == [at : Places, flag : BOOLEAN]
Boots == {<<"interrupt_init", "keyboard_init", "syscall_init", "process_init">>,
          <<"keyboard_init", "syscall_init", "process_init">>,
          <<"syscall_init", "process_init">>, <<"process_init">>, <<>>}

Stops == {"no", "halted", "panic", "spins", "wild write"}

CpuTypes ==
  /\ irr \subseteq Lines /\ master \subseteq 0..7 /\ slave \subseteq 8..15
  /\ enabled \in BOOLEAN /\ boot \in Boots
  /\ tick \in 0..(TicksPerSwitch - 1) /\ late \in 0..TailTicks
  /\ stack \in [Procs -> Seq(StackFrames)]
  /\ pids \in 0..MaxPid
  /\ ring \in Seq(1..pids)
  /\ stopped \in Stops

\* Before process_init there are no processes.
BootOK ==
  boot # <<>> => ring = <<>> /\ pids = 0 /\ \A p \in Procs : stack[p] = <<>>

\* What interrupted what: only the timer interrupts the kernel, and it finds
\* the flag set, so never in a critical section.
ShapeOK ==
  \A p \in Procs : \A i \in 1..Len(stack[p]) :
    /\ i > 1 => stack[p][i].at = "switch"
    /\ stack[p][i].at # "init" => stack[p][i].flag = TRUE
    /\ i < Len(stack[p]) => stack[p][i].at \notin CriticalPlaces

\* The flag and the critical sections.
FlagOK ==
  Running /\ ring # <<>> =>
    /\ enabled <=> Top(ring[1]) \notin CriticalPlaces
    /\ \A i \in 1..Len(ring) : Top(ring[i]) \in CriticalPlaces => ring[i] = ring[1]

\* Processes that have exited.
Exited == pids - Len(ring)

DepthOK ==
  /\ Len(ring) <= pids
  /\ \A i \in 1..Len(ring) : Len(stack[ring[i]]) <= 2 + Exited

\* The active process is on its way back: the turn began when it got the CPU,
\* or it got it from an exit, and is not as deep as it may get.
TurnOK ==
  ring # <<>> /\ Top(ring[1]) \in ReturnPlaces =>
    /\ Timer \in irr => late < TailTicks
    /\ Len(stack[ring[1]]) <= 1 + Exited \/ tick = late

CpuInv == CpuTypes /\ BootOK /\ ShapeOK /\ FlagOK /\ DepthOK /\ TurnOK

-----------------------------------------------------------------------------
(***************************************************************************)
(* The inductive invariant of Keyboard.                                    *)
(***************************************************************************)

Keys == {NoKey} \cup [received : {TRUE}, filled : {1}, char : Characters]

ReadTypes ==
  /\ num \in 0..MaxBuffers
  /\ stored \subseteq 0..MaxBuffers - 1
  /\ shift \in BOOLEAN
  /\ pc \in [Procs -> {"out", "entered", "taken", "counted", "spin"}]
  /\ index \in [Procs -> 0..MaxBuffers]
  /\ kerb \in [Procs -> Keys]
  /\ \A p \in Procs : pc[p] = "counted" => index[p] < MaxBuffers
  /\ Running => \A p \in Procs : pc[p] # "out" => p \in Readers

\* Process p is the only reader: it is registered from the moment num counts
\* its buffer until a key has come, with the first entry.
ReaderOK(p) ==
  /\ pc[p] \in {"out", "entered", "taken"} => num = 0 /\ kerb[p] = NoKey
  /\ pc[p] \in {"taken", "counted", "spin"} => index[p] = 0
  /\ pc[p] = "spin" => 0 \in stored
  /\ pc[p] \in {"counted", "spin"} =>
       \/ num = 0 /\ kerb[p].received
       \/ num = 1 /\ ~kerb[p].received

\* No two processes read.
OneReader == \A p, q \in Readers : p = q

ReadOK ==
  Running => /\ \A p \in Readers : ReaderOK(p)
             /\ Readers = {} => num = 0

-----------------------------------------------------------------------------
(***************************************************************************)
(* Sequences: stacks and the ring.                                         *)
(***************************************************************************)

\* The place of the frame on top of a stack.
TopOf(s) == IF s = <<>> THEN "user" ELSE s[Len(s)].at

\* A frame is pushed.
LEMMA PushFacts ==
  ASSUME NEW F, NEW s \in Seq(F), NEW f \in F, NEW t, t = Append(s, f)
  PROVE  /\ t \in Seq(F) /\ Len(t) = Len(s) + 1 /\ t[Len(s) + 1] = f /\ t # <<>>
         /\ \A i \in 1..Len(s) : t[i] = s[i]
OBVIOUS

Popped(s) == SubSeq(s, 1, Len(s) - 1)

\* A frame is popped.
LEMMA PopFacts ==
  ASSUME NEW s \in Seq(StackFrames), s # <<>>, NEW t, t = Popped(s)
  PROVE  /\ t \in Seq(StackFrames) /\ Len(t) = Len(s) - 1 /\ (t = <<>> <=> Len(s) = 1)
         /\ \A i \in 1..Len(s) - 1 : t[i] = s[i]
<1>1. Len(s) \in Nat /\ Len(s) > 0 /\ \A i \in 1..Len(s) : s[i] \in StackFrames
  OBVIOUS
<1> DEFINE n == Len(s) - 1
<1>2. n \in Int /\ 0 <= n /\ \A i \in 1..n : s[i] \in StackFrames
  BY <1>1
<1>3. t = SubSeq(s, 1, n)
  BY DEF Popped
<1> HIDE DEF n
<1>4. /\ t \in Seq(StackFrames) /\ Len(t) = IF 1 <= n THEN n - 1 + 1 ELSE 0
      /\ \A i \in 1..n - 1 + 1 : t[i] = s[1 + i - 1]
  BY <1>2, <1>3, SubSeqProperties
<1>5. Len(t) = n /\ \A i \in 1..n : t[i] = s[i]
  BY <1>2, <1>4
<1>6. t = <<>> <=> Len(t) = 0
  BY <1>4, EmptySeq
<1> QED
  BY <1>1, <1>4, <1>5, <1>6 DEF n

\* The frame on top is another place.
LEMMA RewriteFacts ==
  ASSUME NEW s \in Seq(StackFrames), s # <<>>, NEW place \in Places,
         NEW t, t = [s EXCEPT ![Len(s)].at = place]
  PROVE  /\ t \in Seq(StackFrames) /\ Len(t) = Len(s) /\ t # <<>>
         /\ t[Len(s)].at = place /\ t[Len(s)].flag = s[Len(s)].flag
         /\ \A i \in 1..Len(s) : i # Len(s) => t[i] = s[i]
<1>1. Len(s) \in Nat /\ Len(s) > 0 /\ \A i \in 1..Len(s) : s[i] \in StackFrames
  OBVIOUS
<1>2. DOMAIN s = 1..Len(s) /\ Len(s) \in 1..Len(s)
  BY <1>1
<1>3. [s[Len(s)] EXCEPT !.at = place] \in StackFrames
  BY <1>1, <1>2 DEF StackFrames
<1>4. \A i \in 1..Len(s) : t[i] = IF i = Len(s) THEN [s[Len(s)] EXCEPT !.at = place] ELSE s[i]
  BY <1>2
<1>5. t \in Seq(StackFrames) /\ Len(t) = Len(s)
  BY <1>1, <1>2, <1>3, <1>4
<1>6. t[Len(s)].at = place /\ t[Len(s)].flag = s[Len(s)].flag
  BY <1>1, <1>2, <1>4 DEF StackFrames
<1> QED
  BY <1>1, <1>4, <1>5, <1>6

Rotated(s) == Append(Tail(s), s[1])

\* The first process goes to the end of the round.
LEMMA RotateFacts ==
  ASSUME NEW F, NEW s \in Seq(F), s # <<>>, NEW t, t = Rotated(s)
  PROVE  /\ t \in Seq(F) /\ Len(t) = Len(s) /\ t # <<>>
         /\ \A i \in 1..Len(s) : \E j \in 1..Len(s) : t[i] = s[j]
<1>1. Len(s) \in Nat /\ Len(s) > 0 /\ \A i \in 1..Len(s) : s[i] \in F
  OBVIOUS
<1>2. Tail(s) \in Seq(F) /\ Len(Tail(s)) = Len(s) - 1 /\ \A i \in 1..Len(s) - 1 : Tail(s)[i] = s[i + 1]
  BY <1>1
<1>3. s[1] \in F
  BY <1>1
<1> DEFINE r == Tail(s)
<1>4. r \in Seq(F) /\ Len(r) = Len(s) - 1 /\ t = Append(r, s[1]) /\ \A i \in 1..Len(s) - 1 : r[i] = s[i + 1]
  BY <1>2 DEF Rotated
<1> HIDE DEF r
<1>5. /\ t \in Seq(F) /\ Len(t) = Len(r) + 1 /\ t[Len(r) + 1] = s[1] /\ t # <<>>
      /\ \A i \in 1..Len(r) : t[i] = r[i]
  BY <1>3, <1>4, PushFacts
<1>6. ASSUME NEW i \in 1..Len(s) PROVE \E j \in 1..Len(s) : t[i] = s[j]
  <2>1. CASE i = Len(s)
    BY <1>1, <1>4, <1>5, <2>1
  <2>2. CASE i # Len(s)
    <3>1. i \in 1..Len(s) - 1 /\ i + 1 \in 1..Len(s)
      BY <1>1, <2>2
    <3>2. t[i] = s[i + 1]
      BY <1>4, <1>5, <3>1
    <3> QED
      BY <3>1, <3>2
  <2> QED
    BY <2>1, <2>2
<1>7. Len(t) = Len(s)
  BY <1>1, <1>4, <1>5
<1> QED
  BY <1>5, <1>6, <1>7

\* The first process leaves the ring.
LEMMA TailFacts ==
  ASSUME NEW F, NEW s \in Seq(F), s # <<>>, NEW t, t = Tail(s)
  PROVE  /\ t \in Seq(F) /\ Len(t) = Len(s) - 1 /\ (t = <<>> <=> Len(s) = 1)
         /\ \A i \in 1..Len(t) : i + 1 \in 1..Len(s) /\ t[i] = s[i + 1]
<1>1. Len(s) \in Nat /\ Len(s) > 0 /\ \A i \in 1..Len(s) : s[i] \in F
  OBVIOUS
<1>2. t \in Seq(F) /\ Len(t) = Len(s) - 1 /\ \A i \in 1..Len(s) - 1 : t[i] = s[i + 1]
  BY <1>1
<1>3. t = <<>> <=> Len(t) = 0
  BY <1>2, EmptySeq
<1> QED
  BY <1>1, <1>2, <1>3

-----------------------------------------------------------------------------
(***************************************************************************)
(* The steps of Interrupts keep CpuInv.                                    *)
(***************************************************************************)

\* ShapeOK for one stack.
Shape(t) ==
  \A i \in 1..Len(t) :
    /\ i > 1 => t[i].at = "switch"
    /\ t[i].at # "init" => t[i].flag = TRUE
    /\ i < Len(t) => t[i].at \notin CriticalPlaces

\* The processes of the ring.
LEMMA RingFacts ==
  ASSUME CpuTypes
  PROVE  /\ pids \in Nat /\ pids <= MaxPid /\ Len(ring) \in Nat
         /\ ring # <<>> => 1 \in 1..Len(ring)
         /\ \A i \in 1..Len(ring) : ring[i] \in 1..pids /\ ring[i] \in Procs
<1>1. pids \in 0..MaxPid /\ ring \in Seq(1..pids)
  BY DEF CpuTypes
<1>2. pids \in Nat /\ pids <= MaxPid
  BY <1>1, MaxPidAssumption
<1>3. Len(ring) \in Nat /\ (ring # <<>> => Len(ring) \in Nat \ {0})
  BY <1>1, EmptySeq, LenProperties
<1>4. \A i \in 1..Len(ring) : ring[i] \in 1..pids
  BY <1>1, ElementOfSeq
<1>5. 1..pids \subseteq Procs
  BY <1>2, MaxPidAssumption DEF Procs
<1> QED
  BY <1>2, <1>3, <1>4, <1>5

\* The active process executes an instruction of the kernel: which frames are
\* on its stack.
LEMMA AtFacts ==
  ASSUME CpuInv, NEW p, NEW where, At(p, where)
  PROVE  /\ Running /\ ring # <<>> /\ p = ring[1] /\ boot = <<>>
         /\ p \in 1..pids /\ p \in Procs /\ stack[p] \in Seq(StackFrames) /\ Shape(stack[p])
         /\ TopOf(stack[p]) = where
         /\ enabled <=> where \notin CriticalPlaces
         /\ where # "user" => stack[p] # <<>> /\ stack[p][Len(stack[p])].at = where
         /\ where = "user" => stack[p] = <<>>
         /\ where \notin {"user", "switch"} => Len(stack[p]) = 1
<1>1. Running /\ ring # <<>> /\ p = ring[1] /\ Top(p) = where
  BY DEF At, Active
<1>2. p \in 1..pids /\ p \in Procs
  BY <1>1, RingFacts DEF CpuInv
<1>3. p \in Procs /\ stack[p] \in Seq(StackFrames)
  BY <1>2 DEF CpuInv, CpuTypes
<1>4. Shape(stack[p])
  BY <1>3 DEF CpuInv, ShapeOK, Shape
<1>5. boot = <<>>
  BY <1>1 DEF CpuInv, BootOK
<1>6. enabled <=> where \notin CriticalPlaces
  BY <1>1 DEF CpuInv, FlagOK
<1>7. stack[p] # <<>> => stack[p][Len(stack[p])].at = where
  BY <1>1 DEF Top, Depth
<1>8. \A i \in 1..Len(stack[p]) : stack[p][i] \in StackFrames
  BY <1>3
<1>9. stack[p] = <<>> => where = "user"
  BY <1>1 DEF Top
<1>10. ASSUME stack[p] # <<>>
       PROVE  Len(stack[p]) \in 1..Len(stack[p]) /\ where \in Places
  <2>1. Len(stack[p]) \in Nat \ {0}
    BY <1>3, <1>10, EmptySeq
  <2>2. stack[p][Len(stack[p])] \in StackFrames
    BY <1>8, <2>1
  <2> QED
    BY <1>7, <1>10, <2>1, <2>2 DEF StackFrames
<1>11. where = "user" => stack[p] = <<>>
  BY <1>10 DEF Places, CriticalPlaces, ReturnPlaces
<1>12. ASSUME where \notin {"user", "switch"} PROVE Len(stack[p]) = 1
  <2>1. Len(stack[p]) \in 1..Len(stack[p]) /\ stack[p][Len(stack[p])].at # "switch"
    BY <1>7, <1>9, <1>10, <1>12
  <2>2. Len(stack[p]) \in Nat
    BY <1>3
  <2> DEFINE n == Len(stack[p])
  <2>3. n \in Nat /\ n \in 1..n /\ (n > 1 => stack[p][n].at = "switch")
    BY <1>4, <2>1, <2>2 DEF Shape
  <2> HIDE DEF n
  <2>4. n = 1 \/ n > 1
    BY <2>3
  <2>5. stack[p][n].at # "switch"
    BY <2>1 DEF n
  <2>6. n = 1
    BY <2>3, <2>4, <2>5
  <2> QED
    BY <2>6 DEF n
<1>13. TopOf(stack[p]) = where
  BY <1>1 DEF Top, TopOf, Depth
<1> QED
  BY <1>1, <1>2, <1>3, <1>4, <1>5, <1>6, <1>7, <1>9, <1>11, <1>12, <1>13

\* Every step in which the active process changes its own stack and nothing
\* else of the processes: what the new stack has to be.
LEMMA ActiveStep ==
  ASSUME CpuInv, NEW p, NEW where, At(p, where),
         NEW t \in Seq(StackFrames), stack' = [stack EXCEPT ![p] = t], Shape(t),
         UNCHANGED <<irr, master, slave, boot, tick, ring, pids, stopped>>,
         enabled' \in BOOLEAN, late' \in 0..TailTicks,
         enabled' <=> TopOf(t) \notin CriticalPlaces,
         Len(t) <= 2 + Exited,
         TopOf(t) \in ReturnPlaces =>
           (Timer \in irr => late' < TailTicks) /\ (Len(t) <= 1 + Exited \/ tick' = late')
  PROVE  CpuInv'
<1> USE AtFacts
<1>1. CpuTypes'
  BY DEF CpuInv, CpuTypes
<1>2. BootOK'
  BY DEF BootOK
<1>3. stack' \in [Procs -> Seq(StackFrames)] /\ stack'[p] = t /\ \A q \in Procs : q # p => stack'[q] = stack[q]
  BY DEF CpuInv, CpuTypes
<1>4. ShapeOK'
  BY <1>3 DEF CpuInv, ShapeOK, Shape
<1>5. \A i \in 1..Len(ring) : ring[i] \in Procs
  BY RingFacts DEF CpuInv
<1>6. Top(p)' = TopOf(t) /\ \A q \in Procs : q # p => Top(q)' = Top(q)
  BY <1>3 DEF Top, TopOf, Depth
<1>7. FlagOK'
  BY <1>5, <1>6 DEF CpuInv, FlagOK, Running
<1>8. DepthOK'
  BY <1>3, <1>5 DEF CpuInv, DepthOK, Exited
<1>9. TurnOK'
  BY <1>3, <1>6 DEF TurnOK, Exited
<1> QED
  BY <1>1, <1>2, <1>4, <1>7, <1>8, <1>9 DEF CpuInv

\* How deep the active process's stack is.
LEMMA ActiveDepth ==
  ASSUME CpuInv, ring # <<>>
  PROVE  /\ Len(stack[ring[1]]) \in Nat /\ Exited \in Nat
         /\ Len(stack[ring[1]]) <= 2 + Exited
<1>1. Len(ring) <= pids /\ pids \in Nat /\ Len(ring) \in Nat /\ 1 \in 1..Len(ring) /\ ring[1] \in Procs
  BY RingFacts DEF CpuInv, DepthOK
<1>2. stack[ring[1]] \in Seq(StackFrames)
  BY <1>1 DEF CpuInv, CpuTypes
<1>3. Exited \in Nat
  BY <1>1 DEF Exited
<1> QED
  BY <1>1, <1>2, <1>3 DEF CpuInv, DepthOK

\* A new stack of one frame, or of none.
LEMMA ShortStacks ==
  /\ <<>> \in Seq(StackFrames) /\ Len(<<>>) = 0 /\ Shape(<<>>) /\ TopOf(<<>>) = "user"
  /\ \A f \in StackFrames :
       (f.at # "init" => f.flag = TRUE) =>
         LET t == Append(<<>>, f)
         IN  t \in Seq(StackFrames) /\ Len(t) = 1 /\ Shape(t) /\ TopOf(t) = f.at
<1>1. <<>> \in Seq(StackFrames) /\ Len(<<>>) = 0
  BY EmptySeq
<1>2. Shape(<<>>) /\ TopOf(<<>>) = "user"
  BY <1>1 DEF Shape, TopOf
<1>3. ASSUME NEW f \in StackFrames, f.at # "init" => f.flag = TRUE, NEW t, t = Append(<<>>, f)
      PROVE  t \in Seq(StackFrames) /\ Len(t) = 1 /\ Shape(t) /\ TopOf(t) = f.at
  <2>1. t \in Seq(StackFrames) /\ Len(t) = 1 /\ t[1] = f /\ t # <<>>
    BY <1>1, <1>3, PushFacts
  <2>2. Shape(t)
    BY <1>3, <2>1 DEF Shape
  <2>3. TopOf(t) = f.at
    BY <2>1 DEF TopOf
  <2> QED
    BY <2>1, <2>2, <2>3
<1> QED
  BY <1>1, <1>2, <1>3

\* iret, from the end of a system call, of execve, of the timer's handler or
\* of a child's fork: a frame below the top belongs to a process on its way
\* back, with a stack as deep as was allowed.
LEMMA IretKeeps ==
  ASSUME CpuInv, NEW p, NEW where \in {"call", "critical", "switch", "forked"},
         At(p, where), Iret(p),
         UNCHANGED <<irr, master, slave, boot, tick, ring, pids, stopped>>
  PROVE  CpuInv'
<1>1. /\ Running /\ ring # <<>> /\ p = ring[1] /\ p \in Procs
      /\ stack[p] \in Seq(StackFrames) /\ Shape(stack[p]) /\ stack[p] # <<>>
      /\ stack[p][Len(stack[p])].at = where
      /\ where # "switch" => Len(stack[p]) = 1
  BY AtFacts
<1> DEFINE s == stack[p]
           n == Len(s)
           t == Popped(s)
           e == Exited
<1>2. s \in Seq(StackFrames) /\ s # <<>> /\ t = Popped(s) /\ n = Len(s) /\ Shape(s)
  BY <1>1
<1>3. /\ t \in Seq(StackFrames) /\ Len(t) = Len(s) - 1 /\ (t = <<>> <=> Len(s) = 1)
      /\ \A i \in 1..Len(s) - 1 : t[i] = s[i]
  <2> HIDE DEF s, n, t
  <2> QED
    BY ONLY <1>2, PopFacts
<1>4. n \in Nat /\ e \in Nat /\ n <= 2 + e /\ n # 0
  <2>1. n \in Nat /\ e \in Nat /\ n <= 2 + e
    BY <1>1, ActiveDepth
  <2>2. Len(s) \in Nat \ {0}
    BY <1>2, EmptySeq
  <2> QED
    BY <2>1, <2>2
<1>5. /\ enabled' = s[n].flag /\ stack' = [stack EXCEPT ![p] = t]
      /\ late' = IF n > 1 /\ s[n - 1].at \in {"switch", "forked"} THEN late ELSE 0
      /\ s[n].at = where /\ (where # "switch" => n = 1)
  BY <1>1 DEF Iret, Depth, Popped
<1>6. late \in 0..TailTicks /\ tick \in 0..(TicksPerSwitch - 1)
  BY DEF CpuInv, CpuTypes
<1>7. where \in ReturnPlaces => (Timer \in irr => late < TailTicks)
  <2>1. Top(p) = where
    BY DEF At
  <2> QED
    BY <1>1, <2>1 DEF CpuInv, TurnOK
<1>8. e = Exited /\ s = stack[p]
  OBVIOUS
<1> HIDE DEF s, n, t, e
<1>9. n \in 1..Len(s) /\ Len(t) = n - 1 /\ \A i \in 1..n - 1 : t[i] = s[i]
  BY <1>2, <1>3, <1>4
<1>10. Shape(t)
  <2> SUFFICES ASSUME NEW i \in 1..Len(t)
               PROVE  /\ i > 1 => t[i].at = "switch"
                      /\ t[i].at # "init" => t[i].flag = TRUE
                      /\ i < Len(t) => t[i].at \notin CriticalPlaces
    BY DEF Shape
  <2>1. i \in 1..Len(s) /\ t[i] = s[i] /\ i < Len(s)
    BY <1>2, <1>4, <1>9
  <2> QED
    BY <1>2, <2>1 DEF Shape
<1>11. enabled' = TRUE
  BY <1>2, <1>5, <1>9 DEF Shape
<1>12. n > 1 => TopOf(t) = s[n - 1].at /\ s[n - 1].at \notin CriticalPlaces
  <2> SUFFICES ASSUME n > 1 PROVE TopOf(t) = s[n - 1].at /\ s[n - 1].at \notin CriticalPlaces
    OBVIOUS
  <2>1. n - 1 \in 1..n - 1 /\ n - 1 \in 1..Len(s) /\ n - 1 < Len(s) /\ n # 1
    BY <1>2, <1>4
  <2>2. t # <<>> /\ t[Len(t)] = s[n - 1]
    BY <1>2, <1>3, <1>9, <2>1
  <2> QED
    BY <1>2, <2>1, <2>2 DEF Shape, TopOf
<1>13. n = 1 => TopOf(t) = "user"
  BY <1>2, <1>3 DEF TopOf
<1>14. n = 1 \/ n > 1
  BY <1>4
<1>15. TopOf(t) \notin CriticalPlaces
  BY <1>12, <1>13, <1>14 DEF CriticalPlaces
<1>16. late' \in 0..TailTicks
  BY <1>5, <1>6, TicksAssumption
<1>17. TopOf(t) \in ReturnPlaces => (Timer \in irr => late' < TailTicks)
  <2> SUFFICES ASSUME TopOf(t) \in ReturnPlaces, Timer \in irr PROVE late' < TailTicks
    OBVIOUS
  <2>1. n > 1
    BY <1>13, <1>14 DEF ReturnPlaces
  <2>2. where = "switch" /\ late' = late
    BY <1>4, <1>5, <1>12, <2>1 DEF ReturnPlaces
  <2> QED
    BY <1>7, <2>2 DEF ReturnPlaces
<1>18. Len(t) <= 1 + Exited /\ Len(t) <= 2 + Exited
  BY <1>4, <1>8, <1>9
<1>19. t \in Seq(StackFrames)
  BY <1>3
<1>20. enabled' \in BOOLEAN /\ (enabled' <=> TopOf(t) \notin CriticalPlaces)
  BY <1>11, <1>15
<1> QED
  BY <1>5, <1>10, <1>16, <1>17, <1>18, <1>19, <1>20, ActiveStep

\* A system call is entered, from user mode.
LEMMA SystemCallKeeps ==
  ASSUME CpuInv, NEW p, SystemCall(p)
  PROVE  CpuInv'
<1>1. /\ At(p, "user") /\ ring # <<>> /\ p = ring[1] /\ stack[p] = <<>> /\ enabled
      /\ p \in Procs
  BY AtFacts DEF SystemCall, CriticalPlaces
<1>2. enabled = TRUE /\ stack \in [Procs -> Seq(StackFrames)] /\ late \in 0..TailTicks
  BY <1>1 DEF CpuInv, CpuTypes
<1> DEFINE f == Frame("call", TRUE)
           t == Append(<<>>, f)
<1>3. f \in StackFrames /\ f.at = "call" /\ f.flag = TRUE
  BY DEF Frame, StackFrames, Places
<1>4. stack' = [stack EXCEPT ![p] = t]
  BY <1>1, <1>2 DEF SystemCall, Push
<1>5. enabled' = TRUE /\ late' = late
  <2>1. Gate(128) = "isr_no_cli"
    BY DEF Gate
  <2> QED
    BY <2>1 DEF SystemCall
<1> HIDE DEF f
<1>6. t \in Seq(StackFrames) /\ Len(t) = 1 /\ Shape(t) /\ TopOf(t) = "call"
  BY <1>3, ShortStacks
<1> HIDE DEF t
<1>7. Len(t) <= 2 + Exited /\ "call" \notin ReturnPlaces /\ "call" \notin CriticalPlaces
  BY <1>1, <1>6, ActiveDepth DEF ReturnPlaces, CriticalPlaces
<1>8. enabled' \in BOOLEAN /\ late' \in 0..TailTicks /\ (enabled' <=> TopOf(t) \notin CriticalPlaces)
      /\ TopOf(t) \notin ReturnPlaces
  BY <1>2, <1>5, <1>6, <1>7
<1> QED
  BY <1>1, <1>4, <1>6, <1>7, <1>8, ActiveStep DEF SystemCall, picVars

\* A fault, in user mode: the gate clears the flag.
LEMMA FaultKeeps ==
  ASSUME CpuInv, NEW p, Fault(p)
  PROVE  CpuInv'
<1>1. /\ At(p, "user") /\ ring # <<>> /\ p = ring[1] /\ stack[p] = <<>> /\ enabled
      /\ p \in Procs
  BY AtFacts DEF Fault, CriticalPlaces
<1>2. enabled = TRUE /\ stack \in [Procs -> Seq(StackFrames)] /\ late \in 0..TailTicks
  BY <1>1 DEF CpuInv, CpuTypes
<1> DEFINE f == Frame("exit", TRUE)
           t == Append(<<>>, f)
<1>3. f \in StackFrames /\ f.at = "exit" /\ f.flag = TRUE
  BY DEF Frame, StackFrames, Places, CriticalPlaces
<1>4. stack' = [stack EXCEPT ![p] = t]
  BY <1>1, <1>2 DEF Fault, Push
<1>5. enabled' = FALSE /\ late' = late
  BY DEF Fault
<1> HIDE DEF f
<1>6. t \in Seq(StackFrames) /\ Len(t) = 1 /\ Shape(t) /\ TopOf(t) = "exit"
  BY <1>3, ShortStacks
<1> HIDE DEF t
<1>7. Len(t) <= 2 + Exited /\ "exit" \notin ReturnPlaces /\ "exit" \in CriticalPlaces
  BY <1>1, <1>6, ActiveDepth DEF ReturnPlaces, CriticalPlaces
<1>8. enabled' \in BOOLEAN /\ late' \in 0..TailTicks /\ (enabled' <=> TopOf(t) \notin CriticalPlaces)
      /\ TopOf(t) \notin ReturnPlaces
  BY <1>2, <1>5, <1>6, <1>7
<1> QED
  BY <1>1, <1>4, <1>6, <1>7, <1>8, ActiveStep DEF Fault, picVars

\* interrupt_disable: the call is the only frame on the stack.
LEMMA DisableKeeps ==
  ASSUME CpuInv, NEW p, Disable(p)
  PROVE  CpuInv'
<1>1. /\ At(p, "call") /\ ring # <<>> /\ p = ring[1] /\ stack[p] \in Seq(StackFrames)
      /\ p \in Procs /\ stack[p] # <<>> /\ Len(stack[p]) = 1 /\ Shape(stack[p])
      /\ stack[p][Len(stack[p])].at = "call"
  BY AtFacts DEF Disable
<1>2. stack \in [Procs -> Seq(StackFrames)] /\ late \in 0..TailTicks
  BY <1>1 DEF CpuInv, CpuTypes
<1> DEFINE s == stack[p]
           t == [s EXCEPT ![Len(s)].at = "critical"]
<1>3. stack' = [stack EXCEPT ![p] = t]
  BY <1>1, <1>2 DEF Disable, Rewrite, Depth
<1>4. s \in Seq(StackFrames) /\ s # <<>> /\ Len(s) = 1 /\ s[1].at = "call" /\ s[1].flag = TRUE
  BY <1>1 DEF Shape
<1>5. "critical" \in Places /\ "critical" \in CriticalPlaces /\ "critical" \notin ReturnPlaces
  BY DEF Places, CriticalPlaces, ReturnPlaces
<1>6. t = [s EXCEPT ![Len(s)].at = "critical"]
  OBVIOUS
<1> HIDE DEF s, t
<1>7. /\ t \in Seq(StackFrames) /\ Len(t) = Len(s) /\ t # <<>>
      /\ t[Len(s)].at = "critical" /\ t[Len(s)].flag = s[Len(s)].flag
  BY <1>4, <1>5, <1>6, RewriteFacts
<1>8. Len(t) = 1 /\ t[1].at = "critical" /\ t[1].flag = TRUE
  BY <1>4, <1>7
<1>9. Shape(t) /\ TopOf(t) = "critical"
  BY <1>7, <1>8 DEF Shape, TopOf
<1>10. Len(t) <= 2 + Exited
  BY <1>1, <1>8, ActiveDepth
<1>11. enabled' = FALSE /\ late' = late
  BY DEF Disable
<1>12. enabled' \in BOOLEAN /\ late' \in 0..TailTicks /\ (enabled' <=> TopOf(t) \notin CriticalPlaces)
       /\ TopOf(t) \notin ReturnPlaces
  BY <1>2, <1>5, <1>9, <1>11
<1> QED
  BY <1>1, <1>3, <1>7, <1>9, <1>10, <1>12, ActiveStep DEF Disable, picVars

\* A system call that panics goes on to loop where interrupts come.
LEMMA CallPanicsKeeps ==
  ASSUME CpuInv, NEW p, CallPanics(p)
  PROVE  CpuInv'
<1>1. /\ At(p, "call") /\ ring # <<>> /\ p = ring[1] /\ stack[p] \in Seq(StackFrames)
      /\ p \in Procs /\ stack[p] # <<>> /\ Len(stack[p]) = 1 /\ Shape(stack[p])
      /\ stack[p][Len(stack[p])].at = "call" /\ (enabled <=> "call" \notin CriticalPlaces)
  BY AtFacts DEF CallPanics
<1>2. stack \in [Procs -> Seq(StackFrames)] /\ late \in 0..TailTicks /\ enabled \in BOOLEAN
  BY <1>1 DEF CpuInv, CpuTypes
<1> DEFINE s == stack[p]
           t == [s EXCEPT ![Len(s)].at = "panic"]
<1>3. stack' = [stack EXCEPT ![p] = t]
  BY <1>1, <1>2 DEF CallPanics, Rewrite, Depth
<1>4. s \in Seq(StackFrames) /\ s # <<>> /\ Len(s) = 1 /\ s[1].at = "call" /\ s[1].flag = TRUE
  BY <1>1 DEF Shape
<1>5. "panic" \in Places /\ "panic" \notin CriticalPlaces /\ "panic" \notin ReturnPlaces
      /\ "call" \notin CriticalPlaces
  BY DEF Places, CriticalPlaces, ReturnPlaces
<1>6. t = [s EXCEPT ![Len(s)].at = "panic"]
  OBVIOUS
<1> HIDE DEF s, t
<1>7. /\ t \in Seq(StackFrames) /\ Len(t) = Len(s) /\ t # <<>>
      /\ t[Len(s)].at = "panic" /\ t[Len(s)].flag = s[Len(s)].flag
  BY <1>4, <1>5, <1>6, RewriteFacts
<1>8. Len(t) = 1 /\ t[1].at = "panic" /\ t[1].flag = TRUE
  BY <1>4, <1>7
<1>9. Shape(t) /\ TopOf(t) = "panic"
  BY <1>7, <1>8 DEF Shape, TopOf
<1>10. Len(t) <= 2 + Exited
  BY <1>1, <1>8, ActiveDepth
<1>11. enabled' = enabled /\ late' = late
  BY DEF CallPanics
<1>12. enabled' \in BOOLEAN /\ late' \in 0..TailTicks /\ (enabled' <=> TopOf(t) \notin CriticalPlaces)
       /\ TopOf(t) \notin ReturnPlaces
  BY <1>1, <1>2, <1>5, <1>9, <1>11
<1> QED
  BY <1>1, <1>3, <1>7, <1>9, <1>10, <1>12, ActiveStep DEF CallPanics, picVars

\* The kernel stops where it is.
LEMMA StopKeeps ==
  ASSUME CpuInv, UNCHANGED <<irr, master, slave, ring, stack, late, pids, boot, tick>>,
         enabled' \in BOOLEAN, stopped' \in Stops \ {"no"}
  PROVE  CpuInv'
<1>1. CpuTypes' /\ BootOK' /\ ShapeOK' /\ DepthOK'
  BY DEF CpuInv, CpuTypes, BootOK, ShapeOK, DepthOK, Exited
<1>2. FlagOK' /\ TurnOK'
  BY DEF CpuInv, FlagOK, TurnOK, Running, Top, Depth, Exited
<1> QED
  BY <1>1, <1>2 DEF CpuInv

\* execve and process_init end in user mode.
LEMMA ToUserModeKeeps ==
  ASSUME CpuInv, NEW p, ToUserMode(p)
  PROVE  CpuInv'
<1>1. PICK where : At(p, where)
  BY DEF ToUserMode
<1>2. ring # <<>> /\ p = ring[1]
  BY <1>1, AtFacts
<1>3. late \in 0..TailTicks
  BY DEF CpuInv, CpuTypes
<1>4. enabled' = TRUE /\ late' = late /\ stack' = [stack EXCEPT ![p] = <<>>]
  BY DEF ToUserMode
<1>5. <<>> \in Seq(StackFrames) /\ Len(<<>>) = 0 /\ Shape(<<>>) /\ TopOf(<<>>) = "user"
  BY ShortStacks
<1>6. Len(<<>>) <= 2 + Exited /\ "user" \notin ReturnPlaces /\ "user" \notin CriticalPlaces
  BY <1>2, <1>5, ActiveDepth DEF ReturnPlaces, CriticalPlaces
<1> DEFINE t == <<>>
<1>7. t \in Seq(StackFrames) /\ Shape(t) /\ Len(t) <= 2 + Exited /\ stack' = [stack EXCEPT ![p] = t]
      /\ enabled' \in BOOLEAN /\ late' \in 0..TailTicks /\ (enabled' <=> TopOf(t) \notin CriticalPlaces)
      /\ TopOf(t) \notin ReturnPlaces
  BY <1>3, <1>4, <1>5, <1>6
<1> HIDE DEF t
<1> QED
  BY <1>1, <1>7, ActiveStep DEF ToUserMode, picVars

\* A device asks.
LEMMA RaiseKeeps ==
  ASSUME CpuInv, NEW n \in Lines, Raise(n)
  PROVE  CpuInv'
<1>1. UNCHANGED <<master, slave, enabled, ring, stack, late, pids, stopped, boot, tick>> /\ irr' = irr \cup {n}
  BY DEF Raise, cpuVars
<1>2. CpuTypes'
  BY <1>1 DEF CpuInv, CpuTypes
<1>3. BootOK' /\ ShapeOK' /\ DepthOK'
  BY <1>1 DEF CpuInv, BootOK, ShapeOK, DepthOK, Exited
<1>4. FlagOK'
  BY <1>1 DEF CpuInv, FlagOK, Running, Top, Depth
<1>5. ASSUME ring # <<>>, Top(ring[1]) \in ReturnPlaces, n = Timer PROVE late < TailTicks
  <2>1. ring[1] # 0
    BY <1>5, RingFacts DEF CpuInv
  <2>2. Returning
    BY <1>5, <2>1 DEF Returning, Booted, Active, ReturnPlaces
  <2> QED
    BY <1>5, <2>2 DEF Raise
<1>6. TurnOK'
  BY <1>1, <1>5 DEF CpuInv, TurnOK, Top, Depth, Exited
<1> QED
  BY <1>2, <1>3, <1>4, <1>6 DEF CpuInv

\* CpuInv after a step, of the new ring and the new stacks.
LEMMA NextInv ==
  ASSUME NEW R, NEW K, NEW Q, ring' = R, stack' = K, pids' = Q,
         CpuTypes', BootOK',
         \A r \in Procs : Shape(K[r]),
         (stopped = "no")' /\ R # <<>> =>
           /\ enabled' <=> TopOf(K[R[1]]) \notin CriticalPlaces
           /\ \A i \in 1..Len(R) : TopOf(K[R[i]]) \in CriticalPlaces => R[i] = R[1],
         Len(R) <= Q,
         \A i \in 1..Len(R) : Len(K[R[i]]) <= 2 + (Q - Len(R)),
         R # <<>> /\ TopOf(K[R[1]]) \in ReturnPlaces =>
           /\ Timer \in irr' => late' < TailTicks
           /\ Len(K[R[1]]) <= 1 + (Q - Len(R)) \/ tick' = late'
  PROVE  CpuInv'
<1>1. ShapeOK'
  BY DEF ShapeOK, Shape
<1>2. FlagOK'
  BY DEF FlagOK, Running, Top, TopOf, Depth
<1>3. DepthOK'
  BY DEF DepthOK, Exited
<1>4. TurnOK'
  BY DEF TurnOK, Top, TopOf, Depth, Exited
<1> QED
  BY <1>1, <1>2, <1>3, <1>4 DEF CpuInv

\* process_fork: both stacks have one frame or none.
LEMMA ForkKeeps ==
  ASSUME CpuInv, NEW p, Fork(p)
  PROVE  CpuInv'
<1>1. /\ Running /\ ring # <<>> /\ p = ring[1] /\ boot = <<>> /\ p \in 1..pids /\ p \in Procs
      /\ stack[p] \in Seq(StackFrames) /\ stack[p] # <<>> /\ Len(stack[p]) = 1
      /\ Shape(stack[p]) /\ stack[p][1].at = "critical"
  BY AtFacts DEF Fork
<1> DEFINE s == stack[p]
           t == Popped(s)
           c == [s EXCEPT ![Len(s)].at = "forked"]
<1>a. PICK q, R, K : q = pids + 1 /\ R = Append(ring, q) /\ K = [stack EXCEPT ![p] = t, ![q] = c]
  OBVIOUS
<1>2. /\ stack' = K /\ ring' = R /\ pids' = q
      /\ enabled' = s[1].flag /\ late' = 0
      /\ UNCHANGED <<irr, master, slave, boot, handlers, tick, stopped>>
  BY <1>1, <1>a DEF Fork, Depth, Popped, picVars
<1>3. pids \in Nat /\ Len(ring) \in Nat /\ pids < MaxPid /\ Len(ring) <= pids /\ ring \in Seq(1..pids)
  BY RingFacts DEF CpuInv, CpuTypes, DepthOK, Fork
<1>4. q \in Procs /\ q # p /\ q \in Nat /\ q \in 1..q /\ 1..pids \subseteq 1..q /\ q <= MaxPid
  BY <1>1, <1>3, <1>a, MaxPidAssumption DEF Procs
<1>5. stack \in [Procs -> Seq(StackFrames)] /\ master \subseteq 0..7 /\ slave \subseteq 8..15
      /\ irr \subseteq Lines /\ tick \in 0..(TicksPerSwitch - 1)
  BY DEF CpuInv, CpuTypes
<1>6. t = <<>> /\ t \in Seq(StackFrames) /\ Len(t) = 0
  <2>1. t = <<>>
    BY <1>1, PopFacts
  <2> QED
    BY <2>1, EmptySeq
<1>7. s[1].flag = TRUE
  BY <1>1 DEF Shape
<1>8. /\ c \in Seq(StackFrames) /\ Len(c) = 1 /\ c # <<>> /\ c[1].at = "forked" /\ c[1].flag = TRUE
  <2>1. "forked" \in Places
    BY DEF Places, ReturnPlaces
  <2>2. /\ c \in Seq(StackFrames) /\ Len(c) = Len(s) /\ c # <<>>
        /\ c[Len(s)].at = "forked" /\ c[Len(s)].flag = s[Len(s)].flag
    <3>1. s \in Seq(StackFrames) /\ s # <<>> /\ c = [s EXCEPT ![Len(s)].at = "forked"]
      BY <1>1
    <3> HIDE DEF s, c
    <3> QED
      BY ONLY <2>1, <3>1, RewriteFacts
  <2> QED
    BY <1>1, <1>7, <2>2
<1> HIDE DEF t, c, s
<1>10. /\ K \in [Procs -> Seq(StackFrames)] /\ K[p] = t /\ K[q] = c
       /\ \A r \in Procs : r # p /\ r # q => K[r] = stack[r]
  BY <1>1, <1>a, <1>4, <1>5, <1>6, <1>8
<1>11. ring \in Seq(1..q)
  BY <1>3, <1>4, SeqMonotonic
<1>12. /\ R \in Seq(1..q) /\ Len(R) = Len(ring) + 1 /\ R[Len(ring) + 1] = q /\ R # <<>>
       /\ \A i \in 1..Len(ring) : R[i] = ring[i]
  BY ONLY <1>a, <1>4, <1>11, PushFacts
<1>13. R[1] = p
  BY <1>1, <1>12, RingFacts DEF CpuInv
<1>14. CpuTypes'
  <2>1. late' \in 0..TailTicks /\ enabled' \in BOOLEAN
    <3>1. 0 \in 0..TailTicks
      BY TicksAssumption
    <3> QED
      BY <1>2, <1>7, <3>1
  <2>2. pids' \in 0..MaxPid /\ ring' \in Seq(1..pids')
    BY <1>2, <1>4, <1>12
  <2>3. boot' \in Boots
    BY <1>1, <1>2 DEF Boots
  <2>4. stopped' \in Stops
    BY <1>2 DEF CpuInv, CpuTypes
  <2> QED
    BY <1>2, <1>5, <1>10, <2>1, <2>2, <2>3, <2>4 DEF CpuTypes
<1>15. BootOK'
  BY <1>1, <1>2 DEF BootOK
<1>16. \A r \in Procs : Shape(K[r])
  <2>1. Shape(<<>>) /\ Shape(c)
    BY <1>8, ShortStacks DEF Shape
  <2>2. \A r \in Procs : Shape(stack[r])
    BY DEF CpuInv, ShapeOK, Shape
  <2> QED
    BY <1>6, <1>10, <2>1, <2>2
<1>17. \A i \in 1..Len(ring) : ring[i] \in Procs /\ ring[i] # q
  BY <1>3, <1>a, RingFacts DEF CpuInv
<1>18. TopOf(K[p]) = "user" /\ TopOf(K[q]) = "forked"
  BY <1>6, <1>8, <1>10 DEF TopOf
<1>19. \A i \in 1..Len(R) : (i \in 1..Len(ring) /\ R[i] = ring[i]) \/ R[i] = q
  BY <1>3, <1>12
<1>20. \A i \in 1..Len(R) : TopOf(K[R[i]]) \notin CriticalPlaces
  <2> SUFFICES ASSUME NEW i \in 1..Len(R), R[i] # q, R[i] # p
               PROVE  TopOf(K[R[i]]) \notin CriticalPlaces
    BY <1>18 DEF CriticalPlaces
  <2>1. i \in 1..Len(ring) /\ R[i] = ring[i]
    BY <1>19
  <2>2. Top(ring[i]) \notin CriticalPlaces
    BY <1>1, <2>1 DEF CpuInv, FlagOK
  <2>3. K[R[i]] = stack[ring[i]]
    BY <1>10, <1>17, <2>1
  <2> QED
    BY <2>2, <2>3 DEF Top, TopOf, Depth
<1>21. enabled' = TRUE /\ TopOf(K[R[1]]) \notin CriticalPlaces /\ TopOf(K[R[1]]) \notin ReturnPlaces
  BY <1>2, <1>7, <1>13, <1>18 DEF CriticalPlaces, ReturnPlaces
<1>22. Len(R) <= q /\ q - Len(R) = Exited /\ Exited \in Nat
  BY <1>a, <1>3, <1>12 DEF Exited
<1>23. \A i \in 1..Len(R) : Len(K[R[i]]) <= 2 + Exited
  <2> SUFFICES ASSUME NEW i \in 1..Len(R) PROVE Len(K[R[i]]) <= 2 + Exited
    OBVIOUS
  <2>1. CASE R[i] = q \/ R[i] = p
    <3>1. Len(K[R[i]]) = 0 \/ Len(K[R[i]]) = 1
      BY <1>6, <1>8, <1>10, <2>1
    <3>2. PICK d, e : d = Len(K[R[i]]) /\ e = Exited
      OBVIOUS
    <3>3. e \in Nat /\ (d = 0 \/ d = 1)
      BY <1>22, <3>1, <3>2
    <3>4. d <= 2 + e
      BY ONLY <3>3
    <3> QED
      BY <3>2, <3>4
  <2>2. CASE R[i] # q /\ R[i] # p
    BY <1>10, <1>17, <1>19, <2>2 DEF CpuInv, DepthOK
  <2> QED
    BY <2>1, <2>2
<1> QED
  BY <1>2, <1>14, <1>15, <1>16, <1>20, <1>21, <1>22, <1>23, NextInv

\* process_exit: the next process may be as deep as any, one less than the
\* exit allows from now on.
LEMMA ExitKeeps ==
  ASSUME CpuInv, NEW p, Exit(p)
  PROVE  CpuInv'
<1>1. /\ Running /\ ring # <<>> /\ p = ring[1] /\ boot = <<>> /\ p \in 1..pids /\ p \in Procs
  BY AtFacts DEF Exit
<1>a. PICK R, K, Q : R = ring' /\ K = stack' /\ Q = pids'
  OBVIOUS
<1>2. /\ K = [stack EXCEPT ![p] = <<>>] /\ Q = pids
      /\ UNCHANGED <<irr, master, slave, boot, handlers, tick, pids>>
  BY <1>a DEF Exit, picVars
<1>3. stack \in [Procs -> Seq(StackFrames)] /\ <<>> \in Seq(StackFrames)
  BY ShortStacks DEF CpuInv, CpuTypes
<1>4. /\ K \in [Procs -> Seq(StackFrames)] /\ K[p] = <<>>
      /\ \A r \in Procs : r # p => K[r] = stack[r]
  BY <1>1, <1>2, <1>3
<1>5. BootOK'
  BY <1>1, <1>2 DEF BootOK
<1>6. \A r \in Procs : Shape(K[r])
  <2>1. Shape(<<>>) /\ \A r \in Procs : Shape(stack[r])
    BY ShortStacks DEF CpuInv, ShapeOK, Shape
  <2> QED
    BY <1>4, <2>1
<1>7. /\ pids \in Nat /\ Len(ring) \in Nat /\ 1 \in 1..Len(ring) /\ Len(ring) <= pids
      /\ ring \in Seq(1..pids) /\ \A i \in 1..Len(ring) : ring[i] \in Procs
  BY <1>1, RingFacts DEF CpuInv, CpuTypes, DepthOK
<1>8. CASE Len(ring) = 1
  <2>1. R = <<>> /\ stopped' = "halted" /\ enabled' = enabled /\ late' = late
    BY <1>a, <1>8 DEF Exit
  <2>2. R \in Seq(1..pids) /\ Len(R) = 0
    BY <2>1, EmptySeq
  <2>3. CpuTypes'
    BY <1>a, <1>2, <1>4, <2>1, <2>2 DEF CpuInv, CpuTypes, Stops
  <2>4. Len(R) <= Q /\ \A i \in 1..Len(R) : FALSE
    BY <1>2, <1>7, <2>2
  <2> QED
    BY <1>a, <1>5, <1>6, <2>1, <2>3, <2>4, NextInv
<1>9. CASE Len(ring) # 1
  <2>1. R = Tail(ring) /\ stopped' = stopped /\ enabled' = TRUE /\ late' = 0
    BY <1>a, <1>9 DEF Exit, SwitchContext
  <2>2. /\ R \in Seq(1..pids) /\ Len(R) = Len(ring) - 1 /\ R # <<>>
        /\ \A i \in 1..Len(R) : i + 1 \in 1..Len(ring) /\ R[i] = ring[i + 1]
    <3>1. ring \in Seq(1..pids) /\ ring # <<>> /\ Len(ring) # 1 /\ R = Tail(ring)
      BY <1>1, <1>7, <1>9, <2>1
    <3> QED
      BY ONLY <3>1, TailFacts
  <2>3. CpuTypes'
    <3>1. 0 \in 0..TailTicks
      BY TicksAssumption
    <3> QED
      BY <1>a, <1>2, <1>4, <2>1, <2>2, <3>1 DEF CpuInv, CpuTypes
  <2>4. TopOf(K[p]) = "user"
    BY <1>4 DEF TopOf
  <2>5. \A i \in 1..Len(R) : TopOf(K[R[i]]) \notin CriticalPlaces
    <3> SUFFICES ASSUME NEW i \in 1..Len(R), R[i] # p
                 PROVE  TopOf(K[R[i]]) \notin CriticalPlaces
      BY <2>4 DEF CriticalPlaces
    <3>1. Top(ring[i + 1]) \notin CriticalPlaces
      BY <1>1, <2>2 DEF CpuInv, FlagOK
    <3>2. K[R[i]] = stack[ring[i + 1]]
      BY <1>4, <1>7, <2>2
    <3> QED
      BY <3>1, <3>2 DEF Top, TopOf, Depth
  <2>6. 1 \in 1..Len(R)
    BY <1>7, <1>9, <2>2
  <2>8. Exited \in Nat /\ Q - Len(R) = Exited + 1 /\ Len(R) <= Q
    BY <1>2, <1>7, <2>2 DEF Exited
  <2>9. \A i \in 1..Len(R) : Len(K[R[i]]) \in Nat /\ Len(K[R[i]]) <= 2 + Exited
    <3> SUFFICES ASSUME NEW i \in 1..Len(R) PROVE Len(K[R[i]]) \in Nat /\ Len(K[R[i]]) <= 2 + Exited
      OBVIOUS
    <3>1. K[R[i]] \in Seq(StackFrames)
      BY <1>4, <1>7, <2>2
    <3>2. CASE R[i] = p
      BY <1>4, <2>8, <3>2, ShortStacks
    <3>3. CASE R[i] # p
      <4>1. i + 1 \in 1..Len(ring) /\ K[R[i]] = stack[ring[i + 1]]
        BY <1>4, <1>7, <2>2, <3>3
      <4>2. Len(stack[ring[i + 1]]) <= 2 + Exited
        BY <4>1 DEF CpuInv, DepthOK
      <4>3. Len(K[R[i]]) \in Nat
        BY <3>1
      <4> QED
        BY <4>1, <4>2, <4>3
    <3> QED
      BY <3>2, <3>3
  <2>10. \A i \in 1..Len(R) : Len(K[R[i]]) <= 1 + (Q - Len(R)) /\ Len(K[R[i]]) <= 2 + (Q - Len(R))
    BY <2>8, <2>9
  <2>11. late' < TailTicks
    BY <2>1, TicksAssumption
  <2> QED
    BY <1>a, <1>5, <1>6, <2>1, <2>3, <2>5, <2>6, <2>8, <2>10, <2>11, NextInv
<1> QED
  BY <1>8, <1>9

\* What serving an interrupt does to the PICs.
LEMMA ServeFacts ==
  ASSUME CpuTypes, NEW n \in Lines, Serve(n)
  PROVE  /\ enabled /\ n \in irr /\ irr' = irr \ {n} /\ irr' \subseteq Lines
         /\ master' \subseteq 0..7 /\ slave' \subseteq 8..15
<1> DEFINE inMaster == master \cup {MasterLine(n)}
           inSlave == IF n >= 8 THEN slave \cup {n} ELSE slave
<1>1. n \in 0..15 /\ irr \subseteq Lines /\ master \subseteq 0..7 /\ slave \subseteq 8..15
  BY LinesAssumption DEF CpuTypes
<1>2. MasterLine(n) \in 0..7
  BY <1>1 DEF MasterLine
<1>3. inMaster \subseteq 0..7 /\ inSlave \subseteq 8..15
  <2>1. n >= 8 => n \in 8..15
    BY <1>1
  <2>2. PICK low, high : low = 0..7 /\ high = 8..15
    OBVIOUS
  <2>3. /\ master \subseteq low /\ slave \subseteq high /\ MasterLine(n) \in low
        /\ n >= 8 => n \in high
    BY <1>1, <1>2, <2>1, <2>2
  <2>4. inMaster \subseteq low /\ inSlave \subseteq high
    BY <2>3, Zenon
  <2> QED
    BY <2>2, <2>4
<1>4. /\ enabled /\ n \in irr /\ irr' = irr \ {n}
      /\ master' = inMaster \/ master' = Eoi(inMaster)
      /\ slave' = inSlave \/ slave' = Eoi(inSlave)
  BY DEF Serve, Deliverable
<1>5. Eoi(inMaster) \subseteq inMaster /\ Eoi(inSlave) \subseteq inSlave
  BY DEF Eoi
<1> HIDE DEF inMaster, inSlave
<1> QED
  BY <1>1, <1>3, <1>4, <1>5

\* An interrupt whose handler returns, or that has none: the processes are as
\* they were.
LEMMA ServedKeeps ==
  ASSUME CpuInv, NEW n \in Lines, Serve(n),
         UNCHANGED <<enabled, ring, stack, late, pids, boot, tick>>,
         stopped' \in {stopped, "wild write"}
  PROVE  CpuInv'
<1>1. irr' \subseteq irr /\ irr' \subseteq Lines /\ master' \subseteq 0..7 /\ slave' \subseteq 8..15
  BY ServeFacts DEF CpuInv
<1>2. CpuTypes'
  BY <1>1 DEF CpuInv, CpuTypes, Stops
<1>3. BootOK' /\ ShapeOK' /\ DepthOK'
  BY DEF CpuInv, BootOK, ShapeOK, DepthOK, Exited
<1>4. FlagOK'
  BY DEF CpuInv, FlagOK, Running, Top, Depth
<1>5. TurnOK'
  BY <1>1 DEF CpuInv, TurnOK, Top, Depth, Exited
<1> QED
  BY <1>2, <1>3, <1>4, <1>5 DEF CpuInv

\* A tick that does not end the turn.
LEMMA TickKeeps ==
  ASSUME CpuInv, TimerIrq, ~TurnEnds
  PROVE  CpuInv'
<1>1. /\ Running /\ UNCHANGED <<enabled, ring, stack, boot, pids, stopped>>
      /\ late' = IF Returning THEN late + 1 ELSE late
      /\ tick' = (tick + 1) % TicksPerSwitch
  BY DEF TimerIrq
<1>2. /\ Timer \in irr /\ Timer \notin irr' /\ irr' \subseteq Lines
      /\ master' \subseteq 0..7 /\ slave' \subseteq 8..15
  BY LinesAssumption, ServeFacts DEF CpuInv, TimerIrq
<1>3. PICK k, l, k2, l2 : k = tick /\ l = late /\ k2 = tick' /\ l2 = late'
  OBVIOUS
<1>4. k \in 0..(TicksPerSwitch - 1) /\ l \in 0..TailTicks /\ k + 1 # TicksPerSwitch
  BY <1>3 DEF CpuInv, CpuTypes, TurnEnds
<1>5. k2 = k + 1 /\ k2 \in 0..(TicksPerSwitch - 1)
  <2>1. k2 = (k + 1) % TicksPerSwitch
    BY <1>1, <1>3
  <2>2. k + 1 \in 0..(TicksPerSwitch - 1)
    BY <1>4, TicksAssumption
  <2>3. \A m \in 0..(TicksPerSwitch - 1) : m % TicksPerSwitch = m
    BY TicksAssumption
  <2> QED
    BY <2>1, <2>2, <2>3
<1>6. Returning => l < TailTicks
  <2>1. Returning => ring # <<>> /\ Top(ring[1]) \in ReturnPlaces
    BY DEF Returning, Booted, Active, ReturnPlaces
  <2> QED
    BY <1>2, <1>3, <2>1 DEF CpuInv, TurnOK
<1>7. l2 = (IF Returning THEN l + 1 ELSE l) /\ l2 \in 0..TailTicks
  BY <1>1, <1>3, <1>4, <1>6, TicksAssumption
<1>8. CpuTypes'
  <2>1. tick' \in 0..(TicksPerSwitch - 1) /\ late' \in 0..TailTicks
    BY <1>3, <1>5, <1>7
  <2> QED
    BY <1>1, <1>2, <2>1 DEF CpuInv, CpuTypes
<1>9. BootOK' /\ ShapeOK' /\ DepthOK'
  BY <1>1 DEF CpuInv, BootOK, ShapeOK, DepthOK, Exited
<1>10. FlagOK'
  BY <1>1 DEF CpuInv, FlagOK, Running, Top, Depth
<1>11. TurnOK'
  <2>1. Top(ring[1])' = Top(ring[1]) /\ Exited' = Exited /\ Len(stack[ring[1]])' = Len(stack[ring[1]])
    BY <1>1 DEF Top, Depth, Exited
  <2>2. ASSUME ring # <<>>, Top(ring[1]) \in ReturnPlaces, tick = late PROVE tick' = late'
    <3>1. ring[1] # 0
      BY <2>2, RingFacts DEF CpuInv
    <3>2. Returning
      BY <2>2, <3>1 DEF Returning, Booted, Active, ReturnPlaces
    <3> QED
      BY <1>3, <1>5, <1>7, <2>2, <3>2
  <2> QED
    BY <1>1, <1>2, <2>1, <2>2 DEF CpuInv, TurnOK
<1> QED
  BY <1>8, <1>9, <1>10, <1>11 DEF CpuInv

\* The tick that ends the turn: a process on its way back has had the whole
\* turn, unless it got the CPU from an exit.
LEMMA SwitchKeeps ==
  ASSUME CpuInv, TimerIrq, TurnEnds
  PROVE  CpuInv'
<1>1. /\ Running /\ process_switch /\ UNCHANGED <<boot, pids, stopped>>
      /\ tick' = (tick + 1) % TicksPerSwitch
  BY DEF TimerIrq
<1>2. /\ enabled /\ Timer \in irr /\ Timer \notin irr' /\ irr' \subseteq Lines
      /\ master' \subseteq 0..7 /\ slave' \subseteq 8..15
  BY LinesAssumption, ServeFacts DEF CpuInv, TimerIrq
<1>3. tick' = 0
  BY <1>1, TicksAssumption DEF TurnEnds
<1>4. 0 \in 0..TailTicks /\ 0 \in 0..(TicksPerSwitch - 1) /\ TailTicks < TicksPerSwitch /\ 0 < TailTicks
  BY TicksAssumption
<1>5. CASE ring = <<>>
  <2>1. UNCHANGED <<enabled, ring, stack, late>>
    BY <1>1, <1>5 DEF process_switch, Booted, Active
  <2>2. CpuTypes'
    BY <1>1, <1>2, <1>3, <1>4, <2>1 DEF CpuInv, CpuTypes
  <2>3. BootOK' /\ ShapeOK' /\ DepthOK'
    BY <1>1, <2>1 DEF CpuInv, BootOK, ShapeOK, DepthOK, Exited
  <2>4. FlagOK' /\ TurnOK'
    BY <1>5, <2>1 DEF FlagOK, TurnOK
  <2> QED
    BY <2>2, <2>3, <2>4 DEF CpuInv
<1>6. CASE ring # <<>>
  <2>1. PICK p : p = ring[1]
    OBVIOUS
  <2>2. /\ pids \in Nat /\ Len(ring) \in Nat /\ 1 \in 1..Len(ring) /\ Len(ring) <= pids
        /\ ring \in Seq(1..pids) /\ \A i \in 1..Len(ring) : ring[i] \in Procs /\ ring[i] \in 1..pids
    BY <1>6, RingFacts DEF CpuInv, CpuTypes, DepthOK
  <2>3. p \in Procs /\ p # 0 /\ Active = p /\ Booted /\ boot = <<>>
    BY <1>6, <2>1, <2>2 DEF Active, Booted, CpuInv, BootOK
  <2>4. enabled = TRUE /\ stack \in [Procs -> Seq(StackFrames)] /\ stack[p] \in Seq(StackFrames)
    BY <1>2, <2>3 DEF CpuInv, CpuTypes
  <2>5. PICK R, K, f, t : R = Append(Tail(ring), p) /\ f = Frame("switch", TRUE)
                            /\ t = Append(stack[p], f) /\ K = [stack EXCEPT ![p] = t]
    OBVIOUS
  <2>6. ring' = R /\ stack' = K /\ enabled' = TRUE /\ late' = 0
    BY <1>1, <2>3, <2>4, <2>5 DEF process_switch, Push, SwitchContext
  <2>7. f \in StackFrames /\ f.at = "switch" /\ f.flag = TRUE
    BY <2>5 DEF Frame, StackFrames, Places, ReturnPlaces
  <2>8. PICK s : s = stack[p]
    OBVIOUS
  <2>9. /\ t \in Seq(StackFrames) /\ Len(t) = Len(s) + 1 /\ t[Len(s) + 1] = f /\ t # <<>>
        /\ \A i \in 1..Len(s) : t[i] = s[i]
    <3>1. s \in Seq(StackFrames) /\ t = Append(s, f)
      BY <2>4, <2>5, <2>8
    <3> QED
      BY ONLY <2>7, <3>1, PushFacts
  <2>10. Len(s) \in Nat /\ s \in Seq(StackFrames)
    BY <2>4, <2>8
  <2>11. TopOf(s) \notin CriticalPlaces /\ \A i \in 1..Len(ring) : TopOf(stack[ring[i]]) \notin CriticalPlaces
    <3>1. Top(p) \notin CriticalPlaces /\ \A i \in 1..Len(ring) : Top(ring[i]) \notin CriticalPlaces
      BY <1>1, <1>2, <1>6, <2>1 DEF CpuInv, FlagOK
    <3> QED
      BY <2>8, <3>1 DEF Top, TopOf, Depth
  <2>12. \A r \in Procs : Shape(stack[r])
    BY DEF CpuInv, ShapeOK, Shape
  <2>13. Shape(t)
    <3>1. Shape(s)
      BY <2>3, <2>8, <2>12
    <3> SUFFICES ASSUME NEW i \in 1..Len(t)
                 PROVE  /\ i > 1 => t[i].at = "switch"
                        /\ t[i].at # "init" => t[i].flag = TRUE
                        /\ i < Len(t) => t[i].at \notin CriticalPlaces
      BY DEF Shape
    <3>2. CASE i = Len(t)
      BY <2>7, <2>9, <2>10, <3>2
    <3>3. CASE i # Len(t)
      <4>1. i \in 1..Len(s) /\ t[i] = s[i]
        BY <2>9, <2>10, <3>3
      <4>2. CASE i = Len(s)
        <5>1. s # <<>>
          BY <2>10, <4>1, EmptySeq
        <5>2. s[i].at \notin CriticalPlaces
          BY <2>11, <4>2, <5>1 DEF TopOf
        <5> QED
          BY <3>1, <4>1, <5>2 DEF Shape
      <4>3. CASE i # Len(s)
        <5>1. i < Len(s)
          BY <2>10, <4>1, <4>3
        <5> QED
          BY <3>1, <4>1, <5>1 DEF Shape
      <4> QED
        BY <4>2, <4>3
    <3> QED
      BY <3>2, <3>3
  <2>14. TopOf(t) = "switch"
    BY <2>7, <2>9 DEF TopOf
  <2>15. /\ K \in [Procs -> Seq(StackFrames)] /\ K[p] = t
         /\ \A r \in Procs : r # p => K[r] = stack[r]
    BY <2>3, <2>4, <2>5, <2>9
  <2>16. \A r \in Procs : Shape(K[r])
    BY <2>12, <2>13, <2>15
  <2>17. /\ R \in Seq(1..pids) /\ Len(R) = Len(ring) /\ R # <<>>
         /\ \A i \in 1..Len(ring) : \E j \in 1..Len(ring) : R[i] = ring[j]
    <3>1. PICK F, r : F = 1..pids /\ r = ring
      OBVIOUS
    <3>2. r \in Seq(F) /\ r # <<>> /\ R = Rotated(r)
      BY <1>6, <2>1, <2>2, <2>5, <3>1 DEF Rotated
    <3>3. /\ R \in Seq(F) /\ Len(R) = Len(r) /\ R # <<>>
          /\ \A i \in 1..Len(r) : \E j \in 1..Len(r) : R[i] = r[j]
      BY ONLY <3>2, RotateFacts
    <3> QED
      BY <3>1, <3>3
  <2>18. \A i \in 1..Len(R) : TopOf(K[R[i]]) \notin CriticalPlaces
    <3> SUFFICES ASSUME NEW i \in 1..Len(R) PROVE TopOf(K[R[i]]) \notin CriticalPlaces
      OBVIOUS
    <3>1. PICK j \in 1..Len(ring) : R[i] = ring[j]
      BY <2>17
    <3>2. CASE ring[j] = p
      BY <2>14, <2>15, <3>1, <3>2 DEF CriticalPlaces
    <3>3. CASE ring[j] # p
      BY <2>2, <2>11, <2>15, <3>1, <3>3
    <3> QED
      BY <3>2, <3>3
  <2>19. CpuTypes'
    BY <1>1, <1>2, <1>3, <1>4, <2>6, <2>15, <2>17 DEF CpuInv, CpuTypes
  <2>20. BootOK'
    BY <1>1, <2>3 DEF BootOK
  <2>21. PICK e : e = Exited
    OBVIOUS
  <2>22. e \in Nat /\ pids - Len(R) = e /\ Len(R) <= pids
    BY <2>2, <2>17, <2>21 DEF Exited
  <2>23. Len(s) <= 1 + e
    <3>1. CASE TopOf(s) \in ReturnPlaces
      <4>1. Top(p) \in ReturnPlaces
        BY <2>8, <3>1 DEF Top, TopOf, Depth
      <4>2. late < TailTicks /\ (Len(s) <= 1 + e \/ tick = late)
        BY <1>2, <1>6, <2>1, <2>8, <2>21, <4>1 DEF CpuInv, TurnOK
      <4>3. PICK k, l : k = tick /\ l = late
        OBVIOUS
      <4>4. l \in 0..TailTicks /\ k + 1 = TicksPerSwitch /\ l < TailTicks
        BY <4>2, <4>3 DEF CpuInv, CpuTypes, TurnEnds
      <4>5. k # l
        BY <4>4, TicksAssumption
      <4> QED
        BY <4>2, <4>3, <4>5
    <3>2. CASE TopOf(s) \notin ReturnPlaces
      <4>1. s = <<>> \/ (Len(s) \in 1..Len(s) /\ s[Len(s)].at # "switch")
        BY <2>10, <3>2, EmptySeq DEF TopOf, ReturnPlaces
      <4>2. Shape(s)
        BY <2>3, <2>8, <2>12
      <4>3. PICK n : n = Len(s)
        OBVIOUS
      <4>4. n \in Nat /\ (n = 0 \/ ~(n > 1))
        <5>1. CASE s = <<>>
          BY <2>10, <4>3, <5>1, EmptySeq
        <5>2. CASE s # <<>>
          BY <2>10, <4>1, <4>2, <4>3, <5>2 DEF Shape
        <5> QED
          BY <5>1, <5>2
      <4>5. n <= 1 + e
        BY <2>22, <4>4
      <4> QED
        BY <4>3, <4>5
    <3> QED
      BY <3>1, <3>2
  <2>24. \A i \in 1..Len(R) : Len(K[R[i]]) <= 2 + e
    <3> SUFFICES ASSUME NEW i \in 1..Len(R) PROVE Len(K[R[i]]) <= 2 + e
      OBVIOUS
    <3>1. PICK j \in 1..Len(ring) : R[i] = ring[j]
      BY <2>17
    <3>2. CASE ring[j] = p
      <4>1. Len(K[R[i]]) = Len(s) + 1
        BY <2>9, <2>15, <3>1, <3>2
      <4> QED
        BY <2>10, <2>22, <2>23, <4>1
    <3>3. CASE ring[j] # p
      <4>1. K[R[i]] = stack[ring[j]]
        BY <2>2, <2>15, <3>1, <3>3
      <4> QED
        BY <2>21, <4>1 DEF CpuInv, DepthOK
    <3> QED
      BY <3>2, <3>3
  <2>25. 1 \in 1..Len(R)
    BY <2>2, <2>17
  <2> QED
    BY <1>1, <1>2, <1>3, <2>6, <2>16, <2>18, <2>19, <2>20, <2>22, <2>24, <2>25, NextInv
<1> QED
  BY <1>5, <1>6

\* What is left to call: process_init is the last.
LEMMA BootFacts ==
  ASSUME NEW b \in Boots, b # <<>>
  PROVE  Tail(b) \in Boots /\ (Head(b) = "process_init" => Tail(b) = <<>>)
<1> DEFINE b1 == <<"interrupt_init", "keyboard_init", "syscall_init", "process_init">>
           b2 == <<"keyboard_init", "syscall_init", "process_init">>
           b3 == <<"syscall_init", "process_init">>
           b4 == <<"process_init">>
<1>1. Tail(b1) = b2 /\ Head(b1) = "interrupt_init"
  OBVIOUS
<1>2. Tail(b2) = b3 /\ Head(b2) = "keyboard_init"
  OBVIOUS
<1>3. Tail(b3) = b4 /\ Head(b3) = "syscall_init"
  OBVIOUS
<1>4. Tail(b4) = <<>> /\ Head(b4) = "process_init"
  OBVIOUS
<1>5. b = b1 \/ b = b2 \/ b = b3 \/ b = b4
  BY DEF Boots
<1>6. {b2, b3, b4, <<>>} \subseteq Boots
  BY DEF Boots
<1> HIDE DEF b1, b2, b3, b4
<1> QED
  BY <1>1, <1>2, <1>3, <1>4, <1>5, <1>6

\* A call of main: process_init makes the first process, in a critical section.
LEMMA MainKeeps ==
  ASSUME CpuInv, NEW call, Main(call)
  PROVE  CpuInv'
<1>1. /\ Running /\ boot # <<>> /\ boot \in Boots /\ call = Head(boot) /\ boot' = Tail(boot)
      /\ UNCHANGED <<master, slave, tick, late, stopped>> /\ irr' \subseteq irr
      /\ ring = <<>> /\ pids = 0 /\ \A r \in Procs : stack[r] = <<>>
  BY DEF Main, CpuInv, CpuTypes, BootOK
<1>2. boot' \in Boots /\ (call = "process_init" => boot' = <<>>)
  BY <1>1, BootFacts
<1>3. CASE call # "process_init"
  <2>1. UNCHANGED <<ring, stack, pids>> /\ enabled' = TRUE
    BY <1>3 DEF Main
  <2>2. CpuTypes'
    BY <1>1, <1>2, <2>1 DEF CpuInv, CpuTypes
  <2>3. BootOK'
    BY <1>1, <2>1 DEF BootOK
  <2>4. ShapeOK' /\ DepthOK'
    BY <2>1 DEF CpuInv, ShapeOK, DepthOK, Exited
  <2>5. FlagOK' /\ TurnOK'
    BY <1>1, <2>1 DEF FlagOK, TurnOK
  <2> QED
    BY <2>2, <2>3, <2>4, <2>5 DEF CpuInv
<1>4. CASE call = "process_init"
  <2>1. PICK K, f, t : f = Frame("init", FALSE) /\ t = Append(<<>>, f) /\ K = [stack EXCEPT ![1] = t]
    OBVIOUS
  <2>2. 1 \in Procs /\ stack \in [Procs -> Seq(StackFrames)]
    <3>1. 1 \in Procs
      BY MaxPidAssumption DEF Procs
    <3> QED
      BY <3>1 DEF CpuInv, CpuTypes
  <2>3. ring' = <<1>> /\ pids' = 1 /\ stack' = K /\ enabled' = FALSE /\ stack[1] = <<>>
    BY <1>1, <1>4, <2>1, <2>2 DEF Main, Push
  <2>4. f \in StackFrames /\ f.at = "init"
    BY <2>1 DEF Frame, StackFrames, Places, CriticalPlaces
  <2>5. t \in Seq(StackFrames) /\ Len(t) = 1 /\ Shape(t) /\ TopOf(t) = "init"
    BY <2>1, <2>4, ShortStacks
  <2>6. K \in [Procs -> Seq(StackFrames)] /\ K[1] = t /\ \A r \in Procs : r # 1 => K[r] = <<>>
    BY <1>1, <2>1, <2>2, <2>5
  <2>7. PICK R : R = <<1>>
    OBVIOUS
  <2>8. R \in Seq(1..1) /\ Len(R) = 1 /\ R[1] = 1 /\ R # <<>>
    BY <2>7
  <2>9. CpuTypes'
    <3>1. 1 \in 0..MaxPid
      BY MaxPidAssumption
    <3>2. pids' \in 0..MaxPid /\ ring' \in Seq(1..pids')
      BY <2>3, <2>7, <2>8, <3>1
    <3> QED
      BY <1>1, <1>2, <2>3, <2>6, <3>2 DEF CpuInv, CpuTypes
  <2>10. BootOK'
    BY <1>2, <1>4 DEF BootOK
  <2>11. \A r \in Procs : Shape(K[r])
    BY <2>5, <2>6, ShortStacks
  <2>12. \A i \in 1..Len(R) : R[i] = R[1] /\ Len(K[R[i]]) <= 2 + (1 - Len(R))
    <3> SUFFICES ASSUME NEW i \in 1..Len(R)
                 PROVE  R[i] = R[1] /\ Len(K[R[i]]) <= 2 + (1 - Len(R))
      OBVIOUS
    <3>1. i = 1
      BY <2>8
    <3>2. Len(K[R[i]]) = 1
      BY <2>5, <2>6, <2>8, <3>1
    <3>3. PICK d, n : d = Len(K[R[i]]) /\ n = Len(R)
      OBVIOUS
    <3>4. d = 1 /\ n = 1
      BY <2>8, <3>2, <3>3
    <3>5. d <= 2 + (1 - n)
      BY ONLY <3>4
    <3> QED
      BY <3>1, <3>3, <3>5
  <2>13. /\ TopOf(K[R[1]]) \in CriticalPlaces /\ TopOf(K[R[1]]) \notin ReturnPlaces
         /\ Len(R) <= 1
    BY <2>5, <2>6, <2>8 DEF CriticalPlaces, ReturnPlaces
  <2> QED
    BY <2>3, <2>7, <2>9, <2>10, <2>11, <2>12, <2>13, NextInv
<1> QED
  BY <1>3, <1>4

\* The first state.
LEMMA InitHolds ==
  ASSUME Init
  PROVE  CpuInv
<1>1. /\ irr = {} /\ master = {} /\ slave = {} /\ enabled = FALSE /\ tick = 0 /\ late = 0
      /\ ring = <<>> /\ pids = 0 /\ stopped = "no" /\ stack = [p \in Procs |-> <<>>]
      /\ boot = <<"interrupt_init", "keyboard_init", "syscall_init", "process_init">>
  BY DEF Init, Procs
<1>2. stack \in [Procs -> Seq(StackFrames)] /\ \A p \in Procs : stack[p] = <<>>
  BY <1>1, ShortStacks
<1>3. ring \in Seq(1..pids) /\ Len(ring) = 0
  BY <1>1, EmptySeq
<1>4. CpuTypes
  <2>1. 0 \in 0..TailTicks /\ 0 \in 0..(TicksPerSwitch - 1) /\ 0 \in 0..MaxPid
    BY TicksAssumption, MaxPidAssumption
  <2> QED
    BY <1>1, <1>2, <1>3, <2>1 DEF CpuTypes, Boots, Stops
<1>5. BootOK
  BY <1>1, <1>2 DEF BootOK
<1>6. ShapeOK
  BY <1>2, ShortStacks DEF ShapeOK, Shape
<1>7. FlagOK /\ TurnOK
  BY <1>1 DEF FlagOK, TurnOK
<1>8. DepthOK
  BY <1>1, <1>3 DEF DepthOK
<1> QED
  BY <1>4, <1>5, <1>6, <1>7, <1>8 DEF CpuInv

\* Nothing of Interrupts changes.
LEMMA StillKeeps ==
  ASSUME CpuInv, UNCHANGED interruptVars
  PROVE  CpuInv'
<1>1. UNCHANGED <<irr, master, slave, enabled, ring, stack, late, pids, stopped, boot, tick>>
  BY DEF interruptVars, picVars, cpuVars
<1>2. CpuTypes' /\ BootOK' /\ ShapeOK' /\ DepthOK'
  BY <1>1 DEF CpuInv, CpuTypes, BootOK, ShapeOK, DepthOK, Exited
<1>3. FlagOK' /\ TurnOK'
  BY <1>1 DEF CpuInv, FlagOK, TurnOK, Running, Top, Depth, Exited
<1> QED
  BY <1>2, <1>3 DEF CpuInv

\* The end of a system call.
LEMMA CallReturnsKeeps ==
  ASSUME CpuInv, NEW p, CallReturns(p)
  PROVE  CpuInv'
<1>1. At(p, "call") /\ Iret(p) /\ UNCHANGED <<irr, master, slave, boot, tick, ring, pids, stopped>>
  BY DEF CallReturns, picVars
<1> QED
  BY <1>1, IretKeeps

\* execve does not find the file.
LEMMA ExecveFailsKeeps ==
  ASSUME CpuInv, NEW p, ExecveFails(p)
  PROVE  CpuInv'
<1>1. At(p, "critical") /\ Iret(p) /\ UNCHANGED <<irr, master, slave, boot, tick, ring, pids, stopped>>
  BY DEF ExecveFails, picVars
<1> QED
  BY <1>1, IretKeeps

\* A process is back where it was interrupted, or a child where its parent was.
LEMMA ResumeKeeps ==
  ASSUME CpuInv, NEW p, Resume(p)
  PROVE  CpuInv'
<1>1. Iret(p) /\ UNCHANGED <<irr, master, slave, boot, tick, ring, pids, stopped>>
  BY DEF Resume, picVars
<1>2. At(p, "switch") \/ At(p, "forked")
  BY DEF Resume
<1> QED
  BY <1>1, <1>2, IretKeeps

\* What the kernel does for a process.
LEMMA KernelStepKeeps ==
  ASSUME CpuInv, NEW p, KernelStep(p)
  PROVE  CpuInv'
<1>1. CASE Panics(p)
  <2>1. UNCHANGED <<irr, master, slave, ring, stack, late, pids, boot, tick>>
    BY <1>1 DEF Panics, picVars
  <2>2. enabled' \in BOOLEAN /\ stopped' \in Stops \ {"no"}
    BY <1>1 DEF Panics, Stops
  <2> QED
    BY <2>1, <2>2, StopKeeps
<1> QED
  BY <1>1, CallReturnsKeeps, CallPanicsKeeps, DisableKeeps, ForkKeeps, ToUserModeKeeps,
     ExecveFailsKeeps, ExitKeeps DEF KernelStep

\* Every step of Keyboard, for the part of it that is Interrupts.
LEMMA CpuStep ==
  ASSUME CpuInv, [Next]_vars
  PROVE  CpuInv'
<1>1. CASE UNCHANGED vars
  BY <1>1, StillKeeps DEF vars
<1>2. CASE Start
  BY <1>2, MainKeeps DEF Start
<1>3. ASSUME NEW p \in Procs, Enter(p) PROVE CpuInv'
  <2>1. CASE PageFault(p)
    <3>1. UNCHANGED <<irr, master, slave, ring, stack, late, pids, boot, tick>>
      BY <2>1 DEF PageFault, picVars
    <3>2. enabled' \in BOOLEAN /\ stopped' \in Stops \ {"no"}
      BY <2>1 DEF PageFault, Stops
    <3> QED
      BY <3>1, <3>2, StopKeeps
  <2> QED
    BY <1>3, <2>1, SystemCallKeeps, FaultKeeps DEF Enter, UserStep
<1>4. ASSUME NEW p \in Procs, dev_read(p) PROVE CpuInv'
  BY <1>4, StillKeeps DEF dev_read
<1>5. ASSUME NEW p \in Procs, Step(p) PROVE CpuInv'
  <2>1. CASE TakeIndex(p) \/ CountBuffer(p) \/ StoreBuffer(p)
    BY <2>1, StillKeeps DEF TakeIndex, CountBuffer, StoreBuffer
  <2>2. CASE ReadDone(p)
    BY <2>2, CallReturnsKeeps DEF ReadDone
  <2>3. CASE KernelStep(p)
    BY <2>3, KernelStepKeeps
  <2>4. CASE ExecveReads(p)
    <3>1. UNCHANGED <<irr, master, slave, enabled, ring, stack, late, pids, boot, tick>>
      BY <2>4 DEF ExecveReads, picVars
    <3>2. enabled' \in BOOLEAN /\ stopped' \in Stops \ {"no"}
      BY <2>4, <3>1 DEF ExecveReads, Stops, CpuInv, CpuTypes
    <3> QED
      BY <3>1, <3>2, StopKeeps
  <2> QED
    BY <1>5, <2>1, <2>2, <2>3, <2>4 DEF Step
<1>6. ASSUME NEW p \in Procs, GoesOn(p) PROVE CpuInv'
  BY <1>6, ResumeKeeps DEF GoesOn
<1>7. ASSUME NEW n \in Lines, Request(n) PROVE CpuInv'
  BY <1>7, RaiseKeeps DEF Request
<1>8. ASSUME NEW n \in Lines, Unhandled(n) PROVE CpuInv'
  <2>1. Serve(n) /\ UNCHANGED <<enabled, ring, stack, late, pids, boot, tick, stopped>>
    BY <1>8 DEF Unhandled, OtherIrq, cpuVars
  <2> QED
    BY <2>1, ServedKeeps
<1>9. CASE Switch
  BY <1>9, TickKeeps, SwitchKeeps DEF Switch
<1>10. ASSUME NEW code \in Codes, Key(code) PROVE CpuInv'
  <2>1. KeyboardLine \in Lines
    BY LinesAssumption
  <2>2. Serve(KeyboardLine) /\ UNCHANGED <<enabled, ring, stack, late, pids, boot, tick>>
    BY <1>10 DEF Key, KeyPress, KeyRelease, KeyboardIrq
  <2>3. stopped' \in {stopped, "wild write"}
    BY <1>10 DEF Key, KeyPress, KeyRelease, Deliver
  <2> QED
    BY <2>1, <2>2, <2>3, ServedKeeps
<1> QED
  BY <1>1, <1>2, <1>3, <1>4, <1>5, <1>6, <1>7, <1>8, <1>9, <1>10 DEF Next

\* CpuInv is an invariant.
LEMMA CpuAlways == Spec => []CpuInv
<1>1. ReadInit => CpuInv
  BY InitHolds DEF ReadInit
<1>2. CpuInv /\ [Next]_vars => CpuInv'
  BY CpuStep
<1> QED
  BY <1>1, <1>2, PTL DEF Spec

\* Interrupts are disabled exactly while the active process is in a critical
\* section, and no other process is in one (process.c:51, 108, 165, 196).
THEOREM CriticalUninterrupted == Spec => []CriticalAlone
<1>1. CpuInv => CriticalAlone
  <2> SUFFICES ASSUME CpuInv, Running, Booted
               PROVE  /\ enabled <=> ~Critical(Active)
                      /\ \A p \in Range(ring) : Critical(p) => p = Active
    BY DEF CriticalAlone
  <2>1. ring # <<>> /\ Active = ring[1]
    BY DEF Booted, Active
  <2>2. ring \in Seq(1..pids)
    BY DEF CpuInv, CpuTypes
  <2>3. Range(ring) = {ring[i] : i \in 1..Len(ring)}
    BY <2>2, RangeEquality
  <2> QED
    BY <2>1, <2>3 DEF CpuInv, FlagOK, Critical, CriticalPlaces
<1> QED
  BY <1>1, CpuAlways, PTL

\* A kernel stack never holds more than two frames, and one for every process
\* that has exited: ticks that come while a process is on its way back do not
\* pile up (timer.c:15, process.c:221-254).
THEOREM StacksBounded == Spec => []StackBounded
<1>1. CpuInv => StackBounded
  <2> SUFFICES ASSUME CpuInv PROVE \A p \in Range(ring) : Depth(p) <= 2 + (pids - Len(ring))
    BY DEF StackBounded
  <2>1. ring \in Seq(1..pids)
    BY DEF CpuInv, CpuTypes
  <2>2. Range(ring) = {ring[i] : i \in 1..Len(ring)}
    BY <2>1, RangeEquality
  <2> QED
    BY <2>2 DEF CpuInv, DepthOK, Exited, Depth
<1> QED
  BY <1>1, CpuAlways, PTL

-----------------------------------------------------------------------------
(***************************************************************************)
(* The keyboard.                                                           *)
(***************************************************************************)

\* Steps that leave the keyboard alone, after which the kernel runs only if it
\* ran before.
LEMMA QuietKeeps ==
  ASSUME UNCHANGED keyboardVars, Running' => Running
  PROVE  ReadTypes => ReadTypes'
BY DEF keyboardVars, readVars, ReadTypes

\* Such a step, for the reader.
LEMMA QuietReaders ==
  ASSUME ReadOK, UNCHANGED keyboardVars, Running' => Running
  PROVE  ReadOK'
BY DEF keyboardVars, readVars, ReadOK, ReaderOK

\* Every step of a process is one of a kernel that runs.
LEMMA OnlyRunning ==
  ASSUME Next
  PROVE  Running
<1>1. \A p, w : At(p, w) => Running
  BY DEF At
<1>2. ASSUME NEW p \in Procs, Enter(p) \/ dev_read(p) \/ Step(p) \/ GoesOn(p) PROVE Running
  BY <1>1, <1>2 DEF Enter, UserStep, SystemCall, Fault, PageFault, dev_read, Step, TakeIndex,
     CountBuffer, StoreBuffer, ReadDone, ExecveReads, Reads, KernelStep, CallReturns, CallPanics,
     Disable, Fork, ToUserMode, ExecveFails, Exit, Panics, GoesOn, Resume
<1>3. ASSUME NEW n \in Lines, Request(n) \/ Unhandled(n) PROVE Running
  BY <1>3 DEF Request, Raise, Unhandled, OtherIrq
<1>4. Start \/ Switch => Running
  BY DEF Start, Main, Switch, TimerIrq
<1>5. ASSUME NEW code \in Codes, Key(code) PROVE Running
  BY <1>5 DEF Key, KeyPress, KeyRelease, KeyboardIrq
<1> QED
  BY <1>2, <1>3, <1>4, <1>5 DEF Next

\* The steps that change what the keyboard or a reader has.
ReaderStep(p) ==
  dev_read(p) \/ TakeIndex(p) \/ CountBuffer(p) \/ StoreBuffer(p) \/ ReadDone(p)

\* Every step is one of a reader, an execve that reads, a key that goes down, a
\* key that goes up, or leaves the keyboard alone.
LEMMA StepKinds ==
  ASSUME [Next]_vars
  PROVE  \/ \E p \in Procs : ReaderStep(p)
         \/ \E p \in Procs : ExecveReads(p)
         \/ \E code \in Codes : KeyPress(code) \/ KeyRelease(code)
         \/ UNCHANGED keyboardVars /\ (Running' => Running)
<1>1. CASE UNCHANGED vars
  BY <1>1 DEF vars, interruptVars, cpuVars, Running
<1>2. CASE Next
  <2>1. Running
    BY <1>2, OnlyRunning
  <2> QED
    BY <1>2, <2>1 DEF Next, Start, Enter, Step, GoesOn, Request, Unhandled, Switch, Key, ReaderStep
<1> QED
  BY <1>1, <1>2

\* What a key that goes down writes.
LEMMA CharacterFacts ==
  ASSUME NEW code \in Codes, IsCharacter(code), shift \in BOOLEAN
  PROVE  get_key_character(code) \in Characters
BY DEF IsCharacter, get_key_character, Characters

\* The types of dev_read and of the handler.
LEMMA ReadTypesStep ==
  ASSUME CpuInv, ReadTypes, [Next]_vars
  PROVE  ReadTypes'
<1> SUFFICES ASSUME Running PROVE ReadTypes'
  <2>1. CASE UNCHANGED vars
    BY <2>1, QuietKeeps DEF vars, interruptVars, cpuVars, Running
  <2>2. CASE Next
    BY <2>2, OnlyRunning
  <2> QED
    BY <2>1, <2>2
<1>1. /\ num \in 0..MaxBuffers /\ stored \subseteq 0..MaxBuffers - 1 /\ shift \in BOOLEAN
      /\ pc \in [Procs -> {"out", "entered", "taken", "counted", "spin"}]
      /\ index \in [Procs -> 0..MaxBuffers] /\ kerb \in [Procs -> Keys]
      /\ \A p \in Procs : pc[p] = "counted" => index[p] < MaxBuffers
      /\ \A p \in Procs : pc[p] # "out" => p \in Readers
  BY DEF ReadTypes
<1>2. 0 \in 0..MaxBuffers /\ MaxBuffers \in Nat /\ NoKey \in Keys
  BY KeyboardAssumption DEF Keys
<1>3. ASSUME NEW p \in Procs, dev_read(p) PROVE ReadTypes'
  BY <1>1, <1>2, <1>3 DEF dev_read, Goto, ReadTypes
<1>4. ASSUME NEW p \in Procs, TakeIndex(p) PROVE ReadTypes'
  BY <1>1, <1>4 DEF TakeIndex, Goto, Reads, ReadTypes
<1>5. ASSUME NEW p \in Procs, CountBuffer(p) PROVE ReadTypes'
  <2>1. /\ pc[p] = "taken" /\ index[p] < MaxBuffers /\ num' = index[p] + 1
        /\ pc' = [pc EXCEPT ![p] = "counted"] /\ UNCHANGED <<stored, shift, index, kerb>>
    BY <1>5 DEF CountBuffer, Goto, Reads
  <2>2. PICK k : k = index[p]
    OBVIOUS
  <2>3. k \in 0..MaxBuffers /\ k < MaxBuffers
    BY <1>1, <2>1, <2>2
  <2>4. k + 1 \in 0..MaxBuffers
    BY <1>2, <2>3
  <2>5. num' \in 0..MaxBuffers
    BY <2>1, <2>2, <2>4
  <2>6. /\ pc' \in [Procs -> {"out", "entered", "taken", "counted", "spin"}] /\ pc'[p] = "counted"
        /\ \A q \in Procs : q # p => pc'[q] = pc[q]
    BY <1>1, <2>1
  <2>7. p \in Readers
    BY <1>1, <2>1
  <2> QED
    BY <1>1, <2>1, <2>5, <2>6, <2>7 DEF ReadTypes
<1>6. ASSUME NEW p \in Procs, StoreBuffer(p) PROVE ReadTypes'
  <2>1. /\ pc[p] = "counted" /\ stored' = stored \cup {index[p]}
        /\ pc' = [pc EXCEPT ![p] = "spin"] /\ UNCHANGED <<num, shift, index, kerb>>
    BY <1>6 DEF StoreBuffer, Goto, Reads
  <2>2. index[p] \in 0..MaxBuffers /\ index[p] < MaxBuffers
    BY <1>1, <2>1
  <2>3. index[p] \in 0..MaxBuffers - 1
    BY <1>2, <2>2
  <2>4. stored' \subseteq 0..MaxBuffers - 1
    BY <1>1, <2>1, <2>3
  <2> QED
    BY <1>1, <2>1, <2>4 DEF ReadTypes
<1>7. ASSUME NEW p \in Procs, ReadDone(p) PROVE ReadTypes'
  BY <1>1, <1>2, <1>7 DEF ReadDone, Goto, ReadTypes
<1>8. ASSUME NEW code \in Codes, KeyPress(code) PROVE ReadTypes'
  <2>1. UNCHANGED <<stored, pc, index>> /\ shift' \in BOOLEAN
    BY <1>1, <1>8 DEF KeyPress
  <2>2. num' \in 0..MaxBuffers
    BY <1>1, <1>2, <1>8 DEF KeyPress, Deliver
  <2>3. kerb' \in [Procs -> Keys]
    <3>1. CASE UNCHANGED kerb
      BY <1>1, <3>1
    <3>2. CASE /\ IsCharacter(code)
               /\ kerb' = [kerb EXCEPT ![Active] =
                             [received |-> TRUE, filled |-> 1, char |-> get_key_character(code)]]
      <4>1. get_key_character(code) \in Characters
        BY <1>1, <3>2, CharacterFacts
      <4>2. [received |-> TRUE, filled |-> 1, char |-> get_key_character(code)] \in Keys
        BY <4>1 DEF Keys
      <4> QED
        BY <1>1, <3>2, <4>2
    <3> QED
      BY <1>8, <3>1, <3>2 DEF KeyPress, Deliver
  <2> QED
    BY <1>1, <2>1, <2>2, <2>3 DEF ReadTypes
<1>9. ASSUME NEW code \in Codes, KeyRelease(code) PROVE ReadTypes'
  BY <1>1, <1>9 DEF KeyRelease, readVars, ReadTypes
<1>10. ASSUME NEW p \in Procs, ExecveReads(p) PROVE ReadTypes'
  <2>1. /\ num < MaxBuffers /\ num' = num + 1 /\ stored' = stored \cup {num} /\ shift' = shift
        /\ kerb' = [kerb EXCEPT ![p] = NoKey] /\ index' = [index EXCEPT ![p] = num]
        /\ pc' = [pc EXCEPT ![p] = "spin"] /\ stopped' = "spins"
    BY <1>10 DEF ExecveReads, Goto
  <2>2. num' \in 0..MaxBuffers /\ num \in 0..MaxBuffers - 1
    BY <1>1, <1>2, <2>1
  <2>3. ~Running'
    BY <2>1 DEF Running
  <2>4. \A q \in Procs : pc'[q] = "counted" => index'[q] < MaxBuffers
    BY <1>1, <2>1
  <2> QED
    BY <1>1, <1>2, <2>1, <2>2, <2>3, <2>4 DEF ReadTypes
<1> QED
  BY <1>3, <1>4, <1>5, <1>6, <1>7, <1>8, <1>9, <1>10, StepKinds, QuietKeeps DEF ReaderStep

\* The first state of the keyboard.
LEMMA ReadInitHolds ==
  ASSUME ReadInit
  PROVE  ReadTypes /\ ReadOK
<1>1. 0 \in 0..MaxBuffers /\ NoKey \in Keys /\ Readers \subseteq Procs
  BY KeyboardAssumption DEF Keys
<1>2. ReadTypes
  BY <1>1 DEF ReadInit, ReadTypes
<1>3. ReadOK
  BY <1>1 DEF ReadInit, ReadOK, ReaderOK
<1> QED
  BY <1>2, <1>3

\* Every field has its type: what a reader gets is the character of a key.
THEOREM KeyboardTypes == Spec => []TypeOK
<1>1. ReadInit => ReadTypes
  BY ReadInitHolds
<1>2. CpuInv /\ ReadTypes /\ [Next]_vars => ReadTypes'
  BY ReadTypesStep
<1>3. CpuInv /\ ReadTypes => TypeOK
  <2> SUFFICES ASSUME CpuInv, ReadTypes PROVE TypeOK
    OBVIOUS
  <2>1. CpuTypes
    BY DEF CpuInv
  <2>2. ring \in Seq(1..pids) /\ stack \in [Procs -> Seq(StackFrames)]
    BY <2>1 DEF CpuTypes
  <2>3. Range(ring) \subseteq 1..pids
    BY <2>2, RangeOfSeq
  <2>4. \A p \in 1..MaxPid : \A i \in 1..Depth(p) : stack[p][i] \in StackFrames
    BY <2>2 DEF Procs, Depth
  <2>5. InterruptsTypeOK
    BY <2>1, <2>3, <2>4 DEF CpuTypes, InterruptsTypeOK, StackFrames, Places, CriticalPlaces, ReturnPlaces
  <2> QED
    BY <2>1, <2>5 DEF TypeOK, ReadTypes, CpuTypes, Keys, Stops
<1> QED
  BY <1>1, <1>2, <1>3, CpuAlways, PTL DEF Spec

\* ReadTypes is an invariant.
LEMMA ReadTypesAlways == Spec => []ReadTypes
<1>1. ReadInit => ReadTypes
  BY ReadInitHolds
<1>2. CpuInv /\ ReadTypes /\ [Next]_vars => ReadTypes'
  BY ReadTypesStep
<1> QED
  BY <1>1, <1>2, CpuAlways, PTL DEF Spec

\* The steps of the only reader.
LEMMA ReaderStepKeeps ==
  ASSUME OneReader, ReadTypes, ReadOK, NEW p \in Procs, ReaderStep(p)
  PROVE  ReadOK'
<1>1. p \in Readers /\ \A q \in Readers : q = p
  BY DEF OneReader, ReaderStep, dev_read, TakeIndex, CountBuffer, StoreBuffer, ReadDone, Reads, At,
     ReadTypes
<1>2. Running
  BY DEF ReaderStep, dev_read, TakeIndex, CountBuffer, StoreBuffer, ReadDone, Reads, At
<1>3. ReaderOK(p)
  BY <1>1, <1>2 DEF ReadOK
<1>4. /\ pc \in [Procs -> {"out", "entered", "taken", "counted", "spin"}]
      /\ index \in [Procs -> 0..MaxBuffers] /\ kerb \in [Procs -> Keys]
  BY DEF ReadTypes
<1> SUFFICES ReaderOK(p)'
  BY <1>1 DEF ReadOK
<1>5. CASE dev_read(p)
  BY <1>3, <1>4, <1>5 DEF dev_read, Reads, Goto, ReaderOK
<1>6. CASE TakeIndex(p)
  BY <1>3, <1>4, <1>6 DEF TakeIndex, Reads, Goto, ReaderOK
<1>7. CASE CountBuffer(p)
  <2>1. /\ pc[p] = "taken" /\ num' = index[p] + 1 /\ pc' = [pc EXCEPT ![p] = "counted"]
        /\ UNCHANGED <<stored, index, kerb>>
    BY <1>7 DEF CountBuffer, Reads, Goto
  <2>2. index[p] = 0 /\ kerb[p] = NoKey
    BY <1>3, <2>1 DEF ReaderOK
  <2>3. num' = 1 /\ pc'[p] = "counted" /\ ~kerb'[p].received
    BY <1>4, <2>1, <2>2 DEF NoKey
  <2> QED
    BY <2>1, <2>2, <2>3 DEF ReaderOK
<1>8. CASE StoreBuffer(p)
  BY <1>3, <1>4, <1>8 DEF StoreBuffer, Reads, Goto, ReaderOK
<1>9. CASE ReadDone(p)
  BY <1>3, <1>4, <1>9 DEF ReadDone, Reads, Goto, ReaderOK
<1> QED
  BY <1>5, <1>6, <1>7, <1>8, <1>9 DEF ReaderStep

\* A key goes down: if a buffer is registered, it is the reader's, which waits
\* for it.
LEMMA KeyPressKeeps ==
  ASSUME OneReader, CpuInv, ReadTypes, ReadOK, NEW code \in Codes, KeyPress(code)
  PROVE  ReadOK'
<1>1. Running /\ UNCHANGED <<stored, pc, index, ring>>
  BY DEF KeyPress, KeyboardIrq
<1>2. /\ pc \in [Procs -> {"out", "entered", "taken", "counted", "spin"}]
      /\ kerb \in [Procs -> Keys] /\ num \in 0..MaxBuffers /\ Readers \subseteq Procs
      /\ \A p \in Procs : pc[p] # "out" => p \in Readers
  BY <1>1, KeyboardAssumption DEF ReadTypes
<1>3. CASE UNCHANGED <<num, kerb>>
  BY <1>1, <1>3 DEF ReadOK, ReaderOK
<1>4. CASE stopped' = "wild write"
  BY <1>4 DEF ReadOK, Running
<1>5. CASE num = 0 /\ num' = 0 /\ UNCHANGED kerb
  BY <1>1, <1>5 DEF ReadOK, ReaderOK
<1>6. ASSUME num # 0, num' = 0, Booted, InRead(Active),
             NEW char, kerb' = [kerb EXCEPT ![Active] = [received |-> TRUE, filled |-> 1, char |-> char]]
      PROVE  ReadOK'
  <2> SUFFICES ASSUME NEW p \in Readers PROVE ReaderOK(p)'
    BY <1>6 DEF ReadOK
  <2>1. ReaderOK(p) /\ p \in Procs
    BY <1>1, <1>2 DEF ReadOK
  <2>2. pc[p] \in {"counted", "spin"}
    BY <1>2, <1>6, <2>1 DEF ReaderOK
  <2>3. Active \in Procs
    <3>1. ring # <<>> /\ Active = ring[1]
      BY <1>6 DEF Booted, Active
    <3> QED
      BY <3>1, RingFacts DEF CpuInv
  <2>4. Active = p
    BY <1>2, <1>6, <2>3 DEF InRead, OneReader
  <2>5. kerb'[p].received /\ pc'[p] = pc[p]
    BY <1>1, <1>2, <1>6, <2>1, <2>4
  <2> QED
    BY <1>1, <1>6, <2>1, <2>2, <2>5 DEF ReaderOK
<1> QED
  BY <1>3, <1>4, <1>5, <1>6 DEF KeyPress, Deliver

\* Every step keeps the only reader's registration.
LEMMA ReadStep ==
  ASSUME OneReader, CpuInv, ReadTypes, ReadOK, [Next]_vars
  PROVE  ReadOK'
<1>1. ASSUME NEW code \in Codes, KeyRelease(code) PROVE ReadOK'
  BY <1>1 DEF KeyRelease, KeyboardIrq, readVars, ReadOK, ReaderOK
<1>2. ASSUME NEW p \in Procs, ExecveReads(p) PROVE ReadOK'
  BY <1>2 DEF ExecveReads, ReadOK, Running
<1> QED
  BY <1>1, <1>2, StepKinds, ReaderStepKeeps, KeyPressKeeps, QuietReaders

\* ReadOK is an invariant, if no two processes read.
LEMMA ReadAlways ==
  ASSUME OneReader
  PROVE  Spec => []ReadOK
<1>1. ReadInit => ReadOK
  BY ReadInitHolds
<1>2. CpuInv /\ ReadTypes /\ ReadOK /\ [Next]_vars => ReadOK'
  BY ReadStep
<1> QED
  BY <1>1, <1>2, CpuAlways, ReadTypesAlways, PTL DEF Spec

\* If no two processes read the keyboard, as when only the shell does: no read
\* leaves its descriptor registered when it returns (dev.c:25-27).
THEOREM NoneLeftBehind ==
  ASSUME OneReader
  PROVE  Spec => []NoStaleRegistration
<1>1. ReadTypes /\ ReadOK => NoStaleRegistration
  <2> SUFFICES ASSUME ReadTypes, ReadOK, Running, num > 0
               PROVE  \E p \in Readers : InRead(p) /\ ~kerb[p].received
    BY DEF NoStaleRegistration
  <2>1. num # 0 /\ Readers # {} /\ Readers \subseteq Procs
    BY KeyboardAssumption DEF ReadOK, ReadTypes
  <2>2. PICK p \in Readers : TRUE
    BY <2>1
  <2>3. ReaderOK(p) /\ pc[p] \in {"out", "entered", "taken", "counted", "spin"}
    BY <2>1, <2>2 DEF ReadOK, ReadTypes
  <2> QED
    BY <2>1, <2>2, <2>3 DEF ReaderOK, InRead
<1> QED
  BY <1>1, ReadAlways, ReadTypesAlways, PTL

\* If no two processes read the keyboard: a reader that spins is registered, or
\* it has its key (keyboard.c:52-58, dev.c:25).
THEOREM SpinEnds ==
  ASSUME OneReader
  PROVE  Spec => []SpinnerRegistered
<1>1. ReadOK => SpinnerRegistered
  <2> SUFFICES ASSUME ReadOK, NEW p \in Readers, Running, pc[p] = "spin", ~kerb[p].received
               PROVE  num > 0 /\ 0..num - 1 \subseteq stored
    BY DEF SpinnerRegistered
  <2>1. num = 1 /\ 0 \in stored
    BY DEF ReadOK, ReaderOK
  <2> QED
    BY <2>1
<1> QED
  BY <1>1, ReadAlways, PTL

\* If no two processes read the keyboard: the key that has come is the one the
\* read returns, no later key takes its place (keyboard.c:72-84).
THEOREM FirstKeyKept ==
  ASSUME OneReader
  PROVE  Spec => KeyKept
<1> DEFINE Kept == \A p \in Readers : kerb[p].received /\ InRead(p)' => kerb'[p] = kerb[p]
<1>1. ASSUME ReadTypes, ReadOK, [Next]_vars PROVE [Kept]_vars
  <2> SUFFICES ASSUME Next, NEW p \in Readers, kerb[p].received, InRead(p)'
               PROVE  kerb'[p] = kerb[p]
    <3>1. ASSUME UNCHANGED vars PROVE [Kept]_vars
      BY <3>1
    <3> QED
      BY <1>1, <3>1
  <2>1. Running
    BY OnlyRunning
  <2>2. /\ pc \in [Procs -> {"out", "entered", "taken", "counted", "spin"}] /\ p \in Procs
        /\ kerb \in [Procs -> Keys] /\ ReaderOK(p)
    BY <1>1, <2>1, KeyboardAssumption DEF ReadTypes, ReadOK
  <2>3. num = 0 /\ pc[p] \in {"counted", "spin"}
    BY <2>2 DEF ReaderOK, NoKey
  <2>4. ASSUME NEW q \in Procs, ReaderStep(q) PROVE kerb'[p] = kerb[p]
    <3>1. CASE q = p
      BY <2>2, <2>3, <2>4, <3>1
      DEF ReaderStep, dev_read, TakeIndex, CountBuffer, StoreBuffer, ReadDone, Reads, Goto, InRead
    <3>2. CASE q # p
      BY <2>2, <2>4, <3>2
      DEF ReaderStep, dev_read, TakeIndex, CountBuffer, StoreBuffer, ReadDone
    <3> QED
      BY <3>1, <3>2
  <2>5. ASSUME NEW code \in Codes, KeyPress(code) \/ KeyRelease(code) PROVE kerb'[p] = kerb[p]
    BY <2>3, <2>5 DEF KeyPress, KeyRelease, Deliver, readVars
  <2>6. CASE UNCHANGED keyboardVars
    BY <2>6 DEF keyboardVars, readVars
  <2>7. ASSUME NEW q \in Procs, ExecveReads(q) PROVE kerb'[p] = kerb[p]
    <3>1. q # p
      BY <2>3, <2>7 DEF ExecveReads, InRead
    <3> QED
      BY <2>2, <2>7, <3>1 DEF ExecveReads
  <2> QED
    BY <2>4, <2>5, <2>6, <2>7, StepKinds
<1>2. ReadTypes /\ ReadOK /\ [Next]_vars => [Kept]_vars
  BY <1>1
<1>3. Spec => [][Kept]_vars
  BY <1>2, ReadAlways, ReadTypesAlways, PTL DEF Spec
<1> QED
  BY <1>3 DEF KeyKept
=============================================================================
