------------------------------- MODULE Screen -------------------------------
(***************************************************************************)
(* The screen: screen.c under the system calls print, pos_cursor and       *)
(* clear_screen, the device file that dev_write is for, and the messages   *)
(* of the kernel, which come through printf.                               *)
(*                                                                         *)
(* The three calls and the write run with interrupts enabled, and nothing  *)
(* protects cursor_pos: another process may come between any two accesses  *)
(* to it (the build does not optimise, every mention of it is one).  The   *)
(* message of an interrupt handler is a call that nobody comes between.    *)
(* What is done to the video memory and to the chip is part of the access  *)
(* next to it, since only shift_one_line_up reads any of it back.          *)
(***************************************************************************)
EXTENDS Integers, Sequences, FiniteSets

CONSTANTS
  Procs,       \* the processes that use the screen
  Cols, Rows,  \* VIDEO_COLS_NUM, VIDEO_ROWS_NUM
  Texts,       \* bound: what is printed, sequences of Ink and Newline
  MaxPreempted \* bound: how often a process loses the CPU in the middle of a call

ASSUME ScreenAssumption == {Cols, Rows} \subseteq Nat \ {0}

Size == Cols * Rows
Blank == "blank"
Ink == "ink"
Newline == "newline"
Message == <<Ink, Newline>>  \* stands for what assert and panic print

ASSUME TextsAssumption == Texts \subseteq Seq({Ink, Newline})

VARIABLES
  cells,     \* the video memory that is shown
  cursor,    \* screen.cursor_pos
  shown,     \* where the chip shows the cursor
  pc,        \* what each process will do next
  rest,      \* what it has still to print
  mode,      \* "print": one call for each character, "write": one for all of
             \* them, "panic": as print, and then never back
  y, x,      \* what it has made of its readings of cursor_pos
  inCall,    \* the process that has the CPU, as a set: empty in user mode
  preempted, \* how often a process has lost it in the middle of a call
  expect     \* what it has to leave on the screen, if nobody comes between

shared == <<cells, cursor, shown>>
local == <<rest, mode, y, x>>
vars == <<shared, local, pc, inCall, preempted, expect>>

-----------------------------------------------------------------------------
\* / and % of C, which round towards zero.
Quot(n) == IF n >= 0 THEN n \div Cols ELSE -((-n) \div Cols)
Rem(n) == n - Cols * Quot(n)

\* A reference: the text is written on paper without an end, which is then
\* moved up as far as the last line needs.
After(pos, c) == IF c = Newline THEN (pos \div Cols + 1) * Cols ELSE pos + 1
Pen(start, text) ==
  LET pos[k \in 0..Len(text)] == IF k = 0 THEN start ELSE After(pos[k - 1], text[k])
  IN  pos
Written(was, start, text) ==
  LET pos == Pen(start, text)
      end == pos[Len(text)]
      up == IF end >= Size THEN end \div Cols - (Rows - 1) ELSE 0
      inked == {pos[k - 1] : k \in {j \in DOMAIN text : text[j] = Ink}}
      paper(i) == IF i \in inked THEN Ink ELSE IF i < Size THEN was[i] ELSE Blank
  IN  [cells |-> [i \in DOMAIN was |-> paper(i + up * Cols)],
       cursor |-> end - up * Cols, shown |-> end - up * Cols]

Printed(text) == Written(cells, cursor, text)
Screen == [cells |-> cells, cursor |-> cursor, shown |-> shown]
Nothing == [cells |-> <<>>, cursor |-> 0, shown |-> 0]

-----------------------------------------------------------------------------
\* After boot: some lines, the cursor somewhere below them.
Init ==
  /\ cursor \in 0..Size - 1
  /\ cells = [i \in 0..Size - 1 |-> IF i < cursor THEN Ink ELSE Blank]
  /\ shown = cursor
  /\ pc = [a \in Procs |-> "idle"]
  /\ rest = [a \in Procs |-> <<>>]
  /\ mode = [a \in Procs |-> "print"]
  /\ y = [a \in Procs |-> 0] /\ x = [a \in Procs |-> 0]
  /\ inCall = {} /\ preempted = 0
  /\ expect = [a \in Procs |-> Nothing]

\* Process a gets the CPU, if it has not got it, and goes on to its next
\* access; what the others expect is no longer theirs to promise.
GoesTo(a, next, promise) ==
  /\ pc' = [pc EXCEPT ![a] = next]
  /\ expect' = [b \in Procs |-> IF b = a /\ next # "idle" THEN promise ELSE Nothing]
  /\ inCall' = IF next \in {"idle", "panic"} THEN {} ELSE {a}
  /\ preempted' = preempted + Cardinality(inCall \ {a})
  /\ preempted' <= MaxPreempted

Does(a, where, next) == pc[a] = where /\ GoesTo(a, next, expect[a])

Put(f, a, value) == [f EXCEPT ![a] = value]

\* Where the loops over the text go on.
NextChar(text) == IF Head(text) = Newline THEN "newline" ELSE "y"
AfterChar(a) ==
  IF mode[a] # "write" \/ rest[a] = <<>> THEN "update" ELSE NextChar(rest[a])
AfterUpdate(a) ==
  CASE rest[a] # <<>>      -> NextChar(rest[a])
    [] mode[a] = "panic"   -> "panic"
    [] OTHER               -> "idle"

-----------------------------------------------------------------------------
\* The calls.

Begins(a, next, promise) ==
  /\ pc[a] = "idle"
  /\ GoesTo(a, next, IF cursor \in 0..Size - 1 THEN promise ELSE Nothing)

\* printf("%s", text), by the system call print.
print(a, text) ==
  /\ Begins(a, IF text = <<>> THEN "idle" ELSE NextChar(text),
            Printed(text))
  /\ rest' = Put(rest, a, text)
  /\ mode' = Put(mode, a, "print")
  /\ UNCHANGED <<shared, y, x>>

\* dev_write.
dev_write(a, text) ==
  /\ Begins(a, IF text = <<>> THEN "update" ELSE NextChar(text),
            Printed(text))
  /\ rest' = Put(rest, a, text)
  /\ mode' = Put(mode, a, "write")
  /\ UNCHANGED <<shared, y, x>>

\* The text cursor of the chip is not moved.  The asserts print, with
\* interrupts enabled, and do not return.
pos_cursor(a, col, row) ==
  /\ IF col < Cols /\ row < Rows
     THEN /\ Begins(a, "idle", Nothing)
          /\ cursor' = Cols * row + col
          /\ UNCHANGED <<rest, mode>>
     ELSE /\ Begins(a, NextChar(Message), Nothing)
          /\ rest' = Put(rest, a, Message)
          /\ mode' = Put(mode, a, "panic")
          /\ UNCHANGED cursor
  /\ UNCHANGED <<cells, shown, y, x>>

clear_screen(a) ==
  /\ Begins(a, "clear",
            [cells |-> [i \in DOMAIN cells |-> Blank], cursor |-> 0, shown |-> 0])
  /\ rest' = Put(rest, a, <<>>)
  /\ mode' = Put(mode, a, "write")
  /\ UNCHANGED <<shared, y, x>>

-----------------------------------------------------------------------------
\* screen_print_with_len, one access at a time.

\* y and x are two readings of the cursor,
ReadY(a) ==
  /\ Does(a, "y", "x")
  /\ y' = Put(y, a, Quot(cursor))
  /\ UNCHANGED <<shared, rest, mode, x>>

\* and print_at puts the character where they say; off the screen it does not
\* show.
ReadX(a) ==
  /\ Does(a, "x", "increment")
  /\ LET at == y[a] * Cols + Rem(cursor)
     IN  cells' = [i \in DOMAIN cells |-> IF i = at THEN Ink ELSE cells[i]]
  /\ y' = Put(y, a, 0)
  /\ UNCHANGED <<cursor, shown, rest, mode, x>>

\* ++cursor_pos is read here and written by Store,
Increment(a) ==
  /\ Does(a, "increment", "store")
  /\ x' = Put(x, a, cursor + 1)
  /\ UNCHANGED <<shared, rest, mode, y>>

\* and so is cursor_pos += Cols - (cursor_pos % Cols), after two readings.
ReadColumn(a) ==
  /\ Does(a, "newline", "break")
  /\ y' = Put(y, a, Rem(cursor))
  /\ UNCHANGED <<shared, rest, mode, x>>

BreakLine(a) ==
  /\ Does(a, "break", "store")
  /\ x' = Put(x, a, cursor + Cols - y[a])
  /\ y' = Put(y, a, 0)
  /\ UNCHANGED <<shared, rest, mode>>

Store(a) ==
  /\ Does(a, "store", "check")
  /\ cursor' = x[a]
  /\ x' = Put(x, a, 0)
  /\ rest' = Put(rest, a, Tail(rest[a]))
  /\ UNCHANGED <<cells, shown, mode, y>>

\* Mutant: the end is one position.
AtEnd_Exactly == cursor = Size

AtEnd == cursor >= Size

Check(a) ==
  /\ Does(a, "check", IF AtEnd THEN "subtract" ELSE AfterChar(a))
  /\ UNCHANGED <<shared, local>>

\* cursor_pos -= Cols is read,
Subtract(a) ==
  /\ Does(a, "subtract", "shift")
  /\ x' = Put(x, a, cursor - Cols)
  /\ UNCHANGED <<shared, rest, mode, y>>

\* Mutant: the last line is not cleared.
Shifted_Kept == [i \in DOMAIN cells |-> IF i + Cols < Size THEN cells[i + Cols] ELSE cells[i]]

Shifted == [i \in DOMAIN cells |-> IF i + Cols < Size THEN cells[i + Cols] ELSE Blank]

\* and written, and the lines move up.
shift_one_line_up(a) ==
  /\ Does(a, "shift", AfterChar(a))
  /\ cursor' = x[a]
  /\ x' = Put(x, a, 0)
  /\ cells' = Shifted
  /\ UNCHANGED <<shown, rest, mode, y>>

\* screen_clear.
Clear(a) ==
  /\ Does(a, "clear", "update")
  /\ cells' = [i \in DOMAIN cells |-> Blank]
  /\ cursor' = 0
  /\ UNCHANGED <<shown, local>>

\* The chip's cursor follows.  The code reads cursor_pos twice, once for each
\* half of what the chip gets (screen.c:49 and 52); here it is read once.
update_text_cursor(a) ==
  /\ Does(a, "update", AfterUpdate(a))
  /\ shown' = cursor
  /\ mode' = IF AfterUpdate(a) = "idle" THEN Put(mode, a, "print") ELSE mode
  /\ UNCHANGED <<cells, cursor, rest, y, x>>

Call(a) ==
  \/ \E text \in Texts : print(a, text) \/ dev_write(a, text)
  \/ \E col \in 0..Cols, row \in 0..Rows : pos_cursor(a, col, row)
  \/ clear_screen(a)

Access(a) ==
  \/ ReadY(a) \/ ReadX(a) \/ Increment(a) \/ ReadColumn(a) \/ BreakLine(a)
  \/ Store(a) \/ Check(a) \/ Subtract(a) \/ shift_one_line_up(a)
  \/ Clear(a) \/ update_text_cursor(a)

Next == \E a \in Procs : Call(a) \/ Access(a)

Spec == Init /\ [][Next]_vars

-----------------------------------------------------------------------------
\* However the reads, checks and writes of the cursor that all of them share
\* fall together (screen.c:113-126), the cursor drifts from the screen by one
\* line at the most each time that a process loses the CPU in the middle.
Confined ==
  cursor \in -(Cols * preempted)..(Size + Cols * preempted)

\* A call that nobody comes between leaves what it should: all of the text, as
\* if written on a sheet that has been moved up to its last line, the cursor
\* behind it, and the cursor of the chip there too (screen.c:107-144).
CallsRight ==
  [][\A a \in Procs : expect[a] # Nothing /\ pc'[a] = "idle"
                         => Screen' = expect[a]]_vars
=============================================================================
