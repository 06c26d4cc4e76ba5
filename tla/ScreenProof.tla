---------------------------- MODULE ScreenProof ----------------------------
(***************************************************************************)
(* Proofs that the cursor of Screen stays near the screen, and that a call *)
(* leaves what it should, for every size of the screen, every text and any *)
(* number of processes.                                                    *)
(*                                                                         *)
(* A process that loses the CPU pays a line of drift.  It keeps it as long *)
(* as it holds a reading of the cursor that it has not written back: the   *)
(* lines that are paid and not held are what the cursor may be off the     *)
(* screen by, at the bottom (Up) and at the top (Down).                    *)
(*                                                                         *)
(* For the calls, the text on paper is followed character by character:    *)
(* what is on the screen with the rest of the text written behind it, and  *)
(* moved up as that needs, is always what the call promised (Keeps).       *)
(***************************************************************************)
EXTENDS Screen, NaturalsLemmas, FiniteSetTheorems, SequenceTheorems, TLAPS

Phases == {"idle", "panic", "newline", "break", "y", "x", "increment", "store",
           "check", "subtract", "shift", "update", "clear"}

\* The processes that have lost the CPU in one of these phases.
Held(phases) == {a \in Procs : a \notin inCall /\ pc[a] \in phases}

\* A reading that a late write may add a line to, and one that may also take
\* a line away.
Adding == {"break", "store"}
Stale == {"break", "store", "subtract"}

Credit(phases) == preempted - Cardinality(Held(phases))
Up == Cols * Credit(Adding)
Down == Cols * Credit(Stale)

\* A line break is under way that has read a column left of the screen, and
\* may move the cursor by two lines; the cursor has then been off the top.
Overdue == \E a \in Procs : pc[a] = "break" /\ y[a] < 0

\* The character is on the screen, and the end of the screen not looked at.
Scrolling == {"check", "subtract", "shift"}

PcOK ==
  /\ pc \in [Procs -> Phases]
  /\ y \in [Procs -> Int] /\ x \in [Procs -> Int]
  /\ cursor \in Int /\ preempted \in Nat
  /\ inCall \subseteq Procs
  /\ \A a \in inCall : inCall = {a} /\ pc[a] \notin {"idle", "panic"}
  /\ IsFiniteSet(Held(Stale)) /\ IsFiniteSet(Held(Adding))
  /\ \A a \in Procs : pc[a] = "break" => y[a] > -Cols /\ y[a] < Cols

\* What the process that has the CPU has read is still so.
FreshOK ==
  \A a \in inCall :
    /\ pc[a] = "break" => y[a] = Rem(cursor)
    /\ pc[a] = "subtract" => cursor >= Size

CursorBelow ==
  IF \E a \in inCall : pc[a] \in Scrolling
  THEN cursor <= Size + Up - (IF Overdue THEN 1 ELSE 0)
  ELSE cursor < Size + Up - (IF Overdue THEN Cols ELSE 0)

\* What will be stored is not much below the screen, either.
StoresBelow ==
  \A a \in Procs :
    /\ pc[a] = "store" =>
         x[a] <= Size + Up - (IF a \in inCall /\ Overdue THEN 1 ELSE 0)
    /\ pc[a] = "shift" =>
         IF a \in inCall
         THEN x[a] <= Size + Up - Cols - (IF Overdue THEN 1 ELSE 0)
         ELSE x[a] < Size + Up - Cols

Above ==
  /\ Credit(Stale) >= (IF Overdue THEN 1 ELSE 0)
  /\ cursor + Down >= 0
  /\ \A a \in Procs : pc[a] \in {"store", "shift"} => x[a] + Down >= 0

IInv == PcOK /\ FreshOK /\ CursorBelow /\ StoresBelow /\ Above

-----------------------------------------------------------------------------
(***************************************************************************)
(* Lines and columns.                                                      *)
(***************************************************************************)

\* The remainder of the compiler's division is less than a line either way,
\* and has the sign of the cursor (screen.c:122, 127).
LEMMA RemRange ==
  ASSUME NEW n \in Int
  PROVE  /\ Quot(n) \in Int /\ Rem(n) \in Int
         /\ -Cols < Rem(n) /\ Rem(n) < Cols
         /\ n >= 0 => Rem(n) >= 0
         /\ n < 0 => Rem(n) <= 0 /\ Quot(n) <= 0
<1>1. Cols \in Nat /\ Cols > 0
  BY ScreenAssumption
<1>2. \A k \in Nat : /\ k \div Cols \in Int
                     /\ k - Cols * (k \div Cols) >= 0
                     /\ k - Cols * (k \div Cols) < Cols
                     /\ k \div Cols >= 0
  BY <1>1
<1>3. CASE n >= 0
  BY <1>1, <1>2, <1>3 DEF Quot, Rem
<1>4. CASE n < 0
  <2>1. -n \in Nat
    BY <1>4
  <2> DEFINE q == (-n) \div Cols
  <2>2. q \in Int /\ (-n) - Cols * q >= 0 /\ (-n) - Cols * q < Cols /\ q >= 0
    BY <2>1, <1>2
  <2>3. Quot(n) = -q
    BY <1>4 DEF Quot
  <2>4. Rem(n) = n - Cols * (-q)
    BY <2>3 DEF Rem
  <2>5. Rem(n) = -((-n) - Cols * q)
    BY <2>4, <2>2, <1>1
  <2> HIDE DEF q
  <2> QED
    BY <1>1, <1>4, <2>2, <2>3, <2>5
<1> QED
  BY <1>3, <1>4

\* A line break ends at the start of a line, and not below the line that the
\* cursor was above.
LEMMA NextLine ==
  ASSUME NEW n \in Int, NEW m \in Int, n < Cols * m
  PROVE  /\ n >= 0 => n + Cols - Rem(n) <= Cols * m
         /\ n < 0 => n + Cols - Rem(n) <= Cols
<1>1. Cols \in Nat /\ Cols > 0
  BY ScreenAssumption
<1>2. Quot(n) \in Int /\ n - Rem(n) = Cols * Quot(n)
  BY RemRange, <1>1 DEF Rem
<1> DEFINE q == Quot(n)
<1>3. n + Cols - Rem(n) = Cols * (q + 1)
  <2>1. Rem(n) \in Int /\ q \in Int
    BY RemRange
  <2>2. n - Rem(n) = Cols * q
    BY <1>2
  <2> HIDE DEF q
  <2>3. Cols * (q + 1) = Cols * q + Cols
    BY <1>1, <2>1
  <2> QED
    BY <1>1, <2>1, <2>2, <2>3
<1>4. CASE n >= 0
  <2>1. Cols * q <= n
    BY <1>1, <1>2, <1>4, RemRange
  <2>2. Cols * q < Cols * m
    BY <2>1, <1>1, <1>2
  <2> HIDE DEF q
  <2>3. q < m
    BY <2>2, <1>1, <1>2 DEF q
  <2>4. Cols * (q + 1) <= Cols * m
    BY <2>3, <1>1, <1>2 DEF q
  <2> QED
    BY <1>3, <1>4, <2>4
<1>5. CASE n < 0
  <2>1. q \in Int /\ q <= 0
    BY <1>5, RemRange
  <2> HIDE DEF q
  <2>2. Cols * q <= 0
    BY <2>1, <1>1
  <2> QED
    BY <1>1, <1>3, <1>5, <2>1, <2>2
<1> QED
  BY <1>4, <1>5

-----------------------------------------------------------------------------
(***************************************************************************)
(* Credits.                                                                *)
(***************************************************************************)

\* Process a takes the CPU from another in the middle of a call that holds no
\* reading of these phases; process a goes on with one that it held.
Preempts(a, phases) == \E b \in inCall : b # a /\ pc[b] \notin phases
Resumes(a, phases) == a \notin inCall /\ pc[a] \in phases

\* A credit for each of these, and none is ever lost.
LEMMA CreditStep ==
  ASSUME PcOK, NEW a \in Procs, NEW next \in Phases, NEW promise,
         GoesTo(a, next, promise),
         NEW S, "idle" \notin S, "panic" \notin S, IsFiniteSet(Held(S))
  PROVE  /\ IsFiniteSet(Held(S)')
         /\ Cardinality(Held(S)) \in Nat
         /\ preempted' \in Nat
         /\ Credit(S) \in Int
         /\ Credit(S)' = Credit(S) + (IF Preempts(a, S) THEN 1 ELSE 0)
                                   + (IF Resumes(a, S) THEN 1 ELSE 0)
<1> DEFINE H == Held(S)
           late == {b \in inCall : b # a /\ pc[b] \in S}
<1>1. inCall = {} \/ \E b \in Procs : inCall = {b}
  BY Zenon DEF PcOK
<1>2. Held(S)' = (H \cup late) \ {a}
  <2>1. pc \in [Procs -> Phases] /\ inCall \subseteq Procs
    BY DEF PcOK
  <2>2. pc' = [pc EXCEPT ![a] = next]
    BY DEF GoesTo
  <2>3. inCall' = IF next \in {"idle", "panic"} THEN {} ELSE {a}
    BY DEF GoesTo
  <2>4. a \notin Held(S)'
    BY <2>1, <2>2, <2>3 DEF Held
  <2>5. \A b \in Procs : b # a => (b \in Held(S)' <=> pc[b] \in S)
    BY <2>1, <2>2, <2>3 DEF Held
  <2>6. \A b \in Procs : b # a => (b \in H \cup late <=> pc[b] \in S)
    BY <2>1 DEF Held
  <2>7. Held(S)' \subseteq Procs /\ H \cup late \subseteq Procs
    BY <2>1 DEF Held
  <2> QED
    BY <2>4, <2>5, <2>6, <2>7, Zenon
<1>3. preempted \in Nat /\ preempted' = preempted + Cardinality(inCall \ {a})
  BY DEF PcOK, GoesTo
<1>4. Cardinality(H) \in Nat
  BY FS_CardinalityType
<1>5. a \in H <=> Resumes(a, S)
  BY DEF Held, Resumes
<1>6. /\ IsFiniteSet(H \ {a})
      /\ Cardinality(H \ {a}) = Cardinality(H) - (IF Resumes(a, S) THEN 1 ELSE 0)
  <2>1. /\ IsFiniteSet(H \ {a})
        /\ Cardinality(H \ {a}) = IF a \in H THEN Cardinality(H) - 1 ELSE Cardinality(H)
    BY FS_RemoveElement, Zenon
  <2> QED
    BY <1>4, <1>5, <2>1
<1>7. CASE inCall \subseteq {a}
  <2>1. late = {} /\ inCall \ {a} = {} /\ ~Preempts(a, S)
    BY <1>7 DEF Preempts
  <2>2. Cardinality(inCall \ {a}) = 0
    BY <2>1, FS_EmptySet
  <2>3. Held(S)' = H \ {a}
    BY <1>2, <2>1
  <2> QED
    BY <1>3, <1>4, <1>6, <2>1, <2>2, <2>3 DEF Credit
<1>8. CASE \E b \in Procs : inCall = {b} /\ b # a
  <2>1. PICK b \in Procs : inCall = {b} /\ b # a
    BY <1>8
  <2>2. Cardinality(inCall \ {a}) = 1
    <3>1. inCall \ {a} = {b}
      BY <2>1
    <3> QED
      BY <3>1, FS_Singleton
  <2>3. b \notin H
    BY <2>1 DEF Held
  <2>4. CASE pc[b] \in S
    <3>1. late = {b} /\ ~Preempts(a, S)
      BY <2>1, <2>4 DEF Preempts
    <3>2. Held(S)' = (H \ {a}) \cup {b}
      BY <1>2, <2>1, <3>1
    <3>3. IsFiniteSet(Held(S)') /\ Cardinality(Held(S)') = Cardinality(H \ {a}) + 1
      <4>1. b \notin H \ {a}
        BY <2>3
      <4>2. /\ IsFiniteSet((H \ {a}) \cup {b})
            /\ Cardinality((H \ {a}) \cup {b}) =
                 IF b \in H \ {a} THEN Cardinality(H \ {a}) ELSE Cardinality(H \ {a}) + 1
        BY <1>6, FS_AddElement, Zenon
      <4> QED
        BY <3>2, <4>1, <4>2
    <3> QED
      BY <1>3, <1>4, <1>6, <2>2, <3>1, <3>3 DEF Credit
  <2>5. CASE pc[b] \notin S
    <3>1. late = {} /\ Preempts(a, S)
      BY <2>1, <2>5 DEF Preempts
    <3>2. Held(S)' = H \ {a}
      BY <1>2, <3>1
    <3> QED
      BY <1>3, <1>4, <1>6, <2>2, <3>1, <3>2 DEF Credit
  <2> QED
    BY <2>4, <2>5
<1> QED
  BY <1>1, <1>7, <1>8

\* A line for each credit.
LEMMA LinesStep ==
  ASSUME IInv, NEW a \in Procs, NEW next \in Phases, NEW promise,
         GoesTo(a, next, promise)
  PROVE  /\ Up \in Int /\ Down \in Int /\ Up' \in Int /\ Down' \in Int
         /\ Credit(Stale) \in Int /\ Credit(Stale)' \in Int /\ Credit(Adding) \in Int
         /\ Up' = Up + (IF Preempts(a, Adding) THEN Cols ELSE 0)
                     + (IF Resumes(a, Adding) THEN Cols ELSE 0)
         /\ Down' = Down + (IF Preempts(a, Stale) THEN Cols ELSE 0)
                         + (IF Resumes(a, Stale) THEN Cols ELSE 0)
         /\ Credit(Stale)' >= Credit(Stale)
         /\ Down >= 0 /\ Up >= Down
         /\ Credit(Stale) >= 1 <=> Down >= Cols
         /\ IsFiniteSet(Held(Stale)') /\ IsFiniteSet(Held(Adding)')
         /\ preempted' \in Nat
<1>1. Cols \in Nat /\ Cols > 0
  BY ScreenAssumption
<1>2. PcOK /\ IsFiniteSet(Held(Stale)) /\ IsFiniteSet(Held(Adding)) /\ preempted \in Nat
  BY DEF IInv, PcOK
<1>3. "idle" \notin Adding /\ "panic" \notin Adding /\ "idle" \notin Stale /\ "panic" \notin Stale
  BY DEF Adding, Stale
<1>4. /\ IsFiniteSet(Held(Stale)')
      /\ Cardinality(Held(Stale)) \in Nat
      /\ preempted' \in Nat
      /\ Credit(Stale) \in Int
      /\ Credit(Stale)' = Credit(Stale) + (IF Preempts(a, Stale) THEN 1 ELSE 0)
                                        + (IF Resumes(a, Stale) THEN 1 ELSE 0)
  BY <1>2, <1>3, CreditStep, Zenon
<1>5. /\ IsFiniteSet(Held(Adding)')
      /\ Cardinality(Held(Adding)) \in Nat
      /\ Credit(Adding) \in Int
      /\ Credit(Adding)' = Credit(Adding) + (IF Preempts(a, Adding) THEN 1 ELSE 0)
                                          + (IF Resumes(a, Adding) THEN 1 ELSE 0)
  BY <1>2, <1>3, CreditStep, Zenon
<1>6. Cardinality(Held(Adding)) <= Cardinality(Held(Stale))
  <2>1. Held(Adding) \subseteq Held(Stale)
    BY DEF Held, Adding, Stale
  <2> QED
    BY <1>2, <2>1, FS_Subset
<1>7. Credit(Adding) >= Credit(Stale) /\ Credit(Stale) >= 0
  <2>1. Credit(Stale) >= (IF Overdue THEN 1 ELSE 0)
    BY DEF IInv, Above
  <2>2. Credit(Stale) >= 0
    BY <2>1, <1>4
  <2> QED
    BY <1>2, <1>4, <1>5, <1>6, <2>2 DEF Credit
<1>8. \A c, d \in Int : /\ c >= d => Cols * c >= Cols * d
                       /\ Cols * c \in Int
                       /\ Cols * (c + 1) = Cols * c + Cols
                       /\ Cols * (c + 2) = Cols * c + Cols + Cols
  BY <1>1
<1>9. Cols * 0 = 0 /\ Cols * 1 = Cols
  BY <1>1
<1>10. Credit(Adding)' \in Int /\ Credit(Stale)' \in Int /\ Credit(Stale)' >= Credit(Stale)
  BY <1>4, <1>5
<1>11. Up \in Int /\ Down \in Int /\ Up' \in Int /\ Down' \in Int
  BY <1>4, <1>5, <1>8, <1>10 DEF Up, Down
<1>12. Up' = Up + (IF Preempts(a, Adding) THEN Cols ELSE 0)
                + (IF Resumes(a, Adding) THEN Cols ELSE 0)
  BY <1>1, <1>5, <1>8, <1>11 DEF Up
<1>13. Down' = Down + (IF Preempts(a, Stale) THEN Cols ELSE 0)
                    + (IF Resumes(a, Stale) THEN Cols ELSE 0)
  BY <1>1, <1>4, <1>8, <1>11 DEF Down
<1>14. Down >= 0 /\ Up >= Down
  BY <1>4, <1>5, <1>7, <1>8, <1>9 DEF Up, Down
<1>15. Credit(Stale) >= 1 <=> Down >= Cols
  BY <1>1, <1>4, <1>7 DEF Down
<1> QED
  BY <1>4, <1>5, <1>10, <1>11, <1>12, <1>13, <1>14, <1>15

-----------------------------------------------------------------------------
(***************************************************************************)
(* What a step may rely on, and what it has to show.                       *)
(***************************************************************************)

\* Another process has such a line break under way.
Late(a) == \E b \in Procs : b # a /\ pc[b] = "break" /\ y[b] < 0

\* The room that the cursor has at the bottom when process a takes a step: one
\* that another has left in the middle is paid for.
LEMMA Room ==
  ASSUME IInv, NEW a \in Procs, NEW next \in Phases, NEW promise,
         GoesTo(a, next, promise),
         NEW up \in Int, up = Up', NEW down \in Int, down = Down'
  PROVE  /\ Cols \in Nat /\ Cols > 0 /\ Size \in Nat /\ Size >= Cols
         /\ cursor \in Int /\ cursor + Down >= 0
         /\ Up \in Int /\ Down \in Int /\ up \in Int /\ down \in Int
         /\ up >= Down /\ Down >= 0 /\ down >= Down /\ up >= Up
         /\ Late(a) => Overdue /\ up >= Cols
         /\ Overdue => up >= Cols
         /\ Resumes(a, Stale) => down >= Down + Cols
         /\ Resumes(a, Adding) => up >= Up + Cols
         /\ a \notin inCall \/ pc[a] \notin Scrolling =>
              cursor < Size + up - (IF Resumes(a, Adding) THEN Cols ELSE 0)
                                  - (IF Overdue THEN Cols ELSE 0)
         /\ a \in inCall /\ pc[a] \in Scrolling =>
              cursor <= Size + up - (IF Overdue THEN 1 ELSE 0)
<1>1. Cols \in Nat /\ Cols > 0 /\ Size \in Nat /\ Size >= Cols
  <2>1. Cols \in Nat /\ Rows \in Nat /\ Cols > 0 /\ Rows >= 1
    BY ScreenAssumption
  <2>2. Cols * Rows >= Cols /\ Cols * Rows \in Nat
    BY <2>1
  <2> QED
    BY <2>1, <2>2 DEF Size
<1>2. cursor \in Int /\ cursor + Down >= 0
  BY DEF IInv, PcOK, Above
<1>3. /\ Up \in Int /\ Down \in Int /\ up \in Int /\ down \in Int
      /\ up = Up + (IF Preempts(a, Adding) THEN Cols ELSE 0)
                  + (IF Resumes(a, Adding) THEN Cols ELSE 0)
      /\ down = Down + (IF Preempts(a, Stale) THEN Cols ELSE 0)
                      + (IF Resumes(a, Stale) THEN Cols ELSE 0)
      /\ Down >= 0 /\ Up >= Down
      /\ Credit(Stale) \in Int
      /\ Credit(Stale) >= 1 <=> Down >= Cols
  BY LinesStep, Zenon
<1>4. /\ down >= Down /\ up >= Up
      /\ Resumes(a, Stale) => down >= Down + Cols
      /\ Resumes(a, Adding) => up >= Up + Cols
  BY <1>1, <1>3
<1>5. Overdue => Up >= Cols
  <2>1. Credit(Stale) >= (IF Overdue THEN 1 ELSE 0)
    BY DEF IInv, Above
  <2> QED
    BY <1>1, <1>3, <2>1
<1>6. Late(a) => Overdue
  BY DEF Late, Overdue
<1>7. \A b \in inCall : inCall = {b}
  BY DEF IInv, PcOK
<1>8. ASSUME a \notin inCall
      PROVE  cursor < Size + up - (IF Resumes(a, Adding) THEN Cols ELSE 0)
                                 - (IF Overdue THEN Cols ELSE 0)
  <2>1. CASE \E b \in inCall : pc[b] \in Scrolling
    <3>1. cursor <= Size + Up - (IF Overdue THEN 1 ELSE 0)
      BY <2>1 DEF IInv, CursorBelow
    <3>2. Preempts(a, Adding)
      BY <1>8, <2>1 DEF Preempts, Scrolling, Adding
    <3>3. up = Up + Cols + (IF Resumes(a, Adding) THEN Cols ELSE 0)
      BY <1>1, <1>3, <3>2
    <3> QED
      BY <1>1, <1>2, <1>3, <3>1, <3>3
  <2>2. CASE ~\E b \in inCall : pc[b] \in Scrolling
    <3>1. cursor < Size + Up - (IF Overdue THEN Cols ELSE 0)
      BY <2>2 DEF IInv, CursorBelow
    <3> QED
      BY <1>1, <1>2, <1>3, <3>1
  <2> QED
    BY <2>1, <2>2
<1>9. ASSUME a \in inCall
      PROVE  /\ ~Resumes(a, Adding)
             /\ pc[a] \notin Scrolling =>
                  cursor < Size + up - (IF Overdue THEN Cols ELSE 0)
             /\ pc[a] \in Scrolling =>
                  cursor <= Size + up - (IF Overdue THEN 1 ELSE 0)
  <2>1. inCall = {a}
    BY <1>7, <1>9
  <2>2. ~Resumes(a, Adding) /\ ~Preempts(a, Adding)
    BY <2>1 DEF Resumes, Preempts
  <2>3. up = Up
    BY <1>3, <2>2
  <2>4. (\E b \in inCall : pc[b] \in Scrolling) <=> pc[a] \in Scrolling
    BY <2>1
  <2> QED
    BY <2>2, <2>3, <2>4 DEF IInv, CursorBelow
<1>10. a \notin inCall \/ pc[a] \notin Scrolling =>
         cursor < Size + up - (IF Resumes(a, Adding) THEN Cols ELSE 0)
                             - (IF Overdue THEN Cols ELSE 0)
  <2>1. CASE a \notin inCall
    BY <1>8, <2>1
  <2>2. CASE a \in inCall
    BY <1>1, <1>2, <1>3, <1>9, <2>2
  <2> QED
    BY <2>1, <2>2
<1>11. up >= Down /\ (Overdue => up >= Cols)
  BY <1>1, <1>3, <1>4, <1>5
<1> QED
  BY <1>1, <1>2, <1>3, <1>4, <1>6, <1>9, <1>10, <1>11

\* What a step of process a, which leaves the others where they are, has to
\* show of its own.
LEMMA OneSteps ==
  ASSUME IInv, NEW a \in Procs, NEW next \in Phases, NEW promise,
         GoesTo(a, next, promise),
         NEW up \in Int, up = Up', NEW down \in Int, down = Down',
         y' \in [Procs -> Int], x' \in [Procs -> Int], cursor' \in Int,
         \A b \in Procs : b # a => y'[b] = y[b] /\ x'[b] = x[b],
         NEW late \in BOOLEAN, late <=> Late(a) \/ (next = "break" /\ y'[a] < 0),
         next = "break" => /\ y'[a] = Rem(cursor')
                           /\ y'[a] < 0 => down >= Cols,
         next = "subtract" => cursor' >= Size,
         next \in Scrolling => cursor' <= Size + up - (IF late THEN 1 ELSE 0),
         next \notin Scrolling => cursor' < Size + up - (IF late THEN Cols ELSE 0),
         next = "store" => x'[a] <= Size + up - (IF late THEN 1 ELSE 0),
         next = "shift" => x'[a] <= Size + up - Cols - (IF late THEN 1 ELSE 0),
         cursor' + down >= 0,
         next \in {"store", "shift"} => x'[a] + down >= 0
  PROVE  IInv'
<1> DEFINE here == IF next \in {"idle", "panic"} THEN {} ELSE {a}
<1>1. /\ pc' = [pc EXCEPT ![a] = next]
      /\ inCall' = here
  BY DEF GoesTo
<1>2. pc \in [Procs -> Phases] /\ inCall \subseteq Procs
  BY DEF IInv, PcOK
<1>3. /\ pc' \in [Procs -> Phases] /\ pc'[a] = next
      /\ \A b \in Procs : b # a => pc'[b] = pc[b] /\ b \notin inCall'
  BY <1>1, <1>2
<1>4. /\ Cols \in Nat /\ Cols > 0 /\ Size \in Nat /\ Size >= Cols
      /\ Up \in Int /\ Down \in Int /\ up \in Int /\ down \in Int
      /\ Down >= 0 /\ down >= Down /\ up >= Up
  BY Room, Zenon
<1>5. Overdue' <=> late
  BY <1>3 DEF Overdue, Late
<1>6. PcOK'
  <2>1. IsFiniteSet(Held(Stale)') /\ IsFiniteSet(Held(Adding)') /\ preempted' \in Nat
    BY LinesStep, Zenon
  <2>2. \A b \in inCall' : inCall' = {b} /\ pc'[b] \notin {"idle", "panic"}
    BY <1>1, <1>3
  <2>3. \A b \in Procs : pc'[b] = "break" => y'[b] > -Cols /\ y'[b] < Cols
    <3> SUFFICES ASSUME NEW b \in Procs, pc'[b] = "break"
                 PROVE  y'[b] > -Cols /\ y'[b] < Cols
      OBVIOUS
    <3>1. CASE b = a
      BY <1>3, <1>4, <3>1, RemRange
    <3>2. CASE b # a
      BY <1>3, <3>2 DEF IInv, PcOK
    <3> QED
      BY <3>1, <3>2
  <2>4. inCall' \subseteq Procs
    BY <1>1
  <2> QED
    BY <1>3, <2>1, <2>2, <2>3, <2>4 DEF PcOK
<1>7. FreshOK'
  <2>1. \A b \in inCall' : b = a
    BY <1>1
  <2> QED
    BY <1>3, <2>1 DEF FreshOK, Size, Rem, Quot
<1>8. CursorBelow'
  <2>1. (\E b \in inCall' : pc'[b] \in Scrolling) <=> next \in Scrolling
    BY <1>1, <1>3 DEF Scrolling
  <2>2. CASE next \in Scrolling
    BY <1>5, <2>1, <2>2 DEF CursorBelow, Size
  <2>3. CASE next \notin Scrolling
    BY <1>5, <2>1, <2>3 DEF CursorBelow, Size
  <2> QED
    BY <2>2, <2>3
<1>9. \A b \in Procs : b # a =>
        /\ pc[b] = "store" => x[b] <= Size + Up
        /\ pc[b] = "shift" => x[b] <= Size + Up - Cols
        /\ pc[b] = "shift" /\ b \notin inCall => x[b] < Size + Up - Cols
        /\ pc[b] \in {"store", "shift"} => x[b] + Down >= 0
  <2> SUFFICES ASSUME NEW b \in Procs, b # a
               PROVE  /\ pc[b] = "store" => x[b] <= Size + Up
                      /\ pc[b] = "shift" => x[b] <= Size + Up - Cols
                      /\ pc[b] = "shift" /\ b \notin inCall => x[b] < Size + Up - Cols
                      /\ pc[b] \in {"store", "shift"} => x[b] + Down >= 0
    OBVIOUS
  <2>1. x[b] \in Int
    BY DEF IInv, PcOK
  <2>2. pc[b] = "store" => x[b] <= Size + Up - (IF b \in inCall /\ Overdue THEN 1 ELSE 0)
    BY DEF IInv, StoresBelow
  <2>3. pc[b] = "shift" => IF b \in inCall
                           THEN x[b] <= Size + Up - Cols - (IF Overdue THEN 1 ELSE 0)
                           ELSE x[b] < Size + Up - Cols
    BY DEF IInv, StoresBelow
  <2>4. pc[b] \in {"store", "shift"} => x[b] + Down >= 0
    BY DEF IInv, Above
  <2> QED
    BY <1>4, <2>1, <2>2, <2>3, <2>4
<1>10. \A b \in Procs : b # a /\ pc[b] = "shift" /\ b \in inCall => up >= Up + Cols
  <2> SUFFICES ASSUME NEW b \in Procs, b # a, pc[b] = "shift", b \in inCall
               PROVE  up >= Up + Cols
    OBVIOUS
  <2>1. Preempts(a, Adding)
    BY DEF Preempts, Adding
  <2>2. up = Up + (IF Preempts(a, Adding) THEN Cols ELSE 0)
                 + (IF Resumes(a, Adding) THEN Cols ELSE 0)
    BY LinesStep, Zenon
  <2> QED
    BY <1>4, <2>1, <2>2
<1>11. StoresBelow'
  <2> SUFFICES ASSUME NEW b \in Procs
               PROVE  /\ pc'[b] = "store" =>
                           x'[b] <= Size + up - (IF b \in inCall' /\ Overdue' THEN 1 ELSE 0)
                      /\ pc'[b] = "shift" =>
                           IF b \in inCall'
                           THEN x'[b] <= Size + up - Cols - (IF Overdue' THEN 1 ELSE 0)
                           ELSE x'[b] < Size + up - Cols
    BY DEF StoresBelow, Size
  <2>1. x'[b] \in Int
    OBVIOUS
  <2>2. CASE b = a
    <3>1. pc'[b] = next /\ (next \in {"store", "shift"} => b \in inCall')
      BY <1>1, <1>3, <2>2
    <3> QED
      BY <1>4, <1>5, <2>1, <2>2, <3>1
  <2>3. CASE b # a
    <3>1. pc'[b] = pc[b] /\ b \notin inCall' /\ x'[b] = x[b]
      BY <1>3, <2>3
    <3>2. pc[b] = "store" => x[b] <= Size + up
      BY <1>4, <1>9, <2>1, <2>3, <3>1
    <3>3. pc[b] = "shift" => x[b] < Size + up - Cols
      BY <1>4, <1>9, <1>10, <2>1, <2>3, <3>1
    <3> QED
      BY <1>4, <2>1, <3>1, <3>2, <3>3
  <2> QED
    BY <2>2, <2>3
<1>12. Above'
  <2>1. Credit(Stale)' >= (IF Overdue' THEN 1 ELSE 0)
    <3>1. /\ Credit(Stale) \in Int /\ Credit(Stale)' \in Int
          /\ Credit(Stale)' >= Credit(Stale)
      BY LinesStep, Zenon
    <3>2. Credit(Stale) >= (IF Overdue THEN 1 ELSE 0)
      BY DEF IInv, Above
    <3>3. Late(a) => Overdue
      BY DEF Late, Overdue
    <3>4. ASSUME next = "break", y'[a] < 0
          PROVE  Credit(Stale)' >= 1
      <4>1. Cols * Credit(Stale)' >= Cols
        BY <3>4 DEF Down
      <4> QED
        BY <1>4, <3>1, <4>1
    <3> QED
      BY <1>5, <3>1, <3>2, <3>3, <3>4
  <2>2. \A b \in Procs : pc'[b] \in {"store", "shift"} => x'[b] + down >= 0
    <3> SUFFICES ASSUME NEW b \in Procs, pc'[b] \in {"store", "shift"}
                 PROVE  x'[b] + down >= 0
      OBVIOUS
    <3>1. CASE b = a
      BY <1>3, <3>1
    <3>2. CASE b # a
      <4>1. x[b] + Down >= 0 /\ x'[b] = x[b] /\ x'[b] \in Int
        BY <1>3, <1>9, <3>2
      <4> QED
        BY <1>4, <4>1
    <3> QED
      BY <3>1, <3>2
  <2> QED
    BY <2>1, <2>2 DEF Above
<1> QED
  BY <1>6, <1>7, <1>8, <1>11, <1>12 DEF IInv

-----------------------------------------------------------------------------
(***************************************************************************)
(* The calls and the accesses.                                             *)
(***************************************************************************)

\* The phases in which a process holds no reading of the cursor that it will
\* write back, and has none to look at.
Plain == {"idle", "panic", "newline", "y", "x", "increment", "update", "clear"}

\* Where the loops go on is such a phase.
LEMMA PhasesType ==
  /\ Plain \subseteq Phases
  /\ Plain \cap (Stale \cup Adding \cup Scrolling \cup {"break", "store", "shift"}) = {}
  /\ \A text : NextChar(text) \in Plain
  /\ \A a : AfterChar(a) \in Plain
  /\ \A a : AfterUpdate(a) \in Plain
BY DEF Plain, Phases, Stale, Adding, Scrolling, NextChar, AfterChar, AfterUpdate

\* Writing a reading of the cursor for process a leaves the others alone.
LEMMA PutType ==
  ASSUME NEW a \in Procs, NEW f \in [Procs -> Int], NEW v \in Int
  PROVE  /\ Put(f, a, v) \in [Procs -> Int]
         /\ Put(f, a, v)[a] = v
         /\ \A b \in Procs : b # a => Put(f, a, v)[b] = f[b]
BY DEF Put

\* A step to a plain phase.
LEMMA PlainStep ==
  ASSUME IInv, NEW a \in Procs, NEW next \in Plain, NEW promise,
         GoesTo(a, next, promise),
         NEW up \in Int, up = Up', NEW down \in Int, down = Down',
         y' \in [Procs -> Int], x' \in [Procs -> Int], cursor' \in Int,
         \A b \in Procs : b # a => y'[b] = y[b] /\ x'[b] = x[b],
         NEW late \in BOOLEAN, late <=> Late(a),
         cursor' < Size + up - (IF late THEN Cols ELSE 0),
         cursor' + down >= 0
  PROVE  IInv'
<1>1. /\ next \in Phases /\ next \notin Scrolling
      /\ next \notin {"break", "subtract", "store", "shift"}
  BY PhasesType DEF Stale, Plain
<1>2. late <=> Late(a) \/ (next = "break" /\ y'[a] < 0)
  BY <1>1
<1> QED
  BY <1>1, <1>2, OneSteps

\* One that leaves the cursor where it is, and does not come from a fresh look
\* at the end of the screen.
LEMMA QuietStep ==
  ASSUME IInv, NEW a \in Procs, NEW next \in Plain, NEW promise,
         GoesTo(a, next, promise),
         y' \in [Procs -> Int], x' \in [Procs -> Int], UNCHANGED cursor,
         \A b \in Procs : b # a => y'[b] = y[b] /\ x'[b] = x[b],
         a \notin inCall \/ pc[a] \notin Scrolling
  PROVE  IInv'
<1>1. next \in Phases
  BY PhasesType
<1>0. PICK up \in Int, down \in Int : up = Up' /\ down = Down'
  BY <1>1, LinesStep, Zenon
<1>2. /\ Cols \in Nat /\ Size \in Nat /\ up \in Int /\ down \in Int /\ Down \in Int
      /\ cursor \in Int /\ cursor + Down >= 0 /\ down >= Down
      /\ Late(a) => Overdue
      /\ cursor < Size + up - (IF Resumes(a, Adding) THEN Cols ELSE 0)
                              - (IF Overdue THEN Cols ELSE 0)
  BY <1>1, <1>0, Room, Zenon
<1>3. cursor' = cursor /\ cursor' \in Int /\ cursor' + down >= 0
  BY <1>2
<1>4. PICK late \in BOOLEAN : late <=> Late(a)
  BY DEF Late
<1>5. (late => Overdue) /\ Overdue \in BOOLEAN
  BY <1>2, <1>4, Zenon DEF Overdue
<1>6. cursor' < Size + up - (IF late THEN Cols ELSE 0)
  <2>1. /\ Cols \in Nat /\ Size \in Nat /\ up \in Int /\ cursor \in Int
        /\ cursor < Size + up - (IF Resumes(a, Adding) THEN Cols ELSE 0)
                                - (IF Overdue THEN Cols ELSE 0)
    BY <1>2
  <2> QED
    BY <1>3, <1>5, <2>1
<1> QED
  BY <1>3, <1>4, <1>6, <1>0, PlainStep

\* The cursor is on the screen.
OnScreen == cursor \in 0..Size - 1

\* A step to a plain phase that puts it there.
LEMMA PlacedStep ==
  ASSUME IInv, NEW a \in Procs, NEW next \in Plain, NEW promise,
         GoesTo(a, next, promise),
         UNCHANGED <<y, x>>, OnScreen'
  PROVE  IInv'
<1>1. next \in Phases
  BY PhasesType
<1>0. PICK up \in Int, down \in Int : up = Up' /\ down = Down'
  BY <1>1, LinesStep, Zenon
<1>2. /\ Cols \in Nat /\ Size \in Nat /\ up \in Int /\ down \in Int
      /\ Down \in Int /\ up >= Down /\ Down >= 0 /\ down >= Down
  BY <1>1, <1>0, Room, Zenon
<1>3. PICK late \in BOOLEAN : late <=> Late(a)
  BY DEF Late
<1>4. late => up >= Cols
  BY <1>1, <1>3, <1>0, Room, Zenon
<1>5. y \in [Procs -> Int] /\ x \in [Procs -> Int]
  BY DEF IInv, PcOK
<1>6. PICK at \in Int : at = cursor'
  BY <1>2 DEF OnScreen, Size
<1>7. at >= 0 /\ at < Size
  BY <1>2, <1>6 DEF OnScreen, Size
<1>8. at + down >= 0 /\ at < Size + up - (IF late THEN Cols ELSE 0)
  BY <1>2, <1>4, <1>7
<1>9. /\ cursor' \in Int /\ cursor' + down >= 0
      /\ cursor' < Size + up - (IF late THEN Cols ELSE 0)
  BY <1>6, <1>8, Zenon
<1> QED
  BY <1>0, <1>3, <1>5, <1>9, PlainStep

\* A process in a phase of a call is not at rest; one at rest is in no call.
LEMMA NotInCall ==
  ASSUME IInv, NEW a \in Procs, pc[a] \in {"idle", "panic"}
  PROVE  a \notin inCall
BY DEF IInv, PcOK

\* The calls, up to their first access (screen.c:56-144).
LEMMA CallKeeps ==
  ASSUME IInv, NEW a \in Procs, Call(a)
  PROVE  IInv'
<1>1. y \in [Procs -> Int] /\ x \in [Procs -> Int] /\ cursor \in Int
  BY DEF IInv, PcOK
<1>2. ASSUME NEW next \in Plain, NEW promise, Begins(a, next, promise), UNCHANGED <<y, x, cursor>>
      PROVE  IInv'
  <2>1. a \notin inCall
    BY <1>2, NotInCall DEF Begins
  <2>2. PICK promised : GoesTo(a, next, promised)
    BY <1>2 DEF Begins
  <2> QED
    BY <1>1, <1>2, <2>1, <2>2, QuietStep
<1>3. ASSUME NEW text \in Texts, print(a, text) \/ dev_write(a, text)
      PROVE  IInv'
  <2>1. (IF text = <<>> THEN "idle" ELSE NextChar(text)) \in Plain
    BY PhasesType DEF Plain
  <2>2. (IF text = <<>> THEN "update" ELSE NextChar(text)) \in Plain
    BY PhasesType DEF Plain
  <2> QED
    BY <1>2, <1>3, <2>1, <2>2 DEF print, dev_write, shared
<1>4. ASSUME NEW col \in 0..Cols, NEW row \in 0..Rows, pos_cursor(a, col, row)
      PROVE  IInv'
  <2>1. CASE col < Cols /\ row < Rows
    <3>1. OnScreen'
      <4>1. Cols \in Nat /\ Rows \in Nat /\ col \in Nat /\ row \in Nat
        BY ScreenAssumption
      <4>2. cursor' = Cols * row + col
        BY <1>4, <2>1 DEF pos_cursor
      <4>3. Cols * row + Cols <= Cols * Rows
        <5>1. row + 1 <= Rows
          BY <2>1, <4>1
        <5>2. Cols * (row + 1) <= Cols * Rows
          BY <4>1, <5>1
        <5> QED
          BY <4>1, <5>2
      <4>4. Cols * row \in Nat /\ Cols * Rows \in Nat
        BY <4>1
      <4> QED
        BY <2>1, <4>1, <4>2, <4>3, <4>4 DEF Size, OnScreen
    <3>2. PICK promised : GoesTo(a, "idle", promised)
      BY <1>4, <2>1 DEF pos_cursor, Begins
    <3>3. UNCHANGED <<y, x>> /\ "idle" \in Plain
      BY <1>4 DEF pos_cursor, Plain
    <3> QED
      BY <3>1, <3>2, <3>3, PlacedStep
  <2>2. CASE ~(col < Cols /\ row < Rows)
    <3>1. Begins(a, NextChar(Message), Nothing) /\ UNCHANGED <<y, x, cursor>>
      BY <1>4, <2>2 DEF pos_cursor
    <3> QED
      BY <1>2, <3>1, PhasesType
  <2> QED
    BY <2>1, <2>2
<1>5. ASSUME clear_screen(a)
      PROVE  IInv'
  <2>1. UNCHANGED <<y, x, cursor>> /\ "clear" \in Plain
    BY <1>5 DEF clear_screen, shared, Plain
  <2> QED
    BY <1>2, <1>5, <2>1 DEF clear_screen
<1> QED
  BY <1>3, <1>4, <1>5 DEF Call

\* An access is one of a process that goes on from where it was.
LEMMA DoesType ==
  ASSUME IInv, NEW a \in Procs, NEW where, NEW next \in Phases, Does(a, where, next)
  PROVE  /\ pc[a] = where /\ pc'[a] = next
         /\ GoesTo(a, pc'[a], expect[a]) /\ pc'[a] \in Phases
<1>1. pc \in [Procs -> Phases]
  BY DEF IInv, PcOK
<1>2. pc[a] = where /\ GoesTo(a, next, expect[a])
  BY DEF Does
<1>3. pc' = [pc EXCEPT ![a] = next]
  BY <1>2 DEF GoesTo
<1>4. pc'[a] = next
  BY <1>1, <1>3
<1> QED
  BY <1>2, <1>4

\* The accesses of screen_print_with_len, screen_clear and update_text_cursor
\* (screen.c:107-144).
LEMMA AccessKeeps ==
  ASSUME IInv, NEW a \in Procs, Access(a)
  PROVE  IInv'
<1>1. /\ y \in [Procs -> Int] /\ x \in [Procs -> Int] /\ cursor \in Int
      /\ y[a] \in Int /\ x[a] \in Int
  BY DEF IInv, PcOK
<1>2. /\ ReadY(a) => pc[a] = "y" /\ pc'[a] = "x"
      /\ ReadX(a) => pc[a] = "x" /\ pc'[a] = "increment"
      /\ Increment(a) => pc[a] = "increment" /\ pc'[a] = "store"
      /\ ReadColumn(a) => pc[a] = "newline" /\ pc'[a] = "break"
      /\ BreakLine(a) => pc[a] = "break" /\ pc'[a] = "store"
      /\ Store(a) => pc[a] = "store" /\ pc'[a] = "check"
      /\ Check(a) => pc[a] = "check" /\ pc'[a] = (IF AtEnd THEN "subtract" ELSE AfterChar(a))
      /\ Subtract(a) => pc[a] = "subtract" /\ pc'[a] = "shift"
      /\ shift_one_line_up(a) => pc[a] = "shift" /\ pc'[a] = AfterChar(a)
      /\ Clear(a) => pc[a] = "clear" /\ pc'[a] = "update"
      /\ update_text_cursor(a) => pc[a] = "update" /\ pc'[a] = AfterUpdate(a)
      /\ pc'[a] \in Phases /\ GoesTo(a, pc'[a], expect[a])
  <2>1. /\ {"x", "increment", "store", "break", "check", "subtract", "shift", "update"} \subseteq Phases
        /\ AfterChar(a) \in Phases /\ AfterUpdate(a) \in Phases
    BY PhasesType DEF Phases
  <2>2. (IF AtEnd THEN "subtract" ELSE AfterChar(a)) \in Phases
    BY <2>1
  <2> QED
    BY <2>1, <2>2, DoesType DEF Access, ReadY, ReadX, Increment, ReadColumn, BreakLine,
       Store, Check, Subtract, shift_one_line_up, Clear, update_text_cursor
<1>3. PICK next \in Phases : next = pc'[a]
  BY <1>2
<1>4. GoesTo(a, next, expect[a])
  BY <1>2, <1>3
<1>5. PICK up \in Int, down \in Int : up = Up' /\ down = Down'
  BY <1>4, LinesStep, Zenon
<1>6. PICK late \in BOOLEAN : late <=> Late(a)
  BY DEF Late
<1>7. /\ Cols \in Nat /\ Cols > 0 /\ Size \in Nat /\ Size >= Cols
      /\ Up \in Int /\ Down \in Int
      /\ up >= Down /\ Down >= 0 /\ down >= Down /\ up >= Up
      /\ cursor + Down >= 0
      /\ late => Overdue /\ up >= Cols
      /\ Overdue => up >= Cols
  BY <1>4, <1>5, <1>6, Room, Zenon
<1>8. /\ a \notin inCall \/ pc[a] \notin Scrolling =>
           cursor < Size + up - (IF Resumes(a, Adding) THEN Cols ELSE 0)
                              - (IF Overdue THEN Cols ELSE 0)
      /\ a \in inCall /\ pc[a] \in Scrolling =>
           cursor <= Size + up - (IF Overdue THEN 1 ELSE 0)
  BY <1>4, <1>5, Room, Zenon
<1>9. /\ a \notin inCall \/ pc[a] \notin Scrolling =>
           cursor < Size + up - (IF late THEN Cols ELSE 0)
      /\ cursor <= Size + up - (IF late THEN 1 ELSE 0)
  BY <1>1, <1>7, <1>8
<1>10. ASSUME ReadY(a) PROVE IInv'
  <2>1. y' \in [Procs -> Int] /\ \A b \in Procs : b # a => y'[b] = y[b]
    BY <1>1, <1>10, RemRange, PutType DEF ReadY
  <2>2. UNCHANGED x /\ UNCHANGED cursor
    BY <1>10 DEF ReadY, shared
  <2>3. next \in Plain /\ pc[a] \notin Scrolling
    BY <1>2, <1>3, <1>10 DEF Plain, Scrolling
  <2> QED
    BY <1>1, <1>4, <2>1, <2>2, <2>3, QuietStep
<1>11. ASSUME ReadX(a) PROVE IInv'
  <2>1. y' \in [Procs -> Int] /\ \A b \in Procs : b # a => y'[b] = y[b]
    <3>1. y' = Put(y, a, 0)
      BY <1>11 DEF ReadX
    <3> QED
      BY <1>1, <3>1 DEF Put
  <2>2. UNCHANGED x /\ UNCHANGED cursor
    BY <1>11 DEF ReadX
  <2>3. next \in Plain /\ pc[a] \notin Scrolling
    BY <1>2, <1>3, <1>11 DEF Plain, Scrolling
  <2> QED
    BY <1>1, <1>4, <2>1, <2>2, <2>3, QuietStep
<1>12. ASSUME update_text_cursor(a) PROVE IInv'
  <2>1. UNCHANGED x /\ UNCHANGED y /\ UNCHANGED cursor
    BY <1>12 DEF update_text_cursor
  <2>2. next \in Plain /\ pc[a] \notin Scrolling
    BY <1>2, <1>3, <1>12, PhasesType DEF Scrolling
  <2> QED
    BY <1>1, <1>4, <2>1, <2>2, QuietStep
<1>13. ASSUME Clear(a) PROVE IInv'
  <2>1. UNCHANGED <<y, x>> /\ cursor' = 0
    BY <1>13 DEF Clear, local
  <2>2. OnScreen'
    BY <1>7, <2>1 DEF OnScreen, Size
  <2>3. next \in Plain
    BY <1>2, <1>3, <1>13 DEF Plain
  <2> QED
    BY <1>4, <2>1, <2>2, <2>3, PlacedStep
<1>14. ASSUME next \notin {"idle", "panic"}, UNCHANGED y, UNCHANGED cursor,
              NEW v \in Int, x' = Put(x, a, v),
              next = "store" \/ next = "shift",
              pc[a] \notin Scrolling \/ next = "shift",
              next = "store" => v <= Size + up - (IF late THEN 1 ELSE 0),
              next = "shift" => v <= Size + up - Cols - (IF late THEN 1 ELSE 0),
              v + down >= 0
       PROVE  IInv'
  <2>1. /\ x' \in [Procs -> Int] /\ x'[a] = v
        /\ \A b \in Procs : b # a => x'[b] = x[b]
    BY <1>1, <1>14, PutType
  <2>2. cursor + down >= 0
    BY <1>1, <1>7
  <2>3. /\ next \in Scrolling => cursor <= Size + up - (IF late THEN 1 ELSE 0)
        /\ next \notin Scrolling => cursor < Size + up - (IF late THEN Cols ELSE 0)
    BY <1>9, <1>14 DEF Scrolling
  <2>4. late <=> Late(a) \/ (next = "break" /\ y'[a] < 0)
    BY <1>6, <1>14
  <2>5. y' \in [Procs -> Int] /\ cursor' \in Int /\ cursor' = cursor
    BY <1>1, <1>14
  <2> QED
    BY <1>4, <1>5, <1>14, <2>1, <2>2, <2>3, <2>4, <2>5, OneSteps
<1>15. ASSUME Increment(a) PROVE IInv'
  <2>1. UNCHANGED y /\ UNCHANGED cursor /\ x' = Put(x, a, cursor + 1)
    BY <1>15 DEF Increment, shared
  <2>2. next = "store" /\ pc[a] \notin Scrolling
    BY <1>2, <1>3, <1>15 DEF Scrolling
  <2>3. cursor < Size + up - (IF late THEN Cols ELSE 0)
    BY <1>9, <2>2
  <2>4. cursor + 1 \in Int /\ cursor + 1 <= Size + up - (IF late THEN 1 ELSE 0)
    BY <1>1, <1>7, <2>3
  <2>5. (cursor + 1) + down >= 0
    BY <1>1, <1>7
  <2> QED
    BY <1>14, <2>1, <2>2, <2>4, <2>5
<1>16. ASSUME Subtract(a) PROVE IInv'
  <2>1. UNCHANGED y /\ UNCHANGED cursor /\ x' = Put(x, a, cursor - Cols)
    BY <1>16 DEF Subtract, shared
  <2>2. next = "shift" /\ pc[a] = "subtract"
    BY <1>2, <1>3, <1>16
  <2>3. cursor - Cols \in Int /\ cursor - Cols <= Size + up - Cols - (IF late THEN 1 ELSE 0)
    BY <1>1, <1>7, <1>9
  <2>4. (cursor - Cols) + down >= 0
    <3>1. CASE a \in inCall
      <4>1. cursor >= Size
        BY <2>2, <3>1 DEF IInv, FreshOK
      <4> QED
        BY <1>1, <1>7, <4>1
    <3>2. CASE a \notin inCall
      <4>1. Resumes(a, Stale)
        BY <2>2, <3>2 DEF Resumes, Stale
      <4>2. down >= Down + Cols
        BY <1>4, <1>5, <4>1, Room, Zenon
      <4> QED
        BY <1>1, <1>7, <4>2
    <3> QED
      BY <3>1, <3>2
  <2> QED
    BY <1>14, <2>1, <2>2, <2>3, <2>4
<1>17. ASSUME ReadColumn(a) PROVE IInv'
  <2>1. UNCHANGED x /\ UNCHANGED cursor /\ y' = Put(y, a, Rem(cursor))
    BY <1>17 DEF ReadColumn, shared
  <2>2. next = "break" /\ pc[a] \notin Scrolling
    BY <1>2, <1>3, <1>17 DEF Scrolling
  <2>3. /\ y' \in [Procs -> Int] /\ y'[a] = Rem(cursor)
        /\ \A b \in Procs : b # a => y'[b] = y[b]
    <3>1. Rem(cursor) \in Int
      BY <1>1, RemRange
    <3> QED
      BY <1>1, <2>1, <3>1 DEF Put
  <2>4. Rem(cursor) \in Int /\ (Rem(cursor) < 0 => cursor < 0)
    BY <1>1, RemRange
  <2>5. cursor < 0 => Down >= Cols
    <3>1. /\ Credit(Stale) \in Int
          /\ Credit(Stale) >= 1 <=> Down >= Cols
      BY <1>4, LinesStep, Zenon
    <3>2. Credit(Stale) <= 0 => Down <= 0
      BY <1>7, <3>1 DEF Down
    <3> QED
      BY <1>1, <1>7, <3>1, <3>2
  <2>6. PICK late2 \in BOOLEAN : late2 <=> late \/ Rem(cursor) < 0
    OBVIOUS
  <2>7. cursor < Size + up - (IF late2 THEN Cols ELSE 0)
    <3>1. cursor < Size + up - (IF late THEN Cols ELSE 0)
      BY <1>9, <2>2
    <3> QED
      BY <1>1, <1>7, <2>4, <2>6, <3>1
  <2>8. cursor + down >= 0 /\ (Rem(cursor) < 0 => down >= Cols)
    BY <1>1, <1>7, <2>4, <2>5
  <2>9. late2 <=> Late(a) \/ (next = "break" /\ y'[a] < 0)
    <3>1. late2 <=> late \/ y'[a] < 0
      BY <2>3, <2>6
    <3> QED
      BY <1>6, <2>2, <3>1
  <2>10. next \notin Scrolling /\ next \notin {"subtract", "store", "shift"}
    BY <2>2 DEF Scrolling
  <2>11. x' \in [Procs -> Int] /\ cursor' \in Int /\ cursor' = cursor
    BY <1>1, <2>1
  <2>12. y'[a] = Rem(cursor') /\ (y'[a] < 0 => down >= Cols)
    BY <2>3, <2>8, <2>11, Zenon
  <2> QED
    BY <1>4, <1>5, <2>1, <2>3, <2>7, <2>8, <2>9, <2>10, <2>11, <2>12, OneSteps
<1>18. ASSUME BreakLine(a) PROVE IInv'
  <2>1. UNCHANGED cursor /\ x' = Put(x, a, cursor + Cols - y[a]) /\ y' = Put(y, a, 0)
    BY <1>18 DEF BreakLine, shared
  <2>2. next = "store" /\ pc[a] = "break" /\ pc[a] \notin Scrolling
    BY <1>2, <1>3, <1>18 DEF Scrolling
  <2>3. y[a] > -Cols /\ y[a] < Cols
    BY <2>2 DEF IInv, PcOK
  <2> DEFINE v == cursor + Cols - y[a]
  <2>4. v \in Int /\ v >= cursor /\ v <= cursor + Cols + Cols - 1
    BY <1>1, <1>7, <2>3
  <2>5. v <= Size + up - (IF late THEN 1 ELSE 0)
    <3>1. CASE a \in inCall
      <4>1. y[a] = Rem(cursor)
        BY <2>2, <3>1 DEF IInv, FreshOK
      <4>2. PICK m \in Int : Size + up = Cols * m
        <5>1. PICK c \in Int : up = Cols * c
          <6>1. Credit(Adding)' \in Int
            <7>1. GoesTo(a, next, expect[a]) /\ IsFiniteSet(Held(Adding)')
                  /\ preempted' \in Nat
              BY <1>4, LinesStep, Zenon
            <7>2. Cardinality(Held(Adding)') \in Nat
              BY <7>1, FS_CardinalityType, Zenon
            <7> QED
              BY <7>1, <7>2 DEF Credit
          <6>2. up = Cols * Credit(Adding)'
            BY <1>5 DEF Up
          <6> QED
            BY <6>1, <6>2, Zenon
        <5>2. Rows \in Int
          BY ScreenAssumption
        <5>3. Cols * Rows + Cols * c = Cols * (Rows + c) /\ Rows + c \in Int
          BY <1>7, <5>2
        <5> QED
          BY <5>1, <5>3, Zenon DEF Size
      <4>3. cursor < Size + up - (IF late THEN Cols ELSE 0)
        BY <1>9, <2>2
      <4>4. CASE late
        <5>1. cursor < Cols * (m - 1) /\ m - 1 \in Int
          BY <1>1, <1>7, <4>2, <4>3, <4>4
        <5>2. v <= Cols * (m - 1) \/ v <= Cols
          BY <1>1, <4>1, <5>1, NextLine
        <5>3. Cols * (m - 1) = Size + up - Cols
          BY <1>7, <4>2
        <5> QED
          BY <1>7, <2>4, <4>4, <5>2, <5>3
      <4>5. CASE ~late
        <5>1. cursor < Cols * m
          BY <1>1, <1>7, <4>2, <4>3, <4>5
        <5>2. v <= Cols * m \/ v <= Cols
          BY <1>1, <4>1, <5>1, NextLine
        <5> QED
          BY <1>7, <2>4, <4>2, <4>5, <5>2
      <4> QED
        BY <4>4, <4>5
    <3>2. CASE a \notin inCall
      <4>1. Resumes(a, Adding)
        BY <2>2, <3>2 DEF Resumes, Adding
      <4>2. cursor < Size + up - Cols - (IF Overdue THEN Cols ELSE 0)
        BY <1>1, <1>7, <1>8, <2>2, <4>1
      <4>3. y[a] < 0 => Overdue
        BY <2>2 DEF Overdue
      <4> QED
        BY <1>1, <1>7, <2>3, <4>2, <4>3
    <3> QED
      BY <3>1, <3>2
  <2>6. v + down >= 0 /\ cursor + down >= 0
    BY <1>1, <1>7, <2>4
  <2>7. /\ x' \in [Procs -> Int] /\ x'[a] = v
        /\ y' \in [Procs -> Int]
        /\ \A b \in Procs : b # a => y'[b] = y[b] /\ x'[b] = x[b]
    BY <1>1, <2>1, <2>4 DEF Put
  <2>8. cursor < Size + up - (IF late THEN Cols ELSE 0)
    BY <1>9, <2>2
  <2>9. next \notin Scrolling /\ next \notin {"break", "subtract", "shift"}
    BY <2>2 DEF Scrolling
  <2>10. late <=> Late(a) \/ (next = "break" /\ y'[a] < 0)
    BY <1>6, <2>9
  <2>11. cursor' \in Int /\ cursor' = cursor
    BY <1>1, <2>1
  <2> HIDE DEF v
  <2> QED
    BY <1>4, <1>5, <2>5, <2>6, <2>7, <2>8, <2>9, <2>10, <2>11, OneSteps
<1>19. ASSUME Store(a) PROVE IInv'
  <2>1. UNCHANGED y /\ cursor' = x[a] /\ x' = Put(x, a, 0)
    BY <1>19 DEF Store
  <2>2. next = "check" /\ pc[a] = "store"
    BY <1>2, <1>3, <1>19
  <2>3. /\ x[a] <= Size + Up - (IF a \in inCall /\ Overdue THEN 1 ELSE 0)
        /\ x[a] + Down >= 0
    BY <2>2 DEF IInv, StoresBelow, Above
  <2>4. x[a] <= Size + up - (IF late THEN 1 ELSE 0)
    <3>1. CASE a \in inCall
      BY <1>1, <1>7, <2>3, <3>1
    <3>2. CASE a \notin inCall
      <4>1. Resumes(a, Adding)
        BY <2>2, <3>2 DEF Resumes, Adding
      <4>2. up >= Up + Cols
        BY <1>4, <1>5, <4>1, Room, Zenon
      <4> QED
        BY <1>1, <1>7, <2>3, <3>2, <4>2
    <3> QED
      BY <3>1, <3>2
  <2>5. x[a] + down >= 0
    BY <1>1, <1>7, <2>3
  <2>6. x' \in [Procs -> Int] /\ \A b \in Procs : b # a => x'[b] = x[b]
    BY <1>1, <2>1 DEF Put
  <2>7. next \in Scrolling /\ next \notin {"break", "subtract", "store", "shift"}
    BY <2>2 DEF Scrolling
  <2>8. late <=> Late(a) \/ (next = "break" /\ y'[a] < 0)
    BY <1>6, <2>7
  <2>9. y' \in [Procs -> Int] /\ cursor' \in Int
    BY <1>1, <2>1
  <2> QED
    BY <1>4, <1>5, <2>1, <2>4, <2>5, <2>6, <2>7, <2>8, <2>9, OneSteps
<1>20. ASSUME Check(a) PROVE IInv'
  <2>1. UNCHANGED y /\ UNCHANGED x /\ UNCHANGED cursor
    BY <1>20 DEF Check, shared, local
  <2>2. cursor + down >= 0
    BY <1>1, <1>7
  <2>3. cursor' \in Int /\ cursor' = cursor /\ y' \in [Procs -> Int] /\ x' \in [Procs -> Int]
    BY <1>1, <2>1
  <2>4. CASE AtEnd
    <3>1. next = "subtract" /\ cursor >= Size
      BY <1>2, <1>3, <1>20, <2>4 DEF AtEnd
    <3>2. next \in Scrolling /\ next \notin {"break", "store", "shift"}
      BY <3>1 DEF Scrolling
    <3>3. late <=> Late(a) \/ (next = "break" /\ y'[a] < 0)
      BY <1>6, <3>2
    <3> QED
      BY <1>4, <1>5, <1>9, <2>1, <2>2, <2>3, <3>1, <3>2, <3>3, OneSteps
  <2>5. CASE ~AtEnd
    <3>1. next \in Plain
      BY <1>2, <1>3, <1>20, <2>5, PhasesType
    <3>2. cursor < Size
      BY <1>1, <1>7, <2>5 DEF AtEnd
    <3>3. cursor < Size + up - (IF late THEN Cols ELSE 0)
      BY <1>1, <1>7, <3>2
    <3> QED
      BY <1>4, <1>5, <1>6, <2>1, <2>2, <2>3, <3>1, <3>3, PlainStep
  <2> QED
    BY <2>4, <2>5
<1>21. ASSUME shift_one_line_up(a) PROVE IInv'
  <2>1. UNCHANGED y /\ cursor' = x[a] /\ x' = Put(x, a, 0)
    BY <1>21 DEF shift_one_line_up
  <2>2. next \in Plain /\ pc[a] = "shift"
    BY <1>2, <1>3, <1>21, PhasesType
  <2>3. /\ IF a \in inCall
           THEN x[a] <= Size + Up - Cols - (IF Overdue THEN 1 ELSE 0)
           ELSE x[a] < Size + Up - Cols
        /\ x[a] + Down >= 0
    BY <2>2 DEF IInv, StoresBelow, Above
  <2>4. x[a] < Size + up - (IF late THEN Cols ELSE 0) /\ x[a] + down >= 0
    BY <1>1, <1>7, <2>3
  <2>5. x' \in [Procs -> Int] /\ \A b \in Procs : b # a => x'[b] = x[b]
    BY <1>1, <2>1 DEF Put
  <2>6. y' \in [Procs -> Int] /\ cursor' \in Int
    BY <1>1, <2>1
  <2> QED
    BY <1>4, <1>5, <1>6, <2>1, <2>2, <2>4, <2>5, <2>6, PlainStep
<1> QED
  BY <1>10, <1>11, <1>12, <1>13, <1>15, <1>16, <1>17, <1>18, <1>19, <1>20, <1>21 DEF Access

-----------------------------------------------------------------------------
(***************************************************************************)
(* The cursor.                                                             *)
(***************************************************************************)

\* After boot nobody is in a call and the cursor is on the screen.
LEMMA InitKeeps == Init => IInv
<1> SUFFICES ASSUME Init PROVE IInv
  OBVIOUS
<1>1. /\ Cols \in Nat /\ Cols > 0 /\ Rows \in Nat
  BY ScreenAssumption
<1>2. Size \in Nat
  BY <1>1 DEF Size
<1>3. /\ \A a \in Procs : pc[a] = "idle"
      /\ cursor \in Int /\ 0 <= cursor /\ cursor < Size
      /\ inCall = {} /\ preempted = 0
  BY <1>2 DEF Init
<1>4. /\ pc \in [Procs -> Phases] /\ y \in [Procs -> Int] /\ x \in [Procs -> Int]
  BY DEF Init, Phases
<1>5. Held(Stale) = {} /\ Held(Adding) = {}
  BY <1>3 DEF Held, Stale, Adding
<1>6. IsFiniteSet({}) /\ Cardinality({}) = 0
  BY FS_EmptySet
<1>7. Credit(Stale) = 0 /\ Credit(Adding) = 0
  BY <1>3, <1>5, <1>6 DEF Credit
<1>8. Up = 0 /\ Down = 0
  BY <1>1, <1>7 DEF Up, Down
<1>9. ~Overdue
  BY <1>3 DEF Overdue
<1>10. PcOK /\ FreshOK
  BY <1>3, <1>4, <1>5, <1>6 DEF PcOK, FreshOK
<1>11. CursorBelow /\ StoresBelow
  BY <1>2, <1>3, <1>8, <1>9 DEF CursorBelow, StoresBelow
<1>12. Above
  BY <1>3, <1>7, <1>8, <1>9 DEF Above
<1> QED
  BY <1>10, <1>11, <1>12 DEF IInv

\* Every step keeps the account of the lines.
LEMMA NextKeeps == IInv /\ [Next]_vars => IInv'
<1> SUFFICES ASSUME IInv, [Next]_vars PROVE IInv'
  OBVIOUS
<1>1. CASE Next
  BY <1>1, CallKeeps, AccessKeeps DEF Next
<1>2. CASE UNCHANGED vars
  BY <1>2 DEF vars, shared, local, IInv, PcOK, FreshOK, CursorBelow, StoresBelow, Above,
     Overdue, Up, Down, Credit, Held
<1> QED
  BY <1>1, <1>2

\* The lines that are paid for are as many as the processes that have lost the
\* CPU in the middle of a call.
LEMMA AccountBounds == IInv => Confined
<1> SUFFICES ASSUME IInv PROVE Confined
  OBVIOUS
<1>1. Cols \in Nat /\ Cols > 0 /\ Rows \in Nat
  BY ScreenAssumption
<1>2. Size \in Int
  BY <1>1 DEF Size
<1>3. /\ cursor \in Int /\ preempted \in Nat
      /\ IsFiniteSet(Held(Stale)) /\ IsFiniteSet(Held(Adding))
  BY DEF IInv, PcOK
<1>4. Cardinality(Held(Stale)) \in Nat /\ Cardinality(Held(Adding)) \in Nat
  BY <1>3, FS_CardinalityType
<1>5. /\ Credit(Stale) \in Int /\ Credit(Stale) <= preempted
      /\ Credit(Adding) \in Int /\ Credit(Adding) <= preempted
  BY <1>3, <1>4 DEF Credit
<1>6. Up \in Int /\ Up <= Cols * preempted /\ Down \in Int /\ Down <= Cols * preempted
  BY <1>1, <1>3, <1>5 DEF Up, Down
<1>7. cursor <= Size + Up
  <2>1. \/ cursor <= Size + Up - (IF Overdue THEN 1 ELSE 0)
        \/ cursor < Size + Up - (IF Overdue THEN Cols ELSE 0)
    BY DEF IInv, CursorBelow
  <2> QED
    BY <1>1, <1>2, <1>3, <1>6, <2>1
<1>8. cursor + Down >= 0
  BY DEF IInv, Above
<1>9. Cols * preempted \in Int
  BY <1>1, <1>3
<1> QED
  BY <1>2, <1>3, <1>6, <1>7, <1>8, <1>9 DEF Confined

\* Confined for every size of the screen, any set of processes, any texts and
\* any number of losses of the CPU: the cursor is off the screen by a line at
\* the most for each time that a process has lost the CPU in the middle of a
\* call (screen.c:107-144).
THEOREM CursorConfined == Spec => []Confined
<1>1. Spec => []IInv
  BY InitKeeps, NextKeeps, PTL DEF Spec
<1> QED
  BY <1>1, AccountBounds, PTL
-----------------------------------------------------------------------------
(***************************************************************************)
(* The text on paper.                                                      *)
(***************************************************************************)

Chars == {Ink, Newline}

\* A character moves the pen on.
LEMMA AfterFacts ==
  ASSUME NEW pos \in Nat, NEW c
  PROVE  After(pos, c) \in Nat /\ After(pos, c) > pos
<1>1. Cols \in Nat /\ Cols > 0
  BY ScreenAssumption
<1>2. CASE c = Newline
  <2>1. /\ pos \div Cols \in Nat
        /\ pos < (pos \div Cols) * Cols + Cols
    BY <1>1
  <2> DEFINE q == pos \div Cols
  <2> HIDE DEF q
  <2>2. q \in Nat /\ pos < q * Cols + Cols
    BY <2>1 DEF q
  <2>3. (q + 1) * Cols = q * Cols + Cols /\ (q + 1) * Cols \in Nat
    BY <1>1, <2>2
  <2>4. After(pos, c) = (q + 1) * Cols
    BY <1>2 DEF After, q
  <2> QED
    BY <2>2, <2>3, <2>4
<1>3. CASE c # Newline
  BY <1>3 DEF After
<1> QED
  BY <1>2, <1>3

\* Where the pen is before the first character, and after each.
LEMMA PenFacts ==
  ASSUME NEW start \in Nat, NEW text \in Seq(Chars)
  PROVE  /\ Len(text) \in Nat
         /\ Pen(start, text) \in [0..Len(text) -> Nat]
         /\ Pen(start, text)[0] = start
         /\ \A k \in 1..Len(text) :
              Pen(start, text)[k] = After(Pen(start, text)[k - 1], text[k])
<1> DEFINE E(g) == [k \in 0..Len(text) |-> IF k = 0 THEN start ELSE After(g[k - 1], text[k])]
           f == CHOOSE g : g = E(g)
<1>1. Len(text) \in Nat
  OBVIOUS
<1>2. PICK N \in Nat : N = Len(text)
  BY <1>1
<1>3. PICK step : step = [u \in (1..N) \X Nat |-> After(u[2], text[u[1]])]
  OBVIOUS
<1>4. step \in [(1..N) \X Nat -> Nat]
  <2>1. ASSUME NEW u \in (1..N) \X Nat PROVE After(u[2], text[u[1]]) \in Nat
    <3>1. u[2] \in Nat
      OBVIOUS
    <3> QED
      BY <3>1, AfterFacts
  <2> QED
    BY <1>3, <2>1
<1>5. PICK g : Rounds(g, N, Nat, start, step)
  BY <1>4, LoopExists
<1>6. g \in [0..N -> Nat] /\ g[0] = start /\ \A n \in 1..N : g[n] = step[<<n, g[n - 1]>>]
  BY <1>5 DEF Rounds
<1>7. ASSUME NEW n \in 1..N PROVE g[n] = After(g[n - 1], text[n])
  <2>1. n - 1 \in 0..N
    OBVIOUS
  <2>2. <<n, g[n - 1]>> \in (1..N) \X Nat
    BY <1>6, <2>1
  <2> QED
    BY <1>3, <1>6, <2>2
<1>8. g = E(g)
  <2>1. ASSUME NEW n \in 0..N PROVE g[n] = IF n = 0 THEN start ELSE After(g[n - 1], text[n])
    <3>1. n = 0 \/ n \in 1..N
      OBVIOUS
    <3> QED
      BY <1>6, <1>7, <3>1
  <2> QED
    BY <1>2, <1>6, <2>1
<1>9. f = E(f)
  <2> HIDE DEF E
  <2>1. \E h : h = E(h)
    BY <1>8
  <2> QED
    BY <2>1
<1>10. Pen(start, text) = f
  BY DEF Pen
<1> HIDE DEF f
<1>11. /\ DOMAIN f = 0..N
       /\ \A n \in 0..N : f[n] = IF n = 0 THEN start ELSE After(f[n - 1], text[n])
  BY <1>2, <1>9
<1>12. f = [n \in 0..N |-> f[n]]
  BY <1>2, <1>9, <1>11
<1>13. f[0] = start /\ \A n \in 1..N : f[n] = After(f[n - 1], text[n])
  BY <1>11
<1>14. \A n \in Nat : n \in {k \in Nat : k <= N => f[k] \in Nat}
  <2> DEFINE S == {k \in Nat : k <= N => f[k] \in Nat}
  <2>1. 0 \in S
    BY <1>13
  <2>2. ASSUME NEW n \in Nat, n \in S PROVE n + 1 \in S
    <3> SUFFICES ASSUME n + 1 <= N PROVE f[n + 1] \in Nat
      OBVIOUS
    <3>1. n + 1 \in 1..N /\ (n + 1) - 1 = n /\ f[n] \in Nat
      BY <2>2
    <3>2. f[n + 1] = After(f[n], text[n + 1])
      BY <1>13, <3>1
    <3> QED
      BY <3>1, <3>2, AfterFacts
  <2> HIDE DEF S
  <2>3. \A n \in Nat : n \in S
    BY <2>1, <2>2, SetInduction
  <2> QED
    BY <2>3 DEF S
<1>15. f \in [0..N -> Nat]
  <2>1. \A n \in 0..N : f[n] \in Nat
    BY <1>14
  <2> QED
    BY <1>12, <2>1
<1> QED
  BY <1>1, <1>2, <1>10, <1>13, <1>15

\* The pen goes forward only.
LEMMA PenGrows ==
  ASSUME NEW start \in Nat, NEW text \in Seq(Chars)
  PROVE  \A k \in 0..Len(text) : Pen(start, text)[k] >= start
<1>1. PICK f, N : f = Pen(start, text) /\ N = Len(text)
  OBVIOUS
<1>2. /\ N \in Nat /\ f \in [0..N -> Nat] /\ f[0] = start
      /\ \A k \in 1..N : f[k] = After(f[k - 1], text[k])
  BY <1>1, PenFacts
<1> DEFINE S == {k \in Nat : k <= N => f[k] >= start}
<1>3. 0 \in S
  BY <1>2
<1>4. ASSUME NEW n \in Nat, n \in S PROVE n + 1 \in S
  <2> SUFFICES ASSUME n + 1 <= N PROVE f[n + 1] >= start
    OBVIOUS
  <2>1. n + 1 \in 1..N /\ (n + 1) - 1 = n /\ n \in 0..N /\ f[n] >= start
    BY <1>2, <1>4
  <2>2. f[n + 1] = After(f[n], text[n + 1]) /\ f[n] \in Nat
    BY <1>2, <2>1
  <2>3. f[n + 1] \in Nat /\ f[n + 1] > f[n]
    BY <2>2, AfterFacts
  <2> QED
    BY <2>1, <2>2, <2>3
<1>5. \A n \in Nat : n \in S
  <2> HIDE DEF S
  <2> QED
    BY <1>3, <1>4, SetInduction
<1> QED
  BY <1>1, <1>2, <1>5

\* A text is its first character and the text behind that.
LEMMA TailFacts ==
  ASSUME NEW text \in Seq(Chars), text # <<>>
  PROVE  /\ Head(text) \in Chars /\ Head(text) = text[1]
         /\ Tail(text) \in Seq(Chars)
         /\ Len(text) \in Nat /\ Len(text) > 0 /\ Len(Tail(text)) = Len(text) - 1
         /\ \A k \in 1..Len(text) - 1 : Tail(text)[k] = text[k + 1]
<1>1. Len(text) \in Nat /\ Len(text) > 0
  BY EmptySeq
<1> QED
  BY <1>1, HeadTailProperties

\* Written from where the first character has moved the pen, the rest takes
\* the places that it takes in the whole text.
LEMMA PenNext ==
  ASSUME NEW start \in Nat, NEW text \in Seq(Chars), text # <<>>
  PROVE  \A k \in 0..Len(text) - 1 :
           Pen(After(start, Head(text)), Tail(text))[k] = Pen(start, text)[k + 1]
<1>1. PICK f, N, t, g : /\ f = Pen(start, text) /\ N = Len(text)
                        /\ t = Tail(text) /\ g = Pen(After(start, Head(text)), t)
  OBVIOUS
<1>2. /\ N \in Nat /\ f \in [0..N -> Nat] /\ f[0] = start
      /\ \A k \in 1..N : f[k] = After(f[k - 1], text[k])
  BY <1>1, PenFacts
<1>3. /\ t \in Seq(Chars) /\ N > 0 /\ Len(t) = N - 1
      /\ Head(text) = text[1]
      /\ \A k \in 1..N - 1 : t[k] = text[k + 1]
  BY <1>1, TailFacts
<1>4. After(start, Head(text)) \in Nat
  BY AfterFacts
<1>5. /\ g \in [0..N - 1 -> Nat] /\ g[0] = After(start, Head(text))
      /\ \A k \in 1..N - 1 : g[k] = After(g[k - 1], t[k])
  BY <1>1, <1>3, <1>4, PenFacts
<1> DEFINE S == {k \in Nat : k <= N - 1 => g[k] = f[k + 1]}
<1>6. 0 \in S
  <2>1. 1 \in 1..N
    BY <1>2, <1>3
  <2>2. f[1] = After(f[1 - 1], text[1])
    BY <1>2, <2>1
  <2>3. 1 - 1 = 0 /\ 0 + 1 = 1
    OBVIOUS
  <2> QED
    BY <1>2, <1>3, <1>5, <2>2, <2>3
<1>7. ASSUME NEW n \in Nat, n \in S PROVE n + 1 \in S
  <2> SUFFICES ASSUME n + 1 <= N - 1 PROVE g[n + 1] = f[(n + 1) + 1]
    OBVIOUS
  <2>1. /\ n + 1 \in 1..N - 1 /\ (n + 1) - 1 = n
        /\ (n + 1) + 1 \in 1..N /\ ((n + 1) + 1) - 1 = n + 1 /\ g[n] = f[n + 1]
    BY <1>2, <1>7
  <2>2. g[n + 1] = After(g[n], t[n + 1])
    BY <1>5, <2>1
  <2>3. t[n + 1] = text[(n + 1) + 1]
    BY <1>3, <2>1
  <2>4. f[(n + 1) + 1] = After(f[n + 1], text[(n + 1) + 1])
    BY <1>2, <2>1
  <2> QED
    BY <2>1, <2>2, <2>3, <2>4
<1>8. \A n \in Nat : n \in S
  <2> HIDE DEF S
  <2> QED
    BY <1>6, <1>7, SetInduction
<1> QED
  BY <1>1, <1>8

\* Written a line higher, every character is a line higher.
LEMMA AfterUp ==
  ASSUME NEW pos \in Nat, pos >= Cols, NEW c
  PROVE  After(pos - Cols, c) = After(pos, c) - Cols
<1>1. Cols \in Nat /\ Cols > 0
  BY ScreenAssumption
<1>2. (pos - Cols) \div Cols = pos \div Cols - 1 /\ pos \div Cols \in Int
  BY <1>1
<1> DEFINE q == pos \div Cols
<1> HIDE DEF q
<1>3. (pos - Cols) \div Cols = q - 1 /\ q \in Int
  BY <1>2 DEF q
<1>4. ((q - 1) + 1) * Cols = (q + 1) * Cols - Cols
  BY <1>1, <1>3
<1> QED
  BY <1>1, <1>3, <1>4 DEF After, q

LEMMA PenUp ==
  ASSUME NEW start \in Nat, start >= Cols, NEW text \in Seq(Chars)
  PROVE  \A k \in 0..Len(text) : Pen(start - Cols, text)[k] = Pen(start, text)[k] - Cols
<1>1. PICK f, N, g : f = Pen(start, text) /\ N = Len(text) /\ g = Pen(start - Cols, text)
  OBVIOUS
<1>2. /\ N \in Nat /\ f \in [0..N -> Nat] /\ f[0] = start
      /\ \A k \in 1..N : f[k] = After(f[k - 1], text[k])
  BY <1>1, PenFacts
<1>3. Cols \in Nat /\ start - Cols \in Nat
  BY ScreenAssumption
<1>4. /\ g \in [0..N -> Nat] /\ g[0] = start - Cols
      /\ \A k \in 1..N : g[k] = After(g[k - 1], text[k])
  BY <1>1, <1>3, PenFacts
<1>5. \A k \in 0..N : f[k] >= start
  BY <1>1, PenGrows
<1> DEFINE S == {k \in Nat : k <= N => g[k] = f[k] - Cols}
<1>6. 0 \in S
  BY <1>2, <1>4
<1>7. ASSUME NEW n \in Nat, n \in S PROVE n + 1 \in S
  <2> SUFFICES ASSUME n + 1 <= N PROVE g[n + 1] = f[n + 1] - Cols
    OBVIOUS
  <2>1. /\ n + 1 \in 1..N /\ (n + 1) - 1 = n /\ n \in 0..N /\ g[n] = f[n] - Cols
    BY <1>2, <1>7
  <2>2. g[n + 1] = After(g[n], text[n + 1]) /\ f[n + 1] = After(f[n], text[n + 1])
    BY <1>2, <1>4, <2>1
  <2>3. f[n] \in Nat /\ f[n] >= Cols
    BY <1>2, <1>3, <1>5, <2>1
  <2> QED
    BY <2>1, <2>2, <2>3, AfterUp
<1>8. \A n \in Nat : n \in S
  <2> HIDE DEF S
  <2> QED
    BY <1>6, <1>7, SetInduction
<1> QED
  BY <1>1, <1>2, <1>8

\* Where the text leaves ink, where it ends, how far the paper is moved up for
\* that, and what is on it.
Placed(start, text) ==
  {Pen(start, text)[k - 1] : k \in {j \in DOMAIN text : text[j] = Ink}}
LastPen(start, text) == Pen(start, text)[Len(text)]
LinesUp(end) == IF end >= Size THEN end \div Cols - (Rows - 1) ELSE 0
Paper(was, inked, i) == IF i \in inked THEN Ink ELSE IF i < Size THEN was[i] ELSE Blank

Cells == [0..Size - 1 -> {Ink, Blank}]

LEMMA WrittenDef ==
  ASSUME NEW was, NEW start, NEW text
  PROVE  Written(was, start, text) =
           LET end == LastPen(start, text)
               up == LinesUp(end)
           IN  [cells |-> [i \in DOMAIN was |-> Paper(was, Placed(start, text), i + up * Cols)],
                cursor |-> end - up * Cols, shown |-> end - up * Cols]
BY DEF Written, LastPen, LinesUp, Placed, Paper

LEMMA SizeFacts ==
  /\ Cols \in Nat /\ Cols > 0 /\ Rows \in Nat /\ Rows > 0
  /\ Size \in Nat /\ Size >= Cols /\ Size = Cols * Rows
<1>1. Cols \in Nat /\ Cols > 0 /\ Rows \in Nat /\ Rows > 0
  BY ScreenAssumption
<1>2. Cols * Rows \in Nat /\ Cols * Rows >= Cols
  BY <1>1
<1> QED
  BY <1>1, <1>2 DEF Size

LEMMA LastPenType ==
  ASSUME NEW start \in Nat, NEW text \in Seq(Chars)
  PROVE  LastPen(start, text) \in Nat /\ LastPen(start, text) >= start
<1>1. Len(text) \in Nat /\ Len(text) \in 0..Len(text)
  BY PenFacts
<1> QED
  BY <1>1, PenFacts, PenGrows DEF LastPen

LEMMA LinesType ==
  ASSUME NEW end \in Nat
  PROVE  LinesUp(end) \in Nat
<1>1. CASE end >= Size
  <2>1. end \div Cols >= Rows /\ end \div Cols \in Int
    <3> DEFINE q == end \div Cols
    <3>1. q \in Int /\ Cols * q + Cols > end
      BY SizeFacts
    <3> HIDE DEF q
    <3>2. Cols * (q + 1) > Cols * Rows
      BY <1>1, <3>1, SizeFacts
    <3>3. q + 1 > Rows
      BY <3>1, <3>2, SizeFacts
    <3> QED
      BY <3>1, <3>3, SizeFacts DEF q
  <2> QED
    BY <1>1, <2>1, SizeFacts DEF LinesUp
<1>2. CASE ~(end >= Size)
  BY <1>2 DEF LinesUp
<1> QED
  BY <1>1, <1>2

\* The first character leaves its ink, and the rest of the text leaves its own.
LEMMA FirstPlaced ==
  ASSUME NEW start \in Nat, NEW text \in Seq(Chars), text # <<>>
  PROVE  /\ LastPen(start, text) = LastPen(After(start, Head(text)), Tail(text))
         /\ Placed(start, text) =
              (IF Head(text) = Ink THEN {start} ELSE {})
                \cup Placed(After(start, Head(text)), Tail(text))
<1>1. PICK N, f, t, g : /\ N = Len(text) /\ f = Pen(start, text)
                        /\ t = Tail(text) /\ g = Pen(After(start, Head(text)), t)
  OBVIOUS
<1>2. /\ N \in Nat /\ N > 0 /\ t \in Seq(Chars) /\ Len(t) = N - 1
      /\ Head(text) = text[1]
      /\ \A k \in 1..N - 1 : t[k] = text[k + 1]
  BY <1>1, TailFacts
<1>3. DOMAIN text = 1..N /\ DOMAIN t = 1..N - 1
  BY <1>1, <1>2
<1>4. \A k \in 0..N - 1 : g[k] = f[k + 1]
  BY <1>1, PenNext
<1>5. f[0] = start
  BY <1>1, PenFacts
<1>6. LastPen(start, text) = LastPen(After(start, Head(text)), Tail(text))
  <2>1. N - 1 \in 0..N - 1 /\ (N - 1) + 1 = N
    BY <1>2
  <2>2. g[N - 1] = f[N]
    BY <1>4, <2>1
  <2> QED
    BY <1>1, <1>2, <2>2 DEF LastPen
<1>7. Placed(start, text) = {f[k - 1] : k \in {j \in 1..N : text[j] = Ink}}
  BY <1>1, <1>3 DEF Placed
<1>8. Placed(After(start, Head(text)), Tail(text)) = {g[k - 1] : k \in {j \in 1..N - 1 : t[j] = Ink}}
  BY <1>1, <1>3 DEF Placed
<1>9. ASSUME NEW i, i \in Placed(start, text)
      PROVE  (i = start /\ Head(text) = Ink) \/ i \in Placed(After(start, Head(text)), Tail(text))
  <2>1. PICK k \in 1..N : text[k] = Ink /\ i = f[k - 1]
    BY <1>7, <1>9
  <2>2. CASE k = 1
    BY <1>2, <1>5, <2>1, <2>2
  <2>3. CASE k # 1
    <3>1. PICK j \in Nat : j = k - 1
      BY <1>2
    <3>2. j \in 1..N - 1 /\ k = j + 1 /\ j - 1 \in 0..N - 1 /\ (j - 1) + 1 = j
      BY <1>2, <2>3, <3>1
    <3>3. t[j] = Ink
      BY <1>2, <2>1, <3>2
    <3>4. g[j - 1] = f[j]
      BY <1>4, <3>2
    <3>5. i = g[j - 1]
      BY <2>1, <3>1, <3>4
    <3> QED
      BY <1>8, <3>2, <3>3, <3>5
  <2> QED
    BY <2>2, <2>3
<1>10. ASSUME NEW i, i \in Placed(After(start, Head(text)), Tail(text))
       PROVE  i \in Placed(start, text)
  <2>1. PICK j \in 1..N - 1 : t[j] = Ink /\ i = g[j - 1]
    BY <1>8, <1>10
  <2>2. j + 1 \in 1..N /\ j - 1 \in 0..N - 1 /\ (j - 1) + 1 = j /\ (j + 1) - 1 = j
    BY <1>2
  <2>3. text[j + 1] = Ink /\ i = f[j]
    BY <1>2, <1>4, <2>1, <2>2
  <2>4. i = f[(j + 1) - 1]
    BY <2>2, <2>3
  <2> QED
    BY <1>7, <2>2, <2>3, <2>4
<1>11. Head(text) = Ink => start \in Placed(start, text)
  <2>1. 1 \in 1..N /\ 1 - 1 = 0
    BY <1>2
  <2>2. f[1 - 1] = start
    BY <1>5, <2>1
  <2> QED
    BY <1>2, <1>7, <2>1, <2>2
<1> QED
  BY <1>6, <1>9, <1>10, <1>11

\* A line break: the rest of the text is written from the next line.
LEMMA WriteBreak ==
  ASSUME NEW was, NEW start \in Nat, NEW text \in Seq(Chars), text # <<>>, Head(text) = Newline
  PROVE  Written(was, start, text) = Written(was, After(start, Newline), Tail(text))
<1>1. Newline # Ink
  BY DEF Newline, Ink
<1>2. /\ LastPen(start, text) = LastPen(After(start, Newline), Tail(text))
      /\ Placed(start, text) = Placed(After(start, Newline), Tail(text))
  BY <1>1, FirstPlaced
<1> QED
  BY <1>2, WrittenDef

\* What is on the screen when a character has been put at a place.
Inked(was, at) == [i \in DOMAIN was |-> IF i = at THEN Ink ELSE was[i]]

\* A character: the rest is written from the next place, with this one inked.
LEMMA WriteInk ==
  ASSUME NEW was \in Cells, NEW start \in 0..Size - 1,
         NEW text \in Seq(Chars), text # <<>>, Head(text) = Ink
  PROVE  Written(was, start, text) = Written(Inked(was, start), start + 1, Tail(text))
<1>1. start \in Nat /\ start < Size
  BY SizeFacts
<1>2. After(start, Ink) = start + 1
  BY DEF After, Ink, Newline
<1>3. PICK t, P, Q : t = Tail(text) /\ P = Placed(start, text) /\ Q = Placed(start + 1, t)
  OBVIOUS
<1>4. LastPen(start, text) = LastPen(start + 1, t) /\ P = {start} \cup Q
  BY <1>1, <1>2, <1>3, FirstPlaced
<1>5. DOMAIN Inked(was, start) = DOMAIN was /\ DOMAIN was = 0..Size - 1
  BY DEF Inked, Cells
<1>6. \A i \in Int : i >= 0 => Paper(was, P, i) = Paper(Inked(was, start), Q, i)
  <2> SUFFICES ASSUME NEW i \in Int, i >= 0 PROVE Paper(was, P, i) = Paper(Inked(was, start), Q, i)
    OBVIOUS
  <2>1. CASE i < Size
    <3>1. i \in DOMAIN was
      BY <1>5, <2>1, SizeFacts
    <3>2. Inked(was, start)[i] = IF i = start THEN Ink ELSE was[i]
      BY <3>1 DEF Inked
    <3> QED
      BY <1>4, <2>1, <3>2 DEF Paper
  <2>2. CASE ~(i < Size)
    <3>1. i # start
      BY <1>1, <2>2
    <3> QED
      BY <1>4, <2>2, <3>1 DEF Paper
  <2> QED
    BY <2>1, <2>2
<1>7. PICK up \in Nat : up = LinesUp(LastPen(start, text))
  BY <1>1, LastPenType, LinesType
<1>8. \A i \in DOMAIN was : i + up * Cols \in Int /\ i + up * Cols >= 0
  <2>1. up * Cols \in Nat
    BY SizeFacts
  <2> QED
    BY <1>5, <2>1
<1>9. [i \in DOMAIN was |-> Paper(was, P, i + up * Cols)]
        = [i \in DOMAIN Inked(was, start) |-> Paper(Inked(was, start), Q, i + up * Cols)]
  BY <1>5, <1>6, <1>8
<1> QED
  BY <1>3, <1>4, <1>7, <1>9, WrittenDef

\* The screen moved up by a line.
LineUp(was) == [i \in DOMAIN was |-> IF i + Cols < Size THEN was[i + Cols] ELSE Blank]

\* Below the last line the paper may as well be moved up by a line first.
LEMMA WriteScroll ==
  ASSUME NEW was \in Cells, NEW start \in Nat, start >= Size, NEW text \in Seq(Chars)
  PROVE  Written(was, start, text) = Written(LineUp(was), start - Cols, text)
<1>1. start >= Cols /\ start - Cols \in Nat
  BY SizeFacts
<1>2. PICK N, f, g : N = Len(text) /\ f = Pen(start, text) /\ g = Pen(start - Cols, text)
  OBVIOUS
<1>3. N \in Nat /\ f \in [0..N -> Nat] /\ DOMAIN text = 1..N
  BY <1>2, PenFacts
<1>4. \A k \in 0..N : g[k] = f[k] - Cols
  BY <1>1, <1>2, PenUp
<1>5. PICK e : e = LastPen(start, text)
  OBVIOUS
<1>6. e \in Nat /\ e >= Size
  BY <1>5, LastPenType, SizeFacts
<1>7. LastPen(start - Cols, text) = e - Cols
  BY <1>2, <1>3, <1>4, <1>5 DEF LastPen
<1>8. PICK up : up = LinesUp(e)
  OBVIOUS
<1>9. up \in Nat
  BY <1>6, <1>8, LinesType
<1>10. LinesUp(e - Cols) = up - 1
  <2> DEFINE q == e \div Cols
  <2>1. q \in Int /\ Cols * q <= e /\ e < Cols * q + Cols
    BY <1>6, SizeFacts
  <2>2. (e - Cols) \div Cols = q - 1
    BY <1>6, SizeFacts
  <2>3. up = q - (Rows - 1)
    BY <1>6, <1>8 DEF LinesUp
  <2>4. LinesUp(e - Cols) = IF e - Cols >= Size THEN (q - 1) - (Rows - 1) ELSE 0
    BY <2>2 DEF LinesUp
  <2> HIDE DEF q
  <2>5. CASE e - Cols >= Size
    BY <2>1, <2>3, <2>4, <2>5, SizeFacts
  <2>6. CASE ~(e - Cols >= Size)
    <3>1. Cols * q < Cols * Rows + Cols /\ Cols * Rows < Cols * q + Cols
      BY <1>6, <2>1, <2>6, SizeFacts
    <3>2. Cols * q < Cols * (Rows + 1) /\ Cols * Rows < Cols * (q + 1)
      BY <2>1, <3>1, SizeFacts
    <3>3. q < Rows + 1 /\ Rows < q + 1
      BY <2>1, <3>2, SizeFacts
    <3>4. q = Rows
      BY <2>1, <3>3, SizeFacts
    <3> QED
      BY <2>3, <2>4, <2>6, <3>4, SizeFacts
  <2> QED
    BY <2>5, <2>6
<1>11. PICK P, Q : P = Placed(start, text) /\ Q = Placed(start - Cols, text)
  OBVIOUS
<1>12. P = {f[k - 1] : k \in {j \in 1..N : text[j] = Ink}} /\ Q = {g[k - 1] : k \in {j \in 1..N : text[j] = Ink}}
  BY <1>2, <1>3, <1>11 DEF Placed
<1>13. \A i \in Int : i \in Q <=> i + Cols \in P
  <2>1. ASSUME NEW i \in Int, i \in Q PROVE i + Cols \in P
    <3>1. PICK k \in 1..N : text[k] = Ink /\ i = g[k - 1]
      BY <1>12, <2>1
    <3>2. k - 1 \in 0..N
      BY <1>3
    <3>3. i = f[k - 1] - Cols /\ f[k - 1] \in Nat
      BY <1>3, <1>4, <3>1, <3>2
    <3>4. i + Cols = f[k - 1]
      BY <3>3, SizeFacts
    <3> QED
      BY <1>12, <3>1, <3>4
  <2>2. ASSUME NEW i \in Int, i + Cols \in P PROVE i \in Q
    <3>1. PICK k \in 1..N : text[k] = Ink /\ i + Cols = f[k - 1]
      BY <1>12, <2>2
    <3>2. k - 1 \in 0..N
      BY <1>3
    <3>3. g[k - 1] = f[k - 1] - Cols /\ f[k - 1] \in Nat
      BY <1>3, <1>4, <3>2
    <3>4. i = g[k - 1]
      BY <3>1, <3>3, SizeFacts
    <3> QED
      BY <1>12, <3>1, <3>4
  <2> QED
    BY <2>1, <2>2
<1>14. DOMAIN LineUp(was) = DOMAIN was /\ DOMAIN was = 0..Size - 1
  BY DEF LineUp, Cells
<1>15. \A i \in Int : i >= 0 => Paper(LineUp(was), Q, i) = Paper(was, P, i + Cols)
  <2> SUFFICES ASSUME NEW i \in Int, i >= 0 PROVE Paper(LineUp(was), Q, i) = Paper(was, P, i + Cols)
    OBVIOUS
  <2>1. i \in Q <=> i + Cols \in P
    BY <1>13
  <2>2. CASE i < Size
    <3>1. i \in DOMAIN was
      BY <1>14, <2>2, SizeFacts
    <3>2. LineUp(was)[i] = IF i + Cols < Size THEN was[i + Cols] ELSE Blank
      BY <3>1 DEF LineUp
    <3> QED
      BY <2>1, <2>2, <3>2 DEF Paper
  <2>3. CASE ~(i < Size)
    <3>1. ~(i + Cols < Size)
      BY <2>3, SizeFacts
    <3> QED
      BY <2>1, <2>3, <3>1 DEF Paper
  <2> QED
    BY <2>2, <2>3
<1>16. up - 1 \in Nat
  <2>1. LinesUp(e - Cols) \in Nat
    BY <1>1, <1>7, LastPenType, LinesType
  <2> QED
    BY <1>10, <2>1
<1>17. \A i \in DOMAIN was : /\ i + (up - 1) * Cols \in Int /\ i + (up - 1) * Cols >= 0
                             /\ (i + (up - 1) * Cols) + Cols = i + up * Cols
  <2>1. (up - 1) * Cols \in Nat /\ (up - 1) * Cols + Cols = up * Cols
    BY <1>16, <1>9, SizeFacts
  <2> QED
    BY <1>14, <2>1, SizeFacts
<1>18. ASSUME NEW i \in DOMAIN was
       PROVE  Paper(was, P, i + up * Cols) = Paper(LineUp(was), Q, i + (up - 1) * Cols)
  <2>1. PICK j \in Int : j = i + (up - 1) * Cols
    BY <1>17
  <2>2. j >= 0 /\ j + Cols = i + up * Cols
    BY <1>17, <2>1
  <2>3. Paper(LineUp(was), Q, j) = Paper(was, P, j + Cols)
    BY <1>15, <2>2
  <2> QED
    BY <2>1, <2>2, <2>3
<1>19. [i \in DOMAIN was |-> Paper(was, P, i + up * Cols)]
         = [i \in DOMAIN LineUp(was) |-> Paper(LineUp(was), Q, i + (up - 1) * Cols)]
  BY <1>14, <1>18
<1>20. e - up * Cols = (e - Cols) - (up - 1) * Cols
  BY <1>6, <1>9, SizeFacts
<1>21. Written(was, start, text) =
         [cells |-> [i \in DOMAIN was |-> Paper(was, P, i + up * Cols)],
          cursor |-> e - up * Cols, shown |-> e - up * Cols]
  BY <1>5, <1>8, <1>11, WrittenDef
<1>22. Written(LineUp(was), start - Cols, text) =
         [cells |-> [i \in DOMAIN LineUp(was) |-> Paper(LineUp(was), Q, i + (up - 1) * Cols)],
          cursor |-> (e - Cols) - (up - 1) * Cols, shown |-> (e - Cols) - (up - 1) * Cols]
  BY <1>7, <1>10, <1>11, WrittenDef
<1> QED
  BY <1>19, <1>20, <1>21, <1>22

\* Without text nothing changes.
LEMMA WriteNothing ==
  ASSUME NEW was \in Cells, NEW start \in 0..Size - 1
  PROVE  Written(was, start, <<>>) = [cells |-> was, cursor |-> start, shown |-> start]
<1>1. <<>> \in Seq(Chars) /\ Len(<<>>) = 0 /\ DOMAIN <<>> = {}
  OBVIOUS
<1>2. start \in Nat /\ start < Size
  BY SizeFacts
<1>3. LastPen(start, <<>>) = start
  BY <1>1, <1>2, PenFacts DEF LastPen
<1>4. Placed(start, <<>>) = {}
  BY <1>1 DEF Placed
<1>5. LinesUp(start) = 0
  BY <1>2, SizeFacts DEF LinesUp
<1>6. DOMAIN was = 0..Size - 1 /\ was = [i \in 0..Size - 1 |-> was[i]]
  BY DEF Cells
<1>7. 0 * Cols = 0 /\ start - 0 * Cols = start
  BY <1>2, SizeFacts
<1>8. [i \in DOMAIN was |-> Paper(was, {}, i + 0 * Cols)] = was
  <2>1. \A i \in 0..Size - 1 : Paper(was, {}, i + 0 * Cols) = was[i]
    BY <1>7, SizeFacts DEF Paper
  <2> QED
    BY <1>6, <2>1
<1> QED
  BY <1>3, <1>4, <1>5, <1>7, <1>8, WrittenDef
-----------------------------------------------------------------------------
(***************************************************************************)
(* What a call has still to do is what it promised.                        *)
(***************************************************************************)

\* In front of a character, with readings of the cursor that are still right.
Reading(a) ==
  /\ pc[a] \in {"newline", "break", "y", "x"}
  /\ rest[a] # <<>>
  /\ Head(rest[a]) = IF pc[a] \in {"newline", "break"} THEN Newline ELSE Ink
  /\ cursor \in 0..Size - 1
  /\ expect[a] = Written(cells, cursor, rest[a])
  /\ pc[a] = "break" => y[a] = Rem(cursor)
  /\ pc[a] = "x" => y[a] = Quot(cursor)

\* The character is there, and the cursor has to follow.
Following(a) ==
  /\ pc[a] \in {"increment", "store"}
  /\ rest[a] # <<>>
  /\ pc[a] = "increment" =>
       cursor \in 0..Size - 1 /\ expect[a] = Written(cells, cursor + 1, Tail(rest[a]))
  /\ pc[a] = "store" =>
       x[a] \in 0..Size /\ expect[a] = Written(cells, x[a], Tail(rest[a]))

\* The cursor may be below the screen, and is then taken back by a line.
Ending(a) ==
  /\ pc[a] \in {"check", "subtract", "shift"}
  /\ cursor \in 0..Size
  /\ pc[a] # "check" => cursor = Size
  /\ pc[a] = "shift" => x[a] = Size - Cols
  /\ expect[a] = Written(cells, cursor, rest[a])

Updating(a) ==
  /\ pc[a] = "update"
  /\ cursor \in 0..Size - 1
  /\ expect[a] = Written(cells, cursor, rest[a])

Clearing(a) ==
  /\ pc[a] = "clear"
  /\ rest[a] = <<>>
  /\ expect[a] = [cells |-> [i \in 0..Size - 1 |-> Blank], cursor |-> 0, shown |-> 0]

Keeps(a) ==
  /\ mode[a] # "panic"
  /\ rest[a] \in Seq(Chars)
  /\ Reading(a) \/ Following(a) \/ Ending(a) \/ Updating(a) \/ Clearing(a)

Functions ==
  /\ cells \in Cells
  /\ DOMAIN pc = Procs /\ DOMAIN y = Procs /\ DOMAIN x = Procs
  /\ DOMAIN rest = Procs /\ DOMAIN mode = Procs

Promised == \A a \in Procs : expect[a] # Nothing => Keeps(a)

PInv == Functions /\ Promised

\* What a step of a process comes to: whatever others were promised is off.
LEMMA StepPromise ==
  ASSUME NEW a \in Procs, NEW next, NEW promise, Functions,
         GoesTo(a, next, promise)
  PROVE  /\ pc'[a] = next /\ DOMAIN pc' = Procs
         /\ expect'[a] = IF next # "idle" THEN promise ELSE Nothing
         /\ \A b \in Procs : b # a => expect'[b] = Nothing
         /\ \A b \in Procs : b # a => pc'[b] = pc[b]
BY DEF GoesTo, Functions

LEMMA PutFacts ==
  ASSUME NEW f, NEW a \in Procs, DOMAIN f = Procs, NEW v
  PROVE  DOMAIN Put(f, a, v) = Procs /\ Put(f, a, v)[a] = v
BY DEF Put

\* What is in the video memory stays ink or blank.
LEMMA CellsStay ==
  ASSUME cells \in Cells
  PROVE  /\ [i \in DOMAIN cells |-> Blank] \in Cells
         /\ [i \in DOMAIN cells |-> Blank] = [i \in 0..Size - 1 |-> Blank]
         /\ Shifted = LineUp(cells) /\ Shifted \in Cells
         /\ \A at : Inked(cells, at) \in Cells
<1>1. DOMAIN cells = 0..Size - 1
  BY DEF Cells
<1>2. ASSUME NEW i \in DOMAIN cells
      PROVE  (IF i + Cols < Size THEN cells[i + Cols] ELSE Blank) \in {Ink, Blank}
  <2>1. CASE i + Cols < Size
    <3>1. i + Cols \in 0..Size - 1
      BY <1>1, <2>1, SizeFacts
    <3> QED
      BY <2>1, <3>1 DEF Cells
  <2>2. CASE ~(i + Cols < Size)
    BY <2>2
  <2> QED
    BY <2>1, <2>2
<1>3. Shifted = LineUp(cells)
  BY DEF Shifted, LineUp
<1>4. LineUp(cells) \in Cells
  BY <1>1, <1>2 DEF LineUp, Cells
<1>5. ASSUME NEW at PROVE Inked(cells, at) \in Cells
  BY <1>1 DEF Inked, Cells
<1> QED
  BY <1>1, <1>3, <1>4, <1>5 DEF Cells

\* The text goes on with the character that comes next.
LEMMA NextCharFacts ==
  ASSUME NEW text \in Seq(Chars), text # <<>>
  PROVE  /\ NextChar(text) \in {"newline", "y"}
         /\ Head(text) = IF NextChar(text) = "newline" THEN Newline ELSE Ink
<1>1. Head(text) \in {Ink, Newline}
  BY TailFacts DEF Chars
<1> QED
  BY <1>1 DEF NextChar, Ink, Newline

\* When a character is done the call goes on in front of the next, or to the
\* chip's cursor.
LEMMA GoesOn ==
  ASSUME NEW a \in Procs, mode'[a] # "panic", rest'[a] \in Seq(Chars),
         pc'[a] = "update" \/ (rest'[a] # <<>> /\ pc'[a] = NextChar(rest'[a])),
         cursor' \in 0..Size - 1,
         expect'[a] = Written(cells', cursor', rest'[a])
  PROVE  Keeps(a)'
<1>1. CASE pc'[a] = "update"
  <2>1. Updating(a)'
    BY <1>1 DEF Updating
  <2> QED
    BY <2>1 DEF Keeps
<1>2. CASE rest'[a] # <<>> /\ pc'[a] = NextChar(rest'[a])
  <2>1. /\ pc'[a] \in {"newline", "y"}
        /\ Head(rest'[a]) = IF pc'[a] = "newline" THEN Newline ELSE Ink
    BY <1>2, NextCharFacts
  <2>2. Reading(a)'
    BY <1>2, <2>1 DEF Reading
  <2> QED
    BY <2>2 DEF Keeps
<1> QED
  BY <1>1, <1>2

\* A line break ends on the screen or right below it.
LEMMA BreakFacts ==
  ASSUME NEW n \in 0..Size - 1
  PROVE  n + Cols - Rem(n) = After(n, Newline) /\ After(n, Newline) \in 0..Size
<1>1. n \in Nat /\ n < Cols * Rows /\ Cols * Rows = Size
  BY SizeFacts
<1>2. n + Cols - Rem(n) <= Cols * Rows
  BY <1>1, SizeFacts, NextLine
<1>3. n + Cols - Rem(n) = After(n, Newline)
  <2> DEFINE q == n \div Cols
  <2>1. q \in Int
    BY <1>1, SizeFacts
  <2>2. Rem(n) = n - Cols * q
    BY <1>1 DEF Rem, Quot
  <2>3. After(n, Newline) = (q + 1) * Cols
    BY DEF After
  <2> HIDE DEF q
  <2>4. (q + 1) * Cols = Cols * q + Cols /\ Cols * q \in Int
    BY <2>1, SizeFacts
  <2> QED
    BY <1>1, <2>2, <2>3, <2>4, SizeFacts
<1>4. After(n, Newline) \in Nat
  BY <1>1, AfterFacts
<1> QED
  BY <1>1, <1>2, <1>3, <1>4

-----------------------------------------------------------------------------
\* A call promises what it will leave, if the cursor is on the screen.
LEMMA CallPromise ==
  ASSUME PInv, NEW a \in Procs, Call(a)
  PROVE  PInv'
<1>1. Functions
  BY DEF PInv
<1>2. ASSUME NEW text \in Texts, print(a, text) \/ dev_write(a, text) PROVE PInv'
  <2>1. text \in Seq(Chars)
    BY TextsAssumption DEF Chars
  <2>2. PICK next : /\ Begins(a, next, Printed(text))
                    /\ \/ next = NextChar(text) /\ text # <<>>
                       \/ next \in {"idle", "update"} /\ text = <<>>
                    /\ rest' = Put(rest, a, text)
                    /\ \E m \in {"print", "write"} : mode' = Put(mode, a, m)
                    /\ UNCHANGED <<shared, y, x>>
    <3>1. CASE print(a, text)
      <4>1. PICK next : next = IF text = <<>> THEN "idle" ELSE NextChar(text)
        OBVIOUS
      <4>2. /\ Begins(a, next, Printed(text)) /\ rest' = Put(rest, a, text)
            /\ mode' = Put(mode, a, "print") /\ UNCHANGED <<shared, y, x>>
        BY <3>1, <4>1 DEF print
      <4>3. \/ next = NextChar(text) /\ text # <<>>
            \/ next \in {"idle", "update"} /\ text = <<>>
        BY <4>1
      <4>4. \E w \in {"print", "write"} : mode' = Put(mode, a, w)
        BY <4>2
      <4> QED
        BY <4>2, <4>3, <4>4, Zenon
    <3>2. CASE dev_write(a, text)
      <4>1. PICK next : next = IF text = <<>> THEN "update" ELSE NextChar(text)
        OBVIOUS
      <4>2. /\ Begins(a, next, Printed(text)) /\ rest' = Put(rest, a, text)
            /\ mode' = Put(mode, a, "write") /\ UNCHANGED <<shared, y, x>>
        BY <3>2, <4>1 DEF dev_write
      <4>3. \/ next = NextChar(text) /\ text # <<>>
            \/ next \in {"idle", "update"} /\ text = <<>>
        BY <4>1
      <4>4. \E w \in {"print", "write"} : mode' = Put(mode, a, w)
        BY <4>2
      <4> QED
        BY <4>2, <4>3, <4>4, Zenon
    <3> QED
      BY <1>2, <3>1, <3>2
  <2>3. GoesTo(a, next, IF cursor \in 0..Size - 1 THEN Printed(text) ELSE Nothing)
    BY <2>2 DEF Begins
  <2>4. UNCHANGED <<cells, cursor, shown, y, x>>
    BY <2>2 DEF shared
  <2>5. rest'[a] = text /\ DOMAIN rest' = Procs /\ mode'[a] # "panic" /\ DOMAIN mode' = Procs
    BY <1>1, <2>2, PutFacts DEF Functions
  <2>6. /\ pc'[a] = next /\ DOMAIN pc' = Procs
        /\ expect'[a] = IF next # "idle"
                        THEN IF cursor \in 0..Size - 1 THEN Printed(text) ELSE Nothing
                        ELSE Nothing
        /\ \A b \in Procs : b # a => expect'[b] = Nothing
    BY <1>1, <2>3, StepPromise
  <2>7. Functions'
    BY <1>1, <2>4, <2>5, <2>6 DEF Functions
  <2>8. ASSUME expect'[a] # Nothing PROVE Keeps(a)'
    <3>1. next # "idle" /\ cursor \in 0..Size - 1 /\ expect'[a] = Printed(text)
      BY <2>6, <2>8
    <3>2. expect'[a] = Written(cells', cursor', rest'[a])
      BY <2>4, <2>5, <3>1 DEF Printed
    <3>3. pc'[a] = "update" \/ (rest'[a] # <<>> /\ pc'[a] = NextChar(rest'[a]))
      BY <2>2, <2>5, <2>6, <3>1
    <3> QED
      BY <2>1, <2>4, <2>5, <3>1, <3>2, <3>3, GoesOn
  <2> QED
    BY <2>6, <2>7, <2>8 DEF PInv, Promised
<1>3. ASSUME NEW col, NEW row, pos_cursor(a, col, row) PROVE PInv'
  <2>1. PICK next : GoesTo(a, next, Nothing)
    BY <1>3 DEF pos_cursor, Begins
  <2>2. /\ UNCHANGED <<cells, y, x>>
        /\ UNCHANGED rest \/ rest' = Put(rest, a, Message)
        /\ UNCHANGED mode \/ mode' = Put(mode, a, "panic")
    BY <1>3 DEF pos_cursor
  <2>3. DOMAIN rest' = Procs /\ DOMAIN mode' = Procs
    BY <1>1, <2>2, PutFacts DEF Functions
  <2>4. /\ DOMAIN pc' = Procs
        /\ expect'[a] = Nothing
        /\ \A b \in Procs : b # a => expect'[b] = Nothing
    BY <1>1, <2>1, StepPromise
  <2>5. Functions'
    BY <1>1, <2>2, <2>3, <2>4 DEF Functions
  <2> QED
    BY <2>4, <2>5 DEF PInv, Promised
<1>4. ASSUME clear_screen(a) PROVE PInv'
  <2>1. PICK promise : /\ promise = [cells |-> [i \in DOMAIN cells |-> Blank], cursor |-> 0, shown |-> 0]
                       /\ Begins(a, "clear", promise)
    BY <1>4 DEF clear_screen
  <2>2. GoesTo(a, "clear", IF cursor \in 0..Size - 1 THEN promise ELSE Nothing)
    BY <2>1 DEF Begins
  <2>3. UNCHANGED <<cells, cursor, shown, y, x>>
    BY <1>4 DEF clear_screen, shared
  <2>4. rest' = Put(rest, a, <<>>) /\ mode' = Put(mode, a, "write")
    BY <1>4 DEF clear_screen
  <2>5. rest'[a] = <<>> /\ DOMAIN rest' = Procs /\ mode'[a] # "panic" /\ DOMAIN mode' = Procs
    BY <1>1, <2>4, PutFacts DEF Functions
  <2>6. /\ pc'[a] = "clear" /\ DOMAIN pc' = Procs
        /\ expect'[a] = IF cursor \in 0..Size - 1 THEN promise ELSE Nothing
        /\ \A b \in Procs : b # a => expect'[b] = Nothing
    BY <1>1, <2>2, StepPromise
  <2>7. Functions'
    BY <1>1, <2>3, <2>5, <2>6 DEF Functions
  <2>8. ASSUME expect'[a] # Nothing PROVE Keeps(a)'
    <3>1. expect'[a] = promise
      BY <2>6, <2>8
    <3>2. promise = [cells |-> [i \in 0..Size - 1 |-> Blank], cursor |-> 0, shown |-> 0]
      BY <1>1, <2>1, CellsStay DEF Functions
    <3>3. Clearing(a)'
      BY <2>5, <2>6, <3>1, <3>2 DEF Clearing
    <3>4. rest'[a] \in Seq(Chars)
      BY <2>5
    <3> QED
      BY <2>5, <3>3, <3>4 DEF Keeps
  <2> QED
    BY <2>6, <2>7, <2>8 DEF PInv, Promised
<1> QED
  BY <1>2, <1>3, <1>4 DEF Call

\* Each access brings the call nearer to what it promised.
LEMMA AccessPromise ==
  ASSUME PInv, NEW a \in Procs, Access(a)
  PROVE  PInv'
<1>1. PICK at, next : Does(a, at, next) /\ pc[a] = at
  BY Zenon DEF Access, ReadY, ReadX, Increment, ReadColumn, BreakLine, Store, Check,
     Subtract, shift_one_line_up, Clear, update_text_cursor, Does
<1>2. Functions /\ GoesTo(a, next, expect[a])
  BY <1>1 DEF PInv, Does
<1>3. /\ pc'[a] = next /\ DOMAIN pc' = Procs
      /\ expect'[a] = IF next # "idle" THEN expect[a] ELSE Nothing
      /\ \A b \in Procs : b # a => expect'[b] = Nothing
  BY <1>2, StepPromise
<1>4. SUFFICES /\ cells' \in Cells /\ DOMAIN y' = Procs /\ DOMAIN x' = Procs
               /\ DOMAIN rest' = Procs /\ DOMAIN mode' = Procs
               /\ Keeps(a) /\ next # "idle" /\ expect'[a] = expect[a] => Keeps(a)'
  <2>1. Functions'
    BY <1>3, <1>4 DEF Functions
  <2>2. ASSUME expect'[a] # Nothing PROVE Keeps(a)'
    <3>1. next # "idle" /\ expect'[a] = expect[a]
      BY <1>3, <2>2
    <3>2. Keeps(a)
      BY <2>2, <3>1 DEF PInv, Promised
    <3> QED
      BY <1>4, <3>1, <3>2
  <2> QED
    BY <1>3, <2>1, <2>2 DEF PInv, Promised
<1> DEFINE Goal == /\ cells' \in Cells /\ DOMAIN y' = Procs /\ DOMAIN x' = Procs
                   /\ DOMAIN rest' = Procs /\ DOMAIN mode' = Procs
                   /\ Keeps(a) /\ next # "idle" /\ expect'[a] = expect[a] => Keeps(a)'
<1>5. /\ cells \in Cells /\ DOMAIN y = Procs /\ DOMAIN x = Procs
      /\ DOMAIN rest = Procs /\ DOMAIN mode = Procs
  BY <1>2 DEF Functions
<1>6. ASSUME ReadY(a) PROVE Goal
  <2>1. /\ pc[a] = "y" /\ pc'[a] = "x" /\ y' = Put(y, a, Quot(cursor))
        /\ UNCHANGED <<cells, cursor, rest, mode, x>>
    BY <1>5, <1>6, StepPromise, <1>2 DEF ReadY, shared, Does
  <2>2. DOMAIN y' = Procs /\ y'[a] = Quot(cursor)
    BY <1>5, <2>1, PutFacts
  <2>3. ASSUME Keeps(a), expect'[a] = expect[a] PROVE Keeps(a)'
    <3>1. Reading(a)
      BY <2>1, <2>3 DEF Keeps, Following, Ending, Updating, Clearing
    <3>2. Reading(a)'
      BY <2>1, <2>2, <2>3, <3>1 DEF Reading
    <3> QED
      BY <2>1, <2>3, <3>2 DEF Keeps
  <2> QED
    BY <1>5, <2>1, <2>2, <2>3
<1>7. ASSUME ReadX(a) PROVE Goal
  <2>1. /\ pc[a] = "x" /\ pc'[a] = "increment" /\ y' = Put(y, a, 0)
        /\ UNCHANGED <<cursor, rest, mode, x>>
        /\ cells' = Inked(cells, y[a] * Cols + Rem(cursor))
    BY <1>5, <1>7, StepPromise, <1>2 DEF ReadX, Does, Inked
  <2>2. DOMAIN y' = Procs /\ cells' \in Cells
    BY <1>5, <2>1, PutFacts, CellsStay
  <2>3. ASSUME Keeps(a), expect'[a] = expect[a] PROVE Keeps(a)'
    <3>1. Reading(a) /\ rest[a] \in Seq(Chars)
      BY <2>1, <2>3 DEF Keeps, Following, Ending, Updating, Clearing
    <3>2. /\ rest[a] # <<>> /\ Head(rest[a]) = Ink /\ cursor \in 0..Size - 1
          /\ expect[a] = Written(cells, cursor, rest[a]) /\ y[a] = Quot(cursor)
      BY <2>1, <3>1 DEF Reading
    <3>3. y[a] * Cols + Rem(cursor) = cursor
      <4>1. cursor \in Int
        BY <3>2
      <4>2. Quot(cursor) \in Int /\ Rem(cursor) = cursor - Cols * Quot(cursor)
        BY <4>1, RemRange DEF Rem
      <4>3. Quot(cursor) * Cols = Cols * Quot(cursor) /\ Cols * Quot(cursor) \in Int
        BY <4>2, SizeFacts
      <4> QED
        BY <3>2, <4>1, <4>2, <4>3
    <3>4. expect[a] = Written(cells', cursor + 1, Tail(rest[a]))
      BY <1>5, <2>1, <3>1, <3>2, <3>3, WriteInk
    <3>5. Following(a)'
      BY <2>1, <2>3, <3>2, <3>4 DEF Following
    <3> QED
      BY <2>1, <2>3, <3>5 DEF Keeps
  <2> QED
    BY <1>5, <2>1, <2>2, <2>3
<1>8. ASSUME Increment(a) PROVE Goal
  <2>1. /\ pc[a] = "increment" /\ pc'[a] = "store" /\ x' = Put(x, a, cursor + 1)
        /\ UNCHANGED <<cells, cursor, rest, mode, y>>
    BY <1>5, <1>8, StepPromise, <1>2 DEF Increment, Does, shared
  <2>2. DOMAIN x' = Procs /\ x'[a] = cursor + 1
    BY <1>5, <2>1, PutFacts
  <2>3. ASSUME Keeps(a), expect'[a] = expect[a] PROVE Keeps(a)'
    <3>1. Following(a)
      BY <2>1, <2>3 DEF Keeps, Reading, Ending, Updating, Clearing
    <3>2. /\ rest[a] # <<>> /\ cursor \in 0..Size - 1
          /\ expect[a] = Written(cells, cursor + 1, Tail(rest[a]))
      BY <2>1, <3>1 DEF Following
    <3>3. cursor + 1 \in 0..Size
      BY <3>2, SizeFacts
    <3>4. Following(a)'
      BY <2>1, <2>2, <2>3, <3>2, <3>3 DEF Following
    <3> QED
      BY <2>1, <2>3, <3>4 DEF Keeps
  <2> QED
    BY <1>5, <2>1, <2>2, <2>3
<1>9. ASSUME ReadColumn(a) PROVE Goal
  <2>1. /\ pc[a] = "newline" /\ pc'[a] = "break" /\ y' = Put(y, a, Rem(cursor))
        /\ UNCHANGED <<cells, cursor, rest, mode, x>>
    BY <1>5, <1>9, StepPromise, <1>2 DEF ReadColumn, shared, Does
  <2>2. DOMAIN y' = Procs /\ y'[a] = Rem(cursor)
    BY <1>5, <2>1, PutFacts
  <2>3. ASSUME Keeps(a), expect'[a] = expect[a] PROVE Keeps(a)'
    <3>1. Reading(a)
      BY <2>1, <2>3 DEF Keeps, Following, Ending, Updating, Clearing
    <3>2. Reading(a)'
      BY <2>1, <2>2, <2>3, <3>1 DEF Reading
    <3> QED
      BY <2>1, <2>3, <3>2 DEF Keeps
  <2> QED
    BY <1>5, <2>1, <2>2, <2>3
<1>10. ASSUME BreakLine(a) PROVE Goal
  <2>1. /\ pc[a] = "break" /\ pc'[a] = "store"
        /\ x' = Put(x, a, cursor + Cols - y[a]) /\ y' = Put(y, a, 0)
        /\ UNCHANGED <<cells, cursor, rest, mode>>
    BY <1>5, <1>10, StepPromise, <1>2 DEF BreakLine, Does, shared
  <2>2. DOMAIN y' = Procs /\ DOMAIN x' = Procs /\ x'[a] = cursor + Cols - y[a]
    BY <1>5, <2>1, PutFacts
  <2>3. ASSUME Keeps(a), expect'[a] = expect[a] PROVE Keeps(a)'
    <3>1. Reading(a) /\ rest[a] \in Seq(Chars)
      BY <2>1, <2>3 DEF Keeps, Following, Ending, Updating, Clearing
    <3>2. /\ rest[a] # <<>> /\ Head(rest[a]) = Newline /\ cursor \in 0..Size - 1
          /\ expect[a] = Written(cells, cursor, rest[a]) /\ y[a] = Rem(cursor)
      BY <2>1, <3>1 DEF Reading
    <3>3. x'[a] = After(cursor, Newline) /\ x'[a] \in 0..Size
      BY <2>2, <3>2, BreakFacts
    <3>4. expect[a] = Written(cells, x'[a], Tail(rest[a]))
      <4>1. cursor \in Nat
        BY <3>2
      <4> QED
        BY <3>1, <3>2, <3>3, <4>1, WriteBreak
    <3>5. Following(a)'
      BY <2>1, <2>3, <3>2, <3>3, <3>4 DEF Following
    <3> QED
      BY <2>1, <2>3, <3>5 DEF Keeps
  <2> QED
    BY <1>5, <2>1, <2>2, <2>3
<1>11. ASSUME Store(a) PROVE Goal
  <2>1. /\ pc[a] = "store" /\ pc'[a] = "check"
        /\ cursor' = x[a] /\ x' = Put(x, a, 0) /\ rest' = Put(rest, a, Tail(rest[a]))
        /\ UNCHANGED <<cells, mode, y>>
    BY <1>5, <1>11, StepPromise, <1>2 DEF Store, Does
  <2>2. DOMAIN x' = Procs /\ DOMAIN rest' = Procs /\ rest'[a] = Tail(rest[a])
    BY <1>5, <2>1, PutFacts
  <2>3. ASSUME Keeps(a), expect'[a] = expect[a] PROVE Keeps(a)'
    <3>1. Following(a) /\ rest[a] \in Seq(Chars)
      BY <2>1, <2>3 DEF Keeps, Reading, Ending, Updating, Clearing
    <3>2. /\ rest[a] # <<>> /\ x[a] \in 0..Size
          /\ expect[a] = Written(cells, x[a], Tail(rest[a]))
      BY <2>1, <3>1 DEF Following
    <3>3. rest'[a] \in Seq(Chars)
      BY <2>2, <3>1, <3>2, TailFacts
    <3>4. Ending(a)'
      BY <2>1, <2>2, <2>3, <3>2 DEF Ending
    <3> QED
      BY <2>1, <2>3, <3>3, <3>4 DEF Keeps
  <2> QED
    BY <1>5, <2>1, <2>2, <2>3
<1>12. ASSUME Check(a) PROVE Goal
  <2>1. /\ pc[a] = "check" /\ pc'[a] = IF AtEnd THEN "subtract" ELSE AfterChar(a)
        /\ UNCHANGED <<cells, cursor, rest, mode, x, y>>
    BY <1>5, <1>12, StepPromise, <1>2 DEF Check, Does, shared, local
  <2>2. ASSUME Keeps(a), expect'[a] = expect[a] PROVE Keeps(a)'
    <3>1. Ending(a) /\ rest[a] \in Seq(Chars) /\ mode[a] # "panic"
      BY <2>1, <2>2 DEF Keeps, Following, Reading, Updating, Clearing
    <3>2. cursor \in 0..Size /\ expect[a] = Written(cells, cursor, rest[a])
      BY <3>1 DEF Ending
    <3>3. CASE AtEnd
      <4>1. cursor = Size /\ pc'[a] = "subtract"
        BY <2>1, <3>2, <3>3, SizeFacts DEF AtEnd
      <4>2. Ending(a)'
        BY <2>1, <2>2, <3>2, <4>1, SizeFacts DEF Ending
      <4> QED
        BY <2>1, <3>1, <4>2 DEF Keeps
    <3>4. CASE ~AtEnd
      <4>1. cursor' \in 0..Size - 1
        BY <2>1, <3>2, <3>4, SizeFacts DEF AtEnd
      <4>2. pc'[a] = "update" \/ (rest'[a] # <<>> /\ pc'[a] = NextChar(rest'[a]))
        BY <2>1, <3>4 DEF AfterChar
      <4>3. expect'[a] = Written(cells', cursor', rest'[a]) /\ mode'[a] # "panic" /\ rest'[a] \in Seq(Chars)
        BY <2>1, <2>2, <3>1, <3>2
      <4> QED
        BY <4>1, <4>2, <4>3, GoesOn
    <3> QED
      BY <3>3, <3>4
  <2> QED
    BY <1>5, <2>1, <2>2
<1>13. ASSUME Subtract(a) PROVE Goal
  <2>1. /\ pc[a] = "subtract" /\ pc'[a] = "shift" /\ x' = Put(x, a, cursor - Cols)
        /\ UNCHANGED <<cells, cursor, rest, mode, y>>
    BY <1>5, <1>13, StepPromise, <1>2 DEF Subtract, Does, shared
  <2>2. DOMAIN x' = Procs /\ x'[a] = cursor - Cols
    BY <1>5, <2>1, PutFacts
  <2>3. ASSUME Keeps(a), expect'[a] = expect[a] PROVE Keeps(a)'
    <3>1. Ending(a)
      BY <2>1, <2>3 DEF Keeps, Reading, Following, Updating, Clearing
    <3>2. Ending(a)'
      BY <2>1, <2>2, <2>3, <3>1 DEF Ending
    <3> QED
      BY <2>1, <2>3, <3>2 DEF Keeps
  <2> QED
    BY <1>5, <2>1, <2>2, <2>3
<1>14. ASSUME shift_one_line_up(a) PROVE Goal
  <2>1. /\ pc[a] = "shift" /\ pc'[a] = AfterChar(a)
        /\ cursor' = x[a] /\ x' = Put(x, a, 0) /\ cells' = Shifted
        /\ UNCHANGED <<rest, mode, y>>
    BY <1>5, <1>14, StepPromise, <1>2 DEF shift_one_line_up, Does
  <2>2. DOMAIN x' = Procs /\ cells' \in Cells /\ cells' = LineUp(cells)
    BY <1>5, <2>1, PutFacts, CellsStay
  <2>3. ASSUME Keeps(a), expect'[a] = expect[a] PROVE Keeps(a)'
    <3>1. Ending(a) /\ rest[a] \in Seq(Chars) /\ mode[a] # "panic"
      BY <2>1, <2>3 DEF Keeps, Following, Reading, Updating, Clearing
    <3>2. cursor = Size /\ x[a] = Size - Cols /\ expect[a] = Written(cells, cursor, rest[a])
      BY <2>1, <3>1 DEF Ending
    <3>3. Written(cells, Size, rest[a]) = Written(LineUp(cells), Size - Cols, rest[a])
      BY <1>5, <3>1, SizeFacts, WriteScroll
    <3>4. cursor' \in 0..Size - 1
      BY <2>1, <3>2, SizeFacts
    <3>5. pc'[a] = "update" \/ (rest'[a] # <<>> /\ pc'[a] = NextChar(rest'[a]))
      BY <2>1 DEF AfterChar
    <3>6. expect'[a] = Written(cells', cursor', rest'[a]) /\ mode'[a] # "panic" /\ rest'[a] \in Seq(Chars)
      BY <2>1, <2>2, <2>3, <3>1, <3>2, <3>3
    <3> QED
      BY <3>4, <3>5, <3>6, GoesOn
  <2> QED
    BY <1>5, <2>1, <2>2, <2>3
<1>15. ASSUME Clear(a) PROVE Goal
  <2>1. /\ pc[a] = "clear" /\ pc'[a] = "update" /\ cursor' = 0
        /\ cells' = [i \in DOMAIN cells |-> Blank]
        /\ UNCHANGED <<rest, mode, x, y>>
    BY <1>5, <1>15, StepPromise, <1>2 DEF Clear, Does, local
  <2>2. cells' \in Cells /\ cells' = [i \in 0..Size - 1 |-> Blank]
    BY <1>5, <2>1, CellsStay
  <2>3. ASSUME Keeps(a), expect'[a] = expect[a] PROVE Keeps(a)'
    <3>1. Clearing(a) /\ mode[a] # "panic"
      BY <2>1, <2>3 DEF Keeps, Following, Reading, Updating, Ending
    <3>2. /\ rest[a] = <<>>
          /\ expect[a] = [cells |-> cells', cursor |-> 0, shown |-> 0]
      BY <2>2, <3>1 DEF Clearing
    <3>3. 0 \in 0..Size - 1 /\ <<>> \in Seq(Chars)
      BY SizeFacts
    <3>4. Written(cells', 0, <<>>) = [cells |-> cells', cursor |-> 0, shown |-> 0]
      BY <2>2, <3>3, WriteNothing
    <3>5. expect'[a] = Written(cells', cursor', rest'[a])
      BY <2>1, <2>3, <3>2, <3>4
    <3> QED
      BY <2>1, <3>1, <3>2, <3>3, <3>5, GoesOn
  <2> QED
    BY <1>5, <2>1, <2>2, <2>3
<1>16. ASSUME update_text_cursor(a) PROVE Goal
  <2>1. /\ pc[a] = "update" /\ pc'[a] = AfterUpdate(a)
        /\ mode' = (IF AfterUpdate(a) = "idle" THEN Put(mode, a, "print") ELSE mode)
        /\ UNCHANGED <<cells, cursor, rest, x, y>>
    BY <1>5, <1>16, StepPromise, <1>2 DEF update_text_cursor, Does
  <2>2. DOMAIN mode' = Procs
    BY <1>5, <2>1, PutFacts
  <2>3. ASSUME Keeps(a), next # "idle", expect'[a] = expect[a] PROVE Keeps(a)'
    <3>1. Updating(a) /\ rest[a] \in Seq(Chars) /\ mode[a] # "panic"
      BY <2>1, <2>3 DEF Keeps, Following, Reading, Ending, Clearing
    <3>2. cursor \in 0..Size - 1 /\ expect[a] = Written(cells, cursor, rest[a])
      BY <3>1 DEF Updating
    <3>3. rest[a] # <<>> /\ pc'[a] = NextChar(rest[a]) /\ mode' = mode
      BY <1>3, <2>1, <2>3, <3>1 DEF AfterUpdate
    <3>4. expect'[a] = Written(cells', cursor', rest'[a])
      BY <2>1, <2>3, <3>2
    <3> QED
      BY <2>1, <3>1, <3>2, <3>3, <3>4, GoesOn
  <2> QED
    BY <1>5, <2>1, <2>2, <2>3
<1> QED
  BY <1>6, <1>7, <1>8, <1>9, <1>10, <1>11, <1>12, <1>13, <1>14, <1>15, <1>16 DEF Access

\* Nobody is promised anything at first.
LEMMA InitPromise == Init => PInv
<1> SUFFICES ASSUME Init PROVE PInv
  OBVIOUS
<1>1. Functions
  BY DEF Init, Functions, Cells
<1>2. \A a \in Procs : expect[a] = Nothing
  BY DEF Init
<1> QED
  BY <1>1, <1>2 DEF PInv, Promised

LEMMA NextPromise == PInv /\ [Next]_vars => PInv'
<1> SUFFICES ASSUME PInv, [Next]_vars PROVE PInv'
  OBVIOUS
<1>1. CASE Next
  BY <1>1, CallPromise, AccessPromise DEF Next
<1>2. CASE UNCHANGED vars
  <2>1. UNCHANGED <<cells, cursor, shown, rest, mode, y, x, pc, expect>>
    BY <1>2 DEF vars, shared, local
  <2>2. Functions'
    BY <2>1 DEF PInv, Functions
  <2>3. ASSUME NEW a \in Procs, expect'[a] # Nothing PROVE Keeps(a)'
    <3>1. Keeps(a)
      BY <2>1, <2>3 DEF PInv, Promised
    <3>2. /\ Reading(a) => Reading(a)'
          /\ Following(a) => Following(a)'
          /\ Ending(a) => Ending(a)'
          /\ Updating(a) => Updating(a)'
          /\ Clearing(a) => Clearing(a)'
      BY <2>1, Zenon DEF Reading, Following, Ending, Updating, Clearing
    <3> QED
      BY <2>1, <3>1, <3>2 DEF Keeps
  <2> QED
    BY <2>2, <2>3 DEF PInv, Promised
<1> QED
  BY <1>1, <1>2

\* The step that ends a call leaves what the call promised.
LEMMA CallEnds ==
  ASSUME PInv, Next, NEW a \in Procs, expect[a] # Nothing, pc'[a] = "idle"
  PROVE  Screen' = expect[a]
<1>1. Functions /\ Keeps(a)
  BY DEF PInv, Promised
<1>2. pc[a] \notin {"idle", "panic"}
  BY <1>1 DEF Keeps, Reading, Following, Ending, Updating, Clearing
<1>3. PICK b \in Procs : Call(b) \/ Access(b)
  BY DEF Next
<1>4. PICK next, promise : GoesTo(b, next, promise)
  <2>1. CASE Call(b)
    BY <2>1, Zenon DEF Call, print, dev_write, pos_cursor, clear_screen, Begins
  <2>2. CASE Access(b)
    BY <2>2, Zenon DEF Access, ReadY, ReadX, Increment, ReadColumn, BreakLine, Store, Check,
       Subtract, shift_one_line_up, Clear, update_text_cursor, Does
  <2> QED
    BY <1>3, <2>1, <2>2
<1>5. pc'[b] = next /\ \A c \in Procs : c # b => pc'[c] = pc[c]
  BY <1>1, <1>4, StepPromise
<1>6. b = a
  BY <1>2, <1>5
<1>7. ~Call(a)
  BY <1>2 DEF Call, print, dev_write, pos_cursor, clear_screen, Begins
<1>8. Access(a)
  BY <1>3, <1>6, <1>7
<1>9. ASSUME NEW at, NEW to, Does(a, at, to) PROVE pc[a] = at /\ to = "idle"
  <2>1. pc[a] = at /\ GoesTo(a, to, expect[a])
    BY <1>9 DEF Does
  <2>2. pc'[a] = to
    BY <1>1, <2>1, StepPromise
  <2> QED
    BY <2>1, <2>2
<1>10. AfterChar(a) # "idle"
  BY DEF AfterChar, NextChar
<1>11. update_text_cursor(a)
  BY <1>8, <1>9, <1>10 DEF Access, ReadY, ReadX, Increment, ReadColumn, BreakLine, Store, Check,
     Subtract, shift_one_line_up, Clear
<1>12. pc[a] = "update" /\ AfterUpdate(a) = "idle" /\ shown' = cursor /\ UNCHANGED <<cells, cursor>>
  BY <1>9, <1>11 DEF update_text_cursor
<1>13. rest[a] = <<>>
  BY <1>12 DEF AfterUpdate, NextChar
<1>14. Updating(a)
  BY <1>1, <1>12 DEF Keeps, Reading, Following, Ending, Clearing
<1>15. cursor \in 0..Size - 1 /\ expect[a] = Written(cells, cursor, <<>>)
  BY <1>13, <1>14 DEF Updating
<1>16. expect[a] = [cells |-> cells, cursor |-> cursor, shown |-> cursor]
  BY <1>1, <1>15, WriteNothing DEF Functions
<1> QED
  BY <1>12, <1>16 DEF Screen

\* CallsRight for every size of the screen, all texts and any number of
\* processes: a call that nobody comes between leaves its text, the cursor
\* behind it and the chip's cursor there, over as many lines as it takes
\* (screen.c:107-144).
THEOREM CallsLeaveText == Spec => CallsRight
<1>1. Spec => []PInv
  BY InitPromise, NextPromise, PTL DEF Spec
<1>2. PInv /\ [Next]_vars =>
        [\A a \in Procs : expect[a] # Nothing /\ pc'[a] = "idle" => Screen' = expect[a]]_vars
  BY CallEnds
<1> QED
  BY <1>1, <1>2, PTL DEF Spec, CallsRight
=============================================================================
