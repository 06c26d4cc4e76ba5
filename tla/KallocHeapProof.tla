--------------------------- MODULE KallocHeapProof ---------------------------
(***************************************************************************)
(* Proofs about KallocHeap, for every layout, request and alignment.       *)
(*                                                                         *)
(* The argument has three layers.  The ...Shape lemmas show what each      *)
(* piece of pointer surgery of kalloc_heap.c does to a well formed heap:   *)
(* which blocks it changes, and that the result is well formed.  The       *)
(* ...Sound lemmas add the tree: between two calls a heap is Sound(m, {}), *)
(* and while a call has a block in its hands it is Sound(m, {block}), the  *)
(* tree holding every other hole.  The ...Invariant lemmas, one for each   *)
(* action, lift that to the inductive invariant IInv.                      *)
(***************************************************************************)
EXTENDS KallocHeap, TLAPS

\* A heap whose blocks tile it and whose footers point back.
Shape(m) == HeapType(m) /\ Tiled(m) /\ FootersPointBack(m) /\ Linked(m)

\* A multiple of the alignment leaves no remainder.
LEMMA ModOfMultiple ==
  ASSUME NEW k \in Nat, NEW al \in Nat \ {0}
  PROVE  (k * al) % al = 0
OBVIOUS

\* get_aligned_address never moves an address down, moves it by at most the
\* alignment, and leaves it alone when no alignment is asked for.
LEMMA AlignUpFacts ==
  ASSUME NEW addr \in Nat, NEW alignment \in Nat
  PROVE  /\ AlignUp(addr, alignment) \in Nat
         /\ AlignUp(addr, alignment) >= addr
         /\ alignment = 0 => AlignUp(addr, alignment) = addr
         /\ AlignUp(addr, alignment) <= addr + alignment
BY DEF AlignUp

\* get_aligned_address returns an address that is aligned: aligning it again
\* changes nothing.
LEMMA AlignUpAligned ==
  ASSUME NEW addr \in Nat, NEW alignment \in Nat
  PROVE  AlignUp(AlignUp(addr, alignment), alignment) = AlignUp(addr, alignment)
<1>1. CASE alignment = 0
  BY <1>1 DEF AlignUp
<1>2. CASE alignment # 0
  <2>1. CASE addr % alignment = 0
    BY <2>1, <1>2 DEF AlignUp
  <2>2. CASE addr % alignment # 0
    <3> DEFINE q == addr \div alignment
    <3>1. q \in Nat /\ addr = (alignment * q) + (addr % alignment)
      BY <1>2
    <3>2. addr % alignment \in Nat
      BY <1>2
    <3> HIDE DEF q
    <3>3. addr - (addr % alignment) + alignment = (q + 1) * alignment
      <4>1. ((q + 1) * alignment) = (alignment * q) + alignment
        BY <3>1
      <4> DEFINE a == addr % alignment
                 b == alignment * q
      <4>2. a \in Nat /\ b \in Nat /\ addr = b + a
        BY <3>1, <3>2
      <4> HIDE DEF a, b
      <4>3. addr - a + alignment = b + alignment
        BY <4>2
      <4> QED BY <4>1, <4>3 DEF a, b
    <3>4. ((q + 1) * alignment) % alignment = 0
      BY <3>1, <1>2, ModOfMultiple
    <3> QED BY <3>3, <3>4, <2>2, <1>2 DEF AlignUp
  <2> QED BY <2>1, <2>2
<1> QED BY <1>1, <1>2

\* The address of the next header, and of the footer below it, computed from
\* a header the way kalloc_heap.c does.
LEMMA NextFacts ==
  ASSUME NEW m, HeapType(m), NEW h \in Headers(m)
  PROVE  /\ h \in Nat
         /\ m.hsize[h] \in Nat
         /\ NextHeader(m, h) \in Nat
         /\ NextHeader(m, h) = h + HeaderSize + m.hsize[h] + FooterSize
         /\ FooterOf(m, h) = NextHeader(m, h) - FooterSize
         /\ FooterOf(m, h) \in Nat
BY LayoutAssumption DEF HeapType, NextHeader, FooterOf

\* The end of the heap (initial_addr + size) is an address.
LEMMA EndFacts ==
  ASSUME NEW m, HeapType(m)
  PROVE  End(m) \in Nat
BY HeapAssumption DEF HeapType, End

\* Two blocks that end at the same address are the same block.
LEMMA NextInjective ==
  ASSUME NEW m, HeapType(m), Tiled(m), NEW g \in Headers(m), NEW h \in Headers(m),
         NextHeader(m, g) = NextHeader(m, h)
  PROVE  g = h
<1>1. /\ g \in Nat /\ h \in Nat /\ NextHeader(m, g) \in Nat /\ NextHeader(m, h) \in Nat
      /\ NextHeader(m, g) > g /\ NextHeader(m, h) > h
  BY NextFacts, LayoutAssumption
<1>2. (g < h => NextHeader(m, g) <= h) /\ (h < g => NextHeader(m, h) <= g)
  BY DEF Tiled
<1> QED BY <1>1, <1>2

\* The footer just below a header, or below the end of the heap, leads to the
\* block that ends there: the step by which kalloc_heap_alloc and
\* kalloc_heap_free reach the previous and the last block.
LEMMA PreviousFacts ==
  ASSUME NEW m, Shape(m), NEW a \in (Headers(m) \ {InitialAddr}) \cup {End(m)}
  PROVE  /\ Previous(m, a) \in Headers(m)
         /\ NextHeader(m, Previous(m, a)) = a
         /\ Previous(m, a) < a
<1>1. PICK g \in Headers(m) : NextHeader(m, g) = a
  BY DEF Shape, Linked
<1>2. FooterOf(m, g) = a - FooterSize /\ g < a
  BY <1>1, NextFacts, LayoutAssumption DEF Shape
<1>3. Previous(m, a) = g
  BY <1>1, <1>2 DEF Shape, FootersPointBack, Previous
<1> QED BY <1>1, <1>2, <1>3

\* Joining two neighbours (kalloc_heap_free) leaves a well formed heap in
\* which only those two blocks have changed.
LEMMA MergeShape ==
  ASSUME NEW m, NEW g \in Headers(m), NEW n \in Headers(m), Shape(m),
         NextHeader(m, g) = n
  PROVE  LET r == Merge(m, g, n) IN
         /\ Shape(r)
         /\ Headers(r) = Headers(m) \ {n}
         /\ r.used = [h \in Headers(r) |-> m.used[h]]
         /\ \A h \in Headers(r) : 
              /\ r.hsize[h] = IF h = g THEN m.hsize[g] + m.hsize[n] + HeaderSize + FooterSize ELSE m.hsize[h]
              /\ NextHeader(r, h) = IF h = g THEN NextHeader(m, n) ELSE NextHeader(m, h)
         /\ r.size = m.size /\ End(r) = End(m) /\ r.avl = m.avl /\ r.faults = m.faults
<1> DEFINE r == Merge(m, g, n)
<1> USE LayoutAssumption, HeapAssumption
<1>0. HeapType(m) /\ Tiled(m) /\ FootersPointBack(m) /\ Linked(m)
  BY DEF Shape
<1>1. /\ g # n /\ g < n 
      /\ \A h \in Headers(m) : 
           /\ h \in Nat /\ NextHeader(m, h) \in Nat /\ NextHeader(m, h) > h
           /\ FooterOf(m, h) = NextHeader(m, h) - FooterSize
           /\ FooterOf(m, h) \in Nat
           /\ NextHeader(m, h) = n => h = g
  BY <1>0, NextFacts, NextInjective
<1>2. /\ End(r) = End(m) /\ r.size = m.size
      /\ Headers(r) = Headers(m) \ {n}
      /\ r.hsize = [h \in Headers(m) \ {n} |-> IF h = g THEN m.hsize[g] + m.hsize[n] + HeaderSize + FooterSize ELSE m.hsize[h]]
      /\ r.used = [h \in Headers(m) \ {n} |-> m.used[h]]
      /\ r.footer = [f \in (DOMAIN m.footer \cup {FooterOf(m, n)}) \ {FooterOf(m, g)} |-> IF f = FooterOf(m, n) THEN g ELSE m.footer[f]]
      /\ r.avl = m.avl /\ r.faults = m.faults
  BY <1>0, <1>1 DEF Merge, WithBlocks, Heap, Write, Forget, Headers, End, HeapType
<1> HIDE DEF r
<1>3. \A h \in Headers(r) : 
        /\ r.hsize[h] = IF h = g THEN m.hsize[g] + m.hsize[n] + HeaderSize + FooterSize ELSE m.hsize[h]
        /\ NextHeader(r, h) = IF h = g THEN NextHeader(m, n) ELSE NextHeader(m, h)
        /\ FooterOf(r, h) = IF h = g THEN FooterOf(m, n) ELSE FooterOf(m, h)
  BY <1>0, <1>1, <1>2 DEF NextHeader, FooterOf, HeapType
<1>4. HeapType(r)
  BY <1>0, <1>1, <1>2 DEF HeapType, FootersPointBack, Tiled
<1>5. Tiled(r)
  <2>1. InitialAddr \in Headers(r)
    <3>1. g >= InitialAddr
      BY <1>0 DEF Tiled
    <3>2. n # InitialAddr
      BY <3>1, <1>1
    <3> QED BY <3>2, <1>0, <1>2 DEF Tiled
  <2>2. \A h \in Headers(r) : h >= InitialAddr /\ NextHeader(r, h) <= End(r)
     BY <1>0, <1>1, <1>2, <1>3 DEF Tiled
  <2>3. \A h \in Headers(r) : NextHeader(r, h) = End(r) \/ NextHeader(r, h) \in Headers(r)
     BY <1>0, <1>1, <1>2, <1>3 DEF Tiled
  <2>4. \A a, h \in Headers(r) : a < h => NextHeader(r, a) <= h
     BY <1>0, <1>1, <1>2, <1>3 DEF Tiled
  <2> QED BY <2>1, <2>2, <2>3, <2>4 DEF Tiled
<1>6. FootersPointBack(r)
  <2>1. \A h \in Headers(r) : FooterOf(r, h) \in DOMAIN r.footer /\ r.footer[FooterOf(r, h)] = h
    BY <1>0, <1>1, <1>2, <1>3, NextInjective DEF FootersPointBack
  <2>2. \A f \in DOMAIN r.footer : \E h \in Headers(r) : f = FooterOf(r, h)
    BY <1>0, <1>1, <1>2, <1>3 DEF FootersPointBack
  <2> QED BY <2>1, <2>2 DEF FootersPointBack
<1>7. Linked(r)
  <2> SUFFICES ASSUME NEW a \in (Headers(r) \ {InitialAddr}) \cup {End(r)}
               PROVE \E h \in Headers(r) : NextHeader(r, h) = a
    BY DEF Linked
  <2>1. PICK h \in Headers(m) : NextHeader(m, h) = a
    BY <1>0, <1>2 DEF Linked
  <2>2. CASE h = n
    BY <2>1, <2>2, <1>1, <1>2, <1>3
  <2>3. CASE h # n
    <3>1. h # g
      BY <2>1, <2>3, <1>0, <1>1, <1>2 DEF Tiled
    <3> QED BY <2>1, <2>3, <3>1, <1>2, <1>3
  <2> QED BY <2>2, <2>3
<1> QED BY <1>2, <1>3, <1>4, <1>5, <1>6, <1>7 DEF Shape, r

\* Giving the alignment gap to the previous block (kalloc_heap_alloc) leaves a
\* well formed heap in which only that block and the hole have changed.
LEMMA GapShape ==
  ASSUME NEW m, NEW t \in Headers(m) \ {InitialAddr}, Shape(m),
         NEW gap \in Nat \ {0}, gap <= m.hsize[t]
  PROVE  LET r == GiveGapToPrevious(m, t, gap)
             p == Previous(m, t) IN
         /\ Shape(r)
         /\ Headers(r) = (Headers(m) \ {t}) \cup {t + gap}
         /\ t + gap \notin Headers(m)
         /\ r.used = [h \in Headers(r) |-> IF h = t + gap THEN 0 ELSE m.used[h]]
         /\ \A h \in Headers(r) :
              /\ r.hsize[h] = IF h = p THEN m.hsize[p] + gap
                              ELSE IF h = t + gap THEN m.hsize[t] - gap ELSE m.hsize[h]
              /\ NextHeader(r, h) = IF h = p THEN t + gap
                              ELSE IF h = t + gap THEN NextHeader(m, t) ELSE NextHeader(m, h)
         /\ r.size = m.size /\ End(r) = End(m) /\ r.avl = m.avl /\ r.faults = m.faults
<1> DEFINE r == GiveGapToPrevious(m, t, gap)
           p == Previous(m, t)
<1> USE LayoutAssumption, HeapAssumption
<1>0. HeapType(m) /\ Tiled(m) /\ FootersPointBack(m) /\ Linked(m)
  BY DEF Shape
<1>1. p \in Headers(m) /\ NextHeader(m, p) = t /\ p < t /\ p # t /\ t \in Headers(m)
  BY <1>0, PreviousFacts, NextFacts
<1>2. \A h \in Headers(m) :
        /\ h \in Nat /\ NextHeader(m, h) \in Nat /\ NextHeader(m, h) > h
        /\ FooterOf(m, h) = NextHeader(m, h) - FooterSize
        /\ FooterOf(m, h) \in Nat
        /\ NextHeader(m, h) = t => h = p
  BY <1>0, <1>1, NextFacts, NextInjective
<1>3. t + gap \in Nat /\ t < t + gap /\ t + gap < NextHeader(m, t) - FooterSize
  BY <1>0, NextFacts
<1>g. /\ t \in Nat /\ p \in Nat /\ NextHeader(m, t) \in Nat /\ FooterOf(m, t) \in Nat
      /\ FooterOf(m, t) = NextHeader(m, t) - FooterSize
  BY <1>1, <1>2
<1>4. t + gap \notin Headers(m) /\ p # t + gap
  <2>1. t + gap \in Headers(m) => NextHeader(m, t) <= t + gap
    BY <1>0, <1>1, <1>3 DEF Tiled
  <2> QED BY <2>1, <1>1, <1>3, <1>g
<1>5. /\ t - FooterSize = FooterOf(m, p)
      /\ t + gap - FooterSize < FooterOf(m, t)
      /\ t + gap - FooterSize \in Nat
  BY <1>1, <1>2, <1>3
<1> HIDE DEF p
<1>6. /\ End(r) = End(m) /\ r.size = m.size
      /\ Headers(r) = (Headers(m) \ {t}) \cup {t + gap}
      /\ r.hsize = [h \in (Headers(m) \ {t}) \cup {t + gap} |->
                     IF h = p THEN m.hsize[p] + gap
                     ELSE IF h = t + gap THEN m.hsize[t] - gap ELSE m.hsize[h]]
      /\ r.used = [h \in (Headers(m) \ {t}) \cup {t + gap} |-> IF h = t + gap THEN 0 ELSE m.used[h]]
      /\ r.footer = [f \in (DOMAIN m.footer \ {FooterOf(m, p)}) \cup {t + gap - FooterSize, FooterOf(m, t)} |->
                     IF f = FooterOf(m, t) THEN t + gap
                     ELSE IF f = t + gap - FooterSize THEN p ELSE m.footer[f]]
      /\ r.avl = m.avl /\ r.faults = m.faults
  BY <1>0, <1>1, <1>3, <1>4, <1>5
  DEF GiveGapToPrevious, WithBlocks, Heap, Write, Forget, Headers, End, HeapType, p
<1> HIDE DEF r
<1>7. \A h \in Headers(r) :
        /\ r.hsize[h] = IF h = p THEN m.hsize[p] + gap
                        ELSE IF h = t + gap THEN m.hsize[t] - gap ELSE m.hsize[h]
        /\ NextHeader(r, h) = IF h = p THEN t + gap
                        ELSE IF h = t + gap THEN NextHeader(m, t) ELSE NextHeader(m, h)
        /\ FooterOf(r, h) = IF h = p THEN t + gap - FooterSize
                        ELSE IF h = t + gap THEN FooterOf(m, t) ELSE FooterOf(m, h)
  BY <1>0, <1>1, <1>2, <1>3, <1>4, <1>6 DEF NextHeader, FooterOf, HeapType
<1>n. /\ p \in Headers(r) /\ NextHeader(r, p) = t + gap
      /\ t + gap \in Headers(r) /\ NextHeader(r, t + gap) = NextHeader(m, t)
      /\ \A h \in Headers(r) \ {p, t + gap} :
           h \in Headers(m) \ {p, t} /\ NextHeader(r, h) = NextHeader(m, h)
  BY <1>1, <1>4, <1>6, <1>7
<1>8. HeapType(r)
  <2>1. Headers(r) \subseteq Nat /\ r.hsize \in [Headers(r) -> Nat] /\ r.used \in [Headers(r) -> {0, 1}]
    BY <1>0, <1>1, <1>3, <1>4, <1>6 DEF HeapType
  <2>2. DOMAIN r.footer \subseteq Nat
    BY <1>0, <1>2, <1>5, <1>6 DEF HeapType
  <2>3. \A f \in DOMAIN m.footer \ {FooterOf(m, t)} : m.footer[f] \in Headers(m) \ {t}
    BY <1>0 DEF HeapType, FootersPointBack
  <2>4. r.footer \in [DOMAIN r.footer -> Headers(r)]
    BY <2>3, <1>0, <1>1, <1>6
  <2> QED BY <2>1, <2>2, <2>4, <1>0, <1>6 DEF HeapType
<1>9. Tiled(r)
  <2>1. InitialAddr \in Headers(r)
    BY <1>0, <1>6 DEF Tiled
  <2>0. t >= InitialAddr /\ NextHeader(m, t) <= End(m) /\ End(m) \in Nat
    BY <1>0, <1>1, EndFacts DEF Tiled
  <2>2. ASSUME NEW h \in Headers(r)
        PROVE  h >= InitialAddr /\ NextHeader(r, h) <= End(r)
    <3>1. CASE h = p
      <4>1. p >= InitialAddr
        BY <1>0, <1>1 DEF Tiled
      <4> QED BY <4>1, <3>1, <2>0, <1>3, <1>6, <1>g, <1>n
    <3>2. CASE h = t + gap
      BY <3>2, <2>0, <1>3, <1>6, <1>g, <1>n
    <3>3. CASE h # p /\ h # t + gap
      BY <3>3, <1>0, <1>6, <1>7 DEF Tiled
    <3> QED BY <3>1, <3>2, <3>3
  <2>3. \A h \in Headers(r) : NextHeader(r, h) = End(r) \/ NextHeader(r, h) \in Headers(r)
    BY <1>0, <1>1, <1>2, <1>6, <1>7 DEF Tiled
  <2>4. ASSUME NEW a \in Headers(r), NEW h \in Headers(r), a < h
        PROVE  NextHeader(r, a) <= h
    <3>0. \A x \in Headers(m) :
            /\ x < t => NextHeader(m, x) <= t
            /\ t < x => NextHeader(m, t) <= x
            /\ x < p => NextHeader(m, x) <= p
            /\ p < x => t <= x
      BY <1>0, <1>1 DEF Tiled
    <3>1. CASE a = p
      <4>1. CASE h = t + gap
        BY <4>1, <3>1, <1>3, <1>n
      <4>2. CASE h # t + gap
        <5>1. h \in Headers(m) /\ h # t /\ h \in Nat /\ p < h
          BY <4>2, <3>1, <2>4, <1>2, <1>6
        <5>2. t < h
          BY <5>1, <3>0, <1>2, <1>g
        <5>3. NextHeader(m, t) <= h
          BY <5>1, <5>2, <3>0, <1>2, <1>g
        <5> QED BY <5>1, <5>3, <3>1, <1>3, <1>g, <1>n
      <4> QED BY <4>1, <4>2
    <3>2. CASE a = t + gap
      <4>1. h \in Headers(m) /\ h \in Nat /\ t < h
        BY <3>2, <2>4, <1>2, <1>3, <1>6, <1>g
      <4> QED BY <4>1, <3>0, <3>2, <1>2, <1>g, <1>n
    <3>3. CASE a # p /\ a # t + gap /\ h = t + gap
      <4>1. a \in Headers(m) \ {p, t} /\ NextHeader(r, a) = NextHeader(m, a)
        BY <3>3, <1>n
      <4>2. a < t
        <5>1. t < a => NextHeader(m, t) <= a
          BY <3>0, <4>1, <1>2, <1>g
        <5>2. a \in Nat /\ a # t /\ a < t + gap
          BY <4>1, <3>3, <2>4, <1>2
        <5> QED BY <5>1, <5>2, <1>3, <1>g
      <4>3. NextHeader(m, a) <= t /\ NextHeader(m, a) \in Nat
        BY <4>1, <4>2, <3>0, <1>2
      <4> QED BY <4>1, <4>3, <3>3, <1>3, <1>g
    <3>4. CASE a # p /\ a # t + gap /\ h # t + gap
      BY <3>4, <2>4, <1>0, <1>6, <1>7 DEF Tiled
    <3> QED BY <3>1, <3>2, <3>3, <3>4
  <2> QED BY <2>1, <2>2, <2>3, <2>4 DEF Tiled
<1>10. FootersPointBack(r)
  <2>1. \A h \in Headers(r) : FooterOf(r, h) \in DOMAIN r.footer /\ r.footer[FooterOf(r, h)] = h
    <3> TAKE h \in Headers(r)
    <3>1. CASE h = p
      BY <3>1, <1>1, <1>2, <1>4, <1>5, <1>6, <1>7
    <3>2. CASE h = t + gap
      BY <3>2, <1>1, <1>2, <1>4, <1>5, <1>6, <1>7
    <3>3. CASE h # p /\ h # t + gap
      <4>1. h \in Headers(m) /\ h # t /\ FooterOf(r, h) = FooterOf(m, h)
        BY <3>3, <1>6, <1>7
      <4>2. h < t \/ h > t
        BY <4>1, <1>2
      <4>3. FooterOf(m, h) # t + gap - FooterSize
        <5>1. NextHeader(m, h) <= t \/ NextHeader(m, t) <= h
          BY <4>1, <4>2, <1>0, <1>1 DEF Tiled
        <5> QED BY <5>1, <4>1, <1>1, <1>2, <1>3
      <4>4. FooterOf(m, h) # FooterOf(m, t) /\ FooterOf(m, h) # FooterOf(m, p)
        BY <3>3, <4>1, <1>0, <1>1 DEF FootersPointBack
      <4> QED BY <4>1, <4>3, <4>4, <1>0, <1>6 DEF FootersPointBack
    <3> QED BY <3>1, <3>2, <3>3
  <2>2. ASSUME NEW f \in DOMAIN r.footer
        PROVE  \E h \in Headers(r) : f = FooterOf(r, h)
    <3>1. CASE f = t + gap - FooterSize
      BY <3>1, <1>1, <1>6, <1>7
    <3>2. CASE f = FooterOf(m, t)
      BY <3>2, <1>4, <1>6, <1>7
    <3>3. CASE f # t + gap - FooterSize /\ f # FooterOf(m, t)
      <4>1. PICK h \in Headers(m) : f = FooterOf(m, h) /\ h # p /\ h # t
        BY <3>3, <1>0, <1>6 DEF FootersPointBack
      <4> QED BY <4>1, <1>4, <1>6, <1>7
    <3> QED BY <3>1, <3>2, <3>3
  <2> QED BY <2>1, <2>2 DEF FootersPointBack
<1>11. Linked(r)
  <2> SUFFICES ASSUME NEW a \in (Headers(r) \ {InitialAddr}) \cup {End(r)}
               PROVE \E h \in Headers(r) : NextHeader(r, h) = a
    BY DEF Linked
  <2>1. CASE a = t + gap
    BY <2>1, <1>1, <1>6, <1>7
  <2>2. CASE a # t + gap
    <3>1. PICK h \in Headers(m) : NextHeader(m, h) = a
      BY <2>2, <1>0, <1>6 DEF Linked
    <3>2. CASE h = t
      BY <3>1, <3>2, <1>4, <1>6, <1>7
    <3>3. CASE h # t
      <4>1. h # p
        BY <3>1, <2>2, <1>0, <1>1, <1>2, <1>6, EndFacts DEF Tiled
      <4> QED BY <3>1, <3>3, <4>1, <1>4, <1>6, <1>7
    <3> QED BY <3>2, <3>3
  <2> QED BY <2>1, <2>2
<1> QED BY <1>4, <1>6, <1>7, <1>8, <1>9, <1>10, <1>11 DEF Shape, r, p

\* Splitting a block (kalloc_heap_alloc) leaves a well formed heap in which
\* only that block has changed and one hole has appeared.
LEMMA SplitShape ==
  ASSUME NEW m, NEW t \in Headers(m), Shape(m),
         NEW size \in Nat, LeavesHole(m, t, size)
  PROVE  LET r == Split(m, t, size)
             n == t + HeaderSize + size + FooterSize IN
         /\ Shape(r)
         /\ Headers(r) = Headers(m) \cup {n}
         /\ n \notin Headers(m)
         /\ r.used = [h \in Headers(r) |->
                        IF h = n THEN 0 ELSE IF h = t THEN 1 ELSE m.used[h]]
         /\ \A h \in Headers(r) :
              /\ r.hsize[h] = IF h = t THEN size
                              ELSE IF h = n THEN m.hsize[t] - size - HeaderSize - FooterSize
                              ELSE m.hsize[h]
              /\ NextHeader(r, h) = IF h = t THEN n
                                    ELSE IF h = n THEN NextHeader(m, t)
                                    ELSE NextHeader(m, h)
         /\ r.size = m.size /\ End(r) = End(m) /\ r.avl = m.avl /\ r.faults = m.faults
<1> DEFINE r == Split(m, t, size)
           n == t + HeaderSize + size + FooterSize
<1> USE LayoutAssumption, HeapAssumption
<1>0. HeapType(m) /\ Tiled(m) /\ FootersPointBack(m) /\ Linked(m)
  BY DEF Shape
<1>1. \A h \in Headers(m) :
        /\ h \in Nat /\ NextHeader(m, h) \in Nat /\ NextHeader(m, h) > h
        /\ FooterOf(m, h) = NextHeader(m, h) - FooterSize
        /\ FooterOf(m, h) \in Nat
  BY <1>0, NextFacts
<1>2. /\ t \in Nat /\ n \in Nat /\ t < n /\ NextHeader(m, t) \in Nat
      /\ n < NextHeader(m, t) - FooterSize
      /\ FooterOf(m, t) = NextHeader(m, t) - FooterSize
      /\ m.hsize[t] - size - HeaderSize - FooterSize \in Nat
      /\ NextHeader(m, t) = n + HeaderSize + (m.hsize[t] - size - HeaderSize - FooterSize) + FooterSize
      /\ n - FooterSize \in Nat /\ n - FooterSize = t + HeaderSize + size
      /\ n - FooterSize < FooterOf(m, t)
  BY <1>0, NextFacts DEF LeavesHole
<1> HIDE DEF n
<1>3. n \notin Headers(m)
  <2>1. n \in Headers(m) => NextHeader(m, t) <= n
    BY <1>0, <1>2 DEF Tiled
  <2> QED BY <2>1, <1>2
<1>4. /\ End(r) = End(m) /\ r.size = m.size
      /\ Headers(r) = Headers(m) \cup {n}
      /\ r.hsize = [h \in Headers(m) \cup {n} |->
                     IF h = t THEN size
                     ELSE IF h = n THEN m.hsize[t] - size - HeaderSize - FooterSize
                     ELSE m.hsize[h]]
      /\ r.used = [h \in Headers(m) \cup {n} |->
                     IF h = n THEN 0 ELSE IF h = t THEN 1 ELSE m.used[h]]
      /\ r.footer = [f \in DOMAIN m.footer \cup {n - FooterSize, FooterOf(m, t)} |->
                      IF f = FooterOf(m, t) THEN n
                      ELSE IF f = n - FooterSize THEN t ELSE m.footer[f]]
      /\ r.avl = m.avl /\ r.faults = m.faults
  BY <1>0, <1>2, <1>3
  DEF Split, WithBlocks, Heap, Write, Headers, End, HeapType, n
<1> HIDE DEF r
<1>5. /\ t \in Headers(r) /\ NextHeader(r, t) = n /\ FooterOf(r, t) = n - FooterSize
      /\ n \in Headers(r) /\ NextHeader(r, n) = NextHeader(m, t)
      /\ FooterOf(r, n) = FooterOf(m, t)
      /\ \A h \in Headers(r) \ {t, n} :
           /\ h \in Headers(m)
           /\ NextHeader(r, h) = NextHeader(m, h)
           /\ FooterOf(r, h) = FooterOf(m, h)
  BY <1>0, <1>1, <1>2, <1>3, <1>4 DEF NextHeader, FooterOf, HeapType, n
<1>6. HeapType(r)
  <2>1. Headers(r) \subseteq Nat /\ r.hsize \in [Headers(r) -> Nat] /\ r.used \in [Headers(r) -> {0, 1}]
    BY <1>0, <1>2, <1>3, <1>4 DEF HeapType
  <2>2. DOMAIN r.footer \subseteq Nat
    BY <1>0, <1>1, <1>2, <1>4 DEF HeapType
  <2>3. r.footer \in [DOMAIN r.footer -> Headers(r)]
    BY <1>0, <1>4 DEF HeapType
  <2> QED BY <2>1, <2>2, <2>3, <1>0, <1>4 DEF HeapType
<1>7. Tiled(r)
  <2>0. t >= InitialAddr /\ NextHeader(m, t) <= End(m) /\ End(m) \in Nat
    BY <1>0, EndFacts DEF Tiled
  <2>1. InitialAddr \in Headers(r)
    BY <1>0, <1>4 DEF Tiled
  <2>2. ASSUME NEW h \in Headers(r)
        PROVE  h >= InitialAddr /\ NextHeader(r, h) <= End(r)
    <3>1. CASE h \in {t, n}
      BY <3>1, <2>0, <1>2, <1>4, <1>5
    <3>2. CASE h \notin {t, n}
      BY <3>2, <1>0, <1>4, <1>5 DEF Tiled
    <3> QED BY <3>1, <3>2
  <2>3. \A h \in Headers(r) : NextHeader(r, h) = End(r) \/ NextHeader(r, h) \in Headers(r)
    BY <1>0, <1>4, <1>5 DEF Tiled
  <2>4. ASSUME NEW a \in Headers(r), NEW h \in Headers(r), a < h
        PROVE  NextHeader(r, a) <= h
    <3>0. \A x \in Headers(m) :
            /\ x < t => NextHeader(m, x) <= t
            /\ t < x => NextHeader(m, t) <= x
      BY <1>0 DEF Tiled
    <3>1. CASE a \in {t, n}
      <4>1. CASE h = n
        BY <4>1, <3>1, <2>4, <1>2, <1>5
      <4>2. CASE h # n
        <5>1. h \in Headers(m) /\ h \in Nat /\ t < h
          BY <4>2, <3>1, <2>4, <1>1, <1>2, <1>4
        <5>2. NextHeader(m, t) <= h
          BY <5>1, <3>0
        <5> QED BY <5>1, <5>2, <3>1, <1>2, <1>5
      <4> QED BY <4>1, <4>2
    <3>2. CASE a \notin {t, n} /\ h = n
      <4>1. a \in Headers(m) /\ a \in Nat /\ a # t /\ a < n /\ NextHeader(r, a) = NextHeader(m, a)
        BY <3>2, <2>4, <1>1, <1>5
      <4>2. a < t
        <5>1. t < a => NextHeader(m, t) <= a
          BY <3>0, <4>1, <1>1, <1>2
        <5> QED BY <5>1, <4>1, <1>2
      <4>3. NextHeader(m, a) <= t /\ NextHeader(m, a) \in Nat
        BY <4>1, <4>2, <3>0, <1>1
      <4> QED BY <4>1, <4>3, <3>2, <1>2
    <3>3. CASE a \notin {t, n} /\ h # n
      BY <3>3, <2>4, <1>0, <1>4, <1>5 DEF Tiled
    <3> QED BY <3>1, <3>2, <3>3
  <2> QED BY <2>1, <2>2, <2>3, <2>4 DEF Tiled
<1>8. FootersPointBack(r)
  <2>1. ASSUME NEW h \in Headers(r)
        PROVE  FooterOf(r, h) \in DOMAIN r.footer /\ r.footer[FooterOf(r, h)] = h
    <3>1. CASE h = t
      BY <3>1, <1>1, <1>2, <1>4, <1>5
    <3>2. CASE h = n
      BY <3>2, <1>2, <1>4, <1>5
    <3>3. CASE h \notin {t, n}
      <4>1. h \in Headers(m) /\ h # t /\ FooterOf(r, h) = FooterOf(m, h)
        BY <3>3, <1>5
      <4>2. NextHeader(m, h) <= t \/ NextHeader(m, t) <= h
        BY <4>1, <1>0, <1>1 DEF Tiled
      <4>3. FooterOf(m, h) # n - FooterSize
        BY <4>1, <4>2, <1>1, <1>2
      <4>4. FooterOf(m, h) # FooterOf(m, t)
        BY <3>3, <4>1, <1>0 DEF FootersPointBack
      <4> QED BY <4>1, <4>3, <4>4, <1>0, <1>4 DEF FootersPointBack
    <3> QED BY <3>1, <3>2, <3>3
  <2>2. ASSUME NEW f \in DOMAIN r.footer
        PROVE  \E h \in Headers(r) : f = FooterOf(r, h)
    <3>1. CASE f \in {n - FooterSize, FooterOf(m, t)}
      BY <3>1, <1>5
    <3>2. CASE f \notin {n - FooterSize, FooterOf(m, t)}
      <4>1. PICK h \in Headers(m) : f = FooterOf(m, h) /\ h # t
        BY <3>2, <1>0, <1>4 DEF FootersPointBack
      <4> QED BY <4>1, <1>3, <1>4, <1>5
    <3> QED BY <3>1, <3>2
  <2> QED BY <2>1, <2>2 DEF FootersPointBack
<1>9. Linked(r)
  <2> SUFFICES ASSUME NEW a \in (Headers(r) \ {InitialAddr}) \cup {End(r)}
               PROVE \E h \in Headers(r) : NextHeader(r, h) = a
    BY DEF Linked
  <2>1. CASE a = n
    BY <2>1, <1>5
  <2>2. CASE a # n
    <3>1. PICK h \in Headers(m) : NextHeader(m, h) = a
      BY <2>2, <1>0, <1>4 DEF Linked
    <3> QED BY <3>1, <1>3, <1>4, <1>5
  <2> QED BY <2>1, <2>2
<1> QED BY <1>3, <1>4, <1>5, <1>6, <1>7, <1>8, <1>9 DEF Shape, r, n

\* Setting the used flag of a block changes nothing else.
LEMMA MarkShape ==
  ASSUME NEW m, NEW t \in Headers(m), Shape(m), NEW used \in {0, 1}
  PROVE  LET r == MarkUsed(m, t, used) IN
         /\ Shape(r)
         /\ Headers(r) = Headers(m)
         /\ r.used = [h \in Headers(r) |-> IF h = t THEN used ELSE m.used[h]]
         /\ r.hsize = m.hsize
         /\ \A h \in Headers(r) : NextHeader(r, h) = NextHeader(m, h)
         /\ r.size = m.size /\ End(r) = End(m) /\ r.avl = m.avl /\ r.faults = m.faults
<1> DEFINE r == MarkUsed(m, t, used)
<1>1. /\ r.size = m.size /\ r.hsize = m.hsize /\ r.footer = m.footer
      /\ r.avl = m.avl /\ r.faults = m.faults
      /\ r.used = [h \in Headers(m) |-> IF h = t THEN used ELSE m.used[h]]
  BY DEF MarkUsed, WithBlocks, Heap, Write, Shape, HeapType
<1> HIDE DEF r
<1>2. /\ Headers(r) = Headers(m) /\ End(r) = End(m)
      /\ \A h : NextHeader(r, h) = NextHeader(m, h) /\ FooterOf(r, h) = FooterOf(m, h)
  BY <1>1 DEF Headers, End, NextHeader, FooterOf
<1>3. HeapType(r)
  BY <1>1, <1>2 DEF Shape, HeapType
<1>4. Tiled(r) /\ Linked(r) 
  BY <1>1, <1>2 DEF Shape, Tiled, Linked
<1>5. FootersPointBack(r)
  BY <1>1, <1>2 DEF Shape, FootersPointBack
<1> QED BY <1>1, <1>2, <1>3, <1>4, <1>5 DEF Shape, r

\* Appending a page as a hole of its own leaves a well formed heap with that
\* one hole more.
LEMMA AppendShape ==
  ASSUME NEW m, Shape(m)
  PROVE  LET r == AppendPage(m)
             n == End(m) IN
         /\ Shape(r)
         /\ Headers(r) = Headers(m) \cup {n}
         /\ n \notin Headers(m)
         /\ r.used = [h \in Headers(r) |-> IF h = n THEN 0 ELSE m.used[h]]
         /\ \A h \in Headers(r) :
              /\ r.hsize[h] = IF h = n THEN PageSize - HeaderSize - FooterSize
                              ELSE m.hsize[h]
              /\ NextHeader(r, h) = IF h = n THEN End(r) ELSE NextHeader(m, h)
         /\ End(r) = n + PageSize /\ r.avl = m.avl /\ r.faults = m.faults
<1> DEFINE r == AppendPage(m)
           n == End(m)
<1> USE LayoutAssumption, HeapAssumption
<1>0. HeapType(m) /\ Tiled(m) /\ FootersPointBack(m) /\ Linked(m)
  BY DEF Shape
<1>1. \A h \in Headers(m) :
        /\ h \in Nat /\ NextHeader(m, h) \in Nat /\ NextHeader(m, h) > h
        /\ FooterOf(m, h) = NextHeader(m, h) - FooterSize
        /\ FooterOf(m, h) \in Nat
  BY <1>0, NextFacts
<1>2. n \in Nat /\ n >= InitialAddr
  BY <1>0 DEF HeapType, End
<1>3. n \notin Headers(m)
  BY <1>0, <1>1, <1>2 DEF Tiled
<1>4. /\ End(r) = n + PageSize /\ r.size = m.size + PageSize
      /\ Headers(r) = Headers(m) \cup {n}
      /\ r.hsize = [h \in Headers(m) \cup {n} |->
                     IF h = n THEN PageSize - HeaderSize - FooterSize ELSE m.hsize[h]]
      /\ r.used = [h \in Headers(m) \cup {n} |-> IF h = n THEN 0 ELSE m.used[h]]
      /\ r.footer = [f \in DOMAIN m.footer \cup {n + PageSize - FooterSize} |->
                      IF f = n + PageSize - FooterSize THEN n ELSE m.footer[f]]
      /\ r.avl = m.avl /\ r.faults = m.faults
  BY <1>0, <1>2 DEF AppendPage, WithBlocks, Heap, Write, Headers, End, HeapType
<1> HIDE DEF r, n
<1>5. /\ n \in Headers(r) /\ NextHeader(r, n) = End(r)
      /\ FooterOf(r, n) = n + PageSize - FooterSize
      /\ n + PageSize - FooterSize \in Nat
      /\ n + PageSize - FooterSize > n
      /\ \A h \in Headers(r) \ {n} :
           /\ h \in Headers(m)
           /\ NextHeader(r, h) = NextHeader(m, h)
           /\ FooterOf(r, h) = FooterOf(m, h)
  BY <1>0, <1>1, <1>2, <1>3, <1>4 DEF NextHeader, FooterOf, HeapType
<1>6. HeapType(r)
  <2>1. Headers(r) \subseteq Nat /\ r.hsize \in [Headers(r) -> Nat] /\ r.used \in [Headers(r) -> {0, 1}]
    BY <1>0, <1>2, <1>4 DEF HeapType
  <2>2. DOMAIN r.footer \subseteq Nat /\ r.footer \in [DOMAIN r.footer -> Headers(r)]
    BY <1>0, <1>4, <1>5 DEF HeapType
  <2> QED BY <2>1, <2>2, <1>0, <1>4 DEF HeapType
<1>7. Tiled(r)
  <2>0. \A h \in Headers(m) : h >= InitialAddr /\ h < n /\ NextHeader(m, h) <= n
    BY <1>0, <1>1, <1>2 DEF Tiled, n
  <2>1. InitialAddr \in Headers(r)
    BY <1>0, <1>4 DEF Tiled
  <2>2. \A h \in Headers(r) : h >= InitialAddr /\ NextHeader(r, h) <= End(r)
    BY <2>0, <1>1, <1>2, <1>4, <1>5
  <2>3. \A h \in Headers(r) : NextHeader(r, h) = End(r) \/ NextHeader(r, h) \in Headers(r)
    BY <1>0, <1>4, <1>5 DEF Tiled, n
  <2>4. ASSUME NEW a \in Headers(r), NEW h \in Headers(r), a < h
        PROVE  NextHeader(r, a) <= h
    <3>1. CASE a = n
      BY <3>1, <2>0, <2>4, <1>1, <1>2, <1>4
    <3>2. CASE a # n /\ h = n
      BY <3>2, <2>0, <1>4, <1>5
    <3>3. CASE a # n /\ h # n
      BY <3>3, <2>4, <1>0, <1>4, <1>5 DEF Tiled
    <3> QED BY <3>1, <3>2, <3>3
  <2> QED BY <2>1, <2>2, <2>3, <2>4 DEF Tiled
<1>8. FootersPointBack(r)
  <2>1. ASSUME NEW h \in Headers(r)
        PROVE  FooterOf(r, h) \in DOMAIN r.footer /\ r.footer[FooterOf(r, h)] = h
    <3>1. CASE h = n
      BY <3>1, <1>4, <1>5
    <3>2. CASE h # n
      <4>1. h \in Headers(m) /\ FooterOf(r, h) = FooterOf(m, h) /\ FooterOf(m, h) \in Nat
        BY <3>2, <1>1, <1>5
      <4>2. FooterOf(m, h) < n
        BY <4>1, <1>0, <1>1, <1>2 DEF Tiled, n
      <4>3. FooterOf(m, h) # n + PageSize - FooterSize
        BY <4>1, <4>2, <1>2, <1>5
      <4>4. FooterOf(m, h) \in DOMAIN m.footer /\ m.footer[FooterOf(m, h)] = h
        BY <4>1, <1>0 DEF FootersPointBack
      <4> QED BY <4>1, <4>3, <4>4, <1>4
    <3> QED BY <3>1, <3>2
  <2>2. \A f \in DOMAIN r.footer : \E h \in Headers(r) : f = FooterOf(r, h)
    BY <1>0, <1>3, <1>4, <1>5 DEF FootersPointBack
  <2> QED BY <2>1, <2>2 DEF FootersPointBack
<1>9. Linked(r)
  <2> SUFFICES ASSUME NEW a \in (Headers(r) \ {InitialAddr}) \cup {End(r)}
               PROVE \E h \in Headers(r) : NextHeader(r, h) = a
    BY DEF Linked
  <2>1. CASE a = End(r)
    BY <2>1, <1>5
  <2>2. CASE a # End(r)
    <3>1. PICK h \in Headers(m) : NextHeader(m, h) = a
      BY <2>2, <1>0, <1>4 DEF Linked, n
    <3> QED BY <3>1, <1>3, <1>4, <1>5
  <2> QED BY <2>1, <2>2
<1> QED BY <1>3, <1>4, <1>5, <1>6, <1>7, <1>8, <1>9 DEF Shape, r, n

\* Letting the last hole take in a new page leaves a well formed heap in which
\* only that hole has changed.
LEMMA GrowShape ==
  ASSUME NEW m, Shape(m), NEW last \in Headers(m), NextHeader(m, last) = End(m)
  PROVE  LET r == GrowLast(m, last) IN
         /\ Shape(r)
         /\ Headers(r) = Headers(m)
         /\ r.used = m.used
         /\ \A h \in Headers(r) :
              /\ r.hsize[h] = IF h = last THEN m.hsize[last] + PageSize
                              ELSE m.hsize[h]
              /\ NextHeader(r, h) = IF h = last THEN End(r) ELSE NextHeader(m, h)
         /\ End(r) = End(m) + PageSize /\ r.avl = m.avl /\ r.faults = m.faults
<1> DEFINE r == GrowLast(m, last)
<1> USE LayoutAssumption, HeapAssumption
<1>0. HeapType(m) /\ Tiled(m) /\ FootersPointBack(m) /\ Linked(m)
  BY DEF Shape
<1>1. \A h \in Headers(m) :
        /\ h \in Nat /\ NextHeader(m, h) \in Nat /\ NextHeader(m, h) > h
        /\ FooterOf(m, h) = NextHeader(m, h) - FooterSize
        /\ FooterOf(m, h) \in Nat
        /\ NextHeader(m, h) = End(m) => h = last
  BY <1>0, NextFacts, NextInjective
<1>2. End(m) \in Nat /\ FooterOf(m, last) = End(m) - FooterSize
  BY <1>0, <1>1, EndFacts
<1>4. /\ End(r) = End(m) + PageSize /\ r.size = m.size + PageSize
      /\ Headers(r) = Headers(m)
      /\ r.hsize = [h \in Headers(m) |->
                     IF h = last THEN m.hsize[last] + PageSize ELSE m.hsize[h]]
      /\ r.used = m.used
      /\ r.footer = [f \in (DOMAIN m.footer \cup {End(m) + PageSize - FooterSize})
                            \ {End(m) - FooterSize} |->
                      IF f = End(m) + PageSize - FooterSize THEN last ELSE m.footer[f]]
      /\ r.avl = m.avl /\ r.faults = m.faults
  BY <1>0, <1>2 DEF GrowLast, WithBlocks, Heap, Write, Forget, Headers, End, HeapType
<1> HIDE DEF r
<1>5. /\ NextHeader(r, last) = End(r)
      /\ FooterOf(r, last) = End(m) + PageSize - FooterSize
      /\ End(m) + PageSize - FooterSize \in Nat
      /\ End(m) + PageSize - FooterSize > End(m)
      /\ \A h \in Headers(r) \ {last} :
           /\ NextHeader(r, h) = NextHeader(m, h)
           /\ FooterOf(r, h) = FooterOf(m, h)
  BY <1>0, <1>1, <1>2, <1>4 DEF NextHeader, FooterOf, HeapType
<1>6. HeapType(r)
  <2>1. Headers(r) \subseteq Nat /\ r.hsize \in [Headers(r) -> Nat] /\ r.used \in [Headers(r) -> {0, 1}]
    BY <1>0, <1>4 DEF HeapType
  <2>2. DOMAIN r.footer \subseteq Nat /\ r.footer \in [DOMAIN r.footer -> Headers(r)]
    BY <1>0, <1>4, <1>5 DEF HeapType
  <2> QED BY <2>1, <2>2, <1>0, <1>4 DEF HeapType
<1>7. Tiled(r)
  <2>0. \A h \in Headers(m) : h >= InitialAddr /\ h < End(m) /\ NextHeader(m, h) <= End(m)
    BY <1>0, <1>1, <1>2 DEF Tiled
  <2>1. InitialAddr \in Headers(r)
    BY <1>0, <1>4 DEF Tiled
  <2>2. \A h \in Headers(r) : h >= InitialAddr /\ NextHeader(r, h) <= End(r)
    BY <2>0, <1>1, <1>2, <1>4, <1>5
  <2>3. \A h \in Headers(r) : NextHeader(r, h) = End(r) \/ NextHeader(r, h) \in Headers(r)
    BY <1>0, <1>1, <1>4, <1>5 DEF Tiled
  <2>4. ASSUME NEW a \in Headers(r), NEW h \in Headers(r), a < h
        PROVE  NextHeader(r, a) <= h
    <3>1. CASE a = last
      <4>1. End(m) <= h
        BY <3>1, <2>4, <1>0, <1>4 DEF Tiled
      <4> QED BY <4>1, <2>0, <1>1, <1>2, <1>4
    <3>2. CASE a # last
      BY <3>2, <2>4, <1>0, <1>4, <1>5 DEF Tiled
    <3> QED BY <3>1, <3>2
  <2> QED BY <2>1, <2>2, <2>3, <2>4 DEF Tiled
<1>8. FootersPointBack(r)
  <2>1. ASSUME NEW h \in Headers(r)
        PROVE  FooterOf(r, h) \in DOMAIN r.footer /\ r.footer[FooterOf(r, h)] = h
    <3>1. CASE h = last
      BY <3>1, <1>2, <1>4, <1>5
    <3>2. CASE h # last
      <4>1. h \in Headers(m) /\ FooterOf(r, h) = FooterOf(m, h) /\ FooterOf(m, h) \in Nat
        BY <3>2, <1>1, <1>4, <1>5
      <4>2. FooterOf(m, h) < End(m)
        BY <4>1, <1>0, <1>1, <1>2 DEF Tiled
      <4>3. FooterOf(m, h) # End(m) - FooterSize
        BY <4>1, <3>2, <1>1, <1>2
      <4>4. FooterOf(m, h) # End(m) + PageSize - FooterSize
        BY <4>1, <4>2, <1>2, <1>5
      <4>5. FooterOf(m, h) \in DOMAIN m.footer /\ m.footer[FooterOf(m, h)] = h
        BY <4>1, <1>0 DEF FootersPointBack
      <4> QED BY <4>1, <4>3, <4>4, <4>5, <1>4
    <3> QED BY <3>1, <3>2
  <2>2. ASSUME NEW f \in DOMAIN r.footer
        PROVE  \E h \in Headers(r) : f = FooterOf(r, h)
    <3>1. CASE f = End(m) + PageSize - FooterSize
      BY <3>1, <1>4, <1>5
    <3>2. CASE f # End(m) + PageSize - FooterSize
      <4>1. PICK h \in Headers(m) : f = FooterOf(m, h) /\ h # last
        BY <3>2, <1>0, <1>2, <1>4 DEF FootersPointBack
      <4> QED BY <4>1, <1>4, <1>5
    <3> QED BY <3>1, <3>2
  <2> QED BY <2>1, <2>2 DEF FootersPointBack
<1>9. Linked(r)
  <2> SUFFICES ASSUME NEW a \in (Headers(r) \ {InitialAddr}) \cup {End(r)}
               PROVE \E h \in Headers(r) : NextHeader(r, h) = a
    BY DEF Linked
  <2>1. CASE a = End(r)
    BY <2>1, <1>4, <1>5
  <2>2. CASE a # End(r)
    <3>1. PICK h \in Headers(m) : NextHeader(m, h) = a
      BY <2>2, <1>0, <1>4 DEF Linked
    <3>2. h # last
      <4>1. a \in Headers(m) /\ NextHeader(m, a) <= End(m)
        BY <2>2, <1>0, <1>4 DEF Tiled
      <4> QED BY <3>1, <4>1, <1>1, <1>2
    <3> QED BY <3>1, <3>2, <1>4, <1>5
  <2> QED BY <2>1, <2>2
<1> QED BY <1>4, <1>5, <1>6, <1>7, <1>8, <1>9 DEF Shape, r

-----------------------------------------------------------------------------
\* A well formed heap whose holes, the taken block apart, are exactly the tree's
\* and are never neighbours.
Sound(m, taken) == Shape(m) /\ Indexed(m, taken) /\ Apart(m, taken)

\* The same headers and footers; the tree and the failures may differ.
SameBlocks(r, m) ==
  /\ r.size = m.size /\ r.hsize = m.hsize
  /\ r.used = m.used /\ r.footer = m.footer

\* What the tree is told about the block at a header: its user address and its
\* size.
LEMMA HoleAtFacts ==
  ASSUME NEW m, NEW h
  PROVE  HoleAt(m, h).addr = h + HeaderSize /\ HoleAt(m, h).size = m.hsize[h]
BY DEF HoleAt, Hole

\* Heaps that differ only in the tree and in the assertions that failed have
\* the same blocks in every respect.
LEMMA SameBlocksFacts ==
  ASSUME NEW m, NEW r, SameBlocks(r, m)
  PROVE  /\ Headers(r) = Headers(m) /\ End(r) = End(m)
         /\ \A h : /\ NextHeader(r, h) = NextHeader(m, h)
                   /\ FooterOf(r, h) = FooterOf(m, h)
                   /\ HoleAt(r, h) = HoleAt(m, h)
                   /\ Previous(r, h) = Previous(m, h)
         /\ \A taken : HolesOf(r, taken) = HolesOf(m, taken)
         /\ Tiled(r) <=> Tiled(m)
         /\ Linked(r) <=> Linked(m)
         /\ FootersPointBack(r) <=> FootersPointBack(m)
<1>1. /\ Headers(r) = Headers(m) /\ End(r) = End(m)
      /\ \A h : /\ NextHeader(r, h) = NextHeader(m, h)
                /\ FooterOf(r, h) = FooterOf(m, h)
                /\ HoleAt(r, h) = HoleAt(m, h)
                /\ Previous(r, h) = Previous(m, h)
      /\ \A taken : HolesOf(r, taken) = HolesOf(m, taken)
  BY DEF SameBlocks, Headers, End, NextHeader, FooterOf, HoleAt, Previous, HolesOf
<1>2. (Tiled(r) <=> Tiled(m)) /\ (Linked(r) <=> Linked(m))
  BY <1>1 DEF Tiled, Linked
<1>3. FootersPointBack(r) <=> FootersPointBack(m)
  BY <1>1 DEF FootersPointBack, SameBlocks
<1> QED BY <1>1, <1>2, <1>3

\* Soundness depends on the blocks and on the tree only.
LEMMA SameBlocksSound ==
  ASSUME NEW m, NEW r, NEW A, Sound(m, A), SameBlocks(r, m), r.avl = m.avl
  PROVE  Sound(r, A)
<1>1. HeapType(r)
  BY SameBlocksFacts DEF Sound, Shape, HeapType, SameBlocks
<1>2. Shape(r)
  BY <1>1, SameBlocksFacts DEF Sound, Shape
<1>3. Indexed(r, A) /\ Apart(r, A)
  BY SameBlocksFacts DEF Sound, Indexed, Apart
<1> QED BY <1>2, <1>3 DEF Sound

\* The same holes, of the same sizes and ending where they ended.
LEMMA SameHolesSound ==
  ASSUME NEW m, NEW r, NEW A, NEW B, Sound(m, A), Shape(r), r.avl = m.avl,
         HolesOf(r, B) = HolesOf(m, A),
         \A h \in HolesOf(m, A) : /\ r.hsize[h] = m.hsize[h]
                                  /\ NextHeader(r, h) = NextHeader(m, h)
  PROVE  Sound(r, B)
<1>1. Indexed(r, B)
  BY DEF Sound, Indexed, HoleAt
<1>2. Apart(r, B)
  BY DEF Sound, Apart
<1> QED BY <1>1, <1>2 DEF Sound

\* kalloc_avl_remove of a hole that is there: the block is now one that a call
\* has in its hands, and no assertion fails.
LEMMA RemoveSound ==
  ASSUME NEW m, NEW A, Sound(m, A), NEW h \in HolesOf(m, A)
  PROVE  LET r == AvlRemove(m, h) IN
         Sound(r, A \cup {h}) /\ SameBlocks(r, m) /\ r.faults = m.faults
<1> DEFINE r == AvlRemove(m, h)
<1>0. h \in Headers(m) /\ h \in Nat /\ \A x \in HolesOf(m, A) : x \in Nat
  BY DEF HolesOf, Sound, Shape, HeapType
<1>1. HoleAt(m, h) \in m.avl
  BY DEF Sound, Indexed
<1>2. SameBlocks(r, m) /\ r.avl = m.avl \ {HoleAt(m, h)} /\ r.faults = m.faults
  BY <1>1 DEF AvlRemove, WithTree, Heap, Failing, SameBlocks
<1> HIDE DEF r
<1>3. Shape(r)
  <2>1. HeapType(r)
    BY <1>2, SameBlocksFacts DEF Sound, Shape, HeapType, SameBlocks
  <2> QED BY <2>1, <1>2, SameBlocksFacts DEF Sound, Shape
<1>4. HolesOf(r, A \cup {h}) = HolesOf(m, A) \ {h}
  BY <1>2, SameBlocksFacts DEF HolesOf, SameBlocks
<1>5. \A x \in HolesOf(m, A) : HoleAt(m, x) = HoleAt(m, h) => x = h
  <2> SUFFICES ASSUME NEW x \in HolesOf(m, A), HoleAt(m, x) = HoleAt(m, h)
               PROVE  x = h
    OBVIOUS
  <2>1. x + HeaderSize = h + HeaderSize
    BY HoleAtFacts
  <2> QED BY <2>1, <1>0, LayoutAssumption
<1>6. Indexed(r, A \cup {h})
  <2>1. r.avl = {HoleAt(m, x) : x \in HolesOf(m, A) \ {h}}
    BY <1>2, <1>5 DEF Sound, Indexed
  <2> QED BY <2>1, <1>2, <1>4, SameBlocksFacts DEF Indexed
<1>7. Apart(r, A \cup {h})
  BY <1>2, <1>4, SameBlocksFacts DEF Sound, Apart
<1> QED BY <1>2, <1>3, <1>6, <1>7 DEF Sound, r

\* kalloc_avl_insert of the block a call has in its hands, when no hole is next
\* to it: the heap is sound again, and no assertion fails.
LEMMA InsertSound ==
  ASSUME NEW m, NEW h \in Headers(m), Sound(m, {h}), m.used[h] = 0,
         \A g \in HolesOf(m, {h}) : NextHeader(m, g) # h /\ NextHeader(m, h) # g
  PROVE  LET r == AvlInsert(m, h) IN
         Sound(r, {}) /\ SameBlocks(r, m) /\ r.faults = m.faults
<1> DEFINE r == AvlInsert(m, h)
<1>0. /\ h \in Nat /\ \A x \in HolesOf(m, {h}) : x \in Nat /\ x # h
      /\ m.hsize[h] \in Nat
  BY DEF HolesOf, Sound, Shape, HeapType
<1>1. HoleAt(m, h) \notin m.avl
  <2>1. \A x \in HolesOf(m, {h}) : HoleAt(m, x) # HoleAt(m, h)
    <3> SUFFICES ASSUME NEW x \in HolesOf(m, {h}), HoleAt(m, x) = HoleAt(m, h)
                 PROVE  FALSE
      OBVIOUS
    <3>1. x + HeaderSize = h + HeaderSize
      BY HoleAtFacts
    <3>2. x = h
      BY <3>1, <1>0, LayoutAssumption
    <3> QED BY <3>2, <1>0
  <2> QED BY <2>1 DEF Sound, Indexed
<1>2. SameBlocks(r, m) /\ r.avl = m.avl \cup {HoleAt(m, h)} /\ r.faults = m.faults
  BY <1>1 DEF AvlInsert, WithTree, Heap, Failing, SameBlocks
<1> HIDE DEF r
<1>3. Shape(r)
  <2>1. HoleAt(m, h) \in [size : Nat, addr : Nat]
    BY <1>0, LayoutAssumption DEF HoleAt, Hole
  <2>2. HeapType(r)
    BY <2>1, <1>2, SameBlocksFacts DEF Sound, Shape, HeapType, SameBlocks
  <2> QED BY <2>2, <1>2, SameBlocksFacts DEF Sound, Shape
<1>4. HolesOf(r, {}) = HolesOf(m, {h}) \cup {h}
  BY <1>2, SameBlocksFacts DEF HolesOf, SameBlocks
<1>5. Indexed(r, {})
  <2>1. r.avl = {HoleAt(m, x) : x \in HolesOf(m, {h}) \cup {h}}
    BY <1>2 DEF Sound, Indexed
  <2> QED BY <2>1, <1>2, <1>4, SameBlocksFacts DEF Indexed
<1>6. Apart(r, {})
  <2>1. NextHeader(m, h) # h
    BY NextFacts, LayoutAssumption DEF Sound, Shape
  <2> QED BY <2>1, <1>2, <1>4, SameBlocksFacts DEF Sound, Apart
<1> QED BY <1>2, <1>3, <1>5, <1>6 DEF Sound, r

-----------------------------------------------------------------------------
\* The used blocks of m, but for some, are blocks of r, no smaller than before.
Keeps(m, r, except) ==
  \A h \in Headers(m) \ except : m.used[h] = 1 =>
     h \in Headers(r) /\ r.used[h] = 1 /\ r.hsize[h] >= m.hsize[h]

\* Where the freed block h starts once it is joined to a hole before it.
Start(m, h) == IF FollowsHole(m, h) THEN Previous(m, h) ELSE h

\* The first join of kalloc_heap_free: the block in hand has no hole before it,
\* and nobody else's block has changed.
LEMMA JoinPreviousSound ==
  ASSUME NEW m, NEW h \in Headers(m), Sound(m, {}), m.used[h] = 1
  PROVE  LET r == JoinPrevious(m, h)
             s == Start(m, h) IN
         /\ s \in Headers(r) /\ Sound(r, {s})
         /\ \A g \in HolesOf(r, {s}) : NextHeader(r, g) # s
         /\ Keeps(m, r, {h})
         /\ r.faults = m.faults
<1> DEFINE r == JoinPrevious(m, h)
<1>0. Shape(m) /\ HeapType(m) /\ Tiled(m) /\ Apart(m, {})
  BY DEF Sound, Shape
<1>1. CASE FollowsHole(m, h)
  <2> DEFINE g == Previous(m, h)
             c == AvlRemove(m, g)
  <2>1. h # InitialAddr /\ m.used[g] = 0
    BY <1>1 DEF FollowsHole
  <2>2. g \in Headers(m) /\ NextHeader(m, g) = h /\ g # h
    BY <2>1, <1>0, PreviousFacts, NextFacts
  <2>3. g \in HolesOf(m, {})
    BY <2>1, <2>2 DEF HolesOf
  <2> HIDE DEF g
  <2>4. Sound(c, {g}) /\ SameBlocks(c, m) /\ c.faults = m.faults
    <3>1. Sound(c, {} \cup {g}) /\ SameBlocks(c, m) /\ c.faults = m.faults
      BY <2>3, RemoveSound
    <3>2. {} \cup {g} = {g}
      OBVIOUS
    <3> QED BY <3>1, <3>2
  <2> HIDE DEF c
  <2>5. /\ Headers(c) = Headers(m) /\ NextHeader(c, g) = h
        /\ \A x : NextHeader(c, x) = NextHeader(m, x)
        /\ c.used = m.used /\ c.hsize = m.hsize
    BY <2>2, <2>4, SameBlocksFacts DEF SameBlocks
  <2>6. r = Merge(c, g, h)
    BY <1>1 DEF JoinPrevious, c, g
  <2> HIDE DEF r
  <2>7. /\ Shape(r) /\ Headers(r) = Headers(m) \ {h}
        /\ r.used = [x \in Headers(r) |-> m.used[x]]
        /\ \A x \in Headers(r) :
             x # g => r.hsize[x] = m.hsize[x] /\ NextHeader(r, x) = NextHeader(m, x)
        /\ r.avl = c.avl /\ r.faults = m.faults
    BY <2>2, <2>4, <2>5, <2>6, MergeShape DEF Sound
  <2>8. HolesOf(r, {g}) = HolesOf(c, {g})
    BY <2>2, <2>5, <2>7 DEF HolesOf
  <2>9. \A x \in HolesOf(c, {g}) : x \in Headers(r) /\ x # g
    BY <2>7, <2>8 DEF HolesOf
  <2>10. Sound(r, {g})
    BY <2>4, <2>5, <2>7, <2>8, <2>9, SameHolesSound
  <2>11. \A x \in HolesOf(r, {g}) : NextHeader(r, x) # g
    <3>1. \A x \in HolesOf(r, {g}) : x \in HolesOf(m, {}) /\ x \in Headers(r) /\ x # g
      BY <2>5, <2>7, <2>8 DEF HolesOf
    <3> QED BY <3>1, <2>3, <2>7, <1>0 DEF Apart
  <2>12. Keeps(m, r, {h})
    <3>1. \A x \in Headers(m) : m.hsize[x] \in Nat
      BY <1>0 DEF HeapType
    <3> QED BY <3>1, <2>1, <2>7 DEF Keeps
  <2>13. Start(m, h) = g /\ g \in Headers(r)
    BY <1>1, <2>2, <2>7 DEF Start, g
  <2> QED BY <2>7, <2>10, <2>11, <2>12, <2>13 DEF r
<1>2. CASE ~FollowsHole(m, h)
  <2>1. r = m /\ Start(m, h) = h
    BY <1>2 DEF JoinPrevious, Start
  <2> HIDE DEF r
  <2>2. HolesOf(m, {h}) = HolesOf(m, {})
    BY DEF HolesOf
  <2>3. Sound(m, {h})
    BY <2>2 DEF Sound, Indexed, Apart
  <2>4. ASSUME NEW g \in HolesOf(m, {h}), NextHeader(m, g) = h
        PROVE  FALSE
    <3>1. g \in Headers(m) /\ m.used[g] = 0 /\ g < h /\ g >= InitialAddr
      BY <2>4, <1>0, NextFacts, LayoutAssumption DEF HolesOf, Tiled
    <3>2. h # InitialAddr
      BY <3>1, <1>0, NextFacts, HeapAssumption
    <3>3. Previous(m, h) = g
      BY <3>1, <3>2, <2>4, <1>0, PreviousFacts, NextInjective
    <3> QED BY <3>1, <3>2, <3>3, <1>2 DEF FollowsHole
  <2>5. Keeps(m, m, {h})
    BY <1>0 DEF Keeps, HeapType
  <2> QED BY <2>1, <2>3, <2>4, <2>5 DEF r
<1> QED BY <1>1, <1>2

\* The second join of kalloc_heap_free: the block in hand has no hole on either
\* side, and nobody else's block has changed.
LEMMA JoinNextSound ==
  ASSUME NEW m, NEW s \in Headers(m), Sound(m, {s}),
         \A g \in HolesOf(m, {s}) : NextHeader(m, g) # s
  PROVE  LET r == JoinNext(m, s) IN
         /\ s \in Headers(r) /\ Sound(r, {s})
         /\ \A g \in HolesOf(r, {s}) : NextHeader(r, g) # s /\ NextHeader(r, s) # g
         /\ Keeps(m, r, {s})
         /\ r.faults = m.faults
<1> DEFINE r == JoinNext(m, s)
           n == NextHeader(m, s)
<1>0. Shape(m) /\ HeapType(m) /\ Tiled(m) /\ Apart(m, {s})
  BY DEF Sound, Shape
<1>1. CASE PrecedesHole(m, s)
  <2> DEFINE c == AvlRemove(m, n)
  <2>1. n \in Headers(m) /\ m.used[n] = 0 /\ n # s
    BY <1>0, <1>1, NextFacts, LayoutAssumption DEF PrecedesHole, Tiled
  <2>2. n \in HolesOf(m, {s})
    BY <2>1 DEF HolesOf
  <2>3. r = Merge(c, s, n)
    BY <1>1 DEF JoinNext
  <2>4. NextHeader(m, s) = n
    OBVIOUS
  <2> HIDE DEF n
  <2>5. Sound(c, {s} \cup {n}) /\ SameBlocks(c, m) /\ c.faults = m.faults
    BY <2>2, RemoveSound
  <2> HIDE DEF c, r
  <2>6. /\ Headers(c) = Headers(m) /\ NextHeader(c, s) = n
        /\ \A x : NextHeader(c, x) = NextHeader(m, x)
        /\ c.used = m.used /\ c.hsize = m.hsize
    BY <2>4, <2>5, SameBlocksFacts DEF SameBlocks
  <2>7. /\ Shape(r) /\ Headers(r) = Headers(m) \ {n}
        /\ r.used = [x \in Headers(r) |-> m.used[x]]
        /\ NextHeader(r, s) = NextHeader(m, n)
        /\ \A x \in Headers(r) :
             x # s => r.hsize[x] = m.hsize[x] /\ NextHeader(r, x) = NextHeader(m, x)
        /\ r.avl = c.avl /\ r.faults = m.faults
    BY <2>1, <2>3, <2>5, <2>6, MergeShape DEF Sound
  <2>8. HolesOf(r, {s}) = HolesOf(c, {s} \cup {n})
    BY <2>1, <2>6, <2>7 DEF HolesOf
  <2>9. \A x \in HolesOf(r, {s}) : x \in Headers(r) /\ x # s /\ x \in HolesOf(m, {s})
    BY <2>7 DEF HolesOf
  <2>10. Sound(r, {s})
    BY <2>5, <2>6, <2>7, <2>8, <2>9, SameHolesSound
  <2>11. \A x \in HolesOf(r, {s}) : NextHeader(r, x) # s /\ NextHeader(r, s) # x
    BY <2>2, <2>7, <2>9, <1>0 DEF Apart
  <2>12. Keeps(m, r, {s})
    <3>1. \A x \in Headers(m) : m.hsize[x] \in Nat
      BY <1>0 DEF HeapType
    <3> QED BY <3>1, <2>1, <2>7 DEF Keeps
  <2> QED BY <2>1, <2>7, <2>10, <2>11, <2>12 DEF r
<1>2. CASE ~PrecedesHole(m, s)
  <2>1. r = m
    BY <1>2 DEF JoinNext
  <2> HIDE DEF r
  <2>2. End(m) \notin Headers(m)
    BY <1>0, NextFacts, EndFacts, LayoutAssumption DEF Tiled
  <2>3. \A g \in HolesOf(m, {s}) : n # g
    BY <2>2, <1>2 DEF PrecedesHole, HolesOf
  <2>4. Keeps(m, m, {s})
    BY <1>0 DEF Keeps, HeapType
  <2> QED BY <2>1, <2>3, <2>4 DEF r
<1> QED BY <1>1, <1>2

\* kalloc_heap_free of a block in use keeps the heap sound, touches no other
\* block in use and fails no assertion.
LEMMA FreeSound ==
  ASSUME NEW m, NEW p, p - HeaderSize \in Headers(m), Sound(m, {}),
         m.used[p - HeaderSize] = 1
  PROVE  LET r == FreeBlock(m, p) IN
         /\ Sound(r, {})
         /\ Keeps(m, r, {p - HeaderSize})
         /\ r.faults = m.faults
<1> DEFINE h == p - HeaderSize
           c == Assert(m, m.used[h] = 1, "block is not used")
           s == Start(m, h)
           low == JoinPrevious(c, h)
           high == JoinNext(low, s)
           k == MarkUsed(high, s, 0)
           r == FreeBlock(m, p)
<1>1. SameBlocks(c, m) /\ c.avl = m.avl /\ c.faults = m.faults
  BY DEF Assert, WithTree, Heap, Failing, SameBlocks
<1>2. r = AvlInsert(k, s)
  BY DEF FreeBlock, Start
<1> HIDE DEF c
<1>3. /\ Sound(c, {}) /\ h \in Headers(c) /\ c.used[h] = 1 /\ s = Start(c, h)
      /\ Headers(c) = Headers(m) /\ c.used = m.used /\ c.hsize = m.hsize
  <2>1. Headers(c) = Headers(m) /\ c.used = m.used /\ c.hsize = m.hsize
    BY <1>1, SameBlocksFacts DEF SameBlocks
  <2>2. Sound(c, {})
    BY <1>1, SameBlocksSound
  <2>3. s = Start(c, h)
    <3>1. \A x : Previous(c, x) = Previous(m, x)
      BY <1>1, SameBlocksFacts
    <3>2. FollowsHole(c, h) <=> FollowsHole(m, h)
      BY <3>1, <2>1 DEF FollowsHole
    <3> QED BY <3>1, <3>2 DEF Start
  <2> QED BY <2>1, <2>2, <2>3
<1> HIDE DEF s, r, h
<1>4. /\ s \in Headers(low) /\ Sound(low, {s})
      /\ \A g \in HolesOf(low, {s}) : NextHeader(low, g) # s
      /\ Keeps(c, low, {h})
      /\ low.faults = c.faults
  BY <1>3, JoinPreviousSound
<1> HIDE DEF low
<1>5. /\ s \in Headers(high) /\ Sound(high, {s})
      /\ \A g \in HolesOf(high, {s}) : NextHeader(high, g) # s /\ NextHeader(high, s) # g
      /\ Keeps(low, high, {s})
      /\ high.faults = low.faults
  BY <1>4, JoinNextSound
<1> HIDE DEF high
<1>6. /\ Shape(k) /\ Headers(k) = Headers(high)
      /\ k.used = [x \in Headers(k) |-> IF x = s THEN 0 ELSE high.used[x]]
      /\ k.hsize = high.hsize
      /\ \A x \in Headers(k) : NextHeader(k, x) = NextHeader(high, x)
      /\ k.avl = high.avl /\ k.faults = high.faults
  BY <1>5, MarkShape DEF Sound
<1> HIDE DEF k
<1>7. HolesOf(k, {s}) = HolesOf(high, {s})
  BY <1>6 DEF HolesOf
<1>8. \A x \in HolesOf(k, {s}) : x \in Headers(k)
  BY DEF HolesOf
<1>9. Sound(k, {s})
  BY <1>5, <1>6, <1>7, <1>8, SameHolesSound
<1>10. Sound(r, {}) /\ SameBlocks(r, k) /\ r.faults = k.faults
  BY <1>2, <1>5, <1>6, <1>7, <1>8, <1>9, InsertSound
<1>11. Keeps(m, r, {h})
  <2> SUFFICES ASSUME NEW x \in Headers(m) \ {h}, m.used[x] = 1
               PROVE  x \in Headers(r) /\ r.used[x] = 1 /\ r.hsize[x] >= m.hsize[x]
    BY DEF Keeps
  <2>1. x # s
    <3>1. CASE FollowsHole(m, h)
      BY <3>1 DEF FollowsHole, s, Start
    <3>2. CASE ~FollowsHole(m, h)
      BY <3>2 DEF s, Start
    <3> QED BY <3>1, <3>2
  <2>2. x \in Headers(low) /\ low.used[x] = 1 /\ low.hsize[x] >= m.hsize[x]
    BY <1>3, <1>4 DEF Keeps
  <2>3. x \in Headers(high) /\ high.used[x] = 1 /\ high.hsize[x] >= low.hsize[x]
    BY <2>1, <2>2, <1>5 DEF Keeps
  <2>4. x \in Headers(r) /\ r.used[x] = 1 /\ r.hsize[x] = high.hsize[x]
    BY <2>1, <2>3, <1>6, <1>10, SameBlocksFacts DEF SameBlocks
  <2>5. m.hsize[x] \in Nat /\ low.hsize[x] \in Nat /\ high.hsize[x] \in Nat
    BY <2>2, <2>3, <1>4, <1>5 DEF Sound, Shape, HeapType
  <2> QED BY <2>2, <2>3, <2>4, <2>5
<1> QED BY <1>1, <1>4, <1>5, <1>6, <1>10, <1>11 DEF r, h

\* The two halves of PlaceAt: the hole t taken from the tree and aligned, and
\* the block cut from what is then a hole at b.
Fit(m, t, gap) ==
  LET c == AvlRemove(Assert(m, m.used[t] = 0, "hole is used"), t)
  IN  IF gap = 0 THEN c ELSE GiveGapToPrevious(c, t, gap)

Carve(a, b, size) ==
  IF LeavesHole(a, b, size)
  THEN AvlInsert(Split(a, b, size), b + HeaderSize + size + FooterSize)
  ELSE MarkUsed(a, b, 1)

\* kalloc_heap_alloc up to the split: the hole is out of the tree, its gap is
\* with the previous block, which is in use because holes are never neighbours.
LEMMA FitSound ==
  ASSUME NEW m, NEW t \in HolesOf(m, {}), Sound(m, {}), NEW gap \in Nat,
         gap # 0 => t # InitialAddr, gap <= m.hsize[t]
  PROVE  LET a == Fit(m, t, gap)
             b == t + gap IN
         /\ b \in Headers(a) /\ Sound(a, {b})
         /\ NextHeader(a, b) \notin HolesOf(a, {b})
         /\ a.hsize[b] = m.hsize[t] - gap
         /\ Keeps(m, a, {})
         /\ b \in Headers(m) => m.used[b] = 0
         /\ a.faults = m.faults
<1> DEFINE k == Assert(m, m.used[t] = 0, "hole is used")
           c == AvlRemove(k, t)
           a == Fit(m, t, gap)
           b == t + gap
<1>0. /\ Shape(m) /\ HeapType(m) /\ Tiled(m) /\ Apart(m, {})
      /\ t \in Headers(m) /\ m.used[t] = 0 /\ t \in Nat
      /\ \A x \in Headers(m) : m.hsize[x] \in Nat /\ m.used[x] \in {0, 1}
  BY DEF Sound, Shape, HolesOf, HeapType
<1>a. a = IF gap = 0 THEN c ELSE GiveGapToPrevious(c, t, gap)
  BY DEF Fit
<1> HIDE DEF a
<1>1. SameBlocks(k, m) /\ k.avl = m.avl /\ k.faults = m.faults
  BY <1>0 DEF Assert, WithTree, Heap, Failing, SameBlocks
<1> HIDE DEF k
<1>2. Sound(k, {}) /\ t \in HolesOf(k, {})
  BY <1>1, SameBlocksSound, SameBlocksFacts
<1>3. Sound(c, {t}) /\ SameBlocks(c, k) /\ c.faults = k.faults
  <2>1. Sound(c, {} \cup {t}) /\ SameBlocks(c, k) /\ c.faults = k.faults
    BY <1>2, RemoveSound
  <2>2. {} \cup {t} = {t}
    OBVIOUS
  <2> QED BY <2>1, <2>2
<1> HIDE DEF c
<1>4. SameBlocks(c, m) /\ c.faults = m.faults
  BY <1>1, <1>3 DEF SameBlocks
<1>5. /\ Headers(c) = Headers(m) /\ c.used = m.used /\ c.hsize = m.hsize
      /\ \A x : NextHeader(c, x) = NextHeader(m, x)
      /\ \A A : HolesOf(c, A) = HolesOf(m, A)
  BY <1>4, SameBlocksFacts DEF SameBlocks
<1>6. NextHeader(m, t) \notin HolesOf(m, {})
  BY <1>0 DEF Apart
<1>7. CASE gap = 0
  <2>1. a = c /\ b = t
    BY <1>7, <1>0, <1>a
  <2> HIDE DEF b
  <2>2. NextHeader(c, t) \notin HolesOf(c, {t})
    BY <1>5, <1>6 DEF HolesOf
  <2>3. Keeps(m, c, {})
    BY <1>0, <1>5 DEF Keeps
  <2>4. c.hsize[t] = m.hsize[t] - gap
    BY <1>0, <1>5, <1>7
  <2> QED BY <2>1, <2>2, <2>3, <2>4, <1>0, <1>3, <1>4, <1>5 DEF a, b
<1>8. CASE gap # 0
  <2> DEFINE p == Previous(c, t)
  <2>1. a = GiveGapToPrevious(c, t, gap)
    BY <1>8, <1>a
  <2>2. t \in Headers(c) \ {InitialAddr} /\ Shape(c) /\ gap \in Nat \ {0} /\ gap <= c.hsize[t]
    BY <1>0, <1>3, <1>5, <1>8 DEF Sound
  <2>3. p \in Headers(m) /\ NextHeader(m, p) = t /\ p # t
    BY <2>2, <1>5, <1>0, PreviousFacts, NextFacts, LayoutAssumption
  <2>4. m.used[p] = 1
    BY <2>3, <1>0 DEF Apart, HolesOf
  <2> HIDE DEF b
  <2>5. /\ Shape(a)
        /\ Headers(a) = (Headers(m) \ {t}) \cup {b}
        /\ b \notin Headers(m)
        /\ a.used = [h \in Headers(a) |-> IF h = b THEN 0 ELSE m.used[h]]
        /\ \A h \in Headers(a) :
             /\ a.hsize[h] = IF h = p THEN m.hsize[p] + gap
                             ELSE IF h = b THEN m.hsize[t] - gap ELSE m.hsize[h]
             /\ NextHeader(a, h) = IF h = p THEN b
                             ELSE IF h = b THEN NextHeader(m, t) ELSE NextHeader(m, h)
        /\ a.avl = c.avl /\ a.faults = m.faults
    BY <2>1, <2>2, <1>4, <1>5, GapShape DEF b
  <2> HIDE DEF p
  <2>6. /\ b # p /\ b \in Headers(a)
        /\ a.hsize[b] = m.hsize[t] - gap /\ NextHeader(a, b) = NextHeader(m, t)
    BY <2>3, <2>5
  <2>7. HolesOf(a, {b}) = HolesOf(c, {t})
    BY <2>5, <1>5 DEF HolesOf
  <2>8. \A x \in HolesOf(c, {t}) : x \in Headers(a) /\ x # p /\ x # b
    BY <2>4, <2>5, <1>5 DEF HolesOf
  <2>9. Sound(a, {b})
    <3>1. \A x \in HolesOf(c, {t}) : /\ a.hsize[x] = c.hsize[x]
                                    /\ NextHeader(a, x) = NextHeader(c, x)
      BY <2>5, <2>8, <1>5
    <3> QED BY <3>1, <2>5, <2>7, <1>3, SameHolesSound
  <2>10. NextHeader(a, b) \notin HolesOf(a, {b})
    BY <2>6, <2>7, <1>5, <1>6 DEF HolesOf
  <2>11. Keeps(m, a, {})
    <3> SUFFICES ASSUME NEW x \in Headers(m), m.used[x] = 1
                 PROVE  x \in Headers(a) /\ a.used[x] = 1 /\ a.hsize[x] >= m.hsize[x]
      BY DEF Keeps
    <3>1. x # t /\ x # b /\ x \in Headers(a) /\ a.used[x] = 1
      BY <2>5, <1>0
    <3> QED BY <3>1, <2>5, <1>0
  <2> QED BY <2>5, <2>6, <2>9, <2>10, <2>11 DEF a, b
<1> QED BY <1>7, <1>8

\* The rest of kalloc_heap_alloc: the block keeps the bytes asked for, and what
\* is left becomes a hole whose next block is in use.
LEMMA CarveSound ==
  ASSUME NEW a, NEW b \in Headers(a), Sound(a, {b}), NEW size \in Nat,
         NextHeader(a, b) \notin HolesOf(a, {b}), a.hsize[b] >= size
  PROVE  LET r == Carve(a, b, size) IN
         /\ Sound(r, {})
         /\ b \in Headers(r) /\ r.used[b] = 1 /\ r.hsize[b] >= size
         /\ Keeps(a, r, {b})
         /\ r.faults = a.faults
<1> DEFINE r == Carve(a, b, size)
<1>0. /\ Shape(a) /\ HeapType(a) /\ Tiled(a)
      /\ \A x \in Headers(a) : a.hsize[x] \in Nat
  BY DEF Sound, Shape, HeapType
<1>1. CASE LeavesHole(a, b, size)
  <2> DEFINE c == Split(a, b, size)
             n == b + HeaderSize + size + FooterSize
  <2>1. r = AvlInsert(c, n)
    BY <1>1 DEF Carve
  <2>2. /\ Shape(c) /\ Headers(c) = Headers(a) \cup {n} /\ n \notin Headers(a)
        /\ c.used = [h \in Headers(c) |->
                       IF h = n THEN 0 ELSE IF h = b THEN 1 ELSE a.used[h]]
        /\ \A h \in Headers(c) :
             /\ h = b => c.hsize[h] = size /\ NextHeader(c, h) = n
             /\ h = n => NextHeader(c, h) = NextHeader(a, b)
             /\ h \notin {b, n} => /\ c.hsize[h] = a.hsize[h]
                                   /\ NextHeader(c, h) = NextHeader(a, h)
        /\ c.avl = a.avl /\ c.faults = a.faults
    BY <1>0, <1>1, SplitShape
  <2> HIDE DEF r, c, n
  <2>3. HolesOf(c, {n}) = HolesOf(a, {b})
    BY <2>2 DEF HolesOf
  <2>4. \A x \in HolesOf(a, {b}) : x \in Headers(c) /\ x # b /\ x # n
    BY <2>2 DEF HolesOf
  <2>5. Sound(c, {n})
    BY <2>2, <2>3, <2>4, SameHolesSound
  <2>6. n \in Headers(c) /\ c.used[n] = 0 /\ NextHeader(c, n) = NextHeader(a, b)
    BY <2>2
  <2>7. \A g \in HolesOf(c, {n}) : NextHeader(c, g) # n /\ NextHeader(c, n) # g
    <3>1. \A g \in Headers(c) : NextHeader(c, g) = n => g = b
      BY <2>2, NextInjective DEF Shape
    <3> QED BY <3>1, <2>2, <2>3, <2>4, <2>6
  <2>8. Sound(r, {}) /\ SameBlocks(r, c) /\ r.faults = c.faults
    BY <2>1, <2>5, <2>6, <2>7, InsertSound
  <2>9. Headers(r) = Headers(c) /\ r.used = c.used /\ r.hsize = c.hsize
    BY <2>8, SameBlocksFacts DEF SameBlocks
  <2>10. b \in Headers(r) /\ r.used[b] = 1 /\ r.hsize[b] >= size
    BY <2>2, <2>9
  <2>11. Keeps(a, r, {b})
    BY <2>2, <2>9, <1>0 DEF Keeps
  <2> QED BY <2>2, <2>8, <2>10, <2>11 DEF r
<1>2. CASE ~LeavesHole(a, b, size)
  <2>1. r = MarkUsed(a, b, 1)
    BY <1>2 DEF Carve
  <2> HIDE DEF r
  <2>2. /\ Shape(r) /\ Headers(r) = Headers(a)
        /\ r.used = [h \in Headers(r) |-> IF h = b THEN 1 ELSE a.used[h]]
        /\ r.hsize = a.hsize
        /\ \A h \in Headers(r) : NextHeader(r, h) = NextHeader(a, h)
        /\ r.avl = a.avl /\ r.faults = a.faults
    BY <2>1, <1>0, MarkShape
  <2>3. HolesOf(r, {}) = HolesOf(a, {b})
    BY <2>2 DEF HolesOf
  <2>4. \A x \in HolesOf(a, {b}) : x \in Headers(r)
    BY <2>2 DEF HolesOf
  <2>5. Sound(r, {})
    BY <2>2, <2>3, <2>4, SameHolesSound
  <2>6. Keeps(a, r, {b})
    BY <2>2, <1>0 DEF Keeps
  <2> QED BY <2>2, <2>5, <2>6 DEF r
<1> QED BY <1>1, <1>2

\* kalloc_heap_alloc in a hole the tree has named: the heap stays sound, the
\* caller gets enough bytes in a block that was nobody's, and no assertion fails.
LEMMA PlaceSound ==
  ASSUME NEW m, Sound(m, {}), m.faults = {}, NEW hole \in m.avl,
         NEW size \in Nat, NEW alignment \in Nat,
         HasAlignmentSpace(hole, size, alignment),
         alignment # 0 => m.used[InitialAddr] = 1
  PROVE  LET r == PlaceAt(m, hole, size, alignment)
             b == AlignUp(hole.addr, alignment) - HeaderSize IN
         /\ Sound(r, {}) /\ r.faults = {}
         /\ b \in Headers(r) /\ r.used[b] = 1 /\ r.hsize[b] >= size
         /\ Keeps(m, r, {})
         /\ b \in Headers(m) => m.used[b] = 0
<1> DEFINE r == PlaceAt(m, hole, size, alignment)
<1>1. PICK t \in HolesOf(m, {}) : hole = HoleAt(m, t)
  BY DEF Sound, Indexed
<1>2. /\ t \in Headers(m) /\ t \in Nat /\ m.used[t] = 0 /\ m.hsize[t] \in Nat
      /\ hole.addr \in Nat /\ hole.size = m.hsize[t] /\ hole.addr = t + HeaderSize
      /\ hole.addr - HeaderSize = t
  BY <1>1, HoleAtFacts, LayoutAssumption DEF HolesOf, Sound, Shape, HeapType
<1> DEFINE gap == AlignUp(hole.addr, alignment) - hole.addr
           a == Fit(m, t, gap)
           b == t + gap
<1>3. /\ gap \in Nat /\ m.hsize[t] >= size + gap
      /\ alignment = 0 => gap = 0
      /\ AlignUp(hole.addr, alignment) - HeaderSize = b
  <2>1. /\ AlignUp(hole.addr, alignment) \in Nat
        /\ AlignUp(hole.addr, alignment) >= hole.addr
        /\ alignment = 0 => AlignUp(hole.addr, alignment) = hole.addr
    BY <1>2, AlignUpFacts
  <2>2. hole.size >= size + (AlignUp(hole.addr, alignment) - hole.addr)
    BY DEF HasAlignmentSpace
  <2> QED BY <2>1, <2>2, <1>2, LayoutAssumption
<1>4. gap # 0 => t # InitialAddr
  BY <1>2, <1>3
<1>5. r = IF a.faults # {} THEN a
          ELSE Carve(a, b, size)
  BY <1>2, <1>4 DEF PlaceAt, Fit, Carve
<1> HIDE DEF gap
<1>6. /\ b \in Headers(a) /\ Sound(a, {b})
      /\ NextHeader(a, b) \notin HolesOf(a, {b})
      /\ a.hsize[b] = m.hsize[t] - gap
      /\ Keeps(m, a, {})
      /\ b \in Headers(m) => m.used[b] = 0
      /\ a.faults = m.faults
  <2>1. gap <= m.hsize[t]
    BY <1>2, <1>3
  <2> QED BY <2>1, <1>3, <1>4, FitSound
<1> HIDE DEF a, b, r
<1>7. a.hsize[b] >= size
  BY <1>2, <1>3, <1>6
<1>8. /\ Sound(r, {})
      /\ b \in Headers(r) /\ r.used[b] = 1 /\ r.hsize[b] >= size
      /\ Keeps(a, r, {b})
      /\ r.faults = {}
  BY <1>5, <1>6, <1>7, CarveSound
<1>9. Keeps(m, r, {})
  <2> SUFFICES ASSUME NEW x \in Headers(m), m.used[x] = 1
               PROVE  x \in Headers(r) /\ r.used[x] = 1 /\ r.hsize[x] >= m.hsize[x]
    BY DEF Keeps
  <2>1. x \in Headers(a) /\ a.used[x] = 1 /\ a.hsize[x] >= m.hsize[x] /\ x # b
    BY <1>6 DEF Keeps
  <2>2. x \in Headers(r) /\ r.used[x] = 1 /\ r.hsize[x] >= a.hsize[x]
    BY <2>1, <1>8 DEF Keeps
  <2>3. m.hsize[x] \in Nat /\ a.hsize[x] \in Nat /\ r.hsize[x] \in Nat
    BY <2>1, <2>2, <1>6, <1>8 DEF Sound, Shape, HeapType
  <2> QED BY <2>1, <2>2, <2>3
<1> QED BY <1>3, <1>6, <1>8, <1>9 DEF r

\* One more page keeps the heap sound, touches no block in use, and is at once
\* usable: the hole at the end of the heap is a page longer than before.
LEMMA EnlargeSound ==
  ASSUME NEW m, Sound(m, {})
  PROVE  LET r == Enlarge(m) IN
         /\ Sound(r, {}) /\ r.faults = m.faults
         /\ Keeps(m, r, {})
         /\ EndsInHole(r, PageSize - HeaderSize - FooterSize)
         /\ \A size \in Nat : EndsInHole(m, size) => EndsInHole(r, size + PageSize)
<1> DEFINE r == Enlarge(m)
           last == Previous(m, End(m))
<1> USE LayoutAssumption
<1>0. /\ Shape(m) /\ HeapType(m) /\ Tiled(m) /\ Apart(m, {})
      /\ \A x \in Headers(m) : m.hsize[x] \in Nat /\ m.used[x] \in {0, 1}
  BY DEF Sound, Shape, HeapType
<1>1. last \in Headers(m) /\ NextHeader(m, last) = End(m)
  BY <1>0, PreviousFacts
<1>2. \A x \in Headers(m) : NextHeader(m, x) = End(m) => x = last
  BY <1>0, <1>1, NextInjective
<1>3. r = IF m.used[last] = 1
          THEN AvlInsert(AppendPage(m), End(m))
          ELSE AvlInsert(GrowLast(AvlRemove(m, last), last), last)
  BY DEF Enlarge, Previous
<1> HIDE DEF r, last
<1>4. CASE m.used[last] = 1
  <2> DEFINE c == AppendPage(m)
             n == End(m)
  <2>1. r = AvlInsert(c, n)
    BY <1>3, <1>4
  <2>2. /\ Shape(c) /\ Headers(c) = Headers(m) \cup {n} /\ n \notin Headers(m)
        /\ c.used = [h \in Headers(c) |-> IF h = n THEN 0 ELSE m.used[h]]
        /\ \A h \in Headers(c) :
             /\ h = n => /\ c.hsize[h] = PageSize - HeaderSize - FooterSize
                         /\ NextHeader(c, h) = End(c)
             /\ h # n => /\ c.hsize[h] = m.hsize[h]
                         /\ NextHeader(c, h) = NextHeader(m, h)
        /\ c.avl = m.avl /\ c.faults = m.faults
    BY <1>0, AppendShape
  <2> HIDE DEF c
  <2>3. HolesOf(c, {n}) = HolesOf(m, {})
    BY <2>2 DEF HolesOf
  <2>4. \A x \in HolesOf(m, {}) : x \in Headers(c) /\ x # n /\ x \in Headers(m) /\ m.used[x] = 0
    BY <2>2 DEF HolesOf
  <2>5. Sound(c, {n})
    BY <2>2, <2>3, <2>4, SameHolesSound
  <2>6. n \in Headers(c) /\ c.used[n] = 0 /\ NextHeader(c, n) = End(c)
        /\ c.hsize[n] = PageSize - HeaderSize - FooterSize
    BY <2>2
  <2>7. End(c) \notin Headers(c)
    BY <2>2, NextFacts, EndFacts DEF Shape, Tiled
  <2>8. \A g \in HolesOf(c, {n}) : NextHeader(c, g) # n /\ NextHeader(c, n) # g
    BY <2>2, <2>3, <2>4, <2>6, <2>7, <1>2, <1>4
  <2>9. Sound(r, {}) /\ SameBlocks(r, c) /\ r.faults = c.faults
    BY <2>1, <2>5, <2>6, <2>8, InsertSound
  <2>10. /\ Headers(r) = Headers(c) /\ r.used = c.used /\ r.hsize = c.hsize
         /\ NextHeader(r, n) = End(r)
    BY <2>6, <2>9, SameBlocksFacts DEF SameBlocks
  <2>11. Keeps(m, r, {})
    BY <2>2, <2>10, <1>0 DEF Keeps
  <2>12. EndsInHole(r, PageSize - HeaderSize - FooterSize)
    BY <2>6, <2>10 DEF EndsInHole
  <2>13. \A size \in Nat : ~EndsInHole(m, size)
    BY <1>2, <1>4 DEF EndsInHole
  <2> QED BY <2>2, <2>9, <2>11, <2>12, <2>13 DEF r
<1>5. CASE m.used[last] = 0
  <2> DEFINE d == AvlRemove(m, last)
             c == GrowLast(d, last)
  <2>1. r = AvlInsert(c, last)
    BY <1>3, <1>5
  <2>2. last \in HolesOf(m, {})
    BY <1>1, <1>5 DEF HolesOf
  <2>3. Sound(d, {last}) /\ SameBlocks(d, m) /\ d.faults = m.faults
    <3>1. Sound(d, {} \cup {last}) /\ SameBlocks(d, m) /\ d.faults = m.faults
      BY <2>2, RemoveSound
    <3>2. {} \cup {last} = {last}
      OBVIOUS
    <3> QED BY <3>1, <3>2
  <2> HIDE DEF d
  <2>4. /\ Headers(d) = Headers(m) /\ d.used = m.used /\ d.hsize = m.hsize
        /\ NextHeader(d, last) = End(d)
        /\ \A x : NextHeader(d, x) = NextHeader(m, x)
    BY <1>1, <2>3, SameBlocksFacts DEF SameBlocks
  <2>5. /\ Shape(c) /\ Headers(c) = Headers(m) /\ c.used = m.used
        /\ \A h \in Headers(c) :
             /\ h = last => /\ c.hsize[h] = m.hsize[last] + PageSize
                            /\ NextHeader(c, h) = End(c)
             /\ h # last => /\ c.hsize[h] = m.hsize[h]
                            /\ NextHeader(c, h) = NextHeader(m, h)
        /\ c.avl = d.avl /\ c.faults = m.faults
    BY <1>1, <2>3, <2>4, GrowShape DEF Sound
  <2> HIDE DEF c
  <2>6. HolesOf(c, {last}) = HolesOf(d, {last})
    BY <2>4, <2>5 DEF HolesOf
  <2>7. \A x \in HolesOf(d, {last}) : x \in Headers(c) /\ x # last /\ x \in HolesOf(m, {})
    BY <2>4, <2>5 DEF HolesOf
  <2>8. Sound(c, {last})
    BY <2>3, <2>4, <2>5, <2>6, <2>7, SameHolesSound
  <2>9. End(c) \notin Headers(c)
    BY <2>5, NextFacts, EndFacts DEF Shape, Tiled
  <2>10. \A g \in HolesOf(c, {last}) : NextHeader(c, g) # last /\ NextHeader(c, last) # g
    <3>1. \A g \in HolesOf(c, {last}) : NextHeader(c, g) # last
      BY <2>2, <2>5, <2>6, <2>7, <1>0 DEF Apart
    <3>2. \A g \in HolesOf(c, {last}) : NextHeader(c, last) # g
      BY <2>5, <2>6, <2>7, <2>9, <1>1
    <3> QED BY <3>1, <3>2
  <2>11. Sound(r, {}) /\ SameBlocks(r, c) /\ r.faults = c.faults
    BY <2>1, <2>5, <2>8, <2>10, <1>1, <1>5, InsertSound
  <2>12. /\ Headers(r) = Headers(m) /\ r.used = m.used /\ r.hsize = c.hsize
         /\ NextHeader(r, last) = End(r)
         /\ r.hsize[last] = m.hsize[last] + PageSize
    BY <2>5, <2>11, <1>1, SameBlocksFacts DEF SameBlocks
  <2>13. Keeps(m, r, {})
    BY <2>5, <2>12, <1>0, <1>5 DEF Keeps
  <2>14. EndsInHole(r, PageSize - HeaderSize - FooterSize)
    BY <2>12, <1>0, <1>1, <1>5 DEF EndsInHole
  <2>15. \A size \in Nat : EndsInHole(m, size) => EndsInHole(r, size + PageSize)
    BY <2>12, <1>0, <1>1, <1>2, <1>5 DEF EndsInHole
  <2> QED BY <2>5, <2>11, <2>12, <2>13, <2>14, <2>15 DEF r
<1> QED BY <1>0, <1>1, <1>4, <1>5

-----------------------------------------------------------------------------

\* A hole that kalloc_avl_find_hole returns is in the tree and has the space.
LEMMA FoundHole ==
  ASSUME NEW holes, NEW size \in Nat, NEW alignment \in Nat,
         NEW hole \in FindHoleAnswers(holes, size, alignment) \ {NoHole}
  PROVE  hole \in holes /\ HasAlignmentSpace(hole, size, alignment)
BY DEF FindHoleAnswers, Fitting, Best

\* When kalloc_avl_find_hole returns nothing, no hole is as long as the request
\* and its alignment together, although a shorter one might have served.
LEMMA NoHoleFits ==
  ASSUME NEW m, Sound(m, {}), NEW size \in Nat, NEW alignment \in Nat,
         NoHole \in FindHoleAnswers(m.avl, size, alignment),
         NEW h \in HolesOf(m, {})
  PROVE  m.hsize[h] < size + alignment
<1> DEFINE fit == Fitting(m.avl, size, alignment)
<1>1. /\ m.avl \subseteq [size : Nat, addr : Nat] /\ HoleAt(m, h) \in m.avl
      /\ HoleAt(m, h).size = m.hsize[h] /\ m.hsize[h] \in Nat
      /\ \A x \in m.avl : x.addr > 0
  <2>1. m.avl \subseteq [size : Nat, addr : Nat] /\ HoleAt(m, h) \in m.avl /\ m.hsize[h] \in Nat
    BY DEF Sound, Shape, HeapType, Indexed, HolesOf
  <2>2. ASSUME NEW x \in m.avl PROVE x.addr > 0
    <3>1. PICK g \in HolesOf(m, {}) : x = HoleAt(m, g)
      BY DEF Sound, Indexed
    <3>2. g \in Nat /\ x.addr = g + HeaderSize
      BY <3>1, HoleAtFacts DEF HolesOf, Sound, Shape, HeapType
    <3> QED BY <3>2, LayoutAssumption
  <2> QED BY <2>1, <2>2, HoleAtFacts
<1>2. NoHole \notin m.avl
  <2>1. NoHole.addr = 0
    BY DEF NoHole, Hole
  <2> QED BY <2>1, <1>1
<1>3. fit \subseteq m.avl /\ \A x \in m.avl : x \in fit <=> HasAlignmentSpace(x, size, alignment)
  BY DEF Fitting
<1>4. \A x \in m.avl \ fit : x.size \in Nat /\ x.size < size + alignment
  <2> SUFFICES ASSUME NEW x \in m.avl \ fit
               PROVE  x.size \in Nat /\ x.size < size + alignment
    OBVIOUS
  <2>1. x.size \in Nat /\ x.addr \in Nat
    BY <1>1
  <2>2. /\ AlignUp(x.addr, alignment) \in Nat
        /\ AlignUp(x.addr, alignment) <= x.addr + alignment
    BY <2>1, AlignUpFacts
  <2>3. ~(x.size >= size + (AlignUp(x.addr, alignment) - x.addr))
    BY <1>3 DEF HasAlignmentSpace
  <2> QED BY <2>1, <2>2, <2>3
<1>5. CASE alignment = 0
  <2>1. fit = {}
    BY <1>2, <1>3, <1>5 DEF FindHoleAnswers, Best
  <2> QED BY <2>1, <1>1, <1>4
<1>6. CASE alignment # 0
  <2>1. LargestUnfit(m.avl, fit)
    BY <1>1, <1>2, <1>3, <1>6 DEF FindHoleAnswers
  <2>2. PICK l \in m.avl \ fit : \A g \in m.avl : g = l \/ HoleLess(g, l)
    BY <2>1 DEF LargestUnfit
  <2>3. HoleAt(m, h).size <= l.size
    BY <2>2, <1>1, <1>4 DEF HoleLess
  <2> QED BY <2>2, <2>3, <1>1, <1>4
<1> QED BY <1>5, <1>6

\* The inductive invariant, stated through the soundness of the heap.
LEMMA SoundHeap ==
  IInv <=> /\ TypeOK /\ Sound(heap, {}) /\ heap.faults = {} /\ LiveBlocks /\ Booted
           /\ call.op \in {"realloc", "release"} => call.old \in DOMAIN live
           /\ GrowthUnused /\ BoundedGrowth
BY DEF IInv, TypeOK, WellFormed, HolesExact, Coalesced, NoAssertFails, Sound, Shape

\* Callers keep what they hold when the blocks they hold are kept.
LEMMA LiveKept ==
  ASSUME TypeOK, LiveBlocks, NEW r, NEW except, NEW p \in DOMAIN live,
         Keeps(heap, r, except), p - HeaderSize \notin except, HeapType(r)
  PROVE  /\ p - HeaderSize \in Headers(r) \ {InitialAddr}
         /\ r.used[p - HeaderSize] = 1
         /\ r.hsize[p - HeaderSize] >= live[p].size
<1> DEFINE h == p - HeaderSize
<1>1. /\ h \in Headers(heap) \ {InitialAddr} /\ heap.used[h] = 1
      /\ heap.hsize[h] >= live[p].size
  BY DEF LiveBlocks
<1>2. h \in Headers(r) /\ r.used[h] = 1 /\ r.hsize[h] >= heap.hsize[h]
  BY <1>1 DEF Keeps
<1>3. heap.hsize[h] \in Nat /\ r.hsize[h] \in Nat /\ live[p].size \in Nat
  BY <1>1, <1>2 DEF TypeOK, HeapType
<1> QED BY <1>1, <1>2, <1>3

-----------------------------------------------------------------------------

\* The first pages have room for one hole.
LEMMA InitialSizeFacts ==
  InitialSize \in Nat /\ InitialSize > HeaderSize + FooterSize
<1>1. InitialPages * PageSize >= PageSize
  BY LayoutAssumption, HeapAssumption
<1>2. InitialPages * PageSize \in Nat
  BY LayoutAssumption, HeapAssumption
<1> QED BY <1>1, <1>2, LayoutAssumption DEF InitialSize

\* kalloc_heap_create establishes the inductive invariant.
LEMMA InitInvariant == Init => IInv
<1> SUFFICES ASSUME Init PROVE IInv
  OBVIOUS
<1> USE LayoutAssumption, HeapAssumption
<1> DEFINE s == InitialSize
           n == InitialSize - HeaderSize - FooterSize
<1>1. s \in Nat /\ n \in Nat /\ s = HeaderSize + n + FooterSize
  BY InitialSizeFacts
<1>2. /\ heap.size = s /\ heap.hsize = [h \in {InitialAddr} |-> n]
      /\ heap.used = [h \in {InitialAddr} |-> 0]
      /\ heap.footer = [f \in {InitialAddr + s - FooterSize} |-> InitialAddr]
      /\ heap.avl = {Hole(n, InitialAddr + HeaderSize)} /\ heap.faults = {}
  BY DEF Init, Create, Heap
<1> HIDE DEF s, n
<1>3. /\ Headers(heap) = {InitialAddr} /\ End(heap) = InitialAddr + s
      /\ FooterOf(heap, InitialAddr) = InitialAddr + s - FooterSize
      /\ NextHeader(heap, InitialAddr) = End(heap)
      /\ HoleAt(heap, InitialAddr) = Hole(n, InitialAddr + HeaderSize)
      /\ End(heap) > InitialAddr
  BY <1>1, <1>2 DEF Headers, End, FooterOf, NextHeader, HoleAt
<1>4. HeapType(heap)
  BY <1>1, <1>2, <1>3 DEF HeapType, Hole
<1>5. Tiled(heap) /\ Linked(heap)
  BY <1>1, <1>3 DEF Tiled, Linked
<1>6. FootersPointBack(heap)
  BY <1>2, <1>3 DEF FootersPointBack
<1>7. HolesOf(heap, {}) = {InitialAddr}
  BY <1>2, <1>3 DEF HolesOf
<1>8. Indexed(heap, {}) /\ Apart(heap, {})
  BY <1>2, <1>3, <1>7 DEF Indexed, Apart
<1>9. TypeOK
  BY <1>4 DEF TypeOK, Init, Request
<1>10. LiveBlocks /\ Booted /\ GrowthUnused /\ BoundedGrowth /\ call.op = "boot"
  <2>1. n >= 1 + 0
    BY InitialSizeFacts DEF n
  <2> QED BY <2>1, <1>2, <1>3 DEF LiveBlocks, Booted, GrowthUnused, BoundedGrowth, Init, Request
<1> QED BY <1>2, <1>4, <1>5, <1>6, <1>8, <1>9, <1>10, SoundHeap DEF Sound, Shape

\* IInv of the next state, from facts about its heap.
LEMMA NextInvariant ==
  ASSUME NEW r, heap' = r, Sound(r, {}), r.faults = {},
         call' \in [op : {"none", "boot", "alloc", "realloc", "release", "oom"},
                     size : Nat, alignment : Nat, old : Nat, grown : Nat],
         DOMAIN live' \subseteq Nat,
         live' \in [DOMAIN live' -> [size : Nat, alignment : Nat]],
         LiveBlocks', Booted', GrowthUnused', BoundedGrowth',
         call'.op \in {"realloc", "release"} => call'.old \in DOMAIN live'
  PROVE  IInv'
<1>1. /\ HeapType(heap') /\ Tiled(heap') /\ FootersPointBack(heap') /\ Linked(heap')
      /\ Indexed(heap', {}) /\ Apart(heap', {}) /\ heap'.faults = {}
  BY DEF Sound, Shape
<1>2. TypeOK'
  BY <1>1 DEF TypeOK
<1> QED BY <1>1, <1>2 DEF IInv, WellFormed, HolesExact, Coalesced, NoAssertFails

\* What the proofs of the actions use of the inductive invariant.
LEMMA InvariantFacts ==
  ASSUME IInv
  PROVE  /\ Sound(heap, {}) /\ heap.faults = {} /\ HeapType(heap) /\ TypeOK /\ LiveBlocks
         /\ call.op \in {"none", "boot", "alloc", "realloc", "release", "oom"}
         /\ call.size \in Nat /\ call.alignment \in Nat
         /\ call.old \in Nat /\ call.grown \in Nat
         /\ DOMAIN live \subseteq Nat
         /\ live \in [DOMAIN live -> [size : Nat, alignment : Nat]]
BY SoundHeap DEF TypeOK

\* A call that starts, returns at once or finds no frame leaves the heap alone.
LEMMA HeapUnchanged ==
  ASSUME IInv, UNCHANGED heap,
         call' \in [op : {"none", "alloc", "realloc", "oom"},
                     size : Nat, alignment : Nat, old : Nat, grown : Nat],
         call'.grown = 0 \/ call' = call, call.op # "boot",
         call'.op = "realloc" => call'.old \in DOMAIN live',
         DOMAIN live' = DOMAIN live,
         live' \in [DOMAIN live -> [size : Nat, alignment : Nat]],
         \A p \in DOMAIN live : /\ live'[p].size <= live[p].size
                                /\ live'[p].alignment = live[p].alignment
  PROVE  IInv'
<1>1. /\ Sound(heap, {}) /\ heap.faults = {} /\ HeapType(heap) /\ LiveBlocks /\ DOMAIN live \subseteq Nat
      /\ live \in [DOMAIN live -> [size : Nat, alignment : Nat]]
      /\ call.op # "boot" /\ heap.used[InitialAddr] = 1
  BY InvariantFacts DEF IInv, Booted
<1>2. LiveBlocks'
  <2> SUFFICES ASSUME NEW p \in DOMAIN live
               PROVE  /\ p - HeaderSize \in Headers(heap) \ {InitialAddr}
                      /\ heap.used[p - HeaderSize] = 1
                      /\ heap.hsize[p - HeaderSize] >= live'[p].size
                      /\ AlignUp(p, live'[p].alignment) = p
    BY DEF LiveBlocks, Headers
  <2>1. /\ p - HeaderSize \in Headers(heap) \ {InitialAddr}
        /\ heap.used[p - HeaderSize] = 1
        /\ heap.hsize[p - HeaderSize] >= live[p].size
        /\ AlignUp(p, live[p].alignment) = p
    BY <1>1 DEF LiveBlocks
  <2>2. heap.hsize[p - HeaderSize] \in Nat /\ live[p].size \in Nat /\ live'[p].size \in Nat
    BY <2>1, <1>1 DEF HeapType
  <2> QED BY <2>1, <2>2
<1>3. Booted' /\ GrowthUnused'
  BY <1>1 DEF IInv, Booted, GrowthUnused
<1>4. BoundedGrowth'
  BY LayoutAssumption DEF IInv, BoundedGrowth
<1>5. call' \in [op : {"none", "boot", "alloc", "realloc", "release", "oom"},
                  size : Nat, alignment : Nat, old : Nat, grown : Nat]
      /\ (call'.op \in {"realloc", "release"} => call'.old \in DOMAIN live')
  OBVIOUS
<1> QED BY <1>1, <1>2, <1>3, <1>4, <1>5, NextInvariant

\* Entering kalloc_alloc or kalloc_alloc_aligned preserves the invariant.
LEMMA AllocInvariant ==
  ASSUME IInv, NEW size \in Sizes, NEW alignment \in Alignments, Alloc(size, alignment)
  PROVE  IInv'
<1>1. /\ UNCHANGED <<heap, live>> /\ call.op = "none"
      /\ call' = [op |-> "alloc", size |-> size, alignment |-> alignment,
                  old |-> 0, grown |-> 0]
  BY DEF Alloc, Running, Request
<1>2. \A p \in DOMAIN live : live[p].size \in Nat
  BY InvariantFacts
<1> QED BY <1>1, <1>2, InvariantFacts, HeapUnchanged, RequestAssumption

\* Entering kalloc_realloc, or returning from it at once because the new size
\* is not larger, preserves the invariant.
LEMMA ReallocInvariant ==
  ASSUME IInv, NEW p \in DOMAIN live, NEW size \in Sizes, Realloc(p, size)
  PROVE  IInv'
<1>1. UNCHANGED heap /\ call.op = "none" /\ size \in Nat
  BY RequestAssumption DEF Realloc, Running
<1>2. /\ live \in [DOMAIN live -> [size : Nat, alignment : Nat]] /\ DOMAIN live \subseteq Nat
      /\ TypeOK /\ BoundedGrowth /\ GrowthUnused
  BY InvariantFacts DEF IInv
<1>3. CASE size <= live[p].size
  <2>1. call' = call /\ live' = [live EXCEPT ![p].size = size]
    BY <1>3 DEF Realloc
  <2>2. live'[p] = [live[p] EXCEPT !.size = size] /\ live[p] \in [size : Nat, alignment : Nat]
    BY <2>1, <1>2
  <2>3. /\ live'[p].size = size /\ live'[p].alignment = live[p].alignment
        /\ live'[p] \in [size : Nat, alignment : Nat]
    BY <2>2, <1>1
  <2>4. /\ DOMAIN live' = DOMAIN live
        /\ \A q \in DOMAIN live : q # p => live'[q] = live[q]
        /\ live' \in [DOMAIN live -> [size : Nat, alignment : Nat]]
    BY <2>1, <2>3, <1>2
  <2>5. \A q \in DOMAIN live : /\ live'[q].size <= live[q].size
                               /\ live'[q].alignment = live[q].alignment
    BY <2>3, <2>4, <1>2, <1>3
  <2>6. call' \in [op : {"none", "alloc", "realloc", "oom"},
                   size : Nat, alignment : Nat, old : Nat, grown : Nat]
        /\ call'.op = "none"
    BY <2>1, <1>1, <1>2 DEF TypeOK
  <2> QED BY <2>1, <2>4, <2>5, <2>6, <1>1, HeapUnchanged
<1>4. CASE ~(size <= live[p].size)
  <2>1. /\ live' = live
        /\ call' = [op |-> "realloc", size |-> size, alignment |-> 0,
                    old |-> p, grown |-> 0]
    BY <1>4 DEF Realloc, Request
  <2>2. \A q \in DOMAIN live : live[q].size \in Nat
    BY <1>2
  <2> QED BY <2>1, <2>2, <1>1, <1>2, HeapUnchanged
<1> QED BY <1>3, <1>4

\* While kalloc_init's byte is pending, the hole it needs is there.
LEMMA BootFits ==
  ASSUME IInv, NoHole \in FindHoleAnswers(heap.avl, call.size, call.alignment)
  PROVE  call.op # "boot"
<1> SUFFICES ASSUME call.op = "boot" PROVE FALSE
  OBVIOUS
<1>1. /\ Headers(heap) = {InitialAddr} /\ heap.used[InitialAddr] = 0
      /\ heap.hsize[InitialAddr] >= call.size + call.alignment
  BY DEF IInv, Booted
<1>2. heap.hsize[InitialAddr] < call.size + call.alignment
  BY <1>1, InvariantFacts, NoHoleFits DEF HolesOf
<1>3. heap.hsize[InitialAddr] \in Nat /\ call.size \in Nat /\ call.alignment \in Nat
  BY <1>1, InvariantFacts DEF HeapType
<1> QED BY <1>1, <1>2, <1>3

\* The panic of the frame allocator preserves the invariant.
LEMMA OutOfFramesInvariant ==
  ASSUME IInv, OutOfFrames
  PROVE  IInv'
<1>1. /\ UNCHANGED <<heap, live>> /\ call.op # "boot"
      /\ call' = [op |-> "oom", size |-> 0, alignment |-> 0, old |-> 0, grown |-> 0]
  BY BootFits DEF OutOfFrames, Starve, Request
<1>2. \A p \in DOMAIN live : live[p].size \in Nat
  BY InvariantFacts
<1> QED BY <1>1, <1>2, InvariantFacts, HeapUnchanged

\* Adding a page to the heap preserves the invariant.  BoundedGrowth is
\* preserved because the hole at the end already holds all the pages the call
\* has added and was still too short.
LEMMA ExpandInvariant ==
  ASSUME IInv, Expand
  PROVE  IInv'
<1> DEFINE r == Enlarge(heap)
<1> USE LayoutAssumption
<1>1. /\ heap' = r /\ live' = live /\ call' = [call EXCEPT !.grown = @ + PageSize]
      /\ NoHole \in FindHoleAnswers(heap.avl, call.size, call.alignment)
      /\ call.op \in {"alloc", "realloc"}
  BY BootFits DEF Expand, GrowHeap, Allocating
<1>2. /\ Sound(r, {}) /\ r.faults = {} /\ Keeps(heap, r, {})
      /\ EndsInHole(r, PageSize - HeaderSize - FooterSize)
      /\ \A size \in Nat : EndsInHole(heap, size) => EndsInHole(r, size + PageSize)
  BY InvariantFacts, EnlargeSound
<1> HIDE DEF r
<1>3. /\ call'.op = call.op /\ call'.size = call.size /\ call'.alignment = call.alignment
      /\ call'.old = call.old /\ call'.grown = call.grown + PageSize
      /\ call' \in [op : {"none", "boot", "alloc", "realloc", "release", "oom"},
                    size : Nat, alignment : Nat, old : Nat, grown : Nat]
  BY <1>1, InvariantFacts DEF TypeOK
<1>4. LiveBlocks'
  <2>1. HeapType(r) /\ TypeOK /\ LiveBlocks
    BY <1>2, InvariantFacts DEF Sound, Shape
  <2>2. \A p \in DOMAIN live : AlignUp(p, live[p].alignment) = p
    BY <2>1 DEF LiveBlocks
  <2>3. \A p \in DOMAIN live :
          /\ p - HeaderSize \in Headers(r) \ {InitialAddr}
          /\ r.used[p - HeaderSize] = 1
          /\ r.hsize[p - HeaderSize] >= live[p].size
    BY <2>1, <1>2, LiveKept
  <2> QED BY <2>2, <2>3, <1>1 DEF LiveBlocks
<1>5. Booted'
  <2>1. heap.used[InitialAddr] = 1 /\ InitialAddr \in Headers(heap)
    BY <1>1 DEF IInv, Booted, WellFormed, Tiled
  <2>2. r.used[InitialAddr] = 1
    BY <2>1, <1>2 DEF Keeps
  <2> QED BY <2>2, <1>1, <1>3 DEF Booted
<1>6. /\ call.grown \in Nat /\ call.size \in Nat /\ call.alignment \in Nat
      /\ GrowthUnused /\ BoundedGrowth
  BY InvariantFacts DEF IInv
<1>7. GrowthUnused'
  <2>1. CASE call.grown = 0
    BY <2>1, <1>1, <1>2, <1>3 DEF GrowthUnused
  <2>2. CASE call.grown # 0
    <3>1. /\ call.grown >= PageSize /\ call.grown - HeaderSize - FooterSize \in Nat
          /\ EndsInHole(heap, call.grown - HeaderSize - FooterSize)
      BY <2>2, <1>6 DEF GrowthUnused
    <3>2. EndsInHole(r, (call.grown - HeaderSize - FooterSize) + PageSize)
      BY <3>1, <1>2
    <3>3. (call.grown - HeaderSize - FooterSize) + PageSize
            = (call.grown + PageSize) - HeaderSize - FooterSize
      BY <1>6
    <3> QED BY <3>1, <3>2, <3>3, <1>1, <1>3, <1>6 DEF GrowthUnused
  <2> QED BY <2>1, <2>2
<1>8. BoundedGrowth'
  <2>1. CASE call.grown = 0
    BY <2>1, <1>3, <1>6 DEF BoundedGrowth
  <2>2. CASE call.grown # 0
    <3>1. PICK l \in Headers(heap) :
            heap.used[l] = 0 /\ heap.hsize[l] >= call.grown - HeaderSize - FooterSize
      BY <2>2, <1>6 DEF GrowthUnused, EndsInHole
    <3>2. l \in HolesOf(heap, {}) /\ heap.hsize[l] \in Nat
      BY <3>1, InvariantFacts DEF HolesOf, HeapType
    <3>3. heap.hsize[l] < call.size + call.alignment
      BY <3>2, <1>1, <1>6, InvariantFacts, NoHoleFits
    <3>4. call.grown + PageSize <= call.size + call.alignment + HeaderSize + FooterSize + PageSize
      BY <3>1, <3>2, <3>3, <1>6
    <3> QED BY <3>4, <1>3 DEF BoundedGrowth
  <2> QED BY <2>1, <2>2
<1>9. call.op \in {"realloc", "release"} => call.old \in DOMAIN live
  BY DEF IInv
<1> QED BY <1>1, <1>2, <1>3, <1>4, <1>5, <1>7, <1>8, <1>9, InvariantFacts, NextInvariant

\* The return of kalloc_heap_alloc preserves the invariant.
LEMMA PlaceInvariant ==
  ASSUME IInv, Place
  PROVE  IInv'
<1> USE LayoutAssumption
<1>1. PICK hole \in FindHoleAnswers(heap.avl, call.size, call.alignment) \ {NoHole} :
        LET p == AlignUp(hole.addr, call.alignment)
        IN  /\ heap' = PlaceAt(heap, hole, call.size, call.alignment)
            /\ live' = IF call.op = "boot" THEN live
                       ELSE Write(live, p, Held(call.size, call.alignment))
            /\ call' = IF call.op = "realloc"
                       THEN Request("release", 0, 0, call.old) ELSE Idle
  BY DEF Place, PlaceIn
<1> DEFINE r == PlaceAt(heap, hole, call.size, call.alignment)
           p == AlignUp(hole.addr, call.alignment)
           b == p - HeaderSize
<1>2. call.op \in {"boot", "alloc", "realloc"}
  BY DEF Place, PlaceIn, Allocating
<1>3. hole \in heap.avl /\ HasAlignmentSpace(hole, call.size, call.alignment)
  BY InvariantFacts, FoundHole
<1>4. /\ InitialAddr \in Headers(heap)
      /\ call.op = "boot" => /\ Headers(heap) = {InitialAddr} /\ heap.used[InitialAddr] = 0
                             /\ call.alignment = 0 /\ DOMAIN live = {}
      /\ call.op # "boot" => heap.used[InitialAddr] = 1
  BY DEF IInv, Booted, WellFormed, Tiled
<1>5. /\ Sound(r, {}) /\ r.faults = {}
      /\ b \in Headers(r) /\ r.used[b] = 1 /\ r.hsize[b] >= call.size
      /\ Keeps(heap, r, {})
      /\ b \in Headers(heap) => heap.used[b] = 0
  <2>1. call.alignment # 0 => heap.used[InitialAddr] = 1
    BY <1>4
  <2> QED BY <2>1, <1>3, InvariantFacts, PlaceSound
<1>6. hole.addr \in Nat /\ p \in Nat /\ AlignUp(p, call.alignment) = p
  BY <1>3, InvariantFacts, AlignUpFacts, AlignUpAligned DEF HeapType
<1>7. call' \in [op : {"none", "boot", "alloc", "realloc", "release", "oom"},
                 size : Nat, alignment : Nat, old : Nat, grown : Nat]
      /\ call'.grown = 0 /\ call'.op \in {"none", "release"}
      /\ (call'.op = "release" => call.op = "realloc" /\ call'.old = call.old)
  <2>1. CASE call.op = "realloc"
    BY <2>1, <1>1, InvariantFacts DEF Request
  <2>2. CASE call.op # "realloc"
    BY <2>2, <1>1 DEF Idle
  <2> QED BY <2>1, <2>2
<1>8. heap' = r
  BY <1>1
<1>9. live' = IF call.op = "boot" THEN live
              ELSE Write(live, p, Held(call.size, call.alignment))
  BY <1>1
<1>10. HeapType(r) /\ TypeOK /\ LiveBlocks
  BY <1>5, InvariantFacts DEF Sound, Shape
<1>11. call.op = "boot" => b = InitialAddr
  <2> SUFFICES ASSUME call.op = "boot" PROVE b = InitialAddr
    OBVIOUS
  <2>1. PICK t \in HolesOf(heap, {}) : hole = HoleAt(heap, t)
    BY <1>3, InvariantFacts DEF Sound, Indexed
  <2>2. t = InitialAddr /\ hole.addr = t + HeaderSize
    BY <2>1, <1>4, HoleAtFacts DEF HolesOf
  <2>3. p = hole.addr
    BY <1>4, <1>6, AlignUpFacts
  <2> QED BY <2>2, <2>3, HeapAssumption
<1> HIDE DEF r, p, b
<1>12. /\ \A q \in DOMAIN live :
            /\ q - HeaderSize \in Headers(r) \ {InitialAddr}
            /\ r.used[q - HeaderSize] = 1
            /\ r.hsize[q - HeaderSize] >= live[q].size
       /\ \A q \in DOMAIN live : AlignUp(q, live[q].alignment) = q
  BY <1>5, <1>10, LiveKept DEF LiveBlocks
<1>13. CASE call.op = "boot"
  <2>1. live' = live /\ DOMAIN live = {}
    BY <1>4, <1>9, <1>13
  <2>2. LiveBlocks'
    BY <2>1 DEF LiveBlocks
  <2>3. Booted'
    BY <1>5, <1>7, <1>8, <1>11, <1>13 DEF Booted
  <2>4. GrowthUnused' /\ BoundedGrowth'
    BY <1>7 DEF GrowthUnused, BoundedGrowth
  <2>5. call'.op \notin {"realloc", "release"}
    BY <1>7, <1>13
  <2> QED BY <2>1, <2>2, <2>3, <2>4, <2>5, <1>5, <1>7, <1>8, InvariantFacts, NextInvariant
<1>14. CASE call.op # "boot"
  <2>1. /\ DOMAIN live' = DOMAIN live \cup {p}
        /\ live'[p] = Held(call.size, call.alignment)
        /\ \A q \in DOMAIN live : q # p => live'[q] = live[q]
        /\ live' = [q \in DOMAIN live' |-> live'[q]]
    BY <1>9, <1>14 DEF Write
  <2>2. /\ live'[p].size = call.size /\ live'[p].alignment = call.alignment
        /\ live'[p] \in [size : Nat, alignment : Nat]
    BY <2>1, InvariantFacts DEF Held
  <2>3. DOMAIN live' \subseteq Nat /\ live' \in [DOMAIN live' -> [size : Nat, alignment : Nat]]
    <3>1. \A q \in DOMAIN live' : live'[q] \in [size : Nat, alignment : Nat]
      BY <2>1, <2>2, InvariantFacts
    <3> QED BY <3>1, <2>1, <1>6, InvariantFacts
  <2>4. b # InitialAddr
    BY <1>4, <1>5, <1>14
  <2>5. LiveBlocks'
    <3> SUFFICES ASSUME NEW q \in DOMAIN live'
                 PROVE  /\ q - HeaderSize \in Headers(r) \ {InitialAddr}
                        /\ r.used[q - HeaderSize] = 1
                        /\ r.hsize[q - HeaderSize] >= live'[q].size
                        /\ AlignUp(q, live'[q].alignment) = q
      BY <1>8 DEF LiveBlocks
    <3>1. CASE q = p
      BY <3>1, <2>2, <2>4, <1>5, <1>6 DEF b
    <3>2. CASE q # p
      BY <3>2, <2>1, <1>12
    <3> QED BY <3>1, <3>2
  <2>6. Booted'
    <3>1. r.used[InitialAddr] = 1
      BY <1>4, <1>5, <1>14 DEF Keeps
    <3> QED BY <3>1, <1>7, <1>8 DEF Booted
  <2>7. GrowthUnused' /\ BoundedGrowth'
    BY <1>7 DEF GrowthUnused, BoundedGrowth
  <2>8. call'.op \in {"realloc", "release"} => call'.old \in DOMAIN live'
    BY <2>1, <1>7 DEF IInv
  <2> QED BY <2>3, <2>5, <2>6, <2>7, <2>8, <1>5, <1>7, <1>8, NextInvariant
<1> QED BY <1>13, <1>14

\* kalloc_free and the end of kalloc_realloc.
LEMMA FreeInvariant ==
  ASSUME IInv, NEW p \in DOMAIN live, call.op \in {"none", "release"},
         heap' = FreeBlock(heap, p), live' = Forget(live, p),
         (call' = call /\ call.op = "none") \/ call' = Idle
  PROVE  IInv'
<1> USE LayoutAssumption
<1> DEFINE h == p - HeaderSize
           r == FreeBlock(heap, p)
<1>1. h \in Headers(heap) \ {InitialAddr} /\ heap.used[h] = 1 /\ p \in Nat
  BY InvariantFacts DEF LiveBlocks
<1>2. Sound(r, {}) /\ r.faults = {} /\ Keeps(heap, r, {h})
  BY <1>1, InvariantFacts, FreeSound
<1>3. HeapType(r) /\ TypeOK /\ LiveBlocks /\ heap' = r
  BY <1>2, InvariantFacts DEF Sound, Shape
<1> HIDE DEF r
<1>4. /\ DOMAIN live' = DOMAIN live \ {p}
      /\ \A q \in DOMAIN live' : live'[q] = live[q]
      /\ live' \in [DOMAIN live' -> [size : Nat, alignment : Nat]]
      /\ DOMAIN live' \subseteq Nat
  BY InvariantFacts DEF Forget
<1>5. LiveBlocks'
  <2> SUFFICES ASSUME NEW q \in DOMAIN live \ {p}
               PROVE  /\ q - HeaderSize \in Headers(r) \ {InitialAddr}
                      /\ r.used[q - HeaderSize] = 1
                      /\ r.hsize[q - HeaderSize] >= live[q].size
                      /\ AlignUp(q, live[q].alignment) = q
    BY <1>3, <1>4 DEF LiveBlocks
  <2>1. q \in Nat /\ q - HeaderSize # h
    <3>1. q \in Nat /\ q # p
      BY InvariantFacts
    <3> QED BY <3>1, <1>1
  <2>2. AlignUp(q, live[q].alignment) = q
    BY <1>3 DEF LiveBlocks
  <2> QED BY <2>1, <2>2, <1>2, <1>3, LiveKept
<1>6. /\ call' \in [op : {"none", "boot", "alloc", "realloc", "release", "oom"},
                    size : Nat, alignment : Nat, old : Nat, grown : Nat]
      /\ call'.op = "none"
  BY <1>3 DEF Idle, TypeOK
<1>7. Booted'
  <2>1. heap.used[InitialAddr] = 1 /\ InitialAddr \in Headers(heap)
    BY DEF IInv, Booted, WellFormed, Tiled
  <2>2. r.used[InitialAddr] = 1
    BY <2>1, <1>1, <1>2 DEF Keeps
  <2> QED BY <2>2, <1>3, <1>6 DEF Booted
<1>8. GrowthUnused' /\ BoundedGrowth'
  <2>1. call'.grown = 0
    BY DEF IInv, GrowthUnused, Idle
  <2> QED BY <2>1, <1>6 DEF GrowthUnused, BoundedGrowth
<1> QED BY <1>2, <1>3, <1>4, <1>5, <1>6, <1>7, <1>8, NextInvariant

\* Every step preserves the inductive invariant.
LEMMA StepInvariant == IInv /\ [Next]_vars => IInv'
<1> SUFFICES ASSUME IInv, [Next]_vars PROVE IInv'
  OBVIOUS
<1>1. ASSUME NEW size \in Sizes, NEW alignment \in Alignments, Alloc(size, alignment)
      PROVE  IInv'
  BY <1>1, AllocInvariant
<1>2. ASSUME NEW p \in DOMAIN live, NEW size \in Sizes, Realloc(p, size)
      PROVE  IInv'
  BY <1>2, ReallocInvariant
<1>3. ASSUME NEW p \in DOMAIN live, Free(p)
      PROVE  IInv'
  BY <1>3, FreeInvariant DEF Free, Running
<1>4. CASE Place
  BY <1>4, PlaceInvariant
<1>5. CASE Expand
  BY <1>5, ExpandInvariant
<1>6. CASE OutOfFrames
  BY <1>6, OutOfFramesInvariant
<1>7. CASE Release
  <2>1. call.old \in DOMAIN live /\ call.op = "release"
    BY <1>7 DEF IInv, Release, Running
  <2> QED BY <2>1, <1>7, FreeInvariant DEF Release
<1>8. CASE UNCHANGED vars
  <2>1. heap' = heap /\ call' = call /\ live' = live
    BY <1>8 DEF vars
  <2>2. LiveBlocks' /\ Booted' /\ GrowthUnused' /\ BoundedGrowth'
    BY <2>1 DEF IInv, LiveBlocks, Booted, GrowthUnused, BoundedGrowth
  <2>3. call' \in [op : {"none", "boot", "alloc", "realloc", "release", "oom"},
                   size : Nat, alignment : Nat, old : Nat, grown : Nat]
        /\ (call'.op \in {"realloc", "release"} => call'.old \in DOMAIN live')
    BY <2>1 DEF IInv, TypeOK
  <2> QED BY <2>1, <2>2, <2>3, InvariantFacts, NextInvariant
<1> QED BY <1>1, <1>2, <1>3, <1>4, <1>5, <1>6, <1>7, <1>8 DEF Next

\* The inductive invariant holds in every state.
THEOREM InductiveInvariant == Spec => []IInv
BY InitInvariant, StepInvariant, PTL DEF Spec

\* Headers, footers, the tree, the call and what callers hold keep their types
\* for every layout, request size and alignment the assumptions allow.
THEOREM TypeCorrect == Spec => []TypeOK
<1>1. IInv => TypeOK
  BY DEF IInv
<1> QED BY <1>1, InductiveInvariant, PTL

\* After any sequence of kalloc_alloc, kalloc_alloc_aligned, kalloc_realloc and
\* kalloc_free, the blocks tile the heap and every footer leads back to its
\* header: what check_heap of kalloc_test.c verifies on the sequences it runs.
THEOREM HeapWellFormed == Spec => []WellFormed
<1>1. IInv => WellFormed
  BY DEF IInv
<1> QED BY <1>1, InductiveInvariant, PTL

\* The AVL tree always holds exactly the holes, each with its present size, and
\* no two holes are neighbours.
THEOREM TreeMatchesHeap == Spec => [](HolesExact /\ Coalesced)
<1>1. IInv => HolesExact /\ Coalesced
  BY DEF IInv
<1> QED BY <1>1, InductiveInvariant, PTL

\* No assertion of kalloc_heap.c fails, no hole is inserted twice and none is
\* removed that the tree does not hold.
THEOREM AssertionsHold == Spec => []NoAssertFails
<1>1. IInv => NoAssertFails
  BY DEF IInv
<1> QED BY <1>1, InductiveInvariant, PTL

\* A call of kalloc_heap_alloc adds no more pages than its size, its alignment
\* and one page of slack account for, so its recursion ends.
THEOREM GrowthIsBounded == Spec => []BoundedGrowth
<1>1. IInv => BoundedGrowth
  BY DEF IInv
<1> QED BY <1>1, InductiveInvariant, PTL

\* Every pointer a caller holds has the bytes and the alignment it asked for,
\* in a block in use, and the bytes of two callers never overlap.
THEOREM AllocationsApart == Spec => [](LiveBlocks /\ LiveDisjoint)
<1>1. ASSUME IInv PROVE LiveDisjoint
  <2> SUFFICES ASSUME NEW p \in DOMAIN live, NEW q \in DOMAIN live, p < q
               PROVE  p + live[p].size < q
    BY DEF LiveDisjoint
  <2> DEFINE g == p - HeaderSize
             h == q - HeaderSize
  <2>1. /\ g \in Headers(heap) /\ h \in Headers(heap)
        /\ heap.hsize[g] >= live[p].size
        /\ p \in Nat /\ q \in Nat /\ live[p].size \in Nat
    BY <1>1, InvariantFacts DEF LiveBlocks
  <2>2. g \in Nat /\ h \in Nat /\ heap.hsize[g] \in Nat
        /\ NextHeader(heap, g) = g + HeaderSize + heap.hsize[g] + FooterSize
    BY <2>1, <1>1, InvariantFacts, NextFacts
  <2>3. NextHeader(heap, g) <= h
    <3>1. g < h
      BY <2>1, LayoutAssumption
    <3> QED BY <3>1, <2>1, <1>1 DEF IInv, WellFormed, Tiled
  <2> QED BY <2>1, <2>2, <2>3, LayoutAssumption
<1>2. IInv => LiveBlocks /\ LiveDisjoint
  BY <1>1 DEF IInv
<1> QED BY <1>2, InductiveInvariant, PTL
=============================================================================
