---------------------------- MODULE HashMapProof ----------------------------
(***************************************************************************)
(* Proofs about HashMap.  For every set of keys and values, every hash     *)
(* function and every initial capacity: each entry can be reached from its *)
(* hash position, half of the table is free, and the map is a dictionary.  *)
(***************************************************************************)
EXTENDS HashMap, NaturalsLemmas, FiniteSetTheorems, TLAPS

-----------------------------------------------------------------------------
(***************************************************************************)
(* The inductive invariant, for a table of c entries d.                    *)
(***************************************************************************)

Slots == {Invalid} \cup {Entry(k, v) : k \in Keys, v \in Values}
Table(c, d) == c \in Nat \ {0} /\ d \in [0..(c - 1) -> Slots]
Occ(c, d) == {i \in 0..(c - 1) : Valid(d, i)}

\* How far a probe from h goes until it comes to j.
Off(c, h, j) == IF j >= h THEN j - h ELSE j - h + c
Home(c, d, i) == Hash[d[i].key] % c

\* No key is stored twice.
Unique(c, d) == \A i, j \in Occ(c, d) : d[i].key = d[j].key => i = j

\* Everything between an entry's hash position and the entry is valid.
Clear(c, d) ==
  \A i \in Occ(c, d), j \in 0..(c - 1) :
    Off(c, Home(c, d, i), j) <= Off(c, Home(c, d, i), i) => j \in Occ(c, d)

Good(c, d) == Table(c, d) /\ Unique(c, d) /\ Clear(c, d)

\* What the table holds, and that with the key put in or taken out.
Pairs(c, d) == {<<d[i].key, d[i].value>> : i \in Occ(c, d)}
Without(P, key) == {p \in P : p[1] # key}
With(P, key, value) == Without(P, key) \cup {<<key, value>>}

Maps(c) == [capacity : {c}, num_elements : Nat, data : [0..(c - 1) -> Slots]]
Counted(m) == m.num_elements = Cardinality(Occ(m.capacity, m.data))

\* A map between two rounds of a growth or after a call.
Sound(m) ==
  /\ m \in Maps(m.capacity)
  /\ Good(m.capacity, m.data)
  /\ Counted(m)

IInv == Sound(hm) /\ 2 * hm.num_elements <= hm.capacity

-----------------------------------------------------------------------------
(***************************************************************************)
(* Positions and entries.                                                  *)
(***************************************************************************)

\* Positions modulo the capacity.
LEMMA ModFacts ==
  ASSUME NEW c \in Nat \ {0}, NEW x \in Nat
  PROVE  /\ x % c \in 0..(c - 1)
         /\ x < c => x % c = x
         /\ c <= x /\ x < 2 * c => x % c = x - c
<1>1. x % c \in 0..(c - 1)
  OBVIOUS
<1>2. x < c => x % c = x
  OBVIOUS
<1>3. c <= x /\ x < 2 * c => x % c = x - c
  OBVIOUS
<1> QED
  BY <1>1, <1>2, <1>3

\* The probe from h is at j after Off(c, h, j) rounds, and comes to every
\* position in its first c rounds.
LEMMA OffFacts ==
  ASSUME NEW c \in Nat \ {0}, NEW h \in 0..(c - 1), NEW j \in 0..(c - 1)
  PROVE  /\ Off(c, h, j) \in 0..(c - 1)
         /\ (h + Off(c, h, j)) % c = j
         /\ (h + j) % c \in 0..(c - 1)
         /\ Off(c, h, (h + j) % c) = j
         /\ Off(c, h, h) = 0
<1>1. Off(c, h, j) \in 0..(c - 1) /\ Off(c, h, h) = 0
  BY DEF Off
<1>2. (h + Off(c, h, j)) % c = j
  <2>1. CASE j >= h
    BY <2>1, ModFacts DEF Off
  <2>2. CASE ~(j >= h)
    <3>1. h + Off(c, h, j) = j + c /\ j + c \in Nat /\ c <= j + c /\ j + c < 2 * c
      BY <2>2 DEF Off
    <3>2. (j + c) % c = (j + c) - c
      BY <3>1, ModFacts
    <3> QED
      BY <3>1, <3>2
  <2> QED
    BY <2>1, <2>2
<1>3. PICK x : x = h + j
  OBVIOUS
<1>4. x \in Nat /\ x < 2 * c
  BY <1>3
<1>5. x % c = IF x < c THEN x ELSE x - c
  <2>1. x < c => x % c = x
    BY <1>4, ModFacts, Zenon
  <2>2. c <= x /\ x < 2 * c => x % c = x - c
    BY <1>4, ModFacts, Zenon
  <2>3. x < c \/ c <= x
    BY <1>4
  <2>4. CASE x < c
    BY <2>1, <2>4
  <2>5. CASE ~(x < c)
    BY <1>4, <2>2, <2>3, <2>5
  <2> QED
    BY <2>4, <2>5
<1>6. x % c \in 0..(c - 1) /\ Off(c, h, x % c) = j
  <2>1. PICK y : y = x % c
    OBVIOUS
  <2>2. y = IF x < c THEN x ELSE x - c
    BY <1>5, <2>1
  <2>3. y \in 0..(c - 1) /\ Off(c, h, y) = j
    BY ONLY <1>3, <1>4, <2>2, c \in Nat \ {0}, h \in 0..(c - 1), j \in 0..(c - 1) DEF Off
  <2> QED
    BY <2>1, <2>3
<1> QED
  BY <1>1, <1>2, <1>3, <1>6

\* Distinct positions are at distinct distances.
LEMMA OffDistinct ==
  ASSUME NEW c \in Nat \ {0}, NEW h \in 0..(c - 1), NEW i \in 0..(c - 1), NEW j \in 0..(c - 1),
         Off(c, h, i) = Off(c, h, j)
  PROVE  i = j
BY DEF Off

\* An entry is valid with a key and a value, or is the invalid one.
LEMMA SlotFacts ==
  ASSUME NEW s \in Slots
  PROVE  /\ s.valid = 1 => s.key \in Keys /\ s.value \in Values /\ s = Entry(s.key, s.value)
         /\ s.valid # 1 => s = Invalid
BY DEF Slots, Invalid, Entry

\* What is stored.
LEMMA EntryIs ==
  ASSUME NEW k \in Keys, NEW v \in Values
  PROVE  /\ Entry(k, v) \in Slots /\ Invalid \in Slots
         /\ Entry(k, v).valid = 1 /\ Entry(k, v).key = k /\ Entry(k, v).value = v
         /\ Invalid.valid # 1
BY DEF Slots, Invalid, Entry

\* Homes are positions.
LEMMA HomeFacts ==
  ASSUME NEW c, NEW d, Table(c, d), NEW i \in Occ(c, d)
  PROVE  i \in 0..(c - 1) /\ d[i] \in Slots /\ d[i].valid = 1 /\ d[i].key \in Keys
         /\ d[i].value \in Values /\ Home(c, d, i) \in 0..(c - 1)
<1>1. i \in 0..(c - 1) /\ d[i] \in Slots /\ d[i].valid = 1 /\ c \in Nat \ {0}
  BY DEF Table, Occ, Valid
<1>2. d[i].key \in Keys /\ d[i].value \in Values
  BY <1>1, SlotFacts
<1>3. Hash[d[i].key] \in Nat
  BY <1>2, HashAssumption
<1> QED
  BY <1>1, <1>2, <1>3, ModFacts DEF Home

\* The positions that are occupied are finitely many, and if they are fewer
\* than there are positions, one is free.
LEMMA OccFinite ==
  ASSUME NEW c, NEW d, Table(c, d)
  PROVE  /\ IsFiniteSet(Occ(c, d)) /\ Cardinality(Occ(c, d)) \in Nat
         /\ Cardinality(Occ(c, d)) < c => \E q \in 0..(c - 1) : q \notin Occ(c, d)
<1>1. c \in Nat \ {0} /\ Occ(c, d) \in SUBSET (0..(c - 1))
  BY DEF Table, Occ
<1>2. IsFiniteSet(0..(c - 1)) /\ Cardinality(0..(c - 1)) = c
  <2>1. 0 \in Int /\ c - 1 \in Int /\ ~(0 > c - 1) /\ (c - 1) - 0 + 1 = c
    BY <1>1
  <2> QED
    BY <2>1, FS_Interval
<1>3. IsFiniteSet(Occ(c, d))
  BY <1>1, <1>2, FS_Subset
<1>4. Cardinality(Occ(c, d)) \in Nat
  BY <1>3, FS_CardinalityType
<1>5. ASSUME Cardinality(Occ(c, d)) < c, \A q \in 0..(c - 1) : q \in Occ(c, d) PROVE FALSE
  <2>1. Occ(c, d) = 0..(c - 1)
    BY <1>1, <1>5
  <2> QED
    BY <1>1, <1>2, <1>5, <2>1
<1> QED
  BY <1>3, <1>4, <1>5

-----------------------------------------------------------------------------
(***************************************************************************)
(* Probing.                                                                *)
(***************************************************************************)

\* What the loops of hash_map_put, hash_map_get and hash_map_delete find.
ProbeEnds(c, d, key, pos) ==
  LET h == Hash[key] % c
  IN  /\ pos \in 0..(c - 1)
      /\ pos \in Occ(c, d) => d[pos].key = key
      /\ \A j \in 0..(c - 1) :
           Off(c, h, j) < Off(c, h, pos) => j \in Occ(c, d) /\ d[j].key # key

\* They come to an end in a table with a free entry.
LEMMA ProbeFacts ==
  ASSUME NEW m, NEW c, NEW d, c = m.capacity, d = m.data, Table(c, d),
         NEW key \in Keys, NEW q \in 0..(c - 1), q \notin Occ(c, d)
  PROVE  ProbeEnds(c, d, key, Probe(m, key))
<1>1. PICK h : h = Hash[key] % c
  OBVIOUS
<1>2. c \in Nat \ {0} /\ h \in 0..(c - 1)
  <2>1. c \in Nat \ {0} /\ Hash[key] \in Nat
    BY HashAssumption DEF Table
  <2> QED
    BY <1>1, <2>1, ModFacts
<1>3. \A i : ProbeAt(m, key, i) = (h + i) % c
  BY <1>1 DEF ProbeAt, HashPosition
<1>4. \A i : Stops(m, key, i) <=> ~Valid(d, (h + i) % c) \/ d[(h + i) % c].key = key
  BY <1>3 DEF Stops
<1> DEFINE First(i) == Stops(m, key, i) /\ \A j \in 0..(i - 1) : ~Stops(m, key, j)
<1>5. \E i \in 0..(c - 1) : First(i)
  <2>1. PICK S : S = {i \in 0..(c - 1) : Stops(m, key, i)}
    OBVIOUS
  <2>2. Off(c, h, q) \in S
    <3>1. Off(c, h, q) \in 0..(c - 1) /\ (h + Off(c, h, q)) % c = q
      BY <1>2, OffFacts
    <3>2. ~Valid(d, q)
      BY DEF Occ
    <3> QED
      BY <1>4, <2>1, <3>1, <3>2
  <2>3. S \subseteq Nat /\ S # {}
    BY <1>2, <2>1, <2>2
  <2>4. PICK i \in S : \A n \in S : i <= n
    BY <2>3, LeastNatural
  <2>5. ASSUME NEW j \in 0..(i - 1) PROVE ~Stops(m, key, j)
    <3>1. i \in 0..(c - 1)
      BY <2>1, <2>4
    <3>2. j \in 0..(c - 1) /\ ~(i <= j)
      BY <1>2, <3>1
    <3> QED
      BY <2>1, <2>4, <3>2
  <2> QED
    BY <2>1, <2>4, <2>5
<1>6. PICK i : i = CHOOSE n \in 0..(c - 1) : First(n)
  OBVIOUS
<1>7. i \in 0..(c - 1) /\ First(i)
  BY <1>5, <1>6
<1>8. PICK pos : pos = (h + i) % c
  OBVIOUS
<1>9. Probe(m, key) = pos
  <2>1. Probe(m, key) = ProbeAt(m, key, i)
    BY <1>6 DEF Probe
  <2> QED
    BY <1>3, <1>8, <2>1
<1>10. pos \in 0..(c - 1) /\ Off(c, h, pos) = i
  <2>1. c \in Nat \ {0} /\ h \in 0..(c - 1) /\ i \in 0..(c - 1)
    BY <1>2, <1>7
  <2>2. (h + i) % c \in 0..(c - 1) /\ Off(c, h, (h + i) % c) = i
    BY ONLY <2>1, OffFacts, Zenon
  <2> QED
    BY <1>8, <2>2
<1>11. pos \in Occ(c, d) => d[pos].key = key
  BY <1>4, <1>7, <1>8 DEF Occ
<1>12. ASSUME NEW j \in 0..(c - 1), Off(c, h, j) < Off(c, h, pos)
       PROVE  j \in Occ(c, d) /\ d[j].key # key
  <2>1. PICK n : n = Off(c, h, j)
    OBVIOUS
  <2>2. n \in 0..(c - 1) /\ (h + n) % c = j /\ n < i
    BY <1>2, <1>10, <1>12, <2>1, OffFacts
  <2>3. n \in 0..(i - 1)
    BY <1>2, <1>7, <2>2
  <2>4. ~Stops(m, key, n)
    BY <1>7, <2>3
  <2> QED
    BY <1>4, <2>2, <2>4 DEF Occ
<1> QED
  BY <1>1, <1>9, <1>10, <1>11, <1>12 DEF ProbeEnds

\* If the key is in the table, that is where the probe stops.
LEMMA ProbeFinds ==
  ASSUME NEW c, NEW d, Good(c, d), NEW key \in Keys, NEW pos, ProbeEnds(c, d, key, pos),
         NEW i \in Occ(c, d), d[i].key = key
  PROVE  i = pos
<1>1. PICK h : h = Hash[key] % c
  OBVIOUS
<1>2. c \in Nat \ {0} /\ Table(c, d) /\ Clear(c, d)
  BY DEF Good, Table
<1>3. i \in 0..(c - 1) /\ h \in 0..(c - 1) /\ Home(c, d, i) = h
  BY <1>1, <1>2, HomeFacts DEF Home
<1>4. pos \in 0..(c - 1)
  BY DEF ProbeEnds
<1>5. Off(c, h, i) \in 0..(c - 1) /\ Off(c, h, pos) \in 0..(c - 1)
  BY <1>2, <1>3, <1>4, OffFacts
<1>6. ~(Off(c, h, i) < Off(c, h, pos))
  BY <1>1, <1>3 DEF ProbeEnds
<1>7. CASE Off(c, h, pos) < Off(c, h, i)
  <2>1. Off(c, h, pos) <= Off(c, h, i)
    BY <1>5, <1>7
  <2>2. pos \in Occ(c, d)
    BY <1>2, <1>3, <1>4, <2>1 DEF Clear
  <2>3. d[pos].key = d[i].key
    BY <2>2 DEF ProbeEnds
  <2> QED
    BY <2>2, <2>3 DEF Good, Unique
<1>8. CASE Off(c, h, pos) = Off(c, h, i)
  BY <1>2, <1>3, <1>4, <1>8, OffDistinct
<1>9. Off(c, h, pos) < Off(c, h, i) \/ Off(c, h, pos) = Off(c, h, i)
  BY <1>2, <1>5, <1>6
<1> QED
  BY <1>7, <1>8, <1>9

-----------------------------------------------------------------------------
(***************************************************************************)
(* hash_map_put without its growth.                                        *)
(***************************************************************************)

Stored(d, pos, key, value) == [d EXCEPT ![pos] = Entry(key, value)]

\* Storing an entry where the probe for its key stops.
LEMMA StoreSound ==
  ASSUME NEW c, NEW d, Good(c, d), NEW key \in Keys, NEW value \in Values,
         NEW pos, ProbeEnds(c, d, key, pos),
         NEW e, e = Stored(d, pos, key, value)
  PROVE  /\ Good(c, e)
         /\ Occ(c, e) = Occ(c, d) \cup {pos}
         /\ Pairs(c, e) = With(Pairs(c, d), key, value)
<1>1. PICK h : h = Hash[key] % c
  OBVIOUS
<1>2. c \in Nat \ {0} /\ Table(c, d) /\ Unique(c, d) /\ Clear(c, d) /\ pos \in 0..(c - 1)
  BY DEF Good, Table, ProbeEnds
<1>3. /\ e \in [0..(c - 1) -> Slots] /\ e[pos] = Entry(key, value)
      /\ \A i \in 0..(c - 1) \ {pos} : e[i] = d[i]
  BY <1>2, EntryIs DEF Table, Stored
<1>4. e[pos].valid = 1 /\ e[pos].key = key /\ e[pos].value = value
  BY <1>3, EntryIs
<1>5. Occ(c, e) = Occ(c, d) \cup {pos}
  BY <1>2, <1>3, <1>4 DEF Occ, Valid
<1>6. Table(c, e)
  BY <1>2, <1>3 DEF Table
<1>7. ASSUME NEW i \in Occ(c, d), i # pos PROVE d[i].key # key
  BY <1>7, ProbeFinds
<1>8. \A i \in Occ(c, d) \ {pos} : e[i] = d[i] /\ i \in 0..(c - 1) /\ Home(c, e, i) = Home(c, d, i)
  BY <1>3 DEF Occ, Home
<1>9. Unique(c, e)
  <2> SUFFICES ASSUME NEW i \in Occ(c, e), NEW j \in Occ(c, e), e[i].key = e[j].key, i # j
               PROVE  FALSE
    BY DEF Unique
  <2>1. CASE i # pos /\ j # pos
    BY <1>2, <1>5, <1>8, <2>1 DEF Unique
  <2>2. CASE i = pos
    BY <1>4, <1>5, <1>7, <1>8, <2>2
  <2>3. CASE j = pos
    BY <1>4, <1>5, <1>7, <1>8, <2>3
  <2> QED
    BY <2>1, <2>2, <2>3
<1>10. Clear(c, e)
  <2> SUFFICES ASSUME NEW i \in Occ(c, e), NEW j \in 0..(c - 1),
                      Off(c, Home(c, e, i), j) <= Off(c, Home(c, e, i), i)
               PROVE  j \in Occ(c, d) \/ j = pos
    BY <1>5 DEF Clear
  <2>1. CASE i # pos
    BY <1>2, <1>5, <1>8, <2>1 DEF Clear
  <2>2. CASE i = pos
    <3>1. Home(c, e, i) = h /\ h \in 0..(c - 1)
      <4>1. Hash[key] \in Nat
        BY HashAssumption
      <4> QED
        BY <1>1, <1>2, <1>4, <2>2, <4>1, ModFacts DEF Home
    <3>2. Off(c, h, j) \in 0..(c - 1) /\ Off(c, h, pos) \in 0..(c - 1)
      BY <1>2, <3>1, OffFacts
    <3>3. Off(c, h, j) < Off(c, h, pos) \/ Off(c, h, j) = Off(c, h, pos)
      BY <1>2, <2>2, <3>1, <3>2
    <3>4. CASE Off(c, h, j) < Off(c, h, pos)
      BY <1>1, <3>4 DEF ProbeEnds
    <3>5. CASE Off(c, h, j) = Off(c, h, pos)
      BY <1>2, <3>1, <3>5, OffDistinct
    <3> QED
      BY <3>3, <3>4, <3>5
  <2> QED
    BY <2>1, <2>2
<1>11. Pairs(c, e) = With(Pairs(c, d), key, value)
  <2>1. ASSUME NEW p \in Pairs(c, e) PROVE (p \in Pairs(c, d) /\ p[1] # key) \/ p = <<key, value>>
    <3>1. PICK i \in Occ(c, e) : p = <<e[i].key, e[i].value>>
      BY DEF Pairs
    <3>2. CASE i = pos
      BY <1>4, <3>1, <3>2
    <3>3. CASE i # pos
      <4>1. i \in Occ(c, d) /\ e[i] = d[i] /\ d[i].key # key
        BY <1>5, <1>7, <1>8, <3>3
      <4> QED
        BY <3>1, <4>1 DEF Pairs
    <3> QED
      BY <3>2, <3>3
  <2>2. ASSUME NEW p \in Pairs(c, d), p[1] # key PROVE p \in Pairs(c, e)
    <3>1. PICK i \in Occ(c, d) : p = <<d[i].key, d[i].value>>
      BY DEF Pairs
    <3>2. d[i].key # key
      BY <2>2, <3>1
    <3>3. i # pos
      BY <3>2 DEF ProbeEnds
    <3>4. i \in Occ(c, e) /\ e[i] = d[i]
      BY <1>5, <1>8, <3>3
    <3> QED
      BY <3>1, <3>4 DEF Pairs
  <2>3. <<key, value>> \in Pairs(c, e)
    BY <1>4, <1>5 DEF Pairs
  <2> QED
    BY <2>1, <2>2, <2>3 DEF With, Without
<1> QED
  BY <1>5, <1>6, <1>9, <1>10, <1>11 DEF Good

\* One more entry, or the same number.
LEMMA PlacedSound ==
  ASSUME NEW m, Sound(m), m.num_elements < m.capacity, NEW key \in Keys, NEW value \in Values
  PROVE  /\ Sound(Placed(m, key, value))
         /\ Placed(m, key, value).capacity = m.capacity
         /\ Placed(m, key, value).num_elements \in {m.num_elements, m.num_elements + 1}
         /\ Pairs(m.capacity, Placed(m, key, value).data)
              = With(Pairs(m.capacity, m.data), key, value)
<1>1. PICK c, d, n, pos : c = m.capacity /\ d = m.data /\ n = m.num_elements /\ pos = Probe(m, key)
  OBVIOUS
<1>2. m \in Maps(c) /\ Good(c, d) /\ Table(c, d) /\ n = Cardinality(Occ(c, d)) /\ n \in Nat /\ n < c
  BY <1>1 DEF Sound, Good, Counted, Maps
<1>3. PICK q \in 0..(c - 1) : q \notin Occ(c, d)
  BY <1>2, OccFinite
<1>4. ProbeEnds(c, d, key, pos)
  BY <1>1, <1>2, <1>3, ProbeFacts
<1>5. PICK e : e = Stored(d, pos, key, value)
  OBVIOUS
<1>6. /\ Good(c, e)
      /\ Occ(c, e) = Occ(c, d) \cup {pos}
      /\ Pairs(c, e) = With(Pairs(c, d), key, value)
  BY <1>2, <1>4, <1>5, StoreSound
<1>7. PICK k : k = IF Valid(d, pos) THEN n ELSE n + 1
  OBVIOUS
<1>8. Placed(m, key, value) = [m EXCEPT !.data = e, !.num_elements = k]
  BY <1>1, <1>2, <1>5, <1>7 DEF Placed, Maps, Stored
<1>9. PICK w : w = Placed(m, key, value)
  OBVIOUS
<1>10. k \in Nat /\ k \in {n, n + 1}
  BY <1>2, <1>7
<1>11. w \in Maps(c) /\ w.capacity = c /\ w.data = e /\ w.num_elements = k
  BY <1>2, <1>6, <1>8, <1>9, <1>10 DEF Maps, Good, Table
<1>12. Cardinality(Occ(c, e)) = k
  <2>1. IsFiniteSet(Occ(c, d))
    BY <1>2, OccFinite
  <2>2. PICK S : S = Occ(c, d)
    OBVIOUS
  <2>3. Cardinality(S \cup {pos}) = IF pos \in S THEN Cardinality(S) ELSE Cardinality(S) + 1
    BY <2>1, <2>2, FS_AddElement
  <2>4. pos \in S <=> Valid(d, pos)
    BY <1>4, <2>2 DEF Occ, ProbeEnds
  <2> QED
    BY <1>2, <1>6, <1>7, <2>2, <2>3, <2>4
<1>13. Sound(w)
  BY <1>6, <1>11, <1>12 DEF Sound, Counted
<1> QED
  BY <1>1, <1>6, <1>9, <1>10, <1>11, <1>13

-----------------------------------------------------------------------------
(***************************************************************************)
(* hash_map_create and hash_map_grow.                                      *)
(***************************************************************************)

\* A new table.
LEMMA EmptySound ==
  ASSUME NEW k \in Nat
  PROVE  /\ Sound(Empty(k)) /\ Empty(k).num_elements = 0
         /\ Empty(k).capacity = IF k > 0 THEN k ELSE 1
         /\ Pairs(Empty(k).capacity, Empty(k).data) = {}
<1>1. PICK c, d : c = (IF k > 0 THEN k ELSE 1) /\ d = [i \in 0..(c - 1) |-> Invalid]
  OBVIOUS
<1>2. PICK m : m = Empty(k)
  OBVIOUS
<1>3. m = [capacity |-> c, num_elements |-> 0, data |-> d] /\ c \in Nat \ {0}
  BY <1>1, <1>2 DEF Empty
<1>4. d \in [0..(c - 1) -> Slots] /\ Occ(c, d) = {}
  BY <1>1, <1>3 DEF Slots, Occ, Valid, Invalid
<1>5. Good(c, d) /\ Pairs(c, d) = {}
  BY <1>3, <1>4 DEF Good, Table, Unique, Clear, Pairs
<1>6. m \in Maps(c) /\ m.capacity = c /\ m.data = d /\ m.num_elements = 0
  BY <1>3, <1>4 DEF Maps
<1>7. Counted(m)
  BY <1>4, <1>6, FS_EmptySet DEF Counted
<1> QED
  BY <1>1, <1>2, <1>5, <1>6, <1>7 DEF Sound

\* Whatever the probe finds, a table of the same size comes out.
LEMMA PlacedType ==
  ASSUME NEW c, NEW m \in Maps(c), NEW key \in Keys, NEW value \in Values
  PROVE  Placed(m, key, value) \in Maps(c)
<1>1. PICK pos : pos = Probe(m, key)
  OBVIOUS
<1>2. PICK d : d = Stored(m.data, pos, key, value)
  OBVIOUS
<1>3. PICK n : n = IF Valid(m.data, pos) THEN m.num_elements ELSE m.num_elements + 1
  OBVIOUS
<1>4. Placed(m, key, value) = [m EXCEPT !.data = d, !.num_elements = n]
  BY <1>1, <1>2, <1>3 DEF Placed, Stored, Maps
<1>5. d \in [0..(c - 1) -> Slots] /\ n \in Nat
  <2>1. m.data \in [0..(c - 1) -> Slots] /\ m.num_elements \in Nat /\ Entry(key, value) \in Slots
    BY EntryIs DEF Maps
  <2>2. n \in Nat
    BY ONLY <1>3, <2>1
  <2>3. PICK f, s : f = m.data /\ s = Entry(key, value)
    OBVIOUS
  <2>4. d = [f EXCEPT ![pos] = s] /\ f \in [0..(c - 1) -> Slots] /\ s \in Slots
    BY ONLY <1>2, <2>1, <2>3 DEF Stored
  <2>5. d \in [0..(c - 1) -> Slots]
    BY ONLY <2>4
  <2> QED
    BY <2>2, <2>5
<1> QED
  BY <1>4, <1>5 DEF Maps

\* What the first n entries hold.
PairsBelow(c, d, n) == {<<d[i].key, d[i].value>> : i \in {i \in Occ(c, d) : i < n}}

\* After n rounds.
CopiedSoFar(m, n, x) ==
  /\ Sound(x) /\ x.capacity = 2 * m.capacity
  /\ x.num_elements <= n
  /\ Pairs(x.capacity, x.data) = PairsBelow(m.capacity, m.data, n)

\* A round of the growth.
LEMMA CopiedSound ==
  ASSUME NEW m, Sound(m), NEW n \in 0..(m.capacity - 1), NEW x, CopiedSoFar(m, n, x)
  PROVE  CopiedSoFar(m, n + 1, Copied(m, n, x))
<1>1. PICK c, d : c = m.capacity /\ d = m.data
  OBVIOUS
<1>2. c \in Nat \ {0} /\ Table(c, d) /\ Unique(c, d) /\ n \in 0..(c - 1)
  BY <1>1 DEF Sound, Good, Table
<1>3. Sound(x) /\ x.capacity = 2 * c /\ x.num_elements <= n /\ x.num_elements \in Nat
      /\ Pairs(2 * c, x.data) = PairsBelow(c, d, n)
  BY <1>1 DEF CopiedSoFar, Sound, Maps
<1>4. CASE ~Valid(d, n)
  <2>1. Copied(m, n, x) = x
    BY <1>1, <1>4 DEF Copied
  <2>2. {i \in Occ(c, d) : i < n} = {i \in Occ(c, d) : i < n + 1}
    BY <1>2, <1>4 DEF Occ
  <2>3. PairsBelow(c, d, n) = PairsBelow(c, d, n + 1)
    BY <2>2 DEF PairsBelow
  <2>4. x.num_elements <= n + 1
    BY <1>2, <1>3
  <2> QED
    BY <1>1, <1>3, <2>1, <2>3, <2>4 DEF CopiedSoFar
<1>5. CASE Valid(d, n)
  <2>1. PICK key, value : key = d[n].key /\ value = d[n].value
    OBVIOUS
  <2>2. n \in Occ(c, d)
    BY <1>2, <1>5 DEF Occ
  <2>3. key \in Keys /\ value \in Values
    BY <1>2, <2>1, <2>2, HomeFacts
  <2>4. PICK w : w = Placed(x, key, value)
    OBVIOUS
  <2>5. Copied(m, n, x) = w
    BY <1>1, <1>5, <2>1, <2>4 DEF Copied
  <2>6. x.num_elements < x.capacity
    BY <1>2, <1>3
  <2>7. /\ Sound(w) /\ w.capacity = 2 * c
        /\ w.num_elements \in {x.num_elements, x.num_elements + 1}
        /\ Pairs(2 * c, w.data) = With(PairsBelow(c, d, n), key, value)
    <3>1. /\ Sound(w) /\ w.capacity = x.capacity
          /\ w.num_elements \in {x.num_elements, x.num_elements + 1}
          /\ Pairs(x.capacity, w.data) = With(Pairs(x.capacity, x.data), key, value)
      BY <1>3, <2>3, <2>4, <2>6, PlacedSound
    <3> QED
      BY <1>3, <3>1
  <2>8. w.num_elements <= n + 1
    BY <1>2, <1>3, <2>7
  <2>9. With(PairsBelow(c, d, n), key, value) = PairsBelow(c, d, n + 1)
    <3>1. \A i \in Occ(c, d) : i < n => d[i].key # key
      BY <1>2, <2>1, <2>2 DEF Unique
    <3>2. {i \in Occ(c, d) : i < n + 1} = {i \in Occ(c, d) : i < n} \cup {n}
      BY <1>2, <2>2 DEF Occ
    <3>3. Without(PairsBelow(c, d, n), key) = PairsBelow(c, d, n)
      BY <3>1 DEF Without, PairsBelow
    <3>4. PairsBelow(c, d, n + 1) = PairsBelow(c, d, n) \cup {<<key, value>>}
      BY <2>1, <3>2 DEF PairsBelow
    <3> QED
      BY <3>3, <3>4 DEF With
  <2> QED
    BY <1>1, <2>5, <2>7, <2>8, <2>9 DEF CopiedSoFar
<1> QED
  BY <1>4, <1>5

\* hash_map_grow keeps what the map holds; the new table is at most half full,
\* and was so after every round: no put of the growth makes it grow in turn.
LEMMA GrownSound ==
  ASSUME NEW m, Sound(m)
  PROVE  /\ Sound(Grown(m)) /\ Grown(m).capacity = 2 * m.capacity
         /\ 2 * Grown(m).num_elements <= Grown(m).capacity
         /\ Pairs(Grown(m).capacity, Grown(m).data) = Pairs(m.capacity, m.data)
<1>1. PICK c, d : c = m.capacity /\ d = m.data
  OBVIOUS
<1>2. c \in Nat \ {0} /\ 2 * c \in Nat \ {0} /\ Table(c, d)
  BY <1>1 DEF Sound, Good, Table
<1> DEFINE base == Empty(2 * c)
           D == Maps(2 * c)
           E(f) == [n \in 0..c |-> IF n = 0 THEN base ELSE Copied(m, n - 1, f[n - 1])]
<1>3. CopiedSoFar(m, 0, base) /\ base \in D
  <2>1. /\ Sound(base) /\ base.num_elements = 0
        /\ base.capacity = 2 * c /\ Pairs(base.capacity, base.data) = {}
    BY <1>2, EmptySound
  <2>2. PairsBelow(c, d, 0) = {}
    BY <1>2 DEF PairsBelow, Occ
  <2> QED
    BY <1>1, <2>1, <2>2 DEF CopiedSoFar, Sound
<1> HIDE DEF base
<1>4. \E g : g = E(g)
  <2>1. ASSUME NEW n \in 1..c, NEW x \in D PROVE Copied(m, n - 1, x) \in D
    <3>1. CASE Valid(d, n - 1)
      <4>1. n - 1 \in Occ(c, d)
        BY <1>2, <3>1 DEF Occ
      <4>2. d[n - 1].key \in Keys /\ d[n - 1].value \in Values
        BY <1>2, <4>1, HomeFacts
      <4> QED
        BY <1>1, <3>1, <4>2, PlacedType DEF Copied
    <3>2. CASE ~Valid(d, n - 1)
      BY <1>1, <3>2 DEF Copied
    <3> QED
      BY <3>1, <3>2
  <2> HIDE DEF D
  <2>2. PICK step : step = [x \in (1..c) \X D |-> Copied(m, x[1] - 1, x[2])]
    OBVIOUS
  <2>3. step \in [(1..c) \X D -> D]
    BY <2>1, <2>2
  <2>4. c \in Nat
    BY <1>2
  <2>a. PICK g : Rounds(g, c, D, base, step)
    BY <1>3, <2>3, <2>4, LoopExists
  <2>5. g \in [0..c -> D] /\ g[0] = base /\ \A n \in 1..c : g[n] = step[<<n, g[n - 1]>>]
    BY <2>a DEF Rounds
  <2>6. ASSUME NEW n \in 1..c PROVE g[n] = Copied(m, n - 1, g[n - 1])
    <3>1. n - 1 \in 0..c
      BY <2>4
    <3>2. <<n, g[n - 1]>> \in (1..c) \X D
      BY <2>5, <3>1
    <3> QED
      BY <2>2, <2>5, <3>2
  <2>7. g = E(g)
    <3>1. ASSUME NEW n \in 0..c PROVE g[n] = IF n = 0 THEN base ELSE Copied(m, n - 1, g[n - 1])
      <4>1. n = 0 \/ n \in 1..c
        BY <2>4
      <4> QED
        BY <2>5, <2>6, <4>1
    <3> QED
      BY <2>5, <3>1
  <2> QED
    BY <2>7
<1>5. PICK w : w = CHOOSE g : g = E(g)
  OBVIOUS
<1>6. w = E(w)
  <2> HIDE DEF E
  <2> QED
    BY <1>4, <1>5
<1>7. Grown(m) = w[c]
  BY <1>1, <1>5 DEF Grown, base
<1>8. \A n \in 0..c : w[n] = IF n = 0 THEN base ELSE Copied(m, n - 1, w[n - 1])
  BY <1>6
<1> HIDE DEF E, D
<1> DEFINE S == {n \in Nat : n <= c => CopiedSoFar(m, n, w[n])}
<1>9. 0 \in S
  BY <1>2, <1>3, <1>8
<1>10. ASSUME NEW n \in Nat, n \in S PROVE n + 1 \in S
  <2> SUFFICES ASSUME n + 1 <= c PROVE CopiedSoFar(m, n + 1, w[n + 1])
    OBVIOUS
  <2>1. n + 1 \in 0..c /\ n + 1 # 0 /\ (n + 1) - 1 = n /\ n <= c /\ n \in 0..(c - 1)
    BY <1>2
  <2>2. w[n + 1] = Copied(m, n, w[n]) /\ CopiedSoFar(m, n, w[n])
    BY <1>8, <1>10, <2>1
  <2> QED
    BY <1>1, <2>1, <2>2, CopiedSound
<1>11. \A n \in Nat : n \in S
  <2> HIDE DEF S
  <2> QED
    BY <1>9, <1>10, SetInduction
<1>12. CopiedSoFar(m, c, w[c])
  BY <1>2, <1>11
<1>13. PairsBelow(c, d, c) = Pairs(c, d)
  <2>1. {i \in Occ(c, d) : i < c} = Occ(c, d)
    BY <1>2 DEF Occ
  <2> QED
    BY <2>1 DEF PairsBelow, Pairs
<1>14. PICK y : y = w[c]
  OBVIOUS
<1>15. y.num_elements \in Nat /\ y.num_elements <= c /\ y.capacity = 2 * c
  BY <1>1, <1>12, <1>14 DEF CopiedSoFar, Sound, Maps
<1>16. 2 * y.num_elements <= y.capacity
  BY <1>2, <1>15
<1> QED
  BY <1>1, <1>7, <1>12, <1>13, <1>14, <1>16 DEF CopiedSoFar

-----------------------------------------------------------------------------
(***************************************************************************)
(* hash_map_delete and adjust_gap.                                         *)
(*                                                                         *)
(* A free entry q that is not the gap cuts the table open: counted from    *)
(* the position after q on, no way from a hash position to its entry wraps *)
(* around.                                                                 *)
(***************************************************************************)

\* The position x counted from the one after q.
Rot(c, q, x) == IF x > q THEN x - q - 1 ELSE x - q - 1 + c

\* The count is one of c numbers, q's is the last.
LEMMA RotRange ==
  ASSUME NEW c \in Nat \ {0}, NEW q \in 0..(c - 1)
  PROVE  /\ \A x \in 0..(c - 1) : Rot(c, q, x) \in 0..(c - 1)
         /\ \A x, y \in 0..(c - 1) : Rot(c, q, x) = Rot(c, q, y) => x = y
         /\ Rot(c, q, q) = c - 1
BY DEF Rot

\* What a probe from h passes on its way to i, if it does not pass q.
LEMMA RotWay ==
  ASSUME NEW c \in Nat \ {0}, NEW q \in 0..(c - 1), NEW h \in 0..(c - 1), NEW i \in 0..(c - 1)
  PROVE  /\ ~(Off(c, h, q) <= Off(c, h, i)) => Rot(c, q, h) <= Rot(c, q, i)
         /\ Rot(c, q, h) <= Rot(c, q, i) =>
              \A j \in 0..(c - 1) :
                Off(c, h, j) <= Off(c, h, i) <=>
                  Rot(c, q, h) <= Rot(c, q, j) /\ Rot(c, q, j) <= Rot(c, q, i)
<1>1. ~(Off(c, h, q) <= Off(c, h, i)) => Rot(c, q, h) <= Rot(c, q, i)
  BY DEF Off, Rot
<1>2. ASSUME Rot(c, q, h) <= Rot(c, q, i), NEW j \in 0..(c - 1)
      PROVE  Off(c, h, j) <= Off(c, h, i) <=>
               Rot(c, q, h) <= Rot(c, q, j) /\ Rot(c, q, j) <= Rot(c, q, i)
  BY <1>2 DEF Off, Rot
<1> QED
  BY <1>1, <1>2

\* The n-th position after first.
LEMMA RotStep ==
  ASSUME NEW c \in Nat \ {0}, NEW q \in 0..(c - 1), NEW first \in 0..(c - 1), NEW n \in Nat,
         Rot(c, q, first) + n <= c - 1
  PROVE  (first + n) % c \in 0..(c - 1) /\ Rot(c, q, (first + n) % c) = Rot(c, q, first) + n
<1>1. PICK x : x = first + n
  OBVIOUS
<1>2. x \in Nat /\ x < 2 * c /\ (x < c \/ c <= x)
  BY <1>1 DEF Rot
<1>3. (x < c => x % c = x) /\ (c <= x /\ x < 2 * c => x % c = x - c)
  BY <1>2, ModFacts, Zenon
<1>4. PICK y : y = x % c
  OBVIOUS
<1>5. (x < c /\ y = x) \/ (c <= x /\ y = x - c)
  BY <1>2, <1>3, <1>4
<1>6. y \in 0..(c - 1) /\ Rot(c, q, y) = Rot(c, q, first) + n
  <2>1. y \in 0..(c - 1)
    BY <1>2, <1>5
  <2>2. CASE x < c
    <3>1. y = first + n /\ first + n < c
      BY <1>1, <1>2, <1>5, <2>2
    <3> QED
      BY <2>1, <3>1 DEF Rot
  <2>3. CASE c <= x
    <3>1. y = first + n - c /\ first + n >= c
      BY <1>1, <1>2, <1>5, <2>3
    <3> QED
      BY <2>1, <3>1 DEF Rot
  <2> QED
    BY <1>2, <2>2, <2>3
<1> QED
  BY <1>1, <1>4, <1>6

\* What adjust_gap keeps: pairs P, k of them.
Holds(c, d, P, k) ==
  /\ Table(c, d) /\ Unique(c, d)
  /\ Pairs(c, d) = P /\ Cardinality(Occ(c, d)) = k

\* The entry at i can be reached but for the gap, and without passing q.
Way(c, q, d, g, i) ==
  /\ Rot(c, q, Home(c, d, i)) <= Rot(c, q, i)
  /\ \A j \in 0..(c - 1) :
       Rot(c, q, Home(c, d, i)) <= Rot(c, q, j) /\ Rot(c, q, j) <= Rot(c, q, i)
         => j \in Occ(c, d) \/ j = g

\* The gap is on the way to the entry at i.
Over(c, q, d, g, i) ==
  Rot(c, q, Home(c, d, i)) <= Rot(c, q, g) /\ Rot(c, q, g) <= Rot(c, q, i)

\* After n rounds of adjust_gap that have not ended it: the last position it
\* has looked at is at l; up to there all are valid but the gap, and nothing
\* is reached over the gap any more.
Scan(c, q, s, l, d, g) ==
  /\ q \in 0..(c - 1) /\ q \notin Occ(c, d) /\ g # q
  /\ g \in 0..(c - 1) /\ g \notin Occ(c, d)
  /\ s \in Nat /\ l \in Nat /\ l <= c - 1
  /\ s <= Rot(c, q, g) /\ Rot(c, q, g) <= l
  /\ \A j \in 0..(c - 1) : s <= Rot(c, q, j) /\ Rot(c, q, j) <= l /\ j # g => j \in Occ(c, d)
  /\ \A i \in Occ(c, d) : Way(c, q, d, g, i)
  /\ \A i \in Occ(c, d) : Rot(c, q, i) <= l => ~Over(c, q, d, g, i)

\* When nothing is reached over the gap, everything can be reached.
LEMMA NoGapLeft ==
  ASSUME NEW c, NEW q \in 0..(c - 1), NEW d, NEW g, Table(c, d), Unique(c, d),
         g \in 0..(c - 1),
         \A i \in Occ(c, d) : Way(c, q, d, g, i) /\ ~Over(c, q, d, g, i)
  PROVE  Good(c, d)
<1>1. c \in Nat \ {0}
  BY DEF Table
<1> SUFFICES ASSUME NEW i \in Occ(c, d), NEW j \in 0..(c - 1),
                    Off(c, Home(c, d, i), j) <= Off(c, Home(c, d, i), i)
             PROVE  j \in Occ(c, d)
  BY DEF Good, Clear
<1>2. PICK h : h = Home(c, d, i)
  OBVIOUS
<1>3. h \in 0..(c - 1) /\ i \in 0..(c - 1)
  BY <1>2, HomeFacts
<1>4. Rot(c, q, h) <= Rot(c, q, i)
  BY <1>2 DEF Way
<1>5. Rot(c, q, h) <= Rot(c, q, j) /\ Rot(c, q, j) <= Rot(c, q, i)
  BY <1>1, <1>2, <1>3, <1>4, RotWay
<1>6. j \in Occ(c, d) \/ j = g
  BY <1>2, <1>5 DEF Way
<1>7. j # g
  BY <1>2, <1>5 DEF Over
<1> QED
  BY <1>6, <1>7

\* The entry of key is taken out: its place is the gap.
LEMMA ScanStarts ==
  ASSUME NEW c, NEW d, Good(c, d), NEW first \in Occ(c, d), NEW q \in 0..(c - 1), q \notin Occ(c, d),
         NEW e, e = [d EXCEPT ![first] = Invalid]
  PROVE  /\ Holds(c, e, Without(Pairs(c, d), d[first].key), Cardinality(Occ(c, d)) - 1)
         /\ Scan(c, q, Rot(c, q, first), Rot(c, q, first), e, first)
<1>1. c \in Nat \ {0} /\ Table(c, d) /\ Unique(c, d) /\ Clear(c, d) /\ first \in 0..(c - 1) /\ first # q
  BY DEF Good, Table, Occ
<1>2. /\ e \in [0..(c - 1) -> Slots] /\ e[first] = Invalid
      /\ \A i \in 0..(c - 1) \ {first} : e[i] = d[i]
  <2>1. Invalid \in Slots
    BY DEF Slots
  <2> QED
    BY <1>1, <2>1 DEF Table
<1>3. Occ(c, e) = Occ(c, d) \ {first}
  BY <1>1, <1>2 DEF Occ, Valid, Invalid
<1>4. Table(c, e)
  BY <1>1, <1>2 DEF Table
<1>5. \A i \in Occ(c, e) : i \in Occ(c, d) /\ i # first /\ e[i] = d[i] /\ Home(c, e, i) = Home(c, d, i)
  BY <1>2, <1>3 DEF Occ, Home
<1>6. Unique(c, e)
  BY <1>1, <1>5 DEF Unique
<1>7. Pairs(c, e) = Without(Pairs(c, d), d[first].key)
  <2>1. \A i \in Occ(c, d) : i # first <=> d[i].key # d[first].key
    BY <1>1 DEF Unique
  <2>2. ASSUME NEW p \in Pairs(c, e) PROVE p \in Pairs(c, d) /\ p[1] # d[first].key
    <3>1. PICK i \in Occ(c, e) : p = <<e[i].key, e[i].value>>
      BY DEF Pairs
    <3>2. i \in Occ(c, d) /\ i # first /\ e[i] = d[i]
      BY <1>5
    <3> QED
      BY <2>1, <3>1, <3>2 DEF Pairs
  <2>3. ASSUME NEW p \in Pairs(c, d), p[1] # d[first].key PROVE p \in Pairs(c, e)
    <3>1. PICK i \in Occ(c, d) : p = <<d[i].key, d[i].value>>
      BY DEF Pairs
    <3>2. i \in Occ(c, e) /\ e[i] = d[i]
      BY <1>3, <1>5, <2>3, <3>1
    <3> QED
      BY <3>1, <3>2 DEF Pairs
  <2> QED
    BY <2>2, <2>3 DEF Without
<1>8. Cardinality(Occ(c, e)) = Cardinality(Occ(c, d)) - 1
  <2>1. IsFiniteSet(Occ(c, d))
    BY <1>1, OccFinite
  <2> QED
    BY <1>3, <2>1, FS_RemoveElement
<1>9. Rot(c, q, first) \in 0..(c - 1)
  BY <1>1, RotRange
<1>10. ASSUME NEW j \in 0..(c - 1), Rot(c, q, first) <= Rot(c, q, j), Rot(c, q, j) <= Rot(c, q, first), j # first
       PROVE  FALSE
  <2>1. Rot(c, q, j) \in 0..(c - 1)
    BY <1>1, RotRange
  <2>2. Rot(c, q, j) = Rot(c, q, first)
    BY <1>9, <1>10, <2>1
  <2> QED
    BY <1>1, <1>10, <2>2, RotRange
<1>11. ASSUME NEW i \in Occ(c, e) PROVE Way(c, q, e, first, i)
  <2>1. PICK h : h = Home(c, d, i)
    OBVIOUS
  <2>2. i \in Occ(c, d) /\ i \in 0..(c - 1) /\ h \in 0..(c - 1) /\ Home(c, e, i) = h
    BY <1>1, <1>5, <2>1, HomeFacts
  <2>3. ~(Off(c, h, q) <= Off(c, h, i))
    BY <1>1, <2>1, <2>2 DEF Clear
  <2>4. Rot(c, q, h) <= Rot(c, q, i)
    BY <1>1, <2>2, <2>3, RotWay
  <2>5. ASSUME NEW j \in 0..(c - 1), Rot(c, q, h) <= Rot(c, q, j), Rot(c, q, j) <= Rot(c, q, i)
        PROVE  j \in Occ(c, e) \/ j = first
    <3>1. Off(c, h, j) <= Off(c, h, i)
      BY <1>1, <2>2, <2>4, <2>5, RotWay
    <3>2. j \in Occ(c, d)
      BY <1>1, <2>1, <2>2, <3>1 DEF Clear
    <3> QED
      BY <1>3, <3>2
  <2> QED
    BY <2>2, <2>4, <2>5 DEF Way
<1>12. ASSUME NEW i \in Occ(c, e), Rot(c, q, i) <= Rot(c, q, first) PROVE ~Over(c, q, e, first, i)
  <2>1. i \in 0..(c - 1) /\ i # first
    BY <1>5 DEF Occ
  <2> QED
    BY <1>10, <1>12, <2>1 DEF Over
<1>13. Scan(c, q, Rot(c, q, first), Rot(c, q, first), e, first)
  <2>1. Rot(c, q, first) \in Nat /\ Rot(c, q, first) <= c - 1 /\ Rot(c, q, first) <= Rot(c, q, first)
    BY <1>1, <1>9
  <2>2. q \notin Occ(c, e) /\ first \notin Occ(c, e)
    BY <1>3
  <2> QED
    BY <1>1, <1>10, <1>11, <1>12, <2>1, <2>2 DEF Scan
<1> QED
  BY <1>4, <1>6, <1>7, <1>8, <1>13 DEF Holds

\* The next round: it ends the loop, or the entry at pos stays, or it fills the
\* gap.
LEMMA RoundEnds ==
  ASSUME NEW c, NEW q, NEW s, NEW l, NEW d, NEW g, Table(c, d), Unique(c, d), Scan(c, q, s, l, d, g),
         NEW pos \in 0..(c - 1), Rot(c, q, pos) = l + 1, pos \notin Occ(c, d)
  PROVE  Good(c, d)
<1>1. c \in Nat \ {0} /\ q \in 0..(c - 1) /\ g \in 0..(c - 1) /\ l \in Nat /\ Rot(c, q, g) <= l
  BY DEF Scan, Table
<1>2. Rot(c, q, g) \in 0..(c - 1)
  BY <1>1, RotRange
<1>3. pos # g
  BY <1>1, <1>2
<1>4. ASSUME NEW i \in Occ(c, d), Over(c, q, d, g, i) PROVE FALSE
  <2>1. i \in 0..(c - 1) /\ Home(c, d, i) \in 0..(c - 1)
    BY HomeFacts
  <2>2. PICK ri, rh, rg : ri = Rot(c, q, i) /\ rh = Rot(c, q, Home(c, d, i)) /\ rg = Rot(c, q, g)
    OBVIOUS
  <2>3. ri \in Nat /\ rh \in Nat /\ rg \in Nat /\ rg <= l /\ rh <= rg
    BY <1>1, <1>2, <1>4, <2>1, <2>2, RotRange DEF Over
  <2>4. ~(ri <= l)
    BY <1>4, <2>2 DEF Scan
  <2>5. ri # l + 1
    BY <1>1, <2>1, <2>2, RotRange
  <2>6. rh <= l + 1 /\ l + 1 <= ri
    BY <1>1, <2>3, <2>4, <2>5
  <2>7. Way(c, q, d, g, i)
    BY DEF Scan
  <2>8. pos \in Occ(c, d) \/ pos = g
    BY <2>2, <2>6, <2>7 DEF Way
  <2> QED
    BY <1>3, <2>8
<1>5. \A i \in Occ(c, d) : Way(c, q, d, g, i)
  BY DEF Scan
<1> QED
  BY <1>1, <1>4, <1>5, NoGapLeft

\* The gap is not on the way to the entry at pos, which stays.
LEMMA RoundStays ==
  ASSUME NEW c, NEW q, NEW s, NEW l, NEW d, NEW g, Table(c, d), Scan(c, q, s, l, d, g),
         NEW pos \in Occ(c, d), Rot(c, q, pos) = l + 1, ~Over(c, q, d, g, pos)
  PROVE  Scan(c, q, s, l + 1, d, g)
<1>1. c \in Nat \ {0} /\ q \in 0..(c - 1) /\ g \in 0..(c - 1) /\ l \in Nat /\ s \in Nat
      /\ s <= Rot(c, q, g) /\ Rot(c, q, g) <= l /\ pos \in 0..(c - 1)
  BY DEF Scan, Table, Occ
<1>2. l + 1 <= c - 1
  BY <1>1, RotRange
<1>3. ASSUME NEW j \in 0..(c - 1), Rot(c, q, j) <= l + 1 PROVE Rot(c, q, j) <= l \/ j = pos
  <2>1. PICK r : r = Rot(c, q, j)
    OBVIOUS
  <2>2. r \in Nat /\ (r = l + 1 => j = pos)
    BY <1>1, <2>1, RotRange
  <2> QED
    BY <1>1, <1>3, <2>1, <2>2
<1>4. ASSUME NEW j \in 0..(c - 1), s <= Rot(c, q, j), Rot(c, q, j) <= l + 1, j # g
      PROVE  j \in Occ(c, d)
  BY <1>3, <1>4 DEF Scan
<1>5. ASSUME NEW i \in Occ(c, d), Rot(c, q, i) <= l + 1 PROVE ~Over(c, q, d, g, i)
  <2>1. i \in 0..(c - 1)
    BY DEF Occ
  <2> QED
    BY <1>3, <1>5, <2>1 DEF Scan
<1>6. Rot(c, q, g) \in 0..(c - 1)
  BY <1>1, RotRange
<1>7. l + 1 \in Nat /\ Rot(c, q, g) <= l + 1
  BY <1>1, <1>6
<1> QED
  BY <1>1, <1>2, <1>4, <1>5, <1>7 DEF Scan

\* The entry at pos, which is reached over the gap, fills it.
LEMMA RoundFills ==
  ASSUME NEW c, NEW q, NEW s, NEW l, NEW d, NEW g, NEW P, NEW k,
         Holds(c, d, P, k), Scan(c, q, s, l, d, g),
         NEW pos \in Occ(c, d), Rot(c, q, pos) = l + 1, Over(c, q, d, g, pos),
         NEW e, e = [d EXCEPT ![g] = d[pos], ![pos] = Invalid]
  PROVE  Holds(c, e, P, k) /\ Scan(c, q, s, l + 1, e, pos)
<1>1. c \in Nat \ {0} /\ q \in 0..(c - 1) /\ g \in 0..(c - 1) /\ l \in Nat /\ s \in Nat
      /\ s <= Rot(c, q, g) /\ Rot(c, q, g) <= l /\ pos \in 0..(c - 1) /\ g # pos /\ q # pos /\ g # q
      /\ g \notin Occ(c, d) /\ q \notin Occ(c, d) /\ Table(c, d) /\ Unique(c, d)
  BY DEF Scan, Table, Occ, Holds
<1>2. /\ e \in [0..(c - 1) -> Slots] /\ e[pos] = Invalid /\ e[g] = d[pos]
      /\ \A i \in 0..(c - 1) : i # g /\ i # pos => e[i] = d[i]
  <2>1. Invalid \in Slots /\ d[pos] \in Slots /\ d \in [0..(c - 1) -> Slots]
    BY <1>1 DEF Slots, Table
  <2> QED
    BY <1>1, <2>1
<1>3. Occ(c, e) = (Occ(c, d) \ {pos}) \cup {g}
  BY <1>1, <1>2 DEF Occ, Valid, Invalid
<1>4. Table(c, e)
  BY <1>1, <1>2 DEF Table
<1>5. \A i \in Occ(c, e) : i # g => i \in Occ(c, d) /\ i # pos /\ i \in 0..(c - 1)
                                    /\ e[i] = d[i] /\ Home(c, e, i) = Home(c, d, i)
  BY <1>2, <1>3 DEF Occ, Home
<1>6. Home(c, e, g) = Home(c, d, pos) /\ g \in Occ(c, e)
  BY <1>2, <1>3 DEF Home
<1>7. Unique(c, e)
  <2> SUFFICES ASSUME NEW i \in Occ(c, e), NEW j \in Occ(c, e), e[i].key = e[j].key, i # j
               PROVE  FALSE
    BY DEF Unique
  <2>1. CASE i # g /\ j # g
    BY <1>1, <1>5, <2>1 DEF Unique
  <2>2. CASE i = g
    BY <1>1, <1>2, <1>5, <2>2 DEF Unique
  <2>3. CASE j = g
    BY <1>1, <1>2, <1>5, <2>3 DEF Unique
  <2> QED
    BY <2>1, <2>2, <2>3
<1>8. Pairs(c, e) = Pairs(c, d)
  <2>1. ASSUME NEW p \in Pairs(c, e) PROVE p \in Pairs(c, d)
    <3>1. PICK i \in Occ(c, e) : p = <<e[i].key, e[i].value>>
      BY DEF Pairs
    <3>2. PICK x : x = IF i = g THEN pos ELSE i
      OBVIOUS
    <3>3. x \in Occ(c, d) /\ d[x] = e[i]
      BY <1>2, <1>5, <3>2
    <3> QED
      BY <3>1, <3>3 DEF Pairs
  <2>2. ASSUME NEW p \in Pairs(c, d) PROVE p \in Pairs(c, e)
    <3>1. PICK i \in Occ(c, d) : p = <<d[i].key, d[i].value>>
      BY DEF Pairs
    <3>2. PICK x : x = IF i = pos THEN g ELSE i
      OBVIOUS
    <3>3. x \in Occ(c, e) /\ e[x] = d[i]
      BY <1>1, <1>2, <1>3, <1>5, <3>2
    <3> QED
      BY <3>1, <3>3 DEF Pairs
  <2> QED
    BY <2>1, <2>2
<1>9. Cardinality(Occ(c, e)) = Cardinality(Occ(c, d))
  <2>1. PICK S, n : S = Occ(c, d) /\ n = Cardinality(S)
    OBVIOUS
  <2>2. IsFiniteSet(S) /\ n \in Nat /\ pos \in S /\ g \notin S
    BY <1>1, <2>1, OccFinite
  <2>3. IsFiniteSet(S \ {pos}) /\ Cardinality(S \ {pos}) = n - 1
    BY <2>1, <2>2, FS_RemoveElement
  <2>4. PICK T : T = S \ {pos}
    OBVIOUS
  <2>5. IsFiniteSet(T) /\ Cardinality(T) = n - 1 /\ g \notin T
    BY <2>2, <2>3, <2>4
  <2>6. Cardinality(T \cup {g}) = Cardinality(T) + 1
    BY <2>5, FS_AddElement
  <2>7. Cardinality(T \cup {g}) = n
    BY <2>2, <2>5, <2>6
  <2> QED
    BY <1>3, <2>1, <2>4, <2>7
<1>10. Rot(c, q, g) \in 0..(c - 1) /\ l + 1 <= c - 1 /\ s <= l + 1 /\ l + 1 \in Nat
  <2>1. Rot(c, q, g) \in 0..(c - 1) /\ Rot(c, q, pos) \in 0..(c - 1)
    BY <1>1, RotRange
  <2> QED
    BY <1>1, <2>1
<1>11. ASSUME NEW j \in 0..(c - 1), Rot(c, q, j) <= l + 1, j # pos PROVE Rot(c, q, j) <= l
  <2>1. PICK r : r = Rot(c, q, j)
    OBVIOUS
  <2>2. r \in Nat /\ (r = l + 1 => j = pos)
    BY <1>1, <2>1, RotRange
  <2> QED
    BY <1>1, <1>11, <2>1, <2>2
<1>12. ASSUME NEW j \in 0..(c - 1), s <= Rot(c, q, j), Rot(c, q, j) <= l + 1, j # pos
       PROVE  j \in Occ(c, e)
  <2>1. Rot(c, q, j) <= l
    BY <1>11, <1>12
  <2>2. j \in Occ(c, d) \/ j = g
    BY <1>12, <2>1 DEF Scan
  <2> QED
    BY <1>3, <1>12, <2>2
<1>13. ASSUME NEW i \in Occ(c, e) PROVE Way(c, q, e, pos, i)
  <2>1. CASE i # g
    <3>1. Way(c, q, d, g, i)
      BY <1>5, <2>1 DEF Scan
    <3> QED
      BY <1>3, <1>5, <2>1, <3>1 DEF Way
  <2>2. CASE i = g
    <3>1. PICK h : h = Home(c, d, pos)
      OBVIOUS
    <3>2. Way(c, q, d, g, pos) /\ h \in 0..(c - 1)
      BY <1>1, <3>1, HomeFacts DEF Scan
    <3>3. Rot(c, q, h) <= Rot(c, q, g)
      BY <3>1 DEF Over
    <3>4. ASSUME NEW j \in 0..(c - 1), Rot(c, q, h) <= Rot(c, q, j), Rot(c, q, j) <= Rot(c, q, g)
          PROVE  j \in Occ(c, e)
      <4>1. Rot(c, q, j) \in 0..(c - 1)
        BY <1>1, RotRange
      <4>2. Rot(c, q, j) <= Rot(c, q, pos) /\ j # pos
        BY <1>1, <1>10, <3>4, <4>1
      <4>3. j \in Occ(c, d) \/ j = g
        BY <3>1, <3>2, <3>4, <4>2 DEF Way
      <4> QED
        BY <1>3, <4>2, <4>3
    <3> QED
      BY <1>6, <2>2, <3>1, <3>3, <3>4 DEF Way
  <2> QED
    BY <2>1, <2>2
<1>14. ASSUME NEW i \in Occ(c, e), Rot(c, q, i) <= l + 1 PROVE ~Over(c, q, e, pos, i)
  <2>1. i \in 0..(c - 1) /\ i # pos
    BY <1>1, <1>3 DEF Occ
  <2>2. Rot(c, q, i) <= l /\ Rot(c, q, i) \in 0..(c - 1)
    BY <1>1, <1>11, <1>14, <2>1, RotRange
  <2>3. ~(l + 1 <= Rot(c, q, i))
    BY <1>1, <2>2
  <2> QED
    BY <2>3 DEF Over
<1>15. Scan(c, q, s, l + 1, e, pos)
  <2>1. q \notin Occ(c, e) /\ pos \notin Occ(c, e)
    BY <1>1, <1>3
  <2>2. l + 1 <= l + 1
    BY <1>10
  <2> QED
    BY <1>1, <1>10, <1>12, <1>13, <1>14, <2>1, <2>2 DEF Scan
<1> QED
  BY <1>4, <1>7, <1>8, <1>9, <1>15 DEF Holds

\* adjust_gap's comparison of normalised indices asks whether the gap is on the
\* way to the entry.
LEMMA MayFillIsOver ==
  ASSUME NEW c, NEW q \in 0..(c - 1), NEW d, NEW g \in 0..(c - 1), Table(c, d),
         NEW m \in Maps(c), NEW pos \in Occ(c, d), Way(c, q, d, g, pos),
         Rot(c, q, g) <= Rot(c, q, pos)
  PROVE  MayFill([m EXCEPT !.data = d], g, pos) <=> Over(c, q, d, g, pos)
<1>1. c \in Nat \ {0}
  BY DEF Table
<1>2. PICK h : h = Home(c, d, pos)
  OBVIOUS
<1>3. h \in 0..(c - 1) /\ pos \in 0..(c - 1)
  BY <1>2, HomeFacts
<1>4. PICK w : w = [m EXCEPT !.data = d]
  OBVIOUS
<1>5. w.capacity = c /\ w.data = d
  BY <1>4 DEF Maps
<1>6. HashPosition(w, w.data[pos].key) = h
  BY <1>2, <1>5 DEF HashPosition, Home
<1>7. PICK fg, fp : /\ fg = (IF g < h THEN g + c ELSE g)
                    /\ fp = (IF pos < h THEN pos + c ELSE pos)
  OBVIOUS
<1>8. MayFill(w, g, pos) <=> fg >= h /\ fg <= fp
  BY <1>5, <1>6, <1>7 DEF MayFill
<1>9. fg >= h /\ fg <= fp <=> Off(c, h, g) <= Off(c, h, pos)
  BY <1>1, <1>3, <1>7 DEF Off
<1>10. Rot(c, q, h) <= Rot(c, q, pos)
  BY <1>2 DEF Way
<1>11. Off(c, h, g) <= Off(c, h, pos) <=> Rot(c, q, h) <= Rot(c, q, g) /\ Rot(c, q, g) <= Rot(c, q, pos)
  BY <1>1, <1>3, <1>10, RotWay
<1> QED
  BY <1>2, <1>4, <1>8, <1>9, <1>11 DEF Over

Loops(c) == [data : [0..(c - 1) -> Slots], gap : 0..(c - 1), done : BOOLEAN]

\* A round leaves a table and a gap.
LEMMA RoundType ==
  ASSUME NEW c, NEW m, NEW x \in Loops(c), NEW pos \in 0..(c - 1)
  PROVE  Round(m, x, pos) \in Loops(c)
<1>1. x.data \in [0..(c - 1) -> Slots] /\ x.gap \in 0..(c - 1) /\ x.done \in BOOLEAN
      /\ x = [data |-> x.data, gap |-> x.gap, done |-> x.done]
  BY DEF Loops
<1>2. [x EXCEPT !.done = TRUE] \in Loops(c)
  BY DEF Loops
<1>3. PICK e : e = [x.data EXCEPT ![x.gap] = x.data[pos], ![pos] = Invalid]
  OBVIOUS
<1>4. e \in [0..(c - 1) -> Slots]
  <2>1. PICK d, y, z : d = x.data /\ y = x.data[pos] /\ z = Invalid
    OBVIOUS
  <2>2. d \in [0..(c - 1) -> Slots] /\ y \in Slots
    BY <1>1, <2>1
  <2>3. z \in Slots
    BY <2>1 DEF Slots
  <2> QED
    BY <1>3, <2>1, <2>2, <2>3
<1>5. [data |-> e, gap |-> pos, done |-> FALSE] \in Loops(c)
  BY <1>4 DEF Loops
<1>6. Round(m, x, pos) \in {[x EXCEPT !.done = TRUE], [data |-> e, gap |-> pos, done |-> FALSE], x}
  BY <1>3 DEF Round
<1> QED
  BY <1>2, <1>5, <1>6

\* After n rounds of adjust_gap.
InLoop(c, q, first, P, k, n, x) ==
  /\ x \in Loops(c)
  /\ Holds(c, x.data, P, k)
  /\ IF x.done THEN Good(c, x.data)
     ELSE Scan(c, q, Rot(c, q, first), Rot(c, q, first) + n, x.data, x.gap)

\* A round of adjust_gap.
LEMMA RoundSound ==
  ASSUME NEW c, NEW m \in Maps(c), NEW first \in 0..(c - 1), NEW q, NEW P, NEW k, NEW n \in Nat, NEW x,
         InLoop(c, q, first, P, k, n, x)
  PROVE  InLoop(c, q, first, P, k, n + 1, Round(m, x, (first + (n + 1)) % c))
<1>1. PICK d, g, pos, y : d = x.data /\ g = x.gap /\ pos = (first + (n + 1)) % c /\ y = Round(m, x, pos)
  OBVIOUS
<1>2. /\ x \in Loops(c) /\ Holds(c, d, P, k) /\ Table(c, d) /\ Unique(c, d) /\ c \in Nat \ {0}
      /\ x.done \in BOOLEAN
  BY <1>1 DEF InLoop, Holds, Table, Loops
<1>3. pos \in 0..(c - 1)
  <2>1. first + (n + 1) \in Nat
    BY <1>2
  <2> QED
    BY <1>1, <1>2, <2>1, ModFacts
<1>4. y \in Loops(c)
  BY <1>1, <1>2, <1>3, RoundType
<1>5. CASE x.done
  <2>1. y.done /\ y.data = d
    BY <1>1, <1>2, <1>5 DEF Round, Loops
  <2>2. Good(c, d)
    BY <1>1, <1>5 DEF InLoop
  <2> QED
    BY <1>1, <1>2, <1>4, <2>1, <2>2 DEF InLoop
<1>6. CASE ~x.done
  <2>1. PICK s, l : s = Rot(c, q, first) /\ l = s + n
    OBVIOUS
  <2>2. Scan(c, q, s, l, d, g)
    BY <1>1, <1>6, <2>1 DEF InLoop
  <2>3. q \in 0..(c - 1) /\ s \in Nat /\ l \in Nat /\ l <= c - 1 /\ g \in 0..(c - 1) /\ Rot(c, q, g) <= l
        /\ s <= Rot(c, q, g)
    BY <2>2 DEF Scan
  <2>4. l # c - 1
    <3> SUFFICES ASSUME l = c - 1 PROVE FALSE
      OBVIOUS
    <3>1. Rot(c, q, q) = c - 1 /\ s <= c - 1
      BY <1>2, <2>1, <2>3, RotRange
    <3>2. s <= Rot(c, q, q) /\ Rot(c, q, q) <= l
      BY <2>3, <3>1
    <3> QED
      BY <2>2, <3>2 DEF Scan
  <2>5. Rot(c, q, pos) = l + 1
    <3>1. n + 1 \in Nat /\ Rot(c, q, first) + (n + 1) <= c - 1 /\ Rot(c, q, first) + (n + 1) = l + 1
      BY <1>2, <2>1, <2>3, <2>4
    <3> QED
      BY <1>1, <1>2, <2>3, <3>1, RotStep
  <2>6. Rot(c, q, first) + (n + 1) = l + 1
    BY <2>1, <2>3
  <2>7. CASE ~Valid(d, pos)
    <3>1. y.done /\ y.data = d
      BY <1>1, <1>2, <2>7 DEF Round, Loops
    <3>2. pos \notin Occ(c, d)
      BY <2>7 DEF Occ
    <3>3. Good(c, d)
      BY <1>2, <1>3, <2>2, <2>5, <3>2, RoundEnds
    <3> QED
      BY <1>1, <1>2, <1>4, <3>1, <3>3 DEF InLoop
  <2>8. CASE Valid(d, pos)
    <3>1. pos \in Occ(c, d)
      BY <1>3, <2>8 DEF Occ
    <3>2. Way(c, q, d, g, pos)
      BY <2>2, <3>1 DEF Scan
    <3>3. Rot(c, q, g) <= Rot(c, q, pos)
      <4>1. Rot(c, q, g) \in 0..(c - 1)
        BY <1>2, <2>3, RotRange
      <4> QED
        BY <2>3, <2>5, <4>1
    <3>4. MayFill([m EXCEPT !.data = d], g, pos) <=> Over(c, q, d, g, pos)
      BY <1>2, <2>3, <3>1, <3>2, <3>3, MayFillIsOver
    <3>5. CASE ~Over(c, q, d, g, pos)
      <4>1. y = x
        BY <1>1, <1>6, <2>8, <3>4, <3>5 DEF Round
      <4>2. Scan(c, q, s, l + 1, d, g)
        BY <1>2, <2>2, <2>5, <3>1, <3>5, RoundStays
      <4> QED
        BY <1>1, <1>2, <1>6, <2>1, <2>6, <4>1, <4>2 DEF InLoop
    <3>6. CASE Over(c, q, d, g, pos)
      <4>1. PICK e : e = [d EXCEPT ![g] = d[pos], ![pos] = Invalid]
        OBVIOUS
      <4>2. y = [data |-> e, gap |-> pos, done |-> FALSE]
        BY <1>1, <1>6, <2>8, <3>4, <3>6, <4>1 DEF Round
      <4>3. Holds(c, e, P, k) /\ Scan(c, q, s, l + 1, e, pos)
        BY <1>2, <2>2, <2>5, <3>1, <3>6, <4>1, RoundFills
      <4> QED
        BY <1>1, <1>4, <2>1, <2>6, <4>2, <4>3 DEF InLoop
    <3> QED
      BY <3>5, <3>6
  <2> QED
    BY <2>7, <2>8
<1> QED
  BY <1>2, <1>5, <1>6

\* adjust_gap ends, with a table in which everything can be reached.
LEMMA AdjustedSound ==
  ASSUME NEW c \in Nat \ {0}, NEW m \in Maps(c), NEW first \in 0..(c - 1), NEW q, NEW P, NEW k,
         Holds(c, m.data, P, k), Scan(c, q, Rot(c, q, first), Rot(c, q, first), m.data, first)
  PROVE  \E e : /\ Adjusted(m, first) = [m EXCEPT !.data = e]
                /\ Good(c, e) /\ Holds(c, e, P, k)
<1> DEFINE base == [data |-> m.data, gap |-> first, done |-> FALSE]
           D == Loops(c)
           E(f) == [n \in 0..c |-> IF n = 0 THEN base ELSE Round(m, f[n - 1], (first + n) % c)]
<1>1. m.capacity = c /\ c \in Nat
  BY DEF Maps
<1>2. base \in D /\ InLoop(c, q, first, P, k, 0, base)
  <2>1. base \in D /\ base.data = m.data /\ base.gap = first /\ base.done = FALSE
    BY DEF Maps, Loops
  <2>2. q \in 0..(c - 1)
    BY DEF Scan
  <2>3. Rot(c, q, first) \in 0..(c - 1)
    BY <2>2, RotRange
  <2>4. Rot(c, q, first) + 0 = Rot(c, q, first)
    BY <2>3
  <2> HIDE DEF base
  <2> QED
    BY <2>1, <2>4 DEF InLoop
<1> HIDE DEF base, D
<1>3. \E g : g = E(g)
  <2>1. ASSUME NEW n \in 1..c, NEW x \in D PROVE Round(m, x, (first + n) % c) \in D
    <3>1. first + n \in Nat
      OBVIOUS
    <3>2. (first + n) % c \in 0..(c - 1)
      BY <3>1, ModFacts
    <3> QED
      BY <3>2, RoundType DEF D
  <2>2. PICK step : step = [x \in (1..c) \X D |-> Round(m, x[2], (first + x[1]) % c)]
    OBVIOUS
  <2>3. step \in [(1..c) \X D -> D]
    BY <2>1, <2>2
  <2>4. PICK g : Rounds(g, c, D, base, step)
    BY <1>1, <1>2, <2>3, LoopExists
  <2>5. g \in [0..c -> D] /\ g[0] = base /\ \A n \in 1..c : g[n] = step[<<n, g[n - 1]>>]
    BY <2>4 DEF Rounds
  <2>6. ASSUME NEW n \in 1..c PROVE g[n] = Round(m, g[n - 1], (first + n) % c)
    <3>1. n - 1 \in 0..c
      BY <1>1
    <3>2. <<n, g[n - 1]>> \in (1..c) \X D
      BY <2>5, <3>1
    <3> QED
      BY <2>2, <2>5, <3>2
  <2>7. ASSUME NEW n \in 0..c
        PROVE  g[n] = IF n = 0 THEN base ELSE Round(m, g[n - 1], (first + n) % c)
    <3>1. n = 0 \/ n \in 1..c
      BY <1>1
    <3> QED
      BY <2>5, <2>6, <3>1
  <2>8. g = E(g)
    BY <2>5, <2>7
  <2> QED
    BY <2>8
<1>4. PICK w : w = CHOOSE g : g = E(g)
  OBVIOUS
<1>5. w = E(w)
  <2> HIDE DEF E
  <2> QED
    BY <1>3, <1>4
<1>6. Adjusted(m, first) = [m EXCEPT !.data = w[c].data]
  BY <1>1, <1>4 DEF Adjusted, base
<1>7. \A n \in 0..c : w[n] = IF n = 0 THEN base ELSE Round(m, w[n - 1], (first + n) % c)
  BY <1>5
<1> HIDE DEF E
<1> DEFINE S == {n \in Nat : n <= c => InLoop(c, q, first, P, k, n, w[n])}
<1>8. 0 \in S
  BY <1>1, <1>2, <1>7
<1>9. ASSUME NEW n \in Nat, n \in S PROVE n + 1 \in S
  <2> SUFFICES ASSUME n + 1 <= c PROVE InLoop(c, q, first, P, k, n + 1, w[n + 1])
    OBVIOUS
  <2>1. n + 1 \in 0..c /\ n + 1 # 0 /\ (n + 1) - 1 = n /\ n <= c
    BY <1>1
  <2>2. w[n + 1] = Round(m, w[n], (first + (n + 1)) % c) /\ InLoop(c, q, first, P, k, n, w[n])
    BY <1>7, <1>9, <2>1
  <2> QED
    BY <2>2, RoundSound
<1>10. \A n \in Nat : n \in S
  <2> HIDE DEF S
  <2> QED
    BY <1>8, <1>9, SetInduction
<1>11. InLoop(c, q, first, P, k, c, w[c])
  BY <1>1, <1>10
<1>12. w[c].done
  <2> SUFFICES ASSUME ~w[c].done PROVE FALSE
    OBVIOUS
  <2>1. PICK r : r = Rot(c, q, first)
    OBVIOUS
  <2>2. Scan(c, q, r, r + c, w[c].data, w[c].gap)
    BY <1>11, <2>1 DEF InLoop
  <2>3. r \in Nat /\ r + c <= c - 1
    BY <2>2 DEF Scan
  <2> QED
    BY <2>3
<1> QED
  BY <1>6, <1>11, <1>12 DEF InLoop

\* hash_map_delete of a key that is there.
LEMMA DeletedSound ==
  ASSUME NEW m, Sound(m), m.num_elements < m.capacity, NEW key \in Keys,
         Valid(m.data, Probe(m, key))
  PROVE  /\ Sound(Deleted(m, key)) /\ Deleted(m, key).capacity = m.capacity
         /\ Deleted(m, key).num_elements = m.num_elements - 1
         /\ Pairs(m.capacity, Deleted(m, key).data) = Without(Pairs(m.capacity, m.data), key)
<1>1. PICK c, d, n, pos : c = m.capacity /\ d = m.data /\ n = m.num_elements /\ pos = Probe(m, key)
  OBVIOUS
<1>2. m \in Maps(c) /\ Good(c, d) /\ Table(c, d) /\ n = Cardinality(Occ(c, d)) /\ n \in Nat /\ n < c
      /\ c \in Nat \ {0}
  BY <1>1 DEF Sound, Good, Counted, Maps, Table
<1>3. PICK q \in 0..(c - 1) : q \notin Occ(c, d)
  BY <1>2, OccFinite
<1>4. ProbeEnds(c, d, key, pos)
  BY <1>1, <1>2, <1>3, ProbeFacts
<1>5. pos \in Occ(c, d) /\ d[pos].key = key /\ pos \in 0..(c - 1)
  BY <1>1, <1>4 DEF ProbeEnds, Occ
<1>6. PICK e : e = [d EXCEPT ![pos] = Invalid]
  OBVIOUS
<1>7. /\ Holds(c, e, Without(Pairs(c, d), key), n - 1)
      /\ Scan(c, q, Rot(c, q, pos), Rot(c, q, pos), e, pos)
  BY <1>2, <1>3, <1>5, <1>6, ScanStarts
<1>8. PICK r : r = [m EXCEPT !.data = e]
  OBVIOUS
<1>9. r \in Maps(c) /\ r.data = e
  BY <1>2, <1>7, <1>8 DEF Maps, Holds, Table
<1>10. PICK a : /\ Adjusted(r, pos) = [r EXCEPT !.data = a]
                /\ Good(c, a) /\ Holds(c, a, Without(Pairs(c, d), key), n - 1)
  BY <1>2, <1>5, <1>7, <1>9, AdjustedSound
<1>11. [m EXCEPT !.data[pos] = Invalid] = r
  BY <1>1, <1>2, <1>6, <1>8 DEF Maps
<1>12. PICK w : w = Deleted(m, key)
  OBVIOUS
<1>13. w = [[r EXCEPT !.data = a] EXCEPT !.num_elements = n - 1]
  <2>1. w = [Adjusted(r, pos) EXCEPT !.num_elements = @ - 1]
    BY <1>1, <1>11, <1>12 DEF Deleted
  <2>2. r.num_elements = n
    BY <1>1, <1>2, <1>8 DEF Maps
  <2> QED
    BY <1>9, <1>10, <2>1, <2>2 DEF Maps
<1>14. n - 1 \in Nat /\ n - 1 = Cardinality(Occ(c, a)) /\ Pairs(c, a) = Without(Pairs(c, d), key)
  <2>1. n - 1 = Cardinality(Occ(c, a)) /\ Pairs(c, a) = Without(Pairs(c, d), key) /\ Table(c, a)
    BY <1>10 DEF Holds
  <2> QED
    BY <2>1, OccFinite
<1>15. w \in Maps(c) /\ w.capacity = c /\ w.data = a /\ w.num_elements = n - 1
  BY <1>9, <1>10, <1>13, <1>14 DEF Maps, Good, Table
<1>16. Sound(w)
  BY <1>10, <1>14, <1>15 DEF Sound, Counted
<1> QED
  BY <1>1, <1>12, <1>14, <1>15, <1>16

-----------------------------------------------------------------------------
(***************************************************************************)
(* The calls.                                                              *)
(***************************************************************************)

\* hash_map_put with its growth.
LEMMA PutSound ==
  ASSUME NEW m, Sound(m), 2 * m.num_elements <= m.capacity, NEW key \in Keys, NEW value \in Values
  PROVE  /\ Sound(Put(m, key, value))
         /\ 2 * Put(m, key, value).num_elements <= Put(m, key, value).capacity
         /\ Pairs(Put(m, key, value).capacity, Put(m, key, value).data)
              = With(Pairs(m.capacity, m.data), key, value)
<1>1. PICK placed, w : placed = Placed(m, key, value) /\ w = Put(m, key, value)
  OBVIOUS
<1>2. m.num_elements < m.capacity
  <2>1. m.num_elements \in Nat /\ m.capacity \in Nat \ {0}
    BY DEF Sound, Maps, Good, Table
  <2> QED
    BY <2>1
<1>3. /\ Sound(placed) /\ placed.capacity = m.capacity
      /\ Pairs(m.capacity, placed.data) = With(Pairs(m.capacity, m.data), key, value)
  BY <1>1, <1>2, PlacedSound
<1>4. CASE TooFull(placed)
  <2>1. w = Grown(placed)
    BY <1>1, <1>4 DEF Put
  <2>2. /\ Sound(w) /\ 2 * w.num_elements <= w.capacity
        /\ Pairs(w.capacity, w.data) = Pairs(placed.capacity, placed.data)
    BY <1>3, <2>1, GrownSound
  <2> QED
    BY <1>1, <1>3, <2>2
<1>5. CASE ~TooFull(placed)
  <2>1. w = placed
    BY <1>1, <1>5 DEF Put
  <2>2. placed.num_elements \in Nat /\ placed.capacity \in Nat
    BY <1>3 DEF Sound, Maps, Good, Table
  <2>3. 2 * placed.num_elements <= placed.capacity
    BY <1>5, <2>2 DEF TooFull
  <2> QED
    BY <1>1, <1>3, <2>1, <2>3
<1> QED
  BY <1>4, <1>5

\* What the map holds.
InMap == Pairs(hm.capacity, hm.data)

\* A call finds the key if the map holds it, and its value.
LEMMA FoundFacts ==
  ASSUME IInv, NEW key \in Keys
  PROVE  /\ Found(key) <=> \E v \in Values : <<key, v>> \in InMap
         /\ Found(key) => /\ hm.data[Probe(hm, key)].value \in Values
                          /\ <<key, hm.data[Probe(hm, key)].value>> \in InMap
<1>1. PICK c, d, n, pos : c = hm.capacity /\ d = hm.data /\ n = hm.num_elements /\ pos = Probe(hm, key)
  OBVIOUS
<1>2. Good(c, d) /\ Table(c, d) /\ n = Cardinality(Occ(c, d)) /\ n \in Nat /\ 2 * n <= c /\ c \in Nat \ {0}
  BY <1>1 DEF IInv, Sound, Good, Counted, Maps, Table
<1>3. PICK q \in 0..(c - 1) : q \notin Occ(c, d)
  <2>1. n < c
    BY <1>2
  <2> QED
    BY <1>2, <2>1, OccFinite
<1>4. ProbeEnds(c, d, key, pos)
  BY <1>1, <1>2, <1>3, ProbeFacts
<1>5. Found(key) <=> pos \in Occ(c, d)
  BY <1>1, <1>4 DEF Found, Occ, ProbeEnds
<1>6. ASSUME pos \in Occ(c, d)
      PROVE  d[pos].value \in Values /\ <<key, d[pos].value>> \in Pairs(c, d)
  <2>1. d[pos].key = key /\ d[pos].value \in Values
    BY <1>2, <1>4, <1>6, HomeFacts DEF ProbeEnds
  <2> QED
    BY <1>6, <2>1 DEF Pairs
<1>7. ASSUME NEW v, <<key, v>> \in Pairs(c, d) PROVE pos \in Occ(c, d)
  <2>1. PICK i \in Occ(c, d) : <<key, v>> = <<d[i].key, d[i].value>>
    BY <1>7 DEF Pairs
  <2>2. d[i].key = key
    BY <2>1
  <2> QED
    BY <1>2, <1>4, <2>2, ProbeFinds
<1> QED
  BY <1>1, <1>5, <1>6, <1>7 DEF InMap

\* f has the pairs P.
Represents(f, P) ==
  /\ f = [k \in DOMAIN f |-> f[k]]
  /\ DOMAIN f = {k \in Keys : \E v \in Values : <<k, v>> \in P}
  /\ \A k \in DOMAIN f : <<k, f[k]>> \in P

\* No key has two values.
OneValue(P) == \A k, v, w : <<k, v>> \in P /\ <<k, w>> \in P => v = w

\* The refinement mapping gives what is stored.
LEMMA HeldFacts ==
  ASSUME IInv
  PROVE  Represents(Held, InMap) /\ OneValue(InMap) /\ InMap \subseteq Keys \X Values
<1>1. PICK c, d : c = hm.capacity /\ d = hm.data
  OBVIOUS
<1>2. Table(c, d) /\ Unique(c, d) /\ Occupied = Occ(c, d)
  BY <1>1 DEF IInv, Sound, Good, Occupied, Positions, Occ
<1>3. PICK P : P = Pairs(c, d)
  OBVIOUS
<1>4. Contents = P /\ InMap = P
  BY <1>1, <1>2, <1>3 DEF Contents, Pairs, InMap
<1>5. P \subseteq Keys \X Values
  <2>1. ASSUME NEW p \in P PROVE p \in Keys \X Values
    <3>1. PICK i \in Occ(c, d) : p = <<d[i].key, d[i].value>>
      BY <1>3 DEF Pairs
    <3> QED
      BY <1>2, <3>1, HomeFacts
  <2> QED
    BY <2>1
<1>6. OneValue(P)
  <2> SUFFICES ASSUME NEW k, NEW v, NEW w, <<k, v>> \in P, <<k, w>> \in P PROVE v = w
    BY DEF OneValue
  <2>1. PICK i \in Occ(c, d) : <<k, v>> = <<d[i].key, d[i].value>>
    BY <1>3 DEF Pairs
  <2>2. PICK j \in Occ(c, d) : <<k, w>> = <<d[j].key, d[j].value>>
    BY <1>3 DEF Pairs
  <2>3. d[i].key = d[j].key /\ d[i].value = v /\ d[j].value = w
    BY <2>1, <2>2
  <2> QED
    BY <1>2, <2>3 DEF Unique
<1>7. KeysHeld = {k \in Keys : \E v \in Values : <<k, v>> \in P}
  <2>1. ASSUME NEW k \in KeysHeld PROVE k \in Keys /\ \E v \in Values : <<k, v>> \in P
    <3>1. PICK i \in Occ(c, d) : k = d[i].key
      BY <1>1, <1>2 DEF KeysHeld
    <3>2. <<k, d[i].value>> \in P
      BY <1>3, <3>1 DEF Pairs
    <3> QED
      BY <1>5, <3>2
  <2>2. ASSUME NEW k, NEW v, <<k, v>> \in P PROVE k \in KeysHeld
    <3>1. PICK i \in Occ(c, d) : <<k, v>> = <<d[i].key, d[i].value>>
      BY <1>3, <2>2 DEF Pairs
    <3>2. k = d[i].key
      BY <3>1
    <3> QED
      BY <1>1, <1>2, <3>2 DEF KeysHeld
  <2> QED
    BY <2>1, <2>2
<1>8. PICK f : f = Held
  OBVIOUS
<1>9. f = [k \in KeysHeld |-> CHOOSE v \in Values : <<k, v>> \in P]
  BY <1>4, <1>8 DEF Held
<1>10. ASSUME NEW k \in KeysHeld PROVE <<k, f[k]>> \in P
  <2>1. f[k] = CHOOSE v \in Values : <<k, v>> \in P
    BY <1>9
  <2>2. \E v \in Values : <<k, v>> \in P
    BY <1>7
  <2> QED
    BY <2>1, <2>2
<1>11. Represents(f, P)
  BY <1>7, <1>9, <1>10 DEF Represents
<1> QED
  BY <1>4, <1>5, <1>6, <1>8, <1>11

\* The dictionary f after a put.
Updated(f, key, value) == [k \in DOMAIN f \cup {key} |-> IF k = key THEN value ELSE f[k]]

\* What the refinement mapping gives once a pair is put in.
LEMMA HeldPut ==
  ASSUME NEW P, P \subseteq Keys \X Values, OneValue(P), NEW key \in Keys, NEW value \in Values,
         NEW f, Represents(f, P), NEW g, Represents(g, With(P, key, value))
  PROVE  g = Updated(f, key, value)
<1>1. \A k, v : <<k, v>> \in With(P, key, value) <=>
                  IF k = key THEN v = value ELSE <<k, v>> \in P
  BY DEF With, Without
<1>2. DOMAIN g = DOMAIN f \cup {key}
  BY <1>1 DEF Represents
<1>3. ASSUME NEW k \in DOMAIN g PROVE g[k] = IF k = key THEN value ELSE f[k]
  <2>1. <<k, g[k]>> \in With(P, key, value)
    BY DEF Represents
  <2>2. CASE k = key
    BY <1>1, <2>1, <2>2
  <2>3. CASE k # key
    <3>1. <<k, g[k]>> \in P /\ k \in DOMAIN f
      BY <1>1, <1>2, <2>1, <2>3
    <3>2. <<k, f[k]>> \in P
      BY <3>1 DEF Represents
    <3> QED
      BY <2>3, <3>1, <3>2 DEF OneValue
  <2> QED
    BY <2>2, <2>3
<1> QED
  BY <1>2, <1>3 DEF Represents, Updated

\* What it gives once the pairs of a key are taken out.
LEMMA HeldDelete ==
  ASSUME NEW P, OneValue(P), NEW key \in Keys,
         NEW f, Represents(f, P), NEW g, Represents(g, Without(P, key))
  PROVE  g = [k \in DOMAIN f \ {key} |-> f[k]]
<1>1. \A k, v : <<k, v>> \in Without(P, key) <=> k # key /\ <<k, v>> \in P
  BY DEF Without
<1>2. DOMAIN g = DOMAIN f \ {key}
  BY <1>1 DEF Represents
<1>3. ASSUME NEW k \in DOMAIN g PROVE g[k] = f[k]
  <2>1. <<k, g[k]>> \in Without(P, key)
    BY DEF Represents
  <2>2. <<k, g[k]>> \in P /\ <<k, f[k]>> \in P
    BY <1>1, <1>2, <2>1 DEF Represents
  <2> QED
    BY <2>2 DEF OneValue
<1> QED
  BY <1>2, <1>3 DEF Represents

\* That as an implication, which can be taken to the state after a step.
LEMMA HeldSound ==
  IInv => Represents(Held, InMap) /\ OneValue(InMap) /\ InMap \subseteq Keys \X Values
  BY HeldFacts

\* The refinement mapping after a step.
LEMMA HeldSoundNext ==
  IInv' => Represents(Held', InMap')
<1>1. (IInv => Represents(Held, InMap) /\ OneValue(InMap) /\ InMap \subseteq Keys \X Values)'
  BY HeldSound, PTL
<1> QED
  BY <1>1

-----------------------------------------------------------------------------
(***************************************************************************)
(* The calls.                                                              *)
(***************************************************************************)

\* hash_map_put keeps the invariant and puts one pair in.
LEMMA PutStep ==
  ASSUME IInv, NEW key \in Keys, NEW value \in Values, hash_map_put(key, value)
  PROVE  IInv' /\ InMap' = With(InMap, key, value)
<1>1. PICK m, p : m = hm /\ p = Put(m, key, value)
  OBVIOUS
<1>2. Sound(m) /\ 2 * m.num_elements <= m.capacity /\ hm' = p
  BY <1>1 DEF IInv, hash_map_put
<1>3. /\ Sound(p) /\ 2 * p.num_elements <= p.capacity
      /\ Pairs(p.capacity, p.data) = With(Pairs(m.capacity, m.data), key, value)
  BY ONLY <1>1, <1>2, PutSound, key \in Keys, value \in Values
<1> QED
  BY <1>1, <1>2, <1>3 DEF IInv, InMap

\* hash_map_get changes nothing.
LEMMA GetStep ==
  ASSUME IInv, NEW key \in Keys, hash_map_get(key)
  PROVE  IInv' /\ InMap' = InMap /\ Held' = Held
<1>1. hm' = hm
  BY DEF hash_map_get
<1> QED
  BY <1>1 DEF IInv, InMap, Held, KeysHeld, Contents, Occupied, Positions

\* hash_map_delete keeps the invariant and takes the key's pair out, if there is
\* one.
LEMMA DeleteStep ==
  ASSUME IInv, NEW key \in Keys, hash_map_delete(key)
  PROVE  /\ IInv'
         /\ Found(key) => InMap' = Without(InMap, key)
         /\ ~Found(key) => Held' = Held
<1>1. PICK m, p : m = hm /\ p = Deleted(m, key)
  OBVIOUS
<1>2. Sound(m) /\ 2 * m.num_elements <= m.capacity
  BY <1>1 DEF IInv
<1>3. CASE Found(key)
  <2>1. hm' = p /\ Valid(m.data, Probe(m, key))
    BY <1>1, <1>3 DEF hash_map_delete, Found
  <2>2. m.num_elements \in Nat /\ m.capacity \in Nat \ {0} /\ m.num_elements < m.capacity
    <3>1. m.num_elements \in Nat /\ m.capacity \in Nat \ {0}
      BY <1>2 DEF Sound, Good, Maps, Table
    <3> QED
      BY <1>2, <3>1
  <2>3. /\ Sound(p) /\ p.capacity = m.capacity /\ p.num_elements = m.num_elements - 1
        /\ Pairs(m.capacity, p.data) = Without(Pairs(m.capacity, m.data), key)
    BY ONLY <1>1, <1>2, <2>1, <2>2, DeletedSound, key \in Keys
  <2>4. 2 * p.num_elements <= p.capacity
    BY <1>2, <2>2, <2>3
  <2> QED
    BY <1>1, <1>3, <2>1, <2>3, <2>4 DEF IInv, InMap
<1>4. CASE ~Found(key)
  <2>1. hm' = hm
    BY <1>4 DEF hash_map_delete
  <2> QED
    BY <1>4, <2>1 DEF IInv, Held, KeysHeld, Contents, Occupied, Positions
<1> QED
  BY <1>3, <1>4

\* The invariant holds in every state.
LEMMA AlwaysIInv ==
  Spec => []IInv
<1>1. Init => IInv
  <2> SUFFICES ASSUME Init PROVE IInv
    OBVIOUS
  <2>1. PICK m : m = Empty(InitialCapacity)
    OBVIOUS
  <2>2. Sound(m) /\ m.num_elements = 0 /\ m.capacity = IF InitialCapacity > 0 THEN InitialCapacity ELSE 1
    BY ONLY <2>1, EmptySound, CapacityAssumption
  <2> QED
    BY <2>1, <2>2, CapacityAssumption DEF Init, IInv
<1>2. IInv /\ [Next]_vars => IInv'
  <2> SUFFICES ASSUME IInv, [Next]_vars PROVE IInv'
    OBVIOUS
  <2>1. ASSUME NEW key \in Keys, NEW value \in Values, hash_map_put(key, value) PROVE IInv'
    BY <2>1, PutStep
  <2>2. ASSUME NEW key \in Keys, hash_map_get(key) PROVE IInv'
    BY <2>2, GetStep
  <2>3. ASSUME NEW key \in Keys, hash_map_delete(key) PROVE IInv'
    BY <2>3, DeleteStep
  <2>4. CASE UNCHANGED vars
    BY <2>4 DEF vars, IInv
  <2> QED
    BY <2>1, <2>2, <2>3, <2>4 DEF Next
<1> QED
  BY <1>1, <1>2, PTL DEF Spec

\* After any calls, num_elements counts the valid entries and at least half of
\* the table is free, whatever the hash function and the initial capacity:
\* the loops of put, get, delete and adjust_gap all end.
THEOREM HalfIsFree ==
  Spec => []LoadBounded
<1>1. IInv => LoadBounded
  <2> SUFFICES ASSUME IInv PROVE LoadBounded
    OBVIOUS
  <2>1. Occupied = Occ(hm.capacity, hm.data)
    BY DEF Occupied, Positions, Occ
  <2>2. hm.capacity \in Nat \ {0} /\ hm.num_elements = Cardinality(Occ(hm.capacity, hm.data))
    BY DEF IInv, Sound, Good, Table, Counted
  <2> QED
    BY <2>1, <2>2 DEF LoadBounded, IInv
<1> QED
  BY <1>1, AlwaysIInv, PTL

\* After any calls, every entry can be reached from its hash position over
\* valid entries: neither growth nor the one pass of adjust_gap ever leaves an
\* entry that a probe would miss.
THEOREM EntriesReachable ==
  Spec => []Reachable
<1>1. IInv => Reachable
  <2> SUFFICES ASSUME IInv PROVE Reachable
    OBVIOUS
  <2>1. PICK c, d : c = hm.capacity /\ d = hm.data
    OBVIOUS
  <2>2. Table(c, d) /\ Clear(c, d) /\ c \in Nat \ {0} /\ Occupied = Occ(c, d)
    BY <2>1 DEF IInv, Sound, Good, Table, Occupied, Positions, Occ
  <2>3. ASSUME NEW i \in Occ(c, d), NEW h, h = Home(c, d, i),
               NEW n \in 0..((i - h + c) % c)
        PROVE  Valid(d, (h + n) % c)
    <3>1. i \in 0..(c - 1) /\ h \in 0..(c - 1)
      BY <2>2, <2>3, HomeFacts
    <3>2. (i - h + c) % c = Off(c, h, i) /\ Off(c, h, i) \in 0..(c - 1)
      <4>1. PICK x : x = i - h + c
        OBVIOUS
      <4>2. x \in Nat /\ x < 2 * c
        BY <2>2, <3>1, <4>1
      <4>3. (x < c => x % c = x) /\ (c <= x => x % c = x - c)
        <5>1. c \in Nat \ {0}
          BY <2>2
        <5> QED
          BY ONLY <5>1, <4>2, ModFacts
      <4> QED
        BY <2>2, <3>1, <4>1, <4>2, <4>3 DEF Off
    <3>3. n \in 0..(c - 1) /\ n <= Off(c, h, i)
      BY <2>2, <3>2
    <3>4. (h + n) % c \in 0..(c - 1) /\ Off(c, h, (h + n) % c) = n
      BY ONLY <2>2, <3>1, <3>3, OffFacts
    <3>5. (h + n) % c \in Occ(c, d)
      BY <2>2, <2>3, <3>3, <3>4 DEF Clear
    <3> QED
      BY <3>5 DEF Occ
  <2>4. ASSUME NEW i \in Occupied
        PROVE  HashPosition(hm, hm.data[i].key) = Home(c, d, i)
    BY <2>1 DEF HashPosition, Home
  <2> QED
    BY <2>1, <2>2, <2>3, <2>4 DEF Reachable
<1> QED
  BY <1>1, AlwaysIInv, PTL

\* Every step of the hash map is a step of the dictionary or leaves it as it is.
THEOREM MapIsDictionary ==
  Spec => ImplementsDictionary
<1>1. Init => Dict!Init
  <2> SUFFICES ASSUME Init PROVE Dict!Init
    OBVIOUS
  <2>1. PICK m : m = Empty(InitialCapacity)
    OBVIOUS
  <2>2. Pairs(m.capacity, m.data) = {}
    BY ONLY <2>1, EmptySound, CapacityAssumption
  <2>3. Occupied = {}
    BY <2>1, <2>2 DEF Init, Pairs, Occupied, Positions, Occ
  <2>4. KeysHeld = {}
    BY <2>3 DEF KeysHeld
  <2>5. Held = [k \in {} |-> 0]
    BY <2>4 DEF Held
  <2> QED
    BY <2>5 DEF Init, Dict!Init
<1>2. IInv /\ [Next]_vars => [Dict!Next]_<<Held, returned>>
  <2> SUFFICES ASSUME IInv, [Next]_vars PROVE [Dict!Next]_<<Held, returned>>
    OBVIOUS
  <2>1. Represents(Held, InMap) /\ OneValue(InMap) /\ InMap \subseteq Keys \X Values
    BY HeldSound
  <2>2. ASSUME NEW key \in Keys PROVE key \in DOMAIN Held <=> Found(key)
    BY <2>1, FoundFacts DEF Represents
  <2>3. ASSUME NEW key \in Keys, NEW value \in Values, hash_map_put(key, value)
        PROVE  Dict!Put(key, value)
    <3>1. Represents(Held', With(InMap, key, value))
      BY <2>3, PutStep, HeldSoundNext
    <3>2. PICK P, f, g : P = InMap /\ f = Held /\ g = Held'
      OBVIOUS
    <3>3. g = Updated(f, key, value)
      <4>1. Represents(f, P) /\ OneValue(P) /\ P \subseteq Keys \X Values
            /\ Represents(g, With(P, key, value))
        BY <2>1, <3>1, <3>2
      <4> QED
        BY ONLY <4>1, HeldPut, key \in Keys, value \in Values
    <3> QED
      BY <2>3, <3>2, <3>3 DEF Updated, hash_map_put, Return, Dict!Put, Dict!Return
  <2>4. ASSUME NEW key \in Keys, hash_map_get(key)
        PROVE  Dict!Get(key)
    <3>1. Held' = Held
      BY <2>4, GetStep
    <3>2. CASE Found(key)
      <4>1. hm.data[Probe(hm, key)].value = Held[key]
        <5>1. <<key, hm.data[Probe(hm, key)].value>> \in InMap
          BY <3>2, FoundFacts
        <5>2. <<key, Held[key]>> \in InMap
          BY <2>1, <2>2, <3>2 DEF Represents
        <5> QED
          BY <2>1, <5>1, <5>2 DEF OneValue
      <4> QED
        BY <2>2, <2>4, <3>1, <3>2, <4>1 DEF hash_map_get, Return, Dict!Get, Dict!Return
    <3>3. CASE ~Found(key)
      BY <2>2, <2>4, <3>1, <3>3 DEF hash_map_get, Return, Dict!Get, Dict!Return
    <3> QED
      BY <3>2, <3>3
  <2>5. ASSUME NEW key \in Keys, hash_map_delete(key)
        PROVE  Dict!Delete(key)
    <3>1. CASE Found(key)
      <4>1. Represents(Held', Without(InMap, key))
        BY <2>5, <3>1, DeleteStep, HeldSoundNext
      <4>2. Held' = [k \in DOMAIN Held \ {key} |-> Held[k]]
        BY ONLY <2>1, <2>5, <4>1, HeldDelete
      <4> QED
        BY <2>2, <2>5, <3>1, <4>2 DEF hash_map_delete, Return, Dict!Delete, Dict!Return
    <3>2. CASE ~Found(key)
      <4>1. Held' = Held /\ key \notin DOMAIN Held
        BY <2>2, <2>5, <3>2, DeleteStep
      <4>2. Held' = [k \in DOMAIN Held \ {key} |-> Held[k]]
        BY <2>1, <4>1 DEF Represents
      <4> QED
        BY <2>5, <3>2, <4>1, <4>2 DEF hash_map_delete, Return, Dict!Delete, Dict!Return
    <3> QED
      BY <3>1, <3>2
  <2>6. CASE UNCHANGED vars
    BY <2>6 DEF vars, Held, KeysHeld, Contents, Occupied, Positions
  <2> QED
    BY <2>3, <2>4, <2>5, <2>6 DEF Next, Dict!Next
<1> QED
  BY <1>1, <1>2, AlwaysIInv, PTL DEF Spec, ImplementsDictionary, Dict!Spec
=============================================================================
