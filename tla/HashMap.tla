------------------------------- MODULE HashMap -------------------------------
(***************************************************************************)
(* The hash map of hash_map.h, which holds the system call stubs and the   *)
(* file descriptors of a process: open addressing with linear probing, a   *)
(* table that doubles when it is more than half full, and a deletion that  *)
(* moves later entries of the cluster back instead of leaving a tombstone. *)
(*                                                                         *)
(* The table is a function on 0..capacity-1 to its entries; an entry that  *)
(* is not valid is Invalid.  A loop over the table is a search for the     *)
(* first position at which it stops.  kalloc_alloc never returns 0 (it     *)
(* panics), so neither creation nor growth fails.                          *)
(***************************************************************************)
EXTENDS Integers, FiniteSets

CONSTANTS
  Keys,             \* bound: the keys
  Values,           \* bound: the values
  Hash,             \* key_hash_func: a function on Keys
  InitialCapacity,  \* the argument of hash_map_create
  MaxCapacity       \* bound: the largest table

ASSUME HashAssumption == Hash \in [Keys -> Nat]
ASSUME CapacityAssumption == InitialCapacity \in Nat /\ MaxCapacity \in Nat

VARIABLES
  hm,       \* Hash_Map
  returned  \* the last call and what it returned

vars == <<hm, returned>>

Invalid == [valid |-> 0]
Entry(key, value) == [valid |-> 1, key |-> key, value |-> value]

\* hash_map_create
Empty(initial_capacity) ==
  LET capacity == IF initial_capacity > 0 THEN initial_capacity ELSE 1
  IN  [capacity |-> capacity, num_elements |-> 0,
       data |-> [i \in 0..(capacity - 1) |-> Invalid]]

Valid(data, i) == data[i].valid = 1

\* The i-th position a probe for key looks at, and the first at which it stops:
\* an entry that is not valid, or the key's.
HashPosition(m, key) == Hash[key] % m.capacity
ProbeAt(m, key, i) == (HashPosition(m, key) + i) % m.capacity
Stops(m, key, i) ==
  \/ ~Valid(m.data, ProbeAt(m, key, i))
  \/ m.data[ProbeAt(m, key, i)].key = key
Probe(m, key) ==
  ProbeAt(m, key, CHOOSE i \in 0..(m.capacity - 1) :
                    Stops(m, key, i) /\ \A j \in 0..(i - 1) : ~Stops(m, key, j))

\* hash_map_put without its growth.
Placed(m, key, value) ==
  LET pos == Probe(m, key)
  IN  [m EXCEPT !.data[pos] = Entry(key, value),
                !.num_elements = IF Valid(m.data, pos) THEN @ ELSE @ + 1]

\* Mutant: the bound is not kept at exactly one half.
TooFull_Late(m) == m.num_elements > m.capacity

TooFull(m) == 2 * m.num_elements > m.capacity

\* Mutant: the entries stay where they were.
Grown_InPlace(m) ==
  [m EXCEPT !.capacity = 2 * @,
            !.data = [i \in 0..(2 * m.capacity - 1) |->
                        IF i < m.capacity THEN m.data[i] ELSE Invalid]]

\* One round of hash_map_grow: the entry at pos, if it is valid, is put in the
\* new table.  That table never grows in turn.
Copied(m, pos, new) ==
  IF Valid(m.data, pos) THEN Placed(new, m.data[pos].key, m.data[pos].value) ELSE new

\* hash_map_grow: the entries, in the order they are stored, are put in a table
\* of twice the size.
Grown(m) ==
  LET new[n \in 0..m.capacity] ==
        IF n = 0 THEN Empty(2 * m.capacity) ELSE Copied(m, n - 1, new[n - 1])
  IN  new[m.capacity]

Put(m, key, value) ==
  LET placed == Placed(m, key, value)
  IN  IF TooFull(placed) THEN Grown(placed) ELSE placed

\* Mutant: a wrapped position is not counted from its hash position on.
MayFill_NoWrap(m, gap, pos) ==
  HashPosition(m, m.data[pos].key) <= gap

\* The gap lies on the way from the hash position of the entry at pos to pos.
MayFill(m, gap, pos) ==
  LET home   == HashPosition(m, m.data[pos].key)
      From(i) == IF i < home THEN i + m.capacity ELSE i
  IN  From(gap) >= home /\ From(gap) <= From(pos)

\* One round of adjust_gap: the entry at pos, if it may, fills the gap and
\* leaves one where it was; an entry that is not valid ends the loop.
Round(m, loop, pos) ==
  IF loop.done \/ ~Valid(loop.data, pos) THEN [loop EXCEPT !.done = TRUE]
  ELSE IF MayFill([m EXCEPT !.data = loop.data], loop.gap, pos)
  THEN [data |-> [loop.data EXCEPT ![loop.gap] = loop.data[pos], ![pos] = Invalid],
        gap |-> pos, done |-> FALSE]
  ELSE loop

\* adjust_gap: one pass over the rest of the cluster.
Adjusted(m, first) ==
  LET loop[n \in 0..m.capacity] ==
        IF n = 0 THEN [data |-> m.data, gap |-> first, done |-> FALSE]
        ELSE Round(m, loop[n - 1], (first + n) % m.capacity)
  IN  [m EXCEPT !.data = loop[m.capacity].data]

\* hash_map_delete of a key that is there.
Deleted(m, key) ==
  LET pos     == Probe(m, key)
      removed == [m EXCEPT !.data[pos] = Invalid]
  IN  [Adjusted(removed, pos) EXCEPT !.num_elements = @ - 1]

-----------------------------------------------------------------------------
\* The calls.  Success is 0, failure -1; a get that succeeds copies a value.

Return(op, key, status, value) ==
  returned' = [op |-> op, key |-> key, status |-> status, value |-> value]

Found(key) == Valid(hm.data, Probe(hm, key))

Init ==
  /\ hm = Empty(InitialCapacity)
  /\ returned = [op |-> "create", key |-> 0, status |-> 0, value |-> 0]

hash_map_put(key, value) ==
  /\ hm' = Put(hm, key, value)
  /\ hm'.capacity <= MaxCapacity
  /\ Return("put", key, 0, 0)

hash_map_get(key) ==
  /\ IF Found(key)
     THEN Return("get", key, 0, hm.data[Probe(hm, key)].value)
     ELSE Return("get", key, -1, 0)
  /\ UNCHANGED hm

hash_map_delete(key) ==
  /\ IF Found(key)
     THEN hm' = Deleted(hm, key) /\ Return("delete", key, 0, 0)
     ELSE UNCHANGED hm /\ Return("delete", key, -1, 0)

Next ==
  \E key \in Keys :
    \/ \E value \in Values : hash_map_put(key, value)
    \/ hash_map_get(key)
    \/ hash_map_delete(key)

Spec == Init /\ [][Next]_vars

-----------------------------------------------------------------------------
\* Properties.

Positions == 0..(hm.capacity - 1)
Occupied == {i \in Positions : Valid(hm.data, i)}

\* Every entry can be reached from the hash position of its key over valid
\* entries only, whatever was deleted or moved in between.  A probe that met
\* an invalid entry on the way would miss the key, and a put would then store
\* it a second time.
Reachable ==
  \A i \in Occupied :
    LET home == HashPosition(hm, hm.data[i].key)
        distance == (i - home + hm.capacity) % hm.capacity
    IN  \A d \in 0..distance : Valid(hm.data, (home + d) % hm.capacity)

\* num_elements counts the valid entries, and they are never more than half of
\* the table when a call returns: some entry is not valid, so that the
\* endless loops of put, get, delete and adjust_gap all come to one.
LoadBounded ==
  /\ hm.capacity > 0
  /\ hm.num_elements = Cardinality(Occupied)
  /\ 2 * hm.num_elements <= hm.capacity

\* What the map holds, as a caller sees it.
Contents == {<<hm.data[i].key, hm.data[i].value>> : i \in Occupied}
KeysHeld == {hm.data[i].key : i \in Occupied}
Held == [k \in KeysHeld |-> CHOOSE v \in Values : <<k, v>> \in Contents]
Dict == INSTANCE Dictionary WITH held <- Held, returned <- returned

\* The map behaves as a dictionary: a get returns what was last put for the
\* key and not deleted since, through growth and through the moves of
\* adjust_gap.
ImplementsDictionary == Dict!Spec
==============================================================================
