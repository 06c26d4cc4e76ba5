----------------------------- MODULE Dictionary -----------------------------
(***************************************************************************)
(* What a caller of hash_map.h relies on: "Put an element", "Get an        *)
(* element", "Delete an element", each returning "0 if sucess, -1          *)
(* otherwise" (hash_map.h:30-39).                                          *)
(***************************************************************************)
EXTENDS Integers

CONSTANTS Keys, Values

VARIABLES
  held,     \* key |-> value
  returned  \* the last call and what it returned

Return(op, key, status, value) ==
  returned' = [op |-> op, key |-> key, status |-> status, value |-> value]

Init ==
  /\ held = [k \in {} |-> 0]
  /\ returned = [op |-> "create", key |-> 0, status |-> 0, value |-> 0]

Put(key, value) ==
  /\ held' = [k \in DOMAIN held \cup {key} |-> IF k = key THEN value ELSE held[k]]
  /\ Return("put", key, 0, 0)

Get(key) ==
  /\ IF key \in DOMAIN held
     THEN Return("get", key, 0, held[key])
     ELSE Return("get", key, -1, 0)
  /\ UNCHANGED held

Delete(key) ==
  /\ held' = [k \in DOMAIN held \ {key} |-> held[k]]
  /\ Return("delete", key, IF key \in DOMAIN held THEN 0 ELSE -1, 0)

Next ==
  \E key \in Keys :
    \/ \E value \in Values : Put(key, value)
    \/ Get(key)
    \/ Delete(key)

Spec == Init /\ [][Next]_<<held, returned>>
=============================================================================
