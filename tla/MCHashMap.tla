----------------------------- MODULE MCHashMap -----------------------------
(***************************************************************************)
(* Five keys.  In the table of 8 entries any four of them form clusters    *)
(* around positions 6 to 1, past the end of the table; in smaller tables   *)
(* nearly all of them collide; the fifth makes the table grow to 16.       *)
(***************************************************************************)
EXTENDS HashMap, TLC

FiveHashes == (1 :> 6) @@ (2 :> 14) @@ (3 :> 7) @@ (4 :> 15) @@ (5 :> 0)
=============================================================================
