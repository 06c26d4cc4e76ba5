----------------------------- MODULE MCKallocAvl -----------------------------
(* Instances of KallocAvl. *)
EXTENDS KallocAvl

\* Thirteen holes for twelve nodes, which a removal that rotates at two levels
\* needs.  Every fourth hole has the size of the one before it, so that only
\* its address orders it; the addresses alternate between aligned and not.
ThirteenHoles ==
  {Hole(2 * (IF i % 4 = 0 THEN i - 1 ELSE i), 8 * i + ((3 * i) % 5)) : i \in 1..13}
=============================================================================
