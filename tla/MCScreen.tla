------------------------------ MODULE MCScreen ------------------------------
(***************************************************************************)
(* Screen for TLC: no text, and texts with a line break at either end.     *)
(* The processes are interchangeable.                                      *)
(***************************************************************************)
EXTENDS Screen, TLC

AllTexts == {<<>>, <<Ink, Newline>>, <<Newline, Ink, Ink>>}

Symmetry == Permutations(Procs)
=============================================================================
