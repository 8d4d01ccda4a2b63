----------------------------- MODULE MCHumiture -----------------------------
(* Days of two hours, the clock from the first day's begin to the second's *)
(* end: one midnight, and a full hour before and after it.                 *)
EXTENDS Humiture, TLC

CONSTANTS d1, d2

MCDevices == {d1, d2}
Symmetry == Permutations(MCDevices)
=============================================================================
