-------------------------- MODULE MCDualDynamicArray --------------------------
(* Minimum capacity 2 and up to five pairs: capacities 2, 4 and 8, with    *)
(* growth at 2 -> 3 and 4 -> 5 and the shrink at 5 -> 4.                   *)
EXTENDS DualDynamicArray

CONSTANTS v, w

MCKeys == 1 .. 5
MCValues == {v, w}
=============================================================================
