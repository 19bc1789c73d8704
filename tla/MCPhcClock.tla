----------------------------- MODULE MCPhcClock -----------------------------
(* The PTP clock and the pulse generator for TLC: shifts in both            *)
(* directions, the longer one carries into the upper half.                 *)
EXTENDS PpsGenerator, TLC

MCDeltas == {-6, 5}

MCSymmetry == Permutations(Callers)
=============================================================================
