---------------------------- MODULE MCDmaChannel ----------------------------
(* DmaChannel for TLC: the client's count is kept out of the way by a      *)
(* bound, the engine goes past one wrap of LOOP_STATUS.                    *)
EXTENDS DmaChannel

\* Bound on the client's count, which no property of this module reads.
MCSwBound == 1

MCAdvance == sw_count < MCSwBound /\ Advance

MCNext == HwComplete \/ Irq \/ Control \/ Open \/ MCAdvance

MCSpec == ChInit /\ [][MCNext]_chVars
=============================================================================
