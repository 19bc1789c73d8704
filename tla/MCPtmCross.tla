----------------------------- MODULE MCPtmCross -----------------------------
(* PtmCross for TLC: the clock jumps in both directions.                   *)
EXTENDS PtmCross

MCJumps == {-3, 5}
=============================================================================
