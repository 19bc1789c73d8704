---------------------------- MODULE LoopCounter ----------------------------
(***************************************************************************)
(* The buffer counters of software/kernel/main.c.                          *)
(*                                                                         *)
(* A DMA engine works through a table of DMA_BUFFER_COUNT descriptors in a *)
(* loop and exposes how far it is in its LOOP_STATUS register: the index   *)
(* in the table (low half) and a 16-bit count of completed loops (high     *)
(* half).  The interrupt handler turns that register, which wraps every    *)
(* DMA_BUFFER_COUNT * 2^16 buffers, into a 64-bit running count.           *)
(* All operators here are pure; nothing is recursive.                      *)
(***************************************************************************)
EXTENDS Integers

CONSTANTS BufferCount,    \* DMA_BUFFER_COUNT, descriptors in the table
          LoopCountMod    \* 2^16, values of the loop count of LOOP_STATUS

ASSUME BufferCountAssumption  == BufferCount \in Nat \ {0}
ASSUME LoopCountModAssumption == LoopCountMod \in Nat \ {0}

\* The masks of the handler are those of a power of two.
ASSUME PowerOfTwoAssumption ==
  \E k \in 0..BufferCount : 2^k = BufferCount

\* The number of buffers after which LOOP_STATUS is back at zero:
\* 1 << (ilog2(DMA_BUFFER_COUNT) + 16) in the handler.
Span == BufferCount * LoopCountMod

\* The LOOP_STATUS register once `pos' buffers are complete (gateware).
LoopStatus(pos) == [index |-> pos % BufferCount,
                    count |-> (pos \div BufferCount) % LoopCountMod]

\* (loop_status >> 16) * DMA_BUFFER_COUNT + (loop_status & 0xffff)
StatusCount(status) == status.count * BufferCount + status.index

\* Faulty: nothing is masked.
MaskNothing(hw) == hw

\* hw_count &= ((~(DMA_BUFFER_COUNT - 1) << 16) & 0xffffffffffff0000): the
\* bits at and above Span are kept.
MaskHigh(hw) == (hw \div Span) * Span

\* The count after the mask and the "or", before the carry is looked at.
Merged(hw, status) == MaskHigh(hw) + StatusCount(status)

\* Faulty: no carry.
CarryForgotten(last, merged) == merged

\* if (hw_count_last > hw_count) hw_count += Span
Carry(last, merged) == IF last > merged THEN merged + Span ELSE merged

\* One run of the handler on the count `hw', which is also hw_count_last.
Unwrap(hw, status) == Carry(hw, Merged(hw, status))

\* The slot of the ring a running count stands for: sw_count%DMA_BUFFER_COUNT.
Slot(n) == n % BufferCount
=============================================================================
