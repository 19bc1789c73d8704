-------------------------------- MODULE DmaRx --------------------------------
(***************************************************************************)
(* Reception: the DMA writer engine fills the ring of buffers, the handler *)
(* counts, and one client thread takes the buffers with read().            *)
(*                                                                         *)
(* A buffer is its sequence number since the start of the engine.  The     *)
(* engine is always filling one slot; while it does, and for a copy that   *)
(* it overtakes, the content is Torn.  The client is one thread: it is in  *)
(* read() or in the start/stop code, never in both; open() may come from   *)
(* any process.                                                            *)
(***************************************************************************)
EXTENDS DmaChannel

CONSTANTS CopyLag,   \* environment: buffers the engine completes at most
                     \* while copy_to_user() copies one
          MaxLen     \* bound on the buffers asked for by one read()

ASSUME RingAssumption == BufferCount >= 2
ASSUME CopyLagAssumption == CopyLag \in Nat
ASSUME MaxLenAssumption == MaxLen \in Nat

VARIABLES
  buf,    \* the ring: the sequence number each slot holds, or Torn
  rd,     \* the client thread: where it is in read(), the buffers still to
          \* be read (len), and for a copy in progress the position of the
          \* engine (at) and the content (seen) when it began
  out     \* what the client last got: a copied buffer or one counted lost

rxVars == <<buf, rd, out>>
vars == <<hw_enable, pos, msi, msi_enable, hw_count, hw_count_last,
          sw_count, enable, isr, ctl, buf, rd, out>>

Torn == -1
RdPc == {"user", "check", "sleep", "loop", "copy"}
User == [pc |-> "user", len |-> 0, at |-> 0, seen |-> Torn]

Init ==
  /\ ChInit
  /\ buf = [s \in 0..(BufferCount - 1) |-> Torn]
  /\ rd = User
  /\ out = [kind |-> "none", seq |-> 0]

\* writer_hw_count - writer_sw_count
Available == hw_count - sw_count

-----------------------------------------------------------------------------
(* The engine and the handler.                                             *)

\* The engine completes the slot it was filling and goes on to the next one.
\* Two bounds on the environment: a copy takes at most CopyLag buffers, and
\* the client is never a whole Span (2^24 buffers) behind.
RxComplete ==
  /\ HwComplete
  /\ rd.pc = "copy" => pos < rd.at + CopyLag
  /\ pos < sw_count + Span
  /\ buf' = [buf EXCEPT ![Slot(pos)] = pos, ![Slot(pos + 1)] = Torn]
  /\ UNCHANGED <<rd, out>>

\* Faulty: the waiters are not woken.
WakeNobody == rd' = rd

\* wake_up_interruptible(&chan->wait_rd) after the counters are stored.
Wake == rd' = IF rd.pc = "sleep" THEN [rd EXCEPT !.pc = "check"] ELSE rd

RxIrqDone == IrqDone /\ Wake /\ UNCHANGED <<buf, out>>

RxIrqStep ==
  /\ IrqDeliver \/ IrqEnter \/ IrqStatus \/ IrqUpdateSplit
  /\ UNCHANGED rxVars

RxIrq == RxIrqStep \/ RxIrqDone

-----------------------------------------------------------------------------
(* The start/stop code, by the same thread as read().                      *)

\* A started engine begins at slot 0; nothing of an earlier run counts.
RxStart ==
  /\ rd.pc = "user"
  /\ StartEngine
  /\ buf' = [s \in 0..(BufferCount - 1) |-> Torn]
  /\ UNCHANGED <<rd, out>>

RxControl ==
  /\ rd.pc = "user"
  /\ StartIrq \/ StartFlag \/ StopMask \/ StopFlush \/ StopClear
  /\ UNCHANGED rxVars

RxOpen == Open /\ UNCHANGED rxVars

-----------------------------------------------------------------------------
(* litepcie_read() for a multiple of DMA_BUFFER_SIZE bytes.                *)

\* A blocking read() of n buffers.
RdCall(n) ==
  /\ rd.pc = "user"
  /\ ctl = "idle"
  /\ rd' = [rd EXCEPT !.pc = "check", !.len = n]
  /\ UNCHANGED <<chVars, buf, out>>

\* With O_NONBLOCK: -EAGAIN, a stutter, when the counters are equal.
RdCallNonblock(n) ==
  /\ rd.pc = "user"
  /\ ctl = "idle"
  /\ hw_count # sw_count
  /\ rd' = [rd EXCEPT !.pc = "loop", !.len = n]
  /\ UNCHANGED <<chVars, buf, out>>

\* wait_event_interruptible(): the task is on wait_rd before it tests the
\* condition.
RdCheck ==
  /\ rd.pc = "check"
  /\ rd' = [rd EXCEPT !.pc = IF Available > 0 THEN "loop" ELSE "sleep"]
  /\ UNCHANGED <<chVars, buf, out>>

\* A signal ends the wait with -ERESTARTSYS.
RdSignal ==
  /\ rd.pc = "sleep"
  /\ rd' = User
  /\ UNCHANGED <<chVars, buf, out>>

\* The loop ends: nothing left to read, or nothing more available.
RdReturn ==
  /\ rd.pc = "loop"
  /\ rd.len = 0 \/ Available <= 0
  /\ rd' = User
  /\ UNCHANGED <<chVars, buf, out>>

\* Faulty: half a ring is already too much.
RdOverflowEarly ==
  /\ rd.pc = "loop"
  /\ rd.len > 0
  /\ Available >= BufferCount \div 2
  /\ Advance
  /\ out' = [kind |-> "lost", seq |-> sw_count]
  /\ rd' = [rd EXCEPT !.len = rd.len - 1]
  /\ UNCHANGED buf

\* More than half a ring behind: the buffer is counted as lost.
RdOverflow ==
  /\ rd.pc = "loop"
  /\ rd.len > 0
  /\ Available > BufferCount \div 2
  /\ Advance
  /\ out' = [kind |-> "lost", seq |-> sw_count]
  /\ rd' = [rd EXCEPT !.len = rd.len - 1]
  /\ UNCHANGED buf

\* Faulty: late buffers are copied too.
RdCopyLate ==
  /\ rd.pc = "loop"
  /\ rd.len > 0
  /\ Available > 0
  /\ rd' = [rd EXCEPT !.pc = "copy", !.at = pos, !.seen = buf[Slot(sw_count)]]
  /\ UNCHANGED <<chVars, buf, out>>

\* copy_to_user() starts ...
RdCopy ==
  /\ rd.pc = "loop"
  /\ rd.len > 0
  /\ Available > 0
  /\ Available <= BufferCount \div 2
  /\ rd' = [rd EXCEPT !.pc = "copy", !.at = pos, !.seen = buf[Slot(sw_count)]]
  /\ UNCHANGED <<chVars, buf, out>>

\* ... and is complete: what was copied is the content of the slot if it did
\* not change under the copy.
RdCopied ==
  /\ rd.pc = "copy"
  /\ Advance
  /\ out' = [kind |-> "data",
             seq |-> IF buf[Slot(sw_count)] = rd.seen THEN rd.seen ELSE Torn]
  /\ rd' = [User EXCEPT !.pc = "loop", !.len = rd.len - 1]
  /\ UNCHANGED buf

\* copy_to_user() fails: -EFAULT, also for the buffers already consumed.
RdFault ==
  /\ rd.pc = "copy"
  /\ rd' = User
  /\ UNCHANGED <<chVars, buf, out>>

Rd ==
  \/ \E n \in 1..MaxLen : RdCall(n) \/ RdCallNonblock(n)
  \/ RdCheck \/ RdSignal \/ RdReturn \/ RdOverflow \/ RdCopy \/ RdCopied
  \/ RdFault

Next == RxComplete \/ RxIrq \/ RxStart \/ RxControl \/ RxOpen \/ Rd

Spec == Init /\ [][Next]_vars

\* The CPU serves a raised interrupt and the scheduler runs a woken thread.
Fairness == WF_vars(RxIrq) /\ WF_vars(RdCheck)

LiveSpec == Spec /\ Fairness

-----------------------------------------------------------------------------
\* The types of the client's part of the state.
RxTypeOK ==
  /\ buf \in [0..(BufferCount - 1) -> Int]
  /\ rd \in [pc : RdPc, len : Nat, at : Nat, seen : Int]
  /\ out \in [kind : {"none", "data", "lost"}, seq : Int]

\* From the first to the last byte of a copy, the slot holds the buffer the
\* client is owed: the test against DMA_BUFFER_COUNT/2 on a count that is up
\* to an interrupt period old leaves enough room for the copy
\* (main.c:475-484, "Reading too late, %d buffers lost").
CopyIntact ==
  rd.pc = "copy" => buf[Slot(sw_count)] = sw_count /\ rd.seen = sw_count

\* No buffer is handed to the client with torn or foreign content: a buffer
\* that came too late is counted as lost (main.c:490).
NoTornRead == out.kind = "data" => out.seq # Torn

\* read() gives the client the stream RxStream promises.
Stream == INSTANCE RxStream WITH
  Half     <- BufferCount \div 2,
  produced <- pos,
  next     <- IF ctl = "clear" THEN 0 ELSE sw_count,
  got      <- out

RxImplementsStream == Stream!RxsSpec

\* A reader asleep in read() wakes once the engine is two interrupt periods
\* past it: no order of the handler's store and wake-up with the reader's
\* test of the condition loses the wake-up (main.c:370-379, 460-461).  One
\* period would do, were it not for an open() that forgets the first one.
RdNotStranded ==
  (rd.pc = "sleep" /\ pos >= sw_count + 2 * BufferPerIrq) ~> (rd.pc # "sleep")

-----------------------------------------------------------------------------
(* The inductive invariant.                                                *)

\* The distance between the oldest buffer a copy may start on and the slot
\* the engine is filling, at the end of the copy, is less than the ring.
RingMargin == BufferCount \div 2 + IrqLag + CopyLag < BufferCount

\* The last BufferCount - 1 complete buffers are in the ring, each in its
\* slot.
RingHolds ==
  \A s \in 0..(pos - 1) : pos < s + BufferCount => buf[Slot(s)] = s

\* The client never consumes what is not complete, and is not a Span behind.
ClientBehind ==
  ctl # "clear" => sw_count <= hw_count_last /\ pos <= sw_count + Span

\* read() and the start/stop code exclude each other; a start has cleared
\* the client's count.
OneThread ==
  /\ rd.pc # "user" => ctl = "idle"
  /\ ctl \in {"irq", "flag"} => sw_count = 0

\* What is known of a copy in progress.
CopyInProgress ==
  rd.pc = "copy" =>
    /\ enable
    /\ rd.len > 0
    /\ sw_count < hw_count_last
    /\ rd.at <= pos /\ pos <= rd.at + CopyLag
    /\ rd.at <= sw_count + BufferCount \div 2 + IrqLag
    /\ rd.seen = sw_count

\* Everything the steps of reception preserve together.
RxInv ==
  /\ ChInv
  /\ RxTypeOK
  /\ RingHolds
  /\ ClientBehind
  /\ OneThread
  /\ CopyInProgress
=============================================================================
