-------------------------------- MODULE DmaTx --------------------------------
(***************************************************************************)
(* Transmission: one client thread puts buffers into the ring with         *)
(* write(), the DMA reader engine fetches slot after slot, whether or not  *)
(* the client has filled it, and the handler counts what was fetched.      *)
(*                                                                         *)
(* A buffer is its sequence number since the start of the engine.  A slot  *)
(* the client is copying into is Torn, as is what an engine that fetches   *)
(* it meanwhile sends.  The client is one thread: it is in write() or in   *)
(* the start/stop code, never in both; open() may come from any process.   *)
(***************************************************************************)
EXTENDS DmaChannel

CONSTANT MaxLen      \* bound on the buffers given to one write()

ASSUME RingAssumption == BufferCount >= 2
ASSUME MaxLenAssumption == MaxLen \in Nat

VARIABLES
  buf,     \* the ring: the sequence number each slot holds, or Torn
  latch,   \* what the slot being fetched held when its fetch began
  wr,      \* the client thread: where it is in write(), the buffers left
  out,     \* what became of the last buffer given to write(): "written" or
           \* counted "lost", and the engine's position at that moment
  due,     \* buffers that were complete before the engine began to fetch
           \* them, and are not sent yet
  sent     \* the last buffer the engine sent: its number, what was in it,
           \* and whether it had been due

txVars == <<buf, latch, wr, out, due, sent>>
vars == <<hw_enable, pos, msi, msi_enable, hw_count, hw_count_last,
          sw_count, enable, isr, ctl, buf, latch, wr, out, due, sent>>

Torn == -1
Half == BufferCount \div 2
WrPc == {"user", "check", "sleep", "loop", "copy"}
User == [pc |-> "user", len |-> 0]

Init ==
  /\ ChInit
  /\ buf = [s \in 0..(BufferCount - 1) |-> Torn]
  /\ latch = Torn
  /\ wr = User
  /\ out = [kind |-> "none", seq |-> 0, at |-> 0]
  /\ due = {}
  /\ sent = [seq |-> 0, data |-> Torn, due |-> FALSE]

\* reader_sw_count - reader_hw_count
Queued == sw_count - hw_count

-----------------------------------------------------------------------------
(* The engine and the handler.                                             *)

\* The engine has sent the slot it was fetching and begins with the next.
\* The client is never a whole Span (2^24 buffers) behind.
TxComplete ==
  /\ HwComplete
  /\ pos < sw_count + Span
  /\ sent' = [seq |-> pos,
              data |-> IF buf[Slot(pos)] = latch THEN latch ELSE Torn,
              due |-> pos \in due]
  /\ due' = due \ {pos}
  /\ latch' = buf[Slot(pos + 1)]
  /\ UNCHANGED <<buf, wr, out>>

\* Faulty: the waiters are not woken.
WakeNobody == wr' = wr

\* wake_up_interruptible(&chan->wait_wr) after the counters are stored.
Wake == wr' = IF wr.pc = "sleep" THEN [wr EXCEPT !.pc = "check"] ELSE wr

TxIrqDone == IrqDone /\ Wake /\ UNCHANGED <<buf, latch, out, due, sent>>

TxIrqStep ==
  /\ IrqDeliver \/ IrqEnter \/ IrqStatus \/ IrqUpdateSplit
  /\ UNCHANGED txVars

TxIrq == TxIrqStep \/ TxIrqDone

-----------------------------------------------------------------------------
(* The start/stop code, by the same thread as write().                     *)

\* A started engine begins at slot 0; nothing of an earlier run counts.
TxStart ==
  /\ wr.pc = "user"
  /\ StartEngine
  /\ buf' = [s \in 0..(BufferCount - 1) |-> Torn]
  /\ latch' = Torn
  /\ UNCHANGED <<wr, out, due, sent>>

TxControl ==
  /\ wr.pc = "user"
  /\ StartIrq \/ StartFlag \/ StopMask \/ StopClear
  /\ UNCHANGED txVars

\* A flush drops the buffers that are still in the ring.
TxFlush ==
  /\ wr.pc = "user"
  /\ StopFlush
  /\ due' = {}
  /\ UNCHANGED <<buf, latch, wr, out, sent>>

TxOpen == Open /\ UNCHANGED txVars

-----------------------------------------------------------------------------
(* litepcie_write() for a multiple of DMA_BUFFER_SIZE bytes.               *)

\* A blocking write() of n buffers.
WrCall(n) ==
  /\ wr.pc = "user"
  /\ ctl = "idle"
  /\ wr' = [pc |-> "check", len |-> n]
  /\ UNCHANGED <<chVars, buf, latch, out, due, sent>>

\* With O_NONBLOCK: -EAGAIN, a stutter, when the counters are equal.
WrCallNonblock(n) ==
  /\ wr.pc = "user"
  /\ ctl = "idle"
  /\ hw_count # sw_count
  /\ wr' = [pc |-> "loop", len |-> n]
  /\ UNCHANGED <<chVars, buf, latch, out, due, sent>>

\* wait_event_interruptible(): the task is on wait_wr before it tests the
\* condition.
WrCheck ==
  /\ wr.pc = "check"
  /\ wr' = [wr EXCEPT !.pc = IF Queued < Half THEN "loop" ELSE "sleep"]
  /\ UNCHANGED <<chVars, buf, latch, out, due, sent>>

\* A signal ends the wait with -ERESTARTSYS.
WrSignal ==
  /\ wr.pc = "sleep"
  /\ wr' = User
  /\ UNCHANGED <<chVars, buf, latch, out, due, sent>>

\* The loop ends: nothing left to write, or half the ring is full.
WrReturn ==
  /\ wr.pc = "loop"
  /\ wr.len = 0 \/ Queued >= Half
  /\ wr' = User
  /\ UNCHANGED <<chVars, buf, latch, out, due, sent>>

\* Faulty: the buffer the engine is about to fetch is given up.
WrUnderflowEarly ==
  /\ wr.pc = "loop"
  /\ wr.len > 0
  /\ Queued <= 0
  /\ Queued < Half
  /\ Advance
  /\ out' = [kind |-> "lost", seq |-> sw_count, at |-> pos]
  /\ wr' = [wr EXCEPT !.len = wr.len - 1]
  /\ UNCHANGED <<buf, latch, due, sent>>

\* The engine is already past this buffer: it is counted as lost.
WrUnderflow ==
  /\ wr.pc = "loop"
  /\ wr.len > 0
  /\ Queued < 0
  /\ Queued < Half
  /\ Advance
  /\ out' = [kind |-> "lost", seq |-> sw_count, at |-> pos]
  /\ wr' = [wr EXCEPT !.len = wr.len - 1]
  /\ UNCHANGED <<buf, latch, due, sent>>

\* Faulty: the ring is filled beyond its half.
WrCopyFull ==
  /\ wr.pc = "loop"
  /\ wr.len > 0
  /\ Queued >= 0
  /\ Queued <= BufferCount
  /\ buf' = [buf EXCEPT ![Slot(sw_count)] = Torn]
  /\ wr' = [wr EXCEPT !.pc = "copy"]
  /\ UNCHANGED <<chVars, latch, out, due, sent>>

\* copy_from_user() starts ...
WrCopy ==
  /\ wr.pc = "loop"
  /\ wr.len > 0
  /\ Queued >= 0
  /\ Queued < Half
  /\ buf' = [buf EXCEPT ![Slot(sw_count)] = Torn]
  /\ wr' = [wr EXCEPT !.pc = "copy"]
  /\ UNCHANGED <<chVars, latch, out, due, sent>>

\* ... and is complete.  What is written before the engine is started is
\* not due: the start clears the count it was written under.
WrCopied ==
  /\ wr.pc = "copy"
  /\ Advance
  /\ buf' = [buf EXCEPT ![Slot(sw_count)] = sw_count]
  /\ due' = IF enable /\ pos < sw_count THEN due \cup {sw_count} ELSE due
  /\ out' = [kind |-> "written", seq |-> sw_count, at |-> pos]
  /\ wr' = [pc |-> "loop", len |-> wr.len - 1]
  /\ UNCHANGED <<latch, sent>>

\* copy_from_user() fails: -EFAULT, also for the buffers already accepted.
WrFault ==
  /\ wr.pc = "copy"
  /\ wr' = User
  /\ UNCHANGED <<chVars, buf, latch, out, due, sent>>

Wr ==
  \/ \E n \in 1..MaxLen : WrCall(n) \/ WrCallNonblock(n)
  \/ WrCheck \/ WrSignal \/ WrReturn \/ WrUnderflow \/ WrCopy \/ WrCopied
  \/ WrFault

Next == TxComplete \/ TxIrq \/ TxStart \/ TxControl \/ TxFlush \/ TxOpen \/ Wr

Spec == Init /\ [][Next]_vars

\* The CPU serves a raised interrupt and the scheduler runs a woken thread.
Fairness == WF_vars(TxIrq) /\ WF_vars(WrCheck)

LiveSpec == Spec /\ Fairness

-----------------------------------------------------------------------------
\* The types of the client's and the engine's data.
TxTypeOK ==
  /\ buf \in [0..(BufferCount - 1) -> Int]
  /\ latch \in Int
  /\ wr \in [pc : WrPc, len : Nat]
  /\ out \in [kind : {"none", "written", "lost"}, seq : Nat, at : Nat]
  /\ due \subseteq Nat
  /\ sent \in [seq : Nat, data : Int, due : BOOLEAN]

\* A buffer that was in the ring before the engine began to fetch it is sent
\* exactly as written: write() never overwrites a slot the engine still has
\* to send, though the count it tests is up to an interrupt period old
\* (main.c:526-536).
DueSentIntact == sent.due => sent.data = sent.seq

\* A buffer write() accepts without counting it as lost is in time for the
\* engine: "Writing too late, %d buffers lost" (main.c:544) names the others.
AcceptedInTime == out.kind = "written" => out.at <= out.seq

\* write() keeps the promise of TxStream: buffers are taken in order and at
\* most half a ring ahead, sent as given when they were in time, and reported
\* lost only when the engine is past them (main.c:525-546).
Stream == INSTANCE TxStream WITH
  Half     <- Half,
  on       <- enable /\ ctl = "idle",
  position <- pos,
  next     <- IF ctl = "clear" THEN 0 ELSE sw_count,
  due      <- due,
  sent     <- sent,
  got      <- out

TxImplementsStream == Stream!TxsSpec

\* A writer asleep in write() wakes once the engine has emptied two interrupt
\* periods below half the ring: no order of the handler's store and wake-up
\* with the writer's test loses the wake-up (main.c:354-363, 515-516).  Of
\* an engine that is not enabled nothing of the kind holds: there an open()
\* clears the counters the writer waits for and wakes nobody.
WrNotStranded ==
  (wr.pc = "sleep" /\ enable /\ sw_count < pos + Half - 2 * BufferPerIrq)
    ~> (wr.pc # "sleep")

-----------------------------------------------------------------------------
(* The inductive invariant.                                                *)

\* The client is at most half a ring ahead of the count and less than a Span
\* behind the engine.
ClientAhead ==
  ctl # "clear" =>
    /\ sw_count <= hw_count_last + Half
    /\ wr.pc = "copy" => sw_count < hw_count_last + Half
    /\ pos <= sw_count + Span

\* write() and the start/stop code exclude each other; nothing is due from an
\* engine that is not enabled.
OneThread ==
  /\ wr.pc # "user" => ctl = "idle"
  /\ wr.pc = "copy" => wr.len > 0
  /\ ctl \notin {"idle", "flush"} => due = {}
  /\ ~enable => due = {}

\* Every due buffer is in its slot, and the one being fetched was there from
\* the start of the fetch.
DueInRing ==
  \A s \in due :
    /\ pos <= s /\ s < sw_count
    /\ buf[Slot(s)] = s
    /\ s = pos => latch = s

\* Everything the steps of transmission preserve together.
TxInv ==
  /\ ChInv
  /\ TxTypeOK
  /\ ClientAhead
  /\ OneThread
  /\ DueInRing
  /\ DueSentIntact
=============================================================================
