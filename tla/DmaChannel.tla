----------------------------- MODULE DmaChannel -----------------------------
(***************************************************************************)
(* One DMA engine of a LitePCIe channel as the kernel driver runs it:      *)
(* start, stop, the MSI-X handler and open().  The code is written twice   *)
(* in software/kernel/main.c, for the "writer" (device to host, read())    *)
(* and the "reader" (host to device, write()); only the names differ, so   *)
(* the variables drop the prefix.                                          *)
(*                                                                         *)
(* The engine itself (gateware of an external core) is HwComplete: it      *)
(* completes one buffer after the other, reports the position in           *)
(* LOOP_STATUS and raises its MSI-X vector at each descriptor programmed   *)
(* without DMA_IRQ_DISABLE.  The handler runs on another CPU than the      *)
(* system calls and interleaves with them at its accesses to the shared    *)
(* counters.                                                               *)
(***************************************************************************)
EXTENDS LoopCounter

CONSTANTS BufferPerIrq,   \* DMA_BUFFER_PER_IRQ, buffers between interrupts
          IrqLag,         \* environment: the engine is at most this far
                          \* ahead of the handler's count
          SplitStore,     \* the build may store hw_count before the carry
          IrqDrained,     \* a running handler ends within the 1 ms that
                          \* stop() waits before it clears the counters
          MaxPos          \* bound of the model on the engine's position

ASSUME BufferPerIrqAssumption ==
  /\ BufferPerIrq \in 1..BufferCount
  /\ BufferCount % BufferPerIrq = 0

\* An interrupt is served before the engine has gone IrqLag buffers on; at
\* least one interrupt falls into that distance even right after a start.
ASSUME IrqLagAssumption ==
  /\ IrqLag \in Nat
  /\ 2 * BufferPerIrq <= IrqLag
  /\ IrqLag < Span

ASSUME FlagsAssumption == SplitStore \in BOOLEAN /\ IrqDrained \in BOOLEAN
ASSUME MaxPosAssumption == MaxPos \in Nat

VARIABLES
  hw_enable,       \* the ENABLE register of the engine
  pos,             \* buffers completed since the last table flush
  msi,             \* the vector is raised and not yet delivered
  msi_enable,      \* the engine's bit of MSI_ENABLE
  hw_count,        \* {writer,reader}_hw_count
  hw_count_last,   \* {writer,reader}_hw_count_last
  sw_count,        \* {writer,reader}_sw_count
  enable,          \* {writer,reader}_enable
  isr,             \* the handler: where it is, the LOOP_STATUS it loaded
  ctl              \* where the start/stop code (ioctl or release) is

chVars == <<hw_enable, pos, msi, msi_enable, hw_count, hw_count_last,
            sw_count, enable, isr, ctl>>

IsrPc == {"idle", "enter", "status", "update", "carry"}
CtlPc == {"idle", "irq", "flag", "flush", "clear"}

Idle == [pc |-> "idle", status |-> LoopStatus(0)]

ChInit ==
  /\ hw_enable = FALSE
  /\ pos = 0
  /\ msi = FALSE
  /\ msi_enable = FALSE
  /\ hw_count = 0
  /\ hw_count_last = 0
  /\ sw_count = 0
  /\ enable = FALSE
  /\ isr = Idle
  /\ ctl = "idle"

-----------------------------------------------------------------------------
(* The engine (gateware).                                                  *)

\* The descriptor of index i is programmed with !(i % PER_IRQ == 0) *
\* DMA_IRQ_DISABLE: it interrupts when i is a multiple of PER_IRQ.
RaisesIrq(p) == (p % BufferCount) % BufferPerIrq = 0

\* One buffer is complete.  The environment's two bounds: the handler keeps
\* up to IrqLag buffers, and the start ioctl ends within the first interrupt
\* period.
HwComplete ==
  /\ hw_enable
  /\ pos < MaxPos
  /\ pos < hw_count_last + IrqLag
  /\ ctl \in {"irq", "flag"} => pos < BufferPerIrq
  /\ pos' = pos + 1
  /\ msi' = (msi \/ RaisesIrq(pos + 1))
  /\ UNCHANGED <<hw_enable, msi_enable, hw_count, hw_count_last, sw_count,
                 enable, isr, ctl>>

-----------------------------------------------------------------------------
(* The handler, litepcie_interrupt().                                      *)

\* A raised vector is delivered while its bit of MSI_ENABLE is set.
IrqDeliver ==
  /\ msi
  /\ msi_enable
  /\ isr.pc = "idle"
  /\ msi' = FALSE
  /\ isr' = [isr EXCEPT !.pc = "enter"]
  /\ UNCHANGED <<hw_enable, pos, msi_enable, hw_count, hw_count_last,
                 sw_count, enable, ctl>>

\* irq_enable = readl(MSI_ENABLE); irq_vector &= irq_enable: a vector that
\* was masked after its delivery is ignored.
IrqEnter ==
  /\ isr.pc = "enter"
  /\ isr' = IF msi_enable THEN [isr EXCEPT !.pc = "status"] ELSE Idle
  /\ UNCHANGED <<hw_enable, pos, msi, msi_enable, hw_count, hw_count_last,
                 sw_count, enable, ctl>>

\* loop_status = readl(LOOP_STATUS)
IrqStatus ==
  /\ isr.pc = "status"
  /\ isr' = [pc |-> "update", status |-> LoopStatus(pos)]
  /\ UNCHANGED <<hw_enable, pos, msi, msi_enable, hw_count, hw_count_last,
                 sw_count, enable, ctl>>

\* hw_count and hw_count_last are stored.  With no carry pending there is
\* one value to store; the wake-up of the waiters follows (see DmaRx, DmaTx).
IrqUpdate ==
  /\ isr.pc = "update"
  /\ LET new == Carry(hw_count_last, Merged(hw_count, isr.status))
     IN  hw_count' = new /\ hw_count_last' = new
  /\ isr' = Idle
  /\ UNCHANGED <<hw_enable, pos, msi, msi_enable, sw_count, enable, ctl>>

\* The plain C accesses allow a build that stores hw_count before the carry
\* is added, which another CPU may then read.
IrqUpdateSplit ==
  /\ SplitStore
  /\ isr.pc = "update"
  /\ hw_count_last > Merged(hw_count, isr.status)
  /\ hw_count' = Merged(hw_count, isr.status)
  /\ isr' = [isr EXCEPT !.pc = "carry"]
  /\ UNCHANGED <<hw_enable, pos, msi, msi_enable, hw_count_last, sw_count,
                 enable, ctl>>

IrqCarry ==
  /\ isr.pc = "carry"
  /\ LET new == Carry(hw_count_last, hw_count)
     IN  hw_count' = new /\ hw_count_last' = new
  /\ isr' = Idle
  /\ UNCHANGED <<hw_enable, pos, msi, msi_enable, sw_count, enable, ctl>>

\* The step after which the handler calls wake_up_interruptible().
IrqDone == IrqUpdate \/ IrqCarry

-----------------------------------------------------------------------------
(* Start and stop: ioctl DMA_WRITER / DMA_READER and release().            *)

\* m.enable differs from the flag: litepcie_dma_*_start() disables and
\* flushes the engine, programs the table, clears the counters and runs it.
\* Nothing but open(), which stores the same zeros, can come in between.
StartEngine ==
  /\ ctl = "idle"
  /\ ~enable
  /\ pos' = 0
  /\ hw_count' = 0
  /\ hw_count_last' = 0
  /\ sw_count' = 0
  /\ hw_enable' = TRUE
  /\ ctl' = "irq"
  /\ UNCHANGED <<msi, msi_enable, enable, isr>>

\* litepcie_enable_interrupt()
StartIrq ==
  /\ ctl = "irq"
  /\ msi_enable' = TRUE
  /\ ctl' = "flag"
  /\ UNCHANGED <<hw_enable, pos, msi, hw_count, hw_count_last, sw_count,
                 enable, isr>>

\* chan->dma.writer_enable = m.enable
StartFlag ==
  /\ ctl = "flag"
  /\ enable' = TRUE
  /\ ctl' = "idle"
  /\ UNCHANGED <<hw_enable, pos, msi, msi_enable, hw_count, hw_count_last,
                 sw_count, isr>>

\* litepcie_disable_interrupt(), by the ioctl or by release(); release()
\* stops the engine of a lock holder whether it was enabled or not.
StopMask ==
  /\ ctl = "idle"
  /\ msi_enable' = FALSE
  /\ ctl' = "flush"
  /\ UNCHANGED <<hw_enable, pos, msi, hw_count, hw_count_last, sw_count,
                 enable, isr>>

\* litepcie_dma_*_stop(): the table is flushed, which also resets
\* LOOP_STATUS, and the engine is disabled.
StopFlush ==
  /\ ctl = "flush"
  /\ pos' = 0
  /\ hw_enable' = FALSE
  /\ ctl' = "clear"
  /\ UNCHANGED <<msi, msi_enable, hw_count, hw_count_last, sw_count, enable,
                 isr>>

\* Faulty: hw_count_last is not cleared.
StopClearKeepsLast ==
  /\ ctl = "clear"
  /\ IrqDrained => isr.pc = "idle"
  /\ hw_count' = 0
  /\ sw_count' = 0
  /\ enable' = FALSE
  /\ ctl' = "idle"
  /\ UNCHANGED <<hw_enable, pos, msi, msi_enable, hw_count_last, isr>>

\* "Clear counters", 1 ms after the flush, and the enable flag.
StopClear ==
  /\ ctl = "clear"
  /\ IrqDrained => isr.pc = "idle"
  /\ hw_count' = 0
  /\ hw_count_last' = 0
  /\ sw_count' = 0
  /\ enable' = FALSE
  /\ ctl' = "idle"
  /\ UNCHANGED <<hw_enable, pos, msi, msi_enable, isr>>

\* open() by any process: "clear only if disabled".
Open ==
  /\ ~enable
  /\ hw_count' = 0
  /\ hw_count_last' = 0
  /\ sw_count' = 0
  /\ UNCHANGED <<hw_enable, pos, msi, msi_enable, enable, isr, ctl>>

\* The client has consumed or produced one buffer: sw_count += 1.
Advance ==
  /\ ctl = "idle"
  /\ sw_count' = sw_count + 1
  /\ UNCHANGED <<hw_enable, pos, msi, msi_enable, hw_count, hw_count_last,
                 enable, isr, ctl>>

Irq == IrqDeliver \/ IrqEnter \/ IrqStatus \/ IrqUpdate \/ IrqUpdateSplit
         \/ IrqCarry
Control == StartEngine \/ StartIrq \/ StartFlag \/ StopMask \/ StopFlush
             \/ StopClear

ChNext == HwComplete \/ Irq \/ Control \/ Open \/ Advance

ChSpec == ChInit /\ [][ChNext]_chVars

-----------------------------------------------------------------------------
\* The types of the variables.
ChTypeOK ==
  /\ hw_enable \in BOOLEAN
  /\ pos \in Nat
  /\ msi \in BOOLEAN
  /\ msi_enable \in BOOLEAN
  /\ hw_count \in Nat
  /\ hw_count_last \in Nat
  /\ sw_count \in Nat
  /\ enable \in BOOLEAN
  /\ isr \in [pc : IsrPc, status : [index : Nat, count : Nat]]
  /\ ctl \in CtlPc

\* The count the clients use never claims a buffer the engine has not
\* completed and never falls further behind than the interrupt latency: the
\* masking, merging and carry of main.c:370-374 are right across every wrap
\* of LOOP_STATUS, restart and open().  Between the flush of a stop and the
\* clearing of the counters, and inside the handler, it means nothing.
HwCountSound ==
  ctl # "clear" /\ isr.pc # "carry" =>
    hw_count <= pos /\ pos <= hw_count + IrqLag

\* A stopped engine has all its counters at zero, as open() and the next
\* start expect (main.c:245, 299 "Clear counters."): no handler that was
\* still running when the interrupt was masked writes to them afterwards.
StoppedIsClear ==
  ~enable /\ ctl = "idle" => hw_count = 0 /\ hw_count_last = 0

\* While the engine is started no step of the handler, and no open() of
\* another process, takes the count below what it had been recorded to be;
\* only the intermediate value of a split store is below (main.c:370-374).
CountNeverBack ==
  [][enable /\ ctl = "idle" /\ isr'.pc # "carry"
       => hw_count' >= hw_count_last]_chVars

\* The count of a running engine is not cleared under it: open() clears
\* "only if disabled" (main.c:401, 407).
RunningNotCleared ==
  [][hw_enable /\ hw_enable' /\ isr'.pc # "carry"
       => hw_count' >= hw_count_last]_chVars

-----------------------------------------------------------------------------
(* The inductive invariant.                                                *)

\* The last recorded count brackets the engine's position.
LastSound ==
  ctl # "clear" => hw_count_last <= pos /\ pos <= hw_count_last + IrqLag

\* Outside a split store both counts agree.
LastIsCount == isr.pc # "carry" => hw_count = hw_count_last

\* The status word a running handler holds is that of a position between
\* the count and the engine: it is never older than what is already counted.
StatusFresh ==
  isr.pc = "update" /\ ctl # "clear" =>
    \E p \in hw_count..pos : isr.status = LoopStatus(p)

\* The intermediate value of a split store is exactly one Span short of a
\* position the engine has reached.
CarryValue ==
  isr.pc = "carry" /\ ctl # "clear" =>
    /\ hw_count < hw_count_last
    /\ hw_count_last <= hw_count + Span
    /\ hw_count + Span <= pos

\* Where the start/stop code is determines the two enables and, in the
\* window between the run and the flag, bounds the position.
CtlPhase ==
  /\ ctl \in {"irq", "flag"} => ~enable /\ pos <= BufferPerIrq
  /\ ctl \in {"irq", "flush", "clear"} => ~msi_enable
  /\ ctl = "flag" => msi_enable
  /\ ctl = "idle" => msi_enable = enable
  /\ ctl = "clear" => pos = 0 /\ ~hw_enable

\* No handler runs on an engine that is masked, except while it is stopped.
MaskedIsQuiet ==
  ~msi_enable /\ ctl \notin {"flush", "clear"} => isr.pc = "idle"

\* An engine that is not enabled and not being started is at rest.
AtRest ==
  ~enable /\ ctl \notin {"irq", "flag"} =>
    /\ pos = 0 /\ ~hw_enable
    /\ hw_count = 0 /\ hw_count_last = 0
    /\ isr.pc = "idle"

\* Everything the steps of the engine, the handler and the system calls
\* preserve together (main.c:197-303, 317-412, 736-749).
ChInv ==
  /\ ChTypeOK
  /\ LastSound
  /\ LastIsCount
  /\ StatusFresh
  /\ CarryValue
  /\ CtlPhase
  /\ MaskedIsQuiet
  /\ AtRest
=============================================================================
