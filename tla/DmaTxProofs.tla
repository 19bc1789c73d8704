---------------------------- MODULE DmaTxProofs ----------------------------
(***************************************************************************)
(* Transmission is right for every size of the ring and every interrupt    *)
(* latency below a Span: a buffer that was in the ring in time is sent     *)
(* exactly as it was written.                                              *)
(***************************************************************************)
EXTENDS DmaTx, DmaChannelProofs

LEMMA HalfBound == Half \in Nat /\ 1 <= Half /\ Half < BufferCount
  BY ConstantTypes, RingAssumption DEF Half

\* Every step of transmission is a step of the engine, or leaves it alone.
LEMMA TxChannelStep == [Next]_vars => [ChNext]_chVars
<1> SUFFICES ASSUME [Next]_vars PROVE [ChNext]_chVars
  OBVIOUS
<1>1. CASE TxComplete
  BY <1>1 DEF TxComplete, ChNext
<1>2. CASE TxIrq
  BY <1>2 DEF TxIrq, TxIrqStep, TxIrqDone, IrqDone, ChNext, Irq
<1>3. CASE TxStart \/ TxControl \/ TxFlush
  BY <1>3 DEF TxStart, TxControl, TxFlush, ChNext, Control
<1>4. CASE TxOpen
  BY <1>4 DEF TxOpen, ChNext
<1>5. CASE Wr
  <2>1. (\E n \in 1..MaxLen : WrCall(n) \/ WrCallNonblock(n))
          => UNCHANGED chVars
    BY DEF WrCall, WrCallNonblock
  <2>2. WrCheck \/ WrSignal \/ WrReturn \/ WrCopy \/ WrFault
          => UNCHANGED chVars
    BY DEF WrCheck, WrSignal, WrReturn, WrCopy, WrFault
  <2>3. WrUnderflow \/ WrCopied => Advance
    BY DEF WrUnderflow, WrCopied
  <2>4. QED
    BY <1>5, <2>1, <2>2, <2>3 DEF Wr, ChNext
<1>6. CASE UNCHANGED vars
  BY <1>6 DEF vars, chVars
<1>7. QED
  BY <1>1, <1>2, <1>3, <1>4, <1>5, <1>6 DEF Next

\* Transmission implements the engine: all its theorems hold of it.
THEOREM TxImplementsChannel == Spec => ChSpec
<1>1. Init => ChInit
  BY DEF Init
<1>2. QED
  BY <1>1, TxChannelStep, PTL DEF Spec, ChSpec

LEMMA TxInitInv == Init => TxInv
<1> SUFFICES ASSUME Init PROVE TxInv
  OBVIOUS
<1>1. ChInv /\ pos = 0 /\ sw_count = 0 /\ hw_count_last = 0 /\ ctl = "idle"
  BY ChInitInv DEF Init, ChInit
<1>2. wr.pc = "user" /\ due = {} /\ sent.due = FALSE
  BY DEF Init, User
<1>3. TxTypeOK
  BY DEF Init, TxTypeOK, User, WrPc, Torn
<1>4. ClientAhead /\ OneThread /\ DueInRing /\ DueSentIntact
  BY <1>1, <1>2, ConstantTypes, HalfBound DEF ClientAhead, OneThread,
     DueInRing, DueSentIntact
<1>5. QED
  BY <1>1, <1>3, <1>4 DEF TxInv

-----------------------------------------------------------------------------
(* Every step keeps the types.                                             *)

LEMMA TxTypeStep == TxInv /\ [Next]_vars => TxTypeOK'
<1> SUFFICES ASSUME TxInv, [Next]_vars PROVE TxTypeOK'
  OBVIOUS
<1>1. TxTypeOK /\ pos \in Nat /\ sw_count \in Nat
  BY DEF TxInv, ChInv, ChTypeOK
<1>2. CASE TxComplete
  <2>1. Slot(pos) \in 0..(BufferCount - 1)
        /\ Slot(pos + 1) \in 0..(BufferCount - 1)
    BY <1>1, SlotType
  <2>2. latch' \in Int
    BY <1>1, <1>2, <2>1 DEF TxTypeOK, TxComplete
  <2>3. sent' \in [seq : Nat, data : Int, due : BOOLEAN]
    BY <1>1, <1>2 DEF TxTypeOK, TxComplete, Torn
  <2>4. QED
    BY <1>1, <1>2, <2>2, <2>3 DEF TxTypeOK, TxComplete
<1>3. CASE TxIrq
  BY <1>1, <1>3 DEF TxTypeOK, TxIrq, TxIrqStep, TxIrqDone, Wake, txVars, WrPc
<1>4. CASE TxStart
  BY <1>1, <1>4 DEF TxTypeOK, TxStart, Torn
<1>5. CASE TxControl \/ TxFlush \/ TxOpen
  BY <1>1, <1>5 DEF TxTypeOK, TxControl, TxFlush, TxOpen, txVars
<1>6. ASSUME NEW n \in 1..MaxLen, WrCall(n) \/ WrCallNonblock(n)
      PROVE  TxTypeOK'
  <2>1. n \in Nat
    BY MaxLenAssumption
  <2>2. UNCHANGED <<buf, latch, out, due, sent>>
    BY <1>6 DEF WrCall, WrCallNonblock
  <2>3. wr' = [pc |-> "check", len |-> n] \/ wr' = [pc |-> "loop", len |-> n]
    BY <1>6 DEF WrCall, WrCallNonblock
  <2>4. QED
    BY <1>1, <2>1, <2>2, <2>3 DEF TxTypeOK, WrPc
<1>7. CASE WrCheck
  BY <1>1, <1>7 DEF TxTypeOK, WrCheck, WrPc
<1>8. CASE WrSignal \/ WrReturn \/ WrFault
  <2>1. wr' = [pc |-> "user", len |-> 0]
        /\ UNCHANGED <<buf, latch, out, due, sent>>
    BY <1>8 DEF WrSignal, WrReturn, WrFault, User
  <2>2. wr' \in [pc : WrPc, len : Nat]
    BY <2>1 DEF WrPc
  <2>3. QED
    BY <1>1, <2>1, <2>2 DEF TxTypeOK
<1>9. CASE WrUnderflow
  <2>1. wr.len - 1 \in Nat
    BY <1>1, <1>9 DEF TxTypeOK, WrUnderflow
  <2>2. wr' \in [pc : WrPc, len : Nat]
    BY <1>1, <1>9, <2>1 DEF TxTypeOK, WrUnderflow, WrPc
  <2>3. out' \in [kind : {"none", "written", "lost"}, seq : Nat, at : Nat]
    BY <1>1, <1>9 DEF WrUnderflow
  <2>4. QED
    BY <1>1, <1>9, <2>2, <2>3 DEF TxTypeOK, WrUnderflow
<1>10. CASE WrCopy
  <2>1. buf' \in [0..(BufferCount - 1) -> Int]
    BY <1>1, <1>10, -1 \in Int, ExceptType DEF TxTypeOK, WrCopy, Torn
  <2>2. QED
    BY <1>1, <1>10, <2>1 DEF TxTypeOK, WrCopy, WrPc
<1>11. CASE WrCopied
  <2>1. buf' \in [0..(BufferCount - 1) -> Int]
    BY <1>1, <1>11, sw_count \in Int, ExceptType DEF TxTypeOK, WrCopied
  <2>2. wr.len - 1 \in Nat
    BY <1>1, <1>11 DEF TxInv, OneThread, WrCopied, TxTypeOK
  <2>3. wr' \in [pc : WrPc, len : Nat]
    BY <1>11, <2>2 DEF WrCopied, WrPc
  <2>4. due' \subseteq Nat
    BY <1>1, <1>11 DEF TxTypeOK, WrCopied
  <2>5. QED
    BY <1>1, <1>11, <2>1, <2>3, <2>4 DEF TxTypeOK, WrCopied
<1>12. CASE UNCHANGED vars
  BY <1>1, <1>12 DEF TxTypeOK, vars
<1>13. QED
  BY <1>2, <1>3, <1>4, <1>5, <1>6, <1>7, <1>8, <1>9, <1>10, <1>11, <1>12
     DEF Next, Wr

-----------------------------------------------------------------------------
(* Every step keeps the invariant.                                         *)

\* The parts of the invariant proved elsewhere, for any step.
LEMMA TxBase ==
  ASSUME IrqDrained, TxInv, [Next]_vars
  PROVE  /\ ChInv' /\ TxTypeOK' /\ TxTypeOK
         /\ pos \in Nat /\ sw_count \in Nat
         /\ hw_count \in Nat /\ hw_count_last \in Nat
         /\ hw_count_last' \in Nat
<1>1. ChInv' /\ TxTypeOK'
  BY TxChannelStep, ChInvStep, TxTypeStep DEF TxInv
<1>2. QED
  BY <1>1 DEF TxInv, ChInv, ChTypeOK

\* The count a client sees is never above the recorded one.
LEMMA SeenBelowLast ==
  ASSUME ChInv, ctl # "clear"
  PROVE  hw_count <= hw_count_last
  BY DEF ChInv, LastIsCount, CarryValue, ChTypeOK

LEMMA TxEngineStep ==
  ASSUME IrqDrained, TxInv, TxComplete
  PROVE  TxInv'
<1> USE ConstantTypes, HalfBound
<1>1. [Next]_vars
  BY DEF Next
<1>2. /\ ChInv' /\ TxTypeOK' /\ TxTypeOK
      /\ pos \in Nat /\ sw_count \in Nat /\ hw_count_last \in Nat
  BY <1>1, TxBase
<1>3. pos' = pos + 1 /\ buf' = buf /\ wr' = wr /\ due' = due \ {pos}
      /\ UNCHANGED <<sw_count, hw_count_last, enable, ctl>>
  BY DEF TxComplete, HwComplete
<1>4. DueInRing'
  <2> SUFFICES ASSUME NEW s \in due, s # pos
               PROVE  /\ pos + 1 <= s /\ s < sw_count
                      /\ buf[Slot(s)] = s
                      /\ s = pos + 1 => latch' = s
    BY <1>3 DEF DueInRing, Slot
  <2>1. s \in Nat /\ pos <= s /\ s < sw_count /\ buf[Slot(s)] = s
    BY <1>2 DEF TxInv, DueInRing, TxTypeOK
  <2>2. latch' = buf[Slot(pos + 1)]
    BY DEF TxComplete
  <2>3. QED
    BY <1>2, <2>1, <2>2
<1>5. DueSentIntact'
  <2> SUFFICES ASSUME sent'.due PROVE sent'.data = sent'.seq
    BY DEF DueSentIntact
  <2>1. sent' = [seq |-> pos,
                 data |-> IF buf[Slot(pos)] = latch THEN latch ELSE Torn,
                 due |-> pos \in due]
    BY DEF TxComplete
  <2>2. pos \in due
    BY <2>1
  <2>3. buf[Slot(pos)] = pos /\ latch = pos
    BY <2>2 DEF TxInv, DueInRing
  <2>4. QED
    BY <2>1, <2>3
<1>6. ClientAhead'
  <2>1. pos < sw_count + Span
    BY DEF TxComplete
  <2>2. QED
    BY <1>2, <1>3, <2>1 DEF TxInv, ClientAhead
<1>7. OneThread'
  BY <1>3 DEF TxInv, OneThread
<1>8. QED
  BY <1>2, <1>4, <1>5, <1>6, <1>7 DEF TxInv

\* A bound by a count is one by any later count.
LEMMA LaterCount ==
  ASSUME NEW a \in Nat, NEW b \in Nat, NEW c \in Nat, NEW h \in Nat, b <= c
  PROVE  /\ a <= b + h => a <= c + h
         /\ a < b + h => a < c + h
  OBVIOUS

LEMMA TxHandlerStep ==
  ASSUME IrqDrained, TxInv, TxIrq
  PROVE  TxInv'
<1> USE ConstantTypes, HalfBound
<1>1. [Next]_vars /\ Irq
  BY DEF Next, TxIrq, TxIrqStep, TxIrqDone, IrqDone, Irq
<1>2. /\ ChInv' /\ TxTypeOK' /\ TxTypeOK
      /\ pos \in Nat /\ sw_count \in Nat
      /\ hw_count_last \in Nat /\ hw_count_last' \in Nat
  BY <1>1, TxBase
<1>3. UNCHANGED <<pos, sw_count, enable, ctl>>
  BY <1>1 DEF Irq, IrqDeliver, IrqEnter, IrqStatus, IrqUpdate, IrqUpdateSplit,
     IrqCarry
<1>4. UNCHANGED <<buf, latch, due, sent>>
  BY DEF TxIrq, TxIrqStep, TxIrqDone, txVars
<1>5. ctl # "clear" => hw_count_last' >= hw_count_last
  BY <1>1, HandlerCount DEF TxInv
<1>6. wr' = wr \/ (wr.pc = "sleep" /\ wr' = [wr EXCEPT !.pc = "check"])
  BY DEF TxIrq, TxIrqStep, TxIrqDone, Wake, txVars
<1>7. (wr'.pc # "user" => wr.pc # "user") /\ (wr'.pc = "copy" => wr' = wr)
  BY <1>2, <1>6 DEF TxTypeOK
<1>8. DueInRing' /\ DueSentIntact'
  BY <1>3, <1>4 DEF TxInv, DueInRing, DueSentIntact, Slot
<1>9. ClientAhead'
  <2> SUFFICES ASSUME ctl # "clear" PROVE
        /\ sw_count <= hw_count_last' + Half
        /\ wr'.pc = "copy" => sw_count < hw_count_last' + Half
        /\ pos <= sw_count + Span
    BY <1>3 DEF ClientAhead, Half
  <2>1. /\ sw_count <= hw_count_last + Half
        /\ wr'.pc = "copy" => sw_count < hw_count_last + Half
        /\ pos <= sw_count + Span
    BY <1>7 DEF TxInv, ClientAhead
  <2>2. hw_count_last \in Nat /\ hw_count_last' \in Nat /\ Half \in Nat
        /\ hw_count_last <= hw_count_last' /\ sw_count \in Nat
    BY <1>2, <1>5
  <2>3. sw_count <= hw_count_last' + Half
    BY <2>1, <2>2, LaterCount
  <2>4. wr'.pc = "copy" => sw_count < hw_count_last' + Half
    BY <2>1, <2>2, LaterCount
  <2>5. QED
    BY <2>1, <2>3, <2>4
<1>10. OneThread'
  BY <1>3, <1>4, <1>7 DEF TxInv, OneThread
<1>11. QED
  BY <1>2, <1>8, <1>9, <1>10 DEF TxInv

LEMMA TxControlStep ==
  ASSUME IrqDrained, TxInv, TxStart \/ TxControl \/ TxFlush \/ TxOpen
  PROVE  TxInv'
<1> USE ConstantTypes, HalfBound
<1>1. [Next]_vars
  BY DEF Next
<1>2. /\ ChInv' /\ TxTypeOK' /\ TxTypeOK
      /\ pos \in Nat /\ sw_count \in Nat /\ hw_count_last \in Nat
  BY <1>1, TxBase
<1>3. UNCHANGED <<wr, sent>>
  BY DEF TxStart, TxControl, TxFlush, TxOpen, txVars
<1>4. DueSentIntact'
  BY <1>3 DEF TxInv, DueSentIntact
<1>5. CASE TxStart
  <2>1. pos' = 0 /\ sw_count' = 0 /\ hw_count_last' = 0 /\ ctl' = "irq"
        /\ wr.pc = "user" /\ ~enable /\ due' = due
    BY <1>5 DEF TxStart, StartEngine
  <2>2. due' = {}
    BY <2>1 DEF TxInv, OneThread
  <2>3. ClientAhead' /\ OneThread' /\ DueInRing'
    BY <1>3, <2>1, <2>2 DEF ClientAhead, OneThread, DueInRing
  <2>4. QED
    BY <1>2, <1>4, <2>3 DEF TxInv
<1>6. CASE TxControl
  <2>1. UNCHANGED <<buf, latch, due>> /\ wr.pc = "user"
    BY <1>6 DEF TxControl, txVars
  <2>2. CASE StartIrq \/ StartFlag
    <3>1. UNCHANGED <<pos, sw_count, hw_count_last>>
          /\ ctl \in {"irq", "flag"} /\ ctl' \in {"idle", "flag"}
      BY <2>2 DEF StartIrq, StartFlag
    <3>2. due = {}
      BY <3>1 DEF TxInv, OneThread
    <3>3. ClientAhead' /\ OneThread' /\ DueInRing'
      BY <1>3, <2>1, <3>1, <3>2 DEF TxInv, ClientAhead, OneThread, DueInRing
    <3>4. QED
      BY <1>2, <1>4, <3>3 DEF TxInv
  <2>3. CASE StopMask
    <3>1. UNCHANGED <<pos, sw_count, hw_count_last, enable>>
          /\ ctl = "idle" /\ ctl' = "flush"
      BY <2>3 DEF StopMask
    <3>2. ClientAhead' /\ OneThread' /\ DueInRing'
      BY <1>3, <2>1, <3>1 DEF TxInv, ClientAhead, OneThread, DueInRing, Slot
    <3>3. QED
      BY <1>2, <1>4, <3>2 DEF TxInv
  <2>4. CASE StopClear
    <3>1. ctl = "clear" /\ sw_count' = 0 /\ hw_count_last' = 0
          /\ ctl' = "idle" /\ pos' = pos
      BY <2>4 DEF StopClear
    <3>2. due = {} /\ pos = 0
      BY <3>1 DEF TxInv, OneThread, ChInv, CtlPhase
    <3>3. ClientAhead' /\ OneThread' /\ DueInRing'
      BY <1>3, <2>1, <3>1, <3>2 DEF ClientAhead, OneThread, DueInRing
    <3>4. QED
      BY <1>2, <1>4, <3>3 DEF TxInv
  <2>5. QED
    BY <1>6, <2>2, <2>3, <2>4 DEF TxControl
<1>7. CASE TxFlush
  <2>1. ctl' = "clear" /\ due' = {} /\ wr.pc = "user"
    BY <1>7 DEF TxFlush, StopFlush
  <2>2. ClientAhead' /\ OneThread' /\ DueInRing'
    BY <1>3, <2>1 DEF ClientAhead, OneThread, DueInRing
  <2>3. QED
    BY <1>2, <1>4, <2>2 DEF TxInv
<1>8. CASE TxOpen
  <2>1. ~enable /\ sw_count' = 0 /\ hw_count_last' = 0
        /\ UNCHANGED <<pos, ctl, enable, due>>
    BY <1>8 DEF TxOpen, Open, txVars
  <2>2. due = {}
    BY <2>1 DEF TxInv, OneThread
  <2>3. pos <= IrqLag
    BY <1>2, <2>1 DEF TxInv, ChInv, CtlPhase, AtRest
  <2>4. ClientAhead' /\ OneThread' /\ DueInRing'
    BY <1>2, <1>3, <2>1, <2>2, <2>3 DEF TxInv, ClientAhead, OneThread,
       DueInRing
  <2>5. QED
    BY <1>2, <1>4, <2>4 DEF TxInv
<1>9. QED
  BY <1>5, <1>6, <1>7, <1>8

\* The slot of the next buffer holds none that is due.
LEMMA NextSlotFree ==
  ASSUME TxInv, ctl = "idle", NEW s \in due
  PROVE  s \in Nat /\ s < sw_count /\ Slot(s) # Slot(sw_count)
<1>1. /\ pos \in Nat /\ sw_count \in Nat /\ hw_count_last \in Nat
      /\ s \in Nat
  BY DEF TxInv, ChInv, ChTypeOK, TxTypeOK
<1>2. pos <= s /\ s < sw_count
  BY DEF TxInv, DueInRing
<1>3. hw_count_last <= pos /\ sw_count <= hw_count_last + Half
  BY DEF TxInv, ChInv, LastSound, ClientAhead
<1>4. sw_count < s + BufferCount
  BY <1>1, <1>2, <1>3, HalfBound, ConstantTypes
<1>5. QED
  BY <1>1, <1>2, <1>4, SlotsDiffer

LEMMA WrStep ==
  ASSUME IrqDrained, TxInv, Wr
  PROVE  TxInv'
<1> USE ConstantTypes, HalfBound
<1>1. [Next]_vars
  BY DEF Next
<1>2. /\ ChInv' /\ TxTypeOK' /\ TxTypeOK
      /\ pos \in Nat /\ sw_count \in Nat
      /\ hw_count \in Nat /\ hw_count_last \in Nat
  BY <1>1, TxBase
<1>3. UNCHANGED <<pos, hw_count_last, enable, ctl, latch, sent>>
  <2>1. WrUnderflow \/ WrCopied \/ WrCheck \/ WrSignal \/ WrReturn \/ WrCopy
          \/ WrFault => UNCHANGED <<pos, hw_count_last, enable, ctl, latch, sent>>
    BY DEF WrUnderflow, WrCopied, WrCheck, WrSignal, WrReturn, WrCopy, WrFault,
       Advance, chVars
  <2>2. (\E n \in 1..MaxLen : WrCall(n) \/ WrCallNonblock(n))
          => UNCHANGED <<pos, hw_count_last, enable, ctl, latch, sent>>
    BY DEF WrCall, WrCallNonblock, chVars
  <2>3. QED
    BY <2>1, <2>2 DEF Wr
<1>4. DueSentIntact'
  BY <1>3 DEF TxInv, DueSentIntact
<1>5. CASE (\E n \in 1..MaxLen : WrCall(n) \/ WrCallNonblock(n)) \/ WrCheck
             \/ WrSignal \/ WrReturn \/ WrFault
  <2>1. ASSUME NEW n \in 1..MaxLen, WrCall(n) \/ WrCallNonblock(n)
        PROVE  /\ wr'.pc # "copy" /\ ctl = "idle"
               /\ UNCHANGED <<sw_count, buf, due>>
    BY <2>1 DEF WrCall, WrCallNonblock, chVars
  <2>2. WrCheck => /\ wr'.pc # "copy" /\ ctl = "idle"
                   /\ UNCHANGED <<sw_count, buf, due>>
    BY <1>2 DEF WrCheck, chVars, TxTypeOK, TxInv, OneThread
  <2>3. WrSignal \/ WrReturn \/ WrFault
          => wr'.pc = "user" /\ UNCHANGED <<sw_count, buf, due>>
    BY DEF WrSignal, WrReturn, WrFault, User, chVars
  <2>4. /\ wr'.pc # "copy" /\ (wr'.pc # "user" => ctl = "idle")
        /\ UNCHANGED <<sw_count, buf, due>>
    BY <1>5, <2>1, <2>2, <2>3
  <2>5. ClientAhead' /\ OneThread'
    BY <1>3, <2>4 DEF TxInv, ClientAhead, OneThread
  <2>6. DueInRing'
    BY <1>3, <2>4 DEF TxInv, DueInRing, Slot
  <2>7. QED
    BY <1>2, <1>4, <2>5, <2>6 DEF TxInv
<1>6. CASE WrUnderflow
  <2>1. ctl = "idle" /\ sw_count' = sw_count + 1 /\ wr'.pc = "loop"
        /\ Queued < 0 /\ UNCHANGED <<buf, due>>
    BY <1>2, <1>6 DEF WrUnderflow, Advance, TxTypeOK
  <2>2. sw_count < hw_count_last
    BY <1>2, <2>1, SeenBelowLast DEF TxInv, Queued
  <2>3. ClientAhead' /\ OneThread'
    BY <1>2, <1>3, <2>1, <2>2 DEF TxInv, ClientAhead, OneThread
  <2>4. DueInRing'
    <3> SUFFICES ASSUME NEW s \in due
                 PROVE  /\ pos <= s /\ s < sw_count + 1
                        /\ buf[Slot(s)] = s /\ (s = pos => latch = s)
      BY <1>3, <2>1 DEF DueInRing, Slot
    <3>1. s \in Nat /\ s < sw_count
      BY <2>1, NextSlotFree
    <3>2. QED
      BY <1>2, <3>1 DEF TxInv, DueInRing
  <2>5. QED
    BY <1>2, <1>4, <2>3, <2>4 DEF TxInv
<1>7. CASE WrCopy
  <2>1. ctl = "idle" /\ sw_count' = sw_count /\ due' = due
        /\ wr.len > 0 /\ wr'.len = wr.len /\ Queued < Half
        /\ buf' = [buf EXCEPT ![Slot(sw_count)] = Torn]
    BY <1>2, <1>7 DEF WrCopy, chVars, TxInv, OneThread, TxTypeOK
  <2>2. sw_count < hw_count_last + Half
    BY <1>2, <2>1, SeenBelowLast DEF TxInv, Queued
  <2>3. ClientAhead' /\ OneThread'
    BY <1>2, <1>3, <2>1, <2>2 DEF TxInv, ClientAhead, OneThread
  <2>4. DueInRing'
    <3> SUFFICES ASSUME NEW s \in due
                 PROVE  /\ pos <= s /\ s < sw_count
                        /\ buf'[Slot(s)] = s /\ (s = pos => latch = s)
      BY <1>3, <2>1 DEF DueInRing, Slot
    <3>1. s \in Nat /\ Slot(s) # Slot(sw_count)
      BY <2>1, NextSlotFree
    <3>2. buf'[Slot(s)] = buf[Slot(s)]
      BY <1>2, <2>1, <3>1, SlotType DEF TxTypeOK
    <3>3. QED
      BY <3>2 DEF TxInv, DueInRing
  <2>5. QED
    BY <1>2, <1>4, <2>3, <2>4 DEF TxInv
<1>8. CASE WrCopied
  <2>1. ctl = "idle" /\ sw_count' = sw_count + 1 /\ wr'.pc = "loop"
        /\ buf' = [buf EXCEPT ![Slot(sw_count)] = sw_count]
        /\ due' = IF enable /\ pos < sw_count THEN due \cup {sw_count} ELSE due
    BY <1>8 DEF WrCopied, Advance
  <2>2. sw_count < hw_count_last + Half
    BY <1>8, <2>1 DEF WrCopied, TxInv, ClientAhead
  <2>3. ClientAhead'
    BY <1>2, <1>3, <2>1, <2>2 DEF TxInv, ClientAhead
  <2>4. OneThread'
    BY <1>3, <2>1 DEF TxInv, OneThread
  <2>5. DueInRing'
    <3> SUFFICES ASSUME NEW s \in due'
                 PROVE  /\ pos <= s /\ s < sw_count + 1
                        /\ buf'[Slot(s)] = s /\ (s = pos => latch = s)
      BY <1>3, <2>1 DEF DueInRing, Slot
    <3>1. CASE s \in due
      <4>1. s \in Nat /\ s < sw_count /\ Slot(s) # Slot(sw_count)
        BY <2>1, <3>1, NextSlotFree
      <4>2. buf'[Slot(s)] = buf[Slot(s)]
        BY <1>2, <2>1, <4>1, SlotType DEF TxTypeOK
      <4>3. QED
        BY <1>2, <3>1, <4>1, <4>2 DEF TxInv, DueInRing
    <3>2. CASE s \notin due
      <4>1. s = sw_count /\ pos < sw_count
        BY <2>1, <3>2
      <4>2. buf'[Slot(sw_count)] = sw_count
        BY <1>2, <2>1, SlotType DEF TxTypeOK
      <4>3. QED
        BY <1>2, <4>1, <4>2
    <3>3. QED
      BY <3>1, <3>2
  <2>6. QED
    BY <1>2, <1>4, <2>3, <2>4, <2>5 DEF TxInv
<1>9. QED
  BY <1>5, <1>6, <1>7, <1>8 DEF Wr

LEMMA TxInvStep ==
  ASSUME IrqDrained, TxInv, [Next]_vars
  PROVE  TxInv'
<1>1. CASE UNCHANGED vars
  <2>1. ChInv' /\ TxTypeOK'
    BY TxBase
  <2>2. ClientAhead' /\ OneThread' /\ DueInRing' /\ DueSentIntact'
    BY <1>1 DEF TxInv, vars, ClientAhead, OneThread, DueInRing,
       DueSentIntact, Slot
  <2>3. QED
    BY <2>1, <2>2 DEF TxInv
<1>2. QED
  BY <1>1, TxEngineStep, TxHandlerStep, TxControlStep, WrStep DEF Next

\* The inductive invariant of transmission.
THEOREM TxInvariance ==
  ASSUME IrqDrained PROVE Spec => []TxInv
<1>1. TxInv /\ [Next]_vars => TxInv'
  BY TxInvStep
<1>2. QED
  BY <1>1, TxInitInv, PTL DEF Spec

\* What was in the ring in time is sent as written, whatever the order of
\* engine, handler and client (main.c:526-536).
THEOREM TxDueSentIntact ==
  ASSUME IrqDrained PROVE Spec => []DueSentIntact
<1>1. TxInv => DueSentIntact
  BY DEF TxInv
<1>2. QED
  BY <1>1, TxInvariance, PTL

-----------------------------------------------------------------------------
(* write() implements the stream.                                          *)

LEMMA TxStreamStep ==
  ASSUME TxInv, TxInv', [Next]_vars
  PROVE  [Stream!TxsNext]_(Stream!txsVars)
<1> USE ConstantTypes
<1> DEFINE streamed == <<enable, ctl, pos, sw_count, due, sent, out>>
<1>0. /\ pos \in Nat /\ sw_count \in Nat /\ hw_count_last \in Nat
      /\ enable \in BOOLEAN
  BY DEF TxInv, ChInv, ChTypeOK
<1>1. CASE TxComplete
  <2>1. /\ pos' = pos + 1 /\ UNCHANGED <<sw_count, ctl, enable, out>>
        /\ due' = due \ {pos}
        /\ sent' = [seq |-> pos,
                    data |-> IF buf[Slot(pos)] = latch THEN latch ELSE Torn,
                    due |-> pos \in due]
    BY <1>1 DEF TxComplete, HwComplete
  <2>2. sent'.seq = pos /\ sent'.due = (pos \in due)
    BY <2>1
  <2>3. pos \in due => sent'.data = pos
    <3>1. sent'.due => sent'.data = sent'.seq
      BY DEF TxInv, DueSentIntact
    <3>2. QED
      BY <2>2, <3>1
  <2> HIDE DEF streamed
  <2>4. QED
    BY <2>1, <2>2, <2>3 DEF Stream!TxsNext, Stream!Send
<1>2. CASE UNCHANGED streamed
  BY <1>2 DEF Stream!txsVars
<1>3. CASE TxIrq
  <2>1. UNCHANGED streamed
    BY <1>3 DEF TxIrq, TxIrqStep, TxIrqDone, IrqDone, IrqDeliver, IrqEnter,
       IrqStatus, IrqUpdate, IrqUpdateSplit, IrqCarry, txVars
  <2>2. QED
    BY <1>2, <2>1
<1>4. CASE TxStart
  <2>1. /\ ctl = "idle" /\ ~enable /\ pos' = 0 /\ sw_count' = 0 /\ ctl' = "irq"
        /\ UNCHANGED <<enable, due, sent, out>>
    BY <1>4 DEF TxStart, StartEngine
  <2>2. due = {}
    BY <2>1 DEF TxInv, OneThread
  <2>3. QED
    BY <2>1, <2>2 DEF Stream!TxsNext, Stream!Restart
<1>5. CASE TxControl
  <2>1. UNCHANGED <<due, sent, out>>
    BY <1>5 DEF TxControl, txVars
  <2>2. CASE StartIrq
    BY <2>1, <2>2 DEF StartIrq, Stream!txsVars
  <2>3. CASE StartFlag
    <3>1. /\ ctl = "flag" /\ ctl' = "idle" /\ enable'
          /\ UNCHANGED <<pos, sw_count>>
      BY <2>3 DEF StartFlag
    <3>2. QED
      BY <2>1, <3>1 DEF Stream!TxsNext, Stream!Switch
  <2>4. CASE StopMask
    <3>1. /\ ctl = "idle" /\ ctl' = "flush" /\ UNCHANGED <<enable, pos, sw_count>>
      BY <2>4 DEF StopMask
    <3>2. CASE enable
      BY <2>1, <3>1, <3>2 DEF Stream!TxsNext, Stream!Switch
    <3>3. CASE ~enable
      BY <2>1, <3>1, <3>3 DEF Stream!txsVars
    <3>4. QED
      BY <3>2, <3>3
  <2>5. CASE StopClear
    <3>1. /\ ctl = "clear" /\ ctl' = "idle" /\ ~enable' /\ sw_count' = 0
          /\ UNCHANGED pos
      BY <2>5 DEF StopClear
    <3>2. QED
      BY <2>1, <3>1 DEF Stream!txsVars
  <2>6. QED
    BY <1>5, <2>2, <2>3, <2>4, <2>5 DEF TxControl
<1>6. CASE TxFlush
  <2>1. /\ ctl = "flush" /\ ctl' = "clear" /\ pos' = 0 /\ due' = {}
        /\ UNCHANGED <<enable, sent, out>>
    BY <1>6 DEF TxFlush, StopFlush
  <2>2. QED
    BY <2>1 DEF Stream!TxsNext, Stream!Restart
<1>7. CASE TxOpen
  <2>1. /\ ~enable /\ sw_count' = 0
        /\ UNCHANGED <<enable, ctl, pos, due, sent, out>>
    BY <1>7 DEF TxOpen, Open, txVars
  <2>2. QED
    BY <2>1 DEF Stream!TxsNext, Stream!Forget
<1>8. CASE WrUnderflow
  <2>1. /\ ctl = "idle" /\ sw_count' = sw_count + 1 /\ Queued < 0
        /\ out' = [kind |-> "lost", seq |-> sw_count, at |-> pos]
        /\ UNCHANGED <<enable, ctl, pos, due, sent>>
    BY <1>8 DEF WrUnderflow, Advance
  <2>2. sw_count < hw_count_last
    BY <1>0, <2>1, SeenBelowLast DEF TxInv, ChInv, ChTypeOK, Queued
  <2>3. pos > sw_count
    BY <1>0, <2>1, <2>2 DEF TxInv, ChInv, LastSound
  <2>4. QED
    BY <2>1, <2>3 DEF Stream!TxsNext, Stream!Lose
<1>9. CASE WrCopied
  <2>1. /\ ctl = "idle" /\ sw_count' = sw_count + 1 /\ wr.pc = "copy"
        /\ out' = [kind |-> "written", seq |-> sw_count, at |-> pos]
        /\ due' = IF enable /\ pos < sw_count THEN due \cup {sw_count} ELSE due
        /\ UNCHANGED <<enable, ctl, pos, sent>>
    BY <1>9 DEF WrCopied, Advance
  <2>2. sw_count < pos + Half
    BY <1>0, <2>1, HalfBound DEF TxInv, ClientAhead, ChInv, LastSound
  <2>3. QED
    BY <2>1, <2>2 DEF Stream!TxsNext, Stream!Accept
<1>10. CASE Wr /\ ~WrUnderflow /\ ~WrCopied
  <2>1. (\E n \in 1..MaxLen : WrCall(n) \/ WrCallNonblock(n))
          => UNCHANGED streamed
    BY DEF WrCall, WrCallNonblock, chVars
  <2>2. WrCheck \/ WrSignal \/ WrReturn \/ WrCopy \/ WrFault
          => UNCHANGED streamed
    BY DEF WrCheck, WrSignal, WrReturn, WrCopy, WrFault, chVars
  <2>3. QED
    BY <1>2, <1>10, <2>1, <2>2 DEF Wr
<1>11. CASE UNCHANGED vars
  BY <1>2, <1>11 DEF vars
<1>12. QED
  BY <1>1, <1>3, <1>4, <1>5, <1>6, <1>7, <1>8, <1>9, <1>10, <1>11 DEF Next

\* write() keeps the promise of TxStream for every size of the ring and every
\* interrupt latency (main.c:499-551).
THEOREM TxRefinement ==
  ASSUME IrqDrained PROVE Spec => TxImplementsStream
<1>1. Init => Stream!TxsInit
  BY DEF Init, ChInit, Stream!TxsInit
<1>2. TxInv /\ TxInv' /\ [Next]_vars => [Stream!TxsNext]_(Stream!txsVars)
  BY TxStreamStep
<1>3. QED
  BY <1>1, <1>2, TxInvariance, PTL DEF Spec, TxImplementsStream, Stream!TxsSpec

-----------------------------------------------------------------------------
(* The wake-up of write().                                                 *)

\* A writer to a started engine is asleep only while half the ring is full:
\* each store that raises the count is followed by the wake-up
\* (main.c:354-363, 515-516).
WrAsleep == wr.pc = "sleep" /\ enable => hw_count + Half <= sw_count

\* While a writer sleeps two periods after the engine made room for it, the
\* interrupt that will wake it is raised or being handled (main.c:317-363,
\* 515-516).
WrWakeComing ==
  wr.pc = "sleep" /\ enable /\ sw_count < pos + Half - 2 * BufferPerIrq
    => msi \/ isr.pc # "idle"

LEMMA WrAsleepStep ==
  ASSUME TxInv, WrAsleep, [Next]_vars
  PROVE  WrAsleep'
<1> USE ConstantTypes
<1>0. /\ wr \in [pc : WrPc, len : Nat]
      /\ hw_count \in Nat /\ hw_count_last \in Nat /\ sw_count \in Nat
      /\ wr.pc # "user" => ctl = "idle"
  BY DEF TxInv, TxTypeOK, ChInv, ChTypeOK, OneThread
<1>1. CASE UNCHANGED <<hw_count, sw_count, enable, wr>>
  BY <1>1 DEF WrAsleep
<1>2. CASE TxIrqDone
  BY <1>0, <1>2 DEF TxIrqDone, Wake, WrAsleep, WrPc
<1>3. CASE IrqUpdateSplit /\ TxIrqStep
  <2> DEFINE m == Merged(hw_count, isr.status)
  <2>1. /\ wr' = wr /\ sw_count' = sw_count /\ enable' = enable
        /\ hw_count' = m /\ m < hw_count_last /\ hw_count_last = hw_count
    BY <1>3 DEF IrqUpdateSplit, TxIrqStep, txVars, TxInv, ChInv, LastIsCount
  <2>2. m \in Nat
    <3>1. ChTypeOK /\ [ChNext]_chVars
      BY <1>3, TxChannelStep DEF TxInv, ChInv
    <3>2. hw_count' \in Nat
      BY <3>1, ChTypeStep DEF ChTypeOK
    <3>3. QED
      BY <2>1, <3>2
  <2> HIDE DEF m
  <2>3. hw_count + Half <= sw_count => m + Half <= sw_count
    BY <1>0, <2>1, <2>2, HalfBound
  <2>4. QED
    BY <2>1, <2>3, Zenon DEF WrAsleep
<1>4. CASE TxOpen
  BY <1>4 DEF TxOpen, Open, WrAsleep
<1>5. CASE TxStart \/ TxControl \/ TxFlush
  <2>1. wr.pc = "user" /\ wr' = wr
    BY <1>5 DEF TxStart, TxControl, TxFlush, txVars
  <2>2. QED
    BY <2>1 DEF WrAsleep
<1>6. CASE WrCheck
  <2>1. wr'.pc = "sleep" => sw_count - hw_count >= Half
    BY <1>0, <1>6, HalfBound DEF WrCheck, Queued
  <2>2. UNCHANGED <<hw_count, sw_count, enable>>
    BY <1>6 DEF WrCheck, chVars
  <2>3. sw_count - hw_count >= Half => hw_count + Half <= sw_count
    BY <1>0, HalfBound
  <2>4. QED
    BY <2>1, <2>2, <2>3, Zenon DEF WrAsleep
<1>7. (\E n \in 1..MaxLen : WrCall(n) \/ WrCallNonblock(n)) \/ WrSignal
        \/ WrReturn \/ WrUnderflow \/ WrCopy \/ WrCopied \/ WrFault
      => wr'.pc # "sleep"
  <2>1. ASSUME NEW n \in 1..MaxLen, WrCall(n) \/ WrCallNonblock(n)
        PROVE  wr'.pc # "sleep"
    BY <2>1 DEF WrCall, WrCallNonblock
  <2>2. WrSignal \/ WrReturn \/ WrFault \/ WrCopied => wr'.pc # "sleep"
    BY DEF WrSignal, WrReturn, WrFault, WrCopied, User
  <2>3. WrUnderflow \/ WrCopy => wr'.pc # "sleep"
    BY <1>0 DEF WrUnderflow, WrCopy
  <2>4. QED
    BY <2>1, <2>2, <2>3
<1>8. TxComplete \/ UNCHANGED vars
        => UNCHANGED <<hw_count, sw_count, enable, wr>>
  BY DEF TxComplete, HwComplete, vars
<1>9. TxIrqStep /\ ~IrqUpdateSplit
        => UNCHANGED <<hw_count, sw_count, enable, wr>>
  BY DEF TxIrqStep, IrqDeliver, IrqEnter, IrqStatus, txVars
<1>10. QED
  BY <1>1, <1>2, <1>3, <1>4, <1>5, <1>6, <1>7, <1>8, <1>9
     DEF Next, Wr, TxIrq, WrAsleep

LEMMA WrWakeStep ==
  TxInv /\ WrAsleep /\ NoIrqLost => WrWakeComing
<1> SUFFICES ASSUME TxInv, WrAsleep, NoIrqLost, wr.pc = "sleep", enable,
                    sw_count < pos + Half - 2 * BufferPerIrq, isr.pc = "idle"
             PROVE  msi
  BY DEF WrWakeComing
<1>1. /\ ChTypeOK /\ ctl = "idle" /\ hw_count + Half <= sw_count
      /\ pos \in Nat /\ hw_count \in Nat /\ sw_count \in Nat
  BY DEF TxInv, ChInv, ChTypeOK, OneThread, WrAsleep
<1>2. pos >= hw_count + 2 * BufferPerIrq
  BY <1>1, ConstantTypes, HalfBound
<1>3. IrqOwed(hw_count)
  BY <1>1, <1>2, TwoPeriodsOwed
<1>4. QED
  BY <1>1, <1>3 DEF NoIrqLost

\* No sleep of write() is forgotten: the safety half of WrNotStranded, for
\* every order of the handler, the engine and the writer.
THEOREM TxWakeComing ==
  ASSUME IrqDrained PROVE Spec => [](WrAsleep /\ WrWakeComing)
<1>1. Init => WrAsleep
  BY DEF Init, User, WrAsleep
<1>2. TxInv /\ WrAsleep /\ [Next]_vars => WrAsleep'
  BY WrAsleepStep
<1>3. Spec => []WrAsleep
  BY <1>1, <1>2, TxInvariance, PTL DEF Spec
<1>4. Spec => []NoIrqLost
  BY TxImplementsChannel, ChNoIrqLost, PTL
<1>5. QED
  BY <1>3, <1>4, TxInvariance, WrWakeStep, PTL
=============================================================================
