---------------------------- MODULE DmaRxProofs ----------------------------
(***************************************************************************)
(* Reception is right for every size of the ring and every interrupt and   *)
(* copy latency that leaves a margin in it: what read() copies is intact,  *)
(* and read() implements the stream RxStream promises.                     *)
(***************************************************************************)
EXTENDS DmaRx, DmaChannelProofs

\* Every step of reception is a step of the engine, or leaves it alone.
LEMMA ChannelStep == [Next]_vars => [ChNext]_chVars
<1> SUFFICES ASSUME [Next]_vars PROVE [ChNext]_chVars
  OBVIOUS
<1>1. CASE RxComplete
  BY <1>1 DEF RxComplete, ChNext
<1>2. CASE RxIrq
  BY <1>2 DEF RxIrq, RxIrqStep, RxIrqDone, IrqDone, ChNext, Irq
<1>3. CASE RxStart \/ RxControl
  BY <1>3 DEF RxStart, RxControl, ChNext, Control
<1>4. CASE RxOpen
  BY <1>4 DEF RxOpen, ChNext
<1>5. CASE Rd
  <2>1. (\E n \in 1..MaxLen : RdCall(n) \/ RdCallNonblock(n))
          => UNCHANGED chVars
    BY DEF RdCall, RdCallNonblock
  <2>2. RdCheck \/ RdSignal \/ RdReturn \/ RdCopy \/ RdFault
          => UNCHANGED chVars
    BY DEF RdCheck, RdSignal, RdReturn, RdCopy, RdFault
  <2>3. RdOverflow \/ RdCopied => Advance
    BY DEF RdOverflow, RdCopied
  <2>4. QED
    BY <1>5, <2>1, <2>2, <2>3 DEF Rd, ChNext
<1>6. CASE UNCHANGED vars
  BY <1>6 DEF vars, chVars
<1>7. QED
  BY <1>1, <1>2, <1>3, <1>4, <1>5, <1>6 DEF Next

\* Reception implements the engine: all its theorems hold of it.
THEOREM RxImplementsChannel == Spec => ChSpec
<1>1. Init => ChInit
  BY DEF Init
<1>2. QED
  BY <1>1, ChannelStep, PTL DEF Spec, ChSpec

\* The count is sound under reception too (main.c:370-374).
THEOREM RxHwCountSound ==
  ASSUME IrqDrained PROVE Spec => []HwCountSound
  BY RxImplementsChannel, ChHwCountSound, PTL

LEMMA RxInitInv == Init => RxInv
<1> SUFFICES ASSUME Init PROVE RxInv
  OBVIOUS
<1>1. ChInv /\ pos = 0 /\ sw_count = 0 /\ hw_count_last = 0 /\ ctl = "idle"
  BY ChInitInv DEF Init, ChInit
<1>2. rd.pc = "user"
  BY DEF Init, User
<1>3. RxTypeOK
  BY DEF Init, RxTypeOK, User, RdPc, Torn
<1>4. RingHolds /\ ClientBehind /\ OneThread /\ CopyInProgress
  BY <1>1, <1>2, ConstantTypes DEF RingHolds, ClientBehind, OneThread,
     CopyInProgress
<1>5. QED
  BY <1>1, <1>3, <1>4 DEF RxInv

-----------------------------------------------------------------------------
(* Every step keeps the types of the client's part.                        *)

LEMMA RxTypeStep == RxInv /\ [Next]_vars => RxTypeOK'
<1> SUFFICES ASSUME RxInv, [Next]_vars PROVE RxTypeOK'
  OBVIOUS
<1>1. RxTypeOK /\ pos \in Nat /\ sw_count \in Nat
  BY DEF RxInv, ChInv, ChTypeOK
<1>2. Slot(sw_count) \in 0..(BufferCount - 1)
  BY <1>1, SlotType
<1>3. buf[Slot(sw_count)] \in Int
  BY <1>1, <1>2 DEF RxTypeOK
<1>4. CASE RxComplete
  <2> DEFINE filled == [buf EXCEPT ![Slot(pos)] = pos]
  <2>1. filled \in [0..(BufferCount - 1) -> Int]
    <3>1. buf \in [0..(BufferCount - 1) -> Int] /\ pos \in Int
      BY <1>1 DEF RxTypeOK
    <3>2. QED
      BY <3>1, ExceptType
  <2>2. buf' = [filled EXCEPT ![Slot(pos + 1)] = -1]
    BY <1>4 DEF RxComplete, Torn
  <2> HIDE DEF filled
  <2>3. buf' \in [0..(BufferCount - 1) -> Int]
    BY <2>1, <2>2, -1 \in Int, ExceptType
  <2>4. QED
    BY <1>1, <1>4, <2>3 DEF RxTypeOK, RxComplete
<1>5. CASE RxIrq
  BY <1>1, <1>5 DEF RxTypeOK, RxIrq, RxIrqStep, RxIrqDone, Wake, rxVars, RdPc
<1>6. CASE RxStart
  BY <1>1, <1>6 DEF RxTypeOK, RxStart, Torn
<1>7. CASE RxControl \/ RxOpen
  BY <1>1, <1>7 DEF RxTypeOK, RxControl, RxOpen, rxVars
<1>8. ASSUME NEW n \in 1..MaxLen, RdCall(n) \/ RdCallNonblock(n)
      PROVE  RxTypeOK'
  <2>1. n \in Nat
    BY MaxLenAssumption
  <2>2. buf' = buf /\ out' = out
    BY <1>8 DEF RdCall, RdCallNonblock
  <2>3. CASE RdCall(n)
    BY <1>1, <2>1, <2>2, <2>3 DEF RxTypeOK, RdCall, RdPc
  <2>4. CASE RdCallNonblock(n)
    BY <1>1, <2>1, <2>2, <2>4 DEF RxTypeOK, RdCallNonblock, RdPc
  <2>5. QED
    BY <1>8, <2>3, <2>4
<1>9. CASE RdCheck
  BY <1>1, <1>9 DEF RxTypeOK, RdCheck, RdPc
<1>10. CASE RdSignal \/ RdReturn \/ RdFault
  BY <1>1, <1>10 DEF RxTypeOK, RdSignal, RdReturn, RdFault, User, RdPc, Torn
<1>11. CASE RdOverflow
  BY <1>1, <1>11 DEF RxTypeOK, RdOverflow, RdPc
<1>12. CASE RdCopy
  BY <1>1, <1>3, <1>12 DEF RxTypeOK, RdCopy, RdPc
<1>13. CASE RdCopied
  <2>1. out' \in [kind : {"none", "data", "lost"}, seq : Int]
    BY <1>1, <1>13 DEF RxTypeOK, RdCopied, Torn
  <2>2. buf' = buf /\ rd' = [User EXCEPT !.pc = "loop", !.len = rd.len - 1]
    BY <1>13 DEF RdCopied
  <2>3. rd.len - 1 \in Nat
    BY <1>1, <1>13 DEF RxInv, CopyInProgress, RdCopied, RxTypeOK
  <2>4. rd' = [pc |-> "loop", len |-> rd.len - 1, at |-> 0, seen |-> -1]
    BY <2>2 DEF User, Torn
  <2>5. rd' \in [pc : RdPc, len : Nat, at : Nat, seen : Int]
    BY <2>3, <2>4 DEF RdPc
  <2>6. QED
    BY <1>1, <2>1, <2>2, <2>5 DEF RxTypeOK
<1>14. CASE UNCHANGED vars
  BY <1>1, <1>14 DEF RxTypeOK, vars
<1>15. QED
  BY <1>4, <1>5, <1>6, <1>7, <1>8, <1>9, <1>10, <1>11, <1>12, <1>13, <1>14
     DEF Next, Rd

-----------------------------------------------------------------------------
(* Every step keeps the invariant.                                         *)

\* The parts of the invariant proved elsewhere, for any step.
LEMMA RxBase ==
  ASSUME IrqDrained, RxInv, [Next]_vars
  PROVE  /\ ChInv' /\ RxTypeOK'
         /\ pos \in Nat /\ sw_count \in Nat
         /\ hw_count \in Nat /\ hw_count_last \in Nat
         /\ pos' \in Nat /\ sw_count' \in Nat
         /\ hw_count' \in Nat /\ hw_count_last' \in Nat
<1>1. ChInv' /\ RxTypeOK'
  BY ChannelStep, ChInvStep, RxTypeStep DEF RxInv
<1>2. QED
  BY <1>1 DEF RxInv, ChInv, ChTypeOK

\* With something available the handler is not in the middle of a split
\* store: the count it exposes then is not ahead of the client.
LEMMA AvailableIsCounted ==
  ASSUME RxInv, ctl = "idle", Available > 0
  PROVE  hw_count = hw_count_last /\ sw_count < hw_count_last /\ enable
<1>1. pos \in Nat /\ sw_count \in Nat /\ hw_count \in Nat
      /\ hw_count_last \in Nat /\ Span \in Nat
  BY ConstantTypes DEF RxInv, ChInv, ChTypeOK
<1>2. sw_count < hw_count
  BY <1>1 DEF Available
<1>3. isr.pc # "carry"
  <2> SUFFICES ASSUME isr.pc = "carry" PROVE FALSE
    OBVIOUS
  <2>1. hw_count + Span <= pos
    BY DEF RxInv, ChInv, CarryValue
  <2>2. pos <= sw_count + Span
    BY DEF RxInv, ClientBehind
  <2>3. QED
    BY <1>1, <1>2, <2>1, <2>2
<1>4. hw_count = hw_count_last
  BY <1>3 DEF RxInv, ChInv, LastIsCount
<1>5. enable
  <2> SUFFICES ASSUME ~enable PROVE FALSE
    OBVIOUS
  <2>1. hw_count = 0
    BY DEF RxInv, ChInv, AtRest
  <2>2. QED
    BY <1>1, <1>2, <2>1
<1>6. QED
  BY <1>2, <1>4, <1>5

LEMMA RxEngineStep ==
  ASSUME IrqDrained, RxInv, RxComplete
  PROVE  RxInv'
<1> USE ConstantTypes
<1>1. [Next]_vars
  BY DEF Next
<1>2. /\ ChInv' /\ RxTypeOK'
      /\ pos \in Nat /\ sw_count \in Nat
      /\ hw_count_last \in Nat
  BY <1>1, RxBase
<1>3. pos' = pos + 1 /\ rd' = rd
      /\ UNCHANGED <<sw_count, hw_count_last, enable, ctl>>
  BY DEF RxComplete, HwComplete
<1>4. RingHolds'
  <2> SUFFICES ASSUME NEW s \in 0..pos, pos + 1 < s + BufferCount
               PROVE  buf'[Slot(s)] = s
    BY <1>2, <1>3 DEF RingHolds, Slot
  <2>1. buf \in [0..(BufferCount - 1) -> Int]
    BY DEF RxInv, RxTypeOK
  <2>2. Slot(s) \in 0..(BufferCount - 1) /\ Slot(pos) \in 0..(BufferCount - 1)
    BY <1>2, SlotType
  <2>3. buf' = [buf EXCEPT ![Slot(pos)] = pos, ![Slot(pos + 1)] = Torn]
    BY DEF RxComplete
  <2>4. Slot(s) # Slot(pos + 1)
    BY <1>2, SlotsDiffer
  <2>5. CASE s = pos
    BY <2>1, <2>2, <2>3, <2>4, <2>5
  <2>6. CASE s # pos
    <3>1. s \in Nat /\ s < pos /\ pos < s + BufferCount
      BY <1>2, <2>6
    <3>2. Slot(s) # Slot(pos)
      BY <1>2, <3>1, SlotsDiffer
    <3>3. buf[Slot(s)] = s
      BY <1>2, <3>1 DEF RxInv, RingHolds
    <3>4. QED
      BY <2>1, <2>2, <2>3, <2>4, <3>2, <3>3
  <2>7. QED
    BY <2>5, <2>6
<1>5. ClientBehind'
  <2>1. pos < sw_count + Span
    BY DEF RxComplete
  <2>2. QED
    BY <1>2, <1>3, <2>1 DEF RxInv, ClientBehind
<1>6. OneThread'
  BY <1>3 DEF RxInv, OneThread
<1>7. CopyInProgress'
  <2>1. rd.pc = "copy" => pos < rd.at + CopyLag
    BY DEF RxComplete
  <2>2. rd.at \in Nat /\ CopyLag \in Nat
    BY CopyLagAssumption DEF RxInv, RxTypeOK
  <2>3. QED
    BY <1>2, <1>3, <2>1, <2>2 DEF RxInv, CopyInProgress
<1>8. QED
  BY <1>2, <1>4, <1>5, <1>6, <1>7 DEF RxInv

LEMMA RxHandlerStep ==
  ASSUME IrqDrained, RxInv, RxIrq
  PROVE  RxInv'
<1> USE ConstantTypes
<1>1. [Next]_vars /\ Irq
  BY DEF Next, RxIrq, RxIrqStep, RxIrqDone, IrqDone, Irq
<1>2. /\ ChInv' /\ RxTypeOK'
      /\ pos \in Nat /\ sw_count \in Nat
      /\ hw_count_last \in Nat /\ hw_count_last' \in Nat
  BY <1>1, RxBase
<1>3. UNCHANGED <<pos, sw_count, enable, ctl>>
  BY <1>1 DEF Irq, IrqDeliver, IrqEnter, IrqStatus, IrqUpdate, IrqUpdateSplit,
     IrqCarry
<1>4. buf' = buf
  BY DEF RxIrq, RxIrqStep, RxIrqDone, rxVars
<1>5. ctl # "clear" => hw_count_last' >= hw_count_last
  BY <1>1, HandlerCount DEF RxInv
<1>6. rd' = rd \/ (rd.pc = "sleep" /\ rd' = [rd EXCEPT !.pc = "check"])
  BY DEF RxIrq, RxIrqStep, RxIrqDone, Wake, rxVars
<1>7. (rd'.pc # "user" => rd.pc # "user") /\ (rd'.pc = "copy" => rd' = rd)
  BY <1>6 DEF RxInv, RxTypeOK
<1>8. RingHolds'
  BY <1>3, <1>4 DEF RxInv, RingHolds, Slot
<1>9. ClientBehind'
  BY <1>2, <1>3, <1>5 DEF RxInv, ClientBehind
<1>10. OneThread'
  BY <1>3, <1>7 DEF RxInv, OneThread
<1>11. CopyInProgress'
  <2> SUFFICES ASSUME rd'.pc = "copy" PROVE CopyInProgress'
    BY DEF CopyInProgress
  <2>1. rd' = rd /\ rd.pc = "copy" /\ ctl = "idle"
    BY <1>7 DEF RxInv, OneThread
  <2>2. QED
    BY <1>2, <1>3, <1>5, <2>1 DEF RxInv, CopyInProgress
<1>12. QED
  BY <1>2, <1>8, <1>9, <1>10, <1>11 DEF RxInv

LEMMA RxControlStep ==
  ASSUME IrqDrained, RxInv, RxStart \/ RxControl \/ RxOpen
  PROVE  RxInv'
<1> USE ConstantTypes
<1>1. [Next]_vars
  BY DEF Next
<1>2. /\ ChInv' /\ RxTypeOK'
      /\ pos \in Nat /\ sw_count \in Nat
      /\ hw_count_last \in Nat
  BY <1>1, RxBase
<1>3. CASE RxStart
  <2>1. pos' = 0 /\ sw_count' = 0 /\ hw_count_last' = 0 /\ ctl' = "irq"
        /\ rd' = rd /\ rd.pc = "user"
    BY <1>3 DEF RxStart, StartEngine
  <2>2. RingHolds' /\ ClientBehind' /\ OneThread' /\ CopyInProgress'
    BY <2>1 DEF RingHolds, ClientBehind, OneThread, CopyInProgress
  <2>3. QED
    BY <1>2, <2>2 DEF RxInv
<1>4. CASE RxControl
  <2>1. rd' = rd /\ buf' = buf /\ rd.pc = "user"
    BY <1>4 DEF RxControl, rxVars
  <2>2. CASE StartIrq \/ StartFlag \/ StopMask
    <3>1. UNCHANGED <<pos, sw_count, hw_count_last>>
          /\ ctl # "clear" /\ ctl' # "irq" /\ (ctl' = "flag" => ctl = "irq")
      BY <2>2 DEF StartIrq, StartFlag, StopMask
    <3>2. RingHolds' /\ ClientBehind' /\ OneThread' /\ CopyInProgress'
      BY <2>1, <3>1 DEF RxInv, RingHolds, ClientBehind, OneThread,
         CopyInProgress, Slot
    <3>3. QED
      BY <1>2, <3>2 DEF RxInv
  <2>3. CASE StopFlush
    <3>1. pos' = 0 /\ ctl' = "clear"
      BY <2>3 DEF StopFlush
    <3>2. RingHolds' /\ ClientBehind' /\ OneThread' /\ CopyInProgress'
      BY <2>1, <3>1 DEF RingHolds, ClientBehind, OneThread, CopyInProgress
    <3>3. QED
      BY <1>2, <3>2 DEF RxInv
  <2>4. CASE StopClear
    <3>1. pos' = 0 /\ ctl' = "idle" /\ sw_count' = 0 /\ hw_count_last' = 0
      BY <2>4 DEF StopClear, RxInv, ChInv, CtlPhase
    <3>2. RingHolds' /\ ClientBehind' /\ OneThread' /\ CopyInProgress'
      BY <2>1, <3>1 DEF RingHolds, ClientBehind, OneThread, CopyInProgress
    <3>3. QED
      BY <1>2, <3>2 DEF RxInv
  <2>5. QED
    BY <1>4, <2>2, <2>3, <2>4 DEF RxControl
<1>5. CASE RxOpen
  <2>1. ~enable /\ sw_count' = 0 /\ hw_count_last' = 0
        /\ UNCHANGED <<pos, ctl, enable, buf, rd>>
    BY <1>5 DEF RxOpen, Open, rxVars
  <2>2. pos <= IrqLag
    BY <1>2, <2>1 DEF RxInv, ChInv, CtlPhase, AtRest
  <2>3. RingHolds'
    BY <2>1 DEF RxInv, RingHolds, Slot
  <2>4. ClientBehind'
    BY <1>2, <2>1, <2>2 DEF ClientBehind
  <2>5. OneThread' /\ CopyInProgress'
    BY <2>1 DEF RxInv, OneThread, CopyInProgress
  <2>6. QED
    BY <1>2, <2>3, <2>4, <2>5 DEF RxInv
<1>6. QED
  BY <1>3, <1>4, <1>5

LEMMA RdStep ==
  ASSUME IrqDrained, RingMargin, RxInv, Rd
  PROVE  RxInv'
<1> USE ConstantTypes
<1>1. [Next]_vars
  BY DEF Next
<1>2. /\ ChInv' /\ RxTypeOK'
      /\ pos \in Nat /\ sw_count \in Nat
      /\ hw_count \in Nat /\ hw_count_last \in Nat
  BY <1>1, RxBase
<1>3. /\ RxTypeOK
      /\ UNCHANGED <<pos, hw_count_last, enable, ctl, buf>>
  <2>1. RdOverflow \/ RdCopied \/ RdCheck \/ RdSignal \/ RdReturn \/ RdCopy
          \/ RdFault => UNCHANGED <<pos, hw_count_last, enable, ctl, buf>>
    BY DEF RdOverflow, RdCopied, RdCheck, RdSignal, RdReturn, RdCopy, RdFault,
       Advance, chVars
  <2>2. (\E n \in 1..MaxLen : RdCall(n) \/ RdCallNonblock(n))
          => UNCHANGED <<pos, hw_count_last, enable, ctl, buf>>
    BY DEF RdCall, RdCallNonblock, chVars
  <2>3. QED
    BY <2>1, <2>2 DEF Rd, RxInv
<1>4. RingHolds'
  BY <1>3 DEF RxInv, RingHolds, Slot
<1>5. (\E n \in 1..MaxLen : RdCall(n) \/ RdCallNonblock(n)) \/ RdCheck
        \/ RdSignal \/ RdReturn \/ RdFault
      => /\ rd'.pc # "copy" /\ sw_count' = sw_count
         /\ rd'.pc # "user" => ctl = "idle"
  <2>1. ASSUME NEW n \in 1..MaxLen, RdCall(n) \/ RdCallNonblock(n)
        PROVE  rd'.pc # "copy" /\ sw_count' = sw_count /\ ctl = "idle"
    BY <1>3, <2>1 DEF RdCall, RdCallNonblock, chVars, RxTypeOK
  <2>2. RdCheck => /\ rd'.pc # "copy" /\ sw_count' = sw_count
                   /\ ctl = "idle"
    BY <1>3 DEF RdCheck, chVars, RxTypeOK, RxInv, OneThread
  <2>3. RdSignal \/ RdReturn \/ RdFault
          => rd'.pc = "user" /\ sw_count' = sw_count
    BY DEF RdSignal, RdReturn, RdFault, User, chVars
  <2>4. QED
    BY <2>1, <2>2, <2>3
<1>6. CASE (\E n \in 1..MaxLen : RdCall(n) \/ RdCallNonblock(n)) \/ RdCheck
             \/ RdSignal \/ RdReturn \/ RdFault
  <2>1. ClientBehind' /\ OneThread' /\ CopyInProgress'
    BY <1>3, <1>5, <1>6 DEF RxInv, ClientBehind, OneThread, CopyInProgress
  <2>2. QED
    BY <1>2, <1>4, <2>1 DEF RxInv
<1>7. CASE RdOverflow
  <2>1. ctl = "idle" /\ sw_count' = sw_count + 1 /\ rd'.pc = "loop"
    BY <1>3, <1>7 DEF RdOverflow, Advance, RxTypeOK
  <2>2. Available > 0
    BY <1>2, <1>7, HalfType DEF RdOverflow, Available
  <2>3. sw_count < hw_count_last
    BY <2>1, <2>2, AvailableIsCounted
  <2>4. ClientBehind' /\ OneThread' /\ CopyInProgress'
    BY <1>2, <1>3, <2>1, <2>3 DEF RxInv, ClientBehind, OneThread,
       CopyInProgress
  <2>5. QED
    BY <1>2, <1>4, <2>4 DEF RxInv
<1>8. CASE RdCopy
  <2>1. ctl = "idle"
    BY <1>8 DEF RdCopy, RxInv, OneThread
  <2>2. rd'.pc = "copy" /\ rd'.at = pos /\ rd'.len = rd.len /\ rd.len > 0
        /\ rd'.seen = buf[Slot(sw_count)] /\ sw_count' = sw_count
        /\ Available > 0 /\ Available <= BufferCount \div 2
    BY <1>3, <1>8 DEF RdCopy, RxTypeOK, chVars
  <2>3. hw_count = hw_count_last /\ sw_count < hw_count_last /\ enable
    BY <2>1, <2>2, AvailableIsCounted
  <2>4. hw_count_last <= pos /\ pos <= hw_count_last + IrqLag
    BY <2>1 DEF RxInv, ChInv, LastSound
  <2>5. pos <= sw_count + BufferCount \div 2 + IrqLag
    BY <1>2, <2>2, <2>3, <2>4, HalfType DEF Available
  <2>6. buf[Slot(sw_count)] = sw_count
    <3>1. sw_count \in 0..(pos - 1) /\ pos < sw_count + BufferCount
      BY <1>2, <2>3, <2>4, <2>5, HalfType, CopyLagAssumption DEF RingMargin
    <3>2. QED
      BY <3>1 DEF RxInv, RingHolds
  <2>7. CopyInProgress'
    BY <1>2, <1>3, <2>2, <2>3, <2>5, <2>6, CopyLagAssumption
       DEF CopyInProgress
  <2>8. ClientBehind' /\ OneThread'
    BY <1>3, <2>1, <2>2 DEF RxInv, ClientBehind, OneThread
  <2>9. QED
    BY <1>2, <1>4, <2>7, <2>8 DEF RxInv
<1>9. CASE RdCopied
  <2>1. ctl = "idle" /\ sw_count' = sw_count + 1 /\ rd'.pc = "loop"
    BY <1>9 DEF RdCopied, Advance, User
  <2>2. sw_count < hw_count_last
    BY <1>9 DEF RdCopied, RxInv, CopyInProgress
  <2>3. ClientBehind' /\ OneThread' /\ CopyInProgress'
    BY <1>2, <1>3, <2>1, <2>2 DEF RxInv, ClientBehind, OneThread,
       CopyInProgress
  <2>4. QED
    BY <1>2, <1>4, <2>3 DEF RxInv
<1>10. QED
  BY <1>6, <1>7, <1>8, <1>9 DEF Rd

LEMMA RxInvStep ==
  ASSUME IrqDrained, RingMargin, RxInv, [Next]_vars
  PROVE  RxInv'
<1>1. CASE UNCHANGED vars
  <2>1. ChInv' /\ RxTypeOK'
    BY RxBase
  <2>2. RingHolds' /\ ClientBehind' /\ OneThread' /\ CopyInProgress'
    BY <1>1 DEF RxInv, vars, RingHolds, ClientBehind, OneThread,
       CopyInProgress, Slot
  <2>3. QED
    BY <2>1, <2>2 DEF RxInv
<1>2. QED
  BY <1>1, RxEngineStep, RxHandlerStep, RxControlStep, RdStep DEF Next

\* The inductive invariant of reception.
THEOREM RxInvariance ==
  ASSUME IrqDrained, RingMargin PROVE Spec => []RxInv
<1>1. RxInv /\ [Next]_vars => RxInv'
  BY RxInvStep
<1>2. QED
  BY <1>1, RxInitInv, PTL DEF Spec

\* The slot a copy is made from holds the buffer the client is owed.
LEMMA CopyIntactInv == RingMargin /\ RxInv => CopyIntact
<1> SUFFICES ASSUME RingMargin, RxInv, rd.pc = "copy"
             PROVE  buf[Slot(sw_count)] = sw_count /\ rd.seen = sw_count
  BY DEF CopyIntact
<1> USE ConstantTypes
<1>1. pos \in Nat /\ sw_count \in Nat /\ hw_count_last \in Nat
      /\ rd.at \in Nat
  BY DEF RxInv, ChInv, ChTypeOK, RxTypeOK
<1>2. /\ sw_count < hw_count_last /\ pos <= rd.at + CopyLag
      /\ rd.at <= sw_count + BufferCount \div 2 + IrqLag
      /\ rd.seen = sw_count
  BY DEF RxInv, CopyInProgress
<1>3. hw_count_last <= pos
  BY DEF RxInv, OneThread, ChInv, LastSound
<1>4. sw_count \in 0..(pos - 1) /\ pos < sw_count + BufferCount
  BY <1>1, <1>2, <1>3, HalfType, CopyLagAssumption DEF RingMargin
<1>5. QED
  BY <1>2, <1>4 DEF RxInv, RingHolds

\* No copy is torn, whatever the order of engine, handler and client, if
\* half the ring, an interrupt latency and a copy fit into it.
THEOREM RxCopyIntact ==
  ASSUME IrqDrained, RingMargin PROVE Spec => []CopyIntact
  BY RxInvariance, CopyIntactInv, PTL

-----------------------------------------------------------------------------
(* read() implements the stream.                                           *)

LEMMA StreamStep ==
  ASSUME IrqDrained, RingMargin, RxInv, RxInv', [Next]_vars
  PROVE  [Stream!RxsNext]_(Stream!rxsVars)
<1> USE ConstantTypes
<1> DEFINE nxt == IF ctl = "clear" THEN 0 ELSE sw_count
<1>0. /\ pos \in Nat /\ sw_count \in Nat
      /\ hw_count \in Nat /\ hw_count_last \in Nat
  BY DEF RxInv, ChInv, ChTypeOK
<1>1. CASE RxComplete
  <2>1. pos' = pos + 1 /\ UNCHANGED <<sw_count, ctl, out>>
    BY <1>1 DEF RxComplete, HwComplete
  <2>2. QED
    BY <2>1 DEF Stream!RxsNext, Stream!Produce
<1>2. CASE UNCHANGED <<pos, sw_count, ctl, out>>
  BY <1>2 DEF Stream!rxsVars
<1>3. CASE RxIrq
  <2>1. UNCHANGED <<pos, sw_count, ctl, out>>
    BY <1>3 DEF RxIrq, RxIrqStep, RxIrqDone, IrqDone, IrqDeliver, IrqEnter,
       IrqStatus, IrqUpdate, IrqUpdateSplit, IrqCarry, rxVars
  <2>2. QED
    BY <1>2, <2>1
<1>4. CASE RxStart
  <2>1. pos = 0 /\ hw_count_last = 0 /\ ctl = "idle"
    BY <1>4 DEF RxStart, StartEngine, RxInv, ChInv, AtRest
  <2>2. sw_count = 0
    BY <1>0, <2>1 DEF RxInv, ClientBehind
  <2>3. pos' = pos /\ sw_count' = sw_count /\ out' = out /\ ctl' = "irq"
    BY <1>4, <2>1, <2>2 DEF RxStart, StartEngine
  <2>4. QED
    BY <2>1, <2>3 DEF Stream!rxsVars
<1>5. CASE RxControl
  <2>1. out' = out
    BY <1>5 DEF RxControl, rxVars
  <2>2. CASE StartIrq \/ StartFlag \/ StopMask
    <3>1. pos' = pos /\ sw_count' = sw_count /\ ctl # "clear" /\ ctl' # "clear"
      BY <2>2 DEF StartIrq, StartFlag, StopMask
    <3>2. QED
      BY <2>1, <3>1 DEF Stream!rxsVars
  <2>3. CASE StopFlush
    <3>1. pos' = 0 /\ ctl' = "clear"
      BY <2>3 DEF StopFlush
    <3>2. QED
      BY <2>1, <3>1 DEF Stream!RxsNext, Stream!Restart
  <2>4. CASE StopClear
    <3>1. pos' = pos /\ ctl = "clear" /\ ctl' = "idle" /\ sw_count' = 0
      BY <2>4 DEF StopClear
    <3>2. QED
      BY <2>1, <3>1 DEF Stream!rxsVars
  <2>5. QED
    BY <1>5, <2>2, <2>3, <2>4 DEF RxControl
<1>6. CASE RxOpen
  <2>1. pos' = pos /\ ctl' = ctl /\ out' = out /\ sw_count' = 0 /\ ~enable
    BY <1>6 DEF RxOpen, Open, rxVars
  <2>2. ctl # "clear" => sw_count = 0
    BY <1>0, <2>1 DEF RxInv, ClientBehind, OneThread, ChInv, AtRest
  <2>3. QED
    BY <2>1, <2>2 DEF Stream!rxsVars
<1>7. CASE RdOverflow
  <2>1. ctl = "idle" /\ ctl' = ctl /\ sw_count' = sw_count + 1 /\ pos' = pos
        /\ out' = [kind |-> "lost", seq |-> sw_count]
        /\ Available > BufferCount \div 2
    BY <1>7 DEF RdOverflow, Advance
  <2>2. Available > 0
    BY <1>0, <2>1, HalfType DEF Available
  <2>3. hw_count <= pos
    BY <2>1, <2>2, AvailableIsCounted DEF RxInv, ChInv, LastSound
  <2>4. pos - sw_count > BufferCount \div 2
    BY <1>0, <2>1, <2>3, HalfType DEF Available
  <2>5. QED
    BY <2>1, <2>4 DEF Stream!RxsNext, Stream!Lose
<1>8. CASE RdCopied
  <2>1. ctl = "idle" /\ ctl' = ctl /\ sw_count' = sw_count + 1 /\ pos' = pos
        /\ rd.pc = "copy"
    BY <1>8 DEF RdCopied, Advance
  <2>2. buf[Slot(sw_count)] = sw_count /\ rd.seen = sw_count
    BY <2>1, CopyIntactInv DEF CopyIntact
  <2>3. out' = [kind |-> "data", seq |-> sw_count]
    BY <1>8, <2>2 DEF RdCopied
  <2>4. sw_count < pos
    BY <1>0, <2>1 DEF RxInv, CopyInProgress, ChInv, LastSound
  <2>5. QED
    BY <2>1, <2>3, <2>4 DEF Stream!RxsNext, Stream!Deliver
<1>9. CASE Rd /\ ~RdOverflow /\ ~RdCopied
  <2>1. (\E n \in 1..MaxLen : RdCall(n) \/ RdCallNonblock(n))
          => UNCHANGED <<pos, sw_count, ctl, out>>
    BY DEF RdCall, RdCallNonblock, chVars
  <2>2. RdCheck \/ RdSignal \/ RdReturn \/ RdCopy \/ RdFault
          => UNCHANGED <<pos, sw_count, ctl, out>>
    BY DEF RdCheck, RdSignal, RdReturn, RdCopy, RdFault, chVars
  <2>3. QED
    BY <1>2, <1>9, <2>1, <2>2 DEF Rd
<1>10. CASE UNCHANGED vars
  BY <1>2, <1>10 DEF vars
<1>11. QED
  BY <1>1, <1>3, <1>4, <1>5, <1>6, <1>7, <1>8, <1>9, <1>10 DEF Next

\* read() delivers the stream of RxStream for every value of the constants
\* within the margin.
THEOREM RxRefinement ==
  ASSUME IrqDrained, RingMargin PROVE Spec => RxImplementsStream
<1>1. Init => Stream!RxsInit
  BY DEF Init, ChInit, Stream!RxsInit, Stream!Nothing
<1>2. RxInv /\ RxInv' /\ [Next]_vars => [Stream!RxsNext]_(Stream!rxsVars)
  BY StreamStep
<1>3. QED
  BY <1>1, <1>2, RxInvariance, PTL DEF Spec, RxImplementsStream,
     Stream!RxsSpec

-----------------------------------------------------------------------------
(* The wake-up of read().                                                  *)

\* A reader is asleep only while the count gives it nothing: each store that
\* raises the count is followed by the wake-up (main.c:370-379, 460-461).
RdAsleep == rd.pc = "sleep" => hw_count <= sw_count

\* While a reader sleeps two periods behind the engine, the interrupt that
\* will wake it is raised or being handled (main.c:317-379, 460-461).
RdWakeComing ==
  rd.pc = "sleep" /\ pos >= sw_count + 2 * BufferPerIrq
    => msi \/ isr.pc # "idle"

LEMMA RdAsleepStep ==
  ASSUME RxInv, RdAsleep, [Next]_vars
  PROVE  RdAsleep'
<1> USE ConstantTypes
<1>0. /\ rd \in [pc : RdPc, len : Nat, at : Nat, seen : Int]
      /\ hw_count \in Nat /\ hw_count_last \in Nat /\ sw_count \in Nat
      /\ rd.pc # "user" => ctl = "idle"
  BY DEF RxInv, RxTypeOK, ChInv, ChTypeOK, OneThread
<1>1. CASE UNCHANGED <<hw_count, sw_count, rd>>
  BY <1>1 DEF RdAsleep
<1>2. CASE RxIrqDone
  BY <1>0, <1>2 DEF RxIrqDone, Wake, RdAsleep, RdPc
<1>3. CASE IrqUpdateSplit /\ RxIrqStep
  <2>1. /\ rd' = rd /\ sw_count' = sw_count /\ hw_count' < hw_count_last
        /\ hw_count_last = hw_count
    BY <1>3 DEF IrqUpdateSplit, RxIrqStep, rxVars, RxInv, ChInv, LastIsCount
  <2>2. hw_count' \in Int
    <3>1. ChTypeOK /\ [ChNext]_chVars
      BY <1>3, ChannelStep DEF RxInv, ChInv
    <3>2. hw_count' \in Nat
      BY <3>1, ChTypeStep DEF ChTypeOK
    <3>3. QED
      BY <3>2
  <2>3. QED
    BY <1>0, <2>1, <2>2 DEF RdAsleep
<1>4. CASE RxOpen \/ RxStart
  BY <1>4 DEF RxOpen, RxStart, Open, StartEngine, RdAsleep
<1>5. CASE RxControl
  BY <1>5 DEF RxControl, RdAsleep, rxVars
<1>6. CASE RdCheck
  BY <1>0, <1>6 DEF RdCheck, RdAsleep, Available, chVars
<1>7. (\E n \in 1..MaxLen : RdCall(n) \/ RdCallNonblock(n)) \/ RdSignal
        \/ RdReturn \/ RdOverflow \/ RdCopy \/ RdCopied \/ RdFault
      => rd'.pc # "sleep"
  <2>1. ASSUME NEW n \in 1..MaxLen, RdCall(n) \/ RdCallNonblock(n)
        PROVE  rd'.pc # "sleep"
    BY <1>0, <2>1 DEF RdCall, RdCallNonblock
  <2>2. RdSignal \/ RdReturn \/ RdFault => rd'.pc # "sleep"
    BY DEF RdSignal, RdReturn, RdFault, User
  <2>3. RdOverflow \/ RdCopy => rd'.pc # "sleep"
    BY <1>0 DEF RdOverflow, RdCopy
  <2>4. RdCopied => rd'.pc = "loop"
    BY DEF RdCopied, User
  <2>5. QED
    BY <2>1, <2>2, <2>3, <2>4
<1>8. RxComplete \/ UNCHANGED vars => UNCHANGED <<hw_count, sw_count, rd>>
  BY DEF RxComplete, HwComplete, vars
<1>9. RxIrqStep /\ ~IrqUpdateSplit => UNCHANGED <<hw_count, sw_count, rd>>
  BY DEF RxIrqStep, IrqDeliver, IrqEnter, IrqStatus, rxVars
<1>10. QED
  BY <1>1, <1>2, <1>3, <1>4, <1>5, <1>6, <1>7, <1>8, <1>9
     DEF Next, Rd, RxIrq, RdAsleep

LEMMA RdWakeStep ==
  RxInv /\ RdAsleep /\ NoIrqLost => RdWakeComing
<1> SUFFICES ASSUME RxInv, RdAsleep, NoIrqLost, rd.pc = "sleep",
                    pos >= sw_count + 2 * BufferPerIrq, isr.pc = "idle"
             PROVE  msi
  BY DEF RdWakeComing
<1>1. /\ ChTypeOK /\ ctl = "idle" /\ hw_count <= sw_count
      /\ pos \in Nat /\ hw_count \in Nat /\ sw_count \in Nat
  BY DEF RxInv, ChInv, ChTypeOK, OneThread, RdAsleep
<1>2. pos >= hw_count + 2 * BufferPerIrq
  BY <1>1, ConstantTypes
<1>3. IrqOwed(hw_count)
  BY <1>1, <1>2, TwoPeriodsOwed
<1>4. QED
  BY <1>1, <1>3 DEF NoIrqLost

\* No sleep of read() is forgotten: the safety half of RdNotStranded, for every
\* order of the handler, the engine and the reader.
THEOREM RxWakeComing ==
  ASSUME IrqDrained, RingMargin PROVE Spec => [](RdAsleep /\ RdWakeComing)
<1>1. Init => RdAsleep
  BY DEF Init, User, RdAsleep
<1>2. RxInv /\ RdAsleep /\ [Next]_vars => RdAsleep'
  BY RdAsleepStep
<1>3. Spec => []RdAsleep
  BY <1>1, <1>2, RxInvariance, PTL DEF Spec
<1>4. Spec => []NoIrqLost
  BY RxImplementsChannel, ChNoIrqLost, PTL
<1>5. QED
  BY <1>3, <1>4, RxInvariance, RdWakeStep, PTL
=============================================================================
