-------------------------- MODULE DmaChannelProofs --------------------------
(***************************************************************************)
(* The counters of one engine are sound for every table size, interrupt    *)
(* period, interrupt latency below one Span and position: ChInv is         *)
(* inductive, and the properties TLC checks follow from it.  First what    *)
(* the arithmetic of LoopCounter computes, for every table size and every  *)
(* width of the loop count.                                                *)
(***************************************************************************)
EXTENDS DmaChannel, TLAPS

-----------------------------------------------------------------------------
(* The loop count and its unwrapping.                                      *)

\* Quotient and remainder are the only q and r with x = q*M + r, r < M.
LEMMA DivUnique ==
  ASSUME NEW M \in Nat \ {0}, NEW q \in Nat, NEW r \in 0..(M-1)
  PROVE  (q*M + r) % M = r /\ (q*M + r) \div M = q
<1> DEFINE x == q*M + r
<1>1. x \in Nat
  OBVIOUS
<1>2. x = M * (x \div M) + (x % M) /\ x % M \in 0..(M-1) /\ x \div M \in Nat
  BY <1>1
<1>3. QED
  BY <1>2

\* Every natural number is quotient * M + remainder.
LEMMA DivMod ==
  ASSUME NEW M \in Nat \ {0}, NEW x \in Nat
  PROVE  /\ x = (x \div M) * M + (x % M)
         /\ x % M \in 0..(M-1)
         /\ x \div M \in Nat
  OBVIOUS

LEMMA MulMono ==
  ASSUME NEW a \in Int, NEW b \in Int, NEW M \in Nat, a <= b
  PROVE  a*M <= b*M
  OBVIOUS

LEMMA SpanType == Span \in Nat \ {0}
  BY BufferCountAssumption, LoopCountModAssumption DEF Span

\* The register, read back by the handler, is the position modulo Span
\* (main.c:353-354): no position is confused with another of the same span.
LEMMA StatusCountIsMod ==
  ASSUME NEW p \in Nat
  PROVE  StatusCount(LoopStatus(p)) = p % Span
<1> DEFINE B == BufferCount
           L == LoopCountMod
           d == p \div B
           i == p % B
           c == d % L
           q == d \div L
<1>1. B \in Nat \ {0} /\ L \in Nat \ {0}
  BY BufferCountAssumption, LoopCountModAssumption
<1>2. p = d*B + i /\ i \in 0..(B-1) /\ d \in Nat
  BY <1>1, DivMod
<1>3. d = q*L + c /\ c \in 0..(L-1) /\ q \in Nat
  BY <1>1, <1>2, DivMod
<1> HIDE DEF d, i, c, q
<1> DEFINE r == c*B + i
<1>4. r \in Nat /\ p = q*(B*L) + r
  <2>1. d*B = (q*L)*B + c*B
    BY <1>1, <1>3
  <2>2. (q*L)*B = q*(B*L)
    BY <1>1, <1>3
  <2>3. QED
    BY <1>1, <1>2, <1>3, <2>1, <2>2
<1>5. r < B*L
  <2>1. c + 1 <= L
    BY <1>1, <1>3
  <2>2. (c+1)*B <= L*B
    BY <1>1, <1>3, <2>1, MulMono
  <2>3. (c+1)*B = c*B + B /\ L*B = B*L
    BY <1>1, <1>3
  <2>4. i < B
    BY <1>1, <1>2
  <2>5. c*B \in Nat /\ B*L \in Nat
    BY <1>1, <1>3
  <2>6. QED
    BY <1>1, <1>2, <2>2, <2>3, <2>4, <2>5
<1>6. p % (B*L) = r
  <2>1. B*L \in Nat \ {0} /\ r \in 0..(B*L - 1)
    BY <1>1, <1>4, <1>5
  <2> HIDE DEF r
  <2>2. QED
    BY <1>3, <1>4, <2>1, DivUnique
<1>7. QED
  BY <1>6 DEF StatusCount, LoopStatus, Span, d, i, c

\* The handler recovers the exact position from the wrapped register whenever
\* the engine is less than one Span past the count it last computed
\* (main.c:370-373 and 354-357).
THEOREM UnwrapExact ==
  ASSUME NEW hw \in Nat, NEW p \in Nat, hw <= p, p < hw + Span
  PROVE  Unwrap(hw, LoopStatus(p)) = p
<1> DEFINE S == Span
           q == hw \div S
           r == hw % S
           u == p \div S
           v == p % S
<1>1. S \in Nat \ {0}
  BY SpanType
<1>2. hw = q*S + r /\ r \in 0..(S-1) /\ q \in Nat
  BY <1>1, DivMod
<1>3. p = u*S + v /\ v \in 0..(S-1) /\ u \in Nat
  BY <1>1, DivMod
<1>4. Merged(hw, LoopStatus(p)) = q*S + v
  BY StatusCountIsMod DEF Merged, MaskHigh
<1>5. Unwrap(hw, LoopStatus(p)) =
        IF hw > q*S + v THEN q*S + v + S ELSE q*S + v
  BY <1>4 DEF Unwrap, Carry
<1> HIDE DEF q, r, u, v
<1>6. p < hw + S
  OBVIOUS
<1> HIDE DEF S
<1>7. u = q \/ u = q + 1
  <2>1. ~(u <= q - 1)
    <3> SUFFICES ASSUME u <= q - 1 PROVE FALSE
      OBVIOUS
    <3>1. (u+1)*S <= q*S
      BY <1>1, <1>2, <1>3, MulMono
    <3>2. (u+1)*S = u*S + S
      BY <1>1, <1>3
    <3>3. u*S \in Nat /\ q*S \in Nat
      BY <1>1, <1>2, <1>3
    <3>4. QED
      BY <1>1, <1>2, <1>3, <3>1, <3>2, <3>3
  <2>2. ~(q + 2 <= u)
    <3> SUFFICES ASSUME q + 2 <= u PROVE FALSE
      OBVIOUS
    <3>1. (q+2)*S <= u*S
      BY <1>1, <1>2, <1>3, MulMono
    <3>2. (q+2)*S = q*S + S + S
      BY <1>1, <1>2
    <3>3. u*S \in Nat /\ q*S \in Nat
      BY <1>1, <1>2, <1>3
    <3>4. QED
      BY <1>1, <1>2, <1>3, <1>6, <3>1, <3>2, <3>3
  <2>3. QED
    BY <1>2, <1>3, <2>1, <2>2
<1>8. CASE u = q
  BY <1>1, <1>2, <1>3, <1>5, <1>8
<1>9. CASE u = q + 1
  <2>1. p = q*S + S + v
    BY <1>1, <1>2, <1>3, <1>9
  <2>2. q*S \in Nat
    BY <1>1, <1>2
  <2>3. hw > q*S + v
    BY <1>1, <1>2, <1>3, <1>6, <2>1, <2>2
  <2>4. QED
    BY <1>1, <1>2, <1>3, <1>5, <2>1, <2>2, <2>3
<1>10. QED
  BY <1>7, <1>8, <1>9

\* Two sequence numbers less than a ring apart are in different slots.
LEMMA SlotsDiffer ==
  ASSUME NEW a \in Nat, NEW b \in Nat, a < b, b < a + BufferCount
  PROVE  Slot(a) # Slot(b)
<1> DEFINE B == BufferCount
           q == a \div B
           r == a % B
           u == b \div B
           v == b % B
<1>1. B \in Nat \ {0}
  BY BufferCountAssumption
<1>2. a = q*B + r /\ r \in 0..(B-1) /\ q \in Nat
  BY <1>1, DivMod
<1>3. b = u*B + v /\ v \in 0..(B-1) /\ u \in Nat
  BY <1>1, DivMod
<1>4. a < b /\ b < a + B
  OBVIOUS
<1>5. SUFFICES ASSUME r = v PROVE FALSE
  BY DEF Slot
<1> HIDE DEF q, r, u, v, B
<1>6. CASE u <= q
  <2>1. u*B <= q*B
    BY <1>1, <1>2, <1>3, <1>6, MulMono
  <2>2. u*B \in Nat /\ q*B \in Nat
    BY <1>1, <1>2, <1>3
  <2>3. QED
    BY <1>2, <1>3, <1>4, <1>5, <2>1, <2>2
<1>7. CASE q + 1 <= u
  <2>1. (q+1)*B <= u*B
    BY <1>1, <1>2, <1>3, <1>7, MulMono
  <2>2. (q+1)*B = q*B + B /\ u*B \in Nat /\ q*B \in Nat
    BY <1>1, <1>2, <1>3
  <2>3. QED
    BY <1>1, <1>2, <1>3, <1>4, <1>5, <2>1, <2>2
<1>8. QED
  BY <1>2, <1>3, <1>6, <1>7

LEMMA SlotType ==
  ASSUME NEW n \in Nat
  PROVE  Slot(n) \in 0..(BufferCount - 1)
  BY BufferCountAssumption DEF Slot

\* An update keeps the type of a function.
LEMMA ExceptType ==
  ASSUME NEW S, NEW T, NEW f \in [S -> T], NEW s, NEW v \in T
  PROVE  [f EXCEPT ![s] = v] \in [S -> T]
  OBVIOUS

-----------------------------------------------------------------------------
(* The counters of an engine.                                              *)

LEMMA ConstantTypes ==
  /\ BufferCount \in Nat \ {0}
  /\ LoopCountMod \in Nat \ {0}
  /\ BufferPerIrq \in Nat \ {0}
  /\ IrqLag \in Nat
  /\ BufferPerIrq <= IrqLag
  /\ IrqLag < Span
  /\ Span \in Nat \ {0}
<1>1. BufferCount \in Nat \ {0} /\ LoopCountMod \in Nat \ {0}
  BY BufferCountAssumption, LoopCountModAssumption
<1>2. BufferPerIrq \in Nat \ {0}
  BY <1>1, BufferPerIrqAssumption
<1>3. QED
  BY <1>1, <1>2, IrqLagAssumption, SpanType

\* A status word is a pair of naturals.
LEMMA LoopStatusType ==
  ASSUME NEW p \in Nat
  PROVE  LoopStatus(p) \in [index : Nat, count : Nat]
<1>1. BufferCount \in Nat \ {0} /\ LoopCountMod \in Nat \ {0}
  BY ConstantTypes
<1>2. p \div BufferCount \in Nat /\ p % BufferCount \in Nat
  BY <1>1
<1>3. (p \div BufferCount) % LoopCountMod \in Nat
  BY <1>1, <1>2
<1>4. QED
  BY <1>2, <1>3 DEF LoopStatus

\* Merging a status word into a count gives a natural number.
LEMMA MergedType ==
  ASSUME NEW hw \in Nat, NEW st \in [index : Nat, count : Nat]
  PROVE  Merged(hw, st) \in Nat
<1>1. BufferCount \in Nat \ {0} /\ Span \in Nat \ {0}
  BY ConstantTypes
<1>2. hw \div Span \in Nat /\ st.index \in Nat /\ st.count \in Nat
  BY <1>1
<1>3. (hw \div Span) * Span \in Nat /\ st.count * BufferCount \in Nat
  BY <1>1, <1>2
<1>4. QED
  BY <1>2, <1>3 DEF Merged, MaskHigh, StatusCount

LEMMA CarryType ==
  ASSUME NEW last \in Nat, NEW merged \in Nat
  PROVE  Carry(last, merged) \in Nat
  BY ConstantTypes DEF Carry

LEMMA IdleType == Idle \in [pc : IsrPc, status : [index : Nat, count : Nat]]
  BY LoopStatusType DEF Idle, IsrPc

LEMMA ChInitInv == ChInit => ChInv
<1> SUFFICES ASSUME ChInit PROVE ChInv
  OBVIOUS
<1> USE DEF ChInit
<1>1. ChTypeOK
  BY IdleType DEF ChTypeOK, CtlPc
<1>2. isr.pc = "idle"
  BY DEF Idle
<1>3. LastSound /\ LastIsCount /\ StatusFresh /\ CarryValue
  BY <1>2, ConstantTypes DEF LastSound, LastIsCount, StatusFresh, CarryValue
<1>4. CtlPhase /\ MaskedIsQuiet /\ AtRest
  BY <1>2 DEF CtlPhase, MaskedIsQuiet, AtRest
<1>5. QED
  BY <1>1, <1>3, <1>4 DEF ChInv

-----------------------------------------------------------------------------
(* Every step keeps the types.                                             *)

LEMMA ChTypeStep == ChTypeOK /\ [ChNext]_chVars => ChTypeOK'
<1> SUFFICES ASSUME ChTypeOK, [ChNext]_chVars PROVE ChTypeOK'
  OBVIOUS
<1> USE DEF ChTypeOK
<1>1. CASE HwComplete
  BY <1>1 DEF HwComplete
<1>2. CASE IrqDeliver
  BY <1>2 DEF IrqDeliver, IsrPc
<1>3. CASE IrqEnter
  BY <1>3, IdleType DEF IrqEnter, IsrPc
<1>4. CASE IrqStatus
  BY <1>4, LoopStatusType DEF IrqStatus, IsrPc
<1>5. CASE IrqUpdate
  <2>1. Carry(hw_count_last, Merged(hw_count, isr.status)) \in Nat
    BY MergedType, CarryType
  <2>2. QED
    BY <1>5, <2>1, IdleType DEF IrqUpdate
<1>6. CASE IrqUpdateSplit
  <2>1. Merged(hw_count, isr.status) \in Nat
    BY MergedType
  <2>2. QED
    BY <1>6, <2>1 DEF IrqUpdateSplit, IsrPc
<1>7. CASE IrqCarry
  <2>1. Carry(hw_count_last, hw_count) \in Nat
    BY CarryType
  <2>2. QED
    BY <1>7, <2>1, IdleType DEF IrqCarry
<1>8. CASE Control
  <2>1. CASE StartEngine
    BY <2>1 DEF StartEngine, CtlPc
  <2>2. CASE StartIrq
    BY <2>2 DEF StartIrq, CtlPc
  <2>3. CASE StartFlag
    BY <2>3 DEF StartFlag, CtlPc
  <2>4. CASE StopMask
    BY <2>4 DEF StopMask, CtlPc
  <2>5. CASE StopFlush
    BY <2>5 DEF StopFlush, CtlPc
  <2>6. CASE StopClear
    BY <2>6 DEF StopClear, CtlPc
  <2>7. QED
    BY <1>8, <2>1, <2>2, <2>3, <2>4, <2>5, <2>6 DEF Control
<1>9. CASE Open
  BY <1>9 DEF Open
<1>10. CASE Advance
  BY <1>10 DEF Advance
<1>11. CASE UNCHANGED chVars
  BY <1>11 DEF chVars
<1>12. QED
  BY <1>1, <1>2, <1>3, <1>4, <1>5, <1>6, <1>7, <1>8, <1>9, <1>10, <1>11
     DEF ChNext, Irq

\* The types of every run.
THEOREM ChTypeCorrect == ChSpec => []ChTypeOK
<1>1. ChInit => ChTypeOK
  BY ChInitInv DEF ChInv
<1>2. QED
  BY <1>1, ChTypeStep, PTL DEF ChSpec

-----------------------------------------------------------------------------
(* Every step keeps the invariant, the handler being drained by a stop.    *)

\* The count the handler computes from a fresh status word is the position
\* that word was read at.
LEMMA UpdateExact ==
  ASSUME ChInv, isr.pc = "update", ctl # "clear"
  PROVE  \E p \in hw_count..pos :
           Carry(hw_count_last, Merged(hw_count, isr.status)) = p
<1>1. PICK p \in hw_count..pos : isr.status = LoopStatus(p)
  BY DEF ChInv, StatusFresh
<1>2. hw_count \in Nat /\ p \in Nat /\ hw_count_last = hw_count /\ hw_count <= p
  BY <1>1 DEF ChInv, ChTypeOK, LastIsCount
<1>3. p < hw_count + Span
  BY <1>1, <1>2, ConstantTypes DEF ChInv, ChTypeOK, LastSound
<1>4. Unwrap(hw_count, LoopStatus(p)) = p
  BY <1>2, <1>3, UnwrapExact
<1>5. QED
  BY <1>1, <1>2, <1>4 DEF Unwrap

LEMMA EngineStep == ChInv /\ HwComplete => ChInv'
<1> SUFFICES ASSUME ChInv, HwComplete PROVE ChInv'
  OBVIOUS
<1> USE ConstantTypes
<1>1. ChTypeOK /\ ChTypeOK'
  BY ChTypeStep DEF ChInv, ChNext
<1>2. ctl # "clear" /\ (enable \/ ctl \in {"irq", "flag"})
  BY DEF ChInv, CtlPhase, AtRest, HwComplete
<1>3. LastSound'
  BY <1>1, <1>2 DEF ChInv, LastSound, HwComplete, ChTypeOK
<1>4. StatusFresh'
  BY <1>1 DEF ChInv, StatusFresh, HwComplete, ChTypeOK
<1>5. LastIsCount' /\ CarryValue'
  BY <1>1 DEF ChInv, LastIsCount, CarryValue, HwComplete, ChTypeOK
<1>6. CtlPhase'
  BY <1>1, <1>2 DEF ChInv, CtlPhase, HwComplete, ChTypeOK
<1>7. MaskedIsQuiet' /\ AtRest'
  BY <1>2 DEF ChInv, MaskedIsQuiet, AtRest, HwComplete
<1>8. QED
  BY <1>1, <1>3, <1>4, <1>5, <1>6, <1>7 DEF ChInv

LEMMA HandlerStep == ChInv /\ Irq => ChInv'
<1> SUFFICES ASSUME ChInv, Irq PROVE ChInv'
  OBVIOUS
<1> USE ConstantTypes
<1>1. ChTypeOK /\ ChTypeOK'
  BY ChTypeStep DEF ChInv, ChNext
<1>2. isr.pc # "idle" \/ msi_enable
  BY DEF Irq, IrqDeliver, IrqEnter, IrqStatus, IrqUpdate, IrqUpdateSplit,
         IrqCarry
<1>3. CtlPhase'
  BY DEF ChInv, CtlPhase, Irq, IrqDeliver, IrqEnter, IrqStatus, IrqUpdate,
         IrqUpdateSplit, IrqCarry
<1>4. msi_enable \/ ctl \in {"flush", "clear"}
  BY <1>2 DEF ChInv, MaskedIsQuiet
<1>5. MaskedIsQuiet'
  BY <1>4 DEF MaskedIsQuiet, Irq, IrqDeliver, IrqEnter, IrqStatus, IrqUpdate,
              IrqUpdateSplit, IrqCarry
<1>6. enable \/ ctl \in {"irq", "flag"}
  BY <1>2 DEF ChInv, AtRest, CtlPhase, ChTypeOK, CtlPc
<1>7. AtRest'
  BY <1>6 DEF AtRest, Irq, IrqDeliver, IrqEnter, IrqStatus, IrqUpdate,
              IrqUpdateSplit, IrqCarry
<1>8. CASE IrqDeliver
  <2>1. isr'.pc = "enter"
    BY <1>1, <1>8 DEF IrqDeliver, ChTypeOK
  <2>2. LastSound' /\ LastIsCount' /\ StatusFresh' /\ CarryValue'
    BY <1>8, <2>1 DEF IrqDeliver, ChInv, LastSound, LastIsCount, StatusFresh,
                      CarryValue
  <2>3. QED
    BY <1>1, <1>3, <1>5, <1>7, <2>2 DEF ChInv
<1>9. CASE IrqEnter
  <2>1. isr'.pc \in {"idle", "status"}
    BY <1>1, <1>9 DEF IrqEnter, ChTypeOK, Idle
  <2>2. LastSound' /\ LastIsCount' /\ StatusFresh' /\ CarryValue'
    BY <1>9, <2>1 DEF IrqEnter, ChInv, LastSound, LastIsCount, StatusFresh,
                      CarryValue
  <2>3. QED
    BY <1>1, <1>3, <1>5, <1>7, <2>2 DEF ChInv
<1>10. CASE IrqStatus
  <2>1. isr'.pc = "update" /\ isr'.status = LoopStatus(pos)
    BY <1>10 DEF IrqStatus
  <2>2. ctl # "clear" => pos \in hw_count..pos
    BY <1>1, <1>10 DEF IrqStatus, ChInv, LastSound, LastIsCount, ChTypeOK
  <2>3. StatusFresh'
    BY <1>10, <2>1, <2>2 DEF IrqStatus, StatusFresh
  <2>4. LastSound' /\ LastIsCount' /\ CarryValue'
    BY <1>10, <2>1 DEF IrqStatus, ChInv, LastSound, LastIsCount, CarryValue
  <2>5. QED
    BY <1>1, <1>3, <1>5, <1>7, <2>3, <2>4 DEF ChInv
<1>11. CASE IrqUpdate
  <2> DEFINE new == Carry(hw_count_last, Merged(hw_count, isr.status))
  <2>1. hw_count' = new /\ hw_count_last' = new /\ isr'.pc = "idle"
        /\ UNCHANGED <<pos, ctl>>
    BY <1>11 DEF IrqUpdate, Idle
  <2>2. ctl # "clear" => new \in hw_count..pos
    BY <1>11, UpdateExact DEF IrqUpdate
  <2>3. hw_count \in Nat /\ pos \in Nat /\ hw_count = hw_count_last
    BY <1>1, <1>11 DEF IrqUpdate, ChInv, LastIsCount, ChTypeOK
  <2> HIDE DEF new
  <2>4. LastSound'
    BY <2>1, <2>2, <2>3 DEF ChInv, LastSound
  <2>5. LastIsCount' /\ StatusFresh' /\ CarryValue'
    BY <2>1 DEF LastIsCount, StatusFresh, CarryValue
  <2>6. QED
    BY <1>1, <1>3, <1>5, <1>7, <2>4, <2>5 DEF ChInv
<1>12. CASE IrqUpdateSplit
  <2> DEFINE m == Merged(hw_count, isr.status)
  <2>1. hw_count' = m /\ isr'.pc = "carry" /\ hw_count_last > m
        /\ UNCHANGED <<pos, ctl, hw_count_last>>
    BY <1>1, <1>12 DEF IrqUpdateSplit, ChTypeOK
  <2>2. ctl # "clear" => m + Span \in hw_count..pos
    <3>1. Carry(hw_count_last, m) = m + Span
      BY <2>1 DEF Carry
    <3>2. QED
      BY <1>12, <3>1, UpdateExact DEF IrqUpdateSplit
  <2>3. hw_count \in Nat /\ pos \in Nat /\ hw_count = hw_count_last /\ m \in Nat
    BY <1>1, <1>12, MergedType DEF IrqUpdateSplit, ChInv, LastIsCount, ChTypeOK
  <2> HIDE DEF m
  <2>4. CarryValue'
    BY <2>1, <2>2, <2>3 DEF CarryValue
  <2>5. LastSound' /\ LastIsCount' /\ StatusFresh'
    BY <2>1 DEF ChInv, LastSound, LastIsCount, StatusFresh
  <2>6. QED
    BY <1>1, <1>3, <1>5, <1>7, <2>4, <2>5 DEF ChInv
<1>13. CASE IrqCarry
  <2>1. hw_count' = Carry(hw_count_last, hw_count) /\ hw_count_last' = hw_count'
        /\ isr'.pc = "idle" /\ UNCHANGED <<pos, ctl>>
    BY <1>13 DEF IrqCarry, Idle
  <2>2. ctl # "clear" =>
          hw_count' = hw_count + Span /\ hw_count' \in hw_count_last..pos
    BY <1>1, <1>13, <2>1 DEF IrqCarry, ChInv, CarryValue, Carry, ChTypeOK
  <2>3. LastSound'
    BY <1>1, <2>1, <2>2 DEF ChInv, LastSound, ChTypeOK
  <2>4. LastIsCount' /\ StatusFresh' /\ CarryValue'
    BY <2>1 DEF LastIsCount, StatusFresh, CarryValue
  <2>5. QED
    BY <1>1, <1>3, <1>5, <1>7, <2>3, <2>4 DEF ChInv
<1>14. QED
  BY <1>8, <1>9, <1>10, <1>11, <1>12, <1>13 DEF Irq

LEMMA ControlStep == IrqDrained /\ ChInv /\ Control => ChInv'
<1> SUFFICES ASSUME IrqDrained, ChInv, Control PROVE ChInv'
  OBVIOUS
<1> USE ConstantTypes
<1>1. ChTypeOK /\ ChTypeOK'
  BY ChTypeStep DEF ChInv, ChNext
<1>2. CASE StartEngine
  <2>1. isr.pc = "idle" /\ ~msi_enable
    BY <1>2 DEF StartEngine, ChInv, AtRest, CtlPhase
  <2>2. pos' = 0 /\ hw_count' = 0 /\ hw_count_last' = 0 /\ ctl' = "irq"
        /\ isr'.pc = "idle" /\ ~msi_enable' /\ ~enable'
    BY <1>2, <2>1 DEF StartEngine
  <2>3. QED
    BY <1>1, <2>2 DEF ChInv, LastSound, LastIsCount, StatusFresh, CarryValue,
                      CtlPhase, MaskedIsQuiet, AtRest
<1>3. CASE StartIrq
  BY <1>1, <1>3 DEF StartIrq, ChInv, LastSound, LastIsCount, StatusFresh,
                    CarryValue, CtlPhase, MaskedIsQuiet, AtRest
<1>4. CASE StartFlag
  BY <1>1, <1>4 DEF StartFlag, ChInv, LastSound, LastIsCount, StatusFresh,
                    CarryValue, CtlPhase, MaskedIsQuiet, AtRest
<1>5. CASE StopMask
  BY <1>1, <1>5 DEF StopMask, ChInv, LastSound, LastIsCount, StatusFresh,
                    CarryValue, CtlPhase, MaskedIsQuiet, AtRest
<1>6. CASE StopFlush
  BY <1>1, <1>6 DEF StopFlush, ChInv, LastSound, LastIsCount, StatusFresh,
                    CarryValue, CtlPhase, MaskedIsQuiet, AtRest
<1>7. CASE StopClear
  <2>1. isr.pc = "idle" /\ pos = 0 /\ ~hw_enable /\ ~msi_enable
    <3>1. ctl = "clear" /\ (IrqDrained => isr.pc = "idle")
      BY <1>7 DEF StopClear
    <3>2. QED
      BY <3>1 DEF ChInv, CtlPhase
  <2>2. isr'.pc = "idle" /\ pos' = 0 /\ ~hw_enable' /\ ~msi_enable'
        /\ hw_count' = 0 /\ hw_count_last' = 0 /\ ~enable' /\ ctl' = "idle"
        /\ msi_enable' = enable'
    <3>1. msi_enable = FALSE
      BY <1>1, <2>1 DEF ChTypeOK
    <3>2. QED
      BY <1>7, <2>1, <3>1 DEF StopClear
  <2>3. QED
    BY <1>1, <2>2 DEF ChInv, LastSound, LastIsCount, StatusFresh, CarryValue,
                      CtlPhase, MaskedIsQuiet, AtRest
<1>8. QED
  BY <1>2, <1>3, <1>4, <1>5, <1>6, <1>7 DEF Control

LEMMA OpenStep == ChInv /\ Open => ChInv'
<1> SUFFICES ASSUME ChInv, Open PROVE ChInv'
  OBVIOUS
<1> USE ConstantTypes
<1>1. ChTypeOK /\ ChTypeOK'
  BY ChTypeStep DEF ChInv, ChNext
<1>2. hw_count' = 0 /\ hw_count_last' = 0
      /\ UNCHANGED <<pos, msi_enable, hw_enable, enable, isr, ctl>>
  BY DEF Open
<1>3. pos <= IrqLag
  BY <1>1 DEF ChInv, CtlPhase, AtRest, Open, ChTypeOK
<1>4. isr.pc = "carry" => ctl = "clear"
  <2> SUFFICES ASSUME isr.pc = "carry", ctl # "clear" PROVE FALSE
    OBVIOUS
  <2>1. hw_count + Span <= pos
    BY DEF ChInv, CarryValue
  <2>2. QED
    BY <1>1, <1>3, <2>1 DEF ChTypeOK
<1>5. LastSound' /\ LastIsCount' /\ CarryValue'
  BY <1>1, <1>2, <1>3, <1>4 DEF LastSound, LastIsCount, CarryValue, ChTypeOK
<1>6. StatusFresh'
  BY <1>1, <1>2 DEF ChInv, StatusFresh, ChTypeOK
<1>7. CtlPhase' /\ MaskedIsQuiet' /\ AtRest'
  BY <1>2 DEF ChInv, CtlPhase, MaskedIsQuiet, AtRest
<1>8. QED
  BY <1>1, <1>5, <1>6, <1>7 DEF ChInv

\* ChInv is inductive when a stop drains the handler.
LEMMA ChInvStep == IrqDrained /\ ChInv /\ [ChNext]_chVars => ChInv'
<1> SUFFICES ASSUME IrqDrained, ChInv, [ChNext]_chVars PROVE ChInv'
  OBVIOUS
<1>1. ChTypeOK'
  BY ChTypeStep DEF ChInv
<1>2. CASE Advance
  BY <1>1, <1>2 DEF Advance, ChInv, LastSound, LastIsCount, StatusFresh,
       CarryValue, CtlPhase, MaskedIsQuiet, AtRest
<1>3. CASE UNCHANGED chVars
  BY <1>1, <1>3 DEF chVars, ChInv, LastSound, LastIsCount, StatusFresh,
       CarryValue, CtlPhase, MaskedIsQuiet, AtRest
<1>4. QED
  BY <1>2, <1>3, EngineStep, HandlerStep, ControlStep, OpenStep DEF ChNext

\* The inductive invariant of the engine's counters.
THEOREM ChInvariance ==
  ASSUME IrqDrained PROVE ChSpec => []ChInv
<1>1. ChInv /\ [ChNext]_chVars => ChInv'
  BY ChInvStep
<1>2. QED
  BY <1>1, ChInitInv, PTL DEF ChSpec

\* The count is sound in every run of every instance (main.c:370-374).
THEOREM ChHwCountSound ==
  ASSUME IrqDrained PROVE ChSpec => []HwCountSound
<1>1. ChInv => HwCountSound
  BY DEF ChInv, LastSound, LastIsCount, HwCountSound
<1>2. QED
  BY <1>1, ChInvariance, PTL

\* A stopped engine stays cleared (main.c:245, 299).
THEOREM ChStoppedIsClear ==
  ASSUME IrqDrained PROVE ChSpec => []StoppedIsClear
<1>1. ChInv => StoppedIsClear
  BY DEF ChInv, AtRest, StoppedIsClear
<1>2. QED
  BY <1>1, ChInvariance, PTL

\* The recorded count of a started engine never goes back.
THEOREM ChCountNeverBack ==
  ASSUME IrqDrained PROVE ChSpec => CountNeverBack
<1>1. ASSUME ChInv, [ChNext]_chVars, enable, ctl = "idle", isr'.pc # "carry"
      PROVE  hw_count' >= hw_count_last
  <2>1. ChTypeOK /\ LastIsCount /\ CarryValue
    BY <1>1 DEF ChInv
  <2>2. CASE IrqUpdate
    BY <1>1, <2>1, <2>2, UpdateExact DEF IrqUpdate, LastIsCount, ChTypeOK
  <2>3. CASE IrqCarry
    BY <1>1, <2>1, <2>3, ConstantTypes
       DEF IrqCarry, CarryValue, Carry, ChTypeOK
  <2>4. CASE IrqUpdateSplit
    BY <1>1, <2>1, <2>4 DEF IrqUpdateSplit, ChTypeOK
  <2>5. CASE hw_count' = hw_count /\ hw_count_last' = hw_count_last
              /\ (isr.pc # "carry" \/ isr' = isr)
    BY <1>1, <2>1, <2>5 DEF LastIsCount, ChTypeOK
  <2>6. (IrqDeliver \/ IrqEnter \/ IrqStatus \/ HwComplete \/ Control \/ Open
          \/ Advance \/ UNCHANGED chVars)
        => /\ hw_count' = hw_count /\ hw_count_last' = hw_count_last
           /\ isr.pc # "carry" \/ isr' = isr
    BY <1>1 DEF IrqDeliver, IrqEnter, IrqStatus, HwComplete, Control,
         StartEngine, StartIrq, StartFlag, StopMask, StopFlush, StopClear,
         Open, Advance, chVars
  <2>7. QED
    BY <1>1, <2>2, <2>3, <2>4, <2>5, <2>6 DEF ChNext, Irq
<1>2. ChInv /\ [ChNext]_chVars =>
        [enable /\ ctl = "idle" /\ isr'.pc # "carry"
           => hw_count' >= hw_count_last]_chVars
  BY <1>1
<1>3. QED
  BY <1>2, ChInvariance, PTL DEF ChSpec, CountNeverBack

\* A handler step moves the recorded count only forward, unless a stop is
\* waiting for it.
LEMMA HandlerCount ==
  ASSUME ChInv, Irq, ctl # "clear"
  PROVE  hw_count_last' >= hw_count_last
<1>1. ChTypeOK /\ LastIsCount
  BY DEF ChInv
<1>2. CASE IrqUpdate
  BY <1>1, <1>2, UpdateExact DEF IrqUpdate, LastIsCount, ChTypeOK
<1>3. CASE IrqCarry
  <2>1. hw_count < hw_count_last /\ hw_count_last <= hw_count + Span
    BY <1>3 DEF IrqCarry, ChInv, CarryValue
  <2>2. QED
    BY <1>1, <1>3, <2>1, ConstantTypes DEF IrqCarry, Carry, ChTypeOK
<1>4. CASE IrqDeliver \/ IrqEnter \/ IrqStatus \/ IrqUpdateSplit
  BY <1>1, <1>4 DEF IrqDeliver, IrqEnter, IrqStatus, IrqUpdateSplit, ChTypeOK
<1>5. QED
  BY <1>2, <1>3, <1>4 DEF Irq

LEMMA HalfType == BufferCount \div 2 \in Nat
  BY ConstantTypes

-----------------------------------------------------------------------------
(* No interrupt is lost.                                                   *)

\* The engine has raised its vector since the c-th buffer.  The first period
\* does not count: an open() during the start may forget it.
IrqOwed(c) == \E m \in (c + 1)..pos : m > BufferPerIrq /\ RaisesIrq(m)

\* What is not counted yet is still to be: by the vector that is raised, or by
\* the handler, which reads the register after the vector was taken down.
IrqInv ==
  ctl = "idle" =>
    /\ isr.pc = "idle" /\ IrqOwed(hw_count) => msi
    /\ isr.pc = "update" =>
         \E p \in hw_count..pos : isr.status = LoopStatus(p) /\ (IrqOwed(p) => msi)
    /\ isr.pc = "carry" /\ IrqOwed(hw_count + Span) => msi

\* The interrupts of a running engine are at most one period apart.
LEMMA PeriodHasIrq ==
  ASSUME NEW c \in Nat
  PROVE  \E m \in (c + 1)..(c + BufferPerIrq) : RaisesIrq(m)
<1> DEFINE B == BufferPerIrq
           C == BufferCount
           n == c \div B + 1
           m == n * B
<1>1. B \in Nat \ {0} /\ C \in Nat \ {0} /\ C % B = 0
  BY ConstantTypes, BufferPerIrqAssumption
<1> HIDE DEF B, C
<1>2. /\ c \div B \in Nat /\ c % B \in 0..(B - 1)
      /\ c = (c \div B) * B + (c % B)
  BY <1>1, DivMod
<1>3. m = (c \div B) * B + B /\ n \in Nat
  BY <1>1, <1>2
<1>4. m \in (c + 1)..(c + B) /\ m \in Nat
  <2> DEFINE d == (c \div B) * B
  <2>1. d \in Int
    BY <1>1, <1>2
  <2>2. c = d + (c % B) /\ m = d + B
    BY <1>2, <1>3
  <2> HIDE DEF d, m
  <2>3. QED
    BY <1>1, <1>2, <2>1, <2>2
<1>5. (m % C) % B = 0
  <2> DEFINE k == C \div B
             q == m \div C
             r == m % C
  <2>1. k \in Nat /\ C = k * B
    BY <1>1, DivMod
  <2>2. q \in Nat /\ r \in 0..(C - 1) /\ m = q * C + r
    <3> HIDE DEF m
    <3>1. QED
      BY <1>1, <1>4, DivMod
  <2> HIDE DEF k, q, r, n
  <2>3. q * C = (q * k) * B
    BY <1>1, <2>1, <2>2
  <2>4. r = (n - q * k) * B
    <3>1. q * k \in Int /\ n * B - (q * k) * B = (n - q * k) * B
      BY <1>1, <1>3, <2>1, <2>2
    <3>2. (q * k) * B \in Int /\ n * B \in Int
      BY <1>1, <1>3, <3>1
    <3>3. QED
      BY <1>1, <2>2, <2>3, <3>1, <3>2
  <2> DEFINE j == n - q * k
  <2>5. j \in Int
    BY <1>3, <2>1, <2>2
  <2> HIDE DEF j
  <2>6. j \in Nat
    <3>1. j < 0 => j * B < 0
      BY <1>1, <2>5
    <3>2. QED
      BY <1>1, <2>2, <2>4, <2>5, <3>1 DEF j
  <2>7. (j * B + 0) % B = 0
    BY <1>1, <2>6, DivUnique
  <2>8. j * B + 0 = r
    BY <1>1, <2>2, <2>4, <2>5 DEF j
  <2>9. r % B = 0
    BY <2>7, <2>8
  <2>10. QED
    BY <2>9 DEF r
<1>6. RaisesIrq(m)
  BY <1>5 DEF RaisesIrq, B, C
<1>7. QED
  BY <1>4, <1>6 DEF B

LEMMA IrqInvInit == ChInit => IrqInv
BY DEF ChInit, IrqInv, IrqOwed, Idle

LEMMA IrqInvStep ==
  ASSUME IrqDrained, ChInv, IrqInv, [ChNext]_chVars
  PROVE  IrqInv'
<1> USE ConstantTypes
<1>0. /\ ChTypeOK /\ ChTypeOK' /\ ChInv'
      /\ pos \in Nat /\ hw_count \in Nat /\ hw_count_last \in Nat
  BY ChInvStep DEF ChInv, ChTypeOK
<1>1. CASE UNCHANGED <<pos, msi, hw_count, isr, ctl>>
  BY <1>1 DEF IrqInv, IrqOwed
<1>2. CASE HwComplete
  <2>1. /\ pos' = pos + 1 /\ msi' = (msi \/ RaisesIrq(pos + 1))
        /\ UNCHANGED <<hw_count, isr, ctl>>
    BY <1>2 DEF HwComplete
  <2>2. ASSUME NEW c \in Nat, IrqOwed(c) => msi,
               NEW m \in (c + 1)..pos', m > BufferPerIrq, RaisesIrq(m)
        PROVE  msi'
    <3>1. m \in (c + 1)..pos \/ m = pos + 1
      BY <1>0, <2>1, <2>2
    <3>2. QED
      BY <2>1, <2>2, <3>1 DEF IrqOwed
  <2>3. \A c \in Nat : (IrqOwed(c) => msi)
          => ((\E m \in (c + 1)..pos' : m > BufferPerIrq /\ RaisesIrq(m)) => msi')
    BY <2>2
  <2>4. \A p \in hw_count..pos : p \in Nat /\ p \in hw_count'..pos'
    BY <1>0, <2>1
  <2>5. hw_count + Span \in Nat
    BY <1>0
  <2>6. QED
    BY <1>0, <2>1, <2>3, <2>4, <2>5 DEF IrqInv, IrqOwed
<1>3. CASE IrqDeliver
  <2>1. isr'.pc = "enter"
    BY <1>0, <1>3 DEF IrqDeliver, ChTypeOK
  <2>2. QED
    BY <2>1 DEF IrqInv
<1>4. CASE IrqEnter
  <2>1. ctl = "idle" => msi_enable
    BY <1>4 DEF IrqEnter, ChInv, MaskedIsQuiet
  <2>2. ctl' = "idle" => isr'.pc = "status"
    BY <1>0, <1>4, <2>1 DEF IrqEnter, ChTypeOK
  <2>3. QED
    BY <2>2 DEF IrqInv
<1>5. CASE IrqStatus
  <2>1. /\ isr' = [pc |-> "update", status |-> LoopStatus(pos)]
        /\ UNCHANGED <<pos, hw_count, msi, ctl>>
    BY <1>5 DEF IrqStatus
  <2>2. isr'.pc = "update" /\ isr'.status = LoopStatus(pos')
    BY <2>1
  <2>3. ctl = "idle" => pos \in hw_count..pos
    BY <1>0, <1>5 DEF IrqStatus, ChInv, LastSound, LastIsCount
  <2>4. ~IrqOwed(pos)'
    BY <1>0, <2>1 DEF IrqOwed
  <2>5. QED
    BY <2>1, <2>2, <2>3, <2>4 DEF IrqInv, IrqOwed
<1>6. ASSUME isr.pc = "update", ctl = "idle"
      PROVE  \E p \in Nat : /\ Carry(hw_count_last, Merged(hw_count, isr.status)) = p
                            /\ IrqOwed(p) => msi
  <2>1. PICK p \in hw_count..pos : isr.status = LoopStatus(p) /\ (IrqOwed(p) => msi)
    BY <1>6 DEF IrqInv
  <2>2. p \in Nat /\ hw_count_last = hw_count /\ hw_count <= p
    BY <1>0, <1>6, <2>1 DEF ChInv, LastIsCount
  <2>3. p < hw_count + Span
    BY <1>0, <1>6, <2>1, <2>2 DEF ChInv, LastSound
  <2>4. Unwrap(hw_count, LoopStatus(p)) = p
    BY <1>0, <2>2, <2>3, UnwrapExact
  <2>5. QED
    BY <2>1, <2>2, <2>4 DEF Unwrap
<1>7. CASE IrqUpdate
  <2>1. /\ isr.pc = "update" /\ isr'.pc = "idle"
        /\ hw_count' = Carry(hw_count_last, Merged(hw_count, isr.status))
        /\ UNCHANGED <<pos, msi, ctl>>
    BY <1>7 DEF IrqUpdate, Idle
  <2>2. QED
    BY <1>6, <2>1 DEF IrqInv, IrqOwed
<1>8. CASE IrqUpdateSplit
  <2> DEFINE m == Merged(hw_count, isr.status)
  <2>1. /\ isr.pc = "update" /\ isr'.pc = "carry" /\ hw_count' = m
        /\ hw_count_last > m /\ UNCHANGED <<pos, msi, ctl>>
    BY <1>0, <1>8 DEF IrqUpdateSplit, ChTypeOK
  <2>2. Carry(hw_count_last, m) = m + Span
    BY <2>1 DEF Carry
  <2> HIDE DEF m
  <2>3. ctl = "idle" /\ IrqOwed(m + Span) => msi
    BY <1>6, <2>1, <2>2 DEF m
  <2>4. QED
    BY <2>1, <2>3 DEF IrqInv, IrqOwed
<1>9. CASE IrqCarry
  <2>1. /\ isr.pc = "carry" /\ isr'.pc = "idle"
        /\ hw_count' = Carry(hw_count_last, hw_count)
        /\ UNCHANGED <<pos, msi, ctl>>
    BY <1>9 DEF IrqCarry, Idle
  <2>2. ctl = "idle" => hw_count' = hw_count + Span
    BY <1>0, <2>1 DEF ChInv, CarryValue, Carry
  <2>3. QED
    BY <2>1, <2>2 DEF IrqInv, IrqOwed
<1>10. ASSUME pos' \in Nat, pos' <= BufferPerIrq, isr'.pc \notin {"update", "carry"}
       PROVE  IrqInv'
  <2>1. \A c : ~(\E m \in (c + 1)..pos' : m > BufferPerIrq /\ RaisesIrq(m))
    <3> SUFFICES ASSUME NEW c, NEW m \in (c + 1)..pos', m > BufferPerIrq
                 PROVE  FALSE
      OBVIOUS
    <3>1. QED
      BY <1>10
  <2>2. QED
    BY <1>10, <2>1 DEF IrqInv, IrqOwed
<1>11. CASE StartEngine \/ StartIrq \/ StopMask \/ StopFlush
  <2>1. ctl' # "idle"
    BY <1>11 DEF StartEngine, StartIrq, StopMask, StopFlush
  <2>2. QED
    BY <2>1 DEF IrqInv
<1>12. CASE StartFlag
  <2>1. /\ pos <= BufferPerIrq /\ UNCHANGED <<pos, msi, hw_count, hw_count_last, isr>>
        /\ ctl = "flag"
    BY <1>0, <1>12 DEF StartFlag, ChInv, CtlPhase
  <2>2. isr.pc # "carry"
    BY <1>0, <2>1 DEF ChInv, CarryValue
  <2>3. CASE isr.pc # "update"
    BY <1>0, <1>10, <2>1, <2>2, <2>3
  <2>4. CASE isr.pc = "update"
    <3>1. PICK p \in hw_count..pos : isr.status = LoopStatus(p)
      BY <2>1, <2>4 DEF ChInv, StatusFresh
    <3>2. ~\E m \in (p + 1)..pos : m > BufferPerIrq /\ RaisesIrq(m)
      BY <1>0, <2>1, <3>1
    <3>3. QED
      BY <2>1, <2>4, <3>1, <3>2 DEF IrqInv, IrqOwed
  <2>5. QED
    BY <2>3, <2>4
<1>13. CASE StopClear
  <2>1. ctl = "clear" /\ isr.pc = "idle" /\ UNCHANGED <<pos, isr>>
    BY <1>13 DEF StopClear
  <2>2. pos = 0
    BY <2>1 DEF ChInv, CtlPhase
  <2>3. QED
    BY <1>0, <1>10, <2>1, <2>2
<1>14. CASE Open
  <2>1. UNCHANGED <<pos, isr, ctl>> /\ ~enable
    BY <1>14 DEF Open
  <2>2. CASE ctl = "idle"
    <3>1. pos = 0 /\ isr.pc = "idle"
      BY <2>1, <2>2 DEF ChInv, AtRest
    <3>2. QED
      BY <1>0, <1>10, <2>1, <3>1
  <2>3. CASE ctl # "idle"
    BY <2>1, <2>3 DEF IrqInv
  <2>4. QED
    BY <2>2, <2>3
<1>15. Advance \/ UNCHANGED chVars => UNCHANGED <<pos, msi, hw_count, isr, ctl>>
  BY DEF Advance, chVars
<1>16. QED
  BY <1>1, <1>2, <1>3, <1>4, <1>5, <1>7, <1>8, <1>9, <1>11, <1>12, <1>13, <1>14,
     <1>15 DEF ChNext, Irq, Control

\* A handler that is at rest has counted every buffer that raised an
\* interrupt, or the vector is raised: neither masking nor open() nor the order
\* of the engine's interrupts with the read of LOOP_STATUS loses one for good
\* (main.c:317-387).
NoIrqLost == ctl = "idle" /\ isr.pc = "idle" /\ IrqOwed(hw_count) => msi

\* No interrupt is lost, whatever the order of the engine, the handler, the
\* start/stop code and open() (main.c:197-303, 317-412).
THEOREM ChNoIrqLost ==
  ASSUME IrqDrained PROVE ChSpec => [](IrqInv /\ NoIrqLost)
<1>1. ChInit => ChInv /\ IrqInv
  BY ChInitInv, IrqInvInit
<1>2. ChInv /\ IrqInv /\ [ChNext]_chVars => (ChInv /\ IrqInv)'
  BY ChInvStep, IrqInvStep
<1>3. IrqInv => NoIrqLost
  BY DEF IrqInv, NoIrqLost
<1>4. QED
  BY <1>1, <1>2, <1>3, PTL DEF ChSpec

\* Two periods behind the engine an interrupt is on its way.
LEMMA TwoPeriodsOwed ==
  ASSUME ChTypeOK, NEW c \in Nat, pos >= c + 2 * BufferPerIrq
  PROVE  IrqOwed(c)
<1>1. PICK m \in ((c + BufferPerIrq) + 1)..((c + BufferPerIrq) + BufferPerIrq) : RaisesIrq(m)
  <2>1. c + BufferPerIrq \in Nat
    BY ConstantTypes
  <2>2. QED
    BY <2>1, PeriodHasIrq
<1>2. m \in (c + 1)..pos /\ m > BufferPerIrq
  BY <1>1, ConstantTypes DEF ChTypeOK
<1>3. QED
  BY <1>1, <1>2 DEF IrqOwed
=============================================================================
