---------------------------- MODULE DriverProofs -----------------------------
(***************************************************************************)
(* Theorems about Lifecycle and PtmCross, the parts of main.c beside the DMA *)
(* engines and the clock.  Lifecycle, for any number of cards, files,      *)
(* channels and interrupts: when probe() fails only before its handlers are *)
(* requested and clients come after it and not during remove() (the        *)
(* hypothesis Orderly), a card leaves nothing behind, an engine runs only on *)
(* a card that is set up, and minors are distinct.  PtmCross, for any number *)
(* of callers, delays and jumps of the clock: a cross timestamp whose call *)
(* was undisturbed is accurate.                                            *)
(***************************************************************************)
EXTENDS Lifecycle, PtmCross, TLAPS

Orderly == Failing \subseteq {"setup", "vectors"} /\ ~EarlyOpen /\ ~LateStart

-----------------------------------------------------------------------------
(* Where a card holds what.                                                *)

Removed == {"stop", "freeirqs", "freeuart", "fail3", "fail2", "fail1"}
HasUart == {"ptp", "bound", "stop", "freeirqs", "freeuart"}
HasDma == HasUart \cup {"uart", "fail3", "fail2"}
HasChdev == HasUart \cup {"channels", "dma", "uart", "fail3"}
HasVectors == HasChdev \cup {"irqs", "chdev", "fail2"}
HasIrqs == {"chdev", "channels", "dma", "uart", "ptp", "bound", "stop", "freeirqs"}

CardOK(d) ==
  /\ "ptp" \in held[d] <=> pc[d] = "bound"
  /\ "uart" \in held[d] <=> pc[d] \in HasUart
  /\ pc[d] \in HasDma => "dma" \in held[d]
  /\ "dma" \in held[d] => pc[d] \in HasDma \cup {"fail1"}
  /\ "chdev" \in held[d] <=> pc[d] \in HasChdev
  /\ "vectors" \in held[d] <=> pc[d] \in HasVectors
  /\ irqs[d] = IF pc[d] \in HasIrqs THEN IRQS ELSE 0
  /\ pc[d] \in HasUart \cup {"dma", "uart"} => ready[d]
  /\ running[d] # {} => pc[d] \in {"bound", "stop"}

\* A file that is open is on a card that has been bound, and is not gone yet.
FileOK(f) ==
  file[f] \notin {Nothing, Gone} => pc[file[f][1]] \in {"bound"} \cup Removed

\* Minors are given out in order.
MinorsOK ==
  /\ MinorsDistinct
  /\ \A d \in Cards :
       "chdev" \in held[d] => minor_base[d] + CHANNELS <= litepcie_minor_idx

LcInv ==
  /\ LcTypeOK
  /\ \A d \in Cards : CardOK(d)
  /\ \A f \in Files : FileOK(f)
  /\ MinorsOK

LEMMA LcInit == Init => LcInv
<1> SUFFICES ASSUME Init PROVE LcInv
  OBVIOUS
<1> USE ConstAssumption
<1>1. LcTypeOK
  BY DEF Init, LcTypeOK
<1>2. \A d \in Cards : CardOK(d)
  BY DEF Init, CardOK, HasUart, HasDma, HasChdev, HasVectors, HasIrqs
<1>3. \A f \in Files : FileOK(f)
  BY DEF Init, FileOK
<1>4. MinorsOK
  BY DEF Init, MinorsOK, MinorsDistinct
<1>5. QED
  BY <1>1, <1>2, <1>3, <1>4 DEF LcInv

\* What every step of probe() and remove() has in common: only the card it is
\* of changes.
OnlyCard(d) ==
  \A e \in Cards \ {d} : /\ pc'[e] = pc[e] /\ held'[e] = held[e] /\ irqs'[e] = irqs[e]
                         /\ ready'[e] = ready[e] /\ running'[e] = running[e]
                         /\ minor_base'[e] = minor_base[e]

LEMMA CardSuffices ==
  ASSUME LcInv, LcTypeOK', NEW d \in Cards, OnlyCard(d), CardOK(d)',
         MinorsOK', file' = file,
         pc[d] \in {"bound"} \cup Removed => pc'[d] \in {"bound"} \cup Removed
  PROVE  LcInv'
<1>1. \A e \in Cards : CardOK(e)'
  BY DEF LcInv, OnlyCard, CardOK
<1>2. ASSUME NEW f \in Files PROVE FileOK(f)'
  <2>1. file[f] \in {Nothing, Gone} \cup (Cards \X Chans)
    BY DEF LcInv, LcTypeOK
  <2>2. file[f] \notin {Nothing, Gone} => file[f][1] \in Cards
    BY <2>1
  <2>3. QED
    BY <2>2 DEF LcInv, OnlyCard, FileOK, Gone
<1>3. QED
  BY <1>1, <1>2 DEF LcInv

LEMMA LcTypeStep == LcTypeOK /\ [Next]_vars => LcTypeOK'
<1> SUFFICES ASSUME LcTypeOK, [Next]_vars PROVE LcTypeOK'
  OBVIOUS
<1> USE ConstAssumption
<1>1. CASE UNCHANGED vars
  BY <1>1 DEF vars, LcTypeOK
<1>2. ASSUME NEW d \in Cards, ProbeOf(d) PROVE LcTypeOK'
  <2>1. CASE ProbeSetup(d)
    BY <2>1 DEF ProbeSetup, Goto, Hold, Release, LcTypeOK, Steps, Gone, Chans
  <2>2. CASE ProbeVectors(d)
    BY <2>2 DEF ProbeVectors, Goto, Hold, Release, LcTypeOK, Steps, Gone, Chans
  <2>3. CASE ProbeIrqs(d)
    BY <2>3 DEF ProbeIrqs, Goto, Hold, Release, LcTypeOK, Steps, Gone, Chans
  <2>4. CASE AllocChdev(d)
    BY <2>4 DEF AllocChdev, Goto, Hold, Release, LcTypeOK, Steps, Gone, Chans
  <2>5. CASE ProbeChannels(d)
    BY <2>5 DEF ProbeChannels, Goto, Hold, Release, LcTypeOK, Steps, Gone, Chans
  <2>6. CASE DmaInit(d)
    BY <2>6 DEF DmaInit, Goto, Hold, Release, LcTypeOK, Steps, Gone, Chans
  <2>7. CASE ProbeUart(d)
    BY <2>7 DEF ProbeUart, Goto, Hold, Release, LcTypeOK, Steps, Gone, Chans
  <2>8. CASE ProbePtp(d)
    BY <2>8 DEF ProbePtp, Goto, Hold, Release, LcTypeOK, Steps, Gone, Chans
  <2>9. CASE Fail3(d)
    BY <2>9 DEF Fail3, Goto, Hold, Release, LcTypeOK, Steps, Gone, Chans
  <2>10. CASE Fail2(d)
    BY <2>10 DEF Fail2, Goto, Hold, Release, LcTypeOK, Steps, Gone, Chans
  <2>11. CASE Detach(d)
    BY <2>11 DEF Detach, Goto, Hold, Release, LcTypeOK, Steps, Gone, Chans
  <2>12. QED
    BY <1>2, <2>1, <2>2, <2>3, <2>4, <2>5, <2>6, <2>7, <2>8, <2>9, <2>10, <2>11 DEF ProbeOf
<1>3. ASSUME NEW d \in Cards, RemoveOf(d) PROVE LcTypeOK'
  BY <1>3
  DEF RemoveOf, RemovePtp, StopDma, RemoveIrqs, RemoveUart, Goto, Release, LcTypeOK
<1>4. ASSUME NEW f \in Files, Open(f) \/ Start(f) \/ Close(f) PROVE LcTypeOK'
  <2>1. CASE Open(f)
    BY <2>1 DEF Open, LcTypeOK
  <2>2. CASE Start(f)
    <3>1. file[f] \in Cards \X Chans
      BY <2>2 DEF Start, LcTypeOK
    <3>2. QED
      BY <2>2, <3>1 DEF Start, LcTypeOK
  <2>3. CASE Close(f)
    BY <2>3 DEF Close, LcTypeOK
  <2>4. QED
    BY <1>4, <2>1, <2>2, <2>3
<1>5. QED
  BY <1>1, <1>2, <1>3, <1>4 DEF Next

\* The types of what the driver keeps for its cards (main.c:1220-1522).
THEOREM LcTypeCorrect == Spec => []LcTypeOK
<1>1. LcInv => LcTypeOK
  BY DEF LcInv
<1>2. Init => LcTypeOK
  BY LcInit, <1>1
<1>3. QED
  BY <1>2, LcTypeStep, PTL DEF Spec

-----------------------------------------------------------------------------
(* The steps.                                                              *)

LEMMA MinorsKept ==
  ASSUME MinorsOK, UNCHANGED <<minor_base, litepcie_minor_idx>>,
         \A e \in Cards : "chdev" \in held'[e] => "chdev" \in held[e]
  PROVE  MinorsOK'
BY DEF MinorsOK, MinorsDistinct

LEMMA ProbeStep ==
  ASSUME Orderly, LcInv, LcTypeOK', NEW d \in Cards, ProbeOf(d)
  PROVE  LcInv'
<1>0. /\ held \in [Cards -> SUBSET {"vectors", "chdev", "dma", "uart", "ptp"}]
      /\ irqs \in [Cards -> 0..IRQS] /\ ready \in [Cards -> BOOLEAN]
      /\ running \in [Cards -> SUBSET Chans]
      /\ minor_base \in [Cards -> Nat] /\ litepcie_minor_idx \in Nat
      /\ DOMAIN pc = Cards /\ pc = [e \in Cards |-> pc[e]]
      /\ CardOK(d) /\ MinorsOK /\ CHANNELS \in Nat /\ IRQS \in Nat
  BY ConstAssumption DEF LcInv, LcTypeOK
<1> USE DEF Goto, Hold, Release, OnlyCard, Removed, HasUart, HasDma, HasChdev,
            HasVectors, HasIrqs
<1>1. CASE ProbeSetup(d)
  <2>1. OnlyCard(d) /\ CardOK(d)'
    BY <1>0, <1>1 DEF ProbeSetup, CardOK, Orderly
  <2>2. MinorsOK'
    BY <1>0, <1>1, MinorsKept DEF ProbeSetup
  <2>3. QED
    BY <1>1, <2>1, <2>2, CardSuffices DEF ProbeSetup
<1>2. CASE ProbeVectors(d)
  <2>1. OnlyCard(d) /\ CardOK(d)'
    BY <1>0, <1>2 DEF ProbeVectors, CardOK, Orderly
  <2>2. MinorsOK'
    BY <1>0, <1>2, MinorsKept DEF ProbeVectors
  <2>3. QED
    BY <1>2, <2>1, <2>2, CardSuffices DEF ProbeVectors
<1>3. CASE ProbeIrqs(d)
  <2>1. OnlyCard(d) /\ CardOK(d)'
    BY <1>0, <1>3 DEF ProbeIrqs, CardOK, Orderly
  <2>2. MinorsOK'
    BY <1>0, <1>3, MinorsKept DEF ProbeIrqs
  <2>3. QED
    BY <1>3, <2>1, <2>2, CardSuffices DEF ProbeIrqs
<1>4. CASE AllocChdev(d)
  <2>1. OnlyCard(d) /\ CardOK(d)' /\ "chdev" \notin Failing
    BY <1>0, <1>4 DEF AllocChdev, CardOK, Orderly
  <2>2. /\ minor_base'[d] = litepcie_minor_idx
        /\ litepcie_minor_idx' = litepcie_minor_idx + CHANNELS
        /\ \A e \in Cards \ {d} : minor_base'[e] = minor_base[e] /\ held'[e] = held[e]
    BY <1>0, <1>4, <2>1 DEF AllocChdev
  <2>3. MinorsOK'
    BY <1>0, <2>2 DEF MinorsOK, MinorsDistinct
  <2>4. QED
    BY <1>4, <2>1, <2>3, CardSuffices DEF AllocChdev
<1>5. CASE ProbeChannels(d)
  <2>1. OnlyCard(d) /\ CardOK(d)'
    BY <1>0, <1>5 DEF ProbeChannels, CardOK, Orderly
  <2>2. MinorsOK'
    BY <1>0, <1>5, MinorsKept DEF ProbeChannels
  <2>3. QED
    BY <1>5, <2>1, <2>2, CardSuffices DEF ProbeChannels
<1>6. CASE DmaInit(d)
  <2>1. OnlyCard(d) /\ CardOK(d)'
    BY <1>0, <1>6 DEF DmaInit, CardOK, Orderly
  <2>2. MinorsOK'
    BY <1>0, <1>6, MinorsKept DEF DmaInit
  <2>3. QED
    BY <1>6, <2>1, <2>2, CardSuffices DEF DmaInit
<1>7. CASE ProbeUart(d)
  <2>1. OnlyCard(d) /\ CardOK(d)'
    BY <1>0, <1>7 DEF ProbeUart, CardOK, Orderly
  <2>2. MinorsOK'
    BY <1>0, <1>7, MinorsKept DEF ProbeUart
  <2>3. QED
    BY <1>7, <2>1, <2>2, CardSuffices DEF ProbeUart
<1>8. CASE ProbePtp(d)
  <2>1. OnlyCard(d) /\ CardOK(d)'
    BY <1>0, <1>8 DEF ProbePtp, CardOK, Orderly
  <2>2. MinorsOK'
    BY <1>0, <1>8, MinorsKept DEF ProbePtp
  <2>3. QED
    BY <1>8, <2>1, <2>2, CardSuffices DEF ProbePtp
<1>9. CASE Fail3(d)
  <2>1. OnlyCard(d) /\ CardOK(d)'
    BY <1>0, <1>9 DEF Fail3, CardOK, Orderly
  <2>2. MinorsOK'
    BY <1>0, <1>9, MinorsKept DEF Fail3
  <2>3. QED
    BY <1>9, <2>1, <2>2, CardSuffices DEF Fail3
<1>10. CASE Fail2(d)
  <2>1. OnlyCard(d) /\ CardOK(d)'
    BY <1>0, <1>10 DEF Fail2, CardOK, Orderly
  <2>2. MinorsOK'
    BY <1>0, <1>10, MinorsKept DEF Fail2
  <2>3. QED
    BY <1>10, <2>1, <2>2, CardSuffices DEF Fail2
<1>11. CASE Detach(d)
  <2>1. OnlyCard(d) /\ CardOK(d)'
    BY <1>0, <1>11 DEF Detach, CardOK
  <2>2. MinorsOK'
    BY <1>0, <1>11, MinorsKept DEF Detach
  <2>3. \A e \in Cards : CardOK(e)'
    BY <2>1 DEF LcInv, CardOK
  <2>4. ASSUME NEW f \in Files PROVE FileOK(f)'
    <3>1. file[f] \in {Nothing, Gone} \cup (Cards \X Chans)
      BY DEF LcInv, LcTypeOK
    <3>2. CASE file[f] \in {d} \X Chans
      BY <1>11, <3>2 DEF Detach, FileOK
    <3>3. CASE file[f] \notin {d} \X Chans
      <4>1. file'[f] = file[f] /\ (file[f] \notin {Nothing, Gone} =>
                                   file[f][1] \in Cards \ {d})
        BY <1>11, <3>1, <3>3 DEF Detach
      <4>2. QED
        BY <2>1, <4>1 DEF LcInv, FileOK, Gone
    <3>4. QED
      BY <3>2, <3>3
  <2>5. QED
    BY <2>2, <2>3, <2>4 DEF LcInv
<1>12. QED
  BY <1>1, <1>2, <1>3, <1>4, <1>5, <1>6, <1>7, <1>8, <1>9, <1>10, <1>11 DEF ProbeOf

LEMMA RemoveStep ==
  ASSUME Orderly, LcInv, LcTypeOK', NEW d \in Cards, RemoveOf(d)
  PROVE  LcInv'
<1>0. /\ held \in [Cards -> SUBSET {"vectors", "chdev", "dma", "uart", "ptp"}]
      /\ irqs \in [Cards -> 0..IRQS] /\ running \in [Cards -> SUBSET Chans]
      /\ pc = [e \in Cards |-> pc[e]]
      /\ CardOK(d) /\ MinorsOK /\ IRQS \in Nat
  BY ConstAssumption DEF LcInv, LcTypeOK
<1> USE DEF Goto, Release, OnlyCard, Removed, HasUart, HasDma, HasChdev,
            HasVectors, HasIrqs
<1>1. CASE RemovePtp(d)
  <2>1. OnlyCard(d) /\ CardOK(d)'
    BY <1>0, <1>1 DEF RemovePtp, CardOK
  <2>2. MinorsOK'
    BY <1>0, <1>1, MinorsKept DEF RemovePtp
  <2>3. QED
    BY <1>1, <2>1, <2>2, CardSuffices DEF RemovePtp
<1>2. CASE StopDma(d)
  <2>1. OnlyCard(d) /\ CardOK(d)'
    BY <1>0, <1>2 DEF StopDma, CardOK
  <2>2. MinorsOK'
    BY <1>0, <1>2, MinorsKept DEF StopDma
  <2>3. QED
    BY <1>2, <2>1, <2>2, CardSuffices DEF StopDma
<1>3. CASE RemoveIrqs(d)
  <2>1. OnlyCard(d) /\ CardOK(d)'
    BY <1>0, <1>3 DEF RemoveIrqs, CardOK
  <2>2. MinorsOK'
    BY <1>0, <1>3, MinorsKept DEF RemoveIrqs
  <2>3. QED
    BY <1>3, <2>1, <2>2, CardSuffices DEF RemoveIrqs
<1>4. CASE RemoveUart(d)
  <2>1. OnlyCard(d) /\ CardOK(d)'
    BY <1>0, <1>4 DEF RemoveUart, CardOK
  <2>2. MinorsOK'
    BY <1>0, <1>4, MinorsKept DEF RemoveUart
  <2>3. QED
    BY <1>4, <2>1, <2>2, CardSuffices DEF RemoveUart
<1>5. QED
  BY <1>1, <1>2, <1>3, <1>4 DEF RemoveOf

LEMMA ClientStep ==
  ASSUME Orderly, LcInv, LcTypeOK', NEW f \in Files, Open(f) \/ Start(f) \/ Close(f)
  PROVE  LcInv'
<1>0. /\ running \in [Cards -> SUBSET Chans]
      /\ file \in [Files -> {Nothing, Gone} \cup (Cards \X Chans)]
      /\ UNCHANGED <<pc, held, irqs, ready, minor_base, litepcie_minor_idx>>
  BY DEF LcInv, LcTypeOK, Open, Start, Close
<1>1. MinorsOK'
  BY <1>0, MinorsKept DEF LcInv
<1>2. CASE Open(f)
  <2>1. PICK d \in Cards, c \in Chans :
          pc[d] = "bound" /\ file' = [file EXCEPT ![f] = <<d, c>>]
    <3>1. PICK d \in Cards, c \in Chans :
            /\ "chdev" \in held[d] /\ ~Probing(d) /\ ~Removing(d)
            /\ file' = [file EXCEPT ![f] = <<d, c>>]
      BY <1>2 DEF Open, Orderly
    <3>2. pc[d] = "bound"
      BY <3>1 DEF LcInv, CardOK, HasChdev, HasUart, Probing, Removing
    <3>3. QED
      BY <3>1, <3>2
  <2>2. \A g \in Files : FileOK(g)'
    BY <1>0, <2>1 DEF LcInv, FileOK, Gone
  <2>3. \A e \in Cards : CardOK(e)'
    BY <1>0, <1>2 DEF LcInv, CardOK, Open
  <2>4. QED
    BY <1>1, <2>2, <2>3 DEF LcInv
<1>3. CASE Start(f)
  <2>1. file[f] \in Cards \X Chans
    BY <1>0, <1>3 DEF Start
  <2>2. pc[file[f][1]] = "bound"
    BY <1>3, <2>1
    DEF Start, LcInv, FileOK, Orderly, Probing, Removed, Steps
  <2>3. \A e \in Cards : CardOK(e)'
    BY <1>0, <1>3, <2>1, <2>2 DEF Start, LcInv, CardOK
  <2>4. QED
    BY <1>0, <1>1, <1>3, <2>3 DEF Start, LcInv, FileOK, Gone
<1>4. CASE Close(f)
  <2>1. \A e \in Cards : running'[e] \subseteq running[e]
    BY <1>0, <1>4 DEF Close
  <2>2. \A e \in Cards : CardOK(e)'
    BY <1>0, <2>1 DEF LcInv, CardOK
  <2>3. \A g \in Files : FileOK(g)'
    BY <1>0, <1>4 DEF Close, LcInv, FileOK, Gone
  <2>4. QED
    BY <1>1, <2>2, <2>3 DEF LcInv
<1>5. QED
  BY <1>2, <1>3, <1>4

\* Whatever order cards are probed, bound, opened and removed in, one that is
\* gone has left nothing behind, an engine runs only on a card that is set up,
\* and no two cards share a minor (main.c:901-925, 1345, 1483-1521).
THEOREM LcInvariance ==
  Orderly => (Spec => [](NoLeftovers /\ EngineHasBuffers /\ MinorsDistinct))
<1> SUFFICES ASSUME Orderly
    PROVE  Spec => [](NoLeftovers /\ EngineHasBuffers /\ MinorsDistinct)
  OBVIOUS
<1>1. LcInv /\ LcTypeOK' /\ [Next]_vars => LcInv'
  <2>1. ASSUME LcInv, UNCHANGED vars PROVE LcInv'
    BY <2>1
    DEF vars, LcInv, LcTypeOK, CardOK, FileOK, MinorsOK, MinorsDistinct, Gone
  <2>2. QED
    BY <2>1, ProbeStep, RemoveStep, ClientStep DEF Next
<1>2. LcInv => NoLeftovers /\ EngineHasBuffers /\ MinorsDistinct
  <2> SUFFICES ASSUME LcInv PROVE NoLeftovers /\ EngineHasBuffers /\ MinorsDistinct
    OBVIOUS
  <2> USE DEF LcInv, LcTypeOK, CardOK, HasUart, HasDma, HasChdev, HasVectors, HasIrqs
  <2>1. NoLeftovers
    BY DEF NoLeftovers
  <2>2. EngineHasBuffers
    BY DEF EngineHasBuffers
  <2>3. QED
    BY <2>1, <2>2 DEF MinorsOK
<1>3. LcInv => LcTypeOK
  BY DEF LcInv
<1>4. LcTypeOK /\ [Next]_vars => LcTypeOK'
  BY LcTypeStep
<1>5. QED
  BY <1>1, <1>2, <1>3, <1>4, LcInit, PTL DEF Spec

-----------------------------------------------------------------------------
(* PTM cross timestamps.                                                   *)

\* What is left of a round trip when the root's stay is taken off: the time of
\* two messages.
TwoMessages(d) == d \in (2 * MinDelay)..(2 * MaxDelay)
RoundTrip(stay) == TwoMessages(prev.t4 - prev.t1 - stay)

\* The times of the dialogue under way, or of the last one: when its request
\* arrived and, once it is valid and the clock was not set, how long it took.
DialogueOK ==
  /\ (dlg.pc # "idle") <=> ptm.busy
  /\ ptm.valid => ~ptm.busy
  /\ ptm.busy /\ ~dlg.stepped => time - ptm.t1 = now - dlg.sent
  /\ dlg.pc = "request" => now - dlg.sent = dlg.age /\ dlg.age <= MaxDelay
  /\ dlg.pc = "root" => now - dlg.t2 = dlg.age
  /\ dlg.pc = "response" =>
       now - dlg.t2 = root.stay + dlg.age /\ dlg.age <= MaxDelay
  /\ dlg.pc \in {"root", "response"} \/ ptm.valid =>
       dlg.t2 - dlg.sent \in MinDelay..MaxDelay
  /\ ptm.valid => ptm.master = dlg.t2 /\ ptm.delay = dlg.stay
  /\ ptm.valid /\ ~dlg.stepped => TwoMessages(ptm.t4 - ptm.t1 - root.stay)

\* prev and the stay that the next response will carry are of one dialogue.
CleanOK == clean => ~ptm.busy /\ RoundTrip(root.stay)

\* The call that started the dialogue: what it reads is of that one, and prev
\* and the stay that is on its way are both of the one before.
CallOK(x) ==
  /\ cross[x].pc \in {"t1", "t2", "store"} => ~ptm.busy
  /\ cross[x].pc \in {"t2", "store"} => cross[x].t1 = ptm.t1
  /\ cross[x].clean /\ cross[x].pc \in {"poll", "t1", "t2"} =>
       /\ dlg.pc \in {"request", "root"} => RoundTrip(root.stay)
       /\ dlg.pc = "response" \/ ptm.valid => RoundTrip(dlg.stay)
  /\ cross[x].clean /\ cross[x].pc = "store" /\ ptm.valid =>
       cross[x].master - dlg.sent \in -(MaxDelay - MinDelay)..(MaxDelay - MinDelay)

CrossOK == \A x \in Callers : dlg.owner = x => CallOK(x)

\* The inductive invariant.
CrossInv == PtmTypeOK /\ DialogueOK /\ CleanOK /\ CrossOK /\ StampAccurate

RegType == [busy : BOOLEAN, valid : BOOLEAN, t1 : Int, t4 : Int,
            master : Int, delay : Nat]
DlgType == [pc : {"idle", "request", "root", "response", "dead"},
            age : Nat, sent : Nat, t2 : Nat, stay : Nat, data : BOOLEAN,
            owner : Callers \cup {NoOne, "probe"}, stepped : BOOLEAN]
CrossType == [pc : {"idle", "poll", "t1", "t2", "store"},
              t1 : Int, master : Int, clean : BOOLEAN]

LEMMA PtmTypes ==
  PtmTypeOK <=>
    /\ now \in 0..MaxNow /\ time \in Int /\ jumps \in 0..MaxJumps
    /\ ptm \in RegType /\ dlg \in DlgType
    /\ root \in [known : BOOLEAN, stay : Nat] /\ prev \in [t1 : Int, t4 : Int]
    /\ cross \in [Callers -> CrossType]
    /\ probe \in {"first", "poll1", "second", "poll2", "store4", "store1", "done"}
    /\ clean \in BOOLEAN
    /\ stamp \in [made : BOOLEAN, valid : BOOLEAN, clean : BOOLEAN, off : Int]
BY DEF PtmTypeOK, RegType, DlgType, CrossType

LEMMA DelayFacts ==
  /\ MinDelay \in Nat /\ MaxDelay \in Nat /\ MaxStay \in Nat /\ MinDelay <= MaxDelay
  /\ MaxNow \in Nat /\ MaxJumps \in Nat /\ Jumps \subseteq Int
  /\ NoOne \notin Callers /\ "probe" \notin Callers
BY DelayAssumption, BoundsAssumption, CallersAssumption

LEMMA NoneTypes ==
  /\ NoDialogue \in DlgType /\ NoDialogue.pc = "idle" /\ ~NoDialogue.stepped
  /\ NoDialogue.age = 0
  /\ NoCross \in CrossType /\ NoCross.pc = "idle" /\ ~NoCross.clean
BY DEF NoDialogue, NoCross, DlgType, CrossType

LEMMA PtmDivFacts ==
  ASSUME NEW m \in Nat \ {0}, NEW x \in Int
  PROVE  /\ x \div m \in Int /\ x % m \in 0..(m - 1)
         /\ x = m * (x \div m) + (x % m)
<1>1. x \div m \in Int
  OBVIOUS
<1>2. x % m \in 0..(m - 1)
  OBVIOUS
<1>3. x = m * (x \div m) + (x % m)
  OBVIOUS
<1>4. QED
  BY <1>1, <1>2, <1>3

\* Half of what is left of the round trip is the delay of one message, up to
\* what two may differ (main.c:1168-1181).
LEMMA MasterFacts ==
  ASSUME NEW t2 \in Int, NEW t4 \in Int, NEW t1 \in Int, NEW stay \in Nat,
         TwoMessages(t4 - t1 - stay), 2 * MaxDelay < Wide
  PROVE  /\ Master(t2, t4, t1, stay) \in Int
         /\ t2 - Master(t2, t4, t1, stay) \in MinDelay..MaxDelay
<1> DEFINE v == (t4 - t1) - stay
<1>1. v \in Nat /\ 2 * MinDelay <= v /\ v <= 2 * MaxDelay /\ v < Wide
      /\ Wide \in Nat \ {0}
  BY DelayFacts, WidthAssumption DEF TwoMessages
<1>2. Master(t2, t4, t1, stay) = t2 - (v % Wide) \div 2
  BY DEF Master
<1> HIDE DEF v
<1>3. v % Wide = v
  BY <1>1
<1>4. v \div 2 \in MinDelay..MaxDelay
  BY <1>1, DelayFacts
<1>5. QED
  BY <1>2, <1>3, <1>4, DelayFacts

LEMMA CrossInit == PtmInit => CrossInv
<1> SUFFICES ASSUME PtmInit PROVE CrossInv
  OBVIOUS
<1>1. /\ cross \in [Callers -> CrossType]
      /\ dlg \in DlgType /\ dlg.pc = "idle" /\ dlg.owner = NoOne
  BY NoneTypes DEF PtmInit, NoDialogue
<1>2. PtmTypeOK
  <2>1. /\ now \in 0..MaxNow /\ time \in Int /\ jumps \in 0..MaxJumps
        /\ ptm \in RegType
    BY DelayFacts DEF PtmInit, RegType
  <2>2. /\ root \in [known : BOOLEAN, stay : Nat] /\ prev \in [t1 : Int, t4 : Int]
        /\ stamp \in [made : BOOLEAN, valid : BOOLEAN, clean : BOOLEAN, off : Int]
    BY DEF PtmInit
  <2>3. /\ clean \in BOOLEAN
        /\ probe \in {"first", "poll1", "second", "poll2", "store4", "store1", "done"}
    BY DEF PtmInit
  <2>4. QED
    BY <1>1, <2>1, <2>2, <2>3, PtmTypes
<1>3. ~ptm.busy /\ ~ptm.valid /\ ~clean /\ ~stamp.clean
  BY DEF PtmInit
<1>4. QED
  BY <1>1, <1>2, <1>3, DelayFacts
  DEF CrossInv, DialogueOK, CleanOK, CrossOK, StampAccurate

\* A step of a dialogue that nothing else takes part in.
LEMMA DialogueStep ==
  ASSUME CrossInv, TimePasses \/ Requester
  PROVE  CrossInv'
<1>0. /\ now \in 0..MaxNow /\ time \in Int /\ jumps \in 0..MaxJumps
      /\ ptm \in RegType /\ dlg \in DlgType
      /\ root \in [known : BOOLEAN, stay : Nat] /\ prev \in [t1 : Int, t4 : Int]
      /\ cross \in [Callers -> CrossType]
      /\ PtmTypeOK /\ DialogueOK /\ CleanOK /\ CrossOK /\ StampAccurate
  BY PtmTypes DEF CrossInv
<1>1. UNCHANGED <<prev, cross, probe, clean, stamp>>
  BY DEF TimePasses, Requester, RequestArrives, RootAnswers, ResponseArrives,
         DialogueLost, DialogueDead
<1>2. StampAccurate'
  BY <1>0, <1>1 DEF StampAccurate
<1>3. ASSUME now' \in 0..MaxNow, time' \in Int, jumps' \in 0..MaxJumps,
             ptm' \in RegType, dlg' \in DlgType,
             root' \in [known : BOOLEAN, stay : Nat]
      PROVE  PtmTypeOK'
  BY <1>0, <1>1, <1>3 DEF PtmTypeOK, RegType, DlgType
<1>4. CASE TimePasses
  <2> DEFINE s == dlg.stepped \/ jumps' # jumps
             a == IF dlg.pc = "dead" THEN 0 ELSE dlg.age + 1
             r == [[dlg EXCEPT !.age = a] EXCEPT !.stepped = s]
  <2>1. /\ now' = now + 1 /\ now' \in 0..MaxNow /\ time' \in Int
        /\ jumps' \in 0..MaxJumps /\ (jumps' = jumps => time' = time + 1)
        /\ UNCHANGED <<ptm, root>>
    BY <1>0, <1>4, DelayFacts DEF TimePasses
  <2>2. dlg' = IF dlg.pc = "idle" THEN dlg ELSE r
    BY <1>0, <1>4 DEF TimePasses
  <2>3. a \in Nat /\ s \in BOOLEAN
    BY <1>0 DEF DlgType
  <2>4. /\ r \in DlgType /\ r.pc = dlg.pc /\ r.sent = dlg.sent /\ r.t2 = dlg.t2
        /\ r.stay = dlg.stay /\ r.owner = dlg.owner /\ r.age = a /\ r.stepped = s
    BY <1>0, <2>3 DEF DlgType
  <2> HIDE DEF r
  <2>5. /\ dlg' \in DlgType /\ dlg'.pc = dlg.pc /\ dlg'.sent = dlg.sent
        /\ dlg'.t2 = dlg.t2 /\ dlg'.stay = dlg.stay /\ dlg'.owner = dlg.owner
        /\ dlg.pc = "idle" => dlg'.stepped = dlg.stepped
        /\ dlg.pc # "idle" => dlg'.age = a /\ dlg'.stepped = s
    BY <1>0, <2>2, <2>4
  <2>6. PtmTypeOK'
    BY <1>0, <1>3, <2>1, <2>5
  <2>7. /\ dlg.pc \in {"request", "response"} => dlg.age < MaxDelay
    BY <1>4 DEF TimePasses
  <2>8. DialogueOK'
    <3>1. ptm.busy => dlg.pc # "idle"
      BY <1>0 DEF DialogueOK
    <3>2. ptm.valid => dlg'.stepped = dlg.stepped
      BY <1>0, <2>5 DEF DialogueOK
    <3>3. ptm.busy /\ ~dlg'.stepped => ~dlg.stepped /\ time' = time + 1
      BY <2>1, <2>5, <3>1
    <3>4. (ptm.busy /\ ~dlg.stepped => time - ptm.t1 = now - dlg.sent)
          /\ time \in Int /\ ptm.t1 \in Int /\ now \in Int /\ dlg.sent \in Int
      BY <1>0 DEF DialogueOK, DlgType, RegType
    <3>5. ptm.busy /\ ~dlg'.stepped => time' - ptm.t1 = now' - dlg.sent
      BY <2>1, <3>3, <3>4
    <3>6. /\ dlg.pc = "request" => now' - dlg.sent = dlg'.age /\ dlg'.age <= MaxDelay
          /\ dlg.pc = "root" => now' - dlg.t2 = dlg'.age
          /\ dlg.pc = "response" =>
               now' - dlg.t2 = root.stay + dlg'.age /\ dlg'.age <= MaxDelay
      <4>1. /\ dlg.pc = "request" => now - dlg.sent = dlg.age
            /\ dlg.pc = "root" => now - dlg.t2 = dlg.age
            /\ dlg.pc = "response" => now - dlg.t2 = root.stay + dlg.age
        BY <1>0 DEF DialogueOK
      <4>2. dlg.age \in Nat /\ dlg.sent \in Nat /\ dlg.t2 \in Nat /\ root.stay \in Nat
        BY <1>0 DEF DlgType
      <4>3. dlg.pc \in {"request", "root", "response"} => dlg'.age = dlg.age + 1
        BY <2>5
      <4>4. QED
        BY <1>0, <2>1, <2>7, <4>1, <4>2, <4>3, DelayFacts
    <3>7. QED
      BY <1>0, <2>1, <2>5, <3>2, <3>5, <3>6 DEF DialogueOK, TwoMessages
  <2>9. CleanOK' /\ CrossOK'
    BY <1>0, <1>1, <2>1, <2>5 DEF CleanOK, CrossOK, CallOK, RoundTrip, TwoMessages
  <2>10. QED
    BY <1>2, <2>6, <2>8, <2>9 DEF CrossInv
<1>5. CASE RequestArrives
  <2> DEFINE r == [[[dlg EXCEPT !.pc = "root"] EXCEPT !.age = 0] EXCEPT !.t2 = now]
  <2>1. /\ dlg.pc = "request" /\ dlg.age >= MinDelay /\ dlg' = r
        /\ UNCHANGED <<now, time, jumps, ptm, root>>
    BY <1>0, <1>5 DEF RequestArrives, clock
  <2>n. now \in Nat
    BY <1>0, DelayFacts
  <2>2. /\ r \in DlgType /\ r.pc = "root" /\ r.sent = dlg.sent /\ r.t2 = now
        /\ r.stay = dlg.stay /\ r.owner = dlg.owner /\ r.age = 0
        /\ r.stepped = dlg.stepped
    BY <1>0, <2>n DEF DlgType
  <2> HIDE DEF r
  <2>3. PtmTypeOK'
    BY <1>0, <1>3, <2>1, <2>2
  <2>4. /\ now - dlg.sent \in MinDelay..MaxDelay /\ now - now = 0
        /\ ptm.busy /\ ~ptm.valid
    BY <1>0, <2>1, DelayFacts DEF DialogueOK, DlgType, RegType
  <2>5. DialogueOK'
    BY <1>0, <2>1, <2>2, <2>4 DEF DialogueOK
  <2>6. CleanOK' /\ CrossOK'
    BY <1>0, <1>1, <2>1, <2>2, <2>4 DEF CleanOK, CrossOK, CallOK, RoundTrip, TwoMessages
  <2>7. QED
    BY <1>2, <2>3, <2>5, <2>6 DEF CrossInv
<1>6. CASE RootAnswers
  <2> DEFINE r == [[[[dlg EXCEPT !.pc = "response"] EXCEPT !.age = 0]
                      EXCEPT !.stay = root.stay] EXCEPT !.data = root.known]
  <2>1. /\ dlg.pc = "root" /\ dlg' = r
        /\ root' = [known |-> TRUE, stay |-> now - dlg.t2]
        /\ UNCHANGED <<now, time, jumps, ptm>>
    BY <1>0, <1>6 DEF RootAnswers, clock
  <2>2. /\ r \in DlgType /\ r.pc = "response" /\ r.sent = dlg.sent /\ r.t2 = dlg.t2
        /\ r.stay = root.stay /\ r.owner = dlg.owner /\ r.age = 0
        /\ r.stepped = dlg.stepped
    BY <1>0 DEF DlgType
  <2> HIDE DEF r
  <2>3. /\ now - dlg.t2 = dlg.age /\ dlg.age \in Nat
        /\ ptm.busy /\ ~ptm.valid /\ ~clean
    BY <1>0, <2>1 DEF DialogueOK, DlgType, CleanOK
  <2>4. root' \in [known : BOOLEAN, stay : Nat] /\ root'.stay = now - dlg.t2
    BY <2>1, <2>3
  <2>5. PtmTypeOK'
    BY <1>0, <1>3, <2>1, <2>2, <2>4
  <2>6. now - dlg.t2 = root'.stay + 0
    BY <2>3, <2>4
  <2>7. DialogueOK'
    BY <1>0, <2>1, <2>2, <2>3, <2>6, DelayFacts DEF DialogueOK
  <2>8. CleanOK' /\ CrossOK'
    BY <1>0, <1>1, <2>1, <2>2, <2>3 DEF CleanOK, CrossOK, CallOK, RoundTrip, TwoMessages
  <2>9. QED
    BY <1>2, <2>5, <2>7, <2>8 DEF CrossInv
<1>7. ASSUME dlg.pc \in {"request", "response"}, ptm'.busy = FALSE,
             UNCHANGED <<now, time, jumps, root>>, ptm' \in RegType,
             dlg' = [dlg EXCEPT !.pc = "idle", !.age = 0],
             ptm'.t1 = ptm.t1,
             ptm'.valid =>
               /\ dlg.pc = "response" /\ dlg.age >= MinDelay
               /\ ptm'.t4 = time /\ ptm'.master = dlg.t2 /\ ptm'.delay = dlg.stay
      PROVE  CrossInv'
  <2> DEFINE r == [[dlg EXCEPT !.pc = "idle"] EXCEPT !.age = 0]
  <2>1. dlg' = r
    BY <1>0, <1>7
  <2>2. /\ r \in DlgType /\ r.pc = "idle" /\ r.sent = dlg.sent /\ r.t2 = dlg.t2
        /\ r.stay = dlg.stay /\ r.owner = dlg.owner /\ r.stepped = dlg.stepped
    BY <1>0 DEF DlgType
  <2> HIDE DEF r
  <2>3. PtmTypeOK'
    BY <1>0, <1>3, <1>7, <2>1, <2>2
  <2>4. ptm.busy /\ ~clean
    BY <1>0, <1>7 DEF DialogueOK, CleanOK
  <2>5. ASSUME ptm'.valid, ~dlg.stepped
        PROVE  TwoMessages(time - ptm.t1 - root.stay)
    <3>1. /\ time - ptm.t1 = now - dlg.sent
          /\ now - dlg.t2 = root.stay + dlg.age /\ dlg.age <= MaxDelay
          /\ dlg.age >= MinDelay
          /\ dlg.t2 - dlg.sent \in MinDelay..MaxDelay
      BY <1>0, <1>7, <2>4, <2>5 DEF DialogueOK
    <3>2. /\ dlg.age \in Nat /\ dlg.t2 \in Nat /\ dlg.sent \in Nat
          /\ root.stay \in Nat /\ ptm.t1 \in Int
      BY <1>0 DEF DlgType, RegType
    <3>3. QED
      BY <1>0, <3>1, <3>2, DelayFacts DEF TwoMessages
  <2>6. ptm'.valid => dlg.t2 - dlg.sent \in MinDelay..MaxDelay
    BY <1>0, <1>7 DEF DialogueOK
  <2>7. DialogueOK'
    BY <1>7, <2>1, <2>2, <2>5, <2>6 DEF DialogueOK, TwoMessages
  <2>8. CleanOK' /\ CrossOK'
    BY <1>0, <1>1, <1>7, <2>1, <2>2, <2>4
    DEF CleanOK, CrossOK, CallOK, RoundTrip, TwoMessages
  <2>9. QED
    BY <1>2, <2>3, <2>7, <2>8 DEF CrossInv
<1>8. CASE ResponseArrives
  <2>1. /\ dlg.pc = "response" /\ dlg.age >= MinDelay
        /\ UNCHANGED <<now, time, jumps, root>>
        /\ dlg' = [dlg EXCEPT !.pc = "idle", !.age = 0]
        /\ ~ptm.valid
    BY <1>0, <1>8 DEF ResponseArrives, clock, DialogueOK
  <2> DEFINE p == [[ptm EXCEPT !.busy = FALSE] EXCEPT !.t4 = time]
             r == [[[p EXCEPT !.valid = TRUE] EXCEPT !.master = dlg.t2]
                     EXCEPT !.delay = dlg.stay]
  <2>2. ptm' = IF dlg.data THEN r ELSE p
    BY <1>0, <1>8 DEF ResponseArrives, RegType
  <2>3. /\ p \in RegType /\ p.t1 = ptm.t1 /\ p.busy = FALSE /\ p.valid = ptm.valid
        /\ p.t4 = time
    BY <1>0 DEF RegType
  <2>4. dlg.t2 \in Int /\ dlg.stay \in Nat
    BY <1>0 DEF DlgType
  <2> HIDE DEF p
  <2>5. /\ r \in RegType /\ r.t1 = ptm.t1 /\ r.busy = FALSE
        /\ r.t4 = time /\ r.master = dlg.t2 /\ r.delay = dlg.stay
    BY <2>3, <2>4 DEF RegType
  <2> HIDE DEF r
  <2>6. QED
    BY <1>7, <2>1, <2>2, <2>3, <2>5
<1>9. CASE DialogueLost
  <2>1. /\ dlg.pc \in {"request", "response"}
        /\ UNCHANGED <<now, time, jumps, root>>
        /\ dlg' = [dlg EXCEPT !.pc = "idle", !.age = 0]
        /\ ptm' = [ptm EXCEPT !.busy = FALSE] /\ ~ptm.valid
    BY <1>0, <1>9 DEF DialogueLost, clock, DialogueOK
  <2>2. ptm' \in RegType /\ ptm'.busy = FALSE /\ ~ptm'.valid /\ ptm'.t1 = ptm.t1
    BY <1>0, <2>1 DEF RegType
  <2>3. QED
    BY <1>7, <2>1, <2>2
<1>10. CASE DialogueDead
  <2> DEFINE r == [[dlg EXCEPT !.pc = "dead"] EXCEPT !.age = 0]
  <2>1. /\ dlg.pc \in {"request", "response"} /\ dlg' = r
        /\ UNCHANGED <<now, time, jumps, ptm, root>>
    BY <1>0, <1>10 DEF DialogueDead, clock
  <2>2. /\ r \in DlgType /\ r.pc = "dead" /\ r.sent = dlg.sent /\ r.t2 = dlg.t2
        /\ r.stay = dlg.stay /\ r.owner = dlg.owner /\ r.stepped = dlg.stepped
    BY <1>0 DEF DlgType
  <2> HIDE DEF r
  <2>3. PtmTypeOK'
    BY <1>0, <1>3, <2>1, <2>2
  <2>4. ptm.busy /\ ~ptm.valid /\ ~clean
    BY <1>0, <2>1 DEF DialogueOK, CleanOK
  <2>5. DialogueOK'
    BY <1>0, <2>1, <2>2, <2>4 DEF DialogueOK
  <2>6. CleanOK' /\ CrossOK'
    BY <1>0, <1>1, <2>1, <2>2, <2>4 DEF CleanOK, CrossOK, CallOK, RoundTrip, TwoMessages
  <2>7. QED
    BY <1>2, <2>3, <2>5, <2>6 DEF CrossInv
<1>11. QED
  BY <1>4, <1>5, <1>6, <1>8, <1>9, <1>10 DEF Requester

\* A trigger that the requester does not ignore.
LEMMA TriggerFacts ==
  ASSUME PtmTypeOK, NEW o \in Callers \cup {"probe"}, Trigger(o), ~ptm.busy
  PROVE  /\ ptm' \in RegType /\ ptm'.busy /\ ~ptm'.valid /\ ptm'.t1 = time
         /\ dlg' \in DlgType /\ dlg'.pc = "request" /\ dlg'.age = 0
         /\ dlg'.sent = now /\ dlg'.owner = o /\ ~dlg'.stepped
         /\ clean' = FALSE
<1> DEFINE p == [[[ptm EXCEPT !.busy = TRUE] EXCEPT !.valid = FALSE] EXCEPT !.t1 = time]
           r == [[[NoDialogue EXCEPT !.pc = "request"] EXCEPT !.sent = now]
                   EXCEPT !.owner = o]
<1>0. ptm \in RegType /\ time \in Int /\ now \in Nat
  BY DelayFacts, PtmTypes
<1>1. ptm' = p /\ dlg' = r /\ clean' = FALSE
  BY <1>0, NoneTypes DEF Trigger, RegType, DlgType
<1>2. p \in RegType /\ p.busy = TRUE /\ p.valid = FALSE /\ p.t1 = time
  BY <1>0 DEF RegType
<1>3. /\ r \in DlgType /\ r.pc = "request" /\ r.age = 0
      /\ r.sent = now /\ r.owner = o /\ r.stepped = NoDialogue.stepped
  BY <1>0, NoneTypes DEF DlgType
<1> HIDE DEF p, r
<1>4. QED
  BY <1>1, <1>2, <1>3, NoneTypes

\* What starts a dialogue leaves prev and the root alone.
LEMMA TriggerStep ==
  ASSUME CrossInv, NEW o \in Callers \cup {"probe"}, Trigger(o),
         UNCHANGED <<now, time, jumps, root, prev, stamp>>
  PROVE  /\ DialogueOK' /\ CleanOK' /\ StampAccurate'
         /\ ptm' \in RegType /\ dlg' \in DlgType /\ clean' \in BOOLEAN
         /\ ptm.busy => UNCHANGED <<ptm, dlg, clean>> /\ ~clean
<1>0. /\ PtmTypeOK /\ DialogueOK /\ CleanOK /\ StampAccurate
      /\ ptm \in RegType /\ dlg \in DlgType /\ clean \in BOOLEAN
      /\ now \in Nat /\ time \in Int
  BY PtmTypes, DelayFacts DEF CrossInv
<1>1. StampAccurate'
  BY <1>0 DEF StampAccurate
<1>2. CASE ptm.busy
  <2>1. UNCHANGED <<ptm, dlg, clean>> /\ ~clean
    BY <1>0, <1>2 DEF Trigger, CleanOK
  <2>2. QED
    BY <1>0, <1>1, <2>1 DEF DialogueOK, CleanOK, TwoMessages
<1>3. CASE ~ptm.busy
  <2>1. /\ ptm' \in RegType /\ ptm'.busy /\ ~ptm'.valid /\ ptm'.t1 = time
        /\ dlg' \in DlgType /\ dlg'.pc = "request" /\ dlg'.age = 0
        /\ dlg'.sent = now /\ dlg'.owner = o /\ ~dlg'.stepped
        /\ clean' = FALSE
    BY <1>0, <1>3, TriggerFacts
  <2>2. DialogueOK'
    BY <1>0, <2>1, DelayFacts DEF DialogueOK
  <2>3. CleanOK'
    BY <2>1 DEF CleanOK
  <2>4. QED
    BY <1>1, <1>3, <2>1, <2>2, <2>3
<1>4. QED
  BY <1>2, <1>3

\* probe() spoils what is under way.
LEMMA PtmProbeStep ==
  ASSUME CrossInv, Probe
  PROVE  CrossInv'
<1>0. /\ PtmTypeOK /\ DialogueOK /\ CleanOK /\ CrossOK /\ StampAccurate
      /\ ptm \in RegType /\ prev \in [t1 : Int, t4 : Int]
      /\ cross \in [Callers -> CrossType]
  BY PtmTypes DEF CrossInv
<1>1. CASE ProbeTrigger
  <2>1. /\ Trigger("probe") /\ probe' \in {"poll1", "poll2"}
        /\ UNCHANGED <<now, time, jumps, root, prev, cross, stamp>>
    BY <1>1 DEF ProbeTrigger, clock
  <2>2. /\ DialogueOK' /\ CleanOK' /\ StampAccurate'
        /\ ptm' \in RegType /\ dlg' \in DlgType /\ clean' \in BOOLEAN
        /\ ptm.busy => UNCHANGED <<ptm, dlg, clean>>
    BY <2>1, TriggerStep
  <2>3. PtmTypeOK'
    BY <1>0, <2>1, <2>2 DEF PtmTypeOK, RegType, DlgType
  <2>4. CrossOK'
    <3>1. CASE ptm.busy
      BY <1>0, <2>1, <2>2, <3>1 DEF CrossOK, CallOK, RoundTrip, TwoMessages
    <3>2. CASE ~ptm.busy
      <4>1. dlg'.owner = "probe"
        BY <1>0, <2>1, <3>2, TriggerFacts
      <4>2. QED
        BY <4>1, DelayFacts DEF CrossOK
    <3>3. QED
      BY <3>1, <3>2
  <2>5. QED
    BY <2>2, <2>3, <2>4 DEF CrossInv
<1>2. CASE ProbePoll
  <2>1. /\ probe' \in {"second", "store4"}
        /\ UNCHANGED <<now, time, jumps, ptm, dlg, root, prev, cross, clean, stamp>>
    BY <1>2 DEF ProbePoll, clock
  <2>2. PtmTypeOK'
    BY <1>0, <2>1 DEF PtmTypeOK
  <2>3. QED
    BY <1>0, <2>1, <2>2
    DEF CrossInv, DialogueOK, CleanOK, CrossOK, CallOK, RoundTrip, TwoMessages,
        StampAccurate
<1>3. CASE ProbeStoreT4 \/ ProbeStoreT1
  <2>1. /\ probe' \in {"store1", "done"} /\ clean' = FALSE /\ cross' = Spoilt
        /\ UNCHANGED <<now, time, jumps, ptm, dlg, root, stamp>>
    BY <1>3 DEF ProbeStoreT4, ProbeStoreT1, clock
  <2>2. prev' \in [t1 : Int, t4 : Int]
    <3>1. ptm.t1 \in Int /\ ptm.t4 \in Int
      BY <1>0 DEF RegType
    <3>2. Swapped(ptm.t1) \in Int
      <4>1. Base \in Nat \ {0}
        BY WidthAssumption
      <4>2. ptm.t1 \div Base \in Int /\ ptm.t1 % Base \in 0..(Base - 1)
        BY <3>1, <4>1, PtmDivFacts
      <4>3. QED
        BY <4>1, <4>2 DEF Swapped
    <3>3. QED
      BY <1>0, <1>3, <3>1, <3>2 DEF ProbeStoreT4, ProbeStoreT1
  <2>3. /\ cross' \in [Callers -> CrossType]
        /\ \A x \in Callers : /\ cross'[x].clean = FALSE /\ cross'[x].pc = cross[x].pc
                              /\ cross'[x].t1 = cross[x].t1
    <3>1. \A x \in Callers :
            /\ [cross[x] EXCEPT !.clean = FALSE] \in CrossType
            /\ [cross[x] EXCEPT !.clean = FALSE].clean = FALSE
            /\ [cross[x] EXCEPT !.clean = FALSE].pc = cross[x].pc
            /\ [cross[x] EXCEPT !.clean = FALSE].t1 = cross[x].t1
      BY <1>0 DEF CrossType
    <3>2. QED
      BY <2>1, <3>1 DEF Spoilt
  <2>4. PtmTypeOK'
    <3>1. cross' \in [Callers -> [pc : {"idle", "poll", "t1", "t2", "store"},
                                  t1 : Int, master : Int, clean : BOOLEAN]]
      BY <2>3 DEF CrossType
    <3>2. /\ UNCHANGED <<now, time, jumps, ptm, dlg, root, stamp>>
          /\ probe' \in {"store1", "done"} /\ clean' \in BOOLEAN
      BY <2>1
    <3>3. QED
      BY <1>0, <2>2, <3>1, <3>2 DEF PtmTypeOK
  <2>5. CrossOK'
    BY <1>0, <2>1, <2>3 DEF CrossOK, CallOK
  <2>6. DialogueOK' /\ CleanOK' /\ StampAccurate'
    BY <1>0, <2>1 DEF DialogueOK, CleanOK, StampAccurate, TwoMessages
  <2>7. QED
    BY <2>4, <2>5, <2>6 DEF CrossInv
<1>4. QED
  BY <1>1, <1>2, <1>3 DEF Probe

\* What a call's step leaves alone, and what is then left to show: its own part.
LEMMA CallFrame ==
  ASSUME CrossInv, NEW x \in Callers, NEW r \in CrossType,
         cross' = [cross EXCEPT ![x] = r],
         UNCHANGED <<now, time, jumps, ptm, dlg, root, prev, probe, clean, stamp>>,
         dlg.owner = x => CallOK(x)'
  PROVE  CrossInv'
<1>0. /\ PtmTypeOK /\ DialogueOK /\ CleanOK /\ CrossOK /\ StampAccurate
      /\ cross \in [Callers -> CrossType]
  BY PtmTypes DEF CrossInv
<1>1. cross' \in [Callers -> CrossType]
  BY <1>0
<1>2. PtmTypeOK'
  BY <1>0, <1>1 DEF PtmTypeOK, CrossType
<1>3. \A y \in Callers : y # x => cross'[y] = cross[y]
  BY <1>0
<1>4. CrossOK'
  BY <1>0, <1>3 DEF CrossOK, CallOK, RoundTrip, TwoMessages
<1>5. DialogueOK' /\ CleanOK' /\ StampAccurate'
  BY <1>0 DEF DialogueOK, CleanOK, RoundTrip, StampAccurate, TwoMessages
<1>6. QED
  BY <1>2, <1>4, <1>5 DEF CrossInv

LEMMA CallStep ==
  ASSUME 2 * MaxDelay < Wide, CrossInv, NEW x \in Callers, Cross(x)
  PROVE  CrossInv'
<1>0. /\ PtmTypeOK /\ DialogueOK /\ CleanOK /\ CrossOK /\ StampAccurate
      /\ ptm \in RegType /\ dlg \in DlgType /\ prev \in [t1 : Int, t4 : Int]
      /\ cross \in [Callers -> CrossType] /\ cross[x] \in CrossType
      /\ clean \in BOOLEAN
  BY PtmTypes DEF CrossInv
<1>1. CASE CrossTrigger(x)
  <2> DEFINE r == [[NoCross EXCEPT !.pc = "poll"] EXCEPT !.clean = clean]
  <2>1. /\ Trigger(x) /\ cross' = [cross EXCEPT ![x] = r]
        /\ UNCHANGED <<now, time, jumps, root, prev, probe, stamp>>
    BY <1>0, <1>1, NoneTypes DEF CrossTrigger, clock, CrossType
  <2>2. r \in CrossType /\ r.pc = "poll" /\ r.clean = clean
    BY <1>0, NoneTypes DEF CrossType
  <2> HIDE DEF r
  <2>3. /\ DialogueOK' /\ CleanOK' /\ StampAccurate'
        /\ ptm' \in RegType /\ dlg' \in DlgType /\ clean' \in BOOLEAN
        /\ ptm.busy => UNCHANGED <<ptm, dlg, clean>> /\ ~clean
    BY <2>1, TriggerStep
  <2>4. /\ cross' \in [Callers -> CrossType] /\ cross'[x] = r
        /\ \A y \in Callers : y # x => cross'[y] = cross[y]
    BY <1>0, <2>1, <2>2
  <2>5. PtmTypeOK'
    BY <1>0, <2>1, <2>3, <2>4 DEF PtmTypeOK, RegType, DlgType, CrossType
  <2>6. CrossOK'
    <3>1. CASE ptm.busy
      <4>1. CallOK(x)'
        BY <2>2, <2>3, <2>4, <3>1 DEF CallOK
      <4>2. \A y \in Callers : y # x /\ dlg'.owner = y => CallOK(y)'
        BY <1>0, <2>1, <2>3, <2>4, <3>1 DEF CrossOK, CallOK, RoundTrip, TwoMessages
      <4>3. QED
        BY <4>1, <4>2 DEF CrossOK
    <3>2. CASE ~ptm.busy
      <4>1. /\ dlg'.owner = x /\ dlg'.pc = "request" /\ ~ptm'.valid
        BY <1>0, <2>1, <3>2, TriggerFacts
      <4>2. CallOK(x)'
        BY <1>0, <2>1, <2>2, <2>4, <4>1 DEF CallOK, CleanOK, RoundTrip, TwoMessages
      <4>3. QED
        BY <4>1, <4>2 DEF CrossOK
    <3>3. QED
      BY <3>1, <3>2
  <2>7. QED
    BY <2>3, <2>5, <2>6 DEF CrossInv
<1>2. CASE CrossPoll(x)
  <2> DEFINE r == [cross[x] EXCEPT !.pc = "t1"]
  <2>1. /\ cross' = [cross EXCEPT ![x] = r] /\ cross[x].pc = "poll" /\ ~ptm.busy
        /\ UNCHANGED <<now, time, jumps, ptm, dlg, root, prev, probe, clean, stamp>>
    BY <1>0, <1>2 DEF CrossPoll, clock
  <2>2. r \in CrossType /\ r.pc = "t1" /\ r.clean = cross[x].clean
    BY <1>0 DEF CrossType
  <2> HIDE DEF r
  <2>3. cross'[x] = r
    BY <1>0, <2>1
  <2>4. dlg.owner = x => CallOK(x)'
    BY <1>0, <2>1, <2>2, <2>3 DEF CrossOK, CallOK, RoundTrip, TwoMessages
  <2>5. QED
    BY <2>1, <2>2, <2>4, CallFrame
<1>3. CASE CrossTimeout(x)
  <2>1. /\ cross' = [cross EXCEPT ![x] = NoCross]
        /\ UNCHANGED <<now, time, jumps, ptm, dlg, root, prev, probe, clean, stamp>>
    BY <1>3 DEF CrossTimeout, clock
  <2>2. CallOK(x)'
    BY <1>0, <2>1, NoneTypes DEF CallOK
  <2>3. QED
    BY <2>1, <2>2, CallFrame, NoneTypes
<1>4. CASE CrossReadT1(x)
  <2> DEFINE r == [[cross[x] EXCEPT !.pc = "t2"] EXCEPT !.t1 = ptm.t1]
  <2>1. /\ cross' = [cross EXCEPT ![x] = r] /\ cross[x].pc = "t1"
        /\ UNCHANGED <<now, time, jumps, ptm, dlg, root, prev, probe, clean, stamp>>
    BY <1>0, <1>4 DEF CrossReadT1, clock
  <2>2. /\ r \in CrossType /\ r.pc = "t2" /\ r.clean = cross[x].clean
        /\ r.t1 = ptm.t1
    BY <1>0 DEF CrossType, RegType
  <2> HIDE DEF r
  <2>3. cross'[x] = r
    BY <1>0, <2>1
  <2>4. dlg.owner = x => CallOK(x)'
    BY <1>0, <2>1, <2>2, <2>3 DEF CrossOK, CallOK, RoundTrip, TwoMessages
  <2>5. QED
    BY <2>1, <2>2, <2>4, CallFrame
<1>5. CASE CrossReadT2(x)
  <2> DEFINE m == Master(ptm.master, prev.t4, prev.t1, ptm.delay)
             r == [[cross[x] EXCEPT !.pc = "store"] EXCEPT !.master = m]
  <2>1. /\ cross' = [cross EXCEPT ![x] = r] /\ cross[x].pc = "t2"
        /\ UNCHANGED <<now, time, jumps, ptm, dlg, root, prev, probe, clean, stamp>>
    BY <1>0, <1>5 DEF CrossReadT2, clock
  <2>2. /\ ptm.master \in Int /\ ptm.delay \in Nat /\ prev.t4 \in Int /\ prev.t1 \in Int
        /\ dlg.sent \in Int
    BY <1>0 DEF RegType, DlgType
  <2>3. m \in Int
    <3> DEFINE v == (prev.t4 - prev.t1) - ptm.delay
    <3>1. v \in Int /\ Wide \in Nat \ {0}
      BY <2>2, WidthAssumption
    <3>2. v % Wide \in Nat
      <4> HIDE DEF v
      <4>1. v % Wide \in 0..(Wide - 1)
        BY <3>1, PtmDivFacts
      <4>2. QED
        BY <4>1
    <3>3. m = ptm.master - (v % Wide) \div 2
      BY DEF Master
    <3> HIDE DEF m, v
    <3>4. QED
      BY <2>2, <3>2, <3>3
  <2> HIDE DEF m
  <2>4. /\ r \in CrossType /\ r.pc = "store" /\ r.clean = cross[x].clean
        /\ r.t1 = cross[x].t1 /\ r.master = m
    BY <1>0, <2>3 DEF CrossType
  <2> HIDE DEF r
  <2>5. cross'[x] = r
    BY <1>0, <2>1
  <2>6. ASSUME dlg.owner = x, cross[x].clean, ptm.valid
        PROVE  m - dlg.sent \in -(MaxDelay - MinDelay)..(MaxDelay - MinDelay)
    <3>1. RoundTrip(dlg.stay) /\ ptm.delay = dlg.stay /\ ptm.master = dlg.t2
          /\ dlg.t2 - dlg.sent \in MinDelay..MaxDelay
      BY <1>0, <2>1, <2>6 DEF CrossOK, CallOK, DialogueOK
    <3>2. TwoMessages(prev.t4 - prev.t1 - ptm.delay)
      BY <3>1 DEF RoundTrip
    <3>3. ptm.master - m \in MinDelay..MaxDelay
      BY <2>2, <3>2, MasterFacts DEF m
    <3>4. QED
      BY <2>2, <2>3, <3>1, <3>3, DelayFacts
  <2>7. dlg.owner = x => CallOK(x)'
    BY <1>0, <2>1, <2>4, <2>5, <2>6 DEF CrossOK, CallOK
  <2>8. QED
    BY <2>1, <2>4, <2>7, CallFrame
<1>6. CASE CrossStore(x)
  <2> DEFINE own == dlg.owner = x /\ ~ptm.busy /\ ptm.valid
  <2>1. /\ cross[x].pc = "store" /\ prev' = [t1 |-> cross[x].t1, t4 |-> ptm.t4]
        /\ clean' = (own /\ ~dlg.stepped)
        /\ stamp' = [made |-> TRUE, valid |-> ptm.valid,
                     clean |-> own /\ cross[x].clean,
                     off |-> IF own /\ cross[x].clean
                             THEN cross[x].master - dlg.sent ELSE 0]
        /\ cross' = [Spoilt EXCEPT ![x] = NoCross]
        /\ UNCHANGED <<now, time, jumps, ptm, dlg, root, probe>>
    BY <1>6 DEF CrossStore, clock
  <2>2. /\ cross[x].t1 \in Int /\ ptm.t4 \in Int /\ cross[x].master \in Int
        /\ dlg.sent \in Int /\ ptm.valid \in BOOLEAN /\ cross[x].clean \in BOOLEAN
    BY <1>0 DEF CrossType, RegType, DlgType
  <2>3. /\ cross' \in [Callers -> CrossType]
        /\ cross'[x] = NoCross
        /\ \A y \in Callers \ {x} :
             /\ cross'[y].clean = FALSE /\ cross'[y].pc = cross[y].pc
             /\ cross'[y].t1 = cross[y].t1
    <3>1. \A y \in Callers :
            /\ [cross[y] EXCEPT !.clean = FALSE] \in CrossType
            /\ [cross[y] EXCEPT !.clean = FALSE].clean = FALSE
            /\ [cross[y] EXCEPT !.clean = FALSE].pc = cross[y].pc
            /\ [cross[y] EXCEPT !.clean = FALSE].t1 = cross[y].t1
      BY <1>0 DEF CrossType
    <3>2. QED
      BY <2>1, <3>1, NoneTypes DEF Spoilt
  <2>4. prev' \in [t1 : Int, t4 : Int] /\ clean' \in BOOLEAN
        /\ stamp' \in [made : BOOLEAN, valid : BOOLEAN, clean : BOOLEAN, off : Int]
    BY <2>1, <2>2
  <2>5. PtmTypeOK'
    BY <1>0, <2>1, <2>3, <2>4 DEF PtmTypeOK, CrossType
  <2>6. DialogueOK'
    BY <1>0, <2>1 DEF DialogueOK, TwoMessages
  <2>7. CleanOK'
    <3> SUFFICES ASSUME own, ~dlg.stepped
                 PROVE  ~ptm.busy /\ TwoMessages(prev'.t4 - prev'.t1 - root.stay)
      BY <2>1 DEF CleanOK, RoundTrip, TwoMessages
    <3>1. cross[x].t1 = ptm.t1
      BY <1>0, <2>1 DEF CrossOK, CallOK
    <3>2. TwoMessages(ptm.t4 - ptm.t1 - root.stay)
      BY <1>0 DEF DialogueOK
    <3>3. QED
      BY <2>1, <3>1, <3>2
  <2>8. CrossOK'
    BY <1>0, <2>1, <2>3, NoneTypes DEF CrossOK, CallOK
  <2>9. StampAccurate'
    <3> SUFFICES ASSUME own, cross[x].clean
                 PROVE  cross[x].master - dlg.sent
                          \in -(MaxDelay - MinDelay)..(MaxDelay - MinDelay)
      BY <2>1 DEF StampAccurate
    <3>1. QED
      BY <1>0, <2>1 DEF CrossOK, CallOK
  <2>10. QED
    BY <2>5, <2>6, <2>7, <2>8, <2>9 DEF CrossInv
<1>7. QED
  BY <1>1, <1>2, <1>3, <1>4, <1>5, <1>6 DEF Cross

\* However many calls run at once, and however often the clock is set: a cross
\* timestamp whose call and the one before it were undisturbed is accurate
\* (main.c:1125-1194).  The driver computes the round trip in 64 bits.
THEOREM PtmInvariance == 2 * MaxDelay < Wide => (PtmSpec => []PtmInv)
<1> SUFFICES ASSUME 2 * MaxDelay < Wide PROVE PtmSpec => []PtmInv
  OBVIOUS
<1>1. PtmInit => CrossInv
  BY CrossInit
<1>2. CrossInv /\ [PtmNext]_ptmVars => CrossInv'
  <2> SUFFICES ASSUME CrossInv, [PtmNext]_ptmVars PROVE CrossInv'
    OBVIOUS
  <2>1. CASE UNCHANGED ptmVars
    BY <2>1
    DEF ptmVars, CrossInv, PtmTypeOK, DialogueOK, CleanOK, CrossOK, CallOK,
        RoundTrip, TwoMessages, StampAccurate
  <2>2. QED
    BY <2>1, DialogueStep, PtmProbeStep, CallStep DEF PtmNext
<1>3. CrossInv => PtmInv
  BY DEF CrossInv, PtmInv
<1>4. QED
  BY <1>1, <1>2, <1>3, PTL DEF PtmSpec
=============================================================================
