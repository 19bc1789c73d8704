----------------------------- MODULE Lifecycle -----------------------------
(***************************************************************************)
(* The life of a card in the driver: litepcie_pci_probe(), its error       *)
(* paths, litepcie_pci_remove() (main.c:1220-1522), and the clients that   *)
(* hold one of its character devices open meanwhile.                       *)
(*                                                                         *)
(* What probe() takes from the kernel is a set `held' and a number of      *)
(* interrupt handlers.  Memory, the BAR mapping and the DMA buffers are    *)
(* managed by the PCI core, which frees them when probe() has failed and   *)
(* after remove().  One card is probed or removed at a time.               *)
(***************************************************************************)
EXTENDS Integers, FiniteSets

CONSTANTS Cards,      \* the cards
          Files,      \* the open files there can be
          Nothing,    \* neither a card nor a file
          CHANNELS,   \* DMA_CHANNELS
          IRQS,       \* the vectors pci_alloc_irq_vectors() gives
          Failing,    \* the steps of probe() that may fail
          EarlyOpen,  \* whether clients may come before probe() has returned
          HotRemove,  \* whether a card may go while a file is open
          LateStart,  \* whether its client may then still start the engine
          MaxProbes   \* bound of the model on the calls of probe()

Steps == {"setup", "vectors", "irqs", "chdev", "dma", "uart", "ptp"}

ASSUME NothingAssumption == Nothing \notin Cards
ASSUME ConstAssumption   ==
  CHANNELS \in Nat \ {0} /\ IRQS \in Nat \ {0} /\ MaxProbes \in Nat
ASSUME FailAssumption    == Failing \subseteq Steps
ASSUME SwitchAssumption  == {EarlyOpen, HotRemove, LateStart} \subseteq BOOLEAN

VARIABLES
  pc,          \* where probe() or remove() of each card is; "absent" before
               \* and after, "bound" between
  held,        \* "vectors", "chdev", "dma", "uart", "ptp": what it holds
  irqs,        \* its handlers
  ready,       \* whether its channels are initialised
  minor_base,  \* the first minor of its character devices
  litepcie_minor_idx,
  file,        \* the card and channel each file is open on, or Gone
  running,     \* the channels of each card whose engines are enabled
  probes       \* calls of probe() so far

vars == <<pc, held, irqs, ready, minor_base, litepcie_minor_idx, file,
          running, probes>>

Chans == 0..CHANNELS - 1
Gone == <<Nothing, 0>>

Init ==
  /\ pc = [d \in Cards |-> "absent"]
  /\ held = [d \in Cards |-> {}]
  /\ irqs = [d \in Cards |-> 0]
  /\ ready = [d \in Cards |-> FALSE]
  /\ minor_base = [d \in Cards |-> 0]
  /\ litepcie_minor_idx = 0
  /\ file = [f \in Files |-> Nothing]
  /\ running = [d \in Cards |-> {}]
  /\ probes = 0

-----------------------------------------------------------------------------
(* probe()                                                                 *)

Goto(d, step) == pc' = [pc EXCEPT ![d] = step]
Hold(d, r) == held' = [held EXCEPT ![d] = @ \cup {r}]
Release(d, r) == held' = [held EXCEPT ![d] = @ \ {r}]
Quiet == \A d \in Cards : pc[d] \in {"absent", "bound"}

\* From the allocation of the device to the DMA mask: nothing is held.
ProbeSetup(d) ==
  /\ pc[d] = "absent" /\ Quiet /\ probes < MaxProbes
  /\ probes' = probes + 1
  /\ \/ Goto(d, "vectors")
     \/ "setup" \in Failing /\ Goto(d, "fail1")
  /\ UNCHANGED <<held, irqs, ready, minor_base, litepcie_minor_idx, file,
                 running>>

ProbeVectors(d) ==
  /\ pc[d] = "vectors"
  /\ \/ Hold(d, "vectors") /\ Goto(d, "irqs")
     \/ "vectors" \in Failing /\ Goto(d, "fail1") /\ UNCHANGED held
  /\ UNCHANGED <<irqs, ready, minor_base, litepcie_minor_idx, file, running,
                 probes>>

\* Faulty: the loop runs once too often.
ProbeIrqsOneMore(d) ==
  /\ pc[d] = "irqs"
  /\ irqs' = [irqs EXCEPT ![d] = IRQS + 1] /\ Goto(d, "chdev")
  /\ UNCHANGED <<held, ready, minor_base, litepcie_minor_idx, file, running,
                 probes>>

\* The handlers are requested for litepcie_dev.  When one fails, those before
\* it are freed for dev, which frees none.
ProbeIrqs(d) ==
  /\ pc[d] = "irqs"
  /\ \/ irqs' = [irqs EXCEPT ![d] = IRQS] /\ Goto(d, "chdev")
     \/ /\ "irqs" \in Failing
        /\ \E k \in 0..IRQS - 1 : irqs' = [irqs EXCEPT ![d] = k]
        /\ Goto(d, "fail2")
  /\ UNCHANGED <<held, ready, minor_base, litepcie_minor_idx, file, running,
                 probes>>

\* Faulty: the index is not moved on.
AllocChdevSameIndex(d) ==
  /\ pc[d] = "chdev"
  /\ minor_base' = [minor_base EXCEPT ![d] = litepcie_minor_idx]
  /\ \/ /\ Hold(d, "chdev") /\ Goto(d, "channels")
        /\ litepcie_minor_idx' = litepcie_minor_idx
     \/ /\ "chdev" \in Failing /\ Goto(d, "fail2")
        /\ UNCHANGED <<held, litepcie_minor_idx>>
  /\ UNCHANGED <<irqs, ready, file, running, probes>>

\* litepcie_alloc_chdev(): all of the devices or none.
AllocChdev(d) ==
  /\ pc[d] = "chdev"
  /\ minor_base' = [minor_base EXCEPT ![d] = litepcie_minor_idx]
  /\ \/ /\ Hold(d, "chdev") /\ Goto(d, "channels")
        /\ litepcie_minor_idx' = litepcie_minor_idx + CHANNELS
     \/ /\ "chdev" \in Failing /\ Goto(d, "fail2")
        /\ UNCHANGED <<held, litepcie_minor_idx>>
  /\ UNCHANGED <<irqs, ready, file, running, probes>>

\* The channels get their device, wait queues, base and interrupts.
ProbeChannels(d) ==
  /\ pc[d] = "channels"
  /\ ready' = [ready EXCEPT ![d] = TRUE]
  /\ Goto(d, "dma")
  /\ UNCHANGED <<held, irqs, minor_base, litepcie_minor_idx, file, running,
                 probes>>

\* litepcie_dma_init(): what it allocates before it fails the PCI core frees.
DmaInit(d) ==
  /\ pc[d] = "dma"
  /\ Hold(d, "dma")
  /\ Goto(d, "uart") \/ ("dma" \in Failing /\ Goto(d, "fail3"))
  /\ UNCHANGED <<irqs, ready, minor_base, litepcie_minor_idx, file, running,
                 probes>>

\* No memory for the resource: return; no platform device: fail3.
ProbeUart(d) ==
  /\ pc[d] = "uart"
  /\ \/ Hold(d, "uart") /\ Goto(d, "ptp")
     \/ /\ "uart" \in Failing /\ UNCHANGED held
        /\ (Goto(d, "fail1") \/ Goto(d, "fail3"))
  /\ UNCHANGED <<irqs, ready, minor_base, litepcie_minor_idx, file, running,
                 probes>>

\* No PTP clock: return.  PtmCross has what comes after it.
ProbePtp(d) ==
  /\ pc[d] = "ptp"
  /\ \/ Hold(d, "ptp") /\ Goto(d, "bound")
     \/ "ptp" \in Failing /\ Goto(d, "fail1") /\ UNCHANGED held
  /\ UNCHANGED <<irqs, ready, minor_base, litepcie_minor_idx, file, running,
                 probes>>

\* fail3: litepcie_free_chdev(); fail2: pci_free_irq_vectors()
Fail3(d) ==
  /\ pc[d] = "fail3"
  /\ Release(d, "chdev") /\ Goto(d, "fail2")
  /\ UNCHANGED <<irqs, ready, minor_base, litepcie_minor_idx, file, running,
                 probes>>

Fail2(d) ==
  /\ pc[d] = "fail2"
  /\ Release(d, "vectors") /\ Goto(d, "fail1")
  /\ UNCHANGED <<irqs, ready, minor_base, litepcie_minor_idx, file, running,
                 probes>>

\* fail1, and the end of remove(): the PCI core frees what it manages.  Files
\* that are still open are on a card that is gone.
Detach(d) ==
  /\ pc[d] = "fail1"
  /\ Release(d, "dma") /\ Goto(d, "absent")
  /\ ready' = [ready EXCEPT ![d] = FALSE]
  /\ file' = [f \in Files |-> IF file[f] \in {d} \X Chans THEN Gone
                              ELSE file[f]]
  /\ UNCHANGED <<irqs, minor_base, litepcie_minor_idx, running, probes>>

-----------------------------------------------------------------------------
(* remove()                                                                *)

\* The module owns the files: it is not unloaded while one is open.
RemovePtp(d) ==
  /\ pc[d] = "bound" /\ Quiet
  /\ HotRemove \/ \A f \in Files : file[f] = Nothing
  /\ Release(d, "ptp") /\ Goto(d, "stop")
  /\ UNCHANGED <<irqs, ready, minor_base, litepcie_minor_idx, file, running,
                 probes>>

\* Faulty: the engines run on.
StopDmaSkipped(d) ==
  /\ pc[d] = "stop"
  /\ Goto(d, "freeirqs")
  /\ UNCHANGED <<held, irqs, ready, minor_base, litepcie_minor_idx, file,
                 running, probes>>

\* litepcie_stop_dma(), and MSI_ENABLE is cleared.
StopDma(d) ==
  /\ pc[d] = "stop"
  /\ running' = [running EXCEPT ![d] = {}]
  /\ Goto(d, "freeirqs")
  /\ UNCHANGED <<held, irqs, ready, minor_base, litepcie_minor_idx, file,
                 probes>>

\* Faulty: the last handler is forgotten.
RemoveIrqsButOne(d) ==
  /\ pc[d] = "freeirqs"
  /\ irqs' = [irqs EXCEPT ![d] = 1]
  /\ Goto(d, "freeuart")
  /\ UNCHANGED <<held, ready, minor_base, litepcie_minor_idx, file, running,
                 probes>>

RemoveIrqs(d) ==
  /\ pc[d] = "freeirqs"
  /\ irqs' = [irqs EXCEPT ![d] = 0]
  /\ Goto(d, "freeuart")
  /\ UNCHANGED <<held, ready, minor_base, litepcie_minor_idx, file, running,
                 probes>>

\* The character devices and the vectors go as they do in probe().
RemoveUart(d) ==
  /\ pc[d] = "freeuart"
  /\ Release(d, "uart") /\ Goto(d, "fail3")
  /\ UNCHANGED <<irqs, ready, minor_base, litepcie_minor_idx, file, running,
                 probes>>

-----------------------------------------------------------------------------
(* Clients.                                                                *)

Probing(d) == pc[d] \in Steps \cup {"channels"}
Removing(d) == pc[d] \notin Steps \cup {"channels", "bound", "absent"}

Open(f) ==
  /\ file[f] = Nothing
  /\ \E d \in Cards, c \in Chans :
       /\ "chdev" \in held[d]
       /\ Probing(d) => EarlyOpen
       /\ Removing(d) => LateStart
       /\ file' = [file EXCEPT ![f] = <<d, c>>]
  /\ UNCHANGED <<pc, held, irqs, ready, minor_base, litepcie_minor_idx,
                 running, probes>>

\* The ioctl that enables an engine.
Start(f) ==
  /\ file[f] \notin {Nothing, Gone}
  /\ pc[file[f][1]] = "bound" \/ Probing(file[f][1])
       \/ (LateStart /\ Removing(file[f][1]))
  /\ running' = [running EXCEPT ![file[f][1]] = @ \cup {file[f][2]}]
  /\ UNCHANGED <<pc, held, irqs, ready, minor_base, litepcie_minor_idx, file,
                 probes>>

\* The file whose client owns the engine: release() stops it.
Close(f) ==
  /\ file[f] # Nothing
  /\ running' = [d \in Cards |->
       IF file[f][1] = d THEN running[d] \ {file[f][2]} ELSE running[d]]
  /\ file' = [file EXCEPT ![f] = Nothing]
  /\ UNCHANGED <<pc, held, irqs, ready, minor_base, litepcie_minor_idx,
                 probes>>

ProbeOf(d) ==
  ProbeSetup(d) \/ ProbeVectors(d) \/ ProbeIrqs(d) \/ AllocChdev(d)
    \/ ProbeChannels(d) \/ DmaInit(d) \/ ProbeUart(d) \/ ProbePtp(d)
    \/ Fail3(d) \/ Fail2(d) \/ Detach(d)

RemoveOf(d) == RemovePtp(d) \/ StopDma(d) \/ RemoveIrqs(d) \/ RemoveUart(d)

Next ==
  \/ \E d \in Cards : ProbeOf(d) \/ RemoveOf(d)
  \/ \E f \in Files : Open(f) \/ Start(f) \/ Close(f)

Spec == Init /\ [][Next]_vars

-----------------------------------------------------------------------------
\* The types of the variables.
LcTypeOK ==
  /\ pc \in [Cards -> Steps \cup {"absent", "channels", "bound", "fail1",
               "fail2", "fail3", "stop", "freeirqs", "freeuart"}]
  /\ held \in [Cards -> SUBSET {"vectors", "chdev", "dma", "uart", "ptp"}]
  /\ irqs \in [Cards -> 0..IRQS] /\ ready \in [Cards -> BOOLEAN]
  /\ minor_base \in [Cards -> Nat] /\ litepcie_minor_idx \in Nat
  /\ file \in [Files -> {Nothing, Gone} \cup (Cards \X Chans)]
  /\ running \in [Cards -> SUBSET Chans]
  /\ probes \in 0..MaxProbes

\* A card that is gone, or whose probe() has failed, has left nothing behind:
\* no handler for memory that is freed, no vectors, no device nodes, neither
\* uart nor PTP clock (main.c:1483-1488, 1505-1521).
NoLeftovers ==
  \A d \in Cards : pc[d] = "absent" =>
    held[d] = {} /\ irqs[d] = 0 /\ running[d] = {}

\* While an engine runs its card has initialised channels, DMA buffers and
\* handlers: clients are let in late enough and kept out early enough
\* (main.c:1345, 1505-1515).
EngineHasBuffers ==
  \A d \in Cards : running[d] # {} =>
    ready[d] /\ "dma" \in held[d] /\ irqs[d] = IRQS

\* No two cards have a character device of the same number, whatever the
\* order they come and go in (main.c:901-925).
MinorsDistinct ==
  \A d, e \in Cards :
    d # e /\ "chdev" \in held[d] \cap held[e] =>
      minor_base[d] + CHANNELS <= minor_base[e]
        \/ minor_base[e] + CHANNELS <= minor_base[d]
=============================================================================
