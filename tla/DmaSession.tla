----------------------------- MODULE DmaSession -----------------------------
(***************************************************************************)
(* Clients of one DMA channel.  Each runs the protocol of                  *)
(* liblitepcie/litepcie_dma.c on its own open file: litepcie_dma_init()    *)
(* (open, LOCK), litepcie_dma_process() (DMA_WRITER / DMA_READER with      *)
(* enable = 1, every time), litepcie_dma_cleanup() (disable, unlock,       *)
(* close); it may be killed whenever it is not inside a system call, and   *)
(* the kernel then runs release() for it.                                  *)
(*                                                                         *)
(* The driver takes no lock around any of this (its spinlock is never      *)
(* used), so a system call is a sequence of steps, one for each access to  *)
(* what the files share: the lock and enable flags of the engines and the  *)
(* MSI_ENABLE register, which is read, changed and written back.           *)
(***************************************************************************)
CONSTANTS Clients,     \* the client processes, one open file each
          Use,         \* the engines each client uses (use_reader/use_writer)
          Serial,      \* TRUE if the clients' system calls never overlap
          NoOne        \* not a client

Engines == {"reader", "writer"}

ASSUME NoOneAssumption  == NoOne \notin Clients
ASSUME UseAssumption    == Use \in [Clients -> (SUBSET Engines) \ {{}}]
ASSUME SerialAssumption == Serial \in BOOLEAN

VARIABLES
  lock,      \* the engines whose {reader,writer}_lock is set
  mine,      \* chan_priv->{reader,writer} of each file
  enable,    \* the engines whose {reader,writer}_enable is set
  running,   \* the engines that run (the ENABLE register)
  msi,       \* the MSI_ENABLE register: the engines that may interrupt
  at,        \* how far each client is in its protocol
  sys        \* the system call of each client: which one (op), its next
             \* step (k), the engines still to handle (todo), the register
             \* value it has read (v) and m.dma_reader_status (ok)

shared == <<lock, mine, enable, running, msi>>
vars == <<lock, mine, enable, running, msi, at, sys>>

At == {"closed", "opened", "ready", "failed", "stopped", "unlocked"}
Op == {"none", "request", "enable", "disable", "unlock", "release"}
Step == {"user", "test", "take", "check", "start", "setread", "setwrite",
         "seton", "uncheck", "clrread", "clrwrite", "stop", "setoff",
         "unown", "drop"}

User == [op |-> "none", k |-> "user", todo |-> {}, v |-> {}, ok |-> TRUE]

Init ==
  /\ lock = {} /\ enable = {} /\ running = {} /\ msi = {}
  /\ mine = [c \in Clients |-> {}]
  /\ at = [c \in Clients |-> "closed"]
  /\ sys = [c \in Clients |-> User]

-----------------------------------------------------------------------------
(* Entering, continuing and leaving a system call.                         *)

\* The first step of each system call for an engine.
First == [request |-> "test", enable |-> "check", disable |-> "uncheck",
          unlock |-> "drop", release |-> "clrread"]

\* Where a client is when a system call has returned.
After == [request |-> "ready", enable |-> "ready", disable |-> "stopped",
          unlock |-> "unlocked", release |-> "closed"]

\* litepcie_dma_process() enables the writer first; everything else handles
\* the reader first.
Leading(op) == IF op = "enable" THEN "writer" ELSE "reader"
Other(e) == IF e = "reader" THEN "writer" ELSE "reader"
Engine(c) == LET first == Leading(sys[c].op)
             IN  IF first \in sys[c].todo THEN first ELSE Other(first)

Enter(c, op, engines) ==
  /\ sys[c] = User
  /\ Serial => \A d \in Clients : sys[d] = User
  /\ sys' = [sys EXCEPT ![c].op = op, ![c].k = First[op], ![c].todo = engines]
  /\ UNCHANGED <<shared, at>>

\* The next step of the same engine.
Goto(c, k) == sys' = [sys EXCEPT ![c].k = k] /\ UNCHANGED at

\* The engine is handled: the next one, or the return to the client, which
\* litepcie_dma_init() takes for a failure if dma_reader_status is 0.
Finish(c, ok) ==
  LET rest == sys[c].todo \ {Engine(c)}
      op   == sys[c].op
  IN IF rest # {}
     THEN /\ sys' = [sys EXCEPT ![c] = [op |-> op, k |-> First[op],
                                        todo |-> rest, v |-> {}, ok |-> ok]]
          /\ UNCHANGED at
     ELSE /\ sys' = [sys EXCEPT ![c] = User]
          /\ at' = [at EXCEPT ![c] = IF ok THEN After[op] ELSE "failed"]

-----------------------------------------------------------------------------
(* The client's calls.                                                     *)

\* open(): chan_priv is zeroed, so the file owns no engine.
OpenFile(c) ==
  /\ at[c] = "closed"
  /\ sys[c] = User
  /\ Serial => \A d \in Clients : sys[d] = User
  /\ mine' = [mine EXCEPT ![c] = {}]
  /\ at' = [at EXCEPT ![c] = "opened"]
  /\ UNCHANGED <<lock, enable, running, msi, sys>>

RequestDma(c) == at[c] = "opened"  /\ Enter(c, "request", Use[c])
Process(c)    == at[c] = "ready"   /\ Enter(c, "enable", Use[c])
CleanupDma(c) == at[c] = "ready"   /\ Enter(c, "disable", Use[c])
ReleaseDma(c) == at[c] = "stopped" /\ Enter(c, "unlock", Use[c])

\* close() by the client, or by the kernel when it exits or is killed:
\* release() of a file that owns an engine, and of one that owns none.
CloseOwner(c) ==
  /\ at[c] # "closed"
  /\ mine[c] # {}
  /\ Enter(c, "release", mine[c])

CloseOther(c) ==
  /\ at[c] # "closed"
  /\ mine[c] = {}
  /\ sys[c] = User
  /\ Serial => \A d \in Clients : sys[d] = User
  /\ at' = [at EXCEPT ![c] = "closed"]
  /\ UNCHANGED <<shared, sys>>

-----------------------------------------------------------------------------
(* ioctl LOCK.                                                             *)

\* Faulty: the lock is not looked at; the refusal is not reported.
LockTestSkipped(c) == sys[c].k = "test" /\ Goto(c, "take") /\ UNCHANGED shared

LockTestSilent(c) ==
  /\ sys[c].k = "test"
  /\ IF Engine(c) \in lock THEN Finish(c, sys[c].ok) ELSE Goto(c, "take")
  /\ UNCHANGED shared

\* if (chan->dma.reader_lock) m.dma_reader_status = 0; of the two statuses
\* litepcie_request_dma() returns that of the reader.
LockTest(c) ==
  /\ sys[c].k = "test"
  /\ IF Engine(c) \in lock
     THEN Finish(c, sys[c].ok /\ Engine(c) # "reader")
     ELSE Goto(c, "take")
  /\ UNCHANGED shared

LockTake(c) ==
  /\ sys[c].k = "take"
  /\ lock' = lock \cup {Engine(c)}
  /\ mine' = [mine EXCEPT ![c] = @ \cup {Engine(c)}]
  /\ Finish(c, sys[c].ok)
  /\ UNCHANGED <<enable, running, msi>>

\* Faulty: the engines of the client are given up, whichever is asked for.
LockDropBoth(c) ==
  /\ sys[c].k = "drop"
  /\ lock' = {}
  /\ mine' = [mine EXCEPT ![c] = {}]
  /\ Finish(c, TRUE)
  /\ UNCHANGED <<enable, running, msi>>

\* m.dma_reader_release: whoever holds the lock.
LockDrop(c) ==
  /\ sys[c].k = "drop"
  /\ lock' = lock \ {Engine(c)}
  /\ mine' = [mine EXCEPT ![c] = @ \ {Engine(c)}]
  /\ Finish(c, TRUE)
  /\ UNCHANGED <<enable, running, msi>>

-----------------------------------------------------------------------------
(* ioctl DMA_READER, DMA_WRITER and release().                             *)

\* if (m.enable != chan->dma.writer_enable): otherwise only the flag is
\* stored again.
EnableCheck(c) ==
  /\ sys[c].k = "check"
  /\ Goto(c, IF Engine(c) \in enable THEN "seton" ELSE "start")
  /\ UNCHANGED shared

DisableCheck(c) ==
  /\ sys[c].k = "uncheck"
  /\ Goto(c, IF Engine(c) \in enable THEN "clrread" ELSE "setoff")
  /\ UNCHANGED shared

StartEngine(c) ==
  /\ sys[c].k = "start"
  /\ running' = running \cup {Engine(c)}
  /\ Goto(c, "setread")
  /\ UNCHANGED <<lock, mine, enable, msi>>

\* Faulty: the bit is not cleared; all bits are.
MsiClearSkipped(c) ==
  sys[c].k = "clrwrite" /\ Goto(c, "stop") /\ UNCHANGED shared

MsiClearAll(c) ==
  /\ sys[c].k = "clrwrite"
  /\ msi' = {}
  /\ Goto(c, "stop")
  /\ UNCHANGED <<lock, mine, enable, running>>

\* litepcie_enable_interrupt() and litepcie_disable_interrupt() read ...
MsiRead(c) ==
  /\ sys[c].k \in {"setread", "clrread"}
  /\ sys' = [sys EXCEPT ![c].v = msi,
                        ![c].k = IF @ = "setread" THEN "setwrite"
                                 ELSE "clrwrite"]
  /\ UNCHANGED <<shared, at>>

\* ... and write MSI_ENABLE.
MsiSet(c) ==
  /\ sys[c].k = "setwrite"
  /\ msi' = sys[c].v \cup {Engine(c)}
  /\ Goto(c, "seton")
  /\ UNCHANGED <<lock, mine, enable, running>>

MsiClear(c) ==
  /\ sys[c].k = "clrwrite"
  /\ msi' = sys[c].v \ {Engine(c)}
  /\ Goto(c, "stop")
  /\ UNCHANGED <<lock, mine, enable, running>>

\* Faulty: what is stored is not the enable flag.
EnableFlagOfFile(c) ==
  /\ sys[c].k = "seton"
  /\ enable' = enable \cup {c}
  /\ Finish(c, TRUE)
  /\ UNCHANGED <<lock, mine, running, msi>>

\* Faulty: the engine is not stopped.
StopEngineSkipped(c) ==
  /\ sys[c].k = "stop"
  /\ Goto(c, IF sys[c].op = "release" THEN "unown" ELSE "setoff")
  /\ UNCHANGED shared

\* chan->dma.writer_enable = m.enable
EnableFlag(c) ==
  /\ sys[c].k = "seton"
  /\ enable' = enable \cup {Engine(c)}
  /\ Finish(c, TRUE)
  /\ UNCHANGED <<lock, mine, running, msi>>

StopEngine(c) ==
  /\ sys[c].k = "stop"
  /\ running' = running \ {Engine(c)}
  /\ Goto(c, IF sys[c].op = "release" THEN "unown" ELSE "setoff")
  /\ UNCHANGED <<lock, mine, enable, msi>>

\* release() also clears the lock of an engine the file owned.
Unown(c) ==
  /\ sys[c].k = "unown"
  /\ lock' = lock \ {Engine(c)}
  /\ mine' = [mine EXCEPT ![c] = @ \ {Engine(c)}]
  /\ Goto(c, "setoff")
  /\ UNCHANGED <<enable, running, msi>>

DisableFlag(c) ==
  /\ sys[c].k = "setoff"
  /\ enable' = enable \ {Engine(c)}
  /\ Finish(c, TRUE)
  /\ UNCHANGED <<lock, mine, running, msi>>

Call(c) ==
  OpenFile(c) \/ RequestDma(c) \/ Process(c) \/ CleanupDma(c) \/ ReleaseDma(c)
    \/ CloseOwner(c) \/ CloseOther(c)

Kernel(c) ==
  LockTest(c) \/ LockTake(c) \/ LockDrop(c) \/ EnableCheck(c)
    \/ DisableCheck(c) \/ StartEngine(c) \/ MsiRead(c) \/ MsiSet(c)
    \/ MsiClear(c) \/ EnableFlag(c) \/ StopEngine(c) \/ Unown(c)
    \/ DisableFlag(c)

Next == \E c \in Clients : Call(c) \/ Kernel(c)

Spec == Init /\ [][Next]_vars

-----------------------------------------------------------------------------
\* The types of the variables.
TypeOK ==
  /\ lock \subseteq Engines /\ enable \subseteq Engines
  /\ running \subseteq Engines /\ msi \subseteq Engines
  /\ mine \in [Clients -> SUBSET Engines]
  /\ at \in [Clients -> At]
  /\ sys \in [Clients -> [op : Op, k : Step, todo : SUBSET Engines,
                          v : SUBSET Engines, ok : BOOLEAN]]

Quiet == \A c \in Clients : sys[c] = User

\* An engine belongs to at most one file, and its lock is set exactly while
\* it does: a client that is refused ("DMA not available") is refused because
\* somebody has the engine (litepcie_dma.c:83-86, main.c:841-867).
LockExclusive ==
  /\ \A c, d \in Clients : c # d => mine[c] \cap mine[d] = {}
  /\ Quiet => lock = UNION {mine[c] : c \in Clients}

\* When no call is in progress an engine interrupts exactly if it is enabled:
\* release() and the ioctls "disable interrupt" (main.c:422, 432) of their
\* own engine and leave the other one alone.
MsiMatches == Quiet => msi = enable /\ running = enable

\* A client for which litepcie_dma_init() did not fail with "DMA not
\* available" (litepcie_dma.c:83-86) owns the engines it asked for.
InitMeansOwner ==
  \A c \in Clients : at[c] = "ready" /\ sys[c] = User => Use[c] \subseteq mine[c]

\* No engine keeps writing into memory or interrupting after the last client
\* is gone: release() will "disable DMA" (main.c:424, 434).
NoOrphan ==
  (\A c \in Clients : at[c] = "closed") => running = {} /\ msi = {}

\* The clients lease the engines from the driver.
Lease == INSTANCE EngineLease WITH
  owner <- [e \in Engines |->
              IF \E c \in Clients : e \in mine[c]
              THEN CHOOSE c \in Clients : e \in mine[c] ELSE NoOne],
  on    <- running

ImplementsLease == Lease!LeaseSpec
=============================================================================
