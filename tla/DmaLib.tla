------------------------------- MODULE DmaLib -------------------------------
(***************************************************************************)
(* A program on the DMA library: the main loop of "litepcie_test record",  *)
(* "litepcie_test play" and the DMA test around litepcie_dma_process()     *)
(* (litepcie_dma.c:154-241), in copy and in zero-copy mode.                *)
(*                                                                         *)
(* The kernel side is what DmaRx and DmaTx have in detail: the engines run *)
(* round their rings, the handler follows with the counts, read() and      *)
(* write() are one step each.  In zero-copy mode the program works on the  *)
(* mapped rings and tells the driver how far it is.  Received buffers are  *)
(* named by their place in the stream, played ones by theirs in the file.  *)
(* The end of the programs (Ctrl+C, size, loops) is in DmaSession.         *)
(***************************************************************************)
EXTENDS Integers, FiniteSets

CONSTANTS COUNT,     \* DMA_BUFFER_COUNT, the slots of a ring
          Modes,     \* the values of zero_copy to look at
          Uses,      \* the sets of engines to look at: "writer" is DMA to the
                     \* host, "reader" from it
          RxAhead,   \* how far the writer may be ahead of the program
          MaxPos     \* bound of the model on the buffers an engine completes

ASSUME CountAssumption == COUNT \in Nat /\ COUNT % 2 = 0 /\ COUNT > 0
ASSUME ModesAssumption == Modes \subseteq BOOLEAN
ASSUME UsesAssumption  == Uses \subseteq SUBSET {"writer", "reader"}
ASSUME BoundAssumption == RxAhead \in Nat /\ MaxPos \in Nat

VARIABLES
  zero_copy, use, \* fixed at the start
  running,        \* the engines that are enabled
  done,           \* buffers each engine has completed
  hw, sw,         \* the counts of the driver, by engine
  tx_ring,        \* what the slots of the reader's ring hold
  lib,            \* hw and sw as the last enable ioctl returned them
  pc,             \* where the program is
  revents,        \* what poll() returned
  avail, off,     \* buffers_available_ and usr_ _buf_offset, by engine
  buf_rd, buf_wr, \* the program's own buffers in copy mode
  file,           \* the buffer recorded last
  block,          \* the next block of the file to play
  played          \* the block played last

progVars == <<lib, pc, revents, avail, off, buf_rd, buf_wr, file, block>>
vars == <<zero_copy, use, running, done, hw, sw, tx_ring, lib, pc, revents,
          avail, off, buf_rd, buf_wr, file, block, played>>

Engines == {"writer", "reader"}
Half == COUNT \div 2
Slots == 0..COUNT - 1
None == -1

Init ==
  /\ zero_copy \in Modes /\ use \in Uses
  /\ running = {}
  /\ done = [e \in Engines |-> 0]
  /\ hw = [e \in Engines |-> 0] /\ sw = [e \in Engines |-> 0]
  /\ tx_ring = [s \in Slots |-> None]
  /\ lib = [e \in Engines |-> [hw |-> 0, sw |-> 0]]
  /\ pc = "writer"
  /\ revents = {}
  /\ avail = [e \in Engines |-> 0] /\ off = [e \in Engines |-> 0]
  /\ buf_rd = [s \in Slots |-> None] /\ buf_wr = [s \in Slots |-> None]
  /\ file = None /\ block = 0 /\ played = None

-----------------------------------------------------------------------------
(* The engines and the handler.                                            *)

\* The buffer a mapped slot of the writer's ring holds, None while the engine
\* is at work on it.
Mapped(s) ==
  LET held == {n \in 0..done["writer"] - 1 : n % COUNT = s} IN
    IF held = {} \/ s = done["writer"] % COUNT THEN None
    ELSE CHOOSE n \in held : \A o \in held : o <= n

\* The first buffer the program has not taken.
Untaken == IF zero_copy THEN file + 1 ELSE sw["writer"]

RxComplete ==
  /\ "writer" \in running
  /\ done["writer"] < MaxPos
  /\ done["writer"] < Untaken + RxAhead
  /\ done' = [done EXCEPT !["writer"] = @ + 1]
  /\ UNCHANGED <<zero_copy, use, running, hw, sw, tx_ring, progVars, played>>

\* The slots the program has filled.
Filled == IF zero_copy THEN block ELSE sw["reader"]

\* The program keeps up with the reader.
TxComplete ==
  /\ "reader" \in running
  /\ done["reader"] < MaxPos
  /\ done["reader"] < Filled
  /\ done' = [done EXCEPT !["reader"] = @ + 1]
  /\ LET b == tx_ring[done["reader"] % COUNT] IN
       played' = IF b = None THEN played ELSE b
  /\ UNCHANGED <<zero_copy, use, running, hw, sw, tx_ring, progVars>>

\* The handler brings a count up to the engine.
Interrupt(e) ==
  /\ hw[e] < done[e]
  /\ hw' = [hw EXCEPT ![e] = done[e]]
  /\ UNCHANGED <<zero_copy, use, running, done, sw, tx_ring, progVars, played>>

-----------------------------------------------------------------------------
(* litepcie_dma_process().                                                 *)

\* The enable ioctl of one engine: started if it is not, and asked for its
\* counts.
Enable(e, next) ==
  /\ pc = e
  /\ IF e \in use
     THEN /\ running' = running \cup {e}
          /\ lib' = [lib EXCEPT ![e] = [hw |-> hw[e], sw |-> sw[e]]]
     ELSE UNCHANGED <<running, lib>>
  /\ pc' = next
  /\ UNCHANGED <<zero_copy, use, done, hw, sw, tx_ring, revents, avail, off,
                 buf_rd, buf_wr, file, block, played>>

EnableWriter == Enable("writer", "reader")
EnableReader == Enable("reader", "poll")

\* Faulty: POLLIN on an empty ring.
MaskEmpty ==
  {e \in Engines : CASE e = "writer" -> hw[e] - sw[e] >= 0
                     [] e = "reader" -> sw[e] - hw[e] < Half}

\* Faulty: POLLIN only when half of the ring is filled.
MaskLate ==
  {e \in Engines : CASE e = "writer" -> hw[e] - sw[e] > Half
                     [] e = "reader" -> sw[e] - hw[e] < Half}

\* litepcie_poll(): POLLIN for the writer, POLLOUT for the reader.
Mask ==
  {e \in Engines : CASE e = "writer" -> hw[e] - sw[e] > 2
                     [] e = "reader" -> sw[e] - hw[e] < Half}

\* poll() returns an event that was asked for.
PollReady ==
  /\ pc = "poll"
  /\ Mask \cap use # {}
  /\ revents' = Mask \cap use
  /\ pc' = "pollin"
  /\ UNCHANGED <<zero_copy, use, running, done, hw, sw, tx_ring, lib, avail,
                 off, buf_rd, buf_wr, file, block, played>>

\* After 100 ms without one process() returns.
PollTimeout ==
  /\ pc = "poll"
  /\ Mask \cap use = {}
  /\ pc' = "fill"
  /\ UNCHANGED <<zero_copy, use, running, done, hw, sw, tx_ring, lib, revents,
                 avail, off, buf_rd, buf_wr, file, block, played>>

\* A signal interrupts poll(): `poll < 0' compares its address, so process()
\* goes on, with no event (Linux stores none).
PollInterrupted ==
  /\ pc = "poll"
  /\ revents' = {}
  /\ pc' = "pollin"
  /\ UNCHANGED <<zero_copy, use, running, done, hw, sw, tx_ring, lib, avail,
                 off, buf_rd, buf_wr, file, block, played>>

\* MMAP_DMA_WRITER_UPDATE, MMAP_DMA_READER_UPDATE: the driver takes any count.
WriterUpdate(n) == sw' = [sw EXCEPT !["writer"] = n]
ReaderUpdate(n) == sw' = [sw EXCEPT !["reader"] = n]

\* No POLLIN.
NoRead ==
  /\ pc = "pollin" /\ "writer" \notin revents
  /\ avail' = [avail EXCEPT !["writer"] = 0]
  /\ pc' = "pollout"
  /\ UNCHANGED <<zero_copy, use, running, done, hw, sw, tx_ring, lib, revents,
                 off, buf_rd, buf_wr, file, block, played>>

\* Faulty: the buffers begin at the count of the hardware.
ReadZeroCopyAtHw ==
  /\ pc = "pollin" /\ "writer" \in revents /\ zero_copy
  /\ avail' = [avail EXCEPT !["writer"] = lib["writer"].hw - lib["writer"].sw]
  /\ off' = [off EXCEPT !["writer"] = lib["writer"].hw % COUNT]
  /\ WriterUpdate(lib["writer"].hw)
  /\ pc' = "pollout"
  /\ UNCHANGED <<zero_copy, use, running, done, hw, tx_ring, lib, revents,
                 buf_rd, buf_wr, file, block, played>>

\* POLLIN, zero-copy: the buffers the ioctl reported, all handed back by
\* MMAP_DMA_WRITER_UPDATE before the program looks at them.
ReadZeroCopy ==
  /\ pc = "pollin" /\ "writer" \in revents /\ zero_copy
  /\ avail' = [avail EXCEPT !["writer"] = lib["writer"].hw - lib["writer"].sw]
  /\ off' = [off EXCEPT !["writer"] = lib["writer"].sw % COUNT]
  /\ WriterUpdate(lib["writer"].hw)
  /\ pc' = "pollout"
  /\ UNCHANGED <<zero_copy, use, running, done, hw, tx_ring, lib, revents,
                 buf_rd, buf_wr, file, block, played>>

\* POLLIN, copy mode: a read() of a whole ring, which drops what is more than
\* half a ring behind and blocks while there is nothing.
ReadCopy ==
  /\ pc = "pollin" /\ "writer" \in revents /\ ~zero_copy
  /\ sw["writer"] < hw["writer"]
  /\ LET late  == hw["writer"] - Half
         first == IF sw["writer"] < late THEN late ELSE sw["writer"]
     IN /\ buf_rd' = [s \in Slots |-> IF s < hw["writer"] - first
                                      THEN Mapped((first + s) % COUNT)
                                      ELSE buf_rd[s]]
        /\ avail' = [avail EXCEPT !["writer"] = hw["writer"] - first]
  /\ off' = [off EXCEPT !["writer"] = 0]
  /\ sw' = [sw EXCEPT !["writer"] = hw["writer"]]
  /\ pc' = "pollout"
  /\ UNCHANGED <<zero_copy, use, running, done, hw, tx_ring, lib, revents,
                 buf_wr, file, block, played>>

\* No POLLOUT.
NoWrite ==
  /\ pc = "pollout" /\ "reader" \notin revents
  /\ avail' = [avail EXCEPT !["reader"] = 0]
  /\ pc' = "fill"
  /\ UNCHANGED <<zero_copy, use, running, done, hw, sw, tx_ring, lib, revents,
                 off, buf_rd, buf_wr, file, block, played>>

\* Faulty: the buffers begin at the count of the hardware.
WriteZeroCopyAtHw ==
  /\ pc = "pollout" /\ "reader" \in revents /\ zero_copy
  /\ LET n == Half - (lib["reader"].sw - lib["reader"].hw) IN
       /\ avail' = [avail EXCEPT !["reader"] = n]
       /\ ReaderUpdate(lib["reader"].sw + n)
  /\ off' = [off EXCEPT !["reader"] = lib["reader"].hw % COUNT]
  /\ pc' = "fill"
  /\ UNCHANGED <<zero_copy, use, running, done, hw, tx_ring, lib, revents,
                 buf_rd, buf_wr, file, block, played>>

\* POLLOUT, zero-copy: as many buffers as make up half a ring, all handed to
\* the driver by MMAP_DMA_READER_UPDATE before the program fills them.
WriteZeroCopy ==
  /\ pc = "pollout" /\ "reader" \in revents /\ zero_copy
  /\ LET n == Half - (lib["reader"].sw - lib["reader"].hw) IN
       /\ avail' = [avail EXCEPT !["reader"] = n]
       /\ ReaderUpdate(lib["reader"].sw + n)
  /\ off' = [off EXCEPT !["reader"] = lib["reader"].sw % COUNT]
  /\ pc' = "fill"
  /\ UNCHANGED <<zero_copy, use, running, done, hw, tx_ring, lib, revents,
                 buf_rd, buf_wr, file, block, played>>

\* POLLOUT, copy mode: a write() of as much as makes up half a ring, from the
\* beginning of the program's buffers as they are.
WriteCopy ==
  /\ pc = "pollout" /\ "reader" \in revents /\ ~zero_copy
  /\ sw["reader"] - hw["reader"] < Half
  /\ LET n == Half - (sw["reader"] - hw["reader"])
         at(s) == (s - sw["reader"]) % COUNT
     IN /\ tx_ring' = [s \in Slots |-> IF at(s) < n THEN buf_wr[at(s)]
                                       ELSE tx_ring[s]]
        /\ avail' = [avail EXCEPT !["reader"] = n]
        /\ sw' = [sw EXCEPT !["reader"] = @ + n]
  /\ off' = [off EXCEPT !["reader"] = 0]
  /\ pc' = "fill"
  /\ UNCHANGED <<zero_copy, use, running, done, hw, lib, revents, buf_rd,
                 buf_wr, file, block, played>>

-----------------------------------------------------------------------------
(* The program: fill what may be written, take what may be read.           *)

\* Faulty: the offset runs out of the ring.
NextBufferUnwrapped(e) ==
  /\ avail[e] > 0
  /\ avail' = [avail EXCEPT ![e] = @ - 1]
  /\ off' = [off EXCEPT ![e] = @ + 1]

\* litepcie_dma_next_read_buffer(), _write_buffer()
NextBuffer(e) ==
  /\ avail[e] > 0
  /\ avail' = [avail EXCEPT ![e] = @ - 1]
  /\ off' = [off EXCEPT ![e] = (@ + 1) % COUNT]

\* The next block of the file goes into the next write buffer.
Fill ==
  /\ pc = "fill"
  /\ NextBuffer("reader")
  /\ block' = block + 1
  /\ IF zero_copy
     THEN tx_ring' = [tx_ring EXCEPT ![off["reader"]] = block]
          /\ buf_wr' = buf_wr
     ELSE buf_wr' = [buf_wr EXCEPT ![off["reader"]] = block]
          /\ tx_ring' = tx_ring
  /\ UNCHANGED <<zero_copy, use, running, done, hw, sw, lib, pc, revents,
                 buf_rd, file, played>>

Filling ==
  /\ pc = "fill" /\ avail["reader"] = 0
  /\ pc' = "take"
  /\ UNCHANGED <<zero_copy, use, running, done, hw, sw, tx_ring, lib, revents,
                 avail, off, buf_rd, buf_wr, file, block, played>>

\* The next read buffer goes to the file.
Take ==
  /\ pc = "take"
  /\ NextBuffer("writer")
  /\ file' = IF zero_copy THEN Mapped(off["writer"]) ELSE buf_rd[off["writer"]]
  /\ UNCHANGED <<zero_copy, use, running, done, hw, sw, tx_ring, lib, pc,
                 revents, buf_rd, buf_wr, block, played>>

Again ==
  /\ pc = "take" /\ avail["writer"] = 0
  /\ pc' = "writer"
  /\ UNCHANGED <<zero_copy, use, running, done, hw, sw, tx_ring, lib, revents,
                 avail, off, buf_rd, buf_wr, file, block, played>>

Poll == PollReady \/ PollTimeout \/ PollInterrupted
Process ==
  EnableWriter \/ EnableReader \/ Poll \/ NoRead \/ ReadZeroCopy \/ ReadCopy
    \/ NoWrite \/ WriteZeroCopy \/ WriteCopy
Program == Process \/ Fill \/ Filling \/ Take \/ Again

Next ==
  \/ RxComplete
  \/ TxComplete
  \/ \E e \in Engines : Interrupt(e)
  \/ Program

Spec == Init /\ [][Next]_vars

\* The program runs on, signals do not interrupt every poll(), and the
\* handler follows the engines.
LiveSpec ==
  /\ Spec
  /\ WF_vars(Program)
  /\ SF_vars(PollReady)
  /\ \A e \in Engines : WF_vars(Interrupt(e))

-----------------------------------------------------------------------------
\* The types of the variables.
LibTypeOK ==
  /\ zero_copy \in BOOLEAN /\ use \subseteq Engines /\ running \subseteq use
  /\ {done, hw, sw} \subseteq [Engines -> 0..MaxPos + COUNT]
  /\ tx_ring \in [Slots -> {None} \cup Nat]
  /\ lib \in [Engines -> [hw : Nat, sw : Nat]]
  /\ pc \in {"writer", "reader", "poll", "pollin", "pollout", "fill", "take"}
  /\ revents \subseteq use
  /\ avail \in [Engines -> 0..COUNT] /\ off \in [Engines -> Slots]
  /\ {buf_rd, buf_wr} \subseteq [Slots -> {None} \cup Nat]
  /\ {file, played} \subseteq {None} \cup Nat /\ block \in Nat

\* A program that is not RxAhead buffers late records the stream in order: in
\* zero-copy mode every buffer, although it is handed back before it is
\* looked at; in copy mode what read() did not drop (litepcie_dma.c:175-193,
\* 223-231, litepcie_test.c:67-82).
RecordsInOrder ==
  [][file' # file => IF zero_copy THEN file' = file + 1 ELSE file' > file]_vars

\* "Play DMA stream from file": the engine gets the blocks of the file one
\* after the other (litepcie_test.c:211, litepcie_dma.c:198-217, 233-241).
PlaysInOrder == [][played' # played => played' = played + 1]_vars

\* The same of zero-copy mode, where a block is put into the ring after the
\* slot was handed over and before the engine is there.
ZeroCopyPlaysInOrder ==
  [][zero_copy /\ played' # played => played' = played + 1]_vars

\* After a poll() that returned an event neither read() nor write() would
\* block: the thresholds of poll() are on the safe side of theirs
\* (main.c:460, 515, 610, 613), and the counts move the right way.
NoCallBlocks ==
  /\ pc = "pollin" /\ "writer" \in revents => sw["writer"] < hw["writer"]
  /\ pc \in {"pollin", "pollout"} /\ "reader" \in revents =>
       sw["reader"] - hw["reader"] < Half

\* Both, for one run: the types hold and no call of process() blocks
\* (litepcie_dma.c:165-221).
LibInv == LibTypeOK /\ NoCallBlocks

\* The program catches up with the writer, except for the last two buffers of
\* a stream that rests, for which there is no POLLIN; and when the reader has
\* used up all blocks it gets a new one (main.c:610-614).
KeepsServing ==
  /\ (done["writer"] - (file + 1) > 2) ~> (done["writer"] - (file + 1) <= 2)
  /\ ("reader" \in use /\ done["reader"] >= block)
       ~> (done["reader"] < block)
=============================================================================
