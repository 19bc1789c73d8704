----------------------------- MODULE FlashWrite -----------------------------
(***************************************************************************)
(* litepcie_util flash_write: litepcie_flash_write() (litepcie_flash.c)    *)
(* against a serial flash.  The tool drives chip select and the transfers  *)
(* by system calls of their own; the chip acts on a command when chip      *)
(* select rises, and ignores all but status reads while it works.  The     *)
(* tool may be killed between two system calls and run again, the chip may *)
(* program a page incompletely, and another process may read the flash     *)
(* meanwhile.  (The code is compiled for SoCs with a flash core.)          *)
(***************************************************************************)
EXTENDS Integers

CONSTANTS Sectors,     \* sectors of the flash
          SectorPages, \* pages of a sector
          Base,        \* the page the image begins at
          Size,        \* pages of the image, padded to whole sectors
          Retries,     \* FLASH_RETRIES
          MaxRuns,     \* bound on the runs of the tool
          MaxReads,    \* bound on the reads of another process
          MaxWeak      \* bound on the incomplete programmings of a run

ASSUME GeometryAssumption ==
  /\ Sectors \in Nat \ {0} /\ SectorPages \in Nat \ {0}
  /\ Base \in Nat /\ Size \in Nat \ {0}
  /\ Size % SectorPages = 0 /\ Base + Size <= Sectors * SectorPages
ASSUME BoundsAssumption == {Retries, MaxRuns, MaxReads, MaxWeak} \subseteq Nat

Pages == 0..(Sectors * SectorPages - 1)
Image == Base..(Base + Size - 1)
Sector(p) == {q \in Pages : q \div SectorPages = p \div SectorPages}

VARIABLES
  mem,          \* what each page holds
  wel,          \* the write enable latch of the chip
  work,         \* the command the chip is working on
  cmd,          \* the command it has accepted since chip select fell
  pc,           \* the next command of the tool
  sent,         \* its bits are sent, chip select is still low
  i, retries,   \* variables of litepcie_flash_write()
  runs, reads, weak,  \* runs, reads of others, incomplete programmings
  calm          \* history: this run found the chip at rest, and nobody has
                \* touched it since

chip == <<mem, wel, work>>
loop == <<i, retries>>
past == <<runs, reads, weak, calm>>
vars == <<chip, cmd, pc, sent, loop, past>>

\* "orig": never written.  "new": this run's image.  "part": some of its bits
\* are not yet cleared.  "other": anything else.
Contents == {"orig", "erased", "part", "new", "other"}

\* A page program carries the image's data, no data yet, or not (only) that.
Data == {"none", "new", "bad"}

Ops == {"none", "WREN", "WRDI", "SE", "PP", "READ"}
CommandType == [op : Ops, page : Pages, data : Data]
Command(op, p, data) == [op |-> op, page |-> p, data |-> data]
NoCommand == Command("none", 0, "none")

Init ==
  /\ mem = [p \in Pages |-> "orig"] /\ wel = FALSE /\ work = NoCommand
  /\ cmd = NoCommand
  /\ pc = "idle" /\ sent = FALSE /\ i = 0 /\ retries = 0
  /\ runs = 0 /\ reads = 0 /\ weak = 0 /\ calm = TRUE

-----------------------------------------------------------------------------
(* The chip.                                                               *)

Ready == work = NoCommand

\* Chip select rises with command c in the chip.
Deselect(c) ==
  /\ wel' = IF c.op \in {"WREN", "WRDI"} THEN c.op = "WREN" ELSE wel
  /\ work' = IF wel /\ (c.op = "SE" \/ (c.op = "PP" /\ c.data # "none"))
               THEN c ELSE work
  /\ cmd' = NoCommand
  /\ UNCHANGED mem

\* Programming clears bits and sets none.
Programmed(old, data) ==
  IF data = "new" /\ old \in {"erased", "part", "new"} THEN "new" ELSE "other"

Finish ==
  /\ ~Ready
  /\ mem' = [p \in Pages |->
               CASE work.op = "SE" /\ p \in Sector(work.page) -> "erased"
                 [] work.op = "PP" /\ p = work.page ->
                      Programmed(mem[p], work.data)
                 [] OTHER -> mem[p]]
  /\ wel' = FALSE /\ work' = NoCommand
  /\ UNCHANGED <<cmd, pc, sent, loop, past>>

\* A page program that ends before every bit is cleared.
FinishWeak ==
  /\ work.op = "PP" /\ work.data = "new" /\ mem[work.page] \in {"erased", "part"}
  /\ weak < MaxWeak
  /\ weak' = weak + 1
  /\ mem' = [mem EXCEPT ![work.page] = "part"]
  /\ wel' = FALSE /\ work' = NoCommand
  /\ UNCHANGED <<cmd, pc, sent, loop, runs, reads, calm>>

\* flash_read of another process: its bits follow what is in the chip, and it
\* takes chip select up.
Appended(c) == [c EXCEPT !.op = IF @ = "PP" THEN "PP" ELSE "READ",
                         !.data = IF c.op = "PP" THEN "bad" ELSE "none"]

OtherRead ==
  /\ reads < MaxReads
  /\ reads' = reads + 1 /\ calm' = FALSE
  /\ Deselect(Appended(cmd))
  /\ UNCHANGED <<pc, sent, loop, runs, weak>>

-----------------------------------------------------------------------------
(* The tool.                                                               *)

\* A run begins.  What an earlier one has written, or left in the chip, is not
\* this image.
Stale(old) == IF old \in {"new", "part"} THEN "other" ELSE old

Run ==
  /\ pc \in {"idle", "done", "failed"} /\ runs < MaxRuns
  /\ pc' = "probe" /\ sent' = FALSE /\ i' = 0 /\ retries' = 0
  /\ runs' = runs + 1 /\ weak' = 0
  /\ calm' = (Ready /\ cmd = NoCommand)
  /\ mem' = [p \in Pages |-> Stale(mem[p])]
  /\ cmd' = [cmd EXCEPT !.data = IF @ = "new" THEN "bad" ELSE @]
  /\ work' = [work EXCEPT !.data = IF @ = "new" THEN "bad" ELSE @]
  /\ UNCHANGED <<wel, reads>>

\* litepcie_flash_get_flash_program_size() moves chip select down and up; the
\* dummy command after it changes nothing.
Probe ==
  /\ pc = "probe"
  /\ Deselect(cmd)
  /\ pc' = "wren0"
  /\ UNCHANGED <<sent, loop, past>>

\* The command at each place of litepcie_flash_write(), and the next place.
Op == [wren0 |-> "WREN", ewren |-> "WREN", erase |-> "SE", wrdi |-> "WRDI",
       pwren |-> "WREN", program |-> "PP", pwrdi |-> "WRDI", verify |-> "READ"]
Then == [wren0 |-> "ewren", ewren |-> "erase", erase |-> "ewait",
         wrdi |-> "pwait", pwren |-> "program", program |-> "pwrdi",
         pwrdi |-> "vwait"]
Waits == {"ewait", "pwait", "vwait"}
Places == DOMAIN Op \cup Waits \cup {"idle", "probe", "done", "failed"}

\* Faulty: every sector is erased one too far.
AddressNext == IF pc = "erase" THEN Base + i + SectorPages ELSE Base + i

Address == Base + i

\* The FLASH ioctl: the bits go out.  A chip that works does not listen.
Transfer(op) == cmd' = IF Ready THEN Command(op, Address, "none") ELSE NoCommand

\* flash_spi(): chip select falls, and the command goes out.
Send ==
  /\ pc \in DOMAIN Op /\ ~sent
  /\ Transfer(Op[pc])
  /\ sent' = TRUE
  /\ UNCHANGED <<chip, pc, loop, past>>

\* flash_write_buffer(): the data of the page follows.
SendData ==
  /\ pc = "program" /\ sent
  /\ cmd.op = "PP" /\ cmd.data = "none"
  /\ cmd' = [cmd EXCEPT !.data = "new"]
  /\ UNCHANGED <<chip, pc, sent, loop, past>>

\* ... and chip select rises.
Release ==
  /\ pc \in DOMAIN Then /\ sent
  /\ cmd.op = "PP" => cmd.data # "none"
  /\ Deselect(cmd)
  /\ sent' = FALSE /\ pc' = Then[pc]
  /\ UNCHANGED <<loop, past>>

\* What follows a loop that has read the status of a chip that is ready.
Proceed ==
  /\ \/ pc = "ewait" /\ i + SectorPages < Size
        /\ pc' = "ewren" /\ i' = i + SectorPages
     \/ pc = "ewait" /\ i + SectorPages >= Size /\ pc' = "wrdi" /\ i' = 0
     \/ pc = "pwait" /\ pc' = "pwren" /\ i' = i
     \/ pc = "vwait" /\ pc' = "verify" /\ i' = i
  /\ UNCHANGED <<chip, cmd, sent, retries, runs, weak>>

\* Faulty: nobody waits.
PollNot == Proceed /\ UNCHANGED <<reads, calm>>

Poll == Ready /\ Proceed /\ UNCHANGED <<reads, calm>>

\* Another process takes chip select up in the middle: the status read is
\* arbitrary.
PollGarbled ==
  /\ reads < MaxReads
  /\ reads' = reads + 1 /\ calm' = FALSE
  /\ Proceed

\* What litepcie_flash_read_buffer() returns is the page only if the chip has
\* accepted the command and chip select stayed low.
Matches == cmd.op = "READ" /\ mem[Address] = "new"

VerifyGood ==
  /\ Matches
  /\ i' = i + 1 /\ retries' = 0
  /\ pc' = IF i + 1 < Size THEN "pwait" ELSE "done"

\* Faulty: the page is given up silently.
VerifyBadSkips ==
  /\ ~Matches
  /\ i' = (IF retries = Retries THEN i + 1 ELSE i)
  /\ retries' = (IF retries = Retries THEN 0 ELSE retries + 1)
  /\ pc' = IF i' < Size THEN "pwait" ELSE "done"

\* Faulty: retries are not counted.
VerifyBadForever ==
  /\ ~Matches
  /\ pc' = "pwait"
  /\ UNCHANGED <<i, retries>>

\* The page is programmed once more, but not erased.
VerifyBad ==
  /\ ~Matches
  /\ retries' = retries + 1
  /\ pc' = IF retries' > Retries THEN "failed" ELSE "pwait"
  /\ UNCHANGED i

Verify ==
  /\ pc = "verify" /\ sent
  /\ VerifyGood \/ VerifyBad
  /\ cmd' = NoCommand /\ sent' = FALSE
  /\ UNCHANGED <<chip, past>>

\* Killed between two system calls: what the chip has received stays there.
Kill ==
  /\ pc \notin {"idle", "done", "failed"}
  /\ pc' = "idle" /\ sent' = FALSE
  /\ \/ UNCHANGED cmd
     \/ cmd.op = "PP" /\ cmd' = [cmd EXCEPT !.data = "bad"]
  /\ UNCHANGED <<chip, loop, past>>

Tool == Probe \/ Send \/ SendData \/ Release \/ Poll \/ Verify
Next ==
  \/ Finish \/ FinishWeak \/ OtherRead \/ Run \/ Tool \/ PollGarbled \/ Kill

Spec == Init /\ [][Next]_vars

\* The chip gets ready, and a tool that is not killed goes on.
LiveSpec == Spec /\ WF_vars(Finish) /\ WF_vars(Tool)

-----------------------------------------------------------------------------
FlashTypeOK ==
  /\ mem \in [Pages -> Contents] /\ wel \in BOOLEAN
  /\ cmd \in CommandType /\ work \in CommandType
  /\ pc \in Places /\ sent \in BOOLEAN
  /\ i \in 0..Size /\ retries \in 0..(Retries + 1)
  /\ runs \in 0..MaxRuns /\ reads \in 0..MaxReads /\ weak \in 0..MaxWeak
  /\ calm \in BOOLEAN

\* "Success." is printed only when the image is in the flash, every page of
\* it, whatever an earlier run, another process or the chip has done
\* (litepcie_util.c:155-161, litepcie_flash.c:216-254).
SuccessMeansWritten == pc = "done" => \A p \in Image : mem[p] = "new"

\* Both, for one run: the types hold and "Success." is true
\* (litepcie_flash.c:169-256).
FlashInv == FlashTypeOK /\ SuccessMeansWritten

\* No page outside the image is erased or written, also by what a killed run
\* has left in the chip (litepcie_flash.c:192-201).  Needs an image that
\* begins at a sector.
OthersUntouched == \A p \in Pages \ Image : mem[p] = "orig"

\* A run that finds the chip at rest, with nobody else at it, fails only when
\* a page was left incomplete more than FLASH_RETRIES times
\* (litepcie_flash.c:236-247): whatever the flash held before, also after a
\* run that was killed.
CalmRunSucceeds == pc = "failed" => ~calm \/ weak > Retries

\* The same of every run nobody disturbs.  It fails when a killed run has left
\* an erase in the chip: the first erase of the next one is ignored.
RerunSucceeds == pc = "failed" => reads > 0 \/ weak > Retries

\* A run ends: no loop on the status and no sequence of retries goes on for
\* ever (litepcie_flash.c:198-200, 224-226, 232-248).
RunEnds == pc = "probe" ~> pc \in {"idle", "done", "failed"}
=============================================================================
