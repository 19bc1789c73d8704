-------------------------- MODULE PeripheralProofs ---------------------------
(***************************************************************************)
(* Theorems about FlashWrite and LiteUart, the two devices behind the card's *)
(* registers that carry data of their own.  Flash, for every geometry, every *)
(* image and every number of retries: types, that "Success." is true, and, *)
(* for an image that begins at a sector, that nothing else is touched and  *)
(* that an undisturbed run fails only when the flash does.  UART, for every *)
(* size of the rings: types, no character stranded while the timer is off, *)
(* order in both directions, and, when uart_close() and remove() find nothing *)
(* under way (~CloseInPoll, ~RemoveOpen), silence after them.              *)
(***************************************************************************)
EXTENDS FlashWrite, LiteUart, SequenceTheorems, TLAPS

-----------------------------------------------------------------------------
(* Flash: the pages of the image.                                          *)

LEMMA PageFacts ==
  /\ 0 \in Pages
  /\ \A j \in 0..(Size - 1) : Base + j \in Image /\ Base + j \in Pages
  /\ Image \subseteq Pages
  /\ \A p \in Image : p \in Int /\ p - Base \in 0..(Size - 1)
  /\ \A p \in Pages : p \in Nat
<1>1. Sectors * SectorPages \in Nat
  BY GeometryAssumption
<1>2. QED
  BY <1>1, GeometryAssumption DEF Pages, Image

\* The places of the loop, spelled out.
LEMMA PlaceFacts ==
  /\ \A p \in DOMAIN Then :
       \/ p = "wren0" /\ Op[p] = "WREN" /\ Then[p] = "ewren"
       \/ p = "ewren" /\ Op[p] = "WREN" /\ Then[p] = "erase"
       \/ p = "erase" /\ Op[p] = "SE" /\ Then[p] = "ewait"
       \/ p = "wrdi" /\ Op[p] = "WRDI" /\ Then[p] = "pwait"
       \/ p = "pwren" /\ Op[p] = "WREN" /\ Then[p] = "program"
       \/ p = "program" /\ Op[p] = "PP" /\ Then[p] = "pwrdi"
       \/ p = "pwrdi" /\ Op[p] = "WRDI" /\ Then[p] = "vwait"
  /\ \A p \in DOMAIN Op :
       p \in DOMAIN Then \/ (p = "verify" /\ Op[p] = "READ")
  /\ Places = {"wren0", "ewren", "erase", "ewait", "wrdi", "pwait", "pwren",
               "program", "pwrdi", "vwait", "verify",
               "idle", "probe", "done", "failed"}
  /\ {"ewait", "pwait", "vwait", "idle", "probe", "done", "failed"}
       \cap DOMAIN Op = {}
BY DEF Op, Then, Places, Waits

LEMMA CommandFacts ==
  /\ NoCommand \in CommandType
  /\ NoCommand.op = "none"
  /\ \A c \in CommandType : Appended(c) \in CommandType
  /\ \A op \in Ops, p \in Pages, data \in Data :
       /\ Command(op, p, data) \in CommandType
       /\ Command(op, p, data).op = op
       /\ Command(op, p, data).page = p
       /\ Command(op, p, data).data = data
  /\ \A c \in CommandType :
       /\ c.op \in Ops /\ c.page \in Pages /\ c.data \in Data
       /\ \A d \in Data : /\ [c EXCEPT !.data = d] \in CommandType
                         /\ [c EXCEPT !.data = d].op = c.op
                         /\ [c EXCEPT !.data = d].page = c.page
                         /\ [c EXCEPT !.data = d].data = d
BY PageFacts DEF CommandType, NoCommand, Command, Appended, Ops, Data

-----------------------------------------------------------------------------
(* Types.                                                                  *)

\* A run that has not ended is at a page of the image.
Bounded == pc \notin {"idle", "done", "failed"} => i < Size /\ retries <= Retries

TypeInv == FlashTypeOK /\ Bounded

LEMMA AddressType ==
  ASSUME TypeInv, pc \notin {"idle", "done", "failed"}
  PROVE  Address \in Image /\ Address \in Pages
<1>1. i \in 0..(Size - 1)
  BY GeometryAssumption DEF TypeInv, FlashTypeOK, Bounded
<1>2. QED
  BY <1>1, PageFacts DEF Address

LEMMA DeselectType ==
  ASSUME TypeInv, NEW c \in CommandType, Deselect(c)
  PROVE  /\ mem' \in [Pages -> Contents] /\ wel' \in BOOLEAN
         /\ cmd' \in CommandType /\ work' \in CommandType
BY CommandFacts DEF TypeInv, FlashTypeOK, Deselect

LEMMA TypeInit == Init => TypeInv
<1> SUFFICES ASSUME Init PROVE TypeInv
  OBVIOUS
<1>1. mem \in [Pages -> Contents] /\ pc \in Places
  BY PlaceFacts DEF Init, Contents
<1>2. wel \in BOOLEAN /\ sent \in BOOLEAN /\ calm \in BOOLEAN
  BY DEF Init
<1>3. i \in 0..Size /\ retries \in 0..(Retries + 1) /\ i < Size /\ retries <= Retries
  BY GeometryAssumption, BoundsAssumption DEF Init
<1>4. runs \in 0..MaxRuns /\ reads \in 0..MaxReads /\ weak \in 0..MaxWeak
  BY BoundsAssumption DEF Init
<1>5. cmd \in CommandType /\ work \in CommandType
  BY CommandFacts DEF Init
<1>6. QED
  BY <1>1, <1>2, <1>3, <1>4, <1>5 DEF TypeInv, FlashTypeOK, Bounded

LEMMA TypeStep == TypeInv /\ [Next]_vars => TypeInv'
<1> SUFFICES ASSUME TypeInv, [Next]_vars
    PROVE  TypeInv'
  OBVIOUS
<1> USE DEF TypeInv, FlashTypeOK, Bounded
<1>0. /\ mem \in [Pages -> Contents] /\ wel \in BOOLEAN
      /\ cmd \in CommandType /\ work \in CommandType
      /\ i \in Nat /\ retries \in Nat /\ i <= Size /\ retries <= Retries + 1
      /\ Size \in Nat \ {0} /\ Retries \in Nat /\ SectorPages \in Nat \ {0}
  BY GeometryAssumption, BoundsAssumption
<1>1. CASE Finish
  <2>1. mem' \in [Pages -> Contents]
    BY <1>1, <1>0 DEF Finish, Contents, Programmed
  <2>2. QED
    BY <1>1, <2>1, CommandFacts DEF Finish, loop, past
<1>2. CASE FinishWeak
  <2>1. mem' \in [Pages -> Contents]
    BY <1>2, <1>0 DEF FinishWeak, Contents
  <2>2. weak' \in 0..MaxWeak
    BY <1>2, BoundsAssumption DEF FinishWeak
  <2>3. QED
    BY <1>2, <2>1, <2>2, CommandFacts DEF FinishWeak, loop
<1>3. CASE OtherRead
  <2>1. reads' \in 0..MaxReads
    BY <1>3, BoundsAssumption DEF OtherRead
  <2>2. QED
    BY <1>3, <1>0, <2>1, CommandFacts, DeselectType
    DEF OtherRead, loop
<1>4. CASE Run
  <2>1. mem' \in [Pages -> Contents]
    BY <1>4, <1>0 DEF Run, Contents, Stale
  <2>2. cmd' \in CommandType /\ work' \in CommandType
    <3>1. ASSUME NEW c \in CommandType
          PROVE  [c EXCEPT !.data = IF @ = "new" THEN "bad" ELSE @]
                   \in CommandType
      BY DEF CommandType, Data
    <3>2. QED
      BY <1>4, <1>0, <3>1 DEF Run
  <2>3. runs' \in 0..MaxRuns /\ weak' \in 0..MaxWeak
    BY <1>4, BoundsAssumption DEF Run
  <2>4. calm' \in BOOLEAN /\ sent' \in BOOLEAN /\ wel' \in BOOLEAN
    BY <1>4 DEF Run
  <2>5. /\ pc' \in Places /\ reads' \in 0..MaxReads
        /\ i' \in 0..(Size - 1) /\ retries' \in 0..Retries
    BY <1>0, <1>4, PlaceFacts DEF Run
  <2>6. QED
    BY <1>0, <2>1, <2>2, <2>3, <2>4, <2>5
<1>5. CASE Probe
  BY <1>5, <1>0, DeselectType, PlaceFacts DEF Probe, loop, past
<1>6. CASE Send
  <2>1. Op[pc] \in Ops /\ pc \notin {"idle", "done", "failed"}
    BY <1>6, PlaceFacts DEF Send, Ops
  <2>2. cmd' \in CommandType
    BY <1>6, <2>1, AddressType, CommandFacts DEF Send, Transfer, Data
  <2>3. QED
    BY <1>6, <2>2 DEF Send, chip, loop, past
<1>7. CASE SendData
  BY <1>7, <1>0, CommandFacts DEF SendData, chip, loop, past, Data
<1>8. CASE Release
  <2>1. Then[pc] \in Places /\ pc \notin {"idle", "done", "failed"}
    BY <1>8, PlaceFacts DEF Release
  <2>2. QED
    BY <1>8, <1>0, <2>1, DeselectType DEF Release, loop, past
<1>9. ASSUME Proceed, reads' \in 0..MaxReads, calm' \in BOOLEAN
      PROVE  TypeInv'
  <2>1. pc' \in {"ewren", "wrdi", "pwren", "verify"} /\ i' \in Nat /\ i' < Size
    BY <1>9, <1>0 DEF Proceed
  <2>2. pc' \in Places /\ i' \in 0..Size /\ retries' <= Retries
    BY <1>9, <1>0, <2>1, PlaceFacts DEF Proceed
  <2>3. QED
    BY <1>9, <1>0, <2>1, <2>2 DEF Proceed, chip
<1>10. CASE Poll
  BY <1>10, <1>9 DEF Poll
<1>11. CASE PollGarbled
  <2>1. Proceed
    BY <1>11 DEF PollGarbled
  <2>2. reads' \in 0..MaxReads
    BY <1>11, BoundsAssumption DEF PollGarbled
  <2>3. calm' \in BOOLEAN
    BY <1>11 DEF PollGarbled
  <2>4. QED
    BY <2>1, <2>2, <2>3, <1>9
<1>12. CASE Verify
  <2>1. /\ pc' \in {"pwait", "done", "failed"}
        /\ i' \in 0..Size /\ retries' \in 0..(Retries + 1)
        /\ pc' = "pwait" => i' < Size /\ retries' <= Retries
    BY <1>12, <1>0 DEF Verify, VerifyGood, VerifyBad
  <2>2. QED
    BY <1>12, <1>0, <2>1, CommandFacts, PlaceFacts
    DEF Verify, chip, past
<1>13. CASE Kill
  <2>1. [cmd EXCEPT !.data = "bad"] \in CommandType
    BY <1>0, CommandFacts DEF Data
  <2>2. QED
    BY <1>13, <1>0, <2>1, PlaceFacts DEF Kill, chip, loop, past
<1>14. CASE UNCHANGED vars
  BY <1>14 DEF vars, chip, loop, past
<1>15. QED
  BY <1>1, <1>2, <1>3, <1>4, <1>5, <1>6, <1>7, <1>8, <1>10, <1>11, <1>12,
     <1>13, <1>14 DEF Next, Tool

\* The variables have their types, and a run that goes on is at a page of its
\* image (litepcie_flash.c:192-248).
THEOREM FlashTypeCorrect == Spec => []FlashTypeOK
<1>1. Spec => []TypeInv
  BY TypeInit, TypeStep, PTL DEF Spec
<1>2. TypeInv => FlashTypeOK
  BY DEF TypeInv
<1>3. QED
  BY <1>1, <1>2, PTL

-----------------------------------------------------------------------------
(* "Success." is true.                                                     *)

Programming == {"wrdi", "pwait", "pwren", "program", "pwrdi", "vwait",
                "verify", "done"}

\* Nothing in the chip can spoil a page before the one in hand.
Harmless(c) == c.op # "SE" /\ (c.op = "PP" => c.page >= Base + i)

FilledSoFar == \A p \in Image : p < Base + i => mem[p] = "new"
WrittenInv ==
  /\ pc \in Programming => FilledSoFar
  /\ pc \in Programming /\ i > 0 => Harmless(cmd) /\ Harmless(work)
  /\ pc = "verify" /\ sent /\ cmd.op = "READ" => Ready
  /\ pc = "vwait" => ~sent
  /\ pc = "done" => i = Size

LEMMA WrittenStep == TypeInv /\ WrittenInv /\ [Next]_vars => WrittenInv'
<1> SUFFICES ASSUME TypeInv, WrittenInv, [Next]_vars
    PROVE  WrittenInv'
  OBVIOUS
<1>0. /\ mem \in [Pages -> Contents]
      /\ cmd \in CommandType /\ work \in CommandType
      /\ i \in Nat /\ Base \in Nat /\ Size \in Nat \ {0} /\ i <= Size
      /\ \A p \in Image : p \in Int /\ p \in Pages /\ p >= Base /\ p < Base + Size
      /\ \A p \in Pages : p \in Int
      /\ NoCommand.op = "none"
  BY GeometryAssumption, PageFacts, CommandFacts DEF TypeInv, FlashTypeOK
<1>1. CASE Finish
  <2>1. ASSUME pc \in Programming, NEW p \in Image, p < Base + i
        PROVE  mem'[p] = "new"
    <3>1. mem[p] = "new" /\ i > 0
      BY <2>1, <1>0 DEF WrittenInv, FilledSoFar
    <3>2. work.op # "SE" /\ (work.op = "PP" => p # work.page)
      BY <2>1, <3>1, <1>0 DEF WrittenInv, Harmless
    <3>3. QED
      BY <1>1, <1>0, <3>1, <3>2 DEF Finish
  <2>2. QED
    BY <1>1, <1>0, <2>1
    DEF Finish, WrittenInv, FilledSoFar, Harmless, Ready, loop
<1>2. CASE FinishWeak
  <2>1. ASSUME pc \in Programming, NEW p \in Image, p < Base + i
        PROVE  mem'[p] = "new"
    <3>1. mem[p] = "new" /\ work.op = "PP" /\ mem[work.page] # "new"
      BY <1>2, <2>1, <1>0 DEF WrittenInv, FilledSoFar, FinishWeak
    <3>2. QED
      BY <1>2, <1>0, <3>1 DEF FinishWeak
  <2>2. QED
    BY <1>2, <1>0, <2>1
    DEF FinishWeak, WrittenInv, FilledSoFar, Harmless, Ready, loop
<1>3. CASE OtherRead
  <2>1. Appended(cmd).page = cmd.page /\ Appended(cmd).op # "SE"
        /\ (Appended(cmd).op = "PP" => cmd.op = "PP")
    BY <1>0 DEF Appended, CommandType
  <2>2. QED
    BY <1>3, <1>0, <2>1
    DEF OtherRead, Deselect, WrittenInv, FilledSoFar, Harmless, loop
<1>4. CASE Run
  BY <1>4 DEF Run, WrittenInv, Programming
<1>5. CASE Probe
  BY <1>5 DEF Probe, WrittenInv, Programming
<1>6. CASE Send
  <2>1. /\ pc \in Programming => Op[pc] # "SE"
        /\ pc # "vwait" /\ pc # "done" /\ pc' = pc
        /\ UNCHANGED <<mem, i, work>>
    BY <1>6, PlaceFacts DEF Send, Programming, chip, loop
  <2>2. cmd'.op # "none" => Ready /\ cmd'.op = Op[pc] /\ cmd'.page = Base + i
    BY <1>6, <1>0 DEF Send, Transfer, Command, Address
  <2>3. QED
    BY <1>0, <2>1, <2>2
    DEF WrittenInv, FilledSoFar, Harmless, Ready
<1>7. CASE SendData
  <2>1. cmd'.op = cmd.op /\ cmd'.page = cmd.page
    BY <1>7, <1>0 DEF SendData, CommandType
  <2>2. QED
    BY <1>7, <1>0, <2>1
    DEF SendData, WrittenInv, FilledSoFar, Harmless, Ready, chip, loop
<1>8. CASE Release
  <2>1. pc' \in Programming => pc \in Programming
    BY <1>8, PlaceFacts DEF Release, Programming
  <2>2. pc' # "verify" /\ pc' # "done"
    BY <1>8, PlaceFacts DEF Release
  <2>3. QED
    BY <1>8, <1>0, <2>1, <2>2
    DEF Release, Deselect, WrittenInv, FilledSoFar, Harmless, loop
<1>9. ASSUME Proceed PROVE WrittenInv'
  <2>1. UNCHANGED <<mem, cmd, work, sent>>
    BY <1>9 DEF Proceed, chip
  <2>2. CASE pc = "ewait"
    BY <1>9, <1>0, <2>1, <2>2
    DEF Proceed, WrittenInv, FilledSoFar, Programming
  <2>3. CASE pc = "pwait"
    BY <1>9, <1>0, <2>1, <2>3
    DEF Proceed, WrittenInv, FilledSoFar, Harmless, Programming
  <2>4. CASE pc = "vwait"
    BY <1>9, <1>0, <2>1, <2>4
    DEF Proceed, WrittenInv, FilledSoFar, Harmless, Programming
  <2>5. QED
    BY <1>9, <2>2, <2>3, <2>4 DEF Proceed
<1>10. CASE Poll \/ PollGarbled
  BY <1>10, <1>9 DEF Poll, PollGarbled
<1>11. CASE Verify
  <2>1. CASE VerifyGood
    <3>1. cmd.op = "READ" /\ mem[Base + i] = "new" /\ work = NoCommand
      BY <1>11, <2>1 DEF Verify, VerifyGood, Matches, Address, WrittenInv, Ready
    <3>2. \A p \in Image : p < Base + i' => mem[p] = "new"
      BY <1>11, <2>1, <1>0, <3>1
      DEF Verify, VerifyGood, WrittenInv, FilledSoFar, Programming
    <3>3. pc' = "done" => i' = Size
      <4>1. i < Size
        BY <1>11 DEF TypeInv, Bounded, Verify
      <4>2. QED
        BY <2>1, <1>0, <4>1 DEF VerifyGood
    <3>4. QED
      BY <1>11, <2>1, <1>0, <3>1, <3>2, <3>3
      DEF Verify, VerifyGood, WrittenInv, FilledSoFar, Harmless, chip
  <2>2. CASE VerifyBad
    BY <1>11, <2>2, <1>0
    DEF Verify, VerifyBad, WrittenInv, FilledSoFar, Harmless, Programming, chip
  <2>3. QED
    BY <1>11, <2>1, <2>2 DEF Verify
<1>12. CASE Kill
  BY <1>12 DEF Kill, WrittenInv, Programming
<1>13. CASE UNCHANGED vars
  BY <1>13 DEF vars, chip, loop, past, WrittenInv, FilledSoFar, Harmless, Ready
<1>14. QED
  BY <1>1, <1>2, <1>3, <1>4, <1>5, <1>6, <1>7, <1>8, <1>10, <1>11, <1>12, <1>13
  DEF Next, Tool

\* "Success." is printed only when every page of the image is in the flash,
\* whatever killed runs and other processes have done
\* (litepcie_util.c:155-161, litepcie_flash.c:216-254).
THEOREM FlashInvariance == Spec => []FlashInv
<1>1. Init => WrittenInv
  BY DEF Init, WrittenInv, Programming
<1>2. Spec => [](TypeInv /\ WrittenInv)
  BY <1>1, TypeInit, TypeStep, WrittenStep, PTL DEF Spec
<1>3. TypeInv /\ WrittenInv => FlashInv
  BY PageFacts, GeometryAssumption
  DEF TypeInv, FlashTypeOK, WrittenInv, FilledSoFar, Programming,
      SuccessMeansWritten, FlashInv
<1>4. QED
  BY <1>2, <1>3, PTL

-----------------------------------------------------------------------------
(* Nothing outside the image is touched.                                   *)

\* The image begins at a sector, as the tool is told to.
Aligned == Base % SectorPages = 0

LEMMA DivMod ==
  ASSUME NEW M \in Nat \ {0}, NEW x \in Nat
  PROVE  x = M * (x \div M) + (x % M) /\ x % M \in 0..(M-1) /\ x \div M \in Nat
  OBVIOUS

LEMMA DivUnique ==
  ASSUME NEW M \in Nat \ {0}, NEW q \in Nat, NEW r \in 0..(M-1)
  PROVE  (M*q + r) % M = r /\ (M*q + r) \div M = q
<1> DEFINE x == M*q + r
<1>1. x \in Nat
  OBVIOUS
<1>2. x = M * (x \div M) + (x % M) /\ x % M \in 0..(M-1) /\ x \div M \in Nat
  BY <1>1
<1>3. QED
  BY <1>2

\* Offsets of sectors are the multiples of SectorPages.
Multiple(x) == \E k \in Nat : x = SectorPages * k

LEMMA MultipleFacts ==
  /\ Multiple(0)
  /\ \A x \in Nat : x % SectorPages = 0 <=> Multiple(x)
  /\ \A x, y \in Nat : Multiple(x) /\ Multiple(y) => Multiple(x + y)
  /\ \A x, y \in Nat : Multiple(x) /\ Multiple(y) /\ x < y => x + SectorPages <= y
  /\ Multiple(SectorPages)
<1>0. SectorPages \in Nat \ {0}
  BY GeometryAssumption
<1>1. Multiple(0) /\ Multiple(SectorPages)
  <2>1. 0 = SectorPages * 0 /\ SectorPages = SectorPages * 1
    BY <1>0
  <2>2. QED
    BY <2>1 DEF Multiple
<1>2. ASSUME NEW x \in Nat PROVE x % SectorPages = 0 <=> Multiple(x)
  <2>1. ASSUME x % SectorPages = 0 PROVE Multiple(x)
    <3>1. x = SectorPages * (x \div SectorPages) + 0 /\ x \div SectorPages \in Nat
      BY <1>0, <2>1, DivMod
    <3>2. x = SectorPages * (x \div SectorPages)
      BY <1>0, <3>1
    <3>3. QED
      BY <3>1, <3>2 DEF Multiple
  <2>2. ASSUME Multiple(x) PROVE x % SectorPages = 0
    <3>1. PICK k \in Nat : x = SectorPages * k + 0
      BY <1>0, <2>2 DEF Multiple
    <3>2. QED
      BY <1>0, <3>1, DivUnique
  <2>3. QED
    BY <2>1, <2>2
<1>3. ASSUME NEW x \in Nat, NEW y \in Nat, Multiple(x), Multiple(y)
      PROVE  Multiple(x + y) /\ (x < y => x + SectorPages <= y)
  <2>1. PICK k \in Nat : x = SectorPages * k
    BY <1>3 DEF Multiple
  <2>2. PICK l \in Nat : y = SectorPages * l
    BY <1>3 DEF Multiple
  <2>3. x + y = SectorPages * (k + l)
    BY <1>0, <2>1, <2>2
  <2>4. ASSUME x < y PROVE x + SectorPages <= y
    <3>1. k < l
      <4>1. l <= k => SectorPages * l <= SectorPages * k
        BY <1>0
      <4>2. QED
        BY <1>0, <2>1, <2>2, <2>4, <4>1
    <3>2. SectorPages * (k + 1) <= SectorPages * l
      BY <1>0, <3>1
    <3>3. SectorPages * (k + 1) = SectorPages * k + SectorPages
      BY <1>0
    <3>4. QED
      BY <2>1, <2>2, <3>2, <3>3
  <2>5. QED
    BY <2>3, <2>4 DEF Multiple
<1>4. QED
  BY <1>1, <1>2, <1>3

\* The sector erased at an offset of the loop lies within the image.
LEMMA SectorAt ==
  ASSUME Aligned, NEW j \in 0..(Size - 1), Multiple(j)
  PROVE  /\ j + SectorPages <= Size
         /\ Sector(Base + j) = (Base + j)..(Base + j + SectorPages - 1)
         /\ Sector(Base + j) \subseteq Image
<1>0. SectorPages \in Nat \ {0} /\ Base \in Nat /\ Size \in Nat \ {0} /\ j \in Nat
  BY GeometryAssumption
<1>1. j + SectorPages <= Size
  <2>1. Multiple(Size)
    BY <1>0, MultipleFacts, GeometryAssumption
  <2>2. QED
    BY <1>0, <2>1, MultipleFacts
<1>2. PICK k \in Nat : Base + j = SectorPages * k
  <2>1. Multiple(Base)
    BY <1>0, MultipleFacts DEF Aligned
  <2>2. Multiple(Base + j)
    BY <1>0, <2>1, MultipleFacts
  <2>3. QED
    BY <2>2 DEF Multiple
<1>3. (Base + j) \div SectorPages = k
  <2>1. (SectorPages * k + 0) \div SectorPages = k
    BY <1>0, DivUnique
  <2>2. QED
    BY <1>0, <1>2, <2>1
<1>4. ASSUME NEW q \in Nat
      PROVE  q \div SectorPages = k
               <=> q \in (Base + j)..(Base + j + SectorPages - 1)
  <2>1. ASSUME q \div SectorPages = k
        PROVE  q \in (Base + j)..(Base + j + SectorPages - 1)
    <3>1. q = SectorPages * k + (q % SectorPages) /\ q % SectorPages \in 0..(SectorPages - 1)
      BY <1>0, <2>1, DivMod
    <3>2. QED
      BY <1>0, <1>2, <3>1
  <2>2. ASSUME q \in (Base + j)..(Base + j + SectorPages - 1)
        PROVE  q \div SectorPages = k
    <3>1. q - (Base + j) \in 0..(SectorPages - 1)
      BY <1>0, <2>2
    <3>2. q = SectorPages * k + (q - (Base + j))
      BY <1>0, <1>2
    <3>3. (SectorPages * k + (q - (Base + j))) \div SectorPages = k
      BY <1>0, <3>1, DivUnique
    <3>4. QED
      BY <3>2, <3>3
  <2>3. QED
    BY <2>1, <2>2
<1>5. (Base + j)..(Base + j + SectorPages - 1) \subseteq Image
  BY <1>0, <1>1 DEF Image
<1>6. Sector(Base + j) = (Base + j)..(Base + j + SectorPages - 1)
  BY <1>0, <1>3, <1>4, <1>5, PageFacts DEF Sector
<1>7. QED
  BY <1>1, <1>5, <1>6

Within(c) == /\ c.op = "SE" => c.page \in Pages /\ Sector(c.page) \subseteq Image
             /\ c.op = "PP" => c.page \in Image

Erasing == {"probe", "wren0", "ewren", "erase", "ewait"}

UntouchedInv ==
  /\ OthersUntouched
  /\ Within(cmd) /\ Within(work)
  /\ pc \in Erasing => Multiple(i)

LEMMA UntouchedStep ==
  Aligned /\ TypeInv /\ UntouchedInv /\ [Next]_vars => UntouchedInv'
<1> SUFFICES ASSUME Aligned, TypeInv, UntouchedInv, [Next]_vars
    PROVE  UntouchedInv'
  OBVIOUS
<1>0. /\ mem \in [Pages -> Contents] /\ Image \subseteq Pages
      /\ cmd \in CommandType /\ work \in CommandType
      /\ NoCommand.op = "none" /\ i \in Nat /\ SectorPages \in Nat
      /\ \A p \in Pages : p \in Sector(p)
  BY GeometryAssumption, PageFacts, CommandFacts
  DEF TypeInv, FlashTypeOK, Sector
<1>1. CASE Finish
  <2>1. ASSUME NEW p \in Pages \ Image PROVE mem'[p] = "orig"
    BY <1>0, <1>1, <2>1 DEF Finish, UntouchedInv, OthersUntouched, Within
  <2>2. QED
    BY <1>0, <1>1, <2>1 DEF Finish, UntouchedInv, OthersUntouched, Within, loop
<1>2. CASE FinishWeak
  BY <1>0, <1>2 DEF FinishWeak, UntouchedInv, OthersUntouched, Within, loop
<1>3. CASE OtherRead
  <2>1. Appended(cmd).page = cmd.page /\ Appended(cmd).op # "SE"
        /\ (Appended(cmd).op = "PP" => cmd.op = "PP")
    BY <1>0 DEF Appended, CommandType
  <2>2. QED
    BY <1>0, <1>3, <2>1
    DEF OtherRead, Deselect, UntouchedInv, OthersUntouched, Within, loop
<1>4. CASE Run
  <2>1. cmd'.op = cmd.op /\ cmd'.page = cmd.page
        /\ work'.op = work.op /\ work'.page = work.page
    BY <1>0, <1>4 DEF Run, CommandType
  <2>2. \A p \in Pages : mem[p] = "orig" => mem'[p] = "orig"
    BY <1>0, <1>4 DEF Run, Stale
  <2>3. i' = 0
    BY <1>4 DEF Run
  <2>4. QED
    BY <1>0, <2>1, <2>2, <2>3, MultipleFacts
    DEF UntouchedInv, OthersUntouched, Within
<1>5. CASE Probe
  BY <1>0, <1>5
  DEF Probe, Deselect, UntouchedInv, OthersUntouched, Within, Erasing, loop
<1>6. CASE Send
  <2>1. Op[pc] = "SE" => pc = "erase"
    BY <1>6, PlaceFacts DEF Send
  <2>2. Address \in Image
    BY <1>6, AddressType, PlaceFacts DEF Send
  <2>3. pc = "erase" => Sector(Address) \subseteq Image
    <3>1. pc = "erase" => i \in 0..(Size - 1) /\ Multiple(i)
      BY GeometryAssumption
      DEF TypeInv, FlashTypeOK, Bounded, UntouchedInv, Erasing
    <3>2. QED
      BY <3>1, SectorAt DEF Address
  <2>4. cmd'.op # "none" => cmd'.op = Op[pc] /\ cmd'.page = Address
    BY <1>6, <1>0 DEF Send, Transfer, Command
  <2>5. UNCHANGED <<mem, work, pc, i>>
    BY <1>6 DEF Send, chip, loop
  <2>6. QED
    BY <1>0, <2>1, <2>2, <2>3, <2>4, <2>5
    DEF UntouchedInv, OthersUntouched, Within
<1>7. CASE SendData
  <2>1. cmd'.op = cmd.op /\ cmd'.page = cmd.page
    BY <1>7, <1>0 DEF SendData, CommandType
  <2>2. QED
    BY <1>7, <2>1
    DEF SendData, UntouchedInv, OthersUntouched, Within, chip, loop
<1>8. CASE Release
  <2>1. pc' \in Erasing => pc \in Erasing
    BY <1>8, PlaceFacts DEF Release, Erasing
  <2>2. QED
    BY <1>0, <1>8, <2>1
    DEF Release, Deselect, UntouchedInv, OthersUntouched, Within, loop
<1>9. ASSUME Proceed PROVE UntouchedInv'
  <2>1. UNCHANGED <<mem, cmd, work>>
    BY <1>9 DEF Proceed, chip
  <2>2. pc' \in Erasing => Multiple(i')
    BY <1>0, <1>9, MultipleFacts DEF Proceed, UntouchedInv, Erasing
  <2>3. QED
    BY <2>1, <2>2 DEF UntouchedInv, OthersUntouched, Within
<1>10. CASE Poll \/ PollGarbled
  BY <1>10, <1>9 DEF Poll, PollGarbled
<1>11. CASE Verify
  <2>1. pc' \notin Erasing
    BY <1>11 DEF Verify, VerifyGood, VerifyBad, Erasing
  <2>2. QED
    BY <1>0, <1>11, <2>1
    DEF Verify, UntouchedInv, OthersUntouched, Within, chip
<1>12. CASE Kill
  <2>1. cmd'.op = cmd.op /\ cmd'.page = cmd.page
    BY <1>0, <1>12 DEF Kill, CommandType
  <2>2. pc' \notin Erasing /\ UNCHANGED <<mem, work>>
    BY <1>12 DEF Kill, Erasing, chip
  <2>3. QED
    BY <2>1, <2>2 DEF UntouchedInv, OthersUntouched, Within
<1>13. CASE UNCHANGED vars
  BY <1>13 DEF vars, chip, loop, UntouchedInv, OthersUntouched, Within
<1>14. QED
  BY <1>1, <1>2, <1>3, <1>4, <1>5, <1>6, <1>7, <1>8, <1>10, <1>11, <1>12, <1>13
  DEF Next, Tool

\* No page outside an image that begins at a sector is erased or written, also
\* not by what a killed run has left in the chip (litepcie_flash.c:192-201).
THEOREM FlashOthersUntouched == Aligned => (Spec => []OthersUntouched)
<1> SUFFICES ASSUME Aligned PROVE Spec => []OthersUntouched
  OBVIOUS
<1>1. Init => UntouchedInv
  BY CommandFacts
  DEF Init, UntouchedInv, OthersUntouched, Within, Erasing
<1>2. UntouchedInv => OthersUntouched
  BY DEF UntouchedInv
<1>3. TypeInv /\ UntouchedInv /\ [Next]_vars => UntouchedInv'
  BY UntouchedStep
<1>4. QED
  BY <1>1, <1>2, <1>3, TypeInit, TypeStep, PTL DEF Spec

-----------------------------------------------------------------------------
(* An undisturbed run fails only when the chip does.                       *)

\* What the chip has been told, at each place of an undisturbed run.
Told ==
  /\ ~sent => cmd = NoCommand
  /\ pc \in {"probe", "ewait", "pwait", "vwait"} => ~sent
  /\ sent /\ pc \in {"wren0", "ewren", "pwren"} => cmd.op = "WREN"
  /\ sent /\ pc = "erase" => cmd.op = "SE" /\ cmd.page = Address
  /\ sent /\ pc = "program" =>
       cmd.op = "PP" /\ cmd.page = Address /\ cmd.data \in {"none", "new"}
  /\ sent /\ pc \in {"wrdi", "pwrdi"} => cmd.op \in {"none", "WRDI"}
  /\ sent /\ pc = "verify" => cmd.op = "READ"
  /\ pc \in {"erase", "program"} => wel

\* The image is erased up to an offset, or beyond one.
ErasedBelow(x) == \A p \in Image : p < Base + x => mem[p] = "erased"
ErasedAbove(x) == \A p \in Image : p > Base + x => mem[p] = "erased"

\* The page in hand has been programmed, and may have to be once more.
Tried == mem[Address] = "new" \/ (mem[Address] = "part" /\ retries < weak)

CalmErasing ==
  /\ pc \in Erasing => Multiple(i) /\ ErasedBelow(i)
  /\ pc \in {"probe", "wren0", "ewren", "erase"} => Ready
  /\ pc = "ewait" => \/ work.op = "SE" /\ work.page = Address
                     \/ Ready /\ ErasedBelow(i + SectorPages)
  /\ pc \in {"probe", "wren0"} => i = 0

CalmProgramming ==
  /\ pc = "wrdi" => i = 0 /\ retries = 0
  /\ pc \in Programming \ {"done"} =>
       ErasedAbove(i) /\ mem[Address] \in {"erased", "part", "new"}
  /\ pc \in {"wrdi", "pwait", "pwren", "program", "verify"} => Ready
  /\ pc \in {"pwrdi", "vwait"} =>
       \/ work.op = "PP" /\ work.page = Address /\ work.data = "new"
       \/ Ready /\ Tried
  /\ pc = "verify" => Tried

CalmInv ==
  calm => /\ pc = "failed" => weak > Retries
          /\ pc \notin {"idle", "done", "failed"} =>
               Told /\ CalmErasing /\ CalmProgramming /\ retries <= weak
          /\ pc \in Erasing => retries = 0

LEMMA CalmStep == Aligned /\ TypeInv /\ CalmInv /\ [Next]_vars => CalmInv'
<1> SUFFICES ASSUME Aligned, TypeInv, CalmInv, [Next]_vars, calm'
    PROVE  CalmInv'
  BY DEF CalmInv
<1> DEFINE Going == pc \notin {"idle", "done", "failed"}
<1> USE DEF Erasing, Programming
<1>0. /\ mem \in [Pages -> Contents] /\ Image \subseteq Pages
      /\ \A p \in Image : p \in Int /\ p >= Base /\ p < Base + Size
      /\ \A p \in Pages : p \in Int
      /\ cmd \in CommandType /\ work \in CommandType
      /\ NoCommand.op = "none"
      /\ i \in Nat /\ SectorPages \in Nat /\ Base \in Nat /\ Size \in Nat \ {0}
      /\ retries \in Nat /\ weak \in Nat /\ Retries \in Nat
  BY GeometryAssumption, BoundsAssumption, PageFacts, CommandFacts
  DEF TypeInv, FlashTypeOK
<1>1. Going => /\ Address \in Image /\ Address \in Pages /\ Address = Base + i
               /\ i < Size /\ retries <= Retries
  BY AddressType DEF TypeInv, Bounded, Address
<1>2. CASE Finish
  <2>1. calm /\ UNCHANGED <<pc, cmd, sent, i, retries, weak>> /\ Ready'
    BY <1>2 DEF Finish, loop, past, Ready
  <2>2. CASE Going /\ pc = "ewait"
    <3>1. work.op = "SE" /\ work.page = Address /\ Multiple(i) /\ ErasedBelow(i)
      BY <1>2, <2>1, <2>2, <1>0 DEF CalmInv, CalmErasing, Finish
    <3>2. Sector(Address) = Address..(Address + SectorPages - 1)
      BY <1>0, <1>1, <2>2, <3>1, SectorAt DEF Address
    <3>3. \A p \in Image : p < Base + i + SectorPages => mem'[p] = "erased"
      BY <1>0, <1>1, <1>2, <2>2, <3>1, <3>2 DEF Finish, ErasedBelow
    <3>4. ErasedBelow(i)' /\ ErasedBelow(i + SectorPages)'
      BY <1>0, <2>1, <3>3 DEF ErasedBelow
    <3>5. QED
      BY <2>1, <2>2, <3>1, <3>4
      DEF CalmInv, CalmErasing, CalmProgramming, Told, Multiple
  <2>3. CASE Going /\ pc \in {"pwrdi", "vwait"}
    <3>1. /\ work.op = "PP" /\ work.page = Address /\ work.data = "new"
          /\ mem[Address] \in {"erased", "part", "new"} /\ ErasedAbove(i)
      BY <1>2, <2>1, <2>3, <1>0 DEF CalmInv, CalmProgramming, Finish
    <3>2. mem'[Address] = "new" /\ \A p \in Pages \ {Address} : mem'[p] = mem[p]
      BY <1>0, <1>1, <1>2, <2>3, <3>1 DEF Finish, Programmed
    <3>3. ErasedAbove(i)' /\ Tried' /\ mem'[Address'] = "new"
      BY <1>0, <1>1, <2>1, <2>3, <3>1, <3>2 DEF ErasedAbove, Tried, Address
    <3>4. QED
      BY <2>1, <2>3, <3>3
      DEF CalmInv, CalmErasing, CalmProgramming, Told, Address
  <2>4. CASE ~Going
    BY <2>1, <2>4 DEF CalmInv
  <2>5. QED
    BY <1>2, <2>1, <2>2, <2>3, <2>4, PlaceFacts
    DEF CalmInv, CalmErasing, CalmProgramming, Finish, TypeInv, FlashTypeOK
<1>3. CASE FinishWeak
  <2>1. calm /\ UNCHANGED <<pc, cmd, sent, i, retries>> /\ Ready'
        /\ weak' = weak + 1 /\ work.op = "PP"
    BY <1>3 DEF FinishWeak, loop, Ready
  <2>2. CASE Going
    <3>1. /\ pc \in {"pwrdi", "vwait"}
          /\ work.page = Address /\ ErasedAbove(i) /\ retries <= weak
      BY <2>1, <2>2, <1>0, PlaceFacts
      DEF CalmInv, CalmErasing, CalmProgramming, Ready, TypeInv, FlashTypeOK
    <3>2. mem' = [mem EXCEPT ![Address] = "part"]
      BY <1>3, <3>1 DEF FinishWeak
    <3>3. ErasedAbove(i)' /\ Tried' /\ mem'[Address'] = "part"
      BY <1>0, <1>1, <2>1, <2>2, <3>1, <3>2 DEF ErasedAbove, Tried, Address
    <3>4. QED
      BY <1>0, <2>1, <2>2, <3>1, <3>3
      DEF CalmInv, CalmErasing, CalmProgramming, Told, Address
  <2>3. CASE ~Going
    BY <1>0, <2>1, <2>3 DEF CalmInv
  <2>4. QED
    BY <2>2, <2>3
<1>4. CASE OtherRead
  BY <1>4 DEF OtherRead
<1>5. CASE Run
  <2>1. /\ pc' = "probe" /\ ~sent' /\ i' = 0 /\ retries' = 0 /\ weak' = 0
        /\ Ready /\ cmd = NoCommand
    BY <1>5 DEF Run
  <2>2. cmd' = NoCommand /\ work' = NoCommand
    <3>1. [NoCommand EXCEPT !.data = IF @ = "new" THEN "bad" ELSE @] = NoCommand
      BY DEF NoCommand, Command
    <3>2. QED
      BY <1>5, <2>1, <3>1 DEF Run, Ready
  <2>3. QED
    BY <1>0, <2>1, <2>2, MultipleFacts
    DEF CalmInv, CalmErasing, CalmProgramming, Told, ErasedBelow, Ready, Multiple
<1>6. CASE Probe
  <2>1. /\ calm /\ pc = "probe" /\ pc' = "wren0" /\ cmd = NoCommand
        /\ UNCHANGED <<mem, work, sent, i, retries, weak>> /\ cmd' = NoCommand
        /\ ~sent
    BY <1>6, <1>0
    DEF Probe, Deselect, loop, past, CalmInv, Told, TypeInv, FlashTypeOK
  <2>2. QED
    BY <2>1
    DEF CalmInv, CalmErasing, CalmProgramming, Told, ErasedBelow, Ready, Multiple
<1>7. CASE Send
  <2>1. /\ calm /\ Going /\ sent' /\ cmd = NoCommand
        /\ UNCHANGED <<mem, wel, work, pc, i, retries, weak>>
    BY <1>7, PlaceFacts DEF Send, chip, loop, past, CalmInv, Told
  <2>2. cmd' = IF Ready THEN Command(Op[pc], Address, "none") ELSE NoCommand
    BY <1>7 DEF Send, Transfer
  <2>3. Told'
    <3>1. pc \notin {"pwrdi"} => Ready
      BY <1>7, <2>1, PlaceFacts
      DEF CalmInv, CalmErasing, CalmProgramming, Send
    <3>2. cmd'.op \in {"none", Op[pc]}
          /\ (Ready => cmd'.op = Op[pc] /\ cmd'.page = Address /\ cmd'.data = "none")
      BY <1>0, <2>2 DEF Command
    <3>3. QED
      BY <1>7, <2>1, <3>1, <3>2, PlaceFacts DEF Told, CalmInv, Send, Address
  <2>4. QED
    BY <2>1, <2>3
    DEF CalmInv, CalmErasing, CalmProgramming, ErasedBelow, ErasedAbove, Tried,
        Ready, Multiple, Address
<1>8. CASE SendData
  <2>1. /\ calm /\ Going /\ sent' /\ pc = "program" /\ sent
        /\ UNCHANGED <<mem, wel, work, pc, i, retries, weak>>
        /\ cmd'.op = cmd.op /\ cmd'.page = cmd.page /\ cmd'.data = "new"
    BY <1>0, <1>8 DEF SendData, chip, loop, past, CommandType
  <2>2. Told'
    BY <2>1 DEF Told, CalmInv, Address
  <2>3. QED
    BY <2>1, <2>2
    DEF CalmInv, CalmErasing, CalmProgramming, ErasedBelow, ErasedAbove, Tried,
        Ready, Multiple, Address
<1>9. CASE Release
  <2>1. /\ calm /\ Going /\ sent /\ ~sent' /\ cmd' = NoCommand
        /\ pc \in DOMAIN Then /\ pc' = Then[pc]
        /\ UNCHANGED <<mem, i, retries, weak>>
        /\ Told /\ CalmErasing /\ CalmProgramming /\ retries <= weak
    BY <1>9, PlaceFacts DEF Release, Deselect, loop, past, CalmInv
  <2>2. CASE pc \in {"wren0", "ewren", "pwren"}
    <3>1. cmd.op = "WREN" /\ wel' /\ work' = work
      BY <1>9, <2>1, <2>2 DEF Release, Deselect, Told
    <3>2. QED
      BY <2>1, <2>2, <3>1, PlaceFacts
      DEF CalmInv, Told, CalmErasing, CalmProgramming, ErasedBelow, ErasedAbove,
          Ready, Multiple, Address
  <2>3. CASE pc = "erase"
    <3>1. pc' = "ewait" /\ work' = cmd /\ cmd.op = "SE" /\ cmd.page = Address
      BY <1>9, <2>1, <2>3, PlaceFacts DEF Release, Deselect, Told
    <3>2. QED
      BY <2>1, <2>3, <3>1
      DEF CalmInv, Told, CalmErasing, CalmProgramming, ErasedBelow, Multiple,
          Address
  <2>4. CASE pc = "program"
    <3>1. /\ pc' = "pwrdi" /\ work' = cmd /\ cmd.op = "PP" /\ cmd.page = Address
          /\ cmd.data = "new"
      BY <1>9, <2>1, <2>4, PlaceFacts DEF Release, Deselect, Told
    <3>2. QED
      BY <2>1, <2>4, <3>1
      DEF CalmInv, Told, CalmErasing, CalmProgramming, ErasedAbove, Address
  <2>5. CASE pc \in {"wrdi", "pwrdi"}
    <3>1. work' = work /\ pc' \in {"pwait", "vwait"} /\ (pc = "wrdi" <=> pc' = "pwait")
      BY <1>9, <2>1, <2>5, PlaceFacts DEF Release, Deselect, Told
    <3>2. QED
      BY <2>1, <2>5, <3>1
      DEF CalmInv, Told, CalmErasing, CalmProgramming, ErasedAbove, Tried,
          Ready, Address
  <2>6. QED
    BY <2>1, <2>2, <2>3, <2>4, <2>5, PlaceFacts
<1>10. CASE Poll
  <2>1. /\ calm /\ Going /\ Ready /\ Ready' /\ ~sent /\ ~sent' /\ cmd' = NoCommand
        /\ UNCHANGED <<mem, wel, retries, weak>> /\ Proceed
        /\ Told /\ CalmErasing /\ CalmProgramming /\ retries <= weak
    BY <1>10, PlaceFacts DEF Poll, Proceed, chip, CalmInv, Told, Ready
  <2>2. CASE pc = "ewait" /\ i + SectorPages < Size
    <3>1. pc' = "ewren" /\ i' = i + SectorPages
      BY <1>0, <2>1, <2>2 DEF Proceed
    <3>2. Multiple(i') /\ ErasedBelow(i + SectorPages)
      BY <1>0, <2>1, <2>2, <3>1, MultipleFacts DEF CalmErasing, Ready
    <3>3. QED
      BY <2>1, <2>2, <3>1, <3>2
      DEF CalmInv, Told, CalmErasing, CalmProgramming, ErasedBelow, Multiple
  <2>3. CASE pc = "ewait" /\ ~(i + SectorPages < Size)
    <3>1. pc' = "wrdi" /\ i' = 0
      BY <1>0, <2>1, <2>3 DEF Proceed
    <3>2. \A p \in Image : mem[p] = "erased"
      BY <1>0, <2>1, <2>3 DEF CalmErasing, ErasedBelow, Ready
    <3>3. Address' \in Image
      BY <1>0, <3>1, PageFacts DEF Address
    <3>4. retries = 0
      BY <2>1, <2>3 DEF CalmInv
    <3>5. QED
      BY <2>1, <3>1, <3>2, <3>3, <3>4
      DEF CalmInv, Told, CalmErasing, CalmProgramming, ErasedAbove
  <2>4. CASE pc \in {"pwait", "vwait"}
    <3>1. /\ pc' = (IF pc = "pwait" THEN "pwren" ELSE "verify") /\ i' = i
          /\ Address' = Address
      BY <2>1, <2>4 DEF Proceed, Address
    <3>2. pc = "vwait" => Tried
      BY <1>0, <2>1 DEF CalmProgramming, Ready
    <3>3. QED
      BY <2>1, <2>4, <3>1, <3>2
      DEF CalmInv, Told, CalmErasing, CalmProgramming, ErasedAbove, Tried
  <2>5. QED
    BY <2>1, <2>2, <2>3, <2>4 DEF Proceed
<1>11. CASE PollGarbled
  BY <1>11 DEF PollGarbled
<1>12. CASE Verify
  <2>1. /\ calm /\ Going /\ pc = "verify" /\ Ready /\ Ready' /\ ~sent'
        /\ cmd' = NoCommand /\ UNCHANGED <<mem, wel, weak>>
        /\ Told /\ Tried /\ CalmProgramming /\ retries <= weak /\ cmd.op = "READ"
    BY <1>12 DEF Verify, chip, past, CalmInv, CalmProgramming, Told, Ready
  <2>2. CASE VerifyGood
    <3>1. i' = i + 1 /\ retries' = 0 /\ pc' = IF i + 1 < Size THEN "pwait" ELSE "done"
      BY <2>2 DEF VerifyGood
    <3>2. CASE pc' = "pwait"
      <4>1. Address' \in Image /\ Address' = Base + i + 1
        BY <1>0, <3>1, <3>2, PageFacts DEF Address
      <4>2. ErasedAbove(i') /\ mem[Address'] = "erased"
        BY <1>0, <2>1, <3>1, <4>1 DEF CalmProgramming, ErasedAbove
      <4>3. QED
        BY <1>0, <2>1, <3>1, <3>2, <4>2
        DEF CalmInv, Told, CalmErasing, CalmProgramming, ErasedAbove
    <3>3. CASE pc' = "done"
      BY <3>3 DEF CalmInv
    <3>4. QED
      BY <3>1, <3>2, <3>3
  <2>3. CASE VerifyBad
    <3>1. retries' = retries + 1 /\ i' = i /\ retries < weak /\ Address' = Address
          /\ pc' = IF retries' > Retries THEN "failed" ELSE "pwait"
      BY <2>1, <2>3 DEF VerifyBad, Matches, Tried, Address
    <3>2. QED
      BY <1>0, <2>1, <3>1
      DEF CalmInv, Told, CalmErasing, CalmProgramming, ErasedAbove
  <2>4. QED
    BY <1>12, <2>2, <2>3 DEF Verify
<1>13. CASE Kill
  BY <1>13 DEF Kill, CalmInv
<1>14. CASE UNCHANGED vars
  BY <1>14
  DEF vars, chip, loop, past, CalmInv, Told, CalmErasing, CalmProgramming,
      ErasedBelow, ErasedAbove, Tried, Ready, Multiple, Address
<1>15. QED
  BY <1>2, <1>3, <1>4, <1>5, <1>6, <1>7, <1>8, <1>9, <1>10, <1>11, <1>12, <1>13,
     <1>14
  DEF Next, Tool

\* A run that finds the chip at rest, with nobody else at it, fails only when a
\* page was left incomplete more than FLASH_RETRIES times, whatever a killed run
\* has left in the flash (litepcie_flash.c:198-248).
THEOREM FlashCalmRunSucceeds == Aligned => (Spec => []CalmRunSucceeds)
<1> SUFFICES ASSUME Aligned PROVE Spec => []CalmRunSucceeds
  OBVIOUS
<1>1. Init => CalmInv
  BY DEF Init, CalmInv, Erasing
<1>2. CalmInv => CalmRunSucceeds
  BY DEF CalmInv, CalmRunSucceeds
<1>3. TypeInv /\ CalmInv /\ [Next]_vars => CalmInv'
  BY CalmStep
<1>4. QED
  BY <1>1, <1>2, <1>3, TypeInit, TypeStep, PTL DEF Spec

-----------------------------------------------------------------------------
(* UART: the slots of the ring.                                            *)

\* What % is on the slots of the ring.
LEMMA RingArithmetic ==
  /\ XMIT \in Nat \ {0}
  /\ \A a, b \in Slots : (a - b) % XMIT = IF a >= b THEN a - b ELSE a - b + XMIT
  /\ \A a \in Slots, n \in 0..XMIT :
       (a + n) % XMIT = IF a + n < XMIT THEN a + n ELSE a + n - XMIT
<1>0. XMIT \in Nat \ {0}
  BY SizeAssumption
<1>1. ASSUME NEW r \in 0..XMIT - 1, NEW x \in {r - XMIT, r, r + XMIT}
      PROVE  x % XMIT = r
  <2>1. x \in Int /\ x = XMIT * (x \div XMIT) + (x % XMIT)
        /\ x % XMIT \in 0..XMIT - 1 /\ x \div XMIT \in Int
    BY <1>0
  <2>2. QED
    BY <1>0, <2>1
<1>2. ASSUME NEW a \in Slots, NEW b \in Slots
      PROVE  (a - b) % XMIT = IF a >= b THEN a - b ELSE a - b + XMIT
  <2>1. CASE a >= b
    BY <1>0, <1>1, <2>1 DEF Slots
  <2>2. CASE a < b
    <3>1. a - b + XMIT \in 0..XMIT - 1 /\ a - b = (a - b + XMIT) - XMIT
      BY <1>0, <2>2 DEF Slots
    <3>2. QED
      BY <1>0, <1>1, <2>2, <3>1 DEF Slots
  <2>3. QED
    BY <2>1, <2>2 DEF Slots
<1>3. ASSUME NEW a \in Slots, NEW n \in 0..XMIT
      PROVE  (a + n) % XMIT = IF a + n < XMIT THEN a + n ELSE a + n - XMIT
  <2>1. CASE a + n < XMIT
    BY <1>0, <1>1, <2>1 DEF Slots
  <2>2. CASE a + n >= XMIT
    <3>1. a + n - XMIT \in 0..XMIT - 1 /\ a + n = (a + n - XMIT) + XMIT
      BY <1>0, <2>2 DEF Slots
    <3>2. QED
      BY <1>0, <1>1, <2>2, <3>1 DEF Slots
  <2>3. QED
    BY <1>0, <2>1, <2>2 DEF Slots
<1>4. QED
  BY <1>0, <1>2, <1>3

\* A character put at the end of a line.
LEMMA LastChar ==
  ASSUME NEW s, NEW t, NEW n \in Nat, NEW c,
         DOMAIN s = 1..n, DOMAIN t = 1..n + 1,
         \A j \in 1..n : t[j] = s[j], t[n + 1] = c
  PROVE  Chars(t) = Chars(s) \cup ({c} \ {Flow})
<1>1. ASSUME NEW d \in Chars(t) PROVE d \in Chars(s) \cup ({c} \ {Flow})
  <2>1. PICK j \in 1..n + 1 : d = t[j]
    BY DEF Chars
  <2>2. d # Flow
    BY DEF Chars
  <2>3. CASE j = n + 1
    BY <2>1, <2>2, <2>3
  <2>4. CASE j \in 1..n
    BY <2>1, <2>2, <2>4 DEF Chars
  <2>5. QED
    BY <2>3, <2>4
<1>2. ASSUME NEW d \in Chars(s) PROVE d \in Chars(t)
  BY DEF Chars
<1>3. c # Flow => c \in Chars(t)
  <2>1. n + 1 \in DOMAIN t
    OBVIOUS
  <2>2. QED
    BY <2>1 DEF Chars
<1>4. QED
  BY <1>1, <1>2, <1>3

LEMMA OneMore ==
  ASSUME NEW S \in SUBSET Nat, NEW s \in Seq(S), NEW c \in S,
         Ascending(s), c = Flow \/ \A d \in Chars(s) : d < c
  PROVE  /\ s \o <<c>> \in Seq(S)
         /\ Ascending(s \o <<c>>)
         /\ Chars(s \o <<c>>) = Chars(s) \cup ({c} \ {Flow})
<1> DEFINE t == s \o <<c>>
           n == Len(s)
<1>1. t \in Seq(S) /\ DOMAIN t = 1..n + 1 /\ DOMAIN s = 1..n /\ n \in Nat
      /\ (\A j \in 1..n : t[j] = s[j]) /\ t[n + 1] = c
  OBVIOUS
<1> HIDE DEF t, n
<1>2. Chars(t) = Chars(s) \cup ({c} \ {Flow})
  BY <1>1, LastChar
<1>3. Ascending(t)
  BY <1>1 DEF Ascending, Chars
<1>4. QED
  BY <1>1, <1>2, <1>3 DEF t

\* What a FIFO passes on keeps its place in the line.
LEMMA PassedOn ==
  ASSUME NEW S, NEW s \in Seq(S), NEW f \in Seq(S), f # <<>>
  PROVE  /\ Append(s, Head(f)) \o Tail(f) = s \o f
         /\ Append(s, Head(f)) \in Seq(S) /\ Tail(f) \in Seq(S)
         /\ Len(Tail(f)) = Len(f) - 1
<1>1. Head(f) \in S /\ Tail(f) \in Seq(S) /\ Len(Tail(f)) = Len(f) - 1
      /\ f = <<Head(f)>> \o Tail(f)
  OBVIOUS
<1>2. Append(s, Head(f)) = s \o <<Head(f)>>
  OBVIOUS
<1>3. (s \o <<Head(f)>>) \o Tail(f) = s \o (<<Head(f)>> \o Tail(f))
  BY <1>1, ConcatAssociative
<1>4. QED
  BY <1>1, <1>2, <1>3

-----------------------------------------------------------------------------
\* The ring from tail t to head h: how many characters it holds, and where
\* the j-th slot after the tail is, seen from the head.
LEMMA RingSlots ==
  ASSUME NEW h \in Slots, NEW t \in Slots
  PROVE  LET p == (h - t) % XMIT IN
         /\ p \in 0..XMIT - 1 /\ (p = 0 <=> h = t)
         /\ \A k \in 0..XMIT - 1 - p : /\ (h + k) % XMIT \in Slots
                                     /\ (((h + k) % XMIT) - t) % XMIT = p + k
         /\ (t + 1) % XMIT \in Slots
         /\ p > 0 => (h - ((t + 1) % XMIT)) % XMIT = p - 1
         /\ \A j \in 1..XMIT :
              /\ (t + j - 1) % XMIT \in Slots
              /\ (((t + j - 1) % XMIT) - h) % XMIT
                   = IF j <= p THEN XMIT - p + j - 1 ELSE j - 1 - p
              /\ j < XMIT => (((t + 1) % XMIT) + j - 1) % XMIT = (t + j) % XMIT
<1> DEFINE p == (h - t) % XMIT
<1>0. XMIT \in Nat \ {0} /\ h \in 0..XMIT - 1 /\ t \in 0..XMIT - 1
  BY RingArithmetic DEF Slots
<1>1. p = IF h >= t THEN h - t ELSE h - t + XMIT
  BY RingArithmetic
<1> HIDE DEF p
<1>2. p \in 0..XMIT - 1 /\ (p = 0 <=> h = t)
  BY <1>0, <1>1
<1>3. ASSUME NEW k \in 0..XMIT - 1 - p
      PROVE  (h + k) % XMIT \in Slots /\ (((h + k) % XMIT) - t) % XMIT = p + k
  <2> DEFINE s == (h + k) % XMIT
  <2>1. s = IF h + k < XMIT THEN h + k ELSE h + k - XMIT
    <3>1. k \in 0..XMIT
      BY <1>0, <1>2
    <3>2. QED
      BY <3>1, RingArithmetic
  <2> HIDE DEF s
  <2>2. s \in Slots
    BY <1>0, <1>2, <2>1 DEF Slots
  <2>3. (s - t) % XMIT = IF s >= t THEN s - t ELSE s - t + XMIT
    BY <2>2, RingArithmetic
  <2>4. (s - t) % XMIT = p + k
    BY <1>0, <1>1, <1>2, <2>1, <2>3
  <2>5. QED
    BY <2>2, <2>4 DEF s
<1>4. (t + 1) % XMIT \in Slots /\ (p > 0 => (h - ((t + 1) % XMIT)) % XMIT = p - 1)
  <2> DEFINE s == (t + 1) % XMIT
  <2>1. s = IF t + 1 < XMIT THEN t + 1 ELSE t + 1 - XMIT
    BY <1>0, RingArithmetic
  <2> HIDE DEF s
  <2>2. s \in Slots
    BY <1>0, <2>1 DEF Slots
  <2>3. (h - s) % XMIT = IF h >= s THEN h - s ELSE h - s + XMIT
    BY <2>2, RingArithmetic
  <2>4. p > 0 => (h - s) % XMIT = p - 1
    BY <1>0, <1>1, <2>1, <2>3
  <2>5. QED
    BY <2>2, <2>4 DEF s
<1>5. ASSUME NEW j \in 1..XMIT
      PROVE  /\ (t + j - 1) % XMIT \in Slots
             /\ (((t + j - 1) % XMIT) - h) % XMIT
                  = IF j <= p THEN XMIT - p + j - 1 ELSE j - 1 - p
  <2> DEFINE s == (t + j - 1) % XMIT
  <2>1. s = IF t + j - 1 < XMIT THEN t + j - 1 ELSE t + j - 1 - XMIT
    <3>1. j - 1 \in 0..XMIT /\ t + j - 1 = t + (j - 1)
      BY <1>0
    <3>2. QED
      BY <1>0, <3>1, RingArithmetic
  <2> HIDE DEF s
  <2>2. s \in Slots
    BY <1>0, <2>1 DEF Slots
  <2>3. (s - h) % XMIT = IF s >= h THEN s - h ELSE s - h + XMIT
    BY <2>2, RingArithmetic
  <2>4. (s - h) % XMIT = IF j <= p THEN XMIT - p + j - 1 ELSE j - 1 - p
    BY <1>0, <1>1, <2>1, <2>3
  <2>5. QED
    BY <2>2, <2>4 DEF s
<1>6. ASSUME NEW j \in 1..XMIT, j < XMIT
      PROVE  (((t + 1) % XMIT) + j - 1) % XMIT = (t + j) % XMIT
  <2> DEFINE s == (t + 1) % XMIT
  <2>1. s = IF t + 1 < XMIT THEN t + 1 ELSE t + 1 - XMIT
    BY <1>0, RingArithmetic
  <2> HIDE DEF s
  <2>2. s \in Slots
    BY <1>0, <2>1 DEF Slots
  <2>3. j - 1 \in 0..XMIT /\ s + j - 1 = s + (j - 1)
    BY <1>0, <2>1
  <2>4. (s + (j - 1)) % XMIT
          = IF s + (j - 1) < XMIT THEN s + (j - 1) ELSE s + (j - 1) - XMIT
    BY <2>2, <2>3, RingArithmetic
  <2>5. (t + j) % XMIT = IF t + j < XMIT THEN t + j ELSE t + j - XMIT
    <3>1. j \in 0..XMIT
      BY <1>0
    <3>2. QED
      BY <3>1, RingArithmetic
  <2>6. QED
    BY <1>0, <1>6, <2>1, <2>3, <2>4, <2>5 DEF s
<1>7. QED
  BY <1>2, <1>3, <1>4, <1>5, <1>6 DEF p

-----------------------------------------------------------------------------
\* The ring holds no more than was written into it; the ring of a port that
\* is not open is empty and nobody is at it.
RingOK ==
  /\ Pending <= written
  /\ port # "open" => sender = "idle" /\ head = tail /\ ~stopped /\ ~asleep

UartTypeInv == UartTypeOK /\ RingOK

LEMMA SizeFacts ==
  /\ XMIT \in Nat \ {0} /\ WAKEUP \in Nat \ {0} /\ FIFO \in Nat \ {0}
  /\ MaxIn \in Nat /\ MaxOut \in Nat /\ MaxFlow \in Nat
  /\ 0 \in Slots
BY SizeAssumption DEF Slots

LEMMA PendingType ==
  ASSUME UartTypeOK
  PROVE  Pending \in 0..XMIT - 1 /\ (Pending = 0 <=> head = tail)
BY RingSlots DEF UartTypeOK, Pending

LEMMA UartTypeInit == UartInit => UartTypeInv
<1> SUFFICES ASSUME UartInit PROVE UartTypeInv
  OBVIOUS
<1>1. UartTypeOK
  BY SizeFacts DEF UartInit, UartTypeOK, Flow
<1>2. RingOK
  BY <1>1, PendingType DEF UartInit, RingOK
<1>3. QED
  BY <1>1, <1>2 DEF UartTypeInv

\* What a write puts into the ring.
LEMMA WriteFacts ==
  ASSUME UartTypeInv, NEW n \in 1..XMIT, Write(n)
  PROVE  \E k \in 0..XMIT - 1 - Pending :
           /\ k <= n /\ written' = written + k /\ head' = (head + k) % XMIT
           /\ head' \in Slots /\ tail' = tail /\ Pending' = Pending + k
           /\ buf' = [s \in Slots |-> IF (s - head) % XMIT < k
                                     THEN written + 1 + ((s - head) % XMIT)
                                     ELSE buf[s]]
<1> DEFINE room == XMIT - 1 - Pending
           k == IF n < room THEN n ELSE room
<1>1. Pending \in 0..XMIT - 1
  BY PendingType DEF UartTypeInv
<1>2. k \in 0..XMIT - 1 - Pending /\ k <= n
  BY <1>1, SizeFacts
<1>3. written' = written + k /\ head' = (head + k) % XMIT /\ tail' = tail
      /\ buf' = [s \in Slots |-> IF (s - head) % XMIT < k
                                THEN written + 1 + ((s - head) % XMIT)
                                ELSE buf[s]]
  BY DEF Write
<1> HIDE DEF k
<1>4. (head + k) % XMIT \in Slots /\ (((head + k) % XMIT) - tail) % XMIT = Pending + k
  BY <1>2, RingSlots DEF UartTypeInv, UartTypeOK, Pending
<1>5. Pending' = Pending + k
  BY <1>3, <1>4 DEF Pending
<1>6. QED
  BY <1>2, <1>3, <1>4, <1>5

LEMMA UartTypeStep == UartTypeInv /\ [UartNext]_uartVars => UartTypeInv'
<1> SUFFICES ASSUME UartTypeInv, [UartNext]_uartVars PROVE UartTypeInv'
  OBVIOUS
<1> USE SizeFacts
<1>0. UartTypeOK /\ RingOK /\ Pending \in 0..XMIT - 1 /\ (Pending = 0 <=> head = tail)
  BY PendingType DEF UartTypeInv
<1>1. CASE UNCHANGED uartVars
  BY <1>0, <1>1 DEF uartVars, rxVars, txVars, UartTypeOK, UartTypeInv, RingOK, Pending
<1>2. CASE UartProbe
  BY <1>0, <1>2 DEF UartProbe, rxVars, txVars, UartTypeOK, UartTypeInv, RingOK, Pending
<1>3. CASE Startup
  <2>1. UartTypeOK'
    BY <1>0, <1>3 DEF Startup, rxVars, UartTypeOK, RingOK
  <2>2. QED
    BY <1>0, <1>3, <2>1, RingSlots
    DEF Startup, UartTypeInv, RingOK, Pending, UartTypeOK
<1>4. CASE UartClose \/ UartRemove
  <2>1. TtyGone /\ port' \in {"absent", "bound"} /\ timer' \in BOOLEAN /\ poll' = poll
    BY <1>0, <1>4 DEF UartClose, UartRemove, UartTypeOK
  <2>2. written' \in 0..MaxOut /\ tail' \in Slots /\ head' = head /\ tail' = head
        /\ stopped' = FALSE /\ asleep' = FALSE /\ sender' = "idle"
    BY <1>0, <2>1 DEF TtyGone, UartTypeOK, RingOK
  <2>3. UartTypeOK'
    BY <1>0, <2>1, <2>2 DEF TtyGone, rxVars, UartTypeOK
  <2>4. Pending' = 0
    BY <1>0, <2>2, RingSlots DEF Pending, UartTypeOK
  <2>5. QED
    BY <2>1, <2>2, <2>3, <2>4 DEF UartTypeInv, RingOK
<1>5. CASE RxArrive
  <2>0. came' = came + 1 /\ came \in 0..MaxIn /\ came < MaxIn
    BY <1>0, <1>5 DEF RxArrive, UartTypeOK
  <2>1. came' \in 0..MaxIn /\ came' = came + 1 /\ 1..came \subseteq 1..came'
        /\ came' \in 1..came'
    BY <2>0
  <2>2. rxfifo \in Seq(1..came') /\ tty' \in Seq(1..came')
    BY <1>0, <1>5, <2>1, SeqMonotonic DEF RxArrive, UartTypeOK
  <2>3. rxfifo' \in Seq(1..came') /\ Len(rxfifo') <= FIFO /\ missed' \subseteq 1..came'
    <3>1. CASE Len(rxfifo) < FIFO
      <4>1. rxfifo' = Append(rxfifo, came') /\ missed' = missed
        BY <1>5, <3>1 DEF RxArrive
      <4>2. QED
        BY <1>0, <2>1, <2>2, <3>1, <4>1, LenProperties DEF UartTypeOK
    <3>2. CASE ~(Len(rxfifo) < FIFO)
      BY <1>0, <1>5, <2>1, <2>2, <3>2 DEF RxArrive, UartTypeOK
    <3>3. QED
      BY <3>1, <3>2
  <2>4. QED
    BY <1>0, <1>5, <2>1, <2>2, <2>3
    DEF RxArrive, txVars, UartTypeOK, UartTypeInv, RingOK, Pending
<1>6. CASE Polling
  <2>1. CASE PollChar
    <3>1. tty' \in Seq(1..came) /\ rxfifo' \in Seq(1..came) /\ Len(rxfifo') <= FIFO
      BY <1>0, <2>1, PassedOn DEF PollChar, UartTypeOK
    <3>2. QED
      BY <1>0, <2>1, <3>1 DEF PollChar, txVars, UartTypeOK, UartTypeInv, RingOK, Pending
  <2>2. CASE TimerExpire \/ PollDone
    <3>1. timer' \in BOOLEAN /\ poll' \in BOOLEAN /\ UNCHANGED <<port, rxVars, txVars>>
      BY <2>2 DEF TimerExpire, PollDone
    <3>2. QED
      BY <1>0, <3>1 DEF rxVars, txVars, UartTypeOK, UartTypeInv, RingOK, Pending
  <2>3. QED
    BY <1>6, <2>1, <2>2 DEF Polling
<1>7. ASSUME NEW n \in 1..XMIT, Write(n)
      PROVE  UartTypeInv'
  <2>1. PICK k \in 0..XMIT - 1 - Pending :
           /\ k <= n /\ written' = written + k /\ head' = (head + k) % XMIT
           /\ head' \in Slots /\ tail' = tail /\ Pending' = Pending + k
           /\ buf' = [s \in Slots |-> IF (s - head) % XMIT < k
                                     THEN written + 1 + ((s - head) % XMIT)
                                     ELSE buf[s]]
    BY <1>7, WriteFacts
  <2>2. written + n <= MaxOut /\ written' \in 0..MaxOut
    BY <1>0, <1>7, <2>1 DEF Write, UartTypeOK
  <2>3. ASSUME NEW s \in Slots PROVE buf'[s] \in 0..MaxOut
    <3>1. (s - head) % XMIT \in 0..XMIT - 1
      BY <1>0, RingSlots DEF UartTypeOK
    <3>2. buf'[s] = IF (s - head) % XMIT < k THEN written + 1 + ((s - head) % XMIT)
                    ELSE buf[s]
      BY <2>1
    <3>3. buf[s] \in 0..MaxOut /\ written \in 0..MaxOut /\ written + k <= MaxOut
      BY <1>0, <2>1, <2>2 DEF UartTypeOK
    <3>4. QED
      BY <2>1, <3>1, <3>2, <3>3
  <2>4. buf' \in [Slots -> 0..MaxOut]
    BY <2>1, <2>3
  <2>5. sender' \in {"idle", "start"} /\ asleep' \in BOOLEAN /\ port = "open"
    BY <1>7 DEF Write
  <2>6. UartTypeOK'
    BY <1>0, <1>7, <2>1, <2>2, <2>4, <2>5 DEF Write, rxVars, UartTypeOK
  <2>7. RingOK'
    BY <1>0, <1>7, <2>1, <2>5 DEF Write, RingOK, UartTypeOK
  <2>8. QED
    BY <2>6, <2>7 DEF UartTypeInv
<1>8. CASE SendFlow \/ StopTx \/ RestartTx
  <2>1. port = "open" /\ sender' \in {"idle", "start"} /\ flows' \in 0..MaxFlow
        /\ x_char' \in BOOLEAN /\ stopped' \in BOOLEAN
        /\ UNCHANGED <<port, timer, poll, rxVars, buf, head, tail, written, asleep, ch,
                       txfifo, line>>
    <3>1. flows \in 0..MaxFlow /\ x_char \in BOOLEAN /\ stopped \in BOOLEAN
          /\ (flows < MaxFlow => flows + 1 \in 0..MaxFlow)
      BY <1>0 DEF UartTypeOK
    <3>2. CASE SendFlow
      BY <3>1, <3>2 DEF SendFlow, rxVars
    <3>3. CASE StopTx \/ RestartTx
      BY <3>1, <3>3 DEF StopTx, RestartTx, rxVars
    <3>4. QED
      BY <1>8, <3>2, <3>3
  <2>2. QED
    BY <1>0, <2>1 DEF rxVars, UartTypeOK, UartTypeInv, RingOK, Pending
<1>9. CASE StartTxFlow \/ StartTxRing \/ StartTxDone \/ PutChar
  <2>1. asleep' \in BOOLEAN /\ x_char' \in BOOLEAN
        /\ sender' \in {"idle", "start", "ring", "put"}
        /\ port' = port /\ sender # "idle"
        /\ UNCHANGED <<timer, poll, rxVars, buf, head, tail, written, stopped, ch,
                       line, flows>>
    BY <1>0, <1>9 DEF StartTxFlow, StartTxRing, StartTxDone, PutChar, Wakeup, UartTypeOK
  <2>2. txfifo' \in Seq(0..MaxOut) /\ Len(txfifo') <= FIFO
    <3>1. \E c \in 0..MaxOut : Push(c) \/ txfifo' = txfifo
      BY <1>0, <1>9
      DEF StartTxFlow, StartTxRing, StartTxDone, PutChar, UartTypeOK, Flow
    <3>2. ASSUME NEW c \in 0..MaxOut, Push(c) \/ txfifo' = txfifo
          PROVE  txfifo' \in Seq(0..MaxOut) /\ Len(txfifo') <= FIFO
      <4>1. txfifo \in Seq(0..MaxOut) /\ Len(txfifo) \in Nat /\ Len(txfifo) <= FIFO
        BY <1>0, LenProperties DEF UartTypeOK
      <4>2. Append(txfifo, c) \in Seq(0..MaxOut)
            /\ Len(Append(txfifo, c)) = Len(txfifo) + 1
        BY <4>1
      <4>3. QED
        BY <3>2, <4>1, <4>2 DEF Push
    <3>3. QED
      BY <3>1, <3>2
  <2>3. UartTypeOK'
    BY <1>0, <2>1, <2>2 DEF rxVars, UartTypeOK
  <2>4. QED
    BY <1>0, <2>1, <2>3 DEF UartTypeInv, RingOK, Pending
<1>10. CASE TakeChar
  <2>1. tail' \in Slots /\ ch' \in 0..MaxOut /\ Pending' = Pending - 1
    BY <1>0, <1>10, RingSlots DEF TakeChar, UartTypeOK, Pending
  <2>2. QED
    BY <1>0, <1>10, <2>1 DEF TakeChar, rxVars, UartTypeOK, UartTypeInv, RingOK
<1>11. CASE TxLeave
  <2>1. line' \in Seq(0..MaxOut) /\ txfifo' \in Seq(0..MaxOut) /\ Len(txfifo') <= FIFO
    <3>1. line \in Seq(0..MaxOut) /\ txfifo \in Seq(0..MaxOut) /\ txfifo # <<>>
          /\ Len(txfifo) \in Nat /\ Len(txfifo) <= FIFO
          /\ line' = Append(line, Head(txfifo)) /\ txfifo' = Tail(txfifo)
      BY <1>0, <1>11, LenProperties DEF TxLeave, UartTypeOK
    <3>2. QED
      BY <3>1, PassedOn
  <2>2. QED
    BY <1>0, <1>11, <2>1 DEF TxLeave, rxVars, UartTypeOK, UartTypeInv, RingOK, Pending
<1>12. QED
  BY <1>1, <1>2, <1>3, <1>4, <1>5, <1>6, <1>7, <1>8, <1>9, <1>10, <1>11
  DEF UartNext, StartTx

\* Type correctness of the port.
THEOREM UartTypeCorrect == UartSpec => []UartTypeOK
<1>1. UartTypeInv => UartTypeOK
  BY DEF UartTypeInv
<1>2. QED
  BY UartTypeInit, UartTypeStep, <1>1, PTL DEF UartSpec

-----------------------------------------------------------------------------
\* start_tx() is only on its way with x_char where the transmission is stopped
\* or there is nothing else to send.
FlowOK ==
  /\ x_char => sender = "start"
  /\ x_char /\ ~stopped => Pending = 0 /\ ~asleep

StrandInv == UartTypeInv /\ FlowOK /\ NoneStranded

LEMMA StrandStep == StrandInv /\ [UartNext]_uartVars => StrandInv'
<1> SUFFICES ASSUME StrandInv, [UartNext]_uartVars PROVE StrandInv'
  OBVIOUS
<1> USE SizeFacts
<1>0. UartTypeInv /\ UartTypeOK /\ RingOK /\ FlowOK /\ NoneStranded
      /\ Pending \in 0..XMIT - 1 /\ (Pending = 0 <=> head = tail)
  BY PendingType DEF StrandInv, UartTypeInv
<1>t. UartTypeInv'
  BY <1>0, UartTypeStep
<1>p. Pending' \in 0..XMIT - 1 /\ (Pending' = 0 <=> head' = tail')
  <2>1. UartTypeOK'
    BY <1>t DEF UartTypeInv
  <2>2. QED
    BY <2>1, RingSlots DEF UartTypeOK, Pending
<1> SUFFICES (FlowOK /\ NoneStranded)'
  BY <1>t DEF StrandInv
<1>1. ASSUME UNCHANGED <<head, tail, x_char, stopped, asleep, sender>>
      PROVE  (FlowOK /\ NoneStranded)'
  BY <1>0, <1>1 DEF FlowOK, NoneStranded, Pending
<1>2. CASE UNCHANGED uartVars \/ UartProbe \/ RxArrive \/ Polling \/ TxLeave
  BY <1>1, <1>2 DEF uartVars, UartProbe, RxArrive, Polling, TimerExpire, PollChar,
     PollDone, TxLeave, rxVars, txVars
<1>3. CASE Startup
  BY <1>0, <1>p, <1>3 DEF Startup, FlowOK, NoneStranded, RingOK
<1>4. CASE UartClose \/ UartRemove
  BY <1>0, <1>p, <1>4 DEF UartClose, UartRemove, TtyGone, FlowOK, NoneStranded
<1>5. ASSUME NEW n \in 1..XMIT, Write(n)
      PROVE  (FlowOK /\ NoneStranded)'
  BY <1>0, <1>5 DEF Write, FlowOK, NoneStranded
<1>6. CASE SendFlow \/ StopTx \/ RestartTx
  BY <1>0, <1>6 DEF SendFlow, StopTx, RestartTx, FlowOK, NoneStranded, Pending
<1>7. CASE StartTxFlow
  BY <1>0, <1>7 DEF StartTxFlow, Wakeup, FlowOK, NoneStranded, Pending
<1>8. CASE StartTxDone
  <2>1. Pending = 0 /\ Pending' = 0 /\ ~(Pending >= WAKEUP)
    BY <1>0, <1>p, <1>8 DEF StartTxDone
  <2>2. ~asleep'
    BY <1>8, <2>1 DEF StartTxDone, Wakeup
  <2>3. ~x_char'
    BY <1>0, <1>8 DEF StartTxDone, FlowOK
  <2>4. QED
    BY <2>1, <2>2, <2>3 DEF FlowOK, NoneStranded
<1>9. CASE StartTxRing \/ TakeChar \/ PutChar
  <2>1. ~x_char' /\ sender' # "idle"
    BY <1>0, <1>9 DEF StartTxRing, TakeChar, PutChar, FlowOK
  <2>2. QED
    BY <2>1 DEF FlowOK, NoneStranded
<1>10. QED
  BY <1>2, <1>3, <1>4, <1>5, <1>6, <1>7, <1>8, <1>9 DEF UartNext, StartTx

\* No character and no writer is left behind by start_tx(), although nothing
\* would come back for them, whatever is written, stopped, restarted, flow
\* controlled, closed and opened again (liteuart.c:152-166).
THEOREM UartNoneStranded == UartSpec => []NoneStranded
<1>1. UartInit => StrandInv
  <2> SUFFICES ASSUME UartInit PROVE StrandInv
    OBVIOUS
  <2>1. UartTypeInv /\ Pending = 0
    BY UartTypeInit, PendingType DEF UartTypeInv, UartInit
  <2>2. QED
    BY <2>1 DEF UartInit, StrandInv, FlowOK, NoneStranded
<1>2. StrandInv => NoneStranded
  BY DEF StrandInv
<1>3. QED
  BY <1>1, <1>2, StrandStep, PTL DEF UartSpec

-----------------------------------------------------------------------------
\* The timer and its handler rest while the port is not open, when no close
\* meets the handler and the card stays while the port is open: the two things
\* liteuart.c does not see to (liteuart.c:169-175, 339-348).
THEOREM UartClosedQuiet ==
  ASSUME ~CloseInPoll, ~RemoveOpen
  PROVE  UartSpec => []ClosedQuiet
<1> DEFINE QuietInv == ClosedQuiet /\ (poll => ~timer) /\ (port = "open" => timer \/ poll)
<1>1. UartInit => QuietInv
  BY DEF UartInit, ClosedQuiet
<1>2. QuietInv /\ [UartNext]_uartVars => QuietInv'
  <2> SUFFICES ASSUME QuietInv, [UartNext]_uartVars PROVE QuietInv'
    OBVIOUS
  <2>1. CASE UNCHANGED <<port, timer, poll>>
    BY <2>1 DEF ClosedQuiet
  <2>2. CASE UartProbe \/ Startup
    BY <2>2 DEF UartProbe, Startup, ClosedQuiet
  <2>3. CASE UartClose
    BY <2>3 DEF UartClose, ClosedQuiet
  <2>4. CASE UartRemove
    BY <2>4 DEF UartRemove, ClosedQuiet
  <2>5. CASE TimerExpire \/ PollDone
    BY <2>5 DEF TimerExpire, PollDone, ClosedQuiet
  <2>6. QED
    BY <2>1, <2>2, <2>3, <2>4, <2>5
    DEF UartNext, uartVars, RxArrive, Polling, PollChar, Write, SendFlow, StopTx,
        RestartTx, StartTx, StartTxFlow, StartTxRing, TakeChar, PutChar,
        StartTxDone, TxLeave
<1>3. QuietInv => ClosedQuiet
  OBVIOUS
<1>4. QED
  BY <1>1, <1>2, <1>3, PTL DEF UartSpec

-----------------------------------------------------------------------------
\* The order of what is received.
RxOrder == Ascending(Received) /\ Chars(Received) = (1..came) \ missed

\* The order of what is sent, and that the ring holds what comes next.
TxOrder   == Ascending(Sent) /\ Chars(Sent) = 1..written - Pending
RingHolds == \A k \in 1..Pending :
               buf[(tail + k - 1) % XMIT] = written - Pending + k

LEMMA RxOrderStep ==
  ASSUME UartTypeInv, RxOrder, [UartNext]_uartVars
  PROVE  RxOrder'
<1>0. UartTypeOK /\ came \in Nat /\ tty \in Seq(1..came) /\ rxfifo \in Seq(1..came)
      /\ missed \subseteq 1..came
  BY DEF UartTypeInv, UartTypeOK
<1>1. CASE UNCHANGED rxVars
  BY <1>1 DEF rxVars, RxOrder, Received
<1>2. CASE RxArrive
  <2> DEFINE c == came + 1
             S == 1..c
  <2>1. came' = c /\ tty' = tty /\ c \in Nat \ {0} /\ c \in S /\ 1..came \subseteq S
        /\ S = (1..came) \cup {c}
    BY <1>0, <1>2 DEF RxArrive
  <2>2. tty \in Seq(S) /\ rxfifo \in Seq(S)
    BY <1>0, <2>1, SeqMonotonic
  <2>3. Received \in Seq(S)
    BY <2>2 DEF Received
  <2>4. \A d \in Chars(Received) : d < c
    BY <1>0 DEF RxOrder
  <2> HIDE DEF c, S
  <2>5. CASE Len(rxfifo) < FIFO
    <3>1. rxfifo' = Append(rxfifo, c) /\ missed' = missed
      BY <1>2, <2>5 DEF RxArrive, c
    <3>2. Received' = Received \o <<c>>
      <4>1. Append(rxfifo, c) = rxfifo \o <<c>> /\ <<c>> \in Seq(S)
        BY <2>1, <2>2
      <4>2. (tty \o rxfifo) \o <<c>> = tty \o (rxfifo \o <<c>>)
        BY <2>2, <4>1, ConcatAssociative
      <4>3. QED
        BY <2>1, <3>1, <4>1, <4>2 DEF Received
    <3>3. S \in SUBSET Nat
      BY <1>0, <2>1
    <3>4. Ascending(Received') /\ Chars(Received') = Chars(Received) \cup ({c} \ {Flow})
      BY <2>1, <2>3, <2>4, <3>2, <3>3, OneMore DEF RxOrder
    <3>5. Chars(Received') = (1..came') \ missed'
      <4>1. c # Flow /\ c \notin missed /\ 1..came' = (1..came) \cup {c}
        BY <1>0, <2>1 DEF Flow, S, c
      <4>2. QED
        BY <3>1, <3>4, <4>1 DEF RxOrder
    <3>6. QED
      BY <3>4, <3>5 DEF RxOrder, Received
  <2>6. CASE ~(Len(rxfifo) < FIFO)
    <3>1. rxfifo' = rxfifo /\ missed' = missed \cup {c}
      BY <1>2, <2>6 DEF RxArrive, c
    <3>2. (1..came') \ missed' = (1..came) \ missed
      BY <1>0, <2>1, <3>1 DEF S, c
    <3>3. QED
      BY <2>1, <3>1, <3>2 DEF RxOrder, Received
  <2>7. QED
    BY <2>5, <2>6
<1>3. CASE PollChar
  <2>1. Received' = Received
    BY <1>0, <1>3, PassedOn DEF PollChar, Received
  <2>2. QED
    BY <1>3, <2>1 DEF PollChar, RxOrder
<1>4. QED
  BY <1>1, <1>2, <1>3
  DEF UartNext, uartVars, UartProbe, Startup, UartClose, UartRemove, TtyGone,
      Polling, TimerExpire, PollDone, Write, SendFlow, StopTx, RestartTx, StartTx,
      StartTxFlow, StartTxRing, TakeChar, PutChar, StartTxDone, TxLeave

\* A character put into a FIFO that has room comes last on the line.
LEMMA PutLast ==
  ASSUME NEW S, NEW s \in Seq(S), NEW f \in Seq(S), NEW c \in S
  PROVE  (s \o Append(f, c)) \o <<>> = (s \o f) \o <<c>>
         /\ (s \o f) \o <<>> = s \o f /\ s \o f \in Seq(S)
<1>1. Append(f, c) = f \o <<c>> /\ <<c>> \in Seq(S) /\ s \o f \in Seq(S)
      /\ Append(f, c) \in Seq(S)
  OBVIOUS
<1>2. (s \o f) \o <<c>> = s \o (f \o <<c>>)
  BY <1>1, ConcatAssociative
<1>3. (s \o f) \o <<>> = s \o f
  BY <1>1, ConcatEmptySeq
<1>4. s \o Append(f, c) \in Seq(S) /\ (s \o Append(f, c)) \o <<>> = s \o Append(f, c)
  BY <1>1, ConcatProperties, ConcatEmptySeq
<1>5. QED
  BY <1>1, <1>2, <1>3, <1>4

LEMMA TxOrderStep ==
  ASSUME UartTypeInv, TxOrder, RingHolds, [UartNext]_uartVars
  PROVE  TxOrder' /\ RingHolds'
<1> USE SizeFacts
<1> DEFINE S == 0..MaxOut
<1>0. UartTypeOK /\ RingOK /\ Pending \in 0..XMIT - 1 /\ (Pending = 0 <=> head = tail)
  BY PendingType DEF UartTypeInv
<1>s. S \in SUBSET Nat /\ line \in Seq(S) /\ txfifo \in Seq(S) /\ ch \in S
      /\ written \in Nat /\ head \in Slots /\ tail \in Slots /\ FIFO \in Nat
      /\ Len(txfifo) \in Nat
  BY <1>0, LenProperties DEF UartTypeOK
<1>1. ASSUME Sent' = Sent, UNCHANGED <<buf, head, tail, written>>
      PROVE  TxOrder' /\ RingHolds'
  BY <1>1 DEF TxOrder, RingHolds, Pending
<1>2. ASSUME UNCHANGED <<buf, head, tail, written, line, txfifo>>,
             sender # "put", sender' # "put"
      PROVE  TxOrder' /\ RingHolds'
  BY <1>1, <1>2 DEF Sent, Taken
<1>3. CASE UNCHANGED txVars
  BY <1>1, <1>3 DEF txVars, Sent, Taken
<1>4. CASE Startup \/ UartClose \/ UartRemove
  <2>1. sender = "idle" /\ sender' = "idle" /\ line' = line /\ txfifo' = txfifo
        /\ head' = tail' /\ head' \in Slots /\ tail' \in Slots
        /\ written' = written - Pending
    BY <1>0, <1>s, <1>4 DEF Startup, UartClose, UartRemove, TtyGone, RingOK
  <2>2. Pending' = 0
    BY <2>1, RingSlots DEF Pending
  <2>3. Sent' = Sent
    BY <2>1 DEF Sent, Taken
  <2>4. QED
    BY <1>0, <1>s, <2>1, <2>2, <2>3 DEF TxOrder, RingHolds
<1>5. ASSUME NEW n \in 1..XMIT, Write(n)
      PROVE  TxOrder' /\ RingHolds'
  <2>1. PICK k \in 0..XMIT - 1 - Pending :
           /\ k <= n /\ written' = written + k /\ head' = (head + k) % XMIT
           /\ head' \in Slots /\ tail' = tail /\ Pending' = Pending + k
           /\ buf' = [s \in Slots |-> IF (s - head) % XMIT < k
                                     THEN written + 1 + ((s - head) % XMIT)
                                     ELSE buf[s]]
    BY <1>5, WriteFacts
  <2>2. Sent' = Sent
    BY <1>5 DEF Write, Sent, Taken
  <2>3. written' - Pending' = written - Pending
    BY <1>0, <1>s, <2>1
  <2>4. ASSUME NEW j \in 1..Pending'
        PROVE  buf'[(tail' + j - 1) % XMIT] = written' - Pending' + j
    <3> DEFINE s == (tail + j - 1) % XMIT
               d == (s - head) % XMIT
    <3>1. j \in 1..XMIT
      BY <1>0, <2>1
    <3>2. s \in Slots /\ d = IF j <= Pending THEN XMIT - Pending + j - 1
                             ELSE j - 1 - Pending
      BY <1>s, <3>1, RingSlots DEF Pending
    <3>3. buf'[s] = IF d < k THEN written + 1 + d ELSE buf[s]
      BY <2>1, <3>2
    <3>4. j <= Pending => buf[s] = written - Pending + j
      BY <1>0, <3>1 DEF RingHolds
    <3> HIDE DEF s, d
    <3>5. buf'[s] = written - Pending + j
      <4>1. Pending \in Nat /\ k \in Nat /\ k < XMIT - Pending /\ j \in Nat
            /\ 1 <= j /\ j <= Pending + k /\ written \in Nat
        BY <1>0, <1>s, <2>1
      <4>2. CASE j <= Pending
        BY <3>2, <3>3, <3>4, <4>1, <4>2
      <4>3. CASE j > Pending
        <5>1. d = j - 1 - Pending /\ d < k
          BY <3>2, <4>1, <4>3
        <5>2. buf'[s] = written + 1 + d
          BY <3>3, <5>1
        <5>3. QED
          BY <4>1, <5>1, <5>2
      <4>4. QED
        BY <4>1, <4>2, <4>3
    <3>6. QED
      BY <2>1, <2>3, <3>5 DEF s
  <2>5. QED
    BY <2>2, <2>3, <2>4 DEF TxOrder, RingHolds
<1>6. CASE SendFlow \/ StopTx \/ RestartTx
  BY <1>2, <1>6 DEF SendFlow, StopTx, RestartTx
<1>7. CASE StartTxRing \/ StartTxDone
  BY <1>2, <1>7 DEF StartTxRing, StartTxDone, Wakeup
<1>8. CASE StartTxFlow
  <2>1. sender # "put" /\ sender' # "put" /\ line' = line
        /\ UNCHANGED <<buf, head, tail, written>> /\ Push(Flow)
    BY <1>8 DEF StartTxFlow, Wakeup
  <2>2. CASE ~(Len(txfifo) < FIFO)
    BY <1>2, <2>1, <2>2 DEF Push
  <2>3. CASE Len(txfifo) < FIFO
    <3>1. Flow \in S
      BY DEF Flow
    <3>2. Sent = (line \o txfifo) \o <<>> /\ Sent' = (line \o Append(txfifo, Flow)) \o <<>>
      BY <2>1, <2>3 DEF Push, Sent, Taken
    <3>3. Sent \in Seq(S) /\ Sent' = Sent \o <<Flow>>
      BY <1>s, <3>1, <3>2, PutLast
    <3>4. Ascending(Sent \o <<Flow>>)
          /\ Chars(Sent \o <<Flow>>) = Chars(Sent) \cup ({Flow} \ {Flow})
      <4>1. S \in SUBSET Nat /\ Ascending(Sent)
        BY <1>s DEF TxOrder
      <4> HIDE DEF S
      <4>2. QED
        BY <3>1, <3>3, <4>1, OneMore
    <3>5. Ascending(Sent') /\ Chars(Sent') = Chars(Sent)
      BY <3>3, <3>4
    <3>6. QED
      BY <2>1, <3>5 DEF TxOrder, RingHolds, Pending
  <2>4. QED
    BY <2>2, <2>3
<1>9. CASE TakeChar
  <2>1. ch' = buf[tail] /\ tail' = (tail + 1) % XMIT /\ head' = head /\ Pending > 0
        /\ sender # "put" /\ sender' = "put"
        /\ UNCHANGED <<buf, written, line, txfifo>>
    BY <1>0, <1>9 DEF TakeChar
  <2>2. Pending' = Pending - 1
    BY <1>s, <2>1, RingSlots DEF Pending
  <2>3. ch' = written - Pending + 1 /\ ch' \in S
    <3>1. (tail + 1 - 1) % XMIT = tail
      <4>1. tail + 1 - 1 = tail + 0 /\ tail + 0 = tail /\ tail < XMIT
        BY <1>s DEF Slots
      <4>2. (tail + 0) % XMIT = tail
        BY <1>s, <4>1, RingArithmetic
      <4>3. QED
        BY <4>1, <4>2
    <3>2. 1 \in 1..Pending
      BY <1>0, <2>1
    <3>3. buf[(tail + 1 - 1) % XMIT] = written - Pending + 1
      BY <3>2 DEF RingHolds
    <3>4. buf[tail] \in S
      BY <1>0, <1>s DEF UartTypeOK
    <3>5. QED
      BY <2>1, <3>1, <3>3, <3>4
  <2>4. Sent = line \o txfifo /\ Sent \in Seq(S) /\ Sent' = Sent \o <<ch'>>
    BY <1>s, <2>1, PutLast DEF Sent, Taken
  <2>5. Ascending(Sent') /\ Chars(Sent') = Chars(Sent) \cup {ch'}
    <3>1. ch' # Flow /\ \A d \in Chars(Sent) : d < ch'
      BY <1>0, <1>s, <2>3 DEF TxOrder, RingOK, Flow
    <3> DEFINE c == ch'
    <3> HIDE DEF c
    <3>2. Ascending(Sent \o <<c>>)
          /\ Chars(Sent \o <<c>>) = Chars(Sent) \cup ({c} \ {Flow})
      <4>1. S \in SUBSET Nat /\ Ascending(Sent) /\ c \in S
            /\ (c = Flow \/ \A d \in Chars(Sent) : d < c) /\ Sent \in Seq(S)
        BY <1>s, <2>3, <2>4, <3>1 DEF TxOrder, c
      <4> HIDE DEF S
      <4>2. QED
        BY <4>1, OneMore
    <3>3. QED
      BY <2>4, <3>1, <3>2 DEF c
  <2>6. Chars(Sent') = 1..written' - Pending'
    BY <1>0, <1>s, <2>1, <2>2, <2>3, <2>5 DEF TxOrder, RingOK
  <2>7. ASSUME NEW k \in 1..Pending'
        PROVE  buf'[(tail' + k - 1) % XMIT] = written' - Pending' + k
    <3>1. k \in 1..XMIT /\ k < XMIT /\ k + 1 \in 1..Pending
          /\ tail + (k + 1) - 1 = tail + k
      BY <1>0, <1>s, <2>2 DEF Slots
    <3>2. (tail' + k - 1) % XMIT = (tail + k) % XMIT
      BY <1>s, <2>1, <3>1, RingSlots
    <3>3. buf[(tail + (k + 1) - 1) % XMIT] = written - Pending + (k + 1)
      BY <3>1 DEF RingHolds
    <3>4. QED
      BY <1>0, <1>s, <2>1, <2>2, <3>1, <3>2, <3>3
  <2>8. QED
    BY <2>5, <2>6, <2>7 DEF TxOrder, RingHolds
<1>10. CASE PutChar
  <2>1. txfifo' = Append(txfifo, ch) /\ sender = "put" /\ sender' = "ring"
        /\ UNCHANGED <<buf, head, tail, written, line, ch>>
    BY <1>10 DEF PutChar, Push
  <2>2. Sent' = Sent
    <3>1. Sent = (line \o txfifo) \o <<ch>> /\ Sent' = (line \o Append(txfifo, ch)) \o <<>>
      BY <2>1 DEF Sent, Taken
    <3>2. QED
      BY <1>s, <3>1, PutLast
  <2>3. QED
    BY <1>1, <2>1, <2>2
<1>11. CASE TxLeave
  <2>1. line' \o txfifo' = line \o txfifo
    BY <1>s, <1>11, PassedOn DEF TxLeave
  <2>2. Sent' = Sent
    BY <1>11, <2>1 DEF TxLeave, Sent, Taken
  <2>3. QED
    BY <1>1, <1>11, <2>2 DEF TxLeave
<1>12. QED
  BY <1>3, <1>4, <1>5, <1>6, <1>7, <1>8, <1>9, <1>10, <1>11
  DEF UartNext, uartVars, UartProbe, RxArrive, Polling, TimerExpire, PollChar,
      PollDone, StartTx

\* Whatever the ring wraps, the FIFOs fill, the other end stops and the port is
\* closed and opened again: what start_tx() takes goes out in the order of the
\* writes, once, and what the receive FIFO took reaches the tty in order, once
\* (liteuart.c:102-122, 147-163).
THEOREM UartInOrder == UartSpec => []InOrder
<1> DEFINE OrderInv == UartTypeInv /\ RxOrder /\ TxOrder /\ RingHolds
<1>1. UartInit => OrderInv
  <2> SUFFICES ASSUME UartInit PROVE OrderInv
    OBVIOUS
  <2>1. UartTypeInv /\ Pending = 0
    BY UartTypeInit, PendingType DEF UartTypeInv, UartInit
  <2>2. Sent = <<>> /\ Received = <<>>
    <3>1. <<>> \in Seq(Nat)
      OBVIOUS
    <3>2. <<>> \o <<>> = <<>>
      BY <3>1, ConcatEmptySeq
    <3>3. QED
      BY <3>2 DEF UartInit, Sent, Received, Taken
  <2>3. Ascending(<<>>) /\ Chars(<<>>) = {}
    BY DEF Ascending, Chars
  <2>4. QED
    BY <2>1, <2>2, <2>3 DEF UartInit, RxOrder, TxOrder, RingHolds
<1>2. OrderInv /\ [UartNext]_uartVars => OrderInv'
  BY UartTypeStep, RxOrderStep, TxOrderStep
<1>3. OrderInv => InOrder
  BY DEF RxOrder, TxOrder, RingHolds, InOrder
<1>4. QED
  BY <1>1, <1>2, <1>3, PTL DEF UartSpec
=============================================================================
