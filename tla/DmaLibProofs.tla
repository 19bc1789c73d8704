---------------------------- MODULE DmaLibProofs -----------------------------
(***************************************************************************)
(* Theorems about DmaLib, for every ring of the driver and every chunk of  *)
(* litepcie_dma_process(): read() and write() never block, what is played  *)
(* through zero-copy buffers is played in order, and, for an engine that   *)
(* writes less than a ring ahead (RxAhead < COUNT), what is recorded reaches *)
(* the client in order.                                                    *)
(***************************************************************************)
EXTENDS DmaLib, TLAPS

LEMMA HalfFacts ==
  COUNT \in Nat \ {0} /\ Half \in Nat \ {0} /\ COUNT = Half + Half /\ 0 \in Slots
BY CountAssumption DEF Half, Slots

-----------------------------------------------------------------------------
\* Slots of a ring.
LEMMA ModFacts ==
  ASSUME NEW x \in Int
  PROVE  /\ x % COUNT \in Slots
         /\ \E q \in Int : x = COUNT * q + (x % COUNT)
<1>1. COUNT \in Nat \ {0}
  BY HalfFacts
<1>2. x % COUNT \in 0..COUNT - 1 /\ x \div COUNT \in Int
      /\ x = COUNT * (x \div COUNT) + (x % COUNT)
  BY <1>1
<1>3. QED
  BY <1>2 DEF Slots

LEMMA MulMono ==
  ASSUME NEW a \in Int, NEW b \in Int, a <= b
  PROVE  COUNT * a <= COUNT * b
BY HalfFacts

\* Two places of a stream that share a slot are at least a ring apart.
LEMMA SameSlot ==
  ASSUME NEW x \in Int, NEW y \in Int, x % COUNT = y % COUNT, x < y
  PROVE  x + COUNT <= y
<1>1. PICK p \in Int : x = COUNT * p + (x % COUNT)
  BY ModFacts
<1>2. PICK q \in Int : y = COUNT * q + (y % COUNT)
  BY ModFacts
<1>3. x % COUNT \in Int
  BY ModFacts DEF Slots
<1>4. p < q
  <2>1. SUFFICES ASSUME q <= p PROVE FALSE
    OBVIOUS
  <2>2. COUNT * q <= COUNT * p
    BY <2>1, MulMono
  <2>3. COUNT * q \in Int /\ COUNT * p \in Int
    BY HalfFacts
  <2>4. QED
    BY <1>1, <1>2, <1>3, <2>2, <2>3
<1>5. COUNT * (p + 1) <= COUNT * q /\ COUNT * (p + 1) = COUNT * p + COUNT
  BY <1>4, MulMono, HalfFacts
<1>6. COUNT * q \in Int /\ COUNT * p \in Int /\ COUNT \in Int
  BY HalfFacts
<1>7. QED
  BY <1>1, <1>2, <1>3, <1>5, <1>6

\* The only remainder.
LEMMA ModIs ==
  ASSUME NEW q \in Int, NEW r \in Slots
  PROVE  (COUNT * q + r) % COUNT = r
<1> DEFINE x == COUNT * q + r
<1>1. COUNT * q \in Int /\ r \in Int /\ 0 <= r /\ r < COUNT /\ COUNT \in Nat \ {0} /\ x \in Int
  BY HalfFacts DEF Slots
<1>2. PICK p \in Int : x = COUNT * p + (x % COUNT)
  BY <1>1, ModFacts
<1>3. x % COUNT \in Int /\ 0 <= x % COUNT /\ x % COUNT < COUNT /\ COUNT * p \in Int
  BY <1>1, ModFacts DEF Slots
<1> HIDE DEF x
<1>4. x = COUNT * q + r
  BY DEF x
<1>5. p = q
  <2>1. ASSUME p < q PROVE FALSE
    <3>1. COUNT * (p + 1) <= COUNT * q /\ COUNT * (p + 1) = COUNT * p + COUNT
      BY <2>1, MulMono, HalfFacts
    <3>2. QED
      BY <1>1, <1>2, <1>3, <1>4, <3>1
  <2>2. ASSUME q < p PROVE FALSE
    <3>1. COUNT * (q + 1) <= COUNT * p /\ COUNT * (q + 1) = COUNT * q + COUNT
      BY <2>2, MulMono, HalfFacts
    <3>2. QED
      BY <1>1, <1>2, <1>3, <1>4, <3>1
  <2>3. QED
    BY <2>1, <2>2
<1>6. QED
  BY <1>1, <1>2, <1>3, <1>4, <1>5 DEF x

LEMMA OwnSlot ==
  ASSUME NEW r \in Slots
  PROVE  r % COUNT = r
<1>1. COUNT \in Nat \ {0} /\ r \in 0..COUNT - 1
  BY HalfFacts DEF Slots
<1>2. r = COUNT * (r \div COUNT) + (r % COUNT) /\ r % COUNT \in 0..COUNT - 1
      /\ r \div COUNT \in Int
  BY <1>1
<1>3. QED
  BY <1>1, <1>2

\* The slot after that of x is that of x + 1.
LEMMA NextSlot ==
  ASSUME NEW x \in Int
  PROVE  ((x % COUNT) + 1) % COUNT = (x + 1) % COUNT
<1> DEFINE r == x % COUNT
<1>1. PICK q \in Int : x = COUNT * q + r
  BY ModFacts
<1>2. r \in Int /\ 0 <= r /\ r < COUNT /\ COUNT \in Nat \ {0} /\ COUNT * q \in Int
  BY ModFacts, HalfFacts DEF Slots
<1> HIDE DEF r
<1>3. CASE r + 1 < COUNT
  <2>1. r + 1 \in Slots /\ x + 1 = COUNT * q + (r + 1)
    BY <1>1, <1>2, <1>3 DEF Slots
  <2>2. (x + 1) % COUNT = r + 1
    BY <2>1, ModIs
  <2>3. (r + 1) % COUNT = r + 1
    BY <2>1, OwnSlot
  <2>4. QED
    BY <2>2, <2>3 DEF r
<1>4. CASE r + 1 = COUNT
  <2>1. x + 1 = COUNT * (q + 1) + 0 /\ r + 1 = COUNT * 1 + 0
    BY <1>1, <1>2, <1>4
  <2>2. (x + 1) % COUNT = 0
    <3>1. q + 1 \in Int /\ (COUNT * (q + 1) + 0) % COUNT = 0
      BY ModIs, HalfFacts
    <3>2. QED
      BY <2>1, <3>1
  <2>3. (r + 1) % COUNT = 0
    BY <2>1, ModIs, HalfFacts
  <2>4. QED
    BY <2>2, <2>3 DEF r
<1>5. QED
  BY <1>2, <1>3, <1>4

\* A mapped slot holds a buffer or none.
LEMMA MappedType ==
  ASSUME NEW s \in Slots, done["writer"] \in Nat
  PROVE  Mapped(s) \in {None} \cup Nat
<1> DEFINE d == done["writer"]
           held == {n \in 0..d - 1 : n % COUNT = s}
<1>1. CASE held = {}
  BY <1>1 DEF Mapped
<1>2. CASE held # {}
  <2>1. PICK o \in held : TRUE
    BY <1>2
  <2> DEFINE m == d - 1 - ((d - 1 - s) % COUNT)
  <2>2. d \in Nat /\ s \in Int /\ d - 1 - s \in Int /\ COUNT \in Nat
    BY HalfFacts DEF Slots
  <2>3. PICK q \in Int : d - 1 - s = COUNT * q + ((d - 1 - s) % COUNT)
    BY <2>2, ModFacts
  <2>4. (d - 1 - s) % COUNT \in Int /\ 0 <= (d - 1 - s) % COUNT
        /\ (d - 1 - s) % COUNT < COUNT /\ COUNT * q \in Int
    <3>1. (d - 1 - s) % COUNT \in Slots
      BY <2>2, ModFacts
    <3>2. QED
      BY <2>2, <3>1 DEF Slots
  <2>5. m = COUNT * q + s
    BY <2>2, <2>3, <2>4
  <2>6. m % COUNT = s
    BY <2>5, ModIs
  <2>7. m \in Int /\ m <= d - 1 /\ d - 1 < m + COUNT
    BY <2>2, <2>4
  <2> HIDE DEF m
  <2>8. \A n \in held : n <= m
    <3>1. SUFFICES ASSUME NEW n \in held, m < n PROVE FALSE
      BY <2>7
    <3>2. m + COUNT <= n
      BY <2>6, <2>7, <3>1, SameSlot
    <3>3. QED
      BY <2>2, <2>7, <3>1, <3>2
  <2>9. m \in held
    BY <2>1, <2>2, <2>6, <2>7, <2>8
  <2>10. (CHOOSE n \in held : \A n2 \in held : n2 <= n) \in held
    BY <2>8, <2>9
  <2>11. QED
    BY <1>2, <2>10 DEF Mapped
<1>3. QED
  BY <1>1, <1>2

\* The slot of a completed buffer holds it until the engine is there again.
LEMMA MappedIs ==
  ASSUME done["writer"] \in Nat,
         NEW n \in Nat, n < done["writer"], done["writer"] < n + COUNT
  PROVE  Mapped(n % COUNT) = n
<1> DEFINE d == done["writer"]
           s == n % COUNT
           held == {k \in 0..d - 1 : k % COUNT = s}
<1>1. n \in held /\ COUNT \in Nat
  BY HalfFacts
<1>2. s # d % COUNT
  BY <1>1, SameSlot
<1>3. ASSUME NEW k \in held PROVE k <= n
  <2>1. SUFFICES ASSUME n < k PROVE FALSE
    OBVIOUS
  <2>2. n + COUNT <= k
    BY <2>1, SameSlot
  <2>3. QED
    BY <1>1, <2>2
<1>4. (CHOOSE k \in held : \A o \in held : o <= k) = n
  <2> DEFINE c == CHOOSE k \in held : \A o \in held : o <= k
  <2>1. c \in held /\ \A o \in held : o <= c
    BY <1>1, <1>3
  <2> HIDE DEF c
  <2>2. c <= n /\ n <= c
    BY <1>1, <1>3, <2>1
  <2>3. c = n
    BY <2>1, <2>2
  <2>4. QED
    BY <2>3 DEF c
<1>5. QED
  BY <1>1, <1>2, <1>4 DEF Mapped

-----------------------------------------------------------------------------
\* The types of LibTypeOK, without the bounds.
LibBase ==
  /\ zero_copy \in BOOLEAN /\ use \subseteq Engines /\ running \subseteq use
  /\ done \in [Engines -> Nat] /\ hw \in [Engines -> Nat] /\ sw \in [Engines -> Nat]
  /\ tx_ring \in [Slots -> {None} \cup Nat]
  /\ lib \in [Engines -> [hw : Nat, sw : Nat]]
  /\ pc \in {"writer", "reader", "poll", "pollin", "pollout", "fill", "take"}
  /\ revents \subseteq use
  /\ avail \in [Engines -> Nat] /\ off \in [Engines -> Slots]
  /\ buf_rd \in [Slots -> {None} \cup Nat] /\ buf_wr \in [Slots -> {None} \cup Nat]
  /\ file \in {None} \cup Nat /\ played \in {None} \cup Nat /\ block \in Nat

\* The counts of the driver against the engines and the program: the reader is
\* given half a ring at most, and has no buffer the program has not been given.
CountsOK ==
  /\ \A e \in Engines : hw[e] <= done[e] /\ done[e] <= MaxPos
  /\ sw["writer"] <= hw["writer"]
  /\ done["reader"] <= sw["reader"] /\ sw["reader"] <= hw["reader"] + Half
  /\ zero_copy => done["reader"] <= block
  /\ block + avail["reader"] = sw["reader"] /\ avail["reader"] <= Half
  /\ pc # "fill" => avail["reader"] = 0
  /\ pc \in {"writer", "reader", "poll", "pollin"} => avail["writer"] = 0

\* What the enable ioctls reported may be late, never wrong.
ReportOK ==
  /\ pc \in {"reader", "poll", "pollin"} /\ "writer" \in use =>
       /\ lib["writer"].sw = sw["writer"] /\ lib["writer"].sw <= lib["writer"].hw
       /\ lib["writer"].hw <= hw["writer"]
  /\ pc \in {"poll", "pollin", "pollout"} /\ "reader" \in use =>
       /\ lib["reader"].sw = sw["reader"] /\ lib["reader"].hw <= lib["reader"].sw
       /\ lib["reader"].sw <= lib["reader"].hw + Half
       /\ lib["reader"].hw <= hw["reader"]

CountInv == LibBase /\ CountsOK /\ ReportOK /\ NoCallBlocks

LEMMA CountInit == Init => CountInv
BY HalfFacts, BoundAssumption, ModesAssumption, UsesAssumption
DEF Init, CountInv, LibBase, CountsOK, ReportOK, NoCallBlocks, Engines, None

LEMMA CountStep == CountInv /\ [Next]_vars => CountInv'
<1> SUFFICES ASSUME CountInv, [Next]_vars PROVE CountInv'
  OBVIOUS
<1> USE HalfFacts
<1>0. LibBase /\ CountsOK /\ ReportOK /\ NoCallBlocks
  BY DEF CountInv
<1>u. CASE UNCHANGED vars
  BY <1>0, <1>u DEF vars, CountInv, LibBase, CountsOK, ReportOK, NoCallBlocks, Mapped
<1>1. CASE RxComplete
  <2>1. done' \in [Engines -> Nat] /\ done'["writer"] = done["writer"] + 1
        /\ done'["reader"] = done["reader"]
    BY <1>0, <1>1 DEF RxComplete, LibBase, Engines
  <2>2. LibBase'
    BY <1>0, <1>1, <2>1 DEF RxComplete, progVars, LibBase
  <2>3. CountsOK'
    BY <1>0, <1>1, <2>1, BoundAssumption DEF RxComplete, progVars, LibBase, CountsOK, Engines
  <2>4. QED
    BY <1>0, <1>1, <2>2, <2>3 DEF RxComplete, progVars, CountInv, ReportOK, NoCallBlocks
<1>2. CASE TxComplete
  <2>1. done' \in [Engines -> Nat] /\ done'["reader"] = done["reader"] + 1
        /\ done'["writer"] = done["writer"]
    BY <1>0, <1>2 DEF TxComplete, LibBase, Engines
  <2>2. played' \in {None} \cup Nat
    <3>1. done["reader"] % COUNT \in Slots
      BY <1>0, ModFacts DEF LibBase, Engines
    <3>2. QED
      BY <1>0, <1>2, <3>1 DEF TxComplete, LibBase
  <2>3. LibBase'
    BY <1>0, <1>2, <2>1, <2>2 DEF TxComplete, progVars, LibBase
  <2>4. CountsOK'
    BY <1>0, <1>2, <2>1, BoundAssumption
    DEF TxComplete, progVars, LibBase, CountsOK, Engines, Filled
  <2>5. QED
    BY <1>0, <1>2, <2>3, <2>4 DEF TxComplete, progVars, CountInv, ReportOK, NoCallBlocks
<1>3. ASSUME NEW e \in Engines, Interrupt(e)
      PROVE  CountInv'
  <2>1. hw' \in [Engines -> Nat] /\ hw'[e] = done[e]
        /\ \A f \in Engines : hw[f] <= hw'[f] /\ hw'[f] <= done[f]
    BY <1>0, <1>3 DEF Interrupt, LibBase, CountsOK, Engines
  <2>2. LibBase'
    BY <1>0, <1>3, <2>1 DEF Interrupt, progVars, LibBase
  <2>3. CountsOK'
    BY <1>0, <1>3, <2>1 DEF Interrupt, progVars, LibBase, CountsOK, Engines
  <2>4. ReportOK' /\ NoCallBlocks'
    BY <1>0, <1>3, <2>1
    DEF Interrupt, progVars, LibBase, ReportOK, NoCallBlocks, Engines
  <2>5. QED
    BY <2>2, <2>3, <2>4 DEF CountInv
<1>4. CASE EnableWriter \/ EnableReader
  <2>1. \E e \in Engines, n \in {"reader", "poll"} :
          Enable(e, n) /\ (e = "writer" <=> n = "reader")
    BY <1>4 DEF EnableWriter, EnableReader, Engines
  <2>2. PICK e \in Engines, n \in {"reader", "poll"} :
          Enable(e, n) /\ (e = "writer" <=> n = "reader")
    BY <2>1
  <2>3. lib' \in [Engines -> [hw : Nat, sw : Nat]] /\ running' \subseteq use
        /\ (e \in use => lib'[e].hw = hw[e] /\ lib'[e].sw = sw[e])
        /\ \A f \in Engines \ {e} : lib'[f] = lib[f]
    <3>1. CASE e \in use
      <4>1. lib' = [lib EXCEPT ![e] = [hw |-> hw[e], sw |-> sw[e]]]
            /\ running' = running \cup {e}
        BY <2>2, <3>1 DEF Enable
      <4>2. hw[e] \in Nat /\ sw[e] \in Nat /\ running \subseteq use
            /\ lib \in [Engines -> [hw : Nat, sw : Nat]]
        BY <1>0 DEF LibBase
      <4>3. QED
        BY <3>1, <4>1, <4>2
    <3>2. CASE e \notin use
      BY <1>0, <2>2, <3>2 DEF Enable, LibBase
    <3>3. QED
      BY <3>1, <3>2
  <2>4. LibBase'
    BY <1>0, <2>2, <2>3 DEF Enable, LibBase
  <2>5. CountsOK' /\ NoCallBlocks'
    BY <1>0, <2>2 DEF Enable, CountsOK, NoCallBlocks, Engines
  <2>6. ReportOK'
    BY <1>0, <2>2, <2>3 DEF Enable, LibBase, CountsOK, ReportOK, Engines
  <2>7. QED
    BY <2>4, <2>5, <2>6 DEF CountInv
<1>5. CASE Poll
  <2>1. UNCHANGED <<zero_copy, use, running, done, hw, sw, tx_ring, lib, avail, off,
                    buf_rd, buf_wr, file, block, played>>
        /\ pc = "poll" /\ revents' \subseteq use /\ pc' \in {"pollin", "fill"}
    BY <1>0, <1>5 DEF Poll, PollReady, PollTimeout, PollInterrupted, LibBase
  <2>2. pc' = "pollin" => revents' \subseteq Mask
    BY <1>5 DEF Poll, PollReady, PollTimeout, PollInterrupted
  <2>3. LibBase' /\ CountsOK' /\ ReportOK'
    BY <1>0, <2>1 DEF LibBase, CountsOK, ReportOK
  <2>4. /\ "writer" \in Mask => sw["writer"] < hw["writer"]
        /\ "reader" \in Mask => sw["reader"] - hw["reader"] < Half
    BY <1>0 DEF Mask, LibBase, Engines
  <2>5. NoCallBlocks'
    BY <2>1, <2>2, <2>4 DEF NoCallBlocks
  <2>6. QED
    BY <2>3, <2>5 DEF CountInv
<1>6. CASE NoRead \/ NoWrite
  <2>1. /\ UNCHANGED <<zero_copy, use, running, done, hw, sw, tx_ring, lib, revents, off,
                        buf_rd, buf_wr, file, block, played>>
        /\ avail' \in [Engines -> Nat]
        /\ \/ pc = "pollin" /\ pc' = "pollout" /\ avail'["reader"] = avail["reader"]
           \/ pc = "pollout" /\ pc' = "fill" /\ avail'["reader"] = 0
    BY <1>0, <1>6 DEF NoRead, NoWrite, LibBase, Engines
  <2>2. LibBase'
    BY <1>0, <2>1 DEF LibBase
  <2>3. CountsOK' /\ ReportOK' /\ NoCallBlocks'
    BY <1>0, <2>1 DEF CountsOK, ReportOK, NoCallBlocks
  <2>4. QED
    BY <2>2, <2>3 DEF CountInv
<1>7. CASE ReadZeroCopy
  <2> DEFINE l == lib["writer"]
  <2>1. l.hw \in Nat /\ l.sw \in Nat /\ l.sw = sw["writer"] /\ l.sw <= l.hw
        /\ l.hw <= hw["writer"] /\ l.hw - l.sw \in Nat /\ l.sw % COUNT \in Slots
    <3>1. "writer" \in use /\ pc = "pollin" /\ l \in [hw : Nat, sw : Nat]
      BY <1>0, <1>7 DEF ReadZeroCopy, LibBase, Engines
    <3>2. QED
      BY <1>0, <3>1, ModFacts DEF ReportOK
  <2> HIDE DEF l
  <2>2. avail' = [avail EXCEPT !["writer"] = l.hw - l.sw]
        /\ off' = [off EXCEPT !["writer"] = l.sw % COUNT]
        /\ sw' = [sw EXCEPT !["writer"] = l.hw] /\ pc = "pollin" /\ pc' = "pollout"
        /\ UNCHANGED <<zero_copy, use, running, done, hw, tx_ring, lib, revents, buf_rd,
                       buf_wr, file, block, played>>
    BY <1>7 DEF ReadZeroCopy, WriterUpdate, l
  <2>3. avail' \in [Engines -> Nat] /\ off' \in [Engines -> Slots]
        /\ sw' \in [Engines -> Nat] /\ sw'["writer"] = l.hw
        /\ sw'["reader"] = sw["reader"] /\ avail'["reader"] = avail["reader"]
    BY <1>0, <2>1, <2>2 DEF LibBase, Engines
  <2>4. LibBase'
    BY <1>0, <2>2, <2>3 DEF LibBase
  <2>5. CountsOK'
    BY <1>0, <2>1, <2>2, <2>3 DEF CountsOK
  <2>6. ReportOK' /\ NoCallBlocks'
    BY <1>0, <2>2, <2>3 DEF ReportOK, NoCallBlocks
  <2>7. QED
    BY <2>4, <2>5, <2>6 DEF CountInv
<1>8. CASE ReadCopy
  <2> DEFINE h     == hw["writer"]
             late  == h - Half
             first == IF sw["writer"] < late THEN late ELSE sw["writer"]
  <2>1. h \in Nat /\ first \in Nat /\ first <= h /\ h - first \in Nat /\ 0 \in Slots
    BY <1>0, <1>8 DEF ReadCopy, LibBase, Engines
  <2>2. \A s \in Slots : Mapped((first + s) % COUNT) \in {None} \cup Nat
    <3>1. done["writer"] \in Nat /\ \A s \in Slots : first + s \in Int
      BY <1>0, <2>1 DEF LibBase, Engines, Slots
    <3> HIDE DEF first
    <3>2. \A s \in Slots : (first + s) % COUNT \in Slots
      BY <3>1, ModFacts
    <3>3. QED
      BY <3>1, <3>2, MappedType
  <2>3. buf_rd' = [s \in Slots |-> IF s < h - first THEN Mapped((first + s) % COUNT)
                                 ELSE buf_rd[s]]
        /\ avail' = [avail EXCEPT !["writer"] = h - first]
        /\ off' = [off EXCEPT !["writer"] = 0]
        /\ sw' = [sw EXCEPT !["writer"] = h] /\ pc = "pollin" /\ pc' = "pollout"
        /\ UNCHANGED <<zero_copy, use, running, done, hw, tx_ring, lib, revents,
                       buf_wr, file, block, played>>
    BY <1>8 DEF ReadCopy
  <2> HIDE DEF first, h
  <2>4. buf_rd' \in [Slots -> {None} \cup Nat]
    BY <1>0, <2>2, <2>3 DEF LibBase
  <2>5. avail' \in [Engines -> Nat] /\ off' \in [Engines -> Slots]
        /\ sw' \in [Engines -> Nat] /\ sw'["writer"] = h
        /\ sw'["reader"] = sw["reader"] /\ avail'["reader"] = avail["reader"]
    BY <1>0, <2>1, <2>3 DEF LibBase, Engines
  <2>6. LibBase'
    BY <1>0, <2>3, <2>4, <2>5 DEF LibBase
  <2>7. CountsOK'
    BY <1>0, <2>1, <2>3, <2>5 DEF CountsOK, h
  <2>8. ReportOK' /\ NoCallBlocks'
    BY <1>0, <2>3, <2>5 DEF ReportOK, NoCallBlocks
  <2>9. QED
    BY <2>6, <2>7, <2>8 DEF CountInv
<1>9. CASE WriteZeroCopy \/ WriteCopy
  <2>1. PICK n \in Nat : sw' = [sw EXCEPT !["reader"] = @ + n]
                       /\ avail' = [avail EXCEPT !["reader"] = n]
                       /\ sw["reader"] + n <= hw["reader"] + Half /\ n <= Half
    <3>1. CASE WriteZeroCopy
      <4> DEFINE l == lib["reader"]
                 n == Half - (l.sw - l.hw)
      <4>1. l.hw \in Nat /\ l.sw \in Nat /\ l.sw = sw["reader"] /\ l.hw <= l.sw
            /\ l.sw <= l.hw + Half /\ l.hw <= hw["reader"]
        <5>1. "reader" \in use /\ pc = "pollout" /\ l \in [hw : Nat, sw : Nat]
          BY <1>0, <3>1 DEF WriteZeroCopy, LibBase, Engines
        <5>2. QED
          BY <1>0, <5>1 DEF ReportOK
      <4>2. sw' = [sw EXCEPT !["reader"] = l.sw + n]
            /\ avail' = [avail EXCEPT !["reader"] = n]
        BY <3>1 DEF WriteZeroCopy, ReaderUpdate
      <4> HIDE DEF l
      <4>3. n \in Nat /\ sw["reader"] \in Nat /\ hw["reader"] \in Nat
        BY <1>0, <4>1 DEF LibBase, Engines
      <4> HIDE DEF n
      <4>4. sw' = [sw EXCEPT !["reader"] = @ + n]
        BY <4>1, <4>2
      <4>5. sw["reader"] + n <= hw["reader"] + Half /\ n <= Half
        BY <4>1, <4>3 DEF n
      <4>6. QED
        BY <4>2, <4>3, <4>4, <4>5
    <3>2. CASE WriteCopy
      <4> DEFINE n == Half - (sw["reader"] - hw["reader"])
      <4>1. sw' = [sw EXCEPT !["reader"] = @ + n]
            /\ avail' = [avail EXCEPT !["reader"] = n]
        BY <3>2 DEF WriteCopy
      <4>2. n \in Nat /\ sw["reader"] + n <= hw["reader"] + Half /\ n <= Half
        BY <1>0, <3>2 DEF WriteCopy, LibBase, CountsOK, Engines
      <4> HIDE DEF n
      <4>3. QED
        BY <4>1, <4>2
    <3>3. QED
      BY <1>9, <3>1, <3>2
  <2>2. off' \in [Engines -> Slots] /\ pc = "pollout" /\ pc' = "fill"
        /\ UNCHANGED <<zero_copy, use, running, done, hw, lib, revents, buf_rd, buf_wr,
                       file, block, played>>
    <3>1. CASE WriteZeroCopy
      <4>1. lib["reader"].sw % COUNT \in Slots
        BY <1>0, ModFacts DEF LibBase, Engines
      <4>2. QED
        BY <1>0, <3>1, <4>1 DEF WriteZeroCopy, LibBase
    <3>2. CASE WriteCopy
      BY <1>0, <3>2 DEF WriteCopy, LibBase
    <3>3. QED
      BY <1>9, <3>1, <3>2
  <2>3. tx_ring' \in [Slots -> {None} \cup Nat]
    <3>1. CASE WriteZeroCopy
      BY <1>0, <3>1 DEF WriteZeroCopy, LibBase
    <3>2. CASE WriteCopy
      <4>1. \A s \in Slots : (s - sw["reader"]) % COUNT \in Slots
        <5>1. \A s \in Slots : s - sw["reader"] \in Int
          BY <1>0 DEF LibBase, Engines, Slots
        <5>2. QED
          BY <5>1, ModFacts
      <4>2. QED
        BY <1>0, <3>2, <4>1 DEF WriteCopy, LibBase
    <3>3. QED
      BY <1>9, <3>1, <3>2
  <2>4. sw' \in [Engines -> Nat] /\ sw'["reader"] = sw["reader"] + n
        /\ sw'["writer"] = sw["writer"] /\ avail' \in [Engines -> Nat]
        /\ avail'["reader"] = n /\ avail'["writer"] = avail["writer"]
    BY <1>0, <2>1 DEF LibBase, Engines
  <2>5. LibBase'
    BY <1>0, <2>2, <2>3, <2>4 DEF LibBase
  <2>6. CountsOK'
    BY <1>0, <2>1, <2>2, <2>4 DEF LibBase, CountsOK, Engines
  <2>7. ReportOK' /\ NoCallBlocks'
    BY <2>2 DEF ReportOK, NoCallBlocks
  <2>8. QED
    BY <2>5, <2>6, <2>7 DEF CountInv
<1>10. CASE Fill
  <2>1. avail["reader"] > 0 /\ avail' = [avail EXCEPT !["reader"] = @ - 1]
        /\ off' = [off EXCEPT !["reader"] = (@ + 1) % COUNT]
        /\ block' = block + 1 /\ pc = "fill" /\ pc' = "fill"
        /\ UNCHANGED <<zero_copy, use, running, done, hw, sw, lib, revents, buf_rd,
                       file, played>>
    BY <1>10 DEF Fill, NextBuffer
  <2>2. (off["reader"] + 1) % COUNT \in Slots
    <3>1. off["reader"] + 1 \in Int
      BY <1>0 DEF LibBase, Engines, Slots
    <3>2. QED
      BY <3>1, ModFacts
  <2>3. tx_ring' \in [Slots -> {None} \cup Nat] /\ buf_wr' \in [Slots -> {None} \cup Nat]
    <3>1. off["reader"] \in Slots /\ block \in Nat
      BY <1>0 DEF LibBase, Engines
    <3>2. QED
      BY <1>0, <1>10, <3>1 DEF Fill, LibBase
  <2>4. avail' \in [Engines -> Nat] /\ off' \in [Engines -> Slots]
        /\ avail'["reader"] = avail["reader"] - 1 /\ avail'["writer"] = avail["writer"]
        /\ block' \in Nat
    BY <1>0, <2>1, <2>2 DEF LibBase, Engines
  <2>5. LibBase'
    BY <1>0, <2>1, <2>3, <2>4 DEF LibBase
  <2>6. CountsOK'
    BY <1>0, <2>1, <2>4 DEF LibBase, CountsOK, Engines
  <2>7. ReportOK' /\ NoCallBlocks'
    BY <2>1 DEF ReportOK, NoCallBlocks
  <2>8. QED
    BY <2>5, <2>6, <2>7 DEF CountInv
<1>11. CASE Take
  <2>1. avail["writer"] > 0 /\ avail' = [avail EXCEPT !["writer"] = @ - 1]
        /\ off' = [off EXCEPT !["writer"] = (@ + 1) % COUNT]
        /\ pc = "take" /\ pc' = "take"
        /\ UNCHANGED <<zero_copy, use, running, done, hw, sw, tx_ring, lib, revents,
                       buf_rd, buf_wr, block, played>>
    BY <1>11 DEF Take, NextBuffer
  <2>2. (off["writer"] + 1) % COUNT \in Slots
    <3>1. off["writer"] + 1 \in Int
      BY <1>0 DEF LibBase, Engines, Slots
    <3>2. QED
      BY <3>1, ModFacts
  <2>3. file' \in {None} \cup Nat
    <3>1. off["writer"] \in Slots /\ done["writer"] \in Nat
      BY <1>0 DEF LibBase, Engines
    <3>2. Mapped(off["writer"]) \in {None} \cup Nat
      BY <3>1, MappedType
    <3>3. buf_rd[off["writer"]] \in {None} \cup Nat
      BY <1>0, <3>1 DEF LibBase
    <3>4. QED
      BY <1>11, <3>2, <3>3 DEF Take
  <2>4. avail' \in [Engines -> Nat] /\ off' \in [Engines -> Slots]
        /\ avail'["reader"] = avail["reader"]
    BY <1>0, <2>1, <2>2 DEF LibBase, Engines
  <2>5. LibBase'
    BY <1>0, <2>1, <2>3, <2>4 DEF LibBase
  <2>6. CountsOK' /\ ReportOK' /\ NoCallBlocks'
    BY <1>0, <2>1, <2>4 DEF CountsOK, ReportOK, NoCallBlocks
  <2>7. QED
    BY <2>5, <2>6 DEF CountInv
<1>12. CASE Filling \/ Again
  BY <1>0, <1>12 DEF Filling, Again, CountInv, LibBase, CountsOK, ReportOK, NoCallBlocks
<1>13. QED
  BY <1>u, <1>1, <1>2, <1>3, <1>4, <1>5, <1>6, <1>7, <1>8, <1>9, <1>10, <1>11, <1>12
  DEF Next, Program, Process, Poll

\* No call of process() blocks, whatever the counts did between the ioctl,
\* poll() and the call (main.c:460, 515, 610-613, litepcie_dma.c:165-221).
THEOREM LibNoCallBlocks == Spec => []NoCallBlocks
<1>1. CountInv => NoCallBlocks
  BY DEF CountInv
<1>2. QED
  BY CountInit, CountStep, <1>1, PTL DEF Spec

-----------------------------------------------------------------------------
\* In zero-copy mode the blocks of the file stand in the mapped ring, the last
\* ring of them at least, and the engine is at one of these.
PlayInv ==
  zero_copy =>
    /\ played = done["reader"] - 1
    /\ avail["reader"] > 0 => off["reader"] = block % COUNT
    /\ \A n \in Nat : n < block /\ block <= n + COUNT => tx_ring[n % COUNT] = n

LEMMA PlayStep ==
  ASSUME CountInv, PlayInv, [Next]_vars
  PROVE  PlayInv' /\ (zero_copy /\ played' # played => played' = played + 1)
<1> USE HalfFacts
<1>0. LibBase /\ CountsOK /\ ReportOK
  BY DEF CountInv
<1>1. zero_copy' = zero_copy /\ zero_copy \in BOOLEAN
  BY <1>0 DEF LibBase, Next, vars, RxComplete, TxComplete, Interrupt, Program, Process,
     EnableWriter, EnableReader, Enable, Poll, PollReady, PollTimeout,
     PollInterrupted, NoRead, ReadZeroCopy, ReadCopy, NoWrite, WriteZeroCopy,
     WriteCopy, Fill, Filling, Take, Again
<1> SUFFICES ASSUME zero_copy
             PROVE  PlayInv' /\ (played' # played => played' = played + 1)
  BY <1>1 DEF PlayInv
<1>2. /\ played = done["reader"] - 1
      /\ avail["reader"] > 0 => off["reader"] = block % COUNT
      /\ \A n \in Nat : n < block /\ block <= n + COUNT => tx_ring[n % COUNT] = n
  BY DEF PlayInv
<1>3. ASSUME played' = played, done'["reader"] = done["reader"],
             avail'["reader"] = avail["reader"] \/ avail'["reader"] = 0,
             off'["reader"] = off["reader"], UNCHANGED <<tx_ring, block>>
      PROVE  PlayInv' /\ (played' # played => played' = played + 1)
  BY <1>2, <1>3 DEF PlayInv
<1>4. CASE RxComplete
  BY <1>0, <1>3, <1>4 DEF RxComplete, progVars, LibBase, Engines
<1>5. CASE TxComplete
  <2> DEFINE d == done["reader"]
  <2>1. d \in Nat /\ d < block /\ block <= d + COUNT /\ block \in Nat
    BY <1>0, <1>5 DEF TxComplete, Filled, LibBase, CountsOK, Engines
  <2>2. tx_ring[d % COUNT] = d
    BY <1>2, <2>1
  <2>3. played' = d
    BY <1>5, <2>1, <2>2 DEF TxComplete, None
  <2>4. done'["reader"] = d + 1
    BY <1>0, <1>5 DEF TxComplete, LibBase, Engines
  <2>5. UNCHANGED <<avail, off, block, tx_ring>>
    BY <1>5 DEF TxComplete, progVars
  <2> HIDE DEF d
  <2>6. played' = done'["reader"] - 1
    BY <2>1, <2>3, <2>4
  <2>7. PlayInv'
    BY <1>2, <2>5, <2>6 DEF PlayInv
  <2>8. played' = played + 1
    BY <1>2, <2>1, <2>3 DEF d
  <2>9. QED
    BY <2>7, <2>8
<1>6. CASE UNCHANGED vars \/ (\E e \in Engines : Interrupt(e))
             \/ EnableWriter \/ EnableReader \/ Poll \/ Filling \/ Again
  BY <1>3, <1>6 DEF vars, Interrupt, progVars, EnableWriter, EnableReader, Enable, Poll,
     PollReady, PollTimeout, PollInterrupted, Filling, Again
<1>7. CASE NoRead \/ ReadZeroCopy \/ ReadCopy \/ NoWrite \/ Take
  <2>1. played' = played /\ UNCHANGED <<done, tx_ring, block>>
    BY <1>7 DEF NoRead, ReadZeroCopy, ReadCopy, NoWrite, Take
  <2>2. off'["reader"] = off["reader"]
    BY <1>0, <1>7 DEF NoRead, ReadZeroCopy, ReadCopy, NoWrite, Take, NextBuffer, LibBase, Engines
  <2>3. avail'["reader"] = avail["reader"] \/ avail'["reader"] = 0
    BY <1>0, <1>7 DEF NoRead, ReadZeroCopy, ReadCopy, NoWrite, Take, NextBuffer, LibBase, Engines
  <2>4. QED
    BY <1>3, <2>1, <2>2, <2>3
<1>8. CASE WriteZeroCopy
  <2>1. block = sw["reader"] /\ lib["reader"].sw = sw["reader"]
    <3>1. "reader" \in use /\ pc = "pollout"
      BY <1>0, <1>8 DEF WriteZeroCopy, LibBase
    <3>2. avail["reader"] = 0 /\ block \in Nat
      BY <1>0, <3>1 DEF CountsOK, LibBase
    <3>3. QED
      BY <1>0, <3>1, <3>2 DEF CountsOK, ReportOK
  <2>2. off'["reader"] = block % COUNT
    BY <1>0, <1>8, <2>1 DEF WriteZeroCopy, LibBase, Engines
  <2>3. UNCHANGED <<played, done, tx_ring, block>>
    BY <1>8 DEF WriteZeroCopy
  <2>4. QED
    BY <1>2, <2>2, <2>3 DEF PlayInv
<1>9. CASE WriteCopy
  BY <1>9 DEF WriteCopy
<1>10. CASE Fill
  <2>1. avail["reader"] > 0 /\ off' = [off EXCEPT !["reader"] = (@ + 1) % COUNT]
        /\ block' = block + 1 /\ tx_ring' = [tx_ring EXCEPT ![off["reader"]] = block]
        /\ UNCHANGED <<played, done>>
    BY <1>10 DEF Fill, NextBuffer
  <2>2. block \in Nat /\ block % COUNT \in Slots /\ off["reader"] = block % COUNT
    <3>1. block \in Nat /\ block \in Int
      BY <1>0 DEF LibBase
    <3>2. block % COUNT \in Slots
      BY <3>1, ModFacts
    <3>3. QED
      BY <1>2, <2>1, <3>1, <3>2
  <2>3. off'["reader"] = (block + 1) % COUNT
    BY <1>0, <2>1, <2>2, NextSlot DEF LibBase, Engines
  <2>4. ASSUME NEW n \in Nat, n < block', block' <= n + COUNT
        PROVE  tx_ring'[n % COUNT] = n
    <3>1. CASE n = block
      BY <1>0, <2>1, <2>2, <3>1 DEF LibBase
    <3>2. CASE n < block
      <4>1. n % COUNT # block % COUNT
        <5>1. n \in Int /\ block \in Int /\ ~(n + COUNT <= block)
          BY <2>1, <2>2, <2>4
        <5>2. QED
          BY <3>2, <5>1, SameSlot
      <4>2. tx_ring[n % COUNT] = n /\ n % COUNT \in Slots
        <5>1. n \in Int /\ block <= n + COUNT
          BY <2>1, <2>2, <2>4
        <5>2. n % COUNT \in Slots
          BY <5>1, ModFacts
        <5>3. QED
          BY <1>2, <3>2, <5>1, <5>2
      <4>3. QED
        BY <1>0, <2>1, <2>2, <4>1, <4>2 DEF LibBase
    <3>3. QED
      BY <2>1, <2>2, <2>4, <3>1, <3>2
  <2>5. QED
    BY <1>2, <2>1, <2>3, <2>4 DEF PlayInv
<1>11. QED
  BY <1>4, <1>5, <1>6, <1>7, <1>8, <1>9, <1>10 DEF Next, Program, Process

\* In zero-copy mode the engine plays the blocks of the file one after the
\* other, though each gets into the ring after its slot was handed over, and
\* however late the report of the ioctl is (litepcie_dma.c:198-207, 233-241,
\* litepcie_test.c:136-166).
THEOREM LibZeroCopyPlaysInOrder == Spec => ZeroCopyPlaysInOrder
<1>1. Init => CountInv /\ PlayInv
  BY CountInit, HalfFacts DEF Init, PlayInv, None, Engines
<1>2. CountInv /\ PlayInv /\ [Next]_vars => (CountInv /\ PlayInv)'
  BY CountStep, PlayStep
<1>3. CountInv /\ PlayInv /\ [Next]_vars
        => [zero_copy /\ played' # played => played' = played + 1]_vars
  BY PlayStep
<1>4. QED
  BY <1>1, <1>2, <1>3, PTL DEF Spec, ZeroCopyPlaysInOrder

-----------------------------------------------------------------------------
\* What is still to be taken.  In zero-copy mode the slots from that of the
\* first buffer not recorded, in copy mode what the last read() copied.
RecordInv ==
  /\ done["writer"] <= Untaken + RxAhead
  /\ zero_copy =>
       /\ file + 1 + avail["writer"] = sw["writer"]
       /\ avail["writer"] > 0 => off["writer"] = (file + 1) % COUNT
  /\ ~zero_copy =>
       /\ file < sw["writer"] - avail["writer"]
       /\ avail["writer"] > 0 => off["writer"] + avail["writer"] <= Half
       /\ avail["writer"] > 0 => \A j \in 0..avail["writer"] - 1 :
            buf_rd[off["writer"] + j] = sw["writer"] - avail["writer"] + j

InSequence ==
  file' # file => IF zero_copy THEN file' = file + 1 ELSE file' > file

LEMMA RecordStep ==
  ASSUME RxAhead < COUNT, CountInv, RecordInv, [Next]_vars
  PROVE  RecordInv' /\ InSequence
<1> USE HalfFacts, BoundAssumption
<1>0. LibBase /\ CountsOK /\ ReportOK
  BY DEF CountInv
<1>b. CountInv'
  BY CountStep
<1>n. /\ file \in Int /\ file >= -1 /\ sw["writer"] \in Nat /\ avail["writer"] \in Nat
      /\ done["writer"] \in Nat /\ hw["writer"] \in Nat /\ off["writer"] \in Slots
      /\ sw["writer"] <= hw["writer"] /\ hw["writer"] <= done["writer"]
      /\ zero_copy \in BOOLEAN
  BY <1>0 DEF LibBase, CountsOK, Engines, None
<1>1. ASSUME UNCHANGED <<zero_copy, file, buf_rd>>, done'["writer"] = done["writer"],
             avail'["writer"] = avail["writer"], sw'["writer"] = sw["writer"],
             off'["writer"] = off["writer"]
      PROVE  RecordInv' /\ InSequence
  BY <1>1 DEF RecordInv, InSequence, Untaken
<1>2. CASE RxComplete
  <2>1. done'["writer"] = done["writer"] + 1 /\ done["writer"] < Untaken + RxAhead
        /\ UNCHANGED <<zero_copy, file, buf_rd, avail, sw, off>>
    BY <1>0, <1>2 DEF RxComplete, progVars, LibBase, Engines
  <2>2. Untaken \in Int /\ Untaken' = Untaken
    BY <1>n, <2>1 DEF Untaken
  <2>3. done'["writer"] <= Untaken' + RxAhead
    BY <1>n, <2>1, <2>2
  <2>4. QED
    BY <2>1, <2>3 DEF RecordInv, InSequence
<1>3. CASE TxComplete
  BY <1>0, <1>1, <1>3 DEF TxComplete, progVars, LibBase, Engines
<1>4. CASE UNCHANGED vars \/ (\E e \in Engines : Interrupt(e))
             \/ EnableWriter \/ EnableReader \/ Poll \/ Filling \/ Again
  BY <1>1, <1>4 DEF vars, Interrupt, progVars, EnableWriter, EnableReader, Enable, Poll,
     PollReady, PollTimeout, PollInterrupted, Filling, Again
<1>5. CASE NoRead
  <2>1. avail["writer"] = 0 /\ avail'["writer"] = 0
        /\ UNCHANGED <<zero_copy, file, buf_rd, done, sw, off>>
    BY <1>0, <1>5 DEF NoRead, LibBase, CountsOK, Engines
  <2>2. QED
    BY <1>1, <2>1
<1>6. CASE NoWrite \/ WriteZeroCopy \/ WriteCopy \/ Fill
  <2>1. UNCHANGED <<zero_copy, file, buf_rd, done>>
    BY <1>6 DEF NoWrite, WriteZeroCopy, WriteCopy, Fill
  <2>2. avail'["writer"] = avail["writer"]
    BY <1>0, <1>6 DEF NoWrite, WriteZeroCopy, WriteCopy, Fill, NextBuffer, LibBase, Engines
  <2>3. sw'["writer"] = sw["writer"]
    BY <1>0, <1>6
    DEF NoWrite, WriteZeroCopy, WriteCopy, ReaderUpdate, Fill, LibBase, Engines
  <2>4. off'["writer"] = off["writer"]
    BY <1>0, <1>6 DEF NoWrite, WriteZeroCopy, WriteCopy, Fill, NextBuffer, LibBase, Engines
  <2>5. QED
    BY <1>1, <2>1, <2>2, <2>3, <2>4
<1>7. CASE ReadZeroCopy
  <2> DEFINE l == lib["writer"]
  <2>1. l.sw = sw["writer"] /\ avail["writer"] = 0 /\ zero_copy /\ l.hw \in Nat
    <3>1. "writer" \in use /\ pc = "pollin" /\ l \in [hw : Nat, sw : Nat]
      BY <1>0, <1>7 DEF ReadZeroCopy, LibBase, Engines
    <3>2. QED
      BY <1>0, <1>7, <3>1 DEF CountsOK, ReportOK, ReadZeroCopy
  <2>2. avail'["writer"] = l.hw - l.sw /\ off'["writer"] = l.sw % COUNT
        /\ sw'["writer"] = l.hw /\ UNCHANGED <<zero_copy, file, done>>
    BY <1>0, <1>7 DEF ReadZeroCopy, WriterUpdate, LibBase, Engines
  <2> HIDE DEF l
  <2>3. file + 1 = sw["writer"]
    BY <1>n, <2>1 DEF RecordInv
  <2>4. QED
    BY <1>n, <2>1, <2>2, <2>3 DEF RecordInv, InSequence, Untaken
<1>8. CASE ReadCopy
  <2> DEFINE h     == hw["writer"]
             late  == h - Half
             first == IF sw["writer"] < late THEN late ELSE sw["writer"]
  <2>1. ~zero_copy /\ pc = "pollin" /\ avail["writer"] = 0 /\ UNCHANGED <<zero_copy, file, done>>
    BY <1>0, <1>8 DEF ReadCopy, CountsOK
  <2>2. first \in Nat /\ sw["writer"] <= first /\ first <= h /\ h - first <= Half
    BY <1>n
  <2>3. avail'["writer"] = h - first /\ off'["writer"] = 0 /\ sw'["writer"] = h
        /\ buf_rd' = [s \in Slots |-> IF s < h - first THEN Mapped((first + s) % COUNT)
                                     ELSE buf_rd[s]]
    BY <1>0, <1>8 DEF ReadCopy, LibBase, Engines
  <2> HIDE DEF first, h
  <2>4. h = hw["writer"] /\ done["writer"] <= sw["writer"] + RxAhead /\ file < sw["writer"]
    BY <1>n, <2>1 DEF RecordInv, Untaken, h
  <2>5. ASSUME NEW j \in 0..avail'["writer"] - 1
        PROVE  buf_rd'[off'["writer"] + j] = sw'["writer"] - avail'["writer"] + j
    <3>1. j \in Slots /\ j < h - first /\ off'["writer"] + j = j
      BY <1>n, <2>2, <2>3, <2>4 DEF Slots
    <3>2. first + j \in Nat /\ first + j < done["writer"]
          /\ done["writer"] < (first + j) + COUNT
      BY <1>n, <2>2, <2>3, <2>4, <3>1
    <3>3. Mapped((first + j) % COUNT) = first + j
      BY <1>n, <3>2, MappedIs
    <3>4. buf_rd'[j] = first + j
      BY <2>3, <3>1, <3>3
    <3>5. QED
      BY <1>n, <2>2, <2>3, <2>4, <3>1, <3>4
  <2>6. file' < sw'["writer"] - avail'["writer"] /\ off'["writer"] + avail'["writer"] <= Half
        /\ done'["writer"] <= Untaken' + RxAhead
    BY <1>n, <2>1, <2>2, <2>3, <2>4 DEF Untaken
  <2>7. QED
    BY <2>1, <2>5, <2>6 DEF RecordInv, InSequence
<1>9. CASE Take
  <2>1. avail["writer"] > 0 /\ avail'["writer"] = avail["writer"] - 1
        /\ off'["writer"] = (off["writer"] + 1) % COUNT
        /\ UNCHANGED <<zero_copy, done, sw, buf_rd>>
        /\ file' = IF zero_copy THEN Mapped(off["writer"]) ELSE buf_rd[off["writer"]]
    BY <1>0, <1>9 DEF Take, NextBuffer, LibBase, Engines
  <2>2. CASE zero_copy
    <3> DEFINE n == file + 1
    <3>1. n \in Nat /\ n + avail["writer"] = sw["writer"] /\ off["writer"] = n % COUNT
          /\ done["writer"] <= n + RxAhead
      BY <1>n, <2>1, <2>2 DEF RecordInv, Untaken
    <3> HIDE DEF n
    <3>2. n < done["writer"] /\ done["writer"] < n + COUNT
      BY <1>n, <2>1, <3>1
    <3>3. file' = n
      BY <1>n, <2>1, <2>2, <3>1, <3>2, MappedIs
    <3>4. off'["writer"] = (n + 1) % COUNT
      BY <2>1, <3>1, NextSlot
    <3>5. InSequence
      BY <2>2, <3>3 DEF InSequence, n
    <3>6. done'["writer"] <= Untaken' + RxAhead
      BY <1>n, <2>1, <2>2, <3>1, <3>3 DEF Untaken
    <3>7. file' + 1 + avail'["writer"] = sw'["writer"] /\ off'["writer"] = (file' + 1) % COUNT
      BY <1>n, <2>1, <3>1, <3>3, <3>4
    <3>8. QED
      BY <2>1, <2>2, <3>5, <3>6, <3>7 DEF RecordInv
  <2>3. CASE ~zero_copy
    <3> DEFINE o == off["writer"]
               a == avail["writer"]
               w == sw["writer"]
    <3>1. o \in Nat /\ a \in Nat \ {0} /\ w \in Nat /\ o + a <= Half /\ file < w - a
          /\ \A j \in 0..a - 1 : buf_rd[o + j] = w - a + j
      BY <1>n, <2>1, <2>3 DEF RecordInv, Slots
    <3>2. avail'["writer"] = a - 1 /\ sw'["writer"] = w /\ off'["writer"] = (o + 1) % COUNT
          /\ file' = buf_rd[o]
      BY <2>1, <2>3
    <3> HIDE DEF o, a, w
    <3>3. file' = w - a
      <4>1. 0 \in 0..a - 1 /\ o + 0 = o /\ w - a + 0 = w - a
        BY <3>1
      <4>2. QED
        BY <3>1, <3>2, <4>1
    <3>4. off'["writer"] = o + 1
      <4>1. o + 1 \in Slots
        BY <3>1 DEF Slots
      <4>2. QED
        BY <3>2, <4>1, OwnSlot
    <3>5. ASSUME NEW j \in 0..avail'["writer"] - 1
          PROVE  buf_rd'[off'["writer"] + j] = sw'["writer"] - avail'["writer"] + j
      <4>1. j + 1 \in 0..a - 1 /\ (o + 1) + j = o + (j + 1)
        BY <3>1, <3>2
      <4>2. buf_rd[o + (j + 1)] = w - a + (j + 1)
        BY <3>1, <4>1
      <4>3. QED
        BY <2>1, <3>1, <3>2, <3>4, <4>1, <4>2
    <3>6. file' < sw'["writer"] - avail'["writer"] /\ off'["writer"] + avail'["writer"] <= Half
          /\ file' > file
      BY <1>n, <3>1, <3>2, <3>3, <3>4
    <3>7. done'["writer"] <= Untaken' + RxAhead
      BY <2>1, <2>3 DEF RecordInv, Untaken
    <3>8. QED
      BY <2>1, <2>3, <3>5, <3>6, <3>7 DEF RecordInv, InSequence
  <2>4. QED
    BY <1>n, <2>2, <2>3
<1>10. QED
  BY <1>2, <1>3, <1>4, <1>5, <1>6, <1>7, <1>8, <1>9 DEF Next, Program, Process

LEMMA RecordInit == Init => RecordInv
BY HalfFacts, BoundAssumption DEF Init, RecordInv, Untaken, None, Engines

\* With less than a ring between the engine and the program, the program
\* records every buffer of the stream in zero-copy mode, although it hands all
\* of them back first; in copy mode what it records is in order, without a
\* buffer twice (litepcie_dma.c:175-193, 223-231, litepcie_test.c:67-82).
THEOREM LibRecordsInOrder ==
  ASSUME RxAhead < COUNT
  PROVE  Spec => RecordsInOrder
<1>1. Init => CountInv /\ RecordInv
  BY CountInit, RecordInit
<1>2. CountInv /\ RecordInv /\ [Next]_vars => (CountInv /\ RecordInv)'
  BY CountStep, RecordStep
<1>3. CountInv /\ RecordInv /\ [Next]_vars
        => [file' # file => IF zero_copy THEN file' = file + 1 ELSE file' > file]_vars
  BY RecordStep DEF InSequence
<1>4. QED
  BY <1>1, <1>2, <1>3, PTL DEF Spec, RecordsInOrder

\* The types hold within their bounds and no call of process() blocks.
THEOREM LibInvariance ==
  ASSUME RxAhead < COUNT
  PROVE  Spec => []LibInv
<1>1. Init => CountInv /\ RecordInv
  BY CountInit, RecordInit
<1>2. CountInv /\ RecordInv /\ [Next]_vars => (CountInv /\ RecordInv)'
  BY CountStep, RecordStep
<1>3. ASSUME CountInv, RecordInv PROVE LibInv
  <2>1. LibBase /\ CountsOK /\ NoCallBlocks
    BY <1>3 DEF CountInv
  <2>2. \A e \in Engines : /\ done[e] \in 0..MaxPos + COUNT /\ hw[e] \in 0..MaxPos + COUNT
                           /\ sw[e] \in 0..MaxPos + COUNT
    BY <2>1, HalfFacts, BoundAssumption DEF LibBase, CountsOK, Engines
  <2>3. avail["writer"] <= COUNT
    <3>1. avail["writer"] \in Nat /\ off["writer"] \in Nat /\ file \in Int
          /\ sw["writer"] \in Nat /\ done["writer"] \in Nat
          /\ sw["writer"] <= done["writer"] /\ zero_copy \in BOOLEAN
      BY <2>1 DEF LibBase, CountsOK, Engines, Slots, None
    <3>2. CASE zero_copy
      BY <1>3, <3>1, <3>2, HalfFacts, BoundAssumption DEF RecordInv, Untaken
    <3>3. CASE ~zero_copy
      BY <1>3, <3>1, <3>3, HalfFacts DEF RecordInv
    <3>4. QED
      BY <3>1, <3>2, <3>3
  <2>4. \A e \in Engines : avail[e] \in 0..COUNT
    BY <2>1, <2>3, HalfFacts DEF LibBase, CountsOK, Engines
  <2>5. LibTypeOK
    BY <2>1, <2>2, <2>4 DEF LibBase, LibTypeOK
  <2>6. QED
    BY <2>1, <2>5 DEF LibInv
<1>4. QED
  BY <1>1, <1>2, <1>3, PTL DEF Spec
=============================================================================
