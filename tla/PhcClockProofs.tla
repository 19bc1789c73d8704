--------------------------- MODULE PhcClockProofs ---------------------------
(***************************************************************************)
(* Theorems about PhcClock, for any number of callers, every register      *)
(* width and every set of times: when calls come only after probe() has    *)
(* set up tmreg_lock (~EarlyCalls), the lock excludes, a read is a time    *)
(* the clock has shown, and the clock keeps what the calls have promised.  *)
(* Beside it the pulse generator, once settled, follows the clock.         *)
(***************************************************************************)
EXTENDS PpsGenerator, TLAPS

\* The two halves of a register, also of a negative time (main.c:1019-1042).
LEMMA WordFacts ==
  /\ \A t \in Int : High(t) \in Int /\ Low(t) \in 0..(Base - 1)
                    /\ Word(High(t), Low(t)) = t
  /\ \A h \in Int, l \in 0..(Base - 1) : Word(h, l) \in Int /\ Low(Word(h, l)) = l
<1>0. Base \in Nat \ {0}
  BY BaseAssumption
<1>1. ASSUME NEW t \in Int
      PROVE  /\ t \div Base \in Int /\ t % Base \in 0..(Base - 1)
             /\ t = (t \div Base) * Base + (t % Base)
  <2>1. t \div Base \in Int
    BY <1>0
  <2>2. t % Base \in 0..(Base - 1)
    BY <1>0
  <2>3. t = Base * (t \div Base) + (t % Base)
    BY <1>0
  <2>4. Base * (t \div Base) = (t \div Base) * Base
    BY <1>0, <2>1
  <2>5. QED
    BY <2>1, <2>2, <2>3, <2>4
<1>2. ASSUME NEW h \in Int, NEW l \in 0..(Base - 1)
      PROVE  h * Base + l \in Int /\ (h * Base + l) % Base = l
  <2> DEFINE x == h * Base + l
  <2>1. x \in Int
    BY <1>0
  <2>2. x \div Base \in Int /\ x % Base \in 0..(Base - 1)
        /\ x = (x \div Base) * Base + (x % Base)
    BY <2>1, <1>1
  <2>3. QED
    BY <1>0, <2>1, <2>2
<1>3. ASSUME NEW t \in Int
      PROVE  High(t) \in Int /\ Low(t) \in 0..(Base - 1) /\ Word(High(t), Low(t)) = t
  BY <1>1 DEF High, Low, Word
<1>4. ASSUME NEW h \in Int, NEW l \in 0..(Base - 1)
      PROVE  Word(h, l) \in Int /\ Low(Word(h, l)) = l
  BY <1>2 DEF Low, Word
<1>5. QED
  BY <1>3, <1>4

CallType == [op : PhcOp, pc : PhcPc, arg : Int, val : Int,
             began : 0..MaxNow, shown : Int]

Writes(c) == call[c].op \in {"settime", "adjtime"}

\* A call is at one of its own places; before probe() has set up the lock
\* there is none.
ShapeOK ==
  /\ \A c \in Callers :
       /\ call[c].pc \in {"strobe", "high", "low"} => call[c].op # "settime"
       /\ call[c].pc \in {"wlow", "whigh", "load"} => Writes(c)
       /\ call[c].pc # "idle" => call[c].op \in {"gettime", "settime", "adjtime"}
  /\ ~inited => \A c \in Callers : call[c].pc = "idle"

TypeInv == PhcTypeOK /\ ShapeOK

LEMMA NoCallType == NoCall \in CallType /\ NoCall.pc = "idle"
BY MaxNowAssumption DEF NoCall, CallType, PhcOp, PhcPc

LEMMA TypeInit == PhcInit => TypeInv
<1> SUFFICES ASSUME PhcInit PROVE TypeInv
  OBVIOUS
<1>1. \A c \in Callers : lock # c /\ call[c].pc = "idle" /\ call[c] \in CallType
  BY NoCallType, CallersAssumption DEF PhcInit
<1>2. call \in [Callers -> CallType]
  BY <1>1 DEF PhcInit
<1>3. ShapeOK
  BY <1>1 DEF ShapeOK
<1>4. now \in 0..MaxNow /\ {time, read_time, write_time} \subseteq Int
      /\ promise \in [lo : Int, hi : Int]
  BY MaxNowAssumption DEF PhcInit
<1>5. strobe \in {"none", "read", "write"} /\ lock \in Callers \cup {NoOne}
      /\ inited \in BOOLEAN
  BY DEF PhcInit
<1>6. QED
  BY <1>1, <1>2, <1>3, <1>4, <1>5 DEF TypeInv, PhcTypeOK, CallType

\* What a caller's step does to its call: op stays, unless it begins or ends.
Moves(c, pc) ==
  /\ call' \in [Callers -> CallType]
  /\ call'[c].pc = pc
  /\ \A d \in Callers \ {c} : call'[d] = call[d]

Stays(c) ==
  /\ call'[c].op = call[c].op /\ call'[c].arg = call[c].arg
  /\ call'[c].began = call[c].began

LEMMA MoveFacts ==
  ASSUME TypeInv, NEW c \in Callers
  PROVE
  /\ GetTime(c) \/ SetTime(c) \/ AdjTime(c) =>
       /\ Moves(c, "lock") /\ call[c].pc = "idle"
       /\ call'[c].op \in {"gettime", "settime", "adjtime"}
  /\ Lock(c) =>
       /\ Moves(c, IF call[c].op = "settime" THEN "wlow" ELSE "strobe")
       /\ call'[c].op = call[c].op /\ call'[c].arg = call[c].arg
       /\ call'[c].began = now /\ call'[c].val = call[c].arg
  /\ ReadStrobe(c) => Moves(c, "high") /\ Stays(c) /\ call'[c].shown = time
  /\ ReadHigh(c) =>
       Moves(c, "low") /\ Stays(c) /\ call'[c].shown = call[c].shown
         /\ call'[c].val = High(read_time)
  /\ ReadLow(c) =>
       /\ Moves(c, IF call[c].op = "adjtime" THEN "wlow" ELSE "unlock")
       /\ Stays(c) /\ call'[c].shown = call[c].shown
       /\ LET t == Word(call[c].val, Low(read_time)) IN
            call'[c].val = IF call[c].op = "adjtime" THEN t + call[c].arg ELSE t
  /\ WriteLow(c) => Moves(c, "whigh") /\ Stays(c) /\ call'[c].val = call[c].val
  /\ WriteHigh(c) => Moves(c, "load") /\ Stays(c) /\ call'[c].val = call[c].val
  /\ WriteStrobe(c) => Moves(c, "unlock") /\ Stays(c) /\ call'[c].val = call[c].val
  /\ Unlock(c) => Moves(c, "idle")
<1>0. /\ call \in [Callers -> CallType] /\ now \in 0..MaxNow
      /\ time \in Int /\ read_time \in Int /\ write_time \in Int
      /\ SetTimes \subseteq Int /\ Deltas \subseteq Int /\ MaxNow \in Nat
  BY TimesAssumption, MaxNowAssumption DEF TypeInv, PhcTypeOK, CallType
<1> USE DEF Moves, Stays, Goto
<1>1. ASSUME NEW op \in {"gettime", "settime", "adjtime"}, NEW arg \in Int,
             Begin(c, op, arg)
      PROVE  /\ Moves(c, "lock") /\ call[c].pc = "idle"
             /\ call'[c].op \in {"gettime", "settime", "adjtime"}
  <2> DEFINE r == [[[NoCall EXCEPT !.op = op] EXCEPT !.pc = "lock"] EXCEPT !.arg = arg]
  <2>1. call' = [call EXCEPT ![c] = r]
    BY <1>1 DEF Begin
  <2>2. op \in PhcOp /\ "lock" \in PhcPc
    BY DEF PhcOp, PhcPc
  <2>3. r \in CallType /\ r.pc = "lock" /\ r.op = op
    BY <2>2, NoCallType DEF CallType
  <2> HIDE DEF r
  <2>4. QED
    BY <1>0, <1>1, <2>1, <2>3, NoCallType DEF Begin
<1>2. GetTime(c) \/ SetTime(c) \/ AdjTime(c) =>
        /\ Moves(c, "lock") /\ call[c].pc = "idle"
        /\ call'[c].op \in {"gettime", "settime", "adjtime"}
  BY <1>0, <1>1 DEF GetTime, SetTime, AdjTime
<1>3. Lock(c) =>
        /\ Moves(c, IF call[c].op = "settime" THEN "wlow" ELSE "strobe")
        /\ call'[c].op = call[c].op /\ call'[c].arg = call[c].arg
        /\ call'[c].began = now /\ call'[c].val = call[c].arg
  <2> DEFINE pc == IF call[c].op = "settime" THEN "wlow" ELSE "strobe"
             r == [[[call[c] EXCEPT !.pc = pc] EXCEPT !.val = call[c].arg]
                     EXCEPT !.began = now]
  <2>1. Lock(c) => call' = [call EXCEPT ![c] = r]
    BY <1>0 DEF Lock
  <2>2. r \in CallType /\ r.pc = pc /\ r.op = call[c].op
        /\ r.arg = call[c].arg /\ r.began = now /\ r.val = call[c].arg
    BY <1>0 DEF CallType, PhcPc
  <2> HIDE DEF r
  <2>3. QED
    BY <1>0, <2>1, <2>2
<1>4. ReadStrobe(c) => Moves(c, "high") /\ Stays(c) /\ call'[c].shown = time
  <2> DEFINE r == [[call[c] EXCEPT !.pc = "high"] EXCEPT !.shown = time]
  <2>1. ReadStrobe(c) => call' = [call EXCEPT ![c] = r]
    BY <1>0 DEF ReadStrobe
  <2>2. r \in CallType /\ r.pc = "high" /\ r.op = call[c].op
        /\ r.arg = call[c].arg /\ r.began = call[c].began /\ r.shown = time
    BY <1>0 DEF CallType, PhcPc
  <2> HIDE DEF r
  <2>3. QED
    BY <1>0, <2>1, <2>2
<1>5. ReadHigh(c) =>
        Moves(c, "low") /\ Stays(c) /\ call'[c].shown = call[c].shown
          /\ call'[c].val = High(read_time)
  <2> DEFINE r == [[call[c] EXCEPT !.pc = "low"] EXCEPT !.val = High(read_time)]
  <2>1. ReadHigh(c) => call' = [call EXCEPT ![c] = r]
    BY <1>0 DEF ReadHigh
  <2>2. High(read_time) \in Int
    BY <1>0, WordFacts
  <2>3. r \in CallType /\ r.pc = "low" /\ r.op = call[c].op
        /\ r.arg = call[c].arg /\ r.began = call[c].began
        /\ r.shown = call[c].shown /\ r.val = High(read_time)
    BY <1>0, <2>2 DEF CallType, PhcPc
  <2> HIDE DEF r
  <2>4. QED
    BY <1>0, <2>1, <2>3
<1>6. ReadLow(c) =>
        /\ Moves(c, IF call[c].op = "adjtime" THEN "wlow" ELSE "unlock")
        /\ Stays(c) /\ call'[c].shown = call[c].shown
        /\ LET t == Word(call[c].val, Low(read_time)) IN
             call'[c].val = IF call[c].op = "adjtime" THEN t + call[c].arg ELSE t
  <2>1. Word(call[c].val, Low(read_time)) \in Int /\ call[c].arg \in Int
    BY <1>0, WordFacts DEF CallType
  <2> DEFINE t == Word(call[c].val, Low(read_time))
             pc == IF call[c].op = "adjtime" THEN "wlow" ELSE "unlock"
             v == IF call[c].op = "adjtime" THEN t + call[c].arg ELSE t
             r == [[call[c] EXCEPT !.pc = pc] EXCEPT !.val = v]
  <2>2. ReadLow(c) => call' = [call EXCEPT ![c] = r]
    BY <1>0 DEF ReadLow
  <2>3. v \in Int
    BY <2>1
  <2> HIDE DEF t, v
  <2>4. r \in CallType /\ r.pc = pc /\ r.op = call[c].op
        /\ r.arg = call[c].arg /\ r.began = call[c].began
        /\ r.shown = call[c].shown /\ r.val = v
    BY <1>0, <2>3 DEF CallType, PhcPc
  <2> HIDE DEF r
  <2>5. ReadLow(c) => /\ Moves(c, pc) /\ Stays(c) /\ call'[c].shown = call[c].shown
                      /\ call'[c].val = v
    BY <1>0, <2>2, <2>4
  <2>6. QED
    BY <2>5 DEF t, v
<1>7. /\ WriteLow(c) => Moves(c, "whigh") /\ Stays(c) /\ call'[c].val = call[c].val
      /\ WriteHigh(c) => Moves(c, "load") /\ Stays(c) /\ call'[c].val = call[c].val
      /\ WriteStrobe(c) => Moves(c, "unlock") /\ Stays(c) /\ call'[c].val = call[c].val
  BY <1>0 DEF WriteLow, WriteHigh, WriteStrobe, CallType, PhcPc
<1>8. Unlock(c) => Moves(c, "idle")
  BY <1>0, NoCallType DEF Unlock
<1>9. QED
  BY <1>2, <1>3, <1>4, <1>5, <1>6, <1>7, <1>8

\* Where no lock is set up there is no call, and InitLock changes no lock.
LEMMA TypeStep ==
  ASSUME ~EarlyCalls, TypeInv, [PhcNext]_phcVars
  PROVE  TypeInv'
<1>0. /\ call \in [Callers -> CallType] /\ now \in 0..MaxNow
      /\ time \in Int /\ read_time \in Int /\ write_time \in Int
      /\ SetTimes \subseteq Int /\ Deltas \subseteq Int /\ MaxNow \in Nat
      /\ NoOne \notin Callers
  BY TimesAssumption, MaxNowAssumption, CallersAssumption
  DEF TypeInv, PhcTypeOK, CallType
<1>1. CASE UNCHANGED phcVars
  BY <1>1 DEF phcVars, TypeInv, PhcTypeOK, ShapeOK, Writes
<1>2. CASE Tick
  <2>1. now' \in 0..MaxNow
    BY <1>0, <1>2 DEF Tick
  <2>2. time' \in Int /\ read_time' \in Int /\ strobe' = "none"
    BY <1>0, <1>2 DEF Tick, Edge
  <2>3. UNCHANGED <<write_time, lock, inited, call, promise>>
    BY <1>2 DEF Tick
  <2>4. QED
    BY <2>1, <2>2, <2>3 DEF TypeInv, PhcTypeOK, ShapeOK, Writes
<1>3. CASE InitLock
  <2>1. \A c \in Callers : call[c].pc = "idle"
    BY <1>3 DEF InitLock, TypeInv, ShapeOK
  <2>2. QED
    BY <1>0, <1>3, <2>1 DEF InitLock, TypeInv, PhcTypeOK, ShapeOK, Writes
<1>4. ASSUME NEW c \in Callers, Call(c) PROVE TypeInv'
  <2>1. inited
    BY <1>4 DEF Call, GetTime, SetTime, AdjTime, Begin, Lock, ReadStrobe, ReadHigh,
                ReadLow, WriteLow, WriteHigh, WriteStrobe, Unlock, TypeInv, ShapeOK
  <2>2. inited' /\ UNCHANGED <<now, time, read_time>>
    BY <1>4, <2>1
    DEF Call, GetTime, SetTime, AdjTime, Begin, Lock, ReadStrobe, ReadHigh,
        ReadLow, WriteLow, WriteHigh, WriteStrobe, Unlock
  <2>3. ASSUME NEW pc \in PhcPc, Moves(c, pc),
               lock' \in Callers \cup {NoOne},
               lock' = c <=> pc \notin {"idle", "lock"},
               \A d \in Callers \ {c} : lock' = d <=> lock = d,
               strobe' \in {"none", "read", "write"}, write_time' \in Int,
               promise' \in [lo : Int, hi : Int],
               pc \in {"strobe", "high", "low"} => call'[c].op # "settime",
               pc \in {"wlow", "whigh", "load"} => Writes(c)',
               pc # "idle" => call'[c].op \in {"gettime", "settime", "adjtime"}
        PROVE  TypeInv'
    <3>1. PhcTypeOK'
      BY <1>0, <2>1, <2>2, <2>3 DEF TypeInv, PhcTypeOK, Moves, CallType
    <3>2. ShapeOK'
      BY <1>0, <2>1, <2>2, <2>3 DEF TypeInv, ShapeOK, Moves, Writes
    <3>3. QED
      BY <3>1, <3>2 DEF TypeInv
  <2>4. CASE GetTime(c) \/ SetTime(c) \/ AdjTime(c)
    <3>1. Moves(c, "lock") /\ call[c].pc = "idle"
          /\ call'[c].op \in {"gettime", "settime", "adjtime"}
      BY <2>4, MoveFacts
    <3>2. UNCHANGED <<strobe, lock, write_time, promise>>
      BY <2>4 DEF GetTime, SetTime, AdjTime, Begin
    <3>3. QED
      BY <1>0, <2>3, <3>1, <3>2 DEF TypeInv, PhcTypeOK, PhcPc
  <2>5. CASE Lock(c)
    <3>1. /\ lock = NoOne /\ lock' = c
          /\ UNCHANGED <<strobe, write_time, promise>>
      BY <2>5 DEF Lock
    <3>2. call[c].op \in {"gettime", "settime", "adjtime"}
      BY <2>5 DEF Lock, TypeInv, ShapeOK
    <3>3. Moves(c, IF call[c].op = "settime" THEN "wlow" ELSE "strobe")
          /\ call'[c].op = call[c].op
      BY <2>5, MoveFacts
    <3>4. QED
      BY <1>0, <2>3, <3>1, <3>2, <3>3 DEF TypeInv, PhcTypeOK, PhcPc, Writes
  <2>6. CASE ReadStrobe(c) \/ ReadHigh(c) \/ ReadLow(c)
    <3>1. UNCHANGED <<lock, write_time, promise>>
          /\ strobe' \in {"none", "read", "write"}
      BY <2>6 DEF ReadStrobe, ReadHigh, ReadLow, TypeInv, PhcTypeOK
    <3>2. lock = c /\ call[c].pc \in {"strobe", "high", "low"}
          /\ call[c].op \in {"gettime", "adjtime"} /\ call'[c].op = call[c].op
      BY <2>6, MoveFacts
      DEF ReadStrobe, ReadHigh, ReadLow, Stays, TypeInv, PhcTypeOK, ShapeOK
    <3>3. QED
      BY <1>0, <2>3, <2>6, <3>1, <3>2, MoveFacts
      DEF TypeInv, PhcTypeOK, PhcPc, Writes
  <2>7. CASE WriteLow(c) \/ WriteHigh(c) \/ WriteStrobe(c)
    <3>1. UNCHANGED <<lock, promise>> /\ strobe' \in {"none", "read", "write"}
      BY <2>7 DEF WriteLow, WriteHigh, WriteStrobe, TypeInv, PhcTypeOK
    <3>2. write_time' \in Int
      <4>1. call[c].val \in Int
            /\ Word(High(write_time), Low(call[c].val)) \in Int
            /\ Word(High(call[c].val), Low(write_time)) \in Int
        BY <1>0, WordFacts DEF CallType
      <4>2. QED
        BY <1>0, <2>7, <4>1 DEF WriteLow, WriteHigh, WriteStrobe
    <3>3. lock = c /\ Writes(c) /\ call'[c].op = call[c].op
      BY <2>7, MoveFacts
      DEF WriteLow, WriteHigh, WriteStrobe, Stays, TypeInv, PhcTypeOK, ShapeOK
    <3>4. QED
      BY <1>0, <2>3, <2>7, <3>1, <3>2, <3>3, MoveFacts
      DEF TypeInv, PhcTypeOK, PhcPc, Writes
  <2>8. CASE Unlock(c)
    <3>1. Promised(c) \in [lo : Int, hi : Int]
      BY <1>0 DEF Promised, TypeInv, PhcTypeOK, CallType
    <3>2. lock = c
      BY <2>8 DEF Unlock, TypeInv, PhcTypeOK
    <3>3. QED
      BY <1>0, <2>3, <2>8, <3>1, <3>2, MoveFacts
      DEF Unlock, TypeInv, PhcTypeOK, PhcPc
  <2>9. QED
    BY <1>4, <2>4, <2>5, <2>6, <2>7, <2>8 DEF Call
<1>5. QED
  BY <1>1, <1>2, <1>3, <1>4 DEF PhcNext

-----------------------------------------------------------------------------
\* While a call goes on time - now stays what it was until the loading strobe
\* has crossed; what the call has read, and the value it is about to load,
\* are tied to it.
Off == time - now
Between(x, p) == p.lo <= x /\ x <= p.hi

StrobeOf(c) ==
  /\ strobe = "read" => call[c].pc = "high"
  /\ strobe = "write" => call[c].pc = "unlock" /\ Writes(c)

\* The snapshot is a time of this call.
Reading(c) ==
  /\ call[c].pc = "high" /\ strobe = "read" => call[c].shown <= time
  /\ (call[c].pc = "high" /\ strobe # "read") \/ call[c].pc = "low" =>
       /\ call[c].began <= read_time - Off
       /\ read_time <= time /\ call[c].shown <= read_time
  /\ call[c].pc = "low" => call[c].val = High(read_time)
  /\ call[c].pc = "unlock" /\ call[c].op = "gettime" =>
       call[c].shown <= call[c].val /\ call[c].val <= time

\* What will be loaded, or has been.
Pending(c) == call[c].pc \in {"wlow", "whigh", "load"} \/ strobe = "write"
Loaded(c) == call[c].pc = "unlock" /\ Writes(c) /\ strobe # "write"
Writing(c) ==
  /\ Pending(c) /\ call[c].op = "settime" => call[c].val = call[c].arg
  /\ Pending(c) /\ call[c].op = "adjtime" =>
       /\ call[c].began <= call[c].val - call[c].arg - Off
       /\ call[c].val - call[c].arg - Off <= now
  /\ call[c].pc = "whigh" => Low(write_time) = Low(call[c].val)
  /\ call[c].pc = "load" \/ strobe = "write" => write_time = call[c].val
  /\ Loaded(c) => Between(Off, Promised(c))
  /\ ~Loaded(c) => Between(Off, promise)

\* Between calls; a strobe may still be crossing.
Free ==
  /\ strobe # "read"
  /\ strobe = "write" => Between(write_time - (now + 1), promise)
  /\ strobe # "write" => Between(Off, promise)

HeldInv ==
  /\ \A c \in Callers : lock = c =>
       call[c].began <= now /\ StrobeOf(c) /\ Reading(c) /\ Writing(c)
  /\ lock = NoOne => Free

LEMMA HeldInit == PhcInit => HeldInv
<1> SUFFICES ASSUME PhcInit PROVE HeldInv
  OBVIOUS
<1>1. lock = NoOne /\ Free
  BY DEF PhcInit, Free, Off, Between
<1>2. QED
  BY <1>1, CallersAssumption DEF HeldInv

\* Another caller's view does not change with a call it does not make.
LEMMA HeldStep ==
  ASSUME ~EarlyCalls, TypeInv, TypeInv', HeldInv, [PhcNext]_phcVars
  PROVE  HeldInv'
<1>0. /\ call \in [Callers -> CallType] /\ now \in Int /\ time \in Int
      /\ read_time \in Int /\ write_time \in Int
      /\ promise.lo \in Int /\ promise.hi \in Int
      /\ strobe \in {"none", "read", "write"}
      /\ NoOne \notin Callers /\ lock \in Callers \cup {NoOne}
  BY MaxNowAssumption, CallersAssumption DEF TypeInv, PhcTypeOK, CallType
<1>t. ASSUME NEW c \in Callers
      PROVE  /\ call[c].arg \in Int /\ call[c].val \in Int /\ call[c].shown \in Int
             /\ call[c].began \in Int /\ call[c].op \in PhcOp /\ call[c].pc \in PhcPc
             /\ lock = c <=> call[c].pc \notin {"idle", "lock"}
  BY <1>0, MaxNowAssumption DEF CallType, TypeInv, PhcTypeOK
<1>1. CASE UNCHANGED phcVars
  BY <1>1 DEF phcVars, HeldInv, StrobeOf, Reading, Writing, Pending, Loaded, Writes,
              Free, Off, Between, Promised
<1>2. CASE Tick
  <2>1. /\ now' = now + 1 /\ strobe' = "none"
        /\ time' = IF strobe = "write" THEN write_time ELSE time + 1
        /\ read_time' = IF strobe = "read" THEN time ELSE read_time
        /\ UNCHANGED <<write_time, lock, inited, call, promise>>
    BY <1>2 DEF Tick, Edge
  <2>2. ASSUME NEW c \in Callers, lock = c
        PROVE  call[c].began <= now' /\ StrobeOf(c)' /\ Reading(c)' /\ Writing(c)'
    <3>1. call[c].began <= now /\ StrobeOf(c) /\ Reading(c) /\ Writing(c)
      BY <2>2 DEF HeldInv
    <3>2. call[c].began <= now' /\ StrobeOf(c)'
      BY <1>0, <1>t, <2>1, <3>1 DEF StrobeOf
    <3>3. Reading(c)'
      BY <1>0, <1>t, <2>1, <3>1 DEF Reading, StrobeOf, Off, Writes
    <3>4. Writing(c)'
      <4>1. CASE strobe # "write"
        <5>1. Off' = Off
          BY <1>0, <2>1, <4>1 DEF Off
        <5>2. /\ Pending(c)' => Pending(c)
              /\ Loaded(c)' = Loaded(c)
          BY <2>1, <4>1 DEF Pending, Loaded, Writes
        <5>3. Loaded(c) => Between(Off, Promised(c))'
          BY <1>0, <1>t, <2>1, <3>1, <5>1
          DEF Writing, Between, Promised, Loaded, Writes, Off
        <5>4. QED
          BY <1>0, <1>t, <2>1, <3>1, <4>1, <5>1, <5>2, <5>3 DEF Writing, Between, Off
      <4>2. CASE strobe = "write"
        <5>1. /\ call[c].pc = "unlock" /\ call[c].op \in {"settime", "adjtime"}
              /\ Pending(c) /\ ~Loaded(c) /\ Loaded(c)' /\ ~Pending(c)'
          BY <2>1, <3>1, <4>2 DEF StrobeOf, Pending, Loaded, Writes
        <5>2. time' = call[c].val /\ Off' = call[c].val - now - 1
          BY <1>0, <1>t, <2>1, <3>1, <4>2 DEF Writing, Off
        <5>3. CASE call[c].op = "settime"
          <6>1. call[c].val = call[c].arg
            BY <3>1, <5>1, <5>3 DEF Writing
          <6>2. Promised(c)' = [lo |-> call[c].arg - now' - 1,
                                hi |-> call[c].arg - call[c].began]
            BY <2>1, <5>3 DEF Promised
          <6>3. Between(Off, Promised(c))'
            BY <1>0, <1>t, <2>1, <3>1, <5>2, <6>1, <6>2 DEF Between
          <6>4. QED
            BY <2>1, <5>1, <6>3 DEF Writing
        <5>4. CASE call[c].op = "adjtime"
          <6>1. /\ call[c].began <= call[c].val - call[c].arg - Off
                /\ call[c].val - call[c].arg - Off <= now
                /\ promise.lo <= Off /\ Off <= promise.hi
            BY <3>1, <5>1, <5>4 DEF Writing, Between
          <6>2. Promised(c)' = [lo |-> promise.lo + call[c].arg
                                         - (now' + 1 - call[c].began),
                                hi |-> promise.hi + call[c].arg]
            BY <2>1, <5>4 DEF Promised
          <6>3. Between(Off, Promised(c))'
            <7>1. Off \in Int
              BY <1>0 DEF Off
            <7> HIDE DEF Off
            <7>2. QED
              BY <1>0, <1>t, <2>1, <3>1, <5>2, <6>1, <6>2, <7>1 DEF Between
          <6>4. QED
            BY <2>1, <5>1, <6>3 DEF Writing
        <5>5. QED
          BY <5>1, <5>3, <5>4
      <4>3. QED
        BY <4>1, <4>2
    <3>5. QED
      BY <3>2, <3>3, <3>4
  <2>3. lock = NoOne => Free'
    BY <1>0, <2>1 DEF HeldInv, Free, Off, Between
  <2>4. QED
    BY <2>1, <2>2, <2>3 DEF HeldInv
<1>3. CASE InitLock
  <2>1. \A c \in Callers : call[c].pc = "idle"
    BY <1>3 DEF InitLock, TypeInv, ShapeOK
  <2>2. lock = NoOne
    BY <1>0, <1>t, <2>1
  <2>3. Free'
    BY <1>3, <2>2 DEF InitLock, HeldInv, Free, Off, Between
  <2>4. QED
    BY <1>0, <1>3, <2>3 DEF InitLock, HeldInv
<1>4. ASSUME NEW c \in Callers, Call(c) PROVE HeldInv'
  <2>1. /\ UNCHANGED <<now, time, read_time>>
        /\ Off' = Off
    BY <1>4
    DEF Call, GetTime, SetTime, AdjTime, Begin, Lock, ReadStrobe, ReadHigh,
        ReadLow, WriteLow, WriteHigh, WriteStrobe, Unlock, Off
  <2>2. CASE GetTime(c) \/ SetTime(c) \/ AdjTime(c)
    <3>1. UNCHANGED <<strobe, lock, write_time, promise>>
      BY <2>2 DEF GetTime, SetTime, AdjTime, Begin
    <3>2. lock # c /\ \A d \in Callers \ {c} : call'[d] = call[d]
      BY <1>t, <2>2, MoveFacts DEF Moves
    <3>3. ASSUME NEW d \in Callers, lock = d
          PROVE  /\ call'[d].began <= now /\ StrobeOf(d)' /\ Reading(d)' /\ Writing(d)'
      BY <2>1, <3>1, <3>2, <3>3
      DEF HeldInv, StrobeOf, Reading, Writing, Pending, Loaded, Writes, Between,
          Promised
    <3>4. lock = NoOne => Free'
      BY <2>1, <3>1 DEF HeldInv, Free, Between
    <3>5. QED
      BY <2>1, <3>1, <3>3, <3>4 DEF HeldInv
  <2>3. ASSUME lock' = c,
               call'[c].began <= now, StrobeOf(c)', Reading(c)', Writing(c)'
        PROVE  HeldInv'
    BY <1>0, <2>1, <2>3 DEF HeldInv
  <2>4. CASE Lock(c)
    <3>1. /\ lock = NoOne /\ lock' = c /\ strobe = "none"
          /\ UNCHANGED <<strobe, write_time, promise>>
          /\ Between(Off, promise)
      BY <2>4 DEF Lock, HeldInv, Free
    <3>2. /\ call'[c].pc = IF call[c].op = "settime" THEN "wlow" ELSE "strobe"
          /\ call'[c].op = call[c].op /\ call'[c].arg = call[c].arg
          /\ call'[c].began = now /\ call'[c].val = call[c].arg
      BY <2>4, MoveFacts DEF Moves
    <3>3. StrobeOf(c)' /\ Reading(c)'
      BY <3>1, <3>2 DEF StrobeOf, Reading
    <3>4. Writing(c)'
      BY <2>1, <3>1, <3>2 DEF Writing, Pending, Loaded, Between
    <3>5. QED
      BY <1>0, <2>1, <2>3, <3>1, <3>2, <3>3, <3>4
  <2>5. ASSUME lock = c
        PROVE  call[c].began <= now /\ StrobeOf(c) /\ Reading(c) /\ Writing(c)
    BY <2>5 DEF HeldInv
  <2>6. CASE ReadStrobe(c)
    <3>1. /\ lock = c /\ call[c].pc = "strobe" /\ strobe' = "read"
          /\ UNCHANGED <<lock, write_time, promise>>
      BY <1>t, <2>6 DEF ReadStrobe
    <3>2. call'[c].pc = "high" /\ Stays(c) /\ call'[c].shown = time
      BY <2>6, MoveFacts DEF Moves
    <3>3. StrobeOf(c)' /\ Reading(c)'
      BY <1>0, <2>1, <3>1, <3>2 DEF StrobeOf, Reading
    <3>4. Writing(c)'
      BY <2>1, <2>5, <3>1, <3>2 DEF Writing, Pending, Loaded, Between
    <3>5. QED
      BY <2>3, <2>5, <2>1, <3>1, <3>2, <3>3, <3>4 DEF Stays
  <2>7. CASE ReadHigh(c)
    <3>1. /\ lock = c /\ call[c].pc = "high" /\ strobe # "read"
          /\ UNCHANGED <<lock, strobe, write_time, promise>>
      BY <1>t, <2>7 DEF ReadHigh
    <3>2. /\ call'[c].pc = "low" /\ Stays(c) /\ call'[c].shown = call[c].shown
          /\ call'[c].val = High(read_time)
      BY <2>7, MoveFacts DEF Moves
    <3>3. strobe = "none"
      BY <1>0, <2>5, <3>1 DEF StrobeOf
    <3>4. StrobeOf(c)' /\ Reading(c)'
      BY <2>1, <2>5, <3>1, <3>2, <3>3 DEF StrobeOf, Reading, Stays, High
    <3>5. Writing(c)'
      BY <2>1, <2>5, <3>1, <3>2, <3>3 DEF Writing, Pending, Loaded, Between
    <3>6. QED
      BY <2>1, <2>3, <2>5, <3>1, <3>2, <3>4, <3>5 DEF Stays
  <2>8. CASE ReadLow(c)
    <3>1. /\ lock = c /\ call[c].pc = "low"
          /\ UNCHANGED <<lock, strobe, write_time, promise>>
      BY <1>t, <2>8 DEF ReadLow
    <3>2. /\ call'[c].pc = IF call[c].op = "adjtime" THEN "wlow" ELSE "unlock"
          /\ Stays(c) /\ call'[c].shown = call[c].shown
          /\ LET t == Word(call[c].val, Low(read_time)) IN
               call'[c].val = IF call[c].op = "adjtime" THEN t + call[c].arg ELSE t
      BY <2>8, MoveFacts DEF Moves
    <3>3. strobe = "none" /\ call[c].op # "settime"
      BY <1>0, <2>5, <3>1 DEF StrobeOf, TypeInv, ShapeOK
    <3>4. Word(call[c].val, Low(read_time)) = read_time
      BY <1>0, <2>5, <3>1, WordFacts DEF Reading
    <3>5. /\ call[c].began <= read_time - Off
          /\ read_time <= time /\ call[c].shown <= read_time
      BY <2>5, <3>1 DEF Reading
    <3>6. call'[c].val = IF call[c].op = "adjtime" THEN read_time + call[c].arg
                                                   ELSE read_time
      BY <3>2, <3>4
    <3>7. StrobeOf(c)' /\ Reading(c)'
      BY <2>1, <3>1, <3>2, <3>3, <3>5, <3>6 DEF StrobeOf, Reading, Stays
    <3>8. Writing(c)'
      <4>1. read_time - Off <= now /\ Off \in Int
        BY <1>0, <3>5 DEF Off
      <4>2. call[c].op = "adjtime" =>
              call'[c].val - call[c].arg - Off = read_time - Off
        BY <1>0, <1>t, <3>6, <4>1
      <4>3. Between(Off, promise)
        BY <2>5, <3>1 DEF Writing, Loaded
      <4>4. ~Loaded(c)' /\ (Pending(c)' => call[c].op = "adjtime")
        BY <3>1, <3>2, <3>3 DEF Loaded, Pending, Stays, Writes
      <4>5. QED
        BY <2>1, <3>1, <3>2, <3>3, <3>5, <4>1, <4>2, <4>3, <4>4
        DEF Writing, Stays, Between
    <3>9. QED
      BY <2>1, <2>3, <2>5, <3>1, <3>2, <3>7, <3>8 DEF Stays
  <2>9. CASE WriteLow(c) \/ WriteHigh(c)
    <3>1. /\ lock = c /\ call[c].pc \in {"wlow", "whigh"}
          /\ UNCHANGED <<lock, strobe, promise>>
      BY <1>t, <2>9 DEF WriteLow, WriteHigh
    <3>2. /\ call'[c].pc = IF call[c].pc = "wlow" THEN "whigh" ELSE "load"
          /\ Stays(c) /\ call'[c].val = call[c].val
      BY <2>9, MoveFacts DEF Moves, WriteLow, WriteHigh
    <3>3. strobe = "none"
      BY <1>0, <2>5, <3>1 DEF StrobeOf
    <3>4. StrobeOf(c)' /\ Reading(c)'
      BY <3>1, <3>2, <3>3 DEF StrobeOf, Reading
    <3>5. /\ call[c].pc = "wlow" => Low(write_time') = Low(call[c].val)
          /\ call[c].pc = "whigh" => write_time' = call[c].val
      <4>1. /\ High(write_time) \in Int /\ Low(call[c].val) \in 0..(Base - 1)
            /\ High(call[c].val) \in Int
            /\ Word(High(call[c].val), Low(call[c].val)) = call[c].val
            /\ Low(Word(High(write_time), Low(call[c].val))) = Low(call[c].val)
        BY <1>0, <1>t, WordFacts
      <4>2. call[c].pc = "whigh" => Low(write_time) = Low(call[c].val)
        BY <2>5, <3>1 DEF Writing
      <4>3. QED
        BY <2>9, <4>1, <4>2 DEF WriteLow, WriteHigh
    <3>6. Writing(c)'
      BY <2>1, <2>5, <3>1, <3>2, <3>3, <3>5
      DEF Writing, Pending, Loaded, Between, Stays
    <3>7. QED
      BY <2>1, <2>3, <2>5, <3>1, <3>2, <3>4, <3>6 DEF Stays
  <2>10. CASE WriteStrobe(c)
    <3>1. /\ lock = c /\ call[c].pc = "load" /\ strobe' = "write"
          /\ UNCHANGED <<lock, write_time, promise>>
      BY <1>t, <2>10 DEF WriteStrobe
    <3>2. call'[c].pc = "unlock" /\ Stays(c) /\ call'[c].val = call[c].val
      BY <2>10, MoveFacts DEF Moves
    <3>3. Writes(c)
      BY <3>1 DEF TypeInv, ShapeOK
    <3>4. StrobeOf(c)' /\ Reading(c)'
      BY <3>1, <3>2, <3>3 DEF StrobeOf, Reading, Writes, Stays
    <3>5. Writing(c)'
      BY <2>1, <2>5, <3>1, <3>2 DEF Writing, Pending, Loaded, Between, Stays
    <3>6. QED
      BY <2>1, <2>3, <2>5, <3>1, <3>2, <3>4, <3>5 DEF Stays
  <2>11. CASE Unlock(c)
    <3>1. /\ lock = c /\ lock' = NoOne /\ call[c].pc = "unlock"
          /\ promise' = Promised(c) /\ UNCHANGED <<strobe, write_time>>
      BY <1>t, <2>11 DEF Unlock
    <3>2. strobe # "read"
      BY <2>5, <3>1 DEF StrobeOf
    <3>3. CASE strobe = "write"
      <4>1. /\ Pending(c) /\ ~Loaded(c) /\ call[c].op \in {"settime", "adjtime"}
            /\ write_time = call[c].val
        BY <2>5, <3>1, <3>3 DEF Pending, Loaded, StrobeOf, Writes, Writing
      <4>2. CASE call[c].op = "settime"
        <5>1. call[c].val = call[c].arg /\ call[c].began <= now
          BY <2>5, <3>1, <4>1, <4>2 DEF Writing
        <5>2. promise' = [lo |-> call[c].arg - now - 1,
                          hi |-> call[c].arg - call[c].began]
          BY <3>1, <4>2 DEF Promised
        <5>3. QED
          BY <1>0, <1>t, <2>1, <3>1, <3>3, <4>1, <5>1, <5>2, CallersAssumption
          DEF HeldInv, Free, Between
      <4>3. CASE call[c].op = "adjtime"
        <5>1. /\ call[c].began <= call[c].val - call[c].arg - Off
              /\ call[c].val - call[c].arg - Off <= now
              /\ promise.lo <= Off /\ Off <= promise.hi
              /\ Off \in Int
          BY <1>0, <2>5, <3>1, <4>1, <4>3 DEF Writing, Between, Off
        <5>2. promise' = [lo |-> promise.lo + call[c].arg
                                   - (now + 1 - call[c].began),
                          hi |-> promise.hi + call[c].arg]
          BY <3>1, <4>3 DEF Promised
        <5>3. QED
          BY <1>0, <1>t, <2>1, <3>1, <3>3, <4>1, <5>1, <5>2, CallersAssumption
          DEF HeldInv, Free, Between
      <4>4. QED
        BY <4>1, <4>2, <4>3, <3>1, CallersAssumption DEF HeldInv
    <3>4. CASE strobe # "write"
      <4>1. Between(Off, Promised(c))
        <5>1. CASE Writes(c)
          BY <2>5, <3>1, <3>4, <5>1 DEF Writing, Loaded
        <5>2. CASE ~Writes(c)
          <6>1. Promised(c) = promise
            BY <5>2 DEF Promised, Writes
          <6>2. QED
            BY <2>5, <3>1, <5>2, <6>1 DEF Writing, Loaded
        <5>3. QED
          BY <5>1, <5>2
      <4>2. QED
        BY <2>1, <3>1, <3>2, <3>4, <4>1, CallersAssumption DEF HeldInv, Free, Between
    <3>5. QED
      BY <3>3, <3>4
  <2>12. QED
    BY <1>4, <2>2, <2>4, <2>6, <2>7, <2>8, <2>9, <2>10, <2>11 DEF Call
<1>5. QED
  BY <1>1, <1>2, <1>3, <1>4 DEF PhcNext

LEMMA HeldImplies == TypeInv /\ HeldInv => ReadIsShown /\ ClockKeepsPromise
<1> SUFFICES ASSUME TypeInv, HeldInv PROVE ReadIsShown /\ ClockKeepsPromise
  OBVIOUS
<1>1. ReadIsShown
  BY DEF ReadIsShown, TypeInv, PhcTypeOK, HeldInv, Reading
<1>2. ClockKeepsPromise
  BY DEF ClockKeepsPromise, HeldInv, Free, Off, Between
<1>3. QED
  BY <1>1, <1>2

\* As long as no call comes before probe() has set up tmreg_lock, the lock
\* excludes, gettimex64() returns a time the clock has shown during the call,
\* and the clock is where the settime() and adjtime() calls have put it
\* (main.c:1015-1123).
THEOREM PhcInvariance ==
  ~EarlyCalls => (PhcSpec => [](PhcTypeOK /\ ReadIsShown /\ ClockKeepsPromise))
<1> SUFFICES ASSUME ~EarlyCalls
    PROVE  PhcSpec => [](PhcTypeOK /\ ReadIsShown /\ ClockKeepsPromise)
  OBVIOUS
<1>1. PhcInit => TypeInv /\ HeldInv
  BY TypeInit, HeldInit
<1>2. TypeInv /\ HeldInv /\ [PhcNext]_phcVars => TypeInv' /\ HeldInv'
  BY TypeStep, HeldStep
<1>3. TypeInv /\ HeldInv => PhcTypeOK /\ ReadIsShown /\ ClockKeepsPromise
  BY HeldImplies DEF TypeInv
<1>4. QED
  BY <1>1, <1>2, <1>3, PTL DEF PhcSpec

\* The pulse generator only watches: beside it the clock does what it does
\* without it (pps.py:15-42), so the same holds there.
THEOREM PpsLeavesClock == PpsSpec => PhcSpec
<1>1. PpsInit => PhcInit
  BY DEF PpsInit
<1>2. [PpsNext]_ppsAll => [PhcNext]_phcVars
  BY DEF PpsNext, ppsAll, PpsTick, PhcNext
<1>3. QED
  BY <1>1, <1>2, PTL DEF PpsSpec, PhcSpec

\* What holds of the clock holds of it beside the generator (main.c:1015-1123,
\* pps.py:15-42).
THEOREM PpsPhcInvariance ==
  ~EarlyCalls => (PpsSpec => [](PhcTypeOK /\ ReadIsShown /\ ClockKeepsPromise))
BY PhcInvariance, PpsLeavesClock

-----------------------------------------------------------------------------
(* The pulse generator.                                                    *)

\* How far the counter is past the mark the generator waits for, and how long
\* ago the pulse of the mark before was due to begin.
Gap   == time - Mark(count)
Since == Gap - 2 + Second

\* Below zero the counter is beyond every mark: nothing is said until the
\* bound on time.
Beyond == settle + now > 2 * MaxNow

\* The mark is to come.
Waiting ==
  Gap <= 1 /\ settle >= 2 - Gap /\ (Gap = 1 => fsm = "RUN")

\* Marks have been passed over, n edges make up for them; in "IDLE" one edge
\* goes by before the first.
Behind ==
  /\ Gap >= 1
  /\ \E n \in Nat :
       IF fsm = "RUN" THEN Gap <= n * (Second - 1) + 1 /\ settle >= Width + n
                      ELSE Gap <= n * (Second - 1) /\ settle >= Width + n + 1

\* The generator is in the right second; a pulse that is late ends before
\* settle does.
Following ==
  /\ fsm = "RUN" /\ Since >= 0 /\ Gap <= 1
  /\ timer + Since >= Width
  /\ settle >= timer \/ timer = 0 \/ timer + Since = Width

PpsTypeOK ==
  /\ fsm \in {"IDLE", "RUN"} /\ count \in Nat
  /\ timer \in 0..Width /\ settle \in Nat

PpsInv ==
  /\ PpsTypeOK
  /\ Beyond \/ (time >= 0 /\ (Waiting \/ Behind \/ Following))

LEMMA MarkFacts ==
  ASSUME NEW k \in Nat
  PROVE  Mark(k) \in Nat /\ Mark(k) >= 1 /\ Mark(k + 1) = Mark(k) + Second
<1>1. /\ k * Second \in Nat /\ Second \in Nat /\ Offset \in Nat /\ Offset >= 1
      /\ (k + 1) * Second = k * Second + Second
  BY PulseAssumption
<1>2. QED
  BY <1>1 DEF Mark

LEMMA DivFacts ==
  ASSUME NEW m \in Nat \ {0}, NEW x \in Int
  PROVE  /\ x \div m \in Int /\ x % m \in 0..(m - 1)
         /\ x = m * (x \div m) + (x % m)
<1>1. x \div m \in Int
  OBVIOUS
<1>2. x % m \in 0..(m - 1)
  OBVIOUS
<1>3. x = m * (x \div m) + (x % m)
  OBVIOUS
<1>4. QED
  BY <1>1, <1>2, <1>3

\* The edges that make up for the marks passed over (pps.py:33-35).
LEMMA CatchFacts ==
  ASSUME NEW t \in Int, NEW k \in Nat, t > Mark(k)
  PROVE  \E n \in Nat : /\ t - Mark(k) <= n * (Second - 1)
                        /\ SettleAfter(t, k) = n + Width + 1
<1> DEFINE g == t - Mark(k)
           d == Second - 1
           x == g + Second - 2
           n == x \div d
<1>1. g \in Int /\ g >= 1 /\ d \in Nat \ {0} /\ x \in Nat /\ x = g + d - 1
  BY MarkFacts, PulseAssumption
<1>2. n \in Int /\ x = d * n + (x % d) /\ x % d \in 0..(d - 1)
  <2>1. d \in Nat \ {0} /\ x \in Int
    BY <1>1
  <2> HIDE DEF x, d
  <2>2. /\ x \div d \in Int /\ x % d \in 0..(d - 1)
        /\ x = d * (x \div d) + (x % d)
    BY <2>1, DivFacts
  <2>3. QED
    BY <2>2 DEF n
<1> HIDE DEF n
<1>3. d * n = n * d /\ n * d \in Int
  <2> HIDE DEF d
  <2>1. QED
    BY <1>1, <1>2
<1>4. g <= n * d
  BY <1>1, <1>2, <1>3
<1>5. n \in Nat
  <2> HIDE DEF d
  <2>1. n < 0 => n * d <= 0
    BY <1>1, <1>2
  <2>2. QED
    BY <1>1, <1>2, <1>3, <1>4, <2>1
<1>6. SettleAfter(t, k) = n + Width + 1
  <2>1. ~(t < 0) /\ ~(t \in 0..Mark(k))
    BY MarkFacts
  <2>2. SettleAfter(t, k) = Catch(t, k)
    BY <2>1 DEF SettleAfter
  <2>3. QED
    BY <2>2 DEF Catch, n
<1>7. QED
  BY <1>4, <1>5, <1>6

LEMMA PpsInitInv == PpsInit => PpsInv
<1> SUFFICES ASSUME PpsInit PROVE PpsInv
  OBVIOUS
<1>1. /\ time = 0 /\ count = 0 /\ timer = Width /\ fsm = "IDLE"
      /\ settle = SettleAfter(0, 0)
  BY DEF PpsInit, PhcInit
<1>2. Mark(0) \in Nat /\ Mark(0) >= 1
  BY MarkFacts
<1>3. SettleAfter(0, 0) = Mark(0) + 2
  BY <1>2 DEF SettleAfter
<1>4. QED
  BY <1>1, <1>2, <1>3, PulseAssumption DEF PpsInv, PpsTypeOK, Waiting, Gap

\* An edge that loads the counter: settle is what the time loaded and the mark
\* then call for.
LEMMA LoadStep ==
  ASSUME PpsInv, PhcTypeOK, PpsTick, strobe = "write"
  PROVE  PpsInv'
<1>0. /\ now' = now + 1 /\ now \in Nat /\ MaxNow \in Nat /\ time' \in Int
      /\ settle' = SettleAfter(time', count')
      /\ timer' = IF Start THEN Width ELSE IF pps THEN timer - 1 ELSE 0
      /\ count' = IF Start THEN count + 1 ELSE count
      /\ fsm' = IF time # 0 THEN "RUN" ELSE fsm
  BY MaxNowAssumption DEF PhcTypeOK, PpsTick, PpsEdge, Tick, Edge
<1>1. /\ count' \in Nat /\ timer' \in 0..Width /\ fsm' \in {"IDLE", "RUN"}
  BY <1>0, PulseAssumption DEF PpsInv, PpsTypeOK, pps
<1>2. Mark(count') \in Nat /\ Mark(count') >= 1
  BY <1>1, MarkFacts
<1>3. CASE time' < 0
  <2>1. SettleAfter(time', count') = 2 * MaxNow
    BY <1>0, <1>2, <1>3 DEF SettleAfter, Never
  <2>2. QED
    BY <1>0, <1>1, <2>1 DEF PpsInv, PpsTypeOK, Beyond
<1>4. CASE time' \in 0..Mark(count')
  <2>1. SettleAfter(time', count') = Mark(count') - time' + 2
    BY <1>2, <1>4 DEF SettleAfter
  <2>2. Waiting' /\ settle' \in Nat /\ time' >= 0
    BY <1>0, <1>2, <1>4, <2>1 DEF Waiting, Gap
  <2>3. QED
    BY <1>1, <2>2 DEF PpsInv, PpsTypeOK
<1>5. CASE time' > Mark(count')
  <2>1. PICK n \in Nat : /\ time' - Mark(count') <= n * (Second - 1)
                         /\ settle' = n + Width + 1
    BY <1>0, <1>1, <1>5, CatchFacts
  <2>2. n * (Second - 1) \in Int /\ Width \in Nat
    BY PulseAssumption
  <2> DEFINE d == n * (Second - 1)
  <2>3. d \in Int /\ time' - Mark(count') <= d
    BY <2>1, <2>2
  <2> HIDE DEF d
  <2>4. IF fsm' = "RUN" THEN Gap' <= d + 1 /\ settle' >= Width + n
                        ELSE Gap' <= d /\ settle' >= Width + n + 1
    BY <1>0, <1>2, <2>1, <2>2, <2>3 DEF Gap
  <2>5. Behind'
    BY <1>0, <1>2, <1>5, <2>4 DEF Behind, Gap, d
  <2>6. settle' \in Nat /\ time' >= 0
    BY <1>0, <1>2, <1>5, <2>1, <2>2
  <2>7. QED
    BY <1>1, <2>5, <2>6 DEF PpsInv, PpsTypeOK
<1>6. QED
  BY <1>0, <1>2, <1>3, <1>4, <1>5

\* An edge that counts.
LEMMA CountStep ==
  ASSUME PpsInv, PhcTypeOK, PpsTick, strobe # "write"
  PROVE  PpsInv'
<1>0. /\ now' = now + 1 /\ now \in Nat /\ now < MaxNow /\ MaxNow \in Nat
      /\ time \in Int /\ time' = time + 1
      /\ settle' = IF settle = 0 THEN 0 ELSE settle - 1
      /\ timer' = IF Start THEN Width ELSE IF pps THEN timer - 1 ELSE 0
      /\ count' = IF Start THEN count + 1 ELSE count
      /\ fsm' = IF time # 0 THEN "RUN" ELSE fsm
      /\ fsm \in {"IDLE", "RUN"} /\ count \in Nat
      /\ timer \in 0..Width /\ settle \in Nat
      /\ Second \in Nat /\ Width \in Nat /\ 1 <= Width /\ Width + 1 < Second
  BY MaxNowAssumption, PulseAssumption
  DEF PhcTypeOK, PpsTick, PpsEdge, Tick, Edge, PpsInv, PpsTypeOK
<1>1. PpsTypeOK'
  BY <1>0 DEF PpsTypeOK, pps
<1>2. /\ Mark(count) \in Nat /\ Mark(count) >= 1
      /\ Mark(count + 1) = Mark(count) + Second
  BY <1>0, MarkFacts
<1>3. Gap \in Int /\ Gap' = (IF Start THEN Gap + 1 - Second ELSE Gap + 1)
  BY <1>0, <1>2 DEF Gap
<1>4. time >= 0 => (Start <=> fsm = "RUN" /\ Gap >= 1)
  BY <1>0, <1>2 DEF Start, Exceeds, Gap
<1>5. CASE Beyond
  BY <1>0, <1>1, <1>5 DEF Beyond, PpsInv
<1>6. CASE time >= 0 /\ Waiting
  <2>1. CASE Gap = 1
    <3>1. Start /\ Gap' = 2 - Second /\ fsm' = "RUN" /\ timer' = Width
      BY <1>0, <1>3, <1>4, <1>6, <2>1 DEF Waiting
    <3>2. Following'
      BY <1>0, <1>3, <3>1 DEF Following, Since
    <3>3. QED
      BY <1>0, <1>1, <1>6, <3>2 DEF PpsInv
  <2>2. CASE Gap # 1
    <3>1. Gap < 1 /\ ~Start /\ Gap' = Gap + 1
      BY <1>3, <1>4, <1>6, <2>2 DEF Waiting
    <3>2. Gap' = 1 => fsm' = "RUN"
      BY <1>0, <1>2, <1>3, <3>1 DEF Gap
    <3>3. Waiting'
      BY <1>0, <1>3, <1>6, <3>1, <3>2 DEF Waiting
    <3>4. QED
      BY <1>0, <1>1, <1>6, <3>3 DEF PpsInv
  <2>3. QED
    BY <2>1, <2>2
<1>7. CASE time >= 0 /\ Following
  <2>1. CASE Gap = 1
    <3>1. Start /\ Gap' = 2 - Second /\ fsm' = "RUN" /\ timer' = Width
      BY <1>0, <1>3, <1>4, <1>7, <2>1 DEF Following
    <3>2. Following'
      BY <1>0, <1>3, <3>1 DEF Following, Since
    <3>3. QED
      BY <1>0, <1>1, <1>7, <3>2 DEF PpsInv
  <2>2. CASE Gap # 1
    <3>1. Gap < 1 /\ ~Start /\ Gap' = Gap + 1 /\ fsm' = "RUN"
          /\ timer' = IF timer = 0 THEN 0 ELSE timer - 1
      BY <1>0, <1>3, <1>4, <1>7, <2>2 DEF Following, pps
    <3>2. Following'
      BY <1>0, <1>3, <1>7, <3>1 DEF Following, Since
    <3>3. QED
      BY <1>0, <1>1, <1>7, <3>2 DEF PpsInv
  <2>3. QED
    BY <2>1, <2>2
<1>8. CASE time >= 0 /\ Behind
  <2>1. PICK n \in Nat :
          IF fsm = "RUN" THEN Gap <= n * (Second - 1) + 1 /\ settle >= Width + n
                         ELSE Gap <= n * (Second - 1) /\ settle >= Width + n + 1
    BY <1>8 DEF Behind
  <2> DEFINE d == n * (Second - 1)
  <2>2. d \in Int /\ Gap >= 1 /\ time # 0
        /\ IF fsm = "RUN" THEN Gap <= d + 1 /\ settle >= Width + n
                          ELSE Gap <= d /\ settle >= Width + n + 1
    BY <1>0, <1>2, <1>3, <1>8, <2>1 DEF Behind, Gap
  <2>3. n > 0 => n - 1 \in Nat /\ (n - 1) * (Second - 1) = d - (Second - 1)
    BY <1>0
  <2>4. n = 0 => d = 0
    BY <1>0
  <2>5. fsm' = "RUN" /\ time' >= 0
    BY <1>0, <1>8, <2>2
  <2> HIDE DEF d
  <2>6. CASE fsm # "RUN"
    <3>1. Gap' = Gap + 1 /\ settle' = settle - 1
      BY <1>0, <1>3, <1>4, <1>8, <2>2, <2>6
    <3>2. Gap' >= 1 /\ Gap' <= d + 1 /\ settle' >= Width + n
      BY <1>0, <1>3, <2>2, <2>6, <3>1
    <3>3. Behind'
      BY <2>5, <3>2 DEF Behind, d
    <3>4. QED
      BY <1>1, <2>5, <3>3 DEF PpsInv
  <2>7. CASE fsm = "RUN"
    <3>1. Gap' = Gap + 1 - Second /\ settle' = settle - 1 /\ timer' = Width
      BY <1>0, <1>3, <1>4, <1>8, <2>2, <2>7
    <3>2. CASE Gap' >= 1
      <4>1. n > 0
        BY <1>0, <1>3, <2>2, <2>4, <2>7, <3>1, <3>2
      <4>2. n - 1 \in Nat /\ Gap' <= (n - 1) * (Second - 1) + 1
            /\ settle' >= Width + (n - 1)
        BY <1>0, <1>3, <2>2, <2>3, <2>7, <3>1, <4>1
      <4>3. Behind'
        BY <2>5, <3>2, <4>2 DEF Behind
      <4>4. QED
        BY <1>1, <2>5, <4>3 DEF PpsInv
    <3>3. CASE Gap' < 1
      <4>1. Gap' = 2 - Second \/ settle' >= Width
        <5>1. CASE n = 0
          BY <1>0, <1>3, <2>2, <2>4, <2>7, <3>1, <5>1
        <5>2. CASE n > 0
          BY <1>0, <1>3, <2>2, <2>7, <3>1, <5>2
        <5>3. QED
          BY <5>1, <5>2
      <4>2. Gap' >= 2 - Second /\ Gap' \in Int
        BY <1>0, <1>3, <2>2, <3>1
      <4>3. Following'
        BY <1>0, <2>5, <3>1, <3>3, <4>1, <4>2 DEF Following, Since
      <4>4. QED
        BY <1>1, <2>5, <4>3 DEF PpsInv
    <3>4. QED
      BY <1>0, <1>3, <3>1, <3>2, <3>3
  <2>8. QED
    BY <2>6, <2>7
<1>9. QED
  BY <1>5, <1>6, <1>7, <1>8 DEF PpsInv

LEMMA PpsStep ==
  ASSUME PpsInv, PhcTypeOK, [PpsNext]_ppsAll
  PROVE  PpsInv'
<1>1. CASE PpsTick
  BY <1>1, LoadStep, CountStep
<1>2. CASE UNCHANGED <<time, now, ppsVars>>
  BY <1>2
  DEF ppsVars, PpsInv, PpsTypeOK, Beyond, Waiting, Behind, Following, Since, Gap
<1>3. InitLock /\ UNCHANGED ppsVars => UNCHANGED <<time, now, ppsVars>>
  BY DEF InitLock
<1>4. ASSUME NEW c \in Callers, Call(c), UNCHANGED ppsVars
      PROVE  UNCHANGED <<time, now, ppsVars>>
  BY <1>4 DEF Call, GetTime, SetTime, AdjTime, Begin, Lock, ReadStrobe, ReadHigh,
              ReadLow, WriteLow, WriteHigh, WriteStrobe, Unlock
<1>5. UNCHANGED ppsAll => UNCHANGED <<time, now, ppsVars>>
  BY DEF ppsAll, phcVars
<1>6. QED
  BY <1>1, <1>2, <1>3, <1>4, <1>5 DEF PpsNext

\* The time since the pulse was due is the place in the second.
LEMMA PlaceInSecond ==
  ASSUME NEW k \in Nat, NEW s \in 0..(Second - 1)
  PROVE  (s + (k - 1) * Second) % Second = s
<1> DEFINE x == s + (k - 1) * Second
<1>1. Second \in Nat \ {0} /\ (k - 1) * Second \in Int /\ x \in Int
  BY PulseAssumption
<1>2. /\ x \div Second \in Int /\ x % Second \in 0..(Second - 1)
      /\ x = Second * (x \div Second) + (x % Second)
  <2> HIDE DEF x
  <2>1. QED
    BY <1>1, DivFacts
<1> DEFINE q == x \div Second
<1>3. q \in Int /\ x % Second = s + (k - 1 - q) * Second
  <2>1. q \in Int /\ x % Second \in Int /\ x = Second * q + (x % Second)
    BY <1>2
  <2> HIDE DEF q
  <2>2. (k - 1 - q) * Second = (k - 1) * Second - Second * q
    BY <1>1, <2>1
  <2>3. (k - 1) * Second \in Int /\ Second * q \in Int /\ s \in Int
    BY <1>1, <2>1
  <2> DEFINE y == x % Second
  <2> HIDE DEF y
  <2>4. y = s + (k - 1 - q) * Second
    BY <2>1, <2>2, <2>3 DEF y
  <2>5. QED
    BY <2>1, <2>4 DEF y
<1> HIDE DEF q
<1>4. k - 1 - q = 0
  <2> DEFINE m == k - 1 - q
  <2>1. m \in Int /\ s + m * Second \in 0..(Second - 1)
    BY <1>1, <1>2, <1>3
  <2> HIDE DEF m
  <2>2. m >= 1 => m * Second >= Second
    BY <1>1, <2>1
  <2>3. m <= -1 => m * Second <= -Second
    BY <1>1, <2>1
  <2>4. m = 0
    BY <1>1, <2>1, <2>2, <2>3
  <2>5. QED
    BY <2>4 DEF m
<1>5. QED
  BY <1>1, <1>3, <1>4

LEMMA PpsImplies ==
  ASSUME PpsInv, PhcTypeOK
  PROVE  PpsFollowsClock
<1> SUFFICES ASSUME settle = 0
             PROVE  pps <=> (time - Offset - 2) % Second < Width
  BY DEF PpsFollowsClock
<1>0. /\ now \in Nat /\ now <= MaxNow /\ MaxNow \in Nat /\ time \in Int
      /\ Second \in Nat /\ Offset \in Nat /\ Width \in Nat
      /\ 1 <= Width /\ Width + 1 < Second
      /\ count \in Nat /\ timer \in 0..Width
  BY MaxNowAssumption, PulseAssumption DEF PhcTypeOK, PpsInv, PpsTypeOK
<1>1. Mark(count) \in Nat /\ Gap \in Int
  BY <1>0, MarkFacts DEF Gap
<1>2. ~Beyond /\ ~Waiting /\ ~Behind
  <2>1. ~Beyond
    BY <1>0 DEF Beyond
  <2>2. ~Waiting
    BY <1>0, <1>1 DEF Waiting
  <2>3. ~Behind
    BY <1>0 DEF Behind
  <2>4. QED
    BY <2>1, <2>2, <2>3
<1>3. Following
  BY <1>2 DEF PpsInv
<1>4. Since \in 0..(Second - 1)
  BY <1>0, <1>1, <1>3 DEF Following, Since
<1>5. time - Offset - 2 = Since + (count - 1) * Second
  <2>1. count * Second \in Int /\ (count - 1) * Second = count * Second - Second
    BY <1>0
  <2>2. QED
    BY <1>0, <2>1 DEF Since, Gap, Mark
<1>6. (time - Offset - 2) % Second = Since
  BY <1>0, <1>4, <1>5, PlaceInSecond
<1>7. timer # 0 <=> Since < Width
  BY <1>0, <1>3, <1>4 DEF Following
<1>8. QED
  BY <1>6, <1>7 DEF pps

\* Once it has settled the output follows the counter, after every settime()
\* and adjtime(), however long a second and a pulse are (pps.py:15-42).
THEOREM PpsInvariance == ~EarlyCalls => (PpsSpec => []PpsFollowsClock)
<1> SUFFICES ASSUME ~EarlyCalls PROVE PpsSpec => []PpsFollowsClock
  OBVIOUS
<1>1. PpsSpec => []PhcTypeOK
  BY PpsPhcInvariance, PTL
<1>2. PpsInit => PpsInv
  BY PpsInitInv
<1>3. PpsInv /\ PhcTypeOK /\ [PpsNext]_ppsAll => PpsInv'
  BY PpsStep
<1>4. PpsInv /\ PhcTypeOK => PpsFollowsClock
  BY PpsImplies
<1>5. QED
  BY <1>1, <1>2, <1>3, <1>4, PTL DEF PpsSpec
=============================================================================
