------------------------------ MODULE PhcClock ------------------------------
(***************************************************************************)
(* The PTP hardware clock: the counter of gateware/time.py and the driver  *)
(* functions that read, set and shift it (main.c:1015-1123).               *)
(*                                                                         *)
(* The counter runs in a clock domain of its own.  The driver raises READ  *)
(* or WRITE in the control register, a strobe crosses to that domain and   *)
(* at its next edge copies the counter into a snapshot, or loads it from   *)
(* the write register.  Both registers are 64 bits wide and accessed in    *)
(* two halves.  Callers hold tmreg_lock from the first access to the last. *)
(* Time is counted in periods of the counter's clock.                      *)
(***************************************************************************)
EXTENDS Integers

CONSTANTS Callers,    \* the processes that use the PTP clock device
          NoOne,      \* not a caller
          Base,       \* 2^32, the values of half a register
          SetTimes,   \* the times settime() may be given
          Deltas,     \* the shifts adjtime() may be given
          EarlyCalls, \* calls may come before probe() has set up the lock
          MaxNow      \* bound of the model on the time that passes

ASSUME CallersAssumption == NoOne \notin Callers
ASSUME BaseAssumption    == Base \in Nat \ {0, 1}
ASSUME TimesAssumption   == SetTimes \subseteq Nat /\ Deltas \subseteq Int
ASSUME MaxNowAssumption  == MaxNow \in Nat
ASSUME EarlyAssumption   == EarlyCalls \in BOOLEAN

VARIABLES
  now,          \* periods that have passed: the time of the rest of the world
  time,         \* the counter
  read_time,    \* its snapshot
  write_time,   \* the register it is loaded from
  strobe,       \* the strobe that is crossing to the counter's clock domain
  lock,         \* the holder of tmreg_lock
  inited,       \* probe() has set up tmreg_lock
  call,         \* the call of each caller: which one (op), how far it is
                \* (pc), its argument, the value it has read or will write
                \* (val), and when it began (began, shown)
  promise       \* the least and the greatest time - now the calls made so
                \* far have promised

phcVars == <<now, time, read_time, write_time, strobe, lock, inited,
             call, promise>>

High(t) == t \div Base
Low(t)  == t % Base
Word(h, l) == h * Base + l

PhcPc == {"idle", "lock", "strobe", "high", "low", "wlow", "whigh", "load",
          "unlock"}
PhcOp == {"none", "gettime", "settime", "adjtime"}

NoCall == [op |-> "none", pc |-> "idle", arg |-> 0, val |-> 0, began |-> 0,
           shown |-> 0]

PhcInit ==
  /\ now = 0 /\ time = 0 /\ read_time = 0 /\ write_time = 0
  /\ strobe = "none"
  /\ lock = NoOne /\ inited = FALSE
  /\ call = [c \in Callers |-> NoCall]
  /\ promise = [lo |-> 0, hi |-> 0]

-----------------------------------------------------------------------------
(* The counter.                                                            *)

\* Faulty: the register follows the counter instead of its snapshot.
EdgeUnlatched ==
  /\ time' = IF strobe = "write" THEN write_time ELSE time + 1
  /\ read_time' = time'
  /\ strobe' = "none"

\* An edge of the counter's clock: a strobe that has crossed takes effect.
Edge ==
  /\ time' = IF strobe = "write" THEN write_time ELSE time + 1
  /\ read_time' = IF strobe = "read" THEN time ELSE read_time
  /\ strobe' = "none"

Tick ==
  /\ now < MaxNow
  /\ now' = now + 1
  /\ Edge
  /\ UNCHANGED <<write_time, lock, inited, call, promise>>

-----------------------------------------------------------------------------
(* The driver.                                                             *)

Goto(c, pc) == call' = [call EXCEPT ![c].pc = pc]

\* spin_lock_init(), after ptp_clock_register() has made the clock visible:
\* whoever holds the lock by then has lost it.
InitLock ==
  /\ ~inited
  /\ inited' = TRUE
  /\ lock' = NoOne
  /\ UNCHANGED <<now, time, read_time, write_time, strobe, call, promise>>

Begin(c, op, arg) ==
  /\ inited \/ EarlyCalls
  /\ call[c] = NoCall
  /\ call' = [call EXCEPT ![c] = [NoCall EXCEPT !.op = op, !.pc = "lock",
                                                !.arg = arg]]
  /\ UNCHANGED <<now, time, read_time, write_time, strobe, lock, promise, inited>>

GetTime(c) == Begin(c, "gettime", 0)
SetTime(c) == \E t \in SetTimes : Begin(c, "settime", t)
AdjTime(c) == \E d \in Deltas : Begin(c, "adjtime", d)

\* Faulty: the lock is not taken.
LockNothing(c) ==
  /\ call[c].pc = "lock"
  /\ strobe = "none"
  /\ call' = [call EXCEPT ![c].pc =
                IF call[c].op = "settime" THEN "wlow" ELSE "strobe",
              ![c].val = call[c].arg, ![c].began = now]
  /\ UNCHANGED <<now, time, read_time, write_time, strobe, lock, promise, inited>>

\* spin_lock_irqsave(&dev->tmreg_lock).  A strobe takes less time to cross
\* than the way from one call to the next.
Lock(c) ==
  /\ call[c].pc = "lock"
  /\ lock = NoOne
  /\ strobe = "none"
  /\ lock' = c
  /\ call' = [call EXCEPT ![c].pc =
                IF call[c].op = "settime" THEN "wlow" ELSE "strobe",
              ![c].val = call[c].arg, ![c].began = now]
  /\ UNCHANGED <<now, time, read_time, write_time, strobe, promise, inited>>

\* litepcie_read_time(): TIME_CONTROL_ENABLE | TIME_CONTROL_READ
ReadStrobe(c) ==
  /\ call[c].pc = "strobe"
  /\ strobe' = "read"
  /\ call' = [call EXCEPT ![c].pc = "high", ![c].shown = time]
  /\ UNCHANGED <<now, time, read_time, write_time, lock, promise, inited>>

\* The read of the upper half comes back after the strobe has taken effect.
ReadHigh(c) ==
  /\ call[c].pc = "high"
  /\ strobe # "read"
  /\ call' = [call EXCEPT ![c].pc = "low", ![c].val = High(read_time)]
  /\ UNCHANGED <<now, time, read_time, write_time, strobe, lock, promise, inited>>

\* ... and the lower half.  adjtime() goes on to write the sum.
ReadLow(c) ==
  /\ call[c].pc = "low"
  /\ LET t == Word(call[c].val, Low(read_time)) IN
       call' = [call EXCEPT
         ![c].pc = IF call[c].op = "adjtime" THEN "wlow" ELSE "unlock",
         ![c].val = IF call[c].op = "adjtime" THEN t + call[c].arg ELSE t]
  /\ UNCHANGED <<now, time, read_time, write_time, strobe, lock, promise, inited>>

\* litepcie_write_time(): the halves ...
WriteLow(c) ==
  /\ call[c].pc = "wlow"
  /\ write_time' = Word(High(write_time), Low(call[c].val))
  /\ Goto(c, "whigh")
  /\ UNCHANGED <<now, time, read_time, strobe, lock, promise, inited>>

WriteHigh(c) ==
  /\ call[c].pc = "whigh"
  /\ write_time' = Word(High(call[c].val), Low(write_time))
  /\ Goto(c, "load")
  /\ UNCHANGED <<now, time, read_time, strobe, lock, promise, inited>>

\* ... and TIME_CONTROL_ENABLE | TIME_CONTROL_WRITE.
WriteStrobe(c) ==
  /\ call[c].pc = "load"
  /\ strobe' = "write"
  /\ Goto(c, "unlock")
  /\ UNCHANGED <<now, time, read_time, write_time, lock, promise, inited>>

\* What a call promises of time - now: settime() the time it was given, at
\* some moment of the call; adjtime() what it was, shifted, less at most the
\* time the call has taken.
Promised(c) ==
  CASE call[c].op = "settime" -> [lo |-> call[c].arg - now - 1,
                                  hi |-> call[c].arg - call[c].began]
    [] call[c].op = "adjtime" -> [lo |-> promise.lo + call[c].arg
                                           - (now + 1 - call[c].began),
                                  hi |-> promise.hi + call[c].arg]
    [] OTHER -> promise

Unlock(c) ==
  /\ call[c].pc = "unlock"
  /\ lock' = NoOne
  /\ call' = [call EXCEPT ![c] = NoCall]
  /\ promise' = Promised(c)
  /\ UNCHANGED <<now, time, read_time, write_time, strobe, inited>>

Call(c) ==
  \/ GetTime(c) \/ SetTime(c) \/ AdjTime(c) \/ Lock(c) \/ ReadStrobe(c)
  \/ ReadHigh(c) \/ ReadLow(c) \/ WriteLow(c) \/ WriteHigh(c)
  \/ WriteStrobe(c) \/ Unlock(c)

PhcNext == Tick \/ InitLock \/ \E c \in Callers : Call(c)

PhcSpec == PhcInit /\ [][PhcNext]_phcVars

-----------------------------------------------------------------------------
\* The types of the variables; the holder of the lock is the one caller that
\* is between Lock and Unlock.
PhcTypeOK ==
  /\ \A c \in Callers : lock = c <=> call[c].pc \notin {"idle", "lock"}
  /\ now \in 0..MaxNow
  /\ {time, read_time, write_time} \subseteq Int
  /\ strobe \in {"none", "read", "write"}
  /\ lock \in Callers \cup {NoOne} /\ inited \in BOOLEAN
  /\ call \in [Callers -> [op : PhcOp, pc : PhcPc, arg : Int, val : Int,
                           began : 0..MaxNow, shown : Int]]
  /\ promise \in [lo : Int, hi : Int]

\* gettimex64() returns a time the clock has shown during the call: neither
\* the halves of two times, nor the snapshot of an earlier call, nor a time
\* before somebody else's settime() (main.c:1015-1061).
ReadIsShown ==
  \A c \in Callers :
    call[c].op = "gettime" /\ call[c].pc = "unlock" =>
      call[c].shown <= call[c].val /\ call[c].val <= time

\* Between calls the clock is where the settime() and adjtime() calls made so
\* far put it, up to the time adjtime() itself has taken: no call is undone
\* by an overlapping one and no half of a time is lost (main.c:1032-1042,
\* 1063-1076, 1108-1123).
ClockKeepsPromise ==
  lock = NoOne /\ strobe = "none" =>
    promise.lo <= time - now /\ time - now <= promise.hi
=============================================================================
