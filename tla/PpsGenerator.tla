---------------------------- MODULE PpsGenerator ----------------------------
(***************************************************************************)
(* The pulse-per-second generator of gateware/pps.py beside the counter of *)
(* PhcClock: both run on the same clock (ocp_tap_timecard.py:192-222), so  *)
(* an edge of one is an edge of the other.  The generator compares the     *)
(* counter with a mark that only counts up, and never looks at what        *)
(* settime() and adjtime() have done to it.                                *)
(***************************************************************************)
EXTENDS PhcClock

CONSTANTS Second,     \* periods in a second
          Offset,     \* the place of the pulse in the second
          Width       \* periods the output stays high, one fifth of a second

ASSUME PulseAssumption ==
  /\ Second \in Nat /\ Offset \in Nat /\ Width \in Nat
  /\ 1 <= Offset /\ 1 <= Width /\ Width + 1 < Second

VARIABLES
  fsm,          \* "IDLE" until the counter has left zero, then "RUN"
  count,        \* the seconds it has pulsed for
  timer,        \* what WaitTimer has left to count; the output is high until 0
  settle        \* history: edges until the output must follow the counter

ppsVars == <<fsm, count, timer, settle>>
ppsAll  == <<phcVars, ppsVars>>

Mark(k) == k * Second + Offset

\* A time below zero is a 64-bit time beyond every mark.
Exceeds(t, mark) == t < 0 \/ t > mark

\* Faulty: the pulse is started at its mark instead of past it.
StartAtMark == fsm = "RUN" /\ Exceeds(time, Mark(count) - 1)

Start == fsm = "RUN" /\ Exceeds(time, Mark(count))

pps == timer # 0

\* Edges until a counter loaded with t and a generator that waits for the
\* k-th mark agree again.  A mark that has passed is made up for at one edge,
\* during which the counter goes on.  A mark to come is waited for.
Never == 2 * MaxNow
Catch(t, k) == (t - Mark(k) + Second - 2) \div (Second - 1) + Width + 1
SettleAfter(t, k) ==
  CASE t < 0           -> Never
    [] t \in 0..Mark(k) -> Mark(k) - t + 2
    [] t > Mark(k)     -> Catch(t, k)

PpsInit ==
  /\ PhcInit
  /\ fsm = "IDLE" /\ count = 0
  /\ timer = Width                      \* the timer has not run yet
  /\ settle = SettleAfter(0, 0)

-----------------------------------------------------------------------------
PpsEdge ==
  /\ fsm' = IF time # 0 THEN "RUN" ELSE fsm
  /\ count' = IF Start THEN count + 1 ELSE count
  /\ timer' = IF Start THEN Width ELSE IF pps THEN timer - 1 ELSE 0
  /\ settle' = CASE strobe = "write" -> SettleAfter(time', count')
                 [] strobe # "write" /\ settle = 0 -> 0
                 [] strobe # "write" /\ settle > 0 -> settle - 1

PpsTick == Tick /\ PpsEdge

PpsNext ==
  \/ PpsTick
  \/ InitLock /\ UNCHANGED ppsVars
  \/ \E c \in Callers : Call(c) /\ UNCHANGED ppsVars

PpsSpec == PpsInit /\ [][PpsNext]_ppsAll

-----------------------------------------------------------------------------
\* Once it has settled the output is a function of the counter alone: it rises
\* two edges past its mark in every second, stays high for Width and is low
\* otherwise (pps.py:26-42), after a start from zero and, late, after every
\* settime() and adjtime(): after one that went forward as soon as the marks
\* passed over are made up for, after one that went back when the counter is
\* again where it was.
PpsFollowsClock ==
  settle = 0 => (pps <=> (time - Offset - 2) % Second < Width)

\* A pulse begins when the one before it has ended.  It does not after a
\* settime() that passes over marks: the output stays high while they are made
\* up for, one edge each (pps.py:33-35).
PulsesDistinct == [][count' # count => timer = 0]_ppsAll
=============================================================================
