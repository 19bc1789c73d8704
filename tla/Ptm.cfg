\* probe() and a caller of getcrosststamp(), one jump of the clock.  The model
\* stops at the bound on time, so a stop is no deadlock.
SPECIFICATION PtmLiveSpec
CONSTANTS
  x = x
  Callers = {x}
  NoOne = NoOne
  Base = 4
  Wide = 1024
  MinDelay = 1
  MaxDelay = 2
  MaxStay = 1
  Jumps <- MCJumps
  MaxJumps = 1
  MaxNow = 7
INVARIANTS
  PtmInv
PROPERTIES
  NobodyWaits
CHECK_DEADLOCK FALSE
