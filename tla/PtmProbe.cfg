\* What probe() leaves behind for the first call.
SPECIFICATION PtmSpec
CONSTANTS
  x = x
  Callers = {x}
  NoOne = NoOne
  Base = 4
  Wide = 1024
  MinDelay = 1
  MaxDelay = 2
  MaxStay = 1
  Jumps <- MCJumps
  MaxJumps = 1
  MaxNow = 7
INVARIANTS
  ProbePrepares
CHECK_DEADLOCK FALSE
