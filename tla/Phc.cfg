\* Two users of the PTP clock device, halves of two bits, a second of five
\* periods.  The model stops at the bound on time, so a stop is no deadlock.
SPECIFICATION PpsSpec
CONSTANTS
  p = p
  q = q
  Callers = {p, q}
  NoOne = NoOne
  Base = 4
  SetTimes = {1, 14}
  Deltas <- MCDeltas
  EarlyCalls = FALSE
  MaxNow = 8
  Second = 5
  Offset = 2
  Width = 1
SYMMETRY MCSymmetry
INVARIANTS
  PhcTypeOK
  ReadIsShown
  ClockKeepsPromise
  PpsFollowsClock
CHECK_DEADLOCK FALSE
