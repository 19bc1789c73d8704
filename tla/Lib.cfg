\* A recording and a playing program, in both modes.  RxAhead is one less than
\* COUNT: the most that leaves the slot the program looks at alone.
SPECIFICATION LiveSpec
CONSTANTS
  COUNT = 6
  Modes = {TRUE, FALSE}
  Uses = {{"writer"}, {"reader"}}
  RxAhead = 5
  MaxPos = 13
INVARIANTS
  LibInv

  
  
  
