\* A playing program in copy mode.
SPECIFICATION Spec
CONSTANTS
  COUNT = 6
  Modes = {FALSE}
  Uses = {{"reader"}}
  RxAhead = 5
  MaxPos = 13
PROPERTIES
  PlaysInOrder
