CONSTANTS
  BufferCount = 16
  LoopCountMod = 2
  BufferPerIrq = 2
  IrqLag = 4
  SplitStore = TRUE
  IrqDrained = TRUE
  MaxPos = 68
  CopyLag = 2
  MaxLen = 2
SPECIFICATION LiveSpec
INVARIANTS
  HwCountSound
  StoppedIsClear
  RxInv
  CopyIntact
PROPERTIES
  CountNeverBack
  RxImplementsStream
  RdNotStranded
