CONSTANTS
  BufferCount = 4
  LoopCountMod = 2
  BufferPerIrq = 1
  IrqLag = 3
  SplitStore = TRUE
  IrqDrained = TRUE
  MaxPos = 9
  MaxLen = 2
SPECIFICATION LiveSpec
INVARIANTS
  TxInv
  DueSentIntact
PROPERTIES
  TxImplementsStream
  WrNotStranded
