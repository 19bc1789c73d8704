SPECIFICATION UartLiveSpec
CONSTANTS
  XMIT = 4
  WAKEUP = 2
  FIFO = 2
  CloseInPoll = FALSE
  RemoveOpen = FALSE
  MaxIn = 3
  MaxOut = 4
  MaxFlow = 1
INVARIANTS
  UartTypeOK
  InOrder
  NoneStranded
  
PROPERTIES
  KeepsPolling
