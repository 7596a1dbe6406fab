SPECIFICATION Spec
CONSTANTS
  ClocksPerBaud = 4
  Bits = 2
  RxFifoDepth = 1
  TxFifoDepth = 2
INVARIANTS
  TypeOK
  FrameHasByte
  ReceivedAsSent
