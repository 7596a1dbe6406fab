SPECIFICATION LineFairSpec
CONSTANTS
  ClocksPerBaud = 4
  Bits = 2
  RxFifoDepth = 2
  Early = 1
  Late = 1
INVARIANTS
  ReceivedDespiteSkew
PROPERTIES
  FrameReceived
