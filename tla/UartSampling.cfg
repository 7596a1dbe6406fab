SPECIFICATION LineSpec
CONSTANTS
  ClocksPerBaud = 6
  Bits = 2
  RxFifoDepth = 2
  Early = 0
  Late = 0
INVARIANTS
  SampledInTheMiddle
