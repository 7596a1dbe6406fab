SPECIFICATION Spec
CONSTANTS
  ToggleCount = 2
  Bits = 3
  TxFifoDepth = 2
  Command <- MCCommand
  Pixel <- MCPixel
  MaxData = 3
INVARIANTS
  
  EmptyMeansQuiet
  SelectedWhileSending
  NeverLost
PROPERTIES
  OperationFinishes
