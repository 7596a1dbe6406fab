SPECIFICATION Spec
CONSTANTS
  RxFifoDepth = 2
  TxFifoDepth = 2
  LineLength = 2
  MaxInput = 3
  VectorsStart <- MCVectorsStart
  Layouts <- MCLayouts
INVARIANTS
  WholeLines
PROPERTIES
  
  InputAnswered
  TickShown
