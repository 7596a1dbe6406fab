SPECIFICATION RstSpec
CONSTANTS
  ClkCount = 5
  ResetPhase0Count = 2
  ResetPhase1Count = 6
PROPERTIES
  ResetLastsPhase1
  
  HeldByButton
  LockRegained
  RunsInTheEnd
