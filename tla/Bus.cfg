SPECIFICATION FairSpec
CONSTANTS
  Devices = {Ram, DbgDev, SimCtrl}
  Built = {Ram, DbgDev}
  Ram = Ram
  DbgDev = DbgDev
  Unmapped = Unmapped
  Instr = Instr
  Nothing = Nothing
  Buffer = 2
INVARIANTS
  
  FetchGetsInstruction
  DebuggerWaitsTwoCycles
PROPERTIES
  AccessesEnd
  FetchGranted
