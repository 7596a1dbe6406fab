SPECIFICATION Spec
CONSTANTS
  Half = 16
  TimeBase = 12
  Millis = {1, 2}
  Calls = 2
  MaxStall = 3
  Start = 15
INVARIANTS
  NoEarlyTick
  
  DelayNotShort
PROPERTIES
  DelayReturns
