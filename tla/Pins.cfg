SPECIFICATION Spec
CONSTANTS
  ClkCount = 2
  GpoWidth = 8
  FirstLed = 4
  LastLed = 7
  CtrSize = 8
  PwmIndex = 1
  FullBrightness = 3
INVARIANTS
  DutyCycle
PROPERTIES
  LedsFollowButton
