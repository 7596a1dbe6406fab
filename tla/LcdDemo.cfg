SPECIFICATION Spec
CONSTANTS
  LongSize = 256
  PicWidth = 10
  PicHeight = 8
  Inc = 1024
  MaxIters = 20
  ScreenWidth = 16
  ScreenHeight = 24
  FontHeight = 8
  CharWidth <- MCCharWidth
  PollDelay = 20
  ScanTimeout = 40
  BootCountdown = 3
  ItemsCount = 2
  BlankLines = 1
  Numbers <- MCNumbers
  Floats <- MCFloats
  Texts <- MCTexts
  Chars <- MCChars
  Addresses <- MCAddresses
  Literals <- MCLiterals
INVARIANTS
  ScreenTrue
  PrintsArgument
  DrawsOnScreen
  ClampHarmless
PROPERTIES
  OnePerPress
  CountdownEnds
