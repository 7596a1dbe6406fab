SPECIFICATION Spec
CONSTANTS
  LongSize = 256
  PicWidth = 1
  PicHeight = 1
  Inc = 64
  MaxIters = 1
  ScreenWidth = 160
  ScreenHeight = 128
  FontHeight = 8
  CharWidth <- MCCharWidth
  PollDelay = 20
  ScanTimeout = 20
  BootCountdown = 3
  ItemsCount = 2
  BlankLines = 14
  Numbers = {}
  Floats <- MCResults
  Texts = {}
  Chars = {}
  Addresses = {}
  Literals <- MCLiterals
PROPERTIES
  CoreMarkAtBottom
