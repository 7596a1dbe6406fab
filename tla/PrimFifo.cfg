SPECIFICATION Spec
CONSTANTS
  Depth = 3
  Data = {0, 1, 2}
  Zero = 0
INVARIANTS
  TypeOK
  PointersAgree
PROPERTIES
  UnreadKept
  ImplementsQueue
