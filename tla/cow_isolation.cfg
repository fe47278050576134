SPECIFICATION CowSpec
CONSTANTS
  MaxProc = 3
  MaxPage = 4
  FrameCount = 13
  Text = 1
  Data = 1
  Habits = {"exec"}
INVARIANTS CowTypeOK MappedFramesAreUsed WritableIsExclusive
PROPERTY ImplementsPrivateMemory
\* Every program may have exited.
CHECK_DEADLOCK FALSE
