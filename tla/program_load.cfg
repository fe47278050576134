CONSTANTS
  TABLE = 8
  PT_Count = 2
  E820 <- MCE820
  SECTOR = 4
  STACK = 60
  Executables <- MCExecutables
  Touched <- MCTouched
  Pid = {1, 2, 3}
  MaxSpaces = 3
SPECIFICATION Spec
INVARIANTS
  ProgTypeOK
  NoFrameTwice
  ImageLoaded
  ArgvOnStack
  StackMapped
PROPERTY MappingsKept
CHECK_DEADLOCK FALSE
