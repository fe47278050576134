SPECIFICATION Spec
CONSTANTS
  TASK_COUNT = 4
  MaxPML4 = 3
  KERNEL_TICKS = 0
  USER_PRIORITY = 0
  Ops <- Contained
  Faults = {"pf"}
  Windows = {"block"}
INVARIANTS ContextIntegrity LoadedSpaceIntact
