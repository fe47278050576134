SPECIFICATION Spec
CONSTANTS
  TASK_COUNT = 3
  MaxPML4 = 3
  KERNEL_TICKS = 0
  USER_PRIORITY = 0
  Ops <- AllCalls
  Faults = {"pf", "ud"}
  Windows = {"block", "exec", "switch"}
INVARIANTS TypeOK CurrentIsRunnable NoTaskInLimbo PrivateAddressSpaces
\* The kernel may panic, and a program may resume with foreign registers.
CHECK_DEADLOCK FALSE
