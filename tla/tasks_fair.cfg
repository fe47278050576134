SPECIFICATION FairSpec
CONSTANTS
  TASK_COUNT = 4
  MaxPML4 = 3
  KERNEL_TICKS = 1
  USER_PRIORITY = 0
  Ops <- Yielding
  Faults = {"gpf"}
  Windows = {}
PROPERTIES ReadyTasksRun
\* The kernel may panic, and a program may run on as another task.
CHECK_DEADLOCK FALSE
