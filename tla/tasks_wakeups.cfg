SPECIFICATION Spec
CONSTANTS
  TASK_COUNT = 4
  MaxPML4 = 3
  KERNEL_TICKS = 0
  USER_PRIORITY = 0
  Ops <- Families
  Faults = {}
  Windows = {"switch"}
INVARIANTS NoLostWakeup ReadReturnsALine
\* A program that resumes with registers that are not its own stops the model.
CHECK_DEADLOCK FALSE
