SPECIFICATION KbSpec
CONSTANTS
  SIZE = 5
  TAB = 2
  Keys = {"letter", "backspace", "backspace_empty", "tab", "enter"}
  ByteCounts = {0, 2, 9}
INVARIANTS KbTypeOK NoOverrun
\* A full buffer with no reader ignores every key but ENTER.
CHECK_DEADLOCK FALSE
