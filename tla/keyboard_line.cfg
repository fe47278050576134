SPECIFICATION KbSpec
CONSTANTS
  SIZE = 5
  TAB = 2
  Keys = {"letter", "backspace", "shift", "capslock", "enter"}
  ByteCounts = {0, 2, 9}
PROPERTY ImplementsLineEditor
\* A full buffer with no reader ignores every key but ENTER.
CHECK_DEADLOCK FALSE
