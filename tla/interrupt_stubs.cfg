SPECIFICATION Spec
CONSTANTS
  STACK = 56
  Vectors = {"isr80", "gpf", "page_fault", "timer", "sync_time", "keyboard", "ahci", "floppy"}
  Selectors = {0, 16}
  MaxDepth = 2
INVARIANTS StubTypeOK HandlerSeesFrame
PROPERTY ReturnsToFrame
