SPECIFICATION Spec
CONSTANTS
  VGA_WIDTH = 4
  VGA_HEIGHT = 3
  UINT8 = 13
  Logged <- MCLogged
  Written <- MCWritten
  Echoed <- MCEchoed
  MaxPrints = 4
INVARIANTS TermTypeOK CopyInBytes ScreenShows
\* After MaxPrints texts nothing more is printed.
CHECK_DEADLOCK FALSE
