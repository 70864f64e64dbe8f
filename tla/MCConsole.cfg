\* A login prompt and a second reader; the ring wraps, and so do its indices.
SPECIFICATION Spec
CONSTANTS
  Proc = {getty, sh}
  INPUT_BUF = 2
  MOD = 4
  COLS = 2
  ROWS = 3
  Req = {0, 1, 3}
  NoProc = NoProc
SYMMETRY Symmetry
VIEW View
INVARIANTS CursorOnScreen NoSleepInVain
PROPERTIES ImplementsTty
