SPECIFICATION FairSpec
CONSTANTS
  p1 = p1
  p2 = p2
  p3 = p3
  None = None
  Proc = {p1, p2}
  Creator = p1
  Byte = {0, 1}
  PIPESIZE = 2
  MOD = 4
  Req = {0, 1, 3}
INVARIANTS NoSleepInVain FreedWhenUnused
PROPERTIES ImplementsFifo EofSeen
\* A process may wait for ever on a pipe whose other end it holds itself.
CHECK_DEADLOCK FALSE
