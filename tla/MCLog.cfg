\* Two operations of up to two blocks commit together or one after the other, or wait for space.
CONSTANTS
  Proc = {p1, p2}
  Block = {b1, b2}
  Val = {v1, v2}
  Torn = Torn
  NoBuf = NoBuf
  MAXOPBLOCKS = 3
  LOGSIZE = 6
  NLOG = 6
  OpBlocks = 2
SPECIFICATION FairSpec
INVARIANTS SleepersHaveAWaker QuiescentDurable
PROPERTIES ImplementsTxDisk SleepersWake
