SPECIFICATION FairSpec
CONSTANTS
  c1 = c1
  c2 = c2
  Cpu = {c1, c2}
  None = None
  NPROC = 3
INVARIANTS OneProcessor InterruptsMatch
PROPERTIES FreeLockTaken
