SPECIFICATION FairSpec
CONSTANTS
  NPROC = 4
  Machines <- MCMachines
  Uid = {0, 1}
INVARIANTS ParentAlive NoUnreapedSleep NoLeak DroppedStaysDropped
PROPERTIES KilledDies
