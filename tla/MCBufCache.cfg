\* One block more than there are buffers, so that buffers are recycled; one pinned.
SPECIFICATION Spec
CONSTANTS
  Proc = {p1, p2}
  Block = {k1, k2, k3, k4}
  Val = {v1, v2}
  NBUF = 3
  LogBlocks = 1
  Failures = 1
  None = None
SYMMETRY Symmetric
VIEW View
INVARIANTS OneCopy Referenced LastWriteSeen
