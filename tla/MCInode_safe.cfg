SPECIFICATION Spec
CONSTANTS
  p1 = p1
  p2 = p2
  None = None
  Proc = {p1, p2}
  Name = {a, b}
  NINODE = 2
  NINUM = 3
  NBLOCK = 1
  KeepBound = 1
  Mode = {420}
  Owner = {0}
  Uid = {0, 1}
  Uses <- MCUses
VIEW View
SYMMETRY Symmetry
INVARIANTS OpenStaysAllocated LinksCounted BlocksOwned
