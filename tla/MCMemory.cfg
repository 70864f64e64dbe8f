\* Two slots; so few pages that every allocation can be the one that fails.
SPECIFICATION Spec
CONSTANTS
  NPROC = 2
  NPAGE = 13
  PGSIZE = 2
  NPT = 2
  KPT = 1
  KERNBASE = 10
  WORD = 32
  Program <- MCProgram
  Delta <- MCDelta
INVARIANTS Exclusive NoLeak SizeMapped
