SPECIFICATION FairSpec
CONSTANTS
  NPROC = 6
  NFILE = 5
  NOFILE = 5
  Jobs = 1
  MAXARGS = 3
  Line <- Lines
  Program = {"echo", "cat"}
  Filter = {"cat"}
INVARIANTS Connected ParsesBack
PROPERTIES CommandEnds
\* A command that hangs is a violation of CommandEnds.
CHECK_DEADLOCK FALSE
