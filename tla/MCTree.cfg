\* A user and the superuser in the same small tree.
SPECIFICATION Spec
CONSTANTS
  Proc = {"user", "root"}
  UidOf <- MCUidOf
  NINUM = 4
  Call <- MCCall
  Exempt = {"c"}
  Node0 <- MCNode0
  Cwd0 <- MCCwd0
VIEW View
INVARIANTS LinkCounts IsTree LookupSafe WalkResolves
