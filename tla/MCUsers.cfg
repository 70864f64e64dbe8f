SPECIFICATION Spec
CONSTANTS
  j1 = j1
  Job = {j1}
  Command <- MCCommand
  Passwd0 <- MCPasswd
  Group0 <- MCGroup
  Number <- MCNumber
  Split <- MCSplit
  MaxGroups = 3
  Crashes = 1
INVARIANTS UniqueIds HomeOwned GroupOfUser
PROPERTIES OthersKept
\* A machine that stops while a file is removed cannot go on.
CHECK_DEADLOCK FALSE
