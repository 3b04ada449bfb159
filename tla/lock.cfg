SPECIFICATION FairSpec
CONSTANTS
  Proc = {p1, p2, p3}
  Inode = {i1, i2, i3, i4}
  NoInode = NoInode
  NoProc = NoProc
  ShortWrites = TRUE
  MaxFaults = 1
  MaxClears = 1
INVARIANTS
  OneMorePerClear
PROPERTIES
  EveryAppendEnds
  AppendsWholeLines
