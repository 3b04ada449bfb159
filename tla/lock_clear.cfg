SPECIFICATION Spec
CONSTANTS
  Proc = {p1, p2}
  Inode = {i1, i2, i3}
  NoInode = NoInode
  NoProc = NoProc
  ShortWrites = TRUE
  MaxFaults = 1
  MaxClears = 1
INVARIANT
  MutualExclusion
