CONSTANTS
  Proc = {p1, p2, p3}
  Inode = {i1, i2, i3, i4}
  NoProc = NoProc
  NoInode = NoInode
SPECIFICATION Spec
SYMMETRY Symmetry
INVARIANT
  SingleCopy
