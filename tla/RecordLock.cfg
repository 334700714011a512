\* Three processes lock ranges of one file in every way and wait for each other.
SPECIFICATION Spec
CONSTANTS
  p1 = p1  p2 = p2  p3 = p3
  i1 = i1
  Proc = {p1, p2, p3}
  Third = {p3}
  Inode = {i1}
  EOF = 4
  Asked <- AskedM
  RLOCKS = 6
  NoRl = NoRl
SYMMETRY Symm
INVARIANT TypeOK NoConflict NobodyStranded PoolOK NoWaitCycle
PROPERTY ImplementsRangeLocks
