\* pclose() panics on a file shared after a fork.
SPECIFICATION Spec
CONSTANTS
  p1 = p1  p2 = p2  p3 = p3
  f1 = f1  f2 = f2
  Proc = {p1, p2, p3}
  ReadersOnly = {}
  File = {f1, f2}
  NoProc = NoProc
  NoFile = NoFile
  Modes <- AnyWay
  PIPSIZE = 1
  ReadSizes = {1}
  WriteSizes = {1}
  Junk = Junk
  OpenSignals = FALSE
  Resizing = FALSE
  Polling = FALSE
SYMMETRY Symm
INVARIANT NeverPanics
CHECK_DEADLOCK FALSE
