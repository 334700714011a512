\* Who waits for whom, poll() included: three open files, no signals in popen().
SPECIFICATION Spec
CONSTANTS
  p1 = p1  p2 = p2  p3 = p3
  f1 = f1  f2 = f2  f3 = f3
  Proc = {p1, p2, p3}
  ReadersOnly = {}
  File = {f1, f2, f3}
  NoProc = NoProc
  NoFile = NoFile
  Modes <- AnyWay
  PIPSIZE = 2
  ReadSizes = {1}
  WriteSizes = {2}
  Junk = Junk
  OpenSignals = FALSE
  Resizing = FALSE
  Polling = TRUE
SYMMETRY Symm
INVARIANT NobodyStranded NoPollMissed EmptyWhenUnused
CHECK_DEADLOCK FALSE
