\* Progress of one writer and one reader; writes longer than the ring.
SPECIFICATION FairSpec
CONSTANTS
  p1 = p1  p2 = p2
  f1 = f1  f2 = f2
  Proc = {p1, p2}
  ReadersOnly = {p2}
  File = {f1, f2}
  NoProc = NoProc
  NoFile = NoFile
  Modes <- OneWay
  PIPSIZE = 2
  ReadSizes = {1, 2}
  WriteSizes = {2, 3}
  Junk = Junk
  OpenSignals = FALSE
  Resizing = FALSE
  Polling = FALSE
PROPERTY WriteReturns ReadReturns
CHECK_DEADLOCK FALSE
