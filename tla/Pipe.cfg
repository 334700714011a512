\* The ring, the counters and chsize(): two writers and a reader.
SPECIFICATION Spec
CONSTANTS
  p1 = p1  p2 = p2  p3 = p3
  f1 = f1  f2 = f2
  Proc = {p1, p2, p3}
  ReadersOnly = {p3}
  File = {f1, f2}
  NoProc = NoProc
  NoFile = NoFile
  Modes <- OneWay
  PIPSIZE = 2
  ReadSizes = {1}
  WriteSizes = {2, 3}
  Junk = Junk
  OpenSignals = TRUE
  Resizing = TRUE
  Polling = FALSE
SYMMETRY Symm
INVARIANT TypeOK CountersOK RingOK
PROPERTY ImplementsFifo
CHECK_DEADLOCK FALSE
