\* Two processes, more blocks than buffers; no block in bucket 0.
SPECIFICATION Spec
CONSTANTS
  p1 = p1  p2 = p2
  d1 = d1  d2 = d2
  Proc = {p1, p2}
  NBUF = 2
  NHASH = 3
  Block = {1, 2, 4}
  NODEV = NODEV
  Hash <- ByNumber
  Data = {d1, d2}
  Driver = Driver
  Free = Free
  Errors = FALSE
  Collide = TRUE
SYMMETRY Symm
INVARIANT OneBufferPerBlock
CHECK_DEADLOCK FALSE
