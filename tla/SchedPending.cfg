\* x_sleep() with a signal already pending.
SPECIFICATION Spec
CONSTANTS
  p1 = p1  p2 = p2  p3 = p3
  g1 = g1  g2 = g2  io = io
  Proc = {p1, p2, p3}
  Gate = {g1, g2}
  Event = {io}
  Bucket = {b1}
  Idle = Idle
  NoEvent = NoEvent
  InnerGate = g2
  Hash <- OneBucket
  Rank <- NestedRank
  DEFLIM = 2
  PendingSleep = TRUE
INVARIANT RunningNotQueued
