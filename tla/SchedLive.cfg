\* Progress: two nested gates, one device, two processes.
SPECIFICATION FairSpec
CONSTANTS
  p1 = p1  p2 = p2
  g1 = g1  g2 = g2  io = io
  Proc = {p1, p2}
  Gate = {g1, g2}
  Event = {io}
  Bucket = {b1}
  Idle = Idle
  NoEvent = NoEvent
  InnerGate = g2
  Hash <- OneBucket
  Rank <- NestedRank
  DEFLIM = 2
  PendingSleep = FALSE
PROPERTY GateWaiterTestsAgain RunnableRuns
