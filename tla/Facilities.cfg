\* Semaphores, message queues and the process table, one at a time: see MCFacilities.
SPECIFICATION FacilitiesSpec
CONSTANTS
  p1 = p1  p2 = p2  p3 = p3
  Proc = {p1, p2}
  NSEMS = 2
  SEMVMX = 2
  USHRT = 6
  Asked <- AskedM
  Garbage = {0}
  Careful = TRUE
  Users = {p1, p2, p3}
  NMSQID = 2
  NMSG = 2
  NMSC = 1
  QBytes = {0, 1}
  STRIDE = 2
  IDS = 4
  Knows <- KnowsM
  Sends <- SendsM
  Receives <- ReceivesM
  NPID = 5
  Waiters = {1, 2}
INVARIANT TypesOK NobodyForgotten AccountingOK OrphansAdopted
  
