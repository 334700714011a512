\* Three timers in two lists; interrupts start and cancel one of them.
SPECIFICATION Spec
CONSTANTS
  t1 = t1  t2 = t2  t3 = t3
  Timer = {t1, t2, t3}
  NTIMQ = 2
  WIDTH = 4
  Delay = {1, 2, 3}
  IntTimer = {t3}
  MAXCLOCKS = 2
  NULL = NULL
  Races = FALSE
SYMMETRY Symm
INVARIANT TypeOK LinksAgree ListsOK ScanSafe ScanComplete
PROPERTY ImplementsAlarms
