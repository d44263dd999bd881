SPECIFICATION SpecFree
CONSTANTS
  Procs = {p1, p2, p3}
  Ids = {a, b}
  SEM_MAX = 2
  NoProc = none
  MaxValue = 2
INVARIANT RightSemaphore
