SPECIFICATION Spec
CONSTANTS
  Procs = {p1, p2, p3}
  Ids = {a, b, c}
  SEM_MAX = 2
  NoProc = none
  MaxValue = 2
INVARIANTS SemTypeOK Conservation NoIdleUnits
CHECK_DEADLOCK FALSE
