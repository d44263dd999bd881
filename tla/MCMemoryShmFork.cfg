SPECIFICATION Spec
CONSTANTS
  Procs = {p1, p2, p3}
  Frames = {f1, f2, f3}
  NPAGES = 2
  SHM_MAX = 1
  ShmIds = {s1}
  MaxOpens = 2
  MaxLeaks = 1
  Values = {0, 1}
  Zero = 0
  Junk = 5
  None = none
SYMMETRY Symmetry
INVARIANT CowNotWritable
CHECK_DEADLOCK FALSE
