SPECIFICATION Spec
CONSTANTS
  Procs = {p1, p2, p3}
  NoProc = none
  Bytes = {0, 1}
  PIPESIZE = 2
  WRAP = 4
  Lens = {0, 2}
INVARIANTS TypeOK FreedUnused NoMissedBytes ClosedEndSeen
PROPERTY IsByteStream
CHECK_DEADLOCK FALSE
SYMMETRY Symmetry
