SPECIFICATION Spec
CONSTANTS Procs = {p1, p2, p3}
          Blocks = {b1, b2, b3, b4}
          Values = {v0, v1}
          Torn = Torn
          MAXOPBLOCKS = 2
          LOGBLOCKS = 4
          OPBLOCKS = 1
SYMMETRY Symmetry
INVARIANTS TypeOK
           NoPanic
           DurableWhenIdle
           DirtyIsPinned
PROPERTY CrashAtomic
