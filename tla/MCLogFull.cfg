SPECIFICATION FairSpec
CONSTANTS Procs = {p1, p2, p3}
          Blocks = {b1, b2}
          Values = {v0, v1}
          Torn = Torn
          MAXOPBLOCKS = 1
          LOGBLOCKS = 2
          OPBLOCKS = 1
INVARIANT SpaceReserved
PROPERTIES CrashAtomic
           SleepersWake
