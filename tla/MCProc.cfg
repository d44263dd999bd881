SPECIFICATION Spec
CONSTANTS NPROC = 3
          NCPU = 3
          MaxPid = 4
          Victims = {0, 1, 2}
INVARIANTS TypeOK
           ParentIsReal
           StackNotInUse
           NoMissedExit
           OnlyInitIsRoot
           InitHasChildren
