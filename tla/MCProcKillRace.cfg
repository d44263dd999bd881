SPECIFICATION Spec
CONSTANTS NPROC = 3
          NCPU = 3
          MaxPid = 4
          Victims = {2}
INVARIANT KilledNotAsleep
