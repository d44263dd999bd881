SPECIFICATION FairSpec
CONSTANTS NPROC = 3
          NCPU = 2
          MaxPid = 3
          Victims = {1, 3}
PROPERTY ZombiesReaped
