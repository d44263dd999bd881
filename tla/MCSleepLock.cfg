SPECIFICATION FairSpec
CONSTANTS N = 3
          NCPU = 2
INVARIANTS TypeOK
           MutualExclusion
           NoLostWakeup
           NeverOnTwoCpus
           SchedContract
PROPERTIES SleepersWake
           LockProgress
