SPECIFICATION FairSpec
CONSTANTS
  Procs = {main, r1, r2, r3}
  Readers = {r1, r2, r3}
  Main = main
  Ids = {print, seats, mutex, other}
  SEM_PRINT = print
  SEM_SEATS = seats
  SEM_MUTEX = mutex
  Other = other
  SEM_MAX = 3
  MAX_SEATS = 2
  NoProc = none
INVARIANTS TypeOK SeatFound RegistryConsistent FreedUnused
PROPERTY Terminates
CHECK_DEADLOCK FALSE
