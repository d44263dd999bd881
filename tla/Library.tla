------------------------------ MODULE Library ------------------------------
(****************************************************************************)
(* The library simulation (user/library.c) on the kernel's semaphores: main *)
(* creates the semaphores and the shared seat table, forks the readers,     *)
(* waits for them and frees the semaphores.  A reader takes a seat and      *)
(* gives it back under SEM_MUTEX; printfl() (user/printfl.c) takes          *)
(* SEM_PRINT, inside and outside of that critical section.                  *)
(*                                                                          *)
(* A program is a list of statements: an operation and its arguments.  A    *)
(* statement starts when the process is back from its last system call.     *)
(* Reading the seat table and writing it back are two statements.  pause()  *)
(* and shm_close(), which leaves the caller's mapping alone, are left out.  *)
(****************************************************************************)
EXTENDS Sem, Sequences

CONSTANTS Readers, Main, MAX_SEATS,
          SEM_PRINT, SEM_SEATS, SEM_MUTEX,
          Other     \* the id of semaphores that other programs have created

ASSUME LibraryAssumption ==
  /\ IsFiniteSet(Readers) /\ MAX_SEATS \in Nat
  /\ Procs = Readers \cup {Main} /\ Main \notin Readers
  /\ Ids = {SEM_PRINT, SEM_SEATS, SEM_MUTEX, Other}
  /\ Cardinality(Ids) = 4

Seats == 1..MAX_SEATS
NoSeat == 0
NotForked == 0
Reaped == -1

VARIABLES
  step,          \* the statement each process is at; NotForked, or Reaped, for a
                 \* reader that does not exist yet, or any more
  seats,         \* lib->seats[]: the reader who has the seat, or NoProc
  reader_count,  \* lib->reader_count
  myslot,        \* slot, of each reader
  count          \* the reader_count that each reader has loaded

libVars == <<step, seats, reader_count, myslot, count>>
vars == <<semVars, libVars>>

\* printfl(): V only if P found the semaphore; the output itself is left out
printfl == << <<"P", SEM_PRINT>>, <<"V if locked", SEM_PRINT>> >>

\* a failed sem_create(), shm_open() or fork() prints and exits: the last three
\* statements
bail == printfl \o << <<"exit">> >>

\* wrong variant: the table is unlocked before it is updated
reader_early_unlock ==
  << <<"shm_open">> >> \o printfl \o
  << <<"P", SEM_SEATS>>, <<"P", SEM_MUTEX>>, <<"find">>, <<"V", SEM_MUTEX>> >> \o printfl \o
  << <<"register">> >> \o printfl \o
  << <<"P", SEM_MUTEX>> >> \o printfl \o << <<"load">>, <<"unregister">> >> \o printfl \o
  << <<"V", SEM_MUTEX>>, <<"V", SEM_SEATS>>, <<"exit">> >> \o bail

\* wrong variant: P(SEM_MUTEX) before P(SEM_SEATS)
reader_mutex_first ==
  << <<"shm_open">> >> \o printfl \o
  << <<"P", SEM_MUTEX>>, <<"P", SEM_SEATS>>, <<"find">>, <<"register">> >> \o printfl \o
  << <<"V", SEM_MUTEX>> >> \o printfl \o
  << <<"P", SEM_MUTEX>> >> \o printfl \o << <<"load">>, <<"unregister">> >> \o printfl \o
  << <<"V", SEM_MUTEX>>, <<"V", SEM_SEATS>>, <<"exit">> >> \o bail

reader_process ==
  << <<"shm_open">> >> \o printfl \o
  << <<"P", SEM_SEATS>>, <<"P", SEM_MUTEX>>, <<"find">>, <<"register">> >> \o printfl \o
  << <<"V", SEM_MUTEX>> >> \o printfl \o
  << <<"P", SEM_MUTEX>> >> \o printfl \o << <<"load">>, <<"unregister">> >> \o printfl \o
  << <<"V", SEM_MUTEX>>, <<"V", SEM_SEATS>>, <<"exit">> >> \o bail

num_readers == Cardinality(Readers)
waits(n) == [i \in 1..n |-> <<"wait">>]

\* wrong variant: one seat too many
main_extra_seat ==
  << <<"create", SEM_PRINT, 1>> >> \o printfl \o
  << <<"create", SEM_SEATS, MAX_SEATS + 1>>, <<"create", SEM_MUTEX, 1>>,
     <<"shm_open">>, <<"fork">> >> \o waits(num_readers) \o printfl \o
  << <<"free", SEM_SEATS>>, <<"free", SEM_MUTEX>>, <<"free", SEM_PRINT>>,
     <<"exit">> >> \o bail

\* wrong variant: one wait() too few
main_one_left ==
  << <<"create", SEM_PRINT, 1>> >> \o printfl \o
  << <<"create", SEM_SEATS, MAX_SEATS>>, <<"create", SEM_MUTEX, 1>>,
     <<"shm_open">>, <<"fork">> >> \o waits(num_readers - 1) \o printfl \o
  << <<"free", SEM_SEATS>>, <<"free", SEM_MUTEX>>, <<"free", SEM_PRINT>>,
     <<"exit">> >> \o bail

main ==
  << <<"create", SEM_PRINT, 1>> >> \o printfl \o
  << <<"create", SEM_SEATS, MAX_SEATS>>, <<"create", SEM_MUTEX, 1>>,
     <<"shm_open">>, <<"fork">> >> \o waits(num_readers) \o printfl \o
  << <<"free", SEM_SEATS>>, <<"free", SEM_MUTEX>>, <<"free", SEM_PRINT>>,
     <<"exit">> >> \o bail

Program(p) == IF p = Main THEN main ELSE reader_process
Statement(p) == Program(p)[step[p]]

\* other programs may have taken some of the table's slots
Init ==
  /\ \E taken \in 0..SEM_MAX :
       sems = [s \in Slots |-> [valid |-> s <= taken, id |-> Other, value |-> 0]]
  /\ CallsInit
  /\ step = [p \in Procs |-> IF p = Main THEN 1 ELSE NotForked]
  /\ seats = [s \in Seats |-> NoProc]
  /\ reader_count = 0
  /\ myslot = [r \in Readers |-> NoSeat]
  /\ count = [r \in Readers |-> 0]

\* p is at a statement of this kind, and back from its system calls
At(p, op) == pc[p] = "idle" /\ step[p] > 0 /\ Statement(p)[1] = op
Jump(p, i) == step' = [step EXCEPT ![p] = i]
Advance(p) == Jump(p, step[p] + 1)
Bail(p) == Jump(p, Len(Program(p)) - 2)
Exit(p) == Jump(p, Len(Program(p)))

----------------------------------------------------------------------------
(* Statements that are system calls *)

\* a full table: without SEM_PRINT there is no printfl(), and printf() is used
Create(p) ==
  /\ At(p, "create")
  /\ sem_create(p, Statement(p)[2], Statement(p)[3])
  /\ IF ret'[p] = 0 THEN Advance(p)
     ELSE IF Statement(p)[2] = SEM_PRINT THEN Exit(p) ELSE Bail(p)
  /\ UNCHANGED <<seats, reader_count, myslot, count>>

Free(p) ==
  /\ At(p, "free")
  /\ sem_free(p, Statement(p)[2])
  /\ Advance(p)
  /\ UNCHANGED <<seats, reader_count, myslot, count>>

P(p) ==
  /\ At(p, "P")
  /\ sem_p(p, Statement(p)[2])
  /\ Advance(p)
  /\ UNCHANGED <<seats, reader_count, myslot, count>>

V(p) ==
  /\ At(p, "V") \/ At(p, "V if locked")
  /\ IF At(p, "V if locked") /\ ret[p] # 0
     THEN UNCHANGED semVars
     ELSE sem_v(p, Statement(p)[2])
  /\ Advance(p)
  /\ UNCHANGED <<seats, reader_count, myslot, count>>

\* the seat table is a page of shared memory, zeroed by shm_open() and by main
ShmOpen(p) ==
  /\ At(p, "shm_open")
  /\ Advance(p) \/ Bail(p)
  /\ UNCHANGED <<semVars, seats, reader_count, myslot, count>>

\* main's loop of fork()s, one reader at a time
Fork(r) ==
  /\ At(Main, "fork")
  /\ step[r] = NotForked
  /\ Jump(r, 1)
  /\ UNCHANGED <<semVars, seats, reader_count, myslot, count>>

Forked ==
  /\ At(Main, "fork")
  /\ \/ (\A r \in Readers : step[r] # NotForked) /\ Advance(Main)
     \/ (\E r \in Readers : step[r] = NotForked) /\ Bail(Main)
  /\ UNCHANGED <<semVars, seats, reader_count, myslot, count>>

Children == {r \in Readers : step[r] \notin {NotForked, Reaped}}
Exited == {r \in Readers : At(r, "exit")}

\* one wait(0): it reaps a child that has exited, and returns -1 at once when
\* there are no children
Wait ==
  /\ At(Main, "wait")
  /\ \E c \in IF Children = {} THEN {NoProc} ELSE Exited :
       step' = [p \in Procs |-> CASE p = Main -> step[p] + 1
                                  [] p = c -> Reaped
                                  [] OTHER -> step[p]]
  /\ UNCHANGED <<semVars, seats, reader_count, myslot, count>>

----------------------------------------------------------------------------
(* Statements on the seat table *)

\* wrong variant: the search goes from i = 1 to i <= MAX_SEATS, so that it looks
\* past the table, where shared memory is zero
FindFromOne(r) ==
  /\ At(r, "find")
  /\ LET Unused(s) == s \notin Seats \/ seats[s] = NoProc
     IN myslot' = [myslot EXCEPT ![r] =
          CHOOSE s \in 2..(MAX_SEATS + 1) :
            /\ Unused(s)
            /\ \A t \in 2..(MAX_SEATS + 1) : t < s => ~Unused(t)]
  /\ count' = [count EXCEPT ![r] = reader_count]
  /\ Advance(r)
  /\ UNCHANGED <<semVars, seats, reader_count>>

\* the first unused seat, if any, and lib->reader_count
Find(r) ==
  /\ At(r, "find")
  /\ myslot' = [myslot EXCEPT ![r] =
       IF \E s \in Seats : seats[s] = NoProc
       THEN CHOOSE s \in Seats : /\ seats[s] = NoProc
                                 /\ \A t \in Seats : t < s => seats[t] # NoProc
       ELSE NoSeat]
  /\ count' = [count EXCEPT ![r] = reader_count]
  /\ Advance(r)
  /\ UNCHANGED <<semVars, seats, reader_count>>

Register(r) ==
  /\ At(r, "register")
  /\ IF myslot[r] # NoSeat
     THEN /\ seats' = [seats EXCEPT ![myslot[r]] = r]
          /\ reader_count' = count[r] + 1
     ELSE UNCHANGED <<seats, reader_count>>
  /\ count' = [count EXCEPT ![r] = 0]
  /\ Advance(r)
  /\ UNCHANGED <<semVars, myslot>>

Load(r) ==
  /\ At(r, "load")
  /\ count' = [count EXCEPT ![r] = reader_count]
  /\ Advance(r)
  /\ UNCHANGED <<semVars, seats, reader_count, myslot>>

Unregister(r) ==
  /\ At(r, "unregister")
  /\ IF myslot[r] # NoSeat
     THEN /\ seats' = [seats EXCEPT ![myslot[r]] = NoProc]
          /\ reader_count' = count[r] - 1
     ELSE UNCHANGED <<seats, reader_count>>
  /\ myslot' = [myslot EXCEPT ![r] = NoSeat]
  /\ count' = [count EXCEPT ![r] = 0]
  /\ Advance(r)
  /\ UNCHANGED semVars

Done == \A p \in Procs : At(p, "exit") \/ step[p] \in {NotForked, Reaped}

Process(p) ==
  \/ Create(p) \/ Free(p) \/ P(p) \/ V(p) \/ ShmOpen(p)
  \/ SemStep(p) /\ UNCHANGED libVars
  \/ p = Main /\ (Forked \/ Wait \/ \E r \in Readers : Fork(r))
  \/ p \in Readers /\ (Find(p) \/ Register(p) \/ Load(p) \/ Unregister(p))

Next == \E p \in Procs : Process(p)

Spec == Init /\ [][Next]_vars

\* the scheduler runs every process again and again
FairSpec == Spec /\ \A p \in Procs : WF_vars(Process(p))

----------------------------------------------------------------------------
(* Properties *)

\* types of the seat table and of the programs' variables: a seat is one of the
\* table's, and a program stops at an exit()
TypeOK ==
  /\ SemTypeOK
  /\ step \in [Procs -> Reaped..(Len(main) + Len(reader_process))]
  /\ \A p \in Procs : step[p] <= Len(Program(p))
  /\ seats \in [Seats -> Readers \cup {NoProc}]
  /\ reader_count \in Int
  /\ myslot \in [Readers -> Seats \cup {NoSeat}]
  /\ count \in [Readers -> Int]

\* a reader who got past P(SEM_SEATS) finds a free seat: "acquired semaphore but
\* no seat found!" is never printed
SeatFound == \A r \in Readers : At(r, "register") => myslot[r] # NoSeat

\* a registered seat is its reader's until that reader gives it back, and
\* reader_count is the number of seats taken whenever nobody is updating it
RegistryConsistent ==
  /\ \A q, r \in Readers : myslot[q] = myslot[r] /\ myslot[q] # NoSeat => q = r
  /\ (\A r \in Readers : ~At(r, "register") /\ ~At(r, "unregister"))
       => reader_count = Cardinality({s \in Seats : seats[s] # NoProc})

\* main counts its wait()s and does not look at what they return, yet when it
\* frees the semaphores every reader has exited and is not inside sem_p() or
\* sem_v(), and all seats have been given back
FreedUnused ==
  At(Main, "free") =>
    /\ \A r \in Readers : At(r, "exit") \/ step[r] = Reaped
    /\ \A s \in Seats : seats[s] = NoProc
    /\ reader_count = 0

\* every process ends: SEM_PRINT inside SEM_MUTEX inside SEM_SEATS cannot
\* deadlock, and no wakeup is lost
Terminates == <>Done

=============================================================================
