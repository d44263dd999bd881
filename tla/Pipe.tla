-------------------------------- MODULE Pipe --------------------------------
(****************************************************************************)
(* A pipe (kernel/pipe.c): a ring buffer under pi->lock, with writers that  *)
(* sleep while it is full and readers that sleep while it is empty.         *)
(*                                                                          *)
(* Processes hold descriptors of its two ends; an end is closed when the    *)
(* last of them goes (fileclose() in kernel/file.c).  kill() may come at    *)
(* any time, between a test of killed() and the sleep() after it too.       *)
(* sleep() gives up pi->lock and sleeps in one step: SleepLock shows that   *)
(* of kernel/proc.c.                                                        *)
(****************************************************************************)
EXTENDS Integers, Sequences, FiniteSets, FiniteSetsExt

CONSTANTS Procs, NoProc,
          Bytes,
          PIPESIZE,
          WRAP,     \* nread and nwrite are uint: they count modulo WRAP
          Lens      \* bound: the n of a read() or write()

ASSUME PipeAssumption ==
  /\ IsFiniteSet(Procs) /\ NoProc \notin Procs
  /\ PIPESIZE \in Nat \ {0} /\ Lens \subseteq Nat
  /\ WRAP \in Nat /\ WRAP > PIPESIZE /\ WRAP % PIPESIZE = 0

VARIABLES
  data, nread, nwrite, readopen, writeopen,
  lock,       \* holder of pi->lock
  freed,      \* kfree(pi) has been called
  rd, wr,     \* processes with a descriptor of the read end, of the write end
  pc, todo,   \* where each process is; bytes it has yet to write or may read
  killed,
  fresh,      \* history: the writer that holds pi->lock has written a byte since
              \* it took the lock, and has not called wakeup(&pi->nread) yet
  abandoned   \* history: a killed writer left such bytes in the pipe, they are
              \* not all read, and nobody has called wakeup(&pi->nread) since

pipeVars == <<data, nread, nwrite, readopen, writeopen, freed>>
histVars == <<fresh, abandoned>>
vars == <<pipeVars, lock, rd, wr, pc, todo, killed, histVars>>

Init ==
  /\ data \in [0..(PIPESIZE - 1) -> {CHOOSE b \in Bytes : TRUE}]
  /\ nread = 0 /\ nwrite = 0
  /\ readopen = TRUE /\ writeopen = TRUE
  /\ lock = NoProc
  /\ freed = FALSE
  /\ rd \in SUBSET Procs \ {{}} /\ wr \in SUBSET Procs \ {{}}
  /\ rd \cup wr = Procs
  /\ pc = [p \in Procs |-> "user"]
  /\ todo = [p \in Procs |-> 0]
  /\ killed = [p \in Procs |-> FALSE]
  /\ fresh = FALSE /\ abandoned = FALSE

Goto(p, label) == pc' = [pc EXCEPT ![p] = label]

\* p takes this step while it holds pi->lock
Holds(p, label) == pc[p] = label /\ lock = p

\* pc after wakeup() of those asleep at label, and p going to next
WakeAnd(label, p, next) ==
  pc' = [q \in Procs |-> CASE q = p -> next
                           [] pc[q] = label -> IF label = "rasleep" THEN "rlock" ELSE "wlock"
                           [] OTHER -> pc[q]]

\* wakeup(&pi->nread): what has been written so far is announced
Announced == fresh' = FALSE /\ abandoned' = FALSE

\* wrong variant: one byte too many
FullLate == nwrite = (nread + PIPESIZE + 1) % WRAP

Full == nwrite = (nread + PIPESIZE) % WRAP
Empty == nread = nwrite

----------------------------------------------------------------------------
(* pipewrite() *)

CallWrite(p, n) ==
  /\ pc[p] = "user" /\ p \in wr /\ ~killed[p]
  /\ Goto(p, "wlock")
  /\ todo' = [todo EXCEPT ![p] = n]
  /\ UNCHANGED <<pipeVars, lock, rd, wr, killed, histVars>>

\* acquire(&pi->lock), on entry or on return from sleep()
WriteAcquire(p) ==
  /\ pc[p] = "wlock" /\ lock = NoProc
  /\ lock' = p
  /\ Goto(p, "write")
  /\ UNCHANGED <<pipeVars, rd, wr, todo, killed, histVars>>

\* the read end is closed, or the writer is killed: return -1
WriteFail(p) ==
  /\ Holds(p, "write") /\ todo[p] > 0
  /\ ~readopen \/ killed[p]
  /\ fresh' = FALSE
  /\ abandoned' = (abandoned \/ (fresh /\ killed[p]))
  /\ lock' = NoProc
  /\ todo' = [todo EXCEPT ![p] = 0]
  /\ Goto(p, "user")
  /\ UNCHANGED <<pipeVars, rd, wr, killed>>

\* the tests passed: on to copy a byte, or to sleep
WriteTested(p) ==
  /\ Holds(p, "write") /\ todo[p] > 0
  /\ readopen /\ ~killed[p]
  /\ Goto(p, IF Full THEN "wfull" ELSE "wcopy")
  /\ UNCHANGED <<pipeVars, lock, rd, wr, todo, killed, histVars>>

\* wakeup(&pi->nread); sleep(&pi->nwrite, &pi->lock)
WriteSleep(p) ==
  /\ Holds(p, "wfull")
  /\ WakeAnd("rasleep", p, "wasleep")
  /\ Announced
  /\ lock' = NoProc
  /\ UNCHANGED <<pipeVars, rd, wr, todo, killed>>

\* wrong variant: a counter that never wraps around
WriteByteNoWrap(p, b) ==
  /\ Holds(p, "wcopy")
  /\ data' = [data EXCEPT ![nwrite % PIPESIZE] = b]
  /\ nwrite' = nwrite + 1
  /\ todo' = [todo EXCEPT ![p] = @ - 1]
  /\ fresh' = TRUE
  /\ Goto(p, "write")
  /\ UNCHANGED <<nread, readopen, writeopen, freed, lock, rd, wr, killed, abandoned>>

\* copyin() of one byte
WriteByte(p, b) ==
  /\ Holds(p, "wcopy")
  /\ data' = [data EXCEPT ![nwrite % PIPESIZE] = b]
  /\ nwrite' = (nwrite + 1) % WRAP
  /\ todo' = [todo EXCEPT ![p] = @ - 1]
  /\ fresh' = TRUE
  /\ Goto(p, "write")
  /\ UNCHANGED <<nread, readopen, writeopen, freed, lock, rd, wr, killed, abandoned>>

\* wrong variant: wakeup(&pi->nread) is left out
WriteDoneNoWakeup(p) ==
  /\ (Holds(p, "write") /\ todo[p] = 0) \/ Holds(p, "wcopy")
  /\ Goto(p, "user")
  /\ fresh' = FALSE
  /\ lock' = NoProc
  /\ todo' = [todo EXCEPT ![p] = 0]
  /\ UNCHANGED <<pipeVars, rd, wr, killed, abandoned>>

\* all is written, or copyin() fails: wakeup(&pi->nread) and return
WriteDone(p) ==
  /\ (Holds(p, "write") /\ todo[p] = 0) \/ Holds(p, "wcopy")
  /\ WakeAnd("rasleep", p, "user")
  /\ Announced
  /\ lock' = NoProc
  /\ todo' = [todo EXCEPT ![p] = 0]
  /\ UNCHANGED <<pipeVars, rd, wr, killed>>

----------------------------------------------------------------------------
(* piperead() *)

CallRead(p, n) ==
  /\ pc[p] = "user" /\ p \in rd /\ ~killed[p]
  /\ Goto(p, "rlock")
  /\ todo' = [todo EXCEPT ![p] = n]
  /\ UNCHANGED <<pipeVars, lock, rd, wr, killed, histVars>>

ReadAcquire(p) ==
  /\ pc[p] = "rlock" /\ lock = NoProc
  /\ lock' = p
  /\ Goto(p, "read")
  /\ UNCHANGED <<pipeVars, rd, wr, todo, killed, histVars>>

\* empty and still open for writing: return -1 if killed, else on to sleep()
ReadEmpty(p) ==
  /\ Holds(p, "read") /\ Empty /\ writeopen
  /\ IF killed[p]
     THEN /\ lock' = NoProc
          /\ todo' = [todo EXCEPT ![p] = 0]
          /\ Goto(p, "user")
     ELSE Goto(p, "rempty") /\ UNCHANGED <<lock, todo>>
  /\ UNCHANGED <<pipeVars, rd, wr, killed, histVars>>

ReadSleep(p) ==
  /\ Holds(p, "rempty")
  /\ Goto(p, "rasleep")
  /\ lock' = NoProc
  /\ UNCHANGED <<pipeVars, rd, wr, todo, killed, histVars>>

\* copies what there is, up to n bytes or to where copyout() fails, then
\* wakeup(&pi->nwrite) and return; no byte if the pipe is empty and closed
ReadCopy(p) ==
  /\ Holds(p, "read") /\ (~Empty \/ ~writeopen)
  /\ \E k \in 0..Min({todo[p], (nwrite - nread) % WRAP}) : nread' = (nread + k) % WRAP
  /\ WakeAnd("wasleep", p, "user")
  /\ abandoned' = (abandoned /\ nread' # nwrite)
  /\ lock' = NoProc
  /\ todo' = [todo EXCEPT ![p] = 0]
  /\ UNCHANGED <<data, nwrite, readopen, writeopen, freed, rd, wr, killed, fresh>>

----------------------------------------------------------------------------
(* close() and kill() *)

\* wrong variant: wakeup(&pi->nread) is left out
CloseWriteNoWakeup(p) ==
  /\ pc[p] = "user" /\ p \in wr
  /\ wr' = wr \ {p}
  /\ IF wr = {p}
     THEN /\ lock = NoProc
          /\ writeopen' = FALSE
          /\ UNCHANGED pc
          /\ freed' = ~readopen
     ELSE UNCHANGED <<writeopen, pc, freed>>
  /\ UNCHANGED <<data, nread, nwrite, readopen, lock, rd, todo, killed, histVars>>

\* wrong variant: the end is closed with its first descriptor
CloseWriteAny(p) ==
  /\ pc[p] = "user" /\ p \in wr
  /\ wr' = wr \ {p}
  /\ IF TRUE
     THEN /\ lock = NoProc
          /\ writeopen' = FALSE
          /\ WakeAnd("rasleep", p, "user")
          /\ Announced
          /\ freed' = ~readopen
     ELSE UNCHANGED <<writeopen, pc, freed, histVars>>
  /\ UNCHANGED <<data, nread, nwrite, readopen, lock, rd, todo, killed>>

\* fileclose() of a descriptor; pipeclose() when it is the last of the end
CloseWrite(p) ==
  /\ pc[p] = "user" /\ p \in wr
  /\ wr' = wr \ {p}
  /\ IF wr = {p}
     THEN /\ lock = NoProc
          /\ writeopen' = FALSE
          /\ WakeAnd("rasleep", p, "user")
          /\ Announced
          /\ freed' = ~readopen
     ELSE UNCHANGED <<writeopen, pc, freed, histVars>>
  /\ UNCHANGED <<data, nread, nwrite, readopen, lock, rd, todo, killed>>

CloseRead(p) ==
  /\ pc[p] = "user" /\ p \in rd
  /\ rd' = rd \ {p}
  /\ IF rd = {p}
     THEN /\ lock = NoProc
          /\ readopen' = FALSE
          /\ WakeAnd("wasleep", p, "user")
          /\ freed' = ~writeopen
     ELSE UNCHANGED <<readopen, pc, freed>>
  /\ UNCHANGED <<data, nread, nwrite, writeopen, lock, wr, todo, killed, histVars>>

\* kkill(): sets p->killed, and wakes p from sleep()
Kill(p) ==
  /\ ~killed[p]
  /\ killed' = [killed EXCEPT ![p] = TRUE]
  /\ pc' = [pc EXCEPT ![p] = CASE @ = "rasleep" -> "rlock"
                               [] @ = "wasleep" -> "wlock"
                               [] OTHER -> @]
  /\ UNCHANGED <<pipeVars, lock, rd, wr, todo, histVars>>

Writing(p) ==
  WriteAcquire(p) \/ WriteFail(p) \/ WriteTested(p) \/ WriteSleep(p)
    \/ (\E b \in Bytes : WriteByte(p, b)) \/ WriteDone(p)

Reading(p) == ReadAcquire(p) \/ ReadEmpty(p) \/ ReadSleep(p) \/ ReadCopy(p)

Next ==
  \E p \in Procs :
    \/ \E n \in Lens : CallWrite(p, n) \/ CallRead(p, n)
    \/ Writing(p) \/ Reading(p)
    \/ CloseRead(p) \/ CloseWrite(p)
    \/ Kill(p)

Spec == Init /\ [][Next]_vars

----------------------------------------------------------------------------
(* Properties *)

Labels == {"user", "wlock", "write", "wfull", "wcopy", "wasleep",
           "rlock", "read", "rempty", "rasleep"}

TypeOK ==
  /\ data \in [0..(PIPESIZE - 1) -> Bytes]
  /\ nread \in 0..(WRAP - 1) /\ nwrite \in 0..(WRAP - 1)
  /\ {readopen, writeopen, freed, fresh, abandoned} \subseteq BOOLEAN
  /\ lock \in Procs \cup {NoProc}
  /\ rd \subseteq Procs /\ wr \subseteq Procs
  /\ pc \in [Procs -> Labels]
  /\ todo \in [Procs -> Nat]
  /\ killed \in [Procs -> BOOLEAN]

Count == (nwrite - nread) % WRAP

Stream == INSTANCE ByteStream
  WITH Capacity <- PIPESIZE,
       stream <- [i \in 1..Count |-> data[(nread + i - 1) % PIPESIZE]]

\* the ring buffer is a first-in first-out stream of at most PIPESIZE bytes,
\* whoever writes, reads, closes or is killed, and when the counters wrap around
IsByteStream == Stream!Spec

\* pipeclose() frees the pipe only when no process is inside pipewrite() or
\* piperead(), or ever will be
FreedUnused == freed => rd = {} /\ wr = {} /\ \A p \in Procs : pc[p] = "user"

\* no reader sleeps in piperead() while there are bytes to read, and no writer in
\* pipewrite() while there is room, unless a process that will wake it holds the
\* lock.  The one exception is the return of pipewrite() when killed(): bytes it
\* wrote since it last took pi->lock stay unannounced until they are read, or
\* until the next wakeup(&pi->nread)
NoMissedBytes ==
  lock = NoProc =>
    /\ ~Empty /\ ~abandoned => \A p \in Procs : pc[p] # "rasleep"
    /\ ~Full => \A p \in Procs : pc[p] # "wasleep"

\* once pipeclose() has closed an end, nobody sleeps at the other one: a read()
\* gets to see the end of the stream, and a write() the broken pipe
ClosedEndSeen ==
  lock = NoProc =>
    \A p \in Procs : /\ ~writeopen => pc[p] # "rasleep"
                     /\ ~readopen => pc[p] # "wasleep"

=============================================================================
