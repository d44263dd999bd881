--------------------------------- MODULE Log ---------------------------------
(****************************************************************************)
(* The redo log of kernel/log.c: begin_op(), log_write(), end_op() with its *)
(* group commit, and recovery after a crash at any point, including in the  *)
(* middle of a disk write.                                                  *)
(*                                                                          *)
(* A step is a critical section of log.lock or one disk write.  sleep() and *)
(* wakeup() are atomic here; module SleepLock models and SleepLockProofs    *)
(* proves what makes them so.                                               *)
(****************************************************************************)
EXTENDS Integers, Sequences, FiniteSets, Functions

CONSTANTS Procs, Blocks, Values,
          MAXOPBLOCKS,  \* log blocks reserved for one system call
          LOGBLOCKS,    \* data blocks of the on-disk log
          OPBLOCKS,     \* most distinct blocks one system call logs
          Torn          \* what a block holds when power fails while it is written

ASSUME ProcsAssumption == IsFiniteSet(Procs)
ASSUME SizesAssumption ==
  /\ MAXOPBLOCKS \in Nat \ {0}
  /\ LOGBLOCKS \in Nat
  /\ OPBLOCKS \in 1..MAXOPBLOCKS
ASSUME TornAssumption == Torn \notin Values

VARIABLES
  \* on disk
  disk,         \* home location of each block
  logarea,      \* the log's data blocks
  header,       \* the log's header block: hb->block[0..hb->n-1]
  \* in memory
  lh,           \* log.lh: lh.block[0..lh.n-1]
  outstanding,  \* log.outstanding
  committing,   \* log.committing
  cache,        \* b->data of each block, as bread() returns it
  pinned,       \* blocks with a bpin() reference
  panicked,     \* panic() was called
  phase,        \* "boot", "recover" or "up"
  tail,         \* loop index of write_log() and install_trans()
  pc,           \* where each process is
  wrote         \* blocks the process has logged in its current system call

diskVars == <<disk, logarea, header>>
memVars == <<lh, outstanding, committing, cache, pinned, panicked, phase, tail,
             pc, wrote>>
vars == <<diskVars, memVars>>

Init ==
  /\ disk \in [Blocks -> Values]
  /\ logarea = [i \in 1..LOGBLOCKS |-> Torn]
  /\ header = <<>>
  /\ lh = <<>>
  /\ outstanding = 0
  /\ committing = FALSE
  /\ cache = disk
  /\ pinned = {}
  /\ panicked = FALSE
  /\ phase = "up"
  /\ tail = 1
  /\ pc = [p \in Procs |-> "user"]
  /\ wrote = [p \in Procs |-> {}]

Running == phase = "up" /\ ~panicked

\* wakeup(&log): every sleeper in begin_op() will look again
Woken(f) == [p \in Procs |-> IF f[p] = "asleep" THEN "begin" ELSE f[p]]

----------------------------------------------------------------------------
(* begin_op() *)

CallBegin(p) ==
  /\ Running
  /\ pc[p] = "user"
  /\ pc' = [pc EXCEPT ![p] = "begin"]
  /\ UNCHANGED <<diskVars, lh, outstanding, committing, cache, pinned, panicked,
                 phase, tail, wrote>>

\* wrong variant: the space of the caller itself is not counted
MustWaitForOthers ==
  committing \/ Len(lh) + outstanding * MAXOPBLOCKS > LOGBLOCKS

\* wrong variant: what is in the log already is not counted
MustWaitForCalls ==
  committing \/ (outstanding + 1) * MAXOPBLOCKS > LOGBLOCKS

MustWait ==
  committing \/ Len(lh) + (outstanding + 1) * MAXOPBLOCKS > LOGBLOCKS

BeginSleep(p) ==
  /\ Running
  /\ pc[p] = "begin"
  /\ MustWait
  /\ pc' = [pc EXCEPT ![p] = "asleep"]
  /\ UNCHANGED <<diskVars, lh, outstanding, committing, cache, pinned, panicked,
                 phase, tail, wrote>>

BeginOp(p) ==
  /\ Running
  /\ pc[p] = "begin"
  /\ ~MustWait
  /\ outstanding' = outstanding + 1
  /\ pc' = [pc EXCEPT ![p] = "op"]
  /\ wrote' = [wrote EXCEPT ![p] = {}]
  /\ UNCHANGED <<diskVars, lh, committing, cache, pinned, panicked, phase, tail>>

----------------------------------------------------------------------------
(* The caller modifies a buffer it has locked, then calls log_write() *)

\* external: no system call logs more than OPBLOCKS distinct blocks
MayLog(p, b) == b \in wrote[p] \/ Cardinality(wrote[p]) < OPBLOCKS

TooBig == Len(lh) >= LOGBLOCKS

\* wrong variant: bpin() is left out
LogWriteUnpinned(p, b, v) ==
  /\ Running
  /\ pc[p] = "op"
  /\ MayLog(p, b)
  /\ ~TooBig
  /\ outstanding >= 1
  /\ cache' = [cache EXCEPT ![b] = v]
  /\ wrote' = [wrote EXCEPT ![p] = @ \cup {b}]
  /\ IF b \in Range(lh)                      \* log absorption
     THEN UNCHANGED <<lh, pinned>>
     ELSE /\ lh' = Append(lh, b)
          /\ UNCHANGED pinned
  /\ UNCHANGED <<diskVars, outstanding, committing, panicked, phase, tail, pc>>

LogWrite(p, b, v) ==
  /\ Running
  /\ pc[p] = "op"
  /\ MayLog(p, b)
  /\ ~TooBig
  /\ outstanding >= 1
  /\ cache' = [cache EXCEPT ![b] = v]
  /\ wrote' = [wrote EXCEPT ![p] = @ \cup {b}]
  /\ IF b \in Range(lh)                      \* log absorption
     THEN UNCHANGED <<lh, pinned>>
     ELSE /\ lh' = Append(lh, b)
          /\ pinned' = pinned \cup {b}
  /\ UNCHANGED <<diskVars, outstanding, committing, panicked, phase, tail, pc>>

\* panic("too big a transaction"), before absorption is considered, or
\* panic("log_write outside of trans")
LogWritePanic(p, b) ==
  /\ Running
  /\ pc[p] = "op"
  /\ MayLog(p, b)
  /\ TooBig \/ outstanding < 1
  /\ panicked' = TRUE
  /\ UNCHANGED <<diskVars, lh, outstanding, committing, cache, pinned, phase,
                 tail, pc, wrote>>

\* bget() may recycle any buffer nobody references; a later bread() gets the
\* block's contents from the disk
Evict(b) ==
  /\ Running
  /\ b \notin pinned
  /\ cache' = [cache EXCEPT ![b] = disk[b]]
  /\ UNCHANGED <<diskVars, lh, outstanding, committing, pinned, panicked, phase,
                 tail, pc, wrote>>

----------------------------------------------------------------------------
(* end_op() and commit() *)

\* wrong variant: the last end_op() does not commit()
EndOpNoCommit(p) ==
  /\ Running
  /\ pc[p] = "op"
  /\ outstanding' = outstanding - 1
  /\ panicked' = committing
  /\ IF outstanding' = 0
     THEN /\ committing' = TRUE
          /\ tail' = 1
          /\ pc' = [pc EXCEPT ![p] = "finish"]
     ELSE /\ pc' = Woken([pc EXCEPT ![p] = "user"])
          /\ UNCHANGED <<committing, tail>>
  /\ UNCHANGED <<diskVars, lh, cache, pinned, phase, wrote>>

\* wrong variant: wakeup(&log) is left out when others are outstanding
EndOpNoWakeup(p) ==
  /\ Running
  /\ pc[p] = "op"
  /\ outstanding' = outstanding - 1
  /\ panicked' = committing
  /\ IF outstanding' = 0
     THEN /\ committing' = TRUE
          /\ tail' = 1
          /\ pc' = [pc EXCEPT ![p] = IF lh = <<>> THEN "finish" ELSE "write_log"]
     ELSE /\ pc' = [pc EXCEPT ![p] = "user"]
          /\ UNCHANGED <<committing, tail>>
  /\ UNCHANGED <<diskVars, lh, cache, pinned, phase, wrote>>

\* commit() has nothing to do when the log is empty
EndOp(p) ==
  /\ Running
  /\ pc[p] = "op"
  /\ outstanding' = outstanding - 1
  /\ panicked' = committing
  /\ IF outstanding' = 0
     THEN /\ committing' = TRUE
          /\ tail' = 1
          /\ pc' = [pc EXCEPT ![p] = IF lh = <<>> THEN "finish" ELSE "write_log"]
     ELSE /\ pc' = Woken([pc EXCEPT ![p] = "user"])
          /\ UNCHANGED <<committing, tail>>
  /\ UNCHANGED <<diskVars, lh, cache, pinned, phase, wrote>>

\* one iteration of write_log()
WriteLog(p) ==
  /\ Running
  /\ pc[p] = "write_log"
  /\ tail <= Len(lh)
  /\ logarea' = [logarea EXCEPT ![tail] = cache[lh[tail]]]
  /\ tail' = tail + 1
  /\ UNCHANGED <<disk, header, lh, outstanding, committing, cache, pinned,
                 panicked, phase, pc, wrote>>

\* wrong variant: write_head() before write_log()
WriteHeadFirst(p) ==
  /\ Running
  /\ pc[p] = "write_log"
  /\ header' = lh
  /\ tail' = 1
  /\ pc' = [pc EXCEPT ![p] = "install"]
  /\ UNCHANGED <<disk, logarea, lh, outstanding, committing, cache, pinned,
                 panicked, phase, wrote>>

\* wrong variant: the loop of install_trans() starts one block early
WriteHeadTail(p) ==
  /\ Running
  /\ pc[p] = "write_log"
  /\ tail > Len(lh)
  /\ header' = lh
  /\ tail' = 0
  /\ pc' = [pc EXCEPT ![p] = "install"]
  /\ UNCHANGED <<disk, logarea, lh, outstanding, committing, cache, pinned,
                 panicked, phase, wrote>>

\* write_head(): "the true point at which the current transaction commits"
WriteHead(p) ==
  /\ Running
  /\ pc[p] = "write_log"
  /\ tail > Len(lh)
  /\ header' = lh
  /\ tail' = 1
  /\ pc' = [pc EXCEPT ![p] = "install"]
  /\ UNCHANGED <<disk, logarea, lh, outstanding, committing, cache, pinned,
                 panicked, phase, wrote>>

\* one iteration of install_trans(0)
InstallTrans(p) ==
  /\ Running
  /\ pc[p] = "install"
  /\ tail <= Len(lh)
  /\ disk' = [disk EXCEPT ![lh[tail]] = logarea[tail]]
  /\ cache' = [cache EXCEPT ![lh[tail]] = logarea[tail]]
  /\ pinned' = pinned \ {lh[tail]}
  /\ tail' = tail + 1
  /\ UNCHANGED <<logarea, header, lh, outstanding, committing, panicked, phase,
                 pc, wrote>>

\* wrong variant: the log is erased before install_trans()
EraseLogFirst(p) ==
  /\ Running
  /\ pc[p] = "install"
  /\ lh' = <<>>
  /\ header' = <<>>
  /\ pc' = [pc EXCEPT ![p] = "finish"]
  /\ UNCHANGED <<disk, logarea, outstanding, committing, cache, pinned, panicked,
                 phase, tail, wrote>>

\* log.lh.n = 0; write_head()
EraseLog(p) ==
  /\ Running
  /\ pc[p] = "install"
  /\ tail > Len(lh)
  /\ lh' = <<>>
  /\ header' = <<>>
  /\ pc' = [pc EXCEPT ![p] = "finish"]
  /\ UNCHANGED <<disk, logarea, outstanding, committing, cache, pinned, panicked,
                 phase, tail, wrote>>

EndCommit(p) ==
  /\ Running
  /\ pc[p] = "finish"
  /\ committing' = FALSE
  /\ pc' = Woken([pc EXCEPT ![p] = "user"])
  /\ UNCHANGED <<diskVars, lh, outstanding, cache, pinned, panicked, phase, tail,
                 wrote>>

----------------------------------------------------------------------------
(* Crash and recovery *)

\* the disk write a CPU is in the middle of, if any
WritingLog == Running /\ \E p \in Procs : pc[p] = "write_log" /\ tail <= Len(lh)
Installing ==
  /\ tail <= Len(lh)
  /\ phase = "recover" \/ (Running /\ \E p \in Procs : pc[p] = "install")

\* Power fails.  Memory is lost.  A data block being written may be left torn;
\* struct logheader fits in the first sector of its block, so the header is
\* either the old one or the new one.
Crash ==
  /\ logarea' \in {logarea} \cup
        (IF WritingLog THEN {[logarea EXCEPT ![tail] = Torn]} ELSE {})
  /\ disk' \in {disk} \cup
        (IF Installing THEN {[disk EXCEPT ![lh[tail]] = Torn]} ELSE {})
  /\ phase' = "boot"
  /\ lh' = <<>>
  /\ outstanding' = 0
  /\ committing' = FALSE
  /\ pinned' = {}
  /\ panicked' = FALSE
  /\ tail' = 1
  /\ pc' = [p \in Procs |-> "user"]
  /\ wrote' = [p \in Procs |-> {}]
  /\ UNCHANGED <<header, cache>>

\* recover_from_log(): read_head() ...
ReadHead ==
  /\ phase = "boot"
  /\ lh' = header
  /\ tail' = 1
  /\ phase' = "recover"
  /\ UNCHANGED <<diskVars, outstanding, committing, cache, pinned, panicked, pc,
                 wrote>>

\* ... one iteration of install_trans(1) ...
RecoverInstall ==
  /\ phase = "recover"
  /\ tail <= Len(lh)
  /\ disk' = [disk EXCEPT ![lh[tail]] = logarea[tail]]
  /\ tail' = tail + 1
  /\ UNCHANGED <<logarea, header, lh, outstanding, committing, cache, pinned,
                 panicked, phase, pc, wrote>>

\* ... and the log is cleared; the buffer cache then reads from the disk
RecoverClear ==
  /\ phase = "recover"
  /\ tail > Len(lh)
  /\ lh' = <<>>
  /\ header' = <<>>
  /\ cache' = disk
  /\ phase' = "up"
  /\ UNCHANGED <<disk, logarea, outstanding, committing, pinned, panicked, tail,
                 pc, wrote>>

----------------------------------------------------------------------------

CommitStep(p) ==
  WriteLog(p) \/ WriteHead(p) \/ InstallTrans(p) \/ EraseLog(p) \/ EndCommit(p)

Recover == ReadHead \/ RecoverInstall \/ RecoverClear

Next ==
  \/ \E p \in Procs :
       \/ CallBegin(p) \/ BeginSleep(p) \/ BeginOp(p) \/ EndOp(p) \/ CommitStep(p)
       \/ \E b \in Blocks : LogWritePanic(p, b) \/ \E v \in Values : LogWrite(p, b, v)
  \/ \E b \in Blocks : Evict(b)
  \/ Recover
  \/ Crash

Spec == Init /\ [][Next]_vars

\* system calls end, the committer runs on, and a process woken in begin_op()
\* gets to run; nothing is assumed of callers or of crashes
Fairness ==
  /\ WF_vars(Recover)
  /\ \A p \in Procs : WF_vars(BeginSleep(p) \/ BeginOp(p) \/ EndOp(p) \/ CommitStep(p))

FairSpec == Spec /\ Fairness

----------------------------------------------------------------------------
(* Properties *)

Contents == Values \cup {Torn}

\* Types of the log's on-disk and in-memory state.
TypeOK ==
  /\ disk \in [Blocks -> Contents]
  /\ logarea \in [1..LOGBLOCKS -> Contents]
  /\ header \in Seq(Blocks)
  /\ lh \in Seq(Blocks)
  /\ outstanding \in Nat
  /\ committing \in BOOLEAN
  /\ cache \in [Blocks -> Contents]
  /\ pinned \in SUBSET Blocks
  /\ panicked \in BOOLEAN
  /\ phase \in {"boot", "recover", "up"}
  /\ tail \in Nat \ {0}
  /\ pc \in [Procs -> {"user", "begin", "asleep", "op", "write_log", "install", "finish"}]
  /\ wrote \in [Procs -> SUBSET Blocks]

\* What recovery would leave on disk: the blocks named by the header come from
\* the log, the others from their home locations.
Recovered ==
  [b \in Blocks |-> IF \E i \in 1..Len(header) : header[i] = b
                    THEN logarea[CHOOSE i \in 1..Len(header) : header[i] = b]
                    ELSE disk[b]]

\* commit() is atomic whatever block writes a crash cuts off or tears, and it
\* never writes a half-done system call: the log implements AtomicLog.
Abstract ==
  INSTANCE AtomicLog
    WITH mem <- IF phase = "up" THEN cache ELSE Recovered,
         durable <- Recovered,
         active <- {p \in Procs : pc[p] = "op"}

CrashAtomic == Abstract!Spec

\* log_write()'s and end_op()'s panics are unreachable when a system call logs
\* fewer blocks than begin_op() reserves for it: there is room in the log even for
\* the test that log_write() makes before absorption.
NoPanic == ~panicked

\* The blocks that outstanding system calls may still log, as begin_op() counts.
Spare == {<<p, i>> \in Procs \X (1..MAXOPBLOCKS) :
            pc[p] = "op" /\ i > Cardinality(wrote[p])}

\* begin_op()'s reservations add up: whatever the interleaving of begin_op(),
\* log_write() and end_op(), what the outstanding system calls have yet to log
\* fits in the log beside what is in it, across absorption and group commit.
SpaceReserved == Running => Len(lh) + Cardinality(Spare) <= LOGBLOCKS

\* When no system call is outstanding and none is committing, everything the
\* finished ones wrote survives a crash.
DurableWhenIdle ==
  Running /\ outstanding = 0 /\ ~committing => Recovered = cache /\ lh = <<>>

\* A buffer that differs from the disk cannot be recycled: it is pinned until
\* install_trans() has written it home.
DirtyIsPinned ==
  Running => \A b \in Blocks : cache[b] # disk[b] => b \in pinned /\ b \in Range(lh)

\* Whenever processes sleep in begin_op(), for space or for a commit, there comes a
\* moment when none does, for wakeup(&log) wakes them all; or the kernel panics.
SleepersWake ==
  (\E p \in Procs : pc[p] = "asleep")
    ~> ((\A p \in Procs : pc[p] # "asleep") \/ panicked)

=============================================================================
