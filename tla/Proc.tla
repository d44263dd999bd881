-------------------------------- MODULE Proc --------------------------------
(****************************************************************************)
(* The process table of kernel/proc.c: fork, exit, reparenting, wait, kill  *)
(* and the scheduler's hand-over of p->lock.                                *)
(*                                                                          *)
(* Slots are reused; p->parent and p->chan point to slots, not processes.   *)
(* The spin locks p->lock and wait_lock are explicit.  Only a process's own *)
(* slot is ever its sleep channel here (wait()'s sleep(p, &wait_lock)), so  *)
(* wakeup(q) touches slot q only; module SleepLock has wakeup()'s full loop *)
(* and sleep()'s hand-over of the condition lock in smaller steps.          *)
(****************************************************************************)
EXTENDS Integers, FiniteSets

CONSTANTS NPROC,   \* slots of proc[]
          NCPU,    \* CPUs running scheduler()
          MaxPid,  \* bound: allocpid() is called for pids up to MaxPid
          Victims  \* pids that kill() is called with

ASSUME TableAssumption == NPROC \in Nat \ {0, 1} /\ NCPU \in Nat \ {0}
ASSUME PidsAssumption == MaxPid \in Nat \ {0} /\ Victims \subseteq 0..MaxPid

Slots == 1..NPROC
initproc == 1
None == 0      \* a null struct proc pointer, and the pid of a free slot
Failed == -1

VARIABLES
  state, pid, parent, chan, killed,  \* struct proc
  nextpid,
  plock,     \* holder of p->lock, a slot or None
  waitlock,  \* holder of wait_lock
  cpu,       \* "on" a CPU, in "swtch", "off", or "back" from the scheduler
  pc,        \* next step of the process
  idx,       \* loop index of reparent() and kwait()
  havekids,  \* kwait()'s local
  np,        \* kfork()'s local
  sh,        \* init's program: pid of the shell it waits for, None before it
             \* forks one, Failed once fork() or wait() has returned -1
  panicked,
  ppid       \* history: pid of the process p->parent was set to

procVars == <<state, pid, parent, chan, killed>>
localVars == <<pc, idx, havekids, np>>
lockVars == <<plock, waitlock, cpu>>
vars == <<procVars, nextpid, lockVars, localVars, sh, panicked, ppid>>

Init ==
  /\ state = [p \in Slots |-> IF p = initproc THEN "RUNNABLE" ELSE "UNUSED"]
  /\ pid = [p \in Slots |-> IF p = initproc THEN 1 ELSE None]
  /\ parent = [p \in Slots |-> None]
  /\ chan = [p \in Slots |-> None]
  /\ killed = [p \in Slots |-> FALSE]
  /\ nextpid = 2
  /\ plock = [p \in Slots |-> None]
  /\ waitlock = None
  /\ cpu = [p \in Slots |-> "off"]
  /\ pc = [p \in Slots |-> "user"]
  /\ idx = [p \in Slots |-> 1]
  /\ havekids = [p \in Slots |-> FALSE]
  /\ np = [p \in Slots |-> None]
  /\ sh = None
  /\ panicked = FALSE
  /\ ppid = [p \in Slots |-> None]

At(p, label) == cpu[p] = "on" /\ pc[p] = label
Goto(p, label) == pc' = [pc EXCEPT ![p] = label]

\* freeproc(s), with s's p->lock held
freeproc(s) ==
  /\ state' = [state EXCEPT ![s] = "UNUSED"]
  /\ pid' = [pid EXCEPT ![s] = None]
  /\ parent' = [parent EXCEPT ![s] = None]
  /\ chan' = [chan EXCEPT ![s] = None]
  /\ killed' = [killed EXCEPT ![s] = FALSE]

\* user/init.c, by what its last system call returned: fork() a shell, wait() for
\* it again and again, start over when it is reaped, and exit() on a failure
InitCalls(call) ==
  call = CASE sh = None -> "fork" [] sh = Failed -> "exit" [] OTHER -> "wait"

\* a system call of p, init or any other program, gets past usertrap()'s first
\* test of killed(p)
Syscall(p, call) ==
  /\ At(p, "user")
  /\ plock[p] = None
  /\ ~killed[p]
  /\ p = initproc => InitCalls(call)

\* what a system call returns matters to init's program only
Returns(p, result) == sh' = IF p = initproc THEN result ELSE sh

----------------------------------------------------------------------------
(* kfork() *)

\* allocproc() finds a free slot; memory is copied and np->lock released
ForkAlloc(p, s) ==
  /\ Syscall(p, "fork")
  /\ nextpid <= MaxPid
  /\ state[s] = "UNUSED"
  /\ plock[s] = None
  /\ pid' = [pid EXCEPT ![s] = nextpid]
  /\ nextpid' = nextpid + 1
  /\ state' = [state EXCEPT ![s] = "USED"]
  /\ np' = [np EXCEPT ![p] = s]
  /\ Returns(p, nextpid)
  /\ pc' = [pc EXCEPT ![p] = "fork_parent", ![s] = "user"]
  /\ UNCHANGED <<parent, chan, killed, lockVars, idx, havekids, panicked, ppid>>

\* allocproc() or uvmcopy() runs out of memory: freeproc(), return -1
ForkFail(p, s) ==
  /\ Syscall(p, "fork")
  /\ nextpid <= MaxPid
  /\ state[s] = "UNUSED"
  /\ plock[s] = None
  /\ nextpid' = nextpid + 1
  /\ freeproc(s)
  /\ Returns(p, Failed)
  /\ Goto(p, "ret")
  /\ UNCHANGED <<lockVars, idx, havekids, np, panicked, ppid>>

\* allocproc() finds no free slot: return -1.  Bound: nor does it once all pids
\* up to MaxPid are used
ForkFull(p) ==
  /\ Syscall(p, "fork")
  /\ (\A s \in Slots : state[s] # "UNUSED") \/ nextpid > MaxPid
  /\ Returns(p, Failed)
  /\ Goto(p, "ret")
  /\ UNCHANGED <<procVars, nextpid, lockVars, idx, havekids, np, panicked, ppid>>

\* wrong variant: np->parent is not set
ForkOrphan(p) ==
  /\ At(p, "fork_parent")
  /\ waitlock = None
  /\ parent' = parent
  /\ ppid' = [ppid EXCEPT ![np[p]] = pid[p]]
  /\ Goto(p, "fork_run")
  /\ UNCHANGED <<state, pid, chan, killed, nextpid, lockVars, idx, havekids, np,
                 sh, panicked>>

ForkParent(p) ==
  /\ At(p, "fork_parent")
  /\ waitlock = None
  /\ parent' = [parent EXCEPT ![np[p]] = p]
  /\ ppid' = [ppid EXCEPT ![np[p]] = pid[p]]
  /\ Goto(p, "fork_run")
  /\ UNCHANGED <<state, pid, chan, killed, nextpid, lockVars, idx, havekids, np,
                 sh, panicked>>

ForkRun(p) ==
  /\ At(p, "fork_run")
  /\ plock[np[p]] = None
  /\ state' = [state EXCEPT ![np[p]] = "RUNNABLE"]
  /\ np' = [np EXCEPT ![p] = None]
  /\ Goto(p, "ret")
  /\ UNCHANGED <<pid, parent, chan, killed, nextpid, lockVars, idx, havekids,
                 sh, panicked, ppid>>

----------------------------------------------------------------------------
(* kexit(), after closing files *)

CallExit(p) ==
  /\ Syscall(p, "exit")
  /\ Goto(p, "exit")
  /\ UNCHANGED <<procVars, nextpid, lockVars, idx, havekids, np, sh, panicked, ppid>>

\* panic("init exiting")
ExitPanic(p) ==
  /\ At(p, "exit")
  /\ p = initproc
  /\ panicked' = TRUE
  /\ UNCHANGED <<procVars, nextpid, lockVars, localVars, sh, ppid>>

\* wrong variant: reparent() is left out
ExitNoReparent(p) ==
  /\ At(p, "exit")
  /\ p # initproc
  /\ waitlock = None
  /\ waitlock' = p
  /\ idx' = [idx EXCEPT ![p] = NPROC + 1]
  /\ Goto(p, "reparent")
  /\ UNCHANGED <<procVars, nextpid, plock, cpu, havekids, np, sh, panicked, ppid>>

ExitAcquire(p) ==
  /\ At(p, "exit")
  /\ p # initproc
  /\ waitlock = None
  /\ waitlock' = p
  /\ idx' = [idx EXCEPT ![p] = 1]
  /\ Goto(p, "reparent")
  /\ UNCHANGED <<procVars, nextpid, plock, cpu, havekids, np, sh, panicked, ppid>>

\* wakeup(q) for q's own slot, under q's p->lock, by process p # q
CanWake(p, q) == q # p => plock[q] = None
Wakes(p, q) == q # p /\ state[q] = "SLEEPING" /\ chan[q] = q

\* one iteration of reparent(): hand the child over and wakeup(initproc)
Reparent(p) ==
  /\ At(p, "reparent")
  /\ idx[p] \in Slots
  /\ IF parent[idx[p]] = p
     THEN /\ CanWake(p, initproc)
          /\ parent' = [parent EXCEPT ![idx[p]] = initproc]
          /\ ppid' = [ppid EXCEPT ![idx[p]] = pid[initproc]]
          /\ state' = IF Wakes(p, initproc)
                      THEN [state EXCEPT ![initproc] = "RUNNABLE"] ELSE state
     ELSE UNCHANGED <<parent, ppid, state>>
  /\ idx' = [idx EXCEPT ![p] = @ + 1]
  /\ UNCHANGED <<pid, chan, killed, nextpid, lockVars, pc, havekids, np, sh, panicked>>

\* wrong variant: wakeup(p->parent) is left out
WakeNobody(p) ==
  /\ At(p, "reparent")
  /\ idx[p] \notin Slots
  /\ LET q == parent[p] IN
       /\ CanWake(p, q)
       /\ state' = state
  /\ Goto(p, "zombie")
  /\ UNCHANGED <<pid, parent, chan, killed, nextpid, lockVars, idx, havekids, np,
                 sh, panicked, ppid>>

\* wakeup(p->parent)
WakeParent(p) ==
  /\ At(p, "reparent")
  /\ idx[p] \notin Slots
  /\ LET q == parent[p] IN
       /\ CanWake(p, q)
       /\ state' = IF Wakes(p, q) THEN [state EXCEPT ![q] = "RUNNABLE"] ELSE state
  /\ Goto(p, "zombie")
  /\ UNCHANGED <<pid, parent, chan, killed, nextpid, lockVars, idx, havekids, np,
                 sh, panicked, ppid>>

\* acquire(&p->lock); ZOMBIE; release(&wait_lock); sched() up to swtch
BecomeZombie(p) ==
  /\ At(p, "zombie")
  /\ plock[p] = None
  /\ plock' = [plock EXCEPT ![p] = p]
  /\ state' = [state EXCEPT ![p] = "ZOMBIE"]
  /\ waitlock' = None
  /\ cpu' = [cpu EXCEPT ![p] = "swtch"]
  /\ UNCHANGED <<pid, parent, chan, killed, nextpid, localVars, sh, panicked, ppid>>

----------------------------------------------------------------------------
(* kwait() *)

CallWait(p) ==
  /\ Syscall(p, "wait")
  /\ Goto(p, "wait")
  /\ UNCHANGED <<procVars, nextpid, lockVars, idx, havekids, np, sh, panicked, ppid>>

\* wrong variant: the scan starts one slot early
WaitFromZero(p) ==
  /\ At(p, "wait")
  /\ waitlock = None
  /\ waitlock' = p
  /\ idx' = [idx EXCEPT ![p] = 0]
  /\ havekids' = [havekids EXCEPT ![p] = FALSE]
  /\ Goto(p, "scan")
  /\ UNCHANGED <<procVars, nextpid, plock, cpu, np, sh, panicked, ppid>>

\* acquire(&wait_lock), on entry and when sleep() returns
WaitAcquire(p) ==
  /\ At(p, "wait")
  /\ waitlock = None
  /\ waitlock' = p
  /\ idx' = [idx EXCEPT ![p] = 1]
  /\ havekids' = [havekids EXCEPT ![p] = FALSE]
  /\ Goto(p, "scan")
  /\ UNCHANGED <<procVars, nextpid, plock, cpu, np, sh, panicked, ppid>>

\* wrong variant: havekids says whether the last slot holds a child
ScanNextForgets(p) ==
  /\ At(p, "scan")
  /\ idx[p] \in Slots
  /\ parent[idx[p]] = p => plock[idx[p]] = None /\ state[idx[p]] # "ZOMBIE"
  /\ havekids' = [havekids EXCEPT ![p] = parent[idx[p]] = p]
  /\ idx' = [idx EXCEPT ![p] = @ + 1]
  /\ UNCHANGED <<procVars, nextpid, lockVars, pc, np, sh, panicked, ppid>>

\* one iteration of the scan that does not end it
ScanNext(p) ==
  /\ At(p, "scan")
  /\ idx[p] \in Slots
  /\ parent[idx[p]] = p => plock[idx[p]] = None /\ state[idx[p]] # "ZOMBIE"
  /\ havekids' = [havekids EXCEPT ![p] = @ \/ parent[idx[p]] = p]
  /\ idx' = [idx EXCEPT ![p] = @ + 1]
  /\ UNCHANGED <<procVars, nextpid, lockVars, pc, np, sh, panicked, ppid>>

\* wrong variant: the child's p->lock is not taken
FoundZombieUnlocked(p) ==
  /\ At(p, "scan")
  /\ idx[p] \in Slots
  /\ parent[idx[p]] = p
  /\ state[idx[p]] = "ZOMBIE"

FoundZombie(p) ==
  /\ At(p, "scan")
  /\ idx[p] \in Slots
  /\ parent[idx[p]] = p
  /\ plock[idx[p]] = None
  /\ state[idx[p]] = "ZOMBIE"

\* freeproc(pp) and return its pid
Reap(p) ==
  /\ FoundZombie(p)
  /\ freeproc(idx[p])
  /\ Returns(p, IF pid[idx[p]] = sh THEN None ELSE sh)
  /\ waitlock' = None
  /\ Goto(p, "ret")
  /\ UNCHANGED <<nextpid, plock, cpu, idx, havekids, np, panicked, ppid>>

\* copyout() of the status fails: return -1, the child stays a zombie;
\* init passes a null address and never gets here
ReapFail(p) ==
  /\ FoundZombie(p)
  /\ p # initproc
  /\ waitlock' = None
  /\ Goto(p, "ret")
  /\ UNCHANGED <<procVars, nextpid, plock, cpu, idx, havekids, np, sh, panicked, ppid>>

\* wrong variant: wait_lock is released before sleep()
WaitCheckReleases(p) ==
  /\ At(p, "scan")
  /\ idx[p] \notin Slots
  /\ havekids[p] => plock[p] = None
  /\ IF ~havekids[p] \/ killed[p]
     THEN waitlock' = None /\ Goto(p, "ret") /\ Returns(p, Failed)
     ELSE waitlock' = None /\ Goto(p, "sleep") /\ UNCHANGED sh
  /\ UNCHANGED <<procVars, nextpid, plock, cpu, idx, havekids, np, panicked, ppid>>

\* if(!havekids || killed(p)), with p->lock held inside killed() only
WaitCheck(p) ==
  /\ At(p, "scan")
  /\ idx[p] \notin Slots
  /\ havekids[p] => plock[p] = None
  /\ IF ~havekids[p] \/ killed[p]
     THEN waitlock' = None /\ Goto(p, "ret") /\ Returns(p, Failed)
     ELSE UNCHANGED waitlock /\ Goto(p, "sleep") /\ UNCHANGED sh
  /\ UNCHANGED <<procVars, nextpid, plock, cpu, idx, havekids, np, panicked, ppid>>

\* sleep(p, &wait_lock) up to swtch
Sleep(p) ==
  /\ At(p, "sleep")
  /\ plock[p] = None
  /\ plock' = [plock EXCEPT ![p] = p]
  /\ waitlock' = None
  /\ chan' = [chan EXCEPT ![p] = p]
  /\ state' = [state EXCEPT ![p] = "SLEEPING"]
  /\ cpu' = [cpu EXCEPT ![p] = "swtch"]
  /\ Goto(p, "slept")
  /\ UNCHANGED <<pid, parent, killed, nextpid, idx, havekids, np, sh, panicked, ppid>>

----------------------------------------------------------------------------
(* kkill(), and the test of p->killed on the way back to user space *)

\* kill(k) by process p finds slot s: it looks at p->pid only, so k = 0 finds
\* a free slot
Kill(p, k, s) ==
  /\ Syscall(p, "kill")
  /\ pid[s] = k
  /\ plock[s] = None
  /\ killed' = [killed EXCEPT ![s] = TRUE]
  /\ state' = IF state[s] = "SLEEPING" THEN [state EXCEPT ![s] = "RUNNABLE"] ELSE state
  /\ Goto(p, "ret")
  /\ UNCHANGED <<pid, parent, chan, nextpid, lockVars, idx, havekids, np, sh, panicked,
                 ppid>>

\* usertrap(): a system call of a killed process is not made
SyscallKilled(p) ==
  /\ At(p, "user")
  /\ plock[p] = None
  /\ killed[p]
  /\ Goto(p, "exit")
  /\ UNCHANGED <<procVars, nextpid, lockVars, idx, havekids, np, sh, panicked, ppid>>

\* an interrupt takes a process from user space into usertrap()
Trap(p) ==
  /\ At(p, "user")
  /\ Goto(p, "ret")
  /\ UNCHANGED <<procVars, nextpid, lockVars, idx, havekids, np, sh, panicked, ppid>>

\* usertrap(): if(killed(p)) kexit(-1), else back to user space
Return(p) ==
  /\ At(p, "ret")
  /\ plock[p] = None
  /\ Goto(p, IF killed[p] THEN "exit" ELSE "user")
  /\ UNCHANGED <<procVars, nextpid, lockVars, idx, havekids, np, sh, panicked, ppid>>

----------------------------------------------------------------------------
(* Scheduling *)

\* yield() from a timer interrupt, up to swtch.  At the other labels the
\* process is inside acquire(), which turns interrupts off before it spins; a
\* process preempted just before acquire() differs from one that spins only in
\* leaving its CPU, which is why the safety runs have a CPU for every slot.
Yield(p) ==
  /\ At(p, "ret")
  /\ plock[p] = None
  /\ plock' = [plock EXCEPT ![p] = p]
  /\ state' = [state EXCEPT ![p] = "RUNNABLE"]
  /\ cpu' = [cpu EXCEPT ![p] = "swtch"]
  /\ UNCHANGED <<pid, parent, chan, killed, nextpid, waitlock, localVars, sh, panicked,
                 ppid>>

\* scheduler() after swtch returns to it: c->proc = 0, release(&p->lock)
SchedulerRelease(p) ==
  /\ cpu[p] = "swtch"
  /\ cpu' = [cpu EXCEPT ![p] = "off"]
  /\ plock' = [plock EXCEPT ![p] = None]
  /\ UNCHANGED <<procVars, nextpid, waitlock, localVars, sh, panicked, ppid>>

\* scheduler() finds p RUNNABLE and switches to it, holding p->lock
Dispatch(p) ==
  /\ plock[p] = None
  /\ state[p] = "RUNNABLE"
  /\ Cardinality({q \in Slots : cpu[q] # "off"}) < NCPU
  /\ plock' = [plock EXCEPT ![p] = p]
  /\ state' = [state EXCEPT ![p] = "RUNNING"]
  /\ cpu' = [cpu EXCEPT ![p] = "back"]
  /\ UNCHANGED <<pid, parent, chan, killed, nextpid, waitlock, localVars, sh, panicked,
                 ppid>>

\* back in sleep(): p->chan = 0; in sleep(), yield() and forkret():
\* release(&p->lock)
Resume(p) ==
  /\ cpu[p] = "back"
  /\ cpu' = [cpu EXCEPT ![p] = "on"]
  /\ plock' = [plock EXCEPT ![p] = None]
  /\ chan' = [chan EXCEPT ![p] = IF pc[p] = "slept" THEN None ELSE @]
  /\ Goto(p, IF pc[p] = "slept" THEN "wait" ELSE pc[p])
  /\ UNCHANGED <<state, pid, parent, killed, nextpid, waitlock, idx, havekids, np,
                 sh, panicked, ppid>>

----------------------------------------------------------------------------

\* system calls a user program chooses to make
UserStep(p) ==
  \/ CallExit(p) \/ CallWait(p) \/ ForkFull(p) \/ SyscallKilled(p)
  \/ \E s \in Slots : ForkAlloc(p, s) \/ ForkFail(p, s) \/ \E k \in Victims : Kill(p, k, s)

\* what the kernel does next on behalf of p, on its CPU
KernelStep(p) ==
  \/ ForkParent(p) \/ ForkRun(p)
  \/ ExitPanic(p) \/ ExitAcquire(p) \/ Reparent(p) \/ WakeParent(p) \/ BecomeZombie(p)
  \/ WaitAcquire(p) \/ ScanNext(p) \/ Reap(p) \/ ReapFail(p) \/ WaitCheck(p) \/ Sleep(p)
  \/ Return(p)

SwitchStep(p) == SchedulerRelease(p) \/ Resume(p)

\* panic() never returns
Halted == panicked /\ UNCHANGED vars

Next ==
  \/ /\ ~panicked
     /\ \E p \in Slots : \/ UserStep(p) \/ KernelStep(p) \/ SwitchStep(p)
                         \/ Trap(p) \/ Yield(p) \/ Dispatch(p)
  \/ Halted

Spec == Init /\ [][Next]_vars

\* The kernel runs on, the timer keeps interrupting, spinning CPUs get a lock
\* that is free again and again, scheduler() is round robin, and init goes on
\* with its program.  Nothing is assumed of the other programs.
Fairness ==
  /\ \A p \in Slots : /\ SF_vars(~panicked /\ KernelStep(p))
                       /\ WF_vars(~panicked /\ SwitchStep(p))
                       /\ SF_vars(~panicked /\ Dispatch(p))
                       /\ WF_vars(~panicked /\ Trap(p))
                       /\ WF_vars(~panicked /\ Yield(p))
  /\ SF_vars(~panicked /\ UserStep(initproc))

FairSpec == Spec /\ Fairness

----------------------------------------------------------------------------
(* Properties *)

States == {"UNUSED", "USED", "SLEEPING", "RUNNABLE", "RUNNING", "ZOMBIE"}
Labels == {"user", "ret", "fork_parent", "fork_run", "exit", "reparent", "zombie",
           "wait", "scan", "sleep", "slept"}

\* Types of struct proc's fields, the locks and the kernel's locals.
TypeOK ==
  /\ state \in [Slots -> States]
  /\ pid \in [Slots -> 0..MaxPid]
  /\ parent \in [Slots -> Slots \cup {None}]
  /\ chan \in [Slots -> Slots \cup {None}]
  /\ killed \in [Slots -> BOOLEAN]
  /\ nextpid \in 2..(MaxPid + 1)
  /\ plock \in [Slots -> Slots \cup {None}]
  /\ waitlock \in Slots \cup {None}
  /\ cpu \in [Slots -> {"on", "swtch", "off", "back"}]
  /\ pc \in [Slots -> Labels]
  /\ idx \in [Slots -> 1..(NPROC + 1)]
  /\ havekids \in [Slots -> BOOLEAN]
  /\ np \in [Slots -> Slots \cup {None}]
  /\ sh \in Failed..MaxPid
  /\ panicked \in BOOLEAN
  /\ ppid \in [Slots -> 0..MaxPid]

Live(s) == state[s] # "UNUSED"

\* p->parent is a slot pointer and slots are reused: it still points to the
\* process it was set to (the one that forked, or init), which has not exited.
ParentIsReal ==
  \A s \in Slots : Live(s) /\ parent[s] # None =>
    /\ pid[parent[s]] = ppid[s]
    /\ state[parent[s]] \notin {"UNUSED", "ZOMBIE"}

\* kwait() frees a child's kernel memory only once the child's CPU has left
\* the child's kernel stack ("make sure the child isn't still in exit() or
\* swtch()"), and scheduler() never runs one process on two CPUs.
StackNotInUse ==
  \A s \in Slots :
    /\ state[s] \in {"UNUSED", "USED"} => cpu[s] = "off"
    /\ state[s] = "RUNNABLE" /\ plock[s] = None => cpu[s] = "off"

\* No exit is missed: outside the critical sections of wait_lock, the parent
\* of a zombie is not asleep in wait().
NoMissedExit ==
  waitlock = None =>
    \A s \in Slots : state[s] = "ZOMBIE" => state[parent[s]] # "SLEEPING"

\* A process with no parent is init, or a child whose kfork() is not done.
OnlyInitIsRoot ==
  \A s \in Slots : Live(s) /\ parent[s] = None =>
    s = initproc \/ \E p \in Slots : pc[p] = "fork_parent" /\ np[p] = s

\* user/init.c exits, and the kernel panics, when wait() returns an error.  Unless
\* init is killed that never happens for want of children: from the fork() of a
\* shell until that shell is reaped, kwait()'s scan finds it, whatever orphans
\* come and go meanwhile.
InitHasChildren ==
  At(initproc, "scan") /\ idx[initproc] \notin Slots => havekids[initproc]

\* init reaps every zombie it is the parent of, its shells and the orphans that
\* reparent() hands to it, unless init itself exits and the kernel panics: when
\* its fork() or its wait() fails (user/init.c) or somebody kills it.
ZombiesReaped ==
  \A s \in Slots : (state[s] = "ZOMBIE" /\ parent[s] = initproc)
                     ~> (state[s] # "ZOMBIE" \/ panicked)

\* "Wake process from sleep()" (kkill()): a killed process is not asleep.
KilledNotAsleep ==
  \A s \in Slots : killed[s] => state[s] # "SLEEPING"

=============================================================================
