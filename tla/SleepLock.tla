------------------------------ MODULE SleepLock ------------------------------
(****************************************************************************)
(* Sleep locks (kernel/sleeplock.c) on top of sleep(), wakeup(), sched(),   *)
(* yield() and scheduler() (kernel/proc.c).  Every spin lock is explicit:   *)
(* one step is what the code does between taking a spin lock and the next   *)
(* point where another CPU could see the difference.                        *)
(*                                                                          *)
(* A process is on a CPU ("on"), between sched()'s swtch and the            *)
(* scheduler's release of its p->lock ("swtch"), on no CPU ("off"), or just *)
(* dispatched and still holding p->lock for the scheduler ("back").         *)
(****************************************************************************)
EXTENDS Integers, FiniteSets

CONSTANTS N,     \* number of slots of proc[]; slots are scanned in order 1..N
          NCPU   \* number of CPUs running scheduler()

ASSUME SlotsAssumption == N \in Nat \ {0}
ASSUME CpusAssumption == NCPU \in Nat \ {0}

Procs == 1..N
NoProc == 0

VARIABLES state,    \* p->state
          chan,     \* TRUE when p->chan is the sleep lock, FALSE when it is 0
          plock,    \* holder of p->lock
          cpu,      \* where the process is executing, see above
          pc,       \* next step of the process
          idx,      \* next slot wakeup() looks at
          lk,       \* holder of the spin lock lk->lk
          locked    \* lk->locked and lk->pid: the owner, or NoProc

vars == <<state, chan, plock, cpu, pc, idx, lk, locked>>
sleeplockVars == <<lk, locked>>

Init ==
  /\ state = [p \in Procs |-> "RUNNABLE"]
  /\ chan = [p \in Procs |-> FALSE]
  /\ plock = [p \in Procs |-> NoProc]
  /\ cpu = [p \in Procs |-> "off"]
  /\ pc = [p \in Procs |-> "user"]
  /\ idx = [p \in Procs |-> 1]
  /\ lk = NoProc
  /\ locked = NoProc

----------------------------------------------------------------------------
(* acquiresleep() *)

At(p, label) == cpu[p] = "on" /\ pc[p] = label

Goto(p, label) == pc' = [pc EXCEPT ![p] = label]

CallAcquire(p) ==
  /\ At(p, "user")
  /\ Goto(p, "acquire")
  /\ UNCHANGED <<state, chan, plock, cpu, idx, lk, locked>>

\* acquire(&lk->lk), on entry and on the way out of sleep()
AcquireSpin(p) ==
  /\ At(p, "acquire")
  /\ lk = NoProc
  /\ lk' = p
  /\ Goto(p, "test")
  /\ UNCHANGED <<state, chan, plock, cpu, idx, locked>>

\* wrong variant: lk->locked is not tested again
TakeLockUntested(p) ==
  /\ At(p, "test")
  /\ locked' = p
  /\ lk' = NoProc
  /\ Goto(p, "crit")
  /\ UNCHANGED <<state, chan, plock, cpu, idx>>

\* while(lk->locked) falls through: take the lock, release(&lk->lk)
TakeLock(p) ==
  /\ At(p, "test")
  /\ locked = NoProc
  /\ locked' = p
  /\ lk' = NoProc
  /\ Goto(p, "crit")
  /\ UNCHANGED <<state, chan, plock, cpu, idx>>

\* while(lk->locked) sleep(lk, &lk->lk): sleep() first takes p->lock ...
SleepAcquire(p) ==
  /\ At(p, "test")
  /\ locked # NoProc
  /\ plock[p] = NoProc
  /\ plock' = [plock EXCEPT ![p] = p]
  /\ Goto(p, "sleep")
  /\ UNCHANGED <<state, chan, cpu, idx, lk, locked>>

\* wrong variant: sched() with lk->lk still held
SleepKeepsLock(p) ==
  /\ At(p, "sleep")
  /\ lk' = lk
  /\ Goto(p, "doze")
  /\ UNCHANGED <<state, chan, plock, cpu, idx, locked>>

\* ... and only then releases the condition lock
SleepRelease(p) ==
  /\ At(p, "sleep")
  /\ lk' = NoProc
  /\ Goto(p, "doze")
  /\ UNCHANGED <<state, chan, plock, cpu, idx, locked>>

\* p->chan = chan; p->state = SLEEPING; sched() up to swtch
SleepSwitch(p) ==
  /\ At(p, "doze")
  /\ chan' = [chan EXCEPT ![p] = TRUE]
  /\ state' = [state EXCEPT ![p] = "SLEEPING"]
  /\ cpu' = [cpu EXCEPT ![p] = "swtch"]
  /\ Goto(p, "slept")
  /\ UNCHANGED <<plock, idx, lk, locked>>

----------------------------------------------------------------------------
(* releasesleep() *)

ReleaseAcquire(p) ==
  /\ At(p, "crit")
  /\ lk = NoProc
  /\ lk' = p
  /\ Goto(p, "unlock")
  /\ UNCHANGED <<state, chan, plock, cpu, idx, locked>>

\* wrong variant: the loop of wakeup() starts one slot early
UnlockFromZero(p) ==
  /\ At(p, "unlock")
  /\ locked' = NoProc
  /\ idx' = [idx EXCEPT ![p] = 0]
  /\ Goto(p, "wakeup")
  /\ UNCHANGED <<state, chan, plock, cpu, lk>>

\* wrong variant: wakeup() is left out
UnlockNoWakeup(p) ==
  /\ At(p, "unlock")
  /\ locked' = NoProc
  /\ idx' = [idx EXCEPT ![p] = N + 1]
  /\ Goto(p, "wakeup")
  /\ UNCHANGED <<state, chan, plock, cpu, lk>>

Unlock(p) ==
  /\ At(p, "unlock")
  /\ locked' = NoProc
  /\ idx' = [idx EXCEPT ![p] = 1]
  /\ Goto(p, "wakeup")
  /\ UNCHANGED <<state, chan, plock, cpu, lk>>

\* wrong variant: p->state is read without p->lock
WakeupSlotUnlocked(p) ==
  /\ At(p, "wakeup")
  /\ idx[p] \in Procs
  /\ LET q == idx[p] IN
       /\ state' = IF q # p /\ state[q] = "SLEEPING" /\ chan[q]
                   THEN [state EXCEPT ![q] = "RUNNABLE"] ELSE state
  /\ idx' = [idx EXCEPT ![p] = @ + 1]
  /\ UNCHANGED <<chan, plock, cpu, pc, lk, locked>>

\* one iteration of wakeup(lk): slot q, under q's p->lock, myproc() skipped
WakeupSlot(p) ==
  /\ At(p, "wakeup")
  /\ idx[p] \in Procs
  /\ LET q == idx[p] IN
       /\ q # p => plock[q] = NoProc
       /\ state' = IF q # p /\ state[q] = "SLEEPING" /\ chan[q]
                   THEN [state EXCEPT ![q] = "RUNNABLE"] ELSE state
  /\ idx' = [idx EXCEPT ![p] = @ + 1]
  /\ UNCHANGED <<chan, plock, cpu, pc, lk, locked>>

\* wrong variant: release(&lk->lk) is left out
ReleaseDoneKeepsLock(p) ==
  /\ At(p, "wakeup")
  /\ idx[p] \notin Procs
  /\ lk' = lk
  /\ Goto(p, "user")
  /\ UNCHANGED <<state, chan, plock, cpu, idx, locked>>

\* the loop is over: release(&lk->lk)
ReleaseDone(p) ==
  /\ At(p, "wakeup")
  /\ idx[p] \notin Procs
  /\ lk' = NoProc
  /\ Goto(p, "user")
  /\ UNCHANGED <<state, chan, plock, cpu, idx, locked>>

----------------------------------------------------------------------------
(* Scheduling *)

\* The timer interrupt makes a process that holds no spin lock yield():
\* acquire(&p->lock), RUNNABLE, sched() up to swtch.
Interruptible(p) == cpu[p] = "on" /\ pc[p] \in {"user", "acquire", "crit"}

\* wrong variant: p->lock is not taken
YieldUnlocked(p) ==
  /\ Interruptible(p)
  /\ plock[p] = NoProc
  /\ state' = [state EXCEPT ![p] = "RUNNABLE"]
  /\ cpu' = [cpu EXCEPT ![p] = "swtch"]
  /\ UNCHANGED <<plock, chan, pc, idx, lk, locked>>

Yield(p) ==
  /\ Interruptible(p)
  /\ plock[p] = NoProc
  /\ plock' = [plock EXCEPT ![p] = p]
  /\ state' = [state EXCEPT ![p] = "RUNNABLE"]
  /\ cpu' = [cpu EXCEPT ![p] = "swtch"]
  /\ UNCHANGED <<chan, pc, idx, lk, locked>>

\* scheduler() after swtch returns to it: c->proc = 0, release(&p->lock)
SchedulerRelease(p) ==
  /\ cpu[p] = "swtch"
  /\ cpu' = [cpu EXCEPT ![p] = "off"]
  /\ plock' = [plock EXCEPT ![p] = NoProc]
  /\ UNCHANGED <<state, chan, pc, idx, lk, locked>>

\* scheduler() picks a RUNNABLE process under its p->lock and switches to it;
\* a CPU is free when fewer than NCPU processes occupy one.
Dispatch(p) ==
  /\ plock[p] = NoProc
  /\ state[p] = "RUNNABLE"
  /\ Cardinality({q \in Procs : cpu[q] # "off"}) < NCPU
  /\ plock' = [plock EXCEPT ![p] = p]
  /\ state' = [state EXCEPT ![p] = "RUNNING"]
  /\ cpu' = [cpu EXCEPT ![p] = "back"]
  /\ UNCHANGED <<chan, pc, idx, lk, locked>>

\* the process returns from sched(): in sleep() it clears p->chan and will
\* reacquire lk->lk, in yield() it goes on where it was; both release p->lock
Resume(p) ==
  /\ cpu[p] = "back"
  /\ cpu' = [cpu EXCEPT ![p] = "on"]
  /\ plock' = [plock EXCEPT ![p] = NoProc]
  /\ chan' = [chan EXCEPT ![p] = IF pc[p] = "slept" THEN FALSE ELSE @]
  /\ pc' = [pc EXCEPT ![p] = IF @ = "slept" THEN "acquire" ELSE @]
  /\ UNCHANGED <<state, idx, lk, locked>>

\* kkill() of process p by somebody: a sleeper is made RUNNABLE and will find
\* the lock still held (acquiresleep() does not look at p->killed)
Kill(p) ==
  /\ plock[p] = NoProc
  /\ state[p] = "SLEEPING"
  /\ state' = [state EXCEPT ![p] = "RUNNABLE"]
  /\ UNCHANGED <<chan, plock, cpu, pc, idx, lk, locked>>

\* what process p, on its CPU inside acquiresleep() or releasesleep(), does next
KernelStep(p) ==
  \/ AcquireSpin(p) \/ TakeLock(p) \/ SleepAcquire(p) \/ SleepRelease(p)
  \/ SleepSwitch(p) \/ ReleaseAcquire(p) \/ Unlock(p) \/ WakeupSlot(p)
  \/ ReleaseDone(p)

SwitchStep(p) == SchedulerRelease(p) \/ Resume(p)

Next ==
  \E p \in Procs : \/ CallAcquire(p) \/ KernelStep(p) \/ SwitchStep(p)
                   \/ Yield(p) \/ Dispatch(p) \/ Kill(p)

Spec == Init /\ [][Next]_vars

\* CPUs keep executing kernel code, and the timer keeps interrupting
\* processes.  Strong fairness where a step can be disabled again and again:
\* a CPU that spins on a lock gets it if the lock is free again and again,
\* and scheduler() scans proc[] round robin, so it reaches a RUNNABLE slot
\* whatever else it dispatches.
Fairness ==
  \A p \in Procs : /\ SF_vars(KernelStep(p))
                   /\ WF_vars(SwitchStep(p))
                   /\ SF_vars(Dispatch(p))
                   /\ WF_vars(Yield(p))

FairSpec == Spec /\ Fairness

----------------------------------------------------------------------------
(* Properties *)

Labels == {"user", "acquire", "test", "sleep", "doze", "slept", "crit",
           "unlock", "wakeup"}

\* Types of the variables that stand for struct proc and struct sleeplock.
TypeOK ==
  /\ state \in [Procs -> {"RUNNABLE", "RUNNING", "SLEEPING"}]
  /\ chan \in [Procs -> BOOLEAN]
  /\ plock \in [Procs -> Procs \cup {NoProc}]
  /\ cpu \in [Procs -> {"on", "swtch", "off", "back"}]
  /\ pc \in [Procs -> Labels]
  /\ idx \in [Procs -> 1..(N + 1)]
  /\ lk \in Procs \cup {NoProc}
  /\ locked \in Procs \cup {NoProc}

\* acquiresleep() returns to at most one process at a time, whatever the
\* preemptions, kills and spurious wakeups between its test and its return.
MutualExclusion ==
  \A p, q \in Procs : pc[p] \in {"crit", "unlock"} /\ pc[q] \in {"crit", "unlock"}
                     => p = q

\* "Once we hold p->lock, we can be guaranteed that we won't miss any wakeup"
\* (sleep()): a process sleeps on a free lock only while the releaser's
\* wakeup() loop has yet to reach its slot.
NoLostWakeup ==
  \A p \in Procs :
    state[p] = "SLEEPING" /\ locked = NoProc
      => \E q \in Procs : pc[q] = "wakeup" /\ idx[q] <= p

\* scheduler() looks only at p->state and p->lock, yet it never switches to a
\* process whose kernel stack is still in use on another CPU: sched() keeps
\* p->lock until the old CPU has left the stack.
NeverOnTwoCpus ==
  \A p \in Procs : state[p] = "RUNNABLE" /\ plock[p] = NoProc => cpu[p] = "off"

\* Three of sched()'s four panics never fire: at swtch the process holds its own
\* p->lock and no other spin lock, and it is no longer RUNNING.  The fourth,
\* "sched interruptible", is about the CPU's interrupt flag, which has no model.
SchedContract ==
  \A p \in Procs : cpu[p] = "swtch" =>
    /\ plock[p] = p
    /\ \A q \in Procs : plock[q] = p => q = p
    /\ lk # p
    /\ state[p] # "RUNNING"

\* A sleeper on a lock that has been released is made RUNNABLE.
SleepersWake ==
  \A p \in Procs : (state[p] = "SLEEPING" /\ locked = NoProc)
                     ~> state[p] # "SLEEPING"

\* A free lock somebody wants is eventually taken: no state in which the lock
\* is free and every process that wants it stays asleep or off the CPU.
LockProgress ==
  (locked = NoProc /\ \E p \in Procs : pc[p] = "acquire") ~> locked # NoProc

=============================================================================
