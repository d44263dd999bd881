--------------------------- MODULE SleepLockProofs ---------------------------
(****************************************************************************)
(* For every number of processes and CPUs: sleep locks exclude each other,  *)
(* sleep() and wakeup() lose no wakeup, and no process runs on two CPUs.    *)
(*                                                                          *)
(* The inductive invariant ties each process's program counter to the locks *)
(* it holds.  Its last part is the argument of the comment in sleep(): a    *)
(* process past its test of lk->locked holds either lk->lk or its own       *)
(* p->lock until it is SLEEPING, so the releaser's wakeup() loop, which     *)
(* needs p->lock, cannot pass its slot in between.                          *)
(****************************************************************************)
EXTENDS SleepLock, TLAPS

\* which of its own p->lock and its state a process has, by where it executes
CpuInv(p) ==
  /\ cpu[p] = "on" => /\ state[p] = "RUNNING"
                      /\ plock[p] = IF pc[p] \in {"sleep", "doze"} THEN p ELSE NoProc
                      /\ pc[p] # "slept"
  /\ cpu[p] = "back" => state[p] = "RUNNING" /\ plock[p] = p
  /\ cpu[p] = "swtch" => state[p] # "RUNNING" /\ plock[p] = p
  /\ cpu[p] = "off" => state[p] # "RUNNING" /\ plock[p] = NoProc
  /\ cpu[p] # "on" => pc[p] \in {"user", "acquire", "crit", "slept"}

LockInv(p) ==
  /\ lk = p <=> pc[p] \in {"test", "sleep", "unlock", "wakeup"}
  /\ locked = p <=> pc[p] \in {"crit", "unlock"}
  /\ chan[p] <=> pc[p] = "slept"
  /\ state[p] = "SLEEPING" => pc[p] = "slept"

\* p is SLEEPING, or committed to it with p->lock held
Dozing(p) == pc[p] = "doze" \/ (pc[p] = "slept" /\ state[p] = "SLEEPING")

WakeupInv(p) ==
  /\ pc[p] = "sleep" => locked # NoProc
  /\ Dozing(p) /\ locked = NoProc
       => \E q \in Procs : pc[q] = "wakeup" /\ idx[q] <= p

\* The inductive invariant.
IInv ==
  /\ TypeOK
  /\ \A p \in Procs : CpuInv(p)
  /\ \A p \in Procs : LockInv(p)
  /\ \A p \in Procs : WakeupInv(p)

\* Init establishes the invariant: no process holds a lock or sleeps.
LEMMA InitIInv == Init => IInv
BY SlotsAssumption DEF Init, IInv, TypeOK, CpuInv, LockInv, WakeupInv, Dozing,
   Procs, NoProc, Labels

\* Every step of the kernel keeps the types of the variables.
LEMMA NextTypeOK == TypeOK /\ [Next]_vars => TypeOK'
<1>. SUFFICES ASSUME TypeOK, [Next]_vars PROVE TypeOK'
  OBVIOUS
<1>. USE SlotsAssumption DEF TypeOK, Procs, NoProc, Labels, At, Goto
<1>1. ASSUME NEW p \in Procs, CallAcquire(p) PROVE TypeOK'
  BY <1>1 DEF CallAcquire
<1>2. ASSUME NEW p \in Procs, AcquireSpin(p) PROVE TypeOK'
  BY <1>2 DEF AcquireSpin
<1>3. ASSUME NEW p \in Procs, TakeLock(p) PROVE TypeOK'
  BY <1>3 DEF TakeLock
<1>4. ASSUME NEW p \in Procs, SleepAcquire(p) PROVE TypeOK'
  BY <1>4 DEF SleepAcquire
<1>5. ASSUME NEW p \in Procs, SleepRelease(p) PROVE TypeOK'
  BY <1>5 DEF SleepRelease
<1>6. ASSUME NEW p \in Procs, SleepSwitch(p) PROVE TypeOK'
  BY <1>6 DEF SleepSwitch
<1>7. ASSUME NEW p \in Procs, ReleaseAcquire(p) PROVE TypeOK'
  BY <1>7 DEF ReleaseAcquire
<1>8. ASSUME NEW p \in Procs, Unlock(p) PROVE TypeOK'
  BY <1>8 DEF Unlock
<1>9. ASSUME NEW p \in Procs, WakeupSlot(p) PROVE TypeOK'
  BY <1>9 DEF WakeupSlot
<1>10. ASSUME NEW p \in Procs, ReleaseDone(p) PROVE TypeOK'
  BY <1>10 DEF ReleaseDone
<1>11. ASSUME NEW p \in Procs, SchedulerRelease(p) PROVE TypeOK'
  BY <1>11 DEF SchedulerRelease
<1>12. ASSUME NEW p \in Procs, Resume(p) PROVE TypeOK'
  BY <1>12 DEF Resume
<1>13. ASSUME NEW p \in Procs, Yield(p) PROVE TypeOK'
  BY <1>13 DEF Yield
<1>14. ASSUME NEW p \in Procs, Dispatch(p) PROVE TypeOK'
  BY <1>14 DEF Dispatch
<1>15. ASSUME NEW p \in Procs, Kill(p) PROVE TypeOK'
  BY <1>15 DEF Kill
<1>16. CASE UNCHANGED vars
  BY <1>16 DEF vars
<1>. QED
  BY <1>1, <1>2, <1>3, <1>4, <1>5, <1>6, <1>7, <1>8, <1>9, <1>10, <1>11, <1>12,
     <1>13, <1>14, <1>15, <1>16
  DEF Next, KernelStep, SwitchStep

\* Every step keeps the invariant.
LEMMA NextIInv == IInv /\ [Next]_vars => IInv'
<1>. SUFFICES ASSUME IInv, [Next]_vars PROVE IInv'
  OBVIOUS
<1>0. TypeOK /\ TypeOK'
  BY NextTypeOK DEF IInv
<1>. USE SlotsAssumption, <1>0
     DEF TypeOK, IInv, CpuInv, LockInv, WakeupInv, Dozing, Procs, NoProc,
         Labels, At, Goto
<1>1. ASSUME NEW p \in Procs, CallAcquire(p) PROVE IInv'
  <2>1. ASSUME NEW q \in Procs PROVE CpuInv(q)'
    BY <1>1 DEF CallAcquire
  <2>2. ASSUME NEW q \in Procs PROVE LockInv(q)'
    BY <1>1 DEF CallAcquire
  <2>3. ASSUME NEW q \in Procs PROVE WakeupInv(q)'
    BY <1>1 DEF CallAcquire
  <2>. QED
    BY <2>1, <2>2, <2>3
<1>2. ASSUME NEW p \in Procs, AcquireSpin(p) PROVE IInv'
  <2>1. ASSUME NEW q \in Procs PROVE CpuInv(q)'
    BY <1>2 DEF AcquireSpin
  <2>2. ASSUME NEW q \in Procs PROVE LockInv(q)'
    BY <1>2 DEF AcquireSpin
  <2>3. ASSUME NEW q \in Procs PROVE WakeupInv(q)'
    BY <1>2 DEF AcquireSpin
  <2>. QED
    BY <2>1, <2>2, <2>3
<1>3. ASSUME NEW p \in Procs, TakeLock(p) PROVE IInv'
  <2>1. ASSUME NEW q \in Procs PROVE CpuInv(q)'
    BY <1>3 DEF TakeLock
  <2>2. ASSUME NEW q \in Procs PROVE LockInv(q)'
    BY <1>3 DEF TakeLock
  <2>3. ASSUME NEW q \in Procs PROVE WakeupInv(q)'
    BY <1>3 DEF TakeLock
  <2>. QED
    BY <2>1, <2>2, <2>3
<1>4. ASSUME NEW p \in Procs, SleepAcquire(p) PROVE IInv'
  <2>1. ASSUME NEW q \in Procs PROVE CpuInv(q)'
    BY <1>4 DEF SleepAcquire
  <2>2. ASSUME NEW q \in Procs PROVE LockInv(q)'
    BY <1>4 DEF SleepAcquire
  <2>3. ASSUME NEW q \in Procs PROVE WakeupInv(q)'
    BY <1>4 DEF SleepAcquire
  <2>. QED
    BY <2>1, <2>2, <2>3
<1>5. ASSUME NEW p \in Procs, SleepRelease(p) PROVE IInv'
  <2>1. ASSUME NEW q \in Procs PROVE CpuInv(q)'
    BY <1>5 DEF SleepRelease
  <2>2. ASSUME NEW q \in Procs PROVE LockInv(q)'
    <3>1. lk = p /\ pc' = [pc EXCEPT ![p] = "doze"] /\ lk' = NoProc
      BY <1>5 DEF SleepRelease
    <3>2. CASE q = p
      <4>1. pc[p] = "sleep" /\ pc'[p] = "doze" /\ p # NoProc
        BY <1>5, <3>1 DEF SleepRelease
      <4>2. locked # p /\ ~chan[p] /\ state[p] # "SLEEPING"
        BY <4>1
      <4>3. UNCHANGED <<locked, chan, state>>
        BY <1>5 DEF SleepRelease
      <4>. QED
        BY <3>1, <3>2, <4>1, <4>2, <4>3
    <3>3. CASE q # p
      <4>1. pc'[q] = pc[q] /\ lk # q /\ lk' # q
        BY <3>1, <3>3
      <4>. QED
        BY <1>5, <4>1 DEF SleepRelease
    <3>. QED
      BY <3>2, <3>3
  <2>3. ASSUME NEW q \in Procs PROVE WakeupInv(q)'
    BY <1>5 DEF SleepRelease
  <2>. QED
    BY <2>1, <2>2, <2>3
<1>6. ASSUME NEW p \in Procs, SleepSwitch(p) PROVE IInv'
  <2>1. ASSUME NEW q \in Procs PROVE CpuInv(q)'
    BY <1>6 DEF SleepSwitch
  <2>2. ASSUME NEW q \in Procs PROVE LockInv(q)'
    BY <1>6 DEF SleepSwitch
  <2>3. ASSUME NEW q \in Procs PROVE WakeupInv(q)'
    BY <1>6 DEF SleepSwitch
  <2>. QED
    BY <2>1, <2>2, <2>3
<1>7. ASSUME NEW p \in Procs, ReleaseAcquire(p) PROVE IInv'
  <2>1. ASSUME NEW q \in Procs PROVE CpuInv(q)'
    BY <1>7 DEF ReleaseAcquire
  <2>2. ASSUME NEW q \in Procs PROVE LockInv(q)'
    BY <1>7 DEF ReleaseAcquire
  <2>3. ASSUME NEW q \in Procs PROVE WakeupInv(q)'
    BY <1>7 DEF ReleaseAcquire
  <2>. QED
    BY <2>1, <2>2, <2>3
<1>8. ASSUME NEW p \in Procs, Unlock(p) PROVE IInv'
  <2>1. ASSUME NEW q \in Procs PROVE CpuInv(q)'
    BY <1>8 DEF Unlock
  <2>2. ASSUME NEW q \in Procs PROVE LockInv(q)'
    BY <1>8 DEF Unlock
  <2>3. ASSUME NEW q \in Procs PROVE WakeupInv(q)'
    BY <1>8 DEF Unlock
  <2>. QED
    BY <2>1, <2>2, <2>3
<1>9. ASSUME NEW p \in Procs, WakeupSlot(p) PROVE IInv'
  <2>1. ASSUME NEW q \in Procs PROVE CpuInv(q)'
    BY <1>9 DEF WakeupSlot
  <2>2. ASSUME NEW q \in Procs PROVE LockInv(q)'
    BY <1>9 DEF WakeupSlot
  <2>3. ASSUME NEW q \in Procs PROVE WakeupInv(q)'
    <3>1. /\ pc[p] = "wakeup" /\ idx[p] \in Procs
          /\ UNCHANGED <<chan, plock, cpu, pc, lk, locked>>
          /\ idx' = [idx EXCEPT ![p] = @ + 1]
      BY <1>9 DEF WakeupSlot
    <3>2. state'[q] = "SLEEPING" => state[q] = "SLEEPING"
      BY <1>9 DEF WakeupSlot
    <3>3. SUFFICES ASSUME Dozing(q)', locked' = NoProc
                   PROVE  \E r \in Procs : pc'[r] = "wakeup" /\ idx'[r] <= q
      BY <3>1
    <3>4. Dozing(q) /\ q # p
      BY <3>1, <3>2, <3>3
    <3>5. PICK r \in Procs : pc[r] = "wakeup" /\ idx[r] <= q
      BY <3>1, <3>3, <3>4
    <3>6. CASE r # p
      BY <3>1, <3>5, <3>6
    <3>7. CASE r = p /\ idx[p] # q
      BY <3>1, <3>5, <3>7
    <3>8. CASE idx[p] = q
      <4>1. plock[q] = NoProc
        BY <1>9, <3>4, <3>8 DEF WakeupSlot
      <4>2. pc[q] # "doze"
        <5>1. CpuInv(q) /\ q # NoProc
          BY DEF IInv
        <5>2. pc[q] = "doze" => cpu[q] = "on"
          BY <5>1 DEF CpuInv
        <5>. QED
          BY <4>1, <5>1, <5>2 DEF CpuInv
      <4>3. pc[q] = "slept" /\ state[q] = "SLEEPING"
        BY <3>4, <4>2 DEF Dozing
      <4>4. chan[q]
        BY <4>3 DEF IInv, LockInv
      <4>5. state'[q] = "RUNNABLE"
        BY <1>9, <3>4, <3>8, <4>3, <4>4 DEF WakeupSlot
      <4>. QED
        BY <3>1, <3>3, <4>3, <4>5
    <3>. QED
      BY <3>5, <3>6, <3>7, <3>8
  <2>. QED
    BY <2>1, <2>2, <2>3
<1>10. ASSUME NEW p \in Procs, ReleaseDone(p) PROVE IInv'
  <2>1. ASSUME NEW q \in Procs PROVE CpuInv(q)'
    BY <1>10 DEF ReleaseDone
  <2>2. ASSUME NEW q \in Procs PROVE LockInv(q)'
    BY <1>10 DEF ReleaseDone
  <2>3. ASSUME NEW q \in Procs PROVE WakeupInv(q)'
    BY <1>10 DEF ReleaseDone
  <2>. QED
    BY <2>1, <2>2, <2>3
<1>11. ASSUME NEW p \in Procs, SchedulerRelease(p) PROVE IInv'
  <2>1. ASSUME NEW q \in Procs PROVE CpuInv(q)'
    BY <1>11 DEF SchedulerRelease
  <2>2. ASSUME NEW q \in Procs PROVE LockInv(q)'
    BY <1>11 DEF SchedulerRelease
  <2>3. ASSUME NEW q \in Procs PROVE WakeupInv(q)'
    BY <1>11 DEF SchedulerRelease
  <2>. QED
    BY <2>1, <2>2, <2>3
<1>12. ASSUME NEW p \in Procs, Resume(p) PROVE IInv'
  <2>1. ASSUME NEW q \in Procs PROVE CpuInv(q)'
    BY <1>12 DEF Resume
  <2>2. ASSUME NEW q \in Procs PROVE LockInv(q)'
    BY <1>12 DEF Resume
  <2>3. ASSUME NEW q \in Procs PROVE WakeupInv(q)'
    BY <1>12 DEF Resume
  <2>. QED
    BY <2>1, <2>2, <2>3
<1>13. ASSUME NEW p \in Procs, Yield(p) PROVE IInv'
  <2>1. ASSUME NEW q \in Procs PROVE CpuInv(q)'
    BY <1>13 DEF Yield, Interruptible
  <2>2. ASSUME NEW q \in Procs PROVE LockInv(q)'
    BY <1>13 DEF Yield, Interruptible
  <2>3. ASSUME NEW q \in Procs PROVE WakeupInv(q)'
    BY <1>13 DEF Yield, Interruptible
  <2>. QED
    BY <2>1, <2>2, <2>3
<1>14. ASSUME NEW p \in Procs, Dispatch(p) PROVE IInv'
  <2>1. ASSUME NEW q \in Procs PROVE CpuInv(q)'
    BY <1>14 DEF Dispatch
  <2>2. ASSUME NEW q \in Procs PROVE LockInv(q)'
    BY <1>14 DEF Dispatch
  <2>3. ASSUME NEW q \in Procs PROVE WakeupInv(q)'
    BY <1>14 DEF Dispatch
  <2>. QED
    BY <2>1, <2>2, <2>3
<1>15. ASSUME NEW p \in Procs, Kill(p) PROVE IInv'
  <2>1. ASSUME NEW q \in Procs PROVE CpuInv(q)'
    BY <1>15 DEF Kill
  <2>2. ASSUME NEW q \in Procs PROVE LockInv(q)'
    BY <1>15 DEF Kill
  <2>3. ASSUME NEW q \in Procs PROVE WakeupInv(q)'
    BY <1>15 DEF Kill
  <2>. QED
    BY <2>1, <2>2, <2>3
<1>16. CASE UNCHANGED vars
  BY <1>16 DEF vars
<1>. QED
  BY <1>1, <1>2, <1>3, <1>4, <1>5, <1>6, <1>7, <1>8, <1>9, <1>10, <1>11, <1>12,
     <1>13, <1>14, <1>15, <1>16
  DEF Next, KernelStep, SwitchStep

\* The inductive invariant holds in every reachable state.
THEOREM Invariance == Spec => []IInv
BY InitIInv, NextIInv, PTL DEF Spec

\* Type correctness, for every N and NCPU.
THEOREM TypeCorrect == Spec => []TypeOK
<1>1. IInv => TypeOK
  BY DEF IInv
<1>. QED
  BY <1>1, Invariance, PTL

\* acquiresleep()/releasesleep() exclude each other, for every N and NCPU.
THEOREM Exclusion == Spec => []MutualExclusion
<1>1. IInv => MutualExclusion
  BY DEF IInv, LockInv, MutualExclusion, Procs
<1>. QED
  BY <1>1, Invariance, PTL

\* sleep()/wakeup() lose no wakeup, for every N and NCPU.
THEOREM WakeupNotLost == Spec => []NoLostWakeup
<1>1. IInv => NoLostWakeup
  BY DEF IInv, LockInv, WakeupInv, Dozing, NoLostWakeup
<1>. QED
  BY <1>1, Invariance, PTL

\* scheduler() never runs a process whose stack is in use, for every N, NCPU.
THEOREM OneCpuPerProcess == Spec => []NeverOnTwoCpus
<1>1. ASSUME IInv PROVE NeverOnTwoCpus
  <2>1. SUFFICES ASSUME NEW p \in Procs, state[p] = "RUNNABLE", plock[p] = NoProc
                 PROVE  cpu[p] = "off"
    BY DEF NeverOnTwoCpus
  <2>2. CpuInv(p) /\ cpu[p] \in {"on", "swtch", "off", "back"}
    BY <1>1 DEF IInv, TypeOK
  <2>3. p # NoProc
    BY SlotsAssumption DEF Procs, NoProc
  <2>. QED
    BY <2>1, <2>2, <2>3 DEF CpuInv
<1>. QED
  BY <1>1, Invariance, PTL

\* sched()'s panics about locks and about p->state are unreachable, for every N
\* and NCPU.
THEOREM SchedNeverPanics == Spec => []SchedContract
<1>1. ASSUME IInv PROVE SchedContract
  <2>1. \A q \in Procs : plock[q] \in {q, NoProc}
    BY <1>1 DEF IInv, TypeOK, CpuInv
  <2>2. \A p \in Procs : cpu[p] = "swtch" => plock[p] = p /\ state[p] # "RUNNING"
    BY <1>1 DEF IInv, CpuInv
  <2>3. \A p \in Procs : cpu[p] = "swtch" => lk # p
    BY <1>1 DEF IInv, CpuInv, LockInv
  <2>. QED
    BY <2>1, <2>2, <2>3 DEF SchedContract, Procs, NoProc
<1>. QED
  BY <1>1, Invariance, PTL

=============================================================================
