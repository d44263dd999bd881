# A TLA+ model of xv6-riscv-ujs

This directory specifies the concurrent and crash-prone parts of the kernel
(`src/kernel`) and the library simulation (`src/user/library.c`) in TLA+,
model-checks them with TLC on small instances, and proves some of their
properties with TLAPS for every size. `PROJECT.json` is the machine-readable
index: components, runs, mutants, the map from definitions to source lines,
findings, hazards and theorems.

## 1. Inventory

| Part | Source | State | Operations | What is hard |
|---|---|---|---|---|
| Sleep locks, sleep/wakeup, scheduler | `sleeplock.c`, `proc.c` | `lk->locked`, `p->state`, `p->chan`, `p->lock`, `c->proc` | acquiresleep, releasesleep, sleep, wakeup, sched, yield, scheduler | lost wakeups; a process on two CPUs |
| Log | `log.c` | header and blocks on disk, `log.lh`, `outstanding`, `committing` | begin_op, log_write, end_op, commit, recovery | crashes between and inside writes, group commit, space |
| Processes | `proc.c`, `trap.c`, `init.c` | `proc[]`, `wait_lock` | fork, exit, reparent, wait, kill | slot reuse, exit against wait, kill against sleep |
| Memory | `kalloc.c`, `vm.c`, `exec.c`, `sysproc.c` | free list, `ref_count[]`, page tables, `p->sz` | kalloc, kfree, uvmcopy, uvmcow, vmfault, sbrk, exec | reference counts under copy-on-write, out of memory half way |
| Shared memory | `shm.c` | `shm_table` | shm_open, shm_close, is_shared_page | lifetime of a page with mappings, openers and forks |
| Semaphores | `sem.c` | `sem_table` | sem_create, sem_free, sem_p, sem_v | slot looked up under one lock and used under another |
| Library simulation | `library.c`, `printfl.c` | seat table in shared memory, three semaphores | main, reader_process | deadlock, seat registry |
| Pipes | `pipe.c`, `file.c` | ring buffer, open ends | pipewrite, piperead, pipeclose | full and empty edges, wraparound, close, kill |
| Buffer cache | `bio.c` | LRU list, `refcnt`, `valid` | bget, bread, bwrite, brelse, bpin | one buffer per block, no buffer left |
| Disk driver | `virtio_disk.c` | descriptors, rings | virtio_disk_rw, virtio_disk_intr | descriptor exhaustion, completion against sleep |
| Inodes, blocks | `fs.c` | itable, inodes, bitmap | iget, ilock, iput, ireclaim, bmap, itrunc, balloc | last iput against lookup, orphans after a crash, double indirect blocks |
| Names, directories, symbolic links | `fs.c`, `sysfile.c` | directories, link counts | link, unlink, create, symlink, open | undo on failure, concurrent create and unlink |
| File table | `file.c`, `sysfile.c` | `ftable`, `p->ofile` | filealloc, filedup, fileclose, read, write | reference counts, shared offsets |
| RAM disk | `brd.c` | `rd_dev` | rd_read, rd_write, load, unload | a page pointer used after its lock |
| Console, UART | `console.c`, `uart.c` | input ring, `tx_busy` | consoleread, consoleintr, uartwrite, uartintr | interrupt against sleep |
| Timer, pause | `trap.c`, `sysproc.c` | `ticks` | clockintr, sys_pause | wakeups and kill |
| Boot, PLIC, printf, strings, syscall table, `ext.c`, mkfs, other user programs | | | | sequential or formatting |

The parts meet in three places. Everything that waits uses `sleep()` and
`wakeup()`. The file system's system calls run between `begin_op()` and
`end_op()` and reach the disk only through the log. Shared memory hands pages to
page tables whose life `fork`, `exec` and `exit` rule.

## 2. Modules

| Module | Models | A step is |
|---|---|---|
| `SleepLock` | sleep locks over sleep, wakeup, sched, yield, scheduler | what happens between two spin lock operations |
| `SleepLockProofs` | proofs about `SleepLock` | |
| `AtomicLog` | what a log promises: finished groups of system calls reach the disk all at once, or not at all | one write, one commit, one crash |
| `Log`, `MCLog` | `log.c`, with crashes and torn writes | a critical section of `log.lock`, or one disk write |
| `Proc` | the process table | a critical section, or one iteration of a scan |
| `Memory`, `MCMemory` | pages, page tables, shared memory | one page table entry, one critical section of `shm_table.lock` |
| `Sem`, `MCSem` | semaphores, with arbitrary callers in `MCSem` | a critical section; the load and the store of `value` apart |
| `Library` | the library simulation on `Sem` | a statement, or a step of the system call it makes |
| `ByteStream` | what a pipe promises: a bounded first-in first-out stream | one write, one read |
| `Pipe`, `MCPipe` | `pipe.c` | a critical section split at the tests of `killed()` |

Composition. `SleepLock` has every lock of `sleep()` and `wakeup()`, and shows
(and proves) that giving up the condition lock and going to sleep are as good as
one step. `Log`, `Sem` and `Pipe` rely on that: there, sleeping is atomic.
`Library` EXTENDS `Sem`, so that its processes run the very actions of `sem.c`.
`Log` instantiates `AtomicLog` and `Pipe` instantiates `ByteStream`, with the
refinement mapping beside the instance.

Conventions. `pc` says where a process is in the kernel; names of labels are
those of the code's functions or tests. Variables commented "history" exist for
the properties only and guard nothing, except where a bound says so.
Definitions commented "wrong variant" are not part of a specification: each is
the next definition with a plausible mistake, and shows that some property would
catch it.

### How state and actions correspond to the code

* `SleepLock`: `state`, `chan`, `plock` are fields of `struct proc`; `cpu` says
  whether the process is on a CPU, between `sched()`'s `swtch` and the
  scheduler's `release` ("swtch"), off, or dispatched and still holding
  `p->lock` ("back"). `lk` is the spin lock inside the sleep lock. `wakeup()` is
  one step for each slot.
* `Log`: `lh`, `outstanding`, `committing` are `struct log`; `disk`, `logarea`
  and `header` are what a crash leaves. `cache` is what `bread()` would return;
  `Evict` is `bget()` recycling a buffer that nobody has pinned. `Crash` may tear
  the block being written; the header is not torn, because it fits in one
  sector. `MayLog` limits a system call to `OPBLOCKS` distinct blocks.
* `Proc`: one step per critical section of `wait_lock` or `p->lock`; the scans of
  `reparent()` and `kwait()` advance by one slot. `ppid` remembers which process
  `p->parent` was set to, because slots are reused. Every system call starts with
  `usertrap()`'s first test of `killed()` (`Syscall`; `SyscallKilled` is the case
  where it exits) and ends with the second (`Return`). Any process makes any
  calls in any order, except init, which follows `user/init.c`: `sh` is what its
  variables say, the pid of its shell, none yet, or a failure that makes it
  `exit()` and the kernel panic.
* `Memory`: an entry of `pt` is a frame with PTE_W ("W"), PTE_C ("C") or neither
  ("R"). `mem` is the page a kernel function holds in a local variable between
  allocating and mapping it. `lmem` remembers what a process wrote or inherited.
  Page table pages and trapframes are not counted; instead `mappages()` may
  fail at any time. `leaked` counts the references that `shm_open()` loses when
  it does.
* `Sem`: `sem_create()` writes a slot's value under `sem_table.lock` only, while
  `sem_p()` and `sem_v()` use it under the slot's lock; hence loads and stores of
  the value are separate steps. `net` counts the P's and V's.
* `Library`: a program is a list of statements; `printfl()` is a P and a V around
  output that is left out. Telephone numbers are left out. Other programs may
  have taken any number of the semaphore table's slots before main starts, so
  each of its three `sem_create()`s can fail. Its last loop is one `wait(0)` at a
  time; nothing tells it which reader it has reaped.
* `Pipe`: `nread` and `nwrite` count modulo `WRAP`, as the code's `uint`s count
  modulo 2^32. `fresh` says that the writer inside has written bytes since its
  last wakeup of readers, and `abandoned` that a killed writer has returned with
  such bytes in the ring; a later `wakeup(&pi->nread)`, or a reader that drains the
  ring, clears it.

## 3. Runs

| Run | Instance | What it shows |
|---|---|---|
| `sleeplock` | 3 processes, 2 CPUs, fair | `MutualExclusion`; `NoLostWakeup`: nobody sleeps on a free lock unless a wakeup that has not passed its slot yet is under way; `NeverOnTwoCpus`; `SchedContract`: three of `sched()`'s four assertions (the model has no interrupt flag); `SleepersWake`, `LockProgress` |
| `log` | 3 system calls, 4 blocks, log of 4, 2 reserved for each, 1 used | `NoPanic`, `DurableWhenIdle`, `DirtyIsPinned`, and `CrashAtomic`: the log implements `AtomicLog` |
| `log_full` | 3 system calls, log of 2, all of a reservation used, fair | `SpaceReserved`, `CrashAtomic` when the log is full and when `log_write()` panics, `SleepersWake` |
| `proc` | 3 slots, 3 CPUs, 3 forks, kill of pids 0, 1, 2 | `ParentIsReal`, `StackNotInUse`, `NoMissedExit`, `OnlyInitIsRoot`, and `InitHasChildren`: init's `wait()` fails only when init has been killed |
| `proc_live` | 3 slots, 2 CPUs, 2 forks, kill of pids 1, 3, fair | `ZombiesReaped`: init reaps each of its zombies, or panics |
| `kill_race` (violated) | as `proc` | `KilledNotAsleep` fails: finding 1 |
| `memory` | 2 processes of 2 pages, 3 frames, 1 shared page | `RefcountExact`, `FreeIffUnreferenced`, `PrivateMemory`, `MappedBelowSize` |
| `shm_fork` (violated) | 3 processes | `CowNotWritable` fails: finding 2 |
| `sem` | 3 processes, 3 ids, 2 slots, values up to 2 | `Conservation`, `NoIdleUnits`, without `sem_free()` |
| `sem_reuse` (violated) | the same with `sem_free()` | `RightSemaphore` fails: finding 3 |
| `library` | 3 readers, 2 seats, 0 to all slots of the semaphore table taken, fair | `SeatFound`, `RegistryConsistent`, `FreedUnused`, `Terminates` |
| `pipe` | 3 processes, 2-byte ring, counters modulo 4 | `FreedUnused`, `NoMissedBytes`, `ClosedEndSeen`, and `IsByteStream`: the pipe implements `ByteStream` |

Why the bounds are enough for the cases of interest:

* Three processes contend for two CPUs, so that one holds a sleep lock, one
  sleeps and one is in between. In `proc` there is a CPU for each slot: a
  process that spins never has to be preempted for another to run.
* A log of 4 with reservations of 2 lets two system calls run and makes the
  third wait for space, and the calls have as many blocks to choose from as the
  log has: a `begin_op()` that let too many in would fill it and make
  `log_write()` panic. In `log_full` two calls fill the log exactly, while the
  third waits for the space that an `end_op()` with calls still outstanding
  gives back. In both, one system call logs one block (`OPBLOCKS` is 1), as
  often as it likes; transactions of several blocks come from the calls that
  share a commit. Calls of two blocks each have too many states for a run.
* Four pids over three slots reuse slots while children of the former owner live
  (three pids in `proc_live`: init, its shell, and an orphan of the shell or a
  second shell). Once all pids are used `fork()` fails, as it does without memory.
* Three frames run out with two processes of two pages; two openers of one
  shared page can close in either order. `MaxOpens` and `MaxLeaks` bound
  counters.
* Two seats and three readers make one reader wait.
* A ring of 2 with counters modulo 4 wraps around after a few bytes; writes of
  two bytes into a non-empty ring sleep half way.

Deadlock checking is off where the system may stop: all processes have exited
(`memory`, `library`), everybody waits for a V that nobody makes (`sem`), or every
end is closed or everybody reads from an empty pipe (`pipe`).

Symmetry is used over processes (and over frames in `memory`, blocks and values
in `log`) in runs without liveness properties only.

### Fairness

`SleepLock` and `Proc`: kernel code runs on (weak fairness of a process that can
continue), a spinning CPU gets a lock that is free again and again and the round
robin of `scheduler()` comes back to a slot that is RUNNABLE again and again
(strong fairness), the timer interrupts user code. In `Proc` init also goes on
with its program, the loops of `user/init.c`; no other user program is assumed to
do anything, and nothing happens after a panic. `Log`: system calls end, the committer goes on
and a woken process runs; crashes are never required. `Library`: every process
that can take a step takes one, which is the scheduler's round robin again.

### Findings

1. `kwait()` (and in the same way `piperead()`, `consoleread()`, `sys_pause()`)
   tests `killed()` before `sleep()` takes `p->lock`. A kill in between finds the
   process RUNNING and wakes nobody; the victim sleeps until something else
   wakes it. `kkill()`'s comment says "Wake process from sleep()".
2. The last `shm_close()` takes a page out of `shm_table` while processes still
   have it mapped writable. A `fork()` then treats it as private: parent and child
   get it copy-on-write, and a third process goes on writing it, although
   `uvmcopy()` is said to copy the physical memory. `CowNotWritable` is asked
   between forks only: while `uvmcopy()` runs, the parent's own entry may change
   before the child's exists.
3. `sem_p()` and `sem_v()` use a slot after they have released `sem_table.lock`.
   When it is freed and created again in between, they change a semaphore with
   another id, although ids are said to be unique identifiers.

Further facts of the models that no run asks about: `kill(0)` marks a free slot,
and `allocproc()` does not clear the mark (`Kill` in `Proc`); `kill(1)`, and a
`fork()` that fails in init, make init exit and the kernel panic (`ExitPanic`);
the library's main exits without freeing the semaphores it has created when a
later one fails (`Create`); `shm_open()` in a process whose size is TRAPFRAME panics in
`mappages()` (`ShmMap`); `log_write()` panics on a full log even if the block is
already in it (`LogWritePanic`).

## 4. Proofs

`SleepLockProofs` proves, for every number `N` of processes and `NCPU` of CPUs
(assumed positive: `SlotsAssumption`, `CpusAssumption`), and without assuming
fairness:

* `TypeCorrect`: `Spec => []TypeOK`
* `Exclusion`: `Spec => []MutualExclusion`
* `WakeupNotLost`: `Spec => []NoLostWakeup`
* `OneCpuPerProcess`: `Spec => []NeverOnTwoCpus`
* `SchedNeverPanics`: `Spec => []SchedContract`

None of these is inductive. The invariant `IInv` adds to `TypeOK`:

* `CpuInv`: where a process executes determines its state and whether its
  `p->lock` is held;
* `LockInv`: the program counter determines who holds `lk->lk` and the sleep lock,
  and whether `p->chan` is set;
* `WakeupInv`: a process that has seen the lock taken and is going to sleep
  holds `lk->lk` or its own `p->lock`, and if it is asleep on a lock that is free
  now, some releaser's loop has not passed its slot yet.

The last part is the reason why `sleep()` takes `p->lock` before it releases the
condition lock. The proof has one step per action, and under it one per part of
the invariant.

Only model-checked: everything about the other modules; every liveness property
(fairness and ENABLED are out of the prover's reach); and the refinements.

## 5. Not modelled, and the plan

Left out for good: boot code, assembly, PLIC, `printf`, string functions, the
system call table, `ext.c`'s counter, and user programs other than the library
simulation. They are sequential or formatting, and no property here depends on
them. `acquire()` and `release()` are taken to be atomic everywhere.

Planned, in this order:

1. `Bcache` over `SleepLock`'s exclusion (one buffer per block, LRU recycling,
   `bget: no buffers`), then `VirtioDisk` (descriptors, completion interrupts).
2. `Inode`: references and `nlink` over iget, ilock, iput and ireclaim, with
   crashes; `Bmap`: direct, indirect and double indirect blocks and itrunc
   against a reference tree, and the number of blocks a system call logs, which
   gives `Log`'s `OPBLOCKS` its value.
3. `Names`: link, unlink, create, symlink and their failures.
4. `FileTable`, `Ramdisk` (a page used after unload), `Console` with UART,
   `Spinlock` (push_off and pop_off), ticks and pause.
5. Proofs: `SpaceReserved` and, when `OPBLOCKS < MAXOPBLOCKS`, `NoPanic`; the
   refinement of `AtomicLog`; `ParentIsReal` and `StackNotInUse`; `RefcountExact`;
   exclusion in `Library`.
