------------------------------- MODULE Memory -------------------------------
(****************************************************************************)
(* Physical pages (kernel/kalloc.c: the free list and ref_count[]), user    *)
(* page tables with copy-on-write and lazy allocation (kernel/vm.c), and    *)
(* shared memory (kernel/shm.c), used by concurrent processes.              *)
(*                                                                          *)
(* Addresses are page numbers.  Pages that hold page tables and trapframes  *)
(* are not counted: mappages() may fail at any time, as it does when walk() *)
(* finds no page for a page table.  A kalloc() or kfree() is one step: the  *)
(* page is in nobody's hands between its two critical sections.  A call     *)
(* that fails and gives back all it took (exec, sbrk and vmfault out of     *)
(* memory) is no step; fork and shm_open, which leave a trace, are.         *)
(****************************************************************************)
EXTENDS Integers, FiniteSets, FiniteSetsExt

CONSTANTS Procs,    \* processes, as owners of page tables
          Frames,   \* physical pages
          NPAGES,   \* bound: pages of user address space below TRAPFRAME
          SHM_MAX,  \* slots of shm_table
          ShmIds,   \* ids that shm_open() and shm_close() are called with
          MaxOpens, \* bound: openers counted by a slot of shm_table
          MaxLeaks, \* bound: references lost by failed shm_open()s
          Values,   \* what a page can hold; Zero is a page of zeros
          Zero,
          Junk,     \* what kfree() and kalloc() fill a page with
          None

ASSUME MemoryAssumption ==
  /\ IsFiniteSet(Frames) /\ IsFiniteSet(Procs)
  /\ {NPAGES, SHM_MAX, MaxOpens, MaxLeaks} \subseteq Nat
  /\ Zero \in Values /\ Junk \notin Values
  /\ None \notin Frames \cup ShmIds

Pages == 0..(NPAGES - 1)
ShmSlots == 1..SHM_MAX

VARIABLES
  freelist,  \* kmem.freelist
  refcnt,    \* ref_count[]
  data,      \* contents of each frame
  pt,        \* leaf entries of each page table: a frame, and PTE_W, PTE_C or neither
  sz,        \* p->sz, in pages
  shm,       \* shm_table.frames[]
  pc,        \* where the process is
  mem,       \* a page the kernel holds in a local variable for the process
  page,      \* the page it is working on
  child,     \* the process being forked
  lmem,      \* history: what the process last wrote to, or inherited in, a page
  shmborn,   \* history: allocated frames that shm_open() allocated
  leaked,    \* history: references that shm_open() lost
  panicked   \* "kfree": its count was <= 0; "remap": mappages() of a mapped page

memVars == <<freelist, refcnt, data, shmborn, leaked, panicked>>
procVars == <<pt, sz, pc, mem, page, child, lmem>>
vars == <<memVars, procVars, shm>>

Unmapped == [pa |-> None, perm |-> "none"]
Mapped(p, v) == pt[p][v] # Unmapped
Entry(f, perm) == [pa |-> f, perm |-> perm]
NoShm == [id |-> None, pa |-> None, ref |-> 0]

Init ==
  /\ freelist = Frames
  /\ refcnt = [f \in Frames |-> 0]
  /\ data = [f \in Frames |-> Junk]
  /\ pt = [p \in Procs |-> [v \in Pages |-> Unmapped]]
  /\ sz = [p \in Procs |-> 0]
  /\ shm = [s \in ShmSlots |-> NoShm]
  /\ pc \in {f \in [Procs -> {"user", "unused"}] :
               Cardinality({p \in Procs : f[p] = "user"}) = 1}
  /\ mem = [p \in Procs |-> None]
  /\ page = [p \in Procs |-> 0]
  /\ child = [p \in Procs |-> p]
  /\ lmem = [p \in Procs |-> [v \in Pages |-> Zero]]
  /\ shmborn = {}
  /\ leaked = [f \in Frames |-> 0]
  /\ panicked = "no"

----------------------------------------------------------------------------
(* kalloc() and kfree() *)

\* kalloc() returns f, with contents d once the caller has filled it, and the
\* caller's incref()s already added to its count
kalloc(f, d, count) ==
  /\ f \in freelist
  /\ freelist' = freelist \ {f}
  /\ refcnt' = [refcnt EXCEPT ![f] = count]
  /\ data' = [data EXCEPT ![f] = d]

\* wrong variant: references that remain are not looked at
kfreeAtOnce(drop) ==
  LET freed == {f \in Frames : drop[f] > 0} IN
  /\ refcnt' = [f \in Frames |-> refcnt[f] - drop[f]]
  /\ panicked' = IF \E f \in Frames : drop[f] > refcnt[f] THEN "kfree" ELSE panicked
  /\ data' = [f \in Frames |-> IF f \in freed THEN Junk ELSE data[f]]
  /\ freelist' = freelist \cup freed
  /\ shmborn' = shmborn \ freed

\* kfree() called drop[f] times for every frame f
kfree(drop) ==
  LET freed == {f \in Frames : drop[f] > 0 /\ drop[f] >= refcnt[f]} IN
  /\ refcnt' = [f \in Frames |-> refcnt[f] - drop[f]]
  /\ panicked' = IF \E f \in Frames : drop[f] > refcnt[f] THEN "kfree" ELSE panicked
  /\ data' = [f \in Frames |-> IF f \in freed THEN Junk ELSE data[f]]
  /\ freelist' = freelist \cup freed
  /\ shmborn' = shmborn \ freed

Once(f) == [g \in Frames |-> IF g = f THEN 1 ELSE 0]

\* how many of the pages vs of process p map each frame
Uses(p, vs) == [f \in Frames |-> Cardinality({v \in vs : pt[p][v].pa = f})]

----------------------------------------------------------------------------
(* User accesses: a store, a copyout(), a fault *)

At(p, label) == pc[p] = label /\ panicked = "no"
Goto(p, label) == pc' = [pc EXCEPT ![p] = label]

\* a store, or copyout()'s memmove(), to a page mapped with PTE_W
Store(p, v, d) ==
  /\ At(p, "user")
  /\ pt[p][v].perm = "W"
  /\ data' = [data EXCEPT ![pt[p][v].pa] = d]
  /\ lmem' = IF pt[p][v].pa \in shmborn THEN lmem ELSE [lmem EXCEPT ![p][v] = d]
  /\ UNCHANGED <<freelist, refcnt, shmborn, leaked, panicked, pt, sz, pc, mem, page,
                 child, shm>>

\* wrong variant: memmove() is left out
CowNoCopy(p, v, f) ==
  /\ At(p, "user")
  /\ pt[p][v].perm = "C"
  /\ kalloc(f, Zero, 1)
  /\ mem' = [mem EXCEPT ![p] = f]
  /\ page' = [page EXCEPT ![p] = v]
  /\ Goto(p, "cow")
  /\ UNCHANGED <<shmborn, leaked, panicked, pt, sz, child, lmem, shm>>

\* a store or copyout() to a copy-on-write page: uvmcow(), or the same code in
\* copyout(), allocates a page and copies the old one into it ...
CowCopy(p, v, f) ==
  /\ At(p, "user")
  /\ pt[p][v].perm = "C"
  /\ kalloc(f, data[pt[p][v].pa], 1)
  /\ mem' = [mem EXCEPT ![p] = f]
  /\ page' = [page EXCEPT ![p] = v]
  /\ Goto(p, "cow")
  /\ UNCHANGED <<shmborn, leaked, panicked, pt, sz, child, lmem, shm>>

\* ... maps the copy with PTE_W, and drops its reference to the old page; the
\* store is then made again, as Store
CowMap(p) ==
  /\ At(p, "cow")
  /\ LET v == page[p] IN
       /\ pt' = [pt EXCEPT ![p][v] = Entry(mem[p], "W")]
       /\ kfree(Once(pt[p][v].pa))
       /\ lmem' = IF pt[p][v].pa \in shmborn
                  THEN [lmem EXCEPT ![p][v] = data[mem[p]]] ELSE lmem
  /\ mem' = [mem EXCEPT ![p] = None]
  /\ page' = [page EXCEPT ![p] = 0]
  /\ Goto(p, "user")
  /\ UNCHANGED <<leaked, sz, child, shm>>

\* an access below p->sz to an unmapped page: vmfault() maps a zeroed page, or
\* gives it back when mappages() fails (the process is then killed: Exit)
VmFault(p, v, f) ==
  /\ At(p, "user")
  /\ v < sz[p]
  /\ ~Mapped(p, v)
  /\ kalloc(f, Zero, 1)
  /\ pt' = [pt EXCEPT ![p][v] = Entry(f, "W")]
  /\ UNCHANGED <<shmborn, leaked, panicked, sz, pc, mem, page, child, lmem, shm>>

\* the process exits: on its own, or killed because a fault found no memory
Exit(p) ==
  /\ At(p, "user")
  /\ Goto(p, "zombie")
  /\ UNCHANGED <<memVars, pt, sz, mem, page, child, lmem, shm>>

\* freeproc() -> uvmfree(): wait() gives back every page below p->sz
FreeProc(p) ==
  /\ At(p, "zombie")
  /\ kfree(Uses(p, 0..(sz[p] - 1)))
  /\ pt' = [pt EXCEPT ![p] = [v \in Pages |-> IF v < sz[p] THEN Unmapped ELSE @[v]]]
  /\ sz' = [sz EXCEPT ![p] = 0]
  /\ lmem' = [lmem EXCEPT ![p] = [v \in Pages |-> Zero]]
  /\ Goto(p, "unused")
  /\ UNCHANGED <<leaked, mem, page, child, shm>>

----------------------------------------------------------------------------
(* sbrk() by one page *)

\* growproc(+) -> uvmalloc()
SbrkEager(p, f) ==
  /\ At(p, "user")
  /\ sz[p] < NPAGES
  /\ kalloc(f, Zero, 1)
  /\ pt' = [pt EXCEPT ![p][sz[p]] = Entry(f, "W")]
  /\ sz' = [sz EXCEPT ![p] = @ + 1]
  /\ panicked' = IF Mapped(p, sz[p]) THEN "remap" ELSE panicked
  /\ UNCHANGED <<shmborn, leaked, pc, mem, page, child, lmem, shm>>

\* wrong variant: p->sz is not kept below the trapframe
SbrkLazyUnchecked(p) ==
  /\ At(p, "user")
  /\ sz' = [sz EXCEPT ![p] = @ + 1]
  /\ UNCHANGED <<memVars, pt, pc, mem, page, child, lmem, shm>>

SbrkLazy(p) ==
  /\ At(p, "user")
  /\ sz[p] < NPAGES
  /\ sz' = [sz EXCEPT ![p] = @ + 1]
  /\ UNCHANGED <<memVars, pt, pc, mem, page, child, lmem, shm>>

\* wrong variant: uvmunmap() is left out
SbrkShrinkMapped(p) ==
  /\ At(p, "user")
  /\ sz[p] > 0
  /\ LET v == sz[p] - 1 IN
       /\ UNCHANGED <<freelist, refcnt, data, shmborn, panicked, pt>>
       /\ lmem' = [lmem EXCEPT ![p][v] = Zero]
  /\ sz' = [sz EXCEPT ![p] = @ - 1]
  /\ UNCHANGED <<leaked, pc, mem, page, child, shm>>

\* growproc(-) -> uvmdealloc()
SbrkShrink(p) ==
  /\ At(p, "user")
  /\ sz[p] > 0
  /\ LET v == sz[p] - 1 IN
       /\ kfree(Uses(p, {v}))
       /\ pt' = [pt EXCEPT ![p][v] = Unmapped]
       /\ lmem' = [lmem EXCEPT ![p][v] = Zero]
  /\ sz' = [sz EXCEPT ![p] = @ - 1]
  /\ UNCHANGED <<leaked, pc, mem, page, child, shm>>

----------------------------------------------------------------------------
(* fork(): uvmcopy(), one page at a time *)

Fork(p, c) ==
  /\ At(p, "user")
  /\ pc[c] = "unused"
  /\ child' = [child EXCEPT ![p] = c]
  /\ pc' = [pc EXCEPT ![p] = "fork", ![c] = "embryo"]
  /\ UNCHANGED <<memVars, pt, sz, mem, page, lmem, shm>>

is_shared_page(f) == \E s \in ShmSlots : shm[s].pa = f

\* a writable page of the parent as uvmcopy() leaves it
Shared(e) == IF e.perm = "W" /\ ~is_shared_page(e.pa) THEN Entry(e.pa, "C") ELSE e

\* wrong variant: incref() is left out
ForkPageNoRef(p) ==
  /\ At(p, "fork")
  /\ page[p] < sz[p]
  /\ LET v == page[p]
         e == pt[p][v]
     IN IF Mapped(p, v)
        THEN /\ pt' = [pt EXCEPT ![p][v] = Shared(e), ![child[p]][v] = Shared(e)]
             /\ UNCHANGED refcnt
        ELSE UNCHANGED <<pt, refcnt>>
  /\ page' = [page EXCEPT ![p] = @ + 1]
  /\ UNCHANGED <<freelist, data, shmborn, leaked, panicked, sz, pc, mem, child, lmem, shm>>

\* wrong variant: the parent keeps PTE_W
ForkPageParent(p) ==
  /\ At(p, "fork")
  /\ page[p] < sz[p]
  /\ LET v == page[p]
         e == pt[p][v]
     IN IF Mapped(p, v)
        THEN /\ pt' = [pt EXCEPT ![child[p]][v] = Shared(e)]
             /\ refcnt' = [refcnt EXCEPT ![e.pa] = @ + 1]
        ELSE UNCHANGED <<pt, refcnt>>
  /\ page' = [page EXCEPT ![p] = @ + 1]
  /\ UNCHANGED <<freelist, data, shmborn, leaked, panicked, sz, pc, mem, child, lmem, shm>>

\* one iteration: a writable page that is not shared memory becomes
\* copy-on-write in both page tables
ForkPage(p) ==
  /\ At(p, "fork")
  /\ page[p] < sz[p]
  /\ LET v == page[p]
         e == pt[p][v]
     IN IF Mapped(p, v)
        THEN /\ pt' = [pt EXCEPT ![p][v] = Shared(e), ![child[p]][v] = Shared(e)]
             /\ refcnt' = [refcnt EXCEPT ![e.pa] = @ + 1]
        ELSE UNCHANGED <<pt, refcnt>>
  /\ page' = [page EXCEPT ![p] = @ + 1]
  /\ UNCHANGED <<freelist, data, shmborn, leaked, panicked, sz, pc, mem, child, lmem, shm>>

\* mappages() fails: the parent's entry is already copy-on-write; uvmunmap()
\* gives back what the child has got so far
ForkFail(p) ==
  /\ At(p, "fork")
  /\ page[p] < sz[p]
  /\ Mapped(p, page[p])
  /\ LET v == page[p]
         c == child[p]
     IN /\ pt' = [pt EXCEPT
                    ![p][v] = Shared(pt[p][v]),
                    ![c] = [u \in Pages |-> IF u < v THEN Unmapped ELSE @[u]]]
        /\ kfree(Uses(c, 0..(v - 1)))
        /\ pc' = [pc EXCEPT ![p] = "user", ![c] = "unused"]
  /\ page' = [page EXCEPT ![p] = 0]
  /\ child' = [child EXCEPT ![p] = p]
  /\ UNCHANGED <<leaked, sz, mem, lmem, shm>>

ForkDone(p) ==
  /\ At(p, "fork")
  /\ page[p] >= sz[p]
  /\ LET c == child[p] IN
       /\ sz' = [sz EXCEPT ![c] = sz[p]]
       /\ lmem' = [lmem EXCEPT ![c] = lmem[p]]
       /\ pc' = [pc EXCEPT ![p] = "user", ![c] = "user"]
  /\ page' = [page EXCEPT ![p] = 0]
  /\ child' = [child EXCEPT ![p] = p]
  /\ UNCHANGED <<memVars, pt, mem, shm>>

----------------------------------------------------------------------------
(* exec(): a text page without PTE_W and a stack page, from a new page table; *)
(* the old pages are given back last.  What is loaded is written Zero.  The   *)
(* guard page below the stack is left out: without PTE_U nothing accesses it. *)

Exec(p, text, stack) ==
  /\ At(p, "user")
  /\ {text, stack} \subseteq freelist /\ text # stack
  /\ LET drop == Uses(p, 0..(sz[p] - 1))
         freed == {f \in Frames : drop[f] > 0 /\ drop[f] >= refcnt[f]}
     IN /\ refcnt' = [f \in Frames |-> IF f \in {text, stack} THEN 1
                                       ELSE refcnt[f] - drop[f]]
        /\ panicked' = IF \E f \in Frames : drop[f] > refcnt[f]
                       THEN "kfree" ELSE panicked
        /\ data' = [f \in Frames |-> CASE f \in {text, stack} -> Zero
                                      [] f \in freed -> Junk
                                      [] OTHER -> data[f]]
        /\ freelist' = (freelist \ {text, stack}) \cup freed
        /\ shmborn' = shmborn \ freed
  /\ pt' = [pt EXCEPT ![p] = [v \in Pages |-> CASE v = 0 -> Entry(text, "R")
                                             [] v = 1 -> Entry(stack, "W")
                                             [] OTHER -> Unmapped]]
  /\ lmem' = [lmem EXCEPT ![p] = [v \in Pages |-> Zero]]
  /\ sz' = [sz EXCEPT ![p] = 2]
  /\ UNCHANGED <<leaked, pc, mem, page, child, shm>>

----------------------------------------------------------------------------
(* Shared memory *)

\* wrong variant: incref() is left out
ShmOpenNoRef(p, id) ==
  /\ At(p, "user")
  /\ \E s \in ShmSlots :
       /\ shm[s].id = id
       /\ shm[s].ref < MaxOpens
       /\ shm' = [shm EXCEPT ![s].ref = @ + 1]
       /\ UNCHANGED refcnt
       /\ mem' = [mem EXCEPT ![p] = shm[s].pa]
  /\ Goto(p, "shm")
  /\ UNCHANGED <<freelist, data, shmborn, leaked, panicked, pt, sz, page, child, lmem>>

\* shm_open() of an id in the table: one more opener, and an incref() for the
\* mapping about to be made
ShmOpen(p, id) ==
  /\ At(p, "user")
  /\ \E s \in ShmSlots :
       /\ shm[s].id = id
       /\ shm[s].ref < MaxOpens
       /\ shm' = [shm EXCEPT ![s].ref = @ + 1]
       /\ refcnt' = [refcnt EXCEPT ![shm[s].pa] = @ + 1]
       /\ mem' = [mem EXCEPT ![p] = shm[s].pa]
  /\ Goto(p, "shm")
  /\ UNCHANGED <<freelist, data, shmborn, leaked, panicked, pt, sz, page, child, lmem>>

\* shm_open() of a new id: the first empty slot gets a zeroed page, counted
\* once for the table and once for the mapping about to be made
ShmCreate(p, id, f) ==
  /\ At(p, "user")
  /\ \A s \in ShmSlots : shm[s].id # id
  /\ \E s \in ShmSlots :
       /\ shm[s] = NoShm
       /\ \A t \in ShmSlots : t < s => shm[t] # NoShm
       /\ shm' = [shm EXCEPT ![s] = [id |-> id, pa |-> f, ref |-> 1]]
  /\ f \in freelist
  /\ freelist' = freelist \ {f}
  /\ refcnt' = [refcnt EXCEPT ![f] = 2]
  /\ data' = [data EXCEPT ![f] = Zero]
  /\ shmborn' = shmborn \cup {f}
  /\ mem' = [mem EXCEPT ![p] = f]
  /\ Goto(p, "shm")
  /\ UNCHANGED <<leaked, panicked, pt, sz, page, child, lmem>>

\* wrong variant: p->sz is not updated
ShmMapNoSize(p) ==
  /\ At(p, "shm")
  /\ IF sz[p] = NPAGES
     THEN /\ panicked' = "remap"
          /\ UNCHANGED <<pt, sz, mem, pc>>
     ELSE /\ panicked' = IF Mapped(p, sz[p]) THEN "remap" ELSE panicked
          /\ pt' = [pt EXCEPT ![p][sz[p]] = Entry(mem[p], "W")]
          /\ UNCHANGED sz
          /\ mem' = [mem EXCEPT ![p] = None]
          /\ Goto(p, "user")
  /\ UNCHANGED <<freelist, refcnt, data, shmborn, leaked, page, child, lmem, shm>>

\* after the table's lock is released: the page is mapped just above p->sz,
\* where nothing checks that it is below the trapframe
ShmMap(p) ==
  /\ At(p, "shm")
  /\ IF sz[p] = NPAGES
     THEN /\ panicked' = "remap"
          /\ UNCHANGED <<pt, sz, mem, pc>>
     ELSE /\ panicked' = IF Mapped(p, sz[p]) THEN "remap" ELSE panicked
          /\ pt' = [pt EXCEPT ![p][sz[p]] = Entry(mem[p], "W")]
          /\ sz' = [sz EXCEPT ![p] = @ + 1]
          /\ mem' = [mem EXCEPT ![p] = None]
          /\ Goto(p, "user")
  /\ UNCHANGED <<freelist, refcnt, data, shmborn, leaked, page, child, lmem, shm>>

\* mappages() fails: neither the opener nor the reference is given back
ShmMapFail(p) ==
  /\ At(p, "shm")
  /\ MapThenSumSet(LAMBDA f : leaked[f], Frames) < MaxLeaks
  /\ leaked' = [leaked EXCEPT ![mem[p]] = @ + 1]
  /\ mem' = [mem EXCEPT ![p] = None]
  /\ Goto(p, "user")
  /\ UNCHANGED <<freelist, refcnt, data, shmborn, panicked, pt, sz, page, child, lmem, shm>>

\* shm_close() by any process, whether or not it opened id; its mapping stays
ShmClose(p, id) ==
  /\ At(p, "user")
  /\ \E s \in ShmSlots :
       /\ shm[s].id = id
       /\ IF shm[s].ref = 1
          THEN /\ kfree(Once(shm[s].pa))
               /\ shm' = [shm EXCEPT ![s] = NoShm]
          ELSE /\ shm' = [shm EXCEPT ![s].ref = @ - 1]
               /\ UNCHANGED <<freelist, refcnt, data, shmborn, panicked>>
  /\ UNCHANGED <<leaked, procVars>>

Next ==
  \E p \in Procs :
    \/ \E v \in Pages, d \in Values : Store(p, v, d)
    \/ \E v \in Pages, f \in Frames : CowCopy(p, v, f) \/ VmFault(p, v, f)
    \/ CowMap(p)
    \/ Exit(p) \/ FreeProc(p)
    \/ \E f \in Frames : SbrkEager(p, f)
    \/ SbrkLazy(p) \/ SbrkShrink(p)
    \/ \E c \in Procs : Fork(p, c)
    \/ ForkPage(p) \/ ForkFail(p) \/ ForkDone(p)
    \/ \E f, g \in Frames : Exec(p, f, g)
    \/ \E id \in ShmIds : \/ ShmOpen(p, id)
                          \/ \E f \in Frames : ShmCreate(p, id, f)
                          \/ ShmClose(p, id)
    \/ ShmMap(p) \/ ShmMapFail(p)

Spec == Init /\ [][Next]_vars

----------------------------------------------------------------------------
(* Properties *)

TypeOK ==
  /\ freelist \subseteq Frames
  /\ refcnt \in [Frames -> Int]
  /\ data \in [Frames -> Values \cup {Junk}]
  /\ pt \in [Procs -> [Pages -> [pa : Frames \cup {None}, perm : {"none", "R", "W", "C"}]]]
  /\ sz \in [Procs -> 0..NPAGES]
  /\ shm \in [ShmSlots -> [id : ShmIds \cup {None}, pa : Frames \cup {None}, ref : Nat]]
  /\ pc \in [Procs -> {"unused", "embryo", "user", "cow", "fork", "shm", "zombie"}]
  /\ mem \in [Procs -> Frames \cup {None}]
  /\ page \in [Procs -> 0..NPAGES]
  /\ child \in [Procs -> Procs]
  /\ lmem \in [Procs -> [Pages -> Values]]
  /\ shmborn \subseteq Frames
  /\ leaked \in [Frames -> Nat]
  /\ panicked \in {"no", "kfree", "remap"}

\* every reference to frame f: page table entries, kernel locals, shm_table
References(f) ==
  Cardinality({<<p, v>> \in Procs \X Pages : pt[p][v].pa = f})
  + Cardinality({p \in Procs : mem[p] = f})
  + Cardinality({s \in ShmSlots : shm[s].pa = f})

\* ref_count[] is the number of references to a page, whatever fork(), exit(),
\* copy-on-write faults and shm_open()/shm_close() of all processes do at once,
\* but for the ones shm_open() lost when mappages() failed; so kfree() never
\* panics on a count that is zero already
RefcountExact ==
  /\ \A f \in Frames : refcnt[f] = References(f) + leaked[f]
  /\ panicked # "kfree"

\* kalloc() never hands out a page that somebody still maps or holds, and a
\* page with no reference left is back on the free list
FreeIffUnreferenced ==
  \A f \in Frames : f \in freelist <=> References(f) + leaked[f] = 0

Live(p) == pc[p] \notin {"unused", "embryo"}

\* fork() gives each process memory of its own: a page outside shared memory
\* reads as the process last wrote it, or as it was when inherited, or zero
PrivateMemory ==
  \A p \in Procs, v \in Pages :
    Live(p) /\ Mapped(p, v) /\ pt[p][v].pa \notin shmborn
      => data[pt[p][v].pa] = lmem[p][v]

\* an unmapped page below p->sz has never been written (vmfault() may zero it),
\* and no page is mapped at or above it (freewalk() would panic)
MappedBelowSize ==
  \A p \in Procs, v \in Pages :
    /\ Live(p) /\ ~Mapped(p, v) => lmem[p][v] = Zero
    /\ pc[p] # "embryo" /\ Mapped(p, v) => v < sz[p]

\* uvmcopy() gives the child memory of its own: once no fork() is half way, a page
\* marked copy-on-write in one page table is writable in no other
CowNotWritable ==
  (\A p \in Procs : pc[p] # "fork") =>
    \A p, q \in Procs, u, v \in Pages :
      p # q /\ pt[p][u].perm = "C" /\ pt[q][v].perm = "W" => pt[p][u].pa # pt[q][v].pa

=============================================================================
