-------------------------------- MODULE Sem --------------------------------
(****************************************************************************)
(* The kernel's counting semaphores (kernel/sem.c).                         *)
(*                                                                          *)
(* A slot is looked up under sem_table.lock, and used under its own lock    *)
(* afterwards.  sem_create() sets the value of a slot without that slot's   *)
(* lock, so the load and the store of value-- and value++ are two steps.    *)
(* sleep() gives up the lock and sleeps in one step, and wakeup() wakes     *)
(* every sleeper: SleepLock shows that of kernel/proc.c.                    *)
(****************************************************************************)
EXTENDS Integers, FiniteSets

CONSTANTS Procs,     \* processes
          Ids,       \* semaphore ids
          SEM_MAX,   \* slots of sem_table
          NoProc     \* holder of a free lock

ASSUME SemAssumption == SEM_MAX \in Nat \ {0} /\ NoProc \notin Procs

Slots == 1..SEM_MAX

VARIABLES
  sems,   \* sem_table.sems[]: valid, id and value of every slot
  lock,   \* holder of each slot's lock
  pc,     \* "idle", or where in sem_p() or sem_v() the process is
  slot,   \* the slot it has looked up
  want,   \* the id it was called with
  tmp,    \* the value it has loaded
  ret,    \* what its last call returned
  net     \* history: V's less P's completed on the slot since its creation,
          \* plus the value it was created with

semVars == <<sems, lock, pc, slot, want, tmp, ret, net>>

\* what an unused slot or argument holds; never looked at
AnyId == CHOOSE id \in Ids : TRUE

\* no process is in a call
CallsInit ==
  /\ lock = [s \in Slots |-> NoProc]
  /\ pc = [p \in Procs |-> "idle"]
  /\ slot = [p \in Procs |-> 1]
  /\ want = [p \in Procs |-> AnyId]
  /\ tmp = [p \in Procs |-> 0]
  /\ ret = [p \in Procs |-> 0]
  /\ net = [s \in Slots |-> 0]

\* seminit()
SemInit ==
  /\ sems = [s \in Slots |-> [valid |-> FALSE, id |-> AnyId, value |-> 0]]
  /\ CallsInit

Goto(p, label) == pc' = [pc EXCEPT ![p] = label]
Return(p, r) == ret' = [ret EXCEPT ![p] = r]

\* return 0; the locals are dead
Leave(p) ==
  /\ slot' = [slot EXCEPT ![p] = 1]
  /\ want' = [want EXCEPT ![p] = AnyId]
  /\ tmp' = [tmp EXCEPT ![p] = 0]
  /\ Return(p, 0)

Names(s, id) == sems[s].valid /\ sems[s].id = id
First(s, P(_)) == P(s) /\ \A t \in Slots : t < s => ~P(t)

----------------------------------------------------------------------------
sem_create(p, id, value) ==
  /\ pc[p] = "idle"
  /\ \/ /\ \E s \in Slots : Names(s, id)          \* exists: its value is kept
        /\ Return(p, 0)
        /\ UNCHANGED <<sems, net>>
     \/ /\ \A s \in Slots : ~Names(s, id)
        /\ \E s \in Slots :
             /\ First(s, LAMBDA t : ~sems[t].valid)
             /\ sems' = [sems EXCEPT ![s] = [valid |-> TRUE, id |-> id, value |-> value]]
             /\ net' = [net EXCEPT ![s] = value]
        /\ Return(p, 0)
     \/ /\ \A s \in Slots : ~Names(s, id) /\ sems[s].valid
        /\ Return(p, -1)
        /\ UNCHANGED <<sems, net>>
  /\ UNCHANGED <<lock, pc, slot, want, tmp>>

sem_free(p, id) ==
  /\ pc[p] = "idle"
  /\ IF \E s \in Slots : Names(s, id)
     THEN /\ \E s \in Slots : /\ First(s, LAMBDA t : Names(t, id))
                              /\ sems' = [sems EXCEPT ![s].valid = FALSE]
          /\ Return(p, 0)
     ELSE Return(p, -1) /\ UNCHANGED sems
  /\ UNCHANGED <<lock, pc, slot, want, tmp, net>>

\* wrong variant: an id that is not found is not rejected
LookupUnchecked(p, id, next) ==
  /\ pc[p] = "idle"
  /\ IF \E s \in Slots : Names(s, id)
     THEN /\ \E s \in Slots : /\ First(s, LAMBDA t : Names(t, id))
                              /\ slot' = [slot EXCEPT ![p] = s]
          /\ want' = [want EXCEPT ![p] = id]
          /\ Goto(p, next)
          /\ UNCHANGED ret
     ELSE slot' = [slot EXCEPT ![p] = 0] /\ Goto(p, next) /\ UNCHANGED <<want, ret>>
  /\ UNCHANGED <<sems, lock, tmp, net>>

\* the lookup that starts sem_p() and sem_v(), under sem_table.lock
Lookup(p, id, next) ==
  /\ pc[p] = "idle"
  /\ IF \E s \in Slots : Names(s, id)
     THEN /\ \E s \in Slots : /\ First(s, LAMBDA t : Names(t, id))
                              /\ slot' = [slot EXCEPT ![p] = s]
          /\ want' = [want EXCEPT ![p] = id]
          /\ Goto(p, next)
          /\ UNCHANGED ret
     ELSE Return(p, -1) /\ UNCHANGED <<slot, want, pc>>
  /\ UNCHANGED <<sems, lock, tmp, net>>

sem_p(p, id) == Lookup(p, id, "p")
sem_v(p, id) == Lookup(p, id, "v")

\* wrong variant: s->lock is not taken
TestUnlocked(p) ==
  LET s == slot[p] IN
  /\ pc[p] = "p"
  /\ IF sems[s].value <= 0
     THEN Goto(p, "asleep") /\ UNCHANGED <<lock, tmp>>
     ELSE /\ lock' = [lock EXCEPT ![s] = p]
          /\ tmp' = [tmp EXCEPT ![p] = sems[s].value]
          /\ Goto(p, "take")
  /\ UNCHANGED <<sems, slot, want, ret, net>>

\* acquire(&s->lock), on entry or on waking up, and the test of s->value: sleep,
\* or go on to load it for value--
Test(p) ==
  LET s == slot[p] IN
  /\ pc[p] = "p"
  /\ lock[s] = NoProc
  /\ IF sems[s].value <= 0
     THEN Goto(p, "asleep") /\ UNCHANGED <<lock, tmp>>
     ELSE /\ lock' = [lock EXCEPT ![s] = p]
          /\ tmp' = [tmp EXCEPT ![p] = sems[s].value]
          /\ Goto(p, "take")
  /\ UNCHANGED <<sems, slot, want, ret, net>>

Take(p) ==
  LET s == slot[p] IN
  /\ pc[p] = "take"
  /\ sems' = [sems EXCEPT ![s].value = tmp[p] - 1]
  /\ net' = [net EXCEPT ![s] = @ - 1]
  /\ lock' = [lock EXCEPT ![s] = NoProc]
  /\ Goto(p, "idle")
  /\ Leave(p)

AcquireV(p) ==
  LET s == slot[p] IN
  /\ pc[p] = "v"
  /\ lock[s] = NoProc
  /\ lock' = [lock EXCEPT ![s] = p]
  /\ tmp' = [tmp EXCEPT ![p] = sems[s].value]
  /\ Goto(p, "give")
  /\ UNCHANGED <<sems, slot, want, ret, net>>

\* wrong variant: wakeup() is left out
GiveNoWakeup(p) ==
  LET s == slot[p] IN
  /\ pc[p] = "give"
  /\ sems' = [sems EXCEPT ![s].value = tmp[p] + 1]
  /\ net' = [net EXCEPT ![s] = @ + 1]
  /\ lock' = [lock EXCEPT ![s] = NoProc]
  /\ pc' = [q \in Procs |-> CASE q = p -> "idle"
                              [] OTHER -> pc[q]]
  /\ Leave(p)

\* the store of value++, wakeup(s) and release(&s->lock)
Give(p) ==
  LET s == slot[p] IN
  /\ pc[p] = "give"
  /\ sems' = [sems EXCEPT ![s].value = tmp[p] + 1]
  /\ net' = [net EXCEPT ![s] = @ + 1]
  /\ lock' = [lock EXCEPT ![s] = NoProc]
  /\ pc' = [q \in Procs |-> CASE q = p -> "idle"
                              [] pc[q] = "asleep" /\ slot[q] = s -> "p"
                              [] OTHER -> pc[q]]
  /\ Leave(p)

SemStep(p) == Test(p) \/ Take(p) \/ AcquireV(p) \/ Give(p)

----------------------------------------------------------------------------
(* Properties *)

SemTypeOK ==
  /\ sems \in [Slots -> [valid : BOOLEAN, id : Ids, value : Int]]
  /\ lock \in [Slots -> Procs \cup {NoProc}]
  /\ pc \in [Procs -> {"idle", "p", "take", "asleep", "v", "give"}]
  /\ slot \in [Procs -> Slots]
  /\ want \in [Procs -> Ids]
  /\ tmp \in [Procs -> Int]
  /\ ret \in [Procs -> {0, -1}]
  /\ net \in [Slots -> Int]

\* no P or V is lost: the value is the initial one plus the V's less the P's
Conservation == \A s \in Slots : sems[s].valid => sems[s].value = net[s]

\* nobody sleeps in sem_p() on a semaphore with units left
NoIdleUnits ==
  \A p \in Procs : pc[p] = "asleep" => sems[slot[p]].value <= 0

\* a P or V never changes a semaphore with another id than it was called with
RightSemaphore ==
  \A p \in Procs : pc[p] \in {"take", "give"} => sems[slot[p]].id = want[p]

=============================================================================
