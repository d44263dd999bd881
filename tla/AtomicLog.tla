------------------------------ MODULE AtomicLog ------------------------------
(****************************************************************************)
(* What the log promises to the file system (the comment at the top of      *)
(* kernel/log.c): system calls update memory between begin_op() and         *)
(* end_op(); the disk only ever moves to a memory image that no system call *)
(* is in the middle of changing; a crash takes memory back to the disk.     *)
(****************************************************************************)
CONSTANTS Procs, Blocks, Values

VARIABLES mem,      \* what a reader of each block sees
          durable,  \* what a reader would see after a crash and recovery
          active    \* processes between begin_op() and end_op()

vars == <<mem, durable, active>>

Init ==
  /\ durable \in [Blocks -> Values]
  /\ mem = durable
  /\ active = {}

Begin(p) ==
  /\ p \notin active
  /\ active' = active \cup {p}
  /\ UNCHANGED <<mem, durable>>

Update(p, b, v) ==
  /\ p \in active
  /\ mem' = [mem EXCEPT ![b] = v]
  /\ UNCHANGED <<durable, active>>

End(p) ==
  /\ p \in active
  /\ active' = active \ {p}
  /\ UNCHANGED <<mem, durable>>

\* all or nothing, and never in the middle of a system call
Commit ==
  /\ active = {}
  /\ durable' = mem
  /\ UNCHANGED <<mem, active>>

Crash ==
  /\ mem' = durable
  /\ active' = {}
  /\ UNCHANGED durable

Next ==
  \/ \E p \in Procs : Begin(p) \/ End(p) \/ \E b \in Blocks, v \in Values : Update(p, b, v)
  \/ Commit
  \/ Crash

Spec == Init /\ [][Next]_vars

=============================================================================
