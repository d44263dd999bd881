------------------------------- MODULE MCSem -------------------------------
(* Sem, for TLC, with processes that make any calls at any time *)
EXTENDS Sem, TLC

CONSTANT MaxValue   \* bound: the value of a semaphore

\* a V in progress may still add one to the value
Vs(s) == Cardinality({p \in Procs : pc[p] \in {"v", "give"} /\ slot[p] = s})

Calls(p) ==
  \E id \in Ids :
    \/ \E value \in {-1, 1} : sem_create(p, id, value)
    \/ sem_p(p, id)
    \/ /\ \A s \in Slots : Names(s, id) => sems[s].value + Vs(s) < MaxValue
       /\ sem_v(p, id)

Next == \E p \in Procs : Calls(p) \/ SemStep(p)

Spec == SemInit /\ [][Next]_semVars

\* the same, with processes that call sem_free()
NextFree == Next \/ \E p \in Procs, id \in Ids : sem_free(p, id)

SpecFree == SemInit /\ [][NextFree]_semVars

=============================================================================
