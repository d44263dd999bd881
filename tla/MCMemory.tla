------------------------------ MODULE MCMemory ------------------------------
(* Memory, for TLC: processes and frames are interchangeable *)
EXTENDS Memory, TLC

Symmetry == Permutations(Procs) \cup Permutations(Frames)

=============================================================================
