------------------------------- MODULE MCPipe -------------------------------
(* Pipe, for TLC: processes are interchangeable *)
EXTENDS Pipe, TLC

Symmetry == Permutations(Procs)

=============================================================================
