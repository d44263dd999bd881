----------------------------- MODULE ByteStream -----------------------------
(****************************************************************************)
(* What a pipe promises: the bytes written to it are read in the order they *)
(* were written, each once, and none but those; at most Capacity bytes are  *)
(* in it.                                                                   *)
(****************************************************************************)
EXTENDS Naturals, Sequences

CONSTANTS Bytes, Capacity

VARIABLE stream   \* bytes written and not read yet

Init == stream = << >>

Write == \E b \in Bytes : Len(stream) < Capacity /\ stream' = Append(stream, b)

Read == \E k \in 1..Len(stream) : stream' = SubSeq(stream, k + 1, Len(stream))

Spec == Init /\ [][Write \/ Read]_stream

=============================================================================
