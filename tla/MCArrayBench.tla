---------------------------- MODULE MCArrayBench ---------------------------
(* A 3 x 3 array, and reductions of 3 over vectors that differ in every     *)
(* lane, one of them zero.                                                  *)
EXTENDS ArrayBench

MCVectors == {ZeroVector, [i \in Lanes |-> 3 * i - 4], [i \in Lanes |-> 7 - i * i]}
=============================================================================
