------------------------------ MODULE MCMemBus -----------------------------
(* A window of four words at word 1 of the bus; bursts of up to four beats  *)
(* that fit, end on the last word, start below, run off the end or are not  *)
(* plain.                                                                   *)
EXTENDS MemBus

Burst(a, n) == [addr |-> a, len |-> n - 1, plain |-> TRUE]
MCReads == {Burst(1, 4), Burst(3, 2), Burst(4, 2)}
MCWrites == {Burst(2, 2), Burst(0, 2), [Burst(2, 1) EXCEPT !.plain = FALSE]}
=============================================================================
