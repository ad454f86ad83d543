---------------------------- MODULE MCLegacyBench --------------------------
(* The 4 x 4 array with KMAX = 2.  The driver alternates products of one   *)
(* and of two vectors; anyone else starts, clears, aborts, acknowledges     *)
(* and rewrites LEN and an operand at will.                                 *)
EXTENDS LegacyBench

Job(k) ==
  [k |-> k,
   a |-> [p \in (0 .. N - 1) \X (0 .. k - 1) |-> 5 * p[1] - 3 * p[2] - 7],
   b |-> [p \in (0 .. k - 1) \X (0 .. N - 1) |-> 11 * p[1] + 2 * p[2] - 6]]
MCOperands == {Job(1), Job(2)}
MCWrites ==
  {Put(Reg("LEN"), 1), Put(Reg("CTRL"), 1), Put(Reg("CTRL"), 2), Put(Reg("CTRL"), 4),
   Put(Reg("STATUS"), 6), [Put([win |-> "A", word |-> 0], 517) EXCEPT !.strb = {0, 1}],
   Put(Reg("HOLE"), 1)}
=============================================================================
