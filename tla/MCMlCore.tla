------------------------------ MODULE MCMlCore -----------------------------
(* A 4 x 4 array and a job of two ragged tiles in K. *)
EXTENDS MlCore

MCJobs ==
  {[d |-> [m |-> 3, n |-> 2, k |-> 3, tm |-> 4, tn |-> 4, tk |-> 2],
    a |-> [p \in (0 .. 2) \X (0 .. 2) |-> 5 * p[1] - 3 * p[2] + 1],
    b |-> [p \in (0 .. 2) \X (0 .. 1) |-> 7 * p[1] + p[2] - 6],
    post |-> [bias |-> 1, scale |-> 3, relu |-> FALSE, shift |-> 1]]}
=============================================================================
