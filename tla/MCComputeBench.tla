--------------------------- MODULE MCComputeBench --------------------------
(* A 4 x 4 array, the smallest the code allows.  Jobs of 2 x 2 tiles, for   *)
(* the reference path 2 x 2 x 2, with ragged edges, as raw INT32 and as     *)
(* INT8; one as wide as the buffers; the smallest one; and jobs that are    *)
(* refused.  The requantization saturates at both ends, rounds toward minus *)
(* infinity and falls to the ReLU; registers of 21 bits.                    *)
EXTENDS ComputeBench

Raw == [int8 |-> FALSE, bias |-> 0, scale |-> 1, relu |-> FALSE, shift |-> 0]
Steep == [int8 |-> TRUE, bias |-> 1, scale |-> 3, relu |-> FALSE, shift |-> 1]
Negated == [int8 |-> TRUE, bias |-> 0, scale |-> -1, relu |-> TRUE, shift |-> 2]

Job(m, n, k, tk, post) ==
  [m |-> m, n |-> n, k |-> k, tm |-> 4, tn |-> 4, tk |-> tk, post |-> post,
   a |-> [p \in (0 .. m - 1) \X (0 .. k - 1) |-> 5 * p[1] - 3 * p[2] - 7],
   b |-> [p \in (0 .. k - 1) \X (0 .. n - 1) |-> 11 * p[1] + 2 * p[2] - 6]]

TooTall == Job(6, 1, 1, 1, Raw)
OddTile == [Job(1, 1, 1, 1, Raw) EXCEPT !.tn = 3]
MCJobs ==
  [pipelined |-> {Job(5, 5, 2, 1, Raw), Job(5, 5, 2, 1, Steep), Job(2, 8, 3, 1, Negated),
                  Job(1, 1, 1, 1, Negated), TooTall, OddTile},
   reference |-> {Job(5, 5, 5, 4, Steep), Job(2, 6, 3, 2, Raw), Job(1, 1, 1, 1, Steep), TooTall}]
=============================================================================
