--------------------------- MODULE MCShellChannel --------------------------
(* Software programs a 1 x 1 x 1 or an illegal job field by field, starts,  *)
(* clears and enables the interrupt whenever it likes; one write misses     *)
(* lane 0 and one START carries ABORT.                                      *)
EXTENDS ShellChannel

Put(r, d) == [en |-> TRUE, reg |-> r, strb |-> {0, 1, 2, 3}, data |-> d]
MCWrites ==
  {Put("M", 1), Put("M", 9), Put("N", 1), Put("K", 1), Put("A_BASE", 2), Put("A_BASE", 4),
   Put("CTRL", 1), Put("CTRL", 7), Put("STATUS", 2), Put("STATUS", 4), Put("STATUS", 6),
   [Put("CTRL", 1) EXCEPT !.strb = {1, 2, 3}]}
SmallWrites == {Put("M", 1), Put("N", 1), Put("K", 1), Put("CTRL", 1)}
=============================================================================
