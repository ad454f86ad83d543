------------------------------ MODULE MCSystem -----------------------------
(* Ragged 5 x 5 x 2 and 1 x 5 x 2 jobs of INT32 or packed INT8 results in   *)
(* a RAM of 40 words: A in its words 0 and on, B in 4 and on, C from 10 on. *)
(* Bursts of up to four words are cut at pages of eight.                    *)
EXTENDS SystemBench

MCProgram ==
  [f \in Shell!Fields |->
    CASE f \in {"M", "N"} -> 5 [] f = "K" -> 2 [] f \in {"TILE_M", "TILE_N"} -> 4 [] f = "TILE_K" -> 1
      [] f = "A_BASE" -> 4 * Base [] f = "B_BASE" -> 4 * (Base + 4) [] f = "C_BASE" -> 4 * (Base + 10)
      [] f = "POST_BIAS" -> 2 * WordHalf - 3 [] f = "POST_SCALE" -> 3 [] f = "POST_CFG" -> 4]
MCRam == [x \in 0 .. Depth - 1 |-> [lane \in 0 .. 3 |-> (37 * x + 91 * lane + 5 * x * lane + 11) % 256]]

Put(r, d) == [en |-> TRUE, reg |-> r, strb |-> {0, 1, 2, 3}, data |-> d, column |-> 0]
Start == Put("CTRL", 1)
MCWrites ==
  {Start, Put("M", 1), Put("TILE_N", 2), Put("POST_CFG", 35), Put("STATUS", 6),
   [Put("BIAS", 9000) EXCEPT !.column = 4]}
FarProgram == [MCProgram EXCEPT !["B_BASE"] = 4 * (Base + Depth)]
JustStart == {Start}
=============================================================================
