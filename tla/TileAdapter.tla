---------------------------- MODULE TileAdapter ----------------------------
(***************************************************************************)
(* systolic_tile_adapter.sv: loads the K vectors of one tile, runs the     *)
(* array over them and streams its N * N accumulators.  One step is one    *)
(* clock edge.  A word is its four signed bytes; the done output is not    *)
(* connected in tiled_compute_chain.sv.                                    *)
(***************************************************************************)
EXTENDS SystolicArray

CONSTANT KMax

VARIABLES
  adp,        \* state, k_q, a_count, b_count, feed_k, drain_count, c_count, error
  vectors     \* a_mem and b_mem

ResetAdapter ==
  [state |-> "IDLE", k |-> 0, a |-> 0, b |-> 0, feedK |-> 0, drain |-> 0, c |-> 0, error |-> FALSE]

WordsPerRow == N \div 4

(* The buffers have no reset. *)
VectorBuffers(x) ==
  LET words == [w \in 0 .. KMax * WordsPerRow - 1 |-> [lane \in 0 .. 3 |-> x]]
  IN  [a |-> words, b |-> words]

TotalWords == adp.k * WordsPerRow
AdapterBusy == adp.state # "IDLE"
AReady == adp.state = "LOAD" /\ adp.a < TotalWords
BReady == adp.state = "LOAD" /\ adp.b < TotalWords
CValid == adp.state = "OUTPUT"
CData == arr.acc[<<adp.c \div N, adp.c % N>>]

Fed(mem) ==
  [i \in Lanes |-> IF adp.state = "FEED" THEN mem[adp.feedK * WordsPerRow + i \div 4][i % 4] ELSE 0]

AdapterArray ==
  ArrayClock(adp.state \in {"FEED", "DRAIN"}, adp.state = "CLEAR", adp.state = "CLEAR",
             Fed(vectors.a), Fed(vectors.b))

AdapterIdle(start, kLen) ==
  /\ adp.state = "IDLE"
  /\ adp' = IF ~start THEN adp
            ELSE IF kLen \notin 1 .. KMax THEN [adp EXCEPT !.error = TRUE]
            ELSE [adp EXCEPT !.state = "LOAD", !.k = kLen, !.a = 0, !.b = 0, !.error = FALSE]
  /\ UNCHANGED vectors

(* a and b are [valid, word]. *)
AdapterLoad(a, b) ==
  /\ adp.state = "LOAD"
  /\ LET takeA == a.valid /\ AReady
         takeB == b.valid /\ BReady
         nextA == IF takeA THEN adp.a + 1 ELSE adp.a
         nextB == IF takeB THEN adp.b + 1 ELSE adp.b
     IN  /\ vectors' = [a |-> IF takeA THEN [vectors.a EXCEPT ![adp.a] = a.word] ELSE vectors.a,
                        b |-> IF takeB THEN [vectors.b EXCEPT ![adp.b] = b.word] ELSE vectors.b]
         /\ adp' = [adp EXCEPT !.a = nextA, !.b = nextB,
                               !.state = IF nextA >= TotalWords /\ nextB >= TotalWords
                                           THEN "CLEAR" ELSE @]

AdapterClear ==
  /\ adp.state = "CLEAR"
  /\ adp' = [adp EXCEPT !.feedK = 0, !.drain = 0, !.state = "FEED"]
  /\ UNCHANGED vectors

AdapterFeed ==
  /\ adp.state = "FEED"
  /\ adp' = IF adp.feedK = adp.k - 1 THEN [adp EXCEPT !.drain = 0, !.state = "DRAIN"]
            ELSE [adp EXCEPT !.feedK = @ + 1]
  /\ UNCHANGED vectors

DrainCycles == 2 * N - 1

AdapterDrain ==
  /\ adp.state = "DRAIN"
  /\ adp' = IF adp.drain = DrainCycles - 1 THEN [adp EXCEPT !.c = 0, !.state = "OUTPUT"]
            ELSE [adp EXCEPT !.drain = @ + 1]
  /\ UNCHANGED vectors

AdapterOutput(cready) ==
  /\ adp.state = "OUTPUT"
  /\ adp' = IF ~cready THEN adp
            ELSE IF adp.c = N * N - 1 THEN [adp EXCEPT !.state = "IDLE"]
            ELSE [adp EXCEPT !.c = @ + 1]
  /\ UNCHANGED vectors

AdapterClock(start, kLen, a, b, cready) ==
  /\ AdapterArray
  /\ \/ AdapterIdle(start, kLen) \/ AdapterLoad(a, b) \/ AdapterClear
     \/ AdapterFeed \/ AdapterDrain \/ AdapterOutput(cready)
=============================================================================
