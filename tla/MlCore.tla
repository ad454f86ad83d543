------------------------------- MODULE MlCore ------------------------------
(***************************************************************************)
(* tiled_ml_inference_core.sv: the controller and its compute chain with   *)
(* the requantizer ml_postprocess.sv behind them, between whoever prepares *)
(* the tiles, two operand streams and a sink, each of which may stall on   *)
(* any clock.                                                              *)
(***************************************************************************)
EXTENDS GemmController, Sequences

CONSTANTS
  WordHalf,   \* 2^31: half the range of a word
  Jobs        \* [d, a, b, post]: descriptor, bytes a[<<r, k>>] and b[<<k, c>>], requantization

VARIABLES
  post,       \* valid_out and data_out
  lastQ,      \* last_q
  job,        \* the latest job given, any before the first
  results,    \* INT8 results owed for what the accumulator has let go, oldest first
  taken       \* results the sink has taken, oldest first

ResetPostprocess == [valid |-> FALSE, data |-> 0]

(* The sum wraps in a word, the product does not: it has two. *)
Sum(acc, bias) == ((acc + bias + WordHalf) % (2 * WordHalf)) - WordHalf

(* p is [bias, scale, relu, shift]. *)
Requantized(acc, p) ==
  LET shifted == (Sum(acc, p.bias) * p.scale) \div 2^p.shift
  IN  IF p.relu /\ shifted < 0 THEN 0
      ELSE IF shifted > 127 THEN 127
      ELSE IF shifted < -128 THEN -128
      ELSE shifted

(* valid_out follows valid_in: nothing tells the block that its result was *)
(* taken.                                                                  *)
PostprocessClock(validIn, acc, p) ==
  post' = [valid |-> validIn, data |-> IF validIn THEN Requantized(acc, p) ELSE post.data]

-----------------------------------------------------------------------------
vars == <<controllerVars, post, lastQ, job, results, taken>>

Init ==
  /\ sch = Sch!ResetScheduler
  /\ adp = Adp!ResetAdapter /\ vectors = Adp!VectorBuffers(0)
  /\ arr = Adp!ResetArray
  /\ tac = Acc!ResetAccumulator /\ sums = [w \in 0 .. Acc!Words - 1 |-> 0]
  /\ post = ResetPostprocess /\ lastQ = FALSE
  /\ job \in Jobs
  /\ results = <<>> /\ taken = <<>>

AccReady(outReady) == ~post.valid \/ outReady
Accepted(outReady) == Acc!OutValid /\ AccReady(outReady)
OutLast == post.valid /\ lastQ

Core(start, tileReady, a, b, outReady) ==
  /\ ControllerClock(start, job'.d, tileReady, a, b, AccReady(outReady))
  /\ PostprocessClock(Accepted(outReady), IF Acc!OutValid THEN Acc!OutData ELSE 0, job.post)
  /\ lastQ' = IF Accepted(outReady) THEN Acc!OutLast ELSE lastQ

(* Vector w of the tile on hand: lane i of a row or a column, zero past the *)
(* edge of the matrix.                                                      *)
AWord ==
  [lane \in 0 .. 3 |->
    LET r == Sch!Tile.m + 4 * (adp.a % Adp!WordsPerRow) + lane
        k == Sch!Tile.k + adp.a \div Adp!WordsPerRow
    IN  IF r < job.d.m THEN job.a[<<r, k>>] ELSE 0]
BWord ==
  [lane \in 0 .. 3 |->
    LET c == Sch!Tile.n + 4 * (adp.b % Adp!WordsPerRow) + lane
        k == Sch!Tile.k + adp.b \div Adp!WordsPerRow
    IN  IF c < job.d.n THEN job.b[<<k, c>>] ELSE 0]

NoWord == [valid |-> FALSE, word |-> [lane \in 0 .. 3 |-> 0]]

Start == \E j \in Jobs :
  /\ ~ControllerBusy /\ ~post.valid
  /\ job' = j
  /\ Core(TRUE, FALSE, NoWord, NoWord, FALSE)
  /\ results' = <<>> /\ taken' = <<>>

Cycle(tile, a, b, sink) ==
  /\ a => Adp!AReady
  /\ b => Adp!BReady
  /\ sink => post.valid
  /\ UNCHANGED job
  /\ Core(FALSE, tile, IF a THEN [valid |-> TRUE, word |-> AWord] ELSE NoWord,
          IF b THEN [valid |-> TRUE, word |-> BWord] ELSE NoWord, sink)
  /\ results' = IF Accepted(sink) THEN Append(results, Requantized(Acc!OutData, job.post)) ELSE results
  /\ taken' = IF sink THEN Append(taken, post.data) ELSE taken

Next == Start \/ \E tile, a, b, sink \in BOOLEAN : Cycle(tile, a, b, sink)

Spec == Init /\ [][Next]_vars

-----------------------------------------------------------------------------
(* "`out_valid`, `out_ready`, and `out_last` form the result stream          *)
(* contract", docs/ml_inference_core.md:29: every result the accumulator has *)
(* let go has been taken by the sink, or is the one on offer.                *)
NoResultLost == results = taken \o (IF post.valid THEN <<post.data>> ELSE <<>>)
=============================================================================
