-------------------------- MODULE TileAccumulator --------------------------
(***************************************************************************)
(* tile_accumulator.sv: adds the partial tiles of one output tile over K   *)
(* and hands the sum on after the last.  One step is one clock edge.  Its  *)
(* error output is never raised, and its done is read by nobody.           *)
(***************************************************************************)
EXTENDS Integers

CONSTANT N

VARIABLES
  tac,     \* state, in_count, out_count, first_q, last_q, tile_done
  sums     \* acc_mem

ResetAccumulator ==
  [state |-> "IDLE", in |-> 0, out |-> 0, first |-> FALSE, last |-> FALSE, tileDone |-> FALSE]

Words == N * N

AccumulatorBusy == tac.state # "IDLE"
InReady == tac.state = "CONSUME"
OutValid == tac.state = "OUTPUT"
OutData == sums[tac.out]
OutLast == OutValid /\ tac.out = Words - 1

BugNeverOverwrites == sums[tac.in]

Prior == IF tac.first THEN 0 ELSE sums[tac.in]

Rest(startTile, first, last) ==
  /\ tac.state = "IDLE"
  /\ tac' = IF startTile THEN [tac EXCEPT !.state = "CONSUME", !.in = 0, !.first = first,
                                          !.last = last, !.tileDone = FALSE]
            ELSE [tac EXCEPT !.tileDone = FALSE]
  /\ UNCHANGED sums

LastIn == tac.in = Words - 1

Consume(valid, data) ==
  /\ tac.state = "CONSUME"
  /\ IF valid
       THEN /\ sums' = [sums EXCEPT ![tac.in] = Prior + data]
            /\ tac' = [tac EXCEPT !.in = IF LastIn THEN 0 ELSE @ + 1,
                                  !.out = IF LastIn /\ tac.last THEN 0 ELSE @,
                                  !.state = IF ~LastIn THEN @ ELSE IF tac.last THEN "OUTPUT" ELSE "IDLE",
                                  !.tileDone = LastIn /\ ~tac.last]
       ELSE tac' = [tac EXCEPT !.tileDone = FALSE] /\ UNCHANGED sums

Emit(outReady) ==
  /\ tac.state = "OUTPUT"
  /\ LET ends == outReady /\ tac.out = Words - 1
     IN  tac' = [tac EXCEPT !.out = IF ends THEN 0 ELSE IF outReady THEN @ + 1 ELSE @,
                            !.state = IF ends THEN "IDLE" ELSE @,
                            !.tileDone = ends]
  /\ UNCHANGED sums

AccumulatorClock(startTile, first, last, valid, data, outReady) ==
  Rest(startTile, first, last) \/ Consume(valid, data) \/ Emit(outReady)
=============================================================================
