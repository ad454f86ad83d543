--------------------------- MODULE GemmController --------------------------
(***************************************************************************)
(* tiled_gemm_controller.sv: the scheduler and, in tiled_compute_chain.sv, *)
(* adapter and accumulator.  One step is one clock edge of all of them.    *)
(***************************************************************************)
EXTENDS Integers

CONSTANTS N, MaxK

VARIABLES
  sch,             \* tile_scheduler
  adp, vectors,    \* systolic_tile_adapter
  arr,             \* its array
  tac, sums        \* tile_accumulator

controllerVars == <<sch, adp, vectors, arr, tac, sums>>

Sch == INSTANCE TileScheduler WITH TileM <- N, TileN <- N, TileK <- MaxK
Adp == INSTANCE TileAdapter WITH KMax <- MaxK
Acc == INSTANCE TileAccumulator

ChainBusy == Adp!AdapterBusy \/ Acc!AccumulatorBusy
ControllerBusy == Sch!SchedulerBusy \/ ChainBusy
ControllerError == sch.error \/ adp.error

(* The scheduler and the side that prepares tiles agree on one: the chain *)
(* starts on it.  k_len is 16 bits wide; a and b are [valid, word].       *)
Launch(tileReady) == Sch!TileValid /\ tileReady

ChainClock(launch, a, b, cready) ==
  /\ Adp!AdapterClock(launch, Sch!Tile.kLen % 65536, a, b, Acc!InReady)
  /\ Acc!AccumulatorClock(launch, Sch!FirstK, Sch!LastK, Adp!CValid, Adp!CData, cready)

ControllerClock(start, d, tileReady, a, b, cready) ==
  /\ Sch!SchedulerClock(start, d, tileReady, tac.tileDone)
  /\ ChainClock(Launch(tileReady), a, b, cready)
=============================================================================
