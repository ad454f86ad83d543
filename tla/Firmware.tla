------------------------------ MODULE Firmware -----------------------------
(***************************************************************************)
(* accel_run() of soc/firmware/main.c on top of the shell: clear the       *)
(* events, load the bias vector, program the twelve fields, START, poll    *)
(* STATUS until BUSY is low and DONE or ERROR is up, flush the D-cache,    *)
(* read the counters, clear again, return.  The CPU takes any number of    *)
(* cycles between two accesses.                                            *)
(*                                                                         *)
(* The device beyond the shell is known by what it owes: when its C mover  *)
(* ends, the result of the job is in RAM, unless the job went wrong, as at *)
(* most MaxFaults jobs do: an engine reports an error, or nothing is       *)
(* written and nothing said.                                               *)
(***************************************************************************)
EXTENDS ShellChannel, FirmwareMemory

CONSTANT MaxFaults

ASSUME FirmwareAssumption == MaxFaults \in Nat

-----------------------------------------------------------------------------
(* dma_descriptor.h: its register writes, as the write port samples them.   *)
(* The platform stores whole words.                                         *)
DMA_BIAS_MAX == 64

(* accel_write(): no write of an uncached word is merged or repeated. *)
accel_write(reg, value) == [en |-> TRUE, reg |-> reg, strb |-> {0, 1, 2, 3}, data |-> value]

accel_dma_start(irq) == accel_write("CTRL", IF irq THEN 5 ELSE 1)
accel_dma_abort == accel_write("CTRL", 2)
accel_dma_clear_events == accel_write("STATUS", 6)

(* DMA_POST_OUTPUT_INT8, DMA_POST_SHIFT and DMA_POST_RELU. *)
PostCfg(shift, relu) == 2 + 4 * (shift % 64) + (IF relu THEN 1 ELSE 0)

(* The struct, and the order accel_dma_program() writes it in. *)
Descriptor(a, b, c, m, n, k, tileM, tileN, tileK, scale, cfg) ==
  [A_BASE |-> a, B_BASE |-> b, C_BASE |-> c, M |-> m, N |-> n, K |-> k,
   TILE_M |-> tileM, TILE_N |-> tileN, TILE_K |-> tileK,
   POST_BIAS |-> 0, POST_SCALE |-> scale, POST_CFG |-> cfg]

ProgramOrder ==
  <<"A_BASE", "B_BASE", "C_BASE", "M", "N", "K", "TILE_M", "TILE_N", "TILE_K",
    "POST_BIAS", "POST_SCALE", "POST_CFG">>

(* How many entries accel_dma_load_bias() writes for a layer of n columns. *)
BiasWrites(n) == IF n < DMA_BIAS_MAX THEN n ELSE DMA_BIAS_MAX

(* The MACs it reports of a job. *)
accel_dma_performance(d) == d["M"] * d["N"] * d["K"]

(* The loads of bias_vec do not reach the shell; nor do the counters. *)
DMA_BIAS_VEC == accel_write("UNMAPPED", 0)

-----------------------------------------------------------------------------
VARIABLES
  biasVec,  \* whose entry each bias register holds
  faults,   \* jobs gone wrong
  cpu       \* accel_run's frame: where it is, its arguments, the loop index,
            \* whether it returned -1, and what it read of the counters

softVars == <<desc, shell, eng, job, mem, biasVec, faults, cpu>>

Idler == [at |-> "idle", d |-> Reset.cfg, bias |-> "none", st |-> FALSE, probe |-> FALSE,
          next |-> 0, failed |-> FALSE, busySeen |-> FALSE, macs |-> 0]

DeviceInit ==
  /\ Init
  /\ mem = [ram |-> <<>>, cache |-> <<>>]
  /\ biasVec = [j \in 0 .. DMA_BIAS_MAX - 1 |-> "zero"]
  /\ faults = 0
  /\ cpu = Idler

(* The bias of a layer: one caller's vector, entry by entry, or a medley. *)
BiasUsed(c) ==
  LET entries == {biasVec[j] : j \in 0 .. c["N"] - 1}
  IN  IF c["POST_BIAS"] # 0 THEN "shifted"
      ELSE IF \E v \in entries : entries = {v} THEN CHOOSE v \in entries : TRUE
      ELSE "medley"

(* What a job computes from the RAM it finds. *)
Result(c) ==
  LET product == Gemm(InRam(mem, c["A_BASE"]), InRam(mem, c["B_BASE"]), c["M"], c["N"], c["K"])
  IN  IF ~Bit(c["POST_CFG"], 1) THEN product
      ELSE Requantized(product, BiasUsed(c), c["POST_SCALE"], (c["POST_CFG"] \div 4) % 64,
                       Bit(c["POST_CFG"], 0))

CEnds == eng["C"].busy /\ ~eng'["C"].busy
Fails == job'.failed /\ ~job.failed

(* One clock of the device, with m what the CPU has made of mem. *)
Device(w, m) ==
  /\ Cycle(w)
  /\ \E silent \in IF CEnds /\ ~job'.failed THEN BOOLEAN ELSE {FALSE} :
       /\ faults' = faults + (IF Fails \/ silent THEN 1 ELSE 0)
       /\ faults' <= MaxFaults
       /\ mem' = IF CEnds /\ ~job'.failed /\ ~silent
                   THEN Written(m, job.cfg["C_BASE"], Result(job.cfg)) ELSE m

Access(w) == Device(w, mem) /\ UNCHANGED biasVec

(* What a read of STATUS returns this cycle. *)
accel_dma_status == Status(DmaBusy(eng))

Compute == Access(Idle) /\ UNCHANGED cpu

(* A caller's step, which also says what the caller has made of memory. *)
Call(d, bias, st, m) ==
  /\ cpu.at = "idle"
  /\ Device(Idle, m)
  /\ cpu' = [Idler EXCEPT !.at = "clear", !.d = d, !.bias = bias, !.st = st]
  /\ UNCHANGED biasVec

Clear ==
  /\ cpu.at = "clear"
  /\ Access(accel_dma_clear_events)
  /\ cpu' = [cpu EXCEPT !.at = IF cpu.bias = "none" THEN "program" ELSE "bias"]

LoadBias ==
  /\ cpu.at = "bias"
  /\ IF cpu.next < BiasWrites(cpu.d["N"])
       THEN /\ Device(DMA_BIAS_VEC, mem)
            /\ biasVec' = IF DmaBusy(eng) THEN biasVec ELSE [biasVec EXCEPT ![cpu.next] = cpu.bias]
            /\ cpu' = [cpu EXCEPT !.next = @ + 1]
       ELSE /\ Access(Idle)
            /\ cpu' = [cpu EXCEPT !.at = "program", !.next = 0]

Program ==
  /\ cpu.at = "program"
  /\ LET f == ProgramOrder[cpu.next + 1] IN Access(accel_write(f, cpu.d[f]))
  /\ cpu' = IF cpu.next + 1 < Len(ProgramOrder) THEN [cpu EXCEPT !.next = @ + 1]
            ELSE [cpu EXCEPT !.next = 0, !.at = "start"]

StartJob ==
  /\ cpu.at = "start"
  /\ Access(accel_dma_start(FALSE))
  /\ cpu' = [cpu EXCEPT !.at = IF cpu.probe THEN "probe" ELSE "poll"]

BugStopsOnEvent(s) == ~(s.done \/ s.error)
BugStopsOnIdle(s) == s.busy

KeepPolling(s) == s.busy \/ ~(s.done \/ s.error)

(* After the last read the CPU drops what it has cached of C. *)
Poll ==
  /\ cpu.at = "poll"
  /\ UNCHANGED biasVec
  /\ LET s == accel_dma_status
     IN  IF KeepPolling(s)
           THEN Device(Idle, mem) /\ UNCHANGED cpu
           ELSE /\ Device(Idle, Flushed(mem))
                /\ cpu' = [cpu EXCEPT !.at = IF cpu.st THEN "counters" ELSE "clearAgain",
                                     !.failed = s.error]

(* accel_dma_performance(): the counters are those of the last START. *)
ReadCounters ==
  /\ cpu.at = "counters"
  /\ Access(Idle)
  /\ cpu' = [cpu EXCEPT !.at = "clearAgain",
                        !.macs = accel_dma_performance(job.cfg)]

ClearAgain ==
  /\ cpu.at = "clearAgain"
  /\ Access(accel_dma_clear_events)
  /\ cpu' = [cpu EXCEPT !.at = "return"]

AccelRun == Clear \/ LoadBias \/ Program \/ StartJob \/ Poll \/ ReadCounters \/ ClearAgain

-----------------------------------------------------------------------------
(* A call that has returned tells the truth of its own job: it is the one   *)
(* the caller described, no write of it refused by a busy shell, every      *)
(* engine has finished, and -1 means a refusal or a failed engine of it.    *)
ReturnExact ==
  cpu.at = "clearAgain" =>
    /\ job.verdict # "none" /\ job.cfg = cpu.d /\ job.running = {}
    /\ cpu.failed <=> (job.verdict = "rejected" \/ job.failed)

(* "Each accepted job raises DONE exactly once", for this software: no job  *)
(* is started before the last one has been reported.                        *)
EveryJobReportedHere ==
  [][Accepted /\ job.verdict = "accepted" => job.dones = 1]_softVars

(* A call whose operands can be read returns. *)
CallReturns == cpu.at = "poll" ~> (cpu.at = "return" \/ eng["A"].error \/ eng["B"].error)
=============================================================================
