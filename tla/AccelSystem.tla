---------------------------- MODULE AccelSystem ----------------------------
(***************************************************************************)
(* tiled_axi4_gemm_top.sv with its pipelined tiled_stream_gemm_top.sv, in  *)
(* front of axi_dma_mem_port.sv as soc/accel_soc.py connects them: the     *)
(* register port, the shell, three movers, the engine with its array, the  *)
(* INT8 packer and the RAM.  One step is one clock edge of all of them; w  *)
(* is the register write that edge samples, as in DmaDescriptor, with the  *)
(* column it addresses in w.column when w.reg is "BIAS".                   *)
(***************************************************************************)
EXTENDS Integers

CONSTANTS ArrayN, MaxM, MaxN, MaxK, MaxBurst, PageWords, AddrWords, Base, Depth,
          WordHalf,
          CounterWrap    \* 2^32: where PERF_ACTIVE wraps

VARIABLES desc, shell, ard, brd, cwr, arr, cfg, eng, out, mem, pack, rp, wp, ram, rdata,
  startQ,    \* tiled_stream_gemm_top: start_q and the descriptor latched with it
  outCol,    \* out_col_q
  bias,      \* bias_vec
  perf       \* perf_active_q, perf_mac_q and perf_tile_count_q

topVars == <<desc, shell, ard, brd, cwr, arr, cfg, eng, out, mem, pack, rp, wp, ram, rdata,
             startQ, outCol, bias, perf>>

Shell  == INSTANCE DmaShell
A      == INSTANCE ReadDma WITH rd <- ard
B      == INSTANCE ReadDma WITH rd <- brd
C      == INSTANCE WriteDma WITH wr <- cwr
Engine == INSTANCE GemmEngine WITH N <- ArrayN
Pack   == INSTANCE MlPacker
Port   == INSTANCE MemPort

NoJob == [q |-> FALSE, d |-> [m |-> 0, n |-> 0, k |-> 0, tm |-> 0, tn |-> 0, tk |-> 0]]

(* Registers out of reset; the engine's buffers hold x, the port's word. *)
TopReset(x, word) ==
  /\ shell = Shell!ResetShell
  /\ ard = A!Reset /\ brd = B!Reset /\ cwr = C!Reset
  /\ arr = Engine!ResetArray /\ cfg = Engine!ResetCfg /\ eng = Engine!ResetEngine
  /\ out = Engine!ResetOut /\ mem = Engine!Buffers(x)
  /\ pack = Pack!ResetPack
  /\ rp = Port!ResetReadSide(word) /\ wp = Port!ResetWriteSide
  /\ startQ = NoJob /\ outCol = 0 /\ bias = [c \in 0 .. MaxN - 1 |-> 0]
  /\ perf = [active |-> 0, macs |-> 0, tiles |-> 0]

(* The wires the shell watches. *)
ComputeBusy == Engine!EngineBusy \/ startQ.q

Wires ==
  [x \in Shell!Engines |->
    CASE x = "A" -> [busy |-> A!Busy, done |-> ard.done, error |-> ard.error]
      [] x = "B" -> [busy |-> B!Busy, done |-> brd.done, error |-> brd.error]
      [] x = "C" -> [busy |-> C!Busy, done |-> cwr.done, error |-> cwr.error]
      [] x = "X" -> [busy |-> ComputeBusy, done |-> eng.done, error |-> eng.error]]

JobBusy == Shell!DmaBusy(Wires)

(* A write to the bias window does not reach the shell. *)
BiasHit(w) == w.reg = "BIAS"
ShellWrite(w) == [w EXCEPT !.en = @ /\ ~BiasHit(w)]
JobStart(w) == Shell!Accept(ShellWrite(w), Wires)

(* Operand side: port to mover to engine. *)
ReadRequest(valid, addr, burst) == [valid |-> valid, addr |-> addr, len |-> burst - 1, plain |-> TRUE]
ARequest == ReadRequest(A!ArValid, ard.addr, A!NextBurst)
BRequest == ReadRequest(B!ArValid, brd.addr, B!NextBurst)
CRequest == ReadRequest(C!AwValid, cwr.addr, C!NextBurst)
AWord == [valid |-> A!StreamValid(Port!RValid(FALSE)), word |-> Port!RData]
BWord == [valid |-> B!StreamValid(Port!RValid(TRUE)), word |-> Port!RData]

(* Result side: engine, through the packer when the job asks for INT8. *)
Int8 == Shell!Int8Output

BytesOf(x) == [lane \in 0 .. 3 |-> Pack!ByteBits(x \div 256^lane)]

BugColumnOfM(c) == IF c + 1 >= desc.cfg["M"] THEN 0 ELSE c + 1

(* Output column of the next element: it wraps at N. *)
NextColumn(c) == IF c + 1 >= desc.cfg["N"] THEN 0 ELSE c + 1

Post ==
  [bias  |-> Pack!Signed(desc.cfg["POST_BIAS"] + bias[outCol]),
   scale |-> Pack!Signed(desc.cfg["POST_SCALE"]),
   relu  |-> Shell!Bit(desc.cfg["POST_CFG"], 0),
   shift |-> (desc.cfg["POST_CFG"] \div 4) % 64]

CReady == C!SReady(Port!WReady)
PackIn == [valid |-> Engine!COutValid /\ Int8, last |-> Engine!COutLast,
           data |-> IF Engine!COutValid THEN Engine!COutData ELSE 0]
RawReady == IF Int8 THEN Pack!InReady(CReady) ELSE CReady

CValid == IF Int8 THEN pack.valid ELSE Engine!COutValid
CLast == IF Int8 THEN Pack!OutLast ELSE Engine!COutLast
CData == IF Int8 THEN pack.word ELSE BytesOf(PackIn.data)
WriteBeat == [valid |-> C!WValid(CValid), data |-> CData, last |-> C!WLast]

(* One clock edge, block by block. *)
AClock(w) ==
  \/ A!Idle(JobStart(w), desc.cfg["A_BASE"] \div 4, Shell!AWords)
  \/ A!Address(Port!AReady(ARequest, BRequest))
  \/ A!Data(Port!RValid(FALSE), Port!ROk, Port!RLast, Engine!AInReady)
  \/ A!Drain(Port!RValid(FALSE), Port!RLast)

BClock(w) ==
  \/ B!Idle(JobStart(w), desc.cfg["B_BASE"] \div 4, Shell!BWords)
  \/ B!Address(Port!BReady(ARequest, BRequest))
  \/ B!Data(Port!RValid(TRUE), Port!ROk, Port!RLast, Engine!BInReady)
  \/ B!Drain(Port!RValid(TRUE), Port!RLast)

CClock(w) ==
  \/ C!Idle(JobStart(w), desc.cfg["C_BASE"] \div 4, Shell!CWords)
  \/ C!Address(Port!CReady(ARequest, BRequest, CRequest))
  \/ C!Data(CValid, CLast, Port!WReady)
  \/ C!Response(Port!BValid, Port!BOk)

StartClock(w) ==
  startQ' = IF JobStart(w) /\ ~ComputeBusy
              THEN [q |-> TRUE,
                    d |-> [m |-> desc.cfg["M"], n |-> desc.cfg["N"], k |-> desc.cfg["K"],
                           tm |-> desc.cfg["TILE_M"], tn |-> desc.cfg["TILE_N"],
                           tk |-> desc.cfg["TILE_K"]]]
              ELSE [startQ EXCEPT !.q = FALSE]

ColumnClock(w) ==
  outCol' = IF JobStart(w) THEN 0
            ELSE IF PackIn.valid /\ Pack!InReady(CReady) THEN NextColumn(outCol)
            ELSE outCol

(* The bias window is writable only while no job runs. *)
BiasClock(w) ==
  bias' = IF w.en /\ BiasHit(w) /\ ~JobBusy
            THEN [bias EXCEPT ![w.column] = Shell!Merge(@, w.data, w.strb)] ELSE bias

BugTilesFloor(dim, tile) == dim \div tile

Blocks(dim, tile) == (dim + tile - 1) \div tile

(* The counters: the job's size when it starts, then its busy cycles. *)
PerfClock(w) ==
  LET c == desc.cfg
  IN  perf' = IF JobStart(w)
                THEN [active |-> 0, macs |-> c["M"] * c["N"] * c["K"],
                      tiles  |-> Blocks(c["M"], c["TILE_M"]) * Blocks(c["N"], c["TILE_N"])
                                   * Blocks(c["K"], c["TILE_K"])]
              ELSE IF ComputeBusy THEN [perf EXCEPT !.active = (@ + 1) % CounterWrap]
              ELSE perf

TopClock(w) ==
  /\ Shell!ShellClock(ShellWrite(w), Wires)
  /\ AClock(w) /\ BClock(w) /\ CClock(w)
  /\ StartClock(w)
  /\ Engine!EngineClock(startQ.q, startQ.d, AWord, BWord, RawReady)
  /\ ColumnClock(w)
  /\ Pack!PackClock(PackIn, Post, CReady)
  /\ BiasClock(w)
  /\ PerfClock(w)
  /\ Port!Clock(ARequest, BRequest, CRequest, A!RReady(Engine!AInReady),
                B!RReady(Engine!BInReady), WriteBeat, C!BReady)
=============================================================================
