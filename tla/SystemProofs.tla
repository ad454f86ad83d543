---------------------------- MODULE SystemProofs ----------------------------
(***************************************************************************)
(* The accelerator beside its RAM, for every array size, bound on shapes,  *)
(* burst length, page, RAM window and set of register writes: the tiles    *)
(* PERF_TILES counts are the tiles the engine computes, no word of the     *)
(* result is taken into the port while an operand is still on its way, and *)
(* a job that is over has left A * B, or its INT8 form, in C and nothing   *)
(* else anywhere.  Registers first, then the engine's walk over the tiles, *)
(* the movers and the memory port between them, and the data: buffers,     *)
(* array, elements of C, packer, words sent and RAM.                       *)
(***************************************************************************)
EXTENDS SystemBench, Arithmetic

LEMMA Constants ==
  /\ ArrayN \in Nat \ {0} /\ MaxM \in Nat \ {0} /\ MaxN \in Nat \ {0} /\ MaxK \in Nat \ {0}
  /\ MaxBurst \in Nat \ {0} /\ PageWords \in Nat \ {0} /\ AddrWords \in Nat \ {0}
  /\ Base \in Nat /\ Depth \in Nat \ {0} /\ Base + Depth <= AddrWords
  /\ WordHalf \in Nat \ {0} /\ CounterWrap \in Nat \ {0}
  BY SystemAssumption

(* Every register write, the empty one included, is a WriteType. *)
LEMMA WritesTyped ==
  ASSUME NEW w \in Writes \cup {NoWrite}
  PROVE  w \in WriteType
<1>1. 0 \in 0 .. MaxN - 1
  BY Constants
<1>2. NoWrite \in WriteType
  BY <1>1 DEF NoWrite, WriteType, Shell!Registers
<1>3. QED
  BY <1>2, SystemAssumption

-----------------------------------------------------------------------------
(* Registers. *)
Fields == Shell!Fields
ConfigType == [Fields -> Nat]

ReadRegs ==
  [state : {"IDLE", "AR", "R", "ERROR"}, addr : Int, remaining : Int, burst : Int, beats : Int,
   done : BOOLEAN, error : BOOLEAN]
WriteRegs ==
  [state : {"IDLE", "AW", "W", "B"}, addr : Int, remaining : Int, burst : Int, beats : Int,
   done : BOOLEAN, error : BOOLEAN]
EngineStates == {"IDLE", "LOAD", "CLEAR", "FEED", "DRAIN", "CAPTURE", "FLUSH_OUT"}
EngineRegs ==
  [state : EngineStates, a : Int, b : Int, m0 : Int, n0 : Int, feedK : Int, drain : Int,
   done : BOOLEAN, error : BOOLEAN]
Dims == [m : Int, n : Int, k : Int, tm : Int, tn : Int]
StartDims == [m : Int, n : Int, k : Int, tm : Int, tn : Int, tk : Int]

DescOK == desc.cfg \in ConfigType /\ desc.cfg["POST_CFG"] < 256
BiasOK == bias \in [0 .. MaxN - 1 -> Nat]
MoversOK == ard \in ReadRegs /\ brd \in ReadRegs /\ cwr \in WriteRegs
EngineOK == eng \in EngineRegs /\ cfg \in Dims /\ startQ \in [q : BOOLEAN, d : StartDims]
JobOK ==
  /\ DOMAIN job = {"given", "cfg", "ram", "bias", "tiles"}
  /\ job.given \in BOOLEAN /\ job.cfg \in ConfigType /\ job.cfg["POST_CFG"] < 256
  /\ job.bias \in [0 .. MaxN - 1 -> Nat] /\ job.tiles \in Int
PerfOK == perf \in [active : Int, macs : Int, tiles : Int]

RegsOK == DescOK /\ BiasOK /\ EngineOK /\ JobOK /\ PerfOK

(* Merging bytes keeps a register a natural number, one byte below 256. *)
LEMMA MergeTyped ==
  ASSUME NEW old \in Nat, NEW new \in Nat, NEW strb \in SUBSET (0 .. 3)
  PROVE  /\ Shell!Merge(old, new, strb) \in Nat
         /\ old < 256 => Shell!Merge(old, new, strb \cap {0}) < 256
<1>1. \A x \in Nat, i \in {0, 1, 2, 3} : Shell!ByteOf(x, i) \in 0 .. 255
  BY DEF Shell!ByteOf
<1>2. \A i \in {0, 1, 2, 3} : (IF i \in strb THEN new ELSE old) \in Nat
  OBVIOUS
<1>3. Shell!Merge(old, new, strb) \in Nat
  <2> DEFINE b(i) == Shell!ByteOf(IF i \in strb THEN new ELSE old, i)
  <2>1. ASSUME NEW i \in {0, 1, 2, 3}
        PROVE  b(i) \in Nat
    <3> DEFINE x == IF i \in strb THEN new ELSE old
    <3>1. x \in Nat
      OBVIOUS
    <3> HIDE DEF x
    <3>2. Shell!ByteOf(x, i) \in 0 .. 255
      BY <1>1, <3>1, Zenon
    <3> DEFINE y == Shell!ByteOf(x, i)
    <3>3. y = b(i)
      BY Zenon DEF x
    <3>4. y \in 0 .. 255
      BY <3>2
    <3> HIDE DEF y, b
    <3>5. QED
      BY <3>3, <3>4
  <2>2. Shell!Merge(old, new, strb) = 256^0 * b(0) + 256^1 * b(1) + 256^2 * b(2) + 256^3 * b(3)
    BY Zenon DEF Shell!Merge
  <2>3. 256^0 = 1 /\ 256^1 = 256 /\ 256^2 = 65536 /\ 256^3 = 16777216
    BY SMT
  <2> HIDE DEF b
  <2>4. b(0) \in Nat /\ b(1) \in Nat /\ b(2) \in Nat /\ b(3) \in Nat
    BY <2>1
  <2>5. QED
    BY <2>2, <2>3, <2>4, SMT
<1>4. ASSUME old < 256
      PROVE  Shell!Merge(old, new, strb \cap {0}) < 256
  <2>1. Shell!ByteOf(old, 1) = 0 /\ Shell!ByteOf(old, 2) = 0 /\ Shell!ByteOf(old, 3) = 0
    BY <1>4 DEF Shell!ByteOf
  <2>2. (IF 0 \in strb \cap {0} THEN new ELSE old) \in Nat
    OBVIOUS
  <2>3. Shell!ByteOf(IF 0 \in strb \cap {0} THEN new ELSE old, 0) \in 0 .. 255
    BY <1>1, <2>2
  <2>4. QED
    BY <2>1, <2>3 DEF Shell!Merge
<1>5. QED
  BY <1>3, <1>4

LEMMA DescKept ==
  ASSUME RegsOK, NEW w \in WriteType, Cycle(w)
  PROVE  DescOK'
<1> DEFINE v == ShellWrite(w)
<1>1. v.strb \in SUBSET (0 .. 3) /\ v.data \in Nat
  BY DEF ShellWrite, WriteType
<1> HIDE DEF v
<1>2. desc'.cfg = [f \in Fields |-> Shell!FieldNext(f, v, JobBusy)]
  BY DEF Cycle, TopClock, Shell!ShellClock, Shell!Clock, Fields, JobBusy, v
<1>3. desc.cfg \in [Fields -> Nat] /\ desc.cfg["POST_CFG"] < 256 /\ "POST_CFG" \in Fields
  BY DEF RegsOK, DescOK, ConfigType, Fields, Shell!Fields
<1>4. ASSUME NEW f \in Fields
      PROVE  /\ Shell!FieldNext(f, v, JobBusy) \in Nat
             /\ f = "POST_CFG" => Shell!FieldNext(f, v, JobBusy) < 256
  <2>1. v.strb \cap {0} \in SUBSET (0 .. 3)
    BY <1>1
  <2>2. desc.cfg[f] \in Nat /\ (f = "POST_CFG" => desc.cfg[f] < 256)
    BY <1>3
  <2>3. QED
    BY <1>1, <2>1, <2>2, MergeTyped DEF Shell!FieldNext
<1>5. QED
  BY <1>2, <1>3, <1>4 DEF DescOK, ConfigType

LEMMA BiasKept ==
  ASSUME RegsOK, NEW w \in WriteType, Cycle(w)
  PROVE  BiasOK'
<1>1. w.strb \in SUBSET (0 .. 3) /\ w.data \in Nat /\ w.column \in 0 .. MaxN - 1
  BY DEF WriteType
<1>2. bias \in [0 .. MaxN - 1 -> Nat]
  BY DEF RegsOK, BiasOK
<1>3. Shell!Merge(bias[w.column], w.data, w.strb) \in Nat
  BY <1>1, <1>2, MergeTyped
<1>4. QED
  BY <1>1, <1>2, <1>3 DEF BiasOK, Cycle, TopClock, BiasClock

(* The engine, state by state and field by field.                           *)
KeepsTile == eng'.m0 = eng.m0 /\ eng'.n0 = eng.n0
KeepsBuffers == cfg' = cfg /\ mem' = mem
Starts == startQ.q /\ ~Engine!BadCfg(startQ.d)
TakesA == AWord.valid /\ Engine!AInReady
TakesB == BWord.valid /\ Engine!BInReady
LoadEnds == Engine!LoadEnds(eng'.a, eng'.b)

IdleStep ==
  /\ mem' = mem
  /\ Starts =>
       /\ eng'.state = "LOAD" /\ eng'.a = 0 /\ eng'.b = 0 /\ out' = Engine!ResetOut
       /\ cfg' = [m |-> startQ.d.m, n |-> startQ.d.n, k |-> startQ.d.k, tm |-> startQ.d.tm,
                  tn |-> startQ.d.tn]
  /\ ~Starts => eng'.state = "IDLE" /\ cfg' = cfg /\ out' = out
LoadStep ==
  /\ cfg' = cfg /\ out' = out
  /\ eng'.a = eng.a + Engine!Taken(TakesA) /\ eng'.b = eng.b + Engine!Taken(TakesB)
  /\ ~LoadEnds => eng'.state = "LOAD"
  /\ LoadEnds => eng'.state = "CLEAR" /\ eng'.m0 = 0 /\ eng'.n0 = 0
  /\ mem' = [mem EXCEPT
       !.a = IF TakesA THEN Engine!Unpack(@, AWord.word, eng.a, cfg.m * cfg.k, cfg.k) ELSE @,
       !.b = IF TakesB THEN Engine!Unpack(@, BWord.word, eng.b, cfg.k * cfg.n, cfg.n) ELSE @]
ClearStep ==
  /\ KeepsTile /\ KeepsBuffers /\ out' = Engine!OutputSide(RawReady)
  /\ eng'.state = "FEED" /\ eng'.feedK = 0
FeedStep ==
  /\ KeepsTile /\ KeepsBuffers /\ out' = Engine!OutputSide(RawReady)
  /\ eng.feedK = cfg.k - 1 => eng'.state = "DRAIN" /\ eng'.drain = 0
  /\ eng.feedK # cfg.k - 1 => eng'.state = "FEED" /\ eng'.feedK = eng.feedK + 1
DrainStep ==
  /\ KeepsTile /\ KeepsBuffers /\ out' = Engine!OutputSide(RawReady)
  /\ eng.drain = Engine!DrainCycles - 1 => eng'.state = "CAPTURE"
  /\ eng.drain # Engine!DrainCycles - 1 => eng'.state = "DRAIN" /\ eng'.drain = eng.drain + 1
CaptureStep ==
  /\ cfg' = cfg /\ eng'.feedK = 0 /\ out' = Engine!RowsReady(Engine!OutputSide(RawReady))
  /\ ~Engine!LastNBlock =>
       eng'.state = "FEED" /\ eng'.m0 = eng.m0 /\ eng'.n0 = eng.n0 + Engine!TnLen
  /\ Engine!LastNBlock /\ ~Engine!LastMBlock =>
       eng'.state = "FEED" /\ eng'.m0 = eng.m0 + Engine!TmLen /\ eng'.n0 = 0
  /\ Engine!LastNBlock /\ Engine!LastMBlock => eng'.state = "FLUSH_OUT"
  /\ mem' = [mem EXCEPT !.c = [p \in DOMAIN @ |->
       IF p[1] - eng.m0 \in 0 .. Engine!TmLen - 1 /\ p[2] - eng.n0 \in 0 .. Engine!TnLen - 1
         THEN arr.acc[<<p[1] - eng.m0, p[2] - eng.n0>>] ELSE @[p]]]
FlushStep ==
  /\ KeepsBuffers /\ out' = Engine!OutputSide(RawReady)
  /\ eng'.state = IF Engine!FinalElement(RawReady) THEN "IDLE" ELSE "FLUSH_OUT"

EngineStep ==
  /\ eng' \in EngineRegs
  /\ eng.state = "IDLE" => IdleStep
  /\ eng.state = "LOAD" => LoadStep
  /\ eng.state = "CLEAR" => ClearStep
  /\ eng.state = "FEED" => FeedStep
  /\ eng.state = "DRAIN" => DrainStep
  /\ eng.state = "CAPTURE" => CaptureStep
  /\ eng.state = "FLUSH_OUT" => FlushStep

LEMMA EngineSteps ==
  ASSUME EngineOK, NEW w, Cycle(w)
  PROVE  EngineStep
<1>1. eng \in EngineRegs
  BY DEF EngineOK
<1>2. \/ Engine!Idle(startQ.q, startQ.d) \/ Engine!Load(AWord, BWord)
      \/ Engine!ClearArray(RawReady) \/ Engine!Feed(RawReady) \/ Engine!Drain(RawReady)
      \/ Engine!Capture(RawReady) \/ Engine!FlushOut(RawReady)
  BY Zenon DEF Cycle, TopClock, Engine!EngineClock
<1>3. CASE Engine!Idle(startQ.q, startQ.d)
  <2>1. eng.state = "IDLE"
    BY <1>3 DEF Engine!Idle
  <2> DEFINE zero == 0
             failed == eng.error \/ startQ.q
  <2>2. zero \in Int /\ failed \in BOOLEAN
    OBVIOUS
  <2>3. /\ mem' = mem
        /\ \/ /\ Starts /\ out' = Engine!ResetOut
              /\ eng' = [eng EXCEPT !.state = "LOAD", !.done = FALSE, !.a = zero, !.b = zero,
                                    !.error = FALSE]
              /\ cfg' = [m |-> startQ.d.m, n |-> startQ.d.n, k |-> startQ.d.k, tm |-> startQ.d.tm,
                         tn |-> startQ.d.tn]
           \/ /\ ~Starts /\ cfg' = cfg /\ out' = out
              /\ eng' = [eng EXCEPT !.state = "IDLE", !.done = FALSE, !.error = failed]
    <3>1. [eng EXCEPT !.state = "IDLE", !.done = FALSE].error = eng.error
      BY <1>1 DEF EngineRegs
    <3>2. QED
      BY <1>3, <3>1, Zenon DEF Engine!Idle, Engine!Goto, Starts
  <2> HIDE DEF zero, failed
  <2>4. /\ eng' \in EngineRegs
        /\ Starts => eng'.state = "LOAD" /\ eng'.a = zero /\ eng'.b = zero
        /\ ~Starts => eng'.state = "IDLE"
    BY <1>1, <2>2, <2>3 DEF EngineRegs, EngineStates
  <2>5. IdleStep
    BY <2>3, <2>4, Zenon DEF IdleStep, zero
  <2>6. QED
    BY <2>1, <2>4, <2>5 DEF EngineStep
<1>4. CASE Engine!Load(AWord, BWord)
  <2> DEFINE a == eng.a + Engine!Taken(TakesA)
             b == eng.b + Engine!Taken(TakesB)
             zero == 0
  <2>1. eng.state = "LOAD"
    BY <1>4 DEF Engine!Load
  <2>2. a \in Int /\ b \in Int /\ zero \in Int
    BY <1>1 DEF EngineRegs, Engine!Taken
  <2>3. /\ cfg' = cfg /\ out' = out
        /\ \/ ~Engine!LoadEnds(a, b) /\ eng' = [eng EXCEPT !.state = "LOAD", !.done = FALSE, !.a = a, !.b = b]
           \/ /\ Engine!LoadEnds(a, b)
              /\ eng' = [eng EXCEPT !.state = "CLEAR", !.done = FALSE, !.a = a, !.b = b, !.m0 = zero, !.n0 = zero]
        /\ mem' = [mem EXCEPT
             !.a = IF TakesA THEN Engine!Unpack(@, AWord.word, eng.a, cfg.m * cfg.k, cfg.k) ELSE @,
             !.b = IF TakesB THEN Engine!Unpack(@, BWord.word, eng.b, cfg.k * cfg.n, cfg.n) ELSE @]
    BY <1>4, Zenon DEF Engine!Load, Engine!Goto, TakesA, TakesB
  <2> HIDE DEF a, b, zero
  <2>4. /\ eng' \in EngineRegs /\ eng'.a = a /\ eng'.b = b
        /\ ~Engine!LoadEnds(a, b) => eng'.state = "LOAD"
        /\ Engine!LoadEnds(a, b) => eng'.state = "CLEAR" /\ eng'.m0 = zero /\ eng'.n0 = zero
    BY <1>1, <2>2, <2>3 DEF EngineRegs, EngineStates
  <2>5. LoadStep
    BY <2>3, <2>4, Zenon DEF LoadStep, LoadEnds, a, b, zero
  <2>6. QED
    BY <2>1, <2>4, <2>5 DEF EngineStep
<1>5. CASE Engine!ClearArray(RawReady)
  <2>1. eng.state = "CLEAR"
    BY <1>5 DEF Engine!ClearArray
  <2> DEFINE zero == 0
  <2>2. zero \in Int
    OBVIOUS
  <2>3. /\ KeepsBuffers /\ out' = Engine!OutputSide(RawReady)
        /\ eng' = [eng EXCEPT !.state = "FEED", !.done = FALSE, !.feedK = zero]
    BY <1>5, Zenon DEF Engine!ClearArray, Engine!Goto, KeepsBuffers
  <2> HIDE DEF zero
  <2>4. eng' \in EngineRegs /\ KeepsTile /\ eng'.state = "FEED" /\ eng'.feedK = zero
    BY <1>1, <2>2, <2>3 DEF EngineRegs, EngineStates, KeepsTile
  <2>5. ClearStep
    BY <2>3, <2>4, Zenon DEF ClearStep, zero
  <2>6. QED
    BY <2>1, <2>4, <2>5 DEF EngineStep
<1>6. CASE Engine!Feed(RawReady)
  <2> DEFINE next == eng.feedK + 1
             zero == 0
  <2>1. eng.state = "FEED"
    BY <1>6 DEF Engine!Feed
  <2>2. next \in Int /\ zero \in Int
    BY <1>1 DEF EngineRegs
  <2>3. /\ KeepsBuffers /\ out' = Engine!OutputSide(RawReady)
        /\ \/ eng.feedK = cfg.k - 1 /\ eng' = [eng EXCEPT !.state = "DRAIN", !.done = FALSE, !.drain = zero]
           \/ eng.feedK # cfg.k - 1 /\ eng' = [eng EXCEPT !.state = "FEED", !.done = FALSE, !.feedK = next]
    BY <1>6, Zenon DEF Engine!Feed, Engine!Goto, KeepsBuffers
  <2> HIDE DEF next, zero
  <2>4. /\ eng' \in EngineRegs /\ KeepsTile
        /\ eng.feedK = cfg.k - 1 => eng'.state = "DRAIN" /\ eng'.drain = zero
        /\ eng.feedK # cfg.k - 1 => eng'.state = "FEED" /\ eng'.feedK = next
    BY <1>1, <2>2, <2>3 DEF EngineRegs, EngineStates, KeepsTile
  <2>5. FeedStep
    BY <2>3, <2>4, Zenon DEF FeedStep, next, zero
  <2>6. QED
    BY <2>1, <2>4, <2>5 DEF EngineStep
<1>7. CASE Engine!Drain(RawReady)
  <2> DEFINE next == eng.drain + 1
             last == Engine!DrainCycles - 1
  <2>1. eng.state = "DRAIN"
    BY <1>7 DEF Engine!Drain
  <2>2. next \in Int
    BY <1>1 DEF EngineRegs
  <2>3. /\ KeepsBuffers /\ out' = Engine!OutputSide(RawReady)
        /\ \/ eng.drain = last /\ eng' = [eng EXCEPT !.state = "CAPTURE", !.done = FALSE]
           \/ eng.drain # last /\ eng' = [eng EXCEPT !.state = "DRAIN", !.done = FALSE, !.drain = next]
    BY <1>7, Zenon DEF Engine!Drain, Engine!Goto, KeepsBuffers
  <2> HIDE DEF next, last
  <2>4. /\ eng' \in EngineRegs /\ KeepsTile
        /\ eng.drain = last => eng'.state = "CAPTURE"
        /\ eng.drain # last => eng'.state = "DRAIN" /\ eng'.drain = next
    BY <1>1, <2>2, <2>3 DEF EngineRegs, EngineStates, KeepsTile
  <2>5. DrainStep
    BY <2>3, <2>4, Zenon DEF DrainStep, next, last
  <2>6. QED
    BY <2>1, <2>4, <2>5 DEF EngineStep
<1>8. CASE Engine!Capture(RawReady)
  <2> DEFINE column == eng.n0 + Engine!TnLen
             row == eng.m0 + Engine!TmLen
             zero == 0
  <2>1. eng.state = "CAPTURE"
    BY <1>8 DEF Engine!Capture
  <2>2. column \in Int /\ row \in Int /\ zero \in Int
    BY <1>1 DEF EngineOK, EngineRegs, Dims, Engine!TnLen, Engine!TmLen, Engine!Least
  <2>3. /\ cfg' = cfg /\ out' = Engine!RowsReady(Engine!OutputSide(RawReady))
        /\ \/ /\ ~Engine!LastNBlock
              /\ eng' = [eng EXCEPT !.state = "FEED", !.done = FALSE, !.feedK = zero, !.n0 = column]
           \/ /\ Engine!LastNBlock /\ ~Engine!LastMBlock
              /\ eng' = [eng EXCEPT !.state = "FEED", !.done = FALSE, !.feedK = zero, !.n0 = zero,
                                    !.m0 = row]
           \/ /\ Engine!LastNBlock /\ Engine!LastMBlock
              /\ eng' = [eng EXCEPT !.state = "FLUSH_OUT", !.done = FALSE, !.feedK = zero, !.n0 = zero]
        /\ mem' = [mem EXCEPT !.c = [p \in DOMAIN @ |->
             IF p[1] - eng.m0 \in 0 .. Engine!TmLen - 1 /\ p[2] - eng.n0 \in 0 .. Engine!TnLen - 1
               THEN arr.acc[<<p[1] - eng.m0, p[2] - eng.n0>>] ELSE @[p]]]
    BY <1>8, Zenon DEF Engine!Capture, Engine!NextTile, Engine!Goto
  <2> HIDE DEF column, row, zero
  <2>4. /\ eng' \in EngineRegs /\ eng'.feedK = zero
        /\ ~Engine!LastNBlock => eng'.state = "FEED" /\ eng'.m0 = eng.m0 /\ eng'.n0 = column
        /\ Engine!LastNBlock /\ ~Engine!LastMBlock =>
             eng'.state = "FEED" /\ eng'.m0 = row /\ eng'.n0 = zero
        /\ Engine!LastNBlock /\ Engine!LastMBlock => eng'.state = "FLUSH_OUT"
    BY <1>1, <2>2, <2>3 DEF EngineRegs, EngineStates
  <2>5. CaptureStep
    BY <2>3, <2>4, Zenon DEF CaptureStep, column, row, zero
  <2>6. QED
    BY <2>1, <2>4, <2>5 DEF EngineStep
<1>9. CASE Engine!FlushOut(RawReady)
  <2>1. eng.state = "FLUSH_OUT"
    BY <1>9 DEF Engine!FlushOut
  <2>2. eng' \in EngineRegs /\ FlushStep
    BY <1>1, <1>9 DEF Engine!FlushOut, Engine!Goto, EngineRegs, EngineStates, FlushStep, KeepsBuffers
  <2>3. QED
    BY <2>1, <2>2 DEF EngineStep
<1>10. QED
  BY <1>2, <1>3, <1>4, <1>5, <1>6, <1>7, <1>8, <1>9, Zenon

-----------------------------------------------------------------------------
(* The walk over the tiles: where the engine is in the job it was given,    *)
(* and how many tiles of it have been captured.                             *)

(* The dimensions a descriptor c gives, whether the engine can run it, and  *)
(* the tiles the counter of the registers makes of it.                      *)
ConfigDims(c) ==
  [m |-> c["M"], n |-> c["N"], k |-> c["K"], tm |-> c["TILE_M"], tn |-> c["TILE_N"],
   tk |-> c["TILE_K"]]
ConfigTiles(c) ==
  Blocks(c["M"], c["TILE_M"]) * Blocks(c["N"], c["TILE_N"]) * Blocks(c["K"], c["TILE_K"])

LegalConfig(c) ==
  /\ c["M"] \in 1 .. MaxM /\ c["N"] \in 1 .. MaxN /\ c["K"] \in 1 .. MaxK
  /\ c["TILE_M"] \in 1 .. ArrayN /\ c["TILE_M"] % 4 = 0
  /\ c["TILE_N"] \in 1 .. ArrayN /\ c["TILE_N"] % 4 = 0
  /\ c["TILE_K"] \in 1 .. MaxK

JobDims == ConfigDims(D)
JobLegal == LegalConfig(D)
EngineDims ==
  [m |-> D["M"], n |-> D["N"], k |-> D["K"], tm |-> D["TILE_M"], tn |-> D["TILE_N"]]

RowBlocks == Blocks(D["M"], D["TILE_M"])
ColumnBlocks == Blocks(D["N"], D["TILE_N"])

(* The engine works on tile number j of row i of the tiles. *)
AtTile(i, j) ==
  /\ eng.m0 = i * D["TILE_M"] /\ eng.m0 < D["M"]
  /\ eng.n0 = j * D["TILE_N"] /\ eng.n0 < D["N"]
  /\ job.tiles = i * ColumnBlocks + j

Walking == eng.state \in {"FEED", "DRAIN", "CAPTURE"}
Walked == eng.state = "FLUSH_OUT" \/ (job.given /\ ~startQ.q /\ eng.state = "IDLE")

JobKnown ==
  job.given =>
    /\ JobLegal
    /\ perf.tiles = ConfigTiles(D)
StartKnown ==
  startQ.q => eng.state = "IDLE" /\ job.given /\ job.tiles = 0 /\ startQ.d = JobDims
EngineKnown == eng.state # "IDLE" => ~startQ.q /\ job.given /\ cfg = EngineDims
TilesBegun == eng.state \in {"LOAD", "CLEAR"} => job.tiles = 0
TilesFirst == eng.state = "CLEAR" => eng.m0 = 0 /\ eng.n0 = 0
TilesWalked == Walking => \E i \in Nat, j \in Nat : AtTile(i, j)
TilesDone == Walked => job.tiles = RowBlocks * ColumnBlocks

Walk ==
  /\ JobKnown /\ StartKnown /\ EngineKnown
  /\ TilesBegun /\ TilesFirst /\ TilesWalked /\ TilesDone

(* An accepted START finds the engine at rest and a descriptor it can run.  *)
LEMMA StartLegal ==
  ASSUME RegsOK, NEW w, JobStart(w)
  PROVE  /\ ~JobBusy /\ ~ComputeBusy /\ LegalConfig(desc.cfg)
         /\ \A f \in {"A_BASE", "B_BASE", "C_BASE"} : desc.cfg[f] % 4 = 0
<1>1. ~JobBusy /\ Shell!Legal
  BY DEF JobStart, Shell!Accept, Shell!Start, Shell!DmaStart, JobBusy
<1>2. ~ComputeBusy
  <2>1. Wires["X"].busy = ComputeBusy
    BY DEF Wires, Shell!Engines
  <2>2. QED
    BY <1>1, <2>1 DEF JobBusy, Shell!DmaBusy, Shell!Engines
<1>3. desc.cfg \in [Fields -> Nat]
  BY DEF RegsOK, DescOK, ConfigType
<1>4. LegalConfig(desc.cfg)
  BY <1>1, <1>3, Constants DEF Shell!Legal, Shell!TileOK, Shell!DimOK, Shell!Cfg, LegalConfig, Fields,
     Shell!Fields
<1>5. \A f \in {"A_BASE", "B_BASE", "C_BASE"} : desc.cfg[f] % 4 = 0
  BY <1>1 DEF Shell!Legal, Shell!Cfg
<1>6. QED
  BY <1>1, <1>2, <1>4, <1>5

(* What a START begins, and what any other cycle leaves of a job. *)
StartStep(w) ==
  /\ JobStart(w) =>
       /\ startQ' = [q |-> TRUE, d |-> ConfigDims(desc.cfg)]
       /\ job' = [given |-> TRUE, cfg |-> desc.cfg, ram |-> ram, bias |-> bias, tiles |-> 0]
       /\ perf'.tiles = ConfigTiles(desc.cfg)
  /\ ~JobStart(w) =>
       /\ startQ'.q = FALSE /\ perf'.tiles = perf.tiles
       /\ job'.given = job.given /\ job'.cfg = job.cfg /\ job'.ram = job.ram /\ job'.bias = job.bias
       /\ job'.tiles = job.tiles + (IF eng.state = "CAPTURE" THEN 1 ELSE 0)

LEMMA BlocksTyped ==
  ASSUME NEW dim \in Nat, NEW tile \in Nat \ {0}
  PROVE  Blocks(dim, tile) \in Nat
<1>1. dim + tile - 1 \in Nat
  OBVIOUS
<1>2. QED
  BY <1>1, Division DEF Blocks

LEMMA LegalNats ==
  ASSUME NEW c \in ConfigType, LegalConfig(c)
  PROVE  /\ c["M"] \in Nat \ {0} /\ c["N"] \in Nat \ {0} /\ c["K"] \in Nat \ {0}
         /\ c["TILE_M"] \in Nat \ {0} /\ c["TILE_N"] \in Nat \ {0} /\ c["TILE_K"] \in Nat \ {0}
  BY Constants DEF ConfigType, Fields, Shell!Fields, LegalConfig

LEMMA ConfigTyped ==
  ASSUME NEW c \in ConfigType, LegalConfig(c)
  PROVE  /\ ConfigDims(c) \in StartDims
         /\ ConfigTiles(c) \in Nat
         /\ c["M"] * c["N"] * c["K"] \in Nat
<1>1. /\ c["M"] \in Nat /\ c["N"] \in Nat /\ c["K"] \in Nat
      /\ c["TILE_M"] \in Nat \ {0} /\ c["TILE_N"] \in Nat \ {0} /\ c["TILE_K"] \in Nat \ {0}
  BY LegalNats
<1>2. ConfigDims(c) \in StartDims
  BY <1>1 DEF ConfigDims, StartDims
<1>3. /\ Blocks(c["M"], c["TILE_M"]) \in Nat /\ Blocks(c["N"], c["TILE_N"]) \in Nat
      /\ Blocks(c["K"], c["TILE_K"]) \in Nat
  BY <1>1, BlocksTyped
<1>4. \A x \in Nat, y \in Nat : x * y \in Nat
  BY SMT
<1>5. ConfigTiles(c) \in Nat
  BY <1>3, <1>4, Zenon DEF ConfigTiles
<1>6. c["M"] * c["N"] * c["K"] \in Nat
  BY <1>1, <1>4
<1>7. QED
  BY <1>2, <1>5, <1>6

LEMMA StartSteps ==
  ASSUME RegsOK, NEW w, Cycle(w)
  PROVE  StartStep(w) /\ JobOK' /\ PerfOK' /\ startQ' \in [q : BOOLEAN, d : StartDims]
<1>1. /\ desc.cfg \in ConfigType /\ desc.cfg["POST_CFG"] < 256
      /\ startQ \in [q : BOOLEAN, d : StartDims]
      /\ perf \in [active : Int, macs : Int, tiles : Int]
      /\ bias \in [0 .. MaxN - 1 -> Nat]
  BY DEF RegsOK, DescOK, EngineOK, PerfOK, BiasOK
<1>2. CASE JobStart(w)
  <2> DEFINE dims == ConfigDims(desc.cfg)
             macs == desc.cfg["M"] * desc.cfg["N"] * desc.cfg["K"]
             tiles == ConfigTiles(desc.cfg)
             zero == 0
  <2>1. ~ComputeBusy /\ dims \in StartDims /\ tiles \in Int /\ macs \in Int /\ zero \in Int
    BY <1>1, <1>2, StartLegal, ConfigTyped
  <2>2. /\ startQ' = [q |-> TRUE, d |-> dims]
        /\ job' = [given |-> TRUE, cfg |-> desc.cfg, ram |-> ram, bias |-> bias, tiles |-> zero]
        /\ perf' = [active |-> zero, macs |-> macs, tiles |-> tiles]
    BY <1>2, <2>1 DEF Cycle, TopClock, StartClock, PerfClock, ConfigDims, ConfigTiles
  <2> HIDE DEF dims, macs, tiles, zero
  <2>3. JobOK' /\ PerfOK' /\ startQ' \in [q : BOOLEAN, d : StartDims] /\ perf'.tiles = tiles
    BY <1>1, <2>1, <2>2 DEF JobOK, PerfOK
  <2>4. StartStep(w)
    BY <1>2, <2>2, <2>3 DEF StartStep, dims, tiles, zero
  <2>5. QED
    BY <2>3, <2>4
<1>3. CASE ~JobStart(w)
  <2> DEFINE more == job.tiles + (IF eng.state = "CAPTURE" THEN 1 ELSE 0)
             active == (perf.active + 1) % CounterWrap
  <2>1. JobOK
    BY DEF RegsOK
  <2>2. more \in Int
    BY <2>1 DEF JobOK
  <2>3. active \in Int
    <3>1. perf.active + 1 \in Int
      BY <1>1
    <3>2. QED
      BY <3>1, Constants, ModuloRangeInt
  <2>4. startQ' = [startQ EXCEPT !.q = FALSE]
    BY <1>3 DEF Cycle, TopClock, StartClock
  <2>5. perf' = [perf EXCEPT !.active = active] \/ perf' = perf
    BY <1>3 DEF Cycle, TopClock, PerfClock
  <2>6. \/ eng.state = "CAPTURE" /\ job' = [job EXCEPT !.tiles = more]
        \/ eng.state # "CAPTURE" /\ job' = job /\ more = job.tiles
    <3>1. eng.state = "CAPTURE" => job' = [job EXCEPT !.tiles = @ + 1] /\ more = job.tiles + 1
      BY <1>3 DEF Cycle
    <3>2. eng.state # "CAPTURE" => job' = job /\ more = job.tiles
      BY <1>3, <2>1 DEF Cycle, JobOK
    <3>3. QED
      BY <3>1, <3>2, Zenon
  <2> HIDE DEF more, active
  <2>7. /\ JobOK' /\ job'.given = job.given /\ job'.cfg = job.cfg /\ job'.ram = job.ram
        /\ job'.bias = job.bias /\ job'.tiles = more
    BY <2>1, <2>2, <2>6 DEF JobOK
  <2>8. PerfOK' /\ perf'.tiles = perf.tiles
    BY <1>1, <2>3, <2>5 DEF PerfOK
  <2>9. startQ' \in [q : BOOLEAN, d : StartDims] /\ startQ'.q = FALSE
    BY <1>1, <2>4
  <2>10. QED
    BY <1>3, <2>7, <2>8, <2>9 DEF StartStep, more
<1>4. QED
  BY <1>2, <1>3

LEMMA RegsInit == Init => RegsOK
<1> SUFFICES ASSUME Init
             PROVE  RegsOK
  OBVIOUS
<1> DEFINE zero == 0
<1>1. zero \in Int /\ zero \in Nat
  OBVIOUS
<1>2. Program \in ConfigType /\ Program["POST_CFG"] < 256
  BY SystemAssumption DEF ConfigType, Fields
<1>3. desc.cfg = Program
  BY DEF Init, Shell!Reset
<1>4. bias = [c \in 0 .. MaxN - 1 |-> 0]
  BY DEF Init, TopReset
<1>5. /\ eng = [state |-> "IDLE", a |-> zero, b |-> zero, m0 |-> zero, n0 |-> zero, feedK |-> zero,
                drain |-> zero, done |-> FALSE, error |-> FALSE]
      /\ cfg = [m |-> zero, n |-> zero, k |-> zero, tm |-> zero, tn |-> zero]
      /\ startQ = [q |-> FALSE, d |-> [m |-> zero, n |-> zero, k |-> zero, tm |-> zero, tn |-> zero,
                                       tk |-> zero]]
      /\ perf = [active |-> zero, macs |-> zero, tiles |-> zero]
      /\ job = [given |-> FALSE, cfg |-> Program, ram |-> InitRam, bias |-> bias, tiles |-> zero]
  BY DEF Init, TopReset, Engine!ResetEngine, Engine!ResetCfg, NoJob
<1> HIDE DEF zero
<1>6. EngineOK
  BY <1>1, <1>5 DEF EngineOK, EngineRegs, EngineStates, Dims, StartDims
<1>7. BiasOK
  BY <1>4 DEF BiasOK
<1>8. JobOK
  BY <1>1, <1>2, <1>5, <1>7 DEF JobOK, BiasOK
<1>9. PerfOK
  BY <1>1, <1>5 DEF PerfOK
<1>10. QED
  BY <1>2, <1>3, <1>6, <1>7, <1>8, <1>9 DEF RegsOK, DescOK

LEMMA CfgKept ==
  ASSUME RegsOK, NEW w, Cycle(w)
  PROVE  cfg' \in Dims
<1>1. EngineStep /\ eng.state \in EngineStates /\ cfg \in Dims /\ startQ.d \in StartDims
  BY EngineSteps DEF RegsOK, EngineOK, EngineRegs
<1>2. CASE eng.state = "IDLE"
  BY <1>1, <1>2 DEF EngineStep, IdleStep, Dims, StartDims
<1>3. CASE eng.state # "IDLE"
  BY <1>1, <1>3 DEF EngineStep, EngineStates, LoadStep, ClearStep, FeedStep, DrainStep, CaptureStep,
     FlushStep, KeepsBuffers
<1>4. QED
  BY <1>2, <1>3

LEMMA RegsStep == RegsOK /\ [Next]_vars => RegsOK'
<1> SUFFICES ASSUME RegsOK, [Next]_vars
             PROVE  RegsOK'
  OBVIOUS
<1>1. CASE Next
  <2>1. PICK w \in Writes \cup {NoWrite} : Cycle(w)
    BY <1>1 DEF Next
  <2>2. w \in WriteType
    BY WritesTyped
  <2>3. DescOK' /\ BiasOK'
    BY <2>1, <2>2, DescKept, BiasKept
  <2>4. JobOK' /\ PerfOK' /\ startQ' \in [q : BOOLEAN, d : StartDims]
    BY <2>1, StartSteps
  <2>5. cfg' \in Dims
    BY <2>1, CfgKept
  <2>6. eng' \in EngineRegs
    BY <2>1, EngineSteps DEF RegsOK, EngineStep
  <2>7. QED
    BY <2>3, <2>4, <2>5, <2>6 DEF RegsOK, EngineOK
<1>2. CASE UNCHANGED vars
  BY <1>2 DEF vars, topVars, RegsOK, DescOK, BiasOK, EngineOK, JobOK, PerfOK
<1>3. QED
  BY <1>1, <1>2

(* How many tiles of size t cover n, when the last one begins at j * t.     *)
LEMMA BlocksAt ==
  ASSUME NEW n \in Nat \ {0}, NEW t \in Nat \ {0}, NEW j \in Nat, j * t < n, n <= j * t + t
  PROVE  Blocks(n, t) = j + 1
<1>1. j * t \in Nat /\ t * (j + 1) = j * t + t
  BY Z3
<1>2. n - j * t - 1 \in 0 .. t - 1 /\ n + t - 1 = t * (j + 1) + (n - j * t - 1)
  BY <1>1
<1>3. j + 1 \in Int
  OBVIOUS
<1>4. QED
  BY <1>2, <1>3, QuotientUnique DEF Blocks

LEMMA WalkInit == Init => Walk
  BY DEF Init, TopReset, Engine!ResetEngine, NoJob, Walk, JobKnown, StartKnown, EngineKnown,
     TilesBegun, TilesFirst, TilesWalked, TilesDone, Walking, Walked

LEMMA LegalTyped ==
  ASSUME RegsOK, JobLegal
  PROVE  /\ D["M"] \in Nat \ {0} /\ D["N"] \in Nat \ {0} /\ D["K"] \in Nat \ {0}
         /\ D["TILE_M"] \in Nat \ {0} /\ D["TILE_N"] \in Nat \ {0} /\ D["TILE_K"] \in Nat \ {0}
         /\ RowBlocks \in Nat /\ ColumnBlocks \in Nat /\ Blocks(D["K"], D["TILE_K"]) \in Nat
<1>1. /\ D["M"] \in Nat \ {0} /\ D["N"] \in Nat \ {0} /\ D["K"] \in Nat \ {0}
      /\ D["TILE_M"] \in Nat \ {0} /\ D["TILE_N"] \in Nat \ {0} /\ D["TILE_K"] \in Nat \ {0}
  <2>1. job.cfg \in ConfigType /\ LegalConfig(job.cfg)
    BY DEF RegsOK, JobOK, JobLegal, D
  <2>2. QED
    BY <2>1, LegalNats DEF D
<1>2. QED
  BY <1>1, BlocksTyped DEF RowBlocks, ColumnBlocks

(* A job the engine accepts is one it is able to run. *)
LEMMA NotBad ==
  ASSUME RegsOK, JobLegal, startQ.d = JobDims
  PROVE  ~Engine!BadCfg(startQ.d)
  BY DEF JobLegal, LegalConfig, JobDims, ConfigDims, Engine!BadCfg, Engine!TileFits

(* A cycle that accepts no START keeps what is known of the job. *)
LEMMA WalkQuiet ==
  ASSUME RegsOK, Walk, NEW w, Cycle(w), ~JobStart(w)
  PROVE  /\ D' = D /\ job'.given = job.given /\ (job.given => JobLegal') /\ JobKnown'
         /\ ~startQ.q' /\ StartKnown'
         /\ job'.tiles = job.tiles + (IF eng.state = "CAPTURE" THEN 1 ELSE 0)
<1>1. StartStep(w)
  BY StartSteps
<1>2. /\ startQ'.q = FALSE /\ perf'.tiles = perf.tiles
      /\ job'.given = job.given /\ job'.cfg = job.cfg
      /\ job'.tiles = job.tiles + (IF eng.state = "CAPTURE" THEN 1 ELSE 0)
  BY <1>1 DEF StartStep
<1>3. D' = D
  BY <1>2 DEF D
<1>4. JobKnown
  BY DEF Walk
<1>5. job.given => JobLegal'
  BY <1>3, <1>4, Zenon DEF JobKnown, JobLegal, LegalConfig
<1>6. JobKnown'
  BY <1>2, <1>3, <1>4, Zenon DEF JobKnown, JobLegal, LegalConfig, ConfigTiles, Blocks
<1>7. QED
  BY <1>2, <1>3, <1>5, <1>6 DEF StartKnown

LEMMA WalkStarts ==
  ASSUME RegsOK, Walk, NEW w, Cycle(w), JobStart(w)
  PROVE  Walk'
<1>1. ~ComputeBusy /\ LegalConfig(desc.cfg)
  BY StartLegal
<1>2. eng.state = "IDLE" /\ ~startQ.q
  BY <1>1 DEF ComputeBusy, Engine!EngineBusy
<1>3. StartStep(w) /\ EngineStep
  BY StartSteps, EngineSteps DEF RegsOK
<1>4. /\ startQ' = [q |-> TRUE, d |-> ConfigDims(desc.cfg)]
      /\ job'.given = TRUE /\ job'.cfg = desc.cfg /\ job'.tiles = 0
      /\ perf'.tiles = ConfigTiles(desc.cfg)
  BY <1>3 DEF StartStep
<1>5. eng'.state = "IDLE"
  BY <1>2, <1>3 DEF EngineStep, IdleStep, Starts
<1>6. D' = desc.cfg
  BY <1>4 DEF D
<1>7. JobKnown'
  BY <1>1, <1>4, <1>6, Zenon DEF JobKnown, JobLegal, LegalConfig, ConfigTiles, Blocks
<1>8. startQ'.d = JobDims' /\ startQ'.q
  BY <1>4, <1>6, Zenon DEF ConfigDims, JobDims
<1>9. StartKnown'
  BY <1>4, <1>5, <1>8 DEF StartKnown
<1>10. QED
  BY <1>5, <1>7, <1>8, <1>9 DEF Walk, EngineKnown, TilesBegun, TilesFirst, TilesWalked, TilesDone,
     Walking, Walked

LEMMA WalkIdle ==
  ASSUME RegsOK, Walk, NEW w, Cycle(w), ~JobStart(w), eng.state = "IDLE"
  PROVE  Walk'
<1>1. IdleStep
  BY EngineSteps DEF RegsOK, EngineStep
<1>2. /\ D' = D /\ job'.given = job.given /\ JobKnown' /\ ~startQ.q' /\ StartKnown'
      /\ job'.tiles = job.tiles
  <2>1. job.tiles \in Int
    BY DEF RegsOK, JobOK
  <2>2. QED
    BY <2>1, WalkQuiet
<1>3. CASE startQ.q
  <2>1. job.given /\ job.tiles = 0 /\ startQ.d = JobDims
    BY <1>3 DEF Walk, StartKnown
  <2>2. JobLegal
    BY <2>1 DEF Walk, JobKnown
  <2>3. Starts
    BY <1>3, <2>1, <2>2, NotBad DEF Starts
  <2>4. /\ eng'.state = "LOAD"
        /\ cfg' = [m |-> startQ.d.m, n |-> startQ.d.n, k |-> startQ.d.k, tm |-> startQ.d.tm,
                   tn |-> startQ.d.tn]
    BY <1>1, <2>3 DEF IdleStep
  <2>5. cfg' = EngineDims'
    BY <1>2, <2>1, <2>4 DEF JobDims, ConfigDims, EngineDims
  <2>6. QED
    BY <1>2, <2>1, <2>4, <2>5 DEF Walk, EngineKnown, TilesBegun, TilesFirst, TilesWalked, TilesDone,
       Walking, Walked
<1>4. CASE ~startQ.q
  <2>1. eng'.state = "IDLE"
    BY <1>1, <1>4 DEF IdleStep, Starts
  <2>2. TilesDone'
    <3>1. job.given => job.tiles = RowBlocks * ColumnBlocks
      BY <1>4 DEF Walk, TilesDone, Walked
    <3>2. QED
      BY <1>2, <2>1, <3>1 DEF TilesDone, Walked, RowBlocks, ColumnBlocks, Blocks
  <2>3. QED
    BY <1>2, <2>1, <2>2 DEF Walk, EngineKnown, TilesBegun, TilesFirst, TilesWalked, Walking
<1>5. QED
  BY <1>3, <1>4

(* While the engine runs, its registers and the job agree. *)
LEMMA WalkBusy ==
  ASSUME RegsOK, Walk, NEW w, Cycle(w), eng.state # "IDLE"
  PROVE  /\ ~JobStart(w) /\ job.given /\ JobLegal /\ cfg = EngineDims
         /\ D' = D /\ cfg' = cfg /\ JobKnown' /\ StartKnown' /\ ~startQ.q' /\ EngineKnown'
         /\ job'.given = job.given
         /\ job'.tiles = job.tiles + (IF eng.state = "CAPTURE" THEN 1 ELSE 0)
<1>1. ~JobStart(w)
  BY StartLegal DEF ComputeBusy, Engine!EngineBusy
<1>2. job.given /\ cfg = EngineDims
  BY DEF Walk, EngineKnown
<1>3. JobLegal
  BY <1>2 DEF Walk, JobKnown
<1>4. /\ D' = D /\ job'.given = job.given /\ JobKnown' /\ ~startQ.q' /\ StartKnown'
      /\ job'.tiles = job.tiles + (IF eng.state = "CAPTURE" THEN 1 ELSE 0)
  BY <1>1, WalkQuiet
<1>5. eng.state \in EngineStates /\ EngineStep
  BY EngineSteps DEF RegsOK, EngineOK, EngineRegs
<1>6. cfg' = cfg
  BY <1>5 DEF EngineStep, EngineStates, LoadStep, ClearStep, FeedStep, DrainStep, CaptureStep, FlushStep,
     KeepsBuffers
<1>7. EngineKnown'
  BY <1>2, <1>4, <1>6 DEF EngineKnown, EngineDims
<1>8. QED
  BY <1>1, <1>2, <1>3, <1>4, <1>6, <1>7

LEMMA WalkLoad ==
  ASSUME RegsOK, Walk, NEW w, Cycle(w), eng.state \in {"LOAD", "CLEAR"}
  PROVE  Walk'
<1>1. EngineStep
  BY EngineSteps DEF RegsOK
<1>2. /\ JobLegal /\ D' = D /\ JobKnown' /\ StartKnown' /\ ~startQ.q' /\ EngineKnown'
      /\ job'.tiles = job.tiles
  <2>1. job.tiles \in Int
    BY DEF RegsOK, JobOK
  <2>2. QED
    BY <2>1, WalkBusy
<1>3. job.tiles = 0
  BY DEF Walk, TilesBegun
<1>4. CASE eng.state = "LOAD"
  <2>1. \/ eng'.state = "LOAD"
        \/ eng'.state = "CLEAR" /\ eng'.m0 = 0 /\ eng'.n0 = 0
    BY <1>1, <1>4 DEF EngineStep, LoadStep
  <2>2. QED
    BY <1>2, <1>3, <2>1 DEF Walk, TilesBegun, TilesFirst, TilesWalked, TilesDone, Walking, Walked
<1>5. CASE eng.state = "CLEAR"
  <2>1. eng'.state = "FEED" /\ eng'.m0 = 0 /\ eng'.n0 = 0
    BY <1>1, <1>5 DEF EngineStep, ClearStep, KeepsTile, Walk, TilesFirst
  <2>2. AtTile(0, 0)'
    <3>1. /\ D["M"] > 0 /\ D["N"] > 0 /\ D["TILE_M"] \in Nat /\ D["TILE_N"] \in Nat /\ ColumnBlocks \in Nat
      BY <1>2, LegalTyped
    <3>2. 0 = 0 * D["TILE_M"] /\ 0 = 0 * D["TILE_N"] /\ 0 = 0 * ColumnBlocks + 0
      BY <3>1
    <3>3. ColumnBlocks' = ColumnBlocks
      BY <1>2 DEF ColumnBlocks, Blocks
    <3>4. QED
      BY <1>2, <1>3, <2>1, <3>1, <3>2, <3>3 DEF AtTile
  <2>3. TilesWalked'
    <3>1. 0 \in Nat
      OBVIOUS
    <3>2. QED
      BY <2>2, <3>1, Zenon DEF TilesWalked
  <2>4. QED
    BY <1>2, <2>1, <2>3 DEF Walk, TilesBegun, TilesFirst, TilesDone, Walked
<1>6. QED
  BY <1>4, <1>5

LEMMA WalkFeed ==
  ASSUME RegsOK, Walk, NEW w, Cycle(w), eng.state \in {"FEED", "DRAIN"}
  PROVE  Walk'
<1>1. EngineStep
  BY EngineSteps DEF RegsOK
<1>2. /\ D' = D /\ JobKnown' /\ StartKnown' /\ ~startQ.q' /\ EngineKnown'
      /\ job'.tiles = job.tiles
  <2>1. job.tiles \in Int
    BY DEF RegsOK, JobOK
  <2>2. QED
    BY <2>1, WalkBusy
<1>3. Walking' /\ eng'.m0 = eng.m0 /\ eng'.n0 = eng.n0
  BY <1>1 DEF EngineStep, FeedStep, DrainStep, KeepsTile, Walking
<1>4. PICK i \in Nat, j \in Nat : AtTile(i, j)
  BY DEF Walk, TilesWalked, Walking
<1>5. AtTile(i, j)'
  BY <1>2, <1>3, <1>4 DEF AtTile, ColumnBlocks, Blocks
<1>6. TilesWalked'
  BY <1>5, Zenon DEF TilesWalked
<1>7. QED
  BY <1>2, <1>3, <1>6 DEF Walk, TilesBegun, TilesFirst, TilesDone, Walking, Walked

(* The tile at at is the last of dim when no whole tile fits behind it.     *)
LEMMA BlockEnds ==
  ASSUME NEW dim \in Nat, NEW at \in Nat, at < dim, NEW tile \in Nat \ {0}
  PROVE  /\ Engine!Least(dim - at, tile) \in 1 .. tile
         /\ at + Engine!Least(dim - at, tile) <= dim
         /\ at + Engine!Least(dim - at, tile) >= dim => dim <= at + tile
         /\ ~(at + Engine!Least(dim - at, tile) >= dim) =>
              at + tile < dim /\ Engine!Least(dim - at, tile) = tile
  BY DEF Engine!Least

(* Where the engine stands, with the lengths of its tile. *)
LEMMA AtTileFacts ==
  ASSUME RegsOK, JobLegal, cfg = EngineDims, NEW i \in Nat, NEW j \in Nat, AtTile(i, j)
  PROVE  /\ i * D["TILE_M"] \in Nat /\ j * D["TILE_N"] \in Nat
         /\ Engine!TmLen \in 1 .. D["TILE_M"] /\ eng.m0 + Engine!TmLen <= D["M"]
         /\ Engine!TnLen \in 1 .. D["TILE_N"] /\ eng.n0 + Engine!TnLen <= D["N"]
         /\ Engine!LastMBlock => D["M"] <= i * D["TILE_M"] + D["TILE_M"]
         /\ ~Engine!LastMBlock =>
              i * D["TILE_M"] + D["TILE_M"] < D["M"] /\ Engine!TmLen = D["TILE_M"]
         /\ Engine!LastNBlock => D["N"] <= j * D["TILE_N"] + D["TILE_N"]
         /\ ~Engine!LastNBlock =>
              j * D["TILE_N"] + D["TILE_N"] < D["N"] /\ Engine!TnLen = D["TILE_N"]
<1>1. /\ D["M"] \in Nat /\ D["TILE_M"] \in Nat \ {0} /\ D["N"] \in Nat /\ D["TILE_N"] \in Nat \ {0}
  BY LegalTyped
<1>2. i * D["TILE_M"] \in Nat /\ j * D["TILE_N"] \in Nat
  BY <1>1, SMT
<1>3. /\ cfg.m = D["M"] /\ cfg.n = D["N"] /\ cfg.tm = D["TILE_M"] /\ cfg.tn = D["TILE_N"]
      /\ eng.m0 = i * D["TILE_M"] /\ eng.m0 < D["M"] /\ eng.n0 = j * D["TILE_N"] /\ eng.n0 < D["N"]
  BY DEF EngineDims, AtTile
<1>4. /\ Engine!TmLen = Engine!Least(D["M"] - eng.m0, D["TILE_M"])
      /\ Engine!TnLen = Engine!Least(D["N"] - eng.n0, D["TILE_N"])
      /\ Engine!LastMBlock <=> eng.m0 + Engine!TmLen >= D["M"]
      /\ Engine!LastNBlock <=> eng.n0 + Engine!TnLen >= D["N"]
  BY <1>3 DEF Engine!TmLen, Engine!TnLen, Engine!LastMBlock, Engine!LastNBlock
<1> DEFINE m0 == eng.m0
           n0 == eng.n0
           m == D["M"]
           n == D["N"]
           tm == D["TILE_M"]
           tn == D["TILE_N"]
<1>5. /\ m \in Nat /\ m0 \in Nat /\ m0 < m /\ tm \in Nat \ {0}
      /\ n \in Nat /\ n0 \in Nat /\ n0 < n /\ tn \in Nat \ {0}
  BY <1>1, <1>2, <1>3
<1> HIDE DEF m0, n0, m, n, tm, tn
<1>6. /\ Engine!Least(m - m0, tm) \in 1 .. tm /\ m0 + Engine!Least(m - m0, tm) <= m
      /\ m0 + Engine!Least(m - m0, tm) >= m => m <= m0 + tm
      /\ ~(m0 + Engine!Least(m - m0, tm) >= m) => m0 + tm < m /\ Engine!Least(m - m0, tm) = tm
  BY <1>5, BlockEnds
<1>7. /\ Engine!Least(n - n0, tn) \in 1 .. tn /\ n0 + Engine!Least(n - n0, tn) <= n
      /\ n0 + Engine!Least(n - n0, tn) >= n => n <= n0 + tn
      /\ ~(n0 + Engine!Least(n - n0, tn) >= n) => n0 + tn < n /\ Engine!Least(n - n0, tn) = tn
  BY <1>5, BlockEnds
<1>8. QED
  BY <1>2, <1>3, <1>4, <1>6, <1>7, Zenon DEF m0, n0, m, n, tm, tn

LEMMA WalkCapture ==
  ASSUME RegsOK, Walk, NEW w, Cycle(w), eng.state = "CAPTURE"
  PROVE  Walk'
<1>1. CaptureStep
  BY EngineSteps DEF RegsOK, EngineStep
<1>2. /\ JobLegal /\ cfg = EngineDims
      /\ D' = D /\ JobKnown' /\ StartKnown' /\ ~startQ.q' /\ EngineKnown'
      /\ job'.tiles = job.tiles + 1
  BY WalkBusy
<1>3. PICK i \in Nat, j \in Nat : AtTile(i, j)
  BY DEF Walk, TilesWalked, Walking
<1>4. /\ eng.m0 = i * D["TILE_M"] /\ eng.m0 < D["M"] /\ eng.n0 = j * D["TILE_N"] /\ eng.n0 < D["N"]
      /\ job.tiles = i * ColumnBlocks + j
  BY <1>3 DEF AtTile
<1>5. /\ i * D["TILE_M"] \in Nat /\ j * D["TILE_N"] \in Nat
      /\ Engine!LastMBlock => D["M"] <= i * D["TILE_M"] + D["TILE_M"]
      /\ ~Engine!LastMBlock =>
           i * D["TILE_M"] + D["TILE_M"] < D["M"] /\ Engine!TmLen = D["TILE_M"]
      /\ Engine!LastNBlock => D["N"] <= j * D["TILE_N"] + D["TILE_N"]
      /\ ~Engine!LastNBlock =>
           j * D["TILE_N"] + D["TILE_N"] < D["N"] /\ Engine!TnLen = D["TILE_N"]
  BY <1>2, <1>3, AtTileFacts
<1>6. /\ D["M"] \in Nat \ {0} /\ D["N"] \in Nat \ {0}
      /\ D["TILE_M"] \in Nat \ {0} /\ D["TILE_N"] \in Nat \ {0} /\ ColumnBlocks \in Nat
  BY <1>2, LegalTyped
<1>7. /\ (i + 1) * D["TILE_M"] = i * D["TILE_M"] + D["TILE_M"]
      /\ (j + 1) * D["TILE_N"] = j * D["TILE_N"] + D["TILE_N"]
      /\ (i + 1) * ColumnBlocks = i * ColumnBlocks + ColumnBlocks
      /\ i * ColumnBlocks \in Nat /\ 0 * D["TILE_N"] = 0
  BY <1>6, SMT
<1>8. ColumnBlocks' = ColumnBlocks /\ RowBlocks' = RowBlocks
  BY <1>2 DEF ColumnBlocks, RowBlocks, Blocks
<1>9. i + 1 \in Nat /\ j + 1 \in Nat /\ 0 \in Nat
  OBVIOUS
<1>10. CASE ~Engine!LastNBlock
  <2>1. /\ eng'.state = "FEED" /\ eng'.m0 = i * D["TILE_M"] /\ eng'.n0 = (j + 1) * D["TILE_N"]
        /\ (j + 1) * D["TILE_N"] < D["N"]
    BY <1>1, <1>4, <1>5, <1>7, <1>10 DEF CaptureStep
  <2>2. job'.tiles = i * ColumnBlocks + (j + 1)
    BY <1>2, <1>4, <1>7
  <2>3. AtTile(i, j + 1)'
    BY <1>2, <1>4, <1>8, <2>1, <2>2 DEF AtTile
  <2>4. TilesWalked'
    BY <1>9, <2>3, Zenon DEF TilesWalked
  <2>5. QED
    BY <1>2, <2>1, <2>4 DEF Walk, TilesBegun, TilesFirst, TilesDone, Walked
<1>11. CASE Engine!LastNBlock /\ ~Engine!LastMBlock
  <2>1. ColumnBlocks = j + 1
    <3>1. j * D["TILE_N"] < D["N"] /\ D["N"] <= j * D["TILE_N"] + D["TILE_N"]
      BY <1>4, <1>5, <1>11
    <3>2. QED
      BY <1>6, <3>1, BlocksAt, Zenon DEF ColumnBlocks
  <2>2. /\ eng'.state = "FEED" /\ eng'.m0 = (i + 1) * D["TILE_M"] /\ eng'.n0 = 0 * D["TILE_N"]
        /\ (i + 1) * D["TILE_M"] < D["M"] /\ 0 * D["TILE_N"] < D["N"]
    BY <1>1, <1>4, <1>5, <1>6, <1>7, <1>11 DEF CaptureStep
  <2>3. job'.tiles = (i + 1) * ColumnBlocks + 0
    BY <1>2, <1>4, <1>6, <1>7, <2>1
  <2>4. AtTile(i + 1, 0)'
    BY <1>2, <1>8, <2>2, <2>3 DEF AtTile
  <2>5. TilesWalked'
    BY <1>9, <2>4, Zenon DEF TilesWalked
  <2>6. QED
    BY <1>2, <2>2, <2>5 DEF Walk, TilesBegun, TilesFirst, TilesDone, Walked
<1>12. CASE Engine!LastNBlock /\ Engine!LastMBlock
  <2>1. ColumnBlocks = j + 1 /\ RowBlocks = i + 1
    <3>1. /\ i * D["TILE_M"] < D["M"] /\ D["M"] <= i * D["TILE_M"] + D["TILE_M"]
          /\ j * D["TILE_N"] < D["N"] /\ D["N"] <= j * D["TILE_N"] + D["TILE_N"]
      BY <1>4, <1>5, <1>12
    <3>2. QED
      BY <1>6, <3>1, BlocksAt, Zenon DEF ColumnBlocks, RowBlocks
  <2>2. eng'.state = "FLUSH_OUT"
    BY <1>1, <1>12 DEF CaptureStep
  <2>3. job'.tiles = (i + 1) * ColumnBlocks
    BY <1>2, <1>4, <1>6, <1>7, <2>1
  <2>4. TilesDone'
    BY <1>8, <2>1, <2>3 DEF TilesDone
  <2>5. QED
    BY <1>2, <2>2, <2>4 DEF Walk, TilesBegun, TilesFirst, TilesWalked, Walking
<1>13. QED
  BY <1>10, <1>11, <1>12

LEMMA WalkFlush ==
  ASSUME RegsOK, Walk, NEW w, Cycle(w), eng.state = "FLUSH_OUT"
  PROVE  Walk'
<1>1. eng'.state \in {"IDLE", "FLUSH_OUT"}
  BY EngineSteps DEF RegsOK, EngineStep, FlushStep
<1>2. /\ D' = D /\ JobKnown' /\ StartKnown' /\ ~startQ.q' /\ EngineKnown'
      /\ job'.tiles = job.tiles
  <2>1. job.tiles \in Int
    BY DEF RegsOK, JobOK
  <2>2. QED
    BY <2>1, WalkBusy
<1>3. TilesDone'
  BY <1>2 DEF Walk, TilesDone, Walked, RowBlocks, ColumnBlocks, Blocks
<1>4. QED
  BY <1>1, <1>2, <1>3 DEF Walk, TilesBegun, TilesFirst, TilesWalked, Walking

LEMMA WalkStep == RegsOK /\ Walk /\ [Next]_vars => Walk'
<1> SUFFICES ASSUME RegsOK, Walk, [Next]_vars
             PROVE  Walk'
  OBVIOUS
<1>1. CASE Next
  <2>1. PICK w \in Writes \cup {NoWrite} : Cycle(w)
    BY <1>1 DEF Next
  <2>2. eng.state \in EngineStates
    BY DEF RegsOK, EngineOK, EngineRegs
  <2>3. CASE JobStart(w)
    BY <2>1, <2>3, WalkStarts
  <2>4. CASE ~JobStart(w) /\ eng.state = "IDLE"
    BY <2>1, <2>4, WalkIdle
  <2>5. CASE eng.state # "IDLE"
    BY <2>1, <2>2, <2>5, WalkLoad, WalkFeed, WalkCapture, WalkFlush DEF EngineStates
  <2>6. QED
    BY <2>3, <2>4, <2>5
<1>2. CASE UNCHANGED vars
  BY <1>2 DEF vars, topVars, Walk, JobKnown, JobLegal, LegalConfig, ConfigTiles, Blocks, StartKnown,
     JobDims, ConfigDims, EngineKnown, EngineDims, TilesBegun, TilesFirst, TilesWalked, TilesDone,
     Walking, Walked, AtTile, RowBlocks, ColumnBlocks, D
<1>3. QED
  BY <1>1, <1>2

LEMMA WalkAlways == Spec => [](RegsOK /\ Walk)
<1>1. Init => RegsOK /\ Walk
  BY RegsInit, WalkInit
<1>2. RegsOK /\ Walk /\ [Next]_vars => (RegsOK /\ Walk)'
  BY RegsStep, WalkStep
<1>3. QED
  BY <1>1, <1>2, PTL DEF Spec

(* PERF_TILES counts each tile the engine computes once per slice of K: the *)
(* register written at the START and the walk of the engine agree whatever  *)
(* the job, its tile sizes and the writes of software.                      *)
THEOREM TilesTrue == Spec => []TilesCounted
<1>1. ASSUME RegsOK, Walk
      PROVE  TilesCounted
  <2> SUFFICES ASSUME job.given, ~JobBusy
               PROVE  /\ (D["K"] - 1) \div D["TILE_K"] + 1 = perf.tiles \div job.tiles
                      /\ perf.tiles % job.tiles = 0
    BY Zenon DEF TilesCounted
  <2>1. ~ComputeBusy
    BY DEF JobBusy, Shell!DmaBusy, Wires, Shell!Engines
  <2>2. Walked
    BY <2>1 DEF Walked, ComputeBusy, Engine!EngineBusy
  <2>3. job.tiles = RowBlocks * ColumnBlocks /\ JobLegal /\ perf.tiles = ConfigTiles(D)
    BY <1>1, <2>2 DEF Walk, TilesDone, JobKnown
  <2> DEFINE rows == RowBlocks
             columns == ColumnBlocks
             slices == Blocks(D["K"], D["TILE_K"])
  <2>4. /\ D["M"] \in Nat \ {0} /\ D["N"] \in Nat \ {0} /\ D["K"] \in Nat \ {0}
        /\ D["TILE_M"] \in Nat \ {0} /\ D["TILE_N"] \in Nat \ {0} /\ D["TILE_K"] \in Nat \ {0}
    BY <1>1, <2>3, LegalTyped
  <2>5. \A n \in Nat \ {0}, t \in Nat \ {0} : Blocks(n, t) \in Nat \ {0} /\ (n - 1) \div t + 1 = Blocks(n, t)
    <3>1. SUFFICES ASSUME NEW n \in Nat \ {0}, NEW t \in Nat \ {0}
                   PROVE  Blocks(n, t) \in Nat \ {0} /\ (n - 1) \div t + 1 = Blocks(n, t)
      OBVIOUS
    <3> DEFINE q == (n - 1) \div t
    <3>2. q \in Nat /\ (n - 1) % t \in 0 .. t - 1 /\ n - 1 = t * q + ((n - 1) % t)
      <4>1. n - 1 \in Nat
        OBVIOUS
      <4>2. QED
        BY <4>1, Division, Zenon
    <3> HIDE DEF q
    <3>3. q * t \in Nat /\ t * q = q * t
      BY <3>2, SMT
    <3>4. q * t < n /\ n <= q * t + t
      BY <3>2, <3>3
    <3>5. Blocks(n, t) = q + 1
      BY <3>2, <3>4, BlocksAt
    <3>6. QED
      BY <3>2, <3>5 DEF q
  <2>6. /\ rows \in Nat \ {0} /\ columns \in Nat \ {0} /\ slices \in Nat \ {0}
        /\ (D["K"] - 1) \div D["TILE_K"] + 1 = slices
    BY <2>4, <2>5 DEF RowBlocks, ColumnBlocks
  <2>7. job.tiles = rows * columns /\ perf.tiles = rows * columns * slices
    BY <2>3, Zenon DEF ConfigTiles, RowBlocks, ColumnBlocks
  <2> HIDE DEF rows, columns, slices
  <2> DEFINE tiles == rows * columns
  <2>8. tiles \in Nat \ {0} /\ 0 \in 0 .. tiles - 1
    BY <2>6, SMT
  <2>9. perf.tiles = tiles * slices + 0
    BY <2>6, <2>7, <2>8, SMT
  <2>10. job.tiles = tiles
    BY <2>7
  <2> HIDE DEF tiles
  <2>11. perf.tiles \div tiles = slices /\ perf.tiles % tiles = 0
    <3>1. slices \in Int /\ 0 \in 0 .. tiles - 1 /\ tiles \in Nat \ {0}
      BY <2>6, <2>8
    <3>2. (tiles * slices + 0) \div tiles = slices /\ (tiles * slices + 0) % tiles = 0
      BY <3>1, QuotientUnique, RemainderUnique, Zenon
    <3>3. QED
      BY <2>9, <3>2, Zenon
  <2>12. QED
    BY <2>6, <2>10, <2>11
<1>2. QED
  BY <1>1, WalkAlways, PTL

-----------------------------------------------------------------------------
(* The movers, field by field. *)
BurstOf(o) ==
  LET limit == IF o.remaining > MaxBurst THEN MaxBurst ELSE o.remaining
      page == PageWords - (o.addr % PageWords)
  IN  IF limit > page THEN page ELSE limit

SameJob(o, n) == n.addr = o.addr /\ n.remaining = o.remaining /\ n.error = o.error

(* A reader o that becomes n: start, base and words of the job it is given, *)
(* whether its request is granted, a beat passes, and is a good one.        *)
ReaderRule(o, n, start, base, words, grant, fire, good) ==
  \/ o.state = "IDLE" /\ ~start /\ n = [o EXCEPT !.done = FALSE]
  \/ /\ o.state = "IDLE" /\ start
     /\ n = [o EXCEPT !.addr = base, !.remaining = words, !.error = FALSE, !.done = (words = 0),
                      !.state = IF words = 0 THEN "IDLE" ELSE "AR"]
  \/ o.state = "AR" /\ ~grant /\ n = [o EXCEPT !.done = FALSE]
  \/ /\ o.state = "AR" /\ grant
     /\ n = [o EXCEPT !.done = FALSE, !.state = "R", !.burst = BurstOf(o), !.beats = BurstOf(o)]
  \/ o.state = "R" /\ ~fire /\ n = [o EXCEPT !.done = FALSE]
  \/ /\ o.state = "R" /\ fire /\ ~good
     /\ \/ n = [o EXCEPT !.state = "IDLE", !.done = TRUE, !.error = TRUE]
        \/ n = [o EXCEPT !.done = FALSE, !.error = TRUE, !.state = "ERROR"]
  \/ /\ o.state = "R" /\ fire /\ good /\ o.beats # 1
     /\ n = [o EXCEPT !.done = FALSE, !.beats = o.beats - 1]
  \/ /\ o.state = "R" /\ fire /\ good /\ o.beats = 1 /\ o.remaining # o.burst
     /\ n = [o EXCEPT !.done = FALSE, !.state = "AR", !.remaining = o.remaining - o.burst,
                      !.addr = (o.addr + o.burst) % AddrWords]
  \/ /\ o.state = "R" /\ fire /\ good /\ o.beats = 1 /\ o.remaining = o.burst
     /\ n = [o EXCEPT !.state = "IDLE", !.done = TRUE, !.remaining = 0]
  \/ /\ o.state = "ERROR"
     /\ \/ n = [o EXCEPT !.state = "IDLE", !.done = TRUE]
        \/ n = [o EXCEPT !.done = FALSE]

ReaderStep(o, n, start, base, words, grant, fire, good) ==
  /\ o.state = "IDLE" /\ ~start => n.state = "IDLE" /\ SameJob(o, n)
  /\ o.state = "IDLE" /\ start =>
       /\ n.addr = base /\ n.remaining = words /\ n.error = FALSE
       /\ n.state = IF words = 0 THEN "IDLE" ELSE "AR"
  /\ o.state = "AR" /\ ~grant => n.state = "AR" /\ SameJob(o, n)
  /\ o.state = "AR" /\ grant =>
       n.state = "R" /\ SameJob(o, n) /\ n.burst = BurstOf(o) /\ n.beats = BurstOf(o)
  /\ o.state = "R" /\ ~fire =>
       n.state = "R" /\ SameJob(o, n) /\ n.burst = o.burst /\ n.beats = o.beats
  /\ o.state = "R" /\ fire /\ good /\ o.beats # 1 =>
       n.state = "R" /\ SameJob(o, n) /\ n.burst = o.burst /\ n.beats = o.beats - 1
  /\ o.state = "R" /\ fire /\ good /\ o.beats = 1 /\ o.remaining # o.burst =>
       /\ n.state = "AR" /\ n.remaining = o.remaining - o.burst
       /\ n.addr = (o.addr + o.burst) % AddrWords /\ n.error = o.error
  /\ o.state = "R" /\ fire /\ good /\ o.beats = 1 /\ o.remaining = o.burst =>
       n.state = "IDLE" /\ n.error = o.error

LEMMA BurstTyped ==
  ASSUME NEW o, o.remaining \in Int, o.addr \in Int
  PROVE  BurstOf(o) \in Int
<1>1. o.addr % PageWords \in Int
  BY Constants, ModuloRangeInt
<1>2. QED
  BY <1>1, Constants DEF BurstOf

LEMMA ReaderRules ==
  ASSUME NEW o \in ReadRegs, NEW n, NEW start, NEW base \in Int, NEW words \in Int,
         NEW grant, NEW fire, NEW good,
         ReaderRule(o, n, start, base, words, grant, fire, good)
  PROVE  n \in ReadRegs /\ ReaderStep(o, n, start, base, words, grant, fire, good)
<1> DEFINE burst == BurstOf(o)
           less == o.beats - 1
           rest == o.remaining - o.burst
           next == (o.addr + o.burst) % AddrWords
           none == words = 0
           goes == IF words = 0 THEN "IDLE" ELSE "AR"
           zero == 0
<1>1. burst \in Int /\ less \in Int /\ rest \in Int /\ next \in Int /\ zero \in Int
  <2>1. o.addr \in Int /\ o.remaining \in Int /\ o.burst \in Int /\ o.beats \in Int
    BY DEF ReadRegs
  <2>2. burst \in Int
    BY <2>1, BurstTyped
  <2>3. o.addr + o.burst \in Int
    BY <2>1
  <2>4. next \in Int
    BY <2>3, Constants, ModuloRangeInt
  <2>5. QED
    BY <2>1, <2>2, <2>4
<1>2. none \in BOOLEAN /\ goes \in {"IDLE", "AR"}
  OBVIOUS
<1>3. \/ o.state = "IDLE" /\ ~start /\ n = [o EXCEPT !.done = FALSE]
      \/ /\ o.state = "IDLE" /\ start
         /\ n = [o EXCEPT !.addr = base, !.remaining = words, !.error = FALSE, !.done = none,
                          !.state = goes]
      \/ o.state = "AR" /\ ~grant /\ n = [o EXCEPT !.done = FALSE]
      \/ /\ o.state = "AR" /\ grant
         /\ n = [o EXCEPT !.done = FALSE, !.state = "R", !.burst = burst, !.beats = burst]
      \/ o.state = "R" /\ ~fire /\ n = [o EXCEPT !.done = FALSE]
      \/ /\ o.state = "R" /\ fire /\ ~good
         /\ \/ n = [o EXCEPT !.state = "IDLE", !.done = TRUE, !.error = TRUE]
            \/ n = [o EXCEPT !.done = FALSE, !.error = TRUE, !.state = "ERROR"]
      \/ /\ o.state = "R" /\ fire /\ good /\ o.beats # 1
         /\ n = [o EXCEPT !.done = FALSE, !.beats = less]
      \/ /\ o.state = "R" /\ fire /\ good /\ o.beats = 1 /\ o.remaining # o.burst
         /\ n = [o EXCEPT !.done = FALSE, !.state = "AR", !.remaining = rest, !.addr = next]
      \/ /\ o.state = "R" /\ fire /\ good /\ o.beats = 1 /\ o.remaining = o.burst
         /\ n = [o EXCEPT !.state = "IDLE", !.done = TRUE, !.remaining = zero]
      \/ /\ o.state = "ERROR"
         /\ \/ n = [o EXCEPT !.state = "IDLE", !.done = TRUE]
            \/ n = [o EXCEPT !.done = FALSE]
  BY Zenon DEF ReaderRule
<1>4. goes = IF words = 0 THEN "IDLE" ELSE "AR"
  OBVIOUS
<1> HIDE DEF burst, less, rest, next, none, goes, zero
<1>5. CASE n = [o EXCEPT !.done = FALSE] /\ ~(o.state = "R" /\ fire)
           /\ ~(o.state = "AR" /\ grant) /\ ~(o.state = "IDLE" /\ start)
  BY <1>5 DEF ReadRegs, ReaderStep, SameJob
<1>6. CASE /\ o.state = "IDLE" /\ start
           /\ n = [o EXCEPT !.addr = base, !.remaining = words, !.error = FALSE, !.done = none,
                            !.state = goes]
  BY <1>2, <1>4, <1>6 DEF ReadRegs, ReaderStep, SameJob
<1>7. CASE /\ o.state = "AR" /\ grant
           /\ n = [o EXCEPT !.done = FALSE, !.state = "R", !.burst = burst, !.beats = burst]
  <2>1. n \in ReadRegs /\ n.state = "R" /\ SameJob(o, n) /\ n.burst = burst /\ n.beats = burst
    BY <1>1, <1>7 DEF ReadRegs, SameJob
  <2>2. QED
    BY <1>7, <2>1, Zenon DEF ReaderStep, burst
<1>8. CASE /\ o.state = "R" /\ fire /\ ~good
           /\ \/ n = [o EXCEPT !.state = "IDLE", !.done = TRUE, !.error = TRUE]
              \/ n = [o EXCEPT !.done = FALSE, !.error = TRUE, !.state = "ERROR"]
  BY <1>8 DEF ReadRegs, ReaderStep
<1>9. CASE /\ o.state = "R" /\ fire /\ good /\ o.beats # 1
           /\ n = [o EXCEPT !.done = FALSE, !.beats = less]
  <2>1. n \in ReadRegs /\ n.state = "R" /\ SameJob(o, n) /\ n.burst = o.burst /\ n.beats = less
    BY <1>1, <1>9 DEF ReadRegs, SameJob
  <2>2. QED
    BY <1>9, <2>1, Zenon DEF ReaderStep, less
<1>10. CASE /\ o.state = "R" /\ fire /\ good /\ o.beats = 1 /\ o.remaining # o.burst
            /\ n = [o EXCEPT !.done = FALSE, !.state = "AR", !.remaining = rest, !.addr = next]
  <2>1. n \in ReadRegs /\ n.state = "AR" /\ n.remaining = rest /\ n.addr = next /\ n.error = o.error
    BY <1>1, <1>10 DEF ReadRegs
  <2>2. QED
    BY <1>10, <2>1, Zenon DEF ReaderStep, rest, next
<1>11. CASE /\ o.state = "R" /\ fire /\ good /\ o.beats = 1 /\ o.remaining = o.burst
            /\ n = [o EXCEPT !.state = "IDLE", !.done = TRUE, !.remaining = zero]
  <2>1. n \in ReadRegs /\ n.state = "IDLE" /\ n.error = o.error
    BY <1>1, <1>11 DEF ReadRegs
  <2>2. QED
    BY <1>11, <2>1, Zenon DEF ReaderStep
<1>12. CASE /\ o.state = "ERROR"
            /\ \/ n = [o EXCEPT !.state = "IDLE", !.done = TRUE]
               \/ n = [o EXCEPT !.done = FALSE]
  BY <1>12 DEF ReadRegs, ReaderStep
<1>13. QED
  BY <1>3, <1>5, <1>6, <1>7, <1>8, <1>9, <1>10, <1>11, <1>12, Zenon

LEMMA AStep ==
  ASSUME ard \in ReadRegs, NEW w, AClock(w),
         NEW base \in Int, base = desc.cfg["A_BASE"] \div 4,
         NEW words \in Int, words = Shell!AWords
  PROVE  /\ ard' \in ReadRegs
         /\ ReaderStep(ard, ard', JobStart(w), base, words, Port!AReady(ARequest, BRequest),
                       Port!RValid(FALSE) /\ Engine!AInReady,
                       Port!ROk /\ (Port!RLast <=> ard.beats = 1))
<1> DEFINE start == JobStart(w)
           grant == Port!AReady(ARequest, BRequest)
           fire == Port!RValid(FALSE) /\ Engine!AInReady
           good == Port!ROk /\ (Port!RLast <=> ard.beats = 1)
<1>1. A!NextBurst = BurstOf(ard)
  BY DEF A!NextBurst, A!BeatsToPageEnd, BurstOf
<1>2. ReaderRule(ard, ard', start, base, words, grant, fire, good)
  BY <1>1, Zenon DEF AClock, A!Idle, A!Address, A!Data, A!Drain, A!Hold, A!Finish, A!GoodBeat, A!Fault,
       A!EndOfBurst, A!NextRequest, ReaderRule
<1> HIDE DEF start, grant, fire, good
<1>4. ard' \in ReadRegs /\ ReaderStep(ard, ard', start, base, words, grant, fire, good)
  BY <1>2, ReaderRules, Zenon
<1>5. QED
  BY <1>4, Zenon DEF start, grant, fire, good

LEMMA BStep ==
  ASSUME brd \in ReadRegs, NEW w, BClock(w),
         NEW base \in Int, base = desc.cfg["B_BASE"] \div 4,
         NEW words \in Int, words = Shell!BWords
  PROVE  /\ brd' \in ReadRegs
         /\ ReaderStep(brd, brd', JobStart(w), base, words, Port!BReady(ARequest, BRequest),
                       Port!RValid(TRUE) /\ Engine!BInReady,
                       Port!ROk /\ (Port!RLast <=> brd.beats = 1))
<1> DEFINE start == JobStart(w)
           grant == Port!BReady(ARequest, BRequest)
           fire == Port!RValid(TRUE) /\ Engine!BInReady
           good == Port!ROk /\ (Port!RLast <=> brd.beats = 1)
<1>1. B!NextBurst = BurstOf(brd)
  BY DEF B!NextBurst, B!BeatsToPageEnd, BurstOf
<1>2. ReaderRule(brd, brd', start, base, words, grant, fire, good)
  BY <1>1, Zenon DEF BClock, B!Idle, B!Address, B!Data, B!Drain, B!Hold, B!Finish, B!GoodBeat, B!Fault,
       B!EndOfBurst, B!NextRequest, ReaderRule
<1> HIDE DEF start, grant, fire, good
<1>4. brd' \in ReadRegs /\ ReaderStep(brd, brd', start, base, words, grant, fire, good)
  BY <1>2, ReaderRules, Zenon
<1>5. QED
  BY <1>4, Zenon DEF start, grant, fire, good

(* The write mover likewise: fire when a word passes, answered when its     *)
(* burst is.                                                                *)
SameWork(o, n) == n.addr = o.addr /\ n.remaining = o.remaining

WriterRule(o, n, start, base, words, grant, fire, answered) ==
  \/ o.state = "IDLE" /\ ~start /\ n = [o EXCEPT !.done = FALSE]
  \/ /\ o.state = "IDLE" /\ start
     /\ n = [o EXCEPT !.addr = base, !.remaining = words, !.error = FALSE, !.done = (words = 0),
                      !.state = IF words = 0 THEN "IDLE" ELSE "AW"]
  \/ o.state = "AW" /\ ~grant /\ n = [o EXCEPT !.done = FALSE]
  \/ /\ o.state = "AW" /\ grant
     /\ n = [o EXCEPT !.done = FALSE, !.state = "W", !.burst = BurstOf(o), !.beats = BurstOf(o)]
  \/ o.state = "W" /\ ~fire /\ n = [o EXCEPT !.done = FALSE]
  \/ /\ o.state = "W" /\ fire /\ o.beats = 1
     /\ \E error \in BOOLEAN : n = [o EXCEPT !.done = FALSE, !.error = error, !.state = "B"]
  \/ /\ o.state = "W" /\ fire /\ o.beats # 1
     /\ \E error \in BOOLEAN :
          n = [o EXCEPT !.done = FALSE, !.error = error, !.beats = o.beats - 1]
  \/ o.state = "B" /\ ~answered /\ n = [o EXCEPT !.done = FALSE]
  \/ /\ o.state = "B" /\ answered /\ o.remaining # o.burst
     /\ \E error \in BOOLEAN :
          n = [o EXCEPT !.done = FALSE, !.error = error, !.state = "AW",
                        !.remaining = o.remaining - o.burst, !.addr = (o.addr + o.burst) % AddrWords]
  \/ /\ o.state = "B" /\ answered /\ o.remaining = o.burst
     /\ \E error \in BOOLEAN :
          n = [o EXCEPT !.done = TRUE, !.error = error, !.state = "IDLE", !.remaining = 0]

WriterStep(o, n, start, base, words, grant, fire, answered) ==
  /\ o.state = "IDLE" /\ ~start => n.state = "IDLE"
  /\ o.state = "IDLE" /\ start =>
       n.addr = base /\ n.remaining = words /\ n.state = IF words = 0 THEN "IDLE" ELSE "AW"
  /\ o.state = "AW" /\ ~grant => n.state = "AW" /\ SameWork(o, n)
  /\ o.state = "AW" /\ grant =>
       n.state = "W" /\ SameWork(o, n) /\ n.burst = BurstOf(o) /\ n.beats = BurstOf(o)
  /\ o.state = "W" /\ ~fire =>
       n.state = "W" /\ SameWork(o, n) /\ n.burst = o.burst /\ n.beats = o.beats
  /\ o.state = "W" /\ fire /\ o.beats # 1 =>
       n.state = "W" /\ SameWork(o, n) /\ n.burst = o.burst /\ n.beats = o.beats - 1
  /\ o.state = "W" /\ fire /\ o.beats = 1 => n.state = "B" /\ SameWork(o, n) /\ n.burst = o.burst
  /\ o.state = "B" /\ ~answered => n.state = "B" /\ SameWork(o, n) /\ n.burst = o.burst
  /\ o.state = "B" /\ answered /\ o.remaining # o.burst =>
       /\ n.state = "AW" /\ n.remaining = o.remaining - o.burst
       /\ n.addr = (o.addr + o.burst) % AddrWords
  /\ o.state = "B" /\ answered /\ o.remaining = o.burst => n.state = "IDLE"

LEMMA WriterRules ==
  ASSUME NEW o \in WriteRegs, NEW n, NEW start, NEW base \in Int, NEW words \in Int,
         NEW grant, NEW fire, NEW answered,
         WriterRule(o, n, start, base, words, grant, fire, answered)
  PROVE  n \in WriteRegs /\ WriterStep(o, n, start, base, words, grant, fire, answered)
<1> DEFINE burst == BurstOf(o)
           less == o.beats - 1
           rest == o.remaining - o.burst
           next == (o.addr + o.burst) % AddrWords
           none == words = 0
           goes == IF words = 0 THEN "IDLE" ELSE "AW"
           zero == 0
<1>1. burst \in Int /\ less \in Int /\ rest \in Int /\ next \in Int /\ zero \in Int
  <2>1. o.addr \in Int /\ o.remaining \in Int /\ o.burst \in Int /\ o.beats \in Int
    BY DEF WriteRegs
  <2>2. burst \in Int
    BY <2>1, BurstTyped
  <2>3. o.addr + o.burst \in Int
    BY <2>1
  <2>4. next \in Int
    BY <2>3, Constants, ModuloRangeInt
  <2>5. QED
    BY <2>1, <2>2, <2>4
<1>2. none \in BOOLEAN /\ goes \in {"IDLE", "AW"}
  OBVIOUS
<1>3. \/ o.state = "IDLE" /\ ~start /\ n = [o EXCEPT !.done = FALSE]
      \/ /\ o.state = "IDLE" /\ start
         /\ n = [o EXCEPT !.addr = base, !.remaining = words, !.error = FALSE, !.done = none,
                          !.state = goes]
      \/ o.state = "AW" /\ ~grant /\ n = [o EXCEPT !.done = FALSE]
      \/ /\ o.state = "AW" /\ grant
         /\ n = [o EXCEPT !.done = FALSE, !.state = "W", !.burst = burst, !.beats = burst]
      \/ o.state = "W" /\ ~fire /\ n = [o EXCEPT !.done = FALSE]
      \/ /\ o.state = "W" /\ fire /\ o.beats = 1
         /\ \E error \in BOOLEAN : n = [o EXCEPT !.done = FALSE, !.error = error, !.state = "B"]
      \/ /\ o.state = "W" /\ fire /\ o.beats # 1
         /\ \E error \in BOOLEAN : n = [o EXCEPT !.done = FALSE, !.error = error, !.beats = less]
      \/ o.state = "B" /\ ~answered /\ n = [o EXCEPT !.done = FALSE]
      \/ /\ o.state = "B" /\ answered /\ o.remaining # o.burst
         /\ \E error \in BOOLEAN :
              n = [o EXCEPT !.done = FALSE, !.error = error, !.state = "AW", !.remaining = rest,
                            !.addr = next]
      \/ /\ o.state = "B" /\ answered /\ o.remaining = o.burst
         /\ \E error \in BOOLEAN :
              n = [o EXCEPT !.done = TRUE, !.error = error, !.state = "IDLE", !.remaining = zero]
  BY Zenon DEF WriterRule
<1>4. goes = IF words = 0 THEN "IDLE" ELSE "AW"
  OBVIOUS
<1> HIDE DEF burst, less, rest, next, none, goes, zero
<1>5. CASE n = [o EXCEPT !.done = FALSE] /\ ~(o.state = "W" /\ fire) /\ ~(o.state = "B" /\ answered)
           /\ ~(o.state = "AW" /\ grant) /\ ~(o.state = "IDLE" /\ start)
  BY <1>5 DEF WriteRegs, WriterStep, SameWork
<1>6. CASE /\ o.state = "IDLE" /\ start
           /\ n = [o EXCEPT !.addr = base, !.remaining = words, !.error = FALSE, !.done = none,
                            !.state = goes]
  BY <1>2, <1>4, <1>6 DEF WriteRegs, WriterStep, SameWork
<1>7. CASE /\ o.state = "AW" /\ grant
           /\ n = [o EXCEPT !.done = FALSE, !.state = "W", !.burst = burst, !.beats = burst]
  <2>1. n \in WriteRegs /\ n.state = "W" /\ SameWork(o, n) /\ n.burst = burst /\ n.beats = burst
    BY <1>1, <1>7 DEF WriteRegs, SameWork
  <2>2. QED
    BY <1>7, <2>1, Zenon DEF WriterStep, burst
<1>8. CASE /\ o.state = "W" /\ fire /\ o.beats = 1
           /\ \E error \in BOOLEAN : n = [o EXCEPT !.done = FALSE, !.error = error, !.state = "B"]
  BY <1>8 DEF WriteRegs, WriterStep, SameWork
<1>9. CASE /\ o.state = "W" /\ fire /\ o.beats # 1
           /\ \E error \in BOOLEAN : n = [o EXCEPT !.done = FALSE, !.error = error, !.beats = less]
  <2>1. n \in WriteRegs /\ n.state = "W" /\ SameWork(o, n) /\ n.burst = o.burst /\ n.beats = less
    BY <1>1, <1>9 DEF WriteRegs, SameWork
  <2>2. QED
    BY <1>9, <2>1, Zenon DEF WriterStep, less
<1>10. CASE /\ o.state = "B" /\ answered /\ o.remaining # o.burst
            /\ \E error \in BOOLEAN :
                 n = [o EXCEPT !.done = FALSE, !.error = error, !.state = "AW", !.remaining = rest,
                               !.addr = next]
  <2>1. n \in WriteRegs /\ n.state = "AW" /\ n.remaining = rest /\ n.addr = next
    BY <1>1, <1>10 DEF WriteRegs
  <2>2. QED
    BY <1>10, <2>1, Zenon DEF WriterStep, rest, next
<1>11. CASE /\ o.state = "B" /\ answered /\ o.remaining = o.burst
            /\ \E error \in BOOLEAN :
                 n = [o EXCEPT !.done = TRUE, !.error = error, !.state = "IDLE", !.remaining = zero]
  BY <1>1, <1>11 DEF WriteRegs, WriterStep
<1>12. QED
  BY <1>3, <1>5, <1>6, <1>7, <1>8, <1>9, <1>10, <1>11, Zenon

LEMMA CStep ==
  ASSUME cwr \in WriteRegs, NEW w, CClock(w),
         NEW base \in Int, base = desc.cfg["C_BASE"] \div 4,
         NEW words \in Int, words = Shell!CWords
  PROVE  /\ cwr' \in WriteRegs
         /\ WriterStep(cwr, cwr', JobStart(w), base, words, Port!CReady(ARequest, BRequest, CRequest),
                       CValid /\ Port!WReady, Port!BValid)
<1> DEFINE start == JobStart(w)
           grant == Port!CReady(ARequest, BRequest, CRequest)
           fire == CValid /\ Port!WReady
           answered == Port!BValid
<1>1. C!NextBurst = BurstOf(cwr)
  BY DEF C!NextBurst, C!BeatsToPageEnd, BurstOf
<1>2. WriterRule(cwr, cwr', start, base, words, grant, fire, answered)
  <2>1. CASE C!Idle(start, base, words)
    BY <2>1, Zenon DEF C!Idle, C!Hold, WriterRule
  <2>2. CASE C!Address(grant)
    BY <1>1, <2>2, Zenon DEF C!Address, C!Hold, WriterRule
  <2>3. CASE C!Data(CValid, CLast, Port!WReady)
    <3> DEFINE error == cwr.error \/ CLast # C!FinalBeat
    <3>1. error \in BOOLEAN /\ [cwr EXCEPT !.done = FALSE].error = cwr.error
      BY DEF WriteRegs
    <3>2. /\ cwr.state = "W"
          /\ fire => cwr' = [cwr EXCEPT !.done = FALSE, !.error = error,
                                        !.state = IF cwr.beats = 1 THEN "B" ELSE "W",
                                        !.beats = IF cwr.beats = 1 THEN @ ELSE @ - 1]
          /\ ~fire => cwr' = [cwr EXCEPT !.done = FALSE]
      BY <2>3, Zenon DEF C!Data, C!Hold
    <3> HIDE DEF error, fire
    <3>3. CASE ~fire
      BY <3>2, <3>3, Zenon DEF WriterRule
    <3>4. CASE fire /\ cwr.beats = 1
      <4>1. cwr' = [cwr EXCEPT !.done = FALSE, !.error = error, !.state = "B"]
        BY <3>2, <3>4 DEF WriteRegs
      <4>2. QED
        BY <3>1, <3>2, <3>4, <4>1, Zenon DEF WriterRule
    <3>5. CASE fire /\ cwr.beats # 1
      <4> DEFINE less == cwr.beats - 1
      <4>1. cwr' = [cwr EXCEPT !.done = FALSE, !.error = error, !.state = "W", !.beats = less]
        BY <3>2, <3>5, Zenon
      <4> HIDE DEF less
      <4>2. cwr' = [cwr EXCEPT !.done = FALSE, !.error = error, !.beats = less]
        BY <3>2, <4>1 DEF WriteRegs
      <4>3. QED
        BY <3>1, <3>2, <3>5, <4>2, Zenon DEF WriterRule, less
    <3>6. QED
      BY <3>3, <3>4, <3>5
  <2>4. CASE C!Response(Port!BValid, Port!BOk)
    <3> DEFINE error == cwr.error \/ ~Port!BOk
    <3>1. error \in BOOLEAN
      OBVIOUS
    <3>2. /\ cwr.state = "B"
          /\ ~answered => cwr' = [cwr EXCEPT !.done = FALSE]
          /\ answered /\ cwr.remaining = cwr.burst =>
               cwr' = [cwr EXCEPT !.done = TRUE, !.error = error, !.state = "IDLE", !.remaining = 0]
          /\ answered /\ cwr.remaining # cwr.burst =>
               cwr' = [cwr EXCEPT !.done = FALSE, !.error = error, !.state = "AW",
                                  !.remaining = cwr.remaining - cwr.burst,
                                  !.addr = (cwr.addr + cwr.burst) % AddrWords]
      BY <2>4, Zenon DEF C!Response, C!Hold, C!Answered, C!LastAnswered, C!NextRequest
    <3> HIDE DEF error, answered
    <3>3. QED
      BY <3>1, <3>2, Zenon DEF WriterRule
  <2>5. QED
    BY <2>1, <2>2, <2>3, <2>4, Zenon DEF CClock
<1> HIDE DEF start, grant, fire, answered
<1>3. cwr' \in WriteRegs /\ WriterStep(cwr, cwr', start, base, words, grant, fire, answered)
  BY <1>2, WriterRules, Zenon
<1>4. QED
  BY <1>3, Zenon DEF start, grant, fire, answered

-----------------------------------------------------------------------------
(* The operands on their way: each reader has asked for the words the       *)
(* engine has not got, and the port delivers them in order.                 *)
WordsA == (D["M"] * D["K"] + 3) \div 4
WordsB == (D["K"] * D["N"] + 3) \div 4
Loading == startQ.q \/ eng.state = "LOAD"
GotA == IF startQ.q THEN 0 ELSE eng.a
GotB == IF startQ.q THEN 0 ELSE eng.b

(* A reader of words from cell first on, of which got have passed. *)
ReaderLoads(r, first, words, got) ==
  /\ r.state \in {"IDLE", "AR", "R"} /\ r.error = FALSE /\ got \in 0 .. words
  /\ r.state = "IDLE" => got = words
  /\ r.state = "AR" =>
       /\ r.remaining \in 1 .. words /\ got = words - r.remaining
       /\ r.addr = Base + first + got
  /\ r.state = "R" =>
       /\ r.remaining \in 1 .. words /\ r.burst \in 1 .. r.remaining /\ r.beats \in 1 .. r.burst
       /\ got = words - r.remaining + r.burst - r.beats
       /\ r.addr = Base + first + words - r.remaining

(* The read side r of the port gives its popLeft words of the RAM cells from *)
(* next on: what its FIFO holds, then what the RAM is about to return, back, *)
(* then the rest.                                                            *)
FifoServes(r, next, cells, back) ==
  /\ r.popLeft >= 1 /\ next >= 0 /\ next + r.popLeft <= Depth
  /\ r.count >= 0 /\ r.issueLeft >= 0
  /\ r.count + Port!Bit(r.pending) <= 2
  /\ r.count + Port!Bit(r.pending) + r.issueLeft = r.popLeft
  /\ r.count > 0 => r.data[r.head] = cells[next] /\ (r.last[r.head] <=> r.popLeft = 1)
  /\ r.count > 1 => r.data[1 - r.head] = cells[next + 1] /\ (r.last[1 - r.head] <=> r.popLeft = 2)
  /\ r.pending => back = cells[next + r.count] /\ (r.pendingLast <=> r.popLeft = r.count + 1)
  /\ r.issueLeft > 0 => r.word = next + r.count + Port!Bit(r.pending)

Serving(next) == rp.state = "BURST" /\ FifoServes(rp, next, ram, rdata)
FifoQuiet(r) == r.state = "IDLE" /\ r.count = 0 /\ ~r.pending
PortQuiet == FifoQuiet(rp)

(* The registers of the port; the words in its FIFO are those of the RAM,   *)
(* whatever they are.                                                       *)
FifoTyped(r) ==
  /\ r = [state |-> r.state, toB |-> r.toB, preferB |-> r.preferB, word |-> r.word,
          issueLeft |-> r.issueLeft, popLeft |-> r.popLeft, pending |-> r.pending,
          pendingLast |-> r.pendingLast, data |-> r.data, last |-> r.last,
          count |-> r.count, head |-> r.head]
  /\ r.toB \in BOOLEAN /\ r.preferB \in BOOLEAN /\ r.word \in Int
  /\ r.issueLeft \in Int /\ r.popLeft \in Int /\ r.pending \in BOOLEAN
  /\ r.pendingLast \in BOOLEAN /\ r.data = [i \in 0 .. 1 |-> r.data[i]]
  /\ r.last \in [0 .. 1 -> BOOLEAN] /\ r.count \in Int /\ r.head \in 0 .. 1

PortTyped ==
  /\ FifoTyped(rp)
  /\ wp \in [state : {"IDLE", "DATA", "RESP"}, word : Int, left : Int, err : BOOLEAN]
  /\ ram = [x \in 0 .. Depth - 1 |-> ram[x]]

(* The write side serves the C mover and no one else. *)
WriterServed ==
  /\ cwr.state = "AW" => cwr.remaining >= 1
  /\ cwr.state \in {"W", "B"} => cwr.burst \in 1 .. cwr.remaining
  /\ cwr.state = "W" => cwr.beats \in 1 .. cwr.burst /\ wp.state = "DATA" /\ wp.left = cwr.beats
  /\ cwr.state = "B" => wp.state = "RESP"
  /\ cwr.state \in {"IDLE", "AW"} => wp.state = "IDLE"

PortServes ==
  Loading =>
    /\ ard.state = "R" =>
         /\ rp.toB = FALSE /\ rp.popLeft = ard.beats /\ Serving(Cell(D["A_BASE"]) + GotA)
    /\ brd.state = "R" =>
         /\ rp.toB = TRUE /\ rp.popLeft = brd.beats /\ Serving(Cell(D["B_BASE"]) + GotB)
    /\ ard.state # "R" /\ brd.state # "R" => PortQuiet

LoadsOperands ==
  /\ Loading => /\ ReaderLoads(ard, Cell(D["A_BASE"]), WordsA, GotA)
                /\ ReaderLoads(brd, Cell(D["B_BASE"]), WordsB, GotB)
                /\ wp.state = "IDLE" /\ ram = job.ram
                /\ GotA < WordsA \/ GotB < WordsB
  /\ startQ.q => ard.state = "AR" /\ brd.state = "AR"
  /\ ~Loading => ard.state = "IDLE" /\ brd.state = "IDLE" /\ PortQuiet

Operands == PortTyped /\ WriterServed /\ PortServes /\ LoadsOperands

(* The read side of the port, register by register.                         *)
ReadyA == A!RReady(Engine!AInReady)
ReadyB == B!RReady(Engine!BInReady)
Pop == Port!OutPop(ReadyA, ReadyB)

IssueOf(o, pop) ==
  o.state = "BURST" /\ o.issueLeft # 0 /\ o.count + Port!Bit(o.pending) - Port!Bit(pop) < 2
HeadOf(o, pop) == IF pop THEN 1 - o.head ELSE o.head
SlotOf(o, pop) == (HeadOf(o, pop) + o.count - Port!Bit(pop)) % 2

(* What n keeps and what it takes in, when word back returns from the RAM.  *)
FifoMoves(o, n, pop, back) ==
  /\ FifoTyped(n)
  /\ n.count = o.count - Port!Bit(pop) + Port!Bit(o.pending)
  /\ n.head = HeadOf(o, pop)
  /\ \A i \in 0 .. 1 :
       /\ n.data[i] = IF o.pending /\ i = SlotOf(o, pop) THEN back ELSE o.data[i]
       /\ n.last[i] <=> IF o.pending /\ i = SlotOf(o, pop) THEN o.pendingLast ELSE o.last[i]
  /\ n.pending <=> IssueOf(o, pop)

FifoIssues(o, n, pop) ==
  /\ n.pendingLast <=> IssueOf(o, pop) /\ o.issueLeft = 1
  /\ n.word = IF IssueOf(o, pop) THEN (o.word + 1) % Depth ELSE o.word
  /\ n.issueLeft = IF IssueOf(o, pop) THEN o.issueLeft - 1 ELSE o.issueLeft

Streams(o, n, pop, back, state, left) ==
  /\ FifoMoves(o, n, pop, back) /\ FifoIssues(o, n, pop)
  /\ n.state = state /\ n.popLeft = left /\ n.toB = o.toB

LEMMA FifoTyping ==
  ASSUME NEW r,
         r = [state |-> r.state, toB |-> r.toB, preferB |-> r.preferB, word |-> r.word,
              issueLeft |-> r.issueLeft, popLeft |-> r.popLeft, pending |-> r.pending,
              pendingLast |-> r.pendingLast, data |-> r.data, last |-> r.last,
              count |-> r.count, head |-> r.head],
         r.toB \in BOOLEAN, r.preferB \in BOOLEAN, r.word \in Int, r.issueLeft \in Int,
         r.popLeft \in Int, r.pending \in BOOLEAN, r.pendingLast \in BOOLEAN,
         r.data = [i \in 0 .. 1 |-> r.data[i]],
         r.last \in [0 .. 1 -> BOOLEAN], r.count \in Int, r.head \in 0 .. 1
  PROVE  FifoTyped(r)
  BY Zenon DEF FifoTyped

LEMMA FifoFields ==
  ASSUME NEW state, NEW toB, NEW preferB, NEW word, NEW issueLeft, NEW popLeft, NEW pending,
         NEW pendingLast, NEW data, NEW last, NEW count, NEW head, NEW r,
         r = [state |-> state, toB |-> toB, preferB |-> preferB, word |-> word,
              issueLeft |-> issueLeft, popLeft |-> popLeft, pending |-> pending,
              pendingLast |-> pendingLast, data |-> data, last |-> last,
              count |-> count, head |-> head]
  PROVE  /\ r.state = state /\ r.toB = toB /\ r.preferB = preferB /\ r.word = word
         /\ r.issueLeft = issueLeft /\ r.popLeft = popLeft /\ r.pending = pending
         /\ r.pendingLast = pendingLast /\ r.data = data /\ r.last = last
         /\ r.count = count /\ r.head = head
  OBVIOUS

LEMMA FifoHandsOver ==
  ASSUME NEW state, NEW toB, NEW preferB, NEW word, NEW issueLeft, NEW popLeft, NEW pending,
         NEW pendingLast, NEW data, NEW last, NEW count, NEW head, NEW left, NEW goes, NEW r, NEW n,
         r = [state |-> state, toB |-> toB, preferB |-> preferB, word |-> word,
              issueLeft |-> issueLeft, popLeft |-> popLeft, pending |-> pending,
              pendingLast |-> pendingLast, data |-> data, last |-> last,
              count |-> count, head |-> head],
         n = [r EXCEPT !.popLeft = left, !.state = goes]
  PROVE  n = [state |-> goes, toB |-> toB, preferB |-> preferB, word |-> word,
              issueLeft |-> issueLeft, popLeft |-> left, pending |-> pending,
              pendingLast |-> pendingLast, data |-> data, last |-> last,
              count |-> count, head |-> head]
  OBVIOUS

(* A clock that grants nothing: the words move, and at most one leaves.     *)
LEMMA PortStream ==
  ASSUME FifoTyped(rp), NEW pop, NEW state, NEW popLeft \in Int, NEW n,
         \/ n = [Port!Stream(pop) EXCEPT !.popLeft = popLeft, !.state = state]
         \/ n = Port!Stream(pop) /\ popLeft = rp.popLeft /\ state = rp.state
  PROVE  Streams(rp, n, pop, rdata, state, popLeft)
<1> DEFINE issue == IssueOf(rp, pop)
           head == HeadOf(rp, pop)
           slot == SlotOf(rp, pop)
           word == IF issue THEN (rp.word + 1) % Depth ELSE rp.word
           issueLeft == IF issue THEN rp.issueLeft - 1 ELSE rp.issueLeft
           pendingLast == issue /\ rp.issueLeft = 1
           data == IF rp.pending THEN [rp.data EXCEPT ![slot] = rdata] ELSE rp.data
           last == IF rp.pending THEN [rp.last EXCEPT ![slot] = rp.pendingLast] ELSE rp.last
           count == rp.count - Port!Bit(pop) + Port!Bit(rp.pending)
<1>1. /\ rp.toB \in BOOLEAN /\ rp.preferB \in BOOLEAN /\ rp.word \in Int
      /\ rp.issueLeft \in Int /\ rp.popLeft \in Int /\ rp.pending \in BOOLEAN
      /\ rp.pendingLast \in BOOLEAN /\ rp.data = [i \in 0 .. 1 |-> rp.data[i]]
      /\ rp.last \in [0 .. 1 -> BOOLEAN] /\ rp.count \in Int /\ rp.head \in 0 .. 1
  BY Zenon DEF FifoTyped
<1>2. issue \in BOOLEAN /\ pendingLast \in BOOLEAN
  BY Zenon DEF IssueOf
<1>3. word \in Int
  <2>1. rp.word + 1 \in Int
    BY <1>1
  <2>2. (rp.word + 1) % Depth \in Int
    BY <2>1, ModuloRangeInt, Constants
  <2>3. QED
    BY <1>1, <2>2
<1>4. issueLeft \in Int /\ head \in 0 .. 1 /\ count \in Int
  BY <1>1 DEF HeadOf, Port!Bit
<1>5. slot \in 0 .. 1
  BY <1>1, <1>4 DEF SlotOf, Port!Bit
<1>6. data = [i \in 0 .. 1 |-> data[i]] /\ last \in [0 .. 1 -> BOOLEAN]
  BY <1>1, <1>5, Zenon
<1>7. \A i \in 0 .. 1 :
        /\ data[i] = IF rp.pending /\ i = slot THEN rdata ELSE rp.data[i]
        /\ last[i] <=> IF rp.pending /\ i = slot THEN rp.pendingLast ELSE rp.last[i]
  BY <1>1, <1>5, Zenon
<1>8. Port!Stream(pop) =
        [rp EXCEPT !.pending = issue, !.pendingLast = pendingLast, !.word = word,
                   !.issueLeft = issueLeft, !.data = data, !.last = last, !.count = count,
                   !.head = head]
  BY Zenon DEF Port!Stream, Port!Issue, Port!Occupancy, Port!HeadAfterPop, Port!PushSlot, IssueOf, HeadOf,
     SlotOf
<1> HIDE DEF issue, head, slot, word, issueLeft, pendingLast, data, last, count
<1>9. n = [state |-> state, toB |-> rp.toB, preferB |-> rp.preferB, word |-> word,
           issueLeft |-> issueLeft, popLeft |-> popLeft, pending |-> issue,
           pendingLast |-> pendingLast, data |-> data, last |-> last, count |-> count,
           head |-> head]
  <2>1. rp = [state |-> rp.state, toB |-> rp.toB, preferB |-> rp.preferB, word |-> rp.word,
              issueLeft |-> rp.issueLeft, popLeft |-> rp.popLeft, pending |-> rp.pending,
              pendingLast |-> rp.pendingLast, data |-> rp.data, last |-> rp.last,
              count |-> rp.count, head |-> rp.head]
    BY Zenon DEF FifoTyped
  <2>2. Port!Stream(pop) =
          [state |-> rp.state, toB |-> rp.toB, preferB |-> rp.preferB, word |-> word,
           issueLeft |-> issueLeft, popLeft |-> rp.popLeft, pending |-> issue,
           pendingLast |-> pendingLast, data |-> data, last |-> last, count |-> count,
           head |-> head]
    BY <1>8, <2>1
  <2>3. CASE n = [Port!Stream(pop) EXCEPT !.popLeft = popLeft, !.state = state]
    <3> DEFINE s == Port!Stream(pop)
    <3>1. n = [s EXCEPT !.popLeft = popLeft, !.state = state]
      BY <2>3, Zenon
    <3>2. s = [state |-> rp.state, toB |-> rp.toB, preferB |-> rp.preferB, word |-> word,
               issueLeft |-> issueLeft, popLeft |-> rp.popLeft, pending |-> issue,
               pendingLast |-> pendingLast, data |-> data, last |-> last, count |-> count,
               head |-> head]
      BY <2>2, Zenon
    <3> HIDE DEF s
    <3>3. QED
      BY <3>1, <3>2, FifoHandsOver, Zenon
  <2>4. CASE n = Port!Stream(pop) /\ popLeft = rp.popLeft /\ state = rp.state
    BY <2>2, <2>4
  <2>5. QED
    BY <2>3, <2>4
<1>10. /\ n.state = state /\ n.toB = rp.toB /\ n.preferB = rp.preferB /\ n.word = word
       /\ n.issueLeft = issueLeft /\ n.popLeft = popLeft /\ n.pending = issue
       /\ n.pendingLast = pendingLast /\ n.data = data /\ n.last = last /\ n.count = count
       /\ n.head = head
  BY <1>9, FifoFields, Zenon
<1>11. FifoTyped(n)
  BY <1>1, <1>2, <1>3, <1>4, <1>6, <1>9, <1>10, FifoTyping, Zenon
<1>12. FifoMoves(rp, n, pop, rdata)
  BY <1>7, <1>10, <1>11, Zenon DEF FifoMoves, issue, head, slot, count
<1>13. FifoIssues(rp, n, pop)
  BY <1>10, Zenon DEF FifoIssues, issue, pendingLast, word, issueLeft
<1>14. QED
  BY <1>10, <1>12, <1>13, Zenon DEF Streams

LEMMA PortStands ==
  ASSUME FifoTyped(rp), NEW pop, NEW n, n = Port!Stream(pop)
  PROVE  Streams(rp, n, pop, rdata, rp.state, rp.popLeft)
<1> DEFINE state == rp.state
           left == rp.popLeft
<1>1. left \in Int
  BY Zenon DEF FifoTyped
<1>2. n = Port!Stream(pop) /\ left = rp.popLeft /\ state = rp.state
  OBVIOUS
<1> HIDE DEF state, left
<1>3. Streams(rp, n, pop, rdata, state, left)
  BY <1>1, <1>2, PortStream, Zenon
<1>4. QED
  BY <1>3, Zenon DEF state, left

(* A granted request of words from cell next on is served from there.       *)
LEMMA PortGrant ==
  ASSUME FifoTyped(rp), PortQuiet, NEW req, NEW next \in Int, NEW words \in Int,
         next >= 0, words >= 1, next + words <= Depth,
         req.plain, req.addr = Base + next, req.len = words - 1,
         Port!Chosen(ARequest, BRequest) = req,
         Port!StartRead(ARequest, BRequest), NEW ready1, NEW ready2,
         Port!ReadSide(ARequest, BRequest, ready1, ready2), NEW cells, NEW back
  PROVE  /\ FifoTyped(rp') /\ rp'.state = "BURST" /\ FifoServes(rp', next, cells, back)
         /\ rp'.toB = Port!PickB(ARequest, BRequest) /\ rp'.popLeft = words
<1> DEFINE pop == Port!OutPop(ready1, ready2)
           s == Port!Stream(pop)
           toB == Port!PickB(ARequest, BRequest)
<1>1. pop = FALSE
  BY DEF Port!OutPop, Port!OutValid, PortQuiet, FifoQuiet
<1> HIDE DEF pop, s
<1>3. FifoMoves(rp, s, pop, rdata)
  <2>1. rp.popLeft \in Int
    BY DEF FifoTyped
  <2>2. s = Port!Stream(pop)
    BY DEF s
  <2>3. Streams(rp, s, pop, rdata, rp.state, rp.popLeft)
    BY <2>1, <2>2, PortStands, Zenon
  <2>4. QED
    BY <2>3, Zenon DEF Streams
<1>4. FifoTyped(s) /\ s.count = 0 /\ ~s.pending
  <2>1. /\ FifoTyped(s) /\ s.count = rp.count - Port!Bit(pop) + Port!Bit(rp.pending)
        /\ s.pending <=> IssueOf(rp, pop)
    BY <1>3, Zenon DEF FifoMoves
  <2>2. rp.count = 0 /\ ~rp.pending /\ rp.state = "IDLE"
    BY DEF PortQuiet, FifoQuiet
  <2>3. QED
    BY <1>1, <2>1, <2>2 DEF IssueOf, Port!Bit
<1>5. Port!WordOf(req) = next
  <2>1. req.addr - Base = next /\ next \in 0 .. Depth - 1
    BY Constants
  <2>2. QED
    BY <2>1, ModuloSmall, Constants DEF Port!WordOf
<1>6. Port!Acceptable(req)
  BY Constants DEF Port!Acceptable
<1>7. req.len + 1 = words
  OBVIOUS
<1>8. toB \in BOOLEAN
  BY DEF Port!PickB
<1>9. rp' = [s EXCEPT !.toB = toB, !.preferB = ~toB, !.word = next, !.issueLeft = words,
                      !.popLeft = words, !.state = "BURST"]
  BY <1>5, <1>6, <1>7, Zenon DEF Port!ReadSide, Port!GrantRead, s, pop
<1> HIDE DEF toB
<1> DEFINE r == rp'
<1>10. r = [s EXCEPT !.toB = toB, !.preferB = ~toB, !.word = next, !.issueLeft = words,
                     !.popLeft = words, !.state = "BURST"]
  BY <1>9
<1> HIDE DEF r
<1>11. /\ s.toB \in BOOLEAN /\ s.preferB \in BOOLEAN /\ s.pending \in BOOLEAN
       /\ s.pendingLast \in BOOLEAN /\ s.data = [i \in 0 .. 1 |-> s.data[i]]
       /\ s.last \in [0 .. 1 -> BOOLEAN] /\ s.count \in Int /\ s.head \in 0 .. 1
  BY <1>4, Zenon DEF FifoTyped
<1> DEFINE notB == ~toB
<1>12. notB \in BOOLEAN
  OBVIOUS
<1>13. r = [s EXCEPT !.toB = toB, !.preferB = notB, !.word = next, !.issueLeft = words,
                     !.popLeft = words, !.state = "BURST"]
  BY <1>10
<1> HIDE DEF notB
<1>14. r = [state |-> "BURST", toB |-> toB, preferB |-> notB, word |-> next,
            issueLeft |-> words, popLeft |-> words, pending |-> s.pending,
            pendingLast |-> s.pendingLast, data |-> s.data, last |-> s.last,
            count |-> s.count, head |-> s.head]
  BY <1>4, <1>13 DEF FifoTyped
<1>15. /\ r.state = "BURST" /\ r.toB = toB /\ r.preferB = notB /\ r.word = next
       /\ r.issueLeft = words /\ r.popLeft = words /\ r.pending = s.pending
       /\ r.pendingLast = s.pendingLast /\ r.data = s.data /\ r.last = s.last
       /\ r.count = s.count /\ r.head = s.head
  BY <1>14
<1>16. FifoTyped(r)
  BY <1>8, <1>11, <1>12, <1>14, <1>15, FifoTyping, Zenon
<1>17. FifoServes(r, next, cells, back)
  <2>1. r.count = 0 /\ ~r.pending /\ r.issueLeft = words /\ r.popLeft = words /\ r.word = next
    BY <1>4, <1>15
  <2>2. QED
    BY <2>1, Constants DEF FifoServes, Port!Bit
<1>18. QED
  BY <1>15, <1>16, <1>17 DEF r, toB

(* One clock of a burst: the same words, one further on if one has left.    *)
ServedOn(o, n, next, pop, cells, data) ==
  /\ pop /\ o.popLeft = 1 => n.count = 0 /\ ~n.pending
  /\ ~(pop /\ o.popLeft = 1) => FifoServes(n, next + Port!Bit(pop), cells, data)

LEMMA ServesOn ==
  ASSUME NEW o, NEW n, NEW next \in Int, NEW pop, NEW cells, NEW back, NEW data,
         FifoTyped(o), o.state = "BURST", FifoServes(o, next, cells, back),
         FifoMoves(o, n, pop, back), FifoIssues(o, n, pop), pop => o.count # 0,
         data = cells[o.word], n.popLeft = o.popLeft - Port!Bit(pop)
  PROVE  ServedOn(o, n, next, pop, cells, data)
<1> DEFINE c == o.count
           i == o.issueLeft
           p == Port!Bit(o.pending)
           d == Port!Bit(pop)
           b == o.popLeft
           h == o.head
           issue == IssueOf(o, pop)
           e == Port!Bit(issue)
           first == HeadOf(o, pop)
           slot == SlotOf(o, pop)
<1>1. /\ c \in Int /\ h \in 0 .. 1 /\ i \in Int /\ b \in Int /\ o.word \in Int
  BY Zenon DEF FifoTyped
<1>2. /\ p = IF o.pending THEN 1 ELSE 0
      /\ d = IF pop THEN 1 ELSE 0
      /\ e = IF issue THEN 1 ELSE 0
  BY Zenon DEF Port!Bit
<1>3. /\ b >= 1 /\ next >= 0 /\ next + b <= Depth /\ c >= 0 /\ i >= 0 /\ c + p <= 2 /\ c + p + i = b
  BY Zenon DEF FifoServes
<1>4. c >= d
  BY <1>1, <1>2, <1>3
<1>5. /\ c > 0 => o.data[h] = cells[next] /\ (o.last[h] <=> b = 1)
      /\ c > 1 => o.data[1 - h] = cells[next + 1] /\ (o.last[1 - h] <=> b = 2)
      /\ o.pending => back = cells[next + c] /\ (o.pendingLast <=> b = c + 1)
      /\ i > 0 => o.word = next + c + p
  BY Zenon DEF FifoServes
<1>6. /\ issue <=> i # 0 /\ c + p - d < 2
      /\ first = IF pop THEN 1 - h ELSE h
      /\ slot = (first + c - d) % 2
  BY Zenon DEF IssueOf, HeadOf, SlotOf
<1>7. /\ n.count = c - d + p /\ n.head = first
      /\ \A k \in 0 .. 1 :
           /\ n.data[k] = IF o.pending /\ k = slot THEN back ELSE o.data[k]
           /\ n.last[k] <=> IF o.pending /\ k = slot THEN o.pendingLast ELSE o.last[k]
      /\ n.pending <=> issue
      /\ n.pendingLast <=> issue /\ i = 1
      /\ n.word = IF issue THEN (o.word + 1) % Depth ELSE o.word
      /\ n.issueLeft = IF issue THEN i - 1 ELSE i
      /\ n.popLeft = b - d
  BY Zenon DEF FifoMoves, FifoIssues
<1> HIDE DEF issue, first, slot, p, d, e, c, i, b, h
<1>8. CASE pop /\ b = 1
  <2>1. c = 1 /\ p = 0 /\ i = 0
    BY <1>1, <1>2, <1>3, <1>4, <1>8
  <2>2. ~issue /\ c - d + p = 0
    BY <1>2, <1>6, <1>8, <2>1
  <2>3. QED
    BY <1>7, <1>8, <2>2 DEF ServedOn, b
<1>9. CASE ~(pop /\ b = 1)
  <2>1. first \in 0 .. 1 /\ (1 - first) \in 0 .. 1
    BY <1>1, <1>6
  <2>2. ASSUME NEW k \in 0 .. 1, o.pending, k = slot
        PROVE  n.data[k] = cells[next + c] /\ (n.last[k] <=> b = c + 1)
    BY <1>5, <1>7, <2>2, Zenon
  <2>3. ASSUME NEW k \in 0 .. 1, ~(o.pending /\ k = slot)
        PROVE  n.data[k] = o.data[k] /\ (n.last[k] <=> o.last[k])
    BY <1>7, <2>3, Zenon
  <2>4. c - d + p > 0 => n.data[first] = cells[next + d] /\ (n.last[first] <=> b - d = 1)
    <3>1. CASE c - d = 0
      <4>1. SUFFICES ASSUME p > 0
            PROVE  n.data[first] = cells[next + d] /\ (n.last[first] <=> b - d = 1)
        BY <1>1, <1>2, <3>1
      <4>2. o.pending /\ first = slot /\ next + d = next + c /\ (b = c + 1 <=> b - d = 1)
        BY <1>1, <1>2, <1>6, <3>1, <4>1
      <4>3. QED
        BY <2>1, <2>2, <4>2, Zenon
    <3>2. CASE pop /\ c = 2
      <4>1. /\ ~o.pending /\ first = 1 - h /\ d = 1 /\ c > 1
            /\ b = 2 <=> b - d = 1
        BY <1>1, <1>2, <1>3, <1>6, <3>2
      <4>2. QED
        BY <1>5, <2>1, <2>3, <4>1, Zenon
    <3>3. CASE ~pop /\ c > 0
      <4>1. /\ ~(o.pending /\ first = slot) /\ first = h /\ next + d = next
            /\ b = 1 <=> b - d = 1
        BY <1>1, <1>2, <1>3, <1>6, <3>3
      <4>2. QED
        BY <1>5, <2>1, <2>3, <3>3, <4>1, Zenon
    <3>4. (c = 0 \/ c = 1 \/ c = 2) /\ (pop => d = 1) /\ (~pop => d = 0)
      BY <1>1, <1>2, <1>3
    <3>5. QED
      BY <1>4, <3>1, <3>2, <3>3, <3>4
  <2>5. c - d + p > 1 =>
          n.data[1 - first] = cells[next + d + 1] /\ (n.last[1 - first] <=> b - d = 2)
    <3>1. SUFFICES ASSUME c - d + p > 1
          PROVE  n.data[1 - first] = cells[next + d + 1] /\ (n.last[1 - first] <=> b - d = 2)
      OBVIOUS
    <3>2. ~pop /\ d = 0 /\ (c = 1 \/ c = 2)
      BY <1>1, <1>2, <1>3, <1>4, <3>1
    <3>3. CASE c = 1
      <4>1. /\ o.pending /\ 1 - first = slot /\ next + d + 1 = next + c
            /\ b = c + 1 <=> b - d = 2
        BY <1>1, <1>2, <1>6, <3>1, <3>2, <3>3
      <4>2. QED
        BY <2>1, <2>2, <4>1, Zenon
    <3>4. CASE c = 2
      <4>1. /\ ~o.pending /\ 1 - first = 1 - h /\ next + d + 1 = next + 1 /\ c > 1
            /\ b = 2 <=> b - d = 2
        BY <1>1, <1>2, <1>3, <1>6, <3>2, <3>4
      <4>2. QED
        BY <1>5, <2>1, <2>3, <4>1, Zenon
    <3>5. QED
      BY <3>2, <3>3, <3>4
  <2>6. issue => /\ data = cells[next + d + (c - d + p)]
                 /\ i = 1 <=> b - d = (c - d + p) + 1
    <3>1. SUFFICES ASSUME issue
          PROVE  data = cells[next + d + (c - d + p)] /\ (i = 1 <=> b - d = (c - d + p) + 1)
      OBVIOUS
    <3>2. o.word = next + d + (c - d + p)
      BY <1>1, <1>2, <1>3, <1>5, <1>6, <3>1
    <3>3. QED
      BY <1>1, <1>2, <1>3, <3>2
  <2>7. n.issueLeft > 0 => n.word = next + d + (c - d + p) + e
    <3>1. SUFFICES ASSUME n.issueLeft > 0
          PROVE  n.word = next + d + (c - d + p) + e
      OBVIOUS
    <3>2. o.word = next + c + p
      BY <1>1, <1>3, <1>5, <1>7, <3>1
    <3>3. CASE issue
      <4>1. i > 1
        BY <1>1, <1>7, <3>1, <3>3
      <4>2. o.word + 1 \in 0 .. Depth - 1
        BY <1>1, <1>2, <1>3, <3>2, <4>1, Constants
      <4>3. n.word = o.word + 1
        BY <1>7, <3>3, <4>2, ModuloSmall, Constants
      <4>4. QED
        BY <1>1, <1>2, <3>2, <3>3, <4>3
    <3>4. CASE ~issue
      BY <1>1, <1>2, <1>7, <3>2, <3>4
    <3>5. QED
      BY <3>3, <3>4
  <2>8. c - d + p + e <= 2 /\ c - d + p + e + n.issueLeft = b - d /\ n.issueLeft >= 0 /\ c - d + p >= 0
    <3>1. c - d + p + e <= 2 /\ c - d + p >= 0
      BY <1>1, <1>2, <1>3, <1>4, <1>6
    <3>2. n.issueLeft = i - e
      BY <1>1, <1>2, <1>7
    <3>3. QED
      BY <1>1, <1>2, <1>3, <1>6, <3>1, <3>2
  <2>9. b - d >= 1 /\ next + d >= 0 /\ next + d + (b - d) <= Depth
    BY <1>1, <1>2, <1>3, <1>9, Constants
  <2>10. Port!Bit(n.pending) = e
    BY <1>7, Zenon DEF Port!Bit, e
  <2> DEFINE m == next + d
  <2>11. /\ n.count > 0 => n.data[n.head] = cells[m] /\ (n.last[n.head] <=> n.popLeft = 1)
         /\ n.count > 1 => n.data[1 - n.head] = cells[m + 1] /\ (n.last[1 - n.head] <=> n.popLeft = 2)
    BY <1>7, <2>4, <2>5, Zenon
  <2>12. n.pending => data = cells[m + n.count] /\ (n.pendingLast <=> n.popLeft = n.count + 1)
    BY <1>7, <2>6, Zenon
  <2>13. n.issueLeft > 0 => n.word = m + n.count + Port!Bit(n.pending)
    BY <1>7, <2>7, <2>10, Zenon
  <2>14. /\ n.popLeft >= 1 /\ m >= 0 /\ m + n.popLeft <= Depth
         /\ n.count >= 0 /\ n.issueLeft >= 0 /\ n.count + Port!Bit(n.pending) <= 2
         /\ n.count + Port!Bit(n.pending) + n.issueLeft = n.popLeft
    BY <1>7, <2>8, <2>9, <2>10, Zenon
  <2> HIDE DEF m
  <2>15. FifoServes(n, m, cells, data)
    BY <2>11, <2>12, <2>13, <2>14, Zenon DEF FifoServes
  <2>16. QED
    BY <1>9, <2>15 DEF ServedOn, m, d, b
<1>10. QED
  BY <1>8, <1>9

LEMMA BurstBounds ==
  ASSUME NEW o, o.remaining \in Int, o.addr \in Int, o.remaining >= 1
  PROVE  BurstOf(o) \in 1 .. o.remaining
<1>1. o.addr % PageWords \in 0 .. PageWords - 1
  BY Constants, ModuloRangeInt
<1>2. QED
  BY <1>1, Constants DEF BurstOf

(* A reader of words that lie in the window, one clock on.                  *)
LEMMA LoadsOn ==
  ASSUME NEW o \in ReadRegs, NEW n \in ReadRegs, NEW first \in Int, NEW words \in Int,
         NEW got \in Int, NEW more, NEW start, NEW base, NEW total, NEW grant, NEW fire, NEW good,
         first >= 0, words >= 1, first + words <= Depth, ~start,
         ReaderLoads(o, first, words, got),
         ReaderStep(o, n, start, base, total, grant, fire, good),
         o.state = "R" /\ fire => good,
         more = IF o.state = "R" /\ fire THEN got + 1 ELSE got
  PROVE  /\ ReaderLoads(n, first, words, more)
         /\ n.state = "R" <=>
              (o.state = "AR" /\ grant) \/ (o.state = "R" /\ ~(fire /\ o.beats = 1))
         /\ o.state = "AR" /\ grant => n.beats = BurstOf(o)
         /\ o.state = "R" /\ n.state = "R" => n.beats = o.beats - (IF fire THEN 1 ELSE 0)
<1>1. /\ o.addr \in Int /\ o.remaining \in Int /\ o.burst \in Int /\ o.beats \in Int
      /\ n.addr \in Int /\ n.remaining \in Int /\ n.burst \in Int /\ n.beats \in Int
      /\ o.state \in {"IDLE", "AR", "R"} /\ o.error = FALSE /\ got \in 0 .. words
  BY DEF ReadRegs, ReaderLoads
<1>2. CASE o.state = "IDLE"
  <2>1. n.state = "IDLE" /\ n.error = FALSE
    BY <1>1, <1>2, Zenon DEF ReaderStep, SameJob
  <2>2. QED
    BY <1>1, <1>2, <2>1 DEF ReaderLoads
<1>3. CASE o.state = "AR" /\ ~grant
  <2>1. n.state = "AR" /\ SameJob(o, n)
    BY <1>3, Zenon DEF ReaderStep
  <2>2. QED
    BY <1>1, <1>3, <2>1 DEF ReaderLoads, SameJob
<1>4. CASE o.state = "AR" /\ grant
  <2>1. n.state = "R" /\ SameJob(o, n) /\ n.burst = BurstOf(o) /\ n.beats = BurstOf(o)
    BY <1>4, Zenon DEF ReaderStep
  <2>2. o.remaining \in 1 .. words /\ got = words - o.remaining /\ o.addr = Base + first + got
    BY <1>4 DEF ReaderLoads
  <2>3. BurstOf(o) \in 1 .. o.remaining
    BY <1>1, <2>2, BurstBounds
  <2>4. QED
    BY <1>1, <1>4, <2>1, <2>2, <2>3, Constants DEF ReaderLoads, SameJob
<1>5. ASSUME o.state = "R"
      PROVE  /\ o.remaining \in 1 .. words /\ o.burst \in 1 .. o.remaining /\ o.beats \in 1 .. o.burst
             /\ got = words - o.remaining + o.burst - o.beats
             /\ o.addr = Base + first + words - o.remaining
  BY <1>5 DEF ReaderLoads
<1>6. CASE o.state = "R" /\ ~fire
  <2>1. n.state = "R" /\ SameJob(o, n) /\ n.burst = o.burst /\ n.beats = o.beats
    BY <1>6, Zenon DEF ReaderStep
  <2>2. QED
    BY <1>1, <1>5, <1>6, <2>1 DEF ReaderLoads, SameJob
<1>7. CASE o.state = "R" /\ fire /\ o.beats # 1
  <2>1. n.state = "R" /\ SameJob(o, n) /\ n.burst = o.burst /\ n.beats = o.beats - 1
    BY <1>7, Zenon DEF ReaderStep
  <2>2. QED
    BY <1>1, <1>5, <1>7, <2>1 DEF ReaderLoads, SameJob
<1>8. CASE o.state = "R" /\ fire /\ o.beats = 1 /\ o.remaining # o.burst
  <2>1. /\ n.state = "AR" /\ n.remaining = o.remaining - o.burst
        /\ n.addr = (o.addr + o.burst) % AddrWords /\ n.error = FALSE
    BY <1>1, <1>8, Zenon DEF ReaderStep
  <2>2. o.addr + o.burst \in 0 .. AddrWords - 1
    BY <1>1, <1>5, <1>8, Constants
  <2>3. n.addr = o.addr + o.burst
    BY <2>1, <2>2, ModuloSmall, Constants
  <2>4. n.remaining \in 1 .. words /\ more = words - n.remaining /\ more \in 0 .. words
    BY <1>1, <1>5, <1>8, <2>1
  <2>5. n.addr = Base + first + more
    BY <1>1, <1>5, <1>8, <2>1, <2>3, <2>4, Constants
  <2>6. ReaderLoads(n, first, words, more)
    BY <2>1, <2>4, <2>5, Zenon DEF ReaderLoads
  <2>7. QED
    BY <1>8, <2>1, <2>6
<1>9. CASE o.state = "R" /\ fire /\ o.beats = 1 /\ o.remaining = o.burst
  <2>1. n.state = "IDLE" /\ n.error = FALSE
    BY <1>1, <1>9, Zenon DEF ReaderStep
  <2>2. QED
    BY <1>1, <1>5, <1>9, <2>1 DEF ReaderLoads
<1>10. QED
  BY <1>1, <1>2, <1>3, <1>4, <1>6, <1>7, <1>8, <1>9

(* All words have passed only when the reader is at rest.                   *)
LEMMA LoadsEnd ==
  ASSUME NEW r \in ReadRegs, NEW first, NEW words \in Int, NEW got \in Int,
         ReaderLoads(r, first, words, got)
  PROVE  got >= words <=> r.state = "IDLE"
  BY DEF ReadRegs, ReaderLoads

(* The port at rest, and a burst of it that is under way.                   *)
LEMMA PortRests ==
  ASSUME FifoTyped(rp), PortQuiet, ~Port!StartRead(ARequest, BRequest),
         Port!ReadSide(ARequest, BRequest, ReadyA, ReadyB)
  PROVE  FifoTyped(rp)' /\ PortQuiet'
<1>1. Pop = FALSE /\ ~Port!ErrPop(ReadyA, ReadyB)
  BY DEF Pop, Port!OutPop, Port!OutValid, Port!ErrPop, Port!ErrValid, PortQuiet, FifoQuiet
<1>2. rp' = Port!Stream(Pop)
  BY <1>1, Zenon DEF Port!ReadSide, Pop
<1>3. Streams(rp, rp', Pop, rdata, rp.state, rp.popLeft)
  BY <1>2, PortStands, Zenon
<1>4. FifoMoves(rp, rp', Pop, rdata) /\ rp'.state = rp.state
  BY <1>3, Zenon DEF Streams
<1>5. /\ FifoTyped(rp') /\ rp'.count = rp.count - Port!Bit(Pop) + Port!Bit(rp.pending)
      /\ rp'.pending <=> IssueOf(rp, Pop)
  BY <1>4, Zenon DEF FifoMoves
<1>6. rp.count = 0 /\ ~rp.pending /\ rp.state = "IDLE"
  BY DEF PortQuiet, FifoQuiet
<1>7. QED
  BY <1>1, <1>4, <1>5, <1>6 DEF FifoTyped, PortQuiet, FifoQuiet, IssueOf, Port!Bit

LEMMA PortServesOn ==
  ASSUME FifoTyped(rp), NEW next \in Int, Serving(next),
         Port!ReadSide(ARequest, BRequest, ReadyA, ReadyB), rdata' = ram[rp.word], ram' = ram
  PROVE  /\ FifoTyped(rp)' /\ rp'.toB = rp.toB /\ rp'.popLeft = rp.popLeft - Port!Bit(Pop)
         /\ Pop /\ rp.popLeft = 1 => PortQuiet'
         /\ ~(Pop /\ rp.popLeft = 1) =>
              rp'.state = "BURST" /\ FifoServes(rp', next + Port!Bit(Pop), ram', rdata')
<1>1. rp.state = "BURST" /\ FifoServes(rp, next, ram, rdata) /\ rp.popLeft \in Int
  BY DEF Serving, FifoTyped
<1>2. ~Port!StartRead(ARequest, BRequest) /\ ~Port!ErrPop(ReadyA, ReadyB) /\ (Pop => rp.count # 0)
  BY <1>1 DEF Port!StartRead, Port!ErrPop, Port!ErrValid, Pop, Port!OutPop, Port!OutValid
<1> DEFINE left == rp.popLeft - Port!Bit(Pop)
           state == IF Pop /\ rp.popLeft = 1 THEN "IDLE" ELSE "BURST"
<1>3. left \in Int /\ (Pop => left = rp.popLeft - 1) /\ (~Pop => left = rp.popLeft)
  BY <1>1 DEF Port!Bit
<1>4. \/ rp' = [Port!Stream(Pop) EXCEPT !.popLeft = left, !.state = state]
      \/ rp' = Port!Stream(Pop) /\ left = rp.popLeft /\ state = rp.state
  <2>1. CASE Pop
    <3>1. rp' = Port!HandOver(Pop)
      BY <1>2, <2>1, Zenon DEF Port!ReadSide, Pop
    <3>2. Port!Stream(Pop).popLeft = rp.popLeft /\ Port!Stream(Pop).state = "BURST"
      <4> DEFINE s == Port!Stream(Pop)
      <4>1. s = Port!Stream(Pop)
        OBVIOUS
      <4> HIDE DEF s
      <4>2. Streams(rp, s, Pop, rdata, rp.state, rp.popLeft)
        BY <4>1, PortStands, Zenon
      <4>3. QED
        BY <1>1, <4>1, <4>2, Zenon DEF Streams
    <3>3. rp' = [Port!Stream(Pop) EXCEPT !.popLeft = left, !.state = state]
      BY <1>3, <2>1, <3>1, <3>2, Zenon DEF Port!HandOver
    <3>4. QED
      BY <3>3
  <2>2. CASE ~Pop
    BY <1>1, <1>2, <1>3, <2>2, Zenon DEF Port!ReadSide, Pop
  <2>3. QED
    BY <2>1, <2>2
<1> DEFINE n == rp'
           data == rdata'
<1>5. /\ \/ n = [Port!Stream(Pop) EXCEPT !.popLeft = left, !.state = state]
         \/ n = Port!Stream(Pop) /\ left = rp.popLeft /\ state = rp.state
      /\ data = ram[rp.word] /\ left = rp.popLeft - Port!Bit(Pop)
  BY <1>4, Zenon
<1>6. /\ Pop /\ rp.popLeft = 1 => state = "IDLE"
      /\ ~(Pop /\ rp.popLeft = 1) => state = "BURST"
  OBVIOUS
<1> HIDE DEF left, state, n, data
<1>7. /\ FifoMoves(rp, n, Pop, rdata) /\ FifoIssues(rp, n, Pop)
      /\ n.state = state /\ n.popLeft = left /\ n.toB = rp.toB
  <2>1. Streams(rp, n, Pop, rdata, state, left)
    BY <1>3, <1>5, PortStream, Zenon
  <2>2. QED
    BY <2>1, Zenon DEF Streams
<1>8. FifoTyped(n) /\ n.popLeft = rp.popLeft - Port!Bit(Pop)
  BY <1>5, <1>7, Zenon DEF FifoMoves
<1>9. /\ Pop /\ rp.popLeft = 1 => n.count = 0 /\ ~n.pending
      /\ ~(Pop /\ rp.popLeft = 1) => FifoServes(n, next + Port!Bit(Pop), ram, data)
  <2>1. ServedOn(rp, n, next, Pop, ram, data)
    BY <1>1, <1>2, <1>5, <1>7, <1>8, ServesOn, Zenon
  <2>2. QED
    BY <2>1, Zenon DEF ServedOn
<1>10. FifoTyped(rp)'
  BY <1>8 DEF n, FifoTyped
<1>11. Pop /\ rp.popLeft = 1 => PortQuiet'
  BY <1>6, <1>7, <1>9, Zenon DEF n, PortQuiet, FifoQuiet
<1>12. QED
  BY <1>6, <1>7, <1>8, <1>9, <1>10, <1>11, Zenon DEF n, data

(* The write side of the port, field by field.                              *)
WpRegs == [state : {"IDLE", "DATA", "RESP"}, word : Int, left : Int, err : BOOLEAN]

WpStep(a, b, c, beat, bready) ==
  /\ wp' \in WpRegs
  /\ wp.state = "IDLE" /\ ~Port!StartWrite(a, b, c) => wp' = wp
  /\ wp.state = "IDLE" /\ Port!StartWrite(a, b, c) =>
       /\ wp'.state = "DATA" /\ wp'.left = c.len + 1
       /\ wp'.word = (c.addr - Base) % Depth /\ (wp'.err <=> ~Port!Acceptable(c))
  /\ wp.state = "DATA" /\ ~beat.valid => wp' = wp
  /\ wp.state = "DATA" /\ beat.valid /\ ~Port!BurstEnds(beat) =>
       /\ wp'.state = "DATA" /\ wp'.left = wp.left - 1
       /\ wp'.word = (wp.word + 1) % Depth /\ (wp'.err <=> wp.err \/ Port!LastMisplaced(beat))
  /\ wp.state = "DATA" /\ beat.valid /\ Port!BurstEnds(beat) => wp'.state = "RESP"
  /\ wp.state = "RESP" => wp'.state = IF bready THEN "IDLE" ELSE "RESP"

LEMMA WpSteps ==
  ASSUME wp \in WpRegs, NEW a, NEW b, NEW c, NEW beat, NEW bready, c.addr \in Int, c.len \in Int,
         Port!WriteSide(a, b, c, beat, bready)
  PROVE  WpStep(a, b, c, beat, bready)
<1> DEFINE word == (c.addr - Base) % Depth
           len == c.len + 1
           err == ~Port!Acceptable(c)
           word2 == (wp.word + 1) % Depth
           left == wp.left - 1
           err2 == wp.err \/ Port!LastMisplaced(beat)
           goes == IF Port!BurstEnds(beat) THEN "RESP" ELSE "DATA"
           rests == IF bready THEN "IDLE" ELSE "RESP"
<1>1. wp.word \in Int /\ wp.left \in Int /\ wp.state \in {"IDLE", "DATA", "RESP"} /\ wp.err \in BOOLEAN
  BY DEF WpRegs
<1>2. word \in Int /\ word2 \in Int
  <2>1. c.addr - Base \in Int /\ wp.word + 1 \in Int
    BY <1>1, Constants
  <2>2. QED
    BY <2>1, ModuloRangeInt, Constants
<1>3. /\ len \in Int /\ left \in Int /\ err \in BOOLEAN /\ err2 \in BOOLEAN
      /\ goes \in {"RESP", "DATA"} /\ rests \in {"IDLE", "RESP"}
  BY <1>1
<1>4. /\ wp.state = "IDLE" /\ ~Port!StartWrite(a, b, c) => wp' = wp
      /\ wp.state = "IDLE" /\ Port!StartWrite(a, b, c) =>
           wp' = [state |-> "DATA", word |-> word, left |-> len, err |-> err]
      /\ wp.state = "DATA" /\ ~beat.valid => wp' = wp
      /\ wp.state = "DATA" /\ beat.valid =>
           wp' = [wp EXCEPT !.word = word2, !.left = left, !.err = err2, !.state = goes]
      /\ wp.state = "RESP" => wp' = [wp EXCEPT !.state = rests]
  BY <1>1, Zenon DEF Port!WriteSide, Port!WordOf, Port!WFire
<1>5. /\ Port!BurstEnds(beat) => goes = "RESP"
      /\ ~Port!BurstEnds(beat) => goes = "DATA"
  OBVIOUS
<1> HIDE DEF word, len, err, word2, left, err2, goes, rests
<1>6. CASE wp' = wp /\ wp.state # "RESP" /\ ~(wp.state = "IDLE" /\ Port!StartWrite(a, b, c))
             /\ ~(wp.state = "DATA" /\ beat.valid)
  BY <1>1, <1>6 DEF WpStep, WpRegs
<1>7. CASE wp.state = "IDLE" /\ Port!StartWrite(a, b, c)
  <2>1. wp' \in WpRegs /\ wp'.state = "DATA" /\ wp'.left = len /\ wp'.word = word /\ (wp'.err <=> err)
    BY <1>2, <1>3, <1>4, <1>7 DEF WpRegs
  <2>2. QED
    BY <1>7, <2>1, Zenon DEF WpStep, len, word, err
<1>8. CASE wp.state = "DATA" /\ beat.valid
  <2>1. wp' \in WpRegs /\ wp'.state = goes /\ wp'.left = left /\ wp'.word = word2 /\ (wp'.err <=> err2)
    BY <1>2, <1>3, <1>4, <1>8 DEF WpRegs
  <2>2. QED
    BY <1>5, <1>8, <2>1, Zenon DEF WpStep, left, word2, err2
<1>9. CASE wp.state = "RESP"
  <2>1. wp' \in WpRegs /\ wp'.state = rests
    BY <1>3, <1>4, <1>9 DEF WpRegs
  <2>2. QED
    BY <1>9, <2>1, Zenon DEF WpStep, rests
<1>10. WpStep(a, b, c, beat, bready)
  BY <1>1, <1>4, <1>6, <1>7, <1>8, <1>9, Zenon DEF WpStep
<1>11. QED
  BY <1>10

(* The write side serves the C mover and no one else.                       *)
LEMMA WriterOn ==
  ASSUME cwr \in WriteRegs, wp \in WpRegs, WriterServed, NEW w, CClock(w),
         Port!WriteSide(ARequest, BRequest, CRequest, WriteBeat, C!BReady),
         NEW base \in Int, base = desc.cfg["C_BASE"] \div 4,
         NEW words \in Int, words = Shell!CWords, words >= 0
  PROVE  cwr' \in WriteRegs /\ wp' \in WpRegs /\ WriterServed'
<1> DEFINE start == JobStart(w)
           grant == Port!CReady(ARequest, BRequest, CRequest)
           fire == CValid /\ Port!WReady
           answered == Port!BValid
           burst == BurstOf(cwr)
<1>1. cwr' \in WriteRegs /\ WriterStep(cwr, cwr', start, base, words, grant, fire, answered)
  BY CStep, Zenon
<1>2. C!NextBurst = burst /\ burst \in Int /\ cwr.addr \in Int /\ cwr.remaining \in Int
      /\ cwr.state \in {"IDLE", "AW", "W", "B"}
  <2>1. cwr.addr \in Int /\ cwr.remaining \in Int /\ cwr.state \in {"IDLE", "AW", "W", "B"}
    BY DEF WriteRegs
  <2>2. C!NextBurst = burst
    BY DEF C!NextBurst, C!BeatsToPageEnd, BurstOf
  <2>3. QED
    BY <2>1, <2>2, BurstTyped
<1>3. /\ CRequest.valid = (cwr.state = "AW") /\ CRequest.addr = cwr.addr
      /\ CRequest.len = burst - 1 /\ WriteBeat.valid = (cwr.state = "W" /\ CValid)
      /\ WriteBeat.last = (cwr.state = "W" /\ cwr.beats = 1)
  BY <1>2 DEF CRequest, ReadRequest, C!AwValid, WriteBeat, C!WValid, C!WLast
<1>4. grant = Port!StartWrite(ARequest, BRequest, CRequest)
  BY DEF Port!CReady
<1>5. /\ wp' \in WpRegs
      /\ wp.state = "IDLE" /\ ~grant => wp' = wp
      /\ wp.state = "IDLE" /\ grant => wp'.state = "DATA" /\ wp'.left = CRequest.len + 1
      /\ wp.state = "DATA" /\ ~WriteBeat.valid => wp' = wp
      /\ wp.state = "DATA" /\ WriteBeat.valid /\ ~Port!BurstEnds(WriteBeat) =>
           wp'.state = "DATA" /\ wp'.left = wp.left - 1
      /\ wp.state = "DATA" /\ WriteBeat.valid /\ Port!BurstEnds(WriteBeat) => wp'.state = "RESP"
      /\ wp.state = "RESP" => wp'.state = IF C!BReady THEN "IDLE" ELSE "RESP"
  <2>1. CRequest.addr \in Int /\ CRequest.len \in Int
    BY <1>2, <1>3
  <2>2. WpStep(ARequest, BRequest, CRequest, WriteBeat, C!BReady)
    BY <2>1, WpSteps, Zenon
  <2>3. QED
    BY <1>4, <2>2, Zenon DEF WpStep
<1> HIDE DEF start, grant, fire, answered, burst
<1>6. CASE cwr.state = "IDLE"
  <2>1. wp.state = "IDLE"
    BY <1>6 DEF WriterServed
  <2>2. ~grant
    BY <1>3, <1>4, <1>6 DEF Port!StartWrite
  <2>3. cwr'.state \in {"IDLE", "AW"} /\ (cwr'.state = "AW" => cwr'.remaining = words /\ words # 0)
    BY <1>1, <1>6, Zenon DEF WriterStep
  <2>4. QED
    BY <1>1, <1>5, <2>1, <2>2, <2>3 DEF WriterServed
<1>7. CASE cwr.state = "AW" /\ ~grant
  <2>1. cwr'.state = "AW" /\ SameWork(cwr, cwr')
    BY <1>1, <1>7, Zenon DEF WriterStep
  <2>2. QED
    BY <1>1, <1>5, <1>7, <2>1 DEF WriterServed, SameWork
<1>8. CASE cwr.state = "AW" /\ grant
  <2>1. cwr'.state = "W" /\ SameWork(cwr, cwr') /\ cwr'.burst = burst /\ cwr'.beats = burst
    BY <1>1, <1>8, Zenon DEF WriterStep, burst
  <2>2. wp.state = "IDLE" /\ cwr.remaining >= 1
    BY <1>8 DEF WriterServed
  <2>3. burst \in 1 .. cwr.remaining
    BY <1>2, <2>2, BurstBounds DEF burst
  <2>4. wp'.state = "DATA" /\ wp'.left = burst
    BY <1>2, <1>3, <1>5, <1>8, <2>2
  <2>5. QED
    BY <1>1, <1>2, <1>5, <2>1, <2>3, <2>4 DEF WriterServed, SameWork
<1>9. CASE cwr.state = "W"
  <2>1. cwr.burst \in 1 .. cwr.remaining /\ cwr.beats \in 1 .. cwr.burst /\ wp.state = "DATA"
        /\ wp.left = cwr.beats
    BY <1>9 DEF WriterServed
  <2>2. fire <=> CValid
    BY <2>1 DEF fire, Port!WReady
  <2>3. Port!BurstEnds(WriteBeat) <=> cwr.beats = 1
    BY <1>3, <1>9, <2>1 DEF Port!BurstEnds
  <2>4. CASE ~fire
    <3>1. cwr'.state = "W" /\ SameWork(cwr, cwr') /\ cwr'.burst = cwr.burst /\ cwr'.beats = cwr.beats
      BY <1>1, <1>9, <2>4, Zenon DEF WriterStep
    <3>2. QED
      BY <1>1, <1>3, <1>5, <2>1, <2>2, <2>4, <3>1 DEF WriterServed, SameWork
  <2>5. CASE fire /\ cwr.beats # 1
    <3>1. cwr'.state = "W" /\ SameWork(cwr, cwr') /\ cwr'.burst = cwr.burst
          /\ cwr'.beats = cwr.beats - 1
      BY <1>1, <1>9, <2>5, Zenon DEF WriterStep
    <3>2. wp'.state = "DATA" /\ wp'.left = wp.left - 1
      BY <1>3, <1>5, <1>9, <2>1, <2>2, <2>3, <2>5
    <3>3. QED
      BY <1>1, <1>2, <1>5, <2>1, <2>5, <3>1, <3>2 DEF WriterServed, SameWork
  <2>6. CASE fire /\ cwr.beats = 1
    <3>1. cwr'.state = "B" /\ SameWork(cwr, cwr') /\ cwr'.burst = cwr.burst
      BY <1>1, <1>9, <2>6, Zenon DEF WriterStep
    <3>2. wp'.state = "RESP"
      BY <1>3, <1>5, <1>9, <2>1, <2>2, <2>3, <2>6
    <3>3. QED
      BY <1>1, <1>5, <2>1, <3>1, <3>2 DEF WriterServed, SameWork
  <2>7. QED
    BY <2>4, <2>5, <2>6
<1>10. CASE cwr.state = "B"
  <2>1. cwr.burst \in 1 .. cwr.remaining /\ wp.state = "RESP" /\ answered /\ C!BReady
    BY <1>10 DEF WriterServed, answered, Port!BValid, C!BReady
  <2>2. wp'.state = "IDLE"
    BY <1>5, <2>1
  <2>3. CASE cwr.remaining = cwr.burst
    <3>1. cwr'.state = "IDLE"
      BY <1>1, <1>10, <2>1, <2>3, Zenon DEF WriterStep
    <3>2. QED
      BY <1>1, <1>5, <2>2, <3>1 DEF WriterServed
  <2>4. CASE cwr.remaining # cwr.burst
    <3>1. cwr'.state = "AW" /\ cwr'.remaining = cwr.remaining - cwr.burst
      BY <1>1, <1>10, <2>1, <2>4, Zenon DEF WriterStep
    <3>2. QED
      BY <1>1, <1>2, <1>5, <2>1, <2>2, <2>4, <3>1 DEF WriterServed
  <2>5. QED
    BY <2>3, <2>4
<1>11. QED
  BY <1>2, <1>6, <1>7, <1>8, <1>9, <1>10

-----------------------------------------------------------------------------
(* The numbers a descriptor gives the movers.                               *)
LEMMA WordCount ==
  ASSUME NEW x \in Nat
  PROVE  (x + 3) \div 4 \in Nat /\ (x >= 1 => (x + 3) \div 4 >= 1)
<1>1. x + 3 \in Nat
  OBVIOUS
<1>2. QED
  BY <1>1, Division

LEMMA DescWords ==
  ASSUME RegsOK
  PROVE  /\ desc.cfg["A_BASE"] \div 4 \in Nat /\ desc.cfg["B_BASE"] \div 4 \in Nat
         /\ desc.cfg["C_BASE"] \div 4 \in Nat
         /\ Shell!AWords \in Nat /\ Shell!BWords \in Nat /\ Shell!CWords \in Nat
<1>1. /\ desc.cfg["A_BASE"] \in Nat /\ desc.cfg["B_BASE"] \in Nat /\ desc.cfg["C_BASE"] \in Nat
      /\ desc.cfg["M"] \in Nat /\ desc.cfg["N"] \in Nat /\ desc.cfg["K"] \in Nat
  BY DEF RegsOK, DescOK, ConfigType, Fields, Shell!Fields
<1>2. \A x \in Nat, y \in Nat : x * y \in Nat
  BY SMT
<1>3. /\ desc.cfg["M"] * desc.cfg["K"] \in Nat /\ desc.cfg["K"] * desc.cfg["N"] \in Nat
      /\ desc.cfg["M"] * desc.cfg["N"] \in Nat
  BY <1>1, <1>2, Zenon
<1>4. Shell!AWords \in Nat /\ Shell!BWords \in Nat /\ Shell!CWords \in Nat
  BY <1>3, WordCount, Zenon DEF Shell!AWords, Shell!BWords, Shell!CWords, Shell!PackedWords, Shell!Cfg
<1>5. 4 \in Nat \ {0}
  OBVIOUS
<1>6. QED
  BY <1>1, <1>4, <1>5, Division, Zenon

(* The operands of a job that is given, and their place in the window.      *)
LEMMA JobWords ==
  ASSUME RegsOK, JobKnown, job.given
  PROVE  /\ Cell(D["A_BASE"]) \in Int /\ Cell(D["B_BASE"]) \in Int
         /\ WordsA \in Nat \ {0} /\ WordsB \in Nat \ {0}
         /\ JobFits => /\ Cell(D["A_BASE"]) >= 0 /\ Cell(D["A_BASE"]) + WordsA <= Depth
                       /\ Cell(D["B_BASE"]) >= 0 /\ Cell(D["B_BASE"]) + WordsB <= Depth
<1>1. D["M"] \in Nat \ {0} /\ D["N"] \in Nat \ {0} /\ D["K"] \in Nat \ {0}
  BY LegalTyped DEF JobKnown
<1>2. \A x \in Nat \ {0}, y \in Nat \ {0} : x * y \in Nat /\ x * y >= 1
  BY SMT
<1>3. WordsA \in Nat \ {0} /\ WordsB \in Nat \ {0}
  <2>1. /\ D["M"] * D["K"] \in Nat /\ D["M"] * D["K"] >= 1
        /\ D["K"] * D["N"] \in Nat /\ D["K"] * D["N"] >= 1
    BY <1>1, <1>2, Zenon
  <2>2. WordsA \in Nat /\ WordsA >= 1 /\ WordsB \in Nat /\ WordsB >= 1
    BY <2>1, WordCount, Zenon DEF WordsA, WordsB
  <2>3. QED
    BY <2>2
<1>4. D["A_BASE"] \div 4 \in Nat /\ D["B_BASE"] \div 4 \in Nat
  <2>1. D["A_BASE"] \in Nat /\ D["B_BASE"] \in Nat /\ 4 \in Nat \ {0}
    BY DEF D, RegsOK, JobOK, ConfigType, Fields, Shell!Fields
  <2>2. QED
    BY <2>1, Division, Zenon
<1>5. JobFits => InWindow(D["A_BASE"], WordsA) /\ InWindow(D["B_BASE"], WordsB)
  BY Zenon DEF JobFits, WordsA, WordsB
<1>6. QED
  BY <1>3, <1>4, <1>5, Constants DEF Cell, InWindow

-----------------------------------------------------------------------------
(* The engine while it loads.                                               *)
MoreA == GotA + Engine!Taken(TakesA)
MoreB == GotB + Engine!Taken(TakesB)

LEMMA LoadProgress ==
  ASSUME RegsOK, Walk, NEW w, Cycle(w), Loading
  PROVE  /\ ~JobStart(w) /\ job.given /\ D' = D /\ job'.ram = job.ram /\ ~startQ'.q
         /\ eng.state = "LOAD" => Engine!AWords = WordsA /\ Engine!BWords = WordsB
         /\ Loading' => GotA' = MoreA /\ GotB' = MoreB /\ ~(MoreA >= WordsA /\ MoreB >= WordsB)
         /\ ~Loading' => MoreA >= WordsA /\ MoreB >= WordsB
<1>1. ComputeBusy
  BY DEF Loading, ComputeBusy, Engine!EngineBusy
<1>2. ~JobStart(w)
  BY <1>1, StartLegal
<1>3. /\ D' = D /\ job'.ram = job.ram /\ startQ'.q = FALSE
  BY <1>2, StartSteps DEF StartStep, D
<1>4. EngineStep /\ JobKnown /\ StartKnown /\ EngineKnown
  BY EngineSteps DEF RegsOK, Walk
<1>5. job.given
  BY <1>4 DEF Loading, StartKnown, EngineKnown
<1>6. WordsA \in Nat \ {0} /\ WordsB \in Nat \ {0}
  BY <1>4, <1>5, JobWords
<1>7. CASE startQ.q
  <2>1. eng.state = "IDLE" /\ startQ.d = JobDims /\ JobLegal
    BY <1>4, <1>5, <1>7 DEF StartKnown, JobKnown
  <2>2. eng'.state = "LOAD" /\ eng'.a = 0 /\ eng'.b = 0
    BY <1>4, <1>7, <2>1, NotBad DEF EngineStep, IdleStep, Starts
  <2>3. ~TakesA /\ ~TakesB
    BY <2>1 DEF TakesA, TakesB, Engine!AInReady, Engine!BInReady
  <2>4. MoreA = 0 /\ MoreB = 0
    BY <1>7, <2>3 DEF MoreA, MoreB, GotA, GotB, Engine!Taken
  <2>5. GotA' = 0 /\ GotB' = 0 /\ Loading'
    BY <1>3, <2>2 DEF GotA, GotB, Loading
  <2>6. QED
    BY <1>2, <1>3, <1>5, <1>6, <2>1, <2>4, <2>5
<1>8. CASE ~startQ.q
  <2>1. eng.state = "LOAD" /\ GotA = eng.a /\ GotB = eng.b
    BY <1>8 DEF Loading, GotA, GotB
  <2>2. cfg = EngineDims
    BY <1>4, <2>1 DEF EngineKnown
  <2>3. Engine!AWords = WordsA /\ Engine!BWords = WordsB
    BY <2>2 DEF EngineDims, Engine!AWords, Engine!BWords, Engine!TotalWords, WordsA, WordsB
  <2>4. /\ eng'.a = MoreA /\ eng'.b = MoreB
        /\ ~LoadEnds => eng'.state = "LOAD"
        /\ LoadEnds => eng'.state = "CLEAR"
    BY <1>4, <2>1, Zenon DEF EngineStep, LoadStep, MoreA, MoreB
  <2>5. LoadEnds <=> MoreA >= WordsA /\ MoreB >= WordsB
    BY <2>3, <2>4, Zenon DEF LoadEnds, Engine!LoadEnds
  <2>6. GotA' = eng'.a /\ GotB' = eng'.b /\ (Loading' <=> eng'.state = "LOAD")
    BY <1>3 DEF GotA, GotB, Loading
  <2>7. LoadEnds => eng'.state # "LOAD"
    BY <2>4
  <2>8. QED
    BY <1>2, <1>3, <1>5, <2>3, <2>4, <2>5, <2>6, <2>7, Zenon
<1>9. QED
  BY <1>7, <1>8

(* What loads goes on: this clock's words reach their operand, and the port *)
(* serves the reader that has a burst of its own.                           *)
ServesA(first) ==
  /\ rp.toB = FALSE /\ rp.popLeft = ard.beats
  /\ rp.state = "BURST" /\ FifoServes(rp, first, ram, rdata)
ServesB(first) ==
  /\ rp.toB = TRUE /\ rp.popLeft = brd.beats
  /\ rp.state = "BURST" /\ FifoServes(rp, first, ram, rdata)

FireA == Port!RValid(FALSE) /\ Engine!AInReady
FireB == Port!RValid(TRUE) /\ Engine!BInReady
GrantA == Port!AReady(ARequest, BRequest)
GrantB == Port!BReady(ARequest, BRequest)

(* The wires between readers and port.                                      *)
LEMMA Asks ==
  ASSUME ard \in ReadRegs, brd \in ReadRegs
  PROVE  /\ ARequest.valid = (ard.state = "AR") /\ ARequest.addr = ard.addr
         /\ ARequest.len = BurstOf(ard) - 1 /\ ARequest.plain
         /\ BRequest.valid = (brd.state = "AR") /\ BRequest.addr = brd.addr
         /\ BRequest.len = BurstOf(brd) - 1 /\ BRequest.plain
         /\ BurstOf(ard) \in Int /\ BurstOf(brd) \in Int
         /\ TakesA <=> ard.state = "R" /\ FireA
         /\ TakesB <=> brd.state = "R" /\ FireB
<1>1. A!NextBurst = BurstOf(ard) /\ B!NextBurst = BurstOf(brd)
  BY DEF A!NextBurst, A!BeatsToPageEnd, B!NextBurst, B!BeatsToPageEnd, BurstOf
<1>2. BurstOf(ard) \in Int /\ BurstOf(brd) \in Int
  BY BurstTyped DEF ReadRegs
<1>3. QED
  BY <1>1, <1>2 DEF ARequest, BRequest, ReadRequest, A!ArValid, B!ArValid, TakesA, TakesB, AWord,
     BWord, A!StreamValid, B!StreamValid, FireA, FireB

(* The port's wires while A's burst is under way, and while B's is.         *)
LEMMA WiresOfA ==
  ASSUME FifoTyped(rp), ard.state = "R", NEW first, ServesA(first)
  PROVE  /\ Pop <=> FireA
         /\ FireA => Port!ROk /\ (Port!RLast <=> ard.beats = 1)
         /\ ~GrantA /\ ~GrantB
<1>1. rp.state = "BURST" /\ rp.toB = FALSE /\ rp.popLeft = ard.beats
      /\ FifoServes(rp, first, ram, rdata)
  BY DEF ServesA
<1>2. Pop <=> FireA
  BY <1>1 DEF Pop, Port!OutPop, Port!SelReady, ReadyA, A!RReady, FireA, Port!RValid, Port!OutValid,
     Port!ErrValid
<1>3. FireA => rp.count > 0
  <2>1. rp.count \in Int /\ rp.count >= 0
    BY <1>1, Zenon DEF FifoTyped, FifoServes
  <2>2. FireA => rp.count # 0
    BY <1>1 DEF FireA, Port!RValid, Port!OutValid, Port!ErrValid
  <2>3. QED
    BY <2>1, <2>2
<1>4. rp.count > 0 => (rp.last[rp.head] <=> ard.beats = 1)
  BY <1>1, Zenon DEF FifoServes
<1>5. Port!ROk /\ Port!RLast = rp.last[rp.head]
  BY <1>1 DEF Port!ROk, Port!RLast, Port!ErrValid
<1>6. ~GrantA /\ ~GrantB
  BY <1>1 DEF GrantA, GrantB, Port!AReady, Port!BReady, Port!StartRead
<1>7. QED
  BY <1>2, <1>3, <1>4, <1>5, <1>6, Zenon

LEMMA WiresOfB ==
  ASSUME FifoTyped(rp), brd.state = "R", NEW first, ServesB(first)
  PROVE  /\ Pop <=> FireB
         /\ FireB => Port!ROk /\ (Port!RLast <=> brd.beats = 1)
         /\ ~GrantA /\ ~GrantB
<1>1. rp.state = "BURST" /\ rp.toB = TRUE /\ rp.popLeft = brd.beats
      /\ FifoServes(rp, first, ram, rdata)
  BY DEF ServesB
<1>2. Pop <=> FireB
  BY <1>1 DEF Pop, Port!OutPop, Port!SelReady, ReadyB, B!RReady, FireB, Port!RValid, Port!OutValid,
     Port!ErrValid
<1>3. FireB => rp.count > 0
  <2>1. rp.count \in Int /\ rp.count >= 0
    BY <1>1, Zenon DEF FifoTyped, FifoServes
  <2>2. FireB => rp.count # 0
    BY <1>1 DEF FireB, Port!RValid, Port!OutValid, Port!ErrValid
  <2>3. QED
    BY <2>1, <2>2
<1>4. rp.count > 0 => (rp.last[rp.head] <=> brd.beats = 1)
  BY <1>1, Zenon DEF FifoServes
<1>5. Port!ROk /\ Port!RLast = rp.last[rp.head]
  BY <1>1 DEF Port!ROk, Port!RLast, Port!ErrValid
<1>6. ~GrantA /\ ~GrantB
  BY <1>1 DEF GrantA, GrantB, Port!AReady, Port!BReady, Port!StartRead
<1>7. QED
  BY <1>2, <1>3, <1>4, <1>5, <1>6, Zenon

FirstA == Cell(D["A_BASE"])
FirstB == Cell(D["B_BASE"])

(* A reader's own part of the step; the port's comes after it.              *)
ReaderGoesOn(o, n, first, words, more, grant, fire) ==
  /\ ReaderLoads(n, first, words, more)
  /\ n.state = "R" <=> (o.state = "AR" /\ grant) \/ (o.state = "R" /\ ~(fire /\ o.beats = 1))
  /\ o.state = "AR" /\ grant => n.beats = BurstOf(o)
  /\ o.state = "R" /\ n.state = "R" => n.beats = o.beats - (IF fire THEN 1 ELSE 0)

ReaderDue(o, n, first, words, got, more, start, base, total, grant, fire, good) ==
  /\ o \in ReadRegs /\ n \in ReadRegs /\ first \in Int /\ words \in Int /\ got \in Int
  /\ first >= 0 /\ words >= 1 /\ first + words <= Depth /\ ~start
  /\ ReaderLoads(o, first, words, got)
  /\ ReaderStep(o, n, start, base, total, grant, fire, good)
  /\ o.state = "R" /\ fire => good /\ more = got + 1
  /\ ~(o.state = "R" /\ fire) => more = got

LEMMA LoadsOnward ==
  ASSUME NEW o, NEW n, NEW first, NEW words, NEW got, NEW more, NEW start, NEW base, NEW total,
         NEW grant, NEW fire, NEW good,
         ReaderDue(o, n, first, words, got, more, start, base, total, grant, fire, good)
  PROVE  ReaderGoesOn(o, n, first, words, more, grant, fire)
<1>1. /\ o \in ReadRegs /\ n \in ReadRegs /\ first \in Int /\ words \in Int /\ got \in Int
      /\ first >= 0 /\ words >= 1 /\ first + words <= Depth /\ ~start
      /\ ReaderLoads(o, first, words, got)
      /\ ReaderStep(o, n, start, base, total, grant, fire, good)
      /\ o.state = "R" /\ fire => good
      /\ more = IF o.state = "R" /\ fire THEN got + 1 ELSE got
  BY DEF ReaderDue
<1>2. QED
  BY <1>1, LoadsOn DEF ReaderGoesOn

LEMMA ReadersGoOn ==
  ASSUME RegsOK, Walk, MoversOK, Operands, JobFits, NEW w, Cycle(w), Loading
  PROVE  /\ ard' \in ReadRegs /\ brd' \in ReadRegs
         /\ ReaderGoesOn(ard, ard', FirstA, WordsA, MoreA, GrantA, FireA)
         /\ ReaderGoesOn(brd, brd', FirstB, WordsB, MoreB, GrantB, FireB)
<1> DEFINE baseA == desc.cfg["A_BASE"] \div 4
           baseB == desc.cfg["B_BASE"] \div 4
           totalA == Shell!AWords
           totalB == Shell!BWords
           start == JobStart(w)
           goodA == Port!ROk /\ (Port!RLast <=> ard.beats = 1)
           goodB == Port!ROk /\ (Port!RLast <=> brd.beats = 1)
<1>1. baseA \in Int /\ baseB \in Int /\ totalA \in Int /\ totalB \in Int
  BY DescWords
<1>2. ard \in ReadRegs /\ brd \in ReadRegs /\ FifoTyped(rp) /\ AClock(w) /\ BClock(w)
  BY DEF MoversOK, Operands, PortTyped, Cycle, TopClock
<1>3. /\ ard' \in ReadRegs /\ ReaderStep(ard, ard', start, baseA, totalA, GrantA, FireA, goodA)
      /\ brd' \in ReadRegs /\ ReaderStep(brd, brd', start, baseB, totalB, GrantB, FireB, goodB)
  <2>1. baseA = desc.cfg["A_BASE"] \div 4 /\ totalA = Shell!AWords
    OBVIOUS
  <2>2. baseB = desc.cfg["B_BASE"] \div 4 /\ totalB = Shell!BWords
    OBVIOUS
  <2> HIDE DEF baseA, baseB, totalA, totalB
  <2>3. ard' \in ReadRegs /\ ReaderStep(ard, ard', start, baseA, totalA, GrantA, FireA, goodA)
    BY <1>1, <1>2, <2>1, AStep, Zenon DEF GrantA, FireA
  <2>4. brd' \in ReadRegs /\ ReaderStep(brd, brd', start, baseB, totalB, GrantB, FireB, goodB)
    BY <1>1, <1>2, <2>2, BStep, Zenon DEF GrantB, FireB
  <2>5. QED
    BY <2>3, <2>4
<1>4. ~start /\ job.given /\ JobKnown
  BY LoadProgress DEF Walk
<1>5. /\ FirstA \in Int /\ FirstB \in Int /\ WordsA \in Int /\ WordsB \in Int
      /\ FirstA >= 0 /\ WordsA >= 1 /\ FirstA + WordsA <= Depth
      /\ FirstB >= 0 /\ WordsB >= 1 /\ FirstB + WordsB <= Depth
  BY <1>4, JobWords DEF FirstA, FirstB
<1>6. /\ ReaderLoads(ard, FirstA, WordsA, GotA) /\ ReaderLoads(brd, FirstB, WordsB, GotB)
      /\ ard.state = "R" => ServesA(FirstA + GotA)
      /\ brd.state = "R" => ServesB(FirstB + GotB)
  BY Zenon DEF Operands, LoadsOperands, PortServes, ServesA, ServesB, Serving, FirstA, FirstB
<1>7. GotA \in Int /\ GotB \in Int
  BY <1>5, <1>6 DEF ReaderLoads
<1>8. /\ ard.state = "R" /\ FireA => goodA
      /\ brd.state = "R" /\ FireB => goodB
  BY <1>2, <1>6, WiresOfA, WiresOfB, Zenon
<1>9. /\ MoreA = IF ard.state = "R" /\ FireA THEN GotA + 1 ELSE GotA
      /\ MoreB = IF brd.state = "R" /\ FireB THEN GotB + 1 ELSE GotB
  <2>1. (TakesA <=> ard.state = "R" /\ FireA) /\ (TakesB <=> brd.state = "R" /\ FireB)
    BY <1>2, Asks
  <2>2. QED
    BY <1>7, <2>1 DEF MoreA, MoreB, Engine!Taken
<1> HIDE DEF baseA, baseB, totalA, totalB, start, goodA, goodB
<1> DEFINE a == ard'
           b == brd'
<1>10. /\ a \in ReadRegs /\ ReaderStep(ard, a, start, baseA, totalA, GrantA, FireA, goodA)
       /\ b \in ReadRegs /\ ReaderStep(brd, b, start, baseB, totalB, GrantB, FireB, goodB)
  BY <1>3
<1> HIDE DEF a, b
<1>11. ReaderGoesOn(ard, a, FirstA, WordsA, MoreA, GrantA, FireA)
  <2>1. /\ FirstA >= 0 /\ WordsA >= 1 /\ FirstA + WordsA <= Depth /\ ~start
        /\ ReaderLoads(ard, FirstA, WordsA, GotA)
        /\ ReaderStep(ard, a, start, baseA, totalA, GrantA, FireA, goodA)
        /\ ard.state = "R" /\ FireA => goodA
        /\ ard.state = "R" /\ FireA => MoreA = GotA + 1
        /\ ~(ard.state = "R" /\ FireA) => MoreA = GotA
    BY <1>4, <1>5, <1>6, <1>8, <1>9, <1>10, Zenon
  <2>2. ard \in ReadRegs /\ a \in ReadRegs /\ FirstA \in Int /\ WordsA \in Int /\ GotA \in Int
    BY <1>2, <1>5, <1>7, <1>10, Zenon
  <2>3. ReaderDue(ard, a, FirstA, WordsA, GotA, MoreA, start, baseA, totalA, GrantA, FireA,
                  goodA)
    BY <2>1, <2>2, Zenon DEF ReaderDue
  <2>4. QED
    BY <2>3, LoadsOnward, Zenon
<1>12. ReaderGoesOn(brd, b, FirstB, WordsB, MoreB, GrantB, FireB)
  <2>1. /\ FirstB >= 0 /\ WordsB >= 1 /\ FirstB + WordsB <= Depth /\ ~start
        /\ ReaderLoads(brd, FirstB, WordsB, GotB)
        /\ ReaderStep(brd, b, start, baseB, totalB, GrantB, FireB, goodB)
        /\ brd.state = "R" /\ FireB => goodB
        /\ brd.state = "R" /\ FireB => MoreB = GotB + 1
        /\ ~(brd.state = "R" /\ FireB) => MoreB = GotB
    BY <1>4, <1>5, <1>6, <1>8, <1>9, <1>10, Zenon
  <2>2. brd \in ReadRegs /\ b \in ReadRegs /\ FirstB \in Int /\ WordsB \in Int /\ GotB \in Int
    BY <1>2, <1>5, <1>7, <1>10, Zenon
  <2>3. ReaderDue(brd, b, FirstB, WordsB, GotB, MoreB, start, baseB, totalB, GrantB, FireB,
                  goodB)
    BY <2>1, <2>2, Zenon DEF ReaderDue
  <2>4. QED
    BY <2>3, LoadsOnward, Zenon
<1>13. QED
  BY <1>3, <1>11, <1>12, Zenon DEF a, b

(* The port's part of the step.                                             *)
PortGoesOn ==
  /\ ard'.state = "R" =>
       /\ rp'.toB = FALSE /\ rp'.popLeft = ard'.beats
       /\ rp'.state = "BURST" /\ FifoServes(rp', FirstA + MoreA, ram', rdata')
  /\ brd'.state = "R" =>
       /\ rp'.toB = TRUE /\ rp'.popLeft = brd'.beats
       /\ rp'.state = "BURST" /\ FifoServes(rp', FirstB + MoreB, ram', rdata')
  /\ ard'.state # "R" /\ brd'.state # "R" => PortQuiet'

LEMMA LoadingStep ==
  ASSUME RegsOK, Walk, MoversOK, Operands, JobFits, NEW w, Cycle(w), Loading
  PROVE  FifoTyped(rp)' /\ wp' = wp /\ ram' = ram /\ PortGoesOn
<1>1. /\ ard \in ReadRegs /\ brd \in ReadRegs /\ ard' \in ReadRegs /\ brd' \in ReadRegs
      /\ ReaderGoesOn(ard, ard', FirstA, WordsA, MoreA, GrantA, FireA)
      /\ ReaderGoesOn(brd, brd', FirstB, WordsB, MoreB, GrantB, FireB)
  BY ReadersGoOn DEF MoversOK
<1>2. /\ FifoTyped(rp) /\ wp.state = "IDLE" /\ wp \in WpRegs
      /\ ReaderLoads(ard, FirstA, WordsA, GotA) /\ ReaderLoads(brd, FirstB, WordsB, GotB)
      /\ GotA < WordsA \/ GotB < WordsB
      /\ ard.state = "R" => ServesA(FirstA + GotA)
      /\ brd.state = "R" => ServesB(FirstB + GotB)
      /\ ard.state # "R" /\ brd.state # "R" => PortQuiet
  BY Zenon DEF Operands, PortTyped, WpRegs, LoadsOperands, PortServes, ServesA, ServesB, Serving,
     FirstA, FirstB
<1>3. job.given /\ JobKnown
  BY LoadProgress DEF Walk
<1>4. /\ FirstA \in Int /\ FirstB \in Int /\ WordsA \in Int /\ WordsB \in Int
      /\ FirstA >= 0 /\ WordsA >= 1 /\ FirstA + WordsA <= Depth
      /\ FirstB >= 0 /\ WordsB >= 1 /\ FirstB + WordsB <= Depth
  BY <1>3, JobWords DEF FirstA, FirstB
<1>5. GotA \in Int /\ GotB \in Int
  BY <1>2, <1>4 DEF ReaderLoads
<1>6. /\ Port!ReadSide(ARequest, BRequest, ReadyA, ReadyB)
      /\ Port!WriteSide(ARequest, BRequest, CRequest, WriteBeat, C!BReady)
      /\ Port!Memory(WriteBeat)
  BY Zenon DEF Cycle, TopClock, Port!Clock, ReadyA, ReadyB
<1>7. rdata' = ram[rp.word] /\ ram' = ram
  BY <1>2, <1>6 DEF Port!Memory, Port!MemAddr, Port!WriteEnable, Port!WFire
<1>8. /\ ARequest.valid = (ard.state = "AR") /\ ARequest.addr = ard.addr
      /\ ARequest.len = BurstOf(ard) - 1 /\ ARequest.plain
      /\ BRequest.valid = (brd.state = "AR") /\ BRequest.addr = brd.addr
      /\ BRequest.len = BurstOf(brd) - 1 /\ BRequest.plain
      /\ BurstOf(ard) \in Int /\ BurstOf(brd) \in Int
      /\ TakesA <=> ard.state = "R" /\ FireA
      /\ TakesB <=> brd.state = "R" /\ FireB
  BY <1>1, Asks
<1>9. /\ ard.state \in {"IDLE", "AR", "R"} /\ brd.state \in {"IDLE", "AR", "R"}
      /\ ~(ard.state = "IDLE" /\ brd.state = "IDLE")
  <2>1. (GotA >= WordsA <=> ard.state = "IDLE") /\ (GotB >= WordsB <=> brd.state = "IDLE")
    BY <1>1, <1>2, <1>4, <1>5, LoadsEnd
  <2>2. QED
    BY <1>2, <1>4, <1>5, <2>1 DEF ReaderLoads
<1>10. Port!StartRead(ARequest, BRequest) <=> ard.state # "R" /\ brd.state # "R"
  BY <1>2, <1>8, <1>9 DEF Port!StartRead, Port!WriteBusy, ServesA, ServesB, PortQuiet, FifoQuiet
<1>11. wp' = wp
  BY <1>2, <1>6, <1>10 DEF Port!WriteSide, Port!StartWrite, Port!ReadBusy, ServesA, ServesB
<1>12. /\ ard'.state = "R" <=> (ard.state = "AR" /\ GrantA)
                                 \/ (ard.state = "R" /\ ~(FireA /\ ard.beats = 1))
       /\ brd'.state = "R" <=> (brd.state = "AR" /\ GrantB)
                                 \/ (brd.state = "R" /\ ~(FireB /\ brd.beats = 1))
       /\ ard.state = "AR" /\ GrantA => ard'.beats = BurstOf(ard)
       /\ ard.state = "R" /\ ard'.state = "R" => ard'.beats = ard.beats - (IF FireA THEN 1 ELSE 0)
       /\ brd.state = "AR" /\ GrantB => brd'.beats = BurstOf(brd)
       /\ brd.state = "R" /\ brd'.state = "R" => brd'.beats = brd.beats - (IF FireB THEN 1 ELSE 0)
  BY <1>1, Zenon DEF ReaderGoesOn
<1>13. CASE ard.state = "R"
  <2>1. ServesA(FirstA + GotA) /\ brd.state # "R"
    BY <1>2, <1>13 DEF ServesA, ServesB
  <2>2. (Pop <=> FireA) /\ ~GrantA /\ ~GrantB
    BY <1>2, <1>13, <2>1, WiresOfA, Zenon
  <2> DEFINE next == FirstA + GotA
  <2>3. next \in Int /\ Serving(next) /\ rp.popLeft = ard.beats /\ rp.toB = FALSE
    BY <1>4, <1>5, <2>1 DEF ServesA, Serving
  <2> HIDE DEF next
  <2>4. /\ FifoTyped(rp)' /\ rp'.toB = rp.toB /\ rp'.popLeft = rp.popLeft - Port!Bit(Pop)
        /\ Pop /\ rp.popLeft = 1 => PortQuiet'
        /\ ~(Pop /\ rp.popLeft = 1) =>
             rp'.state = "BURST" /\ FifoServes(rp', next + Port!Bit(Pop), ram', rdata')
    BY <1>2, <1>6, <1>7, <2>3, PortServesOn
  <2>5. /\ brd'.state # "R"
        /\ ard'.state = "R" <=> ~(Pop /\ rp.popLeft = 1)
        /\ ard'.state = "R" => ard'.beats = ard.beats - (IF FireA THEN 1 ELSE 0)
    BY <1>12, <1>13, <2>1, <2>2, <2>3, Zenon
  <2>6. next + Port!Bit(Pop) = FirstA + MoreA
    <3>1. TakesA <=> Pop
      BY <1>8, <1>13, <2>2
    <3>2. QED
      BY <1>4, <1>5, <3>1 DEF next, MoreA, Engine!Taken, Port!Bit
  <2>7. Port!Bit(Pop) = IF FireA THEN 1 ELSE 0
    BY <2>2, Zenon DEF Port!Bit
  <2>8. PortGoesOn
    BY <2>3, <2>4, <2>5, <2>6, <2>7, Zenon DEF PortGoesOn
  <2>9. QED
    BY <1>7, <1>11, <2>4, <2>8
<1>14. CASE brd.state = "R"
  <2>1. ServesB(FirstB + GotB) /\ ard.state # "R"
    BY <1>2, <1>14 DEF ServesA, ServesB
  <2>2. (Pop <=> FireB) /\ ~GrantA /\ ~GrantB
    BY <1>2, <1>14, <2>1, WiresOfB, Zenon
  <2> DEFINE next == FirstB + GotB
  <2>3. next \in Int /\ Serving(next) /\ rp.popLeft = brd.beats /\ rp.toB = TRUE
    BY <1>4, <1>5, <2>1 DEF ServesB, Serving
  <2> HIDE DEF next
  <2>4. /\ FifoTyped(rp)' /\ rp'.toB = rp.toB /\ rp'.popLeft = rp.popLeft - Port!Bit(Pop)
        /\ Pop /\ rp.popLeft = 1 => PortQuiet'
        /\ ~(Pop /\ rp.popLeft = 1) =>
             rp'.state = "BURST" /\ FifoServes(rp', next + Port!Bit(Pop), ram', rdata')
    BY <1>2, <1>6, <1>7, <2>3, PortServesOn
  <2>5. /\ ard'.state # "R"
        /\ brd'.state = "R" <=> ~(Pop /\ rp.popLeft = 1)
        /\ brd'.state = "R" => brd'.beats = brd.beats - (IF FireB THEN 1 ELSE 0)
    BY <1>12, <1>14, <2>1, <2>2, <2>3, Zenon
  <2>6. next + Port!Bit(Pop) = FirstB + MoreB
    <3>1. TakesB <=> Pop
      BY <1>8, <1>14, <2>2
    <3>2. QED
      BY <1>4, <1>5, <3>1 DEF next, MoreB, Engine!Taken, Port!Bit
  <2>7. Port!Bit(Pop) = IF FireB THEN 1 ELSE 0
    BY <2>2, Zenon DEF Port!Bit
  <2>8. PortGoesOn
    BY <2>3, <2>4, <2>5, <2>6, <2>7, Zenon DEF PortGoesOn
  <2>9. QED
    BY <1>7, <1>11, <2>4, <2>8
<1>15. CASE ard.state # "R" /\ brd.state # "R"
  <2>1. PortQuiet /\ Port!StartRead(ARequest, BRequest) /\ ~TakesA /\ ~TakesB
    BY <1>2, <1>8, <1>10, <1>15
  <2>2. MoreA = GotA /\ MoreB = GotB
    BY <1>5, <2>1 DEF MoreA, MoreB, Engine!Taken
  <2>3. (GrantA <=> Port!PickA(ARequest, BRequest)) /\ (GrantB <=> Port!PickB(ARequest, BRequest))
    BY <2>1, Zenon DEF GrantA, GrantB, Port!AReady, Port!BReady
  <2>4. CASE Port!PickA(ARequest, BRequest)
    <3>1. ard.state = "AR" /\ GrantA /\ ~GrantB /\ Port!PickB(ARequest, BRequest) = FALSE
      BY <1>8, <2>3, <2>4 DEF Port!PickA, Port!PickB
    <3>2. Port!Chosen(ARequest, BRequest) = ARequest
      BY <3>1, Zenon DEF Port!Chosen
    <3> DEFINE next == FirstA + GotA
               words == BurstOf(ard)
    <3>3. /\ ard.remaining \in 1 .. WordsA /\ GotA = WordsA - ard.remaining
          /\ ard.addr = Base + FirstA + GotA
      BY <1>2, <3>1, Zenon DEF ReaderLoads
    <3>4. words \in 1 .. ard.remaining
      BY <1>1, <3>3, BurstBounds DEF ReadRegs
    <3>5. /\ next \in Int /\ words \in Int /\ next >= 0 /\ words >= 1 /\ next + words <= Depth
          /\ ARequest.plain /\ ARequest.addr = Base + next /\ ARequest.len = words - 1
      BY <1>4, <1>5, <1>8, <3>3, <3>4, Constants
    <3> HIDE DEF next, words
    <3> DEFINE req == ARequest
               cells == ram'
               back == rdata'
    <3>6. req.plain /\ req.addr = Base + next /\ req.len = words - 1
          /\ Port!Chosen(ARequest, BRequest) = req
      BY <3>2, <3>5
    <3> HIDE DEF req, cells, back
    <3>7. /\ FifoTyped(rp') /\ rp'.state = "BURST" /\ FifoServes(rp', next, cells, back)
          /\ rp'.toB = Port!PickB(ARequest, BRequest) /\ rp'.popLeft = words
      BY <1>2, <1>6, <2>1, <3>5, <3>6, PortGrant
    <3>8. /\ ard'.state = "R" /\ brd'.state # "R" /\ ard'.beats = words
      BY <1>12, <1>15, <3>1, Zenon DEF words
    <3>9. next = FirstA + MoreA
      BY <2>2 DEF next
    <3>10. PortGoesOn
      BY <3>1, <3>7, <3>8, <3>9, Zenon DEF PortGoesOn, cells, back
    <3>11. QED
      BY <1>7, <1>11, <3>7, <3>10 DEF FifoTyped
  <2>5. CASE ~Port!PickA(ARequest, BRequest)
    <3>1. brd.state = "AR" /\ GrantB /\ ~GrantA /\ Port!PickB(ARequest, BRequest) = TRUE
      BY <1>8, <1>9, <1>15, <2>3, <2>5 DEF Port!PickA, Port!PickB
    <3>2. Port!Chosen(ARequest, BRequest) = BRequest
      BY <3>1, Zenon DEF Port!Chosen
    <3> DEFINE next == FirstB + GotB
               words == BurstOf(brd)
    <3>3. /\ brd.remaining \in 1 .. WordsB /\ GotB = WordsB - brd.remaining
          /\ brd.addr = Base + FirstB + GotB
      BY <1>2, <3>1, Zenon DEF ReaderLoads
    <3>4. words \in 1 .. brd.remaining
      BY <1>1, <3>3, BurstBounds DEF ReadRegs
    <3>5. /\ next \in Int /\ words \in Int /\ next >= 0 /\ words >= 1 /\ next + words <= Depth
          /\ BRequest.plain /\ BRequest.addr = Base + next /\ BRequest.len = words - 1
      BY <1>4, <1>5, <1>8, <3>3, <3>4, Constants
    <3> HIDE DEF next, words
    <3> DEFINE req == BRequest
               cells == ram'
               back == rdata'
    <3>6. req.plain /\ req.addr = Base + next /\ req.len = words - 1
          /\ Port!Chosen(ARequest, BRequest) = req
      BY <3>2, <3>5
    <3> HIDE DEF req, cells, back
    <3>7. /\ FifoTyped(rp') /\ rp'.state = "BURST" /\ FifoServes(rp', next, cells, back)
          /\ rp'.toB = Port!PickB(ARequest, BRequest) /\ rp'.popLeft = words
      BY <1>2, <1>6, <2>1, <3>5, <3>6, PortGrant
    <3>8. /\ brd'.state = "R" /\ ard'.state # "R" /\ brd'.beats = words
      BY <1>12, <1>15, <3>1, Zenon DEF words
    <3>9. next = FirstB + MoreB
      BY <2>2 DEF next
    <3>10. PortGoesOn
      BY <3>1, <3>7, <3>8, <3>9, Zenon DEF PortGoesOn, cells, back
    <3>11. QED
      BY <1>7, <1>11, <3>7, <3>10 DEF FifoTyped
  <2>6. QED
    BY <2>4, <2>5
<1>16. QED
  BY <1>13, <1>14, <1>15

(* The movers and the write side, in any cycle.                             *)
LEMMA MoversStep ==
  ASSUME RegsOK, MoversOK, Operands, NEW w, Cycle(w)
  PROVE  MoversOK' /\ wp' \in WpRegs /\ WriterServed' /\ ram' = [x \in 0 .. Depth - 1 |-> ram'[x]]
<1> DEFINE baseA == desc.cfg["A_BASE"] \div 4
           baseB == desc.cfg["B_BASE"] \div 4
           baseC == desc.cfg["C_BASE"] \div 4
           totalA == Shell!AWords
           totalB == Shell!BWords
           totalC == Shell!CWords
<1>1. /\ baseA \in Int /\ baseB \in Int /\ baseC \in Int
      /\ totalA \in Int /\ totalB \in Int /\ totalC \in Int /\ totalC >= 0
  BY DescWords
<1>2. /\ ard \in ReadRegs /\ brd \in ReadRegs /\ cwr \in WriteRegs /\ wp \in WpRegs /\ WriterServed
      /\ ram = [x \in 0 .. Depth - 1 |-> ram[x]]
      /\ AClock(w) /\ BClock(w) /\ CClock(w)
      /\ Port!WriteSide(ARequest, BRequest, CRequest, WriteBeat, C!BReady)
      /\ Port!Memory(WriteBeat)
  BY Zenon DEF MoversOK, Operands, PortTyped, WpRegs, Cycle, TopClock, Port!Clock
<1>3. /\ baseA = desc.cfg["A_BASE"] \div 4 /\ totalA = Shell!AWords
      /\ baseB = desc.cfg["B_BASE"] \div 4 /\ totalB = Shell!BWords
      /\ baseC = desc.cfg["C_BASE"] \div 4 /\ totalC = Shell!CWords
  OBVIOUS
<1> HIDE DEF baseA, baseB, baseC, totalA, totalB, totalC
<1>4. ard' \in ReadRegs
  BY <1>1, <1>2, <1>3, AStep, Zenon
<1>5. brd' \in ReadRegs
  BY <1>1, <1>2, <1>3, BStep, Zenon
<1>6. cwr' \in WriteRegs /\ wp' \in WpRegs /\ WriterServed'
  BY <1>1, <1>2, <1>3, WriterOn
<1>7. ram' = [x \in 0 .. Depth - 1 |-> ram'[x]]
  <2>1. ram' = ram \/ ram' = [ram EXCEPT ![Port!MemAddr] = WriteBeat.data]
    BY <1>2, Zenon DEF Port!Memory
  <2>2. QED
    BY <1>2, <2>1
<1>8. QED
  BY <1>4, <1>5, <1>6, <1>7 DEF MoversOK

(* A cycle of a load.                                                       *)
LEMMA OperandsLoading ==
  ASSUME RegsOK, Walk, MoversOK, Operands, JobFits, NEW w, Cycle(w), Loading
  PROVE  FifoTyped(rp)' /\ PortServes' /\ LoadsOperands'
<1>1. FifoTyped(rp)' /\ wp' = wp /\ ram' = ram /\ PortGoesOn
  BY LoadingStep
<1>2. /\ ard' \in ReadRegs /\ brd' \in ReadRegs
      /\ ReaderLoads(ard', FirstA, WordsA, MoreA) /\ ReaderLoads(brd', FirstB, WordsB, MoreB)
  BY ReadersGoOn DEF ReaderGoesOn
<1>3. /\ job.given /\ D' = D /\ job'.ram = job.ram /\ ~startQ'.q
      /\ Loading' => GotA' = MoreA /\ GotB' = MoreB /\ ~(MoreA >= WordsA /\ MoreB >= WordsB)
      /\ ~Loading' => MoreA >= WordsA /\ MoreB >= WordsB
  BY LoadProgress
<1>4. wp.state = "IDLE" /\ ram = job.ram
  BY DEF Operands, LoadsOperands
<1>5. WordsA \in Int /\ WordsB \in Int
  BY <1>3, JobWords DEF Walk
<1>6. MoreA \in Int /\ MoreB \in Int
  BY <1>2, <1>5 DEF ReaderLoads
<1>7. WordsA' = WordsA /\ WordsB' = WordsB /\ FirstA' = FirstA /\ FirstB' = FirstB
  BY <1>3, Zenon DEF WordsA, WordsB, FirstA, FirstB, Cell
<1>8. (MoreA >= WordsA <=> ard'.state = "IDLE") /\ (MoreB >= WordsB <=> brd'.state = "IDLE")
  BY <1>2, <1>5, <1>6, LoadsEnd
<1>9. CASE Loading'
  <2>1. GotA' = MoreA /\ GotB' = MoreB /\ (MoreA < WordsA \/ MoreB < WordsB)
    BY <1>3, <1>5, <1>6, <1>9
  <2>2. /\ ReaderLoads(ard', FirstA', WordsA', GotA') /\ ReaderLoads(brd', FirstB', WordsB', GotB')
        /\ GotA' < WordsA' \/ GotB' < WordsB'
    BY <1>2, <1>7, <2>1, Zenon
  <2>3. /\ ReaderLoads(ard, FirstA, WordsA, GotA)' /\ ReaderLoads(brd, FirstB, WordsB, GotB)'
        /\ (GotA < WordsA \/ GotB < WordsB)'
    BY <2>2, Zenon DEF ReaderLoads
  <2>4. (wp.state = "IDLE" /\ ram = job.ram)'
    BY <1>1, <1>3, <1>4
  <2>5. LoadsOperands'
    BY <1>3, <1>9, <2>3, <2>4, Zenon DEF LoadsOperands, FirstA, FirstB
  <2>6. /\ ard'.state = "R" => (rp.toB = FALSE /\ rp.popLeft = ard.beats /\ Serving(FirstA + GotA))'
        /\ brd'.state = "R" => (rp.toB = TRUE /\ rp.popLeft = brd.beats /\ Serving(FirstB + GotB))'
        /\ ard'.state # "R" /\ brd'.state # "R" => PortQuiet'
    BY <1>1, <1>7, <2>1, Zenon DEF PortGoesOn, Serving, FifoServes, Port!Bit
  <2>7. PortServes'
    BY <2>6, Zenon DEF PortServes, FirstA, FirstB
  <2>8. QED
    BY <1>1, <2>5, <2>7
<1>10. CASE ~Loading'
  <2>1. ard'.state = "IDLE" /\ brd'.state = "IDLE"
    BY <1>3, <1>8, <1>10
  <2>2. PortQuiet'
    BY <1>1, <2>1 DEF PortGoesOn
  <2>3. LoadsOperands'
    BY <1>3, <1>10, <2>1, <2>2, Zenon DEF LoadsOperands
  <2>4. PortServes'
    BY <1>10, Zenon DEF PortServes
  <2>5. QED
    BY <1>1, <2>3, <2>4
<1>11. QED
  BY <1>9, <1>10

(* Outside a load the readers rest until a START.                           *)
LEMMA OperandsResting ==
  ASSUME RegsOK, Walk, MoversOK, Operands, NEW w, Cycle(w), ~Loading
  PROVE  FifoTyped(rp)' /\ PortServes' /\ LoadsOperands'
<1>1. /\ ard.state = "IDLE" /\ brd.state = "IDLE" /\ PortQuiet /\ FifoTyped(rp)
      /\ ard \in ReadRegs /\ brd \in ReadRegs /\ ~startQ.q /\ eng.state # "LOAD"
  BY DEF Operands, LoadsOperands, PortTyped, MoversOK, Loading
<1>2. ~Port!StartRead(ARequest, BRequest)
  BY <1>1 DEF Port!StartRead, ARequest, BRequest, ReadRequest, A!ArValid, B!ArValid
<1>3. FifoTyped(rp)' /\ PortQuiet'
  <2>1. Port!ReadSide(ARequest, BRequest, ReadyA, ReadyB)
    BY Zenon DEF Cycle, TopClock, Port!Clock, ReadyA, ReadyB
  <2>2. QED
    BY <1>1, <1>2, <2>1, PortRests
<1> DEFINE baseA == desc.cfg["A_BASE"] \div 4
           baseB == desc.cfg["B_BASE"] \div 4
           totalA == Shell!AWords
           totalB == Shell!BWords
           start == JobStart(w)
<1>4. baseA \in Int /\ baseB \in Int /\ totalA \in Int /\ totalB \in Int
  BY DescWords
<1>5. /\ ~start => ard'.state = "IDLE" /\ brd'.state = "IDLE"
      /\ start => /\ ard'.addr = baseA /\ ard'.remaining = totalA /\ ard'.error = FALSE
                  /\ ard'.state = IF totalA = 0 THEN "IDLE" ELSE "AR"
                  /\ brd'.addr = baseB /\ brd'.remaining = totalB /\ brd'.error = FALSE
                  /\ brd'.state = IF totalB = 0 THEN "IDLE" ELSE "AR"
  <2>1. /\ baseA = desc.cfg["A_BASE"] \div 4 /\ totalA = Shell!AWords
        /\ baseB = desc.cfg["B_BASE"] \div 4 /\ totalB = Shell!BWords
        /\ AClock(w) /\ BClock(w)
    BY DEF Cycle, TopClock
  <2> HIDE DEF baseA, baseB, totalA, totalB
  <2> DEFINE goodA == Port!ROk /\ (Port!RLast <=> ard.beats = 1)
             goodB == Port!ROk /\ (Port!RLast <=> brd.beats = 1)
  <2>2. ReaderStep(ard, ard', start, baseA, totalA, GrantA, FireA, goodA)
    BY <1>1, <1>4, <2>1, AStep, Zenon DEF GrantA, FireA
  <2>3. ReaderStep(brd, brd', start, baseB, totalB, GrantB, FireB, goodB)
    BY <1>1, <1>4, <2>1, BStep, Zenon DEF GrantB, FireB
  <2> HIDE DEF goodA, goodB, start
  <2>4. QED
    BY <1>1, <2>2, <2>3, Zenon DEF ReaderStep, SameJob
<1>6. CASE ~start
  <2>1. ~startQ'.q
    BY <1>6, StartSteps DEF StartStep
  <2>2. eng'.state # "LOAD"
    <3>1. EngineStep /\ eng.state \in EngineStates
      BY EngineSteps DEF RegsOK, EngineOK, EngineRegs
    <3>2. QED
      BY <1>1, <3>1 DEF EngineStep, EngineStates, IdleStep, Starts, ClearStep, FeedStep, DrainStep,
         CaptureStep, FlushStep
  <2>3. ~Loading'
    BY <2>1, <2>2 DEF Loading
  <2>4. LoadsOperands'
    BY <1>3, <1>5, <1>6, <2>1, <2>3, Zenon DEF LoadsOperands
  <2>5. PortServes'
    BY <2>3, Zenon DEF PortServes
  <2>6. QED
    BY <1>3, <2>4, <2>5
<1>7. CASE start
  <2>1. /\ ~JobBusy /\ job' = [given |-> TRUE, cfg |-> desc.cfg, ram |-> ram, bias |-> bias, tiles |-> 0]
        /\ startQ'.q = TRUE /\ LegalConfig(desc.cfg)
    <3>1. StartStep(w)
      BY StartSteps
    <3>2. ~JobBusy /\ LegalConfig(desc.cfg)
      BY <1>7, StartLegal
    <3>3. /\ startQ' = [q |-> TRUE, d |-> ConfigDims(desc.cfg)]
          /\ job' = [given |-> TRUE, cfg |-> desc.cfg, ram |-> ram, bias |-> bias, tiles |-> 0]
      BY <1>7, <3>1, Zenon DEF StartStep
    <3>4. QED
      BY <3>2, <3>3
  <2>2. D' = desc.cfg /\ job'.ram = ram /\ Loading' /\ GotA' = 0 /\ GotB' = 0
    BY <2>1 DEF D, Loading, GotA, GotB
  <2>3. cwr.state = "IDLE"
    <3>1. Wires["C"].busy = C!Busy
      BY DEF Wires, Shell!Engines
    <3>2. QED
      BY <2>1, <3>1 DEF JobBusy, Shell!DmaBusy, Shell!Engines, C!Busy
  <2>4. wp.state = "IDLE"
    BY <2>3 DEF Operands, WriterServed
  <2>5. ram' = ram
    BY <2>4, Zenon DEF Cycle, TopClock, Port!Clock, Port!Memory, Port!WriteEnable, Port!WFire
  <2>6. wp' = wp
    BY <2>3, <2>4 DEF Cycle, TopClock, Port!Clock, Port!WriteSide, Port!StartWrite, CRequest,
       ReadRequest, C!AwValid
  <2>7. WordsA' = totalA /\ WordsB' = totalB
    BY <2>2, Zenon DEF WordsA, WordsB, Shell!AWords, Shell!BWords, Shell!PackedWords, Shell!Cfg
  <2>8. FirstA' = baseA - Base /\ FirstB' = baseB - Base
    BY <2>2, Zenon DEF FirstA, FirstB, Cell
  <2>9. totalA >= 1 /\ totalB >= 1
    <3>1. /\ desc.cfg["M"] \in Nat \ {0} /\ desc.cfg["N"] \in Nat \ {0} /\ desc.cfg["K"] \in Nat \ {0}
      BY <2>1, LegalNats DEF RegsOK, DescOK
    <3>2. \A x \in Nat \ {0}, y \in Nat \ {0} : x * y \in Nat /\ x * y >= 1
      BY SMT
    <3>3. /\ desc.cfg["M"] * desc.cfg["K"] \in Nat /\ desc.cfg["M"] * desc.cfg["K"] >= 1
          /\ desc.cfg["K"] * desc.cfg["N"] \in Nat /\ desc.cfg["K"] * desc.cfg["N"] >= 1
      BY <3>1, <3>2, Zenon
    <3>4. QED
      BY <3>3, WordCount, Zenon DEF Shell!AWords, Shell!BWords, Shell!PackedWords, Shell!Cfg
  <2> HIDE DEF baseA, baseB, totalA, totalB, start
  <2>10. ard'.state = "AR" /\ brd'.state = "AR"
    BY <1>4, <1>5, <1>7, <2>9
  <2>11. ReaderLoads(ard', baseA - Base, totalA, 0) /\ ReaderLoads(brd', baseB - Base, totalB, 0)
    BY <1>4, <1>5, <1>7, <2>9, <2>10, Constants DEF ReaderLoads
  <2>12. 0 < totalA
    BY <1>4, <2>9
  <2>13. /\ ReaderLoads(ard, FirstA, WordsA, GotA)' /\ ReaderLoads(brd, FirstB, WordsB, GotB)'
         /\ (GotA < WordsA)'
    BY <2>2, <2>7, <2>8, <2>11, <2>12, Zenon DEF ReaderLoads
  <2>14. (wp.state = "IDLE" /\ ram = job.ram)'
    BY <2>2, <2>4, <2>5, <2>6
  <2>15. LoadsOperands'
    BY <2>2, <2>10, <2>13, <2>14, Zenon DEF LoadsOperands, FirstA, FirstB
  <2>16. PortServes'
    BY <1>3, <2>10, Zenon DEF PortServes
  <2>17. QED
    BY <1>3, <2>15, <2>16
<1>8. QED
  BY <1>6, <1>7

LEMMA OperandsInit == Init => MoversOK /\ Operands
<1> SUFFICES ASSUME Init
             PROVE  MoversOK /\ Operands
  OBVIOUS
<1>1. /\ ard = [state |-> "IDLE", addr |-> 0, remaining |-> 0, burst |-> 0, beats |-> 0,
                done |-> FALSE, error |-> FALSE]
      /\ brd = ard /\ cwr = ard
      /\ rp = [state |-> "IDLE", toB |-> FALSE, preferB |-> FALSE, word |-> 0, issueLeft |-> 0,
               popLeft |-> 0, pending |-> FALSE, pendingLast |-> FALSE,
               data |-> [i \in 0 .. 1 |-> InitRam[0]], last |-> [i \in 0 .. 1 |-> FALSE],
               count |-> 0, head |-> 0]
      /\ wp = [state |-> "IDLE", word |-> 0, left |-> 0, err |-> FALSE]
      /\ ram = InitRam /\ startQ.q = FALSE /\ eng.state = "IDLE"
  BY DEF Init, TopReset, A!Reset, B!Reset, C!Reset, Port!ResetReadSide, Port!ResetWriteSide, NoJob,
     Engine!ResetEngine
<1>2. MoversOK
  <2> DEFINE zero == 0
  <2>1. ard = [state |-> "IDLE", addr |-> zero, remaining |-> zero, burst |-> zero, beats |-> zero,
               done |-> FALSE, error |-> FALSE] /\ zero \in Int
    BY <1>1
  <2> HIDE DEF zero
  <2>2. ard \in ReadRegs /\ ard \in WriteRegs
    BY <2>1 DEF ReadRegs, WriteRegs
  <2>3. QED
    BY <1>1, <2>2 DEF MoversOK
<1>3. FifoTyped(rp)
  <2> DEFINE zero == 0
             data == [i \in 0 .. 1 |-> InitRam[0]]
             last == [i \in 0 .. 1 |-> FALSE]
             n == rp
  <2>1. /\ zero \in Int /\ zero \in 0 .. 1 /\ data = [i \in 0 .. 1 |-> data[i]]
        /\ last \in [0 .. 1 -> BOOLEAN]
    OBVIOUS
  <2>2. n = [state |-> "IDLE", toB |-> FALSE, preferB |-> FALSE, word |-> zero, issueLeft |-> zero,
             popLeft |-> zero, pending |-> FALSE, pendingLast |-> FALSE, data |-> data,
             last |-> last, count |-> zero, head |-> zero]
    BY <1>1
  <2> HIDE DEF zero, data, last, n
  <2>3. /\ n.state = "IDLE" /\ n.toB = FALSE /\ n.preferB = FALSE /\ n.word = zero
        /\ n.issueLeft = zero /\ n.popLeft = zero /\ n.pending = FALSE
        /\ n.pendingLast = FALSE /\ n.data = data /\ n.last = last /\ n.count = zero
        /\ n.head = zero
    BY <2>2
  <2>4. FALSE \in BOOLEAN
    OBVIOUS
  <2>5. FifoTyped(n)
    BY <2>1, <2>2, <2>3, <2>4, FifoTyping, Zenon
  <2>6. QED
    BY <2>5 DEF n
<1>4. wp \in WpRegs
  <2> DEFINE zero == 0
  <2>1. wp = [state |-> "IDLE", word |-> zero, left |-> zero, err |-> FALSE] /\ zero \in Int
    BY <1>1
  <2> HIDE DEF zero
  <2>2. QED
    BY <2>1 DEF WpRegs
<1>5. ram = [x \in 0 .. Depth - 1 |-> ram[x]]
  BY <1>1, SystemAssumption
<1>6. ~Loading /\ ard.state = "IDLE" /\ brd.state = "IDLE" /\ cwr.state = "IDLE"
      /\ wp.state = "IDLE" /\ PortQuiet
  BY <1>1 DEF Loading, PortQuiet, FifoQuiet
<1>7. Operands
  BY <1>1, <1>3, <1>4, <1>5, <1>6 DEF Operands, PortTyped, WpRegs, WriterServed, PortServes,
     LoadsOperands
<1>8. QED
  BY <1>2, <1>7

LEMMA OperandsStep ==
  RegsOK /\ Walk /\ MoversOK /\ Operands /\ JobFits /\ [Next]_vars => MoversOK' /\ Operands'
<1> SUFFICES ASSUME RegsOK, Walk, MoversOK, Operands, JobFits, [Next]_vars
             PROVE  MoversOK' /\ Operands'
  OBVIOUS
<1>1. CASE Next
  <2>1. PICK w \in Writes \cup {NoWrite} : Cycle(w)
    BY <1>1 DEF Next
  <2>2. MoversOK' /\ wp' \in WpRegs /\ WriterServed' /\ ram' = [x \in 0 .. Depth - 1 |-> ram'[x]]
    BY <2>1, MoversStep
  <2>3. FifoTyped(rp)' /\ PortServes' /\ LoadsOperands'
    BY <2>1, OperandsLoading, OperandsResting
  <2>4. PortTyped'
    BY <2>2, <2>3, Zenon DEF PortTyped, WpRegs
  <2>5. QED
    BY <2>2, <2>3, <2>4 DEF Operands
<1>2. CASE UNCHANGED vars
  <2>1. /\ UNCHANGED <<ard, brd, cwr, rp, wp, ram, rdata>>
        /\ UNCHANGED <<eng, startQ, job>>
    BY <1>2 DEF vars, topVars
  <2>2. MoversOK'
    BY <2>1 DEF MoversOK
  <2>3. PortTyped' /\ WriterServed'
    BY <2>1, Zenon DEF Operands, PortTyped, FifoTyped, WriterServed
  <2>4. UNCHANGED <<Loading, GotA, GotB, D, WordsA, WordsB>>
    BY <2>1, Zenon DEF Loading, GotA, GotB, D, WordsA, WordsB
  <2>5. LoadsOperands'
    BY <2>1, <2>4, Zenon DEF Operands, LoadsOperands, ReaderLoads, Cell, PortQuiet, FifoQuiet
  <2>6. PortServes'
    BY <2>1, <2>4, Zenon DEF Operands, PortServes, Serving, FifoServes, Port!Bit, Cell, PortQuiet,
       FifoQuiet
  <2>7. QED
    BY <2>2, <2>3, <2>5, <2>6 DEF Operands
<1>3. QED
  BY <1>1, <1>2

LEMMA LoadsFirst == Operands => OperandsBeforeWrites
<1> SUFFICES ASSUME Operands, wp.state = "DATA"
             PROVE  ~startQ.q /\ eng.state # "LOAD" /\ ~Port!ReadBusy
  BY DEF OperandsBeforeWrites
<1>1. ~Loading
  BY DEF Operands, LoadsOperands
<1>2. QED
  BY <1>1 DEF Operands, LoadsOperands, Loading, PortQuiet, FifoQuiet, Port!ReadBusy

(* The C mover never holds the port while an operand is still on its way,   *)
(* as long as every job keeps its operands inside the RAM window.           *)
THEOREM OperandsFirst == Spec /\ []JobFits => []OperandsBeforeWrites
<1>1. Init => MoversOK /\ Operands
  BY OperandsInit
<1>2. RegsOK /\ Walk /\ MoversOK /\ Operands /\ JobFits /\ [Next]_vars => MoversOK' /\ Operands'
  BY OperandsStep
<1>3. Operands => OperandsBeforeWrites
  BY LoadsFirst
<1>4. Spec => [](RegsOK /\ Walk)
  BY WalkAlways
<1>5. Spec /\ []JobFits => []OperandsBeforeWrites
  BY <1>1, <1>2, <1>3, <1>4, PTL DEF Spec
<1>6. QED
  BY <1>5

-----------------------------------------------------------------------------
(* The result.  A job runs with the registers it was given.                 *)
Held == JobBusy => job.given /\ desc.cfg = D /\ bias = job.bias

(* The buffers: the bytes of so many words of an operand at base, of rows   *)
(* of the given length, are in.                                             *)
Stored(cells, base, rows, length, words) ==
  \A r \in 0 .. rows - 1, k \in 0 .. length - 1 :
    (r * length + k) \div 4 < words => cells[<<r, k>>] = SignedByte(base, r * length + k)
HoldsA(words) == Stored(mem.a, D["A_BASE"], D["M"], D["K"], words)
HoldsB(words) == Stored(mem.b, D["B_BASE"], D["K"], D["N"], words)

MemShaped ==
  /\ mem = [a |-> mem.a, b |-> mem.b, c |-> mem.c]
  /\ mem.a = [p \in (0 .. MaxM - 1) \X (0 .. MaxK - 1) |-> mem.a[p]]
  /\ mem.b = [p \in (0 .. MaxK - 1) \X (0 .. MaxN - 1) |-> mem.b[p]]
  /\ mem.c = [p \in (0 .. MaxM - 1) \X (0 .. MaxN - 1) |-> mem.c[p]]

Buffered ==
  /\ MemShaped
  /\ eng.state = "LOAD" => HoldsA(eng.a) /\ HoldsB(eng.b)
  /\ eng.state \notin {"IDLE", "LOAD"} => HoldsA(WordsA) /\ HoldsB(WordsB)

(* What lane i of each edge was fed s clocks into a tile, and how many      *)
(* products have met in the PE of distance d from the corner after t.       *)
West(i, s) ==
  IF s \in 0 .. D["K"] - 1 /\ i < Engine!TmLen
    THEN SignedByte(D["A_BASE"], (eng.m0 + i) * D["K"] + s) ELSE 0
North(i, s) ==
  IF s \in 0 .. D["K"] - 1 /\ i < Engine!TnLen
    THEN SignedByte(D["B_BASE"], s * D["N"] + (eng.n0 + i)) ELSE 0
Met(t, d) == IF t - 1 - d < 0 THEN 0 ELSE IF t - 1 - d > D["K"] THEN D["K"] ELSE t - 1 - d

LinesHold(a, t) ==
  \A i \in 0 .. ArrayN - 1 : \A j \in 0 .. i + ArrayN - 1 :
    a.west[i][j] = West(i, t - 1 - j) /\ a.north[i][j] = North(i, t - 1 - j)
SumsHold(a, t) ==
  \A r \in 0 .. ArrayN - 1, c \in 0 .. ArrayN - 1 :
    r < Engine!TmLen /\ c < Engine!TnLen =>
      a.acc[<<r, c>>] = Sum(Products(eng.m0 + r, eng.n0 + c), Met(t, r + c))
ArrayHolds(a, t) == LinesHold(a, t) /\ SumsHold(a, t)

Computing ==
  /\ eng.state = "FEED" => eng.feedK \in 0 .. D["K"] - 1 /\ ArrayHolds(arr, eng.feedK)
  /\ eng.state = "DRAIN" => eng.drain \in 0 .. 2 * ArrayN - 2 /\ ArrayHolds(arr, D["K"] + eng.drain)
  /\ eng.state = "CAPTURE" => ArrayHolds(arr, D["K"] + 2 * ArrayN - 1)

(* The elements of C the engine has: tiles row by row, and what is handed   *)
(* on of them element by element.                                           *)
Captured(r, c) ==
  \/ eng.state = "FLUSH_OUT"
  \/ Walking /\ (r < eng.m0 \/ (r < eng.m0 + Engine!TmLen /\ c < eng.n0))
Finished ==
  \A r \in 0 .. D["M"] - 1, c \in 0 .. D["N"] - 1 :
    Captured(r, c) => mem.c[<<r, c>>] = Element(r, c)
RowsFinal ==
  /\ eng.state \in {"LOAD", "CLEAR"} => out.rowsReady = 0
  /\ Walking => out.rowsReady = eng.m0

OutCount == IF startQ.q THEN 0 ELSE out.count
OutShaped == out \in [row : Int, col : Int, count : Int, rowsReady : Int]
Handing ==
  job.given =>
    /\ OutCount \in 0 .. Elements
    /\ ~startQ.q =>
         out.row >= 0 /\ out.col \in 0 .. D["N"] - 1 /\ out.count = out.row * D["N"] + out.col
    /\ eng.state = "LOAD" => OutCount = 0
    /\ Packed => outCol = IF startQ.q THEN 0 ELSE out.col

(* The packer: words it has put together, and the lanes of the next.        *)
Emitted == IF OutCount = Elements THEN ResultWords ELSE OutCount \div 4
Packing ==
  /\ pack = [word |-> pack.word, lane |-> pack.lane, valid |-> pack.valid, last |-> pack.last]
  /\ pack.valid \in BOOLEAN
  /\ ~(job.given /\ Packed) => ~pack.valid /\ pack.lane = 0
  /\ job.given /\ Packed =>
       /\ pack.lane = IF OutCount = Elements THEN 0 ELSE OutCount % 4
       /\ \A i \in 0 .. 3 :
            i < pack.lane => pack.word[i] = Requantized(4 * (OutCount \div 4) + i) % 256
       /\ pack.valid => pack.lane = 0 /\ pack.word = ResultWord(Emitted - 1)

(* The writer: words of the result it has sent, and what they are in RAM.   *)
Given == IF Packed THEN Emitted - Port!Bit(pack.valid) ELSE OutCount
Sent ==
  CASE cwr.state = "IDLE" -> ResultWords
    [] cwr.state = "AW" -> ResultWords - cwr.remaining
    [] cwr.state = "W" -> ResultWords - cwr.remaining + cwr.burst - cwr.beats
    [] cwr.state = "B" -> ResultWords - cwr.remaining + cwr.burst
Sending ==
  job.given =>
    /\ Sent = Given
    /\ cwr.state # "IDLE" =>
         cwr.remaining \in 1 .. ResultWords /\ cwr.addr = Base + First + ResultWords - cwr.remaining
    /\ wp.state = "DATA" => wp.word = First + Sent /\ ~wp.err
    /\ \A x \in 0 .. Depth - 1 :
         ram[x] = IF x - First \in 0 .. Sent - 1 THEN ResultWord(x - First) ELSE job.ram[x]

(* The RAM a job begins with holds words, and so does the RAM before any.   *)
Cells == [0 .. Depth - 1 -> Word]
CellsHold == job.ram \in Cells /\ (~job.given => ram \in Cells)

-----------------------------------------------------------------------------
(* A job keeps its registers.                                               *)
LEMMA BusyMeans ==
  /\ JobBusy <=> \/ ard.state # "IDLE" \/ brd.state # "IDLE" \/ cwr.state # "IDLE"
                 \/ eng.state # "IDLE" \/ startQ.q
  /\ JobBusy' <=> \/ ard'.state # "IDLE" \/ brd'.state # "IDLE" \/ cwr'.state # "IDLE"
                  \/ eng'.state # "IDLE" \/ startQ'.q
<1>1. /\ Wires["A"].busy = A!Busy /\ Wires["B"].busy = B!Busy /\ Wires["C"].busy = C!Busy
      /\ Wires["X"].busy = ComputeBusy
  BY DEF Wires, Shell!Engines
<1>2. /\ Wires'["A"].busy = A!Busy' /\ Wires'["B"].busy = B!Busy' /\ Wires'["C"].busy = C!Busy'
      /\ Wires'["X"].busy = ComputeBusy'
  BY DEF Wires, Shell!Engines
<1>3. QED
  BY <1>1, <1>2 DEF JobBusy, Shell!DmaBusy, Shell!Engines, A!Busy, B!Busy, C!Busy, ComputeBusy,
     Engine!EngineBusy

LEMMA DescHeld ==
  ASSUME RegsOK, NEW w, Cycle(w), JobBusy \/ JobStart(w)
  PROVE  desc'.cfg = desc.cfg /\ bias' = bias
<1> DEFINE v == ShellWrite(w)
<1>1. JobStart(w) => v.reg = "CTRL" /\ w.reg = "CTRL"
  BY DEF v, ShellWrite, JobStart, Shell!Accept, Shell!Start, Shell!DmaStart, Shell!CtrlWrite
<1>2. bias' = bias
  BY <1>1 DEF Cycle, TopClock, BiasClock, BiasHit
<1>3. desc'.cfg = [f \in Fields |-> Shell!FieldNext(f, v, JobBusy)]
  BY DEF Cycle, TopClock, Shell!ShellClock, Shell!Clock, Fields, JobBusy, v
<1> HIDE DEF v
<1>4. ASSUME NEW f \in Fields
      PROVE  Shell!FieldNext(f, v, JobBusy) = desc.cfg[f]
  BY <1>1 DEF Shell!FieldNext, Shell!CfgWrite, Shell!Fields
<1>5. desc.cfg = [f \in Fields |-> desc.cfg[f]]
  BY DEF RegsOK, DescOK, ConfigType
<1>6. QED
  BY <1>2, <1>3, <1>4, <1>5

(* Without a START nothing that rests begins to work.                       *)
LEMMA RestsOn ==
  ASSUME RegsOK, MoversOK, NEW w, Cycle(w), ~JobStart(w), ~JobBusy
  PROVE  ~JobBusy'
<1>1. /\ ard.state = "IDLE" /\ brd.state = "IDLE" /\ cwr.state = "IDLE" /\ eng.state = "IDLE"
      /\ ~startQ.q
  BY BusyMeans
<1>2. startQ'.q = FALSE /\ eng'.state = "IDLE"
  BY <1>1, StartSteps, EngineSteps DEF RegsOK, StartStep, EngineStep, IdleStep, Starts
<1>3. ard'.state = "IDLE"
  BY <1>1 DEF Cycle, TopClock, AClock, A!Idle, A!Address, A!Data, A!Drain, A!Hold, MoversOK, ReadRegs
<1>4. brd'.state = "IDLE"
  BY <1>1 DEF Cycle, TopClock, BClock, B!Idle, B!Address, B!Data, B!Drain, B!Hold, MoversOK, ReadRegs
<1>5. cwr'.state = "IDLE"
  BY <1>1 DEF Cycle, TopClock, CClock, C!Idle, C!Address, C!Data, C!Response, C!Hold, MoversOK,
     WriteRegs
<1>6. QED
  BY <1>2, <1>3, <1>4, <1>5, BusyMeans

LEMMA HeldStep ==
  ASSUME RegsOK, MoversOK, Held, NEW w, Cycle(w)
  PROVE  Held'
<1>1. StartStep(w)
  BY StartSteps
<1>2. CASE JobStart(w)
  BY <1>1, <1>2, DescHeld DEF StartStep, Held, D
<1>3. CASE ~JobStart(w) /\ JobBusy
  BY <1>1, <1>3, DescHeld DEF StartStep, Held, D
<1>4. CASE ~JobStart(w) /\ ~JobBusy
  BY <1>4, RestsOn DEF Held
<1>5. QED
  BY <1>2, <1>3, <1>4

(* What a job owes does not change under way.                               *)
LEMMA OwedSame ==
  ASSUME job'.cfg = job.cfg, job'.ram = job.ram, job'.bias = job.bias
  PROVE  /\ D' = D /\ Elements' = Elements /\ Packed' = Packed /\ First' = First
         /\ ResultWords' = ResultWords /\ WordsA' = WordsA /\ WordsB' = WordsB
         /\ \A base, i : SignedByte(base, i)' = SignedByte(base, i)
         /\ \A r, c : Products(r, c)' = Products(r, c) /\ Element(r, c)' = Element(r, c)
         /\ \A i : ElementOfC(i)' = ElementOfC(i) /\ Requantized(i)' = Requantized(i)
         /\ \A x : ResultWord(x)' = ResultWord(x)
<1>1. D' = D
  BY DEF D
<1>2. /\ Elements' = Elements /\ Packed' = Packed /\ First' = First
      /\ WordsA' = WordsA /\ WordsB' = WordsB
  BY <1>1, Zenon DEF Elements, Packed, First, Cell, WordsA, WordsB
<1>3. ResultWords' = ResultWords
  BY <1>2, Zenon DEF ResultWords
<1>4. \A base, i : SignedByte(base, i)' = SignedByte(base, i)
  BY Zenon DEF SignedByte, Cell
<1> DEFINE Byte(r, base, x) ==
             LET b == r[Cell(base) + x \div 4][x % 4] IN IF b < 128 THEN b ELSE b - 256
           Terms(d, cells, r, c) ==
             [k \in 0 .. d["K"] - 1 |-> Byte(cells, d["A_BASE"], r * d["K"] + k)
                                          * Byte(cells, d["B_BASE"], k * d["N"] + c)]
           Elem(d, cells, i) == Sum(Terms(d, cells, i \div d["N"], i % d["N"]), d["K"])
           Quant(d, cells, column, i) ==
             Between(IF d["POST_CFG"] % 2 = 1 THEN 0 ELSE -128,
                     Pack!ShiftRight((Elem(d, cells, i) + Pack!Signed(d["POST_BIAS"])
                                        + Pack!Signed(column[i % d["N"]]))
                                       * Pack!Signed(d["POST_SCALE"]), d["POST_CFG"] \div 4), 127)
           Packs(d, cells, column, x) ==
             [lane \in 0 .. 3 |->
               IF ~((d["POST_CFG"] \div 2) % 2 = 1) THEN (Elem(d, cells, x) \div 256^lane) % 256
               ELSE IF 4 * x + lane < d["M"] * d["N"] THEN Quant(d, cells, column, 4 * x + lane) % 256
               ELSE 0]
<1>5. \A r, c : Products(r, c) = Terms(D, job.ram, r, c) /\ Products(r, c)' = Terms(D', job'.ram, r, c)
  BY Zenon DEF Products, SignedByte, Cell
<1>6. \A i : ElementOfC(i) = Elem(D, job.ram, i) /\ ElementOfC(i)' = Elem(D', job'.ram, i)
  BY Zenon DEF ElementOfC, Element, Products, SignedByte, Cell, Sum
<1>7. \A i : /\ Requantized(i) = Quant(D, job.ram, job.bias, i)
             /\ Requantized(i)' = Quant(D', job'.ram, job'.bias, i)
  BY Zenon DEF Requantized, Between, Biased, Pack!Signed, ElementOfC, Element, Products,
     SignedByte, Cell, Sum
<1>8. \A x : /\ ResultWord(x) = Packs(D, job.ram, job.bias, x)
             /\ ResultWord(x)' = Packs(D', job'.ram, job'.bias, x)
  BY Zenon DEF ResultWord, Elements, Packed, Requantized, Between, Biased, Pack!Signed,
     ElementOfC, Element, Products, SignedByte, Cell, Sum
<1>9. \A r, c : /\ Element(r, c) = Sum(Terms(D, job.ram, r, c), D["K"])
                /\ Element(r, c)' = Sum(Terms(D', job'.ram, r, c), D'["K"])
  BY Zenon DEF Element, Products, SignedByte, Cell, Sum
<1> HIDE DEF Byte, Terms, Elem, Quant, Packs
<1>10. QED
  BY <1>1, <1>2, <1>3, <1>4, <1>5, <1>6, <1>7, <1>8, <1>9, Zenon

-----------------------------------------------------------------------------
(* The size of a result, and its place in the window.                       *)
LEMMA ResultSize ==
  ASSUME RegsOK, JobKnown, job.given
  PROVE  /\ Elements \in Nat \ {0} /\ ResultWords \in Nat \ {0} /\ First \in Int
         /\ Packed => ResultWords = (Elements + 3) \div 4
         /\ ~Packed => ResultWords = Elements
         /\ JobFits => First >= 0 /\ First + ResultWords <= Depth
<1>1. D["M"] \in Nat \ {0} /\ D["N"] \in Nat \ {0}
  BY LegalTyped DEF JobKnown
<1>2. Elements \in Nat /\ Elements >= 1
  <2>1. \A x \in Nat \ {0}, y \in Nat \ {0} : x * y \in Nat /\ x * y >= 1
    BY SMT
  <2>2. QED
    BY <1>1, <2>1, Zenon DEF Elements
<1>3. (Elements + 3) \div 4 \in Nat /\ (Elements + 3) \div 4 >= 1
  BY <1>2, WordCount, Zenon
<1>4. First \in Int
  <2>1. D["C_BASE"] \in Nat /\ 4 \in Nat \ {0}
    BY DEF D, RegsOK, JobOK, ConfigType, Fields, Shell!Fields
  <2>2. D["C_BASE"] \div 4 \in Nat
    BY <2>1, Division, Zenon
  <2>3. QED
    BY <2>2, Constants DEF First, Cell
<1>5. JobFits => InWindow(D["C_BASE"], ResultWords)
  BY Zenon DEF JobFits
<1>6. D["C_BASE"] \div 4 \in Int
  BY DEF D, RegsOK, JobOK, ConfigType, Fields, Shell!Fields
<1>7. ResultWords \in Nat \ {0} /\ (Packed => ResultWords = (Elements + 3) \div 4)
      /\ (~Packed => ResultWords = Elements)
  BY <1>2, <1>3 DEF ResultWords
<1>8. QED
  BY <1>2, <1>4, <1>5, <1>6, <1>7, Constants DEF First, Cell, InWindow

-----------------------------------------------------------------------------
(* The operand buffers.                                                     *)
Grid(x, y) == (0 .. x - 1) \X (0 .. y - 1)

(* A word unpacked is four bytes more.                                      *)
LEMMA StoresOn ==
  ASSUME NEW x \in Nat, NEW y \in Nat, NEW cells, cells = [p \in Grid(x, y) |-> cells[p]],
         NEW rows \in 1 .. x, NEW length \in 1 .. y, NEW base, NEW words \in Nat,
         Stored(cells, base, rows, length, words),
         NEW new,
         new = Engine!Unpack(cells, job.ram[Cell(base) + words], words, rows * length, length)
  PROVE  /\ new = [p \in Grid(x, y) |-> new[p]]
         /\ Stored(new, base, rows, length, words + 1)
<1> DEFINE word == job.ram[Cell(base) + words]
           i(p) == p[1] * length + p[2]
           byte(p) == Engine!SignedByte(word[i(p) % 4])
           due(p) == p[2] < length /\ i(p) < rows * length /\ i(p) \div 4 = words
<1>1. DOMAIN cells = Grid(x, y)
  <2> DEFINE f == [p \in Grid(x, y) |-> cells[p]]
  <2>1. DOMAIN f = Grid(x, y)
    OBVIOUS
  <2>2. cells = f
    OBVIOUS
  <2> HIDE DEF f
  <2>3. QED
    BY <2>1, <2>2
<1>2. new = [p \in Grid(x, y) |-> IF due(p) THEN byte(p) ELSE cells[p]]
  BY <1>1, Zenon DEF Engine!Unpack
<1>3. new = [p \in Grid(x, y) |-> new[p]]
  <2> HIDE DEF due, byte
  <2>1. QED
    BY <1>2
<1>4. ASSUME NEW r \in 0 .. rows - 1, NEW k \in 0 .. length - 1,
             (r * length + k) \div 4 < words + 1
      PROVE  new[<<r, k>>] = SignedByte(base, r * length + k)
  <2> DEFINE n == r * length + k
  <2>1. n \in 0 .. rows * length - 1
    BY CellInRange
  <2>2. n \div 4 \in Nat
    <3>1. n \in Nat /\ 4 \in Nat \ {0}
      <4>1. rows * length \in Nat
        BY SMT
      <4> HIDE DEF n
      <4>2. QED
        BY <2>1, <4>1
    <3> HIDE DEF n
    <3>2. QED
      BY <3>1, Division
  <2>3. <<r, k>> \in Grid(x, y)
    BY DEF Grid
  <2>4. new[<<r, k>>] = IF due(<<r, k>>) THEN byte(<<r, k>>) ELSE cells[<<r, k>>]
    <3> HIDE DEF due, byte
    <3>1. QED
      BY <1>2, <2>3
  <2>5. /\ due(<<r, k>>) <=> n \div 4 = words
        /\ byte(<<r, k>>) = Engine!SignedByte(word[n % 4])
    <3>1. i(<<r, k>>) = n
      OBVIOUS
    <3>2. n < rows * length
      <4>1. rows * length \in Nat
        BY SMT
      <4> HIDE DEF n
      <4>2. QED
        BY <2>1, <4>1
    <3> HIDE DEF i, n
    <3>3. QED
      BY <3>1, <3>2
  <2> HIDE DEF due, byte
  <2>6. CASE n \div 4 = words
    <3> HIDE DEF n
    <3>1. new[<<r, k>>] = Engine!SignedByte(word[n % 4])
      BY <2>4, <2>5, <2>6
    <3>2. QED
      BY <2>6, <3>1, Zenon DEF n, Engine!SignedByte, SignedByte
  <2>7. CASE n \div 4 # words
    <3>1. n \div 4 < words + 1
      BY <1>4
    <3> HIDE DEF n
    <3>2. n \div 4 < words
      BY <2>2, <2>7, <3>1
    <3>3. new[<<r, k>>] = cells[<<r, k>>]
      BY <2>4, <2>5, <2>7
    <3>4. QED
      BY <3>2, <3>3, Zenon DEF n, Stored
  <2>8. QED
    BY <2>6, <2>7
<1>5. Stored(new, base, rows, length, words + 1)
  BY <1>4, Zenon DEF Stored
<1>6. QED
  BY <1>3, <1>5

(* The words that reach the engine are those of the operands.               *)
LEMMA LoadedWords ==
  ASSUME RegsOK, Walk, MoversOK, Operands, JobFits, eng.state = "LOAD"
  PROVE  /\ eng.a \in Nat /\ eng.b \in Nat
         /\ TakesA => AWord.word = job.ram[FirstA + eng.a]
         /\ TakesB => BWord.word = job.ram[FirstB + eng.b]
<1>1. Loading /\ ~startQ.q /\ job.given /\ JobKnown /\ cfg = EngineDims
  BY DEF Loading, Walk, EngineKnown
<1>2. GotA = eng.a /\ GotB = eng.b
  BY <1>1 DEF GotA, GotB
<1>3. /\ ReaderLoads(ard, FirstA, WordsA, eng.a) /\ ReaderLoads(brd, FirstB, WordsB, eng.b)
      /\ ard.state = "R" => ServesA(FirstA + eng.a)
      /\ brd.state = "R" => ServesB(FirstB + eng.b)
      /\ ram = job.ram /\ FifoTyped(rp) /\ ard \in ReadRegs /\ brd \in ReadRegs
  BY <1>1, <1>2, Zenon DEF Operands, LoadsOperands, PortServes, PortTyped, ServesA, ServesB, Serving,
     FirstA, FirstB, MoversOK
<1>4. WordsA \in Nat \ {0} /\ WordsB \in Nat \ {0}
  BY <1>1, JobWords
<1>5. eng.a \in Nat /\ eng.b \in Nat
  BY <1>3, <1>4 DEF ReaderLoads
<1>6. (TakesA <=> ard.state = "R" /\ FireA) /\ (TakesB <=> brd.state = "R" /\ FireB)
  BY <1>3, Asks
<1>7. rp.count \in Int
  BY <1>3, Zenon DEF FifoTyped
<1>8. ASSUME TakesA
      PROVE  AWord.word = job.ram[FirstA + eng.a]
  <2>1. rp.state = "BURST" /\ FifoServes(rp, FirstA + eng.a, ram, rdata)
    BY <1>3, <1>6, <1>8 DEF ServesA
  <2>2. rp.count # 0 /\ rp.count >= 0
    BY <1>6, <1>8, <2>1 DEF FireA, Port!RValid, Port!OutValid, Port!ErrValid, FifoServes
  <2>3. rp.count > 0
    BY <1>7, <2>2
  <2>4. rp.data[rp.head] = ram[FirstA + eng.a]
    BY <2>1, <2>3, Zenon DEF FifoServes
  <2>5. QED
    BY <1>3, <2>4 DEF AWord, Port!RData
<1>9. ASSUME TakesB
      PROVE  BWord.word = job.ram[FirstB + eng.b]
  <2>1. rp.state = "BURST" /\ FifoServes(rp, FirstB + eng.b, ram, rdata)
    BY <1>3, <1>6, <1>9 DEF ServesB
  <2>2. rp.count # 0 /\ rp.count >= 0
    BY <1>6, <1>9, <2>1 DEF FireB, Port!RValid, Port!OutValid, Port!ErrValid, FifoServes
  <2>3. rp.count > 0
    BY <1>7, <2>2
  <2>4. rp.data[rp.head] = ram[FirstB + eng.b]
    BY <2>1, <2>3, Zenon DEF FifoServes
  <2>5. QED
    BY <1>3, <2>4 DEF BWord, Port!RData
<1>10. QED
  BY <1>5, <1>8, <1>9

(* A load of one clock.                                                     *)
LEMMA BuffersLoad ==
  ASSUME RegsOK, Walk, MoversOK, Operands, JobFits, Buffered, NEW w, Cycle(w), eng.state = "LOAD"
  PROVE  /\ MemShaped' /\ mem'.c = mem.c
         /\ eng'.a \in Nat /\ eng'.b \in Nat
         /\ Stored(mem'.a, D["A_BASE"], D["M"], D["K"], eng'.a)
         /\ Stored(mem'.b, D["B_BASE"], D["K"], D["N"], eng'.b)
<1>1. /\ MemShaped /\ HoldsA(eng.a) /\ HoldsB(eng.b)
  BY DEF Buffered
<1>2. /\ eng.a \in Nat /\ eng.b \in Nat
      /\ TakesA => AWord.word = job.ram[FirstA + eng.a]
      /\ TakesB => BWord.word = job.ram[FirstB + eng.b]
  BY LoadedWords
<1>3. LoadStep /\ cfg = EngineDims /\ JobLegal
  BY EngineSteps DEF RegsOK, EngineStep, Walk, EngineKnown, JobKnown
<1>4. D["M"] \in 1 .. MaxM /\ D["N"] \in 1 .. MaxN /\ D["K"] \in 1 .. MaxK
  BY <1>3 DEF JobLegal, LegalConfig
<1>5. cfg.m = D["M"] /\ cfg.n = D["N"] /\ cfg.k = D["K"]
  BY <1>3 DEF EngineDims
<1> DEFINE newA == IF TakesA THEN Engine!Unpack(mem.a, AWord.word, eng.a, cfg.m * cfg.k, cfg.k) ELSE mem.a
           newB == IF TakesB THEN Engine!Unpack(mem.b, BWord.word, eng.b, cfg.k * cfg.n, cfg.n) ELSE mem.b
           n == mem'
<1>6. n = [mem EXCEPT !.a = newA, !.b = newB]
  <2>1. [mem EXCEPT !.a = newA].b = mem.b
    BY <1>1 DEF MemShaped
  <2>2. QED
    BY <1>3, <2>1, Zenon DEF LoadStep
<1>7. /\ newA = [p \in Grid(MaxM, MaxK) |-> newA[p]]
      /\ Stored(newA, D["A_BASE"], D["M"], D["K"], eng.a + Engine!Taken(TakesA))
  <2>1. mem.a = [p \in Grid(MaxM, MaxK) |-> mem.a[p]]
    BY <1>1 DEF MemShaped, Grid
  <2>2. Stored(mem.a, D["A_BASE"], D["M"], D["K"], eng.a)
    BY <1>1 DEF HoldsA
  <2>3. CASE TakesA
    <3> DEFINE new == Engine!Unpack(mem.a, job.ram[Cell(D["A_BASE"]) + eng.a], eng.a,
                                    D["M"] * D["K"], D["K"])
    <3>1. newA = new
      BY <1>2, <1>5, <2>3 DEF FirstA
    <3>2. MaxM \in Nat /\ MaxK \in Nat
      BY Constants
    <3>3. /\ new = [p \in Grid(MaxM, MaxK) |-> new[p]]
          /\ Stored(new, D["A_BASE"], D["M"], D["K"], eng.a + 1)
      BY <1>2, <1>4, <2>1, <2>2, <3>2, StoresOn
    <3> HIDE DEF new, newA
    <3>4. QED
      BY <2>3, <3>1, <3>3 DEF Engine!Taken
  <2>4. CASE ~TakesA
    <3>1. newA = mem.a /\ eng.a + Engine!Taken(TakesA) = eng.a
      BY <1>2, <2>4 DEF Engine!Taken
    <3> HIDE DEF newA
    <3>2. QED
      BY <2>1, <2>2, <3>1
  <2>5. QED
    BY <2>3, <2>4
<1>8. /\ newB = [p \in Grid(MaxK, MaxN) |-> newB[p]]
      /\ Stored(newB, D["B_BASE"], D["K"], D["N"], eng.b + Engine!Taken(TakesB))
  <2>1. mem.b = [p \in Grid(MaxK, MaxN) |-> mem.b[p]]
    BY <1>1 DEF MemShaped, Grid
  <2>2. Stored(mem.b, D["B_BASE"], D["K"], D["N"], eng.b)
    BY <1>1 DEF HoldsB
  <2>3. CASE TakesB
    <3> DEFINE new == Engine!Unpack(mem.b, job.ram[Cell(D["B_BASE"]) + eng.b], eng.b,
                                    D["K"] * D["N"], D["N"])
    <3>1. newB = new
      BY <1>2, <1>5, <2>3 DEF FirstB
    <3>2. MaxK \in Nat /\ MaxN \in Nat
      BY Constants
    <3>3. /\ new = [p \in Grid(MaxK, MaxN) |-> new[p]]
          /\ Stored(new, D["B_BASE"], D["K"], D["N"], eng.b + 1)
      BY <1>2, <1>4, <2>1, <2>2, <3>2, StoresOn
    <3> HIDE DEF new, newB
    <3>4. QED
      BY <2>3, <3>1, <3>3 DEF Engine!Taken
  <2>4. CASE ~TakesB
    <3>1. newB = mem.b /\ eng.b + Engine!Taken(TakesB) = eng.b
      BY <1>2, <2>4 DEF Engine!Taken
    <3> HIDE DEF newB
    <3>2. QED
      BY <2>1, <2>2, <3>1
  <2>5. QED
    BY <2>3, <2>4
<1>9. eng'.a = eng.a + Engine!Taken(TakesA) /\ eng'.b = eng.b + Engine!Taken(TakesB)
  BY <1>3 DEF LoadStep
<1>10. eng'.a \in Nat /\ eng'.b \in Nat
  BY <1>2, <1>9 DEF Engine!Taken
<1> HIDE DEF newA, newB, n
<1>11. /\ n = [a |-> n.a, b |-> n.b, c |-> n.c] /\ n.a = newA /\ n.b = newB /\ n.c = mem.c
  BY <1>1, <1>6 DEF MemShaped
<1>12. n.c = [p \in (0 .. MaxM - 1) \X (0 .. MaxN - 1) |-> n.c[p]]
  BY <1>1, <1>11 DEF MemShaped
<1>13. MemShaped'
  BY <1>7, <1>8, <1>11, <1>12 DEF MemShaped, Grid, n
<1>14. QED
  BY <1>7, <1>8, <1>9, <1>10, <1>11, <1>13, Zenon DEF n

(* A job that has begun is the same one clock on.                           *)
LEMMA SameJobOn ==
  ASSUME RegsOK, NEW w, Cycle(w), ~JobStart(w)
  PROVE  /\ job'.given = job.given /\ job'.cfg = job.cfg /\ job'.ram = job.ram
         /\ job'.bias = job.bias /\ ~startQ'.q
  BY StartSteps DEF StartStep

LEMMA BuffersStand ==
  ASSUME RegsOK, Walk, NEW w, Cycle(w), eng.state \notin {"IDLE", "LOAD"}
  PROVE  /\ mem'.a = mem.a /\ mem'.b = mem.b
         /\ eng'.state \in EngineStates \ {"LOAD"}
         /\ MemShaped => MemShaped'
<1>1. eng.state \in EngineStates /\ EngineStep /\ eng' \in EngineRegs
  BY EngineSteps DEF RegsOK, EngineOK, EngineRegs, EngineStep
<1>2. eng'.state \in EngineStates \ {"LOAD"}
  BY <1>1 DEF EngineStep, EngineStates, ClearStep, FeedStep, DrainStep, CaptureStep, FlushStep, EngineRegs
<1>3. CASE eng.state # "CAPTURE"
  <2>1. mem' = mem
    BY <1>1, <1>3 DEF EngineStep, EngineStates, ClearStep, FeedStep, DrainStep, FlushStep, KeepsBuffers
  <2>2. QED
    BY <1>2, <2>1 DEF MemShaped
<1>4. CASE eng.state = "CAPTURE"
  <2> DEFINE new == [p \in DOMAIN mem.c |->
                      IF p[1] - eng.m0 \in 0 .. Engine!TmLen - 1 /\ p[2] - eng.n0 \in 0 .. Engine!TnLen - 1
                        THEN arr.acc[<<p[1] - eng.m0, p[2] - eng.n0>>] ELSE mem.c[p]]
             n == mem'
  <2>1. n = [mem EXCEPT !.c = new]
    BY <1>1, <1>4, Zenon DEF EngineStep, CaptureStep
  <2>2. n.a = mem.a /\ n.b = mem.b
    <3> HIDE DEF new, n
    <3>1. QED
      BY <2>1
  <2>3. ASSUME MemShaped
        PROVE  /\ n = [a |-> n.a, b |-> n.b, c |-> n.c]
               /\ n.c = [p \in (0 .. MaxM - 1) \X (0 .. MaxN - 1) |-> n.c[p]]
    <3>1. new = [p \in DOMAIN mem.c |-> new[p]]
      <4> DEFINE e(p) ==
             IF p[1] - eng.m0 \in 0 .. Engine!TmLen - 1 /\ p[2] - eng.n0 \in 0 .. Engine!TnLen - 1
               THEN arr.acc[<<p[1] - eng.m0, p[2] - eng.n0>>] ELSE mem.c[p]
      <4>1. new = [p \in DOMAIN mem.c |-> e(p)]
        OBVIOUS
      <4> HIDE DEF e, new
      <4>2. QED
        BY <4>1
    <3>2. DOMAIN mem.c = Grid(MaxM, MaxN)
      <4> DEFINE f == [p \in Grid(MaxM, MaxN) |-> mem.c[p]]
      <4>1. DOMAIN f = Grid(MaxM, MaxN) /\ mem.c = f
        BY <2>3 DEF MemShaped, Grid
      <4> HIDE DEF f
      <4>2. QED
        BY <4>1
    <3> HIDE DEF new, n
    <3>3. n = [a |-> n.a, b |-> n.b, c |-> n.c] /\ n.c = new
      BY <2>1, <2>3 DEF MemShaped
    <3>4. QED
      BY <3>1, <3>2, <3>3 DEF Grid
  <2>4. MemShaped => MemShaped'
    <3> HIDE DEF new
    <3>1. QED
      BY <2>2, <2>3, Zenon DEF MemShaped
  <2>5. QED
    BY <1>2, <2>2, <2>4
<1>5. QED
  BY <1>3, <1>4

LEMMA BufferedStep ==
  ASSUME RegsOK, Walk, MoversOK, Operands, JobFits, Buffered, NEW w, Cycle(w)
  PROVE  Buffered'
<1>1. EngineStep /\ eng' \in EngineRegs
  BY EngineSteps DEF RegsOK, EngineStep
<1>2. MemShaped
  BY DEF Buffered
<1>3. CASE eng.state = "IDLE"
  <2>1. mem' = mem /\ (eng'.state = "IDLE" \/ (eng'.state = "LOAD" /\ eng'.a = 0 /\ eng'.b = 0 /\ startQ.q))
    BY <1>1, <1>3 DEF EngineStep, IdleStep, Starts
  <2>2. MemShaped'
    BY <1>2, <2>1 DEF MemShaped
  <2>3. CASE eng'.state = "IDLE"
    BY <2>2, <2>3 DEF Buffered
  <2>4. CASE eng'.state # "IDLE"
    <3>1. ~JobStart(w)
      BY <2>1, <2>4, StartLegal DEF ComputeBusy
    <3>2. job.given /\ D' = D
      BY <2>1, <2>4, <3>1, SameJobOn DEF D, Walk, StartKnown
    <3>3. D["M"] \in Nat \ {0} /\ D["N"] \in Nat \ {0} /\ D["K"] \in Nat \ {0}
      BY <3>2, LegalTyped DEF Walk, JobKnown
    <3>4. \A x, y \in Nat \ {0} : \A r \in 0 .. x - 1, k \in 0 .. y - 1 : ~((r * y + k) \div 4 < 0)
      <4>1. SUFFICES ASSUME NEW x \in Nat \ {0}, NEW y \in Nat \ {0}, NEW r \in 0 .. x - 1, NEW k \in 0 .. y - 1
                     PROVE  ~((r * y + k) \div 4 < 0)
        OBVIOUS
      <4>2. r * y \in Nat
        BY SMT
      <4>3. r * y + k \in Nat
        BY <4>2
      <4> DEFINE z == r * y + k
      <4> HIDE DEF z
      <4>4. z \div 4 \in Nat
        BY <4>3, Division DEF z
      <4>5. QED
        BY <4>4 DEF z
    <3>5. HoldsA(eng.a)' /\ HoldsB(eng.b)'
      <4> DEFINE zero == 0
                 d == D'
      <4>1. eng'.a = zero /\ eng'.b = zero /\ d = D
        BY <2>1, <2>4, <3>2
      <4>2. /\ \A r \in 0 .. D["M"] - 1, k \in 0 .. D["K"] - 1 : ~((r * D["K"] + k) \div 4 < zero)
            /\ \A k \in 0 .. D["K"] - 1, c \in 0 .. D["N"] - 1 : ~((k * D["N"] + c) \div 4 < zero)
        BY <3>3, <3>4, Zenon
      <4> HIDE DEF zero, d
      <4>3. /\ \A r \in 0 .. d["M"] - 1, k \in 0 .. d["K"] - 1 : ~((r * d["K"] + k) \div 4 < eng'.a)
            /\ \A k \in 0 .. d["K"] - 1, c \in 0 .. d["N"] - 1 : ~((k * d["N"] + c) \div 4 < eng'.b)
        BY <4>1, <4>2
      <4>4. QED
        BY <4>3, Zenon DEF HoldsA, HoldsB, Stored, d
    <3>6. QED
      BY <2>1, <2>2, <2>4, <3>5 DEF Buffered
  <2>5. QED
    BY <2>3, <2>4
<1>4. CASE eng.state # "IDLE"
  <2>1. ~JobStart(w) /\ job.given /\ cfg = EngineDims
    BY <1>4, WalkBusy
  <2>2. /\ D' = D /\ WordsA' = WordsA /\ WordsB' = WordsB
        /\ \A base, i : SignedByte(base, i)' = SignedByte(base, i)
    BY <2>1, SameJobOn, OwedSame
  <2>3. CASE eng.state = "LOAD"
    <3>1. /\ MemShaped' /\ eng'.a \in Nat /\ eng'.b \in Nat
          /\ Stored(mem'.a, D["A_BASE"], D["M"], D["K"], eng'.a)
          /\ Stored(mem'.b, D["B_BASE"], D["K"], D["N"], eng'.b)
      BY <2>3, BuffersLoad
    <3>2. HoldsA(eng.a)' /\ HoldsB(eng.b)'
      BY <2>2, <3>1, Zenon DEF HoldsA, HoldsB, Stored
    <3>3. CASE eng'.state = "LOAD"
      BY <3>1, <3>2, <3>3 DEF Buffered
    <3>4. CASE eng'.state # "LOAD"
      <4>1. LoadEnds /\ Engine!AWords = WordsA /\ Engine!BWords = WordsB
        BY <1>1, <2>1, <2>3, <3>4 DEF EngineStep, LoadStep, EngineDims, Engine!AWords, Engine!BWords,
           Engine!TotalWords, WordsA, WordsB
      <4>2. eng'.a >= WordsA /\ eng'.b >= WordsB
        BY <4>1, Zenon DEF LoadEnds, Engine!LoadEnds
      <4>3. WordsA \in Nat /\ WordsB \in Nat
        BY <2>1, JobWords DEF Walk
      <4>4. \A x \in Nat : x \div 4 \in Nat
        <5>1. 4 \in Nat \ {0}
          OBVIOUS
        <5>2. QED
          BY <5>1, Division, Zenon
      <4>5. \A n \in Nat, x \in Nat, words \in Nat : x >= words => (n \div 4 < words => n \div 4 < x)
        BY <4>4
      <4>6. \A x \in Nat, y \in Nat : \A r \in 0 .. x - 1, k \in 0 .. y - 1 : r * y + k \in Nat
        <5>1. \A r \in Nat, y \in Nat : r * y \in Nat
          BY SMT
        <5>2. SUFFICES ASSUME NEW x \in Nat, NEW y \in Nat, NEW r \in 0 .. x - 1, NEW k \in 0 .. y - 1
                       PROVE  r * y + k \in Nat
          OBVIOUS
        <5>3. r * y \in Nat
          BY <5>1
        <5>4. QED
          BY <5>3
      <4>7. D["M"] \in Nat /\ D["N"] \in Nat /\ D["K"] \in Nat
        BY <2>1, LegalTyped DEF Walk, JobKnown
      <4>8. /\ Stored(mem'.a, D["A_BASE"], D["M"], D["K"], WordsA)
            /\ Stored(mem'.b, D["B_BASE"], D["K"], D["N"], WordsB)
        BY <3>1, <4>2, <4>3, <4>5, <4>6, <4>7, Zenon DEF Stored
      <4>9. HoldsA(WordsA)' /\ HoldsB(WordsB)'
        BY <2>2, <4>8, Zenon DEF HoldsA, HoldsB, Stored
      <4>10. QED
        BY <3>1, <3>4, <4>9 DEF Buffered
    <3>5. QED
      BY <3>3, <3>4
  <2>4. CASE eng.state # "LOAD"
    <3>1. /\ mem'.a = mem.a /\ mem'.b = mem.b /\ eng'.state # "LOAD" /\ MemShaped'
      BY <1>2, <1>4, <2>4, BuffersStand
    <3>2. HoldsA(WordsA) /\ HoldsB(WordsB)
      BY <1>4, <2>4 DEF Buffered
    <3>3. HoldsA(WordsA)' /\ HoldsB(WordsB)'
      BY <2>2, <3>1, <3>2, Zenon DEF HoldsA, HoldsB, Stored
    <3>4. QED
      BY <3>1, <3>3 DEF Buffered
  <2>5. QED
    BY <2>3, <2>4
<1>5. QED
  BY <1>3, <1>4

(* Once loading is over every element of an operand is in its buffer.       *)
LEMMA AllStored ==
  ASSUME RegsOK, Walk, Buffered, eng.state \notin {"IDLE", "LOAD"}
  PROVE  /\ \A r \in 0 .. D["M"] - 1, k \in 0 .. D["K"] - 1 :
              mem.a[<<r, k>>] = SignedByte(D["A_BASE"], r * D["K"] + k)
         /\ \A k \in 0 .. D["K"] - 1, c \in 0 .. D["N"] - 1 :
              mem.b[<<k, c>>] = SignedByte(D["B_BASE"], k * D["N"] + c)
<1>1. HoldsA(WordsA) /\ HoldsB(WordsB) /\ job.given /\ JobKnown
  BY DEF Buffered, Walk, EngineKnown
<1>2. D["M"] \in Nat \ {0} /\ D["N"] \in Nat \ {0} /\ D["K"] \in Nat \ {0}
  BY <1>1, LegalTyped DEF JobKnown
<1>3. ASSUME NEW x \in Nat \ {0}, NEW y \in Nat \ {0}, NEW r \in 0 .. x - 1, NEW k \in 0 .. y - 1
      PROVE  (r * y + k) \div 4 < (x * y + 3) \div 4
  <2> DEFINE n == r * y + k
             all == x * y
             q == n \div 4
  <2>1. all \in Nat /\ n \in 0 .. all - 1
    <3>1. x * y \in Nat
      BY SMT
    <3>2. QED
      BY <3>1, CellInRange
  <2> HIDE DEF n, all
  <2>2. n \div 4 < (all + 3) \div 4
    BY <2>1
  <2>3. QED
    BY <2>2 DEF n, all
<1>4. QED
  BY <1>1, <1>2, <1>3, Zenon DEF HoldsA, HoldsB, Stored, WordsA, WordsB

-----------------------------------------------------------------------------
(* The terms of an element.                                                 *)
LEMMA SumStep ==
  ASSUME NEW t, NEW n \in Nat
  PROVE  /\ Sum(t, 0) = 0
         /\ Sum(t, n + 1) = Sum(t, n) + t[n]
         /\ (\A i \in 0 .. n - 1 : t[i] \in Int) => Sum(t, n) \in Int
<1>1. \A m \in Nat : Sum(t, m) = PartialSums(t, m)[m]
  BY DEF Sum, PartialSums, IsPartialSums
<1>2. QED
  BY <1>1, PartialSumsStep, PartialSumsType

LEMMA BytesTyped ==
  ASSUME CellsHold, NEW base, NEW first \in Int, first = Cell(base), first >= 0,
         NEW bytes \in Nat, first + (bytes + 3) \div 4 <= Depth, NEW i \in 0 .. bytes - 1
  PROVE  SignedByte(base, i) \in Int
<1> DEFINE x == first + i \div 4
           lane == i % 4
<1>1. x \in 0 .. Depth - 1 /\ lane \in 0 .. 3
  BY Constants
<1> HIDE DEF x, lane
<1>2. job.ram[x] \in Word
  BY <1>1 DEF CellsHold, Cells
<1>3. job.ram[x][lane] \in 0 .. 255
  BY <1>1, <1>2 DEF Word
<1>4. job.ram[Cell(base) + i \div 4][i % 4] \in 0 .. 255
  BY <1>3, Zenon DEF x, lane
<1>5. QED
  BY <1>4 DEF SignedByte

LEMMA TermsTyped ==
  ASSUME RegsOK, JobKnown, job.given, JobFits, CellsHold
  PROVE  /\ \A r \in 0 .. D["M"] - 1, k \in 0 .. D["K"] - 1 :
              SignedByte(D["A_BASE"], r * D["K"] + k) \in Int
         /\ \A k \in 0 .. D["K"] - 1, c \in 0 .. D["N"] - 1 :
              SignedByte(D["B_BASE"], k * D["N"] + c) \in Int
<1>1. D["M"] \in Nat \ {0} /\ D["N"] \in Nat \ {0} /\ D["K"] \in Nat \ {0}
  BY LegalTyped DEF JobKnown
<1> DEFINE bytesA == D["M"] * D["K"]
           bytesB == D["K"] * D["N"]
<1>2. /\ FirstA \in Int /\ FirstA >= 0 /\ FirstA + WordsA <= Depth
      /\ FirstB \in Int /\ FirstB >= 0 /\ FirstB + WordsB <= Depth
  BY JobWords DEF FirstA, FirstB
<1>3. \A x, y \in Nat \ {0} : x * y \in Nat
  BY SMT
<1>4. bytesA \in Nat /\ bytesB \in Nat
  BY <1>1, <1>3
<1>5. /\ \A r \in 0 .. D["M"] - 1, k \in 0 .. D["K"] - 1 : r * D["K"] + k \in 0 .. bytesA - 1
      /\ \A k \in 0 .. D["K"] - 1, c \in 0 .. D["N"] - 1 : k * D["N"] + c \in 0 .. bytesB - 1
  BY <1>1, CellInRange
<1>6. /\ FirstA + (bytesA + 3) \div 4 <= Depth /\ FirstA = Cell(D["A_BASE"])
      /\ FirstB + (bytesB + 3) \div 4 <= Depth /\ FirstB = Cell(D["B_BASE"])
  BY <1>2, Zenon DEF WordsA, WordsB, FirstA, FirstB
<1> HIDE DEF bytesA, bytesB
<1>7. \A i \in 0 .. bytesA - 1 : SignedByte(D["A_BASE"], i) \in Int
  BY <1>2, <1>4, <1>6, BytesTyped
<1>8. \A i \in 0 .. bytesB - 1 : SignedByte(D["B_BASE"], i) \in Int
  BY <1>2, <1>4, <1>6, BytesTyped
<1>9. QED
  BY <1>5, <1>7, <1>8, Zenon

LEMMA ElementTerms ==
  ASSUME RegsOK, JobKnown, job.given, JobFits, CellsHold,
         NEW r \in 0 .. D["M"] - 1, NEW c \in 0 .. D["N"] - 1
  PROVE  /\ \A k \in 0 .. D["K"] - 1 :
              Products(r, c)[k]
                = SignedByte(D["A_BASE"], r * D["K"] + k) * SignedByte(D["B_BASE"], k * D["N"] + c)
         /\ \A n \in 0 .. D["K"] : Sum(Products(r, c), n) \in Int
         /\ Element(r, c) \in Int
<1>1. D["K"] \in Nat \ {0}
  BY LegalTyped DEF JobKnown
<1>2. \A k \in 0 .. D["K"] - 1 :
        Products(r, c)[k]
          = SignedByte(D["A_BASE"], r * D["K"] + k) * SignedByte(D["B_BASE"], k * D["N"] + c)
  BY DEF Products
<1>3. \A x, y \in Int : x * y \in Int
  OBVIOUS
<1>4. ASSUME NEW k \in 0 .. D["K"] - 1
      PROVE  Products(r, c)[k] \in Int
  <2>1. /\ SignedByte(D["A_BASE"], r * D["K"] + k) \in Int
        /\ SignedByte(D["B_BASE"], k * D["N"] + c) \in Int
    BY TermsTyped
  <2>2. QED
    BY <1>2, <1>3, <2>1, Zenon
<1>5. ASSUME NEW n \in 0 .. D["K"]
      PROVE  Sum(Products(r, c), n) \in Int
  <2>1. n \in Nat /\ \A i \in 0 .. n - 1 : i \in 0 .. D["K"] - 1
    BY <1>1
  <2>2. QED
    BY <1>4, <2>1, SumStep
<1>6. Element(r, c) \in Int
  BY <1>1, <1>5 DEF Element
<1>7. QED
  BY <1>2, <1>5, <1>6

-----------------------------------------------------------------------------
(* The array.  The place of the tile, which the array does not see.         *)
TileIn ==
  /\ eng.m0 \in Nat /\ Engine!TmLen \in Nat /\ eng.m0 + Engine!TmLen <= D["M"] /\ Engine!TmLen >= 1
  /\ eng.n0 \in Nat /\ Engine!TnLen \in Nat /\ eng.n0 + Engine!TnLen <= D["N"] /\ Engine!TnLen >= 1

LEMMA WalkingTile ==
  ASSUME RegsOK, Walk, Walking
  PROVE  TileIn
<1>1. job.given /\ JobLegal /\ cfg = EngineDims /\ \E i \in Nat, j \in Nat : AtTile(i, j)
  BY DEF Walk, EngineKnown, JobKnown, TilesWalked, Walking
<1>2. PICK i \in Nat, j \in Nat : AtTile(i, j)
  BY <1>1
<1>3. /\ i * D["TILE_M"] \in Nat /\ j * D["TILE_N"] \in Nat
      /\ Engine!TmLen \in 1 .. D["TILE_M"] /\ eng.m0 + Engine!TmLen <= D["M"]
      /\ Engine!TnLen \in 1 .. D["TILE_N"] /\ eng.n0 + Engine!TnLen <= D["N"]
  BY <1>1, <1>2, AtTileFacts
<1>4. D["TILE_M"] \in Nat /\ D["TILE_N"] \in Nat
  BY <1>1, LegalTyped
<1>5. QED
  BY <1>2, <1>3, <1>4 DEF TileIn, AtTile

(* One more product meets in a PE, while there are some.                    *)
LEMMA MetOn ==
  ASSUME RegsOK, JobKnown, job.given, JobFits, CellsHold, TileIn, NEW t \in Nat,
         NEW r \in Nat, NEW c \in Nat, r < Engine!TmLen, c < Engine!TnLen
  PROVE  Sum(Products(eng.m0 + r, eng.n0 + c), Met(t + 1, r + c))
           = Sum(Products(eng.m0 + r, eng.n0 + c), Met(t, r + c))
               + West(r, t - 1 - (r + c)) * North(c, t - 1 - (r + c))
<1> DEFINE row == eng.m0 + r
           col == eng.n0 + c
           k == t - 1 - (r + c)
           f == Products(row, col)
           K == D["K"]
<1>1. /\ K \in Nat /\ D["M"] \in Nat /\ D["N"] \in Nat
  BY LegalTyped DEF JobKnown
<1>2. row \in 0 .. D["M"] - 1 /\ col \in 0 .. D["N"] - 1 /\ k \in Int
  BY <1>1 DEF TileIn
<1> HIDE DEF row, col
<1>3. /\ \A j \in 0 .. K - 1 :
           f[j] = SignedByte(D["A_BASE"], row * K + j) * SignedByte(D["B_BASE"], j * D["N"] + col)
      /\ \A n \in 0 .. K : Sum(f, n) \in Int
  BY <1>2, ElementTerms
<1> HIDE DEF f
<1>4. CASE k \in 0 .. K - 1
  <2>1. Met(t, r + c) = k /\ Met(t + 1, r + c) = k + 1
    BY <1>1, <1>4 DEF Met
  <2>2. /\ West(r, k) = SignedByte(D["A_BASE"], row * K + k)
        /\ North(c, k) = SignedByte(D["B_BASE"], k * D["N"] + col)
    BY <1>4, Zenon DEF West, North, row, col
  <2>3. k \in Nat
    BY <1>4
  <2> HIDE DEF k, K
  <2>4. Sum(f, k + 1) = Sum(f, k) + f[k]
    BY <2>3, SumStep
  <2>5. f[k] = West(r, k) * North(c, k)
    BY <1>3, <1>4, <2>2, Zenon
  <2>6. Sum(f, Met(t + 1, r + c)) = Sum(f, Met(t, r + c)) + West(r, k) * North(c, k)
    BY <2>1, <2>4, <2>5, Zenon
  <2>7. QED
    BY <2>6 DEF f, row, col, k
<1>5. CASE k \notin 0 .. K - 1
  <2>1. Met(t, r + c) = Met(t + 1, r + c) /\ Met(t, r + c) \in 0 .. K
    BY <1>1, <1>2, <1>5 DEF Met
  <2>2. West(r, k) = 0 /\ North(c, k) = 0
    BY <1>5 DEF West, North
  <2> HIDE DEF k, K
  <2>3. Sum(f, Met(t, r + c)) \in Int
    BY <1>3, <2>1
  <2>4. Sum(f, Met(t + 1, r + c)) = Sum(f, Met(t, r + c)) + West(r, k) * North(c, k)
    BY <2>1, <2>2, <2>3
  <2>5. QED
    BY <2>4 DEF f, row, col, k
<1>6. QED
  BY <1>4, <1>5

LEMMA ArrayNext ==
  ASSUME NEW w, Cycle(w)
  PROVE  /\ eng.state \in {"FEED", "DRAIN"} =>
              /\ \A i \in 0 .. ArrayN - 1 : \A j \in 0 .. i + ArrayN - 1 :
                   /\ arr'.west[i][j] = IF j = 0 THEN Engine!WestIn[i] ELSE arr.west[i][j - 1]
                   /\ arr'.north[i][j] = IF j = 0 THEN Engine!NorthIn[i] ELSE arr.north[i][j - 1]
              /\ \A r \in 0 .. ArrayN - 1, c \in 0 .. ArrayN - 1 :
                   arr'.acc[<<r, c>>]
                     = arr.acc[<<r, c>>] + arr.west[r][r + c] * arr.north[c][c + r]
         /\ eng.state \in {"CLEAR", "CAPTURE"} =>
              /\ \A i \in 0 .. ArrayN - 1 : \A j \in 0 .. i + ArrayN - 1 :
                   arr'.west[i][j] = 0 /\ arr'.north[i][j] = 0
              /\ \A r \in 0 .. ArrayN - 1, c \in 0 .. ArrayN - 1 : arr'.acc[<<r, c>>] = 0
<1> DEFINE a == arr'
<1>1. a = [west  |-> Engine!LinesNext(arr.west, Engine!WestIn, Engine!ArrEn, Engine!ArrClear),
           north |-> Engine!LinesNext(arr.north, Engine!NorthIn, Engine!ArrEn, Engine!ArrClear),
           acc   |-> Engine!AccNext(Engine!ArrEn, Engine!ArrClear)]
  BY DEF Cycle, TopClock, Engine!EngineClock, Engine!Array, Engine!ArrayClock
<1> HIDE DEF a
<1>2. /\ a.west = Engine!LinesNext(arr.west, Engine!WestIn, Engine!ArrEn, Engine!ArrClear)
      /\ a.north = Engine!LinesNext(arr.north, Engine!NorthIn, Engine!ArrEn, Engine!ArrClear)
      /\ a.acc = Engine!AccNext(Engine!ArrEn, Engine!ArrClear)
  BY <1>1
<1>3. CASE eng.state \in {"FEED", "DRAIN"}
  <2>1. Engine!ArrEn /\ ~Engine!ArrClear
    BY <1>3 DEF Engine!ArrEn, Engine!ArrClear
  <2>2. /\ a.west = Engine!Shifted(arr.west, Engine!WestIn)
        /\ a.north = Engine!Shifted(arr.north, Engine!NorthIn)
        /\ a.acc = [p \in Engine!Lanes \X Engine!Lanes |->
                     arr.acc[p] + Engine!ActReg(p[1], p[2]) * Engine!WtReg(p[1], p[2])]
    BY <1>2, <2>1, Zenon DEF Engine!LinesNext, Engine!AccNext
  <2>3. \A i \in 0 .. ArrayN - 1 : \A j \in 0 .. i + ArrayN - 1 :
          /\ a.west[i][j] = IF j = 0 THEN Engine!WestIn[i] ELSE arr.west[i][j - 1]
          /\ a.north[i][j] = IF j = 0 THEN Engine!NorthIn[i] ELSE arr.north[i][j - 1]
    BY <2>2 DEF Engine!Shifted, Engine!Lanes, Engine!LineOf
  <2>4. ASSUME NEW r \in 0 .. ArrayN - 1, NEW c \in 0 .. ArrayN - 1
        PROVE  a.acc[<<r, c>>] = arr.acc[<<r, c>>] + arr.west[r][r + c] * arr.north[c][c + r]
    <3> DEFINE e(p) == arr.acc[p] + Engine!ActReg(p[1], p[2]) * Engine!WtReg(p[1], p[2])
    <3>1. <<r, c>> \in Engine!Lanes \X Engine!Lanes
      BY DEF Engine!Lanes
    <3>2. a.acc[<<r, c>>] = e(<<r, c>>)
      <4>1. a.acc = [p \in Engine!Lanes \X Engine!Lanes |-> e(p)]
        BY <2>2
      <4> HIDE DEF e
      <4>2. QED
        BY <3>1, <4>1
    <3>3. QED
      BY <3>2 DEF Engine!ActReg, Engine!WtReg
  <2>5. QED
    BY <1>3, <2>3, <2>4 DEF a
<1>4. CASE eng.state \in {"CLEAR", "CAPTURE"}
  <2>1. Engine!ArrClear
    BY <1>4 DEF Engine!ArrClear
  <2>2. a.west = Engine!ZeroLines /\ a.north = Engine!ZeroLines /\ a.acc = Engine!ZeroAcc
    BY <1>2, <2>1, Zenon DEF Engine!LinesNext, Engine!AccNext
  <2>3. /\ \A i \in 0 .. ArrayN - 1 : \A j \in 0 .. i + ArrayN - 1 :
             a.west[i][j] = 0 /\ a.north[i][j] = 0
        /\ \A r \in 0 .. ArrayN - 1, c \in 0 .. ArrayN - 1 : a.acc[<<r, c>>] = 0
    BY <2>2 DEF Engine!ZeroLines, Engine!ZeroAcc, Engine!Lanes, Engine!LineOf
  <2>4. QED
    BY <1>4, <2>3 DEF a
<1>5. QED
  BY <1>3, <1>4

(* What the edges are fed is what West and North say.                       *)
LEMMA EdgesFed ==
  ASSUME RegsOK, Walk, Buffered, TileIn, NEW t \in Nat,
         \/ eng.state = "FEED" /\ eng.feedK = t /\ t \in 0 .. D["K"] - 1
         \/ eng.state = "DRAIN" /\ t >= D["K"],
         NEW i \in 0 .. ArrayN - 1
  PROVE  Engine!WestIn[i] = West(i, t) /\ Engine!NorthIn[i] = North(i, t)
<1>1. job.given /\ JobLegal /\ cfg = EngineDims
  BY DEF Walk, EngineKnown, JobKnown
<1>2. D["K"] \in Nat /\ D["M"] \in Nat /\ D["N"] \in Nat
  BY <1>1, LegalTyped
<1>3. /\ \A r \in 0 .. D["M"] - 1, k \in 0 .. D["K"] - 1 :
              mem.a[<<r, k>>] = SignedByte(D["A_BASE"], r * D["K"] + k)
      /\ \A k \in 0 .. D["K"] - 1, c \in 0 .. D["N"] - 1 :
              mem.b[<<k, c>>] = SignedByte(D["B_BASE"], k * D["N"] + c)
  BY AllStored
<1>4. /\ Engine!WestIn[i] = IF eng.state = "FEED" /\ i < Engine!TmLen
                              THEN mem.a[<<eng.m0 + i, eng.feedK>>] ELSE 0
      /\ Engine!NorthIn[i] = IF eng.state = "FEED" /\ i < Engine!TnLen
                               THEN mem.b[<<eng.feedK, eng.n0 + i>>] ELSE 0
  BY DEF Engine!WestIn, Engine!NorthIn, Engine!Lanes
<1>5. CASE eng.state = "DRAIN"
  <2>1. t \notin 0 .. D["K"] - 1
    BY <1>2, <1>5
  <2>2. QED
    BY <1>4, <1>5, <2>1 DEF West, North
<1>6. CASE eng.state = "FEED"
  <2>1. eng.feedK = t /\ t \in 0 .. D["K"] - 1
    BY <1>6
  <2>2. i < Engine!TmLen => eng.m0 + i \in 0 .. D["M"] - 1
    BY <1>2 DEF TileIn
  <2>3. i < Engine!TnLen => eng.n0 + i \in 0 .. D["N"] - 1
    BY <1>2 DEF TileIn
  <2>4. /\ Engine!WestIn[i] = IF i < Engine!TmLen THEN mem.a[<<eng.m0 + i, t>>] ELSE 0
        /\ Engine!NorthIn[i] = IF i < Engine!TnLen THEN mem.b[<<t, eng.n0 + i>>] ELSE 0
    BY <1>4, <1>6, <2>1
  <2>5. /\ i < Engine!TmLen =>
             mem.a[<<eng.m0 + i, t>>] = SignedByte(D["A_BASE"], (eng.m0 + i) * D["K"] + t)
        /\ i < Engine!TnLen =>
             mem.b[<<t, eng.n0 + i>>] = SignedByte(D["B_BASE"], t * D["N"] + (eng.n0 + i))
    BY <1>3, <2>1, <2>2, <2>3, Zenon
  <2>6. QED
    BY <2>1, <2>4, <2>5, Zenon DEF West, North
<1>7. QED
  BY <1>5, <1>6

(* A clock that feeds or drains takes the array one clock on.               *)
LEMMA ArrayOn ==
  ASSUME RegsOK, Walk, Buffered, CellsHold, JobFits, NEW w, Cycle(w), NEW t \in Nat,
         \/ eng.state = "FEED" /\ eng.feedK = t /\ t \in 0 .. D["K"] - 1
         \/ eng.state = "DRAIN" /\ t >= D["K"],
         ArrayHolds(arr, t)
  PROVE  ArrayHolds(arr', t + 1)
<1>1. job.given /\ JobKnown /\ TileIn /\ ArrayN \in Nat \ {0}
  BY WalkingTile, Constants DEF Walk, EngineKnown, Walking
<1>2. /\ \A i \in 0 .. ArrayN - 1 : \A j \in 0 .. i + ArrayN - 1 :
           /\ arr'.west[i][j] = IF j = 0 THEN Engine!WestIn[i] ELSE arr.west[i][j - 1]
           /\ arr'.north[i][j] = IF j = 0 THEN Engine!NorthIn[i] ELSE arr.north[i][j - 1]
      /\ \A r \in 0 .. ArrayN - 1, c \in 0 .. ArrayN - 1 :
           arr'.acc[<<r, c>>] = arr.acc[<<r, c>>] + arr.west[r][r + c] * arr.north[c][c + r]
  BY ArrayNext
<1> DEFINE a == arr'
<1>3. LinesHold(a, t + 1)
  <2>1. SUFFICES ASSUME NEW i \in 0 .. ArrayN - 1, NEW j \in 0 .. i + ArrayN - 1
                 PROVE  /\ a.west[i][j] = West(i, t + 1 - 1 - j)
                        /\ a.north[i][j] = North(i, t + 1 - 1 - j)
    BY DEF LinesHold
  <2>2. CASE j = 0
    <3>1. a.west[i][j] = West(i, t) /\ a.north[i][j] = North(i, t)
      BY <1>1, <1>2, <2>2, EdgesFed
    <3>2. t + 1 - 1 - j = t
      BY <2>2
    <3>3. QED
      BY <3>1, <3>2
  <2>3. CASE j # 0
    <3>1. j - 1 \in 0 .. i + ArrayN - 1 /\ t + 1 - 1 - j = t - 1 - (j - 1)
      BY <1>1, <2>3
    <3>2. arr.west[i][j - 1] = West(i, t - 1 - (j - 1)) /\ arr.north[i][j - 1] = North(i, t - 1 - (j - 1))
      BY <3>1 DEF ArrayHolds, LinesHold
    <3>3. QED
      BY <1>2, <2>3, <3>1, <3>2
  <2>4. QED
    BY <2>2, <2>3
<1>4. SumsHold(a, t + 1)
  <2>1. SUFFICES ASSUME NEW r \in 0 .. ArrayN - 1, NEW c \in 0 .. ArrayN - 1,
                        r < Engine!TmLen, c < Engine!TnLen
                 PROVE  a.acc[<<r, c>>] = Sum(Products(eng.m0 + r, eng.n0 + c), Met(t + 1, r + c))
    BY DEF SumsHold
  <2>2. arr.acc[<<r, c>>] = Sum(Products(eng.m0 + r, eng.n0 + c), Met(t, r + c))
    BY <2>1 DEF ArrayHolds, SumsHold
  <2>3. r + c \in 0 .. r + ArrayN - 1 /\ c + r \in 0 .. c + ArrayN - 1 /\ c + r = r + c
    BY <1>1
  <2>4. arr.west[r][r + c] = West(r, t - 1 - (r + c)) /\ arr.north[c][c + r] = North(c, t - 1 - (r + c))
    BY <2>3 DEF ArrayHolds, LinesHold
  <2>5. r \in Nat /\ c \in Nat
    OBVIOUS
  <2>6. Sum(Products(eng.m0 + r, eng.n0 + c), Met(t + 1, r + c))
          = Sum(Products(eng.m0 + r, eng.n0 + c), Met(t, r + c))
              + West(r, t - 1 - (r + c)) * North(c, t - 1 - (r + c))
    BY <1>1, <2>1, <2>5, MetOn
  <2>7. a.acc[<<r, c>>] = arr.acc[<<r, c>>] + arr.west[r][r + c] * arr.north[c][c + r]
    BY <1>2
  <2>8. QED
    BY <2>2, <2>4, <2>6, <2>7, Zenon
<1>5. QED
  BY <1>3, <1>4 DEF ArrayHolds

(* What the edges are fed, and what has met, does not change under way.     *)
LEMMA EdgesSame ==
  ASSUME job'.cfg = job.cfg, job'.ram = job.ram, job'.bias = job.bias, cfg' = cfg, KeepsTile
  PROVE  /\ \A i, s : West(i, s)' = West(i, s) /\ North(i, s)' = North(i, s)
         /\ \A t, d : Met(t, d)' = Met(t, d)
         /\ Engine!TmLen' = Engine!TmLen /\ Engine!TnLen' = Engine!TnLen
<1>1. /\ D' = D
      /\ \A base, i : SignedByte(base, i)' = SignedByte(base, i)
  BY OwedSame
<1>2. Engine!TmLen' = Engine!TmLen /\ Engine!TnLen' = Engine!TnLen
  BY DEF KeepsTile, Engine!TmLen, Engine!TnLen, Engine!Least
<1>3. \A t, d : Met(t, d)' = Met(t, d)
  BY <1>1, Zenon DEF Met
<1>4. \A i, s : West(i, s)' = West(i, s) /\ North(i, s)' = North(i, s)
  BY <1>1, <1>2, Zenon DEF West, North, KeepsTile
<1>5. QED
  BY <1>2, <1>3, <1>4

LEMMA ArrayStays ==
  ASSUME job'.cfg = job.cfg, job'.ram = job.ram, job'.bias = job.bias, cfg' = cfg, KeepsTile
  PROVE  /\ ArrayHolds(arr', eng'.feedK) => ArrayHolds(arr, eng.feedK)'
         /\ ArrayHolds(arr', D["K"] + eng'.drain) => ArrayHolds(arr, D["K"] + eng.drain)'
         /\ ArrayHolds(arr', D["K"] + 2 * ArrayN - 1) => ArrayHolds(arr, D["K"] + 2 * ArrayN - 1)'
<1>1. /\ D' = D /\ eng'.m0 = eng.m0 /\ eng'.n0 = eng.n0
      /\ \A r, c : Products(r, c)' = Products(r, c)
      /\ \A i, s : West(i, s)' = West(i, s) /\ North(i, s)' = North(i, s)
      /\ \A t, d : Met(t, d)' = Met(t, d)
      /\ Engine!TmLen' = Engine!TmLen /\ Engine!TnLen' = Engine!TnLen
  BY OwedSame, EdgesSame, Zenon DEF KeepsTile
<1>2. QED
  BY <1>1, Zenon DEF ArrayHolds, LinesHold, SumsHold

(* Cleared, it is where a tile begins, whichever.                           *)
LEMMA ArrayCleared ==
  ASSUME RegsOK, JobKnown, job.given, D' = D, eng'.feedK = 0,
         \A i \in 0 .. ArrayN - 1 : \A j \in 0 .. i + ArrayN - 1 :
           arr'.west[i][j] = 0 /\ arr'.north[i][j] = 0,
         \A r \in 0 .. ArrayN - 1, c \in 0 .. ArrayN - 1 : arr'.acc[<<r, c>>] = 0
  PROVE  ArrayHolds(arr, eng.feedK)'
<1>1. ArrayN \in Nat \ {0} /\ D["K"] \in Nat
  BY Constants, LegalTyped DEF JobKnown
<1>2. \A i \in 0 .. ArrayN - 1 : \A j \in 0 .. i + ArrayN - 1 :
        West(i, eng.feedK - 1 - j)' = 0 /\ North(i, eng.feedK - 1 - j)' = 0
  <2>1. SUFFICES ASSUME NEW i \in 0 .. ArrayN - 1, NEW j \in 0 .. i + ArrayN - 1
                 PROVE  West(i, eng.feedK - 1 - j)' = 0 /\ North(i, eng.feedK - 1 - j)' = 0
    OBVIOUS
  <2>2. eng'.feedK - 1 - j \notin 0 .. D'["K"] - 1
    BY <1>1
  <2>3. QED
    BY <2>2, Zenon DEF West, North
<1>3. ASSUME NEW r \in 0 .. ArrayN - 1, NEW c \in 0 .. ArrayN - 1
      PROVE  arr'.acc[<<r, c>>] = Sum(Products(eng.m0 + r, eng.n0 + c), Met(eng.feedK, r + c))'
  <2>1. Met(eng.feedK, r + c)' = 0
    BY <1>1 DEF Met
  <2> DEFINE f == Products(eng.m0 + r, eng.n0 + c)'
  <2>2. Sum(f, 0) = 0 /\ arr'.acc[<<r, c>>] = 0
    BY SumStep
  <2>3. QED
    BY <2>1, <2>2, Zenon DEF Sum
<1>4. LinesHold(arr, eng.feedK)'
  <2>1. \A i \in 0 .. ArrayN - 1 : \A j \in 0 .. i + ArrayN - 1 :
          /\ arr'.west[i][j] = West(i, eng.feedK - 1 - j)'
          /\ arr'.north[i][j] = North(i, eng.feedK - 1 - j)'
    BY <1>2
  <2>2. QED
    BY <2>1, Zenon DEF LinesHold
<1>5. SumsHold(arr, eng.feedK)'
  BY <1>3, Zenon DEF SumsHold
<1>6. QED
  BY <1>4, <1>5, Zenon DEF ArrayHolds

LEMMA ComputingStep ==
  ASSUME RegsOK, Walk, Buffered, CellsHold, JobFits, Computing, NEW w, Cycle(w)
  PROVE  Computing'
<1>1. EngineStep /\ eng' \in EngineRegs /\ eng.state \in EngineStates /\ eng \in EngineRegs
      /\ ArrayN \in Nat \ {0}
  BY EngineSteps, Constants DEF RegsOK, EngineStep, EngineOK, EngineRegs
<1>2. CASE eng.state = "IDLE"
  <2>1. eng'.state \notin {"FEED", "DRAIN", "CAPTURE"}
    BY <1>1, <1>2 DEF EngineStep, IdleStep
  <2>2. QED
    BY <2>1 DEF Computing
<1>3. CASE eng.state = "LOAD"
  <2>1. eng'.state \notin {"FEED", "DRAIN", "CAPTURE"}
    BY <1>1, <1>3 DEF EngineStep, LoadStep
  <2>2. QED
    BY <2>1 DEF Computing
<1>4. CASE eng.state = "FLUSH_OUT"
  <2>1. eng'.state \notin {"FEED", "DRAIN", "CAPTURE"}
    BY <1>1, <1>4 DEF EngineStep, FlushStep
  <2>2. QED
    BY <2>1 DEF Computing
<1>5. CASE eng.state \notin {"IDLE", "LOAD", "FLUSH_OUT"}
  <2>1. ~JobStart(w) /\ job.given /\ JobLegal /\ JobKnown /\ cfg = EngineDims /\ cfg' = cfg /\ D' = D
    BY <1>5, WalkBusy DEF Walk
  <2>2. job'.cfg = job.cfg /\ job'.ram = job.ram /\ job'.bias = job.bias
    BY <2>1, SameJobOn
  <2>3. D["K"] \in Nat \ {0} /\ cfg.k = D["K"]
    BY <2>1, LegalTyped DEF EngineDims
  <2>4. /\ \A i \in 0 .. ArrayN - 1 : \A j \in 0 .. i + ArrayN - 1 :
             eng.state \in {"CLEAR", "CAPTURE"} => arr'.west[i][j] = 0 /\ arr'.north[i][j] = 0
        /\ \A r \in 0 .. ArrayN - 1, c \in 0 .. ArrayN - 1 :
             eng.state \in {"CLEAR", "CAPTURE"} => arr'.acc[<<r, c>>] = 0
    BY ArrayNext
  <2>5. CASE eng.state \in {"CLEAR", "CAPTURE"}
    <3>1. eng'.state \in {"FEED", "FLUSH_OUT"} /\ eng'.feedK = 0
      BY <1>1, <2>5 DEF EngineStep, ClearStep, CaptureStep
    <3>2. ArrayHolds(arr, eng.feedK)'
      BY <2>1, <2>4, <2>5, <3>1, ArrayCleared
    <3>3. eng'.feedK \in 0 .. D'["K"] - 1
      BY <2>1, <2>3, <3>1
    <3>4. QED
      BY <3>1, <3>2, <3>3 DEF Computing
  <2>6. CASE eng.state = "FEED"
    <3>1. /\ FeedStep /\ KeepsTile
          /\ eng.feedK \in 0 .. D["K"] - 1 /\ ArrayHolds(arr, eng.feedK)
      BY <1>1, <2>6 DEF EngineStep, FeedStep, Computing
    <3>2. ArrayHolds(arr', eng.feedK + 1)
      <4>1. eng.feedK \in Nat
        BY <3>1
      <4>2. QED
        BY <2>6, <3>1, <4>1, ArrayOn
    <3>3. CASE eng.feedK = cfg.k - 1
      <4>1. eng'.state = "DRAIN" /\ eng'.drain = 0
        BY <3>1, <3>3 DEF FeedStep
      <4>2. D["K"] + eng'.drain = eng.feedK + 1
        BY <2>3, <3>3, <4>1
      <4>3. ArrayHolds(arr, D["K"] + eng.drain)'
        BY <2>2, <2>1, <3>1, <3>2, <4>2, ArrayStays, Zenon
      <4>4. eng'.drain \in 0 .. 2 * ArrayN - 2
        BY <1>1, <4>1
      <4>5. QED
        BY <4>1, <4>3, <4>4 DEF Computing
    <3>4. CASE eng.feedK # cfg.k - 1
      <4>1. eng'.state = "FEED" /\ eng'.feedK = eng.feedK + 1
        BY <3>1, <3>4 DEF FeedStep
      <4>2. ArrayHolds(arr, eng.feedK)'
        BY <2>2, <2>1, <3>1, <3>2, <4>1, ArrayStays, Zenon
      <4>3. eng'.feedK \in 0 .. D'["K"] - 1
        BY <2>1, <2>3, <3>1, <3>4, <4>1
      <4>4. QED
        BY <4>1, <4>2, <4>3 DEF Computing
    <3>5. QED
      BY <3>3, <3>4
  <2>7. CASE eng.state = "DRAIN"
    <3>1. /\ DrainStep /\ KeepsTile
          /\ eng.drain \in 0 .. 2 * ArrayN - 2 /\ ArrayHolds(arr, D["K"] + eng.drain)
      BY <1>1, <2>7 DEF EngineStep, DrainStep, Computing
    <3>2. ArrayHolds(arr', D["K"] + eng.drain + 1)
      <4> DEFINE t == D["K"] + eng.drain
      <4>1. t \in Nat /\ t >= D["K"]
        BY <2>3, <3>1
      <4>2. ArrayHolds(arr, t)
        BY <3>1
      <4> HIDE DEF t
      <4>3. ArrayHolds(arr', t + 1)
        BY <2>7, <4>1, <4>2, ArrayOn
      <4>4. QED
        BY <4>3 DEF t
    <3>3. CASE eng.drain = Engine!DrainCycles - 1
      <4>1. eng'.state = "CAPTURE"
        BY <3>1, <3>3 DEF DrainStep
      <4>2. D["K"] + 2 * ArrayN - 1 = D["K"] + eng.drain + 1
        BY <1>1, <2>3, <3>3 DEF Engine!DrainCycles
      <4>3. ArrayHolds(arr, D["K"] + 2 * ArrayN - 1)'
        BY <2>2, <2>1, <3>1, <3>2, <4>2, ArrayStays, Zenon
      <4>4. QED
        BY <4>1, <4>3 DEF Computing
    <3>4. CASE eng.drain # Engine!DrainCycles - 1
      <4>1. eng'.state = "DRAIN" /\ eng'.drain = eng.drain + 1
        BY <3>1, <3>4 DEF DrainStep
      <4>2. D["K"] + eng'.drain = D["K"] + eng.drain + 1
        BY <2>3, <3>1, <4>1
      <4>3. ArrayHolds(arr, D["K"] + eng.drain)'
        BY <2>2, <2>1, <3>1, <3>2, <4>2, ArrayStays, Zenon
      <4>4. eng'.drain \in 0 .. 2 * ArrayN - 2
        BY <1>1, <3>1, <3>4, <4>1 DEF Engine!DrainCycles
      <4>5. QED
        BY <4>1, <4>3, <4>4 DEF Computing
    <3>5. QED
      BY <3>3, <3>4
  <2>8. QED
    BY <1>1, <1>5, <2>5, <2>6, <2>7 DEF EngineStates
<1>6. QED
  BY <1>2, <1>3, <1>4, <1>5

-----------------------------------------------------------------------------
(* The tiles that are in.                                                   *)
OutRegs == [row : Int, col : Int, count : Int, rowsReady : Int]
Accepts == Engine!CAccept(RawReady)

LEMMA Advances ==
  ASSUME OutShaped
  PROVE  /\ Engine!OutputSide(RawReady) \in OutRegs
         /\ Engine!OutputSide(RawReady).rowsReady = out.rowsReady
         /\ Accepts =>
              /\ Engine!OutputSide(RawReady).count = out.count + 1
              /\ Engine!OutputSide(RawReady).row = IF out.col + 1 >= cfg.n THEN out.row + 1 ELSE out.row
              /\ Engine!OutputSide(RawReady).col = IF out.col + 1 >= cfg.n THEN 0 ELSE out.col + 1
         /\ ~Accepts => Engine!OutputSide(RawReady) = out
<1> DEFINE row == IF out.col + 1 >= cfg.n THEN out.row + 1 ELSE out.row
           col == IF out.col + 1 >= cfg.n THEN 0 ELSE out.col + 1
           count == out.count + 1
           n == [out EXCEPT !.count = count, !.row = row, !.col = col]
<1>1. out \in OutRegs
  BY DEF OutShaped, OutRegs
<1>2. row \in Int /\ col \in Int /\ count \in Int
  BY <1>1 DEF OutRegs
<1>3. Engine!OutputSide(RawReady) = IF Accepts THEN n ELSE out
  BY <1>1 DEF Engine!OutputSide, Accepts, Engine!Advance, OutRegs
<1> HIDE DEF row, col, count
<1>4. n \in OutRegs /\ n.rowsReady = out.rowsReady /\ n.count = count /\ n.row = row /\ n.col = col
  BY <1>1, <1>2 DEF OutRegs
<1> HIDE DEF n
<1>5. QED
  BY <1>1, <1>3, <1>4 DEF row, col, count

(* The output side of a clock; nothing is accepted before the first tile.   *)
OutStep ==
  /\ out' \in OutRegs
  /\ eng.state = "IDLE" => out' = IF Starts THEN Engine!ResetOut ELSE out
  /\ eng.state = "LOAD" => out' = out
  /\ eng.state \in {"IDLE", "LOAD"} => ~Accepts
  /\ eng.state \notin {"IDLE", "LOAD"} =>
       out'.rowsReady = IF eng.state = "CAPTURE" /\ Engine!LastNBlock
                          THEN eng.m0 + Engine!TmLen ELSE out.rowsReady
  /\ Accepts =>
       /\ out'.count = out.count + 1
       /\ out'.row = IF out.col + 1 >= cfg.n THEN out.row + 1 ELSE out.row
       /\ out'.col = IF out.col + 1 >= cfg.n THEN 0 ELSE out.col + 1
  /\ ~Accepts /\ eng.state # "IDLE" =>
       out'.count = out.count /\ out'.row = out.row /\ out'.col = out.col

LEMMA OutSteps ==
  ASSUME RegsOK, OutShaped, NEW w, Cycle(w)
  PROVE  OutStep
<1>1. EngineStep /\ eng \in EngineRegs /\ cfg \in Dims
  BY EngineSteps DEF RegsOK, EngineOK
<1>2. out \in OutRegs /\ Engine!ResetOut \in OutRegs
  BY DEF OutShaped, OutRegs, Engine!ResetOut
<1>3. eng.state \in {"IDLE", "LOAD"} => ~Accepts
  BY DEF Accepts, Engine!CAccept, Engine!COutValid
<1>4. CASE eng.state \in {"IDLE", "LOAD"}
  BY <1>1, <1>2, <1>3, <1>4 DEF EngineStep, IdleStep, LoadStep, OutStep
<1>5. CASE eng.state \notin {"IDLE", "LOAD"}
  <2> DEFINE o == Engine!OutputSide(RawReady)
             rows == eng.m0 + Engine!TmLen
  <2>1. /\ o \in OutRegs /\ o.rowsReady = out.rowsReady
        /\ Accepts =>
             /\ o.count = out.count + 1
             /\ o.row = IF out.col + 1 >= cfg.n THEN out.row + 1 ELSE out.row
             /\ o.col = IF out.col + 1 >= cfg.n THEN 0 ELSE out.col + 1
        /\ ~Accepts => o = out
    BY Advances
  <2>2. out' = IF eng.state = "CAPTURE" /\ Engine!LastNBlock THEN [o EXCEPT !.rowsReady = rows] ELSE o
    BY <1>1, <1>5 DEF EngineStep, EngineStates, EngineRegs, ClearStep, FeedStep, DrainStep,
       CaptureStep, FlushStep, Engine!RowsReady
  <2>3. rows \in Int
    BY <1>1 DEF EngineRegs, Dims, Engine!TmLen, Engine!Least
  <2> HIDE DEF o, rows
  <2>4. /\ out' \in OutRegs /\ out'.count = o.count /\ out'.row = o.row /\ out'.col = o.col
        /\ out'.rowsReady = IF eng.state = "CAPTURE" /\ Engine!LastNBlock THEN rows ELSE o.rowsReady
    BY <2>1, <2>2, <2>3 DEF OutRegs
  <2>5. QED
    BY <1>5, <2>1, <2>4 DEF OutStep, rows
<1>6. QED
  BY <1>4, <1>5

LEMMA RowsFinalStep ==
  ASSUME RegsOK, Walk, OutShaped, RowsFinal, NEW w, Cycle(w)
  PROVE  OutShaped' /\ RowsFinal'
<1>1. EngineStep /\ OutStep /\ eng \in EngineRegs /\ eng' \in EngineRegs
  BY EngineSteps, OutSteps DEF RegsOK, EngineOK, EngineStep
<1>2. OutShaped'
  BY <1>1 DEF OutStep, OutRegs, OutShaped
<1>3. TilesFirst
  BY DEF Walk
<1>4. CASE eng.state \in {"IDLE", "LOAD"}
  <2>1. RowsFinal'
    BY <1>1, <1>4 DEF EngineStep, IdleStep, LoadStep, OutStep, RowsFinal, Engine!ResetOut, Walking
  <2>2. QED
    BY <1>2, <2>1
<1>5. CASE eng.state \in {"CLEAR", "FEED", "DRAIN"}
  <2>1. eng'.m0 = eng.m0 /\ eng'.state \in {"FEED", "DRAIN", "CAPTURE"} /\ out'.rowsReady = out.rowsReady
    BY <1>1, <1>5 DEF EngineStep, ClearStep, FeedStep, DrainStep, KeepsTile, OutStep
  <2>2. out.rowsReady = eng.m0
    BY <1>3, <1>5 DEF RowsFinal, TilesFirst, Walking
  <2>3. QED
    BY <1>2, <2>1, <2>2 DEF RowsFinal, Walking
<1>6. CASE eng.state = "CAPTURE"
  <2>1. /\ eng'.state \in {"FEED", "FLUSH_OUT"}
        /\ ~Engine!LastNBlock => eng'.m0 = eng.m0
        /\ Engine!LastNBlock /\ eng'.state = "FEED" => eng'.m0 = eng.m0 + Engine!TmLen
    BY <1>1, <1>6 DEF EngineStep, CaptureStep
  <2>2. out'.rowsReady = IF Engine!LastNBlock THEN eng.m0 + Engine!TmLen ELSE out.rowsReady
    BY <1>1, <1>6 DEF OutStep
  <2>3. out.rowsReady = eng.m0
    BY <1>6 DEF RowsFinal, Walking
  <2>4. QED
    BY <1>2, <2>1, <2>2, <2>3 DEF RowsFinal, Walking
<1>7. CASE eng.state = "FLUSH_OUT"
  <2>1. eng'.state \in {"IDLE", "FLUSH_OUT"}
    BY <1>1, <1>7 DEF EngineStep, FlushStep
  <2>2. QED
    BY <1>2, <2>1 DEF RowsFinal, Walking
<1>8. QED
  BY <1>1, <1>4, <1>5, <1>6, <1>7 DEF EngineRegs, EngineStates

(* A tile captured is a tile of C.                                          *)
LEMMA TileSums ==
  ASSUME RegsOK, Walk, Computing, eng.state = "CAPTURE", TileIn,
         NEW r \in 0 .. Engine!TmLen - 1, NEW c \in 0 .. Engine!TnLen - 1
  PROVE  arr.acc[<<r, c>>] = Element(eng.m0 + r, eng.n0 + c)
<1>1. job.given /\ JobLegal /\ cfg = EngineDims /\ ArrayN \in Nat \ {0}
  BY Constants DEF Walk, EngineKnown, JobKnown
<1>2. D["TILE_M"] \in 1 .. ArrayN /\ D["TILE_N"] \in 1 .. ArrayN /\ D["K"] \in Nat
  BY <1>1, LegalTyped DEF JobLegal, LegalConfig
<1>3. Engine!TmLen <= D["TILE_M"] /\ Engine!TnLen <= D["TILE_N"]
  <2>1. /\ Engine!TmLen = IF D["M"] - eng.m0 < D["TILE_M"] THEN D["M"] - eng.m0 ELSE D["TILE_M"]
        /\ Engine!TnLen = IF D["N"] - eng.n0 < D["TILE_N"] THEN D["N"] - eng.n0 ELSE D["TILE_N"]
    BY <1>1, Zenon DEF Engine!TmLen, Engine!TnLen, Engine!Least, EngineDims
  <2>2. D["M"] \in Nat /\ D["N"] \in Nat
    BY <1>1, LegalTyped
  <2>3. QED
    BY <1>2, <2>1, <2>2 DEF TileIn
<1>4. r \in 0 .. ArrayN - 1 /\ c \in 0 .. ArrayN - 1 /\ r < Engine!TmLen /\ c < Engine!TnLen
  BY <1>1, <1>2, <1>3 DEF TileIn
<1>5. arr.acc[<<r, c>>]
        = Sum(Products(eng.m0 + r, eng.n0 + c), Met(D["K"] + 2 * ArrayN - 1, r + c))
  BY <1>4 DEF Computing, ArrayHolds, SumsHold
<1>6. Met(D["K"] + 2 * ArrayN - 1, r + c) = D["K"]
  BY <1>1, <1>2, <1>4 DEF Met
<1>7. QED
  BY <1>5, <1>6, Zenon DEF Element

LEMMA Captures ==
  ASSUME RegsOK, MemShaped, NEW w, Cycle(w), eng.state = "CAPTURE",
         NEW r \in 0 .. MaxM - 1, NEW c \in 0 .. MaxN - 1
  PROVE  mem'.c[<<r, c>>]
           = IF r - eng.m0 \in 0 .. Engine!TmLen - 1 /\ c - eng.n0 \in 0 .. Engine!TnLen - 1
               THEN arr.acc[<<r - eng.m0, c - eng.n0>>] ELSE mem.c[<<r, c>>]
<1> DEFINE e(p) ==
             IF p[1] - eng.m0 \in 0 .. Engine!TmLen - 1 /\ p[2] - eng.n0 \in 0 .. Engine!TnLen - 1
               THEN arr.acc[<<p[1] - eng.m0, p[2] - eng.n0>>] ELSE mem.c[p]
           new == [p \in DOMAIN mem.c |-> e(p)]
           n == mem'
<1>1. n = [mem EXCEPT !.c = new]
  BY EngineSteps, Zenon DEF RegsOK, EngineStep, CaptureStep
<1>2. DOMAIN mem.c = Grid(MaxM, MaxN)
  <2> DEFINE f == [p \in Grid(MaxM, MaxN) |-> mem.c[p]]
  <2>1. DOMAIN f = Grid(MaxM, MaxN) /\ mem.c = f
    BY DEF MemShaped, Grid
  <2> HIDE DEF f
  <2>2. QED
    BY <2>1
<1>3. <<r, c>> \in Grid(MaxM, MaxN)
  BY DEF Grid
<1>4. new[<<r, c>>] = e(<<r, c>>)
  <2> HIDE DEF e
  <2>1. QED
    BY <1>2, <1>3
<1>5. n.c = new
  <2> HIDE DEF new, n
  <2>1. QED
    BY <1>1 DEF MemShaped
<1>6. QED
  BY <1>4, <1>5 DEF n

LEMMA FinishedStep ==
  ASSUME RegsOK, Walk, Buffered, Computing, Finished, NEW w, Cycle(w)
  PROVE  Finished'
<1>1. EngineStep /\ eng \in EngineRegs /\ eng' \in EngineRegs /\ MemShaped
  BY EngineSteps DEF RegsOK, EngineOK, EngineStep, Buffered
<1>2. CASE eng.state \in {"IDLE", "LOAD"}
  <2>1. eng'.state \in {"IDLE", "LOAD", "CLEAR"}
    BY <1>1, <1>2 DEF EngineStep, IdleStep, LoadStep
  <2>2. QED
    BY <2>1 DEF Finished, Captured, Walking
<1>3. CASE eng.state \notin {"IDLE", "LOAD"}
  <2>1. ~JobStart(w) /\ job.given /\ JobLegal /\ cfg = EngineDims /\ cfg' = cfg
    BY <1>3, WalkBusy
  <2>2. D' = D /\ \A r, c : Element(r, c)' = Element(r, c)
    BY <2>1, SameJobOn, OwedSame
  <2>3. D["M"] \in 1 .. MaxM /\ D["N"] \in 1 .. MaxN /\ MaxM \in Nat /\ MaxN \in Nat
    BY <2>1, Constants DEF JobLegal, LegalConfig
  <2>4. SUFFICES ASSUME NEW r \in 0 .. D["M"] - 1, NEW c \in 0 .. D["N"] - 1, Captured(r, c)'
                 PROVE  mem'.c[<<r, c>>] = Element(r, c)
    BY <2>2, Zenon DEF Finished
  <2>5. Captured(r, c) => mem.c[<<r, c>>] = Element(r, c)
    BY DEF Finished
  <2>6. eng'.state = "FLUSH_OUT" \/ (r < eng'.m0 \/ (r < eng'.m0 + Engine!TmLen' /\ c < eng'.n0))
    BY <2>4 DEF Captured
  <2>7. CASE eng.state \in {"CLEAR", "FEED", "DRAIN"}
    <3>1. KeepsTile /\ mem' = mem /\ eng'.state \in {"FEED", "DRAIN", "CAPTURE"}
      BY <1>1, <2>7 DEF EngineStep, ClearStep, FeedStep, DrainStep, KeepsBuffers
    <3>2. Engine!TmLen' = Engine!TmLen
      BY <2>1, <3>1 DEF KeepsTile, Engine!TmLen, Engine!Least
    <3>3. r < eng.m0 \/ (r < eng.m0 + Engine!TmLen /\ c < eng.n0)
      BY <2>6, <3>1, <3>2 DEF KeepsTile
    <3>4. CASE eng.state = "CLEAR"
      <4>1. eng.m0 = 0 /\ eng.n0 = 0
        BY <3>4 DEF Walk, TilesFirst
      <4>2. QED
        BY <3>3, <4>1
    <3>5. CASE eng.state # "CLEAR"
      BY <2>5, <2>7, <3>1, <3>3, <3>5 DEF Captured, Walking
    <3>6. QED
      BY <3>4, <3>5
  <2>8. CASE eng.state = "FLUSH_OUT"
    BY <1>1, <2>5, <2>8 DEF EngineStep, FlushStep, KeepsBuffers, Captured
  <2>9. CASE eng.state = "CAPTURE"
    <3>1. TileIn
      BY <2>9, WalkingTile DEF Walking
    <3>2. mem'.c[<<r, c>>]
            = IF r - eng.m0 \in 0 .. Engine!TmLen - 1 /\ c - eng.n0 \in 0 .. Engine!TnLen - 1
                THEN arr.acc[<<r - eng.m0, c - eng.n0>>] ELSE mem.c[<<r, c>>]
      <4>1. r \in 0 .. MaxM - 1 /\ c \in 0 .. MaxN - 1
        BY <2>3
      <4>2. QED
        BY <1>1, <2>9, <4>1, Captures
    <3>3. CaptureStep
      BY <1>1, <2>9 DEF EngineStep
    <3>4. r < eng.m0 \/ (r < eng.m0 + Engine!TmLen /\ c < eng.n0 + Engine!TnLen)
      <4>1. ~Engine!LastNBlock => eng'.m0 = eng.m0 /\ eng'.n0 = eng.n0 + Engine!TnLen
                                  /\ Engine!TmLen' = Engine!TmLen /\ eng'.state = "FEED"
        BY <2>1, <3>3, Zenon DEF CaptureStep, Engine!TmLen, Engine!Least
      <4>2. Engine!LastNBlock => c < eng.n0 + Engine!TnLen
        BY <2>1, <2>3, <3>1 DEF Engine!LastNBlock, EngineDims, TileIn
      <4>3. Engine!LastMBlock => r < eng.m0 + Engine!TmLen
        BY <2>1, <2>3, <3>1 DEF Engine!LastMBlock, EngineDims, TileIn
      <4>4. Engine!LastNBlock /\ ~Engine!LastMBlock =>
              eng'.m0 = eng.m0 + Engine!TmLen /\ eng'.n0 = 0 /\ eng'.state = "FEED"
        BY <3>3, Zenon DEF CaptureStep
      <4>5. r \in Nat /\ c \in Nat
        OBVIOUS
      <4>6. CASE ~Engine!LastNBlock
        BY <2>6, <4>1, <4>6
      <4>7. CASE Engine!LastNBlock /\ Engine!LastMBlock
        BY <4>2, <4>3, <4>7
      <4>8. CASE Engine!LastNBlock /\ ~Engine!LastMBlock
        BY <2>6, <4>2, <4>4, <4>5, <4>8
      <4>9. QED
        BY <4>6, <4>7, <4>8
    <3>5. CASE r - eng.m0 \in 0 .. Engine!TmLen - 1 /\ c - eng.n0 \in 0 .. Engine!TnLen - 1
      <4>1. arr.acc[<<r - eng.m0, c - eng.n0>>] = Element(eng.m0 + (r - eng.m0), eng.n0 + (c - eng.n0))
        BY <2>9, <3>1, <3>5, TileSums
      <4>2. eng.m0 + (r - eng.m0) = r /\ eng.n0 + (c - eng.n0) = c
        BY <3>1 DEF TileIn
      <4>3. QED
        BY <3>2, <3>5, <4>1, <4>2
    <3>6. CASE ~(r - eng.m0 \in 0 .. Engine!TmLen - 1 /\ c - eng.n0 \in 0 .. Engine!TnLen - 1)
      <4>1. r < eng.m0 \/ (r < eng.m0 + Engine!TmLen /\ c < eng.n0)
        BY <3>1, <3>4, <3>6 DEF TileIn
      <4>2. Captured(r, c)
        BY <2>9, <4>1 DEF Captured, Walking
      <4>3. QED
        BY <2>5, <3>2, <3>6, <4>2, Zenon
    <3>7. QED
      BY <3>5, <3>6
  <2>10. QED
    BY <1>1, <1>3, <2>7, <2>8, <2>9 DEF EngineRegs, EngineStates
<1>4. QED
  BY <1>2, <1>3

-----------------------------------------------------------------------------
(* The elements handed on.                                                  *)
LEMMA Int8Held ==
  ASSUME Held, JobBusy
  PROVE  (Int8 <=> Packed) /\ desc.cfg = D /\ bias = job.bias /\ job.given
<1>1. desc.cfg = D /\ bias = job.bias /\ job.given
  BY DEF Held
<1>2. 2^1 = 2
  OBVIOUS
<1>3. Int8 <=> Packed
  BY <1>1, <1>2, Zenon DEF Int8, Shell!Int8Output, Shell!Bit, Shell!Cfg, Packed
<1>4. QED
  BY <1>1, <1>3

(* The column register of the bias keeps pace with the engine's.            *)
LEMMA ColumnSteps ==
  ASSUME Held, NEW w, Cycle(w), eng.state # "IDLE", ~JobStart(w), cfg = EngineDims
  PROVE  /\ Packed /\ Accepts => outCol' = IF outCol + 1 >= cfg.n THEN 0 ELSE outCol + 1
         /\ Packed /\ ~Accepts => outCol' = outCol
<1>1. JobBusy
  BY BusyMeans
<1>2. (Int8 <=> Packed) /\ desc.cfg = D
  BY <1>1, Int8Held
<1>3. Packed => (PackIn.valid /\ Pack!InReady(CReady) <=> Accepts)
  BY <1>2 DEF PackIn, Accepts, Engine!CAccept, RawReady
<1>4. outCol' = IF PackIn.valid /\ Pack!InReady(CReady) THEN NextColumn(outCol) ELSE outCol
  BY DEF Cycle, TopClock, ColumnClock
<1>5. cfg.n = D["N"]
  BY DEF EngineDims
<1>6. QED
  BY <1>2, <1>3, <1>4, <1>5, Zenon DEF NextColumn

LEMMA ColumnRests ==
  ASSUME NEW w, Cycle(w), eng.state = "IDLE", ~JobStart(w)
  PROVE  outCol' = outCol
<1>1. ~PackIn.valid
  BY DEF PackIn, Engine!COutValid
<1>2. QED
  BY <1>1 DEF Cycle, TopClock, ColumnClock

(* An element's number and its place, one element on.                       *)
LEMMA PlaceOn ==
  ASSUME NEW n \in Nat \ {0}, NEW row \in Nat, NEW col \in 0 .. n - 1
  PROVE  /\ row * n \in Nat
         /\ col + 1 >= n => row * n + col + 1 = (row + 1) * n + 0
<1>1. row * n \in Nat /\ (row + 1) * n = row * n + n
  BY SMT
<1>2. QED
  BY <1>1

HandedOn(count, row, col, column) ==
  /\ count \in 0 .. Elements
  /\ row \in Nat /\ col \in 0 .. D["N"] - 1 /\ count = row * D["N"] + col
  /\ Packed => column = col

LEMMA HandingStep ==
  ASSUME RegsOK, Walk, OutShaped, Held, Handing, NEW w, Cycle(w)
  PROVE  Handing'
<1>1. EngineStep /\ OutStep /\ StartStep(w)
  BY EngineSteps, OutSteps, StartSteps DEF RegsOK
<1>2. CASE JobStart(w)
  <2>1. ~ComputeBusy /\ LegalConfig(desc.cfg)
    BY <1>2, StartLegal
  <2>2. D' = desc.cfg /\ startQ'.q /\ outCol' = 0
    BY <1>1, <1>2 DEF StartStep, D, Cycle, TopClock, ColumnClock
  <2>3. eng'.state = "IDLE"
    BY <1>1, <2>1 DEF EngineStep, IdleStep, Starts, ComputeBusy, Engine!EngineBusy
  <2>4. D'["M"] \in Nat /\ D'["N"] \in Nat
    BY <2>1, <2>2 DEF LegalConfig
  <2>5. Elements' \in Nat
    <3>1. \A x, y \in Nat : x * y \in Nat
      BY SMT
    <3>2. QED
      BY <2>4, <3>1, Zenon DEF Elements
  <2>6. OutCount' = 0
    BY <2>2 DEF OutCount
  <2>7. OutCount' \in 0 .. Elements'
    BY <2>5, <2>6
  <2>8. QED
    BY <2>2, <2>3, <2>7 DEF Handing
<1>3. CASE ~JobStart(w) /\ ~job.given
  BY <1>1, <1>3 DEF StartStep, Handing
<1>4. CASE ~JobStart(w) /\ job.given
  <2>1. /\ D' = D /\ Elements' = Elements /\ Packed' = Packed /\ startQ'.q = FALSE
        /\ Elements \in Nat \ {0}
    BY <1>1, <1>4, SameJobOn, OwedSame, ResultSize DEF StartStep, Walk
  <2>2. D["N"] \in Nat \ {0} /\ JobLegal
    BY <1>4, LegalTyped DEF Walk, JobKnown
  <2>3. SUFFICES /\ HandedOn(out'.count, out'.row, out'.col, outCol')
                 /\ eng'.state = "LOAD" => out'.count = 0
    <3>1. OutCount' = out'.count
      BY <2>1 DEF OutCount
    <3>2. ASSUME HandedOn(out'.count, out'.row, out'.col, outCol'), eng'.state = "LOAD" => out'.count = 0
          PROVE  Handing'
      <4>1. /\ OutCount' \in 0 .. Elements'
            /\ out'.row >= 0 /\ out'.col \in 0 .. D'["N"] - 1 /\ out'.count = out'.row * D'["N"] + out'.col
            /\ Packed' => outCol' = out'.col
        BY <2>1, <3>1, <3>2 DEF HandedOn
      <4>2. QED
        BY <2>1, <3>1, <3>2, <4>1 DEF Handing
    <3>3. QED
      BY <3>2
  <2>4. CASE startQ.q
    <3>1. eng.state = "IDLE" /\ Starts
      BY <1>4, <2>2, <2>4, NotBad DEF Walk, StartKnown, Starts
    <3>2. out' = Engine!ResetOut /\ outCol' = outCol
      BY <1>1, <1>4, <3>1, ColumnRests DEF OutStep
    <3>3. out'.count = 0 /\ out'.row = 0 /\ out'.col = 0
      BY <3>2 DEF Engine!ResetOut
    <3>4. Packed => outCol = 0
      BY <1>4, <2>4 DEF Handing
    <3>5. 0 = 0 * D["N"] + 0
      BY <2>2
    <3>6. QED
      BY <2>1, <2>2, <3>2, <3>3, <3>4, <3>5 DEF HandedOn
  <2>5. CASE ~startQ.q
    <3>1. /\ out.count \in 0 .. Elements /\ out.row >= 0 /\ out.col \in 0 .. D["N"] - 1
          /\ out.count = out.row * D["N"] + out.col
          /\ eng.state = "LOAD" => out.count = 0
          /\ Packed => outCol = out.col
      BY <1>4, <2>5 DEF Handing, OutCount
    <3>2. out.row \in Nat
      BY <3>1 DEF OutShaped
    <3>3. CASE Accepts
      <4>1. eng.state \notin {"IDLE", "LOAD"} /\ cfg = EngineDims
        BY <1>1, <3>3 DEF OutStep, Walk, EngineKnown
      <4>2. cfg.n = D["N"] /\ Engine!CTotal = Elements
        BY <4>1 DEF EngineDims, Engine!CTotal, Elements
      <4>3. out.count < Elements
        BY <3>3, <4>2 DEF Accepts, Engine!CAccept, Engine!COutValid
      <4>4. /\ out'.count = out.count + 1
            /\ out'.row = IF out.col + 1 >= cfg.n THEN out.row + 1 ELSE out.row
            /\ out'.col = IF out.col + 1 >= cfg.n THEN 0 ELSE out.col + 1
        BY <1>1, <3>3 DEF OutStep
      <4>5. Packed => outCol' = IF outCol + 1 >= cfg.n THEN 0 ELSE outCol + 1
        BY <1>4, <3>3, <4>1, ColumnSteps
      <4>6. out'.count \in 0 .. Elements
        BY <2>1, <3>1, <4>3, <4>4
      <4>7. eng'.state # "LOAD"
        BY <1>4, <4>1, BuffersStand DEF EngineStates
      <4>8. /\ out.row * D["N"] \in Nat
            /\ out.col + 1 >= D["N"] => out.row * D["N"] + out.col + 1 = (out.row + 1) * D["N"] + 0
        BY <2>2, <3>1, <3>2, PlaceOn
      <4> DEFINE n == D["N"]
                 here == out.row * D["N"]
                 next == (out.row + 1) * D["N"]
      <4>9. /\ out'.row \in Nat /\ out'.col \in 0 .. n - 1
            /\ out.col + 1 >= n => out'.count = next + out'.col /\ out'.row = out.row + 1
            /\ ~(out.col + 1 >= n) => out'.count = here + out'.col /\ out'.row = out.row
        <5>1. here \in Nat /\ n \in Nat \ {0} /\ cfg.n = n /\ out.count = here + out.col
              /\ (out.col + 1 >= n => here + out.col + 1 = next + 0) /\ out.col \in 0 .. n - 1
          BY <2>2, <3>1, <4>2, <4>8
        <5>2. next \in Int
          BY <2>2, <3>2
        <5> HIDE DEF n, here, next
        <5>3. QED
          BY <3>2, <4>4, <5>1, <5>2
      <4>10. out'.count = out'.row * D["N"] + out'.col
        <5> HIDE DEF n
        <5>1. QED
          BY <4>9, Zenon
      <4>11. QED
        BY <3>1, <4>2, <4>4, <4>5, <4>6, <4>7, <4>9, <4>10 DEF HandedOn
    <3>4. CASE ~Accepts
      <4>1. out'.count = out.count /\ out'.row = out.row /\ out'.col = out.col
        BY <1>1, <2>5, <3>4 DEF OutStep, Starts
      <4>2. Packed => outCol' = outCol
        <5>1. CASE eng.state = "IDLE"
          BY <1>4, <5>1, ColumnRests
        <5>2. CASE eng.state # "IDLE"
          BY <1>4, <3>4, <5>2, ColumnSteps DEF Walk, EngineKnown
        <5>3. QED
          BY <5>1, <5>2
      <4>3. eng'.state = "LOAD" => eng.state = "LOAD"
        <5>1. CASE eng.state \in {"IDLE", "LOAD"}
          BY <1>1, <2>5, <5>1 DEF EngineStep, IdleStep, Starts
        <5>2. CASE eng.state \notin {"IDLE", "LOAD"}
          BY <5>2, BuffersStand DEF EngineStates
        <5>3. QED
          BY <5>1, <5>2
      <4>4. QED
        BY <3>1, <3>2, <4>1, <4>2, <4>3 DEF HandedOn
    <3>5. QED
      BY <3>3, <3>4
  <2>6. QED
    BY <2>4, <2>5
<1>5. QED
  BY <1>2, <1>3, <1>4

-----------------------------------------------------------------------------
(* What the packer makes of an element.                                     *)
IsShifts(s, x, n) == s = [i \in 0 .. n |-> IF i = 0 THEN x ELSE s[i - 1] \div 2]
Shifts(x, n) == CHOOSE s : IsShifts(s, x, n)

LEMMA ShiftsExist ==
  ASSUME NEW x \in Int, NEW n \in Nat
  PROVE  IsShifts(Shifts(x, n), x, n)
<1> DEFINE S == {m \in Nat : \E s : IsShifts(s, x, m)}
<1>1. 0 \in S
  <2>1. IsShifts([i \in 0 .. 0 |-> x], x, 0)
    BY DEF IsShifts
  <2>2. QED
    BY <2>1
<1>2. ASSUME NEW m \in S
      PROVE  m + 1 \in S
  <2>1. PICK s : IsShifts(s, x, m)
    OBVIOUS
  <2> DEFINE r == [i \in 0 .. m + 1 |-> IF i = m + 1 THEN s[m] \div 2 ELSE s[i]]
  <2>2. ASSUME NEW i \in 0 .. m + 1
        PROVE  r[i] = IF i = 0 THEN x ELSE r[i - 1] \div 2
    <3>1. CASE i = m + 1
      BY <3>1
    <3>2. CASE i \in 0 .. m
      <4>1. s[i] = IF i = 0 THEN x ELSE s[i - 1] \div 2
        BY <2>1, <3>2 DEF IsShifts
      <4>2. QED
        BY <3>2, <4>1
    <3>3. QED
      BY <3>1, <3>2
  <2>3. IsShifts(r, x, m + 1)
    BY <2>2 DEF IsShifts
  <2>4. m + 1 \in Nat
    OBVIOUS
  <2>5. QED
    <3> HIDE DEF r
    <3>1. QED
      BY <2>3, <2>4
<1>3. S = Nat
  <2> HIDE DEF S
  <2>1. S \in SUBSET Nat
    BY DEF S
  <2>2. QED
    BY <1>1, <1>2, <2>1, Induction
<1>4. \E s : IsShifts(s, x, n)
  BY <1>3
<1>5. QED
  BY <1>4 DEF Shifts

LEMMA ShiftTyped ==
  ASSUME NEW x \in Int, NEW n \in Nat
  PROVE  Pack!ShiftRight(x, n) \in Int
<1> DEFINE s == Shifts(x, n)
           S == {i \in Nat : i <= n => s[i] \in Int}
<1>1. s = [i \in 0 .. n |-> IF i = 0 THEN x ELSE s[i - 1] \div 2]
  BY ShiftsExist DEF IsShifts
<1> HIDE DEF s
<1>2. \A i \in 0 .. n : s[i] = IF i = 0 THEN x ELSE s[i - 1] \div 2
  BY <1>1
<1>3. 0 \in S
  BY <1>2
<1>4. \A i \in S : i + 1 \in S
  BY <1>2
<1>5. S = Nat
  <2> HIDE DEF S
  <2>1. S \in SUBSET Nat
    BY DEF S
  <2>2. QED
    BY <1>3, <1>4, <2>1, Induction
<1>6. s[n] \in Int
  BY <1>5
<1>7. Pack!ShiftRight(x, n) = s[n]
  BY DEF Pack!ShiftRight, s, Shifts, IsShifts
<1>8. QED
  BY <1>6, <1>7

(* A number is its 32 bits read as signed up to a multiple of 2^32, and so  *)
(* what is in range is what its bits say.                                   *)
LEMMA SignedOf ==
  ASSUME NEW x \in Int
  PROVE  /\ Pack!Signed(x) \in Int
         /\ \E k \in Int : Pack!Signed(x) = x + (2 * WordHalf) * k
<1> DEFINE W == 2 * WordHalf
           q == (x + WordHalf) \div W
           m == (x + WordHalf) % W
<1>1. WordHalf \in Nat \ {0} /\ W \in Nat \ {0}
  BY Constants
<1>2. q \in Int /\ m \in 0 .. W - 1 /\ x + WordHalf = W * q + m
  <2> HIDE DEF W
  <2>1. QED
    BY <1>1, Z3
<1>3. Pack!Signed(x) = m - WordHalf
  BY DEF Pack!Signed
<1> HIDE DEF W, q, m
<1>4. W * (-q) = -(W * q) /\ W * q \in Int
  BY <1>1, <1>2, Z3
<1>5. m - WordHalf = x + W * (-q)
  <2> DEFINE p == W * q
             o == W * (-q)
  <2>1. p \in Int /\ o = -p /\ x + WordHalf = p + m
    BY <1>2, <1>4
  <2> HIDE DEF p, o
  <2>2. m - WordHalf = x + o
    BY <1>1, <1>2, <2>1
  <2>3. QED
    BY <2>2 DEF o
<1>6. -q \in Int /\ m - WordHalf \in Int
  BY <1>1, <1>2
<1>7. QED
  BY <1>3, <1>5, <1>6, Zenon DEF W

LEMMA SignedIs ==
  ASSUME NEW y \in -WordHalf .. WordHalf - 1, NEW k \in Int
  PROVE  Pack!Signed(y + (2 * WordHalf) * k) = y
<1> DEFINE W == 2 * WordHalf
           r == y + WordHalf
           p == W * k
<1>1. WordHalf \in Nat \ {0} /\ W \in Nat \ {0} /\ r \in 0 .. W - 1 /\ y = r - WordHalf
  BY Constants
<1>2. (W * k + r) % W = r
  <2> HIDE DEF W, r
  <2>1. QED
    BY <1>1, RemainderUnique
<1>3. p \in Int
  <2> HIDE DEF W
  <2>1. QED
    BY <1>1
<1>4. y + p + WordHalf = p + r
  <2> HIDE DEF p
  <2>1. QED
    BY <1>1, <1>3
<1>5. Pack!Signed(y + p) = ((p + r) % W) - WordHalf
  BY <1>4 DEF Pack!Signed
<1>6. QED
  BY <1>1, <1>2, <1>5 DEF p, W

LEMMA ElementTyped ==
  ASSUME RegsOK, JobKnown, job.given, JobFits, CellsHold, NEW i \in 0 .. Elements - 1
  PROVE  /\ i \div D["N"] \in 0 .. D["M"] - 1 /\ i % D["N"] \in 0 .. D["N"] - 1
         /\ ElementOfC(i) \in Int
<1>1. D["M"] \in Nat /\ D["N"] \in Nat \ {0}
  BY LegalTyped DEF JobKnown
<1>2. i \in 0 .. D["M"] * D["N"] - 1
  BY DEF Elements
<1>3. i \div D["N"] \in 0 .. D["M"] - 1 /\ i % D["N"] \in 0 .. D["N"] - 1
  BY <1>1, <1>2, RowInRange
<1>4. QED
  BY <1>3, ElementTerms, Zenon DEF ElementOfC

(* The two biases and the sum of the three, brought back to 32 bits.        *)
LEMMA BiasedOnce ==
  ASSUME NEW x \in Int, NEW a \in Int, NEW b \in Int, NEW sum,
         sum = x + Pack!Signed(a) + Pack!Signed(b), sum \in -WordHalf .. WordHalf - 1
  PROVE  Pack!Signed(x + Pack!Signed(a + b)) = sum
<1> DEFINE W == 2 * WordHalf
           ab == a + b
           p == Pack!Signed(a)
           q == Pack!Signed(b)
           r == Pack!Signed(ab)
<1>1. WordHalf \in Nat \ {0} /\ W \in Nat /\ ab \in Int
  BY Constants
<1>2. PICK i \in Int : p = a + W * i
  BY SignedOf
<1>3. PICK j \in Int : q = b + W * j
  BY SignedOf
<1>4. PICK k \in Int : r = ab + W * k
  <2> HIDE DEF ab
  <2>1. QED
    BY <1>1, SignedOf
<1>5. p \in Int /\ q \in Int /\ r \in Int
  <2> HIDE DEF ab
  <2>1. QED
    BY <1>1, SignedOf
<1>6. sum = x + p + q /\ sum \in Int
  BY <1>1
<1> HIDE DEF p, q, r, W
<1>7. k - i - j \in Int /\ W * (k - i - j) = W * k - W * i - W * j
  BY <1>1, Z3
<1>8. W * k \in Int /\ W * i \in Int /\ W * j \in Int
  BY <1>1
<1>9. x + r = sum + W * (k - i - j)
  <2> DEFINE wi == W * i
             wj == W * j
             wk == W * k
             wn == W * (k - i - j)
  <2>1. /\ wi \in Int /\ wj \in Int /\ wk \in Int /\ wn = wk - wi - wj
        /\ p = a + wi /\ q = b + wj /\ r = a + b + wk
    BY <1>2, <1>3, <1>4, <1>7, <1>8 DEF ab
  <2> HIDE DEF wi, wj, wk, wn, ab
  <2>2. \A xx, aa, bb, ww, vv, uu \in Int :
          xx + (aa + bb + ww) = (xx + (aa + vv) + (bb + uu)) + (ww - vv - uu)
    OBVIOUS
  <2>3. x + (a + b + wk) = (x + (a + wi) + (b + wj)) + (wk - wi - wj)
    BY <2>1, <2>2
  <2>4. x + r = sum + wn
    BY <1>6, <2>1, <2>3, Zenon
  <2>5. QED
    BY <2>4 DEF wn
<1>10. Pack!Signed(sum + W * (k - i - j)) = sum
  <2> DEFINE n == k - i - j
  <2>1. n \in Int
    BY <1>7
  <2> HIDE DEF n
  <2>2. Pack!Signed(sum + (2 * WordHalf) * n) = sum
    BY <2>1, SignedIs
  <2>3. QED
    BY <2>2 DEF n, W
<1>11. QED
  BY <1>9, <1>10 DEF r, ab

(* What saturating twice comes to.                                          *)
LEMMA Saturates ==
  ASSUME NEW x \in Int, NEW relu \in BOOLEAN
  PROVE  /\ (IF relu /\ x < 0 THEN 0 ELSE Pack!Saturate(x)) = Between(IF relu THEN 0 ELSE -128, x, 127)
         /\ Between(IF relu THEN 0 ELSE -128, x, 127) \in -128 .. 127
  BY DEF Pack!Saturate, Between

LEMMA Requantizes ==
  ASSUME RegsOK, JobKnown, job.given, JobFits, SumsFit, CellsHold, Packed,
         NEW i \in 0 .. Elements - 1
  PROVE  /\ Requantized(i) \in -128 .. 127
         /\ desc.cfg = D /\ bias = job.bias /\ outCol = i % D["N"] =>
              Pack!Quantize(ElementOfC(i), Post) = Requantized(i)
<1> DEFINE x == ElementOfC(i)
           a == D["POST_BIAS"]
           b == job.bias[i % D["N"]]
           scale == Pack!Signed(D["POST_SCALE"])
           cfgByte == D["POST_CFG"]
           shift == cfgByte \div 4
           relu == (cfgByte % 2 = 1)
           sum == Biased(i)
           shifted == Pack!ShiftRight(sum * scale, shift)
<1>1. x \in Int /\ i % D["N"] \in 0 .. D["N"] - 1
  BY ElementTyped
<1>2. a \in Nat /\ D["POST_SCALE"] \in Nat /\ cfgByte \in Nat /\ cfgByte < 256
  BY DEF RegsOK, JobOK, ConfigType, Fields, Shell!Fields, D
<1>3. b \in Nat
  <2>1. D["N"] \in 1 .. MaxN /\ MaxN \in Nat
    BY Constants DEF JobKnown, JobLegal, LegalConfig
  <2>2. i % D["N"] \in 0 .. MaxN - 1
    BY <1>1, <2>1
  <2>3. QED
    BY <2>2 DEF RegsOK, JobOK
<1>4. sum = x + Pack!Signed(a) + Pack!Signed(b) /\ sum \in -WordHalf .. WordHalf - 1
  BY DEF Biased, SumsFit
<1>5. scale \in Int /\ sum \in Int /\ WordHalf \in Nat
  BY <1>2, <1>4, SignedOf, Constants
<1>6. shift \in Nat /\ shift % 64 = shift
  <2> HIDE DEF cfgByte
  <2>1. QED
    BY <1>2
<1>7. shifted \in Int
  <2> DEFINE product == sum * scale
  <2>1. product \in Int
    <3> HIDE DEF sum, scale
    <3>1. QED
      BY <1>5
  <2> HIDE DEF product, shift
  <2>2. Pack!ShiftRight(product, shift) \in Int
    BY <1>6, <2>1, ShiftTyped
  <2>3. QED
    BY <2>2 DEF product
<1>8. relu \in BOOLEAN
  OBVIOUS
<1>9. Requantized(i) = Between(IF relu THEN 0 ELSE -128, shifted, 127)
  BY Zenon DEF Requantized
<1>10. /\ (IF relu /\ shifted < 0 THEN 0 ELSE Pack!Saturate(shifted))
             = Between(IF relu THEN 0 ELSE -128, shifted, 127)
       /\ Between(IF relu THEN 0 ELSE -128, shifted, 127) \in -128 .. 127
  <2> HIDE DEF relu, shifted
  <2>1. QED
    BY <1>7, <1>8, Saturates
<1>11. ASSUME desc.cfg = D, bias = job.bias, outCol = i % D["N"]
       PROVE  Pack!Quantize(x, Post) = IF relu /\ shifted < 0 THEN 0 ELSE Pack!Saturate(shifted)
  <2> DEFINE post == Post
  <2>1. /\ post.bias = Pack!Signed(a + b) /\ post.scale = scale /\ post.relu = Shell!Bit(cfgByte, 0)
        /\ post.shift = shift % 64
    BY <1>11 DEF Post
  <2>2. post.relu <=> relu
    <3>1. 2^0 = 1
      OBVIOUS
    <3>2. cfgByte \div 1 = cfgByte
      <4> HIDE DEF cfgByte
      <4>1. QED
        BY <1>2
    <3>3. QED
      BY <2>1, <3>1, <3>2, Zenon DEF Shell!Bit
  <2>3. Pack!Signed(x + post.bias) = sum
    <3> HIDE DEF x, a, b, post, sum
    <3>1. QED
      BY <1>1, <1>2, <1>3, <1>4, <2>1, BiasedOnce
  <2>4. post.shift = shift
    BY <1>6, <2>1
  <2>5. Pack!ShiftRight(Pack!Signed(x + post.bias) * post.scale, post.shift) = shifted
    BY <2>1, <2>3, <2>4, Zenon
  <2> HIDE DEF post, shifted, relu, x, sum, scale, shift
  <2>6. QED
    BY <2>2, <2>5, Zenon DEF Pack!Quantize, post
<1>12. QED
  BY <1>9, <1>10, <1>11, Zenon

-----------------------------------------------------------------------------
(* The element on hand is one of C that is in.                              *)
LEMMA HandsElement ==
  ASSUME RegsOK, Walk, OutShaped, Handing, Finished, RowsFinal, Engine!COutValid
  PROVE  /\ job.given /\ ~startQ.q /\ OutCount = out.count /\ OutCount \in 0 .. Elements - 1
         /\ PackIn.data = ElementOfC(OutCount)
         /\ OutCount % D["N"] = out.col
         /\ (PackIn.last <=> OutCount = Elements - 1)
<1>1. eng.state \notin {"IDLE", "LOAD"} /\ out.count < Engine!CTotal /\ out.row < out.rowsReady
  BY DEF Engine!COutValid
<1>2. ~startQ.q /\ job.given /\ cfg = EngineDims /\ JobLegal
  BY <1>1 DEF Walk, EngineKnown, JobKnown
<1>3. Engine!CTotal = Elements /\ OutCount = out.count
  BY <1>2 DEF EngineDims, Engine!CTotal, Elements, OutCount
<1>4. /\ out.row >= 0 /\ out.col \in 0 .. D["N"] - 1 /\ out.count = out.row * D["N"] + out.col
      /\ out.count \in 0 .. Elements
  BY <1>2, <1>3 DEF Handing
<1>5. D["N"] \in Nat \ {0} /\ D["M"] \in Nat \ {0} /\ out.row \in Nat /\ out.rowsReady \in Int
  BY <1>2, <1>4, LegalTyped DEF OutShaped
<1>6. Elements \in Nat /\ OutCount \in 0 .. Elements - 1
  <2>1. Elements \in Nat
    BY <1>2, ResultSize DEF Walk
  <2>2. QED
    BY <1>1, <1>3, <1>4, <2>1
<1>7. OutCount \div D["N"] = out.row /\ OutCount % D["N"] = out.col
  <2>1. OutCount = D["N"] * out.row + out.col
    <3>1. out.row * D["N"] = D["N"] * out.row
      BY <1>5
    <3>2. QED
      BY <1>3, <1>4, <3>1
  <2>2. out.row \in Int
    BY <1>5
  <2>3. QED
    BY <1>4, <1>5, <2>1, <2>2, QuotientUnique, RemainderUnique
<1>8. out.row \in 0 .. D["M"] - 1
  <2>1. OutCount \in 0 .. D["M"] * D["N"] - 1
    BY <1>6 DEF Elements
  <2>2. OutCount \div D["N"] \in 0 .. D["M"] - 1
    BY <1>5, <2>1, RowInRange
  <2>3. QED
    BY <1>7, <2>2
<1>9. Captured(out.row, out.col)
  <2>1. eng.state \in EngineStates
    BY DEF RegsOK, EngineOK, EngineRegs
  <2>2. eng.state # "CLEAR"
    BY <1>1, <1>5 DEF RowsFinal
  <2>3. Walking => out.row < eng.m0
    BY <1>1 DEF RowsFinal
  <2>4. QED
    BY <1>1, <2>1, <2>2, <2>3 DEF Captured, Walking, EngineStates
<1>10. mem.c[<<out.row, out.col>>] = Element(out.row, out.col)
  BY <1>4, <1>8, <1>9 DEF Finished
<1>11. PackIn.data = ElementOfC(OutCount)
  <2>1. PackIn.data = Engine!COutData
    BY DEF PackIn
  <2>2. QED
    BY <1>7, <1>10, <2>1, Zenon DEF ElementOfC, Engine!COutData
<1>12. PackIn.last <=> OutCount = Elements - 1
  BY <1>3 DEF PackIn, Engine!COutLast
<1>13. QED
  BY <1>2, <1>3, <1>6, <1>7, <1>11, <1>12

(* How the count of the elements handed on goes on.                         *)
LEMMA CountOn ==
  ASSUME RegsOK, Walk, OutShaped, NEW w, Cycle(w), job.given, ~JobStart(w)
  PROVE  /\ Accepts => OutCount' = OutCount + 1
         /\ ~Accepts => OutCount' = OutCount
<1>1. EngineStep /\ OutStep /\ ~startQ'.q
  BY EngineSteps, OutSteps, SameJobOn DEF RegsOK
<1>2. OutCount' = out'.count
  BY <1>1 DEF OutCount
<1>3. CASE startQ.q
  <2>1. eng.state = "IDLE" /\ Starts
    BY <1>3, NotBad DEF Walk, StartKnown, JobKnown, Starts
  <2>2. out'.count = 0 /\ ~Accepts /\ OutCount = 0
    BY <1>1, <1>3, <2>1 DEF OutStep, Engine!ResetOut, OutCount
  <2>3. QED
    BY <1>2, <2>2
<1>4. CASE ~startQ.q
  <2>1. OutCount = out.count
    BY <1>4 DEF OutCount
  <2>2. ~Accepts => out'.count = out.count
    BY <1>1, <1>4 DEF OutStep, Starts
  <2>3. Accepts => out'.count = out.count + 1
    BY <1>1 DEF OutStep
  <2>4. QED
    BY <1>2, <2>1, <2>2, <2>3
<1>5. QED
  BY <1>3, <1>4

(* A clock of the packer.                                                   *)
Puts == PackIn.valid /\ Pack!InReady(CReady)
Quantized == Pack!Quantize(PackIn.data, Post)
Ends == PackIn.last \/ pack.lane = 3
PackShaped(p) ==
  /\ p = [word |-> p.word, lane |-> p.lane, valid |-> p.valid, last |-> p.last]
  /\ p.valid \in BOOLEAN

PackStep ==
  /\ PackShaped(pack')
  /\ ~Puts => /\ pack'.word = pack.word /\ pack'.lane = pack.lane
              /\ (pack'.valid <=> pack.valid /\ ~CReady)
  /\ Puts =>
       /\ pack'.lane = IF Ends THEN 0 ELSE pack.lane + 1
       /\ (pack'.valid <=> Ends)
       /\ pack'.word = [i \in 0 .. 3 |-> IF i = pack.lane THEN Quantized % 256
                                         ELSE IF i > pack.lane /\ Ends THEN 0
                                         ELSE pack.word[i]]

LEMMA PackSteps ==
  ASSUME Packing, NEW w, Cycle(w)
  PROVE  PackStep
<1>1. pack' = IF Puts THEN Pack!Put(Quantized, PackIn.last) ELSE [pack EXCEPT !.valid = @ /\ ~CReady]
  BY Zenon DEF Cycle, TopClock, Pack!PackClock, Puts, Quantized
<1>2. PackShaped(pack)
  BY DEF Packing, PackShaped
<1>3. CASE ~Puts
  <2> DEFINE rest == CReady
             valid == pack.valid /\ ~rest
             n == pack'
  <2>1. n = [pack EXCEPT !.valid = valid]
    BY <1>1, <1>3
  <2>2. valid \in BOOLEAN
    OBVIOUS
  <2> HIDE DEF valid, n
  <2>3. PackShaped(n) /\ n.word = pack.word /\ n.lane = pack.lane /\ n.valid = valid
    BY <1>2, <2>1, <2>2 DEF PackShaped
  <2>4. QED
    BY <1>3, <2>3, Zenon DEF PackStep, n, valid
<1>4. CASE Puts
  <2> DEFINE word == [i \in 0 .. 3 |-> IF i = pack.lane THEN Quantized % 256
                                       ELSE IF i > pack.lane /\ Ends THEN 0
                                       ELSE pack.word[i]]
             lane == IF Ends THEN 0 ELSE pack.lane + 1
             valid == Ends
             last == PackIn.last
             n == pack'
  <2>1. n = [word |-> word, lane |-> lane, valid |-> valid, last |-> last]
    BY <1>1, <1>4, Zenon DEF Pack!Put, Pack!Emits, Pack!ByteBits, Ends
  <2>2. valid \in BOOLEAN
    BY DEF Ends
  <2> HIDE DEF word, lane, valid, last, n
  <2>3. PackShaped(n) /\ n.word = word /\ n.lane = lane /\ n.valid = valid
    BY <2>1, <2>2 DEF PackShaped
  <2>4. QED
    BY <1>4, <2>3, Zenon DEF PackStep, n, valid, lane, word
<1>5. QED
  BY <1>3, <1>4

(* The packer puts an element exactly when the engine hands one on.         *)
LEMMA PutsAre ==
  ASSUME RegsOK, Walk, Held
  PROVE  /\ Puts => Accepts
         /\ job.given /\ Packed => (Puts <=> Accepts)
         /\ ~(job.given /\ Packed) => ~Puts
<1>1. CASE eng.state = "IDLE"
  BY <1>1 DEF Puts, PackIn, Engine!COutValid, Accepts, Engine!CAccept
<1>2. CASE eng.state # "IDLE"
  <2>1. JobBusy
    BY <1>2, BusyMeans
  <2>2. (Int8 <=> Packed) /\ job.given
    BY <2>1, Int8Held
  <2>3. QED
    BY <2>2 DEF Puts, PackIn, Accepts, Engine!CAccept, RawReady
<1>3. QED
  BY <1>1, <1>2

(* Words and lanes, an element on.                                          *)
LEMMA LanesOn ==
  ASSUME NEW size \in Nat \ {0}, NEW n \in 0 .. size - 1
  PROVE  /\ n \div 4 \in Nat /\ n % 4 \in 0 .. 3 /\ n = 4 * (n \div 4) + (n % 4)
         /\ (size + 3) \div 4 \in Nat /\ n \div 4 < (size + 3) \div 4
         /\ n + 1 = size => (size + 3) \div 4 = n \div 4 + 1
         /\ n % 4 = 3 => (n + 1) \div 4 = n \div 4 + 1 /\ (n + 1) % 4 = 0
         /\ n % 4 # 3 => (n + 1) \div 4 = n \div 4 /\ (n + 1) % 4 = (n % 4) + 1
         /\ \A i \in 0 .. 3 : i <= n % 4 => 4 * (n \div 4) + i < size
         /\ \A i \in 0 .. 3 : n + 1 = size /\ i > n % 4 => ~(4 * (n \div 4) + i < size)
  OBVIOUS

(* The words put together when so many elements have been handed on.        *)
EmittedAt(count) == IF count = Elements THEN ResultWords ELSE count \div 4
PackedAt(p, count) ==
  /\ p.lane = IF count = Elements THEN 0 ELSE count % 4
  /\ \A i \in 0 .. 3 : i < p.lane => p.word[i] = Requantized(4 * (count \div 4) + i) % 256
  /\ p.valid => p.lane = 0 /\ p.word = ResultWord(EmittedAt(count) - 1)

LEMMA PackedOn ==
  ASSUME RegsOK, Walk, OutShaped, Held, Handing, Finished, RowsFinal, Packing, CellsHold,
         JobFits, SumsFit, NEW w, Cycle(w), job.given, Packed, Accepts
  PROVE  PackedAt(pack', OutCount + 1)
<1> DEFINE n == OutCount
           word == n \div 4
           lane == n % 4
<1>1. PackStep /\ Puts
  BY PackSteps, PutsAre
<1>2. /\ ~startQ.q /\ n = out.count /\ n \in 0 .. Elements - 1 /\ PackIn.data = ElementOfC(n)
      /\ n % D["N"] = out.col /\ (PackIn.last <=> n = Elements - 1)
  BY HandsElement DEF Accepts, Engine!CAccept
<1>3. /\ Elements \in Nat \ {0} /\ ResultWords = (Elements + 3) \div 4 /\ JobKnown
  BY ResultSize DEF Walk
<1>4. /\ word \in Nat /\ lane \in 0 .. 3 /\ n = 4 * word + lane
      /\ n + 1 = Elements => ResultWords = word + 1
      /\ lane = 3 => (n + 1) \div 4 = word + 1 /\ (n + 1) % 4 = 0
      /\ lane # 3 => (n + 1) \div 4 = word /\ (n + 1) % 4 = lane + 1
      /\ \A i \in 0 .. 3 : i <= lane => 4 * word + i < Elements
      /\ \A i \in 0 .. 3 : n + 1 = Elements /\ i > lane => ~(4 * word + i < Elements)
  <2> HIDE DEF n
  <2>1. QED
    BY <1>2, <1>3, LanesOn
<1>5. Quantized = Requantized(n)
  <2>1. JobBusy
    <3>1. eng.state # "IDLE"
      BY DEF Accepts, Engine!CAccept, Engine!COutValid
    <3>2. QED
      BY <3>1, BusyMeans
  <2>2. desc.cfg = D /\ bias = job.bias
    BY <2>1, Int8Held
  <2>3. outCol = n % D["N"]
    BY <1>2 DEF Handing
  <2>4. Pack!Quantize(ElementOfC(n), Post) = Requantized(n)
    BY <1>2, <1>3, <2>2, <2>3, Requantizes
  <2>5. QED
    BY <1>2, <2>4, Zenon DEF Quantized
<1>6. /\ pack.lane = lane
      /\ \A i \in 0 .. 3 : i < lane => pack.word[i] = Requantized(4 * word + i) % 256
  <2>1. n # Elements
    BY <1>2, <1>3
  <2>2. QED
    BY <2>1, Zenon DEF Packing
<1>7. Ends <=> (n + 1 = Elements \/ lane = 3)
  BY <1>2, <1>3, <1>6 DEF Ends
<1>8. /\ pack'.lane = IF Ends THEN 0 ELSE lane + 1
      /\ (pack'.valid <=> Ends)
      /\ pack'.word = [i \in 0 .. 3 |-> IF i = lane THEN Requantized(n) % 256
                                        ELSE IF i > lane /\ Ends THEN 0 ELSE pack.word[i]]
  <2> DEFINE p == pack'.word
             a == [i \in 0 .. 3 |-> IF i = pack.lane THEN Quantized % 256
                                   ELSE IF i > pack.lane /\ Ends THEN 0 ELSE pack.word[i]]
             b == [i \in 0 .. 3 |-> IF i = lane THEN Requantized(n) % 256
                                   ELSE IF i > lane /\ Ends THEN 0 ELSE pack.word[i]]
  <2>1. p = a /\ pack'.lane = (IF Ends THEN 0 ELSE pack.lane + 1) /\ (pack'.valid <=> Ends)
    BY <1>1, Zenon DEF PackStep
  <2>2. pack.lane = lane
    BY <1>6
  <2>3. a = b
    <3> HIDE DEF n, lane
    <3>1. QED
      BY <1>5, <2>2, Zenon
  <2> HIDE DEF p, a, lane
  <2>4. p = b /\ pack'.lane = (IF Ends THEN 0 ELSE lane + 1) /\ (pack'.valid <=> Ends)
    <3> HIDE DEF b
    <3>1. QED
      BY <2>1, <2>2, <2>3
  <2>5. QED
    BY <2>4, Zenon DEF p
<1> DEFINE number(i) == 4 * word + i
<1>9. \A i \in 0 .. 3 : i <= lane => pack'.word[i] = Requantized(number(i)) % 256
  <2> SUFFICES ASSUME NEW i \in 0 .. 3, i <= lane
               PROVE  pack'.word[i] = Requantized(number(i)) % 256
    OBVIOUS
  <2>1. CASE i = lane
    <3>1. n = number(i)
      BY <1>4, <2>1
    <3>2. pack'.word[i] = Requantized(n) % 256
      <4> DEFINE byte == Requantized(n) % 256
      <4> HIDE DEF byte, n, lane
      <4>1. QED
        BY <1>8, <2>1 DEF byte
    <3> HIDE DEF n, number
    <3>3. QED
      BY <3>1, <3>2, Zenon
  <2>2. CASE i # lane
    <3>1. i < lane /\ ~(i > lane)
      BY <1>4, <2>2
    <3>2. pack'.word[i] = pack.word[i]
      <4> DEFINE byte == Requantized(n) % 256
      <4> HIDE DEF byte, lane
      <4>1. QED
        BY <1>8, <2>2, <3>1 DEF byte
    <3>3. QED
      BY <1>6, <3>1, <3>2, Zenon
  <2>3. QED
    BY <2>1, <2>2
<1>10. CASE Ends
  <2>1. pack'.lane = 0 /\ pack'.valid
    BY <1>8, <1>10
  <2>2. (n + 1) = Elements => EmittedAt(n + 1) = word + 1
    BY <1>4 DEF EmittedAt
  <2>3. (n + 1) # Elements => EmittedAt(n + 1) = word + 1 /\ (n + 1) % 4 = 0
    BY <1>4, <1>7, <1>10 DEF EmittedAt
  <2>4. EmittedAt(n + 1) - 1 = word
    <3>1. EmittedAt(n + 1) = word + 1
      BY <2>2, <2>3
    <3> DEFINE e == EmittedAt(n + 1)
    <3> HIDE DEF e, word
    <3>2. QED
      BY <1>4, <3>1 DEF e
  <2>5. pack'.word = ResultWord(word)
    <3> DEFINE byte(i) == IF 4 * word + i < Elements THEN Requantized(number(i)) % 256 ELSE 0
    <3>1. ASSUME NEW i \in 0 .. 3
          PROVE  pack'.word[i] = byte(i)
      <4>1. CASE i <= lane
        <5>1. 4 * word + i < Elements
          BY <1>4, <4>1
        <5>2. byte(i) = Requantized(number(i)) % 256
          BY <5>1, Zenon
        <5>3. QED
          BY <1>9, <4>1, <5>2, Zenon
      <4>2. CASE ~(i <= lane)
        <5>1. i > lane /\ i # lane /\ lane # 3
          BY <1>4, <4>2
        <5>2. ~(4 * word + i < Elements)
          BY <1>4, <1>7, <1>10, <5>1
        <5>3. byte(i) = 0
          BY <5>2, Zenon
        <5>4. pack'.word[i] = 0
          <6> DEFINE b == Requantized(n) % 256
          <6> HIDE DEF b, lane
          <6>1. QED
            BY <1>8, <1>10, <5>1 DEF b
        <5>5. QED
          BY <5>3, <5>4
      <4>3. QED
        BY <4>1, <4>2
    <3>2. ResultWord(word) = [i \in 0 .. 3 |-> byte(i)]
      BY Zenon DEF ResultWord
    <3> DEFINE f == pack'.word
    <3>3. f = [i \in 0 .. 3 |-> f[i]]
      <4> DEFINE b == Requantized(n) % 256
                 g(i) == IF i = lane THEN b ELSE IF i > lane /\ Ends THEN 0 ELSE pack.word[i]
      <4>1. f = [i \in 0 .. 3 |-> g(i)]
        BY <1>8, Zenon
      <4> HIDE DEF g, f
      <4>2. QED
        BY <4>1
    <3> HIDE DEF byte, f
    <3>4. \A i \in 0 .. 3 : f[i] = byte(i)
      BY <3>1 DEF f
    <3>5. f = ResultWord(word)
      BY <3>2, <3>3, <3>4
    <3>6. QED
      BY <3>5 DEF f
  <2>6. pack'.lane = IF n + 1 = Elements THEN 0 ELSE (n + 1) % 4
    BY <2>1, <2>3
  <2>7. \A i \in 0 .. 3 : i < pack'.lane => pack'.word[i] = Requantized(4 * ((n + 1) \div 4) + i) % 256
    BY <2>1
  <2>8. pack'.word = ResultWord(EmittedAt(n + 1) - 1)
    BY <2>4, <2>5, Zenon
  <2>9. QED
    BY <2>1, <2>6, <2>7, <2>8, Zenon DEF PackedAt
<1>11. CASE ~Ends
  <2>1. ~pack'.valid /\ pack'.lane = lane + 1 /\ n + 1 # Elements /\ lane # 3
    BY <1>7, <1>8, <1>11
  <2>2. (n + 1) \div 4 = word /\ (n + 1) % 4 = lane + 1
    BY <1>4, <2>1
  <2>3. pack'.lane = IF n + 1 = Elements THEN 0 ELSE (n + 1) % 4
    BY <2>1, <2>2
  <2>4. ASSUME NEW i \in 0 .. 3, i < pack'.lane
        PROVE  pack'.word[i] = Requantized(4 * ((n + 1) \div 4) + i) % 256
    <3>1. i <= lane
      BY <1>4, <2>1, <2>4
    <3>2. pack'.word[i] = Requantized(number(i)) % 256
      BY <1>9, <3>1
    <3>3. QED
      BY <2>2, <3>2, Zenon
  <2>5. QED
    BY <2>1, <2>3, <2>4, Zenon DEF PackedAt
<1>12. QED
  BY <1>10, <1>11

(* When the C mover rests, the job on hand is over.                         *)
LEMMA JobOver ==
  ASSUME RegsOK, Walk, Handing, Packing, Sending, job.given, cwr.state = "IDLE"
  PROVE  OutCount = Elements /\ Sent = ResultWords /\ ~pack.valid /\ pack.lane = 0
<1>1. /\ Elements \in Nat \ {0} /\ ResultWords \in Nat \ {0} /\ OutCount \in 0 .. Elements
      /\ (Packed => ResultWords = (Elements + 3) \div 4) /\ (~Packed => ResultWords = Elements)
  BY ResultSize DEF Walk, Handing
<1>2. Sent = ResultWords /\ Sent = Given
  BY DEF Sent, Sending
<1>3. CASE ~Packed
  BY <1>1, <1>2, <1>3 DEF Given, Packing
<1>4. CASE Packed
  <2>1. Emitted - Port!Bit(pack.valid) = ResultWords /\ pack.valid \in BOOLEAN
    BY <1>2, <1>4 DEF Given, Packing
  <2>2. OutCount = Elements
    <3>1. ASSUME OutCount # Elements
          PROVE  FALSE
      <4>1. OutCount \in 0 .. Elements - 1
        BY <1>1, <3>1
      <4>2. OutCount \div 4 \in Nat /\ OutCount \div 4 < ResultWords
        BY <1>1, <1>4, <4>1, LanesOn
      <4>3. Emitted = OutCount \div 4
        BY <3>1 DEF Emitted
      <4>4. Port!Bit(pack.valid) \in {0, 1}
        BY DEF Port!Bit
      <4>5. QED
        BY <1>1, <2>1, <4>2, <4>3, <4>4
    <3>2. QED
      BY <3>1
  <2>3. Port!Bit(pack.valid) = 0
    <3>1. Emitted = ResultWords
      BY <2>2 DEF Emitted
    <3>2. Port!Bit(pack.valid) \in {0, 1}
      BY DEF Port!Bit
    <3>3. QED
      BY <1>1, <2>1, <3>1, <3>2
  <2>4. QED
    BY <1>2, <1>4, <2>2, <2>3 DEF Packing, Port!Bit
<1>5. QED
  BY <1>3, <1>4

LEMMA PackingStep ==
  ASSUME RegsOK, Walk, OutShaped, Held, Handing, Finished, RowsFinal, Packing, Sending, CellsHold,
         JobFits, SumsFit, NEW w, Cycle(w)
  PROVE  Packing'
<1>1. PackStep /\ PackShaped(pack')
  BY PackSteps DEF PackStep
<1>2. CASE JobStart(w)
  <2>1. cwr.state = "IDLE" /\ eng.state = "IDLE"
    BY <1>2, StartLegal, BusyMeans
  <2>2. ~pack.valid /\ pack.lane = 0
    BY <2>1, JobOver DEF Packing
  <2>3. ~Puts
    BY <2>1 DEF Puts, PackIn, Engine!COutValid
  <2>4. ~pack'.valid /\ pack'.lane = 0
    BY <1>1, <2>2, <2>3 DEF PackStep
  <2>5. OutCount' = 0
    <3>1. startQ' = [q |-> TRUE, d |-> ConfigDims(desc.cfg)]
      BY <1>2, StartSteps, Zenon DEF StartStep
    <3>2. QED
      BY <3>1 DEF OutCount
  <2>6. \A i \in 0 .. 3 : ~(i < 0)
    OBVIOUS
  <2>7. pack'.lane = IF OutCount' = Elements' THEN 0 ELSE OutCount' % 4
    <3>1. 0 % 4 = 0
      OBVIOUS
    <3>2. QED
      BY <2>4, <2>5, <3>1
  <2>8. QED
    BY <1>1, <2>4, <2>6, <2>7, Zenon DEF Packing, PackShaped
<1>3. CASE ~JobStart(w) /\ ~(job.given /\ Packed)
  <2>1. job'.given = job.given /\ Packed' = Packed
    BY <1>3, SameJobOn, OwedSame
  <2>2. ~Puts /\ ~pack.valid /\ pack.lane = 0
    BY <1>3, PutsAre DEF Packing
  <2>3. ~pack'.valid /\ pack'.lane = 0
    BY <1>1, <2>2 DEF PackStep
  <2>4. QED
    BY <1>1, <1>3, <2>1, <2>3, Zenon DEF Packing, PackShaped
<1>4. CASE ~JobStart(w) /\ job.given /\ Packed
  <2>1. /\ job'.given = job.given /\ Packed' = Packed /\ Elements' = Elements
        /\ ResultWords' = ResultWords
        /\ \A i : Requantized(i)' = Requantized(i)
        /\ \A x : ResultWord(x)' = ResultWord(x)
    BY <1>4, SameJobOn, OwedSame
  <2>2. PackedAt(pack', OutCount')
    <3>1. CASE Accepts
      BY <1>4, <3>1, PackedOn, CountOn, Zenon
    <3>2. CASE ~Accepts
      <4>1. OutCount' = OutCount /\ ~Puts
        BY <1>4, <3>2, CountOn, PutsAre
      <4>2. pack'.word = pack.word /\ pack'.lane = pack.lane /\ (pack'.valid => pack.valid)
        BY <1>1, <4>1 DEF PackStep
      <4>3. PackedAt(pack, OutCount)
        BY <1>4, Zenon DEF Packing, PackedAt, EmittedAt, Emitted
      <4>4. QED
        BY <4>1, <4>2, <4>3, Zenon DEF PackedAt, EmittedAt
    <3>3. QED
      BY <3>1, <3>2
  <2>3. EmittedAt(OutCount') = Emitted'
    BY <2>1, Zenon DEF EmittedAt, Emitted
  <2>4. /\ pack'.lane = IF OutCount' = Elements' THEN 0 ELSE OutCount' % 4
        /\ \A i \in 0 .. 3 :
             i < pack'.lane => pack'.word[i] = Requantized(4 * (OutCount \div 4) + i)' % 256
        /\ pack'.valid => pack'.lane = 0 /\ pack'.word = ResultWord(Emitted - 1)'
    BY <2>1, <2>2, <2>3, Zenon DEF PackedAt
  <2>5. QED
    BY <1>1, <1>4, <2>1, <2>4, Zenon DEF Packing, PackShaped
<1>5. QED
  BY <1>2, <1>3, <1>4

-----------------------------------------------------------------------------
(* The words sent.                                                          *)
Sends == CReady /\ CValid

LEMMA SendsAre ==
  ASSUME Walk, Held
  PROVE  /\ CReady => JobBusy /\ job.given /\ cwr.state = "W" /\ wp.state = "DATA" /\ (Int8 <=> Packed)
         /\ job.given /\ Packed => (Sends <=> CReady /\ pack.valid)
         /\ job.given /\ ~Packed => (Sends <=> Accepts)
<1>1. CReady => JobBusy /\ job.given /\ cwr.state = "W" /\ wp.state = "DATA" /\ (Int8 <=> Packed)
  <2>1. CReady => cwr.state = "W" /\ wp.state = "DATA"
    BY DEF CReady, C!SReady, Port!WReady
  <2>2. CReady => JobBusy
    BY <2>1, BusyMeans
  <2>3. QED
    BY <2>1, <2>2, Int8Held
<1>2. Accepts => JobBusy
  <2>1. Accepts => eng.state # "IDLE"
    BY DEF Accepts, Engine!CAccept, Engine!COutValid
  <2>2. QED
    BY <2>1, BusyMeans
<1>3. Accepts => (Int8 <=> Packed)
  BY <1>2, Int8Held
<1>4. job.given /\ Packed => (Sends <=> CReady /\ pack.valid)
  BY <1>1 DEF Sends, CValid
<1>5. job.given /\ ~Packed => (Sends <=> Accepts)
  BY <1>1, <1>3 DEF Sends, CValid, Accepts, Engine!CAccept, RawReady
<1>6. QED
  BY <1>1, <1>4, <1>5

LEMMA EmittedOn ==
  ASSUME RegsOK, Walk, OutShaped, Handing, Finished, RowsFinal, Packing,
         job.given, Packed, Accepts
  PROVE  EmittedAt(OutCount + 1) = Emitted + Port!Bit(Ends)
<1> DEFINE n == OutCount
           word == n \div 4
           lane == n % 4
<1>1. n \in 0 .. Elements - 1 /\ (PackIn.last <=> n = Elements - 1)
  BY HandsElement DEF Accepts, Engine!CAccept
<1>2. Elements \in Nat \ {0} /\ ResultWords = (Elements + 3) \div 4
  BY ResultSize DEF Walk
<1>3. /\ word \in Nat
      /\ n + 1 = Elements => ResultWords = word + 1
      /\ lane = 3 => (n + 1) \div 4 = word + 1
      /\ lane # 3 => (n + 1) \div 4 = word
  <2> HIDE DEF n
  <2>1. QED
    BY <1>1, <1>2, LanesOn
<1>4. n # Elements /\ (n = Elements - 1 <=> n + 1 = Elements)
  BY <1>1, <1>2
<1>5. pack.lane = lane
  BY <1>4 DEF Packing
<1>6. Ends <=> n + 1 = Elements \/ lane = 3
  BY <1>1, <1>4, <1>5 DEF Ends
<1>7. Emitted = word
  BY <1>4 DEF Emitted
<1>8. EmittedAt(n + 1) = IF Ends THEN word + 1 ELSE word
  BY <1>3, <1>6 DEF EmittedAt
<1>9. QED
  <2> DEFINE e == EmittedAt(n + 1)
  <2> HIDE DEF e, word
  <2>1. e = word + Port!Bit(Ends)
    BY <1>3, <1>8 DEF e, Port!Bit
  <2>2. QED
    BY <1>7, <2>1 DEF e

(* A word is sent from the packer, or an element straight from the engine.  *)
LEMMA GivenOn ==
  ASSUME RegsOK, Walk, OutShaped, Held, Handing, Finished, RowsFinal, Packing, NEW w, Cycle(w),
         job.given, ~JobStart(w)
  PROVE  Given \in Int /\ Given' = Given + Port!Bit(Sends)
<1>1. PackStep /\ PackShaped(pack') /\ pack.valid \in BOOLEAN
  BY PackSteps DEF PackStep, Packing
<1>2. /\ Packed' = Packed /\ Elements' = Elements /\ ResultWords' = ResultWords
      /\ Elements \in Nat /\ ResultWords \in Nat /\ OutCount \in 0 .. Elements
  BY SameJobOn, OwedSame, ResultSize DEF Walk, Handing
<1>3. /\ Accepts => OutCount' = OutCount + 1
      /\ ~Accepts => OutCount' = OutCount
  BY CountOn
<1>4. CASE ~Packed
  <2>1. Given = OutCount /\ Given' = OutCount'
    BY <1>2, <1>4 DEF Given
  <2>2. Sends <=> Accepts
    BY <1>4, SendsAre
  <2>3. QED
    BY <1>2, <1>3, <2>1, <2>2 DEF Port!Bit
<1>5. CASE Packed
  <2>1. Given = Emitted - Port!Bit(pack.valid) /\ Given' = Emitted' - Port!Bit(pack'.valid)
    BY <1>2, <1>5 DEF Given, Port!Bit
  <2>2. (Puts <=> Accepts) /\ (Sends <=> CReady /\ pack.valid)
    BY <1>5, PutsAre, SendsAre
  <2>3. Emitted' = EmittedAt(OutCount') /\ Emitted = EmittedAt(OutCount)
    BY <1>2, Zenon DEF EmittedAt, Emitted
  <2>4. Emitted \in Int
    BY <1>2 DEF Emitted
  <2>5. CASE Puts
    <3>1. Emitted' = Emitted + Port!Bit(Ends)
      BY <1>3, <1>5, <2>2, <2>3, <2>5, EmittedOn, Zenon
    <3>2. pack'.valid <=> Ends
      BY <1>1, <2>5 DEF PackStep
    <3>3. pack.valid => CReady
      BY <2>5 DEF Puts, Pack!InReady
    <3>4. QED
      BY <1>1, <2>1, <2>2, <2>4, <3>1, <3>2, <3>3 DEF Port!Bit, Ends
  <2>6. CASE ~Puts
    <3>1. Emitted' = Emitted
      BY <1>3, <2>2, <2>3, <2>6, Zenon
    <3>2. pack'.valid <=> pack.valid /\ ~CReady
      BY <1>1, <2>6 DEF PackStep
    <3>3. QED
      BY <1>1, <2>1, <2>2, <2>4, <3>1, <3>2 DEF Port!Bit
  <2>7. QED
    BY <2>5, <2>6
<1>6. QED
  BY <1>4, <1>5

(* What is sent is the next word of the result.                             *)
LEMMA SendsWord ==
  ASSUME RegsOK, Walk, OutShaped, Held, Handing, Finished, RowsFinal, Packing, Sending, Sends
  PROVE  WriteBeat.data = ResultWord(Sent)
<1>1. CReady /\ CValid
  BY DEF Sends
<1>2. job.given /\ (Int8 <=> Packed) /\ cwr.state = "W"
  BY <1>1, SendsAre
<1>3. Sent = Given
  BY <1>2 DEF Sending
<1>4. CASE Packed
  <2>1. pack.valid /\ CData = pack.word
    BY <1>1, <1>2, <1>4 DEF CValid, CData
  <2>2. pack.word = ResultWord(Emitted - 1)
    BY <1>2, <1>4, <2>1 DEF Packing
  <2>3. Given = Emitted - 1
    BY <1>4, <2>1 DEF Given, Port!Bit
  <2>4. QED
    BY <1>3, <2>1, <2>2, <2>3, Zenon DEF WriteBeat
<1>5. CASE ~Packed
  <2>1. Engine!COutValid /\ CData = BytesOf(PackIn.data)
    BY <1>1, <1>2, <1>5 DEF CValid, CData
  <2>2. PackIn.data = ElementOfC(OutCount)
    BY <2>1, HandsElement
  <2>3. Given = OutCount
    BY <1>5 DEF Given
  <2>4. BytesOf(ElementOfC(OutCount)) = ResultWord(OutCount)
    BY <1>5, Zenon DEF BytesOf, Pack!ByteBits, ResultWord
  <2>5. QED
    BY <1>3, <2>1, <2>2, <2>3, <2>4, Zenon DEF WriteBeat
<1>6. QED
  BY <1>4, <1>5

(* The write mover and the words it has sent, a clock on.                   *)
SentAt(o) ==
  CASE o.state = "IDLE" -> ResultWords
    [] o.state = "AW" -> ResultWords - o.remaining
    [] o.state = "W" -> ResultWords - o.remaining + o.burst - o.beats
    [] o.state = "B" -> ResultWords - o.remaining + o.burst
MoverAt(o) ==
  o.state # "IDLE" =>
    o.remaining \in 1 .. ResultWords /\ o.addr = Base + First + ResultWords - o.remaining

LEMMA MoverOn ==
  ASSUME RegsOK, JobKnown, JobFits, job.given, NEW o \in WriteRegs, NEW n \in WriteRegs,
         MoverAt(o), NEW base, NEW words, NEW grant, NEW fire, NEW answered,
         WriterStep(o, n, FALSE, base, words, grant, fire, answered),
         o.state \in {"W", "B"} => o.burst \in 1 .. o.remaining
  PROVE  /\ MoverAt(n) /\ SentAt(o) \in Int
         /\ SentAt(n) = SentAt(o) + Port!Bit(o.state = "W" /\ fire)
<1>1. ResultWords \in Nat \ {0} /\ First \in Int /\ First >= 0 /\ First + ResultWords <= Depth
  BY ResultSize
<1>2. /\ o.state \in {"IDLE", "AW", "W", "B"} /\ n.state \in {"IDLE", "AW", "W", "B"}
      /\ o.addr \in Int /\ o.remaining \in Int /\ o.burst \in Int /\ o.beats \in Int
      /\ n.addr \in Int /\ n.remaining \in Int /\ n.burst \in Int /\ n.beats \in Int
  BY DEF WriteRegs
<1>3. SentAt(o) \in Int
  BY <1>1, <1>2 DEF SentAt
<1>4. CASE o.state = "IDLE"
  <2>1. n.state = "IDLE"
    BY <1>4 DEF WriterStep
  <2>2. QED
    BY <1>1, <1>3, <1>4, <2>1 DEF SentAt, MoverAt, Port!Bit
<1>5. CASE o.state = "AW"
  <2>1. \/ n.state = "AW" /\ SameWork(o, n)
        \/ n.state = "W" /\ SameWork(o, n) /\ n.burst = BurstOf(o) /\ n.beats = BurstOf(o)
    BY <1>5 DEF WriterStep
  <2>2. n.remaining = o.remaining /\ n.addr = o.addr /\ (n.state = "W" => n.burst = n.beats)
    BY <2>1 DEF SameWork
  <2>3. MoverAt(n)
    BY <1>5, <2>1, <2>2 DEF MoverAt
  <2>4. SentAt(n) = SentAt(o)
    BY <1>1, <1>2, <1>5, <2>1, <2>2 DEF SentAt
  <2>5. QED
    BY <1>3, <1>5, <2>3, <2>4 DEF Port!Bit
<1>6. CASE o.state = "W"
  <2>1. /\ SameWork(o, n) /\ n.burst = o.burst
        /\ ~fire => n.state = "W" /\ n.beats = o.beats
        /\ fire /\ o.beats # 1 => n.state = "W" /\ n.beats = o.beats - 1
        /\ fire /\ o.beats = 1 => n.state = "B"
    BY <1>6 DEF WriterStep
  <2>2. n.remaining = o.remaining /\ n.addr = o.addr
    BY <2>1 DEF SameWork
  <2>3. MoverAt(n)
    BY <1>6, <2>2 DEF MoverAt
  <2>4. SentAt(n) = SentAt(o) + IF fire THEN 1 ELSE 0
    BY <1>1, <1>2, <1>6, <2>1, <2>2 DEF SentAt
  <2>5. QED
    BY <1>3, <1>6, <2>3, <2>4 DEF Port!Bit
<1>7. CASE o.state = "B"
  <2>1. /\ ~answered => n.state = "B" /\ SameWork(o, n) /\ n.burst = o.burst
        /\ answered /\ o.remaining # o.burst =>
             /\ n.state = "AW" /\ n.remaining = o.remaining - o.burst
             /\ n.addr = (o.addr + o.burst) % AddrWords
        /\ answered /\ o.remaining = o.burst => n.state = "IDLE"
    BY <1>7 DEF WriterStep
  <2>2. /\ o.remaining \in 1 .. ResultWords /\ o.addr = Base + First + ResultWords - o.remaining
        /\ o.burst \in 1 .. o.remaining
    BY <1>7 DEF MoverAt
  <2>3. o.remaining # o.burst => (o.addr + o.burst) % AddrWords = o.addr + o.burst
    <3>1. o.remaining # o.burst => o.addr + o.burst \in 0 .. AddrWords - 1
      BY <1>1, <1>2, <2>2, Constants
    <3>2. QED
      BY <3>1, ModuloSmall, Constants
  <2>4. MoverAt(n)
    <3>1. CASE n.state = "IDLE"
      BY <3>1 DEF MoverAt
    <3>2. CASE answered /\ o.remaining # o.burst
      <4>1. n.remaining = o.remaining - o.burst /\ n.addr = o.addr + o.burst
        BY <2>1, <2>3, <3>2
      <4>2. QED
        BY <1>1, <1>2, <2>2, <3>2, <4>1, Constants DEF MoverAt
    <3>3. CASE ~answered
      BY <2>1, <2>2, <3>3 DEF MoverAt, SameWork
    <3>4. QED
      BY <2>1, <3>1, <3>2, <3>3
  <2>5. SentAt(n) = SentAt(o)
    BY <1>1, <1>2, <1>7, <2>1, <2>2 DEF SentAt, SameWork
  <2>6. QED
    BY <1>3, <1>7, <2>4, <2>5 DEF Port!Bit
<1>8. QED
  BY <1>2, <1>4, <1>5, <1>6, <1>7

-----------------------------------------------------------------------------
(* The port's side of it: a word sent goes to the next cell of the result.  *)
LEMMA CountsSent ==
  Sent = SentAt(cwr) /\ (ResultWords' = ResultWords => Sent' = SentAt(cwr'))
  BY Zenon DEF Sent, SentAt

LEMMA WritesNext ==
  ASSUME RegsOK, Walk, MoversOK, Operands, Held, Sending, JobFits, NEW w, Cycle(w)
  PROVE  /\ ~Sends => ram' = ram
         /\ Sends => /\ job.given /\ ~JobStart(w) /\ JobBusy /\ cwr.state = "W"
                     /\ Sent \in 0 .. ResultWords - 1 /\ First \in Int
                     /\ First + Sent \in 0 .. Depth - 1
                     /\ ram' = [ram EXCEPT ![First + Sent] = WriteBeat.data]
<1>1. Port!Memory(WriteBeat) /\ WriterServed
  BY Zenon DEF Cycle, TopClock, Port!Clock, Operands
<1>2. CASE ~Sends
  <2>1. ~Port!WFire(WriteBeat)
    BY <1>2 DEF Port!WFire, WriteBeat, C!WValid, Sends, CReady, C!SReady, Port!WReady
  <2>2. QED
    BY <1>1, <1>2, <2>1, Zenon DEF Port!Memory, Port!WriteEnable
<1>3. CASE Sends
  <2>1. CReady /\ CValid
    BY <1>3 DEF Sends
  <2>2. JobBusy /\ job.given /\ cwr.state = "W" /\ wp.state = "DATA"
    BY <2>1, SendsAre
  <2>3. ~JobStart(w)
    BY <2>2, StartLegal
  <2>4. wp.word = First + Sent /\ ~wp.err /\ cwr.remaining \in 1 .. ResultWords
    BY <2>2 DEF Sending
  <2>5. WriteBeat.valid
    BY <2>1, <2>2 DEF WriteBeat, C!WValid
  <2>6. ram' = [ram EXCEPT ![First + Sent] = WriteBeat.data]
    <3>1. Port!WriteEnable(WriteBeat) /\ Port!MemAddr = wp.word
      BY <2>2, <2>4, <2>5 DEF Port!WriteEnable, Port!WFire, Port!MemAddr
    <3>2. QED
      BY <1>1, <2>4, <3>1, Zenon DEF Port!Memory
  <2>7. /\ ResultWords \in Nat \ {0} /\ First \in Int /\ First >= 0 /\ First + ResultWords <= Depth
    BY <2>2, ResultSize DEF Walk
  <2>8. Sent \in 0 .. ResultWords - 1
    <3>1. cwr.burst \in 1 .. cwr.remaining /\ cwr.beats \in 1 .. cwr.burst
      BY <1>1, <2>2 DEF WriterServed
    <3>2. Sent = ResultWords - cwr.remaining + cwr.burst - cwr.beats
      BY <2>2 DEF Sent
    <3>3. QED
      BY <2>4, <2>7, <3>1, <3>2
  <2>9. First + Sent \in 0 .. Depth - 1
    BY <2>7, <2>8, Constants
  <2>10. QED
    BY <1>3, <2>2, <2>3, <2>6, <2>7, <2>8, <2>9
<1>4. QED
  BY <1>2, <1>3

(* The write mover in a cycle that starts no job.                           *)
LEMMA MoverSends ==
  ASSUME RegsOK, Walk, MoversOK, Operands, Held, Sending, JobFits, NEW w, Cycle(w),
         job.given, ~JobStart(w)
  PROVE  /\ MoverAt(cwr) /\ MoverAt(cwr')
         /\ Sent \in Int /\ SentAt(cwr') = Sent + Port!Bit(Sends)
<1> DEFINE base == desc.cfg["C_BASE"] \div 4
           words == Shell!CWords
           start == JobStart(w)
           grant == Port!CReady(ARequest, BRequest, CRequest)
           fire == CValid /\ Port!WReady
           answered == Port!BValid
<1>1. cwr \in WriteRegs /\ CClock(w) /\ WriterServed /\ JobKnown
  BY DEF MoversOK, Cycle, TopClock, Operands, Walk
<1>2. base \in Int /\ words \in Int
  BY DescWords
<1>3. cwr' \in WriteRegs /\ WriterStep(cwr, cwr', start, base, words, grant, fire, answered)
  <2>1. base = desc.cfg["C_BASE"] \div 4 /\ words = Shell!CWords
    OBVIOUS
  <2> HIDE DEF base, words
  <2>2. QED
    BY <1>1, <1>2, <2>1, CStep, Zenon
<1>4. WriterStep(cwr, cwr', FALSE, base, words, grant, fire, answered)
  <2>1. ~start
    OBVIOUS
  <2> HIDE DEF start, base, words, grant, fire, answered
  <2>2. QED
    BY <1>3, <2>1, Zenon DEF WriterStep
<1>5. cwr.state \in {"W", "B"} => cwr.burst \in 1 .. cwr.remaining
  BY <1>1 DEF WriterServed
<1>6. MoverAt(cwr)
  BY DEF Sending, MoverAt
<1>7. cwr.state = "W" /\ fire <=> Sends
  <2>1. cwr.state = "W" => wp.state = "DATA"
    BY <1>1 DEF WriterServed
  <2>2. QED
    BY <2>1 DEF Sends, CReady, C!SReady, Port!WReady
<1> DEFINE fires == cwr.state = "W" /\ fire
<1>8. MoverAt(cwr') /\ SentAt(cwr) \in Int /\ SentAt(cwr') = SentAt(cwr) + Port!Bit(fires)
  <2> DEFINE n == cwr'
  <2>1. n \in WriteRegs /\ WriterStep(cwr, n, FALSE, base, words, grant, fire, answered)
    BY <1>3, <1>4
  <2> HIDE DEF n, base, words, grant, fire, answered
  <2>2. MoverAt(n) /\ SentAt(cwr) \in Int /\ SentAt(n) = SentAt(cwr) + Port!Bit(cwr.state = "W" /\ fire)
    BY <1>1, <1>5, <1>6, <2>1, MoverOn, Zenon
  <2>3. QED
    BY <2>2 DEF n
<1>9. Port!Bit(fires) = Port!Bit(Sends)
  BY <1>7, Zenon DEF Port!Bit
<1>10. Sent = SentAt(cwr)
  BY CountsSent
<1> HIDE DEF fires
<1>11. QED
  BY <1>6, <1>8, <1>9, <1>10, Zenon

LEMMA WordNext ==
  ASSUME RegsOK, Walk, MoversOK, Operands, Held, Sending, JobFits, NEW w, Cycle(w),
         job.given, ~JobStart(w), wp'.state = "DATA"
  PROVE  wp'.word = First + SentAt(cwr') /\ ~wp'.err
<1> DEFINE burst == BurstOf(cwr)
           next == SentAt(cwr')
<1>1. /\ cwr \in WriteRegs /\ wp \in WpRegs /\ WriterServed
      /\ Port!WriteSide(ARequest, BRequest, CRequest, WriteBeat, C!BReady)
  BY Zenon DEF MoversOK, Operands, PortTyped, WpRegs, Cycle, TopClock, Port!Clock
<1>2. C!NextBurst = burst /\ burst \in Int /\ cwr.addr \in Int /\ cwr.remaining \in Int
  <2>1. cwr.addr \in Int /\ cwr.remaining \in Int
    BY <1>1 DEF WriteRegs
  <2>2. C!NextBurst = burst
    BY DEF C!NextBurst, C!BeatsToPageEnd, BurstOf
  <2>3. QED
    BY <1>1, <2>1, <2>2, BurstTyped
<1>3. /\ CRequest.valid = (cwr.state = "AW") /\ CRequest.addr = cwr.addr /\ CRequest.plain
      /\ CRequest.len = burst - 1 /\ WriteBeat.valid = (cwr.state = "W" /\ CValid)
      /\ WriteBeat.last = (cwr.state = "W" /\ cwr.beats = 1)
  BY <1>2 DEF CRequest, ReadRequest, C!AwValid, WriteBeat, C!WValid, C!WLast
<1>4. WpStep(ARequest, BRequest, CRequest, WriteBeat, C!BReady)
  <2>1. CRequest.addr \in Int /\ CRequest.len \in Int
    BY <1>2, <1>3
  <2>2. QED
    BY <1>1, <2>1, WpSteps, Zenon
<1>5. /\ MoverAt(cwr) /\ Sent \in Int /\ next = Sent + Port!Bit(Sends) /\ Sent = SentAt(cwr)
  BY MoverSends, CountsSent
<1>6. ResultWords \in Nat \ {0} /\ First \in Int /\ First >= 0 /\ First + ResultWords <= Depth
  BY ResultSize DEF Walk
<1>7. Depth \in Nat \ {0} /\ Base \in Nat
  BY Constants
<1> HIDE DEF burst, next
<1>8. CASE wp.state = "IDLE"
  <2>1. Port!StartWrite(ARequest, BRequest, CRequest)
    BY <1>4, <1>8 DEF WpStep
  <2>2. cwr.state = "AW"
    BY <1>3, <2>1 DEF Port!StartWrite
  <2>3. cwr.remaining \in 1 .. ResultWords /\ cwr.addr = Base + First + ResultWords - cwr.remaining
    BY <1>5, <2>2 DEF MoverAt
  <2>4. Sent = ResultWords - cwr.remaining /\ next = Sent
    <3>1. ~Sends
      BY <2>2 DEF Sends, CReady, C!SReady
    <3>2. QED
      BY <1>5, <2>2, <3>1 DEF SentAt, Port!Bit
  <2>5. burst \in 1 .. cwr.remaining
    BY <1>2, <2>3, BurstBounds DEF burst
  <2>6. wp'.word = (cwr.addr - Base) % Depth /\ (wp'.err <=> ~Port!Acceptable(CRequest))
    BY <1>3, <1>4, <1>8, <2>1 DEF WpStep
  <2>7. cwr.addr - Base = First + Sent /\ First + Sent \in 0 .. Depth - 1
    BY <1>2, <1>6, <1>7, <2>3, <2>4
  <2>8. (cwr.addr - Base) % Depth = First + Sent
    BY <1>7, <2>7, ModuloSmall
  <2>9. Port!Acceptable(CRequest)
    BY <1>2, <1>3, <1>6, <1>7, <2>3, <2>5 DEF Port!Acceptable
  <2>10. QED
    BY <2>4, <2>6, <2>8, <2>9 DEF next
<1>9. CASE wp.state = "DATA"
  <2>1. cwr.state = "W" /\ wp.left = cwr.beats /\ cwr.beats \in 1 .. cwr.burst
        /\ cwr.burst \in 1 .. cwr.remaining
    BY <1>1, <1>9 DEF WriterServed, WriteRegs
  <2>2. wp.word = First + Sent /\ ~wp.err
    BY <1>9 DEF Sending
  <2>3. CASE ~CValid
    <3>1. wp' = wp
      BY <1>3, <1>4, <1>9, <2>3 DEF WpStep
    <3>2. next = Sent
      BY <1>5, <2>3 DEF Sends, Port!Bit
    <3>3. QED
      BY <2>2, <3>1, <3>2 DEF next
  <2>4. CASE CValid
    <3>1. WriteBeat.valid
      BY <1>3, <2>1, <2>4
    <3>2. ~Port!BurstEnds(WriteBeat)
      BY <1>4, <1>9, <3>1 DEF WpStep
    <3>3. wp.left # 1 /\ ~WriteBeat.last
      BY <3>2 DEF Port!BurstEnds
    <3>4. wp'.word = (wp.word + 1) % Depth /\ ~wp'.err
      <4>1. ~Port!LastMisplaced(WriteBeat)
        <5>1. (cwr.state = "W" /\ cwr.beats = 1) = (wp.left = 1)
          BY <2>1
        <5>2. QED
          BY <1>3, <5>1, Zenon DEF Port!LastMisplaced
      <4>2. QED
        BY <1>4, <1>9, <2>2, <3>1, <3>2, <4>1 DEF WpStep
    <3>5. Sends
      BY <1>9, <2>1, <2>4 DEF Sends, CReady, C!SReady, Port!WReady
    <3>6. next = Sent + 1
      BY <1>5, <3>5 DEF Port!Bit
    <3>7. Sent = ResultWords - cwr.remaining + cwr.burst - cwr.beats
      BY <1>5, <2>1 DEF SentAt
    <3>8. cwr.remaining \in 1 .. ResultWords
      BY <1>5, <2>1 DEF MoverAt
    <3>9. First + Sent + 1 \in 0 .. Depth - 1
      BY <1>6, <1>7, <2>1, <3>3, <3>7, <3>8
    <3>10. (First + Sent + 1) % Depth = First + Sent + 1
      BY <1>7, <3>9, ModuloSmall
    <3>11. First + Sent + 1 = First + next
      BY <1>5, <1>6, <3>6
    <3>12. QED
      BY <2>2, <3>4, <3>10, <3>11 DEF next
  <2>5. QED
    BY <2>3, <2>4
<1>10. CASE wp.state = "RESP"
  BY <1>4, <1>10 DEF WpStep
<1>11. QED
  BY <1>1, <1>8, <1>9, <1>10 DEF WpRegs

-----------------------------------------------------------------------------
(* The RAM, a word of the result at a time.                                 *)
RamAt(cells, sent) ==
  \A x \in 0 .. Depth - 1 :
    cells[x] = IF x - First \in 0 .. sent - 1 THEN ResultWord(x - First) ELSE job.ram[x]

LEMMA RamOn ==
  ASSUME NEW cells, cells = [x \in 0 .. Depth - 1 |-> cells[x]], NEW sent \in Nat,
         RamAt(cells, sent), First \in Int, NEW word, word = ResultWord(sent),
         NEW new, new = [cells EXCEPT ![First + sent] = word]
  PROVE  RamAt(new, sent + 1)
<1> SUFFICES ASSUME NEW x \in 0 .. Depth - 1
             PROVE  new[x] = IF x - First \in 0 .. sent + 1 - 1 THEN ResultWord(x - First) ELSE job.ram[x]
  BY DEF RamAt
<1>1. Depth \in Nat
  BY Constants
<1>2. CASE x = First + sent
  <2>1. new[x] = word
    BY <1>2
  <2>2. x - First = sent /\ x - First \in 0 .. sent + 1 - 1
    BY <1>2
  <2>3. QED
    BY <2>1, <2>2, Zenon
<1>3. CASE x # First + sent
  <2>1. new[x] = cells[x]
    BY <1>3
  <2>2. x - First \in 0 .. sent + 1 - 1 <=> x - First \in 0 .. sent - 1
    BY <1>1, <1>3
  <2>3. QED
    BY <2>1, <2>2, Zenon DEF RamAt
<1>4. QED
  BY <1>2, <1>3

(* What a START begins with.                                                *)
LEMMA PackStarts ==
  ASSUME RegsOK, Walk, Handing, Packing, Sending, NEW w, Cycle(w), JobStart(w)
  PROVE  ~pack'.valid /\ OutCount' = 0
<1>1. cwr.state = "IDLE" /\ eng.state = "IDLE"
  BY StartLegal, BusyMeans
<1>2. ~pack.valid
  BY <1>1, JobOver DEF Packing
<1>3. ~Puts
  BY <1>1 DEF Puts, PackIn, Engine!COutValid
<1>4. ~pack'.valid
  BY <1>2, <1>3, PackSteps DEF PackStep
<1>5. startQ' = [q |-> TRUE, d |-> ConfigDims(desc.cfg)]
  BY StartSteps, Zenon DEF StartStep
<1>6. QED
  BY <1>4, <1>5 DEF OutCount

(* The words the C mover is given are the words of the result.              *)
LEMMA ResultStarts ==
  ASSUME RegsOK, NEW w, JobStart(w), job'.cfg = desc.cfg
  PROVE  /\ ResultWords' = Shell!CWords /\ Shell!CWords \in Nat \ {0}
         /\ Elements' \in Nat \ {0}
         /\ First' = (desc.cfg["C_BASE"] \div 4) - Base
<1>1. D' = desc.cfg
  BY DEF D
<1>2. First' = (desc.cfg["C_BASE"] \div 4) - Base
  BY <1>1, Zenon DEF First, Cell
<1>3. LegalConfig(desc.cfg) /\ desc.cfg \in ConfigType
  BY StartLegal DEF RegsOK, DescOK
<1>4. desc.cfg["M"] \in Nat \ {0} /\ desc.cfg["N"] \in Nat \ {0}
  BY <1>3, LegalNats
<1> DEFINE size == desc.cfg["M"] * desc.cfg["N"]
<1>5. size \in Nat \ {0}
  <2>1. \A x \in Nat \ {0}, y \in Nat \ {0} : x * y \in Nat \ {0}
    BY SMT
  <2>2. QED
    BY <1>4, <2>1
<1>6. Elements' = size
  BY <1>1, Zenon DEF Elements
<1>7. Packed' <=> Shell!Int8Output
  <2>1. 2^1 = 2
    OBVIOUS
  <2>2. QED
    BY <1>1, <2>1, Zenon DEF Packed, Shell!Int8Output, Shell!Bit, Shell!Cfg
<1>8. Shell!CWords = IF Shell!Int8Output THEN (size + 3) \div 4 ELSE size
  BY Zenon DEF Shell!CWords, Shell!PackedWords, Shell!Cfg
<1>9. ResultWords' = IF Packed' THEN (Elements' + 3) \div 4 ELSE Elements'
  BY DEF ResultWords
<1> HIDE DEF size
<1>10. (size + 3) \div 4 \in Nat /\ (size + 3) \div 4 >= 1
  BY <1>5, WordCount
<1>11. Shell!CWords \in Nat \ {0}
  BY <1>5, <1>8, <1>10
<1>12. ResultWords' = Shell!CWords
  BY <1>6, <1>7, <1>8, <1>9
<1>13. QED
  BY <1>2, <1>5, <1>6, <1>11, <1>12

LEMMA SendingStarts ==
  ASSUME RegsOK, Walk, MoversOK, Operands, Held, Handing, Packing, Sending, JobFits,
         NEW w, Cycle(w), JobStart(w)
  PROVE  Sending' /\ ram' = ram /\ job'.ram = ram
<1> DEFINE base == desc.cfg["C_BASE"] \div 4
           words == Shell!CWords
<1>1. /\ cwr \in WriteRegs /\ CClock(w) /\ cwr.state = "IDLE" /\ wp.state = "IDLE"
  <2>1. cwr.state = "IDLE"
    BY StartLegal, BusyMeans
  <2>2. QED
    BY <2>1 DEF MoversOK, Cycle, TopClock, Operands, WriterServed
<1>2. job' = [given |-> TRUE, cfg |-> desc.cfg, ram |-> ram, bias |-> bias, tiles |-> 0]
  BY StartSteps, Zenon DEF StartStep
<1>3. job'.cfg = desc.cfg /\ job'.ram = ram /\ job'.given
  BY <1>2
<1>4. /\ ResultWords' = words /\ words \in Nat \ {0} /\ Elements' \in Nat \ {0}
      /\ First' = base - Base /\ base \in Int
  BY <1>3, ResultStarts, DescWords
<1>5. ram' = ram
  BY <1>1, Zenon DEF Cycle, TopClock, Port!Clock, Port!Memory, Port!WriteEnable, Port!WFire
<1>6. wp'.state # "DATA"
  BY <1>1 DEF Cycle, TopClock, Port!Clock, Port!WriteSide, Port!StartWrite, CRequest, ReadRequest,
     C!AwValid
<1>7. cwr'.state = "AW" /\ cwr'.remaining = words /\ cwr'.addr = base
  <2> DEFINE start == JobStart(w)
             grant == Port!CReady(ARequest, BRequest, CRequest)
             fire == CValid /\ Port!WReady
             answered == Port!BValid
  <2>1. base \in Int /\ words \in Int /\ base = desc.cfg["C_BASE"] \div 4 /\ words = Shell!CWords
        /\ start
    BY <1>4
  <2> HIDE DEF base, words
  <2>2. WriterStep(cwr, cwr', start, base, words, grant, fire, answered)
    BY <1>1, <2>1, CStep, Zenon
  <2> HIDE DEF start, grant, fire, answered
  <2>3. cwr'.addr = base /\ cwr'.remaining = words /\ cwr'.state = IF words = 0 THEN "IDLE" ELSE "AW"
    BY <1>1, <2>1, <2>2, Zenon DEF WriterStep
  <2>4. QED
    BY <1>4, <2>3
<1> HIDE DEF base, words
<1>8. Sent' = 0
  BY <1>4, <1>7 DEF Sent
<1>9. Given' = 0
  <2>1. ~pack'.valid /\ OutCount' = 0
    BY PackStarts
  <2>2. Emitted' = 0
    <3>1. 0 \div 4 = 0
      OBVIOUS
    <3>2. OutCount' # Elements'
      BY <1>4, <2>1
    <3>3. QED
      BY <2>1, <3>1, <3>2, Zenon DEF Emitted
  <2>3. Port!Bit(pack'.valid) = 0
    BY <2>1, Zenon DEF Port!Bit
  <2>4. Given' = IF Packed' THEN Emitted' - Port!Bit(pack'.valid) ELSE OutCount'
    BY Zenon DEF Given
  <2> DEFINE e == Emitted'
             b == Port!Bit(pack'.valid)
             g == Given'
             n == OutCount'
             p == Packed'
  <2>5. e = 0 /\ b = 0 /\ n = 0 /\ g = IF p THEN e - b ELSE n
    BY <2>1, <2>2, <2>3, <2>4, Zenon
  <2> HIDE DEF e, b, g, n, p
  <2>6. g = 0
    BY <2>5
  <2>7. QED
    BY <2>6 DEF g
<1>10. /\ cwr'.remaining \in 1 .. ResultWords'
       /\ cwr'.addr = Base + First' + ResultWords' - cwr'.remaining
  BY <1>4, <1>7, Constants
<1>11. \A x \in 0 .. Depth - 1 : ~(x - First' \in 0 .. Sent' - 1)
  BY <1>8
<1>12. \A x \in 0 .. Depth - 1 :
         ram'[x] = IF x - First' \in 0 .. Sent' - 1 THEN ResultWord(x - First)' ELSE job'.ram[x]
  BY <1>3, <1>5, <1>11, Zenon
<1>13. Sent' = Given'
  BY <1>8, <1>9
<1>14. QED
  BY <1>3, <1>5, <1>6, <1>10, <1>12, <1>13, Zenon DEF Sending

LEMMA SendingStep ==
  ASSUME RegsOK, Walk, MoversOK, Operands, OutShaped, Held, Handing, Finished, RowsFinal, Packing,
         Sending, JobFits, NEW w, Cycle(w)
  PROVE  Sending'
<1>1. CASE JobStart(w)
  BY <1>1, SendingStarts
<1>2. CASE ~JobStart(w) /\ ~job.given
  BY <1>2, SameJobOn DEF Sending
<1>3. CASE ~JobStart(w) /\ job.given
  <2>1. /\ job'.given = job.given /\ job'.ram = job.ram /\ First' = First
        /\ ResultWords' = ResultWords /\ \A x : ResultWord(x)' = ResultWord(x)
    BY <1>3, SameJobOn, OwedSame
  <2>2. /\ MoverAt(cwr') /\ Sent \in Int /\ SentAt(cwr') = Sent + Port!Bit(Sends)
    BY <1>3, MoverSends
  <2>3. Sent' = SentAt(cwr')
    BY <2>1, CountsSent
  <2>4. Sent = Given /\ RamAt(ram, Sent)
    BY <1>3 DEF Sending, RamAt
  <2>5. Given' = Given + Port!Bit(Sends)
    BY <1>3, GivenOn
  <2>6. Sent' = Given'
    BY <2>2, <2>3, <2>4, <2>5, Zenon
  <2>7. wp'.state = "DATA" => wp'.word = First + SentAt(cwr') /\ ~wp'.err
    BY <1>3, WordNext
  <2>8. RamAt(ram', SentAt(cwr'))
    <3>1. CASE Sends
      <4> DEFINE word == WriteBeat.data
                 new == ram'
      <4>1. /\ Sent \in 0 .. ResultWords - 1 /\ First \in Int /\ new = [ram EXCEPT ![First + Sent] = word]
        BY <3>1, WritesNext
      <4>2. word = ResultWord(Sent)
        BY <3>1, SendsWord
      <4>3. ram = [x \in 0 .. Depth - 1 |-> ram[x]] /\ Sent \in Nat
        BY <4>1 DEF Operands, PortTyped
      <4>4. SentAt(cwr') = Sent + 1
        BY <2>2, <3>1 DEF Port!Bit
      <4> DEFINE sent == Sent
      <4>5. RamAt(new, sent + 1)
        <5>1. /\ sent \in Nat /\ First \in Int /\ new = [ram EXCEPT ![First + sent] = word]
              /\ word = ResultWord(sent) /\ RamAt(ram, sent)
          BY <2>4, <4>1, <4>2, <4>3
        <5> HIDE DEF word, new, sent
        <5>2. QED
          BY <4>3, <5>1, RamOn
      <4>6. QED
        BY <4>4, <4>5, Zenon
    <3>2. CASE ~Sends
      <4>1. ram' = ram
        BY <3>2, WritesNext
      <4>2. SentAt(cwr') = Sent
        BY <2>2, <3>2 DEF Port!Bit
      <4>3. QED
        BY <2>4, <4>1, <4>2, Zenon
    <3>3. QED
      BY <3>1, <3>2
  <2>9. \A x \in 0 .. Depth - 1 :
          ram'[x] = IF x - First' \in 0 .. Sent' - 1 THEN ResultWord(x - First)' ELSE job'.ram[x]
    BY <2>1, <2>3, <2>8, Zenon DEF RamAt
  <2>10. wp'.state = "DATA" => wp'.word = First' + Sent' /\ ~wp'.err
    BY <2>1, <2>3, <2>7
  <2>11. cwr'.state # "IDLE" =>
           /\ cwr'.remaining \in 1 .. ResultWords'
           /\ cwr'.addr = Base + First' + ResultWords' - cwr'.remaining
    BY <2>1, <2>2 DEF MoverAt
  <2>12. QED
    BY <2>6, <2>9, <2>10, <2>11, Zenon DEF Sending
<1>4. QED
  BY <1>1, <1>2, <1>3

(* The words of the result are words.                                       *)
LEMMA ResultTyped ==
  ASSUME RegsOK, JobKnown, job.given, JobFits, SumsFit, CellsHold, NEW x \in 0 .. ResultWords - 1
  PROVE  ResultWord(x) \in Word
<1>1. /\ Elements \in Nat \ {0}
      /\ Packed => ResultWords = (Elements + 3) \div 4
      /\ ~Packed => ResultWords = Elements
  BY ResultSize
<1>2. CASE Packed
  <2>1. ASSUME NEW i \in 0 .. 3
        PROVE  (IF 4 * x + i < Elements THEN Requantized(4 * x + i) % 256 ELSE 0) \in 0 .. 255
    <3>1. CASE 4 * x + i < Elements
      <4> DEFINE n == 4 * x + i
                 r == Requantized(n)
      <4>1. n \in 0 .. Elements - 1
        BY <1>1, <3>1
      <4>2. r \in -128 .. 127
        <5> HIDE DEF n
        <5>1. QED
          BY <1>2, <4>1, Requantizes
      <4>3. r % 256 \in 0 .. 255
        <5> HIDE DEF r
        <5>1. QED
          BY <4>2
      <4>4. QED
        BY <3>1, <4>3, Zenon
    <3>2. CASE ~(4 * x + i < Elements)
      <4>1. 0 \in 0 .. 255
        OBVIOUS
      <4>2. QED
        BY <3>2, <4>1, Zenon
    <3>3. QED
      BY <3>1, <3>2
  <2> DEFINE byte(i) == IF 4 * x + i < Elements THEN Requantized(4 * x + i) % 256 ELSE 0
  <2>2. ResultWord(x) = [i \in 0 .. 3 |-> byte(i)]
    BY <1>2, Zenon DEF ResultWord
  <2>3. \A i \in 0 .. 3 : byte(i) \in 0 .. 255
    BY <2>1
  <2> HIDE DEF byte
  <2>4. QED
    BY <2>2, <2>3 DEF Word
<1>3. CASE ~Packed
  <2> DEFINE e == ElementOfC(x)
             byte(i) == (e \div 256^i) % 256
  <2>1. e \in Int
    BY <1>1, <1>3, ElementTyped
  <2>2. ASSUME NEW i \in 0 .. 3
        PROVE  byte(i) \in 0 .. 255
    <3>1. 256^0 = 1 /\ 256^1 = 256 /\ 256^2 = 65536 /\ 256^3 = 16777216
      BY SMT
    <3>2. 256^i \in {1, 256, 65536, 16777216}
      <4>1. i = 0 \/ i = 1 \/ i = 2 \/ i = 3
        OBVIOUS
      <4> DEFINE big == {1, 256, 65536, 16777216}
      <4>2. 1 \in big /\ 256 \in big /\ 65536 \in big /\ 16777216 \in big
        OBVIOUS
      <4> HIDE DEF big
      <4>3. 256^0 \in big /\ 256^1 \in big /\ 256^2 \in big /\ 256^3 \in big
        BY <3>1, <4>2
      <4>4. 256^i \in big
        BY <4>1, <4>3, Zenon
      <4>5. QED
        BY <4>4 DEF big
    <3> DEFINE p == 256^i
    <3>3. p \in {1, 256, 65536, 16777216}
      BY <3>2
    <3> HIDE DEF p, e
    <3>4. e \div p \in Int
      BY <2>1, <3>3
    <3>5. (e \div p) % 256 \in 0 .. 255
      <4> DEFINE q == e \div p
      <4>1. q \in Int
        BY <3>4
      <4> HIDE DEF q
      <4>2. q % 256 \in 0 .. 255
        BY <4>1
      <4>3. QED
        BY <4>2 DEF q
    <3>6. QED
      BY <3>5 DEF p
  <2>3. ResultWord(x) = [i \in 0 .. 3 |-> byte(i)]
    BY <1>3, Zenon DEF ResultWord
  <2> HIDE DEF byte
  <2>4. QED
    BY <2>2, <2>3 DEF Word
<1>4. QED
  BY <1>2, <1>3

LEMMA CellsHoldStep ==
  ASSUME RegsOK, Walk, MoversOK, Operands, Held, Handing, Packing, Sending, JobFits, SumsFit,
         CellsHold, NEW w, Cycle(w)
  PROVE  CellsHold'
<1>1. CASE JobStart(w)
  <2>1. job'.ram = ram /\ job'.given
    <3>1. job' = [given |-> TRUE, cfg |-> desc.cfg, ram |-> ram, bias |-> bias, tiles |-> 0]
      BY <1>1, StartSteps, Zenon DEF StartStep
    <3>2. QED
      BY <3>1
  <2>2. ram \in Cells
    <3>1. CASE ~job.given
      BY <3>1 DEF CellsHold
    <3>2. CASE job.given
      <4>1. Sent = ResultWords
        BY <1>1, <3>2, StartLegal, BusyMeans, JobOver
      <4>2. \A x \in 0 .. Depth - 1 :
              ram[x] = IF x - First \in 0 .. ResultWords - 1 THEN ResultWord(x - First) ELSE job.ram[x]
        BY <3>2, <4>1, Zenon DEF Sending
      <4>3. \A x \in 0 .. Depth - 1 : job.ram[x] \in Word
        BY DEF CellsHold, Cells
      <4>4. \A x \in 0 .. ResultWords - 1 : ResultWord(x) \in Word
        BY <3>2, ResultTyped DEF Walk
      <4>5. \A x \in 0 .. Depth - 1 : ram[x] \in Word
        BY <4>2, <4>3, <4>4, Zenon
      <4>6. ram = [x \in 0 .. Depth - 1 |-> ram[x]]
        BY DEF Operands, PortTyped
      <4>7. QED
        BY <4>5, <4>6 DEF Cells
    <3>3. QED
      BY <3>1, <3>2
  <2>3. QED
    BY <2>1, <2>2 DEF CellsHold
<1>2. CASE ~JobStart(w)
  <2>1. job'.ram = job.ram /\ job'.given = job.given
    BY <1>2, SameJobOn
  <2>2. ~job.given => ram' = ram
    BY WritesNext
  <2>3. Cells' = Cells
    BY DEF Cells
  <2>4. QED
    BY <2>1, <2>2 DEF CellsHold, Cells
<1>3. QED
  BY <1>1, <1>2

-----------------------------------------------------------------------------
(* Together they are inductive.                                             *)
Owed ==
  /\ MoversOK /\ Operands
  /\ Held /\ Buffered /\ Computing /\ Finished
  /\ OutShaped /\ RowsFinal /\ Handing
  /\ Packing /\ Sending /\ CellsHold

LEMMA OwedInit == Init => Owed
<1> SUFFICES ASSUME Init
             PROVE  Owed
  OBVIOUS
<1>1. MoversOK /\ Operands
  BY OperandsInit
<1>2. /\ cwr.state = "IDLE" /\ ard.state = "IDLE" /\ brd.state = "IDLE" /\ eng.state = "IDLE"
      /\ startQ.q = FALSE /\ job.given = FALSE
  BY DEF Init, TopReset, A!Reset, B!Reset, C!Reset, NoJob, Engine!ResetEngine
<1>3. Held
  BY <1>2, BusyMeans DEF Held
<1>4. MemShaped
  <2>1. mem = Engine!Buffers(127)
    BY DEF Init, TopReset
  <2>2. QED
    BY <2>1 DEF MemShaped, Engine!Buffers
<1>5. Buffered /\ Computing /\ Finished /\ RowsFinal
  BY <1>2, <1>4 DEF Buffered, Computing, Finished, Captured, RowsFinal, Walking
<1>6. OutShaped
  <2> DEFINE zero == 0
  <2>1. zero \in Int /\ out = [row |-> zero, col |-> zero, count |-> zero, rowsReady |-> zero]
    BY DEF Init, TopReset, Engine!ResetOut
  <2> HIDE DEF zero
  <2>2. QED
    BY <2>1 DEF OutShaped
<1>7. Handing /\ Sending
  BY <1>2 DEF Handing, Sending
<1>8. Packing
  <2> DEFINE word == [lane \in 0 .. 3 |-> 0]
  <2>1. pack = [word |-> word, lane |-> 0, valid |-> FALSE, last |-> FALSE]
    BY DEF Init, TopReset, Pack!ResetPack
  <2> HIDE DEF word
  <2>2. QED
    BY <1>2, <2>1 DEF Packing
<1>9. CellsHold
  <2>1. job.ram = InitRam /\ ram = InitRam
    BY DEF Init
  <2>2. QED
    BY <2>1, SystemAssumption DEF CellsHold, Cells
<1>10. QED
  BY <1>1, <1>3, <1>4, <1>5, <1>6, <1>7, <1>8, <1>9 DEF Owed

(* Nothing in them moves while the registers rest.                          *)
LEMMA OwedRests ==
  ASSUME Owed, UNCHANGED vars
  PROVE  /\ Held' /\ Buffered' /\ Computing' /\ Finished'
         /\ OutShaped' /\ RowsFinal' /\ Handing'
         /\ Packing' /\ Sending' /\ CellsHold'
<1>1. /\ desc' = desc /\ ard' = ard /\ brd' = brd /\ cwr' = cwr /\ arr' = arr /\ cfg' = cfg
      /\ eng' = eng /\ out' = out /\ mem' = mem /\ pack' = pack /\ wp' = wp /\ ram' = ram
      /\ startQ' = startQ /\ outCol' = outCol /\ bias' = bias /\ job' = job
  BY DEF vars, topVars
<1>2. /\ D' = D /\ Elements' = Elements /\ Packed' = Packed /\ First' = First
      /\ ResultWords' = ResultWords /\ WordsA' = WordsA /\ WordsB' = WordsB
      /\ \A base, i : SignedByte(base, i)' = SignedByte(base, i)
      /\ \A r, c : Products(r, c)' = Products(r, c) /\ Element(r, c)' = Element(r, c)
      /\ \A i : Requantized(i)' = Requantized(i)
      /\ \A x : ResultWord(x)' = ResultWord(x)
  BY <1>1, OwedSame
<1>3. Held'
  BY <1>1, <1>2, BusyMeans DEF Owed, Held
<1>4. MemShaped' /\ Buffered'
  BY <1>1, <1>2, Zenon DEF Owed, Buffered, MemShaped, HoldsA, HoldsB, Stored
<1>5. Engine!TmLen' = Engine!TmLen /\ Engine!TnLen' = Engine!TnLen /\ Walking' = Walking
  BY <1>1, Zenon DEF Engine!TmLen, Engine!TnLen, Engine!Least, Walking
<1>6. Computing'
  <2>1. \A i, s : West(i, s)' = West(i, s) /\ North(i, s)' = North(i, s)
    BY <1>1, <1>2, <1>5, Zenon DEF West, North
  <2>2. \A t, d : Met(t, d)' = Met(t, d)
    BY <1>2, Zenon DEF Met
  <2>3. \A a, t : LinesHold(a, t)' = LinesHold(a, t)
    BY <2>1, Zenon DEF LinesHold
  <2>4. \A a, t : SumsHold(a, t)' = SumsHold(a, t)
    BY <1>1, <1>2, <1>5, <2>2, Zenon DEF SumsHold
  <2>5. QED
    BY <1>1, <1>2, <2>3, <2>4, Zenon DEF Owed, Computing, ArrayHolds
<1>7. Finished'
  BY <1>1, <1>2, <1>5, Zenon DEF Owed, Finished, Captured
<1>8. OutShaped' /\ RowsFinal'
  BY <1>1, <1>5, Zenon DEF Owed, OutShaped, RowsFinal
<1>9. OutCount' = OutCount
  BY <1>1, Zenon DEF OutCount
<1>10. Handing'
  BY <1>1, <1>2, <1>9, Zenon DEF Owed, Handing
<1>11. Emitted' = Emitted
  BY <1>2, <1>9, Zenon DEF Emitted
<1>12. Packing'
  BY <1>1, <1>2, <1>9, <1>11, Zenon DEF Owed, Packing
<1>13. Given' = Given /\ Sent' = Sent
  BY <1>1, <1>2, <1>9, <1>11, Zenon DEF Given, Sent, Port!Bit
<1>14. Sending'
  BY <1>1, <1>2, <1>13, Zenon DEF Owed, Sending
<1>15. CellsHold'
  BY <1>1, Zenon DEF Owed, CellsHold
<1>16. QED
  BY <1>3, <1>4, <1>6, <1>7, <1>8, <1>10, <1>12, <1>14, <1>15

LEMMA OwedStep ==
  RegsOK /\ Walk /\ Owed /\ JobFits /\ SumsFit /\ [Next]_vars => Owed'
<1> SUFFICES ASSUME RegsOK, Walk, Owed, JobFits, SumsFit, [Next]_vars
             PROVE  Owed'
  OBVIOUS
<1>1. MoversOK' /\ Operands'
  BY OperandsStep DEF Owed
<1>2. CASE Next
  <2>1. PICK w \in Writes \cup {NoWrite} : Cycle(w)
    BY <1>2 DEF Next
  <2>2. Held' /\ Buffered' /\ Computing' /\ Finished'
    BY <2>1, HeldStep, BufferedStep, ComputingStep, FinishedStep DEF Owed
  <2>3. OutShaped' /\ RowsFinal' /\ Handing'
    BY <2>1, RowsFinalStep, HandingStep DEF Owed
  <2>4. Packing' /\ Sending' /\ CellsHold'
    BY <2>1, PackingStep, SendingStep, CellsHoldStep DEF Owed
  <2>5. QED
    BY <1>1, <2>2, <2>3, <2>4 DEF Owed
<1>3. CASE UNCHANGED vars
  BY <1>1, <1>3, OwedRests DEF Owed
<1>4. QED
  BY <1>2, <1>3

(* No job runs any more once its words are sent.                            *)
LEMMA OwedResult == RegsOK /\ Walk /\ Owed => ResultInMemory
<1> SUFFICES ASSUME RegsOK, Walk, Owed, job.given, ~JobBusy, NEW x \in DOMAIN ram
             PROVE  ram[x] = Expected(x)
  BY DEF ResultInMemory
<1>1. x \in 0 .. Depth - 1
  <2>1. ram = [i \in 0 .. Depth - 1 |-> ram[i]]
    BY DEF Owed, Operands, PortTyped
  <2>2. QED
    BY <2>1
<1>2. cwr.state = "IDLE"
  BY BusyMeans
<1>3. Sent = ResultWords
  BY <1>2, JobOver DEF Owed
<1>4. ram[x] = IF x - First \in 0 .. Sent - 1 THEN ResultWord(x - First) ELSE job.ram[x]
  BY <1>1, Zenon DEF Owed, Sending
<1>5. QED
  BY <1>3, <1>4, Zenon DEF Expected

(* The one word a cycle may change becomes the word the job owes there.     *)
LEMMA OwedWrites ==
  ASSUME RegsOK, Walk, Owed, JobFits, NEW w, Cycle(w), NEW x \in DOMAIN ram, ram'[x] # ram[x]
  PROVE  JobBusy /\ ram'[x] = Expected(x)
<1>1. Sends
  BY WritesNext DEF Owed
<1>2. /\ job.given /\ ~JobStart(w) /\ JobBusy /\ cwr.state = "W"
      /\ Sent \in 0 .. ResultWords - 1 /\ First \in Int /\ First + Sent \in 0 .. Depth - 1
      /\ ram' = [ram EXCEPT ![First + Sent] = WriteBeat.data]
  BY <1>1, WritesNext DEF Owed
<1>3. WriteBeat.data = ResultWord(Sent)
  BY <1>1, SendsWord DEF Owed
<1>4. x = First + Sent /\ ram'[x] = WriteBeat.data
  <2> DEFINE cell == First + Sent
             data == WriteBeat.data
  <2>1. ram' = [ram EXCEPT ![cell] = data]
    BY <1>2, Zenon
  <2> HIDE DEF cell, data
  <2>2. x = cell /\ ram'[x] = data
    BY <2>1
  <2>3. QED
    BY <2>2 DEF cell, data
<1>5. x - First = Sent
  BY <1>2, <1>4
<1>6. Expected(x) = ResultWord(Sent)
  BY <1>2, <1>5, Zenon DEF Expected
<1>7. QED
  BY <1>2, <1>3, <1>4, <1>6, Zenon

LEMMA OwedAlways == Spec /\ []JobFits /\ []SumsFit => [](RegsOK /\ Walk /\ Owed)
<1>1. Init => Owed
  BY OwedInit
<1>2. RegsOK /\ Walk /\ Owed /\ JobFits /\ SumsFit /\ [Next]_vars => Owed'
  BY OwedStep
<1>3. Spec => [](RegsOK /\ Walk)
  BY WalkAlways
<1>4. QED
  BY <1>1, <1>2, <1>3, PTL DEF Spec

(* A job that is over has left its result in C and nothing else anywhere,   *)
(* as long as every job keeps its operands and result inside the RAM window *)
(* and its biased elements inside 32 bits.                                  *)
THEOREM ResultCorrect == Spec /\ []JobFits /\ []SumsFit => []ResultInMemory
<1>1. RegsOK /\ Walk /\ Owed => ResultInMemory
  BY OwedResult
<1>2. Spec /\ []JobFits /\ []SumsFit => [](RegsOK /\ Walk /\ Owed)
  BY OwedAlways
<1>3. QED
  BY <1>1, <1>2, PTL

(* And on the way there no word changes but to what the job owes at it, and *)
(* none while no job runs.                                                  *)
THEOREM WritesOwed == Spec /\ []JobFits /\ []SumsFit => NoStrayWrite
<1> DEFINE strict == \A x \in DOMAIN ram : ram'[x] # ram[x] => JobBusy /\ ram'[x] = Expected(x)
<1>1. RegsOK /\ Walk /\ Owed /\ JobFits /\ [Next]_vars => [strict]_vars
  <2> SUFFICES ASSUME RegsOK, Walk, Owed, JobFits, Next
               PROVE  strict
    OBVIOUS
  <2>1. PICK w \in Writes \cup {NoWrite} : Cycle(w)
    BY DEF Next
  <2>2. QED
    BY <2>1, OwedWrites
<1>2. Spec /\ []JobFits /\ []SumsFit => [](RegsOK /\ Walk /\ Owed)
  BY OwedAlways
<1>3. QED
  BY <1>1, <1>2, PTL DEF Spec, NoStrayWrite

=============================================================================
