----------------------------- MODULE GemmEngine ----------------------------
(***************************************************************************)
(* tiled_gemm_engine.sv: loads A and B, computes the tiles of C one after  *)
(* the other on the array and hands C on while later tiles are computed.   *)
(* One step is one clock edge.  An operand word is [0 .. 3 -> 0 .. 255], *)
(* lane by lane; a_mem, b_mem and c_mem are indexed by <<row, column>>, which   *)
(* is what the linear index row * MAX_x + column stands for.               *)
(***************************************************************************)
EXTENDS SystolicArray

CONSTANTS MaxM, MaxN, MaxK

ASSUME GemmEngineAssumption ==
  /\ MaxM \in Nat \ {0}
  /\ MaxN \in Nat \ {0}
  /\ MaxK \in Nat \ {0}

VARIABLES
  cfg,     \* m_q, n_q, k_q, tm_q, tn_q
  eng,     \* FSM state, word counters, tile position, done and error
  out,     \* out_row, out_col, out_count and rows_ready
  mem      \* a_mem, b_mem and c_mem

engineVars == <<arr, cfg, eng, out, mem>>

ResetCfg == [m |-> 0, n |-> 0, k |-> 0, tm |-> 0, tn |-> 0]
ResetEngine == [state |-> "IDLE", a |-> 0, b |-> 0, m0 |-> 0, n0 |-> 0,
                feedK |-> 0, drain |-> 0, done |-> FALSE, error |-> FALSE]
ResetOut == [row |-> 0, col |-> 0, count |-> 0, rowsReady |-> 0]

(* The buffers have no reset: they come up holding anything. *)
Buffers(x) ==
  [a |-> [p \in (0 .. MaxM - 1) \X (0 .. MaxK - 1) |-> x],
   b |-> [p \in (0 .. MaxK - 1) \X (0 .. MaxN - 1) |-> x],
   c |-> [p \in (0 .. MaxM - 1) \X (0 .. MaxN - 1) |-> x]]

DrainCycles == 2 * N - 1

TotalWords(bytes) == (bytes + 3) \div 4
AWords == TotalWords(cfg.m * cfg.k)
BWords == TotalWords(cfg.k * cfg.n)
CTotal == cfg.m * cfg.n

Least(x, y) == IF x < y THEN x ELSE y
TmLen == Least(cfg.m - eng.m0, cfg.tm)
TnLen == Least(cfg.n - eng.n0, cfg.tn)
LastNBlock == eng.n0 + TnLen >= cfg.n
LastMBlock == eng.m0 + TmLen >= cfg.m

TileFits(x) == x \in 1 .. N /\ x % 4 = 0

BadCfg(d) ==
  ~ /\ d.m \in 1 .. MaxM /\ d.n \in 1 .. MaxN /\ d.k \in 1 .. MaxK
    /\ TileFits(d.tm) /\ TileFits(d.tn) /\ d.tk \in 1 .. MaxK

(* Output wires. *)
EngineBusy == eng.state # "IDLE"
AInReady == eng.state = "LOAD" /\ eng.a < AWords
BInReady == eng.state = "LOAD" /\ eng.b < BWords
COutValid == eng.state \notin {"IDLE", "LOAD"} /\ out.count < CTotal /\ out.row < out.rowsReady
COutLast == COutValid /\ out.count = CTotal - 1
COutData == mem.c[<<out.row, out.col>>]

(* One K vector per feed cycle, zero-padded outside the tile; else zeros. *)
WestIn ==
  [i \in Lanes |-> IF eng.state = "FEED" /\ i < TmLen
                     THEN mem.a[<<eng.m0 + i, eng.feedK>>] ELSE 0]
NorthIn ==
  [i \in Lanes |-> IF eng.state = "FEED" /\ i < TnLen
                     THEN mem.b[<<eng.feedK, eng.n0 + i>>] ELSE 0]

ArrClear == eng.state \in {"CLEAR", "CAPTURE"}
ArrEn == eng.state \in {"FEED", "DRAIN"}

Array == ArrayClock(ArrEn, ArrClear, ArrClear, WestIn, NorthIn)

(* The row-major walk of the output side. *)
Advance(o) ==
  [o EXCEPT !.count = @ + 1,
            !.row = IF o.col + 1 >= cfg.n THEN @ + 1 ELSE @,
            !.col = IF o.col + 1 >= cfg.n THEN 0 ELSE @ + 1]

CAccept(cready) == COutValid /\ cready
OutputSide(cready) == IF CAccept(cready) THEN Advance(out) ELSE out

Goto(s) == [eng EXCEPT !.state = s, !.done = FALSE]

Idle(start, d) ==
  /\ eng.state = "IDLE"
  /\ IF start /\ ~BadCfg(d)
       THEN /\ cfg' = [m |-> d.m, n |-> d.n, k |-> d.k, tm |-> d.tm, tn |-> d.tn]
            /\ eng' = [Goto("LOAD") EXCEPT !.a = 0, !.b = 0, !.error = FALSE]
            /\ out' = ResetOut
       ELSE /\ eng' = [Goto("IDLE") EXCEPT !.error = @ \/ start]
            /\ UNCHANGED <<cfg, out>>
  /\ UNCHANGED mem

(* A lane's eight bits, read as a signed byte. *)
SignedByte(bits) == IF bits < 128 THEN bits ELSE bits - 256

(* Word number count of a row-major byte stream with rows of the given length. *)
Unpack(cells, word, count, bytes, rowLength) ==
  [p \in DOMAIN cells |->
    LET i == p[1] * rowLength + p[2]
    IN  IF p[2] < rowLength /\ i < bytes /\ i \div 4 = count THEN SignedByte(word[i % 4]) ELSE cells[p]]

Taken(valid) == IF valid THEN 1 ELSE 0

LoadEnds(a, b) == a >= AWords /\ b >= BWords

(* w is an operand stream: [valid, word]. *)
Load(aw, bw) ==
  /\ eng.state = "LOAD"
  /\ LET aAccept == aw.valid /\ AInReady
         bAccept == bw.valid /\ BInReady
         a == eng.a + Taken(aAccept)
         b == eng.b + Taken(bAccept)
     IN  /\ mem' = [mem EXCEPT
              !.a = IF aAccept THEN Unpack(@, aw.word, eng.a, cfg.m * cfg.k, cfg.k) ELSE @,
              !.b = IF bAccept THEN Unpack(@, bw.word, eng.b, cfg.k * cfg.n, cfg.n) ELSE @]
         /\ eng' = IF LoadEnds(a, b)
                     THEN [Goto("CLEAR") EXCEPT !.a = a, !.b = b, !.m0 = 0, !.n0 = 0]
                     ELSE [Goto("LOAD") EXCEPT !.a = a, !.b = b]
  /\ UNCHANGED <<cfg, out>>

ClearArray(cready) ==
  /\ eng.state = "CLEAR"
  /\ eng' = [Goto("FEED") EXCEPT !.feedK = 0]
  /\ out' = OutputSide(cready)
  /\ UNCHANGED <<cfg, mem>>

Feed(cready) ==
  /\ eng.state = "FEED"
  /\ eng' = IF eng.feedK = cfg.k - 1 THEN [Goto("DRAIN") EXCEPT !.drain = 0]
                                     ELSE [Goto("FEED") EXCEPT !.feedK = @ + 1]
  /\ out' = OutputSide(cready)
  /\ UNCHANGED <<cfg, mem>>

Drain(cready) ==
  /\ eng.state = "DRAIN"
  /\ eng' = IF eng.drain = DrainCycles - 1 THEN Goto("CAPTURE")
                                           ELSE [Goto("DRAIN") EXCEPT !.drain = @ + 1]
  /\ out' = OutputSide(cready)
  /\ UNCHANGED <<cfg, mem>>

(* A row of C is final once its last tile is captured. *)
RowsReady(o) == IF LastNBlock THEN [o EXCEPT !.rowsReady = eng.m0 + TmLen] ELSE o

NextTile ==
  IF ~LastNBlock THEN [Goto("FEED") EXCEPT !.feedK = 0, !.n0 = @ + TnLen]
  ELSE IF ~LastMBlock THEN [Goto("FEED") EXCEPT !.feedK = 0, !.n0 = 0, !.m0 = @ + TmLen]
  ELSE [Goto("FLUSH_OUT") EXCEPT !.feedK = 0, !.n0 = 0]

(* acc_flat is final in this cycle; the array clears on the same edge. *)
Capture(cready) ==
  /\ eng.state = "CAPTURE"
  /\ mem' = [mem EXCEPT !.c = [p \in DOMAIN @ |->
       IF p[1] - eng.m0 \in 0 .. TmLen - 1 /\ p[2] - eng.n0 \in 0 .. TnLen - 1
         THEN arr.acc[<<p[1] - eng.m0, p[2] - eng.n0>>] ELSE @[p]]]
  /\ eng' = NextTile
  /\ out' = RowsReady(OutputSide(cready))
  /\ UNCHANGED cfg

BugFinalIsCount(cready) == CAccept(cready) /\ out.count = CTotal

FinalElement(cready) == CAccept(cready) /\ out.count = CTotal - 1

FlushOut(cready) ==
  /\ eng.state = "FLUSH_OUT"
  /\ eng' = IF FinalElement(cready) THEN [eng EXCEPT !.state = "IDLE", !.done = TRUE]
                                    ELSE Goto("FLUSH_OUT")
  /\ out' = OutputSide(cready)
  /\ UNCHANGED <<cfg, mem>>

(* A clock edge of engine and array; done_q falls unless FlushOut raises it. *)
EngineClock(start, d, aw, bw, cready) ==
  /\ Array
  /\ \/ Idle(start, d) \/ Load(aw, bw) \/ ClearArray(cready) \/ Feed(cready)
     \/ Drain(cready) \/ Capture(cready) \/ FlushOut(cready)
=============================================================================
