---------------------------- MODULE SystemBench ----------------------------
(***************************************************************************)
(* The whole accelerator beside its RAM, and software that may issue any   *)
(* register write of Writes in any cycle.                                  *)
(***************************************************************************)
EXTENDS AccelSystem

CONSTANTS
  Writes,     \* register writes software may issue
  Program,    \* the descriptor software has programmed first
  InitRam     \* what it has put in the RAM

Word == [0 .. 3 -> 0 .. 255]
WriteType ==
  [en : BOOLEAN, reg : Shell!Registers \cup {"BIAS"}, strb : SUBSET (0 .. 3), data : Nat,
   column : 0 .. MaxN - 1]

(* The window lies on the bus; a register holds a natural number, POST_CFG  *)
(* one of its low byte.                                                     *)
ASSUME SystemAssumption ==
  /\ {ArrayN, MaxM, MaxN, MaxK, MaxBurst, PageWords, AddrWords, Depth, WordHalf, CounterWrap}
       \subseteq Nat \ {0}
  /\ Base \in Nat /\ Base + Depth <= AddrWords
  /\ Writes \subseteq WriteType
  /\ Program \in [Shell!Fields -> Nat] /\ Program["POST_CFG"] < 256
  /\ InitRam \in [0 .. Depth - 1 -> Word]

VARIABLE
  job         \* the latest accepted START: its descriptor, and RAM and bias
              \* then; the tiles captured since

vars == <<topVars, job>>

NoWrite == [en |-> FALSE, reg |-> "CTRL", strb |-> {}, data |-> 0, column |-> 0]

Init ==
  /\ TopReset(127, InitRam[0])
  /\ desc = [Shell!Reset EXCEPT !.cfg = Program]
  /\ ram = InitRam
  /\ rdata = InitRam[0]
  /\ job = [given |-> FALSE, cfg |-> Program, ram |-> InitRam, bias |-> bias, tiles |-> 0]

Cycle(w) ==
  /\ TopClock(w)
  /\ job' = IF JobStart(w)
               THEN [given |-> TRUE, cfg |-> desc.cfg, ram |-> ram, bias |-> bias, tiles |-> 0]
            ELSE IF eng.state = "CAPTURE" THEN [job EXCEPT !.tiles = @ + 1]
            ELSE job

Next == \E w \in Writes \cup {NoWrite} : Cycle(w)

Spec == Init /\ [][Next]_vars

(* The clock runs. *)
FairSpec == Spec /\ WF_vars(Next)

-----------------------------------------------------------------------------
(* The result a job owes, from the RAM it was started with. *)
D == job.cfg
Cell(base) == base \div 4 - Base

SignedByte(base, i) ==
  LET b == job.ram[Cell(base) + i \div 4][i % 4] IN IF b < 128 THEN b ELSE b - 256

Sum(t, n) ==
  LET upTo[i \in 0 .. n] == IF i = 0 THEN 0 ELSE upTo[i - 1] + t[i - 1]
  IN  upTo[n]

Products(r, c) ==
  [k \in 0 .. D["K"] - 1 |-> SignedByte(D["A_BASE"], r * D["K"] + k)
                               * SignedByte(D["B_BASE"], k * D["N"] + c)]
Element(r, c) == Sum(Products(r, c), D["K"])
ElementOfC(i) == Element(i \div D["N"], i % D["N"])

(* docs/dma_register_map.md: sat8(relu?(((acc + BIAS) * SCALE) >>> SHIFT)). *)
Between(low, x, high) == IF x < low THEN low ELSE IF x > high THEN high ELSE x

Biased(i) == ElementOfC(i) + Pack!Signed(D["POST_BIAS"]) + Pack!Signed(job.bias[i % D["N"]])

Requantized(i) ==
  LET cfgByte == D["POST_CFG"]
  IN  Between(IF cfgByte % 2 = 1 THEN 0 ELSE -128,
              Pack!ShiftRight(Biased(i) * Pack!Signed(D["POST_SCALE"]), cfgByte \div 4), 127)

Elements == D["M"] * D["N"]
Packed == (D["POST_CFG"] \div 2) % 2 = 1

ResultWord(w) ==
  [lane \in 0 .. 3 |->
    IF ~Packed THEN (ElementOfC(w) \div 256^lane) % 256
    ELSE IF 4 * w + lane < Elements THEN Requantized(4 * w + lane) % 256 ELSE 0]

ResultWords == IF Packed THEN (Elements + 3) \div 4 ELSE Elements
First == Cell(D["C_BASE"])

(* Word x of the RAM after the job. *)
Expected(x) == IF x - First \in 0 .. ResultWords - 1 THEN ResultWord(x - First) ELSE job.ram[x]

(* What software owes a job: operands and result inside the RAM window, and *)
(* INT32 elements that the bias leaves INT32.                               *)
InWindow(base, words) == Base <= base \div 4 /\ base \div 4 + words <= Base + Depth

JobFits ==
  job.given =>
    /\ InWindow(D["A_BASE"], (D["M"] * D["K"] + 3) \div 4)
    /\ InWindow(D["B_BASE"], (D["K"] * D["N"] + 3) \div 4)
    /\ InWindow(D["C_BASE"], ResultWords)

SumsFit ==
  job.given /\ Packed => \A i \in 0 .. Elements - 1 : Biased(i) \in -WordHalf .. WordHalf - 1

(* A job that is over has left A * B, or its INT8 form, in C and nothing     *)
(* else anywhere: DONE tells the truth about memory, not only the movers.    *)
ResultInMemory == job.given /\ ~JobBusy => \A x \in DOMAIN ram : ram[x] = Expected(x)

(* Nor does anything else ever get written on the way.                       *)
NoStrayWrite ==
  [][\A x \in DOMAIN ram : ram'[x] # ram[x] => JobBusy /\ ram'[x] = Expected(x)]_vars

(* The C mover asks for the port from the first cycle on, and once granted   *)
(* holds it until it has a result to write: were it granted before both      *)
(* operands are in, nobody could move again.                                 *)
OperandsBeforeWrites ==
  wp.state = "DATA" => ~startQ.q /\ eng.state # "LOAD" /\ ~Port!ReadBusy

(* "PERF_TILES still reports the descriptor's ceil(M/TM)*ceil(N/TN)*        *)
(* ceil(K/TK) count": the tiles the engine really computes, each counted    *)
(* once per slice of K it would take without pipelining.                    *)
TilesCounted ==
  job.given /\ ~JobBusy =>
    /\ (D["K"] - 1) \div D["TILE_K"] + 1 = perf.tiles \div job.tiles
    /\ perf.tiles % job.tiles = 0

(* Every accepted job ends. *)
JobsEnd == JobBusy ~> ~JobBusy

(* "Each accepted job raises DONE exactly once". *)
AcceptedJobsDone == JobBusy ~> desc.done
=============================================================================
