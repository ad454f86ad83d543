----------------------------- MODULE TileBuffer ----------------------------
(***************************************************************************)
(* tiled_matrix_tile_buffer.sv: holds the matrices, presents one padded    *)
(* tile at a time to the compute chain, captures the tiles of C and        *)
(* streams C when all have come.  One step is one clock edge.              *)
(***************************************************************************)
EXTENDS Integers

CONSTANTS N, MaxM, MaxN, MaxK

VARIABLES
  buf,      \* state, dimensions, counters, the tile in hand, the output pulses
  bmem      \* a_mem, b_mem and c_mem

NoTile == [m |-> 0, n |-> 0, k |-> 0, mLen |-> 0, nLen |-> 0, kLen |-> 0,
           firstK |-> FALSE, lastK |-> FALSE]

ResetBuffer ==
  [state |-> "IDLE", m |-> 0, n |-> 0, k |-> 0, a |-> 0, b |-> 0, word |-> 0, c |-> 0, out |-> 0,
   tile |-> NoTile, launch |-> FALSE, done |-> FALSE, error |-> FALSE]

(* The memories have no reset: they come up holding anything. *)
Matrices(x) ==
  [a |-> [p \in (0 .. MaxM - 1) \X (0 .. MaxK - 1) |-> x],
   b |-> [p \in (0 .. MaxK - 1) \X (0 .. MaxN - 1) |-> x],
   c |-> [p \in (0 .. MaxM - 1) \X (0 .. MaxN - 1) |-> x]]

WordsPerRow == N \div 4
InWords(bytes) == (bytes + 3) \div 4
AWords == InWords(buf.m * buf.k)
BWords == InWords(buf.k * buf.n)
TileWords == buf.tile.kLen * WordsPerRow
CWords == buf.m * buf.n

BufferBusy == buf.state # "IDLE"
AInReady == buf.state = "LOAD" /\ buf.a < AWords
BInReady == buf.state = "LOAD" /\ buf.b < BWords
TileReady == buf.state = "READY"
TileWordValid == buf.state = "SEND"
TileCReady == buf.state = "CAPTURE"
COutValid == buf.state = "OUTPUT"
COutLast == COutValid /\ buf.out = CWords - 1
COutData == bmem.c[<<buf.out \div buf.n, buf.out % buf.n>>]

(* Word buf.word of the tile in hand, in feed order, zero outside the matrix. *)
FeedK == buf.word \div WordsPerRow
FeedLane(lane) == (buf.word % WordsPerRow) * 4 + lane

TileAWord ==
  [lane \in 0 .. 3 |->
    IF FeedLane(lane) < buf.tile.mLen /\ FeedK < buf.tile.kLen
      THEN bmem.a[<<buf.tile.m + FeedLane(lane), buf.tile.k + FeedK>>] ELSE 0]
TileBWord ==
  [lane \in 0 .. 3 |->
    IF FeedLane(lane) < buf.tile.nLen /\ FeedK < buf.tile.kLen
      THEN bmem.b[<<buf.tile.k + FeedK, buf.tile.n + FeedLane(lane)>>] ELSE 0]

Go(s) == [buf EXCEPT !.state = s, !.launch = FALSE, !.done = FALSE]

BufferIdle(start, d) ==
  /\ buf.state = "IDLE"
  /\ buf' = IF ~start THEN Go("IDLE")
            ELSE IF d.m \notin 1 .. MaxM \/ d.n \notin 1 .. MaxN \/ d.k \notin 1 .. MaxK
              THEN [Go("IDLE") EXCEPT !.error = TRUE]
            ELSE [Go("LOAD") EXCEPT !.m = d.m, !.n = d.n, !.k = d.k, !.a = 0, !.b = 0, !.error = FALSE]
  /\ UNCHANGED bmem

SignedByte(bits) == IF bits < 128 THEN bits ELSE bits - 256

(* Word w of a row-major stream of bytes, cols to a row, spread over cells. *)
Spread(cells, word, w, bytes, cols) ==
  [p \in DOMAIN cells |->
    LET i == p[1] * cols + p[2]
    IN  IF p[2] < cols /\ i \div 4 = w /\ i < bytes THEN SignedByte(word[i % 4]) ELSE cells[p]]

BufferLoad(a, b) ==
  /\ buf.state = "LOAD"
  /\ LET takeA == a.valid /\ AInReady
         takeB == b.valid /\ BInReady
         nextA == IF takeA THEN buf.a + 1 ELSE buf.a
         nextB == IF takeB THEN buf.b + 1 ELSE buf.b
         whole == nextA >= AWords /\ nextB >= BWords
     IN  /\ bmem' = [bmem EXCEPT
                       !.a = IF takeA THEN Spread(@, a.word, buf.a, buf.m * buf.k, buf.k) ELSE @,
                       !.b = IF takeB THEN Spread(@, b.word, buf.b, buf.k * buf.n, buf.n) ELSE @]
         /\ buf' = [Go(IF whole THEN "READY" ELSE "LOAD") EXCEPT !.a = nextA, !.b = nextB, !.launch = whole]

BufferReady(tileValid, tile, computeDone) ==
  /\ buf.state = "READY"
  /\ buf' = IF computeDone THEN [Go("OUTPUT") EXCEPT !.out = 0]
            ELSE IF tileValid THEN [Go("SEND") EXCEPT !.tile = tile, !.word = 0]
            ELSE Go("READY")
  /\ UNCHANGED bmem

BufferSend(aReady, bReady) ==
  /\ buf.state = "SEND"
  /\ buf' = IF ~(aReady /\ bReady) THEN Go("SEND")
            ELSE IF buf.word = TileWords - 1 THEN [Go("CAPTURE") EXCEPT !.c = 0]
            ELSE [Go("SEND") EXCEPT !.word = @ + 1]
  /\ UNCHANGED bmem

(* A tile that is not the last of its K sums emits no words. *)
NothingToCapture(tileDone) == tileDone /\ ~buf.tile.lastK

BufferCapture(cValid, cData, tileDone) ==
  /\ buf.state = "CAPTURE"
  /\ LET row == buf.c \div N
         col == buf.c % N
     IN  bmem' = IF cValid /\ row < buf.tile.mLen /\ col < buf.tile.nLen
                   THEN [bmem EXCEPT !.c[<<buf.tile.m + row, buf.tile.n + col>>] = cData] ELSE bmem
  /\ buf' = IF cValid
              THEN IF buf.c = N * N - 1 THEN Go("READY") ELSE [Go("CAPTURE") EXCEPT !.c = @ + 1]
            ELSE Go(IF NothingToCapture(tileDone) THEN "READY" ELSE "CAPTURE")

BufferOutput(cready) ==
  /\ buf.state = "OUTPUT"
  /\ buf' = IF ~cready THEN Go("OUTPUT")
            ELSE IF COutLast THEN [Go("IDLE") EXCEPT !.done = TRUE]
            ELSE [Go("OUTPUT") EXCEPT !.out = @ + 1]
  /\ UNCHANGED bmem
=============================================================================
