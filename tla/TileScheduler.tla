--------------------------- MODULE TileScheduler ---------------------------
(***************************************************************************)
(* tile_scheduler.sv: presents the tiles of a job one at a time, K first,  *)
(* and waits for tile_done.  One step is one clock edge.                   *)
(***************************************************************************)
EXTENDS Naturals

CONSTANTS TileM, TileN, TileK    \* largest tile the compute chain takes

VARIABLE sch     \* position, dimensions and tile sizes, in_flight, done, error

ResetScheduler ==
  [m |-> 0, n |-> 0, k |-> 0, dm |-> 0, dn |-> 0, dk |-> 0, tm |-> 0, tn |-> 0, tk |-> 0,
   inFlight |-> FALSE, done |-> FALSE, error |-> FALSE]

(* d is [m, n, k, tm, tn, tk]. *)
BadTiles(d) ==
  ~ /\ d.tm \in 1 .. TileM /\ d.tn \in 1 .. TileN /\ d.tk \in 1 .. TileK
    /\ d.tm % 4 = 0 /\ d.tn % 4 = 0

SchedulerBusy == sch.dm # 0 /\ sch.dn # 0 /\ sch.dk # 0
TileValid == SchedulerBusy /\ ~sch.inFlight

Clip(dim, at, tile) == IF dim - at < tile THEN dim - at ELSE tile

MLen == Clip(sch.dm, sch.m, sch.tm)
NLen == Clip(sch.dn, sch.n, sch.tn)
KLen == Clip(sch.dk, sch.k, sch.tk)
FirstK == sch.k = 0
LastK == sch.k + KLen >= sch.dk
LastN == sch.n + NLen >= sch.dn
LastM == sch.m + MLen >= sch.dm

(* The tile on offer. *)
Tile == [m |-> sch.m, n |-> sch.n, k |-> sch.k, mLen |-> MLen, nLen |-> NLen, kLen |-> KLen,
         firstK |-> FirstK, lastK |-> LastK]

Take(d) ==
  IF d.m = 0 \/ d.n = 0 \/ d.k = 0 \/ BadTiles(d) THEN [sch EXCEPT !.done = FALSE, !.error = TRUE]
  ELSE [ResetScheduler EXCEPT !.dm = d.m, !.dn = d.n, !.dk = d.k,
                              !.tm = d.tm, !.tn = d.tn, !.tk = d.tk]

(* K, then N, then M; after the last tile the dimensions are wiped. *)
Walk ==
  IF ~LastK     THEN [sch EXCEPT !.inFlight = FALSE, !.done = FALSE, !.k = @ + KLen]
  ELSE IF ~LastN THEN [sch EXCEPT !.inFlight = FALSE, !.done = FALSE, !.k = 0, !.n = @ + NLen]
  ELSE IF ~LastM THEN [sch EXCEPT !.inFlight = FALSE, !.done = FALSE, !.k = 0, !.n = 0, !.m = @ + MLen]
  ELSE [ResetScheduler EXCEPT !.tm = sch.tm, !.tn = sch.tn, !.tk = sch.tk, !.done = TRUE,
                              !.error = sch.error]

SchedulerClock(start, d, tileReady, tileDone) ==
  sch' = IF start /\ ~SchedulerBusy THEN Take(d)
         ELSE IF TileValid /\ tileReady THEN [sch EXCEPT !.inFlight = TRUE, !.done = FALSE]
         ELSE IF sch.inFlight /\ tileDone THEN Walk
         ELSE [sch EXCEPT !.done = FALSE]
=============================================================================
