--------------------------- MODULE ReferencePath ---------------------------
(***************************************************************************)
(* The compute path of tiled_stream_gemm_top.sv with PIPELINED = 0: tile   *)
(* buffer and tiled_gemm_controller.sv.  One step is one clock edge of     *)
(* both.                                                                   *)
(***************************************************************************)
EXTENDS GemmController

CONSTANTS MaxM, MaxN

VARIABLES
  startQ,          \* the latched START and its descriptor
  buf, bmem        \* tiled_matrix_tile_buffer

pathVars == <<startQ, buf, bmem, sch, adp, vectors, arr, tac, sums>>

Buf == INSTANCE TileBuffer

NoJob == [q |-> FALSE, d |-> [m |-> 0, n |-> 0, k |-> 0, tm |-> 0, tn |-> 0, tk |-> 0]]

PathBusy == Buf!BufferBusy \/ ControllerBusy
PathError == buf.error \/ ControllerError

StreamOf(word) == [valid |-> Buf!TileWordValid, word |-> word]

(* d is the descriptor at the port, a and b the operand streams. *)
StartClock(start, d) ==
  startQ' = IF start /\ ~PathBusy THEN [q |-> TRUE, d |-> d] ELSE [startQ EXCEPT !.q = FALSE]

BufferClock(a, b, cready) ==
  \/ Buf!BufferIdle(startQ.q, startQ.d)
  \/ Buf!BufferLoad(a, b)
  \/ Buf!BufferReady(Sch!TileValid, Sch!Tile, sch.done)
  \/ Buf!BufferSend(Adp!AReady, Adp!BReady)
  \/ Buf!BufferCapture(Acc!OutValid, Acc!OutData, tac.tileDone)
  \/ Buf!BufferOutput(cready)

PathClock(start, d, a, b, cready) ==
  /\ StartClock(start, d)
  /\ BufferClock(a, b, cready)
  /\ ControllerClock(buf.launch, startQ.d, Buf!TileReady, StreamOf(Buf!TileAWord),
                     StreamOf(Buf!TileBWord), Buf!TileCReady)
=============================================================================
