---------------------------- MODULE AxiLiteSlave ---------------------------
(***************************************************************************)
(* axi_lite_slave.sv: AXI4-Lite on one side, a register port on the other. *)
(* It holds one write address and one write data, which may come in either *)
(* order, one write response and one read response.  One step is one clock *)
(* edge; m gives the wires of the master:                                  *)
(*   aw and ar: [valid, addr]; w: [valid, data, strb]; bready and rready.  *)
(***************************************************************************)
EXTENDS Integers

VARIABLE axi     \* aw_full, aw_addr_q, w_full, w_data_q, w_strb_q, B and R

ResetAxi(addr) ==
  [awFull |-> FALSE, addr |-> addr,
   wFull |-> FALSE, data |-> [lane \in 0 .. 3 |-> 0], strb |-> {},
   b |-> [valid |-> FALSE, resp |-> "OKAY"],
   r |-> [valid |-> FALSE, data |-> 0, resp |-> "OKAY"]]

AwReady == ~axi.awFull
WReady == ~axi.wFull
ArReady == ~axi.r.valid

BugWriteOverResponse == axi.awFull /\ axi.wFull

(* A write waits for its other half, and for the last response to leave. *)
DoWrite == axi.awFull /\ axi.wFull /\ ~axi.b.valid
DoRead(m) == m.ar.valid /\ ArReady

(* The register port samples this on every clock. *)
RegWrite == [en |-> DoWrite, addr |-> axi.addr, data |-> axi.data, strb |-> axi.strb]

(* resp answers the write and read the read, in the same clock. *)
AxiClock(m, resp, read) ==
  axi' =
    [awFull |-> (m.aw.valid /\ AwReady) \/ (axi.awFull /\ ~DoWrite),
     addr   |-> IF m.aw.valid /\ AwReady THEN m.aw.addr ELSE axi.addr,
     wFull  |-> (m.w.valid /\ WReady) \/ (axi.wFull /\ ~DoWrite),
     data   |-> IF m.w.valid /\ WReady THEN m.w.data ELSE axi.data,
     strb   |-> IF m.w.valid /\ WReady THEN m.w.strb ELSE axi.strb,
     b |-> IF DoWrite THEN [valid |-> TRUE, resp |-> resp]
           ELSE [axi.b EXCEPT !.valid = @ /\ ~m.bready],
     r |-> IF DoRead(m) THEN [valid |-> TRUE, data |-> read.data, resp |-> read.resp]
           ELSE [axi.r EXCEPT !.valid = @ /\ ~m.rready]]
=============================================================================
