------------------------------- MODULE MemBus ------------------------------
(***************************************************************************)
(* axi_dma_mem_port with three AXI masters around it: two readers that     *)
(* hold a request until it is granted and may stall every beat, and one    *)
(* writer that may stall and may end a burst with WLAST on the wrong beat. *)
(* Every clock all four advance together.                                  *)
(***************************************************************************)
EXTENDS MemPort

CONSTANTS Words, ReadRequests, WriteRequests

RequestType == [addr : Nat, len : Nat, plain : BOOLEAN]

ASSUME MemBusAssumption ==
  /\ Words # {}
  /\ ReadRequests \subseteq RequestType
  /\ WriteRequests \subseteq RequestType

VARIABLES
  readers,   \* the two read masters, FALSE: A, TRUE: B (as rsel_b)
  writer     \* the write master

vars == <<rp, wp, ram, rdata, readers, writer>>

(* A master is idle, asks for a burst, moves its n beats, and, for the      *)
(* writer, awaits the response; passed counts grants to the other reader    *)
(* since it began to ask, bad tells that WLAST was misplaced.               *)
AtRest(q) == [phase |-> "idle", req |-> q, n |-> 0, passed |-> 0]
Asking(q) == [AtRest(q) EXCEPT !.phase = "ask"]
WriterAtRest(q) == [phase |-> "idle", req |-> q, n |-> 0, bad |-> FALSE]
WriterAsking(q) == [WriterAtRest(q) EXCEPT !.phase = "ask"]

NoRequest == [addr |-> 0, len |-> 0, plain |-> TRUE]

Init == \E w \in Words :
  /\ rp = ResetReadSide(w)
  /\ wp = ResetWriteSide
  /\ rdata = w
  /\ ram = [i \in 0 .. Depth - 1 |-> w]
  /\ readers = [b \in BOOLEAN |-> AtRest(NoRequest)]
  /\ writer = WriterAtRest(NoRequest)

Wire(m) ==
  [valid |-> m.phase = "ask", addr |-> m.req.addr, len |-> m.req.len, plain |-> m.req.plain]

A == Wire(readers[FALSE])
B == Wire(readers[TRUE])
C == Wire(writer)
Granted(toB) == IF toB THEN BReady(A, B) ELSE AReady(A, B)

Rests == {AtRest(NoRequest)} \cup {Asking(q) : q \in ReadRequests}
WriterRests == {WriterAtRest(NoRequest)} \cup {WriterAsking(q) : q \in WriteRequests}

(* What a reader may be after this clock, with its RREADY. *)
ReaderNext(toB, rready) ==
  LET m == readers[toB]
  IN  CASE m.phase = "idle" -> Rests
        [] m.phase = "ask" ->
             {IF Granted(toB) THEN [m EXCEPT !.phase = "take"]
              ELSE IF Granted(~toB) THEN [m EXCEPT !.passed = IF @ = 2 THEN 2 ELSE @ + 1]
              ELSE m}
        [] m.phase = "take" ->
             IF ~(RValid(toB) /\ rready) THEN {m}
             ELSE IF RLast THEN Rests
             ELSE {[m EXCEPT !.n = @ + 1]}

(* The same for the writer, with its write-data channel and BREADY. *)
WriterNext(w, bready) ==
  CASE writer.phase = "idle" -> WriterRests
    [] writer.phase = "ask" ->
         {IF CReady(A, B, C) THEN [writer EXCEPT !.phase = "send"] ELSE writer}
    [] writer.phase = "send" ->
         {IF ~(w.valid /\ WReady) THEN writer
          ELSE [writer EXCEPT !.n = @ + 1,
                              !.bad = @ \/ w.last # (writer.n = writer.req.len),
                              !.phase = IF w.last \/ writer.n = writer.req.len
                                          THEN "respond" ELSE "send"]}
    [] writer.phase = "respond" -> IF BValid /\ bready THEN WriterRests ELSE {writer}

Silence == [valid |-> FALSE, data |-> rdata, last |-> FALSE]

WriteBeats ==
  {Silence} \cup
    (IF writer.phase = "send" THEN [valid : {TRUE}, data : Words, last : BOOLEAN] ELSE {})

Cycle(rreadyA, rreadyB, w, bready) ==
  /\ Clock(A, B, C, rreadyA, rreadyB, w, bready)
  /\ \E a \in ReaderNext(FALSE, rreadyA), b \in ReaderNext(TRUE, rreadyB) :
       readers' = [toB \in BOOLEAN |-> IF toB THEN b ELSE a]
  /\ writer' \in WriterNext(w, bready)

Next == \E rreadyA, rreadyB, bready \in BOOLEAN, w \in WriteBeats :
  Cycle(rreadyA, rreadyB, w, bready)

Spec == Init /\ [][Next]_vars

-----------------------------------------------------------------------------
(* Every beat offered to a reader is the next beat of its own burst: the    *)
(* RAM word of that address, RLAST on the last one, and an error on every   *)
(* beat exactly when the burst leaves the window; and a stalled master      *)
(* never costs a word: what the FIFO holds and what the RAM is about to     *)
(* return fit in its two entries.                                           *)
BeatRight == rp.count + Bit(rp.pending) <= 2 /\ \A toB \in BOOLEAN :
  LET m == readers[toB]
  IN  RValid(toB) =>
        /\ m.phase = "take"
        /\ RLast = (m.n = m.req.len)
        /\ ROk = Acceptable(m.req)
        /\ ROk => RData = ram[m.req.addr - Base + m.n]

(* RAM changes only at the writer's own next word, inside a burst that lies *)
(* in the window: a bad descriptor never corrupts memory.                   *)
OnlyOwnWrites ==
  [][\A i \in 0 .. Depth - 1 :
       ram'[i] # ram[i] => /\ writer.phase = "send"
                           /\ Acceptable(writer.req)
                           /\ i = writer.req.addr - Base + writer.n]_vars

(* The response to a write tells whether it was taken whole and in order. *)
ResponseExact ==
  BValid => /\ writer.phase = "respond"
            /\ BOk = (Acceptable(writer.req) /\ ~writer.bad)

(* Round robin: a waiting reader sees the other one granted at most once. *)
BypassBounded == \A toB \in BOOLEAN : readers[toB].passed <= 1
=============================================================================
