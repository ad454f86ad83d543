------------------------------ MODULE MemPort ------------------------------
(***************************************************************************)
(* axi_dma_mem_port.sv: two read masters and one write master in front of  *)
(* one port of a synchronous RAM.  One step is one clock edge; parameters  *)
(* are the masters' wires.  A request is a record                          *)
(*   [valid, addr, len, plain]                                             *)
(* with addr in words, len as in AxLEN (beats - 1) and plain telling that  *)
(* the address is aligned and the burst a 32-bit INCR one.  Write strobes  *)
(* are those of axi4_write_dma: always all four lanes.                     *)
(***************************************************************************)
EXTENDS Integers

CONSTANTS Base, Depth

ASSUME MemPortAssumption ==
  /\ Base \in Nat
  /\ Depth \in Nat \ {0}

VARIABLES
  rp,      \* read side, with its two-entry skid FIFO
  wp,      \* write side
  ram,     \* the RAM behind the port
  rdata    \* the RAM's output register: the word at last cycle's address

ResetReadSide(word) ==
  [state |-> "IDLE", toB |-> FALSE, preferB |-> FALSE, word |-> 0,
   issueLeft |-> 0, popLeft |-> 0, pending |-> FALSE, pendingLast |-> FALSE,
   data |-> [i \in 0 .. 1 |-> word], last |-> [i \in 0 .. 1 |-> FALSE],
   count |-> 0, head |-> 0]

ResetWriteSide == [state |-> "IDLE", word |-> 0, left |-> 0, err |-> FALSE]

ReadBusy == rp.state # "IDLE"
WriteBusy == wp.state # "IDLE"

BugNoRoundRobin(a, b) == a.valid

(* Which reader is granted when both ask: they take turns. *)
PickA(a, b) == a.valid /\ (~b.valid \/ ~rp.preferB)
PickB(a, b) == b.valid /\ ~PickA(a, b)

(* Reads and writes exclude each other burst by burst; reads go first. *)
StartRead(a, b) == rp.state = "IDLE" /\ ~WriteBusy /\ (a.valid \/ b.valid)

BugWriteOverlaps(a, b, c) == wp.state = "IDLE" /\ ~StartRead(a, b) /\ c.valid

StartWrite(a, b, c) == wp.state = "IDLE" /\ ~ReadBusy /\ ~StartRead(a, b) /\ c.valid

(* ar_ok, aw_ok: the whole burst lies inside the RAM window. *)
Acceptable(q) == q.plain /\ q.addr >= Base /\ q.addr + q.len < Base + Depth

Chosen(a, b) == IF PickB(a, b) THEN b ELSE a
WordOf(q) == (q.addr - Base) % Depth

(* Output wires of the read side. *)
AReady(a, b) == StartRead(a, b) /\ PickA(a, b)
BReady(a, b) == StartRead(a, b) /\ PickB(a, b)
OutValid == rp.state = "BURST" /\ rp.count # 0
ErrValid == rp.state = "ERROR"
RValid(toB) == (OutValid \/ ErrValid) /\ rp.toB = toB
RLast == IF ErrValid THEN rp.popLeft = 1 ELSE rp.last[rp.head]
ROk == ~ErrValid
RData == rp.data[rp.head]

(* Output wires of the write side. *)
CReady(a, b, c) == StartWrite(a, b, c)
WReady == wp.state = "DATA"
BValid == wp.state = "RESP"
BOk == ~wp.err

(* rreadyA and rreadyB are the two readers' RREADY. *)
SelReady(rreadyA, rreadyB) == IF rp.toB THEN rreadyB ELSE rreadyA
OutPop(rreadyA, rreadyB) == OutValid /\ SelReady(rreadyA, rreadyB)
ErrPop(rreadyA, rreadyB) == ErrValid /\ SelReady(rreadyA, rreadyB)

Bit(b) == IF b THEN 1 ELSE 0

BugIgnoresPending(pop) == rp.count - Bit(pop)

(* Words the FIFO holds or is about to receive, once this cycle's pop is gone. *)
Occupancy(pop) == rp.count + Bit(rp.pending) - Bit(pop)

(* A RAM read is issued only when the FIFO can still absorb it. *)
Issue(pop) == rp.state = "BURST" /\ rp.issueLeft # 0 /\ Occupancy(pop) < 2

HeadAfterPop(pop) == IF pop THEN 1 - rp.head ELSE rp.head

PushSlot(pop) == (HeadAfterPop(pop) + rp.count - Bit(pop)) % 2

(* The registers of the read side outside its FSM: issue, push and pop. *)
Stream(pop) ==
  [rp EXCEPT
    !.pending = Issue(pop),
    !.pendingLast = Issue(pop) /\ rp.issueLeft = 1,
    !.word = IF Issue(pop) THEN (@ + 1) % Depth ELSE @,
    !.issueLeft = IF Issue(pop) THEN @ - 1 ELSE @,
    !.data = IF rp.pending THEN [@ EXCEPT ![PushSlot(pop)] = rdata] ELSE @,
    !.last = IF rp.pending THEN [@ EXCEPT ![PushSlot(pop)] = rp.pendingLast] ELSE @,
    !.count = @ - Bit(pop) + Bit(rp.pending),
    !.head = HeadAfterPop(pop)]

GrantRead(a, b, pop) ==
  LET q == Chosen(a, b)
  IN  [Stream(pop) EXCEPT
        !.toB = PickB(a, b), !.preferB = ~PickB(a, b), !.word = WordOf(q),
        !.issueLeft = q.len + 1, !.popLeft = q.len + 1,
        !.state = IF Acceptable(q) THEN "BURST" ELSE "ERROR"]

HandOver(pop) ==
  [Stream(pop) EXCEPT !.popLeft = @ - 1,
                      !.state = IF rp.popLeft = 1 THEN "IDLE" ELSE @]

ReadSide(a, b, rreadyA, rreadyB) ==
  LET pop == OutPop(rreadyA, rreadyB)
  IN  rp' = IF StartRead(a, b) THEN GrantRead(a, b, pop)
            ELSE IF pop \/ ErrPop(rreadyA, rreadyB) THEN HandOver(pop)
            ELSE Stream(pop)

(* w is the write data channel: [valid, data, last]. *)
WFire(w) == wp.state = "DATA" /\ w.valid

BurstEnds(w) == w.last \/ wp.left = 1

BugOnlyEarlyLast(w) == w.last /\ wp.left # 1

(* A WLAST that disagrees with AWLEN, either way. *)
LastMisplaced(w) == w.last # (wp.left = 1)

WriteSide(a, b, c, w, bready) ==
  wp' = CASE wp.state = "IDLE" ->
               IF StartWrite(a, b, c)
                 THEN [state |-> "DATA", word |-> WordOf(c), left |-> c.len + 1,
                       err |-> ~Acceptable(c)]
                 ELSE wp
          [] wp.state = "DATA" ->
               IF WFire(w)
                 THEN [wp EXCEPT !.word = (@ + 1) % Depth, !.left = @ - 1,
                                 !.err = @ \/ LastMisplaced(w),
                                 !.state = IF BurstEnds(w) THEN "RESP" ELSE @]
                 ELSE wp
          [] wp.state = "RESP" -> [wp EXCEPT !.state = IF bready THEN "IDLE" ELSE @]

BugWritesOnError(w) == WFire(w)

WriteEnable(w) == WFire(w) /\ ~wp.err

(* The RAM port: one address, the writer's during a write burst. *)
MemAddr == IF wp.state = "DATA" THEN wp.word ELSE rp.word

Memory(w) ==
  /\ rdata' = ram[MemAddr]
  /\ ram' = IF WriteEnable(w) THEN [ram EXCEPT ![MemAddr] = w.data] ELSE ram

Clock(a, b, c, rreadyA, rreadyB, w, bready) ==
  /\ ReadSide(a, b, rreadyA, rreadyB)
  /\ WriteSide(a, b, c, w, bready)
  /\ Memory(w)
=============================================================================
