------------------------------ MODULE AccelCtrl ----------------------------
(***************************************************************************)
(* accel_ctrl.sv around its array: register file, operand buffers and run  *)
(* FSM of the accelerator of docs/register_map.md.  One step is one clock  *)
(* edge; w is the register write it samples, [en, addr, data, strb], data  *)
(* being four bytes.  An address is a window and a word in it; the words   *)
(* of REGS go by name, "HOLE" for the unmapped ones.                       *)
(***************************************************************************)
EXTENDS SystolicArray

CONSTANTS
  KMax,
  WordWrap    \* 2^32: the range of a word

ASSUME AccelCtrlAssumption ==
  N % 4 = 0 /\ KMax \in Nat \ {0} /\ KMax <= 65535 /\ WordWrap \in Nat \ {0}

VARIABLES
  ctrl,     \* FSM state and counters, irq_en, done, err, len, the counters
  opnd      \* a_mem and b_mem, words of four bytes

ResetCtrl == [state |-> "IDLE", irqEn |-> FALSE, done |-> FALSE, err |-> FALSE, len |-> 0,
              feedK |-> 0, drain |-> 0, cycles |-> 0, active |-> 0, macs |-> 0]

WordsPerVector == N \div 4
BufWords == KMax * WordsPerVector
ResWords == N * N
DrainCycles == 2 * N - 2 + 1

ReadOnly == {"INFO", "CYCLES", "ACTIVE_CYCLES", "MAC_COUNT_LO", "MAC_COUNT_HI"}
Reg(name) == [win |-> "REGS", word |-> name]

CtrlBusy == ctrl.state # "IDLE"
Bit(x, i) == (x \div 2^i) % 2 = 1

Mapped(addr) ==
  CASE addr.win = "REGS" -> addr.word \in ReadOnly \cup {"CTRL", "STATUS", "LEN"}
    [] addr.win = "C" -> addr.word < ResWords
    [] OTHER -> addr.word < BufWords

LockedInRun(addr) == addr.win \in {"A", "B"} \/ addr = Reg("LEN")

WriteResponse(addr) ==
  IF ~Mapped(addr) THEN "DECERR"
  ELSE IF addr.win = "C" \/ (addr.win = "REGS" /\ addr.word \in ReadOnly) \/ (LockedInRun(addr) /\ CtrlBusy)
    THEN "SLVERR"
  ELSE "OKAY"

(* Lane 0 carries the bits of CTRL and STATUS. *)
Commands(w, name, bit) == w.en /\ w.addr = Reg(name) /\ 0 \in w.strb /\ Bit(w.data[0], bit)
ReqStart(w) == Commands(w, "CTRL", 0)
ReqClrAcc(w) == Commands(w, "CTRL", 1)
ReqSoftRst(w) == Commands(w, "CTRL", 2)

BugLenBelowMax == ctrl.len \in 1 .. KMax - 1

LenValid == ctrl.len \in 1 .. KMax

Stored(w, addr) == w.en /\ w.addr = addr /\ WriteResponse(addr) = "OKAY"
Byte(old, w, addr, lane) == IF Stored(w, addr) /\ lane \in w.strb THEN w.data[lane] ELSE old

(* What every clock does before the FSM has its say. *)
Configured(w) ==
  [ctrl EXCEPT
    !.irqEn = IF w.en /\ w.addr = Reg("CTRL") /\ 0 \in w.strb THEN Bit(w.data[0], 3) ELSE @,
    !.len = Byte(@ % 256, w, Reg("LEN"), 0) + 256 * Byte(@ \div 256, w, Reg("LEN"), 1),
    !.done = @ /\ ~Commands(w, "STATUS", 1),
    !.err = @ /\ ~Commands(w, "STATUS", 2),
    !.cycles = IF CtrlBusy THEN @ + 1 ELSE @]

(* A command that finds a run in flight is refused. *)
InRun(w) == [Configured(w) EXCEPT !.err = @ \/ ReqStart(w) \/ ReqClrAcc(w)]

SoftReset(w) ==
  /\ ReqSoftRst(w)
  /\ ctrl' = [Configured(w) EXCEPT !.state = "IDLE", !.done = FALSE, !.err = FALSE]

Idle(w) ==
  /\ ~ReqSoftRst(w) /\ ctrl.state = "IDLE"
  /\ ctrl' = IF ~ReqStart(w) THEN Configured(w)
             ELSE IF ~LenValid THEN [Configured(w) EXCEPT !.err = TRUE]
             ELSE [Configured(w) EXCEPT !.state = "CLEAR", !.done = FALSE,
                                        !.cycles = 0, !.active = 0, !.macs = 0]

Clear(w) ==
  /\ ~ReqSoftRst(w) /\ ctrl.state = "CLEAR"
  /\ ctrl' = [InRun(w) EXCEPT !.state = "FEED", !.feedK = 0]

Feed(w) ==
  /\ ~ReqSoftRst(w) /\ ctrl.state = "FEED"
  /\ LET fed == [InRun(w) EXCEPT !.active = @ + 1, !.macs = @ + N * N]
     IN  ctrl' = IF ctrl.feedK = ctrl.len - 1 THEN [fed EXCEPT !.state = "DRAIN", !.drain = 0]
                 ELSE [fed EXCEPT !.feedK = @ + 1]

BugClearWins(w) == ~Commands(w, "STATUS", 1)

(* The end of a run sets DONE, even on the clock that clears it. *)
DoneAtEnd(w) == TRUE

BugDrainShort == ctrl.drain = DrainCycles - 2

DrainOver == ctrl.drain = DrainCycles - 1

Drain(w) ==
  /\ ~ReqSoftRst(w) /\ ctrl.state = "DRAIN"
  /\ LET drained == [InRun(w) EXCEPT !.active = @ + 1]
     IN  ctrl' = IF DrainOver THEN [drained EXCEPT !.state = "IDLE", !.done = DoneAtEnd(w)]
                 ELSE [drained EXCEPT !.drain = @ + 1]

(* The operand buffers, which no reset reaches. *)
BufferClock(w) ==
  opnd' = [win \in {"A", "B"} |-> [i \in 0 .. BufWords - 1 |-> [lane \in 0 .. 3 |->
            Byte(opnd[win][i][lane], w, [win |-> win, word |-> i], lane)]]]

(* Feed vector feed_k of a buffer, zeros outside S_FEED. *)
SignedByte(bits) == IF bits < 128 THEN bits ELSE bits - 256

Vector(win) ==
  [i \in Lanes |-> IF ctrl.state # "FEED" THEN 0
                   ELSE SignedByte(opnd[win][ctrl.feedK * WordsPerVector + i \div 4][i % 4])]

ArrayDrive(w) ==
  ArrayClock(ctrl.state \in {"FEED", "DRAIN"},
             ctrl.state = "CLEAR" \/ ReqSoftRst(w) \/ (ReqClrAcc(w) /\ ~CtrlBusy),
             ctrl.state = "CLEAR" \/ ReqSoftRst(w), Vector("A"), Vector("B"))

CtrlClock(w) ==
  /\ SoftReset(w) \/ Idle(w) \/ Clear(w) \/ Feed(w) \/ Drain(w)
  /\ BufferClock(w)
  /\ ArrayDrive(w)

Irq == ctrl.done /\ ctrl.irqEn

(* What a read of an address returns this cycle. *)
Flag(x, i) == IF x THEN 2^i ELSE 0

RegisterData(name) ==
  CASE name = "CTRL" -> Flag(ctrl.irqEn, 3)
    [] name = "STATUS" -> Flag(CtrlBusy, 0) + Flag(ctrl.done, 1) + Flag(ctrl.err, 2)
    [] name = "LEN" -> ctrl.len
    [] name = "INFO" -> 65536 * KMax + 256 * 8 + N
    [] name = "CYCLES" -> ctrl.cycles
    [] name = "ACTIVE_CYCLES" -> ctrl.active
    [] name = "MAC_COUNT_LO" -> ctrl.macs % WordWrap
    [] name = "MAC_COUNT_HI" -> ctrl.macs \div WordWrap

ReadData(addr) ==
  CASE ~Mapped(addr) -> 0
    [] Mapped(addr) /\ addr.win = "REGS" -> RegisterData(addr.word)
    [] Mapped(addr) /\ addr.win = "C" -> arr.acc[<<addr.word \div N, addr.word % N>>]
    [] OTHER -> opnd[addr.win][addr.word]

RegRead(addr) == [data |-> ReadData(addr), resp |-> IF Mapped(addr) THEN "OKAY" ELSE "DECERR"]
=============================================================================
