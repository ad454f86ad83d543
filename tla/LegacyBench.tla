---------------------------- MODULE LegacyBench ----------------------------
(***************************************************************************)
(* systolic_accel_top.sv: bus slave, control and array, with an AXI4-Lite  *)
(* master in front.  The master takes any time on each of its channels,    *)
(* sends address and data of a write in either order and may have          *)
(* Outstanding writes under way.  Software is the driver of                *)
(* sw/accelerator.h, which runs one job after the other as                 *)
(* sim/accel_host.py does and waits for every access; or anyone, who       *)
(* issues MaxFree writes of Writes whenever there is room for one.         *)
(***************************************************************************)
EXTENDS AccelCtrl, AxiLiteSlave, SequencesExt

CONSTANTS
  Outstanding,
  Operands,    \* what the driver multiplies: k, and bytes a[<<r, i>>] and b[<<i, c>>], i < k
  Writes,      \* [addr, data, strb]
  MaxFree

SignedBytes == -128 .. 127
Word == [0 .. 3 -> 0 .. 255]
Address == [win : {"REGS"}, word : ReadOnly \cup {"CTRL", "STATUS", "LEN", "HOLE"}]
             \cup [win : {"A", "B", "C"}, word : Nat]

ASSUME LegacyBenchAssumption ==
  /\ Outstanding \in Nat \ {0} /\ MaxFree \in Nat
  /\ \A job \in Operands :
       /\ job.k \in 1 .. KMax
       /\ job.a \in [Lanes \X (0 .. job.k - 1) -> SignedBytes]
       /\ job.b \in [(0 .. job.k - 1) \X Lanes -> SignedBytes]
  /\ Writes \subseteq [addr : Address, data : Word, strb : SUBSET (0 .. 3)]

VARIABLES
  bus,     \* writes under way, oldest first, and the read, if any
  sw,      \* the program: where it is, its job and what it has read
  run,     \* the latest run: its operands and LEN, and what became of it
  told     \* LEN and buffers as the OKAYs software has seen make them

vars == <<ctrl, opnd, arr, axi, bus, sw, run, told>>

Put(addr, value) ==
  [addr |-> addr, strb |-> {0, 1, 2, 3},
   data |-> [lane \in 0 .. 3 |-> (value \div 256^lane) % 256]]

Blank == [lane \in 0 .. 3 |-> 0]
EmptyBuffers == [win \in {"A", "B"} |-> [i \in 0 .. BufWords - 1 |-> Blank]]

NoRead == [at |-> "none", addr |-> Reg("STATUS")]

Init ==
  /\ ctrl = ResetCtrl
  /\ opnd = EmptyBuffers
  /\ arr = ResetArray
  /\ axi = ResetAxi(Reg("CTRL"))
  /\ bus = [writes |-> <<>>, read |-> NoRead]
  /\ \E start \in {"idle", "free"}, job \in Operands :
       sw = [at |-> start, job |-> job, i |-> 0, macLo |-> 0, macs |-> 0, c |-> 0]
  /\ run = [outcome |-> "none", opnd |-> EmptyBuffers, k |-> 0]
  /\ told = [len |-> 0, opnd |-> EmptyBuffers]

-----------------------------------------------------------------------------
(* The master: what it drives on its five channels this clock.              *)
First(ws, flag) == SelectInSeq(ws, LAMBDA x : ~x[flag])

Channel(sent, go) ==
  LET i == First(bus.writes, sent)
  IN  [valid |-> go /\ i # 0,
       addr |-> IF i = 0 THEN axi.addr ELSE bus.writes[i].w.addr,
       data |-> IF i = 0 THEN axi.data ELSE bus.writes[i].w.data,
       strb |-> IF i = 0 THEN axi.strb ELSE bus.writes[i].w.strb]

Wires(go) ==
  [aw |-> Channel("aw", "aw" \in go), w |-> Channel("data", "w" \in go), bready |-> "b" \in go,
   ar |-> [valid |-> "ar" \in go /\ bus.read.at = "ask", addr |-> bus.read.addr],
   rready |-> "r" \in go]

(* Channels on which something would move. *)
Movable ==
  {x \in {"aw", "w", "b", "ar", "r"} :
    CASE x = "aw" -> AwReady /\ First(bus.writes, "aw") # 0
      [] x = "w" -> WReady /\ First(bus.writes, "data") # 0
      [] x = "b" -> axi.b.valid
      [] x = "ar" -> ArReady /\ bus.read.at = "ask"
      [] x = "r" -> axi.r.valid}

Mark(ws, flag, moved) ==
  IF moved THEN [ws EXCEPT ![First(ws, flag)] = [@ EXCEPT ![flag] = TRUE]] ELSE ws

Issue(w) == [w |-> w, aw |-> FALSE, data |-> FALSE, performed |-> FALSE]

(* op is what software issues in this clock: at most one write and one read. *)
BusClock(go, op) ==
  LET addressed == Mark(bus.writes, "aw", "aw" \in go)
      sent == Mark(addressed, "data", "w" \in go)
      performed == Mark(sent, "performed", DoWrite)
      left == IF "b" \in go THEN Tail(performed) ELSE performed
  IN  bus' = [writes |-> IF op.write = {} THEN left
                         ELSE Append(left, Issue(CHOOSE w \in op.write : TRUE)),
              read |-> IF op.read # {} THEN [at |-> "ask", addr |-> CHOOSE a \in op.read : TRUE]
                       ELSE IF "ar" \in go THEN [bus.read EXCEPT !.at = "wait"]
                       ELSE IF "r" \in go THEN [bus.read EXCEPT !.at = "none"]
                       ELSE bus.read]

(* What software knows once a write is answered OKAY. *)
Believe(known, w) ==
  [len |-> IF w.addr = Reg("LEN")
             THEN (IF 0 \in w.strb THEN w.data[0] ELSE known.len % 256)
                   + 256 * (IF 1 \in w.strb THEN w.data[1] ELSE known.len \div 256)
             ELSE known.len,
   opnd |-> [win \in {"A", "B"} |-> [i \in 0 .. BufWords - 1 |->
              IF w.addr = [win |-> win, word |-> i]
                THEN [lane \in 0 .. 3 |-> IF lane \in w.strb THEN w.data[lane] ELSE known.opnd[win][i][lane]]
              ELSE known.opnd[win][i]]]]

ToldClock(go) ==
  told' = IF "b" \in go /\ axi.b.resp = "OKAY" THEN Believe(told, Head(bus.writes).w) ELSE told

RunClock ==
  run' = IF ReqSoftRst(RegWrite) THEN [run EXCEPT !.outcome = "discarded"]
         ELSE IF CtrlBusy THEN [run EXCEPT !.outcome = IF ctrl'.state = "IDLE" THEN "finished" ELSE @]
         ELSE IF ctrl'.state # "IDLE" THEN [outcome |-> "running", opnd |-> opnd, k |-> ctrl.len]
         ELSE IF ReqClrAcc(RegWrite) THEN [run EXCEPT !.outcome = "discarded"]
         ELSE run

Cycle(go, op) ==
  /\ go \subseteq Movable
  /\ CtrlClock(RegWrite)
  /\ AxiClock(Wires(go), WriteResponse(RegWrite.addr), RegRead(bus.read.addr))
  /\ BusClock(go, op)
  /\ ToldClock(go)
  /\ RunClock

Nothing == [write |-> {}, read |-> {}]
WriteOp(w) == [Nothing EXCEPT !.write = {w}]
ReadOp(addr) == [Nothing EXCEPT !.read = {addr}]

Wait(go) == "r" \notin go /\ Cycle(go, Nothing) /\ UNCHANGED sw

-----------------------------------------------------------------------------
(* The driver.  sw.at names what it does next; it goes on when the access   *)
(* before is over.                                                          *)
Synced == bus.writes = <<>> /\ bus.read.at = "none"
K == sw.job.k

Does(op, next) == Synced /\ Cycle({}, op) /\ sw' = next
Reading(addr) == Does(ReadOp(addr), sw)

(* The answer to a read, when it comes. *)
Answer(go, addr, next) ==
  /\ "r" \in go /\ bus.read.addr = addr
  /\ Cycle(go, Nothing)
  /\ sw' = next

(* pack_a() and pack_b(): feed order, vector by vector. *)
Window(job, win, i) ==
  LET k == i \div WordsPerVector
      lane0 == 4 * (i % WordsPerVector)
  IN  [addr |-> [win |-> win, word |-> i], strb |-> {0, 1, 2, 3},
       data |-> [lane \in 0 .. 3 |->
         (IF win = "A" THEN job.a[<<lane0 + lane, k>>] ELSE job.b[<<k, lane0 + lane>>]) % 256]]

Load ==
  LET words == K * WordsPerVector
      win == IF sw.i < words THEN "A" ELSE "B"
  IN  /\ sw.at = "idle"
      /\ Does(WriteOp(Window(sw.job, win, sw.i % words)),
              IF sw.i + 1 < 2 * words THEN [sw EXCEPT !.i = @ + 1]
              ELSE [sw EXCEPT !.i = 0, !.at = "len"])

accel_start ==
  \/ sw.at = "len" /\ Does(WriteOp(Put(Reg("LEN"), K)), [sw EXCEPT !.at = "start"])
  \/ sw.at = "start" /\ \E irq \in BOOLEAN :
       Does(WriteOp(Put(Reg("CTRL"), 1 + Flag(irq, 3))), [sw EXCEPT !.at = "poll"])

accel_done(go) ==
  /\ sw.at = "poll"
  /\ \/ Reading(Reg("STATUS"))
     \/ Answer(go, Reg("STATUS"), [sw EXCEPT !.at = IF Bit(axi.r.data, 1) THEN "macLo" ELSE "poll"])

accel_mac_count(go) ==
  \/ /\ sw.at = "macLo"
     /\ \/ Reading(Reg("MAC_COUNT_LO"))
        \/ Answer(go, Reg("MAC_COUNT_LO"), [sw EXCEPT !.at = "macHi", !.macLo = axi.r.data])
  \/ /\ sw.at = "macHi"
     /\ \/ Reading(Reg("MAC_COUNT_HI"))
        \/ Answer(go, Reg("MAC_COUNT_HI"),
                  [sw EXCEPT !.at = "c", !.macs = axi.r.data * WordWrap + sw.macLo, !.macLo = 0])

(* read_c(), any one word of it. *)
ReadC(go) ==
  /\ sw.at = "c"
  /\ \/ \E i \in 0 .. ResWords - 1 :
          Does(ReadOp([win |-> "C", word |-> i]), [sw EXCEPT !.i = i])
     \/ Answer(go, [win |-> "C", word |-> sw.i], [sw EXCEPT !.at = "clear", !.c = axi.r.data])

accel_clear_done ==
  sw.at = "clear" /\ Does(WriteOp(Put(Reg("STATUS"), 2)), [sw EXCEPT !.at = "return"])

NextJob == sw.at = "return" /\ \E job \in Operands :
  Does(Nothing, [at |-> "idle", job |-> job, i |-> 0, macLo |-> 0, macs |-> 0, c |-> 0])

Driver(go) ==
  \/ Load \/ accel_start \/ accel_done(go) \/ accel_mac_count(go) \/ ReadC(go)
  \/ accel_clear_done \/ NextJob

(* Anyone else. *)
Free(go) == \E w \in Writes :
  /\ sw.at = "free" /\ sw.i < MaxFree /\ Len(bus.writes) < Outstanding
  /\ Cycle(go, WriteOp(w))
  /\ sw' = [sw EXCEPT !.i = @ + 1]

Next == \E go \in SUBSET Movable : Wait(go) \/ Driver(go) \/ Free(go)

Spec == Init /\ [][Next]_vars

(* The clock runs, the master moves what it can and the driver goes on. *)
FairSpec ==
  /\ Spec
  /\ WF_vars(Wait(Movable \ {"r"}))
  /\ WF_vars(sw.at # "free" /\ Driver(Movable))

-----------------------------------------------------------------------------
(* The element of A * B a run owes, from the operands it was started with.  *)
Sum(t, n) ==
  LET upTo[i \in 0 .. n] == IF i = 0 THEN 0 ELSE upTo[i - 1] + t[i - 1]
  IN  upTo[n]

Cell(x, win, k, i) == SignedByte(x[win][k * WordsPerVector + i \div 4][i % 4])
Products(x, n, r, c) == [k \in 0 .. n - 1 |-> Cell(x, "A", k, r) * Cell(x, "B", k, c)]
Owed(r, c) == Sum(Products(run.opnd, run.k, r, c), run.k)

(* The element of A * B the driver's job asks for. *)
JobProducts(job, r, c) == [k \in 0 .. job.k - 1 |-> job.a[<<r, k>>] * job.b[<<k, c>>]]

(* "Results are final in the same cycle DONE becomes visible" and "stay     *)
(* valid until the next START, CLR_ACC or SOFT_RST"; "CYCLES ... always     *)
(* K + 2N", ACTIVE_CYCLES K + 2N - 1 and MAC_COUNT N * N * K; whatever      *)
(* software writes in the meantime.  What the driver has in hand at the end *)
(* is the product of the operands it loaded, and its MACs.                  *)
ResultsExact ==
  /\ ctrl.done => run.outcome \in {"finished", "discarded"}
  /\ run.outcome = "finished" =>
       /\ \A r, c \in Lanes : arr.acc[<<r, c>>] = Owed(r, c)
       /\ ctrl.cycles = run.k + 2 * N
       /\ ctrl.active = run.k + 2 * N - 1
       /\ ctrl.macs = N * N * run.k
  /\ sw.at = "return" =>
       /\ sw.macs = N * N * K
       /\ sw.c = Sum(JobProducts(sw.job, sw.i \div N, sw.i % N), K)

(* What software has been told is what the registers hold: every write is   *)
(* performed once, in order, its own data at its own address, and answered  *)
(* before the next is performed; one that is answered SLVERR or DECERR has  *)
(* no effect, and the response is that of its own write.                    *)
WritesExact ==
  LET performed == {i \in DOMAIN bus.writes : bus.writes[i].performed}
  IN  /\ performed = IF axi.b.valid THEN {1} ELSE {}
      /\ performed = {} => told = [len |-> ctrl.len, opnd |-> opnd]

(* No event is lost: DONE falls only to its acknowledgement, a new START or *)
(* SOFT_RST, and when a run ends on that very clock not even to the first;  *)
(* a run that ends raises it, a refused command raises ERR, and a refused   *)
(* command leaves the run alone.                                            *)
EventsExact ==
  [][LET w == RegWrite
         refused == IF CtrlBusy THEN ReqStart(w) \/ ReqClrAcc(w) ELSE ReqStart(w) /\ ~LenValid
     IN  ~ReqSoftRst(w) =>
           /\ CtrlBusy /\ ctrl'.state = "IDLE" => ctrl'.done
           /\ ctrl.done /\ ~ctrl'.done => Commands(w, "STATUS", 1) \/ (ReqStart(w) /\ ~refused)
           /\ refused => ctrl'.err /\ (ctrl'.state = "IDLE") = (ctrl.state = "IDLE" \/ ctrl'.done)
    ]_vars

(* A run the driver starts is reported to it. *)
RunReported == sw.at = "poll" ~> sw.at = "macLo"
=============================================================================
