---------------------------- MODULE LegacyProofs ---------------------------
(***************************************************************************)
(* The AXI4-Lite accelerator and its driver, for every size of array, KMAX *)
(* and width of a word, every program of writes and every operand: writes  *)
(* are performed once and in order, a run that ends leaves the products of *)
(* the operands it was started with, and the driver takes them home.       *)
(***************************************************************************)
EXTENDS LegacyBench, Arithmetic

WriteType == [addr : Address, data : Word, strb : SUBSET (0 .. 3)]
UnderWay == [w : WriteType, aw : BOOLEAN, data : BOOLEAN, performed : BOOLEAN]
BufferType == [{"A", "B"} -> [0 .. BufWords - 1 -> Word]]

CtrlType ==
  [state : {"IDLE", "CLEAR", "FEED", "DRAIN"}, irqEn : BOOLEAN, done : BOOLEAN, err : BOOLEAN,
   len : Nat, feedK : Nat, drain : Nat, cycles : Nat, active : Nat, macs : Nat]

(* One type invariant: what every variable may hold.                        *)
TypeOK ==
  /\ ctrl \in CtrlType
  /\ opnd \in BufferType
  /\ axi.awFull \in BOOLEAN /\ axi.wFull \in BOOLEAN
  /\ DOMAIN axi.b = {"valid", "resp"} /\ axi.b.valid \in BOOLEAN
  /\ DOMAIN axi.r = {"valid", "data", "resp"} /\ axi.r.valid \in BOOLEAN
  /\ axi.data \in Word /\ axi.strb \in SUBSET (0 .. 3)
  /\ bus.writes \in Seq(UnderWay)
  /\ bus.read.at \in {"none", "ask", "wait"} /\ DOMAIN bus.read = {"at", "addr"}
  /\ DOMAIN run = {"outcome", "opnd", "k"}
  /\ run.outcome \in {"none", "running", "finished", "discarded"}

-----------------------------------------------------------------------------
(* The bus.  At most the oldest write has been performed, which is so while *)
(* its response is out; of the others, address and data of the next may     *)
(* have arrived, and nothing of those behind it.                            *)
Answered == IF axi.b.valid THEN 1 ELSE 0
AwArrived == Answered + (IF axi.awFull THEN 1 ELSE 0)
WArrived == Answered + (IF axi.wFull THEN 1 ELSE 0)

InOrder ==
  /\ \A i \in DOMAIN bus.writes :
       /\ bus.writes[i].performed <=> i <= Answered
       /\ bus.writes[i].aw <=> i <= AwArrived
       /\ bus.writes[i].data <=> i <= WArrived
  /\ AwArrived <= Len(bus.writes)
  /\ WArrived <= Len(bus.writes)

(* What the slave holds is its own write's. *)
Latched ==
  /\ axi.awFull => axi.addr = bus.writes[Answered + 1].w.addr
  /\ axi.wFull => /\ axi.data = bus.writes[Answered + 1].w.data
                  /\ axi.strb = bus.writes[Answered + 1].w.strb

(* Software knows the registers, once it has taken the response that waits. *)
Registers == [len |-> ctrl.len, opnd |-> opnd]

ToldRight ==
  Registers = IF axi.b.valid /\ axi.b.resp = "OKAY" THEN Believe(told, Head(bus.writes).w) ELSE told

BusInv ==
  /\ InOrder /\ Latched /\ ToldRight
  /\ axi.r.valid <=> bus.read.at = "wait"

-----------------------------------------------------------------------------
(* The run, of the operands x and K k.  After t enabled clocks every        *)
(* register of a line holds what was fed as many clocks ago as it is deep,  *)
(* and every accumulator the products that have met in its element.         *)
Fed(x, k, win, i, n) == IF n \in 0 .. k - 1 THEN Cell(x, win, n, i) ELSE 0

Met(k, n) == IF n < 0 THEN 0 ELSE IF n > k THEN k ELSE n

Accumulated(x, k, r, c, n) == Sum(Products(x, k, r, c), Met(k, n))

Streamed(a, x, k, t) ==
  /\ \A i \in Lanes : \A j \in LineOf(i) : /\ a.west[i][j] = Fed(x, k, "A", i, t - 1 - j)
                                           /\ a.north[i][j] = Fed(x, k, "B", i, t - 1 - j)
  /\ \A r, c \in Lanes : a.acc[<<r, c>>] = Accumulated(x, k, r, c, t - 1 - (r + c))

Flowing(t) ==
  /\ Streamed(arr, run.opnd, run.k, t)
  /\ ctrl.cycles = 1 + t /\ ctrl.active = t
  /\ ctrl.macs = N * N * Met(run.k, t)

RunInv ==
  /\ CtrlBusy <=> run.outcome = "running"
  /\ CtrlBusy => ~ctrl.done /\ LenValid /\ run.opnd = opnd /\ run.k = ctrl.len
  /\ ctrl.done => run.outcome \in {"finished", "discarded"}
  /\ ctrl.state = "CLEAR" => ctrl.cycles = 0 /\ ctrl.active = 0 /\ ctrl.macs = 0
  /\ ctrl.state = "FEED" => ctrl.feedK \in 0 .. ctrl.len - 1 /\ Flowing(ctrl.feedK)
  /\ ctrl.state = "DRAIN" => ctrl.drain \in 0 .. DrainCycles - 1 /\ Flowing(ctrl.len + ctrl.drain)
  /\ run.outcome = "finished" =>
       /\ run.k \in 1 .. KMax /\ run.opnd \in BufferType
       /\ Flowing(run.k + 2 * N - 1)

-----------------------------------------------------------------------------
(* The driver.  Whatever it has issued last may still be on its way.        *)
Pending == bus.writes # <<>> /\ ~axi.b.valid
At(places) == sw.at \in places

(* Word m of the load of a job: those of A, then those of B. *)
HalfWords(job) == job.k * WordsPerVector
TotalWords(job) == 2 * HalfWords(job)
LoadWrite(job, m) == Window(job, IF m < HalfWords(job) THEN "A" ELSE "B", m % HalfWords(job))

LoadedIn(x, job, n) ==
  \A i \in 0 .. HalfWords(job) - 1 :
    /\ i < n => x["A"][i] = Window(job, "A", i).data
    /\ HalfWords(job) + i < n => x["B"][i] = Window(job, "B", i).data

WordsIssued == IF sw.at = "idle" THEN sw.i ELSE TotalWords(sw.job)
WordsLoaded == IF Pending /\ At({"idle", "len"}) THEN WordsIssued - 1 ELSE WordsIssued

LastIssued ==
  CASE At({"idle", "len"}) -> {LoadWrite(sw.job, WordsIssued - 1)}
    [] sw.at = "start" -> {Put(Reg("LEN"), K)}
    [] sw.at = "poll" -> {Put(Reg("CTRL"), 1 + Flag(irq, 3)) : irq \in BOOLEAN}
    [] sw.at = "return" -> {Put(Reg("STATUS"), 2)}
    [] OTHER -> {}

Asked ==
  CASE sw.at = "poll" -> Reg("STATUS")
    [] sw.at = "macLo" -> Reg("MAC_COUNT_LO")
    [] sw.at = "macHi" -> Reg("MAC_COUNT_HI")
    [] OTHER -> [win |-> "C", word |-> sw.i]

DriverTyped ==
  /\ sw \in [at : {"idle", "len", "start", "poll", "macLo", "macHi", "c", "clear", "return"},
             job : Operands, i : Nat, macLo : Nat, macs : Nat, c : Int]
  /\ sw.at = "idle" => sw.i < TotalWords(sw.job)

(* One access at a time. *)
OneAccess ==
  /\ Len(bus.writes) <= 1
  /\ Len(bus.writes) = 1 => bus.writes[1].w \in LastIssued
  /\ Len(bus.writes) = 1 /\ sw.at = "idle" => sw.i > 0
  /\ bus.read.at # "none" =>
       /\ bus.writes = <<>>
       /\ At({"poll", "macLo", "macHi", "c"})
       /\ bus.read.addr = Asked

Unstarted == At({"idle", "len", "start"}) \/ (sw.at = "poll" /\ Pending)

(* Up to START: what has been written is there. *)
Prepared ==
  Unstarted =>
    /\ ~CtrlBusy
    /\ LoadedIn(opnd, sw.job, WordsLoaded)
    /\ (sw.at = "start" /\ ~Pending) \/ sw.at = "poll" => ctrl.len = K

(* From then on: the run is the job's, and over once DONE has been read. *)
Started ==
  ~Unstarted =>
    /\ run.k = K /\ LoadedIn(run.opnd, sw.job, TotalWords(sw.job))
    /\ run.outcome \in {"running", "finished"}
    /\ sw.at # "poll" => run.outcome = "finished"

(* What has been read is right, and what a read under way brings will be. *)
Answers(data) ==
  CASE sw.at = "poll" -> Bit(data, 1) => run.outcome = "finished"
    [] sw.at = "macLo" -> data = ctrl.macs % WordWrap
    [] sw.at = "macHi" -> data = ctrl.macs \div WordWrap
    [] OTHER -> data = arr.acc[<<sw.i \div N, sw.i % N>>]

ReadRight ==
  /\ axi.r.valid => Answers(axi.r.data)
  /\ sw.at = "macHi" => sw.macLo = ctrl.macs % WordWrap
  /\ At({"c", "clear", "return"}) => sw.macs = N * N * K
  /\ At({"clear", "return"}) \/ (bus.read.at # "none" /\ sw.at = "c") => sw.i \in 0 .. ResWords - 1
  /\ At({"clear", "return"}) => sw.c = Sum(JobProducts(sw.job, sw.i \div N, sw.i % N), K)

DriverState == DriverTyped /\ OneAccess /\ Prepared /\ Started /\ ReadRight

DriverInv ==
  /\ DOMAIN sw = {"at", "job", "i", "macLo", "macs", "c"}
  /\ sw.at # "free" => DriverState

IInv == TypeOK /\ BusInv /\ RunInv /\ DriverInv

-----------------------------------------------------------------------------
(* The constants the proofs use. *)
LEMMA Sizes ==
  /\ N \in Nat \ {0} /\ WordsPerVector \in Nat \ {0} /\ N = 4 * WordsPerVector
  /\ KMax \in Nat \ {0} /\ KMax <= 65535 /\ BufWords = KMax * WordsPerVector /\ BufWords \in Nat
  /\ DrainCycles = 2 * N - 1 /\ ResWords = N * N /\ N * N \in Nat
<1>1. N \in Nat \ {0} /\ N % 4 = 0 /\ KMax \in Nat \ {0} /\ KMax <= 65535
  BY SystolicAssumption, AccelCtrlAssumption
<1>2. N \div 4 \in Nat \ {0} /\ N = 4 * (N \div 4)
  BY <1>1
<1>3. KMax * (N \div 4) \in Nat /\ N * N \in Nat
  BY <1>1, <1>2, Z3
<1>4. QED
  BY <1>1, <1>2, <1>3 DEF WordsPerVector, BufWords, DrainCycles, ResWords

(* Of writes marked as far as m, the first unmarked is the next. *)
LEMMA FirstUnmarked ==
  ASSUME NEW ws \in Seq(UnderWay), NEW flag \in {"aw", "data", "performed"},
         NEW m \in Nat, m <= Len(ws),
         \A i \in DOMAIN ws : ws[i][flag] <=> i <= m
  PROVE  First(ws, flag) = IF m < Len(ws) THEN m + 1 ELSE 0
<1> DEFINE I == {i \in 1 .. Len(ws) : ~ws[i][flag]}
<1>1. Len(ws) \in Nat /\ DOMAIN ws = 1 .. Len(ws)
  OBVIOUS
<1>2. First(ws, flag) = IF I # {} THEN Min(I) ELSE 0
  BY DEF First, SelectInSeq
<1>3. I = m + 1 .. Len(ws)
  BY <1>1
<1>4. m < Len(ws) => Min(I) = m + 1
  BY <1>1, <1>3 DEF Min
<1>5. QED
  BY <1>2, <1>3, <1>4

(* Marking it moves the mark by one and touches nothing else. *)
One(moved) == IF moved THEN 1 ELSE 0

IsMarked(ws, flag, m) == \A i \in DOMAIN ws : ws[i][flag] <=> i <= m

SameBut(flag, q, ws) ==
  /\ q \in Seq(UnderWay) /\ Len(q) = Len(ws)
  /\ \A i \in DOMAIN ws : \A other \in {"w", "aw", "data", "performed"} \ {flag} :
       q[i][other] = ws[i][other]

LEMMA Marked ==
  ASSUME NEW ws \in Seq(UnderWay), NEW flag \in {"aw", "data", "performed"},
         NEW m \in Nat, m <= Len(ws), IsMarked(ws, flag, m),
         NEW moved \in BOOLEAN, moved => m < Len(ws)
  PROVE  /\ IsMarked(Mark(ws, flag, moved), flag, m + One(moved))
         /\ SameBut(flag, Mark(ws, flag, moved), ws)
<1> DEFINE entry == [ws[m + 1] EXCEPT ![flag] = TRUE]
           q == Mark(ws, flag, moved)
<1>1. Len(ws) \in Nat /\ DOMAIN ws = 1 .. Len(ws)
  OBVIOUS
<1>2. CASE moved
  <2>1. q = [ws EXCEPT ![m + 1] = entry]
    BY <1>1, <1>2, FirstUnmarked DEF Mark, IsMarked
  <2>2. m + 1 \in DOMAIN ws /\ ws[m + 1] \in UnderWay
    BY <1>1, <1>2
  <2>3. /\ entry \in UnderWay /\ entry[flag] = TRUE
        /\ \A other \in {"w", "aw", "data", "performed"} \ {flag} : entry[other] = ws[m + 1][other]
    BY <2>2 DEF UnderWay
  <2> HIDE DEF entry, q
  <2>4. /\ q \in Seq(UnderWay) /\ Len(q) = Len(ws)
        /\ \A i \in DOMAIN ws : q[i] = IF i = m + 1 THEN entry ELSE ws[i]
    BY <1>1, <2>1, <2>2, <2>3
  <2>5. ASSUME NEW i \in DOMAIN ws
        PROVE  q[i][flag] <=> i <= m + 1
    <3>1. CASE i = m + 1
      BY <1>1, <2>3, <2>4, <3>1
    <3>2. CASE i # m + 1
      <4>1. q[i] = ws[i]
        BY <2>4, <3>2
      <4>2. QED
        BY <1>1, <3>2, <4>1 DEF IsMarked
    <3>3. QED
      BY <3>1, <3>2
  <2>6. ASSUME NEW i \in DOMAIN ws, NEW other \in {"w", "aw", "data", "performed"} \ {flag}
        PROVE  q[i][other] = ws[i][other]
    BY <2>3, <2>4
  <2>7. IsMarked(q, flag, m + 1)
    BY <1>1, <2>4, <2>5 DEF IsMarked
  <2>8. SameBut(flag, q, ws)
    BY <2>4, <2>6 DEF SameBut
  <2>9. QED
    BY <1>2, <2>7, <2>8 DEF One, q
<1>3. CASE ~moved
  BY <1>1, <1>3 DEF Mark, One, IsMarked, SameBut
<1>4. QED
  BY <1>2, <1>3

(* What may move moves the next of its channel. *)
LEMMA Movement ==
  ASSUME TypeOK, BusInv, NEW go \in SUBSET Movable
  PROVE  /\ "aw" \in go => /\ ~axi.awFull /\ Answered < Len(bus.writes)
                           /\ First(bus.writes, "aw") = Answered + 1
         /\ "w" \in go => /\ ~axi.wFull /\ Answered < Len(bus.writes)
                          /\ First(bus.writes, "data") = Answered + 1
         /\ "b" \in go => axi.b.valid
         /\ "ar" \in go => ~axi.r.valid /\ bus.read.at = "ask"
         /\ "r" \in go => axi.r.valid /\ bus.read.at = "wait"
<1>1. AwArrived \in Nat /\ WArrived \in Nat /\ Answered \in Nat
  BY DEF AwArrived, WArrived, Answered
<1>2. First(bus.writes, "aw") = IF AwArrived < Len(bus.writes) THEN AwArrived + 1 ELSE 0
  BY <1>1, FirstUnmarked DEF TypeOK, BusInv, InOrder
<1>3. First(bus.writes, "data") = IF WArrived < Len(bus.writes) THEN WArrived + 1 ELSE 0
  BY <1>1, FirstUnmarked DEF TypeOK, BusInv, InOrder
<1>4. "aw" \in go => ~axi.awFull /\ First(bus.writes, "aw") # 0
  BY DEF Movable, AwReady
<1>5. "w" \in go => ~axi.wFull /\ First(bus.writes, "data") # 0
  BY DEF Movable, WReady
<1>6. /\ "b" \in go => axi.b.valid
      /\ "ar" \in go => ~axi.r.valid /\ bus.read.at = "ask"
      /\ "r" \in go => axi.r.valid
  BY DEF Movable, ArReady
<1>7. QED
  BY <1>1, <1>2, <1>3, <1>4, <1>5, <1>6 DEF AwArrived, WArrived, BusInv

(* What a clock leaves of the writes under way, before software adds one. *)
Left(go, left) ==
  /\ left \in Seq(UnderWay)
  /\ Len(left) = Len(bus.writes) - One("b" \in go)
  /\ \A i \in DOMAIN left :
       /\ left[i].w = bus.writes[i + One("b" \in go)].w
       /\ left[i].aw <=> i + One("b" \in go) <= AwArrived + One("aw" \in go)
       /\ left[i].data <=> i + One("b" \in go) <= WArrived + One("w" \in go)
       /\ left[i].performed <=> i + One("b" \in go) <= Answered + One(DoWrite)

LEMMA Leaving ==
  ASSUME TypeOK, BusInv, NEW go \in SUBSET Movable, NEW op, BusClock(go, op)
  PROVE  \E left : /\ Left(go, left)
                   /\ bus'.writes = IF op.write = {} THEN left
                                    ELSE Append(left, Issue(CHOOSE w \in op.write : TRUE))
<1> DEFINE aw == "aw" \in go
           data == "w" \in go
           ws0 == bus.writes
           ws1 == Mark(ws0, "aw", aw)
           ws2 == Mark(ws1, "data", data)
           ws3 == Mark(ws2, "performed", DoWrite)
           left == IF "b" \in go THEN Tail(ws3) ELSE ws3
<1>1. /\ ws0 \in Seq(UnderWay) /\ Len(ws0) \in Nat /\ DOMAIN ws0 = 1 .. Len(ws0)
      /\ Answered \in {0, 1} /\ Answered <= Len(ws0)
      /\ AwArrived = Answered + One(axi.awFull) /\ AwArrived <= Len(ws0)
      /\ WArrived = Answered + One(axi.wFull) /\ WArrived <= Len(ws0)
  <2>1. /\ ws0 \in Seq(UnderWay)
        /\ AwArrived <= Len(ws0) /\ WArrived <= Len(ws0)
    BY DEF TypeOK, BusInv, InOrder
  <2>2. Len(ws0) \in Nat /\ DOMAIN ws0 = 1 .. Len(ws0)
    BY <2>1
  <2>3. QED
    BY <2>1, <2>2 DEF AwArrived, WArrived, Answered, One
<1>2. /\ aw \in BOOLEAN /\ data \in BOOLEAN
      /\ aw => ~axi.awFull /\ Answered < Len(ws0)
      /\ data => ~axi.wFull /\ Answered < Len(ws0)
      /\ "b" \in go => axi.b.valid
  BY Movement
<1>3. IsMarked(ws0, "aw", AwArrived) /\ IsMarked(ws0, "data", WArrived) /\ IsMarked(ws0, "performed", Answered)
  BY DEF BusInv, InOrder, IsMarked
<1>4. DoWrite \in BOOLEAN /\ (DoWrite => axi.awFull /\ ~axi.b.valid /\ Answered = 0)
  BY DEF DoWrite, Answered
<1> HIDE DEF ws0, aw, data
<1>5. IsMarked(ws1, "aw", AwArrived + One(aw)) /\ SameBut("aw", ws1, ws0)
  <2>1. AwArrived \in Nat /\ AwArrived <= Len(ws0) /\ (aw => AwArrived < Len(ws0))
    BY <1>1, <1>2 DEF One
  <2>2. QED
    BY <1>1, <1>2, <1>3, <2>1, Marked
<1> HIDE DEF ws1
<1>6. IsMarked(ws2, "data", WArrived + One(data)) /\ SameBut("data", ws2, ws1)
  <2>1. WArrived \in Nat /\ WArrived <= Len(ws1) /\ (data => WArrived < Len(ws1))
    BY <1>1, <1>2, <1>5 DEF One, SameBut
  <2>2. ws1 \in Seq(UnderWay) /\ IsMarked(ws1, "data", WArrived)
    BY <1>1, <1>3, <1>5 DEF IsMarked, SameBut
  <2>3. QED
    BY <1>2, <2>1, <2>2, Marked
<1> HIDE DEF ws2
<1>7. IsMarked(ws3, "performed", Answered + One(DoWrite)) /\ SameBut("performed", ws3, ws2)
  <2>1. Answered \in Nat /\ Answered <= Len(ws2) /\ (DoWrite => Answered < Len(ws2))
    BY <1>1, <1>4, <1>5, <1>6 DEF One, SameBut
  <2>2. ws2 \in Seq(UnderWay) /\ IsMarked(ws2, "performed", Answered)
    BY <1>1, <1>3, <1>5, <1>6 DEF IsMarked, SameBut
  <2>3. QED
    BY <1>4, <2>1, <2>2, Marked
<1> HIDE DEF ws3
<1>8. /\ ws3 \in Seq(UnderWay) /\ Len(ws3) = Len(ws0)
      /\ \A i \in DOMAIN ws0 :
           /\ ws3[i].w = ws0[i].w
           /\ ws3[i].aw <=> i <= AwArrived + One(aw)
           /\ ws3[i].data <=> i <= WArrived + One(data)
           /\ ws3[i].performed <=> i <= Answered + One(DoWrite)
  BY <1>1, <1>5, <1>6, <1>7 DEF IsMarked, SameBut
<1>9. Left(go, left)
  <2>1. CASE "b" \in go
    <3>1. Answered = 1 /\ ws3 # <<>>
      BY <1>1, <1>2, <1>8, <2>1 DEF Answered
    <3>2. /\ Tail(ws3) \in Seq(UnderWay) /\ Len(Tail(ws3)) = Len(ws0) - 1
          /\ \A i \in DOMAIN Tail(ws3) : i + 1 \in DOMAIN ws0 /\ Tail(ws3)[i] = ws3[i + 1]
      BY <1>1, <1>8, <3>1
    <3>3. QED
      BY <1>8, <2>1, <3>2 DEF Left, One, ws0, aw, data
  <2>2. CASE "b" \notin go
    <3>1. DOMAIN ws3 = DOMAIN ws0 /\ \A i \in DOMAIN ws3 : i + 0 = i
      BY <1>1, <1>8
    <3>2. QED
      BY <1>1, <1>8, <2>2, <3>1 DEF Left, One, ws0, aw, data
  <2>3. QED
    BY <2>1, <2>2
<1>10. bus'.writes = IF op.write = {} THEN left ELSE Append(left, Issue(CHOOSE w \in op.write : TRUE))
  BY DEF BusClock, aw, data, ws0, ws1, ws2, ws3
<1>11. QED
  BY <1>9, <1>10

(* What software may issue in a clock. *)
Ops == {op \in [write : SUBSET WriteType, read : SUBSET Address] :
          /\ op.write = {} \/ \E w \in WriteType : op.write = {w}
          /\ op.read # {} => bus.read.at = "none"}

(* The slave after a clock. *)
LEMMA SlaveClock ==
  ASSUME TypeOK, BusInv, NEW go \in SUBSET Movable, NEW op, Cycle(go, op)
  PROVE  /\ axi'.awFull <=> "aw" \in go \/ (axi.awFull /\ ~DoWrite)
         /\ axi'.wFull <=> "w" \in go \/ (axi.wFull /\ ~DoWrite)
         /\ axi'.addr = IF "aw" \in go THEN bus.writes[Answered + 1].w.addr ELSE axi.addr
         /\ axi'.data = IF "w" \in go THEN bus.writes[Answered + 1].w.data ELSE axi.data
         /\ axi'.strb = IF "w" \in go THEN bus.writes[Answered + 1].w.strb ELSE axi.strb
         /\ DOMAIN axi'.b = {"valid", "resp"} /\ DOMAIN axi'.r = {"valid", "data", "resp"}
         /\ axi'.b.valid <=> DoWrite \/ (axi.b.valid /\ "b" \notin go)
         /\ axi'.b.resp = IF DoWrite THEN WriteResponse(axi.addr) ELSE axi.b.resp
         /\ axi'.r.valid <=> "ar" \in go \/ (axi.r.valid /\ "r" \notin go)
         /\ axi'.r.data = IF "ar" \in go THEN ReadData(bus.read.addr) ELSE axi.r.data
<1> DEFINE m == Wires(go)
           aw == Channel("aw", "aw" \in go)
           data == Channel("data", "w" \in go)
<1>1. /\ "aw" \in go => /\ ~axi.awFull /\ First(bus.writes, "aw") = Answered + 1
      /\ "w" \in go => /\ ~axi.wFull /\ First(bus.writes, "data") = Answered + 1
      /\ "ar" \in go => ~axi.r.valid /\ bus.read.at = "ask"
      /\ Answered \in Nat
  BY Movement DEF Answered
<1>2. aw = [valid |-> "aw" \in go /\ First(bus.writes, "aw") # 0,
               addr |-> IF First(bus.writes, "aw") = 0 THEN axi.addr ELSE bus.writes[First(bus.writes, "aw")].w.addr,
               data |-> IF First(bus.writes, "aw") = 0 THEN axi.data ELSE bus.writes[First(bus.writes, "aw")].w.data,
               strb |-> IF First(bus.writes, "aw") = 0 THEN axi.strb ELSE bus.writes[First(bus.writes, "aw")].w.strb]
  BY DEF Channel
<1>3. data = [valid |-> "w" \in go /\ First(bus.writes, "data") # 0,
              addr |-> IF First(bus.writes, "data") = 0 THEN axi.addr ELSE bus.writes[First(bus.writes, "data")].w.addr,
              data |-> IF First(bus.writes, "data") = 0 THEN axi.data ELSE bus.writes[First(bus.writes, "data")].w.data,
              strb |-> IF First(bus.writes, "data") = 0 THEN axi.strb ELSE bus.writes[First(bus.writes, "data")].w.strb]
  BY DEF Channel
<1>4. /\ m.aw = aw /\ m.w = data
      /\ m.bready <=> "b" \in go
      /\ m.rready <=> "r" \in go
      /\ m.ar.valid <=> "ar" \in go
  BY <1>1 DEF Wires
<1>5. AxiClock(m, WriteResponse(axi.addr), RegRead(bus.read.addr))
  BY DEF Cycle, RegWrite
<1> HIDE DEF m, aw, data
<1>6. /\ aw.valid /\ AwReady <=> "aw" \in go
      /\ "aw" \in go => aw.addr = bus.writes[Answered + 1].w.addr
  <2>1. aw.valid <=> "aw" \in go /\ First(bus.writes, "aw") # 0
    BY <1>2
  <2>2. "aw" \in go => aw.addr = bus.writes[Answered + 1].w.addr
    BY <1>1, <1>2
  <2>3. QED
    BY <1>1, <2>1, <2>2 DEF AwReady
<1>7. /\ data.valid /\ WReady <=> "w" \in go
      /\ "w" \in go => data.data = bus.writes[Answered + 1].w.data /\ data.strb = bus.writes[Answered + 1].w.strb
  <2>1. data.valid <=> "w" \in go /\ First(bus.writes, "data") # 0
    BY <1>3
  <2>2. "w" \in go => data.data = bus.writes[Answered + 1].w.data /\ data.strb = bus.writes[Answered + 1].w.strb
    BY <1>1, <1>3
  <2>3. QED
    BY <1>1, <2>1, <2>2 DEF WReady
<1>8. DoRead(m) <=> "ar" \in go
  BY <1>1, <1>4 DEF DoRead, ArReady
<1>9. /\ axi'.awFull <=> "aw" \in go \/ (axi.awFull /\ ~DoWrite)
      /\ axi'.addr = IF "aw" \in go THEN bus.writes[Answered + 1].w.addr ELSE axi.addr
  BY <1>4, <1>5, <1>6 DEF AxiClock
<1>10. /\ axi'.wFull <=> "w" \in go \/ (axi.wFull /\ ~DoWrite)
       /\ axi'.data = IF "w" \in go THEN bus.writes[Answered + 1].w.data ELSE axi.data
       /\ axi'.strb = IF "w" \in go THEN bus.writes[Answered + 1].w.strb ELSE axi.strb
  BY <1>4, <1>5, <1>7 DEF AxiClock
<1> DEFINE b == axi'.b
           r == axi'.r
           read == RegRead(bus.read.addr)
<1>11. b = IF DoWrite THEN [valid |-> TRUE, resp |-> WriteResponse(axi.addr)]
           ELSE [axi.b EXCEPT !.valid = axi.b.valid /\ "b" \notin go]
  BY <1>4, <1>5 DEF AxiClock
<1>12. r = IF "ar" \in go THEN [valid |-> TRUE, data |-> read.data, resp |-> read.resp]
           ELSE [axi.r EXCEPT !.valid = axi.r.valid /\ "r" \notin go]
  BY <1>4, <1>5, <1>8 DEF AxiClock
<1>13. read.data = ReadData(bus.read.addr)
  BY DEF RegRead
<1>14. DOMAIN axi.b = {"valid", "resp"} /\ DOMAIN axi.r = {"valid", "data", "resp"}
  BY DEF TypeOK
<1> HIDE DEF b, r, read
<1>15. /\ DOMAIN b = {"valid", "resp"}
       /\ b.valid <=> DoWrite \/ (axi.b.valid /\ "b" \notin go)
       /\ b.resp = IF DoWrite THEN WriteResponse(axi.addr) ELSE axi.b.resp
  BY <1>11, <1>14
<1>16. /\ DOMAIN r = {"valid", "data", "resp"}
       /\ r.valid <=> "ar" \in go \/ (axi.r.valid /\ "r" \notin go)
       /\ r.data = IF "ar" \in go THEN ReadData(bus.read.addr) ELSE axi.r.data
  BY <1>12, <1>13, <1>14
<1>17. QED
  BY <1>9, <1>10, <1>15, <1>16 DEF b, r

-----------------------------------------------------------------------------
(* The registers after a clock. *)
LEMMA Configuration ==
  ASSUME TypeOK, NEW c, c = Configured(RegWrite)
  PROVE  /\ c \in CtrlType
         /\ c.state = ctrl.state /\ c.feedK = ctrl.feedK /\ c.drain = ctrl.drain
         /\ c.active = ctrl.active /\ c.macs = ctrl.macs
         /\ c.cycles = IF CtrlBusy THEN ctrl.cycles + 1 ELSE ctrl.cycles
         /\ c.done <=> ctrl.done /\ ~Commands(RegWrite, "STATUS", 1)
         /\ c.len = Byte(ctrl.len % 256, RegWrite, Reg("LEN"), 0)
                      + 256 * Byte(ctrl.len \div 256, RegWrite, Reg("LEN"), 1)
         /\ ~Stored(RegWrite, Reg("LEN")) => c.len = ctrl.len
<1> DEFINE w == RegWrite
           low == Byte(ctrl.len % 256, w, Reg("LEN"), 0)
           high == Byte(ctrl.len \div 256, w, Reg("LEN"), 1)
<1>1. ctrl \in CtrlType /\ ctrl.len \in Nat
  BY DEF TypeOK, CtrlType
<1>2. ctrl.len % 256 \in Nat /\ ctrl.len \div 256 \in Nat /\ ctrl.len = (ctrl.len % 256) + 256 * (ctrl.len \div 256)
  BY <1>1
<1>3. w.data[0] \in Nat /\ w.data[1] \in Nat
  <2>1. axi.data \in [0 .. 3 -> 0 .. 255]
    BY DEF TypeOK, Word
  <2>2. axi.data[0] \in 0 .. 255 /\ axi.data[1] \in 0 .. 255
    BY <2>1
  <2>3. QED
    BY <2>2 DEF RegWrite
<1>4. low \in Nat /\ high \in Nat
  BY <1>2, <1>3 DEF Byte
<1>5. ~Stored(w, Reg("LEN")) => low = ctrl.len % 256 /\ high = ctrl.len \div 256
  BY DEF Byte
<1> DEFINE irqEn == IF w.en /\ w.addr = Reg("CTRL") /\ 0 \in w.strb THEN Bit(w.data[0], 3) ELSE ctrl.irqEn
           done == ctrl.done /\ ~Commands(w, "STATUS", 1)
           err == ctrl.err /\ ~Commands(w, "STATUS", 2)
           cycles == IF CtrlBusy THEN ctrl.cycles + 1 ELSE ctrl.cycles
<1>6. c = [ctrl EXCEPT !.irqEn = irqEn, !.len = low + 256 * high, !.done = done, !.err = err, !.cycles = cycles]
  BY DEF Configured
<1>7. irqEn \in BOOLEAN /\ done \in BOOLEAN /\ err \in BOOLEAN /\ cycles \in Nat /\ low + 256 * high \in Nat
  <2>1. ctrl.irqEn \in BOOLEAN /\ ctrl.cycles \in Nat
    BY <1>1 DEF CtrlType
  <2>2. irqEn \in BOOLEAN
    <3>1. Bit(w.data[0], 3) \in BOOLEAN
      BY DEF Bit
    <3> HIDE DEF w
    <3>2. QED
      BY <2>1, <3>1
  <2>3. done \in BOOLEAN /\ err \in BOOLEAN
    OBVIOUS
  <2>4. cycles \in Nat
    BY <2>1
  <2>5. low + 256 * high \in Nat
    <3> HIDE DEF low, high
    <3>1. QED
      BY <1>4
  <2>6. QED
    BY <2>2, <2>3, <2>4, <2>5
<1> HIDE DEF w, low, high, irqEn, done, err, cycles
<1>8. c \in CtrlType
  BY <1>1, <1>6, <1>7 DEF CtrlType
<1>9. /\ c.state = ctrl.state /\ c.feedK = ctrl.feedK /\ c.drain = ctrl.drain
      /\ c.active = ctrl.active /\ c.macs = ctrl.macs
      /\ c.cycles = cycles /\ c.len = low + 256 * high /\ c.done = done
  BY <1>1, <1>6 DEF CtrlType
<1>10. c.done <=> ctrl.done /\ ~Commands(w, "STATUS", 1)
  BY <1>9 DEF done
<1>11. ~Stored(w, Reg("LEN")) => c.len = ctrl.len
  BY <1>2, <1>5, <1>9
<1>12. QED
  BY <1>8, <1>9, <1>10, <1>11 DEF w, low, high, cycles

Kept(c) ==
  /\ ctrl'.feedK = c.feedK /\ ctrl'.drain = c.drain
  /\ ctrl'.cycles = c.cycles /\ ctrl'.active = c.active /\ ctrl'.macs = c.macs

Refused == IF CtrlBusy THEN ReqStart(RegWrite) \/ ReqClrAcc(RegWrite) ELSE ReqStart(RegWrite) /\ ~LenValid
Starts == ReqStart(RegWrite) /\ LenValid

LEMMA RunFsm ==
  ASSUME TypeOK, NEW c, c = Configured(RegWrite), CtrlClock(RegWrite)
  PROVE  /\ ctrl' \in CtrlType /\ ctrl'.len = c.len
         /\ ReqSoftRst(RegWrite) => ctrl'.state = "IDLE" /\ ~ctrl'.done
         /\ ~ReqSoftRst(RegWrite) =>
              /\ Refused => ctrl'.err
              /\ ctrl.state = "IDLE" /\ Starts =>
                   /\ ctrl'.state = "CLEAR" /\ ~ctrl'.done
                   /\ ctrl'.cycles = 0 /\ ctrl'.active = 0 /\ ctrl'.macs = 0
              /\ ctrl.state = "IDLE" /\ ~Starts =>
                   ctrl'.state = "IDLE" /\ (ctrl'.done <=> c.done) /\ Kept(c)
              /\ ctrl.state = "CLEAR" =>
                   /\ ctrl'.state = "FEED" /\ (ctrl'.done <=> c.done) /\ ctrl'.feedK = 0
                   /\ ctrl'.cycles = c.cycles /\ ctrl'.active = c.active /\ ctrl'.macs = c.macs
              /\ ctrl.state = "FEED" =>
                   /\ ctrl'.done <=> c.done
                   /\ ctrl'.cycles = c.cycles /\ ctrl'.active = c.active + 1
                   /\ ctrl'.macs = c.macs + N * N
                   /\ IF ctrl.feedK = ctrl.len - 1 THEN ctrl'.state = "DRAIN" /\ ctrl'.drain = 0
                      ELSE ctrl'.state = "FEED" /\ ctrl'.feedK = ctrl.feedK + 1
              /\ ctrl.state = "DRAIN" =>
                   /\ ctrl'.cycles = c.cycles /\ ctrl'.active = c.active + 1 /\ ctrl'.macs = c.macs
                   /\ IF DrainOver THEN ctrl'.state = "IDLE" /\ ctrl'.done
                      ELSE /\ ctrl'.state = "DRAIN" /\ ctrl'.drain = ctrl.drain + 1
                           /\ ctrl'.done <=> c.done
<1> DEFINE w == RegWrite
           busyErr == c.err \/ ReqStart(w) \/ ReqClrAcc(w)
           r == [c EXCEPT !.err = busyErr]
<1>1. /\ c \in CtrlType /\ c.state = ctrl.state /\ c.feedK = ctrl.feedK /\ c.drain = ctrl.drain
      /\ ctrl.state \in {"IDLE", "CLEAR", "FEED", "DRAIN"} /\ N * N \in Nat
  BY Configuration, Sizes DEF TypeOK, CtrlType
<1>2. InRun(w) = r
  BY DEF InRun
<1>3. busyErr \in BOOLEAN
  BY <1>1 DEF CtrlType, ReqStart, ReqClrAcc, Commands
<1>4. /\ r \in CtrlType /\ r.state = c.state /\ r.feedK = c.feedK /\ r.drain = c.drain /\ r.len = c.len
      /\ r.cycles = c.cycles /\ r.active = c.active /\ r.macs = c.macs /\ r.done = c.done /\ r.err = busyErr
  <2> HIDE DEF busyErr
  <2>1. QED
    BY <1>1, <1>3 DEF CtrlType
<1>5. CASE SoftReset(w)
  BY <1>1, <1>5 DEF SoftReset, CtrlType
<1>6. CASE Idle(w)
  <2>1. CASE ~ReqStart(w)
    BY <1>1, <1>6, <2>1 DEF Idle, Starts, Kept, Refused, CtrlBusy
  <2>2. CASE ReqStart(w) /\ ~LenValid
    BY <1>1, <1>6, <2>2 DEF Idle, Starts, Kept, CtrlType
  <2>3. CASE ReqStart(w) /\ LenValid
    BY <1>1, <1>6, <2>3 DEF Idle, Starts, Refused, CtrlBusy, CtrlType
  <2>4. QED
    BY <2>1, <2>2, <2>3
<1> HIDE DEF r
<1>7. CtrlBusy => (Refused => r.err)
  BY <1>4 DEF Refused
<1>8. CASE Clear(w)
  BY <1>1, <1>2, <1>4, <1>7, <1>8 DEF Clear, CtrlBusy, CtrlType
<1>9. CASE Feed(w)
  <2> DEFINE fed == [r EXCEPT !.active = @ + 1, !.macs = @ + N * N]
             nn == N * N
  <2>1. /\ fed \in CtrlType /\ fed.state = "FEED" /\ fed.feedK = ctrl.feedK /\ fed.len = c.len
        /\ fed.cycles = c.cycles /\ fed.active = c.active + 1 /\ fed.macs = c.macs + nn
        /\ fed.done = c.done /\ fed.err = r.err
    <3>1. nn \in Nat /\ fed = [r EXCEPT !.active = @ + 1, !.macs = @ + nn]
      BY <1>1
    <3>2. r.state = "FEED"
      BY <1>1, <1>4, <1>9 DEF Feed
    <3>3. r.active + 1 \in Nat /\ r.macs + nn \in Nat
      <4> HIDE DEF nn
      <4>1. QED
        BY <1>4, <3>1 DEF CtrlType
    <3> HIDE DEF nn, fed
    <3>4. fed = [r EXCEPT !.active = r.active + 1, !.macs = r.macs + nn]
      BY <3>1
    <3>5. QED
      BY <1>1, <1>4, <3>2, <3>3, <3>4 DEF CtrlType
  <2>2. /\ ctrl.state = "FEED" /\ ~ReqSoftRst(w)
        /\ ctrl' = IF ctrl.feedK = ctrl.len - 1 THEN [fed EXCEPT !.state = "DRAIN", !.drain = 0]
                    ELSE [fed EXCEPT !.feedK = @ + 1]
    BY <1>2, <1>9 DEF Feed
  <2> HIDE DEF fed, nn
  <2>3. CASE ctrl.feedK = ctrl.len - 1
    <3>1. ctrl' = [fed EXCEPT !.state = "DRAIN", !.drain = 0]
      BY <2>2, <2>3
    <3>2. /\ ctrl' \in CtrlType /\ ctrl'.state = "DRAIN" /\ ctrl'.drain = 0
          /\ ctrl'.len = fed.len /\ ctrl'.cycles = fed.cycles /\ ctrl'.active = fed.active
          /\ ctrl'.macs = fed.macs /\ ctrl'.done = fed.done /\ ctrl'.err = fed.err
      BY <2>1, <3>1 DEF CtrlType
    <3>3. QED
      BY <1>7, <2>1, <2>2, <2>3, <3>2 DEF CtrlBusy, nn
  <2>4. CASE ctrl.feedK # ctrl.len - 1
    <3>1. ctrl' = [fed EXCEPT !.feedK = @ + 1]
      BY <2>2, <2>4
    <3>2. /\ ctrl' \in CtrlType /\ ctrl'.state = "FEED" /\ ctrl'.feedK = fed.feedK + 1
          /\ ctrl'.len = fed.len /\ ctrl'.cycles = fed.cycles /\ ctrl'.active = fed.active
          /\ ctrl'.macs = fed.macs /\ ctrl'.done = fed.done /\ ctrl'.err = fed.err
      BY <2>1, <3>1 DEF CtrlType
    <3>3. QED
      BY <1>7, <2>1, <2>2, <2>4, <3>2 DEF CtrlBusy, nn
  <2>5. QED
    BY <2>3, <2>4
<1>10. CASE Drain(w)
  <2> DEFINE drained == [r EXCEPT !.active = @ + 1]
  <2>1. /\ drained \in CtrlType /\ drained.state = "DRAIN" /\ drained.drain = ctrl.drain
        /\ drained.len = c.len /\ drained.cycles = c.cycles /\ drained.active = c.active + 1
        /\ drained.macs = c.macs /\ drained.done = c.done /\ drained.err = r.err
    <3>1. r.state = "DRAIN"
      BY <1>1, <1>4, <1>10 DEF Drain
    <3>2. QED
      BY <1>1, <1>4, <3>1 DEF CtrlType
  <2>2. /\ ctrl.state = "DRAIN" /\ ~ReqSoftRst(w)
        /\ ctrl' = IF DrainOver THEN [drained EXCEPT !.state = "IDLE", !.done = TRUE]
                    ELSE [drained EXCEPT !.drain = @ + 1]
    BY <1>2, <1>10 DEF Drain, DoneAtEnd
  <2> HIDE DEF drained
  <2>3. CASE DrainOver
    <3>1. ctrl' = [drained EXCEPT !.state = "IDLE", !.done = TRUE]
      BY <2>2, <2>3
    <3>2. /\ ctrl' \in CtrlType /\ ctrl'.state = "IDLE" /\ ctrl'.done
          /\ ctrl'.len = drained.len /\ ctrl'.cycles = drained.cycles /\ ctrl'.active = drained.active
          /\ ctrl'.macs = drained.macs /\ ctrl'.err = drained.err
      BY <2>1, <3>1 DEF CtrlType
    <3>3. QED
      BY <1>7, <2>1, <2>2, <2>3, <3>2 DEF CtrlBusy
  <2>4. CASE ~DrainOver
    <3>1. ctrl' = [drained EXCEPT !.drain = @ + 1]
      BY <2>2, <2>4
    <3>2. /\ ctrl' \in CtrlType /\ ctrl'.state = "DRAIN" /\ ctrl'.drain = drained.drain + 1
          /\ ctrl'.len = drained.len /\ ctrl'.cycles = drained.cycles /\ ctrl'.active = drained.active
          /\ ctrl'.macs = drained.macs /\ ctrl'.done = drained.done /\ ctrl'.err = drained.err
      BY <2>1, <3>1 DEF CtrlType
    <3>3. QED
      BY <1>7, <2>1, <2>2, <2>4, <3>2 DEF CtrlBusy
  <2>5. QED
    BY <2>3, <2>4
<1>11. QED
  BY <1>5, <1>6, <1>8, <1>9, <1>10 DEF CtrlClock

(* A buffer is its bytes. *)
LEMMA SameBuffer ==
  ASSUME NEW x \in BufferType, NEW y,
         y = [win \in {"A", "B"} |-> [i \in 0 .. BufWords - 1 |-> [lane \in 0 .. 3 |-> x[win][i][lane]]]]
  PROVE  y = x
<1>1. ASSUME NEW win \in {"A", "B"}, NEW i \in 0 .. BufWords - 1
      PROVE  x[win][i] = [lane \in 0 .. 3 |-> x[win][i][lane]]
  <2>1. x[win][i] \in [0 .. 3 -> 0 .. 255]
    BY DEF BufferType, Word
  <2>2. QED
    BY <2>1
<1>2. ASSUME NEW win \in {"A", "B"}
      PROVE  x[win] = y[win]
  <2>1. x[win] \in [0 .. BufWords - 1 -> Word]
    BY DEF BufferType
  <2>2. y[win] = [i \in 0 .. BufWords - 1 |-> [lane \in 0 .. 3 |-> x[win][i][lane]]]
    OBVIOUS
  <2>3. \A i \in 0 .. BufWords - 1 : y[win][i] = x[win][i]
    BY <1>1, <2>2
  <2>4. QED
    BY <2>1, <2>2, <2>3
<1>3. x = [win \in {"A", "B"} |-> x[win]] /\ y = [win \in {"A", "B"} |-> y[win]]
  BY DEF BufferType
<1>4. QED
  BY <1>2, <1>3

(* A write has its effect if it is answered OKAY, and else none. *)
Effective == DoWrite /\ WriteResponse(axi.addr) = "OKAY"

LEMMA WithoutEffect ==
  ASSUME TypeOK, CtrlClock(RegWrite), ~Effective \/ CtrlBusy \/ ~LockedInRun(axi.addr)
  PROVE  ctrl'.len = ctrl.len /\ opnd' = opnd
<1>1. ~Stored(RegWrite, Reg("LEN"))
  BY DEF Stored, Effective, RegWrite, WriteResponse, LockedInRun
<1>2. ASSUME NEW win \in {"A", "B"}, NEW i
      PROVE  ~Stored(RegWrite, [win |-> win, word |-> i])
  <2> DEFINE addr == [win |-> win, word |-> i]
  <2>1. addr.win = win
    OBVIOUS
  <2>2. LockedInRun(addr) /\ (CtrlBusy => WriteResponse(addr) # "OKAY")
    <3> HIDE DEF addr
    <3>1. QED
      BY <2>1 DEF WriteResponse, LockedInRun
  <2>3. QED
    BY <2>2 DEF Stored, Effective, RegWrite
<1>3. ctrl'.len = ctrl.len
  BY <1>1, Configuration, RunFsm
<1>4. opnd' = opnd
  <2>1. opnd \in BufferType
    BY DEF TypeOK
  <2>2. opnd' = [win \in {"A", "B"} |-> [i \in 0 .. BufWords - 1 |-> [lane \in 0 .. 3 |-> opnd[win][i][lane]]]]
    BY <1>2 DEF CtrlClock, BufferClock, Byte
  <2>3. QED
    BY <2>1, <2>2, SameBuffer
<1>5. QED
  BY <1>3, <1>4

LEMMA WithEffect ==
  ASSUME TypeOK, CtrlClock(RegWrite), Effective, told = Registers,
         NEW w, w.addr = axi.addr, w.data = axi.data, w.strb = axi.strb
  PROVE  /\ ctrl'.len = Believe(told, w).len /\ opnd' = Believe(told, w).opnd
         /\ [len |-> ctrl'.len, opnd |-> opnd'] = Believe(told, w)
<1>1. RegWrite.en /\ RegWrite.addr = w.addr /\ RegWrite.data = w.data /\ RegWrite.strb = w.strb
  BY DEF RegWrite, Effective
<1>2. \A addr : Stored(RegWrite, addr) <=> w.addr = addr
  BY <1>1 DEF Stored, Effective
<1>3. told.len = ctrl.len /\ told.opnd = opnd
  BY DEF Registers
<1>4. ctrl'.len = Believe(told, w).len
  <2>1. /\ ctrl'.len = Byte(ctrl.len % 256, RegWrite, Reg("LEN"), 0)
                         + 256 * Byte(ctrl.len \div 256, RegWrite, Reg("LEN"), 1)
        /\ ~Stored(RegWrite, Reg("LEN")) => ctrl'.len = ctrl.len
    BY Configuration, RunFsm
  <2>2. CASE w.addr = Reg("LEN")
    BY <1>1, <1>2, <1>3, <2>1, <2>2 DEF Believe, Byte
  <2>3. CASE w.addr # Reg("LEN")
    BY <1>2, <1>3, <2>1, <2>3 DEF Believe
  <2>4. QED
    BY <2>2, <2>3
<1>5. opnd' = Believe(told, w).opnd
  <2>1. ASSUME NEW win \in {"A", "B"}, NEW i \in 0 .. BufWords - 1
        PROVE  opnd'[win][i] = Believe(told, w).opnd[win][i]
    <3>1. opnd'[win][i] = [lane \in 0 .. 3 |-> Byte(opnd[win][i][lane], RegWrite, [win |-> win, word |-> i], lane)]
      BY DEF CtrlClock, BufferClock
    <3>2. Believe(told, w).opnd[win][i] =
            IF w.addr = [win |-> win, word |-> i]
              THEN [lane \in 0 .. 3 |-> IF lane \in w.strb THEN w.data[lane] ELSE opnd[win][i][lane]]
            ELSE opnd[win][i]
      BY <1>3 DEF Believe
    <3>3. opnd[win][i] = [lane \in 0 .. 3 |-> opnd[win][i][lane]]
      <4>1. opnd[win][i] \in [0 .. 3 -> 0 .. 255]
        <5>1. opnd \in BufferType
          BY DEF TypeOK
        <5>2. QED
          BY <5>1 DEF BufferType, Word
      <4>2. QED
        BY <4>1
    <3>4. CASE w.addr = [win |-> win, word |-> i]
      BY <1>1, <1>2, <3>1, <3>2, <3>4 DEF Byte
    <3>5. CASE w.addr # [win |-> win, word |-> i]
      <4>1. opnd'[win][i] = [lane \in 0 .. 3 |-> opnd[win][i][lane]]
        BY <1>2, <3>1, <3>5 DEF Byte
      <4>2. QED
        BY <3>2, <3>3, <3>5, <4>1
    <3>6. QED
      BY <3>4, <3>5
  <2>2. ASSUME NEW win \in {"A", "B"}
        PROVE  opnd'[win] = Believe(told, w).opnd[win]
    <3>1. /\ opnd'[win] = [i \in 0 .. BufWords - 1 |-> opnd'[win][i]]
          /\ Believe(told, w).opnd[win] = [i \in 0 .. BufWords - 1 |-> Believe(told, w).opnd[win][i]]
      BY DEF CtrlClock, BufferClock, Believe
    <3>2. QED
      BY <2>1, <3>1
  <2>3. /\ opnd' = [win \in {"A", "B"} |-> opnd'[win]]
        /\ Believe(told, w).opnd = [win \in {"A", "B"} |-> Believe(told, w).opnd[win]]
    BY DEF CtrlClock, BufferClock, Believe
  <2>4. QED
    BY <2>2, <2>3
<1>6. Believe(told, w) = [len |-> Believe(told, w).len, opnd |-> Believe(told, w).opnd]
  BY DEF Believe
<1>7. QED
  BY <1>4, <1>5, <1>6

LEMMA BuffersTyped ==
  ASSUME TypeOK, CtrlClock(RegWrite)
  PROVE  opnd' \in BufferType
<1>1. ASSUME NEW win \in {"A", "B"}, NEW i \in 0 .. BufWords - 1, NEW lane \in 0 .. 3
      PROVE  Byte(opnd[win][i][lane], RegWrite, [win |-> win, word |-> i], lane) \in 0 .. 255
  <2>1. opnd[win][i] \in [0 .. 3 -> 0 .. 255] /\ axi.data \in [0 .. 3 -> 0 .. 255]
    <3>1. opnd \in BufferType /\ axi.data \in Word
      BY DEF TypeOK
    <3>2. QED
      BY <3>1 DEF BufferType, Word
  <2>2. opnd[win][i][lane] \in 0 .. 255 /\ axi.data[lane] \in 0 .. 255
    BY <2>1
  <2>3. QED
    BY <2>2 DEF Byte, RegWrite
<1>2. QED
  BY <1>1 DEF CtrlClock, BufferClock, BufferType, Word

(* Every clock keeps the bus in order. *)
LEMMA OrderKept ==
  ASSUME TypeOK, BusInv, NEW go \in SUBSET Movable, NEW op \in Ops, Cycle(go, op)
  PROVE  /\ bus'.writes \in Seq(UnderWay)
         /\ InOrder' /\ Latched'
         /\ bus.writes # <<>> /\ bus'.writes # <<>> /\ "b" \notin go => bus'.writes[1].w = bus.writes[1].w
         /\ op.write = {} => Len(bus'.writes) = Len(bus.writes) - One("b" \in go)
<1> DEFINE p == One("b" \in go)
<1>1. PICK left : /\ Left(go, left)
                  /\ bus'.writes = IF op.write = {} THEN left
                                   ELSE Append(left, Issue(CHOOSE w \in op.write : TRUE))
  BY Leaving DEF Cycle
<1>2. /\ bus.writes \in Seq(UnderWay) /\ Len(bus.writes) \in Nat
      /\ Answered \in {0, 1} /\ Answered <= Len(bus.writes)
      /\ AwArrived = Answered + One(axi.awFull) /\ AwArrived <= Len(bus.writes)
      /\ WArrived = Answered + One(axi.wFull) /\ WArrived <= Len(bus.writes)
      /\ axi.awFull \in BOOLEAN /\ axi.wFull \in BOOLEAN /\ axi.b.valid \in BOOLEAN
  <2>1. /\ bus.writes \in Seq(UnderWay)
        /\ axi.awFull \in BOOLEAN /\ axi.wFull \in BOOLEAN /\ axi.b.valid \in BOOLEAN
    BY DEF TypeOK
  <2>2. AwArrived <= Len(bus.writes) /\ WArrived <= Len(bus.writes)
    BY DEF BusInv, InOrder
  <2>3. Len(bus.writes) \in Nat
    BY <2>1
  <2>4. QED
    BY <2>1, <2>2, <2>3 DEF AwArrived, WArrived, Answered, One
<1>3. /\ "aw" \in go => ~axi.awFull /\ Answered < Len(bus.writes)
      /\ "w" \in go => ~axi.wFull /\ Answered < Len(bus.writes)
      /\ "b" \in go => axi.b.valid
      /\ DoWrite <=> axi.awFull /\ axi.wFull /\ ~axi.b.valid
  BY Movement DEF DoWrite
<1>4. /\ axi'.awFull <=> "aw" \in go \/ (axi.awFull /\ ~DoWrite)
      /\ axi'.wFull <=> "w" \in go \/ (axi.wFull /\ ~DoWrite)
      /\ axi'.b.valid <=> DoWrite \/ (axi.b.valid /\ "b" \notin go)
      /\ axi'.addr = IF "aw" \in go THEN bus.writes[Answered + 1].w.addr ELSE axi.addr
      /\ axi'.data = IF "w" \in go THEN bus.writes[Answered + 1].w.data ELSE axi.data
      /\ axi'.strb = IF "w" \in go THEN bus.writes[Answered + 1].w.strb ELSE axi.strb
  BY SlaveClock
<1> DEFINE d == One(DoWrite)
           a == One("aw" \in go)
           v == One("w" \in go)
<1>5. /\ Answered' = Answered + d - p
      /\ p \in {0, 1} /\ d \in {0, 1} /\ a \in {0, 1} /\ v \in {0, 1}
      /\ d = 1 <=> DoWrite
      /\ a = 1 <=> "aw" \in go
      /\ v = 1 <=> "w" \in go
  BY <1>3, <1>4 DEF Answered, One
<1>6. AwArrived' = AwArrived + a - p
  BY <1>2, <1>3, <1>4, <1>5 DEF AwArrived, One
<1>7. WArrived' = WArrived + v - p
  BY <1>2, <1>3, <1>4, <1>5 DEF WArrived, One
<1> HIDE DEF p, a, v, d
<1>8. /\ left \in Seq(UnderWay) /\ Len(left) = Len(bus.writes) - p
      /\ Answered' <= Len(left) /\ AwArrived' <= Len(left) /\ WArrived' <= Len(left)
      /\ Answered' \in Nat /\ AwArrived' \in Nat /\ WArrived' \in Nat /\ Len(left) \in Nat
  <2>1. left \in Seq(UnderWay) /\ Len(left) = Len(bus.writes) - p
    BY <1>1 DEF Left, p
  <2>2. Len(left) \in Nat
    BY <2>1
  <2>3. d = 1 => a = 0 /\ v = 0 /\ p = 0 /\ Answered = 0 /\ AwArrived = 1
    BY <1>2, <1>3, <1>5 DEF One, Answered, p
  <2>4. p = 1 => Answered = 1
    BY <1>3 DEF Answered, One, p
  <2>5. /\ a = 1 => AwArrived < Len(bus.writes)
        /\ v = 1 => WArrived < Len(bus.writes)
    BY <1>2, <1>3, <1>5 DEF One
  <2>6. AwArrived >= Answered /\ WArrived >= Answered /\ AwArrived \in Nat /\ WArrived \in Nat
    BY <1>2 DEF One
  <2>7. Answered' <= Len(left) /\ Answered' \in Nat
    BY <1>2, <1>5, <2>1, <2>3, <2>4, <2>6
  <2>8. AwArrived' <= Len(left) /\ AwArrived' \in Nat
    BY <1>2, <1>5, <1>6, <2>1, <2>3, <2>4, <2>5, <2>6
  <2>9. WArrived' <= Len(left) /\ WArrived' \in Nat
    BY <1>2, <1>5, <1>7, <2>1, <2>3, <2>4, <2>5, <2>6
  <2>10. QED
    BY <2>1, <2>2, <2>7, <2>8, <2>9
<1>9. PICK n, z, x, y : n = Len(left) /\ z = Answered' /\ x = AwArrived' /\ y = WArrived'
  OBVIOUS
<1>10. /\ n \in Nat /\ z \in Nat /\ x \in Nat /\ y \in Nat /\ z <= n /\ x <= n /\ y <= n
       /\ z = Answered + d - p /\ x = AwArrived + a - p /\ y = WArrived + v - p
       /\ x = z + One(axi'.awFull) /\ y = z + One(axi'.wFull)
  <2>1. AwArrived' = Answered' + One(axi'.awFull) /\ WArrived' = Answered' + One(axi'.wFull)
    BY DEF AwArrived, WArrived, One
  <2>2. n \in Nat /\ z \in Nat /\ x \in Nat /\ y \in Nat /\ z <= n /\ x <= n /\ y <= n
    BY <1>8, <1>9
  <2>3. z = Answered + d - p /\ x = AwArrived + a - p /\ y = WArrived + v - p
    BY <1>5, <1>6, <1>7, <1>9
  <2>4. QED
    BY <1>9, <2>1, <2>2, <2>3
<1>11. \A i \in 1 .. n :
         /\ left[i].w = bus.writes[i + p].w
         /\ left[i].performed <=> i <= z
         /\ left[i].aw <=> i <= x
         /\ left[i].data <=> i <= y
  <2>1. \A i \in 1 .. n :
          /\ left[i].w = bus.writes[i + p].w
          /\ left[i].performed <=> i + p <= Answered + d
          /\ left[i].aw <=> i + p <= AwArrived + a
          /\ left[i].data <=> i + p <= WArrived + v
    BY <1>1, <1>8, <1>9 DEF Left, p, d, a, v
  <2>2. \A i \in 1 .. n :
          /\ i + p <= Answered + d <=> i <= z
          /\ i + p <= AwArrived + a <=> i <= x
          /\ i + p <= WArrived + v <=> i <= y
    BY <1>2, <1>5, <1>10 DEF One
  <2>3. QED
    BY <2>1, <2>2
<1>12. /\ axi'.awFull => z + 1 \in 1 .. n /\ axi'.addr = left[z + 1].w.addr
       /\ axi'.wFull => /\ z + 1 \in 1 .. n
                        /\ axi'.data = left[z + 1].w.data
                        /\ axi'.strb = left[z + 1].w.strb
  <2>1. ASSUME axi'.awFull \/ axi'.wFull
        PROVE  ~DoWrite /\ z + 1 \in 1 .. n /\ left[z + 1].w = bus.writes[Answered + 1].w
    <3>1. ~DoWrite
      BY <1>3, <1>4, <2>1
    <3>2. z + 1 + p = Answered + 1
      BY <1>2, <1>5, <1>10, <3>1
    <3>3. z + 1 \in 1 .. n
      BY <1>10, <2>1 DEF One
    <3>4. QED
      BY <1>11, <3>1, <3>2, <3>3
  <2>2. /\ axi.awFull => axi.addr = bus.writes[Answered + 1].w.addr
        /\ axi.wFull => /\ axi.data = bus.writes[Answered + 1].w.data
                        /\ axi.strb = bus.writes[Answered + 1].w.strb
    BY DEF BusInv, Latched
  <2>3. QED
    BY <1>4, <2>1, <2>2
<1>13. ASSUME \A i \in 1 .. n : bus'.writes[i] = left[i]
       PROVE  Latched'
  BY <1>9, <1>12, <1>13 DEF Latched
<1>14. p = 0 <=> "b" \notin go
  BY DEF One, p
<1>15. CASE op.write = {}
  <2>1. bus'.writes = left /\ Len(left) = n /\ DOMAIN left = 1 .. n
    BY <1>1, <1>8, <1>9, <1>15
  <2>2. InOrder'
    BY <1>9, <1>10, <1>11, <2>1 DEF InOrder
  <2>3. Latched'
    BY <1>13, <2>1
  <2>4. bus.writes # <<>> /\ left # <<>> /\ "b" \notin go => left[1].w = bus.writes[1].w
    <3>1. left # <<>> => 1 \in 1 .. n
      BY <1>8, <1>9, <1>10
    <3>2. QED
      BY <1>11, <1>14, <3>1
  <2>5. QED
    BY <1>8, <2>1, <2>2, <2>3, <2>4 DEF p
<1>16. CASE op.write # {}
  <2>1. PICK w \in WriteType : op.write = {w}
    BY <1>16 DEF Ops
  <2>2. bus'.writes = Append(left, Issue(w)) /\ Issue(w) \in UnderWay
    BY <1>1, <1>16, <2>1 DEF Issue, UnderWay
  <2>3. /\ bus'.writes \in Seq(UnderWay) /\ Len(bus'.writes) = n + 1
        /\ DOMAIN bus'.writes = 1 .. n + 1
        /\ bus'.writes[n + 1] = Issue(w)
        /\ \A i \in 1 .. n : bus'.writes[i] = left[i]
    BY <1>8, <1>9, <2>2
  <2> DEFINE last == bus'.writes[n + 1]
  <2>4. last = [w |-> w, aw |-> FALSE, data |-> FALSE, performed |-> FALSE]
    BY <2>3 DEF Issue
  <2> HIDE DEF last
  <2>5. ~last.performed /\ ~last.aw /\ ~last.data
    BY <2>4
  <2>6. ASSUME NEW i \in 1 .. n + 1
        PROVE  /\ bus'.writes[i].performed <=> i <= z
               /\ bus'.writes[i].aw <=> i <= x
               /\ bus'.writes[i].data <=> i <= y
    <3>1. CASE i = n + 1
      BY <1>10, <2>5, <3>1 DEF last
    <3>2. CASE i \in 1 .. n
      BY <1>11, <2>3, <3>2
    <3>3. QED
      BY <1>10, <3>1, <3>2
  <2>7. InOrder'
    BY <1>9, <1>10, <2>3, <2>6 DEF InOrder
  <2>8. Latched'
    BY <1>13, <2>3
  <2>9. bus.writes # <<>> /\ "b" \notin go => bus'.writes[1].w = bus.writes[1].w
    <3>1. bus.writes # <<>> /\ "b" \notin go => 1 \in 1 .. n
      BY <1>2, <1>8, <1>9, <1>14
    <3>2. QED
      BY <1>11, <1>14, <2>3, <3>1
  <2>10. QED
    BY <1>16, <2>3, <2>7, <2>8, <2>9
<1>17. QED
  BY <1>15, <1>16

(* Software learns of every write, and of nothing else. *)
LEMMA ToldKept ==
  ASSUME TypeOK, BusInv, NEW go \in SUBSET Movable, NEW op \in Ops, Cycle(go, op)
  PROVE  ToldRight'
<1>1. /\ axi'.b.valid <=> DoWrite \/ (axi.b.valid /\ "b" \notin go)
      /\ axi'.b.resp = IF DoWrite THEN WriteResponse(axi.addr) ELSE axi.b.resp
      /\ "b" \in go => axi.b.valid
  BY SlaveClock, Movement
<1>2. told' = IF "b" \in go /\ axi.b.resp = "OKAY" THEN Believe(told, Head(bus.writes).w) ELSE told
  BY DEF Cycle, ToldClock
<1>3. Registers = IF axi.b.valid /\ axi.b.resp = "OKAY" THEN Believe(told, Head(bus.writes).w) ELSE told
  BY DEF BusInv, ToldRight
<1>4. Registers' = [len |-> ctrl'.len, opnd |-> opnd']
  BY DEF Registers
<1>5. CtrlClock(RegWrite)
  BY DEF Cycle
<1>6. /\ bus.writes \in Seq(UnderWay) /\ bus'.writes \in Seq(UnderWay)
      /\ Answered <= Len(bus.writes) /\ (axi.awFull => Answered < Len(bus.writes))
      /\ axi'.b.valid => bus'.writes # <<>>
      /\ bus.writes # <<>> /\ bus'.writes # <<>> /\ "b" \notin go => bus'.writes[1].w = bus.writes[1].w
  <2>1. bus'.writes \in Seq(UnderWay) /\ InOrder'
    BY OrderKept
  <2>2. axi'.b.valid => Answered' = 1 /\ AwArrived' >= 1 /\ AwArrived' <= Len(bus'.writes)
    BY <2>1 DEF InOrder, Answered, AwArrived
  <2>3. /\ bus.writes \in Seq(UnderWay)
        /\ Answered <= Len(bus.writes) /\ (axi.awFull => Answered < Len(bus.writes))
    <3>1. bus.writes \in Seq(UnderWay) /\ AwArrived <= Len(bus.writes)
      BY DEF TypeOK, BusInv, InOrder
    <3>2. QED
      BY <3>1 DEF AwArrived, Answered
  <2>4. axi'.b.valid => bus'.writes # <<>>
    <3>1. PICK n : n = Len(bus'.writes)
      OBVIOUS
    <3>2. bus'.writes = <<>> => n = 0
      BY <2>1, <3>1
    <3>3. axi'.b.valid => AwArrived' <= n /\ (AwArrived' = 1 \/ AwArrived' = 2)
      BY <2>1, <2>2, <3>1 DEF AwArrived, Answered
    <3>4. QED
      BY <3>2, <3>3
  <2>5. QED
    BY <2>1, <2>3, <2>4, OrderKept
<1>7. CASE ~DoWrite
  <2>1. Registers' = Registers
    BY <1>4, <1>5, <1>7, WithoutEffect DEF Registers, Effective
  <2>2. CASE "b" \in go
    BY <1>1, <1>2, <1>3, <1>7, <2>1, <2>2 DEF ToldRight
  <2>3. CASE "b" \notin go /\ axi.b.valid
    <3>1. bus.writes # <<>> /\ bus'.writes # <<>>
      BY <1>1, <1>6, <2>3 DEF Answered
    <3>2. Head(bus'.writes).w = Head(bus.writes).w
      BY <1>6, <2>3, <3>1
    <3>3. QED
      BY <1>1, <1>2, <1>3, <1>7, <2>1, <2>3, <3>2 DEF ToldRight
  <2>4. CASE "b" \notin go /\ ~axi.b.valid
    BY <1>1, <1>2, <1>3, <1>7, <2>1, <2>4 DEF ToldRight
  <2>5. QED
    BY <2>2, <2>3, <2>4
<1>8. CASE DoWrite
  <2>1. ~axi.b.valid /\ axi.awFull /\ axi.wFull /\ "b" \notin go /\ Answered = 0
    BY <1>1, <1>8 DEF DoWrite, Answered
  <2>2. told' = told /\ told = Registers
    BY <1>2, <1>3, <2>1
  <2>3. bus.writes # <<>> /\ bus'.writes # <<>>
    BY <1>1, <1>6, <1>8, <2>1
  <2>4. PICK w : w = bus.writes[1].w
    OBVIOUS
  <2>5. w.addr = axi.addr /\ w.data = axi.data /\ w.strb = axi.strb
    BY <2>1, <2>4 DEF BusInv, Latched
  <2>6. Head(bus'.writes).w = w
    BY <1>6, <2>1, <2>3, <2>4
  <2>7. CASE WriteResponse(axi.addr) = "OKAY"
    <3>1. Registers' = Believe(told, w)
      BY <1>4, <1>5, <1>8, <2>2, <2>5, <2>7, WithEffect DEF Effective
    <3>2. QED
      BY <1>1, <1>8, <2>2, <2>6, <2>7, <3>1 DEF ToldRight
  <2>8. CASE WriteResponse(axi.addr) # "OKAY"
    <3>1. Registers' = Registers
      BY <1>4, <1>5, <2>8, WithoutEffect DEF Registers, Effective
    <3>2. QED
      BY <1>1, <1>8, <2>2, <2>8, <3>1 DEF ToldRight
  <2>9. QED
    BY <2>7, <2>8
<1>9. QED
  BY <1>7, <1>8

LEMMA BusKept ==
  ASSUME TypeOK, BusInv, NEW go \in SUBSET Movable, NEW op \in Ops, Cycle(go, op)
  PROVE  BusInv' /\ bus'.read.at \in {"none", "ask", "wait"} /\ DOMAIN bus'.read = {"at", "addr"}
<1>1. bus'.read = IF op.read # {} THEN [at |-> "ask", addr |-> CHOOSE a \in op.read : TRUE]
                  ELSE IF "ar" \in go THEN [bus.read EXCEPT !.at = "wait"]
                  ELSE IF "r" \in go THEN [bus.read EXCEPT !.at = "none"]
                  ELSE bus.read
  BY DEF Cycle, BusClock
<1>2. /\ axi'.r.valid <=> "ar" \in go \/ (axi.r.valid /\ "r" \notin go)
      /\ "ar" \in go => ~axi.r.valid /\ bus.read.at = "ask"
      /\ "r" \in go => axi.r.valid /\ bus.read.at = "wait"
      /\ axi.r.valid <=> bus.read.at = "wait"
      /\ op.read # {} => bus.read.at = "none"
      /\ bus.read.at \in {"none", "ask", "wait"} /\ DOMAIN bus.read = {"at", "addr"}
  BY SlaveClock, Movement DEF BusInv, Ops, TypeOK
<1> DEFINE read == bus.read
           next == bus'.read
<1> HIDE DEF read, next
<1>3. /\ op.read # {} => next.at = "ask"
      /\ op.read = {} /\ "ar" \in go => next.at = "wait"
      /\ op.read = {} /\ "ar" \notin go /\ "r" \in go => next.at = "none"
      /\ op.read = {} /\ "ar" \notin go /\ "r" \notin go => next.at = read.at
      /\ DOMAIN next = {"at", "addr"}
  BY <1>1, <1>2 DEF read, next
<1>4. /\ axi'.r.valid <=> bus'.read.at = "wait"
      /\ bus'.read.at \in {"none", "ask", "wait"} /\ DOMAIN bus'.read = {"at", "addr"}
  BY <1>2, <1>3 DEF read, next
<1>5. QED
  BY <1>4, OrderKept, ToldKept DEF BusInv

(* What becomes of a run in a clock. *)
LEMMA RunEvents ==
  ASSUME TypeOK, RunInv, CtrlClock(RegWrite), RunClock
  PROVE  /\ DOMAIN run' = {"outcome", "opnd", "k"}
         /\ run'.outcome \in {"none", "running", "finished", "discarded"}
         /\ ReqSoftRst(RegWrite) =>
              run'.outcome = "discarded" /\ run'.opnd = run.opnd /\ run'.k = run.k
         /\ ~ReqSoftRst(RegWrite) /\ CtrlBusy =>
              /\ run'.outcome = IF ctrl'.state = "IDLE" THEN "finished" ELSE "running"
              /\ run'.opnd = run.opnd /\ run'.k = run.k
         /\ ~ReqSoftRst(RegWrite) /\ ~CtrlBusy /\ Starts =>
              run'.outcome = "running" /\ run'.opnd = opnd /\ run'.k = ctrl.len
         /\ ~ReqSoftRst(RegWrite) /\ ~CtrlBusy /\ ~Starts =>
              /\ run'.opnd = run.opnd /\ run'.k = run.k
              /\ run'.outcome = IF ReqClrAcc(RegWrite) THEN "discarded" ELSE run.outcome
<1>1. /\ DOMAIN run = {"outcome", "opnd", "k"}
      /\ run.outcome \in {"none", "running", "finished", "discarded"}
      /\ CtrlBusy <=> run.outcome = "running"
  BY DEF TypeOK, RunInv
<1>2. ~ReqSoftRst(RegWrite) /\ ~CtrlBusy => (ctrl'.state # "IDLE" <=> Starts)
  BY RunFsm DEF CtrlBusy
<1>3. CASE ReqSoftRst(RegWrite)
  BY <1>1, <1>3 DEF RunClock
<1>4. CASE ~ReqSoftRst(RegWrite) /\ CtrlBusy
  <2>1. run' = [run EXCEPT !.outcome = IF ctrl'.state = "IDLE" THEN "finished" ELSE run.outcome]
    BY <1>4 DEF RunClock
  <2>2. QED
    BY <1>1, <1>4, <2>1
<1>5. CASE ~ReqSoftRst(RegWrite) /\ ~CtrlBusy /\ Starts
  BY <1>2, <1>5 DEF RunClock
<1>6. CASE ~ReqSoftRst(RegWrite) /\ ~CtrlBusy /\ ~Starts
  BY <1>1, <1>2, <1>6 DEF RunClock
<1>7. QED
  BY <1>3, <1>4, <1>5, <1>6

LEMMA TypesKept ==
  ASSUME TypeOK, BusInv, RunInv, NEW go \in SUBSET Movable, NEW op \in Ops, Cycle(go, op)
  PROVE  TypeOK'
<1>1. ctrl' \in CtrlType /\ opnd' \in BufferType
  BY RunFsm, BuffersTyped DEF Cycle
<1>2. /\ axi'.awFull \in BOOLEAN /\ axi'.wFull \in BOOLEAN
      /\ DOMAIN axi'.b = {"valid", "resp"} /\ axi'.b.valid \in BOOLEAN
      /\ DOMAIN axi'.r = {"valid", "data", "resp"} /\ axi'.r.valid \in BOOLEAN
  <2>1. DOMAIN axi'.b = {"valid", "resp"} /\ DOMAIN axi'.r = {"valid", "data", "resp"}
    BY SlaveClock
  <2>2. axi'.awFull \in BOOLEAN /\ axi'.wFull \in BOOLEAN
    BY DEF Cycle, AxiClock
  <2>3. axi'.b.valid \in BOOLEAN
    <3> DEFINE b == [axi.b EXCEPT !.valid = axi.b.valid /\ ~Wires(go).bready]
    <3>1. axi'.b.valid = IF DoWrite THEN TRUE ELSE b.valid
      BY DEF Cycle, AxiClock
    <3>2. b.valid \in BOOLEAN
      BY DEF TypeOK
    <3> HIDE DEF b
    <3>3. QED
      BY <3>1, <3>2
  <2>4. axi'.r.valid \in BOOLEAN
    <3> DEFINE r == [axi.r EXCEPT !.valid = axi.r.valid /\ ~Wires(go).rready]
    <3>1. axi'.r.valid = IF DoRead(Wires(go)) THEN TRUE ELSE r.valid
      BY DEF Cycle, AxiClock
    <3>2. r.valid \in BOOLEAN
      BY DEF TypeOK
    <3> HIDE DEF r
    <3>3. QED
      BY <3>1, <3>2
  <2>5. QED
    BY <2>1, <2>2, <2>3, <2>4
<1>3. axi'.data \in Word /\ axi'.strb \in SUBSET (0 .. 3)
  <2>1. "w" \in go => bus.writes[Answered + 1] \in UnderWay
    <3>1. "w" \in go => Answered < Len(bus.writes) /\ Answered \in Nat
      BY Movement DEF Answered
    <3>2. bus.writes \in Seq(UnderWay)
      BY DEF TypeOK
    <3>3. QED
      BY <3>1, <3>2
  <2>2. "w" \in go => /\ bus.writes[Answered + 1].w.data \in Word
                      /\ bus.writes[Answered + 1].w.strb \in SUBSET (0 .. 3)
    BY <2>1 DEF UnderWay, WriteType
  <2>3. axi.data \in Word /\ axi.strb \in SUBSET (0 .. 3)
    BY DEF TypeOK
  <2>4. QED
    BY <2>2, <2>3, SlaveClock
<1>4. /\ bus'.writes \in Seq(UnderWay)
      /\ bus'.read.at \in {"none", "ask", "wait"} /\ DOMAIN bus'.read = {"at", "addr"}
  BY OrderKept, BusKept
<1>5. DOMAIN run' = {"outcome", "opnd", "k"} /\ run'.outcome \in {"none", "running", "finished", "discarded"}
  BY RunEvents DEF Cycle
<1>6. QED
  BY <1>1, <1>2, <1>3, <1>4, <1>5 DEF TypeOK

-----------------------------------------------------------------------------
(* Sums. *)
LEMMA SumIs ==
  ASSUME NEW t, NEW n \in Nat
  PROVE  Sum(t, n) = PartialSums(t, n)[n]
  BY DEF Sum, PartialSums, IsPartialSums

LEMMA SumStep ==
  ASSUME NEW t, NEW n \in Nat
  PROVE  /\ Sum(t, 0) = 0
         /\ Sum(t, n + 1) = Sum(t, n) + t[n]
         /\ (\A i \in 0 .. n - 1 : t[i] \in Int) => Sum(t, n) \in Int
  BY SumIs, PartialSumsStep, PartialSumsType

(* An element of an operand is a byte of its buffer. *)
LEMMA CellIs ==
  ASSUME NEW x \in BufferType, NEW win \in {"A", "B"}, NEW k \in 0 .. KMax - 1, NEW i \in Lanes
  PROVE  /\ k * WordsPerVector + i \div 4 \in 0 .. BufWords - 1 /\ i % 4 \in 0 .. 3
         /\ Cell(x, win, k, i) \in SignedBytes
<1>1. i \in 0 .. N - 1 /\ N = 4 * WordsPerVector /\ WordsPerVector \in Nat /\ KMax \in Nat
  BY Sizes DEF Lanes
<1>2. i \div 4 \in 0 .. WordsPerVector - 1 /\ i % 4 \in 0 .. 3
  BY <1>1
<1>3. k * WordsPerVector + i \div 4 \in 0 .. BufWords - 1
  BY <1>1, <1>2, CellInRange, Sizes
<1>4. x[win][k * WordsPerVector + i \div 4][i % 4] \in 0 .. 255
  <2> DEFINE word == k * WordsPerVector + i \div 4
             lane == i % 4
  <2>1. word \in 0 .. BufWords - 1 /\ lane \in 0 .. 3
    BY <1>2, <1>3
  <2> HIDE DEF word, lane
  <2>2. x[win][word] \in [0 .. 3 -> 0 .. 255]
    BY <2>1 DEF BufferType, Word
  <2>3. x[win][word][lane] \in 0 .. 255
    BY <2>1, <2>2
  <2>4. QED
    BY <2>3 DEF word, lane
<1>5. Cell(x, win, k, i) \in SignedBytes
  <2> DEFINE bits == x[win][k * WordsPerVector + i \div 4][i % 4]
  <2>1. bits \in 0 .. 255
    BY <1>4
  <2>2. Cell(x, win, k, i) = SignedByte(bits)
    BY Zenon DEF Cell
  <2> HIDE DEF bits
  <2>3. SignedByte(bits) \in SignedBytes
    BY <2>1 DEF SignedByte, SignedBytes
  <2>4. QED
    BY <2>2, <2>3, Zenon
<1>6. QED
  BY <1>2, <1>3, <1>5, Zenon

(* The products that have met: one more each clock, while there are some.  *)
LEMMA MetStep ==
  ASSUME NEW x \in BufferType, NEW k \in 1 .. KMax, NEW r \in Lanes, NEW c \in Lanes, NEW n \in Int
  PROVE  /\ Accumulated(x, k, r, c, n + 1)
              = Accumulated(x, k, r, c, n) + Fed(x, k, "A", r, n) * Fed(x, k, "B", c, n)
         /\ n < 0 => Accumulated(x, k, r, c, n) = 0
<1> DEFINE t == Products(x, k, r, c)
<1>1. KMax \in Nat /\ k \in Nat
  BY Sizes
<1>2. ASSUME NEW i \in 0 .. k - 1
      PROVE  /\ t[i] = Cell(x, "A", i, r) * Cell(x, "B", i, c)
             /\ Cell(x, "A", i, r) \in Int /\ Cell(x, "B", i, c) \in Int /\ t[i] \in Int
  <2>1. i \in 0 .. KMax - 1
    BY <1>1
  <2>2. Cell(x, "A", i, r) \in SignedBytes /\ Cell(x, "B", i, c) \in SignedBytes
    BY <2>1, CellIs
  <2>3. t[i] = Cell(x, "A", i, r) * Cell(x, "B", i, c)
    BY DEF Products
  <2>4. Cell(x, "A", i, r) \in Int /\ Cell(x, "B", i, c) \in Int
    BY <2>2 DEF SignedBytes
  <2>5. \A u, v \in Int : u * v \in Int
    OBVIOUS
  <2> HIDE DEF t
  <2>6. QED
    BY <2>3, <2>4, <2>5
<1> HIDE DEF t
<1>3. \A m \in 0 .. k : Sum(t, m) \in Int
  BY <1>1, <1>2, SumStep
<1>4. Sum(t, 0) = 0 /\ \A m \in Nat : Sum(t, m + 1) = Sum(t, m) + t[m]
  BY SumStep
<1>5. \A m \in Int : Accumulated(x, k, r, c, m) = Sum(t, Met(k, m))
  BY DEF Accumulated, t
<1>6. CASE n \in 0 .. k - 1
  <2>1. Met(k, n) = n /\ Met(k, n + 1) = n + 1
    BY <1>1, <1>6 DEF Met
  <2>2. Fed(x, k, "A", r, n) = Cell(x, "A", n, r) /\ Fed(x, k, "B", c, n) = Cell(x, "B", n, c)
    BY <1>6 DEF Fed
  <2>3. QED
    BY <1>2, <1>4, <1>5, <1>6, <2>1, <2>2
<1>7. CASE n \notin 0 .. k - 1
  <2>1. Met(k, n) = Met(k, n + 1) /\ Met(k, n) \in 0 .. k /\ (n < 0 => Met(k, n) = 0)
    BY <1>1, <1>7 DEF Met
  <2>2. Fed(x, k, "A", r, n) = 0 /\ Fed(x, k, "B", c, n) = 0
    BY <1>7 DEF Fed
  <2>3. Sum(t, Met(k, n)) \in Int
    BY <1>3, <2>1
  <2>4. QED
    BY <1>4, <1>5, <2>1, <2>2, <2>3
<1>8. QED
  BY <1>6, <1>7

(* A cleared array has streamed nothing. *)
LEMMA StreamStart ==
  ASSUME NEW x \in BufferType, NEW k \in 1 .. KMax
  PROVE  Streamed([west |-> ZeroLines, north |-> ZeroLines, acc |-> ZeroAcc], x, k, 0)
<1>1. N \in Nat \ {0}
  BY Sizes
<1>2. ASSUME NEW i \in Lanes, NEW j \in LineOf(i)
      PROVE  /\ ZeroLines[i][j] = 0
             /\ Fed(x, k, "A", i, 0 - 1 - j) = 0 /\ Fed(x, k, "B", i, 0 - 1 - j) = 0
  <2>1. j \in Nat
    BY <1>1 DEF Lanes, LineOf
  <2>2. QED
    BY <2>1 DEF ZeroLines, Fed
<1>3. ASSUME NEW r \in Lanes, NEW c \in Lanes
      PROVE  ZeroAcc[<<r, c>>] = 0 /\ Accumulated(x, k, r, c, 0 - 1 - (r + c)) = 0
  <2>1. 0 - 1 - (r + c) \in Int /\ 0 - 1 - (r + c) < 0
    BY <1>1 DEF Lanes
  <2>2. QED
    BY <2>1, MetStep DEF ZeroAcc
<1>4. QED
  BY <1>2, <1>3 DEF Streamed

(* An enabled clock moves every operand on by a register and adds a product. *)
StreamFed(x, k, t, a, b) == \A i \in Lanes : a[i] = Fed(x, k, "A", i, t) /\ b[i] = Fed(x, k, "B", i, t)

Clocked(next, a, b) ==
  /\ next.west = Shifted(arr.west, a)
  /\ next.north = Shifted(arr.north, b)
  /\ next.acc = [p \in Lanes \X Lanes |-> arr.acc[p] + ActReg(p[1], p[2]) * WtReg(p[1], p[2])]

LEMMA StreamStep ==
  ASSUME NEW x \in BufferType, NEW k \in 1 .. KMax, NEW t \in Nat,
         NEW a, NEW b, NEW next,
         Streamed(arr, x, k, t), StreamFed(x, k, t, a, b), Clocked(next, a, b)
  PROVE  Streamed(next, x, k, t + 1)
<1>1. N \in Nat \ {0}
  BY Sizes
<1>2. PICK s \in Nat : s = t + 1
  OBVIOUS
<1>3. ASSUME NEW i \in Lanes, NEW j \in LineOf(i)
      PROVE  /\ next.west[i][j] = Fed(x, k, "A", i, s - 1 - j)
             /\ next.north[i][j] = Fed(x, k, "B", i, s - 1 - j)
  <2>1. i \in Nat /\ i <= N - 1 /\ j \in Nat /\ j <= i + N - 1
    BY <1>1 DEF Lanes, LineOf
  <2>2. /\ next.west[i][j] = IF j = 0 THEN a[i] ELSE arr.west[i][j - 1]
        /\ next.north[i][j] = IF j = 0 THEN b[i] ELSE arr.north[i][j - 1]
    BY DEF Clocked, Shifted
  <2>3. CASE j = 0
    <3>1. s - 1 - j = t
      BY <1>2, <2>3
    <3>2. QED
      BY <2>2, <2>3, <3>1 DEF StreamFed
  <2>4. CASE j # 0
    <3>1. j - 1 \in LineOf(i) /\ t - 1 - (j - 1) = s - 1 - j
      BY <1>2, <1>1, <2>1, <2>4 DEF LineOf
    <3>2. /\ arr.west[i][j - 1] = Fed(x, k, "A", i, t - 1 - (j - 1))
          /\ arr.north[i][j - 1] = Fed(x, k, "B", i, t - 1 - (j - 1))
      BY <3>1 DEF Streamed
    <3>3. QED
      BY <2>2, <2>4, <3>1, <3>2
  <2>5. QED
    BY <2>3, <2>4
<1>4. ASSUME NEW r \in Lanes, NEW c \in Lanes
      PROVE  next.acc[<<r, c>>] = Accumulated(x, k, r, c, s - 1 - (r + c))
  <2>1. r \in 0 .. N - 1 /\ c \in 0 .. N - 1
    BY DEF Lanes
  <2>2. r + c \in LineOf(r) /\ c + r \in LineOf(c) /\ c + r = r + c
    BY <1>1, <2>1 DEF LineOf
  <2>3. next.acc[<<r, c>>] = arr.acc[<<r, c>>] + ActReg(r, c) * WtReg(r, c)
    BY DEF Clocked
  <2> DEFINE n == t - 1 - (r + c)
  <2>4. n \in Int /\ n + 1 = s - 1 - (r + c)
    BY <1>2, <2>1
  <2>5. ActReg(r, c) = Fed(x, k, "A", r, n) /\ WtReg(r, c) = Fed(x, k, "B", c, n)
    <3>1. arr.west[r][r + c] = Fed(x, k, "A", r, t - 1 - (r + c))
      BY <2>2 DEF Streamed
    <3>2. arr.north[c][c + r] = Fed(x, k, "B", c, t - 1 - (c + r))
      BY <2>2 DEF Streamed
    <3>3. QED
      BY <2>2, <3>1, <3>2 DEF ActReg, WtReg
  <2>6. arr.acc[<<r, c>>] = Accumulated(x, k, r, c, n)
    BY DEF Streamed
  <2> HIDE DEF n
  <2>7. Accumulated(x, k, r, c, n + 1)
          = Accumulated(x, k, r, c, n) + Fed(x, k, "A", r, n) * Fed(x, k, "B", c, n)
    BY <2>4, MetStep
  <2>8. QED
    BY <2>3, <2>4, <2>5, <2>6, <2>7
<1>5. QED
  BY <1>2, <1>3, <1>4 DEF Streamed

(* What the buffers feed a run in flight, and the array's step under it.    *)
LEMMA ArrayAdvances ==
  ASSUME TypeOK, RunInv, CtrlClock(RegWrite), ~ReqSoftRst(RegWrite), NEW t \in Nat,
         \/ ctrl.state = "FEED" /\ t = ctrl.feedK
         \/ ctrl.state = "DRAIN" /\ t = ctrl.len + ctrl.drain,
         Streamed(arr, run.opnd, run.k, t)
  PROVE  Streamed(arr', run.opnd, run.k, t + 1)
<1> DEFINE x == run.opnd
           k == run.k
           a == Vector("A")
           b == Vector("B")
<1>1. /\ CtrlBusy /\ x = opnd /\ x \in BufferType /\ k = ctrl.len /\ k \in 1 .. KMax
      /\ ctrl.state = "FEED" => ctrl.feedK \in 0 .. k - 1
      /\ ctrl.state = "DRAIN" => ctrl.drain \in Nat
  <2>1. CtrlBusy /\ x = opnd /\ k = ctrl.len /\ ctrl.len \in 1 .. KMax
    BY DEF RunInv, CtrlBusy, LenValid
  <2>2. opnd \in BufferType /\ ctrl.drain \in Nat
    BY DEF TypeOK, CtrlType
  <2>3. QED
    BY <2>1, <2>2 DEF RunInv
<1>2. ASSUME NEW i \in Lanes
      PROVE  a[i] = Fed(x, k, "A", i, t) /\ b[i] = Fed(x, k, "B", i, t)
  <2>1. CASE ctrl.state = "FEED"
    <3>1. t = ctrl.feedK /\ t \in 0 .. k - 1
      BY <1>1, <2>1
    <3>2. /\ a[i] = Cell(opnd, "A", t, i)
          /\ b[i] = Cell(opnd, "B", t, i)
      BY <2>1, <3>1 DEF Vector, Cell
    <3>3. QED
      BY <1>1, <3>1, <3>2 DEF Fed
  <2>2. CASE ctrl.state = "DRAIN"
    <3>1. t \notin 0 .. k - 1
      BY <1>1, <2>2
    <3>2. a[i] = 0 /\ b[i] = 0
      BY <2>2 DEF Vector
    <3>3. QED
      BY <3>1, <3>2 DEF Fed
  <2>3. QED
    BY <2>1, <2>2
<1> DEFINE next == arr'
<1>3. Clocked(next, a, b)
  <2>1. ArrayClock(TRUE, FALSE, FALSE, a, b)
    BY <1>1 DEF CtrlClock, ArrayDrive
  <2>2. QED
    BY <2>1 DEF ArrayClock, LinesNext, AccNext, Clocked
<1>4. Streamed(arr, x, k, t) /\ x \in BufferType /\ k \in 1 .. KMax
  BY <1>1
<1>5. StreamFed(x, k, t, a, b)
  BY <1>2 DEF StreamFed
<1> HIDE DEF x, k, a, b, next
<1>6. Streamed(next, x, k, t + 1)
  BY <1>3, <1>4, <1>5, StreamStep
<1>7. QED
  BY <1>6 DEF next, x, k

LEMMA RunKept ==
  ASSUME TypeOK, RunInv, CtrlClock(RegWrite), RunClock
  PROVE  RunInv'
<1> DEFINE w == RegWrite
           k == run.k
<1>1. PICK c : c = Configured(RegWrite)
  OBVIOUS
<1>2. /\ c.state = ctrl.state /\ c.feedK = ctrl.feedK /\ c.drain = ctrl.drain
      /\ c.active = ctrl.active /\ c.macs = ctrl.macs
      /\ c.cycles = IF CtrlBusy THEN ctrl.cycles + 1 ELSE ctrl.cycles
      /\ c.done <=> ctrl.done /\ ~Commands(RegWrite, "STATUS", 1)
  BY <1>1, Configuration
<1>3. /\ ctrl.cycles \in Nat /\ ctrl.active \in Nat /\ ctrl.macs \in Nat /\ ctrl.len \in Nat
      /\ ctrl.feedK \in Nat /\ ctrl.drain \in Nat
      /\ ctrl.state \in {"IDLE", "CLEAR", "FEED", "DRAIN"} /\ opnd \in BufferType
      /\ ctrl.done \in BOOLEAN
  BY DEF TypeOK, CtrlType
<1>4. N \in Nat \ {0} /\ KMax \in Nat /\ N * N \in Nat /\ DrainCycles = 2 * N - 1
  BY Sizes
<1>5. CtrlBusy => /\ ctrl'.len = ctrl.len /\ opnd' = opnd /\ ~ctrl.done
                  /\ run.opnd = opnd /\ run.k = ctrl.len /\ ctrl.len \in 1 .. KMax
  BY WithoutEffect DEF RunInv, LenValid
<1>6. CASE ReqSoftRst(w)
  <2>1. ctrl'.state = "IDLE" /\ ~ctrl'.done /\ run'.outcome = "discarded"
    BY <1>1, <1>6, RunFsm, RunEvents
  <2>2. QED
    BY <2>1 DEF RunInv, CtrlBusy
<1>7. CASE ~ReqSoftRst(w) /\ ctrl.state = "IDLE" /\ Starts
  <2>1. /\ ctrl'.state = "CLEAR" /\ ~ctrl'.done
        /\ ctrl'.cycles = 0 /\ ctrl'.active = 0 /\ ctrl'.macs = 0
        /\ run'.outcome = "running" /\ run'.opnd = opnd /\ run'.k = ctrl.len
    BY <1>1, <1>7, RunFsm, RunEvents DEF CtrlBusy
  <2>2. ctrl'.len = ctrl.len /\ opnd' = opnd /\ ctrl.len \in 1 .. KMax
    <3>1. ~LockedInRun(axi.addr)
      BY <1>7 DEF Starts, ReqStart, Commands, RegWrite, LockedInRun, Reg
    <3>2. ctrl'.len = ctrl.len /\ opnd' = opnd
      BY <3>1, WithoutEffect
    <3>3. QED
      BY <1>7, <3>2 DEF Starts, LenValid
  <2>3. QED
    BY <2>1, <2>2 DEF RunInv, CtrlBusy, LenValid
<1>8. CASE ~ReqSoftRst(w) /\ ctrl.state = "IDLE" /\ ~Starts
  <2>1. /\ ctrl'.state = "IDLE" /\ (ctrl'.done => ctrl.done)
        /\ ctrl'.cycles = ctrl.cycles /\ ctrl'.active = ctrl.active /\ ctrl'.macs = ctrl.macs
        /\ run'.opnd = run.opnd /\ run'.k = run.k
        /\ run'.outcome = IF ReqClrAcc(w) THEN "discarded" ELSE run.outcome
    BY <1>1, <1>2, <1>8, RunFsm, RunEvents DEF CtrlBusy, Kept
  <2>2. run.outcome # "running" /\ (ctrl.done => run.outcome \in {"finished", "discarded"})
    BY <1>8 DEF RunInv, CtrlBusy
  <2>3. CASE ReqClrAcc(w)
    BY <2>1, <2>2, <2>3 DEF RunInv, CtrlBusy
  <2>4. CASE ~ReqClrAcc(w)
    <3>1. arr'.west = arr.west /\ arr'.north = arr.north /\ arr'.acc = arr.acc
      BY <1>8, <2>4 DEF CtrlClock, ArrayDrive, ArrayClock, LinesNext, AccNext
    <3>2. run.outcome = "finished" =>
            /\ Streamed(arr', run'.opnd, run'.k, run.k + 2 * N - 1)
            /\ run.k \in 1 .. KMax /\ run.opnd \in BufferType
            /\ ctrl.cycles = 1 + (run.k + 2 * N - 1) /\ ctrl.active = run.k + 2 * N - 1
            /\ ctrl.macs = N * N * Met(run.k, run.k + 2 * N - 1)
      <4>1. run.outcome = "finished" =>
              /\ Streamed(arr, run.opnd, run.k, run.k + 2 * N - 1)
              /\ run.k \in 1 .. KMax /\ run.opnd \in BufferType
              /\ ctrl.cycles = 1 + (run.k + 2 * N - 1) /\ ctrl.active = run.k + 2 * N - 1
              /\ ctrl.macs = N * N * Met(run.k, run.k + 2 * N - 1)
        BY DEF RunInv, Flowing
      <4>2. Streamed(arr, run.opnd, run.k, run.k + 2 * N - 1)
              => Streamed(arr', run'.opnd, run'.k, run.k + 2 * N - 1)
        BY <2>1, <3>1 DEF Streamed
      <4>3. QED
        BY <4>1, <4>2
    <3>3. QED
      BY <2>1, <2>2, <2>4, <3>2 DEF RunInv, CtrlBusy, Flowing
  <2>5. QED
    BY <2>3, <2>4
<1>9. CASE ~ReqSoftRst(w) /\ ctrl.state = "CLEAR"
  <2>1. CtrlBusy
    BY <1>9 DEF CtrlBusy
  <2>2. /\ ctrl'.state = "FEED" /\ ~ctrl'.done /\ ctrl'.feedK = 0
        /\ ctrl'.cycles = 1 /\ ctrl'.active = 0 /\ ctrl'.macs = 0
        /\ run'.outcome = "running" /\ run'.opnd = run.opnd /\ run'.k = run.k
    <3>1. ctrl.cycles = 0 /\ ctrl.active = 0 /\ ctrl.macs = 0
      BY <1>9 DEF RunInv
    <3>2. QED
      BY <1>1, <1>2, <1>5, <1>9, <2>1, <3>1, RunFsm, RunEvents
  <2>3. Streamed(arr', run.opnd, run.k, 0)
    <3>1. arr' = [west |-> ZeroLines, north |-> ZeroLines, acc |-> ZeroAcc]
      BY <1>9 DEF CtrlClock, ArrayDrive, ArrayClock, LinesNext, AccNext
    <3>2. run.opnd \in BufferType /\ run.k \in 1 .. KMax
      BY <1>3, <1>5, <2>1
    <3>3. QED
      BY <3>1, <3>2, StreamStart
  <2>4. Flowing(0)'
    <3>1. Met(run.k, 0) = 0
      BY <1>3, <1>5, <2>1 DEF Met
    <3>2. QED
      BY <1>4, <2>2, <2>3, <3>1 DEF Flowing
  <2>5. 0 \in 0 .. ctrl'.len - 1
    BY <1>4, <1>5, <2>1
  <2>6. QED
    BY <1>5, <2>1, <2>2, <2>4, <2>5 DEF RunInv, CtrlBusy, LenValid
<1>10. CASE ~ReqSoftRst(w) /\ ctrl.state = "FEED"
  <2>1. CtrlBusy /\ ctrl.feedK \in 0 .. ctrl.len - 1 /\ Flowing(ctrl.feedK)
    BY <1>10 DEF CtrlBusy, RunInv
  <2>2. /\ ~ctrl'.done /\ ctrl'.cycles = ctrl.cycles + 1 /\ ctrl'.active = ctrl.active + 1
        /\ ctrl'.macs = ctrl.macs + N * N
        /\ IF ctrl.feedK = ctrl.len - 1 THEN ctrl'.state = "DRAIN" /\ ctrl'.drain = 0
           ELSE ctrl'.state = "FEED" /\ ctrl'.feedK = ctrl.feedK + 1
        /\ run'.outcome = "running" /\ run'.opnd = run.opnd /\ run'.k = run.k
    BY <1>1, <1>2, <1>5, <1>10, <2>1, RunFsm, RunEvents
  <2> PICK t \in Nat : t = ctrl.feedK
    BY <1>3
  <2>3. Streamed(arr', run.opnd, run.k, t + 1)
    BY <1>10, <2>1, ArrayAdvances DEF Flowing
  <2>4. Flowing(t + 1)'
    <3> DEFINE m == N * N
    <3>1. Met(run.k, t) = t /\ Met(run.k, t + 1) = t + 1 /\ t \in Nat /\ t + 1 \in Nat
      BY <1>4, <1>5, <2>1 DEF Met
    <3>2. ctrl.cycles = 1 + t /\ ctrl.active = t /\ ctrl.macs = m * t
      BY <2>1, <3>1 DEF Flowing
    <3>3. m * t + m = m * (t + 1) /\ m * t \in Int
      <4>1. m \in Int
        BY <1>4
      <4> HIDE DEF m
      <4>2. QED
        BY <4>1, Z3
    <3>4. /\ ctrl'.cycles = 1 + (t + 1) /\ ctrl'.active = t + 1
          /\ ctrl'.macs = m * Met(run.k, t + 1)
      <4> HIDE DEF m
      <4>1. QED
        BY <2>2, <3>1, <3>2, <3>3 DEF m
    <3>5. QED
      BY <2>2, <2>3, <3>4 DEF Flowing
  <2>5. CASE ctrl.feedK = ctrl.len - 1
    <3>1. t + 1 = ctrl'.len + ctrl'.drain /\ ctrl'.drain \in 0 .. DrainCycles - 1
      BY <1>3, <1>4, <1>5, <2>1, <2>2, <2>5
    <3>2. Flowing(ctrl.len + ctrl.drain)'
      BY <2>4, <3>1 DEF Flowing
    <3>3. QED
      BY <1>5, <2>1, <2>2, <2>5, <3>1, <3>2 DEF RunInv, CtrlBusy, LenValid
  <2>6. CASE ctrl.feedK # ctrl.len - 1
    <3>1. ctrl'.feedK = t + 1 /\ ctrl'.feedK \in 0 .. ctrl'.len - 1
      BY <1>3, <1>5, <2>1, <2>2, <2>6
    <3>2. Flowing(ctrl.feedK)'
      BY <2>4, <3>1 DEF Flowing
    <3>3. QED
      BY <1>5, <2>1, <2>2, <2>6, <3>1, <3>2 DEF RunInv, CtrlBusy, LenValid
  <2>7. QED
    BY <2>5, <2>6
<1>11. CASE ~ReqSoftRst(w) /\ ctrl.state = "DRAIN"
  <2>1. CtrlBusy /\ ctrl.drain \in 0 .. DrainCycles - 1 /\ Flowing(ctrl.len + ctrl.drain)
    BY <1>11 DEF CtrlBusy, RunInv
  <2>2. /\ ctrl'.cycles = ctrl.cycles + 1 /\ ctrl'.active = ctrl.active + 1 /\ ctrl'.macs = ctrl.macs
        /\ IF DrainOver THEN ctrl'.state = "IDLE" /\ ctrl'.done
           ELSE ctrl'.state = "DRAIN" /\ ctrl'.drain = ctrl.drain + 1 /\ ~ctrl'.done
        /\ run'.outcome = (IF ctrl'.state = "IDLE" THEN "finished" ELSE "running")
        /\ run'.opnd = run.opnd /\ run'.k = run.k
    BY <1>1, <1>2, <1>5, <1>11, <2>1, RunFsm, RunEvents
  <2> PICK t : t = ctrl.len + ctrl.drain
    OBVIOUS
  <2>3. t \in Nat /\ t + 1 \in Nat /\ t >= run.k /\ run.k \in 1 .. KMax /\ run.opnd \in BufferType
    BY <1>3, <1>4, <1>5, <2>1
  <2>4. Streamed(arr', run.opnd, run.k, t + 1)
    BY <1>11, <2>1, <2>3, ArrayAdvances DEF Flowing
  <2>5. Flowing(t + 1)'
    <3>1. Met(run.k, t) = run.k /\ Met(run.k, t + 1) = run.k
      BY <1>4, <2>3 DEF Met
    <3>2. ctrl.cycles = 1 + t /\ ctrl.active = t /\ ctrl.macs = N * N * Met(run.k, t)
      BY <2>1 DEF Flowing
    <3>3. ctrl'.cycles = 1 + (t + 1) /\ ctrl'.active = t + 1 /\ ctrl'.macs = N * N * Met(run.k, t + 1)
      BY <2>2, <2>3, <3>1, <3>2
    <3>4. QED
      BY <2>2, <2>4, <3>3 DEF Flowing
  <2>6. CASE DrainOver
    <3>1. t + 1 = run'.k + 2 * N - 1
      BY <1>3, <1>4, <1>5, <2>1, <2>2, <2>6 DEF DrainOver
    <3>2. Flowing(run.k + 2 * N - 1)'
      BY <2>5, <3>1 DEF Flowing
    <3>3. QED
      BY <2>2, <2>3, <2>6, <3>2 DEF RunInv, CtrlBusy
  <2>7. CASE ~DrainOver
    <3>1. t + 1 = ctrl'.len + ctrl'.drain /\ ctrl'.drain \in 0 .. DrainCycles - 1
      BY <1>3, <1>4, <1>5, <2>1, <2>2, <2>7 DEF DrainOver
    <3>2. Flowing(ctrl.len + ctrl.drain)'
      BY <2>5, <3>1 DEF Flowing
    <3>3. QED
      BY <1>5, <2>1, <2>2, <2>7, <3>1, <3>2 DEF RunInv, CtrlBusy, LenValid
  <2>8. QED
    BY <2>6, <2>7
<1>12. QED
  BY <1>3, <1>6, <1>7, <1>8, <1>9, <1>10, <1>11

-----------------------------------------------------------------------------
(* The driver's data. *)
LEMMA JobIs ==
  ASSUME NEW job \in Operands
  PROVE  /\ job.k \in 1 .. KMax /\ job.k \in Nat
         /\ HalfWords(job) \in Nat \ {0} /\ HalfWords(job) <= BufWords
         /\ TotalWords(job) = 2 * HalfWords(job) /\ TotalWords(job) \in Nat
<1>1. job.k \in 1 .. KMax
  BY LegacyBenchAssumption
<1>2. job.k \in Nat \ {0} /\ KMax \in Nat /\ job.k <= KMax
      /\ WordsPerVector \in Nat \ {0} /\ BufWords = KMax * WordsPerVector
  BY <1>1, Sizes
<1> DEFINE h == HalfWords(job)
<1>3. h \in Nat \ {0} /\ h <= BufWords
  <2>1. job.k * WordsPerVector \in Nat \ {0} /\ job.k * WordsPerVector <= KMax * WordsPerVector
    BY <1>2, Z3
  <2>2. QED
    BY <1>2, <2>1 DEF HalfWords
<1> HIDE DEF h
<1>4. 2 * h \in Nat /\ TotalWords(job) = 2 * h
  BY <1>3 DEF TotalWords, h
<1>5. QED
  BY <1>1, <1>2, <1>3, <1>4 DEF h

LEMMA JobBytes ==
  ASSUME NEW job \in Operands, NEW i \in Lanes, NEW k \in 0 .. job.k - 1
  PROVE  job.a[<<i, k>>] \in SignedBytes /\ job.b[<<k, i>>] \in SignedBytes
<1>1. /\ job.a \in [Lanes \X (0 .. job.k - 1) -> SignedBytes]
      /\ job.b \in [(0 .. job.k - 1) \X Lanes -> SignedBytes]
  BY LegacyBenchAssumption
<1>2. QED
  BY <1>1

(* A word of the load is four bytes of an operand, at its place. *)
LEMMA WindowIs ==
  ASSUME NEW job \in Operands, NEW win \in {"A", "B"}, NEW i \in 0 .. HalfWords(job) - 1
  PROVE  /\ Window(job, win, i) \in WriteType
         /\ Window(job, win, i).addr = [win |-> win, word |-> i]
         /\ Window(job, win, i).strb = {0, 1, 2, 3}
<1> DEFINE k == i \div WordsPerVector
           q == i % WordsPerVector
           data == [lane \in 0 .. 3 |->
                     (IF win = "A" THEN job.a[<<4 * q + lane, k>>] ELSE job.b[<<k, 4 * q + lane>>]) % 256]
<1>1. Window(job, win, i) = [addr |-> [win |-> win, word |-> i], strb |-> {0, 1, 2, 3}, data |-> data]
  BY DEF Window
<1>2. k \in 0 .. job.k - 1 /\ q \in 0 .. WordsPerVector - 1
  <2>1. job.k \in Nat /\ WordsPerVector \in Nat \ {0}
    BY JobIs, Sizes
  <2>2. QED
    BY <2>1, RowInRange DEF HalfWords
<1> HIDE DEF k, q
<1>3. ASSUME NEW lane \in 0 .. 3
      PROVE  data[lane] \in 0 .. 255
  <2>1. 4 * q + lane \in Lanes
    BY <1>2, Sizes DEF Lanes
  <2>2. job.a[<<4 * q + lane, k>>] \in SignedBytes /\ job.b[<<k, 4 * q + lane>>] \in SignedBytes
    BY <1>2, <2>1, JobBytes
  <2>3. \A v \in SignedBytes : v % 256 \in 0 .. 255
    BY DEF SignedBytes
  <2>4. QED
    BY <2>2, <2>3
<1>4. data \in Word
  BY <1>3 DEF Word
<1>5. [win |-> win, word |-> i] \in Address
  BY JobIs DEF Address
<1> HIDE DEF data
<1>6. Window(job, win, i) \in WriteType
  BY <1>1, <1>4, <1>5 DEF WriteType
<1>7. QED
  BY <1>1, <1>6

(* One more word of the load. *)
LEMMA LoadStep ==
  ASSUME NEW job \in Operands, NEW m \in 0 .. TotalWords(job) - 1,
         NEW known, LoadedIn(known.opnd, job, m)
  PROVE  /\ LoadWrite(job, m) \in WriteType
         /\ LoadedIn(Believe(known, LoadWrite(job, m)).opnd, job, m + 1)
         /\ LoadWrite(job, m).addr.win \in {"A", "B"} /\ LoadWrite(job, m).addr.word < BufWords
<1> DEFINE h == HalfWords(job)
           win == IF m < h THEN "A" ELSE "B"
           n == m % h
           w == Window(job, win, n)
           x == known.opnd
           y == Believe(known, w).opnd
<1>1. h \in Nat \ {0} /\ h <= BufWords /\ m \in Nat /\ m < 2 * h
  BY JobIs
<1>2. LoadWrite(job, m) = w
  BY DEF LoadWrite
<1> HIDE DEF h
<1>3. n = (IF m < h THEN m ELSE m - h) /\ n \in 0 .. h - 1
  <2>1. CASE m < h
    BY <1>1, <2>1, ModuloSmall
  <2>2. CASE m >= h
    <3>1. m = h * 1 + (m - h) /\ m - h \in 0 .. h - 1
      BY <1>1, <2>2
    <3>2. (h * 1 + (m - h)) % h = m - h
      BY <1>1, <3>1, RemainderUnique
    <3>3. QED
      BY <1>1, <2>2, <3>1, <3>2
  <2>3. QED
    BY <1>1, <2>1, <2>2
<1>4. /\ w \in WriteType /\ w.addr = [win |-> win, word |-> n] /\ w.strb = {0, 1, 2, 3}
      /\ w.data \in [0 .. 3 -> 0 .. 255]
  <2>1. n \in 0 .. HalfWords(job) - 1 /\ win \in {"A", "B"}
    BY <1>3 DEF h
  <2> HIDE DEF n, win
  <2>2. w \in WriteType /\ w.addr = [win |-> win, word |-> n] /\ w.strb = {0, 1, 2, 3}
    BY <2>1, WindowIs
  <2> HIDE DEF w
  <2>3. w.data \in Word
    BY <2>2 DEF WriteType
  <2>4. QED
    BY <2>2, <2>3 DEF Word
<1> HIDE DEF n, w
<1>5. ASSUME NEW v \in {"A", "B"}, NEW i \in 0 .. h - 1
      PROVE  y[v][i] = IF v = win /\ i = n THEN w.data ELSE x[v][i]
  <2>1. y[v][i] = IF w.addr = [win |-> v, word |-> i]
                    THEN [lane \in 0 .. 3 |-> IF lane \in w.strb THEN w.data[lane] ELSE x[v][i][lane]]
                  ELSE x[v][i]
    <3>1. i \in 0 .. BufWords - 1
      BY <1>1, Sizes
    <3>2. QED
      BY <3>1 DEF Believe
  <2>2. w.addr = [win |-> v, word |-> i] <=> v = win /\ i = n
    <3> HIDE DEF win
    <3>1. QED
      BY <1>4
  <2>3. [lane \in 0 .. 3 |-> IF lane \in w.strb THEN w.data[lane] ELSE x[v][i][lane]] = w.data
    BY <1>4
  <2>4. QED
    BY <2>1, <2>2, <2>3
<1> HIDE DEF y, x
<1>6. ASSUME NEW i \in 0 .. h - 1
      PROVE  /\ i < m + 1 => y["A"][i] = Window(job, "A", i).data
             /\ h + i < m + 1 => y["B"][i] = Window(job, "B", i).data
  <2>1. /\ i < m => x["A"][i] = Window(job, "A", i).data
        /\ h + i < m => x["B"][i] = Window(job, "B", i).data
    BY DEF LoadedIn, x, h
  <2>2. ASSUME i < m + 1
        PROVE  y["A"][i] = Window(job, "A", i).data
    <3>1. CASE win = "A" /\ i = n
      BY <1>5, <3>1 DEF w
    <3>2. CASE ~(win = "A" /\ i = n)
      <4>1. i < m
        BY <1>1, <1>3, <2>2, <3>2
      <4>2. QED
        BY <1>5, <2>1, <3>2, <4>1
    <3>3. QED
      BY <3>1, <3>2
  <2>3. ASSUME h + i < m + 1
        PROVE  y["B"][i] = Window(job, "B", i).data
    <3>1. CASE win = "B" /\ i = n
      BY <1>5, <3>1 DEF w
    <3>2. CASE ~(win = "B" /\ i = n)
      <4>1. h + i < m
        BY <1>1, <1>3, <2>3, <3>2
      <4>2. QED
        BY <1>5, <2>1, <3>2, <4>1
    <3>3. QED
      BY <3>1, <3>2
  <2>4. QED
    BY <2>2, <2>3
<1>7. LoadedIn(y, job, m + 1)
  BY <1>6 DEF LoadedIn, h
<1>8. w.addr.win \in {"A", "B"} /\ w.addr.word < BufWords
  <2>1. win \in {"A", "B"}
    OBVIOUS
  <2> HIDE DEF win
  <2>2. w.addr.win = win /\ w.addr.word = n
    BY <1>4
  <2>3. QED
    BY <1>1, <1>3, <2>1, <2>2, Sizes
<1>9. QED
  BY <1>2, <1>4, <1>7, <1>8 DEF y

(* A complete load is the operands. *)
LEMMA LoadedProducts ==
  ASSUME NEW job \in Operands, NEW x, LoadedIn(x, job, TotalWords(job)),
         NEW r \in Lanes, NEW c \in Lanes
  PROVE  Products(x, job.k, r, c) = JobProducts(job, r, c)
<1>1. ASSUME NEW i \in Lanes, NEW k \in 0 .. job.k - 1
      PROVE  /\ Cell(x, "A", k, i) = job.a[<<i, k>>]
             /\ Cell(x, "B", k, i) = job.b[<<k, i>>]
  <2> DEFINE q == i \div 4
             m == k * WordsPerVector + q
             lane == i % 4
  <2>1. /\ i \in Nat /\ q \in 0 .. WordsPerVector - 1 /\ lane \in 0 .. 3 /\ i = 4 * q + lane
        /\ WordsPerVector \in Nat \ {0} /\ k \in Nat /\ job.k \in Nat
    BY Sizes, JobIs DEF Lanes
  <2>2. m \in 0 .. HalfWords(job) - 1
    <3> HIDE DEF q
    <3>1. QED
      BY <2>1, CellInRange DEF HalfWords
  <2> HIDE DEF q, lane
  <2>3. m \div WordsPerVector = k /\ m % WordsPerVector = q
    <3>1. m = WordsPerVector * k + q
      BY <2>1, Z3
    <3> HIDE DEF m
    <3>2. QED
      BY <2>1, <3>1, RemainderUnique, QuotientUnique
  <2> HIDE DEF m
  <2>4. x["A"][m] = Window(job, "A", m).data /\ x["B"][m] = Window(job, "B", m).data
    <3>1. m < TotalWords(job) /\ HalfWords(job) + m < TotalWords(job)
      BY <2>2, JobIs
    <3>2. QED
      BY <2>2, <3>1 DEF LoadedIn
  <2>5. x["A"][m][lane] = job.a[<<i, k>>] % 256 /\ x["B"][m][lane] = job.b[<<k, i>>] % 256
    <3>1. /\ Window(job, "A", m).data[lane] = job.a[<<4 * q + lane, k>>] % 256
          /\ Window(job, "B", m).data[lane] = job.b[<<k, 4 * q + lane>>] % 256
      BY <2>1, <2>3 DEF Window
    <3>2. QED
      BY <2>1, <2>4, <3>1
  <2>6. job.a[<<i, k>>] \in SignedBytes /\ job.b[<<k, i>>] \in SignedBytes
    BY JobBytes
  <2>7. \A v \in SignedBytes : SignedByte(v % 256) = v
    BY DEF SignedBytes, SignedByte
  <2>8. QED
    BY <2>5, <2>6, <2>7 DEF Cell, m, q, lane
<1>2. \A k \in 0 .. job.k - 1 :
        Cell(x, "A", k, r) * Cell(x, "B", k, c) = job.a[<<r, k>>] * job.b[<<k, c>>]
  BY <1>1
<1>3. QED
  BY <1>2 DEF Products, JobProducts

(* A write of a whole register. *)
IsPut(w, name, v) ==
  /\ w \in WriteType /\ w.addr = Reg(name) /\ w.strb = {0, 1, 2, 3}
  /\ w.data[0] = v % 256 /\ w.data[1] = v \div 256

LEMMA PutIs ==
  ASSUME NEW v \in Nat, v <= 65535, NEW name, name \in {"LEN", "CTRL", "STATUS"}
  PROVE  IsPut(Put(Reg(name), v), name, v)
<1> DEFINE addr == Reg(name)
           data == [lane \in 0 .. 3 |-> (v \div 256^lane) % 256]
           w == Put(addr, v)
<1>1. w = [addr |-> addr, strb |-> {0, 1, 2, 3}, data |-> data]
  BY DEF Put
<1>2. addr \in Address
  BY DEF Reg, Address, ReadOnly
<1>3. \A lane \in 0 .. 3 : data[lane] \in 0 .. 255
  <2>1. v \div 256^0 \in Int /\ v \div 256^1 \in Int /\ v \div 256^2 \in Int /\ v \div 256^3 \in Int
    OBVIOUS
  <2>2. \A u \in Int : u % 256 \in 0 .. 255
    OBVIOUS
  <2>3. /\ data[0] = (v \div 256^0) % 256 /\ data[1] = (v \div 256^1) % 256
        /\ data[2] = (v \div 256^2) % 256 /\ data[3] = (v \div 256^3) % 256
    OBVIOUS
  <2> HIDE DEF data
  <2>4. data[0] \in 0 .. 255 /\ data[1] \in 0 .. 255 /\ data[2] \in 0 .. 255 /\ data[3] \in 0 .. 255
    BY <2>1, <2>2, <2>3
  <2>5. \A lane \in 0 .. 3 : lane = 0 \/ lane = 1 \/ lane = 2 \/ lane = 3
    OBVIOUS
  <2>6. QED
    BY <2>4, <2>5
<1>4. data[0] = v % 256 /\ data[1] = v \div 256
  <2>1. data[0] = (v \div 256^0) % 256 /\ data[1] = (v \div 256^1) % 256
    OBVIOUS
  <2> HIDE DEF data
  <2>2. v \in Nat /\ v <= 65535
    OBVIOUS
  <2>3. v \div 256^0 = v /\ v \div 256^1 = v \div 256
    BY <2>2
  <2>4. (v \div 256) % 256 = v \div 256
    BY <2>2
  <2>5. QED
    BY <2>1, <2>3, <2>4
<1>5. data \in Word
  BY <1>3 DEF Word
<1> HIDE DEF addr, data, w
<1>6. w \in WriteType /\ w.addr = addr /\ w.strb = {0, 1, 2, 3} /\ w.data = data
  BY <1>1, <1>2, <1>5 DEF WriteType
<1>7. QED
  BY <1>4, <1>6 DEF IsPut, w, addr

-----------------------------------------------------------------------------
(* A clock without a command to CTRL lets a run go on to its end, and what   *)
(* it left stay.                                                             *)
GoesOn ==
  /\ run'.k = run.k /\ run'.opnd = run.opnd
  /\ CtrlBusy' => CtrlBusy
  /\ run.outcome \in {"running", "finished"} => run'.outcome \in {"running", "finished"}
  /\ run.outcome = "finished" =>
       run'.outcome = "finished" /\ arr'.acc = arr.acc /\ ctrl'.macs = ctrl.macs

LEMMA Uncommanded ==
  ASSUME TypeOK, RunInv, CtrlClock(RegWrite), RunClock,
         ~ReqSoftRst(RegWrite), ~ReqClrAcc(RegWrite), ~ReqStart(RegWrite)
  PROVE  GoesOn
<1>1. ~Starts
  BY DEF Starts
<1>2. CtrlBusy <=> run.outcome = "running"
  BY DEF RunInv
<1>3. CASE CtrlBusy
  BY <1>2, <1>3, RunEvents DEF GoesOn
<1>4. CASE ~CtrlBusy
  <2>1. PICK c : c = Configured(RegWrite)
    OBVIOUS
  <2>2. ctrl'.state = "IDLE" /\ ctrl'.macs = ctrl.macs
    BY <1>1, <1>4, <2>1, RunFsm, Configuration DEF CtrlBusy, Kept
  <2>3. arr'.acc = arr.acc
    BY <1>4 DEF CtrlBusy, CtrlClock, ArrayDrive, ArrayClock, AccNext
  <2>4. run'.k = run.k /\ run'.opnd = run.opnd /\ run'.outcome = run.outcome
    BY <1>1, <1>4, RunEvents
  <2>5. ~CtrlBusy'
    BY <2>2 DEF CtrlBusy
  <2>6. QED
    BY <2>2, <2>3, <2>4, <2>5 DEF GoesOn
<1>5. QED
  BY <1>3, <1>4

(* While the bus is empty, nothing is performed. *)
LEMMA Empty ==
  ASSUME TypeOK, BusInv, bus.writes = <<>>
  PROVE  ~DoWrite /\ ~axi.b.valid /\ ~Pending
<1>1. Len(bus.writes) = 0 /\ AwArrived <= Len(bus.writes)
  BY DEF BusInv, InOrder
<1>2. axi.b.valid \in BOOLEAN /\ axi.awFull \in BOOLEAN
  BY DEF TypeOK
<1>3. QED
  BY <1>1, <1>2 DEF AwArrived, Answered, DoWrite, Pending

LEMMA Calm ==
  ASSUME TypeOK, BusInv, RunInv, NEW go \in SUBSET Movable, NEW op \in Ops, Cycle(go, op), ~DoWrite
  PROVE  GoesOn /\ opnd' = opnd /\ ctrl'.len = ctrl.len
<1>1. ~RegWrite.en
  BY DEF RegWrite
<1>2. CtrlClock(RegWrite) /\ RunClock
  BY DEF Cycle
<1>3. ~ReqSoftRst(RegWrite) /\ ~ReqClrAcc(RegWrite) /\ ~ReqStart(RegWrite)
  BY <1>1 DEF ReqSoftRst, ReqClrAcc, ReqStart, Commands
<1>4. QED
  BY <1>2, <1>3, Uncommanded, WithoutEffect DEF Effective

(* One write at a time: it is pending until it is performed, and then until  *)
(* its response is taken.                                                    *)
LEMMA PendingClock ==
  ASSUME TypeOK, BusInv, NEW go \in SUBSET Movable, NEW op \in Ops, Cycle(go, op),
         op.write = {}, Len(bus.writes) <= 1
  PROVE  /\ Pending' <=> Pending /\ ~DoWrite
         /\ DoWrite => /\ Pending /\ Len(bus.writes) = 1
                       /\ axi.addr = bus.writes[1].w.addr /\ axi.data = bus.writes[1].w.data
                       /\ axi.strb = bus.writes[1].w.strb
         /\ Len(bus'.writes) <= Len(bus.writes)
         /\ Len(bus'.writes) = 1 => Len(bus.writes) = 1 /\ bus'.writes[1].w = bus.writes[1].w
         /\ bus.writes = <<>> => bus'.writes = <<>>
<1>1. /\ bus.writes \in Seq(UnderWay) /\ bus'.writes \in Seq(UnderWay)
      /\ bus.writes # <<>> /\ bus'.writes # <<>> /\ "b" \notin go => bus'.writes[1].w = bus.writes[1].w
      /\ Len(bus'.writes) = Len(bus.writes) - One("b" \in go)
  BY OrderKept DEF TypeOK
<1>2. /\ axi'.b.valid <=> DoWrite \/ (axi.b.valid /\ "b" \notin go)
      /\ "b" \in go => axi.b.valid
  BY SlaveClock, Movement
<1>3. /\ DoWrite => axi.awFull /\ axi.wFull /\ ~axi.b.valid
      /\ axi.awFull \/ axi.b.valid => Len(bus.writes) >= 1
  <2>1. AwArrived <= Len(bus.writes)
    BY DEF BusInv, InOrder
  <2>2. Len(bus.writes) \in Nat /\ axi.awFull \in BOOLEAN /\ axi.b.valid \in BOOLEAN
    BY <1>1 DEF TypeOK
  <2>3. QED
    BY <2>1, <2>2 DEF AwArrived, Answered, DoWrite
<1>4. /\ Len(bus.writes) \in {0, 1} /\ Len(bus'.writes) \in {0, 1}
      /\ bus.writes = <<>> <=> Len(bus.writes) = 0
      /\ bus'.writes = <<>> <=> Len(bus'.writes) = 0
      /\ Len(bus'.writes) = IF "b" \in go THEN 0 ELSE Len(bus.writes)
  <2>1. /\ Len(bus.writes) \in {0, 1}
        /\ bus.writes = <<>> <=> Len(bus.writes) = 0
    <3>1. bus.writes \in Seq(UnderWay)
      BY <1>1
    <3>2. Len(bus.writes) \in Nat /\ (bus.writes = <<>> <=> Len(bus.writes) = 0)
      BY <3>1
    <3>3. \A n \in Nat : n <= 1 => n \in {0, 1}
      OBVIOUS
    <3>4. QED
      BY <3>2, <3>3
  <2>2. Len(bus'.writes) = IF "b" \in go THEN 0 ELSE Len(bus.writes)
    BY <1>1, <1>2, <1>3, <2>1 DEF One
  <2>3. bus'.writes = <<>> <=> Len(bus'.writes) = 0
    BY <1>1
  <2>4. QED
    BY <2>1, <2>2, <2>3
<1>5. Pending' <=> Pending /\ ~DoWrite
  BY <1>2, <1>3, <1>4 DEF Pending
<1>6. DoWrite => /\ Pending /\ Len(bus.writes) = 1
                 /\ axi.addr = bus.writes[1].w.addr /\ axi.data = bus.writes[1].w.data
                 /\ axi.strb = bus.writes[1].w.strb
  BY <1>3, <1>4 DEF BusInv, Latched, Answered, Pending
<1>7. Len(bus'.writes) = 1 => Len(bus.writes) = 1 /\ bus'.writes[1].w = bus.writes[1].w
  BY <1>1, <1>4
<1>8. QED
  BY <1>4, <1>5, <1>6, <1>7

(* What a write the driver issues leaves on the bus. *)
LEMMA Issued ==
  ASSUME TypeOK, BusInv, NEW op \in Ops, Cycle({}, op), bus.writes = <<>>,
         NEW w, op.write = {w}
  PROVE  Len(bus'.writes) = 1 /\ bus'.writes[1].w = w /\ Pending'
<1>1. ~DoWrite /\ ~axi.b.valid
  BY Empty
<1>2. {} \in SUBSET Movable
  OBVIOUS
<1>3. ~axi'.b.valid
  BY <1>1, <1>2, SlaveClock
<1>4. bus'.writes = Append(bus.writes, Issue(w))
  <2>1. Mark(bus.writes, "aw", FALSE) = bus.writes /\ \A ws : Mark(ws, "data", FALSE) = ws
    BY DEF Mark
  <2>2. Mark(bus.writes, "performed", DoWrite) = bus.writes
    BY <1>1 DEF Mark
  <2>3. (CHOOSE v \in op.write : TRUE) = w
    OBVIOUS
  <2>4. bus'.writes = Append(bus.writes, Issue(CHOOSE v \in op.write : TRUE))
    BY <1>1 DEF Cycle, BusClock, Mark
  <2>5. QED
    BY <2>3, <2>4
<1>5. bus'.writes = <<Issue(w)>>
  BY <1>4
<1>6. Issue(w).w = w
  BY DEF Issue
<1>7. QED
  BY <1>3, <1>5, <1>6 DEF Pending

-----------------------------------------------------------------------------
(* What a finished run leaves. *)
LEMMA Finished ==
  ASSUME TypeOK, RunInv, run.outcome = "finished"
  PROVE  /\ \A r, c \in Lanes : arr.acc[<<r, c>>] = Owed(r, c)
         /\ ctrl.cycles = run.k + 2 * N /\ ctrl.active = run.k + 2 * N - 1
         /\ ctrl.macs = N * N * run.k
         /\ run.k \in 1 .. KMax /\ run.opnd \in BufferType
<1> DEFINE t == run.k + 2 * N - 1
<1>1. /\ run.k \in 1 .. KMax /\ run.opnd \in BufferType
      /\ Streamed(arr, run.opnd, run.k, t)
      /\ ctrl.cycles = 1 + t /\ ctrl.active = t
      /\ ctrl.macs = N * N * Met(run.k, t)
  BY DEF RunInv, Flowing
<1>2. N \in Nat \ {0} /\ KMax \in Nat /\ run.k \in Nat
  BY <1>1, Sizes
<1>3. Met(run.k, t) = run.k
  BY <1>2 DEF Met
<1>4. ASSUME NEW r \in Lanes, NEW c \in Lanes
      PROVE  arr.acc[<<r, c>>] = Owed(r, c)
  <2>1. Met(run.k, t - 1 - (r + c)) = run.k
    BY <1>2 DEF Met, Lanes
  <2>2. arr.acc[<<r, c>>] = Accumulated(run.opnd, run.k, r, c, t - 1 - (r + c))
    BY <1>1 DEF Streamed
  <2>3. QED
    BY <2>1, <2>2 DEF Accumulated, Owed
<1>5. QED
  BY <1>1, <1>2, <1>3, <1>4

(* What the driver has asked for is what it will get. *)
LEMMA Sampled ==
  ASSUME IInv, sw.at # "free", bus.read.at # "none"
  PROVE  Answers(ReadData(bus.read.addr))
<1>1. /\ At({"poll", "macLo", "macHi", "c"}) /\ bus.read.addr = Asked /\ ~Pending
      /\ sw.at = "c" => sw.i \in 0 .. ResWords - 1
  BY DEF IInv, DriverInv, DriverState, OneAccess, ReadRight, Pending
<1>2. run.outcome \in {"running", "finished"} /\ (sw.at # "poll" => run.outcome = "finished")
  BY <1>1 DEF IInv, DriverInv, DriverState, Started, Unstarted, At
<1>3. CASE sw.at = "poll"
  <2> DEFINE addr == Reg("STATUS")
             busy == CtrlBusy
             done == ctrl.done
             err == ctrl.err
  <2>1. bus.read.addr = addr
    BY <1>1, <1>3 DEF Asked
  <2>2. ReadData(addr) = Flag(busy, 0) + Flag(done, 1) + Flag(err, 2)
    BY DEF ReadData, Mapped, Reg, RegisterData
  <2>3. busy \in BOOLEAN /\ done \in BOOLEAN /\ err \in BOOLEAN
    BY DEF IInv, TypeOK, CtrlType, CtrlBusy
  <2> HIDE DEF busy, err, addr
  <2>4. ASSUME Bit(ReadData(addr), 1)
        PROVE  done
    <3>1. SUFFICES ASSUME ~done
                   PROVE  FALSE
      OBVIOUS
    <3>2. Flag(done, 1) = 0 /\ Flag(busy, 0) \in {0, 1} /\ Flag(err, 2) \in {0, 4}
      BY <2>3, <3>1 DEF Flag
    <3>3. ReadData(addr) \in {0, 1, 4, 5}
      <4> DEFINE x == Flag(busy, 0)
                 y == Flag(done, 1)
                 z == Flag(err, 2)
      <4>1. ReadData(addr) = x + y + z /\ y = 0 /\ x \in {0, 1} /\ z \in {0, 4}
        BY <2>2, <3>2
      <4> HIDE DEF x, y, z
      <4>2. QED
        BY <4>1
    <3>4. \A v \in {0, 1, 4, 5} : (v \div 2^1) % 2 = 0
      OBVIOUS
    <3>5. QED
      BY <2>4, <3>3, <3>4 DEF Bit
  <2>5. done => run.outcome = "finished"
    BY <1>2 DEF IInv, RunInv
  <2>6. QED
    BY <1>3, <2>1, <2>4, <2>5 DEF Answers
<1>4. CASE sw.at = "macLo"
  <2>1. bus.read.addr = Reg("MAC_COUNT_LO")
    BY <1>1, <1>4 DEF Asked
  <2>2. ReadData(Reg("MAC_COUNT_LO")) = ctrl.macs % WordWrap
    BY DEF ReadData, Mapped, Reg, RegisterData, ReadOnly
  <2>3. QED
    BY <1>4, <2>1, <2>2 DEF Answers
<1>5. CASE sw.at = "macHi"
  <2>1. bus.read.addr = Reg("MAC_COUNT_HI")
    BY <1>1, <1>5 DEF Asked
  <2>2. ReadData(Reg("MAC_COUNT_HI")) = ctrl.macs \div WordWrap
    BY DEF ReadData, Mapped, Reg, RegisterData, ReadOnly
  <2>3. QED
    BY <1>5, <2>1, <2>2 DEF Answers
<1>6. CASE sw.at = "c"
  <2> DEFINE addr == [win |-> "C", word |-> sw.i]
  <2>1. bus.read.addr = addr /\ sw.i < ResWords
    BY <1>1, <1>6, Sizes DEF Asked
  <2>2. addr.win = "C" /\ addr.word = sw.i
    OBVIOUS
  <2> HIDE DEF addr
  <2>3. ReadData(addr) = arr.acc[<<sw.i \div N, sw.i % N>>]
    BY <2>1, <2>2 DEF ReadData, Mapped
  <2>4. QED
    BY <1>6, <2>1, <2>3 DEF Answers
<1>7. QED
  BY <1>1, <1>3, <1>4, <1>5, <1>6 DEF At

(* And it stays so. *)
LEMMA AnswerStays ==
  ASSUME IInv, sw.at # "free", bus.read.at # "none", GoesOn, sw' = sw,
         NEW data, Answers(data)
  PROVE  Answers(data)'
<1>1. At({"poll", "macLo", "macHi", "c"}) /\ ~Pending
  BY DEF IInv, DriverInv, DriverState, OneAccess, Pending
<1>2. sw.at # "poll" => run.outcome = "finished"
  BY <1>1 DEF IInv, DriverInv, DriverState, Started, Unstarted, At
<1>3. /\ run.outcome = "finished" => run'.outcome = "finished"
      /\ sw.at # "poll" => arr'.acc = arr.acc /\ ctrl'.macs = ctrl.macs
  BY <1>2 DEF GoesOn
<1>4. QED
  BY <1>1, <1>3 DEF Answers, At

LEMMA NothingIs == Nothing \in Ops /\ Nothing.write = {} /\ Nothing.read = {}
  BY DEF Nothing, Ops

LEMMA ReadKept ==
  ASSUME IInv, sw.at # "free", NEW go \in SUBSET Movable, "r" \notin go, Cycle(go, Nothing), sw' = sw
  PROVE  /\ (axi.r.valid => Answers(axi.r.data))'
         /\ bus'.read.at # "none" => bus.read.at # "none" /\ bus'.read.addr = bus.read.addr
<1>1. /\ axi'.r.valid <=> "ar" \in go \/ (axi.r.valid /\ "r" \notin go)
      /\ axi'.r.data = IF "ar" \in go THEN ReadData(bus.read.addr) ELSE axi.r.data
      /\ "ar" \in go => bus.read.at = "ask"
  BY NothingIs, SlaveClock, Movement DEF IInv
<1>2. /\ axi.r.valid <=> bus.read.at = "wait"
      /\ axi.r.valid => Answers(axi.r.data)
  BY DEF IInv, BusInv, DriverInv, DriverState, ReadRight
<1>3. PICK data : data = axi'.r.data
  OBVIOUS
<1>4. ASSUME axi'.r.valid
      PROVE  Answers(data)'
  <2>1. bus.read.at # "none" /\ Answers(data)
    BY <1>1, <1>2, <1>3, <1>4, Sampled
  <2>2. ~DoWrite
    BY <2>1, Empty DEF IInv, DriverInv, DriverState, OneAccess
  <2>3. GoesOn
    BY <2>2, NothingIs, Calm DEF IInv
  <2>4. QED
    BY <2>1, <2>3, AnswerStays
<1>5. bus'.read.at # "none" => bus.read.at # "none" /\ bus'.read.addr = bus.read.addr
  <2>1. bus'.read = IF "ar" \in go THEN [bus.read EXCEPT !.at = "wait"] ELSE bus.read
    BY NothingIs DEF Cycle, BusClock
  <2>2. QED
    BY <1>1, <2>1
<1>6. QED
  BY <1>3, <1>4, <1>5 DEF Answers

-----------------------------------------------------------------------------
(* The driver's writes, as they are performed. *)
DriverWrite(go, w) ==
  /\ sw.at # "free" /\ go \subseteq Movable /\ Cycle(go, Nothing) /\ sw' = sw
  /\ DoWrite /\ Pending /\ ~Pending'
  /\ Len(bus.writes) = 1 /\ w = bus.writes[1].w /\ w \in LastIssued
  /\ axi.addr = w.addr /\ axi.data = w.data /\ axi.strb = w.strb
  /\ ~axi.b.valid /\ told = Registers

LEMMA DriverWrites ==
  ASSUME IInv, NEW go \in SUBSET Movable, Cycle(go, Nothing), sw' = sw, sw.at # "free", DoWrite
  PROVE  /\ DriverWrite(go, bus.writes[1].w)
         /\ At({"idle", "len", "start", "poll", "return"})
<1>1. /\ Pending' <=> Pending /\ ~DoWrite
      /\ Pending /\ Len(bus.writes) = 1
      /\ axi.addr = bus.writes[1].w.addr /\ axi.data = bus.writes[1].w.data
      /\ axi.strb = bus.writes[1].w.strb
  BY NothingIs, PendingClock DEF IInv, DriverInv, DriverState, OneAccess
<1>2. bus.writes[1].w \in LastIssued
  BY <1>1 DEF IInv, DriverInv, DriverState, OneAccess
<1>3. ~axi.b.valid /\ told = Registers
  BY DEF IInv, BusInv, ToldRight, DoWrite
<1>4. At({"idle", "len", "start", "poll", "return"})
  BY <1>2 DEF IInv, DriverInv, DriverState, DriverTyped, LastIssued, At
<1>5. QED
  BY <1>1, <1>2, <1>3, <1>4 DEF DriverWrite

LEMMA LoadPerformed ==
  ASSUME IInv, NEW go, NEW w, DriverWrite(go, w), At({"idle", "len"})
  PROVE  ~CtrlBusy' /\ LoadedIn(opnd', sw.job, WordsIssued)
<1> DEFINE m == WordsIssued - 1
<1>1. /\ sw.job \in Operands /\ WordsIssued \in Nat /\ m \in 0 .. TotalWords(sw.job) - 1
      /\ WordsIssued = m + 1
  <2>1. sw.job \in Operands /\ sw.i \in Nat /\ (sw.at = "idle" => sw.i < TotalWords(sw.job) /\ sw.i > 0)
    <3>1. Len(bus.writes) = 1
      BY DEF DriverWrite
    <3>2. QED
      BY <3>1 DEF IInv, DriverInv, DriverState, DriverTyped, OneAccess, DriverWrite
  <2>2. TotalWords(sw.job) \in Nat /\ TotalWords(sw.job) > 0
    BY <2>1, JobIs
  <2>3. QED
    BY <2>1, <2>2 DEF WordsIssued
<1>2. /\ TypeOK /\ RunInv /\ CtrlClock(RegWrite) /\ RunClock
      /\ told.opnd = opnd /\ told = Registers
      /\ w = LoadWrite(sw.job, m) /\ w.addr = axi.addr
      /\ w.data = axi.data /\ w.strb = axi.strb
  BY DEF DriverWrite, IInv, Cycle, LastIssued, Registers, At
<1>3. ~CtrlBusy /\ LoadedIn(told.opnd, sw.job, m)
  <2>1. ~CtrlBusy /\ LoadedIn(opnd, sw.job, WordsLoaded)
    BY DEF IInv, DriverInv, DriverState, Prepared, Unstarted, DriverWrite, At
  <2>2. WordsLoaded = m
    BY DEF WordsLoaded, DriverWrite
  <2>3. QED
    BY <1>2, <2>1, <2>2
<1> HIDE DEF m
<1>4. /\ LoadedIn(Believe(told, w).opnd, sw.job, m + 1)
      /\ w.addr.win \in {"A", "B"} /\ w.addr.word < BufWords
  BY <1>1, <1>2, <1>3, LoadStep
<1>5. Effective
  BY <1>2, <1>3, <1>4 DEF Effective, DriverWrite, WriteResponse, Mapped, Reg
<1>6. opnd' = Believe(told, w).opnd
  BY <1>2, <1>5, WithEffect
<1>7. ~ReqSoftRst(RegWrite) /\ ~ReqClrAcc(RegWrite) /\ ~ReqStart(RegWrite)
  BY <1>2, <1>4 DEF ReqSoftRst, ReqClrAcc, ReqStart, Commands, RegWrite, Reg
<1>8. ~CtrlBusy'
  BY <1>2, <1>3, <1>7, Uncommanded DEF GoesOn
<1>9. QED
  BY <1>1, <1>4, <1>6, <1>8

LEMMA LenPerformed ==
  ASSUME IInv, NEW go, NEW w, DriverWrite(go, w), sw.at = "start"
  PROVE  ~CtrlBusy' /\ LoadedIn(opnd', sw.job, TotalWords(sw.job)) /\ ctrl'.len = K
<1>1. sw.job \in Operands /\ K \in 1 .. KMax /\ K \in Nat /\ K <= 65535
  <2>1. sw.job \in Operands
    BY DEF IInv, DriverInv, DriverState, DriverTyped, DriverWrite
  <2>2. K \in 1 .. KMax
    BY <2>1, JobIs DEF K
  <2>3. QED
    BY <2>1, <2>2, Sizes
<1>2. /\ TypeOK /\ RunInv /\ CtrlClock(RegWrite) /\ RunClock
      /\ told.opnd = opnd /\ told = Registers
      /\ w = Put(Reg("LEN"), K) /\ w.addr = axi.addr
      /\ w.data = axi.data /\ w.strb = axi.strb
  BY DEF DriverWrite, IInv, Cycle, LastIssued, Registers, At
<1>3. ~CtrlBusy /\ LoadedIn(opnd, sw.job, TotalWords(sw.job))
  <2>1. ~CtrlBusy /\ LoadedIn(opnd, sw.job, WordsLoaded)
    BY DEF IInv, DriverInv, DriverState, Prepared, Unstarted, DriverWrite, At
  <2>2. WordsLoaded = TotalWords(sw.job)
    BY DEF WordsLoaded, WordsIssued, At
  <2>3. QED
    BY <2>1, <2>2
<1>4. /\ w.addr = Reg("LEN") /\ w.strb = {0, 1, 2, 3}
      /\ w.data[0] = K % 256 /\ w.data[1] = K \div 256
  <2>1. K \in Nat /\ K <= 65535
    BY <1>1
  <2>2. IsPut(w, "LEN", K)
    BY <1>2, <2>1, PutIs
  <2>3. QED
    BY <2>2 DEF IsPut
<1>5. Effective
  BY <1>2, <1>3, <1>4 DEF Effective, DriverWrite, WriteResponse, Mapped, Reg, LockedInRun, ReadOnly
<1>6. ctrl'.len = Believe(told, w).len /\ opnd' = Believe(told, w).opnd
  BY <1>2, <1>5, WithEffect
<1>7. ctrl'.len = K
  <2>1. Believe(told, w).len = w.data[0] + 256 * w.data[1]
    BY <1>4 DEF Believe
  <2>2. K = (K % 256) + 256 * (K \div 256)
    BY <1>1
  <2>3. QED
    BY <1>4, <1>6, <2>1, <2>2
<1>8. ~ReqSoftRst(RegWrite) /\ ~ReqClrAcc(RegWrite) /\ ~ReqStart(RegWrite)
  BY <1>2, <1>4 DEF ReqSoftRst, ReqClrAcc, ReqStart, Commands, RegWrite, Reg
<1>9. ~CtrlBusy'
  BY <1>2, <1>3, <1>8, Uncommanded DEF GoesOn
<1>10. ASSUME NEW win \in {"A", "B"}, NEW i \in 0 .. HalfWords(sw.job) - 1
       PROVE  opnd'[win][i] = opnd[win][i]
  <2>1. i \in 0 .. BufWords - 1
    <3> DEFINE half == HalfWords(sw.job)
    <3>1. half \in Nat /\ half <= BufWords
      BY <1>1, JobIs
    <3>2. i \in 0 .. half - 1
      OBVIOUS
    <3>3. BufWords \in Nat
      BY Sizes
    <3> HIDE DEF half
    <3>4. QED
      BY <3>1, <3>2, <3>3
  <2>2. w.addr # [win |-> win, word |-> i]
    BY <1>4 DEF Reg
  <2>3. QED
    BY <1>2, <1>6, <2>1, <2>2 DEF Believe
<1>11. LoadedIn(opnd', sw.job, TotalWords(sw.job))
  BY <1>3, <1>10 DEF LoadedIn
<1>12. QED
  BY <1>7, <1>9, <1>11

LEMMA StartPerformed ==
  ASSUME IInv, NEW go, NEW w, DriverWrite(go, w), sw.at = "poll"
  PROVE  /\ run'.outcome = "running" /\ run'.k = K
         /\ LoadedIn(run'.opnd, sw.job, TotalWords(sw.job))
<1>1. sw.job \in Operands /\ K \in 1 .. KMax
  <2>1. sw.job \in Operands
    BY DEF IInv, DriverInv, DriverState, DriverTyped, DriverWrite
  <2>2. QED
    BY <2>1, JobIs DEF K
<1>2. PICK irq \in BOOLEAN : w = Put(Reg("CTRL"), 1 + Flag(irq, 3))
  BY DEF DriverWrite, LastIssued, At
<1>3. TypeOK /\ RunInv /\ CtrlClock(RegWrite) /\ RunClock
  BY DEF DriverWrite, IInv, Cycle
<1>4. ~CtrlBusy /\ LoadedIn(opnd, sw.job, TotalWords(sw.job)) /\ ctrl.len = K
  <2>1. ~CtrlBusy /\ LoadedIn(opnd, sw.job, WordsLoaded) /\ ctrl.len = K
    BY DEF IInv, DriverInv, DriverState, Prepared, Unstarted, DriverWrite
  <2>2. WordsLoaded = TotalWords(sw.job)
    BY DEF WordsLoaded, WordsIssued, At
  <2>3. QED
    BY <2>1, <2>2
<1> DEFINE v == 1 + Flag(irq, 3)
<1>5. v \in {1, 9}
  BY DEF Flag
<1>6. w.addr = Reg("CTRL") /\ w.strb = {0, 1, 2, 3} /\ w.data[0] = v
  <2>1. v \in Nat /\ v <= 65535 /\ v % 256 = v
    BY <1>5
  <2> HIDE DEF v
  <2>2. w = Put(Reg("CTRL"), v)
    BY <1>2 DEF v
  <2>3. IsPut(w, "CTRL", v)
    BY <2>1, <2>2, PutIs
  <2>4. QED
    BY <2>1, <2>3 DEF IsPut
<1> HIDE DEF v
<1>7. Bit(v, 0) /\ ~Bit(v, 2)
  <2>1. \A u \in {1, 9} : (u \div 2^0) % 2 = 1 /\ (u \div 2^2) % 2 = 0
    OBVIOUS
  <2>2. QED
    BY <1>5, <2>1 DEF Bit
<1>8. RegWrite.en /\ RegWrite.addr = Reg("CTRL") /\ 0 \in RegWrite.strb /\ RegWrite.data[0] = v
  BY <1>6 DEF RegWrite, DriverWrite
<1>9. Starts /\ ~ReqSoftRst(RegWrite)
  BY <1>1, <1>4, <1>7, <1>8 DEF Starts, ReqStart, ReqSoftRst, Commands, LenValid
<1>10. run'.outcome = "running" /\ run'.opnd = opnd /\ run'.k = ctrl.len
  BY <1>3, <1>4, <1>9, RunEvents
<1>11. QED
  BY <1>4, <1>10

LEMMA AckPerformed ==
  ASSUME IInv, NEW go, NEW w, DriverWrite(go, w), sw.at = "return"
  PROVE  GoesOn
<1>1. w.addr = Reg("STATUS")
  <2>1. w = Put(Reg("STATUS"), 2)
    BY DEF DriverWrite, LastIssued, At
  <2>2. IsPut(w, "STATUS", 2)
    <3>1. \A name : name \in {"LEN", "CTRL", "STATUS"} => IsPut(Put(Reg(name), 2), name, 2)
      BY PutIs
    <3>2. QED
      BY <2>1, <3>1
  <2>3. QED
    BY <2>2 DEF IsPut
<1>2. ~ReqSoftRst(RegWrite) /\ ~ReqClrAcc(RegWrite) /\ ~ReqStart(RegWrite)
  BY <1>1 DEF DriverWrite, ReqSoftRst, ReqClrAcc, ReqStart, Commands, RegWrite, Reg
<1>3. QED
  BY <1>2, Uncommanded DEF DriverWrite, IInv, Cycle

-----------------------------------------------------------------------------
(* While the driver waits, what it relies on stays so. *)
LEMMA LastingSw ==
  ASSUME sw' = sw
  PROVE  /\ LastIssued' = LastIssued /\ Asked' = Asked /\ WordsIssued' = WordsIssued
         /\ DriverTyped' <=> DriverTyped
         /\ Unstarted' <=> At({"idle", "len", "start"}) \/ (sw.at = "poll" /\ Pending')
         /\ WordsLoaded' = IF Pending' /\ At({"idle", "len"}) THEN WordsIssued - 1 ELSE WordsIssued
BY DEF LastIssued, Asked, WordsIssued, DriverTyped, Unstarted, WordsLoaded, At, K, TotalWords, HalfWords

LEMMA WaitAccess ==
  ASSUME IInv, sw.at # "free", NEW go \in SUBSET Movable, "r" \notin go, Cycle(go, Nothing), sw' = sw
  PROVE  OneAccess'
<1>1. OneAccess
  BY DEF IInv, DriverInv, DriverState
<1>2. /\ Len(bus'.writes) <= Len(bus.writes)
      /\ Len(bus'.writes) = 1 => Len(bus.writes) = 1 /\ bus'.writes[1].w = bus.writes[1].w
      /\ bus.writes = <<>> => bus'.writes = <<>>
  BY <1>1, NothingIs, PendingClock DEF IInv, OneAccess
<1>3. bus'.read.at # "none" => bus.read.at # "none" /\ bus'.read.addr = bus.read.addr
  BY ReadKept
<1>4. Len(bus'.writes) \in Nat /\ Len(bus.writes) \in Nat
  BY NothingIs, OrderKept DEF IInv, TypeOK, Cycle
<1>5. LastIssued' = LastIssued /\ Asked' = Asked
  BY LastingSw
<1>6. QED
  BY <1>1, <1>2, <1>3, <1>4, <1>5 DEF OneAccess, At

(* Prepared and Started, of the next state. *)
LEMMA PreparedIf ==
  ASSUME NEW n, n = WordsLoaded', ~CtrlBusy', LoadedIn(opnd', sw'.job, n),
         (sw'.at = "start" /\ ~Pending') \/ sw'.at = "poll" => ctrl'.len = sw'.job.k
  PROVE  Prepared'
<1>1. PICK x, job : x = opnd' /\ job = sw'.job
  OBVIOUS
<1>2. LoadedIn(opnd, sw.job, WordsLoaded)' <=> LoadedIn(x, job, n)
  BY <1>1
<1>3. ((sw.at = "start" /\ ~Pending) \/ sw.at = "poll" => ctrl.len = K)'
  BY DEF K
<1>4. (~CtrlBusy)'
  OBVIOUS
<1>5. QED
  BY <1>1, <1>2, <1>3, <1>4 DEF Prepared

LEMMA StartedIf ==
  ASSUME run'.k = sw'.job.k, LoadedIn(run'.opnd, sw'.job, TotalWords(sw'.job)),
         run'.outcome \in {"running", "finished"}, sw'.at # "poll" => run'.outcome = "finished"
  PROVE  Started'
<1>1. PICK x, job : x = run' /\ job = sw'.job
  OBVIOUS
<1>2. LoadedIn(run.opnd, sw.job, TotalWords(sw.job))' <=> LoadedIn(x.opnd, job, TotalWords(job))
  BY <1>1
<1>3. QED
  BY <1>1, <1>2 DEF Started, K

LEMMA WaitPrepared ==
  ASSUME IInv, sw.at # "free", NEW go \in SUBSET Movable, "r" \notin go, Cycle(go, Nothing), sw' = sw
  PROVE  Prepared' /\ Started'
<1>1. OneAccess /\ Prepared /\ Started
  BY DEF IInv, DriverInv, DriverState
<1>2. /\ TypeOK /\ BusInv /\ RunInv
      /\ Pending' <=> Pending /\ ~DoWrite
  BY <1>1, NothingIs, PendingClock DEF IInv, OneAccess
<1>3. PICK p \in BOOLEAN : p <=> Pending'
  OBVIOUS
<1>4. /\ WordsIssued' = WordsIssued
      /\ Unstarted' <=> At({"idle", "len", "start"}) \/ (sw.at = "poll" /\ p)
      /\ WordsLoaded' = IF p /\ At({"idle", "len"}) THEN WordsIssued - 1 ELSE WordsIssued
  BY <1>3, LastingSw
<1>5. ASSUME GoesOn, ~Unstarted, ~Unstarted'
      PROVE  Started'
  BY <1>1, <1>5, StartedIf DEF GoesOn, Started, K
<1>6. CASE ~DoWrite
  <2>1. GoesOn /\ opnd' = opnd /\ ctrl'.len = ctrl.len
    BY <1>2, <1>6, NothingIs, Calm
  <2>2. /\ Unstarted' <=> Unstarted
        /\ WordsLoaded' = WordsLoaded
        /\ Pending' <=> Pending
    BY <1>2, <1>3, <1>4, <1>6 DEF Unstarted, WordsLoaded
  <2>3. Prepared'
    <3>1. CASE Unstarted
      <4>1. ~CtrlBusy' /\ LoadedIn(opnd', sw'.job, WordsLoaded)
        BY <1>1, <2>1, <3>1 DEF GoesOn, Prepared
      <4>2. (sw'.at = "start" /\ ~Pending') \/ sw'.at = "poll" => ctrl'.len = sw'.job.k
        BY <1>1, <2>1, <2>2, <3>1 DEF Prepared, K
      <4>3. QED
        BY <2>2, <4>1, <4>2, PreparedIf
    <3>2. QED
      BY <2>2, <3>1 DEF Prepared
  <2>4. QED
    BY <1>5, <2>1, <2>2, <2>3 DEF Started
<1>7. CASE DoWrite
  <2> DEFINE w == bus.writes[1].w
  <2>1. DriverWrite(go, w) /\ At({"idle", "len", "start", "poll", "return"}) /\ ~p
    BY <1>2, <1>3, <1>7, DriverWrites
  <2> HIDE DEF w
  <2>2. CASE At({"idle", "len"})
    <3>1. ~CtrlBusy' /\ LoadedIn(opnd', sw.job, WordsIssued)
      BY <2>1, <2>2, LoadPerformed
    <3>2. WordsLoaded' = WordsIssued /\ Unstarted'
      BY <1>4, <2>1, <2>2 DEF At
    <3>3. Prepared'
      BY <2>2, <3>1, <3>2, PreparedIf DEF At
    <3>4. QED
      BY <3>2, <3>3 DEF Started
  <2>3. CASE sw.at = "start"
    <3>1. ~CtrlBusy' /\ LoadedIn(opnd', sw.job, TotalWords(sw.job)) /\ ctrl'.len = K
      BY <2>1, <2>3, LenPerformed
    <3>2. WordsLoaded' = TotalWords(sw.job) /\ Unstarted'
      BY <1>4, <2>1, <2>3 DEF At, WordsIssued
    <3>3. Prepared'
      BY <2>3, <3>1, <3>2, PreparedIf DEF K
    <3>4. QED
      BY <3>2, <3>3 DEF Started
  <2>4. CASE sw.at = "poll"
    <3>1. ~Unstarted'
      BY <1>4, <2>1, <2>4 DEF At
    <3>2. /\ run'.outcome = "running" /\ run'.k = K
          /\ LoadedIn(run'.opnd, sw.job, TotalWords(sw.job))
      BY <2>1, <2>4, StartPerformed
    <3>3. QED
      BY <2>4, <3>1, <3>2, StartedIf DEF Prepared, K
  <2>5. CASE sw.at = "return"
    <3>1. GoesOn
      BY <2>1, <2>5, AckPerformed
    <3>2. ~Unstarted /\ ~Unstarted'
      BY <1>4, <2>5 DEF Unstarted, At
    <3>3. QED
      BY <1>5, <3>1, <3>2 DEF Prepared
  <2>6. QED
    BY <2>1, <2>2, <2>3, <2>4, <2>5 DEF At
<1>8. QED
  BY <1>6, <1>7

LEMMA WaitRead ==
  ASSUME IInv, sw.at # "free", NEW go \in SUBSET Movable, "r" \notin go, Cycle(go, Nothing), sw' = sw
  PROVE  ReadRight'
<1>1. OneAccess /\ Started /\ ReadRight
  BY DEF IInv, DriverInv, DriverState
<1>2. /\ (axi.r.valid => Answers(axi.r.data))'
      /\ bus'.read.at # "none" => bus.read.at # "none"
  BY ReadKept
<1>3. sw.at = "macHi" => ctrl'.macs = ctrl.macs
  <2>1. SUFFICES ASSUME sw.at = "macHi"
                 PROVE  ctrl'.macs = ctrl.macs
    OBVIOUS
  <2>2. ~DoWrite
    BY <2>1, DriverWrites DEF At
  <2>3. GoesOn
    BY <2>2, NothingIs, Calm DEF IInv
  <2>4. run.outcome = "finished"
    BY <1>1, <2>1 DEF Started, Unstarted, At
  <2>5. QED
    BY <2>3, <2>4 DEF GoesOn
<1>4. /\ sw.at = "macHi" => sw'.macLo = ctrl'.macs % WordWrap
      /\ At({"c", "clear", "return"})' => sw'.macs = N * N * K'
  BY <1>1, <1>3, Zenon DEF ReadRight, At, K
<1>5. At({"clear", "return"})' \/ (bus'.read.at # "none" /\ sw'.at = "c") => sw'.i \in 0 .. ResWords - 1
  BY <1>1, <1>2, Zenon DEF ReadRight, At
<1>6. At({"clear", "return"})' => (sw.c = Sum(JobProducts(sw.job, sw.i \div N, sw.i % N), K))'
  BY <1>1 DEF ReadRight, At, K, JobProducts, Sum
<1>7. QED
  BY <1>2, <1>4, <1>5, <1>6, Zenon DEF ReadRight

-----------------------------------------------------------------------------
(* The four things the driver's steps do with the bus. *)
Undisturbed == GoesOn /\ opnd' = opnd /\ ctrl'.len = ctrl.len

(* No read is over or under way after this clock. *)
ReadOver == bus'.read.at = "none" /\ ~axi'.r.valid

LEMMA DoesWrite ==
  ASSUME IInv, NEW w \in WriteType, NEW next, Does(WriteOp(w), next)
  PROVE  /\ WriteOp(w) \in Ops /\ Cycle({}, WriteOp(w)) /\ sw' = next
         /\ Undisturbed /\ ~Pending /\ ReadOver
         /\ Pending' /\ Len(bus'.writes) = 1 /\ bus'.writes[1].w = w
<1> DEFINE op == WriteOp(w)
<1>1. op.write = {w} /\ op.read = {} /\ op \in [write : SUBSET WriteType, read : SUBSET Address]
  BY DEF WriteOp, Nothing
<1>2. Cycle({}, op) /\ sw' = next /\ bus.writes = <<>> /\ bus.read.at = "none"
  BY DEF Does, Synced
<1> HIDE DEF op
<1>3. op \in Ops
  BY <1>1 DEF Ops
<1>4. TypeOK /\ BusInv /\ RunInv /\ {} \in SUBSET Movable
  BY DEF IInv
<1>5. ~DoWrite /\ ~Pending
  BY <1>2, <1>4, Empty
<1>6. Undisturbed
  BY <1>2, <1>3, <1>4, <1>5, Calm DEF Undisturbed
<1>7. Len(bus'.writes) = 1 /\ bus'.writes[1].w = w /\ Pending'
  BY <1>1, <1>2, <1>3, <1>4, Issued
<1>8. bus'.read = bus.read
  BY <1>1, <1>2 DEF Cycle, BusClock
<1>9. ~axi'.r.valid
  BY <1>2, <1>4, SlaveClock DEF BusInv
<1>10. QED
  BY <1>2, <1>3, <1>5, <1>6, <1>7, <1>8, <1>9 DEF ReadOver, op

LEMMA DoesRead ==
  ASSUME IInv, NEW addr \in Address, NEW next, Does(ReadOp(addr), next)
  PROVE  /\ ReadOp(addr) \in Ops /\ Cycle({}, ReadOp(addr)) /\ sw' = next
         /\ Undisturbed /\ ~Pending /\ ~Pending' /\ bus'.writes = <<>>
         /\ bus'.read.addr = addr /\ ~axi'.r.valid
<1> DEFINE op == ReadOp(addr)
<1>1. op.write = {} /\ op.read = {addr} /\ op \in [write : SUBSET WriteType, read : SUBSET Address]
  BY DEF ReadOp, Nothing
<1>2. Cycle({}, op) /\ sw' = next /\ bus.writes = <<>> /\ bus.read.at = "none"
  BY DEF Does, Synced
<1> HIDE DEF op
<1>3. op \in Ops
  BY <1>1, <1>2 DEF Ops
<1>4. TypeOK /\ BusInv /\ RunInv /\ {} \in SUBSET Movable
  BY DEF IInv
<1>5. ~DoWrite /\ ~Pending
  BY <1>2, <1>4, Empty
<1>6. Undisturbed
  BY <1>2, <1>3, <1>4, <1>5, Calm DEF Undisturbed
<1>7. ~Pending' /\ bus'.writes = <<>>
  BY <1>1, <1>2, <1>3, <1>4, <1>5, PendingClock
<1>8. bus'.read.addr = addr
  <2>1. (CHOOSE a \in op.read : TRUE) = addr
    BY <1>1
  <2>2. bus'.read = [at |-> "ask", addr |-> CHOOSE a \in op.read : TRUE]
    BY <1>1, <1>2 DEF Cycle, BusClock
  <2>3. QED
    BY <2>1, <2>2
<1>9. ~axi'.r.valid
  BY <1>2, <1>4, SlaveClock DEF BusInv
<1>10. QED
  BY <1>2, <1>3, <1>5, <1>6, <1>7, <1>8, <1>9 DEF op

LEMMA DoesNothing ==
  ASSUME IInv, NEW next, Does(Nothing, next)
  PROVE  /\ Cycle({}, Nothing) /\ sw' = next
         /\ Undisturbed /\ ~Pending /\ ~Pending' /\ bus'.writes = <<>> /\ ReadOver
<1>1. Cycle({}, Nothing) /\ sw' = next /\ bus.writes = <<>> /\ bus.read.at = "none"
  BY DEF Does, Synced
<1>2. TypeOK /\ BusInv /\ RunInv /\ {} \in SUBSET Movable
  BY DEF IInv
<1>3. ~DoWrite /\ ~Pending
  BY <1>1, <1>2, Empty
<1>4. Undisturbed
  BY <1>1, <1>2, <1>3, NothingIs, Calm DEF Undisturbed
<1>5. ~Pending' /\ bus'.writes = <<>>
  BY <1>1, <1>2, <1>3, NothingIs, PendingClock
<1>6. bus'.read = bus.read
  BY <1>1, NothingIs DEF Cycle, BusClock
<1>7. ~axi'.r.valid
  BY <1>1, <1>2, SlaveClock DEF BusInv
<1>8. QED
  BY <1>1, <1>3, <1>4, <1>5, <1>6, <1>7 DEF ReadOver

LEMMA TakesAnswer ==
  ASSUME IInv, sw.at # "free", NEW go \in SUBSET Movable, NEW addr, NEW next, Answer(go, addr, next)
  PROVE  /\ Cycle(go, Nothing) /\ sw' = next
         /\ Undisturbed /\ ~Pending /\ ~Pending' /\ bus'.writes = <<>> /\ ReadOver
         /\ Answers(axi.r.data) /\ At({"poll", "macLo", "macHi", "c"})
         /\ bus.read.addr = Asked /\ (sw.at = "c" => sw.i \in 0 .. ResWords - 1)
<1>1. Cycle(go, Nothing) /\ sw' = next /\ "r" \in go
  BY DEF Answer
<1>2. TypeOK /\ BusInv /\ RunInv /\ OneAccess /\ ReadRight
  BY DEF IInv, DriverInv, DriverState
<1>3. axi.r.valid /\ bus.read.at = "wait" /\ "ar" \notin go
  BY <1>1, <1>2, Movement
<1>4. /\ bus.writes = <<>> /\ Answers(axi.r.data)
      /\ At({"poll", "macLo", "macHi", "c"}) /\ bus.read.addr = Asked
      /\ sw.at = "c" => sw.i \in 0 .. ResWords - 1
  BY <1>2, <1>3 DEF OneAccess, ReadRight
<1>5. ~DoWrite /\ ~Pending
  BY <1>2, <1>4, Empty
<1>6. Undisturbed
  BY <1>1, <1>2, <1>5, NothingIs, Calm DEF Undisturbed
<1>7. ~Pending' /\ bus'.writes = <<>>
  <2>1. Len(bus.writes) <= 1
    BY <1>4
  <2>2. QED
    BY <1>1, <1>2, <1>4, <1>5, <2>1, NothingIs, PendingClock
<1>8. bus'.read.at = "none"
  <2>1. bus'.read = [bus.read EXCEPT !.at = "none"]
    BY <1>1, <1>3, NothingIs DEF Cycle, BusClock
  <2>2. QED
    BY <1>2, <2>1 DEF TypeOK
<1>9. ~axi'.r.valid
  BY <1>1, <1>2, <1>3, SlaveClock
<1>10. QED
  BY <1>1, <1>4, <1>5, <1>6, <1>7, <1>8, <1>9 DEF ReadOver

-----------------------------------------------------------------------------
(* The driver's steps. *)
Proper(op, go) == go \in SUBSET Movable /\ op \in Ops /\ Cycle(go, op)

LEMMA LoadKept ==
  ASSUME IInv, Load
  PROVE  (\E op : Proper(op, {})) /\ DriverState'
<1> DEFINE job == sw.job
           h == HalfWords(job)
           w == LoadWrite(job, sw.i)
           next == IF sw.i + 1 < 2 * h THEN [sw EXCEPT !.i = @ + 1]
                   ELSE [sw EXCEPT !.i = 0, !.at = "len"]
<1>1. /\ sw.at = "idle" /\ job \in Operands /\ sw.i \in Nat /\ DriverTyped
      /\ Prepared /\ sw.i < TotalWords(job)
  BY DEF Load, IInv, DriverInv, DriverState, DriverTyped
<1>2. h \in Nat \ {0} /\ TotalWords(job) = 2 * h
  BY <1>1, JobIs DEF TotalWords
<1>3. Does(WriteOp(w), next)
  BY DEF Load, LoadWrite, HalfWords, K
<1>4. w \in WriteType
  <2>1. sw.i % h \in 0 .. h - 1
    <3> HIDE DEF h
    <3>1. QED
      BY <1>1, <1>2, ModuloRange
  <2>2. QED
    BY <1>1, <2>1, WindowIs DEF LoadWrite
<1> HIDE DEF next, w
<1>5. /\ WriteOp(w) \in Ops /\ Cycle({}, WriteOp(w)) /\ sw' = next
      /\ Undisturbed /\ ~Pending /\ ReadOver
      /\ Pending' /\ Len(bus'.writes) = 1 /\ bus'.writes[1].w = w
  BY <1>3, <1>4, DoesWrite
<1> HIDE DEF h
<1>6. /\ sw' \in [at : {"idle", "len"}, job : {job}, i : Nat, macLo : Nat, macs : Nat, c : Int]
      /\ sw'.at = "idle" => sw'.i < TotalWords(job) /\ sw'.i = sw.i + 1
      /\ sw'.at = "len" => TotalWords(job) = sw.i + 1
  <2>1. sw \in [at : {"idle"}, job : {job}, i : Nat, macLo : Nat, macs : Nat, c : Int]
    BY <1>1 DEF DriverTyped
  <2>2. CASE sw.i + 1 < 2 * h
    <3>1. sw' = [sw EXCEPT !.i = @ + 1]
      BY <1>5, <2>2 DEF next
    <3>2. QED
      BY <1>1, <1>2, <2>1, <2>2, <3>1
  <2>3. CASE ~(sw.i + 1 < 2 * h)
    <3>1. sw' = [sw EXCEPT !.i = 0, !.at = "len"]
      BY <1>5, <2>3 DEF next
    <3>2. sw.i + 1 = 2 * h
      BY <1>1, <1>2, <2>3
    <3>3. QED
      BY <1>1, <1>2, <2>1, <3>1, <3>2
  <2>4. QED
    BY <2>2, <2>3
<1>7. sw'.job = job /\ sw'.at \in {"idle", "len"}
  BY <1>6
<1>8. DriverTyped'
  BY <1>1, <1>6, <1>7 DEF DriverTyped
<1>9. WordsIssued' = sw.i + 1
  BY <1>6, <1>7 DEF WordsIssued
<1>10. WordsLoaded' = sw.i
  <2>1. PICK n : n = WordsIssued'
    OBVIOUS
  <2>2. WordsLoaded' = n - 1
    BY <1>5, <1>7, <2>1 DEF WordsLoaded, At
  <2>3. QED
    BY <1>1, <1>9, <2>1, <2>2
<1>11. w \in LastIssued'
  <2>1. PICK n : n = WordsIssued'
    OBVIOUS
  <2>2. LastIssued' = {LoadWrite(sw'.job, n - 1)}
    BY <1>7, <2>1 DEF LastIssued, At
  <2>3. QED
    BY <1>1, <1>7, <1>9, <2>1, <2>2 DEF w
<1>12. OneAccess'
  BY <1>1, <1>5, <1>6, <1>11 DEF OneAccess, ReadOver
<1>13. WordsLoaded = sw.i
  BY <1>1, <1>5 DEF WordsLoaded, WordsIssued
<1>14. Prepared'
  <2>1. ~CtrlBusy /\ LoadedIn(opnd, job, sw.i)
    BY <1>1, <1>13 DEF Prepared, Unstarted, At
  <2>2. ~CtrlBusy' /\ LoadedIn(opnd', sw'.job, sw.i)
    BY <1>5, <1>7, <2>1 DEF Undisturbed, GoesOn
  <2>3. QED
    BY <1>7, <1>10, <2>2, PreparedIf
<1>15. Unstarted'
  BY <1>7 DEF Unstarted, At
<1>16. Started' /\ ReadRight'
  BY <1>5, <1>7, <1>15 DEF Started, ReadRight, ReadOver, At
<1>17. QED
  BY <1>5, <1>8, <1>12, <1>14, <1>16 DEF Proper, DriverState

(* LEN, and then START. *)
LEMMA StartKept ==
  ASSUME IInv, accel_start
  PROVE  (\E op : Proper(op, {})) /\ DriverState'
<1> DEFINE job == sw.job
<1>1. /\ At({"len", "start"}) /\ job \in Operands /\ DriverTyped /\ Prepared
      /\ K \in Nat /\ K <= 65535
  <2>1. At({"len", "start"})
    BY DEF accel_start, At
  <2>2. job \in Operands /\ DriverTyped /\ Prepared
    BY <2>1 DEF IInv, DriverInv, DriverState, DriverTyped, At
  <2>3. K \in 1 .. KMax
    BY <2>2, JobIs DEF K
  <2>4. QED
    BY <2>1, <2>2, <2>3, Sizes
<1>2. PICK w, at : /\ Does(WriteOp(w), [sw EXCEPT !.at = at])
                   /\ \/ sw.at = "len" /\ at = "start" /\ w = Put(Reg("LEN"), K)
                      \/ sw.at = "start" /\ at = "poll"
                           /\ \E irq \in BOOLEAN : w = Put(Reg("CTRL"), 1 + Flag(irq, 3))
  BY DEF accel_start
<1>3. w \in WriteType
  <2>1. CASE w = Put(Reg("LEN"), K)
    <3>1. IsPut(w, "LEN", K)
      BY <1>1, <2>1, PutIs
    <3>2. QED
      BY <3>1 DEF IsPut
  <2>2. ASSUME NEW irq \in BOOLEAN, w = Put(Reg("CTRL"), 1 + Flag(irq, 3))
        PROVE  w \in WriteType
    <3> DEFINE v == 1 + Flag(irq, 3)
    <3>1. v \in Nat /\ v <= 65535
      BY DEF Flag
    <3> HIDE DEF v
    <3>2. w = Put(Reg("CTRL"), v)
      BY <2>2 DEF v
    <3>3. IsPut(w, "CTRL", v)
      BY <3>1, <3>2, PutIs
    <3>4. QED
      BY <3>3 DEF IsPut
  <2>3. QED
    BY <1>2, <2>1, <2>2
<1>4. /\ WriteOp(w) \in Ops /\ Cycle({}, WriteOp(w)) /\ sw' = [sw EXCEPT !.at = at]
      /\ Undisturbed /\ ~Pending /\ ReadOver
      /\ Pending' /\ Len(bus'.writes) = 1 /\ bus'.writes[1].w = w
  BY <1>2, <1>3, DoesWrite
<1>5. DriverTyped' /\ sw'.at = at /\ sw'.job = job /\ sw'.at \in {"start", "poll"}
  BY <1>1, <1>2, <1>4 DEF DriverTyped
<1>6. w \in LastIssued'
  BY <1>2, <1>5 DEF LastIssued, At, K
<1>7. OneAccess'
  BY <1>4, <1>5, <1>6 DEF OneAccess, ReadOver
<1>8. Unstarted' /\ WordsLoaded' = TotalWords(job)
  BY <1>4, <1>5 DEF Unstarted, WordsLoaded, WordsIssued, At
<1>9. Prepared'
  <2>1. WordsLoaded = TotalWords(job)
    BY <1>1, <1>4 DEF WordsLoaded, WordsIssued, At
  <2>2. /\ ~CtrlBusy /\ LoadedIn(opnd, job, TotalWords(job))
        /\ sw.at = "start" => ctrl.len = K
    BY <1>1, <1>4, <2>1 DEF Prepared, Unstarted, At
  <2>3. ~CtrlBusy' /\ LoadedIn(opnd', sw'.job, TotalWords(job)) /\ ctrl'.len = ctrl.len
    BY <1>4, <1>5, <2>2 DEF Undisturbed, GoesOn
  <2>4. (sw'.at = "start" /\ ~Pending') \/ sw'.at = "poll" => ctrl'.len = sw'.job.k
    BY <1>2, <1>4, <1>5, <2>2, <2>3 DEF K
  <2>5. QED
    BY <1>8, <2>3, <2>4, PreparedIf
<1>10. Started' /\ ReadRight'
  BY <1>4, <1>5, <1>8 DEF Started, ReadRight, ReadOver, At
<1>11. QED
  BY <1>4, <1>5, <1>7, <1>9, <1>10 DEF Proper, DriverState

(* A read goes out. *)
LEMMA ReadingKept ==
  ASSUME IInv, At({"poll", "macLo", "macHi", "c"}), NEW addr \in Address,
         NEW i \in Nat, i = sw.i \/ (sw.at = "c" /\ i \in 0 .. ResWords - 1),
         sw.at = "c" => i \in 0 .. ResWords - 1,
         NEW next, next = [sw EXCEPT !.i = i], Does(ReadOp(addr), next), addr = Asked'
  PROVE  (\E op : Proper(op, {})) /\ DriverState'
<1>1. sw.at # "free" /\ DriverTyped /\ OneAccess /\ Started /\ ReadRight
  BY DEF At, IInv, DriverInv, DriverState
<1>2. /\ ReadOp(addr) \in Ops /\ Cycle({}, ReadOp(addr)) /\ sw' = next
      /\ Undisturbed /\ ~Pending /\ ~Pending' /\ bus'.writes = <<>>
      /\ bus'.read.addr = addr /\ ~axi'.r.valid
  BY DoesRead
<1>3. /\ sw'.at = sw.at /\ sw'.job = sw.job /\ sw'.macLo = sw.macLo /\ sw'.macs = sw.macs /\ sw'.c = sw.c
      /\ sw'.i = i /\ sw' \in [at : {sw.at}, job : {sw.job}, i : Nat, macLo : Nat, macs : Nat, c : Int]
  BY <1>1, <1>2 DEF DriverTyped
<1>4. DriverTyped'
  BY <1>1, <1>3 DEF DriverTyped, At
<1>5. OneAccess'
  <2>1. Len(bus'.writes) = 0
    BY <1>2
  <2>2. QED
    BY <1>2, <1>3, <2>1 DEF OneAccess, At
<1>6. ~Unstarted /\ ~Unstarted'
  BY <1>2, <1>3 DEF Unstarted, At
<1>7. Prepared'
  BY <1>6 DEF Prepared
<1>8. Started'
  BY <1>1, <1>2, <1>3, <1>6, StartedIf DEF Started, Undisturbed, GoesOn, K
<1>9. ReadRight'
  <2>1. sw.at = "macHi" => ctrl'.macs = ctrl.macs
    BY <1>1, <1>2, <1>6 DEF Started, Undisturbed, GoesOn
  <2>2. QED
    BY <1>1, <1>2, <1>3, <2>1 DEF ReadRight, At, K
<1>10. QED
  BY <1>2, <1>4, <1>5, <1>7, <1>8, <1>9 DEF Proper, DriverState

(* What the driver has of a finished run. *)
LEMMA Homework ==
  ASSUME IInv, At({"macLo", "macHi", "c", "clear", "return"})
  PROVE  /\ ctrl.macs = N * N * K /\ ctrl.macs \in Nat /\ WordWrap \in Nat \ {0}
         /\ \A i \in 0 .. ResWords - 1 :
              /\ arr.acc[<<i \div N, i % N>>] = Sum(JobProducts(sw.job, i \div N, i % N), K)
              /\ arr.acc[<<i \div N, i % N>>] \in Int
<1>1. /\ TypeOK /\ RunInv /\ sw.job \in Operands /\ run.outcome = "finished" /\ run.k = K
      /\ LoadedIn(run.opnd, sw.job, TotalWords(sw.job))
  BY DEF At, IInv, DriverInv, DriverState, DriverTyped, Started, Unstarted
<1>2. /\ \A r, c \in Lanes : arr.acc[<<r, c>>] = Owed(r, c)
      /\ ctrl.macs = N * N * K
  BY <1>1, Finished
<1>3. ctrl.macs \in Nat /\ WordWrap \in Nat \ {0}
  <2>1. ctrl \in CtrlType
    BY <1>1, Zenon DEF TypeOK
  <2>2. ctrl.macs \in Nat
    BY <2>1 DEF CtrlType
  <2>3. WordWrap \in Nat \ {0}
    BY AccelCtrlAssumption
  <2>4. QED
    BY <2>2, <2>3
<1>4. ASSUME NEW i \in 0 .. ResWords - 1
      PROVE  /\ arr.acc[<<i \div N, i % N>>] = Sum(JobProducts(sw.job, i \div N, i % N), K)
             /\ arr.acc[<<i \div N, i % N>>] \in Int
  <2> DEFINE r == i \div N
             c == i % N
             t == JobProducts(sw.job, r, c)
  <2>1. r \in Lanes /\ c \in Lanes
    <3>1. N \in Nat \ {0} /\ N \in Nat /\ i \in 0 .. N * N - 1
      BY Sizes
    <3>2. QED
      BY <3>1, RowInRange DEF Lanes
  <2> HIDE DEF r, c
  <2>2. Products(run.opnd, K, r, c) = t
    BY <1>1, <2>1, LoadedProducts DEF K
  <2>3. arr.acc[<<r, c>>] = Sum(t, K)
    BY <1>1, <1>2, <2>1, <2>2 DEF Owed
  <2>4. K \in Nat /\ \A k \in 0 .. K - 1 : t[k] \in Int
    <3>1. ASSUME NEW k \in 0 .. K - 1
          PROVE  t[k] \in Int
      <4>1. sw.job.a[<<r, k>>] \in Int /\ sw.job.b[<<k, c>>] \in Int
        <5>1. sw.job \in Operands /\ k \in 0 .. sw.job.k - 1
          BY <1>1 DEF K
        <5>2. sw.job.a[<<r, k>>] \in SignedBytes /\ sw.job.b[<<k, c>>] \in SignedBytes
          BY <2>1, <5>1, JobBytes
        <5>3. QED
          BY <5>2 DEF SignedBytes
      <4>2. t[k] = sw.job.a[<<r, k>>] * sw.job.b[<<k, c>>]
        BY DEF JobProducts, K
      <4>3. QED
        BY <4>1, <4>2
    <3>2. QED
      BY <1>1, <3>1, JobIs DEF K
  <2> HIDE DEF t
  <2>5. Sum(t, K) \in Int
    BY <2>4, SumStep
  <2>6. QED
    BY <2>3, <2>5 DEF r, c, t
<1>5. QED
  BY <1>2, <1>3, <1>4

(* An answer comes in. *)
LEMMA AnswerKept ==
  ASSUME IInv, NEW go \in SUBSET Movable, NEW addr, NEW next, Answer(go, addr, next),
         \/ sw.at = "poll" /\ next = [sw EXCEPT !.at = IF Bit(axi.r.data, 1) THEN "macLo" ELSE "poll"]
         \/ sw.at = "macLo" /\ next = [sw EXCEPT !.at = "macHi", !.macLo = axi.r.data]
         \/ sw.at = "macHi"
              /\ next = [sw EXCEPT !.at = "c", !.macs = axi.r.data * WordWrap + sw.macLo, !.macLo = 0]
         \/ sw.at = "c" /\ next = [sw EXCEPT !.at = "clear", !.c = axi.r.data]
  PROVE  (\E op : Proper(op, go)) /\ DriverState'
<1>1. DriverTyped /\ Started /\ ReadRight
  BY DEF IInv, DriverInv, DriverState
<1>2. /\ Cycle(go, Nothing) /\ sw' = next
      /\ Undisturbed /\ ~Pending /\ ~Pending' /\ bus'.writes = <<>> /\ ReadOver
      /\ Answers(axi.r.data) /\ (sw.at = "c" => sw.i \in 0 .. ResWords - 1)
  BY TakesAnswer
<1>3. PICK data : data = axi.r.data
  OBVIOUS
<1>4. ~Unstarted /\ sw.at \in {"poll", "macLo", "macHi", "c"}
  BY <1>2 DEF Unstarted, At
<1>5. PICK n : n = N * N * K
  OBVIOUS
<1>6. /\ sw' \in [at : {"poll", "macLo", "macHi", "c", "clear"}, job : {sw.job}, i : {sw.i},
                  macLo : Nat, macs : Nat, c : Int]
      /\ sw'.at # "poll" => run.outcome = "finished"
      /\ sw'.at = "macHi" => sw'.macLo = ctrl.macs % WordWrap
      /\ sw'.at \in {"c", "clear"} => sw'.macs = n
      /\ sw'.at = "clear" => /\ sw.i \in 0 .. ResWords - 1
                             /\ sw'.c = Sum(JobProducts(sw.job, sw.i \div N, sw.i % N), K)
  <2>1. CASE sw.at = "poll"
    <3>1. Bit(data, 1) => run.outcome = "finished"
      BY <1>2, <1>3, <2>1 DEF Answers
    <3>2. sw' = [sw EXCEPT !.at = IF Bit(data, 1) THEN "macLo" ELSE "poll"]
      BY <1>2, <1>3, <2>1
    <3>3. QED
      BY <1>1, <3>1, <3>2 DEF DriverTyped
  <2>2. CASE sw.at = "macLo"
    <3>1. data = ctrl.macs % WordWrap
      BY <1>2, <1>3, <2>2 DEF Answers
    <3>2. run.outcome = "finished"
      BY <1>1, <1>4, <2>2 DEF Started
    <3>3. data \in Nat
      <4>1. ctrl.macs \in Nat /\ WordWrap \in Nat \ {0}
        BY <2>2, Homework DEF At
      <4>2. data \in 0 .. WordWrap - 1
        BY <3>1, <4>1, ModuloRange
      <4>3. QED
        BY <4>2
    <3>4. sw' = [sw EXCEPT !.at = "macHi", !.macLo = data]
      BY <1>2, <1>3, <2>2
    <3>5. QED
      BY <1>1, <3>1, <3>2, <3>3, <3>4 DEF DriverTyped
  <2>3. CASE sw.at = "macHi"
    <3>1. data = ctrl.macs \div WordWrap /\ sw.macLo = ctrl.macs % WordWrap
      BY <1>1, <1>2, <1>3, <2>3 DEF Answers, ReadRight
    <3>2. run.outcome = "finished"
      BY <1>1, <1>4, <2>3 DEF Started
    <3>3. ctrl.macs = n /\ n \in Nat /\ WordWrap \in Nat \ {0}
      BY <1>5, <2>3, Homework DEF At
    <3>4. data * WordWrap + sw.macLo = n
      <4>1. /\ data \in Nat /\ sw.macLo \in 0 .. WordWrap - 1
            /\ n = WordWrap * data + sw.macLo
        BY <3>1, <3>3, Division
      <4>2. QED
        BY <3>3, <4>1, Z3
    <3>5. sw' = [sw EXCEPT !.at = "c", !.macs = n, !.macLo = 0]
      BY <1>2, <1>3, <2>3, <3>4
    <3>6. QED
      BY <1>1, <3>2, <3>3, <3>5 DEF DriverTyped
  <2>4. CASE sw.at = "c"
    <3>1. data = arr.acc[<<sw.i \div N, sw.i % N>>] /\ sw.i \in 0 .. ResWords - 1
      BY <1>2, <1>3, <2>4 DEF Answers
    <3>2. run.outcome = "finished"
      BY <1>1, <1>4, <2>4 DEF Started
    <3>3. /\ data = Sum(JobProducts(sw.job, sw.i \div N, sw.i % N), K)
          /\ data \in Int
      BY <2>4, <3>1, Homework DEF At
    <3>4. sw.macs = n
      BY <1>1, <1>5, <2>4 DEF ReadRight, At
    <3>5. sw' = [sw EXCEPT !.at = "clear", !.c = data]
      BY <1>2, <1>3, <2>4
    <3>6. QED
      BY <1>1, <3>1, <3>2, <3>3, <3>4, <3>5 DEF DriverTyped
  <2>5. QED
    BY <1>4, <2>1, <2>2, <2>3, <2>4
<1>7. /\ sw'.job = sw.job /\ sw'.i = sw.i /\ K' = K
      /\ sw'.at \in {"poll", "macLo", "macHi", "c", "clear"}
  BY <1>6 DEF K
<1>8. DriverTyped'
  BY <1>1, <1>6 DEF DriverTyped
<1>9. OneAccess'
  <2>1. Len(bus'.writes) = 0
    BY <1>2
  <2>2. QED
    BY <1>2, <2>1 DEF OneAccess, ReadOver
<1>10. ~Unstarted'
  BY <1>2, <1>7 DEF Unstarted, At
<1>11. Prepared'
  BY <1>10 DEF Prepared
<1>12. Started'
  BY <1>1, <1>2, <1>4, <1>6, <1>7, StartedIf DEF Started, Undisturbed, GoesOn, K
<1>13. ReadRight'
  <2>1. sw'.at = "macHi" => ctrl'.macs = ctrl.macs
    BY <1>2, <1>6 DEF Undisturbed, GoesOn
  <2>2. QED
    BY <1>2, <1>5, <1>6, <1>7, <2>1 DEF ReadRight, ReadOver, At
<1>14. QED
  BY <1>2, <1>8, <1>9, <1>11, <1>12, <1>13, NothingIs DEF Proper, DriverState

(* DONE is acknowledged. *)
LEMMA AckKept ==
  ASSUME IInv, accel_clear_done
  PROVE  (\E op : Proper(op, {})) /\ DriverState'
<1> DEFINE w == Put(Reg("STATUS"), 2)
<1>1. sw.at = "clear" /\ Does(WriteOp(w), [sw EXCEPT !.at = "return"])
  BY DEF accel_clear_done
<1>2. DriverTyped /\ OneAccess /\ Started /\ ReadRight
  BY <1>1 DEF IInv, DriverInv, DriverState
<1>3. w \in WriteType
  <2>1. \A name : name \in {"LEN", "CTRL", "STATUS"} => IsPut(Put(Reg(name), 2), name, 2)
    BY PutIs
  <2>2. QED
    BY <2>1 DEF IsPut
<1>4. w \in {w}
  OBVIOUS
<1> HIDE DEF w
<1>5. /\ WriteOp(w) \in Ops /\ Cycle({}, WriteOp(w)) /\ sw' = [sw EXCEPT !.at = "return"]
      /\ Undisturbed /\ ~Pending /\ ReadOver
      /\ Pending' /\ Len(bus'.writes) = 1 /\ bus'.writes[1].w = w
  BY <1>1, <1>3, DoesWrite
<1>6. /\ DriverTyped' /\ sw'.at = "return" /\ sw'.job = sw.job /\ sw'.i = sw.i
      /\ sw'.macs = sw.macs /\ sw'.c = sw.c
  BY <1>1, <1>2, <1>5 DEF DriverTyped
<1>7. w \in LastIssued'
  BY <1>6 DEF LastIssued, At, w
<1>8. OneAccess'
  BY <1>5, <1>6, <1>7 DEF OneAccess, ReadOver
<1>9. ~Unstarted /\ ~Unstarted'
  BY <1>1, <1>6 DEF Unstarted, At
<1>10. Prepared'
  BY <1>9 DEF Prepared
<1>11. Started'
  BY <1>1, <1>2, <1>5, <1>6, <1>9, StartedIf DEF Started, Undisturbed, GoesOn, K
<1>12. ReadRight'
  BY <1>1, <1>2, <1>5, <1>6 DEF ReadRight, ReadOver, At, K
<1>13. QED
  BY <1>5, <1>6, <1>8, <1>10, <1>11, <1>12 DEF Proper, DriverState

(* And the next job begins, on an accelerator that is idle. *)
LEMMA NextJobKept ==
  ASSUME IInv, NextJob
  PROVE  (\E op : Proper(op, {})) /\ DriverState'
<1>1. PICK job \in Operands :
        /\ sw.at = "return"
        /\ Does(Nothing, [at |-> "idle", job |-> job, i |-> 0, macLo |-> 0, macs |-> 0, c |-> 0])
  BY DEF NextJob
<1>2. /\ Cycle({}, Nothing)
      /\ sw' = [at |-> "idle", job |-> job, i |-> 0, macLo |-> 0, macs |-> 0, c |-> 0]
      /\ Undisturbed /\ ~Pending /\ ~Pending' /\ bus'.writes = <<>> /\ ReadOver
  BY <1>1, DoesNothing
<1>3. TotalWords(job) \in Nat \ {0} /\ HalfWords(job) \in Nat
  BY JobIs
<1>4. sw'.at = "idle" /\ sw'.job = job /\ sw'.i = 0 /\ DriverTyped'
  BY <1>2, <1>3 DEF DriverTyped
<1>5. OneAccess'
  <2>1. Len(bus'.writes) = 0
    BY <1>2
  <2>2. QED
    BY <1>2, <2>1 DEF OneAccess, ReadOver
<1>6. Unstarted' /\ WordsLoaded' = 0
  BY <1>2, <1>4 DEF Unstarted, WordsLoaded, WordsIssued, At
<1>7. ~CtrlBusy'
  <2>1. run.outcome = "finished"
    BY <1>1 DEF IInv, DriverInv, DriverState, Started, Unstarted, At
  <2>2. QED
    BY <1>2, <2>1 DEF Undisturbed, GoesOn, IInv, RunInv
<1>8. Prepared'
  <2>1. LoadedIn(opnd', sw'.job, 0)
    BY <1>3, <1>4 DEF LoadedIn
  <2>2. QED
    BY <1>4, <1>6, <1>7, <2>1, PreparedIf
<1>9. Started' /\ ReadRight'
  BY <1>2, <1>4, <1>6 DEF Started, ReadRight, ReadOver, At
<1>10. {} \in SUBSET Movable
  OBVIOUS
<1>11. QED
  BY <1>2, <1>4, <1>5, <1>8, <1>9, <1>10, NothingIs DEF Proper, DriverState

-----------------------------------------------------------------------------
(* Every step is a clock that keeps the invariant. *)
LEMMA DriverStep ==
  ASSUME IInv, NEW go \in SUBSET Movable, sw.at # "free", Driver(go)
  PROVE  (\E op, moved : Proper(op, moved)) /\ DriverState'
<1>1. CASE Load
  BY <1>1, LoadKept
<1>2. CASE accel_start
  BY <1>2, StartKept
<1>3. ASSUME NEW at \in {"poll", "macLo", "macHi"}, sw.at = at, NEW addr \in Address, addr = Asked, Reading(addr)
      PROVE  (\E op, moved : Proper(op, moved)) /\ DriverState'
  <2>1. sw = [sw EXCEPT !.i = sw.i] /\ sw.i \in Nat
    BY DEF IInv, DriverInv, DriverState, DriverTyped
  <2>2. Does(ReadOp(addr), sw) /\ sw' = sw
    BY <1>3 DEF Reading, Does
  <2>3. addr = Asked' /\ At({"poll", "macLo", "macHi", "c"}) /\ sw.at # "c"
    BY <1>3, <2>2, LastingSw DEF At
  <2>4. QED
    BY <2>1, <2>2, <2>3, ReadingKept
<1>4. ASSUME NEW addr, NEW next, Answer(go, addr, next),
             \/ sw.at = "poll" /\ next = [sw EXCEPT !.at = IF Bit(axi.r.data, 1) THEN "macLo" ELSE "poll"]
             \/ sw.at = "macLo" /\ next = [sw EXCEPT !.at = "macHi", !.macLo = axi.r.data]
             \/ sw.at = "macHi"
                  /\ next = [sw EXCEPT !.at = "c", !.macs = axi.r.data * WordWrap + sw.macLo, !.macLo = 0]
             \/ sw.at = "c" /\ next = [sw EXCEPT !.at = "clear", !.c = axi.r.data]
      PROVE  (\E op, moved : Proper(op, moved)) /\ DriverState'
  BY <1>4, AnswerKept
<1>5. \A name \in {"STATUS", "MAC_COUNT_LO", "MAC_COUNT_HI"} : Reg(name) \in Address
  BY DEF Reg, Address, ReadOnly
<1>6. CASE accel_done(go)
  <2>1. sw.at = "poll" /\ Asked = Reg("STATUS")
    BY <1>6 DEF accel_done, Asked
  <2>2. CASE Reading(Reg("STATUS"))
    BY <1>3, <1>5, <2>1, <2>2
  <2>3. CASE Answer(go, Reg("STATUS"), [sw EXCEPT !.at = IF Bit(axi.r.data, 1) THEN "macLo" ELSE "poll"])
    BY <1>4, <2>1, <2>3
  <2>4. QED
    BY <1>6, <2>2, <2>3 DEF accel_done
<1>7. CASE accel_mac_count(go)
  <2>1. CASE sw.at = "macLo"
    <3>1. Asked = Reg("MAC_COUNT_LO")
      BY <2>1 DEF Asked
    <3>2. CASE Reading(Reg("MAC_COUNT_LO"))
      BY <1>3, <1>5, <2>1, <3>1, <3>2
    <3>3. CASE Answer(go, Reg("MAC_COUNT_LO"), [sw EXCEPT !.at = "macHi", !.macLo = axi.r.data])
      BY <1>4, <2>1, <3>3
    <3>4. QED
      BY <1>7, <2>1, <3>2, <3>3 DEF accel_mac_count
  <2>2. CASE sw.at = "macHi"
    <3>1. Asked = Reg("MAC_COUNT_HI")
      BY <2>2 DEF Asked
    <3>2. CASE Reading(Reg("MAC_COUNT_HI"))
      BY <1>3, <1>5, <2>2, <3>1, <3>2
    <3>3. CASE Answer(go, Reg("MAC_COUNT_HI"),
                      [sw EXCEPT !.at = "c", !.macs = axi.r.data * WordWrap + sw.macLo, !.macLo = 0])
      BY <1>4, <2>2, <3>3
    <3>4. QED
      BY <1>7, <2>2, <3>2, <3>3 DEF accel_mac_count
  <2>3. QED
    BY <1>7, <2>1, <2>2 DEF accel_mac_count
<1>8. CASE ReadC(go)
  <2>1. sw.at = "c"
    BY <1>8 DEF ReadC
  <2>2. ASSUME NEW i \in 0 .. ResWords - 1,
               Does(ReadOp([win |-> "C", word |-> i]), [sw EXCEPT !.i = i])
        PROVE  (\E op, moved : Proper(op, moved)) /\ DriverState'
    <3> DEFINE addr == [win |-> "C", word |-> i]
               next == [sw EXCEPT !.i = i]
    <3>1. i \in Nat /\ addr \in Address
      BY Sizes DEF Address
    <3>2. sw' = next
      BY <2>2 DEF Does
    <3>3. sw'.at = "c" /\ sw'.i = i
      BY <2>1, <3>2 DEF IInv, DriverInv, DriverState, DriverTyped
    <3>4. addr = Asked'
      BY <3>3 DEF Asked
    <3>5. At({"poll", "macLo", "macHi", "c"})
      BY <2>1 DEF At
    <3> HIDE DEF addr
    <3>6. Does(ReadOp(addr), next)
      BY <2>2 DEF addr
    <3>7. QED
      BY <2>1, <2>2, <3>1, <3>4, <3>5, <3>6, ReadingKept
  <2>3. CASE Answer(go, [win |-> "C", word |-> sw.i], [sw EXCEPT !.at = "clear", !.c = axi.r.data])
    BY <1>4, <2>1, <2>3
  <2>4. QED
    BY <1>8, <2>2, <2>3 DEF ReadC
<1>9. CASE accel_clear_done
  BY <1>9, AckKept
<1>10. CASE NextJob
  BY <1>10, NextJobKept
<1>11. QED
  BY <1>1, <1>2, <1>6, <1>7, <1>8, <1>9, <1>10 DEF Driver

LEMMA WaitKept ==
  ASSUME IInv, NEW go \in SUBSET Movable, Wait(go)
  PROVE  (\E op, moved : Proper(op, moved)) /\ DriverInv'
<1>1. "r" \notin go /\ Cycle(go, Nothing) /\ sw' = sw
  BY DEF Wait
<1>2. CASE sw.at # "free"
  <2>1. OneAccess' /\ Prepared' /\ Started' /\ ReadRight'
    BY <1>1, <1>2, WaitAccess, WaitPrepared, WaitRead
  <2>2. DriverTyped'
    BY <1>1, <1>2, LastingSw DEF IInv, DriverInv, DriverState
  <2>3. QED
    BY <1>1, <2>1, <2>2, NothingIs DEF IInv, DriverInv, DriverState, Proper
<1>3. CASE sw.at = "free"
  BY <1>1, <1>3, NothingIs DEF IInv, DriverInv, Proper
<1>4. QED
  BY <1>2, <1>3

LEMMA FreeKept ==
  ASSUME IInv, NEW go \in SUBSET Movable, Free(go)
  PROVE  (\E op, moved : Proper(op, moved)) /\ DriverInv'
<1>1. PICK w \in Writes : /\ sw.at = "free" /\ Cycle(go, WriteOp(w))
                          /\ sw' = [sw EXCEPT !.i = @ + 1]
  BY DEF Free
<1>2. w \in WriteType
  BY LegacyBenchAssumption DEF WriteType
<1>3. WriteOp(w) \in Ops
  BY <1>2 DEF WriteOp, Nothing, Ops
<1>4. sw'.at = "free" /\ DOMAIN sw' = {"at", "job", "i", "macLo", "macs", "c"}
  BY <1>1 DEF IInv, DriverInv
<1>5. QED
  BY <1>1, <1>3, <1>4 DEF Proper, DriverInv

LEMMA Step ==
  ASSUME IInv, Next
  PROVE  (\E op, moved : Proper(op, moved)) /\ DriverInv'
<1>1. PICK go \in SUBSET Movable : Wait(go) \/ Driver(go) \/ Free(go)
  BY DEF Next
<1>2. CASE Wait(go)
  BY <1>2, WaitKept
<1>3. CASE Driver(go)
  <2>1. sw.at # "free"
    BY <1>3 DEF Driver, Load, accel_start, accel_done, accel_mac_count, ReadC, accel_clear_done, NextJob
  <2>2. (\E op, moved : Proper(op, moved)) /\ DriverState'
    BY <1>3, <2>1, DriverStep
  <2>3. DOMAIN sw' = {"at", "job", "i", "macLo", "macs", "c"}
    BY <2>2 DEF DriverState, DriverTyped
  <2>4. QED
    BY <2>2, <2>3 DEF DriverInv
<1>4. CASE Free(go)
  BY <1>4, FreeKept
<1>5. QED
  BY <1>1, <1>2, <1>3, <1>4

LEMMA InitHolds == Init => IInv
<1> SUFFICES ASSUME Init
             PROVE  IInv
  OBVIOUS
<1>1. /\ ctrl = ResetCtrl /\ opnd = EmptyBuffers /\ arr = ResetArray /\ axi = ResetAxi(Reg("CTRL"))
      /\ bus = [writes |-> <<>>, read |-> NoRead]
      /\ run = [outcome |-> "none", opnd |-> EmptyBuffers, k |-> 0]
      /\ told = [len |-> 0, opnd |-> EmptyBuffers]
  BY DEF Init
<1>2. PICK start \in {"idle", "free"}, job \in Operands :
        sw = [at |-> start, job |-> job, i |-> 0, macLo |-> 0, macs |-> 0, c |-> 0]
  BY DEF Init
<1>3. ctrl \in CtrlType /\ ctrl.state = "IDLE" /\ ~CtrlBusy /\ ~ctrl.done /\ ctrl.len = 0
  BY <1>1 DEF ResetCtrl, CtrlType, CtrlBusy
<1>4. /\ ~axi.awFull /\ ~axi.wFull /\ ~axi.b.valid /\ ~axi.r.valid
      /\ axi.awFull \in BOOLEAN /\ axi.wFull \in BOOLEAN
      /\ DOMAIN axi.b = {"valid", "resp"} /\ axi.b.valid \in BOOLEAN
      /\ DOMAIN axi.r = {"valid", "data", "resp"} /\ axi.r.valid \in BOOLEAN
      /\ axi.data \in Word /\ axi.strb \in SUBSET (0 .. 3)
  <2> DEFINE zero == [lane \in 0 .. 3 |-> 0]
  <2>1. zero \in Word
    BY DEF Word
  <2> HIDE DEF zero
  <2>2. axi = [awFull |-> FALSE, addr |-> Reg("CTRL"), wFull |-> FALSE, data |-> zero, strb |-> {},
               b |-> [valid |-> FALSE, resp |-> "OKAY"],
               r |-> [valid |-> FALSE, data |-> 0, resp |-> "OKAY"]]
    BY <1>1 DEF ResetAxi, zero
  <2>3. QED
    BY <2>1, <2>2
<1>5. EmptyBuffers \in BufferType
  BY DEF EmptyBuffers, Blank, BufferType, Word
<1>6. /\ bus.writes = <<>> /\ bus.read.at = "none" /\ DOMAIN bus.read = {"at", "addr"}
      /\ bus.writes \in Seq(UnderWay) /\ Len(bus.writes) = 0
  BY <1>1 DEF NoRead
<1>7. TypeOK
  BY <1>1, <1>3, <1>4, <1>5, <1>6 DEF TypeOK
<1>8. BusInv
  <2>1. Answered = 0 /\ AwArrived = 0 /\ WArrived = 0
    BY <1>4 DEF Answered, AwArrived, WArrived
  <2>2. InOrder /\ Latched
    BY <1>4, <1>6, <2>1 DEF InOrder, Latched
  <2>3. ToldRight
    BY <1>1, <1>3, <1>4 DEF ToldRight, Registers
  <2>4. QED
    BY <1>4, <1>6, <2>2, <2>3 DEF BusInv
<1>9. RunInv
  BY <1>1, <1>3 DEF RunInv
<1>10. DriverInv
  <2>1. CASE start = "free"
    BY <1>2, <2>1 DEF DriverInv
  <2>2. CASE start = "idle"
    <3>1. sw.at = "idle" /\ sw.job = job /\ sw.i = 0
      BY <1>2, <2>2
    <3>2. TotalWords(job) \in Nat \ {0} /\ HalfWords(job) \in Nat
      BY JobIs
    <3>3. DriverTyped
      BY <1>2, <2>2, <3>2 DEF DriverTyped
    <3>4. OneAccess
      BY <1>6, <3>1 DEF OneAccess
    <3>5. Unstarted /\ WordsLoaded = 0
      BY <1>6, <3>1 DEF Unstarted, WordsLoaded, WordsIssued, Pending, At
    <3>6. LoadedIn(opnd, sw.job, 0)
      BY <3>1, <3>2 DEF LoadedIn
    <3>7. Prepared
      BY <1>3, <3>1, <3>5, <3>6 DEF Prepared
    <3>8. Started /\ ReadRight
      BY <1>4, <1>6, <3>1, <3>5 DEF Started, ReadRight, At
    <3>9. QED
      BY <1>2, <3>3, <3>4, <3>7, <3>8 DEF DriverInv, DriverState
  <2>3. QED
    BY <2>1, <2>2
<1>11. QED
  BY <1>7, <1>8, <1>9, <1>10 DEF IInv

LEMMA StepHolds == IInv /\ [Next]_vars => IInv'
<1> SUFFICES ASSUME IInv, [Next]_vars
             PROVE  IInv'
  OBVIOUS
<1>1. CASE Next
  <2>1. DriverInv' /\ \E op, go : Proper(op, go)
    BY <1>1, Step
  <2>2. PICK op, go : Proper(op, go)
    BY <2>1
  <2>3. /\ TypeOK /\ BusInv /\ RunInv /\ go \in SUBSET Movable /\ op \in Ops /\ Cycle(go, op)
        /\ CtrlClock(RegWrite) /\ RunClock
    BY <2>2 DEF Proper, Cycle, IInv
  <2>4. TypeOK' /\ BusInv' /\ RunInv'
    BY <2>3, TypesKept, BusKept, RunKept
  <2>5. QED
    BY <2>1, <2>4 DEF IInv
<1>2. CASE UNCHANGED vars
  <2>1. /\ ctrl' = ctrl /\ opnd' = opnd /\ arr' = arr /\ axi' = axi /\ bus' = bus /\ sw' = sw
        /\ run' = run /\ told' = told
    BY <1>2 DEF vars
  <2>2. Answered' = Answered /\ AwArrived' = AwArrived /\ WArrived' = WArrived
    BY <2>1 DEF Answered, AwArrived, WArrived
  <2>3. TypeOK'
    BY <2>1 DEF IInv, TypeOK
  <2>4. BusInv'
    <3>1. InOrder' /\ Latched'
      BY <2>1, <2>2 DEF IInv, BusInv, InOrder, Latched
    <3>2. ToldRight' /\ (axi'.r.valid <=> bus'.read.at = "wait")
      BY <2>1 DEF IInv, BusInv, ToldRight, Registers
    <3>3. QED
      BY <3>1, <3>2 DEF BusInv
  <2>5. RunInv'
    BY <2>1 DEF IInv, RunInv, CtrlBusy, LenValid, Flowing
  <2>6. DriverInv'
    <3>1. Pending' <=> Pending
      BY <2>1 DEF Pending
    <3>2. /\ LastIssued' = LastIssued /\ Asked' = Asked /\ WordsLoaded' = WordsLoaded
          /\ (Unstarted' <=> Unstarted) /\ (DriverTyped' <=> DriverTyped)
      BY <2>1, <3>1, LastingSw DEF Unstarted, WordsLoaded
    <3>3. OneAccess => OneAccess'
      BY <2>1, <3>2 DEF OneAccess, At
    <3>4. Prepared => Prepared'
      <4>1. LoadedIn(opnd, sw.job, WordsLoaded) => LoadedIn(opnd', sw'.job, WordsLoaded)
        BY <2>1
      <4>2. QED
        BY <2>1, <3>1, <3>2, <4>1, PreparedIf DEF Prepared, CtrlBusy, K
    <3>5. Started => Started'
      BY <2>1, <3>2, StartedIf DEF Started, K
    <3>6. ReadRight => ReadRight'
      BY <2>1 DEF ReadRight, Answers, At, K
    <3>7. QED
      BY <2>1, <3>2, <3>3, <3>4, <3>5, <3>6 DEF IInv, DriverInv, DriverState
  <2>7. QED
    BY <2>3, <2>4, <2>5, <2>6 DEF IInv
<1>3. QED
  BY <1>1, <1>2

(* The invariant, of every state the accelerator and its software reach. *)
THEOREM Invariance == Spec => []IInv
<1>1. QED
  BY InitHolds, StepHolds, PTL DEF Spec

-----------------------------------------------------------------------------
(* What follows. *)

(* Every variable keeps its type: of the registers, the buffers, what the   *)
(* slave holds, the writes under way and the run, whatever is written.      *)
THEOREM TypesCorrect == Spec => []TypeOK
<1>1. IInv => TypeOK
  BY DEF IInv
<1>2. QED
  BY <1>1, Invariance, PTL

(* A run that ends, and is not discarded, leaves every element of A * B of  *)
(* the operands it was started with, its cycles and its MACs; and what the  *)
(* driver brings home is the product of the operands it loaded.             *)
THEOREM Exact == Spec => []ResultsExact
<1>1. ASSUME IInv
      PROVE  ResultsExact
  <2>1. ctrl.done => run.outcome \in {"finished", "discarded"}
    BY <1>1 DEF IInv, RunInv
  <2>2. run.outcome = "finished" =>
          /\ \A r, c \in Lanes : arr.acc[<<r, c>>] = Owed(r, c)
          /\ ctrl.cycles = run.k + 2 * N
          /\ ctrl.active = run.k + 2 * N - 1
          /\ ctrl.macs = N * N * run.k
    BY <1>1, Finished DEF IInv
  <2>3. sw.at = "return" =>
          /\ sw.macs = N * N * K
          /\ sw.c = Sum(JobProducts(sw.job, sw.i \div N, sw.i % N), K)
    BY <1>1 DEF IInv, DriverInv, DriverState, ReadRight, At
  <2>4. QED
    BY <2>1, <2>2, <2>3 DEF ResultsExact
<1>2. QED
  BY <1>1, Invariance, PTL

(* Every write is performed once and in order, with its own data at its own *)
(* address, and answered before the next is; the registers hold what the    *)
(* answers say, and a refused write leaves no trace.                        *)
THEOREM InOrderOnce == Spec => []WritesExact
<1>1. ASSUME IInv
      PROVE  WritesExact
  <2> DEFINE performed == {i \in DOMAIN bus.writes : bus.writes[i].performed}
  <2>1. /\ bus.writes \in Seq(UnderWay) /\ Answered \in {0, 1}
        /\ \A i \in DOMAIN bus.writes : bus.writes[i].performed <=> i <= Answered
        /\ Answered <= Len(bus.writes) /\ (axi.b.valid <=> Answered = 1)
    <3>1. /\ bus.writes \in Seq(UnderWay) /\ axi.b.valid \in BOOLEAN /\ axi.awFull \in BOOLEAN
          /\ AwArrived <= Len(bus.writes)
          /\ \A i \in DOMAIN bus.writes : bus.writes[i].performed <=> i <= Answered
      BY <1>1 DEF IInv, TypeOK, BusInv, InOrder
    <3>2. Len(bus.writes) \in Nat
      BY <3>1
    <3>3. QED
      BY <3>1, <3>2 DEF AwArrived, Answered
  <2>2. DOMAIN bus.writes = 1 .. Len(bus.writes) /\ Len(bus.writes) \in Nat
    BY <2>1
  <2>3. performed = IF axi.b.valid THEN {1} ELSE {}
    BY <2>1, <2>2
  <2>4. performed = {} => told = [len |-> ctrl.len, opnd |-> opnd]
    <3>1. performed = {} => ~axi.b.valid
      BY <2>3
    <3>2. QED
      BY <1>1, <3>1 DEF IInv, BusInv, ToldRight, Registers
  <2>5. QED
    BY <2>3, <2>4 DEF WritesExact
<1>2. QED
  BY <1>1, Invariance, PTL

(* No event is lost: a run that ends raises DONE whatever is written on    *)
(* that clock, DONE falls only to who may clear it, and a command that is  *)
(* refused raises ERR and leaves the run alone.                            *)
EventStep ==
  ~ReqSoftRst(RegWrite) =>
    /\ CtrlBusy /\ ctrl'.state = "IDLE" => ctrl'.done
    /\ ctrl.done /\ ~ctrl'.done => Commands(RegWrite, "STATUS", 1) \/ (ReqStart(RegWrite) /\ ~Refused)
    /\ Refused => ctrl'.err /\ (ctrl'.state = "IDLE") = (ctrl.state = "IDLE" \/ ctrl'.done)

LEMMA EventsHold ==
  ASSUME IInv, [Next]_vars
  PROVE  EventStep \/ UNCHANGED vars
<1>1. CASE Next
  <2>1. TypeOK /\ RunInv /\ CtrlClock(RegWrite)
    BY <1>1, Step DEF Proper, Cycle, IInv
  <2>2. PICK c : c = Configured(RegWrite)
    OBVIOUS
  <2>3. ctrl.state \in {"IDLE", "CLEAR", "FEED", "DRAIN"} /\ ctrl.done \in BOOLEAN /\ ctrl'.done \in BOOLEAN
    BY <2>1, <2>2, RunFsm DEF TypeOK, CtrlType
  <2>4. CtrlBusy => ~ctrl.done
    BY <2>1 DEF RunInv
  <2>5. c.done <=> ctrl.done /\ ~Commands(RegWrite, "STATUS", 1)
    BY <2>1, <2>2, Configuration
  <2>6. ASSUME ~ReqSoftRst(RegWrite)
        PROVE  /\ CtrlBusy /\ ctrl'.state = "IDLE" => ctrl'.done
               /\ ctrl.done /\ ~ctrl'.done =>
                    Commands(RegWrite, "STATUS", 1) \/ (ReqStart(RegWrite) /\ ~Refused)
               /\ Refused => ctrl'.err /\ (ctrl'.state = "IDLE" <=> ctrl.state = "IDLE" \/ ctrl'.done)
    <3>1. CASE ctrl.state = "IDLE"
      <4>1. Starts => ReqStart(RegWrite) /\ ~Refused
        BY <3>1 DEF Starts, Refused, CtrlBusy
      <4>2. QED
        BY <2>1, <2>2, <2>3, <2>5, <2>6, <3>1, <4>1, RunFsm DEF CtrlBusy
    <3>2. CASE ctrl.state = "CLEAR"
      BY <2>1, <2>2, <2>3, <2>4, <2>5, <2>6, <3>2, RunFsm DEF CtrlBusy
    <3>3. CASE ctrl.state = "FEED"
      BY <2>1, <2>2, <2>3, <2>4, <2>5, <2>6, <3>3, RunFsm DEF CtrlBusy
    <3>4. CASE ctrl.state = "DRAIN"
      BY <2>1, <2>2, <2>3, <2>4, <2>5, <2>6, <3>4, RunFsm DEF CtrlBusy
    <3>5. QED
      BY <2>3, <3>1, <3>2, <3>3, <3>4
  <2>7. (ctrl'.state = "IDLE" <=> ctrl.state = "IDLE" \/ ctrl'.done)
           <=> ((ctrl'.state = "IDLE") = (ctrl.state = "IDLE" \/ ctrl'.done))
    <3>1. ctrl'.done \in BOOLEAN
      BY <2>3
    <3>2. QED
      BY <3>1
  <2>8. QED
    BY <2>6, <2>7 DEF EventStep
<1>2. QED
  BY <1>1

THEOREM NoEventLost == Spec => EventsExact
<1>1. IInv /\ [Next]_vars => [EventStep]_vars
  BY EventsHold
<1>2. QED
  BY <1>1, Invariance, PTL DEF Spec, EventsExact, EventStep, Refused
=============================================================================
