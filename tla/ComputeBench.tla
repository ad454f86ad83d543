---------------------------- MODULE ComputeBench ---------------------------
(***************************************************************************)
(* tiled_stream_gemm_top.sv, with either of the two compute paths it can   *)
(* be generated with, and the INT8 packer behind it, as the accelerator    *)
(* top connects them: two operand streams in, a stream of words out, each  *)
(* of which may stall on any clock, one job after the other.               *)
(***************************************************************************)
EXTENDS GemmEngine, MlPacker

CONSTANTS
  Jobs,      \* of each path: [m, n, k, tm, tn, tk, a, b, post] with bytes
             \* a[<<r, k>>] and b[<<k, c>>]; post says what becomes of C
  Padding    \* what fills the lanes past the end of an operand, and the memories

Paths == {"pipelined", "reference"}

Typed(j) ==
  /\ {j.m, j.n, j.k, j.tm, j.tn, j.tk} \subseteq Nat \ {0}
  /\ j.a \in [(0 .. j.m - 1) \X (0 .. j.k - 1) -> -128 .. 127]
  /\ j.b \in [(0 .. j.k - 1) \X (0 .. j.n - 1) -> -128 .. 127]
  /\ j.post \in [int8 : BOOLEAN, bias : Int, scale : Int, relu : BOOLEAN, shift : Nat]

TilesFit(j) == TileFits(j.tm) /\ TileFits(j.tn) /\ j.tk <= MaxK

(* What the path can run.  The reference path needs the tiles the shell     *)
(* lets through, its adapter an array of whole words, its k_len 16 bits.    *)
Legal(j) == j.m <= MaxM /\ j.n <= MaxN /\ j.k <= MaxK /\ TilesFit(j)

ASSUME ComputeBenchAssumption ==
  /\ MaxK < 65536 /\ N % 4 = 0
  /\ DOMAIN Jobs = Paths /\ Padding \in 0 .. 255
  /\ \A p \in Paths : \A j \in Jobs[p] : Typed(j)
  /\ \A j \in Jobs["reference"] : TilesFit(j)

VARIABLES
  path,                       \* PIPELINED
  startQ,                     \* start_q and the descriptor latched with it
  buf, bmem, sch, adp, vectors, tac, sums,    \* the reference path
  job,                        \* the latest job given, any before the first
  passed,                     \* elements of C the path has let go
  sent,                       \* words of C the sink has taken
  dones                       \* done pulses seen for the job

Ref == INSTANCE ReferencePath

(* Word w of an operand stored row by row, cols to a row, pad past its end. *)
WordAt(cells, rows, cols, w, pad) ==
  [lane \in 0 .. 3 |->
    LET i == 4 * w + lane
    IN  IF i < rows * cols THEN cells[<<i \div cols, i % cols>>] % 256 ELSE pad]

(* Element (r,c) of C of the job. *)
Sum(t, n) ==
  LET upTo[i \in 0 .. n] == IF i = 0 THEN 0 ELSE upTo[i - 1] + t[i - 1]
  IN  upTo[n]

Products(r, c) == [k \in 0 .. job.k - 1 |-> job.a[<<r, k>>] * job.b[<<k, c>>]]

cpu_gemm(r, c) == Sum(Products(r, c), job.k)

(* Its INT8 form, computed in 64 bits. *)
epilogue(acc, post) ==
  LET y == ShiftRight((acc + post.bias) * post.scale, post.shift)
      low == IF post.relu THEN 0 ELSE -128
  IN  IF y < low THEN low ELSE IF y > 127 THEN 127 ELSE y

referenceVars == <<buf, bmem, sch, adp, vectors, tac, sums>>
pipelineVars == <<cfg, eng, out, mem>>
vars == <<path, startQ, arr, pipelineVars, referenceVars, pack, job, passed, sent, dones>>

Init ==
  /\ path \in Paths
  /\ startQ = Ref!NoJob
  /\ arr = ResetArray
  /\ cfg = ResetCfg /\ eng = ResetEngine /\ out = ResetOut /\ mem = Buffers(Padding)
  /\ buf = Ref!Buf!ResetBuffer /\ bmem = Ref!Buf!Matrices(Padding)
  /\ sch = Ref!Sch!ResetScheduler
  /\ adp = Ref!Adp!ResetAdapter /\ vectors = Ref!Adp!VectorBuffers(Padding)
  /\ tac = Ref!Acc!ResetAccumulator /\ sums = [w \in 0 .. Ref!Acc!Words - 1 |-> Padding]
  /\ pack = ResetPack
  /\ job \in Jobs[path]
  /\ passed = 0 /\ sent = 0 /\ dones = 0

Pipelined == path = "pipelined"

(* The wires of the path. *)
Busy == IF Pipelined THEN EngineBusy \/ startQ.q ELSE Ref!PathBusy
Errors == IF Pipelined THEN eng.error ELSE Ref!PathError
Done == IF Pipelined THEN eng.done ELSE buf.done
AReady == IF Pipelined THEN AInReady ELSE Ref!Buf!AInReady
BReady == IF Pipelined THEN BInReady ELSE Ref!Buf!BInReady
Valid == IF Pipelined THEN COutValid ELSE Ref!Buf!COutValid
Last == IF Pipelined THEN COutLast ELSE Ref!Buf!COutLast
Data == IF Pipelined THEN COutData ELSE Ref!Buf!COutData

Int8 == job.post.int8
WordValid == IF Int8 THEN pack.valid ELSE Valid
RawReady(sink) == IF Int8 THEN InReady(sink) ELSE sink

AStream(valid) ==
  [valid |-> valid,
   word |-> WordAt(job.a, job.m, job.k, IF Pipelined THEN eng.a ELSE buf.a, Padding)]
BStream(valid) ==
  [valid |-> valid,
   word |-> WordAt(job.b, job.k, job.n, IF Pipelined THEN eng.b ELSE buf.b, Padding)]

Latch(start, d) ==
  startQ' = IF start /\ ~Busy THEN [q |-> TRUE, d |-> d] ELSE [startQ EXCEPT !.q = FALSE]

Clock(start, d, a, b, sink) ==
  /\ IF Pipelined
       THEN /\ Latch(start, d)
            /\ EngineClock(startQ.q, startQ.d, AStream(a), BStream(b), RawReady(sink))
            /\ UNCHANGED referenceVars
       ELSE Ref!PathClock(start, d, AStream(a), BStream(b), RawReady(sink)) /\ UNCHANGED pipelineVars
  /\ PackClock([valid |-> Valid /\ Int8, last |-> Last, data |-> IF Valid THEN Data ELSE 0],
               job.post, sink)
  /\ UNCHANGED path

(* The movers of the shell keep BUSY up until the sink has every word. *)
Over == ~Busy /\ ~startQ.q /\ ~pack.valid

Descriptor(j) == [m |-> j.m, n |-> j.n, k |-> j.k, tm |-> j.tm, tn |-> j.tn, tk |-> j.tk]

Start == \E j \in Jobs[path] :
  /\ Over
  /\ Clock(TRUE, Descriptor(j), FALSE, FALSE, FALSE)
  /\ job' = j
  /\ passed' = 0 /\ sent' = 0 /\ dones' = 0

(* The descriptor at the port changes while a job runs. *)
Cycle(a, b, sink) ==
  /\ a => AReady
  /\ b => BReady
  /\ sink => WordValid
  /\ Clock(FALSE, Ref!NoJob.d, a, b, sink)
  /\ passed' = passed + Taken(Valid /\ RawReady(sink))
  /\ sent' = sent + Taken(WordValid /\ sink)
  /\ dones' = dones + Taken(Done)
  /\ UNCHANGED job

Next == Start \/ \E a, b, sink \in BOOLEAN : Cycle(a, b, sink)

Spec == Init /\ [][Next]_vars

(* The clock runs, operands arrive and the sink takes words, eventually. *)
FairSpec ==
  /\ Spec
  /\ WF_vars(Cycle(FALSE, FALSE, FALSE))
  /\ WF_vars(\E b, sink \in BOOLEAN : Cycle(TRUE, b, sink))
  /\ WF_vars(\E a, sink \in BOOLEAN : Cycle(a, TRUE, sink))
  /\ WF_vars(\E a, b \in BOOLEAN : Cycle(a, b, TRUE))

-----------------------------------------------------------------------------
Given == startQ.d.m > 0     \* a job has been started

Elements == job.m * job.n
Product(i) == cpu_gemm(i \div job.n, i % job.n)

(* One contract for both paths.  Every element a path lets go is the right  *)
(* one, in row-major order, whatever earlier jobs and the padding left in   *)
(* the buffers and in the array, and c_out_last marks the final one only; a *)
(* job is over when all of C is out, and says so once; one the path cannot  *)
(* run says error instead, and moves nothing.                               *)
ResultRight ==
  /\ Valid => passed < Elements /\ Data = Product(passed) /\ (Last <=> passed = Elements - 1)
  /\ Done => ~Busy
  /\ Over =>
       /\ Given => (Errors <=> ~Legal(job))
       /\ passed = IF Given /\ Legal(job) THEN Elements ELSE 0
       /\ dones + Taken(Done) = IF Given /\ Legal(job) THEN 1 ELSE 0

(* What software owes an INT8 job: elements that the bias leaves INT32.      *)
SumsFit ==
  Int8 => \A i \in 0 .. Elements - 1 :
            Product(i) + job.post.bias \in -WordHalf .. WordHalf - 1

(* The words of an INT8 job are those epilogue() of the firmware stores: in *)
(* order, four elements to a word, the spare lanes of the last one zero and *)
(* it alone last, no lane left over from the job before, none lost or       *)
(* repeated while the sink stalls or the path pauses between two tiles.     *)
OwedWord(w) ==
  [lane \in 0 .. 3 |->
    LET i == 4 * w + lane
    IN  IF i < Elements THEN ByteBits(epilogue(Product(i), job.post)) ELSE 0]

WordsExact ==
  Int8 =>
    /\ pack.valid =>
         /\ pack.word = OwedWord(sent)
         /\ OutLast <=> 4 * (sent + 1) >= Elements
    /\ Over /\ Given /\ Legal(job) => sent = TotalWords(Elements)

(* Every job ends, however long its streams stall: engine and packer, or the *)
(* five state machines of the reference path, never wait in a ring.          *)
JobEnds == ~Over ~> Over
=============================================================================
