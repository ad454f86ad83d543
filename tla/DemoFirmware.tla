---------------------------- MODULE DemoFirmware ---------------------------
(***************************************************************************)
(* main() of soc/firmware/main.c: the GEMM self-test, the illegal          *)
(* descriptor, the network three times over (GEMMs on the accelerator,     *)
(* whole layers on it, CPU only), the checks against the golden model and  *)
(* the verdict.  What the CPU computes between two calls is one step.      *)
(* Another caller of accel_run() may run in its place, with any of         *)
(* Descriptors, as often as it likes.                                      *)
(***************************************************************************)
EXTENDS Firmware, FiniteSets

CONSTANT Descriptors    \* what the other caller passes

(* Fields are words, and the DMA_POST_* macros make a byte of POST_CFG. *)
Word(x) == x \in Nat /\ Merge(0, x, {0, 1, 2, 3}) = x
Loadable(d) == d \in [Fields -> Nat] /\ (\A f \in Fields : Word(d[f])) /\ d["POST_CFG"] < 256

(* ARRAY_N as tiled_gemm_engine.sv elaborates it; the SoC has MAX_DIM in *)
(* every dimension.                                                      *)
ASSUME DemoAssumption ==
  /\ Word(ArrayN) /\ ArrayN % 4 = 0
  /\ MAX_DIM <= MaxM /\ MAX_DIM <= MaxN /\ MAX_DIM <= MaxK
  /\ \A d \in Descriptors : Loadable(d)

VARIABLE main    \* where it is, shape or batch, layer, failures, numbers drawn
                 \* from rnd8(), MACs counted, and the verdict printed

allvars == <<softVars, main>>

shapes == <<<<4, 4, 4>>, <<1, 1, 1>>, <<5, 6, 9>>, <<7, 3, 13>>, <<16, 12, 33>>,
            <<3, 17, 64>>, <<64, 64, 64>>, <<33, 31, 47>>>>

DemoInit ==
  /\ DeviceInit
  /\ \E section \in {"selftest", "otherCaller"} :
       main = [at |-> section, i |-> 1, layer |-> 1, failures |-> 0, drawn |-> 0,
               macs |-> [mode \in {"gemm", "fused"} |-> 0], verdict |-> "none"]

Fail(n, failed) == IF failed THEN n + 1 ELSE n

accel_gemm(a, b, c, m, n, k) ==
  Descriptor(a, b, c, m, n, k, ArrayN, ArrayN, k, 1, 0)

accel_layer(a, b, c, m, n, k, mult, shift, relu) ==
  Descriptor(a, b, c, m, n, k, ArrayN, ArrayN, k, mult, PostCfg(shift, relu))

-----------------------------------------------------------------------------
(* The CPU's side of memory. *)

(* count numbers of rnd8(), the first of them the one drawn after skip. *)
rnd8(skip, count) == <<"rnd8", skip, count>>

Filled(m, aCount, bCount) ==
  Stored(Stored(m, At["ta"], rnd8(main.drawn, aCount)),
         At["tb"], rnd8(main.drawn + aCount, bCount))

cpu_gemm(mm, a, b, c, m, n, k) ==
  Stored(Loaded(Loaded(mm, a), b), c, Gemm(Load(mm, a), Load(mm, b), m, n, k))

epilogue(mm, acc, bias, out, mult, shift, relu) ==
  Stored(Loaded(mm, acc), out, Requantized(Load(mm, acc), bias, mult, shift, relu))

bytes_differ(mm, x, y) == Load(mm, x) # Load(mm, y)

-----------------------------------------------------------------------------
(* 1. GEMM self-test. *)
SelfTest ==
  LET s == shapes[main.i]
      filled == Filled(mem, s[1] * s[3], s[3] * s[2])
  IN  /\ main.at = "selftest"
      /\ Call(accel_gemm(At["ta"], At["tb"], At["tc_hw"], s[1], s[2], s[3]), "none", TRUE,
              Stored(filled, At["tc_hw"], <<"0xA5">>))
      /\ main' = [main EXCEPT !.at = "selftestCheck", !.drawn = @ + s[1] * s[3] + s[3] * s[2]]

(* The CPU's product of the same operands, and the comparison. *)
Checked(s) == cpu_gemm(mem, At["ta"], At["tb"], At["tc_sw"], s[1], s[2], s[3])
Mismatch(s) == cpu.failed \/ bytes_differ(Checked(s), At["tc_hw"], At["tc_sw"])

Back == cpu.at = "return" /\ cpu' = Idler /\ UNCHANGED biasVec

SelfTestCheck ==
  LET s == shapes[main.i]
  IN  /\ main.at = "selftestCheck"
      /\ Back
      /\ Device(Idle, Loaded(Checked(s), At["tc_hw"]))
      /\ main' = [main EXCEPT !.failures = Fail(@, Mismatch(s)),
                              !.at = IF main.i < Len(shapes) THEN "selftest" ELSE "robustness",
                              !.i = IF main.i < Len(shapes) THEN main.i + 1 ELSE 0]

-----------------------------------------------------------------------------
(* 2. Robustness: TILE_M = 3, sixteen reads of STATUS, then a legal job. *)
Probes == 16

bad == Descriptor(At["ta"], At["tb"], At["tc_hw"], 4, 4, 4, 3, ArrayN, 4, 1, 0)

Robustness ==
  /\ main.at = "robustness" /\ cpu.at = "idle"
  /\ Access(Idle)
  /\ cpu' = [Idler EXCEPT !.at = "clear", !.d = bad, !.probe = TRUE]
  /\ main' = [main EXCEPT !.at = "probe"]

Probe ==
  /\ cpu.at = "probe"
  /\ Access(Idle)
  /\ LET s == accel_dma_status
         busySeen == cpu.busySeen \/ s.busy
     IN  /\ cpu' = [cpu EXCEPT !.next = @ + 1, !.busySeen = busySeen,
                               !.at = IF cpu.next + 1 < Probes THEN "probe" ELSE "probeClear"]
         /\ main' = [main EXCEPT !.failures =
                       Fail(@, cpu.next + 1 = Probes /\ (~s.error \/ busySeen))]

ProbeClear ==
  /\ cpu.at = "probeClear"
  /\ Access(accel_dma_clear_events)
  /\ cpu' = [cpu EXCEPT !.at = "probeCheck"]
  /\ UNCHANGED main

ProbeCheck ==
  /\ cpu.at = "probeCheck"
  /\ Access(Idle)
  /\ cpu' = Idler
  /\ LET s == accel_dma_status
     IN  main' = [main EXCEPT !.failures = Fail(@, s.error \/ s.done), !.at = "recover"]

Recover ==
  /\ main.at = "recover"
  /\ Call(accel_gemm(At["ta"], At["tb"], At["tc_hw"], 4, 4, 4), "none", FALSE, Filled(mem, 16, 16))
  /\ main' = [main EXCEPT !.at = "recoverCheck", !.drawn = @ + 32]

RecoverCheck ==
  /\ main.at = "recoverCheck"
  /\ Back
  /\ Device(Idle, Loaded(Checked(<<4, 4, 4>>), At["tc_hw"]))
  /\ main' = [main EXCEPT !.failures = Fail(@, Mismatch(<<4, 4, 4>>)), !.at = "gemm"]

-----------------------------------------------------------------------------
(* 3, 3b, 4. The network, batch by batch: main.at is the mode, main.i the   *)
(* batch, counted from 0.                                                   *)
Batches == (N_TEST + BATCH - 1) \div BATCH

BugFullBatch(i) == BATCH

BatchSize(i) == IF N_TEST - i * BATCH < BATCH THEN N_TEST - i * BATCH ELSE BATCH

X(i) == At["x_test"] + i * BATCH * N_IN
hiddenOf == [gemm |-> "hidden_hw", fused |-> "hidden_fx", cpu |-> "hidden_sw"]
logitsOf == [gemm |-> "logits_hw", fused |-> "logits_fx", cpu |-> "logits_sw"]
H(mode, i) == At[hiddenOf[mode]] + i * BATCH * N_HID
O(mode, i) == At[logitsOf[mode]] + i * BATCH * N_OUT

NextBatch(mode) ==
  [main EXCEPT !.layer = 1,
               !.i = IF main.i + 1 < Batches THEN main.i + 1 ELSE 0,
               !.at = IF main.i + 1 < Batches THEN mode
                      ELSE CASE mode = "gemm" -> "fused" [] mode = "fused" -> "cpu"
                             [] mode = "cpu" -> "report"]

Counted(next, mode) ==
  [next EXCEPT !.failures = Fail(@, cpu.failed), !.macs[mode] = @ + cpu.macs]

Epilogue1(m, mode, i) ==
  epilogue(m, At["acc1"], b1.name, H(mode, i), L1_MULT, L1_SHIFT, TRUE)
Epilogue2(m, mode, i) ==
  epilogue(m, At["acc2"], b2.name, O(mode, i), L2_MULT, L2_SHIFT, FALSE)

LayerGemm(i) ==
  IF main.layer = 1 THEN accel_gemm(X(i), At["w1t"], At["acc1"], BatchSize(i), N_HID, N_IN)
  ELSE accel_gemm(H("gemm", i), At["w2t"], At["acc2"], BatchSize(i), N_OUT, N_HID)

LayerFused(i) ==
  IF main.layer = 1
    THEN accel_layer(X(i), At["w1t"], H("fused", i), BatchSize(i), N_HID, N_IN, L1_MULT, L1_SHIFT, TRUE)
  ELSE accel_layer(H("fused", i), At["w2t"], O("fused", i), BatchSize(i), N_OUT, N_HID,
                   L2_MULT, L2_SHIFT, FALSE)

LayerCall ==
  /\ \/ main.at = "gemm" /\ Call(LayerGemm(main.i), "none", TRUE, mem)
     \/ main.at = "fused" /\ Call(LayerFused(main.i), IF main.layer = 1 THEN b1.name ELSE b2.name,
                                  TRUE, mem)
  /\ UNCHANGED main

LayerReturn ==
  /\ main.at \in {"gemm", "fused"}
  /\ Back
  /\ main' = Counted(IF main.layer = 1 THEN [main EXCEPT !.layer = 2] ELSE NextBatch(main.at), main.at)
  /\ Device(Idle, IF main.at = "fused" THEN mem
                  ELSE IF main.layer = 1 THEN Epilogue1(mem, "gemm", main.i)
                  ELSE Epilogue2(mem, "gemm", main.i))

CpuBatch ==
  LET i == main.i
      hidden == Epilogue1(cpu_gemm(mem, X(i), At["w1t"], At["acc1"], BatchSize(i), N_HID, N_IN), "cpu", i)
      logits == cpu_gemm(hidden, H("cpu", i), At["w2t"], At["acc2"], BatchSize(i), N_OUT, N_HID)
  IN  /\ main.at = "cpu" /\ cpu.at = "idle"
      /\ Device(Idle, Epilogue2(logits, "cpu", i))
      /\ main' = NextBatch("cpu")
      /\ UNCHANGED <<cpu, biasVec>>

-----------------------------------------------------------------------------
(* 5. The golden model, and what main() holds against it.                   *)
GoldenHidden(i) ==
  Requantized(Gemm(Linked(X(i)), Linked(At["w1t"]), BatchSize(i), N_HID, N_IN),
              b1.name, L1_MULT, L1_SHIFT, TRUE)
GoldenLogits(i) ==
  Requantized(Gemm(GoldenHidden(i), Linked(At["w2t"]), BatchSize(i), N_OUT, N_HID),
              b2.name, L2_MULT, L2_SHIFT, FALSE)

(* Distinct contents have distinct checksums. *)
crc32(contents) == <<"crc32", contents>>
Hidden(mode) == [i \in 0 .. Batches - 1 |-> Load(mem, H(mode, i))]
Logits(mode) == [i \in 0 .. Batches - 1 |-> Load(mem, O(mode, i))]
GOLDEN_HIDDEN_CRC == crc32([i \in 0 .. Batches - 1 |-> GoldenHidden(i)])
GOLDEN_LOGITS_CRC == crc32([i \in 0 .. Batches - 1 |-> GoldenLogits(i)])

(* Logits of the golden model predict what it predicted; others may do so   *)
(* all the same (lucky), or not at all.                                     *)
argmax10(mode, image, lucky) ==
  IF lucky \/ Logits(mode)[(image - 1) \div BATCH] = GoldenLogits((image - 1) \div BATCH)
    THEN golden_pred[image] ELSE N_OUT

Images == 1 .. N_TEST
Score(mode, lucky, against) ==
  Cardinality({image \in Images : argmax10(mode, image, lucky) = against[image]})

(* The conditions of the CHECKs, in their order. *)
Checks(lucky) ==
  <<crc32(Hidden("fused")) = GOLDEN_HIDDEN_CRC /\ crc32(Logits("fused")) = GOLDEN_LOGITS_CRC,
    Score("fused", lucky, golden_pred) = N_TEST,
    crc32(Hidden("gemm")) = GOLDEN_HIDDEN_CRC,
    crc32(Logits("gemm")) = GOLDEN_LOGITS_CRC,
    Hidden("gemm") = Hidden("cpu"),
    Logits("gemm") = Logits("cpu"),
    Score("gemm", lucky, golden_pred) = N_TEST,
    Score("gemm", lucky, labels) = GOLDEN_CORRECT>>

Report == \E lucky \in BOOLEAN :
  /\ main.at = "report" /\ cpu.at = "idle"
  /\ Access(Idle)
  /\ UNCHANGED cpu
  /\ LET failures == main.failures + Cardinality({c \in 1 .. 8 : ~Checks(lucky)[c]})
     IN  main' = [main EXCEPT !.at = "halt", !.failures = failures,
                              !.verdict = IF failures = 0 THEN "PASSED" ELSE "FAILED"]

-----------------------------------------------------------------------------
(* The other caller, and an interrupt handler of it that tries to abort. *)
OtherCall == \E d \in Descriptors :
  main.at = "otherCaller" /\ Call(d, "none", FALSE, mem) /\ UNCHANGED main

OtherReturn == main.at = "otherCaller" /\ Back /\ Access(Idle) /\ UNCHANGED main

Abort ==
  main.at = "otherCaller" /\ cpu.at = "poll" /\ Access(accel_dma_abort) /\ UNCHANGED <<cpu, main>>

Between == Compute /\ UNCHANGED main
Driver == AccelRun /\ UNCHANGED main

Main ==
  \/ SelfTest \/ SelfTestCheck
  \/ Robustness \/ Probe \/ ProbeClear \/ ProbeCheck \/ Recover \/ RecoverCheck
  \/ LayerCall \/ LayerReturn \/ CpuBatch \/ Report

DemoNext == Between \/ Driver \/ Main \/ OtherCall \/ OtherReturn \/ Abort

DemoSpec == DemoInit /\ [][DemoNext]_allvars

(* The CPU runs main(), with cycles to spare between its accesses, and the *)
(* engines finish what they can finish.                                    *)
EngineEnds(x) == eng[x].busy /\ Between /\ ~eng'[x].busy

DemoFair ==
  /\ DemoSpec
  /\ WF_allvars(Between)
  /\ WF_allvars(Main)
  /\ WF_allvars(Driver /\ cpu' # cpu)
  /\ \A x \in Engines : WF_allvars(EngineEnds(x))

-----------------------------------------------------------------------------
(* "SOC TEST PASSED" means what it says: it is printed exactly if every job  *)
(* did what it owed, no matter which job went wrong and in which way, and    *)
(* then the accelerator has counted every MAC of the network.                *)
UsefulMacs == N_TEST * (N_IN * N_HID + N_HID * N_OUT)
VerdictExact ==
  main.at = "halt" =>
    /\ main.verdict = "PASSED" <=> faults = 0
    /\ main.verdict = "PASSED" => \A mode \in DOMAIN main.macs : main.macs[mode] = UsefulMacs

(* Every job of main() but the illegal one is accepted, reads operands from  *)
(* inside one array, and writes, in whole words, inside a variable array and *)
(* over no other value: "true for every call below".                         *)
JobsInBounds ==
  main.at # "otherCaller" /\ job.verdict # "none" /\ job.cfg = desc.cfg =>
    LET c == desc.cfg
        inside(first, words, arrays) == \E a \in arrays : Within(first, 4 * words, a)
    IN  /\ job.verdict = "rejected" <=> c = bad
        /\ job.verdict = "accepted" =>
             /\ inside(c["A_BASE"], AWords, DOMAIN At)
             /\ inside(c["B_BASE"], BWords, DOMAIN At)
             /\ inside(c["C_BASE"], CWords, DOMAIN At \ Constants)
             /\ \A x \in DOMAIN mem.ram \ {c["C_BASE"]} : x - c["C_BASE"] \notin 0 .. 4 * CWords - 1
=============================================================================
