# Verification of the AXI4 systolic-array accelerator

TLA+ models of the accelerator in `src/rtl/`, of the SoC wiring in
`src/soc/accel_soc.py`, of its drivers and of the firmware that runs on it, the
TLC runs that check them on small instances, and theorems about them whose
proofs TLAPS checks. Every definition translates the SystemVerilog, Python or C it is
mapped to in `PROJECT.json`; comments and docs are used only for what they
claim, never for what the code does.

## 1. The system

### 1.1 Tiled DMA path (`tiled_axi4_gemm_top`), the path the SoC builds

| Part | Source | State | Operations | Talks to |
|---|---|---|---|---|
| read mover, one for A and one for B | `axi4_read_dma.sv` | FSM `S_IDLE S_AR S_R S_ERROR`, address, words remaining, burst and beats left, `done`, `error` | start, request a burst, take a beat, drain after a bad beat | shell (start/busy/done/error), AXI read slave, operand stream |
| write mover for C | `axi4_write_dma.sv` | FSM `S_IDLE S_AW S_W S_B`, the same counters | start, request, send a beat, take the response | shell, AXI write slave, result stream |
| direct memory port | `axi_dma_mem_port.sv` | read FSM, two-entry skid FIFO with the word on its way from the RAM, round-robin bit; write FSM | grant, issue, push, pop, answer errors; write, respond | the three movers, one single-port RAM of one clock latency |
| descriptor registers | `dma_descriptor_ctrl.sv` | `irq_en`, sticky DONE and ERROR, twelve fields | byte-lane writes, START, write-1-to-clear, lock while BUSY | software, shell |
| shell | `tiled_dma_shell.sv` | completion flag per engine, `done_reported_q`, `error_reported_q`, `reject_q` | admit or reject a START, collect pulses, raise DONE and ERROR | registers, movers, compute path |
| pipelined tile engine | `tiled_gemm_engine.sv` | FSM `S_IDLE S_LOAD S_CLEAR S_FEED S_DRAIN S_CAPTURE S_FLUSH_OUT`, operand and result buffers, tile position, output walk | load, feed one K vector a clock, drain, capture, stream out | operand streams, array, result stream |
| systolic array | `systolic_array.sv`, `pe_mac.sv` | skew registers, operand and accumulator of each PE | shift and accumulate, flush, clear | engine |
| INT8 packer | `ml_int8_packer.sv` | the word being packed, lane counter, valid, last | requantize, pack, emit | engine, C mover |
| top | `tiled_axi4_gemm_top.sv`, `tiled_stream_gemm_top.sv` | bias vector, output column, performance counters, latched START | route, count | everything above |
| driver and job loop | `sw/dma_descriptor.h`, `soc/firmware/main.c` | program counter, last STATUS read | `accel_run`: clear, bias vector, twelve fields, START, poll, flush, counters | register port, D-cache |
| demo firmware | `soc/firmware/main.c`, `model_data.h` | buffers, batch and layer, failures | `main`: self-test, illegal descriptor, a network in three modes, verdict | `accel_run`, RAM through a D-cache the DMA does not see |

A job: software writes the descriptor and START; the shell checks it and
starts all four engines on one clock; the movers fetch A and B through the one
port into the engine's buffers; the engine runs tile after tile through the
array, all of K in one pass, and streams finished rows of C while later rows
are computed; the packer turns them into INT8 words if POST_CFG asks; the C
mover writes them back. The shell raises DONE when all four have finished.

### 1.2 Other parts

* *Reference compute path* (`PIPELINED = 0`): `tiled_matrix_tile_buffer`,
  `tiled_gemm_controller`, `tile_scheduler`, `tiled_compute_chain`,
  `systolic_tile_adapter`, `tile_accumulator`. K is cut into tiles; a
  scheduler owns their order, an accumulator sums partial tiles. Five state
  machines tied by `tile_valid/tile_ready/tile_done` and done pulses.
* *ML inference core*: `tiled_ml_inference_core` and `ml_postprocess`, a
  registered requantizer behind the controller of the reference path.
* *Legacy accelerator*: `systolic_accel_top`, `axi_lite_slave`, `accel_ctrl`:
  an AXI4-Lite register file, operand windows, a run FSM and the array; its
  driver `sw/accelerator.h`, used as `sim/accel_host.py` runs a job.
* *Ping-pong banks*: `ping_pong_bank_manager`, `dual_bank_buffer`, standalone
  blocks no top instantiates. *Reset synchroniser*: `reset_sync`.
* Python models and training, testbenches, formal harnesses, build scripts.

### 1.3 What is hard

* *Everything moves at once.* On each clock twelve state machines step, each
  against wires the others drive on that clock. Any of the streams may stall.
* *One port for three masters.* The C mover asks for the port before it has a
  word to write. If a write burst were granted before both operands are in,
  nobody could move again.
* *Events against polling.* BUSY falls a clock before DONE rises; ERROR rises
  while the job runs; START and clears may be written on the clock an event
  arrives.
* *Bad beats.* An error response or a misplaced RLAST in mid burst; a job that
  ended badly must leave no beat behind for the next one.
* *Time as data.* PE(r,c) is right only if operands reach it on one clock,
  stalls or not, and the drain must be exactly long enough.
* *Leftovers.* Lanes, columns, buffers and completion flags of the last job
  must not show in the next.
* *Memory seen twice.* The CPU reads results through a D-cache that the DMA
  writes behind; and a job that silently did nothing leaves in its buffers the
  right result of the job before.
* *Two halves of a write.* AXI4-Lite sends address and data in either order,
  with an earlier response still waiting.

`PROJECT.json` lists each hazard at its line with the properties that cover it.

## 2. Modules

One step of every model is one clock edge, except that some benches let their
environment choose what it does on that edge. Registers keep the names of the
code where TLA+ allows; a block's registers are one record-valued variable.
Output wires are operators on the current state, the clock edge is one action
or one operator that gives the next state. Addresses count 32-bit words in
the movers and the memory port, bytes in the descriptor.

| Module | What it is |
|---|---|
| `ReadDma`, `WriteDma` | the movers, one action per FSM arm (`Idle`, `Address`, `Data`, `Drain` / `Response`), parameterised by burst limit, page size and address space |
| `Mover` | what the shell relies on: a job begins, words pass in turn, one done pulse ends it |
| `ReadChannel`, `WriteChannel` | a mover with a slave that may stall, answer errors and, for reads, misplace RLAST, a stream that may stall and, for writes, misplace `stream_last`, and any sequence of jobs |
| `MemPort`, `MemBus` | the memory port with its RAM; the same with two readers and a writer that stall at will |
| `DmaDescriptor`, `DmaShell` | the registers and the shell's admission, flags and events, over the wires of four engines |
| `ShellChannel` | the shell between software that may write any register on any clock and four engines known only by what `Mover` promises (one done pulse, an error level until the next job) |
| `FirmwareMemory` | the arrays of `main.c` and `model_data.h` where the linker puts them, RAM and D-cache; a value is known by how it was computed, so two are equal only if they come from the same operands by the same operations |
| `Firmware` | the driver and `accel_run()` on top of `ShellChannel`; the CPU takes any number of clocks between two accesses; when its C mover ends a job's result is in RAM, unless the job is one of at most `MaxFaults` that report an error or silently write nothing |
| `DemoFirmware` | `main()`, all of it, with its own shapes, batches and data; or another caller of `accel_run` |
| `SystolicArray`, `ArrayBench` | array and PEs; the same under its input contract, with stalls and clears at any time and ghost variables that remember what was fed and what each element should be |
| `GemmEngine` | the pipelined engine with its array |
| `TileScheduler`, `TileAdapter`, `TileAccumulator`, `GemmController` | three blocks of the reference compute path and their wires (`tiled_gemm_controller`, `tiled_compute_chain`); `TileAdapter` extends `SystolicArray` |
| `TileBuffer`, `ReferencePath` | the operand and result buffer; the `PIPELINED = 0` branch of `tiled_stream_gemm_top` |
| `MlPacker` | the INT8 packer |
| `ComputeBench` | either compute path with the packer behind it, between three streams that stall at will: one contract for both |
| `AccelSystem`, `SystemBench` | all the real blocks wired as the tops and `accel_soc.py` wire them (INSTANCE of each module above, no contract in place of a block); the same with software that writes registers on any clock |
| `AxiLiteSlave`, `AccelCtrl` | the bus slave; register file, operand buffers and run FSM around the array |
| `LegacyBench` | the two as `systolic_accel_top` wires them, with a master that takes any time on each channel, and either the driver of `accelerator.h` or anyone who issues writes at will |
| `MlCore` | the ML core between streams that stall |
| `Arithmetic` | lemmas the provers lack: `%` and `\div`, places in a matrix of rows, induction in the form of a statement about a set, partial sums |
| `ReadChannelProofs`, `WriteChannelProofs`, `MemBusProofs`, `ComputeProofs`, `FirmwareProofs`, `LegacyProofs`, `SystemProofs` | the proofs |
| `MC*` | constants for TLC |

Composition:

    SystemBench -> AccelSystem -> DmaShell -> DmaDescriptor
                               -> ReadDma (A), ReadDma (B), WriteDma (C)
                               -> GemmEngine -> SystolicArray
                               -> MlPacker, MemPort
    ComputeBench -> GemmEngine -> SystolicArray
                 -> ReferencePath -> TileBuffer, GemmController
                 -> MlPacker
    GemmController -> TileScheduler, TileAccumulator, TileAdapter -> SystolicArray
    MlCore -> GemmController
    DemoFirmware -> Firmware -> ShellChannel -> DmaShell
                             -> FirmwareMemory
    LegacyBench -> AxiLiteSlave, AccelCtrl -> SystolicArray
    ReadChannel -> ReadDma,  WriteChannel -> WriteDma,  both refine Mover

Operators named `Bug...` are not part of any specification: each is the
definition below it with one plausible mistake, used to show that the
property named with it in `PROJECT.json` notices.

### Correspondence, by example

* `axi4_read_dma`: `rd.state` is `state`, `rd.remaining` is the words left,
  `Idle`, `Address`, `Data` and `Drain` are the arms of its `case`, `Hold` the
  default `done <= 0` in front of it. `NextBurst` is `next_burst`: least of
  what remains, `MAX_BURST` and the words to the next page boundary.
* `axi_dma_mem_port`: `Clock` is its one `always_ff`; `GrantRead`, `Stream`
  and `HandOver` are the read side, `WriteSide` the write side, `MemAddr` and
  `WriteEnable` the combinational RAM port. `rp.pending` says a word issued on
  the last clock is on its way into the FIFO.
* `tiled_dma_shell`: `e[x]` are the wires `x_busy`, `x_done`, `x_error`;
  `Legal` is `desc_legal`; `DoneEvent` is `dma_done`, with its `!dma_start`.
* `systolic_array`: row r's skew registers and the `act_reg` of its PEs are one
  line of r + N registers, so a shift is one function; position r + c of it is
  the operand in PE(r,c). The registers that pass `act_out` and `wt_out` are
  these same ones.
* `tiled_axi4_gemm_top`: `TopClock` conjoins the clock edge of every block
  with the wires between them; a valid/ready transfer is the same condition on
  both sides.
* `tiled_gemm_controller`: `Launch` is its `launch` wire. On that one clock the
  buffer goes to `S_SEND`, the scheduler marks the tile in flight, the adapter
  goes to `S_LOAD` and the accumulator to `S_CONSUME`; `tac.tileDone` is the
  `tile_done` that the scheduler and the buffer both watch, `sch.done` the
  `compute_done` that lets the buffer stream C.
* `axi_lite_slave`: `axi.aw`, `axi.w`, `axi.b`, `axi.ar` and `axi.r` are its
  channel registers, `DoWrite` the clock on which both halves of a write are in
  hand and no response waits. `accel_ctrl`: `Commands(w, reg, bit)` is a write
  that sets a command bit, `WriteResponse` its `wr_resp`, `CtrlClock` its
  `always_ff` blocks with the array's clock.
* `main.c`: `main.at` is the place in `main()`, `Call` and `Back` enter and leave
  `accel_run`, `Loaded`, `Stored` and `Flushed` are the CPU's loads, stores and
  `flush_cpu_dcache`, `Written` the DMA. The cache of the model keeps everything
  touched since the last flush, the worst case of any cache size.

## 3. Runs

All passing runs check deadlock. Each property has a mutant of the code that
TLC finds to violate it under the run's own configuration.

| Run | Question | Bounds |
|---|---|---|
| `read_channel` | Does the read mover request legal bursts, deliver every word once and in order, drain after errors, report them exactly, keep the `Mover` contract, and end every job? | bursts of at most 3, pages of 4 words, a bus of 8 words; every base and every count up to 7 |
| `write_channel` | The same for writes: WLAST where the slave counts it, no response left behind, the outcome exact. | the same |
| `mem_bus` | Does the port keep, order and label every word under every pattern of stalls, take turns, and answer a burst outside the window with errors without touching the RAM? | a window of 4 words, bursts of 1 to 4 beats that fit, start below, run off the end or are not plain, a writer that misplaces WLAST |
| `shell_channel` | Are DONE and ERROR true, raised at most once, never lost to a clear? | twelve register writes, on any clock, engines that finish and fail in any order |
| `firmware` | Does `accel_run` return, with the verdict of its own job, and never meet the START race? Does every job of `main()` stay inside its arrays, and is "SOC TEST PASSED" printed exactly if no job went wrong? | `main()` with its real shapes, batches, addresses and labels; one job of it goes wrong, any one, in either way; another caller with two legal descriptors, one misaligned, one too long |
| `array_bench` | Do operands meet, do sums stay in range, is the product complete after the drain? | 3 x 3 array, K = 3, three vectors |
| `compute` | Is every element of either path right and in order, is every INT8 word right, do last and done come with the last element, and does every job end? | 4 x 4 array; pipelined: jobs 5x5x2 (four ragged tiles) raw and INT8, 2x8x3 with a negated ReLU, 1x1x1, one too tall, one with a bad tile; reference: 5x5x5 (2 x 2 x 2 ragged tiles), 2x6x3, 1x1x1, one too tall |
| `system` | After any job, is C = A * B (or its INT8 form) in RAM and nothing else changed; are tiles counted as documented; does every job end? | 5x5x2 and 1x5x2 jobs, RAM of 40 words, six register writes on any clock |
| `legacy` | Are C and the counters final and right when DONE shows? Is every write performed once, answered for itself, and without effect if refused? Is no event lost, and every run of the driver reported? | 4 x 4 array, K up to 2; the driver with jobs of one and two vectors for ever; or five writes of seven kinds, two under way, on any clock |
| `shell_race` | *violation* | see 3.1 |
| `system_fault` | *violation* | see 3.1 |
| `ml_core` | *violation* | see 3.1; a 3x2x3 job of two ragged tiles in K |

**Why these bounds are enough.** Three beats distinguish a first, a middle and
a last one. Pages of four words against bursts of three make a burst cut by
the page, by the limit and by the end of the job, and with eight bases on an
eight-word bus each of them also wraps. The FIFO of the port has two entries,
so bursts of four fill, drain and refill it. A 3 x 3 array has a corner, an
edge and a centre PE, and stalls may fall on any clock. 5 = 4 + 1 gives full
and ragged tiles in both dimensions; 25 results are six full INT8 words and a
short one; 10 operand bytes are two full words and a short one. On the
reference path the job 5x5x5 has a first and a last tile in each dimension and
a job of one tile alone is both; each job of `compute` may follow each other
one, so that every memory holds leftovers of every shape. The values of
`firmware` are opaque, so the 33 accepted jobs of `main()` and the refused one
run with their own dimensions; one bad job among them is enough, since the
verdict only counts up. Five free writes in `legacy` reach a run, an
interference with it and an acknowledgement in any order; with two under way
an address overtakes the data of the write before it.

**What is scaled.** Pages of 1024 words, bursts of 16 beats and the 32-bit
address are constants. TLC's integers have 32 bits, so a "word" of the packer
has `2 * WordHalf` values, 2^28 in `system` and 2^21 in `compute`; the values
used stay far inside, so nothing wraps that would not wrap in 32 bits. In
`legacy` a counter word has 16 values, so that a MAC count carries from its
low to its high half, as it would at 2^32. PERF_ACTIVE wraps at
`CounterWrap`, 4096 in place of 2^32, to keep the cycle count finite: a job
takes a few hundred clocks. Counts of events in `ShellChannel` stop at 2, which
is already one too many. Lanes past the edge of an operand carry `Padding`, a
value that would show in a result. The Mover contract stands for the engines in
`shell_channel` and `firmware`, and what the contract promises is proved of
both movers (section 4; `Implements` in the runs). The compute path `X` is given
the same contract, and `compute` checks its `done`.

**Fairness.** `system` assumes only that the clock runs. The benches assume
of the other side what AXI and the stream contracts ask: a slave accepts an
address, gives each beat and each response in the end; a sink takes a word in
the end; a source offers one in the end (in `compute`, each of the three sides
on its own). Nothing is assumed of who starts jobs. `firmware` assumes that the
CPU proceeds, with clocks between its accesses, and that an engine that can
finish does. `legacy` assumes that the clock runs, that the master moves what
it can and that the driver, which never sleeps, makes its next access. Each
condition is on a named action of the environment, never on the design's own
choice, because the design has none: given the wires its next state is fixed.

### 3.1 Where the code and a document differ

`docs/dma_register_map.md:61` says "Each accepted job raises DONE exactly once
(and ERROR at most once)". *At most once* holds (`EventsExact`). *At least
once* does not, in two situations:

* `shell_race`: the completion event is masked by `!dma_start`
  (`tiled_dma_shell.sv:178`). BUSY falls one clock earlier than DONE rises,
  so a START written on exactly that clock is accepted and the finished job is
  never reported. Software that polls STATUS, as `accel_run` does, waits for
  DONE or ERROR and cannot meet this clock (`EveryJobReportedHere`).
* `system_fault`: if a read of an operand fails, its mover stops and the engine
  waits in `S_LOAD` for words that never come (`tiled_gemm_engine.sv:233`).
  ERROR rises, BUSY stays high, DONE never comes; ABORT reaches no engine.
  `CallReturns` and `JobsEnd` therefore speak of jobs whose operands can be
  read: the first says so, and the programs of the second lie in the window.

`docs/ml_inference_core.md:17` draws the output of the ML core as "backpressured
INT8 C", and line 29 says that `out_valid`, `out_ready` and `out_last` "form the
result stream contract".

* `ml_core`: a result that is not taken at once is lost. While it waits, the
  core holds the accumulator back (`tiled_ml_inference_core.sv:68`), the
  requantizer therefore sees no input, and `ml_postprocess.sv:45` lets
  `valid_out` follow its input (`NoResultLost`).

## 4. Theorems

Proved for every value of the constants that satisfies the named assumptions;
the assumptions are evaluated by TLC in the runs.

**`ReadChannelProofs`**, from `ReadDmaAssumption` (burst limit, page
and address space at least 1) and
`ReadChannelAssumption` (bases on the bus, counts natural): type correctness,
`BurstLegal`, `WordsConserved`, `LastOnFinalWord`, `NoOrphanBurst`,
`ErrorExact`, whatever the slave does, faulty or not.
None of these is inductive by itself: that the next burst starts at the right
word, say, needs to know in `S_R` how many beats the slave still owes. The
invariant `IInv` therefore says what is known in each FSM state
(`KnownIdle`, `KnownAddress`, `KnownData`, `KnownError`): in `S_R` without
error, `owed` equals `beats`, words had and words planned make up the job, and
the address is that of the open burst; in `S_ERROR` beats are still owed and
the error is on record. The proof has one lemma per action
of the channel; `Beat` splits into a bad last beat, a bad beat in mid burst, the
end of the job, the end of a burst and a beat in mid burst. Address arithmetic
modulo the bus rests on `Arithmetic`.

**`WriteChannelProofs`**, from `WriteDmaAssumption` and
`WriteChannelAssumption`, the same of the write mover: `BurstLegal`,
`WordsConserved`, `WLastAgrees`, `OutcomeExact`. In `S_W` the invariant ties the
beats the slave still expects to `beats`; in `S_B` a response is owed and the
address is still that of the burst it answers.

**`MoverImplemented`**, in both of these modules: the channel implements `Mover`
under the refinement mapping of its module. Initial states map to initial states
and each action to a step of `Mover` or a stutter; the invariant is what makes
the last beat, or the last response, the step that ends the job.

**`MemBusProofs`**, from `MemPortAssumption` (a window of at least one word) and
`MemBusAssumption`, for every window and for bursts of any length: `BeatRight`,
`ResponseExact`, `BypassBounded`, `OnlyOwnWrites`. Of the read side the
invariant says where each word on its way is (`FifoRight`): the entries of the
FIFO come next, then the word the RAM is about to return, then the words not
yet asked for; and that the first two kinds are never more than the FIFO
holds. `WriteRight` says where a write burst stands, `Turns` that a reader
passed over once is the next. The RAM cannot change under a read burst because
one side works at a time (`Roles`). The proof has a lemma per thing a clock may
do: grant, issue, push, pop, accept or answer a write beat.

**`FirmwareProofs`** begins with the shell, for every set of register writes and
every engine that keeps the contract: `DoneMeansOver`, `EventsExact`,
`FailureReported`. An engine of an accepted job works or has left its completion
(`Completion`); `done_reported_q` and `error_reported_q` each stand for the one
event of that job (`DoneCounted`, `ErrorCounted`).

It goes on to the firmware, from the assumptions of the shell and `DemoAssumption`:
`ReturnExact`, `EveryJobReportedHere`, `JobsInBounds` and `VerdictExact`. The
assumption says that a descriptor holds 32-bit fields, with a byte of POST_CFG
(`dma_descriptor.h:43`, `:39`), that the array has a multiple of 4 rows (`tiled_gemm_engine.sv:76`) and
that the shell takes MAX_DIM in each dimension (`accel_soc.py` builds it with 64).
Of the shell nothing is assumed again: its invariant `IInv` holds here because
it holds for any register write. What is added:

* `Rested`: only a poll has a job under way; everywhere else the shell is idle
  and an accepted job has raised its DONE. A START therefore never falls on the
  clock of a completion, and no field write meets the lock.
* `Programmed`: the registers hold the fields of the caller's descriptor
  written so far, all twelve at START. `FieldStep` shows that writing a field
  leaves exactly that value in it, whatever was there before, byte lanes and the
  one byte of POST_CFG included.
* `Own`, `Blame`: from START to return the job is the caller's; it has failed
  exactly if an engine still shows its error, `error_reported_q` does not run
  ahead of the engines, no error comes after DONE, and nothing clears ERROR
  between START and the read that ends the poll. ERROR read there is then this
  job's (`PollReads`).
* `Probing`, `MainOK`: the illegal descriptor is used where `robustness()` uses
  it, and `main()` counts its shapes and batches in range.
* `KnownJobs`, for `JobsInBounds`: a descriptor `main()` passes is the illegal one
  or `Sound`, and RAM holds values only where those of `main()` begin. The map of
  the linker is proved first (`Places`: the recursive `Place` is the sum of the
  aligned lengths before it), then that each of the 8 shapes and 24 layers fits
  (`TestSound`, `NetworkSound`), and that no value of the program begins inside
  the words of another's result (`AloneLogits` is the narrow one: the last batch
  of INT8 logits ends in a word that is not full).
* `NetworkInv`, for `VerdictExact`, whose two directions need each other: what
  `main()` has counted must be 0 if no job has failed, and a job that has failed
  must be counted, or still leave a trace, at every step up to the last CHECK.
  `Accounted` says so: without a fault nothing is amiss (`Sane`); with one, a
  failure is counted, or a layer in RAM is not golden, or the error is on its
  way to the caller, or what the job owed is not in RAM (`Seen`). That a job
  which wrote nothing cannot be mistaken for one that did is `Leftover`: before
  each job its result is not yet in the place of it. The self-test owes this to
  the pattern 0xA5, the recovery job to a product of another shape that is
  still there, the layers with an INT8 result to an array nothing has written,
  the layers with INT32 sums to the sums of another layer or of another batch.
  `Task`, `BiasKnown` and `Fresh` say that the job is the one `main()`
  asked for, with the bias vector of its layer, and that the CPU's cache is
  stale at most while a job runs; `Counting` adds up the MACs batch by batch.
  At the report `ChecksTell` shows that no CHECK fails exactly if nothing is
  amiss, down to the labels the golden model gets right: 353 of 360
  (`GoldenScore`), the number `GOLDEN_CORRECT` states.

**`SystemProofs`**, of the real blocks wired together, from `SystemAssumption`
(every size at least 1, the RAM window on the bus, any set of register writes):

* `TilesCounted`. The shell admits a START only when nothing is busy, so the
  engine runs the descriptor the job was given, under a lock (`JobKnown`,
  `StartKnown`, `EngineKnown`); `Walk` says where it is in it: at row i and
  column j of the tiles it has captured i * columns + j of them. The counters of
  the registers multiply three rounded quotients, the engine counts by steps of
  TILE_M and TILE_N; `BlocksAt` shows that the last block of each agrees.
* `OperandsBeforeWrites`, for software that keeps the operands and the result of
  each job inside the RAM window (`JobFits`). Without that it is false: a reader
  refused by the window check stops with an error, the engine waits in `LOAD` for
  words nobody will send, and the C mover, which asks from its first cycle on,
  gets the port. So the invariant has to account for every word on its way.
  `Operands` says, of each reader, that burst, words to come and words the engine
  has add up to the operand (`ReaderLoads`); of the port, that a burst under way
  is that reader's, good, and that the words still to pass are those of RAM from
  the place the engine has got to, wherever they are in the skid FIFO
  (`PortStands`); and that while both are not in, the write side has not moved.
  It is inductive only with the port's FIFO arithmetic (`FifoTyped`), the
  movers' registers (`MoversOK`) and `Walk`. That the arbiter prefers readers
  to the writer is used in `PortGoesOn`: as long as a word is missing, a reader
  asks or is served.
* `ResultInMemory` and `NoStrayWrite`, for software that keeps to `JobFits` and
  whose biased elements stay inside 32 bits (`SumsFit`; without it the packer's
  adder wraps, as `docs/dma_register_map.md` does not say). The invariant `Owed`
  follows the data through the blocks: registers and bias are those of the START
  as long as the job runs (`Held`); the buffers hold the operand bytes of the
  words taken (`Buffered`); t clocks into a tile every register of every line of
  the array holds what was fed as many clocks ago as it is deep, and every
  accumulator the sum of the products that have met there (`Computing`); the
  tiles captured so far are final in the buffer of C (`Finished`), and the output
  side runs over no row that is not (`RowsFinal`, `Handing`); the packer holds
  the requantized elements of the word it is at (`Packing`); and as many words as
  the mover has sent are in RAM, at the place the mover and the port both count
  to (`Sending`). None of these is inductive without the ones before it, and
  `Computing` not without `Operands`, because a word of another place of RAM in
  the FIFO would pass unseen until `CAPTURE`. The bytes are typed by
  `CellsHold`. The sums are handled as in `LegacyProofs`; the shift of the packer
  is a recursive function, whose unfolding `ShiftsExist` proves the same way.

Both conditions hold in every state of `MCSystem`.

**`ComputeProofs`**, of the array in `ArrayBench`, from `SystolicAssumption`
(N at least 1) and `ArrayBenchAssumption` (vectors within the peak): type
correctness, which bounds every accumulator by K * Peak^2 (at Peak = 128, inside
32 bits for every K up to 131071), `OperandsAligned`, `SumsOnTime` (each accumulator is on every clock the sum of the products that
have reached its PE; it implies `ProductReady`) and `ProductReady`: 2N - 1
enabled clocks after the last vector, the engine's `DRAIN_CYCLES`, all N^2
dot products are complete. The invariant adds to these what every register of
every line holds (`LinesRight`: register j of line i holds what was fed j + 1
enabled clocks ago) and what the ghost sums are (`SumsRight`, `SumsBounded`).
The proof has one lemma per action and needs no induction over K or N: each
sum is defined from the one before it in the ghost state.

It also holds, of `ComputeBench`, from the assumptions of the blocks and
`ComputeBenchAssumption` (N a multiple of 4, MAX_K below 2^16, jobs of INT8
operands): `ResultRight`, and `WordsExact` for the jobs that keep `SumsFit`, for
both compute paths. `Packing` relates the lanes of the
packer to the number of elements it has taken: which word it is at, which lanes
hold which bytes, that the others are zero, and that a word waits at its output
exactly while it has not been sent.

`ReferenceResult` proves `ResultRight` of the reference path, job after job,
whatever the memories and the array held before. `RefInv` says where in its
course a job is (`RefStage`): the five state machines are never in any other
combination of states. While the operands come in, what has come is in the
buffer (`Stored`, as in `Operands` above, in the byte lanes `WordAt` puts it). Of a
tile under way, the vectors sent so far are in the adapter in feed order, padded
with zeros (`VectorsHold`); t clocks into it each line of the array holds what was
fed as many clocks ago as it is deep, and each accumulator the terms that have met in
its PE (`ArrayHolds`); the words of the accumulator before the one at hand have the
terms of this slice of K as well, those after it only of the slices before
(`Adding`), which is where a `first_k` taken from the wrong tile would show. The
elements of the tiles before it are final in the buffer (`FinalTo`), and when the
scheduler has walked over the last tile all are (`AllFinal`). Only then does the
path stream. Once more the stages need each other: the path stream. Once more the stages need each other: the scheduler's step is right
because the `tile_done` it sees is its own tile's (`Told`).

`PipelinedResult` proves it of the pipelined path, which streams while it
computes, so that no stage has all of C final until the last (`PipeStage`). From
`S_CLEAR` to `S_CAPTURE` the engine is at a tile (`AtTile`): the operands are in
its buffers, the rows above the tile are final and, of its own rows, the columns
left of it (`FinalTo`), and the output side has let go `passed` elements of the
rows above only (`Streams`: `c_rows_ready` is the tile's first row, until the
capture of the last tile of that row of tiles). The tile sums whole elements, so
`ArrayHolds` of the reference path, with a slice that is all of K, says what the
array holds: on every clock of `S_FEED` and `S_DRAIN` one more of the terms that
meet in each PE, and in `S_CAPTURE`, 2N - 1 clocks after the last vector, all of
them. A capture that came a clock early, a `c_rows_ready` that moved with each
tile and an output walk that lost its place to a stall would each break it.
`ResultIsRight` joins the two paths.

**`LegacyProofs`**, from `SystolicAssumption`, `AccelCtrlAssumption` (N a
multiple of 4, KMAX below 2^16) and `LegacyBenchAssumption` (the driver's
operands are INT8 and legal, the writes anyone issues are words with strobes):
`TypeOK`, `ResultsExact`, `WritesExact`, `EventsExact`, for any number of writes
under way. The invariant `IInv` has four parts.

* `TypeOK`.
* `BusInv`: of the writes under way the first is performed exactly while its
  response is out, and the address and the data that have arrived are the next
  one's (`InOrder`, `Latched`). This is where a second address that overtakes
  the first one's data would do harm. `ToldRight`: the registers are what
  software knows, plus the write whose OKAY still waits.
* `RunInv`: t clocks into a run each register of each operand line holds what
  was fed as many clocks ago as it is deep, and each accumulator the sum of the
  products that have met in its PE (`Streamed`, `Flowing`); LEN and the buffers
  are those at START, because writes to them are refused. t is `feed_k` in
  `S_FEED` and LEN plus the drain counter after it; it stays at K + 2N - 1 once
  the run is over.
* `DriverInv`: the driver has one access under way at most and it is the one
  its place in the program calls for (`OneAccess`); up to START each word it
  has written, and the write still on its way is the last of them, is where
  `pack_a` and `pack_b` put it (`Prepared`); after it the run is that of its
  job, and over once DONE was read (`Started`); what it has read is what the
  registers hold, also when the answer has been waiting (`ReadRight`).

The proof has lemmas of what a clock does to each block (`SlaveClock`,
`Configuration`, `RunFsm`, `ArrayAdvances`), which the lemmas of the driver's
steps use. The recursive `Sum` is handled by `PartialSumsStep` of `Arithmetic`:
induction, stated of the set of those n for which the sums up to n exist, and
proved by counting, since the theorems of the library that take a predicate
cannot be used.

Every invariant was checked by TLC before it was proved.

**Not proved, only model-checked.** Liveness, which needs ENABLED and is beyond
the prover: `JobEnds` of the movers and of the compute paths, `JobsEnd` of the
system, `CallReturns` of the firmware, `RunReported` of the legacy path. Every
invariant and every action property of the passing runs is proved.

`VerdictExact` is proved of contents as the model has them: a product is
determined by its operands, distinct operands or shapes have distinct products,
and distinct contents distinct checksums.

## 5. Not modelled

* `ReferencePath` is checked with the packer, not inside `AccelSystem`. It is
  given the tile shapes the shell lets through: alone, its scheduler would
  refuse a bad shape only after the buffer has loaded the operands, and the
  buffer would wait in `S_READY` for a `compute_done` that never comes. Its
  `busy` leaves out the latched START, unlike the pipelined branch
  (`tiled_stream_gemm_top.sv:122` against `:66`); the bench starts no job on
  that clock, which the movers' BUSY covers in the shell.
* The ML core beyond the loss of results: once one is lost, nothing further is
  promised of that job.
* The ping-pong banks: no top instantiates them, so no code says how they are
  used. A second `fill_req` while a bank is being filled strands the first
  bank, and with both banks ready the lower one goes first, not the older one;
  whether either matters depends on a user that does not exist.
* Reset in the middle of operation, and `reset_sync`: every model starts from
  reset, none returns to it. Clock gating, synthesis and timing.
* The read multiplexers of the DMA registers, except STATUS; the LiteX bus: the
  register port is taken as at most one access per clock. The bridge of
  `accel_soc.py` drops `reg_wr_resp`; `ReturnExact` shows that `accel_run` has no
  write refused all the same.
* Accumulators are integers. `TypeCorrect` of `ComputeProofs` is the reason 32
  bits are enough. The packer's sum wraps at 32 bits as in the code, its 64-bit
  product is exact; `epilogue()` of the firmware adds in 64 bits, and the runs
  stay where the two agree.
* The legacy driver waits for each response and gives legal lengths. A START
  that is refused for its LEN leaves the DONE of the run before in STATUS;
  `docs/register_map.md:33` does not say whether it should.
* What the demo prints besides its verdict, what it times, and the D-cache
  beyond staleness. Performance counters other than their values at the end of
  a job.
* Testbenches, Python models and training, build scripts, constraints.

## 6. Plan

1. `ReferencePath` as the compute path of `AccelSystem`.
2. Passing properties of the ML core under a sink that never stalls, which is
   how its testbench drives it.
3. Reset in mid-operation of the legacy path and of the DMA path, through
   `reset_sync`.
4. The ping-pong banks, once a top uses them.
