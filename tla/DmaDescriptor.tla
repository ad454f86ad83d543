--------------------------- MODULE DmaDescriptor ---------------------------
(***************************************************************************)
(* dma_descriptor_ctrl.sv: the registers software programs a job with.     *)
(* One step is one clock edge; w is the write port that edge samples,      *)
(*   [en, reg, strb, data], strb the set of byte lanes written.            *)
(* Registers are named as in docs/dma_register_map.md; any other address   *)
(* is "UNMAPPED", the read-only counters are Counters.                     *)
(***************************************************************************)
EXTENDS Integers

VARIABLE desc    \* irq_en, done_q, error_q and the descriptor fields

Fields == {"A_BASE", "B_BASE", "C_BASE", "M", "N", "K", "TILE_M", "TILE_N", "TILE_K",
           "POST_BIAS", "POST_SCALE", "POST_CFG"}
Counters == {"PERF_ACTIVE", "PERF_MAC_LO", "PERF_MAC_HI", "PERF_TILES"}
Registers == Fields \cup Counters \cup {"CTRL", "STATUS", "UNMAPPED"}

(* The reset descriptor is immediately usable with 4x4x16 tiles. *)
ResetField(f) == CASE f \in {"TILE_M", "TILE_N"} -> 4 [] f = "TILE_K" -> 16 [] OTHER -> 0

Reset == [irqEn |-> FALSE, done |-> FALSE, error |-> FALSE,
          cfg |-> [f \in Fields |-> ResetField(f)]]

Bit(x, i) == (x \div 2^i) % 2 = 1
ByteOf(x, i) == (x \div 256^i) % 256

(* The bytes of new that strb selects, over those of old. *)
Merge(old, new, strb) ==
  LET lane(i) == 256^i * ByteOf(IF i \in strb THEN new ELSE old, i)
  IN  lane(0) + lane(1) + lane(2) + lane(3)

CtrlWrite(w) == w.en /\ w.reg = "CTRL"
StatusWrite(w) == w.en /\ w.reg = "STATUS"
CfgWrite(w) == w.en /\ w.reg \in Fields
Locked(w, busy) == busy /\ CfgWrite(w)

DmaStart(w, busy) == CtrlWrite(w) /\ 0 \in w.strb /\ Bit(w.data, 0) /\ ~busy
DmaAbort(w) == CtrlWrite(w) /\ 0 \in w.strb /\ Bit(w.data, 1)
Irq == desc.irqEn /\ (desc.done \/ desc.error)

WriteResponse(w, busy) ==
  CASE Locked(w, busy) -> "SLVERR"
    [] ~Locked(w, busy) /\ w.en /\ w.reg \notin Fields \cup {"CTRL", "STATUS"} -> "DECERR"
    [] OTHER -> "OKAY"

ClearsDone(w) == StatusWrite(w) /\ 0 \in w.strb /\ Bit(w.data, 1)
ClearsError(w) == StatusWrite(w) /\ 0 \in w.strb /\ Bit(w.data, 2)

BugClearWins(w, start, event, clear, old) == ~start /\ ~clear /\ (event \/ old)

(* START empties a sticky bit, and otherwise an event beats a clear. *)
Sticky(w, start, event, clear, old) == ~start /\ (event \/ (old /\ ~clear))

(* POST_CFG keeps its low byte only. *)
FieldNext(f, w, busy) ==
  IF ~CfgWrite(w) \/ busy \/ w.reg # f THEN desc.cfg[f]
  ELSE IF f = "POST_CFG" THEN Merge(desc.cfg[f], w.data, w.strb \cap {0})
  ELSE Merge(desc.cfg[f], w.data, w.strb)

Clock(w, busy, doneEvent, errorEvent) ==
  desc' = [irqEn |-> IF CtrlWrite(w) /\ 0 \in w.strb THEN Bit(w.data, 2) ELSE desc.irqEn,
           done  |-> Sticky(w, DmaStart(w, busy), doneEvent, ClearsDone(w), desc.done),
           error |-> Sticky(w, DmaStart(w, busy), errorEvent, ClearsError(w), desc.error),
           cfg   |-> [f \in Fields |-> FieldNext(f, w, busy)]]

(* What a read of STATUS returns this cycle. *)
Status(busy) == [busy |-> busy, done |-> desc.done, error |-> desc.error]
=============================================================================
