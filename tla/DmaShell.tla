------------------------------ MODULE DmaShell -----------------------------
(***************************************************************************)
(* tiled_dma_shell.sv without its movers: admission of a START, the        *)
(* completion flags and the DONE and ERROR events.  e gives the wires of   *)
(* the four engines it watches (movers "A", "B", "C" and the compute path  *)
(* "X"): e[x] = [busy, done, error].                                       *)
(***************************************************************************)
EXTENDS DmaDescriptor

CONSTANTS ArrayN, MaxM, MaxN, MaxK

ASSUME DmaShellAssumption ==
  /\ ArrayN \in Nat \ {0}
  /\ MaxM \in Nat \ {0}
  /\ MaxN \in Nat \ {0}
  /\ MaxK \in Nat \ {0}

VARIABLE shell   \* complete flags, done_reported_q, error_reported_q, reject_q

Engines == {"A", "B", "C", "X"}

ResetShell == [complete |-> [x \in Engines |-> FALSE], doneReported |-> TRUE,
               errorReported |-> FALSE, reject |-> FALSE]

Cfg == desc.cfg
Int8Output == Bit(Cfg["POST_CFG"], 1)
PackedWords(bytes) == (bytes + 3) \div 4
AWords == PackedWords(Cfg["M"] * Cfg["K"])
BWords == PackedWords(Cfg["K"] * Cfg["N"])
CWords == IF Int8Output THEN PackedWords(Cfg["M"] * Cfg["N"]) ELSE Cfg["M"] * Cfg["N"]

DmaBusy(e) == \E x \in Engines : e[x].busy

BugPulsesOnly(e) == \A x \in Engines : e[x].done

AllComplete(e) == \A x \in Engines : shell.complete[x] \/ e[x].done
AnyError(e) == \E x \in Engines : e[x].error

TileOK(t) == t # 0 /\ t <= ArrayN /\ t % 4 = 0
DimOK(d, max) == d # 0 /\ d <= max

(* desc_legal: what a START is checked for before anything moves. *)
Legal ==
  /\ TileOK(Cfg["TILE_M"]) /\ TileOK(Cfg["TILE_N"]) /\ DimOK(Cfg["TILE_K"], MaxK)
  /\ DimOK(Cfg["M"], MaxM) /\ DimOK(Cfg["N"], MaxN) /\ DimOK(Cfg["K"], MaxK)
  /\ \A f \in {"A_BASE", "B_BASE", "C_BASE"} : Cfg[f] % 4 = 0

Start(w, e) == DmaStart(w, DmaBusy(e))
Accept(w, e) == Start(w, e) /\ Legal
Reject(w, e) == Start(w, e) /\ ~Legal

(* The events: a job's completion and its first error, each once. *)
DoneEvent(w, e) == AllComplete(e) /\ ~shell.doneReported /\ ~Start(w, e)

BugRejectSilent(w, e) == AnyError(e) /\ ~shell.errorReported /\ ~Start(w, e)

ErrorEvent(w, e) == (AnyError(e) /\ ~shell.errorReported /\ ~Start(w, e)) \/ shell.reject

BugStaleCompletion(w, e) ==
  [complete      |-> [x \in Engines |-> ~Accept(w, e) /\ (shell.complete[x] \/ e[x].done)],
   doneReported  |-> ~Start(w, e) /\ (shell.doneReported \/ DoneEvent(w, e)),
   errorReported |-> ~Start(w, e) /\ (shell.errorReported \/ AnyError(e)),
   reject        |-> Reject(w, e)]

(* A rejected START must not report a stale completion. *)
ShellNext(w, e) ==
  [complete      |-> [x \in Engines |-> ~Accept(w, e) /\ (shell.complete[x] \/ e[x].done)],
   doneReported  |-> IF Start(w, e) THEN ~Legal ELSE shell.doneReported \/ DoneEvent(w, e),
   errorReported |-> ~Start(w, e) /\ (shell.errorReported \/ AnyError(e)),
   reject        |-> Reject(w, e)]

ShellClock(w, e) ==
  /\ Clock(w, DmaBusy(e), DoneEvent(w, e), ErrorEvent(w, e))
  /\ shell' = ShellNext(w, e)
=============================================================================
