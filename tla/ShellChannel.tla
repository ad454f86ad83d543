---------------------------- MODULE ShellChannel ---------------------------
(***************************************************************************)
(* tiled_dma_shell between software that may write any register in any     *)
(* cycle and four engines known only by what Mover promises of them: one   *)
(* done pulse per job, an error level that lasts until the next job.  The  *)
(* compute path needs both operands whole, the C mover needs the result.   *)
(***************************************************************************)
EXTENDS DmaShell

CONSTANTS Writes    \* register writes software may issue

VARIABLES
  eng,     \* the engines' wires
  job      \* the latest START: its verdict, the descriptor it was checked
           \* with, engines at work on it, and the events raised for it

vars == <<desc, shell, eng, job>>

Idle == [en |-> FALSE, reg |-> "CTRL", strb |-> {}, data |-> 0]

EngineWires == [busy : BOOLEAN, done : BOOLEAN, error : BOOLEAN]
Quiet == [busy |-> FALSE, done |-> FALSE, error |-> FALSE]

NoJob == [verdict |-> "none", cfg |-> Reset.cfg, running |-> {}, dones |-> 0,
          errors |-> 0, failed |-> FALSE, doneAcked |-> FALSE, errorAcked |-> FALSE]

Init ==
  /\ desc = Reset
  /\ shell = ResetShell
  /\ eng = [x \in Engines |-> Quiet]
  /\ job = NoJob

Needs(x) == CASE x = "X" -> {"A", "B"} [] x = "C" -> {"X"} [] OTHER -> {}

(* An engine fails only while it works; one that lacks its input never ends, *)
(* and the compute path does not fail.                                       *)
EngineNext(x, accept) ==
  IF accept THEN {[busy |-> TRUE, done |-> FALSE, error |-> FALSE]}
  ELSE IF ~eng[x].busy THEN {[eng[x] EXCEPT !.done = FALSE]}
  ELSE {e \in EngineWires :
          /\ e.done = ~e.busy
          /\ e.busy \/ \A y \in Needs(x) : ~eng[y].busy /\ ~eng[y].error
          /\ eng[x].error => e.error
          /\ x = "X" => e.error = eng[x].error}

Count(n, event) == IF event /\ n < 2 THEN n + 1 ELSE n

JobNext(w) ==
  IF Start(w, eng)
    THEN [NoJob EXCEPT !.verdict = IF Legal THEN "accepted" ELSE "rejected",
                       !.cfg = Cfg, !.running = IF Legal THEN Engines ELSE {}]
    ELSE [job EXCEPT !.running = {x \in @ : eng'[x].busy},
                     !.dones = Count(@, DoneEvent(w, eng)),
                     !.errors = Count(@, ErrorEvent(w, eng)),
                     !.failed = @ \/ \E x \in job.running : eng'[x].error,
                     !.doneAcked = @ \/ (job.dones > 0 /\ ClearsDone(w)),
                     !.errorAcked = @ \/ (job.errors > 0 /\ ClearsError(w))]

Cycle(w) ==
  /\ ShellClock(w, eng)
  /\ \E a \in EngineNext("A", Accept(w, eng)), b \in EngineNext("B", Accept(w, eng)),
        c \in EngineNext("C", Accept(w, eng)), x \in EngineNext("X", Accept(w, eng)) :
       eng' = [y \in Engines |-> CASE y = "A" -> a [] y = "B" -> b [] y = "C" -> c [] y = "X" -> x]
  /\ job' = JobNext(w)

Next == \E w \in Writes \cup {Idle} : Cycle(w)

Spec == Init /\ [][Next]_vars

-----------------------------------------------------------------------------
(* DONE means it: nothing of the job is still under way, BUSY is low, and   *)
(* the START it answers was accepted.                                       *)
DoneMeansOver ==
  desc.done => job.running = {} /\ ~DmaBusy(eng) /\ job.verdict = "accepted"

(* "Each accepted job raises DONE exactly once (and ERROR at most once)":   *)
(* the half of it that holds for every software, at most once each; and an  *)
(* event stays in STATUS until software clears it, even when the clear of   *)
(* an older one meets it, and once cleared stays clear until a START.       *)
EventsExact ==
  /\ job.dones <= 1 /\ job.errors <= 1
  /\ job.dones > 0 => (desc.done <=> ~job.doneAcked)
  /\ job.errors > 0 => (desc.error <=> ~job.errorAcked)

(* A refused START and a job with a failed engine are told to software: a   *)
(* START wipes the flags of the job before, never those of its own.         *)
FailureReported ==
  \/ job.verdict = "rejected" /\ ~shell.reject
  \/ job.failed /\ shell.errorReported
  => job.errors > 0

(* "Each accepted job raises DONE exactly once": the next accepted START    *)
(* finds the previous job reported.                                         *)
Accepted == eng'["C"].busy /\ ~eng["C"].busy
EveryJobReported ==
  [][Accepted /\ job.verdict = "accepted" => job.dones = 1]_vars
=============================================================================
