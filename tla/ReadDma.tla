------------------------------ MODULE ReadDma ------------------------------
(***************************************************************************)
(* axi4_read_dma.sv: one job at a time, cut into INCR bursts and handed on *)
(* as a ready/valid stream.  One step is one clock edge; the parameters of *)
(* an action are the input wires that edge samples.  Addresses count       *)
(* 32-bit words, so a 4 KB page is PageWords and the bus AddrWords long.   *)
(***************************************************************************)
EXTENDS Integers

CONSTANTS MaxBurst, PageWords, AddrWords

ASSUME ReadDmaAssumption ==
  /\ MaxBurst \in Nat \ {0}
  /\ PageWords \in Nat \ {0}
  /\ AddrWords \in Nat \ {0}

VARIABLE rd     \* the mover's registers

Reset == [state |-> "IDLE", addr |-> 0, remaining |-> 0, burst |-> 0,
          beats |-> 0, done |-> FALSE, error |-> FALSE]

(* A definition named Bug... is a plausible wrong form of the definition it *)
(* precedes; nothing here uses it, the mutation runs put it in its place.   *)
BugPageIgnored == AddrWords

(* Beats from addr to the end of its 4 KB page, 1..PageWords. *)
BeatsToPageEnd == PageWords - (rd.addr % PageWords)

BugBurstUncapped ==
  IF rd.remaining > BeatsToPageEnd THEN BeatsToPageEnd ELSE rd.remaining

(* Length of the next burst: what remains, at most MaxBurst, inside the page. *)
NextBurst ==
  LET limit == IF rd.remaining > MaxBurst THEN MaxBurst ELSE rd.remaining
  IN  IF limit > BeatsToPageEnd THEN BeatsToPageEnd ELSE limit

(* Output wires. *)
Busy == rd.state # "IDLE"
ArValid == rd.state = "AR"
RReady(sready) == IF rd.state = "R" THEN sready ELSE rd.state = "ERROR"
StreamValid(rvalid) == rd.state = "R" /\ rvalid
FinalBeat == rd.remaining = rd.burst /\ rd.beats = 1
StreamLast(rvalid) == StreamValid(rvalid) /\ FinalBeat

Hold == [rd EXCEPT !.done = FALSE]
BugSilentFinish == [rd EXCEPT !.state = "IDLE", !.done = FALSE]
Finish == [rd EXCEPT !.state = "IDLE", !.done = TRUE]

Idle(start, base, count) ==
  /\ rd.state = "IDLE"
  /\ rd' = IF ~start THEN Hold
           ELSE [rd EXCEPT !.addr = base, !.remaining = count, !.error = FALSE,
                           !.done = (count = 0),
                           !.state = IF count = 0 THEN "IDLE" ELSE "AR"]

Address(arready) ==
  /\ rd.state = "AR"
  /\ rd' = IF ~arready THEN Hold
           ELSE [rd EXCEPT !.done = FALSE, !.state = "R",
                           !.burst = NextBurst, !.beats = NextBurst]

BugNoDrain(rlast) == [rd EXCEPT !.state = "IDLE", !.done = TRUE, !.error = TRUE]

(* A bad RRESP, or RLAST on the wrong beat: give up, and first drain the rest *)
(* of the burst if the slave has not ended it.                                *)
Fault(rlast) ==
  IF rlast THEN [rd EXCEPT !.state = "IDLE", !.done = TRUE, !.error = TRUE]
           ELSE [rd EXCEPT !.done = FALSE, !.error = TRUE, !.state = "ERROR"]

BugAddressKept == [rd EXCEPT !.done = FALSE, !.remaining = @ - rd.burst, !.state = "AR"]

NextRequest ==
  [rd EXCEPT !.done = FALSE, !.state = "AR", !.remaining = @ - rd.burst,
             !.addr = (@ + rd.burst) % AddrWords]

EndOfBurst ==
  IF rd.remaining = rd.burst
    THEN [rd EXCEPT !.state = "IDLE", !.done = TRUE, !.remaining = 0]
    ELSE NextRequest

BugLastIgnored(rok, rlast) == rok

GoodBeat(rok, rlast) == rok /\ (rlast <=> rd.beats = 1)

Data(rvalid, rok, rlast, sready) ==
  /\ rd.state = "R"
  /\ rd' = IF ~(rvalid /\ sready) THEN Hold
           ELSE IF ~GoodBeat(rok, rlast) THEN Fault(rlast)
           ELSE IF rd.beats = 1 THEN EndOfBurst
           ELSE [rd EXCEPT !.done = FALSE, !.beats = @ - 1]

BugDrainStuck(rvalid, rlast) == rd.state = "ERROR" /\ rd' = Hold

Drain(rvalid, rlast) ==
  /\ rd.state = "ERROR"
  /\ rd' = IF rvalid /\ rlast THEN Finish ELSE Hold
=============================================================================
