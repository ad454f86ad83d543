------------------------------ MODULE WriteDma -----------------------------
(***************************************************************************)
(* axi4_write_dma.sv: one job at a time, cut into INCR bursts, each        *)
(* answered by one response before the next is requested.  One step is one *)
(* clock edge; addresses count 32-bit words, as in ReadDma.                *)
(***************************************************************************)
EXTENDS Integers

CONSTANTS MaxBurst, PageWords, AddrWords

ASSUME WriteDmaAssumption ==
  /\ MaxBurst \in Nat \ {0}
  /\ PageWords \in Nat \ {0}
  /\ AddrWords \in Nat \ {0}

VARIABLE wr     \* the mover's registers

Reset == [state |-> "IDLE", addr |-> 0, remaining |-> 0, burst |-> 0,
          beats |-> 0, done |-> FALSE, error |-> FALSE]

BugPageIgnored == AddrWords

(* Beats from addr to the end of its 4 KB page, 1..PageWords. *)
BeatsToPageEnd == PageWords - (wr.addr % PageWords)

(* Length of the next burst: what remains, at most MaxBurst, inside the page. *)
NextBurst ==
  LET limit == IF wr.remaining > MaxBurst THEN MaxBurst ELSE wr.remaining
  IN  IF limit > BeatsToPageEnd THEN BeatsToPageEnd ELSE limit

(* Output wires. *)
Busy == wr.state # "IDLE"
AwValid == wr.state = "AW"
WValid(svalid) == wr.state = "W" /\ svalid
BugWLastOfJob == wr.state = "W" /\ wr.remaining = wr.burst /\ wr.beats = 1
WLast == wr.state = "W" /\ wr.beats = 1
SReady(wready) == wr.state = "W" /\ wready
BReady == wr.state = "B"

Hold == [wr EXCEPT !.done = FALSE]

Idle(start, base, count) ==
  /\ wr.state = "IDLE"
  /\ wr' = IF ~start THEN Hold
           ELSE [wr EXCEPT !.addr = base, !.remaining = count, !.error = FALSE,
                           !.done = (count = 0),
                           !.state = IF count = 0 THEN "IDLE" ELSE "AW"]

Address(awready) ==
  /\ wr.state = "AW"
  /\ wr' = IF ~awready THEN Hold
           ELSE [wr EXCEPT !.done = FALSE, !.state = "W",
                           !.burst = NextBurst, !.beats = NextBurst]

(* stream_last must mark the job's last word: anything else is an error, *)
(* which the job reports but does not stop for.                          *)
FinalBeat == wr.remaining = wr.burst /\ wr.beats = 1

Data(svalid, slast, wready) ==
  /\ wr.state = "W"
  /\ wr' = IF ~(svalid /\ wready) THEN Hold
           ELSE [wr EXCEPT !.done = FALSE, !.error = @ \/ slast # FinalBeat,
                           !.state = IF wr.beats = 1 THEN "B" ELSE "W",
                           !.beats = IF wr.beats = 1 THEN @ ELSE @ - 1]

BugAddressKept(bok) ==
  [wr EXCEPT !.done = FALSE, !.error = @ \/ ~bok, !.state = "AW",
             !.remaining = @ - wr.burst]

NextRequest(bok) ==
  [wr EXCEPT !.done = FALSE, !.error = @ \/ ~bok, !.state = "AW",
             !.remaining = @ - wr.burst, !.addr = (@ + wr.burst) % AddrWords]

LastAnswered(bok) ==
  [wr EXCEPT !.done = TRUE, !.error = @ \/ ~bok, !.state = "IDLE", !.remaining = 0]

BugStopsOnError(bok) ==
  IF ~bok \/ wr.remaining = wr.burst THEN LastAnswered(bok) ELSE NextRequest(bok)

BugResponseStuck(bok) ==
  IF ~bok THEN Hold ELSE IF wr.remaining = wr.burst THEN LastAnswered(bok) ELSE NextRequest(bok)

(* A response ends the burst, whatever it says. *)
Answered(bok) ==
  IF wr.remaining = wr.burst THEN LastAnswered(bok) ELSE NextRequest(bok)

BugNoResponseWait(bvalid, bok) == wr.state = "B" /\ wr' = Answered(bok)

Response(bvalid, bok) ==
  /\ wr.state = "B"
  /\ wr' = IF bvalid THEN Answered(bok) ELSE Hold
=============================================================================
