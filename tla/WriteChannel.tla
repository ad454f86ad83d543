---------------------------- MODULE WriteChannel ---------------------------
(***************************************************************************)
(* axi4_write_dma between its three neighbours: a shell that starts jobs,  *)
(* a stream source (it may stall and, when FaultySource, put stream_last   *)
(* on the wrong word) and an AXI slave that may stall and may answer a     *)
(* burst with an error.                                                    *)
(***************************************************************************)
EXTENDS WriteDma

CONSTANTS Bases, Counts, FaultySource

ASSUME WriteChannelAssumption ==
  /\ Bases \subseteq 0 .. AddrWords - 1
  /\ Counts \subseteq Nat
  /\ FaultySource \in BOOLEAN

VARIABLES
  slave,    \* the slave: beats of the open burst to come, response to give
  job,      \* the current or latest job: base and count
  sent,     \* words of the job the slave has taken
  fault     \* the job met a misplaced stream_last or a bad response

vars == <<wr, slave, job, sent, fault>>

Init ==
  /\ wr = Reset
  /\ slave = [expect |-> 0, answer |-> FALSE]
  /\ job = [base |-> 0, count |-> 0]
  /\ sent = 0
  /\ fault = FALSE

Rest == Idle(FALSE, 0, 0) /\ UNCHANGED <<slave, job, sent, fault>>

Begin == \E b \in Bases, n \in Counts :
  /\ Idle(TRUE, b, n)
  /\ job' = [base |-> b, count |-> n]
  /\ sent' = 0
  /\ fault' = FALSE
  /\ UNCHANGED slave

Request == \E awready \in BOOLEAN :
  /\ Address(awready)
  /\ slave' = IF awready THEN [slave EXCEPT !.expect = NextBurst] ELSE slave
  /\ UNCHANGED <<job, sent, fault>>

(* The slave counts beats from AWLEN and answers after the last of them. *)
Beat == \E slast \in BOOLEAN :
  /\ FaultySource \/ slast = (sent + 1 = job.count)
  /\ Data(TRUE, slast, TRUE)
  /\ slave' = [expect |-> slave.expect - 1, answer |-> slave.expect = 1]
  /\ sent' = sent + 1
  /\ fault' = (fault \/ slast # (sent + 1 = job.count))
  /\ UNCHANGED job

Stall == \E svalid, wready \in BOOLEAN :
  /\ ~(svalid /\ wready)
  /\ Data(svalid, FALSE, wready)
  /\ UNCHANGED <<slave, job, sent, fault>>

Reply == \E bok \in BOOLEAN :
  /\ slave.answer
  /\ Response(TRUE, bok)
  /\ slave' = [slave EXCEPT !.answer = FALSE]
  /\ fault' = (fault \/ ~bok)
  /\ UNCHANGED <<job, sent>>

Await == Response(FALSE, TRUE) /\ UNCHANGED <<slave, job, sent, fault>>

Next == Rest \/ Begin \/ Request \/ Beat \/ Stall \/ Reply \/ Await

Spec == Init /\ [][Next]_vars

(* The slave accepts an address and gives each response, the source offers *)
(* a word and the slave takes it, all eventually.                          *)
FairSpec ==
  /\ Spec
  /\ WF_vars(Request /\ wr'.state = "W")
  /\ WF_vars(Beat)
  /\ WF_vars(Reply)

-----------------------------------------------------------------------------
(* A burst on AW has 1..MaxBurst beats and ends in the page it starts in. *)
BurstLegal ==
  AwValid => /\ NextBurst \in 1 .. MaxBurst
             /\ (wr.addr % PageWords) + NextBurst <= PageWords

(* WLAST comes on the beat the slave counts as the burst's last, no other. *)
WLastAgrees == wr.state = "W" => WLast = (slave.expect = 1)

(* No word is skipped or written twice, errors or not: the words written   *)
(* and those the registers still plan to write make up the job, and a      *)
(* burst starts at the first word not yet written.                         *)
Unwritten == CASE wr.state = "W" -> wr.remaining - wr.burst + wr.beats
               [] wr.state = "B" -> wr.remaining - wr.burst
               [] OTHER          -> wr.remaining

WordsConserved ==
  /\ sent + Unwritten = job.count
  /\ AwValid => wr.addr = (job.base + sent) % AddrWords

(* The mover never goes idle, or on to another burst, owing the slave beats *)
(* or with a response it has not taken: done means C is in memory, and then *)
(* error says whether any response was bad or stream_last was missing or    *)
(* misplaced.                                                               *)
OutcomeExact ==
  /\ wr.state \in {"IDLE", "AW"} => slave = [expect |-> 0, answer |-> FALSE]
  /\ ~Busy => (wr.error <=> fault)

(* The mover keeps the promises of Mover, and unlike the reader it passes   *)
(* every word of a job that fails.                                          *)
Abstract == INSTANCE Mover WITH
  JobSizes <- Counts, StopsOnError <- FALSE,
  moving <- Busy, left <- job.count - sent, done <- wr.done, failed <- wr.error

Implements == Abstract!Spec

(* Every job ends, whatever errors it meets. *)
JobEnds == Busy ~> ~Busy
=============================================================================
