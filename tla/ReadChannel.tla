---------------------------- MODULE ReadChannel ----------------------------
(***************************************************************************)
(* axi4_read_dma between its three neighbours: a shell that starts jobs,   *)
(* an AXI slave that answers bursts (it may stall, answer a beat with an   *)
(* error and, when FaultySlave, put RLAST on the wrong beat) and a stream  *)
(* sink that may stall.                                                    *)
(***************************************************************************)
EXTENDS ReadDma

CONSTANTS Bases, Counts, FaultySlave

ASSUME ReadChannelAssumption ==
  /\ Bases \subseteq 0 .. AddrWords - 1
  /\ Counts \subseteq Nat
  /\ FaultySlave \in BOOLEAN

VARIABLES
  owed,     \* beats of the open burst the slave has still to send
  job,      \* the current or latest job: base and count
  got,      \* words of the job the sink has accepted
  marks,    \* which of them (1..count) came with stream_last
  fault     \* the job met a bad beat

vars == <<rd, owed, job, got, marks, fault>>

Init ==
  /\ rd = Reset
  /\ owed = 0
  /\ job = [base |-> 0, count |-> 0]
  /\ got = 0
  /\ marks = {}
  /\ fault = FALSE

Rest == Idle(FALSE, 0, 0) /\ UNCHANGED <<owed, job, got, marks, fault>>

Begin == \E b \in Bases, n \in Counts :
  /\ Idle(TRUE, b, n)
  /\ job' = [base |-> b, count |-> n]
  /\ got' = 0
  /\ marks' = {}
  /\ fault' = FALSE
  /\ UNCHANGED owed

Request == \E arready \in BOOLEAN :
  /\ Address(arready)
  /\ owed' = IF arready THEN NextBurst ELSE owed
  /\ UNCHANGED <<job, got, marks, fault>>

(* The slave's side of a beat: a burst it ends is over whatever its length. *)
SlaveBeat(rlast) ==
  /\ owed > 0
  /\ FaultySlave \/ (rlast <=> owed = 1)
  /\ owed' = IF rlast THEN 0 ELSE IF owed = 1 THEN 1 ELSE owed - 1

Beat == \E rok, rlast \in BOOLEAN :
  /\ Data(TRUE, rok, rlast, TRUE)
  /\ SlaveBeat(rlast)
  /\ got' = got + 1
  /\ marks' = IF StreamLast(TRUE) THEN marks \cup {got + 1} ELSE marks
  /\ fault' = (fault \/ ~(rok /\ (rlast <=> rd.beats = 1)))
  /\ UNCHANGED job

Stall == \E rvalid, sready \in BOOLEAN :
  /\ ~(rvalid /\ sready)
  /\ Data(rvalid, TRUE, FALSE, sready)
  /\ UNCHANGED <<owed, job, got, marks, fault>>

Discard == \E rvalid, rlast \in BOOLEAN :
  /\ Drain(rvalid, rlast)
  /\ IF rvalid THEN SlaveBeat(rlast) ELSE UNCHANGED owed
  /\ UNCHANGED <<job, got, marks, fault>>

Next == Rest \/ Begin \/ Request \/ Beat \/ Stall \/ Discard

Spec == Init /\ [][Next]_vars

(* The slave accepts an address, answers a burst and ends it, and the sink  *)
(* takes a word, all eventually; nothing is assumed of who starts jobs.     *)
FairSpec ==
  /\ Spec
  /\ WF_vars(Request /\ rd'.state = "R")
  /\ WF_vars(Beat)
  /\ WF_vars(Discard /\ owed' # owed)
  /\ WF_vars(Discard /\ owed' = 0)

-----------------------------------------------------------------------------
Registers ==
  [state : {"IDLE", "AR", "R", "ERROR"}, addr : 0 .. AddrWords - 1, remaining : Nat,
   burst : 0 .. MaxBurst, beats : 0 .. MaxBurst, done : BOOLEAN, error : BOOLEAN]

TypeOK ==
  /\ rd \in Registers
  /\ owed \in 0 .. MaxBurst
  /\ job \in [base : 0 .. AddrWords - 1, count : Nat]
  /\ got \in Nat
  /\ marks \subseteq Nat
  /\ fault \in BOOLEAN

(* A burst on AR has 1..MaxBurst beats and ends in the page it starts in. *)
BurstLegal ==
  ArValid => /\ NextBurst \in 1 .. MaxBurst
             /\ (rd.addr % PageWords) + NextBurst <= PageWords

(* No word is lost or fetched twice: in a job without errors the words the  *)
(* sink has and those the registers still plan to fetch make up the job,    *)
(* and the next burst starts at the first word not yet fetched.             *)
Unread == IF rd.state = "R" THEN rd.remaining - rd.burst + rd.beats ELSE rd.remaining

WordsConserved ==
  ~rd.error =>
    /\ got + Unread = job.count
    /\ ArValid => rd.addr = (job.base + got) % AddrWords

(* stream_last marks the job's last word and no other, and a job that ends  *)
(* without error has delivered it.                                          *)
LastOnFinalWord ==
  /\ marks \subseteq {job.count}
  /\ ~Busy /\ ~rd.error /\ job.count > 0 => marks = {job.count}

(* The mover never goes idle with a read burst open: the next job's words   *)
(* would be the tail of the old burst.                                      *)
NoOrphanBurst == ~Busy => owed = 0

(* When a job ends, error says whether any of its beats was bad. *)
ErrorExact == ~Busy => (rd.error <=> fault)

(* The mover keeps the promises of Mover. *)
Abstract == INSTANCE Mover WITH
  JobSizes <- Counts, StopsOnError <- TRUE,
  moving <- Busy, left <- job.count - got, done <- rd.done, failed <- rd.error

Implements == Abstract!Spec

(* Every job ends, whatever faults the slave injects. *)
JobEnds == Busy ~> ~Busy
=============================================================================
