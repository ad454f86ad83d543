------------------------- MODULE WriteChannelProofs ------------------------
(***************************************************************************)
(* The invariants of WriteChannel and its refinement of Mover, for every   *)
(* burst length, page size, bus size and set of jobs.                      *)
(***************************************************************************)
EXTENDS WriteChannel, Arithmetic

Registers ==
  [state : {"IDLE", "AW", "W", "B"}, addr : 0 .. AddrWords - 1, remaining : Nat,
   burst : 0 .. MaxBurst, beats : 0 .. MaxBurst, done : BOOLEAN, error : BOOLEAN]

TypeOK ==
  /\ wr \in Registers
  /\ slave \in [expect : 0 .. MaxBurst, answer : BOOLEAN]
  /\ job \in [base : 0 .. AddrWords - 1, count : Nat]
  /\ sent \in Nat
  /\ fault \in BOOLEAN

(* What each FSM state knows: what the slave still expects or owes, and     *)
(* where in the job the registers stand.                                    *)
KnownIdle ==
  wr.state = "IDLE" =>
    /\ slave.expect = 0 /\ ~slave.answer
    /\ wr.remaining = 0
    /\ sent = job.count

KnownAddress ==
  wr.state = "AW" =>
    /\ slave.expect = 0 /\ ~slave.answer
    /\ ~wr.done
    /\ wr.remaining > 0
    /\ sent + wr.remaining = job.count
    /\ wr.addr = (job.base + sent) % AddrWords

KnownData ==
  wr.state = "W" =>
    /\ slave.expect = wr.beats /\ ~slave.answer
    /\ ~wr.done
    /\ wr.beats \in 1 .. wr.burst
    /\ wr.burst <= wr.remaining
    /\ wr.remaining <= job.count
    /\ sent + wr.remaining - wr.burst + wr.beats = job.count
    /\ wr.addr = (job.base + (job.count - wr.remaining)) % AddrWords

KnownResponse ==
  wr.state = "B" =>
    /\ slave.expect = 0 /\ slave.answer
    /\ ~wr.done
    /\ wr.burst \in 1 .. wr.remaining
    /\ wr.remaining <= job.count
    /\ sent + wr.remaining - wr.burst = job.count
    /\ wr.addr = (job.base + (job.count - wr.remaining)) % AddrWords

Known == KnownIdle /\ KnownAddress /\ KnownData /\ KnownResponse

IInv == TypeOK /\ Known /\ (wr.error <=> fault)

(* The next burst is at least one beat, at most MaxBurst, no more than what *)
(* remains, and ends inside the page.                                       *)
LEMMA NextBurstBounds ==
  ASSUME TypeOK, wr.remaining > 0
  PROVE  /\ NextBurst \in 1 .. MaxBurst
         /\ NextBurst <= wr.remaining
         /\ (wr.addr % PageWords) + NextBurst <= PageWords
<1>1. wr.addr \in Nat /\ wr.remaining \in Nat
  BY WriteDmaAssumption DEF TypeOK, Registers
<1>2. wr.addr % PageWords \in 0 .. PageWords - 1
  BY <1>1, ModuloRange, WriteDmaAssumption
<1>3. QED
  BY <1>1, <1>2, WriteDmaAssumption DEF NextBurst, BeatsToPageEnd

LEMMA RegistersMember ==
  ASSUME NEW s \in {"IDLE", "AW", "W", "B"}, NEW a \in 0 .. AddrWords - 1, NEW r \in Nat,
         NEW b \in 0 .. MaxBurst, NEW n \in 0 .. MaxBurst, NEW d \in BOOLEAN, NEW e \in BOOLEAN
  PROVE  [state |-> s, addr |-> a, remaining |-> r, burst |-> b, beats |-> n,
          done |-> d, error |-> e] \in Registers
  BY DEF Registers

(* The types of what TypeOK speaks of, in the form the steps below use. *)
LEMMA Fields ==
  ASSUME TypeOK
  PROVE  /\ wr = [state |-> wr.state, addr |-> wr.addr, remaining |-> wr.remaining, burst |-> wr.burst,
                  beats |-> wr.beats, done |-> wr.done, error |-> wr.error]
         /\ wr.addr \in 0 .. AddrWords - 1 /\ wr.remaining \in Nat
         /\ wr.burst \in 0 .. MaxBurst /\ wr.beats \in 0 .. MaxBurst
         /\ wr.done \in BOOLEAN /\ wr.error \in BOOLEAN
         /\ slave.expect \in 0 .. MaxBurst /\ slave.answer \in BOOLEAN
         /\ job.base \in Nat /\ job.count \in Nat /\ sent \in Nat /\ fault \in BOOLEAN
         /\ MaxBurst \in Nat \ {0}
  BY WriteDmaAssumption DEF TypeOK, Registers

LEMMA InitIInv == Init => IInv
<1> SUFFICES ASSUME Init PROVE IInv
  OBVIOUS
<1>1. /\ 0 \in 0 .. AddrWords - 1
      /\ 0 \in 0 .. MaxBurst
  BY WriteDmaAssumption
<1>2. TypeOK
  BY <1>1, Zenon DEF Init, Reset, TypeOK, Registers
<1>3. /\ wr.state = "IDLE" /\ wr.error = FALSE /\ wr.remaining = 0
      /\ slave.expect = 0 /\ slave.answer = FALSE
      /\ job.count = 0 /\ sent = 0 /\ fault = FALSE
  BY Zenon DEF Init, Reset
<1>4. Known /\ (wr.error <=> fault)
  BY <1>3 DEF Known, KnownIdle, KnownAddress, KnownData, KnownResponse
<1>5. QED
  BY <1>2, <1>4 DEF IInv

(* A clock on which nothing is transferred clears done and no more. *)
LEMMA HoldIInv ==
  ASSUME IInv, wr' = Hold, UNCHANGED <<slave, job, sent, fault>>
  PROVE  IInv'
<1>1. wr' = [state |-> wr.state, addr |-> wr.addr, remaining |-> wr.remaining,
             burst |-> wr.burst, beats |-> wr.beats, done |-> FALSE, error |-> wr.error]
  BY Fields DEF IInv, Hold
<1>2. TypeOK'
  BY <1>1 DEF IInv, TypeOK, Registers
<1>3. Known' /\ (wr.error <=> fault)'
  BY <1>1 DEF IInv, Known, KnownIdle, KnownAddress, KnownData, KnownResponse
<1>4. QED
  BY <1>2, <1>3 DEF IInv

LEMMA RestIInv == IInv /\ Rest => IInv'
  BY HoldIInv DEF Rest, Idle

LEMMA StallIInv == IInv /\ Stall => IInv'
  BY HoldIInv DEF Stall, Data

LEMMA AwaitIInv == IInv /\ Await => IInv'
  BY HoldIInv DEF Await, Response

LEMMA BeginIInv == IInv /\ Begin => IInv'
<1> SUFFICES ASSUME IInv, NEW b \in Bases, NEW n \in Counts, Idle(TRUE, b, n),
                    job' = [base |-> b, count |-> n], sent' = 0, fault' = FALSE, UNCHANGED slave
             PROVE  IInv'
  BY DEF Begin
<1>1. b \in 0 .. AddrWords - 1 /\ n \in Nat
  BY WriteChannelAssumption
<1>2. /\ wr.state = "IDLE"
      /\ wr' = [state |-> IF n = 0 THEN "IDLE" ELSE "AW", addr |-> b, remaining |-> n,
                burst |-> wr.burst, beats |-> wr.beats, done |-> n = 0, error |-> FALSE]
  BY DEF IInv, TypeOK, Registers, Idle
<1>3. TypeOK'
  BY <1>1, <1>2 DEF IInv, TypeOK, Registers
<1>4. b = (b + 0) % AddrWords
  BY <1>1, WriteDmaAssumption, Z3
<1>5. Known' /\ (wr.error <=> fault)'
  <2>1. /\ wr'.error = FALSE /\ wr'.remaining = n /\ wr'.addr = b /\ (wr'.done <=> n = 0)
        /\ wr'.state = IF n = 0 THEN "IDLE" ELSE "AW"
        /\ job'.count = n /\ job'.base = b /\ slave'.expect = 0 /\ ~slave'.answer
    BY <1>2 DEF IInv, Known, KnownIdle
  <2>2. QED
    BY <1>1, <1>4, <2>1 DEF Known, KnownIdle, KnownAddress, KnownData, KnownResponse
<1>6. QED
  BY <1>3, <1>5 DEF IInv

LEMMA RequestIInv == IInv /\ Request => IInv'
<1> SUFFICES ASSUME IInv, NEW awready \in BOOLEAN, Address(awready),
                    slave' = IF awready THEN [slave EXCEPT !.expect = NextBurst] ELSE slave,
                    UNCHANGED <<job, sent, fault>>
             PROVE  IInv'
  BY DEF Request
<1>1. CASE ~awready
  BY <1>1, HoldIInv DEF Address
<1>2. CASE awready
  <2>1. /\ wr.state = "AW" /\ wr.remaining > 0 /\ ~slave.answer
        /\ sent + wr.remaining = job.count
        /\ wr.addr = (job.base + sent) % AddrWords
    BY DEF Address, IInv, Known, KnownAddress
  <2>2. wr' = [state |-> "W", addr |-> wr.addr, remaining |-> wr.remaining,
               burst |-> NextBurst, beats |-> NextBurst, done |-> FALSE, error |-> wr.error]
    BY <1>2, Fields DEF Address, IInv
  <2>3. NextBurst \in 1 .. MaxBurst /\ NextBurst <= wr.remaining
    BY NextBurstBounds, <2>1 DEF IInv
  <2>4. slave' = [expect |-> NextBurst, answer |-> slave.answer]
    BY <1>2 DEF IInv, TypeOK
  <2>5. TypeOK'
    BY <2>2, <2>3, <2>4 DEF IInv, TypeOK, Registers
  <2>6. sent + wr.remaining - NextBurst + NextBurst = job.count
        /\ job.count - wr.remaining = sent /\ wr.remaining <= job.count
    BY <2>1, <2>3, Fields DEF IInv
  <2>7. Known' /\ (wr.error <=> fault)'
    BY <2>1, <2>2, <2>3, <2>4, <2>6
       DEF IInv, Known, KnownIdle, KnownAddress, KnownData, KnownResponse
  <2>8. QED
    BY <2>5, <2>7 DEF IInv
<1>3. QED
  BY <1>1, <1>2

(* A word of the job: stream_last is wanted with the last one, which the   *)
(* registers and the count of words sent tell alike.                       *)
LEMMA BeatIInv == IInv /\ Beat => IInv'
<1> SUFFICES ASSUME IInv, NEW slast \in BOOLEAN, Data(TRUE, slast, TRUE),
                    slave' = [expect |-> slave.expect - 1, answer |-> slave.expect = 1],
                    sent' = sent + 1,
                    fault' = (fault \/ slast # (sent + 1 = job.count)),
                    UNCHANGED job
             PROVE  IInv'
  BY DEF Beat
<1>1. /\ wr.state = "W" /\ slave.expect = wr.beats
      /\ wr.beats \in 1 .. wr.burst /\ wr.burst <= wr.remaining /\ wr.remaining <= job.count
      /\ sent + wr.remaining - wr.burst + wr.beats = job.count
      /\ wr.addr = (job.base + (job.count - wr.remaining)) % AddrWords
  BY DEF Data, IInv, Known, KnownData
<1>2. FinalBeat <=> sent + 1 = job.count
  BY <1>1, Fields DEF IInv, FinalBeat
<1>3. wr' = [state |-> IF wr.beats = 1 THEN "B" ELSE "W", addr |-> wr.addr, remaining |-> wr.remaining,
             burst |-> wr.burst, beats |-> IF wr.beats = 1 THEN wr.beats ELSE wr.beats - 1,
             done |-> FALSE, error |-> wr.error \/ slast # FinalBeat]
  BY Fields DEF IInv, Data
<1>4. (wr.error <=> fault)' /\ wr'.error \in BOOLEAN /\ fault' \in BOOLEAN
  BY <1>2, <1>3, Fields, Zenon DEF IInv
<1>5. wr.beats - 1 \in 0 .. MaxBurst /\ sent + 1 \in Nat
  BY <1>1, Fields DEF IInv
<1>6. TypeOK'
  <2>1. wr' \in Registers
    BY <1>3, <1>5, Fields, RegistersMember, Zenon DEF IInv
  <2>2. slave' \in [expect : 0 .. MaxBurst, answer : BOOLEAN]
    BY <1>1, <1>5
  <2>3. QED
    BY <1>4, <1>5, <2>1, <2>2, Zenon DEF IInv, TypeOK
<1>7. CASE wr.beats = 1
  <2>1. /\ wr'.state = "B" /\ wr'.remaining = wr.remaining /\ wr'.burst = wr.burst
        /\ wr'.addr = wr.addr /\ wr'.done = FALSE
        /\ slave'.expect = 0 /\ slave'.answer
    <3>1. slave'.expect = 0
      BY <1>1, <1>7
    <3>2. slave'.answer
      BY <1>1, <1>7, Zenon
    <3>3. QED
      BY <1>3, <1>7, <3>1, <3>2, Zenon
  <2>2. wr.burst \in 1 .. wr.remaining /\ sent + 1 + wr.remaining - wr.burst = job.count
    BY <1>1, <1>7, Fields DEF IInv
  <2>3. Known'
    BY <1>1, <2>1, <2>2 DEF Known, KnownIdle, KnownAddress, KnownData, KnownResponse
  <2>4. QED
    BY <1>4, <1>6, <2>3 DEF IInv
<1>8. CASE wr.beats # 1
  <2>1. /\ wr'.state = "W" /\ wr'.remaining = wr.remaining /\ wr'.burst = wr.burst
        /\ wr'.addr = wr.addr /\ wr'.done = FALSE /\ wr'.beats = wr.beats - 1
        /\ slave'.expect = wr.beats - 1 /\ ~slave'.answer
    BY <1>1, <1>3, <1>8
  <2>2. wr.beats - 1 \in 1 .. wr.burst /\ sent + 1 + wr.remaining - wr.burst + (wr.beats - 1) = job.count
    BY <1>1, <1>8, Fields DEF IInv
  <2>3. Known'
    BY <1>1, <2>1, <2>2 DEF Known, KnownIdle, KnownAddress, KnownData, KnownResponse
  <2>4. QED
    BY <1>4, <1>6, <2>3 DEF IInv
<1>9. QED
  BY <1>7, <1>8

(* A response: the job ends with its last burst, or the next request starts *)
(* at the first word not yet written.                                       *)
LEMMA ReplyIInv == IInv /\ Reply => IInv'
<1> SUFFICES ASSUME IInv, NEW bok \in BOOLEAN, Response(TRUE, bok),
                    slave' = [slave EXCEPT !.answer = FALSE],
                    fault' = (fault \/ ~bok),
                    UNCHANGED <<job, sent>>
             PROVE  IInv'
  BY DEF Reply
<1>1. /\ wr.state = "B" /\ slave.expect = 0
      /\ wr.burst \in 1 .. wr.remaining /\ wr.remaining <= job.count
      /\ sent + wr.remaining - wr.burst = job.count
      /\ wr.addr = (job.base + (job.count - wr.remaining)) % AddrWords
  BY DEF Response, IInv, Known, KnownResponse
<1>2. slave' = [expect |-> 0, answer |-> FALSE]
  BY <1>1 DEF IInv, TypeOK
<1>3. fault' \in BOOLEAN /\ 0 \in 0 .. MaxBurst /\ 0 \in Nat
  BY Fields DEF IInv
<1>4. CASE wr.remaining = wr.burst
  <2>1. wr' = [state |-> "IDLE", addr |-> wr.addr, remaining |-> 0, burst |-> wr.burst,
               beats |-> wr.beats, done |-> TRUE, error |-> wr.error \/ ~bok]
    BY <1>4, Fields DEF IInv, Response, Answered, LastAnswered
  <2>2. (wr.error <=> fault)' /\ wr'.error \in BOOLEAN
    BY <2>1, Fields, Zenon DEF IInv
  <2>3. TypeOK'
    <3>1. wr' \in Registers
      BY <1>3, <2>1, <2>2, Fields, RegistersMember, Zenon DEF IInv
    <3>2. QED
      BY <1>2, <1>3, <3>1, Zenon DEF IInv, TypeOK
  <2>4. /\ wr'.state = "IDLE" /\ wr'.remaining = 0 /\ sent = job.count
        /\ slave'.expect = 0 /\ ~slave'.answer
    BY <1>1, <1>2, <1>4, <2>1, Fields DEF IInv
  <2>5. Known'
    BY <2>4 DEF Known, KnownIdle, KnownAddress, KnownData, KnownResponse
  <2>6. QED
    BY <2>2, <2>3, <2>5 DEF IInv
<1>5. CASE wr.remaining # wr.burst
  <2> DEFINE written == job.base + (job.count - wr.remaining)
  <2>1. wr' = [state |-> "AW", addr |-> (wr.addr + wr.burst) % AddrWords,
               remaining |-> wr.remaining - wr.burst, burst |-> wr.burst,
               beats |-> wr.beats, done |-> FALSE, error |-> wr.error \/ ~bok]
    BY <1>5, Fields DEF IInv, Response, Answered, NextRequest
  <2>2. (wr.error <=> fault)' /\ wr'.error \in BOOLEAN
    BY <2>1, Fields, Zenon DEF IInv
  <2>3. /\ wr.remaining - wr.burst \in Nat /\ wr.remaining - wr.burst > 0
        /\ sent + (wr.remaining - wr.burst) = job.count
        /\ written \in Nat /\ wr.burst \in Nat /\ written + wr.burst = job.base + sent
    BY <1>1, <1>5, Fields DEF IInv
  <2>4. (wr.addr + wr.burst) % AddrWords = (job.base + sent) % AddrWords
    <3>1. wr.addr = written % AddrWords
      BY <1>1
    <3> HIDE DEF written
    <3>2. ((written % AddrWords) + wr.burst) % AddrWords = (written + wr.burst) % AddrWords
      BY <2>3, ModuloAdd, WriteDmaAssumption
    <3>3. QED
      BY <2>3, <3>1, <3>2
  <2>5. (wr.addr + wr.burst) % AddrWords \in 0 .. AddrWords - 1
    <3>1. wr.addr + wr.burst \in Nat
      BY Fields DEF IInv
    <3>2. QED
      BY <3>1, ModuloRange, WriteDmaAssumption
  <2>6. TypeOK'
    <3>1. wr' \in Registers
      BY <2>1, <2>2, <2>3, <2>5, Fields, RegistersMember, Zenon DEF IInv
    <3>2. QED
      BY <1>2, <1>3, <3>1, Zenon DEF IInv, TypeOK
  <2>7. /\ wr'.state = "AW" /\ wr'.remaining = wr.remaining - wr.burst
        /\ wr'.addr = (wr.addr + wr.burst) % AddrWords /\ wr'.done = FALSE
        /\ slave'.expect = 0 /\ ~slave'.answer
    BY <1>2, <2>1
  <2>8. Known'
    BY <2>3, <2>4, <2>7 DEF Known, KnownIdle, KnownAddress, KnownData, KnownResponse
  <2>9. QED
    BY <2>2, <2>6, <2>8 DEF IInv
<1>6. QED
  BY <1>4, <1>5

(* Every reachable state satisfies the inductive invariant. *)
THEOREM Inductive == Spec => []IInv
<1>1. IInv /\ UNCHANGED vars => IInv'
  BY DEF vars, IInv, TypeOK, Known, KnownIdle, KnownAddress, KnownData, KnownResponse, Registers
<1>2. IInv /\ [Next]_vars => IInv'
  BY <1>1, RestIInv, BeginIInv, RequestIInv, BeatIInv, StallIInv, ReplyIInv, AwaitIInv DEF Next
<1>3. QED
  BY <1>2, InitIInv, PTL DEF Spec

(* axi4_write_dma's registers keep their widths and its bench its types. *)
THEOREM TypeCorrect == Spec => []TypeOK
<1>1. IInv => TypeOK
  BY DEF IInv
<1>2. QED
  BY <1>1, Inductive, PTL

(* No burst crosses a 4 KB page or exceeds MAX_BURST, for any page size, *)
(* burst limit, bus size and job.                                        *)
THEOREM BurstsAreLegal == Spec => []BurstLegal
<1>1. IInv => BurstLegal
  BY NextBurstBounds DEF IInv, Known, KnownAddress, BurstLegal, AwValid
<1>2. QED
  BY <1>1, Inductive, PTL

(* No word of a job is skipped, repeated or written to the wrong address, *)
(* whatever the responses say.                                            *)
THEOREM WordsAreConserved == Spec => []WordsConserved
<1>1. IInv => WordsConserved
  BY DEF IInv, TypeOK, Registers, Known, KnownIdle, KnownAddress, KnownData, KnownResponse,
         WordsConserved, Unwritten, AwValid
<1>2. QED
  BY <1>1, Inductive, PTL

(* WLAST comes on the beat the slave counts as the last of the burst. *)
THEOREM WLastIsRight == Spec => []WLastAgrees
<1>1. IInv => WLastAgrees
  BY DEF IInv, Known, KnownData, WLastAgrees, WLast
<1>2. QED
  BY <1>1, Inductive, PTL

(* done leaves no beat and no response behind, and error is true to all the *)
(* responses and marks of the job.                                          *)
THEOREM OutcomesAreExact == Spec => []OutcomeExact
<1>1. IInv => OutcomeExact
  BY DEF IInv, TypeOK, Known, KnownIdle, KnownAddress, OutcomeExact, Busy
<1>2. QED
  BY <1>1, Inductive, PTL

-----------------------------------------------------------------------------
(* Refinement of Mover: Rest and Begin are its actions of that name, every  *)
(* other step of the channel is one clock of a job.                         *)
LEMMA Stutters ==
  ASSUME IInv, wr.state # "IDLE", wr' = Hold, UNCHANGED <<slave, job, sent, fault>>
  PROVE  Abstract!Next
<1>1. /\ wr'.state = wr.state /\ wr'.done = FALSE /\ wr'.error = wr.error
  BY Fields DEF IInv, Hold
<1>2. Abstract!Advance
  BY <1>1, Fields DEF IInv, Abstract!Advance, Busy
<1>3. QED
  BY <1>2 DEF Abstract!Next

LEMMA RestImplements == IInv /\ Rest => Abstract!Next
<1> SUFFICES ASSUME IInv, Rest PROVE Abstract!Next
  OBVIOUS
<1>1. wr.state = "IDLE" /\ wr'.state = "IDLE" /\ wr'.done = FALSE /\ wr'.error = wr.error
  BY Fields DEF IInv, Rest, Idle, Hold
<1>2. Abstract!Rest
  BY <1>1, Zenon DEF Rest, Abstract!Rest, Busy
<1>3. QED
  BY <1>2 DEF Abstract!Next

LEMMA BeginImplements == IInv /\ Begin => Abstract!Next
<1> SUFFICES ASSUME IInv, NEW b \in Bases, NEW n \in Counts, Idle(TRUE, b, n),
                    job' = [base |-> b, count |-> n], sent' = 0
             PROVE  Abstract!Next
  BY DEF Begin
<1>1. n \in Nat
  BY WriteChannelAssumption
<1>2. wr.state = "IDLE" /\ wr'.state = (IF n = 0 THEN "IDLE" ELSE "AW")
      /\ wr'.done = (n = 0) /\ wr'.error = FALSE
  BY Fields, Zenon DEF IInv, Idle
<1>3. job'.count - sent' = n
  BY <1>1
<1>4. Abstract!Begin
  BY <1>2, <1>3 DEF Abstract!Begin, Busy
<1>5. QED
  BY <1>4 DEF Abstract!Next

LEMMA RequestImplements == IInv /\ Request => Abstract!Next
<1> SUFFICES ASSUME IInv, NEW awready \in BOOLEAN, Address(awready), UNCHANGED <<job, sent>>
             PROVE  Abstract!Next
  BY DEF Request
<1>1. /\ wr.state = "AW" /\ wr'.state \in {"AW", "W"} /\ wr'.done = FALSE /\ wr'.error = wr.error
  BY Fields DEF IInv, Address, Hold
<1>2. Abstract!Advance
  BY <1>1, Fields DEF IInv, Abstract!Advance, Busy
<1>3. QED
  BY <1>2 DEF Abstract!Next

LEMMA BeatImplements == IInv /\ Beat => Abstract!Next
<1> SUFFICES ASSUME IInv, NEW slast \in BOOLEAN, Data(TRUE, slast, TRUE), sent' = sent + 1, job' = job
             PROVE  Abstract!Next
  BY DEF Beat
<1>1. wr.state = "W" /\ wr'.state \in {"W", "B"} /\ wr'.done = FALSE /\ (wr.error => wr'.error)
  BY Fields, Zenon DEF IInv, Data
<1>2. (job'.count - sent') + 1 = job.count - sent
  BY Fields DEF IInv
<1>3. Abstract!Advance
  BY <1>1, <1>2 DEF Abstract!Advance, Busy
<1>4. QED
  BY <1>3 DEF Abstract!Next

LEMMA ReplyImplements == IInv /\ Reply => Abstract!Next
<1> SUFFICES ASSUME IInv, NEW bok \in BOOLEAN, Response(TRUE, bok), UNCHANGED <<job, sent>>
             PROVE  Abstract!Next
  BY DEF Reply
<1>1. wr.state = "B" /\ sent + wr.remaining - wr.burst = job.count
  BY DEF Response, IInv, Known, KnownResponse
<1>2. CASE wr.remaining = wr.burst
  <2>1. wr'.state = "IDLE" /\ wr'.done = TRUE /\ (wr.error => wr'.error)
    BY <1>1, <1>2, Fields, Zenon DEF IInv, Response, Answered, LastAnswered
  <2>2. job'.count - sent' = job.count - sent /\ job.count - sent = 0
    BY <1>1, <1>2, Fields DEF IInv
  <2>3. Abstract!Advance
    BY <1>1, <2>1, <2>2 DEF Abstract!Advance, Busy
  <2>4. QED
    BY <2>3 DEF Abstract!Next
<1>3. CASE wr.remaining # wr.burst
  <2>1. wr'.state = "AW" /\ wr'.done = FALSE /\ (wr.error => wr'.error)
    BY <1>1, <1>3, Fields, Zenon DEF IInv, Response, Answered, NextRequest
  <2>2. Abstract!Advance
    BY <1>1, <2>1 DEF Abstract!Advance, Busy
  <2>3. QED
    BY <2>2 DEF Abstract!Next
<1>4. QED
  BY <1>2, <1>3

(* axi4_write_dma keeps the promises of Mover: one job at a time, its words *)
(* one by one and all of them, one done pulse at its end.                   *)
THEOREM MoverImplemented == Spec => Implements
<1>1. Init => Abstract!Init
  BY DEF Init, Reset, Abstract!Init, Busy
<1>2. IInv /\ UNCHANGED vars => UNCHANGED Abstract!vars
  BY DEF vars, Abstract!vars, Busy
<1>3. IInv /\ Stall => Abstract!Next
  BY Stutters DEF Stall, Data
<1>4. IInv /\ Await => Abstract!Next
  BY Stutters DEF Await, Response
<1>5. IInv /\ [Next]_vars => [Abstract!Next]_Abstract!vars
  BY <1>2, <1>3, <1>4, RestImplements, BeginImplements, RequestImplements, BeatImplements,
     ReplyImplements DEF Next
<1>6. QED
  BY <1>1, <1>5, Inductive, PTL DEF Spec, Implements, Abstract!Spec
=============================================================================
