------------------------- MODULE ReadChannelProofs -------------------------
(***************************************************************************)
(* The invariants of ReadChannel, for every burst length, page size, bus   *)
(* size and set of jobs.                                                   *)
(***************************************************************************)
EXTENDS ReadChannel, Arithmetic

(* What each FSM state knows.  The invariants proper speak of AR and IDLE; *)
(* they are inductive only with what R and ERROR know in between.          *)
KnownIdle ==
  rd.state = "IDLE" =>
    /\ owed = 0
    /\ (rd.error <=> fault)
    /\ ~rd.error => got = job.count /\ rd.remaining = 0
    /\ ~rd.error /\ job.count > 0 => marks = {job.count}

KnownAddress ==
  rd.state = "AR" =>
    /\ owed = 0
    /\ ~rd.error /\ ~fault
    /\ rd.remaining > 0
    /\ got + rd.remaining = job.count
    /\ rd.addr = (job.base + got) % AddrWords
    /\ marks = {}

KnownData ==
  rd.state = "R" =>
    /\ owed = rd.beats
    /\ ~rd.error /\ ~fault
    /\ rd.beats \in 1 .. rd.burst
    /\ rd.burst <= rd.remaining
    /\ rd.remaining <= job.count
    /\ got + rd.remaining - rd.burst + rd.beats = job.count
    /\ rd.addr = (job.base + (job.count - rd.remaining)) % AddrWords
    /\ marks = {}

KnownError == rd.state = "ERROR" => owed > 0 /\ rd.error /\ fault

Known == KnownIdle /\ KnownAddress /\ KnownData /\ KnownError

IInv == TypeOK /\ Known /\ marks \subseteq {job.count}

(* The next burst is at least one beat, at most MaxBurst, no more than what *)
(* remains, and ends inside the page.                                       *)
LEMMA NextBurstBounds ==
  ASSUME TypeOK, rd.remaining > 0
  PROVE  /\ NextBurst \in 1 .. MaxBurst
         /\ NextBurst <= rd.remaining
         /\ (rd.addr % PageWords) + NextBurst <= PageWords
<1>1. rd.addr \in Nat /\ rd.remaining \in Nat
  BY ReadDmaAssumption DEF TypeOK, Registers
<1>2. rd.addr % PageWords \in 0 .. PageWords - 1
  BY <1>1, ModuloRange, ReadDmaAssumption
<1>3. QED
  BY <1>1, <1>2, ReadDmaAssumption DEF NextBurst, BeatsToPageEnd

LEMMA RegistersMember ==
  ASSUME NEW s \in {"IDLE", "AR", "R", "ERROR"}, NEW a \in 0 .. AddrWords - 1, NEW r \in Nat,
         NEW b \in 0 .. MaxBurst, NEW n \in 0 .. MaxBurst, NEW d \in BOOLEAN, NEW e \in BOOLEAN
  PROVE  [state |-> s, addr |-> a, remaining |-> r, burst |-> b, beats |-> n,
          done |-> d, error |-> e] \in Registers
  BY DEF Registers

LEMMA InitIInv == Init => IInv
<1> SUFFICES ASSUME Init PROVE IInv
  OBVIOUS
<1>1. /\ 0 \in 0 .. AddrWords - 1
      /\ 0 \in 0 .. MaxBurst
  BY ReadDmaAssumption
<1>2. TypeOK
  BY <1>1, Zenon DEF Init, Reset, TypeOK, Registers
<1>3. /\ rd.state = "IDLE" /\ rd.error = FALSE /\ rd.remaining = 0
      /\ owed = 0 /\ job.count = 0 /\ got = 0 /\ marks = {} /\ fault = FALSE
  BY Zenon DEF Init, Reset
<1>4. Known /\ marks \subseteq {job.count}
  BY <1>3 DEF Known, KnownIdle, KnownAddress, KnownData, KnownError
<1>5. QED
  BY <1>2, <1>4 DEF IInv

LEMMA RestIInv == IInv /\ Rest => IInv'
<1> SUFFICES ASSUME IInv, Rest PROVE IInv'
  OBVIOUS
<1>1. /\ rd.state = "IDLE"
      /\ rd' = [state |-> "IDLE", addr |-> rd.addr, remaining |-> rd.remaining,
                burst |-> rd.burst, beats |-> rd.beats, done |-> FALSE, error |-> rd.error]
  BY DEF IInv, TypeOK, Registers, Rest, Idle, Hold, Registers
<1>2. TypeOK'
  BY <1>1 DEF IInv, TypeOK, Registers, Rest
<1>3. Known' /\ (marks \subseteq {job.count})'
  BY <1>1 DEF IInv, Rest, Known, KnownIdle, KnownAddress, KnownData, KnownError
<1>4. QED
  BY <1>2, <1>3 DEF IInv

LEMMA BeginIInv == IInv /\ Begin => IInv'
<1> SUFFICES ASSUME IInv, NEW b \in Bases, NEW n \in Counts, Idle(TRUE, b, n),
                    job' = [base |-> b, count |-> n], got' = 0, marks' = {},
                    fault' = FALSE, UNCHANGED owed
             PROVE  IInv'
  BY DEF Begin
<1>1. b \in 0 .. AddrWords - 1 /\ n \in Nat
  BY ReadChannelAssumption
<1>2. /\ rd.state = "IDLE"
      /\ rd' = [state |-> IF n = 0 THEN "IDLE" ELSE "AR", addr |-> b, remaining |-> n,
                burst |-> rd.burst, beats |-> rd.beats, done |-> n = 0, error |-> FALSE]
  BY DEF IInv, TypeOK, Registers, Idle
<1>3. TypeOK'
  BY <1>1, <1>2 DEF IInv, TypeOK, Registers
<1>4. b = (b + 0) % AddrWords
  BY <1>1, ReadDmaAssumption, Z3
<1>5. Known' /\ (marks \subseteq {job.count})'
  <2>1. /\ rd'.error = FALSE /\ rd'.remaining = n /\ rd'.addr = b
        /\ rd'.state = IF n = 0 THEN "IDLE" ELSE "AR"
        /\ job'.count = n /\ job'.base = b /\ owed' = 0
    BY <1>2 DEF IInv, Known, KnownIdle
  <2>2. QED
    BY <1>1, <1>4, <2>1 DEF Known, KnownIdle, KnownAddress, KnownData, KnownError
<1>6. QED
  BY <1>3, <1>5 DEF IInv

LEMMA RequestIInv == IInv /\ Request => IInv'
<1> SUFFICES ASSUME IInv, NEW arready \in BOOLEAN, Address(arready),
                    owed' = IF arready THEN NextBurst ELSE owed,
                    UNCHANGED <<job, got, marks, fault>>
             PROVE  IInv'
  BY DEF Request
<1> USE DEF IInv, TypeOK, Registers, Known, KnownIdle, KnownAddress, KnownData, KnownError
<1>1. CASE ~arready
  <2>1. /\ rd.state = "AR"
        /\ rd' = [state |-> "AR", addr |-> rd.addr, remaining |-> rd.remaining,
                  burst |-> rd.burst, beats |-> rd.beats, done |-> FALSE, error |-> rd.error]
    BY <1>1 DEF Address, Hold
  <2>2. QED
    BY <2>1, <1>1
<1>2. CASE arready
  <2>1. rd.state = "AR" /\ rd.remaining > 0
    BY DEF Address
  <2>2. rd' = [state |-> "R", addr |-> rd.addr, remaining |-> rd.remaining,
               burst |-> NextBurst, beats |-> NextBurst, done |-> FALSE, error |-> rd.error]
    BY <1>2 DEF Address
  <2>3. NextBurst \in 1 .. MaxBurst /\ NextBurst <= rd.remaining
    BY NextBurstBounds, <2>1
  <2>4. got + rd.remaining - NextBurst + NextBurst = job.count
        /\ job.count - rd.remaining = got
        /\ rd.remaining <= job.count
    BY <2>1, <2>3
  <2>5. QED
    BY <1>2, <2>1, <2>2, <2>3, <2>4
<1>3. QED
  BY <1>1, <1>2

LEMMA StallIInv == IInv /\ Stall => IInv'
<1> SUFFICES ASSUME IInv, NEW rvalid \in BOOLEAN, NEW sready \in BOOLEAN,
                    ~(rvalid /\ sready), Data(rvalid, TRUE, FALSE, sready),
                    UNCHANGED <<owed, job, got, marks, fault>>
             PROVE  IInv'
  BY DEF Stall
<1>1. /\ rd.state = "R"
      /\ rd' = [state |-> "R", addr |-> rd.addr, remaining |-> rd.remaining,
                burst |-> rd.burst, beats |-> rd.beats, done |-> FALSE, error |-> rd.error]
  BY DEF IInv, TypeOK, Registers, Data, Hold
<1>2. TypeOK'
  BY <1>1 DEF IInv, TypeOK, Registers
<1>3. Known' /\ (marks \subseteq {job.count})'
  BY <1>1 DEF IInv, Known, KnownIdle, KnownAddress, KnownData, KnownError
<1>4. QED
  BY <1>2, <1>3 DEF IInv

LEMMA DiscardIInv == IInv /\ Discard => IInv'
<1> SUFFICES ASSUME IInv, NEW rvalid \in BOOLEAN, NEW rlast \in BOOLEAN,
                    Drain(rvalid, rlast),
                    IF rvalid THEN SlaveBeat(rlast) ELSE UNCHANGED owed,
                    UNCHANGED <<job, got, marks, fault>>
             PROVE  IInv'
  BY DEF Discard
<1>1. rd.state = "ERROR" /\ owed > 0 /\ rd.error /\ fault
  BY DEF Drain, IInv, Known, KnownError
<1>2. CASE rvalid /\ rlast
  <2>1. rd' = [state |-> "IDLE", addr |-> rd.addr, remaining |-> rd.remaining,
               burst |-> rd.burst, beats |-> rd.beats, done |-> TRUE, error |-> rd.error]
    BY <1>2, <1>1 DEF Drain, Finish, IInv, TypeOK, Registers
  <2>2. owed' = 0
    BY <1>2 DEF SlaveBeat
  <2>3. TypeOK'
    BY <2>1, <2>2, ReadDmaAssumption DEF IInv, TypeOK, Registers
  <2>4. Known' /\ (marks \subseteq {job.count})'
    BY <1>1, <2>1, <2>2 DEF IInv, Known, KnownIdle, KnownAddress, KnownData, KnownError
  <2>5. QED
    BY <2>3, <2>4 DEF IInv
<1>3. CASE ~(rvalid /\ rlast)
  <2>1. rd' = [state |-> "ERROR", addr |-> rd.addr, remaining |-> rd.remaining,
               burst |-> rd.burst, beats |-> rd.beats, done |-> FALSE, error |-> rd.error]
    BY <1>3, <1>1 DEF Drain, Hold, IInv, TypeOK, Registers
  <2>2. owed' > 0 /\ owed' \in 0 .. MaxBurst
    BY <1>1, <1>3, ReadDmaAssumption DEF SlaveBeat, IInv, TypeOK, Registers
  <2>3. TypeOK'
    BY <2>1, <2>2 DEF IInv, TypeOK, Registers
  <2>4. Known' /\ (marks \subseteq {job.count})'
    BY <1>1, <2>1, <2>2 DEF IInv, Known, KnownIdle, KnownAddress, KnownData, KnownError
  <2>5. QED
    BY <2>3, <2>4 DEF IInv
<1>4. QED
  BY <1>2, <1>3

(* A beat taken from the slave, by what EndOfBurst and Fault distinguish. *)
LEMMA BeatIInv == IInv /\ Beat => IInv'
<1> SUFFICES ASSUME IInv, NEW rok \in BOOLEAN, NEW rlast \in BOOLEAN,
                    Data(TRUE, rok, rlast, TRUE), SlaveBeat(rlast),
                    got' = got + 1,
                    marks' = IF StreamLast(TRUE) THEN marks \cup {got + 1} ELSE marks,
                    fault' = (fault \/ ~(rok /\ (rlast <=> rd.beats = 1))),
                    UNCHANGED job
             PROVE  IInv'
  BY DEF Beat
<1> DEFINE good == GoodBeat(rok, rlast)
<1>1. /\ rd.state = "R" /\ owed = rd.beats /\ ~rd.error /\ ~fault
      /\ rd.beats \in 1 .. rd.burst /\ rd.burst <= rd.remaining /\ rd.remaining <= job.count
      /\ got + rd.remaining - rd.burst + rd.beats = job.count
      /\ rd.addr = (job.base + (job.count - rd.remaining)) % AddrWords
      /\ marks = {}
  BY DEF Data, IInv, Known, KnownData
<1>2. /\ rd.remaining \in Nat /\ rd.burst \in 0 .. MaxBurst /\ rd.beats \in 1 .. MaxBurst
      /\ rd.addr \in 0 .. AddrWords - 1 /\ job.count \in Nat /\ job.base \in Nat
      /\ got \in Nat /\ owed \in 1 .. MaxBurst
  BY <1>1, ReadDmaAssumption DEF IInv, TypeOK, Registers
<1>2a. /\ rd.error \in BOOLEAN /\ 0 \in 0 .. MaxBurst /\ 0 \in Nat
       /\ rd.beats \in 0 .. MaxBurst /\ MaxBurst \in Nat /\ 1 .. MaxBurst \subseteq 0 .. MaxBurst
  BY <1>2, ReadDmaAssumption DEF IInv, TypeOK, Registers
<1>3. /\ job' = job /\ job' \in [base : 0 .. AddrWords - 1, count : Nat]
      /\ got' \in Nat
  BY <1>2 DEF IInv, TypeOK, Registers
<1>4. fault' \in BOOLEAN /\ (fault' <=> ~good)
  <2>1. fault' <=> ~(rok /\ (rlast <=> rd.beats = 1))
    BY <1>1, Zenon
  <2>2. fault' \in BOOLEAN
    BY Zenon DEF IInv, TypeOK, Registers
  <2>3. QED
    BY <2>1, <2>2, Zenon DEF GoodBeat
<1>5. /\ StreamLast(TRUE) => marks' = {job.count}
      /\ ~StreamLast(TRUE) => marks' = {}
  <2>1. StreamLast(TRUE) => got + 1 = job.count
    BY <1>1, <1>2 DEF StreamLast, FinalBeat
  <2>2. QED
    BY <1>1, <2>1, Zenon
<1>6. marks' \subseteq {job'.count} /\ marks' \subseteq Nat
  BY <1>2, <1>3, <1>5, Zenon
<1>7. CASE ~good /\ rlast
  <2>1. rd' = [state |-> "IDLE", addr |-> rd.addr, remaining |-> rd.remaining,
               burst |-> rd.burst, beats |-> rd.beats, done |-> TRUE, error |-> TRUE]
    BY <1>1, <1>7 DEF Data, Fault, IInv, TypeOK, Registers
  <2>2. owed' = 0
    BY <1>1, <1>2, <1>7 DEF SlaveBeat
  <2>3. TypeOK'
    <3>1. rd' \in Registers
      BY <1>2, <1>2a, <2>1, RegistersMember, Zenon
    <3>2. owed' \in 0 .. MaxBurst
      BY <1>2, <1>2a, <2>2
    <3>3. QED
      BY <1>3, <1>4, <1>6, <3>1, <3>2, Zenon DEF TypeOK
  <2>4. rd'.state = "IDLE" /\ (rd'.error <=> TRUE) /\ (fault' <=> TRUE)
    BY <1>4, <1>7, <2>1
  <2>5. Known'
    BY <2>2, <2>4 DEF Known, KnownIdle, KnownAddress, KnownData, KnownError
  <2>6. QED
    BY <1>6, <2>3, <2>5 DEF IInv
<1>8. CASE ~good /\ ~rlast
  <2>1. rd' = [state |-> "ERROR", addr |-> rd.addr, remaining |-> rd.remaining,
               burst |-> rd.burst, beats |-> rd.beats, done |-> FALSE, error |-> TRUE]
    BY <1>1, <1>8 DEF Data, Fault, IInv, TypeOK, Registers
  <2>2. owed' \in 1 .. MaxBurst
    BY <1>1, <1>2, <1>2a, <1>8 DEF SlaveBeat
  <2>3. TypeOK'
    <3>1. rd' \in Registers
      BY <1>2, <1>2a, <2>1, RegistersMember, Zenon
    <3>2. owed' \in 0 .. MaxBurst
      BY <1>2, <1>2a, <2>2
    <3>3. QED
      BY <1>3, <1>4, <1>6, <3>1, <3>2, Zenon DEF TypeOK
  <2>4. rd'.state = "ERROR" /\ (rd'.error <=> TRUE) /\ (fault' <=> TRUE)
    BY <1>4, <1>8, <2>1
  <2>5. Known'
    BY <2>2, <2>4 DEF Known, KnownIdle, KnownAddress, KnownData, KnownError
  <2>6. QED
    BY <1>6, <2>3, <2>5 DEF IInv
<1>9. good => owed' = rd.beats - 1
  <2>1. good => (rlast <=> owed = 1)
    BY <1>1 DEF GoodBeat
  <2>2. QED
    BY <1>1, <1>2, <2>1 DEF SlaveBeat
<1>10. CASE good /\ rd.beats = 1 /\ rd.remaining = rd.burst
  <2>1. rd' = [state |-> "IDLE", addr |-> rd.addr, remaining |-> 0,
               burst |-> rd.burst, beats |-> rd.beats, done |-> TRUE, error |-> rd.error]
    BY <1>1, <1>10 DEF Data, EndOfBurst, IInv, TypeOK, Registers
  <2>2. owed' = 0 /\ got' = job.count /\ marks' = {job.count}
    BY <1>1, <1>2, <1>5, <1>9, <1>10 DEF StreamLast, StreamValid, FinalBeat
  <2>3. TypeOK'
    <3>1. rd' \in Registers
      BY <1>2, <1>2a, <2>1, RegistersMember, Zenon
    <3>2. owed' \in 0 .. MaxBurst
      BY <1>2, <1>2a, <2>2
    <3>3. QED
      BY <1>3, <1>4, <1>6, <3>1, <3>2, Zenon DEF TypeOK
  <2>4. /\ rd'.state = "IDLE" /\ rd'.remaining = 0
        /\ (rd'.error <=> FALSE) /\ (fault' <=> FALSE)
    BY <1>1, <1>4, <1>10, <2>1
  <2>5. Known'
    BY <1>3, <2>2, <2>4 DEF Known, KnownIdle, KnownAddress, KnownData, KnownError
  <2>6. QED
    BY <1>6, <2>3, <2>5 DEF IInv
<1>11. CASE good /\ rd.beats = 1 /\ rd.remaining # rd.burst
  <2>1. rd' = [state |-> "AR", addr |-> (rd.addr + rd.burst) % AddrWords, remaining |-> rd.remaining - rd.burst,
               burst |-> rd.burst, beats |-> rd.beats, done |-> FALSE, error |-> rd.error]
    BY <1>1, <1>11 DEF Data, EndOfBurst, NextRequest, IInv, TypeOK, Registers
  <2>2. owed' = 0 /\ marks' = {}
    BY <1>1, <1>2, <1>5, <1>9, <1>11 DEF StreamLast, StreamValid, FinalBeat
  <2>3. /\ rd.remaining - rd.burst \in Nat /\ rd.remaining - rd.burst > 0
        /\ got' + (rd.remaining - rd.burst) = job.count
    BY <1>1, <1>2, <1>11
  <2>4. (rd.addr + rd.burst) % AddrWords = (job.base + got') % AddrWords
    <3> DEFINE fetched == job.base + (job.count - rd.remaining)
    <3>1. fetched \in Nat /\ rd.burst \in Nat /\ rd.addr = fetched % AddrWords
      BY <1>1, <1>2
    <3>2. fetched + rd.burst = job.base + got'
      BY <1>1, <1>2, <1>11
    <3> HIDE DEF fetched
    <3>3. ((fetched % AddrWords) + rd.burst) % AddrWords = (fetched + rd.burst) % AddrWords
      BY <3>1, ModuloAdd, ReadDmaAssumption
    <3>4. QED
      BY <3>1, <3>2, <3>3
  <2>5. (rd.addr + rd.burst) % AddrWords \in 0 .. AddrWords - 1
    <3>1. rd.addr + rd.burst \in Nat
      BY <1>2
    <3>2. QED
      BY <3>1, ModuloRange, ReadDmaAssumption
  <2>6. TypeOK'
    <3>1. rd' \in Registers
      BY <1>2, <1>2a, <2>1, <2>3, <2>5, RegistersMember, Zenon
    <3>2. owed' \in 0 .. MaxBurst
      BY <1>2, <1>2a, <2>2
    <3>3. QED
      BY <1>3, <1>4, <1>6, <3>1, <3>2, Zenon DEF TypeOK
  <2>7. /\ rd'.state = "AR" /\ rd'.remaining = rd.remaining - rd.burst
        /\ rd'.addr = (rd.addr + rd.burst) % AddrWords
        /\ (rd'.error <=> FALSE) /\ (fault' <=> FALSE)
    BY <1>1, <1>4, <1>11, <2>1
  <2>8. Known'
    BY <1>3, <2>2, <2>3, <2>4, <2>7 DEF Known, KnownIdle, KnownAddress, KnownData, KnownError
  <2>9. QED
    BY <1>6, <2>6, <2>8 DEF IInv
<1>12. CASE good /\ rd.beats # 1
  <2>1. rd' = [state |-> "R", addr |-> rd.addr, remaining |-> rd.remaining,
               burst |-> rd.burst, beats |-> rd.beats - 1, done |-> FALSE, error |-> rd.error]
    BY <1>1, <1>12 DEF Data, IInv, TypeOK, Registers
  <2>2. marks' = {} /\ rd.beats - 1 \in 1 .. rd.burst /\ rd.beats - 1 \in 1 .. MaxBurst
    <3>1. ~StreamLast(TRUE)
      BY <1>12 DEF StreamLast, FinalBeat
    <3>2. rd.beats - 1 \in 1 .. rd.burst /\ rd.beats - 1 \in 1 .. MaxBurst
      BY <1>1, <1>2, <1>2a, <1>12
    <3>3. QED
      BY <1>5, <3>1, <3>2
  <2>3. got' + rd.remaining - rd.burst + (rd.beats - 1) = job.count
    BY <1>1, <1>2
  <2>4. TypeOK'
    <3>1. rd' \in Registers
      BY <1>2, <1>2a, <2>1, <2>2, RegistersMember, Zenon
    <3>2. owed' \in 0 .. MaxBurst
      BY <1>2, <1>2a, <1>9, <1>12, <2>2
    <3>3. QED
      BY <1>3, <1>4, <1>6, <3>1, <3>2, Zenon DEF TypeOK
  <2>5. /\ rd'.state = "R" /\ rd'.remaining = rd.remaining /\ rd'.burst = rd.burst
        /\ rd'.addr = rd.addr /\ rd'.beats = rd.beats - 1
        /\ (rd'.error <=> FALSE) /\ (fault' <=> FALSE)
    BY <1>1, <1>4, <1>12, <2>1
  <2>6. Known'
    BY <1>1, <1>3, <1>9, <1>12, <2>2, <2>3, <2>5
       DEF Known, KnownIdle, KnownAddress, KnownData, KnownError
  <2>7. QED
    BY <1>6, <2>4, <2>6 DEF IInv
<1>13. QED
  BY <1>7, <1>8, <1>10, <1>11, <1>12

(* Every reachable state satisfies the inductive invariant. *)
THEOREM Inductive == Spec => []IInv
<1>1. IInv /\ UNCHANGED vars => IInv'
  BY DEF vars, IInv, TypeOK, Known, KnownIdle, KnownAddress, KnownData, KnownError, Registers
<1>2. IInv /\ [Next]_vars => IInv'
  BY <1>1, RestIInv, BeginIInv, RequestIInv, BeatIInv, StallIInv, DiscardIInv DEF Next
<1>3. QED
  BY <1>2, InitIInv, PTL DEF Spec

(* axi4_read_dma's registers keep their widths and its bench its types. *)
THEOREM TypeCorrect == Spec => []TypeOK
<1>1. IInv => TypeOK
  BY DEF IInv
<1>2. QED
  BY <1>1, Inductive, PTL

(* No burst crosses a 4 KB page or exceeds MAX_BURST, for any page size, *)
(* burst limit, bus size and job.                                        *)
THEOREM BurstsAreLegal == Spec => []BurstLegal
<1>1. IInv => BurstLegal
  BY NextBurstBounds DEF IInv, Known, KnownAddress, BurstLegal, ArValid
<1>2. QED
  BY <1>1, Inductive, PTL

(* No word of a job without errors is lost, repeated or fetched from the *)
(* wrong address.                                                        *)
THEOREM WordsAreConserved == Spec => []WordsConserved
<1>1. IInv => WordsConserved
  BY DEF IInv, TypeOK, Registers, Known, KnownIdle, KnownAddress, KnownData, KnownError,
         WordsConserved, Unread, ArValid
<1>2. QED
  BY <1>1, Inductive, PTL

(* stream_last marks the last word of a job and only that word. *)
THEOREM LastIsFinalWord == Spec => []LastOnFinalWord
<1>1. IInv => LastOnFinalWord
  BY DEF IInv, Known, KnownIdle, LastOnFinalWord, Busy
<1>2. QED
  BY <1>1, Inductive, PTL

(* The mover is idle only when the slave owes it nothing. *)
THEOREM NoBurstIsOrphaned == Spec => []NoOrphanBurst
<1>1. IInv => NoOrphanBurst
  BY DEF IInv, Known, KnownIdle, NoOrphanBurst, Busy
<1>2. QED
  BY <1>1, Inductive, PTL

(* A finished job reports an error exactly when it met a bad beat. *)
THEOREM ErrorsAreExact == Spec => []ErrorExact
<1>1. IInv => ErrorExact
  BY DEF IInv, Known, KnownIdle, ErrorExact, Busy
<1>2. QED
  BY <1>1, Inductive, PTL

-----------------------------------------------------------------------------
(* Refinement of Mover: Rest and Begin are its actions of that name, every  *)
(* other step of the channel is one clock of a job.                         *)
LEMMA RestImplements == IInv /\ Rest => Abstract!Next
<1> SUFFICES ASSUME IInv, Rest PROVE Abstract!Next
  OBVIOUS
<1>1. rd.state = "IDLE" /\ rd'.state = "IDLE" /\ rd'.done = FALSE /\ rd'.error = rd.error
  BY DEF IInv, TypeOK, Registers, Rest, Idle, Hold
<1>2. Abstract!Rest
  BY <1>1, Zenon DEF Rest, Abstract!Rest, Busy
<1>3. QED
  BY <1>2 DEF Abstract!Next

LEMMA BeginImplements == IInv /\ Begin => Abstract!Next
<1> SUFFICES ASSUME IInv, NEW b \in Bases, NEW n \in Counts, Idle(TRUE, b, n),
                    job' = [base |-> b, count |-> n], got' = 0
             PROVE  Abstract!Next
  BY DEF Begin
<1>1. n \in Nat
  BY ReadChannelAssumption
<1>2. rd.state = "IDLE" /\ rd'.state = (IF n = 0 THEN "IDLE" ELSE "AR")
      /\ rd'.done = (n = 0) /\ rd'.error = FALSE
  BY Zenon DEF IInv, TypeOK, Registers, Idle
<1>3. job'.count - got' = n
  BY <1>1
<1>4. Abstract!Begin
  BY <1>2, <1>3 DEF Abstract!Begin, Busy
<1>5. QED
  BY <1>4 DEF Abstract!Next

LEMMA RequestImplements == IInv /\ Request => Abstract!Next
<1> SUFFICES ASSUME IInv, NEW arready \in BOOLEAN, Address(arready), UNCHANGED <<job, got>>
             PROVE  Abstract!Next
  BY DEF Request
<1>1. /\ rd.state = "AR" /\ rd'.state \in {"AR", "R"} /\ rd'.done = FALSE /\ rd'.error = rd.error
  BY DEF IInv, TypeOK, Registers, Address, Hold
<1>2. Abstract!Advance
  BY <1>1 DEF IInv, Abstract!Advance, Busy
<1>3. QED
  BY <1>2 DEF Abstract!Next

LEMMA StallImplements == IInv /\ Stall => Abstract!Next
<1> SUFFICES ASSUME IInv, Stall PROVE Abstract!Next
  OBVIOUS
<1>1. /\ rd.state = "R" /\ rd'.state = "R" /\ rd'.done = FALSE /\ rd'.error = rd.error
  BY DEF IInv, TypeOK, Registers, Stall, Data, Hold
<1>2. Abstract!Advance
  BY <1>1 DEF IInv, Stall, Abstract!Advance, Busy
<1>3. QED
  BY <1>2 DEF Abstract!Next

(* A beat passes a word whether it is good or not, but only in a job with   *)
(* no error yet; the beat that ends the job well is its last word.          *)
LEMMA BeatImplements == IInv /\ IInv' /\ Beat => Abstract!Next
<1> SUFFICES ASSUME IInv, IInv', NEW rok \in BOOLEAN, NEW rlast \in BOOLEAN,
                    Data(TRUE, rok, rlast, TRUE), got' = got + 1, job' = job
             PROVE  Abstract!Next
  BY DEF Beat
<1>1. /\ rd.state = "R" /\ ~rd.error
      /\ rd.done \in BOOLEAN /\ rd.error \in BOOLEAN
  BY DEF Data, IInv, TypeOK, Registers, Known, KnownData
<1>2. rd'.done = (rd'.state = "IDLE")
  BY <1>1, Zenon DEF IInv, TypeOK, Registers, Data, Fault, EndOfBurst, NextRequest
<1>3. (job'.count - got') + 1 = job.count - got
  BY DEF IInv, TypeOK
<1>4. rd'.state = "IDLE" => rd'.error \/ job'.count - got' = 0
  BY DEF IInv, TypeOK, Known, KnownIdle
<1>5. Abstract!Advance
  BY <1>1, <1>2, <1>3, <1>4 DEF Abstract!Advance, Busy
<1>6. QED
  BY <1>5 DEF Abstract!Next

LEMMA DiscardImplements == IInv /\ Discard => Abstract!Next
<1> SUFFICES ASSUME IInv, NEW rvalid \in BOOLEAN, NEW rlast \in BOOLEAN,
                    Drain(rvalid, rlast), UNCHANGED <<job, got>>
             PROVE  Abstract!Next
  BY DEF Discard
<1>1. /\ rd.state = "ERROR" /\ rd.error /\ rd'.error = rd.error
      /\ rd'.state \in {"ERROR", "IDLE"} /\ rd'.done = (rd'.state = "IDLE")
  BY Zenon DEF IInv, TypeOK, Registers, Known, KnownError, Drain, Finish, Hold
<1>2. Abstract!Advance
  BY <1>1 DEF IInv, Abstract!Advance, Busy
<1>3. QED
  BY <1>2 DEF Abstract!Next

(* axi4_read_dma keeps the promises of Mover: one job at a time, its words  *)
(* one by one, nothing after an error, one done pulse at its end.           *)
THEOREM MoverImplemented == Spec => Implements
<1>1. Init => Abstract!Init
  BY DEF Init, Reset, Abstract!Init, Busy
<1>2. UNCHANGED vars => UNCHANGED Abstract!vars
  BY DEF vars, Abstract!vars, Busy
<1>3. IInv /\ IInv' /\ [Next]_vars => [Abstract!Next]_Abstract!vars
  BY <1>2, RestImplements, BeginImplements, RequestImplements, BeatImplements,
     StallImplements, DiscardImplements DEF Next
<1>4. QED
  BY <1>1, <1>3, Inductive, PTL DEF Spec, Implements, Abstract!Spec
=============================================================================
