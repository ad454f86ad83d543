--------------------------- MODULE FirmwareProofs ---------------------------
(***************************************************************************)
(* First the events of tiled_dma_shell, for every set of register writes,  *)
(* every bound on shapes and any engines that keep the promise of          *)
(* ShellChannel.  Then accel_run() and main() of soc/firmware/main.c on    *)
(* that shell: what a call that has returned says of its job, that no job  *)
(* is started before the last one has been reported, that every job of     *)
(* main() stays inside its arrays, and that the verdict main() prints is   *)
(* the truth about all of them; for every array and shape bound, any other *)
(* caller, any number of jobs that go wrong.  What the shell keeps for any *)
(* software, IInv, it keeps for this one.                                  *)
(***************************************************************************)
EXTENDS DemoFirmware, Arithmetic

(* The descriptor is opaque here: only its legality matters. *)
TypeOK ==
  /\ desc.done \in BOOLEAN /\ desc.error \in BOOLEAN
  /\ shell.complete \in [Engines -> BOOLEAN]
  /\ shell.doneReported \in BOOLEAN /\ shell.errorReported \in BOOLEAN /\ shell.reject \in BOOLEAN
  /\ eng \in [Engines -> EngineWires]
  /\ job \in [verdict : {"none", "accepted", "rejected"}, cfg : {job.cfg}, running : SUBSET Engines,
              dones : 0 .. 1, errors : 0 .. 1, failed : BOOLEAN,
              doneAcked : BOOLEAN, errorAcked : BOOLEAN]

(* Engines work only for an accepted START, and stop one by one. *)
Working ==
  /\ job.running = {x \in Engines : eng[x].busy}
  /\ job.verdict # "accepted" => job.running = {} /\ ~job.failed

(* An engine of an accepted job either works or has left its completion. *)
Completion ==
  job.verdict = "accepted" =>
    \A x \in Engines : eng[x].busy <=> ~(shell.complete[x] \/ eng[x].done)

(* done_reported_q stands for the one DONE of an accepted job, and blocks *)
(* any DONE of a refused one; DONE shows only what has been reported.     *)
DoneCounted ==
  /\ job.verdict = "accepted" => (job.dones = 1 <=> shell.doneReported)
  /\ job.verdict # "accepted" => shell.doneReported /\ job.dones = 0
  /\ job.dones = 0 => ~job.doneAcked
  /\ desc.done <=> job.dones = 1 /\ ~job.doneAcked
  /\ job.dones = 1 => job.running = {}

(* error_reported_q stands for the one ERROR of an accepted job; a refused  *)
(* START has its ERROR one clock later, and none of an old error level.     *)
ErrorCounted ==
  /\ job.verdict = "none" => job.errors = 0 /\ ~shell.reject /\ ~AnyError(eng)
  /\ job.verdict = "accepted" => ~shell.reject /\ (job.errors = 1 <=> shell.errorReported)
  /\ job.verdict = "rejected" =>
       /\ job.errors = 0 <=> shell.reject
       /\ ~shell.reject /\ AnyError(eng) => shell.errorReported
  /\ job.errors = 0 => ~job.errorAcked
  /\ desc.error <=> job.errors = 1 /\ ~job.errorAcked

IInv == TypeOK /\ Working /\ Completion /\ DoneCounted /\ ErrorCounted

(* What one clock may make of an engine. *)
LEMMA EngineFacts ==
  ASSUME TypeOK, NEW x \in Engines, NEW a \in BOOLEAN, NEW e, e \in EngineNext(x, a)
  PROVE  /\ e \in EngineWires
         /\ a => e.busy /\ ~e.done /\ ~e.error
         /\ ~a /\ ~eng[x].busy => ~e.busy /\ ~e.done /\ (e.error <=> eng[x].error)
         /\ ~a /\ eng[x].busy => (e.done <=> ~e.busy) /\ (eng[x].error => e.error)
<1>1. eng[x] \in EngineWires
  BY DEF TypeOK
<1>2. CASE a
  <2>1. e = [busy |-> TRUE, done |-> FALSE, error |-> FALSE]
    BY <1>2 DEF EngineNext
  <2>2. QED
    BY <1>2, <2>1, Zenon DEF EngineWires
<1>3. CASE ~a /\ ~eng[x].busy
  <2>1. e = [eng[x] EXCEPT !.done = FALSE]
    BY <1>3 DEF EngineNext
  <2>2. e = [busy |-> eng[x].busy, done |-> FALSE, error |-> eng[x].error]
    BY <1>1, <2>1 DEF EngineWires
  <2>3. QED
    BY <1>1, <1>3, <2>2, Zenon DEF EngineWires
<1>4. CASE ~a /\ eng[x].busy
  BY <1>4 DEF EngineNext
<1>5. QED
  BY <1>2, <1>3, <1>4

LEMMA EngineStep ==
  ASSUME NEW w, Cycle(w), NEW x \in Engines
  PROVE  eng'[x] \in EngineNext(x, Accept(w, eng))
<1>1. PICK a \in EngineNext("A", Accept(w, eng)), b \in EngineNext("B", Accept(w, eng)),
           c \in EngineNext("C", Accept(w, eng)), d \in EngineNext("X", Accept(w, eng)) :
         eng' = [y \in Engines |-> CASE y = "A" -> a [] y = "B" -> b [] y = "C" -> c [] y = "X" -> d]
  BY Zenon DEF Cycle
<1>2. eng'[x] = CASE x = "A" -> a [] x = "B" -> b [] x = "C" -> c [] x = "X" -> d
  BY <1>1, Zenon
<1>3. x = "A" \/ x = "B" \/ x = "C" \/ x = "X"
  BY DEF Engines
<1>4. QED
  BY <1>2, <1>3

(* The registers after a clock, as equivalences. *)
LEMMA ShellStep ==
  ASSUME TypeOK, NEW w, Cycle(w)
  PROVE  /\ \A x \in Engines :
              shell'.complete[x] <=> ~Accept(w, eng) /\ (shell.complete[x] \/ eng[x].done)
         /\ shell'.complete \in [Engines -> BOOLEAN]
         /\ shell'.doneReported <=>
              IF Start(w, eng) THEN ~Legal ELSE shell.doneReported \/ DoneEvent(w, eng)
         /\ shell'.errorReported <=>
              ~Start(w, eng) /\ (shell.errorReported \/ AnyError(eng))
         /\ shell'.reject <=> Reject(w, eng)
         /\ shell'.doneReported \in BOOLEAN
         /\ shell'.errorReported \in BOOLEAN /\ shell'.reject \in BOOLEAN
<1>1. shell' = ShellNext(w, eng)
  BY DEF Cycle, ShellClock
<1>2. /\ shell'.complete = [x \in Engines |-> ~Accept(w, eng) /\ (shell.complete[x] \/ eng[x].done)]
      /\ shell'.doneReported =
           IF Start(w, eng) THEN ~Legal ELSE shell.doneReported \/ DoneEvent(w, eng)
      /\ shell'.errorReported = (~Start(w, eng) /\ (shell.errorReported \/ AnyError(eng)))
      /\ shell'.reject = Reject(w, eng)
  BY <1>1, Zenon DEF ShellNext
<1>3. Legal \in BOOLEAN /\ DoneEvent(w, eng) \in BOOLEAN /\ Reject(w, eng) \in BOOLEAN
  BY Zenon DEF Legal, DoneEvent, Reject
<1>4. QED
  BY <1>2, <1>3, Zenon DEF TypeOK

LEMMA DescStep ==
  ASSUME NEW w, Cycle(w)
  PROVE  /\ desc'.done <=> ~Start(w, eng) /\ (DoneEvent(w, eng) \/ (desc.done /\ ~ClearsDone(w)))
         /\ desc'.error <=> ~Start(w, eng) /\ (ErrorEvent(w, eng) \/ (desc.error /\ ~ClearsError(w)))
         /\ desc'.done \in BOOLEAN /\ desc'.error \in BOOLEAN
<1>1. Clock(w, DmaBusy(eng), DoneEvent(w, eng), ErrorEvent(w, eng))
  BY DEF Cycle, ShellClock
<1>2. /\ desc'.done = Sticky(w, Start(w, eng), DoneEvent(w, eng), ClearsDone(w), desc.done)
      /\ desc'.error = Sticky(w, Start(w, eng), ErrorEvent(w, eng), ClearsError(w), desc.error)
  BY <1>1, Zenon DEF Clock, Start
<1>3. QED
  BY <1>2, Zenon DEF Sticky

(* The account of the job after a clock that brings no START. *)
LEMMA JobStep ==
  ASSUME TypeOK, NEW w, Cycle(w), ~Start(w, eng)
  PROVE  /\ job'.verdict = job.verdict
         /\ job'.running = {x \in job.running : eng'[x].busy}
         /\ job'.dones = Count(job.dones, DoneEvent(w, eng))
         /\ job'.errors = Count(job.errors, ErrorEvent(w, eng))
         /\ job'.failed <=> job.failed \/ \E x \in job.running : eng'[x].error
         /\ job'.doneAcked <=> job.doneAcked \/ (job.dones > 0 /\ ClearsDone(w))
         /\ job'.errorAcked <=> job.errorAcked \/ (job.errors > 0 /\ ClearsError(w))
         /\ job' = [verdict |-> job'.verdict, cfg |-> job'.cfg, running |-> job'.running,
                    dones |-> job'.dones, errors |-> job'.errors, failed |-> job'.failed,
                    doneAcked |-> job'.doneAcked, errorAcked |-> job'.errorAcked]
         /\ job'.failed \in BOOLEAN /\ job'.doneAcked \in BOOLEAN /\ job'.errorAcked \in BOOLEAN
<1> DEFINE failed == job.failed \/ \E x \in job.running : eng'[x].error
           doneAcked == job.doneAcked \/ (job.dones > 0 /\ ClearsDone(w))
           errorAcked == job.errorAcked \/ (job.errors > 0 /\ ClearsError(w))
<1>1. job' = [job EXCEPT !.running = {x \in @ : eng'[x].busy},
                         !.dones = Count(@, DoneEvent(w, eng)),
                         !.errors = Count(@, ErrorEvent(w, eng)),
                         !.failed = failed, !.doneAcked = doneAcked, !.errorAcked = errorAcked]
  BY Zenon DEF Cycle, JobNext
<1>2. failed \in BOOLEAN /\ doneAcked \in BOOLEAN /\ errorAcked \in BOOLEAN
  BY Zenon DEF TypeOK
<1>3. job = [verdict |-> job.verdict, cfg |-> job.cfg, running |-> job.running,
             dones |-> job.dones, errors |-> job.errors, failed |-> job.failed,
             doneAcked |-> job.doneAcked, errorAcked |-> job.errorAcked]
  BY Zenon DEF TypeOK
<1> HIDE DEF failed, doneAcked, errorAcked
<1>4. job' = [verdict |-> job.verdict, cfg |-> job.cfg,
              running |-> {x \in job.running : eng'[x].busy},
              dones |-> Count(job.dones, DoneEvent(w, eng)),
              errors |-> Count(job.errors, ErrorEvent(w, eng)),
              failed |-> failed, doneAcked |-> doneAcked, errorAcked |-> errorAcked]
  BY <1>1, <1>3, Zenon
<1>5. QED
  BY <1>2, <1>4, Zenon DEF failed, doneAcked, errorAcked

LEMMA StartStep ==
  ASSUME NEW w, Cycle(w), Start(w, eng)
  PROVE  job' = [verdict |-> IF Legal THEN "accepted" ELSE "rejected", cfg |-> Cfg,
                 running |-> IF Legal THEN Engines ELSE {}, dones |-> 0, errors |-> 0,
                 failed |-> FALSE, doneAcked |-> FALSE, errorAcked |-> FALSE]
<1>1. job' = [NoJob EXCEPT !.verdict = IF Legal THEN "accepted" ELSE "rejected",
                           !.cfg = Cfg, !.running = IF Legal THEN Engines ELSE {}]
  BY Zenon DEF Cycle, JobNext
<1>2. QED
  BY <1>1 DEF NoJob

LEMMA InitIInv == Init => IInv
<1> SUFFICES ASSUME Init PROVE IInv
  OBVIOUS
<1>1. /\ desc.done = FALSE /\ desc.error = FALSE
      /\ shell = ResetShell /\ eng = [x \in Engines |-> Quiet] /\ job = NoJob
  BY Zenon DEF Init, Reset
<1>2. /\ \A x \in Engines : eng[x] = Quiet
      /\ Quiet.busy = FALSE /\ Quiet.error = FALSE
      /\ Quiet \in EngineWires
  BY <1>1, Zenon DEF Quiet, EngineWires
<1>3. ~AnyError(eng)
  BY <1>2 DEF AnyError
<1>4. TypeOK
  <2>1. job \in [verdict : {"none", "accepted", "rejected"}, cfg : {job.cfg}, running : SUBSET Engines,
                 dones : 0 .. 1, errors : 0 .. 1, failed : BOOLEAN,
                 doneAcked : BOOLEAN, errorAcked : BOOLEAN]
    <3>1. 0 \in 0 .. 1 /\ {} \in SUBSET Engines
      OBVIOUS
    <3>2. QED
      BY <1>1, <3>1, Zenon DEF NoJob
  <2>2. shell.complete \in [Engines -> BOOLEAN] /\ eng \in [Engines -> EngineWires]
    BY <1>1, <1>2, Zenon DEF ResetShell
  <2>3. QED
    BY <1>1, <2>1, <2>2, Zenon DEF TypeOK, ResetShell
<1>5. Working /\ Completion /\ DoneCounted /\ ErrorCounted
  BY <1>1, <1>2, <1>3 DEF Working, Completion, DoneCounted, ErrorCounted, ResetShell, NoJob
<1>6. QED
  BY <1>4, <1>5 DEF IInv

(* The engines keep their types, and only an accepted START makes one busy. *)
LEMMA EnginesStep ==
  ASSUME TypeOK, NEW w, Cycle(w)
  PROVE  /\ eng' \in [Engines -> EngineWires]
         /\ \A x \in Engines :
              /\ Accept(w, eng) => eng'[x].busy /\ ~eng'[x].done /\ ~eng'[x].error
              /\ ~Accept(w, eng) /\ ~eng[x].busy =>
                   ~eng'[x].busy /\ ~eng'[x].done /\ (eng'[x].error <=> eng[x].error)
              /\ ~Accept(w, eng) /\ eng[x].busy =>
                   (eng'[x].done <=> ~eng'[x].busy) /\ (eng[x].error => eng'[x].error)
<1>1. Accept(w, eng) \in BOOLEAN
  BY Zenon DEF Accept
<1>2. \A x \in Engines : eng'[x] \in EngineNext(x, Accept(w, eng))
  BY EngineStep
<1>3. eng' = [x \in Engines |-> eng'[x]]
  BY Zenon DEF Cycle
<1>4. QED
  BY <1>1, <1>2, <1>3, EngineFacts, Zenon

(* A START finds every engine idle: its job begins with nothing to report, *)
(* or, refused, with one ERROR to come.                                    *)
LEMMA StartIInv ==
  ASSUME IInv, NEW w, Cycle(w), Start(w, eng)
  PROVE  IInv'
<1>1. \A x \in Engines : ~eng[x].busy
  BY DEF Start, DmaStart, DmaBusy
<1>2. Accept(w, eng) <=> Legal
  BY DEF Accept
<1>3. /\ desc'.done = FALSE /\ desc'.error = FALSE
      /\ desc'.done \in BOOLEAN /\ desc'.error \in BOOLEAN
  BY DescStep, Zenon
<1>4. /\ shell'.doneReported <=> ~Legal
      /\ shell'.errorReported <=> FALSE
      /\ shell'.reject <=> ~Legal
  BY ShellStep, Zenon DEF IInv, Reject
<1>5. /\ job'.running = (IF Legal THEN Engines ELSE {})
      /\ job'.verdict = (IF Legal THEN "accepted" ELSE "rejected")
      /\ job'.dones = 0 /\ job'.errors = 0
      /\ job'.failed = FALSE /\ job'.doneAcked = FALSE /\ job'.errorAcked = FALSE
  BY StartStep
<1>6. TypeOK'
  <2>1. job' \in [verdict : {"none", "accepted", "rejected"}, cfg : {job'.cfg}, running : SUBSET Engines,
                  dones : 0 .. 1, errors : 0 .. 1, failed : BOOLEAN,
                  doneAcked : BOOLEAN, errorAcked : BOOLEAN]
    <3> DEFINE verdict == IF Legal THEN "accepted" ELSE "rejected"
               running == IF Legal THEN Engines ELSE {}
    <3>1. job' = [verdict |-> verdict, cfg |-> Cfg, running |-> running, dones |-> 0, errors |-> 0,
                  failed |-> FALSE, doneAcked |-> FALSE, errorAcked |-> FALSE]
      BY StartStep
    <3>2. verdict \in {"none", "accepted", "rejected"} /\ running \in SUBSET Engines /\ 0 \in 0 .. 1
      OBVIOUS
    <3> HIDE DEF verdict, running
    <3>3. job'.cfg = Cfg
      BY <3>1
    <3>4. QED
      BY <3>1, <3>2, <3>3, Zenon
  <2>2. QED
    BY <1>3, <2>1, ShellStep, EnginesStep, Zenon DEF IInv, TypeOK
<1>7. CASE Legal
  <2>1. \A x \in Engines :
          /\ eng'[x].busy /\ ~eng'[x].done /\ ~eng'[x].error
          /\ ~shell'.complete[x]
    BY <1>2, <1>7, EnginesStep, ShellStep, Zenon DEF IInv
  <2>2. Working' /\ Completion' /\ DoneCounted' /\ ErrorCounted'
    BY <1>3, <1>4, <1>5, <1>7, <2>1 DEF Working, Completion, DoneCounted, ErrorCounted
  <2>3. QED
    BY <1>6, <2>2 DEF IInv
<1>8. CASE ~Legal
  <2>1. \A x \in Engines : ~eng'[x].busy
    BY <1>1, <1>2, <1>8, EnginesStep, Zenon DEF IInv
  <2>2. Working' /\ Completion' /\ DoneCounted' /\ ErrorCounted'
    BY <1>3, <1>4, <1>5, <1>8, <2>1 DEF Working, Completion, DoneCounted, ErrorCounted
  <2>3. QED
    BY <1>6, <2>2 DEF IInv
<1>9. QED
  BY <1>7, <1>8

(* DONE is raised only with every engine of an accepted job at rest. *)
LEMMA DoneEventMeans ==
  ASSUME IInv, NEW w, DoneEvent(w, eng)
  PROVE  /\ job.verdict = "accepted" /\ job.dones = 0 /\ ~job.doneAcked
         /\ \A x \in Engines : ~eng[x].busy
<1>1. ~shell.doneReported /\ \A x \in Engines : shell.complete[x] \/ eng[x].done
  BY DEF DoneEvent, AllComplete
<1>2. job.verdict = "accepted"
  BY <1>1 DEF IInv, TypeOK, DoneCounted
<1>3. job.dones = 0
  BY <1>1, <1>2 DEF IInv, TypeOK, DoneCounted
<1>4. QED
  BY <1>1, <1>2, <1>3 DEF IInv, DoneCounted, Completion

(* ERROR is raised only once for a job, and never for none. *)
LEMMA ErrorEventMeans ==
  ASSUME IInv, NEW w, ErrorEvent(w, eng)
  PROVE  job.errors = 0 /\ ~job.errorAcked
<1>1. shell.reject \/ (AnyError(eng) /\ ~shell.errorReported)
  BY DEF ErrorEvent
<1>2. job.verdict \in {"none", "accepted", "rejected"} /\ job.errors \in 0 .. 1
  BY DEF IInv, TypeOK
<1>3. job.errors = 0
  BY <1>1, <1>2 DEF IInv, ErrorCounted
<1>4. QED
  BY <1>3 DEF IInv, ErrorCounted

LEMMA ContinueIInv ==
  ASSUME IInv, NEW w, Cycle(w), ~Start(w, eng)
  PROVE  IInv'
<1>0. TypeOK
  BY DEF IInv
<1>1. ~Accept(w, eng) /\ ~Reject(w, eng)
  BY DEF Accept, Reject
<1>2. \A x \in Engines :
        /\ ~eng[x].busy => ~eng'[x].busy /\ ~eng'[x].done /\ (eng'[x].error <=> eng[x].error)
        /\ eng[x].busy => (eng'[x].done <=> ~eng'[x].busy) /\ (eng[x].error => eng'[x].error)
        /\ shell'.complete[x] <=> shell.complete[x] \/ eng[x].done
  BY <1>0, <1>1, EnginesStep, ShellStep, Zenon
<1>3. /\ shell'.doneReported <=> shell.doneReported \/ DoneEvent(w, eng)
      /\ shell'.errorReported <=> shell.errorReported \/ AnyError(eng)
      /\ ~shell'.reject
  BY <1>0, <1>1, ShellStep, Zenon
<1>4. /\ desc'.done <=> DoneEvent(w, eng) \/ (desc.done /\ ~ClearsDone(w))
      /\ desc'.error <=> ErrorEvent(w, eng) \/ (desc.error /\ ~ClearsError(w))
  BY DescStep, Zenon
<1>5. /\ job'.dones = IF DoneEvent(w, eng) THEN 1 ELSE job.dones
      /\ job'.errors = IF ErrorEvent(w, eng) THEN 1 ELSE job.errors
  BY <1>0, JobStep, DoneEventMeans, ErrorEventMeans DEF Count
<1>6. TypeOK'
  <2>1. job'.running \in SUBSET Engines /\ job'.dones \in 0 .. 1 /\ job'.errors \in 0 .. 1
        /\ job'.verdict \in {"none", "accepted", "rejected"}
    BY <1>0, <1>5, JobStep DEF TypeOK
  <2>2. job' \in [verdict : {"none", "accepted", "rejected"}, cfg : {job'.cfg}, running : SUBSET Engines,
                  dones : 0 .. 1, errors : 0 .. 1, failed : BOOLEAN,
                  doneAcked : BOOLEAN, errorAcked : BOOLEAN]
    BY <1>0, <2>1, JobStep
  <2>3. QED
    BY <1>0, <2>2, DescStep, ShellStep, EnginesStep, Zenon DEF TypeOK
<1>7. Working'
  <2>1. job'.running = {x \in Engines : eng'[x].busy}
    BY <1>0, <1>2, JobStep DEF IInv, Working
  <2>2. job.verdict # "accepted" => job'.running = {} /\ ~job'.failed
    BY <1>0, JobStep DEF IInv, Working
  <2>3. QED
    BY <1>0, <2>1, <2>2, JobStep DEF Working
<1>8. Completion'
  BY <1>0, <1>2, JobStep DEF IInv, Completion
<1>9. DoneCounted'
  <2>1. job'.verdict = job.verdict
        /\ (job'.doneAcked <=> job.doneAcked \/ (job.dones > 0 /\ ClearsDone(w)))
        /\ job'.running \subseteq job.running
    BY <1>0, JobStep
  <2>2. CASE DoneEvent(w, eng)
    <3>1. job.verdict = "accepted" /\ job.dones = 0 /\ ~job.doneAcked /\ job.running = {}
      BY <2>2, DoneEventMeans DEF IInv, Working
    <3>2. QED
      BY <1>3, <1>4, <1>5, <2>1, <2>2, <3>1 DEF DoneCounted
  <2>3. CASE ~DoneEvent(w, eng)
    <3>1. job'.dones = job.dones /\ (desc'.done <=> desc.done /\ ~ClearsDone(w))
          /\ (shell'.doneReported <=> shell.doneReported)
      BY <1>3, <1>4, <1>5, <2>3
    <3>2. QED
      BY <2>1, <3>1 DEF IInv, DoneCounted
  <2>4. QED
    BY <2>2, <2>3
<1>10. ErrorCounted'
  <2>1. job'.verdict = job.verdict
        /\ (job'.errorAcked <=> job.errorAcked \/ (job.errors > 0 /\ ClearsError(w)))
    BY <1>0, JobStep
  <2>2. job.verdict # "accepted" => (AnyError(eng') <=> AnyError(eng))
    BY <1>2 DEF IInv, Working, AnyError
  <2>3. ErrorEvent(w, eng) <=> (AnyError(eng) /\ ~shell.errorReported) \/ shell.reject
    BY DEF ErrorEvent
  <2>4. job.verdict \in {"none", "accepted", "rejected"} /\ job.errors \in 0 .. 1
    BY <1>0 DEF TypeOK
  <2>5. CASE ErrorEvent(w, eng)
    <3>1. job.errors = 0 /\ ~job.errorAcked /\ job'.errors = 1
      BY <1>5, <2>5, ErrorEventMeans
    <3>2. QED
      BY <1>3, <1>4, <2>1, <2>2, <2>3, <2>4, <2>5, <3>1 DEF IInv, ErrorCounted
  <2>6. CASE ~ErrorEvent(w, eng)
    <3>1. job'.errors = job.errors /\ (desc'.error <=> desc.error /\ ~ClearsError(w))
      BY <1>4, <1>5, <2>6
    <3>2. QED
      BY <1>3, <2>1, <2>2, <2>3, <2>4, <2>6, <3>1 DEF IInv, ErrorCounted
  <2>7. QED
    BY <2>5, <2>6
<1>11. QED
  BY <1>6, <1>7, <1>8, <1>9, <1>10 DEF IInv

(* Every reachable state satisfies the inductive invariant. *)
THEOREM Inductive == Spec => []IInv
<1>1. IInv /\ UNCHANGED vars => IInv'
  BY DEF vars, IInv, TypeOK, Working, Completion, DoneCounted, ErrorCounted, AnyError
<1>2. IInv /\ [Next]_vars => IInv'
  BY <1>1, StartIInv, ContinueIInv DEF Next
<1>3. QED
  BY <1>2, InitIInv, PTL DEF Spec

(* The DONE of tiled_dma_shell means that its job was accepted and that     *)
(* none of its engines is still at work.                                    *)
THEOREM DoneIsTrue == Spec => []DoneMeansOver
<1>1. IInv => DoneMeansOver
  BY DEF IInv, DoneCounted, Working, DoneMeansOver, DmaBusy
<1>2. QED
  BY <1>1, Inductive, PTL

(* Each event is raised at most once for a job and stays until a clear. *)
THEOREM EventsAreExact == Spec => []EventsExact
<1>1. IInv => EventsExact
  BY DEF IInv, TypeOK, DoneCounted, ErrorCounted, EventsExact
<1>2. QED
  BY <1>1, Inductive, PTL

(* A refused START and a failed engine always come to an ERROR event. *)
THEOREM FailuresAreReported == Spec => []FailureReported
<1>1. IInv => FailureReported
  BY DEF IInv, TypeOK, Working, ErrorCounted, FailureReported
<1>2. QED
  BY <1>1, Inductive, PTL

-----------------------------------------------------------------------------
(* The frame of accel_run(), whose program counter this is. *)
Points == {"idle", "clear", "bias", "program", "start", "poll", "counters", "clearAgain", "return",
           "probe", "probeClear", "probeCheck"}
ProbePoints == {"probe", "probeClear", "probeCheck"}

CpuOK ==
  /\ cpu \in [at : Points, d : {cpu.d}, bias : {cpu.bias}, st : BOOLEAN, probe : BOOLEAN,
              next : Nat, failed : BOOLEAN, busySeen : BOOLEAN, macs : {cpu.macs}]
  /\ Loadable(cpu.d)
  /\ cpu.at = "program" => cpu.next < Len(ProgramOrder)
  /\ cpu.at = "clear" => cpu.next = 0

(* Only a poll has a job under way, and none is left unreported. *)
Rested ==
  cpu.at # "poll" => ~DmaBusy(eng) /\ (job.verdict = "accepted" => job.dones = 1)

(* The registers hold what has been written of the caller's descriptor. *)
Programmed ==
  /\ desc.cfg \in [Fields -> Nat] /\ desc.cfg["POST_CFG"] < 256
  /\ cpu.at = "program" =>
       \A i \in 1 .. cpu.next : desc.cfg[ProgramOrder[i]] = cpu.d[ProgramOrder[i]]
  /\ cpu.at = "start" => desc.cfg = cpu.d

(* From START to return the job is the caller's own, its error not cleared  *)
(* before it is read, and then told as it is.                               *)
Own ==
  /\ cpu.at \in {"poll", "counters", "clearAgain"} => job.verdict # "none" /\ job.cfg = cpu.d
  /\ cpu.at = "poll" => ~job.errorAcked
  /\ cpu.at \in {"counters", "clearAgain"} =>
       (cpu.failed <=> job.verdict = "rejected" \/ job.failed)

(* A job has failed exactly if an engine still says so; error_reported_q    *)
(* does not run ahead of the engines, and no error comes after DONE.        *)
Blame ==
  job.verdict = "accepted" =>
    /\ job.failed <=> AnyError(eng)
    /\ shell.errorReported => AnyError(eng)
    /\ job.dones = 1 /\ AnyError(eng) => shell.errorReported

(* The illegal descriptor is probed and nothing else. *)
Probing ==
  /\ cpu.probe => cpu.d = bad /\ main.at = "probe"
  /\ cpu.at \in ProbePoints => cpu.probe
  /\ cpu.at \in {"idle", "poll", "counters", "clearAgain", "return"} => ~cpu.probe

(* Where main() is. *)
Sections == {"selftest", "selftestCheck", "robustness", "probe", "recover", "recoverCheck",
             "gemm", "fused", "cpu", "report", "halt", "otherCaller"}
MainOK ==
  /\ main \in [at : Sections, i : Nat, layer : {1, 2}, failures : {main.failures},
               drawn : {main.drawn}, macs : {main.macs}, verdict : {main.verdict}]
  /\ main.at \in {"selftest", "selftestCheck"} => main.i \in 1 .. Len(shapes)
  /\ main.at \in {"gemm", "fused", "cpu"} => main.i < Batches
  /\ main.at \in {"robustness", "probe", "recover", "recoverCheck"} => main.i = 0
  /\ main.at \notin {"gemm", "fused"} => main.layer = 1

DeviceOK == IInv /\ Blame /\ Rested /\ Programmed /\ Own
DemoIInv == DeviceOK /\ CpuOK /\ Probing /\ MainOK

-----------------------------------------------------------------------------
(* The register writes of the driver. *)

LEMMA Sizes ==
  ArrayN \in Nat \ {0} /\ MaxM \in Nat \ {0} /\ MaxN \in Nat \ {0} /\ MaxK \in Nat \ {0}
BY DmaShellAssumption

(* What the driver may write while it neither programs nor starts. *)
Harmless == {Idle, accel_dma_clear_events, DMA_BIAS_VEC, accel_dma_abort}

LEMMA HarmlessWrites ==
  ASSUME NEW w \in Harmless
  PROVE  ~Start(w, eng) /\ ~CfgWrite(w)
BY DEF Harmless, Idle, accel_dma_clear_events, DMA_BIAS_VEC, accel_dma_abort, accel_write,
       Start, DmaStart, CtrlWrite, CfgWrite, Fields, Bit

LEMMA PollWrites ==
  ASSUME NEW w \in {Idle, accel_dma_abort}
  PROVE  w \in Harmless /\ ~ClearsError(w) /\ ~ClearsDone(w)
BY DEF Harmless, Idle, accel_dma_abort, accel_write, ClearsError, ClearsDone, StatusWrite

LEMMA StartWrites ==
  /\ DmaBusy(eng) \/ Start(accel_dma_start(FALSE), eng)
  /\ ~CfgWrite(accel_dma_start(FALSE))
BY DEF accel_dma_start, accel_write, Start, DmaStart, CtrlWrite, CfgWrite, Fields, Bit

LEMMA FieldWrites ==
  ASSUME NEW f \in Fields, NEW v
  PROVE  LET w == accel_write(f, v)
         IN  /\ ~Start(w, eng) /\ CfgWrite(w) /\ w.reg = f /\ w.data = v /\ w.strb = {0, 1, 2, 3}
             /\ ~ClearsError(w) /\ ~ClearsDone(w)
BY DEF accel_write, Start, DmaStart, CtrlWrite, CfgWrite, ClearsError, ClearsDone, StatusWrite, Fields

(* A word written over any other is the word; a byte, over a byte. *)
LEMMA WordWrites ==
  ASSUME NEW x, Word(x), NEW old
  PROVE  x \in Nat /\ Merge(old, x, {0, 1, 2, 3}) = x
BY DEF Word, Merge

LEMMA ByteWrites ==
  ASSUME NEW x \in Nat, x < 256, NEW old \in Nat, old < 256
  PROVE  Merge(old, x, {0, 1, 2, 3} \cap {0}) = x
BY DEF Merge, ByteOf

LEMMA ConfigStep ==
  ASSUME NEW w, Cycle(w)
  PROVE  desc'.cfg = [f \in Fields |-> FieldNext(f, w, DmaBusy(eng))]
<1>1. Clock(w, DmaBusy(eng), DoneEvent(w, eng), ErrorEvent(w, eng))
  BY DEF Cycle, ShellClock
<1>2. QED
  BY <1>1, Zenon DEF Clock

LEMMA ConfigKept ==
  ASSUME NEW w, Cycle(w), ~CfgWrite(w), desc.cfg \in [Fields -> Nat]
  PROVE  desc'.cfg = desc.cfg
BY ConfigStep, Zenon DEF FieldNext

-----------------------------------------------------------------------------
(* One clock of the device. *)

(* The invariant of the shell holds whatever is written. *)
LEMMA ShellKept ==
  ASSUME IInv, NEW w, Cycle(w)
  PROVE  IInv'
BY StartIInv, ContinueIInv

LEMMA JobKept ==
  ASSUME IInv, NEW w, Cycle(w), ~Start(w, eng)
  PROVE  job'.cfg = job.cfg
<1> DEFINE failed == job.failed \/ \E x \in job.running : eng'[x].error
           doneAcked == job.doneAcked \/ (job.dones > 0 /\ ClearsDone(w))
           errorAcked == job.errorAcked \/ (job.errors > 0 /\ ClearsError(w))
<1>1. job' = [job EXCEPT !.running = {x \in @ : eng'[x].busy},
                         !.dones = Count(@, DoneEvent(w, eng)),
                         !.errors = Count(@, ErrorEvent(w, eng)),
                         !.failed = failed, !.doneAcked = doneAcked, !.errorAcked = errorAcked]
  BY Zenon DEF Cycle, JobNext
<1>2. job = [verdict |-> job.verdict, cfg |-> job.cfg, running |-> job.running,
             dones |-> job.dones, errors |-> job.errors, failed |-> job.failed,
             doneAcked |-> job.doneAcked, errorAcked |-> job.errorAcked]
  BY Zenon DEF IInv, TypeOK
<1> HIDE DEF failed, doneAcked, errorAcked
<1>3. QED
  BY <1>1, <1>2, Zenon

(* A clock without a START: the job stays the one it was; once no engine is *)
(* at work, none will be, and an accepted job is reported now at the latest. *)
LEMMA WorkStep ==
  ASSUME IInv, Blame, NEW w, Cycle(w), ~Start(w, eng)
  PROVE  /\ job'.verdict = job.verdict /\ job'.cfg = job.cfg
         /\ ~ClearsError(w) => (job'.errorAcked <=> job.errorAcked)
         /\ ~DmaBusy(eng) =>
              /\ ~DmaBusy(eng')
              /\ job'.failed <=> job.failed
              /\ job.verdict = "accepted" => job'.dones = 1
         /\ Blame'
<1>0. TypeOK
  BY DEF IInv
<1>1. ~Accept(w, eng)
  BY DEF Accept
<1>2. \A x \in Engines :
        /\ ~eng[x].busy => ~eng'[x].busy /\ (eng'[x].error <=> eng[x].error)
        /\ eng[x].busy => (eng[x].error => eng'[x].error)
  BY <1>0, <1>1, EnginesStep, Zenon
<1>3. /\ job'.verdict = job.verdict /\ job'.cfg = job.cfg
      /\ ~ClearsError(w) => (job'.errorAcked <=> job.errorAcked)
      /\ job'.failed <=> job.failed \/ \E x \in job.running : eng'[x].error
  BY <1>0, JobKept, JobStep
<1>4. ~DmaBusy(eng) => job.running = {} /\ ~DmaBusy(eng') /\ (job'.failed <=> job.failed)
  BY <1>2, <1>3 DEF DmaBusy, IInv, Working
<1>5. job'.dones = IF DoneEvent(w, eng) THEN 1 ELSE job.dones
  BY <1>0, JobStep, DoneEventMeans DEF Count
<1>6. ASSUME ~DmaBusy(eng), job.verdict = "accepted"
      PROVE  job'.dones = 1
  <2>1. AllComplete(eng)
    BY <1>6 DEF AllComplete, DmaBusy, IInv, Completion
  <2>2. DoneEvent(w, eng) \/ shell.doneReported
    BY <2>1 DEF DoneEvent
  <2>3. QED
    BY <1>5, <1>6, <2>2 DEF IInv, DoneCounted
<1>7. Blame'
  <2> SUFFICES ASSUME job'.verdict = "accepted"
               PROVE  /\ job'.failed <=> AnyError(eng')
                      /\ shell'.errorReported => AnyError(eng')
                      /\ job'.dones = 1 /\ AnyError(eng') => shell'.errorReported
    BY DEF Blame
  <2>1. job.verdict = "accepted"
    BY <1>3
  <2>2. job.running = {x \in Engines : eng[x].busy}
    BY DEF IInv, Working
  <2>3. /\ job.failed <=> AnyError(eng)
        /\ shell.errorReported => AnyError(eng)
        /\ job.dones = 1 /\ AnyError(eng) => shell.errorReported
    BY <2>1 DEF Blame
  <2>4. job'.failed <=> AnyError(eng')
    BY <1>2, <1>3, <2>2, <2>3 DEF AnyError
  <2>5. AnyError(eng) => AnyError(eng')
    BY <1>2 DEF AnyError
  <2>6. shell'.errorReported <=> shell.errorReported \/ AnyError(eng)
    BY <1>0, ShellStep, Zenon
  <2>7. job'.dones = 1 /\ AnyError(eng') => AnyError(eng)
    <3>1. job'.dones = 1 => \A x \in Engines : ~eng[x].busy
      BY <1>5, <2>2, DoneEventMeans DEF IInv, DoneCounted
    <3>2. QED
      BY <1>2, <3>1 DEF AnyError
  <2>8. QED
    BY <2>3, <2>4, <2>5, <2>6, <2>7
<1>8. QED
  BY <1>3, <1>4, <1>6, <1>7

(* A START finds the registers as they are; a refused one leaves the shell *)
(* at rest.                                                                *)
LEMMA JobBegins ==
  ASSUME IInv, NEW w, Cycle(w), Start(w, eng)
  PROVE  /\ job'.verdict = (IF Legal THEN "accepted" ELSE "rejected")
         /\ job'.cfg = desc.cfg /\ ~job'.errorAcked
         /\ ~Legal => ~DmaBusy(eng')
         /\ Blame'
<1>0. TypeOK
  BY DEF IInv
<1>1. /\ job'.verdict = (IF Legal THEN "accepted" ELSE "rejected")
      /\ job'.cfg = desc.cfg /\ job'.errorAcked = FALSE /\ job'.failed = FALSE /\ job'.dones = 0
  BY StartStep DEF Cfg
<1>2. Accept(w, eng) <=> Legal
  BY DEF Accept
<1>3. \A x \in Engines : ~eng[x].busy
  BY DEF Start, DmaStart, DmaBusy
<1>4. \A x \in Engines :
        /\ Legal => ~eng'[x].error
        /\ ~Legal => ~eng'[x].busy
  BY <1>0, <1>2, <1>3, EnginesStep, Zenon
<1>5. shell'.errorReported <=> FALSE
  BY <1>0, ShellStep, Zenon
<1>6. Blame'
  BY <1>1, <1>4, <1>5 DEF Blame, AnyError
<1>7. QED
  BY <1>1, <1>4, <1>6 DEF DmaBusy

-----------------------------------------------------------------------------
(* What the steps of the CPU make of Rested, Programmed and Own. *)

(* A step outside START .. return that writes no field. *)
LEMMA OutsideStep ==
  ASSUME DeviceOK, NEW w \in Harmless, Cycle(w), cpu.at # "poll",
         cpu'.at \notin {"start", "poll", "counters", "clearAgain"},
         cpu'.at = "program" => cpu'.next = 0
  PROVE  DeviceOK'
<1>1. /\ ~Start(w, eng) /\ ~CfgWrite(w)
      /\ ~DmaBusy(eng)
      /\ desc.cfg \in [Fields -> Nat] /\ desc.cfg["POST_CFG"] < 256
  BY HarmlessWrites DEF DeviceOK, Rested, Programmed
<1>2. desc'.cfg = desc.cfg
  BY <1>1, ConfigKept
<1>3. /\ ~DmaBusy(eng') /\ (job'.verdict = "accepted" => job'.dones = 1)
      /\ Blame' /\ IInv'
  BY <1>1, WorkStep, ShellKept DEF DeviceOK
<1>4. Rested'
  BY <1>3 DEF Rested
<1>5. Programmed'
  BY <1>1, <1>2 DEF Programmed
<1>6. Own'
  BY DEF Own
<1>7. QED
  BY <1>3, <1>4, <1>5, <1>6 DEF DeviceOK

(* The CPU is busy with something else. *)
LEMMA WaitingStep ==
  ASSUME DeviceOK, NEW w \in Harmless, Cycle(w), cpu.at = "poll" => w \in {Idle, accel_dma_abort},
         cpu' = cpu
  PROVE  DeviceOK'
<1>1. /\ ~Start(w, eng) /\ ~CfgWrite(w)
      /\ cpu.at = "poll" => ~ClearsError(w)
      /\ desc.cfg \in [Fields -> Nat] /\ desc.cfg["POST_CFG"] < 256
  BY HarmlessWrites, PollWrites DEF DeviceOK, Programmed
<1>2. desc'.cfg = desc.cfg
  BY <1>1, ConfigKept
<1>3. /\ job'.verdict = job.verdict /\ job'.cfg = job.cfg
      /\ ~ClearsError(w) => (job'.errorAcked <=> job.errorAcked)
      /\ ~DmaBusy(eng) =>
           /\ ~DmaBusy(eng')
           /\ job'.failed <=> job.failed
           /\ job.verdict = "accepted" => job'.dones = 1
      /\ Blame' /\ IInv'
  BY <1>1, WorkStep, ShellKept DEF DeviceOK
<1>4. Rested'
  BY <1>3 DEF DeviceOK, Rested
<1>5. Programmed'
  BY <1>1, <1>2 DEF DeviceOK, Programmed
<1>6. Own'
  BY <1>1, <1>3 DEF DeviceOK, Rested, Own
<1>7. QED
  BY <1>3, <1>4, <1>5, <1>6 DEF DeviceOK

(* What STATUS tells of a job when the poll ends. *)
LEMMA PollReads ==
  ASSUME DeviceOK, cpu.at = "poll", ~DmaBusy(eng), desc.done \/ desc.error
  PROVE  desc.error <=> job.verdict = "rejected" \/ job.failed
<1>1. /\ job.verdict # "none" /\ ~job.errorAcked
      /\ job.verdict \in {"none", "accepted", "rejected"}
      /\ job.dones \in 0 .. 1 /\ job.errors \in 0 .. 1
  BY DEF DeviceOK, IInv, TypeOK, Own
<1>2. desc.error <=> job.errors = 1
  BY <1>1 DEF DeviceOK, IInv, ErrorCounted
<1>3. CASE job.verdict = "rejected"
  BY <1>1, <1>2, <1>3 DEF DeviceOK, IInv, DoneCounted
<1>4. CASE job.verdict = "accepted"
  <2>1. job.errors = 1 <=> shell.errorReported
    BY <1>4 DEF DeviceOK, IInv, ErrorCounted
  <2>2. desc.done => job.dones = 1
    BY DEF DeviceOK, IInv, DoneCounted
  <2>3. QED
    BY <1>2, <1>4, <2>1, <2>2 DEF DeviceOK, Blame
<1>5. QED
  BY <1>1, <1>3, <1>4

LEMMA PollEndStep ==
  ASSUME DeviceOK, Cycle(Idle), cpu.at = "poll", ~DmaBusy(eng), desc.done \/ desc.error,
         cpu'.at \in {"counters", "clearAgain"}, cpu'.d = cpu.d, cpu'.failed = desc.error
  PROVE  DeviceOK'
<1>1. /\ ~Start(Idle, eng) /\ ~CfgWrite(Idle)
      /\ desc.cfg \in [Fields -> Nat] /\ desc.cfg["POST_CFG"] < 256
  BY HarmlessWrites DEF DeviceOK, Programmed, Harmless
<1>2. desc'.cfg = desc.cfg
  BY <1>1, ConfigKept
<1>3. /\ job'.verdict = job.verdict /\ job'.cfg = job.cfg
      /\ ~DmaBusy(eng')
      /\ job'.failed <=> job.failed
      /\ job.verdict = "accepted" => job'.dones = 1
      /\ Blame' /\ IInv'
  BY <1>1, WorkStep, ShellKept DEF DeviceOK
<1>4. cpu'.failed <=> job.verdict = "rejected" \/ job.failed
  BY PollReads
<1>5. Rested'
  BY <1>3 DEF Rested
<1>6. Programmed'
  BY <1>1, <1>2 DEF Programmed
<1>7. Own'
  BY <1>3, <1>4 DEF DeviceOK, Own
<1>8. QED
  BY <1>3, <1>5, <1>6, <1>7 DEF DeviceOK

LEMMA CountersStep ==
  ASSUME DeviceOK, Cycle(Idle), cpu.at = "counters",
         cpu'.at = "clearAgain", cpu'.d = cpu.d, cpu'.failed = cpu.failed
  PROVE  DeviceOK'
<1>1. /\ ~Start(Idle, eng) /\ ~CfgWrite(Idle) /\ ~DmaBusy(eng)
      /\ desc.cfg \in [Fields -> Nat] /\ desc.cfg["POST_CFG"] < 256
  BY HarmlessWrites DEF DeviceOK, Rested, Programmed, Harmless
<1>2. desc'.cfg = desc.cfg
  BY <1>1, ConfigKept
<1>3. /\ job'.verdict = job.verdict /\ job'.cfg = job.cfg
      /\ ~DmaBusy(eng')
      /\ job'.failed <=> job.failed
      /\ job.verdict = "accepted" => job'.dones = 1
      /\ Blame' /\ IInv'
  BY <1>1, WorkStep, ShellKept DEF DeviceOK
<1>4. QED
  BY <1>1, <1>2, <1>3 DEF DeviceOK, Rested, Programmed, Own

(* The order has every field once. *)
LEMMA OrderCovers ==
  /\ Len(ProgramOrder) = 12
  /\ \A i \in 1 .. 12 : ProgramOrder[i] \in Fields
  /\ \A f \in Fields : \E i \in 1 .. 12 : ProgramOrder[i] = f
<1>1. Len(ProgramOrder) = 12
  BY DEF ProgramOrder
<1>2. \A i \in 1 .. 12 : ProgramOrder[i] \in Fields
  BY DEF ProgramOrder, Fields
<1>3. /\ ProgramOrder[1] = "A_BASE" /\ ProgramOrder[2] = "B_BASE" /\ ProgramOrder[3] = "C_BASE"
      /\ ProgramOrder[4] = "M" /\ ProgramOrder[5] = "N" /\ ProgramOrder[6] = "K"
      /\ ProgramOrder[7] = "TILE_M" /\ ProgramOrder[8] = "TILE_N" /\ ProgramOrder[9] = "TILE_K"
      /\ ProgramOrder[10] = "POST_BIAS" /\ ProgramOrder[11] = "POST_SCALE"
      /\ ProgramOrder[12] = "POST_CFG"
  BY DEF ProgramOrder
<1>4. \A f \in Fields : \E i \in 1 .. 12 : ProgramOrder[i] = f
  BY <1>3 DEF Fields
<1>5. QED
  BY <1>1, <1>2, <1>4

(* A field written while the shell rests holds what was written. *)
LEMMA FieldStep ==
  ASSUME NEW f \in Fields, NEW d, Loadable(d), desc.cfg \in [Fields -> Nat],
         desc.cfg["POST_CFG"] < 256, ~DmaBusy(eng), Cycle(accel_write(f, d[f]))
  PROVE  /\ desc'.cfg[f] = d[f]
         /\ \A g \in Fields \ {f} : desc'.cfg[g] = desc.cfg[g]
         /\ desc'.cfg \in [Fields -> Nat] /\ desc'.cfg["POST_CFG"] < 256
<1> DEFINE w == accel_write(f, d[f])
<1>1. /\ CfgWrite(w) /\ w.reg = f /\ w.data = d[f] /\ w.strb = {0, 1, 2, 3}
      /\ DmaBusy(eng) = FALSE
  BY FieldWrites DEF DmaBusy
<1>2. desc'.cfg = [g \in Fields |-> FieldNext(g, w, DmaBusy(eng))]
  BY ConfigStep
<1>3. \A g \in Fields \ {f} : desc'.cfg[g] = desc.cfg[g]
  BY <1>1, <1>2 DEF FieldNext
<1>4. Word(d[f]) /\ d[f] \in Nat /\ "POST_CFG" \in Fields
  BY DEF Loadable, Fields
<1>5. desc'.cfg[f] = d[f]
  <2>1. CASE f = "POST_CFG"
    <3>1. desc'.cfg[f] = Merge(desc.cfg[f], d[f], {0, 1, 2, 3} \cap {0})
      BY <1>1, <1>2, <2>1 DEF FieldNext
    <3>2. d[f] < 256 /\ desc.cfg[f] < 256 /\ desc.cfg[f] \in Nat
      BY <2>1 DEF Loadable
    <3>3. QED
      BY <1>4, <3>1, <3>2, ByteWrites
  <2>2. CASE f # "POST_CFG"
    <3>1. desc'.cfg[f] = Merge(desc.cfg[f], d[f], {0, 1, 2, 3})
      BY <1>1, <1>2, <2>2 DEF FieldNext
    <3>2. QED
      BY <1>4, <3>1, WordWrites
  <2>3. QED
    BY <2>1, <2>2
<1>6. desc'.cfg \in [Fields -> Nat]
  <2>1. \A g \in Fields : desc'.cfg[g] \in Nat
    BY <1>3, <1>4, <1>5
  <2>2. desc'.cfg = [g \in Fields |-> desc'.cfg[g]]
    BY <1>2
  <2>3. QED
    BY <2>1, <2>2
<1>7. desc'.cfg["POST_CFG"] < 256
  BY <1>3, <1>4, <1>5 DEF Loadable
<1>8. QED
  BY <1>3, <1>5, <1>6, <1>7

LEMMA ProgramStep ==
  ASSUME DeviceOK, CpuOK, Program
  PROVE  DeviceOK'
<1> DEFINE i == cpu.next + 1
           f == ProgramOrder[i]
           w == accel_write(f, cpu.d[f])
<1>1. /\ cpu.at = "program" /\ i \in 1 .. 12 /\ f \in Fields /\ Loadable(cpu.d)
      /\ cpu.next \in Nat /\ cpu.next < 12
  BY OrderCovers DEF Program, CpuOK
<1>2. Cycle(w)
  BY DEF Program, Access, Device
<1>3. /\ ~Start(w, eng) /\ ~DmaBusy(eng)
      /\ desc.cfg \in [Fields -> Nat] /\ desc.cfg["POST_CFG"] < 256
  BY <1>1, FieldWrites DEF DeviceOK, Rested, Programmed
<1>4. /\ ~DmaBusy(eng') /\ (job'.verdict = "accepted" => job'.dones = 1)
      /\ Blame' /\ IInv'
  BY <1>2, <1>3, WorkStep, ShellKept DEF DeviceOK
<1>5. /\ desc'.cfg[f] = cpu.d[f]
      /\ \A g \in Fields \ {f} : desc'.cfg[g] = desc.cfg[g]
      /\ desc'.cfg \in [Fields -> Nat] /\ desc'.cfg["POST_CFG"] < 256
  BY <1>1, <1>2, <1>3, FieldStep
<1>6. \A j \in 1 .. i : desc'.cfg[ProgramOrder[j]] = cpu.d[ProgramOrder[j]]
  <2> SUFFICES ASSUME NEW j \in 1 .. i
               PROVE  desc'.cfg[ProgramOrder[j]] = cpu.d[ProgramOrder[j]]
    OBVIOUS
  <2>1. j \in 1 .. 12 /\ ProgramOrder[j] \in Fields
    BY <1>1, OrderCovers
  <2>2. j # i => j \in 1 .. cpu.next
    BY <1>1
  <2>3. j # i => desc.cfg[ProgramOrder[j]] = cpu.d[ProgramOrder[j]]
    BY <1>1, <2>2 DEF DeviceOK, Programmed
  <2>4. QED
    BY <1>5, <2>1, <2>3
<1> HIDE DEF f, w
<1>7. /\ cpu'.at = IF i < 12 THEN "program" ELSE "start"
      /\ cpu'.d = cpu.d
      /\ i < 12 => cpu'.next = i
  BY <1>1, OrderCovers DEF Program, CpuOK
<1>8. Rested'
  BY <1>4 DEF Rested
<1>9. Programmed'
  <2>1. i = 12 => desc'.cfg = cpu.d
    <3>1. i = 12 => \A g \in Fields : desc'.cfg[g] = cpu.d[g]
      BY <1>6, OrderCovers
    <3>2. cpu.d \in [Fields -> Nat]
      BY <1>1 DEF Loadable
    <3>3. QED
      BY <1>5, <3>1, <3>2
  <2>2. QED
    BY <1>1, <1>5, <1>6, <1>7, <2>1 DEF Programmed
<1>10. Own'
  BY <1>7 DEF Own
<1>11. QED
  BY <1>4, <1>8, <1>9, <1>10 DEF DeviceOK

(* The illegal descriptor is refused. *)
LEMMA BadRefused ==
  ASSUME desc.cfg = bad
  PROVE  ~Legal
<1>1. desc.cfg["TILE_M"] = 3
  BY DEF bad, Descriptor
<1>2. QED
  BY <1>1 DEF Legal, Cfg, TileOK

LEMMA StartJobStep ==
  ASSUME DeviceOK, CpuOK, StartJob, cpu.probe => cpu.d = bad
  PROVE  DeviceOK'
<1> DEFINE w == accel_dma_start(FALSE)
<1>1. cpu.at = "start" /\ Cycle(w) /\ cpu'.at = (IF cpu.probe THEN "probe" ELSE "poll")
      /\ cpu'.d = cpu.d
  BY DEF StartJob, Access, Device, CpuOK
<1>2. ~DmaBusy(eng) /\ desc.cfg = cpu.d
      /\ desc.cfg \in [Fields -> Nat] /\ desc.cfg["POST_CFG"] < 256
  BY <1>1 DEF DeviceOK, Rested, Programmed
<1>3. Start(w, eng) /\ ~CfgWrite(w)
  BY <1>2, StartWrites
<1>4. desc'.cfg = desc.cfg
  BY <1>1, <1>2, <1>3, ConfigKept
<1>5. /\ job'.verdict = (IF Legal THEN "accepted" ELSE "rejected")
      /\ job'.cfg = desc.cfg /\ ~job'.errorAcked
      /\ ~Legal => ~DmaBusy(eng')
      /\ Blame' /\ IInv'
  BY <1>1, <1>3, JobBegins, ShellKept DEF DeviceOK
<1>6. cpu.probe => ~Legal
  BY <1>2, BadRefused
<1>7. QED
  BY <1>1, <1>2, <1>4, <1>5, <1>6 DEF DeviceOK, Rested, Programmed, Own

-----------------------------------------------------------------------------
(* Where the linker puts the arrays. *)

Lengths == <<23040, 2048, 320, 4096, 4096, 16384, 16384, 8192, 2560, 11520, 3600, 11520, 11520, 3604, 3600>>
Offsets == <<0, 23040, 25088, 25408, 29504, 33600, 49984, 66368, 74560, 77120, 88640, 92240, 103760,
             115280, 118896>>
Names == <<"x_test", "w1t", "w2t", "ta", "tb", "tc_hw", "tc_sw", "acc1", "acc2", "hidden_hw", "logits_hw",
           "hidden_sw", "hidden_fx", "logits_fx", "logits_sw">>

LEMMA ArraysAre ==
  /\ DOMAIN Arrays = 1 .. 15 /\ Len(Arrays) = 15
  /\ \A i \in 1 .. 15 : Arrays[i].name = Names[i] /\ Arrays[i].bytes = Lengths[i]
<1> DEFINE A == <<x_test, w1t, w2t,
    Array("ta", MAX_DIM * MAX_DIM), Array("tb", MAX_DIM * MAX_DIM),
    Array("tc_hw", 4 * MAX_DIM * MAX_DIM), Array("tc_sw", 4 * MAX_DIM * MAX_DIM),
    Array("acc1", 4 * BATCH * N_HID), Array("acc2", 4 * BATCH * N_OUT),
    Array("hidden_hw", N_TEST * N_HID), Array("logits_hw", N_TEST * N_OUT),
    Array("hidden_sw", N_TEST * N_HID), Array("hidden_fx", N_TEST * N_HID),
    Array("logits_fx", N_TEST * N_OUT + 4), Array("logits_sw", N_TEST * N_OUT)>>
<1>1. Arrays = A
  BY Zenon DEF Arrays
<1>2. Len(A) = 15 /\ DOMAIN A = 1 .. 15
  OBVIOUS
<1>3. \A i \in 1 .. 15 : A[i].name = Names[i] /\ A[i].bytes = Lengths[i]
  BY DEF Names, Lengths, Array, x_test, w1t, w2t, MAX_DIM, BATCH, N_TEST, N_OUT, N_HID
<1>4. QED
  BY <1>1, <1>2, <1>3, Zenon

LEMMA LengthsAligned ==
  \A i \in 2 .. 15 : Offsets[i] = Offsets[i - 1] + Aligned(Lengths[i - 1])
BY DEF Offsets, Lengths, Aligned

LEMMA Places == \A i \in 1 .. 15 : Place[i] = MainRam + Offsets[i]
<1> DEFINE Spot == [i \in 1 .. 15 |-> MainRam + Offsets[i]]
           Body(p) == [i \in 1 .. Len(Arrays) |->
                         IF i = 1 THEN MainRam ELSE p[i - 1] + Aligned(Arrays[i - 1].bytes)]
<1>1. Place = CHOOSE p : p = Body(p)
  BY DEF Place
<1>2. \A p : Body(p) = [i \in 1 .. 15 |-> IF i = 1 THEN MainRam ELSE p[i - 1] + Aligned(Lengths[i - 1])]
  <2> TAKE p
  <2>1. \A i \in 1 .. 15 : i # 1 => i - 1 \in 1 .. 15
    OBVIOUS
  <2>2. QED
    BY <2>1, ArraysAre
<1>3. Spot = Body(Spot)
  <2>1. \A i \in 2 .. 15 : /\ i - 1 \in 1 .. 15 /\ Offsets[i - 1] \in Int /\ Aligned(Lengths[i - 1]) \in Int
                            /\ Offsets[i] = Offsets[i - 1] + Aligned(Lengths[i - 1])
    BY LengthsAligned DEF Offsets, Lengths, Aligned
  <2>2. Offsets[1] = 0 /\ MainRam \in Int
    BY DEF Offsets, MainRam
  <2>3. \A i \in 1 .. 15 :
          MainRam + Offsets[i] = IF i = 1 THEN MainRam ELSE Spot[i - 1] + Aligned(Lengths[i - 1])
    BY <2>1, <2>2
  <2> DEFINE After(i) == IF i = 1 THEN MainRam ELSE Spot[i - 1] + Aligned(Lengths[i - 1])
  <2>4. \A i \in 1 .. 15 : MainRam + Offsets[i] = After(i)
    BY <2>3
  <2>5. Body(Spot) = [i \in 1 .. 15 |-> After(i)]
    BY <1>2, Zenon
  <2> HIDE DEF After, Body
  <2>6. QED
    BY <2>4, <2>5
<1> HIDE DEF Body, Spot
<1>4. Place = Body(Place)
  BY <1>1, <1>3, Zenon
<1>5. \A i \in 1 .. 15 : Place[i] = IF i = 1 THEN MainRam ELSE Place[i - 1] + Aligned(Lengths[i - 1])
  BY <1>2, <1>4
<1> DEFINE S == {i \in Nat : i \in 1 .. 15 => Place[i] = MainRam + Offsets[i]}
<1>6. 0 \in S
  OBVIOUS
<1>7. ASSUME NEW i \in S PROVE i + 1 \in S
  <2>1. CASE i = 0
    BY <1>5, <2>1 DEF Offsets, MainRam
  <2>2. CASE i \in 1 .. 14
    <3>1. Place[i + 1] = Place[i] + Aligned(Lengths[i]) /\ Place[i] = MainRam + Offsets[i]
      BY <1>5, <2>2
    <3>2. Offsets[i + 1] = Offsets[i] + Aligned(Lengths[i])
      BY <2>2, LengthsAligned
    <3>3. Offsets[i] \in Int /\ Aligned(Lengths[i]) \in Int /\ MainRam \in Int
      BY <2>2 DEF Offsets, Lengths, Aligned, MainRam
    <3>4. QED
      BY <2>2, <3>1, <3>2, <3>3
  <2>3. QED
    BY <2>1, <2>2
<1>8. S = Nat
  BY <1>6, <1>7, Induction
<1>9. QED
  BY <1>8

LEMMA NamesDiffer == \A i, j \in 1 .. 15 : Names[i] = Names[j] => i = j
BY DEF Names

LEMMA Addresses ==
  /\ DOMAIN At = {Names[i] : i \in 1 .. 15}
  /\ \A i \in 1 .. 15 : At[Names[i]] = MainRam + Offsets[i]
<1>1. At = [name \in {Names[i] : i \in 1 .. 15} |->
              Place[CHOOSE i \in 1 .. 15 : Names[i] = name]]
  <2>1. {Arrays[i].name : i \in DOMAIN Arrays} = {Names[i] : i \in 1 .. 15}
    BY ArraysAre
  <2>2. \A name : (CHOOSE i \in DOMAIN Arrays : Arrays[i].name = name)
                    = (CHOOSE i \in 1 .. 15 : Names[i] = name)
    <3> TAKE name
    <3>1. \A i : (i \in DOMAIN Arrays /\ Arrays[i].name = name)
                   <=> (i \in 1 .. 15 /\ Names[i] = name)
      BY ArraysAre
    <3>2. QED
      BY <3>1
  <2> DEFINE Old(name) == Place[CHOOSE i \in DOMAIN Arrays : Arrays[i].name = name]
             New(name) == Place[CHOOSE i \in 1 .. 15 : Names[i] = name]
  <2>3. \A name : Old(name) = New(name)
    BY <2>2
  <2>4. At = [name \in {Arrays[i].name : i \in DOMAIN Arrays} |-> Old(name)]
    BY Zenon DEF At
  <2> HIDE DEF Old, New
  <2>5. At = [name \in {Names[i] : i \in 1 .. 15} |-> New(name)]
    BY <2>1, <2>3, <2>4
  <2>6. QED
    BY <2>5, Zenon DEF New
<1>2. ASSUME NEW i \in 1 .. 15
      PROVE  At[Names[i]] = MainRam + Offsets[i]
  <2>1. (CHOOSE j \in 1 .. 15 : Names[j] = Names[i]) = i
    BY NamesDiffer
  <2>2. QED
    BY <1>1, <2>1, Places
<1>3. QED
  BY <1>1, <1>2

LEMMA Inwards ==
  ASSUME NEW i \in 1 .. 15, NEW first \in Int, NEW bytes \in Int,
         MainRam + Offsets[i] <= first, first + bytes <= MainRam + Offsets[i] + Lengths[i]
  PROVE  Within(first, bytes, Names[i])
<1>1. i \in DOMAIN Arrays /\ Arrays[i].name = Names[i] /\ Arrays[i].bytes = Lengths[i]
      /\ Place[i] = MainRam + Offsets[i]
  BY ArraysAre, Places
<1>2. QED
  BY <1>1 DEF Within

LEMMA Words ==
  ASSUME NEW x \in Nat, x < 4294967296
  PROVE  Word(x)
BY DEF Word, Merge, ByteOf

-----------------------------------------------------------------------------
(* What main() passes can be programmed. *)

(* Index of an array in the map. *)
LEMMA Indices ==
  /\ At["x_test"] = MainRam /\ At["w1t"] = MainRam + 23040 /\ At["w2t"] = MainRam + 25088
  /\ At["ta"] = MainRam + 25408 /\ At["tb"] = MainRam + 29504
  /\ At["tc_hw"] = MainRam + 33600 /\ At["tc_sw"] = MainRam + 49984
  /\ At["acc1"] = MainRam + 66368 /\ At["acc2"] = MainRam + 74560
  /\ At["hidden_hw"] = MainRam + 77120 /\ At["logits_hw"] = MainRam + 88640
  /\ At["hidden_sw"] = MainRam + 92240 /\ At["hidden_fx"] = MainRam + 103760
  /\ At["logits_fx"] = MainRam + 115280 /\ At["logits_sw"] = MainRam + 118896
  /\ MainRam = 1073741824
<1>1. \A i \in 1 .. 15 : At[Names[i]] = MainRam + Offsets[i]
  BY Addresses, SMT
<1>2. MainRam = 1073741824
  BY SMT DEF MainRam
<1>3. QED
  BY <1>1, <1>2, SMT DEF Names, Offsets

LEMMA ShapesFit ==
  /\ Len(shapes) = 8
  /\ \A i \in 1 .. 8 : /\ shapes[i][1] \in 1 .. 64 /\ shapes[i][2] \in 1 .. 64
                       /\ shapes[i][3] \in 1 .. 64
BY SMT DEF shapes

LEMMA BatchesFit ==
  /\ Batches = 6
  /\ \A i \in 0 .. 5 : BatchSize(i) \in 1 .. 64 /\ (i + 1) * 64 - 64 + BatchSize(i) <= 360
BY SMT DEF Batches, BatchSize, N_TEST, BATCH

(* Everything a descriptor of main() names is far from the ends of a word. *)
Short == {x \in Nat : x < 2147483648}
Dim == 1 .. 64

LEMMA ShortFacts ==
  /\ \A x \in Short : x \in Nat /\ Word(x)
  /\ Dim \subseteq Short /\ Dim \subseteq Nat
<1>1. \A x \in Short : x \in Nat /\ x < 4294967296
  BY SMT DEF Short
<1>2. Dim \subseteq Short /\ Dim \subseteq Nat
  BY SMT DEF Dim, Short
<1>3. QED
  BY <1>1, <1>2, Words, SMT

LEMMA DescriptorLoadable ==
  ASSUME NEW a \in Short, NEW b \in Short, NEW c \in Short,
         NEW m \in Dim, NEW n \in Dim, NEW k \in Dim, NEW tile \in {3, ArrayN},
         NEW scale \in Short, NEW cfg \in Short, cfg < 256
  PROVE  Loadable(Descriptor(a, b, c, m, n, k, tile, ArrayN, k, scale, cfg))
<1> DEFINE d == Descriptor(a, b, c, m, n, k, tile, ArrayN, k, scale, cfg)
<1>1. /\ a \in Nat /\ b \in Nat /\ c \in Nat /\ m \in Nat /\ n \in Nat /\ k \in Nat
      /\ scale \in Nat /\ cfg \in Nat
      /\ Word(a) /\ Word(b) /\ Word(c) /\ Word(m) /\ Word(n) /\ Word(k)
      /\ Word(scale) /\ Word(cfg)
  BY ShortFacts, Zenon
<1>2. ArrayN \in Nat /\ Word(ArrayN) /\ Word(0) /\ Word(3)
  BY Sizes, DemoAssumption, Words
<1>3. tile \in Nat /\ Word(tile)
  BY <1>2
<1>4. /\ d \in [Fields -> Nat]
      /\ d["A_BASE"] = a /\ d["B_BASE"] = b /\ d["C_BASE"] = c
      /\ d["M"] = m /\ d["N"] = n /\ d["K"] = k
      /\ d["TILE_M"] = tile /\ d["TILE_N"] = ArrayN /\ d["TILE_K"] = k
      /\ d["POST_BIAS"] = 0 /\ d["POST_SCALE"] = scale /\ d["POST_CFG"] = cfg
  BY <1>1, <1>2, <1>3 DEF Descriptor, Fields
<1> HIDE DEF d
<1>5. \A f \in Fields : Word(d[f])
  BY <1>1, <1>2, <1>3, <1>4 DEF Fields
<1>6. Loadable(d)
  BY <1>4, <1>5 DEF Loadable
<1>7. QED
  BY <1>6 DEF d

LEMMA GemmLoadable ==
  ASSUME NEW a \in Short, NEW b \in Short, NEW c \in Short,
         NEW m \in Dim, NEW n \in Dim, NEW k \in Dim
  PROVE  Loadable(accel_gemm(a, b, c, m, n, k))
<1>1. ArrayN \in {3, ArrayN} /\ 1 \in Short /\ 0 \in Short /\ 0 < 256
  BY SMT DEF Short
<1>2. QED
  BY <1>1, DescriptorLoadable, Zenon DEF accel_gemm

LEMMA LayerLoadable ==
  ASSUME NEW a \in Short, NEW b \in Short, NEW c \in Short,
         NEW m \in Dim, NEW n \in Dim, NEW k \in Dim, NEW relu \in BOOLEAN,
         NEW mult \in {L1_MULT, L2_MULT}
  PROVE  Loadable(accel_layer(a, b, c, m, n, k, mult, 30, relu))
<1>1. PostCfg(30, relu) \in Short /\ PostCfg(30, relu) < 256
  BY SMT DEF PostCfg, Short
<1>2. mult \in Short /\ ArrayN \in {3, ArrayN}
  BY SMT DEF L1_MULT, L2_MULT, Short
<1>3. QED
  BY <1>1, <1>2, DescriptorLoadable, Zenon DEF accel_layer

LEMMA AddressesShort ==
  \A name \in {"x_test", "w1t", "w2t", "ta", "tb", "tc_hw", "acc1", "acc2"} : At[name] \in Short
BY Indices, SMT DEF Short

LEMMA SelfTestLoadable ==
  ASSUME NEW i \in 1 .. 8
  PROVE  Loadable(accel_gemm(At["ta"], At["tb"], At["tc_hw"], shapes[i][1], shapes[i][2], shapes[i][3]))
<1>1. shapes[i][1] \in Dim /\ shapes[i][2] \in Dim /\ shapes[i][3] \in Dim
  BY ShapesFit DEF Dim
<1>2. QED
  BY <1>1, AddressesShort, GemmLoadable

LEMMA BadLoadable == Loadable(bad)
<1>1. 3 \in {3, ArrayN} /\ 1 \in Short /\ 0 \in Short /\ 0 < 256 /\ 4 \in Dim
  BY SMT DEF Short, Dim
<1>2. QED
  BY <1>1, AddressesShort, DescriptorLoadable DEF bad

LEMMA RecoverLoadable == Loadable(accel_gemm(At["ta"], At["tb"], At["tc_hw"], 4, 4, 4))
<1>1. 4 \in Dim
  BY DEF Dim
<1>2. QED
  BY <1>1, AddressesShort, GemmLoadable

LEMMA NetworkAddresses ==
  ASSUME NEW i \in 0 .. 5
  PROVE  /\ X(i) = MainRam + 4096 * i
         /\ H("gemm", i) = MainRam + 77120 + 2048 * i
         /\ H("fused", i) = MainRam + 103760 + 2048 * i
         /\ H("cpu", i) = MainRam + 92240 + 2048 * i
         /\ O("gemm", i) = MainRam + 88640 + 640 * i
         /\ O("fused", i) = MainRam + 115280 + 640 * i
         /\ O("cpu", i) = MainRam + 118896 + 640 * i
BY Indices, SMT DEF X, H, O, hiddenOf, logitsOf, BATCH, N_IN, N_HID, N_OUT

LEMMA NetworkLoadable ==
  ASSUME NEW i \in 0 .. 5, main.layer \in {1, 2}
  PROVE  Loadable(LayerGemm(i)) /\ Loadable(LayerFused(i))
<1>1. BatchSize(i) \in Dim /\ N_IN \in Dim /\ N_HID \in Dim /\ N_OUT \in Dim
  BY BatchesFit DEF N_IN, N_HID, N_OUT, Dim
<1>2. X(i) \in Short /\ H("gemm", i) \in Short /\ H("fused", i) \in Short /\ O("fused", i) \in Short
  BY NetworkAddresses, Indices, SMT DEF Short
<1>3. /\ L1_SHIFT = 30 /\ L2_SHIFT = 30 /\ L1_MULT \in {L1_MULT, L2_MULT}
      /\ L2_MULT \in {L1_MULT, L2_MULT}
  BY DEF L1_SHIFT, L2_SHIFT
<1>4. Loadable(LayerGemm(i))
  BY <1>1, <1>2, AddressesShort, GemmLoadable DEF LayerGemm
<1>5. Loadable(LayerFused(i))
  <2>1. Loadable(accel_layer(X(i), At["w1t"], H("fused", i), BatchSize(i), N_HID, N_IN, L1_MULT, 30, TRUE))
    BY <1>1, <1>2, <1>3, AddressesShort, LayerLoadable
  <2>2. Loadable(accel_layer(H("fused", i), At["w2t"], O("fused", i), BatchSize(i), N_OUT, N_HID, L2_MULT, 30, FALSE))
    BY <1>1, <1>2, <1>3, AddressesShort, LayerLoadable
  <2>3. QED
    BY <1>3, <2>1, <2>2 DEF LayerFused
<1>6. QED
  BY <1>4, <1>5

-----------------------------------------------------------------------------
(* accel_run(), step by step. *)

LEMMA IdlerIs ==
  /\ Idler = [at |-> "idle", d |-> Idler.d, bias |-> "none", st |-> FALSE, probe |-> FALSE,
              next |-> 0, failed |-> FALSE, busySeen |-> FALSE, macs |-> 0]
  /\ Loadable(Idler.d)
<1>1. Idler.d = [f \in Fields |-> ResetField(f)]
  BY DEF Idler, Reset
<1>2. \A f \in Fields : ResetField(f) \in {0, 4, 16} /\ ResetField("POST_CFG") = 0
  BY DEF ResetField
<1>3. Word(0) /\ Word(4) /\ Word(16)
  BY Words
<1>4. Loadable(Idler.d)
  BY <1>1, <1>2, <1>3 DEF Loadable, Fields
<1>5. QED
  BY <1>4 DEF Idler

LEMMA CallStep ==
  ASSUME DeviceOK, NEW d, Loadable(d), NEW bias, NEW st \in BOOLEAN, NEW m, Call(d, bias, st, m)
  PROVE  /\ DeviceOK' /\ CpuOK'
         /\ cpu'.at = "clear" /\ cpu'.d = d /\ ~cpu'.probe
<1>1. cpu.at = "idle" /\ Cycle(Idle) /\ Idle \in Harmless
  BY DEF Call, Device, Harmless
<1>2. cpu' = [at |-> "clear", d |-> d, bias |-> bias, st |-> st, probe |-> FALSE,
              next |-> 0, failed |-> FALSE, busySeen |-> FALSE, macs |-> 0]
  BY DEF Call, Idler
<1>3. CpuOK'
  BY <1>2 DEF CpuOK, Points
<1>4. DeviceOK'
  BY <1>1, <1>2, OutsideStep
<1>5. QED
  BY <1>2, <1>3, <1>4

LEMMA BackStep ==
  ASSUME DeviceOK, Back, NEW m, Device(Idle, m)
  PROVE  DeviceOK' /\ CpuOK' /\ cpu'.at = "idle" /\ ~cpu'.probe
<1>1. cpu.at = "return" /\ Cycle(Idle) /\ Idle \in Harmless /\ cpu' = Idler
  BY DEF Back, Device, Harmless
<1>2. CpuOK'
  <2>1. cpu' = [at |-> "idle", d |-> Idler.d, bias |-> "none", st |-> FALSE, probe |-> FALSE,
                next |-> 0, failed |-> FALSE, busySeen |-> FALSE, macs |-> 0]
    BY <1>1, IdlerIs
  <2>2. cpu'.d = Idler.d
    BY <1>1
  <2>3. QED
    BY <2>1, <2>2, IdlerIs DEF CpuOK, Points
<1>3. DeviceOK'
  BY <1>1, IdlerIs, OutsideStep
<1>4. QED
  BY <1>1, <1>2, <1>3, IdlerIs

(* Where a step of accel_run() takes the CPU, its arguments unchanged. *)
LEMMA RunStep ==
  ASSUME DeviceOK, CpuOK, AccelRun, cpu.probe => cpu.d = bad
  PROVE  /\ DeviceOK' /\ CpuOK'
         /\ cpu'.d = cpu.d /\ (cpu'.probe <=> cpu.probe)
         /\ cpu'.at # "idle"
         /\ cpu'.at \in ProbePoints => cpu.probe
         /\ cpu'.at \in {"counters", "clearAgain", "return"} =>
              cpu.at \in {"poll", "counters", "clearAgain"}
         /\ cpu'.at = "poll" => cpu.at = "poll" \/ ~cpu.probe
<1>1. CASE Clear
  <2>1. /\ cpu.at = "clear" /\ Cycle(accel_dma_clear_events) /\ cpu.next = 0
        /\ cpu' = [cpu EXCEPT !.at = IF cpu.bias = "none" THEN "program" ELSE "bias"]
    BY <1>1 DEF Clear, Access, Device, CpuOK
  <2>2. accel_dma_clear_events \in Harmless
    BY DEF Harmless
  <2>3. cpu'.at \in {"program", "bias"} /\ cpu'.next = 0 /\ cpu'.d = cpu.d /\ cpu'.probe = cpu.probe
    BY <2>1 DEF CpuOK
  <2>4. CpuOK'
    BY <2>1, <2>3, OrderCovers DEF CpuOK, Points
  <2>5. DeviceOK'
    BY <2>1, <2>2, <2>3, OutsideStep
  <2>6. QED
    BY <2>1, <2>3, <2>4, <2>5 DEF ProbePoints
<1>2. CASE LoadBias
  <2>1. cpu.at = "bias"
    BY <1>2 DEF LoadBias
  <2>2. \E w \in Harmless : Cycle(w)
    BY <1>2 DEF LoadBias, Access, Device, Harmless
  <2>3. \/ cpu' = [cpu EXCEPT !.next = @ + 1]
        \/ cpu' = [cpu EXCEPT !.at = "program", !.next = 0]
    BY <1>2 DEF LoadBias
  <2>4. /\ cpu'.at \in {"bias", "program"} /\ cpu'.d = cpu.d /\ cpu'.probe = cpu.probe
        /\ cpu'.at = "program" => cpu'.next = 0
    BY <2>1, <2>3 DEF CpuOK
  <2>5. CpuOK'
    <3>1. CASE cpu' = [cpu EXCEPT !.next = @ + 1]
      BY <2>1, <2>4, <3>1 DEF CpuOK, Points
    <3>2. CASE cpu' = [cpu EXCEPT !.at = "program", !.next = 0]
      <4>1. 0 < Len(ProgramOrder)
        BY OrderCovers
      <4>2. cpu'.next = 0 /\ cpu'.macs = cpu.macs /\ cpu'.bias = cpu.bias
        BY <3>2 DEF CpuOK
      <4>3. QED
        BY <2>1, <2>4, <3>2, <4>1, <4>2 DEF CpuOK, Points
    <3>3. QED
      BY <2>3, <3>1, <3>2
  <2>6. DeviceOK'
    BY <2>1, <2>2, <2>4, OutsideStep
  <2>7. QED
    BY <2>1, <2>4, <2>5, <2>6 DEF ProbePoints
<1>3. CASE Program
  <2>1. \/ cpu' = [cpu EXCEPT !.next = @ + 1] /\ cpu.next + 1 < Len(ProgramOrder)
        \/ cpu' = [cpu EXCEPT !.next = 0, !.at = "start"]
    BY <1>3 DEF Program
  <2>2. cpu.at = "program"
    BY <1>3 DEF Program
  <2>3. cpu'.at \in {"program", "start"} /\ cpu'.d = cpu.d /\ cpu'.probe = cpu.probe
    BY <2>1, <2>2 DEF CpuOK
  <2>4. CpuOK'
    <3>1. CASE cpu' = [cpu EXCEPT !.next = @ + 1] /\ cpu.next + 1 < Len(ProgramOrder)
      BY <2>2, <2>3, <3>1 DEF CpuOK, Points
    <3>2. CASE cpu' = [cpu EXCEPT !.next = 0, !.at = "start"]
      BY <2>2, <2>3, <3>2 DEF CpuOK, Points
    <3>3. QED
      BY <2>1, <3>1, <3>2
  <2>5. DeviceOK'
    BY <1>3, ProgramStep
  <2>6. QED
    BY <2>2, <2>3, <2>4, <2>5 DEF ProbePoints
<1>4. CASE StartJob
  <2>1. /\ cpu.at = "start"
        /\ cpu' = [cpu EXCEPT !.at = IF cpu.probe THEN "probe" ELSE "poll"]
    BY <1>4 DEF StartJob
  <2>2. cpu'.at = (IF cpu.probe THEN "probe" ELSE "poll") /\ cpu'.d = cpu.d /\ cpu'.probe = cpu.probe
    BY <2>1 DEF CpuOK
  <2>3. CpuOK'
    BY <2>1, <2>2 DEF CpuOK, Points
  <2>4. DeviceOK'
    BY <1>4, StartJobStep
  <2>5. QED
    BY <2>1, <2>2, <2>3, <2>4 DEF ProbePoints
<1>5. CASE Poll
  <2>1. cpu.at = "poll" /\ Cycle(Idle) /\ Idle \in Harmless
    BY <1>5 DEF Poll, Device, Harmless
  <2>2. CASE KeepPolling(accel_dma_status)
    <3>1. cpu' = cpu
      BY <1>5, <2>2 DEF Poll
    <3>2. DeviceOK'
      BY <2>1, <3>1, WaitingStep
    <3>3. CpuOK'
      BY <3>1 DEF CpuOK
    <3>4. QED
      BY <2>1, <3>1, <3>2, <3>3 DEF ProbePoints
  <2>3. CASE ~KeepPolling(accel_dma_status)
    <3>1. ~DmaBusy(eng) /\ (desc.done \/ desc.error)
      BY <2>3 DEF KeepPolling, accel_dma_status, Status
    <3>2. cpu' = [cpu EXCEPT !.at = IF cpu.st THEN "counters" ELSE "clearAgain", !.failed = desc.error]
      BY <1>5, <2>3 DEF Poll, accel_dma_status, Status
    <3>3. cpu'.at \in {"counters", "clearAgain"} /\ cpu'.d = cpu.d /\ cpu'.probe = cpu.probe
          /\ cpu'.failed = desc.error
      BY <3>2 DEF CpuOK
    <3>4. desc.error \in BOOLEAN
      BY DEF DeviceOK, IInv, TypeOK
    <3>5. CpuOK'
      BY <3>2, <3>3, <3>4 DEF CpuOK, Points
    <3>6. DeviceOK'
      BY <2>1, <3>1, <3>3, PollEndStep
    <3>7. QED
      BY <2>1, <3>3, <3>5, <3>6 DEF ProbePoints
  <2>4. QED
    BY <2>2, <2>3
<1>6. CASE ReadCounters
  <2>1. /\ cpu.at = "counters" /\ Cycle(Idle)
        /\ cpu' = [cpu EXCEPT !.at = "clearAgain", !.macs = accel_dma_performance(job.cfg)]
    BY <1>6 DEF ReadCounters, Access, Device
  <2>2. cpu'.at = "clearAgain" /\ cpu'.d = cpu.d /\ cpu'.probe = cpu.probe /\ cpu'.failed = cpu.failed
    BY <2>1 DEF CpuOK
  <2>3. CpuOK'
    BY <2>1, <2>2 DEF CpuOK, Points
  <2>4. DeviceOK'
    BY <2>1, <2>2, CountersStep
  <2>5. QED
    BY <2>1, <2>2, <2>3, <2>4 DEF ProbePoints
<1>7. CASE ClearAgain
  <2>1. /\ cpu.at = "clearAgain" /\ Cycle(accel_dma_clear_events)
        /\ cpu' = [cpu EXCEPT !.at = "return"]
    BY <1>7 DEF ClearAgain, Access, Device
  <2>2. cpu'.at = "return" /\ cpu'.d = cpu.d /\ cpu'.probe = cpu.probe
    BY <2>1 DEF CpuOK
  <2>3. CpuOK'
    BY <2>1, <2>2 DEF CpuOK, Points
  <2>4. DeviceOK'
    BY <2>1, <2>2, OutsideStep DEF Harmless
  <2>5. QED
    BY <2>1, <2>2, <2>3, <2>4 DEF ProbePoints
<1>8. QED
  BY <1>1, <1>2, <1>3, <1>4, <1>5, <1>6, <1>7 DEF AccelRun

-----------------------------------------------------------------------------
(* The whole invariant, step by step. *)

LEMMA BetweenStep ==
  ASSUME DemoIInv, Between
  PROVE  DemoIInv'
<1>1. Cycle(Idle) /\ Idle \in Harmless /\ cpu' = cpu /\ main' = main
  BY DEF Between, Compute, Access, Device, Harmless
<1>2. DeviceOK'
  BY <1>1, WaitingStep DEF DemoIInv
<1>3. CpuOK' /\ Probing' /\ MainOK'
  BY <1>1 DEF DemoIInv, CpuOK, Probing, MainOK
<1>4. QED
  BY <1>2, <1>3 DEF DemoIInv

LEMMA AbortStep ==
  ASSUME DemoIInv, Abort
  PROVE  DemoIInv'
<1>1. /\ Cycle(accel_dma_abort) /\ accel_dma_abort \in Harmless
      /\ accel_dma_abort \in {Idle, accel_dma_abort} /\ cpu' = cpu /\ main' = main
  BY DEF Abort, Access, Device, Harmless
<1>2. DeviceOK'
  BY <1>1, WaitingStep DEF DemoIInv
<1>3. CpuOK' /\ Probing' /\ MainOK'
  BY <1>1 DEF DemoIInv, CpuOK, Probing, MainOK
<1>4. QED
  BY <1>2, <1>3 DEF DemoIInv

LEMMA DriverStep ==
  ASSUME DemoIInv, Driver
  PROVE  DemoIInv'
<1>1. AccelRun /\ main' = main /\ DeviceOK /\ CpuOK /\ (cpu.probe => cpu.d = bad)
  BY DEF Driver, DemoIInv, Probing
<1>2. /\ DeviceOK' /\ CpuOK'
      /\ cpu'.d = cpu.d /\ (cpu'.probe <=> cpu.probe)
      /\ cpu'.at # "idle"
      /\ cpu'.at \in ProbePoints => cpu.probe
      /\ cpu'.at \in {"counters", "clearAgain", "return"} =>
           cpu.at \in {"poll", "counters", "clearAgain"}
      /\ cpu'.at = "poll" => cpu.at = "poll" \/ ~cpu.probe
  BY <1>1, RunStep
<1>3. Probing'
  BY <1>1, <1>2 DEF DemoIInv, Probing
<1>4. MainOK'
  BY <1>1 DEF DemoIInv, MainOK
<1>5. QED
  BY <1>2, <1>3, <1>4 DEF DemoIInv

(* A call leaves the illegal descriptor behind. *)
LEMMA CallKeeps ==
  ASSUME DeviceOK, NEW d, Loadable(d), NEW bias, NEW st \in BOOLEAN, NEW m, Call(d, bias, st, m)
  PROVE  DeviceOK' /\ CpuOK' /\ Probing' /\ cpu.at = "idle"
<1>1. DeviceOK' /\ CpuOK' /\ cpu'.at = "clear" /\ ~cpu'.probe
  BY CallStep
<1>2. QED
  BY <1>1 DEF Probing, ProbePoints, Call

LEMMA BackKeeps ==
  ASSUME DeviceOK, Back, NEW m, Device(Idle, m)
  PROVE  DeviceOK' /\ CpuOK' /\ Probing'
<1>1. DeviceOK' /\ CpuOK' /\ cpu'.at = "idle" /\ ~cpu'.probe
  BY BackStep
<1>2. QED
  BY <1>1 DEF Probing, ProbePoints

LEMMA SelfTestStep ==
  ASSUME DemoIInv, SelfTest
  PROVE  DemoIInv'
<1>1. main.at = "selftest" /\ main.i \in 1 .. 8
  BY ShapesFit DEF SelfTest, DemoIInv, MainOK
<1>2. DeviceOK' /\ CpuOK' /\ Probing'
  BY <1>1, SelfTestLoadable, CallKeeps DEF SelfTest, DemoIInv
<1>3. \E x : main' = [main EXCEPT !.at = "selftestCheck", !.drawn = x]
  BY DEF SelfTest
<1>4. MainOK'
  BY <1>1, <1>3, ShapesFit DEF DemoIInv, MainOK, Sections
<1>5. QED
  BY <1>2, <1>4 DEF DemoIInv

LEMMA SelfTestCheckStep ==
  ASSUME DemoIInv, SelfTestCheck
  PROVE  DemoIInv'
<1>1. main.at = "selftestCheck" /\ main.i \in 1 .. 8
  BY ShapesFit DEF SelfTestCheck, DemoIInv, MainOK
<1>2. DeviceOK' /\ CpuOK' /\ Probing'
  BY BackKeeps DEF SelfTestCheck, DemoIInv
<1>3. PICK x : main' = [main EXCEPT !.failures = x,
                                  !.at = IF main.i < Len(shapes) THEN "selftest" ELSE "robustness",
                                  !.i = IF main.i < Len(shapes) THEN main.i + 1 ELSE 0]
  BY DEF SelfTestCheck
<1>4. MainOK'
  <2>1. CASE main.i < Len(shapes)
    <3>1. main' = [main EXCEPT !.failures = x, !.at = "selftest", !.i = main.i + 1]
      BY <1>3, <2>1
    <3>2. main.i + 1 \in 1 .. Len(shapes) /\ main.i + 1 \in Nat /\ main.layer = 1
      BY <1>1, <2>1, ShapesFit DEF DemoIInv, MainOK
    <3>3. QED
      BY <3>1, <3>2 DEF DemoIInv, MainOK, Sections
  <2>2. CASE ~(main.i < Len(shapes))
    <3>1. main' = [main EXCEPT !.failures = x, !.at = "robustness", !.i = 0]
      BY <1>3, <2>2
    <3>2. main.layer = 1
      BY <1>1 DEF DemoIInv, MainOK
    <3>3. QED
      BY <3>1, <3>2 DEF DemoIInv, MainOK, Sections
  <2>3. QED
    BY <2>1, <2>2
<1>5. QED
  BY <1>2, <1>4 DEF DemoIInv

LEMMA RobustnessStep ==
  ASSUME DemoIInv, Robustness
  PROVE  DemoIInv'
<1>1. /\ main.at = "robustness" /\ cpu.at = "idle" /\ Cycle(Idle) /\ Idle \in Harmless
      /\ main' = [main EXCEPT !.at = "probe"]
      /\ cpu' = [Idler EXCEPT !.at = "clear", !.d = bad, !.probe = TRUE]
  BY DEF Robustness, Access, Device, Harmless
<1>2. cpu' = [at |-> "clear", d |-> bad, bias |-> "none", st |-> FALSE, probe |-> TRUE,
              next |-> 0, failed |-> FALSE, busySeen |-> FALSE, macs |-> 0]
  BY <1>1 DEF Idler
<1>3. cpu'.at = "clear" /\ cpu'.d = bad /\ cpu'.probe
  BY <1>2
<1>4. CpuOK'
  BY <1>2, <1>3, BadLoadable DEF CpuOK, Points
<1>5. DeviceOK'
  BY <1>1, <1>3, OutsideStep DEF DemoIInv
<1>6. MainOK' /\ main'.at = "probe"
  BY <1>1 DEF DemoIInv, MainOK, Sections
<1>7. Probing'
  BY <1>3, <1>6 DEF Probing, ProbePoints
<1>8. QED
  BY <1>4, <1>5, <1>6, <1>7 DEF DemoIInv

LEMMA ProbeStep ==
  ASSUME DemoIInv, Probe
  PROVE  DemoIInv'
<1>1. /\ cpu.at = "probe" /\ Cycle(Idle) /\ Idle \in Harmless
      /\ cpu.probe /\ cpu.d = bad /\ main.at = "probe"
  BY DEF Probe, Access, Device, Harmless, DemoIInv, Probing, ProbePoints
<1>2. PICK x \in BOOLEAN, y \in {"probe", "probeClear"} :
         cpu' = [cpu EXCEPT !.next = @ + 1, !.busySeen = x, !.at = y]
  <2>1. cpu.busySeen \/ accel_dma_status.busy \in BOOLEAN
    BY DEF DemoIInv, CpuOK, accel_dma_status, Status, DmaBusy
  <2>2. QED
    BY <2>1 DEF Probe
<1>3. \E z : main' = [main EXCEPT !.failures = z]
  BY DEF Probe
<1>4. cpu'.at \in {"probe", "probeClear"} /\ cpu'.d = cpu.d /\ cpu'.probe = cpu.probe
  BY <1>1, <1>2 DEF DemoIInv, CpuOK
<1>5. CpuOK'
  <2>1. cpu' = [at |-> y, d |-> cpu.d, bias |-> cpu.bias, st |-> cpu.st, probe |-> cpu.probe,
                next |-> cpu.next + 1, failed |-> cpu.failed, busySeen |-> x, macs |-> cpu.macs]
    BY <1>2 DEF DemoIInv, CpuOK
  <2>2. y \in Points /\ cpu.next + 1 \in Nat /\ cpu.st \in BOOLEAN /\ cpu.probe \in BOOLEAN
        /\ cpu.failed \in BOOLEAN /\ y # "program" /\ y # "clear" /\ Loadable(cpu.d)
    BY DEF DemoIInv, CpuOK, Points
  <2>3. QED
    BY <2>1, <2>2 DEF CpuOK
<1>6. DeviceOK'
  BY <1>1, <1>4, OutsideStep DEF DemoIInv
<1>7. MainOK' /\ main'.at = "probe"
  BY <1>1, <1>3 DEF DemoIInv, MainOK, Sections
<1>8. Probing'
  BY <1>1, <1>4, <1>7 DEF Probing, ProbePoints
<1>9. QED
  BY <1>5, <1>6, <1>7, <1>8 DEF DemoIInv

LEMMA ProbeClearStep ==
  ASSUME DemoIInv, ProbeClear
  PROVE  DemoIInv'
<1>1. /\ cpu.at = "probeClear" /\ Cycle(accel_dma_clear_events)
      /\ accel_dma_clear_events \in Harmless
      /\ cpu.probe /\ cpu.d = bad /\ main.at = "probe" /\ main' = main
      /\ cpu' = [cpu EXCEPT !.at = "probeCheck"]
  BY DEF ProbeClear, Access, Device, Harmless, DemoIInv, Probing, ProbePoints
<1>2. cpu'.at = "probeCheck" /\ cpu'.d = cpu.d /\ cpu'.probe = cpu.probe
  BY <1>1 DEF DemoIInv, CpuOK
<1>3. CpuOK'
  BY <1>1, <1>2 DEF DemoIInv, CpuOK, Points
<1>4. DeviceOK'
  BY <1>1, <1>2, OutsideStep DEF DemoIInv
<1>5. MainOK' /\ Probing'
  BY <1>1, <1>2 DEF DemoIInv, MainOK, Probing, ProbePoints
<1>6. QED
  BY <1>3, <1>4, <1>5 DEF DemoIInv

LEMMA ProbeCheckStep ==
  ASSUME DemoIInv, ProbeCheck
  PROVE  DemoIInv'
<1>1. /\ cpu.at = "probeCheck" /\ Cycle(Idle) /\ Idle \in Harmless
      /\ main.at = "probe" /\ cpu' = Idler
  BY DEF ProbeCheck, Access, Device, Harmless, DemoIInv, Probing, ProbePoints
<1>2. \E x : main' = [main EXCEPT !.failures = x, !.at = "recover"]
  BY DEF ProbeCheck
<1>3. cpu'.at = "idle" /\ ~cpu'.probe
  BY <1>1, IdlerIs
<1>4. CpuOK'
  <2>1. cpu' = [at |-> "idle", d |-> Idler.d, bias |-> "none", st |-> FALSE, probe |-> FALSE,
                next |-> 0, failed |-> FALSE, busySeen |-> FALSE, macs |-> 0]
    BY <1>1, IdlerIs
  <2>2. cpu'.d = Idler.d
    BY <1>1
  <2>3. QED
    BY <2>1, <2>2, IdlerIs DEF CpuOK, Points
<1>5. DeviceOK'
  BY <1>1, <1>3, OutsideStep DEF DemoIInv
<1>6. MainOK'
  BY <1>1, <1>2 DEF DemoIInv, MainOK, Sections
<1>7. QED
  BY <1>3, <1>4, <1>5, <1>6 DEF DemoIInv, Probing, ProbePoints

LEMMA RecoverStep ==
  ASSUME DemoIInv, Recover
  PROVE  DemoIInv'
<1>1. DeviceOK' /\ CpuOK' /\ Probing'
  BY RecoverLoadable, CallKeeps DEF Recover, DemoIInv
<1>2. main.at = "recover" /\ \E x : main' = [main EXCEPT !.at = "recoverCheck", !.drawn = x]
  BY DEF Recover
<1>3. MainOK'
  BY <1>2 DEF DemoIInv, MainOK, Sections
<1>4. QED
  BY <1>1, <1>3 DEF DemoIInv

LEMMA RecoverCheckStep ==
  ASSUME DemoIInv, RecoverCheck
  PROVE  DemoIInv'
<1>1. DeviceOK' /\ CpuOK' /\ Probing'
  BY BackKeeps DEF RecoverCheck, DemoIInv
<1>2. PICK x : main.at = "recoverCheck" /\ main' = [main EXCEPT !.failures = x, !.at = "gemm"]
  BY DEF RecoverCheck
<1>3. MainOK'
  <2>1. main.i = 0 /\ 0 < Batches
    BY <1>2, BatchesFit DEF DemoIInv, MainOK
  <2>2. QED
    BY <1>2, <2>1 DEF DemoIInv, MainOK, Sections
<1>4. QED
  BY <1>1, <1>3 DEF DemoIInv

LEMMA LayerCallStep ==
  ASSUME DemoIInv, LayerCall
  PROVE  DemoIInv'
<1>1. main' = main /\ main.at \in {"gemm", "fused"}
  BY DEF LayerCall
<1>2. main.i \in 0 .. 5 /\ main.layer \in {1, 2}
  BY <1>1, BatchesFit DEF DemoIInv, MainOK
<1>3. Loadable(LayerGemm(main.i)) /\ Loadable(LayerFused(main.i))
  BY <1>2, NetworkLoadable
<1>4. \E d, bias : Loadable(d) /\ Call(d, bias, TRUE, mem)
  BY <1>3 DEF LayerCall
<1>5. DeviceOK' /\ CpuOK' /\ Probing'
  BY <1>4, CallKeeps DEF DemoIInv
<1>6. MainOK'
  BY <1>1 DEF DemoIInv, MainOK
<1>7. QED
  BY <1>5, <1>6 DEF DemoIInv

(* The next batch, or the next mode. *)
LEMMA NextBatchIs ==
  ASSUME DemoIInv, NEW mode \in {"gemm", "fused", "cpu"}, main.at = mode
  PROVE  LET nb == NextBatch(mode)
         IN  /\ nb \in [at : Sections, i : Nat, layer : {1, 2}, failures : {main.failures},
                        drawn : {main.drawn}, macs : {main.macs}, verdict : {main.verdict}]
             /\ nb.layer = 1
             /\ (nb.at \in {"gemm", "fused", "cpu"} /\ nb.i < Batches) \/ nb.at = "report"
<1> DEFINE at == IF main.i + 1 < Batches THEN mode
                 ELSE CASE mode = "gemm" -> "fused" [] mode = "fused" -> "cpu"
                        [] mode = "cpu" -> "report"
           i == IF main.i + 1 < Batches THEN main.i + 1 ELSE 0
<1>1. NextBatch(mode) = [main EXCEPT !.layer = 1, !.i = i, !.at = at]
  BY DEF NextBatch
<1>2. i \in Nat /\ i < Batches
  BY BatchesFit DEF DemoIInv, MainOK
<1>3. at \in {"gemm", "fused", "cpu", "report"}
  OBVIOUS
<1> HIDE DEF at, i
<1>4. QED
  BY <1>1, <1>2, <1>3 DEF DemoIInv, MainOK, Sections

LEMMA LayerReturnStep ==
  ASSUME DemoIInv, LayerReturn
  PROVE  DemoIInv'
<1>1. main.at \in {"gemm", "fused"}
  BY DEF LayerReturn
<1>2. DeviceOK' /\ CpuOK' /\ Probing'
  BY BackKeeps DEF LayerReturn, DemoIInv
<1> DEFINE nb == NextBatch(main.at)
<1>3. /\ nb \in [at : Sections, i : Nat, layer : {1, 2}, failures : {main.failures},
                 drawn : {main.drawn}, macs : {main.macs}, verdict : {main.verdict}]
      /\ nb.layer = 1
      /\ (nb.at \in {"gemm", "fused", "cpu"} /\ nb.i < Batches) \/ nb.at = "report"
  BY <1>1, NextBatchIs
<1> HIDE DEF nb
<1>4. CASE main.layer = 1
  <2>1. main' = Counted([main EXCEPT !.layer = 2], main.at)
    BY <1>4 DEF LayerReturn
  <2> DEFINE x == Fail(main.failures, cpu.failed)
             y == [main.macs EXCEPT ![main.at] = @ + cpu.macs]
  <2>2. main' = [main EXCEPT !.layer = 2, !.failures = x, !.macs = y]
    BY <2>1 DEF Counted, DemoIInv, MainOK
  <2> HIDE DEF x, y
  <2>3. main' = [at |-> main.at, i |-> main.i, layer |-> 2, failures |-> x, drawn |-> main.drawn,
                 macs |-> y, verdict |-> main.verdict]
    BY <2>2 DEF DemoIInv, MainOK
  <2>4. main.at \in Sections /\ main.i \in Nat /\ main.i < Batches
    BY <1>1 DEF DemoIInv, MainOK
  <2>5. MainOK'
    BY <1>1, <2>3, <2>4 DEF MainOK
  <2>6. QED
    BY <1>2, <2>5 DEF DemoIInv
<1>5. CASE main.layer # 1
  <2>1. main' = Counted(nb, main.at)
    BY <1>5 DEF LayerReturn, nb
  <2> DEFINE x == Fail(nb.failures, cpu.failed)
             y == [nb.macs EXCEPT ![main.at] = @ + cpu.macs]
  <2>2. main' = [nb EXCEPT !.failures = x, !.macs = y]
    BY <2>1 DEF Counted
  <2> HIDE DEF x, y
  <2>3. main' = [at |-> nb.at, i |-> nb.i, layer |-> 1, failures |-> x, drawn |-> main.drawn,
                 macs |-> y, verdict |-> main.verdict]
    BY <1>3, <2>2
  <2>4. nb.at \in Sections /\ nb.i \in Nat
    BY <1>3
  <2>5. MainOK'
    BY <1>3, <2>3, <2>4 DEF MainOK
  <2>6. QED
    BY <1>2, <2>5 DEF DemoIInv
<1>6. QED
  BY <1>4, <1>5

LEMMA CpuBatchStep ==
  ASSUME DemoIInv, CpuBatch
  PROVE  DemoIInv'
<1>1. /\ main.at = "cpu" /\ cpu.at = "idle" /\ Cycle(Idle) /\ Idle \in Harmless
      /\ main' = NextBatch("cpu") /\ cpu' = cpu
  BY DEF CpuBatch, Device, Harmless
<1>2. DeviceOK'
  BY <1>1, WaitingStep DEF DemoIInv
<1>3. /\ main' \in [at : Sections, i : Nat, layer : {1, 2}, failures : {main.failures},
                    drawn : {main.drawn}, macs : {main.macs}, verdict : {main.verdict}]
      /\ main'.layer = 1
      /\ (main'.at \in {"gemm", "fused", "cpu"} /\ main'.i < Batches) \/ main'.at = "report"
  BY <1>1, NextBatchIs
<1>4. MainOK'
  <2>1. main' = [at |-> main'.at, i |-> main'.i, layer |-> 1, failures |-> main'.failures,
                 drawn |-> main'.drawn, macs |-> main'.macs, verdict |-> main'.verdict]
    BY <1>3
  <2>2. main'.at \in Sections /\ main'.i \in Nat
    BY <1>3
  <2>3. QED
    BY <1>3, <2>1, <2>2 DEF MainOK
<1>5. CpuOK' /\ Probing'
  BY <1>1 DEF DemoIInv, CpuOK, Probing
<1>6. QED
  BY <1>2, <1>4, <1>5 DEF DemoIInv

LEMMA ReportStep ==
  ASSUME DemoIInv, Report
  PROVE  DemoIInv'
<1>1. /\ main.at = "report" /\ cpu.at = "idle" /\ Cycle(Idle) /\ Idle \in Harmless /\ cpu' = cpu
  BY DEF Report, Access, Device, Harmless
<1>2. PICK x, y : main' = [main EXCEPT !.at = "halt", !.failures = x, !.verdict = y]
  BY DEF Report
<1>3. DeviceOK'
  BY <1>1, WaitingStep DEF DemoIInv
<1>4. MainOK'
  BY <1>1, <1>2 DEF DemoIInv, MainOK, Sections
<1>5. CpuOK' /\ Probing'
  BY <1>1 DEF DemoIInv, CpuOK, Probing
<1>6. QED
  BY <1>3, <1>4, <1>5 DEF DemoIInv

LEMMA OtherCallStep ==
  ASSUME DemoIInv, OtherCall
  PROVE  DemoIInv'
<1>1. PICK d \in Descriptors : Call(d, "none", FALSE, mem) /\ main' = main
  BY DEF OtherCall
<1>2. Loadable(d)
  BY DemoAssumption
<1>3. DeviceOK' /\ CpuOK' /\ Probing'
  BY <1>1, <1>2, CallKeeps DEF DemoIInv
<1>4. MainOK'
  BY <1>1 DEF DemoIInv, MainOK
<1>5. QED
  BY <1>3, <1>4 DEF DemoIInv

LEMMA OtherReturnStep ==
  ASSUME DemoIInv, OtherReturn
  PROVE  DemoIInv'
<1>1. Back /\ Device(Idle, mem) /\ main' = main
  BY DEF OtherReturn, Access
<1>2. DeviceOK' /\ CpuOK' /\ Probing'
  BY <1>1, BackKeeps DEF DemoIInv
<1>3. MainOK'
  BY <1>1 DEF DemoIInv, MainOK
<1>4. QED
  BY <1>2, <1>3 DEF DemoIInv

LEMMA DemoStarts ==
  ASSUME DemoInit
  PROVE  DemoIInv
<1>1. /\ Init /\ cpu = Idler /\ desc = Reset /\ job = NoJob
      /\ eng = [x \in Engines |-> Quiet]
  BY DEF DemoInit, DeviceInit, Init
<1>2. IInv
  BY <1>1, InitIInv
<1>3. CpuOK
  <2>1. cpu = [at |-> "idle", d |-> Idler.d, bias |-> "none", st |-> FALSE, probe |-> FALSE,
               next |-> 0, failed |-> FALSE, busySeen |-> FALSE, macs |-> 0]
    BY <1>1, IdlerIs
  <2>2. cpu.d = Idler.d
    BY <1>1
  <2>3. QED
    BY <2>1, <2>2, IdlerIs DEF CpuOK, Points
<1>4. cpu.at = "idle" /\ ~cpu.probe
  BY <1>1, IdlerIs
<1>5. job.verdict = "none" /\ ~DmaBusy(eng)
  BY <1>1 DEF NoJob, DmaBusy, Quiet
<1>6. desc.cfg \in [Fields -> Nat] /\ desc.cfg["POST_CFG"] < 256
  <2>1. desc.cfg = Idler.d
    BY <1>1 DEF Idler
  <2>2. QED
    BY <2>1, IdlerIs DEF Loadable
<1>7. DeviceOK
  BY <1>2, <1>4, <1>5, <1>6 DEF DeviceOK, Blame, Rested, Programmed, Own
<1>8. PICK section \in {"selftest", "otherCaller"} :
         main = [at |-> section, i |-> 1, layer |-> 1, failures |-> 0, drawn |-> 0,
                 macs |-> [mode \in {"gemm", "fused"} |-> 0], verdict |-> "none"]
  BY DEF DemoInit
<1>9. MainOK
  <2>1. /\ main = [at |-> section, i |-> 1, layer |-> 1, failures |-> main.failures, drawn |-> main.drawn,
                   macs |-> main.macs, verdict |-> main.verdict]
        /\ section \in Sections
    BY <1>8 DEF Sections
  <2>2. 1 \in 1 .. Len(shapes)
    BY ShapesFit
  <2>3. QED
    BY <2>1, <2>2 DEF MainOK
<1>10. Probing
  BY <1>4 DEF Probing, ProbePoints
<1>11. QED
  BY <1>3, <1>7, <1>9, <1>10 DEF DemoIInv

LEMMA DemoContinues ==
  ASSUME DemoIInv, [DemoNext]_allvars
  PROVE  DemoIInv'
<1>1. CASE DemoNext
  BY <1>1, BetweenStep, DriverStep, SelfTestStep, SelfTestCheckStep, RobustnessStep, ProbeStep,
     ProbeClearStep, ProbeCheckStep, RecoverStep, RecoverCheckStep, LayerCallStep, LayerReturnStep,
     CpuBatchStep, ReportStep, OtherCallStep, OtherReturnStep, AbortStep DEF DemoNext, Main
<1>2. CASE UNCHANGED allvars
  <2>1. /\ desc' = desc /\ shell' = shell /\ eng' = eng /\ job' = job /\ mem' = mem
        /\ cpu' = cpu /\ main' = main
    BY <1>2 DEF allvars, softVars
  <2>2. IInv'
    BY <2>1 DEF DemoIInv, DeviceOK, IInv, TypeOK, Working, Completion, DoneCounted, ErrorCounted, AnyError
  <2>3. Blame' /\ Rested' /\ Programmed' /\ Own' /\ CpuOK' /\ Probing' /\ MainOK'
    BY <2>1 DEF DemoIInv, DeviceOK, Blame, Rested, Programmed, Own, CpuOK, Probing, MainOK, AnyError, DmaBusy
  <2>4. QED
    BY <2>2, <2>3 DEF DemoIInv, DeviceOK
<1>3. QED
  BY <1>1, <1>2

(* Every state the firmware takes the device to satisfies the invariant. *)
THEOREM FirmwareInvariance == DemoSpec => []DemoIInv
BY DemoStarts, DemoContinues, PTL DEF DemoSpec

(* What a returned call says of its job is true of the job its caller       *)
(* described: no field was lost on a busy shell, no engine is still at work *)
(* for it, and -1 means a refused START or a failed engine, of this job.    *)
THEOREM ReturnsAreExact == DemoSpec => []ReturnExact
<1>1. DemoIInv => ReturnExact
  <2> SUFFICES ASSUME DemoIInv, cpu.at = "clearAgain"
               PROVE  /\ job.verdict # "none" /\ job.cfg = cpu.d /\ job.running = {}
                      /\ cpu.failed <=> (job.verdict = "rejected" \/ job.failed)
    BY DEF ReturnExact
  <2>1. ~DmaBusy(eng) /\ job.running = {x \in Engines : eng[x].busy}
    BY DEF DemoIInv, DeviceOK, Rested, IInv, Working
  <2>2. job.running = {}
    BY <2>1 DEF DmaBusy
  <2>3. QED
    BY <2>2 DEF DemoIInv, DeviceOK, Own
<1>2. QED
  BY <1>1, FirmwareInvariance, PTL

(* Only accel_dma_start() starts a job. *)
LEMMA StartsOnlyThere ==
  ASSUME DemoIInv, DemoNext, ~StartJob
  PROVE  \E w : Cycle(w) /\ ~Start(w, eng)
<1>1. CASE Program
  <2> DEFINE f == ProgramOrder[cpu.next + 1]
  <2>1. f \in Fields
    <3>1. cpu.next + 1 \in 1 .. 12
      BY <1>1, OrderCovers DEF Program, DemoIInv, CpuOK
    <3>2. QED
      BY <3>1, OrderCovers
  <2>2. Cycle(accel_write(f, cpu.d[f]))
    BY <1>1 DEF Program, Access, Device
  <2>3. QED
    BY <2>1, <2>2, FieldWrites
<1>2. CASE ~Program
  <2>1. \E w \in Harmless : Cycle(w)
    <3>1. CASE Between
      BY <3>1 DEF Between, Compute, Access, Device, Harmless
    <3>2. CASE Driver
      BY <1>2, <3>2 DEF Driver, AccelRun, Clear, LoadBias, Poll, ReadCounters, ClearAgain,
                        Access, Device, Harmless
    <3>3. CASE Main
      <4>1. CASE SelfTest \/ SelfTestCheck \/ Recover \/ RecoverCheck
        BY <4>1 DEF SelfTest, SelfTestCheck, Recover, RecoverCheck, Call, Device, Harmless
      <4>2. CASE Robustness \/ Probe \/ ProbeClear \/ ProbeCheck
        BY <4>2 DEF Robustness, Probe, ProbeClear, ProbeCheck, Access, Device, Harmless
      <4>3. CASE LayerCall \/ LayerReturn \/ CpuBatch \/ Report
        BY <4>3 DEF LayerCall, LayerReturn, CpuBatch, Report, Call, Access, Device, Harmless
      <4>4. QED
        BY <3>3, <4>1, <4>2, <4>3 DEF Main
    <3>4. CASE OtherCall \/ OtherReturn \/ Abort
      BY <3>4 DEF OtherCall, OtherReturn, Abort, Call, Access, Device, Harmless
    <3>5. QED
      BY <3>1, <3>2, <3>3, <3>4 DEF DemoNext
  <2>2. QED
    BY <2>1, HarmlessWrites
<1>3. QED
  BY <1>1, <1>2

(* "Each accepted job raises DONE exactly once": this software never starts  *)
(* a job before the last one has raised its DONE, even where the poll ended  *)
(* on an ERROR.                                                              *)
THEOREM EveryJobIsReported == DemoSpec => EveryJobReportedHere
<1>1. ASSUME DemoIInv, [DemoNext]_allvars
      PROVE  [Accepted /\ job.verdict = "accepted" => job.dones = 1]_softVars
  <2>1. CASE UNCHANGED allvars
    BY <2>1 DEF allvars
  <2>2. CASE StartJob
    <3>1. cpu.at = "start"
      BY <2>2 DEF StartJob
    <3>2. job.verdict = "accepted" => job.dones = 1
      BY <1>1, <3>1 DEF DemoIInv, DeviceOK, Rested
    <3>3. QED
      BY <3>2
  <2>3. CASE DemoNext /\ ~StartJob
    <3>1. PICK w : Cycle(w) /\ ~Start(w, eng)
      BY <1>1, <2>3, StartsOnlyThere
    <3>2. ~Accept(w, eng) /\ "C" \in Engines /\ TypeOK
      BY <1>1, <3>1 DEF Accept, Engines, DemoIInv, DeviceOK, IInv
    <3>3. ~eng["C"].busy => ~eng'["C"].busy
      BY <3>1, <3>2, EnginesStep, Zenon
    <3>4. ~Accepted
      BY <3>3 DEF Accepted
    <3>5. QED
      BY <3>4
  <2>4. QED
    BY <1>1, <2>1, <2>2, <2>3
<1>2. QED
  BY <1>1, FirmwareInvariance, PTL DEF DemoSpec, EveryJobReportedHere

-----------------------------------------------------------------------------
(* The jobs of main() and what they touch.  Stores are the addresses where  *)
(* a value of main() may begin.                                             *)
Modes == {"gemm", "fused", "cpu"}
Stores ==
  {At[a] : a \in {"ta", "tb", "tc_hw", "tc_sw", "acc1", "acc2"}} \cup
  {H(mode, i) : mode \in Modes, i \in 0 .. 5} \cup {O(mode, i) : mode \in Modes, i \in 0 .. 5}

Inside(first, words, arrays) == \E a \in arrays : Within(first, 4 * words, a)

(* Nothing else begins in the words that follow. *)
Alone(first, words) ==
  first \in Stores /\ \A x \in Stores \ {first} : x - first \notin 0 .. 4 * words - 1

ResultWords(c) ==
  IF Bit(c["POST_CFG"], 1) THEN PackedWords(c["M"] * c["N"]) ELSE c["M"] * c["N"]

Sound(c) ==
  /\ c["TILE_M"] = ArrayN /\ c["TILE_N"] = ArrayN /\ c["TILE_K"] \in Dim
  /\ c["M"] \in Dim /\ c["N"] \in Dim /\ c["K"] \in Dim
  /\ \A f \in {"A_BASE", "B_BASE", "C_BASE"} : c[f] % 4 = 0
  /\ Inside(c["A_BASE"], PackedWords(c["M"] * c["K"]), DOMAIN At)
  /\ Inside(c["B_BASE"], PackedWords(c["K"] * c["N"]), DOMAIN At)
  /\ Inside(c["C_BASE"], ResultWords(c), DOMAIN At \ Constants)
  /\ Alone(c["C_BASE"], ResultWords(c))

Tidy(m) == m = [ram |-> m.ram, cache |-> m.cache] /\ DOMAIN m.ram \subseteq Stores

(* While main() runs, every call but the probe passes a sound descriptor,   *)
(* every job but the refused one is sound, and RAM holds values only where  *)
(* they may begin.                                                          *)
KnownJobs ==
  main.at # "otherCaller" =>
    /\ Tidy(mem)
    /\ cpu.at # "idle" => cpu.d = bad \/ Sound(cpu.d)
    /\ job.verdict # "none" =>
         /\ job.verdict = "rejected" <=> job.cfg = bad
         /\ job.cfg = bad \/ Sound(job.cfg)

(* START accepts what is sound. *)
LEMMA SoundLegal ==
  ASSUME desc.cfg = bad \/ Sound(desc.cfg)
  PROVE  Legal <=> desc.cfg # bad
<1>1. desc.cfg = bad => ~Legal
  BY BadRefused
<1>2. ASSUME Sound(desc.cfg) PROVE Legal
  <2>1. ArrayN % 4 = 0 /\ ArrayN \in Nat \ {0}
        /\ 64 <= MaxM /\ 64 <= MaxN /\ 64 <= MaxK
        /\ MaxM \in Nat /\ MaxN \in Nat /\ MaxK \in Nat
    BY Sizes, DemoAssumption DEF MAX_DIM
  <2>2. TileOK(ArrayN)
    BY <2>1 DEF TileOK
  <2>3. \A d \in Dim : DimOK(d, MaxM) /\ DimOK(d, MaxN) /\ DimOK(d, MaxK)
    BY <2>1 DEF DimOK, Dim
  <2>4. QED
    BY <1>2, <2>2, <2>3 DEF Legal, Cfg, Sound
<1>3. QED
  BY <1>1, <1>2

LEMMA SoundNotBad ==
  ASSUME NEW c, Sound(c)
  PROVE  c # bad
<1>1. ArrayN % 4 = 0 /\ c["TILE_M"] = ArrayN
  BY DemoAssumption DEF Sound
<1>2. bad["TILE_M"] = 3
  BY DEF bad, Descriptor
<1>3. QED
  BY <1>1, <1>2

LEMMA TidySteps ==
  ASSUME NEW m, Tidy(m), NEW x, NEW v
  PROVE  /\ Tidy(Loaded(m, x)) /\ Tidy(Flushed(m))
         /\ x \in Stores => Tidy(Stored(m, x, v)) /\ Tidy(Written(m, x, v))
<1>1. \A f, y, u : DOMAIN With(f, y, u) = DOMAIN f \cup {y}
  BY DEF With
<1> DEFINE r == With(m.ram, x, v)
           s == With(m.cache, x, v)
           t == With(m.cache, x, Load(m, x))
<1>2. /\ Loaded(m, x) = [ram |-> m.ram, cache |-> t]
      /\ Flushed(m) = [ram |-> m.ram, cache |-> <<>>]
      /\ Stored(m, x, v) = [ram |-> r, cache |-> s]
      /\ Written(m, x, v) = [ram |-> r, cache |-> m.cache]
  BY DEF Tidy, Loaded, Flushed, Stored, Written
<1>3. DOMAIN r = DOMAIN m.ram \cup {x}
  BY <1>1
<1> HIDE DEF r, s, t
<1>4. QED
  BY <1>2, <1>3 DEF Tidy

(* The DMA writes at the C_BASE of the job alone. *)
LEMMA TidyKept ==
  ASSUME DemoIInv, KnownJobs, main.at # "otherCaller", NEW w, NEW m, Device(w, m), Tidy(m)
  PROVE  Tidy(mem')
<1>1. \/ mem' = m
      \/ CEnds /\ mem' = Written(m, job.cfg["C_BASE"], Result(job.cfg))
  BY DEF Device
<1>2. CASE CEnds /\ mem' = Written(m, job.cfg["C_BASE"], Result(job.cfg))
  <2>1. "C" \in Engines /\ eng["C"].busy
    BY <1>2 DEF CEnds, Engines
  <2>2. job.running # {} /\ job.verdict = "accepted"
    BY <2>1 DEF DemoIInv, DeviceOK, IInv, Working
  <2>3. Sound(job.cfg)
    BY <2>2 DEF KnownJobs
  <2>4. job.cfg["C_BASE"] \in Stores
    BY <2>3 DEF Sound, Alone
  <2>5. QED
    BY <1>2, <2>4, TidySteps
<1>3. QED
  BY <1>1, <1>2

LEMMA KnownKept ==
  ASSUME DemoIInv, KnownJobs, NEW w, NEW m, Device(w, m), ~Start(w, eng),
         main.at # "otherCaller" => Tidy(m),
         main'.at # "otherCaller" =>
           /\ main.at # "otherCaller"
           /\ cpu'.at # "idle" => cpu'.d = bad \/ Sound(cpu'.d)
  PROVE  KnownJobs'
<1> SUFFICES ASSUME main'.at # "otherCaller"
             PROVE  /\ Tidy(mem')
                    /\ cpu'.at # "idle" => cpu'.d = bad \/ Sound(cpu'.d)
                    /\ job'.verdict # "none" =>
                         /\ job'.verdict = "rejected" <=> job'.cfg = bad
                         /\ job'.cfg = bad \/ Sound(job'.cfg)
  BY DEF KnownJobs
<1>1. Tidy(mem')
  BY TidyKept
<1>2. Cycle(w) /\ IInv /\ Blame
  BY DEF Device, DemoIInv, DeviceOK
<1>3. job'.verdict = job.verdict /\ job'.cfg = job.cfg
  BY <1>2, WorkStep
<1>4. QED
  BY <1>1, <1>3 DEF KnownJobs

-----------------------------------------------------------------------------
(* Every descriptor main() passes, but the illegal one, is sound. *)

LEMMA PackedFits ==
  ASSUME NEW b \in Nat, NEW w \in Nat, b <= 4 * w
  PROVE  PackedWords(b) \in Nat /\ PackedWords(b) <= w
BY SMT DEF PackedWords

LEMMA DimProduct ==
  ASSUME NEW m \in Dim, NEW n \in Dim
  PROVE  m * n \in Nat /\ m * n <= 4096
<1>1. m \in Nat /\ n \in Nat /\ m <= 64 /\ n <= 64
  BY DEF Dim
<1>2. m * n <= 64 * n
  BY <1>1
<1>3. QED
  BY <1>1, <1>2

(* Where the values of main() begin, as distances. *)
LEMMA StoresAre ==
  ASSUME NEW x \in Stores
  PROVE  \/ x - MainRam \in {25408, 29504, 33600, 49984, 66368, 74560}
         \/ \E i \in 0 .. 5 : x - MainRam \in {77120 + 2048 * i, 92240 + 2048 * i, 103760 + 2048 * i,
                                               88640 + 640 * i, 118896 + 640 * i, 115280 + 640 * i}
<1>1. CASE x \in {At[a] : a \in {"ta", "tb", "tc_hw", "tc_sw", "acc1", "acc2"}}
  BY <1>1, Indices, SMT
<1>2. CASE \E mode \in Modes, i \in 0 .. 5 : x = H(mode, i)
  <2>1. PICK mode \in Modes, i \in 0 .. 5 : x = H(mode, i)
    BY <1>2
  <2>2. x - MainRam \in {77120 + 2048 * i, 92240 + 2048 * i, 103760 + 2048 * i}
    BY <2>1, NetworkAddresses, Indices, SMT DEF Modes
  <2>3. QED
    BY <2>2
<1>3. CASE \E mode \in Modes, i \in 0 .. 5 : x = O(mode, i)
  <2>1. PICK mode \in Modes, i \in 0 .. 5 : x = O(mode, i)
    BY <1>3
  <2>2. x - MainRam \in {88640 + 640 * i, 118896 + 640 * i, 115280 + 640 * i}
    BY <2>1, NetworkAddresses, Indices, SMT DEF Modes
  <2>3. QED
    BY <2>2
<1>4. QED
  BY <1>1, <1>2, <1>3 DEF Stores

LEMMA StoresHave ==
  /\ \A a \in {"ta", "tb", "tc_hw", "tc_sw", "acc1", "acc2"} : At[a] \in Stores
  /\ \A mode \in Modes, i \in 0 .. 5 : H(mode, i) \in Stores /\ O(mode, i) \in Stores
BY DEF Stores

LEMMA AddressesInt == \A x \in Stores : x \in Int /\ x - MainRam \in Int
BY StoresAre, Indices

(* The results of the jobs. *)
LEMMA AloneTc ==
  ASSUME NEW w \in Nat, w <= 4096
  PROVE  Alone(At["tc_hw"], w)
<1>1. At["tc_hw"] \in Stores /\ At["tc_hw"] = MainRam + 33600 /\ MainRam \in Int
  BY StoresHave, Indices
<1>2. ASSUME NEW x \in Stores, x # At["tc_hw"]
      PROVE  x - At["tc_hw"] \notin 0 .. 4 * w - 1
  BY <1>1, <1>2, StoresAre, AddressesInt, SMT
<1>3. QED
  BY <1>1, <1>2 DEF Alone

LEMMA AloneAcc1 ==
  ASSUME NEW w \in Nat, w <= 2048
  PROVE  Alone(At["acc1"], w)
<1>1. At["acc1"] \in Stores /\ At["acc1"] = MainRam + 66368 /\ MainRam \in Int
  BY StoresHave, Indices
<1>2. ASSUME NEW x \in Stores, x # At["acc1"]
      PROVE  x - At["acc1"] \notin 0 .. 4 * w - 1
  BY <1>1, <1>2, StoresAre, AddressesInt, SMT
<1>3. QED
  BY <1>1, <1>2 DEF Alone

LEMMA AloneAcc2 ==
  ASSUME NEW w \in Nat, w <= 640
  PROVE  Alone(At["acc2"], w)
<1>1. At["acc2"] \in Stores /\ At["acc2"] = MainRam + 74560 /\ MainRam \in Int
  BY StoresHave, Indices
<1>2. ASSUME NEW x \in Stores, x # At["acc2"]
      PROVE  x - At["acc2"] \notin 0 .. 4 * w - 1
  BY <1>1, <1>2, StoresAre, AddressesInt, SMT
<1>3. QED
  BY <1>1, <1>2 DEF Alone

LEMMA AloneHidden ==
  ASSUME NEW i \in 0 .. 5, NEW w \in Nat, w <= 8 * BatchSize(i)
  PROVE  Alone(H("fused", i), w)
<1>1. H("fused", i) \in Stores /\ H("fused", i) = MainRam + 103760 + 2048 * i /\ MainRam \in Int
  BY StoresHave, Indices, NetworkAddresses DEF Modes
<1>2. BatchSize(i) \in 1 .. 64 /\ 64 * i + BatchSize(i) <= 360
  BY BatchesFit
<1>3. ASSUME NEW x \in Stores, x # H("fused", i)
      PROVE  x - H("fused", i) \notin 0 .. 4 * w - 1
  BY <1>1, <1>2, <1>3, StoresAre, AddressesInt, SMT
<1>4. QED
  BY <1>1, <1>3 DEF Alone

LEMMA AloneLogits ==
  ASSUME NEW i \in 0 .. 5, NEW w \in Nat, 4 * w <= 10 * BatchSize(i) + 3
  PROVE  Alone(O("fused", i), w)
<1>1. O("fused", i) \in Stores /\ O("fused", i) = MainRam + 115280 + 640 * i /\ MainRam \in Int
  BY StoresHave, Indices, NetworkAddresses DEF Modes
<1>2. BatchSize(i) \in 1 .. 64 /\ 64 * i + BatchSize(i) <= 360
  BY BatchesFit
<1>3. ASSUME NEW x \in Stores, x # O("fused", i)
      PROVE  x - O("fused", i) \notin 0 .. 4 * w - 1
  BY <1>1, <1>2, <1>3, StoresAre, AddressesInt, SMT
<1>4. QED
  BY <1>1, <1>3 DEF Alone

Fits(i, first, words) ==
  /\ i \in 1 .. 15 /\ first \in Int /\ words \in Nat
  /\ MainRam + Offsets[i] <= first
  /\ first + 4 * words <= MainRam + Offsets[i] + Lengths[i]

LEMMA InArray ==
  ASSUME NEW i, NEW first, NEW words, Fits(i, first, words)
  PROVE  /\ Inside(first, words, DOMAIN At)
         /\ i \notin {1, 2, 3} => Inside(first, words, DOMAIN At \ Constants)
<1>1. Within(first, 4 * words, Names[i]) /\ i \in 1 .. 15
  BY Inwards DEF Fits
<1>2. Names[i] \in DOMAIN At /\ (i \notin {1, 2, 3} => Names[i] \notin Constants)
  BY <1>1, Addresses DEF Names, Constants
<1>3. QED
  BY <1>1, <1>2 DEF Inside

LEMMA NotConstant == \A i \in {6, 8, 9, 13, 14} : i \notin {1, 2, 3}
BY SMT

LEMMA SoundJob ==
  ASSUME NEW a \in Short, NEW b \in Short, NEW c \in Short,
         NEW m \in Dim, NEW n \in Dim, NEW k \in Dim, NEW scale, NEW cfg, NEW words,
         words = (IF Bit(cfg, 1) THEN PackedWords(m * n) ELSE m * n),
         a % 4 = 0, b % 4 = 0, c % 4 = 0,
         Inside(a, PackedWords(m * k), DOMAIN At), Inside(b, PackedWords(k * n), DOMAIN At),
         Inside(c, words, DOMAIN At \ Constants), Alone(c, words)
  PROVE  Sound(Descriptor(a, b, c, m, n, k, ArrayN, ArrayN, k, scale, cfg))
<1> DEFINE d == Descriptor(a, b, c, m, n, k, ArrayN, ArrayN, k, scale, cfg)
<1>1. /\ d["A_BASE"] = a /\ d["B_BASE"] = b /\ d["C_BASE"] = c
      /\ d["M"] = m /\ d["N"] = n /\ d["K"] = k
      /\ d["TILE_M"] = ArrayN /\ d["TILE_N"] = ArrayN /\ d["TILE_K"] = k
      /\ d["POST_CFG"] = cfg
  BY DEF Descriptor
<1> HIDE DEF d
<1>2. ResultWords(d) = words
  BY <1>1 DEF ResultWords
<1>3. Sound(d)
  BY <1>1, <1>2 DEF Sound
<1>4. QED
  BY <1>3 DEF d

LEMMA RawOutput == ~Bit(0, 1)
BY SMT DEF Bit

LEMMA PackedOutput ==
  ASSUME NEW relu \in BOOLEAN
  PROVE  Bit(PostCfg(30, relu), 1)
BY SMT DEF Bit, PostCfg

LEMMA GemmSound ==
  ASSUME NEW a \in Short, NEW b \in Short, NEW c \in Short,
         NEW m \in Dim, NEW n \in Dim, NEW k \in Dim,
         a % 4 = 0, b % 4 = 0, c % 4 = 0,
         Inside(a, PackedWords(m * k), DOMAIN At), Inside(b, PackedWords(k * n), DOMAIN At),
         Inside(c, m * n, DOMAIN At \ Constants), Alone(c, m * n)
  PROVE  Sound(accel_gemm(a, b, c, m, n, k))
<1>1. m * n = (IF Bit(0, 1) THEN PackedWords(m * n) ELSE m * n)
  BY RawOutput
<1>2. QED
  BY <1>1, SoundJob, Zenon DEF accel_gemm

(* A job of the self-test: any shape up to MAX_DIM fits ta, tb and tc_hw. *)
LEMMA TestSound ==
  ASSUME NEW m \in Dim, NEW n \in Dim, NEW k \in Dim
  PROVE  Sound(accel_gemm(At["ta"], At["tb"], At["tc_hw"], m, n, k))
<1>1. /\ m * k \in Nat /\ m * k <= 4096 /\ k * n \in Nat /\ k * n <= 4096
      /\ m * n \in Nat /\ m * n <= 4096
  BY DimProduct
<1>2. /\ PackedWords(m * k) \in Nat /\ PackedWords(m * k) <= 1024
      /\ PackedWords(k * n) \in Nat /\ PackedWords(k * n) <= 1024
  BY <1>1, PackedFits
<1>3. /\ Offsets[4] = 25408 /\ Offsets[5] = 29504 /\ Offsets[6] = 33600
      /\ Lengths[4] = 4096 /\ Lengths[5] = 4096 /\ Lengths[6] = 16384
  BY DEF Offsets, Lengths
<1>4. /\ Fits(4, At["ta"], PackedWords(m * k)) /\ Fits(5, At["tb"], PackedWords(k * n))
      /\ Fits(6, At["tc_hw"], m * n)
  BY <1>1, <1>2, <1>3, Indices, SMT DEF Fits
<1>5. /\ Inside(At["ta"], PackedWords(m * k), DOMAIN At)
      /\ Inside(At["tb"], PackedWords(k * n), DOMAIN At)
  BY <1>4, InArray, Zenon
<1>6. Inside(At["tc_hw"], m * n, DOMAIN At \ Constants)
  BY <1>4, InArray, NotConstant, Zenon
<1>7. Alone(At["tc_hw"], m * n)
  BY <1>1, AloneTc
<1>8. At["ta"] % 4 = 0 /\ At["tb"] % 4 = 0 /\ At["tc_hw"] % 4 = 0
  BY Indices, SMT
<1>9. QED
  BY <1>5, <1>6, <1>7, <1>8, AddressesShort, GemmSound, Zenon

LEMMA NetworkSizes ==
  /\ N_IN = 64 /\ N_HID = 32 /\ N_OUT = 10
  /\ N_IN \in Dim /\ N_HID \in Dim /\ N_OUT \in Dim
BY DEF N_IN, N_HID, N_OUT, Dim

(* The weights, whole. *)
LEMMA WeightsInside ==
  /\ Inside(At["w1t"], PackedWords(N_IN * N_HID), DOMAIN At) /\ At["w1t"] % 4 = 0
  /\ Inside(At["w2t"], PackedWords(N_HID * N_OUT), DOMAIN At) /\ At["w2t"] % 4 = 0
<1>1. /\ PackedWords(N_IN * N_HID) \in Nat /\ PackedWords(N_IN * N_HID) <= 512
      /\ PackedWords(N_HID * N_OUT) \in Nat /\ PackedWords(N_HID * N_OUT) <= 80
  BY SMT DEF PackedWords, N_IN, N_HID, N_OUT
<1>2. Offsets[2] = 23040 /\ Offsets[3] = 25088 /\ Lengths[2] = 2048 /\ Lengths[3] = 320
  BY DEF Offsets, Lengths
<1>3. Fits(2, At["w1t"], PackedWords(N_IN * N_HID)) /\ Fits(3, At["w2t"], PackedWords(N_HID * N_OUT))
  BY <1>1, <1>2, Indices, SMT DEF Fits
<1>4. At["w1t"] % 4 = 0 /\ At["w2t"] % 4 = 0
  BY Indices, SMT
<1>5. QED
  BY <1>3, <1>4, InArray, Zenon

(* The images of a batch, and the hidden layer computed from them. *)
LEMMA ImagesInside ==
  ASSUME NEW i \in 0 .. 5
  PROVE  /\ Inside(X(i), PackedWords(BatchSize(i) * N_IN), DOMAIN At) /\ X(i) % 4 = 0
         /\ Inside(H("gemm", i), PackedWords(BatchSize(i) * N_HID), DOMAIN At)
         /\ H("gemm", i) % 4 = 0
         /\ Inside(H("fused", i), PackedWords(BatchSize(i) * N_HID), DOMAIN At)
         /\ Inside(H("fused", i), PackedWords(BatchSize(i) * N_HID), DOMAIN At \ Constants)
         /\ H("fused", i) % 4 = 0
         /\ Inside(O("fused", i), PackedWords(BatchSize(i) * N_OUT), DOMAIN At \ Constants)
         /\ O("fused", i) % 4 = 0
<1> DEFINE s == BatchSize(i)
<1>1. s \in 1 .. 64 /\ 64 * i + s <= 360
  BY BatchesFit
<1> HIDE DEF s
<1>2. /\ PackedWords(s * 64) \in Nat /\ PackedWords(s * 64) <= 16 * s
      /\ PackedWords(s * 32) \in Nat /\ PackedWords(s * 32) <= 8 * s
      /\ PackedWords(s * 10) \in Nat /\ 4 * PackedWords(s * 10) <= 10 * s + 3
  BY <1>1, SMT DEF PackedWords
<1>3. /\ Offsets[1] = 0 /\ Offsets[10] = 77120 /\ Offsets[13] = 103760 /\ Offsets[14] = 115280
      /\ Lengths[1] = 23040 /\ Lengths[10] = 11520 /\ Lengths[13] = 11520 /\ Lengths[14] = 3604
  BY DEF Offsets, Lengths
<1>4. /\ X(i) = MainRam + 4096 * i
      /\ H("gemm", i) = MainRam + 77120 + 2048 * i
      /\ H("fused", i) = MainRam + 103760 + 2048 * i
      /\ O("fused", i) = MainRam + 115280 + 640 * i
      /\ MainRam = 1073741824
  BY NetworkAddresses, Indices
<1>5. /\ Fits(1, X(i), PackedWords(s * 64)) /\ Fits(10, H("gemm", i), PackedWords(s * 32))
      /\ Fits(13, H("fused", i), PackedWords(s * 32)) /\ Fits(14, O("fused", i), PackedWords(s * 10))
  BY <1>1, <1>2, <1>3, <1>4, SMT DEF Fits
<1>6. /\ Inside(X(i), PackedWords(s * 64), DOMAIN At)
      /\ Inside(H("gemm", i), PackedWords(s * 32), DOMAIN At)
      /\ Inside(H("fused", i), PackedWords(s * 32), DOMAIN At)
  BY <1>5, InArray, Zenon
<1>7. /\ Inside(H("fused", i), PackedWords(s * 32), DOMAIN At \ Constants)
      /\ Inside(O("fused", i), PackedWords(s * 10), DOMAIN At \ Constants)
  BY <1>5, InArray, NotConstant, Zenon
<1>8. X(i) % 4 = 0 /\ H("gemm", i) % 4 = 0 /\ H("fused", i) % 4 = 0 /\ O("fused", i) % 4 = 0
  BY <1>4, SMT
<1>9. QED
  BY <1>6, <1>7, <1>8, NetworkSizes DEF s

(* Both layers of a batch, as GEMMs and whole. *)
LEMMA NetworkSound ==
  ASSUME NEW i \in 0 .. 5
  PROVE  Sound(LayerGemm(i)) /\ Sound(LayerFused(i))
<1> DEFINE s == BatchSize(i)
<1>1. s \in 1 .. 64 /\ s \in Dim
  BY BatchesFit DEF Dim
<1> HIDE DEF s
<1>2. /\ s * N_HID \in Nat /\ s * N_HID <= 2048 /\ s * N_OUT \in Nat /\ s * N_OUT <= 640
      /\ PackedWords(s * N_HID) \in Nat /\ PackedWords(s * N_HID) <= 8 * s
      /\ PackedWords(s * N_OUT) \in Nat /\ 4 * PackedWords(s * N_OUT) <= 10 * s + 3
  BY <1>1, SMT DEF PackedWords, N_HID, N_OUT
<1>3. /\ Offsets[8] = 66368 /\ Offsets[9] = 74560 /\ Lengths[8] = 8192 /\ Lengths[9] = 2560
  BY DEF Offsets, Lengths
<1>4. Fits(8, At["acc1"], s * N_HID) /\ Fits(9, At["acc2"], s * N_OUT)
      /\ At["acc1"] % 4 = 0 /\ At["acc2"] % 4 = 0
  BY <1>2, <1>3, Indices, SMT DEF Fits
<1>5. /\ Inside(At["acc1"], s * N_HID, DOMAIN At \ Constants)
      /\ Inside(At["acc2"], s * N_OUT, DOMAIN At \ Constants)
  BY <1>4, InArray, NotConstant, Zenon
<1>6. /\ Alone(At["acc1"], s * N_HID) /\ Alone(At["acc2"], s * N_OUT)
      /\ Alone(H("fused", i), PackedWords(s * N_HID))
      /\ Alone(O("fused", i), PackedWords(s * N_OUT))
  <2>1. Alone(At["acc1"], s * N_HID)
    BY <1>2, AloneAcc1
  <2>2. Alone(At["acc2"], s * N_OUT)
    BY <1>2, AloneAcc2
  <2>3. Alone(H("fused", i), PackedWords(s * N_HID))
    BY <1>2, AloneHidden DEF s
  <2>4. Alone(O("fused", i), PackedWords(s * N_OUT))
    BY <1>2, AloneLogits DEF s
  <2>5. QED
    BY <2>1, <2>2, <2>3, <2>4
<1>7. /\ X(i) \in Short /\ H("gemm", i) \in Short /\ H("fused", i) \in Short /\ O("fused", i) \in Short
      /\ At["w1t"] \in Short /\ At["w2t"] \in Short /\ At["acc1"] \in Short /\ At["acc2"] \in Short
  BY Indices, NetworkAddresses, SMT DEF Short
<1>8. /\ Inside(X(i), PackedWords(s * N_IN), DOMAIN At) /\ X(i) % 4 = 0
      /\ Inside(H("gemm", i), PackedWords(s * N_HID), DOMAIN At) /\ H("gemm", i) % 4 = 0
      /\ Inside(H("fused", i), PackedWords(s * N_HID), DOMAIN At) /\ H("fused", i) % 4 = 0
      /\ Inside(H("fused", i), PackedWords(s * N_HID), DOMAIN At \ Constants)
      /\ Inside(O("fused", i), PackedWords(s * N_OUT), DOMAIN At \ Constants) /\ O("fused", i) % 4 = 0
  BY ImagesInside, Zenon DEF s
<1>9. /\ Bit(PostCfg(L1_SHIFT, TRUE), 1) /\ Bit(PostCfg(L2_SHIFT, FALSE), 1)
  BY SMT DEF Bit, PostCfg, L1_SHIFT, L2_SHIFT
<1>10. Sound(accel_gemm(X(i), At["w1t"], At["acc1"], s, N_HID, N_IN))
  BY <1>1, <1>4, <1>5, <1>6, <1>7, <1>8, WeightsInside, NetworkSizes, GemmSound, Zenon
<1>11. Sound(accel_gemm(H("gemm", i), At["w2t"], At["acc2"], s, N_OUT, N_HID))
  BY <1>1, <1>4, <1>5, <1>6, <1>7, <1>8, WeightsInside, NetworkSizes, GemmSound, Zenon
<1>12. Sound(accel_layer(X(i), At["w1t"], H("fused", i), s, N_HID, N_IN, L1_MULT, L1_SHIFT, TRUE))
  BY <1>1, <1>6, <1>7, <1>8, <1>9, WeightsInside, NetworkSizes, SoundJob, Zenon DEF accel_layer
<1>13. Sound(accel_layer(H("fused", i), At["w2t"], O("fused", i), s, N_OUT, N_HID,
                         L2_MULT, L2_SHIFT, FALSE))
  BY <1>1, <1>6, <1>7, <1>8, <1>9, WeightsInside, NetworkSizes, SoundJob, Zenon DEF accel_layer
<1>14. QED
  BY <1>10, <1>11, <1>12, <1>13, Zenon DEF LayerGemm, LayerFused, s

-----------------------------------------------------------------------------
(* What main() makes of memory stays tidy. *)

LEMMA TidyComputes ==
  ASSUME NEW mm, Tidy(mm), NEW a, NEW b, NEW c \in Stores
  PROVE  /\ \A m, n, k : Tidy(cpu_gemm(mm, a, b, c, m, n, k))
         /\ \A bias, mult, shift, relu : Tidy(epilogue(mm, a, bias, c, mult, shift, relu))
<1>1. Tidy(Loaded(mm, a))
  BY TidySteps
<1>2. Tidy(Loaded(Loaded(mm, a), b))
  BY <1>1, TidySteps
<1>3. \A v : Tidy(Stored(Loaded(Loaded(mm, a), b), c, v)) /\ Tidy(Stored(Loaded(mm, a), c, v))
  BY <1>1, <1>2, TidySteps
<1>4. QED
  BY <1>3, Zenon DEF cpu_gemm, epilogue

LEMMA TidyFilled ==
  ASSUME NEW mm, Tidy(mm), NEW p, NEW q
  PROVE  Tidy(Filled(mm, p, q))
<1>1. At["ta"] \in Stores /\ At["tb"] \in Stores
  BY StoresHave
<1>2. \A v : Tidy(Stored(mm, At["ta"], v))
  BY <1>1, TidySteps
<1>3. \A v, u : Tidy(Stored(Stored(mm, At["ta"], v), At["tb"], u))
  BY <1>1, <1>2, TidySteps
<1>4. QED
  BY <1>3, Zenon DEF Filled

LEMMA TidyChecked ==
  ASSUME Tidy(mem), NEW s
  PROVE  Tidy(Loaded(Checked(s), At["tc_hw"]))
<1>1. At["tc_sw"] \in Stores
  BY StoresHave
<1>2. Tidy(Checked(s))
  BY <1>1, TidyComputes DEF Checked
<1>3. QED
  BY <1>2, TidySteps

LEMMA TidyLayers ==
  ASSUME NEW mm, Tidy(mm), NEW mode \in Modes, NEW i \in 0 .. 5
  PROVE  Tidy(Epilogue1(mm, mode, i)) /\ Tidy(Epilogue2(mm, mode, i))
<1>1. H(mode, i) \in Stores /\ O(mode, i) \in Stores
  BY StoresHave
<1>2. QED
  BY <1>1, TidyComputes, Zenon DEF Epilogue1, Epilogue2

-----------------------------------------------------------------------------
(* KnownJobs, step by step. *)

LEMMA CallKnown ==
  ASSUME DemoIInv, KnownJobs, main.at # "otherCaller",
         NEW d, d = bad \/ Sound(d), NEW bias, NEW st, NEW m, Tidy(m), Call(d, bias, st, m)
  PROVE  KnownJobs'
<1>1. Device(Idle, m) /\ cpu' = [Idler EXCEPT !.at = "clear", !.d = d, !.bias = bias, !.st = st]
  BY DEF Call
<1>2. cpu'.d = d
  BY <1>1 DEF Idler
<1>3. ~Start(Idle, eng)
  BY HarmlessWrites DEF Harmless
<1>4. QED
  BY <1>1, <1>2, <1>3, KnownKept

LEMMA BackKnown ==
  ASSUME DemoIInv, KnownJobs, main.at # "otherCaller", NEW m, Tidy(m), Back, Device(Idle, m)
  PROVE  KnownJobs'
<1>1. cpu'.at = "idle"
  BY IdlerIs DEF Back
<1>2. ~Start(Idle, eng)
  BY HarmlessWrites DEF Harmless
<1>3. QED
  BY <1>1, <1>2, KnownKept

(* The CPU outside main(), or between two calls. *)
LEMMA OnKnown ==
  ASSUME DemoIInv, KnownJobs, NEW w, NEW m, Device(w, m), ~Start(w, eng),
         main'.at # "otherCaller" => main.at # "otherCaller",
         m \in {mem, Flushed(mem)},
         \/ cpu'.at = "idle"
         \/ cpu'.d = bad
         \/ cpu'.d = cpu.d /\ (cpu.at # "idle" \/ cpu' = cpu)
  PROVE  KnownJobs'
<1>1. main.at # "otherCaller" => Tidy(mem) /\ Tidy(Flushed(mem))
  BY TidySteps DEF KnownJobs
<1>2. main.at # "otherCaller" /\ cpu'.at # "idle" => cpu'.d = bad \/ Sound(cpu'.d)
  BY DEF KnownJobs
<1>3. QED
  BY <1>1, <1>2, KnownKept

(* The registers hold what the caller passed, so START knows it. *)
LEMMA StartKnown ==
  ASSUME DemoIInv, KnownJobs, StartJob, main' = main, main.at # "otherCaller"
  PROVE  KnownJobs'
<1> DEFINE w == accel_dma_start(FALSE)
<1>1. cpu.at = "start" /\ Device(w, mem) /\ Cycle(w)
  BY DEF StartJob, Access, Device
<1>2. desc.cfg = cpu.d /\ ~DmaBusy(eng) /\ IInv
  BY <1>1 DEF DemoIInv, DeviceOK, Rested, Programmed
<1>3. cpu.d = bad \/ Sound(cpu.d)
  BY <1>1 DEF KnownJobs
<1>4. Legal <=> desc.cfg # bad
  BY <1>2, <1>3, SoundLegal
<1>5. job'.verdict = (IF Legal THEN "accepted" ELSE "rejected") /\ job'.cfg = desc.cfg
  BY <1>1, <1>2, StartWrites, JobBegins
<1>6. cpu'.d = cpu.d
  BY DEF StartJob, DemoIInv, CpuOK
<1>7. Tidy(mem')
  <2>1. Tidy(mem)
    BY DEF KnownJobs
  <2>2. QED
    BY <1>1, <2>1, TidyKept
<1>8. QED
  BY <1>2, <1>3, <1>4, <1>5, <1>6, <1>7 DEF KnownJobs

LEMMA DriverKnown ==
  ASSUME DemoIInv, KnownJobs, Driver, main.at # "otherCaller"
  PROVE  KnownJobs'
<1>1. main' = main /\ AccelRun /\ DeviceOK /\ CpuOK /\ (cpu.probe => cpu.d = bad)
  BY DEF Driver, DemoIInv, Probing
<1>2. cpu'.d = cpu.d
  BY <1>1, RunStep
<1>3. cpu.at # "idle"
  BY <1>1 DEF AccelRun, Clear, LoadBias, Program, StartJob, Poll, ReadCounters, ClearAgain
<1>4. CASE StartJob
  BY <1>1, <1>4, StartKnown
<1>5. CASE Program
  <2> DEFINE f == ProgramOrder[cpu.next + 1]
  <2>1. f \in Fields
    <3>1. cpu.next + 1 \in 1 .. 12
      BY <1>5, OrderCovers DEF Program, DemoIInv, CpuOK
    <3>2. QED
      BY <3>1, OrderCovers
  <2>2. Device(accel_write(f, cpu.d[f]), mem)
    BY <1>5 DEF Program, Access
  <2>3. ~Start(accel_write(f, cpu.d[f]), eng)
    BY <2>1, FieldWrites
  <2>4. QED
    BY <1>1, <1>2, <1>3, <2>2, <2>3, OnKnown
<1>6. CASE Clear \/ LoadBias \/ Poll \/ ReadCounters \/ ClearAgain
  <2>1. PICK w \in Harmless, m \in {mem, Flushed(mem)} : Device(w, m)
    BY <1>6 DEF Clear, LoadBias, Poll, ReadCounters, ClearAgain, Access, Harmless
  <2>2. QED
    BY <1>1, <1>2, <1>3, <2>1, HarmlessWrites, OnKnown
<1>7. QED
  BY <1>1, <1>4, <1>5, <1>6 DEF AccelRun

LEMMA TestKnown ==
  ASSUME DemoIInv, KnownJobs, SelfTest \/ SelfTestCheck \/ Recover \/ RecoverCheck
  PROVE  KnownJobs'
<1>1. main.at # "otherCaller" /\ Tidy(mem)
  BY DEF SelfTest, SelfTestCheck, Recover, RecoverCheck, KnownJobs
<1>2. CASE SelfTest
  <2> DEFINE s == shapes[main.i]
             filled == Filled(mem, s[1] * s[3], s[3] * s[2])
             m == Stored(filled, At["tc_hw"], <<"0xA5">>)
  <2>1. main.i \in 1 .. 8
    BY <1>2, ShapesFit DEF SelfTest, DemoIInv, MainOK
  <2>2. s[1] \in Dim /\ s[2] \in Dim /\ s[3] \in Dim
    BY <2>1, ShapesFit DEF Dim
  <2>3. Call(accel_gemm(At["ta"], At["tb"], At["tc_hw"], s[1], s[2], s[3]), "none", TRUE, m)
    BY <1>2 DEF SelfTest
  <2>4. Tidy(m)
    <3>1. Tidy(filled) /\ At["tc_hw"] \in Stores
      BY <1>1, TidyFilled, StoresHave
    <3>2. QED
      BY <3>1, TidySteps
  <2> HIDE DEF s, m
  <2>5. Sound(accel_gemm(At["ta"], At["tb"], At["tc_hw"], s[1], s[2], s[3]))
    BY <2>2, TestSound
  <2>6. QED
    BY <1>1, <2>3, <2>4, <2>5, CallKnown
<1>3. CASE Recover
  <2>1. Call(accel_gemm(At["ta"], At["tb"], At["tc_hw"], 4, 4, 4), "none", FALSE, Filled(mem, 16, 16))
    BY <1>3 DEF Recover
  <2>2. Tidy(Filled(mem, 16, 16))
    BY <1>1, TidyFilled
  <2>3. 4 \in Dim
    BY DEF Dim
  <2>4. Sound(accel_gemm(At["ta"], At["tb"], At["tc_hw"], 4, 4, 4))
    BY <2>3, TestSound
  <2>5. QED
    BY <1>1, <2>1, <2>2, <2>4, CallKnown
<1>4. CASE SelfTestCheck \/ RecoverCheck
  <2>1. \E s : Back /\ Device(Idle, Loaded(Checked(s), At["tc_hw"]))
    BY <1>4 DEF SelfTestCheck, RecoverCheck
  <2>2. QED
    BY <1>1, <2>1, TidyChecked, BackKnown
<1>5. QED
  BY <1>2, <1>3, <1>4

LEMMA ProbeKnown ==
  ASSUME DemoIInv, KnownJobs, Robustness \/ Probe \/ ProbeClear \/ ProbeCheck
  PROVE  KnownJobs'
<1>1. cpu.at \in ProbePoints => main.at = "probe" /\ cpu.d = bad /\ cpu.at # "idle"
  BY DEF DemoIInv, Probing, ProbePoints
<1>2. PICK w \in Harmless : Device(w, mem)
  BY DEF Robustness, Probe, ProbeClear, ProbeCheck, Access, Harmless
<1>3. ~Start(w, eng)
  BY HarmlessWrites
<1>4. main.at # "otherCaller"
  BY <1>1 DEF Robustness, Probe, ProbeClear, ProbeCheck, ProbePoints
<1>5. cpu'.at = "idle" \/ cpu'.d = bad
  <2>1. CASE Robustness
    BY <2>1 DEF Robustness, Idler
  <2>2. CASE Probe
    BY <1>1, <2>2 DEF Probe, DemoIInv, CpuOK, ProbePoints
  <2>3. CASE ProbeClear
    BY <1>1, <2>3 DEF ProbeClear, DemoIInv, CpuOK, ProbePoints
  <2>4. CASE ProbeCheck
    BY <2>4, IdlerIs DEF ProbeCheck
  <2>5. QED
    BY <2>1, <2>2, <2>3, <2>4
<1>6. QED
  BY <1>2, <1>3, <1>4, <1>5, OnKnown

LEMMA NetworkKnown ==
  ASSUME DemoIInv, KnownJobs, LayerCall \/ LayerReturn \/ CpuBatch \/ Report
  PROVE  KnownJobs'
<1>1. main.at # "otherCaller" /\ Tidy(mem)
  BY DEF LayerCall, LayerReturn, CpuBatch, Report, KnownJobs
<1>2. main.at \in Modes => main.i \in 0 .. 5
  BY BatchesFit DEF DemoIInv, MainOK, Modes
<1>3. CASE LayerCall
  <2>1. main.at \in Modes
    BY <1>3 DEF LayerCall, Modes
  <2>2. Sound(LayerGemm(main.i)) /\ Sound(LayerFused(main.i))
    BY <1>2, <2>1, NetworkSound
  <2>3. \E d, bias : Sound(d) /\ Call(d, bias, TRUE, mem)
    BY <1>3, <2>2 DEF LayerCall
  <2>4. QED
    BY <1>1, <2>3, CallKnown
<1>4. CASE LayerReturn
  <2>1. main.at \in Modes /\ "gemm" \in Modes
    BY <1>4 DEF LayerReturn, Modes
  <2> DEFINE m == IF main.at = "fused" THEN mem
                  ELSE IF main.layer = 1 THEN Epilogue1(mem, "gemm", main.i)
                  ELSE Epilogue2(mem, "gemm", main.i)
  <2>2. Back /\ Device(Idle, m)
    BY <1>4 DEF LayerReturn
  <2>3. Tidy(m)
    BY <1>1, <1>2, <2>1, TidyLayers
  <2> HIDE DEF m
  <2>4. QED
    BY <1>1, <2>2, <2>3, BackKnown
<1>5. CASE CpuBatch
  <2> DEFINE i == main.i
             product == cpu_gemm(mem, X(i), At["w1t"], At["acc1"], BatchSize(i), N_HID, N_IN)
             hidden == Epilogue1(product, "cpu", i)
             logits == cpu_gemm(hidden, H("cpu", i), At["w2t"], At["acc2"], BatchSize(i), N_OUT, N_HID)
             m == Epilogue2(logits, "cpu", i)
  <2>1. Device(Idle, m) /\ cpu' = cpu /\ cpu.at = "idle"
    BY <1>5 DEF CpuBatch
  <2>2. "cpu" \in Modes /\ i \in 0 .. 5 /\ At["acc1"] \in Stores /\ At["acc2"] \in Stores
    BY <1>2, <1>5, StoresHave DEF CpuBatch, Modes
  <2>3. Tidy(product)
    BY <1>1, <2>2, TidyComputes
  <2> HIDE DEF product
  <2>4. Tidy(hidden)
    BY <2>2, <2>3, TidyLayers
  <2> HIDE DEF hidden
  <2>5. Tidy(logits)
    BY <2>2, <2>4, TidyComputes
  <2> HIDE DEF logits
  <2>6. Tidy(m)
    BY <2>2, <2>5, TidyLayers
  <2> HIDE DEF m
  <2>7. ~Start(Idle, eng)
    BY HarmlessWrites DEF Harmless
  <2>8. QED
    BY <1>1, <2>1, <2>6, <2>7, KnownKept
<1>6. CASE Report
  <2>1. Device(Idle, mem) /\ cpu' = cpu
    BY <1>6 DEF Report, Access
  <2>2. ~Start(Idle, eng)
    BY HarmlessWrites DEF Harmless
  <2>3. QED
    BY <1>1, <2>1, <2>2, OnKnown
<1>7. QED
  BY <1>3, <1>4, <1>5, <1>6

LEMMA DemoStartsKnown ==
  ASSUME DemoInit
  PROVE  KnownJobs
<1>1. /\ mem = [ram |-> <<>>, cache |-> <<>>] /\ cpu = Idler /\ job = NoJob
  BY DEF DemoInit, DeviceInit, Init
<1>2. mem = [ram |-> mem.ram, cache |-> mem.cache] /\ DOMAIN mem.ram = {}
  BY <1>1
<1>3. cpu.at = "idle" /\ job.verdict = "none"
  BY <1>1, IdlerIs DEF NoJob
<1>4. QED
  BY <1>2, <1>3 DEF KnownJobs, Tidy

LEMMA DemoContinuesKnown ==
  ASSUME DemoIInv, KnownJobs, [DemoNext]_allvars
  PROVE  KnownJobs'
<1>1. CASE UNCHANGED allvars
  BY <1>1 DEF allvars, softVars, KnownJobs, Tidy
<1>2. CASE Between
  <2>1. Device(Idle, mem) /\ cpu' = cpu /\ main' = main
    BY <1>2 DEF Between, Compute, Access
  <2>2. ~Start(Idle, eng)
    BY HarmlessWrites DEF Harmless
  <2>3. QED
    BY <2>1, <2>2, OnKnown
<1>3. CASE main.at = "otherCaller" /\ (Driver \/ OtherCall \/ OtherReturn \/ Abort)
  <2>1. main' = main
    BY <1>3 DEF Driver, OtherCall, OtherReturn, Abort
  <2>2. QED
    BY <1>3, <2>1 DEF KnownJobs
<1>4. OtherCall \/ OtherReturn \/ Abort => main.at = "otherCaller"
  BY DEF OtherCall, OtherReturn, Abort
<1>5. QED
  BY <1>1, <1>2, <1>3, <1>4, DriverKnown, TestKnown, ProbeKnown, NetworkKnown DEF DemoNext, Main

(* Every job of main() but the illegal one is accepted, reads its operands  *)
(* from inside one array, and writes into a variable array, over no other   *)
(* value of the program's.                                                  *)
THEOREM JobsStayInBounds == DemoSpec => []JobsInBounds
<1>1. ASSUME DemoIInv, KnownJobs
      PROVE  JobsInBounds
  <2> DEFINE c == desc.cfg
             inside(first, words, arrays) == \E a \in arrays : Within(first, 4 * words, a)
  <2> SUFFICES ASSUME main.at # "otherCaller", job.verdict # "none", job.cfg = c
               PROVE  /\ job.verdict = "rejected" <=> c = bad
                      /\ job.verdict = "accepted" =>
                           /\ inside(c["A_BASE"], AWords, DOMAIN At)
                           /\ inside(c["B_BASE"], BWords, DOMAIN At)
                           /\ inside(c["C_BASE"], CWords, DOMAIN At \ Constants)
                           /\ \A x \in DOMAIN mem.ram \ {c["C_BASE"]} :
                                x - c["C_BASE"] \notin 0 .. 4 * CWords - 1
    BY Zenon DEF JobsInBounds
  <2>1. Tidy(mem) /\ (job.verdict = "rejected" <=> c = bad) /\ (c = bad \/ Sound(c))
    BY <1>1 DEF KnownJobs
  <2>2. ASSUME Sound(c)
        PROVE  /\ inside(c["A_BASE"], AWords, DOMAIN At)
               /\ inside(c["B_BASE"], BWords, DOMAIN At)
               /\ inside(c["C_BASE"], CWords, DOMAIN At \ Constants)
               /\ \A x \in DOMAIN mem.ram \ {c["C_BASE"]} : x - c["C_BASE"] \notin 0 .. 4 * CWords - 1
    <3>1. /\ AWords = PackedWords(c["M"] * c["K"]) /\ BWords = PackedWords(c["K"] * c["N"])
          /\ CWords = ResultWords(c)
      BY DEF AWords, BWords, CWords, Int8Output, ResultWords, Cfg
    <3>2. /\ Inside(c["A_BASE"], AWords, DOMAIN At) /\ Inside(c["B_BASE"], BWords, DOMAIN At)
          /\ Inside(c["C_BASE"], CWords, DOMAIN At \ Constants) /\ Alone(c["C_BASE"], CWords)
      BY <2>2, <3>1 DEF Sound
    <3>3. DOMAIN mem.ram \subseteq Stores
      BY <2>1 DEF Tidy
    <3>4. QED
      BY <3>2, <3>3, Zenon DEF Inside, Alone
  <2>3. QED
    BY <2>1, <2>2
<1>2. DemoInit => DemoIInv /\ KnownJobs
  BY DemoStarts, DemoStartsKnown
<1>3. DemoIInv /\ KnownJobs /\ [DemoNext]_allvars => (DemoIInv /\ KnownJobs)'
  BY DemoContinues, DemoContinuesKnown
<1>4. QED
  BY <1>1, <1>2, <1>3, PTL DEF DemoSpec

-----------------------------------------------------------------------------
(* The verdict: where the values of the network are, and what is left to    *)
(* be noticed of a job that went wrong.  A layer of a batch reads its       *)
(* input and its weights, and leaves its sums, or what it makes of them.    *)
Layers == {1, 2}
Input(mode, i, layer) == IF layer = 1 THEN X(i) ELSE H(mode, i)
Weights(layer) == IF layer = 1 THEN At["w1t"] ELSE At["w2t"]
Sums(layer) == IF layer = 1 THEN At["acc1"] ELSE At["acc2"]
Output(mode, i, layer) == IF layer = 1 THEN H(mode, i) ELSE O(mode, i)
Columns(layer) == IF layer = 1 THEN N_HID ELSE N_OUT
Depth(layer) == IF layer = 1 THEN N_IN ELSE N_HID
BiasOf(layer) == IF layer = 1 THEN b1.name ELSE b2.name

Product(source, i, layer) ==
  Gemm(source, Linked(Weights(layer)), BatchSize(i), Columns(layer), Depth(layer))
Activation(product, layer) ==
  IF layer = 1 THEN Requantized(product, BiasOf(1), L1_MULT, L1_SHIFT, TRUE)
  ELSE Requantized(product, BiasOf(2), L2_MULT, L2_SHIFT, FALSE)

(* What the golden model has of it. *)
GoldenInput(i, layer) == IF layer = 1 THEN Linked(X(i)) ELSE GoldenHidden(i)
GoldenSums(i, layer) == Product(GoldenInput(i, layer), i, layer)
GoldenOutput(i, layer) == IF layer = 1 THEN GoldenHidden(i) ELSE GoldenLogits(i)

(* The layer main() is at, and those of a mode it is done with. *)
Current(mode, i, layer) == main.at = mode /\ main.i = i /\ main.layer = layer
After == [gemm |-> {"fused", "cpu", "report", "halt"}, fused |-> {"cpu", "report", "halt"},
          cpu |-> {"report", "halt"}]
Done(mode, i, layer) ==
  \/ main.at \in After[mode]
  \/ main.at = mode /\ (i < main.i \/ (i = main.i /\ layer < main.layer))

Golden(mode) ==
  \A i \in 0 .. 5, layer \in Layers :
    Done(mode, i, layer) => InRam(mem, Output(mode, i, layer)) = GoldenOutput(i, layer)

(* The call under way is the one main() made. *)
TestCall(s) == cpu.bias = "none" /\ cpu.d = accel_gemm(At["ta"], At["tb"], At["tc_hw"], s[1], s[2], s[3])
Task ==
  cpu.at # "idle" =>
    \/ cpu.probe
    \/ main.at = "selftestCheck" /\ TestCall(shapes[main.i])
    \/ main.at = "recoverCheck" /\ TestCall(<<4, 4, 4>>)
    \/ main.at = "gemm" /\ cpu.bias = "none" /\ cpu.st /\ cpu.d = LayerGemm(main.i)
    \/ main.at = "fused" /\ cpu.bias = BiasOf(main.layer) /\ cpu.st /\ cpu.d = LayerFused(main.i)

(* The C mover of the job under way has ended; what is told of the job. *)
Ending == {"counters", "clearAgain", "return"}
Over == cpu.at \in Ending \/ (cpu.at = "poll" /\ ~eng["C"].busy)
Told == (cpu.at \in Ending /\ cpu.failed) \/ (cpu.at = "poll" /\ job.failed)

(* What the caller is owed: the result of its descriptor, from the RAM. *)
Owed ==
  LET c == cpu.d
      product == Gemm(InRam(mem, c["A_BASE"]), InRam(mem, c["B_BASE"]), c["M"], c["N"], c["K"])
  IN  IF ~Bit(c["POST_CFG"], 1) THEN product
      ELSE Requantized(product, cpu.bias, c["POST_SCALE"], (c["POST_CFG"] \div 4) % 64,
                       Bit(c["POST_CFG"], 0))
Paid == InRam(mem, cpu.d["C_BASE"]) = Owed

(* The bias registers a packed job uses hold its caller's vector. *)
BiasKnown ==
  /\ DOMAIN biasVec = 0 .. DMA_BIAS_MAX - 1
  /\ cpu.bias # "none" =>
       /\ cpu.at = "bias" => cpu.next <= cpu.d["N"] /\ \A j \in 0 .. cpu.next - 1 : biasVec[j] = cpu.bias
       /\ cpu.at \in {"program", "start", "poll"} =>
            \A j \in 0 .. cpu.d["N"] - 1 : biasVec[j] = cpu.bias

(* The cache is stale only while a job runs. *)
Coherent(m) == \A x \in DOMAIN m.cache : m.cache[x] = InRam(m, x)
Fresh == cpu.at # "poll" => Coherent(mem)

(* What a job has not overwritten yet could not pass for its result. *)
SelfTests == {"selftest", "selftestCheck", "robustness", "probe", "recover", "recoverCheck"}
Recovering == main.at \in {"robustness", "probe", "recover"} \/ (main.at = "recoverCheck" /\ ~Over)
Patterned == main.at = "selftestCheck" /\ ~Over => InRam(mem, At["tc_hw"]) = <<"0xA5">>
Unused == main.at \in SelfTests => \A layer \in Layers : Sums(layer) \notin DOMAIN mem.ram
Empty ==
  \A i \in 0 .. 5, layer \in Layers :
    ~Done("fused", i, layer) /\ ~(Current("fused", i, layer) /\ Over) =>
      Output("fused", i, layer) \notin DOMAIN mem.ram
LastShape == faults = 0 /\ Recovering => InRam(mem, At["tc_hw"])[4] = <<33, 31, 47>>
OldSums ==
  faults = 0 /\ main.at = "gemm" =>
    \A layer \in Layers :
      ~(main.layer = layer /\ Over) =>
        \/ Sums(layer) \notin DOMAIN mem.ram
        \/ \E i \in 0 .. 5 : Done("gemm", i, layer) /\ InRam(mem, Sums(layer)) = GoldenSums(i, layer)
Leftover == Patterned /\ Unused /\ Empty /\ LastShape /\ OldSums

(* The refused descriptor is seen to be refused. *)
ProbeSeen ==
  /\ ~cpu.busySeen /\ (cpu.at = "start" => cpu.next = 0)
  /\ cpu.at \in ProbePoints => job.verdict = "rejected"
  /\ cpu.at \in {"probe", "probeClear"} => ~job.errorAcked
  /\ (cpu.at = "probe" /\ cpu.next > 0) \/ cpu.at \in {"probeClear", "probeCheck"} => job.errors = 1
  /\ cpu.at = "probeCheck" => job.errorAcked

(* Without a fault nothing is amiss; every fault has been noticed, or can   *)
(* still be seen in what was told of the job, in what is owed, or in what   *)
(* the network left in RAM.                                                 *)
Amiss == ~Golden("gemm") \/ ~Golden("fused")
Counts == faults \in Nat /\ main.failures \in Nat
Sane == faults = 0 => main.failures = 0 /\ ~Amiss /\ ~Told /\ (Over => Paid)
Seen == faults > 0 => main.failures > 0 \/ Amiss \/ Told \/ (Over /\ ~Paid)
Accounted == Counts /\ Sane /\ Seen

(* The MACs counted so far. *)
MacsCounted(mode) ==
  IF main.at = mode
    THEN BATCH * main.i * (N_IN * N_HID + N_HID * N_OUT)
           + (IF main.layer = 1 THEN 0 ELSE BatchSize(main.i) * N_HID * N_IN)
  ELSE IF main.at \in After[mode] THEN UsefulMacs ELSE 0
Counting ==
  /\ main.macs = [mode \in {"gemm", "fused"} |-> MacsCounted(mode)]
  /\ cpu.at \in {"clearAgain", "return"} /\ cpu.st => cpu.macs = accel_dma_performance(cpu.d)

VerdictKnown ==
  main.at = "halt" => main.verdict = (IF faults = 0 THEN "PASSED" ELSE "FAILED")

Calling == Task /\ BiasKnown /\ Fresh /\ ProbeSeen /\ Counting /\ VerdictKnown
Ledger == Golden("cpu") /\ Leftover /\ Accounted
NetworkInv == main.at # "otherCaller" => Calling /\ Ledger

-----------------------------------------------------------------------------
(* Memory: what the CPU and the DMA make of a value. *)

LEMMA MemoryIs ==
  ASSUME NEW m, Tidy(m), NEW x, NEW v
  PROVE  /\ Loaded(m, x) = [ram |-> m.ram, cache |-> With(m.cache, x, Load(m, x))]
         /\ Flushed(m) = [ram |-> m.ram, cache |-> <<>>]
         /\ Stored(m, x, v) = [ram |-> With(m.ram, x, v), cache |-> With(m.cache, x, v)]
         /\ Written(m, x, v) = [ram |-> With(m.ram, x, v), cache |-> m.cache]
BY DEF Tidy, Loaded, Flushed, Stored, Written

(* A store changes one value, and the CPU sees it; so does a DMA write, but *)
(* the CPU does not see that until it flushes its cache.                    *)
LEMMA Stores1 ==
  ASSUME NEW m, Tidy(m), NEW x, NEW v
  PROVE  /\ Stored(m, x, v).ram = Written(m, x, v).ram
         /\ DOMAIN Written(m, x, v).ram = DOMAIN m.ram \cup {x}
         /\ \A y : InRam(Written(m, x, v), y) = IF y = x THEN v ELSE InRam(m, y)
         /\ \A y : InRam(Stored(m, x, v), y) = IF y = x THEN v ELSE InRam(m, y)
         /\ DOMAIN Stored(m, x, v).ram = DOMAIN m.ram \cup {x}
         /\ Coherent(m) => Coherent(Stored(m, x, v))
<1> DEFINE r == With(m.ram, x, v)
           c == With(m.cache, x, v)
           s == Stored(m, x, v)
           w == Written(m, x, v)
<1>1. s.ram = r /\ w.ram = r /\ s.cache = c
  BY MemoryIs
<1>2. /\ DOMAIN r = DOMAIN m.ram \cup {x} /\ r[x] = v
      /\ \A y \in DOMAIN m.ram : y # x => r[y] = m.ram[y]
  BY DEF With
<1>3. /\ DOMAIN c = DOMAIN m.cache \cup {x} /\ c[x] = v
      /\ \A y \in DOMAIN m.cache : y # x => c[y] = m.cache[y]
  BY DEF With
<1> HIDE DEF r, c, s, w
<1>4. \A y : InRam(w, y) = (IF y = x THEN v ELSE InRam(m, y))
  BY <1>1, <1>2 DEF InRam
<1>5. \A y : InRam(s, y) = (IF y = x THEN v ELSE InRam(m, y))
  BY <1>1, <1>2 DEF InRam
<1>6. Coherent(m) => Coherent(s)
  BY <1>1, <1>3, <1>5 DEF Coherent
<1>7. QED
  BY <1>1, <1>2, <1>4, <1>5, <1>6 DEF r, s, w

LEMMA Loads ==
  ASSUME NEW m, Tidy(m), NEW x
  PROVE  /\ Loaded(m, x).ram = m.ram /\ Flushed(m).ram = m.ram
         /\ \A y : InRam(Loaded(m, x), y) = InRam(m, y)
         /\ \A y : InRam(Flushed(m), y) = InRam(m, y)
         /\ Coherent(m) => Coherent(Loaded(m, x)) /\ Load(m, x) = InRam(m, x)
         /\ Coherent(Flushed(m))
<1> DEFINE c == With(m.cache, x, Load(m, x))
           l == Loaded(m, x)
           f == Flushed(m)
<1>1. l.ram = m.ram /\ f.ram = m.ram /\ l.cache = c /\ f.cache = <<>>
  BY MemoryIs
<1>2. /\ DOMAIN c = DOMAIN m.cache \cup {x} /\ c[x] = Load(m, x)
      /\ \A y \in DOMAIN m.cache : y # x => c[y] = m.cache[y]
  BY DEF With
<1> HIDE DEF c, l, f
<1>3. (\A y : InRam(l, y) = InRam(m, y)) /\ (\A y : InRam(f, y) = InRam(m, y))
  BY <1>1 DEF InRam
<1>4. Coherent(m) => Load(m, x) = InRam(m, x)
  BY DEF Coherent, Load
<1>5. Coherent(m) => Coherent(l)
  BY <1>1, <1>2, <1>3, <1>4 DEF Coherent
<1>6. Coherent(f)
  BY <1>1 DEF Coherent
<1>7. QED
  BY <1>1, <1>3, <1>4, <1>5, <1>6 DEF l, f

(* What the CPU computes, of values it sees as they are. *)
Writes1(m, new, x, v) ==
  /\ Coherent(new) /\ Tidy(new)
  /\ \A y : InRam(new, y) = IF y = x THEN v ELSE InRam(m, y)
  /\ DOMAIN new.ram = DOMAIN m.ram \cup {x}

LEMMA StoredWrites ==
  ASSUME NEW m, Tidy(m), Coherent(m), NEW x \in Stores, NEW v
  PROVE  Writes1(m, Stored(m, x, v), x, v)
<1>1. Tidy(Stored(m, x, v))
  BY TidySteps
<1>2. QED
  BY <1>1, Stores1 DEF Writes1

LEMMA CpuGemmWrites ==
  ASSUME NEW m, Tidy(m), Coherent(m), NEW a, NEW b, NEW c \in Stores, NEW p, NEW q, NEW k
  PROVE  Writes1(m, cpu_gemm(m, a, b, c, p, q, k), c, Gemm(InRam(m, a), InRam(m, b), p, q, k))
<1> DEFINE l == Loaded(m, a)
           n == Loaded(l, b)
           v == Gemm(InRam(m, a), InRam(m, b), p, q, k)
<1>1. Tidy(l) /\ Coherent(l) /\ (\A y : InRam(l, y) = InRam(m, y)) /\ l.ram = m.ram
      /\ Load(m, a) = InRam(m, a)
  BY Loads, TidySteps
<1>2. Load(m, b) = InRam(m, b)
  BY Loads
<1> HIDE DEF l
<1>3. Tidy(n) /\ Coherent(n) /\ (\A y : InRam(n, y) = InRam(l, y)) /\ n.ram = l.ram
  BY <1>1, Loads, TidySteps
<1>4. Writes1(n, Stored(n, c, v), c, v)
  BY <1>3, StoredWrites
<1> HIDE DEF n, v
<1>5. Writes1(m, Stored(n, c, v), c, v)
  BY <1>1, <1>3, <1>4 DEF Writes1
<1>6. cpu_gemm(m, a, b, c, p, q, k) = Stored(n, c, v)
  BY <1>1, <1>2, Zenon DEF cpu_gemm, n, l, v
<1>7. QED
  BY <1>5, <1>6 DEF v

LEMMA EpilogueWrites ==
  ASSUME NEW m, Tidy(m), Coherent(m), NEW a, NEW c \in Stores, NEW bias, NEW mult, NEW shift, NEW relu
  PROVE  Writes1(m, epilogue(m, a, bias, c, mult, shift, relu), c,
                 Requantized(InRam(m, a), bias, mult, shift, relu))
<1> DEFINE l == Loaded(m, a)
           v == Requantized(InRam(m, a), bias, mult, shift, relu)
<1>1. Tidy(l) /\ Coherent(l) /\ (\A y : InRam(l, y) = InRam(m, y)) /\ l.ram = m.ram
      /\ Load(m, a) = InRam(m, a)
  BY Loads, TidySteps
<1>2. Writes1(l, Stored(l, c, v), c, v)
  BY <1>1, StoredWrites
<1> HIDE DEF l, v
<1>3. Writes1(m, Stored(l, c, v), c, v)
  BY <1>1, <1>2 DEF Writes1
<1>4. epilogue(m, a, bias, c, mult, shift, relu) = Stored(l, c, v)
  BY <1>1, Zenon DEF epilogue, l, v
<1>5. QED
  BY <1>3, <1>4 DEF v

(* Filling the operands of a test changes nothing else. *)
LEMMA FilledWrites ==
  ASSUME NEW m, Tidy(m), Coherent(m), NEW p, NEW q
  PROVE  /\ Tidy(Filled(m, p, q)) /\ Coherent(Filled(m, p, q))
         /\ \A y : y \notin {At["ta"], At["tb"]} => InRam(Filled(m, p, q), y) = InRam(m, y)
         /\ DOMAIN Filled(m, p, q).ram = DOMAIN m.ram \cup {At["ta"], At["tb"]}
<1> DEFINE u == rnd8(main.drawn, p)
           v == rnd8(main.drawn + p, q)
           s == Stored(m, At["ta"], u)
<1>1. At["ta"] \in Stores /\ At["tb"] \in Stores
  BY StoresHave
<1>2. Writes1(m, s, At["ta"], u)
  BY <1>1, StoredWrites
<1> HIDE DEF s
<1>3. Writes1(s, Stored(s, At["tb"], v), At["tb"], v)
  BY <1>1, <1>2, StoredWrites DEF Writes1
<1>4. Filled(m, p, q) = Stored(s, At["tb"], v)
  BY Zenon DEF Filled, s
<1> HIDE DEF u, v
<1>5. QED
  BY <1>2, <1>3, <1>4 DEF Writes1

(* The comparison of two values it sees as they are. *)
LEMMA DiffersIs ==
  ASSUME NEW m, Tidy(m), Coherent(m), NEW x, NEW y
  PROVE  bytes_differ(m, x, y) <=> InRam(m, x) # InRam(m, y)
BY Loads DEF bytes_differ

-----------------------------------------------------------------------------
(* Where the values are: no two of them in one place, and none in the place *)
(* of an input or of weights.                                               *)
Scratch == {At[a] : a \in {"ta", "tb", "tc_hw", "tc_sw", "acc1", "acc2"}}

LEMMA ScratchApart ==
  /\ At["tc_hw"] \notin {At["ta"], At["tb"], At["tc_sw"], At["acc1"], At["acc2"]}
  /\ At["acc1"] \notin {At["ta"], At["tb"], At["tc_sw"]} /\ At["acc1"] # At["acc2"]
  /\ At["acc2"] \notin {At["ta"], At["tb"], At["tc_sw"]}
  /\ At["tc_sw"] \notin {At["ta"], At["tb"]}
BY Indices, SMT

LEMMA OutputAt ==
  ASSUME NEW i \in 0 .. 5
  PROVE  \A layer \in Layers :
           /\ Output("gemm", i, layer) = MainRam + (IF layer = 1 THEN 77120 + 2048 * i ELSE 88640 + 640 * i)
           /\ Output("fused", i, layer) = MainRam + (IF layer = 1 THEN 103760 + 2048 * i ELSE 115280 + 640 * i)
           /\ Output("cpu", i, layer) = MainRam + (IF layer = 1 THEN 92240 + 2048 * i ELSE 118896 + 640 * i)
<1>1. /\ H("gemm", i) = MainRam + 77120 + 2048 * i
      /\ H("fused", i) = MainRam + 103760 + 2048 * i
      /\ H("cpu", i) = MainRam + 92240 + 2048 * i
      /\ O("gemm", i) = MainRam + 88640 + 640 * i
      /\ O("fused", i) = MainRam + 115280 + 640 * i
      /\ O("cpu", i) = MainRam + 118896 + 640 * i
      /\ MainRam \in Int /\ i \in Int
  BY NetworkAddresses, Indices
<1>2. QED
  BY <1>1, SMT DEF Output, Layers

LEMMA OutputsApart ==
  ASSUME NEW mode \in Modes, NEW i \in 0 .. 5, NEW layer \in Layers
  PROVE  /\ \A mode2 \in Modes, j \in 0 .. 5, layer2 \in Layers :
              Output(mode, i, layer) = Output(mode2, j, layer2) => mode = mode2 /\ i = j /\ layer = layer2
         /\ Output(mode, i, layer) \notin Scratch
         /\ Output(mode, i, layer) \in Stores
<1>1. MainRam = 1073741824
  BY Indices
<1>2. ASSUME NEW mode2 \in Modes, NEW j \in 0 .. 5, NEW layer2 \in Layers,
             Output(mode, i, layer) = Output(mode2, j, layer2)
      PROVE  mode = mode2 /\ i = j /\ layer = layer2
  BY <1>1, <1>2, OutputAt, SMT DEF Modes, Layers
<1>3. Output(mode, i, layer) \notin Scratch
  BY <1>1, OutputAt, Indices, SMT DEF Modes, Layers, Scratch
<1>4. Output(mode, i, layer) \in Stores
  BY StoresHave DEF Output
<1>5. QED
  BY <1>2, <1>3, <1>4

LEMMA InputsApart ==
  ASSUME NEW i \in 0 .. 5
  PROVE  /\ X(i) \notin Stores
         /\ \A layer \in Layers : Weights(layer) \notin Stores
         /\ \A j \in 0 .. 5 : X(i) = X(j) => i = j
<1>1. /\ MainRam = 1073741824 /\ X(i) = MainRam + 4096 * i
      /\ At["w1t"] = MainRam + 23040 /\ At["w2t"] = MainRam + 25088
  BY NetworkAddresses, Indices
<1>2. \A x \in Stores : x - MainRam >= 25408
  BY StoresAre, SMT
<1>3. X(i) \notin Stores
  BY <1>1, <1>2, SMT
<1>4. \A layer \in Layers : Weights(layer) \notin Stores
  BY <1>1, <1>2, SMT DEF Weights, Layers
<1>5. \A j \in 0 .. 5 : X(i) = X(j) => i = j
  BY NetworkAddresses, Indices, SMT
<1>6. QED
  BY <1>3, <1>4, <1>5

LEMMA SumsAre ==
  \A layer \in Layers : Sums(layer) \in Scratch /\ Sums(layer) \in Stores
BY StoresHave DEF Sums, Scratch

(* Values of different making differ. *)
LEMMA ValuesDiffer ==
  /\ \A x, a, b, m, n, k : Linked(x) # Gemm(a, b, m, n, k)
  /\ \A x, a, b, m, s, r : Linked(x) # Requantized(a, b, m, s, r)
  /\ \A a, b, m, n, k : <<"0xA5">> # Gemm(a, b, m, n, k)
BY DEF Linked, Gemm, Requantized

LEMMA ShapeOf == \A a, b, m, n, k : Gemm(a, b, m, n, k)[4] = <<m, n, k>>
BY DEF Gemm

LEMMA InputData ==
  ASSUME NEW i \in 0 .. 5
  PROVE  Linked(X(i)) = <<"data", X(i)>>
<1>1. X(i) = MainRam + 4096 * i /\ MainRam = 1073741824
  BY NetworkAddresses, Indices
<1>2. 1 \in 1 .. 15 /\ X(i) \in Int /\ 1 \in Int
      /\ MainRam + 0 <= X(i) /\ X(i) + 1 <= MainRam + 0 + 23040
  BY <1>1, SMT
<1>3. Offsets[1] = 0 /\ Lengths[1] = 23040 /\ Names[1] = "x_test"
  BY SMT DEF Offsets, Lengths, Names
<1>4. Within(X(i), 1, "x_test")
  BY <1>2, <1>3, Inwards
<1>5. QED
  BY <1>4 DEF Linked, Constants

LEMMA GoldenIs ==
  \A i, layer : layer \in Layers => GoldenOutput(i, layer) = Activation(GoldenSums(i, layer), layer)
BY Zenon DEF Layers, GoldenOutput, Activation, GoldenSums, Product, GoldenInput, GoldenHidden, GoldenLogits,
   Weights, Columns, Depth, BiasOf

LEMMA ActivationSame ==
  \A p, q, layer : Activation(p, layer) = Activation(q, layer) => p = q
BY SMT DEF Activation, Requantized

(* The layers of two batches are not mistaken for each other. *)
LEMMA BatchesDiffer ==
  ASSUME NEW i \in 0 .. 5, NEW j \in 0 .. 5, NEW layer \in Layers,
         GoldenSums(i, layer) = GoldenSums(j, layer)
  PROVE  i = j
<1>1. ASSUME GoldenSums(i, 1) = GoldenSums(j, 1)
      PROVE  i = j
  <2>1. Linked(X(i)) = Linked(X(j))
    BY <1>1, SMT DEF GoldenSums, GoldenInput, Product, Gemm
  <2>2. X(i) = X(j)
    BY <2>1, InputData
  <2>3. QED
    BY <2>2, InputsApart
<1>2. CASE layer = 1
  BY <1>1, <1>2
<1>3. CASE layer = 2
  <2>1. GoldenHidden(i) = GoldenHidden(j)
    BY <1>3, SMT DEF GoldenSums, GoldenInput, Product, Gemm
  <2>2. GoldenOutput(i, 1) = GoldenOutput(j, 1)
    BY <2>1 DEF GoldenOutput
  <2>3. Activation(GoldenSums(i, 1), 1) = Activation(GoldenSums(j, 1), 1)
    BY <2>2, GoldenIs DEF Layers
  <2>4. QED
    BY <1>1, <2>3, ActivationSame
<1>4. QED
  BY <1>2, <1>3 DEF Layers

-----------------------------------------------------------------------------
(* The calls of main() layer by layer, and what they are owed. *)

LEMMA LayersAre ==
  ASSUME main.layer \in Layers, NEW i
  PROVE  /\ LayerGemm(i) = accel_gemm(Input("gemm", i, main.layer), Weights(main.layer), Sums(main.layer),
                                      BatchSize(i), Columns(main.layer), Depth(main.layer))
         /\ main.layer = 1 =>
              LayerFused(i) = accel_layer(X(i), At["w1t"], H("fused", i), BatchSize(i), N_HID, N_IN,
                                          L1_MULT, L1_SHIFT, TRUE)
         /\ main.layer = 2 =>
              LayerFused(i) = accel_layer(H("fused", i), At["w2t"], O("fused", i), BatchSize(i), N_OUT, N_HID,
                                          L2_MULT, L2_SHIFT, FALSE)
<1>1. CASE main.layer = 1
  BY <1>1, SMT DEF LayerGemm, LayerFused, Input, Weights, Sums, Columns, Depth
<1>2. CASE main.layer = 2
  BY <1>2, SMT DEF LayerGemm, LayerFused, Input, Weights, Sums, Columns, Depth
<1>3. QED
  BY <1>1, <1>2 DEF Layers

LEMMA GemmFields ==
  ASSUME NEW a, NEW b, NEW c, NEW m, NEW n, NEW k
  PROVE  LET d == accel_gemm(a, b, c, m, n, k)
         IN  /\ d["A_BASE"] = a /\ d["B_BASE"] = b /\ d["C_BASE"] = c
             /\ d["M"] = m /\ d["N"] = n /\ d["K"] = k /\ d["POST_CFG"] = 0 /\ ~Bit(d["POST_CFG"], 1)
BY RawOutput DEF accel_gemm, Descriptor

LEMMA PostBits ==
  ASSUME NEW relu \in BOOLEAN
  PROVE  LET c == PostCfg(30, relu) IN Bit(c, 1) /\ (c \div 4) % 64 = 30 /\ Bit(c, 0) = relu
<1>1. /\ Bit(PostCfg(30, relu), 1) /\ (PostCfg(30, relu) \div 4) % 64 = 30
      /\ Bit(PostCfg(30, relu), 0) <=> relu
  BY SMT DEF Bit, PostCfg
<1>2. Bit(PostCfg(30, relu), 0) = relu
  BY <1>1, Zenon DEF Bit
<1>3. QED
  BY <1>1, <1>2

LEMMA TestOwed ==
  ASSUME NEW s, TestCall(s)
  PROVE  /\ cpu.d["C_BASE"] = At["tc_hw"]
         /\ Owed = Gemm(InRam(mem, At["ta"]), InRam(mem, At["tb"]), s[1], s[2], s[3])
<1> DEFINE d == accel_gemm(At["ta"], At["tb"], At["tc_hw"], s[1], s[2], s[3])
<1>1. /\ d["A_BASE"] = At["ta"] /\ d["B_BASE"] = At["tb"] /\ d["C_BASE"] = At["tc_hw"]
      /\ d["M"] = s[1] /\ d["N"] = s[2] /\ d["K"] = s[3] /\ ~Bit(d["POST_CFG"], 1)
  BY GemmFields
<1>2. cpu.d = d
  BY DEF TestCall
<1> HIDE DEF d
<1>3. QED
  BY <1>1, <1>2 DEF Owed

(* Inputs and weights are where the linker put them; hidden values are what *)
(* the mode made of them.                                                   *)
LEMMA ConstantsStay ==
  ASSUME NEW m, Tidy(m)
  PROVE  /\ \A i \in 0 .. 5 : InRam(m, X(i)) = Linked(X(i))
         /\ \A layer \in Layers : InRam(m, Weights(layer)) = Linked(Weights(layer))
<1>1. \A x : x \notin Stores => InRam(m, x) = Linked(x)
  BY DEF Tidy, InRam
<1>2. QED
  BY <1>1, InputsApart

LEMMA GoldenSoFar ==
  ASSUME MainOK, Tidy(mem), NEW mode \in Modes, main.at = mode, Golden(mode)
  PROVE  InRam(mem, Input(mode, main.i, main.layer)) = GoldenInput(main.i, main.layer)
<1>1. main.i \in 0 .. 5 /\ main.layer \in Layers
  BY BatchesFit DEF MainOK, Modes, Layers
<1>2. CASE main.layer = 1
  BY <1>1, <1>2, ConstantsStay DEF Input, GoldenInput
<1>3. CASE main.layer = 2
  <2>1. Done(mode, main.i, 1)
    BY <1>3 DEF Done
  <2>2. InRam(mem, Output(mode, main.i, 1)) = GoldenOutput(main.i, 1)
    BY <1>1, <2>1 DEF Golden, Layers
  <2>3. QED
    BY <1>3, <2>2 DEF Output, GoldenOutput, Input, GoldenInput
<1>4. QED
  BY <1>1, <1>2, <1>3 DEF Layers

LEMMA GemmOwed ==
  ASSUME MainOK, Tidy(mem), main.at = "gemm", cpu.d = LayerGemm(main.i)
  PROVE  /\ cpu.d["A_BASE"] = Input("gemm", main.i, main.layer) /\ cpu.d["B_BASE"] = Weights(main.layer)
         /\ cpu.d["C_BASE"] = Sums(main.layer) /\ ~Bit(cpu.d["POST_CFG"], 1)
         /\ Owed = Product(InRam(mem, Input("gemm", main.i, main.layer)), main.i, main.layer)
         /\ cpu.d["M"] = BatchSize(main.i) /\ cpu.d["N"] = Columns(main.layer)
         /\ cpu.d["K"] = Depth(main.layer)
         /\ Golden("gemm") => Owed = GoldenSums(main.i, main.layer)
<1> DEFINE i == main.i
           l == main.layer
           a == Input("gemm", i, l)
           d == accel_gemm(a, Weights(l), Sums(l), BatchSize(i), Columns(l), Depth(l))
<1>1. i \in 0 .. 5 /\ l \in Layers
  BY BatchesFit DEF MainOK, Layers
<1>2. cpu.d = d
  BY <1>1, LayersAre
<1>3. /\ d["A_BASE"] = a /\ d["B_BASE"] = Weights(l) /\ d["C_BASE"] = Sums(l)
      /\ d["M"] = BatchSize(i) /\ d["N"] = Columns(l) /\ d["K"] = Depth(l) /\ ~Bit(d["POST_CFG"], 1)
  BY GemmFields
<1> HIDE DEF d
<1>4. InRam(mem, Weights(l)) = Linked(Weights(l))
  BY <1>1, ConstantsStay
<1>5. Owed = Gemm(InRam(mem, a), InRam(mem, Weights(l)), BatchSize(i), Columns(l), Depth(l))
  BY <1>2, <1>3 DEF Owed
<1>6. Owed = Product(InRam(mem, a), i, l)
  BY <1>4, <1>5 DEF Product
<1>7. Golden("gemm") => InRam(mem, a) = GoldenInput(i, l)
  BY GoldenSoFar DEF Modes
<1>8. QED
  BY <1>2, <1>3, <1>6, <1>7 DEF GoldenSums

LEMMA FusedOwed ==
  ASSUME MainOK, Tidy(mem), main.at = "fused", cpu.d = LayerFused(main.i), cpu.bias = BiasOf(main.layer)
  PROVE  /\ cpu.d["A_BASE"] = Input("fused", main.i, main.layer) /\ cpu.d["B_BASE"] = Weights(main.layer)
         /\ cpu.d["C_BASE"] = Output("fused", main.i, main.layer)
         /\ cpu.d["POST_BIAS"] = 0 /\ Bit(cpu.d["POST_CFG"], 1)
         /\ cpu.d["M"] = BatchSize(main.i) /\ cpu.d["N"] = Columns(main.layer)
         /\ cpu.d["K"] = Depth(main.layer)
         /\ \E p : Owed = Activation(p, main.layer)
         /\ Golden("fused") => Owed = GoldenOutput(main.i, main.layer)
<1> DEFINE i == main.i
           l == main.layer
           a == Input("fused", i, l)
           mult == IF l = 1 THEN L1_MULT ELSE L2_MULT
           relu == l = 1
           d == accel_layer(a, Weights(l), Output("fused", i, l), BatchSize(i), Columns(l), Depth(l),
                            mult, 30, relu)
<1>1. i \in 0 .. 5 /\ l \in Layers
  BY BatchesFit DEF MainOK, Layers
<1>2. cpu.d = d
  <2>1. L1_SHIFT = 30 /\ L2_SHIFT = 30
    BY DEF L1_SHIFT, L2_SHIFT
  <2>2. CASE l = 1
    <3>1. d = accel_layer(X(i), At["w1t"], H("fused", i), BatchSize(i), N_HID, N_IN, L1_MULT, 30, TRUE)
      BY <2>2, Zenon DEF Input, Weights, Output, Columns, Depth
    <3>2. QED
      BY <1>1, <2>1, <2>2, <3>1, LayersAre
  <2>3. CASE l = 2
    <3>1. l # 1
      BY <2>3
    <3>2. d = accel_layer(H("fused", i), At["w2t"], O("fused", i), BatchSize(i), N_OUT, N_HID, L2_MULT, 30, FALSE)
      BY <3>1, Zenon DEF Input, Weights, Output, Columns, Depth
    <3>3. QED
      BY <1>1, <2>1, <2>3, <3>2, LayersAre
  <2>4. QED
    BY <1>1, <2>2, <2>3 DEF Layers
<1>3. /\ d["A_BASE"] = a /\ d["B_BASE"] = Weights(l) /\ d["C_BASE"] = Output("fused", i, l)
      /\ d["M"] = BatchSize(i) /\ d["N"] = Columns(l) /\ d["K"] = Depth(l)
      /\ d["POST_BIAS"] = 0 /\ d["POST_SCALE"] = mult
      /\ Bit(d["POST_CFG"], 1) /\ (d["POST_CFG"] \div 4) % 64 = 30 /\ Bit(d["POST_CFG"], 0) = relu
  <2>1. relu \in BOOLEAN
    OBVIOUS
  <2> HIDE DEF a, mult, relu
  <2>2. QED
    BY <2>1, PostBits DEF accel_layer, Descriptor
<1> HIDE DEF d
<1>4. InRam(mem, Weights(l)) = Linked(Weights(l))
  BY <1>1, ConstantsStay
<1> DEFINE p == Product(InRam(mem, a), i, l)
<1>5. Owed = Requantized(p, BiasOf(l), mult, 30, relu)
  <2>1. p = Gemm(InRam(mem, a), InRam(mem, Weights(l)), BatchSize(i), Columns(l), Depth(l))
    BY <1>4 DEF Product
  <2> HIDE DEF p, mult, relu
  <2>2. QED
    BY <1>2, <1>3, <2>1, Zenon DEF Owed
<1>6. Owed = Activation(p, l)
  <2> HIDE DEF p
  <2>1. L1_SHIFT = 30 /\ L2_SHIFT = 30
    BY DEF L1_SHIFT, L2_SHIFT
  <2>2. CASE l = 1
    <3>1. mult = L1_MULT /\ relu = TRUE
      BY <2>2
    <3>2. QED
      BY <1>5, <2>1, <2>2, <3>1, Zenon DEF Activation
  <2>3. CASE l = 2
    <3>1. mult = L2_MULT /\ relu = FALSE /\ l # 1
      BY <2>3
    <3>2. QED
      BY <1>5, <2>1, <2>3, <3>1, Zenon DEF Activation
  <2>4. QED
    BY <1>1, <2>2, <2>3 DEF Layers
<1>7. Golden("fused") => InRam(mem, a) = GoldenInput(i, l)
  BY GoldenSoFar DEF Modes
<1>8. Golden("fused") => Owed = GoldenOutput(i, l)
  BY <1>1, <1>6, <1>7, GoldenIs DEF GoldenSums
<1> HIDE DEF p
<1>9. QED
  BY <1>2, <1>3, <1>6, <1>8

-----------------------------------------------------------------------------
(* What a clock of the device does to memory, and to the count of faults.   *)

(* Nothing, while no job runs. *)
LEMMA QuietStep ==
  ASSUME DemoIInv, faults \in Nat, cpu.at # "poll", NEW w, NEW m, Device(w, m)
  PROVE  mem' = m /\ faults' = faults
<1>1. Cycle(w) /\ IInv /\ Blame /\ ~DmaBusy(eng)
  BY DEF Device, DemoIInv, DeviceOK, Rested
<1>2. ~CEnds
  BY <1>1 DEF CEnds, DmaBusy, Engines
<1>3. ~Fails
  <2>1. CASE Start(w, eng)
    BY <1>1, <2>1, StartStep DEF Fails
  <2>2. CASE ~Start(w, eng)
    BY <1>1, <2>2, WorkStep DEF Fails
  <2>3. QED
    BY <2>1, <2>2
<1>4. QED
  BY <1>2, <1>3 DEF Device

(* While one runs: nothing, an engine fails, the C mover ends without a     *)
(* word, or it ends and has written.                                        *)
Nothing(m) == faults' = faults /\ (job'.failed <=> job.failed) /\ (CEnds => job.failed) /\ mem' = m
Failing(m) == faults' = faults + 1 /\ job'.failed /\ mem' = m
Silent(m) == faults' = faults + 1 /\ CEnds /\ ~job.failed /\ ~job'.failed /\ mem' = m
Writing(m) ==
  /\ faults' = faults /\ CEnds /\ ~job.failed /\ ~job'.failed
  /\ mem' = Written(m, cpu.d["C_BASE"], Result(cpu.d))

LEMMA PollClock ==
  ASSUME DemoIInv, faults \in Nat, cpu.at = "poll", NEW m, Device(Idle, m)
  PROVE  /\ Nothing(m) \/ Failing(m) \/ Silent(m) \/ Writing(m)
         /\ eng'["C"].busy => eng["C"].busy
         /\ job.failed => job'.failed
<1>1. Cycle(Idle) /\ IInv /\ Blame /\ ~Start(Idle, eng) /\ TypeOK
  BY HarmlessWrites DEF Device, DemoIInv, DeviceOK, Harmless, IInv
<1>2. ~Accept(Idle, eng) /\ "C" \in Engines
  BY <1>1 DEF Accept, Engines
<1>3. eng'["C"].busy => eng["C"].busy
  BY <1>1, <1>2, EnginesStep
<1>4. job.failed => job'.failed
  BY <1>1, JobStep
<1>5. job.cfg = cpu.d
  BY DEF DemoIInv, DeviceOK, Own
<1>6. PICK silent \in IF CEnds /\ ~job'.failed THEN BOOLEAN ELSE {FALSE} :
        /\ faults' = faults + (IF Fails \/ silent THEN 1 ELSE 0)
        /\ mem' = IF CEnds /\ ~job'.failed /\ ~silent
                    THEN Written(m, job.cfg["C_BASE"], Result(job.cfg)) ELSE m
  BY DEF Device
<1>7. CASE Fails
  <2>1. ~CEnds \/ job'.failed
    BY <1>7 DEF Fails
  <2>2. QED
    BY <1>3, <1>4, <1>6, <1>7, <2>1 DEF Fails, Failing
<1>8. CASE ~Fails
  <2>1. job'.failed <=> job.failed
    BY <1>4, <1>8 DEF Fails
  <2>2. CASE silent
    BY <1>3, <1>6, <2>1, <2>2 DEF Silent
  <2>3. CASE ~silent
    BY <1>3, <1>5, <1>6, <1>8, <2>1, <2>3 DEF Nothing, Writing
  <2>4. QED
    BY <1>4, <1>6, <2>2, <2>3
<1>9. QED
  BY <1>7, <1>8

-----------------------------------------------------------------------------
(* What a step that touches no value keeps. *)

LEMMA SameView ==
  ASSUME main' = main, mem'.ram = mem.ram
  PROVE  /\ \A y : InRam(mem', y) = InRam(mem, y)
         /\ \A mode, i, layer : Done(mode, i, layer)' <=> Done(mode, i, layer)
         /\ \A mode : Golden(mode)' <=> Golden(mode)
<1>1. \A y : InRam(mem', y) = InRam(mem, y)
  BY DEF InRam
<1>2. \A mode, i, layer : Done(mode, i, layer)' <=> Done(mode, i, layer)
  BY DEF Done
<1>3. QED
  BY <1>1, <1>2 DEF Golden

LEMMA SameOwed ==
  ASSUME mem'.ram = mem.ram, cpu'.d = cpu.d, cpu'.bias = cpu.bias
  PROVE  Owed' = Owed /\ (Paid' <=> Paid)
<1>1. \A y : InRam(mem', y) = InRam(mem, y)
  BY DEF InRam
<1>2. Owed' = Owed
  BY <1>1 DEF Owed
<1>3. QED
  BY <1>1, <1>2 DEF Paid

LEMMA LedgerKept ==
  ASSUME Ledger, main' = main, mem'.ram = mem.ram, faults' = faults,
         Over' <=> Over, Told' <=> Told,
         Over => cpu'.d = cpu.d /\ cpu'.bias = cpu.bias
  PROVE  Ledger'
<1>1. /\ \A y : InRam(mem', y) = InRam(mem, y)
      /\ \A mode, i, layer : Done(mode, i, layer)' <=> Done(mode, i, layer)
      /\ \A mode : Golden(mode)' <=> Golden(mode)
  BY SameView
<1>2. Over => (Paid' <=> Paid)
  BY SameOwed
<1>3. Golden("cpu")' /\ (Amiss' <=> Amiss)
  BY <1>1 DEF Ledger, Amiss
<1>4. Accounted'
  BY <1>2, <1>3 DEF Ledger, Accounted, Counts, Sane, Seen
<1>5. Patterned' /\ Unused' /\ LastShape'
  BY <1>1 DEF Ledger, Leftover, Patterned, Unused, LastShape, Recovering
<1>6. Empty'
  BY <1>1 DEF Ledger, Leftover, Empty, Current
<1>7. OldSums'
  BY <1>1 DEF Ledger, Leftover, OldSums
<1>8. QED
  BY <1>3, <1>4, <1>5, <1>6, <1>7 DEF Ledger, Leftover

-----------------------------------------------------------------------------
(* Polling: what the job owes, what it leaves alone, and what was there.    *)

(* While a call of main() is past START, it is one of these. *)
Active == cpu.at \in Ending \cup {"poll"}

LEMMA ActiveTask ==
  ASSUME DemoIInv, Task, Active
  PROVE  \/ main.at = "selftestCheck" /\ TestCall(shapes[main.i])
         \/ main.at = "recoverCheck" /\ TestCall(<<4, 4, 4>>)
         \/ /\ main.at = "gemm" /\ cpu.bias = "none" /\ cpu.st /\ cpu.d = LayerGemm(main.i)
         \/ /\ main.at = "fused" /\ cpu.bias = BiasOf(main.layer) /\ cpu.st /\ cpu.d = LayerFused(main.i)
<1>1. cpu.at # "idle" /\ ~cpu.probe
  BY DEF Active, Ending, DemoIInv, Probing
<1>2. QED
  BY <1>1 DEF Task

(* What the job writes is not what it reads, nor a value main() is done with. *)
LEMMA TargetApart ==
  ASSUME DemoIInv, Tidy(mem), Task, Active
  PROVE  LET c == cpu.d["C_BASE"]
         IN  /\ c \in Stores
             /\ \A mode \in Modes, i \in 0 .. 5, layer \in Layers :
                  Output(mode, i, layer) = c => Current(mode, i, layer) /\ mode = "fused"
             /\ main.at \in {"selftestCheck", "recoverCheck"} => c = At["tc_hw"]
             /\ main.at = "gemm" => c = Sums(main.layer)
             /\ main.at = "fused" => c = Output("fused", main.i, main.layer)
             /\ c # cpu.d["A_BASE"] /\ c # cpu.d["B_BASE"]
<1> DEFINE c == cpu.d["C_BASE"]
<1>1. /\ "gemm" \in Modes /\ "fused" \in Modes /\ MainOK
      /\ main.at \in Modes => main.i \in 0 .. 5 /\ main.layer \in Layers
  BY BatchesFit DEF DemoIInv, MainOK, Modes, Layers
<1>2. ASSUME c \in Scratch, main.at # "fused"
      PROVE  \A mode \in Modes, i \in 0 .. 5, layer \in Layers : Output(mode, i, layer) # c
  BY <1>2, OutputsApart
<1>3. ASSUME NEW s, main.at \in {"selftestCheck", "recoverCheck"}, TestCall(s)
      PROVE  /\ c = At["tc_hw"] /\ c # cpu.d["A_BASE"] /\ c # cpu.d["B_BASE"]
             /\ c \in Stores /\ c \in Scratch
  BY <1>3, GemmFields, ScratchApart, StoresHave DEF TestCall, Scratch
<1>4. ASSUME main.at = "gemm", cpu.d = LayerGemm(main.i)
      PROVE  /\ c = Sums(main.layer) /\ c # cpu.d["A_BASE"] /\ c # cpu.d["B_BASE"]
             /\ c \in Stores /\ c \in Scratch
  <2>1. main.i \in 0 .. 5 /\ main.layer \in Layers
    BY <1>1, <1>4 DEF Modes
  <2>2. /\ cpu.d["A_BASE"] = Input("gemm", main.i, main.layer) /\ cpu.d["B_BASE"] = Weights(main.layer)
        /\ c = Sums(main.layer)
    BY <1>1, <1>4, GemmOwed
  <2>3. c \in Stores /\ c \in Scratch
    BY <2>1, <2>2, SumsAre
  <2>4. H("gemm", main.i) \notin Scratch
    BY <1>1, <2>1, OutputsApart DEF Output, Layers
  <2>5. QED
    BY <2>1, <2>2, <2>3, <2>4, InputsApart DEF Input
<1>5. ASSUME main.at = "fused", cpu.d = LayerFused(main.i), cpu.bias = BiasOf(main.layer)
      PROVE  /\ c = Output("fused", main.i, main.layer) /\ c # cpu.d["A_BASE"] /\ c # cpu.d["B_BASE"]
             /\ c \in Stores
  <2>1. main.i \in 0 .. 5 /\ main.layer \in Layers
    BY <1>1, <1>5 DEF Modes
  <2>2. c = Output("fused", main.i, main.layer)
    BY <1>1, <1>5, FusedOwed DEF KnownJobs
  <2>3. /\ main.layer = 1 => cpu.d["A_BASE"] = X(main.i)
        /\ main.layer = 2 => cpu.d["A_BASE"] = Output("fused", main.i, 1)
        /\ cpu.d["B_BASE"] = Weights(main.layer)
    BY <1>1, <1>5, FusedOwed DEF Input, Output
  <2>4. c \in Stores
    BY <1>1, <2>1, <2>2, OutputsApart
  <2>5. Output("fused", main.i, 1) # Output("fused", main.i, 2)
    BY <1>1, <2>1, OutputsApart DEF Layers
  <2>6. QED
    BY <2>1, <2>2, <2>3, <2>4, <2>5, InputsApart DEF Layers
<1>6. ASSUME main.at = "fused", cpu.d = LayerFused(main.i), cpu.bias = BiasOf(main.layer),
             NEW mode \in Modes, NEW i \in 0 .. 5, NEW layer \in Layers, Output(mode, i, layer) = c
      PROVE  Current(mode, i, layer) /\ mode = "fused"
  BY <1>1, <1>5, <1>6, OutputsApart DEF Current, Modes
<1>7. QED
  BY <1>2, <1>3, <1>4, <1>5, <1>6, ActiveTask

LEMMA ResultOwed ==
  ASSUME DemoIInv, Tidy(mem), Task, BiasKnown, cpu.at = "poll"
  PROVE  Result(cpu.d) = Owed
<1> DEFINE d == cpu.d
<1>1. Active
  BY DEF Active
<1>2. ASSUME ~Bit(d["POST_CFG"], 1)
      PROVE  Result(d) = Owed
  BY <1>2, Zenon DEF Result, Owed
<1>3. ASSUME BiasUsed(d) = cpu.bias
      PROVE  Result(d) = Owed
  BY <1>3, Zenon DEF Result, Owed
<1>4. CASE main.at # "fused"
  <2>1. ASSUME NEW s, TestCall(s)
        PROVE  ~Bit(d["POST_CFG"], 1)
    BY <2>1, GemmFields DEF TestCall
  <2>2. ASSUME main.at = "gemm", cpu.d = LayerGemm(main.i)
        PROVE  ~Bit(d["POST_CFG"], 1)
    BY <2>2, GemmOwed DEF DemoIInv
  <2>3. QED
    BY <1>1, <1>2, <1>4, <2>1, <2>2, ActiveTask
<1>5. CASE main.at = "fused"
  <2>1. cpu.d = LayerFused(main.i) /\ cpu.bias = BiasOf(main.layer) /\ MainOK
    BY <1>1, <1>5, ActiveTask DEF DemoIInv
  <2>2. d["POST_BIAS"] = 0 /\ d["N"] = Columns(main.layer)
    BY <1>5, <2>1, FusedOwed
  <2>3. d["N"] >= 1 /\ d["N"] \in Nat
    BY <2>2 DEF Columns, N_HID, N_OUT
  <2>4. cpu.bias # "none"
    BY <2>1 DEF BiasOf, b1, b2
  <2>5. \A j \in 0 .. d["N"] - 1 : biasVec[j] = cpu.bias
    BY <2>4 DEF BiasKnown
  <2>6. {biasVec[j] : j \in 0 .. d["N"] - 1} = {cpu.bias}
    <3>1. 0 \in 0 .. d["N"] - 1
      BY <2>3
    <3>2. QED
      BY <2>5, <3>1
  <2>7. BiasUsed(d) = cpu.bias
    <3> DEFINE e == {biasVec[j] : j \in 0 .. d["N"] - 1}
    <3>1. e = {cpu.bias}
      BY <2>6
    <3> HIDE DEF e
    <3>2. BiasUsed(d) = IF d["POST_BIAS"] # 0 THEN "shifted"
                        ELSE IF \E v \in e : e = {v} THEN CHOOSE v \in e : TRUE ELSE "medley"
      BY DEF BiasUsed, e
    <3>3. (CHOOSE v \in e : TRUE) \in e
      BY <3>1
    <3>4. QED
      BY <2>2, <3>1, <3>2, <3>3
  <2>8. QED
    BY <1>3, <2>7
<1>6. QED
  BY <1>4, <1>5

(* A job that has not written could not pass for one that has. *)
LEMMA StaleOwed ==
  ASSUME DemoIInv, Tidy(mem), Task, Ledger, faults = 0, cpu.at = "poll", ~Over
  PROVE  ~Paid
<1> DEFINE c == cpu.d["C_BASE"]
<1>1. Active /\ MainOK /\ Golden("gemm") /\ Golden("fused")
  BY DEF Active, DemoIInv, Ledger, Accounted, Sane, Amiss
<1>2. CASE main.at = "selftestCheck"
  <2>1. TestCall(shapes[main.i])
    BY <1>1, <1>2, ActiveTask
  <2>2. InRam(mem, At["tc_hw"]) = <<"0xA5">>
    BY <1>2 DEF Ledger, Leftover, Patterned
  <2>3. QED
    BY <2>1, <2>2, TestOwed, ValuesDiffer DEF Paid
<1>3. CASE main.at = "recoverCheck"
  <2>1. TestCall(<<4, 4, 4>>)
    BY <1>1, <1>3, ActiveTask
  <2>2. InRam(mem, At["tc_hw"])[4] = <<33, 31, 47>>
    BY <1>3 DEF Ledger, Leftover, LastShape, Recovering
  <2>3. cpu.d["C_BASE"] = At["tc_hw"]
        /\ Owed = Gemm(InRam(mem, At["ta"]), InRam(mem, At["tb"]), 4, 4, 4)
    BY <2>1, TestOwed
  <2>4. Owed[4] = <<4, 4, 4>>
    BY <2>3, ShapeOf
  <2>5. <<4, 4, 4>> # <<33, 31, 47>>
    OBVIOUS
  <2>6. QED
    BY <2>2, <2>3, <2>4, <2>5 DEF Paid
<1>4. CASE main.at = "gemm"
  <2> DEFINE i == main.i
             l == main.layer
  <2>1. cpu.d = LayerGemm(i)
    BY <1>1, <1>4, ActiveTask
  <2>2. c = Sums(l) /\ Owed = GoldenSums(i, l)
    BY <1>1, <1>4, <2>1, GemmOwed
  <2>3. i \in 0 .. 5 /\ l \in Layers
    BY <1>1, <1>4, BatchesFit DEF MainOK, Layers
  <2>4. \/ c \notin DOMAIN mem.ram
        \/ \E j \in 0 .. 5 : Done("gemm", j, l) /\ InRam(mem, c) = GoldenSums(j, l)
    BY <1>4, <2>2, <2>3 DEF Ledger, Leftover, OldSums
  <2>5. ~Done("gemm", i, l)
    BY <1>4, <2>3 DEF Done, After, Layers
  <2>6. CASE c \notin DOMAIN mem.ram
    BY <2>2, <2>6, ValuesDiffer DEF Paid, InRam, GoldenSums, Product
  <2>7. ASSUME NEW j \in 0 .. 5, Done("gemm", j, l), InRam(mem, c) = GoldenSums(j, l)
        PROVE  ~Paid
    BY <2>2, <2>3, <2>5, <2>7, BatchesDiffer DEF Paid
  <2>8. QED
    BY <2>4, <2>6, <2>7
<1>5. CASE main.at = "fused"
  <2>1. cpu.d = LayerFused(main.i) /\ cpu.bias = BiasOf(main.layer)
    BY <1>1, <1>5, ActiveTask
  <2>2. PICK p : Owed = Activation(p, main.layer)
    BY <1>1, <1>5, <2>1, FusedOwed
  <2>3. c = Output("fused", main.i, main.layer)
    BY <1>1, <1>5, <2>1, FusedOwed
  <2>4. main.i \in 0 .. 5 /\ main.layer \in Layers
    BY <1>1, <1>5, BatchesFit DEF MainOK, Layers
  <2>5. ~Done("fused", main.i, main.layer)
    BY <1>5, <2>4 DEF Done, After, Layers
  <2>6. c \notin DOMAIN mem.ram
    BY <2>3, <2>4, <2>5 DEF Ledger, Leftover, Empty
  <2>7. QED
    BY <2>2, <2>6, ValuesDiffer DEF Paid, InRam, Activation
<1>6. QED
  BY <1>1, <1>2, <1>3, <1>4, <1>5, ActiveTask

(* A clock of the poll, told by whether the C mover has ended (Over) and    *)
(* whether the job has failed (Told).                                       *)
LEMMA LeftoverGrows ==
  ASSUME Leftover, main' = main, mem'.ram = mem.ram, faults' = 0 => faults = 0, Over => Over'
  PROVE  Leftover'
<1>1. /\ \A y : InRam(mem', y) = InRam(mem, y)
      /\ \A mode, i, layer : Done(mode, i, layer)' <=> Done(mode, i, layer)
  BY SameView
<1>2. Patterned' /\ Unused' /\ LastShape'
  BY <1>1 DEF Leftover, Patterned, Unused, LastShape, Recovering
<1>3. Empty'
  BY <1>1 DEF Leftover, Empty, Current
<1>4. OldSums'
  BY <1>1 DEF Leftover, OldSums
<1>5. QED
  BY <1>2, <1>3, <1>4 DEF Leftover

LEMMA WritingLedger ==
  ASSUME DemoIInv, Tidy(mem), Task, BiasKnown, Ledger, cpu.at = "poll", main' = main,
         NEW m, m = mem \/ m = Flushed(mem), Writing(m), Over', ~Told', ~Over, ~Told,
         cpu'.d = cpu.d, cpu'.bias = cpu.bias
  PROVE  Ledger'
<1> DEFINE c == cpu.d["C_BASE"]
           a == cpu.d["A_BASE"]
           b == cpu.d["B_BASE"]
<1>1. Active /\ MainOK
  BY DEF Active, DemoIInv
<1>2. /\ c \in Stores /\ c # a /\ c # b
      /\ \A mode \in Modes, i \in 0 .. 5, layer \in Layers :
           Output(mode, i, layer) = c => Current(mode, i, layer) /\ mode = "fused"
      /\ main.at \in {"selftestCheck", "recoverCheck"} => c = At["tc_hw"]
      /\ main.at = "gemm" => c = Sums(main.layer)
      /\ main.at = "fused" => c = Output("fused", main.i, main.layer)
  BY <1>1, TargetApart
<1>3. Tidy(m) /\ m.ram = mem.ram
  BY TidySteps, Loads
<1>4. mem' = Written(m, c, Owed) /\ faults' = faults
  BY ResultOwed DEF Writing
<1>5. /\ \A y : InRam(mem', y) = IF y = c THEN Owed ELSE InRam(mem, y)
      /\ DOMAIN mem'.ram = DOMAIN mem.ram \cup {c}
  <2>1. \A y : InRam(m, y) = InRam(mem, y)
    BY <1>3 DEF InRam
  <2>2. /\ \A y : InRam(Written(m, c, Owed), y) = IF y = c THEN Owed ELSE InRam(m, y)
        /\ DOMAIN Written(m, c, Owed).ram = DOMAIN m.ram \cup {c}
    BY <1>3, Stores1
  <2>3. QED
    BY <1>3, <1>4, <2>1, <2>2
<1>6. Owed' = Owed /\ Paid'
  <2>1. InRam(mem', a) = InRam(mem, a) /\ InRam(mem', b) = InRam(mem, b) /\ InRam(mem', c) = Owed
    BY <1>2, <1>5
  <2>2. Owed' = Owed
    BY <2>1, Zenon DEF Owed
  <2>3. QED
    BY <2>1, <2>2 DEF Paid
<1>7. \A mode, i, layer : /\ Done(mode, i, layer)' <=> Done(mode, i, layer)
                          /\ Current(mode, i, layer)' <=> Current(mode, i, layer)
  BY DEF Done, Current
<1>8. \A mode \in Modes : Golden(mode)' <=> Golden(mode)
  <2>1. ASSUME NEW mode \in Modes, NEW i \in 0 .. 5, NEW layer \in Layers, Done(mode, i, layer)
        PROVE  Output(mode, i, layer) # c
    <3>1. Current(mode, i, layer) => ~Done(mode, i, layer) \/ mode # "fused"
      BY <1>1 DEF Current, Done, After, MainOK, Layers
    <3>2. QED
      BY <1>2, <2>1, <3>1
  <2>2. QED
    BY <1>5, <1>7, <2>1 DEF Golden
<1>9. Golden("cpu")' /\ (Amiss' <=> Amiss)
  BY <1>8 DEF Ledger, Amiss, Modes
<1>10. Accounted'
  BY <1>4, <1>6, <1>9 DEF Ledger, Accounted, Counts, Sane, Seen
<1>11. main.at \in {"selftestCheck", "recoverCheck", "gemm", "fused"}
  BY <1>1, ActiveTask
<1>12. Patterned' /\ Unused' /\ LastShape'
  <2>1. \A layer \in Layers : Sums(layer) # At["tc_hw"]
    BY ScratchApart DEF Sums
  <2>2. QED
    BY <1>2, <1>4, <1>5, <1>11, <2>1 DEF Ledger, Leftover, Patterned, Unused, LastShape, Recovering, SelfTests
<1>13. Empty'
  BY <1>2, <1>5, <1>7 DEF Ledger, Leftover, Empty, Modes
<1>14. OldSums'
  <2> SUFFICES ASSUME faults' = 0, main.at = "gemm", NEW layer \in Layers, main.layer # layer
               PROVE  \/ Sums(layer) \notin DOMAIN mem'.ram
                      \/ \E i \in 0 .. 5 : /\ Done("gemm", i, layer)'
                                           /\ InRam(mem', Sums(layer)) = GoldenSums(i, layer)
    BY DEF OldSums
  <2>1. Sums(layer) # c
    BY <1>1, <1>2, ScratchApart DEF Sums, Layers, MainOK
  <2>2. \/ Sums(layer) \notin DOMAIN mem.ram
        \/ \E i \in 0 .. 5 : Done("gemm", i, layer) /\ InRam(mem, Sums(layer)) = GoldenSums(i, layer)
    BY <1>4 DEF Ledger, Leftover, OldSums
  <2>3. QED
    BY <1>5, <1>7, <2>1, <2>2
<1>15. QED
  BY <1>9, <1>10, <1>12, <1>13, <1>14 DEF Ledger, Leftover

LEMMA PollLedger ==
  ASSUME DemoIInv, Tidy(mem), Task, BiasKnown, Ledger, cpu.at = "poll", main' = main,
         NEW m, m = mem \/ m = Flushed(mem), Device(Idle, m),
         cpu'.d = cpu.d, cpu'.bias = cpu.bias,
         \/ cpu'.at = "poll"
         \/ cpu'.at \in Ending /\ ~DmaBusy(eng) /\ (cpu'.failed <=> job.failed)
  PROVE  Ledger'
<1>1. /\ Nothing(m) \/ Failing(m) \/ Silent(m) \/ Writing(m)
      /\ eng'["C"].busy => eng["C"].busy
      /\ job.failed => job'.failed
      /\ faults \in Nat
  BY PollClock DEF Ledger, Accounted, Counts
<1>2. /\ Told <=> job.failed
      /\ Over <=> ~eng["C"].busy
  BY DEF Told, Over, Ending
<1>3. /\ Told' <=> job'.failed
      /\ Over' <=> ~eng'["C"].busy
  <2>1. CASE cpu'.at = "poll"
    BY <2>1 DEF Told, Over, Ending
  <2>2. CASE cpu'.at \in Ending /\ ~DmaBusy(eng) /\ (cpu'.failed <=> job.failed)
    <3>1. ~eng["C"].busy
      BY <2>2 DEF DmaBusy, Engines
    <3>2. job'.failed <=> job.failed
      <4>1. Cycle(Idle) /\ IInv /\ Blame /\ ~Start(Idle, eng)
        BY HarmlessWrites DEF Device, DemoIInv, DeviceOK, Harmless
      <4>2. QED
        BY <2>2, <4>1, WorkStep
    <3>3. QED
      BY <1>1, <2>2, <3>1, <3>2 DEF Told, Over, Ending
  <2>3. QED
    BY <2>1, <2>2
<1>4. (CEnds <=> ~Over /\ Over') /\ (Over => Over') /\ (Told => Told')
  BY <1>1, <1>2, <1>3 DEF CEnds
<1>5. m.ram = mem.ram
  BY Loads
<1>6. CASE Writing(m)
  BY <1>2, <1>3, <1>4, <1>6, WritingLedger DEF Writing
<1>7. ASSUME mem' = m
      PROVE  /\ Golden("cpu")' /\ (Amiss' <=> Amiss)
             /\ Over => (Paid' <=> Paid)
             /\ (faults' = 0 => faults = 0) => Leftover'
  <2>1. mem'.ram = mem.ram
    BY <1>5, <1>7
  <2>2. Golden("cpu")' /\ (Amiss' <=> Amiss)
    BY <2>1, SameView DEF Ledger, Amiss
  <2>3. Paid' <=> Paid
    BY <2>1, SameOwed
  <2>4. QED
    BY <1>4, <2>1, <2>2, <2>3, LeftoverGrows DEF Ledger
<1>8. CASE Nothing(m)
  <2>1. Accounted'
    BY <1>1, <1>2, <1>3, <1>4, <1>7, <1>8 DEF Nothing, Ledger, Accounted, Counts, Sane, Seen
  <2>2. QED
    BY <1>7, <1>8, <2>1 DEF Nothing, Ledger
<1>9. CASE Failing(m)
  <2>1. Accounted'
    BY <1>1, <1>3, <1>9 DEF Failing, Ledger, Accounted, Counts, Sane, Seen
  <2>2. QED
    BY <1>1, <1>7, <1>9, <2>1 DEF Failing, Ledger
<1>10. CASE Silent(m)
  <2>1. ~Told /\ ~Told' /\ ~Over /\ Over'
    BY <1>2, <1>3, <1>4, <1>10 DEF Silent
  <2>2. faults = 0 => ~Paid'
    <3>1. Paid' <=> Paid
      BY <1>5, <1>10, SameOwed DEF Silent
    <3>2. QED
      BY <2>1, <3>1, StaleOwed
  <2>3. Accounted'
    BY <1>1, <1>7, <1>10, <2>1, <2>2 DEF Silent, Ledger, Accounted, Counts, Sane, Seen
  <2>4. QED
    BY <1>1, <1>7, <1>10, <2>3 DEF Silent, Ledger
<1>11. QED
  BY <1>1, <1>6, <1>8, <1>9, <1>10

-----------------------------------------------------------------------------
(* The steps of accel_run(). *)

LEMMA RunKeeps ==
  ASSUME CpuOK, AccelRun
  PROVE  /\ cpu'.d = cpu.d /\ cpu'.bias = cpu.bias /\ (cpu'.st <=> cpu.st) /\ (cpu'.probe <=> cpu.probe)
         /\ cpu'.busySeen <=> cpu.busySeen
         /\ cpu.at # "idle"
         /\ ~ReadCounters => cpu'.macs = cpu.macs
<1>1. cpu = [at |-> cpu.at, d |-> cpu.d, bias |-> cpu.bias, st |-> cpu.st, probe |-> cpu.probe,
             next |-> cpu.next, failed |-> cpu.failed, busySeen |-> cpu.busySeen, macs |-> cpu.macs]
  BY DEF CpuOK
<1>2. CASE Clear
  BY <1>1, <1>2 DEF Clear
<1>3. CASE LoadBias
  BY <1>1, <1>3 DEF LoadBias
<1>4. CASE Program
  BY <1>1, <1>4 DEF Program
<1>5. CASE StartJob
  BY <1>1, <1>5 DEF StartJob
<1>6. CASE Poll
  BY <1>1, <1>6 DEF Poll
<1>7. CASE ReadCounters
  BY <1>1, <1>7 DEF ReadCounters
<1>8. CASE ClearAgain
  BY <1>1, <1>8 DEF ClearAgain
<1>9. QED
  BY <1>2, <1>3, <1>4, <1>5, <1>6, <1>7, <1>8 DEF AccelRun

(* Task and Counting speak of the arguments of the call alone. *)
LEMMA TaskKept ==
  ASSUME Task, main' = main, cpu.at # "idle" \/ cpu' = cpu,
         cpu'.d = cpu.d, cpu'.bias = cpu.bias, cpu'.st <=> cpu.st, cpu'.probe <=> cpu.probe
  PROVE  Task'
<1>1. CASE cpu.at # "idle"
  <2>1. \A s : TestCall(s)' <=> TestCall(s)
    BY DEF TestCall
  <2>2. LayerGemm(main.i)' = LayerGemm(main.i) /\ LayerFused(main.i)' = LayerFused(main.i)
    BY DEF LayerGemm, LayerFused
  <2>3. QED
    BY <1>1, <2>1, <2>2 DEF Task
<1>2. CASE cpu' = cpu
  BY <1>2 DEF Task, TestCall, LayerGemm, LayerFused
<1>3. QED
  BY <1>1, <1>2

(* Outside the probe, the descriptor is one START accepts. *)
LEMMA TaskSound ==
  ASSUME DemoIInv, KnownJobs, main.at # "otherCaller", Task, cpu.at # "idle", ~cpu.probe
  PROVE  Sound(cpu.d)
<1>1. cpu.d["TILE_M"] = ArrayN
  BY DEF Task, TestCall, LayerGemm, LayerFused, accel_gemm, accel_layer, Descriptor
<1>2. cpu.d # bad
  BY <1>1, DemoAssumption DEF bad, Descriptor
<1>3. QED
  BY <1>2 DEF KnownJobs

(* Entry by entry, the bias registers take the vector of the caller. *)
LEMMA BiasStep ==
  ASSUME DemoIInv, KnownJobs, main.at # "otherCaller", Task, BiasKnown, AccelRun
  PROVE  BiasKnown'
<1>1. /\ cpu'.d = cpu.d /\ cpu'.bias = cpu.bias
      /\ cpu.next \in Nat /\ cpu.d["N"] \in Nat /\ (cpu.at = "clear" => cpu.next = 0)
  BY RunKeeps DEF DemoIInv, CpuOK, Loadable, Fields
<1>2. cpu.at = "bias" => cpu.d["N"] <= 64
  <2>1. cpu.at = "bias" => cpu.d = bad \/ Sound(cpu.d)
    BY DEF KnownJobs
  <2>2. bad["N"] = 4
    BY DEF bad, Descriptor
  <2>3. QED
    BY <2>1, <2>2 DEF Sound, Dim
<1>3. CASE Clear
  BY <1>1, <1>3 DEF Clear, Access, BiasKnown
<1>4. CASE LoadBias
  <2>1. CASE cpu.next < BiasWrites(cpu.d["N"])
    <3>1. ~DmaBusy(eng)
      BY <1>4 DEF LoadBias, DemoIInv, DeviceOK, Rested
    <3>2. /\ biasVec' = [biasVec EXCEPT ![cpu.next] = cpu.bias]
          /\ cpu'.next = cpu.next + 1 /\ cpu'.at = "bias" /\ cpu.at = "bias"
      BY <1>4, <2>1, <3>1 DEF LoadBias, DemoIInv, CpuOK
    <3>3. cpu.next < cpu.d["N"] /\ cpu.next < 64
      BY <1>1, <1>2, <2>1, <3>2 DEF BiasWrites, DMA_BIAS_MAX
    <3>4. cpu.next \in DOMAIN biasVec /\ DOMAIN biasVec' = DOMAIN biasVec
      BY <1>1, <3>2, <3>3 DEF BiasKnown, DMA_BIAS_MAX
    <3>5. QED
      BY <1>1, <3>2, <3>3, <3>4 DEF BiasKnown, DMA_BIAS_MAX
  <2>2. CASE ~(cpu.next < BiasWrites(cpu.d["N"]))
    <3>1. biasVec' = biasVec /\ cpu'.at = "program" /\ cpu.at = "bias"
      BY <1>4, <2>2 DEF LoadBias, Access, DemoIInv, CpuOK
    <3>2. cpu.d["N"] <= cpu.next
      BY <1>1, <1>2, <2>2, <3>1 DEF BiasWrites, DMA_BIAS_MAX
    <3>3. QED
      BY <1>1, <3>1, <3>2 DEF BiasKnown
  <2>3. QED
    BY <2>1, <2>2
<1>5. CASE Program \/ StartJob \/ Poll \/ ReadCounters \/ ClearAgain
  <2>1. biasVec' = biasVec
    BY <1>5 DEF Program, StartJob, Poll, ReadCounters, ClearAgain, Access
  <2>2. cpu'.at # "bias" /\ (cpu'.at \in {"program", "start", "poll"} => cpu.at \in {"program", "start", "poll"})
    BY <1>5 DEF Program, StartJob, Poll, ReadCounters, ClearAgain, DemoIInv, CpuOK
  <2>3. QED
    BY <1>1, <2>1, <2>2 DEF BiasKnown
<1>6. QED
  BY <1>3, <1>4, <1>5 DEF AccelRun

(* The refused job, seen by a step that clears nothing. *)
LEMMA ErrorStays ==
  ASSUME DemoIInv, NEW w, Cycle(w), ~Start(w, eng)
  PROVE  /\ job'.verdict = job.verdict
         /\ job.errors = 1 => job'.errors = 1
         /\ job.verdict = "rejected" => job'.errors = 1
         /\ job'.errorAcked <=> job.errorAcked \/ (job.errors > 0 /\ ClearsError(w))
<1>1. IInv /\ TypeOK
  BY DEF DemoIInv, DeviceOK, IInv
<1>2. /\ job'.verdict = job.verdict /\ job'.errors = Count(job.errors, ErrorEvent(w, eng))
      /\ job'.errorAcked <=> job.errorAcked \/ (job.errors > 0 /\ ClearsError(w))
  BY <1>1, JobStep
<1>3. job.errors \in 0 .. 1
  BY <1>1 DEF TypeOK
<1>4. job.errors = 1 => job'.errors = 1
  BY <1>1, <1>2, ErrorEventMeans DEF Count
<1>5. ASSUME job.verdict = "rejected", job.errors = 0
      PROVE  job'.errors = 1
  <2>1. shell.reject
    BY <1>1, <1>5 DEF IInv, ErrorCounted
  <2>2. ErrorEvent(w, eng)
    BY <2>1 DEF ErrorEvent
  <2>3. QED
    BY <1>2, <1>5, <2>2 DEF Count
<1>6. QED
  BY <1>2, <1>3, <1>4, <1>5

(* A job begins without a failure. *)
LEMMA BeginsClean ==
  ASSUME NEW w, Cycle(w), Start(w, eng)
  PROVE  ~job'.failed
<1>1. job'.failed = FALSE
  BY StartStep
<1>2. QED
  BY <1>1

(* START: a legal job begins, with nothing told of it yet. *)
LEMMA StartOutcome ==
  ASSUME DemoIInv, KnownJobs, main.at # "otherCaller", Task, StartJob
  PROVE  /\ mem' = mem \/ faults \notin Nat
         /\ cpu.probe => cpu'.at = "probe" /\ job'.verdict = "rejected" /\ ~job'.errorAcked
         /\ ~cpu.probe => cpu'.at = "poll" /\ eng'["C"].busy /\ ~job'.failed
<1> DEFINE w == accel_dma_start(FALSE)
<1>1. cpu.at = "start" /\ Device(w, mem) /\ Cycle(w)
  BY DEF StartJob, Access, Device
<1>2. desc.cfg = cpu.d /\ ~DmaBusy(eng) /\ IInv /\ TypeOK
  BY <1>1 DEF DemoIInv, DeviceOK, Rested, Programmed, IInv
<1>3. Start(w, eng)
  BY <1>2, StartWrites
<1>4. mem' = mem \/ faults \notin Nat
  BY <1>1, QuietStep
<1>5. CASE cpu.probe
  <2>1. cpu.d = bad
    BY <1>5 DEF DemoIInv, Probing
  <2>2. ~Legal
    BY <1>2, <2>1, BadRefused
  <2>3. job'.verdict = "rejected" /\ ~job'.errorAcked
    BY <1>1, <1>2, <1>3, <2>2, JobBegins
  <2>4. cpu'.at = "probe"
    BY <1>5 DEF StartJob, DemoIInv, CpuOK
  <2>5. QED
    BY <1>4, <1>5, <2>3, <2>4
<1>6. CASE ~cpu.probe
  <2>1. Sound(cpu.d)
    BY <1>1, <1>6, TaskSound
  <2>2. Legal
    BY <1>2, <2>1, SoundLegal, SoundNotBad
  <2>3. Accept(w, eng) /\ "C" \in Engines
    BY <1>3, <2>2 DEF Accept, Engines
  <2>4. eng'["C"].busy
    BY <1>1, <1>2, <2>3, EnginesStep
  <2>5. ~job'.failed
    BY <1>1, <1>3, BeginsClean
  <2>6. cpu'.at = "poll"
    BY <1>6 DEF StartJob, DemoIInv, CpuOK
  <2>7. QED
    BY <1>4, <1>6, <2>4, <2>5, <2>6
<1>7. QED
  BY <1>5, <1>6

(* The poll ends when nothing is at work, and tells whether the job failed. *)
LEMMA PollOutcome ==
  ASSUME DemoIInv, KnownJobs, main.at # "otherCaller", Task, Poll
  PROVE  \/ /\ cpu' = cpu /\ Device(Idle, mem)
         \/ /\ cpu'.at = (IF cpu.st THEN "counters" ELSE "clearAgain") /\ ~DmaBusy(eng)
            /\ cpu'.failed <=> job.failed
            /\ Device(Idle, Flushed(mem))
<1> DEFINE s == accel_dma_status
<1>1. cpu.at = "poll" /\ ~cpu.probe
  BY DEF Poll, DemoIInv, Probing
<1>2. /\ s.busy <=> DmaBusy(eng)
      /\ s.done = desc.done /\ s.error = desc.error
  BY DEF accel_dma_status, Status
<1>3. CASE KeepPolling(s)
  BY <1>3 DEF Poll
<1>4. CASE ~KeepPolling(s)
  <2>1. ~DmaBusy(eng) /\ (desc.done \/ desc.error)
    BY <1>2, <1>4 DEF KeepPolling
  <2>2. desc.error <=> job.verdict = "rejected" \/ job.failed
    BY <1>1, <2>1, PollReads DEF DemoIInv
  <2>3. job.cfg = cpu.d /\ job.verdict # "none"
    BY <1>1 DEF DemoIInv, DeviceOK, Own
  <2>4. job.verdict # "rejected"
    BY <1>1, <2>3, TaskSound, SoundNotBad DEF KnownJobs
  <2>5. /\ Device(Idle, Flushed(mem))
        /\ cpu' = [cpu EXCEPT !.at = IF cpu.st THEN "counters" ELSE "clearAgain", !.failed = s.error]
    BY <1>4 DEF Poll
  <2>6. cpu'.at = (IF cpu.st THEN "counters" ELSE "clearAgain") /\ cpu'.failed = s.error
    BY <2>5 DEF DemoIInv, CpuOK
  <2>7. QED
    BY <1>2, <2>1, <2>2, <2>4, <2>5, <2>6
<1>5. QED
  BY <1>3, <1>4

LEMMA DriverLedger ==
  ASSUME DemoIInv, KnownJobs, main.at # "otherCaller", Task, BiasKnown, Ledger, Driver
  PROVE  Ledger'
<1>1. /\ AccelRun /\ main' = main /\ CpuOK /\ Tidy(mem) /\ faults \in Nat
      /\ cpu'.d = cpu.d /\ cpu'.bias = cpu.bias
  BY RunKeeps DEF Driver, DemoIInv, KnownJobs, Ledger, Accounted, Counts
<1>2. CASE Poll
  <2>1. cpu.at = "poll"
    BY <1>2 DEF Poll
  <2>2. PICK m \in {mem, Flushed(mem)} :
           /\ Device(Idle, m)
           /\ \/ cpu'.at = "poll"
              \/ cpu'.at \in Ending /\ ~DmaBusy(eng) /\ (cpu'.failed <=> job.failed)
    BY <1>2, <2>1, PollOutcome DEF Ending
  <2>3. QED
    BY <1>1, <2>1, <2>2, PollLedger
<1>3. CASE ~Poll
  <2>1. cpu.at # "poll" /\ \E w : Device(w, mem)
    BY <1>1, <1>3 DEF AccelRun, Clear, LoadBias, Program, StartJob, ReadCounters, ClearAgain, Access
  <2>2. mem' = mem /\ faults' = faults
    BY <1>1, <2>1, QuietStep
  <2>3. (Over' <=> Over) /\ (Told' <=> Told)
    <3>1. CASE Clear \/ LoadBias \/ Program
      <4>1. /\ cpu.at \notin Ending \cup {"poll"}
            /\ cpu'.at \notin Ending \cup {"poll"}
        BY <1>1, <3>1 DEF Clear, LoadBias, Program, Ending, CpuOK
      <4>2. QED
        BY <4>1 DEF Over, Told
    <3>2. CASE StartJob
      <4>1. cpu.at = "start" /\ (cpu'.at = "probe" \/ (cpu'.at = "poll" /\ eng'["C"].busy /\ ~job'.failed))
        BY <3>2, StartOutcome DEF StartJob
      <4>2. QED
        BY <4>1 DEF Over, Told, Ending
    <3>3. CASE ReadCounters \/ ClearAgain
      <4>1. cpu.at \in Ending /\ cpu'.at \in Ending /\ cpu'.failed = cpu.failed
        BY <1>1, <3>3 DEF ReadCounters, ClearAgain, Ending, CpuOK
      <4>2. QED
        BY <4>1 DEF Over, Told, Ending
    <3>4. QED
      BY <1>1, <1>3, <3>1, <3>2, <3>3 DEF AccelRun
  <2>4. QED
    BY <1>1, <2>2, <2>3, LedgerKept
<1>4. QED
  BY <1>2, <1>3

LEMMA DriverCalling ==
  ASSUME DemoIInv, KnownJobs, main.at # "otherCaller", Calling, Ledger, Driver
  PROVE  Calling'
<1>1. /\ AccelRun /\ main' = main /\ DeviceOK /\ CpuOK /\ Tidy(mem) /\ faults \in Nat /\ Task /\ BiasKnown
      /\ cpu'.d = cpu.d /\ cpu'.bias = cpu.bias /\ (cpu'.st <=> cpu.st) /\ (cpu'.probe <=> cpu.probe)
      /\ (cpu'.busySeen <=> cpu.busySeen) /\ cpu.at # "idle"
      /\ ~ReadCounters => cpu'.macs = cpu.macs
  BY RunKeeps DEF Driver, DemoIInv, KnownJobs, Ledger, Accounted, Counts, Calling
<1>2. Task'
  BY <1>1, TaskKept
<1>3. BiasKnown'
  BY <1>1, BiasStep
<1>4. Fresh'
  <2>1. CASE cpu.at # "poll"
    <3>1. \E w : Device(w, mem)
      BY <1>1, <2>1 DEF AccelRun, Clear, LoadBias, Program, StartJob, Poll, ReadCounters, ClearAgain, Access
    <3>2. mem' = mem
      BY <1>1, <2>1, <3>1, QuietStep
    <3>3. QED
      BY <2>1, <3>2 DEF Calling, Fresh, Coherent, InRam
  <2>2. CASE cpu.at = "poll" /\ cpu'.at # "poll"
    <3>1. Poll
      BY <1>1, <2>2 DEF AccelRun, Clear, LoadBias, Program, StartJob, ReadCounters, ClearAgain
    <3>2. ~DmaBusy(eng) /\ Device(Idle, Flushed(mem))
      BY <1>1, <2>2, <3>1, PollOutcome
    <3>3. ~CEnds
      BY <3>2 DEF CEnds, DmaBusy, Engines
    <3>4. mem' = Flushed(mem)
      BY <3>2, <3>3 DEF Device
    <3>5. Coherent(mem')
      BY <1>1, <3>4, Loads
    <3>6. QED
      BY <3>5 DEF Fresh, Coherent, InRam
  <2>3. QED
    BY <2>1, <2>2 DEF Fresh
<1>5. ProbeSeen'
  <2>1. ~cpu'.busySeen
    BY <1>1 DEF Calling, ProbeSeen
  <2>2. cpu'.at = "start" => cpu'.next = 0
    BY <1>1 DEF AccelRun, Clear, LoadBias, Program, StartJob, Poll, ReadCounters, ClearAgain, CpuOK
  <2>3. CASE StartJob
    <3>1. cpu'.next = cpu.next /\ cpu.at = "start" /\ cpu'.at \in {"probe", "poll"}
      BY <1>1, <2>3 DEF StartJob, CpuOK
    <3>2. cpu'.next = 0
      BY <3>1 DEF Calling, ProbeSeen
    <3>3. cpu'.at = "probe" => job'.verdict = "rejected" /\ ~job'.errorAcked
      BY <1>1, <2>3, StartOutcome
    <3>4. QED
      BY <2>1, <3>1, <3>2, <3>3 DEF ProbeSeen, ProbePoints
  <2>4. CASE ~StartJob
    <3>1. cpu'.at \notin ProbePoints
      <4>1. Poll => cpu'.at \notin ProbePoints
        BY <1>1, PollOutcome DEF Poll, ProbePoints
      <4>2. Clear \/ LoadBias \/ Program => cpu'.at \notin ProbePoints
        BY <1>1 DEF Clear, LoadBias, Program, CpuOK, ProbePoints
      <4>3. ReadCounters \/ ClearAgain => cpu'.at \notin ProbePoints
        BY <1>1 DEF ReadCounters, ClearAgain, CpuOK, ProbePoints
      <4>4. QED
        BY <1>1, <2>4, <4>1, <4>2, <4>3 DEF AccelRun
    <3>2. QED
      BY <2>1, <2>2, <3>1 DEF ProbeSeen, ProbePoints
  <2>5. QED
    BY <2>3, <2>4
<1>6. Counting'
  <2>1. main'.macs = [mode \in {"gemm", "fused"} |-> MacsCounted(mode)']
    <3>1. \A mode : MacsCounted(mode)' = MacsCounted(mode)
      BY <1>1, Zenon DEF MacsCounted
    <3>2. main.macs = [mode \in {"gemm", "fused"} |-> MacsCounted(mode)]
      BY DEF Calling, Counting
    <3>3. QED
      BY <1>1, <3>1, <3>2, Zenon
  <2>2. ASSUME cpu'.at \in {"clearAgain", "return"}, cpu'.st
        PROVE  cpu'.macs = accel_dma_performance(cpu'.d)
    <3>1. CASE ReadCounters
      <4>1. cpu'.macs = accel_dma_performance(job.cfg) /\ cpu.at = "counters"
        BY <1>1, <3>1 DEF ReadCounters, CpuOK
      <4>2. job.cfg = cpu.d
        BY <1>1, <4>1 DEF DeviceOK, Own
      <4>3. QED
        BY <1>1, <4>1, <4>2
    <3>2. CASE ~ReadCounters
      <4>1. cpu.at = "clearAgain"
        BY <1>1, <2>2, <3>2, PollOutcome
           DEF AccelRun, Clear, LoadBias, Program, StartJob, Poll, ClearAgain, CpuOK
      <4>2. QED
        BY <1>1, <2>2, <3>2, <4>1 DEF Calling, Counting
    <3>3. QED
      BY <3>1, <3>2
  <2>3. QED
    BY <2>1, <2>2 DEF Counting
<1>7. VerdictKnown'
  <2>1. main.at # "halt"
    <3>1. cpu.probe => main.at = "probe"
      BY DEF DemoIInv, Probing
    <3>2. QED
      BY <1>1, <3>1 DEF Task
  <2>2. QED
    BY <1>1, <2>1 DEF VerdictKnown
<1>8. QED
  BY <1>2, <1>3, <1>4, <1>5, <1>6, <1>7 DEF Calling

-----------------------------------------------------------------------------
(* The CPU is busy with something else. *)
LEMMA BetweenNetwork ==
  ASSUME DemoIInv, KnownJobs, main.at # "otherCaller", Calling, Ledger, Between
  PROVE  Calling' /\ Ledger'
<1>1. /\ Device(Idle, mem) /\ cpu' = cpu /\ main' = main /\ biasVec' = biasVec
      /\ Tidy(mem) /\ faults \in Nat /\ Task /\ BiasKnown /\ DeviceOK
  BY DEF Between, Compute, Access, KnownJobs, Ledger, Accounted, Counts, Calling, DemoIInv
<1>2. Cycle(Idle) /\ ~Start(Idle, eng) /\ ~ClearsError(Idle)
  BY <1>1, HarmlessWrites, PollWrites DEF Device, Harmless
<1>3. cpu.at # "poll" => mem' = mem /\ faults' = faults
  BY <1>1, QuietStep
<1>4. Ledger'
  <2>1. CASE cpu.at = "poll"
    BY <1>1, <2>1, PollLedger
  <2>2. CASE cpu.at # "poll"
    <3>1. (Over' <=> Over) /\ (Told' <=> Told)
      BY <1>1, <2>2 DEF Over, Told
    <3>2. QED
      BY <1>1, <1>3, <2>2, <3>1, LedgerKept
  <2>3. QED
    BY <2>1, <2>2
<1>5. Task' /\ BiasKnown'
  BY <1>1, TaskKept DEF BiasKnown
<1>6. Fresh'
  BY <1>1, <1>3 DEF Calling, Fresh, Coherent, InRam
<1>7. ProbeSeen'
  BY <1>1, <1>2, ErrorStays DEF Calling, ProbeSeen
<1>8. Counting'
  <2>1. \A mode : MacsCounted(mode)' = MacsCounted(mode)
    BY <1>1, Zenon DEF MacsCounted
  <2>2. QED
    BY <1>1, <2>1, Zenon DEF Calling, Counting
<1>9. VerdictKnown'
  <2>1. main.at = "halt" => cpu.at # "poll"
    <3>1. cpu.probe => main.at = "probe"
      BY DEF DemoIInv, Probing
    <3>2. QED
      BY <1>1, <3>1 DEF Task
  <2>2. QED
    BY <1>1, <1>3, <2>1 DEF Calling, VerdictKnown
<1>10. QED
  BY <1>4, <1>5, <1>6, <1>7, <1>8, <1>9 DEF Calling

-----------------------------------------------------------------------------
(* main() makes a call, or takes up what a call has left. *)

LEMMA CallMade ==
  ASSUME DemoIInv, Ledger, NEW d, NEW bias, NEW st \in BOOLEAN, NEW m, Tidy(m), Coherent(m),
         Call(d, bias, st, m)
  PROVE  /\ mem' = m /\ faults' = faults /\ cpu.at = "idle" /\ cpu'.at = "clear"
         /\ cpu'.d = d /\ cpu'.bias = bias /\ cpu'.st = st /\ ~cpu'.probe
         /\ ~Over /\ ~Told /\ ~Over' /\ ~Told'
         /\ BiasKnown => BiasKnown'
         /\ Fresh' /\ ProbeSeen'
<1>1. cpu.at = "idle" /\ Device(Idle, m) /\ biasVec' = biasVec /\ faults \in Nat
  BY DEF Call, Ledger, Accounted, Counts
<1>2. cpu' = [at |-> "clear", d |-> d, bias |-> bias, st |-> st, probe |-> FALSE,
              next |-> 0, failed |-> FALSE, busySeen |-> FALSE, macs |-> 0]
  BY DEF Call, Idler
<1>3. mem' = m /\ faults' = faults
  BY <1>1, QuietStep
<1>4. ~Over /\ ~Told /\ ~Over' /\ ~Told'
  BY <1>1, <1>2 DEF Over, Told, Ending
<1>5. BiasKnown => BiasKnown'
  BY <1>1, <1>2 DEF BiasKnown
<1>6. Fresh' /\ ProbeSeen'
  BY <1>2, <1>3 DEF Fresh, Coherent, InRam, ProbeSeen, ProbePoints
<1>7. QED
  BY <1>1, <1>2, <1>3, <1>4, <1>5, <1>6

LEMMA BackMade ==
  ASSUME DemoIInv, Calling, Ledger, NEW m, Tidy(m), Coherent(m), Back, Device(Idle, m)
  PROVE  /\ mem' = m /\ faults' = faults /\ cpu.at = "return" /\ cpu'.at = "idle"
         /\ Over /\ (Told <=> cpu.failed) /\ ~Over' /\ ~Told'
         /\ Task' /\ BiasKnown' /\ Fresh' /\ ProbeSeen'
<1>1. cpu.at = "return" /\ biasVec' = biasVec /\ cpu' = Idler /\ faults \in Nat /\ BiasKnown
  BY DEF Back, Ledger, Accounted, Counts, Calling
<1>2. cpu' = [at |-> "idle", d |-> Idler.d, bias |-> "none", st |-> FALSE, probe |-> FALSE,
              next |-> 0, failed |-> FALSE, busySeen |-> FALSE, macs |-> 0]
  BY <1>1, IdlerIs
<1>3. mem' = m /\ faults' = faults
  BY <1>1, QuietStep
<1>4. Over /\ (Told <=> cpu.failed) /\ ~Over' /\ ~Told'
  BY <1>1, <1>2 DEF Over, Told, Ending
<1>5. Task' /\ BiasKnown'
  BY <1>1, <1>2 DEF Task, BiasKnown
<1>6. Fresh' /\ ProbeSeen'
  BY <1>2, <1>3 DEF Fresh, Coherent, InRam, ProbeSeen, ProbePoints
<1>7. QED
  BY <1>1, <1>2, <1>3, <1>4, <1>5, <1>6

-----------------------------------------------------------------------------
(* The tests: nothing of the network is done. *)

LEMMA TestCount ==
  ASSUME Ledger, main.at \in SelfTests
  PROVE  faults = 0 <=> main.failures = 0 /\ ~Told /\ (Over => Paid)
<1>1. \A mode \in Modes : \A i, layer : ~Done(mode, i, layer)
  BY DEF SelfTests, Done, After, Modes
<1>2. ~Amiss
  BY <1>1 DEF Amiss, Golden, Modes
<1>3. QED
  BY <1>2 DEF Ledger, Accounted, Counts, Sane, Seen

(* Where a test goes on to: another one, or the first layer. *)
Tested ==
  main'.at \in SelfTests \/ (main'.at = "gemm" /\ main'.i = 0 /\ main'.layer = 1)

LEMMA TestLedger ==
  ASSUME Ledger, main.at \in SelfTests, Tested,
         faults' = faults, ~Over', ~Told', Patterned', LastShape',
         main'.failures \in Nat, faults = 0 <=> main'.failures = 0,
         DOMAIN mem'.ram \subseteq DOMAIN mem.ram \cup {At["ta"], At["tb"], At["tc_hw"], At["tc_sw"]}
  PROVE  Ledger'
<1>1. \A mode \in Modes, i \in 0 .. 5, layer \in Layers :
        ~Done(mode, i, layer) /\ ~Done(mode, i, layer)'
  BY DEF Tested, SelfTests, Done, After, Modes, Layers
<1>2. "cpu" \in Modes /\ "gemm" \in Modes /\ "fused" \in Modes
  BY DEF Modes
<1>3. Golden("cpu")' /\ ~Amiss'
  BY <1>1, <1>2 DEF Golden, Amiss
<1>4. \A layer \in Layers : Sums(layer) \notin DOMAIN mem'.ram
  BY ScratchApart DEF Ledger, Leftover, Unused, Sums
<1>5. \A i \in 0 .. 5, layer \in Layers : Output("fused", i, layer) \notin DOMAIN mem'.ram
  <2> SUFFICES ASSUME NEW i \in 0 .. 5, NEW layer \in Layers
               PROVE  Output("fused", i, layer) \notin DOMAIN mem'.ram
    OBVIOUS
  <2>1. ~Done("fused", i, layer) /\ ~Current("fused", i, layer)
    BY <1>1, <1>2 DEF Current, SelfTests
  <2>2. Output("fused", i, layer) \notin DOMAIN mem.ram
    BY <2>1 DEF Ledger, Leftover, Empty
  <2>3. Output("fused", i, layer) \notin Scratch
    BY <1>2, OutputsApart
  <2>4. QED
    BY <2>2, <2>3 DEF Scratch
<1>6. Unused' /\ Empty' /\ OldSums'
  BY <1>4, <1>5 DEF Unused, Empty, OldSums
<1>7. Accounted'
  BY <1>3 DEF Ledger, Accounted, Counts, Sane, Seen
<1>8. QED
  BY <1>3, <1>6, <1>7 DEF Ledger, Leftover

LEMMA TestCalling ==
  ASSUME Calling, main.at \in SelfTests, Tested, main'.macs = main.macs,
         cpu'.at \notin {"clearAgain", "return"},
         Task', BiasKnown', Fresh', ProbeSeen'
  PROVE  Calling'
<1>1. \A mode \in {"gemm", "fused"} : MacsCounted(mode) = 0 /\ MacsCounted(mode)' = 0
  BY DEF Tested, MacsCounted, SelfTests, After, BATCH, N_IN, N_HID, N_OUT
<1>2. main'.macs = [mode \in {"gemm", "fused"} |-> MacsCounted(mode)']
  BY <1>1 DEF Calling, Counting
<1>3. Counting'
  BY <1>2, Zenon DEF Counting
<1>4. VerdictKnown'
  BY DEF Tested, SelfTests, VerdictKnown
<1>5. QED
  BY <1>3, <1>4 DEF Calling

LEMMA SelfTestNetwork ==
  ASSUME DemoIInv, KnownJobs, Calling, Ledger, SelfTest
  PROVE  Calling' /\ Ledger'
<1> DEFINE s == shapes[main.i]
           f == Filled(mem, s[1] * s[3], s[3] * s[2])
           m == Stored(f, At["tc_hw"], <<"0xA5">>)
           d == accel_gemm(At["ta"], At["tb"], At["tc_hw"], s[1], s[2], s[3])
<1>1. main.at = "selftest" /\ Call(d, "none", TRUE, m)
      /\ \E x : main' = [main EXCEPT !.at = "selftestCheck", !.drawn = x]
  BY DEF SelfTest
<1>2. /\ main'.at = "selftestCheck" /\ main'.i = main.i
      /\ main'.failures = main.failures /\ main'.macs = main.macs
  BY <1>1 DEF DemoIInv, MainOK
<1>3. Tidy(mem) /\ Coherent(mem) /\ At["tc_hw"] \in Stores
  BY <1>1, StoresHave DEF KnownJobs, Calling, Fresh, Call
<1>4. Tidy(f) /\ Coherent(f) /\ DOMAIN f.ram = DOMAIN mem.ram \cup {At["ta"], At["tb"]}
  BY <1>3, FilledWrites
<1> HIDE DEF f
<1>5. /\ Tidy(m) /\ Coherent(m) /\ InRam(m, At["tc_hw"]) = <<"0xA5">>
      /\ DOMAIN m.ram = DOMAIN mem.ram \cup {At["ta"], At["tb"], At["tc_hw"]}
  BY <1>3, <1>4, StoredWrites DEF Writes1
<1> HIDE DEF m, d
<1>6. /\ mem' = m /\ faults' = faults /\ cpu.at = "idle" /\ cpu'.at = "clear"
      /\ cpu'.d = d /\ cpu'.bias = "none"
      /\ ~Over /\ ~Told /\ ~Over' /\ ~Told' /\ BiasKnown' /\ Fresh' /\ ProbeSeen'
  BY <1>1, <1>5, CallMade DEF Calling
<1>7. Task'
  BY <1>2, <1>6 DEF Task, TestCall, d
<1>8. Patterned' /\ LastShape'
  BY <1>2, <1>5, <1>6 DEF Patterned, InRam, LastShape, Recovering
<1>9. Tested /\ main.at \in SelfTests
  BY <1>1, <1>2 DEF Tested, SelfTests
<1>10. Ledger'
  BY <1>2, <1>5, <1>6, <1>8, <1>9, TestCount, TestLedger DEF Ledger, Accounted, Counts
<1>11. Calling'
  BY <1>2, <1>6, <1>7, <1>9, TestCalling
<1>12. QED
  BY <1>10, <1>11

(* What the comparison finds is what is amiss of the job. *)
LEMMA MismatchIs ==
  ASSUME Tidy(mem), Coherent(mem), NEW s, TestCall(s)
  PROVE  /\ Mismatch(s) <=> cpu.failed \/ ~Paid
         /\ LET m == Loaded(Checked(s), At["tc_hw"])
            IN  /\ Tidy(m) /\ Coherent(m) /\ DOMAIN m.ram = DOMAIN mem.ram \cup {At["tc_sw"]}
                /\ InRam(m, At["tc_hw"]) = InRam(mem, At["tc_hw"])
<1> DEFINE c == Checked(s)
           v == Gemm(InRam(mem, At["ta"]), InRam(mem, At["tb"]), s[1], s[2], s[3])
<1>1. At["tc_sw"] \in Stores /\ At["tc_sw"] # At["tc_hw"]
  BY StoresHave, ScratchApart
<1>2. Writes1(mem, c, At["tc_sw"], v)
  BY <1>1, CpuGemmWrites, Zenon DEF Checked
<1>3. cpu.d["C_BASE"] = At["tc_hw"] /\ Owed = v
  BY TestOwed
<1> HIDE DEF c, v
<1>4. Tidy(c) /\ Coherent(c) /\ InRam(c, At["tc_hw"]) = InRam(mem, At["tc_hw"]) /\ InRam(c, At["tc_sw"]) = v
      /\ DOMAIN c.ram = DOMAIN mem.ram \cup {At["tc_sw"]}
  BY <1>1, <1>2 DEF Writes1
<1>5. bytes_differ(c, At["tc_hw"], At["tc_sw"]) <=> ~Paid
  BY <1>3, <1>4, DiffersIs DEF Paid
<1>6. Mismatch(s) <=> cpu.failed \/ ~Paid
  BY <1>5 DEF Mismatch, c
<1>7. /\ Tidy(Loaded(c, At["tc_hw"])) /\ Coherent(Loaded(c, At["tc_hw"]))
      /\ Loaded(c, At["tc_hw"]).ram = c.ram
      /\ InRam(Loaded(c, At["tc_hw"]), At["tc_hw"]) = InRam(c, At["tc_hw"])
  BY <1>4, Loads, TidySteps
<1>8. QED
  BY <1>4, <1>6, <1>7 DEF c

(* A test is counted exactly if its job was told to have failed, or has not *)
(* left what it owed.                                                       *)
LEMMA CheckCounts ==
  ASSUME Ledger, main.at \in SelfTests, cpu.at = "return", NEW s,
         Mismatch(s) <=> cpu.failed \/ ~Paid, main'.failures = Fail(main.failures, Mismatch(s))
  PROVE  main'.failures \in Nat /\ (faults = 0 <=> main'.failures = 0)
<1>1. Over /\ (Told <=> cpu.failed) /\ main.failures \in Nat
  BY DEF Over, Told, Ending, Ledger, Accounted, Counts
<1>2. faults = 0 <=> main.failures = 0 /\ ~Mismatch(s)
  BY <1>1, TestCount
<1>3. QED
  BY <1>1, <1>2 DEF Fail

LEMMA SelfTestCheckNetwork ==
  ASSUME DemoIInv, KnownJobs, Calling, Ledger, SelfTestCheck
  PROVE  Calling' /\ Ledger'
<1> DEFINE s == shapes[main.i]
           m == Loaded(Checked(s), At["tc_hw"])
<1>1. /\ main.at = "selftestCheck" /\ Back /\ Device(Idle, m) /\ cpu.at = "return"
      /\ main' = [main EXCEPT !.failures = Fail(@, Mismatch(s)),
                              !.at = IF main.i < Len(shapes) THEN "selftest" ELSE "robustness",
                              !.i = IF main.i < Len(shapes) THEN main.i + 1 ELSE 0]
  BY DEF SelfTestCheck, Back
<1>2. /\ main'.at = (IF main.i < Len(shapes) THEN "selftest" ELSE "robustness")
      /\ main'.failures = Fail(main.failures, Mismatch(s)) /\ main'.macs = main.macs
  <2> DEFINE x == Fail(main.failures, Mismatch(s))
             y == IF main.i < Len(shapes) THEN "selftest" ELSE "robustness"
             z == IF main.i < Len(shapes) THEN main.i + 1 ELSE 0
  <2>1. main' = [main EXCEPT !.failures = x, !.at = y, !.i = z]
    BY <1>1
  <2> HIDE DEF x, y, z
  <2>2. main'.failures = x /\ main'.at = y /\ main'.macs = main.macs
    BY <2>1 DEF DemoIInv, MainOK
  <2>3. QED
    BY <2>2 DEF x, y
<1>3. Tidy(mem) /\ Coherent(mem) /\ main.i \in 1 .. 8
  BY <1>1, ShapesFit DEF KnownJobs, Calling, Fresh, DemoIInv, MainOK
<1>4. TestCall(s)
  BY <1>1 DEF DemoIInv, Probing, Calling, Task
<1> HIDE DEF s
<1>5. /\ Mismatch(s) <=> cpu.failed \/ ~Paid
      /\ Tidy(m) /\ Coherent(m) /\ DOMAIN m.ram = DOMAIN mem.ram \cup {At["tc_sw"]}
      /\ InRam(m, At["tc_hw"]) = InRam(mem, At["tc_hw"])
  BY <1>3, <1>4, MismatchIs
<1> HIDE DEF m
<1>6. /\ mem' = m /\ faults' = faults /\ cpu'.at = "idle"
      /\ Over /\ ~Over' /\ ~Told' /\ Task' /\ BiasKnown' /\ Fresh' /\ ProbeSeen'
  BY <1>1, <1>5, BackMade
<1>7. Tested /\ main.at \in SelfTests
  BY <1>1, <1>2 DEF Tested, SelfTests
<1>8. main'.failures \in Nat /\ (faults = 0 <=> main'.failures = 0)
  BY <1>1, <1>2, <1>5, <1>7, CheckCounts
<1>9. Patterned'
  BY <1>2 DEF Patterned
<1>10. LastShape'
  <2> SUFFICES ASSUME faults = 0, main'.at = "robustness"
               PROVE  InRam(mem', At["tc_hw"])[4] = <<33, 31, 47>>
    BY <1>2, <1>6 DEF LastShape, Recovering
  <2>1. main.i = 8
    BY <1>2, <1>3, ShapesFit
  <2>2. s = <<33, 31, 47>>
    BY <2>1 DEF s, shapes
  <2>3. Paid
    BY <1>6 DEF Ledger, Accounted, Sane
  <2>4. InRam(mem, At["tc_hw"]) = Gemm(InRam(mem, At["ta"]), InRam(mem, At["tb"]), s[1], s[2], s[3])
    BY <1>4, <2>3, TestOwed DEF Paid
  <2>5. InRam(mem, At["tc_hw"])[4] = <<s[1], s[2], s[3]>>
    BY <2>4, ShapeOf
  <2>6. InRam(mem', At["tc_hw"]) = InRam(mem, At["tc_hw"])
    BY <1>5, <1>6
  <2>7. QED
    BY <2>2, <2>5, <2>6
<1>11. Ledger'
  BY <1>5, <1>6, <1>7, <1>8, <1>9, <1>10, TestLedger
<1>12. Calling'
  BY <1>2, <1>6, <1>7, TestCalling
<1>13. QED
  BY <1>11, <1>12

(* The illegal descriptor leaves memory, and the count of failures, alone. *)
LEMMA ProbingNetwork ==
  ASSUME DemoIInv, KnownJobs, Calling, Ledger, NEW w, Device(w, mem), biasVec' = biasVec,
         main.at \in {"robustness", "probe"}, main'.at \in {"probe", "recover"},
         main'.failures = main.failures, main'.macs = main.macs,
         cpu.at \in {"idle"} \cup ProbePoints, cpu'.at \in {"idle", "clear"} \cup ProbePoints,
         Task', ProbeSeen'
  PROVE  Calling' /\ Ledger'
<1>1. cpu.at \notin Ending \cup {"poll"} /\ cpu'.at \notin Ending \cup {"poll"}
      /\ cpu'.at \notin {"bias", "program", "start"}
  BY DEF ProbePoints, Ending
<1>2. mem' = mem /\ faults' = faults
  BY <1>1, QuietStep DEF Ledger, Accounted, Counts
<1>3. ~Over /\ ~Told /\ ~Over' /\ ~Told'
  BY <1>1 DEF Over, Told
<1>4. Tested /\ main.at \in SelfTests
  BY DEF Tested, SelfTests
<1>5. BiasKnown' /\ Fresh'
  BY <1>1, <1>2 DEF Calling, BiasKnown, Fresh, Coherent, InRam
<1>6. Patterned' /\ LastShape'
  BY <1>2 DEF Patterned, Ledger, Leftover, LastShape, Recovering, InRam
<1>7. main'.failures \in Nat /\ (faults = 0 <=> main'.failures = 0)
  BY <1>3, <1>4, TestCount DEF Ledger, Accounted, Counts
<1>8. Ledger'
  BY <1>2, <1>3, <1>4, <1>6, <1>7, TestLedger
<1>9. Calling'
  BY <1>1, <1>4, <1>5, TestCalling DEF Ending
<1>10. QED
  BY <1>8, <1>9

(* What sixteen reads of STATUS see, and what is left of it after a clear. *)
LEMMA ProbeStatus ==
  ASSUME DemoIInv, ProbeSeen, cpu.at \in ProbePoints
  PROVE  /\ ~accel_dma_status.busy
         /\ cpu.at = "probe" /\ cpu.next > 0 => accel_dma_status.error
         /\ cpu.at = "probeCheck" => ~accel_dma_status.error /\ ~accel_dma_status.done
<1>1. ~DmaBusy(eng) /\ IInv /\ TypeOK
  BY DEF DemoIInv, DeviceOK, Rested, IInv, ProbePoints
<1>2. /\ accel_dma_status.busy <=> DmaBusy(eng)
      /\ accel_dma_status.done = desc.done /\ accel_dma_status.error = desc.error
  BY DEF accel_dma_status, Status
<1>3. desc.error <=> job.errors = 1 /\ ~job.errorAcked
  BY <1>1 DEF IInv, ErrorCounted
<1>4. ~desc.done
  BY <1>1 DEF IInv, DoneCounted, ProbeSeen
<1>5. QED
  BY <1>1, <1>2, <1>3, <1>4 DEF ProbeSeen

LEMMA ProbeNetwork ==
  ASSUME DemoIInv, KnownJobs, Calling, Ledger, Robustness \/ Probe \/ ProbeClear \/ ProbeCheck
  PROVE  Calling' /\ Ledger'
<1>1. /\ cpu.at \in ProbePoints => main.at = "probe" /\ cpu.probe
      /\ MainOK /\ CpuOK /\ ProbeSeen /\ TypeOK
  BY DEF DemoIInv, Probing, Calling, DeviceOK, IInv
<1>2. CASE Robustness
  <2>1. /\ main.at = "robustness" /\ cpu.at = "idle" /\ Device(Idle, mem) /\ biasVec' = biasVec
        /\ cpu' = [at |-> "clear", d |-> bad, bias |-> "none", st |-> FALSE, probe |-> TRUE,
                   next |-> 0, failed |-> FALSE, busySeen |-> FALSE, macs |-> 0]
        /\ main' = [main EXCEPT !.at = "probe"]
    BY <1>2 DEF Robustness, Access, Idler
  <2>2. main'.at = "probe" /\ main'.failures = main.failures /\ main'.macs = main.macs
    BY <1>1, <2>1 DEF MainOK
  <2>3. Task' /\ ProbeSeen'
    BY <2>1 DEF Task, ProbeSeen, ProbePoints
  <2>4. QED
    BY <2>1, <2>2, <2>3, ProbingNetwork
<1>3. CASE Probe
  <2>1. /\ cpu.at = "probe" /\ Device(Idle, mem) /\ biasVec' = biasVec /\ Cycle(Idle)
        /\ cpu.at \in ProbePoints
    BY <1>3 DEF Probe, Access, Device, ProbePoints
  <2> DEFINE seen == cpu.busySeen \/ accel_dma_status.busy
             next == IF cpu.next + 1 < Probes THEN "probe" ELSE "probeClear"
             amiss == cpu.next + 1 = Probes /\ (~accel_dma_status.error \/ seen)
  <2>2. /\ cpu' = [cpu EXCEPT !.next = @ + 1, !.busySeen = seen, !.at = next]
        /\ main' = [main EXCEPT !.failures = Fail(@, amiss)]
    BY <1>3 DEF Probe
  <2>3. ~seen
    BY <1>1, <2>1, ProbeStatus DEF ProbeSeen
  <2>4. ~amiss
    <3>1. cpu.next \in Nat
      BY <1>1 DEF CpuOK
    <3>2. cpu.next + 1 = Probes => cpu.next > 0
      BY <3>1 DEF Probes
    <3>3. QED
      BY <1>1, <2>1, <2>3, <3>2, ProbeStatus
  <2>5. next \in {"probe", "probeClear"}
    OBVIOUS
  <2> HIDE DEF seen, next, amiss
  <2>6. main'.at = main.at /\ main'.failures = main.failures /\ main'.macs = main.macs
    BY <1>1, <2>2, <2>4 DEF Fail, MainOK
  <2>7. /\ cpu'.at = next /\ cpu'.next = cpu.next + 1 /\ cpu'.next > 0 /\ cpu'.busySeen = seen
        /\ cpu'.probe = cpu.probe
    BY <1>1, <2>2 DEF CpuOK
  <2>8. Task'
    BY <1>1, <2>1, <2>7 DEF Task
  <2>9. ProbeSeen'
    <3>1. ~Start(Idle, eng) /\ ~ClearsError(Idle)
      BY HarmlessWrites, PollWrites DEF Harmless
    <3>2. job.verdict = "rejected" /\ ~job.errorAcked
      BY <1>1, <2>1 DEF ProbeSeen
    <3>3. job'.verdict = "rejected" /\ job'.errors = 1 /\ ~job'.errorAcked
      BY <2>1, <3>1, <3>2, ErrorStays
    <3>4. QED
      BY <2>3, <2>5, <2>7, <3>3 DEF ProbeSeen
  <2>10. QED
    BY <1>1, <2>1, <2>5, <2>6, <2>7, <2>8, <2>9, ProbingNetwork DEF ProbePoints
<1>4. CASE ProbeClear
  <2>1. /\ cpu.at = "probeClear" /\ Device(accel_dma_clear_events, mem) /\ biasVec' = biasVec
        /\ cpu.at \in ProbePoints /\ main' = main /\ cpu' = [cpu EXCEPT !.at = "probeCheck"]
        /\ Cycle(accel_dma_clear_events)
    BY <1>4 DEF ProbeClear, Access, Device, ProbePoints
  <2>2. cpu'.at = "probeCheck" /\ cpu'.busySeen = cpu.busySeen /\ cpu'.probe = cpu.probe
    BY <1>1, <2>1 DEF CpuOK
  <2>3. Task'
    BY <1>1, <2>1, <2>2 DEF Task
  <2>4. ProbeSeen'
    <3>1. ~Start(accel_dma_clear_events, eng)
      BY HarmlessWrites DEF Harmless
    <3>2. ClearsError(accel_dma_clear_events)
      BY SMT DEF ClearsError, StatusWrite, accel_dma_clear_events, accel_write, Bit
    <3>3. job.verdict = "rejected" /\ job.errors = 1
      BY <1>1, <2>1 DEF ProbeSeen
    <3>4. job'.verdict = "rejected" /\ job'.errors = 1 /\ job'.errorAcked
      BY <2>1, <3>1, <3>2, <3>3, ErrorStays
    <3>5. QED
      BY <1>1, <2>2, <3>4 DEF ProbeSeen
  <2>5. QED
    BY <1>1, <2>1, <2>2, <2>3, <2>4, ProbingNetwork DEF ProbePoints
<1>5. CASE ProbeCheck
  <2>1. /\ cpu.at = "probeCheck" /\ Device(Idle, mem) /\ biasVec' = biasVec
        /\ cpu.at \in ProbePoints /\ cpu' = Idler
        /\ main' = [main EXCEPT !.failures = Fail(@, accel_dma_status.error \/ accel_dma_status.done),
                                !.at = "recover"]
    BY <1>5 DEF ProbeCheck, Access, ProbePoints
  <2>2. ~accel_dma_status.error /\ ~accel_dma_status.done
    BY <1>1, <2>1, ProbeStatus
  <2>3. main'.at = "recover" /\ main'.failures = main.failures /\ main'.macs = main.macs
    BY <1>1, <2>1, <2>2 DEF Fail, MainOK
  <2>4. cpu'.at = "idle" /\ ~cpu'.busySeen
    BY <2>1, IdlerIs
  <2>5. Task' /\ ProbeSeen'
    BY <2>4 DEF Task, ProbeSeen, ProbePoints
  <2>6. QED
    BY <1>1, <2>1, <2>3, <2>4, <2>5, ProbingNetwork
<1>6. QED
  BY <1>2, <1>3, <1>4, <1>5

LEMMA RecoverNetwork ==
  ASSUME DemoIInv, KnownJobs, Calling, Ledger, Recover
  PROVE  Calling' /\ Ledger'
<1> DEFINE m == Filled(mem, 16, 16)
           d == accel_gemm(At["ta"], At["tb"], At["tc_hw"], 4, 4, 4)
<1>1. main.at = "recover" /\ Call(d, "none", FALSE, m)
      /\ \E x : main' = [main EXCEPT !.at = "recoverCheck", !.drawn = x]
  BY DEF Recover
<1>2. /\ main'.at = "recoverCheck" /\ main'.failures = main.failures /\ main'.macs = main.macs
  BY <1>1 DEF DemoIInv, MainOK
<1>3. Tidy(mem) /\ Coherent(mem) /\ At["tc_hw"] \notin {At["ta"], At["tb"]}
  BY <1>1, ScratchApart DEF KnownJobs, Calling, Fresh, Call
<1>4. /\ Tidy(m) /\ Coherent(m) /\ InRam(m, At["tc_hw"]) = InRam(mem, At["tc_hw"])
      /\ DOMAIN m.ram = DOMAIN mem.ram \cup {At["ta"], At["tb"]}
  BY <1>3, FilledWrites
<1> HIDE DEF m, d
<1>5. /\ mem' = m /\ faults' = faults /\ cpu.at = "idle" /\ cpu'.at = "clear"
      /\ cpu'.d = d /\ cpu'.bias = "none"
      /\ ~Over /\ ~Told /\ ~Over' /\ ~Told' /\ BiasKnown' /\ Fresh' /\ ProbeSeen'
  BY <1>1, <1>4, CallMade DEF Calling
<1>6. Task'
  BY <1>2, <1>5 DEF Task, TestCall, d
<1>7. Tested /\ main.at \in SelfTests
  BY <1>1, <1>2 DEF Tested, SelfTests
<1>8. InRam(mem', At["tc_hw"]) = InRam(mem, At["tc_hw"])
  BY <1>4, <1>5
<1>9. Patterned' /\ LastShape'
  BY <1>1, <1>2, <1>5, <1>8 DEF Patterned, Ledger, Leftover, LastShape, Recovering
<1>10. Ledger'
  BY <1>2, <1>4, <1>5, <1>7, <1>9, TestCount, TestLedger DEF Ledger, Accounted, Counts
<1>11. Calling'
  BY <1>2, <1>5, <1>6, <1>7, TestCalling
<1>12. QED
  BY <1>10, <1>11

LEMMA RecoverCheckNetwork ==
  ASSUME DemoIInv, KnownJobs, Calling, Ledger, RecoverCheck
  PROVE  Calling' /\ Ledger'
<1> DEFINE s == <<4, 4, 4>>
           m == Loaded(Checked(s), At["tc_hw"])
<1>1. /\ main.at = "recoverCheck" /\ Back /\ Device(Idle, m) /\ cpu.at = "return"
      /\ main' = [main EXCEPT !.failures = Fail(@, Mismatch(s)), !.at = "gemm"]
  BY DEF RecoverCheck, Back
<1>2. /\ main'.at = "gemm" /\ main'.i = main.i /\ main'.layer = main.layer
      /\ main'.failures = Fail(main.failures, Mismatch(s)) /\ main'.macs = main.macs
  BY <1>1 DEF DemoIInv, MainOK
<1>3. Tidy(mem) /\ Coherent(mem) /\ main.i = 0 /\ main.layer = 1
  BY <1>1 DEF KnownJobs, Calling, Fresh, DemoIInv, MainOK
<1>4. TestCall(s)
  BY <1>1 DEF DemoIInv, Probing, Calling, Task
<1> HIDE DEF s
<1>5. /\ Mismatch(s) <=> cpu.failed \/ ~Paid
      /\ Tidy(m) /\ Coherent(m) /\ DOMAIN m.ram = DOMAIN mem.ram \cup {At["tc_sw"]}
      /\ InRam(m, At["tc_hw"]) = InRam(mem, At["tc_hw"])
  BY <1>3, <1>4, MismatchIs
<1> HIDE DEF m
<1>6. /\ mem' = m /\ faults' = faults /\ cpu'.at = "idle"
      /\ Over /\ ~Over' /\ ~Told' /\ Task' /\ BiasKnown' /\ Fresh' /\ ProbeSeen'
  BY <1>1, <1>5, BackMade
<1>7. Tested /\ main.at \in SelfTests
  BY <1>1, <1>2, <1>3 DEF Tested, SelfTests
<1>8. main'.failures \in Nat /\ (faults = 0 <=> main'.failures = 0)
  BY <1>1, <1>2, <1>5, <1>7, CheckCounts
<1>9. Patterned' /\ LastShape'
  BY <1>2 DEF Patterned, LastShape, Recovering
<1>10. Ledger'
  BY <1>5, <1>6, <1>7, <1>8, <1>9, TestLedger
<1>11. Calling'
  BY <1>2, <1>6, <1>7, TestCalling
<1>12. QED
  BY <1>10, <1>11

-----------------------------------------------------------------------------
(* The network on the accelerator, layer by layer. *)

LEMMA LayerCallNetwork ==
  ASSUME DemoIInv, KnownJobs, Calling, Ledger, LayerCall
  PROVE  Calling' /\ Ledger'
<1>1. main' = main /\ main.at \in {"gemm", "fused"} /\ Tidy(mem) /\ main.layer \in Layers
  BY DEF LayerCall, KnownJobs, DemoIInv, MainOK, Layers
<1>2. PICK d, bias : /\ Call(d, bias, TRUE, mem)
                     /\ \/ main.at = "gemm" /\ d = LayerGemm(main.i) /\ bias = "none"
                        \/ main.at = "fused" /\ d = LayerFused(main.i) /\ bias = BiasOf(main.layer)
  BY DEF LayerCall, BiasOf
<1>3. Coherent(mem)
  BY <1>2 DEF Call, Calling, Fresh
<1>4. /\ mem' = mem /\ faults' = faults /\ cpu.at = "idle" /\ cpu'.at = "clear"
      /\ cpu'.d = d /\ cpu'.bias = bias /\ cpu'.st = TRUE
      /\ ~Over /\ ~Told /\ ~Over' /\ ~Told' /\ BiasKnown' /\ Fresh' /\ ProbeSeen'
  BY <1>1, <1>2, <1>3, CallMade DEF Calling
<1>5. Ledger'
  BY <1>1, <1>4, LedgerKept
<1>6. Task'
  <2>1. LayerGemm(main.i)' = LayerGemm(main.i) /\ LayerFused(main.i)' = LayerFused(main.i)
    BY <1>1 DEF LayerGemm, LayerFused
  <2>2. QED
    BY <1>1, <1>2, <1>4, <2>1 DEF Task
<1>7. Counting'
  <2>1. \A mode : MacsCounted(mode)' = MacsCounted(mode)
    BY <1>1, Zenon DEF MacsCounted
  <2>2. QED
    BY <1>1, <1>4, <2>1, Zenon DEF Calling, Counting
<1>8. VerdictKnown'
  BY <1>1 DEF VerdictKnown
<1>9. QED
  BY <1>4, <1>5, <1>6, <1>7, <1>8 DEF Calling

(* The batch after this one, or the mode after this one. *)
Onward(mode) ==
  /\ main'.layer = 1
  /\ main'.i = IF main.i < 5 THEN main.i + 1 ELSE 0
  /\ main'.at = IF main.i < 5 THEN mode
                ELSE IF mode = "gemm" THEN "fused" ELSE IF mode = "fused" THEN "cpu" ELSE "report"

LEMMA NextBatchOnward ==
  ASSUME MainOK, NEW mode \in Modes, main.at = mode
  PROVE  LET nb == NextBatch(mode)
         IN  /\ nb.layer = 1 /\ nb.i = IF main.i < 5 THEN main.i + 1 ELSE 0
             /\ nb.at = IF main.i < 5 THEN mode
                        ELSE IF mode = "gemm" THEN "fused" ELSE IF mode = "fused" THEN "cpu" ELSE "report"
             /\ nb.failures = main.failures /\ nb.macs = main.macs
             /\ nb = [nb EXCEPT !.layer = 1]
             /\ nb = [at |-> nb.at, i |-> nb.i, layer |-> nb.layer, failures |-> nb.failures,
                      drawn |-> nb.drawn, macs |-> nb.macs, verdict |-> nb.verdict]
<1> DEFINE at == IF main.i + 1 < Batches THEN mode
                 ELSE CASE mode = "gemm" -> "fused" [] mode = "fused" -> "cpu"
                        [] mode = "cpu" -> "report"
           i == IF main.i + 1 < Batches THEN main.i + 1 ELSE 0
<1>1. NextBatch(mode) = [main EXCEPT !.layer = 1, !.i = i, !.at = at]
  BY DEF NextBatch
<1>2. main.i + 1 < Batches <=> main.i < 5
  BY BatchesFit DEF MainOK, Modes
<1>3. i = (IF main.i < 5 THEN main.i + 1 ELSE 0)
  BY <1>2
<1>4. at = IF main.i < 5 THEN mode
           ELSE IF mode = "gemm" THEN "fused" ELSE IF mode = "fused" THEN "cpu" ELSE "report"
  BY <1>2 DEF Modes
<1> HIDE DEF at, i
<1>5. NextBatch(mode) = [at |-> at, i |-> i, layer |-> 1, failures |-> main.failures,
                         drawn |-> main.drawn, macs |-> main.macs, verdict |-> main.verdict]
  BY <1>1 DEF MainOK
<1>6. QED
  BY <1>3, <1>4, <1>5

(* What a returned layer makes of main() itself. *)
LEMMA LayerMoves ==
  ASSUME MainOK, LayerReturn
  PROVE  /\ main.layer = 1 => main'.at = main.at /\ main'.i = main.i /\ main'.layer = 2
         /\ main.layer = 2 => Onward(main.at)
         /\ main'.failures = Fail(main.failures, cpu.failed)
         /\ main'.macs = [main.macs EXCEPT ![main.at] = @ + cpu.macs]
<1> DEFINE x == Fail(main.failures, cpu.failed)
           y == [main.macs EXCEPT ![main.at] = @ + cpu.macs]
           nb == NextBatch(main.at)
<1>1. main.at \in {"gemm", "fused"} /\ main.at \in Modes /\ main.layer \in {1, 2}
  BY DEF LayerReturn, Modes, MainOK
<1>2. CASE main.layer = 1
  <2>1. main' = Counted([main EXCEPT !.layer = 2], main.at)
    BY <1>2 DEF LayerReturn
  <2>2. main' = [main EXCEPT !.layer = 2, !.failures = x, !.macs = y]
    BY <2>1 DEF Counted, MainOK
  <2> HIDE DEF x, y
  <2>3. main'.at = main.at /\ main'.i = main.i /\ main'.layer = 2 /\ main'.failures = x /\ main'.macs = y
    BY <2>2 DEF MainOK
  <2>4. QED
    BY <1>2, <2>3 DEF x, y
<1>3. CASE main.layer = 2
  <2>1. main' = Counted(nb, main.at)
    BY <1>3 DEF LayerReturn
  <2>2. /\ nb.failures = main.failures /\ nb.macs = main.macs
        /\ nb = [at |-> nb.at, i |-> nb.i, layer |-> nb.layer, failures |-> nb.failures,
                 drawn |-> nb.drawn, macs |-> nb.macs, verdict |-> nb.verdict]
    BY <1>1, NextBatchOnward
  <2> DEFINE u == Fail(nb.failures, cpu.failed)
             v == [nb.macs EXCEPT ![main.at] = @ + cpu.macs]
  <2>3. main' = [nb EXCEPT !.failures = u, !.macs = v]
    BY <2>1 DEF Counted
  <2>4. u = x /\ v = y
    BY <2>2
  <2> HIDE DEF nb, x, y, u, v
  <2>5. main'.at = nb.at /\ main'.i = nb.i /\ main'.layer = nb.layer /\ main'.failures = x /\ main'.macs = y
    BY <2>2, <2>3, <2>4
  <2>6. Onward(main.at)
    BY <1>1, <2>5, NextBatchOnward DEF Onward, nb
  <2>7. QED
    BY <1>3, <2>5, <2>6 DEF x, y
<1>4. QED
  BY <1>1, <1>2, <1>3

(* Then that layer is done, or that batch, and nothing else. *)
LEMMA BatchDone ==
  ASSUME MainOK, NEW mode \in Modes, main.at = mode, Onward(mode)
  PROVE  \A mode2 \in Modes, j \in 0 .. 5, layer \in Layers :
           Done(mode2, j, layer)' <=> Done(mode2, j, layer) \/ (mode2 = mode /\ j = main.i)
<1>1. main.i \in 0 .. 5 /\ main.layer \in {1, 2}
  BY BatchesFit DEF MainOK, Modes
<1>2. ASSUME NEW mode2 \in Modes, NEW j \in 0 .. 5, NEW layer \in Layers
      PROVE  Done(mode2, j, layer)' <=> Done(mode2, j, layer) \/ (mode2 = mode /\ j = main.i)
  <2>1. CASE main.i < 5
    <3>1. main'.at = mode /\ main'.i = main.i + 1 /\ main'.layer = 1
      BY <2>1 DEF Onward
    <3>2. CASE mode2 = mode
      <4>1. mode \notin After[mode]
        BY DEF After, Modes
      <4>2. Done(mode, j, layer)' <=> j < main.i + 1
        BY <3>1, <4>1, <1>1 DEF Done, Layers
      <4>3. Done(mode, j, layer) <=> j < main.i \/ (j = main.i /\ layer < main.layer)
        BY <4>1 DEF Done
      <4>4. QED
        BY <1>1, <3>2, <4>2, <4>3
    <3>3. CASE mode2 # mode
      BY <3>1, <3>3 DEF Done
    <3>4. QED
      BY <3>2, <3>3
  <2>2. CASE main.i = 5
    <3>1. /\ main'.at = IF mode = "gemm" THEN "fused" ELSE IF mode = "fused" THEN "cpu" ELSE "report"
          /\ main'.i = 0 /\ main'.layer = 1
      BY <2>2 DEF Onward
    <3>2. CASE mode2 = mode
      <4>1. main'.at \in After[mode] /\ mode \notin After[mode]
        BY <3>1 DEF After, Modes
      <4>2. j < main.i \/ j = main.i
        BY <2>2
      <4>3. QED
        BY <3>2, <4>1, <4>2 DEF Done
    <3>3. CASE mode2 # mode
      <4>1. main'.at \in After[mode2] <=> mode \in After[mode2]
        BY <3>1, <3>3 DEF After, Modes
      <4>2. ~(j < main'.i \/ (j = main'.i /\ layer < main'.layer))
        BY <3>1 DEF Layers
      <4>3. QED
        BY <3>3, <4>1, <4>2 DEF Done
    <3>4. QED
      BY <3>2, <3>3
  <2>3. QED
    BY <1>1, <2>1, <2>2
<1>3. QED
  BY <1>2

LEMMA LayerDone ==
  ASSUME MainOK, LayerReturn
  PROVE  \A mode \in Modes, j \in 0 .. 5, layer \in Layers :
           Done(mode, j, layer)' <=> Done(mode, j, layer) \/ Current(mode, j, layer)
<1>1. main.at \in {"gemm", "fused"} /\ main.at \in Modes /\ main.layer \in {1, 2} /\ main.i \in 0 .. 5
  BY BatchesFit DEF LayerReturn, Modes, MainOK
<1>2. CASE main.layer = 1
  <2>1. main'.at = main.at /\ main'.i = main.i /\ main'.layer = 2
    BY <1>2, LayerMoves
  <2>2. QED
    BY <1>1, <1>2, <2>1 DEF Done, Current, Layers, After, Modes
<1>3. CASE main.layer = 2
  <2>1. Onward(main.at)
    BY <1>3, LayerMoves
  <2>2. ASSUME NEW mode \in Modes, NEW j \in 0 .. 5, NEW layer \in Layers
        PROVE  mode = main.at /\ j = main.i => Done(mode, j, layer) \/ Current(mode, j, layer)
    BY <1>3, <2>2 DEF Done, Current, Layers
  <2>3. QED
    BY <1>1, <2>1, <2>2, BatchDone DEF Current
<1>4. QED
  BY <1>1, <1>2, <1>3

(* The sums of a layer are golden exactly if what the CPU makes of them is. *)
LEMMA LayerEpilogue ==
  ASSUME NEW m, Tidy(m), Coherent(m), NEW mode \in Modes, NEW i \in 0 .. 5
  PROVE  /\ Writes1(m, Epilogue1(m, mode, i), Output(mode, i, 1), Activation(InRam(m, Sums(1)), 1))
         /\ Writes1(m, Epilogue2(m, mode, i), Output(mode, i, 2), Activation(InRam(m, Sums(2)), 2))
<1>1. H(mode, i) \in Stores /\ O(mode, i) \in Stores
  BY StoresHave
<1>2. Writes1(m, epilogue(m, At["acc1"], b1.name, H(mode, i), L1_MULT, L1_SHIFT, TRUE), H(mode, i),
              Requantized(InRam(m, At["acc1"]), b1.name, L1_MULT, L1_SHIFT, TRUE))
  BY <1>1, EpilogueWrites
<1>3. Writes1(m, epilogue(m, At["acc2"], b2.name, O(mode, i), L2_MULT, L2_SHIFT, FALSE), O(mode, i),
              Requantized(InRam(m, At["acc2"]), b2.name, L2_MULT, L2_SHIFT, FALSE))
  BY <1>1, EpilogueWrites
<1>4. /\ Output(mode, i, 1) = H(mode, i) /\ Output(mode, i, 2) = O(mode, i)
      /\ Sums(1) = At["acc1"] /\ Sums(2) = At["acc2"] /\ BiasOf(1) = b1.name /\ BiasOf(2) = b2.name
  BY DEF Output, Sums, BiasOf
<1>5. /\ \A p : Activation(p, 1) = Requantized(p, b1.name, L1_MULT, L1_SHIFT, TRUE)
      /\ \A p : Activation(p, 2) = Requantized(p, b2.name, L2_MULT, L2_SHIFT, FALSE)
  <2>1. 2 # 1
    OBVIOUS
  <2>2. QED
    BY <1>4, <2>1, Zenon DEF Activation
<1>6. QED
  BY <1>2, <1>3, <1>4, <1>5, Zenon DEF Epilogue1, Epilogue2

(* A layer that has returned: what it leaves is golden if it was paid.      *)
Kept(m) ==
  LET i == main.i
      layer == main.layer
  IN  /\ Tidy(m) /\ Coherent(m)
      /\ \A y : y # Output(main.at, i, layer) => InRam(m, y) = InRam(mem, y)
      /\ DOMAIN m.ram \subseteq DOMAIN mem.ram \cup {Output(main.at, i, layer)}
      /\ Golden(main.at) => (InRam(m, Output(main.at, i, layer)) = GoldenOutput(i, layer) <=> Paid)
      /\ Golden(main.at) /\ main.at = "gemm" /\ Paid => InRam(mem, Sums(layer)) = GoldenSums(i, layer)

LEMMA GemmKept ==
  ASSUME DemoIInv, Tidy(mem), Coherent(mem), main.at = "gemm", cpu.d = LayerGemm(main.i)
  PROVE  Kept(IF main.layer = 1 THEN Epilogue1(mem, "gemm", main.i) ELSE Epilogue2(mem, "gemm", main.i))
<1> DEFINE i == main.i
           l == main.layer
           m == IF l = 1 THEN Epilogue1(mem, "gemm", i) ELSE Epilogue2(mem, "gemm", i)
           x == Output("gemm", i, l)
           v == InRam(mem, Sums(l))
<1>1. MainOK /\ i \in 0 .. 5 /\ l \in Layers /\ l \in {1, 2} /\ "gemm" \in Modes
  BY BatchesFit DEF DemoIInv, MainOK, Layers, Modes
<1>2. Writes1(mem, m, x, Activation(v, l))
  BY <1>1, LayerEpilogue
<1>3. cpu.d["C_BASE"] = Sums(l) /\ (Golden("gemm") => Owed = GoldenSums(i, l))
  BY <1>1, GemmOwed
<1>4. Golden("gemm") => (v = GoldenSums(i, l) <=> Paid)
  BY <1>3 DEF Paid
<1>5. Activation(v, l) = GoldenOutput(i, l) <=> v = GoldenSums(i, l)
  BY <1>1, GoldenIs, ActivationSame
<1> HIDE DEF m, x, v
<1>6. /\ Tidy(m) /\ Coherent(m) /\ InRam(m, x) = Activation(v, l)
      /\ \A y : y # x => InRam(m, y) = InRam(mem, y)
      /\ DOMAIN m.ram \subseteq DOMAIN mem.ram \cup {x}
  BY <1>2 DEF Writes1
<1>7. Golden("gemm") => (InRam(m, x) = GoldenOutput(i, l) <=> Paid)
  BY <1>4, <1>5, <1>6
<1>8. QED
  BY <1>4, <1>6, <1>7 DEF Kept, m, x, v

LEMMA FusedKept ==
  ASSUME DemoIInv, Tidy(mem), Coherent(mem), main.at = "fused", cpu.d = LayerFused(main.i),
         cpu.bias = BiasOf(main.layer)
  PROVE  Kept(mem)
<1>1. /\ cpu.d["C_BASE"] = Output("fused", main.i, main.layer)
      /\ Golden("fused") => Owed = GoldenOutput(main.i, main.layer)
  BY FusedOwed DEF DemoIInv
<1>2. QED
  BY <1>1 DEF Kept, Paid

LEMMA LayerReturnLedger ==
  ASSUME DemoIInv, Ledger, LayerReturn, Over, Told <=> cpu.failed, ~Over', ~Told',
         NEW m, Kept(m), mem' = m, faults' = faults
  PROVE  Ledger'
<1>0. PICK mode, i, l : mode = main.at /\ i = main.i /\ l = main.layer
  OBVIOUS
<1> DEFINE x == Output(mode, i, l)
<1>1. /\ MainOK /\ mode \in {"gemm", "fused"} /\ mode \in Modes /\ l \in Layers /\ i \in 0 .. 5
      /\ "gemm" \in Modes /\ "fused" \in Modes /\ "cpu" \in Modes
  BY <1>0, BatchesFit DEF LayerReturn, Modes, MainOK, DemoIInv, Layers
<1>k. /\ \A y : y # x => InRam(m, y) = InRam(mem, y)
      /\ DOMAIN m.ram \subseteq DOMAIN mem.ram \cup {x}
      /\ Golden(mode) => (InRam(m, x) = GoldenOutput(i, l) <=> Paid)
      /\ Golden(mode) /\ mode = "gemm" /\ Paid => InRam(mem, Sums(l)) = GoldenSums(i, l)
  BY <1>0 DEF Kept
<1>2. \A mode2 \in Modes, j \in 0 .. 5, layer \in Layers :
        Done(mode2, j, layer)' <=> Done(mode2, j, layer) \/ Current(mode2, j, layer)
  BY <1>1, LayerDone
<1>3. \A mode2 \in Modes, j \in 0 .. 5, layer \in Layers :
        /\ Current(mode2, j, layer) <=> mode2 = mode /\ j = i /\ layer = l
        /\ Output(mode2, j, layer) = x => Current(mode2, j, layer)
  BY <1>0, <1>1, OutputsApart DEF Current
<1>4. ~Done(mode, i, l)
  BY <1>0, <1>1 DEF Done, After, Layers
<1>5. \A mode2 \in Modes, j \in 0 .. 5, layer \in Layers :
        ~Current(mode2, j, layer) =>
          InRam(mem', Output(mode2, j, layer)) = InRam(mem, Output(mode2, j, layer))
  BY <1>3, <1>k
<1>6. \A mode2 \in Modes : mode2 # mode => (Golden(mode2)' <=> Golden(mode2))
  BY <1>2, <1>3, <1>5 DEF Golden
<1>7. Golden(mode)' <=> Golden(mode) /\ Paid
  <2>1. Golden(mode)' <=> Golden(mode) /\ InRam(m, x) = GoldenOutput(i, l)
    <3>1. ASSUME Golden(mode)'
          PROVE  Golden(mode) /\ InRam(m, x) = GoldenOutput(i, l)
      <4>1. Done(mode, i, l)'
        BY <1>1, <1>2, <1>3
      <4>2. InRam(m, x) = GoldenOutput(i, l)
        BY <1>1, <3>1, <4>1 DEF Golden
      <4>3. ASSUME NEW j \in 0 .. 5, NEW layer \in Layers, Done(mode, j, layer)
            PROVE  InRam(mem, Output(mode, j, layer)) = GoldenOutput(j, layer)
        <5>1. ~Current(mode, j, layer)
          BY <1>1, <1>3, <1>4, <4>3
        <5>2. InRam(mem', Output(mode, j, layer)) = GoldenOutput(j, layer)
          BY <1>1, <1>2, <3>1, <4>3 DEF Golden
        <5>3. QED
          BY <1>1, <1>5, <5>1, <5>2
      <4>4. QED
        BY <4>2, <4>3 DEF Golden
    <3>2. ASSUME Golden(mode), InRam(m, x) = GoldenOutput(i, l)
          PROVE  Golden(mode)'
      <4>1. ASSUME NEW j \in 0 .. 5, NEW layer \in Layers, Done(mode, j, layer)'
            PROVE  InRam(mem', Output(mode, j, layer)) = GoldenOutput(j, layer)
        <5>1. CASE Current(mode, j, layer)
          BY <1>1, <1>3, <3>2, <5>1
        <5>2. CASE ~Current(mode, j, layer)
          BY <1>1, <1>2, <1>5, <3>2, <4>1, <5>2 DEF Golden
        <5>3. QED
          BY <5>1, <5>2
      <4>2. QED
        BY <4>1 DEF Golden
    <3>3. QED
      BY <3>1, <3>2
  <2>2. QED
    BY <2>1, <1>k
<1>8. Golden("cpu")'
  BY <1>1, <1>6 DEF Ledger
<1>9. Amiss' <=> Amiss \/ ~Paid
  BY <1>1, <1>6, <1>7 DEF Amiss
<1>10. main'.failures = Fail(main.failures, cpu.failed)
  BY <1>1, LayerMoves
<1>11. Accounted'
  BY <1>9, <1>10 DEF Ledger, Accounted, Counts, Sane, Seen, Fail
<1>12. main'.at \in {"gemm", "fused", "cpu"} /\ (main'.at = "gemm" => mode = "gemm")
  BY <1>0, <1>1, LayerMoves DEF Onward, Layers
<1>13. Patterned' /\ Unused' /\ LastShape'
  BY <1>12 DEF Patterned, Unused, LastShape, Recovering, SelfTests
<1>14. Empty'
  <2>1. ASSUME NEW j \in 0 .. 5, NEW layer \in Layers, ~Done("fused", j, layer)'
        PROVE  Output("fused", j, layer) \notin DOMAIN mem'.ram
    <3>1. ~Done("fused", j, layer) /\ ~Current("fused", j, layer)
      BY <1>1, <1>2, <2>1
    <3>2. Output("fused", j, layer) \notin DOMAIN mem.ram
      BY <3>1 DEF Ledger, Leftover, Empty
    <3>3. Output("fused", j, layer) # x
      BY <1>1, <1>3, <3>1
    <3>4. QED
      BY <3>2, <3>3, <1>k
  <2>2. QED
    BY <2>1 DEF Empty
<1>15. OldSums'
  <2> SUFFICES ASSUME faults = 0, main'.at = "gemm", NEW layer \in Layers
               PROVE  \/ Sums(layer) \notin DOMAIN mem'.ram
                      \/ \E j \in 0 .. 5 : /\ Done("gemm", j, layer)'
                                           /\ InRam(mem', Sums(layer)) = GoldenSums(j, layer)
    BY DEF OldSums
  <2>1. mode = "gemm" /\ Paid /\ Golden("gemm")
    BY <1>12 DEF Ledger, Accounted, Sane, Amiss
  <2>2. Sums(layer) # x
    BY <1>1, SumsAre, OutputsApart
  <2>3. CASE layer = l
    <3>1. InRam(mem', Sums(l)) = GoldenSums(i, l)
      BY <2>1, <2>2, <2>3, <1>k
    <3>2. Done("gemm", i, l)'
      BY <1>1, <1>2, <1>3, <2>1
    <3>3. QED
      BY <1>1, <2>3, <3>1, <3>2
  <2>4. CASE layer # l
    <3>1. \/ Sums(layer) \notin DOMAIN mem.ram
          \/ \E j \in 0 .. 5 : Done("gemm", j, layer) /\ InRam(mem, Sums(layer)) = GoldenSums(j, layer)
      BY <1>0, <2>1, <2>4 DEF Ledger, Leftover, OldSums
    <3>2. CASE Sums(layer) \notin DOMAIN mem.ram
      BY <2>2, <3>2, <1>k
    <3>3. ASSUME NEW j \in 0 .. 5, Done("gemm", j, layer), InRam(mem, Sums(layer)) = GoldenSums(j, layer)
          PROVE  Done("gemm", j, layer)' /\ InRam(mem', Sums(layer)) = GoldenSums(j, layer)
      BY <1>1, <1>2, <2>2, <3>3, <1>k
    <3>4. QED
      BY <3>1, <3>2, <3>3
  <2>5. QED
    BY <2>3, <2>4
<1>16. QED
  BY <1>8, <1>11, <1>13, <1>14, <1>15 DEF Ledger, Leftover

(* A layer has counted its own MACs. *)
LEMMA LayerMacs ==
  ASSUME NEW i \in 0 .. 5
  PROVE  /\ BatchSize(i) = IF i < 5 THEN 64 ELSE 40
         /\ BatchSize(i) * Columns(1) * Depth(1) = BatchSize(i) * N_HID * N_IN
         /\ BatchSize(i) * Columns(2) * Depth(2) = BatchSize(i) * N_OUT * N_HID
BY SMT DEF BatchSize, N_TEST, BATCH, Columns, Depth, N_HID, N_IN, N_OUT

LEMMA LayerCounting ==
  ASSUME DemoIInv, Counting, LayerReturn, cpu.at = "return", cpu.st, cpu'.at = "idle",
         cpu.d["M"] = BatchSize(main.i), cpu.d["N"] = Columns(main.layer), cpu.d["K"] = Depth(main.layer)
  PROVE  Counting'
<1>0. PICK mode, i, l : mode = main.at /\ i = main.i /\ l = main.layer
  OBVIOUS
<1>1. MainOK /\ mode \in {"gemm", "fused"} /\ mode \in Modes /\ l \in {1, 2} /\ i \in 0 .. 5
  BY <1>0, BatchesFit DEF LayerReturn, Modes, MainOK, DemoIInv
<1>2. cpu.macs = BatchSize(i) * Columns(l) * Depth(l)
  BY <1>0 DEF Counting, accel_dma_performance
<1>3. /\ l = 1 => main'.at = mode /\ main'.i = i /\ main'.layer = 2
      /\ l = 2 => Onward(mode)
      /\ main'.macs = [main.macs EXCEPT ![mode] = @ + cpu.macs]
  BY <1>0, <1>1, LayerMoves
<1>4. MacsCounted(mode)' = MacsCounted(mode) + cpu.macs
  <2>1. /\ N_TEST = 360 /\ N_IN = 64 /\ N_HID = 32 /\ N_OUT = 10 /\ BATCH = 64
        /\ BatchSize(i) = IF i < 5 THEN 64 ELSE 40
    BY <1>1, LayerMacs, SMT DEF N_TEST, N_IN, N_HID, N_OUT, BATCH
  <2>2. MacsCounted(mode) = 151552 * i + (IF l = 1 THEN 0 ELSE BatchSize(i) * 2048)
    BY <1>0, <1>1, <2>1, SMT DEF MacsCounted
  <2>3. CASE l = 1
    <3>1. cpu.macs = BatchSize(i) * 2048
      BY <1>1, <1>2, <2>1, <2>3, SMT DEF Columns, Depth
    <3>2. MacsCounted(mode)' = 151552 * i + BatchSize(i) * 2048
      BY <1>1, <1>3, <2>1, <2>3, SMT DEF MacsCounted
    <3>3. QED
      BY <1>1, <2>1, <2>2, <2>3, <3>1, <3>2, SMT
  <2>4. CASE l = 2 /\ i < 5
    <3>1. cpu.macs = 20480
      BY <1>1, <1>2, <2>1, <2>4, SMT DEF Columns, Depth
    <3>2. main'.at = mode /\ main'.i = i + 1 /\ main'.layer = 1
      BY <1>0, <1>3, <2>4 DEF Onward
    <3>3. MacsCounted(mode)' = 151552 * (i + 1)
      BY <1>1, <2>1, <3>2, SMT DEF MacsCounted
    <3>4. QED
      BY <1>1, <2>1, <2>2, <2>4, <3>1, <3>3, SMT
  <2>5. CASE l = 2 /\ i = 5
    <3>1. cpu.macs = 12800
      BY <1>1, <1>2, <2>1, <2>5, SMT DEF Columns, Depth
    <3>2. main'.at \in After[mode] /\ main'.at # mode
      BY <1>0, <1>1, <1>3, <2>5 DEF Onward, After
    <3>3. MacsCounted(mode)' = 852480
      BY <2>1, <3>2, SMT DEF MacsCounted, UsefulMacs
    <3>4. QED
      BY <1>1, <2>1, <2>2, <2>5, <3>1, <3>3, SMT
  <2>6. QED
    BY <1>1, <2>3, <2>4, <2>5
<1>5. ASSUME NEW mode2 \in {"gemm", "fused"}, mode2 # mode
      PROVE  MacsCounted(mode2)' = MacsCounted(mode2)
  <2>1. CASE main'.at = mode
    BY <1>0, <1>5, <2>1, Zenon DEF MacsCounted, UsefulMacs
  <2>2. CASE main'.at # mode
    <3>1. /\ mode = "gemm" => main'.at = "fused" /\ main'.i = 0 /\ main'.layer = 1
          /\ mode = "fused" => main'.at = "cpu"
      BY <1>1, <1>3, <2>2 DEF Onward
    <3>2. CASE mode = "gemm"
      <4>1. MacsCounted("fused")' = 0
        BY <3>1, <3>2, SMT DEF MacsCounted, BATCH, N_IN, N_HID, N_OUT
      <4>2. MacsCounted("fused") = 0
        BY <1>0, <3>2 DEF MacsCounted, After
      <4>3. QED
        BY <1>5, <3>2, <4>1, <4>2
    <3>3. CASE mode = "fused"
      <4>1. MacsCounted("gemm")' = UsefulMacs /\ MacsCounted("gemm") = UsefulMacs
        BY <1>0, <3>1, <3>3, Zenon DEF MacsCounted, After, UsefulMacs
      <4>2. QED
        BY <1>5, <3>3, <4>1
    <3>4. QED
      BY <1>1, <3>2, <3>3
  <2>3. QED
    BY <2>1, <2>2
<1>6. main'.macs = [mode2 \in {"gemm", "fused"} |-> MacsCounted(mode2)']
  <2>1. main.macs = [mode2 \in {"gemm", "fused"} |-> MacsCounted(mode2)]
    BY DEF Counting
  <2>2. /\ DOMAIN main.macs = {"gemm", "fused"}
        /\ \A mode2 \in {"gemm", "fused"} : main.macs[mode2] = MacsCounted(mode2)
    BY <2>1, Zenon
  <2>3. /\ main'.macs = [mode2 \in DOMAIN main.macs |->
                           IF mode2 = mode THEN main.macs[mode] + cpu.macs ELSE main.macs[mode2]]
    BY <1>3
  <2>4. \A mode2 \in {"gemm", "fused"} :
          (IF mode2 = mode THEN main.macs[mode] + cpu.macs ELSE main.macs[mode2]) = MacsCounted(mode2)'
    BY <1>1, <1>4, <1>5, <2>2, Zenon
  <2>5. QED
    BY <2>2, <2>3, <2>4, Zenon
<1>7. QED
  BY <1>6, Zenon DEF Counting

LEMMA LayerReturnNetwork ==
  ASSUME DemoIInv, KnownJobs, Calling, Ledger, LayerReturn
  PROVE  Calling' /\ Ledger'
<1> DEFINE m == IF main.at = "fused" THEN mem
                ELSE IF main.layer = 1 THEN Epilogue1(mem, "gemm", main.i)
                ELSE Epilogue2(mem, "gemm", main.i)
<1>1. main.at \in {"gemm", "fused"} /\ Back /\ Device(Idle, m) /\ cpu.at = "return" /\ MainOK
  BY DEF LayerReturn, Back, DemoIInv
<1>2. Tidy(mem) /\ Coherent(mem)
  BY <1>1 DEF KnownJobs, Calling, Fresh
<1>3. /\ main.at = "gemm" => cpu.d = LayerGemm(main.i)
      /\ main.at = "fused" => cpu.d = LayerFused(main.i) /\ cpu.bias = BiasOf(main.layer)
      /\ cpu.st
  <2>1. Active
    BY <1>1 DEF Active, Ending
  <2>2. QED
    BY <1>1, <2>1, ActiveTask DEF Calling
<1>4. Kept(m)
  BY <1>1, <1>2, <1>3, GemmKept, FusedKept
<1>5. /\ cpu.d["M"] = BatchSize(main.i) /\ cpu.d["N"] = Columns(main.layer)
      /\ cpu.d["K"] = Depth(main.layer)
  BY <1>1, <1>2, <1>3, GemmOwed, FusedOwed
<1> HIDE DEF m
<1>6. /\ mem' = m /\ faults' = faults /\ cpu'.at = "idle"
      /\ Over /\ (Told <=> cpu.failed) /\ ~Over' /\ ~Told' /\ Task' /\ BiasKnown' /\ Fresh' /\ ProbeSeen'
  BY <1>1, <1>4, BackMade DEF Kept
<1>7. Ledger'
  BY <1>4, <1>6, LayerReturnLedger
<1>8. Counting'
  BY <1>1, <1>3, <1>5, <1>6, LayerCounting DEF Calling
<1>9. VerdictKnown'
  <2>1. main'.at # "halt"
    BY <1>1, LayerMoves DEF Onward, MainOK
  <2>2. QED
    BY <2>1 DEF VerdictKnown
<1>10. QED
  BY <1>6, <1>7, <1>8, <1>9 DEF Calling

-----------------------------------------------------------------------------
(* The network on the CPU: a batch of it is golden whatever came before.    *)

LEMMA CpuBatchWrites ==
  ASSUME Tidy(mem), Coherent(mem), NEW i \in 0 .. 5
  PROVE  LET hidden == Epilogue1(cpu_gemm(mem, X(i), At["w1t"], At["acc1"], BatchSize(i), N_HID, N_IN), "cpu", i)
             logits == cpu_gemm(hidden, H("cpu", i), At["w2t"], At["acc2"], BatchSize(i), N_OUT, N_HID)
             m == Epilogue2(logits, "cpu", i)
         IN  /\ Tidy(m) /\ Coherent(m)
             /\ \A layer \in Layers : InRam(m, Output("cpu", i, layer)) = GoldenOutput(i, layer)
             /\ \A y : y \notin Scratch \cup {Output("cpu", i, 1), Output("cpu", i, 2)} =>
                  InRam(m, y) = InRam(mem, y)
<1> DEFINE product == cpu_gemm(mem, X(i), At["w1t"], At["acc1"], BatchSize(i), N_HID, N_IN)
           hidden == Epilogue1(product, "cpu", i)
           logits == cpu_gemm(hidden, H("cpu", i), At["w2t"], At["acc2"], BatchSize(i), N_OUT, N_HID)
           m == Epilogue2(logits, "cpu", i)
           x1 == Output("cpu", i, 1)
           x2 == Output("cpu", i, 2)
<1>1. /\ "cpu" \in Modes /\ 1 \in Layers /\ 2 \in Layers
      /\ Sums(1) = At["acc1"] /\ Sums(2) = At["acc2"] /\ x1 = H("cpu", i)
      /\ Weights(1) = At["w1t"] /\ Weights(2) = At["w2t"]
      /\ Columns(1) = N_HID /\ Columns(2) = N_OUT /\ Depth(1) = N_IN /\ Depth(2) = N_HID
  BY DEF Modes, Layers, Sums, Output, Weights, Columns, Depth
<1>2. /\ At["acc1"] \in Stores /\ At["acc2"] \in Stores
      /\ At["acc1"] \in Scratch /\ At["acc2"] \in Scratch
      /\ x1 \notin Scratch /\ x2 \notin Scratch /\ x1 # x2
  <2>1. x1 # x2
    BY <1>1, OutputsApart
  <2>2. QED
    BY <1>1, <2>1, OutputsApart, SumsAre
<1>3. /\ Writes1(mem, product, At["acc1"], GoldenSums(i, 1))
  <2>1. Writes1(mem, product, At["acc1"], Gemm(InRam(mem, X(i)), InRam(mem, At["w1t"]), BatchSize(i), N_HID, N_IN))
    BY <1>2, CpuGemmWrites
  <2>2. InRam(mem, X(i)) = Linked(X(i)) /\ InRam(mem, At["w1t"]) = Linked(At["w1t"])
    BY <1>1, ConstantsStay
  <2>3. GoldenSums(i, 1) = Gemm(Linked(X(i)), Linked(At["w1t"]), BatchSize(i), N_HID, N_IN)
    BY <1>1, Zenon DEF GoldenSums, Product, GoldenInput
  <2> HIDE DEF product
  <2>4. QED
    BY <2>1, <2>2, <2>3
<1> HIDE DEF product
<1>4. Tidy(product) /\ Coherent(product) /\ InRam(product, At["acc1"]) = GoldenSums(i, 1)
      /\ \A y : y # At["acc1"] => InRam(product, y) = InRam(mem, y)
  BY <1>3 DEF Writes1
<1>5. Writes1(product, hidden, x1, Activation(InRam(product, Sums(1)), 1))
  BY <1>1, <1>4, LayerEpilogue
<1>6. Activation(InRam(product, Sums(1)), 1) = GoldenOutput(i, 1)
  BY <1>1, <1>4, GoldenIs
<1> HIDE DEF hidden
<1>7. Tidy(hidden) /\ Coherent(hidden) /\ InRam(hidden, x1) = GoldenOutput(i, 1)
      /\ \A y : y # x1 => InRam(hidden, y) = InRam(product, y)
  BY <1>5, <1>6 DEF Writes1
<1>8. /\ Writes1(hidden, logits, At["acc2"], GoldenSums(i, 2))
  <2>1. Writes1(hidden, logits, At["acc2"],
                Gemm(InRam(hidden, H("cpu", i)), InRam(hidden, At["w2t"]), BatchSize(i), N_OUT, N_HID))
    BY <1>2, <1>7, CpuGemmWrites
  <2>2. InRam(hidden, H("cpu", i)) = GoldenHidden(i) /\ InRam(hidden, At["w2t"]) = Linked(At["w2t"])
    BY <1>1, <1>7, ConstantsStay DEF GoldenOutput
  <2>3. GoldenSums(i, 2) = Gemm(GoldenHidden(i), Linked(At["w2t"]), BatchSize(i), N_OUT, N_HID)
    <3>1. 2 # 1
      OBVIOUS
    <3>2. QED
      BY <1>1, <3>1, Zenon DEF GoldenSums, Product, GoldenInput
  <2> HIDE DEF logits
  <2>4. QED
    BY <2>1, <2>2, <2>3
<1> HIDE DEF logits
<1>9. Tidy(logits) /\ Coherent(logits) /\ InRam(logits, At["acc2"]) = GoldenSums(i, 2)
      /\ \A y : y # At["acc2"] => InRam(logits, y) = InRam(hidden, y)
  BY <1>8 DEF Writes1
<1>10. Writes1(logits, m, x2, Activation(InRam(logits, Sums(2)), 2))
  BY <1>1, <1>9, LayerEpilogue
<1>11. Activation(InRam(logits, Sums(2)), 2) = GoldenOutput(i, 2)
  BY <1>1, <1>9, GoldenIs
<1> HIDE DEF m, x1, x2
<1>12. Tidy(m) /\ Coherent(m) /\ InRam(m, x2) = GoldenOutput(i, 2)
       /\ \A y : y # x2 => InRam(m, y) = InRam(logits, y)
  BY <1>10, <1>11 DEF Writes1
<1>13. InRam(m, x1) = GoldenOutput(i, 1)
  BY <1>2, <1>7, <1>9, <1>12
<1>14. \A y : y \notin Scratch \cup {x1, x2} => InRam(m, y) = InRam(mem, y)
  BY <1>2, <1>4, <1>7, <1>9, <1>12
<1>15. \A layer \in Layers : InRam(m, Output("cpu", i, layer)) = GoldenOutput(i, layer)
  BY <1>12, <1>13 DEF Layers, x1, x2
<1>16. QED
  BY <1>12, <1>14, <1>15 DEF m, x1, x2, logits, hidden, product

LEMMA CpuBatchNetwork ==
  ASSUME DemoIInv, KnownJobs, Calling, Ledger, CpuBatch
  PROVE  Calling' /\ Ledger'
<1>0. PICK i : i = main.i
  OBVIOUS
<1> DEFINE hidden == Epilogue1(cpu_gemm(mem, X(i), At["w1t"], At["acc1"], BatchSize(i), N_HID, N_IN), "cpu", i)
           logits == cpu_gemm(hidden, H("cpu", i), At["w2t"], At["acc2"], BatchSize(i), N_OUT, N_HID)
           m == Epilogue2(logits, "cpu", i)
<1>1. /\ main.at = "cpu" /\ cpu.at = "idle" /\ Device(Idle, m) /\ main' = NextBatch("cpu")
      /\ cpu' = cpu /\ biasVec' = biasVec
  BY <1>0 DEF CpuBatch
<1>2. /\ MainOK /\ "cpu" \in Modes /\ "gemm" \in Modes /\ "fused" \in Modes /\ i \in 0 .. 5
      /\ Tidy(mem) /\ Coherent(mem) /\ faults \in Nat
  BY <1>0, <1>1, BatchesFit DEF DemoIInv, MainOK, Modes, KnownJobs, Calling, Fresh, Ledger, Accounted, Counts
<1>3. /\ Tidy(m) /\ Coherent(m)
      /\ \A layer \in Layers : InRam(m, Output("cpu", i, layer)) = GoldenOutput(i, layer)
      /\ \A y : y \notin Scratch \cup {Output("cpu", i, 1), Output("cpu", i, 2)} =>
           InRam(m, y) = InRam(mem, y)
  BY <1>2, CpuBatchWrites
<1> HIDE DEF m
<1>4. mem' = m /\ faults' = faults
  BY <1>1, <1>2, QuietStep
<1>5. Onward("cpu") /\ main'.failures = main.failures /\ main'.macs = main.macs
  BY <1>1, <1>2, NextBatchOnward DEF Onward
<1>6. main'.at \in {"cpu", "report"}
  BY <1>5 DEF Onward
<1>7. \A mode \in Modes, j \in 0 .. 5, layer \in Layers :
        Done(mode, j, layer)' <=> Done(mode, j, layer) \/ (mode = "cpu" /\ j = i)
  BY <1>0, <1>1, <1>2, <1>5, BatchDone
<1>8. \A mode \in Modes, j \in 0 .. 5, layer \in Layers :
        ~(mode = "cpu" /\ j = i) =>
          InRam(mem', Output(mode, j, layer)) = InRam(mem, Output(mode, j, layer))
  <2> SUFFICES ASSUME NEW mode \in Modes, NEW j \in 0 .. 5, NEW layer \in Layers, ~(mode = "cpu" /\ j = i)
               PROVE  InRam(mem', Output(mode, j, layer)) = InRam(mem, Output(mode, j, layer))
    OBVIOUS
  <2>1. Output(mode, j, layer) \notin Scratch \cup {Output("cpu", i, 1), Output("cpu", i, 2)}
    BY <1>2, OutputsApart DEF Layers
  <2>2. QED
    BY <1>3, <1>4, <2>1
<1>9. Golden("cpu")'
  <2>1. ASSUME NEW j \in 0 .. 5, NEW layer \in Layers, Done("cpu", j, layer)'
        PROVE  InRam(mem', Output("cpu", j, layer)) = GoldenOutput(j, layer)
    <3>1. CASE j = i
      BY <1>3, <1>4, <3>1
    <3>2. CASE j # i
      BY <1>2, <1>7, <1>8, <2>1, <3>2 DEF Ledger, Golden
    <3>3. QED
      BY <3>1, <3>2
  <2>2. QED
    BY <2>1 DEF Golden
<1>10. Amiss' <=> Amiss
  BY <1>2, <1>7, <1>8 DEF Amiss, Golden
<1>11. ~Over /\ ~Told /\ ~Over' /\ ~Told'
  BY <1>1 DEF Over, Told, Ending
<1>12. Accounted'
  BY <1>4, <1>5, <1>10, <1>11 DEF Ledger, Accounted, Counts, Sane, Seen
<1>13. Leftover'
  <2>1. \A j, layer : Done("fused", j, layer)'
    BY <1>6 DEF Done, After
  <2>2. Patterned' /\ Unused' /\ LastShape' /\ OldSums'
    BY <1>6 DEF Patterned, Unused, LastShape, Recovering, SelfTests, OldSums
  <2>3. QED
    BY <2>1, <2>2 DEF Leftover, Empty
<1>14. Counting'
  <2>1. \A mode \in {"gemm", "fused"} : MacsCounted(mode) = UsefulMacs /\ MacsCounted(mode)' = UsefulMacs
    <3>1. \A mode \in {"gemm", "fused"} : /\ main.at # mode /\ main'.at # mode
                                          /\ main.at \in After[mode] /\ main'.at \in After[mode]
      BY <1>1, <1>6 DEF After
    <3>2. QED
      BY <3>1, Zenon DEF MacsCounted, UsefulMacs
  <2>2. main'.macs = [mode \in {"gemm", "fused"} |-> MacsCounted(mode)']
    BY <1>5, <2>1, Zenon DEF Calling, Counting
  <2>3. QED
    BY <1>1, <2>2, Zenon DEF Counting
<1>15. Task' /\ BiasKnown' /\ Fresh' /\ ProbeSeen' /\ VerdictKnown'
  BY <1>1, <1>3, <1>4, <1>6
     DEF Calling, Task, BiasKnown, Fresh, Coherent, InRam, ProbeSeen, ProbePoints, VerdictKnown
<1>16. QED
  BY <1>9, <1>12, <1>13, <1>14, <1>15 DEF Ledger, Calling

-----------------------------------------------------------------------------
(* The report: what the network left in RAM against the golden model.       *)

Misread == {138, 236, 238, 249, 264, 268, 341}

LEMMA LabelsAre ==
  /\ DOMAIN labels = 1 .. 360
  /\ labels[138] = 8 /\ labels[236] = 1 /\ labels[238] = 5 /\ labels[249] = 8
  /\ labels[264] = 0 /\ labels[268] = 4 /\ labels[341] = 9
BY SMT DEF labels

LEMMA PredictionIs ==
  \A image \in 1 .. 360 : golden_pred[image] = labels[image] <=> image \notin Misread
BY LabelsAre DEF golden_pred, Misread

LEMMA UpTo ==
  \A n \in {8, 360} : IsFiniteSet(1 .. n) /\ Cardinality(1 .. n) = n
<1>1. ASSUME NEW n \in Nat, n >= 1
      PROVE  IsFiniteSet(1 .. n) /\ Cardinality(1 .. n) = n
  <2>1. 1 \in Int /\ n \in Int
    OBVIOUS
  <2>2. IsFiniteSet(1 .. n) /\ Cardinality(1 .. n) = IF 1 > n THEN 0 ELSE n - 1 + 1
    BY <2>1, FS_Interval
  <2>3. QED
    BY <1>1, <2>2
<1>2. 8 \in Nat /\ 8 >= 1 /\ 360 \in Nat /\ 360 >= 1
  OBVIOUS
<1>3. QED
  BY <1>1, <1>2

LEMMA OneLess ==
  ASSUME NEW s, IsFiniteSet(s), NEW n \in Nat, Cardinality(s) = n, NEW x \in s
  PROVE  IsFiniteSet(s \ {x}) /\ Cardinality(s \ {x}) = n - 1
BY FS_RemoveElement

(* The golden model is right about 353 of the 360 images. *)
LEMMA GoldenScore ==
  Cardinality({image \in 1 .. 360 : golden_pred[image] = labels[image]}) = 353
<1> DEFINE s0 == 1 .. 360
           s1 == s0 \ {138}
           s2 == s1 \ {236}
           s3 == s2 \ {238}
           s4 == s3 \ {249}
           s5 == s4 \ {264}
           s6 == s5 \ {268}
           s7 == s6 \ {341}
<1>1. {image \in 1 .. 360 : golden_pred[image] = labels[image]} = s7
  BY PredictionIs DEF Misread
<1>2. IsFiniteSet(s0) /\ Cardinality(s0) = 360
  BY UpTo
<1>3. IsFiniteSet(s1) /\ Cardinality(s1) = 359
  <2>1. 138 \in s0
    OBVIOUS
  <2> HIDE DEF s0
  <2>2. QED
    BY <1>2, <2>1, OneLess
<1>4. IsFiniteSet(s2) /\ Cardinality(s2) = 358
  <2>1. 236 \in s1
    OBVIOUS
  <2> HIDE DEF s1
  <2>2. QED
    BY <1>3, <2>1, OneLess
<1>5. IsFiniteSet(s3) /\ Cardinality(s3) = 357
  <2>1. 238 \in s2
    OBVIOUS
  <2> HIDE DEF s2
  <2>2. QED
    BY <1>4, <2>1, OneLess
<1>6. IsFiniteSet(s4) /\ Cardinality(s4) = 356
  <2>1. 249 \in s3
    OBVIOUS
  <2> HIDE DEF s3
  <2>2. QED
    BY <1>5, <2>1, OneLess
<1>7. IsFiniteSet(s5) /\ Cardinality(s5) = 355
  <2>1. 264 \in s4
    OBVIOUS
  <2> HIDE DEF s4
  <2>2. QED
    BY <1>6, <2>1, OneLess
<1>8. IsFiniteSet(s6) /\ Cardinality(s6) = 354
  <2>1. 268 \in s5
    OBVIOUS
  <2> HIDE DEF s5
  <2>2. QED
    BY <1>7, <2>1, OneLess
<1>9. IsFiniteSet(s7) /\ Cardinality(s7) = 353
  <2>1. 341 \in s6
    OBVIOUS
  <2> HIDE DEF s6
  <2>2. QED
    BY <1>8, <2>1, OneLess
<1>10. QED
  BY <1>1, <1>9

(* How many of eight checks fail. *)
LEMMA FailedChecks ==
  ASSUME NEW t
  PROVE  LET n == Cardinality({c \in 1 .. 8 : ~t[c]})
         IN  n \in Nat /\ (n = 0 <=> \A c \in 1 .. 8 : t[c])
<1> DEFINE failed == {c \in 1 .. 8 : ~t[c]}
<1>1. IsFiniteSet(failed)
  <2>1. IsFiniteSet(1 .. 8)
    BY UpTo
  <2>2. failed \subseteq 1 .. 8
    OBVIOUS
  <2> HIDE DEF failed
  <2>3. QED
    BY <2>1, <2>2, FS_Subset
<1>2. failed = {} <=> \A c \in 1 .. 8 : t[c]
  BY Zenon
<1> HIDE DEF failed
<1>3. Cardinality(failed) \in Nat /\ (Cardinality(failed) = 0 <=> failed = {})
  BY <1>1, FS_CardinalityType, FS_EmptySet
<1>4. QED
  BY <1>2, <1>3, Zenon DEF failed

(* What the layers of a mode leave are the golden values, batch by batch. *)
LEMMA ContentsAre ==
  ASSUME main.at = "report", Coherent(mem), NEW mode \in Modes
  PROVE  /\ Golden(mode) <=> /\ Hidden(mode) = [i \in 0 .. Batches - 1 |-> GoldenHidden(i)]
                             /\ Logits(mode) = [i \in 0 .. Batches - 1 |-> GoldenLogits(i)]
         /\ Golden(mode) => \A i \in 0 .. 5 : Logits(mode)[i] = GoldenLogits(i)
<1>1. 0 .. Batches - 1 = 0 .. 5
  BY BatchesFit
<1>2. \A i : Load(mem, H(mode, i)) = InRam(mem, H(mode, i)) /\ Load(mem, O(mode, i)) = InRam(mem, O(mode, i))
  BY DEF Coherent, Load
<1>3. \A i, layer : Done(mode, i, layer)
  BY DEF Done, After, Modes
<1>4. \A i \in 0 .. 5 : /\ Output(mode, i, 1) = H(mode, i) /\ Output(mode, i, 2) = O(mode, i)
                        /\ GoldenOutput(i, 1) = GoldenHidden(i) /\ GoldenOutput(i, 2) = GoldenLogits(i)
  BY DEF Output, GoldenOutput
<1>5. Golden(mode) <=> \A i \in 0 .. 5 : /\ Load(mem, H(mode, i)) = GoldenHidden(i)
                                         /\ Load(mem, O(mode, i)) = GoldenLogits(i)
  BY <1>2, <1>3, <1>4 DEF Golden, Layers
<1>6. /\ Hidden(mode) = [i \in 0 .. 5 |-> Load(mem, H(mode, i))]
      /\ Logits(mode) = [i \in 0 .. 5 |-> Load(mem, O(mode, i))]
  BY <1>1 DEF Hidden, Logits
<1> DEFINE gh == [i \in 0 .. 5 |-> GoldenHidden(i)]
           gl == [i \in 0 .. 5 |-> GoldenLogits(i)]
<1>7. /\ Hidden(mode) = gh <=> \A i \in 0 .. 5 : Load(mem, H(mode, i)) = GoldenHidden(i)
      /\ Logits(mode) = gl <=> \A i \in 0 .. 5 : Load(mem, O(mode, i)) = GoldenLogits(i)
  <2>1. \A f, g : [i \in 0 .. 5 |-> f[i]] = [i \in 0 .. 5 |-> g[i]] <=> \A i \in 0 .. 5 : f[i] = g[i]
    OBVIOUS
  <2>2. /\ Hidden(mode) = gh => \A i \in 0 .. 5 : Hidden(mode)[i] = gh[i]
        /\ Logits(mode) = gl => \A i \in 0 .. 5 : Logits(mode)[i] = gl[i]
    OBVIOUS
  <2>3. QED
    BY <1>6, <2>2, Zenon
<1>8. Golden(mode) => \A i \in 0 .. 5 : Logits(mode)[i] = GoldenLogits(i)
  BY <1>5, <1>6
<1>9. QED
  BY <1>1, <1>5, <1>7, <1>8

LEMMA GoldenPredicts ==
  ASSUME main.at = "report", Coherent(mem), NEW mode \in Modes, Golden(mode), NEW lucky
  PROVE  /\ Score(mode, lucky, golden_pred) = N_TEST
         /\ Score(mode, lucky, labels) = GOLDEN_CORRECT
<1>1. \A image \in 1 .. 360 : argmax10(mode, image, lucky) = golden_pred[image]
  <2> SUFFICES ASSUME NEW image \in 1 .. 360
               PROVE  argmax10(mode, image, lucky) = golden_pred[image]
    OBVIOUS
  <2> DEFINE i == (image - 1) \div BATCH
  <2>1. i \in 0 .. 5
    BY SMT DEF BATCH
  <2> HIDE DEF i
  <2>2. Logits(mode)[i] = GoldenLogits(i)
    BY <2>1, ContentsAre
  <2>3. QED
    BY <2>2, Zenon DEF argmax10, i
<1>2. Images = 1 .. 360 /\ N_TEST = 360 /\ GOLDEN_CORRECT = 353
  BY SMT DEF Images, N_TEST, GOLDEN_CORRECT
<1> DEFINE same == {image \in Images : argmax10(mode, image, lucky) = golden_pred[image]}
           right == {image \in Images : argmax10(mode, image, lucky) = labels[image]}
           expected == {image \in 1 .. 360 : golden_pred[image] = labels[image]}
<1>3. same = 1 .. 360 /\ right = expected
  BY <1>1, <1>2
<1>4. Score(mode, lucky, golden_pred) = Cardinality(same) /\ Score(mode, lucky, labels) = Cardinality(right)
  BY Zenon DEF Score
<1>5. Cardinality(expected) = 353 /\ Cardinality(1 .. 360) = 360
  BY GoldenScore, UpTo
<1> HIDE DEF same, right, expected
<1>6. QED
  BY <1>2, <1>3, <1>4, <1>5

(* main() counts no failed check exactly if nothing is amiss. *)
LEMMA ChecksTell ==
  ASSUME main.at = "report", Coherent(mem), Golden("cpu"), NEW lucky \in BOOLEAN
  PROVE  LET n == Cardinality({c \in 1 .. 8 : ~Checks(lucky)[c]})
         IN  n \in Nat /\ (n = 0 <=> ~Amiss)
<1> DEFINE gh == [i \in 0 .. Batches - 1 |-> GoldenHidden(i)]
           gl == [i \in 0 .. Batches - 1 |-> GoldenLogits(i)]
           a == crc32(Hidden("fused")) = GOLDEN_HIDDEN_CRC /\ crc32(Logits("fused")) = GOLDEN_LOGITS_CRC
           b == Score("fused", lucky, golden_pred) = N_TEST
           c == crc32(Hidden("gemm")) = GOLDEN_HIDDEN_CRC
           d == crc32(Logits("gemm")) = GOLDEN_LOGITS_CRC
           e == Hidden("gemm") = Hidden("cpu")
           f == Logits("gemm") = Logits("cpu")
           g == Score("gemm", lucky, golden_pred) = N_TEST
           h == Score("gemm", lucky, labels) = GOLDEN_CORRECT
<1>1. Checks(lucky) = <<a, b, c, d, e, f, g, h>>
  BY Zenon DEF Checks
<1>2. "gemm" \in Modes /\ "fused" \in Modes /\ "cpu" \in Modes
  BY DEF Modes
<1>3. Hidden("cpu") = gh /\ Logits("cpu") = gl
  BY <1>2, ContentsAre
<1>4. /\ a <=> Hidden("fused") = gh /\ Logits("fused") = gl
      /\ c <=> Hidden("gemm") = gh
      /\ d <=> Logits("gemm") = gl
  <2>1. \A v, w : crc32(v) = crc32(w) <=> v = w
    BY DEF crc32
  <2>2. GOLDEN_HIDDEN_CRC = crc32(gh) /\ GOLDEN_LOGITS_CRC = crc32(gl)
    BY Zenon DEF GOLDEN_HIDDEN_CRC, GOLDEN_LOGITS_CRC
  <2>3. QED
    BY <2>1, <2>2, Zenon
<1>5. Golden("fused") <=> a
  BY <1>2, <1>4, ContentsAre, Zenon
<1>6. Golden("gemm") <=> c /\ d
  BY <1>2, <1>4, ContentsAre, Zenon
<1>7. Golden("gemm") => e /\ f
  BY <1>3, <1>4, <1>6, Zenon
<1>8. /\ Golden("fused") => b
      /\ Golden("gemm") => g /\ h
  BY <1>2, GoldenPredicts, Zenon
<1> HIDE DEF a, b, c, d, e, f, g, h
<1>9. ~Amiss <=> a /\ b /\ c /\ d /\ e /\ f /\ g /\ h
  BY <1>5, <1>6, <1>7, <1>8, Zenon DEF Amiss
<1> DEFINE t == Checks(lucky)
<1>10. /\ t[1] = a /\ t[2] = b /\ t[3] = c /\ t[4] = d
       /\ t[5] = e /\ t[6] = f /\ t[7] = g /\ t[8] = h
  BY <1>1
<1> HIDE DEF t
<1>11. (\A k \in 1 .. 8 : t[k]) <=> t[1] /\ t[2] /\ t[3] /\ t[4] /\ t[5] /\ t[6] /\ t[7] /\ t[8]
  <2>1. \A k \in 1 .. 8 : k = 1 \/ k = 2 \/ k = 3 \/ k = 4 \/ k = 5 \/ k = 6 \/ k = 7 \/ k = 8
    OBVIOUS
  <2>2. 1 \in 1 .. 8 /\ 2 \in 1 .. 8 /\ 3 \in 1 .. 8 /\ 4 \in 1 .. 8
        /\ 5 \in 1 .. 8 /\ 6 \in 1 .. 8 /\ 7 \in 1 .. 8 /\ 8 \in 1 .. 8
    OBVIOUS
  <2>3. QED
    BY <2>1, <2>2, Zenon
<1>12. ~Amiss <=> \A k \in 1 .. 8 : t[k]
  BY <1>9, <1>10, <1>11, Zenon
<1>13. QED
  BY <1>12, FailedChecks, Zenon DEF t

LEMMA ReportNetwork ==
  ASSUME DemoIInv, KnownJobs, Calling, Ledger, Report
  PROVE  Calling' /\ Ledger'
<1>1. PICK lucky \in BOOLEAN :
        /\ main.at = "report" /\ cpu.at = "idle" /\ Device(Idle, mem) /\ cpu' = cpu /\ biasVec' = biasVec
        /\ LET failures == main.failures + Cardinality({c \in 1 .. 8 : ~Checks(lucky)[c]})
           IN  main' = [main EXCEPT !.at = "halt", !.failures = failures,
                                    !.verdict = IF failures = 0 THEN "PASSED" ELSE "FAILED"]
  BY Zenon DEF Report, Access
<1> DEFINE n == Cardinality({c \in 1 .. 8 : ~Checks(lucky)[c]})
           failures == main.failures + n
           verdict == IF failures = 0 THEN "PASSED" ELSE "FAILED"
<1>2. MainOK /\ Coherent(mem) /\ faults \in Nat /\ main.failures \in Nat
  BY <1>1 DEF DemoIInv, Calling, Fresh, Ledger, Accounted, Counts
<1>3. mem' = mem /\ faults' = faults
  BY <1>1, <1>2, QuietStep
<1>4. n \in Nat /\ (n = 0 <=> ~Amiss)
  BY <1>1, <1>2, ChecksTell DEF Ledger
<1> HIDE DEF n
<1>5. main' = [main EXCEPT !.at = "halt", !.failures = failures, !.verdict = verdict]
  BY <1>1, Zenon DEF n
<1>6. ~Over /\ ~Told /\ ~Over' /\ ~Told'
  BY <1>1 DEF Over, Told, Ending
<1>7. failures \in Nat /\ (failures = 0 <=> faults = 0)
  BY <1>2, <1>4, <1>6 DEF Ledger, Accounted, Sane, Seen
<1>8. verdict = IF faults = 0 THEN "PASSED" ELSE "FAILED"
  BY <1>7
<1> HIDE DEF failures, verdict
<1>9. /\ main'.at = "halt" /\ main'.failures = failures /\ main'.verdict = verdict
      /\ main'.macs = main.macs
  BY <1>2, <1>5 DEF MainOK
<1>10. \A mode \in Modes : \A i, layer : Done(mode, i, layer) /\ Done(mode, i, layer)'
  BY <1>1, <1>9 DEF Done, After, Modes
<1>11. (Golden("cpu")' <=> Golden("cpu")) /\ (Amiss' <=> Amiss)
  BY <1>3, <1>10 DEF Amiss, Golden, Modes, InRam
<1>12. Accounted'
  BY <1>3, <1>6, <1>7, <1>9, <1>11 DEF Ledger, Accounted, Counts, Sane, Seen
<1>13. Leftover'
  <2>1. Patterned' /\ Unused' /\ LastShape' /\ OldSums'
    BY <1>9 DEF Patterned, Unused, LastShape, Recovering, SelfTests, OldSums
  <2>2. QED
    BY <1>10, <2>1 DEF Leftover, Empty, Modes
<1>14. Counting'
  <2>1. \A mode \in {"gemm", "fused"} : MacsCounted(mode) = UsefulMacs /\ MacsCounted(mode)' = UsefulMacs
    <3>1. \A mode \in {"gemm", "fused"} : /\ main.at # mode /\ main'.at # mode
                                          /\ main.at \in After[mode] /\ main'.at \in After[mode]
      BY <1>1, <1>9 DEF After
    <3>2. QED
      BY <3>1, Zenon DEF MacsCounted, UsefulMacs
  <2>2. main'.macs = [mode \in {"gemm", "fused"} |-> MacsCounted(mode)']
    BY <1>9, <2>1, Zenon DEF Calling, Counting
  <2>3. QED
    BY <1>1, <2>2, Zenon DEF Counting
<1>15. VerdictKnown'
  BY <1>3, <1>8, <1>9 DEF VerdictKnown
<1>16. Task' /\ BiasKnown' /\ Fresh' /\ ProbeSeen'
  BY <1>1, <1>2, <1>3, <1>9 DEF Calling, Task, BiasKnown, Fresh, Coherent, InRam, ProbeSeen, ProbePoints
<1>17. QED
  BY <1>11, <1>12, <1>13, <1>14, <1>15, <1>16 DEF Ledger, Calling

-----------------------------------------------------------------------------
(* From reset to the verdict. *)

LEMMA NetworkStarts ==
  ASSUME DemoInit
  PROVE  NetworkInv
<1> SUFFICES ASSUME main.at # "otherCaller"
             PROVE  Calling /\ Ledger
  BY DEF NetworkInv
<1> DEFINE macs == [mode \in {"gemm", "fused"} |-> 0]
<1>1. /\ main = [at |-> "selftest", i |-> 1, layer |-> 1, failures |-> 0, drawn |-> 0,
                 macs |-> macs, verdict |-> "none"]
      /\ mem = [ram |-> <<>>, cache |-> <<>>] /\ cpu = Idler /\ job = NoJob /\ faults = 0
      /\ DOMAIN biasVec = 0 .. DMA_BIAS_MAX - 1
  BY DEF DemoInit, DeviceInit, Init
<1> HIDE DEF macs
<1>2. main.at = "selftest" /\ main.failures = 0 /\ main.macs = macs
  BY <1>1
<1>3. cpu.at = "idle" /\ cpu.bias = "none" /\ ~cpu.busySeen
  BY <1>1 DEF Idler
<1>4. DOMAIN mem.ram = {} /\ DOMAIN mem.cache = {}
  BY <1>1
<1>5. \A mode \in Modes : \A i, layer : ~Done(mode, i, layer)
  BY <1>2 DEF Done, After, Modes
<1>6. Golden("cpu") /\ ~Amiss
  BY <1>5 DEF Golden, Amiss, Modes
<1>7. ~Over /\ ~Told
  BY <1>3 DEF Over, Told, Ending
<1>8. Leftover
  BY <1>2, <1>4 DEF Leftover, Patterned, Unused, Empty, LastShape, OldSums, Recovering
<1>9. Accounted
  BY <1>1, <1>2, <1>6, <1>7 DEF Accounted, Counts, Sane, Seen
<1>10. Counting
  <2>1. \A mode \in {"gemm", "fused"} : MacsCounted(mode) = 0
    <3>1. \A mode \in {"gemm", "fused"} : main.at # mode /\ main.at \notin After[mode]
      BY <1>2 DEF After
    <3>2. QED
      BY <3>1, Zenon DEF MacsCounted
  <2>2. macs = [mode \in {"gemm", "fused"} |-> MacsCounted(mode)]
    BY <2>1, Zenon DEF macs
  <2>3. QED
    BY <1>2, <1>3, <2>2, Zenon DEF Counting
<1>11. Task /\ BiasKnown /\ Fresh /\ ProbeSeen /\ VerdictKnown
  BY <1>1, <1>2, <1>3, <1>4
     DEF Task, BiasKnown, Fresh, Coherent, ProbeSeen, ProbePoints, VerdictKnown
<1>12. QED
  BY <1>6, <1>8, <1>9, <1>10, <1>11 DEF Calling, Ledger

LEMMA NetworkContinues ==
  ASSUME DemoIInv, KnownJobs, NetworkInv, [DemoNext]_allvars
  PROVE  NetworkInv'
<1>1. CASE UNCHANGED allvars
  <2>1. UNCHANGED <<cpu, biasVec, main, mem, faults, job, desc, eng>>
    BY <1>1 DEF allvars, softVars, vars
  <2>2. CASE main.at = "otherCaller"
    BY <2>1, <2>2 DEF NetworkInv
  <2>3. CASE main.at # "otherCaller"
    <3>1. Calling /\ Ledger
      BY <2>3 DEF NetworkInv
    <3>2. Calling'
      BY <2>1, <3>1 DEF Calling, Task, BiasKnown, Fresh, Coherent, InRam, ProbeSeen, Counting, MacsCounted,
                        VerdictKnown, TestCall, LayerGemm, LayerFused
    <3>3. Ledger'
      BY <2>1, <3>1, LedgerKept DEF Over, Told
    <3>4. QED
      BY <3>2, <3>3 DEF NetworkInv
  <2>4. QED
    BY <2>2, <2>3
<1>2. CASE DemoNext
  <2>1. CASE main.at = "otherCaller"
    <3>1. main'.at = "otherCaller"
      BY <1>2, <2>1
         DEF DemoNext, Between, Driver, Main, OtherCall, OtherReturn, Abort, SelfTest, SelfTestCheck,
             Robustness, Probe, ProbeClear, ProbeCheck, Recover, RecoverCheck, LayerCall, LayerReturn,
             CpuBatch, Report, DemoIInv, Probing, ProbePoints
    <3>2. QED
      BY <3>1 DEF NetworkInv
  <2>2. CASE main.at # "otherCaller"
    <3>1. Calling /\ Ledger
      BY <2>2 DEF NetworkInv
    <3>2. ~OtherCall /\ ~OtherReturn /\ ~Abort
      BY <2>2 DEF OtherCall, OtherReturn, Abort
    <3>3. CASE Between
      BY <2>2, <3>1, <3>3, BetweenNetwork DEF NetworkInv
    <3>4. CASE Driver
      <4>1. Task /\ BiasKnown
        BY <3>1 DEF Calling
      <4>2. Ledger' /\ Calling'
        BY <2>2, <3>1, <3>4, <4>1, DriverLedger, DriverCalling
      <4>3. QED
        BY <4>2 DEF NetworkInv
    <3>5. CASE Main
      BY <3>1, <3>5, SelfTestNetwork, SelfTestCheckNetwork, ProbeNetwork, RecoverNetwork,
         RecoverCheckNetwork, LayerCallNetwork, LayerReturnNetwork, CpuBatchNetwork, ReportNetwork
         DEF Main, NetworkInv
    <3>6. QED
      BY <1>2, <3>2, <3>3, <3>4, <3>5 DEF DemoNext
  <2>3. QED
    BY <2>1, <2>2
<1>3. QED
  BY <1>1, <1>2

(* "SOC TEST PASSED" is printed exactly if no job failed in any way, and    *)
(* then the accelerator has counted every MAC of the network.               *)
THEOREM VerdictIsExact == DemoSpec => []VerdictExact
<1>1. NetworkInv => VerdictExact
  <2> SUFFICES ASSUME NetworkInv, main.at = "halt"
               PROVE  /\ main.verdict = "PASSED" <=> faults = 0
                      /\ \A mode \in DOMAIN main.macs : main.macs[mode] = UsefulMacs
    BY Zenon DEF VerdictExact
  <2>1. Counting /\ VerdictKnown
    BY DEF NetworkInv, Calling
  <2>2. main.verdict = "PASSED" <=> faults = 0
    BY <2>1 DEF VerdictKnown
  <2>3. \A mode \in {"gemm", "fused"} : MacsCounted(mode) = UsefulMacs
    <3>1. \A mode \in {"gemm", "fused"} : main.at # mode /\ main.at \in After[mode]
      BY DEF After
    <3>2. QED
      BY <3>1, Zenon DEF MacsCounted
  <2>4. main.macs = [mode \in {"gemm", "fused"} |-> MacsCounted(mode)]
    BY <2>1 DEF Counting
  <2>5. QED
    BY <2>2, <2>3, <2>4, Zenon
<1>2. DemoInit => DemoIInv /\ KnownJobs /\ NetworkInv
  BY DemoStarts, DemoStartsKnown, NetworkStarts
<1>3. DemoIInv /\ KnownJobs /\ NetworkInv /\ [DemoNext]_allvars => (DemoIInv /\ KnownJobs /\ NetworkInv)'
  BY DemoContinues, DemoContinuesKnown, NetworkContinues
<1>4. QED
  BY <1>1, <1>2, <1>3, PTL DEF DemoSpec
=============================================================================
