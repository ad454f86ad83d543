---------------------------- MODULE MemBusProofs ---------------------------
(***************************************************************************)
(* The invariants of MemBus, for every RAM window, all words and any       *)
(* bursts the masters may ask for, of any length.                          *)
(***************************************************************************)
EXTENDS MemBus, Arithmetic

ReadSides ==
  [state : {"IDLE", "BURST", "ERROR"}, toB : BOOLEAN, preferB : BOOLEAN, word : 0 .. Depth - 1,
   issueLeft : Nat, popLeft : Nat, pending : BOOLEAN, pendingLast : BOOLEAN,
   data : [0 .. 1 -> Words], last : [0 .. 1 -> BOOLEAN], count : 0 .. 2, head : 0 .. 1]

WriteSides ==
  [state : {"IDLE", "DATA", "RESP"}, word : 0 .. Depth - 1, left : Nat, err : BOOLEAN]

Readers == [phase : {"idle", "ask", "take"}, req : RequestType, n : Nat, passed : 0 .. 2]
Writers == [phase : {"idle", "ask", "send", "respond"}, req : RequestType, n : Nat, bad : BOOLEAN]

TypeOK ==
  /\ rp \in ReadSides
  /\ wp \in WriteSides
  /\ ram \in [0 .. Depth - 1 -> Words]
  /\ rdata \in Words
  /\ readers \in [BOOLEAN -> Readers]
  /\ writer \in Writers

(* The port serves the reader that takes, and one side at a time. *)
Roles ==
  /\ \A b \in BOOLEAN : readers[b].phase = "take" <=> ReadBusy /\ rp.toB = b
  /\ wp.state = "IDLE" <=> writer.phase \in {"idle", "ask"}
  /\ wp.state = "DATA" <=> writer.phase = "send"
  /\ ReadBusy => ~WriteBusy

(* Nothing has moved before a burst is granted. *)
Fresh ==
  /\ \A b \in BOOLEAN : readers[b].phase # "take" => readers[b].n = 0
  /\ writer.phase \in {"idle", "ask"} => writer.n = 0 /\ ~writer.bad

(* Beats still to give, whether they come from the RAM or are all errors. *)
Taker == readers[rp.toB]
BeatsLeft ==
  ReadBusy => /\ rp.popLeft > 0
              /\ Taker.n + rp.popLeft = Taker.req.len + 1
              /\ rp.state = "BURST" <=> Acceptable(Taker.req)

(* Word i of the burst that is being read. *)
WordAt(i) == ram[Taker.req.addr - Base + i]

(* The words on their way: what the FIFO holds comes next, then what the    *)
(* RAM is about to return, then what has yet to be asked for.               *)
FifoIdle == rp.state # "BURST" => rp.count = 0 /\ ~rp.pending

FifoRight ==
  rp.state = "BURST" =>
    /\ rp.count + Bit(rp.pending) <= 2
    /\ rp.count + Bit(rp.pending) + rp.issueLeft = rp.popLeft
    /\ rp.count > 0 => /\ rp.data[rp.head] = WordAt(Taker.n)
                       /\ rp.last[rp.head] <=> Taker.n = Taker.req.len
    /\ rp.count > 1 => /\ rp.data[1 - rp.head] = WordAt(Taker.n + 1)
                       /\ rp.last[1 - rp.head] <=> Taker.n + 1 = Taker.req.len
    /\ rp.pending => /\ rdata = WordAt(Taker.n + rp.count)
                     /\ rp.pendingLast <=> Taker.n + rp.count = Taker.req.len
    /\ rp.issueLeft > 0 =>
         rp.word = Taker.req.addr - Base + Taker.n + rp.count + Bit(rp.pending)

(* A write burst: where it stands, and whether it is still a good one. *)
WriteRight ==
  /\ WriteBusy => (wp.err <=> ~Acceptable(writer.req) \/ writer.bad)
  /\ wp.state = "DATA" =>
       /\ wp.left > 0 /\ writer.n + wp.left = writer.req.len + 1
       /\ ~wp.err => wp.word = writer.req.addr - Base + writer.n

(* A reader that has seen the other one granted is the next in turn. *)
Turns ==
  \A b \in BOOLEAN :
    /\ readers[b].passed <= 1
    /\ readers[b].phase = "ask" /\ readers[b].passed = 1 => rp.preferB = b

IInv ==
  TypeOK /\ Roles /\ Fresh /\ BeatsLeft /\ FifoIdle /\ FifoRight /\ WriteRight /\ Turns

(* The read side after a clock, register by register. *)
LEMMA StreamRecord ==
  ASSUME TypeOK, NEW pop \in BOOLEAN
  PROVE  Stream(pop) =
           [state |-> rp.state, toB |-> rp.toB, preferB |-> rp.preferB,
            word |-> IF Issue(pop) THEN (rp.word + 1) % Depth ELSE rp.word,
            issueLeft |-> IF Issue(pop) THEN rp.issueLeft - 1 ELSE rp.issueLeft,
            popLeft |-> rp.popLeft, pending |-> Issue(pop),
            pendingLast |-> Issue(pop) /\ rp.issueLeft = 1,
            data |-> IF rp.pending THEN [rp.data EXCEPT ![PushSlot(pop)] = rdata] ELSE rp.data,
            last |-> IF rp.pending THEN [rp.last EXCEPT ![PushSlot(pop)] = rp.pendingLast] ELSE rp.last,
            count |-> rp.count - Bit(pop) + Bit(rp.pending),
            head |-> HeadAfterPop(pop)]
<1>1. rp = [state |-> rp.state, toB |-> rp.toB, preferB |-> rp.preferB, word |-> rp.word,
            issueLeft |-> rp.issueLeft, popLeft |-> rp.popLeft, pending |-> rp.pending,
            pendingLast |-> rp.pendingLast, data |-> rp.data, last |-> rp.last,
            count |-> rp.count, head |-> rp.head]
  BY DEF TypeOK, ReadSides
<1> DEFINE word == IF Issue(pop) THEN (rp.word + 1) % Depth ELSE rp.word
           issueLeft == IF Issue(pop) THEN rp.issueLeft - 1 ELSE rp.issueLeft
           pendingLast == Issue(pop) /\ rp.issueLeft = 1
           data == IF rp.pending THEN [rp.data EXCEPT ![PushSlot(pop)] = rdata] ELSE rp.data
           last == IF rp.pending THEN [rp.last EXCEPT ![PushSlot(pop)] = rp.pendingLast] ELSE rp.last
           count == rp.count - Bit(pop) + Bit(rp.pending)
<1>2. Stream(pop) =
        [rp EXCEPT !.pending = Issue(pop), !.pendingLast = pendingLast, !.word = word,
                   !.issueLeft = issueLeft, !.data = data, !.last = last, !.count = count,
                   !.head = HeadAfterPop(pop)]
  BY Zenon DEF Stream
<1> HIDE DEF word, issueLeft, pendingLast, data, last, count
<1>3. Stream(pop) =
        [state |-> rp.state, toB |-> rp.toB, preferB |-> rp.preferB, word |-> word,
         issueLeft |-> issueLeft, popLeft |-> rp.popLeft, pending |-> Issue(pop),
         pendingLast |-> pendingLast, data |-> data, last |-> last, count |-> count,
         head |-> HeadAfterPop(pop)]
  BY <1>1, <1>2
<1>4. QED
  BY <1>3, Zenon DEF word, issueLeft, pendingLast, data, last, count

LEMMA ReadSideType ==
  ASSUME NEW r,
         r = [state |-> r.state, toB |-> r.toB, preferB |-> r.preferB, word |-> r.word,
              issueLeft |-> r.issueLeft, popLeft |-> r.popLeft, pending |-> r.pending,
              pendingLast |-> r.pendingLast, data |-> r.data, last |-> r.last,
              count |-> r.count, head |-> r.head],
         r.state \in {"IDLE", "BURST", "ERROR"}, r.toB \in BOOLEAN, r.preferB \in BOOLEAN,
         r.word \in 0 .. Depth - 1, r.issueLeft \in Nat, r.popLeft \in Nat,
         r.pending \in BOOLEAN, r.pendingLast \in BOOLEAN, r.data \in [0 .. 1 -> Words],
         r.last \in [0 .. 1 -> BOOLEAN], r.count \in 0 .. 2, r.head \in 0 .. 1
  PROVE  r \in ReadSides
  BY Zenon DEF ReadSides

(* The registers Stream sets keep their types, unless the FIFO would overflow. *)
LEMMA StreamTypes ==
  ASSUME TypeOK, NEW pop \in BOOLEAN, pop => rp.count > 0,
         rp.count - Bit(pop) + Bit(rp.pending) <= 2
  PROVE  /\ Stream(pop) \in ReadSides
         /\ PushSlot(pop) \in 0 .. 1
         /\ Stream(pop).state = rp.state /\ Stream(pop).toB = rp.toB
         /\ Stream(pop).preferB = rp.preferB /\ Stream(pop).popLeft = rp.popLeft
         /\ Stream(pop).count = rp.count - Bit(pop) + Bit(rp.pending)
         /\ Stream(pop).pending <=> Issue(pop)
         /\ Stream(pop).pendingLast <=> Issue(pop) /\ rp.issueLeft = 1
         /\ Stream(pop).word = IF Issue(pop) THEN (rp.word + 1) % Depth ELSE rp.word
         /\ Stream(pop).issueLeft = IF Issue(pop) THEN rp.issueLeft - 1 ELSE rp.issueLeft
         /\ Stream(pop).head = HeadAfterPop(pop)
         /\ \A i \in 0 .. 1 :
              /\ Stream(pop).data[i] =
                   IF rp.pending /\ i = PushSlot(pop) THEN rdata ELSE rp.data[i]
              /\ Stream(pop).last[i] <=>
                   IF rp.pending /\ i = PushSlot(pop) THEN rp.pendingLast ELSE rp.last[i]
<1> DEFINE word == IF Issue(pop) THEN (rp.word + 1) % Depth ELSE rp.word
           issueLeft == IF Issue(pop) THEN rp.issueLeft - 1 ELSE rp.issueLeft
           pendingLast == Issue(pop) /\ rp.issueLeft = 1
           data == IF rp.pending THEN [rp.data EXCEPT ![PushSlot(pop)] = rdata] ELSE rp.data
           last == IF rp.pending THEN [rp.last EXCEPT ![PushSlot(pop)] = rp.pendingLast] ELSE rp.last
           count == rp.count - Bit(pop) + Bit(rp.pending)
<1>1. /\ rp.state \in {"IDLE", "BURST", "ERROR"} /\ rp.toB \in BOOLEAN /\ rp.preferB \in BOOLEAN
      /\ rp.word \in 0 .. Depth - 1 /\ rp.issueLeft \in Nat /\ rp.popLeft \in Nat
      /\ rp.pending \in BOOLEAN /\ rp.pendingLast \in BOOLEAN
      /\ rp.data \in [0 .. 1 -> Words] /\ rp.last \in [0 .. 1 -> BOOLEAN]
      /\ rp.count \in 0 .. 2 /\ rp.head \in 0 .. 1 /\ rdata \in Words
  BY DEF TypeOK, ReadSides
<1>2. Issue(pop) \in BOOLEAN /\ pendingLast \in BOOLEAN
  BY Zenon DEF Issue
<1>3. word \in 0 .. Depth - 1
  <2>1. rp.word + 1 \in Int
    BY <1>1
  <2>2. (rp.word + 1) % Depth \in 0 .. Depth - 1
    BY <2>1, ModuloRangeInt, MemPortAssumption
  <2>3. QED
    BY <1>1, <2>2
<1>4. issueLeft \in Nat
  BY <1>1 DEF Issue
<1>5. HeadAfterPop(pop) \in 0 .. 1
  BY <1>1 DEF HeadAfterPop
<1>6. count \in 0 .. 2
  BY <1>1 DEF Bit
<1>7. PushSlot(pop) \in 0 .. 1
  BY <1>1, <1>5 DEF PushSlot, Bit
<1>8. data \in [0 .. 1 -> Words] /\ last \in [0 .. 1 -> BOOLEAN]
  BY <1>1, <1>7, Zenon
<1>9. Stream(pop) =
        [state |-> rp.state, toB |-> rp.toB, preferB |-> rp.preferB, word |-> word,
         issueLeft |-> issueLeft, popLeft |-> rp.popLeft, pending |-> Issue(pop),
         pendingLast |-> pendingLast, data |-> data, last |-> last, count |-> count,
         head |-> HeadAfterPop(pop)]
  BY StreamRecord, Zenon
<1> HIDE DEF word, issueLeft, pendingLast, data, last, count
<1> DEFINE r == Stream(pop)
           issue == Issue(pop)
           head == HeadAfterPop(pop)
<1>10. r = [state |-> rp.state, toB |-> rp.toB, preferB |-> rp.preferB, word |-> word,
            issueLeft |-> issueLeft, popLeft |-> rp.popLeft, pending |-> issue,
            pendingLast |-> pendingLast, data |-> data, last |-> last, count |-> count,
            head |-> head]
  BY <1>9, Zenon
<1>11. issue \in BOOLEAN /\ head \in 0 .. 1
  BY <1>2, <1>5
<1> HIDE DEF r, issue, head
<1>12. /\ r = [state |-> r.state, toB |-> r.toB, preferB |-> r.preferB, word |-> r.word,
               issueLeft |-> r.issueLeft, popLeft |-> r.popLeft, pending |-> r.pending,
               pendingLast |-> r.pendingLast, data |-> r.data, last |-> r.last,
               count |-> r.count, head |-> r.head]
       /\ r.state = rp.state /\ r.toB = rp.toB /\ r.preferB = rp.preferB /\ r.word = word
       /\ r.issueLeft = issueLeft /\ r.popLeft = rp.popLeft /\ r.pending = issue
       /\ r.pendingLast = pendingLast /\ r.data = data /\ r.last = last /\ r.count = count
       /\ r.head = head
  BY <1>10
<1>13. r \in ReadSides
  BY <1>1, <1>2, <1>3, <1>4, <1>6, <1>8, <1>11, <1>12, ReadSideType, Zenon
<1>14. /\ r.pending <=> Issue(pop)
       /\ r.pendingLast <=> Issue(pop) /\ rp.issueLeft = 1
       /\ r.word = IF Issue(pop) THEN (rp.word + 1) % Depth ELSE rp.word
       /\ r.issueLeft = IF Issue(pop) THEN rp.issueLeft - 1 ELSE rp.issueLeft
       /\ r.count = rp.count - Bit(pop) + Bit(rp.pending)
       /\ r.head = HeadAfterPop(pop)
  BY <1>12, Zenon DEF issue, pendingLast, word, issueLeft, head, count
<1>15. ASSUME NEW i \in 0 .. 1
       PROVE  /\ r.data[i] = IF rp.pending /\ i = PushSlot(pop) THEN rdata ELSE rp.data[i]
              /\ r.last[i] <=> IF rp.pending /\ i = PushSlot(pop) THEN rp.pendingLast ELSE rp.last[i]
  BY <1>1, <1>12, Zenon DEF data, last
<1>16. QED
  BY <1>7, <1>12, <1>13, <1>14, <1>15, Zenon DEF r

-----------------------------------------------------------------------------
(* Who is granted: a reader that asks, and the one whose turn it is. *)
LEMMA Grant ==
  ASSUME TypeOK, NEW b \in BOOLEAN, Granted(b)
  PROVE  /\ StartRead(A, B) /\ readers[b].phase = "ask" /\ ~Granted(~b)
         /\ PickB(A, B) <=> b
         /\ Chosen(A, B) = Wire(readers[b])
         /\ readers[~b].phase = "ask" => (rp.preferB <=> b)
<1>1. A.valid <=> readers[FALSE].phase = "ask"
  BY Zenon DEF A, Wire
<1>2. B.valid <=> readers[TRUE].phase = "ask"
  BY Zenon DEF B, Wire
<1>3. CASE b
  BY <1>1, <1>2, <1>3, Zenon DEF Granted, AReady, BReady, PickB, PickA, Chosen, B
<1>4. CASE ~b
  BY <1>1, <1>2, <1>4, Zenon DEF Granted, AReady, BReady, PickB, PickA, Chosen, A
<1>5. QED
  BY <1>3, <1>4

LEMMA SomeGrant ==
  ASSUME TypeOK, StartRead(A, B)
  PROVE  \E b \in BOOLEAN : Granted(b)
  BY Zenon DEF Granted, AReady, BReady, PickB, PickA, StartRead

(* The read side after a grant: the burst of the reader that was granted. *)
LEMMA GrantStep ==
  ASSUME TypeOK, FifoIdle, NEW b \in BOOLEAN, Granted(b), NEW rA, NEW rB, ReadSide(A, B, rA, rB)
  PROVE  LET q == readers[b].req
         IN  /\ rp' \in ReadSides
             /\ rp'.toB = b /\ rp'.preferB = ~b
             /\ rp'.word = WordOf(q)
             /\ rp'.issueLeft = q.len + 1 /\ rp'.popLeft = q.len + 1
             /\ rp'.count = 0 /\ ~rp'.pending
             /\ rp'.state = IF Acceptable(q) THEN "BURST" ELSE "ERROR"
<1> DEFINE pop == OutPop(rA, rB)
           s == Stream(pop)
           q == readers[b].req
<1>1. StartRead(A, B) /\ (PickB(A, B) <=> b) /\ Chosen(A, B) = Wire(readers[b])
  BY Grant
<1>2. rp.state = "IDLE" /\ rp.count = 0 /\ ~rp.pending
  BY <1>1 DEF StartRead, FifoIdle
<1>3. pop = FALSE
  BY <1>2, Zenon DEF OutPop, OutValid
<1>4. ~Issue(pop)
  BY <1>2 DEF Issue
<1>5. s \in ReadSides /\ s.count = 0 /\ ~s.pending
  <2>1. rp.count - Bit(pop) + Bit(rp.pending) = 0
    BY <1>2, <1>3 DEF Bit
  <2>2. rp.count - Bit(pop) + Bit(rp.pending) <= 2 /\ pop \in BOOLEAN
    <3>1. pop \in BOOLEAN
      BY <1>3, Zenon
    <3> HIDE DEF pop
    <3>2. QED
      BY <2>1, <3>1
  <2>3. pop => rp.count > 0
    BY <1>3, Zenon
  <2>4. s \in ReadSides /\ s.count = rp.count - Bit(pop) + Bit(rp.pending) /\ (s.pending <=> Issue(pop))
    BY <2>2, <2>3, StreamTypes, Zenon
  <2>5. QED
    BY <1>4, <2>1, <2>4, Zenon
<1>6. rp' = GrantRead(A, B, pop)
  BY <1>1, Zenon DEF ReadSide
<1>7. readers[b] \in Readers /\ q \in RequestType
  BY DEF TypeOK, Readers
<1>8. q.addr \in Nat /\ q.len \in Nat
  BY <1>7 DEF RequestType
<1> DEFINE c == Wire(readers[b])
<1>9. c.addr = q.addr /\ c.len = q.len /\ c.plain = q.plain
  BY Zenon DEF Wire
<1>10. (Acceptable(c) <=> Acceptable(q)) /\ WordOf(c) = WordOf(q)
  BY <1>9, Zenon DEF Acceptable, WordOf
<1>11. WordOf(q) \in 0 .. Depth - 1
  <2>1. q.addr - Base \in Int
    BY <1>8, MemPortAssumption
  <2>2. QED
    BY <2>1, ModuloRangeInt, MemPortAssumption DEF WordOf
<1>12. PickB(A, B) = b
  BY <1>1, Zenon DEF PickB
<1>13. (~PickB(A, B)) = ~b
  BY <1>12
<1>14. rp' = [s EXCEPT !.toB = b, !.preferB = ~b, !.word = WordOf(c), !.issueLeft = c.len + 1,
                       !.popLeft = c.len + 1, !.state = IF Acceptable(c) THEN "BURST" ELSE "ERROR"]
  BY <1>1, <1>6, <1>12, <1>13, Zenon DEF GrantRead
<1> DEFINE st == IF Acceptable(c) THEN "BURST" ELSE "ERROR"
<1>15. st \in {"IDLE", "BURST", "ERROR"} /\ st = IF Acceptable(q) THEN "BURST" ELSE "ERROR"
  BY <1>10, Zenon
<1>16. (~b) \in BOOLEAN
  OBVIOUS
<1> DEFINE nb == ~b
           wd == WordOf(c)
           n == q.len + 1
<1>17. rp' = [s EXCEPT !.toB = b, !.preferB = nb, !.word = wd, !.issueLeft = n,
                       !.popLeft = n, !.state = st]
  BY <1>9, <1>14, Zenon
<1>18. wd \in 0 .. Depth - 1 /\ wd = WordOf(q) /\ nb \in BOOLEAN
  BY <1>10, <1>11, <1>16, Zenon
<1>21. n \in Nat
  BY <1>8
<1> HIDE DEF s, q, c, pop, st, nb, wd, n
<1>19. /\ rp' \in ReadSides
       /\ rp'.toB = b /\ rp'.preferB = nb
       /\ rp'.word = wd
       /\ rp'.issueLeft = n /\ rp'.popLeft = n
       /\ rp'.count = s.count /\ rp'.pending = s.pending
       /\ rp'.state = st
  BY <1>5, <1>15, <1>17, <1>18, <1>21 DEF ReadSides
<1>20. QED
  BY <1>5, <1>15, <1>18, <1>19, Zenon DEF nb, q, n

(* A beat leaves the port. *)
Gone(rA, rB) == OutPop(rA, rB) \/ ErrPop(rA, rB)

(* The read side after any other clock: Stream, and one beat less to give. *)
LEMMA ServeStep ==
  ASSUME TypeOK, BeatsLeft, FifoIdle, FifoRight, ~StartRead(A, B),
         NEW rA, NEW rB, ReadSide(A, B, rA, rB)
  PROVE  /\ rp' \in ReadSides /\ Stream(OutPop(rA, rB)) \in ReadSides
         /\ rp'.state = IF Gone(rA, rB) /\ rp.popLeft = 1 THEN "IDLE" ELSE rp.state
         /\ rp'.popLeft = IF Gone(rA, rB) THEN rp.popLeft - 1 ELSE rp.popLeft
         /\ rp' = [Stream(OutPop(rA, rB)) EXCEPT !.state = rp'.state, !.popLeft = rp'.popLeft]
<1> SUFFICES ASSUME NEW pop, pop = OutPop(rA, rB), NEW gone, gone = Gone(rA, rB)
    PROVE  /\ rp' \in ReadSides /\ Stream(pop) \in ReadSides
           /\ rp'.state = IF gone /\ rp.popLeft = 1 THEN "IDLE" ELSE rp.state
           /\ rp'.popLeft = IF gone THEN rp.popLeft - 1 ELSE rp.popLeft
           /\ rp' = [Stream(pop) EXCEPT !.state = rp'.state, !.popLeft = rp'.popLeft]
  BY Zenon
<1> DEFINE s == Stream(pop)
<1>1. /\ pop \in BOOLEAN /\ gone \in BOOLEAN
      /\ pop => OutValid
      /\ gone => ReadBusy
  BY Zenon DEF OutPop, ErrPop, OutValid, ErrValid, ReadBusy, Gone
<1>2. rp \in ReadSides
  BY DEF TypeOK
<1>3. pop => rp.count > 0
  BY <1>1, <1>2 DEF OutValid, ReadSides
<1>4. rp.count - Bit(pop) + Bit(rp.pending) <= 2
  BY <1>1, <1>2 DEF FifoIdle, FifoRight, Bit, ReadSides
<1>5. s \in ReadSides /\ s.state = rp.state /\ s.popLeft = rp.popLeft
  BY <1>1, <1>3, <1>4, StreamTypes
<1>6. CASE gone
  <2>1. rp' = [s EXCEPT !.popLeft = s.popLeft - 1,
                        !.state = IF rp.popLeft = 1 THEN "IDLE" ELSE s.state]
    BY <1>6, Zenon DEF ReadSide, HandOver, Gone
  <2>2. rp.popLeft > 0
    BY <1>1, <1>6 DEF BeatsLeft
  <2> DEFINE left == s.popLeft - 1
             st == IF rp.popLeft = 1 THEN "IDLE" ELSE s.state
  <2>5. left \in Nat /\ left = rp.popLeft - 1
    BY <1>2, <1>5, <2>2 DEF ReadSides
  <2>6. st \in {"IDLE", "BURST", "ERROR"} /\ st = IF rp.popLeft = 1 THEN "IDLE" ELSE rp.state
    BY <1>2, <1>5 DEF ReadSides
  <2> HIDE DEF s, left, st
  <2>7. /\ rp' = [s EXCEPT !.popLeft = left, !.state = st]
    BY <2>1, Zenon DEF left, st
  <2>3. /\ rp' \in ReadSides
        /\ rp'.state = IF gone /\ rp.popLeft = 1 THEN "IDLE" ELSE rp.state
        /\ rp'.popLeft = IF gone THEN rp.popLeft - 1 ELSE rp.popLeft
        /\ rp' = [s EXCEPT !.state = rp'.state, !.popLeft = rp'.popLeft]
    BY <1>5, <1>6, <2>5, <2>6, <2>7 DEF ReadSides
  <2>4. QED
    BY <1>5, <2>3, Zenon DEF s
<1>7. CASE ~gone
  <2>1. rp' = s
    BY <1>7, Zenon DEF ReadSide, Gone
  <2> HIDE DEF s
  <2>2. /\ rp' \in ReadSides
        /\ rp'.state = IF gone /\ rp.popLeft = 1 THEN "IDLE" ELSE rp.state
        /\ rp'.popLeft = IF gone THEN rp.popLeft - 1 ELSE rp.popLeft
        /\ rp' = [s EXCEPT !.state = rp'.state, !.popLeft = rp'.popLeft]
    BY <1>5, <1>7, <2>1 DEF ReadSides
  <2>3. QED
    BY <1>5, <2>2, Zenon DEF s
<1>8. QED
  BY <1>1, <1>6, <1>7

-----------------------------------------------------------------------------
(* A master with no burst. *)
LEMMA AtRestFacts ==
  /\ \A m \in Rests : m \in Readers /\ m.phase \in {"idle", "ask"} /\ m.n = 0 /\ m.passed = 0
  /\ \A m \in WriterRests : m \in Writers /\ m.phase \in {"idle", "ask"} /\ m.n = 0 /\ ~m.bad
<1>1. NoRequest \in RequestType
  BY DEF NoRequest, RequestType
<1>2. ASSUME NEW m \in Rests
      PROVE  m \in Readers /\ m.phase \in {"idle", "ask"} /\ m.n = 0 /\ m.passed = 0
  <2>1. CASE m = AtRest(NoRequest)
    BY <1>1, <2>1 DEF AtRest, Readers
  <2>2. ASSUME NEW q \in ReadRequests, m = Asking(q)
        PROVE  m \in Readers /\ m.phase \in {"idle", "ask"} /\ m.n = 0 /\ m.passed = 0
    <3>1. q \in RequestType
      BY MemBusAssumption
    <3>2. QED
      BY <2>2, <3>1 DEF Asking, AtRest, Readers
  <2>3. QED
    BY <2>1, <2>2 DEF Rests
<1>3. ASSUME NEW m \in WriterRests
      PROVE  m \in Writers /\ m.phase \in {"idle", "ask"} /\ m.n = 0 /\ ~m.bad
  <2>1. CASE m = WriterAtRest(NoRequest)
    BY <1>1, <2>1 DEF WriterAtRest, Writers
  <2>2. ASSUME NEW q \in WriteRequests, m = WriterAsking(q)
        PROVE  m \in Writers /\ m.phase \in {"idle", "ask"} /\ m.n = 0 /\ ~m.bad
    <3>1. q \in RequestType
      BY MemBusAssumption
    <3>2. QED
      BY <2>2, <3>1 DEF WriterAsking, WriterAtRest, Writers
  <2>3. QED
    BY <2>1, <2>2 DEF WriterRests
<1>4. QED
  BY <1>2, <1>3

(* What one clock may make of a reader o, by whether it is granted (g), the *)
(* other one is (h), a beat moves (v) and that beat is the last (l).        *)
ReaderMove(o, m, g, h, v, l) ==
  /\ m \in Readers
  /\ m.phase # "take" => m.n = 0
  /\ m.phase = "take" <=> (o.phase = "ask" /\ g) \/ (o.phase = "take" /\ ~(v /\ l))
  /\ m.phase = "take" => m.req = o.req /\ m.passed = o.passed
  /\ m.phase = "take" => m.n = o.n + IF o.phase = "take" THEN Bit(v) ELSE 0
  /\ m.phase # "take" /\ m.passed # 0 =>
       o.phase = "ask" /\ ~g /\ m.passed = o.passed + Bit(h)

LEMMA ReaderStep ==
  ASSUME TypeOK, Turns, Fresh, NEW b \in BOOLEAN, NEW rready, NEW m, m \in ReaderNext(b, rready)
  PROVE  ReaderMove(readers[b], m, Granted(b), Granted(~b), RValid(b) /\ rready, RLast)
<1> DEFINE o == readers[b]
           g == Granted(b)
           h == Granted(~b)
           v == RValid(b) /\ rready
           l == RLast
<1>1. o \in Readers /\ o.passed <= 1 /\ (o.phase # "take" => o.n = 0)
  BY DEF TypeOK, Turns, Fresh
<1>2. /\ o.phase = "idle" => m \in Rests
      /\ o.phase = "ask" => m = IF g THEN [o EXCEPT !.phase = "take"]
                                ELSE IF h THEN [o EXCEPT !.passed = IF @ = 2 THEN 2 ELSE @ + 1]
                                ELSE o
      /\ o.phase = "take" => IF ~v THEN m = o ELSE IF l THEN m \in Rests ELSE m = [o EXCEPT !.n = @ + 1]
  BY Zenon DEF ReaderNext
<1>3. SUFFICES ReaderMove(o, m, g, h, v, l)
  BY Zenon
<1> HIDE DEF o, g, h, v, l
<1>4. CASE m \in Rests /\ (o.phase = "idle" \/ (o.phase = "take" /\ v /\ l))
  <2>1. m \in Readers /\ m.phase \in {"idle", "ask"} /\ m.n = 0 /\ m.passed = 0
    BY <1>4, AtRestFacts
  <2>2. QED
    BY <1>1, <1>4, <2>1 DEF ReaderMove
<1>5. CASE o.phase = "ask"
  <2>1. CASE g
    BY <1>1, <1>2, <1>5, <2>1 DEF ReaderMove, Readers, Bit
  <2>2. CASE ~g /\ h
    BY <1>1, <1>2, <1>5, <2>2 DEF ReaderMove, Readers, Bit
  <2>3. CASE ~g /\ ~h
    BY <1>1, <1>2, <1>5, <2>3 DEF ReaderMove, Readers, Bit
  <2>4. QED
    BY <2>1, <2>2, <2>3
<1>6. CASE o.phase = "take" /\ ~(v /\ l)
  <2>1. CASE v
    BY <1>1, <1>2, <1>6, <2>1 DEF ReaderMove, Readers, Bit
  <2>2. CASE ~v
    BY <1>1, <1>2, <1>6, <2>2 DEF ReaderMove, Readers, Bit
  <2>3. QED
    BY <2>1, <2>2
<1>7. QED
  BY <1>1, <1>2, <1>4, <1>5, <1>6 DEF Readers

(* The write side and its master after a clock. *)
WriteRoles ==
  /\ wp.state = "IDLE" <=> writer.phase \in {"idle", "ask"}
  /\ wp.state = "DATA" <=> writer.phase = "send"
  /\ writer.phase \in {"idle", "ask"} => writer.n = 0 /\ ~writer.bad

LEMMA WriterStep ==
  ASSUME TypeOK, WriteRoles, WriteRight, NEW w \in WriteBeats, NEW bready \in BOOLEAN,
         WriteSide(A, B, C, w, bready), writer' \in WriterNext(w, bready)
  PROVE  /\ wp' \in WriteSides /\ writer' \in Writers
         /\ WriteRoles' /\ WriteRight'
         /\ WriteBusy' => WriteBusy \/ StartWrite(A, B, C)
<1> DEFINE q == writer.req
           err == ~Acceptable(q)
           misplaced == LastMisplaced(w)
<1>1. wp \in WriteSides /\ writer \in Writers /\ q \in RequestType
  BY DEF TypeOK, Writers
<1>2. q.addr \in Nat /\ q.len \in Nat
  BY <1>1 DEF RequestType
<1>3. C.addr = q.addr /\ C.len = q.len /\ C.plain = q.plain /\ (C.valid <=> writer.phase = "ask")
  BY Zenon DEF C, Wire
<1>4. CASE wp.state = "IDLE" /\ StartWrite(A, B, C)
  <2>1. C.valid
    BY <1>4 DEF StartWrite
  <2>2. writer.phase = "ask" /\ writer.n = 0 /\ ~writer.bad
    BY <1>3, <2>1 DEF WriteRoles
  <2>3. writer' = [writer EXCEPT !.phase = "send"]
    BY <1>4, <2>2 DEF WriterNext, CReady
  <2>4. wp' = [state |-> "DATA", word |-> WordOf(C), left |-> C.len + 1, err |-> ~Acceptable(C)]
    BY <1>4, Zenon DEF WriteSide
  <2>5. WordOf(C) = WordOf(q) /\ (Acceptable(C) <=> Acceptable(q)) /\ (~Acceptable(C)) = err
    BY <1>3, Zenon DEF WordOf, Acceptable
  <2> DEFINE word == WordOf(q)
             left == q.len + 1
  <2>6. word \in 0 .. Depth - 1
    <3>1. q.addr - Base \in Int
      BY <1>2, MemPortAssumption
    <3>2. QED
      BY <3>1, ModuloRangeInt, MemPortAssumption DEF WordOf
  <2>7. ~err => word = q.addr - Base
    <3>1. SUFFICES ASSUME Acceptable(q) PROVE word = q.addr - Base
      OBVIOUS
    <3>2. q.addr - Base \in 0 .. Depth - 1
      BY <1>2, <3>1, MemPortAssumption DEF Acceptable
    <3>3. QED
      BY <3>2, ModuloSmall, MemPortAssumption DEF WordOf
  <2>8. err \in BOOLEAN /\ left \in Nat \ {0} /\ left = q.len + 1
    <3>1. err \in BOOLEAN
      BY Zenon
    <3>2. QED
      BY <1>2, <3>1
  <2>9. wp' = [state |-> "DATA", word |-> word, left |-> left, err |-> err]
    BY <1>3, <2>4, <2>5, Zenon
  <2>10. err <=> ~Acceptable(q)
    OBVIOUS
  <2> HIDE DEF word, left, err
  <2>11. /\ wp' \in WriteSides
         /\ wp'.state = "DATA" /\ wp'.word = word /\ wp'.left = left /\ wp'.err = err
    BY <2>6, <2>8, <2>9 DEF WriteSides
  <2>12. /\ writer' \in Writers
         /\ writer'.phase = "send" /\ writer'.n = 0 /\ writer'.bad = FALSE /\ writer'.req = q
    BY <1>1, <2>2, <2>3 DEF Writers
  <2>13. WriteRoles'
    BY <2>11, <2>12 DEF WriteRoles
  <2>14. Acceptable(writer'.req) <=> ~err
    BY <2>10, <2>12
  <2>15. WriteRight'
    BY <1>2, <2>7, <2>8, <2>11, <2>12, <2>14, MemPortAssumption DEF WriteRight, WriteBusy
  <2>16. QED
    BY <1>4, <2>11, <2>12, <2>13, <2>15
<1>5. CASE wp.state = "IDLE" /\ ~StartWrite(A, B, C)
  <2>1. wp' = wp
    BY <1>5, Zenon DEF WriteSide
  <2>2. writer.phase = "ask" => writer' = writer
    BY <1>5 DEF WriterNext, CReady
  <2>3. writer.phase = "idle" => writer' \in WriterRests
    BY Zenon DEF WriterNext
  <2>4. writer.phase \in {"idle", "ask"}
    BY <1>5 DEF WriteRoles
  <2>5. writer' \in Writers /\ writer'.phase \in {"idle", "ask"} /\ writer'.n = 0 /\ ~writer'.bad
    BY <1>1, <2>2, <2>3, <2>4, AtRestFacts DEF WriteRoles
  <2>6. QED
    BY <1>1, <1>5, <2>1, <2>5 DEF WriteRoles, WriteRight, WriteBusy
<1>6. CASE wp.state = "DATA" /\ ~w.valid
  <2>1. wp' = wp
    BY <1>6, Zenon DEF WriteSide, WFire
  <2>2. writer' = writer
    BY <1>6 DEF WriterNext, WriteRoles
  <2>3. QED
    BY <1>1, <1>6, <2>1, <2>2 DEF WriteRoles, WriteRight, WriteBusy
<1>7. CASE wp.state = "DATA" /\ w.valid
  <2>1. w.last \in BOOLEAN
    <3>1. CASE w = Silence
      BY <3>1, Zenon DEF Silence
    <3>2. CASE w \in [valid : {TRUE}, data : Words, last : BOOLEAN]
      BY <3>2
    <3>3. QED
      BY <3>1, <3>2 DEF WriteBeats
  <2>2. writer.phase = "send" /\ wp.left > 0 /\ writer.n + wp.left = q.len + 1
    BY <1>7 DEF WriteRoles, WriteRight
  <2> DEFINE last == w.last
             final == wp.left = 1
             odd == last # final
             bad == writer.bad \/ odd
             wrong == wp.err \/ odd
             ends == last \/ final
             word == (wp.word + 1) % Depth
             left == wp.left - 1
             state == IF ends THEN "RESP" ELSE "DATA"
             phase == IF ends THEN "respond" ELSE "send"
  <2>3. final <=> writer.n = q.len
    BY <1>1, <1>2, <2>2 DEF WriteSides, Writers
  <2>4. final = (writer.n = q.len)
    BY <2>3
  <2>5. wp' = [wp EXCEPT !.word = word, !.left = left, !.err = wrong, !.state = state]
    BY <1>7, Zenon DEF WriteSide, WFire, LastMisplaced, BurstEnds
  <2>6. writer' = [writer EXCEPT !.n = writer.n + 1, !.bad = bad, !.phase = phase]
    BY <1>7, <2>2, <2>4, Zenon DEF WriterNext, WReady
  <2>7. word \in 0 .. Depth - 1
    <3>1. wp.word + 1 \in Int
      BY <1>1 DEF WriteSides
    <3>2. QED
      BY <3>1, ModuloRangeInt, MemPortAssumption
  <2>8. /\ bad \in BOOLEAN /\ wrong \in BOOLEAN
        /\ bad <=> writer.bad \/ odd
        /\ wrong <=> wp.err \/ odd
    BY Zenon
  <2>9. /\ state = IF ends THEN "RESP" ELSE "DATA"
        /\ phase = IF ends THEN "respond" ELSE "send"
        /\ left = wp.left - 1 /\ (final <=> wp.left = 1) /\ (final => ends)
    OBVIOUS
  <2>10. ~wrong /\ ~final => word = q.addr - Base + writer.n + 1
    <3>1. SUFFICES ASSUME ~wrong, ~final PROVE word = q.addr - Base + writer.n + 1
      OBVIOUS
    <3>2. Acceptable(q) /\ wp.word = q.addr - Base + writer.n
      BY <1>7, <2>8, <3>1 DEF WriteRight, WriteBusy
    <3> HIDE DEF final
    <3>3. writer.n + 1 <= q.len
      BY <1>1, <1>2, <2>2, <2>3, <3>1 DEF WriteSides, Writers
    <3>4. q.addr - Base + writer.n + 1 \in 0 .. Depth - 1
      BY <1>1, <1>2, <3>2, <3>3, MemPortAssumption DEF Acceptable, Writers
    <3>5. wp.word + 1 = q.addr - Base + writer.n + 1
      BY <1>1, <1>2, <3>2, MemPortAssumption DEF Writers
    <3>6. QED
      BY <3>4, <3>5, ModuloSmall, MemPortAssumption
  <2>11. wrong <=> ~Acceptable(q) \/ bad
    BY <1>7, <2>8, Zenon DEF WriteRight, WriteBusy
  <2>20. state \in {"IDLE", "DATA", "RESP"} /\ phase \in {"idle", "ask", "send", "respond"}
    BY Zenon
  <2>21. left \in Nat
    BY <1>1, <2>2 DEF WriteSides
  <2> DEFINE n == writer.n + 1
  <2>22. n \in Nat
    BY <1>1 DEF Writers
  <2> HIDE DEF last, final, odd, bad, wrong, ends, word, left, state, phase, n
  <2>12. /\ wp' \in WriteSides
         /\ wp'.state = state /\ wp'.word = word /\ wp'.left = left /\ wp'.err = wrong
    BY <1>1, <2>5, <2>7, <2>8, <2>20, <2>21 DEF WriteSides
  <2>13. /\ writer' \in Writers
         /\ writer'.phase = phase /\ writer'.n = writer.n + 1 /\ writer'.bad = bad /\ writer'.req = q
    <3>1. writer' = [writer EXCEPT !.n = n, !.bad = bad, !.phase = phase]
      BY <2>6, Zenon DEF n
    <3>2. writer' \in Writers /\ writer'.phase = phase /\ writer'.n = n /\ writer'.bad = bad /\ writer'.req = q
      BY <1>1, <2>8, <2>20, <2>22, <3>1 DEF Writers
    <3>3. QED
      BY <3>2, Zenon DEF n
  <2>14. WriteRoles'
    BY <2>9, <2>12, <2>13 DEF WriteRoles
  <2>15. Acceptable(writer'.req) <=> Acceptable(q)
    BY <2>13
  <2>16. WriteBusy' => (wp'.err <=> ~Acceptable(writer'.req) \/ writer'.bad)
    BY <2>11, <2>12, <2>13, <2>15
  <2>17. wp'.state = "DATA" =>
           /\ wp'.left > 0 /\ writer'.n + wp'.left = writer'.req.len + 1
           /\ ~wp'.err => wp'.word = writer'.req.addr - Base + writer'.n
    <3>1. SUFFICES ASSUME wp'.state = "DATA"
          PROVE  /\ wp'.left > 0 /\ writer'.n + wp'.left = writer'.req.len + 1
                 /\ ~wp'.err => wp'.word = writer'.req.addr - Base + writer'.n
      OBVIOUS
    <3>2. ~final
      BY <2>9, <2>12, <3>1
    <3>3. QED
      BY <1>1, <1>2, <2>2, <2>9, <2>10, <2>12, <2>13, <3>2, MemPortAssumption DEF WriteSides, Writers
  <2>18. WriteRight'
    BY <2>16, <2>17 DEF WriteRight
  <2>19. QED
    BY <1>7, <2>12, <2>13, <2>14, <2>18 DEF WriteBusy
<1>8. CASE wp.state = "RESP"
  <2>1. wp' = [wp EXCEPT !.state = IF bready THEN "IDLE" ELSE @]
    BY <1>8, Zenon DEF WriteSide
  <2>2. writer.phase = "respond"
    BY <1>1, <1>8 DEF WriteRoles, Writers
  <2>3. IF bready THEN writer' \in WriterRests ELSE writer' = writer
    BY <1>8, <2>2 DEF WriterNext, BValid
  <2>4. CASE bready
    <3>1. wp' \in WriteSides /\ wp'.state = "IDLE"
      BY <1>1, <2>1, <2>4 DEF WriteSides
    <3>2. QED
      BY <1>8, <2>3, <2>4, <3>1, AtRestFacts DEF WriteRoles, WriteRight, WriteBusy
  <2>5. CASE ~bready
    <3>1. wp' = wp
      BY <1>1, <2>1, <2>5 DEF WriteSides
    <3>2. QED
      BY <1>1, <1>8, <2>3, <2>5, <3>1 DEF WriteRoles, WriteRight, WriteBusy
  <2>6. QED
    BY <2>4, <2>5
<1>9. QED
  BY <1>1, <1>4, <1>5, <1>6, <1>7, <1>8 DEF WriteSides

-----------------------------------------------------------------------------
(* Both readers after a clock. *)
Ready(b, rA, rB) == IF b THEN rB ELSE rA

LEMMA ReadersStep ==
  ASSUME TypeOK, Turns, Fresh, NEW rA \in BOOLEAN, NEW rB \in BOOLEAN, NEW w, NEW bready,
         Cycle(rA, rB, w, bready)
  PROVE  /\ readers' \in [BOOLEAN -> Readers]
         /\ \A b \in BOOLEAN :
              ReaderMove(readers[b], readers'[b], Granted(b), Granted(~b),
                         RValid(b) /\ Ready(b, rA, rB), RLast)
<1>1. PICK x \in ReaderNext(FALSE, rA), y \in ReaderNext(TRUE, rB) :
         readers' = [b \in BOOLEAN |-> IF b THEN y ELSE x]
  BY Zenon DEF Cycle
<1>2. ASSUME NEW b \in BOOLEAN
      PROVE  readers'[b] \in ReaderNext(b, Ready(b, rA, rB))
  <2>1. readers'[b] = IF b THEN y ELSE x
    BY <1>1, Zenon
  <2>2. CASE b = TRUE
    BY <1>1, <2>1, <2>2, Zenon DEF Ready
  <2>3. CASE b = FALSE
    BY <1>1, <2>1, <2>3, Zenon DEF Ready
  <2>4. QED
    BY <2>2, <2>3
<1>3. ASSUME NEW b \in BOOLEAN
      PROVE  ReaderMove(readers[b], readers'[b], Granted(b), Granted(~b),
                        RValid(b) /\ Ready(b, rA, rB), RLast)
  BY <1>2, ReaderStep, Zenon
<1>4. \A b \in BOOLEAN : readers'[b] \in Readers
  BY <1>3, Zenon DEF ReaderMove
<1>5. QED
  BY <1>1, <1>3, <1>4, Zenon

(* What holds of the read side and its masters. *)
ReadRight ==
  /\ rp \in ReadSides
  /\ \A b \in BOOLEAN : readers[b].phase = "take" <=> ReadBusy /\ rp.toB = b
  /\ \A b \in BOOLEAN : readers[b].phase # "take" => readers[b].n = 0
  /\ BeatsLeft /\ FifoIdle /\ FifoRight /\ Turns

(* A grant starts a burst of the reader that asked, with nothing in the FIFO. *)
LEMMA GrantKeeps ==
  ASSUME IInv, NEW rA \in BOOLEAN, NEW rB \in BOOLEAN, NEW w, NEW bready,
         Cycle(rA, rB, w, bready), NEW g \in BOOLEAN, Granted(g)
  PROVE  ReadRight'
<1> USE DEF IInv
<1> DEFINE q == readers[g].req
<1>1. /\ StartRead(A, B) /\ readers[g].phase = "ask" /\ ~Granted(~g)
      /\ readers[~g].phase = "ask" => (rp.preferB <=> g)
  BY Grant
<1>2. rp.state = "IDLE"
  BY <1>1 DEF StartRead
<1>3. /\ rp' \in ReadSides
      /\ rp'.toB = g /\ rp'.preferB = ~g
      /\ rp'.word = WordOf(q)
      /\ rp'.issueLeft = q.len + 1 /\ rp'.popLeft = q.len + 1
      /\ rp'.count = 0 /\ ~rp'.pending
      /\ rp'.state = IF Acceptable(q) THEN "BURST" ELSE "ERROR"
  <2>1. ReadSide(A, B, rA, rB)
    BY DEF Cycle, Clock
  <2>2. QED
    BY <2>1, GrantStep, Zenon
<1>4. readers' \in [BOOLEAN -> Readers]
  BY ReadersStep, Zenon
<1>5. \A b \in BOOLEAN : ReaderMove(readers[b], readers'[b], Granted(b), Granted(~b),
                                   RValid(b) /\ Ready(b, rA, rB), RLast)
  BY ReadersStep, Zenon
<1>6. /\ readers'[g].phase = "take" /\ readers'[g].req = q /\ readers'[g].n = 0
      /\ readers'[g].passed = readers[g].passed
  <2>1. ReaderMove(readers[g], readers'[g], Granted(g), Granted(~g), RValid(g) /\ Ready(g, rA, rB), RLast)
    BY <1>5
  <2>2. readers[g].n = 0
    BY <1>1 DEF Fresh
  <2>3. readers[g].phase # "take"
    BY <1>1
  <2> DEFINE v == RValid(g) /\ Ready(g, rA, rB)
             m == readers'[g]
             o == readers[g]
  <2>4. ReaderMove(o, m, Granted(g), Granted(~g), v, RLast)
    BY <2>1
  <2> HIDE DEF v, m, o
  <2>5. m.phase = "take" /\ m.req = o.req /\ m.n = 0 /\ m.passed = o.passed
    BY <1>1, <2>2, <2>3, <2>4 DEF ReaderMove, o
  <2>6. QED
    BY <2>5 DEF m, o
<1>7. /\ readers'[~g].phase # "take" /\ readers'[~g].n = 0
      /\ readers'[~g].passed = 0 \/ (readers[~g].phase = "ask" /\ readers'[~g].passed = readers[~g].passed + 1)
  <2>1. (~g) \in BOOLEAN
    OBVIOUS
  <2> DEFINE v == RValid(~g) /\ Ready(~g, rA, rB)
             m == readers'[~g]
             o == readers[~g]
             h == Granted(~(~g))
  <2>2. ReaderMove(o, m, Granted(~g), h, v, RLast)
    BY <1>5, <2>1, Zenon
  <2>3. o.phase # "take"
    BY <1>2, <2>1, Zenon DEF Roles, ReadBusy
  <2>4. o \in Readers
    BY <2>1, Zenon DEF TypeOK
  <2> HIDE DEF v, m, o, h
  <2>5. Bit(h) = 1 \/ Bit(h) = 0
    BY DEF Bit
  <2>6. m.phase # "take" /\ m.n = 0
    BY <1>1, <2>2, <2>3 DEF ReaderMove
  <2>7. m.passed # 0 => o.phase = "ask" /\ m.passed = o.passed + Bit(h)
    BY <2>2, <2>6, Zenon DEF ReaderMove
  <2>8. h
    <3>1. CASE g = TRUE
      BY <3>1 DEF h
    <3>2. CASE g = FALSE
      BY <3>2 DEF h
    <3>3. QED
      BY <3>1, <3>2
  <2>9. Bit(h) = 1
    BY <2>8 DEF Bit
  <2>10. QED
    BY <2>6, <2>7, <2>9, Zenon DEF m, o
<1>8. \A b \in BOOLEAN : b = g \/ b = ~g
  OBVIOUS
<1>9. ReadBusy' /\ rp'.state # "IDLE"
  BY <1>3 DEF ReadBusy
<1>10. Taker' = readers'[g]
  BY <1>3, Zenon DEF Taker
<1>11. q \in RequestType /\ q.addr \in Nat /\ q.len \in Nat
  BY DEF TypeOK, Readers, RequestType
<1>12. ASSUME NEW b \in BOOLEAN
       PROVE  readers'[b].phase = "take" <=> ReadBusy' /\ rp'.toB = b
  <2>1. CASE b = g
    BY <1>3, <1>6, <1>9, <2>1, Zenon
  <2>2. CASE b = ~g
    <3>1. b # g
      BY <2>2
    <3>2. QED
      BY <1>3, <1>7, <2>2, <3>1, Zenon
  <2>3. QED
    BY <1>8, <2>1, <2>2
<1>13. ASSUME NEW b \in BOOLEAN, readers'[b].phase # "take"
       PROVE  readers'[b].n = 0
  BY <1>6, <1>7, <1>8, <1>13, Zenon
<1>14. BeatsLeft'
  <2>1. Acceptable(Taker'.req) <=> rp'.state = "BURST"
    BY <1>3, <1>6, <1>10
  <2>2. rp'.popLeft > 0 /\ Taker'.n + rp'.popLeft = Taker'.req.len + 1
    BY <1>3, <1>6, <1>10, <1>11
  <2>3. QED
    BY <2>1, <2>2 DEF BeatsLeft
<1>15. FifoIdle'
  BY <1>3 DEF FifoIdle
<1>16. FifoRight'
  <2>1. SUFFICES ASSUME Acceptable(q)
        PROVE  FifoRight'
    BY <1>3 DEF FifoRight
  <2>2. WordOf(q) = q.addr - Base
    <3>1. q.addr - Base \in 0 .. Depth - 1
      BY <1>11, <2>1, MemPortAssumption DEF Acceptable
    <3>2. QED
      BY <3>1, ModuloSmall, MemPortAssumption DEF WordOf
  <2>3. Bit(rp'.pending) = 0
    BY <1>3 DEF Bit
  <2>4. Taker'.req = q /\ Taker'.n = 0
    BY <1>6, <1>10
  <2>5. QED
    BY <1>3, <1>11, <2>2, <2>3, <2>4, MemPortAssumption DEF FifoRight
<1>17. Turns'
  <2>1. ASSUME NEW b \in BOOLEAN
        PROVE  /\ readers'[b].passed <= 1
               /\ readers'[b].phase = "ask" /\ readers'[b].passed = 1 => rp'.preferB = b
    <3>1. CASE b = g
      <4>1. readers[g].passed <= 1
        BY DEF Turns
      <4>2. QED
        BY <1>6, <3>1, <4>1
    <3>2. CASE b = ~g
      <4>1. readers[~g].phase = "ask" => readers[~g].passed = 0
        <5>1. SUFFICES ASSUME readers[~g].phase = "ask" PROVE readers[~g].passed = 0
          OBVIOUS
        <5>2. (~g) \in BOOLEAN /\ readers[~g] \in Readers
          BY DEF TypeOK
        <5>3. readers[~g].passed <= 1 /\ (readers[~g].passed = 1 => rp.preferB = ~g)
          BY <5>1, <5>2, Zenon DEF Turns
        <5>4. readers[~g].passed # 1
          BY <1>1, <5>1, <5>3
        <5>5. readers[~g].passed \in 0 .. 2
          BY <5>2 DEF Readers
        <5>6. QED
          BY <5>3, <5>4, <5>5
      <4>2. readers'[~g].passed <= 1
        BY <1>7, <4>1
      <4>3. QED
        BY <1>3, <3>2, <4>2, Zenon
    <3>3. QED
      BY <1>8, <3>1, <3>2
  <2>2. QED
    BY <2>1 DEF Turns
<1>18. QED
  BY <1>3, <1>12, <1>13, <1>14, <1>15, <1>16, <1>17, Zenon DEF ReadRight

-----------------------------------------------------------------------------
(* A clock without a grant, for the reader t that is being served: what     *)
(* moves, and what the registers become.                                    *)
Served(t, pop, gone, rA, rB) ==
  /\ t \in BOOLEAN /\ pop \in BOOLEAN /\ gone \in BOOLEAN
  /\ pop <=> gone /\ rp.state = "BURST"
  /\ gone /\ rp.state = "BURST" => rp.count > 0
  /\ RValid(t) /\ Ready(t, rA, rB) <=> gone
  /\ gone => (RLast <=> rp.popLeft = 1)
  /\ readers[t].phase = "take"
  /\ readers'[t].phase = "take" <=> ~(gone /\ rp.popLeft = 1)
  /\ readers'[t].phase = "take" => /\ readers'[t].req = readers[t].req
                                   /\ readers'[t].n = readers[t].n + Bit(gone)
                                   /\ readers'[t].passed = readers[t].passed
  /\ readers'[t].phase # "take" => readers'[t].n = 0 /\ readers'[t].passed = 0

LEMMA ServeFacts ==
  ASSUME IInv, NEW rA \in BOOLEAN, NEW rB \in BOOLEAN, NEW w, NEW bready,
         Cycle(rA, rB, w, bready), ~StartRead(A, B), ReadBusy
  PROVE  Served(rp.toB, OutPop(rA, rB), Gone(rA, rB), rA, rB)
<1> SUFFICES ASSUME NEW t, t = rp.toB, NEW pop, pop = OutPop(rA, rB),
                    NEW gone, gone = Gone(rA, rB)
    PROVE  Served(t, pop, gone, rA, rB)
  BY Zenon
<1> USE DEF IInv
<1>1. t \in BOOLEAN /\ rp \in ReadSides /\ readers[t] \in Readers
  <2>1. rp.toB \in BOOLEAN /\ rp \in ReadSides
    BY DEF TypeOK, ReadSides
  <2>2. QED
    BY <2>1, Zenon DEF TypeOK
<1>2. Ready(t, rA, rB) <=> SelReady(rA, rB)
  BY Zenon DEF Ready, SelReady
<1>3. RValid(t) <=> OutValid \/ ErrValid
  BY Zenon DEF RValid
<1>4. /\ pop <=> OutValid /\ SelReady(rA, rB)
      /\ gone <=> pop \/ (ErrValid /\ SelReady(rA, rB))
      /\ pop \in BOOLEAN /\ gone \in BOOLEAN
  BY Zenon DEF OutPop, ErrPop, Gone
<1>5. /\ OutValid <=> rp.state = "BURST" /\ rp.count # 0
      /\ ErrValid <=> rp.state = "ERROR"
  BY Zenon DEF OutValid, ErrValid
<1>6. RValid(t) /\ Ready(t, rA, rB) <=> gone
  BY <1>2, <1>3, <1>4, Zenon
<1>7. (pop <=> gone /\ rp.state = "BURST") /\ (gone /\ rp.state = "BURST" => rp.count > 0)
  <2>1. "BURST" # "ERROR"
    OBVIOUS
  <2>2. pop <=> gone /\ rp.state = "BURST"
    BY <1>4, <1>5, <2>1, Zenon
  <2>3. rp.count \in 0 .. 2
    BY <1>1 DEF ReadSides
  <2>4. gone /\ rp.state = "BURST" => rp.count # 0
    BY <1>4, <1>5, <2>1, Zenon
  <2>5. QED
    BY <2>2, <2>3, <2>4
<1>8. readers[t].phase = "take"
  BY <1>1, Zenon DEF Roles
<1>9. Taker = readers[t]
  BY Zenon DEF Taker
<1>10. ASSUME gone
       PROVE  RLast <=> rp.popLeft = 1
  <2>1. CASE rp.state = "ERROR"
    BY <1>5, <2>1, Zenon DEF RLast
  <2>2. CASE rp.state = "BURST"
    <3>1. rp.last[rp.head] <=> Taker.n = Taker.req.len
      BY <1>7, <1>10, <2>2, Zenon DEF FifoRight
    <3>2. Taker.n + rp.popLeft = Taker.req.len + 1
      BY DEF BeatsLeft
    <3>3. Taker.n \in Nat /\ Taker.req.len \in Nat /\ rp.popLeft \in Nat
      BY <1>1, <1>9 DEF Readers, RequestType, ReadSides
    <3>4. Taker.n = Taker.req.len <=> rp.popLeft = 1
      BY <3>2, <3>3
    <3>5. ~ErrValid
      BY <1>5, <2>2
    <3>6. QED
      BY <3>1, <3>4, <3>5, Zenon DEF RLast
  <2>3. QED
    BY <1>1, <2>1, <2>2 DEF ReadSides, ReadBusy
<1>11. ~Granted(t)
  BY <1>1, Grant
<1> DEFINE o == readers[t]
           m == readers'[t]
           v == RValid(t) /\ Ready(t, rA, rB)
           h == Granted(~t)
           l == RLast
<1>12. ReaderMove(o, m, Granted(t), h, v, l)
  BY <1>1, ReadersStep, Zenon
<1>13. v <=> gone
  BY <1>6
<1>14. Bit(v) = Bit(gone)
  BY <1>13, Zenon DEF Bit
<1>15. gone => (l <=> rp.popLeft = 1)
  BY <1>10
<1>16. o.phase = "take" /\ o \in Readers
  BY <1>1, <1>8
<1> HIDE DEF o, m, v, h, l
<1>17. m.phase = "take" <=> ~(gone /\ rp.popLeft = 1)
  BY <1>12, <1>13, <1>15, <1>16 DEF ReaderMove
<1>18. m.phase = "take" => m.req = o.req /\ m.n = o.n + Bit(gone) /\ m.passed = o.passed
  BY <1>12, <1>14, <1>16 DEF ReaderMove
<1>19. m.phase # "take" => m.n = 0 /\ m.passed = 0
  BY <1>12, <1>16 DEF ReaderMove
<1>20. QED
  BY <1>1, <1>4, <1>6, <1>7, <1>8, <1>10, <1>17, <1>18, <1>19, Zenon DEF o, m, Served

(* A reader that is not served and not granted waits or asks. *)
LEMMA OtherReaders ==
  ASSUME IInv, NEW rA \in BOOLEAN, NEW rB \in BOOLEAN, NEW w, NEW bready,
         Cycle(rA, rB, w, bready), ~StartRead(A, B), NEW b \in BOOLEAN, readers[b].phase # "take"
  PROVE  /\ readers'[b].phase # "take" /\ readers'[b].n = 0
         /\ \/ readers'[b].passed = 0
            \/ readers[b].phase = "ask" /\ readers'[b].passed = readers[b].passed
<1> USE DEF IInv
<1> DEFINE o == readers[b]
           m == readers'[b]
           v == RValid(b) /\ Ready(b, rA, rB)
           g == Granted(b)
           h == Granted(~b)
           l == RLast
<1>1. ReaderMove(o, m, g, h, v, l)
  BY ReadersStep, Zenon
<1>2. ~g
  BY Grant
<1>3. ~h
  <2>1. (~b) \in BOOLEAN
    OBVIOUS
  <2>2. QED
    BY <2>1, Grant, Zenon
<1>4. o \in Readers /\ o.phase # "take"
  BY DEF TypeOK
<1> HIDE DEF o, m, v, g, h, l
<1>5. Bit(h) = 0
  BY <1>3 DEF Bit
<1>6. m.phase # "take" /\ m.n = 0
  BY <1>1, <1>2, <1>4 DEF ReaderMove
<1>7. m.passed # 0 => o.phase = "ask" /\ m.passed = o.passed
  BY <1>1, <1>4, <1>5, <1>6 DEF ReaderMove, Readers
<1>8. QED
  BY <1>6, <1>7, Zenon DEF o, m

(* While a burst is read, the RAM stands still and returns the word asked for. *)
LEMMA RamStands ==
  ASSUME IInv, NEW rA \in BOOLEAN, NEW rB \in BOOLEAN, NEW w, NEW bready,
         Cycle(rA, rB, w, bready), ReadBusy
  PROVE  ram' = ram /\ rdata' = ram[rp.word]
<1>1. wp.state = "IDLE"
  BY DEF IInv, Roles, WriteBusy
<1>2. ~WriteEnable(w) /\ MemAddr = rp.word
  BY <1>1 DEF WriteEnable, WFire, MemAddr
<1>3. QED
  BY <1>2 DEF Cycle, Clock, Memory

(* The registers of the FIFO after a clock of a burst. *)
LEMMA FifoRegisters ==
  ASSUME IInv, NEW rA \in BOOLEAN, NEW rB \in BOOLEAN, NEW w, NEW bready,
         Cycle(rA, rB, w, bready), rp.state = "BURST"
  PROVE  LET pop == OutPop(rA, rB) IN
         /\ rp' \in ReadSides /\ rp'.toB = rp.toB /\ rp'.preferB = rp.preferB
         /\ rp'.state = IF pop /\ rp.popLeft = 1 THEN "IDLE" ELSE "BURST"
         /\ rp'.popLeft = IF pop THEN rp.popLeft - 1 ELSE rp.popLeft
         /\ rp'.count = rp.count - Bit(pop) + Bit(rp.pending)
         /\ rp'.pending <=> Issue(pop)
         /\ rp'.pendingLast <=> Issue(pop) /\ rp.issueLeft = 1
         /\ rp'.word = IF Issue(pop) THEN (rp.word + 1) % Depth ELSE rp.word
         /\ rp'.issueLeft = IF Issue(pop) THEN rp.issueLeft - 1 ELSE rp.issueLeft
         /\ rp'.head = HeadAfterPop(pop)
         /\ \A i \in 0 .. 1 :
              /\ rp'.data[i] = IF rp.pending /\ i = PushSlot(pop) THEN rdata ELSE rp.data[i]
              /\ rp'.last[i] <=> IF rp.pending /\ i = PushSlot(pop) THEN rp.pendingLast ELSE rp.last[i]
<1> USE DEF IInv
<1>1. ReadBusy /\ ~StartRead(A, B)
  BY DEF ReadBusy, StartRead
<1> DEFINE pop == OutPop(rA, rB)
           gone == Gone(rA, rB)
           s == Stream(pop)
<1>2. pop \in BOOLEAN /\ (pop <=> gone) /\ (pop => rp.count > 0)
  <2>1. Served(rp.toB, pop, gone, rA, rB)
    BY <1>1, ServeFacts, Zenon
  <2>2. rp.state = "BURST"
    OBVIOUS
  <2>3. QED
    BY <2>1, <2>2, Zenon DEF Served
<1>3. ReadSide(A, B, rA, rB)
  BY DEF Cycle, Clock
<1>4. /\ rp' \in ReadSides /\ s \in ReadSides
      /\ rp'.state = IF gone /\ rp.popLeft = 1 THEN "IDLE" ELSE rp.state
      /\ rp'.popLeft = IF gone THEN rp.popLeft - 1 ELSE rp.popLeft
      /\ rp' = [s EXCEPT !.state = rp'.state, !.popLeft = rp'.popLeft]
  BY <1>1, <1>3, ServeStep, Zenon
<1>5. rp.count - Bit(pop) + Bit(rp.pending) <= 2
  <2>1. rp \in ReadSides
    BY DEF TypeOK
  <2>2. QED
    BY <1>2, <2>1 DEF FifoRight, Bit, ReadSides
<1>6. /\ s.toB = rp.toB /\ s.preferB = rp.preferB
      /\ s.count = rp.count - Bit(pop) + Bit(rp.pending)
      /\ s.pending <=> Issue(pop)
      /\ s.pendingLast <=> Issue(pop) /\ rp.issueLeft = 1
      /\ s.word = IF Issue(pop) THEN (rp.word + 1) % Depth ELSE rp.word
      /\ s.issueLeft = IF Issue(pop) THEN rp.issueLeft - 1 ELSE rp.issueLeft
      /\ s.head = HeadAfterPop(pop)
      /\ \A i \in 0 .. 1 :
           /\ s.data[i] = IF rp.pending /\ i = PushSlot(pop) THEN rdata ELSE rp.data[i]
           /\ s.last[i] <=> IF rp.pending /\ i = PushSlot(pop) THEN rp.pendingLast ELSE rp.last[i]
  BY <1>2, <1>5, StreamTypes, Zenon
<1> HIDE DEF s
<1>7. /\ rp'.toB = s.toB /\ rp'.preferB = s.preferB /\ rp'.count = s.count
      /\ rp'.pending = s.pending /\ rp'.pendingLast = s.pendingLast /\ rp'.word = s.word
      /\ rp'.issueLeft = s.issueLeft /\ rp'.head = s.head /\ rp'.data = s.data /\ rp'.last = s.last
  BY <1>4 DEF ReadSides
<1>8. rp'.state = IF pop /\ rp.popLeft = 1 THEN "IDLE" ELSE "BURST"
  BY <1>2, <1>4
<1>9. rp'.popLeft = IF pop THEN rp.popLeft - 1 ELSE rp.popLeft
  BY <1>2, <1>4
<1>10. QED
  BY <1>4, <1>6, <1>7, <1>8, <1>9, Zenon

(* The FIFO after a clock of a burst: the same words, one step further. *)
LEMMA FifoStep ==
  ASSUME IInv, NEW rA \in BOOLEAN, NEW rB \in BOOLEAN, NEW w, NEW bready,
         Cycle(rA, rB, w, bready), rp.state = "BURST"
  PROVE  FifoRight' /\ FifoIdle'
<1> USE DEF IInv
<1> DEFINE t == rp.toB
           pop == OutPop(rA, rB)
           gone == Gone(rA, rB)
           q == Taker.req
           n == Taker.n
<1>1. ReadBusy /\ ~StartRead(A, B)
  BY DEF ReadBusy, StartRead
<1>2. /\ t \in BOOLEAN /\ pop \in BOOLEAN
      /\ (pop <=> gone) /\ (pop => rp.count > 0)
      /\ readers'[t].phase = "take" <=> ~(gone /\ rp.popLeft = 1)
      /\ readers'[t].phase = "take" => /\ readers'[t].req = readers[t].req
                                       /\ readers'[t].n = readers[t].n + Bit(gone)
  <2>1. Served(t, pop, gone, rA, rB)
    BY <1>1, ServeFacts, Zenon
  <2>2. QED
    BY <2>1, Zenon DEF Served
<1>3. ram' = ram /\ rdata' = ram[rp.word]
  BY <1>1, RamStands, Zenon
<1>4. /\ rp.count \in 0 .. 2 /\ rp.head \in 0 .. 1 /\ rp.issueLeft \in Nat /\ rp.popLeft \in Nat
      /\ rp.pending \in BOOLEAN /\ rp.word \in 0 .. Depth - 1
      /\ q.addr \in Nat /\ q.len \in Nat /\ n \in Nat
  <2>1. rp \in ReadSides /\ Taker \in Readers
    BY <1>2, Zenon DEF TypeOK, Taker
  <2>2. QED
    BY <2>1 DEF ReadSides, Readers, RequestType
<1>5. /\ rp.count + Bit(rp.pending) <= 2
      /\ rp.count + Bit(rp.pending) + rp.issueLeft = rp.popLeft
      /\ n + rp.popLeft = q.len + 1 /\ rp.popLeft > 0 /\ Acceptable(q)
  BY <1>1 DEF FifoRight, BeatsLeft
<1>6. q.addr >= Base /\ q.addr + q.len < Base + Depth
  BY <1>5 DEF Acceptable
<1> DEFINE c == rp.count
           i == rp.issueLeft
           p == Bit(rp.pending)
           d == Bit(pop)
           issue == Issue(pop)
           first == HeadAfterPop(pop)
           slot == PushSlot(pop)
<1>7. /\ rp' \in ReadSides /\ rp'.toB = t
      /\ rp'.state = IF pop /\ rp.popLeft = 1 THEN "IDLE" ELSE "BURST"
      /\ rp'.popLeft = IF pop THEN rp.popLeft - 1 ELSE rp.popLeft
      /\ rp'.count = c - d + p
      /\ rp'.pending <=> issue
      /\ rp'.pendingLast <=> issue /\ i = 1
      /\ rp'.word = IF issue THEN (rp.word + 1) % Depth ELSE rp.word
      /\ rp'.issueLeft = IF issue THEN i - 1 ELSE i
      /\ rp'.head = first
      /\ \A k \in 0 .. 1 :
           /\ rp'.data[k] = IF rp.pending /\ k = slot THEN rdata ELSE rp.data[k]
           /\ rp'.last[k] <=> IF rp.pending /\ k = slot THEN rp.pendingLast ELSE rp.last[k]
  BY FifoRegisters, Zenon
<1>8. /\ issue <=> i # 0 /\ c + p - d < 2
      /\ first = IF pop THEN 1 - rp.head ELSE rp.head
      /\ slot = (first + c - d) % 2
  BY Zenon DEF Issue, Occupancy, HeadAfterPop, PushSlot
<1>9. /\ p = IF rp.pending THEN 1 ELSE 0
      /\ d = IF pop THEN 1 ELSE 0
      /\ c >= d
  BY <1>2, <1>4 DEF Bit
<1>10. /\ c > 0 => /\ rp.data[rp.head] = WordAt(n)
                   /\ rp.last[rp.head] <=> n = q.len
       /\ c > 1 => /\ rp.data[1 - rp.head] = WordAt(n + 1)
                   /\ rp.last[1 - rp.head] <=> n + 1 = q.len
       /\ rp.pending => /\ rdata = WordAt(n + c)
                        /\ rp.pendingLast <=> n + c = q.len
       /\ i > 0 => rp.word = q.addr - Base + n + c + p
  BY Zenon DEF FifoRight
<1>14. c + p <= 2 /\ c + p + i = rp.popLeft
  BY <1>5, Zenon DEF p
<1> HIDE DEF pop, issue, first, slot, p, d
<1>11. CASE pop /\ rp.popLeft = 1
  <2>1. c = 1 /\ p = 0 /\ i = 0
    BY <1>2, <1>4, <1>9, <1>11, <1>14
  <2>2. ~issue /\ c - d + p = 0
    BY <1>8, <1>9, <1>11, <2>1
  <2>3. rp'.state = "IDLE" /\ rp'.count = 0 /\ ~rp'.pending
    BY <1>7, <1>11, <2>2
  <2>4. QED
    BY <2>3 DEF FifoRight, FifoIdle
<1>12. CASE ~(pop /\ rp.popLeft = 1)
  <2>1. rp'.state = "BURST"
    BY <1>7, <1>12
  <2>2. Taker'.req = q /\ Taker'.n = n + d
    <3>1. readers'[t].req = readers[t].req /\ readers'[t].n = readers[t].n + Bit(gone)
      BY <1>2, <1>12
    <3>2. Bit(gone) = Bit(pop)
      BY <1>2, Zenon DEF Bit, pop
    <3>3. QED
      BY <1>7, <3>1, <3>2, Zenon DEF Taker, d, pop
  <2> DEFINE W(k) == ram[q.addr - Base + k]
  <2>3. /\ c > 0 => rp.data[rp.head] = W(n)
        /\ c > 1 => rp.data[1 - rp.head] = W(n + 1)
        /\ rp.pending => rdata = W(n + c)
    <3>1. WordAt(n) = W(n) /\ WordAt(n + 1) = W(n + 1) /\ WordAt(n + c) = W(n + c)
      BY DEF WordAt
    <3>2. /\ c > 0 => rp.data[rp.head] = WordAt(n)
          /\ c > 1 => rp.data[1 - rp.head] = WordAt(n + 1)
          /\ rp.pending => rdata = WordAt(n + c)
      BY Zenon DEF FifoRight
    <3> HIDE DEF W
    <3>3. QED
      BY <3>1, <3>2
  <2>4. issue => rdata' = W(n + c + p)
    <3>1. SUFFICES ASSUME issue PROVE ram[rp.word] = W(n + c + p)
      BY <1>3
    <3>2. rp.word = q.addr - Base + n + c + p
      BY <1>4, <1>8, <1>10, <3>1
    <3>3. rp.word = q.addr - Base + (n + c + p)
      BY <1>4, <1>9, <3>2, MemPortAssumption
    <3>4. QED
      BY <3>3
  <2>5. issue => (rp'.pendingLast <=> n + c + p = q.len)
    <3>1. issue => (i = 1 <=> n + c + p = q.len)
      BY <1>4, <1>5, <1>9, <1>14
    <3>2. QED
      BY <1>7, <3>1, Zenon
  <2>6. rp'.issueLeft > 0 =>
          rp'.word = q.addr - Base + (n + d) + rp'.count + (IF issue THEN 1 ELSE 0)
    <3>1. SUFFICES ASSUME rp'.issueLeft > 0
          PROVE  rp'.word = q.addr - Base + (n + d) + rp'.count + (IF issue THEN 1 ELSE 0)
      OBVIOUS
    <3>2. i > 0
      BY <1>4, <1>7, <3>1
    <3>3. rp.word = q.addr - Base + n + c + p
      BY <1>10, <3>2
    <3>4. CASE issue
      <4>1. i > 1
        BY <1>4, <1>7, <3>1, <3>4
      <4>2. rp.word + 1 \in 0 .. Depth - 1
        BY <1>4, <1>5, <1>6, <1>9, <1>14, <3>3, <4>1, MemPortAssumption
      <4>3. rp'.word = rp.word + 1
        BY <1>7, <3>4, <4>2, ModuloSmall, MemPortAssumption
      <4>4. QED
        BY <1>4, <1>7, <1>9, <3>3, <3>4, <4>3, MemPortAssumption
    <3>5. CASE ~issue
      BY <1>4, <1>7, <1>9, <3>3, <3>5, MemPortAssumption
    <3>6. QED
      BY <3>4, <3>5
  <2> HIDE DEF W
  <2>12. ASSUME NEW k \in 0 .. 1, rp.pending, k = slot
         PROVE  rp'.data[k] = W(n + c) /\ (rp'.last[k] <=> n + c = q.len)
    <3>1. rp'.data[k] = rdata /\ (rp'.last[k] <=> rp.pendingLast)
      BY <1>7, <2>12, Zenon
    <3>2. rdata = W(n + c)
      BY <2>3, <2>12
    <3>3. rp.pendingLast <=> n + c = q.len
      BY <1>10, <2>12, Zenon
    <3>4. QED
      BY <3>1, <3>2, <3>3, Zenon
  <2>13. ASSUME NEW k \in 0 .. 1, ~(rp.pending /\ k = slot)
         PROVE  rp'.data[k] = rp.data[k] /\ (rp'.last[k] <=> rp.last[k])
    BY <1>7, <2>13, Zenon
  <2>14. first \in 0 .. 1 /\ (1 - first) \in 0 .. 1
    BY <1>4, <1>8
  <2>7. c - d + p > 0 => /\ rp'.data[first] = W(n + d)
                         /\ rp'.last[first] <=> n + d = q.len
    <3>1. CASE pop /\ c = 1
      <4>1. SUFFICES ASSUME p > 0
            PROVE  rp'.data[first] = W(n + d) /\ (rp'.last[first] <=> n + d = q.len)
        BY <1>9, <3>1
      <4>2. rp.pending /\ first = slot /\ n + d = n + c
        BY <1>4, <1>8, <1>9, <3>1, <4>1
      <4>3. QED
        BY <2>12, <2>14, <4>2, Zenon
    <3>2. CASE pop /\ c = 2
      <4>1. ~rp.pending /\ first = 1 - rp.head /\ d = 1 /\ c > 1
        BY <1>4, <1>8, <1>9, <1>14, <3>2
      <4>2. QED
        BY <1>10, <2>3, <2>13, <2>14, <4>1, Zenon
    <3>3. CASE ~pop /\ c = 0
      <4>1. SUFFICES ASSUME p > 0
            PROVE  rp'.data[first] = W(n + d) /\ (rp'.last[first] <=> n + d = q.len)
        BY <1>9, <3>3
      <4>2. rp.pending /\ first = slot /\ n + d = n + c
        BY <1>4, <1>8, <1>9, <3>3, <4>1
      <4>3. QED
        BY <2>12, <2>14, <4>2, Zenon
    <3>4. CASE ~pop /\ c > 0
      <4>1. ~(rp.pending /\ first = slot) /\ first = rp.head /\ n + d = n
        BY <1>4, <1>8, <1>9, <1>14, <3>4
      <4>2. QED
        BY <1>10, <2>3, <2>13, <2>14, <3>4, <4>1, Zenon
    <3>5. c = 0 \/ c = 1 \/ c = 2
      BY <1>4
    <3>6. QED
      BY <1>9, <3>1, <3>2, <3>3, <3>4, <3>5
  <2>8. c - d + p > 1 => /\ rp'.data[1 - first] = W(n + d + 1)
                         /\ rp'.last[1 - first] <=> n + d + 1 = q.len
    <3>1. SUFFICES ASSUME c - d + p > 1
          PROVE  rp'.data[1 - first] = W(n + d + 1) /\ (rp'.last[1 - first] <=> n + d + 1 = q.len)
      OBVIOUS
    <3>2. ~pop /\ d = 0 /\ (c = 1 \/ c = 2)
      BY <1>4, <1>9, <1>14, <3>1
    <3>3. CASE c = 1
      <4>1. rp.pending /\ 1 - first = slot /\ n + d + 1 = n + c
        BY <1>4, <1>8, <1>9, <3>1, <3>2, <3>3
      <4>2. QED
        BY <2>12, <2>14, <4>1, Zenon
    <3>4. CASE c = 2
      <4>1. ~rp.pending /\ 1 - first = 1 - rp.head /\ n + d + 1 = n + 1 /\ c > 1
        BY <1>4, <1>8, <1>9, <1>14, <3>2, <3>4
      <4>2. QED
        BY <1>10, <2>3, <2>13, <2>14, <4>1, Zenon
    <3>5. QED
      BY <3>2, <3>3, <3>4
  <2>9. c - d + p + (IF issue THEN 1 ELSE 0) <= 2
    BY <1>4, <1>8, <1>9, <1>14
  <2>10. rp'.count + (IF issue THEN 1 ELSE 0) + rp'.issueLeft = rp'.popLeft
    <3>1. CASE pop
      BY <1>4, <1>7, <1>8, <1>9, <1>14, <3>1
    <3>2. CASE ~pop
      BY <1>4, <1>7, <1>8, <1>9, <1>14, <3>2
    <3>3. QED
      BY <3>1, <3>2
  <2>11. /\ WordAt(Taker.n)' = W(n + d)
         /\ WordAt(Taker.n + 1)' = W(n + d + 1)
         /\ WordAt(Taker.n + rp.count)' = W(n + d + rp'.count)
    BY <1>3, <2>2, Zenon DEF WordAt, W
  <2>15. Bit(rp'.pending) = IF issue THEN 1 ELSE 0
    BY <1>7, Zenon DEF Bit
  <2>16. rp'.count > 0 => /\ rp'.data[rp'.head] = WordAt(Taker.n)'
                          /\ rp'.last[rp'.head] <=> Taker'.n = Taker'.req.len
    BY <1>7, <2>2, <2>7, <2>11, Zenon
  <2>17. rp'.count > 1 => /\ rp'.data[1 - rp'.head] = WordAt(Taker.n + 1)'
                          /\ rp'.last[1 - rp'.head] <=> Taker'.n + 1 = Taker'.req.len
    BY <1>7, <2>2, <2>8, <2>11, Zenon
  <2>18. rp'.pending => /\ rdata' = WordAt(Taker.n + rp.count)'
                        /\ rp'.pendingLast <=> Taker'.n + rp'.count = Taker'.req.len
    <3>1. n + d + rp'.count = n + c + p
      BY <1>4, <1>7, <1>9
    <3>2. QED
      BY <1>7, <2>2, <2>4, <2>5, <2>11, <3>1, Zenon
  <2>19. rp'.issueLeft > 0 =>
           rp'.word = Taker'.req.addr - Base + Taker'.n + rp'.count + Bit(rp'.pending)
    BY <2>2, <2>6, <2>15, Zenon
  <2>20. /\ rp'.count + Bit(rp'.pending) <= 2
         /\ rp'.count + Bit(rp'.pending) + rp'.issueLeft = rp'.popLeft
    BY <1>7, <2>9, <2>10, <2>15, Zenon
  <2>21. FifoRight'
    BY <2>16, <2>17, <2>18, <2>19, <2>20, Zenon DEF FifoRight
  <2>22. FifoIdle'
    BY <2>1 DEF FifoIdle
  <2>23. QED
    BY <2>21, <2>22
<1>13. QED
  BY <1>11, <1>12

(* A clock without a grant keeps what holds of the read side. *)
LEMMA ServeKeeps ==
  ASSUME IInv, NEW rA \in BOOLEAN, NEW rB \in BOOLEAN, NEW w, NEW bready,
         Cycle(rA, rB, w, bready), ~StartRead(A, B)
  PROVE  ReadRight'
<1> DEFINE pop == OutPop(rA, rB)
           gone == Gone(rA, rB)
           t == rp.toB
<1>1. /\ rp' \in ReadSides /\ Stream(pop) \in ReadSides
      /\ rp'.state = IF gone /\ rp.popLeft = 1 THEN "IDLE" ELSE rp.state
      /\ rp'.popLeft = IF gone THEN rp.popLeft - 1 ELSE rp.popLeft
      /\ rp' = [Stream(pop) EXCEPT !.state = rp'.state, !.popLeft = rp'.popLeft]
  <2>1. ReadSide(A, B, rA, rB)
    BY DEF Cycle, Clock
  <2>2. QED
    BY <2>1, ServeStep, Zenon DEF IInv
<1>2. rp \in ReadSides /\ t \in BOOLEAN /\ readers \in [BOOLEAN -> Readers]
  BY DEF IInv, TypeOK, ReadSides
<1>3. pop \in BOOLEAN /\ (pop => OutValid) /\ (gone => ReadBusy)
  BY Zenon DEF OutPop, ErrPop, OutValid, ErrValid, ReadBusy, Gone
<1>4. rp.count - Bit(pop) + Bit(rp.pending) <= 2 /\ (pop => rp.count > 0)
  <2>1. rp.count \in 0 .. 2 /\ rp.state \in {"IDLE", "BURST", "ERROR"}
    BY <1>2 DEF ReadSides
  <2>2. pop => rp.count > 0
    BY <1>3, <2>1 DEF OutValid
  <2> HIDE DEF pop
  <2>3. QED
    BY <1>3, <2>1, <2>2 DEF IInv, FifoIdle, FifoRight, Bit
<1>5. /\ Stream(pop).toB = rp.toB /\ Stream(pop).preferB = rp.preferB
      /\ Stream(pop).count = rp.count - Bit(pop) + Bit(rp.pending)
      /\ Stream(pop).pending <=> Issue(pop)
  BY <1>3, <1>4, StreamTypes, Zenon DEF IInv
<1>6. /\ rp'.toB = t /\ rp'.preferB = rp.preferB
      /\ rp'.count = rp.count - Bit(pop) + Bit(rp.pending)
      /\ rp'.pending <=> Issue(pop)
  <2> DEFINE s == Stream(pop)
  <2> HIDE DEF s
  <2>1. rp'.toB = s.toB /\ rp'.preferB = s.preferB /\ rp'.count = s.count /\ rp'.pending = s.pending
    BY <1>1 DEF ReadSides, s
  <2>2. QED
    BY <1>5, <2>1, Zenon DEF s
<1>7. readers' \in [BOOLEAN -> Readers]
  BY ReadersStep, Zenon DEF IInv
<1>8. ASSUME NEW b \in BOOLEAN, readers[b].phase # "take"
      PROVE  /\ readers'[b].phase # "take" /\ readers'[b].n = 0
             /\ \/ readers'[b].passed = 0
                \/ readers[b].phase = "ask" /\ readers'[b].passed = readers[b].passed
  BY <1>8, OtherReaders, Zenon
<1>9. ReadBusy => Served(t, pop, gone, rA, rB)
  BY ServeFacts, Zenon
<1>10. \A b \in BOOLEAN : readers[b].phase = "take" <=> ReadBusy /\ t = b
  BY DEF IInv, Roles
<1>11. ReadBusy' <=> ReadBusy /\ ~(gone /\ rp.popLeft = 1)
  BY <1>1, <1>3 DEF ReadBusy
<1>12. ASSUME ReadBusy
       PROVE  /\ readers'[t].phase = "take" <=> ~(gone /\ rp.popLeft = 1)
              /\ readers'[t].phase = "take" => /\ readers'[t].req = readers[t].req
                                               /\ readers'[t].n = readers[t].n + Bit(gone)
                                               /\ readers'[t].passed = readers[t].passed
              /\ readers'[t].phase # "take" => readers'[t].n = 0 /\ readers'[t].passed = 0
  BY <1>9, <1>12, Zenon DEF Served
<1>13. ASSUME NEW b \in BOOLEAN
       PROVE  /\ readers'[b].phase = "take" <=> ReadBusy' /\ rp'.toB = b
              /\ readers'[b].phase # "take" => readers'[b].n = 0
  <2>1. CASE ReadBusy /\ t = b
    BY <1>6, <1>11, <1>12, <2>1, Zenon
  <2>2. CASE ~(ReadBusy /\ t = b)
    <3>1. readers[b].phase # "take"
      BY <1>10, <2>2, Zenon
    <3>2. ~(ReadBusy' /\ rp'.toB = b)
      BY <1>6, <1>11, <2>2, Zenon
    <3>3. QED
      BY <1>8, <3>1, <3>2, Zenon
  <2>3. QED
    BY <2>1, <2>2, Zenon
<1>14. BeatsLeft'
  <2>1. SUFFICES ASSUME ReadBusy'
        PROVE  /\ rp'.popLeft > 0
               /\ Taker'.n + rp'.popLeft = Taker'.req.len + 1
               /\ rp'.state = "BURST" <=> Acceptable(Taker'.req)
    BY Zenon DEF BeatsLeft
  <2>2. ReadBusy /\ ~(gone /\ rp.popLeft = 1) /\ rp'.state = rp.state
    BY <1>1, <1>11, <2>1
  <2>3. /\ rp.popLeft > 0 /\ Taker.n + rp.popLeft = Taker.req.len + 1
        /\ rp.state = "BURST" <=> Acceptable(Taker.req)
    BY <2>2 DEF IInv, BeatsLeft
  <2>4. Taker'.req = Taker.req /\ Taker'.n = Taker.n + Bit(gone)
    BY <1>6, <1>12, <2>2, Zenon DEF Taker
  <2>5. Taker \in Readers
    BY <1>2, Zenon DEF Taker
  <2>6. Taker.n \in Nat /\ Taker.req.len \in Nat /\ rp.popLeft \in Nat
    BY <1>2, <2>5 DEF Readers, RequestType, ReadSides
  <2> HIDE DEF gone
  <2>7. rp'.popLeft > 0 /\ Taker'.n + rp'.popLeft = Taker'.req.len + 1
    BY <1>1, <2>2, <2>3, <2>4, <2>6 DEF Bit
  <2>8. QED
    BY <2>2, <2>3, <2>4, <2>7, Zenon
<1>15. FifoRight' /\ FifoIdle'
  <2>1. CASE rp.state = "BURST"
    BY <2>1, FifoStep, Zenon
  <2>2. CASE rp.state # "BURST"
    <3>1. rp'.state # "BURST"
      BY <1>1, <2>2
    <3>2. rp.count = 0 /\ ~rp.pending
      BY <2>2, Zenon DEF IInv, FifoIdle
    <3>3. ~pop
      BY <1>4, <3>2
    <3>4. ~Issue(pop)
      BY <2>2, Zenon DEF Issue
    <3>5. rp'.count = 0 /\ ~rp'.pending
      BY <1>6, <3>2, <3>3, <3>4 DEF Bit
    <3>6. QED
      BY <3>1, <3>5, Zenon DEF FifoIdle, FifoRight
  <2>3. QED
    BY <2>1, <2>2
<1>16. Turns'
  <2>1. ASSUME NEW b \in BOOLEAN
        PROVE  /\ readers'[b].passed <= 1
               /\ readers'[b].phase = "ask" /\ readers'[b].passed = 1 => rp'.preferB = b
    <3>1. /\ readers[b].passed <= 1
          /\ readers[b].phase = "ask" /\ readers[b].passed = 1 => rp.preferB = b
      BY DEF IInv, Turns
    <3>2. CASE readers[b].phase # "take"
      BY <1>6, <1>8, <3>1, <3>2
    <3>3. CASE readers[b].phase = "take"
      <4>1. ReadBusy /\ t = b
        BY <1>10, <3>3, Zenon
      <4>2. CASE readers'[b].phase = "take"
        BY <1>12, <3>1, <4>1, <4>2
      <4>3. CASE readers'[b].phase # "take"
        BY <1>12, <4>1, <4>3
      <4>4. QED
        BY <4>2, <4>3
    <3>4. QED
      BY <3>2, <3>3
  <2>2. QED
    BY <2>1 DEF Turns
<1>17. QED
  BY <1>1, <1>13, <1>14, <1>15, <1>16, Zenon DEF ReadRight

-----------------------------------------------------------------------------
(* The RAM and its output register hold words. *)
LEMMA MemoryTypes ==
  ASSUME TypeOK, NEW w \in WriteBeats, Memory(w)
  PROVE  ram' \in [0 .. Depth - 1 -> Words] /\ rdata' \in Words
<1>1. MemAddr \in 0 .. Depth - 1
  BY DEF MemAddr, TypeOK, ReadSides, WriteSides
<1>2. w.valid => w.data \in Words
  <2>1. CASE w = Silence
    BY <2>1 DEF Silence, TypeOK
  <2>2. CASE w \in [valid : {TRUE}, data : Words, last : BOOLEAN]
    BY <2>2
  <2>3. QED
    BY <2>1, <2>2 DEF WriteBeats
<1>3. rdata' = ram[MemAddr]
  BY DEF Memory
<1>4. CASE WriteEnable(w)
  <2>1. w.data \in Words
    BY <1>2, <1>4 DEF WriteEnable, WFire
  <2>2. ram' = [ram EXCEPT ![MemAddr] = w.data]
    BY <1>4 DEF Memory
  <2>3. QED
    BY <1>1, <1>3, <2>1, <2>2 DEF TypeOK
<1>5. CASE ~WriteEnable(w)
  BY <1>1, <1>3, <1>5 DEF Memory, TypeOK
<1>6. QED
  BY <1>4, <1>5

LEMMA CycleKeeps ==
  ASSUME IInv, NEW rA \in BOOLEAN, NEW rB \in BOOLEAN, NEW w \in WriteBeats,
         NEW bready \in BOOLEAN, Cycle(rA, rB, w, bready)
  PROVE  IInv'
<1>1. ReadRight'
  <2>1. CASE StartRead(A, B)
    <3>1. PICK g \in BOOLEAN : Granted(g)
      BY <2>1, SomeGrant DEF IInv
    <3>2. QED
      BY <3>1, GrantKeeps
  <2>2. CASE ~StartRead(A, B)
    BY <2>2, ServeKeeps
  <2>3. QED
    BY <2>1, <2>2
<1>2. WriteRoles
  BY DEF IInv, Roles, Fresh, WriteRoles
<1>3. WriteSide(A, B, C, w, bready) /\ writer' \in WriterNext(w, bready) /\ Memory(w)
  BY DEF Cycle, Clock
<1>4. /\ wp' \in WriteSides /\ writer' \in Writers
      /\ WriteRoles' /\ WriteRight'
      /\ WriteBusy' => WriteBusy \/ StartWrite(A, B, C)
  BY <1>2, <1>3, WriterStep DEF IInv
<1>5. ram' \in [0 .. Depth - 1 -> Words] /\ rdata' \in Words
  BY <1>3, MemoryTypes DEF IInv
<1>6. readers' \in [BOOLEAN -> Readers]
  BY ReadersStep, Zenon DEF IInv
<1>7. TypeOK'
  BY <1>1, <1>4, <1>5, <1>6, Zenon DEF TypeOK, ReadRight
<1>8. ReadBusy' => ~WriteBusy'
  <2>1. ReadSide(A, B, rA, rB)
    BY DEF Cycle, Clock
  <2>2. ReadBusy' => ReadBusy \/ StartRead(A, B)
    <3>1. SUFFICES ASSUME ~ReadBusy, ~StartRead(A, B) PROVE ~ReadBusy'
      OBVIOUS
    <3>2. rp'.state = IF Gone(rA, rB) /\ rp.popLeft = 1 THEN "IDLE" ELSE rp.state
      BY <2>1, <3>1, ServeStep, Zenon DEF IInv
    <3>3. QED
      BY <3>1, <3>2 DEF ReadBusy
  <2>3. StartRead(A, B) => ~WriteBusy
    BY Zenon DEF StartRead
  <2>4. StartWrite(A, B, C) => ~ReadBusy /\ ~StartRead(A, B)
    BY Zenon DEF StartWrite
  <2>5. ReadBusy => ~WriteBusy
    BY Zenon DEF IInv, Roles
  <2>6. QED
    BY <1>4, <2>2, <2>3, <2>4, <2>5, Zenon
<1>9. Roles'
  BY <1>1, <1>4, <1>8, Zenon DEF Roles, ReadRight, WriteRoles
<1>10. Fresh'
  BY <1>1, <1>4, Zenon DEF Fresh, ReadRight, WriteRoles
<1>11. QED
  BY <1>1, <1>4, <1>7, <1>9, <1>10, Zenon DEF IInv, ReadRight

(* IInv holds of the reset state and is kept by every clock. *)
LEMMA Inductive == Spec => []IInv
<1>1. Init => IInv
  <2>1. SUFFICES ASSUME NEW x \in Words,
                        rp = ResetReadSide(x), wp = ResetWriteSide, rdata = x,
                        ram = [i \in 0 .. Depth - 1 |-> x],
                        readers = [b \in BOOLEAN |-> AtRest(NoRequest)],
                        writer = WriterAtRest(NoRequest)
        PROVE  IInv
    BY DEF Init
  <2>2. AtRest(NoRequest) \in Rests /\ WriterAtRest(NoRequest) \in WriterRests
    BY DEF Rests, WriterRests
  <2>3. \A b \in BOOLEAN : readers[b] = AtRest(NoRequest)
    BY <2>1, Zenon
  <2>4. \A b \in BOOLEAN : readers[b].phase = "idle" /\ readers[b].n = 0 /\ readers[b].passed = 0
    BY <2>3 DEF AtRest
  <2>5. readers \in [BOOLEAN -> Readers] /\ writer \in Writers
    BY <2>1, <2>2, AtRestFacts, Zenon
  <2>6. writer.phase = "idle" /\ writer.n = 0 /\ ~writer.bad
    BY <2>1 DEF WriterAtRest
  <2>7. 0 \in 0 .. Depth - 1
    BY MemPortAssumption
  <2>8. wp \in WriteSides /\ wp.state = "IDLE"
    BY <2>1, <2>7 DEF ResetWriteSide, WriteSides
  <2>9. rp \in ReadSides /\ rp.state = "IDLE" /\ rp.count = 0 /\ ~rp.pending
    BY <2>1, <2>7 DEF ResetReadSide, ReadSides
  <2>10. TypeOK
    BY <2>1, <2>5, <2>8, <2>9 DEF TypeOK
  <2>11. Roles /\ Fresh /\ BeatsLeft /\ FifoIdle /\ FifoRight /\ WriteRight /\ Turns
    BY <2>4, <2>6, <2>8, <2>9
       DEF Roles, Fresh, BeatsLeft, FifoIdle, FifoRight, WriteRight, Turns, ReadBusy, WriteBusy
  <2>12. QED
    BY <2>10, <2>11 DEF IInv
<1>2. IInv /\ [Next]_vars => IInv'
  <2>1. SUFFICES ASSUME IInv, [Next]_vars PROVE IInv'
    OBVIOUS
  <2>2. CASE Next
    <3>1. PICK rA \in BOOLEAN, rB \in BOOLEAN, bready \in BOOLEAN, w \in WriteBeats :
             Cycle(rA, rB, w, bready)
      BY <2>2, Zenon DEF Next
    <3>2. QED
      BY <2>1, <3>1, CycleKeeps
  <2>3. CASE UNCHANGED vars
    BY <2>1, <2>3 DEF vars, IInv, TypeOK, Roles, Fresh, BeatsLeft, FifoIdle, FifoRight, WriteRight,
       Turns, Taker, WordAt, ReadBusy, WriteBusy
  <2>4. QED
    BY <2>1, <2>2, <2>3
<1>3. QED
  BY <1>1, <1>2, PTL DEF Spec

(* Every beat a reader is offered is the next one of its burst, whatever the *)
(* stalls, and the FIFO never overflows.                                     *)
THEOREM BeatsAreRight == Spec => []BeatRight
<1>1. IInv => BeatRight
  <2>1. SUFFICES ASSUME IInv PROVE BeatRight
    OBVIOUS
  <2>2. rp \in ReadSides
    BY <2>1 DEF IInv, TypeOK
  <2>3. rp.count + Bit(rp.pending) <= 2
    BY <2>1, <2>2 DEF IInv, FifoRight, FifoIdle, Bit, ReadSides
  <2>4. ASSUME NEW b \in BOOLEAN, RValid(b)
        PROVE  /\ readers[b].phase = "take"
               /\ RLast = (readers[b].n = readers[b].req.len)
               /\ ROk = Acceptable(readers[b].req)
               /\ ROk => RData = ram[readers[b].req.addr - Base + readers[b].n]
    <3>1. rp.toB = b /\ (OutValid \/ ErrValid)
      BY <2>4, Zenon DEF RValid
    <3>2. ReadBusy
      BY <3>1 DEF OutValid, ErrValid, ReadBusy
    <3>3. readers[b].phase = "take" /\ readers[b] = Taker
      BY <2>1, <3>1, <3>2, Zenon DEF IInv, Roles, Taker
    <3>4. Taker \in Readers
      BY <2>1, <3>3, Zenon DEF IInv, TypeOK
    <3>5. Taker.n \in Nat /\ Taker.req.len \in Nat /\ rp.popLeft \in Nat
      BY <2>2, <3>4 DEF Readers, RequestType, ReadSides
    <3>6. Taker.n + rp.popLeft = Taker.req.len + 1 /\ (rp.state = "BURST" <=> Acceptable(Taker.req))
      BY <2>1, <3>2, Zenon DEF IInv, BeatsLeft
    <3>7. rp.popLeft = 1 <=> Taker.n = Taker.req.len
      BY <3>5, <3>6
    <3>8. CASE ErrValid
      <4>1. rp.state # "BURST"
        BY <3>8 DEF ErrValid
      <4>2. RLast <=> Taker.n = Taker.req.len
        BY <3>7, <3>8, Zenon DEF RLast
      <4>3. ~ROk /\ ~Acceptable(Taker.req)
        BY <3>6, <3>8, <4>1, Zenon DEF ROk
      <4>4. RLast \in BOOLEAN /\ ROk \in BOOLEAN /\ Acceptable(Taker.req) \in BOOLEAN
        BY <3>8, Zenon DEF RLast, ROk, Acceptable
      <4>5. QED
        BY <3>3, <4>2, <4>3, <4>4, Zenon
    <3>9. CASE ~ErrValid
      <4>1. rp.state = "BURST" /\ rp.count > 0
        BY <2>2, <3>1, <3>9 DEF OutValid, ReadSides
      <4>2. /\ rp.data[rp.head] = WordAt(Taker.n)
            /\ rp.last[rp.head] <=> Taker.n = Taker.req.len
        BY <2>1, <4>1, Zenon DEF IInv, FifoRight
      <4>3. ROk /\ Acceptable(Taker.req)
        BY <3>6, <3>9, <4>1, Zenon DEF ROk
      <4>4. rp.last[rp.head] \in BOOLEAN
        BY <2>2 DEF ReadSides
      <4>5. RLast = rp.last[rp.head] /\ RData = rp.data[rp.head]
        BY <3>9, Zenon DEF RLast, RData
      <4>6. QED
        BY <3>3, <4>2, <4>3, <4>4, <4>5, Zenon DEF WordAt, Acceptable, ROk
    <3>10. QED
      BY <3>8, <3>9
  <2>5. QED
    BY <2>3, <2>4, Zenon DEF BeatRight
<1>2. QED
  BY <1>1, Inductive, PTL

(* The response to a write tells whether it was taken whole and in order. *)
THEOREM ResponsesAreExact == Spec => []ResponseExact
<1>1. IInv => ResponseExact
  <2>1. SUFFICES ASSUME IInv, BValid
        PROVE  writer.phase = "respond" /\ BOk = (Acceptable(writer.req) /\ ~writer.bad)
    BY Zenon DEF ResponseExact
  <2>2. wp.state = "RESP"
    BY <2>1 DEF BValid
  <2>3. writer.phase = "respond"
    BY <2>1, <2>2 DEF IInv, TypeOK, Writers, Roles
  <2>4. wp.err <=> ~Acceptable(writer.req) \/ writer.bad
    BY <2>1, <2>2 DEF IInv, WriteRight, WriteBusy
  <2>5. QED
    BY <2>3, <2>4, Zenon DEF BOk, Acceptable
<1>2. QED
  BY <1>1, Inductive, PTL

(* Round robin: a waiting reader sees the other one granted at most once. *)
THEOREM BypassIsBounded == Spec => []BypassBounded
<1>1. IInv => BypassBounded
  BY DEF IInv, Turns, BypassBounded
<1>2. QED
  BY <1>1, Inductive, PTL

(* The RAM changes only at the writer's own next word, in a burst that lies *)
(* in the window.                                                           *)
THEOREM WritesAreOwn == Spec => OnlyOwnWrites
<1>1. IInv /\ [Next]_vars =>
        [\A i \in 0 .. Depth - 1 :
           ram'[i] # ram[i] => /\ writer.phase = "send"
                               /\ Acceptable(writer.req)
                               /\ i = writer.req.addr - Base + writer.n]_vars
  <2>1. SUFFICES ASSUME IInv, Next, NEW i \in 0 .. Depth - 1, ram'[i] # ram[i]
        PROVE  /\ writer.phase = "send"
               /\ Acceptable(writer.req)
               /\ i = writer.req.addr - Base + writer.n
    BY Zenon
  <2>2. PICK w : Memory(w)
    BY <2>1, Zenon DEF Next, Cycle, Clock
  <2>3. WriteEnable(w) /\ MemAddr = i
    BY <2>1, <2>2 DEF Memory, IInv, TypeOK
  <2>4. wp.state = "DATA" /\ ~wp.err
    BY <2>3 DEF WriteEnable, WFire
  <2>5. i = wp.word
    BY <2>3, <2>4 DEF MemAddr
  <2>6. QED
    BY <2>1, <2>4, <2>5 DEF IInv, Roles, WriteRight, WriteBusy
<1>2. QED
  BY <1>1, Inductive, PTL DEF Spec, OnlyOwnWrites
=============================================================================
