------------------------------ MODULE MlPacker -----------------------------
(***************************************************************************)
(* ml_int8_packer.sv: bias, requantize and ReLU an INT32 element, and pack *)
(* four results into one word.  One step is one clock edge.                *)
(***************************************************************************)
EXTENDS Integers

CONSTANT WordHalf    \* 2^31: half the range of a word

ASSUME MlPackerAssumption == WordHalf \in Nat \ {0}

VARIABLE pack     \* pack_q lane by lane, lane_q, out_valid_q and out_last_q

ResetPack == [word |-> [lane \in 0 .. 3 |-> 0], lane |-> 0, valid |-> FALSE, last |-> FALSE]

(* The 32 bits of x read as signed; its low byte as it lies in a word. *)
Signed(x) == ((x + WordHalf) % (2 * WordHalf)) - WordHalf

ByteBits(x) == x % 256

Saturate(x) ==
  IF x > 127 THEN 127 ELSE IF x < -128 THEN -128 ELSE x

(* x >>> s: the sign is kept, so each bit shifted out rounds down. *)
ShiftRight(x, s) ==
  LET by[i \in 0 .. s] == IF i = 0 THEN x ELSE by[i - 1] \div 2
  IN  by[s]

(* post is [bias, scale, relu, shift]; the product needs at most 64 bits. *)
Quantize(x, post) ==
  LET shifted == ShiftRight(Signed(x + post.bias) * post.scale, post.shift)
  IN  IF post.relu /\ shifted < 0 THEN 0 ELSE Saturate(shifted)

InReady(outReady) == ~pack.valid \/ outReady
OutLast == pack.valid /\ pack.last

BugPartialWord(last) == pack.lane = 3

Emits(last) == last \/ pack.lane = 3

(* A word leaves with its last lane; the lanes above it are zero. *)
Put(q, last) ==
  [word  |-> [i \in 0 .. 3 |-> IF i = pack.lane THEN ByteBits(q)
                               ELSE IF i > pack.lane /\ Emits(last) THEN 0
                               ELSE pack.word[i]],
   lane  |-> IF Emits(last) THEN 0 ELSE pack.lane + 1,
   valid |-> Emits(last),
   last  |-> last]

(* in is [valid, data, last]. *)
PackClock(in, post, outReady) ==
  pack' = IF in.valid /\ InReady(outReady) THEN Put(Quantize(in.data, post), in.last)
          ELSE [pack EXCEPT !.valid = @ /\ ~outReady]
=============================================================================
