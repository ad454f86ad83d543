--------------------------- MODULE SystolicArray ---------------------------
(***************************************************************************)
(* systolic_array.sv with its pe_mac.sv grid.  One step is one clock edge. *)
(* Row r's operands travel one line of r skew registers followed by the    *)
(* act_reg of PE(r,0) .. PE(r,N-1); column c's likewise, with wt_reg.      *)
(* Accumulators are integers: K products of two INT8 stay far inside the   *)
(* 32 bits of acc_reg for every K the engine admits.                       *)
(***************************************************************************)
EXTENDS Integers

CONSTANT N

ASSUME SystolicAssumption == N \in Nat \ {0}

VARIABLE arr     \* operand lines, newest register first, and accumulators

Lanes == 0 .. N - 1
LineOf(i) == 0 .. i + N - 1

ZeroLines == [i \in Lanes |-> [j \in LineOf(i) |-> 0]]
ZeroAcc == [p \in Lanes \X Lanes |-> 0]

ResetArray == [west |-> ZeroLines, north |-> ZeroLines, acc |-> ZeroAcc]

BugNoSkew(r, c) == arr.west[r][c]

(* The operands resident in PE(r,c). *)
ActReg(r, c) == arr.west[r][r + c]
WtReg(r, c) == arr.north[c][c + r]

Shifted(lines, in) ==
  [i \in Lanes |-> [j \in LineOf(i) |-> IF j = 0 THEN in[i] ELSE lines[i][j - 1]]]

LinesNext(lines, in, en, flush) ==
  IF flush THEN ZeroLines ELSE IF en THEN Shifted(lines, in) ELSE lines

BugClearAdds(en, clr) ==
  IF en \/ clr THEN [p \in Lanes \X Lanes |-> arr.acc[p] + ActReg(p[1], p[2]) * WtReg(p[1], p[2])]
  ELSE arr.acc

(* clr_acc and flush take priority over en. *)
AccNext(en, clr) ==
  IF clr THEN ZeroAcc
  ELSE IF en THEN [p \in Lanes \X Lanes |-> arr.acc[p] + ActReg(p[1], p[2]) * WtReg(p[1], p[2])]
  ELSE arr.acc

(* a and b are the words at the west and the north edge. *)
ArrayClock(en, clr, flush, a, b) ==
  arr' = [west  |-> LinesNext(arr.west, a, en, flush),
          north |-> LinesNext(arr.north, b, en, flush),
          acc   |-> AccNext(en, clr)]
=============================================================================
