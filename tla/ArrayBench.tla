----------------------------- MODULE ArrayBench ----------------------------
(***************************************************************************)
(* The systolic array under its input contract: after a clear, column k of *)
(* A and row k of B on enabled cycle k, then zeros; a cycle may be         *)
(* disabled at any time and a clear may cut a product short.               *)
(***************************************************************************)
EXTENDS SystolicArray

CONSTANTS
  K,          \* length of the reduction
  Peak,       \* largest magnitude of an operand: 128 for INT8
  Vectors     \* what a column of A or a row of B may be

ZeroVector == [i \in Lanes |-> 0]

ASSUME ArrayBenchAssumption ==
  /\ K \in Nat
  /\ Peak \in Nat
  /\ Vectors \subseteq [Lanes -> -Peak .. Peak]

VARIABLES
  t,       \* enabled cycles since the clear, up to Settled
  col,     \* col[k]: the column of A fed on cycle k
  row,     \* row[k]: the row of B fed on cycle k
  sum      \* sum[<<r, c>>][n]: the first n products of element (r,c) summed

arrayVars == <<arr, t, col, row, sum>>

(* From this cycle on nothing moves but zeros. *)
Settled == K + 2 * N

Feeds == 0 .. K - 1

Blank ==
  /\ t' = 0
  /\ col' = [k \in Feeds |-> ZeroVector]
  /\ row' = [k \in Feeds |-> ZeroVector]
  /\ sum' = [p \in Lanes \X Lanes |-> [n \in 0 .. K |-> 0]]

ArrayInit ==
  /\ arr = ResetArray
  /\ t = 0
  /\ col = [k \in Feeds |-> ZeroVector]
  /\ row = [k \in Feeds |-> ZeroVector]
  /\ sum = [p \in Lanes \X Lanes |-> [n \in 0 .. K |-> 0]]

FeedVectors == \E a, b \in Vectors :
  /\ t < K
  /\ ArrayClock(TRUE, FALSE, FALSE, a, b)
  /\ t' = t + 1
  /\ col' = [col EXCEPT ![t] = a]
  /\ row' = [row EXCEPT ![t] = b]
  /\ sum' = [p \in Lanes \X Lanes |->
              [sum[p] EXCEPT ![t + 1] = sum[p][t] + a[p[1]] * b[p[2]]]]

FeedZeros ==
  /\ t >= K
  /\ ArrayClock(TRUE, FALSE, FALSE, ZeroVector, ZeroVector)
  /\ t' = IF t < Settled THEN t + 1 ELSE t
  /\ UNCHANGED <<col, row, sum>>

Stall == \E a, b \in Vectors :
  ArrayClock(FALSE, FALSE, FALSE, a, b) /\ UNCHANGED <<t, col, row, sum>>

Clear == \E a, b \in Vectors, en \in BOOLEAN :
  ArrayClock(en, TRUE, TRUE, a, b) /\ Blank

ArrayNext == FeedVectors \/ FeedZeros \/ Stall \/ Clear

ArraySpec == ArrayInit /\ [][ArrayNext]_arrayVars

-----------------------------------------------------------------------------
(* The registers keep their range: no operand outgrows INT8 and, whenever   *)
(* a clear cuts a product short, no accumulator outgrows the sum of K       *)
(* products, which is what lets 32 bits hold it.                            *)
Operands == -Peak .. Peak
Sums(n) == -(n * (Peak * Peak)) .. n * (Peak * Peak)

TypeOK ==
  /\ t \in 0 .. Settled
  /\ \A i \in Lanes : /\ arr.west[i] \in [LineOf(i) -> Operands]
                      /\ arr.north[i] \in [LineOf(i) -> Operands]
  /\ arr.acc \in [Lanes \X Lanes -> Sums(K)]

(* docs/dataflow.md: a word waits r cycles at row r's edge and takes one per *)
(* hop, so PE(r,c) holds A[r][k] and B[k][c] in the same cycle, for every k, *)
(* and zeros outside the product.                                            *)
FedTo(vectors, lane, k) == IF k \in Feeds THEN vectors[k][lane] ELSE 0

OperandsAligned ==
  \A r, c \in Lanes :
    /\ ActReg(r, c) = FedTo(col, r, t - 1 - (r + c))
    /\ WtReg(r, c) = FedTo(row, c, t - 1 - (r + c))

(* Products PE(r,c) has summed: one for each operand pair it has let go. *)
Summed(r, c) ==
  LET n == t - 1 - (r + c) IN IF n < 0 THEN 0 ELSE IF n > K THEN K ELSE n

SumsOnTime == \A r, c \in Lanes : arr.acc[<<r, c>>] = sum[<<r, c>>][Summed(r, c)]

(* K cycles of operands and 2N-1 of zeros: then every PE holds its element *)
(* of the product, and goes on holding it.                                 *)
ProductReady ==
  t >= K + 2 * N - 1 => \A r, c \in Lanes : arr.acc[<<r, c>>] = sum[<<r, c>>][K]
=============================================================================
