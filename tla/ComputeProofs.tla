---------------------------- MODULE ComputeProofs ---------------------------
(***************************************************************************)
(* The compute paths.  Their array, under the input contract of            *)
(* ArrayBench: the schedule of docs/dataflow.md, for every size of array,  *)
(* length of reduction, operand width and operands.  The packer behind a   *)
(* path, in ComputeBench: the words it sends are the words epilogue()      *)
(* makes of the product, four elements to a word, as long as the path      *)
(* keeps its side of the stream.  And that either path keeps it, for every *)
(* job it is given.                                                        *)
(***************************************************************************)
EXTENDS ComputeBench, ArrayBench, Arithmetic

(* The registers exist, whatever they hold. *)
Shape ==
  /\ t \in 0 .. Settled
  /\ \A i \in Lanes : /\ arr.west[i] = [j \in LineOf(i) |-> arr.west[i][j]]
                      /\ arr.north[i] = [j \in LineOf(i) |-> arr.north[i][j]]
  /\ arr.acc = [p \in Lanes \X Lanes |-> arr.acc[p]]

(* The history is one of operands, and its sums are the sums of products. *)
HistoryTyped ==
  /\ col \in [Feeds -> [Lanes -> Operands]]
  /\ row \in [Feeds -> [Lanes -> Operands]]
  /\ sum \in [Lanes \X Lanes -> [0 .. K -> Int]]

SumsRight ==
  \A r, c \in Lanes :
    /\ sum[<<r, c>>][0] = 0
    /\ \A n \in Feeds :
         n < t => sum[<<r, c>>][n + 1] = sum[<<r, c>>][n] + col[n][r] * row[n][c]

SumsBounded == \A r, c \in Lanes, n \in 0 .. K : sum[<<r, c>>][n] \in Sums(n)

(* OperandsAligned for the whole of every line, skew registers included. *)
LinesRight ==
  \A i \in Lanes : \A j \in LineOf(i) :
    /\ arr.west[i][j] = FedTo(col, i, t - 1 - j)
    /\ arr.north[i][j] = FedTo(row, i, t - 1 - j)

IInv == Shape /\ HistoryTyped /\ SumsRight /\ SumsBounded /\ LinesRight /\ SumsOnTime

LEMMA ProductBound ==
  ASSUME NEW x \in Operands, NEW y \in Operands
  PROVE  -(Peak * Peak) <= x * y /\ x * y <= Peak * Peak
<1>1. Peak \in Nat
  BY ArrayBenchAssumption
<1>2. \A u, v, w \in Nat : u <= w /\ v <= w => u * v <= w * w
  BY Z3
<1>3. CASE x >= 0 /\ y >= 0
  BY <1>1, <1>2, <1>3, Z3 DEF Operands
<1>4. CASE x >= 0 /\ y < 0
  <2>1. x * (-y) <= Peak * Peak
    BY <1>1, <1>2, <1>4 DEF Operands
  <2>2. QED
    BY <2>1, <1>1, <1>4, Z3 DEF Operands
<1>5. CASE x < 0 /\ y >= 0
  <2>1. (-x) * y <= Peak * Peak
    BY <1>1, <1>2, <1>5 DEF Operands
  <2>2. QED
    BY <2>1, <1>1, <1>5, Z3 DEF Operands
<1>6. CASE x < 0 /\ y < 0
  <2>1. (-x) * (-y) <= Peak * Peak
    BY <1>1, <1>2, <1>6 DEF Operands
  <2>2. QED
    BY <2>1, <1>1, <1>6, Z3 DEF Operands
<1>7. QED
  BY <1>1, <1>3, <1>4, <1>5, <1>6 DEF Operands

LEMMA SumsGrow ==
  ASSUME NEW m \in Nat, NEW n \in Nat, m <= n, NEW s \in Sums(m)
  PROVE  s \in Sums(n)
<1>1. m * (Peak * Peak) <= n * (Peak * Peak)
  <2>1. Peak * Peak \in Nat
    BY ArrayBenchAssumption, Z3
  <2>2. \A u \in Nat : m * u <= n * u
    BY Z3
  <2>3. QED
    BY <2>1, <2>2
<1>2. m * (Peak * Peak) \in Int /\ n * (Peak * Peak) \in Int
  BY ArrayBenchAssumption, Z3
<1>3. QED
  BY <1>1, <1>2 DEF Sums

LEMMA SumsStep ==
  ASSUME NEW n \in Nat, NEW s \in Sums(n), NEW x \in Operands, NEW y \in Operands
  PROVE  s + x * y \in Sums(n + 1)
<1> DEFINE PP == Peak * Peak
           xy == x * y
<1>1. PP \in Int /\ xy \in Int /\ n * PP \in Int
  BY ArrayBenchAssumption, Z3 DEF Operands
<1>2. -PP <= xy /\ xy <= PP
  BY ProductBound
<1>3. (n + 1) * PP = n * PP + PP
  BY <1>1, Z3
<1>4. s \in Int /\ -(n * PP) <= s /\ s <= n * PP
  BY <1>1 DEF Sums
<1> DEFINE nPP == n * PP
<1>5. Sums(n + 1) = -(nPP + PP) .. (nPP + PP)
  BY <1>3 DEF Sums
<1>6. nPP \in Int /\ -nPP <= s /\ s <= nPP
  BY <1>1, <1>4
<1> HIDE DEF PP, xy, nPP
<1>7. s + xy \in -(nPP + PP) .. (nPP + PP)
  BY <1>1, <1>2, <1>4, <1>6
<1>8. QED
  BY <1>5, <1>7 DEF xy
(* What a fed vector holds, and that history only grows at the cycle it is at. *)
LEMMA FedTyped ==
  ASSUME HistoryTyped, NEW i \in Lanes, NEW k \in Int
  PROVE  FedTo(col, i, k) \in Operands /\ FedTo(row, i, k) \in Operands
<1>1. 0 \in Operands
  BY ArrayBenchAssumption DEF Operands
<1>2. CASE k \in Feeds
  BY <1>2 DEF FedTo, HistoryTyped
<1>3. CASE k \notin Feeds
  BY <1>1, <1>3 DEF FedTo
<1>4. QED
  BY <1>2, <1>3

LEMMA Indices ==
  /\ N \in Nat \ {0} /\ K \in Nat /\ Settled \in Nat
  /\ \A r, c \in Lanes : r \in Nat /\ c \in Nat /\ r + c <= 2 * N - 2 /\ r + c \in LineOf(r) /\ c + r \in LineOf(c)
BY SystolicAssumption, ArrayBenchAssumption DEF Settled, Lanes, LineOf

(* LinesRight, read at the registers of the PEs. *)
LEMMA Resident ==
  ASSUME LinesRight, NEW r \in Lanes, NEW c \in Lanes
  PROVE  /\ ActReg(r, c) = FedTo(col, r, t - 1 - (r + c))
         /\ WtReg(r, c) = FedTo(row, c, t - 1 - (r + c))
<1>1. r + c \in LineOf(r) /\ c + r \in LineOf(c) /\ c + r = r + c
  BY Indices
<1>2. arr.west[r][r + c] = FedTo(col, r, t - 1 - (r + c))
  BY <1>1 DEF LinesRight
<1>3. arr.north[c][c + r] = FedTo(row, c, t - 1 - (c + r))
  BY <1>1 DEF LinesRight
<1>4. QED
  BY <1>1, <1>2, <1>3 DEF ActReg, WtReg

LEMMA MeaningGivesType ==
  ASSUME IInv
  PROVE  TypeOK
<1> USE DEF IInv
<1>1. \A i \in Lanes : /\ arr.west[i] \in [LineOf(i) -> Operands]
                       /\ arr.north[i] \in [LineOf(i) -> Operands]
  <2> TAKE i \in Lanes
  <2>1. \A j \in LineOf(i) : arr.west[i][j] \in Operands /\ arr.north[i][j] \in Operands
    <3> TAKE j \in LineOf(i)
    <3>1. t \in Int
      BY Indices DEF Shape
    <3>2. j \in Int
      BY DEF LineOf
    <3>3. t - 1 - j \in Int
      BY <3>1, <3>2
    <3>4. QED
      BY <3>3, FedTyped DEF LinesRight
  <2>2. /\ arr.west[i] = [j \in LineOf(i) |-> arr.west[i][j]]
        /\ arr.north[i] = [j \in LineOf(i) |-> arr.north[i][j]]
    BY DEF Shape
  <2>3. QED
    BY <2>1, <2>2, Zenon
<1>2. arr.acc \in [Lanes \X Lanes -> Sums(K)]
  <2>1. ASSUME NEW r \in Lanes, NEW c \in Lanes
        PROVE  arr.acc[<<r, c>>] \in Sums(K)
    <3>1. Summed(r, c) \in 0 .. K
      BY Indices DEF Summed, Shape
    <3>2. sum[<<r, c>>][Summed(r, c)] \in Sums(Summed(r, c))
      BY <3>1 DEF SumsBounded
    <3>3. arr.acc[<<r, c>>] \in Sums(Summed(r, c))
      BY <3>2 DEF SumsOnTime
    <3>4. QED
      BY <3>1, <3>3, SumsGrow, Indices
  <2>2. \A p \in Lanes \X Lanes : arr.acc[p] \in Sums(K)
    BY <2>1
  <2>3. arr.acc = [p \in Lanes \X Lanes |-> arr.acc[p]]
    BY DEF Shape
  <2>4. QED
    BY <2>2, <2>3, Zenon
<1>3. QED
  BY <1>1, <1>2 DEF TypeOK, Shape

(* The meaning of a freshly cleared array. *)
FreshlyCleared ==
  /\ arr = ResetArray
  /\ t = 0
  /\ col = [k \in Feeds |-> ZeroVector]
  /\ row = [k \in Feeds |-> ZeroVector]
  /\ sum = [p \in Lanes \X Lanes |-> [n \in 0 .. K |-> 0]]

LEMMA Cleared ==
  ASSUME FreshlyCleared
  PROVE  IInv
<1> USE DEF FreshlyCleared
<1>1. Shape
  BY Indices DEF Shape, ResetArray, ZeroLines, ZeroAcc
<1>2. HistoryTyped
  BY ArrayBenchAssumption DEF HistoryTyped, ZeroVector, Operands
<1>3. SumsRight
  BY Indices DEF SumsRight, Feeds
<1>4. SumsBounded
  <2>1. Peak * Peak \in Nat
    BY ArrayBenchAssumption, Z3
  <2>2. \A u, n \in Nat : n * u \in Nat
    BY Z3
  <2>3. \A n \in 0 .. K : 0 \in Sums(n)
    BY <2>1, <2>2, Indices DEF Sums
  <2>4. QED
    BY <2>3 DEF SumsBounded
<1>5. LinesRight
  BY Indices DEF LinesRight, ResetArray, ZeroLines, FedTo, Feeds, LineOf
<1>6. SumsOnTime
  BY Indices DEF SumsOnTime, Summed, ResetArray, ZeroAcc
<1>7. QED
  BY <1>1, <1>2, <1>3, <1>4, <1>5, <1>6 DEF IInv

(* What each PE adds: the next product of its element, or nothing. *)
LEMMA NextProduct ==
  ASSUME IInv, NEW r \in Lanes, NEW c \in Lanes,
         NEW k, k = t - 1 - (r + c)
  PROVE  /\ k \in Int /\ k < t
         /\ k \notin Feeds => ActReg(r, c) * WtReg(r, c) = 0
         /\ k \in Feeds => /\ Summed(r, c) = k
                           /\ sum[<<r, c>>][k + 1] = sum[<<r, c>>][k] + ActReg(r, c) * WtReg(r, c)
<1>1. t \in Int /\ r + c \in Nat
  BY Indices DEF IInv, Shape
<1>2. k \in Int /\ k < t
  BY <1>1
<1>3. ActReg(r, c) = FedTo(col, r, k) /\ WtReg(r, c) = FedTo(row, c, k)
  BY Resident DEF IInv
<1>4. ASSUME k \notin Feeds
      PROVE  ActReg(r, c) * WtReg(r, c) = 0
  BY <1>3, <1>4 DEF FedTo
<1>5. ASSUME k \in Feeds
      PROVE  /\ Summed(r, c) = k
             /\ sum[<<r, c>>][k + 1] = sum[<<r, c>>][k] + ActReg(r, c) * WtReg(r, c)
  <2>1. Summed(r, c) = k
    BY <1>1, <1>5, Indices DEF Summed, Feeds
  <2>2. ActReg(r, c) = col[k][r] /\ WtReg(r, c) = row[k][c]
    BY <1>3, <1>5 DEF FedTo
  <2>3. sum[<<r, c>>][k + 1] = sum[<<r, c>>][k] + col[k][r] * row[k][c]
    BY <1>2, <1>5 DEF IInv, SumsRight
  <2>4. QED
    BY <2>1, <2>2, <2>3
<1>6. QED
  BY <1>2, <1>4, <1>5

LEMMA FeedStep ==
  ASSUME IInv, FeedVectors
  PROVE  IInv'
<1>1. PICK a \in Vectors, b \in Vectors :
        /\ t < K
        /\ ArrayClock(TRUE, FALSE, FALSE, a, b)
        /\ t' = t + 1
        /\ col' = [col EXCEPT ![t] = a]
        /\ row' = [row EXCEPT ![t] = b]
        /\ sum' = [p \in Lanes \X Lanes |->
                    [sum[p] EXCEPT ![t + 1] = sum[p][t] + a[p[1]] * b[p[2]]]]
  BY DEF FeedVectors
<1>2. /\ arr'.west = Shifted(arr.west, a)
      /\ arr'.north = Shifted(arr.north, b)
      /\ arr'.acc = [p \in Lanes \X Lanes |-> arr.acc[p] + ActReg(p[1], p[2]) * WtReg(p[1], p[2])]
  BY <1>1 DEF ArrayClock, LinesNext, AccNext
<1>3. t \in Feeds /\ t \in Nat /\ t + 1 \in 1 .. K
  BY <1>1, Indices DEF IInv, Shape, Feeds
<1>4. a \in [Lanes -> Operands] /\ b \in [Lanes -> Operands]
  BY ArrayBenchAssumption DEF Operands
<1>5. Shape'
  <2>1. t' \in 0 .. Settled
    BY <1>1, <1>3, Indices DEF Settled
  <2>2. QED
    BY <1>2, <2>1 DEF Shape, Shifted
<1>6. HistoryTyped'
  <2>1. col' \in [Feeds -> [Lanes -> Operands]] /\ row' \in [Feeds -> [Lanes -> Operands]]
    BY <1>1, <1>4 DEF IInv, HistoryTyped
  <2>2. ASSUME NEW r \in Lanes, NEW c \in Lanes
        PROVE  sum[<<r, c>>][t] + a[r] * b[c] \in Int
    <3>1. sum[<<r, c>>][t] \in Int
      BY <1>3, Indices DEF IInv, HistoryTyped
    <3>2. a[r] \in Int /\ b[c] \in Int
      BY <1>4, ArrayBenchAssumption DEF Operands
    <3>3. QED
      BY <3>1, <3>2, Z3
  <2>3. \A p \in Lanes \X Lanes : sum[p][t] + a[p[1]] * b[p[2]] \in Int
    BY <2>2
  <2>4. sum' \in [Lanes \X Lanes -> [0 .. K -> Int]]
    BY <1>1, <2>3 DEF IInv, HistoryTyped
  <2>5. QED
    BY <2>1, <2>4 DEF HistoryTyped
<1>7. \A r, c \in Lanes :
        /\ sum'[<<r, c>>][t + 1] = sum[<<r, c>>][t] + a[r] * b[c]
        /\ \A n \in 0 .. K : n # t + 1 => sum'[<<r, c>>][n] = sum[<<r, c>>][n]
  BY <1>1, <1>3, Indices DEF IInv, HistoryTyped
<1>8. /\ col'[t] = a /\ row'[t] = b
      /\ \A k \in Feeds : k # t => col'[k] = col[k] /\ row'[k] = row[k]
  BY <1>1, <1>3 DEF IInv, HistoryTyped
<1>9. SumsRight'
  <2> SUFFICES ASSUME NEW r \in Lanes, NEW c \in Lanes
               PROVE  /\ sum'[<<r, c>>][0] = 0
                      /\ \A n \in Feeds : n < t' =>
                           sum'[<<r, c>>][n + 1] = sum'[<<r, c>>][n] + col'[n][r] * row'[n][c]
    BY DEF SumsRight
  <2>1. sum'[<<r, c>>][0] = 0
    BY <1>3, <1>7, Indices DEF IInv, SumsRight
  <2>2. ASSUME NEW n \in Feeds, n < t'
        PROVE  sum'[<<r, c>>][n + 1] = sum'[<<r, c>>][n] + col'[n][r] * row'[n][c]
    <3>1. n \in 0 .. K /\ n + 1 \in 0 .. K /\ n # t + 1
      BY <1>1, <1>3, <2>2, Indices DEF Feeds
    <3>2. CASE n = t
      BY <1>7, <1>8, <3>1, <3>2
    <3>3. CASE n < t
      <4>1. sum'[<<r, c>>][n + 1] = sum[<<r, c>>][n + 1] /\ sum'[<<r, c>>][n] = sum[<<r, c>>][n]
        BY <1>3, <1>7, <3>1, <3>3
      <4>2. col'[n] = col[n] /\ row'[n] = row[n]
        <5>1. n # t
          BY <1>3, <3>3 DEF Feeds
        <5>2. QED
          BY <1>8, <5>1
      <4>3. sum[<<r, c>>][n + 1] = sum[<<r, c>>][n] + col[n][r] * row[n][c]
        BY <3>3 DEF IInv, SumsRight
      <4>4. QED
        BY <4>1, <4>2, <4>3
    <3>4. QED
      BY <1>1, <1>3, <2>2, <3>2, <3>3 DEF Feeds
  <2>3. QED
    BY <2>1, <2>2
<1>10. SumsBounded'
  <2> SUFFICES ASSUME NEW r \in Lanes, NEW c \in Lanes, NEW n \in 0 .. K
               PROVE  sum'[<<r, c>>][n] \in Sums(n)
    BY DEF SumsBounded, Sums
  <2>1. CASE n = t + 1
    <3>1. sum[<<r, c>>][t] \in Sums(t)
      BY <1>3, Indices DEF IInv, SumsBounded
    <3>2. a[r] \in Operands /\ b[c] \in Operands
      BY <1>4
    <3>3. sum[<<r, c>>][t] + a[r] * b[c] \in Sums(t + 1)
      BY <1>3, <3>1, <3>2, SumsStep
    <3>4. QED
      BY <1>7, <2>1, <3>3
  <2>2. CASE n # t + 1
    BY <1>7, <2>2 DEF IInv, SumsBounded
  <2>3. QED
    BY <2>1, <2>2
<1>11. LinesRight'
  <2> SUFFICES ASSUME NEW i \in Lanes, NEW j \in LineOf(i)
               PROVE  /\ arr'.west[i][j] = IF t - j \in Feeds THEN col'[t - j][i] ELSE 0
                      /\ arr'.north[i][j] = IF t - j \in Feeds THEN row'[t - j][i] ELSE 0
    <3>1. \A j \in Int : t' - 1 - j = t - j
      BY <1>1, <1>3
    <3>2. QED
      BY <3>1 DEF LinesRight, FedTo, LineOf
  <2>1. j \in Nat /\ i \in Nat
    BY Indices DEF LineOf, Lanes
  <2>2. CASE j = 0
    BY <1>2, <1>3, <1>8, <2>2 DEF Shifted
  <2>3. CASE j # 0
    <3>1. j - 1 \in LineOf(i) /\ t - 1 - (j - 1) = t - j /\ t - j # t
      BY <1>3, <2>1, <2>3, Indices DEF LineOf
    <3>2. arr'.west[i][j] = arr.west[i][j - 1] /\ arr'.north[i][j] = arr.north[i][j - 1]
      BY <1>2, <2>3 DEF Shifted
    <3>3. /\ arr.west[i][j - 1] = FedTo(col, i, t - j)
          /\ arr.north[i][j - 1] = FedTo(row, i, t - j)
      BY <3>1 DEF IInv, LinesRight
    <3>4. QED
      BY <1>8, <3>1, <3>2, <3>3 DEF FedTo
  <2>4. QED
    BY <2>2, <2>3
<1>12. SumsOnTime'
  <2> SUFFICES ASSUME NEW r \in Lanes, NEW c \in Lanes
               PROVE  arr'.acc[<<r, c>>] = sum'[<<r, c>>][Summed(r, c)']
    BY DEF SumsOnTime
  <2> DEFINE k == t - 1 - (r + c)
  <2>1. /\ k \in Int /\ k < t
        /\ k \notin Feeds => ActReg(r, c) * WtReg(r, c) = 0
        /\ k \in Feeds => /\ Summed(r, c) = k
                          /\ sum[<<r, c>>][k + 1] = sum[<<r, c>>][k] + ActReg(r, c) * WtReg(r, c)
    BY NextProduct
  <2>2. arr'.acc[<<r, c>>] = sum[<<r, c>>][Summed(r, c)] + ActReg(r, c) * WtReg(r, c)
    BY <1>2 DEF IInv, SumsOnTime
  <2>3. /\ k \in Feeds => Summed(r, c)' = k + 1
        /\ k \notin Feeds => Summed(r, c)' = Summed(r, c)
        /\ Summed(r, c) \in 0 .. K /\ Summed(r, c)' \in 0 .. K
        /\ Summed(r, c) <= t /\ Summed(r, c)' <= t
    <3>1. Summed(r, c) = IF k < 0 THEN 0 ELSE IF k > K THEN K ELSE k
      BY DEF Summed
    <3>2. t' - 1 - (r + c) = k + 1
      BY <1>1, <1>3, Indices
    <3>3. Summed(r, c)' = IF k + 1 < 0 THEN 0 ELSE IF k + 1 > K THEN K ELSE k + 1
      BY <3>2 DEF Summed
    <3>4. k \in Int /\ k < t /\ t \in Nat /\ t < K /\ K \in Nat
      BY <1>1, <1>3, <2>1, Indices
    <3> HIDE DEF k
    <3>5. k \in Feeds => Summed(r, c)' = k + 1
      BY <3>3, <3>4 DEF Feeds
    <3>6. k \notin Feeds => Summed(r, c)' = Summed(r, c)
      BY <3>1, <3>3, <3>4 DEF Feeds
    <3>7. /\ Summed(r, c) \in 0 .. K /\ Summed(r, c) <= t
          /\ Summed(r, c)' \in 0 .. K /\ Summed(r, c)' <= t
      BY <3>1, <3>3, <3>4
    <3>8. QED
      BY <3>5, <3>6, <3>7
  <2>4. sum'[<<r, c>>][Summed(r, c)'] = sum[<<r, c>>][Summed(r, c)']
    BY <1>3, <1>7, <2>3
  <2>5. CASE k \in Feeds
    BY <2>1, <2>2, <2>3, <2>4, <2>5
  <2>6. CASE k \notin Feeds
    <3>1. sum[<<r, c>>][Summed(r, c)] \in Int
      BY <2>3 DEF IInv, HistoryTyped
    <3>2. QED
      BY <2>1, <2>2, <2>3, <2>4, <2>6, <3>1
  <2>7. QED
    BY <2>5, <2>6
<1>13. QED
  BY <1>5, <1>6, <1>9, <1>10, <1>11, <1>12 DEF IInv

LEMMA DrainStep ==
  ASSUME IInv, FeedZeros
  PROVE  IInv'
<1>1. /\ t >= K /\ t \in Nat /\ t <= Settled
      /\ t' = IF t < Settled THEN t + 1 ELSE t
      /\ col' = col /\ row' = row /\ sum' = sum
  BY Indices DEF IInv, Shape, FeedZeros
<1>2. /\ arr'.west = Shifted(arr.west, ZeroVector)
      /\ arr'.north = Shifted(arr.north, ZeroVector)
      /\ arr'.acc = [p \in Lanes \X Lanes |-> arr.acc[p] + ActReg(p[1], p[2]) * WtReg(p[1], p[2])]
  BY DEF FeedZeros, ArrayClock, LinesNext, AccNext
<1>3. Shape'
  <2>1. t' \in 0 .. Settled
    BY <1>1, Indices
  <2>2. QED
    BY <1>2, <2>1 DEF Shape, Shifted
<1>4. HistoryTyped' /\ SumsBounded'
  BY <1>1 DEF IInv, HistoryTyped, SumsBounded
<1>5. SumsRight'
  <2>1. \A n \in Feeds : n < t
    BY <1>1, Indices DEF Feeds
  <2>2. QED
    BY <1>1, <2>1 DEF IInv, SumsRight
<1>6. LinesRight'
  <2> SUFFICES ASSUME NEW i \in Lanes, NEW j \in LineOf(i)
               PROVE  /\ arr'.west[i][j] = FedTo(col, i, t' - 1 - j)
                      /\ arr'.north[i][j] = FedTo(row, i, t' - 1 - j)
    BY <1>1 DEF LinesRight, FedTo
  <2>1. j \in Nat /\ j <= 2 * N - 2
    BY Indices DEF LineOf, Lanes
  <2>2. CASE j = 0
    <3>1. t' - 1 - j \notin Feeds
      BY <1>1, <2>2, Indices DEF Feeds, Settled
    <3>2. QED
      BY <1>2, <2>2, <3>1 DEF Shifted, ZeroVector, FedTo
  <2>3. CASE j # 0
    <3>1. j - 1 \in LineOf(i) /\ t - 1 - (j - 1) = t - j
      BY <1>1, <2>1, <2>3, Indices DEF LineOf
    <3>2. arr'.west[i][j] = arr.west[i][j - 1] /\ arr'.north[i][j] = arr.north[i][j - 1]
      BY <1>2, <2>3 DEF Shifted
    <3>3. /\ arr.west[i][j - 1] = FedTo(col, i, t - j)
          /\ arr.north[i][j - 1] = FedTo(row, i, t - j)
      BY <3>1 DEF IInv, LinesRight
    <3>4. \/ t' - 1 - j = t - j
          \/ t - j \notin Feeds /\ t' - 1 - j \notin Feeds
      BY <1>1, <2>1, Indices DEF Feeds, Settled
    <3>5. QED
      BY <3>2, <3>3, <3>4 DEF FedTo
  <2>4. QED
    BY <2>2, <2>3
<1>7. SumsOnTime'
  <2> SUFFICES ASSUME NEW r \in Lanes, NEW c \in Lanes
               PROVE  arr'.acc[<<r, c>>] = sum[<<r, c>>][Summed(r, c)']
    BY <1>1 DEF SumsOnTime
  <2> DEFINE k == t - 1 - (r + c)
             k1 == t' - 1 - (r + c)
  <2>1. /\ k \in Int /\ k < t
        /\ k \notin Feeds => ActReg(r, c) * WtReg(r, c) = 0
        /\ k \in Feeds => /\ Summed(r, c) = k
                          /\ sum[<<r, c>>][k + 1] = sum[<<r, c>>][k] + ActReg(r, c) * WtReg(r, c)
    BY NextProduct
  <2>2. arr'.acc[<<r, c>>] = sum[<<r, c>>][Summed(r, c)] + ActReg(r, c) * WtReg(r, c)
    BY <1>2 DEF IInv, SumsOnTime
  <2>3. Summed(r, c) = IF k < 0 THEN 0 ELSE IF k > K THEN K ELSE k
    BY DEF Summed
  <2>4. Summed(r, c)' = IF k1 < 0 THEN 0 ELSE IF k1 > K THEN K ELSE k1
    BY DEF Summed
  <2>5. /\ k1 \in Int
        /\ k1 = k + 1 \/ (k1 = k /\ k > K)
    <3>1. r \in Nat /\ c \in Nat /\ r < N /\ c < N /\ N \in Nat /\ t \in 0 .. Settled
      BY Indices DEF IInv, Shape
    <3>2. t' = IF t < Settled THEN t + 1 ELSE t
      BY <1>1
    <3>3. QED
      BY <3>1, <3>2, Indices DEF Settled
  <2>6. K \in Nat
    BY Indices
  <2> HIDE DEF k, k1
  <2>7. CASE k \in Feeds
    <3>1. Summed(r, c)' = k + 1
      BY <2>1, <2>4, <2>5, <2>6, <2>7 DEF Feeds
    <3>2. QED
      BY <2>1, <2>2, <2>7, <3>1
  <2>8. CASE k \notin Feeds
    <3>1. Summed(r, c)' = Summed(r, c) /\ Summed(r, c) \in 0 .. K
      BY <2>1, <2>3, <2>4, <2>5, <2>6, <2>8 DEF Feeds
    <3>2. sum[<<r, c>>][Summed(r, c)] \in Int
      BY <3>1 DEF IInv, HistoryTyped
    <3>3. QED
      BY <2>1, <2>2, <2>8, <3>1, <3>2
  <2>9. QED
    BY <2>7, <2>8
<1>8. QED
  BY <1>3, <1>4, <1>5, <1>6, <1>7 DEF IInv

LEMMA StallStep ==
  ASSUME IInv, Stall \/ UNCHANGED arrayVars
  PROVE  IInv'
<1>1. /\ arr'.west = arr.west /\ arr'.north = arr.north /\ arr'.acc = arr.acc
      /\ t' = t /\ col' = col /\ row' = row /\ sum' = sum
  BY DEF Stall, arrayVars, ArrayClock, LinesNext, AccNext
<1>2. Shape' /\ HistoryTyped' /\ SumsRight' /\ SumsBounded'
  BY <1>1 DEF IInv, Shape, HistoryTyped, SumsRight, SumsBounded
<1>3. LinesRight' /\ SumsOnTime'
  BY <1>1 DEF IInv, LinesRight, SumsOnTime, Summed, FedTo
<1>4. QED
  BY <1>2, <1>3 DEF IInv

LEMMA ClearStep ==
  Clear => IInv'
<1>1. FreshlyCleared => IInv
  BY Cleared
<1>2. Clear => FreshlyCleared'
  BY DEF Clear, Blank, FreshlyCleared, ArrayClock, LinesNext, AccNext, ResetArray, Feeds
<1>3. QED
  BY <1>1, <1>2, PTL

THEOREM Inductive == ArraySpec => []IInv
<1>1. ArrayInit => IInv
  BY Cleared DEF ArrayInit, FreshlyCleared
<1>2. IInv /\ [ArrayNext]_arrayVars => IInv'
  <2> SUFFICES ASSUME IInv, [ArrayNext]_arrayVars
               PROVE  IInv'
    OBVIOUS
  <2>1. CASE FeedVectors
    BY <2>1, FeedStep
  <2>2. CASE FeedZeros
    BY <2>2, DrainStep
  <2>3. CASE Stall \/ UNCHANGED arrayVars
    BY <2>3, StallStep
  <2>4. CASE Clear
    BY <2>4, ClearStep
  <2>5. QED
    BY <2>1, <2>2, <2>3, <2>4 DEF ArrayNext
<1>3. QED
  BY <1>1, <1>2, PTL DEF ArraySpec

(* Every register of the array keeps its range; an accumulator never exceeds *)
(* the magnitude of K products, however clears and stalls fall.              *)
THEOREM TypeCorrect == ArraySpec => []TypeOK
<1>1. IInv => TypeOK
  BY MeaningGivesType
<1>2. QED
  BY <1>1, Inductive, PTL

(* The skew meets: PE(r,c) holds A[r][k] and B[k][c] in the same cycle. *)
THEOREM OperandsMeet == ArraySpec => []OperandsAligned
<1>1. IInv => OperandsAligned
  BY Resident DEF IInv, OperandsAligned
<1>2. QED
  BY <1>1, Inductive, PTL

(* The accumulator of PE(r,c) has summed the products of r + c + 1 cycles ago. *)
THEOREM SumsAreOnTime == ArraySpec => []SumsOnTime
<1>1. IInv => SumsOnTime
  BY DEF IInv
<1>2. QED
  BY <1>1, Inductive, PTL

(* The feed and drain of docs/dataflow.md are long enough: after K + 2N - 1 *)
(* enabled cycles the whole product is in the accumulators, and stays.      *)
THEOREM ProductIsReady == ArraySpec => []ProductReady
<1>1. IInv => ProductReady
  <2> SUFFICES ASSUME IInv, t >= K + 2 * N - 1, NEW r \in Lanes, NEW c \in Lanes
               PROVE  arr.acc[<<r, c>>] = sum[<<r, c>>][K]
    BY DEF ProductReady
  <2>1. t \in Nat
    BY Indices DEF IInv, Shape
  <2>2. Summed(r, c) = K
    BY <2>1, Indices DEF Summed
  <2>3. QED
    BY <2>2 DEF IInv, SumsOnTime
<1>2. QED
  BY <1>1, Inductive, PTL

-----------------------------------------------------------------------------
LEMMA Sizes ==
  /\ N \in Nat \ {0} /\ MaxM \in Nat \ {0} /\ MaxN \in Nat \ {0} /\ MaxK \in Nat \ {0}
  /\ WordHalf \in Nat \ {0}
  BY SystolicAssumption, GemmEngineAssumption, MlPackerAssumption

(* The job on hand is one of those of the path, which never changes.        *)
Known == path \in Paths /\ job \in Jobs[path]

LEMMA KnownInit == Init => Known
  BY DEF Init, Known

LEMMA KnownStep == Known /\ [Next]_vars => Known'
  BY DEF Known, Next, Start, Cycle, Clock, vars

LEMMA JobTyped ==
  ASSUME Known
  PROVE  /\ Typed(job) /\ job.m \in Nat \ {0} /\ job.n \in Nat \ {0} /\ job.k \in Nat \ {0}
         /\ job.tm \in Nat \ {0} /\ job.tn \in Nat \ {0} /\ job.tk \in Nat \ {0}
         /\ job.post \in [int8 : BOOLEAN, bias : Int, scale : Int, relu : BOOLEAN, shift : Nat]
         /\ Elements \in Nat \ {0}
<1>1. Typed(job)
  BY ComputeBenchAssumption DEF Known
<1>2. \A x \in Nat \ {0}, y \in Nat \ {0} : x * y \in Nat \ {0}
  BY Z3
<1>3. QED
  BY <1>1, <1>2 DEF Typed, Elements

-----------------------------------------------------------------------------
(* The shift as a function, which exists and is a number.                   *)
IsShifts(s, x, n) == s = [i \in 0 .. n |-> IF i = 0 THEN x ELSE s[i - 1] \div 2]
Shifts(x, n) == CHOOSE s : IsShifts(s, x, n)

LEMMA ShiftsExist ==
  ASSUME NEW x \in Int, NEW n \in Nat
  PROVE  IsShifts(Shifts(x, n), x, n)
<1> DEFINE S == {m \in Nat : \E s : IsShifts(s, x, m)}
<1>1. 0 \in S
  <2>1. IsShifts([i \in 0 .. 0 |-> x], x, 0)
    BY DEF IsShifts
  <2>2. QED
    BY <2>1
<1>2. ASSUME NEW m \in S
      PROVE  m + 1 \in S
  <2>1. PICK s : IsShifts(s, x, m)
    OBVIOUS
  <2> DEFINE r == [i \in 0 .. m + 1 |-> IF i = m + 1 THEN s[m] \div 2 ELSE s[i]]
  <2>2. ASSUME NEW i \in 0 .. m + 1
        PROVE  r[i] = IF i = 0 THEN x ELSE r[i - 1] \div 2
    <3>1. CASE i = m + 1
      BY <3>1
    <3>2. CASE i \in 0 .. m
      <4>1. s[i] = IF i = 0 THEN x ELSE s[i - 1] \div 2
        BY <2>1, <3>2 DEF IsShifts
      <4>2. QED
        BY <3>2, <4>1
    <3>3. QED
      BY <3>1, <3>2
  <2>3. IsShifts(r, x, m + 1)
    BY <2>2 DEF IsShifts
  <2>4. m + 1 \in Nat
    OBVIOUS
  <2>5. QED
    <3> HIDE DEF r
    <3>1. QED
      BY <2>3, <2>4
<1>3. S = Nat
  <2> HIDE DEF S
  <2>1. S \in SUBSET Nat
    BY DEF S
  <2>2. QED
    BY <1>1, <1>2, <2>1, Induction
<1>4. \E s : IsShifts(s, x, n)
  BY <1>3
<1>5. QED
  BY <1>4 DEF Shifts

LEMMA ShiftTyped ==
  ASSUME NEW x \in Int, NEW n \in Nat
  PROVE  ShiftRight(x, n) \in Int
<1> DEFINE s == Shifts(x, n)
           S == {i \in Nat : i <= n => s[i] \in Int}
<1>1. s = [i \in 0 .. n |-> IF i = 0 THEN x ELSE s[i - 1] \div 2]
  BY ShiftsExist DEF IsShifts
<1> HIDE DEF s
<1>2. \A i \in 0 .. n : s[i] = IF i = 0 THEN x ELSE s[i - 1] \div 2
  BY <1>1
<1>3. 0 \in S
  BY <1>2
<1>4. \A i \in S : i + 1 \in S
  BY <1>2
<1>5. S = Nat
  <2> HIDE DEF S
  <2>1. S \in SUBSET Nat
    BY DEF S
  <2>2. QED
    BY <1>3, <1>4, <2>1, Induction
<1>6. s[n] \in Int
  BY <1>5
<1>7. ShiftRight(x, n) = s[n]
  BY DEF ShiftRight, s, Shifts, IsShifts
<1>8. QED
  BY <1>6, <1>7

(* The packer computes what epilogue() computes, as long as the biased      *)
(* element fits in 32 bits.                                                 *)
LEMMA Requantizes ==
  ASSUME Known, SumsFit, Int8, NEW i \in 0 .. Elements - 1
  PROVE  Quantize(Product(i), job.post) = epilogue(Product(i), job.post)
<1> DEFINE total == Product(i) + job.post.bias
           scale == job.post.scale
           product == total * scale
           relu == job.post.relu
           y == ShiftRight(product, job.post.shift)
<1>1. total \in -WordHalf .. WordHalf - 1
  BY DEF SumsFit
<1>2. Signed(total) = total /\ total \in Int
  <2> HIDE DEF total
  <2>1. total + WordHalf \in 0 .. 2 * WordHalf - 1 /\ total \in Int
    BY <1>1, Sizes
  <2>2. (total + WordHalf) % (2 * WordHalf) = total + WordHalf
    BY <2>1, Sizes
  <2>3. QED
    BY <2>1, <2>2, Sizes DEF Signed
<1>3. scale \in Int /\ relu \in BOOLEAN /\ job.post.shift \in Nat
  BY JobTyped
<1>4. product \in Int
  <2> HIDE DEF total, scale
  <2>1. QED
    BY <1>2, <1>3
<1>5. y \in Int
  <2> HIDE DEF product
  <2>1. QED
    BY <1>3, <1>4, ShiftTyped
<1>6. Quantize(Product(i), job.post) = IF relu /\ y < 0 THEN 0 ELSE Saturate(y)
  BY <1>2, Zenon DEF Quantize
<1>7. epilogue(Product(i), job.post)
        = IF y < (IF relu THEN 0 ELSE -128) THEN (IF relu THEN 0 ELSE -128)
          ELSE IF y > 127 THEN 127 ELSE y
  BY Zenon DEF epilogue
<1>8. (IF relu /\ y < 0 THEN 0 ELSE Saturate(y))
        = IF y < (IF relu THEN 0 ELSE -128) THEN (IF relu THEN 0 ELSE -128)
          ELSE IF y > 127 THEN 127 ELSE y
  <2> HIDE DEF y, relu
  <2>1. QED
    BY <1>3, <1>5 DEF Saturate
<1>9. QED
  BY <1>6, <1>7, <1>8, Zenon

-----------------------------------------------------------------------------
(* The packer: words it has put together when so many elements have been    *)
(* let go, and the lanes of the next.                                       *)
Byte(i) == ByteBits(epilogue(Product(i), job.post))
EmittedAt(count) == IF count = Elements THEN TotalWords(Elements) ELSE count \div 4
PackShaped(p) ==
  /\ p = [word |-> p.word, lane |-> p.lane, valid |-> p.valid, last |-> p.last]
  /\ p.valid \in BOOLEAN /\ p.last \in BOOLEAN
PackedAt(p, count) ==
  /\ p.lane = IF count = Elements THEN 0 ELSE count % 4
  /\ \A i \in 0 .. 3 : i < p.lane => p.word[i] = Byte(4 * (count \div 4) + i)
  /\ p.valid => /\ p.lane = 0 /\ p.word = OwedWord(EmittedAt(count) - 1)
                /\ p.last <=> count = Elements

Packing ==
  /\ PackShaped(pack)
  /\ passed \in 0 .. Elements
  /\ ~Int8 => ~pack.valid /\ pack.lane = 0
  /\ Int8 => PackedAt(pack, passed) /\ sent = EmittedAt(passed) - Taken(pack.valid)

LEMMA LanesOn ==
  ASSUME NEW size \in Nat \ {0}, NEW n \in 0 .. size - 1
  PROVE  /\ n \div 4 \in Nat /\ n % 4 \in 0 .. 3 /\ n = 4 * (n \div 4) + (n % 4)
         /\ (size + 3) \div 4 \in Nat /\ n \div 4 < (size + 3) \div 4
         /\ n + 1 = size => (size + 3) \div 4 = n \div 4 + 1
         /\ n % 4 = 3 => (n + 1) \div 4 = n \div 4 + 1 /\ (n + 1) % 4 = 0
         /\ n % 4 # 3 => (n + 1) \div 4 = n \div 4 /\ (n + 1) % 4 = (n % 4) + 1
         /\ \A i \in 0 .. 3 : i <= n % 4 => 4 * (n \div 4) + i < size
         /\ \A i \in 0 .. 3 : n + 1 = size /\ i > n % 4 => ~(4 * (n \div 4) + i < size)
  OBVIOUS

(* A clock of the packer, with sink ready or not.                           *)
Puts(sink) == Valid /\ Int8 /\ InReady(sink)
Quantized == Quantize(Data, job.post)
Ends == Last \/ pack.lane = 3

PackStep(sink) ==
  /\ PackShaped(pack')
  /\ ~Puts(sink) => /\ pack'.word = pack.word /\ pack'.lane = pack.lane
                    /\ (pack'.last <=> pack.last)
                    /\ (pack'.valid <=> pack.valid /\ ~sink)
  /\ Puts(sink) =>
       /\ pack'.lane = IF Ends THEN 0 ELSE pack.lane + 1
       /\ (pack'.valid <=> Ends) /\ (pack'.last <=> Last)
       /\ pack'.word = [i \in 0 .. 3 |-> IF i = pack.lane THEN ByteBits(Quantized)
                                         ELSE IF i > pack.lane /\ Ends THEN 0
                                         ELSE pack.word[i]]

LEMMA LastBoolean == Last \in BOOLEAN
  BY DEF Last, COutLast, Ref!Buf!COutLast

LEMMA PackSteps ==
  ASSUME PackShaped(pack), NEW start, NEW d, NEW a, NEW b, NEW sink, Clock(start, d, a, b, sink)
  PROVE  PackStep(sink)
<1>1. pack' = IF Puts(sink) THEN Put(Quantized, Last) ELSE [pack EXCEPT !.valid = @ /\ ~sink]
  <2>1. CASE Valid
    BY <2>1, Zenon DEF Clock, PackClock, Puts, Quantized
  <2>2. CASE ~Valid
    BY <2>2, Zenon DEF Clock, PackClock, Puts
  <2>3. QED
    BY <2>1, <2>2
<1>2. CASE ~Puts(sink)
  <2> DEFINE valid == pack.valid /\ ~sink
             n == pack'
  <2>1. n = [pack EXCEPT !.valid = valid]
    BY <1>1, <1>2
  <2>2. valid \in BOOLEAN
    OBVIOUS
  <2> HIDE DEF valid, n
  <2>3. PackShaped(n) /\ n.word = pack.word /\ n.lane = pack.lane /\ n.valid = valid
        /\ n.last = pack.last
    BY <2>1, <2>2 DEF PackShaped
  <2>4. QED
    BY <1>2, <2>3, Zenon DEF PackStep, n, valid
<1>3. CASE Puts(sink)
  <2> DEFINE word == [i \in 0 .. 3 |-> IF i = pack.lane THEN ByteBits(Quantized)
                                       ELSE IF i > pack.lane /\ Ends THEN 0
                                       ELSE pack.word[i]]
             lane == IF Ends THEN 0 ELSE pack.lane + 1
             valid == Ends
             last == Last
             n == pack'
  <2>1. n = [word |-> word, lane |-> lane, valid |-> valid, last |-> last]
    BY <1>1, <1>3, Zenon DEF Put, Emits, Ends
  <2>2. valid \in BOOLEAN /\ last \in BOOLEAN
    BY LastBoolean DEF Ends
  <2> HIDE DEF word, lane, valid, last, n
  <2>3. PackShaped(n) /\ n.word = word /\ n.lane = lane /\ n.valid = valid /\ n.last = last
    BY <2>1, <2>2 DEF PackShaped
  <2>4. QED
    BY <1>3, <2>3, Zenon DEF PackStep, n, valid, lane, word, last
<1>4. QED
  BY <1>2, <1>3

LEMMA PackedOn ==
  ASSUME Known, Packing, ResultRight, SumsFit, Int8,
         NEW start, NEW d, NEW a, NEW b, NEW sink, Clock(start, d, a, b, sink), Puts(sink)
  PROVE  PackedAt(pack', passed + 1)
<1> DEFINE n == passed
           word == n \div 4
           lane == n % 4
<1>1. PackStep(sink)
  BY PackSteps DEF Packing
<1>2. n \in 0 .. Elements - 1 /\ Data = Product(n) /\ (Last <=> n = Elements - 1)
  BY JobTyped DEF Puts, ResultRight, Packing
<1>3. Elements \in Nat \ {0} /\ TotalWords(Elements) = (Elements + 3) \div 4
  BY JobTyped DEF TotalWords
<1>4. /\ word \in Nat /\ lane \in 0 .. 3 /\ n = 4 * word + lane
      /\ n + 1 = Elements => TotalWords(Elements) = word + 1
      /\ lane = 3 => (n + 1) \div 4 = word + 1 /\ (n + 1) % 4 = 0
      /\ lane # 3 => (n + 1) \div 4 = word /\ (n + 1) % 4 = lane + 1
      /\ \A i \in 0 .. 3 : i <= lane => 4 * word + i < Elements
      /\ \A i \in 0 .. 3 : n + 1 = Elements /\ i > lane => ~(4 * word + i < Elements)
  <2> HIDE DEF n
  <2>1. QED
    BY <1>2, <1>3, LanesOn
<1>5. ByteBits(Quantized) = Byte(n)
  BY <1>2, Requantizes, Zenon DEF Quantized, Byte
<1>6. /\ pack.lane = lane
      /\ \A i \in 0 .. 3 : i < lane => pack.word[i] = Byte(4 * word + i)
  <2>1. n # Elements
    BY <1>2, <1>3
  <2>2. QED
    BY <2>1, Zenon DEF Packing, PackedAt
<1>7. Ends <=> (n + 1 = Elements \/ lane = 3)
  BY <1>2, <1>3, <1>6 DEF Ends
<1>8. /\ pack'.lane = IF Ends THEN 0 ELSE lane + 1
      /\ (pack'.valid <=> Ends) /\ (pack'.last <=> n + 1 = Elements)
      /\ pack'.word = [i \in 0 .. 3 |-> IF i = lane THEN Byte(n)
                                        ELSE IF i > lane /\ Ends THEN 0 ELSE pack.word[i]]
  <2> DEFINE p == pack'.word
             x == [i \in 0 .. 3 |-> IF i = pack.lane THEN ByteBits(Quantized)
                                   ELSE IF i > pack.lane /\ Ends THEN 0 ELSE pack.word[i]]
             y == [i \in 0 .. 3 |-> IF i = lane THEN Byte(n)
                                   ELSE IF i > lane /\ Ends THEN 0 ELSE pack.word[i]]
  <2>1. p = x /\ pack'.lane = (IF Ends THEN 0 ELSE pack.lane + 1) /\ (pack'.valid <=> Ends)
        /\ (pack'.last <=> Last)
    BY <1>1, Zenon DEF PackStep
  <2>2. pack.lane = lane
    BY <1>6
  <2>3. x = y
    <3> HIDE DEF n, lane
    <3>1. QED
      BY <1>5, <2>2, Zenon
  <2>4. Last <=> n + 1 = Elements
    BY <1>2, <1>3
  <2> HIDE DEF p, x, lane
  <2>5. p = y /\ pack'.lane = (IF Ends THEN 0 ELSE lane + 1) /\ (pack'.valid <=> Ends)
    <3> HIDE DEF y
    <3>1. QED
      BY <2>1, <2>2, <2>3
  <2>6. QED
    BY <2>1, <2>4, <2>5, Zenon DEF p
<1> DEFINE number(i) == 4 * word + i
<1>9. \A i \in 0 .. 3 : i <= lane => pack'.word[i] = Byte(number(i))
  <2> SUFFICES ASSUME NEW i \in 0 .. 3, i <= lane
               PROVE  pack'.word[i] = Byte(number(i))
    OBVIOUS
  <2>1. CASE i = lane
    <3>1. n = number(i)
      BY <1>4, <2>1
    <3>2. pack'.word[i] = Byte(n)
      <4> DEFINE byte == Byte(n)
      <4> HIDE DEF byte, n, lane
      <4>1. QED
        BY <1>8, <2>1 DEF byte
    <3> HIDE DEF n, number
    <3>3. QED
      BY <3>1, <3>2, Zenon
  <2>2. CASE i # lane
    <3>1. i < lane /\ ~(i > lane)
      BY <1>4, <2>2
    <3>2. pack'.word[i] = pack.word[i]
      <4> DEFINE byte == Byte(n)
      <4> HIDE DEF byte, lane
      <4>1. QED
        BY <1>8, <2>2, <3>1 DEF byte
    <3>3. QED
      BY <1>6, <3>1, <3>2, Zenon
  <2>3. QED
    BY <2>1, <2>2
<1>10. CASE Ends
  <2>1. pack'.lane = 0 /\ pack'.valid
    BY <1>8, <1>10
  <2>2. (n + 1) = Elements => EmittedAt(n + 1) = word + 1
    BY <1>4 DEF EmittedAt
  <2>3. (n + 1) # Elements => EmittedAt(n + 1) = word + 1 /\ (n + 1) % 4 = 0
    BY <1>4, <1>7, <1>10 DEF EmittedAt
  <2>4. EmittedAt(n + 1) - 1 = word
    <3>1. EmittedAt(n + 1) = word + 1
      BY <2>2, <2>3
    <3> DEFINE e == EmittedAt(n + 1)
    <3> HIDE DEF e, word
    <3>2. QED
      BY <1>4, <3>1 DEF e
  <2>5. pack'.word = OwedWord(word)
    <3> DEFINE byte(i) == IF 4 * word + i < Elements THEN Byte(number(i)) ELSE 0
    <3>1. ASSUME NEW i \in 0 .. 3
          PROVE  pack'.word[i] = byte(i)
      <4>1. CASE i <= lane
        <5>1. 4 * word + i < Elements
          BY <1>4, <4>1
        <5>2. byte(i) = Byte(number(i))
          BY <5>1, Zenon
        <5>3. QED
          BY <1>9, <4>1, <5>2, Zenon
      <4>2. CASE ~(i <= lane)
        <5>1. i > lane /\ i # lane /\ lane # 3
          BY <1>4, <4>2
        <5>2. ~(4 * word + i < Elements)
          BY <1>4, <1>7, <1>10, <5>1
        <5>3. byte(i) = 0
          BY <5>2, Zenon
        <5>4. pack'.word[i] = 0
          <6> DEFINE z == Byte(n)
          <6> HIDE DEF z, lane
          <6>1. QED
            BY <1>8, <1>10, <5>1 DEF z
        <5>5. QED
          BY <5>3, <5>4
      <4>3. QED
        BY <4>1, <4>2
    <3>2. OwedWord(word) = [i \in 0 .. 3 |-> byte(i)]
      BY Zenon DEF OwedWord, Byte
    <3> DEFINE f == pack'.word
    <3>3. f = [i \in 0 .. 3 |-> f[i]]
      <4> DEFINE z == Byte(n)
                 g(i) == IF i = lane THEN z ELSE IF i > lane /\ Ends THEN 0 ELSE pack.word[i]
      <4>1. f = [i \in 0 .. 3 |-> g(i)]
        BY <1>8, Zenon
      <4> HIDE DEF g, f
      <4>2. QED
        BY <4>1
    <3> HIDE DEF byte, f
    <3>4. \A i \in 0 .. 3 : f[i] = byte(i)
      BY <3>1 DEF f
    <3>5. f = OwedWord(word)
      BY <3>2, <3>3, <3>4
    <3>6. QED
      BY <3>5 DEF f
  <2>6. pack'.lane = IF n + 1 = Elements THEN 0 ELSE (n + 1) % 4
    BY <2>1, <2>3
  <2>7. \A i \in 0 .. 3 : i < pack'.lane => pack'.word[i] = Byte(4 * ((n + 1) \div 4) + i)
    BY <2>1
  <2>8. pack'.word = OwedWord(EmittedAt(n + 1) - 1)
    BY <2>4, <2>5, Zenon
  <2>9. QED
    BY <1>8, <2>1, <2>6, <2>7, <2>8, Zenon DEF PackedAt
<1>11. CASE ~Ends
  <2>1. ~pack'.valid /\ pack'.lane = lane + 1 /\ n + 1 # Elements /\ lane # 3
    BY <1>7, <1>8, <1>11
  <2>2. (n + 1) \div 4 = word /\ (n + 1) % 4 = lane + 1
    BY <1>4, <2>1
  <2>3. pack'.lane = IF n + 1 = Elements THEN 0 ELSE (n + 1) % 4
    BY <2>1, <2>2
  <2>4. ASSUME NEW i \in 0 .. 3, i < pack'.lane
        PROVE  pack'.word[i] = Byte(4 * ((n + 1) \div 4) + i)
    <3>1. i <= lane
      BY <1>4, <2>1, <2>4
    <3>2. pack'.word[i] = Byte(number(i))
      BY <1>9, <3>1
    <3>3. QED
      BY <2>2, <3>2, Zenon
  <2>5. QED
    BY <2>1, <2>3, <2>4, Zenon DEF PackedAt
<1>12. QED
  BY <1>10, <1>11

LEMMA PackingInit == Init => Packing
<1> SUFFICES ASSUME Init
             PROVE  Packing
  OBVIOUS
<1>1. passed = 0 /\ sent = 0 /\ Elements \in Nat \ {0}
  BY KnownInit, JobTyped DEF Init
<1>2. PackShaped(pack) /\ pack.lane = 0 /\ ~pack.valid
  <2> DEFINE word == [lane \in 0 .. 3 |-> 0]
  <2>1. pack = [word |-> word, lane |-> 0, valid |-> FALSE, last |-> FALSE]
    BY DEF Init, ResetPack
  <2> HIDE DEF word
  <2>2. QED
    BY <2>1 DEF PackShaped
<1>3. 0 % 4 = 0 /\ 0 \div 4 = 0 /\ 0 # Elements /\ \A i \in 0 .. 3 : ~(i < 0)
  BY <1>1
<1>4. PackedAt(pack, passed) /\ EmittedAt(passed) = 0
  BY <1>1, <1>2, <1>3, Zenon DEF PackedAt, EmittedAt
<1>5. Taken(pack.valid) = 0
  BY <1>2 DEF Taken
<1>6. QED
  BY <1>1, <1>2, <1>4, <1>5 DEF Packing

(* A job begins with nothing in the packer.                                 *)
LEMMA Rests == Over => ~Valid
  BY DEF Over, Valid, Busy, COutValid, EngineBusy, Ref!PathBusy, Ref!Buf!COutValid, Ref!Buf!BufferBusy

LEMMA PackingStarts ==
  ASSUME Known, Packing, ResultRight, Start
  PROVE  Packing'
<1>1. PICK j \in Jobs[path] :
        /\ Over
        /\ Clock(TRUE, Descriptor(j), FALSE, FALSE, FALSE)
        /\ job' = j
        /\ passed' = 0 /\ sent' = 0 /\ dones' = 0
  BY DEF Start
<1>2. ~pack.valid /\ pack.lane = 0
  <2>1. ~pack.valid /\ (passed = 0 \/ passed = Elements)
    BY <1>1 DEF Over, ResultRight
  <2>2. 0 % 4 = 0
    OBVIOUS
  <2>3. QED
    BY <2>1, <2>2 DEF Packing, PackedAt
<1>3. PackStep(FALSE) /\ ~Puts(FALSE)
  BY <1>1, Rests, PackSteps DEF Packing, Puts
<1>4. PackShaped(pack') /\ ~pack'.valid /\ pack'.lane = 0
  BY <1>2, <1>3 DEF PackStep
<1>5. Typed(j)
  BY ComputeBenchAssumption DEF Known
<1>6. Elements' \in Nat \ {0}
  <2>1. Elements' = j.m * j.n
    BY <1>1 DEF Elements
  <2>2. \A x \in Nat \ {0}, y \in Nat \ {0} : x * y \in Nat \ {0}
    BY Z3
  <2>3. QED
    BY <1>5, <2>1, <2>2 DEF Typed
<1>7. 0 % 4 = 0 /\ 0 \div 4 = 0 /\ 0 # Elements' /\ \A i \in 0 .. 3 : ~(i < 0)
  BY <1>6
<1>8. PackedAt(pack, passed)' /\ EmittedAt(passed)' = 0
  BY <1>1, <1>4, <1>7, Zenon DEF PackedAt, EmittedAt
<1>9. Taken(pack'.valid) = 0
  BY <1>4 DEF Taken
<1>10. passed' \in 0 .. Elements'
  BY <1>1, <1>6
<1>11. sent' = EmittedAt(passed)' - Taken(pack'.valid)
  BY <1>1, <1>8, <1>9
<1>12. QED
  BY <1>4, <1>8, <1>10, <1>11, Zenon DEF Packing, PackShaped

LEMMA WordsStay ==
  ASSUME job' = job
  PROVE  /\ Int8' = Int8 /\ Elements' = Elements
         /\ \A i : Byte(i)' = Byte(i)
         /\ \A x : OwedWord(x)' = OwedWord(x)
<1>1. Int8' = Int8 /\ Elements' = Elements
  BY DEF Int8, Elements
<1>2. \A i : Byte(i)' = Byte(i)
  BY Zenon DEF Byte, Product, cpu_gemm, Products
<1>3. \A x : OwedWord(x)' = OwedWord(x)
  BY <1>1, Zenon DEF OwedWord, Product, cpu_gemm, Products
<1>4. QED
  BY <1>1, <1>2, <1>3, Zenon

LEMMA PackingGoesOn ==
  ASSUME Known, Packing, ResultRight, SumsFit,
         NEW a \in BOOLEAN, NEW b \in BOOLEAN, NEW sink \in BOOLEAN, Cycle(a, b, sink)
  PROVE  Packing'
<1>1. /\ Clock(FALSE, Ref!NoJob.d, a, b, sink)
      /\ sink => WordValid
      /\ passed' = passed + Taken(Valid /\ RawReady(sink))
      /\ sent' = sent + Taken(WordValid /\ sink)
      /\ job' = job
  BY DEF Cycle
<1>2. PackStep(sink) /\ PackShaped(pack')
  BY <1>1, PackSteps DEF Packing, PackStep
<1>3. /\ Int8' = Int8 /\ Elements' = Elements
      /\ \A i : Byte(i)' = Byte(i)
      /\ \A x : OwedWord(x)' = OwedWord(x)
  BY <1>1, WordsStay, Zenon
<1>4. passed \in 0 .. Elements /\ Elements \in Nat \ {0} /\ (Valid => passed < Elements)
  BY JobTyped DEF Packing, ResultRight
<1>5. passed' \in 0 .. Elements'
  BY <1>1, <1>3, <1>4 DEF Taken
<1>6. CASE ~Int8
  <2>1. ~Puts(sink) /\ ~pack.valid /\ pack.lane = 0
    BY <1>6 DEF Puts, Packing
  <2>2. ~pack'.valid /\ pack'.lane = 0
    BY <1>2, <2>1 DEF PackStep
  <2>3. QED
    BY <1>2, <1>3, <1>5, <1>6, <2>2, Zenon DEF Packing, PackShaped
<1>7. CASE Int8 /\ Puts(sink)
  <2>1. PackedAt(pack', passed + 1)
    BY <1>1, <1>7, PackedOn
  <2>2. passed' = passed + 1 /\ passed # Elements
    BY <1>1, <1>4, <1>7 DEF Puts, RawReady, Taken
  <2>3. PackedAt(pack, passed)'
    <3>1. EmittedAt(passed + 1) = EmittedAt(passed)'
      BY <1>3, <2>2, Zenon DEF EmittedAt
    <3>2. QED
      BY <1>3, <2>1, <2>2, <3>1, Zenon DEF PackedAt
  <2>4. sent' = EmittedAt(passed)
    <3>1. sent = EmittedAt(passed) - Taken(pack.valid)
      BY <1>7 DEF Packing
    <3>2. EmittedAt(passed) \in Int
      BY <1>4, <2>2 DEF EmittedAt
    <3>3. Taken(WordValid /\ sink) = Taken(pack.valid) /\ Taken(pack.valid) \in Int
      BY <1>7 DEF Taken, WordValid, Puts, InReady
    <3>4. QED
      BY <1>1, <3>1, <3>2, <3>3
  <2>5. EmittedAt(passed)' = EmittedAt(passed) + Taken(pack'.valid)
    <3> DEFINE n == passed
               word == n \div 4
    <3>1. n \in 0 .. Elements - 1 /\ EmittedAt(n) = word
      BY <1>4, <2>2 DEF EmittedAt
    <3>2. /\ word \in Nat
          /\ n + 1 = Elements => (Elements + 3) \div 4 = word + 1
          /\ n % 4 = 3 => (n + 1) \div 4 = word + 1
          /\ n % 4 # 3 => (n + 1) \div 4 = word
      <4> HIDE DEF n
      <4>1. QED
        BY <1>4, <3>1, LanesOn
    <3>3. pack'.valid <=> (n + 1 = Elements \/ n % 4 = 3)
      <4>1. pack'.valid <=> Ends
        BY <1>2, <1>7 DEF PackStep
      <4>2. pack.lane = n % 4
        BY <1>7, <2>2, Zenon DEF Packing, PackedAt
      <4>3. Last <=> n = Elements - 1
        BY <1>7 DEF ResultRight, Puts
      <4>4. QED
        BY <1>4, <4>1, <4>2, <4>3 DEF Ends
    <3>4. EmittedAt(passed)' = IF n + 1 = Elements THEN (Elements + 3) \div 4 ELSE (n + 1) \div 4
      BY <1>3, <2>2, Zenon DEF EmittedAt, TotalWords
    <3> DEFINE e == EmittedAt(passed)'
               v == pack'.valid
               low == EmittedAt(n)
    <3>5. e = word + Taken(v)
      <4> HIDE DEF e, v, word, n
      <4>1. CASE v
        <5>1. e = word + 1
          BY <3>2, <3>3, <3>4, <4>1 DEF e, v
        <5>2. Taken(v) = 1
          BY <4>1 DEF Taken
        <5>3. QED
          BY <5>1, <5>2
      <4>2. CASE ~v
        <5>1. e = word
          BY <3>2, <3>3, <3>4, <4>2 DEF e, v
        <5>2. Taken(v) = 0
          BY <4>2 DEF Taken
        <5>3. QED
          BY <3>2, <5>1, <5>2
      <4>3. QED
        BY <4>1, <4>2
    <3>6. QED
      BY <3>1, <3>5
  <2>6. sent' = EmittedAt(passed)' - Taken(pack'.valid)
    <3> DEFINE s == sent'
               e == EmittedAt(passed)'
               o == EmittedAt(passed)
               v == Taken(pack'.valid)
    <3>1. s = o /\ e = o + v
      BY <2>4, <2>5
    <3>2. o \in Int /\ v \in Int
      BY <1>4, <2>2 DEF EmittedAt, Taken
    <3> HIDE DEF s, e, o, v
    <3>3. s = e - v
      BY <3>1, <3>2
    <3>4. QED
      BY <3>3 DEF s, e, v
  <2>7. QED
    BY <1>2, <1>3, <1>5, <1>7, <2>3, <2>6, Zenon DEF Packing, PackShaped
<1>8. CASE Int8 /\ ~Puts(sink)
  <2>1. /\ pack'.word = pack.word /\ pack'.lane = pack.lane /\ (pack'.last <=> pack.last)
        /\ (pack'.valid <=> pack.valid /\ ~sink)
    BY <1>2, <1>8 DEF PackStep
  <2>2. passed' = passed
    BY <1>1, <1>4, <1>8 DEF Puts, RawReady, Taken
  <2>3. PackedAt(pack, passed) /\ sent = EmittedAt(passed) - Taken(pack.valid)
    BY <1>8 DEF Packing
  <2>4. EmittedAt(passed)' = EmittedAt(passed)
    BY <1>3, <2>2, Zenon DEF EmittedAt
  <2>5. PackedAt(pack, passed)'
    BY <1>3, <2>1, <2>2, <2>3, <2>4, Zenon DEF PackedAt
  <2>6. sent' = EmittedAt(passed)' - Taken(pack'.valid)
    <3> DEFINE v == pack.valid
               vv == pack'.valid
               e == EmittedAt(passed)
               s == sent
               ss == sent'
    <3>1. ss = s + Taken(v /\ sink) /\ s = e - Taken(v) /\ (vv <=> v /\ ~sink)
      BY <1>1, <1>8, <2>1, <2>3, Zenon DEF WordValid
    <3>2. e \in Int
      BY <1>4 DEF EmittedAt, TotalWords
    <3> HIDE DEF v, vv, e, s, ss
    <3>3. ss = e - Taken(vv)
      BY <3>1, <3>2 DEF Taken
    <3>4. QED
      BY <2>4, <3>3 DEF ss, e, vv
  <2>7. QED
    BY <1>2, <1>3, <1>5, <1>8, <2>5, <2>6, Zenon DEF Packing, PackShaped
<1>9. QED
  BY <1>6, <1>7, <1>8

LEMMA PackingRests ==
  ASSUME Packing, UNCHANGED vars
  PROVE  Packing'
<1>1. pack' = pack /\ passed' = passed /\ sent' = sent /\ job' = job
  BY DEF vars
<1>2. /\ Int8' = Int8 /\ Elements' = Elements
      /\ \A i : Byte(i)' = Byte(i)
      /\ \A x : OwedWord(x)' = OwedWord(x)
  BY <1>1, WordsStay, Zenon
<1>3. EmittedAt(passed)' = EmittedAt(passed)
  BY <1>1, <1>2, Zenon DEF EmittedAt
<1>4. PackedAt(pack, passed) => PackedAt(pack, passed)'
  BY <1>1, <1>2, <1>3, Zenon DEF PackedAt
<1>5. PackShaped(pack)' /\ passed' \in 0 .. Elements'
  BY <1>1, <1>2, Zenon DEF Packing, PackShaped
<1>6. ~Int8 => ~pack'.valid /\ pack'.lane = 0
  BY <1>1, Zenon DEF Packing
<1>7. Int8 => PackedAt(pack, passed)' /\ sent' = EmittedAt(passed)' - Taken(pack'.valid)
  BY <1>1, <1>3, <1>4, Zenon DEF Packing
<1>8. QED
  BY <1>2, <1>5, <1>6, <1>7, Zenon DEF Packing

LEMMA PackingWords == Known /\ Packing /\ ResultRight => WordsExact
<1> SUFFICES ASSUME Known, Packing, ResultRight, Int8
             PROVE  /\ pack.valid =>
                         /\ pack.word = OwedWord(sent)
                         /\ OutLast <=> 4 * (sent + 1) >= Elements
                    /\ Over /\ Given /\ Legal(job) => sent = TotalWords(Elements)
  BY DEF WordsExact
<1>1. /\ PackedAt(pack, passed) /\ sent = EmittedAt(passed) - Taken(pack.valid)
      /\ passed \in 0 .. Elements /\ Elements \in Nat \ {0}
  BY JobTyped DEF Packing
<1>2. CASE pack.valid
  <2>1. sent = EmittedAt(passed) - 1
    BY <1>1, <1>2 DEF Taken
  <2>2. pack.word = OwedWord(sent) /\ (pack.last <=> passed = Elements) /\ pack.lane = 0
    BY <1>1, <1>2, <2>1, Zenon DEF PackedAt
  <2>3. OutLast <=> passed = Elements
    BY <1>2, <2>2 DEF OutLast
  <2>4. passed = Elements => 4 * (sent + 1) >= Elements
    BY <1>1, <2>1 DEF EmittedAt, TotalWords
  <2>5. passed # Elements => 4 * (sent + 1) < Elements
    BY <1>1, <2>1 DEF EmittedAt
  <2>6. sent \in Int
    BY <1>1, <2>1 DEF EmittedAt, TotalWords
  <2>7. 4 * (sent + 1) >= Elements <=> ~(4 * (sent + 1) < Elements)
    BY <1>1, <2>6
  <2>8. ~Over
    BY <1>2 DEF Over
  <2>9. QED
    BY <2>2, <2>3, <2>4, <2>5, <2>7, <2>8, Zenon
<1>3. CASE ~pack.valid
  <2>1. ASSUME Over, Given, Legal(job)
        PROVE  sent = TotalWords(Elements)
    <3>1. passed = Elements
      BY <2>1 DEF ResultRight
    <3>2. QED
      BY <1>1, <1>3, <3>1 DEF EmittedAt, Taken, TotalWords
  <2>2. QED
    BY <1>3, <2>1
<1>4. QED
  BY <1>2, <1>3

-----------------------------------------------------------------------------
(* What both compute paths share: the terms of an element, a tile of the     *)
(* product, an array over it, an operand word by word.  Each is a function   *)
(* of the job j, so that a step that keeps the job keeps them.               *)
Terms(j, r, c) == [k \in 0 .. j.k - 1 |-> j.a[<<r, k>>] * j.b[<<k, c>>]]
Part(j, r, c, n) == Sum(Terms(j, r, c), n)
Element(j, r, c) == Part(j, r, c, j.k)

Sound(j) ==
  /\ Typed(j)
  /\ j.m \in Nat \ {0} /\ j.n \in Nat \ {0} /\ j.k \in Nat \ {0}

LEMMA SoundJob ==
  ASSUME Known
  PROVE  Sound(job)
  BY JobTyped DEF Sound

LEMMA ElementIs == \A r, c : cpu_gemm(r, c) = Element(job, r, c)
  BY Zenon DEF cpu_gemm, Element, Part, Terms, Products

LEMMA SumStep ==
  ASSUME NEW f, NEW n \in Nat
  PROVE  /\ Sum(f, 0) = 0
         /\ Sum(f, n + 1) = Sum(f, n) + f[n]
         /\ (\A i \in 0 .. n - 1 : f[i] \in Int) => Sum(f, n) \in Int
<1>1. \A i \in Nat : Sum(f, i) = PartialSums(f, i)[i]
  BY DEF Sum, PartialSums, IsPartialSums
<1>2. QED
  BY <1>1, PartialSumsStep, PartialSumsType

LEMMA OperandTyped ==
  ASSUME NEW j, Sound(j)
  PROVE  /\ \A r \in 0 .. j.m - 1, k \in 0 .. j.k - 1 : j.a[<<r, k>>] \in -128 .. 127
         /\ \A k \in 0 .. j.k - 1, c \in 0 .. j.n - 1 : j.b[<<k, c>>] \in -128 .. 127
  BY DEF Sound, Typed

LEMMA PartStep ==
  ASSUME NEW j, Sound(j), NEW r \in 0 .. j.m - 1, NEW c \in 0 .. j.n - 1
  PROVE  /\ Part(j, r, c, 0) = 0
         /\ \A n \in 0 .. j.k : Part(j, r, c, n) \in Int
         /\ \A n \in 0 .. j.k - 1 :
              Part(j, r, c, n + 1) = Part(j, r, c, n) + j.a[<<r, n>>] * j.b[<<n, c>>]
<1> DEFINE f == Terms(j, r, c)
           K1 == j.k
<1>1. K1 \in Nat
  BY DEF Sound
<1>2. \A n \in 0 .. K1 - 1 : f[n] = j.a[<<r, n>>] * j.b[<<n, c>>]
  BY DEF Terms
<1>3. ASSUME NEW n \in 0 .. K1 - 1
      PROVE  f[n] \in Int
  <2>1. j.a[<<r, n>>] \in -128 .. 127 /\ j.b[<<n, c>>] \in -128 .. 127
    BY OperandTyped, Zenon
  <2>2. \A x, y \in Int : x * y \in Int
    OBVIOUS
  <2>3. QED
    <3>1. j.a[<<r, n>>] \in Int /\ j.b[<<n, c>>] \in Int
      BY <2>1
    <3>2. QED
      BY <1>2, <2>2, <3>1, Zenon
<1>4. ASSUME NEW n \in 0 .. K1
      PROVE  Sum(f, n) \in Int
  <2>1. n \in Nat /\ \A i \in 0 .. n - 1 : i \in 0 .. K1 - 1
    BY <1>1
  <2> HIDE DEF f, K1
  <2>2. \A i \in 0 .. n - 1 : f[i] \in Int
    BY <1>3, <2>1
  <2>3. QED
    BY <2>1, <2>2, SumStep
<1>5. Sum(f, 0) = 0
  BY SumStep
<1>6. ASSUME NEW n \in 0 .. K1 - 1
      PROVE  Sum(f, n + 1) = Sum(f, n) + f[n]
  BY <1>1, SumStep
<1>7. QED
  BY <1>2, <1>4, <1>5, <1>6, Zenon DEF Part

-----------------------------------------------------------------------------
(* A tile T of the product: mLen by nLen elements from <<m, n>> on, and of    *)
(* each the kLen terms from k on.                                            *)
TileOf(j, T) ==
  /\ T.m \in Nat /\ T.mLen \in Nat \ {0} /\ T.m + T.mLen <= j.m /\ T.mLen <= N
  /\ T.n \in Nat /\ T.nLen \in Nat \ {0} /\ T.n + T.nLen <= j.n /\ T.nLen <= N
  /\ T.k \in Nat /\ T.kLen \in Nat \ {0} /\ T.k + T.kLen <= j.k

(* What its edges are fed on clock s, in lane i.                             *)
West(j, T, i, s) ==
  IF s \in 0 .. T.kLen - 1 /\ i < T.mLen THEN j.a[<<T.m + i, T.k + s>>] ELSE 0
North(j, T, i, s) ==
  IF s \in 0 .. T.kLen - 1 /\ i < T.nLen THEN j.b[<<T.k + s, T.n + i>>] ELSE 0

(* Terms that have met d registers inside, t clocks on.                      *)
Met(T, t1, d) == IF t1 - 1 - d < 0 THEN 0 ELSE IF t1 - 1 - d > T.kLen THEN T.kLen ELSE t1 - 1 - d

LinesHold(j, T, t1, x) ==
  \A i \in Lanes : \A l \in LineOf(i) :
    x.west[i][l] = West(j, T, i, t1 - 1 - l) /\ x.north[i][l] = North(j, T, i, t1 - 1 - l)
SumsHold(j, T, t1, x) ==
  \A r, c \in Lanes :
    r < T.mLen /\ c < T.nLen =>
      x.acc[<<r, c>>] = Part(j, T.m + r, T.n + c, T.k + Met(T, t1, r + c)) - Part(j, T.m + r, T.n + c, T.k)

(* The array t clocks into the tile.                                         *)
ArrayHolds(j, T, t1, x) == LinesHold(j, T, t1, x) /\ SumsHold(j, T, t1, x)

LEMMA MetOn ==
  ASSUME NEW j, Sound(j), NEW T, TileOf(j, T), NEW t1 \in Nat,
         NEW r \in Nat, NEW c \in Nat, r < T.mLen, c < T.nLen
  PROVE  /\ Part(j, T.m + r, T.n + c, T.k + Met(T, t1, r + c)) \in Int
         /\ Part(j, T.m + r, T.n + c, T.k) \in Int
         /\ Part(j, T.m + r, T.n + c, T.k + Met(T, t1 + 1, r + c))
              = Part(j, T.m + r, T.n + c, T.k + Met(T, t1, r + c))
                  + West(j, T, r, t1 - 1 - (r + c)) * North(j, T, c, t1 - 1 - (r + c))
<1> DEFINE x == T.m + r
           y == T.n + c
           s == t1 - 1 - (r + c)
           L == T.kLen
           k == T.k
           F(n) == Part(j, x, y, n)
<1>1. /\ x \in 0 .. j.m - 1 /\ y \in 0 .. j.n - 1 /\ s \in Int
      /\ L \in Nat \ {0} /\ k \in Nat /\ j.k \in Nat /\ k + L <= j.k
  BY DEF TileOf, Sound
<1> HIDE DEF x, y
<1>2. /\ \A n \in 0 .. j.k : F(n) \in Int
      /\ \A n \in 0 .. j.k - 1 : F(n + 1) = F(n) + j.a[<<x, n>>] * j.b[<<n, y>>]
  BY <1>1, PartStep
<1>3. Met(T, t1, r + c) \in 0 .. L
  BY <1>1 DEF Met
<1> DEFINE now == k + Met(T, t1, r + c)
<1>4. now \in 0 .. j.k /\ k \in 0 .. j.k
  BY <1>1, <1>3
<1>5. F(now) \in Int /\ F(k) \in Int
  BY <1>2, <1>4
<1>6. CASE s \in 0 .. L - 1
  <2>1. Met(T, t1, r + c) = s /\ Met(T, t1 + 1, r + c) = s + 1
    BY <1>1, <1>6 DEF Met
  <2>2. k + s \in 0 .. j.k - 1 /\ k + (s + 1) = (k + s) + 1
    BY <1>1, <1>6
  <2>3. West(j, T, r, s) = j.a[<<x, k + s>>] /\ North(j, T, c, s) = j.b[<<k + s, y>>]
    BY <1>6, Zenon DEF West, North, x, y
  <2> DEFINE p == k + s
  <2>4. p \in 0 .. j.k - 1 /\ k + Met(T, t1, r + c) = p /\ k + Met(T, t1 + 1, r + c) = p + 1
    BY <2>1, <2>2
  <2>5. West(j, T, r, s) = j.a[<<x, p>>] /\ North(j, T, c, s) = j.b[<<p, y>>]
    BY <2>3
  <2> HIDE DEF p, s
  <2>6. Part(j, x, y, p + 1) = Part(j, x, y, p) + j.a[<<x, p>>] * j.b[<<p, y>>]
    BY <1>2, <2>4
  <2>7. Part(j, x, y, k + Met(T, t1 + 1, r + c))
          = Part(j, x, y, k + Met(T, t1, r + c)) + West(j, T, r, s) * North(j, T, c, s)
    BY <2>4, <2>5, <2>6, Zenon
  <2>8. QED
    BY <1>5, <2>7, Zenon DEF x, y, s
<1>7. CASE s \notin 0 .. L - 1
  <2>1. Met(T, t1 + 1, r + c) = Met(T, t1, r + c)
    BY <1>1, <1>7 DEF Met
  <2>2. West(j, T, r, s) = 0 /\ North(j, T, c, s) = 0
    BY <1>7, Zenon DEF West, North
  <2> HIDE DEF s
  <2>3. F(now) = F(now) + West(j, T, r, s) * North(j, T, c, s)
    <3> DEFINE v == F(now)
    <3>1. v \in Int
      BY <1>5
    <3> HIDE DEF v
    <3>2. v = v + 0 * 0
      BY <3>1
    <3>3. QED
      BY <2>2, <3>2, Zenon DEF v
  <2>4. QED
    BY <1>5, <2>1, <2>3, Zenon DEF x, y, s
<1>8. QED
  BY <1>6, <1>7

(* One clock on, fed what its edges are owed.                                *)
LEMMA ArrayOn ==
  ASSUME NEW j, Sound(j), NEW T, TileOf(j, T), NEW t1 \in Nat, ArrayHolds(j, T, t1, arr),
         NEW a, NEW b, \A i \in Lanes : a[i] = West(j, T, i, t1) /\ b[i] = North(j, T, i, t1),
         ArrayClock(TRUE, FALSE, FALSE, a, b)
  PROVE  ArrayHolds(j, T, t1 + 1, arr')
<1> DEFINE x == arr'
<1>0. N \in Nat \ {0}
  BY Sizes
<1>1. /\ x.west = Shifted(arr.west, a) /\ x.north = Shifted(arr.north, b)
      /\ x.acc = [p \in Lanes \X Lanes |-> arr.acc[p] + ActReg(p[1], p[2]) * WtReg(p[1], p[2])]
  BY DEF ArrayClock, LinesNext, AccNext
<1> HIDE DEF x
<1>2. \A i \in Lanes : \A l \in LineOf(i) :
        /\ x.west[i][l] = IF l = 0 THEN a[i] ELSE arr.west[i][l - 1]
        /\ x.north[i][l] = IF l = 0 THEN b[i] ELSE arr.north[i][l - 1]
  BY <1>1 DEF Shifted
<1>3. ASSUME NEW r \in Lanes, NEW c \in Lanes
      PROVE  x.acc[<<r, c>>] = arr.acc[<<r, c>>] + arr.west[r][r + c] * arr.north[c][c + r]
  <2> DEFINE e(p) == arr.acc[p] + ActReg(p[1], p[2]) * WtReg(p[1], p[2])
  <2>1. x.acc = [p \in Lanes \X Lanes |-> e(p)] /\ <<r, c>> \in Lanes \X Lanes
    BY <1>1
  <2> HIDE DEF e
  <2>2. x.acc[<<r, c>>] = e(<<r, c>>)
    BY <2>1
  <2>3. QED
    BY <2>2 DEF e, ActReg, WtReg
<1>4. LinesHold(j, T, t1 + 1, x)
  <2> SUFFICES ASSUME NEW i \in Lanes, NEW l \in LineOf(i)
               PROVE  /\ x.west[i][l] = West(j, T, i, (t1 + 1) - 1 - l)
                      /\ x.north[i][l] = North(j, T, i, (t1 + 1) - 1 - l)
    BY DEF LinesHold
  <2>1. l \in Nat /\ i \in Nat
    BY <1>0 DEF LineOf, Lanes
  <2>2. CASE l = 0
    <3>1. (t1 + 1) - 1 - l = t1
      BY <2>2
    <3>2. QED
      BY <1>2, <2>2, <3>1
  <2>3. CASE l # 0
    <3>1. l - 1 \in LineOf(i) /\ (t1 + 1) - 1 - l = t1 - 1 - (l - 1)
      BY <1>0, <2>1, <2>3 DEF LineOf, Lanes
    <3>2. /\ arr.west[i][l - 1] = West(j, T, i, t1 - 1 - (l - 1))
          /\ arr.north[i][l - 1] = North(j, T, i, t1 - 1 - (l - 1))
      BY <3>1, Zenon DEF ArrayHolds, LinesHold
    <3>3. QED
      BY <1>2, <2>3, <3>1, <3>2
  <2>4. QED
    BY <2>2, <2>3
<1>5. ASSUME NEW r \in Lanes, NEW c \in Lanes, r < T.mLen, c < T.nLen
      PROVE  x.acc[<<r, c>>] = Part(j, T.m + r, T.n + c, T.k + Met(T, t1 + 1, r + c))
                                 - Part(j, T.m + r, T.n + c, T.k)
  <2>1. r + c \in LineOf(r) /\ c + r \in LineOf(c) /\ c + r = r + c /\ r \in Nat /\ c \in Nat
    BY <1>0 DEF LineOf, Lanes
  <2>2. /\ arr.west[r][r + c] = West(j, T, r, t1 - 1 - (r + c))
        /\ arr.north[c][c + r] = North(j, T, c, t1 - 1 - (r + c))
    BY <2>1 DEF ArrayHolds, LinesHold
  <2> DEFINE was == Part(j, T.m + r, T.n + c, T.k + Met(T, t1, r + c))
             then == Part(j, T.m + r, T.n + c, T.k + Met(T, t1 + 1, r + c))
             zero == Part(j, T.m + r, T.n + c, T.k)
             term == West(j, T, r, t1 - 1 - (r + c)) * North(j, T, c, t1 - 1 - (r + c))
  <2>3. was \in Int /\ zero \in Int /\ then = was + term
    BY <1>5, <2>1, MetOn
  <2>4. arr.acc[<<r, c>>] = was - zero
    BY <1>5, Zenon DEF ArrayHolds, SumsHold
  <2>5. x.acc[<<r, c>>] = (was - zero) + term
    BY <1>3, <2>2, <2>4, Zenon
  <2>6. West(j, T, r, t1 - 1 - (r + c)) \in Int /\ North(j, T, c, t1 - 1 - (r + c)) \in Int
    <3> DEFINE s == t1 - 1 - (r + c)
    <3>1. /\ s \in 0 .. T.kLen - 1 => /\ T.m + r \in 0 .. j.m - 1 /\ T.n + c \in 0 .. j.n - 1
                                      /\ T.k + s \in 0 .. j.k - 1
      BY <1>5, <2>1 DEF TileOf, Sound
    <3> HIDE DEF s
    <3>2. s \in 0 .. T.kLen - 1 => /\ j.a[<<T.m + r, T.k + s>>] \in Int
                                   /\ j.b[<<T.k + s, T.n + c>>] \in Int
      <4> DEFINE u == T.m + r
                 v == T.n + c
                 w == T.k + s
      <4> HIDE DEF u, v, w
      <4>1. s \in 0 .. T.kLen - 1 => j.a[<<u, w>>] \in -128 .. 127 /\ j.b[<<w, v>>] \in -128 .. 127
        BY <3>1, OperandTyped, Zenon DEF u, v, w
      <4>2. QED
        BY <4>1 DEF u, v, w
    <3>3. West(j, T, r, s) \in Int /\ North(j, T, c, s) \in Int
      BY <3>2 DEF West, North
    <3>4. QED
      BY <3>3 DEF s
  <2>7. term \in Int
    <3>1. \A u, v \in Int : u * v \in Int
      OBVIOUS
    <3>2. QED
      BY <2>6, <3>1, Zenon
  <2> HIDE DEF was, zero, term, then
  <2>8. x.acc[<<r, c>>] = then - zero
    BY <2>3, <2>5, <2>7
  <2>9. QED
    BY <2>8 DEF then, zero
<1>6. SumsHold(j, T, t1 + 1, x)
  BY <1>5, Zenon DEF SumsHold
<1>7. QED
  BY <1>4, <1>6, Zenon DEF ArrayHolds, x

(* Cleared, it is where a tile begins, whichever.                            *)
LEMMA ArrayWiped ==
  ASSUME NEW j, Sound(j), NEW T, TileOf(j, T), NEW en, NEW a, NEW b,
         ArrayClock(en, TRUE, TRUE, a, b)
  PROVE  ArrayHolds(j, T, 0, arr')
<1> DEFINE x == arr'
<1>0. N \in Nat \ {0}
  BY Sizes
<1>1. x.west = ZeroLines /\ x.north = ZeroLines /\ x.acc = ZeroAcc
  BY DEF ArrayClock, LinesNext, AccNext
<1> HIDE DEF x
<1>2. /\ \A i \in Lanes : \A l \in LineOf(i) : x.west[i][l] = 0 /\ x.north[i][l] = 0
      /\ \A r, c \in Lanes : x.acc[<<r, c>>] = 0
  BY <1>1 DEF ZeroLines, ZeroAcc
<1>3. ASSUME NEW i \in Lanes, NEW l \in LineOf(i)
      PROVE  x.west[i][l] = West(j, T, i, 0 - 1 - l) /\ x.north[i][l] = North(j, T, i, 0 - 1 - l)
  <2>1. 0 - 1 - l \notin 0 .. T.kLen - 1
    BY <1>0 DEF LineOf, Lanes
  <2>2. West(j, T, i, 0 - 1 - l) = 0 /\ North(j, T, i, 0 - 1 - l) = 0
    BY <2>1, Zenon DEF West, North
  <2>3. QED
    BY <1>2, <2>2
<1>4. ASSUME NEW r \in Lanes, NEW c \in Lanes, r < T.mLen, c < T.nLen
      PROVE  x.acc[<<r, c>>] = Part(j, T.m + r, T.n + c, T.k + Met(T, 0, r + c))
                                 - Part(j, T.m + r, T.n + c, T.k)
  <2>1. r \in Nat /\ c \in Nat
    BY <1>0 DEF Lanes
  <2>2. T.k + Met(T, 0, r + c) = T.k
    BY <2>1 DEF Met, TileOf
  <2>3. Part(j, T.m + r, T.n + c, T.k) \in Int
    BY <1>4, <2>1, MetOn
  <2> DEFINE v == Part(j, T.m + r, T.n + c, T.k)
  <2> HIDE DEF v
  <2>4. 0 = v - v
    BY <2>3 DEF v
  <2>5. QED
    BY <1>2, <2>2, <2>4, Zenon DEF v
<1>5. QED
  BY <1>3, <1>4, Zenon DEF ArrayHolds, LinesHold, SumsHold, x

(* All terms of the tile have met, once 2N - 1 zeros have followed them.      *)
LEMMA ArrayThrough ==
  ASSUME NEW j, Sound(j), NEW T, TileOf(j, T), NEW x, ArrayHolds(j, T, T.kLen + (2 * N - 1), x),
         NEW r \in Lanes, NEW c \in Lanes, r < T.mLen, c < T.nLen
  PROVE  x.acc[<<r, c>>] = Part(j, T.m + r, T.n + c, T.k + T.kLen) - Part(j, T.m + r, T.n + c, T.k)
<1>1. r \in 0 .. N - 1 /\ c \in 0 .. N - 1 /\ N \in Nat \ {0}
  BY Sizes DEF Lanes
<1>2. Met(T, T.kLen + (2 * N - 1), r + c) = T.kLen
  BY <1>1 DEF Met, TileOf
<1>3. QED
  BY <1>2, Zenon DEF ArrayHolds, SumsHold

-----------------------------------------------------------------------------
(* An operand in a buffer, word by word.                                     *)
Grid(x, y) == (0 .. x - 1) \X (0 .. y - 1)

Matrix(cells, x, y) == cells = [p \in Grid(x, y) |-> cells[p]]

Stored(cells, operand, rows, cols, words) ==
  \A r \in 0 .. rows - 1, c \in 0 .. cols - 1 :
    (r * cols + c) \div 4 < words => cells[<<r, c>>] = operand[<<r, c>>]

Holds(cells, operand, rows, cols) ==
  \A r \in 0 .. rows - 1, c \in 0 .. cols - 1 : cells[<<r, c>>] = operand[<<r, c>>]

(* A byte survives its way through a word.                                   *)
LEMMA ByteThrough ==
  ASSUME NEW rows \in Nat \ {0}, NEW cols \in Nat \ {0}, NEW operand,
         NEW r \in 0 .. rows - 1, NEW c \in 0 .. cols - 1,
         operand[<<r, c>>] \in -128 .. 127
  PROVE  SignedByte(WordAt(operand, rows, cols, (r * cols + c) \div 4, Padding)[(r * cols + c) % 4])
           = operand[<<r, c>>]
<1> DEFINE n == r * cols + c
           all == rows * cols
           x == operand[<<r, c>>]
           words == n \div 4
<1>1. n \in 0 .. all - 1 /\ all \in Nat
  <2>1. \A u, v \in Nat \ {0} : u * v \in Nat
    BY Z3
  <2>2. QED
    BY <2>1, CellInRange
<1>2. n \div cols = r /\ n % cols = c
  <2>1. c \in 0 .. cols - 1 /\ r \in Int /\ n = cols * r + c
    OBVIOUS
  <2> HIDE DEF n
  <2>2. QED
    BY <2>1, QuotientUnique, RemainderUnique
<1> HIDE DEF n, all, words
<1>3. n % 4 \in 0 .. 3 /\ 4 * (n \div 4) + (n % 4) = n /\ n < all
  BY <1>1
<1>4. WordAt(operand, rows, cols, words, Padding)[n % 4] = x % 256
  <2>1. WordAt(operand, rows, cols, words, Padding)[n % 4]
          = IF 4 * words + (n % 4) < rows * cols
              THEN operand[<<(4 * words + (n % 4)) \div cols, (4 * words + (n % 4)) % cols>>] % 256 ELSE Padding
    <3> DEFINE e(lane) == IF 4 * words + lane < rows * cols
              THEN operand[<<(4 * words + lane) \div cols, (4 * words + lane) % cols>>] % 256 ELSE Padding
    <3>1. WordAt(operand, rows, cols, words, Padding) = [lane \in 0 .. 3 |-> e(lane)]
      BY Zenon DEF WordAt
    <3> DEFINE at == n % 4
    <3>2. at \in 0 .. 3
      BY <1>3
    <3> HIDE DEF e, at
    <3>3. WordAt(operand, rows, cols, words, Padding)[at] = e(at)
      BY <3>1, <3>2
    <3>4. QED
      BY <3>3, Zenon DEF e, at
  <2>2. 4 * words + (n % 4) = n
    BY <1>3, Zenon DEF words
  <2>3. QED
    BY <1>2, <1>3, <2>1, <2>2, Zenon DEF all, x
<1>5. SignedByte(x % 256) = x
  <2>1. x \in -128 .. 127
    OBVIOUS
  <2> HIDE DEF x
  <2>2. QED
    BY <2>1 DEF SignedByte
<1>6. QED
  BY <1>4, <1>5, Zenon DEF n, x, words

(* A word taken is four bytes more.                                          *)
LEMMA StoresOn ==
  ASSUME NEW x \in Nat, NEW y \in Nat, NEW cells, Matrix(cells, x, y),
         NEW rows \in 1 .. x, NEW cols \in 1 .. y, NEW operand,
         \A r \in 0 .. rows - 1, c \in 0 .. cols - 1 : operand[<<r, c>>] \in -128 .. 127,
         NEW words \in Nat, Stored(cells, operand, rows, cols, words)
  PROVE  LET new == Unpack(cells, WordAt(operand, rows, cols, words, Padding), words, rows * cols, cols)
         IN  Matrix(new, x, y) /\ Stored(new, operand, rows, cols, words + 1)
<1> DEFINE word == WordAt(operand, rows, cols, words, Padding)
           i(p) == p[1] * cols + p[2]
           byte(p) == SignedByte(word[i(p) % 4])
           due(p) == p[2] < cols /\ i(p) < rows * cols /\ i(p) \div 4 = words
           new == Unpack(cells, word, words, rows * cols, cols)
<1>1. DOMAIN cells = Grid(x, y)
  <2> DEFINE f == [p \in Grid(x, y) |-> cells[p]]
  <2>1. DOMAIN f = Grid(x, y)
    OBVIOUS
  <2>2. cells = f
    BY DEF Matrix
  <2> HIDE DEF f
  <2>3. QED
    BY <2>1, <2>2
<1>2. new = [p \in Grid(x, y) |-> IF due(p) THEN byte(p) ELSE cells[p]]
  BY <1>1, Zenon DEF Unpack
<1> HIDE DEF new
<1>3. new = [p \in Grid(x, y) |-> new[p]]
  <2> HIDE DEF due, byte
  <2>1. QED
    BY <1>2
<1>4. ASSUME NEW r \in 0 .. rows - 1, NEW c \in 0 .. cols - 1, (r * cols + c) \div 4 < words + 1
      PROVE  new[<<r, c>>] = operand[<<r, c>>]
  <2> DEFINE n == r * cols + c
             all == rows * cols
  <2>1. n \in 0 .. all - 1 /\ all \in Nat
    <3>1. \A u, v \in Nat \ {0} : u * v \in Nat
      BY Z3
    <3>2. QED
      BY <3>1, CellInRange
  <2>2. n \div 4 \in Nat
    <3> HIDE DEF n, all
    <3>1. QED
      BY <2>1
  <2>3. <<r, c>> \in Grid(x, y)
    BY DEF Grid
  <2>4. new[<<r, c>>] = IF due(<<r, c>>) THEN byte(<<r, c>>) ELSE cells[<<r, c>>]
    <3> HIDE DEF due, byte
    <3>1. QED
      BY <1>2, <2>3
  <2>5. /\ due(<<r, c>>) <=> n \div 4 = words
        /\ byte(<<r, c>>) = SignedByte(word[n % 4])
    <3>1. i(<<r, c>>) = n /\ c < cols
      OBVIOUS
    <3>2. n < rows * cols
      <4> HIDE DEF n
      <4>1. n < all
        <5> HIDE DEF all
        <5>1. QED
          BY <2>1
      <4>2. QED
        BY <4>1
    <3> HIDE DEF i, n
    <3>3. QED
      BY <3>1, <3>2
  <2> HIDE DEF due, byte, all
  <2>6. CASE n \div 4 = words
    <3>1. operand[<<r, c>>] \in -128 .. 127 /\ rows \in Nat \ {0} /\ cols \in Nat \ {0}
      OBVIOUS
    <3>2. words = (r * cols + c) \div 4
      BY <2>6, Zenon
    <3>3. SignedByte(WordAt(operand, rows, cols, (r * cols + c) \div 4, Padding)[(r * cols + c) % 4])
            = operand[<<r, c>>]
      BY <3>1, ByteThrough
    <3>4. SignedByte(word[n % 4]) = operand[<<r, c>>]
      BY <3>2, <3>3, Zenon DEF word, n
    <3> HIDE DEF n, word
    <3>5. QED
      BY <2>4, <2>5, <2>6, <3>4
  <2>7. CASE n \div 4 # words
    <3>1. n \div 4 < words + 1
      BY <1>4
    <3> HIDE DEF n
    <3>2. n \div 4 < words
      BY <2>2, <2>7, <3>1
    <3>3. new[<<r, c>>] = cells[<<r, c>>]
      BY <2>4, <2>5, <2>7
    <3>4. QED
      BY <3>2, <3>3, Zenon DEF n, Stored
  <2>8. QED
    BY <2>6, <2>7
<1>5. Stored(new, operand, rows, cols, words + 1)
  BY <1>4, Zenon DEF Stored
<1>6. QED
  BY <1>3, <1>5, Zenon DEF Matrix, new, word

(* All words make up the operand.                                            *)
LEMMA AllStored ==
  ASSUME NEW rows \in Nat \ {0}, NEW cols \in Nat \ {0}, NEW cells, NEW operand, NEW words \in Int,
         words >= (rows * cols + 3) \div 4, Stored(cells, operand, rows, cols, words)
  PROVE  Holds(cells, operand, rows, cols)
<1> SUFFICES ASSUME NEW r \in 0 .. rows - 1, NEW c \in 0 .. cols - 1
             PROVE  (r * cols + c) \div 4 < words
  BY Zenon DEF Stored, Holds
<1> DEFINE n == r * cols + c
           all == rows * cols
<1>1. all \in Nat /\ n \in 0 .. all - 1
  <2>1. rows * cols \in Nat
    BY SMT
  <2>2. QED
    BY <2>1, CellInRange
<1>2. words >= (all + 3) \div 4
  OBVIOUS
<1> HIDE DEF n, all
<1>3. n \div 4 < words
  BY <1>1, <1>2
<1>4. QED
  BY <1>3 DEF n

-----------------------------------------------------------------------------
(* The registers of the reference path exist, whatever they hold.            *)
StartFields == {"q", "d"}
BufFields == {"state", "m", "n", "k", "a", "b", "word", "c", "out", "tile", "launch", "done", "error"}
SchFields == {"m", "n", "k", "dm", "dn", "dk", "tm", "tn", "tk", "inFlight", "done", "error"}
AdpFields == {"state", "k", "a", "b", "feedK", "drain", "c", "error"}
TacFields == {"state", "in", "out", "first", "last", "tileDone"}

VectorWords == 0 .. MaxK * (N \div 4) - 1

RefShaped ==
  /\ DOMAIN startQ = StartFields /\ DOMAIN buf = BufFields /\ DOMAIN sch = SchFields
  /\ DOMAIN adp = AdpFields /\ DOMAIN tac = TacFields
  /\ DOMAIN bmem = {"a", "b", "c"}
  /\ Matrix(bmem.a, MaxM, MaxK) /\ Matrix(bmem.b, MaxK, MaxN) /\ Matrix(bmem.c, MaxM, MaxN)
  /\ DOMAIN vectors.a = VectorWords /\ DOMAIN vectors.b = VectorWords
  /\ DOMAIN sums = 0 .. N * N - 1

(* A clock of the reference path, block by block.                            *)
RefBlocks(start, d, a, b, sink) ==
  /\ startQ' = IF start /\ ~Ref!PathBusy THEN [q |-> TRUE, d |-> d] ELSE [startQ EXCEPT !.q = FALSE]
  /\ Ref!BufferClock(AStream(a), BStream(b), RawReady(sink))
  /\ Ref!Sch!SchedulerClock(buf.launch, startQ.d, buf.state = "READY", tac.tileDone)
  /\ Ref!Adp!AdapterClock(Ref!Sch!TileValid /\ buf.state = "READY", Ref!Sch!Tile.kLen % 65536,
                          Ref!StreamOf(Ref!Buf!TileAWord), Ref!StreamOf(Ref!Buf!TileBWord),
                          Ref!Acc!InReady)
  /\ Ref!Acc!AccumulatorClock(Ref!Sch!TileValid /\ buf.state = "READY", Ref!Sch!FirstK,
                              Ref!Sch!LastK, Ref!Adp!CValid, Ref!Adp!CData, buf.state = "CAPTURE")

LEMMA RefClock ==
  ASSUME ~Pipelined, NEW start, NEW d, NEW a, NEW b, NEW sink, Clock(start, d, a, b, sink)
  PROVE  RefBlocks(start, d, a, b, sink)
  BY DEF Clock, Ref!PathClock, Ref!StartClock, Ref!ControllerClock, Ref!ChainClock, Ref!Launch,
     Ref!Buf!TileReady, Ref!Buf!TileCReady, RefBlocks

LEMMA BufferDoes ==
  ASSUME NEW start, NEW d, NEW a, NEW b, NEW sink, RefBlocks(start, d, a, b, sink)
  PROVE  /\ buf.state = "IDLE" => Ref!Buf!BufferIdle(startQ.q, startQ.d)
         /\ buf.state = "LOAD" => Ref!Buf!BufferLoad(AStream(a), BStream(b))
         /\ buf.state = "READY" => Ref!Buf!BufferReady(Ref!Sch!TileValid, Ref!Sch!Tile, sch.done)
         /\ buf.state = "SEND" => Ref!Buf!BufferSend(Ref!Adp!AReady, Ref!Adp!BReady)
         /\ buf.state = "CAPTURE" => Ref!Buf!BufferCapture(Ref!Acc!OutValid, Ref!Acc!OutData, tac.tileDone)
         /\ buf.state = "OUTPUT" => Ref!Buf!BufferOutput(RawReady(sink))
         /\ buf.state \in {"IDLE", "LOAD", "READY", "SEND", "CAPTURE", "OUTPUT"}
<1>1. Ref!BufferClock(AStream(a), BStream(b), RawReady(sink))
  BY DEF RefBlocks
<1>2. QED
  BY <1>1 DEF Ref!BufferClock, Ref!Buf!BufferIdle, Ref!Buf!BufferLoad, Ref!Buf!BufferReady,
     Ref!Buf!BufferSend, Ref!Buf!BufferCapture, Ref!Buf!BufferOutput

LEMMA AdapterDoes ==
  ASSUME NEW start, NEW d, NEW a, NEW b, NEW sink, RefBlocks(start, d, a, b, sink)
  PROVE  /\ adp.state = "IDLE" =>
              Ref!Adp!AdapterIdle(Ref!Sch!TileValid /\ buf.state = "READY", Ref!Sch!Tile.kLen % 65536)
         /\ adp.state = "LOAD" => Ref!Adp!AdapterLoad(Ref!StreamOf(Ref!Buf!TileAWord),
                                                      Ref!StreamOf(Ref!Buf!TileBWord))
         /\ adp.state = "CLEAR" => Ref!Adp!AdapterClear
         /\ adp.state = "FEED" => Ref!Adp!AdapterFeed
         /\ adp.state = "DRAIN" => Ref!Adp!AdapterDrain
         /\ adp.state = "OUTPUT" => Ref!Adp!AdapterOutput(Ref!Acc!InReady)
         /\ adp.state \in {"IDLE", "LOAD", "CLEAR", "FEED", "DRAIN", "OUTPUT"}
         /\ ArrayClock(adp.state \in {"FEED", "DRAIN"}, adp.state = "CLEAR", adp.state = "CLEAR",
                       Ref!Adp!Fed(vectors.a), Ref!Adp!Fed(vectors.b))
<1>1. Ref!Adp!AdapterClock(Ref!Sch!TileValid /\ buf.state = "READY", Ref!Sch!Tile.kLen % 65536,
                           Ref!StreamOf(Ref!Buf!TileAWord), Ref!StreamOf(Ref!Buf!TileBWord),
                           Ref!Acc!InReady)
  BY DEF RefBlocks
<1>2. Ref!Adp!AdapterArray
  BY <1>1 DEF Ref!Adp!AdapterClock
<1>3. ArrayClock(adp.state \in {"FEED", "DRAIN"}, adp.state = "CLEAR", adp.state = "CLEAR",
                 Ref!Adp!Fed(vectors.a), Ref!Adp!Fed(vectors.b))
  BY <1>2, Zenon DEF Ref!Adp!AdapterArray, Ref!Adp!ArrayClock, ArrayClock, Ref!Adp!LinesNext, LinesNext,
     Ref!Adp!AccNext, AccNext, Ref!Adp!Shifted, Shifted, Ref!Adp!ZeroLines, ZeroLines, Ref!Adp!ZeroAcc,
     ZeroAcc, Ref!Adp!Lanes, Lanes, Ref!Adp!LineOf, LineOf, Ref!Adp!ActReg, ActReg, Ref!Adp!WtReg, WtReg
<1>4. QED
  BY <1>1, <1>3 DEF Ref!Adp!AdapterClock, Ref!Adp!AdapterIdle, Ref!Adp!AdapterLoad, Ref!Adp!AdapterClear,
     Ref!Adp!AdapterFeed, Ref!Adp!AdapterDrain, Ref!Adp!AdapterOutput

LEMMA AccumulatorDoes ==
  ASSUME NEW start, NEW d, NEW a, NEW b, NEW sink, RefBlocks(start, d, a, b, sink)
  PROVE  /\ tac.state = "IDLE" =>
              Ref!Acc!Rest(Ref!Sch!TileValid /\ buf.state = "READY", Ref!Sch!FirstK, Ref!Sch!LastK)
         /\ tac.state = "CONSUME" => Ref!Acc!Consume(Ref!Adp!CValid, Ref!Adp!CData)
         /\ tac.state = "OUTPUT" => Ref!Acc!Emit(buf.state = "CAPTURE")
         /\ tac.state \in {"IDLE", "CONSUME", "OUTPUT"}
<1>1. Ref!Acc!AccumulatorClock(Ref!Sch!TileValid /\ buf.state = "READY", Ref!Sch!FirstK,
                               Ref!Sch!LastK, Ref!Adp!CValid, Ref!Adp!CData, buf.state = "CAPTURE")
  BY DEF RefBlocks
<1>2. QED
  BY <1>1 DEF Ref!Acc!AccumulatorClock, Ref!Acc!Rest, Ref!Acc!Consume, Ref!Acc!Emit

LEMMA MatrixKept ==
  ASSUME NEW x, NEW y, NEW cells, Matrix(cells, x, y)
  PROVE  /\ \A i, v : Matrix([cells EXCEPT ![i] = v], x, y)
         /\ \A word, w, bytes, cols : Matrix(Unpack(cells, word, w, bytes, cols), x, y)
<1>1. DOMAIN cells = Grid(x, y)
  <2> DEFINE f == [p \in Grid(x, y) |-> cells[p]]
  <2>1. DOMAIN f = Grid(x, y) /\ cells = f
    BY DEF Matrix
  <2> HIDE DEF f
  <2>2. QED
    BY <2>1
<1>2. ASSUME NEW i, NEW v
      PROVE  Matrix([cells EXCEPT ![i] = v], x, y)
  BY DEF Matrix
<1>3. ASSUME NEW word, NEW w, NEW bytes, NEW cols
      PROVE  Matrix(Unpack(cells, word, w, bytes, cols), x, y)
  <2> DEFINE e(p) == LET i == p[1] * cols + p[2]
                     IN  IF p[2] < cols /\ i < bytes /\ i \div 4 = w THEN SignedByte(word[i % 4]) ELSE cells[p]
  <2>1. Unpack(cells, word, w, bytes, cols) = [p \in Grid(x, y) |-> e(p)]
    BY <1>1, Zenon DEF Unpack
  <2> HIDE DEF e
  <2>2. QED
    BY <2>1 DEF Matrix
<1>4. QED
  BY <1>2, <1>3

LEMMA SpreadIs ==
  \A cells, word, w, bytes, cols :
    Ref!Buf!Spread(cells, word, w, bytes, cols) = Unpack(cells, word, w, bytes, cols)
<1> SUFFICES ASSUME NEW cells, NEW word, NEW w, NEW bytes, NEW cols
             PROVE  Ref!Buf!Spread(cells, word, w, bytes, cols) = Unpack(cells, word, w, bytes, cols)
  OBVIOUS
<1> DEFINE i(p) == p[1] * cols + p[2]
           b(p) == SignedByte(word[i(p) % 4])
           e(p) == IF p[2] < cols /\ i(p) < bytes /\ i(p) \div 4 = w THEN b(p) ELSE cells[p]
           f(p) == IF p[2] < cols /\ i(p) \div 4 = w /\ i(p) < bytes THEN b(p) ELSE cells[p]
<1>1. \A p : e(p) = f(p)
  <2> HIDE DEF b, i
  <2>1. QED
    BY Zenon
<1>2. Unpack(cells, word, w, bytes, cols) = [p \in DOMAIN cells |-> e(p)]
  BY Zenon DEF Unpack
<1>3. Ref!Buf!Spread(cells, word, w, bytes, cols) = [p \in DOMAIN cells |-> f(p)]
  BY Zenon DEF Ref!Buf!Spread, Ref!Buf!SignedByte, SignedByte
<1> HIDE DEF e, f
<1>4. QED
  BY <1>1, <1>2, <1>3

LEMMA ShapedInit == Init => RefShaped
<1> SUFFICES ASSUME Init
             PROVE  RefShaped
  OBVIOUS
<1>1. DOMAIN startQ = StartFields
  BY DEF Init, Ref!NoJob, StartFields
<1>2. DOMAIN buf = BufFields
  BY DEF Init, Ref!Buf!ResetBuffer, BufFields
<1>3. DOMAIN sch = SchFields /\ DOMAIN adp = AdpFields /\ DOMAIN tac = TacFields
  BY DEF Init, Ref!Sch!ResetScheduler, Ref!Adp!ResetAdapter, Ref!Acc!ResetAccumulator, SchFields, AdpFields,
     TacFields
<1>4. /\ DOMAIN bmem = {"a", "b", "c"}
      /\ Matrix(bmem.a, MaxM, MaxK) /\ Matrix(bmem.b, MaxK, MaxN) /\ Matrix(bmem.c, MaxM, MaxN)
  <2>1. bmem = Ref!Buf!Matrices(Padding)
    BY DEF Init
  <2>2. /\ bmem.a = [p \in Grid(MaxM, MaxK) |-> Padding]
        /\ bmem.b = [p \in Grid(MaxK, MaxN) |-> Padding]
        /\ bmem.c = [p \in Grid(MaxM, MaxN) |-> Padding]
        /\ DOMAIN bmem = {"a", "b", "c"}
    BY <2>1 DEF Ref!Buf!Matrices, Grid
  <2>3. QED
    BY <2>2 DEF Matrix
<1>5. DOMAIN vectors.a = VectorWords /\ DOMAIN vectors.b = VectorWords
  <2>1. vectors = Ref!Adp!VectorBuffers(Padding)
    BY DEF Init
  <2> DEFINE f == [w \in VectorWords |-> [lane \in 0 .. 3 |-> Padding]]
  <2>2. vectors = [a |-> f, b |-> f]
    BY <2>1, Zenon DEF Ref!Adp!VectorBuffers, Ref!Adp!WordsPerRow, VectorWords
  <2>3. DOMAIN f = VectorWords
    OBVIOUS
  <2> HIDE DEF f
  <2>4. QED
    BY <2>2, <2>3
<1>6. DOMAIN sums = 0 .. N * N - 1
  BY DEF Init, Ref!Acc!Words
<1>7. QED
  BY <1>1, <1>2, <1>3, <1>4, <1>5, <1>6 DEF RefShaped

LEMMA ShapedClock ==
  ASSUME RefShaped, NEW start, NEW d, NEW a, NEW b, NEW sink,
         RefBlocks(start, d, a, b, sink)
  PROVE  RefShaped'
<1>1. DOMAIN startQ' = StartFields
  BY DEF RefBlocks, RefShaped, StartFields
<1>5. DOMAIN sch' = SchFields
  <2>1. Ref!Sch!SchedulerClock(buf.launch, startQ.d, buf.state = "READY", tac.tileDone) /\ DOMAIN sch = SchFields
    BY DEF RefBlocks, RefShaped
  <2>2. DOMAIN Ref!Sch!Take(startQ.d) = SchFields
    BY <2>1 DEF Ref!Sch!Take, Ref!Sch!ResetScheduler, SchFields
  <2>3. DOMAIN Ref!Sch!Walk = SchFields
    BY <2>1 DEF Ref!Sch!Walk, Ref!Sch!ResetScheduler, SchFields
  <2>4. /\ DOMAIN [sch EXCEPT !.inFlight = TRUE, !.done = FALSE] = SchFields
        /\ DOMAIN [sch EXCEPT !.done = FALSE] = SchFields
    BY <2>1
  <2>5. QED
    BY <2>1, <2>2, <2>3, <2>4, Zenon DEF Ref!Sch!SchedulerClock
<1>6. DOMAIN adp' = AdpFields
  <2> DEFINE len == Ref!Sch!Tile.kLen % 65536
  <2> HIDE DEF len
  <2>2. DOMAIN adp = AdpFields
    BY DEF RefShaped
  <2>3. adp.state = "IDLE" => Ref!Adp!AdapterIdle(Ref!Sch!TileValid /\ buf.state = "READY", len)
    BY AdapterDoes DEF len
  <2>4. CASE adp.state = "IDLE"
    <3>1. \/ adp' = adp
          \/ adp' = [adp EXCEPT !.error = TRUE]
          \/ adp' = [adp EXCEPT !.state = "LOAD", !.k = len, !.a = 0, !.b = 0, !.error = FALSE]
      BY <2>3, <2>4, Zenon DEF Ref!Adp!AdapterIdle
    <3>2. QED
      BY <2>2, <3>1
  <2>5. CASE adp.state = "LOAD"
    <3> DEFINE x == Ref!StreamOf(Ref!Buf!TileAWord)
               y == Ref!StreamOf(Ref!Buf!TileBWord)
    <3>1. Ref!Adp!AdapterLoad(x, y)
      BY <2>5, AdapterDoes
    <3> HIDE DEF x, y
    <3>2. QED
      BY <2>2, <3>1 DEF Ref!Adp!AdapterLoad, AdpFields
  <2>6. CASE adp.state \in {"CLEAR", "FEED", "DRAIN"}
    <3>1. Ref!Adp!AdapterClear \/ Ref!Adp!AdapterFeed \/ Ref!Adp!AdapterDrain
      BY <2>6, AdapterDoes
    <3>2. QED
      BY <2>2, <3>1 DEF Ref!Adp!AdapterClear, Ref!Adp!AdapterFeed, Ref!Adp!AdapterDrain, AdpFields
  <2>7. CASE adp.state = "OUTPUT"
    <3>1. \/ adp' = adp
          \/ adp' = [adp EXCEPT !.state = "IDLE"]
          \/ adp' = [adp EXCEPT !.c = adp.c + 1]
      BY <2>7, AdapterDoes DEF Ref!Adp!AdapterOutput
    <3>2. QED
      BY <2>2, <3>1
  <2>8. QED
    BY <2>4, <2>5, <2>6, <2>7, AdapterDoes
<1>7. DOMAIN tac' = TacFields /\ DOMAIN sums' = 0 .. N * N - 1
  <2>1. DOMAIN tac = TacFields /\ DOMAIN sums = 0 .. N * N - 1
    BY DEF RefShaped
  <2>2. DOMAIN tac' = TacFields
    <3>1. CASE tac.state = "IDLE"
      BY <2>1, <3>1, AccumulatorDoes DEF Ref!Acc!Rest
    <3>2. CASE tac.state = "CONSUME"
      <4>1. \E v, x : Ref!Acc!Consume(v, x)
        BY <3>2, AccumulatorDoes, Zenon
      <4>2. QED
        BY <2>1, <4>1 DEF Ref!Acc!Consume, TacFields
    <3>3. CASE tac.state = "OUTPUT"
      <4>1. \E v : Ref!Acc!Emit(v)
        BY <3>3, AccumulatorDoes, Zenon
      <4>2. QED
        BY <2>1, <4>1 DEF Ref!Acc!Emit, TacFields
    <3>4. QED
      BY <3>1, <3>2, <3>3, AccumulatorDoes
  <2>3. sums' = sums \/ \E i, v : sums' = [sums EXCEPT ![i] = v]
    BY AccumulatorDoes DEF Ref!Acc!Rest, Ref!Acc!Consume, Ref!Acc!Emit
  <2>4. QED
    BY <2>1, <2>2, <2>3
<1>8. DOMAIN vectors.a' = VectorWords /\ DOMAIN vectors.b' = VectorWords
  <2>1. DOMAIN vectors.a = VectorWords /\ DOMAIN vectors.b = VectorWords
    BY DEF RefShaped
  <2>2. CASE adp.state = "LOAD"
    <3> DEFINE wa == Ref!StreamOf(Ref!Buf!TileAWord)
               wb == Ref!StreamOf(Ref!Buf!TileBWord)
               f == IF wa.valid /\ Ref!Adp!AReady THEN [vectors.a EXCEPT ![adp.a] = wa.word] ELSE vectors.a
               g == IF wb.valid /\ Ref!Adp!BReady THEN [vectors.b EXCEPT ![adp.b] = wb.word] ELSE vectors.b
    <3>1. Ref!Adp!AdapterLoad(wa, wb)
      BY <2>2, AdapterDoes
    <3>2. vectors' = [a |-> f, b |-> g]
      BY <3>1, Zenon DEF Ref!Adp!AdapterLoad
    <3> HIDE DEF wa, wb
    <3>3. DOMAIN f = VectorWords /\ DOMAIN g = VectorWords
      BY <2>1
    <3> HIDE DEF f, g
    <3>4. QED
      BY <3>2, <3>3
  <2>3. CASE adp.state # "LOAD"
    <3>1. vectors' = vectors
      BY <2>3, AdapterDoes DEF Ref!Adp!AdapterIdle, Ref!Adp!AdapterClear, Ref!Adp!AdapterFeed,
         Ref!Adp!AdapterDrain, Ref!Adp!AdapterOutput
    <3>2. QED
      BY <2>1, <3>1, Zenon
  <2>4. QED
    BY <2>2, <2>3
<1>9. DOMAIN buf' = BufFields
  <2>1. DOMAIN buf = BufFields
    BY DEF RefShaped
  <2>2. \A s : DOMAIN Ref!Buf!Go(s) = BufFields
    BY <2>1 DEF Ref!Buf!Go
  <2>3. CASE buf.state = "IDLE"
    <3>1. Ref!Buf!BufferIdle(startQ.q, startQ.d)
      BY <2>3, BufferDoes
    <3>2. PICK q, x : Ref!Buf!BufferIdle(q, x)
      BY <3>1, Zenon
    <3>3. \/ buf' = Ref!Buf!Go("IDLE")
          \/ buf' = [Ref!Buf!Go("IDLE") EXCEPT !.error = TRUE]
          \/ buf' = [Ref!Buf!Go("LOAD") EXCEPT !.m = x.m, !.n = x.n, !.k = x.k, !.a = 0, !.b = 0,
                                               !.error = FALSE]
      BY <3>2, Zenon DEF Ref!Buf!BufferIdle
    <3> DEFINE e == Ref!Buf!Go("IDLE")
               f == Ref!Buf!Go("LOAD")
    <3>4. DOMAIN e = BufFields /\ DOMAIN f = BufFields
      BY <2>2
    <3>5. DOMAIN [e EXCEPT !.error = TRUE] = BufFields
      <4> HIDE DEF e
      <4>1. QED
        BY <3>4
    <3>6. DOMAIN [f EXCEPT !.m = x.m, !.n = x.n, !.k = x.k, !.a = 0, !.b = 0, !.error = FALSE] = BufFields
      <4> HIDE DEF f
      <4>1. QED
        BY <3>4
    <3>7. QED
      BY <3>3, <3>4, <3>5, <3>6
  <2>4. CASE buf.state = "LOAD"
    <3> DEFINE x == AStream(a)
               y == BStream(b)
    <3>1. Ref!Buf!BufferLoad(x, y)
      BY <2>4, BufferDoes
    <3> HIDE DEF x, y
    <3>2. QED
      BY <2>1, <3>1 DEF Ref!Buf!BufferLoad, Ref!Buf!Go, BufFields
  <2>5. CASE buf.state = "READY"
    <3>1. \E s, v : \/ buf' = Ref!Buf!Go(s)
                    \/ buf' = [Ref!Buf!Go(s) EXCEPT !.out = 0]
                    \/ buf' = [Ref!Buf!Go(s) EXCEPT !.tile = v, !.word = 0]
      BY <2>5, BufferDoes, Zenon DEF Ref!Buf!BufferReady
    <3> HIDE DEF BufFields
    <3>2. QED
      BY <2>2, <3>1
  <2>6. CASE buf.state \in {"SEND", "CAPTURE", "OUTPUT"}
    <3> HIDE DEF BufFields
    <3>1. QED
      BY <2>2, <2>6, BufferDoes DEF Ref!Buf!BufferSend, Ref!Buf!BufferCapture, Ref!Buf!BufferOutput
  <2>7. QED
    BY <2>3, <2>4, <2>5, <2>6, BufferDoes
<1>10. /\ DOMAIN bmem' = {"a", "b", "c"}
       /\ Matrix(bmem'.a, MaxM, MaxK) /\ Matrix(bmem'.b, MaxK, MaxN) /\ Matrix(bmem'.c, MaxM, MaxN)
  <2>1. /\ DOMAIN bmem = {"a", "b", "c"}
        /\ Matrix(bmem.a, MaxM, MaxK) /\ Matrix(bmem.b, MaxK, MaxN) /\ Matrix(bmem.c, MaxM, MaxN)
    BY DEF RefShaped
  <2>2. CASE buf.state = "LOAD"
    <3> DEFINE f == IF AStream(a).valid /\ Ref!Buf!AInReady
                      THEN Unpack(bmem.a, AStream(a).word, buf.a, buf.m * buf.k, buf.k) ELSE bmem.a
               g == IF BStream(b).valid /\ Ref!Buf!BInReady
                      THEN Unpack(bmem.b, BStream(b).word, buf.b, buf.k * buf.n, buf.n) ELSE bmem.b
    <3>1. Ref!Buf!BufferLoad(AStream(a), BStream(b))
      BY <2>2, BufferDoes
    <3>2. bmem' = [bmem EXCEPT
                     !.a = IF AStream(a).valid /\ Ref!Buf!AInReady
                             THEN Ref!Buf!Spread(@, AStream(a).word, buf.a, buf.m * buf.k, buf.k) ELSE @,
                     !.b = IF BStream(b).valid /\ Ref!Buf!BInReady
                             THEN Ref!Buf!Spread(@, BStream(b).word, buf.b, buf.k * buf.n, buf.n) ELSE @]
      BY <3>1 DEF Ref!Buf!BufferLoad
    <3>3. [bmem EXCEPT !.a = f].b = bmem.b
      BY <2>1
    <3>4. bmem' = [bmem EXCEPT !.a = f, !.b = g]
      BY <3>2, <3>3, SpreadIs, Zenon
    <3>5. Matrix(f, MaxM, MaxK) /\ Matrix(g, MaxK, MaxN)
      BY <2>1, MatrixKept, Zenon
    <3> HIDE DEF f, g
    <3>6. bmem'.a = f /\ bmem'.b = g /\ bmem'.c = bmem.c /\ DOMAIN bmem' = {"a", "b", "c"}
      BY <2>1, <3>4
    <3>7. QED
      BY <2>1, <3>5, <3>6, Zenon
  <2>3. CASE buf.state = "CAPTURE"
    <3>1. \/ bmem' = bmem
          \/ \E i, v : bmem' = [bmem EXCEPT !.c[i] = v]
      BY <2>3, BufferDoes, Zenon DEF Ref!Buf!BufferCapture
    <3>2. ASSUME NEW i, NEW v, bmem' = [bmem EXCEPT !.c[i] = v]
          PROVE  /\ bmem'.a = bmem.a /\ bmem'.b = bmem.b /\ bmem'.c = [bmem.c EXCEPT ![i] = v]
                 /\ DOMAIN bmem' = {"a", "b", "c"}
      BY <2>1, <3>2
    <3>3. \A i, v : Matrix([bmem.c EXCEPT ![i] = v], MaxM, MaxN)
      BY <2>1, MatrixKept, Zenon
    <3>4. CASE bmem' = bmem
      BY <2>1, <3>4, Zenon
    <3>5. CASE \E i, v : bmem' = [bmem EXCEPT !.c[i] = v]
      <4>1. PICK i, v : bmem' = [bmem EXCEPT !.c[i] = v]
        BY <3>5, Zenon
      <4>2. /\ bmem'.a = bmem.a /\ bmem'.b = bmem.b /\ bmem'.c = [bmem.c EXCEPT ![i] = v]
            /\ DOMAIN bmem' = {"a", "b", "c"}
        BY <3>2, <4>1
      <4>3. Matrix([bmem.c EXCEPT ![i] = v], MaxM, MaxN)
        BY <3>3
      <4>4. QED
        BY <2>1, <4>2, <4>3, Zenon
    <3>6. QED
      BY <3>1, <3>4, <3>5, Zenon
  <2>4. CASE buf.state \notin {"LOAD", "CAPTURE"}
    <3>1. bmem' = bmem
      BY <2>4, BufferDoes DEF Ref!Buf!BufferIdle, Ref!Buf!BufferReady, Ref!Buf!BufferSend,
         Ref!Buf!BufferOutput
    <3>2. QED
      BY <2>1, <3>1, Zenon
  <2>5. QED
    BY <2>2, <2>3, <2>4
<1>11. QED
  <2>1. Matrix(bmem.a, MaxM, MaxK)' /\ Matrix(bmem.b, MaxK, MaxN)' /\ Matrix(bmem.c, MaxM, MaxN)'
    BY <1>10, Zenon DEF Matrix, Grid
  <2>2. QED
    BY <1>1, <1>5, <1>6, <1>7, <1>8, <1>9, <1>10, <2>1, Zenon DEF RefShaped, StartFields, BufFields, SchFields, AdpFields, TacFields, VectorWords

-----------------------------------------------------------------------------
(* The tile on offer, of what the scheduler holds.                           *)
Clipped(dim, at, tile) == IF dim - at < tile THEN dim - at ELSE tile
TileAt(s) ==
  LET kLen == Clipped(s.dk, s.k, s.tk)
  IN  [m |-> s.m, n |-> s.n, k |-> s.k,
       mLen |-> Clipped(s.dm, s.m, s.tm), nLen |-> Clipped(s.dn, s.n, s.tn), kLen |-> kLen,
       firstK |-> s.k = 0, lastK |-> s.k + kLen >= s.dk]

(* The elements of C that have their sum: the rows up to m, and of the next  *)
(* len rows those up to n.                                                   *)
FinalTo(cells, j, m, n, len) ==
  \A r \in 0 .. j.m - 1, c \in 0 .. j.n - 1 :
    r < m \/ (r < m + len /\ c < n) => cells[<<r, c>>] = Element(j, r, c)

AllFinal(cells, j) == \A r \in 0 .. j.m - 1, c \in 0 .. j.n - 1 : cells[<<r, c>>] = Element(j, r, c)

(* Words lo to hi - 1 of a tile, row by row as the array has them: in the    *)
(* accumulator with k terms summed, in the buffer with all.                  *)
Inside(T, w) == w \div N < T.mLen /\ w % N < T.nLen
SumsUpTo(f, j, T, lo, hi, k) ==
  \A w \in lo .. hi - 1 : Inside(T, w) => f[w] = Part(j, T.m + (w \div N), T.n + (w % N), k)
CapturedTo(cells, j, T, hi) ==
  \A w \in 0 .. hi - 1 :
    Inside(T, w) => cells[<<T.m + (w \div N), T.n + (w % N)>>] = Element(j, T.m + (w \div N), T.n + (w % N))

(* The vectors of a tile, as far as they have been sent.                     *)
RowWords == N \div 4
VectorsHold(f, g, j, T, words) ==
  \A w \in 0 .. words - 1, lane \in 0 .. 3 :
    /\ f[w][lane] = West(j, T, (w % RowWords) * 4 + lane, w \div RowWords)
    /\ g[w][lane] = North(j, T, (w % RowWords) * 4 + lane, w \div RowWords)

(* What holds of every job under way, and of parts of its course.            *)
Accepted ==
  /\ Legal(job) /\ startQ.q = FALSE /\ startQ.d = Descriptor(job)
  /\ buf.error = FALSE /\ buf.done = FALSE /\ dones = 0
  /\ buf.m = job.m /\ buf.n = job.n /\ buf.k = job.k
ChainRests == adp.state = "IDLE" /\ tac.state = "IDLE"
Quiet == buf.launch = FALSE /\ tac.tileDone = FALSE
Unscheduled == sch.dm = 0 /\ sch.inFlight = FALSE /\ sch.done = FALSE
OperandsIn == Holds(bmem.a, job.a, job.m, job.k) /\ Holds(bmem.b, job.b, job.k, job.n)
Scheduled ==
  /\ sch.dm = job.m /\ sch.dn = job.n /\ sch.dk = job.k
  /\ sch.tm = job.tm /\ sch.tn = job.tn /\ sch.tk = job.tk
  /\ sch.m \in 0 .. job.m - 1 /\ sch.n \in 0 .. job.n - 1 /\ sch.k \in 0 .. job.k - 1
  /\ sch.done = FALSE
  /\ OperandsIn
  /\ FinalTo(bmem.c, job, sch.m, sch.n, TileAt(sch).mLen)
InHand ==
  Accepted /\ passed = 0 /\ Scheduled /\ sch.inFlight = TRUE /\ buf.launch = FALSE /\ buf.tile = TileAt(sch)
Adding ==
  LET T == TileAt(sch)
  IN  /\ tac.state = "CONSUME" /\ tac.first = T.firstK /\ tac.last = T.lastK /\ tac.tileDone = FALSE
      /\ tac.in \in 0 .. N * N - 1
      /\ SumsUpTo(sums, job, T, 0, tac.in, T.k + T.kLen)
      /\ T.k = 0 \/ SumsUpTo(sums, job, T, tac.in, N * N, T.k)

(* Its stages: before it, *)
Resting ==
  /\ buf.state = "IDLE" /\ ChainRests /\ Quiet /\ Unscheduled /\ startQ.q = FALSE
  /\ Given => (buf.error = TRUE <=> ~Legal(job))
  /\ passed = IF Given /\ Legal(job) THEN Elements ELSE 0
  /\ dones + Taken(buf.done) = IF Given /\ Legal(job) THEN 1 ELSE 0
Latched ==
  /\ buf.state = "IDLE" /\ ChainRests /\ Quiet /\ Unscheduled
  /\ startQ.q = TRUE /\ startQ.d = Descriptor(job) /\ buf.done = FALSE
  /\ passed = 0 /\ dones = 0
Loading ==
  /\ buf.state = "LOAD" /\ Accepted /\ passed = 0 /\ ChainRests /\ Quiet /\ Unscheduled
  /\ buf.a \in Nat /\ Stored(bmem.a, job.a, job.m, job.k, buf.a)
  /\ buf.b \in Nat /\ Stored(bmem.b, job.b, job.k, job.n, buf.b)
Launching ==
  /\ buf.state = "READY" /\ Accepted /\ passed = 0 /\ ChainRests /\ Unscheduled
  /\ buf.launch = TRUE /\ tac.tileDone = FALSE /\ OperandsIn

(* tile after tile, *)
Offering ==
  /\ buf.state = "READY" /\ Accepted /\ passed = 0 /\ ChainRests /\ Quiet
  /\ Scheduled /\ sch.inFlight = FALSE
  /\ sch.k = 0 \/ SumsUpTo(sums, job, TileAt(sch), 0, N * N, sch.k)
Sending ==
  LET T == TileAt(sch)
  IN  /\ buf.state = "SEND" /\ InHand /\ Adding /\ tac.in = 0
      /\ adp.state = "LOAD" /\ adp.k = T.kLen
      /\ buf.word \in 0 .. T.kLen * RowWords - 1 /\ adp.a = buf.word /\ adp.b = buf.word
      /\ VectorsHold(vectors.a, vectors.b, job, T, buf.word)
Streaming ==
  LET T == TileAt(sch)
  IN  /\ buf.state = "CAPTURE" /\ buf.c = 0 /\ InHand /\ Adding /\ tac.in = 0
      /\ adp.k = T.kLen
      /\ VectorsHold(vectors.a, vectors.b, job, T, T.kLen * RowWords)
      /\ \/ adp.state = "CLEAR"
         \/ adp.state = "FEED" /\ adp.feedK \in 0 .. T.kLen - 1 /\ ArrayHolds(job, T, adp.feedK, arr)
         \/ /\ adp.state = "DRAIN" /\ adp.drain \in 0 .. 2 * N - 2
            /\ ArrayHolds(job, T, T.kLen + adp.drain, arr)
Summing ==
  LET T == TileAt(sch)
  IN  /\ buf.state = "CAPTURE" /\ buf.c = 0 /\ InHand /\ Adding
      /\ adp.state = "OUTPUT" /\ adp.c = tac.in
      /\ ArrayHolds(job, T, T.kLen + (2 * N - 1), arr)
Capturing ==
  LET T == TileAt(sch)
  IN  /\ buf.state = "CAPTURE" /\ InHand /\ T.lastK
      /\ adp.state = "IDLE" /\ tac.state = "OUTPUT" /\ tac.tileDone = FALSE
      /\ tac.out \in 0 .. N * N - 1 /\ buf.c = tac.out
      /\ SumsUpTo(sums, job, T, 0, N * N, job.k)
      /\ CapturedTo(bmem.c, job, T, buf.c)
Told ==
  LET T == TileAt(sch)
  IN  /\ InHand /\ ChainRests /\ tac.tileDone = TRUE
      /\ IF T.lastK THEN buf.state = "READY" /\ CapturedTo(bmem.c, job, T, N * N)
         ELSE buf.state = "CAPTURE" /\ SumsUpTo(sums, job, T, 0, N * N, T.k + T.kLen)

(* and after it.                                                             *)
Finished ==
  /\ buf.state = "READY" /\ Accepted /\ passed = 0 /\ ChainRests /\ Quiet
  /\ sch.dm = 0 /\ sch.inFlight = FALSE /\ sch.done = TRUE
  /\ AllFinal(bmem.c, job)
Delivering ==
  /\ buf.state = "OUTPUT" /\ Accepted /\ ChainRests /\ Quiet /\ Unscheduled
  /\ passed \in 0 .. Elements - 1 /\ buf.out = passed
  /\ AllFinal(bmem.c, job)

RefStage ==
  \/ Resting \/ Latched \/ Loading \/ Launching \/ Offering \/ Sending \/ Streaming \/ Summing
  \/ Capturing \/ Told \/ Finished \/ Delivering

RefInv == ~Pipelined => RefShaped /\ RefStage /\ sch.error = FALSE /\ adp.error = FALSE

LEMMA JobOk ==
  ASSUME Known, ~Pipelined
  PROVE  /\ Sound(job) /\ Typed(job)
         /\ job.tm \in 1 .. N /\ job.tn \in 1 .. N /\ job.tm % 4 = 0 /\ job.tn % 4 = 0
         /\ job.tk \in 1 .. MaxK /\ job.tk \in Nat
<1>1. path = "reference" /\ job \in Jobs["reference"]
  BY DEF Known, Pipelined, Paths
<1>2. TilesFit(job)
  BY <1>1, ComputeBenchAssumption
<1>3. Typed(job)
  BY JobTyped
<1>4. job.tk \in Nat \ {0}
  BY <1>3 DEF Typed
<1>5. QED
  BY <1>2, <1>3, <1>4, SoundJob, Sizes DEF TilesFit, TileFits

LEMMA LegalDims ==
  ASSUME Known, ~Pipelined
  PROVE  Legal(job) <=> job.m \in 1 .. MaxM /\ job.n \in 1 .. MaxN /\ job.k \in 1 .. MaxK
<1>1. job.m \in Nat \ {0} /\ job.n \in Nat \ {0} /\ job.k \in Nat \ {0} /\ TilesFit(job)
  BY JobOk DEF Sound, TilesFit, TileFits
<1>2. QED
  BY <1>1, Sizes DEF Legal

LEMMA TileIs ==
  /\ Ref!Sch!Tile = TileAt(sch)
  /\ Ref!Sch!FirstK = TileAt(sch).firstK /\ Ref!Sch!LastK = TileAt(sch).lastK
  /\ Ref!Sch!MLen = TileAt(sch).mLen /\ Ref!Sch!NLen = TileAt(sch).nLen /\ Ref!Sch!KLen = TileAt(sch).kLen
  /\ Ref!Sch!Tile.kLen = TileAt(sch).kLen
<1>1. /\ Ref!Sch!MLen = Clipped(sch.dm, sch.m, sch.tm) /\ Ref!Sch!NLen = Clipped(sch.dn, sch.n, sch.tn)
      /\ Ref!Sch!KLen = Clipped(sch.dk, sch.k, sch.tk)
  BY Zenon DEF Ref!Sch!MLen, Ref!Sch!NLen, Ref!Sch!KLen, Ref!Sch!Clip, Clipped
<1>2. QED
  BY <1>1 DEF Ref!Sch!Tile, TileAt, Ref!Sch!FirstK, Ref!Sch!LastK

LEMMA TileOk ==
  ASSUME Known, ~Pipelined, Legal(job), Scheduled
  PROVE  LET T == TileAt(sch)
         IN  /\ TileOf(job, T) /\ Ref!Sch!SchedulerBusy
             /\ T.m = sch.m /\ T.n = sch.n /\ T.k = sch.k /\ T.firstK \in BOOLEAN /\ (T.firstK <=> T.k = 0)
             /\ T.kLen \in 1 .. MaxK /\ T.kLen % 65536 = T.kLen
             /\ T.lastK \in BOOLEAN /\ (T.lastK => T.k + T.kLen = job.k) /\ (~T.lastK => T.k + T.kLen < job.k)
<1> DEFINE T == TileAt(sch)
<1>0. T.firstK = (sch.k = 0) /\ T.lastK = (sch.k + Clipped(sch.dk, sch.k, sch.tk) >= sch.dk)
  BY DEF TileAt
<1>1. /\ T.m = sch.m /\ T.n = sch.n /\ T.k = sch.k
      /\ T.mLen = Clipped(job.m, sch.m, job.tm) /\ T.nLen = Clipped(job.n, sch.n, job.tn)
      /\ T.kLen = Clipped(job.k, sch.k, job.tk)
      /\ T.firstK = (T.k = 0) /\ T.lastK = (T.k + T.kLen >= job.k)
  BY <1>0 DEF Scheduled, TileAt
<1>10. /\ T.firstK \in BOOLEAN /\ (T.firstK <=> T.k = 0)
       /\ T.lastK \in BOOLEAN /\ (T.lastK <=> T.k + T.kLen >= job.k)
  <2> HIDE DEF T
  <2>1. T.firstK \in BOOLEAN
    BY <1>1
  <2>2. T.firstK <=> T.k = 0
    BY <1>1
  <2>3. T.lastK \in BOOLEAN
    BY <1>1
  <2>4. T.lastK <=> T.k + T.kLen >= job.k
    BY <1>1
  <2>5. QED
    BY <2>1, <2>2, <2>3, <2>4
<1>2. /\ sch.m \in 0 .. job.m - 1 /\ sch.n \in 0 .. job.n - 1 /\ sch.k \in 0 .. job.k - 1
      /\ job.m \in Nat \ {0} /\ job.n \in Nat \ {0} /\ job.k \in Nat \ {0}
      /\ job.tm \in 1 .. N /\ job.tn \in 1 .. N /\ job.tk \in 1 .. MaxK
      /\ N \in Nat \ {0} /\ MaxK \in Nat /\ MaxK < 65536
  BY JobOk, Sizes, ComputeBenchAssumption DEF Scheduled, Sound
<1> HIDE DEF T
<1>3. /\ T.mLen \in Nat \ {0} /\ sch.m + T.mLen <= job.m /\ T.mLen <= N
      /\ T.nLen \in Nat \ {0} /\ sch.n + T.nLen <= job.n /\ T.nLen <= N
      /\ T.kLen \in Nat \ {0} /\ sch.k + T.kLen <= job.k /\ T.kLen <= MaxK
  BY <1>1, <1>2 DEF Clipped
<1>4. TileOf(job, T)
  BY <1>1, <1>2, <1>3 DEF TileOf
<1>5. Ref!Sch!SchedulerBusy
  BY <1>2 DEF Scheduled, Ref!Sch!SchedulerBusy
<1>6. T.kLen % 65536 = T.kLen
  BY <1>2, <1>3
<1>7. T.kLen \in 1 .. MaxK
  BY <1>2, <1>3
<1>8. T.lastK \in BOOLEAN /\ (T.lastK => T.k + T.kLen = job.k) /\ (~T.lastK => T.k + T.kLen < job.k)
  BY <1>1, <1>2, <1>3, <1>10
<1>9. QED
  BY <1>1, <1>4, <1>5, <1>6, <1>7, <1>8, <1>10 DEF T

LEMMA WordCell ==
  ASSUME NEW w \in 0 .. N * N - 1
  PROVE  /\ w \div N \in Lanes /\ w % N \in Lanes
         /\ w \div N \in Nat /\ w % N \in Nat
<1>1. N \in Nat \ {0} /\ N \in Nat
  BY Sizes
<1>2. w \div N \in 0 .. N - 1 /\ w % N \in 0 .. N - 1
  <2>1. QED
    BY <1>1, RowInRange
<1>3. QED
  <2> DEFINE x == w \div N
             y == w % N
  <2>1. x \in 0 .. N - 1 /\ y \in 0 .. N - 1
    BY <1>2
  <2> HIDE DEF x, y
  <2>2. x \in Lanes /\ y \in Lanes /\ x \in Nat /\ y \in Nat
    BY <1>1, <2>1 DEF Lanes
  <2>3. QED
    BY <2>2 DEF x, y

LEMMA CellWord ==
  ASSUME NEW r \in Lanes, NEW c \in Lanes
  PROVE  LET w == N * r + c IN w \in 0 .. N * N - 1 /\ w \div N = r /\ w % N = c
<1>1. N \in Nat \ {0} /\ r \in 0 .. N - 1 /\ c \in 0 .. N - 1 /\ r \in Int
  BY Sizes DEF Lanes
<1>2. r * N + c \in 0 .. N * N - 1
  BY <1>1, CellInRange
<1>3. N * r = r * N
  BY <1>1, Z3
<1>4. (N * r + c) \div N = r /\ (N * r + c) % N = c
  BY <1>1, QuotientUnique, RemainderUnique
<1>5. QED
  BY <1>2, <1>3, <1>4

(* A tile captured whole widens what is final. *)
LEMMA FinalWidens ==
  ASSUME NEW j, Sound(j), NEW T, TileOf(j, T), NEW cells, CapturedTo(cells, j, T, N * N),
         FinalTo(cells, j, T.m, T.n, T.mLen)
  PROVE  FinalTo(cells, j, T.m, T.n + T.nLen, T.mLen)
<1> SUFFICES ASSUME NEW r \in 0 .. j.m - 1, NEW c \in 0 .. j.n - 1,
                    r < T.m \/ (r < T.m + T.mLen /\ c < T.n + T.nLen)
             PROVE  cells[<<r, c>>] = Element(j, r, c)
  BY DEF FinalTo
<1>1. CASE r < T.m \/ (r < T.m + T.mLen /\ c < T.n)
  BY <1>1, Zenon DEF FinalTo
<1>2. CASE ~(r < T.m \/ (r < T.m + T.mLen /\ c < T.n))
  <2> DEFINE x == r - T.m
             y == c - T.n
             w == N * x + y
  <2>1. /\ x \in Lanes /\ y \in Lanes /\ x < T.mLen /\ y < T.nLen /\ T.m + x = r /\ T.n + y = c
    BY <1>2, Sizes DEF TileOf, Sound, Lanes
  <2> HIDE DEF x, y
  <2>2. w \in 0 .. N * N - 1 /\ w \div N = x /\ w % N = y
    BY <2>1, CellWord
  <2> HIDE DEF w
  <2>3. Inside(T, w)
    BY <2>1, <2>2 DEF Inside
  <2>4. cells[<<T.m + (w \div N), T.n + (w % N)>>] = Element(j, T.m + (w \div N), T.n + (w % N))
    BY <2>2, <2>3, Zenon DEF CapturedTo
  <2>5. QED
    BY <2>1, <2>2, <2>4
<1>3. QED
  BY <1>1, <1>2

LEMMA FinalWraps ==
  ASSUME NEW j, Sound(j), NEW cells, NEW m \in Nat, NEW n \in Nat, NEW len \in Nat,
         FinalTo(cells, j, m, n, len), n >= j.n
  PROVE  /\ \A more : FinalTo(cells, j, m + len, 0, more)
         /\ m + len >= j.m => AllFinal(cells, j)
  BY DEF FinalTo, AllFinal, Sound

LEMMA FinalAtStart == \A cells, j, len : FinalTo(cells, j, 0, 0, len)
  BY DEF FinalTo

(* Writing an element where it belongs harms nothing that is final.          *)
LEMMA FinalStays ==
  ASSUME NEW j, NEW cells, NEW x, NEW y, <<x, y>> \in DOMAIN cells,
         NEW m, NEW n, NEW len, FinalTo(cells, j, m, n, len)
  PROVE  FinalTo([cells EXCEPT ![<<x, y>>] = Element(j, x, y)], j, m, n, len)
<1> DEFINE new == [cells EXCEPT ![<<x, y>>] = Element(j, x, y)]
<1>1. \A r, c : new[<<r, c>>] = IF r = x /\ c = y THEN Element(j, x, y) ELSE cells[<<r, c>>]
  OBVIOUS
<1> HIDE DEF new
<1>2. FinalTo(new, j, m, n, len)
  BY <1>1 DEF FinalTo
<1>3. QED
  BY <1>2 DEF new

(* A clock with no start.                                                    *)
OnClock(a, b, sink) ==
  /\ RefBlocks(FALSE, Ref!NoJob.d, a, b, sink)
  /\ job' = job /\ path' = path /\ startQ'.q = FALSE /\ startQ'.d = startQ.d
  /\ buf.state = "OUTPUT" /\ RawReady(sink) => passed' = passed + 1
  /\ ~(buf.state = "OUTPUT" /\ RawReady(sink)) => passed' = passed
  /\ dones' = dones + Taken(buf.done)

LEMMA CycleIs ==
  ASSUME Known, ~Pipelined, RefShaped, NEW a, NEW b, NEW sink, Cycle(a, b, sink),
         passed \in Int
  PROVE  OnClock(a, b, sink)
<1>1. Clock(FALSE, Ref!NoJob.d, a, b, sink)
  BY DEF Cycle
<1>2. RefBlocks(FALSE, Ref!NoJob.d, a, b, sink)
  BY <1>1, RefClock
<1>3. startQ' = [startQ EXCEPT !.q = FALSE]
  BY <1>2 DEF RefBlocks
<1>4. startQ'.q = FALSE /\ startQ'.d = startQ.d
  BY <1>3 DEF RefShaped, StartFields
<1>5. path' = path /\ job' = job
  BY <1>1 DEF Clock, Cycle
<1>6. passed' = passed + Taken(Valid /\ RawReady(sink)) /\ dones' = dones + Taken(Done)
  BY DEF Cycle
<1>7. (Valid <=> buf.state = "OUTPUT") /\ Done = buf.done
  BY DEF Valid, Done, Ref!Buf!COutValid
<1>8. /\ buf.state = "OUTPUT" /\ RawReady(sink) => passed' = passed + 1
      /\ ~(buf.state = "OUTPUT" /\ RawReady(sink)) => passed' = passed
  BY <1>6, <1>7 DEF Taken
<1>9. QED
  BY <1>2, <1>4, <1>5, <1>6, <1>7, <1>8 DEF OnClock

(* The parts that stand by while another moves.                              *)
LEMMA ChainIdles ==
  ASSUME RefShaped, NEW start, NEW d, NEW a, NEW b, NEW sink, RefBlocks(start, d, a, b, sink), ChainRests,
         ~(Ref!Sch!TileValid /\ buf.state = "READY")
  PROVE  adp' = adp /\ ChainRests' /\ tac'.tileDone = FALSE /\ sums' = sums
<1>3. adp' = adp
  <2> DEFINE go == Ref!Sch!TileValid /\ buf.state = "READY"
             len == Ref!Sch!Tile.kLen % 65536
  <2>1. Ref!Adp!AdapterIdle(go, len)
    BY AdapterDoes DEF ChainRests
  <2>2. ~go
    OBVIOUS
  <2> HIDE DEF go, len
  <2>3. QED
    BY <2>1, <2>2 DEF Ref!Adp!AdapterIdle
<1>4. sums' = sums /\ tac' = [tac EXCEPT !.tileDone = FALSE]
  <2> DEFINE go == Ref!Sch!TileValid /\ buf.state = "READY"
             f == Ref!Sch!FirstK
             l == Ref!Sch!LastK
  <2>1. Ref!Acc!Rest(go, f, l)
    BY AccumulatorDoes, Zenon DEF ChainRests
  <2>2. ~go
    OBVIOUS
  <2> HIDE DEF go, f, l
  <2>3. QED
    BY <2>1, <2>2 DEF Ref!Acc!Rest
<1>5. tac'.tileDone = FALSE /\ tac'.state = tac.state
  BY <1>4 DEF RefShaped, TacFields
<1>6. QED
  BY <1>3, <1>4, <1>5 DEF ChainRests

LEMMA SchedulerIdles ==
  ASSUME RefShaped, NEW start, NEW d, NEW a, NEW b, NEW sink, RefBlocks(start, d, a, b, sink),
         buf.launch = FALSE, sch.dm = 0, sch.inFlight = FALSE
  PROVE  Unscheduled' /\ sch'.error = sch.error
<1>1. Ref!Sch!SchedulerClock(buf.launch, startQ.d, buf.state = "READY", tac.tileDone)
  BY DEF RefBlocks
<1>2. ~Ref!Sch!TileValid
  BY DEF Ref!Sch!TileValid, Ref!Sch!SchedulerBusy
<1>3. sch' = [sch EXCEPT !.done = FALSE]
  BY <1>1, <1>2 DEF Ref!Sch!SchedulerClock
<1>4. QED
  BY <1>3 DEF Unscheduled, RefShaped, SchFields

SameTile ==
  /\ sch'.m = sch.m /\ sch'.n = sch.n /\ sch'.k = sch.k
  /\ sch'.dm = sch.dm /\ sch'.dn = sch.dn /\ sch'.dk = sch.dk
  /\ sch'.tm = sch.tm /\ sch'.tn = sch.tn /\ sch'.tk = sch.tk
  /\ sch'.done = FALSE /\ sch'.error = sch.error

LEMMA TileStays ==
  ASSUME SameTile
  PROVE  TileAt(sch)' = TileAt(sch)
  BY DEF SameTile, TileAt

LEMMA SchedulerWaits ==
  ASSUME RefShaped, NEW a, NEW b, NEW sink, OnClock(a, b, sink),
         InHand, tac.tileDone = FALSE
  PROVE  SameTile /\ sch'.inFlight = TRUE
<1>1. Ref!Sch!SchedulerClock(buf.launch, startQ.d, buf.state = "READY", tac.tileDone)
  BY DEF RefBlocks, OnClock
<1>2. sch' = [sch EXCEPT !.done = FALSE]
  BY <1>1 DEF Ref!Sch!SchedulerClock, Ref!Sch!TileValid, InHand
<1>3. QED
  BY <1>2 DEF SameTile, RefShaped, SchFields, InHand

(* The buffer in another state, or in the same.                              *)
SameBuffer ==
  /\ buf'.m = buf.m /\ buf'.n = buf.n /\ buf'.k = buf.k /\ buf'.error = buf.error
  /\ buf'.done = FALSE

LEMMA Goes ==
  ASSUME RefShaped, NEW s
  PROVE  LET b == Ref!Buf!Go(s)
         IN  /\ b.state = s /\ b.launch = FALSE /\ b.done = FALSE /\ DOMAIN b = BufFields
             /\ b.m = buf.m /\ b.n = buf.n /\ b.k = buf.k /\ b.a = buf.a /\ b.b = buf.b /\ b.word = buf.word
             /\ b.c = buf.c /\ b.out = buf.out /\ b.tile = buf.tile /\ b.error = buf.error
  BY DEF Ref!Buf!Go, RefShaped, BufFields

LEMMA AcceptedStays ==
  ASSUME NEW a, NEW b, NEW sink, OnClock(a, b, sink), Accepted, SameBuffer
  PROVE  Accepted'
<1>1. dones' = 0
  BY DEF OnClock, Accepted, Taken
<1>2. Legal(job)' /\ Descriptor(job)' = Descriptor(job)
  BY Zenon DEF OnClock, Accepted, Legal, TilesFit, TileFits, Descriptor
<1>3. QED
  BY <1>1, <1>2 DEF OnClock, Accepted, SameBuffer

LEMMA ScheduledStays ==
  ASSUME Scheduled, SameTile, job' = job, bmem'.a = bmem.a, bmem'.b = bmem.b,
         FinalTo(bmem'.c, job, sch.m, sch.n, TileAt(sch).mLen)
  PROVE  Scheduled' /\ TileAt(sch)' = TileAt(sch)
<1>1. TileAt(sch)' = TileAt(sch)
  BY TileStays
<1>2. OperandsIn'
  <2>1. OperandsIn
    BY DEF Scheduled
  <2>2. Holds(bmem'.a, job'.a, job'.m, job'.k) /\ Holds(bmem'.b, job'.b, job'.k, job'.n)
    BY <2>1 DEF OperandsIn
  <2>3. QED
    BY <2>2, Zenon DEF OperandsIn, Holds
<1>3. FinalTo(bmem.c, job, sch.m, sch.n, TileAt(sch).mLen)'
  <2>1. FinalTo(bmem'.c, job', sch'.m, sch'.n, TileAt(sch)'.mLen)
    BY <1>1 DEF SameTile
  <2>2. QED
    BY <2>1, Zenon DEF FinalTo, Element, Part, Terms
<1>4. QED
  BY <1>1, <1>2, <1>3 DEF Scheduled, SameTile

LEMMA HandStays ==
  ASSUME RefShaped, NEW a, NEW b, NEW sink, OnClock(a, b, sink), InHand, SameBuffer,
         tac.tileDone = FALSE, buf.state # "OUTPUT",
         buf'.launch = FALSE, buf'.tile = buf.tile, bmem'.a = bmem.a, bmem'.b = bmem.b,
         FinalTo(bmem'.c, job, sch.m, sch.n, TileAt(sch).mLen)
  PROVE  InHand' /\ TileAt(sch)' = TileAt(sch) /\ sch'.error = sch.error
<1>1. SameTile /\ sch'.inFlight = TRUE
  BY SchedulerWaits
<1>2. job' = job /\ passed' = passed
  BY DEF OnClock
<1>3. Accepted'
  BY AcceptedStays DEF InHand
<1>4. Scheduled' /\ TileAt(sch)' = TileAt(sch)
  BY <1>1, <1>2, ScheduledStays DEF InHand
<1>5. QED
  BY <1>1, <1>2, <1>3, <1>4 DEF InHand, SameTile

Sane == sch.error = FALSE /\ adp.error = FALSE

LEMMA JobStays ==
  ASSUME job' = job
  PROVE  /\ (Legal(job)' <=> Legal(job)) /\ Elements' = Elements /\ Descriptor(job)' = Descriptor(job)
         /\ (Typed(job)' <=> Typed(job))
<1>1. Elements' = Elements
  BY DEF Elements
<1>2. Descriptor(job)' = Descriptor(job)
  BY Zenon DEF Descriptor
<1>3. Legal(job)' <=> Legal(job)
  BY Zenon DEF Legal, TilesFit, TileFits
<1>4. Typed(job)' <=> Typed(job)
  BY Zenon DEF Typed
<1>5. QED
  BY <1>1, <1>2, <1>3, <1>4, Zenon

LEMMA RestingOn ==
  ASSUME RefShaped, Sane, Resting, NEW a, NEW b, NEW sink, OnClock(a, b, sink)
  PROVE  Resting' /\ Sane'
<1>1. RefBlocks(FALSE, Ref!NoJob.d, a, b, sink) /\ job' = job
  BY DEF OnClock
<1>2. buf' = Ref!Buf!Go("IDLE")
  BY <1>1, BufferDoes DEF Resting, Ref!Buf!BufferIdle
<1>3. /\ buf'.state = "IDLE" /\ buf'.launch = FALSE /\ buf'.done = FALSE /\ buf'.error = buf.error
  BY <1>2, Goes
<1>4. adp' = adp /\ ChainRests' /\ tac'.tileDone = FALSE
  BY <1>1, ChainIdles DEF Resting
<1>5. Unscheduled' /\ sch'.error = sch.error
  BY <1>1, SchedulerIdles DEF Resting, Quiet, Unscheduled
<1>6. passed' = passed /\ dones' = dones + Taken(buf.done) /\ startQ'.q = FALSE /\ startQ'.d = startQ.d
  BY DEF OnClock, Resting
<1>7. (Given' <=> Given) /\ (Legal(job)' <=> Legal(job)) /\ Elements' = Elements
  BY <1>1, <1>6, JobStays DEF Given
<1>8. dones' + Taken(buf.done)' = dones + Taken(buf.done)
  BY <1>3, <1>6 DEF Resting, Taken
<1>9. Quiet'
  BY <1>3, <1>4 DEF Quiet
<1>10. QED
  BY <1>1, <1>3, <1>4, <1>5, <1>6, <1>7, <1>8, <1>9 DEF Resting, Sane

LEMMA RestingStarts ==
  ASSUME Known, ~Pipelined, RefShaped, Sane, Resting, Start
  PROVE  Latched' /\ Sane' /\ RefShaped'
<1>1. PICK j \in Jobs[path] :
        /\ Over /\ Clock(TRUE, Descriptor(j), FALSE, FALSE, FALSE)
        /\ job' = j /\ passed' = 0 /\ dones' = 0
  BY DEF Start
<1>2. RefBlocks(TRUE, Descriptor(j), FALSE, FALSE, FALSE)
  BY <1>1, RefClock
<1>3. RefShaped'
  BY <1>2, ShapedClock
<1>4. buf' = Ref!Buf!Go("IDLE")
  BY <1>2, BufferDoes DEF Resting, Ref!Buf!BufferIdle
<1>5. buf'.state = "IDLE" /\ buf'.launch = FALSE /\ buf'.done = FALSE
  BY <1>4, Goes
<1>6. adp' = adp /\ ChainRests' /\ tac'.tileDone = FALSE
  BY <1>2, ChainIdles DEF Resting
<1>7. Unscheduled' /\ sch'.error = sch.error
  BY <1>2, SchedulerIdles DEF Resting, Quiet, Unscheduled
<1>8. ~Ref!PathBusy
  BY <1>1 DEF Over, Busy
<1>9. startQ' = [q |-> TRUE, d |-> Descriptor(j)]
  BY <1>2, <1>8 DEF RefBlocks
<1>10. startQ'.q = TRUE /\ startQ'.d = Descriptor(j)
  BY <1>9
<1>11. Descriptor(job)' = Descriptor(j)
  BY <1>1, Zenon DEF Descriptor
<1>12. QED
  BY <1>1, <1>3, <1>5, <1>6, <1>7, <1>10, <1>11 DEF Latched, Sane, Quiet

LEMMA LatchedOn ==
  ASSUME Known, ~Pipelined, RefShaped, Sane, Latched, NEW a, NEW b, NEW sink, OnClock(a, b, sink)
  PROVE  (Loading' \/ Resting') /\ Sane'
<1>1. RefBlocks(FALSE, Ref!NoJob.d, a, b, sink) /\ job' = job
  BY DEF OnClock
<1>2. adp' = adp /\ ChainRests' /\ tac'.tileDone = FALSE
  BY <1>1, ChainIdles DEF Latched
<1>3. Unscheduled' /\ sch'.error = sch.error
  BY <1>1, SchedulerIdles DEF Latched, Quiet, Unscheduled
<1>4. /\ startQ.d = Descriptor(job) /\ startQ.d.m = job.m /\ startQ.d.n = job.n /\ startQ.d.k = job.k
  BY DEF Latched, Descriptor
<1>5. /\ passed' = 0 /\ dones' = 0 /\ startQ'.q = FALSE /\ startQ'.d = Descriptor(job)
  BY <1>4 DEF OnClock, Latched, Taken
<1>6. Ref!Buf!BufferIdle(TRUE, startQ.d)
  <2>1. Ref!Buf!BufferIdle(startQ.q, startQ.d) /\ startQ.q = TRUE
    BY <1>1, BufferDoes DEF Latched
  <2>2. QED
    BY <2>1
<1>7. Legal(job) <=> job.m \in 1 .. MaxM /\ job.n \in 1 .. MaxN /\ job.k \in 1 .. MaxK
  BY LegalDims
<1>8. (Legal(job)' <=> Legal(job)) /\ Descriptor(job)' = Descriptor(job) /\ Elements' = Elements
  BY <1>1, JobStays
<1>9. Given'
  <2>1. job.m \in Nat \ {0}
    BY JobOk DEF Sound
  <2>2. QED
    BY <1>4, <1>5, <2>1 DEF Given
<1>10. CASE Legal(job)
  <2>1. buf' = [Ref!Buf!Go("LOAD") EXCEPT !.m = job.m, !.n = job.n, !.k = job.k, !.a = 0, !.b = 0, !.error = FALSE]
    BY <1>4, <1>6, <1>7, <1>10 DEF Ref!Buf!BufferIdle
  <2> DEFINE g == Ref!Buf!Go("LOAD")
  <2>2. g.state = "LOAD" /\ g.launch = FALSE /\ g.done = FALSE /\ DOMAIN g = BufFields
    BY Goes
  <2>3. buf' = [g EXCEPT !.m = job.m, !.n = job.n, !.k = job.k, !.a = 0, !.b = 0, !.error = FALSE]
    BY <2>1
  <2> HIDE DEF g
  <2>4. /\ buf'.state = "LOAD" /\ buf'.launch = FALSE /\ buf'.done = FALSE /\ buf'.error = FALSE
        /\ buf'.m = job.m /\ buf'.n = job.n /\ buf'.k = job.k /\ buf'.a = 0 /\ buf'.b = 0
    BY <2>2, <2>3 DEF BufFields
  <2>5. \A cells, operand, rows, cols : Stored(cells, operand, rows, cols, 0) 
          <=> \A r \in 0 .. rows - 1, c \in 0 .. cols - 1 :
                (r * cols + c) \div 4 < 0 => cells[<<r, c>>] = operand[<<r, c>>]
    BY Zenon DEF Stored
  <2>6. \A cells, operand : \A rows, cols \in Nat \ {0} : Stored(cells, operand, rows, cols, 0)
    <3> SUFFICES ASSUME NEW cells, NEW operand, NEW rows \in Nat \ {0}, NEW cols \in Nat \ {0},
                        NEW r \in 0 .. rows - 1, NEW c \in 0 .. cols - 1
                 PROVE  ~((r * cols + c) \div 4 < 0)
      BY <2>5
    <3> DEFINE n == r * cols + c
    <3>1. n \in Nat
      <4>1. r * cols \in Nat
        BY Z3
      <4>2. QED
        BY <4>1
    <3> HIDE DEF n
    <3>2. ~(n \div 4 < 0)
      BY <3>1
    <3>3. QED
      BY <3>2 DEF n
  <2>7. job.m \in Nat \ {0} /\ job.n \in Nat \ {0} /\ job.k \in Nat \ {0}
    BY JobOk DEF Sound
  <2>8. /\ Stored(bmem'.a, job.a, job.m, job.k, 0)
        /\ Stored(bmem'.b, job.b, job.k, job.n, 0)
    BY <2>6, <2>7, Zenon
  <2>9. /\ Stored(bmem.a, job.a, job.m, job.k, buf.a)'
        /\ Stored(bmem.b, job.b, job.k, job.n, buf.b)'
    BY <1>1, <2>4, <2>8, Zenon DEF Stored
  <2>10. Accepted'
    BY <1>1, <1>5, <1>8, <1>10, <2>4 DEF Accepted
  <2>11. QED
    BY <1>2, <1>3, <1>5, <2>4, <2>9, <2>10 DEF Loading, Sane, Quiet
<1>11. CASE ~Legal(job)
  <2>1. buf' = [Ref!Buf!Go("IDLE") EXCEPT !.error = TRUE]
    BY <1>4, <1>6, <1>7, <1>11 DEF Ref!Buf!BufferIdle
  <2> DEFINE g == Ref!Buf!Go("IDLE")
  <2>2. g.state = "IDLE" /\ g.launch = FALSE /\ g.done = FALSE /\ DOMAIN g = BufFields
    BY Goes
  <2>3. buf' = [g EXCEPT !.error = TRUE]
    BY <2>1
  <2> HIDE DEF g
  <2>4. buf'.state = "IDLE" /\ buf'.launch = FALSE /\ buf'.done = FALSE /\ buf'.error = TRUE
    BY <2>2, <2>3 DEF BufFields
  <2>5. dones' + Taken(buf.done)' = 0
    BY <1>5, <2>4 DEF Taken
  <2>6. QED
    BY <1>2, <1>3, <1>5, <1>8, <1>11, <2>4, <2>5 DEF Resting, Sane, Quiet
<1>12. QED
  BY <1>10, <1>11

(* One operand, taken or not.                                                *)
LEMMA LoadsOn ==
  ASSUME NEW x \in Nat, NEW y \in Nat, NEW cells, Matrix(cells, x, y),
         NEW rows \in 1 .. x, NEW cols \in 1 .. y, NEW operand,
         \A r \in 0 .. rows - 1, c \in 0 .. cols - 1 : operand[<<r, c>>] \in -128 .. 127,
         NEW words \in Nat, Stored(cells, operand, rows, cols, words), NEW next, NEW new,
         \/ next = words /\ new = cells
         \/ /\ next = words + 1
            /\ new = Ref!Buf!Spread(cells, WordAt(operand, rows, cols, words, Padding), words,
                                    rows * cols, cols)
  PROVE  next \in Nat /\ Stored(new, operand, rows, cols, next)
<1> DEFINE word == WordAt(operand, rows, cols, words, Padding)
<1>1. Stored(Unpack(cells, word, words, rows * cols, cols), operand, rows, cols, words + 1)
  BY StoresOn
<1>2. words + 1 \in Nat
  OBVIOUS
<1>3. QED
  BY <1>1, <1>2, SpreadIs, Zenon

LEMMA LoadingOn ==
  ASSUME Known, ~Pipelined, RefShaped, Sane, Loading, NEW a, NEW b, NEW sink, OnClock(a, b, sink)
  PROVE  (Loading' \/ Launching') /\ Sane'
<1>1. RefBlocks(FALSE, Ref!NoJob.d, a, b, sink) /\ job' = job /\ passed' = passed
  BY DEF OnClock, Loading
<1>2. adp' = adp /\ ChainRests' /\ tac'.tileDone = FALSE
  BY <1>1, ChainIdles DEF Loading
<1>3. Unscheduled' /\ sch'.error = sch.error
  BY <1>1, SchedulerIdles DEF Loading, Quiet, Unscheduled
<1>4. Ref!Buf!BufferLoad(AStream(a), BStream(b))
  BY <1>1, BufferDoes DEF Loading
<1>5. /\ job.m \in 1 .. MaxM /\ job.n \in 1 .. MaxN /\ job.k \in 1 .. MaxK /\ Sound(job)
      /\ buf.m = job.m /\ buf.n = job.n /\ buf.k = job.k
  BY LegalDims, JobOk DEF Loading, Accepted
<1> DEFINE wa == WordAt(job.a, job.m, job.k, buf.a, Padding)
           wb == WordAt(job.b, job.k, job.n, buf.b, Padding)
           takeA == AStream(a).valid /\ Ref!Buf!AInReady
           takeB == BStream(b).valid /\ Ref!Buf!BInReady
           nextA == IF takeA THEN buf.a + 1 ELSE buf.a
           nextB == IF takeB THEN buf.b + 1 ELSE buf.b
           newA == IF takeA THEN Ref!Buf!Spread(bmem.a, wa, buf.a, job.m * job.k, job.k) ELSE bmem.a
           newB == IF takeB THEN Ref!Buf!Spread(bmem.b, wb, buf.b, job.k * job.n, job.n) ELSE bmem.b
           whole == nextA >= Ref!Buf!AWords /\ nextB >= Ref!Buf!BWords
           s == IF whole THEN "READY" ELSE "LOAD"
<1>6. AStream(a).word = wa /\ BStream(b).word = wb
  BY DEF AStream, BStream
<1>7. /\ bmem' = [bmem EXCEPT !.a = newA, !.b = newB]
      /\ buf' = [Ref!Buf!Go(s) EXCEPT !.a = nextA, !.b = nextB, !.launch = whole]
  <2>1. bmem' = [bmem EXCEPT
                   !.a = IF takeA THEN Ref!Buf!Spread(@, wa, buf.a, job.m * job.k, job.k) ELSE @,
                   !.b = IF takeB THEN Ref!Buf!Spread(@, wb, buf.b, job.k * job.n, job.n) ELSE @]
    BY <1>4, <1>5, <1>6 DEF Ref!Buf!BufferLoad
  <2>2. [bmem EXCEPT !.a = newA].b = bmem.b
    BY DEF RefShaped
  <2>3. QED
    BY <1>4, <2>1, <2>2, Zenon DEF Ref!Buf!BufferLoad
<1>8. /\ \A r \in 0 .. job.m - 1, c \in 0 .. job.k - 1 : job.a[<<r, c>>] \in -128 .. 127
      /\ \A r \in 0 .. job.k - 1, c \in 0 .. job.n - 1 : job.b[<<r, c>>] \in -128 .. 127
  BY <1>5, OperandTyped
<1>9. nextA \in Nat /\ Stored(newA, job.a, job.m, job.k, nextA)
  <2>1. Matrix(bmem.a, MaxM, MaxK) /\ Stored(bmem.a, job.a, job.m, job.k, buf.a) /\ buf.a \in Nat
    BY DEF RefShaped, Loading
  <2>2. MaxM \in Nat /\ MaxK \in Nat
    BY Sizes
  <2>3. \/ nextA = buf.a /\ newA = bmem.a
        \/ /\ nextA = buf.a + 1
           /\ newA = Ref!Buf!Spread(bmem.a, WordAt(job.a, job.m, job.k, buf.a, Padding), buf.a,
                                    job.m * job.k, job.k)
    OBVIOUS
  <2> HIDE DEF takeA, nextA, newA
  <2>4. QED
    BY <1>5, <1>8, <2>1, <2>2, <2>3, LoadsOn
<1>10. nextB \in Nat /\ Stored(newB, job.b, job.k, job.n, nextB)
  <2>1. Matrix(bmem.b, MaxK, MaxN) /\ Stored(bmem.b, job.b, job.k, job.n, buf.b) /\ buf.b \in Nat
    BY DEF RefShaped, Loading
  <2>2. MaxN \in Nat /\ MaxK \in Nat
    BY Sizes
  <2>3. \/ nextB = buf.b /\ newB = bmem.b
        \/ /\ nextB = buf.b + 1
           /\ newB = Ref!Buf!Spread(bmem.b, WordAt(job.b, job.k, job.n, buf.b, Padding), buf.b,
                                    job.k * job.n, job.n)
    OBVIOUS
  <2> HIDE DEF takeB, nextB, newB
  <2>4. QED
    BY <1>5, <1>8, <2>1, <2>2, <2>3, LoadsOn
<1>11. /\ Ref!Buf!AWords = (job.m * job.k + 3) \div 4
       /\ Ref!Buf!BWords = (job.k * job.n + 3) \div 4
  BY <1>5 DEF Ref!Buf!AWords, Ref!Buf!BWords, Ref!Buf!InWords
<1>12. whole => Holds(newA, job.a, job.m, job.k) /\ Holds(newB, job.b, job.k, job.n)
  <2> SUFFICES ASSUME whole
               PROVE  Holds(newA, job.a, job.m, job.k) /\ Holds(newB, job.b, job.k, job.n)
    OBVIOUS
  <2>1. nextA >= (job.m * job.k + 3) \div 4 /\ nextB >= (job.k * job.n + 3) \div 4
    BY <1>11
  <2>2. /\ job.m \in Nat \ {0} /\ job.n \in Nat \ {0} /\ job.k \in Nat \ {0}
        /\ nextA \in Int /\ nextB \in Int
    BY <1>5, <1>9, <1>10 DEF Sound
  <2> HIDE DEF nextA, nextB, newA, newB, whole
  <2>3. Holds(newA, job.a, job.m, job.k)
    BY <1>9, <2>1, <2>2, AllStored
  <2>4. Holds(newB, job.b, job.k, job.n)
    BY <1>10, <2>1, <2>2, AllStored
  <2>5. QED
    BY <2>3, <2>4
<1> DEFINE g == Ref!Buf!Go(s)
<1>13. /\ DOMAIN g = BufFields /\ g.state = s /\ g.done = FALSE /\ g.error = buf.error
       /\ g.m = buf.m /\ g.n = buf.n /\ g.k = buf.k
  BY Goes
<1>14. whole \in BOOLEAN
  OBVIOUS
<1> HIDE DEF nextA, nextB, newA, newB, whole, takeA, takeB, g, wa, wb
<1>15. bmem'.a = newA /\ bmem'.b = newB
  BY <1>7 DEF RefShaped
<1>16. /\ buf'.state = s /\ buf'.done = FALSE /\ buf'.error = buf.error /\ buf'.a = nextA /\ buf'.b = nextB
       /\ buf'.m = buf.m /\ buf'.n = buf.n /\ buf'.k = buf.k /\ buf'.launch = whole
  <2>1. buf' = [g EXCEPT !.a = nextA, !.b = nextB, !.launch = whole]
    BY <1>7, Zenon DEF g
  <2> HIDE DEF s
  <2>2. QED
    BY <1>13, <2>1 DEF BufFields
<1>17. Accepted'
  <2>1. SameBuffer
    BY <1>16 DEF SameBuffer
  <2>2. QED
    BY <2>1, AcceptedStays DEF Loading
<1>18. CASE whole
  <2>1. OperandsIn'
    <3>1. Holds(bmem'.a, job.a, job.m, job.k) /\ Holds(bmem'.b, job.b, job.k, job.n)
      BY <1>12, <1>15, <1>18, Zenon
    <3>2. QED
      BY <1>1, <3>1, Zenon DEF OperandsIn, Holds
  <2>2. QED
    BY <1>1, <1>2, <1>3, <1>14, <1>16, <1>17, <1>18, <2>1 DEF Launching, Loading, Sane
<1>19. CASE ~whole
  <2>1. Stored(bmem.a, job.a, job.m, job.k, buf.a)' /\ Stored(bmem.b, job.b, job.k, job.n, buf.b)'
    BY <1>1, <1>9, <1>10, <1>15, <1>16, Zenon DEF Stored
  <2>2. QED
    BY <1>1, <1>2, <1>3, <1>9, <1>10, <1>14, <1>16, <1>17, <1>19, <2>1 DEF Loading, Sane, Quiet
<1>20. QED
  BY <1>18, <1>19

LEMMA LaunchingOn ==
  ASSUME Known, ~Pipelined, RefShaped, Sane, Launching, NEW a, NEW b, NEW sink, OnClock(a, b, sink)
  PROVE  Offering' /\ Sane'
<1>1. RefBlocks(FALSE, Ref!NoJob.d, a, b, sink) /\ job' = job /\ passed' = passed
  BY DEF OnClock, Launching
<1>2. ~Ref!Sch!SchedulerBusy /\ ~Ref!Sch!TileValid
  BY DEF Launching, Unscheduled, Ref!Sch!SchedulerBusy, Ref!Sch!TileValid
<1>3. adp' = adp /\ ChainRests' /\ tac'.tileDone = FALSE
  BY <1>1, <1>2, ChainIdles DEF Launching
<1>4. /\ startQ.d.m = job.m /\ startQ.d.n = job.n /\ startQ.d.k = job.k
      /\ startQ.d.tm = job.tm /\ startQ.d.tn = job.tn /\ startQ.d.tk = job.tk
  BY DEF Launching, Accepted, Descriptor
<1>5. /\ job.m \in Nat \ {0} /\ job.n \in Nat \ {0} /\ job.k \in Nat \ {0}
      /\ job.tm \in 1 .. N /\ job.tn \in 1 .. N /\ job.tm % 4 = 0 /\ job.tn % 4 = 0
      /\ job.tk \in 1 .. MaxK
  BY JobOk DEF Sound
<1>6. sch' = Ref!Sch!Take(startQ.d)
  <2>1. Ref!Sch!SchedulerClock(buf.launch, startQ.d, buf.state = "READY", tac.tileDone)
    BY <1>1 DEF RefBlocks
  <2>2. QED
    BY <1>2, <2>1 DEF Ref!Sch!SchedulerClock, Launching
<1>7. sch' = [Ref!Sch!ResetScheduler EXCEPT !.dm = job.m, !.dn = job.n, !.dk = job.k,
                                            !.tm = job.tm, !.tn = job.tn, !.tk = job.tk]
  <2>1. ~Ref!Sch!BadTiles(startQ.d)
    BY <1>4, <1>5 DEF Ref!Sch!BadTiles
  <2>2. QED
    BY <1>4, <1>5, <1>6, <2>1 DEF Ref!Sch!Take
<1>8. /\ sch'.m = 0 /\ sch'.n = 0 /\ sch'.k = 0 /\ sch'.dm = job.m /\ sch'.dn = job.n /\ sch'.dk = job.k
      /\ sch'.tm = job.tm /\ sch'.tn = job.tn /\ sch'.tk = job.tk
      /\ sch'.inFlight = FALSE /\ sch'.done = FALSE /\ sch'.error = FALSE
  BY <1>7 DEF Ref!Sch!ResetScheduler
<1>9. buf' = Ref!Buf!Go("READY") /\ bmem' = bmem
  BY <1>1, <1>2, BufferDoes DEF Launching, Unscheduled, Ref!Buf!BufferReady
<1>10. buf'.state = "READY" /\ buf'.launch = FALSE /\ SameBuffer
  BY <1>9, Goes DEF SameBuffer
<1>11. Accepted'
  BY <1>10, AcceptedStays DEF Launching
<1>12. OperandsIn'
  BY <1>1, <1>9, Zenon DEF Launching, OperandsIn, Holds
<1>13. FinalTo(bmem.c, job, sch.m, sch.n, TileAt(sch).mLen)'
  <2>1. FinalTo(bmem'.c, job', sch'.m, sch'.n, TileAt(sch)'.mLen)
    BY <1>8, FinalAtStart
  <2>2. QED
    BY <2>1, Zenon DEF FinalTo, Element, Part, Terms
<1>14. Scheduled'
  BY <1>1, <1>5, <1>8, <1>12, <1>13 DEF Scheduled
<1>15. QED
  BY <1>1, <1>3, <1>8, <1>10, <1>11, <1>14 DEF Offering, Quiet, Sane, Launching

LEMMA FinishedOn ==
  ASSUME Known, ~Pipelined, RefShaped, Sane, Finished, NEW a, NEW b, NEW sink, OnClock(a, b, sink)
  PROVE  Delivering' /\ Sane'
<1>1. RefBlocks(FALSE, Ref!NoJob.d, a, b, sink) /\ job' = job /\ passed' = passed
  BY DEF OnClock, Finished
<1>2. ~Ref!Sch!TileValid
  BY DEF Finished, Ref!Sch!SchedulerBusy, Ref!Sch!TileValid
<1>3. adp' = adp /\ ChainRests' /\ tac'.tileDone = FALSE
  BY <1>1, <1>2, ChainIdles DEF Finished
<1>4. Unscheduled' /\ sch'.error = sch.error
  BY <1>1, SchedulerIdles DEF Finished, Quiet
<1>5. buf' = [Ref!Buf!Go("OUTPUT") EXCEPT !.out = 0] /\ bmem' = bmem
  BY <1>1, BufferDoes DEF Finished, Ref!Buf!BufferReady
<1>6. buf'.state = "OUTPUT" /\ buf'.launch = FALSE /\ SameBuffer /\ buf'.out = 0
  <2> DEFINE g == Ref!Buf!Go("OUTPUT")
  <2>1. /\ g.state = "OUTPUT" /\ g.launch = FALSE /\ g.done = FALSE /\ DOMAIN g = BufFields
        /\ g.m = buf.m /\ g.n = buf.n /\ g.k = buf.k /\ g.error = buf.error
    BY Goes
  <2>2. buf' = [g EXCEPT !.out = 0]
    BY <1>5
  <2> HIDE DEF g
  <2>3. QED
    BY <2>1, <2>2 DEF SameBuffer, BufFields
<1>7. Accepted'
  BY <1>6, AcceptedStays DEF Finished
<1>8. AllFinal(bmem.c, job)'
  <2>1. AllFinal(bmem.c, job) /\ job' = job /\ bmem' = bmem
    BY <1>1, <1>5 DEF Finished
  <2>2. QED
    BY <2>1, Zenon DEF AllFinal, Element, Part, Terms
<1>9. Elements' = Elements /\ 0 \in 0 .. Elements - 1
  <2>1. Elements \in Nat \ {0}
    BY JobTyped
  <2>2. QED
    BY <1>1, <2>1, JobStays
<1>10. QED
  BY <1>1, <1>3, <1>4, <1>6, <1>7, <1>8, <1>9 DEF Delivering, Quiet, Sane, Finished

LEMMA DeliveringOn ==
  ASSUME Known, ~Pipelined, RefShaped, Sane, Delivering, NEW a, NEW b, NEW sink, OnClock(a, b, sink)
  PROVE  (Delivering' \/ Resting') /\ Sane'
<1>1. /\ RefBlocks(FALSE, Ref!NoJob.d, a, b, sink) /\ job' = job
      /\ startQ'.q = FALSE /\ startQ'.d = startQ.d /\ dones' = 0
      /\ RawReady(sink) => passed' = passed + 1
      /\ ~RawReady(sink) => passed' = passed
  <2>1. buf.state = "OUTPUT" /\ buf.done = FALSE /\ dones = 0
    BY DEF Delivering, Accepted
  <2>2. Taken(buf.done) = 0
    BY <2>1 DEF Taken
  <2>3. /\ RefBlocks(FALSE, Ref!NoJob.d, a, b, sink) /\ job' = job
        /\ startQ'.q = FALSE /\ startQ'.d = startQ.d /\ dones' = dones + Taken(buf.done)
    BY DEF OnClock
  <2>4. RawReady(sink) => passed' = passed + 1
    BY <2>1 DEF OnClock
  <2>5. ~RawReady(sink) => passed' = passed
    BY <2>1 DEF OnClock
  <2>6. dones' = 0
    <3>1. 0 + 0 = 0
      OBVIOUS
    <3>2. QED
      BY <2>1, <2>2, <2>3, <3>1, Zenon
  <2>7. QED
    BY <2>3, <2>4, <2>5, <2>6, Zenon
<1>2. ~Ref!Sch!TileValid
  BY DEF Delivering, Unscheduled, Ref!Sch!SchedulerBusy, Ref!Sch!TileValid
<1>3. adp' = adp /\ ChainRests' /\ tac'.tileDone = FALSE
  BY <1>1, <1>2, ChainIdles DEF Delivering
<1>4. Unscheduled' /\ sch'.error = sch.error
  BY <1>1, SchedulerIdles DEF Delivering, Quiet, Unscheduled
<1>5. Ref!Buf!BufferOutput(RawReady(sink))
  BY <1>1, BufferDoes DEF Delivering
<1>6. bmem' = bmem
  BY <1>5 DEF Ref!Buf!BufferOutput
<1>7. Elements' = Elements /\ Elements \in Nat \ {0}
  BY <1>1, JobStays, JobTyped
<1>8. Ref!Buf!COutLast <=> passed = Elements - 1
  BY DEF Ref!Buf!COutLast, Ref!Buf!COutValid, Ref!Buf!CWords, Delivering, Accepted, Elements
<1>9. AllFinal(bmem.c, job)'
  BY <1>1, <1>6, Zenon DEF Delivering, AllFinal, Element, Part, Terms
<1>10. CASE ~RawReady(sink)
  <2>1. buf' = Ref!Buf!Go("OUTPUT")
    BY <1>5, <1>10 DEF Ref!Buf!BufferOutput
  <2>2. buf'.state = "OUTPUT" /\ buf'.launch = FALSE /\ SameBuffer /\ buf'.out = buf.out
    BY <2>1, Goes DEF SameBuffer
  <2>3. Accepted'
    BY <2>2, AcceptedStays DEF Delivering
  <2>4. QED
    BY <1>1, <1>3, <1>4, <1>7, <1>9, <1>10, <2>2, <2>3 DEF Delivering, Quiet, Sane
<1>11. CASE RawReady(sink) /\ passed # Elements - 1
  <2>1. buf' = [Ref!Buf!Go("OUTPUT") EXCEPT !.out = @ + 1]
    BY <1>5, <1>8, <1>11 DEF Ref!Buf!BufferOutput
  <2>2. buf'.state = "OUTPUT" /\ buf'.launch = FALSE /\ SameBuffer /\ buf'.out = buf.out + 1
    <3> DEFINE g == Ref!Buf!Go("OUTPUT")
    <3>1. /\ g.state = "OUTPUT" /\ g.launch = FALSE /\ g.done = FALSE /\ DOMAIN g = BufFields
          /\ g.m = buf.m /\ g.n = buf.n /\ g.k = buf.k /\ g.error = buf.error /\ g.out = buf.out
      BY Goes
    <3>2. buf' = [g EXCEPT !.out = g.out + 1]
      BY <2>1
    <3> HIDE DEF g
    <3>3. QED
      BY <3>1, <3>2 DEF SameBuffer, BufFields
  <2>3. Accepted'
    BY <2>2, AcceptedStays DEF Delivering
  <2>4. passed' \in 0 .. Elements' - 1 /\ buf'.out = passed'
    BY <1>1, <1>7, <1>11, <2>2 DEF Delivering
  <2>5. QED
    BY <1>1, <1>3, <1>4, <1>9, <2>2, <2>3, <2>4 DEF Delivering, Quiet, Sane
<1>12. CASE RawReady(sink) /\ passed = Elements - 1
  <2>1. buf' = [Ref!Buf!Go("IDLE") EXCEPT !.done = TRUE]
    BY <1>5, <1>8, <1>12 DEF Ref!Buf!BufferOutput
  <2>2. buf'.state = "IDLE" /\ buf'.launch = FALSE /\ buf'.error = buf.error /\ buf'.done = TRUE
    <3> DEFINE g == Ref!Buf!Go("IDLE")
    <3>1. g.state = "IDLE" /\ g.launch = FALSE /\ DOMAIN g = BufFields /\ g.error = buf.error
      BY Goes
    <3>2. buf' = [g EXCEPT !.done = TRUE]
      BY <2>1
    <3> HIDE DEF g
    <3>3. QED
      BY <3>1, <3>2 DEF BufFields
  <2>3. Given'
    <3>1. startQ.d.m = job.m /\ job.m \in Nat \ {0}
      BY JobOk DEF Delivering, Accepted, Descriptor, Sound
    <3>2. QED
      BY <1>1, <3>1 DEF Given
  <2>4. Legal(job)'
    BY <1>1, JobStays DEF Delivering, Accepted
  <2>5. passed' = Elements' /\ dones' + Taken(buf.done)' = 1
    BY <1>1, <1>7, <1>12, <2>2 DEF Taken
  <2>6. buf'.error = FALSE
    BY <2>2 DEF Delivering, Accepted
  <2>7. QED
    BY <1>1, <1>3, <1>4, <2>2, <2>3, <2>4, <2>5, <2>6 DEF Resting, Quiet, Sane
<1>13. QED
  BY <1>10, <1>11, <1>12

(* What a tile in the adder comes to.                                        *)
LEMMA AddingThen ==
  ASSUME NEW T, T = TileAt(sch), TileAt(sch)' = T, job' = job,
         tac'.state = "CONSUME", tac'.first = T.firstK, tac'.last = T.lastK, tac'.tileDone = FALSE,
         tac'.in \in 0 .. N * N - 1,
         SumsUpTo(sums', job, T, 0, tac'.in, T.k + T.kLen),
         T.k = 0 \/ SumsUpTo(sums', job, T, tac'.in, N * N, T.k)
  PROVE  Adding'
<1>1. SumsUpTo(sums, job, TileAt(sch), 0, tac.in, TileAt(sch).k + TileAt(sch).kLen)'
  <2>1. SumsUpTo(sums', job', TileAt(sch)', 0, tac'.in, TileAt(sch)'.k + TileAt(sch)'.kLen)
    OBVIOUS
  <2>2. QED
    BY <2>1, Zenon DEF SumsUpTo, Part, Terms, Inside
<1>2. TileAt(sch)'.k = 0 \/ SumsUpTo(sums, job, TileAt(sch), tac.in, N * N, TileAt(sch).k)'
  <2>1. TileAt(sch)'.k = 0 \/ SumsUpTo(sums', job', TileAt(sch)', tac'.in, N * N, TileAt(sch)'.k)
    OBVIOUS
  <2>2. QED
    BY <2>1, Zenon DEF SumsUpTo, Part, Terms, Inside
<1>3. QED
  BY <1>1, <1>2 DEF Adding

LEMMA AddingStays ==
  ASSUME RefShaped, NEW a, NEW b, NEW sink, OnClock(a, b, sink), Adding, adp.state # "OUTPUT",
         TileAt(sch)' = TileAt(sch)
  PROVE  Adding' /\ tac'.in = tac.in
<1>1. Ref!Acc!Consume(Ref!Adp!CValid, Ref!Adp!CData)
  BY AccumulatorDoes DEF OnClock, Adding
<1>2. ~Ref!Adp!CValid
  BY DEF Ref!Adp!CValid
<1>3. tac' = [tac EXCEPT !.tileDone = FALSE] /\ sums' = sums
  BY <1>1, <1>2 DEF Ref!Acc!Consume
<1>4. /\ tac'.state = tac.state /\ tac'.in = tac.in /\ tac'.first = tac.first /\ tac'.last = tac.last
      /\ tac'.tileDone = FALSE
  BY <1>3 DEF RefShaped, TacFields
<1> DEFINE T == TileAt(sch)
<1>5. /\ tac.state = "CONSUME" /\ tac.first = T.firstK /\ tac.last = T.lastK
      /\ tac.in \in 0 .. N * N - 1
      /\ SumsUpTo(sums, job, T, 0, tac.in, T.k + T.kLen)
      /\ T.k = 0 \/ SumsUpTo(sums, job, T, tac.in, N * N, T.k)
  BY DEF Adding
<1>6. job' = job
  BY DEF OnClock
<1>7. T = TileAt(sch) /\ TileAt(sch)' = T
  OBVIOUS
<1> HIDE DEF T
<1>8. Adding'
  BY <1>3, <1>4, <1>5, <1>6, <1>7, AddingThen
<1>9. QED
  BY <1>4, <1>8

LEMMA OfferingOn ==
  ASSUME Known, ~Pipelined, RefShaped, Sane, Offering, NEW a, NEW b, NEW sink, OnClock(a, b, sink)
  PROVE  Sending' /\ Sane'
<1>1. RefBlocks(FALSE, Ref!NoJob.d, a, b, sink) /\ job' = job /\ passed' = 0
  BY DEF OnClock, Offering
<1> DEFINE T == TileAt(sch)
<1>2. /\ TileOf(job, T) /\ Ref!Sch!SchedulerBusy /\ T.k = sch.k
      /\ T.kLen \in 1 .. MaxK /\ T.kLen % 65536 = T.kLen
  BY TileOk DEF Offering, Accepted
<1>3. Ref!Sch!TileValid
  BY <1>2 DEF Ref!Sch!TileValid, Offering
<1>4. sch' = [sch EXCEPT !.inFlight = TRUE, !.done = FALSE]
  <2>1. Ref!Sch!SchedulerClock(buf.launch, startQ.d, buf.state = "READY", tac.tileDone)
    BY <1>1 DEF RefBlocks
  <2>2. QED
    BY <1>3, <2>1 DEF Ref!Sch!SchedulerClock, Offering, Quiet
<1>5. SameTile /\ sch'.inFlight = TRUE
  BY <1>4 DEF SameTile, RefShaped, SchFields
<1>6. buf' = [Ref!Buf!Go("SEND") EXCEPT !.tile = T, !.word = 0] /\ bmem' = bmem
  BY <1>1, <1>3, BufferDoes, TileIs DEF Offering, Scheduled, Ref!Buf!BufferReady
<1> DEFINE g == Ref!Buf!Go("SEND")
<1>7. /\ buf'.state = "SEND" /\ buf'.launch = FALSE /\ SameBuffer /\ buf'.tile = T /\ buf'.word = 0
  <2>1. /\ g.state = "SEND" /\ g.launch = FALSE /\ g.done = FALSE /\ DOMAIN g = BufFields
        /\ g.m = buf.m /\ g.n = buf.n /\ g.k = buf.k /\ g.error = buf.error
    BY Goes
  <2> HIDE DEF g, T
  <2>2. buf' = [g EXCEPT !.tile = T, !.word = 0]
    BY <1>6, Zenon DEF g
  <2>3. QED
    BY <2>1, <2>2 DEF SameBuffer, BufFields
<1>8. Accepted'
  BY <1>7, AcceptedStays DEF Offering
<1>9. Scheduled' /\ TileAt(sch)' = T
  BY <1>1, <1>5, <1>6, ScheduledStays DEF Offering, Scheduled
<1>10. adp' = [adp EXCEPT !.state = "LOAD", !.k = T.kLen, !.a = 0, !.b = 0, !.error = FALSE]
  <2> DEFINE go == Ref!Sch!TileValid /\ buf.state = "READY"
             len == Ref!Sch!Tile.kLen % 65536
  <2>1. Ref!Adp!AdapterIdle(go, len)
    <3>1. adp.state = "IDLE"
      BY DEF Offering, ChainRests
    <3>2. PICK start, d : RefBlocks(start, d, a, b, sink)
      BY <1>1
    <3>3. QED
      BY <3>1, <3>2, AdapterDoes
  <2>2. go /\ len = T.kLen
    BY <1>2, <1>3, TileIs DEF Offering
  <2> HIDE DEF go, len, T
  <2>3. QED
    BY <1>2, <2>1, <2>2 DEF Ref!Adp!AdapterIdle
<1>11. /\ adp'.state = "LOAD" /\ adp'.k = T.kLen /\ adp'.a = 0 /\ adp'.b = 0 /\ adp'.error = FALSE
  <2> HIDE DEF T
  <2>1. QED
    BY <1>10 DEF RefShaped, AdpFields
<1>12. /\ tac'.state = "CONSUME" /\ tac'.in = 0 /\ tac'.first = T.firstK /\ tac'.last = T.lastK
       /\ tac'.tileDone = FALSE /\ sums' = sums
  <2> DEFINE go == Ref!Sch!TileValid /\ buf.state = "READY"
             f == Ref!Sch!FirstK
             l == Ref!Sch!LastK
  <2>1. Ref!Acc!Rest(go, f, l)
    BY <1>1, AccumulatorDoes DEF Offering, ChainRests
  <2>2. go /\ f = T.firstK /\ l = T.lastK
    BY <1>3, TileIs DEF Offering
  <2> HIDE DEF go, f, l, T
  <2>3. tac' = [tac EXCEPT !.state = "CONSUME", !.in = 0, !.first = f, !.last = l, !.tileDone = FALSE]
        /\ sums' = sums
    BY <2>1, <2>2 DEF Ref!Acc!Rest
  <2>4. QED
    BY <2>2, <2>3 DEF RefShaped, TacFields
<1>13. Adding'
  <2>1. SumsUpTo(sums', job, T, 0, 0, T.k + T.kLen)
    BY DEF SumsUpTo
  <2>2. T.k = 0 \/ SumsUpTo(sums', job, T, 0, N * N, T.k)
    BY <1>2, <1>12 DEF Offering
  <2>3. 0 \in 0 .. N * N - 1
    <3>1. N * N \in Nat \ {0}
      BY Sizes, Z3
    <3>2. QED
      BY <3>1
  <2>4. T = TileAt(sch) /\ TileAt(sch)' = T
    BY <1>9
  <2> HIDE DEF T
  <2>5. QED
    BY <1>1, <1>12, <2>1, <2>2, <2>3, <2>4, AddingThen
<1>14. InHand'
  BY <1>1, <1>5, <1>7, <1>8, <1>9 DEF InHand
<1>15. 0 \in 0 .. T.kLen * RowWords - 1
  <2>1. RowWords \in Nat \ {0}
    BY Sizes, ComputeBenchAssumption DEF RowWords
  <2> DEFINE len == T.kLen
  <2>2. len \in Nat \ {0}
    BY <1>2
  <2> HIDE DEF T, len
  <2>3. len * RowWords \in Nat \ {0}
    BY <2>1, <2>2, Z3
  <2>4. QED
    BY <2>3 DEF len
<1>16. VectorsHold(vectors.a, vectors.b, job, TileAt(sch), buf.word)'
  <2>1. buf'.word = 0
    BY <1>7
  <2>2. QED
    BY <2>1 DEF VectorsHold
<1>17. QED
  BY <1>5, <1>7, <1>9, <1>11, <1>12, <1>13, <1>14, <1>15, <1>16 DEF Sending, Sane, SameTile

LEMMA RowWordsIs == RowWords \in Nat \ {0} /\ N = 4 * RowWords /\ N \in Nat \ {0}
<1>1. N \in Nat \ {0} /\ N % 4 = 0
  BY Sizes, ComputeBenchAssumption
<1>2. QED
  BY <1>1 DEF RowWords

(* What the buffer sends of a tile.                                          *)
LEMMA WordIs ==
  ASSUME NEW T, TileOf(job, T), Sound(job), OperandsIn, buf.tile = T,
         buf.word \in 0 .. T.kLen * RowWords - 1, NEW lane \in 0 .. 3
  PROVE  /\ Ref!Buf!TileAWord[lane] = West(job, T, (buf.word % RowWords) * 4 + lane, buf.word \div RowWords)
         /\ Ref!Buf!TileBWord[lane] = North(job, T, (buf.word % RowWords) * 4 + lane, buf.word \div RowWords)
<1> DEFINE l == (buf.word % RowWords) * 4 + lane
           s == buf.word \div RowWords
<1>1. RowWords \in Nat \ {0} /\ N \div 4 = RowWords
  BY RowWordsIs DEF RowWords
<1>2. s \in 0 .. T.kLen - 1 /\ buf.word % RowWords \in 0 .. RowWords - 1
  <2> DEFINE len == T.kLen
             w == buf.word
             q == RowWords
  <2>1. len \in Nat /\ w \in 0 .. len * q - 1 /\ q \in Nat \ {0}
    BY <1>1 DEF TileOf
  <2> HIDE DEF len, w, q
  <2>2. w \div q \in 0 .. len - 1 /\ w % q \in 0 .. q - 1
    BY <2>1, RowInRange
  <2>3. QED
    BY <2>2 DEF len, w, q
<1>3. l \in Nat
  <2> DEFINE y == buf.word % RowWords
  <2>1. y \in 0 .. RowWords - 1
    BY <1>2
  <2> HIDE DEF y
  <2>2. y * 4 + lane \in Nat
    BY <1>1, <2>1
  <2>3. QED
    BY <2>2 DEF y
<1>4. Ref!Buf!FeedK = s /\ Ref!Buf!FeedLane(lane) = l
  BY <1>1, Zenon DEF Ref!Buf!FeedK, Ref!Buf!FeedLane, Ref!Buf!WordsPerRow
<1>5. /\ Ref!Buf!TileAWord[lane] =
           (IF Ref!Buf!FeedLane(lane) < T.mLen /\ Ref!Buf!FeedK < T.kLen
              THEN bmem.a[<<T.m + Ref!Buf!FeedLane(lane), T.k + Ref!Buf!FeedK>>] ELSE 0)
      /\ Ref!Buf!TileBWord[lane] =
           (IF Ref!Buf!FeedLane(lane) < T.nLen /\ Ref!Buf!FeedK < T.kLen
              THEN bmem.b[<<T.k + Ref!Buf!FeedK, T.n + Ref!Buf!FeedLane(lane)>>] ELSE 0)
  BY DEF Ref!Buf!TileAWord, Ref!Buf!TileBWord
<1> HIDE DEF l, s
<1>6. /\ Ref!Buf!TileAWord[lane] = IF l < T.mLen /\ s < T.kLen THEN bmem.a[<<T.m + l, T.k + s>>] ELSE 0
      /\ Ref!Buf!TileBWord[lane] = IF l < T.nLen /\ s < T.kLen THEN bmem.b[<<T.k + s, T.n + l>>] ELSE 0
  BY <1>4, <1>5, Zenon
<1>7. Ref!Buf!TileAWord[lane] = West(job, T, l, s)
  <2>1. CASE l < T.mLen
    <3>1. T.m + l \in 0 .. job.m - 1 /\ T.k + s \in 0 .. job.k - 1 /\ s < T.kLen
      BY <1>2, <1>3, <2>1 DEF TileOf, Sound
    <3>2. bmem.a[<<T.m + l, T.k + s>>] = job.a[<<T.m + l, T.k + s>>]
      BY <3>1, Zenon DEF OperandsIn, Holds
    <3>3. QED
      BY <1>2, <1>6, <2>1, <3>1, <3>2, Zenon DEF West
  <2>2. CASE ~(l < T.mLen)
    BY <1>6, <2>2, Zenon DEF West
  <2>3. QED
    BY <2>1, <2>2
<1>8. Ref!Buf!TileBWord[lane] = North(job, T, l, s)
  <2>1. CASE l < T.nLen
    <3>1. T.n + l \in 0 .. job.n - 1 /\ T.k + s \in 0 .. job.k - 1 /\ s < T.kLen
      BY <1>2, <1>3, <2>1 DEF TileOf, Sound
    <3>2. bmem.b[<<T.k + s, T.n + l>>] = job.b[<<T.k + s, T.n + l>>]
      BY <3>1, Zenon DEF OperandsIn, Holds
    <3>3. QED
      BY <1>2, <1>6, <2>1, <3>1, <3>2, Zenon DEF North
  <2>2. CASE ~(l < T.nLen)
    BY <1>6, <2>2, Zenon DEF North
  <2>3. QED
    BY <2>1, <2>2
<1>9. QED
  BY <1>7, <1>8 DEF l, s

LEMMA SendingOn ==
  ASSUME Known, ~Pipelined, RefShaped, Sane, Sending, NEW a, NEW b, NEW sink, OnClock(a, b, sink)
  PROVE  (Sending' \/ Streaming') /\ Sane'
<1>1. RefBlocks(FALSE, Ref!NoJob.d, a, b, sink) /\ job' = job
  BY DEF OnClock
<1> DEFINE T == TileAt(sch)
           total == T.kLen * RowWords
           w == buf.word
<1>2. /\ buf.state = "SEND" /\ InHand /\ Adding /\ tac.in = 0 /\ adp.state = "LOAD" /\ adp.k = T.kLen
      /\ w \in 0 .. total - 1 /\ adp.a = w /\ adp.b = w
      /\ VectorsHold(vectors.a, vectors.b, job, T, w)
  BY DEF Sending
<1>3. TileOf(job, T) /\ T.kLen \in 1 .. MaxK /\ Sound(job)
  BY <1>2, TileOk, JobOk DEF InHand, Accepted
<1>4. RowWords \in Nat \ {0} /\ N \div 4 = RowWords /\ total \in Nat \ {0}
  <2> DEFINE len == T.kLen
  <2>1. RowWords \in Nat \ {0} /\ N \div 4 = RowWords /\ len \in Nat \ {0}
    BY <1>3, RowWordsIs DEF RowWords
  <2> HIDE DEF len
  <2>2. len * RowWords \in Nat \ {0}
    BY <2>1, Z3
  <2>3. QED
    BY <2>1, <2>2 DEF len
<1>5. buf.tile = T /\ OperandsIn /\ sch.inFlight = TRUE
  BY <1>2 DEF InHand, Scheduled
<1>6. Ref!Adp!TotalWords = total /\ Ref!Buf!TileWords = total
  BY <1>2, <1>4, <1>5 DEF Ref!Adp!TotalWords, Ref!Adp!WordsPerRow, Ref!Buf!TileWords, Ref!Buf!WordsPerRow
<1>7. Ref!Adp!AReady /\ Ref!Adp!BReady
  <2> HIDE DEF T, total, w
  <2>1. w < total
    BY <1>2, <1>4
  <2>2. QED
    BY <1>2, <1>6, <2>1 DEF Ref!Adp!AReady, Ref!Adp!BReady
<1>8. buf' = (IF w = total - 1 THEN [Ref!Buf!Go("CAPTURE") EXCEPT !.c = 0]
                             ELSE [Ref!Buf!Go("SEND") EXCEPT !.word = @ + 1])
      /\ bmem' = bmem
  <2> HIDE DEF T, total
  <2>1. Ref!Buf!BufferSend(Ref!Adp!AReady, Ref!Adp!BReady)
    BY <1>1, <1>2, BufferDoes
  <2>2. QED
    BY <1>6, <1>7, <2>1 DEF Ref!Buf!BufferSend
<1> DEFINE wa == Ref!Buf!TileAWord
           wb == Ref!Buf!TileBWord
           over == w + 1 >= total
<1>9. /\ vectors' = [a |-> [vectors.a EXCEPT ![w] = wa], b |-> [vectors.b EXCEPT ![w] = wb]]
      /\ adp' = [adp EXCEPT !.a = w + 1, !.b = w + 1, !.state = IF over THEN "CLEAR" ELSE @]
  <2> DEFINE sa == Ref!StreamOf(wa)
             sb == Ref!StreamOf(wb)
  <2>1. Ref!Adp!AdapterLoad(sa, sb)
    <3>1. PICK start, d : RefBlocks(start, d, a, b, sink)
      BY <1>1
    <3>2. adp.state = "LOAD"
      BY <1>2
    <3>3. QED
      BY <3>1, <3>2, AdapterDoes
  <2>2. sa.valid /\ sb.valid /\ sa.word = wa /\ sb.word = wb
    BY <1>2 DEF Ref!StreamOf, Ref!Buf!TileWordValid
  <2> HIDE DEF sa, sb, wa, wb, T, total, w
  <2>3. QED
    BY <1>2, <1>6, <1>7, <2>1, <2>2 DEF Ref!Adp!AdapterLoad
<1>10. /\ adp'.a = w + 1 /\ adp'.b = w + 1 /\ adp'.k = adp.k /\ adp'.error = adp.error
       /\ adp'.state = IF over THEN "CLEAR" ELSE "LOAD"
  <2> HIDE DEF over, w
  <2>1. QED
    BY <1>2, <1>9 DEF RefShaped, AdpFields
<1>11. VectorsHold(vectors'.a, vectors'.b, job, T, w + 1)
  <2>1. w \in DOMAIN vectors.a /\ w \in DOMAIN vectors.b /\ w \in Nat
    <3> DEFINE len == T.kLen
               top == MaxK * RowWords
    <3>1. total <= top /\ top \in Nat
      <4>1. len \in Nat /\ MaxK \in Nat /\ len <= MaxK
        BY <1>3, Sizes
      <4> HIDE DEF len
      <4>2. len * RowWords <= MaxK * RowWords /\ MaxK * RowWords \in Nat
        BY <1>4, <4>1, Z3
      <4>3. QED
        BY <4>2 DEF len
    <3>2. VectorWords = 0 .. top - 1
      BY <1>4 DEF VectorWords
    <3> HIDE DEF T, total, top, w
    <3>3. w \in 0 .. top - 1 /\ w \in Nat
      BY <1>2, <1>4, <3>1
    <3>4. QED
      BY <3>2, <3>3 DEF RefShaped
  <2> DEFINE f == vectors'.a
             g == vectors'.b
  <2> HIDE DEF wa, wb
  <2>2. f = [vectors.a EXCEPT ![w] = wa] /\ g = [vectors.b EXCEPT ![w] = wb]
    BY <1>9
  <2> HIDE DEF f, g
  <2>3. f[w] = wa /\ g[w] = wb /\ \A x : x # w => f[x] = vectors.a[x] /\ g[x] = vectors.b[x]
    BY <2>1, <2>2
  <2> DEFINE next == w + 1
  <2>4. ASSUME NEW x \in 0 .. next - 1, NEW lane \in 0 .. 3
        PROVE  /\ f[x][lane] = West(job, T, (x % RowWords) * 4 + lane, x \div RowWords)
               /\ g[x][lane] = North(job, T, (x % RowWords) * 4 + lane, x \div RowWords)
    <3>1. CASE x = w
      <4>1. /\ wa[lane] = West(job, T, (buf.word % RowWords) * 4 + lane, buf.word \div RowWords)
            /\ wb[lane] = North(job, T, (buf.word % RowWords) * 4 + lane, buf.word \div RowWords)
        <5> HIDE DEF T
        <5>1. buf.word \in 0 .. T.kLen * RowWords - 1
          BY <1>2
        <5>2. QED
          BY <1>3, <1>5, <5>1, WordIs DEF wa, wb
      <4>2. QED
        BY <2>3, <3>1, <4>1
    <3>2. CASE x # w
      <4>1. x \in 0 .. w - 1
        BY <2>1, <2>4, <3>2
      <4>2. f[x] = vectors.a[x] /\ g[x] = vectors.b[x]
        BY <2>3, <3>2
      <4>3. QED
        BY <1>2, <4>1, <4>2, Zenon DEF VectorsHold
    <3>3. QED
      BY <3>1, <3>2
  <2>5. VectorsHold(f, g, job, T, w + 1)
    <3> HIDE DEF T, next, w
    <3>1. \A x \in 0 .. next - 1, lane \in 0 .. 3 :
            /\ f[x][lane] = West(job, T, (x % RowWords) * 4 + lane, x \div RowWords)
            /\ g[x][lane] = North(job, T, (x % RowWords) * 4 + lane, x \div RowWords)
      BY <2>4, Zenon
    <3>2. VectorsHold(f, g, job, T, next)
      BY <3>1, Zenon DEF VectorsHold
    <3>3. QED
      BY <3>2 DEF next
  <2>6. QED
    BY <2>5 DEF f, g
<1> DEFINE s == IF w = total - 1 THEN "CAPTURE" ELSE "SEND"
           g == Ref!Buf!Go(s)
<1>12. /\ g.state = s /\ g.launch = FALSE /\ g.done = FALSE /\ DOMAIN g = BufFields
       /\ g.m = buf.m /\ g.n = buf.n /\ g.k = buf.k /\ g.error = buf.error /\ g.tile = buf.tile /\ g.word = w
  BY Goes
<1>13. \/ w = total - 1 /\ buf' = [g EXCEPT !.c = 0]
       \/ w # total - 1 /\ buf' = [g EXCEPT !.word = w + 1]
  <2> HIDE DEF total, T
  <2>1. CASE w = total - 1
    BY <1>8, <2>1
  <2>2. CASE w # total - 1
    <3>1. g = Ref!Buf!Go("SEND") /\ buf' = [g EXCEPT !.word = g.word + 1]
      BY <1>8, <2>2
    <3>2. QED
      BY <1>12, <2>2, <3>1
  <2>3. QED
    BY <2>1, <2>2
<1> HIDE DEF g
<1>14. /\ SameBuffer /\ buf'.launch = FALSE /\ buf'.tile = buf.tile /\ buf'.state = s
       /\ w = total - 1 => buf'.c = 0
       /\ w # total - 1 => buf'.word = w + 1
  <2> HIDE DEF s, total, w
  <2>1. QED
    BY <1>12, <1>13 DEF SameBuffer, BufFields
<1>15. InHand' /\ TileAt(sch)' = T /\ sch'.error = sch.error
  <2>1. tac.tileDone = FALSE
    BY <1>2 DEF Adding
  <2>2. FinalTo(bmem'.c, job, sch.m, sch.n, T.mLen)
    BY <1>2, <1>8 DEF InHand, Scheduled
  <2>3. QED
    BY <1>2, <1>8, <1>14, <2>1, <2>2, HandStays
<1>16. Adding' /\ tac'.in = 0
  BY <1>2, <1>15, AddingStays
<1>17. VectorsHold(vectors'.a, vectors'.b, job', TileAt(sch)', w + 1)
  BY <1>1, <1>11, <1>15
<1>18. CASE w = total - 1
  <2>1. adp'.state = "CLEAR" /\ buf'.state = "CAPTURE" /\ buf'.c = 0
    <3> HIDE DEF total, T, w
    <3>1. over
      BY <1>4, <1>18
    <3>2. QED
      BY <1>10, <1>14, <1>18, <3>1
  <2>2. VectorsHold(vectors'.a, vectors'.b, job', TileAt(sch)', TileAt(sch)'.kLen * RowWords)
    <3>1. w + 1 = total
      <4> HIDE DEF total, T, w
      <4>1. QED
        BY <1>4, <1>18
    <3>2. QED
      BY <1>15, <1>17, <3>1, Zenon
  <2>3. VectorsHold(vectors.a, vectors.b, job, TileAt(sch), TileAt(sch).kLen * RowWords)'
    BY <2>2, Zenon DEF VectorsHold, West, North, RowWords
  <2>4. QED
    BY <1>2, <1>10, <1>15, <1>16, <2>1, <2>3 DEF Streaming, Sane
<1>19. CASE w # total - 1
  <2>1. adp'.state = "LOAD" /\ buf'.state = "SEND" /\ w + 1 \in 0 .. total - 1
    <3> HIDE DEF total, T, w
    <3>1. ~over /\ w + 1 \in 0 .. total - 1
      BY <1>2, <1>4, <1>19
    <3>2. QED
      BY <1>10, <1>14, <1>19, <3>1
  <2>2. buf'.word = w + 1
    BY <1>14, <1>19
  <2>3. VectorsHold(vectors.a, vectors.b, job, TileAt(sch), buf.word)'
    <3>1. VectorsHold(vectors'.a, vectors'.b, job', TileAt(sch)', buf'.word)
      BY <1>17, <2>2, Zenon
    <3>2. QED
      BY <3>1, Zenon DEF VectorsHold, West, North, RowWords
  <2>4. buf'.word \in 0 .. TileAt(sch)'.kLen * RowWords - 1
    BY <1>15, <2>1, <2>2
  <2>5. QED
    BY <1>2, <1>10, <1>15, <1>16, <2>1, <2>2, <2>3, <2>4 DEF Sending, Sane
<1>20. QED
  BY <1>18, <1>19

(* The buffer waits while the chain computes.                                *)
LEMMA CaptureWaits ==
  ASSUME Known, ~Pipelined, RefShaped, NEW a, NEW b, NEW sink, OnClock(a, b, sink),
         InHand, buf.state = "CAPTURE", tac.state # "OUTPUT", tac.tileDone = FALSE
  PROVE  /\ buf'.state = "CAPTURE" /\ buf'.c = buf.c /\ bmem' = bmem
         /\ InHand' /\ TileAt(sch)' = TileAt(sch) /\ sch'.error = sch.error
<1>1. PICK start, d : RefBlocks(start, d, a, b, sink)
  BY DEF OnClock
<1>2. Ref!Buf!BufferCapture(Ref!Acc!OutValid, Ref!Acc!OutData, tac.tileDone)
  BY <1>1, BufferDoes
<1>3. ~Ref!Acc!OutValid /\ ~Ref!Buf!NothingToCapture(tac.tileDone)
  BY DEF Ref!Acc!OutValid, Ref!Buf!NothingToCapture
<1> DEFINE valid == Ref!Acc!OutValid
           data == Ref!Acc!OutData
           g == Ref!Buf!Go("CAPTURE")
<1>4. bmem' = bmem /\ buf' = g
  <2>1. Ref!Buf!BufferCapture(valid, data, tac.tileDone) /\ ~valid
    BY <1>2, <1>3
  <2> HIDE DEF valid, data
  <2>2. QED
    BY <1>3, <2>1 DEF Ref!Buf!BufferCapture
<1>5. /\ g.state = "CAPTURE" /\ g.launch = FALSE /\ g.done = FALSE
      /\ g.m = buf.m /\ g.n = buf.n /\ g.k = buf.k /\ g.error = buf.error /\ g.tile = buf.tile /\ g.c = buf.c
  BY Goes
<1> HIDE DEF g
<1>6. /\ SameBuffer /\ buf'.launch = FALSE /\ buf'.tile = buf.tile /\ buf'.state = "CAPTURE"
      /\ buf'.c = buf.c
  BY <1>4, <1>5 DEF SameBuffer
<1>7. FinalTo(bmem'.c, job, sch.m, sch.n, TileAt(sch).mLen)
  BY <1>4 DEF InHand, Scheduled
<1>8. QED
  BY <1>4, <1>6, <1>7, HandStays

(* What the adapter feeds on clock u of its tile.                            *)
LEMMA FedFeeding ==
  ASSUME NEW T, TileOf(job, T), VectorsHold(vectors.a, vectors.b, job, T, T.kLen * RowWords),
         adp.state = "FEED", adp.feedK \in 0 .. T.kLen - 1, NEW i \in Lanes
  PROVE  /\ Ref!Adp!Fed(vectors.a)[i] = West(job, T, i, adp.feedK)
         /\ Ref!Adp!Fed(vectors.b)[i] = North(job, T, i, adp.feedK)
<1> DEFINE u == adp.feedK
           len == T.kLen
           q == i \div 4
           lane == i % 4
           w == u * RowWords + q
<1>1. /\ RowWords \in Nat \ {0} /\ N = 4 * RowWords /\ N \div 4 = RowWords
      /\ i \in 0 .. N - 1 /\ i \in Nat /\ len \in Nat \ {0} /\ u \in 0 .. len - 1 /\ u \in Int
  BY RowWordsIs DEF RowWords, TileOf, Lanes
<1>2. q \in 0 .. RowWords - 1 /\ lane \in 0 .. 3 /\ q * 4 + lane = i
  BY <1>1
<1> HIDE DEF u, len, q, lane
<1>3. u * RowWords + q \in 0 .. len * RowWords - 1
  BY <1>1, <1>2, CellInRange
<1>4. u * RowWords = RowWords * u
  BY <1>1, Z3
<1>5. w % RowWords = q /\ w \div RowWords = u
  BY <1>1, <1>2, <1>4, RemainderUnique, QuotientUnique
<1>6. /\ Ref!Adp!Fed(vectors.a)[i] = vectors.a[w][lane]
      /\ Ref!Adp!Fed(vectors.b)[i] = vectors.b[w][lane]
  <2>1. Ref!Adp!WordsPerRow = RowWords
    BY <1>1 DEF Ref!Adp!WordsPerRow
  <2>2. \A held : Ref!Adp!Fed(held)[i] = held[u * Ref!Adp!WordsPerRow + q][lane]
    BY DEF Ref!Adp!Fed, Ref!Adp!Lanes, Lanes, u, q, lane
  <2>3. QED
    BY <2>1, <2>2
<1> HIDE DEF w
<1>7. w \in 0 .. T.kLen * RowWords - 1
  BY <1>3 DEF w, len
<1>8. /\ vectors.a[w][lane] = West(job, T, (w % RowWords) * 4 + lane, w \div RowWords)
      /\ vectors.b[w][lane] = North(job, T, (w % RowWords) * 4 + lane, w \div RowWords)
  BY <1>2, <1>7, Zenon DEF VectorsHold
<1>9. /\ West(job, T, (w % RowWords) * 4 + lane, w \div RowWords) = West(job, T, i, u)
      /\ North(job, T, (w % RowWords) * 4 + lane, w \div RowWords) = North(job, T, i, u)
  BY <1>2, <1>5, Zenon
<1>10. QED
  BY <1>6, <1>8, <1>9, Zenon DEF u

LEMMA FedDraining ==
  ASSUME NEW T, TileOf(job, T), adp.state = "DRAIN", NEW u \in Nat, u >= T.kLen, NEW i \in Lanes
  PROVE  /\ Ref!Adp!Fed(vectors.a)[i] = West(job, T, i, u)
         /\ Ref!Adp!Fed(vectors.b)[i] = North(job, T, i, u)
<1>1. \A held : Ref!Adp!Fed(held)[i] = 0
  BY DEF Ref!Adp!Fed, Ref!Adp!Lanes, Lanes
<1>2. u \notin 0 .. T.kLen - 1
  BY DEF TileOf
<1>3. QED
  BY <1>1, <1>2 DEF West, North

(* The array, the step the adapter takes.                                    *)
LEMMA StreamedOn ==
  ASSUME Known, ~Pipelined, RefShaped, NEW a, NEW b, NEW sink, OnClock(a, b, sink),
         NEW T, TileOf(job, T), Sound(job), VectorsHold(vectors.a, vectors.b, job, T, T.kLen * RowWords)
  PROVE  /\ adp.state = "CLEAR" => ArrayHolds(job, T, 0, arr')
         /\ adp.state = "FEED" /\ adp.feedK \in 0 .. T.kLen - 1 /\ ArrayHolds(job, T, adp.feedK, arr)
              => ArrayHolds(job, T, adp.feedK + 1, arr')
         /\ \A u \in Nat : adp.state = "DRAIN" /\ u >= T.kLen /\ ArrayHolds(job, T, u, arr)
              => ArrayHolds(job, T, u + 1, arr')
<1> DEFINE x == Ref!Adp!Fed(vectors.a)
           y == Ref!Adp!Fed(vectors.b)
<1>1. ArrayClock(adp.state \in {"FEED", "DRAIN"}, adp.state = "CLEAR", adp.state = "CLEAR", x, y)
  <2>1. PICK start, d : RefBlocks(start, d, a, b, sink)
    BY DEF OnClock
  <2>2. QED
    BY <2>1, AdapterDoes
<1>2. CASE adp.state = "CLEAR"
  <2> HIDE DEF x, y
  <2>1. ArrayClock(FALSE, TRUE, TRUE, x, y)
    BY <1>1, <1>2 DEF ArrayClock, LinesNext, AccNext
  <2>2. QED
    BY <1>2, <2>1, ArrayWiped
<1>3. CASE adp.state \in {"FEED", "DRAIN"}
  <2>1. ArrayClock(TRUE, FALSE, FALSE, x, y)
    <3> HIDE DEF x, y
    <3>1. QED
      BY <1>1, <1>3 DEF ArrayClock, LinesNext, AccNext
  <2>2. ASSUME adp.state = "FEED", adp.feedK \in 0 .. T.kLen - 1, ArrayHolds(job, T, adp.feedK, arr)
        PROVE  ArrayHolds(job, T, adp.feedK + 1, arr')
    <3> DEFINE u == adp.feedK
    <3>1. u \in Nat
      BY <2>2
    <3>2. \A i \in Lanes : x[i] = West(job, T, i, u) /\ y[i] = North(job, T, i, u)
      BY <2>2, FedFeeding
    <3> HIDE DEF x, y, u
    <3>3. ArrayHolds(job, T, u, arr)
      BY <2>2 DEF u
    <3>4. ArrayHolds(job, T, u + 1, arr')
      BY <2>1, <3>1, <3>2, <3>3, ArrayOn
    <3>5. QED
      BY <3>4 DEF u
  <2>3. ASSUME NEW u \in Nat, adp.state = "DRAIN", u >= T.kLen, ArrayHolds(job, T, u, arr)
        PROVE  ArrayHolds(job, T, u + 1, arr')
    <3>1. \A i \in Lanes : x[i] = West(job, T, i, u) /\ y[i] = North(job, T, i, u)
      BY <2>3, FedDraining
    <3> HIDE DEF x, y
    <3>2. QED
      BY <2>1, <2>3, <3>1, ArrayOn
  <2>4. QED
    BY <1>3, <2>2, <2>3
<1>4. QED
  BY <1>2, <1>3

(* The adapter, between its two streams.                                     *)
LEMMA AdapterGoesOn ==
  ASSUME RefShaped, NEW a, NEW b, NEW sink, OnClock(a, b, sink),
         NEW len \in Nat \ {0}, adp.k = len, adp.state \in {"CLEAR", "FEED", "DRAIN"},
         adp.state = "FEED" => adp.feedK \in 0 .. len - 1,
         adp.state = "DRAIN" => adp.drain \in 0 .. 2 * N - 2
  PROVE  /\ vectors' = vectors /\ adp'.k = adp.k /\ adp'.error = adp.error
         /\ \/ adp.state = "CLEAR" /\ adp'.state = "FEED" /\ adp'.feedK = 0
            \/ adp.state = "FEED" /\ adp.feedK < len - 1
                 /\ adp'.state = "FEED" /\ adp'.feedK = adp.feedK + 1
            \/ adp.state = "FEED" /\ adp.feedK = len - 1 /\ adp'.state = "DRAIN" /\ adp'.drain = 0
            \/ adp.state = "DRAIN" /\ adp.drain < 2 * N - 2
                 /\ adp'.state = "DRAIN" /\ adp'.drain = adp.drain + 1
            \/ adp.state = "DRAIN" /\ adp.drain = 2 * N - 2 /\ adp'.state = "OUTPUT" /\ adp'.c = 0
<1>0. N \in Nat \ {0}
  BY Sizes
<1>1. /\ adp.state = "CLEAR" => Ref!Adp!AdapterClear
      /\ adp.state = "FEED" => Ref!Adp!AdapterFeed
      /\ adp.state = "DRAIN" => Ref!Adp!AdapterDrain
  <2>1. PICK start, d : RefBlocks(start, d, a, b, sink)
    BY DEF OnClock
  <2>2. QED
    BY <2>1, AdapterDoes
<1>2. DOMAIN adp = AdpFields
  BY DEF RefShaped
<1>3. CASE adp.state = "CLEAR"
  <2>1. vectors' = vectors /\ adp' = [adp EXCEPT !.feedK = 0, !.drain = 0, !.state = "FEED"]
    BY <1>1, <1>3 DEF Ref!Adp!AdapterClear
  <2>2. QED
    BY <1>2, <1>3, <2>1 DEF AdpFields
<1>4. CASE adp.state = "FEED"
  <2>1. CASE adp.feedK = len - 1
    <3>1. vectors' = vectors /\ adp' = [adp EXCEPT !.drain = 0, !.state = "DRAIN"]
      BY <1>1, <1>4, <2>1 DEF Ref!Adp!AdapterFeed
    <3>2. QED
      BY <1>2, <1>4, <2>1, <3>1 DEF AdpFields
  <2>2. CASE adp.feedK # len - 1
    <3>1. vectors' = vectors /\ adp' = [adp EXCEPT !.feedK = adp.feedK + 1]
      BY <1>1, <1>4, <2>2 DEF Ref!Adp!AdapterFeed
    <3>2. adp.feedK < len - 1
      BY <1>4, <2>2
    <3>3. QED
      BY <1>2, <1>4, <3>1, <3>2 DEF AdpFields
  <2>3. QED
    BY <2>1, <2>2
<1>5. CASE adp.state = "DRAIN"
  <2>1. Ref!Adp!DrainCycles - 1 = 2 * N - 2
    BY <1>0 DEF Ref!Adp!DrainCycles
  <2>2. CASE adp.drain = 2 * N - 2
    <3>1. vectors' = vectors /\ adp' = [adp EXCEPT !.c = 0, !.state = "OUTPUT"]
      BY <1>1, <1>5, <2>1, <2>2 DEF Ref!Adp!AdapterDrain
    <3>2. QED
      BY <1>2, <1>5, <2>2, <3>1 DEF AdpFields
  <2>3. CASE adp.drain # 2 * N - 2
    <3>1. vectors' = vectors /\ adp' = [adp EXCEPT !.drain = adp.drain + 1]
      BY <1>1, <1>5, <2>1, <2>3 DEF Ref!Adp!AdapterDrain
    <3>2. adp.drain < 2 * N - 2
      BY <1>0, <1>5, <2>3
    <3>3. QED
      BY <1>2, <1>5, <3>1, <3>2 DEF AdpFields
  <2>4. QED
    BY <2>2, <2>3
<1>6. QED
  BY <1>3, <1>4, <1>5

LEMMA StreamingOn ==
  ASSUME Known, ~Pipelined, RefShaped, Sane, Streaming, NEW a, NEW b, NEW sink, OnClock(a, b, sink)
  PROVE  (Streaming' \/ Summing') /\ Sane'
<1> DEFINE T == TileAt(sch)
           len == T.kLen
<1>0. N \in Nat \ {0}
  BY Sizes
<1>1. /\ buf.state = "CAPTURE" /\ buf.c = 0 /\ InHand /\ Adding /\ tac.in = 0 /\ adp.k = len
      /\ VectorsHold(vectors.a, vectors.b, job, T, T.kLen * RowWords)
      /\ adp.state \in {"CLEAR", "FEED", "DRAIN"}
      /\ adp.state = "FEED" => adp.feedK \in 0 .. len - 1 /\ ArrayHolds(job, T, adp.feedK, arr)
      /\ adp.state = "DRAIN" => adp.drain \in 0 .. 2 * N - 2 /\ ArrayHolds(job, T, len + adp.drain, arr)
  BY DEF Streaming
<1>2. TileOf(job, T) /\ Sound(job) /\ len \in Nat \ {0}
  <2>1. TileOf(job, T) /\ Sound(job)
    BY <1>1, TileOk, JobOk DEF InHand, Accepted
  <2>2. QED
    BY <2>1 DEF TileOf
<1>3. /\ buf'.state = "CAPTURE" /\ buf'.c = 0 /\ InHand' /\ TileAt(sch)' = T /\ sch'.error = sch.error
  <2>1. tac.state # "OUTPUT" /\ tac.tileDone = FALSE
    BY <1>1 DEF Adding
  <2>2. QED
    BY <1>1, <2>1, CaptureWaits
<1>4. Adding' /\ tac'.in = 0
  BY <1>1, <1>3, AddingStays
<1>5. /\ adp.state = "CLEAR" => ArrayHolds(job, T, 0, arr')
      /\ adp.state = "FEED" => ArrayHolds(job, T, adp.feedK + 1, arr')
      /\ adp.state = "DRAIN" => ArrayHolds(job, T, (len + adp.drain) + 1, arr')
  <2>1. adp.state = "DRAIN" => len + adp.drain \in Nat /\ len + adp.drain >= len
    BY <1>0, <1>1, <1>2
  <2> HIDE DEF T
  <2>2. QED
    BY <1>1, <1>2, <2>1, StreamedOn
<1>6. /\ vectors' = vectors /\ adp'.k = adp.k /\ adp'.error = adp.error
      /\ \/ adp.state = "CLEAR" /\ adp'.state = "FEED" /\ adp'.feedK = 0
         \/ adp.state = "FEED" /\ adp.feedK < len - 1
              /\ adp'.state = "FEED" /\ adp'.feedK = adp.feedK + 1
         \/ adp.state = "FEED" /\ adp.feedK = len - 1 /\ adp'.state = "DRAIN" /\ adp'.drain = 0
         \/ adp.state = "DRAIN" /\ adp.drain < 2 * N - 2
              /\ adp'.state = "DRAIN" /\ adp'.drain = adp.drain + 1
         \/ adp.state = "DRAIN" /\ adp.drain = 2 * N - 2 /\ adp'.state = "OUTPUT" /\ adp'.c = 0
  <2> HIDE DEF len
  <2>1. QED
    BY <1>1, <1>2, AdapterGoesOn
<1> HIDE DEF len
<1>7. job' = job /\ T.kLen = len
  BY DEF OnClock, len
<1> HIDE DEF T
<1>8. VectorsHold(vectors.a, vectors.b, job, TileAt(sch), TileAt(sch).kLen * RowWords)'
  <2>1. VectorsHold(vectors'.a, vectors'.b, job', TileAt(sch)', TileAt(sch)'.kLen * RowWords)
    BY <1>1, <1>3, <1>6, <1>7
  <2>2. QED
    BY <2>1, Zenon DEF VectorsHold, West, North, RowWords
<1>9. adp'.k = TileAt(sch)'.kLen
  BY <1>1, <1>3, <1>6, <1>7
<1>10. CASE adp'.state = "FEED"
  <2>1. adp'.feedK \in 0 .. len - 1 /\ ArrayHolds(job, T, adp'.feedK, arr')
    <3>1. CASE adp.state = "CLEAR"
      BY <1>2, <1>5, <1>6, <1>10, <3>1
    <3>2. CASE adp.state = "FEED"
      <4>1. adp'.feedK = adp.feedK + 1 /\ adp.feedK < len - 1 /\ adp.feedK \in 0 .. len - 1
        BY <1>1, <1>6, <1>10, <3>2
      <4>2. QED
        BY <1>2, <1>5, <3>2, <4>1
    <3>3. QED
      BY <1>6, <1>10, <3>1, <3>2
  <2>2. adp'.feedK \in 0 .. TileAt(sch)'.kLen - 1
    BY <1>3, <1>7, <2>1
  <2>3. ArrayHolds(job, TileAt(sch), adp.feedK, arr)'
    <3>1. ArrayHolds(job', TileAt(sch)', adp'.feedK, arr')
      BY <1>3, <1>7, <2>1
    <3>2. QED
      BY <3>1, Zenon DEF ArrayHolds, LinesHold, SumsHold, West, North, Met, Part, Terms, Lanes, LineOf
  <2>4. QED
    BY <1>3, <1>4, <1>6, <1>8, <1>9, <1>10, <2>2, <2>3 DEF Streaming, Sane
<1>11. CASE adp'.state = "DRAIN"
  <2>1. adp'.drain \in 0 .. 2 * N - 2 /\ ArrayHolds(job, T, len + adp'.drain, arr')
    <3>1. CASE adp.state = "FEED"
      <4>1. adp'.drain = 0 /\ adp.feedK = len - 1
        BY <1>6, <1>11, <3>1
      <4>2. adp.feedK + 1 = len + adp'.drain
        BY <1>2, <4>1
      <4>3. QED
        BY <1>0, <1>5, <3>1, <4>1, <4>2
    <3>2. CASE adp.state = "DRAIN"
      <4>1. adp'.drain = adp.drain + 1 /\ adp.drain < 2 * N - 2 /\ adp.drain \in 0 .. 2 * N - 2
        BY <1>1, <1>6, <1>11, <3>2
      <4>2. (len + adp.drain) + 1 = len + adp'.drain /\ adp'.drain \in 0 .. 2 * N - 2
        BY <1>0, <1>2, <4>1
      <4>3. QED
        BY <1>5, <3>2, <4>2
    <3>3. QED
      BY <1>6, <1>11, <3>1, <3>2
  <2>2. ArrayHolds(job, TileAt(sch), TileAt(sch).kLen + adp.drain, arr)'
    <3>1. ArrayHolds(job', TileAt(sch)', TileAt(sch)'.kLen + adp'.drain, arr')
      BY <1>3, <1>7, <2>1
    <3>2. QED
      BY <3>1, Zenon DEF ArrayHolds, LinesHold, SumsHold, West, North, Met, Part, Terms, Lanes, LineOf
  <2>3. QED
    BY <1>3, <1>4, <1>6, <1>8, <1>9, <1>11, <2>1, <2>2 DEF Streaming, Sane
<1>12. CASE adp'.state = "OUTPUT"
  <2>1. adp.state = "DRAIN" /\ adp.drain = 2 * N - 2 /\ adp'.c = 0
    BY <1>6, <1>12
  <2>2. (len + adp.drain) + 1 = len + (2 * N - 1)
    BY <1>0, <1>2, <2>1
  <2>3. ArrayHolds(job, T, len + (2 * N - 1), arr')
    BY <1>5, <2>1, <2>2
  <2>4. ArrayHolds(job, TileAt(sch), TileAt(sch).kLen + (2 * N - 1), arr)'
    <3>1. ArrayHolds(job', TileAt(sch)', TileAt(sch)'.kLen + (2 * N - 1), arr')
      BY <1>3, <1>7, <2>3
    <3>2. QED
      BY <3>1, Zenon DEF ArrayHolds, LinesHold, SumsHold, West, North, Met, Part, Terms, Lanes, LineOf
  <2>5. QED
    BY <1>3, <1>4, <1>6, <1>12, <2>1, <2>4 DEF Summing, Sane
<1>13. QED
  BY <1>6, <1>10, <1>11, <1>12

(* The word the adder takes.                                                 *)
LEMMA SummedWord ==
  ASSUME NEW j, Sound(j), NEW T, TileOf(j, T), T.firstK <=> T.k = 0,
         NEW w \in 0 .. N * N - 1, Inside(T, w), ArrayHolds(j, T, T.kLen + (2 * N - 1), arr),
         tac.first = T.firstK, tac.in = w, T.k = 0 \/ SumsUpTo(sums, j, T, w, N * N, T.k)
  PROVE  Ref!Acc!Prior + arr.acc[<<w \div N, w % N>>]
           = Part(j, T.m + (w \div N), T.n + (w % N), T.k + T.kLen)
<1> DEFINE r == w \div N
           c == w % N
           to == Part(j, T.m + r, T.n + c, T.k + T.kLen)
           from == Part(j, T.m + r, T.n + c, T.k)
<1>1. r \in Lanes /\ c \in Lanes /\ r \in Nat /\ c \in Nat /\ r < T.mLen /\ c < T.nLen
  BY WordCell DEF Inside
<1>2. arr.acc[<<r, c>>] = to - from
  <2> HIDE DEF r, c
  <2>1. QED
    BY <1>1, ArrayThrough
<1>3. to \in Int /\ from \in Int /\ (T.k = 0 => from = 0)
  <2> HIDE DEF r, c
  <2>1. T.m + r \in 0 .. j.m - 1 /\ T.n + c \in 0 .. j.n - 1
    BY <1>1 DEF TileOf, Sound
  <2>2. T.k + T.kLen \in 0 .. j.k /\ T.k \in 0 .. j.k
    BY DEF TileOf, Sound
  <2>3. /\ Part(j, T.m + r, T.n + c, 0) = 0
        /\ \A n \in 0 .. j.k : Part(j, T.m + r, T.n + c, n) \in Int
    BY <2>1, PartStep
  <2>4. QED
    BY <2>2, <2>3
<1>4. Ref!Acc!Prior = from
  <2>1. CASE T.k = 0
    <3>1. tac.first
      BY <2>1
    <3>2. QED
      BY <1>3, <2>1, <3>1 DEF Ref!Acc!Prior
  <2>2. CASE T.k # 0
    <3>1. ~tac.first
      BY <2>2
    <3>2. w \in w .. N * N - 1 /\ SumsUpTo(sums, j, T, w, N * N, T.k)
      BY <2>2
    <3>3. sums[w] = from
      BY <3>2, Zenon DEF SumsUpTo
    <3>4. QED
      BY <3>1, <3>3 DEF Ref!Acc!Prior
  <2>3. QED
    BY <2>1, <2>2
<1> HIDE DEF to, from
<1>5. Ref!Acc!Prior + arr.acc[<<r, c>>] = to
  BY <1>2, <1>3, <1>4
<1>6. QED
  BY <1>5 DEF to

LEMMA AdderOn ==
  ASSUME Known, ~Pipelined, RefShaped, NEW a, NEW b, NEW sink, OnClock(a, b, sink),
         NEW T, T = TileAt(sch), TileOf(job, T), Sound(job), T.firstK <=> T.k = 0, T.lastK \in BOOLEAN,
         Adding, adp.state = "OUTPUT", adp.c = tac.in, ArrayHolds(job, T, T.kLen + (2 * N - 1), arr)
  PROVE  /\ SumsUpTo(sums', job, T, 0, tac.in + 1, T.k + T.kLen)
         /\ T.k = 0 \/ SumsUpTo(sums', job, T, tac.in + 1, N * N, T.k)
         /\ \/ /\ tac.in < N * N - 1
               /\ tac'.state = "CONSUME" /\ tac'.in = tac.in + 1 /\ tac'.tileDone = FALSE
               /\ tac'.first = tac.first /\ tac'.last = tac.last
            \/ /\ tac.in = N * N - 1 /\ T.lastK
               /\ tac'.state = "OUTPUT" /\ tac'.out = 0 /\ tac'.tileDone = FALSE
            \/ tac.in = N * N - 1 /\ ~T.lastK /\ tac'.state = "IDLE" /\ tac'.tileDone = TRUE
<1> DEFINE w == tac.in
           data == arr.acc[<<w \div N, w % N>>]
           new == Ref!Acc!Prior + data
           words == N * N
<1>0. words \in Nat \ {0}
  BY Sizes, Z3
<1>1. /\ tac.state = "CONSUME" /\ tac.first = T.firstK /\ tac.last = T.lastK
      /\ w \in 0 .. N * N - 1
      /\ SumsUpTo(sums, job, T, 0, w, T.k + T.kLen)
      /\ T.k = 0 \/ SumsUpTo(sums, job, T, w, N * N, T.k)
  BY DEF Adding
<1>2. Ref!Acc!Consume(Ref!Adp!CValid, Ref!Adp!CData)
  <2>1. PICK start, d : RefBlocks(start, d, a, b, sink)
    BY DEF OnClock
  <2>2. QED
    BY <1>1, <2>1, AccumulatorDoes
<1>3. Ref!Adp!CValid /\ Ref!Adp!CData = data
  BY DEF Ref!Adp!CValid, Ref!Adp!CData
<1>4. /\ sums' = [sums EXCEPT ![w] = new]
      /\ tac' = [tac EXCEPT !.in = IF w = words - 1 THEN 0 ELSE w + 1,
                            !.out = IF w = words - 1 /\ tac.last THEN 0 ELSE @,
                            !.state = IF ~(w = words - 1) THEN @ ELSE IF tac.last THEN "OUTPUT" ELSE "IDLE",
                            !.tileDone = w = words - 1 /\ ~tac.last]
  <2> DEFINE valid == Ref!Adp!CValid
             value == Ref!Adp!CData
  <2>1. Ref!Acc!Consume(valid, value) /\ valid /\ value = data
    BY <1>2, <1>3
  <2>2. Ref!Acc!LastIn <=> w = words - 1
    BY DEF Ref!Acc!LastIn, Ref!Acc!Words
  <2> HIDE DEF valid, value, data, words
  <2>3. QED
    BY <2>1, <2>2 DEF Ref!Acc!Consume
<1>5. Inside(T, w) => new = Part(job, T.m + (w \div N), T.n + (w % N), T.k + T.kLen)
  BY <1>1, SummedWord
<1>6. w \in DOMAIN sums /\ w \in Nat
  BY <1>1 DEF RefShaped
<1> HIDE DEF data, new
<1>7. \A v : sums'[v] = IF v = w THEN new ELSE sums[v]
  BY <1>4, <1>6
<1>8. SumsUpTo(sums', job, T, 0, w + 1, T.k + T.kLen)
  <2> DEFINE hi == w + 1
             k == T.k + T.kLen
  <2>1. hi = w + 1
    OBVIOUS
  <2> HIDE DEF w, hi
  <2>2. ASSUME NEW v \in 0 .. hi - 1, Inside(T, v)
        PROVE  sums'[v] = Part(job, T.m + (v \div N), T.n + (v % N), k)
    <3>1. CASE v = w
      BY <1>5, <1>7, <2>2, <3>1
    <3>2. CASE v # w
      <4>1. v \in 0 .. w - 1
        BY <1>6, <2>1, <2>2, <3>2
      <4>2. QED
        BY <1>1, <1>7, <2>2, <3>2, <4>1, Zenon DEF SumsUpTo
    <3>3. QED
      BY <3>1, <3>2
  <2> HIDE DEF k
  <2>3. SumsUpTo(sums', job, T, 0, hi, k)
    BY <2>2, Zenon DEF SumsUpTo
  <2>4. QED
    BY <2>1, <2>3 DEF k
<1>9. T.k = 0 \/ SumsUpTo(sums', job, T, w + 1, N * N, T.k)
  <2> SUFFICES ASSUME T.k # 0, NEW v \in w + 1 .. N * N - 1, Inside(T, v)
               PROVE  sums'[v] = Part(job, T.m + (v \div N), T.n + (v % N), T.k)
    BY DEF SumsUpTo
  <2>1. SumsUpTo(sums, job, T, w, N * N, T.k)
    BY <1>1
  <2> HIDE DEF w
  <2>2. v # w /\ v \in w .. N * N - 1
    BY <1>0, <1>6
  <2>3. QED
    BY <1>7, <2>1, <2>2, Zenon DEF SumsUpTo
<1>10. DOMAIN tac = TacFields
  BY DEF RefShaped
<1>11. CASE w = words - 1 /\ T.lastK
  <2>1. /\ tac'.state = "OUTPUT" /\ tac'.out = 0
        /\ tac'.tileDone = FALSE
    <3> HIDE DEF words, w
    <3>1. QED
      BY <1>1, <1>4, <1>10, <1>11 DEF TacFields
  <2>2. QED
    BY <1>8, <1>9, <1>11, <2>1
<1>12. CASE w = words - 1 /\ ~T.lastK
  <2>1. tac'.state = "IDLE" /\ tac'.tileDone = TRUE
    <3> HIDE DEF words, w
    <3>1. QED
      BY <1>1, <1>4, <1>10, <1>12 DEF TacFields
  <2>2. QED
    BY <1>8, <1>9, <1>12, <2>1
<1>13. CASE w # words - 1
  <2>1. /\ tac'.state = "CONSUME" /\ tac'.in = w + 1 /\ tac'.tileDone = FALSE
        /\ tac'.first = tac.first /\ tac'.last = tac.last
    <3> HIDE DEF words, w
    <3>1. QED
      BY <1>1, <1>4, <1>10, <1>13 DEF TacFields
  <2>2. w < words - 1
    <3> HIDE DEF w
    <3>1. w \in 0 .. words - 1
      BY <1>1
    <3> HIDE DEF words
    <3>2. QED
      BY <1>0, <1>13, <3>1
  <2>3. QED
    BY <1>8, <1>9, <2>1, <2>2
<1>14. QED
  BY <1>11, <1>12, <1>13

LEMMA ArrayRests ==
  ASSUME NEW a, NEW b, NEW sink, OnClock(a, b, sink), adp.state \notin {"CLEAR", "FEED", "DRAIN"}
  PROVE  arr'.west = arr.west /\ arr'.north = arr.north /\ arr'.acc = arr.acc
<1> DEFINE x == Ref!Adp!Fed(vectors.a)
           y == Ref!Adp!Fed(vectors.b)
<1>1. ArrayClock(adp.state \in {"FEED", "DRAIN"}, adp.state = "CLEAR", adp.state = "CLEAR", x, y)
  <2>1. PICK start, d : RefBlocks(start, d, a, b, sink)
    BY DEF OnClock
  <2>2. QED
    BY <2>1, AdapterDoes
<1> HIDE DEF x, y
<1>2. QED
  BY <1>1 DEF ArrayClock, LinesNext, AccNext

LEMMA AdapterEmits ==
  ASSUME RefShaped, NEW a, NEW b, NEW sink, OnClock(a, b, sink),
         adp.state = "OUTPUT", tac.state = "CONSUME"
  PROVE  /\ adp'.error = adp.error
         /\ adp.c # N * N - 1 => adp'.state = "OUTPUT" /\ adp'.c = adp.c + 1
         /\ adp.c = N * N - 1 => adp'.state = "IDLE"
<1>1. Ref!Adp!AdapterOutput(Ref!Acc!InReady)
  <2>1. PICK start, d : RefBlocks(start, d, a, b, sink)
    BY DEF OnClock
  <2>2. QED
    BY <2>1, AdapterDoes
<1>2. Ref!Acc!InReady
  BY DEF Ref!Acc!InReady
<1>3. /\ adp.c # N * N - 1 => adp' = [adp EXCEPT !.c = @ + 1]
      /\ adp.c = N * N - 1 => adp' = [adp EXCEPT !.state = "IDLE"]
  <2> DEFINE ready == Ref!Acc!InReady
  <2>1. ready /\ Ref!Adp!AdapterOutput(ready)
    BY <1>1, <1>2
  <2> HIDE DEF ready
  <2>2. QED
    BY <2>1 DEF Ref!Adp!AdapterOutput
<1>4. DOMAIN adp = AdpFields
  BY DEF RefShaped
<1>5. CASE adp.c = N * N - 1
  <2>1. adp' = [adp EXCEPT !.state = "IDLE"]
    BY <1>3, <1>5
  <2>2. QED
    BY <1>4, <1>5, <2>1 DEF AdpFields
<1>6. CASE adp.c # N * N - 1
  <2>1. adp' = [adp EXCEPT !.c = adp.c + 1]
    BY <1>3, <1>6
  <2>2. QED
    BY <1>4, <1>6, <2>1 DEF AdpFields
<1>7. QED
  BY <1>5, <1>6

LEMMA SummingOn ==
  ASSUME Known, ~Pipelined, RefShaped, Sane, Summing, NEW a, NEW b, NEW sink, OnClock(a, b, sink)
  PROVE  (Summing' \/ Capturing' \/ Told') /\ Sane'
<1> DEFINE T == TileAt(sch)
<1>0. N * N \in Nat \ {0}
  BY Sizes, Z3
<1>1. /\ buf.state = "CAPTURE" /\ buf.c = 0 /\ InHand /\ Adding /\ adp.state = "OUTPUT" /\ adp.c = tac.in
      /\ ArrayHolds(job, T, T.kLen + (2 * N - 1), arr)
  BY DEF Summing
<1>2. /\ TileOf(job, T) /\ Sound(job) /\ T.lastK \in BOOLEAN /\ (T.firstK <=> T.k = 0)
      /\ (T.lastK => T.k + T.kLen = job.k)
  BY <1>1, TileOk, JobOk DEF InHand, Accepted
<1>3. /\ tac.state = "CONSUME" /\ tac.first = T.firstK /\ tac.last = T.lastK /\ tac.tileDone = FALSE
      /\ tac.in \in 0 .. N * N - 1
  BY <1>1 DEF Adding
<1>4. /\ buf'.state = "CAPTURE" /\ buf'.c = 0 /\ InHand' /\ TileAt(sch)' = T /\ sch'.error = sch.error
  BY <1>1, <1>3, CaptureWaits
<1>5. job' = job
  BY DEF OnClock
<1>6. /\ adp'.error = adp.error
      /\ adp.c # N * N - 1 => adp'.state = "OUTPUT" /\ adp'.c = adp.c + 1
      /\ adp.c = N * N - 1 => adp'.state = "IDLE"
  BY <1>1, <1>3, AdapterEmits
<1>7. Sane'
  BY <1>4, <1>6 DEF Sane
<1> DEFINE k == T.k + T.kLen
<1>8. /\ SumsUpTo(sums', job, T, 0, tac.in + 1, k)
      /\ T.k = 0 \/ SumsUpTo(sums', job, T, tac.in + 1, N * N, T.k)
      /\ \/ /\ tac.in < N * N - 1
            /\ tac'.state = "CONSUME" /\ tac'.in = tac.in + 1 /\ tac'.tileDone = FALSE
            /\ tac'.first = tac.first /\ tac'.last = tac.last
         \/ /\ tac.in = N * N - 1 /\ T.lastK
            /\ tac'.state = "OUTPUT" /\ tac'.out = 0 /\ tac'.tileDone = FALSE
         \/ tac.in = N * N - 1 /\ ~T.lastK /\ tac'.state = "IDLE" /\ tac'.tileDone = TRUE
  <2> DEFINE S == T
  <2>1. S = TileAt(sch)
    OBVIOUS
  <2> HIDE DEF S
  <2>2. T = S
    BY <2>1
  <2> HIDE DEF T
  <2>3. QED
    BY <1>1, <1>2, <2>1, <2>2, AdderOn
<1> DEFINE last == N * N - 1
<1>9. last \in Nat
  BY <1>0
<1>10. /\ tac.in < last =>
            /\ tac'.state = "CONSUME" /\ tac'.in = tac.in + 1 /\ tac'.tileDone = FALSE
            /\ tac'.first = tac.first /\ tac'.last = tac.last
       /\ tac.in = last /\ T.lastK => tac'.state = "OUTPUT" /\ tac'.out = 0 /\ tac'.tileDone = FALSE
       /\ tac.in = last /\ ~T.lastK => tac'.state = "IDLE" /\ tac'.tileDone = TRUE
       /\ tac.in < last \/ tac.in = last
  <2>1. tac.in \in 0 .. last
    BY <1>3
  <2> HIDE DEF T, last
  <2>2. \/ /\ tac.in < last
           /\ tac'.state = "CONSUME" /\ tac'.in = tac.in + 1 /\ tac'.tileDone = FALSE
           /\ tac'.first = tac.first /\ tac'.last = tac.last
        \/ /\ tac.in = last /\ T.lastK
           /\ tac'.state = "OUTPUT" /\ tac'.out = 0 /\ tac'.tileDone = FALSE
        \/ tac.in = last /\ ~T.lastK /\ tac'.state = "IDLE" /\ tac'.tileDone = TRUE
    BY <1>8 DEF last
  <2>3. QED
    BY <1>9, <2>1, <2>2
<1>11. tac.in < last => tac.in # last
  <2> HIDE DEF last
  <2>1. QED
    BY <1>9
<1>12. CASE tac.in < N * N - 1
  <2>1. /\ tac'.state = "CONSUME" /\ tac'.in = tac.in + 1 /\ tac'.tileDone = FALSE
        /\ tac'.first = T.firstK /\ tac'.last = T.lastK /\ tac'.in \in 0 .. N * N - 1
    <3>1. /\ tac'.state = "CONSUME" /\ tac'.in = tac.in + 1 /\ tac'.tileDone = FALSE
          /\ tac'.first = T.firstK /\ tac'.last = T.lastK
      BY <1>3, <1>12, <1>10
    <3>2. tac.in \in 0 .. last /\ tac.in < last
      BY <1>3, <1>12
    <3> HIDE DEF last, T
    <3>3. tac.in + 1 \in 0 .. last
      BY <1>9, <3>2
    <3>4. QED
      BY <3>1, <3>3 DEF last
  <2>2. adp'.state = "OUTPUT" /\ adp'.c = tac'.in
    BY <1>1, <1>6, <1>12, <1>11, <2>1
  <2>3. SumsUpTo(sums', job, T, 0, tac'.in, k) /\ (T.k = 0 \/ SumsUpTo(sums', job, T, tac'.in, N * N, T.k))
    BY <1>8, <2>1
  <2>4. Adding'
    <3>1. T = TileAt(sch) /\ TileAt(sch)' = T
      BY <1>4
    <3> HIDE DEF T
    <3>2. QED
      BY <1>5, <2>1, <2>3, <3>1, AddingThen DEF k
  <2>5. ArrayHolds(job, TileAt(sch), TileAt(sch).kLen + (2 * N - 1), arr)'
    <3>1. arr'.west = arr.west /\ arr'.north = arr.north /\ arr'.acc = arr.acc
      BY <1>1, ArrayRests
    <3>2. ArrayHolds(job, T, T.kLen + (2 * N - 1), arr')
      <4> HIDE DEF T
      <4>1. QED
        BY <1>1, <3>1, Zenon DEF ArrayHolds, LinesHold, SumsHold
    <3>3. ArrayHolds(job', TileAt(sch)', TileAt(sch)'.kLen + (2 * N - 1), arr')
      BY <1>4, <1>5, <3>2
    <3>4. QED
      BY <3>3, Zenon DEF ArrayHolds, LinesHold, SumsHold, West, North, Met, Part, Terms, Lanes, LineOf
  <2>6. QED
    BY <1>4, <1>7, <2>2, <2>4, <2>5 DEF Summing
<1>13. CASE tac.in = N * N - 1
  <2>1. adp'.state = "IDLE"
    BY <1>1, <1>6, <1>13
  <2>2. SumsUpTo(sums', job, T, 0, N * N, k)
    <3>1. tac.in + 1 = N * N
      BY <1>0, <1>13
    <3>2. QED
      BY <1>8, <3>1
  <2>3. CASE T.lastK
    <3>1. tac'.state = "OUTPUT" /\ tac'.out = 0 /\ tac'.tileDone = FALSE
      BY <1>13, <1>10, <2>3
    <3>2. SumsUpTo(sums, job, TileAt(sch), 0, N * N, job.k)'
      <4>1. SumsUpTo(sums', job', TileAt(sch)', 0, N * N, job'.k)
        BY <1>2, <1>4, <1>5, <2>2, <2>3
      <4>2. QED
        BY <4>1, Zenon DEF SumsUpTo, Part, Terms, Inside
    <3>3. CapturedTo(bmem.c, job, TileAt(sch), buf.c)'
      <4>1. buf'.c = 0
        BY <1>4
      <4>2. QED
        BY <4>1 DEF CapturedTo
    <3>4. TileAt(sch)'.lastK
      BY <1>4, <2>3
    <3>5. 0 \in 0 .. N * N - 1
      BY <1>0
    <3>6. QED
      BY <1>4, <1>7, <2>1, <3>1, <3>2, <3>3, <3>4, <3>5 DEF Capturing
  <2>4. CASE ~T.lastK
    <3>1. tac'.state = "IDLE" /\ tac'.tileDone = TRUE
      BY <1>13, <1>10, <2>4
    <3>2. SumsUpTo(sums, job, TileAt(sch), 0, N * N, TileAt(sch).k + TileAt(sch).kLen)'
      <4>1. SumsUpTo(sums', job', TileAt(sch)', 0, N * N, TileAt(sch)'.k + TileAt(sch)'.kLen)
        BY <1>4, <1>5, <2>2
      <4>2. QED
        BY <4>1, Zenon DEF SumsUpTo, Part, Terms, Inside
    <3>3. ~TileAt(sch)'.lastK
      BY <1>4, <2>4
    <3>4. QED
      BY <1>4, <1>7, <2>1, <3>1, <3>2, <3>3 DEF Told, ChainRests
  <2>5. QED
    BY <2>3, <2>4
<1>14. QED
  BY <1>12, <1>13, <1>10

(* A word into the cell it belongs to, or none.                              *)
LEMMA CaptureOne ==
  ASSUME NEW j, Sound(j), NEW T, TileOf(j, T), NEW w \in 0 .. N * N - 1, CapturedTo(bmem.c, j, T, w),
         NEW cells, NEW m, NEW n, NEW len, FinalTo(bmem.c, j, m, n, len),
         Matrix(bmem.c, MaxM, MaxN), j.m <= MaxM, j.n <= MaxN,
         \/ /\ Inside(T, w)
            /\ cells = [bmem.c EXCEPT ![<<T.m + (w \div N), T.n + (w % N)>>]
                          = Element(j, T.m + (w \div N), T.n + (w % N))]
         \/ ~Inside(T, w) /\ cells = bmem.c
  PROVE  CapturedTo(cells, j, T, w + 1) /\ FinalTo(cells, j, m, n, len)
<1> DEFINE x == T.m + (w \div N)
           y == T.n + (w % N)
<1>1. CASE Inside(T, w)
  <2>1. x \in 0 .. j.m - 1 /\ y \in 0 .. j.n - 1
    <3> DEFINE r == w \div N
               c == w % N
    <3>1. r \in Nat /\ c \in Nat /\ r < T.mLen /\ c < T.nLen
      BY <1>1, WordCell DEF Inside
    <3> HIDE DEF r, c
    <3>2. T.m + r \in 0 .. j.m - 1 /\ T.n + c \in 0 .. j.n - 1
      BY <3>1 DEF TileOf, Sound
    <3>3. QED
      BY <3>2 DEF r, c
  <2> HIDE DEF x, y
  <2>2. cells = [bmem.c EXCEPT ![<<x, y>>] = Element(j, x, y)]
    BY <1>1 DEF x, y
  <2>3. <<x, y>> \in DOMAIN bmem.c
    BY <2>1, Sizes DEF Sound, Matrix, Grid
  <2>4. FinalTo(cells, j, m, n, len)
    BY <2>2, <2>3, FinalStays
  <2>5. \A r, c : cells[<<r, c>>] = IF r = x /\ c = y THEN Element(j, x, y) ELSE bmem.c[<<r, c>>]
    BY <2>2, <2>3
  <2>6. CapturedTo(cells, j, T, w + 1)
    <3> DEFINE hi == w + 1
    <3>1. ASSUME NEW v \in 0 .. hi - 1, Inside(T, v)
          PROVE  cells[<<T.m + (v \div N), T.n + (v % N)>>] = Element(j, T.m + (v \div N), T.n + (v % N))
      <4> DEFINE r == T.m + (v \div N)
                 c == T.n + (v % N)
      <4>1. CASE v = w
        BY <2>5, <4>1 DEF x, y
      <4>2. CASE v # w
        <5>1. v \in 0 .. w - 1
          BY <3>1, <4>2
        <5>2. bmem.c[<<r, c>>] = Element(j, r, c)
          BY <3>1, <5>1, Zenon DEF CapturedTo
        <5> HIDE DEF r, c
        <5>3. cells[<<r, c>>] = Element(j, r, c)
          BY <2>5, <5>2, Zenon
        <5>4. QED
          BY <5>3 DEF r, c
      <4>3. QED
        BY <4>1, <4>2
    <3> HIDE DEF hi
    <3>2. CapturedTo(cells, j, T, hi)
      BY <3>1, Zenon DEF CapturedTo
    <3>3. QED
      BY <3>2 DEF hi
  <2>7. QED
    BY <2>4, <2>6
<1>2. CASE ~Inside(T, w)
  <2>1. cells = bmem.c
    BY <1>2
  <2> DEFINE hi == w + 1
  <2>2. ASSUME NEW v \in 0 .. hi - 1, Inside(T, v)
        PROVE  cells[<<T.m + (v \div N), T.n + (v % N)>>] = Element(j, T.m + (v \div N), T.n + (v % N))
    <3>1. v # w
      BY <1>2, <2>2
    <3>2. v \in 0 .. w - 1
      BY <2>2, <3>1
    <3>3. QED
      BY <2>1, <2>2, <3>2, Zenon DEF CapturedTo
  <2> HIDE DEF hi
  <2>3. CapturedTo(cells, j, T, hi)
    BY <2>2, Zenon DEF CapturedTo
  <2>4. QED
    BY <2>1, <2>3 DEF hi
<1>3. QED
  BY <1>1, <1>2

LEMMA Emitting ==
  ASSUME RefShaped, NEW a, NEW b, NEW sink, OnClock(a, b, sink),
         tac.state = "OUTPUT", buf.state = "CAPTURE"
  PROVE  /\ sums' = sums
         /\ tac.out # N * N - 1 =>
              tac'.state = "OUTPUT" /\ tac'.out = tac.out + 1 /\ tac'.tileDone = FALSE
         /\ tac.out = N * N - 1 => tac'.state = "IDLE" /\ tac'.tileDone = TRUE
<1> DEFINE words == Ref!Acc!Words
<1>1. Ref!Acc!Emit(TRUE)
  <2> DEFINE go == buf.state = "CAPTURE"
  <2>1. PICK start, d : RefBlocks(start, d, a, b, sink)
    BY DEF OnClock
  <2>2. Ref!Acc!Emit(go) /\ go
    BY <2>1, AccumulatorDoes
  <2>3. go = TRUE
    BY <2>2
  <2> HIDE DEF go
  <2>4. QED
    BY <2>2, <2>3
<1>2. words = N * N
  BY DEF Ref!Acc!Words
<1> HIDE DEF words
<1>3. DOMAIN tac = TacFields
  BY DEF RefShaped
<1>4. CASE tac.out = words - 1
  <2>1. sums' = sums /\ tac' = [tac EXCEPT !.out = 0, !.state = "IDLE", !.tileDone = TRUE]
    BY <1>1, <1>4 DEF Ref!Acc!Emit, words
  <2>2. QED
    BY <1>2, <1>3, <1>4, <2>1 DEF TacFields
<1>5. CASE tac.out # words - 1
  <2>1. sums' = sums /\ tac' = [tac EXCEPT !.out = tac.out + 1, !.tileDone = FALSE]
    BY <1>1, <1>5 DEF Ref!Acc!Emit, words
  <2>2. QED
    BY <1>2, <1>3, <1>5, <2>1 DEF TacFields
<1>6. QED
  BY <1>4, <1>5

LEMMA Captures ==
  ASSUME RefShaped, NEW a, NEW b, NEW sink, OnClock(a, b, sink), NEW T, buf.tile = T,
         tac.state = "OUTPUT", buf.state = "CAPTURE", tac.out = buf.c
  PROVE  /\ bmem'.a = bmem.a /\ bmem'.b = bmem.b
         /\ \/ /\ Inside(T, buf.c)
               /\ bmem'.c = [bmem.c EXCEPT ![<<T.m + (buf.c \div N), T.n + (buf.c % N)>>] = sums[buf.c]]
            \/ ~Inside(T, buf.c) /\ bmem'.c = bmem.c
         /\ SameBuffer /\ buf'.launch = FALSE /\ buf'.tile = buf.tile
         /\ buf.c # N * N - 1 => buf'.state = "CAPTURE" /\ buf'.c = buf.c + 1
         /\ buf.c = N * N - 1 => buf'.state = "READY"
<1> DEFINE valid == Ref!Acc!OutValid
           data == Ref!Acc!OutData
           ends == tac.tileDone
<1>1. Ref!Buf!BufferCapture(valid, data, ends)
  <2>1. PICK start, d : RefBlocks(start, d, a, b, sink)
    BY DEF OnClock
  <2>2. QED
    BY <2>1, BufferDoes
<1>2. valid /\ data = sums[buf.c]
  BY DEF Ref!Acc!OutValid, Ref!Acc!OutData
<1> HIDE DEF valid, data, ends
<1>3. bmem' = IF buf.c \div N < T.mLen /\ buf.c % N < T.nLen
                THEN [bmem EXCEPT !.c = [@ EXCEPT ![<<T.m + (buf.c \div N), T.n + (buf.c % N)>>] = sums[buf.c]]]
                ELSE bmem
  BY <1>1, <1>2 DEF Ref!Buf!BufferCapture
<1>4. /\ bmem'.a = bmem.a /\ bmem'.b = bmem.b
      /\ \/ /\ Inside(T, buf.c)
            /\ bmem'.c = [bmem.c EXCEPT ![<<T.m + (buf.c \div N), T.n + (buf.c % N)>>] = sums[buf.c]]
         \/ ~Inside(T, buf.c) /\ bmem'.c = bmem.c
  <2> DEFINE r == buf.c \div N
             q == buf.c % N
             cells == [bmem.c EXCEPT ![<<T.m + r, T.n + q>>] = sums[buf.c]]
  <2>1. CASE Inside(T, buf.c)
    <3>1. bmem' = [bmem EXCEPT !.c = cells]
      BY <1>3, <2>1 DEF Inside
    <3> HIDE DEF cells
    <3>2. bmem'.a = bmem.a /\ bmem'.b = bmem.b /\ bmem'.c = cells
      BY <3>1 DEF RefShaped
    <3>3. QED
      BY <2>1, <3>2 DEF cells
  <2>2. CASE ~Inside(T, buf.c)
    <3>1. bmem' = bmem
      BY <1>3, <2>2 DEF Inside
    <3>2. QED
      BY <2>2, <3>1
  <2>3. QED
    BY <2>1, <2>2
<1>5. buf' = IF buf.c = N * N - 1 THEN Ref!Buf!Go("READY") ELSE [Ref!Buf!Go("CAPTURE") EXCEPT !.c = @ + 1]
  BY <1>1, <1>2 DEF Ref!Buf!BufferCapture
<1>6. CASE buf.c = N * N - 1
  <2> DEFINE g == Ref!Buf!Go("READY")
  <2>1. buf' = g
    BY <1>5, <1>6
  <2>2. /\ g.state = "READY" /\ g.launch = FALSE /\ g.done = FALSE
        /\ g.m = buf.m /\ g.n = buf.n /\ g.k = buf.k /\ g.error = buf.error /\ g.tile = buf.tile
    BY Goes
  <2> HIDE DEF g
  <2>3. QED
    BY <1>4, <1>6, <2>1, <2>2 DEF SameBuffer
<1>7. CASE buf.c # N * N - 1
  <2> DEFINE g == Ref!Buf!Go("CAPTURE")
  <2>1. buf' = [g EXCEPT !.c = g.c + 1]
    BY <1>5, <1>7
  <2>2. /\ g.state = "CAPTURE" /\ g.launch = FALSE /\ g.done = FALSE /\ DOMAIN g = BufFields
        /\ g.m = buf.m /\ g.n = buf.n /\ g.k = buf.k /\ g.error = buf.error /\ g.tile = buf.tile
        /\ g.c = buf.c
    BY Goes
  <2> HIDE DEF g
  <2>3. SameBuffer /\ buf'.launch = FALSE /\ buf'.tile = buf.tile /\ buf'.state = "CAPTURE" /\ buf'.c = buf.c + 1
    BY <2>1, <2>2 DEF SameBuffer, BufFields
  <2>4. QED
    BY <1>4, <1>7, <2>3
<1>8. QED
  BY <1>6, <1>7

LEMMA CapturingOn ==
  ASSUME Known, ~Pipelined, RefShaped, Sane, Capturing, NEW a, NEW b, NEW sink, OnClock(a, b, sink)
  PROVE  (Capturing' \/ Told') /\ Sane'
<1> DEFINE T == TileAt(sch)
           words == N * N
<1>0. words \in Nat \ {0}
  BY Sizes, Z3
<1>1. /\ buf.state = "CAPTURE" /\ InHand /\ T.lastK /\ adp.state = "IDLE"
      /\ tac.state = "OUTPUT" /\ tac.tileDone = FALSE /\ tac.out \in 0 .. N * N - 1 /\ buf.c = tac.out
      /\ SumsUpTo(sums, job, T, 0, N * N, job.k) /\ CapturedTo(bmem.c, job, T, buf.c)
  BY DEF Capturing
<1>2. TileOf(job, T) /\ Sound(job) /\ Legal(job) /\ buf.tile = T
  BY <1>1, TileOk, JobOk DEF InHand, Accepted
<1>3. /\ bmem'.a = bmem.a /\ bmem'.b = bmem.b
      /\ \/ /\ Inside(T, buf.c)
            /\ bmem'.c = [bmem.c EXCEPT ![<<T.m + (buf.c \div N), T.n + (buf.c % N)>>] = sums[buf.c]]
         \/ ~Inside(T, buf.c) /\ bmem'.c = bmem.c
      /\ SameBuffer /\ buf'.launch = FALSE /\ buf'.tile = buf.tile
      /\ buf.c # N * N - 1 => buf'.state = "CAPTURE" /\ buf'.c = buf.c + 1
      /\ buf.c = N * N - 1 => buf'.state = "READY"
  BY <1>1, <1>2, Captures
<1>4. /\ sums' = sums
      /\ tac.out # N * N - 1 => tac'.state = "OUTPUT" /\ tac'.out = tac.out + 1 /\ tac'.tileDone = FALSE
      /\ tac.out = N * N - 1 => tac'.state = "IDLE" /\ tac'.tileDone = TRUE
  BY <1>1, Emitting
<1>5. CapturedTo(bmem'.c, job, T, buf.c + 1) /\ FinalTo(bmem'.c, job, sch.m, sch.n, T.mLen)
  <2> DEFINE w == buf.c
             x == T.m + (w \div N)
             y == T.n + (w % N)
             cells == bmem'.c
             m == sch.m
             n == sch.n
             len == T.mLen
  <2>1. Inside(T, w) => sums[w] = Element(job, x, y)
    <3>1. SumsUpTo(sums, job, T, 0, N * N, job.k) /\ w \in 0 .. N * N - 1
      BY <1>1
    <3> HIDE DEF w
    <3>2. QED
      BY <3>1, Zenon DEF SumsUpTo, Element
  <2>2. \/ Inside(T, w) /\ cells = [bmem.c EXCEPT ![<<x, y>>] = Element(job, x, y)]
        \/ ~Inside(T, w) /\ cells = bmem.c
    <3> HIDE DEF T, w
    <3>1. QED
      BY <1>3, <2>1 DEF w
  <2>3. FinalTo(bmem.c, job, m, n, len) /\ CapturedTo(bmem.c, job, T, w) /\ w \in 0 .. N * N - 1
    BY <1>1 DEF InHand, Scheduled
  <2>4. Matrix(bmem.c, MaxM, MaxN) /\ job.m <= MaxM /\ job.n <= MaxN
    BY <1>2 DEF RefShaped, Legal
  <2> HIDE DEF cells, m, n, len, w, T
  <2>5. CapturedTo(cells, job, T, w + 1) /\ FinalTo(cells, job, m, n, len)
    BY <1>2, <2>2, <2>3, <2>4, CaptureOne
  <2>6. QED
    BY <2>5 DEF cells, m, n, len, w, T
<1>6. InHand' /\ TileAt(sch)' = T /\ sch'.error = sch.error
  BY <1>1, <1>3, <1>5, HandStays
<1>7. adp' = adp
  <2> DEFINE go == Ref!Sch!TileValid /\ buf.state = "READY"
             len == Ref!Sch!Tile.kLen % 65536
  <2>1. Ref!Adp!AdapterIdle(go, len)
    <3>1. PICK start, d : RefBlocks(start, d, a, b, sink)
      BY DEF OnClock
    <3>2. QED
      BY <1>1, <3>1, AdapterDoes
  <2>2. ~go
    BY <1>1
  <2> HIDE DEF go, len
  <2>3. QED
    BY <2>1, <2>2 DEF Ref!Adp!AdapterIdle
<1>8. job' = job /\ Sane'
  BY <1>6, <1>7 DEF Sane, OnClock
<1>9. CASE buf.c # N * N - 1
  <2>1. /\ buf'.state = "CAPTURE" /\ buf'.c = buf.c + 1
        /\ tac'.state = "OUTPUT" /\ tac'.out = buf.c + 1 /\ tac'.tileDone = FALSE
    BY <1>1, <1>3, <1>4, <1>9
  <2>2. buf.c + 1 \in 0 .. N * N - 1
    <3> DEFINE last == N * N - 1
    <3>1. buf.c \in 0 .. last /\ buf.c # last /\ last \in Nat
      BY <1>0, <1>1, <1>9
    <3> HIDE DEF last
    <3>2. buf.c + 1 \in 0 .. last
      BY <3>1
    <3>3. QED
      BY <3>2 DEF last
  <2>3. SumsUpTo(sums, job, TileAt(sch), 0, N * N, job.k)'
    <3>1. SumsUpTo(sums', job', TileAt(sch)', 0, N * N, job'.k)
      BY <1>1, <1>4, <1>6, <1>8
    <3>2. QED
      BY <3>1, Zenon DEF SumsUpTo, Part, Terms, Inside
  <2>4. CapturedTo(bmem.c, job, TileAt(sch), buf.c)'
    <3>1. CapturedTo(bmem'.c, job', TileAt(sch)', buf'.c)
      BY <1>5, <1>6, <1>8, <2>1
    <3>2. QED
      BY <3>1, Zenon DEF CapturedTo, Element, Part, Terms, Inside
  <2>5. adp'.state = "IDLE" /\ TileAt(sch)'.lastK /\ tac'.out \in 0 .. N * N - 1 /\ buf'.c = tac'.out
    BY <1>1, <1>6, <1>7, <2>1, <2>2
  <2>6. QED
    BY <1>6, <1>8, <2>1, <2>3, <2>4, <2>5 DEF Capturing
<1>10. CASE buf.c = N * N - 1
  <2>1. buf'.state = "READY" /\ tac'.state = "IDLE" /\ tac'.tileDone = TRUE
    BY <1>1, <1>3, <1>4, <1>10
  <2>2. CapturedTo(bmem.c, job, TileAt(sch), N * N)'
    <3>1. buf.c + 1 = N * N
      BY <1>0, <1>10
    <3>2. CapturedTo(bmem'.c, job', TileAt(sch)', N * N)
      BY <1>5, <1>6, <1>8, <3>1
    <3>3. QED
      BY <3>2, Zenon DEF CapturedTo, Element, Part, Terms, Inside
  <2>3. adp'.state = "IDLE" /\ TileAt(sch)'.lastK
    BY <1>1, <1>6, <1>7
  <2>4. QED
    BY <1>6, <1>8, <2>1, <2>2, <2>3 DEF Told, ChainRests
<1>11. QED
  BY <1>9, <1>10

(* The scheduler, one tile on.                                               *)
LEMMA Walks ==
  ASSUME Known, ~Pipelined, RefShaped, Legal(job), Scheduled, sch.inFlight = TRUE,
         NEW a, NEW b, NEW sink, OnClock(a, b, sink), buf.launch = FALSE, tac.tileDone = TRUE
  PROVE  LET T == TileAt(sch)
         IN  /\ sch'.inFlight = FALSE /\ sch'.error = sch.error
             /\ \/ /\ sch'.done = FALSE
                   /\ sch'.dm = sch.dm /\ sch'.dn = sch.dn /\ sch'.dk = sch.dk
                   /\ sch'.tm = sch.tm /\ sch'.tn = sch.tn /\ sch'.tk = sch.tk
                   /\ \/ ~T.lastK /\ sch'.m = sch.m /\ sch'.n = sch.n /\ sch'.k = sch.k + T.kLen
                      \/ /\ T.lastK /\ T.n + T.nLen < job.n
                         /\ sch'.m = sch.m /\ sch'.n = sch.n + T.nLen /\ sch'.k = 0
                      \/ /\ T.lastK /\ T.n + T.nLen >= job.n /\ T.m + T.mLen < job.m
                         /\ sch'.m = sch.m + T.mLen /\ sch'.n = 0 /\ sch'.k = 0
                \/ /\ T.lastK /\ T.n + T.nLen >= job.n /\ T.m + T.mLen >= job.m
                   /\ sch'.dm = 0 /\ sch'.done = TRUE
<1> DEFINE T == TileAt(sch)
<1>1. Ref!Sch!SchedulerClock(buf.launch, startQ.d, buf.state = "READY", tac.tileDone)
  BY DEF OnClock, RefBlocks
<1>2. sch' = Ref!Sch!Walk
  BY <1>1 DEF Ref!Sch!SchedulerClock, Ref!Sch!TileValid
<1>3. /\ Ref!Sch!LastK = T.lastK /\ Ref!Sch!KLen = T.kLen /\ Ref!Sch!NLen = T.nLen /\ Ref!Sch!MLen = T.mLen
  BY TileIs
<1>4. T.m = sch.m /\ T.n = sch.n /\ sch.dn = job.n /\ sch.dm = job.m /\ T.lastK \in BOOLEAN /\ TileOf(job, T)
  <2>1. T.m = sch.m /\ T.n = sch.n /\ T.lastK \in BOOLEAN /\ TileOf(job, T)
    BY TileOk
  <2>2. sch.dn = job.n /\ sch.dm = job.m
    BY DEF Scheduled
  <2>3. QED
    BY <2>1, <2>2
<1>5. /\ Ref!Sch!LastN <=> T.n + T.nLen >= job.n
      /\ Ref!Sch!LastM <=> T.m + T.mLen >= job.m
  BY <1>3, <1>4 DEF Ref!Sch!LastN, Ref!Sch!LastM
<1>6. /\ T.n + T.nLen \in Nat /\ T.m + T.mLen \in Nat /\ job.n \in Nat /\ job.m \in Nat
  BY <1>4, JobOk DEF TileOf, Sound
<1>7. DOMAIN sch = SchFields
  BY DEF RefShaped
<1> DEFINE nOver == T.n + T.nLen >= job.n
           mOver == T.m + T.mLen >= job.m
           lastK == Ref!Sch!LastK
           lastN == Ref!Sch!LastN
           lastM == Ref!Sch!LastM
           mLen == Ref!Sch!MLen
           nLen == Ref!Sch!NLen
           kLen == Ref!Sch!KLen
<1>8. /\ ~lastK => sch' = [sch EXCEPT !.inFlight = FALSE, !.done = FALSE, !.k = sch.k + kLen]
      /\ lastK /\ ~lastN => sch' = [sch EXCEPT !.inFlight = FALSE, !.done = FALSE, !.k = 0, !.n = sch.n + nLen]
      /\ lastK /\ lastN /\ ~lastM =>
           sch' = [sch EXCEPT !.inFlight = FALSE, !.done = FALSE, !.k = 0, !.n = 0, !.m = sch.m + mLen]
      /\ lastK /\ lastN /\ lastM =>
           sch' = [Ref!Sch!ResetScheduler EXCEPT !.tm = sch.tm, !.tn = sch.tn, !.tk = sch.tk, !.done = TRUE,
                                                 !.error = sch.error]
  <2>1. Ref!Sch!Walk =
          IF ~lastK     THEN [sch EXCEPT !.inFlight = FALSE, !.done = FALSE, !.k = sch.k + kLen]
          ELSE IF ~lastN THEN [sch EXCEPT !.inFlight = FALSE, !.done = FALSE, !.k = 0, !.n = sch.n + nLen]
          ELSE IF ~lastM THEN [sch EXCEPT !.inFlight = FALSE, !.done = FALSE, !.k = 0, !.n = 0, !.m = sch.m + mLen]
          ELSE [Ref!Sch!ResetScheduler EXCEPT !.tm = sch.tm, !.tn = sch.tn, !.tk = sch.tk, !.done = TRUE,
                                              !.error = sch.error]
    BY DEF Ref!Sch!Walk
  <2> HIDE DEF lastK, lastN, lastM, mLen, nLen, kLen
  <2>2. QED
    BY <1>2, <2>1
<1>9. (lastK <=> T.lastK) /\ mLen = T.mLen /\ nLen = T.nLen /\ kLen = T.kLen /\ (lastN <=> nOver) /\ (lastM <=> mOver)
  BY <1>3, <1>4, <1>5
<1>10. (~nOver => T.n + T.nLen < job.n) /\ (~mOver => T.m + T.mLen < job.m)
  BY <1>6
<1> HIDE DEF lastK, lastN, lastM, mLen, nLen, kLen
<1>11. CASE ~lastK
  <2>1. sch' = [sch EXCEPT !.inFlight = FALSE, !.done = FALSE, !.k = sch.k + kLen] /\ ~T.lastK
    BY <1>8, <1>9, <1>11
  <2> HIDE DEF T
  <2>2. QED
    BY <1>7, <1>9, <2>1 DEF SchFields, T
<1>12. CASE lastK /\ ~lastN
  <2>1. /\ sch' = [sch EXCEPT !.inFlight = FALSE, !.done = FALSE, !.k = 0, !.n = sch.n + nLen]
        /\ T.lastK /\ T.n + T.nLen < job.n
    BY <1>8, <1>9, <1>10, <1>12
  <2> HIDE DEF T
  <2>2. QED
    BY <1>7, <1>9, <2>1 DEF SchFields, T
<1>13. CASE lastK /\ lastN /\ ~lastM
  <2>1. /\ sch' = [sch EXCEPT !.inFlight = FALSE, !.done = FALSE, !.k = 0, !.n = 0, !.m = sch.m + mLen]
        /\ T.lastK /\ T.n + T.nLen >= job.n /\ T.m + T.mLen < job.m
    BY <1>8, <1>9, <1>10, <1>13
  <2> HIDE DEF T
  <2>2. QED
    BY <1>7, <1>9, <2>1 DEF SchFields, T
<1>14. CASE lastK /\ lastN /\ lastM
  <2>1. /\ sch' = [Ref!Sch!ResetScheduler EXCEPT !.tm = sch.tm, !.tn = sch.tn, !.tk = sch.tk, !.done = TRUE,
                                                 !.error = sch.error]
        /\ T.lastK /\ T.n + T.nLen >= job.n /\ T.m + T.mLen >= job.m
    BY <1>8, <1>9, <1>14
  <2>2. sch'.inFlight = FALSE /\ sch'.error = sch.error /\ sch'.dm = 0 /\ sch'.done = TRUE
    BY <2>1 DEF Ref!Sch!ResetScheduler
  <2> HIDE DEF T
  <2>3. QED
    BY <2>1, <2>2 DEF T
<1>15. QED
  BY <1>11, <1>12, <1>13, <1>14

LEMMA ToldBuffer ==
  ASSUME RefShaped, NEW a, NEW b, NEW sink, OnClock(a, b, sink), Told
  PROVE  bmem' = bmem /\ SameBuffer /\ buf'.launch = FALSE /\ buf'.state = "READY"
<1> DEFINE T == TileAt(sch)
           g == Ref!Buf!Go("READY")
<1>1. InHand /\ ChainRests /\ tac.tileDone = TRUE /\ buf.tile = T /\ sch.inFlight = TRUE /\ sch.done = FALSE
  BY DEF Told, InHand, Scheduled
<1>2. PICK start, d : RefBlocks(start, d, a, b, sink)
  BY DEF OnClock
<1>3. \/ buf.state = "READY"
      \/ buf.state = "CAPTURE" /\ ~T.lastK
  BY DEF Told
<1>4. bmem' = bmem /\ buf' = g
  <2>1. CASE buf.state = "READY"
    <3> DEFINE valid == Ref!Sch!TileValid
               tile == Ref!Sch!Tile
    <3>1. Ref!Buf!BufferReady(valid, tile, sch.done)
      BY <1>2, <2>1, BufferDoes
    <3>2. ~valid
      BY <1>1 DEF Ref!Sch!TileValid
    <3> HIDE DEF valid, tile
    <3>3. QED
      BY <1>1, <3>1, <3>2 DEF Ref!Buf!BufferReady
  <2>2. CASE buf.state = "CAPTURE" /\ ~T.lastK
    <3> DEFINE valid == Ref!Acc!OutValid
               data == Ref!Acc!OutData
    <3>1. Ref!Buf!BufferCapture(valid, data, tac.tileDone)
      BY <1>2, <2>2, BufferDoes
    <3>2. ~valid
      BY <1>1 DEF Ref!Acc!OutValid, ChainRests
    <3>3. Ref!Buf!NothingToCapture(tac.tileDone)
      BY <1>1, <2>2 DEF Ref!Buf!NothingToCapture
    <3> HIDE DEF valid, data, T
    <3>4. QED
      BY <3>1, <3>2, <3>3 DEF Ref!Buf!BufferCapture
  <2>3. QED
    BY <1>3, <2>1, <2>2
<1>5. /\ g.state = "READY" /\ g.launch = FALSE /\ g.done = FALSE
      /\ g.m = buf.m /\ g.n = buf.n /\ g.k = buf.k /\ g.error = buf.error
  BY Goes
<1> HIDE DEF g
<1>6. QED
  BY <1>4, <1>5 DEF SameBuffer

LEMMA OfferingThen ==
  ASSUME buf'.state = "READY", Accepted', passed' = 0, ChainRests', Quiet', job' = job, bmem' = bmem,
         Scheduled, sch'.inFlight = FALSE, sch'.done = FALSE,
         sch'.dm = sch.dm, sch'.dn = sch.dn, sch'.dk = sch.dk,
         sch'.tm = sch.tm, sch'.tn = sch.tn, sch'.tk = sch.tk,
         sch'.m \in 0 .. job.m - 1, sch'.n \in 0 .. job.n - 1, sch'.k \in 0 .. job.k - 1,
         FinalTo(bmem.c, job, sch'.m, sch'.n, TileAt(sch').mLen),
         sch'.k = 0 \/ SumsUpTo(sums', job, TileAt(sch'), 0, N * N, sch'.k)
  PROVE  Offering'
<1>1. TileAt(sch)' = TileAt(sch')
  BY DEF TileAt
<1>2. OperandsIn'
  <2>1. Holds(bmem'.a, job'.a, job'.m, job'.k) /\ Holds(bmem'.b, job'.b, job'.k, job'.n)
    BY DEF Scheduled, OperandsIn
  <2>2. QED
    BY <2>1, Zenon DEF OperandsIn, Holds
<1>3. FinalTo(bmem.c, job, sch.m, sch.n, TileAt(sch).mLen)'
  <2>1. FinalTo(bmem'.c, job', sch'.m, sch'.n, TileAt(sch)'.mLen)
    BY <1>1
  <2>2. QED
    BY <2>1, Zenon DEF FinalTo, Element, Part, Terms
<1>4. sch'.k = 0 \/ SumsUpTo(sums, job, TileAt(sch), 0, N * N, sch.k)'
  <2>1. sch'.k = 0 \/ SumsUpTo(sums', job', TileAt(sch)', 0, N * N, sch'.k)
    BY <1>1
  <2>2. QED
    BY <2>1, Zenon DEF SumsUpTo, Part, Terms, Inside
<1>5. Scheduled'
  BY <1>2, <1>3 DEF Scheduled
<1>6. QED
  BY <1>4, <1>5 DEF Offering

LEMMA ToldOn ==
  ASSUME Known, ~Pipelined, RefShaped, Sane, Told, NEW a, NEW b, NEW sink, OnClock(a, b, sink)
  PROVE  (Offering' \/ Finished') /\ Sane'
<1> DEFINE T == TileAt(sch)
           U == TileAt(sch')
<1>1. /\ InHand /\ ChainRests /\ tac.tileDone = TRUE
      /\ T.lastK => CapturedTo(bmem.c, job, T, N * N)
      /\ ~T.lastK => SumsUpTo(sums, job, T, 0, N * N, T.k + T.kLen)
  BY DEF Told
<1>2. /\ Accepted /\ passed = 0 /\ Scheduled /\ sch.inFlight = TRUE /\ buf.launch = FALSE /\ Legal(job)
      /\ FinalTo(bmem.c, job, sch.m, sch.n, T.mLen)
  BY <1>1 DEF InHand, Accepted, Scheduled
<1>3. /\ TileOf(job, T) /\ Sound(job) /\ T.m = sch.m /\ T.n = sch.n /\ T.k = sch.k
      /\ (~T.lastK => T.k + T.kLen < job.k)
  BY <1>2, TileOk, JobOk
<1>4. bmem' = bmem /\ SameBuffer /\ buf'.launch = FALSE /\ buf'.state = "READY"
  BY ToldBuffer
<1>5. job' = job /\ passed' = 0
  <2>1. buf.state # "OUTPUT"
    BY DEF Told
  <2>2. QED
    BY <1>2, <2>1 DEF OnClock
<1>6. adp' = adp /\ ChainRests' /\ tac'.tileDone = FALSE /\ sums' = sums
  <2>1. PICK start, d : RefBlocks(start, d, a, b, sink)
    BY DEF OnClock
  <2>2. ~(Ref!Sch!TileValid /\ buf.state = "READY")
    BY <1>2 DEF Ref!Sch!TileValid
  <2>3. QED
    BY <1>1, <2>1, <2>2, ChainIdles
<1>7. Accepted' /\ Quiet'
  BY <1>2, <1>4, <1>6, AcceptedStays DEF Quiet
<1>8. /\ sch'.inFlight = FALSE /\ sch'.error = sch.error
      /\ \/ /\ sch'.done = FALSE
            /\ sch'.dm = sch.dm /\ sch'.dn = sch.dn /\ sch'.dk = sch.dk
            /\ sch'.tm = sch.tm /\ sch'.tn = sch.tn /\ sch'.tk = sch.tk
            /\ \/ ~T.lastK /\ sch'.m = sch.m /\ sch'.n = sch.n /\ sch'.k = sch.k + T.kLen
               \/ /\ T.lastK /\ T.n + T.nLen < job.n
                  /\ sch'.m = sch.m /\ sch'.n = sch.n + T.nLen /\ sch'.k = 0
               \/ /\ T.lastK /\ T.n + T.nLen >= job.n /\ T.m + T.mLen < job.m
                  /\ sch'.m = sch.m + T.mLen /\ sch'.n = 0 /\ sch'.k = 0
         \/ /\ T.lastK /\ T.n + T.nLen >= job.n /\ T.m + T.mLen >= job.m
            /\ sch'.dm = 0 /\ sch'.done = TRUE
  BY <1>1, <1>2, Walks
<1>9. Sane'
  BY <1>6, <1>8 DEF Sane
<1>10. T.lastK => FinalTo(bmem.c, job, T.m, T.n + T.nLen, T.mLen)
  <2> DEFINE cells == bmem.c
  <2>1. T.lastK => CapturedTo(cells, job, T, N * N)
    BY <1>1
  <2>2. FinalTo(cells, job, T.m, T.n, T.mLen)
    BY <1>2, <1>3
  <2> HIDE DEF T, cells
  <2>3. T.lastK => FinalTo(cells, job, T.m, T.n + T.nLen, T.mLen)
    BY <1>3, <2>1, <2>2, FinalWidens
  <2>4. QED
    BY <2>3 DEF cells
<1>11. /\ sch.m \in 0 .. job.m - 1 /\ sch.n \in 0 .. job.n - 1 /\ sch.k \in 0 .. job.k - 1
       /\ job.m \in Nat \ {0} /\ job.n \in Nat \ {0} /\ job.k \in Nat \ {0}
       /\ T.mLen \in Nat \ {0} /\ T.nLen \in Nat \ {0} /\ T.kLen \in Nat \ {0}
  BY <1>2, <1>3 DEF Scheduled, Sound, TileOf
<1> DEFINE going == /\ sch'.done = FALSE
                    /\ sch'.dm = sch.dm /\ sch'.dn = sch.dn /\ sch'.dk = sch.dk
                    /\ sch'.tm = sch.tm /\ sch'.tn = sch.tn /\ sch'.tk = sch.tk
<1>12. ASSUME going, sch'.m \in 0 .. job.m - 1, sch'.n \in 0 .. job.n - 1, sch'.k \in 0 .. job.k - 1,
              FinalTo(bmem.c, job, sch'.m, sch'.n, U.mLen),
              sch'.k = 0 \/ SumsUpTo(sums', job, U, 0, N * N, sch'.k)
       PROVE  Offering'
  BY <1>2, <1>4, <1>5, <1>6, <1>7, <1>8, <1>12, OfferingThen
<1>13. ASSUME going, ~T.lastK, sch'.m = sch.m, sch'.n = sch.n, sch'.k = sch.k + T.kLen
       PROVE  Offering'
  <2>1. U.m = T.m /\ U.n = T.n /\ U.mLen = T.mLen /\ U.nLen = T.nLen
    BY <1>13 DEF TileAt
  <2>2. sch'.k = T.k + T.kLen /\ sch'.k \in 0 .. job.k - 1
    <3> HIDE DEF T
    <3>1. QED
      BY <1>3, <1>11, <1>13
  <2>3. SumsUpTo(sums', job, U, 0, N * N, sch'.k)
    <3> DEFINE k == sch'.k
               f == sums'
    <3>1. SumsUpTo(f, job, T, 0, N * N, k)
      BY <1>1, <1>6, <1>13, <2>2
    <3> HIDE DEF T, U, k, f
    <3>2. SumsUpTo(f, job, U, 0, N * N, k)
      BY <2>1, <3>1 DEF SumsUpTo, Inside
    <3>3. QED
      BY <3>2 DEF k, f
  <2>4. FinalTo(bmem.c, job, sch'.m, sch'.n, U.mLen)
    BY <1>2, <1>13, <2>1
  <2>5. sch'.m \in 0 .. job.m - 1 /\ sch'.n \in 0 .. job.n - 1
    BY <1>11, <1>13
  <2>6. QED
    BY <1>12, <1>13, <2>2, <2>3, <2>4, <2>5
<1>14. ASSUME going, T.lastK, T.n + T.nLen < job.n, sch'.m = sch.m, sch'.n = sch.n + T.nLen, sch'.k = 0
       PROVE  Offering'
  <2>1. U.mLen = T.mLen
    BY <1>14 DEF TileAt
  <2>2. sch'.m = T.m /\ sch'.n = T.n + T.nLen
    BY <1>3, <1>14
  <2>3. sch'.m \in 0 .. job.m - 1 /\ sch'.n \in 0 .. job.n - 1 /\ sch'.k \in 0 .. job.k - 1
    <3> HIDE DEF T
    <3>1. QED
      BY <1>3, <1>11, <1>14
  <2>4. FinalTo(bmem.c, job, sch'.m, sch'.n, U.mLen)
    BY <1>10, <1>14, <2>1, <2>2
  <2>5. QED
    BY <1>12, <1>14, <2>3, <2>4
<1>15. T.lastK /\ T.n + T.nLen >= job.n =>
         /\ FinalTo(bmem.c, job, sch.m + T.mLen, 0, U.mLen)
         /\ T.m + T.mLen >= job.m => AllFinal(bmem.c, job)
  <2> DEFINE m == sch.m
             n == T.n + T.nLen
             len == T.mLen
             more == U.mLen
             cells == bmem.c
  <2>1. m \in Nat /\ n \in Nat /\ len \in Nat /\ T.m = m /\ Sound(job)
    <3> HIDE DEF T
    <3>1. QED
      BY <1>3, <1>11
  <2>2. T.lastK => FinalTo(cells, job, m, n, len)
    BY <1>3, <1>10
  <2> HIDE DEF m, n, len, more, cells
  <2>3. T.lastK /\ n >= job.n => FinalTo(cells, job, m + len, 0, more) /\ (m + len >= job.m => AllFinal(cells, job))
    BY <2>1, <2>2, FinalWraps
  <2>4. QED
    BY <2>1, <2>3 DEF m, n, len, more, cells
<1>16. ASSUME going, T.lastK, T.n + T.nLen >= job.n, T.m + T.mLen < job.m,
              sch'.m = sch.m + T.mLen, sch'.n = 0, sch'.k = 0
       PROVE  Offering'
  <2>1. sch'.m \in 0 .. job.m - 1 /\ sch'.n \in 0 .. job.n - 1 /\ sch'.k \in 0 .. job.k - 1
    <3> HIDE DEF T
    <3>1. QED
      BY <1>3, <1>11, <1>16
  <2>2. FinalTo(bmem.c, job, sch'.m, sch'.n, U.mLen)
    BY <1>15, <1>16
  <2>3. QED
    BY <1>12, <1>16, <2>1, <2>2
<1>17. ASSUME T.lastK, T.n + T.nLen >= job.n, T.m + T.mLen >= job.m, sch'.dm = 0, sch'.done = TRUE
       PROVE  Finished'
  <2>1. AllFinal(bmem.c, job)'
    <3>1. AllFinal(bmem'.c, job')
      BY <1>4, <1>5, <1>15, <1>17
    <3>2. QED
      BY <3>1, Zenon DEF AllFinal, Element, Part, Terms
  <2>2. QED
    BY <1>4, <1>5, <1>6, <1>7, <1>8, <1>17, <2>1 DEF Finished
<1>18. QED
  <2> HIDE DEF T
  <2>1. \/ going /\ ~T.lastK /\ sch'.m = sch.m /\ sch'.n = sch.n /\ sch'.k = sch.k + T.kLen
        \/ /\ going /\ T.lastK /\ T.n + T.nLen < job.n
           /\ sch'.m = sch.m /\ sch'.n = sch.n + T.nLen /\ sch'.k = 0
        \/ /\ going /\ T.lastK /\ T.n + T.nLen >= job.n /\ T.m + T.mLen < job.m
           /\ sch'.m = sch.m + T.mLen /\ sch'.n = 0 /\ sch'.k = 0
        \/ /\ T.lastK /\ T.n + T.nLen >= job.n /\ T.m + T.mLen >= job.m
           /\ sch'.dm = 0 /\ sch'.done = TRUE
    BY <1>8
  <2>2. QED
    BY <1>9, <1>13, <1>14, <1>16, <1>17, <2>1

LEMMA RefStart ==
  ASSUME Known, RefInv, ~Pipelined, Start
  PROVE  RefShaped' /\ RefStage' /\ Sane'
<1>1. RefShaped /\ RefStage /\ Sane
  BY DEF RefInv, Sane
<1>2. buf.state = "IDLE" /\ startQ.q = FALSE
  BY DEF Start, Over, Busy, Ref!PathBusy, Ref!Buf!BufferBusy, RefShaped
<1>3. Resting
  BY <1>1, <1>2 DEF RefStage, Latched, Loading, Launching, Offering, Sending, Streaming, Summing,
     Capturing, Told, Finished, Delivering
<1>4. Latched' /\ Sane' /\ RefShaped'
  BY <1>1, <1>3, RestingStarts
<1>5. QED
  BY <1>4 DEF RefStage

LEMMA RefGoesOn ==
  ASSUME Known, RefInv, ~Pipelined, NEW a \in BOOLEAN, NEW b \in BOOLEAN, NEW sink \in BOOLEAN,
         Cycle(a, b, sink)
  PROVE  RefShaped' /\ RefStage' /\ Sane'
<1>1. RefShaped /\ RefStage /\ Sane
  BY DEF RefInv, Sane
<1>2. passed \in Int
  <2>1. Elements \in Nat \ {0}
    BY JobTyped
  <2>2. CASE Resting
    BY <2>1, <2>2 DEF Resting
  <2>3. CASE Delivering
    <3> DEFINE e == Elements
    <3>1. passed \in 0 .. e - 1
      BY <2>3 DEF Delivering
    <3> HIDE DEF e
    <3>2. QED
      BY <3>1
  <2>4. CASE ~Resting /\ ~Delivering
    <3>1. passed = 0
      BY <1>1, <2>4 DEF RefStage, Latched, Loading, Launching, Offering, Sending, Streaming, Summing,
         Capturing, Told, Finished, InHand
    <3>2. QED
      BY <3>1
  <2>5. QED
    BY <2>2, <2>3, <2>4
<1>3. OnClock(a, b, sink)
  BY <1>1, <1>2, CycleIs
<1>4. RefShaped'
  <2>1. PICK start, d : RefBlocks(start, d, a, b, sink)
    BY <1>3 DEF OnClock
  <2>2. QED
    BY <1>1, <2>1, ShapedClock
<1>5. CASE Resting
  <2>1. Resting' /\ Sane'
    BY <1>1, <1>3, <1>5, RestingOn
  <2>2. QED
    BY <1>4, <2>1 DEF RefStage
<1>6. CASE Latched
  <2>1. (Loading' \/ Resting') /\ Sane'
    BY <1>1, <1>3, <1>6, LatchedOn
  <2>2. QED
    BY <1>4, <2>1 DEF RefStage
<1>7. CASE Loading
  <2>1. (Loading' \/ Launching') /\ Sane'
    BY <1>1, <1>3, <1>7, LoadingOn
  <2>2. QED
    BY <1>4, <2>1 DEF RefStage
<1>8. CASE Launching
  <2>1. Offering' /\ Sane'
    BY <1>1, <1>3, <1>8, LaunchingOn
  <2>2. QED
    BY <1>4, <2>1 DEF RefStage
<1>9. CASE Offering
  <2>1. Sending' /\ Sane'
    BY <1>1, <1>3, <1>9, OfferingOn
  <2>2. QED
    BY <1>4, <2>1 DEF RefStage
<1>10. CASE Sending
  <2>1. (Sending' \/ Streaming') /\ Sane'
    BY <1>1, <1>3, <1>10, SendingOn
  <2>2. QED
    BY <1>4, <2>1 DEF RefStage
<1>11. CASE Streaming
  <2>1. (Streaming' \/ Summing') /\ Sane'
    BY <1>1, <1>3, <1>11, StreamingOn
  <2>2. QED
    BY <1>4, <2>1 DEF RefStage
<1>12. CASE Summing
  <2>1. (Summing' \/ Capturing' \/ Told') /\ Sane'
    BY <1>1, <1>3, <1>12, SummingOn
  <2>2. QED
    BY <1>4, <2>1 DEF RefStage
<1>13. CASE Capturing
  <2>1. (Capturing' \/ Told') /\ Sane'
    BY <1>1, <1>3, <1>13, CapturingOn
  <2>2. QED
    BY <1>4, <2>1 DEF RefStage
<1>14. CASE Told
  <2>1. (Offering' \/ Finished') /\ Sane'
    BY <1>1, <1>3, <1>14, ToldOn
  <2>2. QED
    BY <1>4, <2>1 DEF RefStage
<1>15. CASE Finished
  <2>1. Delivering' /\ Sane'
    BY <1>1, <1>3, <1>15, FinishedOn
  <2>2. QED
    BY <1>4, <2>1 DEF RefStage
<1>16. CASE Delivering
  <2>1. (Delivering' \/ Resting') /\ Sane'
    BY <1>1, <1>3, <1>16, DeliveringOn
  <2>2. QED
    BY <1>4, <2>1 DEF RefStage
<1>17. QED
  BY <1>1, <1>5, <1>6, <1>7, <1>8, <1>9, <1>10, <1>11, <1>12, <1>13, <1>14, <1>15, <1>16 DEF RefStage

LEMMA RefRests ==
  ASSUME RefInv, UNCHANGED vars
  PROVE  RefInv'
<1>1. RefShaped => RefShaped'
  BY DEF vars, referenceVars, RefShaped, Matrix, Grid
<1>2. Resting => Resting'
  BY DEF vars, referenceVars, Resting, ChainRests, Quiet, Unscheduled, Given, Legal, TilesFit, TileFits, Elements
<1>3. (Accepted => Accepted') /\ (Latched => Latched')
  BY DEF vars, referenceVars, Accepted, Latched, ChainRests, Quiet, Unscheduled, Legal, TilesFit, TileFits, Descriptor
<1>4. Loading => Loading'
  BY <1>3 DEF vars, referenceVars, Loading, ChainRests, Quiet, Unscheduled, Stored, Holds
<1>5. (OperandsIn => OperandsIn') /\ (ChainRests => ChainRests') /\ (Unscheduled => Unscheduled') /\ (Quiet => Quiet')
  BY DEF vars, referenceVars, OperandsIn, Holds, ChainRests, Unscheduled, Quiet
<1>6. Launching => Launching'
  BY <1>3, <1>5 DEF vars, referenceVars, Launching
<1>7. TileAt(sch)' = TileAt(sch)
  BY DEF vars, referenceVars, TileAt
<1>8. Scheduled => Scheduled'
  BY <1>5, <1>7 DEF vars, referenceVars, Scheduled, FinalTo, Element, Part, Terms
<1>9. InHand => InHand'
  BY <1>3, <1>7, <1>8 DEF vars, referenceVars, InHand
<1>10. Adding => Adding'
  BY <1>7 DEF vars, referenceVars, Adding, SumsUpTo, Part, Terms, Inside
<1>11. Offering => Offering'
  BY <1>3, <1>5, <1>7, <1>8 DEF vars, referenceVars, Offering, SumsUpTo, Part, Terms, Inside
<1>12. Sending => Sending'
  BY <1>7, <1>9, <1>10 DEF vars, referenceVars, Sending, VectorsHold, West, North, RowWords
<1>13. (Streaming => Streaming') /\ (Summing => Summing')
  <2>1. /\ job' = job /\ arr' = arr /\ adp' = adp /\ vectors' = vectors /\ buf' = buf /\ tac' = tac
        /\ vectors'.a = vectors.a /\ vectors'.b = vectors.b /\ adp'.feedK = adp.feedK /\ adp'.drain = adp.drain
    BY DEF vars, referenceVars
  <2>2. VectorsHold(vectors.a, vectors.b, job, TileAt(sch), TileAt(sch).kLen * RowWords)
          => VectorsHold(vectors.a, vectors.b, job, TileAt(sch), TileAt(sch).kLen * RowWords)'
    BY <1>7, <2>1 DEF VectorsHold, West, North, RowWords
  <2>3. \A u : ArrayHolds(job, TileAt(sch), u, arr) => ArrayHolds(job', TileAt(sch)', u, arr')
    BY <1>7, <2>1
  <2>4. /\ ArrayHolds(job, TileAt(sch), adp.feedK, arr) => ArrayHolds(job, TileAt(sch), adp.feedK, arr)'
        /\ ArrayHolds(job, TileAt(sch), TileAt(sch).kLen + adp.drain, arr)
             => ArrayHolds(job, TileAt(sch), TileAt(sch).kLen + adp.drain, arr)'
        /\ ArrayHolds(job, TileAt(sch), TileAt(sch).kLen + (2 * N - 1), arr)
             => ArrayHolds(job, TileAt(sch), TileAt(sch).kLen + (2 * N - 1), arr)'
    <3>1. /\ ArrayHolds(job, TileAt(sch), adp.feedK, arr) => ArrayHolds(job', TileAt(sch)', adp'.feedK, arr')
          /\ ArrayHolds(job, TileAt(sch), TileAt(sch).kLen + adp.drain, arr)
               => ArrayHolds(job', TileAt(sch)', TileAt(sch)'.kLen + adp'.drain, arr')
          /\ ArrayHolds(job, TileAt(sch), TileAt(sch).kLen + (2 * N - 1), arr)
               => ArrayHolds(job', TileAt(sch)', TileAt(sch)'.kLen + (2 * N - 1), arr')
      BY <1>7, <2>1, <2>3
    <3>2. QED
      BY <3>1, Zenon DEF ArrayHolds, LinesHold, SumsHold, West, North, Met, Part, Terms, Lanes, LineOf
  <2>5. QED
    BY <1>7, <1>9, <1>10, <2>1, <2>2, <2>4 DEF Streaming, Summing
<1>14. (Capturing => Capturing') /\ (Told => Told')
  BY <1>5, <1>7, <1>9 DEF vars, referenceVars, Capturing, Told, SumsUpTo, CapturedTo, Inside, Element, Part, Terms
<1>15. (Finished => Finished') /\ (Delivering => Delivering')
  BY <1>3, <1>5 DEF vars, referenceVars, Finished, Delivering, AllFinal, Elements, Element, Part, Terms
<1>16. RefStage => RefStage'
  BY <1>2, <1>3, <1>4, <1>6, <1>11, <1>12, <1>13, <1>14, <1>15 DEF RefStage
<1>17. QED
  BY <1>1, <1>16 DEF RefInv, Pipelined, vars, referenceVars

LEMMA RefInvInit == Init => RefInv
<1> SUFFICES ASSUME Init, ~Pipelined
             PROVE  RefShaped /\ RefStage /\ Sane
  BY DEF RefInv, Sane
<1>1. RefShaped
  BY ShapedInit
<1>2. Sane
  BY DEF Init, Sane, Ref!Sch!ResetScheduler, Ref!Adp!ResetAdapter
<1>3. Resting
  BY DEF Init, Resting, ChainRests, Quiet, Unscheduled, Given, Taken, Ref!NoJob, Ref!Buf!ResetBuffer,
     Ref!Sch!ResetScheduler, Ref!Adp!ResetAdapter, Ref!Acc!ResetAccumulator
<1>4. QED
  BY <1>1, <1>2, <1>3 DEF RefStage

LEMMA RefResult ==
  ASSUME Known, RefInv, ~Pipelined
  PROVE  ResultRight
<1>1. RefShaped /\ RefStage /\ Sane
  BY DEF RefInv, Sane
<1>2. Sound(job) /\ Elements = job.m * job.n
  BY SoundJob DEF Elements
<1>3. ASSUME Valid
      PROVE  passed < Elements /\ Data = Product(passed) /\ (Last <=> passed = Elements - 1)
  <2>1. buf.state = "OUTPUT"
    BY <1>3 DEF Valid, Ref!Buf!COutValid
  <2>2. Delivering
    BY <1>1, <2>1 DEF RefStage, Resting, Latched, Loading, Launching, Offering, Sending, Streaming, Summing,
       Capturing, Told, Finished
  <2>3. /\ passed \in 0 .. job.m * job.n - 1 /\ buf.out = passed /\ buf.m = job.m /\ buf.n = job.n
        /\ AllFinal(bmem.c, job)
    BY <1>2, <2>2 DEF Delivering, Accepted
  <2> DEFINE i == passed
             rows == job.m
             cols == job.n
  <2>4. rows \in Nat \ {0} /\ cols \in Nat \ {0} /\ i \in 0 .. rows * cols - 1
    BY <1>2, <2>3 DEF Sound
  <2>5. i \div cols \in 0 .. rows - 1 /\ i % cols \in 0 .. cols - 1
    <3> HIDE DEF i, rows, cols
    <3>1. QED
      BY <2>4, RowInRange
  <2>6. Data = bmem.c[<<i \div cols, i % cols>>]
    BY <2>3 DEF Data, Ref!Buf!COutData
  <2>7. Product(i) = Element(job, i \div cols, i % cols)
    BY ElementIs, Zenon DEF Product
  <2>8. Data = Product(i)
    <3> DEFINE r == i \div cols
               c == i % cols
    <3>1. r \in 0 .. job.m - 1 /\ c \in 0 .. job.n - 1
      BY <2>5
    <3> HIDE DEF r, c
    <3>2. bmem.c[<<r, c>>] = Element(job, r, c)
      BY <2>3, <3>1, Zenon DEF AllFinal
    <3>3. QED
      BY <2>6, <2>7, <3>2 DEF r, c
  <2>9. Last <=> i = job.m * job.n - 1
    BY <2>1, <2>3 DEF Last, Ref!Buf!COutLast, Ref!Buf!COutValid, Ref!Buf!CWords
  <2>10. i < rows * cols
    <3> DEFINE e == rows * cols
    <3>1. e \in Nat
      <4> HIDE DEF rows, cols
      <4>1. QED
        BY <2>4, Z3
    <3>2. i \in 0 .. e - 1
      BY <2>4
    <3> HIDE DEF e
    <3>3. i < e
      BY <3>1, <3>2
    <3>4. QED
      BY <3>3 DEF e
  <2>11. QED
    BY <1>2, <2>8, <2>9, <2>10
<1>4. ASSUME Done
      PROVE  ~Busy
  <2>1. buf.done = TRUE
    BY <1>4 DEF Done
  <2>2. Resting
    BY <1>1, <2>1 DEF RefStage, Latched, Loading, Launching, Offering, Sending, Streaming, Summing,
       Capturing, Told, Finished, Delivering, InHand, Accepted
  <2>3. QED
    BY <2>2 DEF Resting, Busy, ChainRests, Unscheduled, Ref!PathBusy, Ref!Buf!BufferBusy, Ref!ControllerBusy,
       Ref!ChainBusy, Ref!Sch!SchedulerBusy, Ref!Adp!AdapterBusy, Ref!Acc!AccumulatorBusy
<1>5. ASSUME Over
      PROVE  /\ Given => (Errors <=> ~Legal(job))
             /\ passed = IF Given /\ Legal(job) THEN Elements ELSE 0
             /\ dones + Taken(Done) = IF Given /\ Legal(job) THEN 1 ELSE 0
  <2>1. buf.state = "IDLE" /\ startQ.q = FALSE
    BY <1>1, <1>5 DEF Over, Busy, Ref!PathBusy, Ref!Buf!BufferBusy
  <2>2. Resting
    BY <1>1, <2>1 DEF RefStage, Latched, Loading, Launching, Offering, Sending, Streaming, Summing,
       Capturing, Told, Finished, Delivering
  <2>3. Errors <=> buf.error = TRUE
    BY <1>1 DEF Errors, Ref!PathError, Ref!ControllerError, Sane
  <2>4. QED
    BY <2>2, <2>3 DEF Resting, Done
<1>6. QED
  BY <1>3, <1>4, <1>5 DEF ResultRight

(* The reference path keeps its contract: for every job it is given, of any  *)
(* shape and any tile, at any size of the array, each element it streams is  *)
(* cpu_gemm()'s, in order and the last one marked, whatever the memories and *)
(* the array held before; a job is over when C is out, says so once, and one *)
(* the path cannot run says error and streams nothing.                       *)
THEOREM ReferenceResult == Spec => [](path = "reference" => ResultRight)
<1>1. Init => Known /\ RefInv
  BY KnownInit, RefInvInit
<1>2. Known /\ RefInv /\ [Next]_vars => Known' /\ RefInv'
  <2> SUFFICES ASSUME Known, RefInv, [Next]_vars
               PROVE  RefInv'
    BY KnownStep
  <2>1. path' = path
    BY DEF Next, Start, Cycle, Clock, vars
  <2>2. CASE Pipelined
    BY <2>1, <2>2 DEF RefInv, Pipelined
  <2>3. CASE ~Pipelined
    <3>1. CASE Start
      <4>1. RefShaped' /\ RefStage' /\ Sane'
        BY <2>3, <3>1, RefStart
      <4>2. QED
        BY <4>1 DEF RefInv, Sane
    <3>2. CASE \E a, b, sink \in BOOLEAN : Cycle(a, b, sink)
      <4>1. RefShaped' /\ RefStage' /\ Sane'
        BY <2>3, <3>2, RefGoesOn
      <4>2. QED
        BY <4>1 DEF RefInv, Sane
    <3>3. CASE UNCHANGED vars
      BY <3>3, RefRests
    <3>4. QED
      BY <3>1, <3>2, <3>3 DEF Next
  <2>4. QED
    BY <2>2, <2>3
<1>3. Known /\ RefInv => (path = "reference" => ResultRight)
  BY RefResult DEF Pipelined
<1>4. QED
  BY <1>1, <1>2, <1>3, PTL DEF Spec

-----------------------------------------------------------------------------
(* The pipelined path.  Its registers exist, whatever they hold.             *)
CfgFields == {"m", "n", "k", "tm", "tn"}
EngFields == {"state", "a", "b", "m0", "n0", "feedK", "drain", "done", "error"}
OutFields == {"row", "col", "count", "rowsReady"}

PipeShaped ==
  /\ DOMAIN startQ = StartFields /\ DOMAIN cfg = CfgFields /\ DOMAIN eng = EngFields
  /\ DOMAIN out = OutFields /\ DOMAIN mem = {"a", "b", "c"} /\ eng.error \in BOOLEAN
  /\ Matrix(mem.a, MaxM, MaxK) /\ Matrix(mem.b, MaxK, MaxN) /\ Matrix(mem.c, MaxM, MaxN)

(* The tile the engine is at, which sums whole elements.                     *)
BlockAt(j, e) ==
  [m |-> e.m0, n |-> e.n0, k |-> 0,
   mLen |-> Least(j.m - e.m0, j.tm), nLen |-> Least(j.n - e.n0, j.tn), kLen |-> j.k]

(* What holds of every job under way, and of parts of its course.            *)
Engaged ==
  /\ Legal(job) /\ startQ.q = FALSE /\ startQ.d = Descriptor(job)
  /\ eng.error = FALSE /\ eng.done = FALSE /\ dones = 0
  /\ cfg.m = job.m /\ cfg.n = job.n /\ cfg.k = job.k /\ cfg.tm = job.tm /\ cfg.tn = job.tn
OperandsHeld == Holds(mem.a, job.a, job.m, job.k) /\ Holds(mem.b, job.b, job.k, job.n)
Streams(rows) ==
  /\ passed \in 0 .. Elements - 1 /\ out.count = passed /\ out.rowsReady = rows
  /\ out.row = passed \div job.n /\ out.col = passed % job.n

(* Its stages: before a job, at its start, *)
EngineRests ==
  /\ eng.state = "IDLE" /\ startQ.q = FALSE
  /\ Given => (eng.error = TRUE <=> ~Legal(job))
  /\ passed = IF Given /\ Legal(job) THEN Elements ELSE 0
  /\ dones + Taken(eng.done) = IF Given /\ Legal(job) THEN 1 ELSE 0
EngineLatched ==
  /\ eng.state = "IDLE" /\ startQ.q = TRUE /\ startQ.d = Descriptor(job) /\ eng.done = FALSE
  /\ passed = 0 /\ dones = 0
EngineLoads ==
  /\ eng.state = "LOAD" /\ Engaged /\ passed = 0
  /\ out.row = 0 /\ out.col = 0 /\ out.count = 0 /\ out.rowsReady = 0
  /\ eng.a \in Nat /\ Stored(mem.a, job.a, job.m, job.k, eng.a)
  /\ eng.b \in Nat /\ Stored(mem.b, job.b, job.k, job.n, eng.b)

(* tile after tile, *)
AtTile ==
  /\ Engaged /\ OperandsHeld /\ Streams(eng.m0)
  /\ eng.m0 \in 0 .. job.m - 1 /\ eng.n0 \in 0 .. job.n - 1
  /\ FinalTo(mem.c, job, eng.m0, eng.n0, BlockAt(job, eng).mLen)
EngineClears == eng.state = "CLEAR" /\ AtTile
EngineFeeds ==
  /\ eng.state = "FEED" /\ AtTile
  /\ eng.feedK \in 0 .. job.k - 1 /\ ArrayHolds(job, BlockAt(job, eng), eng.feedK, arr)
EngineDrains ==
  /\ eng.state = "DRAIN" /\ AtTile
  /\ eng.drain \in 0 .. 2 * N - 2 /\ ArrayHolds(job, BlockAt(job, eng), job.k + eng.drain, arr)
EngineCaptures ==
  eng.state = "CAPTURE" /\ AtTile /\ ArrayHolds(job, BlockAt(job, eng), job.k + (2 * N - 1), arr)

(* and after the last one.                                                   *)
EngineFlushes == eng.state = "FLUSH_OUT" /\ Engaged /\ Streams(job.m) /\ AllFinal(mem.c, job)

PipeStage ==
  \/ EngineRests \/ EngineLatched \/ EngineLoads \/ EngineClears \/ EngineFeeds \/ EngineDrains
  \/ EngineCaptures \/ EngineFlushes

PipeInv == Pipelined => PipeShaped /\ PipeStage

(* A clock of the engine, state by state.                                    *)
LEMMA EngineDoes ==
  ASSUME NEW start, NEW d, NEW x, NEW y, NEW ready, EngineClock(start, d, x, y, ready)
  PROVE  /\ Array
         /\ eng.state = "IDLE" => Idle(start, d)
         /\ eng.state = "LOAD" => Load(x, y)
         /\ eng.state = "CLEAR" => ClearArray(ready)
         /\ eng.state = "FEED" => Feed(ready)
         /\ eng.state = "DRAIN" => Drain(ready)
         /\ eng.state = "CAPTURE" => Capture(ready)
         /\ eng.state = "FLUSH_OUT" => FlushOut(ready)
         /\ eng.state \in {"IDLE", "LOAD", "CLEAR", "FEED", "DRAIN", "CAPTURE", "FLUSH_OUT"}
<1>1. Array
  BY DEF EngineClock
<1>2. \/ Idle(start, d) \/ Load(x, y) \/ ClearArray(ready) \/ Feed(ready)
      \/ Drain(ready) \/ Capture(ready) \/ FlushOut(ready)
  BY DEF EngineClock
<1>3. /\ Idle(start, d) => eng.state = "IDLE"
      /\ Load(x, y) => eng.state = "LOAD"
      /\ ClearArray(ready) => eng.state = "CLEAR"
      /\ Feed(ready) => eng.state = "FEED"
      /\ Drain(ready) => eng.state = "DRAIN"
      /\ Capture(ready) => eng.state = "CAPTURE"
      /\ FlushOut(ready) => eng.state = "FLUSH_OUT"
  BY Zenon DEF Idle, Load, ClearArray, Feed, Drain, Capture, FlushOut
<1> DEFINE s == eng.state
           i == Idle(start, d)
           l == Load(x, y)
           c == ClearArray(ready)
           f == Feed(ready)
           dr == Drain(ready)
           ca == Capture(ready)
           fl == FlushOut(ready)
<1> HIDE DEF s, i, l, c, f, dr, ca, fl
<1>4. /\ i => s = "IDLE"
      /\ l => s = "LOAD"
      /\ c => s = "CLEAR"
      /\ f => s = "FEED"
      /\ dr => s = "DRAIN"
      /\ ca => s = "CAPTURE"
      /\ fl => s = "FLUSH_OUT"
      /\ i \/ l \/ c \/ f \/ dr \/ ca \/ fl
  BY <1>2, <1>3, Zenon DEF s, i, l, c, f, dr, ca, fl
<1>5. /\ s = "IDLE" => i
      /\ s = "LOAD" => l
      /\ s = "CLEAR" => c
      /\ s = "FEED" => f
      /\ s = "DRAIN" => dr
      /\ s = "CAPTURE" => ca
      /\ s = "FLUSH_OUT" => fl
      /\ s \in {"IDLE", "LOAD", "CLEAR", "FEED", "DRAIN", "CAPTURE", "FLUSH_OUT"}
  BY <1>4, SMT
<1>6. QED
  BY <1>1, <1>5, Zenon DEF s, i, l, c, f, dr, ca, fl

LEMMA GoesTo ==
  ASSUME PipeShaped, NEW s
  PROVE  LET e == Goto(s)
         IN  /\ DOMAIN e = EngFields /\ e.state = s /\ e.done = FALSE /\ e.error = eng.error
             /\ e.a = eng.a /\ e.b = eng.b /\ e.m0 = eng.m0 /\ e.n0 = eng.n0
             /\ e.feedK = eng.feedK /\ e.drain = eng.drain
  BY DEF Goto, PipeShaped, EngFields

(* What the engine's registers become: the position goes on within a tile,   *)
(* and to the next.                                                          *)
LEMMA EngineGoes ==
  ASSUME PipeShaped, NEW start, NEW d, NEW x, NEW y, NEW ready, EngineClock(start, d, x, y, ready)
  PROVE  /\ DOMAIN eng' = EngFields /\ eng'.error \in BOOLEAN
         /\ DOMAIN cfg' = CfgFields
<1>0. DOMAIN eng = EngFields /\ eng.error \in BOOLEAN /\ DOMAIN cfg = CfgFields
  BY DEF PipeShaped
<1>1. CASE eng.state = "IDLE"
  <2>1. PICK q, r : Idle(q, r)
    BY <1>1, EngineDoes, Zenon
  <2>2. CASE q /\ ~BadCfg(r)
    <3>1. /\ cfg' = [m |-> r.m, n |-> r.n, k |-> r.k, tm |-> r.tm, tn |-> r.tn]
          /\ eng' = [Goto("LOAD") EXCEPT !.a = 0, !.b = 0, !.error = FALSE]
      BY <2>1, <2>2, Zenon DEF Idle
    <3> DEFINE e == Goto("LOAD")
    <3>2. DOMAIN e = EngFields
      BY GoesTo
    <3>3. eng' = [e EXCEPT !.a = 0, !.b = 0, !.error = FALSE]
      BY <3>1
    <3> HIDE DEF e
    <3>4. QED
      BY <3>1, <3>2, <3>3 DEF EngFields, CfgFields
  <2>3. CASE ~(q /\ ~BadCfg(r))
    <3>1. eng' = [Goto("IDLE") EXCEPT !.error = @ \/ q] /\ cfg' = cfg
      BY <2>1, <2>3, Zenon DEF Idle
    <3> DEFINE e == Goto("IDLE")
    <3>2. DOMAIN e = EngFields /\ e.error \in BOOLEAN
      BY <1>0, GoesTo
    <3>3. eng' = [e EXCEPT !.error = e.error \/ q]
      BY <3>1
    <3> HIDE DEF e
    <3>4. QED
      BY <1>0, <3>1, <3>2, <3>3 DEF EngFields
  <2>4. QED
    BY <2>2, <2>3
<1>2. CASE eng.state # "IDLE"
  <2>1. \E s, v, w, u, z :
           \/ eng' = Goto(s)
           \/ eng' = [Goto(s) EXCEPT !.a = v, !.b = w]
           \/ eng' = [Goto(s) EXCEPT !.a = v, !.b = w, !.m0 = u, !.n0 = z]
           \/ eng' = [Goto(s) EXCEPT !.feedK = v]
           \/ eng' = [Goto(s) EXCEPT !.drain = v]
           \/ eng' = [Goto(s) EXCEPT !.feedK = v, !.n0 = w]
           \/ eng' = [Goto(s) EXCEPT !.feedK = v, !.n0 = w, !.m0 = u]
           \/ eng' = [eng EXCEPT !.state = s, !.done = TRUE]
    <3>1. CASE eng.state = "LOAD"
      <4> DEFINE a == eng.a + Taken(x.valid /\ AInReady)
                 b == eng.b + Taken(y.valid /\ BInReady)
      <4>1. eng' = IF LoadEnds(a, b) THEN [Goto("CLEAR") EXCEPT !.a = a, !.b = b, !.m0 = 0, !.n0 = 0]
                                     ELSE [Goto("LOAD") EXCEPT !.a = a, !.b = b]
        BY <3>1, EngineDoes, Zenon DEF Load
      <4> HIDE DEF a, b
      <4>2. QED
        BY <4>1, Zenon
    <3>2. CASE eng.state = "CLEAR"
      BY <3>2, EngineDoes, Zenon DEF ClearArray
    <3>3. CASE eng.state = "FEED"
      BY <3>3, EngineDoes, Zenon DEF Feed
    <3>4. CASE eng.state = "DRAIN"
      BY <3>4, EngineDoes, Zenon DEF Drain
    <3>5. CASE eng.state = "CAPTURE"
      <4>1. eng' = NextTile
        BY <3>5, EngineDoes, Zenon DEF Capture
      <4>2. CASE ~LastNBlock
        <5>1. eng' = [Goto("FEED") EXCEPT !.feedK = 0, !.n0 = @ + TnLen]
          BY <4>1, <4>2, Zenon DEF NextTile
        <5>2. QED
          BY <5>1, Zenon
      <4>3. CASE LastNBlock /\ ~LastMBlock
        <5>1. eng' = [Goto("FEED") EXCEPT !.feedK = 0, !.n0 = 0, !.m0 = @ + TmLen]
          BY <4>1, <4>3, Zenon DEF NextTile
        <5>2. QED
          BY <5>1, Zenon
      <4>4. CASE LastNBlock /\ LastMBlock
        <5>1. eng' = [Goto("FLUSH_OUT") EXCEPT !.feedK = 0, !.n0 = 0]
          BY <4>1, <4>4, Zenon DEF NextTile
        <5>2. QED
          BY <5>1, Zenon
      <4>5. QED
        BY <4>2, <4>3, <4>4
    <3>6. CASE eng.state = "FLUSH_OUT"
      BY <3>6, EngineDoes, Zenon DEF FlushOut
    <3>7. QED
      BY <1>2, <3>1, <3>2, <3>3, <3>4, <3>5, <3>6, EngineDoes
  <2>2. DOMAIN eng' = EngFields /\ eng'.error \in BOOLEAN
    <3>1. PICK s, v, w, u, z :
           \/ eng' = Goto(s)
           \/ eng' = [Goto(s) EXCEPT !.a = v, !.b = w]
           \/ eng' = [Goto(s) EXCEPT !.a = v, !.b = w, !.m0 = u, !.n0 = z]
           \/ eng' = [Goto(s) EXCEPT !.feedK = v]
           \/ eng' = [Goto(s) EXCEPT !.drain = v]
           \/ eng' = [Goto(s) EXCEPT !.feedK = v, !.n0 = w]
           \/ eng' = [Goto(s) EXCEPT !.feedK = v, !.n0 = w, !.m0 = u]
           \/ eng' = [eng EXCEPT !.state = s, !.done = TRUE]
      BY <2>1, Zenon
    <3> DEFINE e == Goto(s)
    <3>2. DOMAIN e = EngFields /\ e.error = eng.error
      BY GoesTo
    <3>3. \/ eng' = e
           \/ eng' = [e EXCEPT !.a = v, !.b = w]
           \/ eng' = [e EXCEPT !.a = v, !.b = w, !.m0 = u, !.n0 = z]
           \/ eng' = [e EXCEPT !.feedK = v]
           \/ eng' = [e EXCEPT !.drain = v]
           \/ eng' = [e EXCEPT !.feedK = v, !.n0 = w]
           \/ eng' = [e EXCEPT !.feedK = v, !.n0 = w, !.m0 = u]
           \/ eng' = [eng EXCEPT !.state = s, !.done = TRUE]
      BY <3>1
    <3> HIDE DEF e
    <3>4. /\ DOMAIN [e EXCEPT !.a = v, !.b = w] = EngFields
          /\ DOMAIN [e EXCEPT !.a = v, !.b = w, !.m0 = u, !.n0 = z] = EngFields
          /\ DOMAIN [e EXCEPT !.feedK = v] = EngFields
          /\ DOMAIN [e EXCEPT !.drain = v] = EngFields
          /\ DOMAIN [e EXCEPT !.feedK = v, !.n0 = w] = EngFields
          /\ DOMAIN [e EXCEPT !.feedK = v, !.n0 = w, !.m0 = u] = EngFields
          /\ DOMAIN [eng EXCEPT !.state = s, !.done = TRUE] = EngFields
      BY <1>0, <3>2
    <3>5. /\ [e EXCEPT !.a = v, !.b = w].error = e.error
          /\ [e EXCEPT !.a = v, !.b = w, !.m0 = u, !.n0 = z].error = e.error
          /\ [e EXCEPT !.feedK = v].error = e.error
          /\ [e EXCEPT !.drain = v].error = e.error
          /\ [e EXCEPT !.feedK = v, !.n0 = w].error = e.error
          /\ [e EXCEPT !.feedK = v, !.n0 = w, !.m0 = u].error = e.error
          /\ [eng EXCEPT !.state = s, !.done = TRUE].error = eng.error
      BY <1>0, <3>2 DEF EngFields
    <3>6. DOMAIN eng' = EngFields
      BY <3>2, <3>3, <3>4, Zenon
    <3>7. eng'.error = eng.error
      BY <3>2, <3>3, <3>5, Zenon
    <3>8. QED
      BY <1>0, <3>6, <3>7, Zenon
  <2>3. cfg' = cfg
    BY <1>2, EngineDoes DEF Load, ClearArray, Feed, Drain, Capture, FlushOut
  <2>4. QED
    BY <1>0, <2>2, <2>3
<1>3. QED
  BY <1>1, <1>2

LEMMA MatrixDomain ==
  ASSUME NEW x, NEW y, NEW cells, Matrix(cells, x, y)
  PROVE  DOMAIN cells = Grid(x, y)
<1> DEFINE f == [p \in Grid(x, y) |-> cells[p]]
<1>1. DOMAIN f = Grid(x, y) /\ cells = f
  BY DEF Matrix
<1> HIDE DEF f
<1>2. QED
  BY <1>1

(* What a capture makes of C.                                                *)
Captured(cells) ==
  [p \in DOMAIN cells |->
     IF p[1] - eng.m0 \in 0 .. TmLen - 1 /\ p[2] - eng.n0 \in 0 .. TnLen - 1
       THEN arr.acc[<<p[1] - eng.m0, p[2] - eng.n0>>] ELSE cells[p]]

LEMMA MemoryGoes ==
  ASSUME PipeShaped, NEW start, NEW d, NEW x, NEW y, NEW ready, EngineClock(start, d, x, y, ready)
  PROVE  /\ DOMAIN mem' = {"a", "b", "c"}
         /\ Matrix(mem.a, MaxM, MaxK)' /\ Matrix(mem.b, MaxK, MaxN)' /\ Matrix(mem.c, MaxM, MaxN)'
         /\ eng.state = "LOAD" =>
              /\ mem'.a = IF x.valid /\ AInReady
                            THEN Unpack(mem.a, x.word, eng.a, cfg.m * cfg.k, cfg.k) ELSE mem.a
              /\ mem'.b = IF y.valid /\ BInReady
                            THEN Unpack(mem.b, y.word, eng.b, cfg.k * cfg.n, cfg.n) ELSE mem.b
         /\ eng.state # "LOAD" => mem'.a = mem.a /\ mem'.b = mem.b
         /\ mem'.c = IF eng.state = "CAPTURE" THEN Captured(mem.c) ELSE mem.c
<1>0. /\ DOMAIN mem = {"a", "b", "c"}
      /\ Matrix(mem.a, MaxM, MaxK) /\ Matrix(mem.b, MaxK, MaxN) /\ Matrix(mem.c, MaxM, MaxN)
  BY DEF PipeShaped
<1>1. CASE eng.state = "LOAD"
  <2> DEFINE f == IF x.valid /\ AInReady
                    THEN Unpack(mem.a, x.word, eng.a, cfg.m * cfg.k, cfg.k) ELSE mem.a
             g == IF y.valid /\ BInReady
                    THEN Unpack(mem.b, y.word, eng.b, cfg.k * cfg.n, cfg.n) ELSE mem.b
  <2>1. mem' = [mem EXCEPT
                  !.a = IF x.valid /\ AInReady THEN Unpack(@, x.word, eng.a, cfg.m * cfg.k, cfg.k) ELSE @,
                  !.b = IF y.valid /\ BInReady THEN Unpack(@, y.word, eng.b, cfg.k * cfg.n, cfg.n) ELSE @]
    BY <1>1, EngineDoes DEF Load
  <2>2. [mem EXCEPT !.a = f].b = mem.b
    BY <1>0
  <2>3. mem' = [mem EXCEPT !.a = f, !.b = g]
    BY <2>1, <2>2, Zenon
  <2>4. Matrix(f, MaxM, MaxK) /\ Matrix(g, MaxK, MaxN)
    BY <1>0, MatrixKept, Zenon
  <2> HIDE DEF f, g
  <2>5. mem'.a = f /\ mem'.b = g /\ mem'.c = mem.c /\ DOMAIN mem' = {"a", "b", "c"}
    BY <1>0, <2>3
  <2>6. Matrix(mem'.a, MaxM, MaxK) /\ Matrix(mem'.b, MaxK, MaxN) /\ Matrix(mem'.c, MaxM, MaxN)
    BY <1>0, <2>4, <2>5, Zenon
  <2>7. QED
    BY <1>1, <2>5, <2>6, Zenon DEF Matrix, Grid, f, g
<1>2. CASE eng.state = "CAPTURE"
  <2> DEFINE f == Captured(mem.c)
  <2>1. mem' = [mem EXCEPT !.c = f]
    BY <1>2, EngineDoes DEF Capture, Captured
  <2>2. Matrix(f, MaxM, MaxN)
    <3>1. DOMAIN mem.c = Grid(MaxM, MaxN)
      BY <1>0, MatrixDomain
    <3> DEFINE e(p) == IF p[1] - eng.m0 \in 0 .. TmLen - 1 /\ p[2] - eng.n0 \in 0 .. TnLen - 1
                         THEN arr.acc[<<p[1] - eng.m0, p[2] - eng.n0>>] ELSE mem.c[p]
    <3>2. f = [p \in Grid(MaxM, MaxN) |-> e(p)]
      BY <3>1, Zenon DEF Captured
    <3> HIDE DEF e, f
    <3>3. QED
      BY <3>2 DEF Matrix
  <2> HIDE DEF f
  <2>3. mem'.a = mem.a /\ mem'.b = mem.b /\ mem'.c = f /\ DOMAIN mem' = {"a", "b", "c"}
    BY <1>0, <2>1
  <2>4. Matrix(mem'.a, MaxM, MaxK) /\ Matrix(mem'.b, MaxK, MaxN) /\ Matrix(mem'.c, MaxM, MaxN)
    BY <1>0, <2>2, <2>3, Zenon
  <2>5. eng.state # "LOAD"
    BY <1>2
  <2>6. QED
    BY <1>2, <2>3, <2>4, <2>5, Zenon DEF Matrix, Grid, f
<1>3. CASE eng.state \notin {"LOAD", "CAPTURE"}
  <2>1. mem' = mem
    BY <1>3, EngineDoes DEF Idle, ClearArray, Feed, Drain, FlushOut
  <2>2. Matrix(mem'.a, MaxM, MaxK) /\ Matrix(mem'.b, MaxK, MaxN) /\ Matrix(mem'.c, MaxM, MaxN)
    BY <1>0, <2>1, Zenon
  <2>3. eng.state # "LOAD" /\ eng.state # "CAPTURE"
    BY <1>3
  <2>4. QED
    BY <1>0, <2>1, <2>2, <2>3, Zenon DEF Matrix, Grid
<1>4. QED
  BY <1>1, <1>2, <1>3

(* The output side outside of IDLE and LOAD.                                 *)
LEMMA OutputGoes ==
  ASSUME PipeShaped, NEW start, NEW d, NEW x, NEW y, NEW ready, EngineClock(start, d, x, y, ready)
  PROVE  /\ DOMAIN out' = OutFields
         /\ eng.state \notin {"IDLE", "LOAD"} =>
              LET taken == COutValid /\ ready
              IN  /\ taken => /\ out'.count = out.count + 1
                              /\ out'.row = IF out.col + 1 >= cfg.n THEN out.row + 1 ELSE out.row
                              /\ out'.col = IF out.col + 1 >= cfg.n THEN 0 ELSE out.col + 1
                  /\ ~taken => out'.count = out.count /\ out'.row = out.row /\ out'.col = out.col
                  /\ out'.rowsReady = IF eng.state = "CAPTURE" /\ LastNBlock
                                        THEN eng.m0 + TmLen ELSE out.rowsReady
<1>0. DOMAIN out = OutFields
  BY DEF PipeShaped
<1> DEFINE o == OutputSide(ready)
           taken == COutValid /\ ready
<1>1. CASE eng.state = "IDLE"
  <2>1. out' = out \/ out' = ResetOut
    BY <1>1, EngineDoes DEF Idle
  <2>2. QED
    BY <1>0, <1>1, <2>1 DEF ResetOut, OutFields
<1>2. CASE eng.state = "LOAD"
  BY <1>0, <1>2, EngineDoes DEF Load
<1>3. /\ DOMAIN o = OutFields
      /\ taken => /\ o.count = out.count + 1
                  /\ o.row = IF out.col + 1 >= cfg.n THEN out.row + 1 ELSE out.row
                  /\ o.col = IF out.col + 1 >= cfg.n THEN 0 ELSE out.col + 1
      /\ ~taken => o.count = out.count /\ o.row = out.row /\ o.col = out.col
      /\ o.rowsReady = out.rowsReady
  <2>1. CASE taken
    <3>1. o = Advance(out)
      BY <2>1 DEF OutputSide, CAccept
    <3>2. QED
      BY <1>0, <2>1, <3>1 DEF Advance, OutFields
  <2>2. CASE ~taken
    <3>1. o = out
      BY <2>2 DEF OutputSide, CAccept
    <3>2. QED
      BY <1>0, <2>2, <3>1
  <2>3. QED
    BY <2>1, <2>2
<1>4. CASE eng.state = "CAPTURE"
  <2>1. out' = RowsReady(o)
    BY <1>4, EngineDoes DEF Capture
  <2> HIDE DEF o, taken
  <2>2. /\ DOMAIN RowsReady(o) = OutFields
        /\ RowsReady(o).count = o.count /\ RowsReady(o).row = o.row /\ RowsReady(o).col = o.col
        /\ RowsReady(o).rowsReady = IF LastNBlock THEN eng.m0 + TmLen ELSE o.rowsReady
    BY <1>3 DEF RowsReady, OutFields
  <2>3. QED
    BY <1>3, <1>4, <2>1, <2>2 DEF taken
<1>5. CASE eng.state \in {"CLEAR", "FEED", "DRAIN", "FLUSH_OUT"}
  <2>1. out' = o
    BY <1>5, EngineDoes DEF ClearArray, Feed, Drain, FlushOut
  <2> HIDE DEF o, taken
  <2>2. QED
    BY <1>3, <1>5, <2>1 DEF taken
<1>6. QED
  BY <1>1, <1>2, <1>4, <1>5, EngineDoes

LEMMA PipeShapedOn ==
  ASSUME PipeShaped, DOMAIN startQ' = StartFields,
         NEW start, NEW d, NEW x, NEW y, NEW ready, EngineClock(start, d, x, y, ready)
  PROVE  PipeShaped'
<1>1. DOMAIN eng' = EngFields /\ eng'.error \in BOOLEAN /\ DOMAIN cfg' = CfgFields
  BY EngineGoes
<1>2. /\ DOMAIN mem' = {"a", "b", "c"}
      /\ Matrix(mem.a, MaxM, MaxK)' /\ Matrix(mem.b, MaxK, MaxN)' /\ Matrix(mem.c, MaxM, MaxN)'
  BY MemoryGoes
<1>3. DOMAIN out' = OutFields
  BY OutputGoes
<1>4. QED
  BY <1>1, <1>2, <1>3, Zenon DEF PipeShaped, StartFields, CfgFields, EngFields, OutFields

LEMMA PipeShapedInit == Init => PipeShaped
<1> SUFFICES ASSUME Init
             PROVE  PipeShaped
  OBVIOUS
<1>1. DOMAIN startQ = StartFields
  BY DEF Init, Ref!NoJob, StartFields
<1>2. DOMAIN cfg = CfgFields /\ DOMAIN eng = EngFields /\ DOMAIN out = OutFields /\ eng.error \in BOOLEAN
  BY DEF Init, ResetCfg, ResetEngine, ResetOut, CfgFields, EngFields, OutFields
<1>3. /\ DOMAIN mem = {"a", "b", "c"}
      /\ Matrix(mem.a, MaxM, MaxK) /\ Matrix(mem.b, MaxK, MaxN) /\ Matrix(mem.c, MaxM, MaxN)
  <2>1. mem = Buffers(Padding)
    BY DEF Init
  <2>2. /\ mem.a = [p \in Grid(MaxM, MaxK) |-> Padding]
        /\ mem.b = [p \in Grid(MaxK, MaxN) |-> Padding]
        /\ mem.c = [p \in Grid(MaxM, MaxN) |-> Padding]
        /\ DOMAIN mem = {"a", "b", "c"}
    BY <2>1 DEF Buffers, Grid
  <2>3. QED
    BY <2>2 DEF Matrix
<1>4. QED
  BY <1>1, <1>2, <1>3 DEF PipeShaped

(* What a job the path accepts is like, and the tiles of it.                 *)
LEMMA JobFits ==
  ASSUME Known, Legal(job)
  PROVE  /\ Sound(job)
         /\ job.m \in 1 .. MaxM /\ job.n \in 1 .. MaxN /\ job.k \in 1 .. MaxK
         /\ job.tm \in 1 .. N /\ job.tn \in 1 .. N
         /\ Elements = job.m * job.n /\ Elements \in Nat \ {0}
<1>1. Sound(job) /\ Elements \in Nat \ {0}
  BY SoundJob, JobTyped
<1>2. job.m \in 1 .. MaxM /\ job.n \in 1 .. MaxN /\ job.k \in 1 .. MaxK
  BY <1>1, Sizes DEF Legal, Sound
<1>3. job.tm \in 1 .. N /\ job.tn \in 1 .. N
  BY DEF Legal, TilesFit, TileFits
<1>4. QED
  BY <1>1, <1>2, <1>3 DEF Elements

LEMMA BlockFields ==
  ASSUME NEW j, NEW e
  PROVE  LET T == BlockAt(j, e)
         IN  /\ T.m = e.m0 /\ T.n = e.n0 /\ T.k = 0 /\ T.kLen = j.k
             /\ T.mLen = Least(j.m - e.m0, j.tm) /\ T.nLen = Least(j.n - e.n0, j.tn)
  BY DEF BlockAt

LEMMA BlockOk ==
  ASSUME Known, Legal(job), NEW e, e.m0 \in 0 .. job.m - 1, e.n0 \in 0 .. job.n - 1
  PROVE  TileOf(job, BlockAt(job, e))
<1> DEFINE T == BlockAt(job, e)
<1>1. /\ T.m = e.m0 /\ T.n = e.n0 /\ T.k = 0 /\ T.kLen = job.k
      /\ T.mLen = Least(job.m - e.m0, job.tm) /\ T.nLen = Least(job.n - e.n0, job.tn)
  BY BlockFields
<1>2. /\ job.m \in Nat \ {0} /\ job.n \in Nat \ {0} /\ job.k \in Nat \ {0} /\ N \in Nat
      /\ job.tm \in 1 .. N /\ job.tn \in 1 .. N
  BY JobFits, Sizes DEF Sound
<1> HIDE DEF T
<1>3. TileOf(job, T)
  BY <1>1, <1>2 DEF TileOf, Least
<1>4. QED
  BY <1>3 DEF T

LEMMA BlockLens ==
  ASSUME Engaged
  PROVE  TmLen = BlockAt(job, eng).mLen /\ TnLen = BlockAt(job, eng).nLen
  BY BlockFields, Zenon DEF Engaged, TmLen, TnLen

(* A clock with no start, between the wires of the path.                     *)
Ticks(x, y, ready) ==
  /\ EngineClock(startQ.q, startQ.d, x, y, ready)
  /\ x.word = WordAt(job.a, job.m, job.k, eng.a, Padding)
  /\ y.word = WordAt(job.b, job.k, job.n, eng.b, Padding)
  /\ job' = job /\ path' = path /\ startQ'.q = FALSE /\ startQ'.d = startQ.d
  /\ COutValid /\ ready => passed' = passed + 1
  /\ ~(COutValid /\ ready) => passed' = passed
  /\ dones' = dones + Taken(eng.done)

LEMMA CycleTicks ==
  ASSUME Pipelined, PipeShaped, passed \in Int,
         NEW a \in BOOLEAN, NEW b \in BOOLEAN, NEW sink \in BOOLEAN, Cycle(a, b, sink)
  PROVE  PipeShaped' /\ \E x, y, ready : Ticks(x, y, ready)
<1>1. Clock(FALSE, Ref!NoJob.d, a, b, sink)
  BY DEF Cycle
<1>2. /\ startQ' = [startQ EXCEPT !.q = FALSE]
      /\ EngineClock(startQ.q, startQ.d, AStream(a), BStream(b), RawReady(sink))
      /\ path' = path
  BY <1>1, Zenon DEF Clock, Latch
<1>3. startQ'.q = FALSE /\ startQ'.d = startQ.d /\ DOMAIN startQ' = StartFields
  BY <1>2 DEF PipeShaped, StartFields
<1>4. /\ AStream(a).word = WordAt(job.a, job.m, job.k, eng.a, Padding)
      /\ BStream(b).word = WordAt(job.b, job.k, job.n, eng.b, Padding)
  BY DEF AStream, BStream
<1>5. PICK x, y, ready :
        /\ EngineClock(startQ.q, startQ.d, x, y, ready)
        /\ x = AStream(a) /\ y = BStream(b) /\ ready = RawReady(sink)
  BY <1>2
<1>6. /\ job' = job
      /\ passed' = passed + Taken(Valid /\ RawReady(sink)) /\ dones' = dones + Taken(Done)
  BY DEF Cycle
<1>7. RawReady(sink) \in BOOLEAN
  BY DEF RawReady, InReady
<1>8. (ready <=> RawReady(sink)) /\ Done = eng.done /\ (Valid <=> COutValid)
  BY <1>5, <1>7 DEF Done, Valid
<1>9. /\ COutValid /\ ready => passed' = passed + 1
      /\ ~(COutValid /\ ready) => passed' = passed
  BY <1>6, <1>8 DEF Taken
<1>10. dones' = dones + Taken(eng.done)
  BY <1>6, <1>8
<1>11. Ticks(x, y, ready)
  BY <1>2, <1>3, <1>4, <1>5, <1>6, <1>9, <1>10 DEF Ticks
<1>12. PipeShaped'
  BY <1>2, <1>3, PipeShapedOn
<1>13. QED
  BY <1>11, <1>12

-----------------------------------------------------------------------------
(* Between two jobs.                                                         *)
LEMMA NothingStored ==
  ASSUME NEW cells, NEW operand, NEW rows \in Nat \ {0}, NEW cols \in Nat \ {0}
  PROVE  Stored(cells, operand, rows, cols, 0)
<1> SUFFICES ASSUME NEW r \in 0 .. rows - 1, NEW c \in 0 .. cols - 1
             PROVE  ~((r * cols + c) \div 4 < 0)
  BY Zenon DEF Stored
<1> DEFINE n == r * cols + c
<1>1. n \in Nat
  <2>1. r * cols \in Nat
    BY Z3
  <2>2. QED
    BY <2>1
<1> HIDE DEF n
<1>2. ~(n \div 4 < 0)
  BY <1>1
<1>3. QED
  BY <1>2 DEF n

LEMMA EngineRestsOn ==
  ASSUME PipeShaped, EngineRests, NEW x, NEW y, NEW ready, Ticks(x, y, ready)
  PROVE  EngineRests'
<1>1. Idle(startQ.q, startQ.d) /\ job' = job
  BY EngineDoes DEF Ticks, EngineRests
<1>2. PICK q, d : Idle(q, d) /\ q = startQ.q
  BY <1>1
<1>3. q = FALSE
  BY <1>2 DEF EngineRests
<1>4. eng' = [Goto("IDLE") EXCEPT !.error = @ \/ q]
  BY <1>2, <1>3 DEF Idle
<1> DEFINE e == Goto("IDLE")
<1>5. e.state = "IDLE" /\ e.done = FALSE /\ DOMAIN e = EngFields /\ e.error = eng.error /\ eng.error \in BOOLEAN
  BY GoesTo DEF PipeShaped
<1>6. eng' = [e EXCEPT !.error = e.error \/ q]
  BY <1>4
<1> HIDE DEF e
<1>7. eng'.state = "IDLE" /\ eng'.done = FALSE /\ eng'.error = eng.error
  BY <1>3, <1>5, <1>6 DEF EngFields
<1>8. ~COutValid
  BY DEF COutValid, EngineRests
<1>9. passed' = passed /\ dones' = dones + Taken(eng.done) /\ startQ'.q = FALSE /\ startQ'.d = startQ.d
  BY <1>8 DEF Ticks
<1>10. (Given' <=> Given) /\ (Legal(job)' <=> Legal(job)) /\ Elements' = Elements
  BY <1>1, <1>9, JobStays DEF Given
<1>11. dones' + Taken(eng.done)' = dones + Taken(eng.done)
  BY <1>7, <1>9 DEF EngineRests, Taken
<1>12. QED
  BY <1>7, <1>9, <1>10, <1>11 DEF EngineRests

LEMMA EngineStarts ==
  ASSUME Pipelined, PipeShaped, EngineRests, Start
  PROVE  EngineLatched' /\ PipeShaped'
<1>1. PICK j \in Jobs[path] :
        /\ Over /\ Clock(TRUE, Descriptor(j), FALSE, FALSE, FALSE)
        /\ job' = j /\ passed' = 0 /\ dones' = 0
  BY DEF Start
<1>2. /\ startQ' = IF ~Busy THEN [q |-> TRUE, d |-> Descriptor(j)] ELSE [startQ EXCEPT !.q = FALSE]
      /\ EngineClock(startQ.q, startQ.d, AStream(FALSE), BStream(FALSE), RawReady(FALSE))
  BY <1>1 DEF Clock, Latch
<1>3. ~Busy
  BY <1>1 DEF Over
<1>4. startQ' = [q |-> TRUE, d |-> Descriptor(j)]
  BY <1>2, <1>3
<1>5. startQ'.q = TRUE /\ startQ'.d = Descriptor(j) /\ DOMAIN startQ' = StartFields
  BY <1>4 DEF StartFields
<1>6. PICK q, d, x, y, ready : EngineClock(q, d, x, y, ready) /\ q = startQ.q
  BY <1>2
<1>7. PipeShaped'
  BY <1>5, <1>6, PipeShapedOn
<1>8. Idle(q, d) /\ q = FALSE
  BY <1>6, EngineDoes DEF EngineRests
<1>9. eng' = [Goto("IDLE") EXCEPT !.error = @ \/ q]
  BY <1>8 DEF Idle
<1> DEFINE e == Goto("IDLE")
<1>10. e.state = "IDLE" /\ e.done = FALSE /\ DOMAIN e = EngFields
  BY GoesTo
<1>11. eng' = [e EXCEPT !.error = e.error \/ q]
  BY <1>9
<1> HIDE DEF e
<1>12. eng'.state = "IDLE" /\ eng'.done = FALSE
  BY <1>10, <1>11 DEF EngFields
<1>13. Descriptor(job)' = Descriptor(j)
  BY <1>1, Zenon DEF Descriptor
<1>14. QED
  BY <1>1, <1>5, <1>7, <1>12, <1>13 DEF EngineLatched

LEMMA DescriptorIs ==
  ASSUME Known
  PROVE  BadCfg(Descriptor(job)) <=> ~Legal(job)
<1>1. /\ job.m \in Nat \ {0} /\ job.n \in Nat \ {0} /\ job.k \in Nat \ {0} /\ job.tk \in Nat \ {0}
      /\ MaxM \in Nat /\ MaxN \in Nat /\ MaxK \in Nat
  BY JobTyped, Sizes
<1> DEFINE d == Descriptor(job)
<1>2. d.m = job.m /\ d.n = job.n /\ d.k = job.k /\ d.tm = job.tm /\ d.tn = job.tn /\ d.tk = job.tk
  BY DEF Descriptor
<1> HIDE DEF d
<1>3. BadCfg(d) <=> ~Legal(job)
  <2> DEFINE fitM == TileFits(job.tm)
             fitN == TileFits(job.tn)
  <2>1. BadCfg(d) <=> ~ /\ job.m \in 1 .. MaxM /\ job.n \in 1 .. MaxN /\ job.k \in 1 .. MaxK
                        /\ fitM /\ fitN /\ job.tk \in 1 .. MaxK
    BY <1>2, Zenon DEF BadCfg
  <2>2. Legal(job) <=> job.m <= MaxM /\ job.n <= MaxN /\ job.k <= MaxK /\ fitM /\ fitN /\ job.tk <= MaxK
    BY DEF Legal, TilesFit
  <2> HIDE DEF fitM, fitN
  <2>3. QED
    BY <1>1, <2>1, <2>2
<1>4. QED
  BY <1>3 DEF d

LEMMA EngineLatchedOn ==
  ASSUME Known, PipeShaped, EngineLatched, NEW x, NEW y, NEW ready, Ticks(x, y, ready)
  PROVE  EngineLoads' \/ EngineRests'
<1>1. Idle(startQ.q, startQ.d) /\ job' = job
  BY EngineDoes DEF Ticks, EngineLatched
<1>2. PICK q, d : Idle(q, d) /\ q = TRUE /\ d = Descriptor(job)
  BY <1>1 DEF EngineLatched
<1>3. /\ d.m = job.m /\ d.n = job.n /\ d.k = job.k /\ d.tm = job.tm /\ d.tn = job.tn
      /\ (BadCfg(d) <=> ~Legal(job))
  BY <1>2, DescriptorIs DEF Descriptor
<1>4. ~COutValid
  BY DEF COutValid, EngineLatched
<1>5. passed' = 0 /\ dones' = 0 /\ startQ'.q = FALSE /\ startQ'.d = Descriptor(job)
  BY <1>4 DEF Ticks, EngineLatched, Taken
<1>6. (Legal(job)' <=> Legal(job)) /\ Descriptor(job)' = Descriptor(job)
  BY <1>1, JobStays
<1>7. Given'
  <2>1. job.m \in Nat \ {0} /\ startQ'.d.m = job.m
    BY <1>5, JobTyped DEF Descriptor
  <2>2. QED
    BY <2>1 DEF Given
<1>8. CASE Legal(job)
  <2>1. /\ cfg' = [m |-> d.m, n |-> d.n, k |-> d.k, tm |-> d.tm, tn |-> d.tn]
        /\ eng' = [Goto("LOAD") EXCEPT !.a = 0, !.b = 0, !.error = FALSE]
        /\ out' = ResetOut
    BY <1>2, <1>3, <1>8 DEF Idle
  <2> DEFINE e == Goto("LOAD")
  <2>2. e.state = "LOAD" /\ e.done = FALSE /\ DOMAIN e = EngFields
    BY GoesTo
  <2>3. eng' = [e EXCEPT !.a = 0, !.b = 0, !.error = FALSE]
    BY <2>1
  <2> HIDE DEF e
  <2>4. eng'.state = "LOAD" /\ eng'.done = FALSE /\ eng'.error = FALSE /\ eng'.a = 0 /\ eng'.b = 0
    BY <2>2, <2>3 DEF EngFields
  <2>5. cfg'.m = job.m /\ cfg'.n = job.n /\ cfg'.k = job.k /\ cfg'.tm = job.tm /\ cfg'.tn = job.tn
    BY <1>3, <2>1
  <2>6. out'.row = 0 /\ out'.col = 0 /\ out'.count = 0 /\ out'.rowsReady = 0
    BY <2>1 DEF ResetOut
  <2>7. Engaged'
    BY <1>1, <1>5, <1>6, <1>8, <2>4, <2>5 DEF Engaged
  <2>8. /\ Stored(mem'.a, job.a, job.m, job.k, 0)
        /\ Stored(mem'.b, job.b, job.k, job.n, 0)
    <3>1. job.m \in Nat \ {0} /\ job.n \in Nat \ {0} /\ job.k \in Nat \ {0}
      BY JobTyped
    <3>2. QED
      BY <3>1, NothingStored
  <2>9. /\ Stored(mem.a, job.a, job.m, job.k, eng.a)'
        /\ Stored(mem.b, job.b, job.k, job.n, eng.b)'
    BY <1>1, <2>4, <2>8, Zenon DEF Stored
  <2>10. QED
    BY <1>5, <2>4, <2>6, <2>7, <2>9 DEF EngineLoads
<1>9. CASE ~Legal(job)
  <2>1. eng' = [Goto("IDLE") EXCEPT !.error = @ \/ q]
    BY <1>2, <1>3, <1>9 DEF Idle
  <2> DEFINE e == Goto("IDLE")
  <2>2. e.state = "IDLE" /\ e.done = FALSE /\ DOMAIN e = EngFields
    BY GoesTo
  <2>3. eng' = [e EXCEPT !.error = e.error \/ q]
    BY <2>1
  <2> HIDE DEF e
  <2>4. eng'.state = "IDLE" /\ eng'.done = FALSE /\ eng'.error = TRUE
    BY <1>2, <2>2, <2>3 DEF EngFields
  <2>5. dones' + Taken(eng.done)' = 0
    BY <1>5, <2>4 DEF Taken
  <2>6. QED
    BY <1>5, <1>6, <1>9, <2>4, <2>5 DEF EngineRests
<1>10. QED
  BY <1>8, <1>9

LEMMA EngagedStays ==
  ASSUME Engaged, NEW x, NEW y, NEW ready, Ticks(x, y, ready),
         eng'.error = eng.error, eng'.done = FALSE, cfg' = cfg
  PROVE  Engaged'
<1>1. dones' = 0
  BY DEF Ticks, Engaged, Taken
<1>2. Legal(job)' /\ Descriptor(job)' = Descriptor(job)
  BY JobStays DEF Ticks, Engaged
<1>3. QED
  BY <1>1, <1>2 DEF Ticks, Engaged

(* The operands on their way in.                                             *)
LEMMA EngineLoadsOn ==
  ASSUME Known, PipeShaped, EngineLoads, NEW x, NEW y, NEW ready, Ticks(x, y, ready)
  PROVE  EngineLoads' \/ EngineClears'
<1> DEFINE takeA == x.valid /\ AInReady
           takeB == y.valid /\ BInReady
           nextA == IF takeA THEN eng.a + 1 ELSE eng.a
           nextB == IF takeB THEN eng.b + 1 ELSE eng.b
           newA == IF takeA THEN Unpack(mem.a, x.word, eng.a, job.m * job.k, job.k) ELSE mem.a
           newB == IF takeB THEN Unpack(mem.b, y.word, eng.b, job.k * job.n, job.n) ELSE mem.b
<1>1. /\ EngineClock(startQ.q, startQ.d, x, y, ready) /\ job' = job
      /\ x.word = WordAt(job.a, job.m, job.k, eng.a, Padding)
      /\ y.word = WordAt(job.b, job.k, job.n, eng.b, Padding)
  BY DEF Ticks
<1>2. /\ Sound(job) /\ job.m \in 1 .. MaxM /\ job.n \in 1 .. MaxN /\ job.k \in 1 .. MaxK
      /\ cfg.m = job.m /\ cfg.n = job.n /\ cfg.k = job.k /\ Elements \in Nat \ {0}
  BY JobFits DEF EngineLoads, Engaged
<1>3. Load(x, y)
  BY <1>1, EngineDoes DEF EngineLoads
<1>4. cfg' = cfg /\ out' = out /\ passed' = 0
  BY <1>3 DEF Load, Ticks, COutValid, EngineLoads
<1>5. mem'.a = newA /\ mem'.b = newB /\ mem'.c = mem.c
  <2> DEFINE f == Unpack(mem.a, x.word, eng.a, cfg.m * cfg.k, cfg.k)
             g == Unpack(mem.b, y.word, eng.b, cfg.k * cfg.n, cfg.n)
  <2>1. /\ mem'.a = IF takeA THEN f ELSE mem.a
        /\ mem'.b = IF takeB THEN g ELSE mem.b
        /\ mem'.c = mem.c
    BY <1>1, MemoryGoes DEF EngineLoads
  <2>2. f = Unpack(mem.a, x.word, eng.a, job.m * job.k, job.k)
        /\ g = Unpack(mem.b, y.word, eng.b, job.k * job.n, job.n)
    BY <1>2, Zenon
  <2> HIDE DEF f, g, takeA, takeB
  <2>3. QED
    BY <2>1, <2>2
<1>6. eng' = IF LoadEnds(nextA, nextB)
               THEN [Goto("CLEAR") EXCEPT !.a = nextA, !.b = nextB, !.m0 = 0, !.n0 = 0]
               ELSE [Goto("LOAD") EXCEPT !.a = nextA, !.b = nextB]
  <2> DEFINE a == eng.a + Taken(takeA)
             b == eng.b + Taken(takeB)
  <2>1. eng' = IF LoadEnds(a, b) THEN [Goto("CLEAR") EXCEPT !.a = a, !.b = b, !.m0 = 0, !.n0 = 0]
                                 ELSE [Goto("LOAD") EXCEPT !.a = a, !.b = b]
    BY <1>3, Zenon DEF Load
  <2>2. eng.a \in Nat /\ eng.b \in Nat
    BY DEF EngineLoads
  <2> HIDE DEF takeA, takeB
  <2>3. a = nextA /\ b = nextB
    BY <2>2 DEF Taken
  <2> HIDE DEF a, b, nextA, nextB
  <2>4. QED
    BY <2>1, <2>3, Zenon
<1>7. /\ \A r \in 0 .. job.m - 1, c \in 0 .. job.k - 1 : job.a[<<r, c>>] \in -128 .. 127
      /\ \A r \in 0 .. job.k - 1, c \in 0 .. job.n - 1 : job.b[<<r, c>>] \in -128 .. 127
  BY <1>2, OperandTyped
<1>8. nextA \in Nat /\ Stored(newA, job.a, job.m, job.k, nextA)
  <2>1. /\ Matrix(mem.a, MaxM, MaxK) /\ Stored(mem.a, job.a, job.m, job.k, eng.a) /\ eng.a \in Nat
        /\ MaxM \in Nat /\ MaxK \in Nat
    BY Sizes DEF PipeShaped, EngineLoads
  <2>2. \/ nextA = eng.a /\ newA = mem.a
        \/ /\ nextA = eng.a + 1
           /\ newA = Ref!Buf!Spread(mem.a, WordAt(job.a, job.m, job.k, eng.a, Padding), eng.a,
                                    job.m * job.k, job.k)
    BY <1>1, SpreadIs, Zenon
  <2> HIDE DEF nextA, newA, takeA
  <2>3. QED
    BY <1>2, <1>7, <2>1, <2>2, LoadsOn
<1>9. nextB \in Nat /\ Stored(newB, job.b, job.k, job.n, nextB)
  <2>1. /\ Matrix(mem.b, MaxK, MaxN) /\ Stored(mem.b, job.b, job.k, job.n, eng.b) /\ eng.b \in Nat
        /\ MaxN \in Nat /\ MaxK \in Nat
    BY Sizes DEF PipeShaped, EngineLoads
  <2>2. \/ nextB = eng.b /\ newB = mem.b
        \/ /\ nextB = eng.b + 1
           /\ newB = Ref!Buf!Spread(mem.b, WordAt(job.b, job.k, job.n, eng.b, Padding), eng.b,
                                    job.k * job.n, job.n)
    BY <1>1, SpreadIs, Zenon
  <2> HIDE DEF nextB, newB, takeB
  <2>3. QED
    BY <1>2, <1>7, <2>1, <2>2, LoadsOn
<1> HIDE DEF takeA, takeB, nextA, nextB, newA, newB
<1>10. CASE LoadEnds(nextA, nextB)
  <2> DEFINE e == Goto("CLEAR")
  <2>1. e.state = "CLEAR" /\ e.done = FALSE /\ e.error = eng.error /\ DOMAIN e = EngFields
    BY GoesTo
  <2>2. eng' = [e EXCEPT !.a = nextA, !.b = nextB, !.m0 = 0, !.n0 = 0]
    BY <1>6, <1>10
  <2> HIDE DEF e
  <2>3. /\ eng'.state = "CLEAR" /\ eng'.done = FALSE /\ eng'.error = eng.error
        /\ eng'.m0 = 0 /\ eng'.n0 = 0
    BY <2>1, <2>2 DEF EngFields
  <2>4. Engaged'
    BY <1>4, <2>3, EngagedStays DEF EngineLoads
  <2>5. OperandsHeld'
    <3>1. nextA >= (job.m * job.k + 3) \div 4 /\ nextB >= (job.k * job.n + 3) \div 4
      BY <1>2, <1>10 DEF LoadEnds, AWords, BWords, TotalWords
    <3>2. /\ job.m \in Nat \ {0} /\ job.n \in Nat \ {0} /\ job.k \in Nat \ {0}
          /\ nextA \in Int /\ nextB \in Int
      BY <1>2, <1>8, <1>9 DEF Sound
    <3>3. Holds(newA, job.a, job.m, job.k)
      BY <1>8, <3>1, <3>2, AllStored
    <3>4. Holds(newB, job.b, job.k, job.n)
      BY <1>9, <3>1, <3>2, AllStored
    <3>5. QED
      BY <1>1, <1>5, <3>3, <3>4, Zenon DEF OperandsHeld, Holds
  <2>6. Streams(eng.m0)'
    <3>1. Elements' = Elements /\ job.n \in Nat \ {0}
      BY <1>1, <1>2, JobStays DEF Sound
    <3>2. 0 \div job.n = 0 /\ 0 % job.n = 0
      BY <3>1
    <3>3. QED
      BY <1>1, <1>2, <1>4, <2>3, <3>1, <3>2 DEF Streams, EngineLoads
  <2>7. eng'.m0 \in 0 .. job'.m - 1 /\ eng'.n0 \in 0 .. job'.n - 1
    BY <1>1, <1>2, <2>3
  <2>8. FinalTo(mem.c, job, eng.m0, eng.n0, BlockAt(job, eng).mLen)'
    <3>1. FinalTo(mem'.c, job', 0, 0, BlockAt(job, eng)'.mLen)
      BY FinalAtStart
    <3>2. FinalTo(mem'.c, job', eng'.m0, eng'.n0, BlockAt(job, eng)'.mLen)
      BY <2>3, <3>1
    <3>3. QED
      BY <3>2, Zenon DEF FinalTo, Element, Part, Terms
  <2>9. QED
    BY <2>3, <2>4, <2>5, <2>6, <2>7, <2>8 DEF EngineClears, AtTile
<1>11. CASE ~LoadEnds(nextA, nextB)
  <2> DEFINE e == Goto("LOAD")
  <2>1. e.state = "LOAD" /\ e.done = FALSE /\ e.error = eng.error /\ DOMAIN e = EngFields
    BY GoesTo
  <2>2. eng' = [e EXCEPT !.a = nextA, !.b = nextB]
    BY <1>6, <1>11
  <2> HIDE DEF e
  <2>3. /\ eng'.state = "LOAD" /\ eng'.done = FALSE /\ eng'.error = eng.error
        /\ eng'.a = nextA /\ eng'.b = nextB
    BY <2>1, <2>2 DEF EngFields
  <2>4. Engaged'
    BY <1>4, <2>3, EngagedStays DEF EngineLoads
  <2>5. Stored(mem.a, job.a, job.m, job.k, eng.a)' /\ Stored(mem.b, job.b, job.k, job.n, eng.b)'
    BY <1>1, <1>5, <1>8, <1>9, <2>3, Zenon DEF Stored
  <2>6. QED
    BY <1>4, <1>8, <1>9, <2>3, <2>4, <2>5 DEF EngineLoads
<1>12. QED
  BY <1>10, <1>11

-----------------------------------------------------------------------------
(* The walk of the output side: row and column of the next element.          *)
LEMMA WalkStep ==
  ASSUME NEW W \in Nat \ {0}, NEW i \in Nat
  PROVE  /\ (i + 1) \div W = IF (i % W) + 1 >= W THEN (i \div W) + 1 ELSE i \div W
         /\ (i + 1) % W = IF (i % W) + 1 >= W THEN 0 ELSE (i % W) + 1
<1> DEFINE q == i \div W
           r == i % W
<1>1. q \in Nat /\ r \in 0 .. W - 1 /\ i = W * q + r
  BY Division
<1> HIDE DEF q, r
<1>2. CASE r + 1 >= W
  <2>1. W * (q + 1) = W * q + W
    BY <1>1, Z3
  <2> DEFINE p == W * q
  <2>2. p \in Int
    BY <1>1, Z3
  <2> HIDE DEF p
  <2>3. i + 1 = W * (q + 1) + 0
    BY <1>1, <1>2, <2>1, <2>2 DEF p
  <2>4. (W * (q + 1) + 0) \div W = q + 1 /\ (W * (q + 1) + 0) % W = 0
    BY <1>1, QuotientUnique, RemainderUnique
  <2>5. QED
    BY <1>2, <2>3, <2>4 DEF q, r
<1>3. CASE r + 1 < W
  <2> DEFINE p == W * q
  <2>1. p \in Int
    BY <1>1, Z3
  <2> HIDE DEF p
  <2>2. i + 1 = W * q + (r + 1) /\ r + 1 \in 0 .. W - 1 /\ ~(r + 1 >= W)
    BY <1>1, <1>3, <2>1 DEF p
  <2>3. (W * q + (r + 1)) \div W = q /\ (W * q + (r + 1)) % W = r + 1
    BY <1>1, <2>2, QuotientUnique, RemainderUnique
  <2>4. QED
    BY <2>2, <2>3 DEF q, r
<1>4. QED
  BY <1>1, <1>2, <1>3

LEMMA StreamsOn ==
  ASSUME Known, PipeShaped, Engaged, NEW rows, Streams(rows), eng.state \notin {"IDLE", "LOAD"},
         NEW x, NEW y, NEW ready, Ticks(x, y, ready)
  PROVE  /\ out'.row = passed' \div job.n /\ out'.col = passed' % job.n /\ out'.count = passed'
         /\ out'.rowsReady = IF eng.state = "CAPTURE" /\ LastNBlock THEN eng.m0 + TmLen ELSE rows
         /\ Elements' = Elements
         /\ FinalElement(ready) => passed' = Elements
         /\ ~FinalElement(ready) => passed' \in 0 .. Elements - 1
         /\ rows \in 0 .. job.m - 1 => ~FinalElement(ready)
<1> DEFINE taken == COutValid /\ ready
           total == Elements
           W == job.n
<1>1. /\ EngineClock(startQ.q, startQ.d, x, y, ready) /\ job' = job
      /\ taken => passed' = passed + 1
      /\ ~taken => passed' = passed
  BY DEF Ticks
<1>2. /\ taken => /\ out'.count = out.count + 1
                  /\ out'.row = IF out.col + 1 >= cfg.n THEN out.row + 1 ELSE out.row
                  /\ out'.col = IF out.col + 1 >= cfg.n THEN 0 ELSE out.col + 1
      /\ ~taken => out'.count = out.count /\ out'.row = out.row /\ out'.col = out.col
      /\ out'.rowsReady = IF eng.state = "CAPTURE" /\ LastNBlock THEN eng.m0 + TmLen ELSE out.rowsReady
  BY <1>1, OutputGoes
<1>3. /\ W \in Nat \ {0} /\ job.m \in Nat \ {0} /\ total = job.m * W /\ total \in Nat \ {0}
      /\ cfg.n = W /\ CTotal = total
  BY JobFits DEF Engaged, Sound, CTotal
<1>4. /\ passed \in 0 .. total - 1 /\ out.count = passed /\ out.rowsReady = rows
      /\ out.row = passed \div W /\ out.col = passed % W
  BY DEF Streams
<1>5. Elements' = total
  BY <1>1, JobStays
<1>6. FinalElement(ready) <=> taken /\ passed = total - 1
  BY <1>3, <1>4 DEF FinalElement, CAccept
<1>7. rows \in 0 .. job.m - 1 /\ taken => passed # total - 1
  <2> SUFFICES ASSUME rows \in 0 .. job.m - 1, taken, passed = total - 1
               PROVE  FALSE
    OBVIOUS
  <2>1. passed \div W < rows
    BY <1>4 DEF COutValid
  <2>2. W * (job.m - 1) = job.m * W - W
    BY <1>3, Z3
  <2>3. passed = W * (job.m - 1) + (W - 1)
    <3> DEFINE p == job.m * W
    <3>1. p = total
      BY <1>3
    <3> HIDE DEF p, W, total
    <3>2. QED
      BY <1>3, <2>2, <3>1 DEF p
  <2>4. (W * (job.m - 1) + (W - 1)) \div W = job.m - 1
    <3> DEFINE q == job.m - 1
               r == W - 1
    <3>1. W \in Nat \ {0} /\ q \in Nat /\ r \in 0 .. W - 1
      BY <1>3
    <3> HIDE DEF q, r, W
    <3>2. (W * q + r) \div W = q
      BY <3>1, QuotientUnique
    <3>3. QED
      BY <3>2 DEF q, r
  <2>5. passed \div W = job.m - 1
    BY <2>3, <2>4
  <2>6. QED
    BY <1>3, <2>1, <2>5
<1> HIDE DEF total, W, taken
<1>8. passed \in Nat
  BY <1>3, <1>4
<1>9. /\ (passed + 1) \div W = IF (passed % W) + 1 >= W THEN (passed \div W) + 1 ELSE passed \div W
      /\ (passed + 1) % W = IF (passed % W) + 1 >= W THEN 0 ELSE (passed % W) + 1
  BY <1>3, <1>8, WalkStep
<1>10. out'.row = passed' \div W /\ out'.col = passed' % W /\ out'.count = passed'
  <2>1. CASE taken
    BY <1>1, <1>2, <1>3, <1>4, <1>9, <2>1
  <2>2. CASE ~taken
    BY <1>1, <1>2, <1>4, <2>2
  <2>3. QED
    BY <2>1, <2>2
<1>11. FinalElement(ready) => passed' = total
  BY <1>1, <1>3, <1>4, <1>6
<1>12. ~FinalElement(ready) => passed' \in 0 .. total - 1
  BY <1>1, <1>3, <1>4, <1>6
<1>13. rows \in 0 .. job.m - 1 => ~FinalElement(ready)
  BY <1>6, <1>7
<1>14. QED
  BY <1>2, <1>4, <1>5, <1>10, <1>11, <1>12, <1>13 DEF W, total

(* Within a tile.                                                            *)
LEMMA AtTileStays ==
  ASSUME Known, PipeShaped, AtTile, eng.state \in {"CLEAR", "FEED", "DRAIN"},
         NEW x, NEW y, NEW ready, Ticks(x, y, ready),
         eng'.m0 = eng.m0, eng'.n0 = eng.n0, eng'.error = eng.error, eng'.done = FALSE
  PROVE  AtTile' /\ BlockAt(job, eng)' = BlockAt(job, eng)
<1>1. EngineClock(startQ.q, startQ.d, x, y, ready) /\ job' = job
  BY DEF Ticks
<1>2. cfg' = cfg /\ mem' = mem
  BY <1>1, EngineDoes DEF ClearArray, Feed, Drain
<1>3. Engaged'
  BY <1>2, EngagedStays DEF AtTile
<1>4. BlockAt(job, eng)' = BlockAt(job, eng)
  BY <1>1, Zenon DEF BlockAt, Least
<1>5. OperandsHeld'
  BY <1>1, <1>2, Zenon DEF AtTile, OperandsHeld, Holds
<1>6. FinalTo(mem.c, job, eng.m0, eng.n0, BlockAt(job, eng).mLen)'
  <2>1. FinalTo(mem.c, job, eng.m0, eng.n0, BlockAt(job, eng).mLen)
    BY DEF AtTile
  <2>2. FinalTo(mem'.c, job', eng'.m0, eng'.n0, BlockAt(job, eng)'.mLen)
    BY <1>1, <1>2, <1>4, <2>1, Zenon
  <2>3. QED
    BY <2>2, Zenon DEF FinalTo, Element, Part, Terms
<1>7. Streams(eng.m0)'
  <2>1. /\ Engaged /\ Streams(eng.m0) /\ eng.m0 \in 0 .. job.m - 1
        /\ eng.state \notin {"IDLE", "LOAD"} /\ eng.state # "CAPTURE"
    BY DEF AtTile
  <2>2. /\ out'.row = passed' \div job.n /\ out'.col = passed' % job.n /\ out'.count = passed'
        /\ out'.rowsReady = IF eng.state = "CAPTURE" /\ LastNBlock THEN eng.m0 + TmLen ELSE eng.m0
        /\ Elements' = Elements
        /\ ~FinalElement(ready) => passed' \in 0 .. Elements - 1
        /\ eng.m0 \in 0 .. job.m - 1 => ~FinalElement(ready)
    BY <2>1, StreamsOn
  <2>3. QED
    BY <1>1, <2>1, <2>2 DEF Streams
<1>8. eng'.m0 \in 0 .. job'.m - 1 /\ eng'.n0 \in 0 .. job'.n - 1
  BY <1>1 DEF AtTile
<1>9. QED
  BY <1>3, <1>4, <1>5, <1>6, <1>7, <1>8 DEF AtTile

LEMMA AtTileOk ==
  ASSUME Known, AtTile
  PROVE  /\ TileOf(job, BlockAt(job, eng)) /\ Sound(job)
         /\ BlockAt(job, eng).kLen = job.k /\ job.k \in Nat \ {0} /\ N \in Nat \ {0}
         /\ TmLen = BlockAt(job, eng).mLen /\ TnLen = BlockAt(job, eng).nLen
<1>1. Legal(job) /\ Engaged /\ eng.m0 \in 0 .. job.m - 1 /\ eng.n0 \in 0 .. job.n - 1
  BY DEF AtTile, Engaged
<1>2. TileOf(job, BlockAt(job, eng))
  BY <1>1, BlockOk
<1>3. QED
  BY <1>1, <1>2, BlockFields, BlockLens, JobFits, Sizes DEF Sound

(* What the engine feeds the array of the operands it holds.                 *)
LEMMA EngineFed ==
  ASSUME Known, AtTile, NEW i \in Lanes
  PROVE  LET T == BlockAt(job, eng)
         IN  /\ eng.state = "FEED" /\ eng.feedK \in 0 .. job.k - 1 =>
                  WestIn[i] = West(job, T, i, eng.feedK) /\ NorthIn[i] = North(job, T, i, eng.feedK)
             /\ eng.state # "FEED" =>
                  \A u \in Nat : u >= job.k => WestIn[i] = West(job, T, i, u) /\ NorthIn[i] = North(job, T, i, u)
<1> DEFINE T == BlockAt(job, eng)
           k == eng.feedK
<1>1. /\ T.m = eng.m0 /\ T.n = eng.n0 /\ T.k = 0 /\ T.kLen = job.k
      /\ TmLen = T.mLen /\ TnLen = T.nLen /\ TileOf(job, T) /\ job.k \in Nat \ {0}
      /\ Sound(job)
  BY AtTileOk, BlockFields
<1>2. i \in Nat
  BY Sizes DEF Lanes
<1>3. /\ WestIn[i] = IF eng.state = "FEED" /\ i < TmLen THEN mem.a[<<eng.m0 + i, k>>] ELSE 0
      /\ NorthIn[i] = IF eng.state = "FEED" /\ i < TnLen THEN mem.b[<<k, eng.n0 + i>>] ELSE 0
  <2> DEFINE f(l) == IF eng.state = "FEED" /\ l < TmLen THEN mem.a[<<eng.m0 + l, k>>] ELSE 0
             g(l) == IF eng.state = "FEED" /\ l < TnLen THEN mem.b[<<k, eng.n0 + l>>] ELSE 0
  <2>1. WestIn = [l \in Lanes |-> f(l)] /\ NorthIn = [l \in Lanes |-> g(l)]
    BY Zenon DEF WestIn, NorthIn
  <2> HIDE DEF f, g
  <2>2. WestIn[i] = f(i) /\ NorthIn[i] = g(i)
    BY <2>1
  <2>3. QED
    BY <2>2, Zenon DEF f, g
<1> HIDE DEF T, k
<1>4. ASSUME eng.state = "FEED", k \in 0 .. job.k - 1
      PROVE  WestIn[i] = West(job, T, i, k) /\ NorthIn[i] = North(job, T, i, k)
  <2>1. /\ West(job, T, i, k) = IF i < T.mLen THEN job.a[<<eng.m0 + i, k>>] ELSE 0
        /\ North(job, T, i, k) = IF i < T.nLen THEN job.b[<<k, eng.n0 + i>>] ELSE 0
    <3>1. T.k + k = k /\ k \in 0 .. T.kLen - 1
      BY <1>1, <1>4
    <3>2. /\ West(job, T, i, k) = IF i < T.mLen THEN job.a[<<T.m + i, T.k + k>>] ELSE 0
          /\ North(job, T, i, k) = IF i < T.nLen THEN job.b[<<T.k + k, T.n + i>>] ELSE 0
      BY <3>1 DEF West, North
    <3>3. QED
      BY <1>1, <3>1, <3>2
  <2>2. i < T.mLen => mem.a[<<eng.m0 + i, k>>] = job.a[<<eng.m0 + i, k>>]
    <3> DEFINE r == eng.m0 + i
    <3>1. i < T.mLen => r \in 0 .. job.m - 1
      BY <1>1, <1>2 DEF TileOf, Sound
    <3> HIDE DEF r
    <3>2. i < T.mLen => mem.a[<<r, k>>] = job.a[<<r, k>>]
      BY <1>4, <3>1, Zenon DEF AtTile, OperandsHeld, Holds
    <3>3. QED
      BY <3>2 DEF r
  <2>3. i < T.nLen => mem.b[<<k, eng.n0 + i>>] = job.b[<<k, eng.n0 + i>>]
    <3> DEFINE c == eng.n0 + i
    <3>1. i < T.nLen => c \in 0 .. job.n - 1
      BY <1>1, <1>2 DEF TileOf, Sound
    <3> HIDE DEF c
    <3>2. i < T.nLen => mem.b[<<k, c>>] = job.b[<<k, c>>]
      BY <1>4, <3>1, Zenon DEF AtTile, OperandsHeld, Holds
    <3>3. QED
      BY <3>2 DEF c
  <2>4. QED
    BY <1>1, <1>3, <1>4, <2>1, <2>2, <2>3
<1>5. ASSUME eng.state # "FEED", NEW u \in Nat, u >= job.k
      PROVE  WestIn[i] = West(job, T, i, u) /\ NorthIn[i] = North(job, T, i, u)
  <2>1. u \notin 0 .. T.kLen - 1
    BY <1>1, <1>5
  <2>2. QED
    BY <1>3, <1>5, <2>1, Zenon DEF West, North
<1>6. QED
  BY <1>4, <1>5 DEF T, k

(* What the array makes of a clock.                                          *)
LEMMA EngineArray ==
  ASSUME Known, AtTile, Array
  PROVE  LET T == BlockAt(job, eng)
         IN  /\ eng.state \in {"CLEAR", "CAPTURE"} =>
                  \A next : TileOf(job, next) => ArrayHolds(job, next, 0, arr')
             /\ eng.state = "FEED" /\ eng.feedK \in 0 .. job.k - 1 /\ ArrayHolds(job, T, eng.feedK, arr)
                  => ArrayHolds(job, T, eng.feedK + 1, arr')
             /\ \A u \in Nat : eng.state = "DRAIN" /\ u >= job.k /\ ArrayHolds(job, T, u, arr)
                  => ArrayHolds(job, T, u + 1, arr')
<1> DEFINE T == BlockAt(job, eng)
           x == WestIn
           y == NorthIn
<1>1. ArrayClock(ArrEn, ArrClear, ArrClear, x, y) /\ TileOf(job, T) /\ Sound(job)
  BY AtTileOk DEF Array
<1>2. ASSUME eng.state \in {"CLEAR", "CAPTURE"}, NEW next, TileOf(job, next)
      PROVE  ArrayHolds(job, next, 0, arr')
  <2> HIDE DEF x, y
  <2>1. ArrayClock(FALSE, TRUE, TRUE, x, y)
    BY <1>1, <1>2 DEF ArrEn, ArrClear, ArrayClock, LinesNext, AccNext
  <2>2. QED
    BY <1>1, <1>2, <2>1, ArrayWiped
<1>3. eng.state \in {"FEED", "DRAIN"} => ArrayClock(TRUE, FALSE, FALSE, x, y)
  <2> HIDE DEF x, y
  <2>1. QED
    BY <1>1 DEF ArrEn, ArrClear, ArrayClock, LinesNext, AccNext
<1>4. ASSUME eng.state = "FEED", eng.feedK \in 0 .. job.k - 1, ArrayHolds(job, T, eng.feedK, arr)
      PROVE  ArrayHolds(job, T, eng.feedK + 1, arr')
  <2> DEFINE u == eng.feedK
  <2>1. u \in Nat
    BY <1>4
  <2>2. \A i \in Lanes : x[i] = West(job, T, i, u) /\ y[i] = North(job, T, i, u)
    BY <1>4, EngineFed
  <2> HIDE DEF x, y, u, T
  <2>3. ArrayHolds(job, T, u, arr)
    BY <1>4 DEF u
  <2>4. ArrayHolds(job, T, u + 1, arr')
    BY <1>1, <1>3, <1>4, <2>1, <2>2, <2>3, ArrayOn
  <2>5. QED
    BY <2>4 DEF u
<1>5. ASSUME NEW u \in Nat, eng.state = "DRAIN", u >= job.k, ArrayHolds(job, T, u, arr)
      PROVE  ArrayHolds(job, T, u + 1, arr')
  <2>1. \A i \in Lanes : x[i] = West(job, T, i, u) /\ y[i] = North(job, T, i, u)
    BY <1>5, EngineFed
  <2> HIDE DEF x, y, T
  <2>2. QED
    BY <1>1, <1>3, <1>5, <2>1, ArrayOn
<1>6. QED
  BY <1>2, <1>4, <1>5

LEMMA EngineClearsOn ==
  ASSUME Known, PipeShaped, EngineClears, NEW x, NEW y, NEW ready, Ticks(x, y, ready)
  PROVE  EngineFeeds'
<1> DEFINE T == BlockAt(job, eng)
           e == Goto("FEED")
<1>1. EngineClock(startQ.q, startQ.d, x, y, ready) /\ job' = job /\ AtTile
  BY DEF Ticks, EngineClears
<1>2. Array /\ ClearArray(ready)
  BY <1>1, EngineDoes DEF EngineClears
<1>3. eng' = [e EXCEPT !.feedK = 0]
  BY <1>2 DEF ClearArray
<1>4. /\ DOMAIN e = EngFields /\ e.state = "FEED" /\ e.done = FALSE /\ e.error = eng.error
      /\ e.m0 = eng.m0 /\ e.n0 = eng.n0
  BY GoesTo
<1> HIDE DEF e
<1>5. /\ eng'.state = "FEED" /\ eng'.done = FALSE /\ eng'.error = eng.error
      /\ eng'.m0 = eng.m0 /\ eng'.n0 = eng.n0 /\ eng'.feedK = 0
  BY <1>3, <1>4 DEF EngFields
<1>6. AtTile' /\ BlockAt(job, eng)' = T
  BY <1>1, <1>5, AtTileStays DEF EngineClears
<1>7. TileOf(job, T) /\ job.k \in Nat \ {0}
  BY <1>1, AtTileOk
<1>8. ArrayHolds(job, T, 0, arr')
  BY <1>1, <1>2, <1>7, EngineArray DEF EngineClears
<1> HIDE DEF T
<1>9. ArrayHolds(job', BlockAt(job, eng)', eng'.feedK, arr')
  BY <1>1, <1>5, <1>6, <1>8
<1>10. ArrayHolds(job, BlockAt(job, eng), eng.feedK, arr)'
  BY <1>9, Zenon DEF ArrayHolds, LinesHold, SumsHold, West, North, Met, Part, Terms, Lanes, LineOf
<1>11. eng'.feedK \in 0 .. job'.k - 1
  BY <1>1, <1>5, <1>7
<1>12. QED
  BY <1>5, <1>6, <1>10, <1>11 DEF EngineFeeds

LEMMA EngineFeedsOn ==
  ASSUME Known, PipeShaped, EngineFeeds, NEW x, NEW y, NEW ready, Ticks(x, y, ready)
  PROVE  EngineFeeds' \/ EngineDrains'
<1> DEFINE T == BlockAt(job, eng)
<1>1. EngineClock(startQ.q, startQ.d, x, y, ready) /\ job' = job /\ AtTile
  BY DEF Ticks, EngineFeeds
<1>2. Array /\ Feed(ready)
  BY <1>1, EngineDoes DEF EngineFeeds
<1>3. /\ TileOf(job, T) /\ job.k \in Nat \ {0} /\ N \in Nat \ {0} /\ cfg.k = job.k
      /\ eng.feedK \in 0 .. job.k - 1
  BY <1>1, AtTileOk DEF AtTile, Engaged, EngineFeeds
<1>4. ArrayHolds(job, T, eng.feedK + 1, arr')
  BY <1>1, <1>2, <1>3, EngineArray DEF EngineFeeds
<1> HIDE DEF T
<1>5. CASE eng.feedK = cfg.k - 1
  <2> DEFINE e == Goto("DRAIN")
  <2>1. eng' = [e EXCEPT !.drain = 0]
    BY <1>2, <1>5 DEF Feed
  <2>2. /\ DOMAIN e = EngFields /\ e.state = "DRAIN" /\ e.done = FALSE /\ e.error = eng.error
        /\ e.m0 = eng.m0 /\ e.n0 = eng.n0
    BY GoesTo
  <2> HIDE DEF e
  <2>3. /\ eng'.state = "DRAIN" /\ eng'.done = FALSE /\ eng'.error = eng.error
        /\ eng'.m0 = eng.m0 /\ eng'.n0 = eng.n0 /\ eng'.drain = 0
    BY <2>1, <2>2 DEF EngFields
  <2>4. AtTile' /\ BlockAt(job, eng)' = T
    BY <1>1, <2>3, AtTileStays DEF EngineFeeds, T
  <2>5. eng.feedK + 1 = job.k + 0
    BY <1>3, <1>5
  <2>6. ArrayHolds(job', BlockAt(job, eng)', job'.k + eng'.drain, arr')
    BY <1>1, <1>4, <2>3, <2>4, <2>5
  <2>7. ArrayHolds(job, BlockAt(job, eng), job.k + eng.drain, arr)'
    BY <2>6, Zenon DEF ArrayHolds, LinesHold, SumsHold, West, North, Met, Part, Terms, Lanes, LineOf
  <2>8. eng'.drain \in 0 .. 2 * N - 2
    BY <1>3, <2>3
  <2>9. QED
    BY <2>3, <2>4, <2>7, <2>8 DEF EngineDrains
<1>6. CASE eng.feedK # cfg.k - 1
  <2> DEFINE e == Goto("FEED")
  <2>1. eng' = [e EXCEPT !.feedK = e.feedK + 1]
    BY <1>2, <1>6 DEF Feed
  <2>2. /\ DOMAIN e = EngFields /\ e.state = "FEED" /\ e.done = FALSE /\ e.error = eng.error
        /\ e.m0 = eng.m0 /\ e.n0 = eng.n0 /\ e.feedK = eng.feedK
    BY GoesTo
  <2> HIDE DEF e
  <2>3. /\ eng'.state = "FEED" /\ eng'.done = FALSE /\ eng'.error = eng.error
        /\ eng'.m0 = eng.m0 /\ eng'.n0 = eng.n0 /\ eng'.feedK = eng.feedK + 1
    BY <2>1, <2>2 DEF EngFields
  <2>4. AtTile' /\ BlockAt(job, eng)' = T
    BY <1>1, <2>3, AtTileStays DEF EngineFeeds, T
  <2>5. eng'.feedK \in 0 .. job'.k - 1
    BY <1>1, <1>3, <1>6, <2>3
  <2>6. ArrayHolds(job', BlockAt(job, eng)', eng'.feedK, arr')
    BY <1>1, <1>4, <2>3, <2>4
  <2>7. ArrayHolds(job, BlockAt(job, eng), eng.feedK, arr)'
    BY <2>6, Zenon DEF ArrayHolds, LinesHold, SumsHold, West, North, Met, Part, Terms, Lanes, LineOf
  <2>8. QED
    BY <2>3, <2>4, <2>5, <2>7 DEF EngineFeeds
<1>7. QED
  BY <1>5, <1>6

LEMMA EngineDrainsOn ==
  ASSUME Known, PipeShaped, EngineDrains, NEW x, NEW y, NEW ready, Ticks(x, y, ready)
  PROVE  EngineDrains' \/ EngineCaptures'
<1> DEFINE T == BlockAt(job, eng)
<1>1. EngineClock(startQ.q, startQ.d, x, y, ready) /\ job' = job /\ AtTile
  BY DEF Ticks, EngineDrains
<1>2. Array /\ Drain(ready)
  BY <1>1, EngineDoes DEF EngineDrains
<1>3. /\ TileOf(job, T) /\ job.k \in Nat \ {0} /\ N \in Nat \ {0} /\ eng.drain \in 0 .. 2 * N - 2
  BY <1>1, AtTileOk DEF EngineDrains
<1>4. ArrayHolds(job, T, job.k + (eng.drain + 1), arr')
  <2> DEFINE u == job.k + eng.drain
  <2>1. u \in Nat /\ u >= job.k /\ u + 1 = job.k + (eng.drain + 1)
    BY <1>3
  <2>2. ArrayHolds(job, T, u, arr)
    BY DEF EngineDrains
  <2> HIDE DEF u, T
  <2>3. ArrayHolds(job, T, u + 1, arr')
    BY <1>1, <1>2, <2>1, <2>2, EngineArray DEF EngineDrains, T
  <2>4. QED
    BY <2>1, <2>3
<1> HIDE DEF T
<1>5. CASE eng.drain = DrainCycles - 1
  <2> DEFINE e == Goto("CAPTURE")
  <2>1. eng' = e
    BY <1>2, <1>5 DEF Drain
  <2>2. /\ e.state = "CAPTURE" /\ e.done = FALSE /\ e.error = eng.error
        /\ e.m0 = eng.m0 /\ e.n0 = eng.n0
    BY GoesTo
  <2> HIDE DEF e
  <2>3. /\ eng'.state = "CAPTURE" /\ eng'.done = FALSE /\ eng'.error = eng.error
        /\ eng'.m0 = eng.m0 /\ eng'.n0 = eng.n0
    BY <2>1, <2>2
  <2>4. AtTile' /\ BlockAt(job, eng)' = T
    BY <1>1, <2>3, AtTileStays DEF EngineDrains, T
  <2>5. eng.drain + 1 = 2 * N - 1
    BY <1>3, <1>5 DEF DrainCycles
  <2>6. ArrayHolds(job', BlockAt(job, eng)', job'.k + (2 * N - 1), arr')
    BY <1>1, <1>4, <2>4, <2>5
  <2>7. ArrayHolds(job, BlockAt(job, eng), job.k + (2 * N - 1), arr)'
    BY <2>6, Zenon DEF ArrayHolds, LinesHold, SumsHold, West, North, Met, Part, Terms, Lanes, LineOf
  <2>8. QED
    BY <2>3, <2>4, <2>7 DEF EngineCaptures
<1>6. CASE eng.drain # DrainCycles - 1
  <2> DEFINE e == Goto("DRAIN")
  <2>1. eng' = [e EXCEPT !.drain = e.drain + 1]
    BY <1>2, <1>6 DEF Drain
  <2>2. /\ DOMAIN e = EngFields /\ e.state = "DRAIN" /\ e.done = FALSE /\ e.error = eng.error
        /\ e.m0 = eng.m0 /\ e.n0 = eng.n0 /\ e.drain = eng.drain
    BY GoesTo
  <2> HIDE DEF e
  <2>3. /\ eng'.state = "DRAIN" /\ eng'.done = FALSE /\ eng'.error = eng.error
        /\ eng'.m0 = eng.m0 /\ eng'.n0 = eng.n0 /\ eng'.drain = eng.drain + 1
    BY <2>1, <2>2 DEF EngFields
  <2>4. AtTile' /\ BlockAt(job, eng)' = T
    BY <1>1, <2>3, AtTileStays DEF EngineDrains, T
  <2>5. eng'.drain \in 0 .. 2 * N - 2
    BY <1>3, <1>6, <2>3 DEF DrainCycles
  <2>6. ArrayHolds(job', BlockAt(job, eng)', job'.k + eng'.drain, arr')
    BY <1>1, <1>4, <2>3, <2>4
  <2>7. ArrayHolds(job, BlockAt(job, eng), job.k + eng.drain, arr)'
    BY <2>6, Zenon DEF ArrayHolds, LinesHold, SumsHold, West, North, Met, Part, Terms, Lanes, LineOf
  <2>8. QED
    BY <2>3, <2>4, <2>5, <2>7 DEF EngineDrains
<1>7. QED
  BY <1>5, <1>6

(* A capture makes its tile of C final, and harms nothing that was.          *)
LEMMA CaptureFinal ==
  ASSUME Known, PipeShaped, EngineCaptures
  PROVE  LET T == BlockAt(job, eng)
         IN  FinalTo(Captured(mem.c), job, eng.m0, eng.n0 + T.nLen, T.mLen)
<1> DEFINE T == BlockAt(job, eng)
           new == Captured(mem.c)
           m0 == eng.m0
           n0 == eng.n0
<1>1. /\ T.m = m0 /\ T.n = n0 /\ T.k = 0 /\ T.kLen = job.k
      /\ TmLen = T.mLen /\ TnLen = T.nLen /\ TileOf(job, T) /\ job.k \in Nat \ {0} /\ N \in Nat \ {0}
      /\ Sound(job) /\ m0 \in 0 .. job.m - 1 /\ n0 \in 0 .. job.n - 1
      /\ job.m \in 1 .. MaxM /\ job.n \in 1 .. MaxN /\ MaxM \in Nat /\ MaxN \in Nat
      /\ FinalTo(mem.c, job, m0, n0, T.mLen)
  BY AtTileOk, BlockFields, JobFits, Sizes DEF EngineCaptures, AtTile, Engaged
<1>2. ArrayHolds(job, T, T.kLen + (2 * N - 1), arr)
  BY <1>1 DEF EngineCaptures
<1>3. DOMAIN mem.c = Grid(MaxM, MaxN)
  BY MatrixDomain DEF PipeShaped
<1>4. ASSUME NEW r \in 0 .. job.m - 1, NEW c \in 0 .. job.n - 1
      PROVE  new[<<r, c>>] = IF r - m0 \in 0 .. T.mLen - 1 /\ c - n0 \in 0 .. T.nLen - 1
                               THEN arr.acc[<<r - m0, c - n0>>] ELSE mem.c[<<r, c>>]
  <2> DEFINE f(p) == IF p[1] - eng.m0 \in 0 .. TmLen - 1 /\ p[2] - eng.n0 \in 0 .. TnLen - 1
                       THEN arr.acc[<<p[1] - eng.m0, p[2] - eng.n0>>] ELSE mem.c[p]
  <2>1. new = [p \in Grid(MaxM, MaxN) |-> f(p)]
    BY <1>3, Zenon DEF Captured
  <2>2. <<r, c>> \in Grid(MaxM, MaxN)
    BY <1>1 DEF Grid
  <2> HIDE DEF f, new
  <2>3. new[<<r, c>>] = f(<<r, c>>)
    BY <2>1, <2>2
  <2> HIDE DEF T
  <2>4. QED
    BY <1>1, <2>3 DEF f
<1> HIDE DEF T, new, m0, n0
<1>5. ASSUME NEW r \in 0 .. job.m - 1, NEW c \in 0 .. job.n - 1,
             r < m0 \/ (r < m0 + T.mLen /\ c < n0 + T.nLen)
      PROVE  new[<<r, c>>] = Element(job, r, c)
  <2>1. CASE r - m0 \in 0 .. T.mLen - 1 /\ c - n0 \in 0 .. T.nLen - 1
    <3> DEFINE x == r - m0
               y == c - n0
    <3>1. /\ x \in Lanes /\ y \in Lanes /\ x < T.mLen /\ y < T.nLen
          /\ T.m + x = r /\ T.n + y = c /\ T.k + T.kLen = job.k
      BY <1>1, <2>1 DEF TileOf, Lanes, Sound
    <3> HIDE DEF x, y
    <3>2. arr.acc[<<x, y>>] = Part(job, T.m + x, T.n + y, T.k + T.kLen) - Part(job, T.m + x, T.n + y, T.k)
      BY <1>1, <1>2, <3>1, ArrayThrough
    <3>3. arr.acc[<<x, y>>] = Part(job, r, c, job.k) - Part(job, r, c, 0)
      BY <1>1, <3>1, <3>2, Zenon
    <3>4. Part(job, r, c, 0) = 0 /\ Part(job, r, c, job.k) \in Int
      <4>1. job.k \in 0 .. job.k
        BY <1>1
      <4>2. QED
        BY <1>1, <4>1, PartStep
    <3>5. arr.acc[<<x, y>>] = Element(job, r, c)
      <4> DEFINE p == Part(job, r, c, job.k)
      <4>1. arr.acc[<<x, y>>] = p - 0 /\ p \in Int
        BY <3>3, <3>4
      <4> HIDE DEF p
      <4>2. arr.acc[<<x, y>>] = p
        BY <4>1
      <4>3. QED
        BY <4>2, Zenon DEF p, Element
    <3>6. QED
      BY <1>4, <2>1, <3>5 DEF x, y
  <2>2. CASE ~(r - m0 \in 0 .. T.mLen - 1 /\ c - n0 \in 0 .. T.nLen - 1)
    <3>1. r < m0 \/ (r < m0 + T.mLen /\ c < n0)
      BY <1>1, <1>5, <2>2 DEF TileOf, Sound
    <3>2. mem.c[<<r, c>>] = Element(job, r, c)
      BY <1>1, <3>1, Zenon DEF FinalTo
    <3>3. QED
      BY <1>4, <2>2, <3>2
  <2>3. QED
    BY <2>1, <2>2
<1>6. FinalTo(new, job, m0, n0 + T.nLen, T.mLen)
  BY <1>5, Zenon DEF FinalTo
<1>7. QED
  BY <1>6 DEF T, new, m0, n0

LEMMA EngineCapturesOn ==
  ASSUME Known, PipeShaped, EngineCaptures, NEW x, NEW y, NEW ready, Ticks(x, y, ready)
  PROVE  EngineFeeds' \/ EngineFlushes'
<1> DEFINE T == BlockAt(job, eng)
           new == Captured(mem.c)
           m0 == eng.m0
           n0 == eng.n0
<1>1. EngineClock(startQ.q, startQ.d, x, y, ready) /\ job' = job /\ AtTile
  BY DEF Ticks, EngineCaptures
<1>2. Array /\ Capture(ready)
  BY <1>1, EngineDoes DEF EngineCaptures
<1>3. /\ T.m = m0 /\ T.n = n0 /\ T.mLen = Least(job.m - m0, job.tm)
      /\ TmLen = T.mLen /\ TnLen = T.nLen /\ TileOf(job, T) /\ job.k \in Nat \ {0}
      /\ Sound(job) /\ m0 \in 0 .. job.m - 1 /\ n0 \in 0 .. job.n - 1
      /\ cfg.m = job.m /\ cfg.n = job.n /\ Engaged /\ Streams(m0)
  BY <1>1, AtTileOk, BlockFields DEF AtTile, Engaged
<1>4. FinalTo(new, job, m0, n0 + T.nLen, T.mLen)
  BY CaptureFinal
<1>5. mem'.c = new /\ mem'.a = mem.a /\ mem'.b = mem.b /\ cfg' = cfg
  BY <1>1, <1>2, MemoryGoes DEF EngineCaptures, Capture
<1>6. eng' = NextTile
  BY <1>2 DEF Capture
<1>8. /\ (LastNBlock <=> n0 + T.nLen >= job.n)
      /\ (LastMBlock <=> m0 + T.mLen >= job.m)
  BY <1>3 DEF LastNBlock, LastMBlock
<1>9. /\ out'.row = passed' \div job.n /\ out'.col = passed' % job.n /\ out'.count = passed'
      /\ out'.rowsReady = IF LastNBlock THEN m0 + T.mLen ELSE m0
      /\ Elements' = Elements /\ passed' \in 0 .. Elements - 1
  <2>1. eng.state \notin {"IDLE", "LOAD"} /\ eng.state = "CAPTURE"
    BY DEF EngineCaptures
  <2>2. /\ out'.row = passed' \div job.n /\ out'.col = passed' % job.n /\ out'.count = passed'
        /\ out'.rowsReady = IF eng.state = "CAPTURE" /\ LastNBlock THEN eng.m0 + TmLen ELSE m0
        /\ Elements' = Elements
        /\ ~FinalElement(ready) => passed' \in 0 .. Elements - 1
        /\ m0 \in 0 .. job.m - 1 => ~FinalElement(ready)
    BY <1>3, <2>1, StreamsOn
  <2>3. QED
    BY <1>3, <2>1, <2>2
<1>10. ASSUME NEW rows, out'.rowsReady = rows
       PROVE  /\ passed' \in 0 .. Elements' - 1 /\ out'.count = passed' /\ out'.rowsReady = rows
              /\ out'.row = passed' \div job'.n /\ out'.col = passed' % job'.n
  BY <1>1, <1>9, <1>10
<1> HIDE DEF T, new, m0, n0
<1>7. OperandsHeld'
  <2>1. OperandsHeld
    BY <1>1 DEF AtTile
  <2>2. Holds(mem'.a, job'.a, job'.m, job'.k) /\ Holds(mem'.b, job'.b, job'.k, job'.n)
    BY <1>1, <1>5, <2>1, Zenon DEF OperandsHeld
  <2>3. QED
    BY <2>2, Zenon DEF OperandsHeld, Holds
<1>11. ASSUME NEW e, DOMAIN e = EngFields, e.state = "FEED", e.done = FALSE, e.error = eng.error, eng' = e,
              e.feedK = 0, e.m0 \in 0 .. job.m - 1, e.n0 \in 0 .. job.n - 1, out'.rowsReady = e.m0,
              FinalTo(new, job, e.m0, e.n0, BlockAt(job, e).mLen)
       PROVE  EngineFeeds'
  <2> DEFINE next == BlockAt(job, e)
  <2>1. Engaged'
    BY <1>3, <1>5, <1>11, EngagedStays
  <2>2. BlockAt(job, eng)' = next
    BY <1>1, <1>11, Zenon DEF BlockAt, Least
  <2>3. FinalTo(mem.c, job, eng.m0, eng.n0, BlockAt(job, eng).mLen)'
    <3>1. FinalTo(mem'.c, job', eng'.m0, eng'.n0, BlockAt(job, eng)'.mLen)
      BY <1>1, <1>5, <1>11, <2>2, Zenon
    <3>2. QED
      BY <3>1, Zenon DEF FinalTo, Element, Part, Terms
  <2>4. Streams(eng.m0)'
    <3>1. out'.rowsReady = eng'.m0
      BY <1>11
    <3>2. QED
      BY <1>10, <3>1, Zenon DEF Streams
  <2>5. AtTile'
    BY <1>1, <1>7, <1>11, <2>1, <2>3, <2>4 DEF AtTile
  <2>6. TileOf(job, next)
    BY <1>3, <1>11, BlockOk DEF Engaged
  <2>7. ArrayHolds(job, next, 0, arr')
    BY <1>1, <1>2, <2>6, EngineArray DEF EngineCaptures
  <2> HIDE DEF next
  <2>8. ArrayHolds(job', BlockAt(job, eng)', eng'.feedK, arr')
    BY <1>1, <1>11, <2>2, <2>7
  <2>9. ArrayHolds(job, BlockAt(job, eng), eng.feedK, arr)'
    BY <2>8, Zenon DEF ArrayHolds, LinesHold, SumsHold, West, North, Met, Part, Terms, Lanes, LineOf
  <2>10. eng'.feedK \in 0 .. job'.k - 1
    BY <1>1, <1>3, <1>11
  <2>11. QED
    BY <1>11, <2>5, <2>9, <2>10 DEF EngineFeeds
<1>12. CASE ~LastNBlock
  <2> DEFINE g == Goto("FEED")
             e == [g EXCEPT !.feedK = 0, !.n0 = g.n0 + TnLen]
  <2>1. eng' = e
    BY <1>6, <1>12 DEF NextTile
  <2>2. /\ DOMAIN g = EngFields /\ g.state = "FEED" /\ g.done = FALSE /\ g.error = eng.error
        /\ g.m0 = m0 /\ g.n0 = n0
    BY GoesTo DEF m0, n0
  <2> HIDE DEF g
  <2>3. /\ DOMAIN e = EngFields /\ e.state = "FEED" /\ e.done = FALSE /\ e.error = eng.error
        /\ e.m0 = m0 /\ e.n0 = n0 + T.nLen /\ e.feedK = 0
    BY <1>3, <2>2 DEF EngFields
  <2> HIDE DEF e
  <2>4. e.m0 \in 0 .. job.m - 1 /\ e.n0 \in 0 .. job.n - 1 /\ out'.rowsReady = e.m0
    BY <1>3, <1>8, <1>9, <1>12, <2>3 DEF TileOf, Sound
  <2>5. BlockAt(job, e).mLen = T.mLen
    BY <1>3, <2>3, BlockFields
  <2>6. FinalTo(new, job, e.m0, e.n0, BlockAt(job, e).mLen)
    BY <1>4, <2>3, <2>5
  <2>7. QED
    BY <1>11, <2>1, <2>3, <2>4, <2>6
<1>13. CASE LastNBlock /\ ~LastMBlock
  <2> DEFINE g == Goto("FEED")
             e == [g EXCEPT !.feedK = 0, !.n0 = 0, !.m0 = g.m0 + TmLen]
  <2>1. eng' = e
    BY <1>6, <1>13 DEF NextTile
  <2>2. /\ DOMAIN g = EngFields /\ g.state = "FEED" /\ g.done = FALSE /\ g.error = eng.error
        /\ g.m0 = m0 /\ g.n0 = n0
    BY GoesTo DEF m0, n0
  <2> HIDE DEF g
  <2>3. /\ DOMAIN e = EngFields /\ e.state = "FEED" /\ e.done = FALSE /\ e.error = eng.error
        /\ e.m0 = m0 + T.mLen /\ e.n0 = 0 /\ e.feedK = 0
    BY <1>3, <2>2 DEF EngFields
  <2> HIDE DEF e
  <2>4. e.m0 \in 0 .. job.m - 1 /\ e.n0 \in 0 .. job.n - 1 /\ out'.rowsReady = e.m0
    BY <1>3, <1>8, <1>9, <1>13, <2>3 DEF TileOf, Sound
  <2>5. FinalTo(new, job, m0 + T.mLen, 0, BlockAt(job, e).mLen)
    <3>1. m0 \in Nat /\ n0 + T.nLen \in Nat /\ T.mLen \in Nat /\ n0 + T.nLen >= job.n
      BY <1>3, <1>8, <1>13 DEF TileOf, Sound
    <3>2. QED
      BY <1>3, <1>4, <3>1, FinalWraps
  <2>6. FinalTo(new, job, e.m0, e.n0, BlockAt(job, e).mLen)
    BY <2>3, <2>5
  <2>7. QED
    BY <1>11, <2>1, <2>3, <2>4, <2>6
<1>14. CASE LastNBlock /\ LastMBlock
  <2> DEFINE g == Goto("FLUSH_OUT")
  <2>1. eng' = [g EXCEPT !.feedK = 0, !.n0 = 0]
    BY <1>6, <1>14 DEF NextTile
  <2>2. DOMAIN g = EngFields /\ g.state = "FLUSH_OUT" /\ g.done = FALSE /\ g.error = eng.error
    BY GoesTo
  <2> HIDE DEF g
  <2>3. eng'.state = "FLUSH_OUT" /\ eng'.done = FALSE /\ eng'.error = eng.error
    BY <2>1, <2>2 DEF EngFields
  <2>4. Engaged'
    BY <1>3, <1>5, <2>3, EngagedStays
  <2>5. AllFinal(new, job)
    <3>1. /\ m0 \in Nat /\ n0 + T.nLen \in Nat /\ T.mLen \in Nat /\ n0 + T.nLen >= job.n
          /\ m0 + T.mLen >= job.m
      BY <1>3, <1>8, <1>14 DEF TileOf, Sound
    <3>2. QED
      BY <1>3, <1>4, <3>1, FinalWraps
  <2>6. AllFinal(mem.c, job)'
    BY <1>1, <1>5, <2>5, Zenon DEF AllFinal, Element, Part, Terms
  <2>7. out'.rowsReady = job.m
    <3>1. m0 + T.mLen >= job.m /\ m0 + T.mLen <= job.m /\ m0 + T.mLen \in Int /\ job.m \in Int
      BY <1>3, <1>8, <1>14 DEF TileOf, Sound
    <3>2. m0 + T.mLen = job.m
      BY <3>1
    <3>3. out'.rowsReady = m0 + T.mLen
      BY <1>9, <1>14
    <3>4. QED
      BY <3>2, <3>3
  <2>8. Streams(job.m)'
    BY <1>1, <1>10, <2>7, Zenon DEF Streams
  <2>9. QED
    BY <2>3, <2>4, <2>6, <2>8 DEF EngineFlushes
<1>15. QED
  BY <1>12, <1>13, <1>14

(* The rest of C on its way out.                                             *)
LEMMA EngineFlushesOn ==
  ASSUME Known, PipeShaped, EngineFlushes, NEW x, NEW y, NEW ready, Ticks(x, y, ready)
  PROVE  EngineFlushes' \/ EngineRests'
<1>1. /\ EngineClock(startQ.q, startQ.d, x, y, ready) /\ job' = job
      /\ startQ'.q = FALSE /\ startQ'.d = startQ.d /\ dones' = 0
  BY DEF Ticks, EngineFlushes, Engaged, Taken
<1>2. FlushOut(ready)
  BY <1>1, EngineDoes DEF EngineFlushes
<1>3. cfg' = cfg /\ mem' = mem
  BY <1>2 DEF FlushOut
<1>4. /\ out'.row = passed' \div job.n /\ out'.col = passed' % job.n /\ out'.count = passed'
      /\ out'.rowsReady = job.m /\ Elements' = Elements
      /\ FinalElement(ready) => passed' = Elements
      /\ ~FinalElement(ready) => passed' \in 0 .. Elements - 1
  <2>1. Engaged /\ Streams(job.m) /\ eng.state \notin {"IDLE", "LOAD"} /\ eng.state # "CAPTURE"
    BY DEF EngineFlushes
  <2>2. /\ out'.row = passed' \div job.n /\ out'.col = passed' % job.n /\ out'.count = passed'
        /\ out'.rowsReady = IF eng.state = "CAPTURE" /\ LastNBlock THEN eng.m0 + TmLen ELSE job.m
        /\ Elements' = Elements
        /\ FinalElement(ready) => passed' = Elements
        /\ ~FinalElement(ready) => passed' \in 0 .. Elements - 1
    BY <2>1, StreamsOn
  <2>3. QED
    BY <2>1, <2>2
<1>5. CASE FinalElement(ready)
  <2>1. eng' = [eng EXCEPT !.state = "IDLE", !.done = TRUE]
    BY <1>2, <1>5 DEF FlushOut
  <2>2. eng'.state = "IDLE" /\ eng'.done = TRUE /\ eng'.error = eng.error
    BY <2>1 DEF PipeShaped, EngFields
  <2>3. Given'
    <3>1. startQ.d.m = job.m /\ job.m \in Nat \ {0}
      BY JobTyped DEF EngineFlushes, Engaged, Descriptor
    <3>2. QED
      BY <1>1, <3>1 DEF Given
  <2>4. Legal(job)' /\ eng'.error = FALSE
    BY <1>1, <2>2, JobStays DEF EngineFlushes, Engaged
  <2>5. dones' + Taken(eng.done)' = 1
    BY <1>1, <2>2 DEF Taken
  <2>6. QED
    BY <1>1, <1>4, <1>5, <2>2, <2>3, <2>4, <2>5 DEF EngineRests
<1>6. CASE ~FinalElement(ready)
  <2>1. eng' = Goto("FLUSH_OUT")
    BY <1>2, <1>6 DEF FlushOut
  <2>2. eng'.state = "FLUSH_OUT" /\ eng'.done = FALSE /\ eng'.error = eng.error
    BY <2>1, GoesTo
  <2>3. Engaged'
    BY <1>3, <2>2, EngagedStays DEF EngineFlushes
  <2>4. AllFinal(mem.c, job)'
    BY <1>1, <1>3, Zenon DEF EngineFlushes, AllFinal, Element, Part, Terms
  <2>5. Streams(job.m)'
    BY <1>1, <1>4, <1>6 DEF Streams
  <2>6. QED
    BY <2>2, <2>3, <2>4, <2>5 DEF EngineFlushes
<1>7. QED
  BY <1>5, <1>6

-----------------------------------------------------------------------------
(* The pipelined path, job after job.                                        *)
LEMMA PipeStarts ==
  ASSUME PipeInv, Pipelined, Start
  PROVE  PipeShaped' /\ PipeStage'
<1>1. PipeShaped /\ PipeStage
  BY DEF PipeInv
<1>2. eng.state = "IDLE" /\ startQ.q # TRUE
  BY DEF Start, Over, Busy, EngineBusy
<1>3. EngineRests
  BY <1>1, <1>2 DEF PipeStage, EngineLatched, EngineLoads, EngineClears, EngineFeeds, EngineDrains,
     EngineCaptures, EngineFlushes
<1>4. QED
  BY <1>1, <1>3, EngineStarts DEF PipeStage

LEMMA PipeGoesOn ==
  ASSUME Known, PipeInv, Pipelined, NEW a \in BOOLEAN, NEW b \in BOOLEAN, NEW sink \in BOOLEAN,
         Cycle(a, b, sink)
  PROVE  PipeShaped' /\ PipeStage'
<1>1. PipeShaped /\ PipeStage
  BY DEF PipeInv
<1>2. passed \in Int
  <2> DEFINE total == Elements
  <2>1. total \in Nat \ {0}
    BY JobTyped
  <2>2. passed = 0 \/ passed = total \/ passed \in 0 .. total - 1
    BY <1>1 DEF PipeStage, EngineRests, EngineLatched, EngineLoads, EngineClears, EngineFeeds, EngineDrains,
       EngineCaptures, EngineFlushes, AtTile, Streams
  <2> HIDE DEF total
  <2>3. QED
    BY <2>1, <2>2
<1>3. PipeShaped' /\ \E x, y, ready : Ticks(x, y, ready)
  BY <1>1, <1>2, CycleTicks
<1>4. PICK x, y, ready : Ticks(x, y, ready)
  BY <1>3
<1>5. EngineRests => EngineRests'
  BY <1>1, <1>4, EngineRestsOn
<1>6. EngineLatched => EngineLoads' \/ EngineRests'
  BY <1>1, <1>4, EngineLatchedOn
<1>7. EngineLoads => EngineLoads' \/ EngineClears'
  BY <1>1, <1>4, EngineLoadsOn
<1>8. EngineClears => EngineFeeds'
  BY <1>1, <1>4, EngineClearsOn
<1>9. EngineFeeds => EngineFeeds' \/ EngineDrains'
  BY <1>1, <1>4, EngineFeedsOn
<1>10. EngineDrains => EngineDrains' \/ EngineCaptures'
  BY <1>1, <1>4, EngineDrainsOn
<1>11. EngineCaptures => EngineFeeds' \/ EngineFlushes'
  BY <1>1, <1>4, EngineCapturesOn
<1>12. EngineFlushes => EngineFlushes' \/ EngineRests'
  BY <1>1, <1>4, EngineFlushesOn
<1>13. QED
  BY <1>1, <1>3, <1>5, <1>6, <1>7, <1>8, <1>9, <1>10, <1>11, <1>12 DEF PipeStage

LEMMA PipeRests ==
  ASSUME PipeInv, UNCHANGED vars
  PROVE  PipeInv'
<1>1. /\ path' = path /\ startQ' = startQ /\ arr' = arr /\ cfg' = cfg /\ eng' = eng /\ out' = out /\ mem' = mem
      /\ job' = job /\ passed' = passed /\ dones' = dones
  BY DEF vars, pipelineVars
<1>2. PipeShaped => PipeShaped'
  BY <1>1, Zenon DEF PipeShaped, Matrix, Grid
<1>3. (Legal(job)' <=> Legal(job)) /\ Elements' = Elements /\ Descriptor(job)' = Descriptor(job)
  BY <1>1, JobStays
<1>4. (EngineRests => EngineRests') /\ (EngineLatched => EngineLatched') /\ (Engaged => Engaged')
  BY <1>1, <1>3 DEF EngineRests, EngineLatched, Engaged, Given
<1>5. EngineLoads => EngineLoads'
  BY <1>1, <1>4 DEF EngineLoads, Stored
<1>6. BlockAt(job, eng)' = BlockAt(job, eng)
  BY <1>1, Zenon DEF BlockAt, Least
<1>7. /\ Streams(eng.m0) => Streams(eng.m0)'
      /\ Streams(job.m) => Streams(job.m)'
  BY <1>1, <1>3 DEF Streams
<1>8. AtTile => AtTile'
  <2>1. OperandsHeld => OperandsHeld'
    BY <1>1, Zenon DEF OperandsHeld, Holds
  <2>2. FinalTo(mem.c, job, eng.m0, eng.n0, BlockAt(job, eng).mLen)
          => FinalTo(mem.c, job, eng.m0, eng.n0, BlockAt(job, eng).mLen)'
    <3>1. FinalTo(mem.c, job, eng.m0, eng.n0, BlockAt(job, eng).mLen)
            => FinalTo(mem'.c, job', eng'.m0, eng'.n0, BlockAt(job, eng)'.mLen)
      BY <1>1, <1>6, Zenon
    <3>2. QED
      BY <3>1, Zenon DEF FinalTo, Element, Part, Terms
  <2>3. QED
    BY <1>1, <1>4, <1>7, <2>1, <2>2 DEF AtTile
<1>9. /\ ArrayHolds(job, BlockAt(job, eng), eng.feedK, arr) => ArrayHolds(job, BlockAt(job, eng), eng.feedK, arr)'
      /\ ArrayHolds(job, BlockAt(job, eng), job.k + eng.drain, arr)
           => ArrayHolds(job, BlockAt(job, eng), job.k + eng.drain, arr)'
      /\ ArrayHolds(job, BlockAt(job, eng), job.k + (2 * N - 1), arr)
           => ArrayHolds(job, BlockAt(job, eng), job.k + (2 * N - 1), arr)'
  <2>1. /\ ArrayHolds(job, BlockAt(job, eng), eng.feedK, arr)
             => ArrayHolds(job', BlockAt(job, eng)', eng'.feedK, arr')
        /\ ArrayHolds(job, BlockAt(job, eng), job.k + eng.drain, arr)
             => ArrayHolds(job', BlockAt(job, eng)', job'.k + eng'.drain, arr')
        /\ ArrayHolds(job, BlockAt(job, eng), job.k + (2 * N - 1), arr)
             => ArrayHolds(job', BlockAt(job, eng)', job'.k + (2 * N - 1), arr')
    BY <1>1, <1>6
  <2>2. QED
    BY <2>1, Zenon DEF ArrayHolds, LinesHold, SumsHold, West, North, Met, Part, Terms, Lanes, LineOf
<1>10. /\ EngineClears => EngineClears'
       /\ EngineFeeds => EngineFeeds'
       /\ EngineDrains => EngineDrains'
       /\ EngineCaptures => EngineCaptures'
  BY <1>1, <1>8, <1>9 DEF EngineClears, EngineFeeds, EngineDrains, EngineCaptures
<1>11. EngineFlushes => EngineFlushes'
  <2>1. AllFinal(mem.c, job) => AllFinal(mem.c, job)'
    BY <1>1, Zenon DEF AllFinal, Element, Part, Terms
  <2>2. QED
    BY <1>1, <1>4, <1>7, <2>1 DEF EngineFlushes
<1>12. PipeStage => PipeStage'
  BY <1>4, <1>5, <1>10, <1>11 DEF PipeStage
<1>13. QED
  BY <1>1, <1>2, <1>12 DEF PipeInv, Pipelined

LEMMA PipeInvInit == Init => PipeInv
<1> SUFFICES ASSUME Init
             PROVE  PipeShaped /\ PipeStage
  BY DEF PipeInv
<1>1. PipeShaped
  BY PipeShapedInit
<1>2. EngineRests
  BY DEF Init, EngineRests, Given, Taken, Ref!NoJob, ResetEngine
<1>3. QED
  BY <1>1, <1>2 DEF PipeStage

LEMMA PipeResult ==
  ASSUME Known, PipeInv, Pipelined
  PROVE  ResultRight
<1>1. PipeShaped /\ PipeStage
  BY DEF PipeInv
<1>2. Sound(job) /\ Elements = job.m * job.n
  BY SoundJob DEF Elements
<1>3. ASSUME Valid
      PROVE  passed < Elements /\ Data = Product(passed) /\ (Last <=> passed = Elements - 1)
  <2>1. COutValid
    BY <1>3 DEF Valid
  <2>2. eng.state \notin {"IDLE", "LOAD"} /\ out.row < out.rowsReady
    BY <2>1 DEF COutValid
  <2>3. AtTile \/ EngineFlushes
    BY <1>1, <2>2 DEF PipeStage, EngineRests, EngineLatched, EngineLoads, EngineClears, EngineFeeds,
       EngineDrains, EngineCaptures
  <2>4. /\ Engaged /\ passed \in 0 .. Elements - 1 /\ out.count = passed
        /\ out.row = passed \div job.n /\ out.col = passed % job.n
    BY <2>3 DEF AtTile, EngineFlushes, Streams
  <2> DEFINE i == passed
             rows == job.m
             cols == job.n
  <2>5. rows \in Nat \ {0} /\ cols \in Nat \ {0} /\ i \in 0 .. rows * cols - 1
    BY <1>2, <2>4 DEF Sound
  <2>6. i \div cols \in 0 .. rows - 1 /\ i % cols \in 0 .. cols - 1
    <3> HIDE DEF i, rows, cols
    <3>1. QED
      BY <2>5, RowInRange
  <2>7. Data = mem.c[<<i \div cols, i % cols>>]
    BY <2>4 DEF Data, COutData
  <2>8. Data = Product(i)
    <3> DEFINE r == i \div cols
               c == i % cols
    <3>1. r \in 0 .. job.m - 1 /\ c \in 0 .. job.n - 1
      BY <2>6
    <3>2. out.row = r
      BY <2>4
    <3> HIDE DEF r, c
    <3>3. mem.c[<<r, c>>] = Element(job, r, c)
      <4>1. CASE AtTile
        <5>1. r < eng.m0
          BY <2>2, <3>2, <4>1 DEF AtTile, Streams
        <5>2. QED
          BY <3>1, <4>1, <5>1, Zenon DEF AtTile, FinalTo
      <4>2. CASE EngineFlushes
        BY <3>1, <4>2, Zenon DEF EngineFlushes, AllFinal
      <4>3. QED
        BY <2>3, <4>1, <4>2
    <3>4. Product(i) = Element(job, r, c)
      BY ElementIs, Zenon DEF Product, r, c
    <3>5. QED
      BY <2>7, <3>3, <3>4 DEF r, c
  <2>9. Last <=> i = Elements - 1
    <3>1. CTotal = Elements
      BY <1>2, <2>4 DEF CTotal, Engaged
    <3>2. QED
      BY <2>1, <2>4, <3>1 DEF Last, COutLast
  <2>10. i < Elements
    <3> DEFINE e == Elements
    <3>1. e \in Nat /\ i \in 0 .. e - 1
      BY <2>4, JobTyped
    <3> HIDE DEF e
    <3>2. i < e
      BY <3>1
    <3>3. QED
      BY <3>2 DEF e
  <2>11. QED
    BY <2>8, <2>9, <2>10
<1>4. ASSUME Done
      PROVE  ~Busy
  <2>1. eng.done = TRUE
    BY <1>4 DEF Done
  <2>2. EngineRests
    BY <1>1, <2>1 DEF PipeStage, EngineLatched, EngineLoads, EngineClears, EngineFeeds, EngineDrains,
       EngineCaptures, EngineFlushes, AtTile, Engaged
  <2>3. QED
    BY <2>2 DEF EngineRests, Busy, EngineBusy
<1>5. ASSUME Over
      PROVE  /\ Given => (Errors <=> ~Legal(job))
             /\ passed = IF Given /\ Legal(job) THEN Elements ELSE 0
             /\ dones + Taken(Done) = IF Given /\ Legal(job) THEN 1 ELSE 0
  <2>1. eng.state = "IDLE" /\ startQ.q # TRUE
    BY <1>5 DEF Over, Busy, EngineBusy
  <2>2. EngineRests
    BY <1>1, <2>1 DEF PipeStage, EngineLatched, EngineLoads, EngineClears, EngineFeeds, EngineDrains,
       EngineCaptures, EngineFlushes
  <2>3. Errors <=> eng.error = TRUE
    BY <1>1 DEF Errors, PipeShaped
  <2>4. Taken(Done) = Taken(eng.done)
    BY DEF Done
  <2>5. QED
    BY <2>2, <2>3, <2>4 DEF EngineRests
<1>6. QED
  BY <1>3, <1>4, <1>5 DEF ResultRight

(* The pipelined path keeps its contract too: each element it streams is     *)
(* cpu_gemm()'s, in order and the last one marked, though it streams the     *)
(* first rows while the array still computes the ones below them, into the   *)
(* same memory.                                                              *)
THEOREM PipelinedResult == Spec => [](path = "pipelined" => ResultRight)
<1>1. Init => Known /\ PipeInv
  BY KnownInit, PipeInvInit
<1>2. Known /\ PipeInv /\ [Next]_vars => Known' /\ PipeInv'
  <2> SUFFICES ASSUME Known, PipeInv, [Next]_vars
               PROVE  PipeInv'
    BY KnownStep
  <2>1. path' = path
    BY DEF Next, Start, Cycle, Clock, vars
  <2>2. CASE ~Pipelined
    BY <2>1, <2>2 DEF PipeInv, Pipelined
  <2>3. CASE Pipelined
    <3>1. CASE Start
      BY <2>3, <3>1, PipeStarts DEF PipeInv
    <3>2. CASE \E a, b, sink \in BOOLEAN : Cycle(a, b, sink)
      BY <2>3, <3>2, PipeGoesOn DEF PipeInv
    <3>3. CASE UNCHANGED vars
      BY <3>3, PipeRests
    <3>4. QED
      BY <3>1, <3>2, <3>3 DEF Next
  <2>4. QED
    BY <2>2, <2>3
<1>3. Known /\ PipeInv => (path = "pipelined" => ResultRight)
  BY PipeResult DEF Pipelined
<1>4. QED
  BY <1>1, <1>2, <1>3, PTL DEF Spec

(* So every element either path lets go, of every job it is given, is the    *)
(* right one in the right place.                                             *)
THEOREM ResultIsRight == Spec => []ResultRight
<1>1. Init => Known
  BY KnownInit
<1>2. Known /\ [Next]_vars => Known'
  BY KnownStep
<1>3. Known /\ (path = "reference" => ResultRight) /\ (path = "pipelined" => ResultRight) => ResultRight
  BY DEF Known, Paths
<1>4. QED
  BY <1>1, <1>2, <1>3, ReferenceResult, PipelinedResult, PTL DEF Spec

(* And as long as no biased element leaves 32 bits, the words of an INT8 job *)
(* are those of epilogue(), in order, each element once, for either path and *)
(* every stall of the sink.                                                  *)
THEOREM WordsAreExact == Spec /\ []SumsFit => []WordsExact
<1>1. Init => Known /\ Packing
  BY KnownInit, PackingInit
<1>2. Known /\ Packing /\ ResultRight /\ SumsFit /\ [Next]_vars => Known' /\ Packing'
  <2> SUFFICES ASSUME Known, Packing, ResultRight, SumsFit, [Next]_vars
               PROVE  Packing'
    BY KnownStep
  <2>1. CASE Start
    BY <2>1, PackingStarts
  <2>2. CASE \E a, b, sink \in BOOLEAN : Cycle(a, b, sink)
    BY <2>2, PackingGoesOn
  <2>3. CASE UNCHANGED vars
    BY <2>3, PackingRests
  <2>4. QED
    BY <2>1, <2>2, <2>3 DEF Next
<1>3. Known /\ Packing /\ ResultRight => WordsExact
  BY PackingWords
<1>4. QED
  BY <1>1, <1>2, <1>3, ResultIsRight, PTL DEF Spec
=============================================================================
