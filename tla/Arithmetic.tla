----------------------------- MODULE Arithmetic ----------------------------
(***************************************************************************)
(* What the provers need of % and \div with a divisor that is not a        *)
(* literal, and of sums.  The movers add burst lengths to an address       *)
(* modulo the size of the bus; an element of a matrix is found in a vector *)
(* of packed words; an element of a product is a sum over the reduction.   *)
(***************************************************************************)
EXTENDS FiniteSetTheorems, TLAPS

(* A positive multiple of W is at least W. *)
LEMMA MultipleAtLeast ==
  ASSUME NEW W \in Nat \ {0}, NEW k \in Int, k >= 1
  PROVE  W * k >= W
  BY Z3

(* A remainder is determined by any decomposition into quotient and rest. *)
LEMMA RemainderUnique ==
  ASSUME NEW W \in Nat \ {0}, NEW k \in Int, NEW r \in 0 .. W - 1
  PROVE  (W * k + r) % W = r
<1> DEFINE x == W * k + r
           q == x \div W
           m == x % W
<1>1. q \in Int /\ m \in 0 .. W - 1 /\ x = W * q + m
  BY Z3
<1> HIDE DEF q, m
<1>2. W * (k - q) = m - r
  BY <1>1, Z3
<1> HIDE DEF x
<1>3. k = q
  <2>1. CASE k - q >= 1
    BY <2>1, <1>1, <1>2, MultipleAtLeast
  <2>2. CASE q - k >= 1
    <3>1. W * (q - k) = r - m
      BY <1>1, <1>2, Z3
    <3>2. QED
      BY <2>2, <3>1, <1>1, MultipleAtLeast
  <2>3. QED
    BY <2>1, <2>2, <1>1
<1>4. m = r
  BY <1>1, <1>2, <1>3
<1>5. QED
  BY <1>4 DEF m, x

(* Wrapping before adding changes nothing once the sum is wrapped. *)
LEMMA ModuloAdd ==
  ASSUME NEW W \in Nat \ {0}, NEW a \in Nat, NEW b \in Nat
  PROVE  ((a % W) + b) % W = (a + b) % W
<1> DEFINE q  == a \div W
           m  == a % W
           q2 == (m + b) \div W
           m2 == (m + b) % W
<1>1. q \in Int /\ m \in 0 .. W - 1 /\ a = W * q + m
  BY Z3
<1> HIDE DEF q, m
<1>2. q2 \in Int /\ m2 \in 0 .. W - 1 /\ m + b = W * q2 + m2
  BY <1>1, Z3
<1> HIDE DEF q2, m2
<1>3. a + b = W * (q + q2) + m2
  BY <1>1, <1>2, Z3
<1>4. q + q2 \in Int
  BY <1>1, <1>2
<1>5. (W * (q + q2) + m2) % W = m2
  BY <1>2, <1>4, RemainderUnique
<1>6. QED
  BY <1>3, <1>5 DEF m2, m

(* A remainder is smaller than its divisor. *)
LEMMA ModuloRange ==
  ASSUME NEW W \in Nat \ {0}, NEW a \in Nat
  PROVE  a % W \in 0 .. W - 1
  BY Z3

(* The same of a dividend of either sign. *)
LEMMA ModuloRangeInt ==
  ASSUME NEW W \in Nat \ {0}, NEW a \in Int
  PROVE  a % W \in 0 .. W - 1
  BY Z3

(* What is already in range is its own remainder. *)
LEMMA ModuloSmall ==
  ASSUME NEW W \in Nat \ {0}, NEW a \in 0 .. W - 1
  PROVE  a % W = a
  BY Z3

(* The quotient, likewise. *)
LEMMA QuotientUnique ==
  ASSUME NEW W \in Nat \ {0}, NEW k \in Int, NEW r \in 0 .. W - 1
  PROVE  (W * k + r) \div W = k
<1> DEFINE x == W * k + r
           q == x \div W
           m == x % W
<1>1. q \in Int /\ m \in 0 .. W - 1 /\ x = W * q + m
  BY Z3
<1>2. m = r
  BY RemainderUnique
<1> HIDE DEF q, m
<1>3. W * (k - q) = 0
  BY <1>1, <1>2, Z3
<1>4. k - q < 1 /\ q - k < 1
  <2>1. ASSUME k - q >= 1 PROVE FALSE
    BY <2>1, <1>1, <1>3, MultipleAtLeast
  <2>2. ASSUME q - k >= 1 PROVE FALSE
    <3>1. W * (q - k) = 0
      BY <1>1, <1>3, Z3
    <3>2. QED
      BY <2>2, <3>1, <1>1, MultipleAtLeast
  <2>3. QED
    BY <2>1, <2>2, <1>1
<1>5. k = q
  BY <1>1, <1>4
<1>6. QED
  BY <1>5 DEF q, x

(* Quotient and remainder make up the number. *)
LEMMA Division ==
  ASSUME NEW W \in Nat \ {0}, NEW a \in Nat
  PROVE  a \div W \in Nat /\ a % W \in 0 .. W - 1 /\ a = W * (a \div W) + (a % W)
  BY Z3

(* Row k of a matrix of rows of W lies inside any M > k rows. *)
LEMMA CellInRange ==
  ASSUME NEW W \in Nat, NEW M \in Nat, NEW k \in 0 .. M - 1, NEW r \in 0 .. W - 1
  PROVE  k * W + r \in 0 .. M * W - 1
<1>1. (k + 1) * W <= M * W
  BY Z3
<1>2. (k + 1) * W = k * W + W /\ k * W \in Nat /\ M * W \in Nat
  BY Z3
<1>3. QED
  BY <1>1, <1>2

(* And a place inside M rows is in one of them. *)
LEMMA RowInRange ==
  ASSUME NEW W \in Nat \ {0}, NEW M \in Nat, NEW i \in 0 .. M * W - 1
  PROVE  i \div W \in 0 .. M - 1 /\ i % W \in 0 .. W - 1
<1>0. M * W \in Nat
  BY Z3
<1>1. i \in Nat /\ i < M * W
  BY <1>0
<1>2. i \div W \in Nat /\ i % W \in 0 .. W - 1 /\ i = W * (i \div W) + (i % W)
  BY <1>1, Division
<1> DEFINE q == i \div W
<1> HIDE DEF q
<1>3. ASSUME q \in Nat, q >= M PROVE W * q >= M * W
  BY <1>3, Z3
<1>4. q \in Nat /\ W * q <= i
  <2>1. W * (i \div W) \in Nat
    BY <1>2, Z3
  <2>2. QED
    BY <1>1, <1>2, <2>1 DEF q
<1>5. W * q \in Nat
  BY <1>4, Z3
<1>6. q < M
  BY <1>0, <1>1, <1>3, <1>4, <1>5
<1>7. QED
  BY <1>2, <1>4, <1>6 DEF q

(* Induction, as a statement about a set: a set that holds 0 and the       *)
(* successor of each of its members holds every number.  Were x missing,   *)
(* the successor would map the members below x one to one into those but 0.*)
LEMMA Induction ==
  ASSUME NEW S \in SUBSET Nat, 0 \in S, \A n \in S : n + 1 \in S
  PROVE  S = Nat
<1> SUFFICES ASSUME NEW x \in Nat, x \notin S
             PROVE  FALSE
  OBVIOUS
<1> DEFINE T == {n \in S : n < x}
           f == [n \in T |-> n + 1]
<1>1. 0 \in T /\ \A n \in T : n + 1 \in T \ {0}
  OBVIOUS
<1>2. IsFiniteSet(T)
  BY FS_BoundedSetOfNaturals
<1>3. IsFiniteSet(T \ {0}) /\ Cardinality(T \ {0}) = Cardinality(T) - 1
  <2> HIDE DEF T
  <2>1. QED
    BY <1>1, <1>2, FS_RemoveElement, Zenon
<1>4. Cardinality(T) \in Nat
  BY <1>2, FS_CardinalityType
<1>5. \A n \in T : n \in Nat
  OBVIOUS
<1> HIDE DEF T
<1>6. f \in [T -> T \ {0}]
  BY <1>1
<1>7. \A m, n \in T : f[m] = f[n] => m = n
  BY <1>5
<1> HIDE DEF f
<1>8. Cardinality(T \ {0}) < Cardinality(T)
  BY <1>3, <1>4
<1>9. \E m, n \in T : m # n /\ f[m] = f[n]
  BY <1>2, <1>3, <1>6, <1>8, FS_PigeonHole, Zenon
<1>10. QED
  BY <1>7, <1>9

(* The partial sums of t up to n terms, as a recursive definition of them   *)
(* reads once unfolded.                                                     *)
IsPartialSums(s, t, n) == s = [i \in 0 .. n |-> IF i = 0 THEN 0 ELSE s[i - 1] + t[i - 1]]
PartialSums(t, n) == CHOOSE s : IsPartialSums(s, t, n)

LEMMA PartialSumsExist ==
  ASSUME NEW t, NEW n \in Nat
  PROVE  IsPartialSums(PartialSums(t, n), t, n)
<1> DEFINE S == {m \in Nat : \E s : IsPartialSums(s, t, m)}
<1>1. 0 \in S
  <2>1. IsPartialSums([i \in 0 .. 0 |-> 0], t, 0)
    BY DEF IsPartialSums
  <2>2. QED
    BY <2>1
<1>2. ASSUME NEW m \in S
      PROVE  m + 1 \in S
  <2>1. PICK s : IsPartialSums(s, t, m)
    OBVIOUS
  <2> DEFINE r == [i \in 0 .. m + 1 |-> IF i = m + 1 THEN s[m] + t[m] ELSE s[i]]
  <2>2. ASSUME NEW i \in 0 .. m + 1
        PROVE  r[i] = IF i = 0 THEN 0 ELSE r[i - 1] + t[i - 1]
    <3>1. CASE i = m + 1
      BY <3>1
    <3>2. CASE i \in 0 .. m
      <4>1. s[i] = IF i = 0 THEN 0 ELSE s[i - 1] + t[i - 1]
        BY <2>1, <3>2 DEF IsPartialSums
      <4>2. QED
        BY <3>2, <4>1
    <3>3. QED
      BY <3>1, <3>2
  <2>3. IsPartialSums(r, t, m + 1)
    BY <2>2 DEF IsPartialSums
  <2>4. m + 1 \in Nat
    OBVIOUS
  <2>5. QED
    <3> HIDE DEF r
    <3>1. QED
      BY <2>3, <2>4
<1>3. S = Nat
  <2> HIDE DEF S
  <2>1. S \in SUBSET Nat
    BY DEF S
  <2>2. QED
    BY <1>1, <1>2, <2>1, Induction
<1>4. \E s : IsPartialSums(s, t, n)
  BY <1>3
<1>5. QED
  BY <1>4 DEF PartialSums

(* They do not depend on how many more follow. *)
LEMMA PartialSumsAgree ==
  ASSUME NEW t, NEW n \in Nat, NEW m \in Nat, n <= m
  PROVE  \A i \in 0 .. n : PartialSums(t, n)[i] = PartialSums(t, m)[i]
<1> DEFINE s == PartialSums(t, n)
           r == PartialSums(t, m)
           S == {i \in Nat : i <= n => s[i] = r[i]}
<1>1. /\ s = [i \in 0 .. n |-> IF i = 0 THEN 0 ELSE s[i - 1] + t[i - 1]]
      /\ r = [i \in 0 .. m |-> IF i = 0 THEN 0 ELSE r[i - 1] + t[i - 1]]
  BY PartialSumsExist DEF IsPartialSums
<1> HIDE DEF s, r
<1>2. /\ \A i \in 0 .. n : s[i] = IF i = 0 THEN 0 ELSE s[i - 1] + t[i - 1]
      /\ \A i \in 0 .. n : r[i] = IF i = 0 THEN 0 ELSE r[i - 1] + t[i - 1]
  BY <1>1
<1>3. 0 \in S
  BY <1>2
<1>4. \A i \in S : i + 1 \in S
  BY <1>2
<1>5. S = Nat
  <2> HIDE DEF S
  <2>1. S \in SUBSET Nat
    BY DEF S
  <2>2. QED
    BY <1>3, <1>4, <2>1, Induction
<1>6. QED
  BY <1>5 DEF s, r

(* The sum of no terms, and of one more. *)
LEMMA PartialSumsStep ==
  ASSUME NEW t, NEW n \in Nat
  PROVE  /\ PartialSums(t, 0)[0] = 0
         /\ PartialSums(t, n + 1)[n + 1] = PartialSums(t, n)[n] + t[n]
<1>1. PartialSums(t, n + 1)[n] = PartialSums(t, n)[n]
  BY PartialSumsAgree
<1>2. PartialSums(t, n + 1)[n + 1] = PartialSums(t, n + 1)[n] + t[n]
  <2> DEFINE s == PartialSums(t, n + 1)
  <2>1. s = [i \in 0 .. n + 1 |-> IF i = 0 THEN 0 ELSE s[i - 1] + t[i - 1]]
    BY PartialSumsExist DEF IsPartialSums
  <2> HIDE DEF s
  <2>2. s[n + 1] = IF n + 1 = 0 THEN 0 ELSE s[n + 1 - 1] + t[n + 1 - 1]
    BY <2>1
  <2>3. QED
    BY <2>2 DEF s
<1>3. PartialSums(t, 0)[0] = 0
  <2> DEFINE s == PartialSums(t, 0)
  <2>1. s = [i \in 0 .. 0 |-> IF i = 0 THEN 0 ELSE s[i - 1] + t[i - 1]]
    BY PartialSumsExist DEF IsPartialSums
  <2> HIDE DEF s
  <2>2. s[0] = 0
    BY <2>1
  <2>3. QED
    BY <2>2 DEF s
<1>4. QED
  BY <1>1, <1>2, <1>3

(* The sum of integers is one. *)
LEMMA PartialSumsType ==
  ASSUME NEW t, NEW n \in Nat, \A i \in 0 .. n - 1 : t[i] \in Int
  PROVE  PartialSums(t, n)[n] \in Int
<1> DEFINE S == {i \in Nat : i <= n => PartialSums(t, i)[i] \in Int}
<1>1. 0 \in S
  BY PartialSumsStep
<1>2. ASSUME NEW i \in S
      PROVE  i + 1 \in S
  <2>1. PartialSums(t, i + 1)[i + 1] = PartialSums(t, i)[i] + t[i]
    BY PartialSumsStep
  <2>2. QED
    BY <2>1
<1>3. S = Nat
  <2> HIDE DEF S
  <2>1. S \in SUBSET Nat
    BY DEF S
  <2>2. QED
    BY <1>1, <1>2, <2>1, Induction
<1>4. QED
  BY <1>3
=============================================================================
