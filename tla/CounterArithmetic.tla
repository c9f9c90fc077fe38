------------------------- MODULE CounterArithmetic -------------------------
(***************************************************************************)
(* Arithmetic of a counter that wraps modulo C, for every C: what the 32-bit *)
(* accessCount of the keystore computes.                                     *)
(***************************************************************************)
EXTENDS Integers, TLAPS

\* A product grows by at least C from one factor to a larger one.
LEMMA Times ==
    ASSUME NEW C \in Nat \ {0}, NEW p \in Int, NEW q \in Int, p < q
    PROVE  C * p + C =< C * q
<1>1. C * q = C * p + C * (q - p)
  OBVIOUS
<1>2. \A d \in Nat \ {0} : C * d >= C
  OBVIOUS
<1>3. q - p \in Nat \ {0}
  OBVIOUS
<1>4. C * (q - p) >= C
  BY <1>2, <1>3
<1>5. C * p \in Int /\ C * q \in Int /\ C * (q-p) \in Int
  OBVIOUS
<1>6. QED
  BY <1>1, <1>4, <1>5

\* The remainder of a division by C is unique.
LEMMA UniqueRemainder ==
    ASSUME NEW C \in Nat \ {0}, NEW p \in Int, NEW q \in Int,
           NEW a \in 0 .. C - 1, NEW b \in 0 .. C - 1,
           C * p + a = C * q + b
    PROVE  a = b
<1>0. C * p \in Int /\ C * q \in Int
  OBVIOUS
<1>1. CASE p < q
  <2>1. C * p + C =< C * q
    BY <1>1, Times
  <2>2. QED
    BY <1>0, <2>1
<1>2. CASE q < p
  <2>1. C * q + C =< C * p
    BY <1>2, Times
  <2>2. QED
    BY <1>0, <2>1
<1>3. CASE p = q
  BY <1>0, <1>3
<1>4. QED
  BY <1>1, <1>2, <1>3

\* The division theorem for the built-in operators.
LEMMA Division ==
    ASSUME NEW C \in Nat \ {0}, NEW n \in Nat
    PROVE  n = C * (n \div C) + (n % C) /\ n % C \in 0 .. C - 1 /\ n \div C \in Nat
OBVIOUS

\* Any decomposition with a small enough rest determines the remainder.
LEMMA RemainderIs ==
    ASSUME NEW C \in Nat \ {0}, NEW n \in Nat, NEW q \in Int,
           NEW a \in 0 .. C - 1, n = C * q + a
    PROVE  n % C = a
<1> DEFINE p == n \div C
           b == n % C
<1>1. n = C * p + b /\ b \in 0 .. C - 1 /\ p \in Nat
  BY Division
<1> HIDE DEF p, b
<1>2. C * p + b = C * q + a
  BY <1>1
<1>3. b = a
  BY <1>1, <1>2, UniqueRemainder
<1>4. QED
  BY <1>3 DEF b

\* Incrementing a wrapped counter is wrapping the incremented count.
LEMMA CountStep ==
    ASSUME NEW C \in Nat \ {0}, NEW r \in Nat
    PROVE  ((r % C) + 1) % C = (r + 1) % C
<1> DEFINE q == r \div C
           m == r % C
<1>1. r = C * q + m /\ m \in 0 .. C - 1 /\ q \in Nat
  BY Division
<1> HIDE DEF q, m
<1>2. r + 1 \in Nat /\ m + 1 \in Nat /\ C * q \in Int
  BY <1>1
<1>3. CASE m + 1 < C
  <2>1. m + 1 \in 0 .. C - 1 /\ r + 1 = C * q + (m + 1) /\ m + 1 = C * 0 + (m + 1)
    BY <1>1, <1>2, <1>3
  <2>2. (r + 1) % C = m + 1
    BY <1>1, <1>2, <2>1, RemainderIs
  <2>3. (m + 1) % C = m + 1
    BY <1>2, <2>1, RemainderIs
  <2>4. QED
    BY <2>2, <2>3 DEF m
<1>4. CASE m + 1 = C
  <2>1. 0 \in 0 .. C - 1 /\ q + 1 \in Int
    BY <1>1
  <2>2. C * (q + 1) = C * q + C
    BY <1>1
  <2>3. r + 1 = C * (q + 1) + 0 /\ m + 1 = C * 1 + 0
    BY <1>1, <1>2, <1>4, <2>2
  <2>4. (r + 1) % C = 0
    BY <1>2, <2>1, <2>3, RemainderIs
  <2>5. (m + 1) % C = 0
    BY <1>2, <2>1, <2>3, RemainderIs
  <2>6. QED
    BY <2>4, <2>5 DEF m
<1>5. QED
  BY <1>1, <1>3, <1>4
=============================================================================
