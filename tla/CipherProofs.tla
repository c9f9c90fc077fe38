---------------------------- MODULE CipherProofs ----------------------------
(***************************************************************************)
(* Proofs about CipherLoop, for every size of memory, every alphabet and     *)
(* every mask that is its own inverse.                                      *)
(*                                                                          *)
(* The loop invariant: after i rounds the first i bytes of the output are    *)
(* what is expected of them, and every other byte is what it was.  That the    *)
(* next byte is the expected one is plain unless the loop overtakes itself:   *)
(* then the byte it reads is one it wrote out - in rounds ago, which the        *)
(* invariant describes, and the two lemmas on division carry over.           *)
(***************************************************************************)
EXTENDS CipherLoop, CounterArithmetic, TLAPS

Expected(j) ==
    IF Overtakes
      THEN Flipped((j \div (out - in)) + 1, original[in + (j % (out - in))])
      ELSE Masked[original[in + j]]

Written ==
    /\ \A j \in 0 .. i - 1 : memory[out + j] = Expected(j)
    /\ \A a \in Address \ (out .. out + i - 1) : memory[a] = original[a]

\* The memory when no call was running, or the last one began.
Settled == IF pc \in {"encrypt", "decrypt"} THEN original ELSE memory

PlainIsMasked ==
    \A j \in DOMAIN plain.bytes :
        /\ j \in Nat /\ plain.at \in Nat /\ plain.at + j \in Address
        /\ plain.bytes[j] \in Byte
        /\ Settled[plain.at + j] = Masked[plain.bytes[j]]

CInv == TypeOK /\ Written /\ PlainIsMasked /\ (pc = "return" => i = n)

-----------------------------------------------------------------------------
\* Division of a number smaller than the divisor.
LEMMA SmallDivision ==
    ASSUME NEW d \in Nat \ {0}, NEW k \in Nat, k < d
    PROVE  k \div d = 0 /\ k % d = k
<1> DEFINE p == k \div d
<1>1. k % d = k
  BY RemainderIs, k = d * 0 + k
<1>2. k = d * p + (k % d) /\ p \in Nat
  BY Division
<1> HIDE DEF p
<1>3. ~ (0 < p)
  <2>1. SUFFICES ASSUME 0 < p PROVE FALSE
    OBVIOUS
  <2>2. d * 0 + d =< d * p
    BY <1>2, <2>1, Times
  <2>3. d * p \in Int /\ d * 0 = 0
    BY <1>2
  <2>4. QED
    BY <1>1, <1>2, <2>2, <2>3
<1>4. QED
  BY <1>1, <1>2, <1>3 DEF p

\* Taking the divisor away lowers the quotient by one and keeps the remainder.
LEMMA DivisionStep ==
    ASSUME NEW d \in Nat \ {0}, NEW k \in Nat, d =< k
    PROVE  k \div d = ((k - d) \div d) + 1 /\ (k - d) % d = k % d
<1> DEFINE p == k \div d
           q == (k - d) \div d
           r == k % d
<1>1. k = d * p + r /\ r \in 0 .. d - 1 /\ p \in Nat
  BY Division
<1>0. k - d \in Nat
  OBVIOUS
<1>2. k - d = d * q + ((k - d) % d) /\ (k - d) % d \in 0 .. d - 1 /\ q \in Nat
  BY <1>0, Division
<1> HIDE DEF p, q, r
<1>3. d * (p - 1) = d * p - d /\ d * p \in Int /\ d * q \in Int
  BY <1>1, <1>2
<1>4. (k - d) % d = r
  <2>1. k - d = d * (p - 1) + r /\ p - 1 \in Int
    BY <1>1, <1>3
  <2>2. QED
    BY <1>0, <1>1, <2>1, RemainderIs
<1>5. d * q = d * (p - 1)
  BY <1>1, <1>2, <1>3, <1>4
<1>6. ~ (q < p - 1)
  BY <1>1, <1>2, <1>3, <1>5, Times
<1>7. ~ (p - 1 < q)
  BY <1>1, <1>2, <1>3, <1>5, Times
<1>8. QED
  BY <1>1, <1>2, <1>4, <1>6, <1>7 DEF p, q, r

\* The mask once more.
LEMMA FlippedAgain ==
    ASSUME NEW b \in Byte, NEW k \in Nat
    PROVE  /\ Flipped(1, b) = Masked[b]
           /\ Masked[Flipped(k, b)] = Flipped(k + 1, b)
<1>1. k % 2 = 0 \/ k % 2 = 1
  OBVIOUS
<1>2. k % 2 = 0 <=> (k + 1) % 2 = 1
  OBVIOUS
<1>3. k % 2 = 1 <=> (k + 1) % 2 = 0
  OBVIOUS
<1>4. Masked[Masked[b]] = b
  BY CipherAssumption
<1>5. QED
  BY <1>1, <1>2, <1>3, <1>4 DEF Flipped

-----------------------------------------------------------------------------
LEMMA InitCInv == Init => CInv
BY CipherAssumption DEF Init, CInv, TypeOK, Written, PlainIsMasked, Nothing, StatusCode

\* A window that is shorter fits where a longer one does.
LEMMA Fits ==
    ASSUME NEW m \in Nat, NEW a \in Nat, NEW s \in Nat, NEW k \in Nat,
           k <= s, a + s <= m
    PROVE  a + k <= m
OBVIOUS

LEMMA BeginCInv ==
    ASSUME CInv, NEW direction \in {"encrypt", "decrypt"}, Begin(direction)
    PROVE  CInv'
<1>0. MemorySize \in Nat
  BY CipherAssumption
<1>1. PICK inputSize \in Size, outputSize \in Size :
        /\ in' + inputSize <= MemorySize /\ out' + outputSize <= MemorySize
        /\ \/ pc' = "return" /\ n' = 0 /\ status' \in StatusCode
           \/ /\ inputSize <= outputSize /\ n' = inputSize
              /\ pc' = direction /\ UNCHANGED status
  BY <1>0 DEF Begin, BadBuffers, Size, StatusCode
<1>2. in' \in Nat /\ out' \in Nat /\ n' \in Nat /\ i' = 0
  BY <1>0, <1>1 DEF Begin, Start, Size
<1>3. in' + n' <= MemorySize /\ out' + n' <= MemorySize
  <2>1. inputSize \in Nat /\ outputSize \in Nat
    BY <1>0 DEF Size
  <2>2. n' <= inputSize /\ n' <= outputSize
    BY <1>1, <2>1
  <2>3. QED
    BY <1>0, <1>1, <1>2, <2>1, <2>2, Fits
<1>4. TypeOK' /\ (pc' = "return" => i' = n')
  <2>1. memory' = memory /\ original' = memory
    BY DEF Begin
  <2>2. status' \in StatusCode /\ pc' \in {"encrypt", "decrypt", "return"}
    BY <1>1 DEF CInv, TypeOK
  <2>3. pc' = "return" => n' = 0
    BY <1>1
  <2>4. QED
    BY <1>2, <1>3, <2>1, <2>2, <2>3 DEF CInv, TypeOK
<1>5. Written'
  BY <1>2 DEF Begin, Written
<1>6. Settled' = Settled /\ UNCHANGED plain
  BY DEF CInv, TypeOK, Begin, Settled
<1>7. PlainIsMasked'
  BY <1>6 DEF CInv, PlainIsMasked, Address
<1>8. QED
  BY <1>4, <1>5, <1>7 DEF CInv

\* The byte that a round reads, masked, is the byte expected in its place.
LEMMA NextByte ==
    ASSUME CInv, pc \in {"encrypt", "decrypt"}, i < n
    PROVE  Masked[memory[in + i]] = Expected(i)
<1>0. /\ MemorySize \in Nat /\ in \in Nat /\ out \in Nat /\ n \in Nat /\ i \in Nat
      /\ in + n <= MemorySize /\ out + n <= MemorySize
      /\ in + i \in Address /\ out + i \in Address
  BY CipherAssumption DEF CInv, TypeOK, Address
<1>1. \A a \in Address : original[a] \in Byte
  BY DEF CInv, TypeOK
<1>2. CASE ~Overtakes
  <2>1. in + i \notin out .. out + i - 1
    BY <1>0, <1>2 DEF Overtakes
  <2>2. memory[in + i] = original[in + i]
    BY <1>0, <2>1 DEF CInv, Written
  <2>3. QED
    BY <1>2, <2>2 DEF Expected
<1>3. CASE Overtakes
  <2> DEFINE d == out - in
  <2>1. d \in Nat \ {0} /\ in + d = out
    BY <1>0, <1>3 DEF Overtakes
  <2>2. \A k \in Nat : Expected(k) = Flipped((k \div d) + 1, original[in + (k % d)])
    BY <1>3 DEF Expected
  <2> HIDE DEF d
  <2>3. i % d \in Nat /\ i % d =< i /\ i \div d \in Nat
    <3>1. CASE i < d
      BY <1>0, <2>1, <3>1, SmallDivision
    <3>2. CASE d =< i
      <4>1. i % d \in 0 .. d - 1 /\ i \div d \in Nat
        BY <1>0, <2>1, Division
      <4>2. QED
        BY <1>0, <2>1, <3>2, <4>1
    <3>3. QED
      BY <1>0, <2>1, <3>1, <3>2
  <2>4. original[in + (i % d)] \in Byte
    <3>1. in + (i % d) \in Address
      BY <1>0, <2>3 DEF Address
    <3>2. QED
      BY <1>1, <3>1
  <2>5. CASE i < d
    <3>1. memory[in + i] = original[in + i]
      <4>1. in + i \notin out .. out + i - 1
        BY <1>0, <2>1, <2>5
      <4>2. QED
        BY <1>0, <4>1 DEF CInv, Written
    <3>2. i \div d = 0 /\ i % d = i
      BY <1>0, <2>1, <2>5, SmallDivision
    <3>3. Expected(i) = Flipped(1, original[in + i])
      BY <1>0, <2>2, <3>2
    <3>4. QED
      BY <2>4, <3>1, <3>2, <3>3, FlippedAgain
  <2>6. CASE d =< i
    <3>1. i - d \in 0 .. i - 1 /\ i - d \in Nat /\ in + i = out + (i - d)
      BY <1>0, <2>1, <2>6
    <3>2. memory[in + i] = Expected(i - d)
      BY <3>1 DEF CInv, Written
    <3>3. /\ i \div d = ((i - d) \div d) + 1
          /\ (i - d) % d = i % d
      BY <1>0, <2>1, <2>6, DivisionStep
    <3>4. memory[in + i] = Flipped(i \div d, original[in + (i % d)])
      BY <2>2, <3>1, <3>2, <3>3
    <3>5. QED
      BY <1>0, <2>2, <2>3, <2>4, <3>4, FlippedAgain
  <2>7. QED
    BY <1>0, <2>1, <2>5, <2>6
<1>4. QED
  BY <1>2, <1>3

LEMMA RoundCInv ==
    ASSUME CInv, NEW direction \in {"encrypt", "decrypt"}, TransformByte(direction)
    PROVE  CInv'
<1>0. /\ MemorySize \in Nat /\ in \in Nat /\ out \in Nat /\ n \in Nat /\ i \in Nat
      /\ in + n <= MemorySize /\ out + n <= MemorySize /\ i < n
      /\ in + i \in Address /\ out + i \in Address
      /\ memory \in [Address -> Byte] /\ pc = direction
  BY CipherAssumption DEF CInv, TypeOK, Address, TransformByte, Round
<1>1. /\ memory' = [memory EXCEPT ![out + i] = Expected(i)]
      /\ Expected(i) \in Byte
      /\ i' = i + 1
      /\ UNCHANGED <<pc, status, in, out, n, original, plain>>
  BY <1>0, NextByte, CipherAssumption DEF CInv, TransformByte, Round, windows
<1>2. memory' \in [Address -> Byte]
  BY <1>0, <1>1
<1>3. TypeOK'
  BY <1>0, <1>1, <1>2 DEF CInv, TypeOK
<1>4. \A j \in Nat : Expected(j)' = Expected(j)
  BY <1>1 DEF Expected, Overtakes
<1>5. \A a \in Address : memory'[a] = IF a = out + i THEN Expected(i) ELSE memory[a]
  BY <1>0, <1>1
<1>6. \A j \in 0 .. i' - 1 : memory'[out + j] = Expected(j)
  <2>1. SUFFICES ASSUME NEW j \in 0 .. i PROVE memory'[out + j] = Expected(j)
    BY <1>0, <1>1
  <2>2. out + j \in Address /\ (out + j = out + i <=> j = i)
    BY <1>0 DEF Address
  <2>3. j # i => memory[out + j] = Expected(j)
    BY <1>0 DEF CInv, Written
  <2>4. QED
    BY <1>5, <2>2, <2>3
<1>7. \A a \in Address \ (out .. out + i' - 1) : memory'[a] = original[a]
  <2>1. SUFFICES ASSUME NEW a \in Address, a \notin out .. out + i
                 PROVE  memory'[a] = original[a]
    BY <1>0, <1>1
  <2>2. a # out + i /\ a \notin out .. out + i - 1
    BY <1>0, <2>1 DEF Address
  <2>3. QED
    BY <1>5, <2>2 DEF CInv, Written
<1>8. Written'
  BY <1>0, <1>1, <1>4, <1>6, <1>7 DEF Written
<1>9. Settled' = Settled /\ UNCHANGED plain
  BY <1>0, <1>1 DEF Settled
<1>10. PlainIsMasked' /\ pc' # "return"
  BY <1>0, <1>1, <1>9 DEF CInv, PlainIsMasked, Address
<1>11. QED
  BY <1>3, <1>8, <1>10 DEF CInv

LEMMA ReturnCInv ==
    ASSUME CInv, Return
    PROVE  CInv'
<1>0. /\ MemorySize \in Nat /\ in \in Nat /\ out \in Nat /\ n \in Nat /\ i = n
      /\ in + n <= MemorySize /\ out + n <= MemorySize
      /\ original \in [Address -> Byte]
  BY CipherAssumption DEF CInv, TypeOK, Return
<1>1. TypeOK' /\ (pc' = "return" => i' = n')
  BY <1>0 DEF CInv, TypeOK, Return, windows, StatusCode
<1>2. Written'
  BY DEF CInv, Written, Expected, Overtakes, Return, windows
<1>3. ASSUME pc = "encrypt", ~Overtakes PROVE PlainIsMasked'
  <2>1. /\ plain' = [at |-> out, bytes |-> [j \in 0 .. n - 1 |-> original[in + j]]]
        /\ Settled' = memory
    BY <1>3 DEF Return, Settled
  <2> DEFINE text == [j \in 0 .. n - 1 |-> original[in + j]]
  <2>a. plain'.at = out /\ plain'.bytes = text
    BY <2>1
  <2>b. DOMAIN text = 0 .. n - 1 /\ \A j \in 0 .. n - 1 : text[j] = original[in + j]
    OBVIOUS
  <2> HIDE DEF text
  <2>2. SUFFICES ASSUME NEW j \in 0 .. n - 1
                 PROVE  /\ j \in Nat /\ out + j \in Address
                        /\ original[in + j] \in Byte
                        /\ memory[out + j] = Masked[original[in + j]]
    BY <1>0, <2>1, <2>a, <2>b DEF PlainIsMasked, Address
  <2>3. j \in Nat /\ out + j \in Address /\ in + j \in Address
    BY <1>0 DEF Address
  <2>4. memory[out + j] = Expected(j)
    BY <1>0 DEF CInv, Written
  <2>5. original[in + j] \in Byte
    BY <1>0, <2>3
  <2>6. QED
    BY <1>3, <2>3, <2>4, <2>5 DEF Expected
<1>4. ASSUME ~(pc = "encrypt" /\ ~Overtakes) PROVE PlainIsMasked'
  <2>1. plain' = Nothing
    BY <1>4 DEF Return
  <2>2. DOMAIN plain'.bytes = {}
    BY <2>1 DEF Nothing
  <2>3. QED
    BY <2>2 DEF PlainIsMasked
<1>5. QED
  BY <1>1, <1>2, <1>3, <1>4 DEF CInv

LEMMA NextCInv == CInv /\ [Next]_vars => CInv'
<1> SUFFICES ASSUME CInv, [Next]_vars PROVE CInv'
  OBVIOUS
<1>1. CASE Encrypt
  BY <1>1, BeginCInv DEF Encrypt
<1>2. CASE Decrypt
  BY <1>2, BeginCInv DEF Decrypt
<1>3. CASE EncryptByte
  BY <1>3, RoundCInv DEF EncryptByte
<1>4. CASE DecryptByte
  BY <1>4, RoundCInv DEF DecryptByte
<1>5. CASE Return
  BY <1>5, ReturnCInv
<1>6. CASE UNCHANGED vars
  BY <1>6 DEF CInv, TypeOK, Written, Expected, Overtakes, PlainIsMasked, Settled,
              Address, vars, windows
<1>7. QED
  BY <1>1, <1>2, <1>3, <1>4, <1>5, <1>6 DEF Next

-----------------------------------------------------------------------------
\* The loop invariant holds throughout, for memory of any size.
THEOREM CipherInvariance == Spec => []CInv
BY InitCInv, NextCInv, PTL DEF Spec

\* The loop of encrypt() and decrypt() never leaves the caller's memory.
THEOREM CipherTypeCorrect == Spec => []TypeOK
<1>1. CInv => TypeOK
  BY DEF CInv
<1>2. QED
  BY <1>1, CipherInvariance, PTL

\* What a call of encrypt() or decrypt() leaves in its output, for windows that
\* overlap in any way.
THEOREM OutputCorrect == Spec => []OutputIsExpected
<1>1. CInv => OutputIsExpected
  BY DEF CInv, Written, Expected, OutputIsExpected, Returned
<1>2. QED
  BY <1>1, CipherInvariance, PTL

\* A call of encrypt() or decrypt() writes only the first input.size() bytes of
\* its output.
THEOREM WritesConfined == Spec => []OnlyOutputWritten
<1>1. CInv => OnlyOutputWritten
  BY DEF CInv, Written, OnlyOutputWritten
<1>2. QED
  BY <1>1, CipherInvariance, PTL

\* decrypt() of what encrypt() wrote restores the plaintext, also in place and
\* into a window that overlaps it from below.
THEOREM DecryptionRestores == Spec => DecryptRestores
<1>1. ASSUME CInv, Next, pc = "decrypt", pc' = "return", ~Overtakes,
             in = plain.at, DOMAIN plain.bytes = 0 .. n - 1
      PROVE  \A j \in 0 .. n - 1 : memory[out + j] = plain.bytes[j]
  <2>0. n \in Nat /\ i = n
    BY <1>1 DEF CInv, TypeOK, Next, Encrypt, Decrypt, EncryptByte, DecryptByte,
                TransformByte, Round, Begin, Return
  <2>1. SUFFICES ASSUME NEW j \in 0 .. n - 1
                 PROVE  memory[out + j] = plain.bytes[j]
    OBVIOUS
  <2>2. memory[out + j] = Masked[original[in + j]]
    BY <1>1, <2>0 DEF CInv, Written, Expected
  <2>3. plain.bytes[j] \in Byte /\ original[in + j] = Masked[plain.bytes[j]]
    BY <1>1 DEF CInv, PlainIsMasked, Settled
  <2>4. QED
    BY <2>2, <2>3, CipherAssumption
<1>2. CInv /\ [Next]_vars
        => [(pc = "decrypt" /\ pc' = "return" /\ ~Overtakes
             /\ in = plain.at /\ DOMAIN plain.bytes = 0 .. n - 1)
            => \A j \in 0 .. n - 1 : memory[out + j] = plain.bytes[j]]_vars
  BY <1>1
<1>3. QED
  BY <1>2, CipherInvariance, PTL DEF Spec, DecryptRestores
=============================================================================
