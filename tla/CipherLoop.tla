----------------------------- MODULE CipherLoop -----------------------------
(***************************************************************************)
(* Aes128Algorithm and Aes256Algorithm: encrypt() and decrypt() transform    *)
(* input byte by byte into output, two windows of the caller's memory that    *)
(* may overlap in any way.  Both algorithms, and both directions, have the    *)
(* same code.                                                               *)
(***************************************************************************)
EXTENDS HsmTypes

CONSTANTS
    MemorySize,     \* bytes of memory that the windows lie in
    Byte,
    Masked          \* the XOR with kMockEncryptKey, as a function on Byte

ASSUME CipherAssumption ==
    /\ MemorySize \in Nat
    /\ Masked \in [Byte -> Byte]
    /\ \A b \in Byte : Masked[Masked[b]] = b

VARIABLES
    memory,
    pc,             \* "idle", "encrypt" or "decrypt" in the loop, "return"
    status,
    in, out, n, i,  \* first input and output byte, input size, loop counter
    original,       \* history: the memory when the call began
    plain           \* history: the last encrypted window and what it held

windows == <<in, out, n>>
vars == <<memory, pc, status, windows, i, original, plain>>

Address == 0 .. MemorySize - 1
Start == 0 .. MemorySize
Size == 0 .. MemorySize

Nothing == [at |-> 0, bytes |-> [j \in {} |-> 0]]

Init ==
    /\ memory \in [Address -> Byte] /\ original = memory
    /\ pc = "idle" /\ status = "OK"
    /\ in = 0 /\ out = 0 /\ n = 0 /\ i = 0
    /\ plain = Nothing

\* Where the loop writes bytes that it reads later.
Overtakes == in < out /\ out < in + n

\* A round of the loop: the write of one byte, and the loop counter.
Round(direction, to, byte) ==
    /\ pc = direction /\ i < n
    /\ memory' = [memory EXCEPT ![to] = byte]
    /\ i' = i + 1
    /\ UNCHANGED <<pc, status, windows, original, plain>>

-----------------------------------------------------------------------------
(* Slips, see SessionManager.                                               *)

\* A size test that forgets the output.
BadInputOnly(inputSize, outputSize) == inputSize = 0

\* From the last byte to the first, one byte off, and without the XOR.
TransformBackwards(direction) ==
    Round(direction, out + n - 1 - i, Masked[memory[in + n - 1 - i]])
TransformShifted(direction) == Round(direction, out + i + 1, Masked[memory[in + i]])
DecryptByteCopy == Round("decrypt", out + i, memory[in + i])

-----------------------------------------------------------------------------
BadBuffers(inputSize, outputSize) == inputSize = 0 \/ outputSize < inputSize

Begin(direction) ==
    /\ pc \in {"idle", "return"}
    /\ in' \in Start /\ out' \in Start
    /\ \E inputSize, outputSize \in Size :
        /\ in' + inputSize <= MemorySize /\ out' + outputSize <= MemorySize
        /\ \/ /\ BadBuffers(inputSize, outputSize)
              /\ status' = "ERR_INSUFFICIENT_BUFFER"
              /\ pc' = "return" /\ n' = 0
           \/ /\ ~BadBuffers(inputSize, outputSize)
              /\ pc' = direction /\ n' = inputSize
              /\ UNCHANGED status
    /\ i' = 0
    /\ original' = memory
    /\ UNCHANGED <<memory, plain>>

Encrypt == Begin("encrypt")
Decrypt == Begin("decrypt")

TransformByte(direction) ==
    Round(direction, out + i, Masked[memory[in + i]])

EncryptByte == TransformByte("encrypt")
DecryptByte == TransformByte("decrypt")

\* The history remembers a window that was encrypted without being overtaken.
Return ==
    /\ pc \in {"encrypt", "decrypt"} /\ i = n
    /\ pc' = "return" /\ status' = "OK"
    /\ plain' = IF pc = "encrypt" /\ ~Overtakes
                  THEN [at |-> out, bytes |-> [j \in 0 .. n - 1 |-> original[in + j]]]
                  ELSE Nothing
    /\ UNCHANGED <<memory, windows, i, original>>

-----------------------------------------------------------------------------
Next == Encrypt \/ Decrypt \/ EncryptByte \/ DecryptByte \/ Return

Spec == Init /\ [][Next]_vars

\* Every variable has its type, and the loop stays inside the memory.
TypeOK ==
    /\ memory \in [Address -> Byte] /\ original \in [Address -> Byte]
    /\ pc \in {"idle", "encrypt", "decrypt", "return"}
    /\ status \in StatusCode
    /\ in \in Nat /\ out \in Nat /\ n \in Nat /\ i \in 0 .. n
    /\ in + n <= MemorySize /\ out + n <= MemorySize

Returned == pc = "return" /\ status = "OK" /\ n > 0
Flipped(times, b) == IF times % 2 = 0 THEN b ELSE Masked[b]

\* What a call leaves in its output.  Without an overlap, in place, or with the
\* output at lower addresses: the transformed input.  Where the output begins
\* inside the input, d bytes after its start: the first d bytes of the input
\* over and over, masked once more each time round.
OutputIsExpected ==
    Returned => \A j \in 0 .. n - 1 :
        memory[out + j] =
            IF Overtakes
              THEN Flipped((j \div (out - in)) + 1, original[in + (j % (out - in))])
              ELSE Masked[original[in + j]]

\* A call writes nothing but the first input.size() bytes of its output, and
\* nothing at all when it is refused.
OnlyOutputWritten ==
    pc = "return" => \A a \in Address \ (out .. out + n - 1) :
        memory[a] = original[a]

\* decrypt() of what encrypt() wrote gives the plaintext back, also in place
\* and into a window that overlaps it from below.
DecryptRestores ==
    [][(pc = "decrypt" /\ pc' = "return" /\ ~Overtakes
        /\ in = plain.at /\ DOMAIN plain.bytes = 0 .. n - 1)
        => \A j \in 0 .. n - 1 : memory[out + j] = plain.bytes[j]]_vars
=============================================================================
