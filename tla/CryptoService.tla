--------------------------- MODULE CryptoService ---------------------------
(***************************************************************************)
(* services::CryptoService: fetches the key of a slot from the keystore and  *)
(* runs the injected algorithm.  It keeps no state of its own besides its    *)
(* two dependencies, either of which may be null.                            *)
(*                                                                          *)
(* encrypt() and decrypt() make the same calls in the same order; Transform  *)
(* models both.  Buffers are abstracted to their sizes.  The key copied to   *)
(* the stack is cleared before the call returns, so it is not visible in a   *)
(* state between two calls.                                                  *)
(***************************************************************************)
EXTENDS HsmTypes

CONSTANTS kMaxKeySlots, kMaxKeySize, KeyMaterial, Zero, Algorithm, NONE,
          Permissions, NoPermissions, CountRange

VARIABLES
    keySlots_, ksInitialized_,  \* the keystore
    wiring                      \* which dependencies were injected

keystoreVars == <<keySlots_, ksInitialized_>>

Keystore == INSTANCE KeystoreService WITH isInitialized_ <- ksInitialized_

\* algorithm, keystore: CryptoService has that dependency; api: the facade has
\* all three services.
Wiring == [api : BOOLEAN, algorithm : BOOLEAN, keystore : BOOLEAN]
FullyWired == [api |-> TRUE, algorithm |-> TRUE, keystore |-> TRUE]

BadBuffers(inputSize, outputSize) == inputSize = 0 \/ outputSize < inputSize

\* Aes128Algorithm and Aes256Algorithm::encrypt() and decrypt().
AlgorithmStatus(inputSize, outputSize) ==
    IF BadBuffers(inputSize, outputSize) THEN "ERR_INSUFFICIENT_BUFFER" ELSE "OK"

\* init() and deinit() have nothing to do.
InitCrypto(status) == status = "OK"
DeinitCrypto(status) == status = "OK"

Transform(inputSize, outputSize, keySlotId, status) ==
    \/ /\ ~wiring.algorithm
       /\ status = "ERR_INVALID_PARAM" /\ UNCHANGED keystoreVars
    \/ /\ wiring.algorithm /\ BadBuffers(inputSize, outputSize)
       /\ status = "ERR_INSUFFICIENT_BUFFER" /\ UNCHANGED keystoreVars
    \/ /\ wiring.algorithm /\ ~BadBuffers(inputSize, outputSize)
       /\ ~wiring.keystore
       /\ status = "ERR_NOT_INITIALIZED" /\ UNCHANGED keystoreVars
    \/ /\ wiring.algorithm /\ ~BadBuffers(inputSize, outputSize)
       /\ wiring.keystore
       /\ \E fetched \in StatusCode :
            /\ Keystore!getKey(keySlotId, fetched)
            /\ status = IF fetched # "OK" THEN fetched
                        ELSE AlgorithmStatus(inputSize, outputSize)
=============================================================================
