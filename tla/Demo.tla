-------------------------------- MODULE Demo --------------------------------
(***************************************************************************)
(* The two demonstration programs as clients of the facade: main.cpp, and    *)
(* main.c, its predecessor.  Both start the HSM, open a session, store a key, *)
(* encrypt and decrypt a text, compare, and clean up.  They differ in what    *)
(* they do when a call fails: main.cpp returns at once, main.c undoes what    *)
(* was done.                                                                *)
(*                                                                          *)
(* The services under the facade may fail at any call (Faulty).  main.c calls *)
(* the C interface ehsm_api_*, whose sources are gone: it is taken to answer   *)
(* as the facade does.  What the buffers hold is CipherLoop's subject: the      *)
(* comparison of the texts may come out either way here.                      *)
(***************************************************************************)
EXTENDS HsmApi

CONSTANTS
    Program,        \* "main.cpp", "main.c", or both
    kTestKeySlotId,
    AES_256,
    TestKey         \* the key both programs import, of the right size

ASSUME DemoAssumption ==
    /\ Program \subseteq {"main.cpp", "main.c"}
    /\ kTestKeySlotId \in Keystore!KeySlot
    /\ AES_256 \in Algorithm
    /\ TestKey \in Keystore!KeyData /\ Keystore!AcceptableSize(TestKey)
    /\ {"ENCRYPT", "DECRYPT"} \in Permissions

VARIABLES
    program,        \* the program that runs
    pc,             \* the call it makes next, or "success" or "failure"
    sessionId,
    stopped         \* history: the status of its call of deinit()

demoVars == <<program, pc, sessionId, stopped>>
vars == <<hsmVars, demoVars>>

Init ==
    /\ HsmInit({FullyWired})
    /\ program \in Program
    /\ pc = "init" /\ sessionId = NotWritten
    /\ stopped = "never"

-----------------------------------------------------------------------------
(* Slips, see SessionManager.                                               *)

\* Going on after a failure, and a cleanup that stops at the first failure.
BranchAnyway(status, next) == pc' = next
GiveUp(status, next) == pc' = IF status = "OK" THEN next ELSE "success"

-----------------------------------------------------------------------------
(* Where a program goes after each call.                                     *)

AfterFailure ==
    IF program = "main.cpp" \/ pc = "init" THEN "failure"
    ELSE IF pc = "createSession" THEN "abandonDeinit" ELSE "abandonClose"

Branch(status, next) == pc' = IF status = "OK" THEN next ELSE AfterFailure

\* The cleanup ignores the statuses.
Regardless(status, next) == pc' = next

-----------------------------------------------------------------------------
Initialise == \E status \in StatusCode :
    /\ pc = "init" /\ init(status)
    /\ Branch(status, "createSession")
    /\ UNCHANGED <<program, sessionId, stopped>>

CreateSession ==
    \E status \in StatusCode, id \in Sessions!IssuedId \cup {NotWritten} :
        /\ pc = "createSession" /\ createSession(status, id)
        /\ sessionId' = id
        /\ Branch(status, "importKey")
        /\ UNCHANGED <<program, stopped>>

ImportKey == \E status \in StatusCode :
    /\ pc = "importKey"
    /\ importKey(kTestKeySlotId, AES_256, TestKey, {"ENCRYPT", "DECRYPT"}, status)
    /\ Branch(status, "encrypt")
    /\ UNCHANGED <<program, sessionId, stopped>>

\* runEncryptDecryptDemo(): the output buffers are larger than the text.
Encrypt == \E status \in StatusCode :
    /\ pc = "encrypt"
    /\ crypt("ENCRYPT", sessionId, kTestKeySlotId, 1, 2, status)
    /\ Branch(status, "decrypt")
    /\ UNCHANGED <<program, sessionId, stopped>>

Decrypt == \E status \in StatusCode :
    /\ pc = "decrypt"
    /\ crypt("DECRYPT", sessionId, kTestKeySlotId, 1, 2, status)
    /\ Branch(status, "verify")
    /\ UNCHANGED <<program, sessionId, stopped>>

Verify == \E status \in {"OK", "ERR_CRYPTO_FAILED"} :
    /\ pc = "verify"
    /\ Branch(status, "deleteKey")
    /\ UNCHANGED <<hsmVars, program, sessionId, stopped>>

DeleteKey == \E status \in StatusCode :
    /\ pc = "deleteKey" /\ deleteKey(kTestKeySlotId, status)
    /\ Regardless(status, "closeSession")
    /\ UNCHANGED <<program, sessionId, stopped>>

\* On the way out of main.c after a failure, as well as in the cleanup.
CloseSession == \E status \in StatusCode :
    /\ pc \in {"closeSession", "abandonClose"} /\ closeSession(sessionId, status)
    /\ Regardless(status, IF pc = "closeSession" THEN "deinit" ELSE "abandonDeinit")
    /\ UNCHANGED <<program, sessionId, stopped>>

Deinitialise == \E status \in StatusCode :
    /\ pc \in {"deinit", "abandonDeinit"} /\ deinit(status)
    /\ stopped' = status
    /\ pc' = IF pc = "deinit" THEN "success" ELSE "failure"
    /\ UNCHANGED <<program, sessionId>>

Finished == pc \in {"success", "failure"}
\* The process ends; the HSM is not used any more.
Exited == Finished /\ UNCHANGED vars

Next ==
    \/ Initialise \/ CreateSession \/ ImportKey \/ Encrypt \/ Decrypt \/ Verify
    \/ DeleteKey \/ CloseSession \/ Deinitialise \/ Exited

Spec == Init /\ [][Next]_vars

-----------------------------------------------------------------------------
Holding == Sessions!LiveIds # {} \/
    \E s \in Keystore!KeySlot : keySlots_[s].key # Keystore!BlankKey

\* A program that ends leaves a session or a key behind only if the HSM could
\* not be stopped, or if it is main.cpp and a call failed before the cleanup.
\* A deleteKey() or closeSession() that failed does not matter: deinit() clears
\* what they left.
CleansUp ==
    (Finished /\ Holding)
        => \/ stopped \notin {"never", "OK"}
           \/ program = "main.cpp" /\ pc = "failure"

\* Both programs transform their text with their own key in their own session:
\* at each of the two calls that session is the only one open, and the slot
\* holds the key they imported, with both permissions.
OwnKeyAndSession ==
    pc \in {"encrypt", "decrypt", "verify"}
        => /\ Sessions!LiveIds = {sessionId}
           /\ LET slot == keySlots_[kTestKeySlotId] IN
                /\ slot.info.permissions = {"ENCRYPT", "DECRYPT"}
                /\ slot.key.size = TestKey.size
                /\ \A c \in 0 .. TestKey.size - 1 :
                      slot.key.data[c] = TestKey.material
=============================================================================
