------------------------------- MODULE HsmApi -------------------------------
(***************************************************************************)
(* api::HsmApiImpl: the facade applications call, over the session manager,  *)
(* the crypto service and the keystore it was constructed with.  The         *)
(* keystore is the one the crypto service uses, and the composition root     *)
(* keeps a third reference to it.                                           *)
(***************************************************************************)
EXTENDS CryptoService

CONSTANTS
    kMaxSessions, kInvalidSessionId,
    Faulty      \* the injected services whose calls can fail

VARIABLES
    sessions_, smInitialized_, nextSessionId_,  \* the session manager
    isInitialized_                              \* the facade's own flag

Sessions == INSTANCE SessionManager WITH isInitialized_ <- smInitialized_

\* Permission masks are sets of flags here: a mask's bit test is membership.
ASSUME PermissionAssumption ==
    Permissions \subseteq SUBSET {"ENCRYPT", "DECRYPT"} /\ NoPermissions = {}

\* What the services take for granted of their constants.
ASSUME ServiceAssumption ==
    Sessions!SessionAssumption /\ Keystore!KeystoreAssumption

sessionVars == <<sessions_, smInitialized_, nextSessionId_>>
hsmVars == <<sessionVars, keystoreVars, isInitialized_, wiring>>

HsmInit(Wirings) ==
    /\ Sessions!SMInit /\ Keystore!KSInit
    /\ isInitialized_ = FALSE
    /\ wiring \in Wirings

-----------------------------------------------------------------------------
(* The services are behind interfaces.  One of Faulty is the service modelled  *)
(* here on hardware that may fail: a call of it then has no effect, except     *)
(* that the crypto service may have fetched the key.                         *)

Fails(service, status) == service \in Faulty /\ status = "ERR_HARDWARE"

CallSessions(operation, status) ==
    \/ operation
    \/ Fails("sessions", status) /\ UNCHANGED sessionVars
CallKeystore(operation, status) ==
    \/ operation
    \/ Fails("keystore", status) /\ UNCHANGED keystoreVars
CallCrypto(operation, status) ==
    \/ operation
    \/ Fails("crypto", status)

-----------------------------------------------------------------------------
(* Slips, see SessionManager.                                               *)

\* A permission check that only asks whether there is a key.
AnyKeyPermits(flag, keySlotId) == keySlots_[keySlotId].info.isOccupied
\* Deinitialization that leaves the keys in place.
DeinitSessionsOnly(status) ==
    /\ Sessions!deinit(status)
    /\ isInitialized_' = FALSE /\ UNCHANGED keystoreVars
\* Deinitialization that goes on when a service failed to stop.
StopIgnoringFailures(status) ==
    /\ \E s2 \in StatusCode : CallKeystore(Keystore!deinit(s2), s2)
    /\ CallSessions(Sessions!deinit(status), status)
    /\ isInitialized_' = FALSE
\* Deinitialization that stops the sessions before the keystore.
StopSessionsFirst(status) ==
    \E s1 \in StatusCode :
        /\ CallSessions(Sessions!deinit(s1), s1)
        /\ IF s1 # "OK"
             THEN status = s1 /\ UNCHANGED <<keystoreVars, isInitialized_>>
             ELSE /\ CallKeystore(Keystore!deinit(status), status)
                  /\ isInitialized_' = (status # "OK")
\* A session check that trusts any issued id.
SessionEverIssued(sessionId) == isInitialized_ /\ sessionId < nextSessionId_

-----------------------------------------------------------------------------
(* Lifecycle.  The services are started and stopped one after the other; the *)
(* first failure is returned at once, with the earlier calls still in effect. *)

StartServices(status) ==
    \E s1 \in StatusCode :
        /\ CallSessions(Sessions!init(s1), s1)
        /\ IF s1 # "OK"
             THEN status = s1 /\ UNCHANGED <<keystoreVars, isInitialized_>>
             ELSE \E s2 \in StatusCode :
                    /\ CallKeystore(Keystore!init(s2), s2)
                    /\ IF s2 # "OK"
                         THEN status = s2 /\ UNCHANGED isInitialized_
                         ELSE /\ CallCrypto(InitCrypto(status), status)
                              /\ isInitialized_' = (status = "OK")

init(status) ==
    \/ isInitialized_ /\ status = "OK" /\ UNCHANGED hsmVars
    \/ /\ ~isInitialized_ /\ ~wiring.api
       /\ status = "ERR_NOT_INITIALIZED" /\ UNCHANGED hsmVars
    \/ /\ ~isInitialized_ /\ wiring.api
       /\ StartServices(status)
       /\ UNCHANGED wiring

StopServices(status) ==
    \E s1 \in StatusCode :
        /\ CallCrypto(DeinitCrypto(s1), s1)
        /\ IF s1 # "OK"
             THEN status = s1 /\ UNCHANGED <<sessionVars, keystoreVars, isInitialized_>>
             ELSE \E s2 \in StatusCode :
                    /\ CallKeystore(Keystore!deinit(s2), s2)
                    /\ IF s2 # "OK"
                         THEN status = s2 /\ UNCHANGED <<sessionVars, isInitialized_>>
                         ELSE /\ CallSessions(Sessions!deinit(status), status)
                              /\ isInitialized_' = (status # "OK")

deinit(status) ==
    \/ /\ ~isInitialized_
       /\ status = "ERR_NOT_INITIALIZED" /\ UNCHANGED hsmVars
    \/ isInitialized_ /\ StopServices(status) /\ UNCHANGED wiring

isReady == isInitialized_

-----------------------------------------------------------------------------
(* Calls that are passed on while the facade is initialized.                *)

RefusedWhileDown(status) ==
    ~isInitialized_ /\ status = "ERR_NOT_INITIALIZED" /\ UNCHANGED hsmVars

createSession(status, sessionId) ==
    \/ RefusedWhileDown(status) /\ sessionId = NotWritten
    \/ /\ isInitialized_
       /\ \/ Sessions!createSession(status, sessionId)
          \/ /\ Fails("sessions", status) /\ sessionId = NotWritten
             /\ UNCHANGED sessionVars
       /\ UNCHANGED <<keystoreVars, isInitialized_, wiring>>

closeSession(sessionId, status) ==
    \/ RefusedWhileDown(status)
    \/ /\ isInitialized_
       /\ CallSessions(Sessions!closeSession(sessionId, status), status)
       /\ UNCHANGED <<keystoreVars, isInitialized_, wiring>>

isSessionValid(sessionId) == isInitialized_ /\ Sessions!isSessionValid(sessionId)

importKey(keySlotId, algorithm, keyData, permissions, status) ==
    \/ RefusedWhileDown(status)
    \/ /\ isInitialized_
       /\ CallKeystore(
            Keystore!importKey(keySlotId, algorithm, keyData, permissions, status),
            status)
       /\ UNCHANGED <<sessionVars, isInitialized_, wiring>>

deleteKey(keySlotId, status) ==
    \/ RefusedWhileDown(status)
    \/ /\ isInitialized_
       /\ CallKeystore(Keystore!deleteKey(keySlotId, status), status)
       /\ UNCHANGED <<sessionVars, isInitialized_, wiring>>

getKeySlotInfo(keySlotId, status) ==
    \/ RefusedWhileDown(status)
    \/ /\ isInitialized_
       /\ CallKeystore(Keystore!getSlotInfo(keySlotId, status), status)
       /\ UNCHANGED <<sessionVars, isInitialized_, wiring>>

clearAllKeys(status) ==
    \/ RefusedWhileDown(status)
    \/ /\ isInitialized_ /\ CallKeystore(Keystore!clearAll(status), status)
       /\ UNCHANGED <<sessionVars, isInitialized_, wiring>>

-----------------------------------------------------------------------------
(* encrypt() is crypt("ENCRYPT", ...), decrypt() is crypt("DECRYPT", ...).    *)
(* The algorithm argument of both is ignored by the code.                    *)

Permits(flag, keySlotId) == flag \in keySlots_[keySlotId].info.permissions

\* The early returns before the crypto service is called, in their order;
\* described is the status of getSlotInfo().
Admission(flag, sessionId, keySlotId, inputSize, outputSize, described) ==
    IF ~isInitialized_ THEN "ERR_NOT_INITIALIZED"
    ELSE IF BadBuffers(inputSize, outputSize) THEN "ERR_INVALID_PARAM"
    ELSE IF ~isSessionValid(sessionId) THEN "ERR_SESSION_INVALID"
    ELSE IF keySlotId >= kMaxKeySlots THEN "ERR_INVALID_KEY_ID"
    ELSE IF described # "OK" THEN described
    ELSE IF ~Permits(flag, keySlotId) THEN "ERR_AUTH_FAILED" ELSE "OK"

crypt(flag, sessionId, keySlotId, inputSize, outputSize, status) ==
    \E described \in StatusCode :
        /\ \/ described = Keystore!SlotInfoStatus(keySlotId)
           \/ Fails("keystore", described)
        /\ LET admission == Admission(flag, sessionId, keySlotId,
                                      inputSize, outputSize, described)
           IN  \/ admission # "OK" /\ status = admission /\ UNCHANGED hsmVars
               \/ /\ admission = "OK"
                  /\ \/ Transform(inputSize, outputSize, keySlotId, status)
                     \/ /\ Fails("keystore", status) \/ Fails("crypto", status)
                        /\ UNCHANGED keystoreVars
                     \/ /\ Fails("crypto", status)  \* after it fetched the key
                        /\ Keystore!getKey(keySlotId, "OK")
                  /\ UNCHANGED <<sessionVars, isInitialized_, wiring>>

HsmTypeOK ==
    /\ Sessions!SMTypeOK /\ Keystore!KSTypeOK
    /\ isInitialized_ \in BOOLEAN
    /\ wiring \in Wiring
=============================================================================
