----------------------------- MODULE DemoProofs -----------------------------
(***************************************************************************)
(* Proofs about the demonstration programs, for every size of the services,   *)
(* every test key and every choice of the services that may fail.             *)
(*                                                                          *)
(* HsmInv reduces "nothing is left behind" to "the facade is down"; what is    *)
(* added here is what a program knows at each of its calls.                   *)
(***************************************************************************)
EXTENDS Demo, HsmApiProofs

NoneOpen == \A i \in Sessions!Slot : ~sessions_[i].isActive

OwnKey(slot) ==
    /\ slot.info.permissions = {"ENCRYPT", "DECRYPT"}
    /\ slot.key.size = TestKey.size
    /\ \A c \in 0 .. TestKey.size - 1 : slot.key.data[c] = TestKey.material

BeforeStart == pc = "init" => ~isInitialized_
BeforeSession == pc = "createSession" => NoneOpen
InSession == pc \in {"importKey", "encrypt", "decrypt", "verify"}
                => Sessions!LiveIds = {sessionId}
WithKey == pc \in {"encrypt", "decrypt", "verify"} => OwnKey(keySlots_[kTestKeySlotId])
AtExit == Finished => \/ ~isInitialized_
                      \/ stopped \notin {"never", "OK"}
                      \/ program = "main.cpp" /\ pc = "failure"

Progress == BeforeStart /\ BeforeSession /\ InSession /\ WithKey /\ AtExit
DInv == HsmInv /\ Progress

-----------------------------------------------------------------------------
LEMMA InitialInv == Init => DInv
<1> SUFFICES ASSUME Init PROVE DInv
  OBVIOUS
<1>1. HsmInv
  <2>1. {FullyWired} \in SUBSET Wiring
    BY DEF FullyWired, Wiring
  <2>2. QED
    BY <2>1, InitInvariant DEF Init
<1>2. pc = "init" /\ isInitialized_ = FALSE
  BY DEF Init, HsmInit
<1>3. QED
  BY <1>1, <1>2 DEF DInv, Progress, BeforeStart, BeforeSession, InSession, WithKey, AtExit, Finished

\* A failed call leads main.cpp to its exit and main.c to its way out, where
\* nothing more is claimed than that deinit() is still to come.
LEMMA AfterFailureKeeps ==
    ASSUME pc' = AfterFailure, program' = program, pc # "init"
    PROVE  Progress'
<1>1. \/ program' = "main.cpp" /\ pc' = "failure"
      \/ pc' \in {"abandonClose", "abandonDeinit"}
  BY DEF AfterFailure
<1>2. QED
  BY <1>1 DEF Progress, BeforeStart, BeforeSession, InSession, WithKey,
              AtExit, Finished

LEMMA InitialiseKeeps == ASSUME DInv, Initialise PROVE DInv'
<1>1. PICK status \in StatusCode :
        /\ pc = "init" /\ init(status) /\ Branch(status, "createSession")
  BY DEF Initialise
<1>2. HsmInv' /\ HsmInv
  BY <1>1, InitKeeps DEF DInv
<1>3. ~isInitialized_
  BY <1>1 DEF DInv, Progress, BeforeStart
<1>4. NoneOpen
  BY <1>2, <1>3 DEF HsmInv, FacadeSound, NoneOpen
<1>5. CASE status = "OK"
  <2>1. pc' = "createSession"
    BY <1>1, <1>5 DEF Branch
  <2>2. SessionsSame \/ SessionsReset(TRUE)
    BY <1>1, InitEffect DEF hsmVars, SessionsSame
  <2>3. NoneOpen'
    BY <1>4, <2>2 DEF NoneOpen, SessionsSame, SessionsReset, sessionVars,
                      Sessions!NoSession
  <2>4. QED
    BY <1>2, <2>1, <2>3 DEF DInv, Progress, BeforeStart, BeforeSession, InSession,
                            WithKey, AtExit, Finished
<1>6. CASE status # "OK"
  <2>1. pc' = "failure"
    BY <1>1, <1>6 DEF Branch, AfterFailure
  <2>2. ~isInitialized_'
    BY <1>1, <1>3, <1>6, InitEffect DEF hsmVars
  <2>3. QED
    BY <1>2, <2>1, <2>2 DEF DInv, Progress, BeforeStart, BeforeSession, InSession,
                            WithKey, AtExit, Finished
<1>7. QED
  BY <1>5, <1>6

LEMMA CreateSessionKeeps == ASSUME DInv, CreateSession PROVE DInv'
<1>1. PICK status \in StatusCode, id \in Sessions!IssuedId \cup {NotWritten} :
        /\ pc = "createSession" /\ createSession(status, id)
        /\ sessionId' = id /\ program' = program
        /\ Branch(status, "importKey")
  BY DEF CreateSession
<1>2. HsmInv' /\ HsmInv
  BY <1>1, CreateKeeps DEF DInv
<1>3. CASE status = "OK"
  <2>1. pc' = "importKey"
    BY <1>1, <1>3 DEF Branch
  <2>2. Sessions!SMTypeOK
    BY <1>2, HsmInvParts
  <2>3. PICK i \in Sessions!Slot :
          sessions_' = [sessions_ EXCEPT ![i] = [id |-> id, isActive |-> TRUE]]
    BY <1>1, <1>3, <2>2, CreateEffect
  <2>4. NoneOpen
    BY <1>1 DEF DInv, Progress, BeforeSession
  <2>5. /\ sessions_'[i].isActive /\ sessions_'[i].id = id
        /\ \A j \in Sessions!Slot : j # i => ~sessions_'[j].isActive
    BY <2>2, <2>3, <2>4 DEF Sessions!SMTypeOK, NoneOpen
  <2>6. Sessions!ActiveSlots' = {i}
    BY <2>5 DEF Sessions!ActiveSlots
  <2>7. Sessions!LiveIds' = {sessionId'}
    BY <1>1, <2>5, <2>6 DEF Sessions!LiveIds
  <2>8. QED
    BY <1>2, <2>1, <2>7 DEF DInv, Progress, BeforeStart, BeforeSession, InSession,
                            WithKey, AtExit, Finished
<1>4. CASE status # "OK"
  <2>1. pc' = AfterFailure
    BY <1>1, <1>4 DEF Branch
  <2>2. QED
    BY <1>1, <1>2, <2>1, AfterFailureKeeps DEF DInv
<1>5. QED
  BY <1>3, <1>4

\* The session stays open while the table does not change.
LEMMA SessionKept ==
    ASSUME Sessions!LiveIds = {sessionId}, SessionsSame, sessionId' = sessionId
    PROVE  Sessions!LiveIds' = {sessionId'}
BY DEF SessionsSame, sessionVars, Sessions!LiveIds, Sessions!ActiveSlots

\* What importKey() stores is the key it was given, with its permissions.
LEMMA ImportedIsOwn ==
    ASSUME NEW slot
    PROVE  OwnKey(Keystore!Filled(slot, kTestKeySlotId, AES_256, TestKey,
                                  {"ENCRYPT", "DECRYPT"}))
<1>1. TestKey.size \in 1 .. kMaxKeySize /\ kMaxKeySize \in Nat
  BY DemoAssumption, ServiceAssumption
     DEF Keystore!AcceptableSize, Keystore!KeystoreAssumption
<1>2. \A c \in 0 .. TestKey.size - 1 : c \in Keystore!Cell /\ c < TestKey.size
  BY <1>1 DEF Keystore!Cell
<1>3. \A c \in 0 .. TestKey.size - 1 :
        Keystore!CopyInto(slot.key.data, TestKey)[c] = TestKey.material
  BY <1>2 DEF Keystore!CopyInto
<1>4. QED
  BY <1>3 DEF OwnKey, Keystore!Filled

LEMMA ImportKeyKeeps == ASSUME DInv, ImportKey PROVE DInv'
<1> DEFINE both == {"ENCRYPT", "DECRYPT"}
<1>1. PICK status \in StatusCode :
        /\ pc = "importKey"
        /\ importKey(kTestKeySlotId, AES_256, TestKey, both, status)
        /\ sessionId' = sessionId /\ program' = program
        /\ Branch(status, "encrypt")
  BY DEF ImportKey
<1>2. HsmInv' /\ HsmInv
  BY <1>1, ImportKeeps, DemoAssumption DEF DInv
<1>3. CASE status = "OK"
  <2>1. pc' = "encrypt"
    BY <1>1, <1>3 DEF Branch
  <2>2. /\ SessionsSame
        /\ SlotBecomes(kTestKeySlotId,
              Keystore!Filled(keySlots_[kTestKeySlotId], kTestKeySlotId, AES_256,
                              TestKey, both))
    BY <1>1, <1>3, ImportEffect
  <2>3. Sessions!LiveIds' = {sessionId'}
    BY <1>1, <2>2, SessionKept DEF DInv, Progress, InSession
  <2>4. keySlots_'[kTestKeySlotId] =
          Keystore!Filled(keySlots_[kTestKeySlotId], kTestKeySlotId, AES_256,
                          TestKey, both)
    BY <1>2, <2>2, DemoAssumption, HsmInvParts
       DEF SlotBecomes, KeystoreInv, Keystore!KSTypeOK
  <2>5. OwnKey(keySlots_'[kTestKeySlotId])
    BY <2>4, ImportedIsOwn
  <2>6. WithKey'
    BY <2>5 DEF WithKey, OwnKey
  <2>7. QED
    BY <1>2, <2>1, <2>3, <2>6 DEF DInv, Progress, BeforeStart, BeforeSession,
                                  InSession, AtExit, Finished
<1>4. CASE status # "OK"
  <2>1. pc' = AfterFailure
    BY <1>1, <1>4 DEF Branch
  <2>2. QED
    BY <1>1, <1>2, <2>1, AfterFailureKeeps DEF DInv
<1>5. QED
  BY <1>3, <1>4

\* A transformation leaves the session open and the key in place.
LEMMA CryptLeavesOwn ==
    ASSUME HsmInv, Sessions!LiveIds = {sessionId}, sessionId' = sessionId,
           OwnKey(keySlots_[kTestKeySlotId]),
           NEW flag, NEW id, NEW s, NEW in, NEW out, NEW status,
           crypt(flag, id, s, in, out, status)
    PROVE  Sessions!LiveIds' = {sessionId'} /\ OwnKey(keySlots_'[kTestKeySlotId])
<1>1. /\ SessionsSame
      /\ KeystoreSame \/ SlotBecomes(s, Counted(s))
  BY CryptEffect
<1>2. Sessions!LiveIds' = {sessionId'}
  BY <1>1, SessionKept
<1>3. CASE KeystoreSame
  BY <1>2, <1>3 DEF KeystoreSame, keystoreVars
<1>4. CASE SlotBecomes(s, Counted(s))
  <2>1. s \in Keystore!KeySlot /\ Keystore!KSTypeOK
    BY <1>4, HsmInvParts DEF SlotBecomes, KeystoreInv
  <2>2. Counted(s).info = keySlots_[s].info /\ Counted(s).key = keySlots_[s].key
    BY <2>1, CountedSound
  <2>3. keySlots_'[kTestKeySlotId] =
          IF kTestKeySlotId = s THEN Counted(s) ELSE keySlots_[kTestKeySlotId]
    BY <1>4, <2>1, DemoAssumption DEF SlotBecomes, Keystore!KSTypeOK
  <2>4. QED
    BY <1>2, <2>2, <2>3 DEF OwnKey
<1>5. QED
  BY <1>1, <1>3, <1>4

LEMMA EncryptKeeps == ASSUME DInv, Encrypt PROVE DInv'
<1>1. PICK status \in StatusCode :
        /\ pc = "encrypt"
        /\ crypt("ENCRYPT", sessionId, kTestKeySlotId, 1, 2, status)
        /\ Branch(status, "decrypt")
        /\ sessionId' = sessionId /\ program' = program
  BY DEF Encrypt
<1>2. HsmInv' /\ HsmInv
  BY <1>1, CryptKeeps DEF DInv
<1>3. CASE status = "OK"
  <2>1. pc' = "decrypt"
    BY <1>1, <1>3 DEF Branch
  <2>2. Sessions!LiveIds' = {sessionId'} /\ OwnKey(keySlots_'[kTestKeySlotId])
    BY <1>1, <1>2, CryptLeavesOwn DEF DInv, Progress, InSession, WithKey
  <2>3. WithKey'
    BY <2>2 DEF WithKey, OwnKey
  <2>4. QED
    BY <1>2, <2>1, <2>2, <2>3
       DEF DInv, Progress, BeforeStart, BeforeSession, InSession, AtExit, Finished
<1>4. CASE status # "OK"
  <2>1. pc' = AfterFailure
    BY <1>1, <1>4 DEF Branch
  <2>2. QED
    BY <1>1, <1>2, <2>1, AfterFailureKeeps DEF DInv
<1>5. QED
  BY <1>3, <1>4

LEMMA DecryptKeeps == ASSUME DInv, Decrypt PROVE DInv'
<1>1. PICK status \in StatusCode :
        /\ pc = "decrypt"
        /\ crypt("DECRYPT", sessionId, kTestKeySlotId, 1, 2, status)
        /\ Branch(status, "verify")
        /\ sessionId' = sessionId /\ program' = program
  BY DEF Decrypt
<1>2. HsmInv' /\ HsmInv
  BY <1>1, CryptKeeps DEF DInv
<1>3. CASE status = "OK"
  <2>1. pc' = "verify"
    BY <1>1, <1>3 DEF Branch
  <2>2. Sessions!LiveIds' = {sessionId'} /\ OwnKey(keySlots_'[kTestKeySlotId])
    BY <1>1, <1>2, CryptLeavesOwn DEF DInv, Progress, InSession, WithKey
  <2>3. WithKey'
    BY <2>2 DEF WithKey, OwnKey
  <2>4. QED
    BY <1>2, <2>1, <2>2, <2>3
       DEF DInv, Progress, BeforeStart, BeforeSession, InSession, AtExit, Finished
<1>4. CASE status # "OK"
  <2>1. pc' = AfterFailure
    BY <1>1, <1>4 DEF Branch
  <2>2. QED
    BY <1>1, <1>2, <2>1, AfterFailureKeeps DEF DInv
<1>5. QED
  BY <1>3, <1>4

\* From the cleanup on, only the last call matters.
LEMMA OnTheWayOut ==
    ASSUME pc' \in {"deleteKey", "closeSession", "deinit", "abandonDeinit"}
    PROVE  Progress'
BY DEF Progress, BeforeStart, BeforeSession, InSession, WithKey, AtExit,
       Finished

LEMMA VerifyKeeps == ASSUME DInv, Verify PROVE DInv'
<1>1. HsmInv'
  BY HsmSameKeeps DEF DInv, Verify
<1>2. /\ pc = "verify" /\ program' = program
      /\ pc' \in {"deleteKey", AfterFailure}
  BY DEF Verify, Branch
<1>3. CASE pc' = "deleteKey"
  BY <1>1, <1>3, OnTheWayOut DEF DInv
<1>4. CASE pc' = AfterFailure
  BY <1>1, <1>2, <1>4, AfterFailureKeeps DEF DInv
<1>5. QED
  BY <1>2, <1>3, <1>4

LEMMA DeleteKeyKeeps == ASSUME DInv, DeleteKey PROVE DInv'
<1>1. HsmInv'
  BY DeleteKeeps DEF DInv, DeleteKey
<1>2. pc' = "closeSession"
  BY DEF DeleteKey, Regardless
<1>3. QED
  BY <1>1, <1>2, OnTheWayOut DEF DInv

LEMMA CloseSessionKeeps == ASSUME DInv, CloseSession PROVE DInv'
<1>1. HsmInv'
  BY CloseKeeps DEF DInv, CloseSession
<1>2. pc' \in {"deinit", "abandonDeinit"}
  BY DEF CloseSession, Regardless
<1>3. QED
  BY <1>1, <1>2, OnTheWayOut DEF DInv

LEMMA DeinitialiseKeeps == ASSUME DInv, Deinitialise PROVE DInv'
<1>1. PICK status \in StatusCode :
        deinit(status) /\ stopped' = status /\ pc' \in {"success", "failure"}
  BY DEF Deinitialise
<1>2. HsmInv'
  BY <1>1, DeinitKeeps DEF DInv
<1>3. status # "never"
  BY DEF StatusCode
<1>4. status = "OK" => ~isInitialized_'
  BY <1>1, DeinitEffect
<1>5. AtExit'
  BY <1>1, <1>3, <1>4 DEF AtExit
<1>6. QED
  BY <1>1, <1>2, <1>5 DEF DInv, Progress, BeforeStart, BeforeSession, InSession,
                          WithKey

LEMMA UnchangedKeeps == ASSUME DInv, UNCHANGED vars PROVE DInv'
<1>1. HsmInv'
  BY HsmSameKeeps DEF DInv, vars
<1>2. Progress'
  BY DEF DInv, vars, demoVars, hsmVars, sessionVars, keystoreVars, Progress,
         BeforeStart, BeforeSession, NoneOpen, InSession, WithKey, OwnKey,
         AtExit, Finished, Sessions!LiveIds, Sessions!ActiveSlots
<1>3. QED
  BY <1>1, <1>2 DEF DInv

\* Every call keeps what the program relies on: the facade is down before
\* init(), no session is open before createSession(), and so on to the exit.
THEOREM Invariance == Spec => []DInv
<1>1. DInv /\ [Next]_vars => DInv'
  <2> SUFFICES ASSUME DInv, [Next]_vars PROVE DInv'
    OBVIOUS
  <2>1. CASE Initialise
    BY <2>1, InitialiseKeeps
  <2>2. CASE CreateSession
    BY <2>2, CreateSessionKeeps
  <2>3. CASE ImportKey
    BY <2>3, ImportKeyKeeps
  <2>4. CASE Encrypt
    BY <2>4, EncryptKeeps
  <2>5. CASE Decrypt
    BY <2>5, DecryptKeeps
  <2>6. CASE Verify
    BY <2>6, VerifyKeeps
  <2>7. CASE DeleteKey
    BY <2>7, DeleteKeyKeeps
  <2>8. CASE CloseSession
    BY <2>8, CloseSessionKeeps
  <2>9. CASE Deinitialise
    BY <2>9, DeinitialiseKeeps
  <2>10. CASE Exited
    BY <2>10, UnchangedKeeps DEF Exited
  <2>11. CASE UNCHANGED vars
    BY <2>11, UnchangedKeeps
  <2>12. QED
    BY <2>1, <2>2, <2>3, <2>4, <2>5, <2>6, <2>7, <2>8, <2>9, <2>10, <2>11 DEF Next
<1>2. QED
  BY InitialInv, <1>1, PTL DEF Spec

-----------------------------------------------------------------------------
\* Whichever calls fail, a program ends with a session or a key left in the
\* HSM only if deinit() failed too, or if main.cpp gave up before its cleanup.
THEOREM LeavesNothingBehind == Spec => []CleansUp
<1>1. DInv => CleansUp
  <2> SUFFICES ASSUME DInv, Finished, Holding,
                      stopped \in {"never", "OK"},
                      ~(program = "main.cpp" /\ pc = "failure")
               PROVE  FALSE
    BY DEF CleansUp
  <2>1. ~isInitialized_ /\ FacadeSound
    BY DEF DInv, Progress, AtExit, HsmInv
  <2>2. Sessions!LiveIds = {}
    BY <2>1 DEF FacadeSound, Sessions!LiveIds, Sessions!ActiveSlots
  <2>3. \A s \in Keystore!KeySlot : keySlots_[s].key = Keystore!BlankKey
    BY <2>1 DEF FacadeSound, EmptySlot
  <2>4. QED
    BY <2>2, <2>3 DEF Holding
<1>2. QED
  BY Invariance, <1>1, PTL

\* A text is only ever encrypted and decrypted under the imported key, in the
\* one session that is open.
THEOREM TransformsWithOwnKey == Spec => []OwnKeyAndSession
<1>1. DInv => OwnKeyAndSession
  BY DEF DInv, Progress, InSession, WithKey, OwnKey, OwnKeyAndSession
<1>2. QED
  BY Invariance, <1>1, PTL
=============================================================================
