---------------------------- MODULE HsmApiProofs ----------------------------
(***************************************************************************)
(* What each operation of the facade does to the state of its services, for   *)
(* every choice of the services that may fail (Faulty), and the invariant of   *)
(* the services that all clients of the facade share.                        *)
(***************************************************************************)
EXTENDS HsmApi, TLAPS

SlotRecord == [info : Keystore!InfoType, key : Keystore!KeyType,
               accessCount : 0 .. CountRange - 1]
SessionRecord == [id : Sessions!SessionId, isActive : BOOLEAN]

\* An occupied slot exists only in a running keystore; any other slot has the
\* description and the memory that secureClear() leaves.
EmptySlot(slot) == /\ ~slot.info.isOccupied
                   /\ slot.info = Keystore!BlankInfo /\ slot.key = Keystore!BlankKey

SlotsSound == \A s \in Keystore!KeySlot :
    \/ keySlots_[s].info.isOccupied /\ ksInitialized_
    \/ EmptySlot(keySlots_[s])

\* A facade that is down holds nothing.  One that is up was given its services
\* and started the session manager.
FacadeSound ==
    IF isInitialized_
      THEN wiring.api /\ smInitialized_
      ELSE /\ \A i \in Sessions!Slot : ~sessions_[i].isActive
           /\ \A s \in Keystore!KeySlot : EmptySlot(keySlots_[s])

HsmInv == HsmTypeOK /\ SlotsSound /\ FacadeSound

-----------------------------------------------------------------------------
(* What an operation does to one service.                                   *)

SessionsSame == UNCHANGED sessionVars
SessionsReset(up) ==
    /\ sessions_' = [i \in Sessions!Slot |-> Sessions!NoSession]
    /\ smInitialized_' = up
    /\ nextSessionId_' = IF up THEN 1 ELSE nextSessionId_

KeystoreSame == UNCHANGED keystoreVars
KeystoreBlank(up) ==
    /\ keySlots_' = [s \in Keystore!KeySlot |-> Keystore!BlankSlot]
    /\ ksInitialized_' = up
SlotBecomes(s, slot) ==
    /\ s \in Keystore!KeySlot /\ ksInitialized_
    /\ keySlots_' = [keySlots_ EXCEPT ![s] = slot]
    /\ ksInitialized_' = ksInitialized_

\* init() starts the services in order and reports the first failure.
LEMMA InitEffect ==
    ASSUME NEW status, init(status)
    PROVE  /\ wiring' = wiring
           /\ \/ UNCHANGED hsmVars /\ (status = "OK" <=> isInitialized_)
              \/ /\ ~isInitialized_ /\ wiring.api
                 /\ isInitialized_' \in {isInitialized_, status = "OK"}
                 /\ isInitialized_' => status = "OK" /\ smInitialized_' /\ ksInitialized_'
                 /\ status = "OK" => isInitialized_'
                 /\ SessionsSame \/ SessionsReset(TRUE)
                 /\ KeystoreSame \/ KeystoreBlank(TRUE)
<1>1. CASE UNCHANGED hsmVars /\ (status = "OK" <=> isInitialized_)
  BY <1>1 DEF hsmVars
<1>2. CASE ~isInitialized_ /\ wiring.api /\ StartServices(status) /\ UNCHANGED wiring
  <2>1. PICK s1 \in StatusCode :
          /\ CallSessions(Sessions!init(s1), s1)
          /\ IF s1 # "OK"
               THEN status = s1 /\ UNCHANGED <<keystoreVars, isInitialized_>>
               ELSE \E s2 \in StatusCode :
                      /\ CallKeystore(Keystore!init(s2), s2)
                      /\ IF s2 # "OK"
                           THEN status = s2 /\ UNCHANGED isInitialized_
                           ELSE /\ CallCrypto(InitCrypto(status), status)
                                /\ isInitialized_' = (status = "OK")
    BY <1>2 DEF StartServices
  <2>2. /\ SessionsSame \/ SessionsReset(TRUE)
        /\ s1 = "OK" => smInitialized_'
    BY <2>1 DEF CallSessions, Fails, Sessions!init, Sessions!smVars, sessionVars,
                SessionsSame, SessionsReset
  <2>3. CASE s1 # "OK"
    BY <1>2, <2>1, <2>2, <2>3 DEF KeystoreSame
  <2>4. CASE s1 = "OK"
    <3>1. PICK s2 \in StatusCode :
            /\ CallKeystore(Keystore!init(s2), s2)
            /\ IF s2 # "OK"
                 THEN status = s2 /\ UNCHANGED isInitialized_
                 ELSE /\ CallCrypto(InitCrypto(status), status)
                      /\ isInitialized_' = (status = "OK")
      BY <2>1, <2>4
    <3>2. /\ KeystoreSame \/ KeystoreBlank(TRUE)
          /\ s2 = "OK" => ksInitialized_'
      BY <3>1 DEF CallKeystore, Fails, Keystore!init, Keystore!ksVars, keystoreVars,
                  KeystoreSame, KeystoreBlank
    <3>3. QED
      BY <1>2, <2>2, <2>4, <3>1, <3>2
  <2>5. QED
    BY <2>3, <2>4
<1>3. QED
  BY <1>1, <1>2 DEF init

\* deinit() stops them in the opposite order, and is over at the first failure.
LEMMA DeinitEffect ==
    ASSUME NEW status, deinit(status)
    PROVE  /\ wiring' = wiring
           /\ \/ UNCHANGED hsmVars /\ status # "OK"
              \/ /\ isInitialized_
                 /\ isInitialized_' \in {isInitialized_, status # "OK"}
                 /\ SessionsSame \/ SessionsReset(FALSE)
                 /\ KeystoreSame \/ KeystoreBlank(FALSE)
                 /\ IF status = "OK"
                      THEN ~isInitialized_' /\ SessionsReset(FALSE) /\ KeystoreBlank(FALSE)
                      ELSE isInitialized_' /\ SessionsSame
<1>1. CASE ~isInitialized_ /\ status = "ERR_NOT_INITIALIZED" /\ UNCHANGED hsmVars
  BY <1>1 DEF hsmVars
<1>2. CASE isInitialized_ /\ StopServices(status) /\ UNCHANGED wiring
  <2>1. PICK s1 \in StatusCode :
          /\ CallCrypto(DeinitCrypto(s1), s1)
          /\ IF s1 # "OK"
               THEN status = s1 /\ UNCHANGED <<sessionVars, keystoreVars, isInitialized_>>
               ELSE \E s2 \in StatusCode :
                      /\ CallKeystore(Keystore!deinit(s2), s2)
                      /\ IF s2 # "OK"
                           THEN status = s2 /\ UNCHANGED <<sessionVars, isInitialized_>>
                           ELSE /\ CallSessions(Sessions!deinit(status), status)
                                /\ isInitialized_' = (status # "OK")
    BY <1>2 DEF StopServices
  <2>2. CASE s1 # "OK"
    BY <1>2, <2>1, <2>2 DEF SessionsSame, KeystoreSame
  <2>3. CASE s1 = "OK"
    <3>1. PICK s2 \in StatusCode :
            /\ CallKeystore(Keystore!deinit(s2), s2)
            /\ IF s2 # "OK"
                 THEN status = s2 /\ UNCHANGED <<sessionVars, isInitialized_>>
                 ELSE /\ CallSessions(Sessions!deinit(status), status)
                      /\ isInitialized_' = (status # "OK")
      BY <2>1, <2>3
    <3>2. /\ KeystoreSame \/ KeystoreBlank(FALSE)
          /\ s2 = "OK" => KeystoreBlank(FALSE)
      BY <3>1 DEF CallKeystore, Fails, Keystore!deinit, Keystore!ksVars, keystoreVars,
                  Keystore!Cleared, KeystoreSame, KeystoreBlank
    <3>3. CASE s2 # "OK"
      BY <1>2, <3>1, <3>2, <3>3 DEF SessionsSame
    <3>4. CASE s2 = "OK"
      <4>1. /\ SessionsSame \/ SessionsReset(FALSE)
            /\ status = "OK" => SessionsReset(FALSE)
            /\ status # "OK" => SessionsSame
        BY <3>1, <3>4 DEF CallSessions, Fails, Sessions!deinit, Sessions!smVars,
                          sessionVars, SessionsSame, SessionsReset
      <4>2. QED
        BY <1>2, <3>1, <3>2, <3>4, <4>1
    <3>5. QED
      BY <3>3, <3>4
  <2>4. QED
    BY <2>2, <2>3
<1>3. QED
  BY <1>1, <1>2 DEF deinit

\* A call that is passed on while the facade is up leaves the facade's own flag
\* and its wiring alone.
FacadeSame == isInitialized_' = isInitialized_ /\ wiring' = wiring

LEMMA CreateEffect ==
    ASSUME Sessions!SMTypeOK, NEW status, NEW id, createSession(status, id)
    PROVE  /\ FacadeSame /\ KeystoreSame
           /\ \/ SessionsSame /\ status # "OK"
              \/ /\ isInitialized_ /\ smInitialized_ /\ status = "OK"
                 /\ id = nextSessionId_
                 /\ smInitialized_' = smInitialized_
                 /\ nextSessionId_' = Sessions!Successor(nextSessionId_)
                 /\ \E i \in Sessions!Slot :
                      /\ ~sessions_[i].isActive
                      /\ sessions_' = [sessions_ EXCEPT ![i] =
                                         [id |-> id, isActive |-> TRUE]]
<1>1. CASE RefusedWhileDown(status)
  BY <1>1 DEF RefusedWhileDown, hsmVars, FacadeSame, KeystoreSame, SessionsSame
<1>2. CASE /\ isInitialized_
           /\ Fails("sessions", status) /\ UNCHANGED sessionVars
           /\ UNCHANGED <<keystoreVars, isInitialized_, wiring>>
  BY <1>2 DEF Fails, FacadeSame, KeystoreSame, SessionsSame
<1>3. CASE /\ isInitialized_
           /\ Sessions!createSession(status, id)
           /\ UNCHANGED <<keystoreVars, isInitialized_, wiring>>
  <2>1. CASE status # "OK"
    BY <1>3, <2>1 DEF Sessions!createSession, Sessions!smVars, sessionVars,
                      FacadeSame, KeystoreSame, SessionsSame
  <2>2. CASE status = "OK"
    <3>1. /\ smInitialized_ /\ id = nextSessionId_
          /\ smInitialized_' = smInitialized_
          /\ nextSessionId_' = Sessions!Successor(nextSessionId_)
          /\ \E i \in Sessions!Slot :
               /\ Sessions!First(i, Sessions!FreeSlots)
               /\ sessions_' = [sessions_ EXCEPT ![i] = [id |-> id, isActive |-> TRUE]]
      BY <1>3, <2>2 DEF Sessions!createSession
    <3>2. \A i \in Sessions!Slot : Sessions!First(i, Sessions!FreeSlots)
                                      => ~sessions_[i].isActive
      BY DEF Sessions!First, Sessions!FreeSlots, Sessions!ActiveSlots
    <3>3. QED
      BY <1>3, <2>2, <3>1, <3>2 DEF FacadeSame, KeystoreSame
  <2>3. QED
    BY <2>1, <2>2
<1>4. QED
  BY <1>1, <1>2, <1>3 DEF createSession

LEMMA CloseEffect ==
    ASSUME Sessions!SMTypeOK, NEW id, NEW status, closeSession(id, status)
    PROVE  /\ FacadeSame /\ KeystoreSame
           /\ \/ SessionsSame /\ status # "OK"
              \/ /\ isInitialized_ /\ smInitialized_ /\ status = "OK"
                 /\ UNCHANGED <<smInitialized_, nextSessionId_>>
                 /\ \E i \in Sessions!ActiveSlots :
                      /\ sessions_[i].id = id
                      /\ sessions_' = [sessions_ EXCEPT ![i] = Sessions!NoSession]
<1>1. CASE RefusedWhileDown(status)
  BY <1>1 DEF RefusedWhileDown, hsmVars, FacadeSame, KeystoreSame, SessionsSame
<1>2. CASE /\ isInitialized_
           /\ CallSessions(Sessions!closeSession(id, status), status)
           /\ UNCHANGED <<keystoreVars, isInitialized_, wiring>>
  <2>1. CASE status # "OK"
    BY <1>2, <2>1 DEF CallSessions, Fails, Sessions!closeSession, Sessions!smVars,
                      sessionVars, FacadeSame, KeystoreSame, SessionsSame
  <2>2. CASE status = "OK"
    <3>1. /\ smInitialized_
          /\ UNCHANGED <<smInitialized_, nextSessionId_>>
          /\ \E i \in Sessions!Slot :
               /\ Sessions!First(i, {j \in Sessions!Slot : Sessions!Holds(j, id)})
               /\ sessions_' = [sessions_ EXCEPT ![i] = Sessions!NoSession]
      BY <1>2, <2>2 DEF CallSessions, Fails, Sessions!closeSession
    <3>2. \A i \in Sessions!Slot :
            Sessions!First(i, {j \in Sessions!Slot : Sessions!Holds(j, id)})
              => i \in Sessions!ActiveSlots /\ sessions_[i].id = id
      BY DEF Sessions!First, Sessions!Holds, Sessions!ActiveSlots
    <3>3. QED
      BY <1>2, <2>2, <3>1, <3>2 DEF FacadeSame, KeystoreSame
  <2>3. QED
    BY <2>1, <2>2
<1>3. QED
  BY <1>1, <1>2 DEF closeSession

LEMMA ImportEffect ==
    ASSUME NEW s, NEW a, NEW d, NEW p, NEW status, importKey(s, a, d, p, status)
    PROVE  /\ FacadeSame /\ SessionsSame
           /\ \/ KeystoreSame /\ status # "OK"
              \/ /\ isInitialized_ /\ status = "OK"
                 /\ Keystore!AcceptableSize(d) /\ ~keySlots_[s].info.isOccupied
                 /\ SlotBecomes(s, Keystore!Filled(keySlots_[s], s, a, d, p))
<1>1. CASE RefusedWhileDown(status)
  BY <1>1 DEF RefusedWhileDown, hsmVars, FacadeSame, KeystoreSame, SessionsSame
<1>2. CASE /\ isInitialized_
           /\ CallKeystore(Keystore!importKey(s, a, d, p, status), status)
           /\ UNCHANGED <<sessionVars, isInitialized_, wiring>>
  <2>1. CASE status # "OK"
    BY <1>2, <2>1 DEF CallKeystore, Fails, Keystore!importKey, Keystore!ksVars,
                      keystoreVars, FacadeSame, KeystoreSame, SessionsSame
  <2>2. CASE status = "OK"
    <3>1. /\ ksInitialized_ /\ s \in Keystore!KeySlot
          /\ Keystore!AcceptableSize(d) /\ ~keySlots_[s].info.isOccupied
          /\ keySlots_' = [keySlots_ EXCEPT ![s] = Keystore!Filled(@, s, a, d, p)]
          /\ ksInitialized_' = ksInitialized_
      BY <1>2, <2>2 DEF CallKeystore, Fails, Keystore!importKey,
                        Keystore!isValidSlotId, Keystore!isSlotOccupied
    <3>2. QED
      BY <1>2, <2>2, <3>1 DEF FacadeSame, SessionsSame, SlotBecomes
  <2>3. QED
    BY <2>1, <2>2
<1>3. QED
  BY <1>1, <1>2 DEF importKey

LEMMA DeleteEffect ==
    ASSUME NEW s, NEW status, deleteKey(s, status)
    PROVE  /\ FacadeSame /\ SessionsSame
           /\ \/ KeystoreSame /\ status # "OK"
              \/ /\ isInitialized_ /\ status = "OK" /\ keySlots_[s].info.isOccupied
                 /\ SlotBecomes(s, Keystore!BlankSlot)
<1>1. CASE RefusedWhileDown(status)
  BY <1>1 DEF RefusedWhileDown, hsmVars, FacadeSame, KeystoreSame, SessionsSame
<1>2. CASE /\ isInitialized_
           /\ CallKeystore(Keystore!deleteKey(s, status), status)
           /\ UNCHANGED <<sessionVars, isInitialized_, wiring>>
  BY <1>2 DEF CallKeystore, Fails, Keystore!deleteKey, Keystore!ksVars, keystoreVars,
              Keystore!isValidSlotId, Keystore!isSlotOccupied, Keystore!Cleared,
              FacadeSame, KeystoreSame, SessionsSame, SlotBecomes
<1>3. QED
  BY <1>1, <1>2 DEF deleteKey

LEMMA InfoEffect ==
    ASSUME NEW s, NEW status, getKeySlotInfo(s, status)
    PROVE  FacadeSame /\ SessionsSame /\ KeystoreSame
BY DEF getKeySlotInfo, CallKeystore, Keystore!getSlotInfo, Keystore!ksVars,
       keystoreVars, RefusedWhileDown, hsmVars, FacadeSame, SessionsSame, KeystoreSame

LEMMA ClearEffect ==
    ASSUME NEW status, clearAllKeys(status)
    PROVE  /\ FacadeSame /\ SessionsSame
           /\ \/ KeystoreSame /\ status # "OK"
              \/ /\ isInitialized_ /\ status = "OK" /\ ksInitialized_
                 /\ KeystoreBlank(ksInitialized_)
BY DEF clearAllKeys, CallKeystore, Fails, Keystore!clearAll, Keystore!Cleared,
       Keystore!ksVars, keystoreVars, RefusedWhileDown, hsmVars, FacadeSame,
       SessionsSame, KeystoreSame, KeystoreBlank

\* encrypt() and decrypt() change at most the access counter of the key they
\* fetched, and succeed only if every check of theirs and of the services does.
Counted(s) == [keySlots_[s] EXCEPT !.accessCount = Keystore!NextCount(@)]

LEMMA FetchEffect ==
    ASSUME NEW s, NEW status, Keystore!getKey(s, status)
    PROVE  \/ KeystoreSame /\ status # "OK"
           \/ /\ status = "OK" /\ keySlots_[s].info.isOccupied
              /\ SlotBecomes(s, Counted(s))
BY DEF Keystore!getKey, Keystore!isSlotOccupied, Keystore!isValidSlotId,
       Keystore!ksVars, keystoreVars, KeystoreSame, SlotBecomes, Counted

LEMMA CryptEffect ==
    ASSUME NEW flag, NEW id, NEW s, NEW in, NEW out, NEW status,
           crypt(flag, id, s, in, out, status)
    PROVE  /\ FacadeSame /\ SessionsSame
           /\ \/ KeystoreSame
              \/ keySlots_[s].info.isOccupied /\ SlotBecomes(s, Counted(s))
           /\ status = "OK"
                => /\ isSessionValid(id) /\ ~BadBuffers(in, out)
                   /\ wiring.algorithm /\ wiring.keystore
                   /\ Permits(flag, s) /\ keySlots_[s].info.isOccupied
                   /\ s \in Keystore!KeySlot /\ ksInitialized_
<1>1. PICK described \in StatusCode :
        LET admission == Admission(flag, id, s, in, out, described)
        IN  \/ admission # "OK" /\ status = admission /\ UNCHANGED hsmVars
            \/ /\ admission = "OK"
               /\ \/ Transform(in, out, s, status)
                  \/ /\ Fails("keystore", status) \/ Fails("crypto", status)
                     /\ UNCHANGED keystoreVars
                  \/ /\ Fails("crypto", status)
                     /\ Keystore!getKey(s, "OK")
               /\ UNCHANGED <<sessionVars, isInitialized_, wiring>>
  BY DEF crypt
<1> DEFINE admission == Admission(flag, id, s, in, out, described)
<1>2. CASE admission # "OK" /\ status = admission /\ UNCHANGED hsmVars
  BY <1>2 DEF hsmVars, FacadeSame, SessionsSame, KeystoreSame
<1>3. ASSUME admission = "OK"
      PROVE  isSessionValid(id) /\ ~BadBuffers(in, out) /\ Permits(flag, s)
  BY <1>3 DEF Admission
<1> HIDE DEF admission
<1>4. CASE /\ admission = "OK"
           /\ UNCHANGED <<sessionVars, isInitialized_, wiring>>
           /\ Transform(in, out, s, status)
  <2>1. FacadeSame /\ SessionsSame
    BY <1>4 DEF FacadeSame, SessionsSame
  <2>2. \/ KeystoreSame /\ status # "OK"
        \/ /\ wiring.algorithm /\ wiring.keystore
           /\ \E fetched \in StatusCode :
                /\ Keystore!getKey(s, fetched)
                /\ status = IF fetched # "OK" THEN fetched
                            ELSE AlgorithmStatus(in, out)
    BY <1>4 DEF Transform, KeystoreSame
  <2>3. \/ KeystoreSame /\ status # "OK"
        \/ /\ wiring.algorithm /\ wiring.keystore
           /\ keySlots_[s].info.isOccupied /\ SlotBecomes(s, Counted(s))
    BY <2>2, FetchEffect
  <2>4. QED
    BY <1>3, <1>4, <2>1, <2>3 DEF SlotBecomes
<1>5. CASE /\ admission = "OK"
           /\ UNCHANGED <<sessionVars, isInitialized_, wiring>>
           /\ Fails("keystore", status) \/ Fails("crypto", status)
           /\ UNCHANGED keystoreVars
  BY <1>5 DEF Fails, FacadeSame, SessionsSame, KeystoreSame
<1>6. CASE /\ admission = "OK"
           /\ UNCHANGED <<sessionVars, isInitialized_, wiring>>
           /\ Fails("crypto", status) /\ Keystore!getKey(s, "OK")
  BY <1>6, FetchEffect DEF Fails, FacadeSame, SessionsSame
<1>7. QED
  BY <1>1, <1>2, <1>4, <1>5, <1>6 DEF admission

-----------------------------------------------------------------------------
(* The invariant of the keystore, and of the session table.                  *)

KeystoreInv == Keystore!KSTypeOK /\ SlotsSound

LEMMA BlankSlotSound ==
    Keystore!BlankSlot \in SlotRecord /\ EmptySlot(Keystore!BlankSlot)
<1>1. Keystore!BlankInfo \in Keystore!InfoType
  BY ServiceAssumption DEF Keystore!KeystoreAssumption, Keystore!BlankInfo,
                           Keystore!InfoType, Keystore!KeySlot
<1>2. Keystore!BlankKey \in Keystore!KeyType
  BY ServiceAssumption DEF Keystore!KeystoreAssumption, Keystore!BlankKey,
                           Keystore!KeyType, Keystore!BlankMemory
<1>3. 0 \in 0 .. CountRange - 1
  BY ServiceAssumption DEF Keystore!KeystoreAssumption
<1>4. Keystore!BlankSlot \in SlotRecord
  BY <1>1, <1>2, <1>3 DEF Keystore!BlankSlot, SlotRecord
<1>5. EmptySlot(Keystore!BlankSlot)
  BY DEF EmptySlot, Keystore!BlankSlot, Keystore!BlankInfo
<1>6. QED
  BY <1>4, <1>5

LEMMA FilledSound ==
    ASSUME Keystore!KSTypeOK, NEW s \in Keystore!KeySlot, NEW a \in Algorithm,
           NEW d \in Keystore!KeyData, NEW p \in Permissions,
           Keystore!AcceptableSize(d)
    PROVE  LET slot == Keystore!Filled(keySlots_[s], s, a, d, p)
           IN  slot \in SlotRecord /\ slot.info.isOccupied
<1>1. d.size \in 0 .. kMaxKeySize /\ d.material \in KeyMaterial
  BY ServiceAssumption DEF Keystore!KeystoreAssumption, Keystore!AcceptableSize,
                           Keystore!KeyData
<1>2. Keystore!CopyInto(keySlots_[s].key.data, d)
        \in [Keystore!Cell -> KeyMaterial \cup {Zero}]
  BY <1>1 DEF Keystore!CopyInto, Keystore!KSTypeOK, Keystore!KeyType
<1>3. 0 \in 0 .. CountRange - 1
  BY ServiceAssumption DEF Keystore!KeystoreAssumption
<1>4. QED
  BY <1>1, <1>2, <1>3 DEF Keystore!Filled, Keystore!InfoType, Keystore!KeyType,
                          SlotRecord

LEMMA CountedSound ==
    ASSUME Keystore!KSTypeOK, NEW s \in Keystore!KeySlot
    PROVE  /\ Counted(s) \in SlotRecord
           /\ Counted(s).info = keySlots_[s].info /\ Counted(s).key = keySlots_[s].key
<1>1. keySlots_[s] \in SlotRecord
  BY DEF Keystore!KSTypeOK, SlotRecord
<1>2. Keystore!NextCount(keySlots_[s].accessCount) \in 0 .. CountRange - 1
  BY <1>1, ServiceAssumption DEF Keystore!KeystoreAssumption, Keystore!NextCount,
                                 SlotRecord
<1>3. QED
  BY <1>1, <1>2 DEF Counted, SlotRecord

\* The three kinds of effect on the keystore preserve its invariant.
LEMMA KeystoreSameKeeps == ASSUME KeystoreInv, KeystoreSame PROVE KeystoreInv'
BY DEF KeystoreInv, KeystoreSame, keystoreVars, Keystore!KSTypeOK, SlotsSound

LEMMA KeystoreBlankKeeps ==
    ASSUME NEW up \in BOOLEAN, KeystoreBlank(up)
    PROVE  KeystoreInv' /\ \A s \in Keystore!KeySlot : EmptySlot(keySlots_'[s])
BY BlankSlotSound DEF KeystoreInv, KeystoreBlank, Keystore!KSTypeOK, SlotsSound,
                      SlotRecord

LEMMA SlotBecomesKeeps ==
    ASSUME KeystoreInv, NEW s, NEW slot, SlotBecomes(s, slot), slot \in SlotRecord,
           slot.info.isOccupied \/ EmptySlot(slot)
    PROVE  KeystoreInv'
<1>1. \A t \in Keystore!KeySlot :
         keySlots_'[t] = IF t = s THEN slot ELSE keySlots_[t]
  BY DEF SlotBecomes, KeystoreInv, Keystore!KSTypeOK
<1>2. Keystore!KSTypeOK'
  BY DEF SlotBecomes, KeystoreInv, Keystore!KSTypeOK, SlotRecord
<1>3. ksInitialized_' = ksInitialized_ /\ ksInitialized_
  BY DEF SlotBecomes
<1>4. SlotsSound'
  BY <1>1, <1>3 DEF SlotsSound, KeystoreInv
<1>5. QED
  BY <1>2, <1>4 DEF KeystoreInv

LEMMA NoSessionType == Sessions!NoSession \in SessionRecord
BY ServiceAssumption DEF Sessions!SessionAssumption, Sessions!NoSession,
                         Sessions!SessionId, SessionRecord

LEMMA SuccessorType ==
    ASSUME NEW id \in Sessions!IssuedId
    PROVE  Sessions!Successor(id) \in Sessions!IssuedId
BY ServiceAssumption DEF Sessions!SessionAssumption, Sessions!IssuedId,
                         Sessions!Successor

LEMMA SessionsSameKeeps ==
    ASSUME Sessions!SMTypeOK, SessionsSame PROVE Sessions!SMTypeOK'
BY DEF SessionsSame, sessionVars, Sessions!SMTypeOK

LEMMA SessionsResetKeeps ==
    ASSUME Sessions!SMTypeOK, NEW up \in BOOLEAN, SessionsReset(up)
    PROVE  /\ Sessions!SMTypeOK'
           /\ \A i \in Sessions!Slot : ~sessions_'[i].isActive
BY NoSessionType, ServiceAssumption
   DEF SessionsReset, Sessions!SMTypeOK, SessionRecord, Sessions!NoSession,
       Sessions!SessionAssumption, Sessions!IssuedId

LEMMA SessionWriteKeeps ==
    ASSUME Sessions!SMTypeOK, NEW i \in Sessions!Slot, NEW session \in SessionRecord,
           sessions_' = [sessions_ EXCEPT ![i] = session],
           smInitialized_' = smInitialized_,
           nextSessionId_' \in Sessions!IssuedId
    PROVE  Sessions!SMTypeOK'
BY DEF Sessions!SMTypeOK, SessionRecord

-----------------------------------------------------------------------------
(* Every operation of the facade preserves the invariant.                    *)

LEMMA HsmInvParts ==
    HsmInv <=> /\ Sessions!SMTypeOK /\ KeystoreInv /\ FacadeSound
               /\ isInitialized_ \in BOOLEAN /\ wiring \in Wiring
BY DEF HsmInv, HsmTypeOK, KeystoreInv

LEMMA HsmSameKeeps == ASSUME HsmInv, UNCHANGED hsmVars PROVE HsmInv'
<1>1. /\ SessionsSame /\ KeystoreSame
      /\ isInitialized_' = isInitialized_ /\ wiring' = wiring
  BY DEF hsmVars, SessionsSame, KeystoreSame
<1>2. Sessions!SMTypeOK' /\ KeystoreInv'
  BY <1>1, SessionsSameKeeps, KeystoreSameKeeps, HsmInvParts
<1>3. FacadeSound'
  BY <1>1, HsmInvParts DEF FacadeSound, SessionsSame, KeystoreSame, sessionVars,
                           keystoreVars, EmptySlot
<1>4. QED
  BY <1>1, <1>2, <1>3 DEF HsmInv, HsmTypeOK, KeystoreInv

\* A call that the facade passes on: it is up, and stays so.
LEMMA PassedOnKeeps ==
    ASSUME HsmInv, FacadeSame, isInitialized_, smInitialized_' = smInitialized_,
           Sessions!SMTypeOK', KeystoreInv'
    PROVE  HsmInv'
BY DEF HsmInv, HsmTypeOK, KeystoreInv, FacadeSound, FacadeSame

LEMMA InitInvariant ==
    ASSUME NEW Ways \in SUBSET Wiring, HsmInit(Ways)
    PROVE  HsmInv /\ \A i \in Sessions!Slot : ~sessions_[i].isActive
<1>1. PICK n \in 0 .. CountRange - 1 : keySlots_ =
         [s \in Keystore!KeySlot |-> [Keystore!BlankSlot EXCEPT !.accessCount = n]]
  BY DEF HsmInit, Keystore!KSInit
<1>2. [Keystore!BlankSlot EXCEPT !.accessCount = n] \in SlotRecord
  BY BlankSlotSound DEF SlotRecord
<1>3. EmptySlot([Keystore!BlankSlot EXCEPT !.accessCount = n])
  BY DEF EmptySlot, Keystore!BlankSlot, Keystore!BlankInfo
<1>4. Keystore!KSTypeOK /\ \A s \in Keystore!KeySlot : EmptySlot(keySlots_[s])
  BY <1>1, <1>2, <1>3 DEF HsmInit, Keystore!KSInit, Keystore!KSTypeOK, SlotRecord
<1>5. /\ Sessions!SMTypeOK
      /\ \A i \in Sessions!Slot : ~sessions_[i].isActive
  <2>1. 1 \in Sessions!IssuedId
    BY ServiceAssumption DEF Sessions!SessionAssumption, Sessions!IssuedId
  <2>2. /\ sessions_ = [i \in Sessions!Slot |-> Sessions!NoSession]
        /\ smInitialized_ = FALSE /\ nextSessionId_ = 1
    BY DEF HsmInit, Sessions!SMInit
  <2>3. QED
    BY <2>1, <2>2, NoSessionType
       DEF Sessions!SMTypeOK, SessionRecord, Sessions!NoSession
<1>6. isInitialized_ = FALSE /\ wiring \in Wiring
  BY DEF HsmInit
<1>7. QED
  BY <1>4, <1>5, <1>6 DEF HsmInv, HsmTypeOK, SlotsSound, FacadeSound

\* A failed start leaves the services blank; so does a successful one.
LEMMA InitKeeps == ASSUME HsmInv, NEW status, init(status) PROVE HsmInv'
<1>1. CASE UNCHANGED hsmVars
  BY <1>1, HsmSameKeeps
<1>2. CASE /\ ~isInitialized_ /\ wiring.api
           /\ isInitialized_' \in {isInitialized_, status = "OK"}
           /\ isInitialized_' => status = "OK" /\ smInitialized_' /\ ksInitialized_'
           /\ SessionsSame \/ SessionsReset(TRUE)
           /\ KeystoreSame \/ KeystoreBlank(TRUE)
           /\ wiring' = wiring
  <2>1. Sessions!SMTypeOK' /\ \A i \in Sessions!Slot : ~sessions_'[i].isActive
    <3>1. \A i \in Sessions!Slot : ~sessions_[i].isActive
      BY <1>2, HsmInvParts DEF FacadeSound
    <3>2. CASE SessionsSame
      BY <3>1, <3>2, SessionsSameKeeps, HsmInvParts DEF SessionsSame, sessionVars
    <3>3. CASE SessionsReset(TRUE)
      BY <3>3, SessionsResetKeeps, HsmInvParts
    <3>4. QED
      BY <1>2, <3>2, <3>3
  <2>2. KeystoreInv' /\ \A s \in Keystore!KeySlot : EmptySlot(keySlots_'[s])
    <3>1. \A s \in Keystore!KeySlot : EmptySlot(keySlots_[s])
      BY <1>2, HsmInvParts DEF FacadeSound
    <3>2. CASE KeystoreSame
      BY <3>1, <3>2, KeystoreSameKeeps, HsmInvParts DEF KeystoreSame, keystoreVars
    <3>3. CASE KeystoreBlank(TRUE)
      BY <3>3, KeystoreBlankKeeps
    <3>4. QED
      BY <1>2, <3>2, <3>3
  <2>3. isInitialized_' \in BOOLEAN /\ wiring' \in Wiring
    BY <1>2, HsmInvParts
  <2>4. FacadeSound'
    BY <1>2, <2>1, <2>2 DEF FacadeSound, EmptySlot
  <2>5. QED
    BY <2>1, <2>2, <2>3, <2>4 DEF HsmInv, HsmTypeOK, KeystoreInv
<1>3. QED
  BY <1>1, <1>2, InitEffect

LEMMA DeinitKeeps == ASSUME HsmInv, NEW status, deinit(status) PROVE HsmInv'
<1>1. CASE UNCHANGED hsmVars
  BY <1>1, HsmSameKeeps
<1>2. CASE /\ isInitialized_ /\ wiring' = wiring
           /\ isInitialized_' \in {isInitialized_, status # "OK"}
           /\ SessionsSame \/ SessionsReset(FALSE)
           /\ KeystoreSame \/ KeystoreBlank(FALSE)
           /\ IF status = "OK"
                THEN ~isInitialized_' /\ SessionsReset(FALSE) /\ KeystoreBlank(FALSE)
                ELSE isInitialized_' /\ SessionsSame
  <2>1. Sessions!SMTypeOK' /\ KeystoreInv'
    BY <1>2, SessionsSameKeeps, SessionsResetKeeps, KeystoreSameKeeps,
       KeystoreBlankKeeps, HsmInvParts
  <2>2. isInitialized_' \in BOOLEAN /\ wiring' \in Wiring
    BY <1>2, HsmInvParts
  <2>3. FacadeSound'
    <3>1. CASE status = "OK"
      <4>1. \A i \in Sessions!Slot : ~sessions_'[i].isActive
        BY <1>2, <3>1, SessionsResetKeeps, HsmInvParts
      <4>2. \A s \in Keystore!KeySlot : EmptySlot(keySlots_'[s])
        BY <1>2, <3>1, KeystoreBlankKeeps
      <4>3. QED
        BY <1>2, <3>1, <4>1, <4>2 DEF FacadeSound, EmptySlot
    <3>2. CASE status # "OK"
      BY <1>2, <3>2, HsmInvParts DEF FacadeSound, SessionsSame, sessionVars
    <3>3. QED
      BY <3>1, <3>2
  <2>4. QED
    BY <2>1, <2>2, <2>3 DEF HsmInv, HsmTypeOK, KeystoreInv
<1>3. QED
  BY <1>1, <1>2, DeinitEffect

LEMMA KeystoreCallKeeps ==
    ASSUME HsmInv, FacadeSame, SessionsSame, KeystoreInv', isInitialized_
    PROVE  HsmInv'
<1>1. Sessions!SMTypeOK' /\ smInitialized_' = smInitialized_
  BY SessionsSameKeeps, HsmInvParts DEF SessionsSame, sessionVars
<1>2. QED
  BY <1>1, PassedOnKeeps

LEMMA AllSameKeeps ==
    ASSUME HsmInv, FacadeSame, SessionsSame, KeystoreSame PROVE HsmInv'
BY HsmSameKeeps DEF hsmVars, FacadeSame, SessionsSame, KeystoreSame

LEMMA CreateKeeps ==
    ASSUME HsmInv, NEW status, NEW id, createSession(status, id) PROVE HsmInv'
<1>1. Sessions!SMTypeOK
  BY HsmInvParts
<1>2. FacadeSame /\ KeystoreSame
  BY <1>1, CreateEffect
<1>3. CASE SessionsSame
  BY <1>2, <1>3, AllSameKeeps
<1>4. CASE /\ isInitialized_ /\ smInitialized_ /\ status = "OK"
           /\ id = nextSessionId_
           /\ smInitialized_' = smInitialized_
           /\ nextSessionId_' = Sessions!Successor(nextSessionId_)
           /\ \E i \in Sessions!Slot :
                /\ ~sessions_[i].isActive
                /\ sessions_' = [sessions_ EXCEPT ![i] = [id |-> id, isActive |-> TRUE]]
  <2>1. nextSessionId_ \in Sessions!IssuedId
    BY <1>1 DEF Sessions!SMTypeOK
  <2>2. nextSessionId_' \in Sessions!IssuedId
    BY <1>4, <2>1, SuccessorType
  <2>3. [id |-> id, isActive |-> TRUE] \in SessionRecord
    BY <1>4, <2>1, ServiceAssumption
       DEF SessionRecord, Sessions!SessionId, Sessions!IssuedId,
           Sessions!SessionAssumption
  <2>4. Sessions!SMTypeOK'
    BY <1>1, <1>4, <2>2, <2>3, SessionWriteKeeps
  <2>5. KeystoreInv'
    BY <1>2, KeystoreSameKeeps, HsmInvParts
  <2>6. QED
    BY <1>2, <1>4, <2>4, <2>5, PassedOnKeeps
<1>5. QED
  BY <1>1, <1>3, <1>4, CreateEffect

LEMMA CloseKeeps ==
    ASSUME HsmInv, NEW id, NEW status, closeSession(id, status) PROVE HsmInv'
<1>1. Sessions!SMTypeOK
  BY HsmInvParts
<1>2. FacadeSame /\ KeystoreSame
  BY <1>1, CloseEffect
<1>3. CASE SessionsSame
  BY <1>2, <1>3, AllSameKeeps
<1>4. CASE /\ isInitialized_ /\ smInitialized_ /\ status = "OK"
           /\ UNCHANGED <<smInitialized_, nextSessionId_>>
           /\ \E i \in Sessions!ActiveSlots :
                /\ sessions_[i].id = id
                /\ sessions_' = [sessions_ EXCEPT ![i] = Sessions!NoSession]
  <2>1. nextSessionId_' \in Sessions!IssuedId
    BY <1>1, <1>4 DEF Sessions!SMTypeOK
  <2>2. Sessions!SMTypeOK'
    BY <1>1, <1>4, <2>1, NoSessionType, SessionWriteKeeps DEF Sessions!ActiveSlots
  <2>3. KeystoreInv'
    BY <1>2, KeystoreSameKeeps, HsmInvParts
  <2>4. QED
    BY <1>2, <1>4, <2>2, <2>3, PassedOnKeeps
<1>5. QED
  BY <1>1, <1>3, <1>4, CloseEffect

LEMMA ImportKeeps ==
    ASSUME HsmInv, NEW s, NEW a \in Algorithm, NEW d \in Keystore!KeyData,
           NEW p \in Permissions, NEW status, importKey(s, a, d, p, status)
    PROVE  HsmInv'
<1>1. FacadeSame /\ SessionsSame
  BY ImportEffect
<1>2. CASE KeystoreSame
  BY <1>1, <1>2, AllSameKeeps
<1>3. CASE /\ isInitialized_ /\ Keystore!AcceptableSize(d)
           /\ SlotBecomes(s, Keystore!Filled(keySlots_[s], s, a, d, p))
  <2> DEFINE new == Keystore!Filled(keySlots_[s], s, a, d, p)
  <2>1. s \in Keystore!KeySlot /\ Keystore!KSTypeOK
    BY <1>3, HsmInvParts DEF SlotBecomes, KeystoreInv
  <2>2. new \in SlotRecord /\ new.info.isOccupied /\ SlotBecomes(s, new)
    BY <1>3, <2>1, FilledSound
  <2> HIDE DEF new
  <2>3. KeystoreInv'
    BY <2>2, SlotBecomesKeeps, HsmInvParts
  <2>4. QED
    BY <1>1, <1>3, <2>3, KeystoreCallKeeps
<1>4. QED
  BY <1>2, <1>3, ImportEffect

LEMMA DeleteKeeps ==
    ASSUME HsmInv, NEW s, NEW status, deleteKey(s, status) PROVE HsmInv'
<1>1. FacadeSame /\ SessionsSame
  BY DeleteEffect
<1>2. CASE KeystoreSame
  BY <1>1, <1>2, AllSameKeeps
<1>3. CASE isInitialized_ /\ SlotBecomes(s, Keystore!BlankSlot)
  <2>1. KeystoreInv'
    BY <1>3, BlankSlotSound, SlotBecomesKeeps, HsmInvParts
  <2>2. QED
    BY <1>1, <1>3, <2>1, KeystoreCallKeeps
<1>4. QED
  BY <1>2, <1>3, DeleteEffect

LEMMA InfoKeeps ==
    ASSUME HsmInv, NEW s, NEW status, getKeySlotInfo(s, status) PROVE HsmInv'
BY InfoEffect, AllSameKeeps

LEMMA ClearKeeps ==
    ASSUME HsmInv, NEW status, clearAllKeys(status) PROVE HsmInv'
<1>1. FacadeSame /\ SessionsSame
  BY ClearEffect
<1>2. CASE KeystoreSame
  BY <1>1, <1>2, AllSameKeeps
<1>3. CASE isInitialized_ /\ KeystoreBlank(ksInitialized_)
  <2>1. ksInitialized_ \in BOOLEAN
    BY HsmInvParts DEF KeystoreInv, Keystore!KSTypeOK
  <2>2. KeystoreInv'
    BY <1>3, <2>1, KeystoreBlankKeeps
  <2>3. QED
    BY <1>1, <1>3, <2>2, KeystoreCallKeeps
<1>4. QED
  BY <1>2, <1>3, ClearEffect

LEMMA CryptKeeps ==
    ASSUME HsmInv, NEW flag, NEW id, NEW s, NEW in, NEW out, NEW status,
           crypt(flag, id, s, in, out, status)
    PROVE  HsmInv'
<1>1. FacadeSame /\ SessionsSame
  BY CryptEffect
<1>2. CASE KeystoreSame
  BY <1>1, <1>2, AllSameKeeps
<1>3. CASE keySlots_[s].info.isOccupied /\ SlotBecomes(s, Counted(s))
  <2>1. s \in Keystore!KeySlot /\ Keystore!KSTypeOK
    BY <1>3, HsmInvParts DEF SlotBecomes, KeystoreInv
  <2>2. Counted(s) \in SlotRecord /\ Counted(s).info.isOccupied
    BY <1>3, <2>1, CountedSound
  <2>3. KeystoreInv'
    BY <1>3, <2>2, SlotBecomesKeeps, HsmInvParts
  <2>4. isInitialized_
    BY <1>3, <2>1, HsmInvParts DEF FacadeSound, EmptySlot
  <2>5. QED
    BY <1>1, <2>3, <2>4, KeystoreCallKeeps
<1>4. QED
  BY <1>2, <1>3, CryptEffect
=============================================================================
