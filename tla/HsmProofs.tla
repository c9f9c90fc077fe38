------------------------------ MODULE HsmProofs ------------------------------
(***************************************************************************)
(* Proofs about the facade over its services, for every number of sessions,   *)
(* ids, slots and keys, every wiring and every choice of the services that     *)
(* may fail.                                                                 *)
(*                                                                          *)
(* HsmInv carries the argument through failures: a start that failed half-way *)
(* leaves the services blank because they were blank before it, and a stop     *)
(* that failed half-way leaves the facade up, so the session table is never     *)
(* emptied without the flag.                                                 *)
(***************************************************************************)
EXTENDS HsmLifecycle, HsmApiProofs, FiniteSetTheorems

IssuedSound ==
    issued \subseteq Sessions!IssuedId /\ Sessions!LiveIds \subseteq issued

IInv == HsmInv /\ IssuedSound

\* Only the history depends on more than the table of sessions.
LEMMA IssuedSame ==
    ASSUME IssuedSound, sessions_' = sessions_, issued' = issued
    PROVE  IssuedSound'
BY DEF IssuedSound, Sessions!LiveIds, Sessions!ActiveSlots

LEMMA IssuedNone ==
    ASSUME \A i \in Sessions!Slot : ~sessions_'[i].isActive,
           issued' \subseteq Sessions!IssuedId
    PROVE  IssuedSound'
BY DEF IssuedSound, Sessions!LiveIds, Sessions!ActiveSlots

LEMMA DownHasNoSession ==
    ASSUME HsmInv, ~isInitialized_
    PROVE  \A i \in Sessions!Slot : ~sessions_[i].isActive
BY DEF HsmInv, FacadeSound

LEMMA InitialInv == Init => IInv
<1> SUFFICES ASSUME Init PROVE IInv
  OBVIOUS
<1>1. HsmInv /\ \A i \in Sessions!Slot : ~sessions_[i].isActive
  BY SystemAssumption, InitInvariant DEF Init
<1>2. IssuedSound
  BY <1>1 DEF Init, IssuedSound, Sessions!LiveIds, Sessions!ActiveSlots
<1>3. QED
  BY <1>1, <1>2 DEF IInv

LEMMA InitialiseInv == ASSUME IInv, Initialise PROVE IInv'
<1>1. PICK status \in StatusCode : init(status)
  BY DEF Initialise
<1>2. HsmInv'
  BY <1>1, InitKeeps DEF IInv
<1>3. issued' = IF isInitialized_ THEN issued ELSE {}
  BY DEF Initialise
<1>4. CASE isInitialized_
  <2>1. sessions_' = sessions_
    BY <1>1, <1>4, InitEffect DEF hsmVars, sessionVars
  <2>2. QED
    BY <1>2, <1>3, <1>4, <2>1, IssuedSame DEF IInv
<1>5. CASE ~isInitialized_
  <2>1. \A i \in Sessions!Slot : ~sessions_[i].isActive
    BY <1>5, DownHasNoSession DEF IInv
  <2>2. sessions_' = sessions_ \/ SessionsReset(TRUE)
    BY <1>1, InitEffect DEF hsmVars, sessionVars, SessionsSame
  <2>3. \A i \in Sessions!Slot : ~sessions_'[i].isActive
    BY <2>1, <2>2 DEF SessionsReset, Sessions!NoSession
  <2>4. QED
    BY <1>2, <1>3, <1>5, <2>3, IssuedNone DEF IInv
<1>6. QED
  BY <1>4, <1>5

LEMMA DeinitialiseInv == ASSUME IInv, Deinitialise PROVE IInv'
<1>1. PICK status \in StatusCode : deinit(status) /\ issued' = issued
  BY DEF Deinitialise
<1>2. HsmInv'
  BY <1>1, DeinitKeeps DEF IInv
<1>3. CASE sessions_' = sessions_
  BY <1>1, <1>2, <1>3, IssuedSame DEF IInv
<1>4. CASE SessionsReset(FALSE)
  <2>1. \A i \in Sessions!Slot : ~sessions_'[i].isActive
    BY <1>4 DEF SessionsReset, Sessions!NoSession
  <2>2. QED
    BY <1>1, <1>2, <2>1, IssuedNone DEF IInv, IssuedSound
<1>5. QED
  BY <1>1, <1>3, <1>4, DeinitEffect DEF hsmVars, sessionVars, SessionsSame

LEMMA CreateSessionInv == ASSUME IInv, CreateSession PROVE IInv'
<1>1. PICK status \in StatusCode, id \in Sessions!IssuedId \cup {NotWritten} :
        /\ createSession(status, id)
        /\ issued' = IF status = "OK" THEN issued \cup {id} ELSE issued
  BY DEF CreateSession
<1>2. HsmInv' /\ Sessions!SMTypeOK
  BY <1>1, CreateKeeps, HsmInvParts DEF IInv
<1>3. CASE SessionsSame /\ status # "OK"
  BY <1>1, <1>2, <1>3, IssuedSame DEF IInv, SessionsSame, sessionVars
<1>4. CASE /\ status = "OK" /\ id = nextSessionId_
           /\ \E i \in Sessions!Slot :
                /\ ~sessions_[i].isActive
                /\ sessions_' = [sessions_ EXCEPT ![i] = [id |-> id, isActive |-> TRUE]]
  <2>1. PICK i \in Sessions!Slot :
           sessions_' = [sessions_ EXCEPT ![i] = [id |-> id, isActive |-> TRUE]]
    BY <1>4
  <2>2. \A j \in Sessions!Slot : sessions_'[j] =
          IF j = i THEN [id |-> id, isActive |-> TRUE] ELSE sessions_[j]
    BY <1>2, <2>1 DEF Sessions!SMTypeOK
  <2>3. id \in Sessions!IssuedId
    BY <1>2, <1>4 DEF Sessions!SMTypeOK
  <2>4. IssuedSound'
    BY <1>1, <1>4, <2>2, <2>3
       DEF IInv, IssuedSound, Sessions!LiveIds, Sessions!ActiveSlots
  <2>5. QED
    BY <1>2, <2>4 DEF IInv
<1>5. QED
  BY <1>1, <1>2, <1>3, <1>4, CreateEffect

LEMMA CloseSessionInv == ASSUME IInv, CloseSession PROVE IInv'
<1>1. PICK id \in Sessions!SessionId, status \in StatusCode :
        closeSession(id, status) /\ issued' = issued
  BY DEF CloseSession
<1>2. HsmInv' /\ Sessions!SMTypeOK
  BY <1>1, CloseKeeps, HsmInvParts DEF IInv
<1>3. CASE SessionsSame
  BY <1>1, <1>2, <1>3, IssuedSame DEF IInv, SessionsSame, sessionVars
<1>4. ASSUME NEW i \in Sessions!ActiveSlots,
             sessions_' = [sessions_ EXCEPT ![i] = Sessions!NoSession]
      PROVE  IInv'
  <2>1. \A j \in Sessions!Slot : sessions_'[j] =
          IF j = i THEN Sessions!NoSession ELSE sessions_[j]
    BY <1>2, <1>4 DEF Sessions!SMTypeOK
  <2>2. IssuedSound'
    BY <1>1, <2>1 DEF IInv, IssuedSound, Sessions!LiveIds, Sessions!ActiveSlots,
                      Sessions!NoSession
  <2>3. QED
    BY <1>2, <2>2 DEF IInv
<1>5. QED
  BY <1>1, <1>2, <1>3, <1>4, CloseEffect

\* The keystore's other owner can start and stop it, but it cannot store a key.
LEMMA OwnerInv == ASSUME IInv, OwnerInit \/ OwnerDeinit PROVE IInv'
<1>1. /\ FacadeSame /\ SessionsSame /\ issued' = issued
      /\ \/ KeystoreSame
         \/ KeystoreBlank(TRUE) \/ KeystoreBlank(FALSE)
  BY DEF OwnerInit, OwnerDeinit, Keystore!init, Keystore!deinit, Keystore!Cleared,
         Keystore!ksVars, keystoreVars, FacadeSame, SessionsSame, KeystoreSame,
         KeystoreBlank
<1>2. IssuedSound'
  BY <1>1, IssuedSame DEF IInv, SessionsSame, sessionVars
<1>3. CASE KeystoreSame
  BY <1>1, <1>2, <1>3, AllSameKeeps DEF IInv
<1>4. CASE KeystoreBlank(TRUE) \/ KeystoreBlank(FALSE)
  <2>1. KeystoreInv' /\ \A s \in Keystore!KeySlot : EmptySlot(keySlots_'[s])
    BY <1>4, KeystoreBlankKeeps
  <2>2. Sessions!SMTypeOK'
    BY <1>1, SessionsSameKeeps, HsmInvParts DEF IInv
  <2>3. FacadeSound'
    BY <1>1, <2>1, HsmInvParts
       DEF IInv, FacadeSound, FacadeSame, SessionsSame, sessionVars, EmptySlot
  <2>4. HsmInv'
    BY <1>1, <2>1, <2>2, <2>3, HsmInvParts
       DEF IInv, HsmInv, HsmTypeOK, KeystoreInv, FacadeSame
  <2>5. QED
    BY <1>2, <2>4 DEF IInv
<1>5. QED
  BY <1>1, <1>3, <1>4

\* The other calls reach only the keystore.
LEMMA KeystoreCallInv ==
    ASSUME IInv, HsmInv', SessionsSame, issued' = issued PROVE IInv'
BY IssuedSame DEF IInv, SessionsSame, sessionVars

LEMMA StepInv == IInv /\ [Next]_vars => IInv'
<1> SUFFICES ASSUME IInv, [Next]_vars PROVE IInv'
  OBVIOUS
<1>0. HsmInv
  BY DEF IInv
<1>1. CASE Initialise
  BY <1>1, InitialiseInv
<1>2. CASE Deinitialise
  BY <1>2, DeinitialiseInv
<1>3. CASE CreateSession
  BY <1>3, CreateSessionInv
<1>4. CASE CloseSession
  BY <1>4, CloseSessionInv
<1>5. CASE ClearAllKeys
  BY <1>0, <1>5, ClearKeeps, ClearEffect, KeystoreCallInv DEF ClearAllKeys
<1>6. ASSUME NEW s, ImportKey(s) PROVE IInv'
  BY <1>0, <1>6, ImportKeeps, ImportEffect, KeystoreCallInv DEF ImportKey
<1>7. ASSUME NEW s, DeleteKey(s) PROVE IInv'
  BY <1>0, <1>7, DeleteKeeps, DeleteEffect, KeystoreCallInv DEF DeleteKey
<1>8. ASSUME NEW s, GetKeySlotInfo(s) PROVE IInv'
  BY <1>0, <1>8, InfoKeeps, InfoEffect, KeystoreCallInv DEF GetKeySlotInfo
<1>9. ASSUME NEW flag, NEW s, Crypt(flag, s) PROVE IInv'
  BY <1>0, <1>9, CryptKeeps, CryptEffect, KeystoreCallInv DEF Crypt
<1>10. CASE OwnerInit \/ OwnerDeinit
  BY <1>10, OwnerInv
<1>11. CASE UNCHANGED vars
  <2>1. UNCHANGED hsmVars /\ issued' = issued
    BY <1>11 DEF vars
  <2>2. HsmInv' /\ SessionsSame
    BY <1>0, <2>1, HsmSameKeeps DEF hsmVars, SessionsSame
  <2>3. QED
    BY <2>1, <2>2, KeystoreCallInv
<1>12. QED
  BY <1>1, <1>2, <1>3, <1>4, <1>5, <1>6, <1>7, <1>8, <1>9, <1>10, <1>11
     DEF Next, Encrypt, Decrypt

\* The invariant that the theorems below rest on.
THEOREM Invariance == Spec => []IInv
<1> QED
  BY InitialInv, StepInv, PTL DEF Spec

\* Type correctness of the facade, its services and the history.
THEOREM TypeCorrect == Spec => []TypeOK
<1>1. IInv => TypeOK
  BY DEF IInv, IssuedSound, HsmInv, TypeOK
<1>2. QED
  BY <1>1, Invariance, PTL

\* An empty slot tells callers of no key.
LEMMA EmptySlotTellsNothing ==
    ASSUME NEW slot, EmptySlot(slot) PROVE Described(slot) = {}
BY DEF EmptySlot, Described

\* A keystore that is down holds no key, whoever stopped it and at whichever of
\* the facade's starts and stops.
THEOREM StoppedKeystoreIsEmpty == Spec => []NoKeysInStoppedKeystore
<1>1. IInv => NoKeysInStoppedKeystore
  <2> SUFFICES ASSUME IInv, ~ksInitialized_, NEW s \in Keystore!KeySlot
               PROVE  /\ keySlots_[s].key = Keystore!BlankKey
                      /\ Described(keySlots_[s]) = {}
    BY DEF NoKeysInStoppedKeystore
  <2>1. EmptySlot(keySlots_[s])
    BY DEF IInv, HsmInv, SlotsSound
  <2>2. QED
    BY <2>1, EmptySlotTellsNothing DEF EmptySlot
<1>2. QED
  BY <1>1, Invariance, PTL

\* However often starting or stopping failed half-way, a facade that is down
\* left no session open and no key stored.
THEOREM DownFacadeLeftNothing == Spec => []NothingLeftWhileDown
<1>1. IInv => NothingLeftWhileDown
  <2> SUFFICES ASSUME IInv, ~isInitialized_
               PROVE  /\ Sessions!ActiveSlots = {}
                      /\ \A s \in Keystore!KeySlot :
                           Described(keySlots_[s]) = {}
                             /\ keySlots_[s].key = Keystore!BlankKey
    BY DEF NothingLeftWhileDown, isReady
  <2>1. \A i \in Sessions!Slot : ~sessions_[i].isActive
    BY DownHasNoSession DEF IInv
  <2>2. \A s \in Keystore!KeySlot : EmptySlot(keySlots_[s])
    BY DEF IInv, HsmInv, FacadeSound
  <2>3. QED
    BY <2>1, <2>2, EmptySlotTellsNothing DEF EmptySlot, Sessions!ActiveSlots
<1>2. QED
  BY <1>1, Invariance, PTL

\* A facade that is ready has a session manager that runs, however starts and
\* stops failed: init() raises the flag only after the session manager started,
\* and deinit(), which stops it last, returns at the first failure.
THEOREM ReadySessionsRun == Spec => []SessionsRunWhileReady
<1>1. IInv => SessionsRunWhileReady
  BY DEF IInv, HsmInv, FacadeSound, SessionsRunWhileReady, isReady
<1>2. QED
  BY <1>1, Invariance, PTL

\* encrypt() and decrypt() succeed only as authorised, whatever fails and
\* whoever stops the keystore between two calls.
THEOREM OnlyAuthorisedCrypto == Spec => CryptoIsAuthorised
<1> DEFINE Authorised ==
        (call'.ok /\ call'.op \in {"ENCRYPT", "DECRYPT"})
          => /\ isReady /\ smInitialized_ /\ ksInitialized_
             /\ wiring = FullyWired
             /\ call'.args[1] \in Sessions!LiveIds \cap issued
             /\ \E k \in Described(keySlots_[call'.args[2]]) :
                  call'.op \in k.permissions
<1>1. ASSUME IInv, NEW flag \in {"ENCRYPT", "DECRYPT"}, NEW s, Crypt(flag, s)
      PROVE  Authorised
  <2>1. PICK id \in Sessions!SessionId, in \in BufferSize, out \in BufferSize,
             status \in StatusCode :
          /\ crypt(flag, id, s, in, out, status)
          /\ Result(flag, <<id, s, in, out>>, status, {})
    BY <1>1 DEF Crypt
  <2>2. /\ call'.ok = (status = "OK") /\ call'.op = flag
        /\ call'.args[1] = id /\ call'.args[2] = s
    BY <2>1 DEF Result
  <2>3. SUFFICES ASSUME status = "OK"
                 PROVE  /\ isReady /\ smInitialized_ /\ ksInitialized_
                        /\ wiring = FullyWired
                        /\ id \in Sessions!LiveIds \cap issued
                        /\ \E k \in Described(keySlots_[s]) : flag \in k.permissions
    BY <2>2
  <2>4. /\ isSessionValid(id) /\ wiring.algorithm /\ wiring.keystore
        /\ Permits(flag, s) /\ keySlots_[s].info.isOccupied /\ ksInitialized_
    BY <2>1, <2>3, CryptEffect
  <2>5. isReady /\ smInitialized_ /\ id \in Sessions!LiveIds \cap issued
    BY <1>1, <2>4 DEF isSessionValid, Sessions!isSessionValid, isReady, IInv,
                      IssuedSound
  <2>6. wiring = FullyWired
    BY <1>1, <2>4, <2>5, HsmInvParts
       DEF IInv, FacadeSound, isReady, Wiring, FullyWired
  <2>7. \E k \in Described(keySlots_[s]) : flag \in k.permissions
    BY <2>4 DEF Permits, Described
  <2>8. QED
    BY <2>4, <2>5, <2>6, <2>7
<1>2. ASSUME IInv, Next PROVE Authorised
  <2>1. CASE \E s : Encrypt(s) \/ Decrypt(s)
    BY <1>1, <1>2, <2>1 DEF Encrypt, Decrypt
  <2>2. CASE ~\E s : Encrypt(s) \/ Decrypt(s)
    <3>1. call'.op \notin {"ENCRYPT", "DECRYPT"}
      BY <1>2, <2>2 DEF Next, Result, Initialise, Deinitialise, CreateSession,
         CloseSession, ClearAllKeys, ImportKey, DeleteKey, GetKeySlotInfo,
         OwnerInit, OwnerDeinit
    <3>2. QED
      BY <3>1
  <2>3. QED
    BY <2>1, <2>2
<1>3. IInv /\ [Next]_vars => [Authorised]_vars
  BY <1>2
<1>4. QED
  BY <1>3, Invariance, PTL DEF Spec, CryptoIsAuthorised

-----------------------------------------------------------------------------
(* Services that do not fail, and that nobody else starts or stops.          *)

Follows == smInitialized_ = isInitialized_ /\ ksInitialized_ = isInitialized_

LEMMA FollowsInit ==
    ASSUME Faulty = {}, HsmInv, Follows, NEW status, init(status)
    PROVE  Follows' /\ (status = "OK" <=> wiring.api \/ isInitialized_)
<1>1. CASE UNCHANGED hsmVars
  <2>1. Follows'
    BY <1>1 DEF hsmVars, sessionVars, keystoreVars, Follows
  <2>2. status = "OK" <=> wiring.api \/ isInitialized_
    BY <1>1, InitEffect DEF init, StartServices, CallSessions, CallKeystore, CallCrypto, Fails, Sessions!init, Keystore!init, InitCrypto, hsmVars
  <2>3. QED
    BY <2>1, <2>2
<1>2. CASE ~isInitialized_ /\ wiring.api /\ StartServices(status)
  <2>1. /\ Sessions!init("OK") /\ Keystore!init("OK")
        /\ status = "OK" /\ isInitialized_' = TRUE
    BY <1>2 DEF StartServices, CallSessions, CallKeystore, CallCrypto, Fails,
                Sessions!init, Keystore!init, InitCrypto
  <2>2. smInitialized_' /\ ksInitialized_'
    BY <2>1 DEF Sessions!init, Keystore!init, Sessions!smVars, Keystore!ksVars
  <2>3. smInitialized_' \in BOOLEAN /\ ksInitialized_' \in BOOLEAN
    BY InitKeeps DEF HsmInv, HsmTypeOK, Sessions!SMTypeOK, Keystore!KSTypeOK
  <2>4. QED
    BY <1>2, <2>1, <2>2, <2>3 DEF Follows
<1>3. QED
  BY <1>1, <1>2 DEF init

LEMMA FollowsDeinit ==
    ASSUME Faulty = {}, HsmInv, Follows, NEW status, deinit(status)
    PROVE  Follows' /\ (status = "OK" <=> isInitialized_)
<1>1. CASE ~isInitialized_
  <2>1. UNCHANGED hsmVars /\ status # "OK"
    BY <1>1 DEF deinit
  <2>2. QED
    BY <1>1, <2>1 DEF hsmVars, sessionVars, keystoreVars, Follows
<1>2. CASE isInitialized_
  <2>1. smInitialized_ /\ ksInitialized_
    BY <1>2 DEF Follows
  <2>2. Keystore!deinit("OK") /\ Sessions!deinit("OK") /\ status = "OK"
        /\ isInitialized_' = FALSE
    BY <1>2, <2>1 DEF deinit, StopServices, CallSessions, CallKeystore, CallCrypto,
                      Fails, Sessions!deinit, Keystore!deinit, DeinitCrypto
  <2>3. smInitialized_' = FALSE /\ ksInitialized_' = FALSE
    BY <2>1, <2>2 DEF Sessions!deinit, Keystore!deinit
  <2>4. QED
    BY <1>2, <2>2, <2>3 DEF Follows
<1>3. QED
  BY <1>1, <1>2

\* A call that is passed on neither starts nor stops a service.
LEMMA FollowsOther ==
    ASSUME HsmInv, Follows, FacadeSame, smInitialized_' = smInitialized_,
           ksInitialized_' = ksInitialized_
    PROVE  Follows'
BY DEF Follows, FacadeSame

LEMMA FollowsStep ==
    ASSUME Faulty = {}, OwnerCalls = FALSE, IInv, Follows, [Next]_vars
    PROVE  Follows'
<1>0. HsmInv /\ Sessions!SMTypeOK
  BY HsmInvParts DEF IInv
<1>1. CASE Initialise
  BY <1>0, <1>1, FollowsInit DEF Initialise
<1>2. CASE Deinitialise
  BY <1>0, <1>2, FollowsDeinit DEF Deinitialise
<1>3. CASE CreateSession
  BY <1>0, <1>3, CreateEffect, FollowsOther
     DEF CreateSession, SessionsSame, KeystoreSame, sessionVars, keystoreVars
<1>4. CASE CloseSession
  BY <1>0, <1>4, CloseEffect, FollowsOther
     DEF CloseSession, SessionsSame, KeystoreSame, sessionVars, keystoreVars
<1>5. ASSUME FacadeSame, SessionsSame,
             \/ KeystoreSame
             \/ KeystoreBlank(ksInitialized_)
             \/ \E s, slot : SlotBecomes(s, slot)
      PROVE  Follows'
  BY <1>0, <1>5, FollowsOther
     DEF SessionsSame, KeystoreSame, KeystoreBlank, SlotBecomes, sessionVars,
         keystoreVars
<1>6. CASE ClearAllKeys
  BY <1>5, <1>6, ClearEffect DEF ClearAllKeys
<1>7. ASSUME NEW s, ImportKey(s) PROVE Follows'
  BY <1>5, <1>7, ImportEffect DEF ImportKey
<1>8. ASSUME NEW s, DeleteKey(s) PROVE Follows'
  BY <1>5, <1>8, DeleteEffect DEF DeleteKey
<1>9. ASSUME NEW s, GetKeySlotInfo(s) PROVE Follows'
  BY <1>5, <1>9, InfoEffect DEF GetKeySlotInfo
<1>10. ASSUME NEW flag, NEW s, Crypt(flag, s) PROVE Follows'
  BY <1>5, <1>10, CryptEffect DEF Crypt
<1>11. CASE UNCHANGED vars
  BY <1>11 DEF vars, hsmVars, sessionVars, keystoreVars, Follows
<1>12. QED
  BY <1>1, <1>2, <1>3, <1>4, <1>6, <1>7, <1>8, <1>9, <1>10, <1>11
     DEF Next, Encrypt, Decrypt, OwnerInit, OwnerDeinit

\* With services that do not fail and that only the facade starts and stops,
\* the services are up exactly while the facade is, and a facade that is down
\* holds nothing.
THEOREM ServicesFollow ==
    ASSUME Faulty = {}, OwnerCalls = FALSE
    PROVE  Spec => []ServicesFollowFacade
<1>1. Init => Follows
  BY DEF Init, HsmInit, Sessions!SMInit, Keystore!KSInit, Follows
<1>2. IInv /\ Follows /\ [Next]_vars => Follows'
  BY FollowsStep
<1>3. IInv /\ Follows => ServicesFollowFacade
  <2> SUFFICES ASSUME IInv, Follows PROVE ServicesFollowFacade
    OBVIOUS
  <2>1. CASE ~isInitialized_
    BY <2>1, DownHasNoSession
       DEF ServicesFollowFacade, Follows, isReady, IInv, HsmInv, FacadeSound,
           EmptySlot, Sessions!LiveIds, Sessions!ActiveSlots
  <2>2. CASE isInitialized_
    BY <2>2 DEF ServicesFollowFacade, Follows, isReady
  <2>3. QED
    BY <2>1, <2>2
<1>4. QED
  BY <1>1, <1>2, <1>3, Invariance, PTL DEF Spec

-----------------------------------------------------------------------------
(* The facade implements the contract of IHsmApi, step by step.              *)
(*                                                                          *)
(* A handle is new because the ids handed out in one lifetime are those below  *)
(* the counter (IdsFresh), until all are used up; open sessions are as many as *)
(* active slots because no two slots hold one id (IdsDistinct).               *)

IdsFresh == isInitialized_ =>
    issued \in {1 .. nextSessionId_ - 1, Sessions!IssuedId}

IdsDistinct == \A i, j \in Sessions!ActiveSlots :
    i # j => sessions_[i].id # sessions_[j].id

RInv == IInv /\ Follows /\ IdsFresh /\ IdsDistinct /\ wiring = FullyWired

Open == Sessions!LiveIds
Store == [s \in Keystore!KeySlot |-> Described(keySlots_[s])]

\* What the operations do to the contract's view of the state.
LEMMA StoreAfter ==
    /\ KeystoreSame => Store' = Store
    /\ \A up : KeystoreBlank(up) => Store' = Contract!Empty
    /\ \A s, slot : Keystore!KSTypeOK /\ SlotBecomes(s, slot)
         => Store' = [Store EXCEPT ![s] = Described(slot)]
<1>1. KeystoreSame => Store' = Store
  BY DEF KeystoreSame, keystoreVars, Store, Described
<1>2. ASSUME NEW up, KeystoreBlank(up) PROVE Store' = Contract!Empty
  <2>1. \A s \in Keystore!KeySlot : Described(keySlots_'[s]) = {}
    BY <1>2, BlankSlotSound, EmptySlotTellsNothing DEF KeystoreBlank
  <2>2. QED
    BY <2>1 DEF Store, Contract!Empty, Described
<1>3. ASSUME NEW s, NEW slot, Keystore!KSTypeOK, SlotBecomes(s, slot)
      PROVE  Store' = [Store EXCEPT ![s] = Described(slot)]
  <2>1. \A t \in Keystore!KeySlot :
           keySlots_'[t] = IF t = s THEN slot ELSE keySlots_[t]
    BY <1>3 DEF SlotBecomes, Keystore!KSTypeOK
  <2>2. Store' = [t \in Keystore!KeySlot |-> Described(keySlots_'[t])]
    BY DEF Store, Described
  <2>3. QED
    BY <2>1, <2>2 DEF Store
<1>4. QED
  BY <1>1, <1>2, <1>3

LEMMA OpenAfter ==
    /\ sessions_' = sessions_ => Open' = Open
    /\ (\A i \in Sessions!Slot : ~sessions_'[i].isActive) => Open' = {}
BY DEF Open, Sessions!LiveIds, Sessions!ActiveSlots

LEMMA OpenCreated ==
    ASSUME Sessions!SMTypeOK
    PROVE  \A id : \A i \in Sessions!Slot \ Sessions!ActiveSlots :
             sessions_' = [sessions_ EXCEPT ![i] = [id |-> id, isActive |-> TRUE]]
               => Open' = Open \cup {id}
<1> SUFFICES ASSUME NEW id, NEW i \in Sessions!Slot \ Sessions!ActiveSlots,
                    sessions_' = [sessions_ EXCEPT ![i] =
                                    [id |-> id, isActive |-> TRUE]]
             PROVE  Open' = Open \cup {id}
  OBVIOUS
<1>1. \A j \in Sessions!Slot : sessions_'[j] =
         IF j = i THEN [id |-> id, isActive |-> TRUE] ELSE sessions_[j]
  BY DEF Sessions!SMTypeOK
<1>2. Sessions!ActiveSlots' = Sessions!ActiveSlots \cup {i}
  BY <1>1 DEF Sessions!ActiveSlots
<1>3. Open' = {sessions_'[j].id : j \in Sessions!ActiveSlots \cup {i}}
  BY <1>2 DEF Open, Sessions!LiveIds
<1>4. i \notin Sessions!ActiveSlots /\ Sessions!ActiveSlots \subseteq Sessions!Slot
  BY DEF Sessions!ActiveSlots
<1>5. QED
  BY <1>1, <1>2, <1>3, <1>4 DEF Open, Sessions!LiveIds

LEMMA OpenClosed ==
    ASSUME Sessions!SMTypeOK, IdsDistinct, NEW i \in Sessions!ActiveSlots,
           sessions_' = [sessions_ EXCEPT ![i] = Sessions!NoSession]
    PROVE  /\ Open' = Open \ {sessions_[i].id}
           /\ Sessions!ActiveSlots' = Sessions!ActiveSlots \ {i}
           /\ \A j \in Sessions!ActiveSlots' : sessions_'[j].id = sessions_[j].id
<1>1. \A j \in Sessions!Slot : sessions_'[j] =
         IF j = i THEN Sessions!NoSession ELSE sessions_[j]
  BY DEF Sessions!SMTypeOK
<1>2. Sessions!ActiveSlots' = Sessions!ActiveSlots \ {i}
  BY <1>1 DEF Sessions!ActiveSlots, Sessions!NoSession
<1>3. \A j \in Sessions!ActiveSlots' : sessions_'[j].id = sessions_[j].id
  BY <1>1, <1>2 DEF Sessions!ActiveSlots
<1>4. Open' = {sessions_[j].id : j \in Sessions!ActiveSlots \ {i}}
  BY <1>2, <1>3 DEF Open, Sessions!LiveIds
<1>5. QED
  BY <1>2, <1>3, <1>4 DEF Open, Sessions!LiveIds, IdsDistinct

\* As many sessions are open as slots are active.
LEMMA OpenCount ==
    ASSUME IdsDistinct
    PROVE  /\ Cardinality(Open) \in Nat /\ Cardinality(Open) <= kMaxSessions
           /\ Sessions!ActiveSlots = Sessions!Slot <=> Cardinality(Open) = kMaxSessions
<1> DEFINE f == [i \in Sessions!ActiveSlots |-> sessions_[i].id]
<1>1. f \in Bijection(Sessions!ActiveSlots, Open)
  BY DEF Bijection, Injection, Surjection, Open, Sessions!LiveIds, IdsDistinct, IsInjective
<1>2. kMaxSessions \in Nat
  BY ServiceAssumption DEF Sessions!SessionAssumption
<1>3. IsFiniteSet(Sessions!Slot) /\ Cardinality(Sessions!Slot) = kMaxSessions
  BY <1>2, FS_Interval DEF Sessions!Slot
<1>4. /\ IsFiniteSet(Sessions!ActiveSlots)
      /\ Cardinality(Sessions!ActiveSlots) <= kMaxSessions
      /\ Sessions!ActiveSlots = Sessions!Slot
           <=> Cardinality(Sessions!ActiveSlots) = kMaxSessions
  BY <1>3, FS_Subset DEF Sessions!ActiveSlots
<1>5. Cardinality(Open) = Cardinality(Sessions!ActiveSlots)
  BY <1>1, <1>4, FS_Bijection DEF ExistsBijection
<1>6. Cardinality(Sessions!ActiveSlots) \in Nat
  BY <1>4, FS_CardinalityType
<1>7. QED
  BY <1>4, <1>5, <1>6

-----------------------------------------------------------------------------
(* The ids stay fresh and distinct.                                         *)

Ids == IdsFresh /\ IdsDistinct

LEMMA IdsSame ==
    ASSUME Ids, SessionsSame, issued' = issued, isInitialized_' = isInitialized_
    PROVE  Ids'
BY DEF Ids, IdsFresh, IdsDistinct, SessionsSame, sessionVars, Sessions!ActiveSlots

\* A facade that starts has an empty table and begins again with id 1.
LEMMA StartEffect ==
    ASSUME Faulty = {}, HsmInv, Follows, wiring.api, ~isInitialized_,
           NEW status, init(status)
    PROVE  status = "OK" /\ SessionsReset(TRUE) /\ KeystoreBlank(TRUE)
           /\ isInitialized_' = TRUE
<1>1. ~smInitialized_ /\ ~ksInitialized_
  BY DEF Follows
<1>2. StartServices(status)
  BY DEF init
<1>3. /\ Sessions!init("OK") /\ Keystore!init("OK")
      /\ status = "OK" /\ isInitialized_' = TRUE
  BY <1>2 DEF StartServices, CallSessions, CallKeystore, CallCrypto, Fails,
              Sessions!init, Keystore!init, InitCrypto
<1>4. QED
  BY <1>1, <1>3 DEF Sessions!init, Keystore!init, SessionsReset, KeystoreBlank

LEMMA IdsInitialise ==
    ASSUME Faulty = {}, RInv, Initialise PROVE Ids'
<1>1. PICK status \in StatusCode : init(status)
  BY DEF Initialise
<1>2. CASE isInitialized_
  <2>1. UNCHANGED hsmVars
    BY <1>1, <1>2 DEF init
  <2>2. SessionsSame /\ isInitialized_' = isInitialized_ /\ issued' = issued
    BY <1>2, <2>1 DEF hsmVars, SessionsSame, Initialise
  <2>3. QED
    BY <2>2, IdsSame DEF RInv, Ids
<1>3. CASE ~isInitialized_
  <2>1. SessionsReset(TRUE)
    BY <1>1, <1>3, StartEffect DEF RInv, IInv, FullyWired
  <2>2. nextSessionId_' = 1 /\ Sessions!ActiveSlots' = {}
    BY <2>1 DEF SessionsReset, Sessions!ActiveSlots, Sessions!NoSession
  <2>3. issued' = {} /\ 1 .. 1 - 1 = {}
    BY <1>3 DEF Initialise
  <2>4. QED
    BY <2>2, <2>3 DEF Ids, IdsFresh, IdsDistinct
<1>4. QED
  BY <1>2, <1>3

LEMMA IdsDeinitialise ==
    ASSUME Faulty = {}, RInv, Deinitialise PROVE Ids'
<1>1. PICK status \in StatusCode : deinit(status) /\ issued' = issued
  BY DEF Deinitialise
<1>2. CASE UNCHANGED hsmVars
  BY <1>1, <1>2, IdsSame DEF RInv, Ids, hsmVars, SessionsSame
<1>3. CASE isInitialized_
  <2>1. status = "OK"
    BY <1>1, <1>3, FollowsDeinit DEF RInv, IInv
  <2>2. ~isInitialized_' /\ SessionsReset(FALSE)
    BY <1>1, <2>1, DeinitEffect
  <2>3. Sessions!ActiveSlots' = {}
    BY <2>2 DEF SessionsReset, Sessions!ActiveSlots, Sessions!NoSession
  <2>4. QED
    BY <2>2, <2>3 DEF Ids, IdsFresh, IdsDistinct
<1>4. QED
  BY <1>1, <1>2, <1>3, DeinitEffect

\* The counter after a successful createSession().
LEMMA CounterAdvances ==
    ASSUME NEW next \in Sessions!IssuedId
    PROVE  (1 .. next - 1) \cup {next}
             \in {1 .. Sessions!Successor(next) - 1, Sessions!IssuedId}
<1>1. kInvalidSessionId \in Nat \ {0, 1} /\ next \in 1 .. kInvalidSessionId - 1
  BY ServiceAssumption DEF Sessions!SessionAssumption, Sessions!IssuedId
<1>2. (1 .. next - 1) \cup {next} = 1 .. next
  BY <1>1
<1>3. CASE next + 1 = kInvalidSessionId
  BY <1>1, <1>2, <1>3 DEF Sessions!IssuedId
<1>4. CASE next + 1 # kInvalidSessionId
  BY <1>1, <1>2, <1>4 DEF Sessions!Successor
<1>5. QED
  BY <1>3, <1>4

LEMMA IdsCreateSession ==
    ASSUME RInv, CreateSession PROVE Ids'
<1>1. PICK status \in StatusCode, id \in Sessions!IssuedId \cup {NotWritten} :
        /\ createSession(status, id)
        /\ issued' = IF status = "OK" THEN issued \cup {id} ELSE issued
  BY DEF CreateSession
<1>2. Sessions!SMTypeOK /\ nextSessionId_ \in Sessions!IssuedId
  BY HsmInvParts DEF RInv, IInv, Sessions!SMTypeOK
<1>3. CASE SessionsSame /\ status # "OK"
  BY <1>1, <1>2, <1>3, IdsSame, CreateEffect DEF RInv, Ids, FacadeSame
<1>4. CASE /\ isInitialized_ /\ status = "OK" /\ id = nextSessionId_
           /\ nextSessionId_' = Sessions!Successor(nextSessionId_)
           /\ \E i \in Sessions!Slot :
                /\ ~sessions_[i].isActive
                /\ sessions_' = [sessions_ EXCEPT ![i] = [id |-> id, isActive |-> TRUE]]
  <2>1. issued = 1 .. nextSessionId_ - 1
    BY <1>4 DEF RInv, IdsFresh, CreateSession
  <2>2. issued' = (1 .. nextSessionId_ - 1) \cup {nextSessionId_}
    BY <1>1, <1>4, <2>1
  <2>3. IdsFresh'
    BY <1>2, <1>4, <2>2, CounterAdvances DEF IdsFresh, Sessions!IssuedId
  <2>4. nextSessionId_ \notin Open
    BY <1>2, <2>1 DEF RInv, IInv, IssuedSound, Open, Sessions!IssuedId
  <2>5. PICK i \in Sessions!Slot :
          /\ ~sessions_[i].isActive
          /\ sessions_' = [sessions_ EXCEPT ![i] = [id |-> id, isActive |-> TRUE]]
    BY <1>4
  <2>6. /\ Sessions!ActiveSlots' = Sessions!ActiveSlots \cup {i}
        /\ \A j \in Sessions!Slot : sessions_'[j].id =
             IF j = i THEN id ELSE sessions_[j].id
    <3>1. \A j \in Sessions!Slot : sessions_'[j] =
             IF j = i THEN [id |-> id, isActive |-> TRUE] ELSE sessions_[j]
      BY <1>2, <2>5 DEF Sessions!SMTypeOK
    <3>2. QED
      BY <3>1 DEF Sessions!ActiveSlots
  <2>7. Sessions!ActiveSlots \subseteq Sessions!Slot
        /\ \A j \in Sessions!ActiveSlots : sessions_[j].id # id
    BY <1>4, <2>4 DEF Sessions!ActiveSlots, Open, Sessions!LiveIds
  <2>8. IdsDistinct'
    BY <2>6, <2>7 DEF RInv, IdsDistinct
  <2>9. QED
    BY <2>3, <2>8 DEF Ids
<1>5. QED
  BY <1>1, <1>2, <1>3, <1>4, CreateEffect

LEMMA IdsCloseSession ==
    ASSUME RInv, CloseSession PROVE Ids'
<1>1. PICK id \in Sessions!SessionId, status \in StatusCode :
        closeSession(id, status) /\ issued' = issued
  BY DEF CloseSession
<1>2. Sessions!SMTypeOK
  BY HsmInvParts DEF RInv, IInv
<1>3. FacadeSame
  BY <1>1, <1>2, CloseEffect
<1>4. CASE SessionsSame
  BY <1>1, <1>3, <1>4, IdsSame DEF RInv, Ids, FacadeSame
<1>5. ASSUME NEW i \in Sessions!ActiveSlots,
             sessions_' = [sessions_ EXCEPT ![i] = Sessions!NoSession],
             nextSessionId_' = nextSessionId_
      PROVE  Ids'
  <2>1. /\ Sessions!ActiveSlots' = Sessions!ActiveSlots \ {i}
        /\ \A j \in Sessions!ActiveSlots' : sessions_'[j].id = sessions_[j].id
    BY <1>2, <1>5, OpenClosed DEF RInv
  <2>2. IdsDistinct'
    BY <2>1 DEF RInv, IdsDistinct
  <2>3. IdsFresh'
    BY <1>1, <1>3, <1>5 DEF RInv, IdsFresh, FacadeSame
  <2>4. QED
    BY <2>2, <2>3 DEF Ids
<1>6. QED
  BY <1>1, <1>2, <1>4, <1>5, CloseEffect

LEMMA WiringStep == ASSUME HsmInv, [Next]_vars PROVE wiring' = wiring
<1>1. Sessions!SMTypeOK
  BY HsmInvParts
<1>2. QED
  BY <1>1, InitEffect, DeinitEffect, CreateEffect, CloseEffect, ClearEffect,
     ImportEffect, DeleteEffect, InfoEffect, CryptEffect
     DEF Next, Initialise, Deinitialise, CreateSession, CloseSession, ClearAllKeys,
         ImportKey, DeleteKey, GetKeySlotInfo, Crypt, Encrypt, Decrypt, OwnerInit,
         OwnerDeinit, FacadeSame, vars, hsmVars

LEMMA RInvStep ==
    ASSUME Faulty = {}, OwnerCalls = FALSE, RInv, [Next]_vars PROVE RInv'
<1>1. IInv' /\ Follows' /\ wiring' = wiring
  BY StepInv, FollowsStep, WiringStep DEF RInv, IInv
<1>2. ASSUME SessionsSame, FacadeSame, issued' = issued PROVE Ids'
  BY <1>2, IdsSame DEF RInv, Ids, FacadeSame
<1>3. ASSUME ClearAllKeys PROVE Ids'
  BY <1>2, <1>3, ClearEffect DEF ClearAllKeys
<1>4. ASSUME NEW s, ImportKey(s) PROVE Ids'
  BY <1>2, <1>4, ImportEffect DEF ImportKey
<1>5. ASSUME NEW s, DeleteKey(s) PROVE Ids'
  BY <1>2, <1>5, DeleteEffect DEF DeleteKey
<1>6. ASSUME NEW s, GetKeySlotInfo(s) PROVE Ids'
  BY <1>2, <1>6, InfoEffect DEF GetKeySlotInfo
<1>7. ASSUME NEW flag, NEW s, Crypt(flag, s) PROVE Ids'
  BY <1>2, <1>7, CryptEffect DEF Crypt
<1>8. ASSUME UNCHANGED vars PROVE Ids'
  BY <1>2, <1>8 DEF vars, hsmVars, SessionsSame, FacadeSame
<1>9. Ids'
  BY <1>3, <1>4, <1>5, <1>6, <1>7, <1>8, IdsInitialise, IdsDeinitialise,
     IdsCreateSession, IdsCloseSession
     DEF Next, Encrypt, Decrypt, OwnerInit, OwnerDeinit
<1>10. QED
  BY <1>1, <1>9 DEF RInv, Ids

-----------------------------------------------------------------------------
(* Every step is a step of the contract.                                    *)

\* The contract counts with its own instance of Cardinality.
LEMMA SameCardinality == \A S : Contract!Cardinality(S) = Cardinality(S)
BY DEF Cardinality, Contract!Cardinality

\* The contract's variables after a step that neither opens nor stores.
ViewSame == /\ Open' = Open /\ Store' = Store
            /\ isInitialized_' = isInitialized_ /\ issued' = issued

LEMMA SameView ==
    ASSUME SessionsSame, FacadeSame, KeystoreSame, issued' = issued PROVE ViewSame
BY OpenAfter, StoreAfter DEF ViewSame, SessionsSame, sessionVars, FacadeSame

\* The value of call after an accepted and after a refused call.
LEMMA Answers ==
    ASSUME NEW op, NEW args, NEW status, NEW out, Result(op, args, status, out)
    PROVE  /\ status = "OK" => Contract!Accepted(op, args, out)
           /\ status # "OK" => Contract!Refused(op, args)
BY DEF Result, Contract!Accepted, Contract!Refused

LEMMA InitialiseStep ==
    ASSUME Faulty = {}, RInv, Initialise PROVE Contract!Start
<1>1. PICK status \in StatusCode :
        init(status) /\ Result("init", <<>>, status, {})
  BY DEF Initialise
<1>2. status = "OK" /\ isInitialized_' = TRUE /\ Open' = Open /\ Store' = Store
  <2>1. CASE isInitialized_
    <3>1. UNCHANGED hsmVars /\ status = "OK"
      BY <1>1, <2>1 DEF init
    <3>2. isInitialized_ = TRUE
      BY <2>1, HsmInvParts DEF RInv, IInv
    <3>3. QED
      BY <3>1, <3>2, OpenAfter, StoreAfter
         DEF hsmVars, sessionVars, KeystoreSame
  <2>2. CASE ~isInitialized_
    <3>1. /\ status = "OK" /\ isInitialized_' = TRUE
          /\ SessionsReset(TRUE) /\ KeystoreBlank(TRUE)
      BY <1>1, <2>2, StartEffect DEF RInv, IInv, FullyWired
    <3>2. \A i \in Sessions!Slot : ~sessions_[i].isActive
      BY <2>2, DownHasNoSession DEF RInv, IInv
    <3>3. \A i \in Sessions!Slot : ~sessions_'[i].isActive
      BY <3>1 DEF SessionsReset, Sessions!NoSession
    <3>4. Open = {} /\ Open' = {}
      BY <3>2, <3>3, OpenAfter DEF Open, Sessions!LiveIds, Sessions!ActiveSlots
    <3>5. \A s \in Keystore!KeySlot : Described(keySlots_[s]) = {}
      BY <2>2, EmptySlotTellsNothing DEF RInv, IInv, HsmInv, FacadeSound
    <3>6. Store = Contract!Empty /\ Store' = Contract!Empty
      BY <3>1, <3>5, StoreAfter DEF Store, Contract!Empty
    <3>7. QED
      BY <3>1, <3>4, <3>6
  <2>3. QED
    BY <2>1, <2>2
<1>3. Contract!Accepted("init", <<>>, {})
  BY <1>1, <1>2, Answers
<1>4. QED
  BY <1>2, <1>3 DEF Contract!Start, Open, Store, Initialise

LEMMA DeinitialiseStep ==
    ASSUME Faulty = {}, RInv, Deinitialise PROVE Contract!Stop \/ Contract!Refuse
<1>1. PICK status \in StatusCode :
        /\ deinit(status) /\ Result("deinit", <<>>, status, {})
        /\ issued' = issued
  BY DEF Deinitialise
<1>2. status = "OK" <=> isInitialized_
  BY <1>1, FollowsDeinit DEF RInv, IInv
<1>3. CASE status = "OK"
  <2>1. ~isInitialized_' /\ SessionsReset(FALSE) /\ KeystoreBlank(FALSE)
    BY <1>1, <1>3, DeinitEffect
  <2>2. Open' = {}
    BY <2>1, OpenAfter DEF SessionsReset, Sessions!NoSession
  <2>3. Store' = Contract!Empty
    BY <2>1, StoreAfter
  <2>4. isInitialized_' = FALSE
    BY <1>1, <2>1, DeinitKeeps, HsmInvParts DEF RInv, IInv, HsmInv, HsmTypeOK
  <2>5. QED
    BY <1>1, <1>2, <1>3, <2>2, <2>3, <2>4, Answers DEF Contract!Stop, Open, Store
<1>4. CASE status # "OK"
  <2>1. UNCHANGED hsmVars
    BY <1>1, <1>2, <1>4, DeinitEffect
  <2>2. ViewSame
    BY <1>1, <2>1, SameView DEF hsmVars, SessionsSame, KeystoreSame, FacadeSame
  <2>3. Contract!Refused("deinit", <<>>)
    BY <1>1, <1>4, Answers
  <2>4. QED
    BY <1>2, <1>4, <2>2, <2>3 DEF Contract!Refuse, ViewSame, Open, Store
<1>5. QED
  BY <1>3, <1>4

LEMMA CreateSessionStep ==
    ASSUME Faulty = {}, RInv, CreateSession
    PROVE  (\E h \in Sessions!IssuedId : Contract!Open(h)) \/ Contract!Refuse
<1>1. PICK status \in StatusCode, id \in Sessions!IssuedId \cup {NotWritten} :
        /\ createSession(status, id)
        /\ Result("createSession", <<>>, status, {id})
        /\ issued' = IF status = "OK" THEN issued \cup {id} ELSE issued
  BY DEF CreateSession
<1>2. Sessions!SMTypeOK /\ nextSessionId_ \in Sessions!IssuedId
  BY HsmInvParts DEF RInv, IInv, Sessions!SMTypeOK
<1>3. FacadeSame /\ KeystoreSame /\ Store' = Store
  BY <1>1, <1>2, CreateEffect, StoreAfter
<1>4. CASE status = "OK"
  <2>1. PICK i \in Sessions!Slot :
          /\ ~sessions_[i].isActive
          /\ sessions_' = [sessions_ EXCEPT ![i] = [id |-> id, isActive |-> TRUE]]
    BY <1>1, <1>2, <1>4, CreateEffect
  <2>2. isInitialized_ /\ id = nextSessionId_
    BY <1>1, <1>2, <1>4, CreateEffect
  <2>3. i \in Sessions!Slot \ Sessions!ActiveSlots
    BY <2>1 DEF Sessions!ActiveSlots
  <2>4. Open' = Open \cup {id}
    BY <1>2, <2>1, <2>3, OpenCreated
  <2>5. Cardinality(Open) < kMaxSessions
    <3>1. /\ Cardinality(Open) \in Nat /\ Cardinality(Open) <= kMaxSessions
          /\ Cardinality(Open) # kMaxSessions
      BY <2>3, OpenCount DEF RInv
    <3>2. kMaxSessions \in Nat
      BY ServiceAssumption DEF Sessions!SessionAssumption
    <3>3. QED
      BY <3>1, <3>2
  <2>6. id \notin issued
    BY <1>2, <2>2 DEF RInv, IdsFresh, CreateSession, Sessions!IssuedId
  <2>7. Contract!Accepted("createSession", <<>>, {id})
    BY <1>1, <1>4, Answers
  <2>8. Contract!Open(id)
    BY <1>1, <1>3, <1>4, <2>2, <2>4, <2>5, <2>6, <2>7, SameCardinality
       DEF Contract!Open, Open, Store, FacadeSame
  <2>9. QED
    BY <1>2, <2>2, <2>8
<1>5. CASE status # "OK"
  <2>1. SessionsSame
    BY <1>1, <1>2, <1>5, CreateEffect
  <2>2. ViewSame
    BY <1>1, <1>3, <1>5, <2>1, SameView
  <2>3. Contract!Refused("createSession", <<>>)
    BY <1>1, <1>5, Answers
  <2>4. ~isInitialized_ \/ Sessions!ActiveSlots = Sessions!Slot
    BY <1>1, <1>5 DEF RefusedWhileDown, createSession, Sessions!createSession, Fails, RInv, Follows
  <2>5. ~isInitialized_ \/ Cardinality(Open) = kMaxSessions
    BY <2>4, OpenCount DEF RInv
  <2>6. QED
    BY <2>2, <2>3, <2>5, SameCardinality DEF Contract!Refuse, ViewSame, Open, Store
<1>6. QED
  BY <1>4, <1>5

LEMMA CloseSessionStep ==
    ASSUME Faulty = {}, RInv, CloseSession
    PROVE  (\E h \in Sessions!IssuedId : Contract!Close(h)) \/ Contract!Refuse
<1>1. PICK id \in Sessions!SessionId, status \in StatusCode :
        /\ closeSession(id, status)
        /\ Result("closeSession", <<id>>, status, {})
        /\ issued' = issued
  BY DEF CloseSession
<1>2. Sessions!SMTypeOK
  BY HsmInvParts DEF RInv, IInv
<1>3. FacadeSame /\ KeystoreSame /\ Store' = Store
  BY <1>1, <1>2, CloseEffect, StoreAfter
<1>4. CASE status = "OK"
  <2>1. PICK i \in Sessions!ActiveSlots :
          /\ sessions_[i].id = id
          /\ sessions_' = [sessions_ EXCEPT ![i] = Sessions!NoSession]
    BY <1>1, <1>2, <1>4, CloseEffect
  <2>2. Open' = Open \ {id}
    BY <1>2, <2>1, OpenClosed DEF RInv
  <2>3. isInitialized_ /\ id \in Open
    BY <1>1, <1>2, <1>4, <2>1, CloseEffect DEF Open, Sessions!LiveIds
  <2>4. id \in Sessions!IssuedId
    BY <2>3 DEF RInv, IInv, IssuedSound, Open
  <2>5. Contract!Accepted("closeSession", <<id>>, {})
    BY <1>1, <1>4, Answers
  <2>6. Contract!Close(id)
    BY <1>1, <1>3, <2>2, <2>3, <2>5 DEF Contract!Close, Open, Store, FacadeSame
  <2>7. QED
    BY <2>4, <2>6
<1>5. CASE status # "OK"
  <2>1. SessionsSame
    BY <1>1, <1>2, <1>5, CloseEffect
  <2>2. ViewSame
    BY <1>1, <1>3, <2>1, SameView
  <2>3. Contract!Refused("closeSession", <<id>>)
    BY <1>1, <1>5, Answers
  <2>4. ~isInitialized_ \/ id \notin Open
    BY <1>1, <1>5 DEF RefusedWhileDown, closeSession, CallSessions, Sessions!closeSession, Fails,
                      RInv, Follows, Open
  <2>5. QED
    BY <1>1, <2>2, <2>3, <2>4 DEF Contract!Refuse, ViewSame, Open, Store
<1>6. QED
  BY <1>4, <1>5

LEMMA ClearAllKeysStep ==
    ASSUME Faulty = {}, RInv, ClearAllKeys PROVE Contract!Wipe \/ Contract!Refuse
<1>1. PICK status \in StatusCode :
        /\ clearAllKeys(status)
        /\ Result("clearAllKeys", <<>>, status, {})
        /\ issued' = issued
  BY DEF ClearAllKeys
<1>2. FacadeSame /\ SessionsSame /\ Open' = Open
  BY <1>1, ClearEffect, OpenAfter DEF SessionsSame, sessionVars
<1>3. CASE status = "OK"
  <2>1. isInitialized_ /\ Store' = Contract!Empty
    BY <1>1, <1>3, ClearEffect, StoreAfter
  <2>2. Contract!Accepted("clearAllKeys", <<>>, {})
    BY <1>1, <1>3, Answers
  <2>3. QED
    BY <1>1, <1>2, <2>1, <2>2 DEF Contract!Wipe, Open, Store, FacadeSame
<1>4. CASE status # "OK"
  <2>1. ViewSame
    BY <1>1, <1>2, <1>4, ClearEffect, SameView
  <2>2. Contract!Refused("clearAllKeys", <<>>)
    BY <1>1, <1>4, Answers
  <2>3. ~isInitialized_
    BY <1>1, <1>4 DEF RefusedWhileDown, clearAllKeys, CallKeystore, Keystore!clearAll, Fails, RInv,
                      Follows
  <2>4. QED
    BY <2>1, <2>2, <2>3 DEF Contract!Refuse, ViewSame, Open, Store
<1>5. QED
  BY <1>3, <1>4

LEMMA ImportKeyStep ==
    ASSUME Faulty = {}, RInv, NEW s \in Keystore!KeySlotArg, ImportKey(s)
    PROVE  \/ s \in Keystore!KeySlot /\ \E k \in Contract!Key : Contract!Import(s, k)
           \/ Contract!Refuse
<1>1. PICK a \in Algorithm, d \in Keystore!KeyData, p \in Permissions,
           status \in StatusCode :
        /\ importKey(s, a, d, p, status)
        /\ Result("importKey", <<s, d.size>>, status, {})
        /\ issued' = issued
  BY DEF ImportKey
<1>2. FacadeSame /\ SessionsSame /\ Open' = Open
  BY <1>1, ImportEffect, OpenAfter DEF SessionsSame, sessionVars
<1>3. CASE status = "OK"
  <2> DEFINE k == [size |-> d.size, algorithm |-> a, permissions |-> p]
  <2>1. /\ isInitialized_ /\ Keystore!AcceptableSize(d)
        /\ ~keySlots_[s].info.isOccupied
        /\ SlotBecomes(s, Keystore!Filled(keySlots_[s], s, a, d, p))
    BY <1>1, <1>3, ImportEffect
  <2>2. s \in Keystore!KeySlot /\ Store[s] = {}
    BY <2>1 DEF SlotBecomes, Store, Described
  <2>3. Described(Keystore!Filled(keySlots_[s], s, a, d, p)) = {k}
    BY DEF Described, Keystore!Filled
  <2>4. k \in Contract!Key
    BY <2>1 DEF Contract!Key, Keystore!AcceptableSize
  <2>5. Keystore!KSTypeOK
    BY HsmInvParts DEF RInv, IInv, KeystoreInv
  <2>6. Store' = [Store EXCEPT ![s] = {k}]
    BY <2>1, <2>3, <2>5, StoreAfter
  <2>7. Contract!Accepted("importKey", <<s, k.size>>, {})
    BY <1>1, <1>3, Answers
  <2> HIDE DEF k
  <2>8. Contract!Import(s, k)
    BY <1>1, <1>2, <2>1, <2>2, <2>6, <2>7
       DEF Contract!Import, Open, Store, FacadeSame
  <2>9. QED
    BY <2>2, <2>4, <2>8
<1>4. CASE status # "OK"
  <2>1. ViewSame
    BY <1>1, <1>2, <1>4, ImportEffect, SameView
  <2>2. Contract!Refused("importKey", <<s, d.size>>)
    BY <1>1, <1>4, Answers
  <2>3. \/ ~isInitialized_ \/ s \notin Keystore!KeySlot
        \/ ~Keystore!AcceptableSize(d)
        \/ s \in Keystore!KeySlot /\ keySlots_[s].info.isOccupied
    BY <1>1, <1>4 DEF RefusedWhileDown, importKey, CallKeystore, Keystore!importKey, Fails, RInv,
                      Follows, Keystore!isValidSlotId, Keystore!isSlotOccupied
  <2>4. \/ ~isInitialized_ \/ s \notin Keystore!KeySlot
        \/ d.size \notin 1 .. kMaxKeySize \/ Store[s] # {}
    BY <2>3 DEF Keystore!AcceptableSize, Store, Described
  <2>5. d.size \in 0 .. kMaxKeySize + 1
    BY DEF Keystore!KeyData
  <2>6. QED
    BY <2>1, <2>2, <2>4, <2>5 DEF Contract!Refuse, ViewSame, Open, Store
<1>5. QED
  BY <1>3, <1>4

LEMMA DeleteKeyStep ==
    ASSUME Faulty = {}, RInv, NEW s \in Keystore!KeySlotArg, DeleteKey(s)
    PROVE  (s \in Keystore!KeySlot /\ Contract!Delete(s)) \/ Contract!Refuse
<1>1. PICK status \in StatusCode :
        /\ deleteKey(s, status) /\ Result("deleteKey", <<s>>, status, {})
        /\ issued' = issued
  BY DEF DeleteKey
<1>2. FacadeSame /\ SessionsSame /\ Open' = Open
  BY <1>1, DeleteEffect, OpenAfter DEF SessionsSame, sessionVars
<1>3. CASE status = "OK"
  <2>1. /\ isInitialized_ /\ keySlots_[s].info.isOccupied
        /\ SlotBecomes(s, Keystore!BlankSlot)
    BY <1>1, <1>3, DeleteEffect
  <2>2. s \in Keystore!KeySlot /\ Store[s] # {}
    BY <2>1 DEF SlotBecomes, Store, Described
  <2>3. Keystore!KSTypeOK
    BY HsmInvParts DEF RInv, IInv, KeystoreInv
  <2>4. Store' = [Store EXCEPT ![s] = {}]
    BY <2>1, <2>3, StoreAfter, BlankSlotSound, EmptySlotTellsNothing
  <2>5. Contract!Accepted("deleteKey", <<s>>, {})
    BY <1>1, <1>3, Answers
  <2>6. QED
    BY <1>1, <1>2, <2>1, <2>2, <2>4, <2>5
       DEF Contract!Delete, Open, Store, FacadeSame
<1>4. CASE status # "OK"
  <2>1. ViewSame
    BY <1>1, <1>2, <1>4, DeleteEffect, SameView
  <2>2. Contract!Refused("deleteKey", <<s>>)
    BY <1>1, <1>4, Answers
  <2>3. \/ ~isInitialized_ \/ s \notin Keystore!KeySlot
        \/ s \in Keystore!KeySlot /\ ~keySlots_[s].info.isOccupied
    BY <1>1, <1>4 DEF RefusedWhileDown, deleteKey, CallKeystore, Keystore!deleteKey, Fails, RInv,
                      Follows, Keystore!isValidSlotId, Keystore!isSlotOccupied
  <2>4. ~isInitialized_ \/ s \notin Keystore!KeySlot \/ Store[s] = {}
    BY <2>3 DEF Store, Described
  <2>5. QED
    BY <2>1, <2>2, <2>4 DEF Contract!Refuse, ViewSame, Open, Store
<1>5. QED
  BY <1>3, <1>4

LEMMA GetKeySlotInfoStep ==
    ASSUME Faulty = {}, RInv, NEW s \in Keystore!KeySlotArg, GetKeySlotInfo(s)
    PROVE  (s \in Keystore!KeySlot /\ Contract!Describe(s)) \/ Contract!Refuse
<1> DEFINE told == IF s \in Keystore!KeySlot THEN Described(keySlots_[s]) ELSE {}
<1>1. PICK status \in StatusCode :
        /\ getKeySlotInfo(s, status)
        /\ Result("getKeySlotInfo", <<s>>, status, told)
        /\ issued' = issued
  BY DEF GetKeySlotInfo
<1>2. ViewSame
  BY <1>1, InfoEffect, SameView
<1>3. status = "OK" <=> isInitialized_ /\ s \in Keystore!KeySlot
  BY <1>1 DEF getKeySlotInfo, RefusedWhileDown, CallKeystore, Keystore!getSlotInfo,
              Keystore!SlotInfoStatus, Keystore!isValidSlotId, Fails, RInv, Follows
<1>4. CASE status = "OK"
  <2>1. told = Store[s]
    BY <1>3, <1>4 DEF Store
  <2>2. Contract!Accepted("getKeySlotInfo", <<s>>, told)
    BY <1>1, <1>4, Answers
  <2>3. QED
    BY <1>2, <1>3, <1>4, <2>1, <2>2 DEF Contract!Describe, ViewSame, Open, Store
<1>5. CASE status # "OK"
  <2>1. Contract!Refused("getKeySlotInfo", <<s>>)
    BY <1>1, <1>5, Answers
  <2>2. QED
    BY <1>2, <1>3, <1>5, <2>1 DEF Contract!Refuse, ViewSame, Open, Store
<1>6. QED
  BY <1>4, <1>5

\* A key's access counter is not part of the contract's view.
LEMMA CountedView ==
    ASSUME HsmInv, NEW s, SlotBecomes(s, Counted(s)) PROVE Store' = Store
<1>1. Keystore!KSTypeOK /\ s \in Keystore!KeySlot
  BY HsmInvParts DEF KeystoreInv, SlotBecomes
<1>2. Described(Counted(s)) = Described(keySlots_[s])
  BY <1>1, CountedSound DEF Described
<1>3. Store' = [Store EXCEPT ![s] = Described(keySlots_[s])]
  BY <1>1, <1>2, StoreAfter
<1>4. QED
  BY <1>1, <1>3 DEF Store

\* Why encrypt() and decrypt() are refused when nothing can fail.
LEMMA CryptReasons ==
    ASSUME Faulty = {}, RInv, NEW flag, NEW id, NEW s \in Keystore!KeySlotArg,
           NEW in \in BufferSize, NEW out \in BufferSize, NEW status,
           crypt(flag, id, s, in, out, status), status # "OK"
    PROVE  \/ ~isInitialized_ \/ id \notin Open \/ BadBuffers(in, out)
           \/ s \notin Keystore!KeySlot
           \/ ~(keySlots_[s].info.isOccupied /\ Permits(flag, s))
<1> SUFFICES ASSUME isInitialized_, id \in Open, ~BadBuffers(in, out),
                    s \in Keystore!KeySlot, keySlots_[s].info.isOccupied,
                    Permits(flag, s)
             PROVE  FALSE
  OBVIOUS
<1>1. smInitialized_ /\ ksInitialized_ /\ wiring = FullyWired
  BY DEF RInv, Follows
<1>2. isSessionValid(id)
  BY <1>1 DEF isSessionValid, Sessions!isSessionValid, Open
<1>3. ~(s >= kMaxKeySlots)
  BY ServiceAssumption DEF Keystore!KeySlot, Keystore!KeystoreAssumption
<1>4. Keystore!SlotInfoStatus(s) = "OK"
  BY <1>1 DEF Keystore!SlotInfoStatus, Keystore!isValidSlotId
<1>5. Admission(flag, id, s, in, out, "OK") = "OK"
  BY <1>2, <1>3 DEF Admission
<1>6. Transform(in, out, s, status)
  BY <1>4, <1>5 DEF crypt, Fails
<1>7. PICK fetched \in StatusCode :
        /\ Keystore!getKey(s, fetched)
        /\ status = IF fetched # "OK" THEN fetched ELSE AlgorithmStatus(in, out)
  BY <1>1, <1>6 DEF Transform, FullyWired
<1>8. fetched = "OK"
  BY <1>1, <1>7 DEF Keystore!getKey, Keystore!isSlotOccupied, Keystore!isValidSlotId
<1>9. QED
  BY <1>7, <1>8 DEF AlgorithmStatus

LEMMA CryptStep ==
    ASSUME Faulty = {}, RInv, NEW flag \in {"ENCRYPT", "DECRYPT"},
           NEW s \in Keystore!KeySlotArg, Crypt(flag, s)
    PROVE  \/ /\ s \in Keystore!KeySlot
              /\ \E h \in Sessions!IssuedId, in, out \in BufferSize :
                   Contract!Crypt(flag, h, s, in, out)
           \/ Contract!Refuse
<1>1. PICK id \in Sessions!SessionId, in \in BufferSize, out \in BufferSize,
           status \in StatusCode :
        /\ crypt(flag, id, s, in, out, status)
        /\ Result(flag, <<id, s, in, out>>, status, {})
        /\ issued' = issued
  BY DEF Crypt
<1>2. FacadeSame /\ SessionsSame /\ Open' = Open
  BY <1>1, CryptEffect, OpenAfter DEF SessionsSame, sessionVars
<1>3. Store' = Store
  BY <1>1, CryptEffect, StoreAfter, CountedView DEF RInv, IInv
<1>4. ViewSame
  BY <1>1, <1>2, <1>3 DEF ViewSame, FacadeSame
<1>5. Contract!Usable(in, out) <=> ~BadBuffers(in, out)
  BY SystemAssumption DEF Contract!Usable, BadBuffers
<1>6. Contract!May(flag, s)
        <=> /\ s \in Keystore!KeySlot
            /\ keySlots_[s].info.isOccupied /\ Permits(flag, s)
  <2>1. Contract!May(flag, s)
          <=> s \in Keystore!KeySlot
                /\ \E k \in Described(keySlots_[s]) : flag \in k.permissions
    BY DEF Contract!May
  <2>2. CASE keySlots_[s].info.isOccupied
    <3> DEFINE k == [size |-> keySlots_[s].info.keySize,
                     algorithm |-> keySlots_[s].info.algorithm,
                     permissions |-> keySlots_[s].info.permissions]
    <3>1. Described(keySlots_[s]) = {k}
      BY <2>2 DEF Described
    <3>2. k.permissions = keySlots_[s].info.permissions
      OBVIOUS
    <3> HIDE DEF k
    <3>3. QED
      BY <2>1, <2>2, <3>1, <3>2 DEF Permits
  <2>3. CASE ~keySlots_[s].info.isOccupied
    BY <2>1, <2>3 DEF Described
  <2>4. QED
    BY <2>2, <2>3
<1>7. CASE status = "OK"
  <2>1. /\ isSessionValid(id) /\ ~BadBuffers(in, out) /\ Permits(flag, s)
        /\ keySlots_[s].info.isOccupied /\ s \in Keystore!KeySlot
    BY <1>1, <1>7, CryptEffect
  <2>2. isInitialized_ /\ id \in Open
    BY <2>1 DEF isSessionValid, Sessions!isSessionValid, Open
  <2>3. id \in Sessions!IssuedId
    BY <2>2 DEF RInv, IInv, IssuedSound, Open
  <2>4. Contract!Accepted(flag, <<id, s, in, out>>, {})
    BY <1>1, <1>7, Answers
  <2>5. Contract!Crypt(flag, id, s, in, out)
    BY <1>4, <1>5, <1>6, <2>1, <2>2, <2>4
       DEF Contract!Crypt, ViewSame, Open, Store
  <2>6. QED
    BY <2>1, <2>3, <2>5
<1>8. CASE status # "OK"
  <2>1. \/ ~isInitialized_ \/ id \notin Open
        \/ ~Contract!Usable(in, out) \/ ~Contract!May(flag, s)
    BY <1>1, <1>5, <1>6, <1>8, CryptReasons
  <2>2. Contract!Refused(flag, <<id, s, in, out>>)
    BY <1>1, <1>8, Answers
  <2>3. QED
    BY <1>4, <2>1, <2>2
       DEF Contract!Refuse, Contract!Flag, ViewSame, Open, Store
<1>9. QED
  BY <1>7, <1>8

LEMMA ContractStep ==
    ASSUME Faulty = {}, OwnerCalls = FALSE, RInv, [Next]_vars
    PROVE  [Contract!Next]_(Contract!contractVars)
<1>1. CASE UNCHANGED vars
  BY <1>1 DEF vars, hsmVars, sessionVars, keystoreVars, Contract!contractVars,
              Sessions!LiveIds, Sessions!ActiveSlots, Described
<1>2. CASE Initialise
  BY <1>2, InitialiseStep DEF Contract!Next
<1>3. CASE Deinitialise
  BY <1>3, DeinitialiseStep DEF Contract!Next
<1>4. CASE CreateSession
  BY <1>4, CreateSessionStep DEF Contract!Next
<1>5. CASE CloseSession
  BY <1>5, CloseSessionStep DEF Contract!Next
<1>6. CASE ClearAllKeys
  BY <1>6, ClearAllKeysStep DEF Contract!Next
<1>7. ASSUME NEW s \in Keystore!KeySlotArg, ImportKey(s) PROVE Contract!Next
  BY <1>7, ImportKeyStep DEF Contract!Next
<1>8. ASSUME NEW s \in Keystore!KeySlotArg, DeleteKey(s) PROVE Contract!Next
  BY <1>8, DeleteKeyStep DEF Contract!Next
<1>9. ASSUME NEW s \in Keystore!KeySlotArg, GetKeySlotInfo(s) PROVE Contract!Next
  BY <1>9, GetKeySlotInfoStep DEF Contract!Next
<1>10. ASSUME NEW s \in Keystore!KeySlotArg, NEW flag \in {"ENCRYPT", "DECRYPT"},
              Crypt(flag, s)
       PROVE  Contract!Next
  <2>1. \/ /\ s \in Keystore!KeySlot
           /\ \E h \in Sessions!IssuedId, in, out \in BufferSize :
                Contract!Crypt(flag, h, s, in, out)
        \/ Contract!Refuse
    BY <1>10, CryptStep
  <2>2. QED
    BY <2>1 DEF Contract!Next, Contract!Flag
<1>11. QED
  BY <1>1, <1>2, <1>3, <1>4, <1>5, <1>6, <1>7, <1>8, <1>9, <1>10
     DEF Next, Encrypt, Decrypt, OwnerInit, OwnerDeinit

\* The facade, its session manager, its keystore and its crypto service do
\* together what IHsmApi promises: whatever the callers do, and whatever the
\* sizes of the tables, every call takes effect as the contract says or is
\* refused for one of its reasons.  A service that fails, or is started or
\* stopped behind the facade's back, would be none of those reasons.
THEOREM FacadeImplementsContract ==
    ASSUME Faulty = {}, OwnerCalls = FALSE, Wirings \subseteq {FullyWired}
    PROVE  Spec => ImplementsContract
<1>1. Init => Contract!Init /\ RInv
  <2> SUFFICES ASSUME Init PROVE Contract!Init /\ RInv
    OBVIOUS
  <2>1. IInv
    BY InitialInv
  <2>2. wiring = FullyWired
    BY DEF Init, HsmInit
  <2>3. Follows
    BY DEF Init, HsmInit, Sessions!SMInit, Keystore!KSInit, Follows
  <2>4. \A i \in Sessions!Slot : ~sessions_[i].isActive
    BY DEF Init, HsmInit, Sessions!SMInit, Sessions!NoSession
  <2>5. Ids /\ Open = {}
    BY <2>4 DEF Ids, IdsFresh, IdsDistinct, Open, Sessions!LiveIds,
                Sessions!ActiveSlots, Init, HsmInit
  <2>6. ~isInitialized_ /\ \A s \in Keystore!KeySlot : Described(keySlots_[s]) = {}
    BY DEF Init, HsmInit, Keystore!KSInit, Keystore!BlankSlot, Keystore!BlankInfo,
           Described
  <2>7. Store = Contract!Empty
    BY <2>6 DEF Store, Contract!Empty
  <2>8. Contract!Init
    BY <2>5, <2>7 DEF Contract!Init, Init, HsmInit, Open, Store
  <2>9. QED
    BY <2>1, <2>2, <2>3, <2>5, <2>8 DEF RInv, Ids
<1>2. RInv /\ [Next]_vars => RInv'
  BY RInvStep
<1>3. RInv /\ [Next]_vars => [Contract!Next]_(Contract!contractVars)
  BY ContractStep
<1>4. QED
  BY <1>1, <1>2, <1>3, PTL DEF Spec, ImplementsContract, Contract!Spec
=============================================================================
