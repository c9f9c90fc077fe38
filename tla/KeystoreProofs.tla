--------------------------- MODULE KeystoreProofs ---------------------------
(***************************************************************************)
(* Proofs about the keystore for every number of slots, every key size and    *)
(* every set of keys.                                                        *)
(*                                                                          *)
(* The argument: importKey() writes only the cells of the key's own size, so  *)
(* a stored key is free of residue only because the memory of an empty slot   *)
(* is blank.  NoResidue says both, and is inductive with the types.          *)
(***************************************************************************)
EXTENDS KeystoreHistory, CounterArithmetic, TLAPS

KInv == TypeOK /\ NoResidue

-----------------------------------------------------------------------------
(* Types of the values that the operations write.                           *)

LEMMA BlankSlotType == BlankSlot \in [info : InfoType, key : KeyType,
                                      accessCount : 0 .. CountRange - 1]
<1>1. BlankInfo \in InfoType
  BY KeystoreAssumption DEF BlankInfo, InfoType, KeySlot
<1>2. BlankKey \in KeyType
  BY KeystoreAssumption DEF BlankKey, KeyType, BlankMemory
<1>3. 0 \in 0 .. CountRange - 1
  BY KeystoreAssumption
<1>4. QED
  BY <1>1, <1>2, <1>3 DEF BlankSlot

\* A slot that an import fills has its type, whatever it held before.
LEMMA FilledType ==
    ASSUME KSTypeOK, NEW s \in KeySlot, NEW a \in Algorithm,
           NEW d \in KeyData, NEW p \in Permissions, AcceptableSize(d)
    PROVE  Filled(keySlots_[s], s, a, d, p) \in
             [info : InfoType, key : KeyType, accessCount : 0 .. CountRange - 1]
<1>1. d.size \in 0 .. kMaxKeySize /\ d.material \in KeyMaterial
  BY KeystoreAssumption DEF AcceptableSize, KeyData
<1>2. CopyInto(keySlots_[s].key.data, d) \in [Cell -> KeyMaterial \cup {Zero}]
  BY <1>1 DEF CopyInto, KSTypeOK, KeyType
<1>3. 0 \in 0 .. CountRange - 1
  BY KeystoreAssumption
<1>4. QED
  BY <1>1, <1>2, <1>3 DEF Filled, InfoType, KeyType

-----------------------------------------------------------------------------
(* Importing into blank memory leaves exactly the key.                      *)

Sound(s, slot, up) ==
    IF slot.info.isOccupied
      THEN /\ up
           /\ KeyIn(slot) # {}
           /\ slot.info.id = s
           /\ slot.info.keySize = slot.key.size
           /\ slot.info.algorithm = slot.key.algorithm
      ELSE slot.info = BlankInfo /\ slot.key = BlankKey

LEMMA NoResidueIsSound ==
    NoResidue <=> \A s \in KeySlot : Sound(s, keySlots_[s], isInitialized_)
BY DEF NoResidue, Sound

LEMMA BlankIsSound ==
    ASSUME NEW s, NEW up, NEW slot, slot.info = BlankInfo, slot.key = BlankKey
    PROVE  Sound(s, slot, up)
BY DEF Sound, BlankInfo

LEMMA FilledIsSound ==
    ASSUME NEW s, NEW slot, slot.key = BlankKey, NEW a, NEW p,
           NEW d \in KeyData
    PROVE  Sound(s, Filled(slot, s, a, d, p), TRUE)
<1> DEFINE new == Filled(slot, s, a, d, p)
<1>1. /\ new.key.data = CopyInto(BlankMemory, d)
      /\ new.key.size = d.size /\ new.key.algorithm = a
      /\ new.info.isOccupied /\ new.info.id = s
      /\ new.info.keySize = d.size /\ new.info.algorithm = a
  BY DEF Filled, BlankKey
<1>2. d.material \in KeyMaterial
      /\ CopyInto(BlankMemory, d) = Padded(d.material, d.size)
  BY DEF KeyData, CopyInto, BlankMemory, Padded
<1> HIDE DEF new
<1>3. KeyIn(new) # {}
  BY <1>1, <1>2 DEF KeyIn
<1>4. QED
  BY <1>1, <1>3 DEF Sound, new

-----------------------------------------------------------------------------
(* What the operations do to the slots: nothing, or they blank all slots, or  *)
(* they blank, fill or count one.                                            *)

Unchanged == UNCHANGED ksVars

Blanked(up) ==
    keySlots_' = [s \in KeySlot |-> BlankSlot] /\ isInitialized_' = up

Becomes(s, slot) ==
    /\ s \in KeySlot /\ isInitialized_ /\ isInitialized_'
    /\ keySlots_' = [keySlots_ EXCEPT ![s] = slot]

\* A step of one of these kinds preserves the invariant.
LEMMA UnchangedKeeps ==
    ASSUME KInv, Unchanged, reads' \in [KeySlot -> Nat] PROVE KInv'
<1>1. keySlots_' = keySlots_ /\ isInitialized_' = isInitialized_
  BY DEF Unchanged, ksVars
<1>2. TypeOK'
  BY <1>1 DEF KInv, TypeOK, KSTypeOK
<1>3. NoResidue'
  BY <1>1 DEF KInv, NoResidue, KeyIn
<1>4. QED
  BY <1>2, <1>3 DEF KInv

LEMMA BlankedKeeps ==
    ASSUME NEW up \in BOOLEAN, Blanked(up), reads' \in [KeySlot -> Nat]
    PROVE  KInv'
<1>1. KSTypeOK'
  BY BlankSlotType DEF Blanked, KSTypeOK
<1>2. \A s \in KeySlot : Sound(s, keySlots_'[s], isInitialized_')
  BY BlankIsSound DEF Blanked, BlankSlot
<1>3. NoResidue'
  BY <1>2 DEF NoResidue, Sound, KeyIn
<1>4. QED
  BY <1>1, <1>3 DEF KInv, TypeOK

LEMMA BecomesKeeps ==
    ASSUME KInv, NEW s \in KeySlot, NEW slot, Becomes(s, slot),
           slot \in [info : InfoType, key : KeyType, accessCount : 0 .. CountRange - 1],
           Sound(s, slot, TRUE), reads' \in [KeySlot -> Nat]
    PROVE  KInv'
<1>1. KSTypeOK'
  BY DEF Becomes, KInv, TypeOK, KSTypeOK
<1>2. \A t \in KeySlot : keySlots_'[t] = IF t = s THEN slot ELSE keySlots_[t]
  BY DEF Becomes, KInv, TypeOK, KSTypeOK
<1>3. \A t \in KeySlot : Sound(t, keySlots_[t], isInitialized_)
  BY NoResidueIsSound DEF KInv
<1>4. isInitialized_' = TRUE /\ isInitialized_ = TRUE
  BY DEF Becomes, KInv, TypeOK, KSTypeOK
<1>5. \A t \in KeySlot : Sound(t, keySlots_'[t], isInitialized_')
  BY <1>2, <1>3, <1>4
<1>6. NoResidue'
  BY <1>5 DEF NoResidue, Sound, KeyIn
<1>7. QED
  BY <1>1, <1>6 DEF KInv, TypeOK

-----------------------------------------------------------------------------
(* Every operation is of one of these kinds.                                *)

LEMMA InitKind ==
    ASSUME NEW status, init(status) PROVE Unchanged \/ Blanked(TRUE)
BY DEF init, Unchanged, Blanked

LEMMA DeinitKind ==
    ASSUME NEW status, deinit(status) PROVE Unchanged \/ Blanked(FALSE)
BY DEF deinit, Unchanged, Blanked, Cleared

LEMMA ClearAllKind ==
    ASSUME KInv, NEW status, clearAll(status) PROVE Unchanged \/ Blanked(TRUE)
BY DEF clearAll, Unchanged, Blanked, Cleared, KInv, TypeOK, KSTypeOK

LEMMA ImportKind ==
    ASSUME KInv, NEW s, NEW a, NEW d, NEW p, NEW status,
           importKey(s, a, d, p, status)
    PROVE  \/ Unchanged
           \/ /\ AcceptableSize(d) /\ keySlots_[s].key = BlankKey
              /\ Becomes(s, Filled(keySlots_[s], s, a, d, p))
<1>1. CASE status # "OK"
  BY <1>1 DEF importKey, Unchanged
<1>2. CASE status = "OK"
  <2>1. /\ isInitialized_ /\ s \in KeySlot /\ AcceptableSize(d)
        /\ ~keySlots_[s].info.isOccupied
        /\ keySlots_' = [keySlots_ EXCEPT ![s] = Filled(@, s, a, d, p)]
        /\ isInitialized_' = isInitialized_
    BY <1>2 DEF importKey, isValidSlotId, isSlotOccupied
  <2>2. keySlots_[s].key = BlankKey
    BY <2>1 DEF KInv, NoResidue
  <2>3. QED
    BY <2>1, <2>2 DEF Becomes
<1>3. QED
  BY <1>1, <1>2

LEMMA DeleteKind ==
    ASSUME NEW s, NEW status, deleteKey(s, status)
    PROVE  Unchanged \/ Becomes(s, BlankSlot)
BY DEF deleteKey, isSlotOccupied, isValidSlotId, Unchanged, Becomes, Cleared

LEMMA GetKeyKind ==
    ASSUME NEW s, NEW status, getKey(s, status)
    PROVE  Unchanged \/ Becomes(s, [keySlots_[s] EXCEPT
                                      !.accessCount = NextCount(@)])
BY DEF getKey, isSlotOccupied, isValidSlotId, Unchanged, Becomes

\* A counted read leaves everything else in the slot as it was.
LEMMA CountedIsSound ==
    ASSUME KInv, NEW s \in KeySlot, isInitialized_
    PROVE  LET slot == [keySlots_[s] EXCEPT !.accessCount = NextCount(@)] IN
           /\ Sound(s, slot, TRUE)
           /\ slot \in [info : InfoType, key : KeyType,
                        accessCount : 0 .. CountRange - 1]
<1> DEFINE slot == [keySlots_[s] EXCEPT !.accessCount = NextCount(@)]
<1>1. keySlots_[s] \in [info : InfoType, key : KeyType,
                        accessCount : 0 .. CountRange - 1]
  BY DEF KInv, TypeOK, KSTypeOK
<1>2. NextCount(keySlots_[s].accessCount) \in 0 .. CountRange - 1
  BY <1>1, KeystoreAssumption DEF NextCount
<1>3. /\ slot.info = keySlots_[s].info /\ slot.key = keySlots_[s].key
      /\ slot \in [info : InfoType, key : KeyType, accessCount : 0 .. CountRange - 1]
  BY <1>1, <1>2
<1>4. Sound(s, keySlots_[s], TRUE)
  BY NoResidueIsSound DEF KInv, Sound
<1> HIDE DEF slot
<1>5. Sound(s, slot, TRUE)
  BY <1>3, <1>4 DEF Sound, KeyIn
<1>6. QED
  BY <1>3, <1>5 DEF slot
-----------------------------------------------------------------------------
(* The history, and every step.                                             *)

LEMMA InitialInv == Init => KInv
<1> SUFFICES ASSUME Init PROVE KInv
  OBVIOUS
<1>1. PICK n \in 0 .. CountRange - 1 :
         keySlots_ = [s \in KeySlot |-> [BlankSlot EXCEPT !.accessCount = n]]
  BY DEF Init, KSInit
<1>2. [BlankSlot EXCEPT !.accessCount = n]
        \in [info : InfoType, key : KeyType, accessCount : 0 .. CountRange - 1]
  BY BlankSlotType
<1>3. KSTypeOK /\ reads \in [KeySlot -> Nat]
  BY <1>1, <1>2 DEF Init, KSInit, KSTypeOK
<1>4. \A s \in KeySlot : Sound(s, keySlots_[s], isInitialized_)
  BY <1>1, BlankIsSound DEF BlankSlot
<1>5. QED
  BY <1>3, <1>4, NoResidueIsSound DEF KInv, TypeOK

LEMMA ReadsType ==
    ASSUME KInv, [Next]_vars PROVE reads' \in [KeySlot -> Nat]
<1>1. reads \in [KeySlot -> Nat]
  BY DEF KInv, TypeOK
<1>2. CASE UNCHANGED reads
  BY <1>1, <1>2
<1>3. CASE reads' = [s \in KeySlot |-> 0]
  BY <1>3
<1>4. ASSUME NEW s \in KeySlotArg, reads' = [reads EXCEPT ![s] = 0]
      PROVE  reads' \in [KeySlot -> Nat]
  BY <1>1, <1>4
<1>5. ASSUME NEW s \in KeySlotArg, reads' = [reads EXCEPT ![s] = @ + 1]
      PROVE  reads' \in [KeySlot -> Nat]
  <2>1. \A t \in KeySlot : (IF t = s THEN reads[t] + 1 ELSE reads[t]) \in Nat
    BY <1>1
  <2>2. reads' = [t \in KeySlot |-> IF t = s THEN reads[t] + 1 ELSE reads[t]]
    BY <1>1, <1>5
  <2>3. QED
    BY <2>1, <2>2
<1>6. QED
  BY <1>2, <1>3, <1>4, <1>5 DEF Next, vars, Initialise, Deinitialise, ClearAll,
     ImportKey, DeleteKey, GetKey, GetSlotInfo

LEMMA StepInv == KInv /\ [Next]_vars => KInv'
<1> SUFFICES ASSUME KInv, [Next]_vars PROVE KInv'
  OBVIOUS
<1> USE ReadsType
<1>1. CASE Initialise
  BY <1>1, InitKind, UnchangedKeeps, BlankedKeeps DEF Initialise
<1>2. CASE Deinitialise
  BY <1>2, DeinitKind, UnchangedKeeps, BlankedKeeps DEF Deinitialise
<1>3. CASE ClearAll
  BY <1>3, ClearAllKind, UnchangedKeeps, BlankedKeeps DEF ClearAll
<1>4. ASSUME NEW s \in KeySlotArg, ImportKey(s) PROVE KInv'
  <2>1. PICK a \in Algorithm, d \in KeyData, p \in Permissions,
             status \in StatusCode : importKey(s, a, d, p, status)
    BY <1>4 DEF ImportKey
  <2>2. CASE Unchanged
    BY <2>2, UnchangedKeeps
  <2>3. CASE /\ AcceptableSize(d) /\ keySlots_[s].key = BlankKey
             /\ Becomes(s, Filled(keySlots_[s], s, a, d, p))
    <3> DEFINE new == Filled(keySlots_[s], s, a, d, p)
    <3>1. s \in KeySlot /\ KSTypeOK
      BY <2>3 DEF Becomes, KInv, TypeOK
    <3>2. new \in [info : InfoType, key : KeyType, accessCount : 0 .. CountRange - 1]
      BY <2>3, <3>1, FilledType
    <3>3. Sound(s, new, TRUE)
      BY <2>3, FilledIsSound
    <3>4. Becomes(s, new)
      BY <2>3
    <3> HIDE DEF new
    <3>5. QED
      BY <3>1, <3>2, <3>3, <3>4, BecomesKeeps
  <2>4. QED
    BY <2>1, <2>2, <2>3, ImportKind
<1>5. ASSUME NEW s \in KeySlotArg, DeleteKey(s) PROVE KInv'
  <2>1. CASE Unchanged
    BY <2>1, UnchangedKeeps
  <2>2. CASE Becomes(s, BlankSlot)
    <3>1. Sound(s, BlankSlot, TRUE) /\ s \in KeySlot
      BY <2>2, BlankIsSound DEF BlankSlot, Becomes
    <3>2. QED
      BY <2>2, <3>1, BlankSlotType, BecomesKeeps
  <2>3. QED
    BY <1>5, <2>1, <2>2, DeleteKind DEF DeleteKey
<1>6. ASSUME NEW s \in KeySlotArg, GetKey(s) PROVE KInv'
  <2> DEFINE new == [keySlots_[s] EXCEPT !.accessCount = NextCount(@)]
  <2>1. CASE Unchanged
    BY <2>1, UnchangedKeeps
  <2>2. CASE Becomes(s, new)
    <3>1. s \in KeySlot /\ isInitialized_
      BY <2>2 DEF Becomes
    <3>2. /\ Sound(s, new, TRUE)
          /\ new \in [info : InfoType, key : KeyType,
                      accessCount : 0 .. CountRange - 1]
      BY <3>1, CountedIsSound
    <3> HIDE DEF new
    <3>3. QED
      BY <2>2, <3>1, <3>2, BecomesKeeps
  <2>3. QED
    BY <1>6, <2>1, <2>2, GetKeyKind DEF GetKey
<1>7. ASSUME NEW s \in KeySlotArg, GetSlotInfo(s) PROVE KInv'
  BY <1>7, UnchangedKeeps DEF GetSlotInfo, getSlotInfo, Unchanged
<1>8. CASE UNCHANGED vars
  BY <1>8, UnchangedKeeps DEF vars, Unchanged, ksVars
<1>9. QED
  BY <1>1, <1>2, <1>3, <1>4, <1>5, <1>6, <1>7, <1>8 DEF Next

\* Types and the absence of residue are an inductive invariant of the keystore.
THEOREM KeystoreInvariance == Spec => []KInv
BY InitialInv, StepInv, PTL DEF Spec

\* Every variable of the keystore and its history has its type.
THEOREM KeystoreTypeCorrect == Spec => []TypeOK
<1>1. KInv => TypeOK
  BY DEF KInv
<1>2. QED
  BY <1>1, KeystoreInvariance, PTL

\* deleteKey(), clearAll(), deinit() and init() leave no key material behind,
\* and a short key imported after a long one is not followed by its remains,
\* whatever the sizes of the table and of the keys.
THEOREM MemoryHoldsOnlyStoredKeys == Spec => []NoResidue
<1>1. KInv => NoResidue
  BY DEF KInv
<1>2. QED
  BY <1>1, KeystoreInvariance, PTL
-----------------------------------------------------------------------------
(* The access counter.  A new key starts at 0 and so do its reads, which is   *)
(* so because no reads are left over in an empty slot.                        *)

ReadsCounted(s, slot, n) ==
    IF slot.info.isOccupied THEN slot.accessCount = n % CountRange ELSE n = 0

CountInv == \A s \in KeySlot : ReadsCounted(s, keySlots_[s], reads[s])

\* A slot whose reads and counter do not change, or which is empty and unread.
LEMMA EmptyCounted ==
    ASSUME NEW s, NEW slot, slot.info = BlankInfo PROVE ReadsCounted(s, slot, 0)
BY DEF ReadsCounted, BlankInfo

\* The step of one slot, the others being left alone.
LEMMA CountOne ==
    ASSUME KInv, CountInv, NEW s \in KeySlot, NEW slot, NEW n \in Nat,
           keySlots_' = [keySlots_ EXCEPT ![s] = slot],
           reads' = [reads EXCEPT ![s] = n], ReadsCounted(s, slot, n)
    PROVE  CountInv'
<1>1. \A t \in KeySlot : /\ keySlots_'[t] = IF t = s THEN slot ELSE keySlots_[t]
                         /\ reads'[t] = IF t = s THEN n ELSE reads[t]
  BY DEF KInv, TypeOK, KSTypeOK
<1>2. \A t \in KeySlot : ReadsCounted(t, keySlots_'[t], reads'[t])
  BY <1>1 DEF CountInv
<1>3. QED
  BY <1>2 DEF CountInv, ReadsCounted

\* Nothing that the counters depend on changes.
LEMMA CountSame ==
    ASSUME CountInv, Unchanged, reads' = reads PROVE CountInv'
BY DEF CountInv, Unchanged, ksVars, ReadsCounted

\* All slots are empty and unread.
LEMMA CountBlank ==
    ASSUME \A s \in KeySlot : keySlots_'[s].info = BlankInfo /\ reads'[s] = 0
    PROVE  CountInv'
BY DEF CountInv, ReadsCounted, BlankInfo

\* While the keystore is down, every slot is empty and so is unread.
LEMMA DownIsBlank ==
    ASSUME KInv, CountInv, ~isInitialized_
    PROVE  \A s \in KeySlot : keySlots_[s].info = BlankInfo /\ reads[s] = 0
BY DEF KInv, NoResidue, CountInv, ReadsCounted, BlankInfo

LEMMA CountInitial == Init => CountInv
BY DEF Init, KSInit, CountInv, ReadsCounted, BlankSlot, BlankInfo

LEMMA CountStepInv == KInv /\ CountInv /\ [Next]_vars => CountInv'
<1> SUFFICES ASSUME KInv, CountInv, [Next]_vars PROVE CountInv'
  OBVIOUS
<1>0. /\ keySlots_ \in [KeySlot -> [info : InfoType, key : KeyType,
                                     accessCount : 0 .. CountRange - 1]]
      /\ reads \in [KeySlot -> Nat]
  BY DEF KInv, TypeOK, KSTypeOK
<1>1. CASE Initialise
  <2>1. CASE isInitialized_
    <3>1. Unchanged /\ reads' = reads
      BY <1>1, <2>1 DEF Initialise, init, Unchanged
    <3>2. QED
      BY <3>1, CountSame
  <2>2. CASE ~isInitialized_
    <3>1. /\ \A s \in KeySlot : keySlots_'[s] = BlankSlot
          /\ reads' = reads
      BY <1>1, <2>2 DEF Initialise, init
    <3>2. \A s \in KeySlot : keySlots_'[s].info = BlankInfo /\ reads'[s] = 0
      BY <2>2, <3>1, DownIsBlank DEF BlankSlot
    <3>3. QED
      BY <3>2, CountBlank
  <2>3. QED
    BY <2>1, <2>2
<1>2. CASE Deinitialise \/ ClearAll
  <2>1. \A s \in KeySlot : reads'[s] = 0
    BY <1>2 DEF Deinitialise, ClearAll
  <2>2. CASE ~isInitialized_
    <3>1. keySlots_' = keySlots_
      BY <1>2, <2>2 DEF Deinitialise, ClearAll, deinit, clearAll, ksVars
    <3>2. QED
      BY <2>1, <2>2, <3>1, DownIsBlank, CountBlank
  <2>3. CASE isInitialized_
    <3>1. \A s \in KeySlot : keySlots_'[s] = BlankSlot
      BY <1>2, <2>3 DEF Deinitialise, ClearAll, deinit, clearAll, Cleared
    <3>2. QED
      BY <2>1, <3>1, CountBlank DEF BlankSlot
  <2>4. QED
    BY <2>2, <2>3
<1>3. ASSUME NEW s \in KeySlotArg, ImportKey(s) PROVE CountInv'
  <2>1. PICK a \in Algorithm, d \in KeyData, p \in Permissions,
             status \in StatusCode : importKey(s, a, d, p, status)
    BY <1>3 DEF ImportKey
  <2>2. reads' = reads
    BY <1>3 DEF ImportKey
  <2>3. CASE status # "OK"
    BY <2>1, <2>2, <2>3, CountSame DEF importKey, Unchanged
  <2>4. CASE status = "OK"
    <3> DEFINE new == Filled(keySlots_[s], s, a, d, p)
    <3>1. /\ s \in KeySlot /\ ~keySlots_[s].info.isOccupied
          /\ keySlots_' = [keySlots_ EXCEPT ![s] = new]
      BY <2>1, <2>4 DEF importKey, isValidSlotId, isSlotOccupied
    <3>2. reads[s] = 0
      BY <3>1 DEF CountInv, ReadsCounted
    <3>3. reads' = [reads EXCEPT ![s] = 0]
      BY <1>0, <2>2, <3>1, <3>2
    <3>4. new.accessCount = 0 /\ new.info.isOccupied
      BY DEF Filled
    <3>5. 0 % CountRange = 0
      <4>1. CountRange \in Nat \ {0} /\ 0 \in 0 .. CountRange - 1
        BY KeystoreAssumption
      <4>2. 0 = CountRange * 0 + 0
        BY <4>1
      <4>3. QED
        BY <4>1, <4>2, RemainderIs
    <3> HIDE DEF new
    <3>6. ReadsCounted(s, new, 0)
      BY <3>4, <3>5 DEF ReadsCounted
    <3>7. QED
      BY <3>1, <3>3, <3>6, CountOne
  <2>5. QED
    BY <2>3, <2>4
<1>4. ASSUME NEW s \in KeySlotArg, DeleteKey(s) PROVE CountInv'
  <2>1. PICK status \in StatusCode :
           /\ deleteKey(s, status)
           /\ reads' = IF status = "OK" THEN [reads EXCEPT ![s] = 0] ELSE reads
    BY <1>4 DEF DeleteKey
  <2>2. CASE status # "OK"
    BY <2>1, <2>2, CountSame DEF deleteKey, Unchanged
  <2>3. CASE status = "OK"
    <3>1. s \in KeySlot /\ keySlots_' = [keySlots_ EXCEPT ![s] = BlankSlot]
      BY <2>1, <2>3 DEF deleteKey, isSlotOccupied, isValidSlotId, Cleared
    <3>2. reads' = [reads EXCEPT ![s] = 0]
      BY <2>1, <2>3
    <3>3. ReadsCounted(s, BlankSlot, 0)
      BY EmptyCounted DEF BlankSlot
    <3>4. QED
      BY <3>1, <3>2, <3>3, CountOne
  <2>4. QED
    BY <2>2, <2>3
<1>5. ASSUME NEW s \in KeySlotArg, GetKey(s) PROVE CountInv'
  <2>1. PICK status \in StatusCode :
           /\ getKey(s, status)
           /\ reads' = IF status = "OK" THEN [reads EXCEPT ![s] = @ + 1] ELSE reads
    BY <1>5 DEF GetKey
  <2>2. CASE status # "OK"
    BY <2>1, <2>2, CountSame DEF getKey, Unchanged
  <2>3. CASE status = "OK"
    <3> DEFINE new == [keySlots_[s] EXCEPT !.accessCount = NextCount(@)]
    <3>1. /\ s \in KeySlot /\ keySlots_[s].info.isOccupied
          /\ keySlots_' = [keySlots_ EXCEPT ![s] = new]
      BY <2>1, <2>3 DEF getKey, isSlotOccupied, isValidSlotId
    <3>2. reads[s] \in Nat /\ CountRange \in Nat \ {0}
      BY <1>0, <3>1, KeystoreAssumption
    <3>3. reads[s] + 1 \in Nat /\ reads' = [reads EXCEPT ![s] = reads[s] + 1]
      BY <2>1, <2>3, <3>2
    <3>4. keySlots_[s].accessCount = reads[s] % CountRange
      BY <3>1 DEF CountInv, ReadsCounted
    <3>5. NextCount(keySlots_[s].accessCount) = (reads[s] + 1) % CountRange
      BY <3>2, <3>4, CountStep DEF NextCount
    <3>6. new.info.isOccupied
            /\ new.accessCount = NextCount(keySlots_[s].accessCount)
      <4>1. keySlots_[s] \in [info : InfoType, key : KeyType,
                              accessCount : 0 .. CountRange - 1]
        BY <1>0, <3>1
      <4>2. QED
        BY <3>1, <4>1
    <3> HIDE DEF new
    <3>7. ReadsCounted(s, new, reads[s] + 1)
      BY <3>5, <3>6 DEF ReadsCounted
    <3>8. QED
      BY <3>1, <3>3, <3>7, CountOne
  <2>4. QED
    BY <2>2, <2>3
<1>6. ASSUME NEW s \in KeySlotArg, GetSlotInfo(s) PROVE CountInv'
  BY <1>6, CountSame DEF GetSlotInfo, getSlotInfo, Unchanged
<1>7. CASE UNCHANGED vars
  BY <1>7, CountSame DEF vars, Unchanged, ksVars
<1>8. QED
  BY <1>1, <1>2, <1>3, <1>4, <1>5, <1>6, <1>7 DEF Next

\* The access counter of a stored key counts exactly the getKey() calls on that
\* key, modulo its width: no count survives into the next key of the slot.
THEOREM AccessCounting == Spec => []AccessCountExact
<1>1. Init => KInv /\ CountInv
  BY InitialInv, CountInitial
<1>2. KInv /\ CountInv /\ [Next]_vars => (KInv /\ CountInv)'
  BY StepInv, CountStepInv
<1>3. CountInv => AccessCountExact
  BY DEF CountInv, ReadsCounted, AccessCountExact, isSlotOccupied
<1>4. QED
  BY <1>1, <1>2, <1>3, PTL DEF Spec
-----------------------------------------------------------------------------
(* The keystore implements its contract, step by step.  NoResidue is what      *)
(* makes it true: a slot that is occupied has a key for the contract to see,   *)
(* and the one that was imported.                                           *)

Store == [s \in KeySlot |-> Stored(keySlots_[s])]

\* The contract sees a key in exactly the occupied slots.
LEMMA SeenWhereOccupied ==
    ASSUME KInv, NEW s \in KeySlot
    PROVE  /\ keySlots_[s].info.isOccupied <=> Store[s] # {}
           /\ keySlots_[s].info.isOccupied => Store[s] = KeyIn(keySlots_[s])
BY DEF KInv, NoResidue, Store, Stored

\* What the three kinds of effect do to the contract's view.
LEMMA SeenUnchanged ==
    Unchanged => Store' = Store /\ isInitialized_' = isInitialized_
BY DEF Unchanged, ksVars, Store, Stored, KeyIn

LEMMA SeenBlanked == \A up : Blanked(up) => Store' = Contract!Empty
BY DEF Blanked, Store, Stored, BlankSlot, BlankInfo, Contract!Empty

LEMMA SeenBecomes ==
    ASSUME KInv
    PROVE  \A s, slot : Becomes(s, slot)
             => Store' = [Store EXCEPT ![s] = Stored(slot)]
<1> SUFFICES ASSUME NEW s, NEW slot, Becomes(s, slot)
             PROVE  Store' = [Store EXCEPT ![s] = Stored(slot)]
  OBVIOUS
<1>1. \A t \in KeySlot : keySlots_'[t] = IF t = s THEN slot ELSE keySlots_[t]
  BY DEF Becomes, KInv, TypeOK, KSTypeOK
<1>2. Store' = [t \in KeySlot |-> Stored(keySlots_'[t])]
  BY DEF Store, Stored, KeyIn
<1>3. QED
  BY <1>1, <1>2 DEF Store

\* The memory of a slot filled from blank memory tells which key it holds.
LEMMA FilledIsSeen ==
    ASSUME NEW slot, slot.key = BlankKey, NEW s, NEW a, NEW p,
           NEW d \in KeyData, AcceptableSize(d)
    PROVE  Stored(Filled(slot, s, a, d, p)) =
             {[material |-> d.material, size |-> d.size, algorithm |-> a,
               permissions |-> p]}
<1> DEFINE new == Filled(slot, s, a, d, p)
<1>1. /\ new.key.data = CopyInto(BlankMemory, d)
      /\ new.key.size = d.size /\ new.key.algorithm = a
      /\ new.info.isOccupied /\ new.info.permissions = p
  BY DEF Filled, BlankKey
<1>2. d.material \in KeyMaterial
      /\ CopyInto(BlankMemory, d) = Padded(d.material, d.size)
  BY DEF KeyData, CopyInto, BlankMemory, Padded
<1>3. 0 \in Cell /\ 0 < d.size
  BY KeystoreAssumption DEF Cell, AcceptableSize
<1>4. ASSUME NEW m, Padded(m, d.size) = Padded(d.material, d.size)
      PROVE  m = d.material
  BY <1>3, <1>4 DEF Padded
<1>5. {m \in KeyMaterial : new.key.data = Padded(m, new.key.size)} = {d.material}
  BY <1>1, <1>2, <1>4
<1> HIDE DEF new
<1>6. Stored(new) = KeyIn(new)
  BY <1>1 DEF Stored
<1>7. KeyIn(new) = {[material |-> d.material, size |-> d.size, algorithm |-> a,
                     permissions |-> p]}
  BY <1>1, <1>5 DEF KeyIn
<1>8. QED
  BY <1>6, <1>7 DEF new

LEMMA CountedIsSeen ==
    ASSUME KInv, NEW s \in KeySlot
    PROVE  Stored([keySlots_[s] EXCEPT !.accessCount = NextCount(@)])
             = Stored(keySlots_[s])
<1> DEFINE new == [keySlots_[s] EXCEPT !.accessCount = NextCount(@)]
<1>1. keySlots_[s] \in [info : InfoType, key : KeyType,
                        accessCount : 0 .. CountRange - 1]
  BY DEF KInv, TypeOK, KSTypeOK
<1>2. new.info = keySlots_[s].info /\ new.key = keySlots_[s].key
  BY <1>1
<1> HIDE DEF new
<1>3. Stored(new) = Stored(keySlots_[s])
  BY <1>2 DEF Stored, KeyIn
<1>4. QED
  BY <1>3 DEF new

\* The value of call after an accepted and after a refused call.
LEMMA Answers ==
    ASSUME NEW op, NEW args, NEW status, NEW out, Result(op, args, status, out)
    PROVE  /\ status = "OK" => Contract!Accepted(op, args, out)
           /\ status # "OK" => Contract!Refused(op, args)
BY DEF Result, Contract!Accepted, Contract!Refused

Refusal == \E s \in KeySlotArg, size \in 0 .. kMaxKeySize + 1 :
    Contract!Refuse(s, size)

LEMMA SomeArguments ==
    kMaxKeySlots \in KeySlotArg /\ 0 \in 0 .. kMaxKeySize + 1
BY KeystoreAssumption DEF KeySlotArg

LEMMA InitialiseStep ==
    ASSUME KInv, Initialise PROVE Contract!Start
<1>1. init("OK") /\ Result("init", <<>>, "OK", {})
  BY DEF Initialise, init
<1>2. Contract!Accepted("init", <<>>, {})
  BY <1>1, Answers
<1>3. CASE isInitialized_
  <2>1. isInitialized_ = TRUE
    BY <1>3 DEF KInv, TypeOK, KSTypeOK
  <2>2. Unchanged
    BY <1>1, <1>3 DEF init, Unchanged
  <2>3. QED
    BY <1>2, <2>1, <2>2, SeenUnchanged DEF Contract!Start, Store
<1>4. CASE ~isInitialized_
  <2>1. Blanked(TRUE)
    BY <1>1, <1>4 DEF init, Blanked
  <2>2. \A s \in KeySlot : Stored(keySlots_[s]) = {}
    BY <1>4 DEF KInv, NoResidue, Stored
  <2>3. Store' = Store /\ isInitialized_' = TRUE
    BY <2>1, <2>2, SeenBlanked DEF Store, Contract!Empty, Blanked
  <2>4. QED
    BY <1>2, <2>3 DEF Contract!Start, Store
<1>5. QED
  BY <1>3, <1>4

LEMMA StopStep ==
    ASSUME KInv, Deinitialise \/ ClearAll
    PROVE  Contract!Stop \/ Contract!Wipe \/ Refusal
<1>1. CASE Deinitialise
  <2>1. PICK status \in StatusCode :
           deinit(status) /\ Result("deinit", <<>>, status, {})
    BY <1>1 DEF Deinitialise
  <2>2. CASE isInitialized_
    <3>1. Blanked(FALSE) /\ status = "OK"
      BY <2>1, <2>2 DEF deinit, Blanked, Cleared
    <3>2. Contract!Accepted("deinit", <<>>, {}) /\ Store' = Contract!Empty
      BY <2>1, <3>1, Answers, SeenBlanked
    <3>3. QED
      BY <2>2, <3>1, <3>2 DEF Contract!Stop, Store, Blanked
  <2>3. CASE ~isInitialized_
    <3>1. Unchanged /\ status # "OK"
      BY <2>1, <2>3 DEF deinit, Unchanged
    <3>2. Contract!Refused("deinit", <<>>)
      BY <2>1, <3>1, Answers
    <3>3. QED
      BY <2>3, <3>1, <3>2, SeenUnchanged, SomeArguments
         DEF Contract!Refuse, Store, Refusal
  <2>4. QED
    BY <2>2, <2>3
<1>2. CASE ClearAll
  <2>1. PICK status \in StatusCode :
           clearAll(status) /\ Result("clearAll", <<>>, status, {})
    BY <1>2 DEF ClearAll
  <2>2. CASE isInitialized_
    <3>1. Blanked(isInitialized_) /\ status = "OK"
      BY <2>1, <2>2 DEF clearAll, Blanked, Cleared
    <3>2. Contract!Accepted("clearAll", <<>>, {}) /\ Store' = Contract!Empty
      BY <2>1, <3>1, Answers, SeenBlanked
    <3>3. QED
      BY <2>2, <3>1, <3>2 DEF Contract!Wipe, Store, Blanked
  <2>3. CASE ~isInitialized_
    <3>1. Unchanged /\ status # "OK"
      BY <2>1, <2>3 DEF clearAll, Unchanged
    <3>2. Contract!Refused("clearAll", <<>>)
      BY <2>1, <3>1, Answers
    <3>3. QED
      BY <2>3, <3>1, <3>2, SeenUnchanged, SomeArguments
         DEF Contract!Refuse, Store, Refusal
  <2>4. QED
    BY <2>2, <2>3
<1>3. QED
  BY <1>1, <1>2

LEMMA ImportKeyStep ==
    ASSUME KInv, NEW s \in KeySlotArg, ImportKey(s)
    PROVE  \/ s \in KeySlot /\ \E k \in Contract!Key : Contract!Import(s, k)
           \/ Refusal
<1>1. PICK a \in Algorithm, d \in KeyData, p \in Permissions, status \in StatusCode :
        importKey(s, a, d, p, status) /\ Result("importKey", <<s, d.size>>, status, {})
  BY DEF ImportKey
<1>2. CASE status = "OK"
  <2> DEFINE k == [material |-> d.material, size |-> d.size, algorithm |-> a,
                   permissions |-> p]
  <2>1. /\ isInitialized_ /\ s \in KeySlot /\ AcceptableSize(d)
        /\ ~keySlots_[s].info.isOccupied
        /\ keySlots_' = [keySlots_ EXCEPT ![s] = Filled(@, s, a, d, p)]
        /\ isInitialized_' = isInitialized_
    BY <1>1, <1>2 DEF importKey, isValidSlotId, isSlotOccupied
  <2>2. keySlots_[s].key = BlankKey /\ Store[s] = {}
    BY <2>1, SeenWhereOccupied DEF KInv, NoResidue
  <2>3. Stored(Filled(keySlots_[s], s, a, d, p)) = {k}
    BY <2>1, <2>2, FilledIsSeen
  <2>4. Store' = [Store EXCEPT ![s] = {k}]
    BY <2>1, <2>3, SeenBecomes DEF Becomes
  <2>5. k \in Contract!Key
    BY <2>1 DEF Contract!Key, KeyData, AcceptableSize
  <2>6. Contract!Accepted("importKey", <<s, k.size>>, {})
    BY <1>1, <1>2, Answers
  <2> HIDE DEF k
  <2>7. Contract!Import(s, k)
    BY <2>1, <2>2, <2>4, <2>6 DEF Contract!Import, Store
  <2>8. QED
    BY <2>1, <2>5, <2>7
<1>3. CASE status # "OK"
  <2>1. Unchanged
    BY <1>1, <1>3 DEF importKey, Unchanged
  <2>2. \/ ~isInitialized_ \/ s \notin KeySlot \/ d.size \notin 1 .. kMaxKeySize
        \/ s \in KeySlot /\ keySlots_[s].info.isOccupied
    BY <1>1, <1>3 DEF importKey, isValidSlotId, isSlotOccupied, AcceptableSize
  <2>3. \/ ~isInitialized_ \/ s \notin KeySlot \/ d.size \notin 1 .. kMaxKeySize
        \/ Contract!Holds(s)
    BY <2>2, SeenWhereOccupied DEF Contract!Holds, Store
  <2>4. d.size \in 0 .. kMaxKeySize + 1
    BY DEF KeyData
  <2>5. Contract!Refused("importKey", <<s, d.size>>)
    BY <1>1, <1>3, Answers
  <2>6. Contract!Refuse(s, d.size)
    BY <2>1, <2>3, <2>5, SeenUnchanged DEF Contract!Refuse, Store
  <2>7. QED
    BY <2>4, <2>6 DEF Refusal
<1>4. QED
  BY <1>2, <1>3

LEMMA DeleteKeyStep ==
    ASSUME KInv, NEW s \in KeySlotArg, DeleteKey(s)
    PROVE  (s \in KeySlot /\ Contract!Delete(s)) \/ Refusal
<1>1. PICK status \in StatusCode :
        deleteKey(s, status) /\ Result("deleteKey", <<s>>, status, {})
  BY DEF DeleteKey
<1>2. CASE status = "OK"
  <2>1. /\ isInitialized_ /\ s \in KeySlot /\ keySlots_[s].info.isOccupied
        /\ keySlots_' = [keySlots_ EXCEPT ![s] = BlankSlot]
        /\ isInitialized_' = isInitialized_
    BY <1>1, <1>2 DEF deleteKey, isSlotOccupied, isValidSlotId, Cleared
  <2>2. Stored(BlankSlot) = {}
    BY DEF Stored, BlankSlot, BlankInfo
  <2>3. Store' = [Store EXCEPT ![s] = {}]
    BY <2>1, <2>2, SeenBecomes DEF Becomes
  <2>4. Store[s] # {} /\ Contract!Accepted("deleteKey", <<s>>, {})
    BY <1>1, <1>2, <2>1, SeenWhereOccupied, Answers
  <2>5. QED
    BY <2>1, <2>3, <2>4 DEF Contract!Delete, Store
<1>3. CASE status # "OK"
  <2>1. Unchanged
    BY <1>1, <1>3 DEF deleteKey, Unchanged
  <2>2. ~isInitialized_ \/ ~(s \in KeySlot /\ keySlots_[s].info.isOccupied)
    BY <1>1, <1>3 DEF deleteKey, isSlotOccupied, isValidSlotId
  <2>3. ~isInitialized_ \/ ~Contract!Holds(s)
    BY <2>2, SeenWhereOccupied DEF Contract!Holds, Store
  <2>4. Contract!Refused("deleteKey", <<s>>)
    BY <1>1, <1>3, Answers
  <2>5. Contract!Refuse(s, 0)
    BY <2>1, <2>3, <2>4, SeenUnchanged DEF Contract!Refuse, Store
  <2>6. QED
    BY <2>5, SomeArguments DEF Refusal
<1>4. QED
  BY <1>2, <1>3

LEMMA GetKeyStep ==
    ASSUME KInv, NEW s \in KeySlotArg, GetKey(s)
    PROVE  (s \in KeySlot /\ Contract!Fetch(s)) \/ Refusal
<1> DEFINE told == IF s \in KeySlot
                     THEN {Contract!Secret(k) : k \in KeyIn(keySlots_[s])} ELSE {}
<1>1. PICK status \in StatusCode :
        getKey(s, status) /\ Result("getKey", <<s>>, status, told)
  BY DEF GetKey
<1>2. CASE status = "OK"
  <2>1. /\ isInitialized_ /\ s \in KeySlot /\ keySlots_[s].info.isOccupied
        /\ keySlots_' = [keySlots_ EXCEPT ![s] =
                           [keySlots_[s] EXCEPT !.accessCount = NextCount(@)]]
        /\ isInitialized_' = isInitialized_
    BY <1>1, <1>2 DEF getKey, isSlotOccupied, isValidSlotId
  <2>2. Store' = [Store EXCEPT ![s] = Stored(keySlots_[s])]
    <3> DEFINE new == [keySlots_[s] EXCEPT !.accessCount = NextCount(@)]
    <3>1. Becomes(s, new)
      BY <2>1 DEF Becomes
    <3>2. Stored(new) = Stored(keySlots_[s])
      BY <2>1, CountedIsSeen
    <3> HIDE DEF new
    <3>3. QED
      BY <3>1, <3>2, SeenBecomes
  <2>3. Store' = Store
    BY <2>1, <2>2 DEF Store
  <2>4. Store[s] # {} /\ told = {Contract!Secret(k) : k \in Store[s]}
    BY <2>1, SeenWhereOccupied
  <2>5. Contract!Accepted("getKey", <<s>>, told)
    BY <1>1, <1>2, Answers
  <2> HIDE DEF told
  <2>6. QED
    BY <2>1, <2>3, <2>4, <2>5 DEF Contract!Fetch, Store
<1>3. CASE status # "OK"
  <2>1. Unchanged
    BY <1>1, <1>3 DEF getKey, Unchanged
  <2>2. ~isInitialized_ \/ ~(s \in KeySlot /\ keySlots_[s].info.isOccupied)
    BY <1>1, <1>3 DEF getKey, isSlotOccupied, isValidSlotId
  <2>3. ~isInitialized_ \/ ~Contract!Holds(s)
    BY <2>2, SeenWhereOccupied DEF Contract!Holds, Store
  <2>4. Contract!Refused("getKey", <<s>>)
    BY <1>1, <1>3, Answers
  <2>5. Contract!Refuse(s, 0)
    BY <2>1, <2>3, <2>4, SeenUnchanged DEF Contract!Refuse, Store
  <2>6. QED
    BY <2>5, SomeArguments DEF Refusal
<1>4. QED
  BY <1>2, <1>3

LEMMA GetSlotInfoStep ==
    ASSUME KInv, NEW s \in KeySlotArg, GetSlotInfo(s)
    PROVE  (s \in KeySlot /\ Contract!Describe(s)) \/ Refusal
<1> DEFINE told == IF isSlotOccupied(s) THEN {Description(keySlots_[s].info)} ELSE {}
<1>1. PICK status \in StatusCode :
        getSlotInfo(s, status) /\ Result("getSlotInfo", <<s>>, status, told)
  BY DEF GetSlotInfo
<1>2. Unchanged
  BY <1>1 DEF getSlotInfo, Unchanged
<1>3. status = "OK" <=> isInitialized_ /\ s \in KeySlot
  BY <1>1 DEF getSlotInfo, SlotInfoStatus, isValidSlotId
<1>4. CASE status = "OK"
  <2>1. told = {Contract!Description(s, k) : k \in Store[s]}
    <3>1. CASE keySlots_[s].info.isOccupied
      <4>1. Store[s] # {} /\ Store[s] = KeyIn(keySlots_[s])
        BY <1>3, <1>4, <3>1, SeenWhereOccupied
      <4>2. /\ keySlots_[s].info.id = s
            /\ keySlots_[s].info.keySize = keySlots_[s].key.size
            /\ keySlots_[s].info.algorithm = keySlots_[s].key.algorithm
        BY <1>3, <1>4, <3>1 DEF KInv, NoResidue
      <4>3. \A k \in KeyIn(keySlots_[s]) :
               Contract!Description(s, k) = Description(keySlots_[s].info)
        BY <4>2 DEF KeyIn, Contract!Description, Description
      <4>4. told = {Description(keySlots_[s].info)}
        BY <1>3, <1>4, <3>1 DEF isSlotOccupied, isValidSlotId
      <4>5. QED
        BY <4>1, <4>3, <4>4
    <3>2. CASE ~keySlots_[s].info.isOccupied
      BY <1>3, <1>4, <3>2, SeenWhereOccupied DEF isSlotOccupied
    <3>3. QED
      BY <3>1, <3>2
  <2>2. Contract!Accepted("getSlotInfo", <<s>>, told)
    BY <1>1, <1>4, Answers
  <2> HIDE DEF told
  <2>3. QED
    BY <1>2, <1>3, <1>4, <2>1, <2>2, SeenUnchanged DEF Contract!Describe, Store
<1>5. CASE status # "OK"
  <2>1. Contract!Refused("getSlotInfo", <<s>>)
    BY <1>1, <1>5, Answers
  <2>2. Contract!Refuse(s, 0)
    BY <1>2, <1>3, <1>5, <2>1, SeenUnchanged DEF Contract!Refuse, Store
  <2>3. QED
    BY <2>2, SomeArguments DEF Refusal
<1>6. QED
  BY <1>4, <1>5

LEMMA ContractStep ==
    ASSUME KInv, [Next]_vars PROVE [Contract!Next]_(Contract!contractVars)
<1>1. CASE UNCHANGED vars
  BY <1>1 DEF vars, Contract!contractVars, Stored, KeyIn
<1>2. CASE Initialise
  BY <1>2, InitialiseStep DEF Contract!Next
<1>3. CASE Deinitialise \/ ClearAll
  BY <1>3, StopStep DEF Contract!Next, Refusal
<1>4. ASSUME NEW s \in KeySlotArg, ImportKey(s) PROVE Contract!Next
  BY <1>4, ImportKeyStep DEF Contract!Next, Refusal
<1>5. ASSUME NEW s \in KeySlotArg, DeleteKey(s) PROVE Contract!Next
  BY <1>5, DeleteKeyStep DEF Contract!Next, Refusal
<1>6. ASSUME NEW s \in KeySlotArg, GetKey(s) PROVE Contract!Next
  BY <1>6, GetKeyStep DEF Contract!Next, Refusal
<1>7. ASSUME NEW s \in KeySlotArg, GetSlotInfo(s) PROVE Contract!Next
  BY <1>7, GetSlotInfoStep DEF Contract!Next, Refusal
<1>8. QED
  BY <1>1, <1>2, <1>3, <1>4, <1>5, <1>6, <1>7 DEF Next

\* The keystore does what IKeystoreService promises, whatever the number of
\* slots and the sizes of the keys: every call takes effect or is refused for a
\* reason, getKey() returns exactly the key imported last, the description is
\* the one of that key, and a call on one slot leaves the others alone.
THEOREM KeystoreImplementsContract == Spec => ImplementsContract
<1>1. Init => Contract!Init
  <2> SUFFICES ASSUME Init PROVE Contract!Init
    OBVIOUS
  <2>1. \A s \in KeySlot : Stored(keySlots_[s]) = {}
    BY DEF Init, KSInit, Stored, BlankSlot, BlankInfo
  <2>2. QED
    BY <2>1 DEF Contract!Init, Contract!Empty, Init, KSInit
<1>2. KInv /\ [Next]_vars => [Contract!Next]_(Contract!contractVars)
  BY ContractStep
<1>3. QED
  BY <1>1, <1>2, InitialInv, StepInv, PTL DEF Spec, ImplementsContract, Contract!Spec
=============================================================================
