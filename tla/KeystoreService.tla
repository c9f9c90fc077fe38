-------------------------- MODULE KeystoreService --------------------------
(***************************************************************************)
(* services::KeystoreService: kMaxKeySlots slots, each with the key's       *)
(* memory, the description reported to callers and an access counter.       *)
(*                                                                          *)
(* Key bytes are abstracted to their origin: a cell of key memory holds Zero *)
(* or a byte of one imported key's material.  That tells a cleared cell, the *)
(* right key and the remains of another key apart.                          *)
(* Operations are relations between the states before and after the call,   *)
(* the arguments and the returned status; what getKey() and getSlotInfo()    *)
(* copy out is a field of the slot, and the caller of the relation reads it. *)
(***************************************************************************)
EXTENDS HsmTypes

CONSTANTS
    kMaxKeySlots,   \* number of slots (8 in key_slot.hpp)
    kMaxKeySize,    \* bytes of key memory in a slot (64 in key_slot.hpp)
    KeyMaterial,    \* the distinct contents of imported keys
    Zero,           \* the content of a cleared cell
    Algorithm,      \* values of types::Algorithm a caller may pass
    NONE,           \* types::Algorithm::NONE
    Permissions,    \* permission masks a caller may pass
    NoPermissions,  \* the mask without any flag
    CountRange      \* accessCount is a uint32_t: it counts modulo 2^32

ASSUME KeystoreAssumption ==
    /\ kMaxKeySlots \in Nat \ {0}
    /\ kMaxKeySize \in Nat \ {0}
    /\ Zero \notin KeyMaterial
    /\ NONE \in Algorithm
    /\ NoPermissions \in Permissions
    /\ CountRange \in Nat \ {0}

VARIABLES keySlots_, isInitialized_

ksVars == <<keySlots_, isInitialized_>>

KeySlot == 0 .. kMaxKeySlots - 1
\* The argument type is uint8_t; one value stands for all those out of range.
KeySlotArg == KeySlot \cup {kMaxKeySlots}
Cell == 0 .. kMaxKeySize - 1

KeyData == [material : KeyMaterial, size : 0 .. kMaxKeySize + 1]

BlankMemory == [c \in Cell |-> Zero]
BlankKey == [data |-> BlankMemory, size |-> 0, algorithm |-> NONE]
BlankInfo == [id |-> 0, isOccupied |-> FALSE, algorithm |-> NONE,
              permissions |-> NoPermissions, keySize |-> 0]
BlankSlot == [info |-> BlankInfo, key |-> BlankKey, accessCount |-> 0]

\* accessCount has no initializer: before init() it holds any value.
KSInit ==
    /\ \E n \in 0 .. CountRange - 1 :
          keySlots_ = [s \in KeySlot |-> [BlankSlot EXCEPT !.accessCount = n]]
    /\ isInitialized_ = FALSE

isValidSlotId(keySlotId) == keySlotId \in KeySlot
isSlotOccupied(keySlotId) ==
    isValidSlotId(keySlotId) /\ keySlots_[keySlotId].info.isOccupied

-----------------------------------------------------------------------------
(* Slips: variants of definitions below that a change of the code could      *)
(* introduce.  Nothing uses them; substituting one must break a property.    *)

\* secureClear() that resets the description but leaves the key's memory.
ClearedInfoOnly(slot) == [slot EXCEPT !.info = BlankInfo, !.accessCount = 0]

\* A copy of one byte too many.
CopyIntoOffByOne(memory, keyData) ==
    [c \in Cell |-> IF c <= keyData.size THEN keyData.material ELSE memory[c]]

\* A bound check that is off by one.
AcceptableSizeOffByOne(keyData) == keyData.size \in 1 .. kMaxKeySize + 1

\* A counter that stops at its maximum instead of wrapping.
SaturatedCount(n) == IF n + 1 < CountRange THEN n + 1 ELSE n

-----------------------------------------------------------------------------
(* The operations.                                                          *)

init(status) ==
    /\ status = "OK"
    /\ \/ isInitialized_ /\ UNCHANGED ksVars
       \/ /\ ~isInitialized_
          /\ keySlots_' = [s \in KeySlot |-> BlankSlot]
          /\ isInitialized_' = TRUE

\* A slot after secureClear(): all kMaxKeySize cells are zeroed, whatever the
\* size of the key was, and every other field is reset.
Cleared(slot) == BlankSlot

clearAll(status) ==
    \/ ~isInitialized_ /\ status = "ERR_NOT_INITIALIZED" /\ UNCHANGED ksVars
    \/ /\ isInitialized_
       /\ status = "OK"
       /\ keySlots_' = [s \in KeySlot |-> Cleared(keySlots_[s])]
       /\ UNCHANGED isInitialized_

deinit(status) ==
    \/ ~isInitialized_ /\ status = "ERR_NOT_INITIALIZED" /\ UNCHANGED ksVars
    \/ /\ isInitialized_
       /\ status = "OK"
       /\ keySlots_' = [s \in KeySlot |-> Cleared(keySlots_[s])]
       /\ isInitialized_' = FALSE

\* memcpy of the key's own size: the cells beyond it are not written.
CopyInto(memory, keyData) ==
    [c \in Cell |-> IF c < keyData.size THEN keyData.material ELSE memory[c]]

Filled(slot, keySlotId, algorithm, keyData, permissions) ==
    [info |-> [id |-> keySlotId, isOccupied |-> TRUE, algorithm |-> algorithm,
               permissions |-> permissions, keySize |-> keyData.size],
     key |-> [data |-> CopyInto(slot.key.data, keyData),
              size |-> keyData.size, algorithm |-> algorithm],
     accessCount |-> 0]

AcceptableSize(keyData) == keyData.size \in 1 .. kMaxKeySize

importKey(keySlotId, algorithm, keyData, permissions, status) ==
    \/ ~isInitialized_ /\ status = "ERR_NOT_INITIALIZED" /\ UNCHANGED ksVars
    \/ /\ isInitialized_
       /\ ~isValidSlotId(keySlotId)
       /\ status = "ERR_INVALID_KEY_ID" /\ UNCHANGED ksVars
    \/ /\ isInitialized_ /\ isValidSlotId(keySlotId)
       /\ ~AcceptableSize(keyData)
       /\ status = "ERR_INVALID_PARAM" /\ UNCHANGED ksVars
    \/ /\ isInitialized_ /\ AcceptableSize(keyData)
       /\ isSlotOccupied(keySlotId)
       /\ status = "ERR_KEY_SLOT_FULL" /\ UNCHANGED ksVars
    \/ /\ isInitialized_ /\ isValidSlotId(keySlotId) /\ AcceptableSize(keyData)
       /\ ~isSlotOccupied(keySlotId)
       /\ status = "OK"
       /\ keySlots_' = [keySlots_ EXCEPT ![keySlotId] =
                          Filled(@, keySlotId, algorithm, keyData, permissions)]
       /\ UNCHANGED isInitialized_

deleteKey(keySlotId, status) ==
    \/ ~isInitialized_ /\ status = "ERR_NOT_INITIALIZED" /\ UNCHANGED ksVars
    \/ /\ isInitialized_
       /\ ~isValidSlotId(keySlotId)
       /\ status = "ERR_INVALID_KEY_ID" /\ UNCHANGED ksVars
    \/ /\ isInitialized_ /\ isValidSlotId(keySlotId)
       /\ ~isSlotOccupied(keySlotId)
       /\ status = "ERR_INVALID_PARAM" /\ UNCHANGED ksVars
    \/ /\ isInitialized_
       /\ isSlotOccupied(keySlotId)
       /\ status = "OK"
       /\ keySlots_' = [keySlots_ EXCEPT ![keySlotId] = Cleared(@)]
       /\ UNCHANGED isInitialized_

NextCount(n) == (n + 1) % CountRange

\* On OK the caller receives a copy of keySlots_[keySlotId].key.
getKey(keySlotId, status) ==
    \/ ~isInitialized_ /\ status = "ERR_NOT_INITIALIZED" /\ UNCHANGED ksVars
    \/ /\ isInitialized_
       /\ ~isSlotOccupied(keySlotId)
       /\ status = "ERR_INVALID_KEY_ID" /\ UNCHANGED ksVars
    \/ /\ isInitialized_
       /\ isSlotOccupied(keySlotId)
       /\ status = "OK"
       /\ keySlots_' = [keySlots_ EXCEPT ![keySlotId].accessCount =
                          NextCount(@)]
       /\ UNCHANGED isInitialized_

\* On OK the caller receives keySlots_[keySlotId].info, occupied or not.
SlotInfoStatus(keySlotId) ==
    IF ~isInitialized_ THEN "ERR_NOT_INITIALIZED"
    ELSE IF isValidSlotId(keySlotId) THEN "OK" ELSE "ERR_INVALID_KEY_ID"

getSlotInfo(keySlotId, status) ==
    status = SlotInfoStatus(keySlotId) /\ UNCHANGED ksVars

-----------------------------------------------------------------------------
KSNext ==
    \E status \in StatusCode :
        \/ init(status) \/ deinit(status) \/ clearAll(status)
        \/ \E s \in KeySlotArg :
            \/ deleteKey(s, status) \/ getKey(s, status) \/ getSlotInfo(s, status)
            \/ \E a \in Algorithm, d \in KeyData, p \in Permissions :
                  importKey(s, a, d, p, status)

KSSpec == KSInit /\ [][KSNext]_ksVars

KeyType == [data : [Cell -> KeyMaterial \cup {Zero}],
            size : 0 .. kMaxKeySize, algorithm : Algorithm]
InfoType == [id : KeySlot, isOccupied : BOOLEAN, algorithm : Algorithm,
             permissions : Permissions, keySize : 0 .. kMaxKeySize]

KSTypeOK ==
    /\ keySlots_ \in [KeySlot -> [info : InfoType, key : KeyType,
                                  accessCount : 0 .. CountRange - 1]]
    /\ isInitialized_ \in BOOLEAN
=============================================================================
