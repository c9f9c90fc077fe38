-------------------------- MODULE KeystoreHistory --------------------------
(***************************************************************************)
(* The keystore with its call history, and the keystore contract it          *)
(* implements.  The history never influences the program's variables.        *)
(***************************************************************************)
EXTENDS KeystoreService

CONSTANT
    MaxReads    \* bound for checking: explored reads of one key

VARIABLES
    call,       \* the last call: operation, arguments, acceptance, result
    reads       \* reads[s]: successful getKey(s) since slot s was last written

vars == <<keySlots_, isInitialized_, call, reads>>

Result(op, args, status, out) ==
    call' = [op |-> op, args |-> args, ok |-> status = "OK",
             out |-> IF status = "OK" THEN out ELSE {}]

Init ==
    /\ KSInit
    /\ call = [op |-> "none", args |-> <<>>, ok |-> TRUE, out |-> {}]
    /\ reads = [s \in KeySlot |-> 0]

\* The contract's view of a slot's memory: the key whose material fills
\* exactly the first size cells.  Memory that mixes keys has no such view.
Padded(m, size) == [c \in Cell |-> IF c < size THEN m ELSE Zero]

KeyIn(slot) ==
    {[material |-> m, size |-> slot.key.size, algorithm |-> slot.key.algorithm,
      permissions |-> slot.info.permissions] :
        m \in {m \in KeyMaterial : slot.key.data = Padded(m, slot.key.size)}}

Stored(slot) == IF slot.info.isOccupied THEN KeyIn(slot) ELSE {}

Contract == INSTANCE KeystoreContract WITH
    SlotArg <- KeySlotArg,
    KeySize <- 1 .. kMaxKeySize,
    SizeArg <- 0 .. kMaxKeySize + 1,
    ready <- isInitialized_,
    store <- [s \in KeySlot |-> Stored(keySlots_[s])]

Description(info) == [id |-> info.id, size |-> info.keySize,
                      algorithm |-> info.algorithm,
                      permissions |-> info.permissions]

Initialise == \E status \in StatusCode :
    /\ init(status)
    /\ Result("init", <<>>, status, {})
    /\ UNCHANGED reads

Deinitialise == \E status \in StatusCode :
    /\ deinit(status)
    /\ Result("deinit", <<>>, status, {})
    /\ reads' = [s \in KeySlot |-> 0]

ClearAll == \E status \in StatusCode :
    /\ clearAll(status)
    /\ Result("clearAll", <<>>, status, {})
    /\ reads' = [s \in KeySlot |-> 0]

ImportKey(s) ==
    \E a \in Algorithm, d \in KeyData, p \in Permissions, status \in StatusCode :
        /\ importKey(s, a, d, p, status)
        /\ Result("importKey", <<s, d.size>>, status, {})
        /\ UNCHANGED reads

DeleteKey(s) == \E status \in StatusCode :
    /\ deleteKey(s, status)
    /\ Result("deleteKey", <<s>>, status, {})
    /\ reads' = IF status = "OK" THEN [reads EXCEPT ![s] = 0] ELSE reads

GetKey(s) == \E status \in StatusCode :
    /\ s \in KeySlot => reads[s] < MaxReads
    /\ getKey(s, status)
    /\ Result("getKey", <<s>>, status,
              IF s \in KeySlot THEN {Contract!Secret(k) : k \in KeyIn(keySlots_[s])} ELSE {})
    /\ reads' = IF status = "OK" THEN [reads EXCEPT ![s] = @ + 1] ELSE reads

GetSlotInfo(s) == \E status \in StatusCode :
    /\ getSlotInfo(s, status)
    /\ Result("getSlotInfo", <<s>>, status,
              IF isSlotOccupied(s) THEN {Description(keySlots_[s].info)} ELSE {})
    /\ UNCHANGED reads

Next ==
    \/ Initialise \/ Deinitialise \/ ClearAll
    \/ \E s \in KeySlotArg :
          ImportKey(s) \/ DeleteKey(s) \/ GetKey(s) \/ GetSlotInfo(s)

Spec == Init /\ [][Next]_vars
-----------------------------------------------------------------------------
\* Every variable has its type.
TypeOK == KSTypeOK /\ reads \in [KeySlot -> Nat]

\* Key material is exactly where a stored key is: the memory of an empty slot
\* is all Zero, also after a longer key was deleted from it, and so are the
\* cells of an occupied slot beyond its key; the description callers see
\* agrees with the key that getKey() copies.  Before init() and after deinit()
\* every slot is empty. (The description of an empty slot has id 0 in the code; a
\* test expects the slot's own id, see HsmDocumented.)
NoResidue ==
    \A s \in KeySlot : LET slot == keySlots_[s] IN
        IF slot.info.isOccupied
          THEN /\ isInitialized_
               /\ KeyIn(slot) # {}
               /\ slot.info.id = s
               /\ slot.info.keySize = slot.key.size
               /\ slot.info.algorithm = slot.key.algorithm
          ELSE slot.info = BlankInfo /\ slot.key = BlankKey

\* accessCount is the number of times the present key of the slot was fetched,
\* modulo the width of the counter; nothing carries over to the next key.
AccessCountExact ==
    \A s \in KeySlot : isSlotOccupied(s)
        => keySlots_[s].accessCount = reads[s] % CountRange

\* The keystore implements KeystoreContract: getKey() returns exactly the key that
\* was imported into the slot and not deleted since, calls on one slot never touch
\* another, and a call that is refused has one of the contract's reasons. Whether
\* the size suits the algorithm is not among them, although docs/api/services.md:560
\* compares the two (HsmDocumented).
ImplementsContract == Contract!Spec
=============================================================================
