------------------------------ MODULE HsmSystem ------------------------------
(***************************************************************************)
(* The facade and its services, driven by any sequence of calls, with the    *)
(* history of the calls and the contract the facade implements.              *)
(*                                                                          *)
(* Bound: a lifetime of the facade creates at most as many sessions as there *)
(* are ids (2^32 - 2 in the code).  What happens beyond is SessionHistory's   *)
(* subject.                                                                  *)
(***************************************************************************)
EXTENDS HsmApi, FiniteSets

CONSTANTS
    Wirings,        \* the ways in which the composition root wires the facade
    OwnerCalls,     \* TRUE if the keystore's other owner calls it directly
    BufferSize      \* sizes of input and output buffers

ASSUME SystemAssumption ==
    Wirings \subseteq Wiring /\ OwnerCalls \in BOOLEAN /\ BufferSize \subseteq Nat

VARIABLES
    call,           \* the last call: operation, arguments, acceptance, result
    issued          \* the session ids handed out since the last init()

vars == <<hsmVars, call, issued>>

Result(op, args, status, out) ==
    call' = [op |-> op, args |-> args, ok |-> status = "OK",
             out |-> IF status = "OK" THEN out ELSE {}]

Init ==
    /\ HsmInit(Wirings)
    /\ call = [op |-> "none", args |-> <<>>, ok |-> TRUE, out |-> {}]
    /\ issued = {}

Initialise == \E status \in StatusCode :
    /\ init(status)
    /\ Result("init", <<>>, status, {})
    /\ issued' = IF isInitialized_ THEN issued ELSE {}

Deinitialise == \E status \in StatusCode :
    /\ deinit(status)
    /\ Result("deinit", <<>>, status, {})
    /\ UNCHANGED issued

CreateSession ==
    /\ issued # Sessions!IssuedId
    /\ \E status \in StatusCode, id \in Sessions!IssuedId \cup {NotWritten} :
        /\ createSession(status, id)
        /\ Result("createSession", <<>>, status, {id})
        /\ issued' = IF status = "OK" THEN issued \cup {id} ELSE issued

CloseSession == \E id \in Sessions!SessionId, status \in StatusCode :
    /\ closeSession(id, status)
    /\ Result("closeSession", <<id>>, status, {})
    /\ UNCHANGED issued

ImportKey(s) ==
    \E a \in Algorithm, d \in Keystore!KeyData, p \in Permissions,
       status \in StatusCode :
        /\ importKey(s, a, d, p, status)
        /\ Result("importKey", <<s, d.size>>, status, {})
        /\ UNCHANGED issued

DeleteKey(s) == \E status \in StatusCode :
    /\ deleteKey(s, status)
    /\ Result("deleteKey", <<s>>, status, {})
    /\ UNCHANGED issued

\* The contract's view of a key: what its description tells.
Described(slot) ==
    IF slot.info.isOccupied
      THEN {[size |-> slot.info.keySize, algorithm |-> slot.info.algorithm,
             permissions |-> slot.info.permissions]}
      ELSE {}

GetKeySlotInfo(s) == \E status \in StatusCode :
    /\ getKeySlotInfo(s, status)
    /\ Result("getKeySlotInfo", <<s>>, status,
              IF s \in Keystore!KeySlot THEN Described(keySlots_[s]) ELSE {})
    /\ UNCHANGED issued

ClearAllKeys == \E status \in StatusCode :
    /\ clearAllKeys(status)
    /\ Result("clearAllKeys", <<>>, status, {})
    /\ UNCHANGED issued

Crypt(flag, s) ==
    \E id \in Sessions!SessionId, in, out \in BufferSize, status \in StatusCode :
        /\ crypt(flag, id, s, in, out, status)
        /\ Result(flag, <<id, s, in, out>>, status, {})
        /\ UNCHANGED issued

Encrypt(s) == Crypt("ENCRYPT", s)
Decrypt(s) == Crypt("DECRYPT", s)

\* The keystore's other owner starts or stops it without the facade.
OwnerInit == OwnerCalls /\ \E status \in StatusCode :
    /\ Keystore!init(status)
    /\ Result("ownerInit", <<>>, status, {})
    /\ UNCHANGED <<sessionVars, isInitialized_, wiring, issued>>

OwnerDeinit == OwnerCalls /\ \E status \in StatusCode :
    /\ Keystore!deinit(status)
    /\ Result("ownerDeinit", <<>>, status, {})
    /\ UNCHANGED <<sessionVars, isInitialized_, wiring, issued>>

Next ==
    \/ Initialise \/ Deinitialise \/ CreateSession \/ CloseSession \/ ClearAllKeys
    \/ \E s \in Keystore!KeySlotArg :
          ImportKey(s) \/ DeleteKey(s) \/ GetKeySlotInfo(s)
          \/ Encrypt(s) \/ Decrypt(s)
    \/ OwnerInit \/ OwnerDeinit

Spec == Init /\ [][Next]_vars

-----------------------------------------------------------------------------
\* Every variable has its type.
TypeOK == HsmTypeOK /\ issued \subseteq Sessions!IssuedId

\* As long as no service fails and nobody else starts or stops the keystore, the
\* three flags agree after every call, and a facade that is not ready holds
\* neither sessions nor keys. (HsmLifecycle says what is left of this otherwise.)
ServicesFollowFacade ==
    /\ smInitialized_ = isReady /\ ksInitialized_ = isReady
    /\ ~isReady => /\ Sessions!LiveIds = {}
                   /\ \A s \in Keystore!KeySlot :
                        keySlots_[s].key = Keystore!BlankKey

\* A keystore that is down holds no key, whoever stopped it.
NoKeysInStoppedKeystore ==
    ~ksInitialized_ => \A s \in Keystore!KeySlot :
        keySlots_[s].key = Keystore!BlankKey /\ Described(keySlots_[s]) = {}

\* encrypt() and decrypt() succeed only for an open session that was created
\* since the last init(), on a slot whose present key was imported with that
\* permission, through a facade all of whose dependencies are present.
CryptoIsAuthorised ==
    [][(call'.ok /\ call'.op \in {"ENCRYPT", "DECRYPT"})
        => /\ isReady /\ smInitialized_ /\ ksInitialized_
           /\ wiring = FullyWired
           /\ call'.args[1] \in Sessions!LiveIds \cap issued
           /\ \E k \in Described(keySlots_[call'.args[2]]) :
                call'.op \in k.permissions]_vars

\* A fully wired facade implements the contract of IHsmApi, as the code
\* understands it: any size that fits is accepted for any algorithm, and deinit()
\* ends the open sessions. The documentation has both refused (HsmDocumented).
Contract == INSTANCE HsmContract WITH
    Handle <- Sessions!IssuedId,
    HandleArg <- Sessions!SessionId,
    MaxOpen <- kMaxSessions,
    KeySlot <- Keystore!KeySlot,
    SlotArg <- Keystore!KeySlotArg,
    KeySize <- 1 .. kMaxKeySize,
    SizeArg <- 0 .. kMaxKeySize + 1,
    ready <- isInitialized_,
    open <- Sessions!LiveIds,
    store <- [s \in Keystore!KeySlot |-> Described(keySlots_[s])]

ImplementsContract == Contract!Spec
=============================================================================
